------------------------------- MODULE MCNet --------------------------------
(***************************************************************************)
(* The socket server and the sockets it serves.                            *)
(*   server: two clients that start and stop it and add and remove two     *)
(*           sockets;                                                      *)
(*   stream: four bytes through a connection that holds two, in calls of   *)
(*           up to three bytes.                                            *)
(* Descriptors and open sockets are interchangeable, so both sockets are   *)
(* open at first, each with one of them, and may be closed and opened.     *)
(* So are the clients: the first call is one of c1.  Nobody reads          *)
(* m_running before Run sets it, so it need not be tried with both values. *)
(* The parts share no state: the server does not look at the bytes, its    *)
(* receivers do.  A behaviour is of one of them, and the other one stays   *)
(* as it was created.                                                      *)
(***************************************************************************)
EXTENDS SocketServer

CONSTANTS s1, s2, c1, c2, Watched, Room, MaxSize, MaxTime, MaxBytes

MCFds == [s \in Sockets |-> IF s = s1 THEN 1 ELSE 2]

VARIABLES part, \* "server" or "stream"
    writer_open, reader_open, out, written, stream, read, taken, dropped, result

ioVars == <<writer_open, reader_open, out, written, stream, read, taken, dropped, result>>
allVars == <<part, vars, ioVars>>

IO == INSTANCE SocketIO

ASSUME MCAssumption == IO!SocketIOAssumption

MCInit ==
    /\ part \in {"server", "stream"}
    /\ Init /\ IO!Init
    /\ fd = MCFds
    /\ ~running

FirstCallIsOfC1 == calls = 0 /\ calls' = 1 => todo'[c2] = todo[c2]

InServer(A) == part = "server" /\ A /\ UNCHANGED <<part, ioVars>>
InStream(A) == part = "stream" /\ A /\ UNCHANGED <<part, vars>>

MCNext == InServer(Next /\ FirstCallIsOfC1) \/ InStream(IO!Next)

(* The fairness of SocketServer and of SocketIO. *)
MCFairness ==
    /\ WF_allVars(InServer(ServerStep))
    /\ \A c \in Clients : WF_allVars(InServer(ClientStep(c)))
    /\ WF_allVars(InStream(IO!TimedStep))

MCSpec == MCInit /\ [][MCNext]_allVars /\ MCFairness
-----------------------------------------------------------------------------
(* Whatever WriteBytes and ReadBytes split or fail with, each byte arrives *)
(* once and in order.                                                      *)
StreamInOrder == IO!StreamInOrder

(* What was asked for comes: Stop(true) returns, Start(true) as well if    *)
(* nobody stops the server, data of a socket that is served is handed over *)
(* and a read with a timeout comes back, within its time.                  *)
EverythingReturns ==
    /\ StopReturns /\ StartReturns /\ DataIsServed
    /\ IO!TimedReadReturns /\ []IO!WithinTimeout
=============================================================================
