---------------------------- MODULE SocketServer ----------------------------
(***************************************************************************)
(* The socket server: a thread that is driven by messages (start, stop,    *)
(* add and remove a socket) and, once started, polls the sockets it serves *)
(* whenever its queue is empty and calls the receiver of each one that has *)
(* data.  The constructor creates the thread and starts its Run.           *)
(*                                                                         *)
(* Clients call the server from their own threads; a call tests whether    *)
(* the thread is alive and then adds a message, one after the other.       *)
(* Sockets are opened, closed and filled with data by others, between any  *)
(* two looks of the server at them; a descriptor is a number the OS gives  *)
(* out again when it is free.                                              *)
(***************************************************************************)
EXTENDS Integers, Sequences, SequencesExt, FiniteSets

CONSTANTS Clients, Sockets,
          Fds,          \* descriptor numbers
          Reused,       \* may the OS give out a descriptor again while Accept
                        \* still walks over what select said of it?
          MaxCalls,     \* bound: calls of Start, Stop, Add- and RemoveSocket
          MaxArrivals,  \* bound: arrivals of data
          MaxOpens      \* bound: Open and Close of sockets

CLOSED == 0

ASSUME ServerAssumption ==
    /\ Fds \subseteq Nat \ {CLOSED}
    /\ Reused \in BOOLEAN
    /\ {MaxCalls, MaxArrivals, MaxOpens} \subseteq Nat

VARIABLES
    queue,     \* messages of m_server_thread
    pc,        \* the thread: "runner", "wait", "over", or where it is in the
               \* loop of Accept: "dispatch", "opened", "call"
    running,   \* m_running
    polling,   \* m_current_timeout is Zero, no longer Infinite
    sockets,   \* m_sockets
    receivers, \* m_receivers; a receiver is named by the socket it was added with
    readSet,   \* the read set of Accept after select
    i,         \* the index of the loop of Accept
    fd,        \* the descriptor of each socket
    data,      \* the sockets with unread data
    todo,      \* the messages each client still has to add
    sending,   \* the clients that found the thread alive and add the first one
    waits,     \* what a client waits for: "none", "reply", "over"
    calls, arrivals, opens, \* bounds
    handled,   \* history: adds minus removals handled, per socket
    stopAsked, \* history: somebody called Stop
    raced      \* history: the socket of the walk was closed after its test

threadVars == <<pc, running, polling, sockets, receivers, readSet, i>>
clientVars == <<todo, sending, waits>>
bounds == <<calls, arrivals, opens>>
history == <<handled, stopAsked, raced>>
vars == <<queue, threadVars, fd, data, clientVars, bounds, history>>

Message ==
    [kind : {"run", "start", "stop", "join"}]
    \cup [kind : {"sync"}, from : Clients]
    \cup [kind : {"add"}, socket : Sockets]
    \cup [kind : {"remove"}, socket : Sockets]

TypeOK ==
    /\ queue \in Seq(Message)
    /\ pc \in {"runner", "wait", "dispatch", "opened", "call", "over"}
    /\ running \in BOOLEAN /\ polling \in BOOLEAN
    /\ sockets \in Seq(Sockets)
    /\ receivers \in Seq(Sockets)
    /\ readSet \subseteq Fds
    /\ i \in Nat
    /\ fd \in [Sockets -> Fds \cup {CLOSED}]
    /\ data \subseteq Sockets
    /\ todo \in [Clients -> Seq(Message)]
    /\ sending \subseteq Clients
    /\ waits \in [Clients -> {"none", "reply", "over"}]
    /\ calls \in 0 .. MaxCalls /\ arrivals \in 0 .. MaxArrivals /\ opens \in 0 .. MaxOpens
    /\ handled \in [Sockets -> Int]
    /\ stopAsked \in BOOLEAN /\ raced \in BOOLEAN

DistinctFds == \A s, t \in Sockets : fd[s] = fd[t] => s = t \/ fd[s] = CLOSED

(* The constructor: the thread exists and the start of its Run is queued.  *)
(* Sockets may have been opened before.                                    *)
Init ==
    /\ queue = <<[kind |-> "run"]>>
    /\ pc = "runner"
    /\ running \in BOOLEAN     \* not initialised
    /\ polling = TRUE          \* a Time is zero by default
    /\ sockets = <<>> /\ receivers = <<>>
    /\ readSet = {} /\ i = 1
    /\ fd \in [Sockets -> Fds \cup {CLOSED}] /\ DistinctFds
    /\ data = {}
    /\ todo = [c \in Clients |-> <<>>] /\ sending = {}
    /\ waits = [c \in Clients |-> "none"]
    /\ calls = 0 /\ arrivals = 0 /\ opens = 0
    /\ handled = [s \in Sockets |-> 0]
    /\ stopAsked = FALSE /\ raced = FALSE
-----------------------------------------------------------------------------
(* The calls.  Each is the list of messages it sends, in order, and what   *)
(* it waits for afterwards.                                                *)

Begin(c, messages, then) ==
    /\ todo[c] = <<>> /\ waits[c] = "none"
    /\ calls < MaxCalls
    /\ calls' = calls + 1
    /\ todo' = [todo EXCEPT ![c] = messages]
    /\ waits' = [waits EXCEPT ![c] = then]
    /\ UNCHANGED <<queue, threadVars, fd, data, sending, arrivals, opens, handled, raced>>

Start(c, wait_started) ==
    /\ Begin(c,
             IF wait_started THEN <<[kind |-> "sync", from |-> c]>> ELSE <<[kind |-> "start"]>>,
             IF wait_started THEN "reply" ELSE "none")
    /\ UNCHANGED stopAsked

StopsAfterJoin(wait_stopped) ==
    IF wait_stopped THEN <<[kind |-> "join"], [kind |-> "stop"]>> ELSE <<[kind |-> "stop"]>>

StopMessages(wait_stopped) ==
    IF wait_stopped THEN <<[kind |-> "stop"], [kind |-> "join"]>> ELSE <<[kind |-> "stop"]>>

Stop(c, wait_stopped) ==
    /\ Begin(c, StopMessages(wait_stopped), IF wait_stopped THEN "over" ELSE "none")
    /\ stopAsked' = TRUE

AddSocket(c, s) ==
    /\ Begin(c, <<[kind |-> "add", socket |-> s]>>, "none")
    /\ UNCHANGED stopAsked

RemoveSocket(c, s) ==
    /\ Begin(c, <<[kind |-> "remove", socket |-> s]>>, "none")
    /\ UNCHANGED stopAsked

(* IsRunning and IsTerminated: a call to an ended thread returns at once.  *)
SendThreadMessage(c) ==
    /\ todo[c] # <<>> /\ c \notin sending
    /\ IF pc = "over"
          THEN /\ todo' = [todo EXCEPT ![c] = <<>>]
               /\ waits' = [waits EXCEPT ![c] = IF @ = "reply" THEN "none" ELSE @]
               /\ UNCHANGED sending
          ELSE sending' = sending \cup {c} /\ UNCHANGED <<todo, waits>>
    /\ UNCHANGED <<queue, threadVars, fd, data, bounds, history>>

(* The thread may be over by now: nobody takes the message any more. *)
AddMessage(c) ==
    /\ c \in sending
    /\ queue' = Append(queue, Head(todo[c]))
    /\ todo' = [todo EXCEPT ![c] = Tail(@)]
    /\ sending' = sending \ {c}
    /\ UNCHANGED <<threadVars, fd, data, waits, bounds, history>>

(* JoinOS, or the IsTerminated of Join. *)
JoinReturns(c) ==
    /\ waits[c] = "over" /\ todo[c] = <<>> /\ pc = "over"
    /\ waits' = [waits EXCEPT ![c] = "none"]
    /\ UNCHANGED <<queue, threadVars, fd, data, todo, sending, bounds, history>>
-----------------------------------------------------------------------------
(* ThreadRunner, before and after the Run of the server. *)
RunnerReceives ==
    /\ pc = "runner" /\ queue # <<>>
    /\ queue' = Tail(queue)
    /\ CASE Head(queue).kind = "run" ->
              pc' = "wait" /\ running' = TRUE /\ polling' = FALSE
         [] Head(queue).kind = "join" -> pc' = "over" /\ UNCHANGED <<running, polling>>
         [] OTHER -> UNCHANGED <<pc, running, polling>>
    /\ UNCHANGED <<sockets, receivers, readSet, i, fd, data, clientVars, bounds, history>>

(* HandleMessage, one operator per case. *)

HandleStart(m) ==
    /\ m.kind \in {"start", "sync"}
    /\ polling' = TRUE
    /\ waits' = IF m.kind = "sync" THEN [waits EXCEPT ![m.from] = "none"] ELSE waits
    /\ UNCHANGED <<pc, running, sockets, receivers, handled>>

HandleStop(m) ==
    /\ m.kind = "stop"
    /\ running' = FALSE
    /\ pc' = "runner"
    /\ UNCHANGED <<polling, sockets, receivers, waits, handled>>

HandleAddSocket(m) ==
    /\ m.kind = "add"
    /\ sockets' = Append(sockets, m.socket)
    /\ receivers' = Append(receivers, m.socket)
    /\ handled' = [handled EXCEPT ![m.socket] = @ + 1]
    /\ UNCHANGED <<pc, running, polling, waits>>

LastSocket(s) == Len(sockets)

Position(s) == SelectInSeq(sockets, LAMBDA t : t = s)

ReceiverPosition(s) == Position(s)

HandleRemoveSocket(m) ==
    /\ m.kind = "remove"
    /\ IF m.socket \in Range(sockets)
          THEN /\ sockets' = RemoveAt(sockets, Position(m.socket))
               /\ receivers' = RemoveAt(receivers, ReceiverPosition(m.socket))
               /\ handled' = [handled EXCEPT ![m.socket] = @ - 1]
          ELSE UNCHANGED <<sockets, receivers, handled>>
    /\ UNCHANGED <<pc, running, polling, waits>>

(* The stop message of Join: HandleMessage returns false, Run goes on. *)
NotHandled(m) ==
    /\ m.kind \in {"join", "run"}
    /\ UNCHANGED <<pc, running, polling, sockets, receivers, waits, handled>>

(* The loop of Run: WaitThreadMessage finds a message. *)
RunReceives ==
    /\ pc = "wait" /\ queue # <<>>
    /\ queue' = Tail(queue)
    /\ LET m == Head(queue) IN
          \/ HandleStart(m) \/ HandleStop(m)
          \/ HandleAddSocket(m) \/ HandleRemoveSocket(m) \/ NotHandled(m)
    /\ UNCHANGED <<readSet, i, fd, data, todo, sending, bounds, stopAsked, raced>>
-----------------------------------------------------------------------------
(* Accept, when there is no message: select over the opened sockets says   *)
(* which descriptors have data (when it fails, or finds none, Accept is    *)
(* left without a change); then the vector is walked by index.             *)

LastIndex == Len(sockets)

Opened(s) == fd[s] # CLOSED

Select ==
    /\ pc = "wait" /\ queue = <<>> /\ polling
    /\ readSet' = {fd[s] : s \in {t \in Range(sockets) : Opened(t) /\ t \in data}}
    /\ readSet' # {}
    /\ pc' = "dispatch" /\ i' = 1
    /\ UNCHANGED <<queue, running, polling, sockets, receivers, fd, data, clientVars, bounds,
                   history>>

(* The socket at the index is tested ... *)
IsOpened ==
    /\ pc = "dispatch" /\ i <= LastIndex
    /\ IF Opened(sockets[i])
          THEN pc' = "opened" /\ raced' = FALSE /\ UNCHANGED i
          ELSE i' = i + 1 /\ UNCHANGED <<pc, raced>>
    /\ UNCHANGED <<queue, running, polling, sockets, receivers, readSet, fd, data, clientVars,
                   bounds, handled, stopAsked>>

SelectedUnchecked(s) == {TRUE}

(* ... then FD_ISSET asks for its descriptor, and is undefined for that of *)
(* a socket closed since its test ...                                      *)
Selected(s) == IF Opened(s) THEN {fd[s] \in readSet} ELSE BOOLEAN

FdIsSet ==
    /\ pc = "opened"
    /\ \E set \in Selected(sockets[i]) :
          IF set THEN pc' = "call" /\ UNCHANGED i ELSE pc' = "dispatch" /\ i' = i + 1
    /\ UNCHANGED <<queue, running, polling, sockets, receivers, readSet, fd, data, clientVars,
                   bounds, history>>

(* ... and the receiver is called.  It reads the data, and may close the   *)
(* socket or ask the server to remove it or to stop.                       *)
OnNewData ==
    /\ pc = "call"
    /\ LET s == sockets[i] IN
          /\ data' = data \ {s}
          /\ \/ UNCHANGED <<queue, fd, stopAsked>>
             \/ fd' = [fd EXCEPT ![s] = CLOSED] /\ UNCHANGED <<queue, stopAsked>>
             \/ /\ queue' = Append(queue, [kind |-> "remove", socket |-> s])
                /\ UNCHANGED <<fd, stopAsked>>
             \/ /\ queue' = Append(queue, [kind |-> "stop"]) /\ stopAsked' = TRUE
                /\ UNCHANGED fd
    /\ pc' = "dispatch" /\ i' = i + 1 /\ raced' = FALSE
    /\ UNCHANGED <<running, polling, sockets, receivers, readSet, clientVars, bounds, handled>>

LeaveAccept ==
    /\ pc = "dispatch" /\ i > LastIndex
    /\ pc' = "wait" /\ readSet' = {} /\ i' = 1 /\ raced' = FALSE
    /\ UNCHANGED <<queue, running, polling, sockets, receivers, fd, data, clientVars, bounds,
                   handled, stopAsked>>
-----------------------------------------------------------------------------
(* The sockets. *)
Arrive(s) ==
    /\ arrivals < MaxArrivals /\ arrivals' = arrivals + 1
    /\ Opened(s)
    /\ data' = data \cup {s}
    /\ UNCHANGED <<queue, threadVars, fd, clientVars, calls, opens, history>>

Open(s) ==
    /\ opens < MaxOpens /\ opens' = opens + 1
    /\ ~Opened(s)
    /\ \E n \in Fds \ Range(fd) :
          /\ n \in readSet => Reused
          /\ fd' = [fd EXCEPT ![s] = n]
    /\ UNCHANGED <<queue, threadVars, data, clientVars, calls, arrivals, history>>

Close(s) ==
    /\ opens < MaxOpens /\ opens' = opens + 1
    /\ Opened(s)
    /\ fd' = [fd EXCEPT ![s] = CLOSED]
    /\ data' = data \ {s}
    /\ raced' = (raced \/ (pc \in {"opened", "call"} /\ sockets[i] = s))
    /\ UNCHANGED <<queue, threadVars, clientVars, calls, arrivals, handled, stopAsked>>

ClientCalls ==
    \E c \in Clients :
        \/ \E wait \in BOOLEAN : Start(c, wait) \/ Stop(c, wait)
        \/ \E s \in Sockets : AddSocket(c, s) \/ RemoveSocket(c, s)

ClientStep(c) == SendThreadMessage(c) \/ AddMessage(c) \/ JoinReturns(c)

ServerStep ==
    \/ RunnerReceives \/ RunReceives
    \/ Select \/ IsOpened \/ FdIsSet \/ OnNewData \/ LeaveAccept

Next ==
    \/ ClientCalls
    \/ \E c \in Clients : ClientStep(c)
    \/ ServerStep
    \/ \E s \in Sockets : Arrive(s) \/ Open(s) \/ Close(s)

Spec == Init /\ [][Next]_vars

(* The server thread runs, receivers return, clients finish their calls.   *)
FairSpec == Spec /\ WF_vars(ServerStep) /\ \A c \in Clients : WF_vars(ClientStep(c))
-----------------------------------------------------------------------------
(* The two vectors stay paired: whatever was removed, a socket's data goes *)
(* to the receiver it was added with.                                      *)
Paired == receivers = sockets

(* A socket is in the vector as often as it was added and not removed, in  *)
(* whatever order clients and receivers add and remove.                    *)
ServedIsAddedNotRemoved ==
    \A s \in Sockets :
        handled[s] = Cardinality({k \in DOMAIN sockets : sockets[k] = s})

(* The receiver of a socket is called only for a socket that is served and *)
(* has data, whatever was closed and opened between select and the call.   *)
(* Only a socket that was added twice may be called for its data again,    *)
(* and one that another thread closes behind its test be called at all.    *)
CalledWithData ==
    [][OnNewData => LET s == sockets[i]
                    IN  /\ receivers[i] = s /\ handled[s] > 0
                        /\ s \in data \/ handled[s] > 1 \/ raced]_vars

RunEnded == pc \in {"runner", "over"} /\ [kind |-> "run"] \notin Range(queue)

(* Run never takes the message of a Join, which it does not know and would *)
(* drop: as long as it is not over the message of a Stop comes first, in   *)
(* whatever order clients and receivers stop and join.                     *)
StopComesFirst ==
    \A k \in DOMAIN queue :
        queue[k].kind = "join" => RunEnded \/ \E j \in 1 .. k - 1 : queue[j].kind = "stop"

(* Stop(true) returns.  So does Start(true), if nobody has stopped the     *)
(* server.                                                                 *)
StopReturns == \A c \in Clients : waits[c] = "over" ~> waits[c] = "none"

StartReturns ==
    \A c \in Clients : waits[c] = "reply" ~> waits[c] # "reply" \/ stopAsked

(* Data on a socket that is served is handed over, unless the server is    *)
(* stopped or the socket closed or removed before.                         *)
DataIsServed ==
    \A s \in Sockets :
        s \in data /\ s \in Range(sockets) /\ polling
            ~> s \notin data \/ ~Opened(s) \/ s \notin Range(sockets) \/ stopAsked

(* TCNetSocketServer.h: Start starts the server by setting the stop        *)
(* variable to false - also one that was stopped.                          *)
StartRestarts == \A c \in Clients : waits[c] = "reply" ~> waits[c] # "reply"
=============================================================================
