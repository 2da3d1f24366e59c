------------------------------ MODULE SocketIO ------------------------------
(***************************************************************************)
(* Two connected sockets.  One side writes: WriteBytes calls send until    *)
(* all bytes are taken.  The other reads: ReadBytes calls recv once, and   *)
(* with a timeout it calls select and recv until it has its bytes or the   *)
(* time is over.  The bytes are numbered in the order they are written.    *)
(***************************************************************************)
EXTENDS Integers, Sequences, SequencesExt

CONSTANTS Watched,   \* whether select looks at the descriptor of the socket
          Room,      \* bytes the connection can hold
          MaxSize,   \* bound: bytes of one call
          MaxTime,   \* bound: timeout of a read
          MaxBytes   \* bound: bytes written in all

SocketIOAssumption ==
    Watched \in BOOLEAN /\ {Room, MaxSize, MaxTime, MaxBytes} \subseteq Nat \ {0}

VARIABLES
    writer_open, reader_open,
    out,      \* the bytes WriteBytes has still to send
    written,  \* the number of bytes given to WriteBytes
    stream,   \* the bytes in the connection
    read,     \* the call of the reader
    taken,    \* history: what recv has returned
    dropped,  \* history: bytes of a write that failed
    result    \* what the last read returned, and to which call
vars == <<writer_open, reader_open, out, written, stream, read, taken, dropped, result>>

Bytes == 1 .. MaxBytes
Idle == [at |-> "idle"]
NoResult == [value |-> 0, size |-> 0, buffer |-> <<>>, start |-> 0, spent |-> 0,
             given |-> 0, timed |-> FALSE, expired |-> FALSE]

TypeOK ==
    /\ writer_open \in BOOLEAN /\ reader_open \in BOOLEAN
    /\ out \in Seq(Bytes) /\ stream \in Seq(Bytes) /\ Len(stream) <= Room
    /\ written \in 0 .. MaxBytes
    /\ read.at \in {"idle", "select", "recv"}
    /\ read # Idle =>
          /\ read.buffer \in [1 .. read.size -> 0 .. MaxBytes]
          /\ read.got \in 0 .. read.size + MaxSize
          /\ read.timeout \in 0 .. read.given /\ read.waited \in 0 .. read.timeout
          /\ read.spent \in 0 .. MaxTime

Init ==
    /\ writer_open = TRUE /\ reader_open = TRUE
    /\ out = <<>> /\ written = 0 /\ stream = <<>>
    /\ read = Idle /\ taken = <<>> /\ dropped = <<>> /\ result = NoResult
-----------------------------------------------------------------------------
(* WriteBytes. *)
WriteBytes(size) ==
    /\ writer_open /\ out = <<>> /\ written + size <= MaxBytes
    /\ out' = [i \in 1 .. size |-> written + i]
    /\ written' = written + size
    /\ UNCHANGED <<writer_open, reader_open, stream, read, taken, dropped, result>>

SameBuffer(n) == SubSeq(out, 1, Len(out) - n)

Rest(n) == SubSeq(out, n + 1, Len(out))

send(n) ==
    /\ n <= Len(out) /\ Len(stream) + n <= Room /\ reader_open
    /\ stream' = stream \o SubSeq(out, 1, n)
    /\ out' = Rest(n)
    /\ UNCHANGED <<writer_open, reader_open, written, read, taken, dropped, result>>

(* The other side has closed: Close, and 0 whatever was sent before. *)
SendFails ==
    /\ out # <<>> /\ ~reader_open
    /\ writer_open' = FALSE
    /\ out' = <<>> /\ dropped' = out
    /\ UNCHANGED <<reader_open, written, stream, read, taken, result>>

CloseWriter ==
    /\ writer_open /\ out = <<>>
    /\ writer_open' = FALSE
    /\ UNCHANGED <<reader_open, out, written, stream, read, taken, dropped, result>>
-----------------------------------------------------------------------------
(* ReadBytes, plain and with a timeout. *)
Call(size, t, at) ==
    /\ read = Idle /\ reader_open
    /\ read' = [at |-> at, size |-> size, given |-> t, timeout |-> t, waited |-> 0, spent |-> 0,
                got |-> 0, start |-> Len(taken), buffer |-> [i \in 1 .. size |-> 0]]
    /\ UNCHANGED <<writer_open, reader_open, out, written, stream, taken, dropped, result>>

ReadBytes(size) == Call(size, 0, "recv")

ReadBytesTimed(size, t) == t > 0 /\ Call(size, t, "select")

Returns(r, value, expired) ==
    /\ read' = Idle
    /\ result' = [value |-> value, size |-> r.size, buffer |-> r.buffer, start |-> r.start,
                  spent |-> r.spent, given |-> r.given, timed |-> r.given > 0,
                  expired |-> expired]

Readable == stream # <<>> \/ ~writer_open

Select ==
    /\ read.at = "select" /\ Watched /\ Readable
    /\ read' = [read EXCEPT !.at = "recv"]
    /\ UNCHANGED <<writer_open, reader_open, out, written, stream, taken, dropped, result>>

Tick ==
    /\ read.at = "select" /\ read.waited < read.timeout
    /\ ~(Watched /\ Readable)
    /\ read' = [read EXCEPT !.waited = @ + 1, !.spent = @ + 1]
    /\ UNCHANGED <<writer_open, reader_open, out, written, stream, taken, dropped, result>>

SelectAgain ==
    /\ read.at = "select" /\ read.waited = read.timeout
    /\ read' = [read EXCEPT !.waited = 0, !.spent = 0]
    /\ UNCHANGED <<writer_open, reader_open, out, written, stream, taken, dropped, result>>

SelectTimesOut ==
    /\ read.at = "select" /\ read.waited = read.timeout
    /\ Returns(read, 0, TRUE)
    /\ UNCHANGED <<writer_open, reader_open, out, written, stream, taken, dropped>>

TimeLeft(r) == [r EXCEPT !.at = "select", !.waited = 0, !.timeout = @ - r.spent]

Buffer(n) == [i \in 1 .. read.size |-> IF i <= n THEN stream[i] ELSE read.buffer[i]]

(* Each recv of a timed read is given the begin of the buffer and its full *)
(* size again; the time since the call is taken from what is left of it.   *)
recv(n) ==
    /\ read.at = "recv" /\ n <= read.size /\ n <= Len(stream)
    /\ LET now == [read EXCEPT !.buffer = Buffer(n), !.got = @ + n]
       IN  IF read.given = 0 \/ now.got >= read.size \/ read.spent >= read.timeout
           THEN Returns(now, now.got, FALSE)
           ELSE read' = TimeLeft(now) /\ UNCHANGED result
    /\ taken' = taken \o SubSeq(stream, 1, n)
    /\ stream' = SubSeq(stream, n + 1, Len(stream))
    /\ UNCHANGED <<writer_open, reader_open, out, written, dropped>>

RecvFails ==
    /\ read.at = "recv" /\ stream = <<>> /\ ~writer_open
    /\ reader_open' = FALSE
    /\ Returns(read, 0, FALSE)
    /\ UNCHANGED <<writer_open, out, written, stream, taken, dropped>>

CloseReader ==
    /\ reader_open /\ read = Idle
    /\ reader_open' = FALSE
    /\ UNCHANGED <<writer_open, out, written, stream, read, taken, dropped, result>>

TimedStep == Select \/ Tick \/ SelectTimesOut \/ RecvFails \/ \E n \in 1 .. MaxSize : recv(n)

Next ==
    \/ \E size \in 1 .. MaxSize : \/ WriteBytes(size) \/ ReadBytes(size)
                                  \/ \E t \in 1 .. MaxTime : ReadBytesTimed(size, t)
    \/ \E n \in 1 .. MaxSize : send(n)
    \/ SendFails \/ CloseWriter \/ CloseReader
    \/ TimedStep

Spec == Init /\ [][Next]_vars

(* Time goes on and the reader runs. *)
FairSpec == Spec /\ WF_vars(TimedStep)
-----------------------------------------------------------------------------
(* Each byte arrives once and in order, however send and recv split them.  *)
StreamInOrder ==
    taken \o stream \o out \o dropped = [i \in 1 .. written |-> i]

(* The buffer of a read without a timeout begins with the bytes that came  *)
(* next, as many as it says; one with a timeout that took more than one    *)
(* recv ends with the last of them.                                        *)
Delivered(r) ==
    LET bytes == SubSeq(taken, r.start + 1, r.start + r.value) IN
    r.value <= r.size /\ SubSeq(r.buffer, 1, r.value) = bytes

PlainReadDelivers == read = Idle /\ ~result.timed => Delivered(result)

(* A read with a timeout returns, and never later than its timeout.        *)
TimedReadReturns == read.at = "select" ~> read = Idle
WithinTimeout == result.timed => result.spent <= result.given

(* TCNetReadWriteSocket.h: a timed read reads data with length size; what  *)
(* it says it has received is in the buffer.                               *)
TimedReadDelivers == read = Idle /\ result.timed => Delivered(result)

(* TCNetReadWriteSocket.h: false by timeout or error; a timeout is over    *)
(* when the given time is over ...                                         *)
TimeoutIsGiven == result.expired => result.spent = result.given

(* ... and not while enough data was there to be read.                     *)
TimeoutMeansNoData ==
    [][SelectTimesOut => Len(stream) < read.size]_vars
=============================================================================
