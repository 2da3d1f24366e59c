--------------------------- MODULE MemoryStreams ---------------------------
(***************************************************************************)
(* MemoryStream and StringStream: streams, and clones of them, over one    *)
(* vector of bytes or one string.  A position is an unsigned number of     *)
(* Wrap values: what is before the beginning is far behind the end.        *)
(***************************************************************************)
EXTENDS Integers, Sequences

CONSTANTS Kind,         \* "memory" or "string"
          Ids, Bytes,
          MaxBytes,     \* bound: bytes of the data
          Wrap,         \* values of size_type; half of them is no size of a vector
          BeforeBegin,  \* do callers seek to before the beginning
          null

MemoryStreamsAssumption ==
    /\ Kind \in {"memory", "string"} /\ 0 \in Bytes /\ BeforeBegin \in BOOLEAN
    /\ MaxBytes \in Nat /\ Wrap \in Nat /\ Wrap \div 2 > MaxBytes + 2

VARIABLES data, stream,
          last    \* history: the last call, and what it gave
vars == <<data, stream, last>>

NoCall == [op |-> "none", id |-> null, asked |-> 0, returned |-> 0, got |-> <<>>, outside |-> FALSE]
Call(o, s, n, r, g) == [op |-> o, id |-> s, asked |-> n, returned |-> r, got |-> g, outside |-> FALSE]

Open == {s \in Ids : stream[s] # null}

TypeOK ==
    /\ data \in Seq(Bytes)
    /\ \A s \in Open : stream[s].at \in 0 .. Wrap - 1 /\ stream[s].status \in {"none", "end"}
    /\ Kind = "memory" /\ ~BeforeBegin => \A s \in Open : stream[s].at <= Len(data)

New == [at |-> 0, status |-> "none"]
Init ==
    /\ data = <<>> /\ last = NoCall
    /\ \E s \in Ids : stream = [x \in Ids |-> IF x = s THEN New ELSE null]
-----------------------------------------------------------------------------
At(s, p) == stream' = [stream EXCEPT ![s].at = p]

ReadStays(s, n) ==
    /\ last' = Call("read", s, n, n, IF stream[s].at + n > Len(data) THEN <<>>
                                     ELSE SubSeq(data, stream[s].at + 1, stream[s].at + n))
    /\ UNCHANGED stream

(* A MemoryStream reads all or nothing; the sum may wrap.                  *)
ReadMemory(s, n) ==
    LET at == stream[s].at
        fits == (at + n) % Wrap <= Len(data)
    IN  IF ~fits THEN last' = Call("read", s, n, 0, <<>>) /\ UNCHANGED stream
        ELSE IF at > Len(data)
        THEN last' = [Call("read", s, n, n, <<>>) EXCEPT !.outside = TRUE] /\ At(s, (at + n) % Wrap)
        ELSE last' = Call("read", s, n, n, SubSeq(data, at + 1, at + n)) /\ At(s, at + n)

ReadString(s, n) ==
    LET at   == stream[s].at
        left == Len(data) - at
        got  == IF n < left THEN n ELSE left
    IN  CASE left = 0 -> /\ last' = Call("read", s, n, 0, <<>>)
                         /\ stream' = [stream EXCEPT ![s].status = "end"]
          [] left > 0 -> last' = Call("read", s, n, n, SubSeq(data, at + 1, at + got)) /\ At(s, at + got)
          [] left < 0 -> last' = Call("read", s, n, n, <<>>) /\ UNCHANGED stream

ReadBytes(s, n) ==
    /\ s \in Open /\ UNCHANGED data
    /\ IF stream[s].status # "none" THEN last' = Call("read", s, n, 0, <<>>) /\ UNCHANGED stream
       ELSE IF Kind = "memory" THEN ReadMemory(s, n) ELSE ReadString(s, n)

Overwritten(p, bytes) ==
    [i \in 1 .. (IF p + Len(bytes) > Len(data) THEN p + Len(bytes) ELSE Len(data)) |->
        IF i \in p + 1 .. p + Len(bytes) THEN bytes[i - p] ELSE data[i]]
Stored(p, bytes) == Overwritten(p, bytes)

Written(s, bytes) ==
    /\ data' = Stored(stream[s].at, bytes) /\ At(s, stream[s].at + Len(bytes))
    /\ last' = Call("write", s, Len(bytes), Len(bytes), bytes)
Threw(s, bytes) == last' = Call("throw", s, Len(bytes), 0, bytes) /\ UNCHANGED <<data, stream>>

(* At a position behind the end a string throws.                           *)
WriteString(s, bytes) == IF stream[s].at <= Len(data) THEN Written(s, bytes) ELSE Threw(s, bytes)

(* A vector does so, too, when the sum does not wrap, and is written in    *)
(* front of its memory when it does.                                       *)
WriteMemory(s, bytes) ==
    LET to == (stream[s].at + Len(bytes)) % Wrap
    IN  IF stream[s].at <= Len(data) THEN Written(s, bytes)
        ELSE IF to > Len(data) THEN Threw(s, bytes)
        ELSE /\ last' = [Call("write", s, Len(bytes), Len(bytes), bytes) EXCEPT !.outside = TRUE]
             /\ At(s, to) /\ UNCHANGED data

WriteBytes(s, bytes) ==
    /\ s \in Open /\ (stream[s].at <= Len(data) => stream[s].at + Len(bytes) <= MaxBytes)
    /\ IF stream[s].status # "none"
       THEN last' = Call("write", s, Len(bytes), 0, bytes) /\ UNCHANGED <<data, stream>>
       ELSE IF Kind = "memory" THEN WriteMemory(s, bytes) ELSE WriteString(s, bytes)

Target(s, pos, mode) ==
    pos + CASE mode = "SET" -> 0 [] mode = "CURRENT" -> stream[s].at [] mode = "END" -> Len(data)

Resized(p) == IF p > Len(data) THEN data \o [i \in 1 .. p - Len(data) |-> 0] ELSE data

(* The vector is made as large as the position; too large a size throws,   *)
(* when the position is set already.                                       *)
SetPositionMemory(s, to) ==
    /\ data' = IF to >= Wrap \div 2 THEN data ELSE Resized(to)
    /\ last' = Call(IF to >= Wrap \div 2 THEN "throw" ELSE "seek", s, to, 0, <<>>)
SetPositionString(s, to) == last' = Call("seek", s, to, 0, <<>>) /\ UNCHANGED data

SetPosition(s, pos, mode) ==
    LET to == Target(s, pos, mode) % Wrap
    IN  /\ s \in Open /\ (BeforeBegin \/ Target(s, pos, mode) >= 0)
        /\ to <= MaxBytes \/ to >= Wrap \div 2
        /\ At(s, to)
        /\ IF Kind = "memory" THEN SetPositionMemory(s, to) ELSE SetPositionString(s, to)

StatusReset(s) == [stream EXCEPT ![s].status = "none"]
ResetStatus(s) ==
    /\ s \in Open /\ stream' = StatusReset(s)
    /\ last' = Call("reset", s, 0, 0, <<>>) /\ UNCHANGED data

Clone(s, c) ==
    /\ s \in Open /\ c \notin Open
    /\ stream' = [stream EXCEPT ![c] = New] /\ last' = Call("clone", s, 0, 0, <<>>) /\ UNCHANGED data

Delete(s) ==
    /\ s \in Open /\ Open # {s}
    /\ stream' = [stream EXCEPT ![s] = null] /\ last' = NoCall /\ UNCHANGED data

Next == \E s \in Ids :
    \/ \E n \in 0 .. 2 : ReadBytes(s, n)
    \/ \E b \in Bytes : WriteBytes(s, <<b>>) \/ \E c \in Bytes : WriteBytes(s, <<b, c>>)
    \/ \E pos \in -2 .. 2 : \E mode \in {"SET", "CURRENT", "END"} : SetPosition(s, pos, mode)
    \/ ResetStatus(s) \/ Delete(s)
    \/ \E c \in Ids : Clone(s, c)

Spec == Init /\ [][Next]_vars
-----------------------------------------------------------------------------
(* ReadBytes gives the bytes at the position and moves it behind them;     *)
(* what another stream wrote to the same memory is read.                   *)
ReadExact ==
    [][last'.op = "read" /\ ~last'.outside =>
        LET s == last'.id
        IN  /\ last'.got = SubSeq(data, stream[s].at + 1, stream[s].at + Len(last'.got))
            /\ stream'[s].at = stream[s].at + Len(last'.got)
            /\ data' = data]_vars

(* What ReadBytes returns: all that was asked for, or nothing.  A memory   *)
(* stream has read just this number of bytes; a string may have read fewer *)
(* than it returns, those that were left before its end.                   *)
Returned ==
    last'.op = "read" /\ ~last'.outside =>
        LET left == Len(data) - stream[last'.id].at
        IN  /\ last'.returned \in {0, last'.asked}
            /\ Len(last'.got) = IF Kind = "memory" \/ last'.returned <= left THEN last'.returned
                               ELSE IF left > 0 THEN left ELSE 0

(* WriteBytes stores the bytes at the position, makes the data longer when *)
(* they do not fit, and keeps all the other bytes; a call that fails keeps *)
(* them all.                                                               *)
WriteExact ==
    [][last'.op \in {"write", "throw"} =>
        LET at == stream[last'.id].at
        IN  IF last'.returned = 0 THEN data' = data
            ELSE /\ at + last'.returned <= Len(data')
                 /\ Len(data') \in {Len(data), at + last'.returned}
                 /\ \A i \in DOMAIN data' :
                      data'[i] = IF i \in at + 1 .. at + last'.returned THEN last'.got[i - at] ELSE data[i]]_vars

(* Seeks and clones keep the bytes that are there, and every call the      *)
(* position and status of the other streams.                               *)
OthersKept ==
    [][/\ \A i \in DOMAIN data : last'.op # "write" => i \in DOMAIN data' /\ data'[i] = data[i]
       /\ \A s \in Open : s # last'.id /\ last'.op # "none" => stream'[s] = stream[s]]_vars

(* TCStream.h, ReadBytes: as many bytes were read as are returned.         *)
ReadTold == last.op = "read" => last.returned = Len(last.got)

(* TCStream.h, END_OF_STREAM: a stream without more bytes says so.         *)
EndTold == last.op = "read" /\ last.returned < last.asked => stream[last.id].status = "end"

(* TCStream.h, SET_STREAM_POSITION: a seek to where there is nothing is an *)
(* error, and nothing is read or written there.                            *)
AccessInside == ~last.outside
=============================================================================
