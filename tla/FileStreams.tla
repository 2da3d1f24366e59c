---------------------------- MODULE FileStreams ----------------------------
(***************************************************************************)
(* FileStream, GzFileStream and Bz2FileStream over one file.  What a       *)
(* library keeps in its buffers is taken as written; a stream of the       *)
(* compressed kinds is the only one of its file.                           *)
(***************************************************************************)
EXTENDS Integers, Sequences

CONSTANTS Kind,       \* "file", "gz" or "bz2"
          Ids, ByteValues,
          Directions, \* what streams are opened for
          MaxBytes,   \* bound: bytes of the file
          null

FileStreamsAssumption ==
    /\ Kind \in {"file", "gz", "bz2"} /\ 0 \in ByteValues /\ MaxBytes \in Nat
    /\ Directions \subseteq {"READ", "WRITE", "READ_WRITE"}

VARIABLES data, stream,
          last    \* history: the last call, and what it gave
vars == <<data, stream, last>>

NoCall == [op |-> "none", id |-> null, asked |-> 0, returned |-> 0, got |-> <<>>]
Call(o, s, n, r, g) == [op |-> o, id |-> s, asked |-> n, returned |-> r, got |-> g]

Made == {s \in Ids : stream[s] # null}
Statuses == {"none", "open", "direction", "end", "read", "write", "position"}

TypeOK ==
    /\ data \in Seq(ByteValues)
    /\ \A s \in Made : /\ stream[s].at \in Nat /\ stream[s].status \in Statuses
                       /\ stream[s].direction \in Directions \union {"DEAD"}
                       /\ stream[s].file => stream[s].direction # "DEAD"

Init == data = <<>> /\ stream = [s \in Ids |-> null] /\ last = NoCall

IsReading(s) == stream[s].direction \in {"READ", "READ_WRITE"}
IsWriting(s) == stream[s].direction \in {"WRITE", "READ_WRITE"}
-----------------------------------------------------------------------------
(* A file that could not be opened leaves its status and its direction; a  *)
(* file that is opened for writing is empty.                               *)
Opened(d, ok) == [file |-> ok, at |-> 0, direction |-> d, status |-> IF ok THEN "none" ELSE "open"]

Make(s, d, ok) ==
    /\ stream' = [stream EXCEPT ![s] = Opened(d, ok)]
    /\ data' = IF ok /\ d # "READ" THEN <<>> ELSE data

Open(s, d, ok) ==
    /\ s \notin Made /\ Make(s, d, ok) /\ last' = Call("open", s, 0, 0, <<>>)

Clone(s, c, ok) ==
    /\ s \in Made /\ c \notin Made /\ (stream[s].direction = "DEAD" => ~ok)
    /\ Make(c, stream[s].direction, ok) /\ last' = Call("clone", s, 0, 0, <<>>)

Closed(s) == [stream EXCEPT ![s].file = FALSE, ![s].direction = "DEAD"]
CloseStream(s) ==
    /\ s \in Made /\ stream' = Closed(s)
    /\ last' = Call("close", s, 0, 0, <<>>) /\ UNCHANGED data

Destroy(s) ==
    /\ s \in Made /\ stream' = [stream EXCEPT ![s] = null] /\ last' = NoCall /\ UNCHANGED data

Fails(s, op, n, status) ==
    /\ stream' = [stream EXCEPT ![s].status = status] /\ last' = Call(op, s, n, 0, <<>>) /\ UNCHANGED data

NoError(s) == stream[s].status = "none"

EndStatus(got, n) == IF got < n THEN "end" ELSE "none"

(* fread until all is there, the end, or an error of the file.             *)
ReadBytes(s, n) ==
    LET at   == stream[s].at
        left == IF at > Len(data) THEN 0 ELSE Len(data) - at
        got  == IF n < left THEN n ELSE left
        Ends(k, status) == /\ stream' = [stream EXCEPT ![s].at = @ + k, ![s].status = status]
                           /\ last' = Call("read", s, n, k, SubSeq(data, at + 1, at + k)) /\ UNCHANGED data
    IN  /\ s \in Made
        /\ IF ~NoError(s) THEN Fails(s, "read", n, stream[s].status)
           ELSE IF ~IsReading(s) THEN Fails(s, "read", n, "direction")
           ELSE \/ Ends(got, EndStatus(got, n))
                \/ \E k \in 0 .. got : k < n /\ Ends(k, "read")

Overwritten(p, bytes) ==
    [i \in 1 .. (IF p + Len(bytes) > Len(data) THEN p + Len(bytes) ELSE Len(data)) |->
        IF i \in p + 1 .. p + Len(bytes) THEN bytes[i - p]
        ELSE IF i <= Len(data) THEN data[i] ELSE 0]
StoredAtBegin(p, bytes) == IF bytes = <<>> THEN data ELSE Overwritten(0, bytes)
Stored(p, bytes) == IF bytes = <<>> THEN data ELSE Overwritten(p, bytes)

(* fwrite until all is written, or an error of the file, perhaps a full    *)
(* disk after some of it.                                                  *)
WriteBytes(s, bytes) ==
    LET at == stream[s].at
        n  == Len(bytes)
        Ends(k, status) == /\ data' = Stored(at, SubSeq(bytes, 1, k))
                           /\ stream' = [stream EXCEPT ![s].at = @ + k, ![s].status = status]
                           /\ last' = Call("write", s, n, k, bytes)
    IN  /\ s \in Made /\ n > 0 /\ at + n <= MaxBytes
        /\ IF ~NoError(s) THEN Fails(s, "write", n, stream[s].status)
           ELSE IF ~IsWriting(s) THEN Fails(s, "write", n, "direction")
           ELSE \/ Ends(n, "none")
                \/ \E k \in 0 .. n - 1 : Ends(k, "write")

Flush(s) ==
    /\ s \in Made
    /\ Fails(s, "flush", 0, IF NoError(s) /\ ~IsWriting(s) THEN "direction" ELSE stream[s].status)

Target(s, pos, mode) ==
    pos + CASE mode = "SET" -> 0 [] mode = "CURRENT" -> stream[s].at [] mode = "END" -> Len(data)

Moved(s, to, can, answer) ==
    /\ stream' = [stream EXCEPT ![s].at = IF can THEN to ELSE @, ![s].status = "none"]
    /\ last' = Call("seek", s, to, IF answer THEN 1 ELSE 0, <<>>) /\ UNCHANGED data

(* A stream without a file is left out of these: fseek, gzseek and the     *)
(* like would be given a null pointer.                                     *)
Answered(to) == to >= 0

SetPosition(s, pos, mode) ==
    LET to == Target(s, pos, mode)
    IN  /\ Kind = "file" /\ s \in Made /\ stream[s].file /\ to <= MaxBytes
        /\ Moved(s, to, to >= 0, Answered(to))

(* gzseek knows no end, and no way back when writing; its answer is the    *)
(* position, which is compared with 0.                                     *)
SetPositionGz(s, pos, mode) ==
    LET to  == Target(s, pos, mode)
        can == to >= 0 /\ mode # "END" /\ (IsWriting(s) => to >= stream[s].at)
    IN  /\ Kind = "gz" /\ s \in Made /\ stream[s].file /\ to <= MaxBytes
        /\ Moved(s, to, can, can /\ to = 0)

SetPositionBz2(s, pos, mode) ==
    Kind = "bz2" /\ s \in Made /\ Fails(s, "seek", Target(s, pos, mode), "position")

GetPosition(s) ==
    /\ Kind # "bz2" /\ s \in Made /\ stream[s].file
    /\ last' = Call("tell", s, 0, stream[s].at, <<>>) /\ UNCHANGED <<data, stream>>

GetPositionBz2(s) == Kind = "bz2" /\ s \in Made /\ Fails(s, "tell", 0, "position")

ResetStatus(s) == s \in Made /\ Fails(s, "reset", 0, "none")

Next == \E s \in Ids :
    \/ \E ok \in BOOLEAN : \/ \E d \in Directions : Open(s, d, ok)
                           \/ \E c \in Ids : Clone(s, c, ok)
    \/ CloseStream(s) \/ Destroy(s) \/ Flush(s) \/ GetPosition(s) \/ GetPositionBz2(s) \/ ResetStatus(s)
    \/ \E n \in 0 .. 2 : ReadBytes(s, n)
    \/ \E b \in ByteValues : WriteBytes(s, <<b>>) \/ \E c \in ByteValues : WriteBytes(s, <<b, c>>)
    \/ \E pos \in -1 .. 1 : \E mode \in {"SET", "CURRENT", "END"} :
         SetPosition(s, pos, mode) \/ SetPositionGz(s, pos, mode) \/ SetPositionBz2(s, pos, mode)

Spec == Init /\ [][Next]_vars
-----------------------------------------------------------------------------
(* ReadBytes: as many bytes as are returned are the next ones of the file, *)
(* and fewer than asked come with an error.                                *)
ReadExact ==
    [][last'.op = "read" =>
        LET s == last'.id
        IN  /\ last'.got = SubSeq(data, stream[s].at + 1, stream[s].at + last'.returned)
            /\ stream'[s].at = stream[s].at + last'.returned
            /\ last'.returned < last'.asked => stream'[s].status # "none"
            /\ data' = data]_vars

(* WriteBytes: as many bytes as are returned are in the file, the others   *)
(* of the file are kept, and fewer than asked come with an error.          *)
WriteExact ==
    [][last'.op = "write" =>
        LET s  == last'.id
            at == stream[s].at
        IN  /\ last'.returned < last'.asked => stream'[s].status # "none"
            /\ \A i \in DOMAIN data \union at + 1 .. at + last'.returned :
                 i \in DOMAIN data' /\
                 data'[i] = IF i \in at + 1 .. at + last'.returned THEN last'.got[i - at] ELSE data[i]]_vars

(* After an error nothing is read, written or moved until the status is    *)
(* reset, by ResetStatus or by a seek.                                     *)
ErrorHolds ==
    [][\A s \in Made : stream[s].status # "none" /\ last'.id = s /\ last'.op \in {"read", "write", "flush"} =>
        stream' = stream /\ data' = data /\ last'.returned = 0]_vars

(* TCStream.h, "Set the current position": the answer of SetPosition says  *)
(* whether the position was set.                                           *)
SeekTold ==
    [][last'.op = "seek" =>
        stream'[last'.id].at = IF last'.returned = 1 THEN last'.asked ELSE stream[last'.id].at]_vars

(* TCStream.h, "Clone this stream object": the data stays.                 *)
CloneKeeps == [][last'.op = "clone" => data' = data]_vars

(* TCStream.h, DEAD: "not open" is not ready for reading or writing.       *)
NotOpenIsDead == \A s \in Made : ~stream[s].file => stream[s].direction = "DEAD"
=============================================================================
