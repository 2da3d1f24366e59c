------------------------------ MODULE FileCopy ------------------------------
(***************************************************************************)
(* tc::file::Copy (POSIX): a file that another process extends or removes  *)
(* meanwhile, on a system that may read and write less than was asked for. *)
(* The bytes of a file are numbers, all different.                         *)
(***************************************************************************)
EXTENDS Integers, Sequences, FiniteSetsExt, SequencesExt

CONSTANTS buf_sz,
          Sizes,    \* lengths of the source
          Partial,  \* may write take less than it gets?
          MaxSize   \* bound: how long the source may get

FileCopyAssumption ==
    /\ buf_sz \in Nat \ {0} /\ MaxSize \in Nat
    /\ Sizes \subseteq 0 .. MaxSize
    /\ Partial \in BOOLEAN

VARIABLES
    source, dest,     \* contents; <<-1>> where there is no file
    foreign,          \* dest was made by another process
    open,             \* the descriptors of the process
    infile, outfile, offset, sz_read, sz_write, buf, pc, result
vars == <<source, dest, foreign, open, infile, outfile, offset, sz_read, sz_write, buf, pc, result>>
disk == <<source, dest, foreign>>
descriptors == <<open, infile, outfile>>
data == <<offset, sz_read, sz_write, buf>>

NoFile == <<-1>>
Standard == {0, 1, 2}
Bytes(n) == [i \in 1 .. n |-> i]

TypeOK ==
    /\ open \subseteq 0 .. 4
    /\ pc \in {"read", "write"} => {infile, outfile} \subseteq open \ Standard /\ infile # outfile
    /\ offset \in 0 .. MaxSize /\ sz_read \in -1 .. buf_sz
    /\ pc = "write" => sz_write < sz_read /\ Len(buf) = sz_read

Init ==
    /\ source \in {Bytes(n) : n \in Sizes} \union {NoFile}
    /\ dest \in {NoFile, <<0>>} /\ foreign = (dest # NoFile)
    /\ open = Standard /\ infile = 0 /\ outfile = 0
    /\ offset = 0 /\ sz_read = 1 /\ sz_write = 0 /\ buf = <<>>
    /\ pc = "look" /\ result = "none"

Goto(l) == pc' = l /\ UNCHANGED result
Returns(r) == pc' = "done" /\ result' = r
Closes(fds) == open' = open \ fds /\ UNCHANGED <<infile, outfile>>
Free == Min((0 .. 4) \ open)
-----------------------------------------------------------------------------
IsFile ==
    /\ pc = "look"
    /\ IF source = NoFile THEN Returns("failed") ELSE Goto("stat")
    /\ UNCHANGED <<disk, descriptors, data>>

(* stat: on an error infile is still 0.                                    *)
Stat ==
    /\ pc = "stat"
    /\ IF source = NoFile THEN Returns("failed") /\ Closes({infile})
       ELSE Goto("openIn") /\ UNCHANGED descriptors
    /\ UNCHANGED <<disk, data>>

OpenSource ==
    /\ pc = "openIn"
    /\ IF source = NoFile THEN Returns("failed") /\ UNCHANGED descriptors
       ELSE /\ infile' = Free /\ open' = open \union {Free}
            /\ Goto("openOut") /\ UNCHANGED outfile
    /\ UNCHANGED <<disk, data>>

OpenDestination ==
    /\ pc = "openOut"
    /\ IF dest # NoFile
       THEN Returns("failed") /\ Closes({infile}) /\ UNCHANGED dest
       ELSE /\ dest' = <<>> /\ outfile' = Free /\ open' = open \union {Free}
            /\ Goto("read") /\ UNCHANGED infile
    /\ UNCHANGED <<source, foreign, data>>

Read ==
    /\ pc = "read"
    /\ \/ \E n \in 1 .. buf_sz :
            /\ source # NoFile /\ offset + n <= Len(source)
            /\ sz_read' = n /\ sz_write' = 0 /\ offset' = offset + n
            /\ buf' = SubSeq(source, offset + 1, offset + n)
            /\ Goto("write")
       \/ /\ source # NoFile => offset = Len(source)
          /\ sz_read' = 0 /\ UNCHANGED <<sz_write, offset, buf>> /\ Goto("close")
       \/ sz_read' = -1 /\ UNCHANGED <<sz_write, offset, buf>> /\ Goto("close")
    /\ UNCHANGED <<disk, descriptors>>

ToWrite == sz_read - sz_write

(* write: from the begin of the buffer, whatever was written before.       *)
Write ==
    /\ pc = "write"
    /\ \/ \E n \in IF Partial THEN 1 .. ToWrite ELSE {ToWrite} :
            /\ dest' = dest \o SubSeq(buf, 1, n) /\ sz_write' = sz_write + n
            /\ IF sz_write + n < sz_read THEN Goto("write") ELSE Goto("read")
            /\ UNCHANGED sz_read
       \/ sz_read' = -1 /\ Goto("close") /\ UNCHANGED <<dest, sz_write>>
    /\ UNCHANGED <<source, foreign, descriptors, offset, buf>>

ForgetsError ==
    /\ pc = "close" /\ Closes({infile, outfile}) /\ Returns("copied")
    /\ UNCHANGED <<disk, data>>

Close ==
    /\ pc = "close" /\ Closes({infile, outfile})
    /\ IF sz_read < 0 THEN Returns("failed")
       ELSE Returns("copied") \/ Returns("failed")  \* close reports an error
    /\ UNCHANGED <<disk, data>>
-----------------------------------------------------------------------------
(* Another process.                                                        *)
Extend ==
    /\ source # NoFile /\ Len(source) < MaxSize /\ pc # "done"
    /\ source' = Bytes(Len(source) + 1)
    /\ UNCHANGED <<dest, foreign, descriptors, data, pc, result>>

RemoveSource ==
    /\ source # NoFile /\ pc \in {"look", "stat", "openIn"} /\ source' = NoFile
    /\ UNCHANGED <<dest, foreign, descriptors, data, pc, result>>

MakeDestination ==
    /\ dest = NoFile /\ pc # "done" /\ dest' = <<0>> /\ foreign' = TRUE
    /\ UNCHANGED <<source, descriptors, data, pc, result>>

Next == \/ IsFile \/ Stat \/ OpenSource \/ OpenDestination \/ Read \/ Write \/ Close
        \/ Extend \/ RemoveSource \/ MakeDestination

Spec == Init /\ [][Next]_vars
-----------------------------------------------------------------------------
(* A copy that succeeded is what was in the source when its end was read.  *)
CopyExact == result = "copied" => dest = SubSeq(source, 1, offset) /\ ~foreign

(* A file that is there already, or that another process makes in the last *)
(* moment, is not touched.                                                 *)
NeverOverwrites == foreign => dest = <<0>>

(* On every way out the descriptors of the call are closed again.          *)
NoneLeft == pc = "done" => open \subseteq Standard

(* All of these.                                                           *)
CopiesExactly == CopyExact /\ NeverOverwrites /\ NoneLeft

(* Whatever fails, the descriptors of the caller stay open.                *)
OthersStayOpen == Standard \subseteq open
=============================================================================
