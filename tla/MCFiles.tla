------------------------------ MODULE MCFiles -------------------------------
(***************************************************************************)
(* Directories, what codecs make of values, and the debug heap.            *)
(*   tree:   a root with the directory a in it, a directory a in that, and *)
(*           files in each: one thread removes and searches, another one   *)
(*           makes, removes and moves files;                               *)
(*   create: two threads create directories, one of them also files in     *)
(*           their place;                                                  *)
(*   ascii:  values with everything in them that a separator is made of,   *)
(*           as far as the codec can take it, in every order of up to      *)
(*           three, with the separators of TCStreamTest.cpp;               *)
(*   binary: such values and the binary codecs, on hosts of both orders of *)
(*           bytes, with data that may lose its end;                       *)
(*   heap:   three allocations of two threads whose ids are far from each  *)
(*           other, and the report of them.                                *)
(* The parts share no state: a behaviour is of one of them, and the other  *)
(* ones stay as they were created.                                         *)
(***************************************************************************)
EXTENDS DebugHeap, TLC

CONSTANTS t1, t2,     \* threads
          MaxValues

A == <<"a">>
B == <<"b">>
AA == <<"a", "a">>
AB == <<"a", "b">>
AAA == <<"a", "a", "a">>
AAB == <<"a", "a", "b">>
Disk(dirs, fileset) ==
    [p \in {<<>>} \union dirs \union fileset |->
        [kind |-> IF p \in fileset THEN "file" ELSE "dir", to |-> <<>>]]
Plain == {Disk({A, AA}, {B, AB, AAA, AAB}), Disk({A}, {AB}), Disk({}, {})}
Small == {Disk({A}, {}), Disk({}, {A}), Disk({}, {})}
Disturbed == (t1 :> {"remove", "find"}) @@ (t2 :> {"file", "move"})
Makers == (t1 :> {"create"}) @@ (t2 :> {"create", "file"})

NUL == 0  NL == 10  SP == 32
Char(c) == [type |-> "char", val |-> c]
Number(n) == [type |-> "number", val |-> n]
Bool(b) == [type |-> "bool", val |-> b]
String(s) == [type |-> "string", val |-> s]
AsciiValues == {Char(49), Char(SP), Char(NL), Number(0), Number(12), Bool(TRUE), Bool(FALSE),
                String(<<116>>), String(<<SP, 49, SP>>)}
AfterValue(v) == IF v.type = "char" THEN {<<>>}
                 ELSE IF v.type = "string" THEN {<<"endl">>} ELSE {<<"space">>, <<"endl">>}
BinaryValues == {Char(SP), Char(NUL), Number(1), Number(513), Bool(TRUE),
                 String(<<>>), String(<<116>>), String(<<SP, NL>>)}
AfterElement(v) == {<<"space">>}

VARIABLES part,
    fs, treePC, path, level, stack, treeResult, files, there, stays,
    codec, writer, reader, bytes, values, pos, got, len, eof

treeVars == <<fs, treePC, path, level, stack, treeResult, files, there, stays>>
codecVars == <<codec, writer, reader, bytes, values, pos, got, len, eof>>
allVars == <<part, vars, treeVars, codecVars>>

T == INSTANCE FileTree WITH Threads <- {t1, t2}, Targets <- {A, AA}, Files <- {B, AB, AAA},
        Initial <- Plain, Does <- Disturbed, pc <- treePC, result <- treeResult
C == INSTANCE FileTree WITH Threads <- {t1, t2}, Targets <- {A, AA}, Files <- {B, AA},
        Initial <- Small, Does <- Makers, pc <- treePC, result <- treeResult
Text == INSTANCE Codec WITH Codecs <- {"ascii"}, Values <- AsciiValues, After <- AfterValue,
        Cuts <- FALSE, data <- bytes
Binary == INSTANCE Codec WITH Codecs <- {"native", "little", "big"}, Values <- BinaryValues,
        After <- AfterElement, Cuts <- TRUE, data <- bytes

ASSUME MCAssumption == DebugHeapAssumption

Symmetry == Permutations(Blocks)

MCInit ==
    /\ part \in {"tree", "create", "ascii", "binary", "heap"}
    /\ IF part = "create" THEN C!Init ELSE T!Init
    /\ part \notin {"tree", "create"} => fs = Disk({}, {})
    /\ IF part = "binary" THEN Binary!Init ELSE Text!Init
    /\ part \notin {"ascii", "binary"} => writer /\ reader
    /\ Init

InTree(X) == X /\ UNCHANGED <<part, codecVars, vars>>
InCodec(X) == X /\ UNCHANGED <<part, treeVars, vars>>
InHeap(X) == part = "heap" /\ X /\ UNCHANGED <<part, treeVars, codecVars>>

MCNext ==
    \/ part = "tree" /\ InTree(T!Next)
    \/ part = "create" /\ InTree(C!Next)
    \/ part = "ascii" /\ InCodec(Text!Next)
    \/ part = "binary" /\ InCodec(Binary!Next)
    \/ InHeap(Next)

MCSpec == MCInit /\ [][MCNext]_allVars
-----------------------------------------------------------------------------
(* RemoveDirRecursive removes all that is below the directory and nothing  *)
(* else, FindFilesRecursive finds each file once, and a CreateDirRecursive *)
(* that returns true leaves all of its directories.                        *)
TreeExact == T!RemovedIsGone /\ T!RemovesOnlyBelow /\ T!FoundOnce /\ C!CreatedIsThere

(* What a codec reads is what was written, up to the end of the data.      *)
RoundTrip == Text!RoundTrip /\ (part = "ascii" => Text!EndsTogether)

(* The debug heap lists the blocks that are allocated, each once, from     *)
(* either end and also when they were sorted, and its report has a line    *)
(* for each place and thread.                                              *)
LeaksExact == ListExact /\ Sorted /\ ReportExact
=============================================================================
