------------------------------ MODULE FileTree ------------------------------
(***************************************************************************)
(* tc::file on a tree of directories: CreateDirRecursive,                  *)
(* RemoveDirRecursive and FindFilesRecursive are made of many calls of the *)
(* system; other threads change the tree between any two of them.  A       *)
(* symbolic link is followed by stat and opendir, not by remove and rmdir. *)
(***************************************************************************)
EXTENDS Naturals, Sequences, SequencesExt

CONSTANTS Threads,
          Targets,  \* the directories the recursive functions are called with
          Files,    \* the files that come and go
          Initial,  \* trees at the beginning
          Does      \* what each thread may call

Dir == [kind |-> "dir", to |-> <<>>]
File == [kind |-> "file", to |-> <<>>]
Link(p) == [kind |-> "link", to |-> p]

VARIABLES
    fs,                \* the entry of every path that has one; <<>> is the root
    pc, path,          \* what a thread does, and where
    level,             \* how many of the directories of path are there
    stack,             \* a frame for each call of the recursion
    result, files,
    there, stays       \* history: entries at the call; those of them not touched since
vars == <<fs, pc, path, level, stack, result, files, there, stays>>

TypeOK ==
    /\ <<>> \in DOMAIN fs /\ fs[<<>>] = Dir
    /\ \A p \in DOMAIN fs \ {<<>>} : fs[p].kind # "link" => fs[p].to = <<>>
    /\ \A p \in DOMAIN fs \ {<<>>} : fs[SubSeq(p, 1, Len(p) - 1)] = Dir
    /\ \A t \in Threads :
        /\ level[t] \in 0 .. Len(path[t])
        /\ pc[t] \in {"isdir", "exists", "mkdir"} => level[t] < Len(path[t])
        /\ pc[t] \in {"remove", "find"} => stack[t] # <<>> /\ stack[t][1].dir = path[t]
        /\ stays[t] \subseteq there[t]

Init ==
    /\ fs \in Initial
    /\ pc = [t \in Threads |-> "idle"]
    /\ path = [t \in Threads |-> <<>>]
    /\ level = [t \in Threads |-> 0]
    /\ stack = [t \in Threads |-> <<>>]
    /\ result = [t \in Threads |-> "none"]
    /\ files = [t \in Threads |-> <<>>]
    /\ there = [t \in Threads |-> {}]
    /\ stays = [t \in Threads |-> {}]
-----------------------------------------------------------------------------
(* The calls of the system.                                                *)
Walk(p) ==
    FoldLeft(LAMBDA at, name :
                LET next == Append(at, name)
                IN  IF next \in DOMAIN fs /\ fs[next].kind = "link" THEN fs[next].to ELSE next,
             <<>>, p)
Entry(p) == Append(Walk(SubSeq(p, 1, Len(p) - 1)), p[Len(p)])
Children(d) == {p \in DOMAIN fs : Len(p) = Len(d) + 1 /\ IsPrefix(d, p)}
Below(p) == {q \in DOMAIN fs : IsPrefix(p, q)}

Exists(p) == Walk(p) \in DOMAIN fs
IsDirectory(p) == Exists(p) /\ fs[Walk(p)] = Dir

Puts(p, e) == fs' = [q \in DOMAIN fs \union {p} |-> IF q = p THEN e ELSE fs[q]]
Takes(p) == fs' = [q \in DOMAIN fs \ {p} |-> fs[q]]
Touched(p) == stays' = [t \in Threads |-> stays[t] \ {p}]

Begin(t, op, p) ==
    /\ op \in Does[t] /\ pc[t] = "idle" /\ path' = [path EXCEPT ![t] = p]
    /\ there' = [there EXCEPT ![t] = DOMAIN fs]
    /\ stays' = [stays EXCEPT ![t] = DOMAIN fs]
    /\ UNCHANGED fs

Return(t, r) == pc' = [pc EXCEPT ![t] = "idle"] /\ result' = [result EXCEPT ![t] = r]
-----------------------------------------------------------------------------
(* CreateDirRecursive: one directory after the other.                      *)
CreateDirRecursive(t) ==
    \E p \in Targets :
        /\ Begin(t, "create", p)
        /\ pc' = [pc EXCEPT ![t] = "isdir"] /\ level' = [level EXCEPT ![t] = 0]
        /\ UNCHANGED <<stack, result, files>>

current_dir(t) == SubSeq(path[t], 1, level[t] + 1)

NextDirectory(t) ==
    /\ level' = [level EXCEPT ![t] = @ + 1]
    /\ IF level[t] + 1 = Len(path[t]) THEN Return(t, "created")
       ELSE pc' = [pc EXCEPT ![t] = "isdir"] /\ UNCHANGED result

CheckDirectory(t) ==
    /\ pc[t] = "isdir"
    /\ IF IsDirectory(current_dir(t)) THEN NextDirectory(t)
       ELSE pc' = [pc EXCEPT ![t] = "exists"] /\ UNCHANGED <<level, result>>
    /\ UNCHANGED <<fs, path, stack, files, there, stays>>

CheckExists(t) ==
    /\ pc[t] = "exists"
    /\ IF Exists(current_dir(t)) THEN Return(t, "failed")
       ELSE pc' = [pc EXCEPT ![t] = "mkdir"] /\ UNCHANGED result
    /\ UNCHANGED <<fs, path, level, stack, files, there, stays>>

CanMake(p) == IsDirectory(SubSeq(p, 1, Len(p) - 1)) /\ Entry(p) \notin DOMAIN fs

CreateDir(t) ==
    /\ pc[t] = "mkdir"
    /\ IF CanMake(current_dir(t))
       THEN Puts(Entry(current_dir(t)), Dir) /\ NextDirectory(t)
       ELSE Return(t, "failed") /\ UNCHANGED <<fs, level>>
    /\ UNCHANGED <<path, stack, files, there, stays>>
-----------------------------------------------------------------------------
(* GetFileInfosOfDirectory: what stat says of each entry; an entry that    *)
(* stat does not find is left out.  The walk over the entries is one step, *)
(* and search_ext, which only leaves files out, is empty.                  *)
SeenByStat(d) == {p \in Children(Walk(d)) : Exists(p)}
FileInfosRelative(d) == IF IsDirectory(d) THEN {<<p[Len(p)]>> : p \in SeenByStat(d)} ELSE {}
FileInfos(d) == IF IsDirectory(d)
                THEN {Append(d, p[Len(p)]) : p \in SeenByStat(d)} ELSE {}
Frame(d) == [dir |-> d,
             files |-> {p \in FileInfos(d) : ~IsDirectory(p)},
             dirs |-> {p \in FileInfos(d) : IsDirectory(p)}]

Recursive(t, op) ==
    \E p \in Targets :
        /\ Begin(t, op, p)
        /\ pc' = [pc EXCEPT ![t] = op] /\ stack' = [stack EXCEPT ![t] = <<Frame(p)>>]
        /\ files' = [files EXCEPT ![t] = <<>>]
        /\ UNCHANGED <<level, result>>

top(t) == stack[t][Len(stack[t])]
Caller(t) == SubSeq(stack[t], 1, Len(stack[t]) - 1)
Push(t, p) ==
    stack' = [stack EXCEPT ![t] =
        Append([@ EXCEPT ![Len(@)].dirs = @ \ {p}], Frame(p))]

Descend(t, op) ==
    /\ pc[t] = op
    /\ \E p \in top(t).dirs :
        /\ Push(t, p)
        /\ UNCHANGED <<fs, pc, path, level, result, files, there, stays>>

RemoveDirRecursive(t) == Recursive(t, "remove")

GiveUp(t) ==
    /\ Return(t, "failed") /\ stack' = [stack EXCEPT ![t] = <<>>]
    /\ UNCHANGED <<fs, stays>>

(* Remove: rmdir or remove, after a look at what it is.  The look and the  *)
(* removal are one step here: an entry that goes in between fails in both. *)
RemoveEntry(t) ==
    /\ pc[t] = "remove"
    /\ \E p \in top(t).files :
        IF Exists(p) /\ (IsDirectory(p) => fs[Entry(p)] = Dir /\ Children(Entry(p)) = {})
        THEN /\ Takes(Entry(p)) /\ Touched(Entry(p))
             /\ stack' = [stack EXCEPT ![t][Len(stack[t])].files = @ \ {p}]
             /\ UNCHANGED <<pc, result>>
        ELSE GiveUp(t)
    /\ UNCHANGED <<path, level, files, there>>

EntriesDone(t) == top(t).files = {} /\ top(t).dirs = {}

RemoveDir(t) ==
    /\ pc[t] = "remove" /\ EntriesDone(t)
    /\ LET d == Entry(top(t).dir)
       IN  IF Exists(top(t).dir) /\ fs[d] = Dir /\ Children(d) = {}
           THEN /\ Takes(d) /\ Touched(d) /\ stack' = [stack EXCEPT ![t] = Caller(t)]
                /\ IF Caller(t) = <<>> THEN Return(t, "removed") ELSE UNCHANGED <<pc, result>>
           ELSE GiveUp(t)
    /\ UNCHANGED <<path, level, files, there>>

FindFilesRecursive(t) == Recursive(t, "find")

FindFile(t) ==
    /\ pc[t] = "find"
    /\ \E p \in top(t).files :
        /\ files' = [files EXCEPT ![t] = Append(@, p)]
        /\ stack' = [stack EXCEPT ![t][Len(stack[t])].files = @ \ {p}]
        /\ UNCHANGED <<fs, pc, path, level, result, there, stays>>

FoundInDirectory(t) ==
    /\ pc[t] = "find" /\ EntriesDone(t)
    /\ stack' = [stack EXCEPT ![t] = Caller(t)]
    /\ IF Caller(t) = <<>> THEN Return(t, "found") ELSE UNCHANGED <<pc, result>>
    /\ UNCHANGED <<fs, path, level, files, there, stays>>
-----------------------------------------------------------------------------
(* Create with and without remove_old: the same for a file; a directory    *)
(* that is empty is removed for a file.                                    *)
Create(t) ==
    \E p \in Files, remove_old \in BOOLEAN :
        /\ "file" \in Does[t] /\ pc[t] = "idle"
        /\ IsDirectory(SubSeq(p, 1, Len(p) - 1)) /\ Entry(p) = p
        /\ p \in DOMAIN fs => remove_old /\ (fs[p] = File \/ Children(p) = {})
        /\ Puts(p, File) /\ Touched(p)
        /\ UNCHANGED <<pc, path, level, stack, result, files, there>>

RemoveFile(t) ==
    \E p \in Files :
        /\ "file" \in Does[t] /\ pc[t] = "idle"
        /\ p \in DOMAIN fs /\ fs[p] = File
        /\ Takes(p) /\ Touched(p)
        /\ UNCHANGED <<pc, path, level, stack, result, files, there>>

Move(t) ==
    \E p, q \in Files :
        /\ "move" \in Does[t] /\ pc[t] = "idle"
        /\ p # q /\ p \in DOMAIN fs /\ fs[p] = File
        /\ IsDirectory(SubSeq(q, 1, Len(q) - 1)) /\ Entry(q) = q
        /\ q \in DOMAIN fs => fs[q] = File
        /\ fs' = [r \in (DOMAIN fs \ {p}) \union {q} |-> IF r = q THEN File ELSE fs[r]]
        /\ stays' = [u \in Threads |-> stays[u] \ {p, q}]
        /\ UNCHANGED <<pc, path, level, stack, result, files, there>>

Next ==
    \E t \in Threads :
        \/ CreateDirRecursive(t) \/ CheckDirectory(t) \/ CheckExists(t) \/ CreateDir(t)
        \/ RemoveDirRecursive(t) \/ Descend(t, "remove") \/ RemoveEntry(t) \/ RemoveDir(t)
        \/ FindFilesRecursive(t) \/ Descend(t, "find") \/ FindFile(t) \/ FoundInDirectory(t)
        \/ Create(t) \/ RemoveFile(t) \/ Move(t)

Spec == Init /\ [][Next]_vars
-----------------------------------------------------------------------------
Returns(t, r) == pc[t] # "idle" /\ pc'[t] = "idle" /\ result'[t] = r

(* CreateDirRecursive returns true only if all the directories are there,  *)
(* whoever made them, as long as nobody takes directories away.            *)
CreatedIsThere ==
    [][\A t \in Threads : Returns(t, "created") =>
          \A n \in 1 .. Len(path[t]) : IsDirectory(SubSeq(path[t], 1, n))']_vars

(* RemoveDirRecursive that returns true has removed the directory with     *)
(* everything that was in it, however deep, and whatever came meanwhile.   *)
RemovedIsGone ==
    [][\A t \in Threads : Returns(t, "removed") => Below(path[t])' = {}]_vars

(* It removes nothing but what is below the directory.                     *)
RemovesOnlyBelow ==
    [][\A t \in Threads : (RemoveEntry(t) \/ RemoveDir(t)) =>
          \A p \in DOMAIN fs \ DOMAIN fs' : IsPrefix(path[t], p)]_vars

(* A file that was below the directory during the whole search is found,   *)
(* and none is found twice.                                                *)
FoundOnce ==
    [][\A t \in Threads : Returns(t, "found") =>
          /\ \A p \in stays[t] : IsPrefix(path[t], p) /\ fs[p] = File
                => \E n \in DOMAIN files[t] : files[t][n] = p
          /\ \A m, n \in DOMAIN files[t] : files[t][m] = files[t][n] => m = n]_vars

(* TCFile.h: "create a directory also if one of the parent directories     *)
(* does not exist": only a thing in its place, that is no directory, is a  *)
(* reason not to.                                                          *)
CreatesUnlessInTheWay ==
    [][\A t \in Threads : pc[t] \in {"isdir", "exists", "mkdir"} /\ Returns(t, "failed") =>
          ~IsDirectory(current_dir(t))]_vars

(* TCFile.h: "remove a directory also if not empty": a call that nobody    *)
(* disturbs succeeds if there is a directory.                              *)
RemovesAnyDirectory ==
    [][\A t \in Threads : pc[t] = "remove" /\ Returns(t, "failed") => path[t] \notin there[t]]_vars
=============================================================================
