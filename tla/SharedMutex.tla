---------------------------- MODULE SharedMutex ----------------------------
(***************************************************************************)
(* The named mutex that processes share (MutexSharedPthread over           *)
(* SemaphorePthread): a kernel semaphore found by its name, and in every   *)
(* process an object that remembers which thread took it and how often.    *)
(*                                                                         *)
(* One name is modelled.  Every process has at most one object for it, and *)
(* Object says which object the process of a thread uses.  A Lock that     *)
(* blocks is one that is not enabled; a TryLock that fails, and an UnLock  *)
(* of a thread that holds nothing, change nothing and are left out.        *)
(***************************************************************************)
EXTENDS Integers, FiniteSets

CONSTANTS
    Threads,      \* the threads of all processes
    Objects,      \* the MutexSharedPthread objects, one per process
    Object,       \* the object each thread uses
    Semaphores,   \* the kernel semaphores the name may stand for
    None,
    MaxDepth,     \* bound: nested locks of a thread
    LockExisting, \* may "locked" be asked of a semaphore that exists, or is
                  \* only looked for?
    CloseInUse    \* may an object that owns the name be destroyed while
                  \* another process has the mutex, or makes it or looks for
                  \* it before the name is gone?

SharedMutexAssumption ==
    /\ None \notin Threads \cup Objects \cup Semaphores
    /\ Object \in [Threads -> Objects]
    /\ MaxDepth \in Nat \ {0}
    /\ {LockExisting, CloseInUse} \subseteq BOOLEAN

VARIABLES
    name,     \* the semaphore the name stands for, or None
    value,    \* the values of the semaphores, -1 of those that do not exist
    opened,   \* m_semaphore of each object, None when there is no object
    unlinks,  \* the objects whose semaphore has m_name: they unlink it
    unlinking, \* those that are destroyed, between sem_close and sem_unlink
    owner,    \* m_owner_process
    nesting,  \* m_nesting_level
    pc,       \* where each thread is: "out" of any call, "taken" between
              \* sem_wait and SetOwnerShip, "posting" between UnGetIfOwner
              \* and sem_post
    depth     \* history: how often each thread has locked and not unlocked

vars == <<name, value, opened, unlinks, unlinking, owner, nesting, pc, depth>>

TypeOK ==
    /\ name \in Semaphores \cup {None}
    /\ value \in [Semaphores -> -1 .. Cardinality(Threads)]
    /\ opened \in [Objects -> Semaphores \cup {None}]
    /\ unlinks \cup unlinking \subseteq Objects
    /\ owner \in [Objects -> Threads \cup {None}]
    /\ nesting \in [Objects -> 0 .. MaxDepth]
    /\ pc \in [Threads -> {"out", "taken", "posting"}]
    /\ depth \in [Threads -> 0 .. MaxDepth]

Init ==
    /\ name = None
    /\ value = [s \in Semaphores |-> -1]
    /\ opened = [m \in Objects |-> None]
    /\ unlinks = {}
    /\ unlinking = {}
    /\ owner = [m \in Objects |-> None]
    /\ nesting = [m \in Objects |-> 0]
    /\ pc = [t \in Threads |-> "out"]
    /\ depth = [t \in Threads |-> 0]
-----------------------------------------------------------------------------
(* CreateMutex(name, locked, mode): Init of the semaphore with the value 0 *)
(* if locked and else 1, then SetOwnerShip if locked.                      *)

Initial(locked) == IF locked THEN 0 ELSE 1

OwnIf(locked, t) ==
    IF locked
    THEN /\ owner' = [owner EXCEPT ![Object[t]] = t]
         /\ nesting' = [nesting EXCEPT ![Object[t]] = 1]
         /\ depth' = [depth EXCEPT ![t] = 1]
    ELSE UNCHANGED <<owner, nesting, depth>>

Free(t) ==
    /\ opened[Object[t]] = None /\ pc[t] = "out"
    /\ unlinking # {} => CloseInUse

NewSemaphore(s, locked) ==
    /\ name = None
    /\ value[s] = -1
    /\ name' = s
    /\ value' = [value EXCEPT ![s] = Initial(locked)]

(* ALWAYS and WHEN_NOT_EXISTS, the name is not in use. *)
CreateNew(t, locked) ==
    /\ Free(t)
    /\ \E s \in Semaphores :
          /\ NewSemaphore(s, locked)
          /\ opened' = [opened EXCEPT ![Object[t]] = s]
    /\ unlinks' = unlinks \cup {Object[t]}
    /\ OwnIf(locked, t)
    /\ UNCHANGED <<unlinking, pc>>

(* ALWAYS and WHEN_EXISTS, the name is in use: the initial value is not    *)
(* looked at, yet a locked mutex counts as taken.  Only ALWAYS remembers   *)
(* the name.  WHEN_NOT_EXISTS fails here and changes nothing.  (The two    *)
(* sem_open calls of WHEN_EXISTS are one step.)                            *)
OpenExisting(t, mode, locked) ==
    /\ Free(t)
    /\ name # None
    /\ locked => LockExisting
    /\ opened' = [opened EXCEPT ![Object[t]] = name]
    /\ unlinks' = IF mode = "ALWAYS" THEN unlinks \cup {Object[t]} ELSE unlinks
    /\ OwnIf(locked, t)
    /\ UNCHANGED <<name, value, unlinking, pc>>

(* WHEN_EXISTS, the name is not in use: no mutex, but the semaphore that   *)
(* sem_open created to find out stays.                                     *)
ProbeMissing(t, locked) ==
    /\ Free(t)
    /\ locked => LockExisting
    /\ \E s \in Semaphores : NewSemaphore(s, locked)
    /\ UNCHANGED <<opened, unlinks, unlinking, owner, nesting, pc, depth>>

(* The last MutexPtr of the process goes while none of its threads uses    *)
(* it: sem_close, and then sem_unlink when the name was remembered.        *)
Closes(m) ==
    /\ opened[m] # None
    /\ m \notin unlinking
    /\ \A t \in Threads : Object[t] = m => pc[t] = "out" /\ depth[t] = 0
    /\ opened' = [opened EXCEPT ![m] = None]
    /\ unlinks' = unlinks \ {m}
    /\ owner' = [owner EXCEPT ![m] = None]
    /\ nesting' = [nesting EXCEPT ![m] = 0]

(* A semaphore without a name that nobody has open is gone. *)
KeepUsed == value' = [s \in Semaphores |->
    IF s = name' \/ \E n \in Objects : opened'[n] = s THEN value[s] ELSE -1]

(* Mutant of DestroyCloses: every process unlinks the name. *)
DestroyClosesAndUnlinks(m) ==
    /\ Closes(m)
    /\ unlinking' = unlinking \cup {m}
    /\ UNCHANGED <<name, pc, depth>>
    /\ KeepUsed

DestroyCloses(m) ==
    /\ Closes(m)
    /\ (m \in unlinks /\ ~CloseInUse) => \A n \in Objects \ {m} : opened[n] = None
    /\ unlinking' = unlinking \cup (unlinks \cap {m})
    /\ UNCHANGED <<name, pc, depth>>
    /\ KeepUsed

DestroyUnlinks(m) ==
    /\ m \in unlinking
    /\ unlinking' = unlinking \ {m}
    /\ name' = None
    /\ UNCHANGED <<opened, unlinks, owner, nesting, pc, depth>>
    /\ KeepUsed
-----------------------------------------------------------------------------
(* Lock and both TryLock: a thread that owns the mutex nests, another one  *)
(* takes the semaphore and then writes itself down as the owner.           *)

Nest(t) ==
    /\ pc[t] = "out"
    /\ opened[Object[t]] # None
    /\ owner[Object[t]] = t
    /\ depth[t] < MaxDepth
    /\ nesting' = [nesting EXCEPT ![Object[t]] = @ + 1]
    /\ depth' = [depth EXCEPT ![t] = @ + 1]
    /\ UNCHANGED <<name, value, opened, unlinks, unlinking, owner, pc>>

Take(t) ==
    /\ pc[t] = "out"
    /\ opened[Object[t]] # None
    /\ owner[Object[t]] # t
    /\ value[opened[Object[t]]] > 0
    /\ value' = [value EXCEPT ![opened[Object[t]]] = @ - 1]
    /\ pc' = [pc EXCEPT ![t] = "taken"]
    /\ UNCHANGED <<name, opened, unlinks, unlinking, owner, nesting, depth>>

SetOwnerShip(t) ==
    /\ pc[t] = "taken"
    /\ pc' = [pc EXCEPT ![t] = "out"]
    /\ OwnIf(TRUE, t)
    /\ UNCHANGED <<name, value, opened, unlinks, unlinking>>

(* UnLock of a thread that believes it holds the mutex: a thread that is   *)
(* not the owner is told true and nothing happens.                         *)
UnLock(t) ==
    LET m == Object[t] IN
    /\ pc[t] = "out"
    /\ depth[t] > 0
    /\ depth' = [depth EXCEPT ![t] = @ - 1]
    /\ IF owner[m] = t /\ nesting[m] > 0
       THEN /\ nesting' = [nesting EXCEPT ![m] = @ - 1]
            /\ owner' = IF nesting[m] = 1 THEN [owner EXCEPT ![m] = None] ELSE owner
            /\ pc' = IF nesting[m] = 1 THEN [pc EXCEPT ![t] = "posting"] ELSE pc
       ELSE UNCHANGED <<nesting, owner, pc>>
    /\ UNCHANGED <<name, value, opened, unlinks, unlinking>>

Post(t) ==
    /\ pc[t] = "posting"
    /\ value' = [value EXCEPT ![opened[Object[t]]] = @ + 1]
    /\ pc' = [pc EXCEPT ![t] = "out"]
    /\ UNCHANGED <<name, opened, unlinks, unlinking, owner, nesting, depth>>

Next ==
    \/ \E t \in Threads, locked \in BOOLEAN :
          \/ CreateNew(t, locked)
          \/ ProbeMissing(t, locked)
          \/ \E mode \in {"ALWAYS", "WHEN_EXISTS"} : OpenExisting(t, mode, locked)
    \/ \E m \in Objects : DestroyCloses(m) \/ DestroyUnlinks(m)
    \/ \E t \in Threads : Nest(t) \/ Take(t) \/ SetOwnerShip(t) \/ UnLock(t) \/ Post(t)

Spec == Init /\ [][Next]_vars
-----------------------------------------------------------------------------
(* "mutex": of all threads of all processes that use the name, at most one *)
(* has locked it.  TCMTMutex.h says of Lock "if already locked wait until  *)
(* it get unlocked", TCMTFactory.h of the name "so that it can be created  *)
(* inside other processes".                                                *)
MutualExclusion ==
    \A t, u \in Threads : depth[t] > 0 /\ depth[u] > 0 => t = u

(* The unsynchronised fields of an object name its holder exactly, however *)
(* SetOwnerShip, UnGetIfOwner and sem_post interleave with other threads.  *)
OwnerIsHolder ==
    \A t \in Threads :
        /\ depth[t] > 0 <=> owner[Object[t]] = t
        /\ depth[t] > 0 => nesting[Object[t]] = depth[t]

(* The semaphore is not lost and not given twice: when nobody can take it  *)
(* there is a thread that holds it or is about to post it.                 *)
Busy == {t \in Threads : depth[t] > 0 \/ pc[t] # "out"}

OneToken == name # None => value[name] + Cardinality(Busy) = 1
=============================================================================
