------------------------------ MODULE MCShared ------------------------------
(***************************************************************************)
(* What threads and processes share.                                       *)
(*   event:     three threads that use one EventPthread;                   *)
(*   condition: waiters and a signaller of one condition made for Windows; *)
(*   mutex:     two processes that use one named mutex, one of them with   *)
(*              two threads that share its object.  An object has at most  *)
(*              one semaphore open and the name may stand for a third one, *)
(*              so three semaphores are as good as any number;             *)
(*   pointer:   three threads and two objects: a variable can move from    *)
(*              one object to the other while two other threads hold,      *)
(*              copy, lock or drop either.                                 *)
(* The parts share no state: a behaviour is of one of them, and the other  *)
(* ones stay as they were created.                                         *)
(***************************************************************************)
EXTENDS EventUsers, TLC

CONSTANTS t1, t2, t3, m1, m2,
          Waiters, Signallers, MaxSignals, MaxBroadcasts,
          Objects, Object, Semaphores, Nobody, MaxDepth, LockExisting, CloseInUse,
          Holders, Pointees, Nil, UnguardedLocks

MCObject == (t1 :> m1) @@ (t2 :> m1) @@ (t3 :> m2)

VARIABLES part,
    mutex, conditionPC, waiters_count, SIGNAL, BROADCAST, waitResult,
    signals, broadcasts, passed, owed,
    name, value, opened, unlinks, unlinking, owner, nesting, mutexPC, depth,
    strong, weak, count, weak_count, object, counter, ptrPC, old, keeper

conditionVars == <<mutex, conditionPC, waiters_count, SIGNAL, BROADCAST, waitResult,
                   signals, broadcasts, passed, owed>>
mutexVars == <<name, value, opened, unlinks, unlinking, owner, nesting, mutexPC, depth>>
ptrVars == <<strong, weak, count, weak_count, object, counter, ptrPC, old, keeper>>
allVars == <<part, vars, conditionVars, mutexVars, ptrVars>>

C == INSTANCE ConditionWin32 WITH pc <- conditionPC, result <- waitResult
X == INSTANCE SharedMutex WITH None <- Nobody, pc <- mutexPC
P == INSTANCE SharedPtr WITH Threads <- Holders, Objects <- Pointees, pc <- ptrPC

ASSUME MCAssumption ==
    C!ConditionAssumption /\ X!SharedMutexAssumption /\ P!SharedPtrAssumption

MCInit ==
    /\ part \in {"event", "condition", "mutex", "pointer"}
    /\ Init /\ (part # "event" => event = NewEvent(FALSE, FALSE))
    /\ C!Init /\ X!Init /\ P!Init

InEvent(A) == part = "event" /\ A /\ UNCHANGED <<part, conditionVars, mutexVars, ptrVars>>
InCondition(A) == part = "condition" /\ A /\ UNCHANGED <<part, vars, mutexVars, ptrVars>>
InMutex(A) == part = "mutex" /\ A /\ UNCHANGED <<part, vars, conditionVars, ptrVars>>
InPointer(A) == part = "pointer" /\ A /\ UNCHANGED <<part, vars, conditionVars, mutexVars>>

(* All objects were made and are gone. *)
Over ==
    /\ part = "pointer"
    /\ \A o \in Pointees : object[o] = "deleted" /\ counter[o] = "destroyed"
    /\ UNCHANGED allVars

MCNext ==
    \/ InEvent(Next)
    \/ InCondition(C!Next)
    \/ InMutex(X!Next)
    \/ InPointer(P!Next)
    \/ Over

(* The fairness of SharedPtr. *)
MCSpec ==
    /\ MCInit /\ [][MCNext]_allVars
    /\ \A t \in Holders : WF_allVars(InPointer(P!Step(t)))
-----------------------------------------------------------------------------
(* Signal of the Windows condition wakes at most one waiter, and the       *)
(* counter it looks at misses none.                                        *)
OnePassPerSignal == C!OnePassPerSignal /\ C!CountExact

(* "mutex": of all threads of all processes that use the name, at most one *)
(* has locked it.  TCMTMutex.h says of Lock "if already locked wait until  *)
(* it get unlocked", TCMTFactory.h of the name "so that it can be created  *)
(* inside other processes".                                                *)
MutualExclusion == X!MutualExclusion

(* TCSharedPtr.h: "This shared pointer avoids destruction of an object in  *)
(* use"; its counter is not used after its end either.                     *)
InUseIsAlive == P!InUseIsAlive /\ P!CounterOutlives

(* An object nobody points to any more is deleted at last, and its counter *)
(* destroyed.                                                              *)
NothingLeaks == P!NothingLeaks
=============================================================================
