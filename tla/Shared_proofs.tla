------------------------- MODULE Shared_proofs ------------------------------
(***************************************************************************)
(* Proofs about what threads and processes share, for any of them.         *)
(*   event:     EventUsers, for any number of sets;                        *)
(*   condition: ConditionWin32, for any number of signals and broadcasts;  *)
(*   mutex:     SharedMutex, for any semaphores and depths, under the two  *)
(*              rules of the callers: locked = TRUE is asked only of a new *)
(*              semaphore, and an object that owns the name is destroyed   *)
(*              only when no other process has the mutex open or asks for  *)
(*              it before the name is gone;                                *)
(*   pointer:   SharedPtr, for any objects, under the rule that a weak     *)
(*              pointer is locked while somebody keeps its object alive.   *)
(***************************************************************************)
EXTENDS MCShared, OperatorLemmas

(* Inside a call that has not returned, a set event was seen to be set. *)
SeenSet == \A t \in Threads : (call[t] # "none" /\ event.state) => wasSet[t]

-----------------------------------------------------------------------------
(* The typing invariant. *)

LEMMA TypeInit == Init => TypeOK
<1> SUFFICES ASSUME Init PROVE TypeOK
  OBVIOUS
<1>1. PICK manual_reset, initial_state \in BOOLEAN :
          /\ event = NewEvent(manual_reset, initial_state)
          /\ sets = IF initial_state THEN 1 ELSE 0
  BY DEF Init
<1> QED
  BY <1>1 DEF Init, TypeOK, NewEvent, EventType

LEMMA TypeNext == TypeOK /\ [Next]_vars => TypeOK'
<1> SUFFICES ASSUME TypeOK, [Next]_vars PROVE TypeOK'
  OBVIOUS
<1> USE DEF TypeOK
<1>0. event \in EventType(Threads)
  OBVIOUS
<1>1. ASSUME NEW t \in Threads, NEW method, Enter(t, method)
      PROVE  /\ event' \in EventType(Threads)
             /\ wasSet' \in [Threads -> BOOLEAN]
             /\ sets' \in Nat
             /\ event'.woken = event.woken
             /\ event.state => event'.waiting = event.waiting
             /\ ~event.state => event'.waiting = event.waiting \cup {t}
             /\ t \notin event.waiting \cup event.woken
  <2>1. event' = EventWait(event, t) /\ call[t] = "none"
    BY <1>1 DEF Enter
  <2>2. event.state \in BOOLEAN
    BY <1>0 DEF EventType
  <2>3. wasSet' \in [Threads -> BOOLEAN] /\ sets' \in Nat
    BY <1>1, <2>2 DEF Enter
  <2> QED
    BY <1>0, <2>1, <2>3, EventWaitParts
<1>2. ASSUME NEW t \in Threads, NEW method \in {"Wait", "Infinite"}, WaitFor(t, method)
      PROVE  TypeOK'
  <2>1. Enter(t, method) /\ passes' = passes
    BY <1>2 DEF WaitFor
  <2>2. CASE event.state
    <3>1. result' = [result EXCEPT ![t] = Truth(method)] /\ call' = call
      BY <1>2, <2>2 DEF WaitFor
    <3> QED
      BY <1>1, <2>1, <2>2, <3>1 DEF Truth
  <2>3. CASE ~event.state
    <3>1. /\ call' = [call EXCEPT ![t] = method]
          /\ result' = [result EXCEPT ![t] = "none"]
      BY <1>2, <2>3 DEF WaitFor
    <3> QED
      BY <1>1, <2>1, <2>3, <3>1
  <2> QED
    BY <2>2, <2>3
<1>3. ASSUME NEW t \in Threads, TryWaitFinite(t) PROVE TypeOK'
  <2>1. Enter(t, "TryWait")
    BY <1>3 DEF TryWaitFinite
  <2>2. CASE event.state
    <3>1. /\ result' = [result EXCEPT ![t] = "TryWaitTrue"]
          /\ passes' \in Nat
          /\ call' = call
      BY <1>3, <2>2 DEF TryWaitFinite, Passed
    <3> QED
      BY <1>1, <2>1, <2>2, <3>1
  <2>3. CASE ~event.state
    <3>1. /\ call' = [call EXCEPT ![t] = "TryWait"]
          /\ result' = [result EXCEPT ![t] = "none"]
          /\ passes' = passes
      BY <1>3, <2>3 DEF TryWaitFinite
    <3> QED
      BY <1>1, <2>1, <2>3, <3>1
  <2> QED
    BY <2>2, <2>3
<1>4. ASSUME NEW t \in Threads, Try(t) PROVE TypeOK'
  <2>1. /\ event' \in EventType(Threads)
        /\ event'.waiting = event.waiting
        /\ event'.woken = event.woken
    BY <1>0, <1>4, ConsumeParts DEF Try
  <2> QED
    BY <1>4, <2>1 DEF Try, Passed
<1>5. ASSUME NEW t \in Threads, Set(t) PROVE TypeOK'
  <2>1. /\ event' \in EventType(Threads)
        /\ event'.waiting \cup event'.woken = event.waiting \cup event.woken
        /\ event'.waiting \cap event'.woken = {}
    BY <1>0, <1>5, EventSetParts DEF Set
  <2> QED
    BY <1>5, <2>1 DEF Set
<1>6. ASSUME NEW t \in Threads, Reset(t) PROVE TypeOK'
  <2>1. /\ event' \in EventType(Threads)
        /\ event'.waiting = event.waiting
        /\ event'.woken = event.woken
    BY <1>0, <1>6, EventResetParts DEF Reset
  <2> QED
    BY <1>6, <2>1 DEF Reset
<1>7. ASSUME NEW t \in Threads, WaitReturns(t) \/ TryWaitReturns(t) PROVE TypeOK'
  <2>1. /\ event' \in EventType(Threads)
        /\ event'.waiting = event.waiting
        /\ event'.woken = event.woken \ {t}
        /\ t \in event.woken
    BY <1>0, <1>7, EventResumeParts DEF WaitReturns, TryWaitReturns
  <2>2. /\ call' = [call EXCEPT ![t] = "none"]
        /\ wasSet' = wasSet
        /\ sets' = sets
    BY <1>7 DEF WaitReturns, TryWaitReturns
  <2>3. result' \in [Threads -> {"none", "WaitTrue", "InfiniteTrue", "TryWaitTrue", "TryWaitFalse"}]
    BY <1>7 DEF WaitReturns, TryWaitReturns, Truth
  <2>4. passes' \in Nat
    BY <1>7 DEF WaitReturns, TryWaitReturns, Passed
  <2> QED
    BY <2>1, <2>2, <2>3, <2>4
<1>8. ASSUME NEW t \in Threads, TryWaitTimesOut(t) PROVE TypeOK'
  <2>1. /\ event' \in EventType(Threads)
        /\ event'.waiting = event.waiting \ {t}
        /\ event'.woken = event.woken
    BY <1>0, <1>8, EventTimeOutParts DEF TryWaitTimesOut
  <2> QED
    BY <1>8, <2>1 DEF TryWaitTimesOut
<1>9. ASSUME NEW t \in Threads, SpuriousWakeup(t) PROVE TypeOK'
  <2>1. /\ event' \in EventType(Threads)
        /\ event'.waiting = event.waiting \ {t}
        /\ event'.woken = event.woken \cup {t}
    BY <1>0, <1>9, UnblockParts DEF SpuriousWakeup
  <2> QED
    BY <1>9, <2>1 DEF SpuriousWakeup
<1>10. CASE UNCHANGED vars
  BY <1>10 DEF vars
<1> QED
  BY <1>2, <1>3, <1>4, <1>5, <1>6, <1>7, <1>8, <1>9, <1>10 DEF Next, Wait, TryWait

(* In every reachable state the fields of the event, the calls in progress *)
(* and the results have their types, and the threads the condition         *)
(* variable knows are exactly the threads inside Wait or TryWait.          *)
THEOREM EventTypeCorrect == Spec => []TypeOK
<1>1. Init => TypeOK
  BY TypeInit
<1>2. TypeOK /\ [Next]_vars => TypeOK'
  BY TypeNext
<1> QED
  BY <1>1, <1>2, PTL DEF Spec
-----------------------------------------------------------------------------
(* A set event is never slept on. *)

LEMMA NoLostSignalNext ==
    TypeOK /\ NoLostSignal /\ [Next]_vars => NoLostSignal'
<1> SUFFICES ASSUME TypeOK, NoLostSignal, [Next]_vars PROVE NoLostSignal'
  OBVIOUS
<1> USE DEF NoLostSignal
<1>0. event \in EventType(Threads) /\ event.state \in BOOLEAN /\ event.manual_reset \in BOOLEAN
  BY DEF TypeOK, EventType
<1>1. ASSUME NEW t \in Threads, NEW method \in {"Wait", "Infinite"},
             WaitFor(t, method) \/ TryWaitFinite(t)
      PROVE NoLostSignal'
  <2>1. event' = EventWait(event, t)
    BY <1>1 DEF WaitFor, TryWaitFinite, Enter
  <2>2. CASE event.state
    BY <1>0, <2>1, <2>2, EventWaitParts
  <2>3. CASE ~event.state
    BY <1>0, <2>1, <2>3, EventWaitParts
  <2> QED
    BY <2>2, <2>3
<1>2. ASSUME NEW t \in Threads, Set(t) PROVE NoLostSignal'
  BY <1>0, <1>2, EventSetParts DEF Set
<1>3. ASSUME NEW t \in Threads, Try(t) PROVE NoLostSignal'
  BY <1>0, <1>3, ConsumeParts DEF Try
<1>4. ASSUME NEW t \in Threads, Reset(t) PROVE NoLostSignal'
  BY <1>0, <1>4, EventResetParts DEF Reset
<1>5. ASSUME NEW t \in Threads, WaitReturns(t) \/ TryWaitReturns(t) PROVE NoLostSignal'
  BY <1>0, <1>5, EventResumeParts DEF WaitReturns, TryWaitReturns
<1>6. ASSUME NEW t \in Threads, TryWaitTimesOut(t) PROVE NoLostSignal'
  BY <1>0, <1>6, EventTimeOutParts DEF TryWaitTimesOut
<1>7. ASSUME NEW t \in Threads, SpuriousWakeup(t) PROVE NoLostSignal'
  BY <1>0, <1>7, UnblockParts DEF SpuriousWakeup
<1>8. CASE UNCHANGED vars
  BY <1>8 DEF vars
<1> QED
  BY <1>1, <1>2, <1>3, <1>4, <1>5, <1>6, <1>7, <1>8 DEF Next, Wait, TryWait

(* Whatever the threads do, no thread stays blocked beside a set event     *)
(* unless an unblocked one is on its way to take it (EventPthread::Set,    *)
(* Wait, TryWait).                                                         *)
THEOREM SetEventIsNotSleptOn == Spec => []NoLostSignal
<1>1. Init => NoLostSignal
  BY DEF Init, NoLostSignal, NewEvent
<1>2. TypeOK /\ NoLostSignal /\ [Next]_vars => NoLostSignal'
  BY NoLostSignalNext
<1> QED
  BY <1>1, <1>2, EventTypeCorrect, PTL DEF Spec
-----------------------------------------------------------------------------
(* One Set lets at most one Try or finite TryWait pass an auto-reset event. *)

LEMMA OnePassPerSetNext ==
    TypeOK /\ OnePassPerSet /\ [Next]_vars => OnePassPerSet'
<1> SUFFICES ASSUME TypeOK, OnePassPerSet, [Next]_vars PROVE OnePassPerSet'
  OBVIOUS
<1> USE DEF OnePassPerSet
<1>0. /\ event \in EventType(Threads)
      /\ event.state \in BOOLEAN
      /\ event.manual_reset \in BOOLEAN
      /\ passes \in Nat
      /\ sets \in Nat
  BY DEF TypeOK, EventType
<1>1. ASSUME NEW t \in Threads, NEW method \in {"Wait", "Infinite"},
             WaitFor(t, method) \/ TryWaitFinite(t)
      PROVE OnePassPerSet'
  <2>1. event' = EventWait(event, t) /\ sets' = sets
    BY <1>1 DEF WaitFor, TryWaitFinite, Enter
  <2>2. CASE event.state
    <3>1. passes' = passes \/ passes' = Passed
      BY <1>1, <2>2 DEF WaitFor, TryWaitFinite
    <3> QED
      BY <1>0, <2>1, <2>2, <3>1, EventWaitParts DEF Passed
  <2>3. CASE ~event.state
    <3>1. passes' = passes
      BY <1>1, <2>3 DEF WaitFor, TryWaitFinite
    <3> QED
      BY <1>0, <2>1, <2>3, <3>1, EventWaitParts
  <2> QED
    BY <2>2, <2>3
<1>2. ASSUME NEW t \in Threads, Set(t) PROVE OnePassPerSet'
  BY <1>0, <1>2, EventSetParts DEF Set
<1>3. ASSUME NEW t \in Threads, Try(t) PROVE OnePassPerSet'
  BY <1>0, <1>3, ConsumeParts DEF Try, Passed
<1>4. ASSUME NEW t \in Threads, Reset(t) PROVE OnePassPerSet'
  BY <1>0, <1>4, EventResetParts DEF Reset
<1>5. ASSUME NEW t \in Threads, WaitReturns(t) PROVE OnePassPerSet'
  BY <1>0, <1>5, EventResumeParts DEF WaitReturns, Truth
<1>6. ASSUME NEW t \in Threads, TryWaitReturns(t) PROVE OnePassPerSet'
  BY <1>0, <1>6, EventResumeParts DEF TryWaitReturns, Passed
<1>7. ASSUME NEW t \in Threads, TryWaitTimesOut(t) PROVE OnePassPerSet'
  BY <1>0, <1>7, EventTimeOutParts DEF TryWaitTimesOut
<1>8. ASSUME NEW t \in Threads, SpuriousWakeup(t) PROVE OnePassPerSet'
  BY <1>0, <1>8, UnblockParts DEF SpuriousWakeup
<1>9. CASE UNCHANGED vars
  BY <1>9 DEF vars
<1> QED
  BY <1>1, <1>2, <1>3, <1>4, <1>5, <1>6, <1>7, <1>8, <1>9 DEF Next, Wait, TryWait

(* However many threads one signal unblocks, and however their returns and *)
(* further waits interleave, Try and TryWait with a finite timeout report  *)
(* no more passes of an auto-reset event than it was set.  (Wait, and      *)
(* TryWait with an infinite timeout, which calls it, are not counted: they *)
(* do not look at the state again.)                                        *)
THEOREM SetsBoundPasses == Spec => []OnePassPerSet
<1>1. Init => OnePassPerSet
  <2> SUFFICES ASSUME Init PROVE OnePassPerSet
    OBVIOUS
  <2>1. PICK manual_reset, initial_state \in BOOLEAN :
            /\ event = NewEvent(manual_reset, initial_state)
            /\ sets = IF initial_state THEN 1 ELSE 0
    BY DEF Init
  <2> QED
    BY <2>1 DEF Init, OnePassPerSet, NewEvent
<1>2. TypeOK /\ OnePassPerSet /\ [Next]_vars => OnePassPerSet'
  BY OnePassPerSetNext
<1> QED
  BY <1>1, <1>2, EventTypeCorrect, PTL DEF Spec
-----------------------------------------------------------------------------
(* A finite TryWait says true only when the event was set while it ran. *)

LEMMA SeenSetNext ==
    TypeOK /\ SeenSet /\ TryWaitTrueMeansSet /\ [Next]_vars
        => SeenSet' /\ TryWaitTrueMeansSet'
<1> SUFFICES ASSUME TypeOK, SeenSet, TryWaitTrueMeansSet, [Next]_vars
             PROVE  SeenSet' /\ TryWaitTrueMeansSet'
  OBVIOUS
<1> USE DEF SeenSet, TryWaitTrueMeansSet
<1>0. /\ event \in EventType(Threads)
      /\ event.state \in BOOLEAN
      /\ event.manual_reset \in BOOLEAN
      /\ call \in [Threads -> {"none", "Wait", "Infinite", "TryWait"}]
      /\ wasSet \in [Threads -> BOOLEAN]
      /\ result \in [Threads -> {"none", "WaitTrue", "InfiniteTrue", "TryWaitTrue", "TryWaitFalse"}]
  BY DEF TypeOK, EventType
<1>1. ASSUME NEW t \in Threads, NEW method \in {"Wait", "Infinite"},
             WaitFor(t, method) \/ TryWaitFinite(t)
     
      PROVE SeenSet' /\ TryWaitTrueMeansSet'
  <2>1. /\ event' = EventWait(event, t)
        /\ wasSet' = [wasSet EXCEPT ![t] = event.state]
        /\ call[t] = "none"
    BY <1>1 DEF WaitFor, TryWaitFinite, Enter
  <2>2. CASE event.state
    <3>1. /\ call' = call
          /\ \/ result' = [result EXCEPT ![t] = Truth(method)]
             \/ result' = [result EXCEPT ![t] = "TryWaitTrue"]
      BY <1>1, <2>2 DEF WaitFor, TryWaitFinite
    <3> QED
      BY <1>0, <2>1, <2>2, <3>1, EventWaitParts DEF Truth
  <2>3. CASE ~event.state
    <3>1. result' = [result EXCEPT ![t] = "none"]
      BY <1>1, <2>3 DEF WaitFor, TryWaitFinite
    <3>2. ~event'.state
      BY <1>0, <2>1, <2>3, EventWaitParts
    <3> QED
      BY <1>0, <2>1, <3>1, <3>2
  <2> QED
    BY <2>2, <2>3
<1>2. ASSUME NEW t \in Threads, Set(t) PROVE SeenSet' /\ TryWaitTrueMeansSet'
  BY <1>0, <1>2 DEF Set
<1>3. ASSUME NEW t \in Threads, Try(t) PROVE SeenSet' /\ TryWaitTrueMeansSet'
  BY <1>0, <1>3, ConsumeParts DEF Try
<1>4. ASSUME NEW t \in Threads, Reset(t) PROVE SeenSet' /\ TryWaitTrueMeansSet'
  BY <1>0, <1>4, EventResetParts DEF Reset
<1>5. ASSUME NEW t \in Threads, WaitReturns(t) PROVE SeenSet' /\ TryWaitTrueMeansSet'
  BY <1>0, <1>5, EventResumeParts DEF WaitReturns, Truth
<1>6. ASSUME NEW t \in Threads, TryWaitReturns(t) PROVE SeenSet' /\ TryWaitTrueMeansSet'
  BY <1>0, <1>6, EventResumeParts DEF TryWaitReturns
<1>7. ASSUME NEW t \in Threads, TryWaitTimesOut(t) PROVE SeenSet' /\ TryWaitTrueMeansSet'
  BY <1>0, <1>7, EventTimeOutParts DEF TryWaitTimesOut
<1>8. ASSUME NEW t \in Threads, SpuriousWakeup(t) PROVE SeenSet' /\ TryWaitTrueMeansSet'
  BY <1>0, <1>8, UnblockParts DEF SpuriousWakeup
<1>9. CASE UNCHANGED vars
  BY <1>9 DEF vars
<1> QED
  BY <1>1, <1>2, <1>3, <1>4, <1>5, <1>6, <1>7, <1>8, <1>9 DEF Next, Wait, TryWait

(* A TryWait with a finite timeout that returned true had the event set at *)
(* some time between its call and its return, for it looks at the state    *)
(* again after the wait; one with an infinite timeout does not.            *)
THEOREM TryWaitIsTruthful == Spec => []TryWaitTrueMeansSet
<1>1. Init => SeenSet /\ TryWaitTrueMeansSet
  BY DEF Init, SeenSet, TryWaitTrueMeansSet
<1>2. TypeOK /\ SeenSet /\ TryWaitTrueMeansSet /\ [Next]_vars
        => SeenSet' /\ TryWaitTrueMeansSet'
  BY SeenSetNext
<1> QED
  BY <1>1, <1>2, EventTypeCorrect, PTL DEF Spec
-----------------------------------------------------------------------------
(* The condition made for Windows. *)

ConditionTyped ==
    /\ conditionPC \in [C!Callers -> {"out", "locked", "counted", "waiting", "woken", "last", "relock",
                             "signal", "broadcast"}]
    /\ waiters_count \in Int /\ passed \in Int /\ signals \in Int
    /\ SIGNAL \in BOOLEAN

Counting == {w \in Waiters : conditionPC[w] \in {"counted", "waiting", "woken"}}
Signalling == {s \in Signallers : conditionPC[s] = "signal"}

(* A Signal that found waiters is on its way, in the event, has let a      *)
(* waiter pass, or was lost in another one.                                *)
SignalsBound == passed + One(SIGNAL) + Cardinality(Signalling) <= signals

ConditionInv == ConditionTyped /\ C!CountExact /\ SignalsBound

LEMMA CallersFinite ==
    /\ IsFiniteSet(Waiters) /\ IsFiniteSet(Signallers)
    /\ Waiters \cap Signallers = {} /\ C!Callers = Waiters \cup Signallers
<1>1. IsFiniteSet(C!Callers)
  BY MCAssumption, Zenon DEF C!ConditionAssumption, C!IsFiniteSet, IsFiniteSet
<1>2. C!Callers = Waiters \cup Signallers
  BY DEF C!Callers
<1>3. Waiters \in SUBSET C!Callers /\ Signallers \in SUBSET C!Callers
  BY <1>2
<1>4. IsFiniteSet(Waiters) /\ IsFiniteSet(Signallers)
  BY <1>1, <1>3, FS_Subset, Zenon
<1> QED
  BY <1>2, <1>4, MCAssumption DEF C!ConditionAssumption

(* What a step of one thread does to the two sets.                         *)
LEMMA OneCallerMoves ==
    ASSUME ConditionTyped, NEW t \in C!Callers,
           \A u \in C!Callers : u # t => conditionPC'[u] = conditionPC[u]
    PROVE  /\ Cardinality(Counting) \in Nat /\ Cardinality(Signalling) \in Nat
           /\ t \in Waiters =>
                /\ Cardinality(Counting') = Cardinality(Counting)
                     + One(conditionPC'[t] \in {"counted", "waiting", "woken"})
                     - One(conditionPC[t] \in {"counted", "waiting", "woken"})
                /\ Cardinality(Signalling') = Cardinality(Signalling)
           /\ t \in Signallers =>
                /\ Cardinality(Counting') = Cardinality(Counting)
                /\ Cardinality(Signalling') = Cardinality(Signalling)
                     + One(conditionPC'[t] = "signal") - One(conditionPC[t] = "signal")
<1>1. /\ Counting \in SUBSET Waiters /\ Counting' \in SUBSET Waiters
      /\ Signalling \in SUBSET Signallers /\ Signalling' \in SUBSET Signallers
  BY DEF Counting, Signalling
<1>2. Cardinality(Counting) \in Nat /\ Cardinality(Signalling) \in Nat
  BY <1>1, CallersFinite, MemberCounts
<1>3. ASSUME t \in Waiters
      PROVE  /\ Cardinality(Counting') = Cardinality(Counting)
                  + One(conditionPC'[t] \in {"counted", "waiting", "woken"})
                  - One(conditionPC[t] \in {"counted", "waiting", "woken"})
             /\ Cardinality(Signalling') = Cardinality(Signalling)
  <2>1. Signalling' = Signalling
    BY <1>3, CallersFinite DEF Signalling
  <2>2. \A u \in Waiters : u # t => (u \in Counting <=> u \in Counting')
    BY CallersFinite DEF Counting
  <2>3. Cardinality(Counting') = Cardinality(Counting) + One(t \in Counting') - One(t \in Counting)
    BY <1>1, <1>3, <2>2, CallersFinite, OneMemberChanges
  <2>4. /\ t \in Counting <=> conditionPC[t] \in {"counted", "waiting", "woken"}
        /\ t \in Counting' <=> conditionPC'[t] \in {"counted", "waiting", "woken"}
    BY <1>3 DEF Counting
  <2> QED
    BY <2>1, <2>3, <2>4 DEF One
<1>4. ASSUME t \in Signallers
      PROVE  /\ Cardinality(Counting') = Cardinality(Counting)
             /\ Cardinality(Signalling') = Cardinality(Signalling)
                  + One(conditionPC'[t] = "signal") - One(conditionPC[t] = "signal")
  <2>1. Counting' = Counting
    BY <1>4, CallersFinite DEF Counting
  <2>2. \A u \in Signallers : u # t => (u \in Signalling <=> u \in Signalling')
    BY CallersFinite DEF Signalling
  <2>3. Cardinality(Signalling')
          = Cardinality(Signalling) + One(t \in Signalling') - One(t \in Signalling)
    BY <1>1, <1>4, <2>2, CallersFinite, OneMemberChanges
  <2>4. /\ t \in Signalling <=> conditionPC[t] = "signal"
        /\ t \in Signalling' <=> conditionPC'[t] = "signal"
    BY <1>4 DEF Signalling
  <2> QED
    BY <2>1, <2>3, <2>4 DEF One
<1> QED
  BY <1>2, <1>3, <1>4

LEMMA ConditionInit == C!Init => ConditionInv
<1> SUFFICES ASSUME C!Init PROVE ConditionInv
  OBVIOUS
<1>1. ConditionTyped
  <2>1. SIGNAL \in BOOLEAN
    BY Zenon DEF C!Init
  <2>2. /\ conditionPC = [t \in C!Callers |-> "out"]
        /\ waiters_count = 0 /\ passed = 0 /\ signals = 0
    BY DEF C!Init
  <2> QED
    BY <2>1, <2>2 DEF ConditionTyped
<1>2. Counting = {} /\ Signalling = {} /\ Cardinality({}) = 0
  BY CallersFinite, FS_EmptySet DEF C!Init, Counting, Signalling
<1>3. C!CountExact
  BY <1>2 DEF C!Init, C!CountExact, Counting, C!Cardinality, Cardinality
<1>4. SignalsBound
  BY <1>2 DEF C!Init, SignalsBound, One
<1> QED
  BY <1>1, <1>3, <1>4 DEF ConditionInv

LEMMA CountExactParts ==
    /\ C!CountExact <=> waiters_count = Cardinality(Counting)
    /\ C!CountExact' <=> waiters_count' = Cardinality(Counting')
BY DEF C!CountExact, Counting, C!Cardinality, Cardinality

(* A step of a waiter.                                                     *)
LEMMA WaiterMoves ==
    ASSUME ConditionInv, NEW w \in Waiters,
           \A u \in C!Callers : u # w => conditionPC'[u] = conditionPC[u],
           conditionPC' \in [C!Callers -> {"out", "locked", "counted", "waiting", "woken", "last", "relock",
                                  "signal", "broadcast"}],
           waiters_count' = waiters_count
              + One(conditionPC'[w] \in {"counted", "waiting", "woken"})
              - One(conditionPC[w] \in {"counted", "waiting", "woken"}),
           passed' \in Int, SIGNAL' \in BOOLEAN, signals' = signals,
           passed' + One(SIGNAL') = passed + One(SIGNAL)
    PROVE  ConditionInv'
<1>1. w \in C!Callers
  BY CallersFinite
<1>2. /\ Cardinality(Counting) \in Nat /\ Cardinality(Signalling) \in Nat
      /\ Cardinality(Counting') = Cardinality(Counting)
            + One(conditionPC'[w] \in {"counted", "waiting", "woken"})
            - One(conditionPC[w] \in {"counted", "waiting", "woken"})
      /\ Cardinality(Signalling') = Cardinality(Signalling)
  BY <1>1, OneCallerMoves DEF ConditionInv
<1>3. One(conditionPC'[w] \in {"counted", "waiting", "woken"}) \in Int
      /\ One(conditionPC[w] \in {"counted", "waiting", "woken"}) \in Int
  BY DEF One
<1>4. waiters_count = Cardinality(Counting)
  BY CountExactParts DEF ConditionInv
<1>5. waiters_count' = Cardinality(Counting') /\ waiters_count' \in Int
  BY <1>2, <1>3, <1>4
<1>6. SignalsBound'
  BY <1>2 DEF ConditionInv, SignalsBound
<1>7. ConditionTyped'
  BY <1>5 DEF ConditionInv, ConditionTyped
<1> QED
  BY <1>5, <1>6, <1>7, CountExactParts DEF ConditionInv

(* A step of a thread that does not wait.                                  *)
LEMMA SignallerMoves ==
    ASSUME ConditionInv, NEW s \in Signallers,
           \A u \in C!Callers : u # s => conditionPC'[u] = conditionPC[u],
           conditionPC' \in [C!Callers -> {"out", "locked", "counted", "waiting", "woken", "last", "relock",
                                  "signal", "broadcast"}],
           UNCHANGED <<waiters_count, passed>>, SIGNAL' \in BOOLEAN, signals' \in Int,
           One(SIGNAL') + One(conditionPC'[s] = "signal") - signals'
              <= One(SIGNAL) + One(conditionPC[s] = "signal") - signals
    PROVE  ConditionInv'
<1>1. s \in C!Callers
  BY CallersFinite
<1>2. /\ Cardinality(Counting) \in Nat /\ Cardinality(Signalling) \in Nat
      /\ Cardinality(Counting') = Cardinality(Counting)
      /\ Cardinality(Signalling')
            = Cardinality(Signalling) + One(conditionPC'[s] = "signal") - One(conditionPC[s] = "signal")
  BY <1>1, OneCallerMoves DEF ConditionInv
<1>3. /\ One(SIGNAL') \in Int /\ One(SIGNAL) \in Int
      /\ One(conditionPC'[s] = "signal") \in Int /\ One(conditionPC[s] = "signal") \in Int
  BY DEF One
<1>4. /\ waiters_count = Cardinality(Counting) /\ SignalsBound
      /\ passed \in Int /\ signals \in Int
  BY CountExactParts DEF ConditionInv, ConditionTyped
<1>5. waiters_count' = Cardinality(Counting')
  BY <1>2, <1>4
<1>6. SignalsBound'
  BY <1>2, <1>3, <1>4 DEF SignalsBound
<1>7. ConditionTyped'
  BY DEF ConditionInv, ConditionTyped
<1> QED
  BY <1>5, <1>6, <1>7, CountExactParts DEF ConditionInv

LEMMA ConditionNext == ConditionInv /\ [C!Next]_C!vars => ConditionInv'
<1> SUFFICES ASSUME ConditionInv, [C!Next]_C!vars PROVE ConditionInv'
  OBVIOUS
<1>0. CASE UNCHANGED C!vars
  <2>1. UNCHANGED <<conditionPC, waiters_count, passed, signals, SIGNAL>>
    BY <1>0 DEF C!vars
  <2>2. Counting' = Counting /\ Signalling' = Signalling
    BY <2>1 DEF Counting, Signalling
  <2> QED
    BY <2>1, <2>2, CountExactParts DEF ConditionInv, ConditionTyped, SignalsBound
<1> USE DEF C!Go
<1>1. ASSUME NEW w \in Waiters,
             \/ C!Lock(w) \/ C!UnLock(w) \/ C!CountWaiter(w) \/ C!ReleaseMutex(w)
             \/ C!WaitBroadcast(w) \/ C!LeaveWaiter(w) \/ C!ResetBroadcast(w)
             \/ C!WaitTimeout(w) \/ C!Reacquire(w)
      PROVE  ConditionInv'
  <2>1. w \in C!Callers
    BY CallersFinite
  <2>2. UNCHANGED <<SIGNAL, passed, signals>>
    BY <1>1 DEF C!Lock, C!UnLock, C!CountWaiter, C!ReleaseMutex, C!WaitBroadcast, C!LeaveWaiter,
                C!ResetBroadcast, C!WaitTimeout, C!Reacquire, C!Woken, C!events, C!history
  <2>3. /\ \A u \in C!Callers : u # w => conditionPC'[u] = conditionPC[u]
        /\ conditionPC' \in [C!Callers -> {"out", "locked", "counted", "waiting", "woken", "last",
                                  "relock", "signal", "broadcast"}]
    BY <1>1, <2>1
       DEF ConditionInv, ConditionTyped, C!Lock, C!UnLock, C!CountWaiter, C!ReleaseMutex,
           C!WaitBroadcast, C!LeaveWaiter, C!ResetBroadcast, C!WaitTimeout, C!Reacquire, C!Woken
  <2>4. waiters_count' = waiters_count
           + One(conditionPC'[w] \in {"counted", "waiting", "woken"})
           - One(conditionPC[w] \in {"counted", "waiting", "woken"})
    BY <1>1, <2>1
       DEF ConditionInv, ConditionTyped, C!Lock, C!UnLock, C!CountWaiter, C!ReleaseMutex,
           C!WaitBroadcast, C!LeaveWaiter, C!CountDown, C!ResetBroadcast, C!WaitTimeout,
           C!Reacquire, C!Woken, One
  <2>5. passed' \in Int /\ SIGNAL' \in BOOLEAN /\ passed' + One(SIGNAL') = passed + One(SIGNAL)
    BY <2>2 DEF ConditionInv, ConditionTyped
  <2> QED
    BY <2>2, <2>3, <2>4, <2>5, WaiterMoves
<1>2. ASSUME NEW w \in Waiters, C!WaitSignal(w) PROVE ConditionInv'
  <2>1. w \in C!Callers
    BY CallersFinite
  <2>2. SIGNAL /\ ~SIGNAL' /\ passed' = passed + 1 /\ UNCHANGED <<signals, waiters_count>>
    BY <1>2 DEF C!WaitSignal, C!AutoReset, C!Woken
  <2>3. /\ \A u \in C!Callers : u # w => conditionPC'[u] = conditionPC[u]
        /\ conditionPC' \in [C!Callers -> {"out", "locked", "counted", "waiting", "woken", "last",
                                  "relock", "signal", "broadcast"}]
        /\ conditionPC[w] = "waiting" /\ conditionPC'[w] = "woken"
    BY <1>2, <2>1 DEF ConditionInv, ConditionTyped, C!WaitSignal, C!Woken
  <2>4. waiters_count' = waiters_count
           + One(conditionPC'[w] \in {"counted", "waiting", "woken"})
           - One(conditionPC[w] \in {"counted", "waiting", "woken"})
    BY <2>2, <2>3 DEF ConditionInv, ConditionTyped, One
  <2>5. passed' \in Int /\ passed' + One(SIGNAL') = passed + One(SIGNAL)
    BY <2>2 DEF ConditionInv, ConditionTyped, One
  <2>6. SIGNAL' \in BOOLEAN
    BY <1>2, Zenon DEF C!WaitSignal, C!AutoReset
  <2> QED
    BY <2>2, <2>3, <2>4, <2>5, <2>6, WaiterMoves
<1>3. ASSUME NEW s \in Signallers,
             \/ C!Lock(s) \/ C!UnLock(s) \/ C!AskSignal(s) \/ C!SetSignal(s)
             \/ C!AskBroadcast(s) \/ C!SetBroadcast(s)
      PROVE  ConditionInv'
  <2>1. s \in C!Callers
    BY CallersFinite
  <2>2. /\ \A u \in C!Callers : u # s => conditionPC'[u] = conditionPC[u]
        /\ conditionPC' \in [C!Callers -> {"out", "locked", "counted", "waiting", "woken", "last",
                                  "relock", "signal", "broadcast"}]
        /\ UNCHANGED <<waiters_count, passed>>
    BY <1>3, <2>1
       DEF ConditionInv, ConditionTyped, C!Lock, C!UnLock, C!AskSignal, C!SetSignal,
           C!AskBroadcast, C!SetBroadcast, C!history
  <2>3. SIGNAL' = SIGNAL \/ SIGNAL' = TRUE
    BY <1>3 DEF C!Lock, C!UnLock, C!AskSignal, C!SetSignal, C!AskBroadcast, C!SetBroadcast,
                C!events
  <2>4. SIGNAL' \in BOOLEAN
    BY <2>3, Zenon DEF ConditionInv, ConditionTyped
  <2>5. signals' \in Int
    BY <1>3 DEF ConditionInv, ConditionTyped, C!Lock, C!UnLock, C!AskSignal, C!SetSignal,
                C!AskBroadcast, C!SetBroadcast, C!history
  <2>6. One(SIGNAL') + One(conditionPC'[s] = "signal") - signals'
          <= One(SIGNAL) + One(conditionPC[s] = "signal") - signals
    BY <1>3, <2>1
       DEF ConditionInv, ConditionTyped, C!Lock, C!UnLock, C!AskSignal, C!SetSignal,
           C!AskBroadcast, C!SetBroadcast, C!events, C!history, One
  <2> QED
    BY <2>2, <2>4, <2>5, <2>6, SignallerMoves
<1> QED
  BY <1>0, <1>1, <1>2, <1>3, CallersFinite DEF C!Next, C!WaitStep, C!SignalStep

(* ConditionWin32::Signal and Wait: no more waiters pass because of Signal *)
(* than it was called, and the counter Signal and Broadcast look at is the *)
(* number of threads that wait.                                            *)
THEOREM SignalsBoundPasses == C!Spec => []OnePassPerSignal
<1>1. ConditionInv => OnePassPerSignal
  <2> SUFFICES ASSUME ConditionInv PROVE OnePassPerSignal
    OBVIOUS
  <2>1. Cardinality(Signalling) \in Nat
    <3>1. Signalling \in SUBSET Signallers
      BY DEF Signalling
    <3> QED
      BY <3>1, CallersFinite, MemberCounts
  <2>2. passed + (IF SIGNAL THEN 1 ELSE 0) <= signals
    BY <2>1 DEF ConditionInv, ConditionTyped, SignalsBound, One
  <2> QED
    BY <2>2 DEF OnePassPerSignal, C!OnePassPerSignal, ConditionInv
<1> QED
  BY <1>1, ConditionInit, ConditionNext, PTL DEF C!Spec
-----------------------------------------------------------------------------
(* The named mutex. *)

CallersKeepTheRules == LockExisting = FALSE /\ CloseInUse = FALSE

(* Counters only have to stay numbers. *)
Typed ==
    /\ name \in Semaphores \cup {Nobody}
    /\ value \in [Semaphores -> Int]
    /\ opened \in [Objects -> Semaphores \cup {Nobody}]
    /\ owner \in [Objects -> Threads \cup {Nobody}]
    /\ nesting \in [Objects -> Int]
    /\ mutexPC \in [Threads -> {"out", "taken", "posting"}]
    /\ depth \in [Threads -> Nat]

(* All objects use the semaphore of the name, and who is busy has one. *)
OneSemaphore ==
    /\ \A m \in Objects : opened[m] \in {name, Nobody}
    /\ \A t \in Threads : t \in X!Busy => opened[Object[t]] # Nobody

(* The semaphore is 1 and nobody is busy, or it is 0 and one thread is. *)
Token ==
    name # Nobody =>
        \/ value[name] = 1 /\ \A t \in Threads : t \notin X!Busy
        \/ value[name] = 0 /\ \E t \in Threads : X!Busy = {t}

(* While an object takes the name away nobody has the mutex open. *)
UnlinkedAlone == unlinking # {} => \A m \in Objects : opened[m] = Nobody

(* A thread between the semaphore and the owner field holds nothing yet. *)
BetweenHoldsNothing == \A t \in Threads : mutexPC[t] # "out" => depth[t] = 0

MutexInv ==
    /\ Typed /\ OneSemaphore /\ Token /\ BetweenHoldsNothing /\ X!OwnerIsHolder
    /\ UnlinkedAlone

-----------------------------------------------------------------------------
LEMMA MutexAssumed ==
    /\ Nobody \notin Threads \cup Objects \cup Semaphores
    /\ Object \in [Threads -> Objects]
    /\ MaxDepth \in Nat \ {0}
  BY MCAssumption DEF X!SharedMutexAssumption

LEMMA MutexInit == X!Init => MutexInv
<1> SUFFICES ASSUME X!Init PROVE MutexInv
  OBVIOUS
<1> USE MutexAssumed DEF X!Init
<1>1. Typed
  BY DEF Typed
<1>2. OneSemaphore
  BY DEF OneSemaphore, X!Busy
<1>3. Token
  BY DEF Token
<1>4. BetweenHoldsNothing
  BY DEF BetweenHoldsNothing
<1>5. X!OwnerIsHolder
  BY DEF X!OwnerIsHolder
<1>6. UnlinkedAlone
  BY DEF UnlinkedAlone
<1> QED
  BY <1>1, <1>2, <1>3, <1>4, <1>5, <1>6 DEF MutexInv

(* Without an open object nobody is busy, so that a new semaphore starts    *)
(* with a free token.                                                       *)
LEMMA NobodyBusy ==
    ASSUME MutexInv, name = Nobody
    PROVE  /\ \A m \in Objects : opened[m] = Nobody
           /\ \A t \in Threads : mutexPC[t] = "out" /\ depth[t] = 0
BY MutexAssumed DEF MutexInv, OneSemaphore, X!Busy, Typed

LEMMA AfterCreateNew ==
    ASSUME MutexInv, CallersKeepTheRules, NEW t \in Threads, NEW locked \in BOOLEAN, X!CreateNew(t, locked)
    PROVE  MutexInv'
<1> DEFINE m == Object[t]
<1>1. PICK s \in Semaphores :
          /\ name = Nobody /\ name' = s
          /\ value' = [value EXCEPT ![s] = X!Initial(locked)]
          /\ opened' = [opened EXCEPT ![m] = s]
  BY DEF X!CreateNew, X!NewSemaphore
<1>2. m \in Objects /\ s # Nobody /\ t # Nobody
  BY MutexAssumed
<1>3. /\ \A o \in Objects : opened[o] = Nobody
      /\ \A u \in Threads : mutexPC[u] = "out" /\ depth[u] = 0
  BY <1>1, NobodyBusy
<1>4. Typed /\ X!OwnerIsHolder
  BY DEF MutexInv
<1>5. mutexPC' = mutexPC
  BY DEF X!CreateNew
<1>6. value'[s] = IF locked THEN 0 ELSE 1
  BY <1>1, <1>4 DEF Typed, X!Initial
<1>9. UnlinkedAlone'
  BY DEF X!CreateNew, X!Free, CallersKeepTheRules, UnlinkedAlone
<1>7. CASE locked
  <2>1. /\ owner' = [owner EXCEPT ![m] = t]
        /\ nesting' = [nesting EXCEPT ![m] = 1]
        /\ depth' = [depth EXCEPT ![t] = 1]
    BY <1>7 DEF X!CreateNew, X!OwnIf
  <2>2. Typed'
    BY <1>1, <1>2, <1>4, <1>5, <2>1 DEF Typed, X!Initial
  <2>3. X!Busy' = {t}
    BY <1>3, <1>4, <1>5, <2>1 DEF Typed, X!Busy
  <2>4. OneSemaphore'
    BY <1>1, <1>2, <1>3, <1>4, <2>3 DEF Typed, OneSemaphore
  <2>5. Token'
    BY <1>1, <1>6, <1>7, <2>3 DEF Token
  <2>6. BetweenHoldsNothing'
    BY <1>3, <1>5 DEF BetweenHoldsNothing
  <2>7. X!OwnerIsHolder'
    BY <1>2, <1>3, <1>4, <2>1, MutexAssumed DEF X!OwnerIsHolder, Typed
  <2> QED
    BY <1>9, <2>2, <2>4, <2>5, <2>6, <2>7 DEF MutexInv
<1>8. CASE ~locked
  <2>1. UNCHANGED <<owner, nesting, depth>>
    BY <1>8 DEF X!CreateNew, X!OwnIf
  <2>2. Typed'
    BY <1>1, <1>2, <1>4, <1>5, <2>1 DEF Typed, X!Initial
  <2>3. \A u \in Threads : u \notin X!Busy'
    BY <1>3, <1>5, <2>1 DEF X!Busy
  <2>4. OneSemaphore'
    BY <1>1, <1>2, <1>3, <1>4, <2>3 DEF Typed, OneSemaphore
  <2>5. Token'
    BY <1>1, <1>6, <1>8, <2>3 DEF Token
  <2>6. BetweenHoldsNothing' /\ X!OwnerIsHolder'
    BY <1>3, <1>4, <1>5, <2>1 DEF BetweenHoldsNothing, X!OwnerIsHolder
  <2> QED
    BY <1>9, <2>2, <2>4, <2>5, <2>6 DEF MutexInv
<1> QED
  BY <1>7, <1>8

LEMMA AfterOpenExisting ==
    ASSUME MutexInv, CallersKeepTheRules,
           NEW t \in Threads, NEW mode, NEW locked \in BOOLEAN, X!OpenExisting(t, mode, locked)
    PROVE  MutexInv'
<1>1. /\ name # Nobody
      /\ opened' = [opened EXCEPT ![Object[t]] = name]
      /\ UNCHANGED <<name, value, mutexPC, owner, nesting, depth>>
  BY DEF X!OpenExisting, X!OwnIf, CallersKeepTheRules
<1>2. Object[t] \in Objects
  BY MutexAssumed
<1>3. Typed'
  BY <1>1, <1>2 DEF MutexInv, Typed
<1>4. X!Busy' = X!Busy
  BY <1>1 DEF X!Busy
<1>5. OneSemaphore'
  BY <1>1, <1>2, <1>4, MutexAssumed DEF MutexInv, OneSemaphore, Typed
<1>6. Token'
  BY <1>1, <1>4 DEF MutexInv, Token
<1>7. BetweenHoldsNothing' /\ X!OwnerIsHolder'
  BY <1>1 DEF MutexInv, BetweenHoldsNothing, X!OwnerIsHolder
<1>8. UnlinkedAlone'
  BY DEF X!OpenExisting, X!Free, CallersKeepTheRules, UnlinkedAlone
<1> QED
  BY <1>3, <1>5, <1>6, <1>7, <1>8 DEF MutexInv

LEMMA AfterProbeMissing ==
    ASSUME MutexInv, CallersKeepTheRules,
           NEW t \in Threads, NEW locked \in BOOLEAN, X!ProbeMissing(t, locked)
    PROVE  MutexInv'
<1>1. PICK s \in Semaphores :
          /\ name = Nobody /\ name' = s
          /\ value' = [value EXCEPT ![s] = 1]
          /\ UNCHANGED <<opened, owner, nesting, mutexPC, depth>>
  BY DEF X!ProbeMissing, X!NewSemaphore, X!Initial, CallersKeepTheRules
<1>2. /\ \A o \in Objects : opened[o] = Nobody
      /\ \A u \in Threads : mutexPC[u] = "out" /\ depth[u] = 0
  BY <1>1, NobodyBusy
<1>3. Typed'
  BY <1>1 DEF MutexInv, Typed
<1>4. \A u \in Threads : u \notin X!Busy'
  BY <1>1, <1>2 DEF X!Busy
<1>5. OneSemaphore'
  BY <1>1, <1>2, <1>4 DEF OneSemaphore
<1>6. Token'
  BY <1>1, <1>4 DEF MutexInv, Typed, Token
<1>7. BetweenHoldsNothing' /\ X!OwnerIsHolder'
  BY <1>1 DEF MutexInv, BetweenHoldsNothing, X!OwnerIsHolder
<1>8. UnlinkedAlone'
  BY DEF X!ProbeMissing, X!Free, CallersKeepTheRules, UnlinkedAlone
<1> QED
  BY <1>3, <1>5, <1>6, <1>7, <1>8 DEF MutexInv

(* No thread of the object is busy, and if it will take the name away       *)
(* nobody else has the mutex open.                                          *)
LEMMA AfterDestroyCloses ==
    ASSUME MutexInv, CallersKeepTheRules, NEW m \in Objects, X!DestroyCloses(m)
    PROVE  MutexInv'
<1>1. /\ \A t \in Threads : Object[t] = m => mutexPC[t] = "out" /\ depth[t] = 0
      /\ m \in unlinks => \A n \in Objects \ {m} : opened[n] = Nobody
      /\ opened' = [opened EXCEPT ![m] = Nobody]
      /\ owner' = [owner EXCEPT ![m] = Nobody]
      /\ nesting' = [nesting EXCEPT ![m] = 0]
      /\ unlinking' = unlinking \cup (unlinks \cap {m})
      /\ value' = [s \in Semaphores |->
            IF s = name \/ \E n \in Objects : opened'[n] = s THEN value[s] ELSE -1]
      /\ UNCHANGED <<name, mutexPC, depth>>
  BY DEF X!DestroyCloses, X!Closes, X!KeepUsed, CallersKeepTheRules
<1>2. Typed'
  BY <1>1 DEF MutexInv, Typed
<1>3. X!Busy' = X!Busy
  BY <1>1 DEF X!Busy
<1>4. \A t \in Threads : t \in X!Busy => Object[t] # m
  BY <1>1 DEF X!Busy
<1>5. OneSemaphore'
  <2>1. \A o \in Objects : opened'[o] \in {name', Nobody}
    BY <1>1 DEF MutexInv, Typed, OneSemaphore
  <2>2. ASSUME NEW t \in Threads, t \in X!Busy' PROVE opened'[Object[t]] # Nobody
    BY <1>1, <1>3, <1>4, <2>2, MutexAssumed DEF MutexInv, Typed, OneSemaphore
  <2> QED
    BY <2>1, <2>2 DEF OneSemaphore
<1>6. Token'
  BY <1>1, <1>3 DEF MutexInv, Typed, Token
<1>7. BetweenHoldsNothing'
  BY <1>1 DEF MutexInv, BetweenHoldsNothing
<1>8. X!OwnerIsHolder'
  BY <1>1, MutexAssumed DEF MutexInv, Typed, X!OwnerIsHolder
<1>9. UnlinkedAlone'
  BY <1>1 DEF MutexInv, Typed, UnlinkedAlone
<1> QED
  BY <1>2, <1>5, <1>6, <1>7, <1>8, <1>9 DEF MutexInv

(* Nobody has the mutex open, so that nobody is busy when the name goes.    *)
LEMMA AfterDestroyUnlinks ==
    ASSUME MutexInv, CallersKeepTheRules, NEW m \in Objects, X!DestroyUnlinks(m)
    PROVE  MutexInv'
<1>1. /\ m \in unlinking
      /\ name' = Nobody
      /\ value' = [s \in Semaphores |->
            IF s = name' \/ \E n \in Objects : opened'[n] = s THEN value[s] ELSE -1]
      /\ UNCHANGED <<opened, owner, nesting, mutexPC, depth>>
  BY DEF X!DestroyUnlinks, X!KeepUsed
<1>2. \A n \in Objects : opened'[n] = Nobody
  BY <1>1 DEF MutexInv, UnlinkedAlone
<1>3. Typed'
  BY <1>1 DEF MutexInv, Typed
<1>4. X!Busy' = X!Busy /\ \A t \in Threads : t \notin X!Busy
  BY <1>1, <1>2, MutexAssumed DEF MutexInv, OneSemaphore, X!Busy
<1>5. OneSemaphore' /\ Token' /\ UnlinkedAlone'
  BY <1>1, <1>2, <1>4 DEF OneSemaphore, Token, UnlinkedAlone
<1>6. BetweenHoldsNothing' /\ X!OwnerIsHolder'
  BY <1>1 DEF MutexInv, BetweenHoldsNothing, X!OwnerIsHolder
<1> QED
  BY <1>3, <1>5, <1>6 DEF MutexInv
-----------------------------------------------------------------------------
(* A thread that is busy has the only token. *)
LEMMA BusyIsAlone ==
    ASSUME MutexInv, NEW t \in Threads, t \in X!Busy
    PROVE  /\ opened[Object[t]] = name /\ name \in Semaphores
           /\ value[name] = 0
           /\ \A u \in Threads : u # t => mutexPC[u] = "out" /\ depth[u] = 0
<1>1. Object[t] \in Objects
  BY MutexAssumed
<1>2. opened[Object[t]] = name /\ name # Nobody
  BY <1>1 DEF MutexInv, OneSemaphore
<1>3. value[name] = 0 /\ X!Busy = {t}
  BY <1>2 DEF MutexInv, Token
<1>4. name \in Semaphores
  BY <1>2 DEF MutexInv, Typed
<1>5. ASSUME NEW u \in Threads, u # t PROVE mutexPC[u] = "out" /\ depth[u] = 0
  BY <1>3, <1>5 DEF X!Busy, MutexInv, Typed
<1> QED
  BY <1>2, <1>3, <1>4, <1>5

LEMMA AfterNest ==
    ASSUME MutexInv, NEW t \in Threads, X!Nest(t)
    PROVE  MutexInv'
<1> DEFINE m == Object[t]
<1>1. /\ owner[m] = t /\ m \in Objects
      /\ nesting' = [nesting EXCEPT ![m] = nesting[m] + 1]
      /\ depth' = [depth EXCEPT ![t] = depth[t] + 1]
      /\ UNCHANGED <<name, value, opened, unlinks, owner, mutexPC>>
      /\ mutexPC[t] = "out"
  BY MutexAssumed DEF X!Nest
<1>2. Typed /\ X!OwnerIsHolder
  BY DEF MutexInv
<1>3. depth[t] > 0 /\ depth'[t] > 0 /\ depth'[t] = depth[t] + 1
  BY <1>1, <1>2 DEF X!OwnerIsHolder, Typed
<1>4. X!Busy' = X!Busy
  BY <1>1, <1>2, <1>3 DEF X!Busy, Typed
<1>5. Typed'
  BY <1>1, <1>2 DEF Typed
<1>6. OneSemaphore' /\ Token'
  BY <1>1, <1>4 DEF MutexInv, OneSemaphore, Token
<1>7. BetweenHoldsNothing'
  BY <1>1, <1>2 DEF MutexInv, BetweenHoldsNothing, Typed
<1>8. X!OwnerIsHolder'
  <2>1. ASSUME NEW u \in Threads
        PROVE  /\ depth'[u] > 0 <=> owner'[Object[u]] = u
               /\ depth'[u] > 0 => nesting'[Object[u]] = depth'[u]
    <3>1. CASE u = t
      BY <1>1, <1>2, <1>3, <3>1 DEF X!OwnerIsHolder, Typed
    <3>2. CASE u # t
      <4>1. depth[u] = 0 /\ depth'[u] = 0
        BY <1>1, <1>2, <1>3, <3>2, BusyIsAlone DEF X!Busy, Typed
      <4>2. owner'[Object[u]] # u
        BY <1>1, <1>2, <4>1 DEF X!OwnerIsHolder
      <4> QED
        BY <4>1, <4>2
    <3> QED
      BY <3>1, <3>2
  <2> QED
    BY <2>1 DEF X!OwnerIsHolder
<1>20. UnlinkedAlone'
  BY DEF MutexInv, UnlinkedAlone, X!Nest
<1> QED
  BY <1>5, <1>6, <1>7, <1>8, <1>20 DEF MutexInv

LEMMA AfterTake ==
    ASSUME MutexInv, NEW t \in Threads, X!Take(t)
    PROVE  MutexInv'
<1>1. Object[t] \in Objects /\ opened[Object[t]] # Nobody
  BY MutexAssumed DEF X!Take
<1>2. opened[Object[t]] = name /\ name \in Semaphores /\ name # Nobody
  BY <1>1 DEF MutexInv, OneSemaphore, Typed
<1>3. /\ mutexPC[t] = "out" /\ owner[Object[t]] # t /\ value[name] > 0
      /\ value' = [value EXCEPT ![name] = value[name] - 1]
      /\ mutexPC' = [mutexPC EXCEPT ![t] = "taken"]
      /\ UNCHANGED <<name, opened, owner, nesting, depth>>
  BY <1>2 DEF X!Take
<1>4. value[name] = 1 /\ \A u \in Threads : u \notin X!Busy
  BY <1>2, <1>3 DEF MutexInv, Token
<1>5. Typed'
  BY <1>2, <1>3 DEF MutexInv, Typed
<1>6. \A u \in Threads : mutexPC[u] = "out" /\ depth[u] = 0
  BY <1>4 DEF MutexInv, Typed, X!Busy
<1>7. X!Busy' = {t}
  BY <1>3, <1>6 DEF MutexInv, Typed, X!Busy
<1>8. OneSemaphore'
  BY <1>1, <1>3, <1>7 DEF MutexInv, OneSemaphore
<1>9. Token'
  BY <1>2, <1>3, <1>4, <1>7 DEF MutexInv, Typed, Token
<1>10. BetweenHoldsNothing' /\ X!OwnerIsHolder'
  BY <1>3, <1>6 DEF MutexInv, BetweenHoldsNothing, X!OwnerIsHolder
<1>20. UnlinkedAlone'
  BY DEF MutexInv, UnlinkedAlone, X!Take
<1> QED
  BY <1>5, <1>8, <1>9, <1>10, <1>20 DEF MutexInv

LEMMA AfterSetOwnerShip ==
    ASSUME MutexInv, NEW t \in Threads, X!SetOwnerShip(t)
    PROVE  MutexInv'
<1> DEFINE m == Object[t]
<1>1. /\ mutexPC[t] = "taken" /\ m \in Objects
      /\ mutexPC' = [mutexPC EXCEPT ![t] = "out"]
      /\ owner' = [owner EXCEPT ![m] = t]
      /\ nesting' = [nesting EXCEPT ![m] = 1]
      /\ depth' = [depth EXCEPT ![t] = 1]
      /\ UNCHANGED <<name, value, opened>>
  BY MutexAssumed DEF X!SetOwnerShip, X!OwnIf
<1>2. t \in X!Busy
  BY <1>1 DEF X!Busy
<1>3. \A u \in Threads : u # t => mutexPC[u] = "out" /\ depth[u] = 0
  BY <1>2, BusyIsAlone
<1>4. Typed'
  BY <1>1 DEF MutexInv, Typed
<1>5. X!Busy' = X!Busy
  BY <1>1, <1>2, <1>3 DEF MutexInv, Typed, X!Busy
<1>6. OneSemaphore' /\ Token'
  BY <1>1, <1>5 DEF MutexInv, OneSemaphore, Token
<1>7. BetweenHoldsNothing'
  BY <1>1, <1>3 DEF MutexInv, Typed, BetweenHoldsNothing
<1>8. X!OwnerIsHolder'
  BY <1>1, <1>3, MutexAssumed DEF MutexInv, Typed, X!OwnerIsHolder
<1>20. UnlinkedAlone'
  BY DEF MutexInv, UnlinkedAlone, X!SetOwnerShip
<1> QED
  BY <1>4, <1>6, <1>7, <1>8, <1>20 DEF MutexInv

LEMMA AfterUnLock ==
    ASSUME MutexInv, NEW t \in Threads, X!UnLock(t)
    PROVE  MutexInv'
<1> DEFINE m == Object[t]
<1>1. /\ mutexPC[t] = "out" /\ depth[t] > 0 /\ m \in Objects
      /\ Typed /\ X!OwnerIsHolder
  BY MutexAssumed DEF X!UnLock, MutexInv
<1>2. owner[m] = t /\ nesting[m] = depth[t] /\ nesting[m] > 0
  BY <1>1 DEF X!OwnerIsHolder
<1>3. /\ depth' = [depth EXCEPT ![t] = depth[t] - 1]
      /\ nesting' = [nesting EXCEPT ![m] = nesting[m] - 1]
      /\ owner' = IF nesting[m] = 1 THEN [owner EXCEPT ![m] = Nobody] ELSE owner
      /\ mutexPC' = IF nesting[m] = 1 THEN [mutexPC EXCEPT ![t] = "posting"] ELSE mutexPC
      /\ UNCHANGED <<name, value, opened>>
  BY <1>2 DEF X!UnLock
<1>4. t \in X!Busy
  BY <1>1 DEF X!Busy
<1>5. \A u \in Threads : u # t => mutexPC[u] = "out" /\ depth[u] = 0
  BY <1>4, BusyIsAlone
<1>6. Typed'
  BY <1>1, <1>3 DEF Typed
<1>7. t \in X!Busy'
  BY <1>1, <1>2, <1>3 DEF X!Busy, Typed
<1>8. \A u \in Threads : u # t => mutexPC'[u] = "out" /\ depth'[u] = 0
  BY <1>1, <1>3, <1>5 DEF Typed
<1>9. X!Busy' = {t} /\ X!Busy = {t}
  BY <1>4, <1>5, <1>7, <1>8 DEF X!Busy
<1>10. OneSemaphore' /\ Token'
  BY <1>3, <1>9 DEF MutexInv, OneSemaphore, Token
<1>11. BetweenHoldsNothing'
  BY <1>1, <1>2, <1>3, <1>8 DEF Typed, BetweenHoldsNothing
<1>12. X!OwnerIsHolder'
  <2>1. ASSUME NEW u \in Threads, u # t
        PROVE  depth'[u] = 0 /\ owner'[Object[u]] # u
    BY <1>1, <1>2, <1>3, <1>5, <1>8, <2>1, MutexAssumed DEF Typed, X!OwnerIsHolder
  <2>2. /\ depth'[t] > 0 <=> owner'[m] = t
        /\ depth'[t] > 0 => nesting'[m] = depth'[t]
    BY <1>1, <1>2, <1>3, MutexAssumed DEF Typed
  <2> QED
    BY <2>1, <2>2 DEF X!OwnerIsHolder
<1>20. UnlinkedAlone'
  BY DEF MutexInv, UnlinkedAlone, X!UnLock
<1> QED
  BY <1>6, <1>10, <1>11, <1>12, <1>20 DEF MutexInv

LEMMA AfterPost ==
    ASSUME MutexInv, NEW t \in Threads, X!Post(t)
    PROVE  MutexInv'
<1>1. mutexPC[t] = "posting" /\ t \in X!Busy
  BY DEF X!Post, X!Busy
<1>2. /\ opened[Object[t]] = name /\ name \in Semaphores /\ value[name] = 0
      /\ \A u \in Threads : u # t => mutexPC[u] = "out" /\ depth[u] = 0
  BY <1>1, BusyIsAlone
<1>3. /\ value' = [value EXCEPT ![name] = value[name] + 1]
      /\ mutexPC' = [mutexPC EXCEPT ![t] = "out"]
      /\ UNCHANGED <<name, opened, owner, nesting, depth>>
  BY <1>2 DEF X!Post
<1>4. depth[t] = 0
  BY <1>1 DEF MutexInv, BetweenHoldsNothing
<1>5. Typed'
  BY <1>2, <1>3 DEF MutexInv, Typed
<1>6. \A u \in Threads : mutexPC'[u] = "out" /\ depth'[u] = 0
  BY <1>2, <1>3, <1>4 DEF MutexInv, Typed
<1>7. \A u \in Threads : u \notin X!Busy'
  BY <1>6 DEF X!Busy
<1>8. OneSemaphore'
  BY <1>3, <1>7 DEF MutexInv, OneSemaphore
<1>9. Token'
  BY <1>2, <1>3, <1>7 DEF MutexInv, Typed, Token
<1>10. BetweenHoldsNothing' /\ X!OwnerIsHolder'
  BY <1>3, <1>6 DEF MutexInv, BetweenHoldsNothing, X!OwnerIsHolder
<1>20. UnlinkedAlone'
  BY DEF MutexInv, UnlinkedAlone, X!Post
<1> QED
  BY <1>5, <1>8, <1>9, <1>10, <1>20 DEF MutexInv
-----------------------------------------------------------------------------
LEMMA MutexNext == CallersKeepTheRules /\ MutexInv /\ [X!Next]_(X!vars) => MutexInv'
<1> SUFFICES ASSUME CallersKeepTheRules, MutexInv, [X!Next]_(X!vars) PROVE MutexInv'
  OBVIOUS
<1>1. ASSUME NEW t \in Threads, NEW locked \in BOOLEAN, X!CreateNew(t, locked) PROVE MutexInv'
  BY <1>1, AfterCreateNew
<1>2. ASSUME NEW t \in Threads, NEW locked \in BOOLEAN, X!ProbeMissing(t, locked) PROVE MutexInv'
  BY <1>2, AfterProbeMissing
<1>3. ASSUME NEW t \in Threads, NEW locked \in BOOLEAN, NEW mode \in {"ALWAYS", "WHEN_EXISTS"},
             X!OpenExisting(t, mode, locked)
      PROVE  MutexInv'
  BY <1>3, AfterOpenExisting
<1>4. ASSUME NEW m \in Objects, X!DestroyCloses(m) PROVE MutexInv'
  BY <1>4, AfterDestroyCloses
<1>11. ASSUME NEW m \in Objects, X!DestroyUnlinks(m) PROVE MutexInv'
  BY <1>11, AfterDestroyUnlinks
<1>5. ASSUME NEW t \in Threads, X!Nest(t) PROVE MutexInv'
  BY <1>5, AfterNest
<1>6. ASSUME NEW t \in Threads, X!Take(t) PROVE MutexInv'
  BY <1>6, AfterTake
<1>7. ASSUME NEW t \in Threads, X!SetOwnerShip(t) PROVE MutexInv'
  BY <1>7, AfterSetOwnerShip
<1>8. ASSUME NEW t \in Threads, X!UnLock(t) PROVE MutexInv'
  BY <1>8, AfterUnLock
<1>9. ASSUME NEW t \in Threads, X!Post(t) PROVE MutexInv'
  BY <1>9, AfterPost
<1>10. CASE UNCHANGED X!vars
  BY <1>10 DEF X!vars, MutexInv, Typed, OneSemaphore, Token, X!Busy, BetweenHoldsNothing,
               X!OwnerIsHolder, UnlinkedAlone
<1> QED
  BY <1>1, <1>2, <1>3, <1>4, <1>5, <1>6, <1>7, <1>8, <1>9, <1>10, <1>11 DEF X!Next

(* Of all threads of all processes at most one has locked the named mutex, *)
(* whatever objects are made and destroyed meanwhile by callers that keep  *)
(* the rules (MutexSharedPthread::Lock, UnLock over SemaphorePthread).     *)
THEOREM OneHolder == CallersKeepTheRules => (X!Spec => []MutualExclusion)
<1> SUFFICES ASSUME CallersKeepTheRules PROVE X!Spec => []MutualExclusion
  OBVIOUS
<1>1. MutexInv /\ [X!Next]_(X!vars) => MutexInv'
  BY MutexNext
<1>2. MutexInv => MutualExclusion
  <2> SUFFICES ASSUME MutexInv,
                      NEW t \in Threads, NEW u \in Threads, depth[t] > 0, depth[u] > 0
               PROVE  t = u
    BY DEF MutualExclusion, X!MutualExclusion
  <2>1. t \in X!Busy
    BY DEF X!Busy
  <2> QED
    BY <2>1, BusyIsAlone
<1> QED
  BY <1>1, <1>2, MutexInit, PTL DEF X!Spec

(* The fields m_owner_process and m_nesting_level, which no lock guards,   *)
(* say at every moment who holds the mutex (UnGetIfOwner, SetOwnerShip).   *)
THEOREM OwnerFieldIsExact == CallersKeepTheRules => (X!Spec => []X!OwnerIsHolder)
<1> SUFFICES ASSUME CallersKeepTheRules PROVE X!Spec => []X!OwnerIsHolder
  OBVIOUS
<1>1. MutexInv /\ [X!Next]_(X!vars) => MutexInv'
  BY MutexNext
<1>2. MutexInv => X!OwnerIsHolder
  BY DEF MutexInv
<1> QED
  BY <1>1, <1>2, MutexInit, PTL DEF X!Spec

(* The token of the semaphore is neither lost nor given twice: whoever is  *)
(* between sem_wait and sem_post has it, and there is one.                 *)
THEOREM TokenIsKept == CallersKeepTheRules => (X!Spec => []X!OneToken)
<1> SUFFICES ASSUME CallersKeepTheRules PROVE X!Spec => []X!OneToken
  OBVIOUS
<1>1. MutexInv /\ [X!Next]_(X!vars) => MutexInv'
  BY MutexNext
<1>2. MutexInv => X!OneToken
  <2> SUFFICES ASSUME MutexInv, name # Nobody
               PROVE  value[name] + Cardinality(X!Busy) = 1
    BY DEF X!OneToken, X!Cardinality, Cardinality
  <2>1. CASE value[name] = 1 /\ \A t \in Threads : t \notin X!Busy
    <3>1. X!Busy = {}
      BY <2>1 DEF X!Busy
    <3> QED
      BY <2>1, <3>1, FS_EmptySet
  <2>2. CASE value[name] = 0 /\ \E t \in Threads : X!Busy = {t}
    <3>1. PICK t \in Threads : X!Busy = {t}
      BY <2>2
    <3>2. Cardinality({t}) = 1
      BY FS_Singleton, Zenon
    <3> QED
      BY <2>2, <3>1, <3>2
  <2> QED
    BY <2>1, <2>2 DEF MutexInv, Token
<1> QED
  BY <1>1, <1>2, MutexInit, PTL DEF X!Spec
-----------------------------------------------------------------------------
(* Shared and weak pointers, under the rule of their callers: who locks a  *)
(* weak pointer knows of a shared one that stays.                          *)

LocksAreGuarded == UnguardedLocks = FALSE

(* Who refers to an object, and who is giving up a reference.              *)
Strongs(o) == {t \in Holders : strong[t] = o}
Giving(o) == {t \in Holders : ptrPC[t] = "release" /\ old[t] = o}
Weaks(o) == {t \in Holders : weak[t] = o}
Dropping(o) == {t \in Holders : ptrPC[t] \in {"delete", "dropWeak"} /\ old[t] = o}

(* The counters are exact: m_count is the number of strong references,     *)
(* m_weak_count that of weak ones, of which all strong ones have one.      *)
Counted ==
    \A o \in Pointees :
        /\ count[o] = Cardinality(Strongs(o)) + Cardinality(Giving(o))
        /\ weak_count[o] = Cardinality(Weaks(o)) + Cardinality(Dropping(o)) + One(count[o] > 0)

(* Who is in the middle of an operation knows of which object.             *)
OldKnown ==
    \A t \in Holders :
        IF ptrPC[t] \in {"idle", "lock"} THEN old[t] = Nil ELSE old[t] \in Pointees

(* The pointer that keeps the object of a Lock in progress.                *)
Kept ==
    \A t \in Holders :
        IF ptrPC[t] = "lock"
        THEN /\ strong[t] = Nil /\ weak[t] # Nil
             /\ keeper[t] # t /\ strong[keeper[t]] = weak[t]
        ELSE keeper[t] = t

(* Nobody knows an object that was not made yet.                           *)
Unknown ==
    \A o \in Pointees : object[o] = "none" =>
        \A t \in Holders : o \notin {strong[t], weak[t], old[t]}

(* An object with a count lives; one thread deletes it when the count is 0 *)
(* for good.                                                               *)
ObjectKept ==
    /\ \A o \in Pointees : count[o] > 0 => object[o] = "alive"
    /\ \A t \in Holders : ptrPC[t] = "delete" =>
          /\ count[old[t]] = 0
          /\ \A u \in Holders : ptrPC[u] = "delete" /\ old[u] = old[t] => u = t

(* The same of the counter and the weak count.                             *)
CounterKept ==
    /\ \A o \in Pointees : weak_count[o] > 0 => counter[o] = "alive"
    /\ \A t \in Holders : ptrPC[t] = "destroy" =>
          /\ weak_count[old[t]] = 0 /\ counter[old[t]] = "alive"
          /\ \A u \in Holders : ptrPC[u] = "destroy" /\ old[u] = old[t] => u = t

PtrInv ==
    P!TypeOK /\ Counted /\ OldKnown /\ Kept /\ Unknown /\ ObjectKept /\ CounterKept
-----------------------------------------------------------------------------
LEMMA HoldersFinite == IsFiniteSet(Holders) /\ Nil \notin Pointees
BY MCAssumption, Zenon DEF P!SharedPtrAssumption, P!IsFiniteSet, IsFiniteSet

(* A reference counts.                                                     *)
LEMMA ReferenceCounts ==
    ASSUME P!TypeOK, Counted, OldKnown, NEW t \in Holders
    PROVE  /\ strong[t] # Nil => count[strong[t]] >= 1
           /\ weak[t] # Nil => weak_count[weak[t]] >= 1
           /\ ptrPC[t] = "release" => count[old[t]] >= 1
           /\ ptrPC[t] \in {"delete", "dropWeak"} => weak_count[old[t]] >= 1
           /\ \A o \in Pointees : count[o] > 0 => weak_count[o] >= 1
<1>1. ASSUME NEW o \in Pointees
      PROVE  /\ Cardinality(Strongs(o)) \in Nat /\ Cardinality(Giving(o)) \in Nat
             /\ Cardinality(Weaks(o)) \in Nat /\ Cardinality(Dropping(o)) \in Nat
             /\ t \in Strongs(o) => Cardinality(Strongs(o)) >= 1
             /\ t \in Giving(o) => Cardinality(Giving(o)) >= 1
             /\ t \in Weaks(o) => Cardinality(Weaks(o)) >= 1
             /\ t \in Dropping(o) => Cardinality(Dropping(o)) >= 1
  <2>1. /\ Strongs(o) \in SUBSET Holders /\ Giving(o) \in SUBSET Holders
        /\ Weaks(o) \in SUBSET Holders /\ Dropping(o) \in SUBSET Holders
    BY DEF Strongs, Giving, Weaks, Dropping
  <2> QED
    BY <2>1, HoldersFinite, MemberCounts
<1>2. ASSUME NEW o \in Pointees
      PROVE  /\ count[o] = Cardinality(Strongs(o)) + Cardinality(Giving(o))
             /\ weak_count[o]
                  = Cardinality(Weaks(o)) + Cardinality(Dropping(o)) + One(count[o] > 0)
             /\ count[o] > 0 => One(count[o] > 0) = 1
             /\ One(count[o] > 0) \in 0 .. 1
  BY DEF Counted, One
<1>3. /\ strong[t] \in Pointees \cup {Nil} /\ weak[t] \in Pointees \cup {Nil}
      /\ ptrPC[t] \in {"release", "delete", "dropWeak"} => old[t] \in Pointees
  BY DEF P!TypeOK, OldKnown
<1>4. /\ \A o \in Pointees : strong[t] = o => t \in Strongs(o)
      /\ \A o \in Pointees : weak[t] = o => t \in Weaks(o)
      /\ \A o \in Pointees : ptrPC[t] = "release" /\ old[t] = o => t \in Giving(o)
      /\ \A o \in Pointees :
            ptrPC[t] \in {"delete", "dropWeak"} /\ old[t] = o => t \in Dropping(o)
  BY DEF Strongs, Giving, Weaks, Dropping
<1>5. strong[t] # Nil => count[strong[t]] >= 1
  BY <1>1, <1>2, <1>3, <1>4
<1>6. weak[t] # Nil => weak_count[weak[t]] >= 1
  BY <1>1, <1>2, <1>3, <1>4
<1>7. ptrPC[t] = "release" => count[old[t]] >= 1
  BY <1>1, <1>2, <1>3, <1>4
<1>8. ptrPC[t] \in {"delete", "dropWeak"} => weak_count[old[t]] >= 1
  BY <1>1, <1>2, <1>3, <1>4
<1>9. \A o \in Pointees : count[o] > 0 => weak_count[o] >= 1
  BY <1>1, <1>2
<1> QED
  BY <1>5, <1>6, <1>7, <1>8, <1>9

(* What the steps do not do to the other threads.                          *)
OthersStay(t) ==
    \A u \in Holders \ {t} :
        /\ strong'[u] = strong[u] /\ weak'[u] = weak[u]
        /\ ptrPC'[u] = ptrPC[u] /\ old'[u] = old[u] /\ keeper'[u] = keeper[u]

(* The counters stay exact if they change as much as the references of the *)
(* thread that moves.                                                      *)
LEMMA CountedMoves ==
    ASSUME P!TypeOK, Counted, NEW t \in Holders, OthersStay(t),
           \A o \in Pointees :
              /\ count'[o] = count[o]
                   + One(strong'[t] = o) - One(strong[t] = o)
                   + One(ptrPC'[t] = "release" /\ old'[t] = o)
                   - One(ptrPC[t] = "release" /\ old[t] = o)
              /\ weak_count'[o] = weak_count[o]
                   + One(weak'[t] = o) - One(weak[t] = o)
                   + One(ptrPC'[t] \in {"delete", "dropWeak"} /\ old'[t] = o)
                   - One(ptrPC[t] \in {"delete", "dropWeak"} /\ old[t] = o)
                   + One(count'[o] > 0) - One(count[o] > 0)
    PROVE  Counted'
<1> SUFFICES ASSUME NEW o \in Pointees
             PROVE  /\ count'[o] = Cardinality(Strongs(o)') + Cardinality(Giving(o)')
                    /\ weak_count'[o]
                         = Cardinality(Weaks(o)') + Cardinality(Dropping(o)') + One(count'[o] > 0)
  BY DEF Counted, Strongs, Giving, Weaks, Dropping
<1>1. /\ Strongs(o) \in SUBSET Holders /\ Giving(o) \in SUBSET Holders
      /\ Weaks(o) \in SUBSET Holders /\ Dropping(o) \in SUBSET Holders
      /\ Strongs(o)' \in SUBSET Holders /\ Giving(o)' \in SUBSET Holders
      /\ Weaks(o)' \in SUBSET Holders /\ Dropping(o)' \in SUBSET Holders
  BY DEF Strongs, Giving, Weaks, Dropping
<1>2. \A u \in Holders : u # t =>
         /\ u \in Strongs(o) <=> u \in Strongs(o)'
         /\ u \in Giving(o) <=> u \in Giving(o)'
         /\ u \in Weaks(o) <=> u \in Weaks(o)'
         /\ u \in Dropping(o) <=> u \in Dropping(o)'
  BY DEF OthersStay, Strongs, Giving, Weaks, Dropping
<1>3. /\ t \in Strongs(o) <=> strong[t] = o
      /\ t \in Strongs(o)' <=> strong'[t] = o
      /\ t \in Giving(o) <=> (ptrPC[t] = "release" /\ old[t] = o)
      /\ t \in Giving(o)' <=> (ptrPC'[t] = "release" /\ old'[t] = o)
      /\ t \in Weaks(o) <=> weak[t] = o
      /\ t \in Weaks(o)' <=> weak'[t] = o
      /\ t \in Dropping(o) <=> (ptrPC[t] \in {"delete", "dropWeak"} /\ old[t] = o)
      /\ t \in Dropping(o)' <=> (ptrPC'[t] \in {"delete", "dropWeak"} /\ old'[t] = o)
  BY DEF Strongs, Giving, Weaks, Dropping
<1> DEFINE Moved(A, B) == /\ Cardinality(A) \in Nat /\ Cardinality(B) \in Nat
                          /\ Cardinality(B) = Cardinality(A) + One(t \in B) - One(t \in A)
<1>4. /\ Moved(Strongs(o), Strongs(o)') /\ Moved(Giving(o), Giving(o)')
      /\ Moved(Weaks(o), Weaks(o)') /\ Moved(Dropping(o), Dropping(o)')
  <2> HIDE DEF Moved
  <2>1. ASSUME NEW A \in SUBSET Holders, NEW B \in SUBSET Holders,
               \A u \in Holders : u # t => (u \in A <=> u \in B)
        PROVE  Moved(A, B)
    BY <2>1, HoldersFinite, OneMemberChanges DEF Moved
  <2>2. Moved(Strongs(o), Strongs(o)')
    BY <1>1, <1>2, <2>1
  <2>3. Moved(Giving(o), Giving(o)')
    BY <1>1, <1>2, <2>1
  <2>4. Moved(Weaks(o), Weaks(o)')
    BY <1>1, <1>2, <2>1
  <2>5. Moved(Dropping(o), Dropping(o)')
    BY <1>1, <1>2, <2>1
  <2> QED
    BY <2>2, <2>3, <2>4, <2>5
<1>5. count'[o] = Cardinality(Strongs(o)') + Cardinality(Giving(o)')
  <2>1. count[o] = Cardinality(Strongs(o)) + Cardinality(Giving(o))
    BY DEF Counted
  <2> HIDE DEF Strongs, Giving
  <2> QED
    BY <1>3, <1>4, <2>1 DEF One
<1>6. weak_count'[o] = Cardinality(Weaks(o)') + Cardinality(Dropping(o)') + One(count'[o] > 0)
  <2>1. weak_count[o] = Cardinality(Weaks(o)) + Cardinality(Dropping(o)) + One(count[o] > 0)
    BY DEF Counted
  <2>2. One(count'[o] > 0) \in Int /\ One(count[o] > 0) \in Int
    BY DEF One
  <2> QED
    BY <1>3, <1>4, <2>1, <2>2 DEF One
<1> QED
  BY <1>5, <1>6

(* The same of all references at once.                                     *)
LEMMA PtrReferences ==
    ASSUME PtrInv
    PROVE  /\ \A t \in Holders :
                 /\ strong[t] \in Pointees =>
                       count[strong[t]] >= 1 /\ object[strong[t]] = "alive"
                 /\ weak[t] \in Pointees => weak_count[weak[t]] >= 1
                 /\ ptrPC[t] = "release" => old[t] \in Pointees /\ count[old[t]] >= 1
                 /\ ptrPC[t] \in {"delete", "dropWeak"} =>
                       old[t] \in Pointees /\ weak_count[old[t]] >= 1
                 /\ ptrPC[t] = "destroy" => old[t] \in Pointees
           /\ \A o \in Pointees : count[o] \in Nat /\ weak_count[o] \in Nat
           /\ \A o \in Pointees : count[o] > 0 => weak_count[o] >= 1
           /\ Nil \notin Pointees
<1>1. ASSUME NEW t \in Holders
      PROVE  /\ strong[t] \in Pointees =>
                   count[strong[t]] >= 1 /\ object[strong[t]] = "alive"
             /\ weak[t] \in Pointees => weak_count[weak[t]] >= 1
             /\ ptrPC[t] = "release" => old[t] \in Pointees /\ count[old[t]] >= 1
             /\ ptrPC[t] \in {"delete", "dropWeak"} =>
                   old[t] \in Pointees /\ weak_count[old[t]] >= 1
             /\ ptrPC[t] = "destroy" => old[t] \in Pointees
             /\ \A o \in Pointees : count[o] > 0 => weak_count[o] >= 1
  <2>1. P!TypeOK /\ Counted /\ OldKnown
    BY DEF PtrInv
  <2>2. /\ strong[t] # Nil => count[strong[t]] >= 1
        /\ weak[t] # Nil => weak_count[weak[t]] >= 1
        /\ ptrPC[t] = "release" => count[old[t]] >= 1
        /\ ptrPC[t] \in {"delete", "dropWeak"} => weak_count[old[t]] >= 1
        /\ \A o \in Pointees : count[o] > 0 => weak_count[o] >= 1
    BY <2>1, ReferenceCounts, Zenon
  <2>3. \A o \in Pointees : count[o] \in Nat /\ (count[o] > 0 => object[o] = "alive")
    BY DEF PtrInv, ObjectKept, P!TypeOK
  <2> QED
    BY <2>1, <2>2, <2>3, HoldersFinite DEF OldKnown
<1>2. \A o \in Pointees : count[o] \in Nat /\ weak_count[o] \in Nat
  BY DEF PtrInv, P!TypeOK
<1>3. ASSUME NEW o \in Pointees, count[o] > 0
      PROVE  weak_count[o] >= 1
  <2>1. PICK t \in Holders : strong[t] = o \/ (ptrPC[t] = "release" /\ old[t] = o)
    <3>1. SUFFICES ASSUME Strongs(o) = {}, Giving(o) = {} PROVE FALSE
      BY DEF Strongs, Giving
    <3>2. count[o] = 0
      <4>1. count[o] = Cardinality(Strongs(o)) + Cardinality(Giving(o))
        BY DEF PtrInv, Counted
      <4>2. Cardinality(Strongs(o)) = 0 /\ Cardinality(Giving(o)) = 0
        BY <3>1, FS_EmptySet, Zenon
      <4> QED
        BY <4>1, <4>2
    <3> QED
      BY <1>3, <3>2
  <2> QED
    BY <1>1, <1>3
<1> QED
  BY <1>1, <1>2, <1>3, HoldersFinite

LEMMA NewIsUnreferenced ==
    ASSUME PtrInv, NEW x \in Pointees, object[x] = "none"
    PROVE  count[x] = 0 /\ weak_count[x] = 0
<1>1. \A t \in Holders : x \notin {strong[t], weak[t], old[t]}
  BY DEF PtrInv, Unknown
<1>2. Strongs(x) = {} /\ Giving(x) = {} /\ Weaks(x) = {} /\ Dropping(x) = {}
  BY <1>1 DEF Strongs, Giving, Weaks, Dropping
<1>3. Cardinality({}) = 0
  BY FS_EmptySet
<1>4. count[x] = Cardinality(Strongs(x)) + Cardinality(Giving(x))
  BY DEF PtrInv, Counted
<1>5. weak_count[x] = Cardinality(Weaks(x)) + Cardinality(Dropping(x)) + One(count[x] > 0)
  BY DEF PtrInv, Counted
<1>6. count[x] = 0
  BY <1>2, <1>3, <1>4
<1> QED
  BY <1>2, <1>3, <1>5, <1>6 DEF One
-----------------------------------------------------------------------------
(* The steps, one lemma each. *)

LEMMA PtrRelease ==
    ASSUME PtrInv, NEW t \in Holders, P!Release(t)
    PROVE  PtrInv'
<1> DEFINE x == old[t]
           last == count[x] = 1
<1> USE DEF PtrInv
<1>1. x \in Pointees /\ ptrPC[t] = "release" /\ count[x] >= 1 /\ weak_count[x] >= 1 /\ x # Nil
  BY PtrReferences DEF P!Release
<1> HIDE DEF x
<1>2. /\ \A u \in Holders :
            /\ ptrPC'[u] = IF u # t THEN ptrPC[u] ELSE IF last THEN "delete" ELSE "idle"
            /\ old'[u] = IF u = t /\ ~last THEN Nil ELSE old[u]
      /\ \A o \in Pointees : count'[o] = IF o = x THEN count[o] - 1 ELSE count[o]
      /\ UNCHANGED <<strong, weak, weak_count, object, counter, keeper>>
  BY <1>1 DEF P!TypeOK, P!Release, P!Continue, P!Goto, x
<1>3. P!TypeOK'
  <2>1. count' \in [Pointees -> Nat]
    BY <1>1, <1>2 DEF P!TypeOK, P!Release, x
  <2>2. /\ ptrPC' \in [Holders -> {"idle", "release", "delete", "dropWeak", "destroy", "lock"}]
        /\ old' \in [Holders -> Pointees \cup {Nil}]
    BY DEF P!TypeOK, P!Release, P!Continue, P!Goto
  <2> QED
    BY <1>2, <2>1, <2>2 DEF P!TypeOK
<1>4. Counted'
  <2>1. OthersStay(t)
    BY <1>2 DEF OthersStay
  <2>2. ASSUME NEW o \in Pointees
        PROVE  /\ count'[o] = count[o]
                    + One(strong'[t] = o) - One(strong[t] = o)
                    + One(ptrPC'[t] = "release" /\ old'[t] = o)
                    - One(ptrPC[t] = "release" /\ old[t] = o)
               /\ weak_count'[o] = weak_count[o]
                    + One(weak'[t] = o) - One(weak[t] = o)
                    + One(ptrPC'[t] \in {"delete", "dropWeak"} /\ old'[t] = o)
                    - One(ptrPC[t] \in {"delete", "dropWeak"} /\ old[t] = o)
                    + One(count'[o] > 0) - One(count[o] > 0)
    BY <1>1, <1>2 DEF P!TypeOK, One, x
  <2> QED
    BY <2>1, <2>2, CountedMoves
<1>5. OldKnown'
  BY <1>1, <1>2 DEF OldKnown, x
<1>6. Kept'
  BY <1>1, <1>2 DEF Kept
<1>7. Unknown'
  BY <1>1, <1>2, HoldersFinite DEF Unknown
<1>8. ObjectKept'
  BY <1>1, <1>2 DEF ObjectKept, OldKnown, P!TypeOK, x
<1>9. CounterKept'
  BY <1>1, <1>2 DEF CounterKept, OldKnown, P!TypeOK, x
<1> QED
  BY <1>3, <1>4, <1>5, <1>6, <1>7, <1>8, <1>9

LEMMA PtrDelete ==
    ASSUME PtrInv, NEW t \in Holders, P!DeletePtr(t)
    PROVE  PtrInv'
<1>1. /\ ptrPC[t] = "delete" /\ old[t] \in Pointees /\ old[t] # Nil
      /\ count[old[t]] = 0 /\ weak_count[old[t]] >= 1
  BY PtrReferences DEF PtrInv, P!DeletePtr, P!Continue, P!Goto, ObjectKept
<1>2. /\ \A u \in Holders : ptrPC'[u] = IF u = t THEN "dropWeak" ELSE ptrPC[u]
      /\ \A o \in Pointees : object'[o] = IF o = old[t] THEN "deleted" ELSE object[o]
      /\ UNCHANGED <<strong, weak, count, weak_count, counter, keeper, old>>
  BY <1>1 DEF PtrInv, P!TypeOK, P!DeletePtr, P!Continue, P!Goto, ObjectKept
<1>3. P!TypeOK'
  BY <1>1 DEF PtrInv, P!TypeOK, P!DeletePtr, P!Continue, P!Goto, ObjectKept
<1>4. Counted'
  <2>1. P!TypeOK /\ Counted /\ OthersStay(t)
    BY <1>2 DEF PtrInv, OthersStay
  <2>2. ASSUME NEW o \in Pointees
        PROVE  /\ count'[o] = count[o]
                    + One(strong'[t] = o) - One(strong[t] = o)
                    + One(ptrPC'[t] = "release" /\ old'[t] = o)
                    - One(ptrPC[t] = "release" /\ old[t] = o)
               /\ weak_count'[o] = weak_count[o]
                    + One(weak'[t] = o) - One(weak[t] = o)
                    + One(ptrPC'[t] \in {"delete", "dropWeak"} /\ old'[t] = o)
                    - One(ptrPC[t] \in {"delete", "dropWeak"} /\ old[t] = o)
                    + One(count'[o] > 0) - One(count[o] > 0)
    BY <1>1, <1>2, HoldersFinite DEF PtrInv, P!TypeOK, One
  <2> QED
    BY <2>1, <2>2, CountedMoves
<1>5. OldKnown'
  BY <1>1, <1>2 DEF PtrInv, OldKnown
<1>6. Kept'
  BY <1>1, <1>2, HoldersFinite DEF PtrInv, Kept, P!TypeOK
<1>7. Unknown'
  BY <1>1, <1>2, HoldersFinite DEF PtrInv, Unknown
<1>8. ObjectKept'
  BY <1>1, <1>2 DEF PtrInv, ObjectKept, OldKnown, P!TypeOK
<1>9. CounterKept'
  BY <1>1, <1>2 DEF PtrInv, CounterKept, OldKnown, P!TypeOK
<1> QED
  BY <1>3, <1>4, <1>5, <1>6, <1>7, <1>8, <1>9 DEF PtrInv

LEMMA PtrReleaseWeak ==
    ASSUME PtrInv, NEW t \in Holders, P!ReleaseWeak(t)
    PROVE  PtrInv'
<1>1. /\ ptrPC[t] = "dropWeak" /\ old[t] \in Pointees /\ old[t] # Nil
      /\ weak_count[old[t]] >= 1
  BY PtrReferences DEF PtrInv, P!ReleaseWeak, P!Continue, P!Goto
<1>2. /\ \A u \in Holders : ptrPC'[u] = IF u # t THEN ptrPC[u]
                  ELSE IF weak_count[old[t]] = 1 THEN "destroy" ELSE "idle"
      /\ \A u \in Holders : old'[u] = IF u = t /\ weak_count[old[t]] # 1 THEN Nil ELSE old[u]
      /\ \A o \in Pointees : weak_count'[o] = IF o = old[t] THEN weak_count[o] - 1 ELSE weak_count[o]
      /\ UNCHANGED <<strong, weak, count, object, counter, keeper>>
  BY <1>1 DEF PtrInv, P!TypeOK, P!ReleaseWeak, P!Continue, P!Goto
<1>3. P!TypeOK'
  BY <1>1 DEF PtrInv, P!TypeOK, P!ReleaseWeak, P!Continue, P!Goto
<1>4. Counted'
  <2>1. P!TypeOK /\ Counted /\ OthersStay(t)
    BY <1>2 DEF PtrInv, OthersStay
  <2>2. ASSUME NEW o \in Pointees
        PROVE  /\ count'[o] = count[o]
                    + One(strong'[t] = o) - One(strong[t] = o)
                    + One(ptrPC'[t] = "release" /\ old'[t] = o)
                    - One(ptrPC[t] = "release" /\ old[t] = o)
               /\ weak_count'[o] = weak_count[o]
                    + One(weak'[t] = o) - One(weak[t] = o)
                    + One(ptrPC'[t] \in {"delete", "dropWeak"} /\ old'[t] = o)
                    - One(ptrPC[t] \in {"delete", "dropWeak"} /\ old[t] = o)
                    + One(count'[o] > 0) - One(count[o] > 0)
    BY <1>1, <1>2, HoldersFinite DEF PtrInv, P!TypeOK, One
  <2> QED
    BY <2>1, <2>2, CountedMoves
<1>5. OldKnown'
  BY <1>1, <1>2 DEF PtrInv, OldKnown
<1>6. Kept'
  BY <1>1, <1>2, HoldersFinite DEF PtrInv, Kept, P!TypeOK
<1>7. Unknown'
  BY <1>1, <1>2, HoldersFinite DEF PtrInv, Unknown
<1>8. ObjectKept'
  BY <1>1, <1>2 DEF PtrInv, ObjectKept, OldKnown, P!TypeOK
<1>9. CounterKept'
  BY <1>1, <1>2 DEF PtrInv, CounterKept, OldKnown, P!TypeOK
<1> QED
  BY <1>3, <1>4, <1>5, <1>6, <1>7, <1>8, <1>9 DEF PtrInv

LEMMA PtrDestroy ==
    ASSUME PtrInv, NEW t \in Holders, P!Destroy(t)
    PROVE  PtrInv'
<1>1. /\ ptrPC[t] = "destroy" /\ old[t] \in Pointees /\ old[t] # Nil
      /\ weak_count[old[t]] = 0 /\ count[old[t]] = 0
  BY PtrReferences DEF PtrInv, P!Destroy, P!Continue, P!Goto, CounterKept
<1>2. /\ \A u \in Holders : ptrPC'[u] = IF u = t THEN "idle" ELSE ptrPC[u]
      /\ \A u \in Holders : old'[u] = IF u = t THEN Nil ELSE old[u]
      /\ \A o \in Pointees : counter'[o] = IF o = old[t] THEN "destroyed" ELSE counter[o]
      /\ UNCHANGED <<strong, weak, count, weak_count, object, keeper>>
  BY <1>1 DEF PtrInv, P!TypeOK, P!Destroy, P!Continue, P!Goto, CounterKept
<1>3. P!TypeOK'
  BY <1>1 DEF PtrInv, P!TypeOK, P!Destroy, P!Continue, P!Goto, CounterKept
<1>4. Counted'
  <2>1. P!TypeOK /\ Counted /\ OthersStay(t)
    BY <1>2 DEF PtrInv, OthersStay
  <2>2. ASSUME NEW o \in Pointees
        PROVE  /\ count'[o] = count[o]
                    + One(strong'[t] = o) - One(strong[t] = o)
                    + One(ptrPC'[t] = "release" /\ old'[t] = o)
                    - One(ptrPC[t] = "release" /\ old[t] = o)
               /\ weak_count'[o] = weak_count[o]
                    + One(weak'[t] = o) - One(weak[t] = o)
                    + One(ptrPC'[t] \in {"delete", "dropWeak"} /\ old'[t] = o)
                    - One(ptrPC[t] \in {"delete", "dropWeak"} /\ old[t] = o)
                    + One(count'[o] > 0) - One(count[o] > 0)
    BY <1>1, <1>2, HoldersFinite DEF PtrInv, P!TypeOK, One
  <2> QED
    BY <2>1, <2>2, CountedMoves
<1>5. OldKnown'
  BY <1>1, <1>2 DEF PtrInv, OldKnown
<1>6. Kept'
  BY <1>1, <1>2, HoldersFinite DEF PtrInv, Kept, P!TypeOK
<1>7. Unknown'
  BY <1>1, <1>2, HoldersFinite DEF PtrInv, Unknown
<1>8. ObjectKept'
  BY <1>1, <1>2 DEF PtrInv, ObjectKept, OldKnown, P!TypeOK
<1>9. CounterKept'
  BY <1>1, <1>2 DEF PtrInv, CounterKept, OldKnown, P!TypeOK
<1> QED
  BY <1>3, <1>4, <1>5, <1>6, <1>7, <1>8, <1>9 DEF PtrInv

LEMMA PtrLockAdds ==
    ASSUME PtrInv, NEW t \in Holders, P!LockAdds(t)
    PROVE  PtrInv'
<1>1. /\ ptrPC[t] = "lock" /\ old[t] = Nil /\ strong[t] = Nil
      /\ weak[t] \in Pointees /\ weak[t] # Nil
      /\ count[weak[t]] >= 1
      /\ keeper[t] \in Holders /\ keeper[t] # t /\ strong[keeper[t]] = weak[t]
  BY PtrReferences DEF PtrInv, P!TypeOK, P!LockAdds, Kept, OldKnown
<1>2. /\ \A u \in Holders : ptrPC'[u] = IF u = t THEN "idle" ELSE ptrPC[u]
      /\ \A u \in Holders : strong'[u] = IF u = t THEN weak[t] ELSE strong[u]
      /\ \A u \in Holders : keeper'[u] = IF u = t THEN t ELSE keeper[u]
      /\ \A o \in Pointees : count'[o] = IF o = weak[t] THEN count[o] + 1 ELSE count[o]
      /\ UNCHANGED <<weak, weak_count, object, counter, old>>
  BY <1>1 DEF PtrInv, P!TypeOK, P!LockAdds, P!Goto
<1>3. P!TypeOK'
  BY <1>1 DEF PtrInv, P!TypeOK, P!LockAdds, P!Goto
<1>4. Counted'
  <2>1. P!TypeOK /\ Counted /\ OthersStay(t)
    BY <1>2 DEF PtrInv, OthersStay
  <2>2. ASSUME NEW o \in Pointees
        PROVE  /\ count'[o] = count[o]
                    + One(strong'[t] = o) - One(strong[t] = o)
                    + One(ptrPC'[t] = "release" /\ old'[t] = o)
                    - One(ptrPC[t] = "release" /\ old[t] = o)
               /\ weak_count'[o] = weak_count[o]
                    + One(weak'[t] = o) - One(weak[t] = o)
                    + One(ptrPC'[t] \in {"delete", "dropWeak"} /\ old'[t] = o)
                    - One(ptrPC[t] \in {"delete", "dropWeak"} /\ old[t] = o)
                    + One(count'[o] > 0) - One(count[o] > 0)
    BY <1>1, <1>2, HoldersFinite DEF PtrInv, P!TypeOK, One
  <2> QED
    BY <2>1, <2>2, CountedMoves
<1>5. OldKnown'
  BY <1>1, <1>2 DEF PtrInv, OldKnown
<1>6. Kept'
  BY <1>1, <1>2, HoldersFinite DEF PtrInv, Kept, P!TypeOK
<1>7. Unknown'
  BY <1>1, <1>2, HoldersFinite DEF PtrInv, Unknown
<1>8. ObjectKept'
  BY <1>1, <1>2 DEF PtrInv, ObjectKept, OldKnown, P!TypeOK
<1>9. CounterKept'
  BY <1>1, <1>2 DEF PtrInv, CounterKept, OldKnown, P!TypeOK
<1> QED
  BY <1>3, <1>4, <1>5, <1>6, <1>7, <1>8, <1>9 DEF PtrInv

LEMMA PtrLockChecks ==
    ASSUME PtrInv, LocksAreGuarded, NEW t \in Holders, NEW v \in Holders, P!LockChecks(t, v)
    PROVE  PtrInv'
<1>1. /\ ptrPC[t] = "idle" /\ ptrPC[v] = "idle" /\ v # t
      /\ strong[t] = Nil /\ old[t] = Nil /\ weak[t] # Nil /\ strong[v] = weak[t]
  BY PtrReferences DEF PtrInv, P!TypeOK, P!LockChecks, P!Idle, LocksAreGuarded, OldKnown
<1>2. /\ \A u \in Holders : ptrPC'[u] = IF u = t THEN "lock" ELSE ptrPC[u]
      /\ \A u \in Holders : keeper'[u] = IF u = t THEN v ELSE keeper[u]
      /\ UNCHANGED <<strong, weak, count, weak_count, object, counter, old>>
  BY <1>1 DEF PtrInv, P!TypeOK, P!LockChecks, P!Goto, P!Idle
<1>3. P!TypeOK'
  BY <1>1 DEF PtrInv, P!TypeOK, P!LockChecks, P!Goto, P!Idle
<1>4. Counted'
  <2>1. P!TypeOK /\ Counted /\ OthersStay(t)
    BY <1>2 DEF PtrInv, OthersStay
  <2>2. ASSUME NEW o \in Pointees
        PROVE  /\ count'[o] = count[o]
                    + One(strong'[t] = o) - One(strong[t] = o)
                    + One(ptrPC'[t] = "release" /\ old'[t] = o)
                    - One(ptrPC[t] = "release" /\ old[t] = o)
               /\ weak_count'[o] = weak_count[o]
                    + One(weak'[t] = o) - One(weak[t] = o)
                    + One(ptrPC'[t] \in {"delete", "dropWeak"} /\ old'[t] = o)
                    - One(ptrPC[t] \in {"delete", "dropWeak"} /\ old[t] = o)
                    + One(count'[o] > 0) - One(count[o] > 0)
    BY <1>1, <1>2, HoldersFinite DEF PtrInv, P!TypeOK, One
  <2> QED
    BY <2>1, <2>2, CountedMoves
<1>5. OldKnown'
  BY <1>1, <1>2 DEF PtrInv, OldKnown
<1>6. Kept'
  BY <1>1, <1>2, HoldersFinite DEF PtrInv, Kept, P!TypeOK
<1>7. Unknown'
  BY <1>1, <1>2, HoldersFinite DEF PtrInv, Unknown
<1>8. ObjectKept'
  BY <1>1, <1>2 DEF PtrInv, ObjectKept, OldKnown, P!TypeOK
<1>9. CounterKept'
  BY <1>1, <1>2 DEF PtrInv, CounterKept, OldKnown, P!TypeOK
<1> QED
  BY <1>3, <1>4, <1>5, <1>6, <1>7, <1>8, <1>9 DEF PtrInv

LEMMA PtrConstruct ==
    ASSUME PtrInv, NEW t \in Holders, NEW x \in Pointees, P!Construct(t, x)
    PROVE  PtrInv'
<1>1. /\ ptrPC[t] = "idle" /\ strong[t] = Nil /\ old[t] = Nil
      /\ object[x] = "none" /\ count[x] = 0 /\ weak_count[x] = 0 /\ x # Nil
      /\ \A u \in Holders : x \notin {strong[u], weak[u], old[u]}
      /\ keeper[t] = t
  BY NewIsUnreferenced, HoldersFinite DEF PtrInv, P!Construct, P!Idle, OldKnown, Unknown, Kept
<1>2. /\ \A u \in Holders : strong'[u] = IF u = t THEN x ELSE strong[u]
      /\ \A o \in Pointees :
            /\ count'[o] = IF o = x THEN 1 ELSE count[o]
            /\ weak_count'[o] = IF o = x THEN 1 ELSE weak_count[o]
            /\ object'[o] = IF o = x THEN "alive" ELSE object[o]
            /\ counter'[o] = IF o = x THEN "alive" ELSE counter[o]
      /\ UNCHANGED <<weak, ptrPC, old, keeper>>
  BY <1>1 DEF PtrInv, P!TypeOK, P!Construct, P!Idle
<1>3. P!TypeOK'
  BY <1>1 DEF PtrInv, P!TypeOK, P!Construct, P!Idle
<1>4. Counted'
  <2>1. P!TypeOK /\ Counted /\ OthersStay(t)
    BY <1>2 DEF PtrInv, OthersStay
  <2>2. ASSUME NEW o \in Pointees
        PROVE  /\ count'[o] = count[o]
                    + One(strong'[t] = o) - One(strong[t] = o)
                    + One(ptrPC'[t] = "release" /\ old'[t] = o)
                    - One(ptrPC[t] = "release" /\ old[t] = o)
               /\ weak_count'[o] = weak_count[o]
                    + One(weak'[t] = o) - One(weak[t] = o)
                    + One(ptrPC'[t] \in {"delete", "dropWeak"} /\ old'[t] = o)
                    - One(ptrPC[t] \in {"delete", "dropWeak"} /\ old[t] = o)
                    + One(count'[o] > 0) - One(count[o] > 0)
    BY <1>1, <1>2, HoldersFinite DEF PtrInv, P!TypeOK, One
  <2> QED
    BY <2>1, <2>2, CountedMoves
<1>5. OldKnown'
  BY <1>1, <1>2 DEF PtrInv, OldKnown
<1>6. Kept'
  BY <1>1, <1>2, HoldersFinite DEF PtrInv, Kept, P!TypeOK
<1>7. Unknown'
  BY <1>1, <1>2, HoldersFinite DEF PtrInv, Unknown
<1>8. ObjectKept'
  BY <1>1, <1>2 DEF PtrInv, ObjectKept, OldKnown, P!TypeOK
<1>9. CounterKept'
  BY <1>1, <1>2 DEF PtrInv, CounterKept, OldKnown, P!TypeOK
<1> QED
  BY <1>3, <1>4, <1>5, <1>6, <1>7, <1>8, <1>9 DEF PtrInv

LEMMA PtrReset ==
    ASSUME PtrInv, NEW t \in Holders, P!Reset(t)
    PROVE  PtrInv'
<1>1. /\ ptrPC[t] = "idle" /\ strong[t] \in Pointees /\ strong[t] # Nil /\ old[t] = Nil
      /\ count[strong[t]] >= 1
      /\ \A u \in Holders \ {t} : keeper[u] # t
  BY PtrReferences DEF PtrInv, P!TypeOK, P!Reset, P!Idle, P!MayGiveUp, OldKnown
<1>2. /\ \A u \in Holders : ptrPC'[u] = IF u = t THEN "release" ELSE ptrPC[u]
      /\ \A u \in Holders : old'[u] = IF u = t THEN strong[t] ELSE old[u]
      /\ \A u \in Holders : strong'[u] = IF u = t THEN Nil ELSE strong[u]
      /\ UNCHANGED <<weak, count, weak_count, object, counter, keeper>>
  BY <1>1 DEF PtrInv, P!TypeOK, P!Reset, P!Idle, P!GiveUp, P!Goto, P!MayGiveUp
<1>3. P!TypeOK'
  BY <1>1 DEF PtrInv, P!TypeOK, P!Reset, P!Idle, P!GiveUp, P!Goto, P!MayGiveUp
<1>4. Counted'
  <2>1. P!TypeOK /\ Counted /\ OthersStay(t)
    BY <1>2 DEF PtrInv, OthersStay
  <2>2. ASSUME NEW o \in Pointees
        PROVE  /\ count'[o] = count[o]
                    + One(strong'[t] = o) - One(strong[t] = o)
                    + One(ptrPC'[t] = "release" /\ old'[t] = o)
                    - One(ptrPC[t] = "release" /\ old[t] = o)
               /\ weak_count'[o] = weak_count[o]
                    + One(weak'[t] = o) - One(weak[t] = o)
                    + One(ptrPC'[t] \in {"delete", "dropWeak"} /\ old'[t] = o)
                    - One(ptrPC[t] \in {"delete", "dropWeak"} /\ old[t] = o)
                    + One(count'[o] > 0) - One(count[o] > 0)
    BY <1>1, <1>2, HoldersFinite DEF PtrInv, P!TypeOK, One
  <2> QED
    BY <2>1, <2>2, CountedMoves
<1>5. OldKnown'
  BY <1>1, <1>2 DEF PtrInv, OldKnown
<1>6. Kept'
  BY <1>1, <1>2, HoldersFinite DEF PtrInv, Kept, P!TypeOK
<1>7. Unknown'
  BY <1>1, <1>2, HoldersFinite DEF PtrInv, Unknown
<1>8. ObjectKept'
  BY <1>1, <1>2 DEF PtrInv, ObjectKept, OldKnown, P!TypeOK
<1>9. CounterKept'
  BY <1>1, <1>2 DEF PtrInv, CounterKept, OldKnown, P!TypeOK
<1> QED
  BY <1>3, <1>4, <1>5, <1>6, <1>7, <1>8, <1>9 DEF PtrInv

LEMMA PtrResetWeak ==
    ASSUME PtrInv, NEW t \in Holders, P!ResetWeak(t)
    PROVE  PtrInv'
<1>1. /\ ptrPC[t] = "idle" /\ weak[t] \in Pointees /\ weak[t] # Nil /\ old[t] = Nil
      /\ weak_count[weak[t]] >= 1
  BY PtrReferences DEF PtrInv, P!TypeOK, P!ResetWeak, P!Idle, OldKnown
<1>2. /\ \A u \in Holders : ptrPC'[u] = IF u = t THEN "dropWeak" ELSE ptrPC[u]
      /\ \A u \in Holders : old'[u] = IF u = t THEN weak[t] ELSE old[u]
      /\ \A u \in Holders : weak'[u] = IF u = t THEN Nil ELSE weak[u]
      /\ UNCHANGED <<strong, count, weak_count, object, counter, keeper>>
  BY <1>1 DEF PtrInv, P!TypeOK, P!ResetWeak, P!Idle, P!GiveUp, P!Goto
<1>3. P!TypeOK'
  BY <1>1 DEF PtrInv, P!TypeOK, P!ResetWeak, P!Idle, P!GiveUp, P!Goto
<1>4. Counted'
  <2>1. P!TypeOK /\ Counted /\ OthersStay(t)
    BY <1>2 DEF PtrInv, OthersStay
  <2>2. ASSUME NEW o \in Pointees
        PROVE  /\ count'[o] = count[o]
                    + One(strong'[t] = o) - One(strong[t] = o)
                    + One(ptrPC'[t] = "release" /\ old'[t] = o)
                    - One(ptrPC[t] = "release" /\ old[t] = o)
               /\ weak_count'[o] = weak_count[o]
                    + One(weak'[t] = o) - One(weak[t] = o)
                    + One(ptrPC'[t] \in {"delete", "dropWeak"} /\ old'[t] = o)
                    - One(ptrPC[t] \in {"delete", "dropWeak"} /\ old[t] = o)
                    + One(count'[o] > 0) - One(count[o] > 0)
    BY <1>1, <1>2, HoldersFinite DEF PtrInv, P!TypeOK, One
  <2> QED
    BY <2>1, <2>2, CountedMoves
<1>5. OldKnown'
  BY <1>1, <1>2 DEF PtrInv, OldKnown
<1>6. Kept'
  BY <1>1, <1>2, HoldersFinite DEF PtrInv, Kept, P!TypeOK
<1>7. Unknown'
  BY <1>1, <1>2, HoldersFinite DEF PtrInv, Unknown
<1>8. ObjectKept'
  BY <1>1, <1>2 DEF PtrInv, ObjectKept, OldKnown, P!TypeOK
<1>9. CounterKept'
  BY <1>1, <1>2 DEF PtrInv, CounterKept, OldKnown, P!TypeOK
<1> QED
  BY <1>3, <1>4, <1>5, <1>6, <1>7, <1>8, <1>9 DEF PtrInv

LEMMA PtrAssign ==
    ASSUME PtrInv, NEW t \in Holders, NEW v \in Holders, P!Assign(t, v)
    PROVE  PtrInv'
<1>1. /\ ptrPC[t] = "idle" /\ ptrPC[v] = "idle" /\ old[t] = Nil
      /\ strong[v] \in Pointees /\ strong[v] # Nil /\ strong[v] # strong[t]
      /\ count[strong[v]] >= 1
      /\ strong[t] \in Pointees \cup {Nil} /\ Nil \notin Pointees
      /\ \A u \in Holders \ {t} : keeper[u] # t
  BY PtrReferences DEF PtrInv, P!TypeOK, P!Assign, P!Idle, P!MayGiveUp, OldKnown
<1>2. /\ \A u \in Holders : ptrPC'[u] = IF u = t /\ strong[t] # Nil THEN "release" ELSE ptrPC[u]
      /\ \A u \in Holders : old'[u] = IF u = t THEN strong[t] ELSE old[u]
      /\ \A u \in Holders : strong'[u] = IF u = t THEN strong[v] ELSE strong[u]
      /\ \A o \in Pointees : count'[o] = IF o = strong[v] THEN count[o] + 1 ELSE count[o]
      /\ UNCHANGED <<weak, weak_count, object, counter, keeper>>
  BY <1>1 DEF PtrInv, P!TypeOK, P!Assign, P!Idle, P!GiveUp, P!Goto, P!MayGiveUp
<1>3. P!TypeOK'
  BY <1>1 DEF PtrInv, P!TypeOK, P!Assign, P!Idle, P!GiveUp, P!Goto, P!MayGiveUp
<1>4. Counted'
  <2>1. P!TypeOK /\ Counted /\ OthersStay(t)
    BY <1>2 DEF PtrInv, OthersStay
  <2>2. ASSUME NEW o \in Pointees
        PROVE  /\ count'[o] = count[o]
                    + One(strong'[t] = o) - One(strong[t] = o)
                    + One(ptrPC'[t] = "release" /\ old'[t] = o)
                    - One(ptrPC[t] = "release" /\ old[t] = o)
               /\ weak_count'[o] = weak_count[o]
                    + One(weak'[t] = o) - One(weak[t] = o)
                    + One(ptrPC'[t] \in {"delete", "dropWeak"} /\ old'[t] = o)
                    - One(ptrPC[t] \in {"delete", "dropWeak"} /\ old[t] = o)
                    + One(count'[o] > 0) - One(count[o] > 0)
    BY <1>1, <1>2, HoldersFinite DEF PtrInv, P!TypeOK, One
  <2> QED
    BY <2>1, <2>2, CountedMoves
<1>5. OldKnown'
  BY <1>1, <1>2 DEF PtrInv, OldKnown
<1>6. Kept'
  BY <1>1, <1>2, HoldersFinite DEF PtrInv, Kept, P!TypeOK
<1>7. Unknown'
  BY <1>1, <1>2, HoldersFinite DEF PtrInv, Unknown
<1>8. ObjectKept'
  BY <1>1, <1>2 DEF PtrInv, ObjectKept, OldKnown, P!TypeOK
<1>9. CounterKept'
  BY <1>1, <1>2 DEF PtrInv, CounterKept, OldKnown, P!TypeOK
<1> QED
  BY <1>3, <1>4, <1>5, <1>6, <1>7, <1>8, <1>9 DEF PtrInv

LEMMA PtrAssignWeak ==
    ASSUME PtrInv, NEW t \in Holders, NEW v \in Holders, P!AssignWeak(t, v)
    PROVE  PtrInv'
<1>0. PICK x \in {strong[v], weak[v]} \ {Nil} :
         weak_count' = [weak_count EXCEPT ![x] = @ + 1] /\ weak' = [weak EXCEPT ![t] = x]
  BY DEF P!AssignWeak
<1>1. /\ ptrPC[t] = "idle" /\ ptrPC[v] = "idle" /\ old[t] = Nil
      /\ x \in Pointees /\ x # Nil /\ weak_count[x] >= 1
      /\ weak[t] \in Pointees \cup {Nil} /\ Nil \notin Pointees
      /\ x \in {strong[v], weak[v]} \ {Nil}
  BY <1>0, PtrReferences DEF PtrInv, P!TypeOK, P!AssignWeak, P!Idle, OldKnown
<1>2. /\ \A u \in Holders : ptrPC'[u] = IF u = t /\ weak[t] # Nil THEN "dropWeak" ELSE ptrPC[u]
      /\ \A u \in Holders : old'[u] = IF u = t THEN weak[t] ELSE old[u]
      /\ \A u \in Holders : weak'[u] = IF u = t THEN x ELSE weak[u]
      /\ \A o \in Pointees : weak_count'[o] = IF o = x THEN weak_count[o] + 1 ELSE weak_count[o]
      /\ UNCHANGED <<strong, count, object, counter, keeper>>
  BY <1>0, <1>1 DEF PtrInv, P!TypeOK, P!AssignWeak, P!Idle, P!GiveUp, P!Goto
<1>3. P!TypeOK'
  BY <1>0, <1>1 DEF PtrInv, P!TypeOK, P!AssignWeak, P!Idle, P!GiveUp, P!Goto
<1>4. Counted'
  <2>1. P!TypeOK /\ Counted /\ OthersStay(t)
    BY <1>2 DEF PtrInv, OthersStay
  <2>2. ASSUME NEW o \in Pointees
        PROVE  /\ count'[o] = count[o]
                    + One(strong'[t] = o) - One(strong[t] = o)
                    + One(ptrPC'[t] = "release" /\ old'[t] = o)
                    - One(ptrPC[t] = "release" /\ old[t] = o)
               /\ weak_count'[o] = weak_count[o]
                    + One(weak'[t] = o) - One(weak[t] = o)
                    + One(ptrPC'[t] \in {"delete", "dropWeak"} /\ old'[t] = o)
                    - One(ptrPC[t] \in {"delete", "dropWeak"} /\ old[t] = o)
                    + One(count'[o] > 0) - One(count[o] > 0)
    BY <1>1, <1>2, HoldersFinite DEF PtrInv, P!TypeOK, One
  <2> QED
    BY <2>1, <2>2, CountedMoves
<1>5. OldKnown'
  BY <1>1, <1>2 DEF PtrInv, OldKnown
<1>6. Kept'
  BY <1>1, <1>2, HoldersFinite DEF PtrInv, Kept, P!TypeOK
<1>7. Unknown'
  BY <1>1, <1>2, HoldersFinite DEF PtrInv, Unknown
<1>8. ObjectKept'
  BY <1>1, <1>2 DEF PtrInv, ObjectKept, OldKnown, P!TypeOK
<1>9. CounterKept'
  BY <1>1, <1>2 DEF PtrInv, CounterKept, OldKnown, P!TypeOK
<1> QED
  BY <1>3, <1>4, <1>5, <1>6, <1>7, <1>8, <1>9 DEF PtrInv

LEMMA PtrInit == P!Init => PtrInv
<1> SUFFICES ASSUME P!Init PROVE PtrInv
  OBVIOUS
<1>1. P!TypeOK
  BY DEF P!Init, P!TypeOK
<1>2. Counted
  <2> SUFFICES ASSUME NEW o \in Pointees
               PROVE  /\ count[o] = Cardinality(Strongs(o)) + Cardinality(Giving(o))
                      /\ weak_count[o] = Cardinality(Weaks(o)) + Cardinality(Dropping(o))
                                           + One(count[o] > 0)
    BY DEF Counted
  <2>1. Strongs(o) = {} /\ Giving(o) = {} /\ Weaks(o) = {} /\ Dropping(o) = {}
    BY HoldersFinite DEF P!Init, Strongs, Giving, Weaks, Dropping
  <2>2. Cardinality({}) = 0 /\ count[o] = 0 /\ weak_count[o] = 0
    BY FS_EmptySet DEF P!Init
  <2> QED
    BY <2>1, <2>2 DEF One
<1>3. OldKnown /\ Kept
  BY DEF P!Init, OldKnown, Kept
<1>4. Unknown /\ ObjectKept /\ CounterKept
  BY HoldersFinite DEF P!Init, Unknown, ObjectKept, CounterKept
<1> QED
  BY <1>1, <1>2, <1>3, <1>4 DEF PtrInv

LEMMA PtrUnchanged ==
    ASSUME PtrInv, UNCHANGED P!vars
    PROVE  PtrInv'
<1>1. UNCHANGED <<strong, weak, count, weak_count, object, counter, ptrPC, old, keeper>>
  BY DEF P!vars
<1>2. P!TypeOK'
  BY <1>1 DEF PtrInv, P!TypeOK
<1>3. Counted'
  BY <1>1 DEF PtrInv, Counted, Strongs, Giving, Weaks, Dropping
<1>4. OldKnown' /\ Kept'
  BY <1>1 DEF PtrInv, OldKnown, Kept
<1>5. Unknown' /\ ObjectKept' /\ CounterKept'
  BY <1>1 DEF PtrInv, Unknown, ObjectKept, CounterKept
<1> QED
  BY <1>2, <1>3, <1>4, <1>5 DEF PtrInv

LEMMA PtrNext == LocksAreGuarded /\ PtrInv /\ [P!Next]_P!vars => PtrInv'
<1> SUFFICES ASSUME LocksAreGuarded, PtrInv, P!Next PROVE PtrInv'
  BY PtrUnchanged
<1>1. PICK t \in Holders :
         \/ P!Step(t)
         \/ P!Reset(t) \/ P!ResetWeak(t)
         \/ \E o \in Pointees : P!Construct(t, o)
         \/ \E u \in Holders : P!Assign(t, u) \/ P!AssignWeak(t, u) \/ P!LockChecks(t, u)
  BY DEF P!Next
<1>2. CASE P!Step(t)
  BY <1>2, PtrRelease, PtrDelete, PtrReleaseWeak, PtrDestroy, PtrLockAdds DEF P!Step
<1>3. CASE P!Reset(t) \/ P!ResetWeak(t)
  BY <1>3, PtrReset, PtrResetWeak
<1>4. CASE \E o \in Pointees : P!Construct(t, o)
  BY <1>4, PtrConstruct
<1>5. CASE \E u \in Holders : P!Assign(t, u) \/ P!AssignWeak(t, u) \/ P!LockChecks(t, u)
  BY <1>5, PtrAssign, PtrAssignWeak, PtrLockChecks
<1> QED
  BY <1>1, <1>2, <1>3, <1>4, <1>5

LEMMA PtrAlways == LocksAreGuarded => (P!Spec => []PtrInv)
<1> SUFFICES ASSUME LocksAreGuarded PROVE P!Spec => []PtrInv
  OBVIOUS
<1>1. PtrInv /\ [P!Next]_P!vars => PtrInv'
  BY PtrNext
<1> QED
  BY <1>1, PtrInit, PTL DEF P!Spec

(* TCSharedPtr.h: "This shared pointer avoids destruction of an object in  *)
(* use".  What a SharedPtr points to is alive, whatever the threads        *)
(* assign, lock and release; the counter outlives whoever will still touch *)
(* it, and one thread deletes the object and one the counter.              *)
THEOREM PointersKeepAlive == LocksAreGuarded => (P!Spec => []InUseIsAlive)
<1> SUFFICES ASSUME LocksAreGuarded PROVE P!Spec => []InUseIsAlive
  OBVIOUS
<1>1. ASSUME PtrInv PROVE InUseIsAlive
  <2>1. P!InUseIsAlive
    BY <1>1, PtrReferences DEF P!InUseIsAlive, PtrInv, P!TypeOK
  <2>2. ASSUME NEW t \in Holders, NEW o \in P!Touches(t) \ {Nil}
        PROVE  counter[o] = "alive"
    <3>1. o \in Pointees /\ o \in {strong[t], weak[t], old[t]}
      BY <1>1, <2>2 DEF PtrInv, P!TypeOK, P!Touches
    <3>2. \A p \in Pointees : weak_count[p] >= 1 => counter[p] = "alive"
      BY <1>1 DEF PtrInv, P!TypeOK, CounterKept
    <3>3. CASE o = strong[t] \/ o = weak[t]
      BY <1>1, <3>1, <3>2, <3>3, PtrReferences
    <3>4. CASE o = old[t]
      <4>1. ptrPC[t] \in {"release", "delete", "dropWeak", "destroy"}
        BY <1>1, <2>2, <3>4 DEF PtrInv, OldKnown, P!TypeOK
      <4>2. CASE ptrPC[t] = "destroy"
        BY <1>1, <3>4, <4>2 DEF PtrInv, CounterKept
      <4>3. CASE ptrPC[t] # "destroy"
        BY <1>1, <3>1, <3>2, <3>4, <4>1, <4>3, PtrReferences
      <4> QED
        BY <4>2, <4>3
    <3> QED
      BY <3>1, <3>3, <3>4
  <2>3. ASSUME NEW t \in Holders, NEW u \in Holders \ {t},
               ptrPC[t] \in {"delete", "destroy"}, ptrPC[u] = ptrPC[t]
        PROVE  old[t] # old[u]
    BY <1>1, <2>3 DEF PtrInv, ObjectKept, CounterKept
  <2> QED
    BY <2>1, <2>2, <2>3 DEF InUseIsAlive, P!CounterOutlives
<1> QED
  BY <1>1, PtrAlways, PTL

(* SharedPtrCountBase: m_count is the number of shared pointers to the     *)
(* object and of threads about to give one up, m_weak_count that of the    *)
(* weak ones, and one more while m_count is not 0.                         *)
THEOREM PointersAreCounted == LocksAreGuarded => (P!Spec => []Counted)
<1> SUFFICES ASSUME LocksAreGuarded PROVE P!Spec => []Counted
  OBVIOUS
<1> QED
  BY PtrAlways, PTL DEF PtrInv
=============================================================================
