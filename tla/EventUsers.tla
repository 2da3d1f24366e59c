----------------------------- MODULE EventUsers -----------------------------
(***************************************************************************)
(* Any number of threads that call Wait, TryWait, Try, Set and Reset of    *)
(* one EventPthread, in any order.                                         *)
(***************************************************************************)
EXTENDS EventPthread, Integers

CONSTANTS Threads,   \* the threads that use the event
          MaxSets    \* bound: calls of Set

ASSUME EventAssumption == MaxSets \in Nat

VARIABLES
    event,    \* m_event
    call,     \* the call each thread is blocked in, or "none"
    wasSet,   \* history: was the event set at some time during the call?
    result,   \* what the last Wait or TryWait of the thread returned
    sets,     \* history: how often the event was set, at creation included
    passes    \* history: how often Try, and TryWait with a finite timeout,
              \* returned true; counted for an auto-reset event only

vars == <<event, call, wasSet, result, sets, passes>>

TypeOK ==
    /\ event \in EventType(Threads)
    /\ call \in [Threads -> {"none", "Wait", "Infinite", "TryWait"}]
    /\ wasSet \in [Threads -> BOOLEAN]
    /\ result \in [Threads -> {"none", "WaitTrue", "InfiniteTrue",
                               "TryWaitTrue", "TryWaitFalse"}]
    /\ sets \in Nat
    /\ passes \in Nat
    /\ event.waiting \cap event.woken = {}
    /\ \A t \in Threads : t \in event.waiting \cup event.woken <=> call[t] # "none"

Init ==
    /\ \E manual_reset, initial_state \in BOOLEAN :
          /\ event = NewEvent(manual_reset, initial_state)
          /\ sets = IF initial_state THEN 1 ELSE 0
    /\ call = [t \in Threads |-> "none"]
    /\ wasSet = [t \in Threads |-> FALSE]
    /\ result = [t \in Threads |-> "none"]
    /\ passes = 0
-----------------------------------------------------------------------------
Passed == IF event.manual_reset THEN passes ELSE passes + 1

(* Wait and TryWait: entry, and the return at once when the event is set. *)
Enter(t, method) ==
    /\ call[t] = "none"
    /\ event' = EventWait(event, t)
    /\ wasSet' = [wasSet EXCEPT ![t] = event.state]
    /\ UNCHANGED sets

Truth(method) == IF method = "Wait" THEN "WaitTrue" ELSE "InfiniteTrue"

(* Wait, called by itself or, as "Infinite", by TryWait. *)
WaitFor(t, method) ==
    /\ Enter(t, method)
    /\ IF event.state
       THEN /\ result' = [result EXCEPT ![t] = Truth(method)]
            /\ UNCHANGED call
       ELSE /\ call' = [call EXCEPT ![t] = method]
            /\ result' = [result EXCEPT ![t] = "none"]
    /\ UNCHANGED passes

Wait(t) == WaitFor(t, "Wait")

(* Mutant of Try: the auto-reset event stays set. *)
TryKeepingState(t) ==
    /\ call[t] = "none"
    /\ event.state
    /\ passes' = Passed
    /\ UNCHANGED <<event, call, wasSet, result, sets>>

(* A Try that fails changes nothing. *)
Try(t) ==
    /\ call[t] = "none"
    /\ event.state
    /\ event' = Consume(event)
    /\ passes' = Passed
    /\ UNCHANGED <<call, wasSet, result, sets>>

TryWaitFinite(t) ==
    /\ Enter(t, "TryWait")
    /\ IF event.state
       THEN /\ result' = [result EXCEPT ![t] = "TryWaitTrue"]
            /\ passes' = Passed
            /\ UNCHANGED call
       ELSE /\ call' = [call EXCEPT ![t] = "TryWait"]
            /\ result' = [result EXCEPT ![t] = "none"]
            /\ UNCHANGED passes

(* TryWait hands a timeout of Time::Zero() to Try and one of               *)
(* Time::Infinite() to Wait.                                               *)
TryWait(t, millisecs) ==
    \/ millisecs = "Zero" /\ Try(t)
    \/ millisecs = "Infinite" /\ WaitFor(t, "Infinite")
    \/ millisecs = "finite" /\ TryWaitFinite(t)

(* Return from pthread_cond_wait: Wait reports true whatever the state. *)
WaitReturns(t) ==
    /\ call[t] \in {"Wait", "Infinite"}
    /\ t \in event.woken
    /\ event' = EventResume(event, t)
    /\ call' = [call EXCEPT ![t] = "none"]
    /\ result' = [result EXCEPT ![t] = Truth(call[t])]
    /\ UNCHANGED <<wasSet, sets, passes>>

(* Mutant of TryWaitReturns: true without a second look at the state. *)
TryWaitReturnsUnchecked(t) ==
    /\ call[t] = "TryWait"
    /\ t \in event.woken
    /\ event' = EventResume(event, t)
    /\ call' = [call EXCEPT ![t] = "none"]
    /\ result' = [result EXCEPT ![t] = "TryWaitTrue"]
    /\ passes' = Passed
    /\ UNCHANGED <<wasSet, sets>>

(* TryWait looks at the state again and fails when it was taken meanwhile. *)
TryWaitReturns(t) ==
    /\ call[t] = "TryWait"
    /\ t \in event.woken
    /\ event' = EventResume(event, t)
    /\ call' = [call EXCEPT ![t] = "none"]
    /\ result' = [result EXCEPT
          ![t] = IF event.state THEN "TryWaitTrue" ELSE "TryWaitFalse"]
    /\ passes' = IF event.state THEN Passed ELSE passes
    /\ UNCHANGED <<wasSet, sets>>

TryWaitTimesOut(t) ==
    /\ call[t] = "TryWait"
    /\ t \in event.waiting
    /\ event' = EventTimeOut(event, t)
    /\ call' = [call EXCEPT ![t] = "none"]
    /\ result' = [result EXCEPT ![t] = "TryWaitFalse"]
    /\ UNCHANGED <<wasSet, sets, passes>>

SpuriousWakeup(t) ==
    /\ t \in event.waiting
    /\ event' = Unblock(event, {t})
    /\ UNCHANGED <<call, wasSet, result, sets, passes>>

Set(t) ==
    /\ call[t] = "none"
    /\ sets < MaxSets
    /\ event' \in EventSet(event)
    /\ wasSet' = [u \in Threads |-> wasSet[u] \/ call[u] # "none"]
    /\ sets' = sets + 1
    /\ UNCHANGED <<call, result, passes>>

Reset(t) ==
    /\ call[t] = "none"
    /\ event' = EventReset(event)
    /\ UNCHANGED <<call, wasSet, result, sets, passes>>

Next == \E t \in Threads :
    \/ Wait(t) \/ Try(t) \/ Set(t) \/ Reset(t)
    \/ \E millisecs \in {"Zero", "Infinite", "finite"} : TryWait(t, millisecs)
    \/ WaitReturns(t) \/ TryWaitReturns(t) \/ TryWaitTimesOut(t)
    \/ SpuriousWakeup(t)

Spec == Init /\ [][Next]_vars
-----------------------------------------------------------------------------
(* A set event is never slept on: with a manual-reset event no thread is   *)
(* left blocked while it is set, and with an auto-reset event, when some   *)
(* thread is blocked, another one was unblocked and will take the event,   *)
(* whatever timeouts, spurious wakeups and resets came in between.         *)
NoLostSignal ==
    (event.state /\ event.waiting # {})
        => (~event.manual_reset /\ event.woken # {})

(* TryWait with a finite timeout says true only when the event was set     *)
(* while it ran.  TryWait with an infinite timeout and Wait are documented *)
(* to do the same, and do not (see WaitTrueMeansSet).                      *)
TryWaitTrueMeansSet ==
    \A t \in Threads : result[t] = "TryWaitTrue" => wasSet[t]

(* One Set of an auto-reset event lets at most one Try, or TryWait with a  *)
(* finite timeout, pass, however many threads its signal unblocked.  Any   *)
(* number of Waits may pass beside it, and so may TryWaits with an         *)
(* infinite timeout.                                                       *)
OnePassPerSet ==
    ~event.manual_reset =>
        passes + (IF event.state THEN 1 ELSE 0) <= sets

(* What TCMTEvent.h says of Wait: "Wait for ever until the event was set   *)
(* or an error happens", "@return true if the event was set else error",   *)
(* and of TryWait, whatever its timeout: "@return true if the event was    *)
(* set else timeout or error".  Not so: Wait, alone or for an infinite     *)
(* TryWait, reports true after any wakeup.                                 *)
WaitTrueMeansSet ==
    \A t \in Threads : result[t] \in {"WaitTrue", "InfiniteTrue"} => wasSet[t]
=============================================================================
