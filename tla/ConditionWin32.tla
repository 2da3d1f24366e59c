--------------------------- MODULE ConditionWin32 ---------------------------
(***************************************************************************)
(* The condition variable for Windows, made of a counter of waiters and    *)
(* two events of the system: SIGNAL lets one waiter pass and is reset by   *)
(* it, BROADCAST lets all pass until the last waiter resets it.  Whoever   *)
(* waits, signals or broadcasts holds the mutex of the condition.          *)
(***************************************************************************)
EXTENDS Integers, FiniteSets

CONSTANTS Waiters, Signallers,
          MaxSignals, MaxBroadcasts  \* bounds

Callers == Waiters \cup Signallers

ConditionAssumption ==
    /\ IsFiniteSet(Callers)
    /\ Waiters \cap Signallers = {}
    /\ MaxSignals \in Nat /\ MaxBroadcasts \in Nat

VARIABLES
    mutex,         \* its owner, or None
    pc,            \* where each thread is
    waiters_count,
    SIGNAL, BROADCAST,  \* the states of the events
    result,        \* what WaitForMultipleObjects gave each waiter
    signals, broadcasts, \* history: calls that found waiters
    passed,        \* history: returns because of SIGNAL
    owed           \* history: waiters a Broadcast has still to wake
vars == <<mutex, pc, waiters_count, SIGNAL, BROADCAST, result,
          signals, broadcasts, passed, owed>>

None == "none"

TypeOK ==
    /\ mutex \in Callers \cup {None}
    /\ pc \in [Callers -> {"out", "locked", "counted", "waiting", "woken", "last", "relock",
                           "signal", "broadcast"}]
    /\ waiters_count \in 0 .. Cardinality(Waiters)
    /\ SIGNAL \in BOOLEAN /\ BROADCAST \in BOOLEAN
    /\ result \in [Waiters -> {"SIGNAL", "BROADCAST", "TIMEOUT"}]
    /\ signals \in 0 .. MaxSignals /\ broadcasts \in 0 .. MaxBroadcasts
    /\ passed \in Nat /\ owed \subseteq Waiters

Init ==
    /\ mutex = None /\ pc = [t \in Callers |-> "out"]
    /\ waiters_count = 0 /\ SIGNAL = FALSE /\ BROADCAST = FALSE
    /\ result = [w \in Waiters |-> "TIMEOUT"]
    /\ signals = 0 /\ broadcasts = 0 /\ passed = 0 /\ owed = {}

Go(t, to) == pc' = [pc EXCEPT ![t] = to]
events == <<SIGNAL, BROADCAST>>
history == <<signals, broadcasts, passed, owed>>
-----------------------------------------------------------------------------
(* The callers. *)
Lock(t) ==
    /\ pc[t] = "out" /\ mutex = None
    /\ mutex' = t /\ Go(t, "locked")
    /\ UNCHANGED <<waiters_count, events, result, history>>

UnLock(t) ==
    /\ pc[t] = "locked"
    /\ mutex' = None /\ Go(t, "out")
    /\ UNCHANGED <<waiters_count, events, result, history>>

(* TryWait. *)
CountWaiter(w) ==
    /\ pc[w] = "locked"
    /\ waiters_count' = waiters_count + 1
    /\ Go(w, "counted")
    /\ UNCHANGED <<mutex, events, result, history>>

ReleaseMutex(w) ==
    /\ pc[w] = "counted"
    /\ mutex' = None /\ Go(w, "waiting")
    /\ UNCHANGED <<waiters_count, events, result, history>>

ManualSignal(w) == SIGNAL

AutoReset(w) == FALSE

Woken(w, why) ==
    /\ pc[w] = "waiting"
    /\ result' = [result EXCEPT ![w] = why]
    /\ Go(w, "woken")
    /\ owed' = owed \ {w}
    /\ UNCHANGED <<mutex, waiters_count, BROADCAST, signals, broadcasts>>

WaitSignal(w) ==
    /\ SIGNAL /\ Woken(w, "SIGNAL")
    /\ SIGNAL' = AutoReset(w) /\ passed' = passed + 1

WaitBroadcast(w) ==
    /\ BROADCAST /\ ~SIGNAL /\ Woken(w, "BROADCAST")
    /\ UNCHANGED <<SIGNAL, passed>>

WaitTimeout(w) ==
    /\ Woken(w, "TIMEOUT")
    /\ UNCHANGED <<SIGNAL, passed>>

LastWaiter(w) == result[w] = "BROADCAST" /\ waiters_count' = 0

CountDown(w) == waiters_count' = waiters_count - 1

LeaveWaiter(w) ==
    /\ pc[w] = "woken"
    /\ CountDown(w)
    /\ Go(w, IF LastWaiter(w) THEN "last" ELSE "relock")
    /\ UNCHANGED <<mutex, events, result, history>>

ResetBroadcast(w) ==
    /\ pc[w] = "last"
    /\ BROADCAST' = FALSE
    /\ Go(w, "relock")
    /\ UNCHANGED <<mutex, waiters_count, SIGNAL, result, history>>

Reacquire(w) ==
    /\ pc[w] = "relock" /\ mutex = None
    /\ mutex' = w /\ Go(w, "locked")
    /\ UNCHANGED <<waiters_count, events, result, history>>
-----------------------------------------------------------------------------
(* Signal and Broadcast: have_waiters, then the event. *)
AskSignal(s) ==
    /\ pc[s] = "locked" /\ signals < MaxSignals
    /\ waiters_count > 0
    /\ signals' = signals + 1
    /\ Go(s, "signal")
    /\ UNCHANGED <<mutex, waiters_count, events, result, broadcasts, passed, owed>>

SetSignal(s) ==
    /\ pc[s] = "signal"
    /\ SIGNAL' = TRUE /\ Go(s, "locked")
    /\ UNCHANGED <<mutex, waiters_count, BROADCAST, result, history>>

AskBroadcast(s) ==
    /\ pc[s] = "locked" /\ broadcasts < MaxBroadcasts
    /\ waiters_count > 0
    /\ broadcasts' = broadcasts + 1
    /\ Go(s, "broadcast")
    /\ UNCHANGED <<mutex, waiters_count, events, result, signals, passed, owed>>

SetBroadcast(s) ==
    /\ pc[s] = "broadcast"
    /\ BROADCAST' = TRUE /\ Go(s, "locked")
    /\ owed' = owed \cup {w \in Waiters : pc[w] = "waiting"}
    /\ UNCHANGED <<mutex, waiters_count, SIGNAL, result, signals, broadcasts, passed>>

WaitStep(w) ==
    \/ ReleaseMutex(w) \/ WaitSignal(w) \/ WaitBroadcast(w)
    \/ LeaveWaiter(w) \/ ResetBroadcast(w)
SignalStep(s) == SetSignal(s) \/ SetBroadcast(s)

Next ==
    \/ \E t \in Callers : Lock(t) \/ UnLock(t)
    \/ \E w \in Waiters : CountWaiter(w) \/ WaitStep(w) \/ WaitTimeout(w) \/ Reacquire(w)
    \/ \E s \in Signallers : AskSignal(s) \/ AskBroadcast(s) \/ SignalStep(s)

Spec == Init /\ [][Next]_vars

(* Callers that can run do; those that wait for the mutex get it in turn.  *)
FairSpec ==
    /\ Spec
    /\ \A w \in Waiters : WF_vars(WaitStep(w)) /\ SF_vars(Reacquire(w))
    /\ \A t \in Callers : WF_vars(UnLock(t))
    /\ \A s \in Signallers : WF_vars(SignalStep(s))
-----------------------------------------------------------------------------
(* The counter is the number of threads between the two critical sections  *)
(* of TryWait: Signal and Broadcast never miss a waiter because of it.     *)
CountExact ==
    waiters_count =
        Cardinality({w \in Waiters : pc[w] \in {"counted", "waiting", "woken"}})

(* No more waiters return because of Signal than Signal was called: the    *)
(* event is one wakeup.                                                    *)
OnePassPerSignal == passed + (IF SIGNAL THEN 1 ELSE 0) <= signals

(* TCMTCondition.h: Broadcast wakes all threads which have called Wait.    *)
BroadcastWakesAll == \A w \in Waiters : w \in owed ~> w \notin owed
=============================================================================
