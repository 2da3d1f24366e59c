----------------------------- MODULE TimedWait ------------------------------
(***************************************************************************)
(* GetMessage with a timeout: the loop of MessageQueue over the TryWait of *)
(* the event and of the condition below it, on a clock that the program    *)
(* does not control.  Any message sets the event; only some are waited for.*)
(***************************************************************************)
EXTENDS Time

CONSTANTS Timeouts,  \* what callers give
          Starts,    \* when they call
          MaxTicks,  \* bound on the time that passes outside of waits
          SetsBack   \* may the clock be set back, once?

TimedWaitAssumption ==
    /\ Timeouts \subseteq Times /\ Starts \subseteq Times
    /\ MaxTicks \in Nat /\ SetsBack \in BOOLEAN

VARIABLES
    now,        \* what Time::Now gives
    start_time, timeout,
    pc, result,
    limit,      \* the argument of TryWait
    deadline,   \* the timespec of pthread_cond_timedwait
    message,    \* the one that is waited for has come
    passed, slept, \* history: ticks since the call, since TryWait
    back        \* the clock was set back
vars == <<now, start_time, timeout, pc, result, limit, deadline, message, passed, slept, back>>

call == <<start_time, timeout>>
wait == <<limit, deadline>>
world == <<now, message, passed, slept, back>>

TypeOK ==
    /\ {now, start_time, timeout, limit, deadline} \subseteq Times
    /\ pc \in {"look", "since", "arm", "timed", "endless", "expired", "done"}
    /\ result \in {"failed", "received", "timeout", "thrown"}
    /\ message \in BOOLEAN /\ back \in BOOLEAN
    /\ passed \in Nat /\ slept \in 0 .. passed

Init ==
    /\ now \in Starts /\ timeout \in Timeouts
    /\ start_time = now /\ pc = "look" /\ result = "failed"
    /\ limit = Zero /\ deadline = Zero
    /\ message = FALSE /\ passed = 0 /\ slept = 0 /\ back = FALSE

Returns(r) == pc' = "done" /\ result' = r
-----------------------------------------------------------------------------
(* The loop of GetMessage.                                                 *)
GetMessageFromQueue ==
    /\ pc = "look"
    /\ IF message THEN Returns("received") ELSE pc' = "since" /\ UNCHANGED result
    /\ UNCHANGED <<call, wait, world>>

SinceCall(elapsed) == Minus(timeout, elapsed)

Since ==
    /\ pc = "since"
    /\ UNCHANGED <<call, deadline, now, message, passed, back>>
    /\ LET elapsed == Minus(now, start_time)
       IN  IF Underflows(now, start_time)
           THEN Returns("thrown") /\ UNCHANGED <<limit, slept>>
           ELSE IF Less(elapsed, timeout)
           THEN /\ limit' = SinceCall(elapsed) /\ slept' = 0
                /\ pc' = "arm" /\ UNCHANGED result
           ELSE Returns("timeout") /\ UNCHANGED <<limit, slept>>

(* TryWait of the event and of the condition.                              *)
TryWait ==
    /\ pc = "arm"
    /\ IF limit = Infinite THEN pc' = "endless" /\ UNCHANGED deadline
       ELSE pc' = "timed" /\ deadline' = Plus(now, limit)
    /\ UNCHANGED <<call, result, limit, world>>

(* time_t is signed: the upper half of the seconds is before 1970.         *)
Reached(t) == 2 * t.s >= Wrap \/ ~Less(now, t)

TimedOut ==
    /\ pc = "timed" /\ Reached(deadline)
    /\ pc' = "expired"
    /\ UNCHANGED <<call, wait, result, world>>

Expired ==
    /\ pc = "expired" /\ pc' = "look"
    /\ UNCHANGED <<call, wait, result, world>>

WakeUp ==
    /\ pc \in {"timed", "endless"}
    /\ pc' = "look"
    /\ UNCHANGED <<call, wait, result, world>>
-----------------------------------------------------------------------------
(* The world.                                                              *)
Arrive ==
    /\ ~message /\ message' = TRUE
    /\ UNCHANGED <<call, wait, pc, result, now, passed, slept, back>>

Tick ==
    /\ pc # "done"
    /\ passed < MaxTicks \/ (pc = "timed" /\ ~Reached(deadline))
    /\ now' = Plus(now, FromNanoSeconds(1))
    /\ passed' = passed + 1 /\ slept' = slept + 1
    /\ UNCHANGED <<call, wait, pc, result, message, back>>

SetBack ==
    /\ SetsBack /\ ~back /\ pc # "done" /\ now # Zero
    /\ now' = Minus(now, FromNanoSeconds(1)) /\ back' = TRUE
    /\ UNCHANGED <<call, wait, pc, result, message, passed, slept>>

Run == GetMessageFromQueue \/ Since \/ TryWait \/ TimedOut \/ Expired
Next == Run \/ WakeUp \/ Arrive \/ Tick \/ SetBack

Spec == Init /\ [][Next]_vars
FairSpec == Spec /\ WF_vars(Run) /\ SF_vars(Tick) /\ WF_vars(message /\ WakeUp)
-----------------------------------------------------------------------------
(* operator+= and -= compute what they would on plain numbers, as long as  *)
(* the seconds do not overflow, and < is the order of these numbers.       *)
ArithmeticExact ==
    \A t \in Times :
        /\ {Plus(now, t), Minus(t, now)} \subseteq Times
        /\ Nanos(Plus(now, t)) = (Nanos(now) + Nanos(t)) % (Wrap * NS)
        /\ Underflows(t, now) <=> Nanos(t) < Nanos(now)
        /\ ~Underflows(t, now) => Nanos(Minus(t, now)) = Nanos(t) - Nanos(now)
        /\ Less(now, t) <=> Nanos(now) < Nanos(t)

(* TCMTEvent.h: TryWait waits for the specified time, if the event is not  *)
(* set.                                                                    *)
WaitsItsTime == pc = "expired" => slept >= Nanos(limit)

(* What has passed and what is given to the wait are together the time of  *)
(* the caller: no wake-up makes the call longer.                           *)
MaximumTime ==
    pc \in {"arm", "timed"} /\ ~back => passed - slept + Nanos(limit) = Nanos(timeout)

(* WaitThreadMessage returns: a clock that is set back is no error.        *)
AlwaysReturns == result # "thrown"

(* A call with a timeout comes back.                                       *)
CallReturns == <>(pc = "done")
=============================================================================
