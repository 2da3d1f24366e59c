------------------------------ MODULE MCQueue -------------------------------
(***************************************************************************)
(* The message queue of a thread and the time its timed waits rest on.     *)
(*   queue: two producers, four messages of three ids, and an owner that   *)
(*          asks for anything or, as a synchronous send does, for one id;  *)
(*   wait:  one GetMessage with a timeout, on a clock that can be set back,*)
(*          with a second of three nanoseconds and sixteen values of the   *)
(*          seconds; calls begin at the end of a second, so that times     *)
(*          carry and borrow;                                              *)
(*   clock: five calls of a tc::Clock while four units of time pass.       *)
(* The parts share no state: a behaviour is of one of them, and the other  *)
(* ones stay as they were created.                                         *)
(***************************************************************************)
EXTENDS MessageQueue

CONSTANTS NS, Wrap, Timeouts, Starts, MaxTicks, SetsBack, MaxTime, MaxCalls, MaxBacks

MCMessageIds == {1, 3, 4}
MCFilters == {MCMessageIds, {3}}
MCTimeouts == {[s |-> 0, n |-> 0], [s |-> 0, n |-> 2], [s |-> 1, n |-> 1]}
MCStarts == {[s |-> 1, n |-> 0], [s |-> 1, n |-> 2]}

VARIABLES part, \* "queue", "wait" or "clock"
    now, start_time, timeout, waitPC, result, limit, deadline, message, passed, slept, back,
    systemNow, m_running, m_current_time, m_system_time, m_stop_start_time,
    m_frame_start_time, m_frame_end_time, m_simulation_time, m_simulation_offset_time,
    calls, backs, real, ran

waitVars == <<now, start_time, timeout, waitPC, result, limit, deadline, message,
              passed, slept, back>>
clockVars == <<systemNow, m_running, m_current_time, m_system_time, m_stop_start_time,
               m_frame_start_time, m_frame_end_time, m_simulation_time,
               m_simulation_offset_time, calls, backs, real, ran>>
allVars == <<part, vars, waitVars, clockVars>>

W == INSTANCE TimedWait WITH pc <- waitPC
K == INSTANCE Clock WITH now <- systemNow

ASSUME MCAssumption == W!TimeAssumption /\ W!TimedWaitAssumption

MCInit ==
    /\ part \in {"queue", "wait", "clock"}
    /\ Init /\ W!Init /\ K!Init
    /\ part # "wait" => timeout = W!Zero /\ now.n = 0

InQueue(A) == part = "queue" /\ A /\ UNCHANGED <<part, waitVars, clockVars>>

(* The call has returned; the bounds of the clock are reached. *)
Over ==
    /\ \/ part = "wait" /\ waitPC = "done" /\ message
       \/ part = "clock" /\ calls = MaxCalls /\ systemNow = MaxTime
    /\ UNCHANGED allVars

MCNext ==
    \/ InQueue(Next)
    \/ part = "wait" /\ W!Next /\ UNCHANGED <<part, vars, clockVars>>
    \/ part = "clock" /\ K!Next /\ UNCHANGED <<part, vars, waitVars>>
    \/ Over

(* The fairness of MessageQueue. *)
MCFairness ==
    /\ \A p \in Producers : WF_allVars(InQueue(SetNewMessageEvent(p)))
    /\ WF_allVars(InQueue(OwnerStep))

MCSpec == MCInit /\ [][MCNext]_allVars /\ MCFairness
-----------------------------------------------------------------------------
(* A TryWait that reports a timeout has waited for all of its time, as     *)
(* operator+= of Time computes it, whenever the clock was set back; what   *)
(* GetMessage has waited and what is left are together its timeout; the    *)
(* operators of Time agree with numbers of nanoseconds.                    *)
WaitsItsTime == W!WaitsItsTime /\ W!MaximumTime /\ (part = "wait" => W!ArithmeticExact)

(* The frames of a Clock follow each other without a gap, and its time     *)
(* never goes back, whatever is started, stopped or set in between; while  *)
(* nobody sets the clock of the system, frames end at the time the clock   *)
(* was running and its system time is real time.                           *)
FramesFollow == K!FramesFollow /\ K!FrameIsRunningTime /\ []K!SystemIsReal
=============================================================================
