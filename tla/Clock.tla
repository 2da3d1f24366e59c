------------------------------- MODULE Clock --------------------------------
(***************************************************************************)
(* tc::Clock: system time that always goes on, simulation time that stops  *)
(* while the clock is stopped, both taken from the clock of the system in  *)
(* steps, by whoever asks.                                                 *)
(***************************************************************************)
EXTENDS Integers

CONSTANTS MaxTime, MaxCalls, \* bounds
          MaxBacks           \* how often the clock of the system is set back

VARIABLES
    now,          \* the clock of the system
    m_running, m_current_time, m_system_time, m_stop_start_time,
    m_frame_start_time, m_frame_end_time, m_simulation_time, m_simulation_offset_time,
    calls, backs,     \* history: calls, how often the clock was set back,
    real, ran         \*   time since Reset, and while running
vars == <<now, m_running, m_current_time, m_system_time, m_stop_start_time, m_frame_start_time,
          m_frame_end_time, m_simulation_time, m_simulation_offset_time, calls, backs, real, ran>>

frame == <<m_frame_start_time, m_frame_end_time, m_simulation_time>>
running == <<m_running, m_stop_start_time, m_simulation_offset_time>>

TypeOK ==
    /\ m_running \in BOOLEAN
    /\ {now, m_current_time, m_system_time, m_stop_start_time, m_frame_start_time,
        m_frame_end_time, m_simulation_time, m_simulation_offset_time, real, ran} \subseteq Nat
    /\ calls \in 0 .. MaxCalls /\ backs \in 0 .. MaxBacks

Init ==
    /\ now = 1 /\ m_running = FALSE /\ m_current_time = now
    /\ m_system_time = 0 /\ m_stop_start_time = 0
    /\ m_frame_start_time = 0 /\ m_frame_end_time = 0
    /\ m_simulation_time = 0 /\ m_simulation_offset_time = 0
    /\ calls = 0 /\ backs = 0 /\ real = 0 /\ ran = 0

Reset ==
    /\ calls < MaxCalls /\ calls' = calls + 1
    /\ m_running' = FALSE /\ m_current_time' = now
    /\ m_system_time' = 0 /\ m_stop_start_time' = 0
    /\ m_frame_start_time' = 0 /\ m_frame_end_time' = 0
    /\ m_simulation_time' = 0 /\ m_simulation_offset_time' = 0
    /\ real' = 0 /\ ran' = 0
    /\ UNCHANGED <<now, backs>>
-----------------------------------------------------------------------------
TakesLast == m_current_time' = now

(* A clock that runs backwards counts as well.                             *)
Difference == now - m_current_time
Elapsed == IF now < m_current_time THEN m_current_time - now ELSE now - m_current_time

Update ==
    /\ calls < MaxCalls /\ calls' = calls + 1
    /\ TakesLast
    /\ m_system_time' = m_system_time + Elapsed
    /\ UNCHANGED <<now, backs, real, ran>>

Pause == m_simulation_offset_time + (m_system_time' - m_stop_start_time)

Start ==
    /\ ~m_running /\ Update
    /\ m_running' = TRUE /\ m_simulation_offset_time' = Pause
    /\ UNCHANGED <<frame, m_stop_start_time>>

Stop ==
    /\ m_running /\ Update
    /\ m_running' = FALSE /\ m_stop_start_time' = m_system_time'
    /\ UNCHANGED <<frame, m_simulation_offset_time>>

GetSystem == Update /\ UNCHANGED <<frame, running>>

BeginFrame ==
    /\ Update
    /\ IF m_running
       THEN /\ m_frame_start_time' = m_frame_end_time
            /\ m_frame_end_time' = m_system_time' - m_simulation_offset_time
            /\ m_simulation_time' = m_frame_start_time'
       ELSE UNCHANGED frame
    /\ UNCHANGED running

Tick ==
    /\ now < MaxTime /\ now' = now + 1
    /\ real' = real + 1 /\ ran' = ran + (IF m_running THEN 1 ELSE 0)
    /\ UNCHANGED <<m_current_time, m_system_time, frame, running, calls, backs>>

SetBack ==
    /\ backs < MaxBacks /\ backs' = backs + 1
    /\ now > 0 /\ now' = now - 1
    /\ UNCHANGED <<m_current_time, m_system_time, frame, running, calls, real, ran>>

Next == Reset \/ Start \/ Stop \/ GetSystem \/ BeginFrame \/ Tick \/ SetBack

Spec == Init /\ [][Next]_vars
-----------------------------------------------------------------------------
(* TCClock.h: the system time is real time: whatever was called in between *)
(* it is what has passed, up to the last reading of the clock, as long as  *)
(* nobody sets the clock of the system.                                    *)
SystemIsReal == backs = 0 => m_system_time + (now - m_current_time) = real

(* It is real time also when the clock of the system was set: no more than *)
(* what has passed.                                                        *)
NeverAhead == m_system_time <= real

(* The end of a frame is the time the clock was running before it, however *)
(* often it was stopped and started.                                       *)
FrameIsRunningTime ==
    [][BeginFrame /\ m_running /\ backs = 0 => m_frame_end_time' = ran]_vars

(* Frames follow each other without a gap, and simulation time never goes  *)
(* back but by a Reset.                                                    *)
FramesFollow ==
    [][Reset \/ (/\ m_simulation_time <= m_simulation_time'
                 /\ m_frame_end_time <= m_frame_end_time'
                 /\ frame' # frame => m_frame_start_time' = m_frame_end_time)]_vars
=============================================================================
