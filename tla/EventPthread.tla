---------------------------- MODULE EventPthread ----------------------------
(***************************************************************************)
(* The auto- or manual-reset event of the Thread module on POSIX           *)
(* (EventPthread over ConditionPthread) as a value and the operators that  *)
(* step it.  Every method of the class holds the mutex of the condition    *)
(* from its first to its last statement, except inside pthread_cond_wait:  *)
(* one operator is one such critical section, and a thread is in "waiting" *)
(* while it is inside pthread_cond_wait, in "woken" once it was unblocked  *)
(* and only has to take the mutex again.                                   *)
(*                                                                         *)
(* An operator that has several outcomes is the set of the possible next   *)
(* values of the event.                                                    *)
(***************************************************************************)

EventType(T) == [manual_reset : BOOLEAN, state : BOOLEAN,
                 waiting : SUBSET T, woken : SUBSET T]

NewEvent(manual_reset, initial_state) ==
    [manual_reset |-> manual_reset, state |-> initial_state,
     waiting |-> {}, woken |-> {}]

Unblock(e, S) == [e EXCEPT !.waiting = @ \ S, !.woken = @ \cup S]

(* pthread_cond_signal unblocks at least one of the blocked threads. *)
Signal(e) ==
    IF e.waiting = {} THEN {e}
    ELSE {Unblock(e, S) : S \in (SUBSET e.waiting) \ {{}}}

Broadcast(e) == {Unblock(e, e.waiting)}

(* Mutants of EventSet and EventWait, used by no specification. *)
EventSetWithoutState(e) == IF e.manual_reset THEN Broadcast(e) ELSE Signal(e)
EventSetWithoutSignal(e) == {[e EXCEPT !.state = TRUE]}

EventSet(e) ==
    LET raised == [e EXCEPT !.state = TRUE]
    IN  IF e.manual_reset THEN Broadcast(raised) ELSE Signal(raised)

EventReset(e) == [e EXCEPT !.state = FALSE]

(* An auto-reset event falls back to not set when a thread passes it. *)
Consume(e) == [e EXCEPT !.state = @ /\ e.manual_reset]

(* Wait and TryWait up to pthread_cond_wait: passed at once when set. *)
EventWait(e, t) ==
    IF e.state THEN Consume(e) ELSE [e EXCEPT !.waiting = @ \cup {t}]

(* Wait and TryWait from pthread_cond_wait on.  Wait does not look at the  *)
(* state again (an if, not a while); for TryWait, whose result is the      *)
(* state found here, the effect on the event is the same.                  *)
EventResume(e, t) == Consume([e EXCEPT !.woken = @ \ {t}])

(* pthread_cond_timedwait gives up; the state is left as it is. *)
EventTimeOut(e, t) == [e EXCEPT !.waiting = @ \ {t}]
=============================================================================
