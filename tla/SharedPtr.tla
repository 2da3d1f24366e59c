----------------------------- MODULE SharedPtr -----------------------------
(***************************************************************************)
(* tc::SharedPtr and tc::WeakPtr: threads that hold pointers to objects    *)
(* whose counters they change with interlocked operations.                 *)
(*                                                                         *)
(* A pointer variable belongs to one thread, which has one of each kind;   *)
(* two variables of one real thread behave like those of two threads here. *)
(* One step is one interlocked operation, or one read of a counter, with   *)
(* the thread-local work around it.  A variable that is given a new value  *)
(* has it from the moment its reference is counted, although the code      *)
(* stores it after the release of the old one.                             *)
(***************************************************************************)
EXTENDS Integers, FiniteSets

CONSTANTS
    Threads,
    Objects,
    Nil,
    UnguardedLocks \* may Lock be called on a weak pointer while nobody is
                   \* known to keep the object alive?

SharedPtrAssumption ==
    /\ IsFiniteSet(Threads)
    /\ Nil \notin Objects
    /\ UnguardedLocks \in BOOLEAN

VARIABLES
    strong,      \* what each thread's SharedPtr points to
    weak,        \* what each thread's WeakPtr points to
    count,       \* m_count
    weak_count,  \* m_weak_count
    object,      \* the objects pointed to
    counter,     \* the SharedPtrCountBase of each object
    pc,          \* what each thread is about to do
    old,         \* the object whose reference a thread is giving up
    keeper       \* whose SharedPtr keeps the object alive during a Lock

vars == <<strong, weak, count, weak_count, object, counter, pc, old, keeper>>

TypeOK ==
    /\ strong \in [Threads -> Objects \cup {Nil}]
    /\ weak \in [Threads -> Objects \cup {Nil}]
    /\ count \in [Objects -> Nat]
    /\ weak_count \in [Objects -> Nat]
    /\ object \in [Objects -> {"none", "alive", "deleted"}]
    /\ counter \in [Objects -> {"none", "alive", "destroyed"}]
    /\ pc \in [Threads -> {"idle", "release", "delete", "dropWeak", "destroy", "lock"}]
    /\ old \in [Threads -> Objects \cup {Nil}]
    /\ keeper \in [Threads -> Threads]

Init ==
    /\ strong = [t \in Threads |-> Nil]
    /\ weak = [t \in Threads |-> Nil]
    /\ count = [o \in Objects |-> 0]
    /\ weak_count = [o \in Objects |-> 0]
    /\ object = [o \in Objects |-> "none"]
    /\ counter = [o \in Objects |-> "none"]
    /\ pc = [t \in Threads |-> "idle"]
    /\ old = [t \in Threads |-> Nil]
    /\ keeper = [t \in Threads |-> t]
-----------------------------------------------------------------------------
Idle(t) == pc[t] = "idle"

(* The caller of Lock sees to it that the keeper's pointer stays. *)
MayGiveUp(t) == \A u \in Threads \ {t} : keeper[u] # t

Goto(t, label) == pc' = [pc EXCEPT ![t] = label]

Continue(t, label) ==
    /\ Goto(t, label)
    /\ old' = IF label = "idle" THEN [old EXCEPT ![t] = Nil] ELSE old

GiveUp(t, o, label) ==
    /\ old' = [old EXCEPT ![t] = o]
    /\ Goto(t, IF o = Nil THEN "idle" ELSE label)

(* SharedPtr of a plain pointer: object and counter are new. *)
Construct(t, o) ==
    /\ Idle(t)
    /\ strong[t] = Nil
    /\ object[o] = "none"
    /\ object' = [object EXCEPT ![o] = "alive"]
    /\ counter' = [counter EXCEPT ![o] = "alive"]
    /\ count' = [count EXCEPT ![o] = 1]
    /\ weak_count' = [weak_count EXCEPT ![o] = 1]
    /\ strong' = [strong EXCEPT ![t] = o]
    /\ UNCHANGED <<weak, pc, old, keeper>>

(* Copy constructor and assignment from the pointer of an idle thread. *)
Assign(t, u) ==
    /\ Idle(t) /\ Idle(u)
    /\ MayGiveUp(t)
    /\ strong[u] \notin {Nil, strong[t]}
    /\ count' = [count EXCEPT ![strong[u]] = @ + 1]
    /\ strong' = [strong EXCEPT ![t] = strong[u]]
    /\ GiveUp(t, strong[t], "release")
    /\ UNCHANGED <<weak, weak_count, object, counter, keeper>>

(* Destructor, Reset and the assignment of a null pointer. *)
Reset(t) ==
    /\ Idle(t)
    /\ MayGiveUp(t)
    /\ strong[t] # Nil
    /\ strong' = [strong EXCEPT ![t] = Nil]
    /\ GiveUp(t, strong[t], "release")
    /\ UNCHANGED <<weak, count, weak_count, object, counter, keeper>>

(* WeakPtr from the SharedPtr or the WeakPtr of an idle thread. *)
AssignWeak(t, u) ==
    /\ Idle(t) /\ Idle(u)
    /\ \E o \in {strong[u], weak[u]} \ {Nil} :
          /\ weak_count' = [weak_count EXCEPT ![o] = @ + 1]
          /\ weak' = [weak EXCEPT ![t] = o]
    /\ GiveUp(t, weak[t], "dropWeak")
    /\ UNCHANGED <<strong, count, object, counter, keeper>>

ResetWeak(t) ==
    /\ Idle(t)
    /\ weak[t] # Nil
    /\ weak' = [weak EXCEPT ![t] = Nil]
    /\ GiveUp(t, weak[t], "dropWeak")
    /\ UNCHANGED <<strong, count, weak_count, object, counter, keeper>>
-----------------------------------------------------------------------------
(* ReleaseReference and ReleaseWeakReference. *)

(* Mutants: an object is deleted one reference early; a reference is never *)
(* given back; the counter goes with its object.                           *)
ReleaseEarly(t) ==
    /\ pc[t] = "release"
    /\ count' = [count EXCEPT ![old[t]] = @ - 1]
    /\ Continue(t, IF count[old[t]] <= 2 THEN "delete" ELSE "idle")
    /\ UNCHANGED <<strong, weak, weak_count, object, counter, keeper>>

ReleaseNever(t) ==
    /\ pc[t] = "release"
    /\ Continue(t, "idle")
    /\ UNCHANGED <<strong, weak, count, weak_count, object, counter, keeper>>

Release(t) ==
    /\ pc[t] = "release"
    /\ count' = [count EXCEPT ![old[t]] = @ - 1]
    /\ Continue(t, IF count[old[t]] = 1 THEN "delete" ELSE "idle")
    /\ UNCHANGED <<strong, weak, weak_count, object, counter, keeper>>

DeletePtr(t) ==
    /\ pc[t] = "delete"
    /\ object' = [object EXCEPT ![old[t]] = "deleted"]
    /\ Continue(t, "dropWeak")
    /\ UNCHANGED <<strong, weak, count, weak_count, counter, keeper>>

ReleaseWeak(t) ==
    /\ pc[t] = "dropWeak"
    /\ weak_count' = [weak_count EXCEPT ![old[t]] = @ - 1]
    /\ Continue(t, IF weak_count[old[t]] = 1 THEN "destroy" ELSE "idle")
    /\ UNCHANGED <<strong, weak, count, object, counter, keeper>>

Destroy(t) ==
    /\ pc[t] = "destroy"
    /\ counter' = [counter EXCEPT ![old[t]] = "destroyed"]
    /\ Continue(t, "idle")
    /\ UNCHANGED <<strong, weak, count, weak_count, object, keeper>>
-----------------------------------------------------------------------------
(* WeakPtr::Lock: IsExpired, and if not, later, SharedPtr of this.  A Lock  *)
(* that finds the pointer expired returns a null pointer.                  *)

LockChecks(t, u) ==
    /\ Idle(t)
    /\ strong[t] = Nil
    /\ weak[t] # Nil
    /\ count[weak[t]] # 0
    /\ IF UnguardedLocks THEN u = t ELSE Idle(u) /\ strong[u] = weak[t]
    /\ Goto(t, "lock")
    /\ keeper' = [keeper EXCEPT ![t] = u]
    /\ UNCHANGED <<strong, weak, count, weak_count, object, counter, old>>

LockAdds(t) ==
    /\ pc[t] = "lock"
    /\ count' = [count EXCEPT ![weak[t]] = @ + 1]
    /\ strong' = [strong EXCEPT ![t] = weak[t]]
    /\ keeper' = [keeper EXCEPT ![t] = t]
    /\ Goto(t, "idle")
    /\ UNCHANGED <<weak, weak_count, object, counter, old>>

Step(t) == Release(t) \/ DeletePtr(t) \/ ReleaseWeak(t) \/ Destroy(t) \/ LockAdds(t)

Next ==
    \E t \in Threads :
        \/ Step(t)
        \/ Reset(t) \/ ResetWeak(t)
        \/ \E o \in Objects : Construct(t, o)
        \/ \E u \in Threads : Assign(t, u) \/ AssignWeak(t, u) \/ LockChecks(t, u)

Spec == Init /\ [][Next]_vars

(* Threads finish the operation they are in. *)
FairSpec == Spec /\ \A t \in Threads : WF_vars(Step(t))
-----------------------------------------------------------------------------
(* "This shared pointer avoids destruction of an object in use"            *)
(* (TCSharedPtr.h): what a SharedPtr points to has not been deleted.       *)
InUseIsAlive == \A t \in Threads : strong[t] # Nil => object[strong[t]] = "alive"

(* No counter is touched after it was destroyed: whoever will still change *)
(* or read it finds it, and only one thread deletes and destroys.          *)
Touches(t) ==
    {weak[t], strong[t]} \cup {old[t]}

CounterOutlives ==
    \A t \in Threads :
        /\ \A o \in Touches(t) \ {Nil} : counter[o] = "alive"
        /\ \A u \in Threads \ {t} :
              pc[t] \in {"delete", "destroy"} /\ pc[u] = pc[t] => old[t] # old[u]

(* Nothing leaks: an object is deleted and a counter destroyed at last,    *)
(* unless a pointer to it stays.                                           *)
Unreferenced(o) == \A t \in Threads : strong[t] # o /\ weak[t] # o

NothingLeaks ==
    \A o \in Objects :
        (object[o] = "alive" /\ Unreferenced(o))
            ~> (object[o] = "deleted" /\ counter[o] = "destroyed")
=============================================================================
