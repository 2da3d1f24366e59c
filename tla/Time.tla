-------------------------------- MODULE Time --------------------------------
(***************************************************************************)
(* tc::Time: seconds and nanoseconds.  Seconds are unsigned numbers of the *)
(* machine, which wrap around; a second has NS nanoseconds.                *)
(***************************************************************************)
EXTENDS Integers

CONSTANTS NS,   \* ONE_SECOND_AS_NANO_SECONDS
          Wrap  \* the number of values of uint64_t

TimeAssumption == NS \in Nat \ {0, 1} /\ Wrap \in Nat \ {0, 1}

Times == [s : 0 .. Wrap - 1, n : 0 .. NS - 1]

(* ToNanoSeconds without its overflow: the time as a number.               *)
Nanos(t) == t.s * NS + t.n

FromNanoSeconds(x) == [s |-> x \div NS, n |-> x % NS]

Infinite == [s |-> Wrap - 1, n |-> 0]
Zero == [s |-> 0, n |-> 0]

(* operator+=                                                              *)
PlusLosesCarry(a, b) == [s |-> (a.s + b.s) % Wrap, n |-> (a.n + b.n) % NS]

Plus(a, b) ==
    IF a.n + b.n >= NS
    THEN [s |-> (a.s + b.s + 1) % Wrap, n |-> a.n + b.n - NS]
    ELSE [s |-> (a.s + b.s) % Wrap, n |-> a.n + b.n]

(* operator-=: nanoseconds first, then the seconds, unless they are too    *)
(* few; the sum on the right side of the comparison wraps as well.         *)
Borrow(a, b) == IF a.n < b.n THEN 1 ELSE 0
Underflows(a, b) == a.s < (b.s + Borrow(a, b)) % Wrap

Minus(a, b) ==
    [s |-> IF Underflows(a, b) THEN a.s ELSE (a.s - b.s - Borrow(a, b)) % Wrap,
     n |-> a.n + Borrow(a, b) * NS - b.n]

(* operator<                                                               *)
Less(a, b) == a.s < b.s \/ (a.s = b.s /\ a.n < b.n)
=============================================================================
