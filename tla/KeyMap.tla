------------------------------- MODULE KeyMap -------------------------------
(***************************************************************************)
(* What a table of keys promises: a function from the keys that were added *)
(* and not removed since to the value each was given last.                 *)
(***************************************************************************)
EXTENDS Integers

CONSTANTS Keys, Values

VARIABLE map

Init == map = [k \in {} |-> k]

Put(k, v) == map' = [x \in DOMAIN map \cup {k} |-> IF x = k THEN v ELSE map[x]]

Remove(k) == map' = [x \in DOMAIN map \ {k} |-> map[x]]

Clear == map' = [k \in {} |-> k]

Next ==
    \/ \E k \in Keys : Remove(k) \/ \E v \in Values : Put(k, v)
    \/ Clear

Spec == Init /\ [][Next]_map
=============================================================================
