--------------------------- MODULE OperatorLemmas ---------------------------
(***************************************************************************)
(* What the operators do that several proofs rest on: RemoveAt of the      *)
(* community modules, the number of places of an element in a sequence,    *)
(* the least of some numbers, sets of which one member comes or goes, and  *)
(* the operators of EventPthread, for any set of threads.                  *)
(***************************************************************************)
EXTENDS EventPthread, Integers, Sequences, SequencesExt, SequenceTheorems,
        FiniteSetTheorems, FunctionTheorems, WellFoundedInduction, TLAPS

(* RemoveAt leaves out one element and keeps the order of the others.     *)
LEMMA RemoveAtParts ==
    ASSUME NEW S, NEW s \in Seq(S), NEW i \in 1 .. Len(s)
    PROVE  /\ RemoveAt(s, i) \in Seq(S)
           /\ Len(RemoveAt(s, i)) = Len(s) - 1
           /\ \A j \in 1 .. Len(s) - 1 :
                 RemoveAt(s, i)[j] = IF j < i THEN s[j] ELSE s[j + 1]
<1> DEFINE n == Len(s)
           a == SubSeq(s, 1, i - 1)
           b == SubSeq(s, i + 1, n)
<1>1. /\ a \in Seq(S)
      /\ Len(a) = i - 1
      /\ \A j \in 1 .. i - 1 : a[j] = s[j]
  OBVIOUS
<1>2. /\ b \in Seq(S)
      /\ Len(b) = n - i
      /\ \A j \in 1 .. n - i : b[j] = s[j + i]
  OBVIOUS
<1>3. RemoveAt(s, i) = a \o b
  BY DEF RemoveAt
<1>n. n \in Nat /\ i \in 1 .. n
  OBVIOUS
<1> HIDE DEF a, b, n
<1>4. a \o b \in Seq(S) /\ Len(a \o b) = n - 1
  <2>1. Len(a) + Len(b) = n - 1
    BY <1>1, <1>2, <1>n
  <2>2. a \o b \in Seq(S) /\ Len(a \o b) = Len(a) + Len(b)
    BY <1>1, <1>2, ConcatProperties, Zenon
  <2> QED
    BY <2>1, <2>2
<1>5. ASSUME NEW j \in 1 .. n - 1
      PROVE  (a \o b)[j] = IF j < i THEN s[j] ELSE s[j + 1]
  <2>1. CASE j < i
    <3>1. j \in 1 .. i - 1
      BY <1>n, <2>1
    <3> QED
      BY <1>1, <1>2, <1>n, <2>1, <3>1
  <2>2. CASE ~(j < i)
    <3>1. j - (i - 1) \in 1 .. n - i /\ j - (i - 1) + i = j + 1
      BY <1>n, <2>2
    <3>2. j \in 1 .. Len(a) + Len(b) /\ j > Len(a)
      BY <1>1, <1>2, <1>n, <2>2
    <3>3. (a \o b)[j] = b[j - Len(a)]
      BY <1>1, <1>2, <1>n, <3>2
    <3> QED
      BY <1>1, <1>2, <1>n, <2>2, <3>1, <3>3
  <2> QED
    BY <2>1, <2>2
<1> QED
  BY <1>3, <1>4, <1>5 DEF n
-----------------------------------------------------------------------------
(* The places of an element in a sequence. *)

Places(s, x) == {k \in DOMAIN s : s[k] = x}

LEMMA PlacesFinite ==
    ASSUME NEW S, NEW s \in Seq(S), NEW x
    PROVE  /\ Places(s, x) \subseteq 1 .. Len(s)
           /\ IsFiniteSet(Places(s, x))
           /\ Cardinality(Places(s, x)) \in Nat
<1>1. Places(s, x) \subseteq 1 .. Len(s)
  BY DEF Places
<1>2. IsFiniteSet(1 .. Len(s))
  <2>1. 1 \in Int /\ Len(s) \in Int
    OBVIOUS
  <2> QED
    BY <2>1, FS_Interval
<1>3. IsFiniteSet(Places(s, x))
  <2>1. Places(s, x) \in SUBSET (1 .. Len(s))
    BY <1>1
  <2> QED
    BY <1>2, <2>1, FS_Subset, Zenon
<1> QED
  BY <1>1, <1>3, FS_CardinalityType, Zenon

LEMMA PlacesAppend ==
    ASSUME NEW S, NEW s \in Seq(S), NEW x \in S, NEW y
    PROVE  Cardinality(Places(Append(s, x), y))
             = IF x = y THEN Cardinality(Places(s, y)) + 1 ELSE Cardinality(Places(s, y))
<1> DEFINE n == Len(s) + 1
<1>1. IsFiniteSet(Places(s, y)) /\ n \notin Places(s, y)
  <2>1. Places(s, y) \subseteq 1 .. Len(s) /\ IsFiniteSet(Places(s, y))
    BY PlacesFinite, Zenon
  <2> QED
    BY <2>1
<1>2. CASE x = y
  <2>1. Places(Append(s, x), y) = Places(s, y) \cup {n}
    BY <1>2 DEF Places
  <2>2. Cardinality(Places(s, y) \cup {n}) = Cardinality(Places(s, y)) + 1
    BY <1>1, FS_AddElement, Zenon
  <2> QED
    BY <1>2, <2>1, <2>2
<1>3. CASE x # y
  <2>1. Places(Append(s, x), y) = Places(s, y)
    BY <1>3 DEF Places
  <2> QED
    BY <1>3, <2>1
<1> QED
  BY <1>2, <1>3

LEMMA PlacesRemoveAt ==
    ASSUME NEW S, NEW s \in Seq(S), NEW i \in 1 .. Len(s), NEW x
    PROVE  Cardinality(Places(RemoveAt(s, i), x))
             = IF s[i] = x THEN Cardinality(Places(s, x)) - 1 ELSE Cardinality(Places(s, x))
<1> DEFINE r == RemoveAt(s, i)
           n == Len(s)
           A == Places(r, x)
           B == Places(s, x) \ {i}
           old(k) == IF k < i THEN k ELSE k + 1
           f == [k \in A |-> old(k)]
<1>1. /\ r \in Seq(S) /\ Len(r) = n - 1
      /\ \A j \in 1 .. n - 1 : r[j] = IF j < i THEN s[j] ELSE s[j + 1]
  BY RemoveAtParts, Zenon
<1>2. n \in Nat /\ i \in 1 .. n /\ DOMAIN s = 1 .. n
  OBVIOUS
<1>3. DOMAIN r = 1 .. n - 1
  BY <1>1, <1>2
<1> HIDE DEF r, n
<1>4. ASSUME NEW k \in 1 .. n - 1
      PROVE  /\ old(k) \in (1 .. n) \ {i}
             /\ r[k] = s[old(k)]
  BY <1>1, <1>2
<1>5. ASSUME NEW m \in (1 .. n) \ {i}
      PROVE  \E k \in 1 .. n - 1 : old(k) = m
  <2>1. CASE m < i
    <3>1. m \in 1 .. n - 1 /\ old(m) = m
      BY <1>2, <2>1
    <3> QED
      BY <3>1
  <2>2. CASE ~(m < i)
    <3>1. m - 1 \in 1 .. n - 1 /\ old(m - 1) = m
      BY <1>2, <2>2
    <3> QED
      BY <3>1
  <2> QED
    BY <2>1, <2>2
<1>6. A \subseteq 1 .. n - 1 /\ B \subseteq (1 .. n) \ {i}
  BY <1>2, <1>3 DEF Places
<1>7. \A k \in A, m \in A : old(k) = old(m) => k = m
  BY <1>2, <1>6
<1>8. \A k \in A : old(k) \in B
  <2> TAKE k \in A
  <2>1. k \in 1 .. n - 1 /\ r[k] = x
    BY <1>3 DEF Places
  <2>2. old(k) \in (1 .. n) \ {i} /\ s[old(k)] = x
    BY <1>4, <2>1, Zenon
  <2> HIDE DEF old
  <2> QED
    BY <1>2, <2>2 DEF Places
<1>9. \A m \in B : \E k \in A : old(k) = m
  <2> TAKE m \in B
  <2>1. m \in (1 .. n) \ {i} /\ s[m] = x
    BY <1>2 DEF Places
  <2>2. PICK k \in 1 .. n - 1 : old(k) = m
    BY <1>5, <2>1, Zenon
  <2>3. r[k] = x
    BY <1>4, <2>1, <2>2, Zenon
  <2>4. k \in A
    BY <1>3, <2>3 DEF Places
  <2> QED
    BY <2>2, <2>4
<1>10. ExistsBijection(A, B)
  <2> HIDE DEF A, B, old
  <2>1. f \in [A -> B]
    BY <1>8
  <2>2. f \in Injection(A, B)
    BY <2>1, <1>7 DEF Injection, IsInjective
  <2>3. f \in Surjection(A, B)
    BY <2>1, <1>9 DEF Surjection
  <2> QED
    BY <2>2, <2>3 DEF ExistsBijection, Bijection
<1>11. IsFiniteSet(Places(s, x)) /\ Cardinality(Places(s, x)) \in Nat
  BY PlacesFinite, Zenon
<1>12. /\ IsFiniteSet(B)
       /\ Cardinality(B) = IF i \in Places(s, x) THEN Cardinality(Places(s, x)) - 1
                                                 ELSE Cardinality(Places(s, x))
  <2>1. IsFiniteSet(Places(s, x) \ {i})
    BY <1>11, FS_RemoveElement, Zenon
  <2>2. Cardinality(Places(s, x) \ {i})
          = IF i \in Places(s, x) THEN Cardinality(Places(s, x)) - 1
                                  ELSE Cardinality(Places(s, x))
    BY <1>11, FS_RemoveElement, Zenon
  <2> QED
    BY <2>1, <2>2
<1>13. IsFiniteSet(A) /\ Cardinality(A) = Cardinality(B)
  <2> HIDE DEF A, B, f
  <2>1. ExistsBijection(B, A)
    BY <1>10, Fun_ExistsBijSymmetric, Zenon
  <2> QED
    BY <1>12, <2>1, FS_Bijection, Zenon
<1>14. i \in Places(s, x) <=> s[i] = x
  BY <1>2 DEF Places
<1> QED
  BY <1>12, <1>13, <1>14 DEF r

(* Min of a set of numbers is its smallest. *)
LEMMA MinOfNaturals ==
    ASSUME NEW I \in SUBSET Nat, I # {}
    PROVE  Min(I) \in I /\ \A y \in I : Min(I) <= y
<1>1. PICK x \in I : \A y \in I : ~ (<<y, x>> \in OpToRel(<, Nat))
  BY NatLessThanWellFounded, WFMin, Zenon
<1>2. \A y \in I : x <= y
  <2> TAKE y \in I
  <2>1. ~(y < x)
    BY <1>1 DEF OpToRel
  <2> QED
    BY <2>1
<1> QED
  BY <1>2 DEF Min

(* The first place of an element is one of its places. *)
LEMMA FirstPlace ==
    ASSUME NEW S, NEW s \in Seq(S), NEW x, x \in Range(s)
    PROVE  /\ SelectInSeq(s, LAMBDA y : y = x) \in 1 .. Len(s)
           /\ s[SelectInSeq(s, LAMBDA y : y = x)] = x
<1> DEFINE I == {k \in 1 .. Len(s) : s[k] = x}
<1>1. I \in SUBSET Nat /\ I # {}
  BY DEF Range
<1>2. SelectInSeq(s, LAMBDA y : y = x) = Min(I)
  BY <1>1 DEF SelectInSeq
<1>3. Min(I) \in I
  <2> HIDE DEF I
  <2> QED
    BY <1>1, MinOfNaturals, Zenon
<1> QED
  BY <1>2, <1>3
-----------------------------------------------------------------------------
(* Sets of which one member comes or goes. *)

One(b) == IF b THEN 1 ELSE 0

LEMMA OneMemberChanges ==
    ASSUME NEW T, IsFiniteSet(T), NEW A \in SUBSET T, NEW B \in SUBSET T, NEW t \in T,
           \A u \in T : u # t => (u \in A <=> u \in B)
    PROVE  /\ Cardinality(A) \in Nat /\ Cardinality(B) \in Nat
           /\ Cardinality(B) = Cardinality(A) + One(t \in B) - One(t \in A)
<1> DEFINE C == A \ {t}
<1>1. IsFiniteSet(A) /\ IsFiniteSet(C)
  <2>1. C \in SUBSET T
    OBVIOUS
  <2> QED
    BY <2>1, FS_Subset, Zenon
<1>2. Cardinality(A) \in Nat /\ Cardinality(C) \in Nat
  BY <1>1, FS_CardinalityType, Zenon
<1>3. Cardinality(C \cup {t}) = Cardinality(C) + 1 /\ IsFiniteSet(C \cup {t})
  <2>1. t \notin C
    OBVIOUS
  <2> HIDE DEF C
  <2> QED
    BY <1>1, <2>1, FS_AddElement, Zenon
<1>4. A = (IF t \in A THEN C \cup {t} ELSE C) /\ B = (IF t \in B THEN C \cup {t} ELSE C)
  OBVIOUS
<1>5. Cardinality(A) = Cardinality(C) + One(t \in A)
  <2> HIDE DEF C
  <2> QED
    BY <1>2, <1>3, <1>4 DEF One
<1>6. Cardinality(B) = Cardinality(C) + One(t \in B)
  <2> HIDE DEF C
  <2> QED
    BY <1>2, <1>3, <1>4 DEF One
<1>7. One(t \in A) \in 0 .. 1 /\ One(t \in B) \in 0 .. 1
  BY DEF One
<1> QED
  BY <1>2, <1>5, <1>6, <1>7

LEMMA MemberCounts ==
    ASSUME NEW T, IsFiniteSet(T), NEW A \in SUBSET T
    PROVE  /\ Cardinality(A) \in Nat
           /\ \A t \in A : Cardinality(A) >= 1
<1>1. IsFiniteSet(A)
  BY FS_Subset, Zenon
<1> QED
  BY <1>1, FS_CardinalityType, FS_EmptySet
-----------------------------------------------------------------------------
(* The operators of EventPthread. *)

LEMMA EventSetParts ==
    ASSUME NEW T, NEW e \in EventType(T), NEW f \in EventSet(e)
    PROVE  /\ f \in EventType(T)
           /\ f.state
           /\ f.manual_reset = e.manual_reset
           /\ f.waiting \cup f.woken = e.waiting \cup e.woken
           /\ e.waiting \cap e.woken = {} => f.waiting \cap f.woken = {}
           /\ f.waiting # {} => ~f.manual_reset /\ f.woken # {}
<1> DEFINE raised == [e EXCEPT !.state = TRUE]
<1>1. /\ raised \in EventType(T)
      /\ raised.state
      /\ raised.manual_reset = e.manual_reset
      /\ raised.waiting = e.waiting
      /\ raised.woken = e.woken
  BY DEF EventType
<1>2. CASE e.manual_reset
  <2>1. f = Unblock(raised, raised.waiting)
    BY <1>2 DEF EventSet, Broadcast
  <2> QED
    BY <1>1, <1>2, <2>1 DEF EventType, Unblock
<1>3. CASE ~e.manual_reset /\ e.waiting = {}
  <2>1. f = raised
    BY <1>1, <1>3 DEF EventSet, Signal
  <2> QED
    BY <1>1, <1>3, <2>1
<1>4. CASE ~e.manual_reset /\ e.waiting # {}
  <2>1. PICK S \in (SUBSET raised.waiting) \ {{}} : f = Unblock(raised, S)
    BY <1>1, <1>4 DEF EventSet, Signal
  <2>2. S \subseteq raised.waiting /\ S # {}
    OBVIOUS
  <2>3. /\ f.waiting = raised.waiting \ S
        /\ f.woken = raised.woken \cup S
        /\ f.state
        /\ f.manual_reset = raised.manual_reset
        /\ f \in EventType(T)
    BY <1>1, <2>1, <2>2 DEF EventType, Unblock
  <2> QED
    BY <1>1, <1>4, <2>2, <2>3
<1> QED
  BY <1>2, <1>3, <1>4 DEF EventType

LEMMA EventWaitParts ==
    ASSUME NEW T, NEW e \in EventType(T), NEW t \in T
    PROVE  /\ EventWait(e, t) \in EventType(T)
           /\ EventWait(e, t).manual_reset = e.manual_reset
           /\ EventWait(e, t).woken = e.woken
           /\ e.state => /\ EventWait(e, t).waiting = e.waiting
                         /\ EventWait(e, t).state = e.manual_reset
           /\ ~e.state => /\ EventWait(e, t).waiting = e.waiting \cup {t}
                          /\ ~EventWait(e, t).state
BY DEF EventType, EventWait, Consume

LEMMA EventResumeParts ==
    ASSUME NEW T, NEW e \in EventType(T), NEW t \in T
    PROVE  /\ EventResume(e, t) \in EventType(T)
           /\ EventResume(e, t).manual_reset = e.manual_reset
           /\ EventResume(e, t).waiting = e.waiting
           /\ EventResume(e, t).woken = e.woken \ {t}
           /\ EventResume(e, t).state = (e.state /\ e.manual_reset)
BY DEF EventType, EventResume, Consume

LEMMA EventTimeOutParts ==
    ASSUME NEW T, NEW e \in EventType(T), NEW t \in T
    PROVE  /\ EventTimeOut(e, t) \in EventType(T)
           /\ EventTimeOut(e, t).manual_reset = e.manual_reset
           /\ EventTimeOut(e, t).state = e.state
           /\ EventTimeOut(e, t).waiting = e.waiting \ {t}
           /\ EventTimeOut(e, t).woken = e.woken
BY DEF EventType, EventTimeOut

LEMMA UnblockParts ==
    ASSUME NEW T, NEW e \in EventType(T), NEW t \in T
    PROVE  /\ Unblock(e, {t}) \in EventType(T)
           /\ Unblock(e, {t}).manual_reset = e.manual_reset
           /\ Unblock(e, {t}).state = e.state
           /\ Unblock(e, {t}).waiting = e.waiting \ {t}
           /\ Unblock(e, {t}).woken = e.woken \cup {t}
BY DEF EventType, Unblock

LEMMA ConsumeParts ==
    ASSUME NEW T, NEW e \in EventType(T)
    PROVE  /\ Consume(e) \in EventType(T)
           /\ Consume(e).manual_reset = e.manual_reset
           /\ Consume(e).state = (e.state /\ e.manual_reset)
           /\ Consume(e).waiting = e.waiting
           /\ Consume(e).woken = e.woken
BY DEF EventType, Consume

LEMMA EventResetParts ==
    ASSUME NEW T, NEW e \in EventType(T)
    PROVE  /\ EventReset(e) \in EventType(T)
           /\ EventReset(e).manual_reset = e.manual_reset
           /\ ~EventReset(e).state
           /\ EventReset(e).waiting = e.waiting
           /\ EventReset(e).woken = e.woken
BY DEF EventType, EventReset
=============================================================================
