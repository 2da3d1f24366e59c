---------------------------- MODULE Basic_proofs ----------------------------
(***************************************************************************)
(* Proofs about the parts of the basic library.                            *)
(*   table:    HashTable, for any keys, values, hash function and number   *)
(*             of lists; they are about the lists of one table, so that    *)
(*             they hold of the table before and after a step;             *)
(*   settings: Settings, for any sections, keys and hash functions;        *)
(*   memory, string: MemoryStreams, for any streams, clones and bytes;     *)
(*   file, gz, bz2:  FileStreams, for any streams of files of any size;    *)
(*   copy:     FileCopy, for any size of the buffer and of the file, on a  *)
(*             system whose write takes all it gets (write() of a regular  *)
(*             file);                                                      *)
(*   unit:     UnitTest, for any tests; what is counted, for any tree of   *)
(*             suites (IsTree).                                            *)
(***************************************************************************)
EXTENDS MCBasic, OperatorLemmas

(* In a list no key is twice. *)
Unique(list) ==
    \A i, j \in 1 .. Len(list) : list[i].key = list[j].key => i = j

(* Each key is in the list of its hash value, once. *)
WellPlaced(data, size) ==
    /\ size \in Nat \ {0}
    /\ data \in [0 .. size - 1 -> Seq(Element)]
    /\ \A p \in 0 .. size - 1 :
          /\ \A i \in 1 .. Len(data[p]) : GetTableEntryPosition(data[p][i].key, size) = p
          /\ Unique(data[p])

(* Stored, InList and StoredValue of a table. *)
HasKey(list, k) == \E i \in 1 .. Len(list) : list[i].key = k
KeysIn(data, size) == {k \in Keys : \E p \in 0 .. size - 1 : HasKey(data[p], k)}
ValueIn(data, size, k) ==
    LET p == CHOOSE p \in 0 .. size - 1 : HasKey(data[p], k)
        i == CHOOSE i \in 1 .. Len(data[p]) : data[p][i].key = k
    IN  data[p][i].value
MapIn(data, size) == [k \in KeysIn(data, size) |-> ValueIn(data, size, k)]
-----------------------------------------------------------------------------
LEMMA PositionType ==
    ASSUME NEW k \in Keys, NEW size \in Nat \ {0}
    PROVE  GetTableEntryPosition(k, size) \in 0 .. size - 1
<1>1. Hash[k] \in Nat
  BY HashAssumption
<1> QED
  BY <1>1 DEF GetTableEntryPosition

(* A key is to be found in one list and at one place. *)
LEMMA WhereAKeyIs ==
    ASSUME NEW data, NEW size, WellPlaced(data, size), NEW k \in Keys
    PROVE  LET list == data[GetTableEntryPosition(k, size)] IN
           /\ list \in Seq(Element)
           /\ Unique(list)
           /\ k \in KeysIn(data, size) <=> HasKey(list, k)
           /\ \A i \in 1 .. Len(list) :
                 list[i].key = k => ValueIn(data, size, k) = list[i].value
<1> DEFINE q == GetTableEntryPosition(k, size)
           list == data[q]
<1>1. q \in 0 .. size - 1
  BY PositionType DEF WellPlaced
<1>2. list \in Seq(Element) /\ Unique(list)
  BY <1>1 DEF WellPlaced
<1>3. ASSUME NEW p \in 0 .. size - 1, HasKey(data[p], k) PROVE p = q
  BY <1>3 DEF WellPlaced, HasKey
<1>4. k \in KeysIn(data, size) <=> HasKey(list, k)
  BY <1>1, <1>3 DEF KeysIn
<1>5. ASSUME NEW i \in 1 .. Len(list), list[i].key = k
      PROVE  ValueIn(data, size, k) = list[i].value
  <2>1. HasKey(list, k)
    BY <1>5 DEF HasKey
  <2>2. (CHOOSE p \in 0 .. size - 1 : HasKey(data[p], k)) = q
    BY <1>1, <1>3, <2>1
  <2>3. (CHOOSE j \in 1 .. Len(list) : list[j].key = k) = i
    BY <1>2, <1>5 DEF Unique
  <2> QED
    BY <2>2, <2>3 DEF ValueIn
<1> QED
  BY <1>2, <1>4, <1>5

(* GetElementPosition finds the place of a key, or 0. *)
LEMMA ElementPosition ==
    ASSUME NEW list \in Seq(Element), Unique(list), NEW k
    PROVE  /\ HasKey(list, k) => /\ GetElementPosition(list, k) \in 1 .. Len(list)
                                 /\ list[GetElementPosition(list, k)].key = k
           /\ ~HasKey(list, k) => GetElementPosition(list, k) = 0
<1>1. CASE HasKey(list, k)
  <2>1. PICK i \in 1 .. Len(list) : list[i].key = k
    BY <1>1 DEF HasKey
  <2>2. Positions(list, k) = {i}
    BY <2>1 DEF Positions, Unique
  <2>3. (CHOOSE x \in {i} : \A j \in {i} : x <= j) = i
    OBVIOUS
  <2>4. GetElementPosition(list, k) = i
    BY <2>2, <2>3 DEF GetElementPosition
  <2> QED
    BY <1>1, <2>1, <2>4
<1>2. CASE ~HasKey(list, k)
  BY <1>2 DEF HasKey, Positions, GetElementPosition
<1> QED
  BY <1>1, <1>2
-----------------------------------------------------------------------------
(* What an operation does to the list of its key k: the other elements     *)
(* stay, and k is there with the value v or it is gone.                    *)
OthersStay(old, new, k) ==
    /\ \A i \in 1 .. Len(new) :
          new[i].key # k => \E j \in 1 .. Len(old) : old[j] = new[i]
    /\ \A j \in 1 .. Len(old) :
          old[j].key # k => \E i \in 1 .. Len(new) : new[i] = old[j]

PutIn(list, k, v) ==
    LET p == GetElementPosition(list, k)
        elem == [key |-> k, value |-> v]
    IN  IF p = 0 THEN Append(list, elem) ELSE [list EXCEPT ![p] = elem]

RemovedFrom(list, k) ==
    LET p == GetElementPosition(list, k)
    IN  IF p = 0 THEN list ELSE RemoveAt(list, p)

LEMMA PutParts ==
    ASSUME NEW list \in Seq(Element), Unique(list), NEW k \in Keys, NEW v \in Values
    PROVE  LET new == PutIn(list, k, v) IN
           /\ new \in Seq(Element)
           /\ Unique(new)
           /\ HasKey(new, k)
           /\ \A i \in 1 .. Len(new) : new[i].key = k => new[i].value = v
           /\ OthersStay(list, new, k)
<1> DEFINE n == Len(list)
           p == GetElementPosition(list, k)
           elem == [key |-> k, value |-> v]
           new == PutIn(list, k, v)
<1>0. n \in Nat /\ elem \in Element /\ elem.key = k /\ elem.value = v
  BY DEF Element
<1>1. CASE HasKey(list, k)
  <2>1. p \in 1 .. n /\ list[p].key = k
    BY <1>1, ElementPosition
  <2>2. new = [list EXCEPT ![p] = elem]
    BY <2>1 DEF PutIn
  <2>3. /\ new \in Seq(Element) /\ Len(new) = n
        /\ \A i \in 1 .. n : new[i] = IF i = p THEN elem ELSE list[i]
    BY <1>0, <2>1, <2>2
  <2> HIDE DEF n, p, elem, new
  <2>4. \A i \in 1 .. n : new[i].key = list[i].key
    BY <1>0, <2>1, <2>3
  <2>5. Unique(new)
    BY <2>3, <2>4 DEF Unique, n
  <2>6. HasKey(new, k)
    BY <2>1, <2>3, <2>4 DEF HasKey
  <2>7. \A i \in 1 .. n : new[i].key = k => new[i].value = v
    BY <1>0, <2>1, <2>3, <2>4 DEF Unique, n
  <2>8. OthersStay(list, new, k)
    BY <2>1, <2>3, <2>4 DEF OthersStay, n
  <2> QED
    BY <2>3, <2>5, <2>6, <2>7, <2>8 DEF new
<1>2. CASE ~HasKey(list, k)
  <2>1. new = Append(list, elem)
    BY <1>2, ElementPosition DEF PutIn
  <2>2. /\ new \in Seq(Element) /\ Len(new) = n + 1
        /\ \A i \in 1 .. n : new[i] = list[i]
        /\ new[n + 1] = elem
    BY <1>0, <2>1
  <2> HIDE DEF n, elem, new
  <2>3. \A i \in 1 .. n : list[i].key # k
    BY <1>2 DEF HasKey, n
  <2>4. \A i \in 1 .. n + 1 : i \in 1 .. n \/ i = n + 1
    BY <1>0
  <2>5. Unique(new)
    BY <1>0, <2>2, <2>3, <2>4 DEF Unique, n
  <2>6. HasKey(new, k)
    BY <1>0, <2>2 DEF HasKey
  <2>7. \A i \in 1 .. n + 1 : new[i].key = k => new[i].value = v
    BY <1>0, <2>2, <2>3, <2>4
  <2>8. OthersStay(list, new, k)
    <3>1. \A i \in 1 .. n : i \in 1 .. n + 1
      BY <1>0
    <3> QED
      BY <1>0, <2>2, <2>3, <2>4, <3>1 DEF OthersStay, n
  <2> QED
    BY <2>2, <2>5, <2>6, <2>7, <2>8 DEF new
<1> QED
  BY <1>1, <1>2

LEMMA RemovedParts ==
    ASSUME NEW list \in Seq(Element), Unique(list), NEW k \in Keys
    PROVE  LET new == RemovedFrom(list, k) IN
           /\ new \in Seq(Element)
           /\ Unique(new)
           /\ ~HasKey(new, k)
           /\ OthersStay(list, new, k)
<1> DEFINE n == Len(list)
           p == GetElementPosition(list, k)
           new == RemovedFrom(list, k)
<1>0. n \in Nat
  OBVIOUS
<1>1. CASE HasKey(list, k)
  <2>1. p \in 1 .. n /\ list[p].key = k
    BY <1>1, ElementPosition
  <2>2. new = RemoveAt(list, p)
    BY <2>1 DEF RemovedFrom
  <2>3. /\ new \in Seq(Element) /\ Len(new) = n - 1
        /\ \A i \in 1 .. n - 1 : new[i] = IF i < p THEN list[i] ELSE list[i + 1]
    BY <2>1, <2>2, RemoveAtParts
  <2> HIDE DEF n, p, new
  <2>4. \A i \in 1 .. n - 1 : i \in 1 .. n /\ i + 1 \in 1 .. n /\ i # i + 1
    BY <1>0
  <2>5. Unique(new)
    <3> SUFFICES ASSUME NEW i \in 1 .. n - 1, NEW j \in 1 .. n - 1, new[i].key = new[j].key
                 PROVE  i = j
      BY <2>3 DEF Unique
    <3> DEFINE a == IF i < p THEN i ELSE i + 1
               b == IF j < p THEN j ELSE j + 1
    <3>1. a \in 1 .. n /\ b \in 1 .. n /\ new[i] = list[a] /\ new[j] = list[b]
      BY <2>3, <2>4
    <3>2. a = b
      BY <3>1 DEF Unique, n
    <3> QED
      BY <1>0, <2>1, <3>2
  <2>6. \A i \in 1 .. n : list[i].key = k => i = p
    BY <2>1 DEF Unique, n
  <2>7. \A i \in 1 .. n - 1 :
           \E j \in 1 .. n : j # p /\ new[i] = list[j]
    <3> SUFFICES ASSUME NEW i \in 1 .. n - 1
                 PROVE  \E j \in 1 .. n : j # p /\ new[i] = list[j]
      OBVIOUS
    <3>1. CASE i < p
      BY <2>3, <2>4, <3>1
    <3>2. CASE ~(i < p)
      <4>1. i + 1 # p
        BY <1>0, <2>1, <3>2
      <4> QED
        BY <2>3, <2>4, <3>2, <4>1
    <3> QED
      BY <3>1, <3>2
  <2>8. ~HasKey(new, k)
    BY <2>3, <2>6, <2>7 DEF HasKey
  <2>9. ASSUME NEW j \in 1 .. n, list[j].key # k PROVE \E i \in 1 .. n - 1 : new[i] = list[j]
    <3>1. CASE j < p
      <4>1. j \in 1 .. n - 1
        BY <1>0, <2>1, <3>1
      <4> QED
        BY <2>3, <3>1, <4>1
    <3>2. CASE j > p
      <4>1. j - 1 \in 1 .. n - 1 /\ ~(j - 1 < p) /\ j - 1 + 1 = j
        BY <1>0, <2>1, <3>2
      <4>2. new[j - 1] = list[j]
        BY <2>3, <4>1
      <4> QED
        BY <4>1, <4>2
    <3>3. j # p
      BY <2>1, <2>9
    <3> QED
      BY <1>0, <2>1, <3>1, <3>2, <3>3
  <2>10. OthersStay(list, new, k)
    BY <2>3, <2>7, <2>9 DEF OthersStay, n
  <2> QED
    BY <2>3, <2>5, <2>8, <2>10 DEF new
<1>2. CASE ~HasKey(list, k)
  <2>1. new = list
    BY <1>2, ElementPosition DEF RemovedFrom
  <2> QED
    BY <1>2, <2>1 DEF OthersStay
<1> QED
  BY <1>1, <1>2
-----------------------------------------------------------------------------
(* The table after has the list new at place q, and the lists of data at   *)
(* all other places.                                                       *)
Replaced(data, after, size, q, new) ==
    /\ after \in [0 .. size - 1 -> Seq(Element)]
    /\ after[q] = new
    /\ \A p \in 0 .. size - 1 : p # q => after[p] = data[p]

LEMMA OneListChanges ==
    ASSUME NEW data, NEW size, WellPlaced(data, size), NEW k \in Keys, NEW new \in Seq(Element),
           Unique(new), OthersStay(data[GetTableEntryPosition(k, size)], new, k),
           NEW after, Replaced(data, after, size, GetTableEntryPosition(k, size), new)
    PROVE  /\ WellPlaced(after, size)
           /\ \A x \in Keys \ {k} :
                 /\ x \in KeysIn(after, size) <=> x \in KeysIn(data, size)
                 /\ x \in KeysIn(data, size) => ValueIn(after, size, x) = ValueIn(data, size, x)
           /\ k \in KeysIn(after, size) <=> HasKey(new, k)
           /\ \A i \in 1 .. Len(new) :
                 new[i].key = k => ValueIn(after, size, k) = new[i].value
<1> DEFINE q == GetTableEntryPosition(k, size)
<1>1. q \in 0 .. size - 1 /\ size \in Nat \ {0}
  BY PositionType DEF WellPlaced
<1>2. /\ after \in [0 .. size - 1 -> Seq(Element)]
      /\ after[q] = new
      /\ \A p \in 0 .. size - 1 : p # q => after[p] = data[p]
  BY <1>1 DEF Replaced
<1>3. WellPlaced(after, size)
  <2>1. ASSUME NEW i \in 1 .. Len(new)
        PROVE  GetTableEntryPosition(new[i].key, size) = q
    <3>1. CASE new[i].key = k
      BY <3>1
    <3>2. CASE new[i].key # k
      <4>1. PICK j \in 1 .. Len(data[q]) : data[q][j] = new[i]
        BY <3>2 DEF OthersStay
      <4> QED
        BY <1>1, <4>1 DEF WellPlaced
    <3> QED
      BY <3>1, <3>2
  <2>2. ASSUME NEW p \in 0 .. size - 1
        PROVE  /\ \A i \in 1 .. Len(after[p]) : GetTableEntryPosition(after[p][i].key, size) = p
               /\ Unique(after[p])
    <3>1. CASE p = q
      BY <1>2, <2>1, <3>1
    <3>2. CASE p # q
      BY <1>2, <3>2 DEF WellPlaced
    <3> QED
      BY <3>1, <3>2
  <2> QED
    BY <1>1, <1>2, <2>2 DEF WellPlaced
<1>4. ASSUME NEW x \in Keys \ {k}
      PROVE  /\ x \in KeysIn(after, size) <=> x \in KeysIn(data, size)
             /\ x \in KeysIn(data, size) => ValueIn(after, size, x) = ValueIn(data, size, x)
  <2> DEFINE r == GetTableEntryPosition(x, size)
  <2>1. r \in 0 .. size - 1
    BY <1>1, PositionType
  <2>2. /\ x \in KeysIn(after, size) <=> HasKey(after[r], x)
        /\ \A i \in 1 .. Len(after[r]) :
              after[r][i].key = x => ValueIn(after, size, x) = after[r][i].value
    BY <1>3, WhereAKeyIs
  <2>3. /\ x \in KeysIn(data, size) <=> HasKey(data[r], x)
        /\ \A i \in 1 .. Len(data[r]) :
              data[r][i].key = x => ValueIn(data, size, x) = data[r][i].value
    BY WhereAKeyIs
  <2> HIDE DEF r
  <2>4. CASE r = q
    <3>1. ASSUME NEW i \in 1 .. Len(new), new[i].key = x
          PROVE  \E j \in 1 .. Len(data[q]) : data[q][j] = new[i]
      BY <3>1 DEF OthersStay
    <3>2. ASSUME NEW j \in 1 .. Len(data[q]), data[q][j].key = x
          PROVE  \E i \in 1 .. Len(new) : new[i] = data[q][j]
      BY <3>2 DEF OthersStay
    <3>3. HasKey(new, x) <=> HasKey(data[q], x)
      BY <3>1, <3>2 DEF HasKey
    <3>4. ASSUME HasKey(data[q], x) PROVE ValueIn(after, size, x) = ValueIn(data, size, x)
      <4>1. PICK j \in 1 .. Len(data[q]) : data[q][j].key = x
        BY <3>4 DEF HasKey
      <4>2. PICK i \in 1 .. Len(new) : new[i] = data[q][j]
        BY <3>2, <4>1
      <4> QED
        BY <1>2, <2>2, <2>3, <2>4, <4>1, <4>2
    <3> QED
      BY <1>2, <2>2, <2>3, <2>4, <3>3, <3>4
  <2>5. CASE r # q
    <3>1. after[r] = data[r]
      BY <1>2, <2>1, <2>5
    <3>2. ASSUME HasKey(data[r], x) PROVE ValueIn(after, size, x) = ValueIn(data, size, x)
      <4>1. PICK j \in 1 .. Len(data[r]) : data[r][j].key = x
        BY <3>2 DEF HasKey
      <4> QED
        BY <2>2, <2>3, <3>1, <4>1
    <3> QED
      BY <2>2, <2>3, <3>1, <3>2
  <2> QED
    BY <2>4, <2>5
<1>5. /\ k \in KeysIn(after, size) <=> HasKey(after[q], k)
      /\ \A i \in 1 .. Len(after[q]) :
            after[q][i].key = k => ValueIn(after, size, k) = after[q][i].value
  BY <1>3, WhereAKeyIs
<1> QED
  BY <1>2, <1>3, <1>4, <1>5

(* AddKey puts, RemoveKey removes, SetHashSize and Clear empty the map.    *)
LEMMA AddedPoints ==
    ASSUME NEW data, NEW size, WellPlaced(data, size),
           NEW k \in Keys, NEW v \in Values,
           NEW after, after = Added(data, size, k, v)
    PROVE  /\ WellPlaced(after, size)
           /\ KeysIn(after, size) = KeysIn(data, size) \cup {k}
           /\ \A x \in KeysIn(data, size) \cup {k} :
                 ValueIn(after, size, x) = IF x = k THEN v ELSE ValueIn(data, size, x)
<1> DEFINE q == GetTableEntryPosition(k, size)
           new == PutIn(data[q], k, v)
<1>1. data[q] \in Seq(Element) /\ Unique(data[q])
  BY WhereAKeyIs
<1>2. /\ new \in Seq(Element) /\ Unique(new) /\ HasKey(new, k)
      /\ \A i \in 1 .. Len(new) : new[i].key = k => new[i].value = v
      /\ OthersStay(data[q], new, k)
  BY <1>1, PutParts
<1>3. Replaced(data, after, size, q, new)
  <2>1. after = [data EXCEPT ![q] = new]
    BY DEF Added, PutIn
  <2>2. q \in 0 .. size - 1
    BY PositionType DEF WellPlaced
  <2> HIDE DEF new, q
  <2> QED
    BY <1>2, <2>1, <2>2 DEF WellPlaced, Replaced
<1> HIDE DEF new
<1>4. /\ WellPlaced(after, size)
      /\ \A x \in Keys \ {k} :
            /\ x \in KeysIn(after, size) <=> x \in KeysIn(data, size)
            /\ x \in KeysIn(data, size) => ValueIn(after, size, x) = ValueIn(data, size, x)
      /\ k \in KeysIn(after, size)
      /\ \A i \in 1 .. Len(new) : new[i].key = k => ValueIn(after, size, k) = new[i].value
  BY <1>2, <1>3, OneListChanges
<1>5. ValueIn(after, size, k) = v
  <2>1. PICK i \in 1 .. Len(new) : new[i].key = k
    BY <1>2 DEF HasKey
  <2> QED
    BY <1>2, <1>4, <2>1
<1>6. KeysIn(after, size) \subseteq Keys /\ KeysIn(data, size) \subseteq Keys
  BY DEF KeysIn
<1>7. KeysIn(after, size) = KeysIn(data, size) \cup {k}
  BY <1>4, <1>6
<1> QED
  BY <1>4, <1>5, <1>6, <1>7

LEMMA RemovedPoints ==
    ASSUME NEW data, NEW size, WellPlaced(data, size), NEW k \in Keys,
           NEW after, after = Removed(data, size, k)
    PROVE  /\ WellPlaced(after, size)
           /\ KeysIn(after, size) = KeysIn(data, size) \ {k}
           /\ \A x \in KeysIn(data, size) \ {k} :
                 ValueIn(after, size, x) = ValueIn(data, size, x)
<1> DEFINE q == GetTableEntryPosition(k, size)
           new == RemovedFrom(data[q], k)
<1>1. data[q] \in Seq(Element) /\ Unique(data[q])
  BY WhereAKeyIs
<1>2. /\ new \in Seq(Element) /\ Unique(new) /\ ~HasKey(new, k)
      /\ OthersStay(data[q], new, k)
  BY <1>1, RemovedParts
<1>3. Replaced(data, after, size, q, new)
  <2>1. after = [data EXCEPT ![q] = new]
    BY DEF Removed, RemovedFrom
  <2>2. q \in 0 .. size - 1
    BY PositionType DEF WellPlaced
  <2> HIDE DEF new, q
  <2> QED
    BY <1>2, <2>1, <2>2 DEF WellPlaced, Replaced
<1> HIDE DEF new
<1>4. /\ WellPlaced(after, size)
      /\ \A x \in Keys \ {k} :
            /\ x \in KeysIn(after, size) <=> x \in KeysIn(data, size)
            /\ x \in KeysIn(data, size) => ValueIn(after, size, x) = ValueIn(data, size, x)
      /\ k \notin KeysIn(after, size)
  BY <1>2, <1>3, OneListChanges
<1>5. KeysIn(after, size) \subseteq Keys /\ KeysIn(data, size) \subseteq Keys
  BY DEF KeysIn
<1>6. KeysIn(after, size) = KeysIn(data, size) \ {k}
  BY <1>4, <1>5
<1> QED
  BY <1>4, <1>5, <1>6

LEMMA EmptyMap ==
    ASSUME NEW size \in Nat \ {0}
    PROVE  /\ WellPlaced(Empty(size), size)
           /\ KeysIn(Empty(size), size) = {}
           /\ MapIn(Empty(size), size) = [k \in {} |-> k]
<1>1. Empty(size) \in [0 .. size - 1 -> Seq(Element)]
  BY DEF Empty
<1>2. \A p \in 0 .. size - 1 : Len(Empty(size)[p]) = 0
  BY DEF Empty
<1>3. WellPlaced(Empty(size), size)
  BY <1>1, <1>2 DEF WellPlaced, Unique
<1>4. KeysIn(Empty(size), size) = {}
  BY <1>2 DEF KeysIn, HasKey
<1> QED
  BY <1>3, <1>4 DEF MapIn
-----------------------------------------------------------------------------
(* The table of the module. *)
TableInv == m_size \in Sizes /\ WellPlaced(m_data, m_size)

LEMMA TheMap ==
    /\ Stored = KeysIn(m_data, m_size)
    /\ \A k : StoredValue(k) = ValueIn(m_data, m_size, k)
    /\ Contents = MapIn(m_data, m_size)
<1>1. Stored = KeysIn(m_data, m_size)
  BY DEF Stored, InList, KeysIn, HasKey
<1>2. ASSUME NEW k PROVE StoredValue(k) = ValueIn(m_data, m_size, k)
  BY DEF StoredValue, InList, ValueIn, HasKey
<1> QED
  BY <1>1, <1>2 DEF Contents, MapIn

LEMMA TableInit == Init => TableInv
BY HashAssumption, EmptyMap DEF Init, TableInv

LEMMA TableNext == TableInv /\ [Next]_vars => TableInv'
<1> SUFFICES ASSUME TableInv, [Next]_vars PROVE TableInv'
  OBVIOUS
<1> USE DEF TableInv
<1>1. ASSUME NEW k \in Keys, RemoveKey(k) PROVE TableInv'
  BY <1>1, RemovedPoints DEF RemoveKey
<1>2. ASSUME NEW k \in Keys, NEW v \in Values, AddKey(k, v) PROVE TableInv'
  BY <1>2, AddedPoints DEF AddKey
<1>3. ASSUME NEW size \in Sizes, SetHashSize(size) PROVE TableInv'
  BY <1>3, EmptyMap, HashAssumption DEF SetHashSize
<1>4. CASE Clear
  BY <1>4, EmptyMap, HashAssumption DEF Clear
<1>5. ASSUME NEW v \in Values, SetNotFoundValue(v) PROVE TableInv'
  BY <1>5 DEF SetNotFoundValue
<1>6. CASE UNCHANGED vars
  BY <1>6 DEF vars
<1> QED
  BY <1>1, <1>2, <1>3, <1>4, <1>5, <1>6 DEF Next

(* Each step of the table is the step of the map that it is to be. *)
LEMMA EachFollows == TableInv => FollowsMap
<1> SUFFICES ASSUME TableInv PROVE FollowsMap
  OBVIOUS
<1> USE DEF TableInv
<1>1. Contents = MapIn(m_data, m_size) /\ DOMAIN Contents = KeysIn(m_data, m_size)
  BY TheMap DEF MapIn
<1>2. Contents' = MapIn(m_data', m_size')
  BY DEF Contents, Stored, StoredValue, InList, MapIn, KeysIn, ValueIn, HasKey
<1>3. ASSUME NEW k \in Keys, RemoveKey(k) PROVE Abstract!Remove(k)
  <2>1. m_data' = Removed(m_data, m_size, k) /\ m_size' = m_size
    BY <1>3 DEF RemoveKey
  <2>2. /\ KeysIn(m_data', m_size') = KeysIn(m_data, m_size) \ {k}
        /\ \A x \in KeysIn(m_data, m_size) \ {k} :
              ValueIn(m_data', m_size', x) = ValueIn(m_data, m_size, x)
    BY <2>1, RemovedPoints
  <2>3. Contents' = [x \in (DOMAIN Contents) \ {k} |-> Contents[x]]
    BY <1>1, <1>2, <2>2 DEF MapIn
  <2> QED
    BY <2>3 DEF Abstract!Remove
<1>4. ASSUME NEW k \in Keys, NEW v \in Values, AddKey(k, v) PROVE Abstract!Put(k, v)
  <2>1. m_data' = Added(m_data, m_size, k, v) /\ m_size' = m_size
    BY <1>4 DEF AddKey
  <2>2. /\ KeysIn(m_data', m_size') = KeysIn(m_data, m_size) \cup {k}
        /\ \A x \in KeysIn(m_data, m_size) \cup {k} :
              ValueIn(m_data', m_size', x) =
                 IF x = k THEN v ELSE ValueIn(m_data, m_size, x)
    BY <2>1, AddedPoints
  <2>3. Contents' = [x \in (DOMAIN Contents) \cup {k} |->
                        IF x = k THEN v ELSE Contents[x]]
    BY <1>1, <1>2, <2>2 DEF MapIn
  <2> QED
    BY <2>3 DEF Abstract!Put
<1>5. ASSUME NEW size \in Sizes, SetHashSize(size) PROVE Abstract!Clear
  BY <1>2, <1>5, EmptyMap, HashAssumption DEF SetHashSize, Abstract!Clear
<1>6. ASSUME Clear PROVE Abstract!Clear
  BY <1>2, <1>6, EmptyMap, HashAssumption DEF Clear, Abstract!Clear
<1>7. ASSUME NEW v \in Values, SetNotFoundValue(v) PROVE UNCHANGED Contents
  BY <1>1, <1>2, <1>7 DEF SetNotFoundValue
<1> QED
  BY <1>3, <1>4, <1>5, <1>6, <1>7 DEF FollowsMap

LEMMA TableStep == TableInv /\ [Next]_vars => [Abstract!Next]_Contents
<1> SUFFICES ASSUME TableInv, [Next]_vars
             PROVE  Abstract!Next \/ UNCHANGED Contents
  OBVIOUS
<1>1. FollowsMap
  BY EachFollows
<1>2. CASE UNCHANGED vars
  <2>1. UNCHANGED <<m_data, m_size>>
    BY <1>2 DEF vars
  <2> QED
    BY <2>1 DEF Contents, Stored, StoredValue, InList
<1>3. ASSUME NEW k \in Keys, RemoveKey(k) PROVE Abstract!Next
  BY <1>1, <1>3 DEF FollowsMap, Abstract!Next
<1>4. ASSUME NEW k \in Keys, NEW v \in Values, AddKey(k, v) PROVE Abstract!Next
  BY <1>1, <1>4 DEF FollowsMap, Abstract!Next
<1>5. ASSUME NEW size \in Sizes, SetHashSize(size) PROVE Abstract!Next
  BY <1>1, <1>5 DEF FollowsMap, Abstract!Next
<1>6. ASSUME Clear PROVE Abstract!Next
  BY <1>1, <1>6 DEF FollowsMap, Abstract!Next
<1>7. ASSUME NEW v \in Values, SetNotFoundValue(v) PROVE UNCHANGED Contents
  BY <1>1, <1>7 DEF FollowsMap
<1> QED
  BY <1>2, <1>3, <1>4, <1>5, <1>6, <1>7 DEF Next

(* What a lookup finds in the lists of data. *)
LEMMA FoundIn ==
    ASSUME NEW data, NEW size, WellPlaced(data, size), NEW k \in Keys, NEW none
    PROVE  GetMappedValue(data, size, k, none) =
              IF k \in KeysIn(data, size) THEN ValueIn(data, size, k) ELSE none
<1> DEFINE list == data[GetTableEntryPosition(k, size)]
           p == GetElementPosition(list, k)
<1>1. /\ list \in Seq(Element) /\ Unique(list)
      /\ k \in KeysIn(data, size) <=> HasKey(list, k)
      /\ \A i \in 1 .. Len(list) : list[i].key = k => ValueIn(data, size, k) = list[i].value
  BY WhereAKeyIs
<1>2. /\ HasKey(list, k) => p \in 1 .. Len(list) /\ list[p].key = k
      /\ ~HasKey(list, k) => p = 0
  BY <1>1, ElementPosition
<1>3. GetMappedValue(data, size, k, none) = IF p = 0 THEN none ELSE list[p].value
  BY DEF GetMappedValue
<1>4. HasKey(list, k) => p # 0
  BY <1>1, <1>2
<1> HIDE DEF list, p
<1> QED
  BY <1>1, <1>2, <1>3, <1>4

LEMMA LookupsFollow ==
    ASSUME TableInv
    PROVE  LookupFollows
<1> SUFFICES ASSUME NEW k \in Keys, NEW x \in Keys
             PROVE  LET found(data) == GetMappedValue(data, m_size, x, m_not_found) IN
                    /\ found(Removed(m_data, m_size, k))
                          = IF x = k THEN m_not_found ELSE found(m_data)
                    /\ \A v \in Values :
                          found(Added(m_data, m_size, k, v))
                             = IF x = k THEN v ELSE found(m_data)
  BY DEF LookupFollows
<1>1. WellPlaced(m_data, m_size)
  BY DEF TableInv
<1>2. GetMappedValue(m_data, m_size, x, m_not_found) =
         IF x \in KeysIn(m_data, m_size) THEN ValueIn(m_data, m_size, x) ELSE m_not_found
  BY <1>1, FoundIn
<1>3. GetMappedValue(Removed(m_data, m_size, k), m_size, x, m_not_found)
         = IF x = k THEN m_not_found ELSE GetMappedValue(m_data, m_size, x, m_not_found)
  <2>1. PICK after : after = Removed(m_data, m_size, k)
    OBVIOUS
  <2>2. /\ WellPlaced(after, m_size)
        /\ KeysIn(after, m_size) = KeysIn(m_data, m_size) \ {k}
        /\ \A y \in KeysIn(m_data, m_size) \ {k} :
              ValueIn(after, m_size, y) = ValueIn(m_data, m_size, y)
    BY <1>1, <2>1, RemovedPoints
  <2>3. GetMappedValue(after, m_size, x, m_not_found) =
           IF x \in KeysIn(after, m_size) THEN ValueIn(after, m_size, x) ELSE m_not_found
    BY <2>2, FoundIn
  <2> QED
    BY <1>2, <2>1, <2>2, <2>3
<1>4. ASSUME NEW v \in Values
      PROVE  GetMappedValue(Added(m_data, m_size, k, v), m_size, x, m_not_found)
                = IF x = k THEN v ELSE GetMappedValue(m_data, m_size, x, m_not_found)
  <2>1. PICK after : after = Added(m_data, m_size, k, v)
    OBVIOUS
  <2>2. /\ WellPlaced(after, m_size)
        /\ KeysIn(after, m_size) = KeysIn(m_data, m_size) \cup {k}
        /\ \A y \in KeysIn(m_data, m_size) \cup {k} :
              ValueIn(after, m_size, y) = IF y = k THEN v ELSE ValueIn(m_data, m_size, y)
    BY <1>1, <2>1, AddedPoints
  <2>3. GetMappedValue(after, m_size, x, m_not_found) =
           IF x \in KeysIn(after, m_size) THEN ValueIn(after, m_size, x) ELSE m_not_found
    BY <2>2, FoundIn
  <2> QED
    BY <1>2, <2>1, <2>2, <2>3
<1> QED
  BY <1>3, <1>4

(* The lists of elements implement the map of keys and values: each        *)
(* operation is the step of KeyMap for its own key, and in every table a   *)
(* lookup finds what the operation before it did (HashTable::AddKey,       *)
(* RemoveKey, SetHashSize, Clear and operator[]).                          *)
THEOREM TableIsAMap == Spec => MapSpec
<1>1. Init => Abstract!Init
  BY EmptyMap, TheMap, HashAssumption DEF Init, Abstract!Init
<1>2. TableInv /\ [Next]_vars => TableInv'
  BY TableNext
<1>3. TableInv /\ [Next]_vars => [Abstract!Next]_Contents
  BY TableStep
<1>4. TableInv /\ [Next]_vars => [vars' # vars => FollowsMap /\ LookupFollows]_vars
  BY EachFollows, LookupsFollow
<1> QED
  BY <1>1, <1>2, <1>3, <1>4, TableInit, PTL DEF Spec, MapSpec, Abstract!Spec

(* A lookup gives the value of the key in that map, and the not found      *)
(* value of a key that is not in it (HashTable::operator[]).               *)
THEOREM LookupIsExact == Spec => []LookupIsMap
<1>1. TableInv /\ [Next]_vars => TableInv'
  BY TableNext
<1>2. TableInv => LookupIsMap
  <2> SUFFICES ASSUME TableInv, NEW k \in Keys
               PROVE  GetMappedValue(m_data, m_size, k, m_not_found) =
                         IF k \in Stored THEN StoredValue(k) ELSE m_not_found
    BY DEF LookupIsMap
  <2>1. GetMappedValue(m_data, m_size, k, m_not_found) =
           IF k \in KeysIn(m_data, m_size)
           THEN ValueIn(m_data, m_size, k) ELSE m_not_found
    BY FoundIn DEF TableInv
  <2> QED
    BY <2>1, TheMap
<1> QED
  BY <1>1, <1>2, TableInit, PTL DEF Spec
-----------------------------------------------------------------------------
(* Copies of files.                                                        *)

WritesAll == Partial = FALSE

Copying == {"read", "write", "close"}

(* The calls keep the two descriptors apart from those of the caller. *)
Descriptors ==
    /\ copyPC \in {"look", "stat", "openIn", "openOut", "done"} \cup Copying
    /\ copyPC \in {"look", "stat", "openIn"} => open = C!Standard
    /\ copyPC = "openOut" => open = C!Standard \cup {3} /\ infile = 3
    /\ copyPC \in Copying => open = C!Standard \cup {3, 4} /\ infile = 3 /\ outfile = 4
    /\ copyPC = "done" => open \subseteq C!Standard

(* The source can grow but not change, and who opened it keeps it. *)
SourceKept ==
    /\ source = C!NoFile \/ \E n \in Nat : source = C!Bytes(n)
    /\ copyPC \in {"openOut"} \cup Copying => source # C!NoFile
    /\ offset \in Nat
    /\ copyPC \in {"look", "stat", "openIn", "openOut"} => offset = 0
    /\ copyPC \in Copying \/ copyResult = "copied" => source # C!NoFile /\ offset <= Len(source)

(* A file of another process is never opened. *)
DestinationOwned ==
    /\ foreign \in BOOLEAN
    /\ foreign => dest = <<0>>
    /\ copyPC \in Copying \/ copyResult = "copied" => ~foreign

(* What is in the destination and in the buffer: the begin of the source. *)
DestinationCopied ==
    /\ copyPC \in Copying => \E k \in Nat : dest = C!Bytes(k)
    /\ copyPC = "read" => dest = C!Bytes(offset)
    /\ copyPC = "write" =>
          /\ sz_write = 0 /\ sz_read \in Nat \ {0} /\ sz_read <= offset
          /\ dest = C!Bytes(offset - sz_read)
          /\ buf = [i \in 1 .. sz_read |-> (offset - sz_read) + i]
    /\ copyPC = "close" => sz_read < 0 \/ dest = C!Bytes(offset)
    /\ copyResult = "copied" => copyPC = "done" /\ dest = C!Bytes(offset)

CopyInv == Descriptors /\ SourceKept /\ DestinationOwned /\ DestinationCopied
-----------------------------------------------------------------------------
LEMMA BytesParts ==
    ASSUME NEW n \in Nat
    PROVE  /\ C!Bytes(n) \in Seq(Nat)
           /\ Len(C!Bytes(n)) = n
           /\ \A i \in 1 .. n : C!Bytes(n)[i] = i
           /\ C!Bytes(n) # C!NoFile
<1>1. /\ C!Bytes(n) \in Seq(Nat)
      /\ Len(C!Bytes(n)) = n
      /\ \A i \in 1 .. n : C!Bytes(n)[i] = i
  BY DEF C!Bytes
<1>2. C!Bytes(n) # C!NoFile
  <2>1. ASSUME C!Bytes(n) = C!NoFile PROVE FALSE
    <3>1. Len(C!NoFile) = 1 /\ C!NoFile[1] = -1
      BY DEF C!NoFile
    <3>2. n = 1
      BY <1>1, <2>1, <3>1
    <3>3. C!Bytes(n)[1] = 1
      BY <1>1, <3>2
    <3> QED
      BY <2>1, <3>1, <3>3
  <2> QED
    BY <2>1
<1> QED
  BY <1>1, <1>2

(* read() at the offset a gives the bytes after a. *)
LEMMA ReadsOn ==
    ASSUME NEW n \in Nat, NEW a \in Nat, NEW k \in Nat, a + k <= n
    PROVE  SubSeq(C!Bytes(n), a + 1, a + k) = [i \in 1 .. k |-> a + i]
BY DEF C!Bytes

(* Written after the first k bytes they are the first bytes of the source. *)
LEMMA WritesOn ==
    ASSUME NEW k \in Nat, NEW n \in Nat
    PROVE  C!Bytes(k) \o SubSeq([i \in 1 .. n |-> k + i], 1, n) = C!Bytes(k + n)
BY DEF C!Bytes

LEMMA BeginsWith ==
    ASSUME NEW n \in Nat, NEW k \in Nat, k <= n
    PROVE  SubSeq(C!Bytes(n), 1, k) = C!Bytes(k)
BY DEF C!Bytes
-----------------------------------------------------------------------------
LEMMA CopyInit == C!Init => CopyInv
<1> SUFFICES ASSUME C!Init PROVE CopyInv
  OBVIOUS
<1> USE MCAssumption DEF C!Init, C!FileCopyAssumption
<1>1. Descriptors
  BY DEF Descriptors, Copying
<1>2. SourceKept
  <2>1. source = C!NoFile \/ \E n \in Nat : source = C!Bytes(n)
    OBVIOUS
  <2> QED
    BY <2>1 DEF SourceKept, Copying
<1>3. DestinationOwned
  BY DEF DestinationOwned, Copying
<1>4. DestinationCopied
  BY DEF DestinationCopied, Copying
<1> QED
  BY <1>1, <1>2, <1>3, <1>4 DEF CopyInv

(* Another process adds a byte to the source: what was read stays.         *)
LEMMA AfterExtend == CopyInv /\ C!Extend => CopyInv'
<1> SUFFICES ASSUME CopyInv, C!Extend PROVE CopyInv'
  OBVIOUS
<1>1. /\ source # C!NoFile /\ copyPC # "done"
      /\ source' = C!Bytes(Len(source) + 1)
      /\ UNCHANGED <<dest, foreign, open, infile, outfile, offset, sz_read, sz_write, buf,
                     copyPC, copyResult>>
  BY DEF C!Extend, C!descriptors, C!data
<1>2. PICK n \in Nat : source = C!Bytes(n)
  BY <1>1 DEF CopyInv, SourceKept
<1>3. Len(source) = n /\ source' = C!Bytes(n + 1)
  BY <1>1, <1>2, BytesParts
<1>4. source' # C!NoFile /\ Len(source') = n + 1 /\ n + 1 \in Nat
  BY <1>3, BytesParts
<1>5. SourceKept'
  BY <1>1, <1>2, <1>3, <1>4 DEF CopyInv, SourceKept, Copying
<1>6. Descriptors' /\ DestinationOwned' /\ DestinationCopied'
  BY <1>1 DEF CopyInv, Descriptors, DestinationOwned, DestinationCopied, Copying
<1> QED
  BY <1>5, <1>6 DEF CopyInv

LEMMA AfterRemoveSource == CopyInv /\ C!RemoveSource => CopyInv'
<1> SUFFICES ASSUME CopyInv, C!RemoveSource PROVE CopyInv'
  OBVIOUS
<1>1. /\ copyPC \in {"look", "stat", "openIn"} /\ source' = C!NoFile
      /\ UNCHANGED <<dest, foreign, open, infile, outfile, offset, sz_read, sz_write, buf,
                     copyPC, copyResult>>
  BY DEF C!RemoveSource, C!descriptors, C!data
<1>2. SourceKept'
  BY <1>1 DEF CopyInv, SourceKept, DestinationCopied, Copying
<1>3. Descriptors' /\ DestinationOwned' /\ DestinationCopied'
  BY <1>1 DEF CopyInv, Descriptors, DestinationOwned, DestinationCopied, Copying
<1> QED
  BY <1>2, <1>3 DEF CopyInv

(* A file is made where there is none: not while the copy has its own.     *)
LEMMA AfterMakeDestination == CopyInv /\ C!MakeDestination => CopyInv'
<1> SUFFICES ASSUME CopyInv, C!MakeDestination PROVE CopyInv'
  OBVIOUS
<1>1. /\ dest = C!NoFile /\ copyPC # "done" /\ dest' = <<0>> /\ foreign' = TRUE
      /\ UNCHANGED <<source, open, infile, outfile, offset, sz_read, sz_write, buf,
                     copyPC, copyResult>>
  BY DEF C!MakeDestination, C!descriptors, C!data
<1>2. copyPC \notin Copying
  BY <1>1, BytesParts DEF CopyInv, DestinationCopied
<1>3. copyResult # "copied"
  BY <1>1 DEF CopyInv, DestinationCopied
<1>4. Descriptors' /\ SourceKept'
  BY <1>1 DEF CopyInv, Descriptors, SourceKept
<1>5. DestinationOwned'
  BY <1>1, <1>2, <1>3 DEF DestinationOwned
<1>6. DestinationCopied'
  BY <1>1, <1>2, <1>3 DEF DestinationCopied, Copying
<1> QED
  BY <1>4, <1>5, <1>6 DEF CopyInv
-----------------------------------------------------------------------------
LEMMA AfterIsFile == CopyInv /\ C!IsFile => CopyInv'
BY DEF C!IsFile, C!Goto, C!Returns, C!disk, C!descriptors, C!data, C!Standard,
       CopyInv, Descriptors, SourceKept, DestinationOwned, DestinationCopied, Copying

LEMMA AfterStat == CopyInv /\ C!Stat => CopyInv'
BY DEF C!Stat, C!Goto, C!Returns, C!Closes, C!disk, C!descriptors, C!data,
       CopyInv, Descriptors, SourceKept, DestinationOwned, DestinationCopied, Copying

(* open() gives the smallest free descriptor. *)
LEMMA FreeParts ==
    ASSUME open = C!Standard \/ open = C!Standard \cup {3}
    PROVE  C!Free = IF open = C!Standard THEN 3 ELSE 4
<1>1. CASE open = C!Standard
  <2>1. (0 .. 4) \ open = {3, 4}
    BY <1>1 DEF C!Standard
  <2>2. C!Free = 3
    BY <2>1 DEF C!Free, C!Min
  <2> QED
    BY <1>1, <2>2
<1>2. CASE open = C!Standard \cup {3}
  <2>1. (0 .. 4) \ open = {4} /\ open # C!Standard
    BY <1>2 DEF C!Standard
  <2>2. C!Free = 4
    BY <2>1 DEF C!Free, C!Min
  <2> QED
    BY <2>1, <2>2
<1> QED
  BY <1>1, <1>2

LEMMA AfterOpenSource == CopyInv /\ C!OpenSource => CopyInv'
<1> SUFFICES ASSUME CopyInv, C!OpenSource PROVE CopyInv'
  OBVIOUS
<1>1. /\ copyPC = "openIn" /\ open = C!Standard
      /\ UNCHANGED <<source, dest, foreign, offset, sz_read, sz_write, buf>>
  BY DEF C!OpenSource, C!disk, C!data, CopyInv, Descriptors
<1>2. C!Free = 3
  BY <1>1, FreeParts
<1>3. \/ copyPC' = "done" /\ copyResult' = "failed" /\ open' = open
      \/ /\ source # C!NoFile /\ copyPC' = "openOut" /\ copyResult' = copyResult
         /\ open' = open \cup {3} /\ infile' = 3
  BY <1>1, <1>2 DEF C!OpenSource, C!Returns, C!Goto, C!descriptors
<1> QED
  BY <1>1, <1>3
     DEF CopyInv, Descriptors, SourceKept, DestinationOwned, DestinationCopied, Copying

LEMMA AfterOpenDestination == CopyInv /\ C!OpenDestination => CopyInv'
<1> SUFFICES ASSUME CopyInv, C!OpenDestination PROVE CopyInv'
  OBVIOUS
<1>1. /\ copyPC = "openOut" /\ open = C!Standard \cup {3} /\ infile = 3
      /\ source # C!NoFile /\ offset = 0 /\ copyResult # "copied"
      /\ UNCHANGED <<source, foreign, offset, sz_read, sz_write, buf>>
  BY DEF C!OpenDestination, C!data, CopyInv, Descriptors, SourceKept, DestinationCopied
<1>2. open # C!Standard /\ C!Free = 4
  BY <1>1, FreeParts DEF C!Standard
<1>3. CASE dest # C!NoFile
  <2>1. /\ copyPC' = "done" /\ copyResult' = "failed" /\ open' = C!Standard /\ dest' = dest
    BY <1>1, <1>3 DEF C!OpenDestination, C!Returns, C!Closes, C!Standard
  <2> QED
    BY <1>1, <2>1
       DEF CopyInv, Descriptors, SourceKept, DestinationOwned, DestinationCopied, Copying
<1>4. CASE dest = C!NoFile
  <2>1. /\ copyPC' = "read" /\ copyResult' = copyResult /\ dest' = <<>>
        /\ open' = C!Standard \cup {3, 4} /\ infile' = 3 /\ outfile' = 4
    BY <1>1, <1>2, <1>4 DEF C!OpenDestination, C!Goto
  <2>2. Descriptors'
    BY <2>1 DEF Descriptors, Copying
  <2>3. SourceKept'
    <3>1. PICK n \in Nat : source = C!Bytes(n)
      BY <1>1 DEF CopyInv, SourceKept
    <3>2. Len(source) = n
      BY <3>1, BytesParts
    <3> QED
      BY <1>1, <2>1, <3>1, <3>2 DEF SourceKept, Copying
  <2>4. DestinationOwned'
    <3>1. <<0>> # C!NoFile
      BY DEF C!NoFile
    <3> QED
      BY <1>1, <1>4, <3>1 DEF CopyInv, DestinationOwned
  <2>5. DestinationCopied'
    <3>1. C!Bytes(0) = <<>>
      BY DEF C!Bytes
    <3> QED
      BY <1>1, <2>1, <3>1 DEF DestinationCopied, Copying
  <2> QED
    BY <2>2, <2>3, <2>4, <2>5 DEF CopyInv
<1> QED
  BY <1>3, <1>4

LEMMA AfterRead == CopyInv /\ C!Read => CopyInv'
<1> SUFFICES ASSUME CopyInv, C!Read PROVE CopyInv'
  OBVIOUS
<1>1. /\ copyPC = "read" /\ source # C!NoFile /\ ~foreign /\ copyResult # "copied"
      /\ dest = C!Bytes(offset) /\ offset \in Nat /\ offset <= Len(source)
      /\ open = C!Standard \cup {3, 4} /\ infile = 3 /\ outfile = 4
      /\ UNCHANGED <<source, dest, foreign, open, infile, outfile>>
  BY DEF C!Read, C!disk, C!descriptors, CopyInv, Descriptors, SourceKept, DestinationOwned,
         DestinationCopied, Copying
<1>2. PICK n \in Nat : source = C!Bytes(n)
  BY <1>1 DEF CopyInv, SourceKept
<1>3. Len(source) = n
  BY <1>2, BytesParts
<1>4. copyResult' = copyResult /\ copyPC' \in {"write", "close"}
  BY DEF C!Read, C!Goto
<1>5. Descriptors' /\ DestinationOwned'
  BY <1>1, <1>4 DEF CopyInv, Descriptors, DestinationOwned, Copying
<1>6. CASE copyPC' = "write"
  <2>1. PICK k \in 1 .. buf_sz :
            /\ offset + k <= n
            /\ sz_read' = k /\ sz_write' = 0 /\ offset' = offset + k
            /\ buf' = SubSeq(source, offset + 1, offset + k)
    BY <1>3, <1>6 DEF C!Read, C!Goto
  <2>2. k \in Nat \ {0}
    BY <2>1, MCAssumption DEF C!FileCopyAssumption
  <2>3. buf' = [i \in 1 .. k |-> offset + i]
    BY <1>1, <1>2, <2>1, <2>2, ReadsOn
  <2>4. SourceKept'
    BY <1>1, <1>2, <1>3, <1>6, <2>1, <2>2 DEF SourceKept, Copying
  <2>5. offset' - sz_read' = offset /\ sz_read' <= offset'
    BY <1>1, <2>1, <2>2
  <2>6. DestinationCopied'
    BY <1>1, <1>4, <1>6, <2>1, <2>2, <2>3, <2>5 DEF DestinationCopied, Copying
  <2> QED
    BY <1>5, <2>4, <2>6 DEF CopyInv
<1>7. CASE copyPC' = "close"
  <2>1. offset' = offset
    BY <1>7 DEF C!Read, C!Goto
  <2>2. SourceKept' /\ DestinationCopied'
    BY <1>1, <1>2, <1>4, <1>7, <2>1 DEF SourceKept, DestinationCopied, Copying
  <2> QED
    BY <1>5, <2>2 DEF CopyInv
<1> QED
  BY <1>4, <1>6, <1>7

LEMMA AfterWrite == WritesAll /\ CopyInv /\ C!Write => CopyInv'
<1> SUFFICES ASSUME WritesAll, CopyInv, C!Write PROVE CopyInv'
  OBVIOUS
<1>1. /\ copyPC = "write" /\ source # C!NoFile /\ ~foreign /\ copyResult # "copied"
      /\ offset \in Nat /\ offset <= Len(source)
      /\ sz_write = 0 /\ sz_read \in Nat \ {0} /\ sz_read <= offset
      /\ dest = C!Bytes(offset - sz_read)
      /\ buf = [i \in 1 .. sz_read |-> (offset - sz_read) + i]
      /\ UNCHANGED <<source, foreign, open, infile, outfile, offset, buf>>
  BY DEF C!Write, C!descriptors, CopyInv, SourceKept, DestinationOwned, DestinationCopied, Copying
<1>2. copyResult' = copyResult /\ copyPC' \in {"write", "read", "close"}
  BY DEF C!Write, C!Goto
<1>3. Descriptors' /\ SourceKept' /\ DestinationOwned'
  BY <1>1, <1>2 DEF CopyInv, Descriptors, SourceKept, DestinationOwned, Copying
<1>4. \/ /\ dest' = dest \o SubSeq(buf, 1, sz_read) /\ copyPC' = "read"
      \/ dest' = dest /\ sz_read' = -1 /\ copyPC' = "close"
  <2>1. C!ToWrite = sz_read /\ ~(sz_write + sz_read < sz_read)
    BY <1>1 DEF C!ToWrite
  <2> QED
    BY <2>1 DEF C!Write, WritesAll, C!Goto
<1>5. CASE dest' = dest \o SubSeq(buf, 1, sz_read) /\ copyPC' = "read"
  <2>1. offset - sz_read \in Nat /\ (offset - sz_read) + sz_read = offset
    BY <1>1
  <2>2. dest' = C!Bytes(offset)
    BY <1>1, <1>5, <2>1, WritesOn
  <2>3. DestinationCopied'
    BY <1>1, <1>2, <1>5, <2>2 DEF DestinationCopied, Copying
  <2> QED
    BY <1>3, <2>3 DEF CopyInv
<1>6. CASE dest' = dest /\ sz_read' = -1 /\ copyPC' = "close"
  <2>1. offset - sz_read \in Nat
    BY <1>1
  <2>2. DestinationCopied'
    BY <1>1, <1>2, <1>6, <2>1 DEF DestinationCopied, Copying
  <2> QED
    BY <1>3, <2>2 DEF CopyInv
<1> QED
  BY <1>4, <1>5, <1>6

LEMMA AfterClose == CopyInv /\ C!Close => CopyInv'
<1> SUFFICES ASSUME CopyInv, C!Close PROVE CopyInv'
  OBVIOUS
<1>1. /\ copyPC = "close" /\ copyPC' = "done"
      /\ open' = open \ {infile, outfile}
      /\ copyResult' = "copied" => ~(sz_read < 0)
      /\ UNCHANGED <<source, dest, foreign, offset, sz_read>>
  BY DEF C!Close, C!Closes, C!Returns, C!disk, C!data
<1>2. Descriptors'
  BY <1>1 DEF CopyInv, Descriptors, Copying, C!Standard
<1>3. SourceKept' /\ DestinationOwned'
  BY <1>1 DEF CopyInv, SourceKept, DestinationOwned, Copying
<1>4. DestinationCopied'
  BY <1>1 DEF CopyInv, DestinationCopied, Copying
<1> QED
  BY <1>2, <1>3, <1>4 DEF CopyInv
-----------------------------------------------------------------------------
LEMMA CopyNext == WritesAll /\ CopyInv /\ [C!Next]_(C!vars) => CopyInv'
<1> SUFFICES ASSUME WritesAll, CopyInv, [C!Next]_(C!vars) PROVE CopyInv'
  OBVIOUS
<1>1. CASE UNCHANGED C!vars
  BY <1>1
     DEF C!vars, CopyInv, Descriptors, SourceKept, DestinationOwned, DestinationCopied
<1> QED
  BY <1>1, AfterIsFile, AfterStat, AfterOpenSource, AfterOpenDestination, AfterRead, AfterWrite,
     AfterClose, AfterExtend, AfterRemoveSource, AfterMakeDestination DEF C!Next

(* A Copy that says it succeeded made a new file with the bytes that were  *)
(* in the source when its end was read; it never touched a file of another *)
(* process; and on every way out its descriptors are closed (file::Copy in *)
(* TCFilePosix.cpp).                                                       *)
THEOREM CopyIsExact == WritesAll => (C!Spec => []CopiesExactly)
<1> SUFFICES ASSUME WritesAll PROVE C!Spec => []CopiesExactly
  OBVIOUS
<1>1. CopyInv /\ [C!Next]_(C!vars) => CopyInv'
  BY CopyNext
<1>2. CopyInv => CopiesExactly
  <2> SUFFICES ASSUME CopyInv PROVE C!CopyExact /\ C!NeverOverwrites /\ C!NoneLeft
    BY DEF CopiesExactly, C!CopiesExactly
  <2>1. ASSUME copyResult = "copied" PROVE dest = SubSeq(source, 1, offset) /\ ~foreign
    <3>1. /\ source # C!NoFile /\ offset \in Nat /\ offset <= Len(source)
          /\ dest = C!Bytes(offset) /\ ~foreign
      BY <2>1 DEF CopyInv, SourceKept, DestinationOwned, DestinationCopied
    <3>2. PICK n \in Nat : source = C!Bytes(n)
      BY <3>1 DEF CopyInv, SourceKept
    <3>3. Len(source) = n
      BY <3>2, BytesParts
    <3> QED
      BY <3>1, <3>2, <3>3, BeginsWith
  <2>2. C!NeverOverwrites /\ C!NoneLeft
    BY DEF CopyInv, Descriptors, DestinationOwned, C!NeverOverwrites, C!NoneLeft
  <2> QED
    BY <2>1, <2>2 DEF C!CopyExact
<1> QED
  BY <1>1, <1>2, CopyInit, PTL DEF C!Spec
-----------------------------------------------------------------------------
(* Induction, for a set of numbers. *)
LEMMA AllNaturals ==
    ASSUME NEW T, 0 \in T, \A n \in Nat : n \in T => n + 1 \in T
    PROVE  \A n \in Nat : n \in T
<1> DEFINE I == {n \in Nat : n \notin T}
<1> SUFFICES ASSUME I # {} PROVE FALSE
  OBVIOUS
<1>1. Min(I) \in I /\ \A y \in I : Min(I) <= y
  BY MinOfNaturals
<1>2. PICK m \in I : \A y \in I : m <= y
  BY <1>1
<1>3. m \in Nat /\ m \notin T /\ m # 0
  BY <1>2
<1>4. m - 1 \in Nat /\ (m - 1) + 1 = m /\ ~(m <= m - 1)
  BY <1>3
<1>5. m - 1 \in T
  BY <1>2, <1>4
<1> QED
  BY <1>3, <1>4, <1>5

(* The keys of one list. *)
KeysOf(list) == [j \in 1 .. Len(list) |-> list[j].key]

(* GetAllKeys goes through the lists one by one. *)
Collects(data, n, f) ==
    f = [i \in 0 .. n |-> IF i = 0 THEN <<>> ELSE f[i - 1] \o KeysOf(data[i - 1])]

LEMMA Collected ==
    ASSUME NEW data
    PROVE  \A n \in Nat : \E f : Collects(data, n, f)
<1> DEFINE T == {n \in Nat : \E f : Collects(data, n, f)}
<1>1. 0 \in T
  <2> DEFINE f == [i \in 0 .. 0 |-> <<>>]
  <2>1. f = [i \in 0 .. 0 |-> IF i = 0 THEN <<>> ELSE f[i - 1] \o KeysOf(data[i - 1])]
    OBVIOUS
  <2>2. Collects(data, 0, f)
    BY <2>1, Zenon DEF Collects
  <2> QED
    BY <2>2
<1>2. ASSUME NEW n \in Nat, n \in T PROVE n + 1 \in T
  <2>1. PICK f : Collects(data, n, f)
    BY <1>2
  <2>2. /\ f = [i \in 0 .. n |-> f[i]] /\ f[0] = <<>>
        /\ \A i \in 1 .. n : f[i] = f[i - 1] \o KeysOf(data[i - 1])
    BY <2>1 DEF Collects
  <2> DEFINE g == [i \in 0 .. n + 1 |->
                     IF i <= n THEN f[i] ELSE f[n] \o KeysOf(data[n])]
             h == [i \in 0 .. n + 1 |->
                     IF i = 0 THEN <<>> ELSE g[i - 1] \o KeysOf(data[i - 1])]
  <2>3. ASSUME NEW i \in 0 .. n + 1 PROVE g[i] = h[i]
    <3>1. CASE i = 0
      BY <2>2, <3>1
    <3>2. CASE i \in 1 .. n
      <4>1. i - 1 \in 0 .. n + 1 /\ i - 1 <= n /\ i # 0 /\ i <= n
        BY <3>2
      <4>2. g[i - 1] = f[i - 1] /\ g[i] = f[i]
        BY <4>1
      <4>3. h[i] = g[i - 1] \o KeysOf(data[i - 1])
        BY <4>1
      <4> QED
        BY <2>2, <3>2, <4>2, <4>3
    <3>3. CASE i = n + 1
      <4>1. /\ n \in 0 .. n + 1 /\ n <= n /\ n + 1 # 0 /\ (n + 1) - 1 = n
            /\ n + 1 \in 0 .. n + 1 /\ ~(n + 1 <= n)
        OBVIOUS
      <4>2. g[n] = f[n]
        BY <4>1
      <4>3. g[n + 1] = f[n] \o KeysOf(data[n])
        BY <4>1
      <4>4. h[n + 1] = g[n] \o KeysOf(data[n])
        BY <4>1
      <4> QED
        BY <3>3, <4>2, <4>3, <4>4
    <3> QED
      BY <3>1, <3>2, <3>3
  <2>4. g = h
    <3>1. g = [i \in 0 .. n + 1 |-> g[i]]
      OBVIOUS
    <3>2. h = [i \in 0 .. n + 1 |-> h[i]]
      OBVIOUS
    <3> HIDE DEF g, h
    <3> QED
      BY <2>3, <3>1, <3>2
  <2>5. Collects(data, n + 1, g)
    BY <2>4, Zenon DEF Collects
  <2> QED
    BY <2>5
<1> HIDE DEF T
<1>3. \A n \in Nat : n \in T
  BY <1>1, <1>2, AllNaturals, Zenon
<1> QED
  BY <1>3 DEF T

LEMMA AllKeysAre ==
    ASSUME NEW data, NEW size \in Nat
    PROVE  \E f : /\ f[0] = <<>>
                  /\ \A i \in 0 .. size - 1 : f[i + 1] = f[i] \o KeysOf(data[i])
                  /\ GetAllKeys(data, size) = f[size]
<1> DEFINE f == CHOOSE f : Collects(data, size, f)
<1>1. Collects(data, size, f)
  BY Collected
<1>2. GetAllKeys(data, size) = f[size]
  BY Zenon DEF GetAllKeys, Collects, KeysOf
<1> HIDE DEF f
<1>3. f[0] = <<>>
  BY <1>1 DEF Collects
<1>4. ASSUME NEW i \in 0 .. size - 1 PROVE f[i + 1] = f[i] \o KeysOf(data[i])
  <2>1. i + 1 \in 0 .. size /\ i + 1 # 0 /\ (i + 1) - 1 = i
    OBVIOUS
  <2> QED
    BY <1>1, <2>1 DEF Collects
<1> QED
  BY <1>2, <1>3, <1>4

(* GetAllKeys, and the keys of the first n lists. *)
KeysBelow(data, n) == {k \in Keys : \E p \in 0 .. n - 1 : HasKey(data[p], k)}

LEMMA KeysOfParts ==
    ASSUME NEW list \in Seq(Element), Unique(list)
    PROVE  /\ KeysOf(list) \in Seq(Keys)
           /\ Len(KeysOf(list)) = Len(list)
           /\ \A j \in 1 .. Len(list) : KeysOf(list)[j] = list[j].key
           /\ \A i, j \in 1 .. Len(list) : KeysOf(list)[i] = KeysOf(list)[j] => i = j
<1>0. \A j \in 1 .. Len(list) : list[j] \in Element
  OBVIOUS
<1>1. Len(list) \in Nat /\ \A j \in 1 .. Len(list) : list[j].key \in Keys
  BY <1>0 DEF Element
<1>2. /\ KeysOf(list) \in Seq(Keys) /\ Len(KeysOf(list)) = Len(list)
      /\ \A j \in 1 .. Len(list) : KeysOf(list)[j] = list[j].key
  BY <1>1 DEF KeysOf
<1> QED
  BY <1>2 DEF Unique

(* Of two lists without a common key that have each of theirs once, the    *)
(* one behind the other has each of them once.                             *)
LEMMA OneBehindTheOther ==
    ASSUME NEW S, NEW s \in Seq(S), NEW t \in Seq(S),
           \A i, j \in 1 .. Len(s) : s[i] = s[j] => i = j,
           \A i, j \in 1 .. Len(t) : t[i] = t[j] => i = j,
           \A i \in 1 .. Len(s), j \in 1 .. Len(t) : s[i] # t[j]
    PROVE  /\ s \o t \in Seq(S)
           /\ \A i, j \in 1 .. Len(s \o t) : (s \o t)[i] = (s \o t)[j] => i = j
           /\ \A x : (\E i \in 1 .. Len(s \o t) : (s \o t)[i] = x) <=>
                        \/ \E i \in 1 .. Len(s) : s[i] = x
                        \/ \E i \in 1 .. Len(t) : t[i] = x
<1> DEFINE u == s \o t
           m == Len(s)
           n == Len(t)
<1>1. /\ u \in Seq(S) /\ Len(u) = m + n /\ m \in Nat /\ n \in Nat
      /\ \A i \in 1 .. m + n : u[i] = IF i <= m THEN s[i] ELSE t[i - m]
  OBVIOUS
<1> HIDE DEF u
<1>2. ASSUME NEW i \in 1 .. m + n
      PROVE  \/ i \in 1 .. m /\ u[i] = s[i]
             \/ i - m \in 1 .. n /\ i \notin 1 .. m /\ u[i] = t[i - m]
  BY <1>1
<1>3. ASSUME NEW i \in 1 .. m PROVE i \in 1 .. m + n /\ u[i] = s[i]
  BY <1>1
<1>4. ASSUME NEW i \in 1 .. n PROVE m + i \in 1 .. m + n /\ u[m + i] = t[i]
  <2>1. m + i \in 1 .. m + n /\ ~(m + i <= m) /\ (m + i) - m = i
    BY <1>1
  <2> QED
    BY <1>1, <2>1
<1>5. ASSUME NEW i \in 1 .. m + n, NEW j \in 1 .. m + n, u[i] = u[j] PROVE i = j
  <2>1. CASE i \in 1 .. m /\ j \in 1 .. m
    BY <1>3, <1>5, <2>1
  <2>2. CASE i \notin 1 .. m /\ j \notin 1 .. m
    <3>1. i - m \in 1 .. n /\ j - m \in 1 .. n /\ t[i - m] = t[j - m]
      BY <1>2, <1>5, <2>2
    <3>2. i - m = j - m
      BY <3>1
    <3> QED
      BY <1>1, <3>2
  <2>3. CASE i \in 1 .. m /\ j \notin 1 .. m
    BY <1>2, <1>5, <2>3
  <2>4. CASE i \notin 1 .. m /\ j \in 1 .. m
    BY <1>2, <1>5, <2>4
  <2> QED
    BY <2>1, <2>2, <2>3, <2>4
<1>6. ASSUME NEW x
      PROVE  (\E i \in 1 .. m + n : u[i] = x) <=> \/ \E i \in 1 .. m : s[i] = x
                                                  \/ \E i \in 1 .. n : t[i] = x
  BY <1>2, <1>3, <1>4
<1> QED
  BY <1>1, <1>5, <1>6 DEF u

LEMMA AllKeysAreThere ==
    ASSUME NEW data, NEW size, WellPlaced(data, size)
    PROVE  LET keys == GetAllKeys(data, size) IN
           /\ keys \in Seq(Keys)
           /\ \A i, j \in 1 .. Len(keys) : keys[i] = keys[j] => i = j
           /\ \A k : (\E i \in 1 .. Len(keys) : keys[i] = k) <=> k \in KeysIn(data, size)
<1>1. size \in Nat /\ size # 0
  BY DEF WellPlaced
<1>2. PICK f : /\ f[0] = <<>>
               /\ \A i \in 0 .. size - 1 : f[i + 1] = f[i] \o KeysOf(data[i])
               /\ GetAllKeys(data, size) = f[size]
  BY <1>1, AllKeysAre
<1> DEFINE Has(n) ==
              /\ f[n] \in Seq(Keys)
              /\ \A i, j \in 1 .. Len(f[n]) : f[n][i] = f[n][j] => i = j
              /\ \A k : (\E i \in 1 .. Len(f[n]) : f[n][i] = k) <=> k \in KeysBelow(data, n)
           T == {n \in Nat : n <= size => Has(n)}
<1>3. 0 \in T
  <2>1. f[0] \in Seq(Keys) /\ Len(f[0]) = 0
    BY <1>2
  <2>2. KeysBelow(data, 0) = {}
    BY DEF KeysBelow
  <2>3. Has(0)
    BY <2>1, <2>2
  <2> QED
    BY <2>3
<1>4. ASSUME NEW n \in Nat, n \in T PROVE n + 1 \in T
  <2> SUFFICES ASSUME n + 1 <= size PROVE Has(n + 1)
    OBVIOUS
  <2>1. n <= size /\ n \in 0 .. size - 1
    BY <1>1
  <2>2. Has(n)
    BY <1>4, <2>1
  <2>3. f[n + 1] = f[n] \o KeysOf(data[n])
    BY <1>2, <2>1
  <2>4. /\ data[n] \in Seq(Element) /\ Unique(data[n])
        /\ \A i \in 1 .. Len(data[n]) : GetTableEntryPosition(data[n][i].key, size) = n
    BY <2>1 DEF WellPlaced
  <2> DEFINE t == KeysOf(data[n])
  <2>5. /\ t \in Seq(Keys) /\ Len(t) = Len(data[n])
        /\ \A j \in 1 .. Len(data[n]) : t[j] = data[n][j].key
        /\ \A i, j \in 1 .. Len(t) : t[i] = t[j] => i = j
    BY <2>4, KeysOfParts
  <2> HIDE DEF t
  <2>6. \A k : (\E i \in 1 .. Len(t) : t[i] = k) <=> HasKey(data[n], k)
    BY <2>5 DEF HasKey
  <2>7. ASSUME NEW i \in 1 .. Len(f[n]), NEW j \in 1 .. Len(t), f[n][i] = t[j] PROVE FALSE
    <3>1. t[j] \in KeysBelow(data, n)
      BY <2>2, <2>7
    <3>2. PICK p \in 0 .. n - 1 : HasKey(data[p], t[j])
      BY <3>1 DEF KeysBelow
    <3>3. p \in 0 .. size - 1 /\ p # n
      BY <1>1, <2>1
    <3>4. GetTableEntryPosition(t[j], size) = p
      BY <3>2, <3>3 DEF HasKey, WellPlaced
    <3>5. GetTableEntryPosition(t[j], size) = n
      BY <2>4, <2>5
    <3> QED
      BY <3>3, <3>4, <3>5
  <2>8. /\ f[n] \o t \in Seq(Keys)
        /\ \A i, j \in 1 .. Len(f[n] \o t) : (f[n] \o t)[i] = (f[n] \o t)[j] => i = j
        /\ \A k : (\E i \in 1 .. Len(f[n] \o t) : (f[n] \o t)[i] = k) <=>
                     \/ \E i \in 1 .. Len(f[n]) : f[n][i] = k
                     \/ \E i \in 1 .. Len(t) : t[i] = k
    BY <2>2, <2>5, <2>7, OneBehindTheOther
  <2>9. \A k : k \in KeysBelow(data, n + 1) <=> k \in KeysBelow(data, n) \/ HasKey(data[n], k)
    <3>1. \A p : p \in 0 .. (n + 1) - 1 <=> p \in 0 .. n - 1 \/ p = n
      OBVIOUS
    <3>2. \A k : HasKey(data[n], k) => k \in Keys
      BY <2>5, <2>6
    <3> QED
      BY <3>1, <3>2 DEF KeysBelow
  <2>10. \A k : (\E i \in 1 .. Len(f[n] \o t) : (f[n] \o t)[i] = k)
                    <=> k \in KeysBelow(data, n + 1)
    BY <2>2, <2>6, <2>8, <2>9
  <2>11. f[n + 1] = f[n] \o t
    BY <2>3 DEF t
  <2> QED
    BY <2>8, <2>10, <2>11
<1> HIDE DEF T
<1>5. \A n \in Nat : n \in T
  BY <1>3, <1>4, AllNaturals, Zenon
<1>6. size \in T /\ size <= size
  BY <1>1, <1>5
<1>7. Has(size)
  BY <1>6 DEF T
<1>8. KeysBelow(data, size) = KeysIn(data, size)
  BY DEF KeysBelow, KeysIn
<1> QED
  BY <1>2, <1>7, <1>8

(* A sequence without a repetition is as long as it has members. *)
LEMMA LengthOfUnique ==
    ASSUME NEW S, NEW s \in Seq(S), \A i, j \in 1 .. Len(s) : s[i] = s[j] => i = j
    PROVE  Len(s) = Cardinality({s[i] : i \in 1 .. Len(s)})
<1> DEFINE R == {s[i] : i \in 1 .. Len(s)}
<1>1. Len(s) \in Nat /\ s \in [1 .. Len(s) -> S]
  OBVIOUS
<1>2. s \in Bijection(1 .. Len(s), R)
  BY <1>1 DEF Bijection, Injection, Surjection, IsInjective
<1>3. ExistsBijection(1 .. Len(s), R)
  BY <1>2 DEF ExistsBijection
<1> HIDE DEF R
<1>4. Cardinality(R) = Len(s)
  BY <1>1, <1>3, FS_CountingElements, Zenon
<1> QED
  BY <1>4 DEF R

(* GetAllKeys lists each key of the table, and none of them twice          *)
(* (HashTable::GetAllKeys), whatever was added and removed.                *)
THEOREM AllKeysAreListed == Spec => []AllKeysOnce
<1>1. TableInv /\ [Next]_vars => TableInv'
  BY TableNext
<1>2. TableInv => AllKeysOnce
  <2> SUFFICES ASSUME TableInv PROVE AllKeysOnce
    OBVIOUS
  <2> DEFINE keys == GetAllKeys(m_data, m_size)
             R == {keys[i] : i \in 1 .. Len(keys)}
  <2>1. /\ keys \in Seq(Keys)
        /\ \A i, j \in 1 .. Len(keys) : keys[i] = keys[j] => i = j
        /\ \A k : (\E i \in 1 .. Len(keys) : keys[i] = k) <=> k \in KeysIn(m_data, m_size)
    BY AllKeysAreThere DEF TableInv
  <2>2. Stored = KeysIn(m_data, m_size)
    BY TheMap
  <2> HIDE DEF keys
  <2>3. R = Stored
    BY <2>1, <2>2
  <2>4. Range(keys) = R
    BY <2>1 DEF Range
  <2>5. Len(keys) = Cardinality(R)
    BY <2>1, LengthOfUnique
  <2> QED
    BY <2>3, <2>4, <2>5 DEF AllKeysOnce, keys
<1> QED
  BY <1>1, <1>2, TableInit, PTL DEF Spec
-----------------------------------------------------------------------------
(* Streams over memory.  What each call says, for a call it says it of:    *)
(* what MemoryExact is of one step.                                        *)
ReadRight ==
    memoryCall'.op = "read" /\ ~memoryCall'.outside =>
        LET s == memoryCall'.id
        IN  /\ memoryCall'.got = SubSeq(memory, memoryStream[s].at + 1,
                                        memoryStream[s].at + Len(memoryCall'.got))
            /\ memoryStream'[s].at = memoryStream[s].at + Len(memoryCall'.got)
            /\ memory' = memory

WriteRight ==
    memoryCall'.op \in {"write", "throw"} =>
        LET at == memoryStream[memoryCall'.id].at
        IN  IF memoryCall'.returned = 0 THEN memory' = memory
            ELSE /\ at + memoryCall'.returned <= Len(memory')
                 /\ Len(memory') \in {Len(memory), at + memoryCall'.returned}
                 /\ \A i \in DOMAIN memory' :
                      memory'[i] = IF i \in at + 1 .. at + memoryCall'.returned
                                   THEN memoryCall'.got[i - at] ELSE memory[i]

OthersRight ==
    /\ \A i \in DOMAIN memory :
          memoryCall'.op # "write" => i \in DOMAIN memory' /\ memory'[i] = memory[i]
    /\ \A s \in M!Open :
          s # memoryCall'.id /\ memoryCall'.op # "none" => memoryStream'[s] = memoryStream[s]

MemoryRight == ReadRight /\ WriteRight /\ OthersRight

StreamState == [at : Nat, status : {"none", "end"}]

(* A position is not behind the bound of the bytes; when the data grows    *)
(* with the positions, it is not behind the data.                          *)
StreamsInv ==
    /\ memory \in Seq(ByteValues) /\ Len(memory) <= MaxBytes
    /\ memoryStream = [s \in Ids |-> memoryStream[s]]
    /\ \A s \in M!Open : memoryStream[s] \in StreamState /\ memoryStream[s].at <= MaxBytes
MemoryInv ==
    /\ StreamsInv
    /\ \A s \in M!Open : memoryStream[s].at <= Len(memory)

LEMMA NumbersFit ==
    /\ MaxBytes \in Nat /\ Wrap \in Nat /\ 0 \in ByteValues
    /\ \A i \in 0 .. MaxBytes + 2 : i < Wrap \div 2 /\ i % Wrap = i /\ ~(i >= Wrap \div 2)
<1>1. MaxBytes \in Nat /\ Wrap \in Nat /\ Wrap \div 2 > MaxBytes + 2 /\ 0 \in ByteValues
  BY MCAssumption DEF M!MemoryStreamsAssumption
<1>2. Wrap \div 2 \in Nat /\ Wrap \div 2 <= Wrap
  BY <1>1
<1>3. ASSUME NEW i \in 0 .. MaxBytes + 2 PROVE i % Wrap = i
  BY <1>1, <1>2
<1>4. ASSUME NEW i \in 0 .. MaxBytes + 2 PROVE i < Wrap \div 2 /\ ~(i >= Wrap \div 2)
  BY <1>1, <1>2
<1> QED
  BY <1>1, <1>3, <1>4

LEMMA PieceLength ==
    ASSUME NEW S, NEW q \in Seq(S), NEW a \in Nat, NEW k \in Nat, a + k <= Len(q)
    PROVE  Len(SubSeq(q, a + 1, a + k)) = k
<1>1. CASE k = 0
  BY <1>1
<1>2. CASE k > 0
  <2>1. a + 1 \in 1 .. Len(q) + 1 /\ a + k \in a + 1 - 1 .. Len(q)
    BY <1>2
  <2>2. Len(SubSeq(q, a + 1, a + k)) = (a + k) - (a + 1) + 1
    BY <2>1
  <2>3. (a + k) - (a + 1) + 1 = k
    OBVIOUS
  <2> QED
    BY <2>2, <2>3
<1> QED
  BY <1>1, <1>2

(* A stream that moves, and the others do not. *)
LEMMA OneMoves ==
    ASSUME StreamsInv, NEW s \in M!Open, NEW p \in Nat,
           memoryStream' = [memoryStream EXCEPT ![s].at = p]
    PROVE  /\ memoryStream' = [x \in Ids |-> memoryStream'[x]]
           /\ memoryStream'[s] \in StreamState /\ memoryStream'[s].at = p
           /\ \A x \in Ids : x # s => memoryStream'[x] = memoryStream[x]
           /\ M!Open' \subseteq M!Open
<1>1. s \in Ids /\ memoryStream[s] \in StreamState
  BY DEF StreamsInv, M!Open
<1>2. memoryStream = [x \in Ids |-> memoryStream[x]]
  BY DEF StreamsInv
<1>3. memoryStream' = [x \in Ids |->
                         IF x = s THEN [memoryStream[s] EXCEPT !.at = p] ELSE memoryStream[x]]
  BY <1>1, <1>2
<1>4. [memoryStream[s] EXCEPT !.at = p] \in StreamState /\ [memoryStream[s] EXCEPT !.at = p].at = p
  BY <1>1 DEF StreamState
<1>5. /\ \A x \in Ids : x # s => memoryStream'[x] = memoryStream[x]
      /\ memoryStream'[s] = [memoryStream[s] EXCEPT !.at = p]
  BY <1>1, <1>3
<1>6. memoryStream' = [x \in Ids |-> memoryStream'[x]]
  BY <1>3
<1>7. M!Open' \subseteq M!Open
  BY <1>5 DEF M!Open
<1> QED
  BY <1>4, <1>5, <1>6, <1>7

LEMMA BytesStored ==
    ASSUME NEW p \in Nat, p <= Len(memory), memory \in Seq(ByteValues), NEW bytes \in Seq(ByteValues)
    PROVE  /\ M!Stored(p, bytes) \in Seq(ByteValues)
           /\ Len(M!Stored(p, bytes)) = IF p + Len(bytes) > Len(memory)
                                        THEN p + Len(bytes) ELSE Len(memory)
           /\ \A i \in 1 .. Len(M!Stored(p, bytes)) :
                 M!Stored(p, bytes)[i] = IF i \in p + 1 .. p + Len(bytes)
                                         THEN bytes[i - p] ELSE memory[i]
<1> DEFINE n == IF p + Len(bytes) > Len(memory) THEN p + Len(bytes) ELSE Len(memory)
           e == [i \in 1 .. n |->
                   IF i \in p + 1 .. p + Len(bytes) THEN bytes[i - p] ELSE memory[i]]
<1>1. M!Stored(p, bytes) = e
  BY Zenon DEF M!Stored, M!Overwritten
<1>2. n \in Nat /\ Len(bytes) \in Nat /\ Len(memory) \in Nat
  OBVIOUS
<1>3. ASSUME NEW i \in 1 .. n PROVE e[i] \in ByteValues
  <2>1. CASE i \in p + 1 .. p + Len(bytes)
    <3>1. i - p \in 1 .. Len(bytes)
      BY <1>2, <2>1
    <3> QED
      BY <2>1, <3>1
  <2>2. CASE i \notin p + 1 .. p + Len(bytes)
    <3>1. i \in 1 .. Len(memory)
      BY <1>2, <2>2
    <3> QED
      BY <2>2, <3>1
  <2> QED
    BY <2>1, <2>2
<1>4. e \in Seq(ByteValues) /\ Len(e) = n
  BY <1>2, <1>3
<1> QED
  BY <1>1, <1>4

(* A read gives what is there, and the stream goes on behind it. *)
LEMMA ReadIsRight ==
    ASSUME StreamsInv, NEW s \in M!Open, NEW n \in Nat, NEW k \in Nat, NEW r \in Nat,
           memoryStream[s].at + k <= Len(memory),
           memoryStream' = [memoryStream EXCEPT ![s].at = memoryStream[s].at + k],
           memoryCall' = M!Call("read", s, n, r, SubSeq(memory, memoryStream[s].at + 1,
                                                        memoryStream[s].at + k)),
           memory' = memory
    PROVE  StreamsInv' /\ MemoryRight
<1> DEFINE at == memoryStream[s].at
           got == SubSeq(memory, at + 1, at + k)
<1>1. at \in Nat /\ memory \in Seq(ByteValues) /\ Len(memory) <= MaxBytes /\ MaxBytes \in Nat
  BY NumbersFit DEF StreamsInv, StreamState
<1>2. Len(got) = k
  BY <1>1, PieceLength
<1>3. at + k \in Nat /\ at + k <= MaxBytes
  BY <1>1
<1>4. /\ memoryStream' = [x \in Ids |-> memoryStream'[x]]
      /\ memoryStream'[s] \in StreamState /\ memoryStream'[s].at = at + k
      /\ \A x \in Ids : x # s => memoryStream'[x] = memoryStream[x]
      /\ M!Open' \subseteq M!Open
  BY <1>3, OneMoves
<1> HIDE DEF got
<1>5. /\ memoryCall'.op = "read" /\ memoryCall'.id = s /\ memoryCall'.got = got
  BY DEF M!Call, got
<1>6. ReadRight
  BY <1>2, <1>4, <1>5 DEF ReadRight, got
<1>7. WriteRight
  BY <1>5 DEF WriteRight
<1>8. OthersRight
  BY <1>4, <1>5 DEF OthersRight, M!Open
<1>9. StreamsInv'
  <2>1. ASSUME NEW x \in M!Open'
        PROVE  memoryStream'[x] \in StreamState /\ memoryStream'[x].at <= MaxBytes
    <3>1. x \in M!Open /\ x \in Ids
      BY <1>4, <2>1 DEF M!Open
    <3> QED
      BY <1>3, <1>4, <3>1 DEF StreamsInv
  <2> QED
    BY <1>1, <1>4, <2>1 DEF StreamsInv
<1> QED
  BY <1>6, <1>7, <1>8, <1>9 DEF MemoryRight

(* A call that changes nothing but what it says. *)
LEMMA NothingHappens ==
    ASSUME StreamsInv, memory' = memory, memoryStream' = memoryStream,
           memoryCall'.op \in {"read", "write", "throw"},
           memoryCall'.op # "read" => memoryCall'.returned = 0,
           memoryCall'.op = "read" => memoryCall'.got = <<>>,
           memoryCall'.id \in M!Open
    PROVE  StreamsInv' /\ MemoryRight
<1>1. memoryStream[memoryCall'.id].at \in Nat
  BY DEF StreamsInv, StreamState
<1>2. ReadRight
  <2> SUFFICES ASSUME memoryCall'.op = "read" PROVE ReadRight
    BY DEF ReadRight
  <2> DEFINE at == memoryStream[memoryCall'.id].at
  <2>1. memoryCall'.got = <<>> /\ Len(memoryCall'.got) = 0
    OBVIOUS
  <2>2. at + 0 = at
    BY <1>1
  <2>3. SubSeq(memory, at + 1, at) = <<>>
    BY <1>1 DEF StreamsInv
  <2> QED
    BY <2>1, <2>2, <2>3 DEF ReadRight
<1>3. WriteRight
  BY DEF WriteRight
<1>4. OthersRight
  BY DEF OthersRight, M!Open
<1>5. StreamsInv'
  BY DEF StreamsInv, M!Open
<1> QED
  BY <1>2, <1>3, <1>4, <1>5 DEF MemoryRight

(* A write leaves the bytes where the stream was, and the others as they   *)
(* were.                                                                   *)
LEMMA WriteIsRight ==
    ASSUME StreamsInv, NEW s \in M!Open, NEW bytes \in Seq(ByteValues), bytes # <<>>,
           memoryStream[s].at <= Len(memory),
           memoryStream[s].at + Len(bytes) <= MaxBytes,
           memory' = M!Stored(memoryStream[s].at, bytes),
           memoryStream' = [memoryStream EXCEPT ![s].at = memoryStream[s].at + Len(bytes)],
           memoryCall' = M!Call("write", s, Len(bytes), Len(bytes), bytes)
    PROVE  /\ StreamsInv' /\ MemoryRight
           /\ Len(memory') >= Len(memory) /\ memoryStream'[s].at <= Len(memory')
           /\ \A x \in Ids : x # s => memoryStream'[x] = memoryStream[x]
<1> DEFINE at == memoryStream[s].at
           k  == Len(bytes)
<1>1. at \in Nat /\ memory \in Seq(ByteValues) /\ Len(memory) <= MaxBytes /\ MaxBytes \in Nat
  BY NumbersFit DEF StreamsInv, StreamState
<1>2. k \in Nat \ {0} /\ at + k \in Nat
  BY <1>1
<1>3. /\ memory' \in Seq(ByteValues)
      /\ Len(memory') = IF at + k > Len(memory) THEN at + k ELSE Len(memory)
      /\ \A i \in 1 .. Len(memory') :
            memory'[i] = IF i \in at + 1 .. at + k THEN bytes[i - at] ELSE memory[i]
  BY <1>1, BytesStored
<1>4. /\ memoryStream' = [x \in Ids |-> memoryStream'[x]]
      /\ memoryStream'[s] \in StreamState /\ memoryStream'[s].at = at + k
      /\ \A x \in Ids : x # s => memoryStream'[x] = memoryStream[x]
      /\ M!Open' \subseteq M!Open
  BY <1>2, OneMoves
<1>5. /\ memoryCall'.op = "write" /\ memoryCall'.id = s
      /\ memoryCall'.returned = k /\ memoryCall'.got = bytes
  BY DEF M!Call
<1>6. Len(memory) \in Nat /\ Len(memory') \in Nat
  BY <1>1, <1>3
<1>7. /\ Len(memory') \in {Len(memory), at + k} /\ at + k <= Len(memory')
      /\ Len(memory') >= Len(memory) /\ Len(memory') <= MaxBytes
  BY <1>1, <1>2, <1>3, <1>6
<1>8. ReadRight
  BY <1>5 DEF ReadRight
<1>9. WriteRight
  <2>1. DOMAIN memory' = 1 .. Len(memory')
    BY <1>3
  <2> QED
    BY <1>2, <1>3, <1>5, <1>7, <2>1 DEF WriteRight
<1>10. OthersRight
  BY <1>4, <1>5 DEF OthersRight, M!Open
<1>11. StreamsInv'
  <2>1. ASSUME NEW x \in M!Open'
        PROVE  memoryStream'[x] \in StreamState /\ memoryStream'[x].at <= MaxBytes
    <3>1. x \in M!Open /\ x \in Ids
      BY <1>4, <2>1 DEF M!Open
    <3> QED
      BY <1>4, <3>1 DEF StreamsInv
  <2> QED
    BY <1>3, <1>4, <1>7, <2>1 DEF StreamsInv
<1> QED
  BY <1>4, <1>7, <1>8, <1>9, <1>10, <1>11 DEF MemoryRight

(* A seek, a reset, a clone or a delete: no byte is changed.               *)
LEMMA OthersAreRight ==
    ASSUME StreamsInv, memory' \in Seq(ByteValues),
           Len(memory') >= Len(memory), Len(memory') <= MaxBytes,
           \A i \in 1 .. Len(memory) : memory'[i] = memory[i],
           memoryStream' = [x \in Ids |-> memoryStream'[x]],
           \A x \in M!Open' :
              memoryStream'[x] \in StreamState /\ memoryStream'[x].at <= MaxBytes,
           memoryCall'.op \in {"seek", "reset", "clone", "none"},
           memoryCall'.op # "none" =>
              \A x \in M!Open : x # memoryCall'.id => memoryStream'[x] = memoryStream[x]
    PROVE  StreamsInv' /\ MemoryRight
<1>1. memory \in Seq(ByteValues)
  BY DEF StreamsInv
<1>2. ReadRight /\ WriteRight
  BY DEF ReadRight, WriteRight
<1>3. OthersRight
  <2>1. ASSUME NEW i \in DOMAIN memory PROVE i \in DOMAIN memory' /\ memory'[i] = memory[i]
    BY <1>1, <2>1
  <2> QED
    BY <2>1 DEF OthersRight
<1>4. StreamsInv'
  BY DEF StreamsInv
<1> QED
  BY <1>2, <1>3, <1>4 DEF MemoryRight

(* What the position is set to: no sum wraps.                              *)
LEMMA SeekTarget ==
    ASSUME StreamsInv, NEW s \in M!Open, NEW pos \in -2 .. 2,
           NEW mode \in {"SET", "CURRENT", "END"}, M!Target(s, pos, mode) >= 0,
           \/ M!Target(s, pos, mode) % Wrap <= MaxBytes
           \/ M!Target(s, pos, mode) % Wrap >= Wrap \div 2
    PROVE  /\ M!Target(s, pos, mode) % Wrap \in 0 .. MaxBytes
           /\ ~(M!Target(s, pos, mode) % Wrap >= Wrap \div 2)
<1> DEFINE t == M!Target(s, pos, mode)
<1>1. /\ memoryStream[s].at \in 0 .. MaxBytes /\ Len(memory) \in 0 .. MaxBytes
      /\ MaxBytes \in Nat
  <2>1. memoryStream[s] \in StreamState /\ memoryStream[s].at <= MaxBytes /\ MaxBytes \in Nat
    BY NumbersFit DEF StreamsInv
  <2>2. memory \in Seq(ByteValues) /\ Len(memory) <= MaxBytes
    BY DEF StreamsInv
  <2>3. memoryStream[s].at \in Nat
    BY <2>1 DEF StreamState
  <2>4. Len(memory) \in Nat
    BY <2>2
  <2> QED
    BY <2>1, <2>2, <2>3, <2>4
<1>2. t \in 0 .. MaxBytes + 2
  <2>1. CASE mode = "SET"
    <3>1. t = pos + 0
      BY <2>1 DEF M!Target
    <3> QED
      BY <1>1, <3>1
  <2>2. CASE mode = "CURRENT"
    <3>1. t = pos + memoryStream[s].at
      BY <2>2 DEF M!Target
    <3> HIDE DEF t
    <3>2. t >= 0
      BY DEF t
    <3> QED
      BY <1>1, <3>1, <3>2
  <2>3. CASE mode = "END"
    <3>1. t = pos + Len(memory)
      BY <2>3 DEF M!Target
    <3> HIDE DEF t
    <3>2. t >= 0
      BY DEF t
    <3> QED
      BY <1>1, <3>1, <3>2
  <2> QED
    BY <2>1, <2>2, <2>3
<1>3. t % Wrap = t /\ ~(t >= Wrap \div 2)
  BY <1>2, NumbersFit
<1> HIDE DEF t
<1>4. t % Wrap <= MaxBytes \/ t % Wrap >= Wrap \div 2
  BY DEF t
<1>5. t % Wrap \in 0 .. MaxBytes /\ ~(t % Wrap >= Wrap \div 2)
  BY <1>1, <1>2, <1>3, <1>4
<1> QED
  BY <1>5 DEF t

(* The bytes a call of WriteBytes is given. *)
LEMMA SomeBytes ==
    \A b \in ByteValues : /\ <<b>> \in Seq(ByteValues) /\ <<b>> # <<>>
                     /\ \A c \in ByteValues : <<b, c>> \in Seq(ByteValues) /\ <<b, c>> # <<>>
  OBVIOUS

LEMMA SomeRead ==
    ASSUME memory \in Seq(ByteValues), NEW at \in Nat, NEW n \in Nat, at + n <= Len(memory)
    PROVE  Len(SubSeq(memory, at + 1, at + n)) = n
  OBVIOUS

(* A MemoryStream reads all or nothing. *)
LEMMA MemoryReadIs ==
    ASSUME MemoryInv, NEW s \in Ids, NEW n \in 0 .. 2, M!ReadBytes(s, n)
    PROVE  \/ /\ memoryCall' = M!Call("read", s, n, 0, <<>>)
              /\ memoryStream' = memoryStream
           \/ /\ memoryStream[s].at + n <= Len(memory)
              /\ memoryCall' = M!Call("read", s, n, n,
                    SubSeq(memory, memoryStream[s].at + 1, memoryStream[s].at + n))
              /\ memoryStream' = [memoryStream EXCEPT ![s].at = memoryStream[s].at + n]
<1> DEFINE at == memoryStream[s].at
<1>1. /\ s \in M!Open /\ memory' = memory /\ StreamsInv
      /\ \A x \in M!Open : memoryStream[x].at <= Len(memory)
  BY DEF M!ReadBytes, MemoryInv
<1>2. /\ at \in Nat /\ at <= MaxBytes /\ Len(memory) \in Nat /\ MaxBytes \in Nat
      /\ n \in Nat /\ memory \in Seq(ByteValues)
  <2>1. memoryStream[s] \in StreamState /\ at <= MaxBytes /\ memory \in Seq(ByteValues)
    BY <1>1 DEF StreamsInv
  <2> QED
    BY <2>1, NumbersFit DEF StreamState
<1>3. (at + n) % Wrap = at + n
  <2>1. at + n \in 0 .. MaxBytes + 2
    BY <1>2
  <2> QED
    BY <2>1, NumbersFit
<1>4. \/ memoryCall' = M!Call("read", s, n, 0, <<>>) /\ memoryStream' = memoryStream
      \/ /\ at + n <= Len(memory)
         /\ memoryCall' = M!Call("read", s, n, n, SubSeq(memory, at + 1, at + n))
         /\ memoryStream' = [memoryStream EXCEPT ![s].at = at + n]
  <2>1. CASE memoryStream[s].status # "none"
    BY <2>1 DEF M!ReadBytes
  <2>2. CASE memoryStream[s].status = "none"
    <3>1. M!ReadMemory(s, n)
      BY <2>2 DEF M!ReadBytes
    <3>2. ~(at > Len(memory))
      BY <1>1, <1>2
    <3> QED
      BY <1>3, <3>1, <3>2 DEF M!ReadMemory, M!At
  <2> QED
    BY <2>1, <2>2
<1> QED
  BY <1>4

LEMMA MemoryReadsRight ==
    ASSUME MemoryInv, NEW s \in Ids, NEW n \in 0 .. 2, M!ReadBytes(s, n)
    PROVE  MemoryInv' /\ MemoryRight
<1> DEFINE at == memoryStream[s].at
<1>1. /\ s \in M!Open /\ memory' = memory /\ StreamsInv
      /\ \A x \in M!Open : memoryStream[x].at <= Len(memory)
  BY DEF M!ReadBytes, MemoryInv
<1>2. /\ at \in Nat /\ at <= MaxBytes /\ Len(memory) \in Nat /\ MaxBytes \in Nat
      /\ n \in Nat /\ memory \in Seq(ByteValues)
  <2>1. memoryStream[s] \in StreamState /\ at <= MaxBytes /\ memory \in Seq(ByteValues)
    BY <1>1 DEF StreamsInv
  <2> QED
    BY <2>1, NumbersFit DEF StreamState
<1>3. \/ memoryCall' = M!Call("read", s, n, 0, <<>>) /\ memoryStream' = memoryStream
      \/ /\ at + n <= Len(memory)
         /\ memoryCall' = M!Call("read", s, n, n, SubSeq(memory, at + 1, at + n))
         /\ memoryStream' = [memoryStream EXCEPT ![s].at = at + n]
  BY MemoryReadIs
<1>4. CASE memoryCall' = M!Call("read", s, n, 0, <<>>) /\ memoryStream' = memoryStream
  <2>1. StreamsInv' /\ MemoryRight
    BY <1>1, <1>4, NothingHappens DEF M!Call
  <2> QED
    BY <1>1, <1>4, <2>1 DEF MemoryInv, M!Open
<1>5. CASE /\ at + n <= Len(memory)
           /\ memoryCall' = M!Call("read", s, n, n, SubSeq(memory, at + 1, at + n))
           /\ memoryStream' = [memoryStream EXCEPT ![s].at = at + n]
  <2>1. StreamsInv' /\ MemoryRight
    BY <1>1, <1>2, <1>5, ReadIsRight
  <2>2. /\ memoryStream'[s].at = at + n /\ M!Open' \subseteq M!Open
        /\ \A x \in Ids : x # s => memoryStream'[x] = memoryStream[x]
    <3>1. at + n \in Nat
      BY <1>2
    <3> QED
      BY <1>1, <1>5, <3>1, OneMoves
  <2>3. ASSUME NEW x \in M!Open' PROVE memoryStream'[x].at <= Len(memory')
    BY <1>1, <1>5, <2>2, <2>3 DEF M!Open
  <2> QED
    BY <2>1, <2>3 DEF MemoryInv
<1> QED
  BY <1>3, <1>4, <1>5

LEMMA MemoryWritesRight ==
    ASSUME MemoryInv, NEW s \in Ids, NEW bytes \in Seq(ByteValues), bytes # <<>>,
           M!WriteBytes(s, bytes)
    PROVE  MemoryInv' /\ MemoryRight
<1> DEFINE at == memoryStream[s].at
<1>1. /\ s \in M!Open /\ StreamsInv
      /\ \A x \in M!Open : memoryStream[x].at <= Len(memory)
  BY DEF M!WriteBytes, MemoryInv
<1>2. at <= Len(memory) /\ at + Len(bytes) <= MaxBytes
  BY <1>1 DEF M!WriteBytes
<1>3. \/ /\ memoryCall' = M!Call("write", s, Len(bytes), 0, bytes)
         /\ memoryStream' = memoryStream /\ memory' = memory
      \/ M!Written(s, bytes)
  BY <1>2 DEF M!WriteBytes, M!WriteMemory
<1>4. CASE /\ memoryCall' = M!Call("write", s, Len(bytes), 0, bytes)
           /\ memoryStream' = memoryStream /\ memory' = memory
  <2>1. /\ memoryCall'.op = "write" /\ memoryCall'.id = s /\ memoryCall'.returned = 0
    BY <1>4 DEF M!Call
  <2>2. StreamsInv' /\ MemoryRight
    BY <1>1, <1>4, <2>1, NothingHappens
  <2> QED
    BY <1>1, <1>4, <2>2 DEF MemoryInv, M!Open
<1>5. CASE M!Written(s, bytes)
  <2>1. /\ memory' = M!Stored(at, bytes)
        /\ memoryStream' = [memoryStream EXCEPT ![s].at = at + Len(bytes)]
        /\ memoryCall' = M!Call("write", s, Len(bytes), Len(bytes), bytes)
    BY <1>5 DEF M!Written, M!At
  <2>2. /\ StreamsInv' /\ MemoryRight
        /\ Len(memory') >= Len(memory) /\ memoryStream'[s].at <= Len(memory')
        /\ \A x \in Ids : x # s => memoryStream'[x] = memoryStream[x]
    BY <1>1, <1>2, <2>1, WriteIsRight
  <2>3. ASSUME NEW x \in M!Open' PROVE memoryStream'[x].at <= Len(memory')
    <3>1. CASE x = s
      BY <2>2, <3>1
    <3>2. CASE x # s
      <4>1. x \in M!Open /\ memoryStream'[x] = memoryStream[x]
        BY <2>2, <2>3, <3>2 DEF M!Open
      <4>2. memoryStream[x] \in StreamState /\ memoryStream[x].at <= Len(memory)
        BY <1>1, <4>1 DEF StreamsInv
      <4>3. memoryStream[x].at \in Nat
        BY <4>2 DEF StreamState
      <4>4. Len(memory) \in Nat /\ Len(memory') \in Nat
        BY <1>1, <2>2 DEF StreamsInv
      <4> QED
        BY <2>2, <4>1, <4>2, <4>3, <4>4
    <3> QED
      BY <3>1, <3>2
  <2> QED
    BY <2>2, <2>3 DEF MemoryInv
<1> QED
  BY <1>3, <1>4, <1>5

(* A stream of a name: another one, a new one, or none. *)
LEMMA OneStreamChanges ==
    ASSUME StreamsInv, NEW c \in Ids, NEW new,
           memoryStream' = [memoryStream EXCEPT ![c] = new],
           new = null \/ (new \in StreamState /\ new.at <= MaxBytes),
           memory' \in Seq(ByteValues), Len(memory') >= Len(memory), Len(memory') <= MaxBytes,
           \A i \in 1 .. Len(memory) : memory'[i] = memory[i],
           memoryCall'.op \in {"seek", "reset", "clone", "none"},
           memoryCall'.op # "none" => memoryCall'.id = c \/ c \notin M!Open
    PROVE  /\ StreamsInv' /\ MemoryRight
           /\ memoryStream'[c] = new
           /\ \A x \in Ids : x # c => memoryStream'[x] = memoryStream[x]
<1>1. memoryStream = [x \in Ids |-> memoryStream[x]]
  BY DEF StreamsInv
<1>2. memoryStream' = [x \in Ids |-> IF x = c THEN new ELSE memoryStream[x]]
  BY <1>1
<1>3. /\ memoryStream'[c] = new
      /\ \A x \in Ids : x # c => memoryStream'[x] = memoryStream[x]
      /\ memoryStream' = [x \in Ids |-> memoryStream'[x]]
  BY <1>2
<1>4. ASSUME NEW x \in M!Open'
      PROVE  memoryStream'[x] \in StreamState /\ memoryStream'[x].at <= MaxBytes
  <2>1. CASE x = c
    BY <1>3, <1>4, <2>1 DEF M!Open
  <2>2. CASE x # c
    <3>1. x \in M!Open /\ memoryStream'[x] = memoryStream[x]
      BY <1>3, <1>4, <2>2 DEF M!Open
    <3> QED
      BY <3>1 DEF StreamsInv
  <2> QED
    BY <2>1, <2>2
<1>5. memoryCall'.op # "none" =>
         \A x \in M!Open : x # memoryCall'.id => memoryStream'[x] = memoryStream[x]
  BY <1>3 DEF M!Open
<1>6. StreamsInv' /\ MemoryRight
  BY <1>3, <1>4, <1>5, OthersAreRight
<1> QED
  BY <1>3, <1>6

LEMMA StreamMoved ==
    ASSUME StreamsInv, NEW s \in M!Open, NEW to \in 0 .. MaxBytes
    PROVE  /\ [memoryStream[s] EXCEPT !.at = to] \in StreamState
           /\ [memoryStream[s] EXCEPT !.at = to].at = to
           /\ s \in Ids
<1>1. memoryStream[s] \in StreamState /\ s \in Ids
  BY DEF StreamsInv, M!Open
<1>2. to \in Nat
  BY NumbersFit
<1> QED
  BY <1>1, <1>2 DEF StreamState

(* The data is made as large as the position is. *)
LEMMA ResizedBytes ==
    ASSUME memory \in Seq(ByteValues), Len(memory) <= MaxBytes, NEW to \in 0 .. MaxBytes
    PROVE  /\ M!Resized(to) \in Seq(ByteValues)
           /\ Len(M!Resized(to)) >= Len(memory) /\ Len(M!Resized(to)) <= MaxBytes
           /\ to <= Len(M!Resized(to))
           /\ \A i \in 1 .. Len(memory) : M!Resized(to)[i] = memory[i]
<1>1. Len(memory) \in Nat /\ to \in Nat /\ MaxBytes \in Nat /\ to <= MaxBytes
  BY NumbersFit
<1>2. CASE ~(to > Len(memory))
  <2>1. M!Resized(to) = memory
    BY <1>2 DEF M!Resized
  <2> QED
    BY <1>1, <1>2, <2>1
<1>3. CASE to > Len(memory)
  <2> DEFINE zeros == [i \in 1 .. to - Len(memory) |-> 0]
  <2>1. M!Resized(to) = memory \o zeros
    BY <1>3 DEF M!Resized
  <2>2. to - Len(memory) \in Nat
    BY <1>1, <1>3
  <2>3. zeros \in Seq(ByteValues) /\ Len(zeros) = to - Len(memory)
    BY <2>2, NumbersFit
  <2> HIDE DEF zeros
  <2>4. /\ memory \o zeros \in Seq(ByteValues)
        /\ Len(memory \o zeros) = to
        /\ \A i \in 1 .. Len(memory) : (memory \o zeros)[i] = memory[i]
    BY <1>1, <2>3
  <2> QED
    BY <1>1, <1>3, <2>1, <2>4
<1> QED
  BY <1>2, <1>3

LEMMA MemorySeeksRight ==
    ASSUME MemoryInv, NEW s \in Ids, NEW pos \in -2 .. 2, NEW mode \in {"SET", "CURRENT", "END"},
           M!SetPosition(s, pos, mode)
    PROVE  MemoryInv' /\ MemoryRight
<1> DEFINE to == M!Target(s, pos, mode) % Wrap
           new == [memoryStream[s] EXCEPT !.at = to]
<1>1. /\ s \in M!Open /\ StreamsInv /\ memory \in Seq(ByteValues) /\ Len(memory) <= MaxBytes
      /\ \A x \in M!Open : memoryStream[x].at <= Len(memory)
  BY DEF M!SetPosition, MemoryInv, StreamsInv
<1>2. to \in 0 .. MaxBytes /\ ~(to >= Wrap \div 2)
  BY <1>1, SeekTarget DEF M!SetPosition
<1>3. /\ memoryStream' = [memoryStream EXCEPT ![s].at = to]
      /\ memory' = M!Resized(to) /\ memoryCall' = M!Call("seek", s, to, 0, <<>>)
  BY <1>2 DEF M!SetPosition, M!SetPositionMemory, M!At
<1> HIDE DEF to
<1>4. /\ new \in StreamState /\ new.at = to /\ to <= MaxBytes
  BY <1>1, <1>2, StreamMoved
<1>5. memoryStream' = [memoryStream EXCEPT ![s] = new]
  BY <1>3
<1>6. /\ memory' \in Seq(ByteValues) /\ Len(memory') >= Len(memory) /\ Len(memory') <= MaxBytes
      /\ to <= Len(memory') /\ \A i \in 1 .. Len(memory) : memory'[i] = memory[i]
  BY <1>1, <1>2, <1>3, ResizedBytes
<1> HIDE DEF new
<1>7. memoryCall'.op = "seek" /\ memoryCall'.id = s
  BY <1>3 DEF M!Call
<1>8. /\ StreamsInv' /\ MemoryRight
      /\ memoryStream'[s] = new
      /\ \A x \in Ids : x # s => memoryStream'[x] = memoryStream[x]
  BY <1>1, <1>4, <1>5, <1>6, <1>7, OneStreamChanges
<1>9. ASSUME NEW x \in M!Open' PROVE memoryStream'[x].at <= Len(memory')
  <2>1. CASE x = s
    BY <1>4, <1>6, <1>8, <2>1
  <2>2. CASE x # s
    <3>1. x \in M!Open /\ memoryStream'[x] = memoryStream[x]
      BY <1>8, <1>9, <2>2 DEF M!Open
    <3>2. memoryStream[x] \in StreamState /\ memoryStream[x].at <= Len(memory)
      BY <1>1, <3>1 DEF StreamsInv
    <3>3. memoryStream[x].at \in Nat /\ Len(memory) \in Nat /\ Len(memory') \in Nat
      BY <1>1, <1>6, <3>2 DEF StreamState
    <3> QED
      BY <1>6, <3>1, <3>2, <3>3
  <2> QED
    BY <2>1, <2>2
<1> QED
  BY <1>8, <1>9 DEF MemoryInv

(* What changes no byte, and one stream at most. *)
LEMMA SameBytes ==
    ASSUME StreamsInv, NEW c \in Ids, NEW new,
           memoryStream' = [memoryStream EXCEPT ![c] = new],
           new = null \/ (new \in StreamState /\ new.at <= MaxBytes),
           memory' = memory,
           memoryCall'.op \in {"seek", "reset", "clone", "none"},
           memoryCall'.op # "none" => memoryCall'.id = c \/ c \notin M!Open
    PROVE  /\ StreamsInv' /\ MemoryRight
           /\ (\A x \in M!Open : memoryStream[x].at <= Len(memory))
              /\ (new # null => new.at <= Len(memory)) =>
              \A x \in M!Open' : memoryStream'[x].at <= Len(memory')
<1>1. /\ memory \in Seq(ByteValues) /\ Len(memory) \in Nat /\ Len(memory) <= MaxBytes
      /\ MaxBytes \in Nat
  BY NumbersFit DEF StreamsInv
<1>2. /\ memory' \in Seq(ByteValues) /\ Len(memory') >= Len(memory) /\ Len(memory') <= MaxBytes
      /\ \A i \in 1 .. Len(memory) : memory'[i] = memory[i]
  BY <1>1
<1>3. /\ StreamsInv' /\ MemoryRight
      /\ memoryStream'[c] = new
      /\ \A x \in Ids : x # c => memoryStream'[x] = memoryStream[x]
  BY <1>2, OneStreamChanges
<1> QED
  BY <1>3 DEF M!Open

LEMMA NewStream == M!New \in StreamState /\ M!New.at = 0
  BY DEF M!New, StreamState

LEMMA MemoryRest ==
    ASSUME StreamsInv, NEW s \in Ids,
           M!ResetStatus(s) \/ M!Delete(s) \/ (\E c \in Ids : M!Clone(s, c))
    PROVE  /\ StreamsInv' /\ MemoryRight
           /\ (\A x \in M!Open : memoryStream[x].at <= Len(memory)) =>
                 \A x \in M!Open' : memoryStream'[x].at <= Len(memory')
<1>1. /\ MaxBytes \in Nat /\ Len(memory) \in Nat
      /\ \A x \in M!Open : /\ x \in Ids /\ memoryStream[x] \in StreamState
                           /\ memoryStream[x].at \in Nat /\ memoryStream[x].at <= MaxBytes
  <2>1. memory \in Seq(ByteValues)
    BY DEF StreamsInv
  <2>2. ASSUME NEW x \in M!Open
        PROVE  /\ x \in Ids /\ memoryStream[x] \in StreamState
               /\ memoryStream[x].at \in Nat /\ memoryStream[x].at <= MaxBytes
    <3>1. memoryStream[x] \in StreamState /\ memoryStream[x].at <= MaxBytes /\ x \in Ids
      BY DEF StreamsInv, M!Open
    <3> QED
      BY <3>1 DEF StreamState
  <2> QED
    BY <2>1, <2>2, NumbersFit
<1>2. CASE M!ResetStatus(s)
  <2> DEFINE new == [memoryStream[s] EXCEPT !.status = "none"]
  <2>1. /\ s \in M!Open /\ memoryStream' = [memoryStream EXCEPT ![s] = new]
        /\ memory' = memory /\ memoryCall'.op = "reset" /\ memoryCall'.id = s
    BY <1>2 DEF M!ResetStatus, M!StatusReset, M!Call
  <2>2. new \in StreamState /\ new.at = memoryStream[s].at
    BY <1>1, <2>1 DEF StreamState
  <2>3. new.at <= MaxBytes
    BY <1>1, <2>1, <2>2
  <2>4. (\A x \in M!Open : memoryStream[x].at <= Len(memory)) => new.at <= Len(memory)
    BY <2>1, <2>2
  <2> HIDE DEF new
  <2>5. memoryCall'.op \in {"seek", "reset", "clone", "none"}
    BY <2>1
  <2> QED
    BY <2>1, <2>2, <2>3, <2>4, <2>5, SameBytes
<1>3. CASE M!Delete(s)
  <2>1. /\ memoryStream' = [memoryStream EXCEPT ![s] = null]
        /\ memory' = memory /\ memoryCall'.op = "none"
    BY <1>3 DEF M!Delete, M!NoCall
  <2>2. memoryCall'.op \in {"seek", "reset", "clone", "none"}
    BY <2>1
  <2> QED
    BY <2>1, <2>2, SameBytes
<1>4. ASSUME NEW c \in Ids, M!Clone(s, c)
      PROVE  /\ StreamsInv' /\ MemoryRight
             /\ (\A x \in M!Open : memoryStream[x].at <= Len(memory)) =>
                   \A x \in M!Open' : memoryStream'[x].at <= Len(memory')
  <2>1. /\ memoryStream' = [memoryStream EXCEPT ![c] = M!New]
        /\ memory' = memory /\ memoryCall'.op = "clone" /\ c \notin M!Open
    BY <1>4 DEF M!Clone, M!Call
  <2>2. /\ M!New \in StreamState /\ M!New.at <= MaxBytes /\ M!New.at <= Len(memory)
    BY <1>1, NewStream
  <2>3. memoryCall'.op \in {"seek", "reset", "clone", "none"}
    BY <2>1
  <2> QED
    BY <2>1, <2>2, <2>3, SameBytes
<1> QED
  BY <1>2, <1>3, <1>4

LEMMA MemoryNext == MemoryInv /\ M!Next => MemoryInv' /\ MemoryRight
<1> SUFFICES ASSUME MemoryInv, M!Next PROVE MemoryInv' /\ MemoryRight
  OBVIOUS
<1>1. PICK s \in Ids :
        \/ \E n \in 0 .. 2 : M!ReadBytes(s, n)
        \/ \E b \in ByteValues : M!WriteBytes(s, <<b>>) \/ \E c \in ByteValues : M!WriteBytes(s, <<b, c>>)
        \/ \E pos \in -2 .. 2 : \E mode \in {"SET", "CURRENT", "END"} :
             M!SetPosition(s, pos, mode)
        \/ M!ResetStatus(s) \/ M!Delete(s)
        \/ \E c \in Ids : M!Clone(s, c)
  BY DEF M!Next
<1>2. CASE \E n \in 0 .. 2 : M!ReadBytes(s, n)
  BY <1>2, MemoryReadsRight
<1>3. CASE \E b \in ByteValues : M!WriteBytes(s, <<b>>) \/ \E c \in ByteValues : M!WriteBytes(s, <<b, c>>)
  <2>1. ASSUME NEW b \in ByteValues, M!WriteBytes(s, <<b>>) PROVE MemoryInv' /\ MemoryRight
    BY <2>1, SomeBytes, MemoryWritesRight
  <2>2. ASSUME NEW b \in ByteValues, NEW c \in ByteValues, M!WriteBytes(s, <<b, c>>)
        PROVE  MemoryInv' /\ MemoryRight
    BY <2>2, SomeBytes, MemoryWritesRight
  <2> QED
    BY <1>3, <2>1, <2>2
<1>4. CASE \E pos \in -2 .. 2 : \E mode \in {"SET", "CURRENT", "END"} :
             M!SetPosition(s, pos, mode)
  BY <1>4, MemorySeeksRight
<1>5. CASE M!ResetStatus(s) \/ M!Delete(s) \/ \E c \in Ids : M!Clone(s, c)
  BY <1>5, MemoryRest DEF MemoryInv
<1> QED
  BY <1>1, <1>2, <1>3, <1>4, <1>5

LEMMA MemoryBegins == M!Init => MemoryInv
<1> SUFFICES ASSUME M!Init PROVE MemoryInv
  OBVIOUS
<1>1. PICK s \in Ids : memoryStream = [x \in Ids |-> IF x = s THEN M!New ELSE null]
  BY DEF M!Init
<1>2. memory = <<>> /\ memory \in Seq(ByteValues) /\ Len(memory) = 0 /\ MaxBytes \in Nat
  BY NumbersFit DEF M!Init
<1>3. ASSUME NEW x \in M!Open
      PROVE  memoryStream[x] \in StreamState /\ memoryStream[x].at = 0
  <2>1. memoryStream[x] = M!New
    BY <1>1 DEF M!Open
  <2> QED
    BY <2>1, NewStream
<1>4. memoryStream = [x \in Ids |-> memoryStream[x]]
  BY <1>1
<1>5. StreamsInv
  BY <1>2, <1>3, <1>4 DEF StreamsInv
<1> QED
  BY <1>2, <1>3, <1>5 DEF MemoryInv
-----------------------------------------------------------------------------
(* The same calls of a string, whose positions may be behind its end.      *)
LEMMA StringReadsRight ==
    ASSUME StreamsInv, NEW s \in Ids, NEW n \in 0 .. 2, W!ReadBytes(s, n)
    PROVE  StreamsInv' /\ MemoryRight
<1> DEFINE at   == memoryStream[s].at
           left == Len(memory) - at
           got  == IF n < left THEN n ELSE left
<1>1. s \in M!Open /\ memory' = memory
  BY DEF W!ReadBytes, W!Open, M!Open
<1>2. /\ at \in Nat /\ at <= MaxBytes /\ Len(memory) \in Nat /\ MaxBytes \in Nat
      /\ n \in Nat /\ memory \in Seq(ByteValues) /\ s \in Ids
      /\ memoryStream[s] \in StreamState
  <2>1. memoryStream[s] \in StreamState /\ at <= MaxBytes /\ memory \in Seq(ByteValues)
    BY <1>1 DEF StreamsInv
  <2> QED
    BY <2>1, NumbersFit DEF StreamState
<1>3. CASE memoryStream[s].status # "none"
  <2>1. memoryCall' = M!Call("read", s, n, 0, <<>>) /\ memoryStream' = memoryStream
    BY <1>3 DEF W!ReadBytes, W!Call, M!Call
  <2> QED
    BY <1>1, <2>1, NothingHappens DEF M!Call
<1>4. CASE memoryStream[s].status = "none"
  <2>1. W!ReadString(s, n)
    BY <1>4 DEF W!ReadBytes
  <2>2. CASE left = 0
    <3> DEFINE new == [memoryStream[s] EXCEPT !.status = "end"]
    <3>0. ~(left > 0) /\ ~(left < 0)
      BY <1>2, <2>2
    <3>1. memoryCall' = W!Call("read", s, n, 0, <<>>)
      BY <2>1, <2>2, <3>0, Zenon DEF W!ReadString
    <3>2. memoryStream' = [memoryStream EXCEPT ![s] = new]
      BY <2>1, <2>2, <3>0, Zenon DEF W!ReadString
    <3>3. new \in StreamState /\ new.at = at
      BY <1>2 DEF StreamState
    <3> HIDE DEF new
    <3>4. memoryCall'.op = "read" /\ memoryCall'.got = <<>> /\ memoryCall'.id = s
      BY <3>1 DEF W!Call
    <3>5. /\ memoryStream'[s] = new
          /\ \A x \in Ids : x # s => memoryStream'[x] = memoryStream[x]
          /\ memoryStream' = [x \in Ids |-> memoryStream'[x]]
      <4>1. memoryStream = [x \in Ids |-> memoryStream[x]]
        BY DEF StreamsInv
      <4>2. memoryStream' = [x \in Ids |-> IF x = s THEN new ELSE memoryStream[x]]
        BY <3>2, <4>1
      <4> QED
        BY <1>2, <4>2
    <3>6. ReadRight
      <4>1. /\ Len(memoryCall'.got) = 0 /\ at + 0 = at /\ SubSeq(memory, at + 1, at) = <<>>
        BY <1>2, <3>4
      <4> QED
        BY <1>1, <3>3, <3>4, <3>5, <4>1 DEF ReadRight
    <3>7. WriteRight
      BY <3>4 DEF WriteRight
    <3>8. OthersRight
      BY <1>1, <3>4, <3>5 DEF OthersRight, M!Open
    <3>9. StreamsInv'
      <4>1. ASSUME NEW x \in M!Open'
            PROVE  memoryStream'[x] \in StreamState /\ memoryStream'[x].at <= MaxBytes
        <5>1. CASE x = s
          BY <1>2, <3>3, <3>5, <5>1
        <5>2. CASE x # s
          BY <3>5, <4>1, <5>2 DEF StreamsInv, M!Open
        <5> QED
          BY <5>1, <5>2
      <4> QED
        BY <1>1, <3>5, <4>1 DEF StreamsInv
    <3> QED
      BY <3>6, <3>7, <3>8, <3>9 DEF MemoryRight
  <2>3. CASE left > 0
    <3>1. /\ got \in Nat /\ at + got <= Len(memory)
      BY <1>2, <2>3
    <3>2. /\ memoryCall' = M!Call("read", s, n, n, SubSeq(memory, at + 1, at + got))
          /\ memoryStream' = [memoryStream EXCEPT ![s].at = at + got]
      <4>1. left # 0 /\ ~(left < 0)
        BY <1>2, <2>3
      <4> QED
        BY <2>1, <2>3, <4>1, Zenon DEF W!ReadString, W!Call, W!At, M!Call
    <3> HIDE DEF got
    <3> QED
      BY <1>1, <1>2, <3>1, <3>2, ReadIsRight
  <2>4. CASE left < 0
    <3>1. memoryCall' = M!Call("read", s, n, n, <<>>) /\ memoryStream' = memoryStream
      <4>1. left # 0 /\ ~(left > 0)
        BY <1>2, <2>4
      <4> QED
        BY <2>1, <2>4, <4>1, Zenon DEF W!ReadString, W!Call, M!Call
    <3> QED
      BY <1>1, <3>1, NothingHappens DEF M!Call
  <2> QED
    BY <1>2, <2>2, <2>3, <2>4
<1> QED
  BY <1>3, <1>4

LEMMA StringWritesRight ==
    ASSUME StreamsInv, NEW s \in Ids, NEW bytes \in Seq(ByteValues), bytes # <<>>,
           W!WriteBytes(s, bytes)
    PROVE  StreamsInv' /\ MemoryRight
<1> DEFINE at == memoryStream[s].at
<1>1. s \in M!Open
  BY DEF W!WriteBytes, W!Open, M!Open
<1>2. \/ \E op \in {"write", "throw"} :
           /\ memoryCall' = M!Call(op, s, Len(bytes), 0, bytes)
           /\ memoryStream' = memoryStream /\ memory' = memory
      \/ at <= Len(memory) /\ at + Len(bytes) <= MaxBytes /\ W!Written(s, bytes)
  BY DEF W!WriteBytes, W!WriteString, W!Threw, W!Call, M!Call
<1>3. ASSUME NEW op \in {"write", "throw"},
             memoryCall' = M!Call(op, s, Len(bytes), 0, bytes),
             memoryStream' = memoryStream, memory' = memory
      PROVE  StreamsInv' /\ MemoryRight
  <2>1. /\ memoryCall'.op = op /\ memoryCall'.id = s /\ memoryCall'.returned = 0
    BY <1>3 DEF M!Call
  <2> QED
    BY <1>1, <1>3, <2>1, NothingHappens
<1>4. CASE at <= Len(memory) /\ at + Len(bytes) <= MaxBytes /\ W!Written(s, bytes)
  <2>1. M!Stored(at, bytes) = W!Stored(at, bytes)
    BY Zenon DEF M!Stored, W!Stored, M!Overwritten, W!Overwritten
  <2>2. /\ memory' = M!Stored(at, bytes)
        /\ memoryStream' = [memoryStream EXCEPT ![s].at = at + Len(bytes)]
        /\ memoryCall' = M!Call("write", s, Len(bytes), Len(bytes), bytes)
    BY <1>4, <2>1 DEF W!Written, W!At, W!Call, M!Call
  <2> QED
    BY <1>1, <1>4, <2>2, WriteIsRight
<1> QED
  BY <1>2, <1>3, <1>4

LEMMA StringSeeksRight ==
    ASSUME StreamsInv, NEW s \in Ids, NEW pos \in -2 .. 2, NEW mode \in {"SET", "CURRENT", "END"},
           W!SetPosition(s, pos, mode)
    PROVE  StreamsInv' /\ MemoryRight
<1> DEFINE to == M!Target(s, pos, mode) % Wrap
           new == [memoryStream[s] EXCEPT !.at = to]
<1>1. /\ s \in M!Open /\ M!Target(s, pos, mode) = W!Target(s, pos, mode)
  BY DEF W!SetPosition, W!Open, M!Open, W!Target, M!Target
<1>2. to \in 0 .. MaxBytes
  BY <1>1, SeekTarget DEF W!SetPosition
<1>3. /\ memoryStream' = [memoryStream EXCEPT ![s].at = to]
      /\ memory' = memory /\ memoryCall' = M!Call("seek", s, to, 0, <<>>)
  BY <1>1 DEF W!SetPosition, W!SetPositionString, W!At, W!Call, M!Call
<1> HIDE DEF to
<1>4. /\ new \in StreamState /\ new.at <= MaxBytes
  BY <1>1, <1>2, StreamMoved, NumbersFit
<1>5. memoryStream' = [memoryStream EXCEPT ![s] = new]
  BY <1>3
<1> HIDE DEF new
<1>6. /\ memoryCall'.op \in {"seek", "reset", "clone", "none"} /\ memoryCall'.id = s
  BY <1>3 DEF M!Call
<1> QED
  BY <1>3, <1>4, <1>5, <1>6, SameBytes

LEMMA StringNext == StreamsInv /\ W!Next => StreamsInv' /\ MemoryRight
<1> SUFFICES ASSUME StreamsInv, W!Next PROVE StreamsInv' /\ MemoryRight
  OBVIOUS
<1>1. PICK s \in Ids :
        \/ \E n \in 0 .. 2 : W!ReadBytes(s, n)
        \/ \E b \in ByteValues : W!WriteBytes(s, <<b>>) \/ \E c \in ByteValues : W!WriteBytes(s, <<b, c>>)
        \/ \E pos \in -2 .. 2 : \E mode \in {"SET", "CURRENT", "END"} :
             W!SetPosition(s, pos, mode)
        \/ W!ResetStatus(s) \/ W!Delete(s)
        \/ \E c \in Ids : W!Clone(s, c)
  BY DEF W!Next
<1>2. CASE \E n \in 0 .. 2 : W!ReadBytes(s, n)
  BY <1>2, StringReadsRight
<1>3. CASE \E b \in ByteValues : W!WriteBytes(s, <<b>>) \/ \E c \in ByteValues : W!WriteBytes(s, <<b, c>>)
  <2>1. ASSUME NEW b \in ByteValues, W!WriteBytes(s, <<b>>) PROVE StreamsInv' /\ MemoryRight
    BY <2>1, SomeBytes, StringWritesRight
  <2>2. ASSUME NEW b \in ByteValues, NEW c \in ByteValues, W!WriteBytes(s, <<b, c>>)
        PROVE  StreamsInv' /\ MemoryRight
    BY <2>2, SomeBytes, StringWritesRight
  <2> QED
    BY <1>3, <2>1, <2>2
<1>4. CASE \E pos \in -2 .. 2 : \E mode \in {"SET", "CURRENT", "END"} :
             W!SetPosition(s, pos, mode)
  BY <1>4, StringSeeksRight
<1>5. CASE W!ResetStatus(s) \/ W!Delete(s) \/ \E c \in Ids : W!Clone(s, c)
  <2>1. M!ResetStatus(s) \/ M!Delete(s) \/ \E c \in Ids : M!Clone(s, c)
    BY <1>5 DEF M!ResetStatus, M!Delete, M!Clone, M!StatusReset, M!Open, M!New, M!Call,
                M!NoCall, W!ResetStatus, W!Delete, W!Clone, W!StatusReset, W!Open, W!New,
                W!Call, W!NoCall
  <2> QED
    BY <2>1, MemoryRest
<1> QED
  BY <1>1, <1>2, <1>3, <1>4, <1>5

(* What is returned: only a call of ReadBytes is a read. *)
LEMMA OtherCallsAreNoReads ==
    ASSUME NEW s \in Ids
    PROVE  /\ \A bytes : M!WriteBytes(s, bytes) \/ W!WriteBytes(s, bytes)
                            => memoryCall'.op # "read"
           /\ \A pos, mode : M!SetPosition(s, pos, mode) \/ W!SetPosition(s, pos, mode)
                                => memoryCall'.op # "read"
           /\ M!ResetStatus(s) \/ W!ResetStatus(s) => memoryCall'.op # "read"
           /\ M!Delete(s) \/ W!Delete(s) => memoryCall'.op # "read"
           /\ \A c : M!Clone(s, c) \/ W!Clone(s, c) => memoryCall'.op # "read"
<1>1. ASSUME NEW bytes, M!WriteBytes(s, bytes) PROVE memoryCall'.op # "read"
  BY <1>1 DEF M!WriteBytes, M!WriteMemory, M!Written, M!Threw, M!Call
<1>2. ASSUME NEW bytes, W!WriteBytes(s, bytes) PROVE memoryCall'.op # "read"
  BY <1>2 DEF W!WriteBytes, W!WriteString, W!Written, W!Threw, W!Call
<1>3. ASSUME NEW pos, NEW mode, M!SetPosition(s, pos, mode) PROVE memoryCall'.op # "read"
  BY <1>3 DEF M!SetPosition, M!SetPositionMemory, M!Call
<1>4. ASSUME NEW pos, NEW mode, W!SetPosition(s, pos, mode) PROVE memoryCall'.op # "read"
  BY <1>4 DEF W!SetPosition, W!SetPositionString, W!Call
<1>5. M!ResetStatus(s) \/ W!ResetStatus(s) => memoryCall'.op # "read"
  BY DEF M!ResetStatus, W!ResetStatus, M!Call, W!Call
<1>6. M!Delete(s) \/ W!Delete(s) => memoryCall'.op # "read"
  BY DEF M!Delete, W!Delete, M!NoCall, W!NoCall
<1>7. ASSUME NEW c, M!Clone(s, c) \/ W!Clone(s, c) PROVE memoryCall'.op # "read"
  BY <1>7 DEF M!Clone, W!Clone, M!Call, W!Call
<1> QED
  BY <1>1, <1>2, <1>3, <1>4, <1>5, <1>6, <1>7

LEMMA MemoryReturns == MemoryInv /\ M!Next => M!Returned
<1> SUFFICES ASSUME MemoryInv, M!Next, memoryCall'.op = "read" PROVE M!Returned
  BY DEF M!Returned
<1>1. PICK s \in Ids : \E n \in 0 .. 2 : M!ReadBytes(s, n)
  BY OtherCallsAreNoReads DEF M!Next
<1>2. PICK n \in 0 .. 2 : M!ReadBytes(s, n)
  BY <1>1
<1>3. \/ memoryCall' = M!Call("read", s, n, 0, <<>>)
      \/ /\ memoryStream[s].at + n <= Len(memory)
         /\ memoryCall' = M!Call("read", s, n, n,
                                 SubSeq(memory, memoryStream[s].at + 1, memoryStream[s].at + n))
  BY <1>2, MemoryReadIs
<1>4. memory \in Seq(ByteValues) /\ memoryStream[s].at \in Nat
  BY <1>2 DEF MemoryInv, StreamsInv, StreamState, M!ReadBytes
<1>5. memoryCall'.returned \in {0, n} /\ memoryCall'.asked = n
  BY <1>3 DEF M!Call
<1>6. Len(memoryCall'.got) = memoryCall'.returned
  <2>1. CASE memoryCall' = M!Call("read", s, n, 0, <<>>)
    BY <2>1 DEF M!Call
  <2>2. ASSUME memoryStream[s].at + n <= Len(memory)
        PROVE  Len(SubSeq(memory, memoryStream[s].at + 1, memoryStream[s].at + n)) = n
    BY <1>4, <2>2, SomeRead
  <2>3. CASE /\ memoryStream[s].at + n <= Len(memory)
             /\ memoryCall' = M!Call("read", s, n, n,
                    SubSeq(memory, memoryStream[s].at + 1, memoryStream[s].at + n))
    <3>1. /\ memoryCall'.returned = n
          /\ memoryCall'.got
                = SubSeq(memory, memoryStream[s].at + 1, memoryStream[s].at + n)
      BY <2>3 DEF M!Call
    <3> QED
      BY <2>2, <2>3, <3>1
  <2> QED
    BY <1>3, <2>1, <2>3
<1> QED
  BY <1>5, <1>6 DEF M!Returned

LEMMA StringReturns == StreamsInv /\ W!Next => W!Returned
<1> SUFFICES ASSUME StreamsInv, W!Next, memoryCall'.op = "read" PROVE W!Returned
  BY DEF W!Returned
<1>1. PICK s \in Ids : \E n \in 0 .. 2 : W!ReadBytes(s, n)
  BY OtherCallsAreNoReads DEF W!Next
<1>2. PICK n \in 0 .. 2 : W!ReadBytes(s, n)
  BY <1>1
<1> DEFINE at   == memoryStream[s].at
           left == Len(memory) - at
           got  == IF n < left THEN n ELSE left
<1>3. /\ memory \in Seq(ByteValues) /\ at \in Nat /\ Len(memory) \in Nat /\ left \in Int
      /\ n \in Nat
  BY <1>2 DEF StreamsInv, StreamState, W!ReadBytes, W!Open, M!Open
<1>4. CASE memoryCall' = W!Call("read", s, n, 0, <<>>)
  <2>1. memoryCall'.returned = 0 /\ Len(memoryCall'.got) = 0 /\ memoryCall'.id = s
    BY <1>4 DEF W!Call
  <2> QED
    BY <1>3, <2>1 DEF W!Returned
<1>5. CASE left > 0 /\ memoryCall' = W!Call("read", s, n, n, SubSeq(memory, at + 1, at + got))
  <2>1. got \in Nat /\ at + got <= Len(memory)
    BY <1>3, <1>5
  <2>2. Len(SubSeq(memory, at + 1, at + got)) = got
    <3> HIDE DEF got, at
    <3> QED
      BY <1>3, <2>1, SomeRead
  <2>3. /\ memoryCall'.returned = n /\ memoryCall'.asked = n /\ memoryCall'.id = s
        /\ memoryCall'.got = SubSeq(memory, at + 1, at + got)
    BY <1>5 DEF W!Call
  <2>4. Len(memoryCall'.got) = got
    BY <2>2, <2>3
  <2>5. got = IF n <= left THEN n ELSE left
    BY <1>3
  <2> HIDE DEF got
  <2> QED
    BY <1>3, <1>5, <2>3, <2>4, <2>5 DEF W!Returned
<1>6. CASE left < 0 /\ memoryCall' = W!Call("read", s, n, n, <<>>)
  <2>1. /\ memoryCall'.returned = n /\ memoryCall'.asked = n /\ memoryCall'.id = s
        /\ Len(memoryCall'.got) = 0
    BY <1>6 DEF W!Call
  <2> QED
    BY <1>3, <1>6, <2>1 DEF W!Returned
<1>7. \/ memoryCall' = W!Call("read", s, n, 0, <<>>)
      \/ left > 0 /\ memoryCall' = W!Call("read", s, n, n, SubSeq(memory, at + 1, at + got))
      \/ left < 0 /\ memoryCall' = W!Call("read", s, n, n, <<>>)
  <2>1. CASE memoryStream[s].status # "none"
    BY <1>2, <2>1 DEF W!ReadBytes
  <2>2. CASE memoryStream[s].status = "none"
    <3>1. W!ReadString(s, n)
      BY <1>2, <2>2 DEF W!ReadBytes
    <3>2. left = 0 \/ left > 0 \/ left < 0
      BY <1>3
    <3>3. CASE left = 0
      BY <3>1, <3>3 DEF W!ReadString
    <3>4. CASE left > 0
      <4>1. left # 0 /\ ~(left < 0)
        BY <1>3, <3>4
      <4> QED
        BY <3>1, <3>4, <4>1, Zenon DEF W!ReadString
    <3>5. CASE left < 0
      <4>1. left # 0 /\ ~(left > 0)
        BY <1>3, <3>5
      <4> QED
        BY <3>1, <3>5, <4>1, Zenon DEF W!ReadString
    <3> QED
      BY <3>2, <3>3, <3>4, <3>5
  <2> QED
    BY <2>1, <2>2
<1> QED
  BY <1>4, <1>5, <1>6, <1>7

(* A read of a MemoryStream or a StringStream gives the bytes at the       *)
(* position of this stream, also those another stream wrote, and moves it  *)
(* behind them.  A MemoryStream returns their number; a StringStream the   *)
(* number that was asked for, of which it read those before its end, or 0  *)
(* and none.  A write stores its bytes there and keeps all the others,     *)
(* and keeps all of them when it fails; a seek, a reset and a clone change *)
(* none, and no call moves another stream (TCMemoryStream.cpp,             *)
(* TCStringStream.cpp).  No sum of a position and a size wraps: streams    *)
(* are not moved to before the beginning.                                  *)
THEOREM MemoryIsExact ==
    /\ M!Spec /\ [](part = "memory") => MemoryExact
    /\ W!Spec /\ [](part = "string") => MemoryExact
<1>1. MemoryInv /\ [M!Next]_(M!vars) => MemoryInv'
  <2>1. CASE M!Next
    BY <2>1, MemoryNext
  <2>2. CASE UNCHANGED M!vars
    BY <2>2 DEF M!vars, MemoryInv, StreamsInv, M!Open
  <2> QED
    BY <2>1, <2>2
<1>2. MemoryInv /\ [M!Next]_(M!vars) => [MemoryRight]_(M!vars)
  BY MemoryNext
<1>3. StreamsInv /\ [W!Next]_(W!vars) => StreamsInv'
  <2>1. CASE W!Next
    BY <2>1, StringNext
  <2>2. CASE UNCHANGED W!vars
    BY <2>2 DEF W!vars, StreamsInv, M!Open
  <2> QED
    BY <2>1, <2>2
<1>4. StreamsInv /\ [W!Next]_(W!vars) => [MemoryRight]_(M!vars)
  BY StringNext DEF M!vars, W!vars
<1>5. [][MemoryRight]_(M!vars) => M!ReadExact /\ M!WriteExact /\ M!OthersKept
  <2>1. [MemoryRight]_(M!vars) =>
          /\ [ReadRight]_(M!vars) /\ [WriteRight]_(M!vars) /\ [OthersRight]_(M!vars)
    BY DEF MemoryRight
  <2>2. /\ [][ReadRight]_(M!vars) => M!ReadExact
        /\ [][WriteRight]_(M!vars) => M!WriteExact
        /\ [][OthersRight]_(M!vars) => M!OthersKept
    BY PTL DEF M!ReadExact, M!WriteExact, M!OthersKept, ReadRight, WriteRight, OthersRight
  <2> QED
    BY <2>1, <2>2, PTL
<1>6. M!Spec /\ [](part = "memory") => MemoryExact
  <2>1. part = "memory" /\ MemoryInv /\ [M!Next]_(M!vars)
          => [(part = "memory" => M!Returned) /\ (part = "string" => W!Returned)]_memoryVars
    BY MemoryReturns DEF M!vars, memoryVars
  <2> QED
    BY <1>1, <1>2, <1>5, <2>1, MemoryBegins, PTL DEF M!Spec, MemoryExact
<1>7. W!Init => StreamsInv
  <2>1. W!Init => M!Init
    BY DEF W!Init, M!Init, W!NoCall, M!NoCall, W!New, M!New
  <2> QED
    BY <2>1, MemoryBegins DEF MemoryInv
<1>8. W!Spec /\ [](part = "string") => MemoryExact
  <2>1. part = "string" /\ StreamsInv /\ [W!Next]_(W!vars)
          => [(part = "memory" => M!Returned) /\ (part = "string" => W!Returned)]_memoryVars
    BY StringReturns DEF W!vars, memoryVars
  <2> QED
    BY <1>3, <1>4, <1>5, <1>7, <2>1, PTL DEF W!Spec, MemoryExact
<1> QED
  BY <1>6, <1>8
-----------------------------------------------------------------------------
(* Streams of files: what FilesExact is of one step.                       *)
FileReadRight ==
    fileCall'.op = "read" =>
        LET s == fileCall'.id
        IN  /\ fileCall'.got = SubSeq(content, fileStream[s].at + 1,
                                      fileStream[s].at + fileCall'.returned)
            /\ fileStream'[s].at = fileStream[s].at + fileCall'.returned
            /\ fileCall'.returned < fileCall'.asked => fileStream'[s].status # "none"
            /\ content' = content

FileWriteRight ==
    fileCall'.op = "write" =>
        LET s  == fileCall'.id
            at == fileStream[s].at
        IN  /\ fileCall'.returned < fileCall'.asked => fileStream'[s].status # "none"
            /\ \A i \in DOMAIN content \union at + 1 .. at + fileCall'.returned :
                 i \in DOMAIN content' /\
                 content'[i] = IF i \in at + 1 .. at + fileCall'.returned
                               THEN fileCall'.got[i - at] ELSE content[i]

ErrorKept ==
    \A s \in F!Made :
        fileStream[s].status # "none" /\ fileCall'.id = s
        /\ fileCall'.op \in {"read", "write", "flush"} =>
        fileStream' = fileStream /\ content' = content /\ fileCall'.returned = 0

FileRight == FileReadRight /\ FileWriteRight /\ ErrorKept

Ways == Directions \union Packed \union {"DEAD"}
FileState == [file : BOOLEAN, at : Nat, direction : Ways, status : F!Statuses]

FileInv ==
    /\ content \in Seq(ByteValues)
    /\ fileStream = [s \in FileIds |-> fileStream[s]]
    /\ \A s \in F!Made : fileStream[s] \in FileState

(* A call that changes the stream of one name. *)
LEMMA OneFileChanges ==
    ASSUME FileInv, NEW c \in FileIds, NEW new, new = null \/ new \in FileState,
           fileStream' = [fileStream EXCEPT ![c] = new], content' \in Seq(ByteValues)
    PROVE  FileInv' /\ fileStream'[c] = new
<1>1. fileStream = [x \in FileIds |-> fileStream[x]]
  BY DEF FileInv
<1>2. fileStream' = [x \in FileIds |-> IF x = c THEN new ELSE fileStream[x]]
  BY <1>1
<1>3. /\ fileStream'[c] = new
      /\ \A x \in FileIds : x # c => fileStream'[x] = fileStream[x]
      /\ fileStream' = [x \in FileIds |-> fileStream'[x]]
  BY <1>2
<1>4. ASSUME NEW x \in F!Made' PROVE fileStream'[x] \in FileState
  <2>1. CASE x = c
    BY <1>3, <1>4, <2>1 DEF F!Made
  <2>2. CASE x # c
    BY <1>3, <1>4, <2>2 DEF F!Made, FileInv
  <2> QED
    BY <2>1, <2>2
<1> QED
  BY <1>3, <1>4 DEF FileInv

(* A call that reads and writes nothing. *)
LEMMA OtherCalls ==
    ASSUME fileCall'.op \notin {"read", "write", "flush"}
    PROVE  FileRight
  BY DEF FileRight, FileReadRight, FileWriteRight, ErrorKept

LEMMA StatusSet ==
    ASSUME FileInv, NEW s \in F!Made, NEW status \in F!Statuses
    PROVE  /\ s \in FileIds /\ fileStream[s] \in FileState
           /\ [fileStream[s] EXCEPT !.status = status] \in FileState
           /\ [fileStream[s] EXCEPT !.status = status].status = status
           /\ [fileStream[s] EXCEPT !.status = status].at = fileStream[s].at
           /\ fileStream[s].status = status => [fileStream[s] EXCEPT !.status = status] = fileStream[s]
<1>1. s \in FileIds /\ fileStream[s] \in FileState
  BY DEF FileInv, F!Made
<1> QED
  BY <1>1 DEF FileState

LEMMA FailsRight ==
    ASSUME FileInv, NEW s \in F!Made, NEW op, NEW n \in Nat, NEW status \in F!Statuses,
           F!Fails(s, op, n, status),
           op \in {"read", "write"} => status # "none",
           op \in {"read", "write", "flush"} /\ fileStream[s].status # "none" =>
              status = fileStream[s].status
    PROVE  FileInv' /\ FileRight
<1> DEFINE new == [fileStream[s] EXCEPT !.status = status]
<1>1. /\ s \in FileIds /\ fileStream[s] \in FileState
      /\ new \in FileState /\ new.status = status /\ new.at = fileStream[s].at
      /\ fileStream[s].status = status => new = fileStream[s]
  BY StatusSet
<1>2. /\ fileStream' = [fileStream EXCEPT ![s] = new] /\ content' = content
      /\ fileCall' = F!Call(op, s, n, 0, <<>>)
  BY DEF F!Fails
<1> HIDE DEF new
<1>3. /\ fileCall'.op = op /\ fileCall'.id = s /\ fileCall'.asked = n
      /\ fileCall'.returned = 0 /\ fileCall'.got = <<>>
  BY <1>2 DEF F!Call
<1>4. content' \in Seq(ByteValues)
  BY <1>2 DEF FileInv
<1>5. FileInv' /\ fileStream'[s] = new
  BY <1>1, <1>2, <1>4, OneFileChanges
<1>6. fileStream[s].at \in Nat
  BY <1>1 DEF FileState
<1>7. FileReadRight
  <2> SUFFICES ASSUME op = "read" PROVE FileReadRight
    BY <1>3 DEF FileReadRight
  <2>1. fileStream[s].at + 0 = fileStream[s].at
    BY <1>6
  <2>2. SubSeq(content, fileStream[s].at + 1, fileStream[s].at) = <<>>
    BY <1>6 DEF FileInv
  <2> QED
    BY <1>1, <1>2, <1>3, <1>5, <2>1, <2>2 DEF FileReadRight
<1>8. FileWriteRight
  <2> SUFFICES ASSUME op = "write" PROVE FileWriteRight
    BY <1>3 DEF FileWriteRight
  <2>1. fileStream[s].at + 1 .. fileStream[s].at + 0 = {}
    BY <1>6
  <2> QED
    BY <1>1, <1>2, <1>3, <1>5, <2>1 DEF FileWriteRight
<1>9. ErrorKept
  <2> SUFFICES ASSUME fileStream[s].status # "none", op \in {"read", "write", "flush"}
               PROVE  fileStream' = fileStream
    BY <1>2, <1>3 DEF ErrorKept
  <2>1. new = fileStream[s]
    BY <1>1
  <2>2. fileStream = [x \in FileIds |-> fileStream[x]]
    BY DEF FileInv
  <2> QED
    BY <1>1, <1>2, <2>1, <2>2
<1> QED
  BY <1>5, <1>7, <1>8, <1>9 DEF FileRight

LEMMA FileReadsRight ==
    ASSUME FileInv, NEW s \in FileIds, NEW n \in 0 .. 2, F!ReadBytes(s, n)
    PROVE  FileInv' /\ FileRight
<1> DEFINE at   == fileStream[s].at
           left == IF at > Len(content) THEN 0 ELSE Len(content) - at
           got  == IF n < left THEN n ELSE left
<1>1. s \in F!Made /\ fileStream[s] \in FileState /\ at \in Nat /\ n \in Nat
  <2>1. s \in F!Made /\ fileStream[s] \in FileState
    BY DEF F!ReadBytes, FileInv
  <2> QED
    BY <2>1 DEF FileState
<1>2. fileStream[s].status \in F!Statuses /\ "direction" \in F!Statuses
  BY <1>1 DEF FileState, F!Statuses
<1>3. CASE ~F!NoError(s)
  <2>1. F!Fails(s, "read", n, fileStream[s].status) /\ fileStream[s].status # "none"
    BY <1>3 DEF F!ReadBytes, F!NoError
  <2> QED
    BY <1>1, <1>2, <2>1, FailsRight
<1>4. CASE F!NoError(s) /\ ~F!IsReading(s)
  <2>1. F!Fails(s, "read", n, "direction") /\ fileStream[s].status = "none"
    BY <1>4 DEF F!ReadBytes, F!NoError
  <2> QED
    BY <1>1, <1>2, <2>1, FailsRight
<1>5. CASE F!NoError(s) /\ F!IsReading(s)
  <2>1. Len(content) \in Nat /\ got \in Nat /\ got <= n
    <3>1. Len(content) \in Nat
      BY DEF FileInv
    <3> QED
      BY <1>1, <3>1
  <2>2. \E k \in Nat, status \in F!Statuses :
          /\ k < n => status # "none"
          /\ fileStream' = [fileStream EXCEPT ![s].at = @ + k, ![s].status = status]
          /\ fileCall' = F!Call("read", s, n, k, SubSeq(content, at + 1, at + k))
          /\ content' = content
    <3>1. \/ /\ fileStream' = [fileStream EXCEPT ![s].at = @ + got, ![s].status = F!EndStatus(got, n)]
             /\ fileCall' = F!Call("read", s, n, got, SubSeq(content, at + 1, at + got))
             /\ content' = content
          \/ \E k \in 0 .. got :
               /\ fileStream' = [fileStream EXCEPT ![s].at = @ + k, ![s].status = "read"]
               /\ fileCall' = F!Call("read", s, n, k, SubSeq(content, at + 1, at + k))
               /\ content' = content
      BY <1>5, Zenon DEF F!ReadBytes
    <3>2. /\ F!EndStatus(got, n) \in F!Statuses
          /\ got < n => F!EndStatus(got, n) # "none"
      BY DEF F!EndStatus, F!Statuses
    <3>3. "read" \in F!Statuses /\ "read" # "none"
      BY DEF F!Statuses
    <3>4. 0 .. got \subseteq Nat
      BY <2>1
    <3> HIDE DEF got
    <3>5. ASSUME /\ fileStream' = [fileStream EXCEPT ![s].at = @ + got, ![s].status = F!EndStatus(got, n)]
                 /\ fileCall' = F!Call("read", s, n, got, SubSeq(content, at + 1, at + got))
                 /\ content' = content
          PROVE  \E m \in Nat, status \in F!Statuses :
                   /\ m < n => status # "none"
                   /\ fileStream' = [fileStream EXCEPT ![s].at = @ + m, ![s].status = status]
                   /\ fileCall' = F!Call("read", s, n, m, SubSeq(content, at + 1, at + m))
                   /\ content' = content
      <4> got \in Nat /\ F!EndStatus(got, n) \in F!Statuses
        BY <2>1, <3>2
      <4> WITNESS got \in Nat, F!EndStatus(got, n) \in F!Statuses
      <4> QED
        BY <3>2, <3>5
    <3>6. ASSUME NEW k \in 0 .. got,
                 /\ fileStream' = [fileStream EXCEPT ![s].at = @ + k, ![s].status = "read"]
                 /\ fileCall' = F!Call("read", s, n, k, SubSeq(content, at + 1, at + k))
                 /\ content' = content
          PROVE  \E m \in Nat, status \in F!Statuses :
                   /\ m < n => status # "none"
                   /\ fileStream' = [fileStream EXCEPT ![s].at = @ + m, ![s].status = status]
                   /\ fileCall' = F!Call("read", s, n, m, SubSeq(content, at + 1, at + m))
                   /\ content' = content
      <4> k \in Nat /\ "read" \in F!Statuses
        BY <3>3, <3>4
      <4> WITNESS k \in Nat, "read" \in F!Statuses
      <4> QED
        BY <3>3, <3>6
    <3> QED
      BY <3>1, <3>5, <3>6, Zenon
  <2>3. PICK k \in Nat, status \in F!Statuses :
          /\ k < n => status # "none"
          /\ fileStream' = [fileStream EXCEPT ![s].at = @ + k, ![s].status = status]
          /\ fileCall' = F!Call("read", s, n, k, SubSeq(content, at + 1, at + k))
          /\ content' = content
    BY <2>2, Zenon
  <2> DEFINE new == [fileStream[s] EXCEPT !.at = at + k, !.status = status]
  <2>4. /\ new \in FileState /\ new.at = at + k /\ new.status = status
    <3>1. at + k \in Nat
      BY <1>1
    <3> QED
      BY <1>1, <3>1 DEF FileState
  <2>5. fileStream' = [fileStream EXCEPT ![s] = new]
    <3>1. fileStream = [x \in FileIds |-> fileStream[x]]
      BY DEF FileInv
    <3> QED
      BY <2>3, <3>1, Zenon
  <2> HIDE DEF new
  <2>6. FileInv' /\ fileStream'[s] = new
    BY <2>3, <2>4, <2>5, OneFileChanges DEF FileInv
  <2>7. /\ fileCall'.op = "read" /\ fileCall'.id = s /\ fileCall'.asked = n
        /\ fileCall'.returned = k /\ fileCall'.got = SubSeq(content, at + 1, at + k)
    BY <2>3 DEF F!Call
  <2>8. FileReadRight
    BY <2>3, <2>4, <2>6, <2>7 DEF FileReadRight
  <2>9. FileWriteRight /\ ErrorKept
    BY <1>5, <2>7 DEF FileWriteRight, ErrorKept, F!NoError
  <2> QED
    BY <2>6, <2>8, <2>9 DEF FileRight
<1> QED
  BY <1>3, <1>4, <1>5

(* The bytes of a file after a write at a place, also behind the end. *)
LEMMA FileStored ==
    ASSUME FileInv, NEW p \in Nat, NEW bytes \in Seq(ByteValues)
    PROVE  /\ F!Stored(p, bytes) \in Seq(ByteValues)
           /\ \A i \in DOMAIN content \union p + 1 .. p + Len(bytes) :
                 i \in DOMAIN F!Stored(p, bytes) /\
                 F!Stored(p, bytes)[i] = IF i \in p + 1 .. p + Len(bytes)
                                         THEN bytes[i - p] ELSE content[i]
<1>1. content \in Seq(ByteValues) /\ Len(content) \in Nat /\ Len(bytes) \in Nat
  BY DEF FileInv
<1>2. CASE bytes = <<>>
  <2>1. F!Stored(p, bytes) = content /\ Len(bytes) = 0
    BY <1>2 DEF F!Stored
  <2>2. p + 1 .. p + 0 = {}
    OBVIOUS
  <2> QED
    BY <1>1, <2>1, <2>2
<1>3. CASE bytes # <<>>
  <2> DEFINE n == IF p + Len(bytes) > Len(content) THEN p + Len(bytes) ELSE Len(content)
             e == [i \in 1 .. n |->
                     IF i \in p + 1 .. p + Len(bytes) THEN bytes[i - p]
                     ELSE IF i <= Len(content) THEN content[i] ELSE 0]
  <2>1. F!Stored(p, bytes) = e
    BY <1>3, Zenon DEF F!Stored, F!Overwritten
  <2>2. n \in Nat
    BY <1>1
  <2>3. ASSUME NEW i \in 1 .. n PROVE e[i] \in ByteValues
    <3>1. CASE i \in p + 1 .. p + Len(bytes)
      <4>1. i - p \in 1 .. Len(bytes)
        BY <1>1, <3>1
      <4> QED
        BY <3>1, <4>1
    <3>2. CASE i \notin p + 1 .. p + Len(bytes) /\ i <= Len(content)
      BY <1>1, <3>2
    <3>3. CASE i \notin p + 1 .. p + Len(bytes) /\ ~(i <= Len(content))
      BY <3>3, NumbersFit
    <3> QED
      BY <3>1, <3>2, <3>3
  <2>4. e \in Seq(ByteValues)
    <3> HIDE DEF n
    <3>1. e \in [1 .. n -> ByteValues]
      BY <2>3
    <3> HIDE DEF e
    <3> QED
      BY <2>2, <3>1
  <2>5. DOMAIN content = 1 .. Len(content)
    BY <1>1
  <2>6. ASSUME NEW i \in 1 .. Len(content) \union p + 1 .. p + Len(bytes)
        PROVE  i \in 1 .. n /\ (i \notin p + 1 .. p + Len(bytes) => i <= Len(content))
    BY <1>1
  <2>7. ASSUME NEW i \in 1 .. Len(content) \union p + 1 .. p + Len(bytes)
        PROVE  /\ i \in DOMAIN e
               /\ e[i] = IF i \in p + 1 .. p + Len(bytes) THEN bytes[i - p] ELSE content[i]
    BY <2>6
  <2> HIDE DEF e
  <2> QED
    BY <2>1, <2>4, <2>5, <2>7
<1> QED
  BY <1>2, <1>3

LEMMA FileWritesRight ==
    ASSUME FileInv, NEW s \in FileIds, NEW bytes \in Seq(ByteValues), F!WriteBytes(s, bytes)
    PROVE  FileInv' /\ FileRight
<1> DEFINE at == fileStream[s].at
           n  == Len(bytes)
<1>1. s \in F!Made /\ fileStream[s] \in FileState /\ at \in Nat /\ n \in Nat
  <2>1. s \in F!Made /\ fileStream[s] \in FileState
    BY DEF F!WriteBytes, FileInv
  <2> QED
    BY <2>1 DEF FileState
<1>2. fileStream[s].status \in F!Statuses /\ "direction" \in F!Statuses
  BY <1>1 DEF FileState, F!Statuses
<1>3. CASE ~F!NoError(s)
  <2>1. F!Fails(s, "write", n, fileStream[s].status) /\ fileStream[s].status # "none"
    BY <1>3 DEF F!WriteBytes, F!NoError
  <2> QED
    BY <1>1, <1>2, <2>1, FailsRight
<1>4. CASE F!NoError(s) /\ ~F!IsWriting(s)
  <2>1. F!Fails(s, "write", n, "direction") /\ fileStream[s].status = "none"
    BY <1>4 DEF F!WriteBytes, F!NoError
  <2> QED
    BY <1>1, <1>2, <2>1, FailsRight
<1>5. CASE F!NoError(s) /\ F!IsWriting(s)
  <2>1. \/ /\ content' = F!Stored(at, SubSeq(bytes, 1, n))
           /\ fileStream' = [fileStream EXCEPT ![s].at = @ + n, ![s].status = "none"]
           /\ fileCall' = F!Call("write", s, n, n, bytes)
        \/ \E k \in 0 .. n - 1 :
             /\ content' = F!Stored(at, SubSeq(bytes, 1, k))
             /\ fileStream' = [fileStream EXCEPT ![s].at = @ + k, ![s].status = "write"]
             /\ fileCall' = F!Call("write", s, n, k, bytes)
    BY <1>5, Zenon DEF F!WriteBytes
  <2>2. ASSUME NEW k \in 0 .. n, NEW status \in F!Statuses, k < n => status # "none",
               content' = F!Stored(at, SubSeq(bytes, 1, k)),
               fileStream' = [fileStream EXCEPT ![s].at = @ + k, ![s].status = status],
               fileCall' = F!Call("write", s, n, k, bytes)
        PROVE  FileInv' /\ FileRight
    <3> DEFINE new == [fileStream[s] EXCEPT !.at = at + k, !.status = status]
    <3>1. /\ new \in FileState /\ new.status = status
      <4>1. at + k \in Nat
        BY <1>1
      <4> QED
        BY <1>1, <4>1 DEF FileState
    <3>2. fileStream' = [fileStream EXCEPT ![s] = new]
      <4>1. fileStream = [x \in FileIds |-> fileStream[x]]
        BY DEF FileInv
      <4> QED
        BY <2>2, <4>1, Zenon
    <3> HIDE DEF new
    <3>3. k \in Nat /\ SubSeq(bytes, 1, k) \in Seq(ByteValues) /\ Len(SubSeq(bytes, 1, k)) = k
      <4>1. k \in Nat /\ k <= Len(bytes)
        BY <1>1
      <4>2. SubSeq(bytes, 1, k) \in Seq(ByteValues)
        BY <4>1
      <4>3. Len(SubSeq(bytes, 0 + 1, 0 + k)) = k
        BY <4>1, PieceLength
      <4> QED
        BY <4>1, <4>2, <4>3
    <3>4. \A j \in 1 .. k : SubSeq(bytes, 1, k)[j] = bytes[j]
      BY <1>1
    <3> DEFINE part1 == SubSeq(bytes, 1, k)
    <3> HIDE DEF part1
    <3>5. /\ content' \in Seq(ByteValues)
          /\ \A i \in DOMAIN content \union at + 1 .. at + k :
                i \in DOMAIN content' /\
                content'[i] = IF i \in at + 1 .. at + k THEN part1[i - at] ELSE content[i]
      <4>1. part1 \in Seq(ByteValues) /\ Len(part1) = k /\ content' = F!Stored(at, part1)
        BY <2>2, <3>3 DEF part1
      <4> QED
        BY <1>1, <4>1, FileStored
    <3>6. \A i \in at + 1 .. at + k : part1[i - at] = bytes[i - at]
      <4>1. ASSUME NEW i \in at + 1 .. at + k PROVE i - at \in 1 .. k
        BY <1>1, <3>3
      <4> QED
        BY <3>4, <4>1 DEF part1
    <3>7. FileInv' /\ fileStream'[s] = new
      BY <3>1, <3>2, <3>5, OneFileChanges
    <3>8. /\ fileCall'.op = "write" /\ fileCall'.id = s /\ fileCall'.asked = n
          /\ fileCall'.returned = k /\ fileCall'.got = bytes
      BY <2>2 DEF F!Call
    <3>9. FileWriteRight
      BY <2>2, <3>1, <3>5, <3>6, <3>7, <3>8 DEF FileWriteRight
    <3>10. FileReadRight /\ ErrorKept
      BY <1>5, <3>8 DEF FileReadRight, ErrorKept, F!NoError
    <3> QED
      BY <3>7, <3>9, <3>10 DEF FileRight
  <2>3. n \in 0 .. n /\ ~(n < n) /\ "none" \in F!Statuses /\ "write" \in F!Statuses
    BY <1>1 DEF F!Statuses
  <2>4. ASSUME NEW k \in 0 .. n - 1 PROVE k \in 0 .. n
    BY <1>1
  <2> QED
    BY <2>1, <2>2, <2>3, <2>4
<1> QED
  BY <1>3, <1>4, <1>5

(* A stream is opened, cloned, closed, destroyed, or its position set or   *)
(* asked: nothing is read or written.                                      *)
LEMMA FileMade ==
    ASSUME FileInv, NEW s \in FileIds, NEW d \in Ways, NEW ok \in BOOLEAN,
           F!Make(s, d, ok), fileCall'.op \notin {"read", "write", "flush"}
    PROVE  FileInv' /\ FileRight
<1>1. F!Opened(d, ok) \in FileState
  BY DEF F!Opened, FileState, F!Statuses, Ways
<1>2. fileStream' = [fileStream EXCEPT ![s] = F!Opened(d, ok)] /\ content' \in Seq(ByteValues)
  BY DEF F!Make, FileInv
<1> QED
  BY <1>1, <1>2, OneFileChanges, OtherCalls

LEMMA FileClosed ==
    ASSUME FileInv, NEW s \in FileIds, F!CloseStream(s) \/ F!Destroy(s)
    PROVE  FileInv' /\ FileRight
<1>1. CASE F!CloseStream(s)
  <2> DEFINE new == [fileStream[s] EXCEPT !.file = FALSE, !.direction = "DEAD"]
  <2>1. new \in FileState
    BY <1>1 DEF F!CloseStream, FileInv, FileState, Ways
  <2>2. fileStream' = [fileStream EXCEPT ![s] = new]
    <3>1. fileStream = [x \in FileIds |-> fileStream[x]]
      BY DEF FileInv
    <3> QED
      BY <1>1, <3>1, Zenon DEF F!CloseStream, F!Closed
  <2>3. content' \in Seq(ByteValues) /\ fileCall'.op = "close"
    BY <1>1 DEF F!CloseStream, F!Call, FileInv
  <2> HIDE DEF new
  <2> QED
    BY <2>1, <2>2, <2>3, OneFileChanges, OtherCalls
<1>2. CASE F!Destroy(s)
  <2>1. /\ fileStream' = [fileStream EXCEPT ![s] = null]
        /\ content' \in Seq(ByteValues) /\ fileCall'.op = "none"
    BY <1>2 DEF F!Destroy, F!NoCall, FileInv
  <2> QED
    BY <2>1, OneFileChanges, OtherCalls
<1> QED
  BY <1>1, <1>2

LEMMA FileSought ==
    ASSUME FileInv, NEW s \in F!Made, NEW pos \in -1 .. 1,
           NEW mode \in {"SET", "CURRENT", "END"}, NEW can \in BOOLEAN, NEW answer,
           can => F!Target(s, pos, mode) >= 0,
           F!Moved(s, F!Target(s, pos, mode), can, answer)
    PROVE  FileInv' /\ FileRight
<1> DEFINE to   == F!Target(s, pos, mode)
           next == IF can THEN to ELSE fileStream[s].at
           new  == [fileStream[s] EXCEPT !.at = next, !.status = "none"]
<1>1. s \in FileIds /\ fileStream[s] \in FileState /\ fileStream[s].at \in Nat
  <2>1. s \in FileIds /\ fileStream[s] \in FileState
    BY DEF FileInv, F!Made
  <2> QED
    BY <2>1 DEF FileState
<1>2. to \in Int
  <2>1. Len(content) \in Nat
    BY DEF FileInv
  <2>2. CASE mode = "SET"
    <3>1. to = pos + 0
      BY <2>2 DEF F!Target
    <3> QED
      BY <3>1
  <2>3. CASE mode = "CURRENT"
    <3>1. to = pos + fileStream[s].at
      BY <2>3 DEF F!Target
    <3> QED
      BY <1>1, <3>1
  <2>4. CASE mode = "END"
    <3>1. to = pos + Len(content)
      BY <2>4 DEF F!Target
    <3> QED
      BY <2>1, <3>1
  <2> QED
    BY <2>2, <2>3, <2>4
<1>3. /\ fileStream' = [fileStream EXCEPT ![s].at = IF can THEN to ELSE @, ![s].status = "none"]
      /\ content' = content /\ fileCall'.op = "seek"
  BY DEF F!Moved, F!Call
<1>4. next \in Nat
  <2>1. can => to >= 0
    OBVIOUS
  <2> HIDE DEF to
  <2> QED
    BY <1>1, <1>2, <2>1
<1> HIDE DEF to
<1>5. fileStream' = [fileStream EXCEPT ![s] = new]
  <2>1. fileStream = [x \in FileIds |-> fileStream[x]]
    BY DEF FileInv
  <2> QED
    BY <1>3, <2>1, Zenon
<1> HIDE DEF next
<1>6. new \in FileState
  BY <1>1, <1>4 DEF FileState, F!Statuses
<1> HIDE DEF new
<1> QED
  BY <1>1, <1>3, <1>5, <1>6, OneFileChanges, OtherCalls DEF FileInv

LEMMA StatusChanges ==
    ASSUME FileInv, NEW s \in F!Made, NEW status \in {"position"},
           fileStream' = [fileStream EXCEPT ![s].status = status], content' = content,
           fileCall'.op \notin {"read", "write", "flush"}
    PROVE  FileInv' /\ FileRight
<1> DEFINE new == [fileStream[s] EXCEPT !.status = status]
<1>1. s \in FileIds /\ new \in FileState
  BY StatusSet DEF F!Statuses
<1>2. fileStream' = [fileStream EXCEPT ![s] = new] /\ content' \in Seq(ByteValues)
  BY DEF FileInv
<1> HIDE DEF new
<1> QED
  BY <1>1, <1>2, OneFileChanges, OtherCalls

LEMMA FileSeeks ==
    ASSUME FileInv, NEW s \in FileIds, NEW pos \in -1 .. 1,
           NEW mode \in {"SET", "CURRENT", "END"},
           \/ F!SetPosition(s, pos, mode) \/ G!SetPositionGz(s, pos, mode)
           \/ Z!SetPositionBz2(s, pos, mode)
    PROVE  FileInv' /\ FileRight
<1>1. CASE F!SetPosition(s, pos, mode)
  <2> DEFINE to == F!Target(s, pos, mode)
  <2>1. /\ s \in F!Made /\ F!Moved(s, to, to >= 0, F!Answered(to)) /\ (to >= 0) \in BOOLEAN
    BY <1>1 DEF F!SetPosition
  <2> HIDE DEF to
  <2> QED
    BY <2>1, FileSought DEF to
<1>2. CASE G!SetPositionGz(s, pos, mode)
  <2> DEFINE to  == F!Target(s, pos, mode)
             can == to >= 0 /\ mode # "END" /\ (G!IsWriting(s) => to >= fileStream[s].at)
  <2>1. F!Target(s, pos, mode) = G!Target(s, pos, mode)
    BY DEF F!Target, G!Target
  <2>2. /\ s \in F!Made /\ F!Moved(s, to, can, can /\ to = 0) /\ can \in BOOLEAN
        /\ can => to >= 0
    BY <1>2, <2>1, Zenon DEF G!SetPositionGz, G!Made, F!Made, G!Moved, F!Moved, G!Call, F!Call
  <2> HIDE DEF to, can
  <2> QED
    BY <2>2, FileSought DEF to
<1>3. CASE Z!SetPositionBz2(s, pos, mode)
  <2>1. /\ fileStream' = [fileStream EXCEPT ![s].status = "position"] /\ content' = content
        /\ fileCall'.op = "seek" /\ s \in F!Made
    BY <1>3 DEF Z!SetPositionBz2, Z!Fails, Z!Call, Z!Made, F!Made
  <2> QED
    BY <2>1, StatusChanges
<1> QED
  BY <1>1, <1>2, <1>3

LEMMA FileFlushed ==
    ASSUME FileInv, NEW s \in FileIds,
           \/ F!Flush(s) \/ F!ResetStatus(s)
           \/ F!GetPosition(s) \/ G!GetPosition(s) \/ Z!GetPositionBz2(s)
    PROVE  FileInv' /\ FileRight
<1>1. CASE F!Flush(s)
  <2>1. s \in F!Made /\ fileStream[s].status \in F!Statuses /\ "direction" \in F!Statuses
    BY <1>1 DEF F!Flush, FileInv, FileState, F!Statuses
  <2>2. CASE F!NoError(s) /\ ~F!IsWriting(s)
    <3>1. F!Fails(s, "flush", 0, "direction")
      BY <1>1, <2>2 DEF F!Flush
    <3> QED
      BY <2>1, <2>2, <3>1, FailsRight DEF F!NoError
  <2>3. CASE ~(F!NoError(s) /\ ~F!IsWriting(s))
    <3>1. F!Fails(s, "flush", 0, fileStream[s].status)
      BY <1>1, <2>3 DEF F!Flush
    <3> QED
      BY <2>1, <3>1, FailsRight
  <2> QED
    BY <2>2, <2>3
<1>2. CASE F!ResetStatus(s)
  <2>1. s \in F!Made /\ F!Fails(s, "reset", 0, "none") /\ "none" \in F!Statuses
    BY <1>2 DEF F!ResetStatus, F!Statuses
  <2> QED
    BY <2>1, FailsRight
<1>3. CASE F!GetPosition(s) \/ G!GetPosition(s)
  <2>1. fileCall'.op = "tell" /\ content' = content /\ fileStream' = fileStream
    BY <1>3 DEF F!GetPosition, F!Call, G!GetPosition, G!Call
  <2>2. FileInv'
    BY <2>1 DEF FileInv, F!Made
  <2> QED
    BY <2>1, <2>2, OtherCalls
<1>4. CASE Z!GetPositionBz2(s)
  <2>1. /\ fileStream' = [fileStream EXCEPT ![s].status = "position"] /\ content' = content
        /\ fileCall'.op = "tell" /\ s \in F!Made
    BY <1>4 DEF Z!GetPositionBz2, Z!Fails, Z!Call, Z!Made, F!Made
  <2> QED
    BY <2>1, StatusChanges
<1> QED
  BY <1>1, <1>2, <1>3, <1>4

(* What a step of any kind of stream is. *)
FileStep ==
    \E s \in FileIds :
       \/ \E ok \in BOOLEAN : \/ \E d \in Directions \union Packed : F!Open(s, d, ok)
                              \/ \E c \in FileIds : F!Clone(s, c, ok)
       \/ F!CloseStream(s) \/ F!Destroy(s) \/ F!Flush(s) \/ F!ResetStatus(s)
       \/ F!GetPosition(s) \/ G!GetPosition(s) \/ Z!GetPositionBz2(s)
       \/ \E n \in 0 .. 2 : F!ReadBytes(s, n)
       \/ \E b \in ByteValues : F!WriteBytes(s, <<b>>) \/ \E c \in ByteValues : F!WriteBytes(s, <<b, c>>)
       \/ \E pos \in -1 .. 1 : \E mode \in {"SET", "CURRENT", "END"} :
            F!SetPosition(s, pos, mode) \/ G!SetPositionGz(s, pos, mode)
            \/ Z!SetPositionBz2(s, pos, mode)

LEMMA FileStepRight == FileInv /\ FileStep => FileInv' /\ FileRight
<1> SUFFICES ASSUME FileInv, NEW s \in FileIds,
       \/ \E ok \in BOOLEAN : \/ \E d \in Directions \union Packed : F!Open(s, d, ok)
                              \/ \E c \in FileIds : F!Clone(s, c, ok)
       \/ F!CloseStream(s) \/ F!Destroy(s) \/ F!Flush(s) \/ F!ResetStatus(s)
       \/ F!GetPosition(s) \/ G!GetPosition(s) \/ Z!GetPositionBz2(s)
       \/ \E n \in 0 .. 2 : F!ReadBytes(s, n)
       \/ \E b \in ByteValues : F!WriteBytes(s, <<b>>) \/ \E c \in ByteValues : F!WriteBytes(s, <<b, c>>)
       \/ \E pos \in -1 .. 1 : \E mode \in {"SET", "CURRENT", "END"} :
            F!SetPosition(s, pos, mode) \/ G!SetPositionGz(s, pos, mode)
            \/ Z!SetPositionBz2(s, pos, mode)
     PROVE FileInv' /\ FileRight
  BY DEF FileStep
<1>1. ASSUME NEW ok \in BOOLEAN, NEW d \in Directions \union Packed, F!Open(s, d, ok)
      PROVE  FileInv' /\ FileRight
  <2>1. F!Make(s, d, ok) /\ fileCall'.op = "open" /\ d \in Ways
    BY <1>1 DEF F!Open, F!Call, Ways
  <2> QED
    BY <2>1, FileMade
<1>2. ASSUME NEW ok \in BOOLEAN, NEW c \in FileIds, F!Clone(s, c, ok)
      PROVE  FileInv' /\ FileRight
  <2>1. F!Make(c, fileStream[s].direction, ok) /\ fileCall'.op = "clone" /\ s \in F!Made
    BY <1>2 DEF F!Clone, F!Call
  <2>2. fileStream[s].direction \in Ways
    BY <2>1 DEF FileInv, FileState
  <2> QED
    BY <2>1, <2>2, FileMade
<1>3. ASSUME NEW bytes \in Seq(ByteValues), F!WriteBytes(s, bytes) PROVE FileInv' /\ FileRight
  BY <1>3, FileWritesRight
<1>4. ASSUME NEW b \in ByteValues, F!WriteBytes(s, <<b>>) \/ \E c \in ByteValues : F!WriteBytes(s, <<b, c>>)
      PROVE  FileInv' /\ FileRight
  BY <1>3, <1>4, SomeBytes
<1> QED
  BY <1>1, <1>2, <1>4, FileReadsRight, FileClosed, FileFlushed, FileSeeks

LEMMA PlainStep == F!Next => FileStep
<1>1. ASSUME NEW s \in FileIds, NEW pos, NEW mode
      PROVE  ~F!SetPositionGz(s, pos, mode) /\ ~F!SetPositionBz2(s, pos, mode)
             /\ ~F!GetPositionBz2(s)
  BY DEF F!SetPositionGz, F!SetPositionBz2, F!GetPositionBz2
<1> QED
  BY <1>1, Zenon DEF F!Next, FileStep

(* A stream of a kind does what one of the other kinds does, but for its   *)
(* position.                                                               *)
LEMMA SameMakes ==
    ASSUME NEW s \in FileIds, NEW c \in FileIds, NEW d, NEW ok
    PROVE  /\ G!Open(s, d, ok) => F!Open(s, d, ok)
           /\ Z!Open(s, d, ok) => F!Open(s, d, ok)
           /\ G!Clone(s, c, ok) => F!Clone(s, c, ok)
           /\ Z!Clone(s, c, ok) => F!Clone(s, c, ok)
<1>1. /\ G!Open(s, d, ok) => F!Open(s, d, ok)
      /\ Z!Open(s, d, ok) => F!Open(s, d, ok)
  BY DEF F!Open, F!Made, F!Make, F!Opened, F!Call, G!Open, G!Made, G!Make, G!Opened, G!Call,
         Z!Open, Z!Made, Z!Make, Z!Opened, Z!Call
<1>2. /\ G!Clone(s, c, ok) => F!Clone(s, c, ok)
      /\ Z!Clone(s, c, ok) => F!Clone(s, c, ok)
  BY DEF F!Clone, F!Made, F!Make, F!Opened, F!Call, G!Clone, G!Made, G!Make, G!Opened, G!Call,
         Z!Clone, Z!Made, Z!Make, Z!Opened, Z!Call
<1> QED
  BY <1>1, <1>2

LEMMA SameCalls ==
    ASSUME NEW s \in FileIds
    PROVE  /\ G!CloseStream(s) \/ Z!CloseStream(s) => F!CloseStream(s)
           /\ G!Destroy(s) \/ Z!Destroy(s) => F!Destroy(s)
           /\ G!Flush(s) \/ Z!Flush(s) => F!Flush(s)
           /\ G!ResetStatus(s) \/ Z!ResetStatus(s) => F!ResetStatus(s)
<1>1. G!CloseStream(s) \/ Z!CloseStream(s) => F!CloseStream(s)
  BY DEF F!CloseStream, F!Made, F!Closed, F!Call, G!CloseStream, G!Made, G!Closed, G!Call,
         Z!CloseStream, Z!Made, Z!Closed, Z!Call
<1>2. G!Destroy(s) \/ Z!Destroy(s) => F!Destroy(s)
  BY DEF F!Destroy, F!Made, F!NoCall, G!Destroy, G!Made, G!NoCall, Z!Destroy, Z!Made, Z!NoCall
<1>3. G!Flush(s) \/ Z!Flush(s) => F!Flush(s)
  BY DEF F!Flush, F!Made, F!Fails, F!NoError, F!IsWriting, F!Call,
         G!Flush, G!Made, G!Fails, G!NoError, G!IsWriting, G!Call,
         Z!Flush, Z!Made, Z!Fails, Z!NoError, Z!IsWriting, Z!Call
<1>4. G!ResetStatus(s) \/ Z!ResetStatus(s) => F!ResetStatus(s)
  BY DEF F!ResetStatus, F!Made, F!Fails, F!Call, G!ResetStatus, G!Made, G!Fails, G!Call,
         Z!ResetStatus, Z!Made, Z!Fails, Z!Call
<1> QED
  BY <1>1, <1>2, <1>3, <1>4

LEMMA SameReads ==
    ASSUME NEW s \in FileIds, NEW n, NEW b
    PROVE  /\ G!ReadBytes(s, n) \/ Z!ReadBytes(s, n) => F!ReadBytes(s, n)
           /\ G!WriteBytes(s, b) \/ Z!WriteBytes(s, b) => F!WriteBytes(s, b)
<1>1. /\ G!ReadBytes(s, n) => F!ReadBytes(s, n)
      /\ Z!ReadBytes(s, n) => F!ReadBytes(s, n)
  BY Zenon DEF F!ReadBytes, F!Made, F!Fails, F!NoError, F!IsReading, F!EndStatus, F!Call,
         G!ReadBytes, G!Made, G!Fails, G!NoError, G!IsReading, G!EndStatus, G!Call,
         Z!ReadBytes, Z!Made, Z!Fails, Z!NoError, Z!IsReading, Z!EndStatus, Z!Call
<1>2. /\ G!WriteBytes(s, b) => F!WriteBytes(s, b)
      /\ Z!WriteBytes(s, b) => F!WriteBytes(s, b)
  BY Zenon DEF F!WriteBytes, F!Made, F!Fails, F!NoError, F!IsWriting, F!Stored, F!Overwritten, F!Call,
         G!WriteBytes, G!Made, G!Fails, G!NoError, G!IsWriting, G!Stored, G!Overwritten, G!Call,
         Z!WriteBytes, Z!Made, Z!Fails, Z!NoError, Z!IsWriting, Z!Stored, Z!Overwritten, Z!Call
<1> QED
  BY <1>1, <1>2

LEMMA PackedStep == G!Next \/ Z!Next => FileStep
<1>1. ASSUME NEW s \in FileIds, NEW pos, NEW mode
      PROVE  /\ ~G!SetPosition(s, pos, mode) /\ ~Z!SetPosition(s, pos, mode)
             /\ ~G!SetPositionBz2(s, pos, mode) /\ ~Z!SetPositionGz(s, pos, mode)
             /\ ~G!GetPositionBz2(s) /\ ~Z!GetPosition(s)
  BY DEF G!SetPosition, G!SetPositionBz2, G!GetPositionBz2,
         Z!SetPosition, Z!SetPositionGz, Z!GetPosition
<1>2. G!Next => FileStep
  BY <1>1, SameMakes, SameCalls, SameReads, Zenon DEF G!Next, FileStep
<1>3. Z!Next => FileStep
  BY <1>1, SameMakes, SameCalls, SameReads, Zenon DEF Z!Next, FileStep
<1> QED
  BY <1>2, <1>3

(* What the calls of a FileStream, a GzFileStream or a Bz2FileStream say   *)
(* that they read and wrote is what they did read and write, whatever part *)
(* of it the library did before an error, and whatever other streams do    *)
(* with the same file; bytes that were not written over are kept; and      *)
(* after an error nothing is read, written or moved until the status is    *)
(* reset (TCFileStream.cpp, TCGzFileStream.cpp, TCBz2FileStream.cpp,       *)
(* TCStream.cpp).                                                          *)
THEOREM FilesAreExact ==
    /\ F!Spec => FilesExact
    /\ G!Spec => FilesExact
    /\ Z!Spec => FilesExact
<1>1. F!Init => FileInv
  <2> SUFFICES ASSUME F!Init PROVE FileInv
    OBVIOUS
  <2>1. content \in Seq(ByteValues) /\ fileStream = [s \in FileIds |-> null]
    BY DEF F!Init
  <2>2. fileStream = [s \in FileIds |-> fileStream[s]] /\ F!Made = {}
    BY <2>1 DEF F!Made
  <2> QED
    BY <2>1, <2>2 DEF FileInv
<1>2. FileInv /\ [FileStep]_(F!vars) => FileInv'
  <2>1. CASE FileStep
    BY <2>1, FileStepRight
  <2>2. CASE UNCHANGED F!vars
    BY <2>2 DEF F!vars, FileInv, F!Made
  <2> QED
    BY <2>1, <2>2
<1>3. FileInv /\ [FileStep]_(F!vars) =>
        /\ [FileReadRight]_(F!vars) /\ [FileWriteRight]_(F!vars) /\ [ErrorKept]_(F!vars)
  BY FileStepRight DEF FileRight
<1>4. /\ [][FileReadRight]_(F!vars) => F!ReadExact
      /\ [][FileWriteRight]_(F!vars) => F!WriteExact
      /\ [][ErrorKept]_(F!vars) => F!ErrorHolds
  BY PTL DEF F!ReadExact, F!WriteExact, F!ErrorHolds, FileReadRight, FileWriteRight, ErrorKept
<1>5. F!Init /\ [][FileStep]_(F!vars) => FilesExact
  BY <1>1, <1>2, <1>3, <1>4, PTL DEF FilesExact
<1>6. [F!Next]_(F!vars) => [FileStep]_(F!vars)
  BY PlainStep
<1>7. G!Init \/ Z!Init => F!Init
  BY DEF F!Init, G!Init, Z!Init, F!NoCall, G!NoCall, Z!NoCall
<1>8. [G!Next]_(G!vars) \/ [Z!Next]_(Z!vars) => [FileStep]_(F!vars)
  BY PackedStep DEF F!vars, G!vars, Z!vars
<1>9. F!Spec => FilesExact
  BY <1>5, <1>6, PTL DEF F!Spec
<1>10. G!Spec => FilesExact
  BY <1>5, <1>7, <1>8, PTL DEF G!Spec
<1>11. Z!Spec => FilesExact
  BY <1>5, <1>7, <1>8, PTL DEF Z!Spec
<1> QED
  BY <1>9, <1>10, <1>11
-----------------------------------------------------------------------------
(* Settings: tables of tables.  A table of T has numbers for keys of T, in *)
(* the lists the hash function says; -1 is the number of a key it has not. *)
Tables(T, size) == [0 .. size - 1 -> Seq([key : T, value : Nat])]

Number(hash, data, size, k) ==
    LET list == data[hash[k] % size]
        p == GetElementPosition(list, k)
    IN  IF p = 0 THEN -1 ELSE list[p].value

WithNew(hash, data, size, k, v) ==
    [data EXCEPT ![hash[k] % size] = Append(@, [key |-> k, value |-> v])]

LEMMA FirstElement ==
    ASSUME NEW T, NEW list \in Seq(T), NEW k
    PROVE  /\ GetElementPosition(list, k) \in 0 .. Len(list)
           /\ GetElementPosition(list, k) = 0 <=> \A i \in 1 .. Len(list) : list[i].key # k
<1>1. CASE Positions(list, k) = {}
  <2>1. \A i \in 1 .. Len(list) : list[i].key # k
    BY <1>1 DEF Positions
  <2> QED
    BY <1>1, <2>1 DEF GetElementPosition
<1>2. CASE Positions(list, k) # {}
  <2>1. Positions(list, k) \in SUBSET Nat
    BY DEF Positions
  <2>2. \E i \in Positions(list, k) : \A j \in Positions(list, k) : i <= j
    BY <1>2, <2>1, MinOfNaturals
  <2>3. GetElementPosition(list, k) \in Positions(list, k)
    BY <1>2, <2>2 DEF GetElementPosition
  <2> QED
    BY <2>3 DEF Positions
<1> QED
  BY <1>1, <1>2

(* The list and the value that follow an element of another key are found  *)
(* as before.                                                              *)
LEMMA OtherElement ==
    ASSUME NEW T, NEW list \in Seq(T), NEW e \in T, NEW x, e.key # x
    PROVE  GetElementPosition(Append(list, e), x) = GetElementPosition(list, x)
<1> DEFINE n == Len(list)
           long == Append(list, e)
<1>1. /\ n \in Nat /\ Len(long) = n + 1 /\ long[n + 1] = e
      /\ \A i \in 1 .. n : long[i] = list[i]
  OBVIOUS
<1> HIDE DEF long
<1>2. \A i \in 1 .. n + 1 : i \in 1 .. n \/ i = n + 1
  BY <1>1
<1>3. \A i \in 1 .. n : i \in 1 .. n + 1
  BY <1>1
<1>4. Positions(long, x) = Positions(list, x)
  BY <1>1, <1>2, <1>3 DEF Positions
<1>5. GetElementPosition(long, x) = GetElementPosition(list, x)
  BY <1>4 DEF GetElementPosition
<1> QED
  BY <1>5 DEF long

LEMMA OwnElement ==
    ASSUME NEW T, NEW list \in Seq(T), NEW e \in T, GetElementPosition(list, e.key) = 0
    PROVE  /\ GetElementPosition(Append(list, e), e.key) = Len(list) + 1
           /\ Append(list, e)[Len(list) + 1] = e
<1> DEFINE n == Len(list)
           long == Append(list, e)
<1>1. /\ n \in Nat /\ long \in Seq(T) /\ Len(long) = n + 1 /\ long[n + 1] = e
      /\ \A i \in 1 .. n : long[i] = list[i]
  OBVIOUS
<1> HIDE DEF long
<1>2. \A i \in 1 .. n : list[i].key # e.key
  BY FirstElement
<1>3. \A i \in 1 .. n + 1 : i \in 1 .. n \/ i = n + 1
  BY <1>1
<1>4. Positions(long, e.key) = {n + 1}
  BY <1>1, <1>2, <1>3 DEF Positions
<1>5. (CHOOSE i \in {n + 1} : \A j \in {n + 1} : i <= j) = n + 1
  BY <1>1
<1>6. GetElementPosition(long, e.key) = n + 1
  BY <1>4, <1>5 DEF GetElementPosition
<1> QED
  BY <1>1, <1>6 DEF long

LEMMA NumberParts ==
    ASSUME NEW T, NEW hash \in [T -> Nat], NEW size \in Nat \ {0}, NEW data \in Tables(T, size),
           NEW k \in T
    PROVE  /\ hash[k] % size \in 0 .. size - 1
           /\ data[hash[k] % size] \in Seq([key : T, value : Nat])
           /\ Number(hash, data, size, k) \in Nat \cup {-1}
           /\ Number(hash, data, size, k) = -1
                 <=> GetElementPosition(data[hash[k] % size], k) = 0
<1> DEFINE q == hash[k] % size
           list == data[q]
           p == GetElementPosition(list, k)
<1>1. q \in 0 .. size - 1
  <2>1. hash[k] \in Nat
    OBVIOUS
  <2> QED
    BY <2>1
<1>2. list \in Seq([key : T, value : Nat])
  BY <1>1 DEF Tables
<1>3. p \in 0 .. Len(list)
  BY <1>2, FirstElement
<1>4. CASE p = 0
  BY <1>1, <1>2, <1>4 DEF Number
<1>5. CASE p # 0
  <2>1. p \in 1 .. Len(list)
    BY <1>2, <1>3, <1>5
  <2>2. list[p] \in [key : T, value : Nat]
    <3> DEFINE R == [key : T, value : Nat]
    <3>1. list \in Seq(R)
      BY <1>2
    <3> HIDE DEF R, list, p
    <3>2. list[p] \in R
      BY <2>1, <3>1
    <3> QED
      BY <3>2 DEF R
  <2>3. list[p].value \in Nat
    BY <2>2
  <2>4. Number(hash, data, size, k) = list[p].value
    BY <1>5 DEF Number
  <2>5. list[p].value # -1
    BY <2>3
  <2> QED
    BY <1>1, <1>2, <1>5, <2>3, <2>4, <2>5
<1> QED
  BY <1>4, <1>5

(* A table without keys, and one more key in a table that has it not.      *)
LEMMA NoNumber ==
    ASSUME NEW T, NEW hash \in [T -> Nat], NEW size \in Nat \ {0}, NEW data \in Tables(T, size),
           NEW k \in T, Number(hash, data, size, k) = -1
    PROVE  GetElementPosition(data[hash[k] % size], k) = 0
<1> DEFINE R == [key : T, value : Nat]
           list == data[hash[k] % size]
           p == GetElementPosition(list, k)
<1> SUFFICES ASSUME p # 0 PROVE FALSE
  OBVIOUS
<1>1. list \in Seq(R)
  BY NumberParts
<1>2. p \in 1 .. Len(list)
  BY <1>1, FirstElement
<1>3. list[p] \in R
  <2> HIDE DEF R, list, p
  <2> QED
    BY <1>1, <1>2, ElementOfSeq
<1>4. list[p].value \in Nat
  BY <1>3
<1>5. Number(hash, data, size, k) = list[p].value
  BY DEF Number
<1> QED
  BY <1>4, <1>5

LEMMA NoKeys ==
    ASSUME NEW T, NEW hash \in [T -> Nat], NEW size \in Nat \ {0}
    PROVE  /\ Empty(size) \in Tables(T, size)
           /\ \A k \in T : Number(hash, Empty(size), size, k) = -1
<1>1. Empty(size) \in Tables(T, size)
  BY DEF Empty, Tables
<1>2. ASSUME NEW k \in T PROVE Number(hash, Empty(size), size, k) = -1
  <2>1. hash[k] % size \in 0 .. size - 1
    BY <1>1, NumberParts
  <2>2. Empty(size)[hash[k] % size] = <<>>
    BY <2>1 DEF Empty
  <2>3. GetElementPosition(<<>>, k) = 0
    BY DEF GetElementPosition, Positions
  <2> QED
    BY <2>2, <2>3 DEF Number
<1> QED
  BY <1>1, <1>2

LEMMA OneMoreKey ==
    ASSUME NEW T, NEW hash \in [T -> Nat], NEW size \in Nat \ {0}, NEW data \in Tables(T, size),
           NEW k \in T, NEW v \in Nat, Number(hash, data, size, k) = -1
    PROVE  LET new == WithNew(hash, data, size, k, v) IN
           /\ new \in Tables(T, size)
           /\ Number(hash, new, size, k) = v
           /\ \A x \in T : x # k => Number(hash, new, size, x) = Number(hash, data, size, x)
<1> DEFINE R == [key : T, value : Nat]
           q == hash[k] % size
           e == [key |-> k, value |-> v]
           long == Append(data[q], e)
           new == WithNew(hash, data, size, k, v)
<1>1. q \in 0 .. size - 1 /\ data[q] \in Seq(R) /\ GetElementPosition(data[q], k) = 0
  BY NumberParts
<1>2. e \in R /\ e.key = k /\ e.value = v
  OBVIOUS
<1>3. long \in Seq(R)
  BY <1>1, <1>2
<1>4. new = [p \in 0 .. size - 1 |-> IF p = q THEN long ELSE data[p]]
  BY <1>1 DEF WithNew, Tables
<1>5. new \in Tables(T, size)
  <2>1. \A p \in 0 .. size - 1 : data[p] \in Seq(R)
    BY DEF Tables
  <2> HIDE DEF long, new, q, e, R
  <2> QED
    BY <1>3, <1>4, <2>1 DEF Tables, R
<1>6. Number(hash, new, size, k) = v
  <2>1. GetElementPosition(long, k) = Len(data[q]) + 1 /\ long[Len(data[q]) + 1] = e
    <3> HIDE DEF R, e, q
    <3>1. GetElementPosition(data[q], e.key) = 0
      BY <1>1, <1>2
    <3>2. GetElementPosition(long, e.key) = Len(data[q]) + 1 /\ long[Len(data[q]) + 1] = e
      BY <1>1, <1>2, <3>1, OwnElement
    <3> QED
      BY <1>2, <3>2
  <2>2. Len(data[q]) + 1 # 0
    BY <1>1
  <2>3. new[q] = long
    BY <1>1, <1>4
  <2> QED
    BY <1>2, <2>1, <2>2, <2>3 DEF Number
<1>7. ASSUME NEW x \in T, x # k PROVE Number(hash, new, size, x) = Number(hash, data, size, x)
  <2> DEFINE r == hash[x] % size
  <2>1. r \in 0 .. size - 1
    BY NumberParts
  <2>2. CASE r = q
    <3>1. new[r] = long /\ data[r] = data[q]
      BY <1>4, <2>1, <2>2
    <3>2. GetElementPosition(long, x) = GetElementPosition(data[q], x)
      <4> HIDE DEF R, e, q
      <4>1. e.key # x
        BY <1>2, <1>7
      <4> QED
        BY <1>1, <1>2, <4>1, OtherElement
    <3>3. GetElementPosition(data[q], x) \in 0 .. Len(data[q])
      BY <1>1, FirstElement
    <3>4. \A i \in 1 .. Len(data[q]) : long[i] = data[q][i]
      BY <1>1, <1>2
    <3>5. GetElementPosition(data[q], x) # 0 =>
             long[GetElementPosition(long, x)] = data[q][GetElementPosition(data[q], x)]
      <4> DEFINE g == GetElementPosition(data[q], x)
      <4>1. g # 0 => g \in 1 .. Len(data[q])
        BY <1>1, <3>3
      <4> HIDE DEF g
      <4>2. g # 0 => long[g] = data[q][g]
        BY <3>4, <4>1, Zenon
      <4> QED
        BY <3>2, <4>2, Zenon DEF g
    <3> HIDE DEF long, new
    <3> QED
      BY <3>1, <3>2, <3>5 DEF Number
  <2>3. CASE r # q
    <3>1. new[r] = data[r]
      BY <1>4, <2>1, <2>3
    <3> QED
      BY <3>1 DEF Number
  <2> QED
    BY <2>2, <2>3
<1> QED
  BY <1>5, <1>6, <1>7
-----------------------------------------------------------------------------
(* The settings as a whole: a table of sections S, a table T[i + 1] of keys *)
(* for the section with number i, and the values D.                        *)
SectionNumber(S, s) == Number(SectionHash, S, SectionSize, s)
KeyNumber(T, i, k) == Number(EntryHash, T[i + 1], KeySize, k)

Got(S, T, D, s, k) ==
    IF SectionNumber(S, s) = -1 \/ KeyNumber(T, SectionNumber(S, s), k) = -1 THEN Unset
    ELSE D[KeyNumber(T, SectionNumber(S, s), k) + 1]

(* Each section has a table of its own, and each key of each section a     *)
(* value of its own.                                                       *)
SettingsTypes(S, T, D) ==
    /\ S \in Tables(Sections, SectionSize)
    /\ T \in Seq(Tables(EntryKeys, KeySize))
    /\ D \in Seq(Values)

SectionsApart(S, T) ==
    /\ \A s \in Sections : SectionNumber(S, s) < Len(T)
    /\ \A s, t \in Sections :
          SectionNumber(S, s) = SectionNumber(S, t) /\ SectionNumber(S, s) # -1 => s = t

KeysApart(T, D) ==
    /\ \A i \in 0 .. Len(T) - 1, k \in EntryKeys : KeyNumber(T, i, k) < Len(D)
    /\ \A i, j \in 0 .. Len(T) - 1, k, l \in EntryKeys :
          KeyNumber(T, i, k) = KeyNumber(T, j, l) /\ KeyNumber(T, i, k) # -1 => i = j /\ k = l

Apart(S, T, D) == SettingsTypes(S, T, D) /\ SectionsApart(S, T) /\ KeysApart(T, D)

LEMMA SettingsConstants ==
    /\ SectionHash \in [Sections -> Nat] /\ EntryHash \in [EntryKeys -> Nat]
    /\ SectionSize \in Nat \ {0} /\ KeySize \in Nat \ {0}
    /\ Unset \notin Values
BY MCAssumption DEF E!SettingsAssumption

LEMMA SectionNumbers ==
    ASSUME NEW S, NEW T, NEW D, Apart(S, T, D), NEW s \in Sections
    PROVE  /\ SectionNumber(S, s) \in Nat \cup {-1}
           /\ SectionNumber(S, s) # -1 => SectionNumber(S, s) \in 0 .. Len(T) - 1
<1>1. SectionNumber(S, s) \in Nat \cup {-1}
  BY SettingsConstants, NumberParts DEF Apart, SettingsTypes, SectionNumber
<1>2. SectionNumber(S, s) < Len(T) /\ Len(T) \in Nat
  BY DEF Apart, SettingsTypes, SectionsApart
<1> QED
  BY <1>1, <1>2

LEMMA KeyNumbers ==
    ASSUME NEW S, NEW T, NEW D, Apart(S, T, D), NEW i \in 0 .. Len(T) - 1, NEW k \in EntryKeys
    PROVE  /\ T[i + 1] \in Tables(EntryKeys, KeySize)
           /\ KeyNumber(T, i, k) \in Nat \cup {-1}
           /\ KeyNumber(T, i, k) # -1 => KeyNumber(T, i, k) + 1 \in 1 .. Len(D)
<1>1. i + 1 \in 1 .. Len(T) /\ Len(T) \in Nat /\ Len(D) \in Nat
  BY DEF Apart, SettingsTypes
<1>2. T[i + 1] \in Tables(EntryKeys, KeySize)
  BY <1>1 DEF Apart, SettingsTypes
<1>3. KeyNumber(T, i, k) \in Nat \cup {-1}
  BY <1>2, SettingsConstants, NumberParts DEF KeyNumber
<1>4. KeyNumber(T, i, k) < Len(D)
  BY DEF Apart, KeysApart
<1> QED
  BY <1>1, <1>2, <1>3, <1>4

(* The section of an entry that is set is there, or is made without keys,  *)
(* and no entry is changed by this.                                        *)
LEMMA SectionIsMade ==
    ASSUME NEW S, NEW T, NEW D, Apart(S, T, D), NEW s \in Sections, SectionNumber(S, s) = -1
    PROVE  LET S2 == WithNew(SectionHash, S, SectionSize, s, Len(T))
               T2 == Append(T, Empty(KeySize))
           IN  /\ Apart(S2, T2, D)
               /\ SectionNumber(S2, s) = Len(T)
               /\ Len(T2) = Len(T) + 1
               /\ \A t \in Sections, l \in EntryKeys : Got(S2, T2, D, t, l) = Got(S, T, D, t, l)
<1> DEFINE n == Len(T)
           S2 == WithNew(SectionHash, S, SectionSize, s, n)
           T2 == Append(T, Empty(KeySize))
<1>1. n \in Nat
  BY DEF Apart, SettingsTypes
<1>2. /\ S2 \in Tables(Sections, SectionSize)
      /\ SectionNumber(S2, s) = n
      /\ \A t \in Sections : t # s => SectionNumber(S2, t) = SectionNumber(S, t)
  BY <1>1, SettingsConstants, OneMoreKey DEF Apart, SettingsTypes, SectionNumber
<1>3. /\ Empty(KeySize) \in Tables(EntryKeys, KeySize)
      /\ \A l \in EntryKeys : Number(EntryHash, Empty(KeySize), KeySize, l) = -1
  BY SettingsConstants, NoKeys
<1>4. /\ T2 \in Seq(Tables(EntryKeys, KeySize)) /\ Len(T2) = n + 1
      /\ T2[n + 1] = Empty(KeySize)
      /\ \A i \in 1 .. n : T2[i] = T[i]
  BY <1>3 DEF Apart, SettingsTypes
<1> HIDE DEF S2, T2, n
<1>5. /\ \A i \in 0 .. n - 1, l \in EntryKeys : KeyNumber(T2, i, l) = KeyNumber(T, i, l)
      /\ \A l \in EntryKeys : KeyNumber(T2, n, l) = -1
  <2>1. \A i \in 0 .. n - 1 : T2[i + 1] = T[i + 1]
    BY <1>1, <1>4
  <2> QED
    BY <1>3, <1>4, <2>1 DEF KeyNumber
<1>6. \A t \in Sections : SectionNumber(S, t) # -1 => SectionNumber(S, t) \in 0 .. n - 1
  BY SectionNumbers DEF n
<1>7. SettingsTypes(S2, T2, D)
  BY <1>2, <1>4 DEF Apart, SettingsTypes
<1>8. SectionsApart(S2, T2)
  <2>1. \A t \in Sections : SectionNumber(S, t) = -1 \/ SectionNumber(S, t) \in 0 .. n - 1
    BY <1>6
  <2>2. \A t \in Sections : SectionNumber(S2, t) < n + 1
    BY <1>1, <1>2, <2>1
  <2>3. ASSUME NEW t \in Sections, NEW u \in Sections,
               SectionNumber(S2, t) = SectionNumber(S2, u), SectionNumber(S2, t) # -1
        PROVE  t = u
    <3>1. CASE t # s /\ u # s
      BY <1>2, <2>3, <3>1 DEF Apart, SectionsApart
    <3>2. CASE t = s
      BY <1>1, <1>2, <2>1, <2>3, <3>2
    <3>3. CASE u = s
      BY <1>1, <1>2, <2>1, <2>3, <3>3
    <3> QED
      BY <3>1, <3>2, <3>3
  <2> QED
    BY <1>4, <2>2, <2>3 DEF SectionsApart
<1>9. KeysApart(T2, D)
  <2>1. \A i \in 0 .. n : i \in 0 .. n - 1 \/ i = n
    BY <1>1
  <2>2. 0 .. Len(T2) - 1 = 0 .. n
    BY <1>1, <1>4
  <2>3. Len(D) \in Nat /\ Len(T) = n
    BY DEF Apart, SettingsTypes, n
  <2>4. \A i \in 0 .. n, k \in EntryKeys : KeyNumber(T2, i, k) < Len(D)
    BY <1>5, <2>1, <2>3 DEF Apart, KeysApart
  <2>5. ASSUME NEW i \in 0 .. n, NEW j \in 0 .. n, NEW k \in EntryKeys, NEW l \in EntryKeys,
               KeyNumber(T2, i, k) = KeyNumber(T2, j, l), KeyNumber(T2, i, k) # -1
        PROVE  i = j /\ k = l
    <3>1. i \in 0 .. n - 1 /\ j \in 0 .. n - 1
      BY <1>5, <2>1, <2>5
    <3>2. KeyNumber(T, i, k) = KeyNumber(T, j, l) /\ KeyNumber(T, i, k) # -1
      BY <1>5, <2>5, <3>1
    <3> QED
      BY <2>3, <3>1, <3>2 DEF Apart, KeysApart
  <2>6. \A i, j \in 0 .. n, k, l \in EntryKeys :
           KeyNumber(T2, i, k) = KeyNumber(T2, j, l) /\ KeyNumber(T2, i, k) # -1 => i = j /\ k = l
    BY <2>5
  <2> QED
    BY <2>2, <2>4, <2>6, Zenon DEF KeysApart
<1>10. ASSUME NEW t \in Sections, NEW l \in EntryKeys
       PROVE  Got(S2, T2, D, t, l) = Got(S, T, D, t, l)
  <2>1. CASE t = s
    BY <1>2, <1>5, <2>1 DEF Got
  <2>2. CASE t # s
    <3>1. SectionNumber(S2, t) = SectionNumber(S, t)
      BY <1>2, <2>2
    <3>2. SectionNumber(S, t) # -1 =>
             KeyNumber(T2, SectionNumber(S, t), l) = KeyNumber(T, SectionNumber(S, t), l)
      BY <1>5, <1>6
    <3> QED
      BY <3>1, <3>2 DEF Got
  <2> QED
    BY <2>1, <2>2
<1>11. Apart(S2, T2, D)
  BY <1>7, <1>8, <1>9 DEF Apart
<1> QED
  BY <1>2, <1>4, <1>10, <1>11 DEF S2, T2, n

(* A key that the section has not gets the number of a new value.          *)
WithEntry(T, p, k, n) == [T EXCEPT ![p + 1] = WithNew(EntryHash, @, KeySize, k, n)]

IsSet(S, T, D, T2, D2, s, k, v) ==
    /\ Apart(S, T2, D2)
    /\ Got(S, T2, D2, s, k) = v
    /\ \A t \in Sections, l \in EntryKeys :
          <<t, l>> # <<s, k>> => Got(S, T2, D2, t, l) = Got(S, T, D, t, l)

LEMMA EntryIsMade ==
    ASSUME NEW S, NEW T, NEW D, Apart(S, T, D), NEW s \in Sections, NEW k \in EntryKeys,
           NEW v \in Values, NEW p, p = SectionNumber(S, s), p # -1, KeyNumber(T, p, k) = -1
    PROVE  IsSet(S, T, D, WithEntry(T, p, k, Len(D)), Append(D, v), s, k, v)
<1> DEFINE n == Len(T)
           m == Len(D)
           new == WithNew(EntryHash, T[p + 1], KeySize, k, m)
           T2 == [T EXCEPT ![p + 1] = WithNew(EntryHash, @, KeySize, k, Len(D))]
           D2 == Append(D, v)
<1>1. n \in Nat /\ m \in Nat /\ p \in 0 .. n - 1
  BY SectionNumbers DEF Apart, SettingsTypes
<1>2. /\ new \in Tables(EntryKeys, KeySize)
      /\ Number(EntryHash, new, KeySize, k) = m
      /\ \A l \in EntryKeys : l # k => Number(EntryHash, new, KeySize, l) = KeyNumber(T, p, l)
  <2>1. T[p + 1] \in Tables(EntryKeys, KeySize)
    BY <1>1, KeyNumbers
  <2>2. Number(EntryHash, T[p + 1], KeySize, k) = -1
    BY DEF KeyNumber
  <2> HIDE DEF m
  <2> QED
    BY <1>1, <2>1, <2>2, SettingsConstants, OneMoreKey DEF KeyNumber
<1>3. /\ T2 \in Seq(Tables(EntryKeys, KeySize)) /\ Len(T2) = n
      /\ T2[p + 1] = new
      /\ \A i \in 0 .. n - 1 : i # p => T2[i + 1] = T[i + 1]
  <2>1. T2 = [T EXCEPT ![p + 1] = new]
    OBVIOUS
  <2>2. p + 1 \in 1 .. n /\ \A i \in 0 .. n - 1 : i + 1 \in 1 .. n /\ (i # p => i + 1 # p + 1)
    BY <1>1
  <2>3. T \in Seq(Tables(EntryKeys, KeySize))
    BY DEF Apart, SettingsTypes
  <2> HIDE DEF new, T2
  <2> QED
    BY <1>2, <2>1, <2>2, <2>3
<1>4. /\ D2 \in Seq(Values) /\ Len(D2) = m + 1
      /\ D2[m + 1] = v
      /\ \A i \in 1 .. m : D2[i] = D[i]
  BY DEF Apart, SettingsTypes
<1>5. Len(T) = n /\ Len(D) = m
  OBVIOUS
<1> HIDE DEF n, m, new, T2, D2
<1>6. /\ KeyNumber(T2, p, k) = m
      /\ \A i \in 0 .. n - 1, l \in EntryKeys :
            i # p \/ l # k => KeyNumber(T2, i, l) = KeyNumber(T, i, l)
  BY <1>2, <1>3 DEF KeyNumber
<1>7. \A i \in 0 .. n - 1, l \in EntryKeys :
         /\ KeyNumber(T, i, l) \in Nat \cup {-1}
         /\ KeyNumber(T, i, l) # -1 => KeyNumber(T, i, l) + 1 \in 1 .. m
  BY <1>5, KeyNumbers
<1>8. SettingsTypes(S, T2, D2)
  BY <1>3, <1>4 DEF Apart, SettingsTypes
<1>9. SectionsApart(S, T2)
  BY <1>3, <1>5 DEF Apart, SectionsApart
<1>10. KeysApart(T2, D2)
  <2>1. \A i \in 0 .. n - 1, l \in EntryKeys : KeyNumber(T, i, l) < m
    BY <1>5 DEF Apart, KeysApart
  <2>2. \A i \in 0 .. n - 1, l \in EntryKeys : KeyNumber(T2, i, l) < m + 1
    <3> TAKE i \in 0 .. n - 1, l \in EntryKeys
    <3>1. CASE i = p /\ l = k
      BY <1>1, <1>6, <3>1
    <3>2. CASE i # p \/ l # k
      <4>1. KeyNumber(T2, i, l) = KeyNumber(T, i, l) /\ KeyNumber(T, i, l) \in Nat \cup {-1}
            /\ KeyNumber(T, i, l) < m
        BY <1>6, <1>7, <2>1, <3>2
      <4> QED
        BY <1>1, <4>1
    <3> QED
      BY <3>1, <3>2
  <2>3. ASSUME NEW i \in 0 .. n - 1, NEW j \in 0 .. n - 1, NEW l \in EntryKeys, NEW h \in EntryKeys,
               KeyNumber(T2, i, l) = KeyNumber(T2, j, h), KeyNumber(T2, i, l) # -1
        PROVE  i = j /\ l = h
    <3>1. CASE (i # p \/ l # k) /\ (j # p \/ h # k)
      <4>1. KeyNumber(T, i, l) = KeyNumber(T, j, h) /\ KeyNumber(T, i, l) # -1
        BY <1>6, <2>3, <3>1
      <4> QED
        BY <1>5, <4>1 DEF Apart, KeysApart
    <3>2. CASE i = p /\ l = k
      <4>1. KeyNumber(T2, j, h) = m
        BY <1>6, <2>3, <3>2
      <4>2. ~(j # p \/ h # k)
        <5> SUFFICES ASSUME j # p \/ h # k PROVE FALSE
          OBVIOUS
        <5>1. KeyNumber(T, j, h) = m /\ KeyNumber(T, j, h) < m
          BY <1>6, <2>1, <4>1
        <5> QED
          BY <1>1, <5>1
      <4> QED
        BY <3>2, <4>2
    <3>3. CASE j = p /\ h = k
      <4>1. KeyNumber(T2, i, l) = m
        BY <1>6, <2>3, <3>3
      <4>2. ~(i # p \/ l # k)
        <5> SUFFICES ASSUME i # p \/ l # k PROVE FALSE
          OBVIOUS
        <5>1. KeyNumber(T, i, l) = m /\ KeyNumber(T, i, l) < m
          BY <1>6, <2>1, <4>1
        <5> QED
          BY <1>1, <5>1
      <4> QED
        BY <3>3, <4>2
    <3> QED
      BY <3>1, <3>2, <3>3
  <2> QED
    BY <1>3, <1>4, <2>2, <2>3 DEF KeysApart
<1>11. Got(S, T2, D2, s, k) = v
  <2>1. m # -1
    BY <1>1
  <2> QED
    BY <1>4, <1>6, <2>1 DEF Got
<1>12. ASSUME NEW t \in Sections, NEW l \in EntryKeys, <<t, l>> # <<s, k>>
       PROVE  Got(S, T2, D2, t, l) = Got(S, T, D, t, l)
  <2> DEFINE q == SectionNumber(S, t)
  <2>1. CASE q = -1
    BY <2>1 DEF Got
  <2>2. CASE q # -1
    <3>1. q \in 0 .. n - 1
      BY <1>5, <2>2, SectionNumbers
    <3>2. q = p => t = s
      BY <2>2 DEF Apart, SectionsApart
    <3>3. KeyNumber(T2, q, l) = KeyNumber(T, q, l)
      BY <1>6, <1>12, <3>1, <3>2
    <3>4. KeyNumber(T, q, l) # -1 => D2[KeyNumber(T, q, l) + 1] = D[KeyNumber(T, q, l) + 1]
      BY <1>4, <1>7, <3>1
    <3> QED
      BY <2>2, <3>3, <3>4 DEF Got
  <2> QED
    BY <2>1, <2>2
<1>13. Apart(S, T2, D2)
  BY <1>8, <1>9, <1>10 DEF Apart
<1> QED
  BY <1>11, <1>12, <1>13 DEF T2, D2, m, IsSet, WithEntry

(* A key that the section has keeps its number, the value is replaced.     *)

LEMMA EntryIsReplaced ==
    ASSUME NEW S, NEW T, NEW D, Apart(S, T, D), NEW s \in Sections, NEW k \in EntryKeys,
           NEW v \in Values, NEW p, p = SectionNumber(S, s), p # -1,
           NEW e, e = KeyNumber(T, p, k), e # -1
    PROVE  IsSet(S, T, D, T, [D EXCEPT ![e + 1] = v], s, k, v)
<1> DEFINE D2 == [D EXCEPT ![e + 1] = v]
<1>1. p \in 0 .. Len(T) - 1
  BY SectionNumbers
<1>2. e \in Nat /\ e + 1 \in 1 .. Len(D)
  BY <1>1, KeyNumbers
<1>3. /\ D2 \in Seq(Values) /\ Len(D2) = Len(D)
      /\ D2[e + 1] = v
      /\ \A i \in 1 .. Len(D) : i # e + 1 => D2[i] = D[i]
  <2>1. D \in Seq(Values)
    BY DEF Apart, SettingsTypes
  <2> QED
    BY <1>2, <2>1
<1> HIDE DEF D2
<1>4. Apart(S, T, D2)
  BY <1>3 DEF Apart, SettingsTypes, KeysApart
<1>5. Got(S, T, D2, s, k) = v
  BY <1>3 DEF Got
<1>6. ASSUME NEW t \in Sections, NEW l \in EntryKeys, <<t, l>> # <<s, k>>
      PROVE  Got(S, T, D2, t, l) = Got(S, T, D, t, l)
  <2> DEFINE q == SectionNumber(S, t)
             a == KeyNumber(T, q, l)
  <2>1. CASE q = -1 \/ a = -1
    BY <2>1 DEF Got
  <2>2. CASE q # -1 /\ a # -1
    <3>1. q \in 0 .. Len(T) - 1
      BY <2>2, SectionNumbers
    <3>2. a \in Nat /\ a + 1 \in 1 .. Len(D)
      BY <2>2, <3>1, KeyNumbers
    <3>3. a # e
      <4> SUFFICES ASSUME a = e PROVE FALSE
        OBVIOUS
      <4>1. q = p /\ l = k
        BY <1>1, <2>2, <3>1 DEF Apart, KeysApart
      <4>2. t = s
        BY <2>2, <4>1 DEF Apart, SectionsApart
      <4> QED
        BY <1>6, <4>1, <4>2
    <3>4. a + 1 # e + 1
      BY <1>2, <3>2, <3>3
    <3>5. D2[a + 1] = D[a + 1]
      BY <1>3, <3>2, <3>4
    <3> QED
      BY <2>2, <3>5 DEF Got
  <2> QED
    BY <2>1, <2>2
<1> QED
  BY <1>4, <1>5, <1>6 DEF D2, IsSet

LEMMA SectionLookup ==
    ASSUME NEW d, NEW s
    PROVE  E!S!GetMappedValue(d, SectionSize, s, -1) = Number(SectionHash, d, SectionSize, s)
BY DEF E!S!GetMappedValue, E!S!GetTableEntryPosition, E!S!GetElementPosition, E!S!Positions,
       Number, GetElementPosition, Positions

LEMMA KeyLookup ==
    ASSUME NEW d, NEW k
    PROVE  E!K!GetMappedValue(d, KeySize, k, -1) = Number(EntryHash, d, KeySize, k)
BY DEF E!K!GetMappedValue, E!K!GetTableEntryPosition, E!K!GetElementPosition, E!K!Positions,
       Number, GetElementPosition, Positions

LEMMA SectionAdded ==
    ASSUME NEW d \in Tables(Sections, SectionSize), NEW s \in Sections, NEW v,
           Number(SectionHash, d, SectionSize, s) = -1
    PROVE  E!S!Added(d, SectionSize, s, v) = WithNew(SectionHash, d, SectionSize, s, v)
<1>1. GetElementPosition(d[SectionHash[s] % SectionSize], s) = 0
  BY SettingsConstants, NoNumber
<1> QED
  BY <1>1 DEF E!S!Added, E!S!GetTableEntryPosition, E!S!GetElementPosition, E!S!Positions,
              WithNew, GetElementPosition, Positions

LEMMA KeyAdded ==
    ASSUME NEW d \in Tables(EntryKeys, KeySize), NEW k \in EntryKeys, NEW v,
           Number(EntryHash, d, KeySize, k) = -1
    PROVE  E!K!Added(d, KeySize, k, v) = WithNew(EntryHash, d, KeySize, k, v)
<1>1. GetElementPosition(d[EntryHash[k] % KeySize], k) = 0
  BY SettingsConstants, NoNumber
<1> QED
  BY <1>1 DEF E!K!Added, E!K!GetTableEntryPosition, E!K!GetElementPosition, E!K!Positions,
              WithNew, GetElementPosition, Positions

SettingsInv == Apart(m_section_string_hash_table, m_key_string_hash_table, m_data_of_string)

GotNow(s, k) ==
    Got(m_section_string_hash_table, m_key_string_hash_table, m_data_of_string, s, k)

LEMMA GotIsEntry ==
    ASSUME NEW s, NEW k
    PROVE  /\ E!GetStringEntry(s, k, Unset) = GotNow(s, k)
           /\ E!GetStringEntry(s, k, Unset)' = GotNow(s, k)'
<1>1. E!GetStringEntry(s, k, Unset) = GotNow(s, k)
  BY SectionLookup, KeyLookup
     DEF E!GetStringEntry, E!SectionPosition, E!KeyPosition, E!NOT_FOUND, GotNow, Got,
         SectionNumber, KeyNumber
<1>2. E!GetStringEntry(s, k, Unset)' = GotNow(s, k)'
  BY SectionLookup, KeyLookup
     DEF E!GetStringEntry, E!SectionPosition, E!KeyPosition, E!NOT_FOUND, GotNow, Got,
         SectionNumber, KeyNumber
<1> QED
  BY <1>1, <1>2

LEMMA SettingsInitially ==
    ASSUME E!Init
    PROVE  SettingsInv
<1>1. m_section_string_hash_table = Empty(SectionSize)
  BY DEF E!Init, E!S!Empty, Empty
<1>2. m_key_string_hash_table = <<>> /\ m_data_of_string = <<>>
  BY DEF E!Init
<1>3. /\ Empty(SectionSize) \in Tables(Sections, SectionSize)
      /\ \A s \in Sections : SectionNumber(Empty(SectionSize), s) = -1
  BY SettingsConstants, NoKeys DEF SectionNumber
<1> QED
  BY <1>1, <1>2, <1>3
     DEF SettingsInv, Apart, SettingsTypes, SectionsApart, KeysApart

LEMMA SettingsCleared ==
    ASSUME E!Clear
    PROVE  /\ SettingsInv'
           /\ \A s \in Sections, k \in EntryKeys : GotNow(s, k)' = Unset
<1>1. m_section_string_hash_table' = Empty(SectionSize)
  BY DEF E!Clear, E!S!Empty, Empty
<1>2. m_key_string_hash_table' = <<>> /\ m_data_of_string' = <<>>
  BY DEF E!Clear
<1>3. /\ Empty(SectionSize) \in Tables(Sections, SectionSize)
      /\ \A s \in Sections : SectionNumber(Empty(SectionSize), s) = -1
  BY SettingsConstants, NoKeys DEF SectionNumber
<1>4. SettingsInv'
  BY <1>1, <1>2, <1>3
     DEF SettingsInv, Apart, SettingsTypes, SectionsApart, KeysApart
<1>5. \A s \in Sections, k \in EntryKeys : GotNow(s, k)' = Unset
  BY <1>1, <1>2, <1>3 DEF GotNow, Got
<1> QED
  BY <1>4, <1>5

LEMMA SettingsSet ==
    ASSUME SettingsInv, NEW s \in Sections, NEW k \in EntryKeys, NEW v \in Values,
           E!SetStringEntry(s, k, v)
    PROVE  /\ SettingsInv'
           /\ GotNow(s, k)' = v
           /\ \A t \in Sections, l \in EntryKeys :
                 <<t, l>> # <<s, k>> => GotNow(t, l)' = GotNow(t, l)
<1> DEFINE A == m_section_string_hash_table
           T == m_key_string_hash_table
           D == m_data_of_string
           n == SectionNumber(A, s)
           A1 == IF n = -1 THEN WithNew(SectionHash, A, SectionSize, s, Len(T)) ELSE A
           T1 == IF n = -1 THEN Append(T, Empty(KeySize)) ELSE T
           p == IF n = -1 THEN Len(T) ELSE n
           e == KeyNumber(T1, p, k)
<1>1. Apart(A, T, D)
  BY DEF SettingsInv
<1>2. A \in Tables(Sections, SectionSize) /\ Len(T) \in Nat /\ Len(D) \in Nat
  BY <1>1 DEF Apart, SettingsTypes
<1>3. E!SectionPosition(s) = n
  BY SectionLookup DEF E!SectionPosition, E!NOT_FOUND, SectionNumber
<1>4. E!K!Empty(KeySize) = Empty(KeySize)
  BY DEF E!K!Empty, Empty
<1>5. E!KeyPosition(T1[p + 1], k) = e
  BY KeyLookup DEF E!KeyPosition, E!NOT_FOUND, KeyNumber
<1>6. n = -1 => E!S!Added(A, SectionSize, s, Len(T))
                    = WithNew(SectionHash, A, SectionSize, s, Len(T))
  BY <1>2, SectionAdded DEF SectionNumber
<1>7. /\ A' = A1
      /\ T' = IF e = -1 THEN [T1 EXCEPT ![p + 1] = E!K!Added(@, KeySize, k, Len(D))] ELSE T1
      /\ D' = IF e = -1 THEN [Append(D, v) EXCEPT ![Len(D) + 1] = v]
              ELSE [D EXCEPT ![e + 1] = v]
  <2>1. /\ A' = IF n = -1 THEN E!S!Added(A, SectionSize, s, p) ELSE A
        /\ T' = IF E!KeyPosition(T1[p + 1], k) = -1
                THEN [T1 EXCEPT ![p + 1] = E!K!Added(@, KeySize, k, Len(D))] ELSE T1
        /\ D' = IF E!KeyPosition(T1[p + 1], k) = -1
                THEN [Append(D, v) EXCEPT ![Len(D) + 1] = v]
                ELSE [D EXCEPT ![E!KeyPosition(T1[p + 1], k) + 1] = v]
    <3> HIDE DEF n
    <3> QED
      BY <1>3, <1>4 DEF E!SetStringEntry, E!NewEntry, E!NOT_FOUND
  <2> HIDE DEF n, e
  <2> QED
    BY <1>5, <1>6, <2>1
<1>8. /\ Apart(A1, T1, D) /\ p = SectionNumber(A1, s) /\ p # -1 /\ p \in 0 .. Len(T1) - 1
      /\ \A t \in Sections, l \in EntryKeys : Got(A1, T1, D, t, l) = Got(A, T, D, t, l)
  <2>1. CASE n = -1
    BY <1>1, <1>2, <2>1, SectionIsMade
  <2>2. CASE n # -1
    BY <1>1, <2>2, SectionNumbers
  <2> QED
    BY <2>1, <2>2
<1> HIDE DEF A1, T1, p
<1>9. CASE e = -1
  <2>1. T1[p + 1] \in Tables(EntryKeys, KeySize)
    BY <1>8, KeyNumbers
  <2>2. E!K!Added(T1[p + 1], KeySize, k, Len(D))
            = WithNew(EntryHash, T1[p + 1], KeySize, k, Len(D))
    BY <1>9, <2>1, KeyAdded DEF KeyNumber
  <2>3. T' = [T1 EXCEPT ![p + 1] = WithNew(EntryHash, @, KeySize, k, Len(D))]
    BY <1>7, <1>9, <2>2
  <2>4. [Append(D, v) EXCEPT ![Len(D) + 1] = v] = Append(D, v)
    <3>1. D \in Seq(Values)
      BY <1>1 DEF Apart, SettingsTypes
    <3> DEFINE long == Append(D, v)
    <3>2. long \in Seq(Values) /\ Len(long) = Len(D) + 1 /\ long[Len(D) + 1] = v
      BY <3>1, AppendProperties
    <3> HIDE DEF long
    <3>3. [long EXCEPT ![Len(D) + 1] = long[Len(D) + 1]] = long
      BY <3>2
    <3> QED
      BY <3>2, <3>3 DEF long
  <2>5. D' = Append(D, v)
    BY <1>7, <1>9, <2>4
  <2>6. IsSet(A1, T1, D, WithEntry(T1, p, k, Len(D)), Append(D, v), s, k, v)
    BY <1>8, <1>9, EntryIsMade
  <2>7. IsSet(A1, T1, D, T', D', s, k, v)
    BY <2>3, <2>5, <2>6 DEF WithEntry
  <2> QED
    BY <1>7, <1>8, <2>7 DEF SettingsInv, GotNow, IsSet
<1>10. CASE e # -1
  <2>1. T' = T1 /\ D' = [D EXCEPT ![e + 1] = v]
    BY <1>7, <1>10
  <2>2. IsSet(A1, T1, D, T1, [D EXCEPT ![e + 1] = v], s, k, v)
    BY <1>8, <1>10, EntryIsReplaced
  <2> QED
    BY <1>7, <1>8, <2>1, <2>2 DEF SettingsInv, GotNow, IsSet
<1> QED
  BY <1>9, <1>10

LEMMA EntryIsPut ==
    ASSUME SettingsInv, NEW s \in Sections, NEW k \in EntryKeys, NEW v \in Values,
           E!SetStringEntry(s, k, v)
    PROVE  E!Abstract!Put(<<s, k>>, v)
<1> DEFINE was == [x \in E!Entries |-> E!GetStringEntry(x[1], x[2], Unset)]
           c == <<s, k>>
<1>1. /\ GotNow(s, k)' = v
      /\ \A t \in Sections, l \in EntryKeys :
            <<t, l>> # c => GotNow(t, l)' = GotNow(t, l)
  BY SettingsSet
<1>2. v # Unset
  BY SettingsConstants
<1>3. /\ E!Entries = {x \in Sections \X EntryKeys : GotNow(x[1], x[2]) # Unset}
      /\ E!Entries' = {x \in Sections \X EntryKeys : GotNow(x[1], x[2])' # Unset}
  BY GotIsEntry DEF E!Entries
<1>4. \A x \in Sections \X EntryKeys :
         /\ x[1] \in Sections /\ x[2] \in EntryKeys /\ x = <<x[1], x[2]>>
         /\ x = c => x[1] = s /\ x[2] = k
  OBVIOUS
<1>5. c \in Sections \X EntryKeys
  OBVIOUS
<1> HIDE DEF c
<1>6. \A x \in Sections \X EntryKeys :
         GotNow(x[1], x[2])' = IF x = c THEN v ELSE GotNow(x[1], x[2])
  BY <1>1, <1>4
<1>7. E!Entries' = E!Entries \cup {c}
  BY <1>2, <1>3, <1>5, <1>6
<1>8. DOMAIN was = E!Entries /\ \A x \in E!Entries : was[x] = GotNow(x[1], x[2])
  BY GotIsEntry
<1>9. was' = [x \in E!Entries \cup {c} |-> E!GetStringEntry(x[1], x[2], Unset)']
  BY <1>7
<1>10. \A x \in E!Entries \cup {c} :
          E!GetStringEntry(x[1], x[2], Unset)' = IF x = c THEN v ELSE was[x]
  BY <1>3, <1>5, <1>6, <1>8, GotIsEntry
<1>11. was' = [x \in DOMAIN was \cup {c} |-> IF x = c THEN v ELSE was[x]]
  BY <1>8, <1>9, <1>10
<1> QED
  BY <1>11 DEF E!Abstract!Put, c

LEMMA EntriesAreCleared ==
    ASSUME E!Clear
    PROVE  E!Abstract!Clear
<1>1. \A s \in Sections, k \in EntryKeys : E!GetStringEntry(s, k, Unset)' = Unset
  BY SettingsCleared, GotIsEntry
<1>2. E!Entries' = {}
  BY <1>1 DEF E!Entries
<1> QED
  BY <1>2 DEF E!Abstract!Clear

(* Settings: SetStringEntry of TCSettings.cpp makes GetStringEntry give    *)
(* the value for this section and this key until it is set again, and the  *)
(* entry of no other section and key changes with it; Clear leaves none.   *)
(* For all hash functions, numbers of lists and names.                     *)
THEOREM SettingsAreAMap == E!Spec => EntriesMatch
<1>1. E!Init => SettingsInv
  BY SettingsInitially
<1>2. SettingsInv /\ [E!Next]_(E!vars) => SettingsInv'
  <2>1. ASSUME SettingsInv, E!Next PROVE SettingsInv'
    BY <2>1, SettingsSet, SettingsCleared DEF E!Next
  <2>2. ASSUME SettingsInv, UNCHANGED E!vars PROVE SettingsInv'
    BY <2>2 DEF E!vars, SettingsInv
  <2> QED
    BY <2>1, <2>2
<1>3. SettingsInv => E!EntryStep
  BY EntryIsPut, EntriesAreCleared DEF E!EntryStep
<1> QED
  BY <1>1, <1>2, <1>3, PTL DEF E!Spec, EntriesMatch, E!EntriesMatch

-----------------------------------------------------------------------------
(* Unit tests.  Once the environment is unclean, the suite that runs has   *)
(* nothing more to run, nor has the one around it when it ends.            *)
Frame == [suite : U!Suites, next : Nat \ {0}]

Exhausted == ~(U!top.next <= Len(SuiteTests[U!top.suite]))

RunTypes ==
    /\ frames \in Seq(Frame) /\ (testPC \notin {"start", "done"} => frames # <<>>)
    /\ "unclean" \in DOMAIN tree
    /\ test \in Tests \union {U!None}
    /\ order \in Seq(Tests)
    /\ test = U!None <=> testPC \in {"start", "suite", "done"}
    /\ test # U!None => order # <<>> /\ order[Len(order)] = test

Blamed ==
    /\ testPC = "start" => frames = <<>> /\ order = <<>> /\ clean
    /\ tree.unclean # U!None => ~clean /\ test = U!None
    /\ ~clean /\ test = U!None => tree.unclean = order[Len(order)]
    /\ ~clean /\ testPC = "suite" => Exhausted

RunInv == RunTypes /\ Blamed

LEMMA TreeConstants ==
    /\ Root \in U!Suites /\ U!None \notin Tests
    /\ \A s \in U!Suites : SuiteTests[s] \in Seq(Tests \union U!Suites)
BY MCAssumption DEF U!UnitTestAssumption, U!Suites

LEMMA TopFrame ==
    ASSUME frames \in Seq(Frame), frames # <<>>
    PROVE  /\ Len(frames) \in Nat \ {0}
           /\ U!top \in Frame /\ U!top.next \in Nat \ {0} /\ U!top.suite \in U!Suites
           /\ U!Advanced \in Seq(Frame) /\ U!Advanced # <<>>
<1>1. Len(frames) \in Nat \ {0} /\ Len(frames) \in 1 .. Len(frames)
  OBVIOUS
<1>2. U!top \in Frame
  BY <1>1, ElementOfSeq DEF U!top
<1>3. U!top.next \in Nat \ {0} /\ U!top.suite \in U!Suites
  BY <1>2 DEF Frame
<1>4. [U!top EXCEPT !.next = @ + 1] \in Frame
  BY <1>3, <1>2 DEF Frame
<1>5. U!Advanced = [frames EXCEPT ![Len(frames)] = [U!top EXCEPT !.next = @ + 1]]
  BY DEF U!Advanced, U!top
<1>6. U!Advanced \in Seq(Frame) /\ Len(U!Advanced) = Len(frames)
  BY <1>1, <1>4, <1>5
<1> QED
  BY <1>1, <1>2, <1>3, <1>6

LEMMA ParentEnds ==
    ASSUME NEW below \in Seq(Frame), below # <<>>
    PROVE  /\ U!ParentOf(below) \in Seq(Frame) /\ U!ParentOf(below) # <<>>
           /\ ~clean => LET f == U!ParentOf(below)[Len(U!ParentOf(below))]
                        IN  ~(f.next <= Len(SuiteTests[f.suite]))
<1> DEFINE n == Len(below)
           end == [below[n] EXCEPT !.next = Len(SuiteTests[below[n].suite]) + 1]
<1>1. n \in 1 .. n /\ n \in Nat
  OBVIOUS
<1>2. below[n] \in Frame
  BY <1>1, ElementOfSeq
<1>3. Len(SuiteTests[below[n].suite]) \in Nat
  BY <1>2, TreeConstants DEF Frame
<1>4. /\ end \in Frame /\ end.next = Len(SuiteTests[below[n].suite]) + 1
      /\ end.suite = below[n].suite
  BY <1>2, <1>3 DEF Frame
<1>5. CASE clean
  BY <1>5 DEF U!ParentOf
<1>6. CASE ~clean
  <2>1. U!ParentOf(below) = [below EXCEPT ![n] = end]
    BY <1>6 DEF U!ParentOf
  <2> HIDE DEF end
  <2>2. /\ U!ParentOf(below) \in Seq(Frame) /\ Len(U!ParentOf(below)) = n
        /\ U!ParentOf(below)[n] = end
    BY <1>1, <1>4, <2>1
  <2> QED
    BY <1>1, <1>3, <1>4, <2>2
<1> QED
  BY <1>5, <1>6

LEMMA RunInitially ==
    ASSUME U!Init
    PROVE  RunInv
BY TreeConstants DEF U!Init, RunInv, RunTypes, Blamed

LEMMA OnlyTestsSoil ==
    ASSUME RunInv, U!Next
    PROVE  RunInv'
<1> DEFINE Soiled == clean' \in {clean, FALSE}
<1>1. RunTypes /\ Blamed
  BY DEF RunInv
<1>2. CASE U!Start
  <2>1. [suite |-> Root, next |-> 1] \in Frame
    BY TreeConstants DEF Frame
  <2>2. frames' = Append(<<>>, [suite |-> Root, next |-> 1])
    BY <1>2 DEF U!Start, U!Enter
  <2>3. frames' \in Seq(Frame) /\ frames' # <<>>
    BY <2>1, <2>2
  <2>4. testPC = "start" /\ testPC' = "suite" /\ UNCHANGED <<test, clean, order>>
    BY <1>2 DEF U!Start
  <2>5. tree'.unclean = tree.unclean /\ DOMAIN tree' = DOMAIN tree
    BY <1>2 DEF U!Start, U!Enter, U!Count
  <2> QED
    BY <1>1, <2>3, <2>4, <2>5 DEF RunInv, RunTypes, Blamed
<1>3. CASE U!EnterSuite
  <2>1. testPC = "suite" /\ testPC' = "suite" /\ UNCHANGED <<test, clean, order>>
    BY <1>3 DEF U!EnterSuite
  <2>2. clean
    BY <1>1, <1>3, <2>1 DEF U!EnterSuite, U!More, Blamed, Exhausted
  <2>3. [suite |-> U!next, next |-> 1] \in Frame
    BY <1>3 DEF U!EnterSuite, Frame
  <2>4. U!Advanced \in Seq(Frame)
    BY <1>1, <2>1, TopFrame DEF RunTypes
  <2>5. frames' = Append(U!Advanced, [suite |-> U!next, next |-> 1])
    BY <1>3 DEF U!EnterSuite, U!Enter
  <2>6. frames' \in Seq(Frame) /\ frames' # <<>>
    BY <2>3, <2>4, <2>5
  <2>7. tree'.unclean = tree.unclean /\ DOMAIN tree' = DOMAIN tree
    BY <1>3 DEF U!EnterSuite, U!Enter, U!Count
  <2> QED
    BY <1>1, <2>1, <2>2, <2>6, <2>7 DEF RunInv, RunTypes, Blamed
<1>4. CASE U!EnterTest
  <2>1. /\ testPC = "suite" /\ testPC' = "setup" /\ test' = U!next /\ U!next \in Tests
        /\ order' = Append(order, U!next) /\ frames' = U!Advanced /\ UNCHANGED clean
    BY <1>4 DEF U!EnterTest
  <2>2. clean
    BY <1>1, <1>4, <2>1 DEF U!EnterTest, U!More, Blamed, Exhausted
  <2>3. frames' \in Seq(Frame) /\ frames' # <<>>
    BY <1>1, <2>1, TopFrame DEF RunTypes
  <2>4. /\ order' \in Seq(Tests) /\ order' # <<>>
        /\ order'[Len(order')] = U!next
    <3>1. order \in Seq(Tests)
      BY <1>1 DEF RunTypes
    <3> QED
      BY <2>1, <3>1, AppendProperties
  <2>5. tree'.unclean = tree.unclean /\ DOMAIN tree' = DOMAIN tree /\ tree.unclean = U!None
    BY <1>1, <1>4, <2>2 DEF U!EnterTest, U!Count, Blamed
  <2> QED
    BY <2>1, <2>2, <2>3, <2>4, <2>5, TreeConstants DEF RunInv, RunTypes, Blamed
<1>5. CASE U!LeaveSuite
  <2> DEFINE below == SubSeq(frames, 1, Len(frames) - 1)
  <2>1. /\ testPC = "suite" /\ testPC' = (IF below = <<>> THEN "done" ELSE "suite")
        /\ frames' = U!ParentOf(below) /\ UNCHANGED <<test, clean, tree, order>>
    BY <1>5 DEF U!LeaveSuite
  <2>2. below \in Seq(Frame)
    BY <1>1, <2>1 DEF RunTypes
  <2> HIDE DEF below
  <2>3. CASE below = <<>>
    <3>1. frames' = <<>>
      BY <2>1, <2>3 DEF U!ParentOf
    <3>2. frames' \in Seq(Frame)
      BY <3>1, EmptySeq
    <3>3. testPC' = "done"
      BY <2>1, <2>3
    <3> QED
      BY <1>1, <2>1, <3>2, <3>3 DEF RunInv, RunTypes, Blamed
  <2>4. CASE below # <<>>
    <3>1. frames' \in Seq(Frame) /\ frames' # <<>> /\ (~clean => Exhausted')
      BY <2>1, <2>2, <2>4, ParentEnds DEF Exhausted, U!top
    <3> QED
      BY <1>1, <2>1, <2>4, <3>1 DEF RunInv, RunTypes, Blamed
  <2> QED
    BY <2>3, <2>4
<1>6. CASE \E how \in {"ok", "failure", "error"} : U!Setup(how) \/ U!Teardown(how)
  <2>1. /\ testPC \in {"setup", "teardown"} /\ testPC' \in {"execute", "leave"}
        /\ tree' = tree /\ UNCHANGED <<frames, test, order>>
    BY <1>6 DEF U!Setup, U!Teardown, U!AddError
  <2> QED
    BY <1>1, <2>1 DEF RunInv, RunTypes, Blamed
<1>7. CASE \E body \in U!Bodies : U!Execute(body)
  <2>1. /\ testPC = "execute" /\ testPC' = "teardown"
        /\ tree' = tree /\ UNCHANGED <<frames, test, order>>
    BY <1>7 DEF U!Execute, U!AfterExecute
  <2> QED
    BY <1>1, <2>1 DEF RunInv, RunTypes, Blamed
<1>8. CASE U!LeaveTest
  <2>1. testPC = "leave" /\ testPC' = "check" /\ UNCHANGED <<frames, test, clean, order>>
    BY <1>8 DEF U!LeaveTest
  <2>2. tree'.unclean = tree.unclean /\ DOMAIN tree' = DOMAIN tree
    BY <1>8 DEF U!LeaveTest, U!Count
  <2> QED
    BY <1>1, <2>1, <2>2 DEF RunInv, RunTypes, Blamed
<1>9. CASE U!CleanlinessCheck
  <2>1. /\ testPC = "check" /\ testPC' = "suite" /\ test' = U!None /\ UNCHANGED <<clean, order>>
        /\ frames' = U!ParentOf(frames)
    BY <1>9 DEF U!CleanlinessCheck
  <2>2. /\ tree'.unclean = IF clean THEN tree.unclean ELSE test
        /\ DOMAIN tree' = DOMAIN tree
    <3>1. tree' = IF clean THEN tree ELSE [tree EXCEPT !.unclean = test]
      BY <1>9 DEF U!CleanlinessCheck
    <3> QED
      BY <1>1, <3>1 DEF RunTypes
  <2>3. frames' \in Seq(Frame) /\ frames' # <<>> /\ (~clean => Exhausted')
    BY <1>1, <2>1, ParentEnds DEF Exhausted, U!top, RunTypes
  <2> QED
    BY <1>1, <2>1, <2>2, <2>3 DEF RunInv, RunTypes, Blamed
<1> QED
  BY <1>2, <1>3, <1>4, <1>5, <1>6, <1>7, <1>8, <1>9 DEF U!Next

(* A tree of suites in which no test is twice runs no test twice.          *)
EachOnce == \A i, j \in 1 .. Len(order) : order[i] = order[j] => i = j

Untouched == [setup |-> U!None, execute |-> U!NoBody, teardown |-> U!None]

Parts == [setup : {U!None, "ok", "failure", "error"}, execute : U!Bodies \cup {U!NoBody},
          teardown : {U!None, "ok", "failure", "error"}]

TornDownOf(t) ==
    outcome[t].setup # U!None => (outcome[t].setup = "ok" <=> outcome[t].teardown # U!None)

TestsInv ==
    /\ outcome \in [Tests -> Parts]
    /\ \A t \in Tests : (\A i \in 1 .. Len(order) : order[i] # t) => outcome[t] = Untouched
    /\ \A t \in Tests : t # test => TornDownOf(t)
    /\ testPC = "setup" => outcome[test] = Untouched
    /\ testPC \in {"execute", "teardown"} =>
          outcome[test].setup = "ok" /\ outcome[test].teardown = U!None
    /\ testPC \in {"leave", "check"} => TornDownOf(test)

(* What a part of the running test changes.                                *)
LEMMA PartEnds ==
    ASSUME RunTypes, TestsInv, test # U!None, NEW o, o \in Parts,
           outcome' = [outcome EXCEPT ![test] = o], UNCHANGED <<test, order>>
    PROVE  /\ outcome' \in [Tests -> Parts] /\ outcome'[test] = o
           /\ \A t \in Tests :
                 (\A i \in 1 .. Len(order') : order'[i] # t) => outcome'[t] = Untouched
           /\ \A t \in Tests : t # test' => TornDownOf(t)'
<1>1. /\ test \in Tests /\ order \in Seq(Tests) /\ order # <<>> /\ order[Len(order)] = test
      /\ outcome \in [Tests -> Parts]
  BY DEF RunTypes, TestsInv
<1>2. Len(order) \in 1 .. Len(order)
  BY <1>1
<1>3. /\ outcome' \in [Tests -> Parts] /\ outcome'[test] = o
      /\ \A t \in Tests : t # test => outcome'[t] = outcome[t]
  <2> HIDE DEF Parts
  <2> QED
    BY <1>1
<1>4. ASSUME NEW t \in Tests, \A i \in 1 .. Len(order') : order'[i] # t
      PROVE  outcome'[t] = Untouched
  BY <1>1, <1>2, <1>3, <1>4 DEF TestsInv
<1>5. ASSUME NEW t \in Tests, t # test' PROVE TornDownOf(t)'
  BY <1>3, <1>5 DEF TestsInv, TornDownOf
<1> QED
  BY <1>3, <1>4, <1>5

LEMMA TestsInitially ==
    ASSUME U!Init
    PROVE  TestsInv
<1>1. outcome = [t \in Tests |-> Untouched] /\ testPC = "start"
  BY DEF U!Init, Untouched
<1>2. Untouched \in Parts
  BY DEF Untouched, Parts
<1>3. Untouched.setup = U!None
  BY DEF Untouched
<1> HIDE DEF Untouched, Parts
<1> QED
  BY <1>1, <1>2, <1>3 DEF TestsInv, TornDownOf

LEMMA TestsStep ==
    ASSUME RunTypes, TestsInv, EachOnce', U!Next
    PROVE  TestsInv'
<1>1. CASE U!Start \/ U!EnterSuite \/ U!LeaveSuite
  <2>1. /\ UNCHANGED <<test, outcome, order>>
        /\ testPC' \in {"suite", "done"}
    BY <1>1 DEF U!Start, U!EnterSuite, U!LeaveSuite
  <2> QED
    BY <2>1 DEF TestsInv, TornDownOf
<1>2. CASE U!EnterTest
  <2>1. /\ testPC = "suite" /\ testPC' = "setup" /\ test' = U!next /\ U!next \in Tests
        /\ order' = Append(order, U!next) /\ UNCHANGED outcome
    BY <1>2 DEF U!EnterTest
  <2>2. test = U!None
    BY <2>1 DEF RunTypes
  <2>3. /\ Len(order) \in Nat /\ Len(order') = Len(order) + 1
        /\ order'[Len(order) + 1] = U!next
        /\ \A i \in 1 .. Len(order) : order'[i] = order[i]
    <3>1. order \in Seq(Tests)
      BY DEF RunTypes
    <3> QED
      BY <2>1, <3>1, AppendProperties
  <2>4. \A i \in 1 .. Len(order) : order[i] # U!next
    BY <2>3 DEF EachOnce
  <2>5. outcome'[test'] = Untouched
    BY <2>1, <2>4 DEF TestsInv
  <2>6. \A t \in Tests : (\A i \in 1 .. Len(order') : order'[i] # t) => outcome'[t] = Untouched
    <3>1. \A i \in 1 .. Len(order) : i \in 1 .. Len(order')
      BY <2>3
    <3> QED
      BY <2>1, <2>3, <3>1 DEF TestsInv
  <2>7. \A t \in Tests : TornDownOf(t)'
    BY <2>1, <2>2, TreeConstants DEF TestsInv, TornDownOf
  <2> QED
    BY <2>1, <2>5, <2>6, <2>7 DEF TestsInv
<1>3. ASSUME NEW how \in {"ok", "failure", "error"}, U!Setup(how) PROVE TestsInv'
  <2> DEFINE o == [outcome[test] EXCEPT !.setup = how]
  <2>1. /\ testPC = "setup" /\ testPC' = (IF how = "ok" THEN "execute" ELSE "leave")
        /\ outcome' = [outcome EXCEPT ![test] = o] /\ UNCHANGED <<test, order>>
    BY <1>3 DEF U!Setup, U!Ends
  <2>2. test \in Tests /\ test # U!None /\ outcome[test] = Untouched
    BY <2>1 DEF RunTypes, TestsInv
  <2>3. o = [setup |-> how, execute |-> U!NoBody, teardown |-> U!None]
    BY <2>2 DEF Untouched
  <2>4. o \in Parts
    BY <2>3 DEF Parts
  <2> HIDE DEF o
  <2>5. /\ outcome' \in [Tests -> Parts] /\ outcome'[test] = o
        /\ \A t \in Tests : (\A i \in 1 .. Len(order') : order'[i] # t) => outcome'[t] = Untouched
        /\ \A t \in Tests : t # test' => TornDownOf(t)'
    BY <2>1, <2>2, <2>4, PartEnds
  <2>6. outcome'[test'].setup = how /\ outcome'[test'].teardown = U!None
    BY <2>1, <2>3, <2>5
  <2> QED
    BY <2>1, <2>5, <2>6 DEF TestsInv, TornDownOf, U!None
<1>4. ASSUME NEW body \in U!Bodies, U!Execute(body) PROVE TestsInv'
  <2> DEFINE o == [outcome[test] EXCEPT !.execute = body]
  <2>1. /\ testPC = "execute" /\ testPC' = "teardown"
        /\ outcome' = [outcome EXCEPT ![test] = o] /\ UNCHANGED <<test, order>>
    BY <1>4 DEF U!Execute, U!Ends, U!AfterExecute
  <2>2. /\ test \in Tests /\ test # U!None /\ outcome[test] \in Parts
        /\ outcome[test].setup = "ok" /\ outcome[test].teardown = U!None
    BY <2>1 DEF RunTypes, TestsInv
  <2>3. o \in Parts /\ o.setup = "ok" /\ o.teardown = U!None
    BY <2>2 DEF Parts
  <2> HIDE DEF o
  <2>4. /\ outcome' \in [Tests -> Parts] /\ outcome'[test] = o
        /\ \A t \in Tests : (\A i \in 1 .. Len(order') : order'[i] # t) => outcome'[t] = Untouched
        /\ \A t \in Tests : t # test' => TornDownOf(t)'
    BY <2>1, <2>2, <2>3, PartEnds
  <2> QED
    BY <2>1, <2>3, <2>4 DEF TestsInv
<1>5. ASSUME NEW how \in {"ok", "failure", "error"}, U!Teardown(how) PROVE TestsInv'
  <2> DEFINE o == [outcome[test] EXCEPT !.teardown = how]
  <2>1. /\ testPC = "teardown" /\ testPC' = "leave"
        /\ outcome' = [outcome EXCEPT ![test] = o] /\ UNCHANGED <<test, order>>
    BY <1>5 DEF U!Teardown, U!Ends
  <2>2. /\ test \in Tests /\ test # U!None /\ outcome[test] \in Parts
        /\ outcome[test].setup = "ok"
    BY <2>1 DEF RunTypes, TestsInv
  <2>3. o \in Parts /\ o.setup = "ok" /\ o.teardown = how
    BY <2>2 DEF Parts
  <2> HIDE DEF o
  <2>4. /\ outcome' \in [Tests -> Parts] /\ outcome'[test] = o
        /\ \A t \in Tests : (\A i \in 1 .. Len(order') : order'[i] # t) => outcome'[t] = Untouched
        /\ \A t \in Tests : t # test' => TornDownOf(t)'
    BY <2>1, <2>2, <2>3, PartEnds
  <2>5. TornDownOf(test)'
    BY <2>1, <2>3, <2>4 DEF TornDownOf, U!None
  <2> QED
    BY <2>1, <2>4, <2>5 DEF TestsInv
<1>6. CASE U!LeaveTest
  <2>1. testPC = "leave" /\ testPC' = "check" /\ UNCHANGED <<test, outcome, order>>
    BY <1>6 DEF U!LeaveTest
  <2> QED
    BY <2>1 DEF TestsInv, TornDownOf
<1>7. CASE U!CleanlinessCheck
  <2>1. testPC = "check" /\ testPC' = "suite" /\ UNCHANGED <<outcome, order>>
    BY <1>7 DEF U!CleanlinessCheck
  <2>2. \A t \in Tests : TornDownOf(t)
    BY <2>1 DEF TestsInv
  <2> QED
    BY <2>1, <2>2 DEF TestsInv, TornDownOf
<1> QED
  BY <1>1, <1>2, <1>3, <1>4, <1>5, <1>6, <1>7 DEF U!Next

(* The CleanlinessCheck of tc::unit blames the test that ran last, and     *)
(* TestSuite::InternalRun enters no test after it, in no suite, for any    *)
(* tree of suites.                                                         *)
THEOREM UncleanEndsAll == U!Spec => []U!NothingAfterUnclean
<1>1. U!Init => RunInv
  BY RunInitially
<1>2. RunInv /\ [U!Next]_(U!vars) => RunInv'
  <2>1. ASSUME RunInv, UNCHANGED U!vars PROVE RunInv'
    BY <2>1 DEF U!vars, RunInv, RunTypes, Blamed, Exhausted, U!top
  <2> QED
    BY <2>1, OnlyTestsSoil
<1>3. RunInv => U!NothingAfterUnclean
  BY DEF RunInv, Blamed, U!NothingAfterUnclean
<1> QED
  BY <1>1, <1>2, <1>3, PTL DEF U!Spec

-----------------------------------------------------------------------------
(* A tree of suites: a walk through it numbers each suite and each test    *)
(* when it is entered (Low) and when it is left (High).                    *)
InOneTree(low, high) ==
    /\ {low, high} \subseteq [Tests \cup U!Suites -> Nat]
    /\ \A s \in U!Suites : \A i \in 1 .. Len(SuiteTests[s]) :
          LET t == SuiteTests[s][i] IN
          /\ low[s] < low[t] /\ low[t] <= high[t] /\ high[t] <= high[s]
          /\ \A j \in i + 1 .. Len(SuiteTests[s]) : high[t] < low[SuiteTests[s][j]]

IsTree == \E low, high : InOneTree(low, high)

Low == CHOOSE low : \E high : InOneTree(low, high)
High == CHOOSE high : InOneTree(Low, high)

LEMMA TreeIsNumbered ==
    ASSUME IsTree
    PROVE  InOneTree(Low, High)
<1>1. \E high : InOneTree(Low, high)
  BY DEF IsTree, Low
<1> QED
  BY <1>1 DEF High

Ahead(f) == f.next .. Len(SuiteTests[f.suite])

(* What the suites that run have ahead comes behind all that was entered.  *)
Behind(fs, done) ==
    \A l \in 1 .. Len(fs) : \A i \in Ahead(fs[l]) :
       LET t == SuiteTests[fs[l].suite][i] IN
       /\ \A j \in 1 .. Len(done) : Low[done[j]] < Low[t]
       /\ \A m \in l + 1 .. Len(fs) : High[fs[m].suite] < Low[t]

WalkInv ==
    /\ \A i, j \in 1 .. Len(order) : i < j => Low[order[i]] < Low[order[j]]
    /\ Behind(frames, order)

LEMMA LessAhead ==
    ASSUME NEW fs \in Seq(Frame), NEW gs \in Seq(Frame), NEW done, Behind(fs, done),
           Len(gs) <= Len(fs),
           \A l \in 1 .. Len(gs) : gs[l].suite = fs[l].suite /\ Ahead(gs[l]) \subseteq Ahead(fs[l])
    PROVE  Behind(gs, done)
<1>1. \A l \in 1 .. Len(gs) : l \in 1 .. Len(fs)
  OBVIOUS
<1>2. \A l \in 1 .. Len(gs) : \A m \in l + 1 .. Len(gs) :
         m \in 1 .. Len(gs) /\ m \in l + 1 .. Len(fs)
  OBVIOUS
<1> QED
  BY <1>1, <1>2 DEF Behind

LEMMA ParentParts ==
    ASSUME NEW below \in Seq(Frame), below # <<>>
    PROVE  /\ Len(U!ParentOf(below)) = Len(below)
           /\ \A l \in 1 .. Len(below) :
                 /\ U!ParentOf(below)[l].suite = below[l].suite
                 /\ Ahead(U!ParentOf(below)[l]) \subseteq Ahead(below[l])
<1> DEFINE n == Len(below)
           end == [below[n] EXCEPT !.next = Len(SuiteTests[below[n].suite]) + 1]
<1>1. CASE clean
  BY <1>1 DEF U!ParentOf
<1>2. CASE ~clean
  <2>1. U!ParentOf(below) = [below EXCEPT ![n] = end]
    BY <1>2 DEF U!ParentOf
  <2>2. n \in 1 .. n /\ n \in Nat /\ below[n] \in Frame
    BY ElementOfSeq
  <2>3. Len(SuiteTests[below[n].suite]) \in Nat
    BY <2>2, TreeConstants DEF Frame
  <2>4. end.suite = below[n].suite /\ end.next = Len(SuiteTests[below[n].suite]) + 1
    BY <2>2 DEF Frame
  <2>5. Ahead(end) = {}
    BY <2>3, <2>4 DEF Ahead
  <2> HIDE DEF end
  <2>6. /\ Len(U!ParentOf(below)) = n /\ U!ParentOf(below)[n] = end
        /\ \A l \in 1 .. n : l # n => U!ParentOf(below)[l] = below[l]
    BY <2>1, <2>2
  <2> QED
    BY <2>4, <2>5, <2>6
<1> QED
  BY <1>1, <1>2

LEMMA NumberAhead ==
    ASSUME IsTree, NEW fs \in Seq(Frame), NEW l \in 1 .. Len(fs), NEW i \in Ahead(fs[l])
    PROVE  Low[SuiteTests[fs[l].suite][i]] \in Nat
<1>1. fs[l] \in Frame
  BY ElementOfSeq
<1>2. fs[l].suite \in U!Suites /\ SuiteTests[fs[l].suite] \in Seq(Tests \cup U!Suites)
  BY <1>1, TreeConstants DEF Frame
<1>3. i \in 1 .. Len(SuiteTests[fs[l].suite])
  BY <1>1, <1>2 DEF Frame, Ahead
<1>4. SuiteTests[fs[l].suite][i] \in Tests \cup U!Suites
  BY <1>2, <1>3, ElementOfSeq
<1> QED
  BY <1>4, TreeIsNumbered DEF InOneTree

(* The next test or suite of the top suite.                                *)
LEMMA NextIsAhead ==
    ASSUME IsTree, frames \in Seq(Frame), frames # <<>>, U!More, Behind(frames, order)
    PROVE  /\ U!next \in Tests \cup U!Suites
           /\ Low[U!next] \in Nat /\ High[U!next] \in Nat /\ Low[U!next] <= High[U!next]
           /\ \A j \in 1 .. Len(order) : Low[order[j]] < Low[U!next]
           /\ Behind(U!Advanced, order) /\ Len(U!Advanced) = Len(frames)
           /\ U!Advanced \in Seq(Frame)
           /\ \A l \in 1 .. Len(frames) : U!Advanced[l].suite = frames[l].suite
           /\ \A l \in 1 .. Len(frames) : \A i \in Ahead(U!Advanced[l]) :
                 High[U!next] < Low[SuiteTests[frames[l].suite][i]]
<1> DEFINE n == Len(frames)
           f == U!top
           g == [f EXCEPT !.next = @ + 1]
           p == f.next
           s == f.suite
<1>1. /\ n \in Nat \ {0} /\ n \in 1 .. n /\ f = frames[n] /\ f \in Frame
      /\ p \in Nat \ {0} /\ s \in U!Suites /\ U!Advanced \in Seq(Frame)
  BY TopFrame DEF U!top
<1>2. SuiteTests[s] \in Seq(Tests \cup U!Suites) /\ Len(SuiteTests[s]) \in Nat
  BY <1>1, TreeConstants
<1>3. p \in 1 .. Len(SuiteTests[s]) /\ p \in Ahead(f)
  BY <1>1, <1>2 DEF U!More, Ahead
<1>4. U!next = SuiteTests[s][p] /\ U!next \in Tests \cup U!Suites
  BY <1>2, <1>3, ElementOfSeq DEF U!next
<1>5. InOneTree(Low, High)
  BY TreeIsNumbered
<1>6. /\ Low[U!next] \in Nat /\ High[U!next] \in Nat /\ High[s] \in Nat
      /\ Low \in [Tests \cup U!Suites -> Nat]
  BY <1>1, <1>4, <1>5 DEF InOneTree
<1>7. /\ Low[U!next] <= High[U!next] /\ High[U!next] <= High[s]
      /\ \A j \in p + 1 .. Len(SuiteTests[s]) : High[U!next] < Low[SuiteTests[s][j]]
  BY <1>1, <1>3, <1>4, <1>5 DEF InOneTree
<1>8. \A j \in 1 .. Len(order) : Low[order[j]] < Low[U!next]
  BY <1>1, <1>3, <1>4 DEF Behind
<1>9. g \in Frame /\ g.suite = s /\ g.next = p + 1
  BY <1>1 DEF Frame
<1>10. /\ Len(U!Advanced) = n /\ U!Advanced[n] = g
       /\ \A l \in 1 .. n : l # n => U!Advanced[l] = frames[l]
  <2>1. U!Advanced = [frames EXCEPT ![n] = g]
    BY DEF U!Advanced, U!top
  <2> HIDE DEF g
  <2> QED
    BY <1>1, <2>1
<1> HIDE DEF g
<1>11. Ahead(g) = p + 1 .. Len(SuiteTests[s]) /\ Ahead(g) \subseteq Ahead(f)
  BY <1>1, <1>2, <1>9 DEF Ahead
<1>12. \A l \in 1 .. n : /\ U!Advanced[l].suite = frames[l].suite
                         /\ Ahead(U!Advanced[l]) \subseteq Ahead(frames[l])
  BY <1>1, <1>9, <1>10, <1>11
<1>13. Behind(U!Advanced, order)
  BY <1>1, <1>10, <1>12, LessAhead
<1>14. ASSUME NEW l \in 1 .. n, NEW i \in Ahead(U!Advanced[l])
       PROVE  High[U!next] < Low[SuiteTests[frames[l].suite][i]]
  <2>1. CASE l = n
    BY <1>1, <1>7, <1>10, <1>11, <1>14, <2>1
  <2>2. CASE l # n
    <3>1. i \in Ahead(frames[l]) /\ n \in l + 1 .. n /\ l \in 1 .. n
      <4>1. i \in Ahead(frames[l])
        BY <1>12, <1>14
      <4>2. n \in l + 1 .. n
        BY <1>1, <1>14, <2>2
      <4> QED
        BY <1>14, <4>1, <4>2
    <3>2. High[s] < Low[SuiteTests[frames[l].suite][i]]
      BY <1>1, <3>1 DEF Behind
    <3>3. Low[SuiteTests[frames[l].suite][i]] \in Nat
      BY <3>1, NumberAhead
    <3> QED
      BY <1>6, <1>7, <3>2, <3>3
  <2> QED
    BY <2>1, <2>2
<1> QED
  BY <1>1, <1>4, <1>6, <1>7, <1>8, <1>10, <1>12, <1>13, <1>14

LEMMA TestGoesOn ==
    ASSUME IsTree, RunInv, WalkInv, U!EnterTest
    PROVE  WalkInv'
<1> DEFINE t == U!next
           n == Len(order)
<1>1. /\ frames \in Seq(Frame) /\ frames # <<>> /\ order \in Seq(Tests) /\ U!More
      /\ frames' = U!Advanced /\ order' = Append(order, t) /\ t \in Tests
  BY DEF RunInv, RunTypes, U!EnterTest
<1>2. /\ n \in Nat /\ Len(order') = n + 1 /\ order'[n + 1] = t
      /\ \A i \in 1 .. n : order'[i] = order[i]
  BY <1>1, AppendProperties
<1>3. /\ Low[t] \in Nat /\ High[t] \in Nat /\ Low[t] <= High[t]
      /\ \A j \in 1 .. n : Low[order[j]] < Low[t]
      /\ Behind(frames', order) /\ Len(frames') = Len(frames)
      /\ \A l \in 1 .. Len(frames) : frames'[l].suite = frames[l].suite
      /\ \A l \in 1 .. Len(frames) : \A i \in Ahead(frames'[l]) :
            High[t] < Low[SuiteTests[frames[l].suite][i]]
  BY <1>1, NextIsAhead DEF WalkInv
<1> HIDE DEF t, n
<1>4. ASSUME NEW i \in 1 .. n + 1, NEW j \in 1 .. n + 1, i < j
      PROVE  Low[order'[i]] < Low[order'[j]]
  <2>1. i \in 1 .. n
    BY <1>2, <1>4
  <2>2. CASE j \in 1 .. n
    BY <1>2, <1>4, <2>1, <2>2 DEF WalkInv, n
  <2>3. CASE j = n + 1
    BY <1>2, <1>3, <2>1, <2>3
  <2> QED
    BY <1>2, <2>2, <2>3
<1>5. ASSUME NEW l \in 1 .. Len(frames'), NEW i \in Ahead(frames'[l])
      PROVE  LET next == SuiteTests[frames'[l].suite][i] IN
             /\ \A j \in 1 .. n + 1 : Low[order'[j]] < Low[next]
             /\ \A m \in l + 1 .. Len(frames') : High[frames'[m].suite] < Low[next]
  <2> DEFINE next == SuiteTests[frames'[l].suite][i]
  <2>1. /\ \A j \in 1 .. n : Low[order[j]] < Low[next]
        /\ \A m \in l + 1 .. Len(frames') : High[frames'[m].suite] < Low[next]
    BY <1>3, <1>5 DEF Behind, n
  <2>2. High[t] < Low[next]
    BY <1>3, <1>5
  <2>3. Low[next] \in Nat
    BY <1>1, <1>5, NumberAhead, NextIsAhead DEF WalkInv
  <2>4. Low[t] < Low[next]
    BY <1>3, <2>2, <2>3
  <2>5. ASSUME NEW j \in 1 .. n + 1 PROVE Low[order'[j]] < Low[next]
    BY <1>2, <2>1, <2>4
  <2> QED
    BY <2>1, <2>5
<1> QED
  BY <1>2, <1>4, <1>5 DEF WalkInv, Behind

LEMMA SuiteGoesOn ==
    ASSUME IsTree, RunInv, WalkInv, U!EnterSuite
    PROVE  WalkInv'
<1> DEFINE t == U!next
           f == [suite |-> t, next |-> 1]
           n == Len(frames)
<1>1. /\ frames \in Seq(Frame) /\ frames # <<>> /\ U!More /\ t \in U!Suites
      /\ frames' = Append(U!Advanced, f) /\ order' = order
  BY DEF RunInv, RunTypes, U!EnterSuite, U!Enter
<1>2. /\ Low[t] \in Nat /\ High[t] \in Nat /\ Low[t] <= High[t]
      /\ \A j \in 1 .. Len(order) : Low[order[j]] < Low[t]
      /\ Behind(U!Advanced, order) /\ Len(U!Advanced) = n /\ U!Advanced \in Seq(Frame)
      /\ \A l \in 1 .. n : U!Advanced[l].suite = frames[l].suite
      /\ \A l \in 1 .. n : \A i \in Ahead(U!Advanced[l]) :
            High[t] < Low[SuiteTests[frames[l].suite][i]]
  BY <1>1, NextIsAhead DEF WalkInv
<1>3. f \in Frame /\ f.suite = t /\ f.next = 1 /\ n \in Nat
  BY <1>1 DEF Frame
<1> HIDE DEF t, f, n
<1>4. /\ Len(frames') = n + 1 /\ frames'[n + 1] = f
      /\ \A l \in 1 .. n : frames'[l] = U!Advanced[l]
  BY <1>1, <1>2, <1>3, AppendProperties
<1>5. ASSUME NEW l \in 1 .. n + 1, NEW i \in Ahead(frames'[l])
      PROVE  LET next == SuiteTests[frames'[l].suite][i] IN
             /\ \A j \in 1 .. Len(order) : Low[order[j]] < Low[next]
             /\ \A m \in l + 1 .. n + 1 : High[frames'[m].suite] < Low[next]
  <2> DEFINE next == SuiteTests[frames'[l].suite][i]
  <2>1. CASE l \in 1 .. n
    <3>1. frames'[l] = U!Advanced[l] /\ i \in Ahead(U!Advanced[l])
      BY <1>4, <1>5, <2>1
    <3>2. /\ \A j \in 1 .. Len(order) : Low[order[j]] < Low[next]
          /\ \A m \in l + 1 .. n : High[U!Advanced[m].suite] < Low[next]
      BY <1>2, <2>1, <3>1 DEF Behind
    <3>3. High[t] < Low[next]
      BY <1>2, <2>1, <3>1
    <3>4. ASSUME NEW m \in l + 1 .. n + 1 PROVE High[frames'[m].suite] < Low[next]
      <4>1. m # n + 1 => m \in 1 .. n /\ m \in l + 1 .. n
        BY <1>3, <2>1
      <4> QED
        BY <1>3, <1>4, <3>2, <3>3, <4>1
    <3> QED
      BY <3>2, <3>4
  <2>2. CASE l = n + 1
    <3>1. next = SuiteTests[t][i] /\ i \in 1 .. Len(SuiteTests[t])
      BY <1>3, <1>4, <1>5, <2>2 DEF Ahead
    <3>2. Low[t] < Low[next] /\ Low[next] \in Nat
      <4>1. SuiteTests[t][i] \in Tests \cup U!Suites
        BY <1>1, <3>1, TreeConstants, ElementOfSeq DEF t
      <4> QED
        BY <1>1, <3>1, <4>1, TreeIsNumbered DEF InOneTree, t
    <3>3. ASSUME NEW j \in 1 .. Len(order) PROVE Low[order[j]] < Low[next]
      <4>1. order[j] \in Tests
        BY <3>3, ElementOfSeq DEF RunInv, RunTypes
      <4>2. Low[order[j]] \in Nat
        BY <4>1, TreeIsNumbered DEF InOneTree
      <4> QED
        BY <1>2, <3>2, <4>2
    <3>4. l + 1 .. n + 1 = {}
      BY <1>3, <2>2
    <3> QED
      BY <3>3, <3>4
  <2> QED
    BY <1>3, <2>1, <2>2
<1> QED
  BY <1>1, <1>4, <1>5 DEF WalkInv, Behind

LEMMA NoSuiteGoesBack ==
    ASSUME RunInv, WalkInv, U!LeaveSuite \/ U!CleanlinessCheck
    PROVE  WalkInv'
<1> DEFINE below == IF U!CleanlinessCheck THEN frames ELSE SubSeq(frames, 1, Len(frames) - 1)
<1>1. frames' = U!ParentOf(below) /\ order' = order
  BY DEF U!LeaveSuite, U!CleanlinessCheck
<1>2. frames \in Seq(Frame) /\ frames # <<>>
  BY DEF RunInv, RunTypes, U!LeaveSuite, U!CleanlinessCheck
<1>3. /\ below \in Seq(Frame) /\ Len(below) <= Len(frames)
      /\ \A l \in 1 .. Len(below) : below[l] = frames[l]
  <2>1. CASE U!CleanlinessCheck
    BY <1>2, <2>1
  <2>2. CASE ~U!CleanlinessCheck
    <3>1. below = SubSeq(frames, 1, Len(frames) - 1) /\ Len(frames) \in Nat \ {0}
      BY <1>2, <2>2
    <3> HIDE DEF below
    <3> QED
      BY <1>2, <3>1
  <2> QED
    BY <2>1, <2>2
<1> HIDE DEF below
<1>4. /\ frames' \in Seq(Frame) /\ Len(frames') = Len(below)
      /\ \A l \in 1 .. Len(below) : /\ frames'[l].suite = below[l].suite
                                    /\ Ahead(frames'[l]) \subseteq Ahead(below[l])
  <2>1. CASE below = <<>>
    BY <1>1, <1>3, <2>1 DEF U!ParentOf
  <2>2. CASE below # <<>>
    BY <1>1, <1>3, <2>2, ParentEnds, ParentParts
  <2> QED
    BY <2>1, <2>2
<1>5. Behind(frames', order)
  BY <1>2, <1>3, <1>4, LessAhead DEF WalkInv
<1> QED
  BY <1>1, <1>5 DEF WalkInv

LEMMA WalkStep ==
    ASSUME IsTree, RunInv, WalkInv, U!Next
    PROVE  WalkInv'
<1>1. CASE U!Start
  <2>1. order = <<>> /\ order' = order
    BY <1>1 DEF U!Start, RunInv, Blamed
  <2>2. frames' = <<[suite |-> Root, next |-> 1]>>
    BY <1>1 DEF U!Start, U!Enter
  <2> QED
    BY <2>1, <2>2 DEF WalkInv, Behind
<1>2. CASE \/ \E how \in {"ok", "failure", "error"} : U!Setup(how) \/ U!Teardown(how)
           \/ \E body \in U!Bodies : U!Execute(body)
           \/ U!LeaveTest
  <2>1. UNCHANGED <<frames, order>>
    BY <1>2 DEF U!Setup, U!Teardown, U!Execute, U!LeaveTest
  <2> QED
    BY <2>1 DEF WalkInv, Behind
<1> QED
  BY <1>1, <1>2, TestGoesOn, SuiteGoesOn, NoSuiteGoesBack DEF U!Next

LEMMA WalkInitially ==
    ASSUME U!Init
    PROVE  WalkInv
BY DEF U!Init, WalkInv, Behind

LEMMA NoneTwice ==
    ASSUME IsTree, NEW s \in Seq(Tests),
           \A i, j \in 1 .. Len(s) : i < j => Low[s[i]] < Low[s[j]]
    PROVE  \A i, j \in 1 .. Len(s) : s[i] = s[j] => i = j
<1>1. \A i \in 1 .. Len(s) : Low[s[i]] \in Nat
  <2>1. \A i \in 1 .. Len(s) : s[i] \in Tests
    BY ElementOfSeq
  <2> QED
    BY <2>1, TreeIsNumbered DEF InOneTree
<1>2. \A i, j \in 1 .. Len(s) : i < j => s[i] # s[j]
  BY <1>1
<1> QED
  BY <1>2

-----------------------------------------------------------------------------
(* The counters: cur says of the running test what Went will say of it.    *)
Verdicts == {"success", "failure", "error"}

Results == [num : [U!Counters -> Nat], unclean : Tests \cup {U!None},
            reports : Seq([test : Tests, type : Verdicts])]

CurFits ==
    /\ testPC \notin {"teardown", "leave"} => cur = {}
    /\ testPC = "teardown" => cur = {U!Result(outcome[test].execute)} \ {"ok"}
    /\ testPC = "leave" => U!Verdict = U!Went(test)

Bad == U!Finished \ U!EndedAs("success")

CountsOfTree ==
    /\ \A v \in Verdicts : tree.num[v] = Cardinality(U!EndedAs(v))
    /\ Len(tree.reports) = Cardinality(Bad)
    /\ \A i \in Bad : tree.reports[Cardinality({j \in Bad : j <= i})]
                         = [test |-> order[i], type |-> U!Went(order[i])]

CountInv == tree \in Results /\ CurFits /\ CountsOfTree

LEMMA CountsAreThese == CountsOfTree <=> U!CountsExact
<1>1. \A S : U!Cardinality(S) = Cardinality(S)
  BY DEF U!Cardinality, Cardinality
<1> QED
  BY <1>1 DEF CountsOfTree, U!CountsExact, Bad, Verdicts

LEMMA ResultsOfBodies ==
    ASSUME NEW body
    PROVE  U!Result(body) \in {"ok", "failure", "error"}
BY DEF U!Result, U!AssertThrows

LEMMA FinishedParts ==
    ASSUME RunTypes
    PROVE  /\ Len(order) \in Nat /\ order \in Seq(Tests)
           /\ U!Finished = 1 .. (IF test = U!None \/ testPC = "check" THEN Len(order)
                                 ELSE Len(order) - 1)
           /\ U!Finished \subseteq 1 .. Len(order)
           /\ IsFiniteSet(U!Finished)
<1>1. Len(order) \in Nat /\ order \in Seq(Tests)
  BY DEF RunTypes
<1>2. U!Finished = 1 .. (IF test = U!None \/ testPC = "check" THEN Len(order)
                         ELSE Len(order) - 1)
  BY <1>1 DEF U!Finished
<1>3. IsFiniteSet(1 .. Len(order)) /\ U!Finished \subseteq 1 .. Len(order)
  BY <1>1, <1>2, FS_Interval
<1> QED
  BY <1>1, <1>2, <1>3, FS_Subset

(* A step that finishes no test, and changes none that is finished.        *)
LEMMA CountsStay ==
    ASSUME CountsOfTree, U!Finished' = U!Finished,
           \A i \in U!Finished :
              order'[i] = order[i] /\ outcome'[order[i]] = outcome[order[i]],
           tree'.reports = tree.reports, \A v \in Verdicts : tree'.num[v] = tree.num[v]
    PROVE  CountsOfTree'
<1>1. \A i \in U!Finished : U!Went(order[i])' = U!Went(order[i])
  BY DEF U!Went
<1>2. \A v : U!EndedAs(v)' = U!EndedAs(v)
  BY <1>1 DEF U!EndedAs
<1>3. \A v \in Verdicts : tree'.num[v] = Cardinality(U!EndedAs(v)')
  BY <1>2 DEF CountsOfTree
<1>4. Bad' = Bad
  BY <1>2 DEF Bad
<1>5. \A i \in Bad : i \in U!Finished
  BY DEF Bad
<1> QED
  BY <1>1, <1>3, <1>4, <1>5 DEF CountsOfTree

(* LeaveTest: one more test is finished.                                   *)
LEMMA OneMoreFinished ==
    ASSUME RunInv, CountInv, EachOnce, U!LeaveTest
    PROVE  CountInv'
<1> DEFINE n == Len(order)
           v0 == U!Verdict
           report == [test |-> test, type |-> v0]
           bad == Bad
<1>1. /\ testPC = "leave" /\ testPC' = "check" /\ cur' = {}
      /\ UNCHANGED <<test, order, outcome>>
  BY DEF U!LeaveTest, U!ResetCurrent
<1>2. /\ test \in Tests /\ test # U!None /\ n \in Nat \ {0} /\ order[n] = test
      /\ order \in Seq(Tests) /\ RunTypes
  BY <1>1 DEF RunInv, RunTypes
<1>3. v0 \in Verdicts /\ v0 = U!Went(test)
  BY <1>1 DEF CountInv, CurFits, U!Verdict, Verdicts
<1>4. /\ U!Finished = 1 .. n - 1 /\ U!Finished' = U!Finished \cup {n} /\ n \notin U!Finished
      /\ IsFiniteSet(U!Finished)
  <2>1. U!Finished = 1 .. n - 1 /\ IsFiniteSet(U!Finished)
    BY <1>1, <1>2, FinishedParts
  <2>2. U!Finished' = 1 .. n
    BY <1>1, <1>2 DEF U!Finished
  <2> QED
    BY <1>2, <2>1, <2>2
<1>5. /\ tree \in Results /\ v0 \in U!Counters
      /\ tree'.num = [tree.num EXCEPT ![v0] = @ + 1] /\ tree'.unclean = tree.unclean
      /\ tree'.reports = IF v0 = "success" THEN tree.reports ELSE Append(tree.reports, report)
      /\ tree' = [num |-> tree'.num, unclean |-> tree'.unclean, reports |-> tree'.reports]
  <2>1. tree \in Results /\ v0 \in U!Counters
    BY <1>3 DEF CountInv, U!Counters, Verdicts
  <2>2. tree = [num |-> tree.num, unclean |-> tree.unclean, reports |-> tree.reports]
    BY <2>1 DEF Results
  <2>3. tree' = IF v0 = "success" THEN U!Count(tree, v0)
                ELSE [U!Count(tree, v0) EXCEPT !.reports = Append(@, report)]
    BY DEF U!LeaveTest
  <2> HIDE DEF v0, report
  <2>4. U!Count(tree, v0) = [num |-> [tree.num EXCEPT ![v0] = @ + 1],
                             unclean |-> tree.unclean, reports |-> tree.reports]
    BY <2>2 DEF U!Count
  <2> DEFINE a == [tree.num EXCEPT ![v0] = @ + 1]
  <2> HIDE DEF a
  <2>5. CASE v0 = "success"
    <3>1. tree' = [num |-> a, unclean |-> tree.unclean, reports |-> tree.reports]
      BY <2>3, <2>4, <2>5 DEF a
    <3> QED
      BY <2>1, <2>5, <3>1 DEF a
  <2>6. CASE v0 # "success"
    <3>1. tree' = [num |-> a, unclean |-> tree.unclean,
                   reports |-> Append(tree.reports, report)]
      <4> DEFINE c == U!Count(tree, v0)
                 q == Append(tree.reports, report)
      <4>1. c = [num |-> a, unclean |-> tree.unclean, reports |-> tree.reports]
        BY <2>4 DEF a
      <4>2. tree' = [c EXCEPT !.reports = q]
        <5>1. c.reports = tree.reports
          BY <4>1
        <5> HIDE DEF c
        <5> QED
          BY <2>3, <2>6, <5>1 DEF c
      <4> HIDE DEF c, q
      <4>3. tree' = [num |-> a, unclean |-> tree.unclean, reports |-> q]
        BY <4>1, <4>2
      <4> QED
        BY <4>3 DEF q
    <3> QED
      BY <2>1, <2>6, <3>1 DEF a
  <2> QED
    BY <2>5, <2>6
<1>6. /\ tree.num \in [U!Counters -> Nat] /\ Verdicts \subseteq U!Counters
      /\ tree.reports \in Seq([test : Tests, type : Verdicts])
      /\ tree.unclean \in Tests \cup {U!None}
  BY <1>5 DEF Results, Verdicts, U!Counters
<1>7. report \in [test : Tests, type : Verdicts]
  BY <1>2, <1>3
<1>8. tree' \in Results
  <2> HIDE DEF report, v0
  <2>1. tree'.num \in [U!Counters -> Nat]
    BY <1>5, <1>6
  <2>2. tree'.reports \in Seq([test : Tests, type : Verdicts])
    <3> DEFINE R == [test : Tests, type : Verdicts]
    <3>1. report \in R /\ tree.reports \in Seq(R)
      BY <1>6, <1>7
    <3>2. tree'.reports = tree.reports \/ tree'.reports = Append(tree.reports, report)
      BY <1>5
    <3> HIDE DEF R
    <3>3. Append(tree.reports, report) \in Seq(R)
      BY <3>1, AppendProperties
    <3>4. tree'.reports \in Seq(R)
      BY <3>1, <3>2, <3>3
    <3> QED
      BY <3>4 DEF R
  <2> QED
    BY <1>5, <1>6, <2>1, <2>2 DEF Results
<1>9. \A v : U!EndedAs(v)' = IF v = v0 THEN U!EndedAs(v) \cup {n} ELSE U!EndedAs(v)
  <2>1. \A i \in U!Finished' : U!Went(order[i])' = U!Went(order[i])
    BY <1>1 DEF U!Went
  <2>2. \A i \in U!Finished' : i \in U!Finished \/ i = n
    BY <1>4
  <2>3. U!Went(order[n]) = v0
    BY <1>2, <1>3
  <2> HIDE DEF v0, n
  <2> QED
    BY <1>4, <2>1, <2>2, <2>3 DEF U!EndedAs
<1>10. \A v : IsFiniteSet(U!EndedAs(v)) /\ n \notin U!EndedAs(v)
  <2>1. \A v : U!EndedAs(v) \subseteq U!Finished
    BY DEF U!EndedAs
  <2> QED
    BY <1>4, <2>1, FS_Subset
<1>11. \A v \in Verdicts : tree'.num[v] = Cardinality(U!EndedAs(v)')
  <2> TAKE v \in Verdicts
  <2>1. tree.num[v] = Cardinality(U!EndedAs(v))
    BY DEF CountInv, CountsOfTree
  <2>2. Cardinality(U!EndedAs(v) \cup {n}) = Cardinality(U!EndedAs(v)) + 1
    BY <1>10, FS_AddElement
  <2> HIDE DEF v0, n
  <2> QED
    BY <1>3, <1>5, <1>6, <1>9, <2>1, <2>2
<1>12. /\ Len(tree.reports) = Cardinality(bad)
       /\ \A i \in bad : tree.reports[Cardinality({j \in bad : j <= i})]
                            = [test |-> order[i], type |-> U!Went(order[i])]
  BY DEF CountInv, CountsOfTree
<1>13. bad \subseteq 1 .. n - 1 /\ IsFiniteSet(bad) /\ n \notin bad
  BY <1>4, FS_Subset DEF Bad
<1>14. Bad' = IF v0 = "success" THEN bad ELSE bad \cup {n}
  <2> HIDE DEF v0, n
  <2> QED
    BY <1>4, <1>9, <1>10 DEF Bad
<1>15. CASE v0 = "success"
  <2>1. /\ Len(tree'.reports) = Cardinality(bad)
        /\ \A i \in bad : tree'.reports[Cardinality({j \in bad : j <= i})]
                             = [test |-> order'[i], type |-> U!Went(order[i])']
    BY <1>1, <1>5, <1>12, <1>15 DEF U!Went
  <2>2. CountsOfTree'
    BY <1>11, <1>14, <1>15, <2>1 DEF CountsOfTree
  <2>3. CurFits'
    BY <1>1 DEF CurFits
  <2> QED
    BY <1>8, <2>2, <2>3 DEF CountInv
<1>16. CASE v0 # "success"
  <2> DEFINE more == bad \cup {n}
  <2>1. tree'.reports = Append(tree.reports, report)
    BY <1>5, <1>16
  <2>2. /\ Len(tree.reports) \in Nat /\ Len(tree'.reports) = Len(tree.reports) + 1
        /\ tree'.reports[Len(tree.reports) + 1] = report
        /\ \A i \in 1 .. Len(tree.reports) : tree'.reports[i] = tree.reports[i]
    <3> HIDE DEF report, v0
    <3> QED
      BY <1>6, <1>7, <2>1, AppendProperties
  <2>3. Cardinality(more) = Cardinality(bad) + 1
    <3> HIDE DEF bad
    <3> QED
      BY <1>13, FS_AddElement
  <2>4. ASSUME NEW i \in more
        PROVE  tree'.reports[Cardinality({j \in more : j <= i})]
                  = [test |-> order[i], type |-> U!Went(order[i])]
    <3>1. CASE i = n
      <4>1. {j \in more : j <= n} = more
        <5>1. \A j \in more : j \in 1 .. n - 1 \/ j = n
          BY <1>13
        <5> HIDE DEF more, n
        <5> QED
          BY <1>2, <5>1 DEF n
      <4>2. Cardinality(more) = Len(tree.reports) + 1
        BY <1>12, <2>3
      <4> HIDE DEF more
      <4> QED
        BY <1>2, <1>3, <2>2, <3>1, <4>1, <4>2
    <3>2. CASE i # n
      <4> DEFINE upTo == {j \in bad : j <= i}
      <4>1. i \in bad /\ i \in 1 .. n - 1
        BY <1>13, <3>2
      <4>2. {j \in more : j <= i} = upTo
        BY <1>2, <4>1
      <4>3. Cardinality(upTo) \in 1 .. Len(tree.reports)
        <5>1. upTo \subseteq bad /\ i \in upTo
          BY <4>1
        <5> HIDE DEF upTo, bad
        <5>2. /\ IsFiniteSet(upTo) /\ Cardinality(upTo) <= Cardinality(bad)
              /\ Cardinality(upTo) \in Nat /\ Cardinality(bad) \in Nat
          BY <1>13, <5>1, FS_Subset, FS_CardinalityType
        <5>3. Cardinality(upTo) # 0
          BY <5>1, <5>2, FS_EmptySet
        <5> QED
          BY <1>12, <5>2, <5>3
      <4>4. tree.reports[Cardinality(upTo)] = [test |-> order[i], type |-> U!Went(order[i])]
        BY <1>12, <4>1
      <4> HIDE DEF upTo, more
      <4> QED
        BY <2>2, <4>2, <4>3, <4>4
    <3> QED
      BY <3>1, <3>2
  <2>5. Bad' = more
    BY <1>14, <1>16
  <2>6. \A i : U!Went(order[i])' = U!Went(order[i]) /\ order'[i] = order[i]
    BY <1>1 DEF U!Went
  <2>7. Len(tree'.reports) = Cardinality(more)
    BY <1>12, <2>2, <2>3
  <2> HIDE DEF more
  <2>8. CountsOfTree'
    BY <1>11, <2>4, <2>5, <2>6, <2>7 DEF CountsOfTree
  <2>9. CurFits'
    BY <1>1 DEF CurFits
  <2> QED
    BY <1>8, <2>8, <2>9 DEF CountInv
<1> QED
  BY <1>15, <1>16

LEMMA CountInitially ==
    ASSUME U!Init
    PROVE  CountInv
<1>1. /\ order = <<>> /\ cur = {} /\ testPC = "start" /\ test = U!None
      /\ tree = [num |-> [c \in U!Counters |-> 0], unclean |-> U!None, reports |-> <<>>]
  BY DEF U!Init
<1>2. U!Finished = {}
  BY <1>1 DEF U!Finished
<1>3. Bad = {} /\ \A v : U!EndedAs(v) = {}
  BY <1>2 DEF Bad, U!EndedAs
<1>4. tree.reports = <<>> /\ \A v \in Verdicts : tree.num[v] = 0
  BY <1>1 DEF Verdicts, U!Counters
<1>5. CountsOfTree
  BY <1>3, <1>4, FS_EmptySet DEF CountsOfTree
<1>6. tree \in Results
  BY <1>1, EmptySeq DEF Results
<1>7. CurFits
  BY <1>1 DEF CurFits
<1> QED
  BY <1>5, <1>6, <1>7 DEF CountInv

LEMMA OtherCount ==
    ASSUME tree \in Results, NEW c \in {"run", "suites"}, tree' = U!Count(tree, c)
    PROVE  /\ tree' \in Results /\ tree'.reports = tree.reports
           /\ \A v \in Verdicts : tree'.num[v] = tree.num[v]
<1>1. /\ tree = [num |-> tree.num, unclean |-> tree.unclean, reports |-> tree.reports]
      /\ tree.num \in [U!Counters -> Nat] /\ c \in U!Counters
  BY DEF Results, U!Counters
<1> DEFINE a == [tree.num EXCEPT ![c] = @ + 1]
<1>2. a \in [U!Counters -> Nat] /\ \A v \in Verdicts : a[v] = tree.num[v]
  BY <1>1 DEF Verdicts, U!Counters
<1>3. tree' = [num |-> a, unclean |-> tree.unclean, reports |-> tree.reports]
  BY <1>1 DEF U!Count
<1> HIDE DEF a
<1> QED
  BY <1>2, <1>3 DEF Results

(* A part of the running test ends: no test that is finished is touched.   *)
LEMMA PartCounts ==
    ASSUME RunInv, TestsInv, CountInv, EachOnce, NEW o,
           test # U!None, testPC # "check", testPC' # "check",
           outcome' = [outcome EXCEPT ![test] = o], UNCHANGED <<test, order, tree>>
    PROVE  CountsOfTree' /\ tree' \in Results
<1>1. /\ test \in Tests /\ order \in Seq(Tests) /\ Len(order) \in Nat \ {0}
      /\ order[Len(order)] = test
      /\ outcome \in [Tests -> Parts]
  BY DEF RunInv, RunTypes, TestsInv
<1>2. U!Finished' = U!Finished /\ U!Finished = 1 .. Len(order) - 1
  BY <1>1 DEF U!Finished
<1>3. \A i \in 1 .. Len(order) - 1 : order[i] \in Tests /\ order[i] # test
  <2>1. \A i \in 1 .. Len(order) - 1 :
           i \in 1 .. Len(order) /\ Len(order) \in 1 .. Len(order) /\ i # Len(order)
    BY <1>1
  <2> QED
    BY <1>1, <2>1, ElementOfSeq DEF EachOnce
<1>4. \A i \in U!Finished : outcome'[order[i]] = outcome[order[i]]
  <2> HIDE DEF Parts
  <2> QED
    BY <1>1, <1>2, <1>3
<1>5. CountsOfTree'
  BY <1>2, <1>4, CountsStay DEF CountInv
<1> QED
  BY <1>5 DEF CountInv

LEMMA CountStep ==
    ASSUME RunInv, TestsInv, CountInv, EachOnce, U!Next
    PROVE  CountInv'
<1>1. RunTypes /\ CountsOfTree /\ tree \in Results /\ CurFits
  BY DEF RunInv, CountInv
<1>2. CASE U!Start \/ U!EnterSuite
  <2>1. /\ testPC \in {"start", "suite"} /\ testPC' = "suite"
        /\ UNCHANGED <<test, order, outcome, cur>> /\ tree' = U!Count(tree, "suites")
    BY <1>2 DEF U!Start, U!EnterSuite, U!Enter
  <2>2. test = U!None /\ U!Finished' = U!Finished
    BY <1>1, <2>1 DEF U!Finished, RunTypes
  <2>3. CountsOfTree' /\ tree' \in Results
    BY <1>1, <2>1, <2>2, OtherCount, CountsStay
  <2> QED
    BY <1>1, <2>1, <2>3 DEF CountInv, CurFits
<1>3. CASE U!EnterTest
  <2>1. /\ testPC = "suite" /\ testPC' = "setup" /\ test' \in Tests
        /\ order' = Append(order, test')
        /\ UNCHANGED <<outcome, cur>> /\ tree' = U!Count(tree, "run")
    BY <1>3 DEF U!EnterTest
  <2>2. /\ Len(order) \in Nat /\ Len(order') = Len(order) + 1
        /\ \A i \in 1 .. Len(order) : order'[i] = order[i]
    BY <1>1, <2>1, AppendProperties DEF RunTypes
  <2>3. test = U!None /\ test' # U!None
    BY <1>1, <2>1, TreeConstants DEF RunTypes
  <2>4. U!Finished' = U!Finished /\ U!Finished = 1 .. Len(order)
    BY <2>1, <2>2, <2>3 DEF U!Finished
  <2>5. CountsOfTree' /\ tree' \in Results
    BY <1>1, <2>1, <2>2, <2>4, OtherCount, CountsStay
  <2> QED
    BY <1>1, <2>1, <2>5 DEF CountInv, CurFits
<1>4. CASE U!LeaveSuite
  <2>1. /\ testPC = "suite" /\ testPC' \in {"suite", "done"}
        /\ UNCHANGED <<test, order, outcome, cur, tree>>
    BY <1>4 DEF U!LeaveSuite
  <2>2. test = U!None /\ U!Finished' = U!Finished
    BY <1>1, <2>1 DEF U!Finished, RunTypes
  <2>3. CountsOfTree'
    BY <1>1, <2>1, <2>2, CountsStay
  <2> QED
    BY <1>1, <2>1, <2>3 DEF CountInv, CurFits
<1>5. ASSUME NEW how \in {"ok", "failure", "error"}, U!Setup(how) PROVE CountInv'
  <2> DEFINE o == [outcome[test] EXCEPT !.setup = how]
  <2>1. /\ testPC = "setup" /\ testPC' = (IF how = "ok" THEN "execute" ELSE "leave")
        /\ outcome' = [outcome EXCEPT ![test] = o] /\ UNCHANGED <<test, order>>
        /\ tree' = tree /\ cur' = IF how = "ok" THEN cur ELSE cur \cup {"error"}
    BY <1>5 DEF U!Setup, U!Ends, U!AddError
  <2>2. test \in Tests /\ test # U!None /\ outcome \in [Tests -> Parts] /\ cur = {}
    BY <1>1, <2>1 DEF RunTypes, TestsInv, CurFits
  <2>3. outcome'[test].setup = how
    BY <2>1, <2>2 DEF Parts
  <2>4. how # "ok" => U!Went(test)' = "error" /\ U!Verdict' = "error"
    BY <2>1, <2>3 DEF U!Went, U!Verdict
  <2> HIDE DEF o
  <2>5. CountsOfTree' /\ tree' \in Results
    BY <2>1, <2>2, PartCounts
  <2>6. CurFits'
    BY <2>1, <2>2, <2>4 DEF CurFits
  <2> QED
    BY <2>5, <2>6 DEF CountInv
<1>6. ASSUME NEW body \in U!Bodies, U!Execute(body) PROVE CountInv'
  <2> DEFINE o == [outcome[test] EXCEPT !.execute = body]
  <2>1. /\ testPC = "execute" /\ testPC' = "teardown"
        /\ outcome' = [outcome EXCEPT ![test] = o] /\ UNCHANGED <<test, order, tree>>
        /\ cur' = cur \cup ({U!Result(body)} \ {"ok"})
    BY <1>6 DEF U!Execute, U!Ends, U!AfterExecute
  <2>2. test \in Tests /\ test # U!None /\ outcome \in [Tests -> Parts] /\ cur = {}
    BY <1>1, <2>1 DEF RunTypes, TestsInv, CurFits
  <2>3. outcome'[test].execute = body
    BY <2>1, <2>2 DEF Parts
  <2> HIDE DEF o
  <2>4. CountsOfTree' /\ tree' \in Results
    BY <2>1, <2>2, PartCounts
  <2>5. CurFits'
    BY <2>1, <2>2, <2>3 DEF CurFits
  <2> QED
    BY <2>4, <2>5 DEF CountInv
<1>7. ASSUME NEW how \in {"ok", "failure", "error"}, U!Teardown(how) PROVE CountInv'
  <2> DEFINE o == [outcome[test] EXCEPT !.teardown = how]
             body == outcome[test].execute
  <2>1. /\ testPC = "teardown" /\ testPC' = "leave"
        /\ outcome' = [outcome EXCEPT ![test] = o] /\ UNCHANGED <<test, order>>
        /\ tree' = tree /\ cur' = IF how = "ok" THEN cur ELSE cur \cup {"error"}
    BY <1>7 DEF U!Teardown, U!Ends, U!AddError
  <2>2. /\ test \in Tests /\ test # U!None /\ outcome \in [Tests -> Parts]
        /\ cur = {U!Result(body)} \ {"ok"} /\ outcome[test].setup = "ok"
    BY <1>1, <2>1 DEF RunTypes, TestsInv, CurFits
  <2>3. /\ outcome'[test].setup = "ok" /\ outcome'[test].execute = body
        /\ outcome'[test].teardown = how
    BY <2>1, <2>2 DEF Parts
  <2>4. U!Result(body) \in {"ok", "failure", "error"}
    BY ResultsOfBodies
  <2> HIDE DEF o, body
  <2>5. U!Went(test)' = IF how # "ok" THEN "error"
                        ELSE IF U!Result(body) = "ok" THEN "success" ELSE U!Result(body)
    BY <2>1, <2>3 DEF U!Went
  <2>6. U!Verdict' = U!Went(test)'
    BY <2>1, <2>2, <2>4, <2>5 DEF U!Verdict
  <2>7. CountsOfTree' /\ tree' \in Results
    BY <2>1, <2>2, PartCounts
  <2>8. CurFits'
    BY <2>1, <2>6 DEF CurFits
  <2> QED
    BY <2>7, <2>8 DEF CountInv
<1>8. CASE U!CleanlinessCheck
  <2>1. /\ testPC = "check" /\ testPC' = "suite" /\ test' = U!None
        /\ UNCHANGED <<order, outcome, cur>>
        /\ tree' = IF clean THEN tree ELSE [tree EXCEPT !.unclean = test]
    BY <1>8 DEF U!CleanlinessCheck
  <2>2. test \in Tests /\ U!Finished' = U!Finished
    BY <1>1, <2>1 DEF U!Finished, RunTypes
  <2>3. /\ tree' \in Results /\ tree'.reports = tree.reports /\ tree'.num = tree.num
    BY <1>1, <2>1, <2>2 DEF Results
  <2>4. CountsOfTree'
    BY <1>1, <2>1, <2>2, <2>3, CountsStay
  <2> QED
    BY <1>1, <2>1, <2>3, <2>4 DEF CountInv, CurFits
<1> QED
  BY <1>2, <1>3, <1>4, <1>5, <1>6, <1>7, <1>8, OneMoreFinished DEF U!Next

(* TreeTestResult counts each test as it ended and reports those that did  *)
(* not end well in their order; TestCase::InternalRun tears down what was  *)
(* set up and nothing else; nothing runs after the test that is blamed for *)
(* an unclean environment.  For any tree of suites.                        *)
THEOREM TestsAreCounted == IsTree => (U!Spec => []CountsExact)
<1> SUFFICES ASSUME IsTree PROVE U!Spec => []CountsExact
  OBVIOUS
<1> DEFINE Inv == RunInv /\ WalkInv /\ TestsInv /\ CountInv
<1>1. U!Init => Inv
  BY RunInitially, WalkInitially, TestsInitially, CountInitially
<1>2. Inv /\ [U!Next]_(U!vars) => Inv'
  <2>1. ASSUME Inv, U!Next PROVE Inv'
    <3>1. RunInv' /\ WalkInv'
      BY <2>1, OnlyTestsSoil, WalkStep
    <3>2. EachOnce /\ EachOnce'
      BY <2>1, <3>1, NoneTwice DEF RunInv, RunTypes, WalkInv, EachOnce
    <3> QED
      BY <2>1, <3>1, <3>2, TestsStep, CountStep DEF RunInv
  <2>2. ASSUME Inv, UNCHANGED U!vars PROVE Inv'
    <3>1. RunInv' /\ WalkInv' /\ TestsInv'
      BY <2>2 DEF U!vars, RunInv, RunTypes, Blamed, Exhausted, U!top, TestsInv, TornDownOf,
                  WalkInv, Behind
    <3>2. CountInv'
      BY <2>2 DEF U!vars, CountInv, CurFits, CountsOfTree, Bad, U!EndedAs, U!Finished, U!Went,
                  U!Verdict
    <3> QED
      BY <3>1, <3>2
  <2> QED
    BY <2>1, <2>2
<1>3. Inv => CountsExact
  <2>1. CountInv => U!CountsExact
    BY CountsAreThese DEF CountInv
  <2>2. TestsInv => U!TornDown
    BY DEF TestsInv, TornDownOf, U!TornDown
  <2>3. RunInv => U!NothingAfterUnclean
    BY DEF RunInv, Blamed, U!NothingAfterUnclean
  <2> QED
    BY <2>1, <2>2, <2>3 DEF CountsExact
<1> HIDE DEF Inv
<1> QED
  BY <1>1, <1>2, <1>3, PTL DEF U!Spec
=============================================================================
