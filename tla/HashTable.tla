------------------------------ MODULE HashTable ------------------------------
(***************************************************************************)
(* The hash table of tc::Basic: lists of elements, the list of a key is    *)
(* its hash value modulo the number of lists.                              *)
(***************************************************************************)
EXTENDS Integers, Sequences, SequencesExt, FiniteSets

CONSTANTS Keys, Values,
          Hash,   \* the HASH_FUNC
          Sizes   \* numbers of lists

ASSUME HashAssumption == Hash \in [Keys -> Nat] /\ Sizes \subseteq Nat \ {0}

VARIABLES
    m_size,
    m_data,     \* the lists, numbered from 0 as in the code
    m_not_found
vars == <<m_size, m_data, m_not_found>>

Element == [key : Keys, value : Values]

TypeOK ==
    /\ m_size \in Sizes
    /\ m_data \in [0 .. m_size - 1 -> Seq(Element)]
    /\ m_not_found \in Values

(* GetElementPosition: the first element of the key in its list, 0 if none. *)
GetTableEntryPosition(k, size) == Hash[k] % size

Positions(list, k) == {i \in 1 .. Len(list) : list[i].key = k}

GetElementPosition(list, k) ==
    IF Positions(list, k) = {} THEN 0
    ELSE CHOOSE i \in Positions(list, k) : \A j \in Positions(list, k) : i <= j

GetMappedValue(data, size, k, not_found) ==
    LET list == data[GetTableEntryPosition(k, size)]
        p == GetElementPosition(list, k)
    IN  IF p = 0 THEN not_found ELSE list[p].value

GetAllKeys(data, size) ==
    LET upTo[i \in 0 .. size] ==
            IF i = 0 THEN <<>>
            ELSE upTo[i - 1] \o [j \in 1 .. Len(data[i - 1]) |-> data[i - 1][j].key]
    IN  upTo[size]

Empty(size) == [p \in 0 .. size - 1 |-> <<>>]

AddedAgain(data, size, k, v) ==
    [data EXCEPT ![GetTableEntryPosition(k, size)] = Append(@, [key |-> k, value |-> v])]

Added(data, size, k, v) ==
    LET p1 == GetTableEntryPosition(k, size)
        p2 == GetElementPosition(data[p1], k)
        elem == [key |-> k, value |-> v]
    IN  [data EXCEPT ![p1] = IF p2 = 0 THEN Append(@, elem) ELSE [@ EXCEPT ![p2] = elem]]

RemovesRest(data, size, k) ==
    LET p1 == GetTableEntryPosition(k, size)
        p2 == GetElementPosition(data[p1], k)
    IN  [data EXCEPT ![p1] = IF p2 = 0 THEN @ ELSE SubSeq(@, 1, p2 - 1)]

Removed(data, size, k) ==
    LET p1 == GetTableEntryPosition(k, size)
        p2 == GetElementPosition(data[p1], k)
    IN  [data EXCEPT ![p1] = IF p2 = 0 THEN @ ELSE RemoveAt(@, p2)]
-----------------------------------------------------------------------------
Init ==
    /\ m_size \in Sizes
    /\ m_data = Empty(m_size)
    /\ m_not_found \in Values

AddKey(k, v) ==
    /\ m_data' = Added(m_data, m_size, k, v)
    /\ UNCHANGED <<m_size, m_not_found>>

RemoveKey(k) ==
    /\ m_data' = Removed(m_data, m_size, k)
    /\ UNCHANGED <<m_size, m_not_found>>

SetHashSize(size) ==
    /\ m_size' = size
    /\ m_data' = Empty(size)
    /\ UNCHANGED m_not_found

Clear ==
    /\ m_data' = Empty(m_size)
    /\ UNCHANGED <<m_size, m_not_found>>

SetNotFoundValue(v) ==
    /\ m_not_found' = v
    /\ UNCHANGED <<m_size, m_data>>

Next ==
    \/ \E k \in Keys : RemoveKey(k) \/ \E v \in Values : AddKey(k, v)
    \/ \E size \in Sizes : SetHashSize(size)
    \/ Clear
    \/ \E v \in Values : SetNotFoundValue(v)

Spec == Init /\ [][Next]_vars
-----------------------------------------------------------------------------
(* What is in any list, wherever the hash value says it should be. *)
InList(p, k) == \E i \in 1 .. Len(m_data[p]) : m_data[p][i].key = k
Stored == {k \in Keys : \E p \in 0 .. m_size - 1 : InList(p, k)}

StoredValue(k) ==
    LET p == CHOOSE p \in 0 .. m_size - 1 : InList(p, k)
        i == CHOOSE i \in 1 .. Len(m_data[p]) : m_data[p][i].key = k
    IN  m_data[p][i].value

Contents == [k \in Stored |-> StoredValue(k)]

Abstract == INSTANCE KeyMap WITH map <- Contents

(* Each operation does to what is stored what it is to do to the map, for  *)
(* its own key.                                                            *)
FollowsMap ==
    /\ \A k \in Keys : /\ RemoveKey(k) => Abstract!Remove(k)
                       /\ \A v \in Values : AddKey(k, v) => Abstract!Put(k, v)
    /\ \A size \in Sizes : SetHashSize(size) => Abstract!Clear
    /\ Clear => Abstract!Clear
    /\ \A v \in Values : SetNotFoundValue(v) => UNCHANGED Contents

(* In every table an AddKey or a RemoveKey would change what a lookup of   *)
(* its own key finds, to what it is to be, and that of no other key: it    *)
(* does something, in the list of the key, and no second element is left.  *)
LookupFollows ==
    \A k, x \in Keys :
        LET found(data) == GetMappedValue(data, m_size, x, m_not_found) IN
        /\ found(Removed(m_data, m_size, k)) = IF x = k THEN m_not_found ELSE found(m_data)
        /\ \A v \in Values :
              found(Added(m_data, m_size, k, v)) = IF x = k THEN v ELSE found(m_data)

(* The table implements the map, operation by operation, and lookups find  *)
(* what the operations did.                                                *)
MapSpec == Abstract!Spec /\ [][vars' # vars => FollowsMap /\ LookupFollows]_vars

(* A lookup finds exactly what is stored, and the not found value else.    *)
LookupIsMap ==
    \A k \in Keys :
        GetMappedValue(m_data, m_size, k, m_not_found) =
            IF k \in Stored THEN StoredValue(k) ELSE m_not_found

(* GetAllKeys lists the stored keys, none twice.                           *)
AllKeysOnce ==
    LET keys == GetAllKeys(m_data, m_size) IN
    /\ Range(keys) = Stored
    /\ Len(keys) = Cardinality(Stored)
=============================================================================
