------------------------------ MODULE Settings ------------------------------
(***************************************************************************)
(* Settings: a hash table from section names to positions of hash tables   *)
(* from keys to positions of values.                                       *)
(***************************************************************************)
EXTENDS Integers, Sequences, SequencesExt, FiniteSets

CONSTANTS Sections, Keys, Values,
          SectionHash, KeyHash,
          SectionSize, KeySize, \* numbers of lists, 20 and 100 in the code
          Unset                 \* a value that no entry has

SettingsAssumption ==
    /\ SectionHash \in [Sections -> Nat] /\ KeyHash \in [Keys -> Nat]
    /\ {SectionSize, KeySize} \subseteq Nat \ {0}
    /\ Unset \notin Values

VARIABLES
    m_section_string_hash_table,
    m_section_name,
    m_key_string_hash_table,  \* one hash table per section
    m_data_of_string
vars == <<m_section_string_hash_table, m_section_name, m_key_string_hash_table,
          m_data_of_string>>

NOT_FOUND == -1

S == INSTANCE HashTable WITH
        Keys <- Sections, Values <- Nat, Hash <- SectionHash, Sizes <- {SectionSize},
        m_size <- SectionSize, m_data <- m_section_string_hash_table, m_not_found <- NOT_FOUND

(* The tables of keys are values, handled by the operators of HashTable.   *)
K == INSTANCE HashTable WITH
        Values <- Nat, Hash <- KeyHash, Sizes <- {KeySize},
        m_size <- KeySize, m_data <- <<>>, m_not_found <- NOT_FOUND

TypeOK ==
    /\ m_section_string_hash_table \in
          [0 .. SectionSize - 1 -> Seq([key : Sections, value : Nat])]
    /\ m_section_name \in Seq(Sections)
    /\ m_key_string_hash_table \in Seq([0 .. KeySize - 1 -> Seq([key : Keys, value : Nat])])
    /\ m_data_of_string \in Seq(Values)

Init ==
    /\ m_section_string_hash_table = S!Empty(SectionSize)
    /\ m_section_name = <<>>
    /\ m_key_string_hash_table = <<>>
    /\ m_data_of_string = <<>>

(* Vector positions count from 0: element p of the code is element p + 1.  *)
SectionPosition(section) ==
    S!GetMappedValue(m_section_string_hash_table, SectionSize, section, NOT_FOUND)

KeyPosition(table, key) == K!GetMappedValue(table, KeySize, key, NOT_FOUND)

GetStringEntry(section, key, defaultValue) ==
    LET pos == SectionPosition(section)
        entry == KeyPosition(m_key_string_hash_table[pos + 1], key)
    IN  IF pos = NOT_FOUND \/ entry = NOT_FOUND THEN defaultValue
        ELSE m_data_of_string[entry + 1]

(* getSectionHashTable and addEntryToSection: the position of a new entry. *)
PerSection(section, position, tables) ==
    Cardinality({k \in Keys : KeyPosition(tables[position + 1], k) # NOT_FOUND})

NewEntry(section, position, tables) == Len(m_data_of_string)

SectionNames(section, key) == Append(m_section_name, section)

SetStringEntry(section, key, value) ==
    LET new == SectionPosition(section) = NOT_FOUND
        pos == IF new THEN Len(m_key_string_hash_table) ELSE SectionPosition(section)
        tables == IF new THEN Append(m_key_string_hash_table, K!Empty(KeySize))
                  ELSE m_key_string_hash_table
        entry == KeyPosition(tables[pos + 1], key)
        added == NewEntry(section, pos, tables)
    IN  /\ m_section_string_hash_table' =
              IF new THEN S!Added(m_section_string_hash_table, SectionSize, section, pos)
              ELSE m_section_string_hash_table
        /\ m_section_name' = IF new THEN SectionNames(section, key) ELSE m_section_name
        /\ m_key_string_hash_table' =
              IF entry = NOT_FOUND
              THEN [tables EXCEPT ![pos + 1] = K!Added(@, KeySize, key, added)]
              ELSE tables
        /\ m_data_of_string' =
              LET data == IF entry = NOT_FOUND THEN Append(m_data_of_string, value)
                          ELSE m_data_of_string
              IN  [data EXCEPT ![(IF entry = NOT_FOUND THEN added ELSE entry) + 1] = value]

Clear ==
    /\ m_section_string_hash_table' = S!Empty(SectionSize)
    /\ m_section_name' = <<>> /\ m_key_string_hash_table' = <<>> /\ m_data_of_string' = <<>>

Next ==
    \/ \E section \in Sections, key \in Keys, value \in Values :
          SetStringEntry(section, key, value)
    \/ Clear

Spec == Init /\ [][Next]_vars
-----------------------------------------------------------------------------
(* The settings implement a map from section and key to value: a set entry *)
(* is got until it is set again or all are cleared, and no other entry     *)
(* changes with it.                                                        *)
Entries == {e \in Sections \X Keys : GetStringEntry(e[1], e[2], Unset) # Unset}

Abstract == INSTANCE KeyMap WITH
               Keys <- Sections \X Keys,
               map <- [e \in Entries |-> GetStringEntry(e[1], e[2], Unset)]

EntryStep ==
    vars' # vars =>
        /\ \A s \in Sections, k \in Keys, v \in Values :
             SetStringEntry(s, k, v) => Abstract!Put(<<s, k>>, v)
        /\ Clear => Abstract!Clear
EntriesMatch == [][EntryStep]_vars

(* Sections and names, positions of keys and values stay paired: each      *)
(* value belongs to one key of one section.                                *)
Paired ==
    LET positions == {e \in (1 .. Len(m_key_string_hash_table)) \X Keys :
                         KeyPosition(m_key_string_hash_table[e[1]], e[2]) # NOT_FOUND}
        indexOf(e) == KeyPosition(m_key_string_hash_table[e[1]], e[2])
    IN  /\ Len(m_section_name) = Len(m_key_string_hash_table)
        /\ \A p \in 1 .. Len(m_section_name) : SectionPosition(m_section_name[p]) = p - 1
        /\ Cardinality(positions) = Len(m_data_of_string)
        /\ {indexOf(e) : e \in positions} = 0 .. Len(m_data_of_string) - 1
=============================================================================
