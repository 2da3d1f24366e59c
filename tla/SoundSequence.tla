---------------------------- MODULE SoundSequence ----------------------------
(***************************************************************************)
(* The data of a sound sequence: sounds that are played one after the      *)
(* other through one GetData.  A sound that gives less than it was asked   *)
(* for is set to its start and the next one is asked for the rest.         *)
(*                                                                         *)
(* A sound data is its length in bytes; its bytes are numbered, and one    *)
(* that is in a sequence may also be played by itself.  Sounds that loop   *)
(* by themselves are left out.                                             *)
(***************************************************************************)
EXTENDS Integers, Sequences, SequencesExt

CONSTANTS SoundData,
          Bytes,     \* the length of each sound data, 0 of a multitrack
          Format,    \* its format
          Sizes,     \* how much a GetData asks for
          MaxSounds  \* bound: sounds of the sequence

SequenceAssumption ==
    /\ Bytes \in [SoundData -> Nat]
    /\ Sizes \subseteq Nat \ {0} /\ \E n \in Sizes : \A m \in Sizes : m <= n
    /\ MaxSounds \in Nat

VARIABLES
    sound_data,         \* m_sound_data
    current_sound_data, \* m_current_sound_data, counted from one
    looping,            \* IsLooping
    position,           \* how far each sound data was read
    num_bytes, buffer,  \* of the GetData that runs, and how much it has read
    n_read,
    last,               \* history: the last byte taken, <<index, byte>>
    undisturbed         \* history: see below
sequenceVars == <<sound_data, current_sound_data, looping>>
callVars == <<num_bytes, buffer, n_read>>
vars == <<sequenceVars, position, callVars, last, undisturbed>>

Nothing == <<0, 0>>
MaxSize == CHOOSE n \in Sizes : \A m \in Sizes : m <= n

TypeOK ==
    /\ sound_data \in UNION {[1 .. n -> SoundData] : n \in 0 .. MaxSounds}
    /\ current_sound_data \in 1 .. MaxSounds + 1
    /\ looping \in BOOLEAN /\ undisturbed \in BOOLEAN
    /\ \A d \in SoundData : position[d] \in 0 .. Bytes[d]
    /\ num_bytes + n_read \in Sizes \cup {0}
    /\ buffer \in Seq((0 .. MaxSounds) \X Nat) /\ Len(buffer) = MaxSize

(* The streaming task sets a sequence to its start before it reads it.     *)
Init ==
    /\ sound_data = <<>> /\ current_sound_data = 1 /\ looping = FALSE
    /\ position = [d \in SoundData |-> 0]
    /\ num_bytes = 0 /\ n_read = 0
    /\ buffer = [i \in 1 .. MaxSize |-> Nothing]
    /\ last = Nothing /\ undisturbed = TRUE
-----------------------------------------------------------------------------
(* The lock is held during a GetData.                                      *)
Unlocked == num_bytes = 0 \/ current_sound_data > Len(sound_data)

AddSoundData(d) ==
    /\ Unlocked /\ Len(sound_data) < MaxSounds
    /\ \A s \in Range(sound_data) : Format[d] = Format[s]
    /\ sound_data' = Append(sound_data, d)
    /\ num_bytes' = 0 /\ n_read' = 0 /\ last' = Nothing
    /\ UNCHANGED <<current_sound_data, looping, position, buffer, undisturbed>>

RemoveSoundData(d) ==
    /\ Unlocked /\ Contains(sound_data, d)
    /\ sound_data' = RemoveAt(sound_data, SelectInSeq(sound_data, LAMBDA x : x = d))
    /\ num_bytes' = 0 /\ n_read' = 0
    /\ undisturbed' = FALSE
    /\ UNCHANGED <<current_sound_data, looping, position, buffer, last>>

SetLoopData(loop) ==
    /\ Unlocked /\ looping # loop /\ looping' = loop
    /\ UNCHANGED <<sound_data, current_sound_data, position, callVars, last, undisturbed>>

(* Only the index is set back.                                             *)
SetToStart ==
    /\ Unlocked
    /\ current_sound_data' = 1
    /\ num_bytes' = 0 /\ n_read' = 0 /\ last' = Nothing
    /\ undisturbed' = (undisturbed /\ \A d \in SoundData : position[d] = 0)
    /\ UNCHANGED <<sound_data, looping, position, buffer>>

(* A sound of the sequence is played by itself. *)
PlayItself(d, n) ==
    /\ n # 0 /\ position[d] + n <= Bytes[d]
    /\ position' = [position EXCEPT ![d] = @ + n]
    /\ undisturbed' = FALSE
    /\ UNCHANGED <<sequenceVars, callVars, last>>
-----------------------------------------------------------------------------
GetData(n) ==
    /\ Unlocked
    /\ num_bytes' = n /\ n_read' = 0
    /\ buffer' = [i \in 1 .. MaxSize |-> Nothing]
    /\ UNCHANGED <<sequenceVars, position, last, undisturbed>>

Following(k) == IF k = Len(sound_data) /\ looping THEN 1 ELSE k + 1

PositionKept(d, c) == position[d] + c

(* A sound that has given c bytes, less than it was asked for, is set to   *)
(* its start.                                                              *)
PositionAfter(d, c) == IF c < num_bytes THEN 0 ELSE position[d] + c

(* One round of the loop: the bytes go to the begin of the buffer.         *)
GetPart ==
    /\ num_bytes > 0 /\ current_sound_data <= Len(sound_data)
    /\ LET k == current_sound_data
           d == sound_data[k]
           left == Bytes[d] - position[d]
           c == IF left < num_bytes THEN left ELSE num_bytes
       IN  /\ buffer' = [i \in 1 .. MaxSize |->
                            IF i <= c THEN <<k, position[d] + i>> ELSE buffer[i]]
           /\ position' = [position EXCEPT ![d] = PositionAfter(d, c)]
           /\ current_sound_data' = IF c < num_bytes THEN Following(k) ELSE k
           /\ num_bytes' = num_bytes - c
           /\ n_read' = n_read + c
           /\ last' = IF c = 0 THEN last ELSE <<k, position[d] + c>>
    /\ UNCHANGED <<sound_data, looping, undisturbed>>

Next ==
    \/ \E d \in SoundData : \/ AddSoundData(d) \/ RemoveSoundData(d)
                            \/ \E n \in Sizes : PlayItself(d, n)
    \/ \E loop \in BOOLEAN : SetLoopData(loop)
    \/ SetToStart
    \/ \E n \in Sizes : GetData(n)
    \/ GetPart

Spec == Init /\ [][Next]_vars
-----------------------------------------------------------------------------
(* As long as no sound is removed, played by itself or left in its middle  *)
(* by a SetToStart, every byte of every sound is taken, in the order of    *)
(* the sounds, and the sounds follow each other round and round when the   *)
(* sequence loops: what comes after the last byte of a sound is the first  *)
(* byte of the next one that has any.  (Not said of the first byte after a *)
(* sound was added.)                                                       *)
NothingBetween(k, j) ==
    \/ k < j /\ \A i \in k + 1 .. j - 1 : Bytes[sound_data[i]] = 0
    \/ k >= j /\ \A i \in (k + 1 .. Len(sound_data)) \cup (1 .. j - 1) :
                    Bytes[sound_data[i]] = 0

OneAfterTheOther ==
    [][GetPart /\ undisturbed /\ last # Nothing /\ n_read' > n_read =>
          LET first == buffer'[1] IN
          IF last[2] < Bytes[sound_data[last[1]]]
          THEN first = <<last[1], last[2] + 1>>
          ELSE first[2] = 1 /\ NothingBetween(last[1], first[1])]_vars

(* TCAudioSoundCompound.h: a sound sequence where one sound after the      *)
(* other is played: the buffer of a GetData holds the bytes that were      *)
(* taken, one after the other, as many as it says.                         *)
BufferIsPlayed ==
    (num_bytes = 0 /\ undisturbed) =>
        \A i \in 1 .. n_read - 1 :
            \/ buffer[i + 1] = <<buffer[i][1], buffer[i][2] + 1>>
            \/ buffer[i + 1][1] # buffer[i][1] /\ buffer[i + 1][2] = 1

(* A GetData comes back.                                                   *)
GetDataReturns == num_bytes > 0 ~> num_bytes = 0 \/ current_sound_data > Len(sound_data)
=============================================================================
