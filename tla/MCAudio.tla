------------------------------ MODULE MCAudio -------------------------------
(***************************************************************************)
(* Sounds, the thread that plays them and the data it plays.               *)
(*   thread:   two clients, two sound data, a single sound and a multitrack*)
(*             of its sound data and another one, as AddSound makes it;    *)
(*   task:     a long sound data with a short last buffer, a short one and *)
(*             one with larger buffers, and two sources for them; the      *)
(*             device plays while the task serves a source;                *)
(*   device:   the same, with a device that stands still meanwhile;        *)
(*   sequence: two sounds with bytes, one without and one of another       *)
(*             format.                                                     *)
(* The parts share no state: a behaviour is of one of them, and the other  *)
(* ones stay as they were created.                                         *)
(***************************************************************************)
EXTENDS StreamingThread

CONSTANTS single, multi, d1, d2,
          long, short, wide, TaskData, TaskBytes, Wanted,
          MaxSources, PerSource, TaskRequests,
          a, b, e, x, SequenceData, Length, Format, Sizes, MaxSounds

MCTracks == [s \in Sounds |-> IF s = single THEN <<d1>> ELSE <<d1, d2>>]
MCTaskBytes == [d \in TaskData |-> IF d = long THEN 13 ELSE 4]
MCWanted == [d \in TaskData |-> IF d = wide THEN 8 ELSE 4]
MCLength == [d \in SequenceData |-> CASE d = a -> 3 [] d = b -> 1 [] OTHER -> 0]
MCFormat == [d \in SequenceData |-> IF d = x THEN 2 ELSE 1]

VARIABLES part, \* "thread", "task", "device" or "sequence"
    free_sources, free_buffers, made, gone, sources, size, position, al, at, processed,
    failed, requests, heard,
    sound_data, current_sound_data, looping, read_position, num_bytes, buffer, n_read,
    last, undisturbed

taskVars == <<free_sources, free_buffers, made, gone, sources, size, position, al, at,
              processed, failed, requests, heard>>
sequenceVars == <<sound_data, current_sound_data, looping, read_position, num_bytes,
                  buffer, n_read, last, undisturbed>>
allVars == <<part, vars, taskVars, sequenceVars>>

T == INSTANCE StreamingTask WITH SoundData <- TaskData, Bytes <- TaskBytes,
                                 Atomic <- FALSE, MaxRequests <- TaskRequests
D == INSTANCE StreamingTask WITH SoundData <- {long, short}, Bytes <- TaskBytes,
                                 Atomic <- TRUE, MaxRequests <- TaskRequests
Q == INSTANCE SoundSequence WITH SoundData <- SequenceData, Bytes <- Length,
                                 position <- read_position

ASSUME MCAssumption == Q!SequenceAssumption /\ T!StreamingTaskAssumption

MCInit == part \in {"thread", "task", "device", "sequence"} /\ Init /\ T!Init /\ Q!Init

InThread(A) == part = "thread" /\ A /\ UNCHANGED <<part, taskVars, sequenceVars>>
InTask(A) == part = "task" /\ A /\ UNCHANGED <<part, vars, sequenceVars>>
InDevice(A) == part = "device" /\ A /\ UNCHANGED <<part, vars, sequenceVars>>
InSequence(A) == part = "sequence" /\ A /\ UNCHANGED <<part, vars, taskVars>>

MCNext == InThread(Next) \/ InTask(T!Next) \/ InDevice(D!Next) \/ InSequence(Q!Next)

(* The fairness of StreamingThread and of StreamingTask. *)
MCFairness ==
    /\ WF_allVars(InThread(ThreadStep))
    /\ \A c \in Clients : WF_allVars(InThread(ClientStep(c)))
    /\ WF_allVars(InDevice(D!TaskStep))
    /\ \A i \in 1 .. MaxSources : SF_allVars(InDevice(D!DeviceStep(i)))

MCSpec == MCInit /\ [][MCNext]_allVars /\ MCFairness
-----------------------------------------------------------------------------
(* The answers a client gets are the ones it asked for, one for each       *)
(* request and in their order, the ones that came too late included.       *)
AnswersExact == [][LateAnswersCounted']_allVars /\ AnswersInOrder

(* Sources and buffers of OpenAL are neither lost, but those of the one    *)
(* streaming source whose making an exception ends, nor given away twice,  *)
(* and each source has only buffers of its own in its queue.               *)
NothingLost == T!NothingLost /\ T!QueuesOwn

(* No part of a sound data is left out between two buffers, nor behind the *)
(* last one.                                                               *)
NothingSkipped == [][T!NothingSkipped']_allVars /\ T!EndsComplete

(* A sequence takes the bytes of its sounds one after the other.           *)
OneAfterTheOther == Q!OneAfterTheOther

(* Its GetData gives them away in this order.                              *)
BufferIsPlayed == Q!BufferIsPlayed

(* Calls of a sound return, and a sound data that plays ends, a starved    *)
(* source being started again.                                             *)
EverythingEnds == CallReturns /\ (part = "device" => D!SoundEnds)
=============================================================================
