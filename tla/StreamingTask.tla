---------------------------- MODULE StreamingTask ----------------------------
(***************************************************************************)
(* The streaming task plays sound data through OpenAL.  A sound data that  *)
(* plays has a source and a few buffers, taken from stacks of unused ones. *)
(* The task fills the buffers and queues them at the source; every 50 ms   *)
(* it walks over its sources, fills again the buffers that were played,    *)
(* starts a source that was starved and releases one that has ended.  The  *)
(* device plays meanwhile.                                                 *)
(***************************************************************************)
EXTENDS Integers, Sequences, SequencesExt, FiniteSets

CONSTANTS SoundData,
          Bytes,        \* the length of each sound data; looping is left out
          Wanted,       \* the size of the buffer the format of each asks for
          MaxSources,   \* what alGenSources gives before it fails
          PerSource,    \* buffers of a source, 4 in the code
          Atomic,       \* whether the device stands still while a source is served
          MaxRequests   \* bound: play, pause and stop messages

StreamingTaskAssumption ==
    /\ Bytes \in [SoundData -> Nat]
    /\ Wanted \in [SoundData -> {4 * n : n \in 1 .. 10}]
    /\ {MaxSources, MaxRequests} \subseteq Nat /\ PerSource \in Nat \ {0}
    /\ Atomic \in BOOLEAN

VARIABLES
    free_sources, free_buffers,  \* the stacks of OpenALHandler
    made,       \* the numbers of sources and buffers made so far
    gone,       \* those an exception took away from the stacks
    sources,    \* m_streaming_sources
    size,       \* m_streaming_buffer_size
    position,   \* the position of GetData in each sound data
    al,         \* OpenAL: state, queue and processed buffers of each source
    at,         \* the source Execute is at, 0 outside
    processed,  \* buffers it has still to fill again, -1 before it has asked
    failed,     \* an exception has ended the Run of the thread
    requests,
    heard       \* history: how far each sound data has been played
pools == <<free_sources, free_buffers, made, gone>>
vars == <<pools, sources, size, position, al, at, processed, failed, requests, heard>>

Sources == 1 .. made.sources
Buffers == 1 .. made.buffers
Chunk == [buffer : Buffers, from : Nat, bytes : Nat]
Nothing == [sources |-> {}, buffers |-> {}]
Unused == [state |-> "initial", queue |-> <<>>, done |-> 0]

TypeOK ==
    /\ made.sources \in 0 .. MaxSources /\ made.buffers \in Nat
    /\ free_sources \in Seq(Sources) /\ free_buffers \in Seq(Buffers)
    /\ gone.sources \subseteq Sources /\ gone.buffers \subseteq Buffers
    /\ sources \in Seq([data : SoundData, source : Sources, buffers : Seq(Buffers)])
    /\ size \in Nat
    /\ \A d \in SoundData : position[d] \in 0 .. Bytes[d] /\ heard[d] \in 0 .. Bytes[d]
    /\ \A s \in 1 .. MaxSources :
          /\ al[s].state \in {"initial", "playing", "paused", "stopped"}
          /\ al[s].queue \in Seq(Chunk)
          /\ al[s].done \in 0 .. Len(al[s].queue)
    /\ at \in 0 .. Len(sources) /\ processed \in -1 .. PerSource
    /\ failed \in BOOLEAN /\ requests \in 0 .. MaxRequests

Init ==
    /\ free_sources = <<>> /\ free_buffers = <<>>
    /\ made = [sources |-> 0, buffers |-> 0] /\ gone = Nothing
    /\ sources = <<>> /\ size = 0
    /\ position = [d \in SoundData |-> 0]
    /\ al = [s \in 1 .. MaxSources |-> Unused]
    /\ at = 0 /\ processed = -1 /\ failed = FALSE /\ requests = 0
    /\ heard = [d \in SoundData |-> 0]
-----------------------------------------------------------------------------
(* OpenAL. *)
alSourcePlay(s) ==
    IF s.state = "paused" THEN [s EXCEPT !.state = "playing"]
    ELSE IF s.queue = <<>> THEN [s EXCEPT !.state = "stopped"]
    ELSE [s EXCEPT !.state = "playing", !.done = 0]

alSourcePause(s) == IF s.state = "playing" THEN [s EXCEPT !.state = "paused"] ELSE s

(* QueueBuffer: what is put into the queue when GetData is at p; nothing   *)
(* at the end of the sound data.                                           *)
Lower(a, b) == IF a < b THEN a ELSE b

Padded(n) == IF n % 4 # 0 THEN n + (n % 4) ELSE n

Read(d, p, sz) == Lower(sz, Bytes[d] - p)

Queued(d, p, sz, b) ==
    IF Read(d, p, sz) = 0 THEN <<>>
    ELSE <<[buffer |-> b, from |-> p, bytes |-> Padded(Read(d, p, sz))]>>

(* The first buffers of a sound data, as many as it has data for.          *)
FilledFromSecond(d, sz, bs) ==
    [i \in {j \in 1 .. Len(bs) : j * sz < Bytes[d]} |-> Queued(d, i * sz, sz, bs[i])[1]]

Filled(d, sz, bs) ==
    [i \in {j \in 1 .. Len(bs) : (j - 1) * sz < Bytes[d]} |->
        Queued(d, (i - 1) * sz, sz, bs[i])[1]]
-----------------------------------------------------------------------------
(* The handlers. *)
Index(d) == CHOOSE i \in 1 .. Len(sources) : sources[i].data = d
Streams(d) == \E i \in 1 .. Len(sources) : sources[i].data = d
Ready == ~failed /\ at = 0 /\ requests < MaxRequests /\ requests' = requests + 1

OnPlayMessage(d) ==
    /\ Ready /\ Streams(d)
    /\ al' = [al EXCEPT ![sources[Index(d)].source] = alSourcePlay(@)]
    /\ UNCHANGED <<pools, sources, size, position, at, processed, failed, heard>>

(* The last n of a stack, from the top, and new ones when it is empty. *)
Unstacked(stack, n, last) ==
    [i \in 1 .. n |-> IF i <= Len(stack) THEN stack[Len(stack) + 1 - i]
                      ELSE last + i - Len(stack)]

Left(stack, n) == SubSeq(stack, 1, Len(stack) - n)

NewlyMade(stack, n) == IF n > Len(stack) THEN n - Len(stack) ELSE 0

CreateStreamingSource(d) ==
    LET source == Unstacked(free_sources, 1, made.sources)[1]
        buffers == Unstacked(free_buffers, PerSource, made.buffers)
    IN  /\ made' = [sources |-> made.sources + NewlyMade(free_sources, 1),
                    buffers |-> made.buffers + NewlyMade(free_buffers, PerSource)]
        /\ free_sources' = Left(free_sources, 1)
        /\ free_buffers' = Left(free_buffers, PerSource)
        /\ size' = IF size < Wanted[d] THEN Wanted[d] ELSE size
        /\ position' = [position EXCEPT ![d] = Lower(PerSource * size', Bytes[d])]
        /\ sources' = Append(sources, [data |-> d, source |-> source, buffers |-> buffers])
        /\ al' = [al EXCEPT ![source] =
                     alSourcePlay([@ EXCEPT !.queue = Filled(d, size', buffers)])]
        /\ heard' = [heard EXCEPT ![d] = 0]
        /\ UNCHANGED gone

CanMake == free_sources # <<>> \/ made.sources < MaxSources

OnPlayMessageNew(d) ==
    /\ Ready /\ ~Streams(d) /\ CanMake
    /\ CreateStreamingSource(d)
    /\ UNCHANGED <<at, processed, failed>>

(* An exception while the streaming source is made: alGenSources fails,    *)
(* alSourcefv for the source taken, alGenBuffers behind the n-th buffer,   *)
(* or a call of QueueBuffer behind the last.  What was taken is nowhere;   *)
(* the Run is over, so nobody looks at the queue or the position again.    *)
CreateThrows(d, n) ==
    /\ Ready /\ ~Streams(d) /\ CanMake
    /\ n \in 1 .. PerSource - 1 => n >= Len(free_buffers)
    /\ made' = [sources |-> made.sources + NewlyMade(free_sources, 1),
                buffers |-> made.buffers + NewlyMade(free_buffers, n)]
    /\ free_sources' = Left(free_sources, 1)
    /\ free_buffers' = Left(free_buffers, n)
    /\ gone' = [sources |-> Range(Unstacked(free_sources, 1, made.sources)),
                buffers |-> Range(Unstacked(free_buffers, n, made.buffers))]
    /\ failed' = TRUE
    /\ UNCHANGED <<sources, size, position, al, at, processed, heard>>

(* An exception of any other call of OpenAL, that of alGenSources with it, *)
(* in a handler or in the middle of Execute.                               *)
CallThrows ==
    /\ ~failed /\ (Ready \/ (at # 0 /\ UNCHANGED requests))
    /\ failed' = TRUE /\ at' = 0 /\ processed' = -1
    /\ UNCHANGED <<pools, sources, size, position, al, heard>>

OnPauseMessage(d) ==
    /\ Ready /\ Streams(d)
    /\ al' = [al EXCEPT ![sources[Index(d)].source] = alSourcePause(@)]
    /\ UNCHANGED <<pools, sources, size, position, at, processed, failed, heard>>

ReleaseOneBuffer(i) ==
    /\ al' = [al EXCEPT ![sources[i].source] = [Unused EXCEPT !.state = "stopped"]]
    /\ free_sources' = Append(free_sources, sources[i].source)
    /\ free_buffers' = Append(free_buffers, sources[i].buffers[1])
    /\ sources' = RemoveAt(sources, i)
    /\ UNCHANGED <<made, gone>>

ReleaseStreamingSource(i) ==
    /\ al' = [al EXCEPT ![sources[i].source] = [Unused EXCEPT !.state = "stopped"]]
    /\ free_sources' = Append(free_sources, sources[i].source)
    /\ free_buffers' = free_buffers \o sources[i].buffers
    /\ sources' = RemoveAt(sources, i)
    /\ UNCHANGED <<made, gone>>

OnStopMessage(d) ==
    /\ Ready /\ Streams(d)
    /\ ReleaseStreamingSource(Index(d))
    /\ UNCHANGED <<size, position, at, processed, failed, heard>>
-----------------------------------------------------------------------------
(* Execute: each source in turn. *)
Execute ==
    /\ ~failed /\ at = 0 /\ sources # <<>>
    /\ at' = 1
    /\ UNCHANGED <<pools, sources, size, position, al, processed, failed, requests, heard>>

CountProcessed ==
    /\ at # 0 /\ processed = -1
    /\ processed' = al[sources[at].source].done
    /\ UNCHANGED <<pools, sources, size, position, al, at, failed, requests, heard>>

RefillBuffer ==
    /\ at # 0 /\ processed > 0
    /\ LET d == sources[at].data  s == al[sources[at].source]
       IN  /\ al' = [al EXCEPT ![sources[at].source] =
                        [@ EXCEPT !.done = s.done - 1,
                                  !.queue = Tail(s.queue) \o
                                     Queued(d, position[d], size, Head(s.queue).buffer)]]
           /\ position' = [position EXCEPT ![d] = @ + Read(d, @, size)]
    /\ processed' = processed - 1
    /\ UNCHANGED <<pools, sources, size, at, failed, requests, heard>>

RestartedWhenDone(s) == s.done = Len(s.queue) /\ s.queue # <<>>

ReleasedWhen(s) == s.state \notin {"playing", "paused"} /\ s.queue = <<>>

RestartedWhen(s) == s.state \notin {"playing", "paused"} /\ s.queue # <<>>

CheckSourceStatus ==
    /\ at # 0 /\ processed = 0
    /\ LET source == sources[at].source IN
       IF ReleasedWhen(al[source])
       THEN /\ ReleaseStreamingSource(at)
            /\ at' = IF at < Len(sources) THEN at ELSE 0
       ELSE /\ al' = IF RestartedWhen(al[source])
                     THEN [al EXCEPT ![source] = alSourcePlay(@)] ELSE al
            /\ at' = IF at < Len(sources) THEN at + 1 ELSE 0
            /\ UNCHANGED <<pools, sources>>
    /\ processed' = -1
    /\ UNCHANGED <<size, position, failed, requests, heard>>

(* The device plays one buffer of a source and stops it after the last. *)
Plays(i) ==
    LET source == sources[i].source  s == al[source]  d == sources[i].data IN
    /\ s.state = "playing"
    /\ Atomic => at # i
    /\ al' = [al EXCEPT ![source] =
                 [s EXCEPT !.done = s.done + 1,
                           !.state = IF s.done + 1 = Len(s.queue) THEN "stopped" ELSE s.state]]
    /\ LET chunk == s.queue[s.done + 1]
           end == Lower(chunk.from + chunk.bytes, Bytes[d])
       IN  heard' = [heard EXCEPT ![d] = IF end > @ THEN end ELSE @]
    /\ UNCHANGED <<pools, sources, size, position, at, processed, failed, requests>>

TaskStep == Execute \/ CountProcessed \/ RefillBuffer \/ CheckSourceStatus
DeviceStep(i) == i <= Len(sources) /\ Plays(i)

Next ==
    \/ \E d \in SoundData : \/ OnPlayMessage(d) \/ OnPlayMessageNew(d)
                            \/ \E n \in 0 .. PerSource : CreateThrows(d, n)
                            \/ OnPauseMessage(d) \/ OnStopMessage(d)
    \/ CallThrows
    \/ TaskStep
    \/ \E i \in 1 .. MaxSources : DeviceStep(i)

Spec == Init /\ [][Next]_vars

(* The timeout of the task comes again and again, and the device, which    *)
(* has 50 ms between two walks over the sources, plays each of them.       *)
FairSpec ==
    Spec /\ WF_vars(TaskStep) /\ \A i \in 1 .. MaxSources : SF_vars(DeviceStep(i))
-----------------------------------------------------------------------------
Count(x, sq) == Cardinality({i \in 1 .. Len(sq) : sq[i] = x})
Gone(x, S) == IF x \in S THEN 1 ELSE 0

(* Sources and buffers are neither lost nor given away twice: each is once *)
(* in a stack, with one streaming source, or with the one whose making an  *)
(* exception ended; nothing is lost while the Run goes on.  A queue of     *)
(* OpenAL has only buffers of its own streaming source, each once.         *)
NothingLost ==
    /\ \A b \in Buffers :
          Count(b, free_buffers) + Gone(b, gone.buffers)
          + Cardinality({p \in (1 .. Len(sources)) \X (1 .. PerSource) :
                            sources[p[1]].buffers[p[2]] = b}) = 1
    /\ \A s \in Sources :
          Count(s, free_sources) + Gone(s, gone.sources)
          + Cardinality({i \in 1 .. Len(sources) : sources[i].source = s}) = 1
    /\ ~failed => gone = Nothing

QueuesOwn ==
    \A s \in Sources :
        LET queue == al[s].queue IN
        /\ \A i, j \in 1 .. Len(queue) : i # j => queue[i].buffer # queue[j].buffer
        /\ \A j \in 1 .. Len(queue) : \E i \in 1 .. Len(sources) :
              sources[i].source = s /\ Count(queue[j].buffer, sources[i].buffers) = 1

(* No part of a sound data is left out: what the device plays next begins  *)
(* where it has been played to, or before.                                 *)
NothingSkipped ==
    \A i \in 1 .. Len(sources) :
        LET s == al[sources[i].source] IN
        s.state = "playing" => s.queue[s.done + 1].from <= heard[sources[i].data]

(* A sound data whose source Execute releases has been played to its end.  *)
EndsComplete ==
    [][CheckSourceStatus /\ Len(sources') < Len(sources)
          => heard[sources[at].data] = Bytes[sources[at].data]]_vars

(* A sound data that plays ends, unless it is paused or an exception has   *)
(* ended the Run: a starved source is started again.                       *)
SoundEnds ==
    \A d \in SoundData :
        Streams(d) ~> \/ ~Streams(d) \/ failed
                      \/ al[sources[Index(d)].source].state = "paused"

(* TCAudioStreamingTask.cpp: a source that is not playing but has buffers  *)
(* in its queue was starved and there is more audio data to play.          *)
RestartedMeansMore ==
    [][\A i \in 1 .. Len(sources) :
          at = i /\ CheckSourceStatus /\ RestartedWhen(al[sources[i].source])
             => heard[sources[i].data] < Bytes[sources[i].data]]_vars

(* TCAudioSound.h: Play starts playing the sound at the current position.  *)
PlayContinues ==
    [][\A d \in SoundData, s \in Sources :
          OnPlayMessage(d) /\ sources[Index(d)].source = s /\ al'[s].state = "playing"
             => al'[s].queue[al'[s].done + 1].from = heard[d]]_vars

(* TCAudioStreamingTask.cpp: what is handed to OpenAL is filled up to a    *)
(* multiple of four bytes.                                                 *)
PaddedToFour == \A s \in Sources : \A c \in Range(al[s].queue) : c.bytes % 4 = 0
=============================================================================
