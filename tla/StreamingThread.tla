--------------------------- MODULE StreamingThread ---------------------------
(***************************************************************************)
(* Sounds ask the streaming thread to play, pause or stop sound data.  A   *)
(* request is a message to the thread; its answer, OK or FAILED, is a      *)
(* message to the caller, who waits 200 ms for any message and returns     *)
(* whether that was OK.  A sound is one sound data (SoundImp) or a         *)
(* multitrack, which sends one request per track until one fails.          *)
(*                                                                         *)
(* What StreamingTask does with a sound data is its state here: stopped    *)
(* (no source), playing or paused.  A handler may throw, which ends the    *)
(* Run of the thread object but not the thread.                            *)
(***************************************************************************)
EXTENDS Integers, Sequences, SequencesExt, FiniteSets

CONSTANTS Clients,
          SoundData,
          Sounds,       \* the sound objects
          Tracks,       \* the sequence of sound data of each sound
          Multitracks,  \* the sounds that are SoundMultitrackImp
          Late,         \* whether an answer may take longer than 200 ms
          Throws,       \* whether a handler may throw
          MaxRequests   \* bound: messages to the thread

ASSUME StreamingAssumption ==
    /\ Tracks \in [Sounds -> Seq(SoundData)]
    /\ Multitracks \subseteq Sounds
    /\ \A s \in Sounds \ Multitracks : Len(Tracks[s]) = 1
    /\ {Late, Throws} \subseteq BOOLEAN
    /\ MaxRequests \in Nat

VARIABLES
    queue,   \* requests in the queue of the streaming thread
    pc,      \* the thread is in "run" or back in its "runner"
    state,   \* what the streaming task knows about each sound data
    mailbox, \* answers in the queue of each client
    call,    \* the call a client is in: its kind and sound, "none" outside
    todo,    \* the tracks the call has not asked for yet
    waits,   \* the number of the request the client waits for, or 0
    sent,    \* the number of requests
    lost,    \* history: requests that nobody will answer, per client
    expired, \* history: waits that timed out, per client
    taken,   \* history: the request whose answer each client took last
    stopped  \* history: the sound whose Stop has just returned, "none" after other calls

clientVars == <<call, todo, waits>>
history == <<lost, expired, taken, stopped>>
vars == <<queue, pc, state, mailbox, clientVars, sent, history>>

Kinds == {"play", "pause", "stop"}
NoCall == [kind |-> "none"]
Request == [kind : Kinds, data : SoundData, from : Clients, no : 1 .. MaxRequests]

TypeOK ==
    /\ queue \in Seq(Request)
    /\ pc \in {"run", "runner"}
    /\ state \in [SoundData -> {"stopped", "playing", "paused"}]
    /\ mailbox \in [Clients -> Seq([ok : BOOLEAN, no : 1 .. MaxRequests])]
    /\ call \in [Clients -> [kind : Kinds, sound : Sounds] \cup {NoCall}]
    /\ todo \in [Clients -> Seq(SoundData)]
    /\ waits \in [Clients -> 0 .. MaxRequests]
    /\ sent \in 0 .. MaxRequests
    /\ lost \in [Clients -> SUBSET (1 .. MaxRequests)]
    /\ expired \in [Clients -> 0 .. MaxRequests]
    /\ taken \in [Clients -> 0 .. MaxRequests]
    /\ stopped \in Sounds \cup {"none"}

Init ==
    /\ queue = <<>> /\ pc = "run"
    /\ state = [d \in SoundData |-> "stopped"]
    /\ mailbox = [c \in Clients |-> <<>>]
    /\ call = [c \in Clients |-> NoCall]
    /\ todo = [c \in Clients |-> <<>>]
    /\ waits = [c \in Clients |-> 0]
    /\ sent = 0
    /\ lost = [c \in Clients |-> {}]
    /\ expired = [c \in Clients |-> 0]
    /\ taken = [c \in Clients |-> 0]
    /\ stopped = "none"
-----------------------------------------------------------------------------
(* The calls of a sound.  SoundImp::Stop asks for nothing unless the sound *)
(* data is playing.                                                        *)
Begin(c, kind, s, tracks) ==
    /\ call[c] = NoCall
    /\ sent < MaxRequests
    /\ call' = [call EXCEPT ![c] = [kind |-> kind, sound |-> s]]
    /\ todo' = [todo EXCEPT ![c] = tracks]
    /\ stopped' = "none"
    /\ UNCHANGED <<queue, pc, state, mailbox, waits, sent, lost, expired, taken>>

Play(c, s) == Begin(c, "play", s, Tracks[s])

Pause(c, s) == Begin(c, "pause", s, Tracks[s])

Stop(c, s) ==
    Begin(c, "stop", s,
          IF s \notin Multitracks /\ state[Tracks[s][1]] # "playing" THEN <<>> ELSE Tracks[s])

SendRequest(c) ==
    /\ todo[c] # <<>> /\ waits[c] = 0
    /\ sent < MaxRequests
    /\ sent' = sent + 1
    /\ queue' = Append(queue, [kind |-> call[c].kind, data |-> Head(todo[c]),
                               from |-> c, no |-> sent'])
    /\ todo' = [todo EXCEPT ![c] = Tail(@)]
    /\ waits' = [waits EXCEPT ![c] = sent']
    /\ UNCHANGED <<pc, state, mailbox, call, history>>

(* WaitThreadMessage(rmessage, RESPONSE_TIMEOUT) gets whatever is first in *)
(* the client's queue.  After FAILED or a timeout the call returns false   *)
(* and the other tracks are not asked for.                                 *)
TakeAnswer(c) ==
    /\ waits[c] # 0 /\ mailbox[c] # <<>>
    /\ LET answer == Head(mailbox[c]) IN
          /\ taken' = [taken EXCEPT ![c] = answer.no]
          /\ todo' = IF answer.ok THEN todo ELSE [todo EXCEPT ![c] = <<>>]
    /\ mailbox' = [mailbox EXCEPT ![c] = Tail(@)]
    /\ waits' = [waits EXCEPT ![c] = 0]
    /\ UNCHANGED <<queue, pc, state, call, sent, lost, expired, stopped>>

Expires(c) == Late \/ waits[c] \in lost[c]

TimeOut(c) ==
    /\ waits[c] # 0 /\ mailbox[c] = <<>> /\ Expires(c)
    /\ waits' = [waits EXCEPT ![c] = 0]
    /\ todo' = [todo EXCEPT ![c] = <<>>]
    /\ expired' = [expired EXCEPT ![c] = @ + 1]
    /\ UNCHANGED <<queue, pc, state, mailbox, call, sent, lost, taken, stopped>>

Return(c) ==
    /\ call[c] # NoCall /\ waits[c] = 0
    /\ todo[c] = <<>> \/ sent = MaxRequests
    /\ call' = [call EXCEPT ![c] = NoCall]
    /\ todo' = [todo EXCEPT ![c] = <<>>]
    /\ stopped' = IF call[c].kind = "stop" /\ todo[c] = <<>> THEN call[c].sound ELSE "none"
    /\ UNCHANGED <<queue, pc, state, mailbox, waits, sent, lost, expired, taken>>
-----------------------------------------------------------------------------
(* The Run of the streaming thread. *)
AnswerAlways(r, ok) ==
    mailbox' = [c \in Clients |-> Append(mailbox[c], [ok |-> ok, no |-> r.no])]

Respond(r, ok) ==
    mailbox' = [mailbox EXCEPT ![r.from] = Append(@, [ok |-> ok, no |-> r.no])]

(* OnPlayMessage, OnPauseMessage and OnStopMessage; the last two fail for  *)
(* sound data without a source.                                            *)
Dispatch(r) ==
    LET ok == r.kind = "play" \/ state[r.data] # "stopped" IN
    /\ state' = IF ok THEN [state EXCEPT ![r.data] =
                              CASE r.kind = "play" -> "playing"
                                [] r.kind = "pause" -> "paused"
                                [] r.kind = "stop" -> "stopped"] ELSE state
    /\ Respond(r, ok)

Oldest == 1

RunReceives ==
    /\ pc = "run" /\ queue # <<>>
    /\ queue' = RemoveAt(queue, Oldest)
    /\ Dispatch(queue[Oldest])
    /\ UNCHANGED <<pc, clientVars, sent, history>>

(* An exception: no answer, and no later request is answered either. *)
RunThrows ==
    /\ Throws /\ pc = "run" /\ queue # <<>>
    /\ pc' = "runner"
    /\ queue' = Tail(queue)
    /\ lost' = [lost EXCEPT ![Head(queue).from] = @ \cup {Head(queue).no}]
    /\ UNCHANGED <<state, mailbox, clientVars, sent, expired, taken, stopped>>

RunnerDrops ==
    /\ pc = "runner" /\ queue # <<>>
    /\ queue' = Tail(queue)
    /\ lost' = [lost EXCEPT ![Head(queue).from] = @ \cup {Head(queue).no}]
    /\ UNCHANGED <<pc, state, mailbox, clientVars, sent, expired, taken, stopped>>

(* Execute finds a source that has come to its end. *)
SoundEnds(d) ==
    /\ pc = "run" /\ state[d] = "playing"
    /\ state' = [state EXCEPT ![d] = "stopped"]
    /\ UNCHANGED <<queue, pc, mailbox, clientVars, sent, history>>

ClientStep(c) == SendRequest(c) \/ TakeAnswer(c) \/ TimeOut(c) \/ Return(c)
ThreadStep == RunReceives \/ RunThrows \/ RunnerDrops

Next ==
    \/ \E c \in Clients, s \in Sounds : Play(c, s) \/ Pause(c, s) \/ Stop(c, s)
    \/ \E c \in Clients : ClientStep(c)
    \/ ThreadStep
    \/ \E d \in SoundData : SoundEnds(d)

Spec == Init /\ [][Next]_vars

(* The thread works and clients finish their calls. *)
FairSpec == Spec /\ WF_vars(ThreadStep) /\ \A c \in Clients : WF_vars(ClientStep(c))
-----------------------------------------------------------------------------
(* Every request is waiting, lost, answered in the mailbox or answered and *)
(* taken: a client that is not waiting has as many answers still to come   *)
(* or already late as it has timed out.                                    *)
LateAnswersCounted ==
    \A c \in Clients :
        LET coming == Len(mailbox[c]) + Cardinality(lost[c])
                      + Cardinality({i \in 1 .. Len(queue) : queue[i].from = c})
        IN  coming = expired[c] + (IF waits[c] = 0 THEN 0 ELSE 1)

(* A client never takes an answer to a request of somebody else, an answer *)
(* twice, or one that overtook an earlier one.                             *)
AnswersInOrder ==
    [][\A c \in Clients : waits[c] # 0 /\ waits'[c] = 0 =>
          taken[c] < taken'[c] \/ expired'[c] > expired[c]]_vars

(* A call returns, even when the thread has left its Run. *)
CallReturns == \A c \in Clients : call[c] # NoCall ~> call[c] = NoCall

(* TCAudioSound.h: Play, Pause and Stop return true if success, which is   *)
(* what the answer to their own request says.                              *)
AnswerIsOwn ==
    [][\A c \in Clients : taken'[c] # taken[c] => taken'[c] = waits[c]]_vars

(* TCAudioSound.h: Stop stops playing the sound, the next play starts at   *)
(* the beginning: none of its sound data has a source any more.            *)
StopStops ==
    stopped # "none" /\ pc = "run" =>
        \A d \in Range(Tracks[stopped]) : state[d] = "stopped"

(* The queries of a sound.  SoundImp::IsPaused asks whether the sound data *)
(* is stopped.                                                             *)
IsPlaying(s) == \E d \in Range(Tracks[s]) : state[d] = "playing"

IsPaused(s) ==
    IF s \in Multitracks THEN \E d \in Range(Tracks[s]) : state[d] = "paused"
    ELSE state[Tracks[s][1]] = "stopped"

IsStopped(s) ==
    IF s \in Multitracks THEN ~IsPlaying(s) ELSE state[Tracks[s][1]] = "stopped"

(* TCAudioSound.h: IsPaused gets if the sound is paused, IsStopped if it   *)
(* is stopped; nothing is both.                                            *)
PausedOrStopped == \A s \in Sounds : ~(IsPaused(s) /\ IsStopped(s))
=============================================================================
