------------------------------ MODULE SyncSend ------------------------------
(***************************************************************************)
(* Synchronous messages between threads: SendSyncThreadMessage adds a      *)
(* message to the queue of the receiver and waits in the queue of the      *)
(* sender for a message with the same message id (or a quit message);      *)
(* SendReplyThreadMessage puts the same message object into the sender's   *)
(* queue.  Only afterwards are the reply ids compared.                     *)
(*                                                                         *)
(* Queues are boxes, as Mailbox justifies.  A thread is in the Run of a    *)
(* thread object, which answers what it receives and may itself send       *)
(* while it handles a message, or back in ThreadRunner, which answers      *)
(* nothing, or it has ended.  SendThreadMessage looks whether the receiver *)
(* has ended and then adds the message: the receiver may end in between.   *)
(***************************************************************************)
EXTENDS Integers, Sequences, SequencesExt

CONSTANTS Threads,
          Sends,      \* who sends synchronously to whom
          MessageIds, \* the ids of synchronous messages
          QUIT, STOP, \* MSG_ID_QUIT and the id of the stop message of Join
          NoMessage,
          MaxSends,   \* bound: synchronous messages
          MaxQuits,   \* bound: quit messages
          MaxStops    \* bound: stop messages

Message == [id : MessageIds \cup {QUIT, STOP}, no : 0 .. MaxSends, from : Threads]

SyncSendAssumption ==
    /\ NoMessage \notin Message
    /\ Sends \subseteq Threads \X Threads
    /\ \A t \in Threads : <<t, t>> \notin Sends
    /\ MessageIds # {} /\ {QUIT, STOP} \cap MessageIds = {}
    /\ {MaxSends, MaxQuits, MaxStops} \subseteq Nat

VARIABLES
    box,      \* m_messages of each thread
    pc,       \* "run", "runner", "ended"; in SendSyncThreadMessage "sending"
              \* (before AddMessage) and "wait", in SendReplyThreadMessage
              \* "replying" (before AddMessage)
    handling, \* the message a Run is busy with
    asked,    \* the message a thread waits for
    target,   \* whom it sent it to
    replyId,  \* s_unique_reply_id
    quits, stops, \* bounds
    replied,  \* history: reply ids whose receiver called SendReplyThreadMessage
    dropped,  \* history: reply ids taken out of a queue and not handled by a
              \* Run, or left in the queue of an ended thread
    returned  \* history: what SendSyncThreadMessage returned, per reply id

vars == <<box, pc, handling, asked, target, replyId, quits, stops, replied,
          dropped, returned>>
history == <<replied, dropped, returned>>

Results == {"MSG_RECEIVE_FAILED", "MSG_RECEIVED", "MSG_QUIT_RECEIVED"}
Return == [no : 1 .. MaxSends, by : Threads, result : Results, got : 0 .. MaxSends]

TypeOK ==
    /\ box \in [Threads -> Seq(Message)]
    /\ pc \in [Threads -> {"run", "sending", "wait", "replying", "runner", "ended"}]
    /\ handling \in [Threads -> Message \cup {NoMessage}]
    /\ asked \in [Threads -> Message \cup {NoMessage}]
    /\ target \in [Threads -> Threads]
    /\ replyId \in 0 .. MaxSends
    /\ quits \in 0 .. MaxQuits /\ stops \in 0 .. MaxStops
    /\ replied \subseteq 1 .. MaxSends
    /\ dropped \subseteq 1 .. MaxSends
    /\ returned \subseteq Return

Init ==
    /\ box = [t \in Threads |-> <<>>]
    /\ pc = [t \in Threads |-> "run"]
    /\ handling = [t \in Threads |-> NoMessage]
    /\ asked = [t \in Threads |-> NoMessage]
    /\ target = [t \in Threads |-> t]
    /\ replyId = 0
    /\ quits = 0 /\ stops = 0
    /\ replied = {} /\ dropped = {} /\ returned = {}
-----------------------------------------------------------------------------
(* SendThreadMessage up to AddMessage: a terminated thread refuses.        *)
IsTerminated(u) == pc[u] = "ended"

(* What is added to the queue of a thread that has ended meanwhile stays   *)
(* there.                                                                  *)
AddMessage(u, m) ==
    /\ box' = [box EXCEPT ![u] = Append(@, m)]
    /\ dropped' = IF IsTerminated(u) THEN dropped \cup {m.no} ELSE dropped

Note(t, result, got) ==
    returned' = returned \cup
        {[no |-> asked[t].no, by |-> t, result |-> result, got |-> got]}

SendSyncThreadMessage(t, u) ==
    /\ pc[t] = "run"
    /\ <<t, u>> \in Sends
    /\ replyId < MaxSends
    /\ replyId' = replyId + 1
    /\ IF IsTerminated(u)
          THEN /\ returned' = returned \cup
                      {[no |-> replyId', by |-> t, got |-> 0,
                        result |-> "MSG_RECEIVE_FAILED"]}
               /\ UNCHANGED <<pc, asked, target>>
          ELSE /\ pc' = [pc EXCEPT ![t] = "sending"]
               /\ \E id \in MessageIds : asked' =
                      [asked EXCEPT ![t] = [id |-> id, no |-> replyId', from |-> t]]
               /\ target' = [target EXCEPT ![t] = u]
               /\ UNCHANGED returned
    /\ UNCHANGED <<box, handling, quits, stops, replied, dropped>>

AddRequest(t) ==
    /\ pc[t] = "sending"
    /\ AddMessage(target[t], asked[t])
    /\ pc' = [pc EXCEPT ![t] = "wait"]
    /\ UNCHANGED <<handling, asked, target, replyId, quits, stops, replied, returned>>

Answers(t) == {i \in DOMAIN box[t] : box[t][i].id \in {QUIT, asked[t].id}}

LeftInQueue(t, i) == box[t]

Removed(t, i) == RemoveAt(box[t], i)

Result(t, m) ==
    IF m.id = QUIT THEN "MSG_QUIT_RECEIVED"
    ELSE IF m.no = asked[t].no THEN "MSG_RECEIVED" ELSE "MSG_RECEIVE_FAILED"

(* GetMessage(id, id) of the own queue, and the comparison of the ids.  A  *)
(* request of another thread with the same message id passes as an answer. *)
GetAnswer(t) ==
    /\ pc[t] = "wait"
    /\ \E i \in Answers(t) :
          LET m == box[t][i] IN
          /\ \A j \in Answers(t) : i <= j
          /\ box' = [box EXCEPT ![t] = Removed(t, i)]
          /\ Note(t, Result(t, m), m.no)
          /\ dropped' = IF m.id # QUIT /\ m.from # t THEN dropped \cup {m.no} ELSE dropped
    /\ pc' = [pc EXCEPT ![t] = "run"]
    /\ asked' = [asked EXCEPT ![t] = NoMessage]
    /\ UNCHANGED <<handling, target, replyId, quits, stops, replied>>
-----------------------------------------------------------------------------
(* WaitThreadMessage in the Run of a thread object: QUIT ends the Run, an  *)
(* unknown message such as STOP is passed over.                            *)
RunReceives(t) ==
    /\ pc[t] = "run" /\ handling[t] = NoMessage
    /\ box[t] # <<>>
    /\ box' = [box EXCEPT ![t] = Tail(@)]
    /\ LET m == Head(box[t]) IN
          /\ pc' = IF m.id = QUIT THEN [pc EXCEPT ![t] = "runner"] ELSE pc
          /\ handling' = IF m.id \in MessageIds
                            THEN [handling EXCEPT ![t] = m] ELSE handling
    /\ UNCHANGED <<asked, target, replyId, quits, stops, history>>

Answerer(t) == t

Asker(t) == handling[t].from

(* SendReplyThreadMessage: an asker that has ended gets no answer. *)
SendReplyThreadMessage(t) ==
    /\ pc[t] = "run" /\ handling[t] # NoMessage
    /\ replied' = replied \cup {handling[t].no}
    /\ IF IsTerminated(Asker(t))
          THEN /\ handling' = [handling EXCEPT ![t] = NoMessage]
               /\ UNCHANGED pc
          ELSE /\ pc' = [pc EXCEPT ![t] = "replying"]
               /\ UNCHANGED handling
    /\ UNCHANGED <<box, asked, target, replyId, quits, stops, dropped, returned>>

AddReply(t) ==
    /\ pc[t] = "replying"
    /\ AddMessage(Asker(t), handling[t])
    /\ pc' = [pc EXCEPT ![t] = "run"]
    /\ handling' = [handling EXCEPT ![t] = NoMessage]
    /\ UNCHANGED <<asked, target, replyId, quits, stops, replied, returned>>

(* ThreadRunner: STOP ends the thread, everything else is an unknown       *)
(* message.  What is still in the queue then stays there.                  *)
RunnerReceives(t) ==
    /\ pc[t] = "runner"
    /\ box[t] # <<>>
    /\ box' = [box EXCEPT ![t] = Tail(@)]
    /\ LET m == Head(box[t]) IN
          /\ pc' = IF m.id = STOP THEN [pc EXCEPT ![t] = "ended"] ELSE pc
          /\ dropped' = IF m.id \in MessageIds THEN dropped \cup {m.no}
                        ELSE IF m.id = STOP
                        THEN dropped \cup {n.no : n \in {x \in Range(Tail(box[t])) :
                                                      x.id \in MessageIds}}
                        ELSE dropped
    /\ UNCHANGED <<handling, asked, target, replyId, quits, stops, replied, returned>>

(* Others post quit and stop messages: added, also when the thread ended   *)
(* after it was looked at, or refused.                                     *)
Post(t, id) ==
    \/ box' = [box EXCEPT ![t] = Append(@, [id |-> id, no |-> 0, from |-> t])]
    \/ IsTerminated(t) /\ UNCHANGED box

PostQuit(t) ==
    /\ quits < MaxQuits
    /\ quits' = quits + 1
    /\ Post(t, QUIT)
    /\ UNCHANGED <<pc, handling, asked, target, replyId, stops, history>>

PostStop(t) ==
    /\ stops < MaxStops
    /\ stops' = stops + 1
    /\ Post(t, STOP)
    /\ UNCHANGED <<pc, handling, asked, target, replyId, quits, history>>

Own(t) ==
    \/ AddRequest(t) \/ GetAnswer(t)
    \/ RunReceives(t) \/ SendReplyThreadMessage(t) \/ AddReply(t)
    \/ RunnerReceives(t)

Next ==
    \/ \E t \in Threads : Own(t) \/ PostQuit(t) \/ PostStop(t)
    \/ \E t, u \in Threads : SendSyncThreadMessage(t, u)

Spec == Init /\ [][Next]_vars

(* A thread goes on with what it is in; nobody has to send. *)
FairSpec == Spec /\ \A t \in Threads : WF_vars(Own(t))
-----------------------------------------------------------------------------
(* SendSyncThreadMessage says MSG_RECEIVED only when the receiver answered *)
(* this very message, whatever late answers, requests of the same id and   *)
(* quit messages the sender's queue holds.                                 *)
ReceivedMeansReplied ==
    \A r \in returned : r.result = "MSG_RECEIVED" => r.got = r.no /\ r.no \in replied

(* One failure breeds the next: a wait can only fail with an answer or a   *)
(* request in its place, that of an earlier message of the same sender or  *)
(* a request of somebody else, and never with an answer to a later one.    *)
FailureHasACause ==
    \A r \in returned : r.result = "MSG_RECEIVE_FAILED" /\ r.got # 0 =>
        \/ r.got \in dropped
        \/ /\ r.got < r.no
           /\ \E q \in returned : q.no = r.got /\ q.by = r.by /\ q.result # "MSG_RECEIVED"

(* No message is answered twice into the hands of a waiting sender.        *)
AnsweredOnce ==
    \A r, q \in returned : r.result = "MSG_RECEIVED" /\ r # q => q.got # r.got

Stuck(t) ==
    \E S \in SUBSET Threads :
        /\ t \in S
        /\ \A u \in S : pc[u] = "wait" /\ (target[u] \in S \/ asked[u].no \in dropped)

(* A synchronous send returns, unless its message was dropped by a         *)
(* receiver that was not in a Run, had ended between the look at its state *)
(* and the addition or took the message for an answer, or the sender       *)
(* belongs to a ring of threads that all wait for each other, or waits for *)
(* one of those.                                                           *)
SyncReturns ==
    \A t \in Threads : asked[t] # NoMessage ~> asked[t] = NoMessage \/ Stuck(t)

(* TCMTThread.h: the message has to be sent back with                      *)
(* SendReplyThreadMessage, only then the send returns.                     *)
ReturnsOnlyWhenReplied ==
    \A r \in returned : r.result # "MSG_RECEIVE_FAILED" => r.no \in replied
=============================================================================
