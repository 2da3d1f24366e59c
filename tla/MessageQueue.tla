---------------------------- MODULE MessageQueue ----------------------------
(***************************************************************************)
(* The message queue every tc::multi_threading thread owns: any thread     *)
(* adds messages, only the owner takes them.  The queue lock (a recursive  *)
(* mutex of the object) is held over AddMessage and over one scan of       *)
(* GetMessageFromQueue, never while the owner waits for the event.         *)
(*                                                                         *)
(* A message is its id and the number of its AddMessage, which stands for  *)
(* the identity of the MessagePtr.  A request for the ids msg_id_start ..  *)
(* msg_id_end is the set of those ids, and all of MessageIds for a request *)
(* with MSG_ID_UNKNOWN.  Time is left out: a timed wait may time out       *)
(* whenever it is blocked, and the comparison of the elapsed time with the *)
(* timeout may go either way.                                              *)
(***************************************************************************)
EXTENDS EventPthread, Integers, Sequences, SequencesExt

CONSTANTS Owner,        \* the thread the queue belongs to
          Producers,    \* the threads inside AddMessage
          NoThread,     \* nobody holds the queue lock
          MessageIds,   \* the message ids in use
          MSG_ID_QUIT,  \* the id that ends every wait
          Filters,      \* the sets of ids the owner asks for
          MaxMessages   \* bound: AddMessage calls

ASSUME QueueAssumption ==
    /\ NoThread \notin Producers
    /\ MSG_ID_QUIT \in MessageIds
    /\ Filters \subseteq SUBSET MessageIds
    /\ MaxMessages \in Nat

VARIABLES
    messages,  \* m_messages
    event,     \* m_new_message_event
    adder,     \* who holds the queue lock between push_back and Set
    pc,        \* where the owner is in GetMessage
    filter,    \* the ids the owner asks for
    timed,     \* whether it asked with a timeout
    received,  \* history: what GetMessage has returned, in order
    sent       \* history: the number of AddMessage calls

vars == <<messages, event, adder, pc, filter, timed, received, sent>>

Message == [id : MessageIds, no : 1 .. MaxMessages]

TypeOK ==
    /\ messages \in Seq(Message)
    /\ event \in EventType({Owner})
    /\ ~event.manual_reset
    /\ adder \in Producers \cup {NoThread}
    /\ pc \in {"idle", "scan", "elapsed", "wait", "blocked"}
    /\ filter \in SUBSET MessageIds
    /\ timed \in BOOLEAN
    /\ received \in Seq(Message)
    /\ sent \in 0 .. MaxMessages

Init ==
    /\ messages = <<>>
    /\ event = NewEvent(FALSE, FALSE)
    /\ adder = NoThread
    /\ pc = "idle"
    /\ filter = MessageIds
    /\ timed = FALSE
    /\ received = <<>>
    /\ sent = 0
-----------------------------------------------------------------------------
(* AddMessage: push_back, then Set, both under the queue lock. *)

AddMessage(p) ==
    /\ adder = NoThread
    /\ sent < MaxMessages
    /\ \E id \in MessageIds :
          messages' = Append(messages, [id |-> id, no |-> sent + 1])
    /\ sent' = sent + 1
    /\ adder' = p
    /\ UNCHANGED <<event, pc, filter, timed, received>>

SetNewMessageEvent(p) ==
    /\ adder = p
    /\ event' \in EventSet(event)
    /\ adder' = NoThread
    /\ UNCHANGED <<messages, pc, filter, timed, received, sent>>
-----------------------------------------------------------------------------
(* GetMessageFromQueue: the first message that matches is taken, and a     *)
(* quit message matches every request.                                     *)

Matches(m, ids) == m.id = MSG_ID_QUIT \/ m.id \in ids

Hits(ids) == {i \in DOMAIN messages : Matches(messages[i], ids)}

TakeWithoutErase(ids) ==
    \E i \in Hits(ids) :
        /\ \A j \in Hits(ids) : i <= j
        /\ messages' = messages
        /\ received' = Append(received, messages[i])

TakeFirst(ids) ==
    \E i \in Hits(ids) :
        /\ \A j \in Hits(ids) : i <= j
        /\ messages' = RemoveAt(messages, i)
        /\ received' = Append(received, messages[i])

(* GetMessage, with and without a timeout. *)
GetMessage ==
    /\ pc = "idle"
    /\ filter' \in Filters
    /\ timed' \in BOOLEAN
    /\ pc' = "scan"
    /\ UNCHANGED <<messages, event, adder, received, sent>>

ScanHit ==
    /\ pc = "scan"
    /\ adder = NoThread
    /\ TakeFirst(filter)
    /\ pc' = "idle"
    /\ UNCHANGED <<event, adder, filter, timed, sent>>

ScanMiss ==
    /\ pc = "scan"
    /\ adder = NoThread
    /\ Hits(filter) = {}
    /\ pc' = IF timed THEN "elapsed" ELSE "wait"
    /\ UNCHANGED <<messages, event, adder, filter, timed, received, sent>>

(* if (ellapsed_time < timeout) wait again, else MSG_RECEIVE_TIMEOUT *)
CheckElapsed ==
    /\ pc = "elapsed"
    /\ pc' \in {"wait", "idle"}
    /\ UNCHANGED <<messages, event, adder, filter, timed, received, sent>>

WaitForEvent ==
    /\ pc = "wait"
    /\ event' = EventWait(event, Owner)
    /\ pc' = IF event.state THEN "scan" ELSE "blocked"
    /\ UNCHANGED <<messages, adder, filter, timed, received, sent>>

ResumeFromEvent ==
    /\ pc = "blocked"
    /\ Owner \in event.woken
    /\ event' = EventResume(event, Owner)
    /\ pc' = "scan"
    /\ UNCHANGED <<messages, adder, filter, timed, received, sent>>

TimeOut ==
    /\ pc = "blocked"
    /\ timed
    /\ Owner \in event.waiting
    /\ event' = EventTimeOut(event, Owner)
    /\ pc' = "scan"
    /\ UNCHANGED <<messages, adder, filter, timed, received, sent>>

(* POSIX lets pthread_cond_wait return without a signal. *)
SpuriousWakeup ==
    /\ Owner \in event.waiting
    /\ event' = Unblock(event, {Owner})
    /\ UNCHANGED <<messages, adder, pc, filter, timed, received, sent>>

(* TryGetMessage: WaitThreadMessage with a zero timeout, for any id. *)
TryGetMessage ==
    /\ pc = "idle"
    /\ adder = NoThread
    /\ TakeFirst(MessageIds)
    /\ UNCHANGED <<event, adder, pc, filter, timed, sent>>
-----------------------------------------------------------------------------
OwnerStep == \/ ScanHit \/ ScanMiss \/ CheckElapsed
             \/ WaitForEvent \/ ResumeFromEvent \/ TimeOut

Next ==
    \/ \E p \in Producers : AddMessage(p) \/ SetNewMessageEvent(p)
    \/ GetMessage
    \/ TryGetMessage
    \/ OwnerStep
    \/ SpuriousWakeup

Spec == Init /\ [][Next]_vars

(* A thread inside AddMessage finishes it, and the owner goes on whenever  *)
(* it can: both are running threads.  Nobody has to add or ask.            *)
Fairness ==
    /\ \A p \in Producers : WF_vars(SetNewMessageEvent(p))
    /\ WF_vars(OwnerStep)

FairSpec == Spec /\ Fairness
-----------------------------------------------------------------------------
(* Nobody sleeps on work: while the owner is inside pthread_cond_wait (or  *)
(* about to enter it with the event not set), the queue holds no message   *)
(* it asks for, unless the thread that added one still holds the queue     *)
(* lock and is about to call Set.  A message that slips in between the     *)
(* scan and the wait must leave the event set.                             *)
NoLostWakeup ==
    /\ Owner \in event.waiting => (Hits(filter) = {} \/ adder # NoThread)
    /\ pc = "wait" => (Hits(filter) = {} \/ adder # NoThread \/ event.state)

(* The owner is blocked exactly when the condition variable knows it, once. *)
BlockedIsWaiting ==
    /\ pc = "blocked" <=> Owner \in event.waiting \cup event.woken
    /\ event.waiting \cap event.woken = {}

(* Every message added is in the queue or was returned, exactly once, and  *)
(* whatever the requests were: messages with the same id are returned in   *)
(* the order they were added, and no message is returned past an older     *)
(* quit message.                                                           *)
NoneLostNoneTwice ==
    LET all == messages \o received
    IN  /\ Len(all) = sent
        /\ {all[i].no : i \in DOMAIN all} = 1 .. sent

OrderKept ==
    /\ \A i \in DOMAIN received, j \in DOMAIN messages :
          messages[j].id \in {received[i].id, MSG_ID_QUIT}
             => received[i].no < messages[j].no
    /\ \A i, j \in DOMAIN received :
          (i < j /\ received[i].id = received[j].id)
             => received[i].no < received[j].no
-----------------------------------------------------------------------------
(* What the queue promises: see Mailbox. *)
Request == IF pc = "idle" THEN {} ELSE {[ids |-> filter, timed |-> timed]}

Box == INSTANCE Mailbox WITH box <- messages, request <- Request

MailboxSpec == Box!FairSpec
=============================================================================
