------------------------------- MODULE Mailbox -------------------------------
(***************************************************************************)
(* What a thread's message queue promises, without event, condition and    *)
(* locks: a box of messages, at most one request of its owner, and, as     *)
(* long as the box holds a message the request asks for, the request is    *)
(* answered.                                                               *)
(***************************************************************************)
EXTENDS Integers, Sequences, SequencesExt

CONSTANTS MessageIds, MSG_ID_QUIT, Filters, MaxMessages

VARIABLES box,       \* the messages that wait, oldest first
          request,   \* {} or the one pending request
          received,  \* what was handed over, in order
          sent       \* the number of messages ever added

vars == <<box, request, received, sent>>

Wanted(ids) ==
    {i \in DOMAIN box : box[i].id = MSG_ID_QUIT \/ box[i].id \in ids}

HandOver(ids) ==
    \E i \in Wanted(ids) :
        /\ \A j \in Wanted(ids) : i <= j
        /\ box' = RemoveAt(box, i)
        /\ received' = Append(received, box[i])

Init == box = <<>> /\ request = {} /\ received = <<>> /\ sent = 0

Send ==
    /\ sent < MaxMessages
    /\ sent' = sent + 1
    /\ \E id \in MessageIds : box' = Append(box, [id |-> id, no |-> sent'])
    /\ UNCHANGED <<request, received>>

Ask ==
    /\ request = {}
    /\ \E ids \in Filters, timed \in BOOLEAN :
          request' = {[ids |-> ids, timed |-> timed]}
    /\ UNCHANGED <<box, received, sent>>

Answer ==
    /\ \E r \in request : HandOver(r.ids)
    /\ request' = {}
    /\ UNCHANGED sent

GiveUp ==
    /\ \E r \in request : r.timed
    /\ request' = {}
    /\ UNCHANGED <<box, received, sent>>

Poll ==
    /\ request = {}
    /\ HandOver(MessageIds)
    /\ UNCHANGED <<request, sent>>

Next == Send \/ Ask \/ Answer \/ GiveUp \/ Poll

Spec == Init /\ [][Next]_vars

FairSpec == Spec /\ WF_vars(Answer)
=============================================================================
