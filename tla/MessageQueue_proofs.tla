------------------------ MODULE MessageQueue_proofs ------------------------
(***************************************************************************)
(* Proofs about MessageQueue, for any producers, message ids and requests  *)
(* and any number of messages, and about the time of a TimedWait, for any  *)
(* timeouts and starts that fit into the seconds, and about the Clock.     *)
(***************************************************************************)
EXTENDS MCQueue, OperatorLemmas

(* A scan that found nothing stays true until the owner blocks, or the     *)
(* event tells of the message that came after it.                          *)
ScannedInVain ==
    pc \in {"elapsed", "wait"} =>
        (Hits(filter) = {} \/ adder # NoThread \/ event.state)

(* The queue is in the order of the AddMessage calls. *)
Numbered ==
    /\ \A i \in 1 .. Len(messages) : messages[i].no <= sent
    /\ \A i \in 1 .. Len(received) : received[i].no <= sent
    /\ \A i, j \in 1 .. Len(messages) : i < j => messages[i].no < messages[j].no

(* OrderKept over intervals of indices. *)
Ordered ==
    /\ \A i \in 1 .. Len(received), j \in 1 .. Len(messages) :
          messages[j].id \in {received[i].id, MSG_ID_QUIT}
             => received[i].no < messages[j].no
    /\ \A i, j \in 1 .. Len(received) :
          (i < j /\ received[i].id = received[j].id)
             => received[i].no < received[j].no

-----------------------------------------------------------------------------
(* What taking the first match does to the queue. *)
LEMMA TakeFirstParts ==
    ASSUME TypeOK, NEW ids, TakeFirst(ids)
    PROVE  \E i \in 1 .. Len(messages) :
              /\ messages[i] \in Message
              /\ Matches(messages[i], ids)
              /\ \A j \in 1 .. Len(messages) : Matches(messages[j], ids) => i <= j
              /\ messages' = RemoveAt(messages, i)
              /\ messages' \in Seq(Message)
              /\ received' = Append(received, messages[i])
              /\ received' \in Seq(Message)
<1>1. PICK i \in Hits(ids) :
          /\ \A j \in Hits(ids) : i <= j
          /\ messages' = RemoveAt(messages, i)
          /\ received' = Append(received, messages[i])
  BY DEF TakeFirst
<1>2. messages \in Seq(Message) /\ received \in Seq(Message)
  BY DEF TypeOK
<1>3. DOMAIN messages = 1 .. Len(messages)
  BY <1>2
<1>4. i \in 1 .. Len(messages) /\ messages[i] \in Message
  BY <1>2, <1>3 DEF Hits
<1>5. messages' \in Seq(Message)
  BY <1>1, <1>2, <1>4, RemoveAtParts
<1>6. received' \in Seq(Message)
  BY <1>1, <1>2, <1>4
<1> QED
  BY <1>1, <1>3, <1>4, <1>5, <1>6 DEF Hits
-----------------------------------------------------------------------------
(* The typing invariant. *)

LEMMA TypeNext == TypeOK /\ [Next]_vars => TypeOK'
<1> SUFFICES ASSUME TypeOK, [Next]_vars PROVE TypeOK'
  OBVIOUS
<1> USE DEF TypeOK
<1>0. event \in EventType({Owner}) /\ event.state \in BOOLEAN
  BY DEF EventType
<1>1. ASSUME NEW p \in Producers, AddMessage(p) PROVE TypeOK'
  <2>1. PICK id \in MessageIds :
            messages' = Append(messages, [id |-> id, no |-> sent + 1])
    BY <1>1 DEF AddMessage
  <2>2. sent' \in 0 .. MaxMessages /\ sent + 1 \in 1 .. MaxMessages
    BY <1>1, QueueAssumption DEF AddMessage
  <2>3. messages' \in Seq(Message)
    BY <2>1, <2>2 DEF Message
  <2> QED
    BY <1>1, <2>2, <2>3 DEF AddMessage
<1>2. ASSUME NEW p \in Producers, SetNewMessageEvent(p) PROVE TypeOK'
  <2>1. event' \in EventType({Owner}) /\ ~event'.manual_reset
    BY <1>0, <1>2, EventSetParts DEF SetNewMessageEvent
  <2> QED
    BY <1>2, <2>1 DEF SetNewMessageEvent
<1>3. CASE GetMessage
  BY <1>3, QueueAssumption DEF GetMessage
<1>4. CASE ScanHit
  BY <1>4, TakeFirstParts DEF ScanHit
<1>5. CASE ScanMiss
  BY <1>5 DEF ScanMiss
<1>6. CASE CheckElapsed
  BY <1>6 DEF CheckElapsed
<1>7. CASE WaitForEvent
  <2>1. event' \in EventType({Owner}) /\ ~event'.manual_reset
    BY <1>0, <1>7, EventWaitParts DEF WaitForEvent
  <2> QED
    BY <1>7, <2>1 DEF WaitForEvent
<1>8. CASE ResumeFromEvent
  <2>1. event' \in EventType({Owner}) /\ ~event'.manual_reset
    BY <1>0, <1>8, EventResumeParts DEF ResumeFromEvent
  <2> QED
    BY <1>8, <2>1 DEF ResumeFromEvent
<1>9. CASE TimeOut
  <2>1. event' \in EventType({Owner}) /\ ~event'.manual_reset
    BY <1>0, <1>9, EventTimeOutParts DEF TimeOut
  <2> QED
    BY <1>9, <2>1 DEF TimeOut
<1>10. CASE SpuriousWakeup
  <2>1. event' \in EventType({Owner}) /\ ~event'.manual_reset
    BY <1>0, <1>10 DEF SpuriousWakeup, Unblock, EventType
  <2> QED
    BY <1>10, <2>1 DEF SpuriousWakeup
<1>11. CASE TryGetMessage
  BY <1>11, TakeFirstParts DEF TryGetMessage
<1>12. CASE UNCHANGED vars
  BY <1>12 DEF vars
<1> QED
  BY <1>1, <1>2, <1>3, <1>4, <1>5, <1>6, <1>7, <1>8, <1>9, <1>10, <1>11, <1>12
     DEF Next, OwnerStep

(* Queue, event and the owner's place in GetMessage keep their types. *)
THEOREM TypeCorrect == Spec => []TypeOK
<1>1. Init => TypeOK
  <2> SUFFICES ASSUME Init PROVE TypeOK
    OBVIOUS
  <2>1. event \in EventType({Owner}) /\ ~event.manual_reset
    BY DEF Init, NewEvent, EventType
  <2>2. sent \in 0 .. MaxMessages
    BY QueueAssumption DEF Init
  <2>3. messages \in Seq(Message) /\ received \in Seq(Message)
    BY DEF Init
  <2>4. adder \in Producers \cup {NoThread} /\ filter \in SUBSET MessageIds
    BY DEF Init
  <2> QED
    BY <2>1, <2>2, <2>3, <2>4 DEF Init, TypeOK
<1>2. TypeOK /\ [Next]_vars => TypeOK'
  BY TypeNext
<1> QED
  BY <1>1, <1>2, PTL DEF Spec
-----------------------------------------------------------------------------
(* The owner never sleeps on a message it asks for. *)

WakeupInv == BlockedIsWaiting /\ NoLostWakeup /\ ScannedInVain

LEMMA WakeupInit == Init => WakeupInv
BY DEF Init, NewEvent, WakeupInv, BlockedIsWaiting, NoLostWakeup, ScannedInVain

LEMMA WakeupNext == TypeOK /\ WakeupInv /\ [Next]_vars => WakeupInv'
<1> SUFFICES ASSUME TypeOK, WakeupInv, [Next]_vars PROVE WakeupInv'
  OBVIOUS
<1> USE DEF WakeupInv, BlockedIsWaiting, NoLostWakeup, ScannedInVain
<1>0. /\ event \in EventType({Owner})
      /\ event.state \in BOOLEAN
      /\ ~event.manual_reset
      /\ event.waiting \subseteq {Owner}
      /\ event.woken \subseteq {Owner}
      /\ pc \in {"idle", "scan", "elapsed", "wait", "blocked"}
  BY DEF TypeOK, EventType
<1>1. ASSUME NEW p \in Producers, AddMessage(p) PROVE WakeupInv'
  BY <1>1, QueueAssumption DEF AddMessage
<1>2. ASSUME NEW p \in Producers, SetNewMessageEvent(p) PROVE WakeupInv'
  <2>1. /\ event'.state
        /\ event'.waiting \cup event'.woken = event.waiting \cup event.woken
        /\ event'.waiting \cap event'.woken = {}
        /\ event'.waiting # {} => event'.woken # {}
        /\ event' \in EventType({Owner})
    BY <1>0, <1>2, EventSetParts DEF SetNewMessageEvent
  <2>2. event'.waiting \subseteq {Owner} /\ event'.woken \subseteq {Owner}
    BY <2>1 DEF EventType
  <2>3. event'.waiting = {}
    BY <2>1, <2>2
  <2>4. /\ messages' = messages
        /\ filter' = filter
        /\ pc' = pc
    BY <1>2 DEF SetNewMessageEvent
  <2> QED
    BY <2>1, <2>3, <2>4
<1>3. CASE GetMessage
  BY <1>0, <1>3 DEF GetMessage
<1>4. CASE ScanHit
  BY <1>0, <1>4 DEF ScanHit
<1>5. CASE ScanMiss
  <2>1. Hits(filter)' = Hits(filter)
    BY <1>5 DEF ScanMiss, Hits, Matches
  <2> QED
    BY <1>0, <1>5, <2>1 DEF ScanMiss
<1>6. CASE CheckElapsed
  <2>1. Hits(filter)' = Hits(filter)
    BY <1>6 DEF CheckElapsed, Hits, Matches
  <2> QED
    BY <1>0, <1>6, <2>1 DEF CheckElapsed
<1>7. CASE WaitForEvent
  <2>1. Hits(filter)' = Hits(filter) /\ adder' = adder /\ event' = EventWait(event, Owner)
    BY <1>7 DEF WaitForEvent, Hits, Matches
  <2>2. event.waiting = {} /\ event.woken = {}
    BY <1>0, <1>7 DEF WaitForEvent
  <2>3. CASE event.state
    <3>1. event'.waiting = {} /\ event'.woken = {}
      BY <1>0, <2>1, <2>2, <2>3, EventWaitParts
    <3>2. pc' = "scan"
      BY <1>7, <2>3 DEF WaitForEvent
    <3> QED
      BY <3>1, <3>2
  <2>4. CASE ~event.state
    <3>1. event'.waiting = {Owner} /\ event'.woken = {}
      BY <1>0, <2>1, <2>2, <2>4, EventWaitParts
    <3>2. pc' = "blocked" /\ pc = "wait"
      BY <1>7, <2>4 DEF WaitForEvent
    <3> QED
      BY <2>1, <2>4, <3>1, <3>2
  <2> QED
    BY <2>3, <2>4
<1>8. CASE ResumeFromEvent
  <2>1. event'.waiting = event.waiting /\ event'.woken = event.woken \ {Owner}
    BY <1>0, <1>8, EventResumeParts DEF ResumeFromEvent
  <2> QED
    BY <1>0, <1>8, <2>1 DEF ResumeFromEvent
<1>9. CASE TimeOut
  <2>1. event'.waiting = event.waiting \ {Owner} /\ event'.woken = event.woken
    BY <1>0, <1>9, EventTimeOutParts DEF TimeOut
  <2> QED
    BY <1>0, <1>9, <2>1 DEF TimeOut
<1>10. CASE SpuriousWakeup
  <2>1. /\ event'.waiting = event.waiting \ {Owner}
        /\ event'.woken = event.woken \cup {Owner}
        /\ event'.state = event.state
    BY <1>0, <1>10 DEF SpuriousWakeup, Unblock, EventType
  <2>2. Hits(filter)' = Hits(filter)
    BY <1>10 DEF SpuriousWakeup, Hits, Matches
  <2> QED
    BY <1>0, <1>10, <2>1, <2>2 DEF SpuriousWakeup
<1>11. CASE TryGetMessage
  BY <1>0, <1>11 DEF TryGetMessage
<1>12. CASE UNCHANGED vars
  BY <1>12 DEF vars, Hits, Matches
<1> QED
  BY <1>1, <1>2, <1>3, <1>4, <1>5, <1>6, <1>7, <1>8, <1>9, <1>10, <1>11, <1>12
     DEF Next, OwnerStep

(* While the owner sleeps in GetMessage the queue holds nothing it asks    *)
(* for, or the thread that added it is about to set the event: messages    *)
(* that come between scan and wait, timeouts and spurious wakeups included *)
(* (MessageQueue::AddMessage, GetMessage).                                 *)
THEOREM OwnerMissesNoMessage == Spec => []NoLostWakeup
<1>1. TypeOK /\ WakeupInv /\ [Next]_vars => WakeupInv'
  BY WakeupNext
<1>2. WakeupInv => NoLostWakeup
  BY DEF WakeupInv
<1> QED
  BY <1>1, <1>2, WakeupInit, TypeCorrect, PTL DEF Spec

(* The owner's place in GetMessage and the condition variable agree: it is *)
(* known there exactly while it is blocked, and never twice.               *)
THEOREM OwnerIsKnownWhenBlocked == Spec => []BlockedIsWaiting
<1>1. TypeOK /\ WakeupInv /\ [Next]_vars => WakeupInv'
  BY WakeupNext
<1>2. WakeupInv => BlockedIsWaiting
  BY DEF WakeupInv
<1> QED
  BY <1>1, <1>2, WakeupInit, TypeCorrect, PTL DEF Spec
-----------------------------------------------------------------------------
(* Messages are returned in order. *)

LEMMA NumbersAreNaturals ==
    ASSUME NEW s \in Seq(Message)
    PROVE  \A i \in 1 .. Len(s) : s[i].no \in Nat
<1> SUFFICES ASSUME NEW i \in 1 .. Len(s)
             PROVE  s[i].no \in Nat
  OBVIOUS
<1>1. s[i] \in Message
  OBVIOUS
<1>2. s[i].no \in 1 .. MaxMessages
  BY <1>1 DEF Message
<1> QED
  BY <1>2, QueueAssumption

LEMMA OrderAfterAdd ==
    ASSUME TypeOK, Numbered, Ordered, NEW p \in Producers, AddMessage(p)
    PROVE  Numbered' /\ Ordered'
<1>1. PICK id \in MessageIds :
          messages' = Append(messages, [id |-> id, no |-> sent + 1])
  BY DEF AddMessage
<1> DEFINE m == [id |-> id, no |-> sent + 1]
           n == Len(messages)
<1>2. /\ messages \in Seq(Message)
      /\ received \in Seq(Message)
      /\ sent \in Nat
      /\ sent' = sent + 1
      /\ received' = received
  BY DEF TypeOK, AddMessage
<1>3. /\ n \in Nat
      /\ Len(messages') = n + 1
      /\ \A i \in 1 .. n : messages'[i] = messages[i]
      /\ messages'[n + 1] = m
      /\ m.no = sent + 1
  BY <1>1, <1>2
<1>4. \A i \in 1 .. n : messages[i].no \in Nat
  BY <1>2, NumbersAreNaturals
<1>5. \A i \in 1 .. Len(received) : received[i].no \in Nat
  BY <1>2, NumbersAreNaturals
<1>6. \A i \in 1 .. n + 1 : i \in 1 .. n \/ i = n + 1
  BY <1>3
<1> HIDE DEF m, n
<1>7. Numbered'
  <2>1. \A i \in 1 .. n + 1 : messages'[i].no <= sent + 1
    BY <1>2, <1>3, <1>4, <1>6 DEF Numbered, n
  <2>2. \A i \in 1 .. Len(received) : received[i].no <= sent + 1
    BY <1>2, <1>5 DEF Numbered
  <2>3. \A i, j \in 1 .. n + 1 : i < j => messages'[i].no < messages'[j].no
    <3> SUFFICES ASSUME NEW i \in 1 .. n + 1, NEW j \in 1 .. n + 1, i < j
                 PROVE  messages'[i].no < messages'[j].no
      OBVIOUS
    <3>1. i \in 1 .. n
      BY <1>3
    <3>2. CASE j \in 1 .. n
      BY <1>3, <3>1, <3>2 DEF Numbered, n
    <3>3. CASE j = n + 1
      BY <1>2, <1>3, <1>4, <3>1, <3>3 DEF Numbered, n
    <3> QED
      BY <1>6, <3>2, <3>3
  <2> QED
    BY <1>2, <1>3, <2>1, <2>2, <2>3 DEF Numbered
<1>8. Ordered'
  <2>1. ASSUME NEW i \in 1 .. Len(received), NEW j \in 1 .. n + 1,
               messages'[j].id \in {received[i].id, MSG_ID_QUIT}
        PROVE  received[i].no < messages'[j].no
    <3>1. CASE j \in 1 .. n
      BY <1>3, <2>1, <3>1 DEF Ordered, n
    <3>2. CASE j = n + 1
      BY <1>2, <1>3, <1>5, <3>2 DEF Numbered
    <3> QED
      BY <1>6, <3>1, <3>2
  <2> QED
    BY <1>2, <1>3, <2>1 DEF Ordered
<1> QED
  BY <1>7, <1>8

LEMMA OrderAfterTake ==
    ASSUME TypeOK, Numbered, Ordered, NEW ids, TakeFirst(ids), sent' = sent
    PROVE  Numbered' /\ Ordered'
<1>1. PICK k \in 1 .. Len(messages) :
          /\ messages[k] \in Message
          /\ Matches(messages[k], ids)
          /\ \A j \in 1 .. Len(messages) : Matches(messages[j], ids) => k <= j
          /\ messages' = RemoveAt(messages, k)
          /\ received' = Append(received, messages[k])
  BY TakeFirstParts
<1> DEFINE n == Len(messages)
           l == Len(received)
           old(j) == IF j < k THEN j ELSE j + 1
<1>2. /\ messages \in Seq(Message)
      /\ received \in Seq(Message)
      /\ n \in Nat
      /\ l \in Nat
      /\ k \in 1 .. n
  BY DEF TypeOK
<1>3. /\ Len(messages') = n - 1
      /\ \A j \in 1 .. n - 1 : messages'[j] = messages[old(j)]
  BY <1>1, <1>2, RemoveAtParts
<1>4. /\ Len(received') = l + 1
      /\ \A i \in 1 .. l : received'[i] = received[i]
      /\ received'[l + 1] = messages[k]
  BY <1>1, <1>2
<1>5. /\ \A i \in 1 .. n : messages[i].no \in Nat
      /\ \A i \in 1 .. l : received[i].no \in Nat
  BY <1>2, NumbersAreNaturals
<1>6. \A i \in 1 .. l + 1 : i \in 1 .. l \/ i = l + 1
  BY <1>2
<1>7. \A j \in 1 .. n - 1 : old(j) \in 1 .. n /\ old(j) # k
  BY <1>2
<1>8. \A i, j \in 1 .. n - 1 : i < j => old(i) < old(j)
  BY <1>2
<1> HIDE DEF n, l, old
<1>9. Numbered'
  <2>1. \A i \in 1 .. n - 1 : messages'[i].no <= sent
    BY <1>3, <1>7 DEF Numbered, n
  <2>2. \A i \in 1 .. l + 1 : received'[i].no <= sent
    BY <1>2, <1>4, <1>6 DEF Numbered, n, l
  <2>3. \A i, j \in 1 .. n - 1 : i < j => messages'[i].no < messages'[j].no
    BY <1>3, <1>7, <1>8 DEF Numbered, n
  <2> QED
    BY <1>3, <1>4, <2>1, <2>2, <2>3 DEF Numbered
<1>10. \A i \in 1 .. l + 1, j \in 1 .. n - 1 :
          messages'[j].id \in {received'[i].id, MSG_ID_QUIT}
             => received'[i].no < messages'[j].no
  <2> SUFFICES ASSUME NEW i \in 1 .. l + 1, NEW j \in 1 .. n - 1,
                      messages'[j].id \in {received'[i].id, MSG_ID_QUIT}
               PROVE  received'[i].no < messages'[j].no
    OBVIOUS
  <2>1. messages'[j] = messages[old(j)] /\ old(j) \in 1 .. n /\ old(j) # k
    BY <1>3, <1>7
  <2>2. CASE i \in 1 .. l
    BY <1>4, <2>1, <2>2 DEF Ordered, n, l
  <2>3. CASE i = l + 1
    <3>1. received'[i] = messages[k]
      BY <1>4, <2>3
    <3>2. Matches(messages[old(j)], ids)
      BY <1>1, <2>1, <3>1 DEF Matches
    <3>3. k <= old(j)
      BY <1>1, <2>1, <3>2 DEF n
    <3>4. k < old(j)
      BY <1>2, <2>1, <3>3
    <3> QED
      BY <1>2, <2>1, <3>1, <3>4 DEF Numbered, n
  <2> QED
    BY <1>6, <2>2, <2>3
<1>11. \A i, j \in 1 .. l + 1 :
          (i < j /\ received'[i].id = received'[j].id)
             => received'[i].no < received'[j].no
  <2> SUFFICES ASSUME NEW i \in 1 .. l + 1, NEW j \in 1 .. l + 1,
                      i < j, received'[i].id = received'[j].id
               PROVE  received'[i].no < received'[j].no
    OBVIOUS
  <2>1. i \in 1 .. l
    BY <1>2
  <2>2. CASE j \in 1 .. l
    BY <1>4, <2>1, <2>2 DEF Ordered, l
  <2>3. CASE j = l + 1
    <3>1. received'[j] = messages[k] /\ received'[i] = received[i]
      BY <1>4, <2>1, <2>3
    <3>2. messages[k].id = received[i].id
      BY <3>1
    <3> QED
      BY <1>2, <2>1, <3>1, <3>2 DEF Ordered, n, l
  <2> QED
    BY <1>6, <2>2, <2>3
<1> QED
  BY <1>3, <1>4, <1>9, <1>10, <1>11 DEF Ordered

LEMMA OrderNext ==
    TypeOK /\ Numbered /\ Ordered /\ [Next]_vars => Numbered' /\ Ordered'
<1> SUFFICES ASSUME TypeOK, Numbered, Ordered, [Next]_vars
             PROVE  Numbered' /\ Ordered'
  OBVIOUS
<1>1. ASSUME NEW p \in Producers, AddMessage(p) PROVE Numbered' /\ Ordered'
  BY <1>1, OrderAfterAdd
<1>2. CASE ScanHit
  BY <1>2, OrderAfterTake DEF ScanHit
<1>3. CASE TryGetMessage
  BY <1>3, OrderAfterTake DEF TryGetMessage
<1>4. ASSUME UNCHANGED <<messages, received, sent>> PROVE Numbered' /\ Ordered'
  BY <1>4 DEF Numbered, Ordered
<1> QED
  BY <1>1, <1>2, <1>3, <1>4
     DEF Next, OwnerStep, SetNewMessageEvent, GetMessage, ScanMiss, CheckElapsed,
         WaitForEvent, ResumeFromEvent, TimeOut, SpuriousWakeup, vars

(* However requests for one id and for any id alternate, GetMessage returns *)
(* the messages of one id in the order they were added, and none past an    *)
(* older quit message (MessageQueue::GetMessageFromQueue).                  *)
THEOREM ReturnsInOrder == Spec => []OrderKept
<1>1. Init => Numbered /\ Ordered
  BY DEF Init, Numbered, Ordered
<1>2. TypeOK /\ Numbered /\ Ordered /\ [Next]_vars => Numbered' /\ Ordered'
  BY OrderNext
<1>3. TypeOK /\ Ordered => OrderKept
  <2> SUFFICES ASSUME TypeOK, Ordered PROVE OrderKept
    OBVIOUS
  <2>1. DOMAIN messages = 1 .. Len(messages) /\ DOMAIN received = 1 .. Len(received)
    BY DEF TypeOK
  <2> QED
    BY <2>1 DEF Ordered, OrderKept
<1> QED
  BY <1>1, <1>2, <1>3, TypeCorrect, PTL DEF Spec
-----------------------------------------------------------------------------
(* No message is lost and none is returned twice. *)

Accounted ==
    /\ Len(messages) + Len(received) = sent
    /\ \A k \in 1 .. sent :
          \/ \E i \in 1 .. Len(messages) : messages[i].no = k
          \/ \E i \in 1 .. Len(received) : received[i].no = k

LEMMA AccountedNext ==
    TypeOK /\ Accounted /\ [Next]_vars => Accounted'
<1> SUFFICES ASSUME TypeOK, Accounted, [Next]_vars
             PROVE  Accounted'
  OBVIOUS
<1> DEFINE n == Len(messages)
           l == Len(received)
<1>0. /\ messages \in Seq(Message) /\ received \in Seq(Message)
      /\ n \in Nat /\ l \in Nat /\ sent \in Nat
  BY DEF TypeOK
<1>1. ASSUME NEW p \in Producers, AddMessage(p) PROVE Accounted'
  <2>1. PICK id \in MessageIds :
            messages' = Append(messages, [id |-> id, no |-> sent + 1])
    BY <1>1 DEF AddMessage
  <2>2. /\ Len(messages') = n + 1
        /\ \A i \in 1 .. n : messages'[i] = messages[i]
        /\ messages'[n + 1].no = sent + 1
    BY <1>0, <2>1
  <2>3. sent' = sent + 1 /\ received' = received
    BY <1>1 DEF AddMessage
  <2> HIDE DEF n, l
  <2>4. ASSUME NEW k \in 1 .. sent + 1
        PROVE  \/ \E i \in 1 .. n + 1 : messages'[i].no = k
               \/ \E i \in 1 .. l : received[i].no = k
    <3>1. CASE k = sent + 1
      <4>1. n + 1 \in 1 .. n + 1
        BY <1>0
      <4> QED
        BY <2>2, <3>1, <4>1
    <3>2. CASE k \in 1 .. sent
      <4>1. CASE \E i \in 1 .. n : messages[i].no = k
        <5>1. PICK i \in 1 .. n : messages[i].no = k
          BY <4>1
        <5>2. i \in 1 .. n + 1
          BY <1>0
        <5> QED
          BY <2>2, <5>1, <5>2
      <4> QED
        BY <3>2, <4>1 DEF Accounted, n, l
    <3> QED
      BY <1>0, <3>1, <3>2
  <2>5. Len(messages') + Len(received') = sent'
    BY <1>0, <2>2, <2>3 DEF Accounted, n, l
  <2>6. Len(received') = l
    BY <2>3 DEF l
  <2>7. \A k \in 1 .. sent' :
           \/ \E i \in 1 .. Len(messages') : messages'[i].no = k
           \/ \E i \in 1 .. Len(received') : received'[i].no = k
    BY <2>2, <2>3, <2>4, <2>6, Zenon
  <2> QED
    BY <2>5, <2>7, Zenon DEF Accounted
<1>2. ASSUME NEW ids, TakeFirst(ids), sent' = sent PROVE Accounted'
  <2>1. PICK h \in 1 .. n :
            /\ messages[h] \in Message
            /\ messages' = RemoveAt(messages, h)
            /\ received' = Append(received, messages[h])
    BY <1>2, TakeFirstParts
  <2>2. /\ Len(messages') = n - 1
        /\ \A j \in 1 .. n - 1 :
              messages'[j] = IF j < h THEN messages[j] ELSE messages[j + 1]
    BY <1>0, <2>1, RemoveAtParts
  <2>3. /\ Len(received') = l + 1
        /\ \A i \in 1 .. l : received'[i] = received[i]
        /\ received'[l + 1] = messages[h]
    BY <1>0, <2>1
  <2> HIDE DEF n, l
  <2>4. ASSUME NEW k \in 1 .. sent
        PROVE  \/ \E i \in 1 .. n - 1 : messages'[i].no = k
               \/ \E i \in 1 .. l + 1 : received'[i].no = k
    <3>1. CASE \E i \in 1 .. l : received[i].no = k
      <4>1. PICK i \in 1 .. l : received[i].no = k
        BY <3>1
      <4>2. i \in 1 .. l + 1
        BY <1>0
      <4> QED
        BY <2>3, <4>1, <4>2
    <3>2. CASE \E i \in 1 .. n : messages[i].no = k
      <4>1. PICK i \in 1 .. n : messages[i].no = k
        BY <3>2
      <4>2. CASE i = h
        <5>1. l + 1 \in 1 .. l + 1
          BY <1>0
        <5> QED
          BY <2>3, <4>1, <4>2, <5>1
      <4>3. CASE i < h
        <5>1. i \in 1 .. n - 1
          BY <1>0, <4>3
        <5> QED
          BY <2>2, <4>1, <4>3, <5>1
      <4>4. CASE i > h
        <5>1. i - 1 \in 1 .. n - 1 /\ ~(i - 1 < h) /\ i - 1 + 1 = i
          BY <1>0, <4>4
        <5>2. messages'[i - 1] = messages[i]
          BY <2>2, <5>1
        <5> QED
          BY <4>1, <5>1, <5>2
      <4> QED
        BY <1>0, <4>2, <4>3, <4>4
    <3> QED
      BY <3>1, <3>2 DEF Accounted, n, l
  <2>5. Len(messages') + Len(received') = sent'
    <3>1. n + l = sent
      BY DEF Accounted, n, l
    <3> QED
      BY <1>0, <1>2, <2>2, <2>3, <3>1
  <2>6. \A k \in 1 .. sent' :
          \/ \E i \in 1 .. Len(messages') : messages'[i].no = k
          \/ \E i \in 1 .. Len(received') : received'[i].no = k
    BY <1>2, <2>2, <2>3, <2>4
  <2> QED
    BY <2>5, <2>6 DEF Accounted
<1>3. ASSUME UNCHANGED <<messages, received, sent>> PROVE Accounted'
  BY <1>3 DEF Accounted
<1> QED
  BY <1>1, <1>2, <1>3
     DEF Next, OwnerStep, ScanHit, TryGetMessage, SetNewMessageEvent, GetMessage, ScanMiss,
         CheckElapsed, WaitForEvent, ResumeFromEvent, TimeOut, SpuriousWakeup, vars

(* The queue and what GetMessage returned hold as many messages as were     *)
(* added, with the numbers of exactly those: none is lost or doubled.       *)
LEMMA AccountedIsExact ==
    ASSUME TypeOK, Numbered, Accounted
    PROVE  NoneLostNoneTwice
<1> DEFINE all == messages \o received
           n == Len(messages)
           l == Len(received)
<1>0. /\ messages \in Seq(Message) /\ received \in Seq(Message)
      /\ n \in Nat /\ l \in Nat /\ sent \in Nat
  BY DEF TypeOK
<1>1. /\ Len(all) = n + l
      /\ DOMAIN all = 1 .. n + l
      /\ \A i \in 1 .. n : all[i] = messages[i]
      /\ \A i \in 1 .. l : all[n + i] = received[i]
  BY <1>0
<1>2. /\ \A i \in 1 .. n : messages[i].no \in 1 .. sent
      /\ \A i \in 1 .. l : received[i].no \in 1 .. sent
  <2>1. ASSUME NEW s \in Seq(Message), NEW i \in 1 .. Len(s), s[i].no <= sent
        PROVE  s[i].no \in 1 .. sent
    <3>1. s[i] \in Message
      OBVIOUS
    <3>2. s[i].no \in 1 .. MaxMessages
      BY <3>1 DEF Message
    <3> QED
      BY <1>0, <2>1, <3>2, QueueAssumption
  <2> QED
    BY <1>0, <2>1 DEF Numbered
<1> HIDE DEF n, l, all
<1>3. ASSUME NEW i \in 1 .. n + l PROVE all[i].no \in 1 .. sent
  <2>1. CASE i \in 1 .. n
    BY <1>1, <1>2, <2>1
  <2>2. CASE i > n
    <3>1. i - n \in 1 .. l /\ n + (i - n) = i
      BY <1>0, <2>2
    <3>2. all[i] = received[i - n]
      BY <1>1, <3>1
    <3> QED
      BY <1>2, <3>1, <3>2
  <2> QED
    BY <1>0, <2>1, <2>2
<1>4. ASSUME NEW k \in 1 .. sent PROVE \E i \in 1 .. n + l : all[i].no = k
  <2>1. CASE \E i \in 1 .. n : messages[i].no = k
    <3>1. PICK i \in 1 .. n : messages[i].no = k
      BY <2>1
    <3>2. i \in 1 .. n + l
      BY <1>0
    <3> QED
      BY <1>1, <3>1, <3>2
  <2>2. CASE \E i \in 1 .. l : received[i].no = k
    <3>1. PICK i \in 1 .. l : received[i].no = k
      BY <2>2
    <3>2. n + i \in 1 .. n + l
      BY <1>0
    <3> QED
      BY <1>1, <3>1, <3>2
  <2> QED
    BY <2>1, <2>2 DEF Accounted, n, l
<1>5. Len(all) = sent
  BY <1>1 DEF Accounted, n, l
<1>6. {all[i].no : i \in DOMAIN all} = 1 .. sent
  BY <1>1, <1>3, <1>4
<1> QED
  BY <1>5, <1>6 DEF NoneLostNoneTwice, all

(* Every message that was added is in the queue or was returned, once      *)
(* (MessageQueue::AddMessage, GetMessageFromQueue).                        *)
THEOREM ReturnsEachOnce == Spec => []NoneLostNoneTwice
<1>1. Init => Numbered /\ Ordered /\ Accounted
  BY DEF Init, Numbered, Ordered, Accounted
<1>2. TypeOK /\ Numbered /\ Ordered /\ [Next]_vars => Numbered' /\ Ordered'
  BY OrderNext
<1>3. TypeOK /\ Accounted /\ [Next]_vars => Accounted'
  BY AccountedNext
<1>4. TypeOK /\ Numbered /\ Accounted => NoneLostNoneTwice
  BY AccountedIsExact
<1> QED
  BY <1>1, <1>2, <1>3, <1>4, TypeCorrect, PTL DEF Spec
-----------------------------------------------------------------------------
(* The queue is a mailbox. *)

(* Only a request with a timeout looks at the clock. *)
ElapsedIsTimed == pc = "elapsed" => timed

LEMMA TimedNext == ElapsedIsTimed /\ [Next]_vars => ElapsedIsTimed'
BY DEF ElapsedIsTimed, Next, OwnerStep, AddMessage, SetNewMessageEvent, GetMessage, TryGetMessage,
       ScanHit, ScanMiss, CheckElapsed, WaitForEvent, ResumeFromEvent, TimeOut, SpuriousWakeup, vars

LEMMA TakingIsHandingOver ==
    ASSUME NEW ids, TakeFirst(ids)
    PROVE  Box!HandOver(ids)
<1>1. Hits(ids) = Box!Wanted(ids)
  BY DEF Hits, Matches, Box!Wanted
<1> QED
  BY <1>1 DEF TakeFirst, Box!HandOver, RemoveAt, Box!RemoveAt

(* Every step of the queue is one step of the mailbox, or none. *)
LEMMA QueueStep == ElapsedIsTimed /\ [Next]_vars => [Box!Next]_Box!vars
<1> SUFFICES ASSUME ElapsedIsTimed, [Next]_vars
             PROVE  Box!Next \/ UNCHANGED Box!vars
  OBVIOUS
<1> USE DEF Box!Next, Box!vars
<1>1. ASSUME NEW p \in Producers, AddMessage(p) PROVE Box!Send
  BY <1>1 DEF AddMessage, Request, Box!Send
<1>2. CASE GetMessage
  <2>1. Request = {} /\ Request' = {[ids |-> filter', timed |-> timed']}
    BY <1>2 DEF GetMessage, Request
  <2>2. Box!Ask
    BY <1>2, <2>1 DEF GetMessage, Box!Ask
  <2> QED
    BY <2>2
<1>3. CASE ScanHit
  <2>1. Request = {[ids |-> filter, timed |-> timed]} /\ Request' = {}
    BY <1>3 DEF ScanHit, Request
  <2>2. Box!HandOver(filter) /\ sent' = sent
    BY <1>3, TakingIsHandingOver DEF ScanHit
  <2>3. Box!Answer
    BY <2>1, <2>2 DEF Box!Answer
  <2> QED
    BY <2>3
<1>4. CASE CheckElapsed
  <2>1. CASE pc' = "idle"
    <3>1. Request = {[ids |-> filter, timed |-> timed]} /\ Request' = {} /\ timed
      BY <1>4, <2>1 DEF CheckElapsed, Request, ElapsedIsTimed
    <3>2. Box!GiveUp
      BY <1>4, <3>1 DEF CheckElapsed, Box!GiveUp
    <3> QED
      BY <3>2
  <2>2. CASE pc' = "wait"
    BY <1>4, <2>2 DEF CheckElapsed, Request
  <2> QED
    BY <1>4, <2>1, <2>2 DEF CheckElapsed
<1>5. CASE TryGetMessage
  <2>1. Request = {} /\ Request' = {}
    BY <1>5 DEF TryGetMessage, Request
  <2>2. Box!Poll
    BY <1>5, <2>1, TakingIsHandingOver DEF TryGetMessage, Box!Poll
  <2> QED
    BY <2>2
<1>6. ASSUME NEW p \in Producers, SetNewMessageEvent(p) PROVE UNCHANGED Box!vars
  BY <1>6 DEF SetNewMessageEvent, Request
<1>7. CASE ScanMiss
  BY <1>7 DEF ScanMiss, Request
<1>8. CASE WaitForEvent
  BY <1>8 DEF WaitForEvent, Request
<1>9. CASE ResumeFromEvent
  BY <1>9 DEF ResumeFromEvent, Request
<1>10. CASE TimeOut
  BY <1>10 DEF TimeOut, Request
<1>11. CASE SpuriousWakeup
  BY <1>11 DEF SpuriousWakeup, Request
<1>12. CASE UNCHANGED vars
  BY <1>12 DEF vars, Request
<1> QED
  BY <1>1, <1>2, <1>3, <1>4, <1>5, <1>6, <1>7, <1>8, <1>9, <1>10, <1>11, <1>12
     DEF Next, OwnerStep

(* The queue with its event, lock and timeouts does nothing that a mailbox *)
(* would not do: the safety part of MailboxSpec.                           *)
THEOREM QueueIsAMailbox == Spec => Box!Spec
<1>1. Init => Box!Init /\ ElapsedIsTimed
  BY DEF Init, Box!Init, Request, ElapsedIsTimed
<1>2. ElapsedIsTimed /\ [Next]_vars => ElapsedIsTimed'
  BY TimedNext
<1>3. ElapsedIsTimed /\ [Next]_vars => [Box!Next]_Box!vars
  BY QueueStep
<1> QED
  BY <1>1, <1>2, <1>3, PTL DEF Spec, Box!Spec
-----------------------------------------------------------------------------
(* The times of a wait.  No timeout is Infinite and no time is in the      *)
(* upper half of the seconds, which time_t takes for times before 1970.    *)
TimesFit ==
    \A n \in Starts, t \in Timeouts :
        2 * (W!Nanos(n) + W!Nanos(t) + MaxTicks) < Wrap * NS

LEMMA TimeConstants ==
    /\ NS \in Nat /\ NS >= 2 /\ Wrap \in Nat /\ Wrap >= 2 /\ MaxTicks \in Nat
    /\ Timeouts \subseteq W!Times /\ Starts \subseteq W!Times
BY MCAssumption DEF W!TimeAssumption, W!TimedWaitAssumption

(* Products with a second. *)
LEMMA Products ==
    ASSUME NEW x \in Int, NEW y \in Int, NEW m \in Nat
    PROVE  /\ x * m \in Int
           /\ (x + y) * m = x * m + y * m /\ (x - y) * m = x * m - y * m
           /\ x + 1 <= y => x * m + m <= y * m
OBVIOUS

LEMMA Remainder ==
    ASSUME NEW m \in Nat \ {0}, NEW x \in Nat
    PROVE  /\ x < m => x % m = x
           /\ m <= x /\ x < 2 * m => x % m = x - m
OBVIOUS

(* A time as a number. *)
LEMMA TimeValue ==
    ASSUME NEW t \in W!Times
    PROVE  /\ t.s \in 0 .. Wrap - 1 /\ t.n \in 0 .. NS - 1
           /\ t.s * NS \in Nat
           /\ W!Nanos(t) = t.s * NS + t.n /\ W!Nanos(t) \in Nat
           /\ W!Nanos(t) < Wrap * NS
           /\ 2 * W!Nanos(t) < Wrap * NS => 2 * t.s < Wrap
<1>1. t.s \in 0 .. Wrap - 1 /\ t.n \in 0 .. NS - 1
  BY DEF W!Times
<1>2. t.s \in Int /\ NS \in Nat /\ Wrap \in Int /\ 2 * t.s \in Int
  BY <1>1, TimeConstants
<1>3. t.s * NS + NS <= Wrap * NS
  BY <1>1, <1>2, Products
<1>4. t.s * NS \in Nat
  BY <1>1, <1>2
<1>5. Wrap <= 2 * t.s => Wrap * NS <= 2 * (t.s * NS)
  BY <1>1, <1>2
<1> QED
  BY <1>1, <1>2, <1>3, <1>4, <1>5 DEF W!Nanos

LEMMA LessExact ==
    ASSUME NEW a \in W!Times, NEW b \in W!Times
    PROVE  W!Less(a, b) <=> W!Nanos(a) < W!Nanos(b)
<1>1. /\ a.s * NS + NS <= b.s * NS \/ ~(a.s + 1 <= b.s)
      /\ b.s * NS + NS <= a.s * NS \/ ~(b.s + 1 <= a.s)
  <2>1. a.s \in Int /\ b.s \in Int /\ NS \in Nat
    BY TimeValue, TimeConstants
  <2> QED
    BY <2>1, Products
<1> QED
  BY <1>1, TimeValue, TimeConstants DEF W!Less

LEMMA PlusExact ==
    ASSUME NEW a \in W!Times, NEW b \in W!Times
    PROVE  /\ W!Plus(a, b) \in W!Times
           /\ W!Nanos(W!Plus(a, b)) = (W!Nanos(a) + W!Nanos(b)) % (Wrap * NS)
           /\ W!Nanos(a) + W!Nanos(b) < Wrap * NS
                 => W!Nanos(W!Plus(a, b)) = W!Nanos(a) + W!Nanos(b)
<1> DEFINE carry == IF a.n + b.n >= NS THEN 1 ELSE 0
           seconds == a.s + b.s + carry
           n == a.n + b.n - carry * NS
           s == seconds % Wrap
           sum == W!Nanos(a) + W!Nanos(b)
<1>1. /\ a.s \in 0 .. Wrap - 1 /\ b.s \in 0 .. Wrap - 1
      /\ a.n \in 0 .. NS - 1 /\ b.n \in 0 .. NS - 1
      /\ W!Nanos(a) = a.s * NS + a.n /\ W!Nanos(b) = b.s * NS + b.n
      /\ a.s * NS \in Nat /\ b.s * NS \in Nat
  BY TimeValue
<1>2. /\ seconds \in Nat /\ seconds < 2 * Wrap /\ n \in 0 .. NS - 1
      /\ carry \in {0, 1} /\ n = a.n + b.n - carry * NS
  BY <1>1, TimeConstants
<1>3. W!Plus(a, b) = [s |-> s, n |-> n]
  <2>1. CASE a.n + b.n >= NS
    <3>1. a.s + b.s + 1 = seconds /\ a.n + b.n - NS = n
      BY <1>1, <2>1, TimeConstants
    <3> HIDE DEF seconds, n
    <3> QED
      BY <2>1, <3>1 DEF W!Plus
  <2>2. CASE ~(a.n + b.n >= NS)
    <3>1. a.s + b.s = seconds /\ a.n + b.n = n
      BY <1>1, <2>2, TimeConstants
    <3> HIDE DEF seconds, n
    <3> QED
      BY <2>2, <3>1 DEF W!Plus
  <2> QED
    BY <2>1, <2>2
<1>4. /\ seconds < Wrap => s = seconds
      /\ Wrap <= seconds => s = seconds - Wrap
  BY <1>2, TimeConstants, Remainder
<1>5. s \in 0 .. Wrap - 1
  BY <1>2, <1>4, TimeConstants
<1>6. W!Plus(a, b) \in W!Times
  BY <1>2, <1>3, <1>5 DEF W!Times
<1>7. W!Nanos(W!Plus(a, b)) = s * NS + n
  BY <1>3 DEF W!Nanos
<1>8. sum = seconds * NS + n /\ seconds * NS \in Nat
  <2>1. seconds * NS = a.s * NS + b.s * NS + carry * NS
    BY <1>1, <1>2, TimeConstants
  <2> QED
    BY <2>1, <1>1, <1>2, TimeConstants
<1>9. /\ seconds < Wrap => seconds * NS + NS <= Wrap * NS
      /\ Wrap <= seconds => (seconds - Wrap) * NS = seconds * NS - Wrap * NS
      /\ Wrap <= seconds => Wrap * NS <= seconds * NS
      /\ seconds * NS + NS <= 2 * (Wrap * NS)
      /\ Wrap * NS \in Nat \ {0}
  BY <1>2, TimeConstants
<1> HIDE DEF seconds, n, s
<1>10. CASE seconds < Wrap
  <2>1. sum < Wrap * NS /\ s * NS + n = sum /\ sum \in Nat
    BY <1>10, <1>2, <1>4, <1>8, <1>9, TimeConstants
  <2>2. sum % (Wrap * NS) = sum
    BY <2>1, <1>9, Remainder
  <2> QED
    BY <2>1, <2>2, <1>6, <1>7
<1>11. CASE Wrap <= seconds
  <2>1. /\ s * NS + n = sum - Wrap * NS /\ sum \in Nat
        /\ Wrap * NS <= sum /\ sum < 2 * (Wrap * NS)
    BY <1>11, <1>2, <1>4, <1>8, <1>9, TimeConstants
  <2>2. sum % (Wrap * NS) = sum - Wrap * NS
    BY <2>1, <1>9, Remainder
  <2>3. ~(sum < Wrap * NS)
    BY <2>1, <1>9
  <2> QED
    BY <2>1, <2>2, <2>3, <1>6, <1>7
<1> QED
  BY <1>2, <1>10, <1>11, TimeConstants

LEMMA MinusExact ==
    ASSUME NEW a \in W!Times, NEW b \in W!Times, 2 * b.s < Wrap
    PROVE  /\ W!Minus(a, b) \in W!Times
           /\ W!Underflows(a, b) <=> W!Nanos(a) < W!Nanos(b)
           /\ ~W!Underflows(a, b) => W!Nanos(W!Minus(a, b)) = W!Nanos(a) - W!Nanos(b)
<1> DEFINE borrow == W!Borrow(a, b)
           n == a.n + borrow * NS - b.n
           s == a.s - b.s - borrow
<1>1. /\ a.s \in 0 .. Wrap - 1 /\ b.s \in 0 .. Wrap - 1
      /\ a.n \in 0 .. NS - 1 /\ b.n \in 0 .. NS - 1
      /\ W!Nanos(a) = a.s * NS + a.n /\ W!Nanos(b) = b.s * NS + b.n
      /\ a.s * NS \in Nat /\ b.s * NS \in Nat
  BY TimeValue
<1>2. /\ borrow \in {0, 1} /\ n \in 0 .. NS - 1
      /\ borrow = 1 <=> a.n < b.n
      /\ n = a.n + borrow * NS - b.n
  BY <1>1, TimeConstants DEF W!Borrow
<1>3. b.s + borrow \in Nat /\ b.s + borrow < Wrap
  BY <1>1, <1>2, TimeConstants
<1>4. W!Underflows(a, b) <=> a.s < b.s + borrow
  BY <1>3, Remainder, TimeConstants DEF W!Underflows
<1>5. ~W!Underflows(a, b) => s \in 0 .. Wrap - 1
  BY <1>1, <1>2, <1>4, TimeConstants
<1>6. ~W!Underflows(a, b) => s % Wrap = s
  BY <1>5, Remainder, TimeConstants
<1>7. W!Minus(a, b) = [s |-> IF W!Underflows(a, b) THEN a.s ELSE s % Wrap, n |-> n]
  BY DEF W!Minus
<1>8. W!Minus(a, b) \in W!Times
  BY <1>1, <1>2, <1>5, <1>6, <1>7 DEF W!Times
<1>9. s * NS = a.s * NS - b.s * NS - borrow * NS
  BY <1>1, <1>2, TimeConstants
<1>10. /\ s + 1 <= 0 => s * NS + NS <= 0
       /\ 0 <= s => 0 <= s * NS
  BY <1>1, <1>2, TimeConstants
<1>11. s \in Int /\ s * NS \in Int /\ borrow * NS \in Int
  BY <1>1, <1>2, TimeConstants
<1>12. s * NS + n = W!Nanos(a) - W!Nanos(b)
  BY <1>1, <1>2, <1>9, <1>11, TimeConstants
<1>13. W!Underflows(a, b) <=> s + 1 <= 0
  BY <1>1, <1>2, <1>4
<1> HIDE DEF s, n
<1>14. s + 1 <= 0 <=> W!Nanos(a) < W!Nanos(b)
  BY <1>1, <1>2, <1>10, <1>11, <1>12, TimeConstants
<1>15. ~W!Underflows(a, b) => W!Nanos(W!Minus(a, b)) = s * NS + n
  BY <1>6, <1>7 DEF W!Nanos
<1> QED
  BY <1>8, <1>12, <1>13, <1>14, <1>15

(* No clock shows more than this while the call lasts. *)
Latest == W!Nanos(start_time) + W!Nanos(timeout) + MaxTicks

(* The clock has gone on by the ticks of the call, less the one it may be  *)
(* set back; the limit and the deadline are what is left, and when.        *)
TimeKept ==
    /\ W!TypeOK
    /\ start_time \in Starts /\ timeout \in Timeouts
    /\ W!Nanos(now) = W!Nanos(start_time) + passed - One(back)
    /\ W!Nanos(now) <= Latest
    /\ waitPC = "arm" =>
          /\ slept <= MaxTicks
          /\ W!Nanos(now) + W!Nanos(limit) <= W!Nanos(start_time) + W!Nanos(timeout) + slept
    /\ waitPC = "timed" =>
          /\ W!Nanos(deadline) <= Latest
          /\ W!Nanos(now) + W!Nanos(limit) <= W!Nanos(deadline) + slept
    /\ W!WaitsItsTime /\ W!MaximumTime

(* The times of a call are small enough to be added.                       *)
LEMMA TimesOfACall ==
    ASSUME TimesFit, TimeKept
    PROVE  /\ {W!Nanos(now), W!Nanos(start_time), W!Nanos(timeout), W!Nanos(limit),
               W!Nanos(deadline), Latest, passed, slept} \subseteq Nat
           /\ {now, start_time, timeout, limit, deadline} \subseteq W!Times
           /\ 2 * Latest < Wrap * NS /\ Wrap * NS \in Nat
           /\ slept <= passed /\ One(back) \in {0, 1}
           /\ \A t \in W!Times : W!Nanos(t) <= Latest => 2 * t.s < Wrap
<1>1. {now, start_time, timeout, limit, deadline} \subseteq W!Times
  BY DEF TimeKept, W!TypeOK
<1>2. {W!Nanos(now), W!Nanos(start_time), W!Nanos(timeout), W!Nanos(limit),
       W!Nanos(deadline)} \subseteq Nat
  BY <1>1, TimeValue
<1>3. {passed, slept} \subseteq Nat /\ slept <= passed /\ One(back) \in {0, 1}
  BY DEF TimeKept, W!TypeOK, One
<1>4. Latest \in Nat
  BY <1>2, TimeConstants DEF Latest
<1>5. 2 * Latest < Wrap * NS
  BY DEF TimeKept, TimesFit, Latest
<1>6. Wrap * NS \in Nat
  BY TimeConstants
<1>7. ASSUME NEW t \in W!Times, W!Nanos(t) <= Latest
      PROVE  2 * t.s < Wrap
  BY <1>4, <1>5, <1>6, <1>7, TimeValue
<1> QED
  BY <1>1, <1>2, <1>3, <1>4, <1>5, <1>6, <1>7

(* One nanosecond. *)
LEMMA OneNano == W!FromNanoSeconds(1) \in W!Times /\ W!Nanos(W!FromNanoSeconds(1)) = 1
<1>1. 1 \div NS = 0 /\ 1 % NS = 1
  BY TimeConstants
<1> QED
  BY <1>1, TimeConstants DEF W!FromNanoSeconds, W!Times, W!Nanos

LEMMA ZeroValue == W!Zero \in W!Times /\ W!Nanos(W!Zero) = 0
BY TimeConstants DEF W!Zero, W!Times, W!Nanos

LEMMA TimeKeptInit == TimesFit /\ W!Init => TimeKept
<1> SUFFICES ASSUME TimesFit, W!Init PROVE TimeKept
  OBVIOUS
<1>1. /\ now \in Starts /\ timeout \in Timeouts /\ start_time = now
      /\ limit = W!Zero /\ deadline = W!Zero /\ waitPC = "look" /\ result = "failed"
      /\ message = FALSE /\ passed = 0 /\ slept = 0 /\ back = FALSE
  BY DEF W!Init
<1>2. {now, timeout, start_time, limit, deadline} \subseteq W!Times
  BY <1>1, ZeroValue, TimeConstants
<1>3. W!TypeOK
  <2>1. /\ waitPC \in {"look", "since", "arm", "timed", "endless", "expired", "done"}
        /\ result \in {"failed", "received", "timeout", "thrown"}
        /\ message \in BOOLEAN /\ back \in BOOLEAN
    BY <1>1
  <2>2. passed \in Nat /\ slept \in 0 .. passed
    BY <1>1
  <2> QED
    BY <1>2, <2>1, <2>2 DEF W!TypeOK
<1>4. /\ W!Nanos(now) = W!Nanos(start_time) + passed - One(back)
      /\ W!Nanos(now) <= Latest
  BY <1>1, <1>2, TimeValue, TimeConstants DEF Latest, One
<1> QED
  BY <1>1, <1>3, <1>4 DEF TimeKept, W!WaitsItsTime, W!MaximumTime

(* Since: what is left of the timeout, if there is any. *)
LEMMA SinceKeeps == ASSUME TimesFit, TimeKept, W!Since PROVE TimeKept'
<1> DEFINE elapsed == W!Minus(now, start_time)
<1>1. /\ waitPC = "since"
      /\ UNCHANGED <<start_time, timeout, deadline, now, message, passed, back>>
      /\ \/ W!Underflows(now, start_time) /\ waitPC' = "done" /\ result' = "thrown"
            /\ UNCHANGED <<limit, slept>>
         \/ ~W!Underflows(now, start_time) /\ ~W!Less(elapsed, timeout)
            /\ waitPC' = "done" /\ result' = "timeout" /\ UNCHANGED <<limit, slept>>
         \/ /\ ~W!Underflows(now, start_time) /\ W!Less(elapsed, timeout)
            /\ limit' = W!Minus(timeout, elapsed) /\ slept' = 0
            /\ waitPC' = "arm" /\ UNCHANGED result
  BY DEF W!Since, W!Returns, W!SinceCall, W!call
<1>2. CASE waitPC' = "done"
  BY <1>1, <1>2 DEF TimeKept, W!TypeOK, W!WaitsItsTime, W!MaximumTime, Latest, W!Nanos, One
<1>3. CASE waitPC' = "arm"
  <2>1. /\ ~W!Underflows(now, start_time) /\ W!Less(elapsed, timeout)
        /\ limit' = W!Minus(timeout, elapsed) /\ slept' = 0 /\ UNCHANGED result
    BY <1>1, <1>3
  <2>2. 2 * start_time.s < Wrap
    BY TimesOfACall, TimeConstants DEF Latest
  <2>3. /\ elapsed \in W!Times
        /\ W!Nanos(elapsed) = W!Nanos(now) - W!Nanos(start_time)
    BY <2>1, <2>2, TimesOfACall, MinusExact
  <2>4. W!Nanos(elapsed) <= Latest
    BY <2>3, TimesOfACall DEF TimeKept
  <2>5. 2 * elapsed.s < Wrap
    BY <2>3, <2>4, TimesOfACall
  <2>6. W!Nanos(elapsed) < W!Nanos(timeout)
    BY <2>1, <2>3, TimesOfACall, LessExact
  <2> HIDE DEF elapsed
  <2>7. ~(W!Nanos(timeout) < W!Nanos(elapsed))
    BY <2>3, <2>6, TimeValue, TimesOfACall
  <2>8. /\ limit' \in W!Times
        /\ W!Nanos(limit') = W!Nanos(timeout) - W!Nanos(elapsed)
    BY <2>1, <2>3, <2>5, <2>7, TimesOfACall, MinusExact
  <2>9. W!TypeOK'
    BY <1>1, <1>3, <2>1, <2>8 DEF TimeKept, W!TypeOK
  <2>10. /\ W!Nanos(now)' = W!Nanos(now) /\ W!Nanos(timeout)' = W!Nanos(timeout)
         /\ W!Nanos(start_time)' = W!Nanos(start_time) /\ W!Nanos(limit)' = W!Nanos(limit')
         /\ Latest' = Latest /\ One(back)' = One(back)
    BY <1>1 DEF W!Nanos, Latest, One
  <2>11. ~back => passed = W!Nanos(elapsed)
    BY <2>3, TimesOfACall DEF TimeKept, One
  <2>12. W!MaximumTime'
    BY <1>1, <2>1, <2>3, <2>8, <2>10, <2>11, TimesOfACall DEF W!MaximumTime
  <2>13. /\ W!Nanos(now)' + W!Nanos(limit)' <= W!Nanos(start_time)' + W!Nanos(timeout)' + slept'
         /\ slept' <= MaxTicks
    BY <2>1, <2>3, <2>8, <2>10, TimesOfACall, TimeConstants
  <2> QED
    BY <1>1, <1>3, <2>1, <2>9, <2>10, <2>12, <2>13 DEF TimeKept, W!WaitsItsTime
<1> QED
  BY <1>1, <1>2, <1>3

(* TryWait: the deadline is as far away as the limit says. *)
LEMMA TryWaitKeeps == ASSUME TimesFit, TimeKept, W!TryWait PROVE TimeKept'
<1>1. /\ waitPC = "arm" /\ UNCHANGED <<start_time, timeout, result, limit, now, message, passed,
                                       slept, back>>
      /\ \/ waitPC' = "endless" /\ UNCHANGED deadline
         \/ waitPC' = "timed" /\ deadline' = W!Plus(now, limit)
  BY DEF W!TryWait, W!call, W!world
<1>2. /\ W!Nanos(now)' = W!Nanos(now) /\ W!Nanos(timeout)' = W!Nanos(timeout)
      /\ W!Nanos(start_time)' = W!Nanos(start_time) /\ W!Nanos(limit)' = W!Nanos(limit)
      /\ W!Nanos(deadline)' = W!Nanos(deadline') /\ Latest' = Latest /\ One(back)' = One(back)
  BY <1>1 DEF W!Nanos, Latest, One
<1>3. W!MaximumTime' /\ W!WaitsItsTime'
  BY <1>1, <1>2 DEF TimeKept, W!MaximumTime, W!WaitsItsTime
<1>4. CASE waitPC' = "endless"
  BY <1>1, <1>2, <1>3, <1>4 DEF TimeKept, W!TypeOK
<1>5. CASE waitPC' = "timed"
  <2>1. W!Nanos(now) + W!Nanos(limit) <= Latest /\ deadline' = W!Plus(now, limit)
    BY <1>1, <1>5, TimesOfACall, TimeConstants DEF TimeKept, Latest
  <2>2. W!Nanos(now) + W!Nanos(limit) < Wrap * NS
    BY <2>1, TimesOfACall
  <2>3. deadline' \in W!Times /\ W!Nanos(deadline') = W!Nanos(now) + W!Nanos(limit)
    BY <2>1, <2>2, TimesOfACall, PlusExact
  <2>4. W!TypeOK'
    BY <1>1, <1>5, <2>3 DEF TimeKept, W!TypeOK
  <2>5. /\ W!Nanos(deadline)' <= Latest'
        /\ W!Nanos(now)' + W!Nanos(limit)' <= W!Nanos(deadline)' + slept'
    BY <1>1, <1>2, <2>1, <2>3, TimesOfACall
  <2> QED
    BY <1>1, <1>2, <1>3, <1>5, <2>4, <2>5 DEF TimeKept
<1> QED
  BY <1>1, <1>4, <1>5

(* TimedOut: the clock shows the deadline. *)
LEMMA TimedOutKeeps == ASSUME TimesFit, TimeKept, W!TimedOut PROVE TimeKept'
<1>1. /\ waitPC = "timed" /\ waitPC' = "expired" /\ W!Reached(deadline)
      /\ UNCHANGED <<start_time, timeout, result, limit, deadline, now, message, passed,
                     slept, back>>
  BY DEF W!TimedOut, W!call, W!wait, W!world
<1>2. 2 * deadline.s < Wrap
  BY <1>1, TimesOfACall DEF TimeKept
<1>3. ~W!Less(now, deadline)
  BY <1>1, <1>2, TimesOfACall, TimeValue, TimeConstants DEF W!Reached
<1>4. W!Nanos(deadline) <= W!Nanos(now)
  BY <1>3, TimesOfACall, LessExact
<1>5. slept >= W!Nanos(limit)
  BY <1>1, <1>4, TimesOfACall DEF TimeKept
<1>6. W!WaitsItsTime'
  BY <1>1, <1>5 DEF W!WaitsItsTime, W!Nanos
<1>7. /\ W!Nanos(now)' = W!Nanos(now) /\ W!Nanos(start_time)' = W!Nanos(start_time)
      /\ Latest' = Latest /\ One(back)' = One(back)
  BY <1>1 DEF W!Nanos, Latest, One
<1> QED
  BY <1>1, <1>6, <1>7 DEF TimeKept, W!TypeOK, W!MaximumTime

(* The steps that only go on in the loop, and the message that comes. *)
LEMMA LookKeeps ==
    ASSUME TimeKept, waitPC' \in {"look", "since", "done"} \/ waitPC' = waitPC,
           result' \in {result, "received"}, message' \in BOOLEAN,
           UNCHANGED <<start_time, timeout, limit, deadline, now, passed, slept, back>>
    PROVE  TimeKept'
<1>1. /\ W!Nanos(now)' = W!Nanos(now) /\ W!Nanos(start_time)' = W!Nanos(start_time)
      /\ W!Nanos(timeout)' = W!Nanos(timeout) /\ W!Nanos(limit)' = W!Nanos(limit)
      /\ W!Nanos(deadline)' = W!Nanos(deadline)
      /\ Latest' = Latest /\ One(back)' = One(back)
  BY DEF W!Nanos, Latest, One
<1>2. W!TypeOK'
  BY DEF TimeKept, W!TypeOK
<1> QED
  BY <1>1, <1>2 DEF TimeKept, W!WaitsItsTime, W!MaximumTime

(* A tick of the clock. *)
LEMMA TickKeeps == ASSUME TimesFit, TimeKept, W!Tick PROVE TimeKept'
<1>1. /\ waitPC # "done"
      /\ passed < MaxTicks \/ (waitPC = "timed" /\ ~W!Reached(deadline))
      /\ now' = W!Plus(now, W!FromNanoSeconds(1))
      /\ passed' = passed + 1 /\ slept' = slept + 1
      /\ UNCHANGED <<start_time, timeout, limit, deadline, waitPC, result, message, back>>
  BY DEF W!Tick, W!call, W!wait
<1>2. W!Nanos(now) < Latest
  <2>1. CASE passed < MaxTicks
    BY <2>1, TimesOfACall, TimeConstants DEF TimeKept, Latest
  <2>2. CASE waitPC = "timed" /\ ~W!Reached(deadline)
    <3>1. W!Less(now, deadline)
      BY <2>2 DEF W!Reached
    <3>2. W!Nanos(now) < W!Nanos(deadline)
      BY <3>1, TimesOfACall, LessExact
    <3> QED
      BY <2>2, <3>2, TimesOfACall DEF TimeKept
  <2> QED
    BY <1>1, <2>1, <2>2
<1>3. W!Nanos(now) + 1 < Wrap * NS
  BY <1>2, TimesOfACall
<1>4. now' \in W!Times /\ W!Nanos(now') = W!Nanos(now) + 1
  BY <1>1, <1>3, OneNano, TimesOfACall, PlusExact
<1>5. /\ W!Nanos(now)' = W!Nanos(now) + 1 /\ W!Nanos(start_time)' = W!Nanos(start_time)
      /\ W!Nanos(timeout)' = W!Nanos(timeout) /\ W!Nanos(limit)' = W!Nanos(limit)
      /\ W!Nanos(deadline)' = W!Nanos(deadline)
      /\ Latest' = Latest /\ One(back)' = One(back)
  BY <1>1, <1>4 DEF W!Nanos, Latest, One
<1>6. W!TypeOK'
  BY <1>1, <1>4, TimesOfACall DEF TimeKept, W!TypeOK
<1>7. W!Nanos(now)' <= Latest' /\ W!Nanos(now)' = W!Nanos(start_time)' + passed' - One(back)'
  BY <1>1, <1>2, <1>5, TimesOfACall DEF TimeKept
<1>8. ASSUME waitPC' = "arm"
      PROVE  /\ slept' <= MaxTicks
             /\ W!Nanos(now)' + W!Nanos(limit)'
                   <= W!Nanos(start_time)' + W!Nanos(timeout)' + slept'
  BY <1>1, <1>5, <1>8, TimesOfACall, TimeConstants DEF TimeKept
<1>9. ASSUME waitPC' = "timed"
      PROVE  /\ W!Nanos(deadline)' <= Latest'
             /\ W!Nanos(now)' + W!Nanos(limit)' <= W!Nanos(deadline)' + slept'
  BY <1>1, <1>5, <1>9, TimesOfACall DEF TimeKept
<1>10. W!WaitsItsTime'
  BY <1>1, <1>5, TimesOfACall DEF TimeKept, W!WaitsItsTime
<1>11. W!MaximumTime'
  BY <1>1, <1>5, TimesOfACall DEF TimeKept, W!MaximumTime
<1> QED
  BY <1>1, <1>6, <1>7, <1>8, <1>9, <1>10, <1>11 DEF TimeKept

(* The clock is set back: the deadline is farther away. *)
LEMMA SetBackKeeps == ASSUME TimesFit, TimeKept, W!SetBack PROVE TimeKept'
<1>1. /\ ~back /\ back' = TRUE /\ now # W!Zero
      /\ now' = W!Minus(now, W!FromNanoSeconds(1))
      /\ UNCHANGED <<start_time, timeout, limit, deadline, waitPC, result, message, passed, slept>>
  BY DEF W!SetBack, W!call, W!wait
<1>2. W!Nanos(now) >= 1
  <2>1. now \in W!Times /\ W!Nanos(now) \in Nat
    BY TimesOfACall
  <2>2. W!Nanos(now) = 0 => now.s = 0 /\ now.n = 0
    <3>1. /\ now.s \in Nat /\ now.n \in Nat /\ W!Nanos(now) = now.s * NS + now.n
          /\ now.s * NS \in Nat /\ (0 + 1 <= now.s => 0 * NS + NS <= now.s * NS)
      BY <2>1, TimeValue, TimeConstants, Products
    <3> QED
      BY <3>1, TimeConstants
  <2>3. now.s = 0 /\ now.n = 0 => now = W!Zero
    BY <2>1 DEF W!Times, W!Zero
  <2> QED
    BY <1>1, <2>1, <2>2, <2>3
<1>3. 2 * W!FromNanoSeconds(1).s < Wrap
  BY TimeConstants DEF W!FromNanoSeconds
<1>4. now' \in W!Times /\ W!Nanos(now') = W!Nanos(now) - 1
  <2>1. ~(W!Nanos(now) < W!Nanos(W!FromNanoSeconds(1)))
    BY <1>2, OneNano, TimesOfACall
  <2> QED
    BY <1>1, <1>3, <2>1, OneNano, TimesOfACall, MinusExact
<1>5. /\ W!Nanos(now)' = W!Nanos(now) - 1 /\ W!Nanos(start_time)' = W!Nanos(start_time)
      /\ W!Nanos(timeout)' = W!Nanos(timeout) /\ W!Nanos(limit)' = W!Nanos(limit)
      /\ W!Nanos(deadline)' = W!Nanos(deadline)
      /\ Latest' = Latest /\ One(back) = 0 /\ One(back)' = 1
  BY <1>1, <1>4 DEF W!Nanos, Latest, One
<1>6. W!TypeOK'
  BY <1>1, <1>4 DEF TimeKept, W!TypeOK
<1>7. W!Nanos(now)' <= Latest' /\ W!Nanos(now)' = W!Nanos(start_time)' + passed' - One(back)'
  BY <1>1, <1>5, TimesOfACall DEF TimeKept
<1>8. ASSUME waitPC' = "arm"
      PROVE  /\ slept' <= MaxTicks
             /\ W!Nanos(now)' + W!Nanos(limit)'
                   <= W!Nanos(start_time)' + W!Nanos(timeout)' + slept'
  BY <1>1, <1>5, <1>8, TimesOfACall, TimeConstants DEF TimeKept
<1>9. ASSUME waitPC' = "timed"
      PROVE  /\ W!Nanos(deadline)' <= Latest'
             /\ W!Nanos(now)' + W!Nanos(limit)' <= W!Nanos(deadline)' + slept'
  BY <1>1, <1>5, <1>9, TimesOfACall DEF TimeKept
<1>10. W!WaitsItsTime' /\ W!MaximumTime'
  BY <1>1, <1>5 DEF TimeKept, W!WaitsItsTime, W!MaximumTime
<1> QED
  BY <1>1, <1>6, <1>7, <1>8, <1>9, <1>10 DEF TimeKept

LEMMA TimeKeptNext == TimesFit /\ TimeKept /\ [W!Next]_waitVars => TimeKept'
<1> SUFFICES ASSUME TimesFit, TimeKept, [W!Next]_waitVars PROVE TimeKept'
  OBVIOUS
<1> USE DEF W!call, W!wait, W!world
<1>1. CASE W!GetMessageFromQueue
  BY <1>1, LookKeeps DEF W!GetMessageFromQueue, W!Returns, TimeKept, W!TypeOK
<1>2. CASE W!Expired
  BY <1>2, LookKeeps DEF W!Expired, TimeKept, W!TypeOK
<1>3. CASE W!WakeUp
  BY <1>3, LookKeeps DEF W!WakeUp, TimeKept, W!TypeOK
<1>4. CASE W!Arrive
  BY <1>4, LookKeeps DEF W!Arrive
<1>5. CASE UNCHANGED waitVars
  BY <1>5, LookKeeps DEF waitVars, TimeKept, W!TypeOK
<1> QED
  BY <1>1, <1>2, <1>3, <1>4, <1>5, SinceKeeps, TryWaitKeeps, TimedOutKeeps, TickKeeps,
     SetBackKeeps DEF W!Next, W!Run

(* The operators of Time agree with numbers at any time the clock shows.   *)
LEMMA TimesAreExact == TimesFit /\ TimeKept => W!ArithmeticExact
<1> SUFFICES ASSUME TimesFit, TimeKept, NEW t \in W!Times
             PROVE  /\ {W!Plus(now, t), W!Minus(t, now)} \subseteq W!Times
                    /\ W!Nanos(W!Plus(now, t)) = (W!Nanos(now) + W!Nanos(t)) % (Wrap * NS)
                    /\ W!Underflows(t, now) <=> W!Nanos(t) < W!Nanos(now)
                    /\ ~W!Underflows(t, now)
                          => W!Nanos(W!Minus(t, now)) = W!Nanos(t) - W!Nanos(now)
                    /\ W!Less(now, t) <=> W!Nanos(now) < W!Nanos(t)
  BY DEF W!ArithmeticExact
<1>1. now \in W!Times /\ 2 * now.s < Wrap
  BY TimesOfACall DEF TimeKept
<1> QED
  BY <1>1, PlusExact, MinusExact, LessExact

(* TryWait of an event (TCMTEventPthread.cpp, TCMTConditionPthread.cpp)    *)
(* reports a timeout only after its time; GetMessage (TCMTMessageQueue.cpp)*)
(* gives it what is left of the caller's time, and the operators of Time   *)
(* compute it as numbers would.                                            *)
THEOREM WaitsAreInTime == TimesFit => (W!Spec => []WaitsItsTime)
<1> SUFFICES ASSUME TimesFit PROVE W!Spec => []WaitsItsTime
  OBVIOUS
<1>1. W!Init => TimeKept
  BY TimeKeptInit
<1>2. TimeKept /\ [W!Next]_W!vars => TimeKept'
  BY TimeKeptNext DEF waitVars, W!vars
<1>3. TimeKept => WaitsItsTime
  BY TimesAreExact DEF TimeKept, WaitsItsTime
<1> QED
  BY <1>1, <1>2, <1>3, PTL DEF W!Spec
-----------------------------------------------------------------------------
(* The clock.  Its system time never goes back; what of it the clock ran   *)
(* begins after the pauses so far, and no frame ends later.  While nobody  *)
(* sets the clock of the system, these are the times that have passed.     *)
ClockInv ==
    /\ m_running \in BOOLEAN
    /\ {systemNow, m_current_time, m_system_time, m_stop_start_time, m_frame_start_time,
        m_frame_end_time, m_simulation_time, m_simulation_offset_time, real, ran, backs}
          \subseteq Nat
    /\ m_simulation_time <= m_frame_end_time
    /\ m_running => m_frame_end_time + m_simulation_offset_time <= m_system_time
    /\ ~m_running => /\ m_frame_end_time + m_simulation_offset_time <= m_stop_start_time
                     /\ m_stop_start_time <= m_system_time
    /\ backs = 0 =>
          /\ m_current_time <= systemNow
          /\ m_system_time + (systemNow - m_current_time) = real
          /\ m_running => ran + m_simulation_offset_time = real
          /\ ~m_running => ran + m_simulation_offset_time = m_stop_start_time

(* What an Update does with the system time. *)
LEMMA UpdateAdds ==
    ASSUME ClockInv, K!Update
    PROVE  /\ UNCHANGED <<systemNow, backs, real, ran>> /\ m_current_time' = systemNow
           /\ m_system_time' \in Nat /\ m_system_time <= m_system_time'
           /\ backs = 0 => m_system_time' = real
<1>1. /\ UNCHANGED <<systemNow, backs, real, ran>> /\ m_current_time' = systemNow
      /\ m_system_time' = m_system_time + K!Elapsed
  BY DEF K!Update, K!TakesLast
<1>2. K!Elapsed \in Nat /\ (m_current_time <= systemNow => K!Elapsed = systemNow - m_current_time)
  BY DEF ClockInv, K!Elapsed
<1> QED
  BY <1>1, <1>2 DEF ClockInv

(* A frame begins where the last one ended. *)
LEMMA FrameBegins ==
    ASSUME ClockInv, K!BeginFrame
    PROVE  /\ ClockInv'
           /\ m_simulation_time <= m_simulation_time' /\ m_frame_end_time <= m_frame_end_time'
           /\ K!frame' # K!frame => m_frame_start_time' = m_frame_end_time
           /\ m_running /\ backs = 0 => m_frame_end_time' = ran
<1>1. /\ UNCHANGED <<systemNow, backs, real, ran>> /\ m_current_time' = systemNow
      /\ m_system_time' \in Nat /\ m_system_time <= m_system_time'
      /\ backs = 0 => m_system_time' = real
  BY UpdateAdds DEF K!BeginFrame
<1>2. UNCHANGED <<m_running, m_stop_start_time, m_simulation_offset_time>>
  BY DEF K!BeginFrame, K!running
<1>3. CASE m_running
  <2>1. /\ m_frame_start_time' = m_frame_end_time
        /\ m_frame_end_time' = m_system_time' - m_simulation_offset_time
        /\ m_simulation_time' = m_frame_start_time'
    BY <1>3 DEF K!BeginFrame
  <2> QED
    BY <1>1, <1>2, <1>3, <2>1 DEF ClockInv
<1>4. CASE ~m_running
  <2>1. UNCHANGED <<m_frame_start_time, m_frame_end_time, m_simulation_time>> /\ UNCHANGED K!frame
    BY <1>4 DEF K!BeginFrame, K!frame
  <2> QED
    BY <1>1, <1>2, <1>4, <2>1 DEF ClockInv
<1> QED
  BY <1>3, <1>4

(* All other calls but Reset leave the frame as it is. *)
LEMMA OthersKeepTheFrame ==
    ASSUME ClockInv,
           K!Start \/ K!Stop \/ K!GetSystem \/ K!Tick \/ K!SetBack \/ UNCHANGED clockVars
    PROVE  /\ ClockInv'
           /\ UNCHANGED <<m_frame_start_time, m_frame_end_time, m_simulation_time>>
<1> USE DEF K!frame, K!running
<1>1. ASSUME K!Start \/ K!Stop \/ K!GetSystem
      PROVE  /\ UNCHANGED <<systemNow, backs, real, ran>> /\ m_current_time' = systemNow
             /\ m_system_time' \in Nat /\ m_system_time <= m_system_time'
             /\ backs = 0 => m_system_time' = real
  BY <1>1, UpdateAdds DEF K!Start, K!Stop, K!GetSystem
<1>2. CASE K!Start
  BY <1>1, <1>2 DEF ClockInv, K!Start, K!Pause
<1>3. CASE K!Stop
  <2>1. /\ m_running /\ ~m_running' /\ m_running' \in BOOLEAN
        /\ m_stop_start_time' = m_system_time'
        /\ UNCHANGED <<m_frame_start_time, m_frame_end_time, m_simulation_time,
                       m_simulation_offset_time>>
    BY <1>3 DEF K!Stop
  <2>2. /\ {systemNow, m_frame_start_time, m_frame_end_time, m_simulation_time,
            m_simulation_offset_time, real, ran, backs} \subseteq Nat
        /\ m_simulation_time <= m_frame_end_time
        /\ m_frame_end_time + m_simulation_offset_time <= m_system_time /\ m_system_time \in Nat
        /\ backs = 0 => ran + m_simulation_offset_time = real
    BY <2>1 DEF ClockInv
  <2>3. /\ m_frame_end_time' + m_simulation_offset_time' <= m_stop_start_time'
        /\ backs' = 0 => /\ m_system_time' + (systemNow' - m_current_time') = real'
                         /\ ran' + m_simulation_offset_time' = m_stop_start_time'
                         /\ m_current_time' <= systemNow'
    BY <1>1, <1>3, <2>1, <2>2
  <2> QED
    BY <1>1, <1>3, <2>1, <2>2, <2>3 DEF ClockInv
<1>4. CASE K!GetSystem
  BY <1>1, <1>4 DEF ClockInv, K!GetSystem
<1>5. CASE K!Tick
  BY <1>5 DEF ClockInv, K!Tick
<1>6. CASE K!SetBack
  BY <1>6 DEF ClockInv, K!SetBack
<1>7. CASE UNCHANGED clockVars
  BY <1>7 DEF ClockInv, clockVars
<1> QED
  BY <1>2, <1>3, <1>4, <1>5, <1>6, <1>7

LEMMA ResetKeeps == ASSUME ClockInv, K!Reset PROVE ClockInv'
<1>1. /\ m_running' = FALSE /\ m_current_time' = systemNow /\ systemNow' = systemNow
      /\ m_system_time' = 0 /\ m_stop_start_time' = 0 /\ m_frame_start_time' = 0
      /\ m_frame_end_time' = 0 /\ m_simulation_time' = 0 /\ m_simulation_offset_time' = 0
      /\ real' = 0 /\ ran' = 0 /\ backs' = backs
  BY DEF K!Reset
<1>2. systemNow \in Nat /\ backs \in Nat /\ systemNow - systemNow = 0
  BY DEF ClockInv
<1>3. {systemNow', m_current_time', m_system_time', m_stop_start_time', m_frame_start_time',
       m_frame_end_time', m_simulation_time', m_simulation_offset_time', real', ran', backs'}
          \subseteq Nat
  BY <1>1, <1>2
<1>4. /\ m_simulation_time' <= m_frame_end_time'
      /\ m_frame_end_time' + m_simulation_offset_time' <= m_stop_start_time'
      /\ m_stop_start_time' <= m_system_time' /\ m_current_time' <= systemNow'
      /\ m_system_time' + (systemNow' - m_current_time') = real'
      /\ ran' + m_simulation_offset_time' = m_stop_start_time'
  BY <1>1, <1>2
<1>5. ~m_running' /\ m_running' \in BOOLEAN
  BY <1>1
<1> QED
  BY <1>3, <1>4, <1>5, Zenon DEF ClockInv

(* Clock (TCClock.cpp): the frames follow each other without a gap and     *)
(* simulation time does not go back but by a Reset, also when the clock of *)
(* the system is set back; if it is not, the system time is real time and  *)
(* frames end at the time the clock was running.                           *)
THEOREM FramesAreInOrder == K!Spec => FramesFollow
<1>1. K!Init => ClockInv
  <2> SUFFICES ASSUME K!Init PROVE ClockInv
    OBVIOUS
  <2>1. /\ systemNow = 1 /\ m_running = FALSE /\ m_current_time = 1
        /\ m_system_time = 0 /\ m_stop_start_time = 0 /\ m_frame_start_time = 0
        /\ m_frame_end_time = 0 /\ m_simulation_time = 0 /\ m_simulation_offset_time = 0
        /\ real = 0 /\ ran = 0 /\ backs = 0
    BY DEF K!Init
  <2>2. {systemNow, m_current_time, m_system_time, m_stop_start_time, m_frame_start_time,
         m_frame_end_time, m_simulation_time, m_simulation_offset_time, real, ran, backs}
            \subseteq Nat
    BY <2>1
  <2>3. /\ m_simulation_time <= m_frame_end_time
        /\ m_frame_end_time + m_simulation_offset_time <= m_stop_start_time
        /\ m_stop_start_time <= m_system_time /\ m_current_time <= systemNow
        /\ m_system_time + (systemNow - m_current_time) = real
        /\ ran + m_simulation_offset_time = m_stop_start_time
    BY <2>1
  <2>4. ~m_running /\ m_running \in BOOLEAN
    BY <2>1
  <2> QED
    BY <2>2, <2>3, <2>4, Zenon DEF ClockInv
<1>2. ClockInv /\ [K!Next]_K!vars => ClockInv'
  BY FrameBegins, OthersKeepTheFrame, ResetKeeps DEF K!Next, K!vars, clockVars
<1>3. ClockInv => K!SystemIsReal
  BY DEF ClockInv, K!SystemIsReal
<1>4. ClockInv /\ [K!Next]_K!vars =>
        [K!Reset \/ (/\ m_simulation_time <= m_simulation_time'
                     /\ m_frame_end_time <= m_frame_end_time'
                     /\ K!frame' # K!frame => m_frame_start_time' = m_frame_end_time)]_K!vars
  <2> SUFFICES ASSUME ClockInv, [K!Next]_K!vars
               PROVE  \/ K!Reset \/ UNCHANGED K!vars
                      \/ /\ m_simulation_time <= m_simulation_time'
                         /\ m_frame_end_time <= m_frame_end_time'
                         /\ K!frame' # K!frame => m_frame_start_time' = m_frame_end_time
    OBVIOUS
  <2>1. CASE K!BeginFrame
    BY <2>1, FrameBegins
  <2>2. CASE K!Start \/ K!Stop \/ K!GetSystem \/ K!Tick \/ K!SetBack
    <3>1. UNCHANGED <<m_frame_start_time, m_frame_end_time, m_simulation_time>>
      BY <2>2, OthersKeepTheFrame
    <3> QED
      BY <3>1 DEF ClockInv, K!frame
  <2> QED
    BY <2>1, <2>2 DEF K!Next
<1>5. ClockInv /\ [K!Next]_K!vars =>
        [K!BeginFrame /\ m_running /\ backs = 0 => m_frame_end_time' = ran]_K!vars
  BY FrameBegins
<1> QED
  BY <1>1, <1>2, <1>3, <1>4, <1>5, PTL
     DEF K!Spec, FramesFollow, K!FramesFollow, K!FrameIsRunningTime
=============================================================================
