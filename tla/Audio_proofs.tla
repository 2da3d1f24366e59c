---------------------------- MODULE Audio_proofs -----------------------------
(***************************************************************************)
(* Proofs about the streaming thread, its task and sequences of sounds:    *)
(* answers are not lost and come in order, sources and buffers of OpenAL   *)
(* are given back once, no part of a sound data is left out, a sequence    *)
(* takes its bytes one after the other.                                    *)
(***************************************************************************)
EXTENDS MCAudio, OperatorLemmas

-----------------------------------------------------------------------------
(* The streaming thread.  Requests are numbered as they are sent, and the  *)
(* queue is first in, first out: what was answered, lost or taken is older *)
(* than all that is still in the queue.                                    *)
ThreadTypes ==
    /\ queue \in Seq([kind : Kinds, data : SoundData, from : Clients, no : Nat])
    /\ mailbox \in [Clients -> Seq([ok : BOOLEAN, no : Nat])]
    /\ sent \in Nat
    /\ call \in [Clients -> [kind : Kinds, sound : Sounds] \cup {NoCall}]
    /\ todo \in [Clients -> Seq(SoundData)]
    /\ \A c \in Clients : call[c] = NoCall => todo[c] = <<>>
    /\ waits \in [Clients -> Nat]
    /\ expired \in [Clients -> Nat]
    /\ taken \in [Clients -> Nat]
    /\ lost \in [Clients -> SUBSET Nat]
    /\ \A c \in Clients : IsFiniteSet(lost[c])

QueueAscends ==
    /\ \A i \in 1 .. Len(queue) : queue[i].no <= sent
    /\ \A i, j \in 1 .. Len(queue) : i < j => queue[i].no < queue[j].no

DoneIsOlder ==
    \A c \in Clients :
        /\ taken[c] <= sent
        /\ \A i \in 1 .. Len(queue) : taken[c] < queue[i].no
        /\ \A n \in lost[c] : n <= sent
        /\ \A n \in lost[c], i \in 1 .. Len(queue) : n < queue[i].no
        /\ \A j \in 1 .. Len(mailbox[c]) : mailbox[c][j].no <= sent
        /\ \A j \in 1 .. Len(mailbox[c]), i \in 1 .. Len(queue) :
              mailbox[c][j].no < queue[i].no

MailboxAscends ==
    \A c \in Clients :
        /\ \A j \in 1 .. Len(mailbox[c]) : taken[c] < mailbox[c][j].no
        /\ \A i, j \in 1 .. Len(mailbox[c]) : i < j => mailbox[c][i].no < mailbox[c][j].no

ThreadInv == ThreadTypes /\ QueueAscends /\ DoneIsOlder /\ MailboxAscends /\ LateAnswersCounted

(* The requests of a client in a queue.                                    *)
Of(c, q) == {i \in 1 .. Len(q) : q[i].from = c}

LEMMA TailParts ==
    ASSUME NEW S, NEW s \in Seq(S), s # <<>>
    PROVE  /\ Tail(s) \in Seq(S) /\ Len(Tail(s)) = Len(s) - 1 /\ Len(s) \in Nat \ {0}
           /\ \A i \in 1 .. Len(s) - 1 : Tail(s)[i] = s[i + 1]
           /\ Head(s) = s[1] /\ s[1] \in S
           /\ Tail(s) = RemoveAt(s, 1)
<1>1. /\ Tail(s) \in Seq(S) /\ Len(Tail(s)) = Len(s) - 1 /\ Len(s) \in Nat \ {0}
      /\ \A i \in 1 .. Len(s) - 1 : Tail(s)[i] = s[i + 1]
  BY HeadTailProperties, LenProperties, EmptySeq
<1>2. 1 \in 1 .. Len(s) /\ Head(s) = s[1] /\ s[1] \in S
  BY <1>1
<1>3. /\ RemoveAt(s, 1) \in Seq(S)
      /\ Len(RemoveAt(s, 1)) = Len(s) - 1
      /\ \A i \in 1 .. Len(s) - 1 : RemoveAt(s, 1)[i] = IF i < 1 THEN s[i] ELSE s[i + 1]
  BY <1>2, RemoveAtParts
<1>4. Tail(s) = RemoveAt(s, 1)
  <2>1. \A i \in 1 .. Len(s) - 1 : RemoveAt(s, 1)[i] = s[i + 1]
    BY <1>1, <1>3
  <2> QED
    BY <1>1, <1>3, <2>1, SeqEqual
<1> QED
  BY <1>1, <1>2, <1>4

LEMMA OfQueue ==
    ASSUME NEW S, NEW q \in Seq(S), NEW c,
           \A r \in S : r.from \in Clients
    PROVE  /\ Cardinality(Of(c, q)) \in Nat
           /\ \A r \in S : Cardinality(Of(c, Append(q, r)))
                = IF r.from = c THEN Cardinality(Of(c, q)) + 1 ELSE Cardinality(Of(c, q))
           /\ q # <<>> => Cardinality(Of(c, Tail(q)))
                = IF q[1].from = c THEN Cardinality(Of(c, q)) - 1 ELSE Cardinality(Of(c, q))
<1> DEFINE f(p) == [i \in 1 .. Len(p) |-> p[i].from]
<1>1. ASSUME NEW p \in Seq(S)
      PROVE  /\ f(p) \in Seq(Clients) /\ Len(f(p)) = Len(p) /\ Of(c, p) = Places(f(p), c)
  <2>1. \A i \in 1 .. Len(p) : p[i] \in S
    BY ElementOfSeq
  <2>2. f(p) \in [1 .. Len(p) -> Clients] /\ Len(p) \in Nat
    BY <2>1
  <2>3. f(p) \in Seq(Clients) /\ Len(f(p)) = Len(p)
    BY <2>2
  <2>4. Places(f(p), c) = Of(c, p)
    BY <2>2 DEF Places, Of
  <2> QED
    BY <2>3, <2>4
<1>2. Cardinality(Of(c, q)) \in Nat
  BY <1>1, PlacesFinite
<1>3. ASSUME NEW r \in S
      PROVE  Cardinality(Of(c, Append(q, r)))
                = IF r.from = c THEN Cardinality(Of(c, q)) + 1 ELSE Cardinality(Of(c, q))
  <2>1. Append(q, r) \in Seq(S) /\ Len(Append(q, r)) = Len(q) + 1 /\ Len(q) \in Nat
    BY AppendProperties
  <2>2. f(Append(q, r)) = Append(f(q), r.from)
    <3>1. f(Append(q, r)) \in Seq(Clients) /\ Len(f(Append(q, r))) = Len(q) + 1
      BY <1>1, <2>1
    <3>2. /\ Append(f(q), r.from) \in Seq(Clients) /\ Len(Append(f(q), r.from)) = Len(q) + 1
      BY <1>1, AppendProperties
    <3>3. ASSUME NEW i \in 1 .. Len(q) + 1
          PROVE  f(Append(q, r))[i] = Append(f(q), r.from)[i]
      <4>1. CASE i = Len(q) + 1
        <5>1. Append(q, r)[i] = r
          BY <4>1
        <5>2. Append(f(q), r.from)[i] = r.from
          BY <1>1, <4>1
        <5>3. f(Append(q, r))[i] = Append(q, r)[i].from
          BY <2>1
        <5> QED
          BY <5>1, <5>2, <5>3
      <4>2. CASE i \in 1 .. Len(q)
        <5>1. Append(q, r)[i] = q[i]
          BY <4>2
        <5>2. Append(f(q), r.from)[i] = q[i].from
          BY <1>1, <4>2
        <5>3. f(Append(q, r))[i] = Append(q, r)[i].from
          BY <2>1
        <5> QED
          BY <5>1, <5>2, <5>3
      <4> QED
        BY <2>1, <4>1, <4>2
    <3> HIDE DEF f
    <3> QED
      BY <3>1, <3>2, <3>3, SeqEqual
  <2>3. Of(c, Append(q, r)) = Places(Append(f(q), r.from), c) /\ Of(c, q) = Places(f(q), c)
    BY <1>1, <2>1, <2>2
  <2>4. f(q) \in Seq(Clients) /\ r.from \in Clients
    BY <1>1
  <2> HIDE DEF f
  <2> QED
    BY <2>3, <2>4, PlacesAppend
<1>4. ASSUME q # <<>>
      PROVE  Cardinality(Of(c, Tail(q)))
                = IF q[1].from = c THEN Cardinality(Of(c, q)) - 1 ELSE Cardinality(Of(c, q))
  <2>1. /\ Tail(q) \in Seq(S) /\ Len(Tail(q)) = Len(q) - 1 /\ Len(q) \in Nat \ {0}
        /\ \A i \in 1 .. Len(q) - 1 : Tail(q)[i] = q[i + 1]
    BY <1>4, TailParts, Zenon
  <2>2. /\ 1 \in 1 .. Len(f(q)) /\ f(q) \in Seq(Clients) /\ f(q)[1] = q[1].from
    BY <1>1, <2>1
  <2>3. /\ RemoveAt(f(q), 1) \in Seq(Clients)
        /\ Len(RemoveAt(f(q), 1)) = Len(q) - 1
        /\ \A i \in 1 .. Len(q) - 1 : RemoveAt(f(q), 1)[i] = IF i < 1 THEN f(q)[i] ELSE f(q)[i + 1]
    <3>1. Len(f(q)) = Len(q)
      BY <1>1
    <3> HIDE DEF f
    <3> QED
      BY <2>2, <3>1, RemoveAtParts
  <2>4. f(Tail(q)) = RemoveAt(f(q), 1)
    <3>1. f(Tail(q)) \in Seq(Clients) /\ Len(f(Tail(q))) = Len(q) - 1
      BY <1>1, <2>1
    <3>2. ASSUME NEW i \in 1 .. Len(q) - 1
          PROVE  f(Tail(q))[i] = RemoveAt(f(q), 1)[i]
      <4>1. f(Tail(q))[i] = q[i + 1].from
        BY <2>1
      <4>2. f(q)[i + 1] = q[i + 1].from
        BY <2>1
      <4> HIDE DEF f
      <4> QED
        BY <2>1, <2>3, <4>1, <4>2
    <3> HIDE DEF f
    <3> QED
      BY <2>3, <3>1, <3>2, SeqEqual
  <2>5. Of(c, Tail(q)) = Places(RemoveAt(f(q), 1), c) /\ Of(c, q) = Places(f(q), c)
    BY <1>1, <2>1, <2>4
  <2> HIDE DEF f
  <2> QED
    BY <2>2, <2>5, PlacesRemoveAt
<1> QED
  BY <1>2, <1>3, <1>4

(* What leaves the queue at its front.                                     *)
LEMMA Dequeued ==
    ASSUME ThreadInv, queue # <<>>, queue' = Tail(queue), sent' = sent
    PROVE  /\ queue' \in Seq([kind : Kinds, data : SoundData, from : Clients, no : Nat])
           /\ QueueAscends'
           /\ queue[1] \in [kind : Kinds, data : SoundData, from : Clients, no : Nat]
           /\ queue[1].no <= sent
           /\ Len(queue) \in Nat \ {0} /\ Len(queue') = Len(queue) - 1
           /\ \A i \in 1 .. Len(queue') : queue'[i] = queue[i + 1] /\ i + 1 \in 1 .. Len(queue)
           /\ \A i \in 1 .. Len(queue') : queue[1].no < queue'[i].no
           /\ \A c \in Clients : Cardinality(Of(c, queue'))
                = IF queue[1].from = c THEN Cardinality(Of(c, queue)) - 1
                  ELSE Cardinality(Of(c, queue))
<1> DEFINE R == [kind : Kinds, data : SoundData, from : Clients, no : Nat]
<1>1. queue \in Seq(R) /\ QueueAscends /\ sent \in Nat
  BY DEF ThreadInv, ThreadTypes
<1>2. /\ queue' \in Seq(R) /\ Len(queue') = Len(queue) - 1 /\ Len(queue) \in Nat \ {0}
      /\ \A i \in 1 .. Len(queue) - 1 : queue'[i] = queue[i + 1]
      /\ queue[1] \in R
  BY <1>1, TailParts, Zenon
<1>3. \A r \in R : r.from \in Clients
  OBVIOUS
<1>4. \A c \in Clients : Cardinality(Of(c, queue'))
                = IF queue[1].from = c THEN Cardinality(Of(c, queue)) - 1
                  ELSE Cardinality(Of(c, queue))
  <2> HIDE DEF R
  <2> QED
    BY <1>1, <1>3, OfQueue
<1>5. \A i \in 1 .. Len(queue') : queue'[i] = queue[i + 1] /\ i + 1 \in 1 .. Len(queue)
  BY <1>2
<1>6. 1 \in 1 .. Len(queue)
  BY <1>2
<1> HIDE DEF R
<1>7. QueueAscends'
  <2>1. \A i \in 1 .. Len(queue') : queue'[i].no <= sent'
    BY <1>1, <1>5 DEF QueueAscends
  <2>2. ASSUME NEW i \in 1 .. Len(queue'), NEW j \in 1 .. Len(queue'), i < j
        PROVE  queue'[i].no < queue'[j].no
    <3>1. i + 1 < j + 1
      BY <2>2
    <3> QED
      BY <1>1, <1>5, <3>1 DEF QueueAscends
  <2> QED
    BY <2>1, <2>2 DEF QueueAscends
<1>8. ASSUME NEW i \in 1 .. Len(queue')
      PROVE  queue[1].no < queue'[i].no
  <2>1. 1 < i + 1 /\ i + 1 \in 1 .. Len(queue) /\ queue'[i] = queue[i + 1]
    BY <1>5
  <2> QED
    BY <1>1, <1>6, <2>1 DEF QueueAscends
<1>9. queue[1].no <= sent
  BY <1>1, <1>6 DEF QueueAscends
<1> QED
  BY <1>2, <1>4, <1>5, <1>7, <1>8, <1>9 DEF R

(* Nothing comes or goes, as far as the numbers are concerned.             *)
LEMMA NumbersStay ==
    ASSUME QueueAscends, DoneIsOlder, MailboxAscends, LateAnswersCounted,
           UNCHANGED <<queue, mailbox, waits, sent, lost, expired, taken>>
    PROVE  QueueAscends' /\ DoneIsOlder' /\ MailboxAscends' /\ LateAnswersCounted'
  BY Zenon DEF QueueAscends, DoneIsOlder, MailboxAscends, LateAnswersCounted

LEMMA SendKeepsThreadInv ==
    ASSUME ThreadInv, NEW c \in Clients, SendRequest(c)
    PROVE  ThreadInv'
<1> DEFINE R == [kind : Kinds, data : SoundData, from : Clients, no : Nat]
           r == [kind |-> call[c].kind, data |-> Head(todo[c]), from |-> c, no |-> sent + 1]
           n == Len(queue)
<1>1. /\ queue' = Append(queue, r) /\ sent' = sent + 1
      /\ todo' = [todo EXCEPT ![c] = Tail(@)] /\ todo[c] # <<>>
      /\ waits' = [waits EXCEPT ![c] = sent + 1] /\ waits[c] = 0
      /\ UNCHANGED <<mailbox, call, lost, expired, taken>>
  BY DEF SendRequest, history
<1>2. /\ queue \in Seq(R) /\ sent \in Nat /\ todo \in [Clients -> Seq(SoundData)]
      /\ call[c] \in [kind : Kinds, sound : Sounds]
      /\ waits \in [Clients -> Nat]
  BY <1>1 DEF ThreadInv, ThreadTypes
<1>3. Head(todo[c]) \in SoundData /\ Tail(todo[c]) \in Seq(SoundData)
  <2>1. todo[c] \in Seq(SoundData)
    BY <1>2
  <2> QED
    BY <1>1, <2>1, HeadTailProperties
<1>4. r \in R
  BY <1>2, <1>3
<1>5. /\ queue' \in Seq(R) /\ n \in Nat /\ Len(queue') = n + 1
      /\ \A i \in 1 .. n : queue'[i] = queue[i]
      /\ queue'[n + 1] = r /\ r.no = sent + 1
  <2> HIDE DEF R
  <2>1. queue' \in Seq(R) /\ n \in Nat /\ Len(queue') = n + 1
    BY <1>1, <1>2, <1>4, AppendProperties
  <2>2. \A i \in 1 .. n : queue'[i] = queue[i]
    BY <1>1, <1>2, <1>4, AppendProperties
  <2>3. queue'[n + 1] = r
    BY <1>1, <1>2, <1>4, AppendProperties
  <2> QED
    BY <2>1, <2>2, <2>3
<1>6. ASSUME NEW i \in 1 .. n + 1
      PROVE  \/ i \in 1 .. n /\ queue'[i] = queue[i]
             \/ i = n + 1 /\ queue'[i].no = sent + 1
  BY <1>5
<1>7. ThreadTypes'
  <2>1. /\ mailbox' \in [Clients -> Seq([ok : BOOLEAN, no : Nat])]
        /\ call' \in [Clients -> [kind : Kinds, sound : Sounds] \cup {NoCall}]
        /\ expired' \in [Clients -> Nat] /\ taken' \in [Clients -> Nat]
        /\ lost' \in [Clients -> SUBSET Nat] /\ \A d \in Clients : IsFiniteSet(lost'[d])
    BY <1>1 DEF ThreadInv, ThreadTypes
  <2>2. sent' \in Nat /\ waits' \in [Clients -> Nat]
    BY <1>1, <1>2
  <2>3. todo' \in [Clients -> Seq(SoundData)]
    BY <1>1, <1>2, <1>3
  <2>4. \A d \in Clients : call'[d] = NoCall => todo'[d] = <<>>
    <3>1. call[c] # NoCall
      BY <1>1 DEF ThreadInv, ThreadTypes
    <3> QED
      BY <1>1, <3>1 DEF ThreadInv, ThreadTypes
  <2> QED
    BY <1>5, <2>1, <2>2, <2>3, <2>4 DEF ThreadTypes
<1>n. /\ \A i \in 1 .. n : queue[i].no \in Nat /\ queue[i].no <= sent
      /\ \A i, j \in 1 .. n : i < j => queue[i].no < queue[j].no
  <2>1. \A i \in 1 .. n : queue[i] \in R
    BY <1>2, ElementOfSeq, Zenon
  <2>2. \A i \in 1 .. n : queue[i].no \in Nat
    BY <2>1
  <2> QED
    BY <2>2, Zenon DEF ThreadInv, QueueAscends
<1>8. QueueAscends'
  <2>1. ASSUME NEW i \in 1 .. n + 1 PROVE queue'[i].no <= sent'
    BY <1>1, <1>2, <1>6, <1>n
  <2>2. ASSUME NEW i \in 1 .. n + 1, NEW j \in 1 .. n + 1, i < j
        PROVE  queue'[i].no < queue'[j].no
    <3>1. i \in 1 .. n /\ queue'[i] = queue[i]
      BY <1>5, <1>6, <2>2
    <3>2. queue[i].no \in Nat /\ queue[i].no <= sent
      BY <1>n, <3>1
    <3>3. CASE j \in 1 .. n /\ queue'[j] = queue[j]
      BY <1>n, <2>2, <3>1, <3>3, Zenon
    <3>4. CASE queue'[j].no = sent + 1
      <4>1. queue'[i].no = queue[i].no /\ sent \in Nat
        BY <1>2, <3>1
      <4> QED
        BY <3>2, <3>4, <4>1
    <3> QED
      BY <1>6, <3>3, <3>4, Zenon
  <2> QED
    BY <1>5, <2>1, <2>2 DEF QueueAscends
<1>9. DoneIsOlder'
  <2>0. DoneIsOlder /\ sent \in Nat /\ sent' = sent + 1
    BY <1>1, <1>2 DEF ThreadInv
  <2> SUFFICES ASSUME NEW d \in Clients
               PROVE  /\ taken[d] <= sent'
                      /\ \A i \in 1 .. n + 1 : taken[d] < queue'[i].no
                      /\ \A m \in lost[d] : m <= sent'
                      /\ \A m \in lost[d], i \in 1 .. n + 1 : m < queue'[i].no
                      /\ \A j \in 1 .. Len(mailbox[d]) : mailbox[d][j].no <= sent'
                      /\ \A j \in 1 .. Len(mailbox[d]), i \in 1 .. n + 1 :
                            mailbox[d][j].no < queue'[i].no
    <3>1. UNCHANGED <<mailbox, lost, taken>> /\ Len(queue') = n + 1
      BY <1>1, <1>5
    <3> QED
      BY <3>1, Zenon DEF DoneIsOlder
  <2>1. ASSUME NEW m \in Nat, m <= sent, \A i \in 1 .. n : m < queue[i].no
        PROVE  m <= sent' /\ \A i \in 1 .. n + 1 : m < queue'[i].no
    <3> HIDE DEF n, r, R
    <3> QED
      BY <1>6, <2>0, <2>1
  <2>2. taken[d] \in Nat /\ lost[d] \subseteq Nat
    BY DEF ThreadInv, ThreadTypes
  <2>3. \A j \in 1 .. Len(mailbox[d]) : mailbox[d][j].no \in Nat
    <3>1. mailbox[d] \in Seq([ok : BOOLEAN, no : Nat])
      BY DEF ThreadInv, ThreadTypes
    <3>2. \A j \in 1 .. Len(mailbox[d]) : mailbox[d][j] \in [ok : BOOLEAN, no : Nat]
      BY <3>1, ElementOfSeq, Zenon
    <3> QED
      BY <3>2
  <2> HIDE DEF n
  <2>4. taken[d] <= sent' /\ \A i \in 1 .. n + 1 : taken[d] < queue'[i].no
    BY <2>0, <2>1, <2>2 DEF DoneIsOlder, n
  <2>5. \A m \in lost[d] : m <= sent' /\ \A i \in 1 .. n + 1 : m < queue'[i].no
    BY <2>0, <2>1, <2>2 DEF DoneIsOlder, n
  <2>6. ASSUME NEW j \in 1 .. Len(mailbox[d])
        PROVE  mailbox[d][j].no <= sent' /\ \A i \in 1 .. n + 1 : mailbox[d][j].no < queue'[i].no
    BY <2>0, <2>1, <2>3 DEF DoneIsOlder, n
  <2> QED
    BY <2>4, <2>5, <2>6
<1>10. MailboxAscends'
  BY <1>1 DEF ThreadInv, MailboxAscends
<1>11. LateAnswersCounted'
  <2> SUFFICES ASSUME NEW d \in Clients
               PROVE  Len(mailbox[d]) + Cardinality(lost[d]) + Cardinality(Of(d, queue'))
                        = expired[d] + (IF waits'[d] = 0 THEN 0 ELSE 1)
    BY <1>1 DEF LateAnswersCounted, Of
  <2>1. /\ Cardinality(Of(d, queue)) \in Nat
        /\ Cardinality(Of(d, queue')) = IF c = d THEN Cardinality(Of(d, queue)) + 1
                                        ELSE Cardinality(Of(d, queue))
    <3>1. r.from = c /\ \A q \in R : q.from \in Clients
      OBVIOUS
    <3> HIDE DEF R, r
    <3> QED
      BY <1>1, <1>2, <1>4, <3>1, OfQueue
  <2>2. Len(mailbox[d]) + Cardinality(lost[d]) + Cardinality(Of(d, queue))
           = expired[d] + (IF waits[d] = 0 THEN 0 ELSE 1)
    BY DEF ThreadInv, LateAnswersCounted, Of
  <2>3. /\ Len(mailbox[d]) \in Nat /\ Cardinality(lost[d]) \in Nat /\ expired[d] \in Nat
    <3>1. /\ mailbox[d] \in Seq([ok : BOOLEAN, no : Nat]) /\ IsFiniteSet(lost[d])
          /\ expired[d] \in Nat
      BY DEF ThreadInv, ThreadTypes
    <3> QED
      BY <3>1, FS_CardinalityType
  <2>4. waits'[d] = IF d = c THEN sent + 1 ELSE waits[d]
    BY <1>1, <1>2
  <2> DEFINE k == Cardinality(Of(d, queue))
             l == Cardinality(Of(d, queue'))
             m == Len(mailbox[d])
             o == Cardinality(lost[d])
  <2> HIDE DEF k, l, m, o
  <2>5. k \in Nat /\ l = (IF c = d THEN k + 1 ELSE k) /\ m \in Nat /\ o \in Nat
        /\ m + o + k = expired[d] + (IF waits[d] = 0 THEN 0 ELSE 1)
    BY <2>1, <2>2, <2>3, Zenon DEF k, l, m, o
  <2>6. m + o + l = expired[d] + (IF waits'[d] = 0 THEN 0 ELSE 1)
    BY <1>1, <1>2, <2>3, <2>4, <2>5
  <2> QED
    BY <2>6 DEF k, l, m, o
<1> QED
  BY <1>7, <1>8, <1>9, <1>10, <1>11 DEF ThreadInv

LEMMA TakeKeepsThreadInv ==
    ASSUME ThreadInv, NEW c \in Clients, TakeAnswer(c)
    PROVE  /\ ThreadInv'
           /\ taken[c] < taken'[c]
<1> DEFINE M == [ok : BOOLEAN, no : Nat]
           m == mailbox[c]
<1>1. /\ waits[c] # 0 /\ waits' = [waits EXCEPT ![c] = 0] /\ m # <<>>
      /\ taken' = [taken EXCEPT ![c] = Head(m).no]
      /\ mailbox' = [mailbox EXCEPT ![c] = Tail(m)]
      /\ todo' = todo \/ todo' = [todo EXCEPT ![c] = <<>>]
      /\ UNCHANGED <<queue, call, sent, lost, expired>>
  BY Zenon DEF TakeAnswer
<1>2. /\ mailbox \in [Clients -> Seq(M)] /\ waits \in [Clients -> Nat]
      /\ taken \in [Clients -> Nat] /\ todo \in [Clients -> Seq(SoundData)] /\ sent \in Nat
  BY DEF ThreadInv, ThreadTypes
<1>3. m \in Seq(M)
  BY <1>2
<1>4. /\ Tail(m) \in Seq(M) /\ Len(Tail(m)) = Len(m) - 1 /\ Len(m) \in Nat \ {0}
      /\ \A i \in 1 .. Len(m) - 1 : Tail(m)[i] = m[i + 1]
      /\ Head(m) = m[1] /\ m[1] \in M
  <2> HIDE DEF m, M
  <2> QED
    BY <1>1, <1>3, TailParts, Zenon
<1>5. /\ mailbox'[c] = Tail(m) /\ taken'[c] = m[1].no /\ waits'[c] = 0
      /\ \A d \in Clients \ {c} : /\ mailbox'[d] = mailbox[d] /\ taken'[d] = taken[d]
                                  /\ waits'[d] = waits[d]
  BY <1>1, <1>2, <1>4
<1>6. 1 \in 1 .. Len(m) /\ \A i \in 1 .. Len(m) - 1 : i + 1 \in 1 .. Len(m) /\ 1 < i + 1
  BY <1>4
<1>7. ThreadTypes'
  <2>1. /\ mailbox' \in [Clients -> Seq(M)] /\ taken' \in [Clients -> Nat]
        /\ waits' \in [Clients -> Nat]
    BY <1>1, <1>2, <1>4
  <2>2. /\ todo' \in [Clients -> Seq(SoundData)]
        /\ \A d \in Clients : call'[d] = NoCall => todo'[d] = <<>>
    <3>1. CASE todo' = todo
      BY <1>1, <1>2, <3>1 DEF ThreadInv, ThreadTypes
    <3>2. CASE todo' = [todo EXCEPT ![c] = <<>>]
      <4>1. <<>> \in Seq(SoundData)
        BY EmptySeq
      <4> QED
        BY <1>1, <1>2, <3>2, <4>1 DEF ThreadInv, ThreadTypes
    <3> QED
      BY <1>1, <3>1, <3>2
  <2>3. UNCHANGED <<queue, call, sent, lost, expired>>
    BY <1>1
  <2> QED
    BY <2>1, <2>2, <2>3, Zenon DEF ThreadInv, ThreadTypes
<1>8. QueueAscends'
  BY <1>1 DEF ThreadInv, QueueAscends
<1> DEFINE n == Len(queue)
<1> HIDE DEF n, M
<1>9. DoneIsOlder'
  <2>0. DoneIsOlder /\ UNCHANGED <<queue, sent, lost>> /\ n = Len(queue)
    BY <1>1 DEF ThreadInv, n
  <2> SUFFICES ASSUME NEW d \in Clients
               PROVE  /\ taken'[d] <= sent
                      /\ \A i \in 1 .. n : taken'[d] < queue[i].no
                      /\ \A j \in 1 .. Len(mailbox'[d]) : mailbox'[d][j].no <= sent
                      /\ \A j \in 1 .. Len(mailbox'[d]), i \in 1 .. n :
                            mailbox'[d][j].no < queue[i].no
    BY <2>0, Zenon DEF DoneIsOlder
  <2>1. CASE d # c
    <3>1. mailbox'[d] = mailbox[d] /\ taken'[d] = taken[d]
      BY <1>5, <2>1
    <3>2. /\ taken[d] <= sent /\ \A i \in 1 .. n : taken[d] < queue[i].no
          /\ \A j \in 1 .. Len(mailbox[d]) : mailbox[d][j].no <= sent
          /\ \A j \in 1 .. Len(mailbox[d]), i \in 1 .. n : mailbox[d][j].no < queue[i].no
      BY <2>0, Zenon DEF DoneIsOlder
    <3> QED
      BY <3>1, <3>2, Zenon
  <2>2. CASE d = c
    <3>1. \A j \in 1 .. Len(m) : m[j].no <= sent /\ \A i \in 1 .. n : m[j].no < queue[i].no
      BY <2>0, Zenon DEF DoneIsOlder
    <3>2. \A j \in 1 .. Len(Tail(m)) : Tail(m)[j] = m[j + 1] /\ j + 1 \in 1 .. Len(m)
      <4> HIDE DEF m
      <4> QED
        BY <1>4, <1>6
    <3> HIDE DEF m
    <3>3. \A j \in 1 .. Len(Tail(m)) :
             Tail(m)[j].no <= sent /\ \A i \in 1 .. n : Tail(m)[j].no < queue[i].no
      BY <3>1, <3>2, Zenon
    <3>4. m[1].no <= sent /\ \A i \in 1 .. n : m[1].no < queue[i].no
      BY <1>6, <3>1, Zenon
    <3>5. mailbox'[d] = Tail(m) /\ taken'[d] = m[1].no
      BY <1>5, <2>2, Zenon
    <3> QED
      BY <3>3, <3>4, <3>5, Zenon
  <2> QED
    BY <2>1, <2>2
<1>10. MailboxAscends'
  <2>0. MailboxAscends
    BY DEF ThreadInv
  <2> SUFFICES ASSUME NEW d \in Clients
               PROVE  /\ \A j \in 1 .. Len(mailbox'[d]) : taken'[d] < mailbox'[d][j].no
                      /\ \A i, j \in 1 .. Len(mailbox'[d]) : i < j =>
                            mailbox'[d][i].no < mailbox'[d][j].no
    BY Zenon DEF MailboxAscends
  <2>1. CASE d # c
    BY <1>5, <2>0, <2>1, Zenon DEF MailboxAscends
  <2>2. CASE d = c
    <3>1. \A i, j \in 1 .. Len(m) : i < j => m[i].no < m[j].no
      BY <2>0, Zenon DEF MailboxAscends
    <3> HIDE DEF m
    <3>2. ASSUME NEW j \in 1 .. Len(m) - 1
          PROVE  m[1].no < Tail(m)[j].no
      BY <1>4, <1>6, <3>1
    <3>3. ASSUME NEW i \in 1 .. Len(m) - 1, NEW j \in 1 .. Len(m) - 1, i < j
          PROVE  Tail(m)[i].no < Tail(m)[j].no
      <4>1. i + 1 < j + 1 /\ i + 1 \in 1 .. Len(m) /\ j + 1 \in 1 .. Len(m)
        BY <1>4, <3>3
      <4> QED
        BY <1>4, <3>1, <4>1
    <3>4. mailbox'[d] = Tail(m) /\ taken'[d] = m[1].no /\ Len(Tail(m)) = Len(m) - 1
      BY <1>4, <1>5, <2>2, Zenon
    <3> QED
      BY <3>2, <3>3, <3>4, Zenon
  <2> QED
    BY <2>1, <2>2
<1>11. LateAnswersCounted'
  <2>0. UNCHANGED <<queue, lost, expired>>
    BY <1>1
  <2> SUFFICES ASSUME NEW d \in Clients
               PROVE  Len(mailbox'[d]) + Cardinality(lost[d]) + Cardinality(Of(d, queue))
                        = expired[d] + (IF waits'[d] = 0 THEN 0 ELSE 1)
    BY <2>0, Zenon DEF LateAnswersCounted, Of
  <2>1. Len(mailbox[d]) + Cardinality(lost[d]) + Cardinality(Of(d, queue))
           = expired[d] + (IF waits[d] = 0 THEN 0 ELSE 1)
    BY DEF ThreadInv, LateAnswersCounted, Of
  <2>2. CASE d # c
    BY <1>5, <2>1, <2>2
  <2>3. CASE d = c
    <3>1. /\ Cardinality(Of(d, queue)) \in Nat
      <4>1. \A r \in [kind : Kinds, data : SoundData, from : Clients, no : Nat] : r.from \in Clients
        OBVIOUS
      <4> QED
        BY <4>1, OfQueue DEF ThreadInv, ThreadTypes
    <3>2. Cardinality(lost[d]) \in Nat /\ expired[d] \in Nat
      BY FS_CardinalityType DEF ThreadInv, ThreadTypes
    <3>3. /\ mailbox'[d] = Tail(m) /\ waits'[d] = 0 /\ waits[d] # 0 /\ m = mailbox[d]
          /\ Len(m) \in Nat /\ Len(Tail(m)) = Len(m) - 1
      BY <1>1, <1>4, <1>5, <2>3, Zenon
    <3> DEFINE k == Cardinality(Of(d, queue))
               o == Cardinality(lost[d])
               l == Len(m)
               t == Len(Tail(m))
    <3>4. k \in Nat /\ o \in Nat /\ expired[d] \in Nat /\ l \in Nat /\ t = l - 1
      BY <3>1, <3>2, <3>3, Zenon
    <3>5. l + o + k = expired[d] + 1
      <4>1. l + o + k = expired[d] + (IF waits[d] = 0 THEN 0 ELSE 1)
        BY <2>1, <3>3, Zenon
      <4> HIDE DEF k, o, l
      <4> QED
        BY <3>3, <4>1
    <3>6. t + o + k = expired[d] + 0
      <4> HIDE DEF k, o, l, t
      <4> QED
        BY <3>4, <3>5
    <3> QED
      BY <3>3, <3>6
  <2> QED
    BY <2>2, <2>3
<1>12. taken[c] < taken'[c]
  BY <1>5, <1>6 DEF ThreadInv, MailboxAscends
<1> QED
  BY <1>7, <1>8, <1>9, <1>10, <1>11, <1>12 DEF ThreadInv

LEMMA TimeOutKeepsThreadInv ==
    ASSUME ThreadInv, NEW c \in Clients, TimeOut(c)
    PROVE  ThreadInv' /\ expired'[c] > expired[c]
<1>1. /\ waits[c] # 0 /\ waits' = [waits EXCEPT ![c] = 0]
      /\ todo' = [todo EXCEPT ![c] = <<>>]
      /\ expired' = [expired EXCEPT ![c] = expired[c] + 1]
      /\ UNCHANGED <<queue, mailbox, call, sent, lost, taken>>
  BY DEF TimeOut
<1>2. /\ waits \in [Clients -> Nat] /\ expired \in [Clients -> Nat]
      /\ todo \in [Clients -> Seq(SoundData)]
      /\ \A d \in Clients : call[d] = NoCall => todo[d] = <<>>
  BY DEF ThreadInv, ThreadTypes
<1>3. ThreadTypes'
  <2>1. /\ waits' \in [Clients -> Nat] /\ expired' \in [Clients -> Nat]
    BY <1>1, <1>2
  <2>2. todo' \in [Clients -> Seq(SoundData)]
    <3>1. <<>> \in Seq(SoundData)
      BY EmptySeq
    <3> QED
      BY <1>1, <1>2, <3>1
  <2>3. \A d \in Clients : call'[d] = NoCall => todo'[d] = <<>>
    BY <1>1, <1>2
  <2> QED
    BY <1>1, <2>1, <2>2, <2>3, Zenon DEF ThreadInv, ThreadTypes
<1>4. QueueAscends' /\ DoneIsOlder' /\ MailboxAscends'
  BY <1>1, Zenon DEF ThreadInv, QueueAscends, DoneIsOlder, MailboxAscends
<1>5. LateAnswersCounted'
  <2> SUFFICES ASSUME NEW d \in Clients
               PROVE  Len(mailbox[d]) + Cardinality(lost[d]) + Cardinality(Of(d, queue))
                        = expired'[d] + (IF waits'[d] = 0 THEN 0 ELSE 1)
    BY <1>1, Zenon DEF LateAnswersCounted, Of
  <2>1. Len(mailbox[d]) + Cardinality(lost[d]) + Cardinality(Of(d, queue))
           = expired[d] + (IF waits[d] = 0 THEN 0 ELSE 1)
    BY DEF ThreadInv, LateAnswersCounted, Of
  <2>2. expired[d] + (IF waits[d] = 0 THEN 0 ELSE 1)
          = expired'[d] + (IF waits'[d] = 0 THEN 0 ELSE 1)
    BY <1>1, <1>2
  <2> QED
    BY <2>1, <2>2, Zenon
<1> QED
  BY <1>1, <1>2, <1>3, <1>4, <1>5 DEF ThreadInv

(* An answer goes to the client whose request was first in the queue.      *)
LEMMA AnswerKeepsThreadInv ==
    ASSUME ThreadInv, queue # <<>>, queue' = Tail(queue), NEW ok \in BOOLEAN,
           Respond(queue[1], ok),
           UNCHANGED <<clientVars, sent, history>>
    PROVE  ThreadInv'
<1> DEFINE M == [ok : BOOLEAN, no : Nat]
           first == queue[1]
           c == first.from
           new == [ok |-> ok, no |-> first.no]
           n == Len(mailbox[c])
<1>1. /\ queue' \in Seq([kind : Kinds, data : SoundData, from : Clients, no : Nat])
      /\ QueueAscends'
      /\ first \in [kind : Kinds, data : SoundData, from : Clients, no : Nat]
      /\ first.no <= sent
      /\ Len(queue) \in Nat \ {0} /\ Len(queue') = Len(queue) - 1
      /\ \A i \in 1 .. Len(queue') : queue'[i] = queue[i + 1] /\ i + 1 \in 1 .. Len(queue)
      /\ \A i \in 1 .. Len(queue') : first.no < queue'[i].no
      /\ \A d \in Clients : Cardinality(Of(d, queue'))
           = IF first.from = d THEN Cardinality(Of(d, queue)) - 1
             ELSE Cardinality(Of(d, queue))
  BY Dequeued
<1>2. c \in Clients /\ first.no \in Nat /\ new \in M
  BY <1>1
<1>3. /\ mailbox' = [mailbox EXCEPT ![c] = Append(mailbox[c], new)]
      /\ UNCHANGED <<call, todo, waits, sent, lost, expired, taken>>
  BY DEF Respond, clientVars, history
<1>4. mailbox \in [Clients -> Seq(M)] /\ mailbox[c] \in Seq(M) /\ n \in Nat
  BY <1>2 DEF ThreadInv, ThreadTypes
<1> HIDE DEF first, c, new, M
<1>5. /\ Append(mailbox[c], new) \in Seq(M) /\ Len(Append(mailbox[c], new)) = n + 1
      /\ \A j \in 1 .. n : Append(mailbox[c], new)[j] = mailbox[c][j]
      /\ Append(mailbox[c], new)[n + 1] = new
  BY <1>2, <1>4, AppendProperties
<1>6. /\ mailbox'[c] = Append(mailbox[c], new)
      /\ \A d \in Clients \ {c} : mailbox'[d] = mailbox[d]
      /\ mailbox' \in [Clients -> Seq(M)]
  BY <1>2, <1>3, <1>4, <1>5
<1>7. ThreadTypes'
  BY <1>1, <1>3, <1>6, Zenon DEF ThreadInv, ThreadTypes, M
<1>8. new.no = first.no
  BY DEF new
<1>9. 1 \in 1 .. Len(queue) /\ first = queue[1]
  BY <1>1 DEF first
<1>10. ASSUME NEW j \in 1 .. n + 1
       PROVE  \/ j \in 1 .. n /\ mailbox'[c][j] = mailbox[c][j]
              \/ j = n + 1 /\ mailbox'[c][j] = new
  BY <1>4, <1>5, <1>6
<1>11. Len(mailbox'[c]) = n + 1
  BY <1>5, <1>6
<1> HIDE DEF n
<1>12. DoneIsOlder'
  <2>0. DoneIsOlder /\ UNCHANGED <<sent, lost, taken>>
    BY <1>3 DEF ThreadInv
  <2> SUFFICES ASSUME NEW d \in Clients
               PROVE  /\ taken[d] <= sent
                      /\ \A i \in 1 .. Len(queue') : taken[d] < queue'[i].no
                      /\ \A m \in lost[d] : m <= sent
                      /\ \A m \in lost[d], i \in 1 .. Len(queue') : m < queue'[i].no
                      /\ \A j \in 1 .. Len(mailbox'[d]) : mailbox'[d][j].no <= sent
                      /\ \A j \in 1 .. Len(mailbox'[d]), i \in 1 .. Len(queue') :
                            mailbox'[d][j].no < queue'[i].no
    BY <2>0, Zenon DEF DoneIsOlder
  <2>1. /\ taken[d] <= sent
        /\ \A i \in 1 .. Len(queue') : taken[d] < queue'[i].no
        /\ \A m \in lost[d] : m <= sent
        /\ \A m \in lost[d], i \in 1 .. Len(queue') : m < queue'[i].no
        /\ \A j \in 1 .. Len(mailbox[d]) : mailbox[d][j].no <= sent
        /\ \A j \in 1 .. Len(mailbox[d]), i \in 1 .. Len(queue') : mailbox[d][j].no < queue'[i].no
    BY <1>1, <2>0, Zenon DEF DoneIsOlder
  <2>2. CASE d # c
    BY <1>6, <2>1, <2>2
  <2>3. CASE d = c
    <3>1. \A j \in 1 .. n : mailbox[c][j].no <= sent
                         /\ \A i \in 1 .. Len(queue') : mailbox[c][j].no < queue'[i].no
      BY <2>1, <2>3, Zenon DEF n
    <3>2. \A j \in 1 .. n + 1 : mailbox'[c][j].no <= sent
                         /\ \A i \in 1 .. Len(queue') : mailbox'[c][j].no < queue'[i].no
      BY <1>1, <1>8, <1>10, <3>1, Zenon
    <3> QED
      BY <1>11, <2>1, <2>3, <3>2, Zenon
  <2> QED
    BY <2>2, <2>3
<1>13. MailboxAscends'
  <2>0. MailboxAscends /\ DoneIsOlder /\ taken' = taken
    BY <1>3 DEF ThreadInv
  <2> SUFFICES ASSUME NEW d \in Clients
               PROVE  /\ \A j \in 1 .. Len(mailbox'[d]) : taken[d] < mailbox'[d][j].no
                      /\ \A i, j \in 1 .. Len(mailbox'[d]) : i < j =>
                            mailbox'[d][i].no < mailbox'[d][j].no
    BY <2>0, Zenon DEF MailboxAscends
  <2>1. /\ \A j \in 1 .. Len(mailbox[d]) : taken[d] < mailbox[d][j].no
        /\ \A i, j \in 1 .. Len(mailbox[d]) : i < j => mailbox[d][i].no < mailbox[d][j].no
        /\ taken[d] < first.no
        /\ \A j \in 1 .. Len(mailbox[d]) : mailbox[d][j].no < first.no
    BY <1>9, <2>0, Zenon DEF DoneIsOlder, MailboxAscends
  <2>2. CASE d # c
    BY <1>6, <2>1, <2>2
  <2>3. CASE d = c
    <3>1. \A j \in 1 .. n + 1 : taken[d] < mailbox'[c][j].no
      BY <1>8, <1>10, <2>1, <2>3, Zenon DEF n
    <3>2. ASSUME NEW i \in 1 .. n + 1, NEW j \in 1 .. n + 1, i < j
          PROVE  mailbox'[c][i].no < mailbox'[c][j].no
      <4>1. i \in 1 .. n /\ mailbox'[c][i] = mailbox[c][i]
        <5>1. i # n + 1
          BY <1>4, <3>2
        <5> QED
          BY <1>10, <5>1, Zenon
      <4> QED
        BY <1>8, <1>10, <2>1, <2>3, <3>2, <4>1, Zenon DEF n
    <3> QED
      BY <1>11, <2>3, <3>1, <3>2, Zenon
  <2> QED
    BY <2>2, <2>3
<1>14. LateAnswersCounted'
  <2>0. UNCHANGED <<waits, lost, expired>>
    BY <1>3
  <2> SUFFICES ASSUME NEW d \in Clients
               PROVE  Len(mailbox'[d]) + Cardinality(lost[d]) + Cardinality(Of(d, queue'))
                        = expired[d] + (IF waits[d] = 0 THEN 0 ELSE 1)
    BY <2>0, Zenon DEF LateAnswersCounted, Of
  <2>1. Len(mailbox[d]) + Cardinality(lost[d]) + Cardinality(Of(d, queue))
           = expired[d] + (IF waits[d] = 0 THEN 0 ELSE 1)
    BY DEF ThreadInv, LateAnswersCounted, Of
  <2> DEFINE k == Cardinality(Of(d, queue))
             o == Cardinality(lost[d])
             l == Len(mailbox[d])
             s == Len(mailbox'[d])
             t == Cardinality(Of(d, queue'))
  <2>2. k \in Nat /\ o \in Nat /\ l \in Nat
    <3>1. \A r \in [kind : Kinds, data : SoundData, from : Clients, no : Nat] : r.from \in Clients
      OBVIOUS
    <3>2. k \in Nat
      BY <3>1, OfQueue DEF ThreadInv, ThreadTypes
    <3>3. o \in Nat
      BY FS_CardinalityType DEF ThreadInv, ThreadTypes
    <3>4. mailbox[d] \in Seq(M)
      BY <1>4
    <3>5. l \in Nat
      BY <3>4
    <3> QED
      BY <3>2, <3>3, <3>5
  <2>3. CASE d # c
    <3>1. s = l /\ t = k
      BY <1>1, <1>6, <2>3 DEF c
    <3> QED
      BY <2>1, <3>1
  <2>4. CASE d = c
    <3>1. s = l + 1 /\ t = k - 1
      BY <1>1, <1>11, <2>4 DEF c, n
    <3> HIDE DEF s, t, k, o, l
    <3>2. s + o + t = l + o + k
      BY <2>2, <3>1
    <3> QED
      BY <2>1, <3>2, Zenon DEF s, t, k, o, l
  <2> QED
    BY <2>3, <2>4
<1> QED
  BY <1>1, <1>7, <1>12, <1>13, <1>14 DEF ThreadInv

(* A request is lost.                                                      *)
LEMMA LossKeepsThreadInv ==
    ASSUME ThreadInv, queue # <<>>, queue' = Tail(queue),
           lost' = [lost EXCEPT ![Head(queue).from] = @ \cup {Head(queue).no}],
           UNCHANGED <<mailbox, clientVars, sent, expired, taken>>
    PROVE  ThreadInv'
<1> DEFINE first == queue[1]
           c == first.from
<1>1. /\ queue' \in Seq([kind : Kinds, data : SoundData, from : Clients, no : Nat])
      /\ QueueAscends'
      /\ first \in [kind : Kinds, data : SoundData, from : Clients, no : Nat]
      /\ first.no <= sent
      /\ Len(queue) \in Nat \ {0} /\ Len(queue') = Len(queue) - 1
      /\ \A i \in 1 .. Len(queue') : queue'[i] = queue[i + 1] /\ i + 1 \in 1 .. Len(queue)
      /\ \A i \in 1 .. Len(queue') : first.no < queue'[i].no
      /\ \A d \in Clients : Cardinality(Of(d, queue'))
           = IF first.from = d THEN Cardinality(Of(d, queue)) - 1
             ELSE Cardinality(Of(d, queue))
  BY Dequeued
<1>2. c \in Clients /\ first.no \in Nat
  BY <1>1
<1>3. Head(queue) = first
  BY DEF ThreadInv, ThreadTypes
<1>4. /\ lost' = [lost EXCEPT ![c] = lost[c] \cup {first.no}]
      /\ UNCHANGED <<mailbox, call, todo, waits, sent, expired, taken>>
  BY <1>3, Zenon DEF clientVars
<1>5. lost \in [Clients -> SUBSET Nat] /\ \A d \in Clients : IsFiniteSet(lost[d])
  BY DEF ThreadInv, ThreadTypes
<1>6. 1 \in 1 .. Len(queue)
  BY <1>1
<1>7. first.no \notin lost[c]
  <2>1. \A m \in lost[c] : m < first.no
    BY <1>2, <1>6, Zenon DEF ThreadInv, DoneIsOlder
  <2> QED
    BY <1>2, <2>1
<1> HIDE DEF first, c
<1>8. /\ lost' \in [Clients -> SUBSET Nat]
      /\ lost'[c] = lost[c] \cup {first.no}
      /\ \A d \in Clients \ {c} : lost'[d] = lost[d]
  <2>1. lost[c] \cup {first.no} \in SUBSET Nat
    <3>1. lost[c] \in SUBSET Nat
      BY <1>2, <1>5
    <3> QED
      BY <1>2, <3>1
  <2> QED
    BY <1>2, <1>4, <1>5, <2>1
<1>9. /\ IsFiniteSet(lost'[c]) /\ Cardinality(lost'[c]) = Cardinality(lost[c]) + 1
  <2>1. IsFiniteSet(lost[c])
    BY <1>2, <1>5
  <2>2. /\ IsFiniteSet(lost[c] \cup {first.no})
        /\ Cardinality(lost[c] \cup {first.no}) = Cardinality(lost[c]) + 1
    BY <1>7, <2>1, FS_AddElement, Zenon
  <2> QED
    BY <1>8, <2>2, Zenon
<1>10. ThreadTypes'
  <2>1. \A d \in Clients : IsFiniteSet(lost'[d])
    BY <1>5, <1>8, <1>9
  <2> QED
    BY <1>1, <1>4, <1>8, <2>1, Zenon DEF ThreadInv, ThreadTypes
<1>11. DoneIsOlder'
  <2>0. DoneIsOlder /\ UNCHANGED <<sent, mailbox, taken>>
    BY <1>4 DEF ThreadInv
  <2> SUFFICES ASSUME NEW d \in Clients
               PROVE  /\ taken[d] <= sent
                      /\ \A i \in 1 .. Len(queue') : taken[d] < queue'[i].no
                      /\ \A m \in lost'[d] : m <= sent
                      /\ \A m \in lost'[d], i \in 1 .. Len(queue') : m < queue'[i].no
                      /\ \A j \in 1 .. Len(mailbox[d]) : mailbox[d][j].no <= sent
                      /\ \A j \in 1 .. Len(mailbox[d]), i \in 1 .. Len(queue') :
                            mailbox[d][j].no < queue'[i].no
    BY <2>0, Zenon DEF DoneIsOlder
  <2>1. /\ taken[d] <= sent
        /\ \A i \in 1 .. Len(queue') : taken[d] < queue'[i].no
        /\ \A m \in lost[d] : m <= sent
        /\ \A m \in lost[d], i \in 1 .. Len(queue') : m < queue'[i].no
        /\ \A j \in 1 .. Len(mailbox[d]) : mailbox[d][j].no <= sent
        /\ \A j \in 1 .. Len(mailbox[d]), i \in 1 .. Len(queue') : mailbox[d][j].no < queue'[i].no
    BY <1>1, <2>0, Zenon DEF DoneIsOlder
  <2>2. \A m \in lost'[d] : m \in lost[d] \/ m = first.no
    BY <1>8
  <2> QED
    BY <1>1, <2>1, <2>2, Zenon
<1>12. MailboxAscends'
  BY <1>4, Zenon DEF ThreadInv, MailboxAscends
<1>13. LateAnswersCounted'
  <2> SUFFICES ASSUME NEW d \in Clients
               PROVE  Len(mailbox[d]) + Cardinality(lost'[d]) + Cardinality(Of(d, queue'))
                        = expired[d] + (IF waits[d] = 0 THEN 0 ELSE 1)
    BY <1>4, Zenon DEF LateAnswersCounted, Of
  <2>1. Len(mailbox[d]) + Cardinality(lost[d]) + Cardinality(Of(d, queue))
           = expired[d] + (IF waits[d] = 0 THEN 0 ELSE 1)
    BY DEF ThreadInv, LateAnswersCounted, Of
  <2> DEFINE k == Cardinality(Of(d, queue))
             o == Cardinality(lost[d])
             l == Len(mailbox[d])
             s == Cardinality(lost'[d])
             t == Cardinality(Of(d, queue'))
  <2>2. k \in Nat /\ o \in Nat /\ l \in Nat
    <3>1. \A r \in [kind : Kinds, data : SoundData, from : Clients, no : Nat] : r.from \in Clients
      OBVIOUS
    <3>2. k \in Nat
      BY <3>1, OfQueue DEF ThreadInv, ThreadTypes
    <3>3. o \in Nat
      BY <1>5, FS_CardinalityType
    <3>4. mailbox[d] \in Seq([ok : BOOLEAN, no : Nat])
      BY DEF ThreadInv, ThreadTypes
    <3>5. l \in Nat
      BY <3>4
    <3> QED
      BY <3>2, <3>3, <3>5
  <2>3. CASE d # c
    <3>1. s = o /\ t = k
      BY <1>1, <1>8, <2>3 DEF c
    <3> QED
      BY <2>1, <3>1
  <2>4. CASE d = c
    <3>1. s = o + 1 /\ t = k - 1
      BY <1>1, <1>9, <2>4 DEF c
    <3> HIDE DEF s, t, k, o, l
    <3>2. l + s + t = l + o + k
      BY <2>2, <3>1
    <3> QED
      BY <2>1, <3>2, Zenon DEF s, t, k, o, l
  <2> QED
    BY <2>3, <2>4
<1> QED
  BY <1>1, <1>10, <1>11, <1>12, <1>13 DEF ThreadInv

(* Only the call of a client changes.                                      *)
LEMMA CallKeepsThreadInv ==
    ASSUME ThreadInv,
           UNCHANGED <<queue, mailbox, waits, sent, lost, expired, taken>>,
           call' \in [Clients -> [kind : Kinds, sound : Sounds] \cup {NoCall}],
           todo' \in [Clients -> Seq(SoundData)],
           \A c \in Clients : call'[c] = NoCall => todo'[c] = <<>>
    PROVE  ThreadInv'
<1>1. ThreadTypes'
  BY DEF ThreadInv, ThreadTypes
<1>2. QueueAscends' /\ DoneIsOlder' /\ MailboxAscends' /\ LateAnswersCounted'
  BY NumbersStay DEF ThreadInv
<1> QED
  BY <1>1, <1>2 DEF ThreadInv

LEMMA BeginKeepsThreadInv ==
    ASSUME ThreadInv, NEW c \in Clients, NEW kind \in Kinds, NEW s \in Sounds,
           NEW tracks \in Seq(SoundData), Begin(c, kind, s, tracks)
    PROVE  ThreadInv'
<1>1. /\ call' = [call EXCEPT ![c] = [kind |-> kind, sound |-> s]]
      /\ todo' = [todo EXCEPT ![c] = tracks]
      /\ UNCHANGED <<queue, mailbox, waits, sent, lost, expired, taken>>
  BY DEF Begin
<1>2. /\ call \in [Clients -> [kind : Kinds, sound : Sounds] \cup {NoCall}]
      /\ todo \in [Clients -> Seq(SoundData)]
      /\ \A d \in Clients : call[d] = NoCall => todo[d] = <<>>
  BY DEF ThreadInv, ThreadTypes
<1>3. [kind |-> kind, sound |-> s] # NoCall
  <2>1. [kind |-> kind, sound |-> s].kind = kind /\ NoCall.kind = "none"
    BY DEF NoCall
  <2>2. kind # "none"
    BY DEF Kinds
  <2> QED
    BY <2>1, <2>2
<1>4. /\ call' \in [Clients -> [kind : Kinds, sound : Sounds] \cup {NoCall}]
      /\ todo' \in [Clients -> Seq(SoundData)]
  BY <1>1, <1>2
<1>5. \A d \in Clients : call'[d] = NoCall => todo'[d] = <<>>
  BY <1>1, <1>2, <1>3
<1> QED
  BY <1>1, <1>4, <1>5, CallKeepsThreadInv

LEMMA ThreadNext ==
    ASSUME ThreadInv, [Next]_vars
    PROVE  /\ ThreadInv'
           /\ \A c \in Clients : waits[c] # 0 /\ waits'[c] = 0 =>
                 taken[c] < taken'[c] \/ expired'[c] > expired[c]
<1> DEFINE InOrder == \A c \in Clients : waits[c] # 0 /\ waits'[c] = 0 =>
                         taken[c] < taken'[c] \/ expired'[c] > expired[c]
<1>0. /\ call \in [Clients -> [kind : Kinds, sound : Sounds] \cup {NoCall}]
      /\ todo \in [Clients -> Seq(SoundData)] /\ waits \in [Clients -> Nat]
      /\ \A d \in Clients : call[d] = NoCall => todo[d] = <<>>
      /\ queue \in Seq([kind : Kinds, data : SoundData, from : Clients, no : Nat])
  BY DEF ThreadInv, ThreadTypes
<1>1. ASSUME NEW c \in Clients, NEW s \in Sounds, Play(c, s) \/ Pause(c, s) \/ Stop(c, s)
      PROVE  ThreadInv' /\ InOrder
  <2>1. PICK kind \in Kinds, tracks \in {Tracks[s], <<>>} : Begin(c, kind, s, tracks)
    <3>1. CASE Play(c, s)
      BY <3>1 DEF Play, Kinds
    <3>2. CASE Pause(c, s)
      BY <3>2 DEF Pause, Kinds
    <3>3. CASE Stop(c, s)
      <4>1. CASE s \notin Multitracks /\ state[Tracks[s][1]] # "playing"
        BY <3>3, <4>1 DEF Stop, Kinds
      <4>2. CASE ~(s \notin Multitracks /\ state[Tracks[s][1]] # "playing")
        BY <3>3, <4>2 DEF Stop, Kinds
      <4> QED
        BY <4>1, <4>2
    <3> QED
      BY <1>1, <3>1, <3>2, <3>3
  <2>2. tracks \in Seq(SoundData)
    <3>1. Tracks[s] \in Seq(SoundData) /\ <<>> \in Seq(SoundData)
      BY StreamingAssumption
    <3> QED
      BY <3>1
  <2>3. waits' = waits
    BY <2>1 DEF Begin
  <2> QED
    BY <2>1, <2>2, <2>3, BeginKeepsThreadInv, Zenon
<1>2. ASSUME NEW c \in Clients, SendRequest(c) PROVE ThreadInv' /\ InOrder
  <2>1. \A d \in Clients : waits[d] # 0 => waits'[d] = waits[d]
    BY <1>0, <1>2 DEF SendRequest
  <2> QED
    BY <1>2, <2>1, SendKeepsThreadInv, Zenon
<1>3. ASSUME NEW c \in Clients, TakeAnswer(c) PROVE ThreadInv' /\ InOrder
  <2>1. \A d \in Clients : d # c => waits'[d] = waits[d]
    BY <1>0, <1>3 DEF TakeAnswer
  <2>2. ThreadInv' /\ taken[c] < taken'[c]
    BY <1>3, TakeKeepsThreadInv
  <2> QED
    BY <2>1, <2>2, Zenon
<1>4. ASSUME NEW c \in Clients, TimeOut(c) PROVE ThreadInv' /\ InOrder
  <2>1. \A d \in Clients : d # c => waits'[d] = waits[d]
    BY <1>0, <1>4 DEF TimeOut
  <2>2. ThreadInv' /\ expired'[c] > expired[c]
    BY <1>4, TimeOutKeepsThreadInv
  <2> QED
    BY <2>1, <2>2, Zenon
<1>5. ASSUME NEW c \in Clients, Return(c) PROVE ThreadInv' /\ InOrder
  <2>1. /\ call' = [call EXCEPT ![c] = NoCall] /\ todo' = [todo EXCEPT ![c] = <<>>]
        /\ UNCHANGED <<queue, mailbox, waits, sent, lost, expired, taken>>
    BY <1>5 DEF Return
  <2>2. <<>> \in Seq(SoundData)
    BY EmptySeq
  <2>3. /\ call' \in [Clients -> [kind : Kinds, sound : Sounds] \cup {NoCall}]
        /\ todo' \in [Clients -> Seq(SoundData)]
    BY <1>0, <2>1, <2>2
  <2>4. \A d \in Clients : call'[d] = NoCall => todo'[d] = <<>>
    BY <1>0, <2>1
  <2>5. ThreadInv'
    BY <2>1, <2>3, <2>4, CallKeepsThreadInv
  <2> QED
    BY <2>1, <2>5, Zenon
<1>6. CASE RunReceives
  <2>1. /\ queue # <<>> /\ queue' = RemoveAt(queue, 1) /\ Dispatch(queue[1])
        /\ UNCHANGED <<clientVars, sent, history>>
    BY <1>6 DEF RunReceives, Oldest
  <2>2. queue' = Tail(queue)
    BY <1>0, <2>1, TailParts, Zenon
  <2>3. PICK ok \in BOOLEAN : Respond(queue[1], ok)
    <3>1. (queue[1].kind = "play" \/ state[queue[1].data] # "stopped") \in BOOLEAN
      OBVIOUS
    <3> QED
      BY <2>1, <3>1, Zenon DEF Dispatch
  <2>4. ThreadInv'
    BY <2>1, <2>2, <2>3, AnswerKeepsThreadInv
  <2> QED
    BY <2>1, <2>4, Zenon DEF clientVars
<1>7. CASE RunThrows \/ RunnerDrops
  <2>1. /\ queue # <<>> /\ queue' = Tail(queue)
        /\ lost' = [lost EXCEPT ![Head(queue).from] = @ \cup {Head(queue).no}]
        /\ UNCHANGED <<mailbox, clientVars, sent, expired, taken>>
    BY <1>7, Zenon DEF RunThrows, RunnerDrops
  <2>2. ThreadInv'
    BY <2>1, LossKeepsThreadInv
  <2> QED
    BY <2>1, <2>2, Zenon DEF clientVars
<1>8. CASE (\E d \in SoundData : SoundEnds(d)) \/ UNCHANGED vars
  <2>1. UNCHANGED <<queue, mailbox, call, todo, waits, sent, lost, expired, taken>>
    BY <1>8 DEF SoundEnds, vars, clientVars, history
  <2>2. ThreadInv'
    BY <1>0, <2>1, CallKeepsThreadInv
  <2> QED
    BY <2>1, <2>2, Zenon
<1>9. ThreadInv' /\ InOrder
  BY <1>1, <1>2, <1>3, <1>4, <1>5, <1>6, <1>7, <1>8, Zenon DEF Next, ClientStep, ThreadStep
<1> QED
  BY <1>9

LEMMA ThreadBegins ==
    ASSUME Init
    PROVE  ThreadInv
<1>1. ThreadTypes
  <2>1. <<>> \in Seq([kind : Kinds, data : SoundData, from : Clients, no : Nat])
    BY EmptySeq
  <2>2. <<>> \in Seq([ok : BOOLEAN, no : Nat]) /\ <<>> \in Seq(SoundData)
    BY EmptySeq
  <2>3. IsFiniteSet({})
    BY FS_EmptySet
  <2>4. \A c \in Clients : /\ lost[c] = {} /\ waits[c] = 0 /\ expired[c] = 0 /\ taken[c] = 0
                           /\ call[c] = NoCall /\ todo[c] = <<>> /\ mailbox[c] = <<>>
    BY DEF Init
  <2>5. /\ lost \in [Clients -> SUBSET Nat] /\ waits \in [Clients -> Nat]
        /\ expired \in [Clients -> Nat] /\ taken \in [Clients -> Nat]
    BY DEF Init
  <2>6. /\ call \in [Clients -> [kind : Kinds, sound : Sounds] \cup {NoCall}]
        /\ todo \in [Clients -> Seq(SoundData)]
        /\ mailbox \in [Clients -> Seq([ok : BOOLEAN, no : Nat])]
    BY <2>2 DEF Init
  <2>7. queue \in Seq([kind : Kinds, data : SoundData, from : Clients, no : Nat]) /\ sent \in Nat
    BY <2>1 DEF Init
  <2> QED
    BY <2>3, <2>4, <2>5, <2>6, <2>7, Zenon DEF ThreadTypes
<1>2. QueueAscends
  BY DEF Init, QueueAscends
<1>3. DoneIsOlder /\ MailboxAscends
  BY DEF Init, DoneIsOlder, MailboxAscends
<1>4. LateAnswersCounted
  <2> SUFFICES ASSUME NEW c \in Clients
               PROVE  Len(mailbox[c]) + Cardinality(lost[c]) + Cardinality(Of(c, queue))
                        = expired[c] + (IF waits[c] = 0 THEN 0 ELSE 1)
    BY DEF LateAnswersCounted, Of
  <2>1. lost[c] = {} /\ waits[c] = 0 /\ expired[c] = 0 /\ mailbox[c] = <<>> /\ queue = <<>>
    BY DEF Init
  <2>2. Of(c, queue) = {}
    BY <2>1 DEF Of
  <2>3. Cardinality({}) = 0
    BY FS_EmptySet
  <2>4. Len(mailbox[c]) = 0
    BY <2>1
  <2>5. 0 + 0 + 0 = 0 + (IF waits[c] = 0 THEN 0 ELSE 1)
    BY <2>1
  <2> QED
    BY <2>1, <2>2, <2>3, <2>4, <2>5, Zenon
<1> QED
  BY <1>1, <1>2, <1>3, <1>4 DEF ThreadInv

(* TCAudioStreamingThread.cpp, sendMessage of the sounds: the answers a    *)
(* client gets are those it asked for, one for each request and in their   *)
(* order; one that comes after the timeout is counted as still to come.    *)
THEOREM AnswersAreExact ==
    Spec => AnswersExact
<1>1. Init => ThreadInv
  BY ThreadBegins
<1>2. ThreadInv /\ [Next]_vars => ThreadInv'
  BY ThreadNext
<1>3. ThreadInv => LateAnswersCounted
  BY DEF ThreadInv
<1>4. ThreadInv /\ [Next]_vars
        => \A c \in Clients : waits[c] # 0 /\ waits'[c] = 0 =>
              taken[c] < taken'[c] \/ expired'[c] > expired[c]
  BY ThreadNext
<1>5. ThreadInv' => [LateAnswersCounted']_allVars
  BY DEF ThreadInv
<1> QED
  BY <1>1, <1>2, <1>3, <1>4, <1>5, PTL DEF Spec, AnswersExact, AnswersInOrder
-----------------------------------------------------------------------------
(* The streaming task.  What has been made of a kind (sources, buffers) is *)
(* on the stack of the unused ones or in one row of R, once: the rows are  *)
(* what each of m streaming sources has, n of the kind.                    *)
Once(top, stack, m, R, n) ==
    /\ top \in Nat /\ n \in Nat /\ m \in Nat
    /\ stack \in Seq(1 .. top)
    /\ R \in [1 .. m -> [1 .. n -> 1 .. top]]
    /\ \A h, l \in 1 .. Len(stack) : stack[h] = stack[l] => h = l
    /\ \A i, j \in 1 .. m, k, l \in 1 .. n : R[i][k] = R[j][l] => i = j /\ k = l
    /\ \A h \in 1 .. Len(stack), i \in 1 .. m, k \in 1 .. n : stack[h] # R[i][k]
    /\ \A o \in 1 .. top : \/ \E h \in 1 .. Len(stack) : stack[h] = o
                           \/ \E i \in 1 .. m, k \in 1 .. n : R[i][k] = o

(* The same, when an exception has taken those of L away.                  *)
OnceBut(top, stack, m, R, n, L) ==
    /\ top \in Nat /\ n \in Nat /\ m \in Nat
    /\ stack \in Seq(1 .. top)
    /\ R \in [1 .. m -> [1 .. n -> 1 .. top]]
    /\ \A h, l \in 1 .. Len(stack) : stack[h] = stack[l] => h = l
    /\ \A i, j \in 1 .. m, k, l \in 1 .. n : R[i][k] = R[j][l] => i = j /\ k = l
    /\ \A h \in 1 .. Len(stack), i \in 1 .. m, k \in 1 .. n : stack[h] # R[i][k]
    /\ L \subseteq 1 .. top
    /\ \A h \in 1 .. Len(stack) : stack[h] \notin L
    /\ \A i \in 1 .. m, k \in 1 .. n : R[i][k] \notin L
    /\ \A o \in 1 .. top : \/ \E h \in 1 .. Len(stack) : stack[h] = o
                           \/ \E i \in 1 .. m, k \in 1 .. n : R[i][k] = o
                           \/ o \in L

BuffersOf(s) == [i \in 1 .. Len(s) |-> s[i].buffers]
SourceOf(s) == [i \in 1 .. Len(s) |-> [k \in 1 .. 1 |-> s[i].source]]

PoolsInv ==
    /\ OnceBut(made.buffers, free_buffers, Len(sources), BuffersOf(sources), PerSource,
               gone.buffers)
    /\ OnceBut(made.sources, free_sources, Len(sources), SourceOf(sources), 1, gone.sources)

(* An exception ends the Run.                                              *)
FailInv == (~failed => gone = T!Nothing) /\ (failed => at = 0)

Chunks == [buffer : Nat, from : Nat, bytes : Nat]
SourceRecords == [state : {"initial", "playing", "paused", "stopped"},
                  queue : Seq(Chunks), done : Nat]

Streams == [data : TaskData, source : Nat, buffers : [1 .. PerSource -> Nat]]

TaskTypes ==
    /\ made \in [sources : Nat, buffers : Nat] /\ made.sources <= MaxSources
    /\ sources \in Seq(Streams)
    /\ size \in Nat /\ (sources # <<>> => size > 0)
    /\ position \in [TaskData -> Nat] /\ heard \in [TaskData -> Nat]
    /\ \A d \in TaskData : position[d] <= TaskBytes[d] /\ heard[d] <= TaskBytes[d]
    /\ al \in [1 .. MaxSources -> SourceRecords]
    /\ at \in 0 .. Len(sources) /\ processed \in Int /\ (at = 0 => processed = -1)

DataOnce ==
    \A i, j \in 1 .. Len(sources) : sources[i].data = sources[j].data => i = j

(* A source that plays or is paused has something left to play, and what   *)
(* Execute has seen to be processed stays so until it has refilled it.     *)
DeviceInv ==
    /\ \A s \in 1 .. MaxSources :
          /\ al[s].done <= Len(al[s].queue)
          /\ al[s].state \in {"playing", "paused"} => al[s].done < Len(al[s].queue)
    /\ at # 0 => processed <= al[sources[at].source].done

(* A queue has buffers of its own streaming source, each once.             *)
Owned(q, s, streams) ==
    /\ \A k, j \in 1 .. Len(q) : q[k].buffer = q[j].buffer => k = j
    /\ \A j \in 1 .. Len(q) : \E i \in 1 .. Len(streams), k \in 1 .. PerSource :
          streams[i].source = s /\ streams[i].buffers[k] = q[j].buffer

QueueInv == \A s \in 1 .. MaxSources : Owned(al[s].queue, s, sources)

(* The queue of a source goes on without a gap from where the device has   *)
(* played to up to the position of GetData; it is empty only at the end.   *)
Continues(q, done, d, p, h) ==
    /\ q = <<>> => p = TaskBytes[d] /\ h = TaskBytes[d]
    /\ q # <<>> => q[1].from <= h /\ q[Len(q)].from + q[Len(q)].bytes >= p
    /\ \A j \in 1 .. Len(q) : q[j].from < TaskBytes[d]
    /\ \A j \in 1 .. Len(q) - 1 : q[j + 1].from <= q[j].from + q[j].bytes
    /\ \A j \in 1 .. done : h >= q[j].from + q[j].bytes \/ h = TaskBytes[d]

ContinuesInv ==
    \A i \in 1 .. Len(sources) :
        LET s == al[sources[i].source]  d == sources[i].data IN
        Continues(s.queue, s.done, d, position[d], heard[d])

TaskInv ==
    /\ TaskTypes /\ PoolsInv /\ FailInv /\ DataOnce
    /\ DeviceInv /\ QueueInv /\ ContinuesInv

LEMMA NothingButNothing ==
    ASSUME NEW top, NEW stack, NEW m, NEW R, NEW n
    PROVE  Once(top, stack, m, R, n) <=> OnceBut(top, stack, m, R, n, {})
<1>1. ASSUME Once(top, stack, m, R, n) PROVE OnceBut(top, stack, m, R, n, {})
  BY <1>1, Zenon DEF Once, OnceBut
<1>2. ASSUME OnceBut(top, stack, m, R, n, {}) PROVE Once(top, stack, m, R, n)
  BY <1>2, Zenon DEF Once, OnceBut
<1> QED
  BY <1>1, <1>2

(* While the Run goes on the pools are whole.                              *)
LEMMA PoolsWhole ==
    ASSUME TaskInv, ~failed
    PROVE  /\ Once(made.buffers, free_buffers, Len(sources), BuffersOf(sources), PerSource)
           /\ Once(made.sources, free_sources, Len(sources), SourceOf(sources), 1)
           /\ gone.buffers = {} /\ gone.sources = {}
<1>1. gone.buffers = {} /\ gone.sources = {}
  BY DEF TaskInv, FailInv, T!Nothing
<1> QED
  BY <1>1, NothingButNothing DEF TaskInv, PoolsInv

(* The first of the stack and new ones make a row.                         *)
TakenFrom(top, stack, m, R, n, R2) ==
    /\ DOMAIN R2 = 1 .. m + 1 /\ R2 = [i \in 1 .. m + 1 |-> R2[i]]
    /\ \A i \in 1 .. m : R2[i] = R[i]
    /\ R2[m + 1] = T!Unstacked(stack, n, top)

LEMMA OnceTakes ==
    ASSUME NEW top, NEW stack, NEW m, NEW R, NEW n, NEW R2,
           Once(top, stack, m, R, n), TakenFrom(top, stack, m, R, n, R2)
    PROVE  Once(top + T!NewlyMade(stack, n), T!Left(stack, n), m + 1, R2, n)
<1>g. /\ DOMAIN R2 = 1 .. m + 1 /\ R2 = [i \in 1 .. m + 1 |-> R2[i]]
      /\ \A i \in 1 .. m : R2[i] = R[i]
      /\ R2[m + 1] = T!Unstacked(stack, n, top)
  BY DEF TakenFrom
<1>0. top \in Nat /\ n \in Nat /\ m \in Nat /\ stack \in Seq(1 .. top) /\ Len(stack) \in Nat
  BY DEF Once
<1>1. PICK len \in Nat : len = Len(stack)
  BY <1>0
<1>2. PICK more \in Nat : more = T!NewlyMade(stack, n) /\ more = IF n > len THEN n - len ELSE 0
  <2>1. (IF n > len THEN n - len ELSE 0) \in Nat
    BY <1>0
  <2>2. T!NewlyMade(stack, n) = IF n > len THEN n - len ELSE 0
    BY <1>1 DEF T!NewlyMade
  <2> QED
    BY <2>1, <2>2
<1>3. PICK rest \in Nat : rest = IF n > len THEN 0 ELSE len - n
  <2>1. (IF n > len THEN 0 ELSE len - n) \in Nat
    BY <1>0
  <2> QED
    BY <2>1
<1>4. PICK left : left = T!Left(stack, n)
  OBVIOUS
<1>5. /\ rest \in 0 .. len /\ top + more \in Nat /\ m + 1 \in Nat /\ m + 1 \in 1 .. m + 1
      /\ \A k \in 1 .. n : k <= len => len + 1 - k \in 1 .. len /\ len + 1 - k > rest
      /\ \A o \in 1 .. top : o \in 1 .. top + more
      /\ \A h \in 1 .. rest : h \in 1 .. len
  BY <1>0, <1>2, <1>3
<1>6. /\ \A h \in 1 .. len : stack[h] \in 1 .. top
      /\ \A h, l \in 1 .. len : stack[h] = stack[l] => h = l
      /\ \A i, j \in 1 .. m, k, l \in 1 .. n : R[i][k] = R[j][l] => i = j /\ k = l
      /\ \A h \in 1 .. len, i \in 1 .. m, k \in 1 .. n : stack[h] # R[i][k]
      /\ \A i \in 1 .. m, k \in 1 .. n : R[i][k] \in 1 .. top
      /\ \A i \in 1 .. m : R[i] = [k \in 1 .. n |-> R[i][k]]
      /\ \A o \in 1 .. top : \/ \E h \in 1 .. len : stack[h] = o
                             \/ \E i \in 1 .. m, k \in 1 .. n : R[i][k] = o
  BY <1>0, <1>1 DEF Once
<1>7. left \in Seq(1 .. top + more) /\ Len(left) = rest /\ \A h \in 1 .. rest : left[h] = stack[h]
  <2>1. CASE n > len
    <3>1. left = <<>>
      <4>1. Len(stack) - n < 1
        BY <1>0, <1>1, <2>1
      <4> QED
        BY <4>1, <1>4, <1>0, SubSeqEmpty DEF T!Left
    <3>2. rest = 0
      BY <1>3, <2>1
    <3> QED
      BY <3>1, <3>2
  <2>2. CASE ~(n > len)
    <3>1. rest = len - n /\ rest \in 0 .. len
      BY <1>0, <1>3, <2>2
    <3>2. left = SubSeq(stack, 1, rest)
      BY <1>1, <1>4, <3>1 DEF T!Left
    <3>3. \A h \in 1 .. rest : stack[h] \in 1 .. top + more
      BY <1>5, <1>6
    <3>4. /\ left \in Seq(1 .. top + more)
          /\ Len(left) = (IF 1 <= rest + 1 THEN rest - 1 + 1 ELSE 0)
          /\ \A h \in 1 .. rest - 1 + 1 : left[h] = stack[1 + h - 1]
      BY <3>1, <3>2, <3>3, <1>0, <1>1, SubSeqProperties
    <3> QED
      BY <1>3, <3>4
  <2> QED
    BY <2>1, <2>2
<1>8. ASSUME NEW k \in 1 .. n
      PROVE  /\ R2[m + 1][k] \in 1 .. top + more
             /\ k <= len => R2[m + 1][k] = stack[len + 1 - k] /\ R2[m + 1][k] \in 1 .. top
             /\ k > len => R2[m + 1][k] = top + k - len /\ R2[m + 1][k] > top
  <2>1. R2[m + 1][k] = IF k <= len THEN stack[len + 1 - k] ELSE top + k - len
    BY <1>g, <1>1 DEF T!Unstacked
  <2>2. CASE k <= len
    <3>1. R2[m + 1][k] = stack[len + 1 - k]
      BY <2>1, <2>2
    <3>2. R2[m + 1][k] \in 1 .. top
      BY <1>5, <1>6, <2>2, <3>1, Zenon
    <3>3. R2[m + 1][k] \in 1 .. top + more
      BY <1>5, <3>2
    <3>4. ~(k > len)
      BY <2>2
    <3> QED
      BY <3>1, <3>2, <3>3, <3>4
  <2>3. CASE k > len
    <3>1. R2[m + 1][k] = top + k - len
      BY <2>1, <2>3
    <3>2. top + k - len \in 1 .. top + more /\ top + k - len > top /\ ~(k <= len)
      BY <1>0, <1>2, <2>3
    <3> QED
      BY <3>1, <3>2
  <2> QED
    BY <1>0, <2>2, <2>3
<1>9. ASSUME NEW i \in 1 .. m + 1
      PROVE  \/ i \in 1 .. m /\ R2[i] = R[i]
             \/ i = m + 1
  <2>1. i \in 1 .. m \/ i = m + 1
    BY <1>0
  <2> QED
    BY <1>g, <2>1
<1>10. R2 \in [1 .. m + 1 -> [1 .. n -> 1 .. top + more]]
  <2>1. ASSUME NEW i \in 1 .. m + 1, NEW k \in 1 .. n
        PROVE  R2[i][k] \in 1 .. top + more
    <3>1. CASE i \in 1 .. m /\ R2[i] = R[i]
      BY <1>5, <1>6, <3>1
    <3>2. CASE i = m + 1
      BY <1>8, <3>2
    <3> QED
      BY <1>9, <3>1, <3>2
  <2>2. ASSUME NEW i \in 1 .. m + 1
        PROVE  R2[i] \in [1 .. n -> 1 .. top + more]
    <3>1. R2[i] = [k \in 1 .. n |-> R2[i][k]]
      <4>1. CASE i \in 1 .. m /\ R2[i] = R[i]
        BY <1>6, <4>1
      <4>2. CASE i = m + 1
        BY <1>g, <4>2 DEF T!Unstacked
      <4> QED
        BY <1>9, <4>1, <4>2
    <3> QED
      BY <2>1, <3>1
  <2> QED
    BY <1>g, <2>2
<1>11. \A h, l \in 1 .. Len(left) : left[h] = left[l] => h = l
  BY <1>5, <1>6, <1>7
<1>12. ASSUME NEW k \in 1 .. n, NEW l \in 1 .. n, R2[m + 1][k] = R2[m + 1][l]
       PROVE  k = l
  <2>1. CASE k <= len /\ l <= len
    <3>1. stack[len + 1 - k] = stack[len + 1 - l]
      BY <1>8, <1>12, <2>1
    <3>2. len + 1 - k = len + 1 - l
      BY <1>5, <1>6, <2>1, <3>1, Zenon
    <3> QED
      BY <1>1, <3>2
  <2>2. CASE k > len /\ l > len
    <3>1. top + k - len = top + l - len
      BY <1>8, <1>12, <2>2
    <3> QED
      BY <1>0, <3>1
  <2>3. CASE k <= len /\ l > len
    <3>1. R2[m + 1][k] \in 1 .. top /\ R2[m + 1][l] > top
      BY <1>8, <2>3
    <3> QED
      BY <1>0, <1>12, <3>1
  <2>4. CASE k > len /\ l <= len
    <3>1. R2[m + 1][l] \in 1 .. top /\ R2[m + 1][k] > top
      BY <1>8, <2>4
    <3> QED
      BY <1>0, <1>12, <3>1
  <2> QED
    BY <1>0, <2>1, <2>2, <2>3, <2>4
<1>13. ASSUME NEW i \in 1 .. m, NEW k \in 1 .. n, NEW l \in 1 .. n
       PROVE  R[i][k] # R2[m + 1][l]
  <2>1. CASE l <= len
    <3>1. len + 1 - l \in 1 .. len /\ R2[m + 1][l] = stack[len + 1 - l]
      BY <1>5, <1>8, <2>1
    <3>2. stack[len + 1 - l] # R[i][k]
      BY <1>6, <3>1
    <3> QED
      BY <3>1, <3>2
  <2>2. CASE l > len
    <3>1. R[i][k] \in 1 .. top /\ R2[m + 1][l] > top
      BY <1>6, <1>8, <2>2
    <3> QED
      BY <1>0, <3>1
  <2> QED
    BY <1>0, <2>1, <2>2
<1>14. \A i, j \in 1 .. m + 1, k, l \in 1 .. n : R2[i][k] = R2[j][l] => i = j /\ k = l
  <2> TAKE i, j \in 1 .. m + 1, k, l \in 1 .. n
  <2> HAVE R2[i][k] = R2[j][l]
  <2>1. CASE i \in 1 .. m /\ R2[i] = R[i] /\ j \in 1 .. m /\ R2[j] = R[j]
    <3>1. R[i][k] = R[j][l]
      BY <2>1
    <3> QED
      BY <1>6, <2>1, <3>1
  <2>2. CASE i \in 1 .. m /\ R2[i] = R[i] /\ j = m + 1
    BY <1>13, <2>2, Zenon
  <2>3. CASE i = m + 1 /\ j \in 1 .. m /\ R2[j] = R[j]
    BY <1>13, <2>3, Zenon
  <2>4. CASE i = m + 1 /\ j = m + 1
    BY <1>12, <2>4, Zenon
  <2> QED
    BY <1>9, <2>1, <2>2, <2>3, <2>4, Zenon
<1>15. ASSUME NEW h \in 1 .. rest, NEW i \in 1 .. m + 1, NEW k \in 1 .. n
       PROVE  left[h] # R2[i][k]
  <2>1. h \in 1 .. len /\ left[h] = stack[h]
    BY <1>5, <1>7
  <2>2. CASE i \in 1 .. m /\ R2[i] = R[i]
    BY <1>6, <2>1, <2>2
  <2>3. CASE i = m + 1 /\ k <= len
    <3>1. len + 1 - k \in 1 .. len /\ len + 1 - k # h
      BY <1>5, <2>3
    <3>2. R2[i][k] = stack[len + 1 - k]
      BY <1>8, <2>3
    <3>3. stack[h] # stack[len + 1 - k]
      BY <1>6, <2>1, <3>1
    <3> QED
      BY <2>1, <3>2, <3>3
  <2>4. CASE i = m + 1 /\ k > len
    <3>1. stack[h] \in 1 .. top /\ R2[i][k] > top
      BY <1>6, <1>8, <2>1, <2>4
    <3> QED
      BY <1>0, <2>1, <3>1
  <2> QED
    BY <1>0, <1>9, <2>2, <2>3, <2>4
<1>16. ASSUME NEW o \in 1 .. top + more
       PROVE  \/ \E h \in 1 .. rest : left[h] = o
              \/ \E i \in 1 .. m + 1, k \in 1 .. n : R2[i][k] = o
  <2>1. CASE o > top
    <3>1. o - top + len \in 1 .. n /\ o - top + len > len
      BY <1>0, <1>2, <2>1
    <3>2. R2[m + 1][o - top + len] = top + (o - top + len) - len
      BY <1>8, <3>1
    <3>3. R2[m + 1][o - top + len] = o
      BY <1>0, <3>2
    <3> QED
      BY <1>5, <3>1, <3>3
  <2>2. CASE \E h \in 1 .. len : stack[h] = o
    <3>1. PICK h \in 1 .. len : stack[h] = o
      BY <2>2
    <3>2. CASE h \in 1 .. rest
      BY <1>7, <3>1, <3>2
    <3>3. CASE h \notin 1 .. rest
      <4>1. len + 1 - h \in 1 .. n /\ len + 1 - h <= len /\ len + 1 - (len + 1 - h) = h
        BY <1>0, <1>3, <3>3
      <4>2. R2[m + 1][len + 1 - h] = stack[len + 1 - (len + 1 - h)]
        BY <1>8, <4>1
      <4> QED
        BY <1>5, <3>1, <4>1, <4>2
    <3> QED
      BY <3>2, <3>3
  <2>3. CASE \E i \in 1 .. m, k \in 1 .. n : R[i][k] = o
    <3>1. PICK i \in 1 .. m, k \in 1 .. n : R[i][k] = o
      BY <2>3
    <3>2. i \in 1 .. m + 1 /\ R2[i] = R[i]
      <4>1. i \in 1 .. m + 1
        BY <1>0
      <4> QED
        BY <1>g, <4>1
    <3> QED
      BY <3>1, <3>2
  <2>4. o > top \/ o \in 1 .. top
    BY <1>0
  <2> QED
    BY <1>6, <2>1, <2>2, <2>3, <2>4, Zenon
<1>17. /\ \A h \in 1 .. Len(left), i \in 1 .. m + 1, k \in 1 .. n : left[h] # R2[i][k]
       /\ \A o \in 1 .. top + more :
            \/ \E h \in 1 .. Len(left) : left[h] = o
            \/ \E i \in 1 .. m + 1, k \in 1 .. n : R2[i][k] = o
  BY <1>7, <1>15, <1>16, Zenon
<1>18. Once(top + more, left, m + 1, R2, n)
  BY <1>0, <1>5, <1>7, <1>10, <1>11, <1>14, <1>17, Zenon DEF Once
<1> QED
  BY <1>2, <1>4, <1>18

(* The first k of the stack and new ones are lost.                         *)
LEMMA OnceLoses ==
    ASSUME NEW top, NEW stack, NEW m, NEW R, NEW n, NEW k \in Nat, Once(top, stack, m, R, n)
    PROVE  OnceBut(top + T!NewlyMade(stack, k), T!Left(stack, k), m, R, n,
                   {T!Unstacked(stack, k, top)[i] : i \in 1 .. k})
<1>0. top \in Nat /\ n \in Nat /\ m \in Nat /\ stack \in Seq(1 .. top) /\ Len(stack) \in Nat
  BY DEF Once
<1>1. PICK len \in Nat : len = Len(stack)
  BY <1>0
<1>2. PICK more \in Nat : more = T!NewlyMade(stack, k) /\ more = IF k > len THEN k - len ELSE 0
  <2>1. (IF k > len THEN k - len ELSE 0) \in Nat
    BY <1>0
  <2>2. T!NewlyMade(stack, k) = IF k > len THEN k - len ELSE 0
    BY <1>1 DEF T!NewlyMade
  <2> QED
    BY <2>1, <2>2
<1>3. PICK rest \in Nat : rest = IF k > len THEN 0 ELSE len - k
  <2>1. (IF k > len THEN 0 ELSE len - k) \in Nat
    BY <1>0
  <2> QED
    BY <2>1
<1>4. PICK left : left = T!Left(stack, k)
  OBVIOUS
<1>5. PICK u : u = T!Unstacked(stack, k, top)
  OBVIOUS
<1>6. PICK L : L = {u[i] : i \in 1 .. k}
  OBVIOUS
<1>7. /\ \A h \in 1 .. len : stack[h] \in 1 .. top
      /\ \A h, l \in 1 .. len : stack[h] = stack[l] => h = l
      /\ \A h \in 1 .. len, i \in 1 .. m, l \in 1 .. n : stack[h] # R[i][l]
      /\ \A o \in 1 .. top : \/ \E h \in 1 .. len : stack[h] = o
                             \/ \E i \in 1 .. m, l \in 1 .. n : R[i][l] = o
  <2>1. \A h \in 1 .. len : stack[h] \in 1 .. top
    BY <1>0, <1>1
  <2> QED
    BY <1>1, <2>1, Zenon DEF Once
<1>r. /\ R \in [1 .. m -> [1 .. n -> 1 .. top]]
      /\ \A i \in 1 .. m, l \in 1 .. n : R[i][l] \in 1 .. top
  <2>1. R \in [1 .. m -> [1 .. n -> 1 .. top]]
    BY DEF Once
  <2> QED
    BY <2>1
<1>d. \A i, j \in 1 .. m, h, l \in 1 .. n : R[i][h] = R[j][l] => i = j /\ h = l
  BY Zenon DEF Once
<1>8. /\ left \in Seq(1 .. top + more) /\ Len(left) = rest
      /\ \A h \in 1 .. rest : left[h] = stack[h] /\ h \in 1 .. len
  <2>1. CASE k > len
    <3>1. left = <<>>
      <4>1. Len(stack) - k < 1
        BY <1>0, <1>1, <2>1
      <4> QED
        BY <4>1, <1>4, <1>0, SubSeqEmpty DEF T!Left
    <3>2. rest = 0
      BY <1>3, <2>1
    <3> QED
      BY <3>1, <3>2
  <2>2. CASE ~(k > len)
    <3>1. rest = len - k /\ rest \in 0 .. len
      BY <1>0, <1>3, <2>2
    <3>2. left = SubSeq(stack, 1, rest)
      BY <1>1, <1>4, <3>1 DEF T!Left
    <3>3. \A h \in 1 .. rest : stack[h] \in 1 .. top + more
      <4>1. \A h \in 1 .. rest : stack[h] \in 1 .. top
        BY <1>7, <3>1
      <4> QED
        BY <1>0, <4>1
    <3>4. /\ left \in Seq(1 .. top + more)
          /\ Len(left) = (IF 1 <= rest + 1 THEN rest - 1 + 1 ELSE 0)
          /\ \A h \in 1 .. rest - 1 + 1 : left[h] = stack[1 + h - 1]
      <4>1. rest \in 0 .. len /\ \A h \in 1 .. rest : stack[h] \in 1 .. top + more
        BY <3>1, <3>3
      <4> QED
        BY <3>2, <4>1, <1>0, <1>1, SubSeqProperties
    <3> QED
      BY <1>3, <3>1, <3>4
  <2> QED
    BY <2>1, <2>2
<1>9. ASSUME NEW i \in 1 .. k
      PROVE  \/ i <= len /\ u[i] = stack[len + 1 - i] /\ len + 1 - i \in rest + 1 .. len
             \/ i > len /\ u[i] = top + i - len /\ top + i - len \in top + 1 .. top + more
  <2>1. u[i] = IF i <= len THEN stack[len + 1 - i] ELSE top + i - len
    BY <1>1, <1>5 DEF T!Unstacked
  <2>2. CASE i <= len
    BY <1>0, <1>3, <2>1, <2>2
  <2>3. CASE ~(i <= len)
    BY <1>0, <1>2, <2>1, <2>3
  <2> QED
    BY <2>2, <2>3
<1>10. ASSUME NEW o \in L
       PROVE  \/ \E h \in rest + 1 .. len : stack[h] = o
              \/ o \in top + 1 .. top + more
  BY <1>6, <1>9
<1>11. L \subseteq 1 .. top + more
  <2>1. ASSUME NEW o \in L PROVE o \in 1 .. top + more
    <3>1. CASE \E h \in rest + 1 .. len : stack[h] = o
      <4>1. PICK h \in rest + 1 .. len : stack[h] = o
        BY <3>1
      <4>2. stack[h] \in 1 .. top
        BY <1>3, <1>7, <4>1
      <4> QED
        BY <1>0, <4>1, <4>2
    <3>2. CASE o \in top + 1 .. top + more
      BY <1>0, <3>2
    <3> QED
      BY <1>10, <3>1, <3>2
  <2> QED
    BY <2>1
<1>12. ASSUME NEW h \in 1 .. rest, left[h] \in L
       PROVE  FALSE
  <2>1. h \in 1 .. len /\ left[h] = stack[h] /\ stack[h] \in 1 .. top
    BY <1>7, <1>8
  <2>2. CASE \E l \in rest + 1 .. len : stack[l] = left[h]
    <3>1. PICK l \in rest + 1 .. len : stack[l] = stack[h]
      BY <2>1, <2>2
    <3>2. l \in 1 .. len /\ l # h
      BY <1>3, <3>1
    <3> QED
      BY <1>7, <2>1, <3>1, <3>2
  <2>3. CASE left[h] \in top + 1 .. top + more
    BY <1>0, <2>1, <2>3
  <2> QED
    BY <1>10, <1>12, <2>2, <2>3
<1>13. ASSUME NEW i \in 1 .. m, NEW l \in 1 .. n, R[i][l] \in L
       PROVE  FALSE
  <2>1. R[i][l] \in 1 .. top
    BY <1>r
  <2>2. CASE \E h \in rest + 1 .. len : stack[h] = R[i][l]
    <3>1. PICK h \in rest + 1 .. len : stack[h] = R[i][l]
      BY <2>2
    <3>2. h \in 1 .. len
      BY <1>3, <3>1
    <3> QED
      BY <1>7, <3>1, <3>2, Zenon
  <2>3. CASE R[i][l] \in top + 1 .. top + more
    BY <1>0, <2>1, <2>3
  <2> QED
    BY <1>10, <1>13, <2>2, <2>3
<1>14. ASSUME NEW o \in 1 .. top + more
       PROVE  \/ \E h \in 1 .. Len(left) : left[h] = o
              \/ \E i \in 1 .. m, l \in 1 .. n : R[i][l] = o
              \/ o \in L
  <2>1. CASE o > top
    <3>1. PICK i \in 1 .. k : i = o - top + len
      BY <1>0, <1>2, <2>1
    <3>2. u[i] = o
      BY <1>0, <1>9, <2>1, <3>1
    <3> QED
      BY <1>6, <3>2
  <2>2. CASE \E h \in 1 .. len : stack[h] = o
    <3>1. PICK h \in 1 .. len : stack[h] = o
      BY <2>2
    <3>2. CASE h \in 1 .. rest
      BY <1>8, <3>1, <3>2
    <3>3. CASE h \notin 1 .. rest
      <4>1. PICK i \in 1 .. k : i = len + 1 - h /\ i <= len /\ len + 1 - i = h
        <5>1. len + 1 - h \in 1 .. k /\ len + 1 - h <= len /\ len + 1 - (len + 1 - h) = h
          BY <1>0, <1>3, <3>3
        <5> QED
          BY <5>1
      <4>2. u[i] = stack[h]
        BY <1>9, <4>1
      <4> QED
        BY <1>6, <3>1, <4>2
    <3> QED
      BY <3>2, <3>3
  <2>3. o > top \/ o \in 1 .. top
    BY <1>0
  <2> QED
    BY <1>7, <2>1, <2>2, <2>3, Zenon
<1>15. R \in [1 .. m -> [1 .. n -> 1 .. top + more]]
  <2>1. 1 .. top \subseteq 1 .. top + more
    BY <1>0
  <2>2. [1 .. n -> 1 .. top] \subseteq [1 .. n -> 1 .. top + more]
    BY <2>1
  <2> QED
    BY <1>r, <2>2
<1>16. \A h, l \in 1 .. Len(left) : left[h] = left[l] => h = l
  BY <1>7, <1>8
<1>17. \A h \in 1 .. Len(left), i \in 1 .. m, l \in 1 .. n : left[h] # R[i][l]
  <2>1. ASSUME NEW h \in 1 .. rest, NEW i \in 1 .. m, NEW l \in 1 .. n
        PROVE  left[h] # R[i][l]
    BY <1>7, <1>8
  <2> QED
    BY <1>8, <2>1
<1>18. top + more \in Nat
  BY <1>0
<1>19. OnceBut(top + more, left, m, R, n, L)
  BY <1>0, <1>d, <1>8, <1>11, <1>12, <1>13, <1>14, <1>15, <1>16, <1>17, <1>18, Zenon
     DEF OnceBut
<1> QED
  BY <1>2, <1>4, <1>5, <1>6, <1>19

(* A row goes back to the stack.                                           *)
GivenBack(i, top, stack, m, R, n, stack2, R2) ==
    /\ DOMAIN R2 = 1 .. m - 1 /\ R2 = [j \in 1 .. m - 1 |-> R2[j]]
    /\ \A j \in 1 .. m - 1 : R2[j] = IF j < i THEN R[j] ELSE R[j + 1]
    /\ stack2 \in Seq(1 .. top) /\ Len(stack2) = Len(stack) + n
    /\ \A h \in 1 .. Len(stack) : stack2[h] = stack[h]
    /\ \A k \in 1 .. n : stack2[Len(stack) + k] = R[i][k]

LEMMA OnceGives ==
    ASSUME NEW top, NEW stack, NEW m, NEW R, NEW n, NEW i \in 1 .. m, NEW stack2, NEW R2,
           Once(top, stack, m, R, n), GivenBack(i, top, stack, m, R, n, stack2, R2)
    PROVE  Once(top, stack2, m - 1, R2, n)
<1>g. /\ DOMAIN R2 = 1 .. m - 1 /\ R2 = [j \in 1 .. m - 1 |-> R2[j]]
      /\ \A j \in 1 .. m - 1 : R2[j] = IF j < i THEN R[j] ELSE R[j + 1]
      /\ stack2 \in Seq(1 .. top) /\ Len(stack2) = Len(stack) + n
      /\ \A h \in 1 .. Len(stack) : stack2[h] = stack[h]
      /\ \A k \in 1 .. n : stack2[Len(stack) + k] = R[i][k]
  BY DEF GivenBack
<1>0. top \in Nat /\ n \in Nat /\ m \in Nat /\ stack \in Seq(1 .. top) /\ Len(stack) \in Nat
  BY DEF Once
<1>1. PICK len \in Nat : len = Len(stack)
  BY <1>0
<1>2. /\ R \in [1 .. m -> [1 .. n -> 1 .. top]]
      /\ \A h, l \in 1 .. len : stack[h] = stack[l] => h = l
      /\ \A j, l \in 1 .. m, k, o \in 1 .. n : R[j][k] = R[l][o] => j = l /\ k = o
      /\ \A h \in 1 .. len, j \in 1 .. m, k \in 1 .. n : stack[h] # R[j][k]
      /\ \A o \in 1 .. top : \/ \E h \in 1 .. len : stack[h] = o
                             \/ \E j \in 1 .. m, k \in 1 .. n : R[j][k] = o
  BY <1>1 DEF Once
<1>3. ASSUME NEW j \in 1 .. m - 1
      PROVE  \E l \in 1 .. m : /\ l # i /\ R2[j] = R[l]
                               /\ \/ j < i /\ l = j
                                  \/ j >= i /\ l = j + 1
  <2>1. CASE j < i
    <3>1. j \in 1 .. m /\ j # i /\ R2[j] = R[j]
      BY <1>g, <1>0, <2>1
    <3> QED
      BY <2>1, <3>1
  <2>2. CASE ~(j < i)
    <3>1. j + 1 \in 1 .. m /\ j + 1 # i /\ R2[j] = R[j + 1] /\ j >= i
      BY <1>g, <1>0, <2>2
    <3> QED
      BY <3>1
  <2> QED
    BY <2>1, <2>2
<1>4. ASSUME NEW h \in 1 .. len + n
      PROVE  \/ h \in 1 .. len /\ stack2[h] = stack[h]
             \/ h - len \in 1 .. n /\ stack2[h] = R[i][h - len]
  <2>1. CASE h <= len
    BY <1>g, <1>1, <2>1
  <2>2. CASE ~(h <= len)
    <3>1. h - len \in 1 .. n /\ len + (h - len) = h
      BY <1>0, <2>2
    <3>2. stack2[len + (h - len)] = R[i][h - len]
      BY <1>g, <1>1, <3>1
    <3> QED
      BY <3>1, <3>2
  <2> QED
    BY <2>1, <2>2
<1>5. R2 \in [1 .. m - 1 -> [1 .. n -> 1 .. top]]
  <2>1. \A j \in 1 .. m - 1 : R2[j] \in [1 .. n -> 1 .. top]
    BY <1>2, <1>3
  <2> QED
    BY <1>g, <2>1
<1>6. ASSUME NEW h \in 1 .. len + n, NEW l \in 1 .. len + n, stack2[h] = stack2[l]
      PROVE  h = l
  <2>1. CASE h \in 1 .. len /\ stack2[h] = stack[h] /\ l \in 1 .. len /\ stack2[l] = stack[l]
    <3>1. stack[h] = stack[l]
      BY <1>6, <2>1
    <3> QED
      BY <1>2, <2>1, <3>1
  <2>2. CASE h \in 1 .. len /\ stack2[h] = stack[h] /\ l - len \in 1 .. n
             /\ stack2[l] = R[i][l - len]
    <3>1. stack[h] # R[i][l - len]
      BY <1>2, <2>2
    <3> QED
      BY <1>6, <2>2, <3>1
  <2>3. CASE l \in 1 .. len /\ stack2[l] = stack[l] /\ h - len \in 1 .. n
             /\ stack2[h] = R[i][h - len]
    <3>1. stack[l] # R[i][h - len]
      BY <1>2, <2>3
    <3> QED
      BY <1>6, <2>3, <3>1
  <2>4. CASE /\ h - len \in 1 .. n /\ stack2[h] = R[i][h - len]
             /\ l - len \in 1 .. n /\ stack2[l] = R[i][l - len]
    <3>1. R[i][h - len] = R[i][l - len]
      BY <1>6, <2>4
    <3>2. h - len = l - len
      BY <1>2, <2>4, <3>1
    <3> QED
      BY <1>0, <3>2
  <2> QED
    BY <1>4, <2>1, <2>2, <2>3, <2>4, Zenon
<1>7. ASSUME NEW j \in 1 .. m - 1, NEW l \in 1 .. m - 1, NEW k \in 1 .. n, NEW o \in 1 .. n,
             R2[j][k] = R2[l][o]
      PROVE  j = l /\ k = o
  <2>1. PICK j2 \in 1 .. m : /\ j2 # i /\ R2[j] = R[j2]
                             /\ \/ j < i /\ j2 = j
                                \/ j >= i /\ j2 = j + 1
    BY <1>3
  <2>2. PICK l2 \in 1 .. m : /\ l2 # i /\ R2[l] = R[l2]
                             /\ \/ l < i /\ l2 = l
                                \/ l >= i /\ l2 = l + 1
    BY <1>3
  <2>3. R[j2][k] = R[l2][o]
    BY <1>7, <2>1, <2>2
  <2>4. j2 = l2 /\ k = o
    BY <1>2, <2>3
  <2>5. i \in Nat /\ j \in Nat /\ l \in Nat
    BY <1>0
  <2>6. CASE j2 = j
    BY <2>1, <2>2, <2>4, <2>5, <2>6
  <2>7. CASE j2 = j + 1
    BY <2>1, <2>2, <2>4, <2>5, <2>7
  <2> QED
    BY <2>1, <2>6, <2>7
<1>8. ASSUME NEW h \in 1 .. len + n, NEW j \in 1 .. m - 1, NEW k \in 1 .. n
      PROVE  stack2[h] # R2[j][k]
  <2>1. PICK j2 \in 1 .. m : j2 # i /\ R2[j] = R[j2]
    BY <1>3
  <2>2. CASE h \in 1 .. len /\ stack2[h] = stack[h]
    BY <1>2, <2>1, <2>2
  <2>3. CASE h - len \in 1 .. n /\ stack2[h] = R[i][h - len]
    <3>1. R[i][h - len] # R[j2][k]
      BY <1>2, <2>1, <2>3
    <3> QED
      BY <2>1, <2>3, <3>1
  <2> QED
    BY <1>4, <2>2, <2>3
<1>9. ASSUME NEW o \in 1 .. top
      PROVE  \/ \E h \in 1 .. len + n : stack2[h] = o
             \/ \E j \in 1 .. m - 1, k \in 1 .. n : R2[j][k] = o
  <2>1. CASE \E h \in 1 .. len : stack[h] = o
    <3>1. PICK h \in 1 .. len : stack[h] = o
      BY <2>1
    <3>2. h \in 1 .. len + n
      BY <1>0
    <3> QED
      BY <1>g, <1>1, <3>1, <3>2
  <2>2. CASE \E j \in 1 .. m, k \in 1 .. n : R[j][k] = o
    <3>1. PICK j \in 1 .. m, k \in 1 .. n : R[j][k] = o
      BY <2>2
    <3>2. CASE j = i
      <4>1. len + k \in 1 .. len + n /\ stack2[len + k] = R[i][k]
        <5>1. len + k \in 1 .. len + n
          BY <1>0
        <5> QED
          BY <1>g, <1>1, <5>1
      <4> QED
        BY <3>1, <3>2, <4>1
    <3>3. CASE j < i
      <4>1. j \in 1 .. m - 1 /\ R2[j] = R[j]
        BY <1>g, <1>0, <3>3
      <4> QED
        BY <3>1, <4>1
    <3>4. CASE j > i
      <4>1. j - 1 \in 1 .. m - 1 /\ ~(j - 1 < i) /\ (j - 1) + 1 = j
        BY <1>0, <3>4
      <4>2. R2[j - 1] = R[(j - 1) + 1]
        BY <1>g, <4>1
      <4> QED
        BY <3>1, <4>1, <4>2
    <3> QED
      BY <1>0, <3>2, <3>3, <3>4
  <2> QED
    BY <1>2, <2>1, <2>2, Zenon
<1>10. m - 1 \in Nat
  BY <1>0
<1>11. Len(stack2) = len + n /\ stack2 \in Seq(1 .. top)
  BY <1>g, <1>1
<1> QED
  BY <1>0, <1>5, <1>6, <1>7, <1>8, <1>9, <1>10, <1>11, Zenon DEF Once
-----------------------------------------------------------------------------
LEMMA TaskConstants ==
    /\ MaxSources \in Nat /\ PerSource \in Nat /\ PerSource > 0
    /\ \A d \in TaskData : TaskBytes[d] \in Nat /\ Wanted[d] \in Nat /\ Wanted[d] > 0
<1>1. T!StreamingTaskAssumption
  BY MCAssumption
<1>2. MaxSources \in Nat /\ PerSource \in Nat /\ PerSource > 0 /\ TaskBytes \in [TaskData -> Nat]
  BY <1>1 DEF T!StreamingTaskAssumption
<1>3. ASSUME NEW d \in TaskData
      PROVE  Wanted[d] \in Nat /\ Wanted[d] > 0
  <2>1. Wanted[d] \in {4 * n : n \in 1 .. 10}
    BY <1>1 DEF T!StreamingTaskAssumption
  <2>2. PICK n \in 1 .. 10 : Wanted[d] = 4 * n
    BY <2>1
  <2> QED
    BY <2>2
<1> QED
  BY <1>2, <1>3

(* What QueueBuffer puts into the queue.                                   *)
LEMMA QueuedParts ==
    ASSUME NEW d \in TaskData, NEW p \in Nat, p <= TaskBytes[d], NEW z \in Nat, z > 0,
           NEW h \in Nat
    PROVE  /\ T!Read(d, p, z) = IF z < TaskBytes[d] - p THEN z ELSE TaskBytes[d] - p
           /\ T!Read(d, p, z) \in Nat
           /\ p = TaskBytes[d] => T!Queued(d, p, z, h) = <<>>
           /\ p # TaskBytes[d] =>
                 \E c \in Chunks : /\ T!Queued(d, p, z, h) = <<c>>
                                   /\ c.buffer = h /\ c.from = p
                                   /\ c.from + c.bytes >= p + T!Read(d, p, z)
<1>1. TaskBytes[d] \in Nat
  BY TaskConstants
<1>2. T!Read(d, p, z) = IF z < TaskBytes[d] - p THEN z ELSE TaskBytes[d] - p
  BY DEF T!Read, T!Lower
<1>3. PICK n \in Nat : n = T!Read(d, p, z)
  BY <1>1, <1>2
<1>4. p = TaskBytes[d] <=> n = 0
  BY <1>1, <1>2, <1>3
<1>5. PICK padded \in Nat : padded = T!Padded(n) /\ padded >= n
  <2>1. n % 4 \in Nat
    OBVIOUS
  <2>2. T!Padded(n) \in Nat /\ T!Padded(n) >= n
    BY <2>1 DEF T!Padded
  <2> QED
    BY <2>2
<1>6. T!Queued(d, p, z, h) = IF n = 0 THEN <<>> ELSE <<[buffer |-> h, from |-> p, bytes |-> padded]>>
  BY <1>3, <1>5 DEF T!Queued
<1>7. [buffer |-> h, from |-> p, bytes |-> padded] \in Chunks
  BY DEF Chunks
<1>8. p + padded >= p + n
  BY <1>5
<1> QED
  BY <1>1, <1>2, <1>3, <1>4, <1>6, <1>7, <1>8

(* The first buffers are filled without a gap, from the beginning.         *)
LEMMA FilledParts ==
    ASSUME NEW d \in TaskData, NEW z \in Nat, z > 0, NEW bs \in [1 .. PerSource -> Nat]
    PROVE  /\ T!Filled(d, z, bs) \in Seq(Chunks)
           /\ Len(T!Filled(d, z, bs)) <= PerSource
           /\ \A i \in 1 .. Len(T!Filled(d, z, bs)) : T!Filled(d, z, bs)[i].buffer = bs[i]
           /\ Continues(T!Filled(d, z, bs), 0, d, T!Lower(PerSource * z, TaskBytes[d]), 0)
<1>1. PICK bytes \in Nat : bytes = TaskBytes[d]
  BY TaskConstants
<1>2. PerSource \in Nat /\ PerSource > 0
  BY TaskConstants
<1>3. Len(bs) = PerSource
  BY <1>2
<1>4. PICK q : q = T!Filled(d, z, bs)
  OBVIOUS
<1>5. q = [i \in {j \in 1 .. PerSource : (j - 1) * z < bytes} |->
              T!Queued(d, (i - 1) * z, z, bs[i])[1]]
  BY <1>1, <1>3, <1>4 DEF T!Filled
<1> DEFINE Past == {j \in 1 .. PerSource : (j - 1) * z >= bytes} \cup {PerSource + 1}
<1>6. PICK n \in Nat : /\ n <= PerSource
                       /\ n < PerSource => n * z >= bytes
                       /\ \A j \in 1 .. n : (j - 1) * z < bytes
                       /\ \A j \in 1 .. PerSource : j > n => (j - 1) * z >= bytes
  <2>1. Min(Past) \in Past /\ \A y \in Past : Min(Past) <= y
    <3>1. Past \in SUBSET Nat /\ Past # {}
      BY <1>2
    <3> HIDE DEF Past
    <3> QED
      BY <3>1, MinOfNaturals
  <2>2. PICK o \in Past : \A y \in Past : o <= y
    BY <2>1
  <2>3. o \in 1 .. PerSource + 1 /\ o \in Int
    BY <1>2
  <2>4. ASSUME NEW j \in 1 .. o - 1
        PROVE  (j - 1) * z < bytes
    <3>1. j \in 1 .. PerSource /\ ~(o <= j)
      BY <1>2, <2>3
    <3>2. j \notin Past
      BY <2>2, <3>1
    <3>3. (j - 1) * z \in Nat
      BY <3>1
    <3> QED
      BY <1>1, <3>1, <3>2, <3>3
  <2>5. o - 1 < PerSource => (o - 1) * z >= bytes
    <3>1. o # PerSource + 1 => (o - 1) * z >= bytes
      OBVIOUS
    <3> QED
      BY <1>2, <2>3, <3>1
  <2>6. ASSUME NEW j \in 1 .. PerSource, j > o - 1
        PROVE  (j - 1) * z >= bytes
    <3>1. o - 1 < PerSource /\ o <= j
      BY <1>2, <2>3, <2>6
    <3>2. PICK k \in Nat : j - 1 = (o - 1) + k
      BY <2>3, <3>1
    <3>3. (j - 1) * z = (o - 1) * z + k * z /\ k * z \in Nat /\ (o - 1) * z \in Nat
      BY <2>3, <3>2
    <3> QED
      BY <1>1, <2>5, <3>1, <3>3
  <2>7. o - 1 \in Nat /\ o - 1 <= PerSource
    BY <1>2, <2>3
  <2> HIDE DEF Past
  <2> QED
    BY <2>4, <2>5, <2>6, <2>7
<1> HIDE DEF Past
<1>7. {j \in 1 .. PerSource : (j - 1) * z < bytes} = 1 .. n
  <2>1. ASSUME NEW j \in 1 .. PerSource, (j - 1) * z < bytes
        PROVE  j \in 1 .. n
    <3>1. (j - 1) * z \in Nat
      OBVIOUS
    <3>2. ~(j > n)
      BY <1>6, <2>1, <3>1
    <3> QED
      BY <3>2
  <2>2. \A j \in 1 .. n : j \in 1 .. PerSource
    BY <1>2, <1>6
  <2> QED
    BY <1>6, <2>1, <2>2
<1>8. q = [i \in 1 .. n |-> T!Queued(d, (i - 1) * z, z, bs[i])[1]]
  BY <1>5, <1>7
<1>9. ASSUME NEW i \in 1 .. n
      PROVE  /\ q[i] \in Chunks /\ q[i].buffer = bs[i]
             /\ q[i].from = (i - 1) * z /\ q[i].from \in Nat /\ q[i].from < bytes
             /\ q[i].bytes \in Nat
             /\ \/ q[i].from + q[i].bytes >= i * z
                \/ q[i].from + q[i].bytes >= bytes
  <2>1. PICK p \in Nat : p = (i - 1) * z /\ i * z = p + z /\ p < bytes
    BY <1>6
  <2>2. bs[i] \in Nat /\ p <= TaskBytes[d] /\ p # TaskBytes[d] /\ z > 0
    BY <1>1, <1>2, <1>6, <2>1
  <2>3. PICK c \in Chunks : /\ T!Queued(d, p, z, bs[i]) = <<c>>
                            /\ c.buffer = bs[i] /\ c.from = p
                            /\ c.from + c.bytes >= p + T!Read(d, p, z)
    BY <2>2, QueuedParts
  <2>4. q[i] = c
    BY <1>8, <2>1, <2>3
  <2>5. T!Read(d, p, z) = IF z < bytes - p THEN z ELSE bytes - p
    <3>1. T!Read(d, p, z) = IF z < TaskBytes[d] - p THEN z ELSE TaskBytes[d] - p
      BY <2>2, QueuedParts
    <3> QED
      BY <1>1, <3>1
  <2>6. c.bytes \in Nat
    BY DEF Chunks
  <2>7. \/ c.from + c.bytes >= p + z
        \/ c.from + c.bytes >= bytes
    BY <2>1, <2>3, <2>5, <2>6
  <2> QED
    BY <2>1, <2>3, <2>4, <2>6, <2>7
<1>10. q \in Seq(Chunks) /\ Len(q) = n
  <2>1. \A i \in 1 .. n : T!Queued(d, (i - 1) * z, z, bs[i])[1] \in Chunks
    BY <1>8, <1>9
  <2> QED
    BY <1>8, <2>1
<1>11. PICK p \in Nat : p = T!Lower(PerSource * z, bytes) /\ p <= bytes /\ p <= PerSource * z
                        /\ (bytes = 0 => p = 0)
  <2>1. PerSource * z \in Nat
    BY <1>2
  <2>2. PICK m \in Nat : m = PerSource * z
    BY <2>1
  <2>3. T!Lower(m, bytes) = IF m < bytes THEN m ELSE bytes
    BY DEF T!Lower
  <2> QED
    BY <2>2, <2>3
<1>12. q = <<>> => p = bytes /\ 0 = bytes
  <2>1. ASSUME q = <<>> PROVE 0 = bytes
    <3>1. n = 0
      BY <1>10, <2>1
    <3>2. 0 * z >= bytes
      BY <1>2, <1>6, <3>1
    <3> QED
      BY <3>2
  <2> QED
    BY <1>11, <2>1
<1>13. q # <<>> => /\ q[1].from <= 0
                   /\ q[Len(q)].from + q[Len(q)].bytes >= p
  <2>1. SUFFICES ASSUME q # <<>>
                 PROVE  q[1].from <= 0 /\ q[n].from + q[n].bytes >= p
    BY <1>10
  <2>2. n \in 1 .. n /\ 1 \in 1 .. n
    BY <1>10, <2>1, EmptySeq
  <2>3. q[1].from = (1 - 1) * z
    BY <1>9, <2>2
  <2>4. PICK m \in Nat : m = q[n].from + q[n].bytes /\ (m >= n * z \/ m >= bytes)
    <3>1. /\ q[n].from \in Nat /\ q[n].bytes \in Nat
          /\ \/ q[n].from + q[n].bytes >= n * z
             \/ q[n].from + q[n].bytes >= bytes
      BY <1>9, <2>2
    <3>2. q[n].from + q[n].bytes \in Nat
      BY <3>1
    <3> QED
      BY <3>1, <3>2
  <2>5. m >= p
    <3>1. CASE m >= bytes
      BY <1>11, <3>1
    <3>2. CASE m >= n * z /\ n < PerSource
      <4>1. n * z >= bytes /\ n * z \in Nat
        BY <1>6, <3>2
      <4> QED
        BY <1>11, <3>2, <4>1
    <3>3. CASE m >= n * z /\ n = PerSource
      <4>1. n * z \in Nat /\ p <= n * z
        BY <1>11, <3>3
      <4> QED
        BY <3>3, <4>1
    <3> QED
      BY <1>2, <1>6, <2>4, <3>1, <3>2, <3>3
  <2> QED
    BY <2>3, <2>4, <2>5
<1>14. ASSUME NEW j \in 1 .. n - 1
       PROVE  q[j + 1].from <= q[j].from + q[j].bytes
  <2>1. j \in 1 .. n /\ j + 1 \in 1 .. n /\ (j + 1) - 1 = j
    BY <1>6
  <2>2. PICK m \in Nat : m = q[j].from + q[j].bytes /\ (m >= j * z \/ m >= bytes)
    <3>1. /\ q[j].from \in Nat /\ q[j].bytes \in Nat
          /\ \/ q[j].from + q[j].bytes >= j * z
             \/ q[j].from + q[j].bytes >= bytes
      BY <1>9, <2>1
    <3>2. q[j].from + q[j].bytes \in Nat
      BY <3>1
    <3> QED
      BY <3>1, <3>2
  <2>3. q[j + 1].from = j * z /\ q[j + 1].from < bytes /\ q[j + 1].from \in Nat
    BY <1>9, <2>1
  <2>4. j * z \in Nat
    BY <2>3
  <2> QED
    BY <2>2, <2>3
<1>15. Continues(q, 0, d, p, 0)
  <2>1. \A j \in 1 .. Len(q) : q[j].from < bytes
    BY <1>9, <1>10
  <2>2. \A j \in 1 .. Len(q) - 1 : q[j + 1].from <= q[j].from + q[j].bytes
    BY <1>10, <1>14
  <2>3. \A j \in 1 .. 0 : FALSE
    OBVIOUS
  <2> QED
    BY <1>1, <1>12, <1>13, <2>1, <2>2, <2>3 DEF Continues
<1>16. \A i \in 1 .. Len(q) : q[i].buffer = bs[i]
  BY <1>9, <1>10
<1> QED
  BY <1>1, <1>4, <1>6, <1>10, <1>11, <1>15, <1>16
-----------------------------------------------------------------------------
(* What holds of a source r of OpenAL that streaming source i has, when    *)
(* GetData is at p and h has been played.                                  *)
Serves(r, i, p, h) ==
    /\ r \in SourceRecords
    /\ r.done <= Len(r.queue)
    /\ r.state \in {"playing", "paused"} => r.done < Len(r.queue)
    /\ \A k, j \in 1 .. Len(r.queue) : r.queue[k].buffer = r.queue[j].buffer => k = j
    /\ \A j \in 1 .. Len(r.queue) :
          \E k \in 1 .. PerSource : sources[i].buffers[k] = r.queue[j].buffer
    /\ Continues(r.queue, r.done, sources[i].data, p, h)

LEMMA SourceHas ==
    ASSUME TaskInv, NEW i \in 1 .. Len(sources)
    PROVE  /\ sources[i].data \in TaskData
           /\ sources[i].source \in 1 .. made.sources
           /\ sources[i].source \in 1 .. MaxSources
           /\ sources[i].buffers \in [1 .. PerSource -> 1 .. made.buffers]
           /\ Len(sources[i].buffers) = PerSource
           /\ \A j \in 1 .. Len(sources) : sources[j].source = sources[i].source => j = i
           /\ \A j \in 1 .. Len(sources) : sources[j].data = sources[i].data => j = i
           /\ Serves(al[sources[i].source], i, position[sources[i].data], heard[sources[i].data])
<1>1. PICK m \in Nat : m = Len(sources)
  BY DEF TaskInv, TaskTypes
<1>2. /\ PerSource \in Nat /\ MaxSources \in Nat /\ made.sources \in Nat
      /\ made.sources <= MaxSources
  BY TaskConstants DEF TaskInv, TaskTypes
<1>3. /\ sources[i].data \in TaskData
      /\ \A j \in 1 .. m : sources[j].data = sources[i].data => j = i
  <2>1. sources \in Seq(Streams)
    BY DEF TaskInv, TaskTypes
  <2>2. sources[i] \in Streams
    BY <2>1
  <2>3. sources[i].data \in TaskData
    BY <2>2 DEF Streams
  <2>4. \A j \in 1 .. m : sources[j].data = sources[i].data => j = i
    BY <1>1 DEF TaskInv, DataOnce
  <2> QED
    BY <2>3, <2>4
<1>4. /\ BuffersOf(sources) \in [1 .. m -> [1 .. PerSource -> 1 .. made.buffers]]
      /\ SourceOf(sources) \in [1 .. m -> [1 .. 1 -> 1 .. made.sources]]
      /\ \A k, j \in 1 .. m, l, o \in 1 .. 1 :
            SourceOf(sources)[k][l] = SourceOf(sources)[j][o] => k = j
  BY <1>1 DEF TaskInv, PoolsInv, OnceBut
<1>5. \A j \in 1 .. m : /\ SourceOf(sources)[j][1] = sources[j].source
                        /\ BuffersOf(sources)[j] = sources[j].buffers
  BY <1>1 DEF SourceOf, BuffersOf
<1>6. /\ sources[i].buffers \in [1 .. PerSource -> 1 .. made.buffers]
      /\ \A j \in 1 .. m : sources[j].source \in 1 .. made.sources
      /\ \A j \in 1 .. m : sources[j].source = sources[i].source => j = i
  <2>1. BuffersOf(sources)[i] \in [1 .. PerSource -> 1 .. made.buffers]
    BY <1>1, <1>4
  <2>2. PICK S : S = SourceOf(sources)
    OBVIOUS
  <2>3. /\ \A j \in 1 .. m : S[j][1] \in 1 .. made.sources
        /\ \A j \in 1 .. m : S[j][1] = S[i][1] => j = i
    <3>1. /\ S \in [1 .. m -> [1 .. 1 -> 1 .. made.sources]]
          /\ \A k, j \in 1 .. m, l, o \in 1 .. 1 : S[k][l] = S[j][o] => k = j
          /\ 1 \in 1 .. 1 /\ i \in 1 .. m
      BY <1>1, <1>4, <2>2
    <3> QED
      BY <3>1
  <2> QED
    BY <1>1, <1>5, <2>1, <2>2, <2>3
<1>7. sources[i].source \in 1 .. MaxSources
  BY <1>1, <1>2, <1>6
<1>8. Len(sources[i].buffers) = PerSource
  BY <1>2, <1>6
<1>9. PICK r : r = al[sources[i].source]
  OBVIOUS
<1>10. /\ r \in SourceRecords /\ r.done <= Len(r.queue)
       /\ r.state \in {"playing", "paused"} => r.done < Len(r.queue)
  BY <1>7, <1>9 DEF TaskInv, TaskTypes, DeviceInv
<1>11. /\ \A k, j \in 1 .. Len(r.queue) : r.queue[k].buffer = r.queue[j].buffer => k = j
       /\ \A j \in 1 .. Len(r.queue) : \E l \in 1 .. m, k \in 1 .. PerSource :
             /\ sources[l].source = sources[i].source
             /\ sources[l].buffers[k] = r.queue[j].buffer
  <2>1. Owned(r.queue, sources[i].source, sources)
    BY <1>7, <1>9 DEF TaskInv, QueueInv
  <2> QED
    BY <1>1, <2>1 DEF Owned
<1>12. ASSUME NEW j \in 1 .. Len(r.queue)
       PROVE  \E k \in 1 .. PerSource : sources[i].buffers[k] = r.queue[j].buffer
  <2>1. PICK l \in 1 .. m, k \in 1 .. PerSource :
             /\ sources[l].source = sources[i].source
             /\ sources[l].buffers[k] = r.queue[j].buffer
    BY <1>11
  <2>2. l = i
    BY <1>6, <2>1
  <2> QED
    BY <2>1, <2>2
<1>13. Continues(r.queue, r.done, sources[i].data, position[sources[i].data],
                 heard[sources[i].data])
  BY <1>1, <1>9 DEF TaskInv, ContinuesInv
<1>14. Serves(r, i, position[sources[i].data], heard[sources[i].data])
  BY <1>10, <1>11, <1>12, <1>13, Zenon DEF Serves
<1> QED
  BY <1>1, <1>3, <1>6, <1>7, <1>8, <1>9, <1>14

(* A step at one source that leaves the others and the stacks alone.       *)
LEMMA OneSourceChanges ==
    ASSUME TaskInv, FailInv',
           NEW i \in 1 .. Len(sources), NEW r, NEW p \in Nat, NEW h \in Nat,
           UNCHANGED <<free_sources, free_buffers, made, gone, sources, size>>,
           al' = [al EXCEPT ![sources[i].source] = r],
           position' = [position EXCEPT ![sources[i].data] = p],
           heard' = [heard EXCEPT ![sources[i].data] = h],
           p <= TaskBytes[sources[i].data], h <= TaskBytes[sources[i].data],
           Serves(r, i, p, h),
           at' \in 0 .. Len(sources), processed' \in Int, at' = 0 => processed' = -1,
           at' # 0 => processed' <= al'[sources[at'].source].done
    PROVE  TaskInv'
<1>1. /\ sources[i].data \in TaskData
      /\ sources[i].source \in 1 .. made.sources
      /\ sources[i].source \in 1 .. MaxSources
      /\ \A j \in 1 .. Len(sources) : sources[j].source = sources[i].source => j = i
      /\ \A j \in 1 .. Len(sources) : sources[j].data = sources[i].data => j = i
  BY SourceHas
<1>2. PICK source \in 1 .. MaxSources : source = sources[i].source
  BY <1>1
<1>3. PICK d \in TaskData : d = sources[i].data
  BY <1>1
<1>4. /\ r \in SourceRecords /\ r.done <= Len(r.queue)
      /\ r.state \in {"playing", "paused"} => r.done < Len(r.queue)
      /\ \A k, j \in 1 .. Len(r.queue) : r.queue[k].buffer = r.queue[j].buffer => k = j
      /\ \A j \in 1 .. Len(r.queue) :
            \E k \in 1 .. PerSource : sources[i].buffers[k] = r.queue[j].buffer
      /\ Continues(r.queue, r.done, d, p, h)
  BY <1>3 DEF Serves
<1>5. /\ al \in [1 .. MaxSources -> SourceRecords]
      /\ position \in [TaskData -> Nat] /\ heard \in [TaskData -> Nat]
      /\ \A o \in TaskData : position[o] <= TaskBytes[o] /\ heard[o] <= TaskBytes[o]
  BY DEF TaskInv, TaskTypes
<1>6. /\ al' \in [1 .. MaxSources -> SourceRecords]
      /\ al'[source] = r
      /\ \A s \in 1 .. MaxSources : s # source => al'[s] = al[s]
  BY <1>2, <1>4, <1>5
<1>7. /\ position' \in [TaskData -> Nat] /\ heard' \in [TaskData -> Nat]
      /\ position'[d] = p /\ heard'[d] = h
      /\ \A o \in TaskData : o # d => position'[o] = position[o] /\ heard'[o] = heard[o]
  BY <1>3, <1>5
<1>8. TaskTypes'
  <2>1. ASSUME NEW o \in TaskData
        PROVE  position'[o] <= TaskBytes[o] /\ heard'[o] <= TaskBytes[o]
    <3>1. CASE o = d
      BY <1>3, <1>7, <3>1
    <3>2. CASE o # d
      BY <1>5, <1>7, <3>2
    <3> QED
      BY <3>1, <3>2
  <2>2. /\ made' \in [sources : Nat, buffers : Nat] /\ made'.sources <= MaxSources
        /\ sources' \in Seq(Streams)
        /\ size' \in Nat /\ (sources' # <<>> => size' > 0)
        /\ at' \in 0 .. Len(sources')
    BY DEF TaskInv, TaskTypes
  <2> QED
    BY <1>6, <1>7, <2>1, <2>2 DEF TaskTypes
<1>9. PoolsInv' /\ DataOnce'
  <2>1. PoolsInv /\ DataOnce
    BY DEF TaskInv
  <2>2. /\ free_sources' = free_sources /\ free_buffers' = free_buffers
        /\ made' = made /\ gone' = gone /\ sources' = sources
    OBVIOUS
  <2>3. DataOnce'
    BY <2>1, <2>2 DEF DataOnce
  <2>4. BuffersOf(sources)' = BuffersOf(sources) /\ SourceOf(sources)' = SourceOf(sources)
    BY <2>2
  <2>5. /\ OnceBut(made'.buffers, free_buffers', Len(sources'), BuffersOf(sources)', PerSource,
                   gone'.buffers)
        /\ OnceBut(made'.sources, free_sources', Len(sources'), SourceOf(sources)', 1,
                   gone'.sources)
    BY <2>1, <2>2, <2>4 DEF PoolsInv
  <2>6. PoolsInv'
    BY <2>5 DEF PoolsInv, OnceBut
  <2> QED
    BY <2>3, <2>6
<1>10. DeviceInv'
  <2>1. ASSUME NEW s \in 1 .. MaxSources
        PROVE  /\ al'[s].done <= Len(al'[s].queue)
               /\ al'[s].state \in {"playing", "paused"} => al'[s].done < Len(al'[s].queue)
    <3>1. CASE s = source
      BY <1>4, <1>6, <3>1
    <3>2. CASE s # source
      BY <1>6, <3>2 DEF TaskInv, DeviceInv
    <3> QED
      BY <3>1, <3>2
  <2>2. at' # 0 => processed' <= al'[sources'[at'].source].done
    OBVIOUS
  <2> QED
    BY <2>1, <2>2 DEF DeviceInv
<1>11. QueueInv'
  <2>1. ASSUME NEW s \in 1 .. MaxSources
        PROVE  Owned(al'[s].queue, s, sources)
    <3>1. CASE s = source
      <4>1. al'[s] = r /\ sources[i].source = s
        BY <1>2, <1>6, <3>1
      <4>2. Owned(r.queue, s, sources)
        BY <1>4, <4>1 DEF Owned
      <4> QED
        BY <4>1, <4>2
    <3>2. CASE s # source
      <4>1. al'[s] = al[s]
        BY <1>6, <3>2
      <4>2. Owned(al[s].queue, s, sources)
        BY DEF TaskInv, QueueInv
      <4> QED
        BY <4>1, <4>2
    <3> QED
      BY <3>1, <3>2
  <2>2. sources' = sources
    OBVIOUS
  <2> QED
    BY <2>1, <2>2 DEF QueueInv, Owned
<1>12. ContinuesInv'
  <2>1. ASSUME NEW j \in 1 .. Len(sources)
        PROVE  Continues(al'[sources[j].source].queue, al'[sources[j].source].done,
                         sources[j].data, position'[sources[j].data], heard'[sources[j].data])
    <3>1. CASE j = i
      BY <1>2, <1>3, <1>4, <1>6, <1>7, <3>1
    <3>2. CASE j # i
      <4>1. sources[j].source # source /\ sources[j].data # d
        BY <1>1, <1>2, <1>3, <3>2
      <4>2. sources[j].source \in 1 .. MaxSources /\ sources[j].data \in TaskData
        BY SourceHas
      <4>3. /\ al'[sources[j].source] = al[sources[j].source]
            /\ position'[sources[j].data] = position[sources[j].data]
            /\ heard'[sources[j].data] = heard[sources[j].data]
        BY <1>6, <1>7, <4>1, <4>2
      <4>4. Continues(al[sources[j].source].queue, al[sources[j].source].done,
                      sources[j].data, position[sources[j].data], heard[sources[j].data])
        BY DEF TaskInv, ContinuesInv
      <4> QED
        BY <4>3, <4>4
    <3> QED
      BY <3>1, <3>2
  <2>2. sources' = sources
    OBVIOUS
  <2> QED
    BY <2>1, <2>2 DEF ContinuesInv, Continues
<1> QED
  BY <1>8, <1>9, <1>10, <1>11, <1>12 DEF TaskInv
-----------------------------------------------------------------------------
(* Releasing a streaming source gives back its source and its buffers.     *)
LEMMA ReleaseKeepsTaskInv ==
    ASSUME TaskInv, FailInv', ~failed, ~failed',
           NEW i \in 1 .. Len(sources), T!ReleaseStreamingSource(i),
           UNCHANGED <<size, position, heard>>,
           at' \in 0 .. Len(sources'), processed' = -1
    PROVE  TaskInv'
<1>1. /\ sources[i].data \in TaskData
      /\ sources[i].source \in 1 .. made.sources
      /\ sources[i].source \in 1 .. MaxSources
      /\ sources[i].buffers \in [1 .. PerSource -> 1 .. made.buffers]
      /\ Len(sources[i].buffers) = PerSource
      /\ \A j \in 1 .. Len(sources) : sources[j].source = sources[i].source => j = i
  BY SourceHas
<1>2. PICK n \in Nat : n = Len(sources) /\ i \in 1 .. n
  BY DEF TaskInv, TaskTypes
<1>3. sources \in Seq(Streams) /\ PerSource \in Nat
  BY TaskConstants DEF TaskInv, TaskTypes
<1>4. /\ sources' \in Seq(Streams) /\ Len(sources') = n - 1
      /\ \A j \in 1 .. n - 1 : sources'[j] = IF j < i THEN sources[j] ELSE sources[j + 1]
  <2>1. sources' = RemoveAt(sources, i)
    BY DEF T!ReleaseStreamingSource, T!RemoveAt, RemoveAt
  <2>2. /\ RemoveAt(sources, i) \in Seq(Streams) /\ Len(RemoveAt(sources, i)) = Len(sources) - 1
        /\ \A j \in 1 .. Len(sources) - 1 :
              RemoveAt(sources, i)[j] = IF j < i THEN sources[j] ELSE sources[j + 1]
    BY <1>3, RemoveAtParts, Zenon
  <2> QED
    BY <1>2, <2>1, <2>2
<1>5. ASSUME NEW j \in 1 .. n - 1
      PROVE  \E l \in 1 .. n : l # i /\ sources'[j] = sources[l]
                               /\ (j < i => l = j) /\ (j >= i => l = j + 1)
  <2>1. CASE j < i
    <3>1. j \in 1 .. n /\ j # i /\ sources'[j] = sources[j] /\ ~(j >= i)
      BY <1>2, <1>4, <2>1
    <3> QED
      BY <3>1
  <2>2. CASE ~(j < i)
    <3>1. j + 1 \in 1 .. n /\ j + 1 # i /\ sources'[j] = sources[j + 1]
      BY <1>2, <1>4, <2>2
    <3> QED
      BY <2>2, <3>1
  <2> QED
    BY <2>1, <2>2
<1>6. /\ al' = [al EXCEPT ![sources[i].source] = [T!Unused EXCEPT !.state = "stopped"]]
      /\ free_sources' = Append(free_sources, sources[i].source)
      /\ free_buffers' = free_buffers \o sources[i].buffers
      /\ made' = made /\ gone' = gone
  BY DEF T!ReleaseStreamingSource
<1>7. PICK r \in SourceRecords : /\ r = [T!Unused EXCEPT !.state = "stopped"]
                                 /\ r.queue = <<>> /\ r.done = 0 /\ r.state = "stopped"
  <2>1. [state |-> "stopped", queue |-> <<>>, done |-> 0] \in SourceRecords
    BY DEF SourceRecords
  <2>2. [T!Unused EXCEPT !.state = "stopped"] = [state |-> "stopped", queue |-> <<>>, done |-> 0]
    BY DEF T!Unused
  <2> QED
    BY <2>1, <2>2
<1>8. /\ al' \in [1 .. MaxSources -> SourceRecords]
      /\ al'[sources[i].source] = r
      /\ \A s \in 1 .. MaxSources : s # sources[i].source => al'[s] = al[s]
  <2>1. al \in [1 .. MaxSources -> SourceRecords]
    BY DEF TaskInv, TaskTypes
  <2> QED
    BY <1>1, <1>6, <1>7, <2>1
<1>9. TaskTypes'
  <2>1. size' \in Nat /\ (sources' # <<>> => size' > 0)
    <3>1. sources # <<>>
      BY <1>2, <1>3, EmptySeq
    <3> QED
      BY <3>1 DEF TaskInv, TaskTypes
  <2>2. /\ made' \in [sources : Nat, buffers : Nat] /\ made'.sources <= MaxSources
        /\ position' \in [TaskData -> Nat] /\ heard' \in [TaskData -> Nat]
        /\ \A d \in TaskData : position'[d] <= TaskBytes[d] /\ heard'[d] <= TaskBytes[d]
    BY <1>6 DEF TaskInv, TaskTypes
  <2> QED
    BY <1>4, <1>8, <2>1, <2>2 DEF TaskTypes
<1>10. DataOnce'
  <2>1. ASSUME NEW j \in 1 .. n - 1, NEW k \in 1 .. n - 1, sources'[j].data = sources'[k].data
        PROVE  j = k
    <3>1. PICK j2 \in 1 .. n : /\ j2 # i /\ sources'[j] = sources[j2]
                               /\ (j < i => j2 = j) /\ (j >= i => j2 = j + 1)
      BY <1>5
    <3>2. PICK k2 \in 1 .. n : /\ k2 # i /\ sources'[k] = sources[k2]
                               /\ (k < i => k2 = k) /\ (k >= i => k2 = k + 1)
      BY <1>5
    <3>3. j2 = k2
      BY <1>2, <2>1, <3>1, <3>2 DEF TaskInv, DataOnce
    <3>4. i \in Nat /\ j \in Nat /\ k \in Nat
      BY <1>2
    <3>5. CASE j < i
      BY <3>1, <3>2, <3>3, <3>4, <3>5
    <3>6. CASE j >= i
      BY <3>1, <3>2, <3>3, <3>4, <3>6
    <3> QED
      BY <3>4, <3>5, <3>6
  <2> QED
    BY <1>4, <2>1 DEF DataOnce
<1>11. Once(made'.buffers, free_buffers', Len(sources'), BuffersOf(sources'), PerSource)
  <2>1. PICK R : R = BuffersOf(sources)
    OBVIOUS
  <2>2. PICK R2 : R2 = BuffersOf(sources')
    OBVIOUS
  <2>3. \A j \in 1 .. n : R[j] = sources[j].buffers
    BY <1>2, <2>1 DEF BuffersOf
  <2>4. R2 = [j \in 1 .. n - 1 |-> sources'[j].buffers]
    BY <1>4, <2>2 DEF BuffersOf
  <2>5. /\ DOMAIN R2 = 1 .. n - 1 /\ R2 = [j \in 1 .. n - 1 |-> R2[j]]
        /\ \A j \in 1 .. n - 1 : R2[j] = sources'[j].buffers
    BY <2>4
  <2>6. ASSUME NEW j \in 1 .. n - 1
        PROVE  R2[j] = IF j < i THEN R[j] ELSE R[j + 1]
    <3>1. CASE j < i
      <4>1. j \in 1 .. n /\ sources'[j] = sources[j]
        BY <1>2, <1>4, <3>1
      <4> QED
        BY <2>3, <2>5, <3>1, <4>1
    <3>2. CASE ~(j < i)
      <4>1. j + 1 \in 1 .. n /\ sources'[j] = sources[j + 1]
        BY <1>2, <1>4, <3>2
      <4> QED
        BY <2>3, <2>5, <3>2, <4>1
    <3> QED
      BY <3>1, <3>2
  <2>7. Once(made.buffers, free_buffers, n, R, PerSource)
    BY <1>2, <2>1, PoolsWhole
  <2>8. free_buffers \in Seq(1 .. made.buffers)
    BY <2>7 DEF Once
  <2>9. sources[i].buffers \in Seq(1 .. made.buffers)
    <3>1. PICK f : f = sources[i].buffers
      OBVIOUS
    <3>2. f = [k \in 1 .. PerSource |-> f[k]] /\ \A k \in 1 .. PerSource : f[k] \in 1 .. made.buffers
      BY <1>1, <3>1
    <3>3. f \in Seq(1 .. made.buffers)
      <4>1. PICK S : S = 1 .. made.buffers
        OBVIOUS
      <4>2. PICK m \in Nat : m = PerSource
        BY <1>3
      <4>3. f = [k \in 1 .. m |-> f[k]] /\ \A k \in 1 .. m : f[k] \in S
        BY <3>2, <4>1, <4>2
      <4>4. f \in Seq(S)
        BY <4>3
      <4> QED
        BY <4>1, <4>4
    <3> QED
      BY <3>1, <3>3
  <2>10. /\ free_buffers' \in Seq(1 .. made.buffers)
         /\ Len(free_buffers') = Len(free_buffers) + PerSource
         /\ \A h \in 1 .. Len(free_buffers) : free_buffers'[h] = free_buffers[h]
         /\ \A k \in 1 .. PerSource : free_buffers'[Len(free_buffers) + k] = sources[i].buffers[k]
    <3>1. PICK u \in Seq(1 .. made.buffers) : u = free_buffers
      BY <2>8
    <3>2. PICK v \in Seq(1 .. made.buffers) : v = sources[i].buffers /\ Len(v) = PerSource
      BY <1>1, <2>9
    <3>3. u \o v \in Seq(1 .. made.buffers) /\ Len(u \o v) = Len(u) + Len(v)
      BY ConcatProperties
    <3>4. /\ \A h \in 1 .. Len(u) : (u \o v)[h] = u[h]
          /\ \A k \in 1 .. Len(v) : (u \o v)[Len(u) + k] = v[k]
      BY <3>1, <3>2
    <3> QED
      BY <1>6, <3>1, <3>2, <3>3, <3>4
  <2>11. \A k \in 1 .. PerSource : free_buffers'[Len(free_buffers) + k] = R[i][k]
    BY <1>2, <2>3, <2>10
  <2>12. GivenBack(i, made.buffers, free_buffers, n, R, PerSource, free_buffers', R2)
    BY <2>5, <2>6, <2>10, <2>11, Zenon DEF GivenBack
  <2>13. Once(made.buffers, free_buffers', n - 1, R2, PerSource)
    BY <1>2, <2>7, <2>12, OnceGives, Zenon
  <2> QED
    BY <1>4, <1>6, <2>2, <2>13
<1>12. Once(made'.sources, free_sources', Len(sources'), SourceOf(sources'), 1)
  <2>1. PICK R : R = SourceOf(sources)
    OBVIOUS
  <2>2. PICK R2 : R2 = SourceOf(sources')
    OBVIOUS
  <2>3. \A j \in 1 .. n : R[j] = [k \in 1 .. 1 |-> sources[j].source]
    BY <1>2, <2>1 DEF SourceOf
  <2>4. R2 = [j \in 1 .. n - 1 |-> [k \in 1 .. 1 |-> sources'[j].source]]
    BY <1>4, <2>2 DEF SourceOf
  <2>5. /\ DOMAIN R2 = 1 .. n - 1 /\ R2 = [j \in 1 .. n - 1 |-> R2[j]]
        /\ \A j \in 1 .. n - 1 : R2[j] = [k \in 1 .. 1 |-> sources'[j].source]
    BY <2>4
  <2>6. ASSUME NEW j \in 1 .. n - 1
        PROVE  R2[j] = IF j < i THEN R[j] ELSE R[j + 1]
    <3>1. CASE j < i
      <4>1. j \in 1 .. n /\ sources'[j] = sources[j]
        BY <1>2, <1>4, <3>1
      <4> QED
        BY <2>3, <2>5, <3>1, <4>1
    <3>2. CASE ~(j < i)
      <4>1. j + 1 \in 1 .. n /\ sources'[j] = sources[j + 1]
        BY <1>2, <1>4, <3>2
      <4> QED
        BY <2>3, <2>5, <3>2, <4>1
    <3> QED
      BY <3>1, <3>2
  <2>7. Once(made.sources, free_sources, n, R, 1)
    BY <1>2, <2>1, PoolsWhole
  <2>8. free_sources \in Seq(1 .. made.sources)
    BY <2>7 DEF Once
  <2>9. /\ free_sources' \in Seq(1 .. made.sources)
        /\ Len(free_sources') = Len(free_sources) + 1
        /\ \A h \in 1 .. Len(free_sources) : free_sources'[h] = free_sources[h]
        /\ \A k \in 1 .. 1 : free_sources'[Len(free_sources) + k] = R[i][k]
    <3>1. free_sources'[Len(free_sources) + 1] = sources[i].source
      BY <1>1, <1>6, <2>8
    <3>2. R[i][1] = sources[i].source
      <4>1. \A j \in 1 .. n : R[j][1] = sources[j].source
        BY <1>2, <2>1 DEF SourceOf
      <4> QED
        BY <1>2, <4>1
    <3>3. \A k \in 1 .. 1 : k = 1
      OBVIOUS
    <3> QED
      BY <1>1, <1>6, <2>8, <3>1, <3>2, <3>3
  <2>10. GivenBack(i, made.sources, free_sources, n, R, 1, free_sources', R2)
    BY <2>5, <2>6, <2>9, Zenon DEF GivenBack
  <2>11. Once(made.sources, free_sources', n - 1, R2, 1)
    BY <1>2, <2>7, <2>10, OnceGives, Zenon
  <2> QED
    BY <1>4, <1>6, <2>2, <2>11
<1>13. PoolsInv'
  <2>1. gone'.buffers = {} /\ gone'.sources = {}
    BY <1>6, PoolsWhole
  <2>2. /\ OnceBut(made'.buffers, free_buffers', Len(sources'), BuffersOf(sources'), PerSource,
                   gone'.buffers)
        /\ OnceBut(made'.sources, free_sources', Len(sources'), SourceOf(sources'), 1,
                   gone'.sources)
    BY <1>11, <1>12, <2>1, NothingButNothing
  <2> QED
    BY <2>2 DEF PoolsInv, OnceBut, BuffersOf, SourceOf
<1>14. DeviceInv'
  <2>1. ASSUME NEW s \in 1 .. MaxSources
        PROVE  /\ al'[s].done <= Len(al'[s].queue)
               /\ al'[s].state \in {"playing", "paused"} => al'[s].done < Len(al'[s].queue)
    <3>1. CASE s = sources[i].source
      <4>1. al'[s].queue = <<>> /\ al'[s].done = 0 /\ al'[s].state = "stopped"
        BY <1>7, <1>8, <3>1
      <4>2. Len(<<>>) = 0
        OBVIOUS
      <4> QED
        BY <4>1, <4>2
    <3>2. CASE s # sources[i].source
      BY <1>8, <3>2 DEF TaskInv, DeviceInv
    <3> QED
      BY <3>1, <3>2
  <2>2. ASSUME at' # 0
        PROVE  processed' <= al'[sources'[at'].source].done
    <3>1. at' \in 1 .. n - 1
      BY <1>2, <1>4, <2>2
    <3>2. PICK l \in 1 .. n : sources'[at'] = sources[l]
      BY <1>5, <3>1
    <3>3. sources[l].source \in 1 .. MaxSources
      BY <1>2, SourceHas
    <3>4. al'[sources'[at'].source].done \in Nat
      BY <1>8, <3>2, <3>3 DEF SourceRecords
    <3> QED
      BY <3>4
  <2> QED
    BY <2>1, <2>2 DEF DeviceInv
<1>15. QueueInv'
  <2>1. ASSUME NEW s \in 1 .. MaxSources
        PROVE  Owned(al'[s].queue, s, sources')
    <3>1. CASE s = sources[i].source
      <4>1. al'[s].queue = <<>>
        BY <1>7, <1>8, <3>1
      <4> QED
        BY <4>1 DEF Owned
    <3>2. CASE s # sources[i].source
      <4>1. PICK q : q = al[s].queue /\ q = al'[s].queue
        BY <1>8, <3>2
      <4>2. Owned(q, s, sources)
        BY <4>1 DEF TaskInv, QueueInv
      <4>3. ASSUME NEW j \in 1 .. Len(q)
            PROVE  \E l \in 1 .. Len(sources'), k \in 1 .. PerSource :
                      sources'[l].source = s /\ sources'[l].buffers[k] = q[j].buffer
        <5>1. PICK l \in 1 .. n, k \in 1 .. PerSource :
                  sources[l].source = s /\ sources[l].buffers[k] = q[j].buffer
          BY <1>2, <4>2 DEF Owned
        <5>2. l # i
          BY <3>2, <5>1
        <5>3. PICK o \in 1 .. n - 1 : sources'[o] = sources[l]
          <6>1. CASE l < i
            <7>1. l \in 1 .. n - 1 /\ sources'[l] = sources[l]
              BY <1>2, <1>4, <6>1
            <7> QED
              BY <7>1
          <6>2. CASE l > i
            <7>1. l - 1 \in 1 .. n - 1 /\ ~(l - 1 < i) /\ (l - 1) + 1 = l
              BY <1>2, <6>2
            <7>2. sources'[l - 1] = sources[(l - 1) + 1]
              BY <1>4, <7>1
            <7> QED
              BY <7>1, <7>2
          <6> QED
            BY <1>2, <5>2, <6>1, <6>2
        <5> QED
          BY <1>4, <5>1, <5>3
      <4> QED
        BY <4>1, <4>2, <4>3 DEF Owned
    <3> QED
      BY <3>1, <3>2
  <2> QED
    BY <2>1 DEF QueueInv, Owned
<1>16. ContinuesInv'
  <2>1. ASSUME NEW j \in 1 .. n - 1
        PROVE  Continues(al'[sources'[j].source].queue, al'[sources'[j].source].done,
                         sources'[j].data, position'[sources'[j].data], heard'[sources'[j].data])
    <3>1. PICK l \in 1 .. n : l # i /\ sources'[j] = sources[l]
      BY <1>5
    <3>2. sources[l].source # sources[i].source /\ sources[l].source \in 1 .. MaxSources
      BY <1>1, <1>2, <3>1, SourceHas
    <3>3. al'[sources[l].source] = al[sources[l].source]
      BY <1>8, <3>2
    <3>4. Continues(al[sources[l].source].queue, al[sources[l].source].done,
                    sources[l].data, position[sources[l].data], heard[sources[l].data])
      BY <1>2 DEF TaskInv, ContinuesInv
    <3>5. position' = position /\ heard' = heard
      OBVIOUS
    <3> QED
      BY <3>1, <3>3, <3>4, <3>5
  <2> QED
    BY <1>4, <2>1 DEF ContinuesInv, Continues
<1> QED
  BY <1>9, <1>10, <1>13, <1>14, <1>15, <1>16 DEF TaskInv
-----------------------------------------------------------------------------
(* OpenAL makes no more sources than it can.                               *)
LEMMA SourceIsMade ==
    ASSUME TaskInv, ~failed, T!CanMake
    PROVE  made.sources + T!NewlyMade(free_sources, 1) <= MaxSources
<1>1. /\ MaxSources \in Nat /\ made.sources \in Nat /\ made.sources <= MaxSources
      /\ Once(made.sources, free_sources, Len(sources), SourceOf(sources), 1)
  BY TaskConstants, PoolsWhole DEF TaskInv, TaskTypes
<1>2. CASE free_sources # <<>>
  <2>1. Len(free_sources) \in Nat /\ Len(free_sources) > 0
    BY <1>1, <1>2, EmptySeq DEF Once
  <2>2. T!NewlyMade(free_sources, 1) = 0
    BY <2>1 DEF T!NewlyMade
  <2> QED
    BY <1>1, <2>2
<1>3. CASE free_sources = <<>>
  <2>1. made.sources < MaxSources
    BY <1>3 DEF T!CanMake
  <2>2. T!NewlyMade(free_sources, 1) = 1
    BY <1>3 DEF T!NewlyMade
  <2> QED
    BY <1>1, <2>1, <2>2
<1> QED
  BY <1>2, <1>3

(* A new streaming source gets a source and buffers nobody has, and begins *)
(* with its first buffers filled.                                          *)
LEMMA CreateKeepsTaskInv ==
    ASSUME TaskInv, FailInv', NEW d \in TaskData, T!OnPlayMessageNew(d)
    PROVE  TaskInv'
<1> DEFINE source == T!Unstacked(free_sources, 1, made.sources)[1]
           buffers == T!Unstacked(free_buffers, PerSource, made.buffers)
<1>1. /\ ~T!Streams(d) /\ T!CanMake /\ at = 0 /\ at' = at /\ processed' = processed
      /\ made' = [sources |-> made.sources + T!NewlyMade(free_sources, 1),
                  buffers |-> made.buffers + T!NewlyMade(free_buffers, PerSource)]
      /\ free_sources' = T!Left(free_sources, 1)
      /\ free_buffers' = T!Left(free_buffers, PerSource)
      /\ size' = IF size < Wanted[d] THEN Wanted[d] ELSE size
      /\ position' = [position EXCEPT ![d] = T!Lower(PerSource * size', TaskBytes[d])]
      /\ sources' = Append(sources, [data |-> d, source |-> source, buffers |-> buffers])
      /\ al' = [al EXCEPT ![source] =
                   T!alSourcePlay([@ EXCEPT !.queue = T!Filled(d, size', buffers)])]
      /\ heard' = [heard EXCEPT ![d] = 0]
      /\ ~failed /\ gone' = gone
  BY DEF T!OnPlayMessageNew, T!Ready, T!CreateStreamingSource
<1>2. PICK n \in Nat : n = Len(sources)
  BY DEF TaskInv, TaskTypes
<1>3. PICK src : src = source
  OBVIOUS
<1>4. PICK bs : bs = buffers
  OBVIOUS
<1> HIDE DEF source, buffers
<1>5. /\ PerSource \in Nat /\ PerSource > 0 /\ MaxSources \in Nat
      /\ TaskBytes[d] \in Nat /\ Wanted[d] \in Nat /\ Wanted[d] > 0
  BY TaskConstants
<1>6. /\ made \in [sources : Nat, buffers : Nat] /\ made.sources <= MaxSources
      /\ sources \in Seq(Streams) /\ size \in Nat
      /\ position \in [TaskData -> Nat] /\ heard \in [TaskData -> Nat]
      /\ \A o \in TaskData : position[o] <= TaskBytes[o] /\ heard[o] <= TaskBytes[o]
      /\ al \in [1 .. MaxSources -> SourceRecords]
      /\ processed = -1
  BY <1>1 DEF TaskInv, TaskTypes
<1>7. /\ Once(made.buffers, free_buffers, n, BuffersOf(sources), PerSource)
      /\ Once(made.sources, free_sources, n, SourceOf(sources), 1)
  BY <1>1, <1>2, PoolsWhole
<1>8. PICK z \in Nat : z = size' /\ z > 0
  <2>1. size' \in Nat /\ size' > 0
    BY <1>1, <1>5, <1>6
  <2> QED
    BY <2>1
<1>9. PICK m : m = [data |-> d, source |-> src, buffers |-> bs]
  OBVIOUS
<1>10. bs = T!Unstacked(free_buffers, PerSource, made.buffers)
  BY <1>4 DEF buffers
<1>11. src = T!Unstacked(free_sources, 1, made.sources)[1]
  BY <1>3 DEF source
<1>12. /\ sources' = Append(sources, m) /\ Len(sources') = n + 1
       /\ sources'[n + 1] = m
       /\ \A j \in 1 .. n : sources'[j] = sources[j] /\ j \in 1 .. n + 1
       /\ n + 1 \in 1 .. n + 1
       /\ \A j \in 1 .. n + 1 : j \in 1 .. n \/ j = n + 1
       /\ m.data = d /\ m.source = src /\ m.buffers = bs
  BY <1>1, <1>2, <1>3, <1>4, <1>6, <1>9
<1>13. Once(made'.buffers, free_buffers', n + 1, BuffersOf(sources'), PerSource)
  <2>1. PICK R : R = BuffersOf(sources)
    OBVIOUS
  <2>2. PICK R2 : R2 = BuffersOf(sources')
    OBVIOUS
  <2>3. R2 = [j \in 1 .. n + 1 |-> sources'[j].buffers]
    BY <1>12, <2>2 DEF BuffersOf
  <2>4. /\ DOMAIN R2 = 1 .. n + 1 /\ R2 = [j \in 1 .. n + 1 |-> R2[j]]
        /\ \A j \in 1 .. n + 1 : R2[j] = sources'[j].buffers
    BY <2>3
  <2>5. \A j \in 1 .. n : R[j] = sources[j].buffers
    BY <1>2, <2>1 DEF BuffersOf
  <2>6. \A j \in 1 .. n : R2[j] = R[j]
    BY <1>12, <2>4, <2>5
  <2>7. R2[n + 1] = T!Unstacked(free_buffers, PerSource, made.buffers)
    BY <1>10, <1>12, <2>4
  <2>8. TakenFrom(made.buffers, free_buffers, n, R, PerSource, R2)
    BY <2>4, <2>6, <2>7, Zenon DEF TakenFrom
  <2>9. Once(made.buffers + T!NewlyMade(free_buffers, PerSource),
             T!Left(free_buffers, PerSource), n + 1, R2, PerSource)
    BY <1>7, <2>1, <2>8, OnceTakes, Zenon
  <2>10. made'.buffers = made.buffers + T!NewlyMade(free_buffers, PerSource)
    BY <1>1
  <2> QED
    BY <1>1, <2>2, <2>9, <2>10
<1>14. Once(made'.sources, free_sources', n + 1, SourceOf(sources'), 1)
  <2>1. PICK R : R = SourceOf(sources)
    OBVIOUS
  <2>2. PICK R2 : R2 = SourceOf(sources')
    OBVIOUS
  <2>3. R2 = [j \in 1 .. n + 1 |-> [k \in 1 .. 1 |-> sources'[j].source]]
    BY <1>12, <2>2 DEF SourceOf
  <2>4. /\ DOMAIN R2 = 1 .. n + 1 /\ R2 = [j \in 1 .. n + 1 |-> R2[j]]
        /\ \A j \in 1 .. n + 1 : R2[j] = [k \in 1 .. 1 |-> sources'[j].source]
    BY <2>3
  <2>5. \A j \in 1 .. n : R[j] = [k \in 1 .. 1 |-> sources[j].source]
    BY <1>2, <2>1 DEF SourceOf
  <2>6. ASSUME NEW j \in 1 .. n
        PROVE  R2[j] = R[j]
    <3>1. PICK o : o = sources[j].source /\ o = sources'[j].source
      BY <1>12
    <3>2. R2[j] = [k \in 1 .. 1 |-> o]
      BY <1>12, <2>4, <3>1
    <3>3. R[j] = [k \in 1 .. 1 |-> o]
      BY <2>5, <3>1
    <3> QED
      BY <3>2, <3>3
  <2>7. R2[n + 1] = T!Unstacked(free_sources, 1, made.sources)
    <3>1. PICK one : one = T!Unstacked(free_sources, 1, made.sources)
      OBVIOUS
    <3>2. one = [k \in 1 .. 1 |-> one[k]]
      BY <3>1 DEF T!Unstacked
    <3>3. one = [k \in 1 .. 1 |-> src]
      <4>1. src = one[1]
        BY <1>11, <3>1
      <4>2. \A k \in 1 .. 1 : k = 1
        OBVIOUS
      <4> QED
        BY <3>2, <4>1, <4>2
    <3>4. R2[n + 1] = [k \in 1 .. 1 |-> m.source]
      BY <1>12, <2>4
    <3> QED
      BY <1>12, <3>1, <3>3, <3>4
  <2>8. TakenFrom(made.sources, free_sources, n, R, 1, R2)
    BY <2>4, <2>6, <2>7, Zenon DEF TakenFrom
  <2>9. Once(made.sources + T!NewlyMade(free_sources, 1),
             T!Left(free_sources, 1), n + 1, R2, 1)
    BY <1>7, <2>1, <2>8, OnceTakes, Zenon
  <2>10. made'.sources = made.sources + T!NewlyMade(free_sources, 1)
    BY <1>1
  <2> QED
    BY <1>1, <2>2, <2>9, <2>10
<1>15. made' \in [sources : Nat, buffers : Nat] /\ made'.sources <= MaxSources
  <2>1. made'.sources \in Nat /\ made'.buffers \in Nat
    BY <1>13, <1>14 DEF Once
  <2>2. made' = [sources |-> made'.sources, buffers |-> made'.buffers]
    BY <1>1
  <2>3. made'.sources <= MaxSources
    BY <1>1, SourceIsMade
  <2> QED
    BY <2>1, <2>2, <2>3
<1>16. /\ bs \in [1 .. PerSource -> Nat]
       /\ \A k, j \in 1 .. PerSource : bs[k] = bs[j] => k = j
  <2>1. PICK R2 : R2 = BuffersOf(sources')
    OBVIOUS
  <2>2. R2[n + 1] = bs
    BY <1>12, <2>1 DEF BuffersOf
  <2>3. /\ R2 \in [1 .. n + 1 -> [1 .. PerSource -> 1 .. made'.buffers]]
        /\ \A i, j \in 1 .. n + 1, k, l \in 1 .. PerSource : R2[i][k] = R2[j][l] => i = j /\ k = l
    BY <1>13, <2>1 DEF Once
  <2>4. bs \in [1 .. PerSource -> 1 .. made'.buffers]
    BY <1>12, <2>2, <2>3
  <2>5. \A k, j \in 1 .. PerSource : bs[k] = bs[j] => k = j
    <3>1. n + 1 \in 1 .. n + 1
      BY <1>12
    <3>2. \A k, j \in 1 .. PerSource : R2[n + 1][k] = R2[n + 1][j] => k = j
      BY <2>3, <3>1, Zenon
    <3> QED
      BY <2>2, <3>2
  <2> QED
    BY <2>4, <2>5
<1>17. /\ src \in 1 .. MaxSources
       /\ \A j \in 1 .. n : sources[j].source # src
  <2>1. PICK R2 : R2 = SourceOf(sources')
    OBVIOUS
  <2>2. /\ R2 \in [1 .. n + 1 -> [1 .. 1 -> 1 .. made'.sources]]
        /\ \A i, j \in 1 .. n + 1, k, l \in 1 .. 1 : R2[i][k] = R2[j][l] => i = j /\ k = l
    BY <1>14, <2>1 DEF Once
  <2>3. 1 \in 1 .. 1
    OBVIOUS
  <2>4. \A j \in 1 .. n + 1 : R2[j][1] = sources'[j].source
    BY <1>12, <2>1 DEF SourceOf
  <2>5. R2[n + 1][1] = src
    BY <1>12, <2>4
  <2>6. src \in 1 .. made'.sources
    BY <1>12, <2>2, <2>3, <2>5
  <2>7. ASSUME NEW j \in 1 .. n, sources[j].source = src
        PROVE  FALSE
    <3>1. R2[j][1] = R2[n + 1][1]
      BY <1>12, <2>4, <2>5, <2>7
    <3>2. j = n + 1
      BY <1>12, <2>2, <2>3, <3>1, Zenon
    <3> QED
      BY <3>2
  <2> QED
    BY <1>5, <1>15, <2>6, <2>7
<1>18. al[src].queue = <<>> /\ al[src].done = 0 /\ al[src].state \notin {"playing", "paused"}
  <2>1. /\ al[src].queue \in Seq(Chunks) /\ al[src].done \in Nat
        /\ al[src].done <= Len(al[src].queue)
        /\ al[src].state \in {"playing", "paused"} => al[src].done < Len(al[src].queue)
    BY <1>6, <1>17 DEF SourceRecords, TaskInv, DeviceInv
  <2>2. Owned(al[src].queue, src, sources)
    BY <1>17 DEF TaskInv, QueueInv
  <2>3. ASSUME al[src].queue # <<>> PROVE FALSE
    <3>1. 1 \in 1 .. Len(al[src].queue)
      BY <2>1, <2>3, EmptySeq
    <3>2. \E i \in 1 .. n, k \in 1 .. PerSource : sources[i].source = src
      BY <1>2, <2>2, <3>1 DEF Owned
    <3> QED
      BY <1>17, <3>2
  <2>4. al[src].queue = <<>> => Len(al[src].queue) = 0
    OBVIOUS
  <2> QED
    BY <2>1, <2>3, <2>4
<1>19. PICK q \in Seq(Chunks) :
          /\ q = T!Filled(d, z, bs) /\ Len(q) <= PerSource
          /\ \A i \in 1 .. Len(q) : q[i].buffer = bs[i]
          /\ Continues(q, 0, d, T!Lower(PerSource * z, TaskBytes[d]), 0)
  BY <1>8, <1>16, FilledParts
<1>20. PICK r \in SourceRecords :
          /\ r = T!alSourcePlay([al[src] EXCEPT !.queue = T!Filled(d, z, bs)])
          /\ r.queue = q /\ r.done = 0
          /\ r.state \in {"playing", "paused"} => 0 < Len(q)
  <2>1. al[src] \in SourceRecords
    BY <1>6, <1>17
  <2>2. PICK u : u = [al[src] EXCEPT !.queue = T!Filled(d, z, bs)]
    OBVIOUS
  <2>3. /\ u \in SourceRecords /\ u.queue = q /\ u.done = 0
        /\ u.state \notin {"playing", "paused"}
    BY <1>18, <1>19, <2>1, <2>2 DEF SourceRecords
  <2>4. CASE q = <<>>
    <3>1. T!alSourcePlay(u) = [u EXCEPT !.state = "stopped"]
      BY <2>3, <2>4 DEF T!alSourcePlay
    <3>2. /\ [u EXCEPT !.state = "stopped"] \in SourceRecords
          /\ [u EXCEPT !.state = "stopped"].queue = q
          /\ [u EXCEPT !.state = "stopped"].done = 0
          /\ [u EXCEPT !.state = "stopped"].state = "stopped"
      BY <2>3 DEF SourceRecords
    <3> QED
      BY <2>2, <3>1, <3>2
  <2>5. CASE q # <<>>
    <3>1. T!alSourcePlay(u) = [u EXCEPT !.state = "playing", !.done = 0]
      BY <2>3, <2>5 DEF T!alSourcePlay
    <3>2. /\ [u EXCEPT !.state = "playing", !.done = 0] \in SourceRecords
          /\ [u EXCEPT !.state = "playing", !.done = 0].queue = q
          /\ [u EXCEPT !.state = "playing", !.done = 0].done = 0
      BY <2>3 DEF SourceRecords
    <3>3. 0 < Len(q)
      BY <1>19, <2>5, EmptySeq
    <3> QED
      BY <2>2, <3>1, <3>2, <3>3
  <2> QED
    BY <2>4, <2>5
<1>21. /\ al' \in [1 .. MaxSources -> SourceRecords]
       /\ al'[src] = r
       /\ \A s \in 1 .. MaxSources : s # src => al'[s] = al[s]
  <2>1. al' = [al EXCEPT ![src] = T!alSourcePlay([@ EXCEPT !.queue = T!Filled(d, z, bs)])]
    BY <1>1, <1>3, <1>4, <1>8
  <2>2. al' = [al EXCEPT ![src] = r]
    BY <1>6, <1>17, <1>20, <2>1
  <2> QED
    BY <1>6, <1>17, <2>2
<1>22. PICK p \in Nat : p = T!Lower(PerSource * z, TaskBytes[d]) /\ p <= TaskBytes[d]
  <2>1. PICK o \in Nat : o = PerSource * z
    BY <1>5
  <2>2. T!Lower(o, TaskBytes[d]) = IF o < TaskBytes[d] THEN o ELSE TaskBytes[d]
    BY DEF T!Lower
  <2>3. T!Lower(o, TaskBytes[d]) \in Nat /\ T!Lower(o, TaskBytes[d]) <= TaskBytes[d]
    BY <1>5, <2>2
  <2> QED
    BY <2>1, <2>3
<1>23. /\ position' \in [TaskData -> Nat] /\ heard' \in [TaskData -> Nat]
       /\ position'[d] = p /\ heard'[d] = 0
       /\ \A o \in TaskData : o # d => position'[o] = position[o] /\ heard'[o] = heard[o]
  <2>1. position' = [position EXCEPT ![d] = p]
    BY <1>1, <1>8, <1>22
  <2> QED
    BY <1>1, <1>6, <2>1
<1>24. \A j \in 1 .. n : sources[j].data # d
  BY <1>1, <1>2 DEF T!Streams
<1>25. TaskTypes'
  <2>1. sources' \in Seq(Streams)
    <3>1. src \in Nat
      BY <1>5, <1>17
    <3>2. m \in Streams
      BY <1>9, <1>16, <3>1 DEF Streams
    <3> QED
      BY <1>6, <1>12, <3>2
  <2>2. ASSUME NEW o \in TaskData
        PROVE  position'[o] <= TaskBytes[o] /\ heard'[o] <= TaskBytes[o]
    <3>1. CASE o = d
      BY <1>5, <1>22, <1>23, <3>1
    <3>2. CASE o # d
      BY <1>6, <1>23, <3>2
    <3> QED
      BY <3>1, <3>2
  <2>3. at' \in 0 .. Len(sources') /\ processed' \in Int /\ (at' = 0 => processed' = -1)
    BY <1>1, <1>6, <1>12
  <2> QED
    BY <1>8, <1>15, <1>21, <1>23, <2>1, <2>2, <2>3 DEF TaskTypes
<1>26. PoolsInv'
  <2>1. /\ Once(made'.buffers, free_buffers', Len(sources'), BuffersOf(sources'), PerSource)
        /\ Once(made'.sources, free_sources', Len(sources'), SourceOf(sources'), 1)
    BY <1>12, <1>13, <1>14
  <2>2. gone'.buffers = {} /\ gone'.sources = {}
    BY <1>1, PoolsWhole
  <2>3. /\ OnceBut(made'.buffers, free_buffers', Len(sources'), BuffersOf(sources'), PerSource,
                   gone'.buffers)
        /\ OnceBut(made'.sources, free_sources', Len(sources'), SourceOf(sources'), 1,
                   gone'.sources)
    BY <2>1, <2>2, NothingButNothing
  <2> QED
    BY <2>3 DEF PoolsInv, OnceBut, BuffersOf, SourceOf
<1>27. DataOnce'
  <2>1. ASSUME NEW i \in 1 .. n + 1, NEW j \in 1 .. n + 1, sources'[i].data = sources'[j].data
        PROVE  i = j
    <3>1. CASE i \in 1 .. n /\ j \in 1 .. n
      <4>1. sources[i].data = sources[j].data
        BY <1>12, <2>1, <3>1
      <4> QED
        BY <1>2, <3>1, <4>1 DEF TaskInv, DataOnce
    <3>2. CASE i \in 1 .. n /\ j = n + 1
      BY <1>12, <1>24, <2>1, <3>2
    <3>3. CASE i = n + 1 /\ j \in 1 .. n
      BY <1>12, <1>24, <2>1, <3>3
    <3> QED
      BY <1>12, <3>1, <3>2, <3>3, Zenon
  <2> QED
    BY <1>12, <2>1 DEF DataOnce
<1>28. DeviceInv'
  <2>1. ASSUME NEW s \in 1 .. MaxSources
        PROVE  /\ al'[s].done <= Len(al'[s].queue)
               /\ al'[s].state \in {"playing", "paused"} => al'[s].done < Len(al'[s].queue)
    <3>1. CASE s = src
      <4>1. al'[s] = r /\ Len(q) \in Nat
        BY <1>19, <1>21, <3>1
      <4> QED
        BY <1>20, <4>1
    <3>2. CASE s # src
      BY <1>21, <3>2 DEF TaskInv, DeviceInv
    <3> QED
      BY <3>1, <3>2
  <2> QED
    BY <1>1, <2>1 DEF DeviceInv
<1>29. QueueInv'
  <2>1. ASSUME NEW s \in 1 .. MaxSources
        PROVE  Owned(al'[s].queue, s, sources')
    <3>1. CASE s = src
      <4>1. al'[s].queue = q
        BY <1>20, <1>21, <3>1
      <4>2. ASSUME NEW j \in 1 .. Len(q)
            PROVE  /\ j \in 1 .. PerSource /\ q[j].buffer = bs[j]
                   /\ \E i \in 1 .. Len(sources'), k \in 1 .. PerSource :
                         sources'[i].source = s /\ sources'[i].buffers[k] = q[j].buffer
        <5>1. j \in 1 .. PerSource /\ q[j].buffer = bs[j]
          BY <1>5, <1>19
        <5>2. sources'[n + 1].source = s /\ sources'[n + 1].buffers[j] = bs[j]
          BY <1>12, <3>1
        <5> QED
          BY <1>12, <5>1, <5>2
      <4>3. ASSUME NEW k \in 1 .. Len(q), NEW j \in 1 .. Len(q), q[k].buffer = q[j].buffer
            PROVE  k = j
        BY <1>16, <4>2, <4>3
      <4> QED
        BY <4>1, <4>2, <4>3 DEF Owned
    <3>2. CASE s # src
      <4>1. PICK u : u = al[s].queue /\ u = al'[s].queue
        BY <1>21, <3>2
      <4>2. Owned(u, s, sources)
        BY <4>1 DEF TaskInv, QueueInv
      <4>3. ASSUME NEW j \in 1 .. Len(u)
            PROVE  \E i \in 1 .. Len(sources'), k \in 1 .. PerSource :
                      sources'[i].source = s /\ sources'[i].buffers[k] = u[j].buffer
        <5>1. PICK i \in 1 .. n, k \in 1 .. PerSource :
                  sources[i].source = s /\ sources[i].buffers[k] = u[j].buffer
          BY <1>2, <4>2 DEF Owned
        <5>2. i \in 1 .. n + 1 /\ sources'[i] = sources[i]
          BY <1>12
        <5> QED
          BY <1>12, <5>1, <5>2
      <4> QED
        BY <4>1, <4>2, <4>3 DEF Owned
    <3> QED
      BY <3>1, <3>2
  <2> QED
    BY <2>1 DEF QueueInv, Owned
<1>30. ContinuesInv'
  <2>1. ASSUME NEW j \in 1 .. n + 1
        PROVE  Continues(al'[sources'[j].source].queue, al'[sources'[j].source].done,
                         sources'[j].data, position'[sources'[j].data], heard'[sources'[j].data])
    <3>1. CASE j = n + 1
      <4>1. sources'[j].source = src /\ sources'[j].data = d
        BY <1>12, <3>1
      <4> QED
        BY <1>19, <1>20, <1>21, <1>22, <1>23, <4>1
    <3>2. CASE j \in 1 .. n
      <4>1. sources'[j] = sources[j] /\ sources[j].source # src /\ sources[j].data # d
        BY <1>12, <1>17, <1>24, <3>2
      <4>2. sources[j].source \in 1 .. MaxSources /\ sources[j].data \in TaskData
        BY <1>2, <3>2, SourceHas
      <4>3. /\ al'[sources[j].source] = al[sources[j].source]
            /\ position'[sources[j].data] = position[sources[j].data]
            /\ heard'[sources[j].data] = heard[sources[j].data]
        BY <1>21, <1>23, <4>1, <4>2
      <4>4. Continues(al[sources[j].source].queue, al[sources[j].source].done,
                      sources[j].data, position[sources[j].data], heard[sources[j].data])
        BY <1>2, <3>2 DEF TaskInv, ContinuesInv
      <4> QED
        BY <4>1, <4>3, <4>4
    <3> QED
      BY <1>12, <3>1, <3>2
  <2> QED
    BY <1>12, <2>1 DEF ContinuesInv, Continues
<1> QED
  BY <1>25, <1>26, <1>27, <1>28, <1>29, <1>30 DEF TaskInv
-----------------------------------------------------------------------------
LEMMA IndexParts ==
    ASSUME NEW d, T!Streams(d)
    PROVE  T!Index(d) \in 1 .. Len(sources) /\ sources[T!Index(d)].data = d
  BY DEF T!Streams, T!Index

LEMMA ServesParts ==
    ASSUME NEW r, NEW i, NEW p, NEW h, Serves(r, i, p, h)
    PROVE  /\ r \in SourceRecords /\ r.queue \in Seq(Chunks) /\ Len(r.queue) \in Nat
           /\ r.done \in Nat /\ r.done <= Len(r.queue)
           /\ r.state \in {"playing", "paused"} => r.done < Len(r.queue)
           /\ r.queue = <<>> <=> Len(r.queue) = 0
           /\ Continues(r.queue, r.done, sources[i].data, p, h)
<1>1. r \in SourceRecords
  BY DEF Serves
<1>2. r.queue \in Seq(Chunks) /\ r.done \in Nat
  BY <1>1 DEF SourceRecords
<1>3. Len(r.queue) \in Nat /\ (r.queue = <<>> <=> Len(r.queue) = 0)
  BY <1>2, EmptySeq
<1> QED
  BY <1>1, <1>2, <1>3 DEF Serves

(* Another state, and as many of the same buffers played, or none.         *)
LEMMA SameQueueServes ==
    ASSUME NEW r, NEW r2, NEW i, NEW p, NEW h, Serves(r, i, p, h),
           r2 \in SourceRecords, r2.queue = r.queue,
           r2.done = r.done \/ r2.done = 0,
           r2.state \in {"playing", "paused"} => r2.done < Len(r2.queue)
    PROVE  Serves(r2, i, p, h)
<1>1. /\ Len(r.queue) \in Nat /\ r.done \in Nat /\ r.done <= Len(r.queue)
      /\ Continues(r.queue, r.done, sources[i].data, p, h)
  BY ServesParts
<1>2. r2.done <= Len(r2.queue)
  BY <1>1
<1>3. Continues(r2.queue, r2.done, sources[i].data, p, h)
  <2>1. CASE r2.done = r.done
    BY <1>1, <2>1
  <2>2. CASE r2.done = 0
    <3>1. \A j \in 1 .. r2.done : FALSE
      BY <2>2
    <3> QED
      BY <1>1, <3>1 DEF Continues
  <2> QED
    BY <2>1, <2>2
<1> QED
  BY <1>2, <1>3 DEF Serves

LEMMA PlayServes ==
    ASSUME NEW r, NEW i, NEW p, NEW h, Serves(r, i, p, h)
    PROVE  Serves(T!alSourcePlay(r), i, p, h)
<1>1. /\ r \in SourceRecords /\ r.queue \in Seq(Chunks) /\ Len(r.queue) \in Nat
      /\ r.done \in Nat /\ r.done <= Len(r.queue)
      /\ r.state \in {"playing", "paused"} => r.done < Len(r.queue)
      /\ r.queue = <<>> <=> Len(r.queue) = 0
  BY ServesParts
<1>2. PICK r2 : r2 = T!alSourcePlay(r)
  OBVIOUS
<1>3. CASE r.state = "paused"
  <2>1. r2 = [r EXCEPT !.state = "playing"]
    BY <1>2, <1>3 DEF T!alSourcePlay
  <2>2. r2 \in SourceRecords /\ r2.queue = r.queue /\ r2.done = r.done
    BY <1>1, <2>1 DEF SourceRecords
  <2> QED
    BY <1>1, <1>2, <1>3, <2>2, SameQueueServes
<1>4. CASE r.state # "paused" /\ r.queue = <<>>
  <2>1. r2 = [r EXCEPT !.state = "stopped"]
    BY <1>2, <1>4 DEF T!alSourcePlay
  <2>2. r2 \in SourceRecords /\ r2.queue = r.queue /\ r2.done = r.done /\ r2.state = "stopped"
    BY <1>1, <2>1 DEF SourceRecords
  <2> QED
    BY <1>1, <1>2, <2>2, SameQueueServes
<1>5. CASE r.state # "paused" /\ r.queue # <<>>
  <2>1. r2 = [r EXCEPT !.state = "playing", !.done = 0]
    BY <1>2, <1>5 DEF T!alSourcePlay
  <2>2. r2 \in SourceRecords /\ r2.queue = r.queue /\ r2.done = 0
    BY <1>1, <2>1 DEF SourceRecords
  <2>3. r2.done < Len(r2.queue)
    BY <1>1, <1>5, <2>2
  <2> QED
    BY <1>2, <2>2, <2>3, SameQueueServes
<1> QED
  BY <1>3, <1>4, <1>5

LEMMA PauseServes ==
    ASSUME NEW r, NEW i, NEW p, NEW h, Serves(r, i, p, h)
    PROVE  Serves(T!alSourcePause(r), i, p, h)
<1>1. /\ r \in SourceRecords
      /\ r.state \in {"playing", "paused"} => r.done < Len(r.queue)
  BY ServesParts
<1>2. PICK r2 : r2 = T!alSourcePause(r)
  OBVIOUS
<1>3. CASE r.state = "playing"
  <2>1. r2 = [r EXCEPT !.state = "paused"]
    BY <1>2, <1>3 DEF T!alSourcePause
  <2>2. r2 \in SourceRecords /\ r2.queue = r.queue /\ r2.done = r.done
    BY <1>1, <2>1 DEF SourceRecords
  <2> QED
    BY <1>1, <1>2, <1>3, <2>2, SameQueueServes
<1>4. CASE r.state # "playing"
  BY <1>2, <1>4 DEF T!alSourcePause
<1> QED
  BY <1>3, <1>4

(* Only the source of OpenAL changes, nothing is read and nothing played.  *)
LEMMA SourceStatusChanges ==
    ASSUME TaskInv, FailInv', NEW i \in 1 .. Len(sources), NEW r,
           UNCHANGED <<free_sources, free_buffers, made, gone, sources, size, position, heard>>,
           al' = [al EXCEPT ![sources[i].source] = r],
           Serves(r, i, position[sources[i].data], heard[sources[i].data]),
           at' \in 0 .. Len(sources), processed' = -1
    PROVE  TaskInv'
<1>1. /\ sources[i].data \in TaskData /\ sources[i].source \in 1 .. MaxSources
  BY SourceHas
<1>2. /\ position \in [TaskData -> Nat] /\ heard \in [TaskData -> Nat]
      /\ \A o \in TaskData : position[o] <= TaskBytes[o] /\ heard[o] <= TaskBytes[o]
      /\ al \in [1 .. MaxSources -> SourceRecords]
  BY DEF TaskInv, TaskTypes
<1>3. PICK p \in Nat : p = position[sources[i].data] /\ p <= TaskBytes[sources[i].data]
  BY <1>1, <1>2
<1>4. PICK h \in Nat : h = heard[sources[i].data] /\ h <= TaskBytes[sources[i].data]
  BY <1>1, <1>2
<1>5. /\ position' = [position EXCEPT ![sources[i].data] = p]
      /\ heard' = [heard EXCEPT ![sources[i].data] = h]
  BY <1>2, <1>3, <1>4
<1>6. ASSUME at' # 0 PROVE processed' <= al'[sources[at'].source].done
  <2>1. at' \in 1 .. Len(sources)
    BY <1>6
  <2>2. sources[at'].source \in 1 .. MaxSources
    BY <2>1, SourceHas
  <2>3. r \in SourceRecords
    BY ServesParts
  <2>4. al'[sources[at'].source] \in SourceRecords
    BY <1>1, <1>2, <2>2, <2>3
  <2>5. al'[sources[at'].source].done \in Nat
    BY <2>4 DEF SourceRecords
  <2> QED
    BY <2>5
<1>7. Serves(r, i, p, h)
  BY <1>3, <1>4
<1>8. UNCHANGED <<free_sources, free_buffers, made, gone, sources, size>> /\ processed' \in Int
  OBVIOUS
<1>9. at' = 0 => processed' = -1
  OBVIOUS
<1> QED
  BY <1>3, <1>4, <1>5, <1>6, <1>7, <1>8, <1>9, OneSourceChanges
-----------------------------------------------------------------------------
(* A buffer that was played is filled again and goes to the end.           *)
Refilled(r, d, p, z) ==
    [r EXCEPT !.done = r.done - 1,
              !.queue = Tail(r.queue) \o T!Queued(d, p, z, Head(r.queue).buffer)]

LEMMA RefillServes ==
    ASSUME NEW r, NEW i, NEW d \in TaskData, NEW p \in Nat, NEW h \in Nat, NEW z \in Nat,
           z > 0, d = sources[i].data, p <= TaskBytes[d], h <= TaskBytes[d],
           Serves(r, i, p, h), r.done > 0
    PROVE  /\ Serves(Refilled(r, d, p, z), i, p + T!Read(d, p, z), h)
           /\ Refilled(r, d, p, z).done = r.done - 1
           /\ p + T!Read(d, p, z) \in Nat /\ p + T!Read(d, p, z) <= TaskBytes[d]
<1>r. PICK r2 : r2 = Refilled(r, d, p, z)
  OBVIOUS
<1>1. PICK end \in Nat : end = TaskBytes[d]
  BY TaskConstants
<1>2. PICK q \in Seq(Chunks) : q = r.queue
  BY ServesParts
<1>3. PICK n \in Nat : n = Len(q)
  OBVIOUS
<1>4. PICK k \in Nat : k = r.done /\ k > 0 /\ k <= n
  BY <1>2, <1>3, ServesParts
<1>5. /\ r \in SourceRecords /\ q # <<>> /\ n > 0
      /\ r.state \in {"playing", "paused"} => k < n
      /\ Continues(q, k, d, p, h)
  BY <1>2, <1>3, <1>4, ServesParts
<1>6. /\ \A l, j \in 1 .. n : q[l].buffer = q[j].buffer => l = j
      /\ \A j \in 1 .. n : \E o \in 1 .. PerSource : sources[i].buffers[o] = q[j].buffer
  BY <1>2, <1>3 DEF Serves
<1>7. \A j \in 1 .. n : /\ q[j] \in Chunks /\ q[j].from \in Nat /\ q[j].bytes \in Nat
                        /\ q[j].buffer \in Nat
  <2>1. \A j \in 1 .. n : q[j] \in Chunks
    BY <1>3
  <2>2. \A c \in Chunks : c.from \in Nat /\ c.bytes \in Nat /\ c.buffer \in Nat
    BY DEF Chunks
  <2> QED
    BY <2>1, <2>2
<1>8. /\ q[1].from <= h /\ q[n].from + q[n].bytes >= p
      /\ \A j \in 1 .. n : q[j].from < end
      /\ \A j \in 1 .. n - 1 : q[j + 1].from <= q[j].from + q[j].bytes
      /\ \A j \in 1 .. k : h >= q[j].from + q[j].bytes \/ h = end
  BY <1>1, <1>3, <1>5 DEF Continues
<1>9. PICK t \in Seq(Chunks) : /\ t = Tail(q) /\ Len(t) = n - 1 /\ Head(q) = q[1]
                               /\ \A j \in 1 .. n - 1 : t[j] = q[j + 1]
  BY <1>3, <1>5, TailParts
<1>10. PICK b1 \in Nat : b1 = q[1].buffer /\ 1 \in 1 .. n
  BY <1>5, <1>7
<1>11. PICK q2 : q2 = t \o T!Queued(d, p, z, b1)
  OBVIOUS
<1>12. r2 = [r EXCEPT !.done = k - 1, !.queue = q2]
  BY <1>r, <1>2, <1>4, <1>9, <1>10, <1>11 DEF Refilled
<1>13. PICK p2 : p2 = p + T!Read(d, p, z)
  OBVIOUS
<1>14. T!Read(d, p, z) = IF z < end - p THEN z ELSE end - p
  <2>1. T!Read(d, p, z) = IF z < TaskBytes[d] - p THEN z ELSE TaskBytes[d] - p
    BY <1>10, QueuedParts
  <2> QED
    BY <1>1, <2>1
<1>15. p2 \in Nat /\ p2 >= p /\ p2 <= end /\ p <= end /\ h <= end
  BY <1>1, <1>13, <1>14
<1>16. ASSUME q2 \in Seq(Chunks), NEW m \in Nat, Len(q2) = m,
              k - 1 <= m,
              r.state \in {"playing", "paused"} => k - 1 < m,
              \A l, j \in 1 .. m : q2[l].buffer = q2[j].buffer => l = j,
              \A j \in 1 .. m : \E o \in 1 .. n : q2[j].buffer = q[o].buffer,
              Continues(q2, k - 1, d, p2, h)
       PROVE  Serves(r2, i, p2, h) /\ r2.done = k - 1
  <2>1. /\ r2 \in SourceRecords /\ r2.done = k - 1 /\ r2.queue = q2 /\ r2.state = r.state
    <3>1. k - 1 \in Nat
      BY <1>4
    <3> QED
      BY <1>5, <1>12, <1>16, <3>1 DEF SourceRecords
  <2>2. ASSUME NEW j \in 1 .. Len(q2)
        PROVE  \E o \in 1 .. PerSource : sources[i].buffers[o] = q2[j].buffer
    <3>1. PICK o \in 1 .. n : q2[j].buffer = q[o].buffer
      BY <1>16
    <3> QED
      BY <1>6, <3>1
  <2>3. k - 1 <= Len(q2) /\ (r.state \in {"playing", "paused"} => k - 1 < Len(q2))
    BY <1>16
  <2>4. \A l, j \in 1 .. Len(q2) : q2[l].buffer = q2[j].buffer => l = j
    BY <1>16
  <2>5. Continues(r2.queue, r2.done, sources[i].data, p2, h)
    BY <1>16, <2>1
  <2>6. /\ r2.done <= Len(r2.queue)
        /\ r2.state \in {"playing", "paused"} => r2.done < Len(r2.queue)
    BY <2>1, <2>3
  <2>7. /\ \A l, j \in 1 .. Len(r2.queue) : r2.queue[l].buffer = r2.queue[j].buffer => l = j
        /\ \A j \in 1 .. Len(r2.queue) :
              \E o \in 1 .. PerSource : sources[i].buffers[o] = r2.queue[j].buffer
    <3>1. r2.queue = q2
      BY <2>1
    <3>2. \A j \in 1 .. Len(q2) : \E o \in 1 .. PerSource : sources[i].buffers[o] = q2[j].buffer
      BY <2>2
    <3>3. \A l, j \in 1 .. Len(r2.queue) : r2.queue[l].buffer = r2.queue[j].buffer => l = j
      BY <2>4, <3>1
    <3>4. \A j \in 1 .. Len(r2.queue) :
             \E o \in 1 .. PerSource : sources[i].buffers[o] = r2.queue[j].buffer
      BY <3>1, <3>2
    <3> QED
      BY <3>3, <3>4
  <2>8. r2 \in SourceRecords /\ r2.done = k - 1
    BY <2>1
  <2> QED
    BY <2>5, <2>6, <2>7, <2>8, Zenon DEF Serves
<1>17. CASE p = end
  <2>1. T!Queued(d, p, z, b1) = <<>>
    BY <1>1, <1>17, QueuedParts
  <2>2. q2 = t
    BY <1>11, <2>1
  <2>3. q2 \in Seq(Chunks) /\ Len(q2) = n - 1 /\ \A j \in 1 .. n - 1 : q2[j] = q[j + 1]
    BY <1>9, <2>2
  <2>4. n - 1 \in Nat /\ k - 1 <= n - 1 /\ (k < n => k - 1 < n - 1)
    BY <1>4, <1>5
  <2>5. \A j \in 1 .. n - 1 : j + 1 \in 1 .. n
    BY <1>3
  <2>6. ASSUME NEW l \in 1 .. n - 1, NEW j \in 1 .. n - 1, q2[l].buffer = q2[j].buffer
        PROVE  l = j
    <3>1. q[l + 1].buffer = q[j + 1].buffer
      BY <2>3, <2>6
    <3>2. l + 1 = j + 1
      BY <1>6, <2>5, <3>1
    <3> QED
      BY <3>2
  <2>7. \A j \in 1 .. n - 1 : \E o \in 1 .. n : q2[j].buffer = q[o].buffer
    BY <2>3, <2>5
  <2>8. p2 = end
    BY <1>15, <1>17
  <2>9. q2 = <<>> => h = end
    <3>1. ASSUME q2 = <<>> PROVE h = end
      <4>1. n = 1
        BY <1>5, <2>3, <3>1
      <4>2. h >= q[1].from + q[1].bytes \/ h = end
        BY <1>4, <1>8
      <4>3. q[1].from + q[1].bytes \in Nat
        BY <1>7, <1>10
      <4> QED
        BY <1>8, <1>15, <1>17, <4>1, <4>2, <4>3
    <3> QED
      BY <3>1
  <2>10. ASSUME q2 # <<>>
         PROVE  q2[1].from <= h /\ q2[n - 1].from + q2[n - 1].bytes >= p2
    <3>1. n > 1
      BY <1>5, <2>3, <2>10, EmptySeq
    <3>2. 1 \in 1 .. n - 1 /\ n - 1 \in 1 .. n - 1 /\ 1 + 1 \in 1 .. n /\ (n - 1) + 1 = n
      BY <3>1
    <3>3. q2[1] = q[1 + 1] /\ q2[n - 1] = q[n]
      BY <2>3, <3>2
    <3>4. q[1 + 1].from <= q[1].from + q[1].bytes /\ q[1 + 1].from < end
      BY <1>8, <3>2
    <3>5. h >= q[1].from + q[1].bytes \/ h = end
      BY <1>4, <1>8
    <3>6. q[1 + 1].from \in Nat /\ q[1].from + q[1].bytes \in Nat
      <4>1. \A j \in 1 .. n : q[j].from \in Nat /\ q[j].from + q[j].bytes \in Nat
        BY <1>7
      <4> QED
        BY <1>10, <3>2, <4>1
    <3>7. q[1 + 1].from <= h
      BY <1>15, <3>4, <3>5, <3>6
    <3>8. q[n].from + q[n].bytes >= p2
      BY <1>8, <1>17, <2>8
    <3> QED
      BY <3>3, <3>7, <3>8
  <2>11. \A j \in 1 .. n - 1 : q2[j].from < end
    BY <1>8, <2>3, <2>5
  <2>12. ASSUME NEW j \in 1 .. (n - 1) - 1
         PROVE  q2[j + 1].from <= q2[j].from + q2[j].bytes
    <3>1. j \in 1 .. n - 1 /\ j + 1 \in 1 .. n - 1
      BY <1>3
    <3>2. q2[j] = q[j + 1] /\ q2[j + 1] = q[(j + 1) + 1]
      BY <2>3, <3>1
    <3> QED
      BY <1>8, <3>1, <3>2
  <2>13. ASSUME NEW j \in 1 .. k - 1
         PROVE  h >= q2[j].from + q2[j].bytes \/ h = end
    <3>1. j \in 1 .. n - 1 /\ j + 1 \in 1 .. k
      BY <1>4
    <3>2. q2[j] = q[j + 1]
      BY <2>3, <3>1
    <3> QED
      BY <1>8, <3>1, <3>2
  <2>14. Continues(q2, k - 1, d, p2, h)
    BY <1>1, <2>3, <2>8, <2>9, <2>10, <2>11, <2>12, <2>13 DEF Continues
  <2>15. Serves(r2, i, p2, h) /\ r2.done = k - 1
    BY <1>5, <1>16, <2>3, <2>4, <2>6, <2>7, <2>14
  <2> QED
    BY <1>r, <1>1, <1>4, <1>13, <1>15, <2>15
<1>18. CASE p # end
  <2>1. PICK c \in Chunks : /\ T!Queued(d, p, z, b1) = <<c>>
                            /\ c.buffer = b1 /\ c.from = p /\ c.from + c.bytes >= p2
    <3>1. p <= TaskBytes[d] /\ p # TaskBytes[d]
      BY <1>1, <1>18
    <3>2. \E c \in Chunks : /\ T!Queued(d, p, z, b1) = <<c>>
                            /\ c.buffer = b1 /\ c.from = p
                            /\ c.from + c.bytes >= p + T!Read(d, p, z)
      BY <3>1, QueuedParts
    <3> QED
      BY <1>13, <3>2
  <2>2. q2 = Append(t, c)
    BY <1>11, <2>1
  <2>3. /\ q2 \in Seq(Chunks) /\ Len(q2) = n /\ q2[n] = c
        /\ \A j \in 1 .. n - 1 : q2[j] = q[j + 1]
    <3>1. Len(t) + 1 = n
      BY <1>9
    <3>2. /\ q2 \in Seq(Chunks) /\ Len(q2) = Len(t) + 1 /\ q2[Len(t) + 1] = c
          /\ \A j \in 1 .. Len(t) : q2[j] = t[j]
      BY <2>2
    <3> QED
      BY <1>9, <3>1, <3>2
  <2>4. k - 1 <= n /\ k - 1 < n
    BY <1>4
  <2>5. /\ \A j \in 1 .. n - 1 : j + 1 \in 1 .. n
        /\ \A j \in 1 .. n : j \in 1 .. n - 1 \/ j = n
    BY <1>3
  <2>6. ASSUME NEW l \in 1 .. n, NEW j \in 1 .. n, q2[l].buffer = q2[j].buffer
        PROVE  l = j
    <3>1. ASSUME NEW o \in 1 .. n - 1
          PROVE  q2[o].buffer # b1
      <4>1. q2[o].buffer = q[o + 1].buffer /\ o + 1 \in 1 .. n /\ o + 1 # 1
        BY <2>3, <2>5
      <4> QED
        BY <1>6, <1>10, <4>1
    <3>2. CASE l \in 1 .. n - 1 /\ j \in 1 .. n - 1
      <4>1. q[l + 1].buffer = q[j + 1].buffer
        BY <2>3, <2>6, <3>2
      <4>2. l + 1 = j + 1
        BY <1>6, <2>5, <3>2, <4>1
      <4> QED
        BY <4>2
    <3>3. CASE l \in 1 .. n - 1 /\ j = n
      BY <2>1, <2>3, <2>6, <3>1, <3>3
    <3>4. CASE l = n /\ j \in 1 .. n - 1
      BY <2>1, <2>3, <2>6, <3>1, <3>4
    <3> QED
      BY <2>5, <3>2, <3>3, <3>4, Zenon
  <2>7. ASSUME NEW j \in 1 .. n
        PROVE  \E o \in 1 .. n : q2[j].buffer = q[o].buffer
    <3>1. CASE j \in 1 .. n - 1
      BY <2>3, <2>5, <3>1
    <3>2. CASE j = n
      BY <1>10, <2>1, <2>3, <3>2
    <3> QED
      BY <2>5, <3>1, <3>2
  <2>8. q2 # <<>>
    BY <1>5, <2>3
  <2>9. q2[1].from <= h
    <3>1. h >= q[1].from + q[1].bytes \/ h = end
      BY <1>4, <1>8
    <3>2. q[1].from + q[1].bytes \in Nat
      BY <1>7, <1>10
    <3>3. CASE n = 1
      <4>1. q2[1].from = p
        BY <2>1, <2>3, <3>3
      <4>2. q[1].from + q[1].bytes >= p
        BY <1>8, <3>3
      <4> QED
        BY <1>15, <3>1, <3>2, <4>1, <4>2
    <3>4. CASE n # 1
      <4>1. 1 \in 1 .. n - 1 /\ 1 + 1 \in 1 .. n
        BY <1>5, <3>4
      <4>2. q2[1] = q[1 + 1]
        BY <2>3, <4>1
      <4>3. q[1 + 1].from <= q[1].from + q[1].bytes /\ q[1 + 1].from < end /\ q[1 + 1].from \in Nat
        BY <1>7, <1>8, <4>1
      <4>4. q[1 + 1].from <= h
        BY <1>15, <3>1, <3>2, <4>3
      <4> QED
        BY <4>2, <4>4
    <3> QED
      BY <3>3, <3>4
  <2>10. ASSUME NEW j \in 1 .. n
         PROVE  q2[j].from < end
    <3>1. CASE j \in 1 .. n - 1
      BY <1>8, <2>3, <2>5, <3>1
    <3>2. CASE j = n
      BY <1>15, <1>18, <2>1, <2>3, <3>2
    <3> QED
      BY <2>5, <3>1, <3>2
  <2>11. ASSUME NEW j \in 1 .. n - 1
         PROVE  q2[j + 1].from <= q2[j].from + q2[j].bytes
    <3>1. q2[j] = q[j + 1]
      BY <2>3
    <3>2. CASE j = n - 1
      <4>1. j + 1 = n
        BY <1>3, <3>2
      <4>2. q2[j + 1] = c /\ q2[j] = q[n]
        BY <2>3, <3>1, <4>1
      <4> QED
        BY <1>8, <2>1, <4>2
    <3>3. CASE j # n - 1
      <4>1. j + 1 \in 1 .. n - 1
        BY <1>3, <3>3
      <4>2. q2[j + 1] = q[(j + 1) + 1]
        BY <2>3, <4>1
      <4> QED
        BY <1>8, <3>1, <4>1, <4>2
    <3> QED
      BY <3>2, <3>3
  <2>12. ASSUME NEW j \in 1 .. k - 1
         PROVE  h >= q2[j].from + q2[j].bytes \/ h = end
    <3>1. j \in 1 .. n - 1 /\ j + 1 \in 1 .. k
      BY <1>4
    <3>2. q2[j] = q[j + 1]
      BY <2>3, <3>1
    <3> QED
      BY <1>8, <3>1, <3>2
  <2>13. q2[n].from + q2[n].bytes >= p2
    BY <2>1, <2>3
  <2>14. Continues(q2, k - 1, d, p2, h)
    BY <1>1, <2>3, <2>8, <2>9, <2>10, <2>11, <2>12, <2>13 DEF Continues
  <2>15. Serves(r2, i, p2, h) /\ r2.done = k - 1
    BY <1>3, <1>16, <2>3, <2>4, <2>6, <2>7, <2>14
  <2> QED
    BY <1>r, <1>1, <1>4, <1>13, <1>15, <2>15
<1> QED
  BY <1>17, <1>18
-----------------------------------------------------------------------------
LEMMA RefillKeepsTaskInv ==
    ASSUME TaskInv, FailInv', T!RefillBuffer
    PROVE  TaskInv'
<1>1. PICK i \in 1 .. Len(sources) : i = at
  BY DEF TaskInv, TaskTypes, T!RefillBuffer
<1>2. /\ sources[i].data \in TaskData /\ sources[i].source \in 1 .. MaxSources
      /\ Serves(al[sources[i].source], i, position[sources[i].data], heard[sources[i].data])
      /\ \A j \in 1 .. Len(sources) : sources[j].source = sources[i].source => j = i
  BY SourceHas
<1>3. PICK d \in TaskData : d = sources[i].data
  BY <1>2
<1>4. /\ position \in [TaskData -> Nat] /\ heard \in [TaskData -> Nat]
      /\ \A o \in TaskData : position[o] <= TaskBytes[o] /\ heard[o] <= TaskBytes[o]
      /\ al \in [1 .. MaxSources -> SourceRecords]
      /\ size \in Nat /\ processed \in Int
      /\ sources # <<>> => size > 0
  BY DEF TaskInv, TaskTypes
<1>5. size > 0
  <2>1. sources # <<>>
    OBVIOUS
  <2> QED
    BY <1>4, <2>1
<1>6. PICK r : r = al[sources[i].source]
  OBVIOUS
<1>7. processed > 0 /\ processed <= r.done
  BY <1>1, <1>6 DEF TaskInv, DeviceInv, T!RefillBuffer
<1>8. PICK p \in Nat : p = position[d]
  BY <1>4
<1>9. PICK h \in Nat : h = heard[d]
  BY <1>4
<1>10. PICK r2 : r2 = Refilled(r, d, p, size)
  OBVIOUS
<1>11. r.done \in Nat /\ r.done > 0 /\ Serves(r, i, p, h)
  <2>1. Serves(r, i, p, h)
    BY <1>2, <1>3, <1>6, <1>8, <1>9
  <2>2. r.done \in Nat
    BY <2>1, ServesParts
  <2> QED
    BY <1>4, <1>7, <2>1, <2>2
<1>12. PICK p2 \in Nat : p2 = p + T!Read(d, p, size) /\ p2 <= TaskBytes[d]
                         /\ Serves(r2, i, p2, h) /\ r2.done = r.done - 1
  <2>1. p <= TaskBytes[d] /\ h <= TaskBytes[d]
    BY <1>4, <1>8, <1>9
  <2>2. size \in Nat
    BY <1>4
  <2>3. /\ Serves(Refilled(r, d, p, size), i, p + T!Read(d, p, size), h)
        /\ Refilled(r, d, p, size).done = r.done - 1
        /\ p + T!Read(d, p, size) \in Nat /\ p + T!Read(d, p, size) <= TaskBytes[d]
    BY <1>3, <1>5, <1>11, <2>1, <2>2, RefillServes
  <2> QED
    BY <1>10, <2>3
<1>13. /\ al' = [al EXCEPT ![sources[i].source] = r2]
       /\ position' = [position EXCEPT ![sources[i].data] = p2]
       /\ heard' = [heard EXCEPT ![sources[i].data] = h]
  <2>1. /\ al' = [al EXCEPT ![sources[i].source] =
                     [@ EXCEPT !.done = r.done - 1,
                               !.queue = Tail(r.queue) \o
                                  T!Queued(d, p, size, Head(r.queue).buffer)]]
        /\ position' = [position EXCEPT ![d] = @ + T!Read(d, @, size)]
        /\ heard' = heard
    BY <1>1, <1>3, <1>6, <1>8 DEF T!RefillBuffer
  <2>2. al' = [al EXCEPT ![sources[i].source] = r2]
    BY <1>2, <1>4, <1>6, <1>10, <2>1 DEF Refilled
  <2>3. position' = [position EXCEPT ![d] = p2]
    BY <1>4, <1>8, <1>12, <2>1
  <2>4. heard' = [heard EXCEPT ![d] = h]
    BY <1>4, <1>9, <2>1
  <2> QED
    BY <1>3, <2>2, <2>3, <2>4
<1>14. /\ UNCHANGED <<free_sources, free_buffers, made, gone, sources, size>>
       /\ at' = at /\ processed' = processed - 1
  BY DEF T!RefillBuffer, T!pools
<1>15. at' \in 0 .. Len(sources) /\ processed' \in Int /\ at' # 0
  BY <1>1, <1>4, <1>14
<1>16. processed' <= al'[sources[at'].source].done
  <2>1. al'[sources[i].source] = r2
    BY <1>2, <1>4, <1>13
  <2>2. processed - 1 <= r.done - 1
    BY <1>4, <1>7, <1>11
  <2> QED
    BY <1>1, <1>12, <1>14, <2>1, <2>2
<1>17. h <= TaskBytes[d]
  BY <1>4, <1>9
<1> QED
  BY <1>3, <1>12, <1>13, <1>14, <1>15, <1>16, <1>17, OneSourceChanges

(* The device plays a buffer.                                              *)
LEMMA PlaysKeepsTaskInv ==
    ASSUME TaskInv, FailInv', NEW i \in 1 .. Len(sources), T!Plays(i)
    PROVE  TaskInv'
<1>1. /\ sources[i].data \in TaskData /\ sources[i].source \in 1 .. MaxSources
      /\ Serves(al[sources[i].source], i, position[sources[i].data], heard[sources[i].data])
  BY SourceHas
<1>2. PICK d \in TaskData : d = sources[i].data
  BY <1>1
<1>3. /\ position \in [TaskData -> Nat] /\ heard \in [TaskData -> Nat]
      /\ \A o \in TaskData : position[o] <= TaskBytes[o] /\ heard[o] <= TaskBytes[o]
      /\ al \in [1 .. MaxSources -> SourceRecords]
      /\ processed \in Int /\ at \in 0 .. Len(sources) /\ (at = 0 => processed = -1)
  BY DEF TaskInv, TaskTypes
<1>4. PICK r : r = al[sources[i].source]
  OBVIOUS
<1>5. PICK p \in Nat : p = position[d]
  BY <1>3
<1>6. PICK h \in Nat : h = heard[d]
  BY <1>3
<1>7. PICK end \in Nat : end = TaskBytes[d]
  BY TaskConstants
<1>8. Serves(r, i, p, h) /\ r.state = "playing"
  BY <1>1, <1>2, <1>4, <1>5, <1>6 DEF T!Plays
<1>9. /\ r \in SourceRecords /\ r.queue \in Seq(Chunks) /\ Len(r.queue) \in Nat
      /\ r.done \in Nat /\ r.done < Len(r.queue)
      /\ Continues(r.queue, r.done, d, p, h)
  BY <1>2, <1>8, ServesParts
<1>10. PICK c \in Chunks : c = r.queue[r.done + 1]
  <2>1. r.done + 1 \in 1 .. Len(r.queue)
    BY <1>9
  <2> QED
    BY <1>9, <2>1
<1>11. PICK stop \in Nat : stop = c.from + c.bytes
  BY DEF Chunks
<1>12. PICK h2 \in Nat : /\ h2 = IF T!Lower(stop, end) > h THEN T!Lower(stop, end) ELSE h
                         /\ h2 >= h /\ h2 <= end /\ (h2 >= stop \/ h2 = end)
  <2>1. h <= end
    BY <1>3, <1>6, <1>7
  <2>2. T!Lower(stop, end) = IF stop < end THEN stop ELSE end
    BY DEF T!Lower
  <2> QED
    BY <2>1, <2>2
<1>i. PICK st \in {"playing", "stopped"} :
         st = IF r.done + 1 = Len(r.queue) THEN "stopped" ELSE r.state
  BY <1>8
<1>13. PICK r2 : r2 = [r EXCEPT !.done = r.done + 1, !.state = st]
  OBVIOUS
<1>14. /\ r2 \in SourceRecords /\ r2.queue = r.queue /\ r2.done = r.done + 1
       /\ r.done + 1 = Len(r.queue) => r2.state = "stopped"
  <2>1. st \in {"initial", "playing", "paused", "stopped"} /\ r.done + 1 \in Nat
    BY <1>9
  <2>2. r2 \in SourceRecords /\ r2.queue = r.queue /\ r2.done = r.done + 1 /\ r2.state = st
    BY <1>9, <1>13, <2>1 DEF SourceRecords
  <2> QED
    BY <1>i, <2>2
<1>15. Serves(r2, i, p, h2)
  <2>1. r2.done <= Len(r2.queue) /\ (r2.state \in {"playing", "paused"} => r2.done < Len(r2.queue))
    BY <1>9, <1>14
  <2>2. Continues(r2.queue, r2.done, d, p, h2)
    <3>1. PICK q : q = r.queue
      OBVIOUS
    <3>2. PICK n \in Nat : n = Len(q)
      BY <1>9, <3>1
    <3>3. PICK k \in Nat : k = r.done /\ k < n
      BY <1>9, <3>1, <3>2
    <3>4. \A j \in 1 .. n : q[j].from \in Nat /\ q[j].from + q[j].bytes \in Nat
      <4>1. \A j \in 1 .. n : q[j] \in Chunks
        BY <1>9, <3>1, <3>2
      <4>2. \A u \in Chunks : u.from \in Nat /\ u.from + u.bytes \in Nat
        BY DEF Chunks
      <4> QED
        BY <4>1, <4>2
    <3>5. Continues(q, k, d, p, h)
      BY <1>9, <3>1, <3>3
    <3>6. q # <<>> /\ 1 \in 1 .. n
      BY <3>1, <3>2, <3>3
    <3>7. q[1].from <= h2
      <4>1. q[1].from <= h
        BY <3>5, <3>6 DEF Continues
      <4> QED
        BY <1>12, <3>4, <3>6, <4>1
    <3>8. ASSUME NEW j \in 1 .. k + 1
          PROVE  h2 >= q[j].from + q[j].bytes \/ h2 = TaskBytes[d]
      <4>1. CASE j = k + 1
        BY <1>7, <1>10, <1>11, <1>12, <3>1, <3>3, <4>1
      <4>2. CASE j # k + 1
        <5>1. j \in 1 .. k /\ j \in 1 .. n
          BY <3>3, <4>2
        <5>2. h >= q[j].from + q[j].bytes \/ h = end
          BY <1>7, <3>5, <5>1 DEF Continues
        <5>3. q[j].from + q[j].bytes \in Nat
          BY <3>4, <5>1
        <5> QED
          BY <1>7, <1>12, <5>2, <5>3
      <4> QED
        BY <4>1, <4>2
    <3>9. Continues(q, k + 1, d, p, h2)
      BY <3>5, <3>6, <3>7, <3>8 DEF Continues
    <3> QED
      BY <1>14, <3>1, <3>3, <3>9
  <2>3. /\ \A l, j \in 1 .. Len(r.queue) : r.queue[l].buffer = r.queue[j].buffer => l = j
        /\ \A j \in 1 .. Len(r.queue) :
              \E o \in 1 .. PerSource : sources[i].buffers[o] = r.queue[j].buffer
    BY <1>8 DEF Serves
  <2>4. /\ \A l, j \in 1 .. Len(r2.queue) : r2.queue[l].buffer = r2.queue[j].buffer => l = j
        /\ \A j \in 1 .. Len(r2.queue) :
              \E o \in 1 .. PerSource : sources[i].buffers[o] = r2.queue[j].buffer
    BY <1>14, <2>3
  <2>5. Continues(r2.queue, r2.done, sources[i].data, p, h2)
    BY <1>2, <2>2
  <2>6. r2 \in SourceRecords
    BY <1>14
  <2> QED
    BY <2>1, <2>4, <2>5, <2>6, Zenon DEF Serves
<1>16. /\ UNCHANGED <<free_sources, free_buffers, made, gone, sources, size>>
       /\ at' = at /\ processed' = processed
  BY DEF T!Plays, T!pools
<1>17. /\ al' = [al EXCEPT ![sources[i].source] = r2]
       /\ position' = [position EXCEPT ![sources[i].data] = p]
       /\ heard' = [heard EXCEPT ![sources[i].data] = h2]
  <2>1. /\ al' = [al EXCEPT ![sources[i].source] =
                     [r EXCEPT !.done = r.done + 1,
                               !.state = IF r.done + 1 = Len(r.queue) THEN "stopped"
                                         ELSE r.state]]
        /\ heard' = [heard EXCEPT ![d] = IF T!Lower(stop, end) > @ THEN T!Lower(stop, end) ELSE @]
        /\ position' = position
    BY <1>2, <1>4, <1>7, <1>10, <1>11 DEF T!Plays
  <2>2. al' = [al EXCEPT ![sources[i].source] = r2]
    BY <1>i, <1>13, <2>1
  <2>3. heard' = [heard EXCEPT ![d] = h2]
    BY <1>3, <1>6, <1>12, <2>1
  <2>4. position' = [position EXCEPT ![d] = p]
    BY <1>3, <1>5, <2>1
  <2> QED
    BY <1>2, <2>2, <2>3, <2>4
<1>18. ASSUME at' # 0
       PROVE  processed' <= al'[sources[at'].source].done
  <2>1. at \in 1 .. Len(sources)
    BY <1>3, <1>16, <1>18
  <2>2. sources[at].source \in 1 .. MaxSources
    BY <2>1, SourceHas
  <2>3. processed <= al[sources[at].source].done
    BY <2>1 DEF TaskInv, DeviceInv
  <2>4. CASE sources[at].source = sources[i].source
    <3>1. al'[sources[at].source] = r2 /\ processed <= r.done
      BY <1>1, <1>3, <1>4, <1>17, <2>3, <2>4
    <3> QED
      BY <1>3, <1>9, <1>14, <1>16, <3>1
  <2>5. CASE sources[at].source # sources[i].source
    <3>1. al'[sources[at].source] = al[sources[at].source]
      BY <1>1, <1>3, <1>17, <2>2, <2>5
    <3> QED
      BY <1>16, <2>3, <3>1
  <2> QED
    BY <2>4, <2>5
<1>19. p <= TaskBytes[d] /\ h2 <= TaskBytes[d]
  BY <1>3, <1>5, <1>7, <1>12
<1>20. at' \in 0 .. Len(sources) /\ processed' \in Int /\ (at' = 0 => processed' = -1)
  BY <1>3, <1>16
<1> QED
  BY <1>2, <1>15, <1>16, <1>17, <1>18, <1>19, <1>20, OneSourceChanges
-----------------------------------------------------------------------------
LEMMA TaskBegins ==
    ASSUME T!Init
    PROVE  TaskInv
<1>1. /\ free_sources = <<>> /\ free_buffers = <<>> /\ sources = <<>> /\ size = 0
      /\ made = [sources |-> 0, buffers |-> 0] /\ at = 0 /\ processed = -1
      /\ gone = T!Nothing /\ failed = FALSE
      /\ position = [d \in TaskData |-> 0] /\ heard = [d \in TaskData |-> 0]
      /\ al = [s \in 1 .. MaxSources |-> T!Unused]
  BY DEF T!Init
<1>2. /\ MaxSources \in Nat /\ PerSource \in Nat
      /\ \A d \in TaskData : TaskBytes[d] \in Nat
  BY TaskConstants
<1>3. Len(sources) = 0 /\ Len(free_sources) = 0 /\ Len(free_buffers) = 0
  BY <1>1
<1>4. \A s \in 1 .. MaxSources : /\ al[s] \in SourceRecords /\ al[s].done = 0
                                 /\ al[s].queue = <<>> /\ al[s].state = "initial"
  BY <1>1 DEF T!Unused, SourceRecords
<1>5. al \in [1 .. MaxSources -> SourceRecords]
  BY <1>1, <1>4
<1>6. TaskTypes
  <2>1. made \in [sources : Nat, buffers : Nat] /\ made.sources <= MaxSources
    BY <1>1, <1>2
  <2>2. /\ position \in [TaskData -> Nat] /\ heard \in [TaskData -> Nat]
        /\ \A d \in TaskData : position[d] <= TaskBytes[d] /\ heard[d] <= TaskBytes[d]
    BY <1>1, <1>2
  <2>3. sources \in Seq(Streams)
    BY <1>1
  <2> QED
    BY <1>1, <1>3, <1>5, <2>1, <2>2, <2>3 DEF TaskTypes
<1>7. ASSUME NEW stack, NEW R, NEW n \in Nat, stack = <<>>, R = [i \in 1 .. 0 |-> R[i]]
      PROVE  Once(0, stack, 0, R, n)
  <2>1. stack \in Seq(1 .. 0) /\ Len(stack) = 0
    BY <1>7
  <2>2. /\ \A i \in 1 .. 0 : FALSE
        /\ 0 \in Nat
    OBVIOUS
  <2>3. R \in [1 .. 0 -> [1 .. n -> 1 .. 0]]
    BY <1>7, <2>2
  <2> QED
    BY <2>1, <2>2, <2>3, Zenon DEF Once
<1>8. PoolsInv
  <2>1. /\ BuffersOf(sources) = [i \in 1 .. 0 |-> BuffersOf(sources)[i]]
        /\ SourceOf(sources) = [i \in 1 .. 0 |-> SourceOf(sources)[i]]
    BY <1>3 DEF BuffersOf, SourceOf
  <2>2. Once(0, free_buffers, 0, BuffersOf(sources), PerSource)
    BY <1>1, <1>2, <1>7, <2>1, Zenon
  <2>3. Once(0, free_sources, 0, SourceOf(sources), 1)
    <3>1. 1 \in Nat
      OBVIOUS
    <3> QED
      BY <1>1, <1>7, <2>1, <3>1, Zenon
  <2>4. gone.buffers = {} /\ gone.sources = {}
    BY <1>1 DEF T!Nothing
  <2>5. /\ OnceBut(0, free_buffers, 0, BuffersOf(sources), PerSource, gone.buffers)
        /\ OnceBut(0, free_sources, 0, SourceOf(sources), 1, gone.sources)
    BY <2>2, <2>3, <2>4, NothingButNothing
  <2> QED
    BY <1>1, <1>3, <2>5 DEF PoolsInv
<1>9. DataOnce /\ ContinuesInv
  BY <1>3 DEF DataOnce, ContinuesInv
<1>10. DeviceInv
  <2>1. \A s \in 1 .. MaxSources : Len(al[s].queue) = 0
    BY <1>4
  <2> QED
    BY <1>1, <1>4, <2>1 DEF DeviceInv
<1>11. QueueInv
  <2>1. \A s \in 1 .. MaxSources : Len(al[s].queue) = 0
    BY <1>4
  <2> QED
    BY <2>1 DEF QueueInv, Owned
<1>12. FailInv
  BY <1>1 DEF FailInv
<1> QED
  BY <1>6, <1>8, <1>9, <1>10, <1>11, <1>12 DEF TaskInv

LEMMA FailNext ==
    ASSUME FailInv, [T!Next]_(T!vars)
    PROVE  FailInv'
<1>1. ASSUME NEW d \in TaskData, \/ T!OnPlayMessage(d) \/ T!OnPlayMessageNew(d)
                                \/ T!OnPauseMessage(d) \/ T!OnStopMessage(d)
      PROVE  ~failed /\ failed' = failed /\ gone' = gone
  BY <1>1 DEF T!Ready, T!pools, T!OnPlayMessage, T!OnPlayMessageNew, T!CreateStreamingSource,
     T!OnPauseMessage, T!OnStopMessage, T!ReleaseStreamingSource
<1>2. ASSUME NEW d \in TaskData, NEW n \in 0 .. PerSource, T!CreateThrows(d, n)
      PROVE  failed' /\ at' = 0
  BY <1>2 DEF T!CreateThrows, T!Ready
<1>3. CASE T!CallThrows
  BY <1>3 DEF T!CallThrows, FailInv
<1>4. CASE T!TaskStep
  <2>1. ~failed
    BY <1>4 DEF T!TaskStep, T!Execute, T!CountProcessed, T!RefillBuffer, T!CheckSourceStatus,
       FailInv
  <2>2. failed' = failed /\ gone' = gone
    BY <1>4 DEF T!TaskStep, T!Execute, T!CountProcessed, T!RefillBuffer, T!CheckSourceStatus,
       T!ReleaseStreamingSource, T!pools
  <2> QED
    BY <2>1, <2>2 DEF FailInv
<1>5. ASSUME NEW i \in 1 .. MaxSources, T!DeviceStep(i)
      PROVE  failed' = failed /\ gone' = gone /\ at' = at
  BY <1>5 DEF T!DeviceStep, T!Plays, T!pools
<1>6. CASE UNCHANGED T!vars
  BY <1>6 DEF T!vars, T!pools, FailInv
<1>7. ASSUME failed' = failed, gone' = gone, ~failed \/ at' = at
      PROVE  FailInv'
  BY <1>7 DEF FailInv
<1>8. ASSUME failed', at' = 0
      PROVE  FailInv'
  BY <1>8 DEF FailInv
<1> QED
  BY <1>1, <1>2, <1>3, <1>4, <1>5, <1>6, <1>7, <1>8, Zenon DEF T!Next

(* No source is served or played.                                          *)
LEMMA SourcesStay ==
    ASSUME TaskInv, TaskTypes', PoolsInv', FailInv',
           UNCHANGED <<sources, size, position, al, heard>>,
           at' # 0 => processed' <= al[sources[at'].source].done
    PROVE  TaskInv'
<1>1. DataOnce'
  BY DEF TaskInv, DataOnce
<1>2. QueueInv'
  <2>1. \A s \in 1 .. MaxSources : Owned(al'[s].queue, s, sources')
    BY DEF TaskInv, QueueInv
  <2> QED
    BY <2>1 DEF QueueInv, Owned
<1>3. ContinuesInv'
  <2>1. \A i \in 1 .. Len(sources') :
           Continues(al'[sources'[i].source].queue, al'[sources'[i].source].done,
                     sources'[i].data, position'[sources'[i].data], heard'[sources'[i].data])
    BY DEF TaskInv, ContinuesInv
  <2> QED
    BY <2>1 DEF ContinuesInv, Continues
<1>4. DeviceInv'
  BY DEF TaskInv, DeviceInv
<1> QED
  BY <1>1, <1>2, <1>3, <1>4 DEF TaskInv

(* An exception while a source is made takes what was taken away.          *)
LEMMA CreateThrowsKeepsTaskInv ==
    ASSUME TaskInv, FailInv', NEW d \in TaskData, NEW k \in 0 .. PerSource,
           T!CreateThrows(d, k)
    PROVE  TaskInv'
<1>1. /\ ~failed /\ T!CanMake /\ at' = at /\ at = 0 /\ processed' = processed
      /\ made' = [sources |-> made.sources + T!NewlyMade(free_sources, 1),
                  buffers |-> made.buffers + T!NewlyMade(free_buffers, k)]
      /\ free_sources' = T!Left(free_sources, 1)
      /\ free_buffers' = T!Left(free_buffers, k)
      /\ gone' = [sources |-> T!Range(T!Unstacked(free_sources, 1, made.sources)),
                  buffers |-> T!Range(T!Unstacked(free_buffers, k, made.buffers))]
      /\ UNCHANGED <<sources, size, position, al, heard>>
  BY DEF T!CreateThrows, T!Ready
<1>2. k \in Nat /\ 1 \in Nat
  BY TaskConstants
<1>3. /\ Once(made.buffers, free_buffers, Len(sources), BuffersOf(sources), PerSource)
      /\ Once(made.sources, free_sources, Len(sources), SourceOf(sources), 1)
  BY <1>1, PoolsWhole
<1>4. ASSUME NEW stack, NEW top, NEW n \in Nat
      PROVE  T!Range(T!Unstacked(stack, n, top)) = {T!Unstacked(stack, n, top)[i] : i \in 1 .. n}
  BY DEF T!Range, T!Unstacked
<1>5. /\ gone'.sources = {T!Unstacked(free_sources, 1, made.sources)[i] : i \in 1 .. 1}
      /\ gone'.buffers = {T!Unstacked(free_buffers, k, made.buffers)[i] : i \in 1 .. k}
  BY <1>1, <1>2, <1>4
<1>6. /\ made'.sources = made.sources + T!NewlyMade(free_sources, 1)
      /\ made'.buffers = made.buffers + T!NewlyMade(free_buffers, k)
      /\ made' = [sources |-> made'.sources, buffers |-> made'.buffers]
  BY <1>1
<1>7. /\ OnceBut(made'.buffers, free_buffers', Len(sources), BuffersOf(sources), PerSource,
                 gone'.buffers)
      /\ OnceBut(made'.sources, free_sources', Len(sources), SourceOf(sources), 1,
                 gone'.sources)
  <2>1. OnceBut(made.buffers + T!NewlyMade(free_buffers, k), T!Left(free_buffers, k),
                Len(sources), BuffersOf(sources), PerSource,
                {T!Unstacked(free_buffers, k, made.buffers)[i] : i \in 1 .. k})
    BY <1>2, <1>3, OnceLoses
  <2>2. OnceBut(made.sources + T!NewlyMade(free_sources, 1), T!Left(free_sources, 1),
                Len(sources), SourceOf(sources), 1,
                {T!Unstacked(free_sources, 1, made.sources)[i] : i \in 1 .. 1})
    BY <1>2, <1>3, OnceLoses
  <2> QED
    BY <1>1, <1>5, <1>6, <2>1, <2>2, Zenon
<1>8. PoolsInv'
  <2>1. /\ sources' = sources /\ BuffersOf(sources)' = BuffersOf(sources)
        /\ SourceOf(sources)' = SourceOf(sources)
    BY <1>1
  <2>2. /\ OnceBut(made'.buffers, free_buffers', Len(sources'), BuffersOf(sources)', PerSource,
                   gone'.buffers)
        /\ OnceBut(made'.sources, free_sources', Len(sources'), SourceOf(sources)', 1,
                   gone'.sources)
    BY <1>7, <2>1
  <2> QED
    BY <2>2 DEF PoolsInv, OnceBut
<1>9. TaskTypes'
  <2>1. made' \in [sources : Nat, buffers : Nat]
    <3>1. made'.sources \in Nat /\ made'.buffers \in Nat
      BY <1>7 DEF OnceBut
    <3> QED
      BY <1>6, <3>1
  <2>2. made'.sources <= MaxSources
    BY <1>1, <1>6, SourceIsMade
  <2> QED
    BY <1>1, <2>1, <2>2 DEF TaskInv, TaskTypes
<1>10. at' = 0
  BY <1>1
<1> QED
  BY <1>1, <1>8, <1>9, <1>10, SourcesStay

LEMMA TaskNext ==
    ASSUME TaskInv, [T!Next]_(T!vars)
    PROVE  TaskInv'
<1>0. FailInv /\ FailInv'
  <2>1. FailInv
    BY DEF TaskInv
  <2> QED
    BY <2>1, FailNext
<1>1. /\ Len(sources) \in Nat /\ at \in 0 .. Len(sources) /\ processed \in Int
      /\ (at = 0 => processed = -1)
      /\ al \in [1 .. MaxSources -> SourceRecords]
  BY DEF TaskInv, TaskTypes
<1>2. ASSUME UNCHANGED <<free_sources, free_buffers, made, gone, sources, size, position, al, heard>>,
             at' \in 0 .. Len(sources), processed' \in Int, at' = 0 => processed' = -1,
             at' # 0 => processed' <= al[sources[at'].source].done
      PROVE  TaskInv'
  <2>1. TaskTypes'
    BY <1>2 DEF TaskInv, TaskTypes
  <2>2. PoolsInv'
    <3>1. BuffersOf(sources)' = BuffersOf(sources) /\ SourceOf(sources)' = SourceOf(sources)
      BY <1>2
    <3>2. PoolsInv
      BY DEF TaskInv
    <3>3. /\ OnceBut(made'.buffers, free_buffers', Len(sources'), BuffersOf(sources)', PerSource,
                     gone'.buffers)
          /\ OnceBut(made'.sources, free_sources', Len(sources'), SourceOf(sources)', 1,
                     gone'.sources)
      BY <1>2, <3>1, <3>2 DEF PoolsInv
    <3> QED
      BY <3>3 DEF PoolsInv, OnceBut
  <2> QED
    BY <1>0, <1>2, <2>1, <2>2, SourcesStay
<1>3. ASSUME at' = at, processed' = processed,
             UNCHANGED <<free_sources, free_buffers, made, gone, sources, size, position, al, heard>>
      PROVE  TaskInv'
  <2>1. at # 0 => processed <= al[sources[at].source].done
    BY DEF TaskInv, DeviceInv
  <2> QED
    BY <1>1, <1>2, <1>3, <2>1
<1>4. ASSUME NEW i \in 1 .. Len(sources)
      PROVE  al[sources[i].source].done \in Nat
  BY <1>1, SourceHas DEF SourceRecords
<1>5. ASSUME NEW d \in TaskData, T!OnPlayMessage(d)
      PROVE  TaskInv'
  <2>1. PICK i \in 1 .. Len(sources) : i = T!Index(d)
    BY <1>5, IndexParts DEF T!OnPlayMessage
  <2>2. /\ sources[i].source \in 1 .. MaxSources
        /\ Serves(al[sources[i].source], i, position[sources[i].data], heard[sources[i].data])
    BY SourceHas
  <2>3. al' = [al EXCEPT ![sources[i].source] = T!alSourcePlay(al[sources[i].source])]
    BY <1>1, <1>5, <2>1, <2>2 DEF T!OnPlayMessage
  <2>4. Serves(T!alSourcePlay(al[sources[i].source]), i, position[sources[i].data],
               heard[sources[i].data])
    BY <2>2, PlayServes
  <2>5. /\ UNCHANGED <<free_sources, free_buffers, made, gone, sources, size, position, heard>>
        /\ at' \in 0 .. Len(sources) /\ processed' = -1
    BY <1>1, <1>5 DEF T!OnPlayMessage, T!Ready, T!pools
  <2> QED
    BY <1>0, <2>3, <2>4, <2>5, SourceStatusChanges
<1>6. ASSUME NEW d \in TaskData, T!OnPauseMessage(d)
      PROVE  TaskInv'
  <2>1. PICK i \in 1 .. Len(sources) : i = T!Index(d)
    BY <1>6, IndexParts DEF T!OnPauseMessage
  <2>2. /\ sources[i].source \in 1 .. MaxSources
        /\ Serves(al[sources[i].source], i, position[sources[i].data], heard[sources[i].data])
    BY SourceHas
  <2>3. al' = [al EXCEPT ![sources[i].source] = T!alSourcePause(al[sources[i].source])]
    BY <1>1, <1>6, <2>1, <2>2 DEF T!OnPauseMessage
  <2>4. Serves(T!alSourcePause(al[sources[i].source]), i, position[sources[i].data],
               heard[sources[i].data])
    BY <2>2, PauseServes
  <2>5. /\ UNCHANGED <<free_sources, free_buffers, made, gone, sources, size, position, heard>>
        /\ at' \in 0 .. Len(sources) /\ processed' = -1
    BY <1>1, <1>6 DEF T!OnPauseMessage, T!Ready, T!pools
  <2> QED
    BY <1>0, <2>3, <2>4, <2>5, SourceStatusChanges
<1>7. CASE T!CallThrows
  <2>1. /\ UNCHANGED <<free_sources, free_buffers, made, gone, sources, size, position, al, heard>>
        /\ at' = 0 /\ processed' = -1
    BY <1>7 DEF T!CallThrows, T!pools
  <2> QED
    BY <1>1, <1>2, <2>1
<1>8. ASSUME NEW i \in 1 .. Len(sources), T!ReleaseStreamingSource(i)
      PROVE  Len(sources') = Len(sources) - 1
  <2>1. sources' = RemoveAt(sources, i)
    BY <1>8 DEF T!ReleaseStreamingSource, T!RemoveAt, RemoveAt
  <2>2. sources \in Seq(Streams)
    BY DEF TaskInv, TaskTypes
  <2> QED
    BY <2>1, <2>2, RemoveAtParts
<1>9. ASSUME NEW d \in TaskData, T!OnStopMessage(d)
      PROVE  TaskInv'
  <2>1. PICK i \in 1 .. Len(sources) : i = T!Index(d)
    BY <1>9, IndexParts DEF T!OnStopMessage
  <2>2. T!ReleaseStreamingSource(i)
    BY <1>9, <2>1 DEF T!OnStopMessage
  <2>3. UNCHANGED <<size, position, heard>> /\ at' = 0 /\ processed' = -1
    BY <1>1, <1>9 DEF T!OnStopMessage, T!Ready
  <2>4. at' \in 0 .. Len(sources')
    BY <1>1, <1>8, <2>2, <2>3
  <2>5. ~failed /\ ~failed'
    BY <1>9 DEF T!OnStopMessage, T!Ready
  <2> QED
    BY <1>0, <2>2, <2>3, <2>4, <2>5, ReleaseKeepsTaskInv
<1>10. CASE T!Execute
  <2>1. /\ UNCHANGED <<free_sources, free_buffers, made, gone, sources, size, position, al, heard>>
        /\ at = 0 /\ at' = 1 /\ processed' = processed /\ sources # <<>>
    BY <1>10 DEF T!Execute, T!pools
  <2>2. 1 \in 1 .. Len(sources)
    BY <1>1, <2>1, EmptySeq DEF TaskInv, TaskTypes
  <2>3. al[sources[1].source].done \in Nat
    BY <1>4, <2>2
  <2> QED
    BY <1>1, <1>2, <2>1, <2>2, <2>3
<1>11. CASE T!CountProcessed
  <2>1. /\ UNCHANGED <<free_sources, free_buffers, made, gone, sources, size, position, al, heard>>
        /\ at' = at /\ at # 0 /\ processed' = al[sources[at].source].done
    BY <1>11 DEF T!CountProcessed, T!pools
  <2>2. processed' \in Nat
    BY <1>1, <1>4, <2>1
  <2> QED
    BY <1>1, <1>2, <2>1, <2>2
<1>12. CASE T!CheckSourceStatus
  <2>1. PICK i \in 1 .. Len(sources) : i = at
    BY <1>1, <1>12 DEF T!CheckSourceStatus
  <2>2. processed' = -1 /\ UNCHANGED <<size, position, heard>>
    BY <1>12 DEF T!CheckSourceStatus
  <2>3. /\ sources[i].source \in 1 .. MaxSources
        /\ Serves(al[sources[i].source], i, position[sources[i].data], heard[sources[i].data])
    BY SourceHas
  <2>4. CASE T!ReleasedWhen(al[sources[i].source])
    <3>1. T!ReleaseStreamingSource(i) /\ at' = IF i < Len(sources) THEN i ELSE 0
      BY <1>12, <2>1, <2>4 DEF T!CheckSourceStatus
    <3>2. at' \in 0 .. Len(sources')
      BY <1>1, <1>8, <3>1
    <3>3. ~failed /\ ~failed'
      BY <1>0, <1>12, <2>1 DEF FailInv, T!CheckSourceStatus
    <3> QED
      BY <1>0, <2>2, <3>1, <3>2, <3>3, ReleaseKeepsTaskInv
  <2>5. CASE ~T!ReleasedWhen(al[sources[i].source])
    <3>1. /\ al' = IF T!RestartedWhen(al[sources[i].source])
                   THEN [al EXCEPT ![sources[i].source] = T!alSourcePlay(@)] ELSE al
          /\ at' = IF i < Len(sources) THEN i + 1 ELSE 0
          /\ UNCHANGED <<free_sources, free_buffers, made, gone, sources>>
      BY <1>12, <2>1, <2>5 DEF T!CheckSourceStatus, T!pools
    <3>2. at' \in 0 .. Len(sources)
      BY <1>1, <3>1
    <3>3. CASE T!RestartedWhen(al[sources[i].source])
      <4>1. al' = [al EXCEPT ![sources[i].source] = T!alSourcePlay(al[sources[i].source])]
        BY <1>1, <2>3, <3>1, <3>3
      <4>2. Serves(T!alSourcePlay(al[sources[i].source]), i, position[sources[i].data],
                   heard[sources[i].data])
        BY <2>3, PlayServes
      <4> QED
        BY <1>0, <2>2, <3>1, <3>2, <4>1, <4>2, SourceStatusChanges
    <3>4. CASE ~T!RestartedWhen(al[sources[i].source])
      <4>1. al' = [al EXCEPT ![sources[i].source] = al[sources[i].source]]
        BY <1>1, <2>3, <3>1, <3>4
      <4> QED
        BY <1>0, <2>2, <2>3, <3>1, <3>2, <4>1, SourceStatusChanges
    <3> QED
      BY <3>3, <3>4
  <2> QED
    BY <2>4, <2>5
<1>13. ASSUME NEW i \in 1 .. MaxSources, T!DeviceStep(i)
       PROVE  TaskInv'
  <2>1. i \in 1 .. Len(sources) /\ T!Plays(i)
    BY <1>1, <1>13 DEF T!DeviceStep
  <2> QED
    BY <1>0, <2>1, PlaysKeepsTaskInv
<1>14. CASE UNCHANGED T!vars
  BY <1>3, <1>14 DEF T!vars, T!pools
<1> QED
  BY <1>0, <1>5, <1>6, <1>7, <1>9, <1>10, <1>11, <1>12, <1>13, <1>14, CreateKeepsTaskInv,
     CreateThrowsKeepsTaskInv, RefillKeepsTaskInv, Zenon DEF T!Next, T!TaskStep
-----------------------------------------------------------------------------
LEMMA OneOrNone ==
    /\ T!Cardinality({}) = 0
    /\ \A o : T!Cardinality({o}) = 1
<1>1. \A S : T!Cardinality(S) = Cardinality(S)
  BY DEF T!Cardinality, Cardinality
<1> QED
  BY <1>1, FS_EmptySet, FS_Singleton

(* What is once on the stack, in a row or lost counts one.                 *)
LEMMA OnceCounts ==
    ASSUME NEW top, NEW stack, NEW m, NEW R, NEW n, NEW L, OnceBut(top, stack, m, R, n, L),
           NEW o \in 1 .. top
    PROVE  T!Count(o, stack) + T!Gone(o, L)
           + T!Cardinality({p \in (1 .. m) \X (1 .. n) : R[p[1]][p[2]] = o}) = 1
<1> DEFINE H == {h \in 1 .. Len(stack) : stack[h] = o}
           P == {p \in (1 .. m) \X (1 .. n) : R[p[1]][p[2]] = o}
<1>1. /\ \A h, l \in 1 .. Len(stack) : stack[h] = stack[l] => h = l
      /\ \A i, j \in 1 .. m, k, l \in 1 .. n : R[i][k] = R[j][l] => i = j /\ k = l
      /\ \A h \in 1 .. Len(stack), i \in 1 .. m, k \in 1 .. n : stack[h] # R[i][k]
      /\ \/ \E h \in 1 .. Len(stack) : stack[h] = o
         \/ \E i \in 1 .. m, k \in 1 .. n : R[i][k] = o
         \/ o \in L
      /\ \A h \in 1 .. Len(stack) : stack[h] \notin L
      /\ \A i \in 1 .. m, k \in 1 .. n : R[i][k] \notin L
  BY DEF OnceBut
<1>2. T!Count(o, stack) = T!Cardinality(H)
  BY DEF T!Count
<1>3. CASE \E h \in 1 .. Len(stack) : stack[h] = o
  <2>1. PICK h \in 1 .. Len(stack) : stack[h] = o
    BY <1>3
  <2>2. H = {h}
    BY <1>1, <2>1
  <2>3. P = {}
    BY <1>1, <2>1
  <2>4. T!Cardinality(H) = 1 /\ T!Cardinality(P) = 0
    BY <2>2, <2>3, OneOrNone
  <2>5. T!Gone(o, L) = 0
    BY <1>1, <2>1 DEF T!Gone
  <2> HIDE DEF H, P
  <2>6. T!Cardinality(H) + T!Gone(o, L) + T!Cardinality(P) = 1
    BY <2>4, <2>5
  <2> QED
    BY <1>2, <2>6 DEF P
<1>4. CASE \E i \in 1 .. m, k \in 1 .. n : R[i][k] = o
  <2>1. PICK i \in 1 .. m, k \in 1 .. n : R[i][k] = o
    BY <1>4
  <2>2. H = {}
    BY <1>1, <2>1
  <2>3. P = {<<i, k>>}
    BY <1>1, <2>1
  <2>4. T!Cardinality(H) = 0 /\ T!Cardinality(P) = 1
    BY <2>2, <2>3, OneOrNone
  <2>5. T!Gone(o, L) = 0
    BY <1>1, <2>1 DEF T!Gone
  <2> HIDE DEF H, P
  <2>6. T!Cardinality(H) + T!Gone(o, L) + T!Cardinality(P) = 1
    BY <2>4, <2>5
  <2> QED
    BY <1>2, <2>6 DEF P
<1>5. CASE o \in L
  <2>1. H = {} /\ P = {}
    BY <1>1, <1>5
  <2>2. T!Cardinality(H) = 0 /\ T!Cardinality(P) = 0
    BY <2>1, OneOrNone
  <2>3. T!Gone(o, L) = 1
    BY <1>5 DEF T!Gone
  <2> HIDE DEF H, P
  <2>4. T!Cardinality(H) + T!Gone(o, L) + T!Cardinality(P) = 1
    BY <2>2, <2>3
  <2> QED
    BY <1>2, <2>4 DEF P
<1> QED
  BY <1>1, <1>3, <1>4, <1>5

LEMMA NothingIsLostNow ==
    ASSUME TaskInv
    PROVE  NothingLost
<1>1. PICK m : m = Len(sources)
  OBVIOUS
<1>2. ASSUME NEW o \in 1 .. made.buffers
      PROVE  T!Count(o, free_buffers) + T!Gone(o, gone.buffers)
             + T!Cardinality({p \in (1 .. m) \X (1 .. PerSource) :
                               sources[p[1]].buffers[p[2]] = o}) = 1
  <2>1. OnceBut(made.buffers, free_buffers, m, BuffersOf(sources), PerSource, gone.buffers)
    BY <1>1 DEF TaskInv, PoolsInv
  <2>2. {p \in (1 .. m) \X (1 .. PerSource) : sources[p[1]].buffers[p[2]] = o}
         = {p \in (1 .. m) \X (1 .. PerSource) : BuffersOf(sources)[p[1]][p[2]] = o}
    BY <1>1 DEF BuffersOf
  <2>3. T!Count(o, free_buffers) + T!Gone(o, gone.buffers)
        + T!Cardinality({p \in (1 .. m) \X (1 .. PerSource) :
                          BuffersOf(sources)[p[1]][p[2]] = o}) = 1
    BY <2>1, OnceCounts
  <2> QED
    BY <2>2, <2>3, Zenon
<1>3. ASSUME NEW o \in 1 .. made.sources
      PROVE  T!Count(o, free_sources) + T!Gone(o, gone.sources)
             + T!Cardinality({i \in 1 .. m : sources[i].source = o}) = 1
  <2>1. OnceBut(made.sources, free_sources, m, SourceOf(sources), 1, gone.sources)
    BY <1>1 DEF TaskInv, PoolsInv
  <2> DEFINE I == {i \in 1 .. m : sources[i].source = o}
             P == {p \in (1 .. m) \X (1 .. 1) : SourceOf(sources)[p[1]][p[2]] = o}
  <2>2. T!Count(o, free_sources) + T!Gone(o, gone.sources) + T!Cardinality(P) = 1
    BY <2>1, OnceCounts
  <2>3. \A i \in 1 .. m : SourceOf(sources)[i][1] = sources[i].source
    BY <1>1 DEF SourceOf
  <2>4. \A i, j \in I : i = j
    <3>1. TAKE i, j \in I
    <3>2. SourceOf(sources)[i][1] = SourceOf(sources)[j][1] /\ i \in 1 .. m /\ j \in 1 .. m
      BY <2>3
    <3>3. 1 \in 1 .. 1
      OBVIOUS
    <3>4. i = j
      BY <2>1, <3>2, <3>3 DEF OnceBut
    <3> QED
      BY <3>4
  <2>5. \A p : p \in P <=> \E i \in I : p = <<i, 1>>
    BY <2>3
  <2> HIDE DEF I, P
  <2>6. CASE I = {}
    <3>1. P = {}
      BY <2>5, <2>6
    <3> QED
      BY <2>2, <2>6, <3>1, OneOrNone DEF I
  <2>7. CASE I # {}
    <3>1. PICK i \in I : TRUE
      BY <2>7
    <3>2. I = {i} /\ P = {<<i, 1>>}
      BY <2>4, <2>5, <3>1
    <3>3. T!Cardinality(I) = 1 /\ T!Cardinality(P) = 1
      BY <3>2, OneOrNone
    <3> QED
      BY <2>2, <3>3 DEF I
  <2> QED
    BY <2>6, <2>7
<1>4. T!NothingLost
  BY <1>1, <1>2, <1>3 DEF T!NothingLost, T!Buffers, T!Sources, TaskInv, FailInv
<1>5. T!QueuesOwn
  <2>1. ASSUME NEW s \in 1 .. made.sources
        PROVE  /\ \A i, j \in 1 .. Len(al[s].queue) :
                     i # j => al[s].queue[i].buffer # al[s].queue[j].buffer
               /\ \A j \in 1 .. Len(al[s].queue) : \E i \in 1 .. Len(sources) :
                     /\ sources[i].source = s
                     /\ T!Count(al[s].queue[j].buffer, sources[i].buffers) = 1
    <3>1. s \in 1 .. MaxSources
      BY TaskConstants DEF TaskInv, TaskTypes
    <3>2. Owned(al[s].queue, s, sources)
      BY <3>1 DEF TaskInv, QueueInv
    <3>3. ASSUME NEW j \in 1 .. Len(al[s].queue)
          PROVE  \E i \in 1 .. Len(sources) :
                     /\ sources[i].source = s
                     /\ T!Count(al[s].queue[j].buffer, sources[i].buffers) = 1
      <4>1. PICK i \in 1 .. Len(sources), k \in 1 .. PerSource :
               sources[i].source = s /\ sources[i].buffers[k] = al[s].queue[j].buffer
        BY <3>2 DEF Owned
      <4>2. Len(sources[i].buffers) = PerSource
        BY SourceHas
      <4>3. OnceBut(made.buffers, free_buffers, m, BuffersOf(sources), PerSource, gone.buffers)
        BY <1>1 DEF TaskInv, PoolsInv
      <4>4. BuffersOf(sources)[i] = sources[i].buffers
        BY DEF BuffersOf
      <4>5. PICK R : R = BuffersOf(sources)
        OBVIOUS
      <4>6. \A l \in 1 .. PerSource : R[i][l] = R[i][k] => l = k
        BY <1>1, <4>3, <4>5 DEF OnceBut
      <4>7. {l \in 1 .. Len(sources[i].buffers) :
                sources[i].buffers[l] = al[s].queue[j].buffer} = {k}
        BY <4>1, <4>2, <4>4, <4>5, <4>6
      <4>8. T!Count(al[s].queue[j].buffer, sources[i].buffers) = 1
        BY <4>7, OneOrNone DEF T!Count
      <4> QED
        BY <4>1, <4>8
    <3> QED
      BY <3>2, <3>3 DEF Owned
  <2> QED
    BY <2>1 DEF T!QueuesOwn, T!Sources
<1> QED
  BY <1>4, <1>5 DEF NothingLost

LEMMA NothingIsSkippedNow ==
    ASSUME TaskInv
    PROVE  T!NothingSkipped
<1>1. ASSUME NEW i \in 1 .. Len(sources), al[sources[i].source].state = "playing"
      PROVE  al[sources[i].source].queue[al[sources[i].source].done + 1].from
               <= heard[sources[i].data]
  <2>1. PICK d \in TaskData : d = sources[i].data
    BY SourceHas
  <2>2. heard[d] \in Nat /\ heard[d] <= TaskBytes[d] /\ TaskBytes[d] \in Nat
    BY TaskConstants DEF TaskInv, TaskTypes
  <2>3. PICK r : r = al[sources[i].source]
    OBVIOUS
  <2>4. Serves(r, i, position[d], heard[d])
    BY <2>1, <2>3, SourceHas
  <2>5. PICK q \in Seq(Chunks) : q = r.queue
    BY <2>4, ServesParts
  <2>6. PICK k \in Nat : k = r.done /\ k < Len(q) /\ Continues(q, k, d, position[d], heard[d])
    BY <1>1, <2>1, <2>3, <2>4, <2>5, ServesParts
  <2>7. \A j \in 1 .. Len(q) : q[j].from \in Nat /\ q[j].from + q[j].bytes \in Nat
    <3>1. \A u \in Chunks : u.from \in Nat /\ u.from + u.bytes \in Nat
      BY DEF Chunks
    <3> QED
      BY <3>1
  <2>8. CASE k = 0
    <3>1. q[1].from <= heard[d]
      BY <2>6, <2>8 DEF Continues
    <3> QED
      BY <2>1, <2>3, <2>5, <2>6, <2>8, <3>1
  <2>9. CASE k # 0
    <3>1. k \in 1 .. k /\ k \in 1 .. Len(q) - 1 /\ k \in 1 .. Len(q) /\ k + 1 \in 1 .. Len(q)
      BY <2>6, <2>9
    <3>2. /\ q[k + 1].from <= q[k].from + q[k].bytes
          /\ heard[d] >= q[k].from + q[k].bytes \/ heard[d] = TaskBytes[d]
          /\ q[k + 1].from < TaskBytes[d]
      BY <2>6, <3>1 DEF Continues
    <3>3. q[k + 1].from \in Nat /\ q[k].from + q[k].bytes \in Nat
      BY <2>7, <3>1
    <3>4. q[k + 1].from <= heard[d]
      BY <2>2, <3>2, <3>3
    <3> QED
      BY <2>1, <2>3, <2>5, <2>6, <3>4
  <2> QED
    BY <2>8, <2>9
<1> QED
  BY <1>1 DEF T!NothingSkipped

LEMMA EndIsComplete ==
    ASSUME TaskInv, T!CheckSourceStatus, Len(sources') < Len(sources)
    PROVE  heard[sources[at].data] = TaskBytes[sources[at].data]
<1>1. at \in 1 .. Len(sources) /\ Len(sources) \in Nat
  BY DEF TaskInv, TaskTypes, T!CheckSourceStatus
<1>2. T!ReleasedWhen(al[sources[at].source])
  <2>1. ~T!ReleasedWhen(al[sources[at].source]) => sources' = sources
    BY DEF T!CheckSourceStatus
  <2> QED
    BY <1>1, <2>1
<1>3. al[sources[at].source].queue = <<>>
  BY <1>2 DEF T!ReleasedWhen
<1> QED
  BY <1>1, <1>3 DEF TaskInv, ContinuesInv, Continues

(* TCAudioOpenALHandler.cpp and TCAudioStreamingTask.cpp: sources and      *)
(* buffers are neither lost nor given away twice, whatever is played,      *)
(* paused and stopped, but for those an exception loses that is thrown     *)
(* while a streaming source is made and ends the Run; and OpenAL never has *)
(* a buffer in the queue of a source that another streaming source owns.   *)
THEOREM NothingIsLost ==
    T!Spec => []NothingLost
<1>1. T!Init => TaskInv
  BY TaskBegins
<1>2. TaskInv /\ [T!Next]_(T!vars) => TaskInv'
  BY TaskNext
<1>3. TaskInv => NothingLost
  BY NothingIsLostNow
<1> QED
  BY <1>1, <1>2, <1>3, PTL DEF T!Spec

(* TCAudioStreamingTask.cpp: while the device plays and the task serves a  *)
(* source, what is played next begins where the sound data was played to,  *)
(* or before, so that no part of it is left out; and a source is released  *)
(* only when all of it was played.                                         *)
THEOREM NothingIsSkipped ==
    T!Spec => NothingSkipped
<1>1. T!Init => TaskInv
  BY TaskBegins
<1>2. TaskInv /\ [T!Next]_(T!vars) => TaskInv'
  BY TaskNext
<1>3. TaskInv' => T!NothingSkipped'
  <2>1. TaskInv => T!NothingSkipped
    BY NothingIsSkippedNow
  <2> QED
    BY <2>1, PTL
<1>4. TaskInv => (T!CheckSourceStatus /\ Len(sources') < Len(sources)
                     => heard[sources[at].data] = TaskBytes[sources[at].data])
  BY EndIsComplete
<1>5. TaskInv => [T!CheckSourceStatus /\ Len(sources') < Len(sources)
                     => heard[sources[at].data] = TaskBytes[sources[at].data]]_(T!vars)
  BY <1>4
<1>6. TaskInv' => [T!NothingSkipped']_allVars
  BY <1>3
<1> QED
  BY <1>1, <1>2, <1>5, <1>6, PTL DEF T!Spec, NothingSkipped, T!EndsComplete

-----------------------------------------------------------------------------
(* Sequence: what was read last is where the current sound is, or it was   *)
(* the end of a sound behind which only sounds without bytes were passed.  *)
AtLast ==
    /\ current_sound_data = last[1]
    /\ read_position[sound_data[current_sound_data]] = last[2]

MovedOn ==
    /\ last[2] = Length[sound_data[last[1]]]
    /\ \A d \in SequenceData : read_position[d] = 0
    /\ Q!NothingBetween(last[1], current_sound_data)

SequenceTypes ==
    /\ sound_data \in Seq(SequenceData) /\ current_sound_data \in Nat \ {0}
    /\ read_position \in [SequenceData -> Nat]
    /\ num_bytes \in Nat /\ n_read \in Nat

(* Only the current sound is left in its middle.                           *)
OthersAtStart ==
    \A d \in SequenceData :
       /\ read_position[d] <= Length[d]
       /\ read_position[d] # 0 =>
             current_sound_data <= Len(sound_data) /\ d = sound_data[current_sound_data]

LastFits ==
    last # Q!Nothing =>
       /\ last[1] \in 1 .. Len(sound_data)
       /\ last[2] \in 1 .. Length[sound_data[last[1]]]
       /\ AtLast \/ MovedOn

SequenceInv ==
    undisturbed => SequenceTypes /\ OthersAtStart /\ LastFits

LEMMA SequenceConstants ==
    /\ Length \in [SequenceData -> Nat]
    /\ Sizes \subseteq Nat \ {0}
    /\ Q!MaxSize \in Nat \ {0}
<1>1. Q!SequenceAssumption
  BY MCAssumption
<1>2. Q!MaxSize \in Sizes
  BY <1>1 DEF Q!SequenceAssumption, Q!MaxSize
<1> QED
  BY <1>1, <1>2 DEF Q!SequenceAssumption

LEMMA SequenceInitially ==
    ASSUME Q!Init
    PROVE  SequenceInv
BY SequenceConstants
   DEF Q!Init, SequenceInv, SequenceTypes, OthersAtStart, LastFits, Q!Nothing

(* What one round of GetData takes from the current sound.                 *)
Current == sound_data[current_sound_data]
Remaining == Length[Current] - read_position[Current]
Taken == IF Remaining < num_bytes THEN Remaining ELSE num_bytes

LEMMA PartParts ==
    ASSUME SequenceInv, undisturbed, Q!GetPart
    PROVE  /\ current_sound_data \in 1 .. Len(sound_data) /\ Len(sound_data) \in Nat
           /\ Current \in SequenceData
           /\ Remaining \in Nat /\ num_bytes \in Nat \ {0}
           /\ Taken \in 0 .. num_bytes /\ Taken <= Remaining
           /\ Taken < num_bytes => Taken = Remaining
           /\ Length[Current] \in Nat /\ read_position[Current] \in Nat
           /\ read_position[Current] + Remaining = Length[Current]
<1>1. current_sound_data \in 1 .. Len(sound_data) /\ Len(sound_data) \in Nat
  BY DEF SequenceInv, SequenceTypes, Q!GetPart
<1>2. Current \in SequenceData
  BY <1>1 DEF SequenceInv, SequenceTypes, Current
<1>3. Length[Current] \in Nat /\ read_position[Current] \in Nat
  BY <1>2, SequenceConstants DEF SequenceInv, SequenceTypes
<1>4. read_position[Current] <= Length[Current]
  BY <1>2 DEF SequenceInv, OthersAtStart
<1>5. num_bytes \in Nat \ {0}
  BY DEF SequenceInv, SequenceTypes, Q!GetPart
<1>6. Remaining \in Nat /\ read_position[Current] + Remaining = Length[Current]
  BY <1>3, <1>4 DEF Remaining
<1>7. /\ Taken \in 0 .. num_bytes /\ Taken <= Remaining
      /\ Taken < num_bytes => Taken = Remaining
  BY <1>5, <1>6 DEF Taken
<1> QED
  BY <1>1, <1>2, <1>3, <1>5, <1>6, <1>7

LEMMA PartChanges ==
    ASSUME Q!GetPart
    PROVE  /\ buffer' = [i \in 1 .. Q!MaxSize |->
                 IF i <= Taken THEN <<current_sound_data, read_position[Current] + i>>
                 ELSE buffer[i]]
           /\ read_position' = [read_position EXCEPT ![Current] =
                 IF Taken < num_bytes THEN 0 ELSE read_position[Current] + Taken]
           /\ current_sound_data' = IF Taken < num_bytes THEN Q!Following(current_sound_data)
                                    ELSE current_sound_data
           /\ num_bytes' = num_bytes - Taken /\ n_read' = n_read + Taken
           /\ last' = IF Taken = 0 THEN last
                      ELSE <<current_sound_data, read_position[Current] + Taken>>
           /\ UNCHANGED <<sound_data, looping, undisturbed>>
BY DEF Q!GetPart, Q!PositionAfter, Current, Remaining, Taken

(* Where the current sound is when a round begins.                         *)
LEMMA PartFollows ==
    ASSUME SequenceInv, undisturbed, Q!GetPart, last # Q!Nothing
    PROVE  /\ last[1] \in 1 .. Len(sound_data) /\ last[2] \in Nat \ {0}
           /\ last[2] <= Length[sound_data[last[1]]] /\ Length[sound_data[last[1]]] \in Nat \ {0}
           /\ \/ current_sound_data = last[1] /\ read_position[Current] = last[2]
              \/ /\ last[2] = Length[sound_data[last[1]]] /\ read_position[Current] = 0
                 /\ Q!NothingBetween(last[1], current_sound_data)
<1>1. LastFits /\ SequenceTypes
  BY DEF SequenceInv
<1>2. last[1] \in 1 .. Len(sound_data) /\ last[2] \in 1 .. Length[sound_data[last[1]]]
  BY <1>1 DEF LastFits
<1>3. Length[sound_data[last[1]]] \in Nat
  BY <1>1, <1>2, SequenceConstants DEF SequenceTypes
<1>4. CASE AtLast
  BY <1>2, <1>3, <1>4 DEF AtLast, Current
<1>5. CASE MovedOn
  BY <1>2, <1>3, <1>5, PartParts DEF MovedOn
<1> QED
  BY <1>1, <1>4, <1>5 DEF LastFits

(* The round of GetData keeps to the order, whatever it takes.             *)
LEMMA PartInOrder ==
    ASSUME SequenceInv, undisturbed, Q!GetPart, last # Q!Nothing, n_read' > n_read
    PROVE  LET first == buffer'[1] IN
           IF last[2] < Length[sound_data[last[1]]]
           THEN first = <<last[1], last[2] + 1>>
           ELSE first[2] = 1 /\ Q!NothingBetween(last[1], first[1])
<1>1. Taken \in Nat \ {0} /\ Taken <= Remaining
  BY PartParts, PartChanges DEF SequenceInv, SequenceTypes
<1>2. 1 \in 1 .. Q!MaxSize
  BY SequenceConstants
<1>3. buffer'[1] = <<current_sound_data, read_position[Current] + 1>>
  BY <1>1, <1>2, PartChanges
<1>4. CASE current_sound_data = last[1] /\ read_position[Current] = last[2]
  <2>1. last[2] < Length[sound_data[last[1]]]
    BY <1>1, <1>4, PartParts DEF Current
  <2> QED
    BY <1>3, <1>4, <2>1
<1>5. CASE /\ last[2] = Length[sound_data[last[1]]] /\ read_position[Current] = 0
           /\ Q!NothingBetween(last[1], current_sound_data)
  <2>1. ~(last[2] < Length[sound_data[last[1]]])
    BY <1>5, PartFollows
  <2>2. buffer'[1] = <<current_sound_data, 1>>
    BY <1>3, <1>5
  <2> QED
    BY <1>5, <2>1, <2>2
<1> QED
  BY <1>4, <1>5, PartFollows

(* A sound that ended is followed by the next one, at the start.           *)
LEMMA NextFollows ==
    ASSUME Len(sound_data) \in Nat, NEW k \in 1 .. Len(sound_data)
    PROVE  Q!NothingBetween(k, Q!Following(k)) /\ Q!Following(k) \in Nat \ {0}
BY DEF Q!NothingBetween, Q!Following

LEMMA EmptyIsPassed ==
    ASSUME Len(sound_data) \in Nat, NEW k \in 1 .. Len(sound_data),
           NEW j \in 1 .. Len(sound_data), Length[sound_data[j]] = 0, Length[sound_data[k]] # 0,
           Q!NothingBetween(k, j)
    PROVE  Q!NothingBetween(k, Q!Following(j))
<1>1. j # k
  OBVIOUS
<1>2. CASE k < j
  <2>1. \A i \in k + 1 .. j : Length[sound_data[i]] = 0
    <3>1. \A i \in k + 1 .. j - 1 : Length[sound_data[i]] = 0
      BY <1>2 DEF Q!NothingBetween
    <3> QED
      BY <3>1
  <2>2. CASE j = Len(sound_data) /\ looping
    BY <2>1, <2>2 DEF Q!NothingBetween, Q!Following
  <2>3. CASE ~(j = Len(sound_data) /\ looping)
    BY <1>2, <2>1, <2>3 DEF Q!NothingBetween, Q!Following
  <2> QED
    BY <2>2, <2>3
<1>3. CASE j < k
  <2>1. \A i \in (k + 1 .. Len(sound_data)) \cup (1 .. j - 1) : Length[sound_data[i]] = 0
    BY <1>3 DEF Q!NothingBetween
  <2>2. \A i \in (k + 1 .. Len(sound_data)) \cup (1 .. j) : Length[sound_data[i]] = 0
    BY <2>1
  <2>3. Q!Following(j) = j + 1
    BY <1>3 DEF Q!Following
  <2> QED
    BY <1>3, <2>2, <2>3 DEF Q!NothingBetween
<1> QED
  BY <1>1, <1>2, <1>3

LEMMA PartKeepsOrder ==
    ASSUME SequenceInv, undisturbed, Q!GetPart
    PROVE  SequenceTypes' /\ OthersAtStart' /\ LastFits'
<1> DEFINE d == Current
           k == current_sound_data
           next == IF Taken < num_bytes THEN 0 ELSE read_position[d] + Taken
<1>1. SequenceTypes /\ OthersAtStart /\ LastFits
  BY DEF SequenceInv
<1>2. /\ k \in 1 .. Len(sound_data) /\ d \in SequenceData /\ Len(sound_data) \in Nat
      /\ Q!Following(k) \in Nat \ {0} /\ Q!NothingBetween(k, Q!Following(k))
  BY PartParts, NextFollows
<1>3. next \in Nat /\ next <= Length[d]
  BY PartParts
<1>4. /\ read_position' \in [SequenceData -> Nat]
      /\ read_position'[d] = next
      /\ \A y \in SequenceData : y # d => read_position'[y] = read_position[y]
  <2>1. read_position' = [read_position EXCEPT ![d] = next]
    BY PartChanges
  <2> HIDE DEF next, d
  <2> QED
    BY <1>1, <1>2, <1>3, <2>1 DEF SequenceTypes
<1>5. SequenceTypes'
  <2>1. num_bytes' \in Nat /\ n_read' \in Nat
    BY <1>1, PartParts, PartChanges DEF SequenceTypes
  <2>2. current_sound_data' \in Nat \ {0}
    BY <1>2, PartChanges
  <2> QED
    BY <1>1, <1>4, <2>1, <2>2, PartChanges DEF SequenceTypes
<1>6. \A y \in SequenceData : y # d => read_position[y] = 0
  BY <1>1, <1>2 DEF OthersAtStart, SequenceTypes, Current
<1>7. OthersAtStart'
  <2> SUFFICES ASSUME NEW y \in SequenceData
               PROVE  /\ read_position'[y] <= Length[y]
                      /\ read_position'[y] # 0 => /\ current_sound_data' <= Len(sound_data')
                                                  /\ y = sound_data'[current_sound_data']
    BY DEF OthersAtStart
  <2>1. CASE y # d
    <3>1. read_position'[y] = 0 /\ Length[y] \in Nat
      BY <1>4, <1>6, <2>1, SequenceConstants
    <3> QED
      BY <3>1
  <2>2. CASE y = d
    <3>1. next # 0 => current_sound_data' = k /\ sound_data' = sound_data
      BY PartChanges
    <3>2. read_position'[y] = next
      BY <1>4, <2>2
    <3> HIDE DEF next
    <3> QED
      BY <1>2, <1>3, <2>2, <3>1, <3>2 DEF Current
  <2> QED
    BY <2>1, <2>2
<1>8. ASSUME Taken < num_bytes
      PROVE  /\ current_sound_data' = Q!Following(k)
             /\ \A y \in SequenceData : read_position'[y] = 0
             /\ Taken = Remaining
  BY <1>4, <1>6, <1>8, PartParts, PartChanges
<1>9. LastFits'
  <2> SUFFICES ASSUME last' # Q!Nothing
               PROVE  /\ last'[1] \in 1 .. Len(sound_data)
                      /\ last'[2] \in 1 .. Length[sound_data[last'[1]]]
                      /\ AtLast' \/ MovedOn'
    BY PartChanges DEF LastFits, Q!Nothing
  <2>1. CASE Taken # 0
    <3>1. last' = <<k, read_position[d] + Taken>>
      BY <2>1, PartChanges
    <3>2. last'[1] = k /\ last'[2] = read_position[d] + Taken
      BY <3>1
    <3>3. last'[2] \in 1 .. Length[d] /\ sound_data[last'[1]] = d
      BY <2>1, <3>2, PartParts DEF Current
    <3>4. CASE Taken < num_bytes
      <4>1. last'[2] = Length[d]
        BY <1>8, <3>2, <3>4, PartParts
      <4>2. sound_data' = sound_data
        BY PartChanges
      <4>3. MovedOn'
        BY <1>2, <1>8, <3>2, <3>3, <3>4, <4>1, <4>2 DEF MovedOn, Q!NothingBetween
      <4> QED
        BY <1>2, <3>2, <3>3, <4>3
    <3>5. CASE ~(Taken < num_bytes)
      <4>1. AtLast'
        BY <1>4, <3>2, <3>3, <3>5, PartChanges DEF AtLast
      <4> QED
        BY <1>2, <3>2, <3>3, <4>1
    <3> QED
      BY <3>4, <3>5
  <2>2. CASE Taken = 0
    <3>1. last' = last /\ last # Q!Nothing
      BY <2>2, PartChanges
    <3>2. Taken < num_bytes /\ Remaining = 0 /\ read_position[d] = Length[d]
      BY <2>2, PartParts
    <3>3. /\ last[1] \in 1 .. Len(sound_data)
          /\ last[2] \in 1 .. Length[sound_data[last[1]]]
      BY <3>1, <1>1 DEF LastFits
    <3>4. last[2] = Length[sound_data[last[1]]]
      BY <3>1, <3>2, PartFollows DEF Current
    <3>5. Q!NothingBetween(last[1], Q!Following(k))
      <4>1. CASE k = last[1]
        BY <1>2, <4>1
      <4>2. CASE read_position[d] = 0 /\ Q!NothingBetween(last[1], k)
        <5>1. Length[sound_data[k]] = 0 /\ Length[sound_data[last[1]]] # 0
          BY <3>1, <3>2, <4>2, PartFollows DEF Current
        <5> QED
          BY <1>2, <3>3, <4>2, <5>1, EmptyIsPassed
      <4> QED
        BY <3>1, <4>1, <4>2, PartFollows
    <3>6. MovedOn'
      <4>1. sound_data' = sound_data
        BY PartChanges
      <4> QED
        BY <1>8, <3>1, <3>2, <3>4, <3>5, <4>1 DEF MovedOn, Q!NothingBetween
    <3> QED
      BY <3>1, <3>3, <3>6
  <2> QED
    BY <2>1, <2>2
<1> QED
  BY <1>5, <1>7, <1>9

LEMMA SequenceStep ==
    ASSUME SequenceInv, [Q!Next]_(Q!vars)
    PROVE  SequenceInv'
<1> SUFFICES ASSUME undisturbed'
             PROVE  SequenceTypes' /\ OthersAtStart' /\ LastFits'
  BY DEF SequenceInv
<1> USE DEF SequenceInv
<1>1. ASSUME NEW d \in SequenceData, Q!AddSoundData(d)
      PROVE  SequenceTypes' /\ OthersAtStart' /\ LastFits'
  <2>1. undisturbed /\ SequenceTypes /\ OthersAtStart
    BY <1>1 DEF Q!AddSoundData
  <2>2. /\ sound_data' \in Seq(SequenceData)
        /\ Len(sound_data') = Len(sound_data) + 1
        /\ \A i \in 1 .. Len(sound_data) : sound_data'[i] = sound_data[i]
    <3>1. sound_data \in Seq(SequenceData) /\ sound_data' = Append(sound_data, d)
      BY <1>1, <2>1 DEF Q!AddSoundData, SequenceTypes
    <3> QED
      BY <3>1, AppendProperties
  <2>3. SequenceTypes'
    BY <1>1, <2>1, <2>2 DEF Q!AddSoundData, SequenceTypes
  <2>4. OthersAtStart'
    BY <1>1, <2>1, <2>2 DEF Q!AddSoundData, OthersAtStart, SequenceTypes
  <2>5. LastFits'
    BY <1>1 DEF Q!AddSoundData, LastFits
  <2> QED
    BY <2>3, <2>4, <2>5
<1>2. ASSUME NEW d \in SequenceData, Q!RemoveSoundData(d) PROVE FALSE
  BY <1>2 DEF Q!RemoveSoundData
<1>3. ASSUME NEW d \in SequenceData, NEW n \in Sizes, Q!PlayItself(d, n) PROVE FALSE
  BY <1>3 DEF Q!PlayItself
<1>4. ASSUME NEW loop \in BOOLEAN, Q!SetLoopData(loop)
      PROVE  SequenceTypes' /\ OthersAtStart' /\ LastFits'
  <2>1. undisturbed /\ SequenceTypes /\ OthersAtStart /\ LastFits
    BY <1>4 DEF Q!SetLoopData
  <2>2. UNCHANGED <<sound_data, current_sound_data, read_position, last, num_bytes, n_read>>
    BY <1>4 DEF Q!SetLoopData, Q!callVars
  <2> QED
    BY <2>1, <2>2 DEF SequenceTypes, OthersAtStart, LastFits, AtLast, MovedOn, Q!NothingBetween
<1>5. ASSUME Q!SetToStart PROVE SequenceTypes' /\ OthersAtStart' /\ LastFits'
  <2>1. /\ undisturbed /\ SequenceTypes
        /\ \A d \in SequenceData : read_position[d] = 0
    BY <1>5 DEF Q!SetToStart
  <2>2. SequenceTypes'
    BY <1>5, <2>1 DEF Q!SetToStart, SequenceTypes
  <2>3. OthersAtStart'
    BY <1>5, <2>1, SequenceConstants DEF Q!SetToStart, OthersAtStart
  <2>4. LastFits'
    BY <1>5 DEF Q!SetToStart, LastFits
  <2> QED
    BY <2>2, <2>3, <2>4
<1>6. ASSUME NEW n \in Sizes, Q!GetData(n)
      PROVE  SequenceTypes' /\ OthersAtStart' /\ LastFits'
  <2>1. undisturbed /\ SequenceTypes /\ OthersAtStart /\ LastFits
    BY <1>6 DEF Q!GetData
  <2>2. /\ UNCHANGED <<sound_data, current_sound_data, read_position, last>>
        /\ num_bytes' \in Nat /\ n_read' \in Nat
    BY <1>6, SequenceConstants DEF Q!GetData, Q!sequenceVars
  <2> QED
    BY <2>1, <2>2 DEF SequenceTypes, OthersAtStart, LastFits, AtLast, MovedOn, Q!NothingBetween
<1>7. ASSUME Q!GetPart PROVE SequenceTypes' /\ OthersAtStart' /\ LastFits'
  <2>1. undisturbed
    BY <1>7 DEF Q!GetPart
  <2> QED
    BY <1>7, <2>1, PartKeepsOrder
<1>8. ASSUME UNCHANGED Q!vars PROVE SequenceTypes' /\ OthersAtStart' /\ LastFits'
  <2>1. undisturbed /\ SequenceTypes /\ OthersAtStart /\ LastFits
    BY <1>8 DEF Q!vars
  <2>2. UNCHANGED <<sound_data, current_sound_data, read_position, last, num_bytes, n_read>>
    BY <1>8 DEF Q!vars, Q!callVars, Q!sequenceVars
  <2> QED
    BY <2>1, <2>2 DEF SequenceTypes, OthersAtStart, LastFits, AtLast, MovedOn, Q!NothingBetween
<1> QED
  BY <1>1, <1>2, <1>3, <1>4, <1>5, <1>6, <1>7, <1>8 DEF Q!Next

(* GetData of TCAudioSoundDataSequence.cpp takes every byte of every sound *)
(* in the order of the sounds, and goes on with the first byte of the next *)
(* sound that has any, round and round when the sequence loops, for any    *)
(* sounds, lengths and sizes of the calls.                                 *)
THEOREM SoundsFollow == Q!Spec => OneAfterTheOther
<1> DEFINE InOrder ==
              Q!GetPart /\ undisturbed /\ last # Q!Nothing /\ n_read' > n_read =>
                 LET first == buffer'[1] IN
                 IF last[2] < Length[sound_data[last[1]]]
                 THEN first = <<last[1], last[2] + 1>>
                 ELSE first[2] = 1 /\ Q!NothingBetween(last[1], first[1])
<1>1. Q!Init => SequenceInv
  BY SequenceInitially
<1>2. SequenceInv /\ [Q!Next]_(Q!vars) => SequenceInv'
  BY SequenceStep
<1>3. SequenceInv => InOrder
  BY PartInOrder
<1>4. OneAfterTheOther <=> [][InOrder]_(Q!vars)
  BY DEF OneAfterTheOther, Q!OneAfterTheOther
<1> HIDE DEF InOrder
<1> QED
  BY <1>1, <1>2, <1>3, <1>4, PTL DEF Q!Spec
=============================================================================
