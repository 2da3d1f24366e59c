----------------------------- MODULE Net_proofs -----------------------------
(***************************************************************************)
(* Proofs about the socket server, for any number of clients, sockets and  *)
(* calls, and about the stream of bytes between two connected sockets, for *)
(* any room, sizes and times.                                              *)
(***************************************************************************)
EXTENDS MCNet, OperatorLemmas

(* The vectors of the server and what was handled of the calls. *)
Vectors == Paired /\ ServedIsAddedNotRemoved

(* The read set is that of the walk in progress, and a descriptor of it    *)
(* that is open belongs to a socket that has data or was called already.   *)
Walk ==
    /\ pc \notin {"dispatch", "opened", "call"} => readSet = {}
    /\ \A s \in Sockets :
          fd[s] \in readSet => s \in data \/ \E k \in DOMAIN sockets : k < i /\ sockets[k] = s

(* The index of the walk is that of a socket once it was tested. *)
InWalk == i >= 1 /\ (pc \in {"opened", "call"} => i \in DOMAIN sockets)

(* A socket nobody closes behind its test stays open, and is called only   *)
(* when select has found its descriptor.                                   *)
Tested ==
    pc \in {"opened", "call"} /\ ~raced =>
        Opened(sockets[i]) /\ (pc = "call" => fd[sockets[i]] \in readSet)

(* A client that adds a message has one to add. *)
Adding == \A c \in sending : todo[c] # <<>>

ServerInv == TypeOK /\ InWalk /\ Adding /\ Vectors

WalkInv == TypeOK /\ DistinctFds /\ Walk /\ Tested
-----------------------------------------------------------------------------
(* Types. *)

LEMMA MessageParts ==
    ASSUME NEW m \in Message
    PROVE  /\ m.kind \in {"run", "start", "stop", "join", "sync", "add", "remove"}
           /\ m.kind = "run" => m = [kind |-> "run"]
           /\ m.kind = "sync" => m.from \in Clients
           /\ m.kind \in {"add", "remove"} => m.socket \in Sockets
BY DEF Message

LEMMA MessageKinds ==
    /\ [kind |-> "run"] \in Message /\ [kind |-> "start"] \in Message
    /\ [kind |-> "stop"] \in Message /\ [kind |-> "join"] \in Message
    /\ \A c \in Clients : [kind |-> "sync", from |-> c] \in Message
    /\ \A s \in Sockets : /\ [kind |-> "add", socket |-> s] \in Message
                          /\ [kind |-> "remove", socket |-> s] \in Message
BY DEF Message

LEMMA HeadMessage ==
    ASSUME queue \in Seq(Message), queue # <<>>
    PROVE  Head(queue) \in Message /\ Tail(queue) \in Seq(Message)
<1> DEFINE M == Message
<1>1. queue \in Seq(M)
  OBVIOUS
<1> HIDE DEF M
<1>2. Head(queue) \in M /\ Tail(queue) \in Seq(M)
  BY <1>1
<1> QED
  BY <1>2 DEF M

(* The position of a served socket. *)
LEMMA PositionOfServed ==
    ASSUME sockets \in Seq(Sockets), NEW s \in Range(sockets)
    PROVE  Position(s) \in 1 .. Len(sockets) /\ sockets[Position(s)] = s
<1>1. Position(s) = SelectInSeq(sockets, LAMBDA t : t = s)
  BY DEF Position
<1>2. /\ SelectInSeq(sockets, LAMBDA t : t = s) \in 1 .. Len(sockets)
      /\ sockets[SelectInSeq(sockets, LAMBDA t : t = s)] = s
  BY FirstPlace
<1> QED
  BY <1>1, <1>2

(* The socket at the index of the walk is served. *)
LEMMA WalkedSocket ==
    ASSUME TypeOK, InWalk, FdIsSet \/ OnNewData \/ (IsOpened /\ pc' = "opened")
    PROVE  i \in DOMAIN sockets /\ sockets[i] \in Sockets
BY DEF TypeOK, InWalk, IsOpened, FdIsSet, OnNewData, LastIndex

(* What HandleMessage does to the vectors.                                 *)
LEMMA HandledParts ==
    ASSUME TypeOK, RunReceives
    PROVE  \/ UNCHANGED <<sockets, receivers, handled>>
           \/ \E s \in Sockets :
                 /\ sockets' = Append(sockets, s) /\ receivers' = Append(receivers, s)
                 /\ handled' = [handled EXCEPT ![s] = @ + 1]
           \/ \E s \in Range(sockets) :
                 /\ sockets' = RemoveAt(sockets, Position(s))
                 /\ receivers' = RemoveAt(receivers, Position(s))
                 /\ handled' = [handled EXCEPT ![s] = @ - 1]
<1> DEFINE m == Head(queue)
<1>1. m \in Message
  BY HeadMessage DEF TypeOK, RunReceives
<1> HIDE DEF m
<1>2. \/ HandleStart(m) \/ HandleStop(m) \/ HandleAddSocket(m)
      \/ HandleRemoveSocket(m) \/ NotHandled(m)
  BY DEF RunReceives, m
<1>3. CASE HandleStart(m) \/ HandleStop(m) \/ NotHandled(m)
  BY <1>3 DEF HandleStart, HandleStop, NotHandled
<1>4. CASE HandleAddSocket(m)
  <2>1. m.socket \in Sockets
    BY <1>1, <1>4, MessageParts DEF HandleAddSocket
  <2> QED
    BY <1>4, <2>1 DEF HandleAddSocket
<1>5. CASE HandleRemoveSocket(m)
  <2>1. CASE m.socket \in Range(sockets)
    BY <1>5, <2>1 DEF HandleRemoveSocket, ReceiverPosition
  <2>2. CASE m.socket \notin Range(sockets)
    BY <1>5, <2>2 DEF HandleRemoveSocket
  <2> QED
    BY <2>1, <2>2
<1> QED
  BY <1>2, <1>3, <1>4, <1>5

(* What every step does to the vectors: only HandleMessage changes them.   *)
LEMMA NextVectors ==
    ASSUME [Next]_vars
    PROVE  UNCHANGED <<sockets, receivers, handled>> \/ RunReceives
BY DEF Next, vars, threadVars, bounds, clientVars, history, ClientCalls, ClientStep,
       ServerStep, Begin, Start, Stop, AddSocket, RemoveSocket, SendThreadMessage, AddMessage,
       JoinReturns, RunnerReceives, Select, IsOpened, FdIsSet, OnNewData, LeaveAccept,
       Arrive, Open, Close

(* A call changes what its client has to add and waits for. *)
LEMMA BeginTypeOK ==
    ASSUME TypeOK, NEW c \in Clients, NEW messages \in Seq(Message),
           NEW then \in {"none", "reply", "over"}, Begin(c, messages, then),
           stopAsked' \in BOOLEAN
    PROVE  TypeOK'
BY ServerAssumption DEF TypeOK, Begin, threadVars

(* The whole type invariant, per action. *)
LEMMA TypeOKStep ==
    ASSUME TypeOK, Paired, InWalk, Adding, [Next]_vars
    PROVE  TypeOK'
<1>0. CASE UNCHANGED vars
  BY <1>0 DEF TypeOK, vars, threadVars, clientVars, bounds, history
<1>2. CASE ClientCalls
  <2>1. PICK c \in Clients :
           \/ \E wait \in BOOLEAN : Start(c, wait) \/ Stop(c, wait)
           \/ \E s \in Sockets : AddSocket(c, s) \/ RemoveSocket(c, s)
    BY <1>2 DEF ClientCalls
  <2>2. PICK messages \in Seq(Message), then \in {"none", "reply", "over"} :
           Begin(c, messages, then) /\ stopAsked' \in BOOLEAN
    <3>1. stopAsked \in BOOLEAN
      BY DEF TypeOK
    <3>2. ASSUME NEW m \in Message, NEW then \in {"none", "reply", "over"},
                 Begin(c, <<m>>, then), stopAsked' \in BOOLEAN
          PROVE  \E messages \in Seq(Message), w \in {"none", "reply", "over"} :
                    Begin(c, messages, w) /\ stopAsked' \in BOOLEAN
      <4>1. <<m>> \in Seq(Message)
        OBVIOUS
      <4> QED
        BY <3>2, <4>1, Zenon
    <3>3. ASSUME NEW wait \in BOOLEAN, Start(c, wait)
          PROVE  \E messages \in Seq(Message), w \in {"none", "reply", "over"} :
                    Begin(c, messages, w) /\ stopAsked' \in BOOLEAN
      <4>1. CASE wait
        <5>1. Begin(c, <<[kind |-> "sync", from |-> c]>>, "reply") /\ stopAsked' \in BOOLEAN
          BY <3>1, <3>3, <4>1 DEF Start
        <5> QED
          BY <3>2, <5>1, MessageKinds
      <4>2. CASE ~wait
        <5>1. Begin(c, <<[kind |-> "start"]>>, "none") /\ stopAsked' \in BOOLEAN
          BY <3>1, <3>3, <4>2 DEF Start
        <5> QED
          BY <3>2, <5>1, MessageKinds
      <4> QED
        BY <4>1, <4>2
    <3>4. ASSUME NEW wait \in BOOLEAN, Stop(c, wait)
          PROVE  \E messages \in Seq(Message), w \in {"none", "reply", "over"} :
                    Begin(c, messages, w) /\ stopAsked' \in BOOLEAN
      <4>1. StopMessages(wait) \in Seq(Message)
        BY MessageKinds DEF StopMessages
      <4>2. \E w \in {"none", "reply", "over"} :
               Begin(c, StopMessages(wait), w) /\ stopAsked' \in BOOLEAN
        BY <3>4 DEF Stop
      <4> QED
        BY <4>1, <4>2, Zenon
    <3>5. ASSUME NEW s \in Sockets, AddSocket(c, s) \/ RemoveSocket(c, s)
          PROVE  \E messages \in Seq(Message), w \in {"none", "reply", "over"} :
                    Begin(c, messages, w) /\ stopAsked' \in BOOLEAN
      <4>1. CASE AddSocket(c, s)
        <5>1. Begin(c, <<[kind |-> "add", socket |-> s]>>, "none") /\ stopAsked' \in BOOLEAN
          BY <3>1, <4>1 DEF AddSocket
        <5> QED
          BY <3>2, <5>1, MessageKinds
      <4>2. CASE RemoveSocket(c, s)
        <5>1. Begin(c, <<[kind |-> "remove", socket |-> s]>>, "none") /\ stopAsked' \in BOOLEAN
          BY <3>1, <4>2 DEF RemoveSocket
        <5> QED
          BY <3>2, <5>1, MessageKinds
      <4> QED
        BY <3>5, <4>1, <4>2
    <3> QED
      BY <2>1, <3>3, <3>4, <3>5
  <2> QED
    BY <2>2, BeginTypeOK
<1>3. ASSUME NEW c \in Clients, SendThreadMessage(c) PROVE TypeOK'
  <2>1. todo' \in [Clients -> Seq(Message)]
    <3> DEFINE M == Seq(Message)
    <3>1. todo \in [Clients -> M] /\ <<>> \in M
      BY DEF TypeOK
    <3> HIDE DEF M
    <3>2. todo' = todo \/ todo' = [todo EXCEPT ![c] = <<>>]
      BY <1>3 DEF SendThreadMessage
    <3>3. todo' \in [Clients -> M]
      BY <3>1, <3>2
    <3> QED
      BY <3>3 DEF M
  <2>3. sending' \subseteq Clients
    BY <1>3 DEF TypeOK, SendThreadMessage
  <2>2. waits' \in [Clients -> {"none", "reply", "over"}]
    BY <1>3 DEF TypeOK, SendThreadMessage
  <2> QED
    BY <1>3, <2>1, <2>2, <2>3 DEF TypeOK, SendThreadMessage, threadVars, bounds, history
<1>15. ASSUME NEW c \in Clients, AddMessage(c) PROVE TypeOK'
  <2>1. Head(todo[c]) \in Message /\ Tail(todo[c]) \in Seq(Message)
    <3>1. todo[c] \in Seq(Message) /\ todo[c] # <<>>
      BY <1>15 DEF TypeOK, Adding, AddMessage
    <3> QED
      BY <3>1
  <2>2. queue' \in Seq(Message) /\ todo' \in [Clients -> Seq(Message)]
    <3> DEFINE M == Message
    <3>1. /\ queue \in Seq(M) /\ todo \in [Clients -> Seq(M)]
          /\ Head(todo[c]) \in M /\ Tail(todo[c]) \in Seq(M)
      BY <2>1 DEF TypeOK
    <3> HIDE DEF M
    <3>2. Append(queue, Head(todo[c])) \in Seq(M)
      BY <3>1, AppendProperties, Zenon
    <3>3. todo' \in [Clients -> Seq(M)]
      BY <1>15, <3>1 DEF AddMessage
    <3> QED
      BY <1>15, <3>2, <3>3 DEF AddMessage, M
  <2> QED
    BY <1>15, <2>2 DEF TypeOK, AddMessage, threadVars, bounds, history
<1>4. ASSUME NEW c \in Clients, JoinReturns(c) PROVE TypeOK'
  BY <1>4 DEF TypeOK, JoinReturns, threadVars, bounds, history
<1>5. CASE RunnerReceives
  <2>1. Tail(queue) \in Seq(Message)
    BY <1>5, HeadMessage DEF TypeOK, RunnerReceives
  <2> QED
    BY <1>5, <2>1 DEF TypeOK, RunnerReceives, clientVars, bounds, history
<1>6. CASE RunReceives
  <2>1. Tail(queue) \in Seq(Message) /\ Head(queue) \in Message
    BY <1>6, HeadMessage DEF TypeOK, RunReceives
  <2>2. /\ pc' \in {"wait", "runner"} /\ running' \in BOOLEAN /\ polling' \in BOOLEAN
        /\ waits' \in [Clients -> {"none", "reply", "over"}]
    BY <1>6, <2>1, MessageParts
       DEF TypeOK, RunReceives, HandleStart, HandleStop, HandleAddSocket, HandleRemoveSocket,
           NotHandled
  <2>3. /\ sockets' \in Seq(Sockets) /\ receivers' \in Seq(Sockets)
        /\ handled' \in [Sockets -> Int]
    <3>1. sockets \in Seq(Sockets) /\ receivers \in Seq(Sockets) /\ handled \in [Sockets -> Int]
      BY DEF TypeOK
    <3>2. CASE UNCHANGED <<sockets, receivers, handled>>
      BY <3>1, <3>2
    <3>3. ASSUME NEW s \in Sockets,
                 sockets' = Append(sockets, s), receivers' = Append(receivers, s),
                 handled' = [handled EXCEPT ![s] = @ + 1]
          PROVE  /\ sockets' \in Seq(Sockets) /\ receivers' \in Seq(Sockets)
                 /\ handled' \in [Sockets -> Int]
      BY <3>1, <3>3
    <3>4. ASSUME NEW s \in Range(sockets),
                 sockets' = RemoveAt(sockets, Position(s)),
                 receivers' = RemoveAt(receivers, Position(s)),
                 handled' = [handled EXCEPT ![s] = @ - 1]
          PROVE  /\ sockets' \in Seq(Sockets) /\ receivers' \in Seq(Sockets)
                 /\ handled' \in [Sockets -> Int]
      <4>1. Position(s) \in 1 .. Len(sockets) /\ receivers = sockets
        BY <3>1, PositionOfServed DEF Paired
      <4>2. RemoveAt(sockets, Position(s)) \in Seq(Sockets)
        BY <3>1, <4>1, RemoveAtParts, Zenon
      <4>3. handled' \in [Sockets -> Int]
        <5>1. s \in Sockets
          BY <3>1, <4>1, PositionOfServed
        <5> QED
          BY <3>1, <3>4, <5>1
      <4> QED
        BY <3>4, <4>1, <4>2, <4>3
    <3> QED
      BY <1>6, <3>2, <3>3, <3>4, HandledParts
  <2> QED
    BY <1>6, <2>1, <2>2, <2>3 DEF TypeOK, RunReceives, bounds
<1>7. CASE Select
  BY <1>7 DEF TypeOK, Select, clientVars, bounds, history, Opened, Range
<1>8. CASE IsOpened
  <2>1. pc' \in {"opened", "dispatch"} /\ i' \in Nat
    BY <1>8 DEF TypeOK, IsOpened
  <2>2. raced' \in BOOLEAN
    <3>1. raced' = raced \/ raced' = FALSE
      BY <1>8 DEF IsOpened
    <3> QED
      BY <3>1, Zenon DEF TypeOK
  <2> QED
    BY <1>8, <2>1, <2>2 DEF TypeOK, IsOpened, clientVars, bounds
<1>14. CASE FdIsSet
  BY <1>14 DEF TypeOK, FdIsSet, clientVars, bounds, history
<1>9. CASE OnNewData
  <2>1. sockets[i] \in Sockets
    BY <1>9, WalkedSocket
  <2>2. queue' \in Seq(Message)
    <3> DEFINE M == Message
    <3>1. /\ queue \in Seq(M)
          /\ [kind |-> "stop"] \in M /\ [kind |-> "remove", socket |-> sockets[i]] \in M
      BY <2>1, MessageKinds DEF TypeOK
    <3>2. \/ queue' = queue \/ queue' = Append(queue, [kind |-> "stop"])
          \/ queue' = Append(queue, [kind |-> "remove", socket |-> sockets[i]])
      BY <1>9 DEF OnNewData
    <3> HIDE DEF M
    <3>3. queue' \in Seq(M)
      BY <3>1, <3>2
    <3> QED
      BY <3>3 DEF M
  <2>3. fd' \in [Sockets -> Fds \cup {CLOSED}]
    <3>1. fd' = fd \/ fd' = [fd EXCEPT ![sockets[i]] = CLOSED]
      BY <1>9 DEF OnNewData
    <3> QED
      BY <2>1, <3>1 DEF TypeOK
  <2>4. stopAsked' \in BOOLEAN
    <3>1. stopAsked' = stopAsked \/ stopAsked' = TRUE
      BY <1>9 DEF OnNewData
    <3> QED
      BY <3>1, Zenon DEF TypeOK
  <2>5. data' \subseteq Sockets /\ i' \in Nat
    <3>1. data' \subseteq data /\ i' = i + 1
      BY <1>9 DEF OnNewData
    <3> QED
      BY <3>1 DEF TypeOK
  <2> QED
    BY <1>9, <2>2, <2>3, <2>4, <2>5 DEF TypeOK, OnNewData, clientVars, bounds
<1>10. CASE LeaveAccept
  BY <1>10 DEF TypeOK, LeaveAccept, clientVars, bounds
<1>11. ASSUME NEW s \in Sockets, Arrive(s) PROVE TypeOK'
  BY <1>11, ServerAssumption DEF TypeOK, Arrive, threadVars, clientVars, history
<1>12. ASSUME NEW s \in Sockets, Open(s) PROVE TypeOK'
  BY <1>12, ServerAssumption DEF TypeOK, Open, threadVars, clientVars, history
<1>13. ASSUME NEW s \in Sockets, Close(s) PROVE TypeOK'
  BY <1>13, ServerAssumption DEF TypeOK, Close, threadVars, clientVars
<1> QED
  BY <1>0, <1>2, <1>3, <1>4, <1>5, <1>6, <1>7, <1>8, <1>9, <1>10, <1>11, <1>12, <1>13,
     <1>14, <1>15
     DEF Next, ClientStep, ServerStep
-----------------------------------------------------------------------------
(* The vectors, and the end of the server. *)

LEMMA VectorsStep ==
    ASSUME TypeOK, Vectors, [Next]_vars
    PROVE  Vectors'
<1>1. /\ sockets \in Seq(Sockets) /\ receivers = sockets
      /\ handled \in [Sockets -> Int]
      /\ \A s \in Sockets : handled[s] = Cardinality(Places(sockets, s))
  BY DEF TypeOK, Vectors, Paired, ServedIsAddedNotRemoved, Places
<1>2. SUFFICES /\ receivers' = sockets'
               /\ \A s \in Sockets : handled'[s] = Cardinality(Places(sockets', s))
  BY DEF Vectors, Paired, ServedIsAddedNotRemoved, Places
<1>3. CASE UNCHANGED <<sockets, receivers, handled>>
  BY <1>1, <1>3
<1>4. ASSUME NEW x \in Sockets,
             sockets' = Append(sockets, x), receivers' = Append(receivers, x),
             handled' = [handled EXCEPT ![x] = @ + 1]
      PROVE  /\ receivers' = sockets'
             /\ \A s \in Sockets : handled'[s] = Cardinality(Places(sockets', s))
  <2>1. receivers' = sockets'
    BY <1>1, <1>4
  <2>2. ASSUME NEW s \in Sockets
        PROVE  handled'[s] = Cardinality(Places(sockets', s))
    <3>1. Cardinality(Places(Append(sockets, x), s))
            = IF x = s THEN Cardinality(Places(sockets, s)) + 1 ELSE Cardinality(Places(sockets, s))
      <4>1. sockets \in Seq(Sockets)
        BY <1>1
      <4> QED
        BY <4>1, PlacesAppend
    <3>2. handled'[s] = IF x = s THEN handled[s] + 1 ELSE handled[s]
      BY <1>1, <1>4
    <3> QED
      BY <1>1, <1>4, <3>1, <3>2
  <2> QED
    BY <2>1, <2>2
<1>5. ASSUME NEW x \in Range(sockets),
             sockets' = RemoveAt(sockets, Position(x)),
             receivers' = RemoveAt(receivers, Position(x)),
             handled' = [handled EXCEPT ![x] = @ - 1]
      PROVE  /\ receivers' = sockets'
             /\ \A s \in Sockets : handled'[s] = Cardinality(Places(sockets', s))
  <2>1. receivers' = sockets'
    BY <1>1, <1>5
  <2>2. Position(x) \in 1 .. Len(sockets) /\ sockets[Position(x)] = x /\ x \in Sockets
    BY <1>1, PositionOfServed
  <2>3. ASSUME NEW s \in Sockets
        PROVE  handled'[s] = Cardinality(Places(sockets', s))
    <3>1. Cardinality(Places(RemoveAt(sockets, Position(x)), s))
            = IF sockets[Position(x)] = s THEN Cardinality(Places(sockets, s)) - 1
                                          ELSE Cardinality(Places(sockets, s))
      BY <1>1, <2>2, PlacesRemoveAt, Zenon
    <3>2. handled'[s] = IF x = s THEN handled[s] - 1 ELSE handled[s]
      BY <1>1, <1>5, <2>2
    <3> QED
      BY <1>1, <1>5, <2>2, <3>1, <3>2
  <2> QED
    BY <2>1, <2>3
<1> QED
  BY <1>3, <1>4, <1>5, NextVectors, HandledParts

LEMMA InWalkStep ==
    ASSUME TypeOK, InWalk, [Next]_vars
    PROVE  InWalk'
<1>1. CASE UNCHANGED <<pc, i, sockets>>
  BY <1>1 DEF InWalk
<1>2. CASE RunnerReceives \/ RunReceives
  <2>1. i' = i /\ pc' \notin {"opened", "call"}
    BY <1>2
       DEF TypeOK, RunnerReceives, RunReceives, HandleStart, HandleStop, HandleAddSocket,
           HandleRemoveSocket, NotHandled
  <2> QED
    BY <2>1 DEF InWalk
<1>3. CASE Select \/ IsOpened \/ FdIsSet \/ OnNewData \/ LeaveAccept
  BY <1>3 DEF TypeOK, InWalk, Select, IsOpened, FdIsSet, OnNewData, LeaveAccept, LastIndex
<1> QED
  BY <1>1, <1>2, <1>3
     DEF Next, vars, threadVars, ClientCalls, ClientStep, ServerStep, Begin, Start, Stop,
         AddSocket, RemoveSocket, SendThreadMessage, AddMessage, JoinReturns, Arrive, Open,
         Close

LEMMA AddingStep ==
    ASSUME TypeOK, Adding, [Next]_vars
    PROVE  Adding'
<1>1. CASE UNCHANGED <<todo, sending>>
  BY <1>1 DEF Adding
<1>2. ASSUME NEW c \in Clients, NEW messages, NEW then, Begin(c, messages, then)
      PROVE  Adding'
  BY <1>2 DEF TypeOK, Adding, Begin
<1>3. CASE ClientCalls
  BY <1>2, <1>3 DEF ClientCalls, Start, Stop, AddSocket, RemoveSocket
<1>4. ASSUME NEW c \in Clients, SendThreadMessage(c) \/ AddMessage(c)
      PROVE  Adding'
  BY <1>4 DEF TypeOK, Adding, SendThreadMessage, AddMessage
<1> QED
  BY <1>1, <1>3, <1>4
     DEF Next, vars, clientVars, ClientStep, ServerStep, JoinReturns, RunnerReceives,
         RunReceives, Select, IsOpened, FdIsSet, OnNewData, LeaveAccept, Arrive, Open, Close

LEMMA ServerInvInit ==
    ASSUME Init
    PROVE  ServerInv
<1>1. queue \in Seq(Message) /\ todo \in [Clients -> Seq(Message)]
  BY MessageKinds DEF Init
<1>2. TypeOK
  <2>1. queue \in Seq(Message) /\ todo \in [Clients -> Seq(Message)]
    BY <1>1
  <2>2. /\ pc \in {"runner", "wait", "dispatch", "opened", "call", "over"}
        /\ running \in BOOLEAN /\ polling \in BOOLEAN
        /\ sockets \in Seq(Sockets) /\ receivers \in Seq(Sockets)
        /\ readSet \subseteq Fds /\ i \in Nat /\ data \subseteq Sockets
    BY DEF Init
  <2>3. /\ fd \in [Sockets -> Fds \cup {CLOSED}]
        /\ waits \in [Clients -> {"none", "reply", "over"}]
        /\ handled \in [Sockets -> Int] /\ sending \subseteq Clients
    BY DEF Init
  <2>5. stopAsked \in BOOLEAN /\ raced \in BOOLEAN
    BY Zenon DEF Init
  <2>4. calls \in 0 .. MaxCalls /\ arrivals \in 0 .. MaxArrivals /\ opens \in 0 .. MaxOpens
    BY ServerAssumption DEF Init
  <2> QED
    BY <2>1, <2>2, <2>3, <2>4, <2>5 DEF TypeOK
<1>3. ServedIsAddedNotRemoved
  <2>1. ASSUME NEW s \in Sockets
        PROVE  {k \in DOMAIN sockets : sockets[k] = s} = {}
    BY DEF Init
  <2> QED
    BY <2>1, FS_EmptySet DEF Init, ServedIsAddedNotRemoved
<1> QED
  BY <1>2, <1>3 DEF Init, ServerInv, Vectors, Paired, InWalk, Adding

LEMMA ServerInvStep == ServerInv /\ [Next]_vars => ServerInv'
BY TypeOKStep, VectorsStep, InWalkStep, AddingStep DEF ServerInv, Vectors

LEMMA ServerInvariant == Spec => []ServerInv
BY ServerInvInit, ServerInvStep, PTL DEF Spec

(* TCNetSocketServer::HandleMessage, AddSocket and RemoveSocket: whatever  *)
(* clients and receivers add and remove, in whatever order, a socket is in *)
(* m_sockets as often as it was added and not removed.                     *)
THEOREM SpecServedIsAddedNotRemoved == Spec => []ServedIsAddedNotRemoved
BY ServerInvariant, PTL DEF ServerInv, Vectors

(* m_sockets and m_receivers are changed together and stay paired.         *)
THEOREM SpecPaired == Spec => []Paired
BY ServerInvariant, PTL DEF ServerInv, Vectors
-----------------------------------------------------------------------------
(* The message of a Join finds that of a Stop before it.                   *)

Run == [kind |-> "run"]

RunInFront == \A k \in DOMAIN queue : queue[k] = Run => k = 1 /\ pc = "runner"

StopQueued == RunEnded \/ \E k \in DOMAIN queue : queue[k].kind = "stop"

(* What clients have to add: one message, or those of Stop(true). *)
OneMessage(messages) ==
    /\ Len(messages) = 1
    /\ messages[1].kind \notin {"run", "join"}

TodoOfCalls ==
    \A c \in Clients :
        \/ todo[c] = <<>> \/ OneMessage(todo[c]) \/ todo[c] = StopMessages(TRUE)
        \/ todo[c] = <<[kind |-> "join"]>> /\ StopQueued

StopInv == RunInFront /\ TodoOfCalls /\ StopComesFirst

(* Run and ThreadRunner take the first message.                            *)
LEMMA Taken ==
    ASSUME queue \in Seq(Message), queue # <<>>, queue' = Tail(queue)
    PROVE  /\ 1 \in DOMAIN queue /\ Head(queue) = queue[1]
           /\ \A k \in DOMAIN queue' : k + 1 \in DOMAIN queue /\ queue'[k] = queue[k + 1]
           /\ \A k \in DOMAIN queue : k # 1 => k - 1 \in DOMAIN queue' /\ queue'[k - 1] = queue[k]
           /\ \A k \in DOMAIN queue \cup DOMAIN queue' : k \in Nat /\ k >= 1
<1> DEFINE M == Message
<1>1. queue \in Seq(M)
  OBVIOUS
<1> HIDE DEF M
<1> QED
  BY <1>1

LEMMA RunEndedIs ==
    ASSUME queue \in Seq(Message)
    PROVE  RunEnded <=> pc \in {"runner", "over"} /\ \A k \in DOMAIN queue : queue[k] # Run
BY DEF RunEnded, Range, Run

(* Nothing is added but what clients and receivers add.                    *)
LEMMA StopAppended ==
    ASSUME TypeOK, StopInv, NEW m \in Message, m.kind # "run",
           queue' = Append(queue, m), UNCHANGED pc,
           m.kind = "join" => StopQueued
    PROVE  /\ RunInFront' /\ StopComesFirst'
           /\ StopQueued => StopQueued'
           /\ m.kind = "stop" => StopQueued'
<1> DEFINE n == Len(queue)
<1>1. /\ n \in Nat /\ DOMAIN queue = 1 .. n /\ DOMAIN queue' = 1 .. n + 1
      /\ \A k \in 1 .. n : queue'[k] = queue[k]
      /\ queue'[n + 1] = m
      /\ queue \in Seq(Message) /\ queue' \in Seq(Message)
  <2> DEFINE M == Message
  <2>1. queue \in Seq(M) /\ m \in M
    BY DEF TypeOK
  <2> HIDE DEF M
  <2>2. /\ n \in Nat /\ DOMAIN queue = 1 .. n /\ DOMAIN queue' = 1 .. n + 1
        /\ \A k \in 1 .. n : queue'[k] = queue[k]
        /\ queue'[n + 1] = m
        /\ queue \in Seq(M) /\ queue' \in Seq(M)
    BY <2>1
  <2> QED
    BY <2>2 DEF M
<1>2. m # Run
  BY DEF Run
<1> HIDE DEF n
<1>3. RunInFront'
  BY <1>1, <1>2 DEF StopInv, RunInFront
<1>4. RunEnded <=> pc \in {"runner", "over"} /\ \A k \in 1 .. n : queue[k] # Run
  BY <1>1, RunEndedIs
<1>5. RunEnded' <=> pc \in {"runner", "over"} /\ \A k \in 1 .. n + 1 : queue'[k] # Run
  BY <1>1 DEF RunEnded, Range, Run
<1>6. RunEnded => RunEnded'
  BY <1>1, <1>2, <1>4, <1>5
<1>7. StopQueued => RunEnded' \/ \E k \in 1 .. n : queue'[k].kind = "stop"
  BY <1>1, <1>6 DEF StopQueued
<1>8. StopQueued => StopQueued'
  BY <1>1, <1>7 DEF StopQueued
<1>9. m.kind = "stop" => StopQueued'
  BY <1>1 DEF StopQueued
<1>10. StopComesFirst'
  <2> SUFFICES ASSUME NEW k \in 1 .. n + 1, queue'[k].kind = "join"
               PROVE  RunEnded' \/ \E j \in 1 .. k - 1 : queue'[j].kind = "stop"
    BY <1>1 DEF StopComesFirst
  <2>1. CASE k = n + 1
    BY <1>1, <1>7, <2>1
  <2>2. CASE k # n + 1
    <3>1. k \in 1 .. n /\ queue[k].kind = "join"
      BY <1>1, <2>2
    <3>2. RunEnded \/ \E j \in 1 .. k - 1 : queue[j].kind = "stop"
      BY <1>1, <3>1 DEF StopInv, StopComesFirst
    <3> QED
      BY <1>1, <1>6, <3>1, <3>2
  <2> QED
    BY <2>1, <2>2
<1> QED
  BY <1>3, <1>8, <1>9, <1>10

(* Begin of a call: only Stop(true) has a message of a Join to add.        *)
LEMMA TodoOfBegin ==
    ASSUME TypeOK, StopInv, ClientCalls
    PROVE  TodoOfCalls'
<1>1. ASSUME NEW c \in Clients, NEW messages, NEW then, Begin(c, messages, then),
             OneMessage(messages) \/ messages = StopMessages(TRUE)
      PROVE  TodoOfCalls'
  <2>1. todo' = [todo EXCEPT ![c] = messages] /\ UNCHANGED <<queue, pc>>
    BY <1>1 DEF Begin, threadVars
  <2>2. StopQueued' <=> StopQueued
    BY <2>1 DEF StopQueued, RunEnded
  <2> QED
    BY <1>1, <2>1, <2>2 DEF TypeOK, StopInv, TodoOfCalls
<1>2. ASSUME NEW m, m.kind \notin {"run", "join"}
      PROVE  OneMessage(<<m>>)
  BY <1>2 DEF OneMessage
<1>3. ASSUME NEW c \in Clients, NEW wait \in BOOLEAN, Start(c, wait)
      PROVE  TodoOfCalls'
  <2>1. CASE wait
    BY <1>1, <1>2, <1>3, <2>1 DEF Start
  <2>2. CASE ~wait
    BY <1>1, <1>2, <1>3, <2>2 DEF Start
  <2> QED
    BY <2>1, <2>2
<1>4. ASSUME NEW c \in Clients, NEW wait \in BOOLEAN, Stop(c, wait)
      PROVE  TodoOfCalls'
  <2>1. wait = TRUE \/ StopMessages(wait) = <<[kind |-> "stop"]>>
    BY DEF StopMessages
  <2>2. OneMessage(StopMessages(wait)) \/ StopMessages(wait) = StopMessages(TRUE)
    BY <1>2, <2>1
  <2> QED
    BY <1>1, <1>4, <2>2 DEF Stop
<1>5. ASSUME NEW c \in Clients, NEW s \in Sockets, AddSocket(c, s) \/ RemoveSocket(c, s)
      PROVE  TodoOfCalls'
  BY <1>1, <1>2, <1>5 DEF AddSocket, RemoveSocket
<1> QED
  BY <1>3, <1>4, <1>5 DEF ClientCalls

(* A client adds the next message of its call.                             *)
LEMMA StopAdded ==
    ASSUME TypeOK, Adding, StopInv, NEW c \in Clients, AddMessage(c)
    PROVE  StopInv'
<1> DEFINE m == Head(todo[c])
<1>1. /\ todo[c] \in Seq(Message) /\ todo[c] # <<>> /\ m \in Message
      /\ queue' = Append(queue, m) /\ pc' = pc /\ todo' = [todo EXCEPT ![c] = Tail(@)]
  BY DEF TypeOK, Adding, AddMessage, threadVars
<1>2. \/ OneMessage(todo[c]) \/ todo[c] = StopMessages(TRUE)
      \/ todo[c] = <<[kind |-> "join"]>> /\ StopQueued
  BY <1>1 DEF StopInv, TodoOfCalls
<1>3. \/ m.kind \notin {"run", "join"} /\ Tail(todo[c]) = <<>>
      \/ m.kind = "stop" /\ Tail(todo[c]) = <<[kind |-> "join"]>>
      \/ m.kind = "join" /\ StopQueued /\ Tail(todo[c]) = <<>>
  <2>1. CASE OneMessage(todo[c])
    <3> DEFINE s == todo[c]
               M == Message
    <3>1. s \in Seq(M) /\ Len(s) = 1 /\ s[1].kind \notin {"run", "join"}
      BY <1>1, <2>1 DEF OneMessage
    <3> HIDE DEF M
    <3>2. Head(s) = s[1] /\ Tail(s) \in Seq(M) /\ Len(Tail(s)) = 0
      BY <3>1
    <3>3. Tail(s) = <<>>
      BY <3>2, EmptySeq
    <3> QED
      BY <3>1, <3>2, <3>3
  <2>2. CASE todo[c] = StopMessages(TRUE)
    BY <2>2 DEF StopMessages
  <2>3. CASE todo[c] = <<[kind |-> "join"]>> /\ StopQueued
    BY <2>3
  <2> QED
    BY <1>2, <2>1, <2>2, <2>3
<1> HIDE DEF m
<1>4. /\ RunInFront' /\ StopComesFirst'
      /\ StopQueued => StopQueued'
      /\ m.kind = "stop" => StopQueued'
  BY <1>1, <1>3, StopAppended
<1>5. TodoOfCalls'
  BY <1>1, <1>3, <1>4 DEF TypeOK, StopInv, TodoOfCalls
<1> QED
  BY <1>4, <1>5 DEF StopInv

(* A message is taken: by ThreadRunner, which begins Run with the first    *)
(* one, or by Run, which is over with the first stop message.              *)
LEMMA StopTaken ==
    ASSUME TypeOK, StopInv, RunnerReceives \/ RunReceives
    PROVE  StopInv'
<1>1. /\ queue # <<>> /\ queue' = Tail(queue) /\ pc \in {"runner", "wait"} /\ todo' = todo
      /\ queue \in Seq(Message) /\ queue[1] \in Message /\ Head(queue) = queue[1]
  BY HeadMessage, Taken DEF TypeOK, RunnerReceives, RunReceives, clientVars
<1>2. /\ 1 \in DOMAIN queue
      /\ \A k \in DOMAIN queue' : k + 1 \in DOMAIN queue /\ queue'[k] = queue[k + 1]
      /\ \A k \in DOMAIN queue : k # 1 => k - 1 \in DOMAIN queue' /\ queue'[k - 1] = queue[k]
      /\ \A k \in DOMAIN queue \cup DOMAIN queue' : k \in Nat /\ k >= 1
  BY <1>1, Taken
<1>3. \A k \in DOMAIN queue' : queue'[k] # Run
  BY <1>2 DEF StopInv, RunInFront
<1>4. RunInFront'
  BY <1>3 DEF RunInFront
<1>5. RunEnded' <=> pc' \in {"runner", "over"}
  BY <1>3 DEF RunEnded, Range, Run
<1>6. RunEnded <=> pc = "runner" /\ \A k \in DOMAIN queue : queue[k] # Run
  BY <1>1, RunEndedIs
<1>7. CASE RunEnded
  <2>1. pc' \in {"runner", "over"}
    <3>1. pc = "runner" /\ Head(queue).kind # "run"
      BY <1>1, <1>2, <1>6, <1>7, MessageParts DEF Run
    <3> QED
      BY <3>1 DEF RunnerReceives, RunReceives
  <2>2. RunEnded'
    BY <1>5, <2>1
  <2> QED
    BY <1>1, <1>4, <2>2 DEF StopInv, TodoOfCalls, StopComesFirst, StopQueued
<1>8. CASE ~RunEnded /\ queue[1].kind # "stop"
  <2>1. \A k \in DOMAIN queue :
            queue[k].kind = "stop" => k - 1 \in DOMAIN queue' /\ queue'[k - 1].kind = "stop"
    BY <1>2, <1>8
  <2>2. StopQueued => StopQueued'
    BY <1>8, <2>1 DEF StopQueued
  <2>3. TodoOfCalls'
    BY <1>1, <2>2 DEF StopInv, TodoOfCalls
  <2>4. StopComesFirst'
    <3> SUFFICES ASSUME NEW k \in DOMAIN queue', queue'[k].kind = "join"
                 PROVE  \E j \in 1 .. k - 1 : queue'[j].kind = "stop"
      BY DEF StopComesFirst
    <3>1. PICK j \in 1 .. k : queue[j].kind = "stop"
      <4>1. k + 1 \in DOMAIN queue /\ queue[k + 1].kind = "join" /\ k \in Nat
        BY <1>2
      <4>2. \E j \in 1 .. (k + 1) - 1 : queue[j].kind = "stop"
        BY <1>8, <4>1 DEF StopInv, StopComesFirst
      <4> QED
        BY <4>1, <4>2
    <3>2. j # 1 /\ k \in Nat /\ j \in DOMAIN queue
      <4>1. k + 1 \in DOMAIN queue /\ k \in Nat
        BY <1>2
      <4>2. DOMAIN queue = 1 .. Len(queue) /\ Len(queue) \in Nat
        BY <1>1
      <4> QED
        BY <1>8, <3>1, <4>1, <4>2
    <3>3. j - 1 \in 1 .. k - 1 /\ queue'[j - 1].kind = "stop"
      BY <2>1, <3>1, <3>2
    <3> QED
      BY <3>3
  <2> QED
    BY <1>4, <2>3, <2>4 DEF StopInv
<1>9. CASE ~RunEnded /\ queue[1].kind = "stop"
  <2>1. pc = "wait"
    <3> SUFFICES ASSUME pc = "runner" PROVE FALSE
      BY <1>1
    <3>1. PICK k \in DOMAIN queue : queue[k] = Run
      BY <1>6, <1>9
    <3>2. queue[1] = Run
      BY <3>1 DEF StopInv, RunInFront
    <3> QED
      BY <1>9, <3>2 DEF Run
  <2>2. pc' = "runner"
    <3>1. HandleStop(queue[1])
      BY <1>1, <1>9, <2>1
         DEF RunnerReceives, RunReceives, HandleStart, HandleAddSocket, HandleRemoveSocket,
             NotHandled
    <3> QED
      BY <3>1 DEF HandleStop
  <2>3. RunEnded'
    BY <1>5, <2>2
  <2> QED
    BY <1>1, <1>4, <2>3 DEF StopInv, TodoOfCalls, StopComesFirst, StopQueued
<1> QED
  BY <1>7, <1>8, <1>9

LEMMA StopInvStep ==
    ASSUME TypeOK, InWalk, Adding, StopInv, [Next]_vars
    PROVE  StopInv'
<1>1. ASSUME UNCHANGED queue, RunEnded' <=> RunEnded, pc = "runner" <=> pc' = "runner",
             TodoOfCalls'
      PROVE  StopInv'
  BY <1>1 DEF StopInv, RunInFront, StopComesFirst
<1>2. ASSUME UNCHANGED <<queue, todo>>, UNCHANGED pc \/ {pc, pc'} \cap {"runner", "over"} = {}
      PROVE  StopInv'
  <2>1. RunEnded' <=> RunEnded
    BY <1>2 DEF RunEnded
  <2>2. TodoOfCalls'
    BY <1>2, <2>1 DEF StopInv, TodoOfCalls, StopQueued
  <2> QED
    BY <1>1, <1>2, <2>1, <2>2
<1>3. CASE ClientCalls
  <2>1. UNCHANGED <<queue, pc>>
    BY <1>3 DEF ClientCalls, Start, Stop, AddSocket, RemoveSocket, Begin, threadVars
  <2>2. RunEnded' <=> RunEnded
    BY <2>1 DEF RunEnded
  <2> QED
    BY <1>1, <1>3, <2>1, <2>2, TodoOfBegin
<1>4. ASSUME NEW c \in Clients, SendThreadMessage(c)
      PROVE  StopInv'
  <2>1. /\ UNCHANGED <<queue, pc>>
        /\ todo' = todo \/ todo' = [todo EXCEPT ![c] = <<>>]
    BY <1>4 DEF SendThreadMessage, threadVars
  <2>2. RunEnded' <=> RunEnded
    BY <2>1 DEF RunEnded
  <2>3. TodoOfCalls'
    BY <2>1, <2>2 DEF TypeOK, StopInv, TodoOfCalls, StopQueued
  <2> QED
    BY <1>1, <2>1, <2>2, <2>3
<1>5. CASE OnNewData
  <2>1. /\ pc = "call" /\ pc' = "dispatch" /\ todo' = todo
        /\ sockets[i] \in Sockets
    BY <1>5, WalkedSocket DEF OnNewData, clientVars
  <2>2. CASE queue' = queue
    BY <1>2, <2>1, <2>2
  <2>3. ASSUME NEW m \in Message, m.kind \in {"remove", "stop"}, queue' = Append(queue, m)
        PROVE  StopInv'
    <3>1. ~RunEnded /\ ~RunEnded'
      BY <2>1 DEF RunEnded
    <3>2. /\ Len(queue) \in Nat /\ DOMAIN queue = 1 .. Len(queue)
          /\ DOMAIN queue' = 1 .. Len(queue) + 1
          /\ \A k \in DOMAIN queue : queue'[k] = queue[k]
          /\ queue'[Len(queue) + 1] = m
      <4> DEFINE M == Message
      <4>1. queue \in Seq(M) /\ m \in M
        BY DEF TypeOK
      <4> HIDE DEF M
      <4> QED
        BY <2>3, <4>1
    <3>3. m # Run
      BY <2>3 DEF Run
    <3>4. RunInFront'
      BY <2>1, <3>2, <3>3 DEF StopInv, RunInFront
    <3>5. TodoOfCalls'
      <4>1. StopQueued => StopQueued'
        BY <3>1, <3>2 DEF StopQueued
      <4> QED
        BY <2>1, <4>1 DEF StopInv, TodoOfCalls
    <3>6. StopComesFirst'
      <4> SUFFICES ASSUME NEW k \in DOMAIN queue', queue'[k].kind = "join"
                   PROVE  \E j \in 1 .. k - 1 : queue'[j].kind = "stop"
        BY DEF StopComesFirst
      <4>1. k \in DOMAIN queue /\ queue[k].kind = "join"
        BY <2>3, <3>2
      <4>2. \E j \in 1 .. k - 1 : queue[j].kind = "stop"
        BY <3>1, <4>1 DEF StopInv, StopComesFirst
      <4> QED
        BY <3>2, <4>1, <4>2
    <3> QED
      BY <3>4, <3>5, <3>6 DEF StopInv
  <2> QED
    BY <1>5, <2>1, <2>2, <2>3, MessageKinds DEF OnNewData
<1>6. CASE UNCHANGED vars \/ Select \/ IsOpened \/ FdIsSet \/ LeaveAccept
           \/ \E c \in Clients : JoinReturns(c)
  BY <1>2, <1>6
     DEF vars, threadVars, clientVars, Select, IsOpened, FdIsSet, LeaveAccept, JoinReturns
<1>7. CASE RunnerReceives \/ RunReceives
  BY <1>7, StopTaken
<1>8. ASSUME NEW c \in Clients, AddMessage(c) PROVE StopInv'
  BY <1>8, StopAdded
<1>9. ASSUME NEW c \in Clients, ClientStep(c) PROVE StopInv'
  BY <1>4, <1>6, <1>8, <1>9 DEF ClientStep
<1>10. CASE ServerStep
  BY <1>5, <1>6, <1>7, <1>10 DEF ServerStep
<1>11. ASSUME NEW s \in Sockets, Arrive(s) \/ Open(s) \/ Close(s) PROVE StopInv'
  BY <1>2, <1>11 DEF threadVars, clientVars, Arrive, Open, Close
<1>12. CASE UNCHANGED vars
  BY <1>6, <1>12
<1> QED
  BY <1>3, <1>9, <1>10, <1>11, <1>12 DEF Next

(* SocketServerImp::Stop and ThreadBase::Join: however many clients and    *)
(* receivers stop and join, for any number of them, Run never meets the    *)
(* message of a Join, which HandleMessage would drop.                      *)
THEOREM SpecStopComesFirst == Spec => []StopComesFirst
<1>1. Init => StopInv
  <2> SUFFICES ASSUME Init PROVE StopInv
    OBVIOUS
  <2>1. queue = <<Run>> /\ pc = "runner" /\ todo = [c \in Clients |-> <<>>]
    BY DEF Init, Run
  <2> QED
    BY <2>1 DEF Run, StopInv, RunInFront, TodoOfCalls, StopComesFirst
<1>2. ServerInv /\ StopInv /\ [Next]_vars => StopInv'
  BY StopInvStep DEF ServerInv
<1>3. StopInv => StopComesFirst
  BY DEF StopInv
<1> QED
  BY <1>1, <1>2, <1>3, ServerInvariant, PTL DEF Spec
-----------------------------------------------------------------------------
(* The walk of Accept. *)

LEMMA WalkInit ==
    ASSUME Init
    PROVE  DistinctFds /\ Walk /\ Tested
BY DEF Init, Walk, Tested

(* Open gives out a descriptor that is free, the others close one or none. *)
LEMMA DistinctFdsStep ==
    ASSUME TypeOK, DistinctFds, InWalk, [Next]_vars
    PROVE  DistinctFds'
<1>1. CASE UNCHANGED fd
  BY <1>1 DEF DistinctFds
<1>2. ASSUME NEW s \in Sockets, fd' = [fd EXCEPT ![s] = CLOSED]
      PROVE  DistinctFds'
  BY <1>2 DEF DistinctFds, TypeOK
<1>3. ASSUME NEW s \in Sockets, NEW n \in Fds \ Range(fd), fd' = [fd EXCEPT ![s] = n]
      PROVE  DistinctFds'
  BY <1>3 DEF DistinctFds, TypeOK, Range
<1>4. ASSUME NEW s \in Sockets, Open(s) PROVE DistinctFds'
  BY <1>3, <1>4 DEF Open
<1>5. ASSUME NEW s \in Sockets, Close(s) PROVE DistinctFds'
  BY <1>2, <1>5 DEF Close
<1>6. CASE OnNewData
  <2>1. sockets[i] \in Sockets
    BY <1>6, WalkedSocket
  <2>2. fd' = fd \/ fd' = [fd EXCEPT ![sockets[i]] = CLOSED]
    BY <1>6 DEF OnNewData
  <2> QED
    BY <1>1, <1>2, <2>1, <2>2
<1> QED
  BY <1>1, <1>4, <1>5, <1>6
     DEF Next, vars, ClientCalls, ClientStep, ServerStep, Begin, Start, Stop, AddSocket,
         RemoveSocket, SendThreadMessage, AddMessage, JoinReturns, RunnerReceives, RunReceives,
         Select, IsOpened, FdIsSet, LeaveAccept, Arrive

LEMMA WalkStep ==
    ASSUME TypeOK, DistinctFds, InWalk, Walk, Reused = FALSE, [Next]_vars
    PROVE  Walk'
<1> USE DEF Walk
<1>1. CASE UNCHANGED <<pc, readSet, i, fd, data, sockets>>
  BY <1>1
<1>2. CASE RunnerReceives
  BY <1>2 DEF RunnerReceives
<1>3. CASE RunReceives
  <2>1. readSet = {} /\ readSet' = {} /\ i' = i
    BY <1>3 DEF RunReceives
  <2> QED
    BY <2>1
<1>4. CASE Select
  <2>1. /\ pc' = "dispatch" /\ i' = 1 /\ UNCHANGED <<fd, data>>
        /\ readSet' = {fd[s] : s \in {t \in Range(sockets) : Opened(t) /\ t \in data}}
    BY <1>4 DEF Select
  <2>2. ASSUME NEW s \in Sockets, fd[s] \in readSet'
        PROVE  s \in data
    <3>1. PICK t \in Range(sockets) : Opened(t) /\ t \in data /\ fd[s] = fd[t]
      BY <2>1, <2>2
    <3>2. t \in Sockets
      BY <3>1 DEF TypeOK
    <3> QED
      BY <3>1, <3>2 DEF DistinctFds, Opened
  <2> QED
    BY <2>1, <2>2
<1>5. CASE IsOpened \/ FdIsSet
  <2>1. /\ i \in Nat /\ (i' = i \/ i' = i + 1)
        /\ {pc, pc'} \subseteq {"dispatch", "opened", "call"}
        /\ UNCHANGED <<readSet, fd, data, sockets>>
    BY <1>5 DEF TypeOK, IsOpened, FdIsSet
  <2>2. \A k \in DOMAIN sockets : k < i => k < i'
    BY <2>1 DEF TypeOK
  <2> QED
    BY <2>1, <2>2
<1>6. CASE OnNewData
  <2>1. i \in DOMAIN sockets /\ i \in Nat /\ sockets[i] \in Sockets
    BY <1>6, WalkedSocket DEF TypeOK
  <2>2. /\ i' = i + 1 /\ data' = data \ {sockets[i]} /\ UNCHANGED <<readSet, sockets>>
        /\ pc' = "dispatch"
    BY <1>6 DEF OnNewData
  <2>3. fd' = fd \/ fd' = [fd EXCEPT ![sockets[i]] = CLOSED]
    BY <1>6 DEF OnNewData
  <2>4. CLOSED \notin readSet
    BY ServerAssumption DEF TypeOK
  <2>5. ASSUME NEW s \in Sockets, fd'[s] \in readSet
        PROVE  fd[s] \in readSet
    BY <2>1, <2>3, <2>4, <2>5 DEF TypeOK
  <2>6. ASSUME NEW s \in Sockets, fd'[s] \in readSet
        PROVE  s \in data' \/ \E k \in DOMAIN sockets : k < i' /\ sockets[k] = s
    <3>1. i < i' /\ \A k \in DOMAIN sockets : k < i => k < i'
      BY <2>1, <2>2 DEF TypeOK
    <3> QED
      BY <2>1, <2>2, <2>5, <2>6, <3>1
  <2> QED
    BY <2>1, <2>2, <2>6
<1>7. CASE LeaveAccept
  BY <1>7 DEF LeaveAccept
<1>8. ASSUME NEW x \in Sockets, Arrive(x) PROVE Walk'
  BY <1>8 DEF Arrive, threadVars
<1>9. ASSUME NEW x \in Sockets, Open(x) PROVE Walk'
  <2>1. PICK n \in Fds : n \notin readSet /\ fd' = [fd EXCEPT ![x] = n]
    BY <1>9 DEF Open
  <2>2. UNCHANGED <<pc, readSet, i, data, sockets>>
    BY <1>9 DEF Open, threadVars
  <2>3. ASSUME NEW s \in Sockets, fd'[s] \in readSet
        PROVE  fd[s] \in readSet
    BY <2>1, <2>3 DEF TypeOK
  <2> QED
    BY <2>2, <2>3
<1>10. ASSUME NEW x \in Sockets, Close(x) PROVE Walk'
  <2>1. fd' = [fd EXCEPT ![x] = CLOSED] /\ data' = data \ {x}
    BY <1>10 DEF Close
  <2>2. UNCHANGED <<pc, readSet, i, sockets>>
    BY <1>10 DEF Close, threadVars
  <2>3. CLOSED \notin readSet
    BY ServerAssumption DEF TypeOK
  <2>4. ASSUME NEW s \in Sockets, fd'[s] \in readSet
        PROVE  fd[s] \in readSet /\ s # x
    BY <2>1, <2>3, <2>4 DEF TypeOK
  <2> QED
    BY <2>1, <2>2, <2>4
<1> QED
  BY <1>1, <1>2, <1>3, <1>4, <1>5, <1>6, <1>7, <1>8, <1>9, <1>10
     DEF Next, vars, threadVars, ClientCalls, ClientStep, ServerStep, Begin, Start, Stop,
         AddSocket, RemoveSocket, SendThreadMessage, AddMessage, JoinReturns

LEMMA TestedStep ==
    ASSUME TypeOK, InWalk, Tested, [Next]_vars
    PROVE  Tested'
<1>1. CASE UNCHANGED <<pc, i, sockets, fd, readSet, raced>>
  BY <1>1 DEF Tested, Opened
<1>2. CASE RunnerReceives \/ RunReceives
  <2>1. pc' \notin {"opened", "call"}
    BY <1>2
       DEF TypeOK, RunnerReceives, RunReceives, HandleStart, HandleStop, HandleAddSocket,
           HandleRemoveSocket, NotHandled
  <2> QED
    BY <2>1 DEF Tested
<1>3. CASE Select \/ OnNewData \/ LeaveAccept
  BY <1>3 DEF Tested, Select, OnNewData, LeaveAccept
<1>4. CASE IsOpened
  BY <1>4 DEF Tested, IsOpened, Opened
<1>5. CASE FdIsSet
  <2>1. pc = "opened" /\ UNCHANGED <<sockets, fd, readSet, raced>>
    BY <1>5 DEF FdIsSet, history
  <2>2. \/ pc' = "dispatch"
        \/ pc' = "call" /\ i' = i /\ TRUE \in Selected(sockets[i])
    BY <1>5 DEF FdIsSet
  <2> QED
    BY <2>1, <2>2 DEF Tested, Selected, Opened
<1>6. ASSUME NEW s \in Sockets, Open(s) PROVE Tested'
  <2>1. PICK n \in Fds : fd' = [fd EXCEPT ![s] = n]
    BY <1>6 DEF Open
  <2>2. UNCHANGED <<pc, i, sockets, readSet, raced>> /\ ~Opened(s)
    BY <1>6 DEF Open, threadVars, history
  <2>3. ASSUME pc \in {"opened", "call"}, ~raced
        PROVE  Opened(sockets[i]) /\ fd'[sockets[i]] = fd[sockets[i]]
    <3>1. Opened(sockets[i]) /\ sockets[i] \in Sockets
      BY <2>3 DEF TypeOK, InWalk, Tested
    <3> QED
      BY <2>1, <2>2, <3>1 DEF TypeOK
  <2> QED
    BY <2>2, <2>3 DEF Tested, Opened
<1>7. ASSUME NEW s \in Sockets, Close(s) PROVE Tested'
  <2>1. /\ fd' = [fd EXCEPT ![s] = CLOSED] /\ UNCHANGED <<pc, i, sockets, readSet>>
        /\ raced' = (raced \/ (pc \in {"opened", "call"} /\ sockets[i] = s))
    BY <1>7 DEF Close, threadVars
  <2>2. ASSUME pc \in {"opened", "call"}, ~raced'
        PROVE  ~raced /\ sockets[i] \in Sockets /\ fd'[sockets[i]] = fd[sockets[i]]
    <3>1. ~raced /\ sockets[i] # s
      BY <2>1, <2>2
    <3>2. sockets[i] \in Sockets
      BY <2>2 DEF TypeOK, InWalk
    <3> QED
      BY <2>1, <3>1, <3>2 DEF TypeOK
  <2> QED
    BY <2>1, <2>2 DEF Tested, Opened
<1> QED
  BY <1>1, <1>2, <1>3, <1>4, <1>5, <1>6, <1>7
     DEF Next, vars, threadVars, history, ClientCalls, ClientStep, ServerStep, Begin, Start,
         Stop, AddSocket, RemoveSocket, SendThreadMessage, AddMessage, JoinReturns, Arrive

LEMMA WalkInvariant == Reused = FALSE => (Spec => [](ServerInv /\ WalkInv))
<1> SUFFICES ASSUME Reused = FALSE PROVE Spec => [](ServerInv /\ WalkInv)
  OBVIOUS
<1>1. Init => ServerInv /\ WalkInv
  BY ServerInvInit, WalkInit DEF ServerInv, WalkInv
<1>2. ServerInv /\ WalkInv /\ [Next]_vars => (ServerInv /\ WalkInv)'
  BY ServerInvStep, TypeOKStep, DistinctFdsStep, WalkStep, TestedStep
     DEF ServerInv, WalkInv, Vectors
<1> QED
  BY <1>1, <1>2, PTL DEF Spec

(* A socket that is called without data has a place before that of the     *)
(* call, so it was added twice.                                            *)
LEMMA CalledStep ==
    ASSUME ServerInv, WalkInv, OnNewData, NEW s, s = sockets[i]
    PROVE  /\ receivers[i] = s /\ handled[s] > 0
           /\ s \in data \/ handled[s] > 1 \/ raced
<1>1. /\ i \in DOMAIN sockets /\ i \in Nat /\ s \in Sockets
      /\ sockets \in Seq(Sockets) /\ receivers = sockets
  BY WalkedSocket DEF ServerInv, TypeOK, Vectors, Paired
<1>2. handled[s] = Cardinality(Places(sockets, s)) /\ i \in Places(sockets, s)
  BY <1>1 DEF ServerInv, Vectors, ServedIsAddedNotRemoved, Places
<1>3. IsFiniteSet(Places(sockets, s)) /\ Cardinality(Places(sockets, s)) \in Nat
  BY <1>1, PlacesFinite, Zenon
<1>4. handled[s] > 0
  BY <1>2, <1>3, FS_EmptySet
<1>5. ASSUME s \notin data, ~raced PROVE handled[s] > 1
  <2>1. fd[s] \in readSet
    BY <1>5 DEF WalkInv, Tested, OnNewData
  <2>2. PICK k \in DOMAIN sockets : k < i /\ sockets[k] = s
    BY <1>1, <1>5, <2>1 DEF WalkInv, Walk
  <2>3. k \in Places(sockets, s) /\ k # i
    BY <1>1, <2>2 DEF Places
  <2>4. handled[s] # 1
    <3> SUFFICES ASSUME handled[s] = 1 PROVE FALSE
      OBVIOUS
    <3>1. PICK x : Places(sockets, s) = {x}
      BY <1>2, <1>3, FS_Singleton, Zenon
    <3> QED
      BY <1>2, <2>3, <3>1
  <2> QED
    BY <1>2, <1>3, <1>4, <2>4
<1> QED
  BY <1>1, <1>4, <1>5

(* TCNetSocketServer::Accept, if no descriptor is given out again while it *)
(* walks: a receiver is called only for data, and only its own, unless     *)
(* another thread closes its socket between IsOpened and the call.         *)
THEOREM SpecCalledWithData == Reused = FALSE => (Spec => CalledWithData)
<1> SUFFICES ASSUME Reused = FALSE PROVE Spec => CalledWithData
  OBVIOUS
<1>1. ServerInv /\ WalkInv /\ [Next]_vars =>
        [OnNewData => LET s == sockets[i]
                      IN  /\ receivers[i] = s /\ handled[s] > 0
                          /\ s \in data \/ handled[s] > 1 \/ raced]_vars
  BY CalledStep
<1>2. Spec => [](ServerInv /\ WalkInv)
  BY WalkInvariant
<1> QED
  BY <1>1, <1>2, PTL DEF Spec, CalledWithData
-----------------------------------------------------------------------------
(* Bytes of a connection.  A write that failed closes the writer, so what  *)
(* it dropped are the last bytes that were written.                        *)
Numbering == Nat

DroppedLast ==
    /\ {taken, stream, out, dropped} \subseteq Seq(Numbering)
    /\ written \in Nat
    /\ dropped # <<>> => ~writer_open /\ out = <<>>

StreamInv == DroppedLast /\ StreamInOrder

FirstPart(s, n) == SubSeq(s, 1, n)
OtherPart(s, n) == SubSeq(s, n + 1, Len(s))
PartMoved(T, p, a, s, n) ==
    /\ a \o FirstPart(s, n) \in Seq(T) /\ OtherPart(s, n) \in Seq(T)
    /\ (a \o FirstPart(s, n)) \o OtherPart(s, n) = a \o s
    /\ (p \o (a \o FirstPart(s, n))) \o OtherPart(s, n) = (p \o a) \o s

(* A sequence in two parts, one of them moved over to the sequence before. *)
LEMMA MovedPart ==
    ASSUME NEW T, NEW p \in Seq(T), NEW a \in Seq(T), NEW s \in Seq(T), NEW n \in 1 .. Len(s)
    PROVE  PartMoved(T, p, a, s, n)
<1> DEFINE b == SubSeq(s, 1, n)
           c == SubSeq(s, n + 1, Len(s))
<1>1. Len(s) \in Nat /\ n \in Nat /\ 1 <= n /\ n <= Len(s)
  OBVIOUS
<1>2. b \in Seq(T) /\ c \in Seq(T)
  OBVIOUS
<1>3. b \o c = SubSeq(s, 1, Len(s))
  <2>1. 1 \in 1 .. Len(s) + 1 /\ n \in 1 - 1 .. Len(s) /\ Len(s) \in n .. Len(s)
    BY <1>1
  <2> QED
    BY <2>1, ConcatAdjacentSubSeq
<1>4. SubSeq(s, 1, Len(s)) = s
  BY SubSeqFull
<1> HIDE DEF b, c
<1>5. /\ a \o b \in Seq(T)
      /\ (a \o b) \o c = a \o (b \o c)
  BY <1>2
<1>6. (p \o (a \o b)) \o c = p \o ((a \o b) \o c)
  <2> DEFINE d == a \o b
  <2>1. d \in Seq(T)
    BY <1>5
  <2> HIDE DEF d
  <2>2. (p \o d) \o c = p \o (d \o c)
    BY <1>2, <2>1
  <2> QED
    BY <2>2 DEF d
<1>7. p \o (a \o s) = (p \o a) \o s
  BY ConcatAssociative
<1> QED
  BY <1>2, <1>3, <1>4, <1>5, <1>6, <1>7 DEF b, c, FirstPart, OtherPart, PartMoved

LEMMA StreamInit == IO!Init => StreamInv
<1> SUFFICES ASSUME IO!Init PROVE StreamInv
  OBVIOUS
<1>1. DroppedLast
  BY DEF IO!Init, DroppedLast, Numbering
<1>2. taken = <<>> /\ stream = <<>> /\ out = <<>> /\ dropped = <<>> /\ written = 0
  BY DEF IO!Init
<1>3. taken \o stream \o out \o dropped = <<>>
  BY <1>2
<1>4. [k \in 1 .. 0 |-> k] = <<>>
  OBVIOUS
<1> QED
  BY <1>1, <1>2, <1>3, <1>4 DEF StreamInv, StreamInOrder, IO!StreamInOrder

LEMMA StreamWrites ==
    ASSUME StreamInv, NEW size \in Nat \ {0}, IO!WriteBytes(size)
    PROVE  StreamInv'
<1> USE DEF StreamInv, DroppedLast, Numbering
<1> DEFINE new == [k \in 1 .. size |-> written + k]
<1>1. /\ out = <<>> /\ dropped = <<>> /\ out' = new /\ written' = written + size
      /\ UNCHANGED <<taken, stream, dropped>>
  BY DEF IO!WriteBytes
<1>2. new \in Seq(Nat) /\ Len(new) = size /\ \A k \in 1 .. size : new[k] = written + k
  OBVIOUS
<1> HIDE DEF new
<1> DEFINE s == taken \o stream
<1>3. s \in Seq(Nat) /\ s = [k \in 1 .. written |-> k]
  BY <1>1 DEF StreamInOrder, IO!StreamInOrder
<1>4. Len(s) = written /\ \A k \in 1 .. written : s[k] = k
  BY <1>3
<1>5. (taken \o stream \o out \o dropped)' = s \o new
  BY <1>1, <1>2, <1>3
<1> HIDE DEF s
<1>6. s \o new = [k \in 1 .. written + size |-> k]
  <2>1. /\ s \o new \in Seq(Nat) /\ Len(s \o new) = written + size
        /\ \A k \in 1 .. written + size :
              (s \o new)[k] = IF k <= written THEN s[k] ELSE new[k - written]
    <3>1. s \in Seq(Nat) /\ new \in Seq(Nat) /\ Len(s) = written /\ Len(new) = size
      BY <1>2, <1>3, <1>4
    <3>2. /\ s \o new \in Seq(Nat) /\ Len(s \o new) = Len(s) + Len(new)
          /\ \A k \in 1 .. Len(s) + Len(new) :
                (s \o new)[k] = IF k <= Len(s) THEN s[k] ELSE new[k - Len(s)]
      BY <3>1, ConcatProperties
    <3> QED
      BY <3>1, <3>2
  <2>2. ASSUME NEW k \in 1 .. written + size
        PROVE  (s \o new)[k] = k
    <3>1. CASE k <= written
      <4>1. k \in 1 .. written
        BY <3>1
      <4> QED
        BY <1>4, <2>1, <3>1, <4>1
    <3>2. CASE ~(k <= written)
      <4>1. k - written \in 1 .. size /\ written + (k - written) = k
        BY <3>2
      <4> QED
        BY <1>2, <2>1, <3>2, <4>1
    <3> QED
      BY <3>1, <3>2
  <2> DEFINE r == s \o new
  <2>3. DOMAIN r = 1 .. written + size
    BY <2>1
  <2>4. r \in Seq(Nat)
    BY <2>1
  <2> HIDE DEF r
  <2>5. r = [k \in 1 .. written + size |-> r[k]]
    BY <2>3, <2>4
  <2>6. \A k \in 1 .. written + size : r[k] = k
    BY <2>2 DEF r
  <2>7. r = [k \in 1 .. written + size |-> k]
    BY <2>5, <2>6
  <2> QED
    BY <2>7 DEF r
<1>7. DroppedLast'
  BY <1>1, <1>2
<1> QED
  BY <1>1, <1>5, <1>6, <1>7 DEF StreamInOrder, IO!StreamInOrder

LEMMA StreamSends ==
    ASSUME StreamInv, NEW n \in Nat \ {0}, IO!send(n)
    PROVE  StreamInv'
<1>1. /\ n \in 1 .. Len(out)
      /\ stream' = stream \o FirstPart(out, n)
      /\ out' = OtherPart(out, n)
      /\ UNCHANGED <<taken, dropped, writer_open, written>>
  BY DEF IO!send, IO!Rest, StreamInv, DroppedLast, FirstPart, OtherPart
<1>3. /\ taken \in Seq(Numbering) /\ stream \in Seq(Numbering) /\ out \in Seq(Numbering)
      /\ dropped \in Seq(Numbering) /\ written \in Nat
  BY DEF StreamInv, DroppedLast
<1>2. PartMoved(Numbering, taken, stream, out, n)
  BY <1>1, <1>3, MovedPart, Zenon
<1>4. /\ stream' \in Seq(Numbering) /\ out' \in Seq(Numbering)
      /\ (taken \o stream') \o out' = (taken \o stream) \o out
  BY <1>1, <1>2, Zenon DEF PartMoved
<1>5. (taken \o stream \o out \o dropped)' = taken \o stream \o out \o dropped
  BY <1>1, <1>4, Zenon
<1>6. out # <<>>
  BY <1>1
<1>7. DroppedLast'
  BY <1>1, <1>3, <1>4, <1>6 DEF StreamInv, DroppedLast
<1> QED
  BY <1>1, <1>5, <1>7 DEF StreamInv, StreamInOrder, IO!StreamInOrder

LEMMA StreamReceives ==
    ASSUME StreamInv, NEW n \in Nat \ {0}, IO!recv(n)
    PROVE  StreamInv'
<1>1. /\ n \in 1 .. Len(stream)
      /\ taken' = taken \o FirstPart(stream, n)
      /\ stream' = OtherPart(stream, n)
      /\ UNCHANGED <<out, dropped, writer_open, written>>
  BY DEF IO!recv, StreamInv, DroppedLast, FirstPart, OtherPart
<1>3. /\ taken \in Seq(Numbering) /\ stream \in Seq(Numbering) /\ out \in Seq(Numbering)
      /\ dropped \in Seq(Numbering) /\ written \in Nat
  BY DEF StreamInv, DroppedLast
<1>2. PartMoved(Numbering, taken, taken, stream, n)
  BY <1>1, <1>3, MovedPart, Zenon
<1>4. /\ taken' \in Seq(Numbering) /\ stream' \in Seq(Numbering) /\ taken' \o stream' = taken \o stream
  BY <1>1, <1>2, Zenon DEF PartMoved
<1>5. (taken \o stream \o out \o dropped)' = taken \o stream \o out \o dropped
  BY <1>1, <1>4, Zenon
<1>6. DroppedLast'
  BY <1>1, <1>3, <1>4 DEF StreamInv, DroppedLast
<1> QED
  BY <1>1, <1>5, <1>6 DEF StreamInv, StreamInOrder, IO!StreamInOrder

LEMMA StreamNext == StreamInv /\ [IO!Next]_ioVars => StreamInv'
<1> SUFFICES ASSUME StreamInv, [IO!Next]_ioVars PROVE StreamInv'
  OBVIOUS
<1>1. MaxSize \in Nat
  BY MCAssumption DEF IO!SocketIOAssumption
<1>2. ASSUME NEW size \in 1 .. MaxSize, IO!WriteBytes(size) PROVE StreamInv'
  BY <1>1, <1>2, StreamWrites
<1>3. ASSUME NEW n \in 1 .. MaxSize, IO!send(n) PROVE StreamInv'
  BY <1>1, <1>3, StreamSends
<1>4. ASSUME NEW n \in 1 .. MaxSize, IO!recv(n) PROVE StreamInv'
  BY <1>1, <1>4, StreamReceives
<1>5. ASSUME /\ UNCHANGED <<taken, stream, out, dropped, written>>
             /\ writer_open' = writer_open \/ ~writer_open'
      PROVE  StreamInv'
  BY <1>5 DEF StreamInv, DroppedLast, StreamInOrder, IO!StreamInOrder
<1>6. CASE IO!SendFails
  <2>1. /\ dropped = <<>> /\ out # <<>> /\ out' = <<>> /\ dropped' = out /\ ~writer_open'
        /\ UNCHANGED <<taken, stream, written>>
    BY <1>6 DEF IO!SendFails, StreamInv, DroppedLast
  <2>2. DroppedLast'
    BY <2>1 DEF StreamInv, DroppedLast
  <2>3. (taken \o stream) \in Seq(Numbering) /\ out \in Seq(Numbering)
    BY DEF StreamInv, DroppedLast
  <2>4. (taken \o stream \o out \o dropped)' = taken \o stream \o out \o dropped
    <3> DEFINE s == taken \o stream
    <3> HIDE DEF s
    <3>1. s \o <<>> = s /\ (s \o out) \o <<>> = s \o out
      BY <2>3 DEF s
    <3> QED
      BY <2>1, <3>1 DEF s
  <2> QED
    BY <2>1, <2>2, <2>4 DEF StreamInv, StreamInOrder, IO!StreamInOrder
<1>7. CASE \/ \E size \in 1 .. MaxSize : \/ IO!ReadBytes(size)
                                         \/ \E t \in 1 .. MaxTime : IO!ReadBytesTimed(size, t)
           \/ IO!CloseWriter \/ IO!CloseReader \/ IO!Select \/ IO!Tick
           \/ IO!SelectTimesOut \/ IO!RecvFails \/ UNCHANGED ioVars
  <2>1. /\ UNCHANGED <<taken, stream, out, dropped, written>>
        /\ writer_open' = writer_open \/ ~writer_open'
    BY <1>7 DEF IO!ReadBytes, IO!ReadBytesTimed, IO!Call, IO!CloseWriter, IO!CloseReader,
                IO!Select, IO!Tick, IO!SelectTimesOut, IO!RecvFails, ioVars
  <2> QED
    BY <1>5, <2>1
<1> QED
  BY <1>2, <1>3, <1>4, <1>6, <1>7, Zenon DEF IO!Next, IO!TimedStep

(* WriteBytes and ReadBytes (TCNetSocketImp.cpp), with and without a       *)
(* timeout: for a connection of any room and calls of any size, each byte  *)
(* arrives once and in order, and those of a failed write come last.       *)
THEOREM BytesArriveInOrder == IO!Spec => []StreamInOrder
<1>1. StreamInv => StreamInOrder
  BY DEF StreamInv
<1>2. StreamInv /\ [IO!Next]_IO!vars => StreamInv'
  BY StreamNext DEF ioVars, IO!vars
<1> QED
  BY <1>1, <1>2, StreamInit, PTL DEF IO!Spec

(* The time a read has spent and may still spend is never more than what   *)
(* it was given.                                                           *)
TimeKept ==
    /\ result.timed => result.spent <= result.given
    /\ read # IO!Idle =>
          /\ {read.spent, read.waited, read.timeout, read.given} \subseteq Nat
          /\ read.waited <= read.timeout /\ read.waited <= read.spent
          /\ read.spent - read.waited + read.timeout <= read.given
    /\ read = IO!Idle \/ read.at \in {"select", "recv"}
    /\ read # IO!Idle =>
          read = [at |-> read.at, size |-> read.size, given |-> read.given,
                  timeout |-> read.timeout, waited |-> read.waited, spent |-> read.spent,
                  got |-> read.got, start |-> read.start, buffer |-> read.buffer]

LEMMA TimeKeptNext == TimeKept /\ [IO!Next]_ioVars => TimeKept'
<1> SUFFICES ASSUME TimeKept, [IO!Next]_ioVars PROVE TimeKept'
  OBVIOUS
<1>1. read.at = "select" \/ read.at = "recv" => read # IO!Idle
  BY DEF IO!Idle
<1>2. ASSUME NEW size, NEW t \in Nat, NEW at \in {"select", "recv"}, IO!Call(size, t, at)
      PROVE  TimeKept'
  BY <1>2 DEF TimeKept, IO!Call, IO!Idle
<1>3. CASE \E size \in 1 .. MaxSize :
              IO!ReadBytes(size) \/ \E t \in 1 .. MaxTime : IO!ReadBytesTimed(size, t)
  <2>1. MaxTime \in Nat
    BY MCAssumption DEF IO!SocketIOAssumption
  <2> QED
    BY <1>2, <1>3, <2>1 DEF IO!ReadBytes, IO!ReadBytesTimed
<1>4. CASE IO!Select
  BY <1>1, <1>4 DEF TimeKept, IO!Select, IO!Idle
<1>5. CASE IO!Tick
  <2>1. /\ read # IO!Idle /\ read.waited < read.timeout /\ result' = result
        /\ {read.spent, read.waited, read.timeout, read.given} \subseteq Nat
        /\ read.spent - read.waited + read.timeout <= read.given
        /\ read.waited <= read.spent
        /\ result.timed => result.spent <= result.given
    BY <1>1, <1>5 DEF TimeKept, IO!Tick
  <2>2. read' = [at |-> read.at, size |-> read.size, given |-> read.given,
                 timeout |-> read.timeout, waited |-> read.waited + 1, spent |-> read.spent + 1,
                 got |-> read.got, start |-> read.start, buffer |-> read.buffer]
    BY <1>5, <2>1 DEF TimeKept, IO!Tick
  <2>3. read.at = "select"
    BY <1>5 DEF IO!Tick
  <2>4. /\ read'.at = "select" /\ read'.given = read.given /\ read'.timeout = read.timeout
        /\ read'.waited = read.waited + 1 /\ read'.spent = read.spent + 1
        /\ read' = [at |-> read'.at, size |-> read'.size, given |-> read'.given,
                    timeout |-> read'.timeout, waited |-> read'.waited, spent |-> read'.spent,
                    got |-> read'.got, start |-> read'.start, buffer |-> read'.buffer]
    BY <2>2, <2>3
  <2> HIDE DEF IO!Idle
  <2>5. /\ {read'.spent, read'.waited, read'.timeout, read'.given} \subseteq Nat
        /\ read'.waited <= read'.timeout /\ read'.waited <= read'.spent
        /\ read'.spent - read'.waited + read'.timeout <= read'.given
    BY <2>1, <2>4
  <2> QED
    BY <2>1, <2>4, <2>5 DEF TimeKept
<1>6. CASE IO!SelectTimesOut \/ IO!RecvFails
  BY <1>1, <1>6 DEF TimeKept, IO!SelectTimesOut, IO!RecvFails, IO!Returns, IO!Idle
<1>7. ASSUME NEW n \in 1 .. MaxSize, IO!recv(n)
      PROVE  TimeKept'
  <2> DEFINE now == [read EXCEPT !.buffer = IO!Buffer(n), !.got = @ + n]
  <2>1. /\ now.given = read.given /\ now.spent = read.spent /\ now.timeout = read.timeout
        /\ read.at = "recv" /\ read # IO!Idle
    BY <1>1, <1>7 DEF TimeKept, IO!recv
  <2>2. \/ IO!Returns(now, now.got, FALSE)
        \/ read.spent < read.timeout /\ read' = IO!TimeLeft(now) /\ result' = result
    <3>1. \/ IO!Returns(now, now.got, FALSE)
          \/ ~(read.spent >= read.timeout) /\ read' = IO!TimeLeft(now) /\ result' = result
      BY <1>7, <2>1 DEF IO!recv
    <3>2. read.spent \in Nat /\ read.timeout \in Nat
      BY <2>1 DEF TimeKept
    <3>3. ~(read.spent >= read.timeout) => read.spent < read.timeout
      BY <3>2
    <3> QED
      BY <3>1, <3>3
  <2>3. CASE IO!Returns(now, now.got, FALSE)
    BY <2>1, <2>3 DEF TimeKept, IO!Returns, IO!Idle
  <2>4. CASE read.spent < read.timeout /\ read' = IO!TimeLeft(now) /\ result' = result
    <3>1. /\ {read.spent, read.waited, read.timeout, read.given} \subseteq Nat
          /\ read.spent < read.timeout /\ read.waited <= read.timeout
          /\ read.waited <= read.spent
          /\ read.spent - read.waited + read.timeout <= read.given
          /\ result' = result /\ (result.timed => result.spent <= result.given)
      BY <2>1, <2>4 DEF TimeKept
    <3>2. read' = [at |-> "select", size |-> read.size, given |-> read.given,
                   timeout |-> read.timeout - read.spent, waited |-> 0, spent |-> read.spent,
                   got |-> now.got, start |-> read.start, buffer |-> IO!Buffer(n)]
      BY <2>1, <2>4 DEF TimeKept, IO!TimeLeft
    <3> HIDE DEF now
    <3>3. /\ read'.at = "select" /\ read'.given = read.given
          /\ read'.timeout = read.timeout - read.spent
          /\ read'.waited = 0 /\ read'.spent = read.spent
          /\ read' = [at |-> read'.at, size |-> read'.size, given |-> read'.given,
                      timeout |-> read'.timeout, waited |-> read'.waited, spent |-> read'.spent,
                      got |-> read'.got, start |-> read'.start, buffer |-> read'.buffer]
      BY <3>2
    <3>4. /\ {read'.spent, read'.waited, read'.timeout, read'.given} \subseteq Nat
          /\ read'.waited <= read'.timeout /\ read'.waited <= read'.spent
          /\ read'.spent - read'.waited + read'.timeout <= read'.given
      BY <3>1, <3>3
    <3> QED
      BY <3>1, <3>3, <3>4 DEF TimeKept
  <2> QED
    BY <2>2, <2>3, <2>4
<1>8. CASE UNCHANGED <<read, result>>
  BY <1>8 DEF TimeKept
<1>9. \/ \E size \in 1 .. MaxSize :
            IO!ReadBytes(size) \/ \E t \in 1 .. MaxTime : IO!ReadBytesTimed(size, t)
      \/ IO!Select \/ IO!Tick \/ IO!SelectTimesOut \/ IO!RecvFails
      \/ \E n \in 1 .. MaxSize : IO!recv(n)
      \/ UNCHANGED <<read, result>>
  BY DEF IO!Next, IO!TimedStep, IO!WriteBytes, IO!send, IO!SendFails, IO!CloseWriter,
         IO!CloseReader, ioVars
<1> QED
  BY <1>3, <1>4, <1>5, <1>6, <1>7, <1>8, <1>9

(* ReadBytes with a timeout (TCNetSocketImp.cpp) takes the time since its  *)
(* call again and again from what is left: it may return early, but it     *)
(* never waits longer than it was told.                                    *)
THEOREM TimedReadsKeepTheirTime == IO!Spec => []IO!WithinTimeout
<1>1. IO!Init => TimeKept
  BY DEF IO!Init, TimeKept, IO!NoResult
<1>2. TimeKept => IO!WithinTimeout
  BY DEF TimeKept, IO!WithinTimeout
<1>3. TimeKept /\ [IO!Next]_IO!vars => TimeKept'
  BY TimeKeptNext DEF ioVars, IO!vars
<1> QED
  BY <1>1, <1>2, <1>3, PTL DEF IO!Spec
=============================================================================
