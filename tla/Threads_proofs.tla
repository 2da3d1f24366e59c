--------------------------- MODULE Threads_proofs ---------------------------
(***************************************************************************)
(* Proofs about Thread, for any clients, workers, handles and messages:    *)
(* about the registry and the handles if no client the registry knows ends *)
(* (ClientsStay), and about Join if, besides, one client joins (OneJoiner);*)
(* and about the synchronous messages of SyncSend, for any senders.        *)
(***************************************************************************)
EXTENDS MCThreads, OperatorLemmas

(* Clients that used the library stay as long as it is used. *)
ClientsStay == RegisteredExit = FALSE

Live == {"begin", "announce", "loop", "run", "leave"}
Creates == {"newMutex", "register", "spawn", "waitInit", "startCommand"}

Occurs(s, t) == \E i \in DOMAIN s : s[i] = t
Once(s) == \A i, j \in DOMAIN s : s[i] = s[j] => i = j
Registered(t) == Occurs(registry, t)

(* The variables the proofs need, and what the state of a thread says of   *)
(* where it is.                                                            *)
Typed ==
    /\ registry \in Seq(Threads)
    /\ handle \in [Threads -> Handles \cup {Nobody}]
    /\ owner \in [Handles -> Threads \cup {Nobody}]
    /\ state \in [Workers -> {"NEW", "RUNNING", "TERMINATED"}]
    /\ box \in [Workers -> Seq(Message)]
    /\ known \subseteq Workers
    /\ pc \in [Threads -> ClientPcs \cup WorkerPcs]
    /\ \A c \in Clients : pc[c] \in ClientPcs
    /\ \A w \in Workers : pc[w] \in WorkerPcs
    /\ call \in [Clients -> [worker : Workers \cup {Nobody}, kind : Kinds]]
    /\ \A w \in Workers :
          /\ state[w] = "NEW" <=> pc[w] \in {"none", "new", "failed", "begin"}
          /\ state[w] = "TERMINATED" <=> pc[w] \in {"leave", "ended"}

(* Only the creator creates, and a call has a worker. *)
Calls ==
    /\ \A c \in Clients : pc[c] \notin {Idle, "gone"} => call[c].worker \in Workers
    /\ \A c \in Clients : pc[c] \in Creates => c = Creator

(* A new thread object is the one that is being created, and is registered *)
(* between Register and Spawn.                                             *)
Creating ==
    /\ pc[Creator] \in {"newMutex", "register", "spawn"} => pc[call[Creator].worker] = "new"
    /\ \A w \in Workers : pc[w] = "new" =>
          /\ pc[Creator] \in {"newMutex", "register", "spawn"}
          /\ call[Creator].worker = w
          /\ Registered(w) <=> pc[Creator] = "spawn"

(* The registry has every live thread, once, no ended one, and no client   *)
(* that is gone.                                                           *)
RegistryLive ==
    /\ Once(registry)
    /\ \A w \in Workers :
          /\ pc[w] \in Live => Registered(w)
          /\ pc[w] \in {"none", "ended"} => ~Registered(w)
    /\ \A c \in Clients : Registered(c) => pc[c] # "gone"

(* A pthread_t names the live thread it was given to. *)
HandlesOwn ==
    /\ \A w \in Workers :
          /\ pc[w] \in Live => handle[w] \in Handles /\ owner[handle[w]] = w
          /\ pc[w] \in {"none", "new", "failed"} => handle[w] = Nobody
    /\ \A c \in Clients :
          /\ handle[c] = ClientHandle[c]
          /\ pc[c] # "gone" => owner[handle[c]] = c

(* Who sent a message, or is about to, is registered, and a thread leaves  *)
(* on the message of a registered client.                                  *)
SendersStay ==
    /\ \A c \in Clients : pc[c] \in {"send", "joinOS"} => Registered(c)
    /\ \A w \in Workers : \A i \in DOMAIN box[w] : Registered(box[w][i].from)
    /\ \A w \in Workers : pc[w] = "leave" => \E c \in Clients : Registered(c)

LifeInv == Typed /\ Calls /\ Creating /\ RegistryLive /\ HandlesOwn /\ SendersStay
-----------------------------------------------------------------------------
LEMMA AppendOnce ==
    ASSUME NEW T, NEW s \in Seq(T), NEW t \in T, Once(s), ~Occurs(s, t)
    PROVE  /\ Append(s, t) \in Seq(T) /\ Once(Append(s, t))
           /\ \A u : Occurs(Append(s, t), u) <=> Occurs(s, u) \/ u = t
<1> DEFINE r == Append(s, t)
<1>1. /\ r \in Seq(T) /\ DOMAIN s = 1 .. Len(s) /\ DOMAIN r = 1 .. Len(s) + 1
      /\ Len(s) \in Nat /\ \A i \in 1 .. Len(s) : r[i] = s[i]
      /\ r[Len(s) + 1] = t
  OBVIOUS
<1> HIDE DEF r
<1>2. Once(r)
  BY <1>1 DEF Once, Occurs
<1>3. \A u : Occurs(r, u) <=> Occurs(s, u) \/ u = t
  BY <1>1 DEF Occurs
<1> QED
  BY <1>1, <1>2, <1>3 DEF r

LEMMA EraseOnce ==
    ASSUME NEW T, NEW s \in Seq(T), NEW t \in T, Once(s), Occurs(s, t)
    PROVE  /\ Erase(s, t) \in Seq(T) /\ Once(Erase(s, t))
           /\ \A u : Occurs(Erase(s, t), u) <=> Occurs(s, u) /\ u # t
<1>1. PICK i \in DOMAIN s : s[i] = t
  BY DEF Occurs
<1>2. {j \in DOMAIN s : s[j] = t} = {i}
  BY <1>1 DEF Once
<1>3. First({i}) = i
  BY DEF First
<1>4. Erase(s, t) = RemoveAt(s, i)
  BY <1>1, <1>2, <1>3 DEF Erase
<1> DEFINE r == RemoveAt(s, i)
<1>5. DOMAIN s = 1 .. Len(s) /\ Len(s) \in Nat /\ i \in 1 .. Len(s)
  BY <1>1
<1>6. /\ r \in Seq(T) /\ Len(r) = Len(s) - 1
      /\ \A j \in 1 .. Len(s) - 1 : r[j] = IF j < i THEN s[j] ELSE s[j + 1]
  BY <1>5, RemoveAtParts, Zenon
<1> HIDE DEF r
<1>7. DOMAIN r = 1 .. Len(s) - 1
  BY <1>6
<1>8. Once(r)
  <2> DEFINE place(j) == IF j < i THEN j ELSE j + 1
  <2>1. \A j \in DOMAIN r : place(j) \in DOMAIN s /\ r[j] = s[place(j)]
    BY <1>5, <1>6, <1>7
  <2>2. \A j, k \in DOMAIN r : place(j) = place(k) => j = k
    BY <1>5, <1>7
  <2> HIDE DEF place
  <2> QED
    BY <2>1, <2>2, Zenon DEF Once
<1>9. ASSUME NEW u
      PROVE  Occurs(r, u) <=> Occurs(s, u) /\ u # t
  <2>1. ASSUME NEW j \in DOMAIN r, r[j] = u
        PROVE  Occurs(s, u) /\ u # t
    BY <1>1, <1>5, <1>6, <1>7, <2>1 DEF Occurs, Once
  <2>2. ASSUME NEW j \in DOMAIN s, s[j] = u, u # t
        PROVE  Occurs(r, u)
    <3>1. CASE j < i
      BY <1>1, <1>5, <1>6, <1>7, <2>2, <3>1 DEF Occurs
    <3>2. CASE j > i
      <4>1. j - 1 \in DOMAIN r /\ ~(j - 1 < i) /\ (j - 1) + 1 = j
        BY <1>5, <1>7, <3>2
      <4> QED
        BY <1>6, <1>7, <2>2, <4>1 DEF Occurs
    <3> QED
      BY <1>1, <1>5, <2>2, <3>1, <3>2
  <2> QED
    BY <2>1, <2>2 DEF Occurs
<1> QED
  BY <1>4, <1>6, <1>8, <1>9 DEF r

(* A message in a queue after a message was taken or added was there before *)
(* or is the one that was added.                                           *)
LEMMA TailParts ==
    ASSUME NEW T, NEW s \in Seq(T), s # <<>>
    PROVE  /\ Tail(s) \in Seq(T) /\ Head(s) \in T /\ Head(s) = s[1] /\ 1 \in DOMAIN s
           /\ \A i \in DOMAIN Tail(s) : i + 1 \in DOMAIN s /\ Tail(s)[i] = s[i + 1]
OBVIOUS

LEMMA AppendParts ==
    ASSUME NEW T, NEW s \in Seq(T), NEW m \in T
    PROVE  /\ Append(s, m) \in Seq(T)
           /\ \A i \in DOMAIN Append(s, m) :
                 \/ i \in DOMAIN s /\ Append(s, m)[i] = s[i]
                 \/ i = Len(s) + 1 /\ Append(s, m)[i] = m
OBVIOUS
-----------------------------------------------------------------------------
LEMMA LifeInit == Init => LifeInv
<1> SUFFICES ASSUME Init PROVE LifeInv
  OBVIOUS
<1> USE ThreadAssumption DEF Init
<1>1. ASSUME NEW c \in Clients
      PROVE  owner[ClientHandle[c]] = c
  <2>1. \E d \in Clients : ClientHandle[d] = ClientHandle[c]
    OBVIOUS
  <2>2. (CHOOSE d \in Clients : ClientHandle[d] = ClientHandle[c]) = c
    BY <2>1
  <2> QED
    BY <2>1, <2>2
<1>2. Typed
  <2>1. owner \in [Handles -> Threads \cup {Nobody}]
    BY DEF Threads
  <2>2. handle \in [Threads -> Handles \cup {Nobody}]
    BY DEF Threads
  <2>3. /\ pc \in [Threads -> ClientPcs \cup WorkerPcs]
        /\ \A c \in Clients : pc[c] \in ClientPcs
        /\ \A w \in Workers : pc[w] = "none" /\ pc[w] \in WorkerPcs
    BY DEF Threads, Idle, ClientPcs, WorkerPcs
  <2>4. /\ call \in [Clients -> [worker : Workers \cup {Nobody}, kind : Kinds]]
        /\ box \in [Workers -> Seq(Message)]
        /\ state \in [Workers -> {"NEW", "RUNNING", "TERMINATED"}]
        /\ registry \in Seq(Threads) /\ known \subseteq Workers
    BY DEF NoCall, Kinds
  <2>5. \A w \in Workers :
          /\ state[w] = "NEW" <=> pc[w] \in {"none", "new", "failed", "begin"}
          /\ state[w] = "TERMINATED" <=> pc[w] \in {"leave", "ended"}
    BY <2>3
  <2> HIDE DEF Init
  <2> QED
    BY <2>1, <2>2, <2>3, <2>4, <2>5 DEF Typed
<1>3. \A t : ~Registered(t)
  BY DEF Registered, Occurs
<1>4. Calls /\ Creating
  BY <1>3 DEF Calls, Creating, Creates, Threads, Idle
<1>5. RegistryLive
  BY <1>3 DEF RegistryLive, Once, Live, Threads
<1>6. HandlesOwn
  BY <1>1 DEF HandlesOwn, Live, Threads, Idle
<1>7. SendersStay
  BY DEF SendersStay, Threads, Idle
<1> QED
  BY <1>2, <1>4, <1>5, <1>6, <1>7 DEF LifeInv

Present(t) == (t \in Workers /\ pc[t] \in Live) \/ (t \in Clients /\ pc[t] # "gone")

(* GetCurrentThread of a live thread finds the object of this thread. *)
LEMMA CurrentIsSelf ==
    ASSUME LifeInv, NEW t \in Threads, Present(t)
    PROVE  /\ Current(t) = t
           /\ WithSelf(t) \in Seq(Threads) /\ Once(WithSelf(t))
           /\ \A u : Occurs(WithSelf(t), u) <=> Registered(u) \/ u = t
<1>1. /\ registry \in Seq(Threads) /\ Once(registry)
      /\ \A i \in DOMAIN registry : registry[i] \in Threads /\ Registered(registry[i])
  BY DEF LifeInv, Typed, RegistryLive, Registered, Occurs
<1>2. handle[t] \in Handles /\ owner[handle[t]] = t
  BY ThreadAssumption DEF LifeInv, HandlesOwn, Present
<1>3. ASSUME NEW u \in Threads, Registered(u), handle[u] = handle[t]
      PROVE  u = t
  <2>1. CASE u \in Clients
    BY <1>2, <1>3, <2>1 DEF LifeInv, RegistryLive, HandlesOwn
  <2>2. CASE u \in Workers
    <3>1. pc[u] \in Live \/ pc[u] \in {"new", "failed"}
      BY <1>3, <2>2, ThreadAssumption DEF LifeInv, Typed, RegistryLive, WorkerPcs, Live
    <3> QED
      BY <1>2, <1>3, <2>2, <3>1, ThreadAssumption DEF LifeInv, HandlesOwn
  <2> QED
    BY <2>1, <2>2 DEF Threads
<1>4. Entries(t) = {i \in DOMAIN registry : registry[i] = t}
  BY <1>1, <1>3 DEF Entries
<1>5. CASE Registered(t)
  <2>1. PICK i \in DOMAIN registry : registry[i] = t
    BY <1>5 DEF Registered, Occurs
  <2>2. Entries(t) = {i}
    BY <1>1, <1>4, <2>1 DEF Once
  <2>3. First({i}) = i
    BY DEF First
  <2>4. Current(t) = t /\ WithSelf(t) = registry
    BY <2>1, <2>2, <2>3 DEF Current, WithSelf
  <2> QED
    BY <1>1, <1>5, <2>4 DEF Registered
<1>6. CASE ~Registered(t)
  <2>1. Entries(t) = {}
    BY <1>4, <1>6 DEF Registered, Occurs
  <2>2. Current(t) = t /\ WithSelf(t) = Append(registry, t)
    BY <2>1 DEF Current, WithSelf
  <2> QED
    BY <1>1, <1>6, <2>2, AppendOnce DEF Registered
<1> QED
  BY <1>5, <1>6
-----------------------------------------------------------------------------
(* The actions, first those of the creator. *)

LEMMA AfterCreate ==
    ASSUME LifeInv, NEW w \in Workers, Create(w)
    PROVE  LifeInv'
<1> USE ThreadAssumption DEF Create, LifeInv
<1>1. Typed'
  BY DEF Typed, Threads, Idle, ClientPcs, WorkerPcs, Kinds
<1>2. registry' = registry
  OBVIOUS
<1>3. Calls'
  BY DEF Typed, Calls, Threads, Creates, Idle
<1>4. Creating'
  BY <1>2 DEF Typed, Creating, RegistryLive, Registered, Threads, Idle
<1>5. RegistryLive'
  BY <1>2 DEF Typed, RegistryLive, Registered, Threads, Live, Idle
<1>6. HandlesOwn'
  BY DEF Typed, HandlesOwn, Threads, Live, Idle
<1>7. SendersStay'
  BY <1>2 DEF Typed, SendersStay, Registered, Threads
<1> QED
  BY <1>1, <1>3, <1>4, <1>5, <1>6, <1>7
LEMMA AfterNewMutex ==
    ASSUME LifeInv, NewMutex
    PROVE  LifeInv'
<1> USE ThreadAssumption DEF NewMutex, LifeInv
<1>2. registry' = registry
  OBVIOUS
<1>3. Typed'
  BY DEF Typed, Threads, Idle, ClientPcs, WorkerPcs, Kinds
<1>4. Calls'
  BY DEF Typed, Calls, Threads, Creates, Idle
<1>5. Creating'
  BY <1>2 DEF Typed, Calls, Creating, RegistryLive, Registered, Threads, Idle, Creates
<1>6. RegistryLive'
  BY <1>2 DEF Typed, Calls, Creating, RegistryLive, Registered, Threads, Live, Idle, Creates
<1>7. HandlesOwn'
  BY DEF Typed, Calls, Creating, HandlesOwn, Threads, Live, Idle, Creates
<1>8. SendersStay'
  BY <1>2 DEF Typed, SendersStay, Registered, Threads, Idle
<1> QED
  BY <1>3, <1>4, <1>5, <1>6, <1>7, <1>8

LEMMA AfterSpawn ==
    ASSUME LifeInv, Spawn
    PROVE  LifeInv'
<1>1. PICK w \in Workers : w = call[Creator].worker
  BY ThreadAssumption DEF Spawn, LifeInv, Calls, Idle
<1>e. /\ pc[Creator] = "spawn"
      /\ \E h \in Handles :
            /\ owner[h] = Nobody
            /\ owner' = [owner EXCEPT ![h] = w]
            /\ handle' = [handle EXCEPT ![w] = h]
      /\ pc' = [pc EXCEPT ![w] = "begin", ![Creator] = "waitInit"]
      /\ UNCHANGED <<registry, state, box, known, call>>
  BY <1>1 DEF Spawn
<1> USE ThreadAssumption DEF LifeInv
<1>2. w # Creator /\ Creator \in Clients
  OBVIOUS
<1>p. /\ pc' \in [Threads -> ClientPcs \cup WorkerPcs]
      /\ pc'[w] = "begin" /\ pc'[Creator] = "waitInit"
      /\ \A c \in Clients : pc'[c] = IF c = Creator THEN pc'[Creator] ELSE pc[c]
      /\ \A u \in Workers : pc'[u] = IF u = w THEN pc'[w] ELSE pc[u]
  BY <1>2, <1>e DEF Typed, Threads, ClientPcs, WorkerPcs, Idle
<1>u. UNCHANGED <<registry, state, box, known, call>>
  BY <1>e
<1>h. /\ handle' \in [Threads -> Handles \cup {Nobody}]
      /\ owner' \in [Handles -> Threads \cup {Nobody}]
  BY <1>e DEF Typed, Threads
<1>n. pc[w] = "new" /\ state[w] = "NEW"
  BY <1>1, <1>e DEF Typed, Creating
<1>s. \A u \in Workers :
        /\ pc'[u] \in WorkerPcs
        /\ state'[u] = "NEW" <=> pc'[u] \in {"none", "new", "failed", "begin"}
        /\ state'[u] = "TERMINATED" <=> pc'[u] \in {"leave", "ended"}
  BY <1>p, <1>u, <1>n DEF Typed, WorkerPcs
<1>c. \A c \in Clients : pc'[c] \in ClientPcs
  BY <1>p DEF Typed, ClientPcs, Idle
<1>3. Typed'
  BY <1>p, <1>u, <1>h, <1>s, <1>c DEF Typed
<1>4. Calls'
  BY <1>1, <1>2, <1>p, <1>u DEF Typed, Calls, Threads, Creates, Idle
<1>5. Creating'
  BY <1>1, <1>2, <1>e DEF Typed, Calls, Creating, RegistryLive, Registered, Threads, Idle, Creates
<1>6. RegistryLive'
  BY <1>1, <1>2, <1>e DEF Typed, Calls, Creating, RegistryLive, Registered, Threads, Live, Idle, Creates
<1>7. HandlesOwn'
  BY <1>1, <1>2, <1>e DEF Typed, Calls, Creating, HandlesOwn, Threads, Live, Idle, Creates
<1>8. SendersStay'
  BY <1>1, <1>2, <1>e DEF Typed, SendersStay, Registered, Threads, Idle
<1> QED
  BY <1>3, <1>4, <1>5, <1>6, <1>7, <1>8

LEMMA AfterSpawnFails ==
    ASSUME LifeInv, SpawnFails
    PROVE  LifeInv'
<1>1. PICK w \in Workers : w = call[Creator].worker
  BY ThreadAssumption DEF SpawnFails, LifeInv, Calls, Idle
<1>e. /\ pc[Creator] = "spawn"
      /\ pc' = [pc EXCEPT ![w] = "failed", ![Creator] = Idle]
      /\ UNCHANGED <<registry, handle, owner, state, box, known, call>>
  BY <1>1 DEF SpawnFails
<1> USE ThreadAssumption DEF LifeInv
<1>2. w # Creator /\ Creator \in Clients
  OBVIOUS
<1>p. /\ pc' \in [Threads -> ClientPcs \cup WorkerPcs]
      /\ pc'[w] = "failed" /\ pc'[Creator] = Idle
      /\ \A c \in Clients : pc'[c] = IF c = Creator THEN pc'[Creator] ELSE pc[c]
      /\ \A u \in Workers : pc'[u] = IF u = w THEN pc'[w] ELSE pc[u]
  BY <1>2, <1>e DEF Typed, Threads, ClientPcs, WorkerPcs, Idle
<1>u. UNCHANGED <<registry, handle, owner, state, box, known, call>>
  BY <1>e
<1>n. pc[w] = "new" /\ state[w] = "NEW"
  BY <1>1, <1>e DEF Typed, Creating
<1>s. \A u \in Workers :
        /\ pc'[u] \in WorkerPcs
        /\ state'[u] = "NEW" <=> pc'[u] \in {"none", "new", "failed", "begin"}
        /\ state'[u] = "TERMINATED" <=> pc'[u] \in {"leave", "ended"}
  BY <1>p, <1>u, <1>n DEF Typed, WorkerPcs
<1>c. \A c \in Clients : pc'[c] \in ClientPcs
  BY <1>p DEF Typed, ClientPcs, Idle
<1>3. Typed'
  BY <1>p, <1>u, <1>s, <1>c DEF Typed
<1>4. Calls'
  BY <1>1, <1>2, <1>p, <1>u DEF Typed, Calls, Threads, Creates, Idle
<1>5. Creating'
  BY <1>1, <1>2, <1>e DEF Typed, Calls, Creating, RegistryLive, Registered, Threads, Idle, Creates
<1>6. RegistryLive'
  BY <1>1, <1>2, <1>e DEF Typed, Calls, Creating, RegistryLive, Registered, Threads, Live, Idle, Creates
<1>7. HandlesOwn'
  BY <1>1, <1>2, <1>e DEF Typed, Calls, Creating, HandlesOwn, Threads, Live, Idle, Creates
<1>8. SendersStay'
  BY <1>1, <1>2, <1>e DEF Typed, SendersStay, Registered, Threads, Idle
<1> QED
  BY <1>3, <1>4, <1>5, <1>6, <1>7, <1>8

LEMMA AfterCreateReturns ==
    ASSUME LifeInv, CreateReturns
    PROVE  LifeInv'
<1>1. PICK w \in Workers : w = call[Creator].worker
  BY ThreadAssumption DEF CreateReturns, LifeInv, Calls, Idle
<1>e. /\ pc[Creator] = "waitInit"
      /\ known' \in {known, known \cup {w}}
      /\ \E to \in {"startCommand", Idle} : pc' = [pc EXCEPT ![Creator] = to]
      /\ UNCHANGED <<registry, handle, owner, state, box, call>>
  BY <1>1 DEF CreateReturns
<1> USE ThreadAssumption DEF LifeInv
<1>2. w # Creator /\ Creator \in Clients
  OBVIOUS
<1>3. Typed'
  BY <1>1, <1>2, <1>e DEF Typed, Threads, Idle, ClientPcs, WorkerPcs, Kinds
<1>4. Calls'
  BY <1>1, <1>2, <1>e DEF Typed, Calls, Threads, Creates, Idle
<1>5. Creating'
  BY <1>1, <1>2, <1>e DEF Typed, Calls, Creating, RegistryLive, Registered, Threads, Idle, Creates
<1>6. RegistryLive'
  BY <1>1, <1>2, <1>e DEF Typed, Calls, Creating, RegistryLive, Registered, Threads, Live, Idle, Creates
<1>7. HandlesOwn'
  BY <1>1, <1>2, <1>e DEF Typed, Calls, Creating, HandlesOwn, Threads, Live, Idle, Creates
<1>8. SendersStay'
  BY <1>1, <1>2, <1>e DEF Typed, SendersStay, Registered, Threads, Idle
<1> QED
  BY <1>3, <1>4, <1>5, <1>6, <1>7, <1>8

LEMMA AfterCreateFails ==
    ASSUME LifeInv, CreateFails
    PROVE  LifeInv'
<1>1. PICK w \in Workers : w = call[Creator].worker
  BY ThreadAssumption DEF CreateFails, LifeInv, Calls, Idle
<1>e. /\ pc[Creator] = "waitInit"
      /\ pc' = [pc EXCEPT ![Creator] = Idle]
      /\ UNCHANGED <<registry, handle, owner, state, box, known, call>>
  BY <1>1 DEF CreateFails
<1> USE ThreadAssumption DEF LifeInv
<1>2. w # Creator /\ Creator \in Clients
  OBVIOUS
<1>3. Typed'
  BY <1>1, <1>2, <1>e DEF Typed, Threads, Idle, ClientPcs, WorkerPcs, Kinds
<1>4. Calls'
  BY <1>1, <1>2, <1>e DEF Typed, Calls, Threads, Creates, Idle
<1>5. Creating'
  BY <1>1, <1>2, <1>e DEF Typed, Calls, Creating, RegistryLive, Registered, Threads, Idle, Creates
<1>6. RegistryLive'
  BY <1>1, <1>2, <1>e DEF Typed, Calls, Creating, RegistryLive, Registered, Threads, Live, Idle, Creates
<1>7. HandlesOwn'
  BY <1>1, <1>2, <1>e DEF Typed, Calls, Creating, HandlesOwn, Threads, Live, Idle, Creates
<1>8. SendersStay'
  BY <1>1, <1>2, <1>e DEF Typed, SendersStay, Registered, Threads, Idle
<1> QED
  BY <1>3, <1>4, <1>5, <1>6, <1>7, <1>8
LEMMA AfterSend ==
    ASSUME LifeInv, NEW c \in Clients, Send(c)
    PROVE  LifeInv'
<1> USE ThreadAssumption DEF Send, LifeInv
<1>1. PICK w \in Workers : w = call[c].worker
  BY DEF Calls, Idle
<1>m. /\ box' \in [Workers -> Seq(Message)]
      /\ \A u \in Workers : \A i \in DOMAIN box'[u] :
            \/ i \in DOMAIN box[u] /\ box'[u][i] = box[u][i]
            \/ box'[u][i].from = c
  <2> DEFINE m == [kind |-> call[c].kind, from |-> c]
  <2>1. m \in Message /\ m.from = c
    BY DEF Typed, Message
  <2> HIDE DEF m
  <2>2. box' = [box EXCEPT ![w] = Append(box[w], m)]
    BY <1>1 DEF m
  <2>3. box[w] \in Seq(Message)
    BY DEF Typed
  <2>4. /\ Append(box[w], m) \in Seq(Message)
        /\ \A i \in DOMAIN Append(box[w], m) :
              \/ i \in DOMAIN box[w] /\ Append(box[w], m)[i] = box[w][i]
              \/ Append(box[w], m)[i] = m
    BY <2>1, <2>3, AppendParts
  <2> HIDE DEF Send
  <2> QED
    BY <2>1, <2>2, <2>4 DEF Typed
<1>2. registry' = registry
  OBVIOUS
<1>3. Typed'
  BY <1>1, <1>m DEF Typed, Threads, Idle, ClientPcs, WorkerPcs, Kinds
<1>4. Calls'
  BY DEF Typed, Calls, Threads, Creates, Idle
<1>5. Creating'
  BY <1>2 DEF Typed, Calls, Creating, RegistryLive, Registered, Threads, Idle, Creates
<1>6. RegistryLive'
  BY <1>2 DEF Typed, Calls, Creating, RegistryLive, Registered, Threads, Live, Idle, Creates
<1>7. HandlesOwn'
  BY DEF Typed, Calls, Creating, HandlesOwn, Threads, Live, Idle, Creates
<1>8. SendersStay'
  BY <1>m, <1>2 DEF Typed, SendersStay, Registered, Threads, Live, Idle
<1> QED
  BY <1>3, <1>4, <1>5, <1>6, <1>7, <1>8

LEMMA HandleGivenBack ==
    ASSUME Typed, HandlesOwn, NEW c \in Clients, pc[c] = "joinOS", pc' = [pc EXCEPT ![c] = Idle],
           NEW h \in Handles, owner[h] # Nobody, pc[owner[h]] = "ended",
           owner' = [owner EXCEPT ![h] = Nobody], handle' = handle
    PROVE  HandlesOwn'
<1>1. owner[h] \in Threads
  BY DEF Typed
<1>2. owner[h] \notin Clients
  BY DEF Typed, ClientPcs, Idle
<1>3. ASSUME NEW t \in Threads, pc[t] # "ended", handle[t] \in Handles, owner[handle[t]] = t
      PROVE  owner'[handle[t]] = t
  BY <1>3 DEF Typed
<1>4. \A t \in Threads : pc'[t] = IF t = c THEN Idle ELSE pc[t]
  BY DEF Typed
<1>5. c \in Threads /\ c \notin Workers
  BY ThreadAssumption DEF Threads
<1>6. ASSUME NEW w \in Workers
      PROVE  /\ pc'[w] \in Live => handle'[w] \in Handles /\ owner'[handle'[w]] = w
             /\ pc'[w] \in {"none", "new", "failed"} => handle'[w] = Nobody
  BY <1>3, <1>4, <1>5 DEF HandlesOwn, Threads, Live
<1>7. ASSUME NEW d \in Clients
      PROVE  /\ handle'[d] = ClientHandle[d]
             /\ pc'[d] # "gone" => owner'[handle'[d]] = d
  <2>1. pc[d] # "ended" /\ d \in Threads /\ handle[d] = ClientHandle[d] /\ handle[d] \in Handles
    BY ThreadAssumption DEF Typed, HandlesOwn, ClientPcs, Threads, Idle
  <2> QED
    BY <1>3, <1>4, <2>1 DEF HandlesOwn, Idle
<1> QED
  BY <1>6, <1>7 DEF HandlesOwn

LEMMA AfterJoinOS ==
    ASSUME LifeInv, NEW c \in Clients, JoinOS(c)
    PROVE  LifeInv'
<1> USE ThreadAssumption DEF JoinOS, LifeInv
<1>2. registry' = registry
  OBVIOUS
<1>3. Typed'
  BY DEF Typed, Threads, Idle, ClientPcs, WorkerPcs, Kinds
<1>4. Calls'
  BY DEF Typed, Calls, Threads, Creates, Idle
<1>5. Creating'
  BY <1>2 DEF Typed, Calls, Creating, RegistryLive, Registered, Threads, Idle, Creates
<1>6. RegistryLive'
  BY <1>2 DEF Typed, Calls, Creating, RegistryLive, Registered, Threads, Live, Idle, Creates
<1>7. HandlesOwn'
  <2> DEFINE h == handle[call[c].worker]
  <2>1. CASE h \notin Handles
    <3>1. owner' = owner
      BY <2>1 DEF Typed
    <3> QED
      BY <3>1 DEF Typed, HandlesOwn, Threads, Live, Idle
  <2>2. CASE h \in Handles
    <3>1. /\ owner[h] # Nobody /\ pc[owner[h]] = "ended" /\ pc[c] = "joinOS"
          /\ owner' = [owner EXCEPT ![h] = Nobody]
          /\ handle' = handle /\ pc' = [pc EXCEPT ![c] = Idle]
      OBVIOUS
    <3> QED
      BY <2>2, <3>1, HandleGivenBack
  <2> QED
    BY <2>1, <2>2
<1>8. SendersStay'
  BY <1>2 DEF Typed, SendersStay, Registered, Threads, Live, Idle
<1> QED
  BY <1>3, <1>4, <1>5, <1>6, <1>7, <1>8

LEMMA AfterClientExit ==
    ASSUME LifeInv, ClientsStay, NEW c \in Clients, ClientExit(c)
    PROVE  LifeInv'
<1> USE ThreadAssumption DEF ClientExit, ClientsStay, LifeInv
<1>1. ~Registered(c)
  BY DEF Typed, Contains, Registered, Occurs
<1>2. registry' = registry
  OBVIOUS
<1>3. Typed'
  BY DEF Typed, Threads, Idle, ClientPcs, WorkerPcs, Kinds
<1>4. Calls'
  BY DEF Typed, Calls, Threads, Creates, Idle
<1>5. Creating'
  BY <1>2 DEF Typed, Calls, Creating, RegistryLive, Registered, Threads, Idle, Creates
<1>6. RegistryLive'
  BY <1>1, <1>2 DEF Typed, Calls, Creating, RegistryLive, Registered, Threads, Live, Idle, Creates
<1>7. HandlesOwn'
  BY DEF Typed, Calls, Creating, HandlesOwn, Threads, Live, Idle, Creates
<1>8. SendersStay'
  BY <1>2 DEF Typed, SendersStay, Registered, Threads, Live, Idle
<1> QED
  BY <1>3, <1>4, <1>5, <1>6, <1>7, <1>8

LEMMA AfterRunnerBegins ==
    ASSUME LifeInv, NEW w \in Workers, RunnerBegins(w)
    PROVE  LifeInv'
<1> USE ThreadAssumption DEF RunnerBegins, Step, LifeInv
<1>2. registry' = registry
  OBVIOUS
<1>3. Typed'
  BY DEF Typed, Threads, Idle, ClientPcs, WorkerPcs, Kinds
<1>4. Calls'
  BY DEF Typed, Calls, Threads, Creates, Idle
<1>5. Creating'
  BY <1>2 DEF Typed, Calls, Creating, RegistryLive, Registered, Threads, Idle, Creates
<1>6. RegistryLive'
  BY <1>2 DEF Typed, Calls, Creating, RegistryLive, Registered, Threads, Live, Idle, Creates
<1>7. HandlesOwn'
  BY DEF Typed, Calls, Creating, HandlesOwn, Threads, Live, Idle, Creates
<1>8. SendersStay'
  BY <1>2 DEF Typed, SendersStay, Registered, Threads, Live, Idle
<1> QED
  BY <1>3, <1>4, <1>5, <1>6, <1>7, <1>8

LEMMA AfterRunnerAnnounces ==
    ASSUME LifeInv, NEW w \in Workers, RunnerAnnounces(w)
    PROVE  LifeInv'
<1> USE ThreadAssumption DEF RunnerAnnounces, Step, LifeInv
<1>2. registry' = registry
  OBVIOUS
<1>3. Typed'
  BY DEF Typed, Threads, Idle, ClientPcs, WorkerPcs, Kinds
<1>4. Calls'
  BY DEF Typed, Calls, Threads, Creates, Idle
<1>5. Creating'
  BY <1>2 DEF Typed, Calls, Creating, RegistryLive, Registered, Threads, Idle, Creates
<1>6. RegistryLive'
  BY <1>2 DEF Typed, Calls, Creating, RegistryLive, Registered, Threads, Live, Idle, Creates
<1>7. HandlesOwn'
  BY DEF Typed, Calls, Creating, HandlesOwn, Threads, Live, Idle, Creates
<1>8. SendersStay'
  BY <1>2 DEF Typed, SendersStay, Registered, Threads, Live, Idle
<1> QED
  BY <1>3, <1>4, <1>5, <1>6, <1>7, <1>8

LEMMA AfterRunnerReceives ==
    ASSUME LifeInv, NEW w \in Workers, RunnerReceives(w)
    PROVE  LifeInv'
<1> USE ThreadAssumption DEF RunnerReceives, Take, Step, LifeInv
<1>1. /\ box[w] \in Seq(Message) /\ box[w] # <<>> /\ box' = [box EXCEPT ![w] = Tail(box[w])]
      /\ Tail(box[w]) \in Seq(Message) /\ box[w][1] \in Message /\ Head(box[w]) = box[w][1] /\ 1 \in DOMAIN box[w]
      /\ \A i \in DOMAIN Tail(box[w]) : i + 1 \in DOMAIN box[w] /\ Tail(box[w])[i] = box[w][i + 1]
  BY TailParts DEF Typed
<1>2. registry' = registry
  OBVIOUS
<1>3. Typed'
  BY <1>1 DEF Typed, Threads, Idle, ClientPcs, WorkerPcs, Kinds
<1>4. Calls'
  BY DEF Typed, Calls, Threads, Creates, Idle
<1>5. Creating'
  BY <1>2 DEF Typed, Calls, Creating, RegistryLive, Registered, Threads, Idle, Creates
<1>6. RegistryLive'
  BY <1>2 DEF Typed, Calls, Creating, RegistryLive, Registered, Threads, Live, Idle, Creates
<1>7. HandlesOwn'
  BY DEF Typed, Calls, Creating, HandlesOwn, Threads, Live, Idle, Creates
<1>8. SendersStay'
  <2>1. Registered(box[w][1].from) /\ box[w][1].from \in Clients
    BY <1>1 DEF SendersStay, Message
  <2>2. \A u \in Workers : \A i \in DOMAIN box'[u] : Registered(box'[u][i].from)
    BY <1>1 DEF Typed, SendersStay
  <2>3. \A u \in Workers \ {w} : pc'[u] = pc[u]
    BY DEF Typed, Threads
  <2>4. \A c \in Clients : pc'[c] = pc[c]
    BY DEF Typed, Threads
  <2> QED
    BY <1>2, <2>1, <2>2, <2>3, <2>4 DEF SendersStay, Registered
<1> QED
  BY <1>3, <1>4, <1>5, <1>6, <1>7, <1>8

LEMMA AfterRunCommands ==
    ASSUME LifeInv, NEW w \in Workers, RunCommands(w)
    PROVE  LifeInv'
<1> USE ThreadAssumption DEF RunCommands, Take, Step, LifeInv
<1>1. /\ box[w] \in Seq(Message) /\ box[w] # <<>> /\ box' = [box EXCEPT ![w] = Tail(box[w])]
      /\ Tail(box[w]) \in Seq(Message) /\ Head(box[w]) = box[w][1] /\ 1 \in DOMAIN box[w]
      /\ \A i \in DOMAIN Tail(box[w]) : i + 1 \in DOMAIN box[w] /\ Tail(box[w])[i] = box[w][i + 1]
  BY TailParts DEF Typed
<1>2. registry' = registry
  OBVIOUS
<1>3. Typed'
  BY <1>1 DEF Typed, Threads, Idle, ClientPcs, WorkerPcs, Kinds
<1>4. Calls'
  BY DEF Typed, Calls, Threads, Creates, Idle
<1>5. Creating'
  BY <1>2 DEF Typed, Calls, Creating, RegistryLive, Registered, Threads, Idle, Creates
<1>6. RegistryLive'
  BY <1>2 DEF Typed, Calls, Creating, RegistryLive, Registered, Threads, Live, Idle, Creates
<1>7. HandlesOwn'
  BY DEF Typed, Calls, Creating, HandlesOwn, Threads, Live, Idle, Creates
<1>8. SendersStay'
  BY <1>1, <1>2 DEF Typed, SendersStay, Registered, Threads, Live, Idle
<1> QED
  BY <1>3, <1>4, <1>5, <1>6, <1>7, <1>8
LEMMA AfterRegister ==
    ASSUME LifeInv, Register
    PROVE  LifeInv'
<1>1. PICK w \in Workers : w = call[Creator].worker
  BY ThreadAssumption DEF Register, LifeInv, Calls, Idle
<1>2. /\ pc[Creator] = "register"
      /\ registry' = Append(registry, w)
      /\ pc' = [pc EXCEPT ![Creator] = "spawn"]
      /\ UNCHANGED <<handle, owner, state, box, known, call>>
  BY <1>1 DEF Register
<1>3. pc[w] = "new" /\ ~Registered(w) /\ w # Creator /\ Creator \in Clients
  BY <1>1, <1>2, ThreadAssumption DEF LifeInv, Creating
<1>4. registry \in Seq(Threads) /\ Once(registry) /\ w \in Threads /\ ~Occurs(registry, w)
  BY <1>3 DEF LifeInv, Typed, RegistryLive, Threads, Registered
<1>5. /\ registry' \in Seq(Threads) /\ Once(registry')
      /\ \A u : Registered(u)' <=> Registered(u) \/ u = w
  BY <1>2, <1>4, AppendOnce DEF Registered
<1>6. \A t \in Threads : pc'[t] = IF t = Creator THEN "spawn" ELSE pc[t]
  BY <1>2 DEF LifeInv, Typed
<1> USE ThreadAssumption DEF LifeInv
<1>7. Typed'
  BY <1>2, <1>5 DEF Typed, Threads, Idle, ClientPcs, WorkerPcs
<1>8. Calls'
  BY <1>2 DEF Typed, Calls, Threads, Creates, Idle
<1>9. Creating'
  BY <1>1, <1>2, <1>3, <1>5, <1>6 DEF Creating, Threads
<1>10. RegistryLive'
  BY <1>2, <1>3, <1>5, <1>6 DEF RegistryLive, Threads, Live
<1>11. HandlesOwn'
  BY <1>2, <1>3, <1>6 DEF HandlesOwn, Threads, Live
<1>12. SendersStay'
  BY <1>2, <1>5, <1>6 DEF SendersStay, Threads
<1> QED
  BY <1>7, <1>8, <1>9, <1>10, <1>11, <1>12

(* What Submit, Join and RunObject have in common: a live thread is looked *)
(* up and registered, and a client goes on in its call or is done with it. *)
LEMMA SelfRegistered ==
    ASSUME LifeInv, NEW t \in Threads, Present(t), registry' = WithSelf(t),
           UNCHANGED <<handle, owner, state, box, known>>,
           Typed', Calls', Creating',
           \A w \in Workers : \/ pc'[w] = pc[w]
                              \/ pc[w] \in Live /\ pc'[w] \in Live \ {"leave"},
           \A c \in Clients : pc'[c] = pc[c] \/ (c = t /\ pc'[c] \notin {"gone", "joinOS"})
    PROVE  LifeInv'
<1>1. /\ Once(registry')
      /\ \A u : Registered(u)' <=> Registered(u) \/ u = t
  BY CurrentIsSelf DEF Registered
<1> USE ThreadAssumption DEF LifeInv
<1>2. RegistryLive'
  BY <1>1 DEF RegistryLive, Live, Present
<1>3. HandlesOwn'
  BY DEF HandlesOwn, Live, Present
<1>4. SendersStay'
  BY <1>1 DEF SendersStay, Live
<1> QED
  BY <1>2, <1>3, <1>4
LEMMA AfterSubmit ==
    ASSUME LifeInv, NEW c \in Clients, NEW w \in Workers, NEW kind \in Kinds,
           pc[c] \in {Idle, "stop", "startCommand"}, Submit(c, w, kind)
    PROVE  LifeInv'
<1>1. /\ registry' = WithSelf(c)
      /\ call' = [call EXCEPT ![c] = [worker |-> w, kind |-> kind]]
      /\ pc' = [pc EXCEPT ![c] = IF state[w] = "TERMINATED" THEN Idle ELSE "send"]
      /\ UNCHANGED <<handle, owner, state, box, known>>
  BY DEF Submit
<1>2. c \in Threads /\ c \notin Workers /\ Present(c)
  BY ThreadAssumption DEF Threads, Present, Idle
<1> USE ThreadAssumption DEF LifeInv
<1>3. \A t \in Threads : pc'[t] = IF t = c THEN pc'[c] ELSE pc[t]
  BY <1>1, <1>2 DEF Typed
<1>4. pc'[c] \in {Idle, "send"}
  BY <1>1, <1>2 DEF Typed
<1>5. /\ registry' \in Seq(Threads) /\ Once(registry')
      /\ \A u : Registered(u)' <=> Registered(u) \/ u = c
  BY <1>1, <1>2, CurrentIsSelf DEF Registered
<1>6. Typed'
  <2>1. call' \in [Clients -> [worker : Workers \cup {Nobody}, kind : Kinds]]
    BY <1>1 DEF Typed
  <2>2. pc' \in [Threads -> ClientPcs \cup WorkerPcs]
    BY <1>1, <1>4 DEF Typed, ClientPcs
  <2>3. /\ \A d \in Clients : pc'[d] \in ClientPcs
        /\ \A u \in Workers : pc'[u] = pc[u]
    BY <1>2, <1>3, <1>4 DEF Typed, ClientPcs, Threads
  <2> QED
    BY <1>1, <1>5, <2>1, <2>2, <2>3 DEF Typed
<1>7. Calls'
  BY <1>1, <1>3, <1>4 DEF Typed, Calls, Threads, Creates, Idle
<1>8. Creating'
  <2>1. CASE c = Creator
    BY <1>2, <1>3, <1>4, <1>5, <2>1 DEF Creating, Threads, Idle
  <2>2. CASE c # Creator
    <3>1. call'[Creator] = call[Creator] /\ pc'[Creator] = pc[Creator]
      BY <1>1, <1>3, <2>2 DEF Typed, Threads
    <3> QED
      BY <1>2, <1>3, <1>5, <2>2, <3>1 DEF Creating, Calls, Threads, Idle
  <2> QED
    BY <2>1, <2>2
<1>9. /\ \A u \in Workers : pc'[u] = pc[u]
      /\ \A d \in Clients : pc'[d] = pc[d] \/ (d = c /\ pc'[d] \notin {"gone", "joinOS"})
  <2>1. \A u \in Workers : u \in Threads /\ u # c
    BY <1>2 DEF Threads
  <2>2. \A d \in Clients : d \in Threads
    BY DEF Threads
  <2> QED
    BY <1>2, <1>3, <1>4, <2>1, <2>2 DEF Idle
<1> QED
  BY <1>1, <1>2, <1>6, <1>7, <1>8, <1>9, SelfRegistered

LEMMA AfterJoin ==
    ASSUME LifeInv, NEW c \in Clients, NEW w \in Workers, Join(c, w)
    PROVE  LifeInv'
<1>1. /\ pc[c] = Idle
      /\ registry' = WithSelf(c)
      /\ call' = [call EXCEPT ![c] = [worker |-> w, kind |-> "Stop"]]
      /\ pc' \in {pc, [pc EXCEPT ![c] = "stop"]}
      /\ UNCHANGED <<handle, owner, state, box, known>>
  BY DEF Join
<1>2. c \in Threads /\ c \notin Workers /\ Present(c)
  BY <1>1, ThreadAssumption DEF Threads, Present, Idle
<1> USE ThreadAssumption DEF LifeInv
<1>3. /\ \A t \in Threads : t # c => pc'[t] = pc[t]
      /\ pc'[c] \in {Idle, "stop"}
  BY <1>1, <1>2 DEF Typed
<1>4. /\ registry' \in Seq(Threads) /\ Once(registry')
      /\ \A u : Registered(u)' <=> Registered(u) \/ u = c
  BY <1>1, <1>2, CurrentIsSelf DEF Registered
<1>5. Typed'
  <2>1. call' \in [Clients -> [worker : Workers \cup {Nobody}, kind : Kinds]]
    BY <1>1 DEF Typed, Kinds
  <2>2. pc' \in [Threads -> ClientPcs \cup WorkerPcs]
    BY <1>1 DEF Typed, ClientPcs
  <2>3. /\ \A d \in Clients : pc'[d] \in ClientPcs
        /\ \A u \in Workers : pc'[u] = pc[u]
    BY <1>2, <1>3 DEF Typed, ClientPcs, Threads
  <2> QED
    BY <1>1, <1>4, <2>1, <2>2, <2>3 DEF Typed
<1>6. Calls'
  BY <1>1, <1>3 DEF Typed, Calls, Threads, Creates, Idle
<1>7. Creating'
  <2>1. CASE c = Creator
    BY <1>1, <1>2, <1>3, <1>4, <2>1 DEF Creating, Threads, Idle
  <2>2. CASE c # Creator
    <3>1. call'[Creator] = call[Creator] /\ pc'[Creator] = pc[Creator]
      BY <1>1, <1>3, <2>2 DEF Typed, Threads
    <3> QED
      BY <1>2, <1>3, <1>4, <2>2, <3>1 DEF Creating, Calls, Threads, Idle
  <2> QED
    BY <2>1, <2>2
<1>8. /\ \A u \in Workers : pc'[u] = pc[u]
      /\ \A d \in Clients : pc'[d] = pc[d] \/ (d = c /\ pc'[d] \notin {"gone", "joinOS"})
  <2>1. \A u \in Workers : u \in Threads /\ u # c
    BY <1>2 DEF Threads
  <2>2. \A d \in Clients : d \in Threads
    BY DEF Threads
  <2> QED
    BY <1>2, <1>3, <2>1, <2>2 DEF Idle
<1> QED
  BY <1>1, <1>2, <1>5, <1>6, <1>7, <1>8, SelfRegistered

LEMMA AfterRunObject ==
    ASSUME LifeInv, NEW w \in Workers, RunObject(w)
    PROVE  LifeInv'
<1>1. /\ pc[w] = "run"
      /\ registry' = WithSelf(w)
      /\ pc' = [pc EXCEPT ![w] = "loop"]
      /\ UNCHANGED <<handle, owner, state, box, known, call>>
  BY DEF RunObject, Step
<1>2. w \in Threads /\ w \notin Clients /\ Present(w) /\ Registered(w)
  BY <1>1, ThreadAssumption DEF Threads, Present, Live, LifeInv, RegistryLive
<1> USE ThreadAssumption DEF LifeInv
<1>3. /\ \A t \in Threads : t # w => pc'[t] = pc[t]
      /\ pc'[w] = "loop"
  BY <1>1, <1>2 DEF Typed
<1>4. registry' \in Seq(Threads) /\ \A u : Registered(u)' <=> Registered(u)
  BY <1>1, <1>2, CurrentIsSelf DEF Registered
<1>5. Typed'
  BY <1>1, <1>2, <1>4 DEF Typed, ClientPcs, WorkerPcs, Threads
<1>6. Calls'
  BY <1>1, <1>2, <1>3 DEF Calls, Threads
<1>7. Creating'
  BY <1>1, <1>2, <1>3, <1>4 DEF Creating, Threads
<1>8. /\ \A u \in Workers : \/ pc'[u] = pc[u]
                            \/ pc[u] \in Live /\ pc'[u] \in Live \ {"leave"}
      /\ \A d \in Clients : pc'[d] = pc[d]
  BY <1>1, <1>2, <1>3 DEF Threads, Live
<1> QED
  BY <1>1, <1>2, <1>5, <1>6, <1>7, <1>8, SelfRegistered

LEMMA AfterRunnerLeaves ==
    ASSUME LifeInv, NEW w \in Workers, RunnerLeaves(w)
    PROVE  LifeInv' /\ mutex' = (mutex /\ registry' # <<>>) /\ registry' # <<>>
<1>1. /\ pc[w] = "leave" /\ pc' = [pc EXCEPT ![w] = "ended"]
      /\ registry' = Erase(WithSelf(w), Current(w))
      /\ mutex' = (mutex /\ registry' # <<>>)
      /\ UNCHANGED <<handle, owner, state, box, known, call>>
  BY DEF RunnerLeaves, Step
<1>2. w \in Threads /\ w \notin Clients /\ Present(w) /\ Registered(w)
  BY <1>1, ThreadAssumption DEF Threads, Present, Live, LifeInv, RegistryLive
<1>3. /\ Current(w) = w /\ WithSelf(w) \in Seq(Threads) /\ Once(WithSelf(w))
      /\ \A u : Occurs(WithSelf(w), u) <=> Registered(u)
  BY <1>2, CurrentIsSelf
<1>4. /\ registry' \in Seq(Threads) /\ Once(registry')
      /\ \A u : Registered(u)' <=> Registered(u) /\ u # w
  BY <1>1, <1>2, <1>3, EraseOnce DEF Registered
<1> USE ThreadAssumption DEF LifeInv
<1>5. /\ \A t \in Threads : t # w => pc'[t] = pc[t]
      /\ pc'[w] = "ended"
  BY <1>1, <1>2 DEF Typed
<1>6. Typed'
  BY <1>1, <1>2, <1>4 DEF Typed, ClientPcs, WorkerPcs, Threads
<1>7. Calls'
  BY <1>1, <1>2, <1>5 DEF Calls, Threads
<1>8. Creating'
  BY <1>1, <1>2, <1>4, <1>5 DEF Creating, Threads
<1>9. RegistryLive'
  BY <1>2, <1>4, <1>5 DEF RegistryLive, Live, Threads
<1>10. HandlesOwn'
  BY <1>1, <1>2, <1>5 DEF HandlesOwn, Live, Threads
<1>11. SendersStay'
  <2>1. \A u \in Workers : \A i \in DOMAIN box[u] : box[u][i].from \in Clients
    <3>1. \A m \in Message : m.from \in Clients
      BY DEF Message
    <3>2. \A u \in Workers : box[u] \in Seq(Message)
      BY DEF Typed
    <3> QED
      BY <3>1, <3>2
  <2> QED
    BY <1>1, <1>2, <1>4, <1>5, <2>1 DEF SendersStay, Threads
<1>12. registry' # <<>>
  <2>1. PICK c \in Clients : Registered(c)
    BY <1>1 DEF SendersStay
  <2>2. Registered(c)'
    BY <1>2, <1>4, <2>1
  <2> QED
    BY <2>2 DEF Registered, Occurs
<1> QED
  BY <1>1, <1>6, <1>7, <1>8, <1>9, <1>10, <1>11, <1>12
-----------------------------------------------------------------------------
LEMMA LifeUnchanged == LifeInv /\ UNCHANGED vars => LifeInv'
<1> SUFFICES ASSUME LifeInv, UNCHANGED vars PROVE LifeInv'
  OBVIOUS
<1> USE DEF LifeInv, vars
<1>1. Typed' /\ Calls' /\ Creating'
  BY DEF Typed, Calls, Creating, Registered
<1>2. RegistryLive' /\ HandlesOwn' /\ SendersStay'
  BY DEF RegistryLive, HandlesOwn, SendersStay, Registered
<1> QED
  BY <1>1, <1>2

LEMMA LifeNext == ClientsStay /\ LifeInv /\ [Next]_vars => LifeInv'
<1> SUFFICES ASSUME ClientsStay, LifeInv, [Next]_vars PROVE LifeInv'
  OBVIOUS
<1>1. ASSUME NEW w \in Workers, Create(w) PROVE LifeInv'
  BY <1>1, AfterCreate
<1>2. ASSUME NEW w \in Workers, WorkerStep(w) PROVE LifeInv'
  BY <1>2, AfterRunnerBegins, AfterRunnerAnnounces, AfterRunnerReceives, AfterRunObject,
     AfterRunCommands, AfterRunnerLeaves DEF WorkerStep
<1>3. CASE NewMutex \/ Register \/ Spawn \/ CreateReturns \/ SpawnFails \/ CreateFails
  BY <1>3, AfterNewMutex, AfterRegister, AfterSpawn, AfterCreateReturns, AfterSpawnFails,
     AfterCreateFails
<1>4. CASE StartCommand
  <2>1. call[Creator].worker \in Workers /\ Creator \in Clients /\ "Start" \in Kinds
    BY <1>4, ThreadAssumption DEF StartCommand, LifeInv, Calls, Idle, Kinds
  <2> QED
    BY <1>4, <2>1, AfterSubmit DEF StartCommand
<1>5. ASSUME NEW c \in Clients, ClientStep(c) PROVE LifeInv'
  <2>1. CASE Send(c) \/ JoinOS(c)
    BY <2>1, AfterSend, AfterJoinOS
  <2>2. CASE SendStop(c)
    <3>1. call[c].worker \in Workers /\ "Stop" \in Kinds
      BY <2>2 DEF SendStop, LifeInv, Calls, Idle, Kinds
    <3> QED
      BY <2>2, <3>1, AfterSubmit DEF SendStop
  <2> QED
    BY <1>5, <2>1, <2>2 DEF ClientStep
<1>6. ASSUME NEW c \in Clients, ClientExit(c) PROVE LifeInv'
  BY <1>6, AfterClientExit
<1>7. ASSUME NEW c \in Clients, NEW w \in Workers, Join(c, w) PROVE LifeInv'
  BY <1>7, AfterJoin
<1>8. ASSUME NEW c \in Clients, NEW w \in Workers, NEW kind \in Kinds, Post(c, w, kind)
      PROVE  LifeInv'
  BY <1>8, AfterSubmit DEF Post
<1>9. CASE UNCHANGED vars
  BY <1>9, LifeUnchanged
<1> QED
  BY <1>1, <1>2, <1>3, <1>4, <1>5, <1>6, <1>7, <1>8, <1>9 DEF Next, CreatorStep

LEMMA LifeAlways == ClientsStay => (Spec => []LifeInv)
<1> SUFFICES ASSUME ClientsStay PROVE Spec => []LifeInv
  OBVIOUS
<1>1. Init => LifeInv
  BY LifeInit
<1>2. LifeInv /\ [Next]_vars => LifeInv'
  BY LifeNext
<1> QED
  BY <1>1, <1>2, PTL DEF Spec

(* The registry of ThreadPthread.cpp has each live thread once and no      *)
(* ended one, whatever fails and however handles are used again, if no     *)
(* client the registry knows ends.                                         *)
THEOREM RegistryIsExact == ClientsStay => (Spec => []RegistryExact)
<1> SUFFICES ASSUME ClientsStay PROVE Spec => []RegistryExact
  OBVIOUS
<1>1. LifeInv => RegistryExact
  <2> SUFFICES ASSUME LifeInv, NEW w \in Workers
               PROVE  LET places == {i \in DOMAIN registry : registry[i] = w}
                      IN  CASE pc[w] \in Live -> Cardinality(places) = 1
                            [] pc[w] \in {"none", "ended"} -> places = {}
                            [] OTHER -> Cardinality(places) <= 1
    BY DEF RegistryExact, Live
  <2> DEFINE places == {i \in DOMAIN registry : registry[i] = w}
  <2>1. Once(registry) /\ (pc[w] \in Live => Registered(w))
        /\ (pc[w] \in {"none", "ended"} => ~Registered(w))
    BY DEF LifeInv, RegistryLive
  <2>2. CASE Registered(w)
    <3>1. PICK i \in DOMAIN registry : registry[i] = w
      BY <2>2 DEF Registered, Occurs
    <3>2. places = {i}
      BY <2>1, <3>1 DEF Once
    <3>3. Cardinality(places) = 1
      BY <3>2, FS_Singleton
    <3> QED
      BY <2>1, <2>2, <3>3
  <2>3. CASE ~Registered(w)
    <3>1. places = {}
      BY <2>3 DEF Registered, Occurs
    <3>2. Cardinality(places) = 0
      BY <3>1, FS_EmptySet
    <3> QED
      BY <2>1, <2>3, <3>1, <3>2
  <2> QED
    BY <2>2, <2>3
<1>2. Spec => []LifeInv
  BY LifeAlways
<1> QED
  BY <1>1, <1>2, PTL

(* The mutex of the registry is never given up once it is there: the       *)
(* client that stopped a thread is in the registry while the thread leaves *)
(* it.                                                                     *)
THEOREM MutexIsKept == ClientsStay => (Spec => MutexStays)
<1> SUFFICES ASSUME ClientsStay PROVE Spec => MutexStays
  OBVIOUS
<1>1. LifeInv /\ [Next]_vars => [mutex => mutex']_vars
  <2> SUFFICES ASSUME LifeInv, Next, mutex PROVE mutex'
    OBVIOUS
  <2>1. ASSUME NEW w \in Workers, Create(w) PROVE mutex'
    BY <2>1, Zenon DEF Create
  <2>2. ASSUME NEW w \in Workers, WorkerStep(w) PROVE mutex'
    <3>1. CASE RunnerLeaves(w)
      BY <3>1, AfterRunnerLeaves, Zenon
    <3>2. CASE RunnerBegins(w) \/ RunnerAnnounces(w) \/ RunnerReceives(w)
               \/ RunObject(w) \/ RunCommands(w)
      BY <3>2, Zenon DEF RunnerBegins, RunnerAnnounces, RunnerReceives, RunObject, RunCommands
    <3> QED
      BY <2>2, <3>1, <3>2, Zenon DEF WorkerStep
  <2>3. CASE CreatorStep \/ SpawnFails \/ CreateFails
    BY <2>3, Zenon DEF CreatorStep, NewMutex, Register, Spawn, CreateReturns, StartCommand, Submit,
       SpawnFails, CreateFails
  <2>4. ASSUME NEW c \in Clients, ClientStep(c) \/ ClientExit(c) PROVE mutex'
    BY <2>4, Zenon DEF ClientStep, Send, SendStop, JoinOS, ClientExit, Submit
  <2>5. ASSUME NEW c \in Clients, NEW w \in Workers,
               Join(c, w) \/ \E kind \in Kinds : Post(c, w, kind)
        PROVE  mutex'
    BY <2>5, Zenon DEF Join, Post, Submit
  <2> QED
    BY <2>1, <2>2, <2>3, <2>4, <2>5, Zenon DEF Next
<1>2. Spec => []LifeInv
  BY LifeAlways
<1> QED
  BY <1>1, <1>2, PTL DEF Spec, MutexStays
-----------------------------------------------------------------------------
(* One client joins. *)
Joiner == CHOOSE c \in Joiners : TRUE
OneJoiner == ClientsStay /\ Joiners = {Joiner}

Left == {"leave", "ended"}

(* A client that sends a Stop, or is about to. *)
Stopping(c) == pc[c] \in {"stop", "joinOS"} \/ (pc[c] = "send" /\ call[c].kind = "Stop")

(* A thread that is handed out, or is sent something, has begun. *)
KnownHaveBegun ==
    /\ announced \subseteq Workers /\ known \subseteq announced
    /\ \A w \in announced : pc[w] \in {"loop", "run"} \cup Left
    /\ \A c \in Clients : pc[c] \in {"startCommand", "send", "stop", "joinOS"}
                              => call[c].worker \in announced

OneStops == \A c \in Clients : Stopping(c) => c = Joiner

(* A Stop is the last message of the joiner, who waits for the thread. *)
StopIsLast ==
    \A w \in Workers : \A i \in DOMAIN box[w] : box[w][i].kind = "Stop" =>
        /\ box[w][i].from = Joiner
        /\ pc[Joiner] = "joinOS" /\ call[Joiner].worker = w
        /\ \A k \in DOMAIN box[w] : k > i => box[w][k].from # Joiner

(* A thread that left has no message of the joiner, who waits for it or is *)
(* done with it.                                                           *)
LeftHasNone ==
    /\ \A w \in Workers : pc[w] \in Left => \A i \in DOMAIN box[w] : box[w][i].from # Joiner
    /\ \A w \in Workers : pc[w] = "leave" => pc[Joiner] = "joinOS" /\ call[Joiner].worker = w
    /\ pc[Joiner] = "send" => pc[call[Joiner].worker] \notin Left

(* The joiner waits for the thread it has stopped, and its Join is over    *)
(* when that has ended.                                                    *)
JoinsItsOwn ==
    /\ pc[Joiner] = "joinOS" => /\ handle[call[Joiner].worker] \in Handles
                                /\ owner[handle[call[Joiner].worker]] = call[Joiner].worker
    /\ \A c \in Clients, w \in Workers :
          <<c, w>> \in joined => c = Joiner /\ pc[w] = "ended"

JoinInv == KnownHaveBegun /\ OneStops /\ StopIsLast /\ LeftHasNone /\ JoinsItsOwn

LEMMA JoinerIsClient == OneJoiner => Joiner \in Clients
BY ThreadAssumption DEF OneJoiner

LEMMA JoinInit == OneJoiner /\ Init => JoinInv
<1> SUFFICES ASSUME OneJoiner, Init PROVE JoinInv
  OBVIOUS
<1> USE ThreadAssumption, JoinerIsClient DEF Init
<1>1. /\ \A c \in Clients : pc[c] = Idle
      /\ \A w \in Workers : pc[w] = "none" /\ box[w] = <<>>
  BY DEF Threads
<1>2. announced = {} /\ known = {} /\ joined = {}
  OBVIOUS
<1> HIDE DEF Init
<1>3. KnownHaveBegun /\ OneStops
  BY <1>1, <1>2 DEF KnownHaveBegun, OneStops, Stopping, Idle
<1>4. StopIsLast /\ LeftHasNone /\ JoinsItsOwn
  BY <1>1, <1>2 DEF StopIsLast, LeftHasNone, JoinsItsOwn, Left, Idle
<1> QED
  BY <1>3, <1>4 DEF JoinInv

(* A step that changes no queue, and in which no thread leaves its loop    *)
(* and the joiner neither begins nor ends its wait.                        *)
Quiet ==
    /\ box' = box
    /\ (pc[Joiner] = "joinOS" \/ pc'[Joiner] = "joinOS")
          => pc'[Joiner] = pc[Joiner] /\ call'[Joiner] = call[Joiner]
    /\ pc'[Joiner] = "send" => pc[call'[Joiner].worker] \notin Left
    /\ \A w \in Workers : /\ pc'[w] \in Left <=> pc[w] \in Left
                          /\ pc'[w] = "leave" => pc[w] = "leave"
    /\ \A w \in announced : /\ handle'[w] = handle[w]
                            /\ owner[handle[w]] = w => owner'[handle[w]] = w
    /\ \A c \in Clients, w \in Workers :
          <<c, w>> \in joined' => <<c, w>> \in joined \/ (c = Joiner /\ pc[w] = "ended")
    /\ KnownHaveBegun' /\ OneStops'

LEMMA QuietKeeps ==
    ASSUME OneJoiner, JoinInv, Quiet
    PROVE  JoinInv'
<1> USE JoinerIsClient DEF JoinInv, Quiet
<1>1. StopIsLast'
  BY DEF StopIsLast
<1>2. LeftHasNone'
  <2>1. \A w \in Workers : pc'[w] \in Left => \A i \in DOMAIN box[w] : box[w][i].from # Joiner
    BY DEF LeftHasNone
  <2>2. \A w \in Workers : pc'[w] = "leave" => pc'[Joiner] = "joinOS" /\ call'[Joiner].worker = w
    BY DEF LeftHasNone
  <2>3. pc'[Joiner] = "send" => pc'[call'[Joiner].worker] \notin Left
    BY DEF KnownHaveBegun
  <2> QED
    BY <2>1, <2>2, <2>3 DEF LeftHasNone
<1>3. JoinsItsOwn'
  <2>1. ASSUME pc'[Joiner] = "joinOS"
        PROVE  /\ handle'[call'[Joiner].worker] \in Handles
               /\ owner'[handle'[call'[Joiner].worker]] = call'[Joiner].worker
    BY <2>1 DEF JoinsItsOwn, KnownHaveBegun
  <2>2. ASSUME NEW c \in Clients, NEW w \in Workers, <<c, w>> \in joined'
        PROVE  c = Joiner /\ pc'[w] = "ended"
    BY <2>2 DEF JoinsItsOwn, Left
  <2> QED
    BY <2>1, <2>2 DEF JoinsItsOwn
<1> QED
  BY <1>1, <1>2, <1>3
-----------------------------------------------------------------------------
(* The quiet steps: of the creator, of a thread that is not at its queue,  *)
(* and of a client that begins a call or ends.                             *)

Moves(c) == \A d \in Clients : d # c => pc'[d] = pc[d] /\ call'[d] = call[d]

LEMMA CreatorQuiet ==
    ASSUME OneJoiner, LifeInv, JoinInv, Moves(Creator),
           pc[Creator] \in {Idle} \cup Creates,
           pc'[Creator] \in {Idle} \cup Creates,
           pc'[Creator] = "startCommand" => call'[Creator].worker \in announced,
           UNCHANGED <<box, announced, joined>>, known' \subseteq announced,
           \A w \in Workers : \/ pc'[w] = pc[w]
                              \/ pc[w] \in {"none", "new"} /\ pc'[w] \in {"new", "begin", "failed"},
           \A w \in announced : /\ handle'[w] = handle[w]
                                /\ owner[handle[w]] = w => owner'[handle[w]] = w
    PROVE  JoinInv'
<1> USE JoinerIsClient, ThreadAssumption DEF JoinInv
<1>1. Joiner = Creator \/ (pc'[Joiner] = pc[Joiner] /\ call'[Joiner] = call[Joiner])
  BY DEF Moves
<1>2. pc'[Joiner] = "send" => pc[call'[Joiner].worker] \notin Left
  BY <1>1 DEF LeftHasNone, Creates, Idle
<1>3. \A w \in Workers : /\ pc'[w] \in Left <=> pc[w] \in Left
                         /\ pc'[w] = "leave" => pc[w] = "leave"
  BY DEF Left
<1>4. KnownHaveBegun'
  <2>1. \A w \in announced' : pc'[w] \in {"loop", "run"} \cup Left
    BY DEF KnownHaveBegun, Left
  <2>2. ASSUME NEW c \in Clients, pc'[c] \in {"startCommand", "send", "stop", "joinOS"}
        PROVE  call'[c].worker \in announced'
    BY <2>2 DEF KnownHaveBegun, Moves, Creates, Idle
  <2> QED
    BY <2>1, <2>2 DEF KnownHaveBegun
<1>5. OneStops'
  BY DEF OneStops, Stopping, Moves, Creates, Idle
<1>6. (pc[Joiner] = "joinOS" \/ pc'[Joiner] = "joinOS")
          => pc'[Joiner] = pc[Joiner] /\ call'[Joiner] = call[Joiner]
  BY <1>1 DEF Creates, Idle
<1>7. Quiet
  BY <1>2, <1>3, <1>4, <1>5, <1>6 DEF Quiet
<1> QED
  BY <1>7, QuietKeeps

LEMMA ClientQuiet ==
    ASSUME OneJoiner, LifeInv, JoinInv, NEW c \in Clients, NEW w \in announced, NEW kind \in Kinds,
           Moves(c), pc[c] \in {Idle, "stop", "startCommand"},
           pc'[c] \in {Idle, "send", "stop"},
           call'[c] = [worker |-> w, kind |-> kind],
           pc'[c] = "send" => pc[w] \notin Left,
           pc'[c] = "stop" \/ kind = "Stop" => c = Joiner,
           UNCHANGED <<box, announced, known, handle, owner>>,
           joined' = joined \/ (c = Joiner /\ pc[c] = Idle /\ pc[w] \in Left
                                /\ joined' = joined \cup {<<c, w>>}),
           \A u \in Workers : pc'[u] = pc[u]
    PROVE  JoinInv'
<1> USE JoinerIsClient, ThreadAssumption DEF JoinInv
<1>1. Joiner = c \/ (pc'[Joiner] = pc[Joiner] /\ call'[Joiner] = call[Joiner])
  BY DEF Moves
<1>2. pc'[Joiner] = "send" => pc[call'[Joiner].worker] \notin Left
  BY <1>1 DEF LeftHasNone
<1>3. KnownHaveBegun'
  BY DEF KnownHaveBegun, Moves
<1>4. OneStops'
  BY DEF OneStops, Stopping, Moves, Idle
<1>5. (pc[Joiner] = "joinOS" \/ pc'[Joiner] = "joinOS")
          => pc'[Joiner] = pc[Joiner] /\ call'[Joiner] = call[Joiner]
  BY <1>1 DEF Idle
<1>6. ASSUME NEW d \in Clients, NEW u \in Workers, <<d, u>> \in joined', <<d, u>> \notin joined
      PROVE  d = Joiner /\ pc[u] = "ended"
  <2>1. d = c /\ u = w /\ c = Joiner /\ pc[c] = Idle /\ pc[w] \in Left
    BY <1>6
  <2>2. pc[w] # "leave"
    BY <1>6, <2>1 DEF LeftHasNone, Idle
  <2> QED
    BY <2>1, <2>2 DEF Left
<1>7. Quiet
  BY <1>2, <1>3, <1>4, <1>5, <1>6 DEF Quiet, KnownHaveBegun
<1> QED
  BY <1>7, QuietKeeps

LEMMA WorkerQuiet ==
    ASSUME OneJoiner, LifeInv, JoinInv, NEW w \in Workers,
           \A u \in Workers : u # w => pc'[u] = pc[u],
           \A c \in Clients : pc'[c] = pc[c],
           pc[w] \in Left <=> pc'[w] \in Left, pc'[w] # "leave",
           w \in announced' => pc'[w] \in {"loop", "run"} \cup Left,
           announced' \in {announced, announced \cup {w}},
           UNCHANGED <<box, call, known, handle, owner, joined>>
    PROVE  JoinInv'
<1> USE JoinerIsClient, ThreadAssumption DEF JoinInv
<1>1. KnownHaveBegun'
  BY DEF KnownHaveBegun
<1>2. OneStops'
  BY DEF OneStops, Stopping
<1>3. \A u \in Workers : /\ pc'[u] \in Left <=> pc[u] \in Left
                         /\ pc'[u] = "leave" => pc[u] = "leave"
  OBVIOUS
<1>4. pc'[Joiner] = "send" => pc[call'[Joiner].worker] \notin Left
  BY DEF LeftHasNone
<1>5. Quiet
  BY <1>1, <1>2, <1>3, <1>4 DEF Quiet
<1> QED
  BY <1>5, QuietKeeps

LEMMA ClientMoves ==
    ASSUME LifeInv, NEW c \in Clients, NEW v, pc' = [pc EXCEPT ![c] = v]
    PROVE  /\ pc'[c] = v /\ \A d \in Clients : d # c => pc'[d] = pc[d]
           /\ \A u \in Workers : pc'[u] = pc[u]
BY ThreadAssumption DEF LifeInv, Typed, Threads

LEMMA WorkerMoves ==
    ASSUME LifeInv, NEW w \in Workers, NEW v, pc' = [pc EXCEPT ![w] = v]
    PROVE  /\ pc'[w] = v /\ \A u \in Workers : u # w => pc'[u] = pc[u]
           /\ \A c \in Clients : pc'[c] = pc[c]
BY ThreadAssumption DEF LifeInv, Typed, Threads

LEMMA BothMove ==
    ASSUME LifeInv, NEW c \in Clients, NEW w \in Workers, NEW x, NEW v,
           pc' = [pc EXCEPT ![w] = x, ![c] = v]
    PROVE  /\ pc'[w] = x /\ pc'[c] = v
           /\ \A d \in Clients : d # c => pc'[d] = pc[d]
           /\ \A u \in Workers : u # w => pc'[u] = pc[u]
BY ThreadAssumption DEF LifeInv, Typed, Threads

LEMMA CallMoves ==
    ASSUME LifeInv, NEW c \in Clients, NEW v, call' = [call EXCEPT ![c] = v]
    PROVE  call'[c] = v /\ \A d \in Clients : d # c => call'[d] = call[d]
BY DEF LifeInv, Typed

LEMMA JoinCreate ==
    ASSUME OneJoiner, LifeInv, JoinInv, NEW w \in Workers, Create(w)
    PROVE  JoinInv'
<1> DEFINE v == IF mutex THEN "register" ELSE "newMutex"
<1>1. /\ pc[Creator] = Idle /\ pc[w] = "none"
      /\ call' = [call EXCEPT ![Creator] = [worker |-> w, kind |-> "Start"]]
      /\ pc' = [pc EXCEPT ![w] = "new", ![Creator] = v]
      /\ UNCHANGED <<handle, owner, announced, box, known, joined>>
  BY DEF Create
<1>2. v \in {"register", "newMutex"}
  OBVIOUS
<1> HIDE DEF v
<1>3. Creator \in Clients
  BY ThreadAssumption
<1>4. /\ pc'[w] = "new" /\ pc'[Creator] = v /\ Moves(Creator)
      /\ \A u \in Workers : u # w => pc'[u] = pc[u]
  <2>1. /\ pc'[w] = "new" /\ pc'[Creator] = v
        /\ \A d \in Clients : d # Creator => pc'[d] = pc[d]
        /\ \A u \in Workers : u # w => pc'[u] = pc[u]
    BY <1>1, <1>3, BothMove, Zenon
  <2>2. \A d \in Clients : d # Creator => call'[d] = call[d]
    BY <1>1, <1>3, CallMoves, Zenon
  <2> QED
    BY <2>1, <2>2 DEF Moves
<1>5. /\ pc[Creator] \in {Idle} \cup Creates /\ pc'[Creator] \in {Idle} \cup Creates
      /\ pc'[Creator] # "startCommand"
  BY <1>1, <1>2, <1>4 DEF Creates
<1>6. \A u \in Workers : \/ pc'[u] = pc[u]
                         \/ pc[u] \in {"none", "new"} /\ pc'[u] \in {"new", "begin", "failed"}
  BY <1>1, <1>4
<1>7. /\ known' \subseteq announced /\ UNCHANGED <<box, announced, joined>>
      /\ \A u \in announced : /\ handle'[u] = handle[u]
                              /\ owner[handle[u]] = u => owner'[handle[u]] = u
  BY <1>1 DEF JoinInv, KnownHaveBegun
<1> QED
  BY <1>4, <1>5, <1>6, <1>7, CreatorQuiet

LEMMA JoinCreator ==
    ASSUME OneJoiner, LifeInv, JoinInv,
           NewMutex \/ Register \/ CreateReturns \/ CreateFails
    PROVE  JoinInv'
<1>1. PICK v \in {Idle, "register", "spawn", "startCommand"} :
        /\ pc[Creator] \in Creates /\ pc' = [pc EXCEPT ![Creator] = v]
        /\ v = "startCommand" => call[Creator].worker \in announced
        /\ known' \in {known, known \cup {call[Creator].worker}}
        /\ known' # known => call[Creator].worker \in announced
        /\ UNCHANGED <<handle, owner, announced, box, call, joined>>
  <2>1. CASE NewMutex
    BY <2>1 DEF NewMutex, Creates, Idle
  <2>2. CASE Register
    BY <2>2 DEF Register, Creates, Idle
  <2>3. CASE CreateReturns
    BY <2>3 DEF CreateReturns, Creates, Idle
  <2>4. CASE CreateFails
    BY <2>4 DEF CreateFails, Creates, Idle
  <2> QED
    BY <2>1, <2>2, <2>3, <2>4
<1>2. Creator \in Clients
  BY ThreadAssumption
<1>3. /\ pc'[Creator] = v /\ Moves(Creator)
      /\ \A u \in Workers : pc'[u] = pc[u]
  BY <1>1, <1>2, ClientMoves DEF Moves
<1>4. known' \subseteq announced
  BY <1>1 DEF JoinInv, KnownHaveBegun
<1> QED
  BY <1>1, <1>3, <1>4, CreatorQuiet DEF Creates

LEMMA JoinSpawn ==
    ASSUME OneJoiner, LifeInv, JoinInv, Spawn \/ SpawnFails
    PROVE  JoinInv'
<1>1. PICK w \in Workers : w = call[Creator].worker
  BY ThreadAssumption DEF Spawn, SpawnFails, LifeInv, Calls, Idle
<1>2. PICK x \in {"begin", "failed"}, v \in {Idle, "waitInit"} :
        /\ pc[Creator] = "spawn" /\ pc' = [pc EXCEPT ![w] = x, ![Creator] = v]
        /\ UNCHANGED <<announced, box, known, call, joined>>
  BY <1>1 DEF Spawn, SpawnFails
<1>3. Creator \in Clients
  BY ThreadAssumption
<1>4. /\ pc'[w] = x /\ pc'[Creator] = v /\ Moves(Creator)
      /\ \A u \in Workers : u # w => pc'[u] = pc[u]
  <2>1. /\ pc'[w] = x /\ pc'[Creator] = v
        /\ \A d \in Clients : d # Creator => pc'[d] = pc[d]
        /\ \A u \in Workers : u # w => pc'[u] = pc[u]
    BY <1>2, <1>3, BothMove, Zenon
  <2> QED
    BY <1>2, <2>1 DEF Moves
<1>5. pc[w] = "new"
  BY <1>1, <1>2 DEF LifeInv, Creating
<1>6. ASSUME NEW u \in announced
      PROVE  handle'[u] = handle[u] /\ (owner[handle[u]] = u => owner'[handle[u]] = u)
  <2>1. u \in Workers /\ u # w /\ u # Nobody
    BY <1>5, ThreadAssumption DEF JoinInv, KnownHaveBegun, Left
  <2>2. CASE Spawn
    <3>1. PICK h \in Handles : /\ owner[h] = Nobody
                               /\ owner' = [owner EXCEPT ![h] = w]
                               /\ handle' = [handle EXCEPT ![w] = h]
      BY <1>1, <2>2 DEF Spawn
    <3> QED
      BY <2>1, <3>1 DEF LifeInv, Typed, Threads
  <2>3. CASE SpawnFails
    BY <2>3 DEF SpawnFails
  <2> QED
    BY <2>2, <2>3
<1>7. /\ pc[Creator] \in {Idle} \cup Creates /\ pc'[Creator] \in {Idle} \cup Creates
      /\ pc'[Creator] # "startCommand"
  BY <1>2, <1>4 DEF Creates, Idle
<1>8. \A u \in Workers : \/ pc'[u] = pc[u]
                         \/ pc[u] \in {"none", "new"} /\ pc'[u] \in {"new", "begin", "failed"}
  BY <1>4, <1>5
<1>9. known' \subseteq announced /\ UNCHANGED <<box, announced, joined>>
  BY <1>2 DEF JoinInv, KnownHaveBegun
<1> QED
  BY <1>4, <1>6, <1>7, <1>8, <1>9, CreatorQuiet

LEMMA JoinSubmit ==
    ASSUME OneJoiner, LifeInv, JoinInv, NEW c \in Clients, NEW w \in announced,
           NEW kind \in Kinds, pc[c] \in {Idle, "stop", "startCommand"},
           kind = "Stop" => c = Joiner, Submit(c, w, kind)
    PROVE  JoinInv'
<1> DEFINE v == IF state[w] = "TERMINATED" THEN Idle ELSE "send"
<1>1. /\ call' = [call EXCEPT ![c] = [worker |-> w, kind |-> kind]]
      /\ pc' = [pc EXCEPT ![c] = v]
      /\ UNCHANGED <<handle, owner, announced, box, known, joined>>
  BY DEF Submit
<1>2. v \in {Idle, "send"} /\ (v = "send" => pc[w] \notin Left)
  BY DEF LifeInv, Typed, JoinInv, KnownHaveBegun, Left, Idle
<1> HIDE DEF v
<1>3. /\ pc'[c] = v /\ call'[c] = [worker |-> w, kind |-> kind]
      /\ \A u \in Workers : pc'[u] = pc[u]
      /\ \A d \in Clients : d # c => pc'[d] = pc[d]
  BY <1>1, ClientMoves, CallMoves, Zenon
<1>4. \A d \in Clients : d # c => call'[d] = call[d]
  BY <1>1, CallMoves, Zenon
<1>5. Moves(c)
  BY <1>3, <1>4 DEF Moves
<1>6. /\ pc'[c] \in {Idle, "send", "stop"} /\ (pc'[c] = "send" => pc[w] \notin Left)
      /\ pc'[c] = "stop" \/ kind = "Stop" => c = Joiner
  BY <1>2, <1>3 DEF Idle
<1> QED
  BY <1>1, <1>3, <1>5, <1>6, ClientQuiet

LEMMA JoinJoin ==
    ASSUME OneJoiner, LifeInv, JoinInv, NEW c \in Clients, NEW w \in Workers, Join(c, w)
    PROVE  JoinInv'
<1>1. PICK v \in {Idle, "stop"} :
        /\ pc[c] = Idle /\ c \in Joiners /\ w \in known
        /\ call' = [call EXCEPT ![c] = [worker |-> w, kind |-> "Stop"]]
        /\ pc' = [pc EXCEPT ![c] = v]
        /\ joined' = joined \/ (state[w] = "TERMINATED" /\ joined' = joined \cup {<<c, w>>})
        /\ UNCHANGED <<handle, owner, announced, box, known>>
  <2>1. CASE state[w] = "TERMINATED"
    <3>1. pc' = [pc EXCEPT ![c] = Idle]
      BY <2>1 DEF Join, LifeInv, Typed
    <3> QED
      BY <2>1, <3>1 DEF Join
  <2>2. CASE state[w] # "TERMINATED"
    BY <2>2 DEF Join
  <2> QED
    BY <2>1, <2>2
<1>2. c = Joiner /\ w \in announced /\ "Stop" \in Kinds
  BY <1>1 DEF OneJoiner, JoinInv, KnownHaveBegun, Kinds
<1>3. /\ pc'[c] = v /\ call'[c] = [worker |-> w, kind |-> "Stop"]
      /\ \A u \in Workers : pc'[u] = pc[u]
      /\ \A d \in Clients : d # c => pc'[d] = pc[d]
  BY <1>1, ClientMoves, CallMoves, Zenon
<1>4. \A d \in Clients : d # c => call'[d] = call[d]
  BY <1>1, CallMoves, Zenon
<1>5. Moves(c)
  BY <1>3, <1>4 DEF Moves
<1>6. /\ pc'[c] \in {Idle, "send", "stop"} /\ pc'[c] # "send"
      /\ pc[c] \in {Idle, "stop", "startCommand"}
  BY <1>1, <1>3 DEF Idle
<1>7. joined' = joined \/ (c = Joiner /\ pc[c] = Idle /\ pc[w] \in Left
                             /\ joined' = joined \cup {<<c, w>>})
  BY <1>1, <1>2 DEF LifeInv, Typed, Left
<1>8. UNCHANGED <<box, announced, known, handle, owner>>
  BY <1>1
<1> QED
  BY <1>2, <1>3, <1>5, <1>6, <1>7, <1>8, ClientQuiet

LEMMA JoinWorkers ==
    ASSUME OneJoiner, LifeInv, JoinInv, NEW w \in Workers,
           RunnerBegins(w) \/ RunnerAnnounces(w) \/ RunObject(w) \/ RunnerLeaves(w)
    PROVE  JoinInv'
<1>1. /\ UNCHANGED <<box, call, known, handle, owner, joined>>
      /\ announced' \in {announced, announced \cup {w}}
  BY DEF RunnerBegins, RunnerAnnounces, RunObject, RunnerLeaves
<1>2. PICK v \in {"announce", "loop", "ended"} :
        /\ pc' = [pc EXCEPT ![w] = v]
        /\ pc[w] \in Left <=> v \in Left
        /\ v = "announce" => pc[w] = "begin" /\ announced' = announced
  BY DEF RunnerBegins, RunnerAnnounces, RunObject, RunnerLeaves, Step, Left
<1>3. /\ pc'[w] = v /\ \A u \in Workers : u # w => pc'[u] = pc[u]
      /\ \A c \in Clients : pc'[c] = pc[c]
  BY <1>2, WorkerMoves, Zenon
<1>4. w \in announced' => pc'[w] \in {"loop", "run"} \cup Left
  BY <1>2, <1>3 DEF JoinInv, KnownHaveBegun, Left
<1>5. (pc[w] \in Left <=> pc'[w] \in Left) /\ pc'[w] # "leave"
  BY <1>2, <1>3
<1> QED
  BY <1>1, <1>3, <1>4, <1>5, WorkerQuiet

LEMMA JoinExit ==
    ASSUME OneJoiner, LifeInv, JoinInv, NEW c \in Clients, ClientExit(c)
    PROVE  JoinInv'
<1>1. /\ pc[c] = Idle /\ pc' = [pc EXCEPT ![c] = "gone"]
      /\ owner' = [owner EXCEPT ![handle[c]] = Nobody]
      /\ UNCHANGED <<handle, announced, box, known, call, joined>>
  BY DEF ClientExit
<1>2. /\ pc'[c] = "gone" /\ \A u \in Workers : pc'[u] = pc[u]
      /\ \A d \in Clients : d # c => pc'[d] = pc[d]
  BY <1>1, ClientMoves, Zenon
<1> USE JoinerIsClient, ThreadAssumption DEF JoinInv
<1>3. ASSUME NEW w \in announced
      PROVE  owner[handle[w]] = w => owner'[handle[w]] = w
  <2>1. w \in Workers /\ owner[handle[c]] = c
    BY <1>1 DEF KnownHaveBegun, LifeInv, HandlesOwn, Idle
  <2> QED
    BY <1>1, <2>1 DEF LifeInv, Typed
<1>4. KnownHaveBegun' /\ OneStops'
  BY <1>1, <1>2 DEF KnownHaveBegun, OneStops, Stopping
<1>5. /\ (pc[Joiner] = "joinOS" \/ pc'[Joiner] = "joinOS") => pc'[Joiner] = pc[Joiner]
      /\ pc'[Joiner] = "send" => pc[call'[Joiner].worker] \notin Left
  BY <1>1, <1>2 DEF LeftHasNone, Idle
<1>6. Quiet
  BY <1>1, <1>2, <1>3, <1>4, <1>5 DEF Quiet
<1> QED
  BY <1>6, QuietKeeps

LEMMA JoinUnchanged ==
    ASSUME OneJoiner, LifeInv, JoinInv, UNCHANGED vars
    PROVE  JoinInv'
<1>1. KnownHaveBegun' /\ OneStops' /\ StopIsLast'
  BY DEF vars, JoinInv, KnownHaveBegun, OneStops, Stopping, StopIsLast
<1>2. LeftHasNone' /\ JoinsItsOwn'
  BY DEF vars, JoinInv, LeftHasNone, JoinsItsOwn
<1> QED
  BY <1>1, <1>2 DEF JoinInv
-----------------------------------------------------------------------------
(* The steps at a queue and the end of the wait. *)

LEMMA JoinSend ==
    ASSUME OneJoiner, LifeInv, JoinInv, NEW c \in Clients, Send(c)
    PROVE  JoinInv'
<1> USE JoinerIsClient, ThreadAssumption DEF JoinInv
<1>1. PICK w \in announced : w = call[c].worker
  BY DEF Send, KnownHaveBegun
<1> DEFINE m == [kind |-> call[c].kind, from |-> c]
           v == IF call[c].kind = "Stop" THEN "joinOS" ELSE Idle
<1>2. /\ pc[c] = "send" /\ w \in Workers
      /\ box' = [box EXCEPT ![w] = Append(@, m)]
      /\ pc' = [pc EXCEPT ![c] = v]
      /\ known' = known \cup {w}
      /\ UNCHANGED <<handle, owner, announced, call, joined>>
  BY <1>1 DEF Send, KnownHaveBegun
<1>3. m \in Message /\ m.kind = call[c].kind /\ m.from = c
  BY DEF LifeInv, Typed, Message
<1>4. /\ v \in {Idle, "joinOS"} /\ v # "send" /\ (v = "joinOS" <=> m.kind = "Stop")
      /\ m.kind = "Stop" => c = Joiner
  BY <1>2, <1>3 DEF OneStops, Stopping, Idle
<1> HIDE DEF m, v
<1>5. /\ pc'[c] = v /\ \A u \in Workers : pc'[u] = pc[u]
      /\ \A d \in Clients : d # c => pc'[d] = pc[d]
  BY <1>2, ClientMoves, Zenon
<1>6. /\ \A u \in Workers : u # w => box'[u] = box[u]
      /\ \A i \in DOMAIN box'[w] : \/ i \in DOMAIN box[w] /\ box'[w][i] = box[w][i]
                                   \/ i = Len(box[w]) + 1 /\ box'[w][i] = m
  <2>1. box[w] \in Seq(Message) /\ box'[w] = Append(box[w], m)
    BY <1>2 DEF LifeInv, Typed
  <2> QED
    BY <1>2, <1>3, <2>1, AppendParts DEF LifeInv, Typed
<1>7. /\ \A i \in DOMAIN box[w] : i \in Nat /\ i <= Len(box[w])
      /\ \A i \in DOMAIN box'[w] : i \in Nat /\ i <= Len(box[w]) + 1
      /\ Len(box[w]) \in Nat
  <2>1. box[w] \in Seq(Message)
    BY <1>2 DEF LifeInv, Typed
  <2>2. \A i \in DOMAIN box[w] : i \in Nat /\ i <= Len(box[w])
    BY <2>1
  <2>3. Len(box[w]) \in Nat
    BY <2>1
  <2> QED
    BY <1>6, <2>2, <2>3
<1>8. KnownHaveBegun'
  BY <1>2, <1>4, <1>5 DEF KnownHaveBegun, Idle
<1>9. OneStops'
  BY <1>2, <1>3, <1>4, <1>5 DEF OneStops, Stopping, Idle
<1>10. c = Joiner => \A u \in Workers : /\ \A i \in DOMAIN box[u] : box[u][i].kind # "Stop"
                                        /\ pc[u] # "leave"
  BY <1>2 DEF StopIsLast, LeftHasNone
<1>11. StopIsLast'
  <2> SUFFICES ASSUME NEW u \in Workers, NEW i \in DOMAIN box'[u], box'[u][i].kind = "Stop"
               PROVE  /\ box'[u][i].from = Joiner
                      /\ pc'[Joiner] = "joinOS" /\ call'[Joiner].worker = u
                      /\ \A k \in DOMAIN box'[u] : k > i => box'[u][k].from # Joiner
    BY DEF StopIsLast
  <2>1. CASE c = Joiner
    <3>1. u = w /\ i = Len(box[w]) + 1 /\ box'[u][i] = m
      BY <1>6, <1>10, <2>1
    <3>2. \A k \in DOMAIN box'[u] : ~(k > i)
      BY <1>7, <3>1
    <3> QED
      BY <1>1, <1>2, <1>3, <1>4, <1>5, <2>1, <3>1, <3>2
  <2>2. CASE c # Joiner
    <3>1. i \in DOMAIN box[u] /\ box'[u][i] = box[u][i]
      BY <1>4, <1>6, <2>2
    <3>2. \A k \in DOMAIN box'[u] : \/ k \in DOMAIN box[u] /\ box'[u][k] = box[u][k]
                                    \/ box'[u][k].from # Joiner
      BY <1>3, <1>6, <2>2
    <3> QED
      BY <1>2, <1>5, <2>2, <3>1, <3>2 DEF StopIsLast
  <2> QED
    BY <2>1, <2>2
<1>12. LeftHasNone'
  <2>1. ASSUME NEW u \in Workers, pc'[u] \in Left, NEW i \in DOMAIN box'[u]
        PROVE  box'[u][i].from # Joiner
    <3>1. pc[u] \in Left
      BY <1>5, <2>1
    <3>2. \A k \in DOMAIN box[u] : box[u][k].from # Joiner
      BY <3>1 DEF LeftHasNone
    <3>3. c = Joiner => u # w
      BY <1>1, <1>2, <3>1 DEF LeftHasNone
    <3> QED
      BY <1>3, <1>6, <3>2, <3>3
  <2>2. ASSUME NEW u \in Workers, pc'[u] = "leave"
        PROVE  pc'[Joiner] = "joinOS" /\ call'[Joiner].worker = u
    BY <1>2, <1>5, <1>10, <2>2 DEF LeftHasNone
  <2>3. ASSUME pc'[Joiner] = "send"
        PROVE  pc'[call'[Joiner].worker] \notin Left
    BY <1>2, <1>4, <1>5, <2>3 DEF LeftHasNone, KnownHaveBegun
  <2> QED
    BY <2>1, <2>2, <2>3 DEF LeftHasNone
<1>13. JoinsItsOwn'
  <2>1. ASSUME pc'[Joiner] = "joinOS"
        PROVE  /\ handle'[call'[Joiner].worker] \in Handles
               /\ owner'[handle'[call'[Joiner].worker]] = call'[Joiner].worker
    <3>1. CASE c = Joiner
      <4>1. pc[w] \in Live
        BY <1>1, <1>2, <3>1 DEF KnownHaveBegun, LeftHasNone, Left, Live
      <4> QED
        BY <1>1, <1>2, <3>1, <4>1 DEF LifeInv, HandlesOwn
    <3>2. CASE c # Joiner
      BY <1>2, <1>5, <2>1, <3>2 DEF JoinsItsOwn
    <3> QED
      BY <3>1, <3>2
  <2>2. ASSUME NEW d \in Clients, NEW u \in Workers, <<d, u>> \in joined'
        PROVE  d = Joiner /\ pc'[u] = "ended"
    BY <1>2, <1>5, <2>2 DEF JoinsItsOwn
  <2> QED
    BY <2>1, <2>2 DEF JoinsItsOwn
<1> QED
  BY <1>8, <1>9, <1>11, <1>12, <1>13

(* A thread that takes the first message of its queue. *)
LEMMA JoinTakes ==
    ASSUME OneJoiner, LifeInv, JoinInv, NEW w \in Workers, RunnerReceives(w) \/ RunCommands(w)
    PROVE  JoinInv'
<1> USE JoinerIsClient, ThreadAssumption DEF JoinInv
<1>1. /\ box[w] # <<>> /\ box' = [box EXCEPT ![w] = Tail(@)]
      /\ UNCHANGED <<handle, owner, announced, known, call, joined>>
  BY DEF RunnerReceives, RunCommands, Take
<1>2. PICK v \in {"run", "loop", "leave"} :
        /\ pc[w] \in {"loop", "run"} /\ pc' = [pc EXCEPT ![w] = v]
        /\ v = "leave" => Head(box[w]).kind = "Stop"
  <2>1. CASE RunnerReceives(w)
    BY <2>1 DEF RunnerReceives, Step
  <2>2. CASE RunCommands(w)
    BY <2>2 DEF RunCommands, Step
  <2> QED
    BY <2>1, <2>2
<1>3. /\ pc'[w] = v /\ \A u \in Workers : u # w => pc'[u] = pc[u]
      /\ \A c \in Clients : pc'[c] = pc[c]
  BY <1>2, WorkerMoves, Zenon
<1>4. box[w] \in Seq(Message) /\ box'[w] = Tail(box[w]) /\ \A u \in Workers : u # w => box'[u] = box[u]
  BY <1>1 DEF LifeInv, Typed
<1>5. /\ Head(box[w]) = box[w][1] /\ 1 \in DOMAIN box[w]
      /\ \A i \in DOMAIN box'[w] : /\ i \in Nat \ {0} /\ i + 1 \in DOMAIN box[w]
                                   /\ box'[w][i] = box[w][i + 1]
  <2> DEFINE s == box[w]
             r == box'[w]
  <2>1. s \in Seq(Message) /\ s # <<>> /\ r = Tail(s)
    BY <1>1, <1>4
  <2> HIDE DEF s, r
  <2>2. /\ Head(s) = s[1] /\ 1 \in DOMAIN s
        /\ \A i \in DOMAIN r : /\ i \in Nat \ {0} /\ i + 1 \in DOMAIN s
                             /\ r[i] = s[i + 1]
    BY <2>1
  <2> QED
    BY <2>2 DEF s, r
<1>6. v = "leave" => /\ pc[Joiner] = "joinOS" /\ call[Joiner].worker = w
                     /\ \A i \in DOMAIN box'[w] : box'[w][i].from # Joiner
  BY <1>2, <1>5 DEF StopIsLast
<1>7. KnownHaveBegun' /\ OneStops'
  BY <1>1, <1>2, <1>3 DEF KnownHaveBegun, OneStops, Stopping, Left
<1>8. StopIsLast'
  <2> SUFFICES ASSUME NEW u \in Workers, NEW i \in DOMAIN box'[u], box'[u][i].kind = "Stop"
               PROVE  /\ box'[u][i].from = Joiner
                      /\ pc'[Joiner] = "joinOS" /\ call'[Joiner].worker = u
                      /\ \A k \in DOMAIN box'[u] : k > i => box'[u][k].from # Joiner
    BY DEF StopIsLast
  <2>1. CASE u = w
    <3>1. /\ box[w][i + 1].from = Joiner
          /\ pc[Joiner] = "joinOS" /\ call[Joiner].worker = w
          /\ \A k \in DOMAIN box[w] : k > i + 1 => box[w][k].from # Joiner
      BY <1>5, <2>1 DEF StopIsLast
    <3>2. ASSUME NEW k \in DOMAIN box'[w], k > i
          PROVE  box'[w][k].from # Joiner
      <4>1. k + 1 > i + 1 /\ k + 1 \in DOMAIN box[w] /\ box'[w][k] = box[w][k + 1]
        BY <1>5, <2>1, <3>2
      <4> QED
        BY <3>1, <4>1
    <3> QED
      BY <1>1, <1>3, <1>5, <2>1, <3>1, <3>2
  <2>2. CASE u # w
    BY <1>1, <1>3, <1>4, <2>2 DEF StopIsLast
  <2> QED
    BY <2>1, <2>2
<1>9. LeftHasNone'
  <2>1. ASSUME NEW u \in Workers, pc'[u] \in Left, NEW i \in DOMAIN box'[u]
        PROVE  box'[u][i].from # Joiner
    <3>1. CASE u = w
      <4>1. v = "leave"
        BY <1>2, <1>3, <2>1, <3>1 DEF Left
      <4> QED
        BY <1>6, <2>1, <3>1, <4>1
    <3>2. CASE u # w
      BY <1>3, <1>4, <2>1, <3>2 DEF LeftHasNone
    <3> QED
      BY <3>1, <3>2
  <2>2. ASSUME NEW u \in Workers, pc'[u] = "leave"
        PROVE  pc'[Joiner] = "joinOS" /\ call'[Joiner].worker = u
    BY <1>1, <1>3, <1>6, <2>2 DEF LeftHasNone
  <2>3. ASSUME pc'[Joiner] = "send"
        PROVE  pc'[call'[Joiner].worker] \notin Left
    <3>1. v # "leave" /\ pc[call[Joiner].worker] \notin Left /\ call[Joiner].worker \in Workers
      BY <1>3, <1>6, <2>3 DEF LeftHasNone, KnownHaveBegun
    <3> QED
      BY <1>1, <1>3, <3>1 DEF Left
  <2> QED
    BY <2>1, <2>2, <2>3 DEF LeftHasNone
<1>10. JoinsItsOwn'
  BY <1>1, <1>2, <1>3 DEF JoinsItsOwn
<1> QED
  BY <1>7, <1>8, <1>9, <1>10

LEMMA JoinEnds ==
    ASSUME OneJoiner, LifeInv, JoinInv, NEW c \in Clients, JoinOS(c)
    PROVE  JoinInv'
<1> USE JoinerIsClient, ThreadAssumption DEF JoinInv
<1>1. c = Joiner /\ pc[c] = "joinOS"
  BY DEF JoinOS, OneStops, Stopping
<1>2. PICK w \in Workers : w = call[c].worker
  BY <1>1 DEF KnownHaveBegun
<1>3. handle[w] \in Handles /\ owner[handle[w]] = w
  BY <1>1, <1>2 DEF JoinsItsOwn
<1>4. /\ pc[w] = "ended" /\ pc' = [pc EXCEPT ![c] = Idle]
      /\ joined' = joined \cup {<<c, w>>}
      /\ UNCHANGED <<handle, announced, box, known, call>>
  BY <1>2, <1>3 DEF JoinOS
<1>5. /\ pc'[c] = Idle /\ \A u \in Workers : pc'[u] = pc[u]
      /\ \A d \in Clients : d # c => pc'[d] = pc[d]
  BY <1>4, ClientMoves, Zenon
<1>6. \A u \in Workers : /\ pc[u] # "leave"
                         /\ \A i \in DOMAIN box[u] : box[u][i].kind # "Stop"
  <2>1. ASSUME NEW u \in Workers, NEW i \in DOMAIN box[u], box[u][i].kind = "Stop"
        PROVE  FALSE
    BY <1>1, <1>2, <1>4, <2>1 DEF StopIsLast, LeftHasNone, Left
  <2>2. ASSUME NEW u \in Workers, pc[u] = "leave"
        PROVE  FALSE
    BY <1>1, <1>2, <1>4, <2>2 DEF LeftHasNone
  <2> QED
    BY <2>1, <2>2
<1>7. KnownHaveBegun' /\ OneStops'
  BY <1>4, <1>5 DEF KnownHaveBegun, OneStops, Stopping, Idle
<1>8. StopIsLast'
  BY <1>4, <1>6 DEF StopIsLast
<1>9. LeftHasNone'
  BY <1>1, <1>4, <1>5, <1>6 DEF LeftHasNone, Idle
<1>10. JoinsItsOwn'
  <2>1. pc'[Joiner] # "joinOS"
    BY <1>1, <1>5 DEF Idle
  <2>2. ASSUME NEW d \in Clients, NEW u \in Workers, <<d, u>> \in joined'
        PROVE  d = Joiner /\ pc'[u] = "ended"
    BY <1>1, <1>4, <1>5, <2>2 DEF JoinsItsOwn
  <2> QED
    BY <2>1, <2>2 DEF JoinsItsOwn
<1> QED
  BY <1>7, <1>8, <1>9, <1>10

LEMMA JoinNext == OneJoiner /\ LifeInv /\ JoinInv /\ [Next]_vars => JoinInv'
<1> SUFFICES ASSUME OneJoiner, LifeInv, JoinInv, [Next]_vars PROVE JoinInv'
  OBVIOUS
<1>1. ASSUME NEW w \in Workers, Create(w) PROVE JoinInv'
  BY <1>1, JoinCreate, Zenon
<1>2. ASSUME NEW w \in Workers, WorkerStep(w) PROVE JoinInv'
  BY <1>2, JoinWorkers, JoinTakes, Zenon DEF WorkerStep
<1>3. CASE NewMutex \/ Register \/ Spawn \/ CreateReturns \/ SpawnFails \/ CreateFails
  BY <1>3, JoinCreator, JoinSpawn, Zenon
<1>4. CASE StartCommand
  <2>1. Creator \in Clients /\ pc[Creator] = "startCommand"
        /\ Submit(Creator, call[Creator].worker, "Start")
    BY <1>4, ThreadAssumption DEF StartCommand
  <2>2. call[Creator].worker \in announced /\ "Start" \in Kinds
        /\ ("Start" = "Stop" => Creator = Joiner)
    BY <2>1 DEF JoinInv, KnownHaveBegun, Kinds
  <2>3. pc[Creator] \in {Idle, "stop", "startCommand"}
    BY <2>1
  <2> QED
    BY <2>1, <2>2, <2>3, JoinSubmit, Zenon
<1>5. ASSUME NEW c \in Clients, ClientStep(c) PROVE JoinInv'
  <2>1. CASE SendStop(c)
    <3>1. pc[c] = "stop" /\ Submit(c, call[c].worker, "Stop")
      BY <2>1 DEF SendStop
    <3>2. call[c].worker \in announced /\ "Stop" \in Kinds
          /\ ("Stop" = "Stop" => c = Joiner)
      BY <3>1 DEF JoinInv, KnownHaveBegun, OneStops, Stopping, Kinds
    <3>3. pc[c] \in {Idle, "stop", "startCommand"}
      BY <3>1
    <3> QED
      BY <3>1, <3>2, <3>3, JoinSubmit, Zenon
  <2> QED
    BY <1>5, <2>1, JoinSend, JoinEnds, Zenon DEF ClientStep
<1>6. ASSUME NEW c \in Clients, ClientExit(c) PROVE JoinInv'
  BY <1>6, JoinExit, Zenon
<1>7. ASSUME NEW c \in Clients, NEW w \in Workers, Join(c, w) PROVE JoinInv'
  BY <1>7, JoinJoin, Zenon
<1>8. ASSUME NEW c \in Clients, NEW w \in Workers, NEW kind \in Kinds, Post(c, w, kind)
      PROVE  JoinInv'
  <2>1. pc[c] = Idle /\ w \in known /\ kind # "Stop" /\ Submit(c, w, kind)
    BY <1>8 DEF Post
  <2>2. w \in announced /\ (kind = "Stop" => c = Joiner)
    BY <2>1 DEF JoinInv, KnownHaveBegun
  <2>3. pc[c] \in {Idle, "stop", "startCommand"}
    BY <2>1
  <2> QED
    BY <2>1, <2>2, <2>3, JoinSubmit, Zenon
<1>9. CASE UNCHANGED vars
  BY <1>9, JoinUnchanged, Zenon
<1> QED
  BY <1>1, <1>2, <1>3, <1>4, <1>5, <1>6, <1>7, <1>8, <1>9, Zenon DEF Next, CreatorStep

LEMMA JoinAlways == OneJoiner => (Spec => [](LifeInv /\ JoinInv))
<1> SUFFICES ASSUME OneJoiner PROVE Spec => [](LifeInv /\ JoinInv)
  OBVIOUS
<1>1. Init => LifeInv /\ JoinInv
  BY LifeInit, JoinInit
<1>2. LifeInv /\ JoinInv /\ [Next]_vars => LifeInv' /\ JoinInv'
  BY LifeNext, JoinNext DEF OneJoiner
<1> QED
  BY <1>1, <1>2, PTL DEF Spec

(* What a client sent a thread before its Join (Start, SendThreadMessage   *)
(* and Join of TCMTThreadPthread.cpp) was handled when the Join returned   *)
(* true, for any number of clients that send, any threads and handles, if  *)
(* one client joins.                                                       *)
THEOREM JoinedThreadsHaveHandled == OneJoiner => (Spec => []JoinedHasHandled)
<1> SUFFICES ASSUME OneJoiner PROVE Spec => []JoinedHasHandled
  OBVIOUS
<1>1. JoinInv => JoinedHasHandled
  BY DEF JoinInv, JoinsItsOwn, LeftHasNone, Left, JoinedHasHandled
<1>2. Spec => [](LifeInv /\ JoinInv)
  BY JoinAlways
<1> QED
  BY <1>1, <1>2, PTL

(* A thread whose Join returned true has ended and has left the registry,  *)
(* though ThreadRunner (TCMTThreadPthread.cpp) says it is terminated while *)
(* it still has both to do.                                                *)
THEOREM JoinedThreadsHaveEnded == OneJoiner => (Spec => []JoinedHasEnded)
<1> SUFFICES ASSUME OneJoiner PROVE Spec => []JoinedHasEnded
  OBVIOUS
<1>1. LifeInv /\ JoinInv => JoinedHasEnded
  BY DEF JoinInv, JoinsItsOwn, LifeInv, RegistryLive, Registered, Occurs, JoinedHasEnded
<1>2. Spec => [](LifeInv /\ JoinInv)
  BY JoinAlways
<1> QED
  BY <1>1, <1>2, PTL

(* pthread_t values are used again, and each one a live thread was given   *)
(* names that thread until its own joiner (JoinOS in                       *)
(* TCMTThreadPthread.cpp) gives it back.                                   *)
THEOREM HandlesAreOwn == ClientsStay => (Spec => []OwnHandle)
<1> SUFFICES ASSUME ClientsStay PROVE Spec => []OwnHandle
  OBVIOUS
<1>1. LifeInv => OwnHandle
  BY DEF LifeInv, HandlesOwn, Live, OwnHandle
<1>2. Spec => []LifeInv
  BY LifeAlways
<1> QED
  BY <1>1, <1>2, PTL
-----------------------------------------------------------------------------
(* Synchronous messages.  A message of one of the message ids is in a      *)
(* queue or in the hands of a Run.  The proof follows each of them by its  *)
(* reply id.                                                               *)
Synchronous(m) == m.id \in MessageIds

Queued(s) == {s[i] : i \in {j \in DOMAIN s : Synchronous(s[j])}}
NoneTwice(s) ==
    \A i, j \in DOMAIN s :
        Synchronous(s[i]) /\ Synchronous(s[j]) /\ s[i].no = s[j].no => i = j

(* What a thread has in hand: a message it handles, one it is about to add *)
(* to the queue of its receiver.                                           *)
Held(t) == ({handling[t]} \ {NoMessage})
              \cup (IF sendPC[t] = "sending" THEN {asked[t]} ELSE {})
Under(t) == Queued(queue[t]) \cup Held(t)
Asking(t) == sendPC[t] \in {"sending", "wait"}

(* Reply ids are given out one by one; a wait is for an own message. *)
Numbers ==
    /\ \A t \in Senders : \A m \in Under(t) : Synchronous(m) /\ m.no \in 1 .. replyId
    /\ \A t \in Senders : \A i \in DOMAIN queue[t] : ~Synchronous(queue[t][i]) => queue[t][i].no = 0
    /\ \A t \in Senders :
          Asking(t) => /\ asked[t] \in S!Message
                       /\ asked[t].from = t /\ Synchronous(asked[t])
                       /\ asked[t].no \in 1 .. replyId
    /\ \A t \in Senders : sendPC[t] = "sending" => target[t] # t

(* No message is in two places. *)
OnePlace ==
    /\ \A t \in Senders : NoneTwice(queue[t])
    /\ \A t \in Senders : \A m \in Queued(queue[t]), n \in Held(t) : m.no # n.no
    /\ \A t, u \in Senders : t # u => \A m \in Under(t), n \in Under(u) : m.no # n.no
    /\ \A t \in Senders :
          sendPC[t] = "sending" /\ handling[t] # NoMessage => handling[t].no # asked[t].no

(* Who has a message of its own in its queue got it back, and who is about *)
(* to give one back has said so.                                           *)
BackIsReplied ==
    /\ \A t \in Senders : \A m \in Queued(queue[t]) : m.from = t => m.no \in replied
    /\ \A t \in Senders :
          sendPC[t] = "replying" => handling[t] # NoMessage /\ handling[t].no \in replied

AskedIsOwn ==
    \A t, u \in Senders : \A m \in Under(u) :
        Asking(t) /\ m.no = asked[t].no => m.from = t

(* What a send returned for is nowhere any more. *)
GotIsGone ==
    \A r \in returned : /\ r.no \in 1 .. replyId /\ r.got \in 0 .. replyId
                        /\ r.got # 0 => \A t \in Senders : \A m \in Under(t) : m.no # r.got

(* The sender of a message waits for it, or its send ended without it. *)
Unanswered(m) == \E q \in returned : /\ q.no = m.no /\ q.by = m.from
                                     /\ q.result # "MSG_RECEIVED"
SentIsPending ==
    \A u \in Senders : \A m \in Under(u) :
        \/ Unanswered(m) /\ (Asking(m.from) => m.no < asked[m.from].no)
        \/ Asking(m.from) /\ m.no = asked[m.from].no

States == {"run", "sending", "wait", "replying", "runner", "ended"}

MovesInv == S!TypeOK /\ Numbers /\ OnePlace /\ BackIsReplied
SendInv == MovesInv /\ AskedIsOwn /\ GotIsGone /\ SentIsPending /\ SendIsTruthful

(* The queue r has what s has, and m. *)
WithOne(r, s, m) ==
    /\ \A i \in DOMAIN r : r[i] = m \/ \E j \in DOMAIN s : r[i] = s[j]
    /\ \A n \in Queued(r) : n \in Queued(s) \/ (n = m /\ Synchronous(m))
    /\ NoneTwice(s) /\ (Synchronous(m) => \A n \in Queued(s) : n.no # m.no) => NoneTwice(r)

LEMMA QueuedAppend ==
    ASSUME NEW T, NEW s \in Seq(T), NEW m \in T
    PROVE  Append(s, m) \in Seq(T) /\ WithOne(Append(s, m), s, m)
<1> DEFINE r == Append(s, m)
<1>1. /\ r \in Seq(T)
      /\ \A i \in DOMAIN r : \/ i \in DOMAIN s /\ r[i] = s[i]
                             \/ i = Len(s) + 1 /\ r[i] = m
  BY AppendParts, Zenon
<1> HIDE DEF r
<1>2. \A n \in Queued(r) : n \in Queued(s) \/ (n = m /\ Synchronous(m))
  BY <1>1, Zenon DEF Queued
<1>3. ASSUME NoneTwice(s), Synchronous(m) => \A n \in Queued(s) : n.no # m.no
      PROVE  NoneTwice(r)
  <2>1. \A i \in DOMAIN s : Synchronous(s[i]) /\ Synchronous(m) => s[i].no # m.no
    BY <1>3, Zenon DEF Queued
  <2> HIDE DEF Synchronous
  <2> QED
    BY <1>1, <1>3, <2>1, Zenon DEF NoneTwice
<1> QED
  BY <1>1, <1>2, <1>3, Zenon DEF r, WithOne

(* The queue r has what s has, without its element x. *)
Without(r, s, x) ==
    /\ \A j \in DOMAIN r : \E k \in DOMAIN s : r[j] = s[k]
    /\ Queued(r) \subseteq Queued(s)
    /\ Synchronous(x) => x \in Queued(s)
    /\ NoneTwice(s) => /\ NoneTwice(r)
                       /\ Synchronous(x) => \A n \in Queued(r) : n.no # x.no

LEMMA QueuedTaken ==
    ASSUME NEW T, NEW s \in Seq(T), NEW i \in 1 .. Len(s), NEW r \in Seq(T),
           Len(r) = Len(s) - 1,
           \A j \in 1 .. Len(s) - 1 : r[j] = IF j < i THEN s[j] ELSE s[j + 1]
    PROVE  Without(r, s, s[i])
<1> DEFINE old(j) == IF j < i THEN j ELSE j + 1
<1>1. DOMAIN s = 1 .. Len(s) /\ DOMAIN r = 1 .. Len(s) - 1 /\ Len(s) \in Nat
  OBVIOUS
<1>2. \A j \in DOMAIN r : old(j) \in DOMAIN s /\ old(j) # i /\ r[j] = s[old(j)]
  BY <1>1
<1>3. \A j, k \in DOMAIN r : old(j) = old(k) => j = k
  BY <1>1
<1>4. i \in DOMAIN s
  BY <1>1
<1> HIDE DEF old
<1>5. Queued(r) \subseteq Queued(s) /\ (Synchronous(s[i]) => s[i] \in Queued(s))
  <2>1. ASSUME NEW n \in Queued(r)
        PROVE  n \in Queued(s)
    <3>1. PICK j \in DOMAIN r : Synchronous(r[j]) /\ n = r[j]
      BY <2>1, Zenon DEF Queued
    <3> HIDE DEF Synchronous
    <3> QED
      BY <1>2, <3>1 DEF Queued
  <2>2. Synchronous(s[i]) => s[i] \in Queued(s)
    BY <1>4, Zenon DEF Queued
  <2> QED
    BY <2>1, <2>2, Zenon
<1>6. ASSUME NoneTwice(s)
      PROVE  NoneTwice(r)
  <2> HIDE DEF Synchronous
  <2> QED
    BY <1>2, <1>3, <1>6 DEF NoneTwice
<1>7. ASSUME NoneTwice(s), Synchronous(s[i]), NEW n \in Queued(r)
      PROVE  n.no # s[i].no
  <2>1. PICK j \in DOMAIN r : Synchronous(r[j]) /\ n = r[j]
    BY <1>7, Zenon DEF Queued
  <2> HIDE DEF Synchronous
  <2> QED
    BY <1>2, <1>4, <1>7, <2>1, Zenon DEF NoneTwice
<1> QED
  BY <1>2, <1>5, <1>6, <1>7, Zenon DEF Without

LEMMA QueuedTail ==
    ASSUME NEW T, NEW s \in Seq(T), s # <<>>
    PROVE  Tail(s) \in Seq(T) /\ Head(s) \in T /\ Without(Tail(s), s, Head(s))
<1> DEFINE r == Tail(s)
<1>1. r \in Seq(T) /\ Head(s) \in T /\ Head(s) = s[1]
  OBVIOUS
<1>i. 1 \in 1 .. Len(s)
  OBVIOUS
<1>l. Len(r) = Len(s) - 1
  OBVIOUS
<1>o. \A j \in 1 .. Len(s) - 1 : r[j] = IF j < 1 THEN s[j] ELSE s[j + 1]
  OBVIOUS
<1> HIDE DEF r
<1>2. Without(r, s, s[1])
  BY <1>1, <1>i, <1>l, <1>o, QueuedTaken, Zenon
<1> QED
  BY <1>1, <1>2, Zenon DEF r

LEMMA QueuedRemoveAt ==
    ASSUME NEW T, NEW s \in Seq(T), NEW i \in 1 .. Len(s)
    PROVE  RemoveAt(s, i) \in Seq(T) /\ Without(RemoveAt(s, i), s, s[i])
<1> DEFINE r == RemoveAt(s, i)
<1>1. r \in Seq(T)
  BY RemoveAtParts, Zenon
<1>l. Len(r) = Len(s) - 1
  BY RemoveAtParts, Zenon
<1>o. \A j \in 1 .. Len(s) - 1 : r[j] = IF j < i THEN s[j] ELSE s[j + 1]
  BY RemoveAtParts, Zenon
<1> HIDE DEF r
<1>2. Without(r, s, s[i])
  BY <1>1, <1>l, <1>o, QueuedTaken, Zenon
<1> QED
  BY <1>1, <1>2, Zenon DEF r

LEMMA MessageParts ==
    ASSUME NEW m \in S!Message
    PROVE  /\ m.from \in Senders /\ m.no \in 0 .. MaxSends /\ m.no \in Int
           /\ m.id \in MessageIds \cup {QUIT, STOP} /\ m # NoMessage
BY MCAssumption DEF S!Message, S!SyncSendAssumption

LEMMA UnderTyped ==
    ASSUME S!TypeOK, Numbers, NEW t \in Senders
    PROVE  /\ queue[t] \in Seq(S!Message)
           /\ \A m \in Under(t) : m \in S!Message
<1>1. queue[t] \in Seq(S!Message) /\ handling[t] \in S!Message \cup {NoMessage}
  BY DEF S!TypeOK
<1>2. \A i \in DOMAIN queue[t] : queue[t][i] \in S!Message
  BY <1>1
<1>3. sendPC[t] = "sending" => asked[t] \in S!Message
  BY DEF Numbers, Asking
<1> HIDE DEF S!Message
<1> QED
  BY <1>1, <1>2, <1>3, Zenon DEF Under, Queued, Held

LEMMA SendsInit == S!Init => SendInv
<1> SUFFICES ASSUME S!Init PROVE SendInv
  OBVIOUS
<1>1. \A t \in Senders : /\ queue[t] = <<>> /\ handling[t] = NoMessage /\ sendPC[t] = "run"
  BY DEF S!Init
<1>2. \A t \in Senders : Queued(queue[t]) = {} /\ Held(t) = {} /\ Under(t) = {}
  BY <1>1 DEF Queued, Held, Under
<1>3. returned = {}
  BY DEF S!Init
<1>4. S!TypeOK
  BY MCAssumption DEF S!Init, S!TypeOK, S!SyncSendAssumption
<1>5. Numbers /\ OnePlace /\ BackIsReplied
  BY <1>1, <1>2 DEF Numbers, OnePlace, NoneTwice, BackIsReplied, Asking
<1>6. AskedIsOwn /\ GotIsGone /\ SentIsPending
  BY <1>2, <1>3 DEF AskedIsOwn, GotIsGone, SentIsPending
<1>7. SendIsTruthful
  BY <1>3 DEF SendIsTruthful, S!ReceivedMeansReplied, S!AnsweredOnce, S!FailureHasACause
<1> QED
  BY <1>4, <1>5, <1>6, <1>7 DEF SendInv, MovesInv

(* A step in which messages only move or go away, and no send begins or    *)
(* ends.                                                                   *)
OnlyMoves ==
    /\ UNCHANGED <<asked, replyId, returned>>
    /\ replied \subseteq replied' /\ dropped \subseteq dropped'
    /\ \A t \in Senders : Asking(t)' <=> Asking(t)
    /\ \A t \in Senders : \A m \in Under(t)' : \E u \in Senders : m \in Under(u)

LEMMA MovesKeep ==
    ASSUME SendInv, OnlyMoves
    PROVE  AskedIsOwn' /\ GotIsGone' /\ SentIsPending' /\ SendIsTruthful'
<1> USE DEF OnlyMoves, SendInv, MovesInv
<1> HIDE DEF Under, Asking
<1>1. AskedIsOwn'
  BY DEF AskedIsOwn
<1>2. GotIsGone'
  BY DEF GotIsGone
<1>3. SentIsPending'
  <2>1. ASSUME NEW t \in Senders, NEW m \in Under(t)'
        PROVE  \/ Unanswered(m)' /\ (Asking(m.from)' => m.no < asked'[m.from].no)
               \/ Asking(m.from)' /\ m.no = asked'[m.from].no
    <3>1. PICK u \in Senders : m \in Under(u)
      BY <2>1
    <3>2. m.from \in Senders
      BY <3>1, UnderTyped, MessageParts
    <3>3. \/ Unanswered(m) /\ (Asking(m.from) => m.no < asked[m.from].no)
          \/ Asking(m.from) /\ m.no = asked[m.from].no
      BY <3>1 DEF SentIsPending
    <3>4. Unanswered(m)' <=> Unanswered(m)
      BY DEF Unanswered
    <3> QED
      BY <3>2, <3>3, <3>4
  <2> QED
    BY <2>1 DEF SentIsPending
<1>4. SendIsTruthful'
  <2>1. S!ReceivedMeansReplied' /\ S!AnsweredOnce'
    BY DEF SendIsTruthful, S!ReceivedMeansReplied, S!AnsweredOnce
  <2>2. S!FailureHasACause'
    BY DEF SendIsTruthful, S!FailureHasACause
  <2> QED
    BY <2>1, <2>2 DEF SendIsTruthful
<1> QED
  BY <1>1, <1>2, <1>3, <1>4

(* A step in which messages only go out of queues, but for quit and stop   *)
(* messages.                                                               *)
NothingNew(t) ==
    /\ NoneTwice(queue'[t])
    /\ Queued(queue'[t]) \subseteq Queued(queue[t])
    /\ \A i \in DOMAIN queue'[t] : ~Synchronous(queue'[t][i]) => queue'[t][i].no = 0

(* Nobody takes up a message, neither to send it nor to answer it.         *)
NothingTaken ==
    /\ UNCHANGED handling
    /\ \A t \in Senders : sendPC'[t] \in {"sending", "replying"} =>
          sendPC'[t] = sendPC[t] /\ UNCHANGED <<asked[t], target[t]>>

LEMMA FewerUnder ==
    ASSUME MovesInv, \A t \in Senders : NothingNew(t),
           NothingTaken, replied \subseteq replied'
    PROVE  /\ OnePlace' /\ BackIsReplied'
           /\ \A t \in Senders : \A m \in Under(t)' : m \in Under(t)
           /\ \A t \in Senders : \A i \in DOMAIN queue'[t] :
                 ~Synchronous(queue'[t][i]) => queue'[t][i].no = 0
           /\ \A t \in Senders : sendPC'[t] = "sending" => target'[t] # t
<1> USE DEF NothingNew, MovesInv, NothingTaken
<1>1. \A t \in Senders : Held(t)' \subseteq Held(t)
  BY DEF Held
<1>2. \A t \in Senders : \A m \in Under(t)' : m \in Under(t)
  BY <1>1 DEF Under
<1>3. OnePlace'
  <2>1. \A t \in Senders : \A m \in Queued(queue'[t]), n \in Held(t)' : m.no # n.no
    BY <1>1 DEF OnePlace
  <2>2. \A t, u \in Senders : t # u => \A m \in Under(t)', n \in Under(u)' : m.no # n.no
    BY <1>2 DEF OnePlace
  <2>3. \A t \in Senders : NoneTwice(queue'[t])
    OBVIOUS
  <2>4. \A t \in Senders :
          sendPC'[t] = "sending" /\ handling'[t] # NoMessage => handling'[t].no # asked'[t].no
    BY DEF OnePlace
  <2> QED
    BY <2>1, <2>2, <2>3, <2>4, Zenon DEF OnePlace
<1>4. BackIsReplied'
  BY DEF BackIsReplied
<1>5. \A t \in Senders : sendPC'[t] = "sending" => target'[t] # t
  BY DEF Numbers
<1> QED
  BY <1>2, <1>3, <1>4, <1>5

LEMMA SendsPost ==
    ASSUME SendInv, NEW t \in Senders, S!PostQuit(t) \/ S!PostStop(t)
    PROVE  SendInv'
<1> USE DEF SendInv
<1>1. PICK m \in S!Message :
         /\ ~Synchronous(m) /\ m.no = 0
         /\ queue' = [queue EXCEPT ![t] = Append(@, m)] \/ queue' = queue
  <2>1. CASE S!PostQuit(t)
    BY <2>1, MCAssumption DEF S!PostQuit, S!Post, S!Message, S!SyncSendAssumption, Synchronous
  <2>2. CASE S!PostStop(t)
    BY <2>2, MCAssumption DEF S!PostStop, S!Post, S!Message, S!SyncSendAssumption, Synchronous
  <2> QED
    BY <2>1, <2>2
<1>2. /\ UNCHANGED <<sendPC, handling, asked, target, replyId, replied, dropped, returned>>
      /\ quits' \in 0 .. MaxQuits /\ stops' \in 0 .. MaxStops
  BY MCAssumption DEF S!PostQuit, S!PostStop, S!history, S!TypeOK, MovesInv, S!SyncSendAssumption
<1>3. /\ queue \in [Senders -> Seq(S!Message)]
      /\ queue' \in [Senders -> Seq(S!Message)]
      /\ \A u \in Senders : queue'[u] = queue[u] \/ queue'[u] = Append(queue[u], m)
  <2> HIDE DEF S!Message
  <2>1. queue \in [Senders -> Seq(S!Message)]
    BY DEF MovesInv, S!TypeOK
  <2>2. Append(queue[t], m) \in Seq(S!Message)
    BY <2>1
  <2> QED
    BY <1>1, <2>1, <2>2
<1>4. ASSUME NEW u \in Senders
      PROVE  NothingNew(u)
  <2> DEFINE s == queue[u]
             r == queue'[u]
  <2>1. s \in Seq(S!Message)
    BY <1>3
  <2>2. NoneTwice(s) /\ \A i \in DOMAIN s : ~Synchronous(s[i]) => s[i].no = 0
    BY DEF MovesInv, OnePlace, Numbers
  <2>3. r = s \/ r = Append(s, m)
    BY <1>3
  <2>4. CASE r = s
    BY <2>2, <2>4, Zenon DEF NothingNew
  <2>5. CASE r = Append(s, m)
    <3> HIDE DEF s, r, S!Message
    <3>1. WithOne(r, s, m)
      BY <2>1, <2>5, QueuedAppend, Zenon
    <3>2. NoneTwice(r) /\ Queued(r) \subseteq Queued(s)
      BY <1>1, <2>2, <3>1, Zenon DEF WithOne
    <3>3. \A i \in DOMAIN r : ~Synchronous(r[i]) => r[i].no = 0
      <4> HIDE DEF Synchronous
      <4> QED
        BY <1>1, <2>2, <3>1, Zenon DEF WithOne
    <3> QED
      BY <3>2, <3>3, Zenon DEF NothingNew, s, r
  <2> QED
    BY <2>3, <2>4, <2>5
<1>5. /\ OnePlace' /\ BackIsReplied'
      /\ \A u \in Senders : \A n \in Under(u)' : n \in Under(u)
      /\ \A u \in Senders : \A i \in DOMAIN queue'[u] :
            ~Synchronous(queue'[u][i]) => queue'[u][i].no = 0
      /\ \A u \in Senders : sendPC'[u] = "sending" => target'[u] # u
  BY <1>2, <1>4, FewerUnder DEF NothingTaken
<1>6. S!TypeOK'
  BY <1>2, <1>3 DEF MovesInv, S!TypeOK
<1>7. Numbers'
  <2> HIDE DEF Under, Synchronous
  <2> QED
    BY <1>2, <1>5 DEF MovesInv, Numbers, Asking
<1>8. OnlyMoves
  BY <1>2, <1>5 DEF OnlyMoves, Asking
<1> QED
  BY <1>5, <1>6, <1>7, <1>8, MovesKeep DEF MovesInv

LEMMA SendsRunner ==
    ASSUME SendInv, NEW t \in Senders, S!RunnerReceives(t)
    PROVE  SendInv'
<1> USE DEF SendInv
<1>1. /\ sendPC[t] = "runner" /\ queue[t] # <<>>
      /\ queue' = [queue EXCEPT ![t] = Tail(@)]
      /\ sendPC' = [sendPC EXCEPT ![t] = "ended"] \/ sendPC' = sendPC
      /\ UNCHANGED <<handling, asked, target, replyId, quits, stops, replied, returned>>
  BY DEF S!RunnerReceives
<1>2. queue[t] \in Seq(S!Message) /\ NoneTwice(queue[t])
  BY DEF MovesInv, OnePlace, S!TypeOK
<1>3. /\ Tail(queue[t]) \in Seq(S!Message) /\ Head(queue[t]) \in S!Message
      /\ Without(Tail(queue[t]), queue[t], Head(queue[t]))
  BY <1>1, <1>2, QueuedTail, Zenon
<1>4. /\ queue' \in [Senders -> Seq(S!Message)]
      /\ queue'[t] = Tail(queue[t]) /\ \A u \in Senders : u # t => queue'[u] = queue[u]
  <2> HIDE DEF S!Message
  <2>1. queue \in [Senders -> Seq(S!Message)]
    BY DEF MovesInv, S!TypeOK
  <2> QED
    BY <1>1, <1>3, <2>1
<1>5. ASSUME NEW u \in Senders
      PROVE  NothingNew(u)
  <2>1. NoneTwice(queue[u]) /\ \A i \in DOMAIN queue[u] : ~Synchronous(queue[u][i]) => queue[u][i].no = 0
    BY DEF MovesInv, OnePlace, Numbers
  <2> HIDE DEF Synchronous
  <2>2. CASE u = t
    <3>1. Without(queue'[u], queue[u], Head(queue[t]))
      BY <1>3, <1>4, <2>2
    <3>2. \A i \in DOMAIN queue'[u] : \E j \in DOMAIN queue[u] : queue'[u][i] = queue[u][j]
      BY <3>1, Zenon DEF Without
    <3>3. NoneTwice(queue'[u]) /\ Queued(queue'[u]) \subseteq Queued(queue[u])
      BY <2>1, <3>1, Zenon DEF Without
    <3>4. \A i \in DOMAIN queue'[u] : ~Synchronous(queue'[u][i]) => queue'[u][i].no = 0
      BY <2>1, <3>2
    <3> QED
      BY <3>3, <3>4 DEF NothingNew
  <2>3. CASE u # t
    BY <1>4, <2>1, <2>3, Zenon DEF NothingNew
  <2> QED
    BY <2>2, <2>3
<1>6. /\ OnePlace' /\ BackIsReplied'
      /\ \A u \in Senders : \A n \in Under(u)' : n \in Under(u)
      /\ \A u \in Senders : \A i \in DOMAIN queue'[u] :
            ~Synchronous(queue'[u][i]) => queue'[u][i].no = 0
      /\ \A u \in Senders : sendPC'[u] = "sending" => target'[u] # u
  <2>1. sendPC \in [Senders -> States]
    BY DEF MovesInv, S!TypeOK, States
  <2>2. NothingTaken
    BY <1>1, <2>1 DEF NothingTaken
  <2> QED
    BY <1>1, <1>5, <2>2, FewerUnder
<1>7. dropped' \subseteq 1 .. MaxSends /\ dropped \subseteq dropped'
  <2>1. replyId \in 0 .. MaxSends /\ MaxSends \in Nat /\ dropped \subseteq 1 .. MaxSends
    BY MCAssumption DEF MovesInv, S!TypeOK, S!SyncSendAssumption
  <2>2. ASSUME NEW i \in DOMAIN queue[t], queue[t][i].id \in MessageIds
        PROVE  queue[t][i].no \in 1 .. MaxSends
    <3>1. queue[t][i] \in Under(t)
      BY <2>2, Zenon DEF Under, Queued, Synchronous
    <3>2. queue[t][i].no \in 1 .. replyId
      BY <3>1 DEF MovesInv, Numbers
    <3> QED
      BY <2>1, <3>2
  <2>3. \E i \in DOMAIN queue[t] : Head(queue[t]) = queue[t][i]
    BY <1>1, <1>2
  <2>4. \A x \in Range(Tail(queue[t])) : \E i \in DOMAIN queue[t] : x = queue[t][i]
    BY <1>3 DEF Without, Range
  <2>5. \/ dropped' = dropped
        \/ /\ Head(queue[t]).id \in MessageIds
           /\ dropped' = dropped \cup {Head(queue[t]).no}
        \/ dropped' = dropped \cup {n.no : n \in {x \in Range(Tail(queue[t])) :
                                                 x.id \in MessageIds}}
    BY DEF S!RunnerReceives, S!Range, Range
  <2>6. \A x \in Range(Tail(queue[t])) : x.id \in MessageIds => x.no \in 1 .. MaxSends
    BY <2>2, <2>4
  <2>7. Head(queue[t]).id \in MessageIds => Head(queue[t]).no \in 1 .. MaxSends
    BY <2>2, <2>3
  <2> QED
    BY <2>1, <2>5, <2>6, <2>7
<1>8. S!TypeOK'
  BY <1>1, <1>4, <1>7 DEF MovesInv, S!TypeOK
<1>9. \A u \in Senders : Asking(u)' <=> Asking(u)
  BY <1>1 DEF MovesInv, S!TypeOK, Asking
<1>10. Numbers'
  <2> HIDE DEF Under, Synchronous, Asking
  <2> QED
    BY <1>1, <1>6, <1>9 DEF MovesInv, Numbers
<1>11. OnlyMoves
  BY <1>1, <1>6, <1>7, <1>9 DEF OnlyMoves
<1> QED
  BY <1>6, <1>8, <1>10, <1>11, MovesKeep DEF MovesInv

LEMMA SendsRun ==
    ASSUME SendInv, NEW t \in Senders, S!RunReceives(t)
    PROVE  SendInv'
<1> USE DEF SendInv
<1> DEFINE m == Head(queue[t])
<1>1. /\ sendPC[t] = "run" /\ queue[t] # <<>> /\ handling[t] = NoMessage
      /\ queue' = [queue EXCEPT ![t] = Tail(@)]
      /\ sendPC' = [sendPC EXCEPT ![t] = "runner"] \/ sendPC' = sendPC
      /\ \/ m.id \in MessageIds /\ handling' = [handling EXCEPT ![t] = m]
         \/ m.id \notin MessageIds /\ handling' = handling
      /\ UNCHANGED <<asked, target, replyId, quits, stops, replied, dropped, returned>>
  BY DEF S!RunReceives, S!history
<1>2. queue[t] \in Seq(S!Message)
  BY DEF MovesInv, S!TypeOK
<1>3. Tail(queue[t]) \in Seq(S!Message) /\ m \in S!Message /\ Without(Tail(queue[t]), queue[t], m)
  BY <1>1, <1>2, QueuedTail, Zenon
<1> HIDE DEF m
<1>4. /\ queue' \in [Senders -> Seq(S!Message)]
      /\ handling' \in [Senders -> S!Message \cup {NoMessage}]
      /\ queue'[t] = Tail(queue[t]) /\ \A u \in Senders : u # t => queue'[u] = queue[u]
      /\ handling'[t] = IF Synchronous(m) THEN m ELSE NoMessage
      /\ \A u \in Senders : u # t => handling'[u] = handling[u]
  <2> HIDE DEF S!Message
  <2>1. /\ queue \in [Senders -> Seq(S!Message)]
        /\ handling \in [Senders -> S!Message \cup {NoMessage}]
    BY DEF MovesInv, S!TypeOK
  <2> QED
    BY <1>1, <1>3, <2>1 DEF Synchronous
<1>m. m # NoMessage
  BY <1>3, MessageParts
<1> HIDE DEF Synchronous, S!Message
<1>5. \A u \in Senders : /\ NoneTwice(queue[u]) /\ Queued(queue'[u]) \subseteq Queued(queue[u])
                         /\ NoneTwice(queue'[u])
  <2>1. \A u \in Senders : NoneTwice(queue[u])
    BY DEF MovesInv, OnePlace
  <2>2. Queued(queue'[t]) \subseteq Queued(queue[t]) /\ NoneTwice(queue'[t])
    BY <1>3, <1>4, <2>1, Zenon DEF Without
  <2> QED
    BY <1>4, <2>1, <2>2
<1>6. Synchronous(m) => m \in Queued(queue[t]) /\ \A n \in Queued(queue'[t]) : n.no # m.no
  BY <1>3, <1>4, <1>5, Zenon DEF Without
<1>p. /\ sendPC'[t] \in {"run", "runner"}
      /\ \A u \in Senders : u # t => sendPC'[u] = sendPC[u]
  BY <1>1 DEF MovesInv, S!TypeOK
<1>7. /\ Held(t)' = (IF Synchronous(m) THEN {m} ELSE {})
      /\ \A u \in Senders : u # t => Held(u)' = Held(u)
  BY <1>1, <1>4, <1>m, <1>p DEF Held
<1>8. \A u \in Senders : \A n \in Under(u)' : n \in Under(u)
  BY <1>5, <1>6, <1>7 DEF Under
<1>9. OnePlace'
  <2>1. \A u \in Senders : \A n \in Queued(queue'[u]), k \in Held(u)' : n.no # k.no
    BY <1>5, <1>6, <1>7 DEF MovesInv, OnePlace
  <2>2. \A u, v \in Senders : u # v => \A n \in Under(u)', k \in Under(v)' : n.no # k.no
    BY <1>8 DEF MovesInv, OnePlace
  <2>3. \A u \in Senders :
          sendPC'[u] = "sending" /\ handling'[u] # NoMessage => handling'[u].no # asked'[u].no
    BY <1>1, <1>4, <1>p DEF MovesInv, OnePlace
  <2> QED
    BY <1>5, <2>1, <2>2, <2>3, Zenon DEF OnePlace
<1>10. BackIsReplied'
  BY <1>1, <1>4, <1>5, <1>p DEF MovesInv, BackIsReplied
<1>11. S!TypeOK'
  BY <1>1, <1>4 DEF MovesInv, S!TypeOK
<1>12. \A u \in Senders : Asking(u)' <=> Asking(u)
  BY <1>1, <1>p DEF Asking
<1>13. Numbers'
  <2>1. ASSUME NEW u \in Senders, NEW i \in DOMAIN queue'[u]
        PROVE  \E j \in DOMAIN queue[u] : queue'[u][i] = queue[u][j]
    <3>1. CASE u = t
      BY <1>3, <1>4, <2>1, <3>1, Zenon DEF Without
    <3>2. CASE u # t
      BY <1>4, <2>1, <3>2
    <3> QED
      BY <3>1, <3>2
  <2>2. \A u \in Senders : sendPC'[u] = "sending" => target'[u] # u
    BY <1>1, <1>p DEF MovesInv, Numbers
  <2> HIDE DEF Under, Asking
  <2> QED
    BY <1>1, <1>8, <1>12, <2>1, <2>2 DEF MovesInv, Numbers
<1>14. OnlyMoves
  BY <1>1, <1>8, <1>12 DEF OnlyMoves
<1> QED
  BY <1>9, <1>10, <1>11, <1>13, <1>14, MovesKeep DEF MovesInv

(* AddMessage of what t has in hand, to the queue of f. *)
LEMMA MessageGoes ==
    ASSUME SendInv, NEW t \in Senders, NEW f \in Senders, NEW m \in Held(t),
           m.from = f => m.no \in replied,
           S!AddMessage(f, m),
           Held(t)' \subseteq Held(t), \A n \in Held(t)' : n.no # m.no,
           \A u \in Senders : u # t => handling'[u] = handling[u] /\ sendPC'[u] = sendPC[u],
           handling' \in [Senders -> S!Message \cup {NoMessage}],
           sendPC' \in [Senders -> States], sendPC'[t] \notin {"sending", "replying"},
           Asking(t)' <=> Asking(t),
           UNCHANGED <<asked, target, replyId, quits, stops, replied, returned>>
    PROVE  SendInv'
<1> USE DEF SendInv
<1>1. m \in Under(t) /\ m \in S!Message
  BY UnderTyped DEF Under, MovesInv
<1>3. /\ queue' = [queue EXCEPT ![f] = Append(@, m)]
      /\ dropped' = dropped \/ dropped' = dropped \cup {m.no}
  BY DEF S!AddMessage
<1>4. Synchronous(m) /\ m.no \in 1 .. replyId
  <2> HIDE DEF Synchronous, Under
  <2> QED
    BY <1>1 DEF MovesInv, Numbers
<1>5. queue \in [Senders -> Seq(S!Message)]
  BY DEF MovesInv, S!TypeOK
<1>6. Append(queue[f], m) \in Seq(S!Message) /\ WithOne(Append(queue[f], m), queue[f], m)
  <2>1. queue[f] \in Seq(S!Message)
    BY <1>5
  <2> QED
    BY <1>1, <2>1, QueuedAppend, Zenon
<1> HIDE DEF S!Message, Synchronous
<1>7. /\ queue' \in [Senders -> Seq(S!Message)]
      /\ \A u \in Senders : u # f => queue'[u] = queue[u]
      /\ queue'[f] = Append(queue[f], m)
  BY <1>3, <1>5, <1>6
<1>8. \A u \in Senders : u # t => Held(u)' = Held(u)
  BY DEF Held
<1>9. \A u \in Senders : u # f => Queued(queue'[u]) = Queued(queue[u])
  BY <1>7
<1>10. \A n \in Queued(queue'[f]) : n \in Queued(queue[f]) \/ n = m
  BY <1>6, <1>7 DEF WithOne
<1> HIDE DEF Held, Asking
<1>11. /\ \A n \in Queued(queue[t]) : n.no # m.no
       /\ \A u \in Senders : u # t => \A n \in Under(u) : n.no # m.no /\ m.no # n.no
  BY <1>1 DEF MovesInv, OnePlace
<1>12. \A n \in Queued(queue[f]) : n.no # m.no
  BY <1>11 DEF Under
<1>13. \A u \in Senders : NoneTwice(queue'[u])
  <2>1. \A u \in Senders : NoneTwice(queue[u])
    BY DEF MovesInv, OnePlace
  <2>2. NoneTwice(Append(queue[f], m))
    BY <1>6, <1>12, <2>1, Zenon DEF WithOne
  <2> QED
    BY <1>7, <2>1, <2>2
<1>14. OnePlace'
  <2>1. ASSUME NEW u \in Senders, NEW n \in Queued(queue'[u]), NEW k \in Held(u)'
        PROVE  n.no # k.no
    <3>1. k \in Held(u)
      BY <1>8, <2>1
    <3>2. CASE n \in Queued(queue[u])
      BY <3>1, <3>2 DEF MovesInv, OnePlace
    <3>3. CASE n = m
      BY <1>8, <1>11, <2>1, <3>3 DEF Under
    <3> QED
      BY <1>9, <1>10, <2>1, <3>2, <3>3
  <2>2. \A u, v \in Senders : u # v => \A n \in Under(u), k \in Under(v) : n.no # k.no
    BY DEF MovesInv, OnePlace
  <2>3. ASSUME NEW u \in Senders, NEW v \in Senders, u # v, u = f, NEW k \in Under(v)'
        PROVE  k.no # m.no
    <3>1. k \in Queued(queue[v]) \/ k \in Held(v)'
      BY <1>9, <2>3 DEF Under
    <3>2. CASE v = t
      BY <1>11, <3>1, <3>2
    <3>3. CASE v # t
      BY <1>8, <1>11, <3>1, <3>3 DEF Under
    <3> QED
      BY <3>2, <3>3
  <2>4. \A u \in Senders : \A n \in Under(u)' : n \in Under(u) \/ (n = m /\ u = f)
    BY <1>8, <1>9, <1>10 DEF Under
  <2>5. \A u, v \in Senders : u # v => \A n \in Under(u)', k \in Under(v)' : n.no # k.no
    <3> HIDE DEF Under
    <3> QED
      BY <2>2, <2>3, <2>4
  <2>6. \A u \in Senders :
          sendPC'[u] = "sending" /\ handling'[u] # NoMessage => handling'[u].no # asked'[u].no
    BY DEF MovesInv, OnePlace
  <2> QED
    BY <1>13, <2>1, <2>5, <2>6, Zenon DEF OnePlace
<1>15. \A u \in Senders : \A n \in Under(u)' : \E v \in Senders : n \in Under(v)
  <2>1. \A u \in Senders : \A n \in Under(u)' : n \in Under(u) \/ n = m
    BY <1>8, <1>9, <1>10 DEF Under
  <2> HIDE DEF Under
  <2> QED
    BY <1>1, <2>1
<1>16. BackIsReplied'
  BY <1>9, <1>10 DEF MovesInv, BackIsReplied
<1>17. S!TypeOK'
  <2>1. dropped' \subseteq 1 .. MaxSends
    <3>1. replyId \in 0 .. MaxSends /\ MaxSends \in Nat /\ dropped \subseteq 1 .. MaxSends
      BY MCAssumption DEF MovesInv, S!TypeOK, S!SyncSendAssumption
    <3>2. m.no \in 1 .. MaxSends
      BY <1>4, <3>1
    <3> QED
      BY <1>3, <3>1, <3>2
  <2> QED
    BY <1>7, <2>1 DEF MovesInv, S!TypeOK, States
<1>s. \A u \in Senders : Asking(u)' <=> Asking(u)
  <2>1. \A u \in Senders : u # t => (Asking(u)' <=> Asking(u))
    BY DEF Asking
  <2> QED
    BY <2>1
<1>18. Numbers'
  <2>1. ASSUME NEW u \in Senders, NEW i \in DOMAIN queue'[u]
        PROVE  queue'[u][i] = m \/ \E j \in DOMAIN queue[u] : queue'[u][i] = queue[u][j]
    <3>1. CASE u # f
      BY <1>7, <2>1, <3>1
    <3>2. CASE u = f
      BY <1>6, <1>7, <2>1, <3>2, Zenon DEF WithOne
    <3> QED
      BY <3>1, <3>2
  <2>2. \A u \in Senders : sendPC'[u] = "sending" => target'[u] # u
    BY DEF MovesInv, Numbers
  <2> HIDE DEF Under
  <2> QED
    BY <1>4, <1>15, <1>s, <2>1, <2>2 DEF MovesInv, Numbers
<1>19. OnlyMoves
  BY <1>3, <1>15, <1>s DEF OnlyMoves
<1> QED
  BY <1>14, <1>16, <1>17, <1>18, <1>19, MovesKeep DEF MovesInv

LEMMA SendsRequest ==
    ASSUME SendInv, NEW t \in Senders, S!AddRequest(t)
    PROVE  SendInv'
<1> USE DEF SendInv
<1>1. /\ sendPC[t] = "sending"
      /\ S!AddMessage(target[t], asked[t])
      /\ sendPC' = [sendPC EXCEPT ![t] = "wait"]
      /\ UNCHANGED <<handling, asked, target, replyId, quits, stops, replied, returned>>
  BY DEF S!AddRequest
<1>2. /\ sendPC \in [Senders -> States] /\ target[t] \in Senders
      /\ handling \in [Senders -> S!Message \cup {NoMessage}]
  BY DEF MovesInv, S!TypeOK, States
<1>3. asked[t] \in Held(t) /\ asked[t].from = t /\ target[t] # t
  BY <1>1 DEF Held, MovesInv, Numbers, Asking
<1>4. /\ Held(t)' \subseteq Held(t)
      /\ \A n \in Held(t)' : n.no # asked[t].no
  BY <1>1, <1>2 DEF Held, MovesInv, OnePlace
<1>5. /\ \A u \in Senders : u # t => sendPC'[u] = sendPC[u]
      /\ sendPC' \in [Senders -> States] /\ sendPC'[t] = "wait"
  BY <1>1, <1>2 DEF States
<1>6. Asking(t)' <=> Asking(t)
  BY <1>1, <1>5 DEF Asking
<1> HIDE DEF SendInv
<1> QED
  BY <1>1, <1>2, <1>3, <1>4, <1>5, <1>6, MessageGoes

LEMMA SendsAddReply ==
    ASSUME SendInv, NEW t \in Senders, S!AddReply(t)
    PROVE  SendInv'
<1> USE DEF SendInv
<1>1. /\ sendPC[t] = "replying"
      /\ S!AddMessage(handling[t].from, handling[t])
      /\ sendPC' = [sendPC EXCEPT ![t] = "run"]
      /\ handling' = [handling EXCEPT ![t] = NoMessage]
      /\ UNCHANGED <<asked, target, replyId, quits, stops, replied, returned>>
  BY DEF S!AddReply, S!Asker
<1>2. /\ sendPC \in [Senders -> States]
      /\ handling \in [Senders -> S!Message \cup {NoMessage}]
  BY DEF MovesInv, S!TypeOK, States
<1>3. /\ handling[t] # NoMessage /\ handling[t].no \in replied
      /\ handling[t] \in S!Message
  BY <1>1, <1>2 DEF MovesInv, BackIsReplied
<1>4. handling[t] \in Held(t) /\ handling[t].from \in Senders
  BY <1>3, MessageParts DEF Held
<1>5. /\ \A u \in Senders : u # t => sendPC'[u] = sendPC[u] /\ handling'[u] = handling[u]
      /\ sendPC' \in [Senders -> States] /\ sendPC'[t] = "run"
      /\ handling' \in [Senders -> S!Message \cup {NoMessage}]
      /\ handling'[t] = NoMessage
  <2> HIDE DEF S!Message
  <2> QED
    BY <1>1, <1>2 DEF States
<1>6. Held(t)' = {}
  BY <1>5 DEF Held
<1>7. Asking(t)' <=> Asking(t)
  BY <1>1, <1>5 DEF Asking
<1> HIDE DEF SendInv
<1> QED
  BY <1>1, <1>3, <1>4, <1>5, <1>6, <1>7, MessageGoes

(* An answer that is on its way, or refused by an asker that has ended.    *)
LEMMA SendsReply ==
    ASSUME SendInv, NEW t \in Senders, S!SendReplyThreadMessage(t)
    PROVE  SendInv'
<1> USE DEF SendInv
<1>1. /\ sendPC[t] = "run" /\ handling[t] # NoMessage
      /\ replied' = replied \cup {handling[t].no}
      /\ UNCHANGED <<queue, asked, target, replyId, quits, stops, dropped, returned>>
      /\ \/ sendPC' = sendPC /\ handling' = [handling EXCEPT ![t] = NoMessage]
         \/ sendPC' = [sendPC EXCEPT ![t] = "replying"] /\ handling' = handling
  BY DEF S!SendReplyThreadMessage
<1>2. /\ sendPC \in [Senders -> States]
      /\ handling \in [Senders -> S!Message \cup {NoMessage}]
      /\ handling[t] \in S!Message
  BY <1>1 DEF MovesInv, S!TypeOK, States
<1> HIDE DEF S!Message
<1>3. /\ sendPC' \in [Senders -> States]
      /\ handling' \in [Senders -> S!Message \cup {NoMessage}]
      /\ \A u \in Senders : u # t => sendPC'[u] = sendPC[u] /\ handling'[u] = handling[u]
      /\ \/ sendPC'[t] = "run" /\ handling'[t] = NoMessage
         \/ sendPC'[t] = "replying" /\ handling'[t] = handling[t]
  BY <1>1, <1>2 DEF States
<1>4. \A u \in Senders : Held(u)' \subseteq Held(u)
  BY <1>1, <1>3 DEF Held
<1>5. \A u \in Senders : \A n \in Under(u)' : n \in Under(u)
  BY <1>1, <1>4 DEF Under
<1>6. handling[t].no \in 1 .. replyId
  <2>1. handling[t] \in Under(t)
    BY <1>1 DEF Under, Held
  <2> HIDE DEF Under, Synchronous
  <2> QED
    BY <2>1 DEF MovesInv, Numbers
<1>7. S!TypeOK'
  <2>1. replied' \subseteq 1 .. MaxSends
    <3>1. replyId \in 0 .. MaxSends /\ MaxSends \in Nat /\ replied \subseteq 1 .. MaxSends
      BY MCAssumption DEF MovesInv, S!TypeOK, S!SyncSendAssumption
    <3>2. handling[t].no \in 1 .. MaxSends
      BY <1>6, <3>1
    <3> QED
      BY <1>1, <3>1, <3>2
  <2> QED
    BY <1>1, <1>3, <2>1 DEF MovesInv, S!TypeOK, States
<1>8. \A u \in Senders : Asking(u)' <=> Asking(u)
  BY <1>1, <1>3 DEF Asking
<1>9. OnePlace'
  <2>1. \A u \in Senders : \A n \in Queued(queue'[u]), k \in Held(u)' : n.no # k.no
    BY <1>1, <1>4 DEF MovesInv, OnePlace
  <2>2. \A u, v \in Senders : u # v => \A n \in Under(u)', k \in Under(v)' : n.no # k.no
    BY <1>5 DEF MovesInv, OnePlace
  <2>3. \A u \in Senders :
          sendPC'[u] = "sending" /\ handling'[u] # NoMessage => handling'[u].no # asked'[u].no
    BY <1>1, <1>3 DEF MovesInv, OnePlace
  <2>4. \A u \in Senders : NoneTwice(queue'[u])
    BY <1>1 DEF MovesInv, OnePlace
  <2> QED
    BY <2>1, <2>2, <2>3, <2>4, Zenon DEF OnePlace
<1>10. BackIsReplied'
  BY <1>1, <1>3 DEF MovesInv, BackIsReplied
<1>11. Numbers'
  <2>1. \A u \in Senders : sendPC'[u] = "sending" => target'[u] # u
    BY <1>1, <1>3 DEF MovesInv, Numbers
  <2> HIDE DEF Under, Asking, Synchronous
  <2> QED
    BY <1>1, <1>5, <1>8, <2>1 DEF MovesInv, Numbers
<1>12. OnlyMoves
  BY <1>1, <1>5, <1>8 DEF OnlyMoves
<1> QED
  BY <1>7, <1>9, <1>10, <1>11, <1>12, MovesKeep DEF MovesInv

LEMMA SendsAnswer ==
    ASSUME SendInv, NEW t \in Senders, S!GetAnswer(t)
    PROVE  SendInv'
<1> USE DEF SendInv
<1> DEFINE a == asked[t]
<1>1. PICK i \in S!Answers(t) :
        /\ queue' = [queue EXCEPT ![t] = S!Removed(t, i)]
        /\ S!Note(t, S!Result(t, queue[t][i]), queue[t][i].no)
        /\ dropped' = IF queue[t][i].id # QUIT /\ queue[t][i].from # t
                         THEN dropped \cup {queue[t][i].no} ELSE dropped
  BY DEF S!GetAnswer
<1> DEFINE m == queue[t][i]
           new == [no |-> a.no, by |-> t, result |-> S!Result(t, m), got |-> m.no]
<1>2. /\ sendPC[t] = "wait"
      /\ i \in DOMAIN queue[t] /\ m.id \in {QUIT, a.id}
      /\ queue' = [queue EXCEPT ![t] = RemoveAt(queue[t], i)]
      /\ returned' = returned \cup {new}
      /\ dropped' = dropped \/ dropped' = dropped \cup {m.no}
      /\ m.id # QUIT /\ m.from # t => m.no \in dropped'
      /\ m.id = QUIT => dropped' = dropped
      /\ sendPC' = [sendPC EXCEPT ![t] = "run"]
      /\ asked' = [asked EXCEPT ![t] = NoMessage]
      /\ UNCHANGED <<handling, target, replyId, quits, stops, replied>>
  BY <1>1 DEF S!GetAnswer, S!Answers, S!Removed, S!Note, S!RemoveAt, RemoveAt
<1>3. /\ a \in S!Message /\ a.from = t /\ a.id \in MessageIds /\ a.no \in 1 .. replyId
      /\ a.id # QUIT /\ QUIT \notin MessageIds
  BY <1>2, MCAssumption DEF MovesInv, Numbers, Asking, Synchronous, S!SyncSendAssumption
<1>4. /\ \/ m.id = QUIT /\ S!Result(t, m) = "MSG_QUIT_RECEIVED"
         \/ m.id # QUIT /\ m.no = a.no /\ S!Result(t, m) = "MSG_RECEIVED"
         \/ m.id # QUIT /\ m.no # a.no /\ S!Result(t, m) = "MSG_RECEIVE_FAILED"
      /\ Synchronous(m) <=> m.id # QUIT
  BY <1>2, <1>3 DEF S!Result, Synchronous
<1>5. /\ new.no = a.no /\ new.by = t /\ new.result = S!Result(t, m) /\ new.got = m.no
  OBVIOUS
<1>6. queue[t] \in Seq(S!Message) /\ m \in S!Message
  <2>1. queue[t] \in Seq(S!Message)
    BY DEF MovesInv, S!TypeOK
  <2> QED
    BY <1>2, <2>1
<1>7. RemoveAt(queue[t], i) \in Seq(S!Message) /\ Without(RemoveAt(queue[t], i), queue[t], m)
  <2>1. i \in 1 .. Len(queue[t])
    BY <1>2, <1>6
  <2> QED
    BY <1>6, <2>1, QueuedRemoveAt, Zenon
<1>8. ~Synchronous(m) => m.no = 0
  BY <1>2 DEF MovesInv, Numbers
<1>9. new \in S!Return /\ dropped' \subseteq 1 .. MaxSends
  <2>1. replyId \in 0 .. MaxSends /\ MaxSends \in Nat /\ dropped \subseteq 1 .. MaxSends
    BY MCAssumption DEF MovesInv, S!TypeOK, S!SyncSendAssumption
  <2>2. Synchronous(m) => m.no \in 1 .. replyId
    <3>1. Synchronous(m) => m \in Under(t)
      BY <1>7, Zenon DEF Without, Under
    <3> HIDE DEF m, Under, Synchronous
    <3> QED
      BY <3>1 DEF MovesInv, Numbers
  <2>3. m.no \in 0 .. MaxSends /\ (m.id # QUIT => m.no \in 1 .. MaxSends)
    BY <1>4, <1>8, <2>1, <2>2
  <2>4. a.no \in 1 .. MaxSends /\ S!Result(t, m) \in S!Results
    BY <1>3, <1>4, <2>1 DEF S!Results
  <2>5. new \in S!Return
    BY <2>3, <2>4 DEF S!Return
  <2> QED
    BY <1>2, <2>1, <2>3, <2>5
<1> HIDE DEF m, a, new, S!Message, Synchronous
<1>10. /\ queue' \in [Senders -> Seq(S!Message)]
       /\ queue'[t] = RemoveAt(queue[t], i) /\ \A u \in Senders : u # t => queue'[u] = queue[u]
       /\ asked' \in [Senders -> S!Message \cup {NoMessage}]
       /\ sendPC'[t] = "run"
       /\ \A u \in Senders : u # t => sendPC'[u] = sendPC[u] /\ asked'[u] = asked[u]
  <2>1. /\ queue \in [Senders -> Seq(S!Message)] /\ sendPC \in [Senders -> States]
        /\ asked \in [Senders -> S!Message \cup {NoMessage}]
    BY DEF MovesInv, S!TypeOK, States
  <2> QED
    BY <1>2, <1>7, <2>1 DEF States
<1>11. ASSUME NEW u \in Senders
       PROVE  NothingNew(u)
  <2>1. NoneTwice(queue[u]) /\ \A j \in DOMAIN queue[u] : ~Synchronous(queue[u][j]) => queue[u][j].no = 0
    BY DEF MovesInv, OnePlace, Numbers
  <2>2. CASE u = t
    <3>1. Without(queue'[u], queue[u], m)
      BY <1>7, <1>10, <2>2
    <3>2. \A k \in DOMAIN queue'[u] : \E j \in DOMAIN queue[u] : queue'[u][k] = queue[u][j]
      BY <3>1, Zenon DEF Without
    <3>3. NoneTwice(queue'[u]) /\ Queued(queue'[u]) \subseteq Queued(queue[u])
      BY <2>1, <3>1, Zenon DEF Without
    <3>4. \A k \in DOMAIN queue'[u] : ~Synchronous(queue'[u][k]) => queue'[u][k].no = 0
      BY <2>1, <3>2
    <3> QED
      BY <3>3, <3>4 DEF NothingNew
  <2>3. CASE u # t
    BY <1>10, <2>1, <2>3, Zenon DEF NothingNew
  <2> QED
    BY <2>2, <2>3
<1>12. /\ OnePlace' /\ BackIsReplied'
       /\ \A u \in Senders : \A n \in Under(u)' : n \in Under(u)
       /\ \A u \in Senders : \A k \in DOMAIN queue'[u] :
             ~Synchronous(queue'[u][k]) => queue'[u][k].no = 0
       /\ \A u \in Senders : sendPC'[u] = "sending" => target'[u] # u
  <2>1. NothingTaken
    BY <1>2, <1>10 DEF NothingTaken
  <2> QED
    BY <1>2, <1>11, <2>1, FewerUnder
<1>a. /\ Asking(t) /\ ~Asking(t)'
      /\ \A u \in Senders : u # t => (Asking(u)' <=> Asking(u))
  BY <1>2, <1>10 DEF Asking
<1>h. Held(t)' \subseteq Held(t)
  BY <1>2, <1>10 DEF Held
<1>13. Synchronous(m) => /\ m \in Queued(queue[t]) /\ m \in Under(t)
                         /\ \A u \in Senders : \A n \in Under(u)' : n.no # m.no
  <2> SUFFICES ASSUME Synchronous(m)
               PROVE  /\ m \in Queued(queue[t]) /\ m \in Under(t)
                      /\ \A u \in Senders : \A n \in Under(u)' : n.no # m.no
    OBVIOUS
  <2>1. m \in Queued(queue[t]) /\ m \in Under(t)
    BY <1>7, Zenon DEF Without, Under
  <2>2. \A n \in Queued(queue'[t]) : n.no # m.no
    BY <1>7, <1>10, Zenon DEF Without, MovesInv, OnePlace
  <2>3. \A n \in Held(t)' : n.no # m.no
    BY <1>h, <2>1 DEF MovesInv, OnePlace
  <2>4. ASSUME NEW u \in Senders, NEW n \in Under(u)', u # t
        PROVE  n.no # m.no
    <3> HIDE DEF Under
    <3> QED
      BY <1>12, <2>1, <2>4 DEF MovesInv, OnePlace
  <2>5. \A n \in Under(t)' : n.no # m.no
    BY <2>2, <2>3 DEF Under
  <2> QED
    BY <2>1, <2>4, <2>5
<1> HIDE DEF Under, Asking
<1>14. S!TypeOK'
  BY <1>2, <1>9, <1>10 DEF MovesInv, S!TypeOK
<1>15. Numbers'
  BY <1>2, <1>10, <1>12, <1>a DEF MovesInv, Numbers
<1>16. AskedIsOwn'
  <2>1. ASSUME NEW w \in Senders, NEW u \in Senders, NEW n \in Under(u)',
               Asking(w)', n.no = asked'[w].no
        PROVE  n.from = w
    <3>1. n \in Under(u) /\ w # t
      BY <1>12, <1>a, <2>1
    <3>2. Asking(w) /\ n.no = asked[w].no
      BY <1>10, <1>a, <2>1, <3>1
    <3> QED
      BY <3>1, <3>2, Zenon DEF AskedIsOwn
  <2> QED
    BY <2>1 DEF AskedIsOwn
<1>17. GotIsGone'
  <2>1. new.got \in 0 .. replyId
    BY <1>5, <1>8, <1>13, MCAssumption DEF MovesInv, Numbers, S!TypeOK, S!SyncSendAssumption
  <2>2. /\ new.no \in 1 .. replyId
        /\ new.got # 0 => \A u \in Senders : \A n \in Under(u)' : n.no # new.got
    BY <1>3, <1>5, <1>8, <1>13
  <2> QED
    BY <1>2, <1>12, <2>1, <2>2 DEF GotIsGone
<1>18. SentIsPending'
  <2>1. ASSUME NEW u \in Senders, NEW n \in Under(u)'
        PROVE  \/ Unanswered(n)' /\ (Asking(n.from)' => n.no < asked'[n.from].no)
               \/ Asking(n.from)' /\ n.no = asked'[n.from].no
    <3>1. n \in Under(u) /\ n.from \in Senders
      BY <1>12, <2>1, UnderTyped, MessageParts DEF MovesInv
    <3>2. \/ Unanswered(n) /\ (Asking(n.from) => n.no < asked[n.from].no)
          \/ Asking(n.from) /\ n.no = asked[n.from].no
      BY <3>1 DEF SentIsPending
    <3>3. Unanswered(n) => Unanswered(n)'
      BY <1>2 DEF Unanswered
    <3>4. CASE n.from # t
      BY <1>10, <1>a, <3>1, <3>2, <3>3, <3>4
    <3>5. CASE n.from = t
      <4>1. ASSUME n.no = a.no
            PROVE  Unanswered(n)'
        <5>1. new.result # "MSG_RECEIVED"
          BY <1>4, <1>5, <1>13, <2>1, <4>1
        <5> QED
          BY <1>2, <1>5, <3>5, <4>1, <5>1 DEF Unanswered
      <4> QED
        BY <1>10, <1>a, <3>2, <3>3, <3>5, <4>1 DEF a
    <3> QED
      BY <3>4, <3>5
  <2> QED
    BY <2>1 DEF SentIsPending
<1>19. SendIsTruthful'
  <2>1. S!ReceivedMeansReplied'
    <3>1. new.result = "MSG_RECEIVED" => new.got = new.no /\ new.no \in replied
      BY <1>2, <1>4, <1>5, <1>13, <1>a DEF MovesInv, AskedIsOwn, BackIsReplied, a
    <3> QED
      BY <1>2, <3>1 DEF SendIsTruthful, S!ReceivedMeansReplied
  <2>2. S!AnsweredOnce'
    <3>1. \A q \in returned : q.got # 0 => m.no # q.got
      BY <1>8, <1>13 DEF GotIsGone
    <3>2. \A q \in returned : q.result = "MSG_RECEIVED" => q.got # 0 /\ new.got # q.got
      BY <1>5, <3>1 DEF SendIsTruthful, S!ReceivedMeansReplied, GotIsGone
    <3>3. new.result = "MSG_RECEIVED" => \A q \in returned : q.got # new.got
      BY <1>3, <1>4, <1>5, <3>1
    <3> QED
      BY <1>2, <3>2, <3>3 DEF SendIsTruthful, S!AnsweredOnce
  <2>3. S!FailureHasACause'
    <3>1. ASSUME new.result = "MSG_RECEIVE_FAILED"
          PROVE  \/ new.got \in dropped'
                 \/ /\ new.got < new.no
                    /\ \E q \in returned : q.no = new.got /\ q.by = new.by /\ q.result # "MSG_RECEIVED"
      <4>1. m.id # QUIT /\ m.no # a.no /\ m \in Under(t)
        BY <1>4, <1>5, <1>13, <3>1
      <4>2. CASE m.from = t
        <5>1. Unanswered(m) /\ m.no < a.no
          BY <1>a, <4>1, <4>2 DEF SentIsPending, a
        <5> QED
          BY <1>5, <4>2, <5>1 DEF Unanswered
      <4>3. CASE m.from # t
        BY <1>2, <1>5, <4>1, <4>3
      <4> QED
        BY <4>2, <4>3
    <3>2. \A r \in returned : r.result = "MSG_RECEIVE_FAILED" /\ r.got # 0 =>
            \/ r.got \in dropped
            \/ /\ r.got < r.no
               /\ \E q \in returned : q.no = r.got /\ q.by = r.by /\ q.result # "MSG_RECEIVED"
      BY DEF SendIsTruthful, S!FailureHasACause
    <3>3. returned' = returned \cup {new} /\ dropped \subseteq dropped'
      BY <1>2
    <3> QED
      BY <3>1, <3>2, <3>3 DEF S!FailureHasACause
  <2> QED
    BY <2>1, <2>2, <2>3 DEF SendIsTruthful
<1> QED
  BY <1>12, <1>14, <1>15, <1>16, <1>17, <1>18, <1>19 DEF MovesInv

LEMMA SendsBegin ==
    ASSUME SendInv, NEW t \in Senders, NEW u \in Senders, S!SendSyncThreadMessage(t, u)
    PROVE  SendInv'
<1> USE DEF SendInv
<1> DEFINE failed == [no |-> replyId + 1, by |-> t, got |-> 0, result |-> "MSG_RECEIVE_FAILED"]
           request(id) == [id |-> id, no |-> replyId + 1, from |-> t]
<1>1. PICK id \in MessageIds :
        /\ sendPC[t] = "run" /\ t # u /\ replyId < MaxSends /\ replyId' = replyId + 1
        /\ UNCHANGED <<queue, handling, quits, stops, replied, dropped>>
        /\ \/ returned' = returned \cup {failed} /\ UNCHANGED <<sendPC, asked, target>>
           \/ /\ sendPC' = [sendPC EXCEPT ![t] = "sending"]
              /\ asked' = [asked EXCEPT ![t] = request(id)]
              /\ target' = [target EXCEPT ![t] = u]
              /\ returned' = returned
  <2>1. /\ sendPC[t] = "run" /\ t # u /\ replyId < MaxSends /\ replyId' = replyId + 1
        /\ UNCHANGED <<queue, handling, quits, stops, replied, dropped>>
    BY MCAssumption DEF S!SendSyncThreadMessage, S!SyncSendAssumption
  <2>2. MessageIds # {}
    BY MCAssumption DEF S!SyncSendAssumption
  <2> QED
    BY <2>1, <2>2 DEF S!SendSyncThreadMessage
<1> DEFINE m == request(id)
<1>2. /\ sendPC[t] = "run" /\ t # u /\ replyId < MaxSends /\ replyId' = replyId + 1
      /\ UNCHANGED <<queue, handling, quits, stops, replied, dropped>>
  BY <1>1
<1>3. /\ replyId \in Nat /\ MaxSends \in Nat /\ replyId + 1 \in 1 .. MaxSends
      /\ replyId' \in 0 .. MaxSends
  BY <1>2, MCAssumption DEF MovesInv, S!TypeOK, S!SyncSendAssumption
<1>4. m \in S!Message /\ m.no = replyId + 1 /\ m.from = t /\ Synchronous(m)
  BY <1>3 DEF S!Message, Synchronous
<1>5. /\ sendPC \in [Senders -> States]
      /\ asked \in [Senders -> S!Message \cup {NoMessage}]
      /\ target \in [Senders -> Senders]
  BY DEF MovesInv, S!TypeOK, States
<1>7. \A v \in Senders : \A n \in Under(v) : /\ Synchronous(n) /\ n.no \in 1 .. replyId
                                             /\ n.no \in Int /\ n.no # replyId + 1
  <2>1. \A v \in Senders : \A n \in Under(v) : Synchronous(n) /\ n.no \in 1 .. replyId
    BY DEF MovesInv, Numbers
  <2> HIDE DEF Under
  <2> QED
    BY <1>3, <2>1
<1>8. \A v \in Senders : Asking(v) => asked[v].no \in 1 .. replyId
  BY DEF MovesInv, Numbers
<1>9. CASE returned' = returned \cup {failed} /\ UNCHANGED <<sendPC, asked, target>>
  <2>0. \A v \in Senders : Held(v)' = Held(v) /\ (Asking(v)' <=> Asking(v))
    BY <1>2, <1>9 DEF Held, Asking
  <2>1. \A v \in Senders : Under(v)' = Under(v)
    BY <1>2, <2>0 DEF Under
  <2>2. failed \in S!Return /\ failed.no = replyId + 1 /\ failed.got = 0
        /\ failed.result = "MSG_RECEIVE_FAILED"
    BY <1>3 DEF S!Return, S!Results
  <2> HIDE DEF failed, Under, Asking
  <2>3. S!TypeOK'
    BY <1>2, <1>3, <1>9, <2>2 DEF MovesInv, S!TypeOK
  <2>4. Numbers'
    BY <1>2, <1>3, <1>9, <2>0, <2>1 DEF MovesInv, Numbers
  <2>5. OnePlace' /\ BackIsReplied'
    BY <1>2, <1>9, <2>0, <2>1 DEF MovesInv, OnePlace, BackIsReplied
  <2>6. AskedIsOwn'
    BY <1>9, <2>0, <2>1 DEF AskedIsOwn
  <2>7. GotIsGone'
    BY <1>2, <1>3, <1>9, <2>1, <2>2 DEF GotIsGone
  <2>8. \A n : Unanswered(n) => Unanswered(n)'
    BY <1>9 DEF Unanswered
  <2>9. SentIsPending'
    <3>1. ASSUME NEW v \in Senders, NEW n \in Under(v)'
          PROVE  \/ Unanswered(n)' /\ (Asking(n.from)' => n.no < asked'[n.from].no)
                 \/ Asking(n.from)' /\ n.no = asked'[n.from].no
      <4>1. n \in Under(v) /\ n.from \in Senders
        BY <2>1, <3>1, UnderTyped, MessageParts DEF MovesInv
      <4> QED
        BY <1>9, <2>0, <2>8, <4>1 DEF SentIsPending
    <3> QED
      BY <3>1 DEF SentIsPending
  <2>10. S!ReceivedMeansReplied' /\ S!FailureHasACause'
    <3>1. S!ReceivedMeansReplied'
      BY <1>2, <1>9, <2>2 DEF SendIsTruthful, S!ReceivedMeansReplied
    <3>2. S!FailureHasACause'
      BY <1>2, <1>9, <2>2 DEF SendIsTruthful, S!FailureHasACause
    <3> QED
      BY <3>1, <3>2
  <2>11. S!AnsweredOnce'
    <3>1. \A r \in returned : r.result = "MSG_RECEIVED" => r.got # 0
      BY <1>3 DEF SendIsTruthful, S!ReceivedMeansReplied, GotIsGone
    <3> QED
      BY <1>9, <2>2, <3>1 DEF SendIsTruthful, S!AnsweredOnce
  <2> QED
    BY <2>3, <2>4, <2>5, <2>6, <2>7, <2>9, <2>10, <2>11 DEF MovesInv, SendIsTruthful
<1>10. CASE /\ sendPC' = [sendPC EXCEPT ![t] = "sending"]
            /\ asked' = [asked EXCEPT ![t] = m]
            /\ target' = [target EXCEPT ![t] = u]
            /\ returned' = returned
  <2> HIDE DEF request, S!Message, Synchronous
  <2>2. /\ sendPC' \in [Senders -> States]
        /\ sendPC'[t] = "sending" /\ \A v \in Senders : v # t => sendPC'[v] = sendPC[v]
        /\ asked' \in [Senders -> S!Message \cup {NoMessage}]
        /\ asked'[t] = m /\ \A v \in Senders : v # t => asked'[v] = asked[v]
        /\ target' \in [Senders -> Senders]
        /\ target'[t] = u /\ \A v \in Senders : v # t => target'[v] = target[v]
    BY <1>4, <1>5, <1>10 DEF States
  <2>3. /\ \A v \in Senders : v # t => Held(v)' = Held(v) /\ (Asking(v)' <=> Asking(v))
        /\ Held(t)' = Held(t) \cup {m} /\ Asking(t)' /\ ~Asking(t)
        /\ handling[t] # NoMessage => handling[t] \in Held(t)
    BY <1>2, <2>2 DEF Held, Asking
  <2>4. /\ \A v \in Senders : v # t => Under(v)' = Under(v)
        /\ \A n \in Under(t)' : n \in Under(t) \/ n = m
    BY <1>2, <2>3 DEF Under
  <2>5. \A v \in Senders : Held(v) \subseteq Under(v) /\ Queued(queue[v]) \subseteq Under(v)
    BY DEF Under
  <2> HIDE DEF Under, Asking
  <2>6. OnePlace'
    <3>1. ASSUME NEW v \in Senders, NEW n \in Queued(queue'[v]), NEW k \in Held(v)'
          PROVE  n.no # k.no
      <4>1. n \in Queued(queue[v]) /\ n \in Under(v)
        BY <1>2, <2>5, <3>1
      <4>2. k \in Held(v) \/ k = m
        BY <2>3, <3>1
      <4> HIDE DEF m
      <4> QED
        BY <1>4, <1>7, <4>1, <4>2 DEF MovesInv, OnePlace
    <3>2. ASSUME NEW v \in Senders, NEW w \in Senders, v # w, NEW n \in Under(v)', NEW k \in Under(w)'
          PROVE  n.no # k.no
      <4>1. CASE v = t /\ n = m
        BY <1>4, <1>7, <2>4, <3>2, <4>1
      <4>2. CASE w = t /\ k = m
        BY <1>4, <1>7, <2>4, <3>2, <4>2
      <4>3. CASE n \in Under(v) /\ k \in Under(w)
        BY <3>2, <4>3 DEF MovesInv, OnePlace
      <4> QED
        BY <2>4, <3>2, <4>1, <4>2, <4>3
    <3>3. ASSUME NEW v \in Senders, sendPC'[v] = "sending", handling'[v] # NoMessage
          PROVE  handling'[v].no # asked'[v].no
      <4>1. CASE v = t
        BY <1>2, <1>4, <1>7, <2>2, <2>3, <2>5, <3>3, <4>1
      <4>2. CASE v # t
        BY <1>2, <2>2, <3>3, <4>2 DEF MovesInv, OnePlace
      <4> QED
        BY <4>1, <4>2
    <3>4. \A v \in Senders : NoneTwice(queue'[v])
      BY <1>2 DEF MovesInv, OnePlace
    <3> QED
      BY <3>1, <3>2, <3>3, <3>4, Zenon DEF OnePlace
  <2>7. BackIsReplied'
    BY <1>2, <2>2 DEF MovesInv, BackIsReplied
  <2>8. S!TypeOK'
    BY <1>2, <1>3, <1>10, <2>2 DEF MovesInv, S!TypeOK, States
  <2>9. Numbers'
    <3>1. \A v \in Senders : \A n \in Under(v)' : Synchronous(n) /\ n.no \in 1 .. replyId'
      BY <1>2, <1>3, <1>4, <1>7, <2>4
    <3>2. \A v \in Senders : \A i \in DOMAIN queue'[v] :
            ~Synchronous(queue'[v][i]) => queue'[v][i].no = 0
      BY <1>2 DEF MovesInv, Numbers
    <3>3. \A v \in Senders : Asking(v)' =>
             /\ asked'[v] \in S!Message /\ asked'[v].from = v /\ Synchronous(asked'[v])
             /\ asked'[v].no \in 1 .. replyId'
      BY <1>2, <1>3, <1>4, <2>2, <2>3 DEF MovesInv, Numbers
    <3>4. \A v \in Senders : sendPC'[v] = "sending" => target'[v] # v
      BY <1>2, <2>2 DEF MovesInv, Numbers
    <3> QED
      BY <3>1, <3>2, <3>3, <3>4 DEF Numbers
  <2>10. AskedIsOwn'
    <3>1. ASSUME NEW w \in Senders, NEW v \in Senders, NEW n \in Under(v)',
                 Asking(w)', n.no = asked'[w].no
          PROVE  n.from = w
      <4>1. CASE w = t
        BY <1>4, <1>7, <2>2, <2>4, <3>1, <4>1
      <4>2. CASE w # t
        <5>1. Asking(w) /\ asked'[w] = asked[w] /\ asked[w].no \in 1 .. replyId
          BY <1>8, <2>2, <2>3, <3>1, <4>2
        <5>2. n # m
          BY <1>3, <1>4, <3>1, <5>1
        <5>3. n \in Under(v)
          BY <2>4, <3>1, <5>2
        <5> QED
          BY <3>1, <5>1, <5>3 DEF AskedIsOwn
      <4> QED
        BY <4>1, <4>2
    <3> QED
      BY <3>1 DEF AskedIsOwn
  <2>11. GotIsGone'
    <3>1. ASSUME NEW r \in returned
          PROVE  /\ r.no \in 1 .. replyId' /\ r.got \in 0 .. replyId'
                 /\ r.got # 0 => \A v \in Senders : \A n \in Under(v)' : n.no # r.got
      <4>1. r.no \in 1 .. replyId /\ r.got \in 0 .. replyId
        BY <1>3 DEF GotIsGone
      <4>2. m.no # r.got
        BY <1>3, <1>4, <4>1
      <4> QED
        BY <1>2, <1>3, <2>4, <4>1, <4>2 DEF GotIsGone
    <3> QED
      BY <1>10, <3>1 DEF GotIsGone
  <2>12. SentIsPending'
    <3>1. ASSUME NEW v \in Senders, NEW n \in Under(v)'
          PROVE  \/ Unanswered(n)' /\ (Asking(n.from)' => n.no < asked'[n.from].no)
                 \/ Asking(n.from)' /\ n.no = asked'[n.from].no
      <4>1. CASE n = m
        BY <1>4, <2>2, <2>3, <4>1
      <4>2. CASE n \in Under(v)
        <5>1. n.from \in Senders /\ n.no \in 1 .. replyId
          BY <1>7, <4>2, UnderTyped, MessageParts DEF MovesInv
        <5>2. \/ Unanswered(n) /\ (Asking(n.from) => n.no < asked[n.from].no)
              \/ Asking(n.from) /\ n.no = asked[n.from].no
          BY <4>2 DEF SentIsPending
        <5>3. Unanswered(n) => Unanswered(n)'
          BY <1>10 DEF Unanswered
        <5>4. CASE n.from = t
          BY <1>2, <1>3, <1>4, <2>2, <2>3, <5>1, <5>2, <5>3, <5>4
        <5>5. CASE n.from # t
          BY <2>2, <2>3, <5>1, <5>2, <5>3, <5>5
        <5> QED
          BY <5>4, <5>5
      <4> QED
        BY <2>4, <3>1, <4>1, <4>2
    <3> QED
      BY <3>1 DEF SentIsPending
  <2>13. SendIsTruthful'
    <3>1. S!ReceivedMeansReplied' /\ S!AnsweredOnce'
      BY <1>2, <1>10 DEF SendIsTruthful, S!ReceivedMeansReplied, S!AnsweredOnce
    <3>2. S!FailureHasACause'
      BY <1>2, <1>10 DEF SendIsTruthful, S!FailureHasACause
    <3> QED
      BY <3>1, <3>2 DEF SendIsTruthful
  <2> QED
    BY <2>6, <2>7, <2>8, <2>9, <2>10, <2>11, <2>12, <2>13 DEF MovesInv
<1> QED
  BY <1>1, <1>9, <1>10

LEMMA SendsNext == SendInv /\ [S!Next]_S!vars => SendInv'
<1> SUFFICES ASSUME SendInv, [S!Next]_S!vars PROVE SendInv'
  OBVIOUS
<1>1. ASSUME NEW t \in Senders, S!Own(t) PROVE SendInv'
  BY <1>1, SendsRequest, SendsAnswer, SendsRun, SendsReply, SendsAddReply, SendsRunner,
     Zenon DEF S!Own
<1>2. ASSUME NEW t \in Senders, S!PostQuit(t) \/ S!PostStop(t) PROVE SendInv'
  BY <1>2, SendsPost, Zenon
<1>3. ASSUME NEW t \in Senders, NEW u \in Senders, S!SendSyncThreadMessage(t, u) PROVE SendInv'
  BY <1>3, SendsBegin, Zenon
<1>4. CASE UNCHANGED S!vars
  <2>1. UNCHANGED <<queue, sendPC, handling, asked, target, replyId, quits, stops,
                    replied, dropped, returned>>
    BY <1>4 DEF S!vars
  <2>2. \A t \in Senders : Under(t)' = Under(t)
    BY <2>1 DEF Under, Held
  <2>5. \A t \in Senders : Asking(t)' <=> Asking(t)
    BY <2>1 DEF Asking
  <2>3. S!TypeOK' /\ Numbers' /\ OnePlace' /\ BackIsReplied'
    <3>1. S!TypeOK'
      BY <2>1 DEF SendInv, MovesInv, S!TypeOK
    <3>2. Numbers'
      BY <2>1, <2>2, <2>5 DEF SendInv, MovesInv, Numbers
    <3>3. OnePlace' /\ BackIsReplied'
      BY <2>1, <2>2 DEF SendInv, MovesInv, OnePlace, BackIsReplied, Held
    <3> QED
      BY <3>1, <3>2, <3>3
  <2>4. OnlyMoves
    BY <2>1, <2>2, <2>5 DEF OnlyMoves
  <2> QED
    BY <2>3, <2>4, MovesKeep DEF SendInv, MovesInv
<1> QED
  BY <1>1, <1>2, <1>3, <1>4, Zenon DEF S!Next

(* SendSyncThreadMessage (TCMTThread.cpp) tells the truth, for any message *)
(* ids and any number of sends, quit and stop messages: MSG_RECEIVED only  *)
(* for an answer to this very message, no message answers two sends, and a *)
(* failure has its cause in an earlier message.                            *)
THEOREM SendsAreTruthful == S!Spec => []SendIsTruthful
<1>1. SendInv => SendIsTruthful
  BY DEF SendInv
<1> QED
  BY <1>1, SendsInit, SendsNext, PTL DEF S!Spec
=============================================================================
