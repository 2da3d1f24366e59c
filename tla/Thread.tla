------------------------------- MODULE Thread -------------------------------
(***************************************************************************)
(* The life of tc::multi_threading threads on POSIX: CreateThread,         *)
(* ThreadRunner, Start, SendThreadMessage, Join and GetCurrentThread, with *)
(* the static registry m_threads that maps an OS thread (its pthread_t) to *)
(* its Thread object.                                                      *)
(*                                                                         *)
(* A worker is a Thread object together with the OS thread created for it; *)
(* a client is an OS thread the library did not create.  The Thread object *)
(* GetCurrentThread makes for a client is named like the client.  The      *)
(* message queue of a worker is its box: the step-by-step queue of module  *)
(* MessageQueue implements such a box.  The init event is taken as it is   *)
(* documented (module EventUsers shows what its Wait really promises).     *)
(***************************************************************************)
EXTENDS Integers, Sequences, FiniteSets, SequencesExt

CONSTANTS
    Clients,         \* OS threads that use the library
    Workers,         \* threads CreateThread may create
    CommandWorkers,  \* those made by CreateCommandExecutionThread
    Creator,         \* the client that creates threads
    Joiners,         \* the clients that call Join
    Handles,         \* the pthread_t values of the process
    ClientHandle,    \* the pthread_t of each client
    Nobody,          \* owner of a pthread_t that is not in use
    MaxPosts,        \* bound: messages posted by the clients, Stop apart
    OsFails,         \* may pthread_create and setting a priority fail?
    RegisteredExit,  \* may a client end that GetCurrentThread registered?
    QuitFirst        \* do clients post MSG_ID_QUIT before they join a
                     \* command execution thread?

ASSUME ThreadAssumption ==
    /\ Clients \cap Workers = {}
    /\ CommandWorkers \subseteq Workers
    /\ Creator \in Clients
    /\ Joiners \subseteq Clients
    /\ Nobody \notin Clients \cup Workers \cup Handles
    /\ ClientHandle \in [Clients -> Handles]
    /\ \A c, d \in Clients : ClientHandle[c] = ClientHandle[d] => c = d
    /\ MaxPosts \in Nat
    /\ {OsFails, RegisteredExit, QuitFirst} \subseteq BOOLEAN

VARIABLES
    mutex,      \* m_threads_mutex exists
    registry,   \* m_threads
    handle,     \* m_handle of each Thread object, 0 before pthread_create
    owner,      \* the OS thread each pthread_t names, until it is reaped
    state,      \* m_state of the workers
    announced,  \* init_data.event is set
    box,        \* m_message_queue of the workers
    known,      \* the workers whose ThreadPtr a Create has returned
    pc,         \* where each OS thread is
    call,       \* the worker and the message of a client's pending call
    posts,      \* history: messages posted
    self,       \* history: what GetCurrentThread returned inside Run
    joined,     \* history: the pairs <<client, worker>> of Joins that returned true
    miscast     \* history: the workers that executed a message as a command
                \* that is none

vars == <<mutex, registry, handle, owner, state, announced, box, known, pc,
          call, posts, self, joined, miscast>>

Threads == Clients \cup Workers
Kinds == {"Start", "Stop", "Quit", "User"}
Message == [kind : Kinds, from : Clients]
NoCall == [worker |-> Nobody, kind |-> "User"]

Idle == "idle"
ClientPcs == {Idle, "newMutex", "register", "spawn", "waitInit", "startCommand",
              "send", "stop", "joinOS", "gone"}
WorkerPcs == {"none", "new", "failed", "begin", "announce", "loop", "run",
              "leave", "ended"}

TypeOK ==
    /\ mutex \in BOOLEAN
    /\ registry \in Seq(Threads)
    /\ handle \in [Threads -> Handles \cup {Nobody}]
    /\ owner \in [Handles -> Threads \cup {Nobody}]
    /\ state \in [Workers -> {"NEW", "RUNNING", "TERMINATED"}]
    /\ announced \subseteq Workers
    /\ box \in [Workers -> Seq(Message)]
    /\ known \subseteq Workers
    /\ pc \in [Threads -> ClientPcs \cup WorkerPcs]
    /\ \A c \in Clients : pc[c] \in ClientPcs
    /\ \A w \in Workers : pc[w] \in WorkerPcs
    /\ call \in [Clients -> [worker : Workers \cup {Nobody}, kind : Kinds]]
    /\ posts \in 0 .. MaxPosts
    /\ self \in [Workers -> Threads \cup {Nobody}]
    /\ joined \subseteq Clients \X Workers
    /\ miscast \subseteq Workers
    /\ \A w \in Workers :
          /\ state[w] = "NEW" <=> pc[w] \in {"none", "new", "failed", "begin"}
          /\ state[w] = "TERMINATED" <=> pc[w] \in {"leave", "ended"}

Init ==
    /\ mutex = FALSE
    /\ registry = <<>>
    /\ handle = [t \in Threads |-> IF t \in Clients THEN ClientHandle[t] ELSE Nobody]
    /\ owner = [h \in Handles |-> IF \E c \in Clients : ClientHandle[c] = h
                                 THEN CHOOSE c \in Clients : ClientHandle[c] = h
                                 ELSE Nobody]
    /\ state = [w \in Workers |-> "NEW"]
    /\ announced = {}
    /\ box = [w \in Workers |-> <<>>]
    /\ known = {}
    /\ pc = [t \in Threads |-> IF t \in Clients THEN Idle ELSE "none"]
    /\ call = [c \in Clients |-> NoCall]
    /\ posts = 0
    /\ self = [w \in Workers |-> Nobody]
    /\ joined = {}
    /\ miscast = {}
-----------------------------------------------------------------------------
(* GetCurrentThread (Self): the first registered object with the caller's  *)
(* pthread_t; a caller that has none is registered.                        *)

Entries(t) == {i \in DOMAIN registry : handle[registry[i]] = handle[t]}

First(S) == CHOOSE i \in S : \A j \in S : i <= j

Current(t) == IF Entries(t) = {} THEN t ELSE registry[First(Entries(t))]

(* Mutant: a caller that is not registered stays unregistered. *)
SelfUnregistered(t) == registry

WithSelf(t) == IF Entries(t) = {} THEN Append(registry, t) ELSE registry

(* Mutant of Erase: the thread stays registered. *)
EraseNothing(s, t) == s

Erase(s, t) ==
    IF \E i \in DOMAIN s : s[i] = t
    THEN RemoveAt(s, First({i \in DOMAIN s : s[i] = t}))
    ELSE s
-----------------------------------------------------------------------------
(* ThreadPthread::Create, in the order of its statements. *)

Create(w) ==
    /\ pc[Creator] = Idle
    /\ pc[w] = "none"
    /\ call' = [call EXCEPT ![Creator] = [worker |-> w, kind |-> "Start"]]
    /\ pc' = [pc EXCEPT ![w] = "new",
                        ![Creator] = IF mutex THEN "register" ELSE "newMutex"]
    /\ UNCHANGED <<mutex, registry, handle, owner, state, announced, box,
                   known, posts, self, joined, miscast>>

NewMutex ==
    /\ pc[Creator] = "newMutex"
    /\ mutex' = TRUE
    /\ pc' = [pc EXCEPT ![Creator] = "register"]
    /\ UNCHANGED <<registry, handle, owner, state, announced, box, known, call,
                   posts, self, joined, miscast>>

Register ==
    /\ pc[Creator] = "register"
    /\ registry' = Append(registry, call[Creator].worker)
    /\ pc' = [pc EXCEPT ![Creator] = "spawn"]
    /\ UNCHANGED <<mutex, handle, owner, state, announced, box, known, call,
                   posts, self, joined, miscast>>

(* pthread_create gives the new thread a pthread_t nobody uses. *)
Spawn ==
    LET w == call[Creator].worker IN
    /\ pc[Creator] = "spawn"
    /\ \E h \in Handles :
          /\ owner[h] = Nobody
          /\ owner' = [owner EXCEPT ![h] = w]
          /\ handle' = [handle EXCEPT ![w] = h]
    /\ pc' = [pc EXCEPT ![w] = "begin", ![Creator] = "waitInit"]
    /\ UNCHANGED <<mutex, registry, state, announced, box, known, call, posts,
                   self, joined, miscast>>

SpawnFails ==
    /\ OsFails
    /\ pc[Creator] = "spawn"
    /\ pc' = [pc EXCEPT ![call[Creator].worker] = "failed", ![Creator] = Idle]
    /\ UNCHANGED <<mutex, registry, handle, owner, state, announced, box, known,
                   call, posts, self, joined, miscast>>

(* The init event was waited for and the priority is set.  The thread is   *)
(* handed out now, a command execution thread after its Start.             *)
CreateReturns ==
    LET w == call[Creator].worker IN
    /\ pc[Creator] = "waitInit"
    /\ w \in announced
    /\ known' = IF w \in CommandWorkers THEN known ELSE known \cup {w}
    /\ pc' = [pc EXCEPT ![Creator] = IF w \in CommandWorkers THEN "startCommand" ELSE Idle]
    /\ UNCHANGED <<mutex, registry, handle, owner, state, announced, box, call,
                   posts, self, joined, miscast>>

(* SetPriority fails: Create returns no thread, the thread goes on.  What  *)
(* CreateCommandExecutionThread does then is undefined: it calls Start of  *)
(* the null pointer without a look at it; the caller goes on here.         *)
CreateFails ==
    /\ OsFails
    /\ pc[Creator] = "waitInit"
    /\ call[Creator].worker \in announced
    /\ pc' = [pc EXCEPT ![Creator] = Idle]
    /\ UNCHANGED <<mutex, registry, handle, owner, state, announced, box, known,
                   call, posts, self, joined, miscast>>
-----------------------------------------------------------------------------
(* Start and SendThreadMessage: making the message registers the caller,   *)
(* then the state is checked, then, later, the message is added.           *)

Submit(c, w, kind) ==
    /\ registry' = WithSelf(c)
    /\ call' = [call EXCEPT ![c] = [worker |-> w, kind |-> kind]]
    /\ pc' = [pc EXCEPT ![c] = IF state[w] = "TERMINATED" THEN Idle ELSE "send"]
    /\ UNCHANGED <<mutex, handle, owner, state, announced, box, known, self,
                   joined, miscast>>

Post(c, w, kind) ==
    /\ pc[c] = Idle
    /\ w \in known
    /\ kind \in IF w \in CommandWorkers THEN {"User", "Quit"} ELSE {"Start", "User", "Quit"}
    /\ posts < MaxPosts
    /\ posts' = posts + 1
    /\ Submit(c, w, kind)

(* CreateCommandExecutionThread starts its thread object. *)
StartCommand ==
    /\ pc[Creator] = "startCommand"
    /\ Submit(Creator, call[Creator].worker, "Start")
    /\ UNCHANGED posts

(* MessageQueue::AddMessage.  A Join goes on with pthread_join, the Start  *)
(* of CreateCommandExecutionThread hands the thread out.                   *)
Send(c) ==
    LET w == call[c].worker IN
    /\ pc[c] = "send"
    /\ box' = [box EXCEPT ![w] = Append(@, [kind |-> call[c].kind, from |-> c])]
    /\ pc' = [pc EXCEPT ![c] = IF call[c].kind = "Stop" THEN "joinOS" ELSE Idle]
    /\ known' = known \cup {w}
    /\ UNCHANGED <<mutex, registry, handle, owner, state, announced, call, posts,
                   self, joined, miscast>>
-----------------------------------------------------------------------------
(* Join. *)

(* The command loop of the thread is over or has a Quit to come. *)
QuitPosted(w) ==
    LET kinds == {box[w][i].kind : i \in DOMAIN box[w]}
    IN  "Quit" \in kinds \/ (pc[w] # "run" /\ "Start" \notin kinds)

Join(c, w) ==
    /\ pc[c] = Idle
    /\ c \in Joiners
    /\ w \in known
    /\ (QuitFirst /\ w \in CommandWorkers) => QuitPosted(w)
    /\ Current(c) # w
    /\ registry' = WithSelf(c)
    /\ call' = [call EXCEPT ![c] = [worker |-> w, kind |-> "Stop"]]
    /\ IF state[w] = "TERMINATED"
       THEN joined' = joined \cup {<<c, w>>} /\ UNCHANGED pc
       ELSE pc' = [pc EXCEPT ![c] = "stop"] /\ UNCHANGED joined
    /\ UNCHANGED <<mutex, handle, owner, state, announced, box, known, posts,
                   self, miscast>>

(* The Stop message is made and the state is checked again. *)
SendStop(c) ==
    /\ pc[c] = "stop"
    /\ Submit(c, call[c].worker, "Stop")
    /\ UNCHANGED posts

(* pthread_join waits for whatever thread the stored pthread_t names now,  *)
(* and gives the pthread_t back.                                           *)
JoinOS(c) ==
    LET h == handle[call[c].worker] IN
    /\ pc[c] = "joinOS"
    /\ owner[h] # Nobody
    /\ pc[owner[h]] = "ended"
    /\ owner' = [owner EXCEPT ![h] = Nobody]
    /\ pc' = [pc EXCEPT ![c] = Idle]
    /\ joined' = joined \cup {<<c, call[c].worker>>}
    /\ UNCHANGED <<mutex, registry, handle, state, announced, box, known, call,
                   posts, self, miscast>>

(* A client ends while it is in no call: its pthread_t is free for a new   *)
(* thread, its entry in the registry stays.                                *)
ClientExit(c) ==
    /\ pc[c] = Idle
    /\ RegisteredExit \/ ~Contains(registry, c)
    /\ pc' = [pc EXCEPT ![c] = "gone"]
    /\ owner' = [owner EXCEPT ![handle[c]] = Nobody]
    /\ UNCHANGED <<mutex, registry, handle, state, announced, box, known, call,
                   posts, self, joined, miscast>>
-----------------------------------------------------------------------------
(* ThreadRunner. *)

Step(w, from, to) ==
    /\ pc[w] = from
    /\ pc' = [pc EXCEPT ![w] = to]

RunnerBegins(w) ==
    /\ Step(w, "begin", "announce")
    /\ state' = [state EXCEPT ![w] = "RUNNING"]
    /\ UNCHANGED <<mutex, registry, handle, owner, announced, box, known, call,
                   posts, self, joined, miscast>>

RunnerAnnounces(w) ==
    /\ Step(w, "announce", "loop")
    /\ announced' = announced \cup {w}
    /\ UNCHANGED <<mutex, registry, handle, owner, state, box, known, call,
                   posts, self, joined, miscast>>

Take(w) ==
    /\ box[w] # <<>>
    /\ box' = [box EXCEPT ![w] = Tail(@)]

(* Mutant of RunnerReceives: the newest message is handled first. *)
RunnerReceivesLast(w) ==
    LET m == box[w][Len(box[w])] IN
    /\ box[w] # <<>>
    /\ box' = [box EXCEPT ![w] = Front(@)]
    /\ Step(w, "loop", CASE m.kind = "Start" -> "run"
                         [] m.kind = "Stop" -> "leave"
                         [] OTHER -> "loop")
    /\ state' = IF m.kind = "Stop" THEN [state EXCEPT ![w] = "TERMINATED"] ELSE state
    /\ UNCHANGED <<mutex, registry, handle, owner, announced, known, call,
                   posts, self, joined, miscast>>

(* Stop ends the loop, Start runs the object, Quit and others are skipped. *)
RunnerReceives(w) ==
    LET m == Head(box[w]) IN
    /\ Take(w)
    /\ Step(w, "loop", CASE m.kind = "Start" -> "run"
                         [] m.kind = "Stop" -> "leave"
                         [] OTHER -> "loop")
    /\ state' = IF m.kind = "Stop" THEN [state EXCEPT ![w] = "TERMINATED"] ELSE state
    /\ UNCHANGED <<mutex, registry, handle, owner, announced, known, call,
                   posts, self, joined, miscast>>

(* A thread object that asks for its thread and returns. *)
RunObject(w) ==
    /\ w \notin CommandWorkers
    /\ Step(w, "run", "loop")
    /\ self' = [self EXCEPT ![w] = Current(w)]
    /\ registry' = WithSelf(w)
    /\ UNCHANGED <<mutex, handle, owner, state, announced, box, known, call,
                   posts, joined, miscast>>

(* CommandExecutionThreadObject::Run casts every message but Quit to a     *)
(* CommandMessage and executes it; only "User" messages are commands.  It  *)
(* asks the object GetCurrentThread found: if that is another one, it      *)
(* waits at a queue nobody sends to.                                       *)
RunCommands(w) ==
    LET m == Head(box[w]) IN
    /\ w \in CommandWorkers
    /\ Current(w) = w
    /\ Take(w)
    /\ Step(w, "run", IF m.kind = "Quit" THEN "loop" ELSE "run")
    /\ miscast' = IF m.kind \in {"Start", "Stop"} THEN miscast \cup {w} ELSE miscast
    /\ UNCHANGED <<mutex, registry, handle, owner, state, announced, known,
                   call, posts, self, joined>>

(* Under the registry mutex the thread erases the object GetCurrentThread  *)
(* finds; when no thread is left, registry and mutex are given up.         *)
RunnerLeaves(w) ==
    LET rest == Erase(WithSelf(w), Current(w)) IN
    /\ Step(w, "leave", "ended")
    /\ registry' = rest
    /\ mutex' = (mutex /\ rest # <<>>)
    /\ UNCHANGED <<handle, owner, state, announced, box, known, call, posts,
                   self, joined, miscast>>
-----------------------------------------------------------------------------
CreatorStep == NewMutex \/ Register \/ Spawn \/ CreateReturns \/ StartCommand
ClientStep(c) == Send(c) \/ SendStop(c) \/ JoinOS(c)
WorkerStep(w) == \/ RunnerBegins(w) \/ RunnerAnnounces(w) \/ RunnerReceives(w)
                 \/ RunObject(w) \/ RunCommands(w) \/ RunnerLeaves(w)

Next ==
    \/ \E w \in Workers : Create(w) \/ WorkerStep(w)
    \/ CreatorStep \/ SpawnFails \/ CreateFails
    \/ \E c \in Clients : ClientStep(c) \/ ClientExit(c)
    \/ \E c \in Clients, w \in Workers :
          Join(c, w) \/ \E kind \in Kinds : Post(c, w, kind)

Spec == Init /\ [][Next]_vars

(* Every thread goes on with the call or the loop it is in; nobody has to  *)
(* create, post or join.  A Run that is started returns (RunObject) or     *)
(* goes on receiving (RunCommands).                                        *)
Fairness ==
    /\ WF_vars(CreatorStep)
    /\ \A c \in Clients : WF_vars(ClientStep(c))
    /\ \A w \in Workers : WF_vars(WorkerStep(w))

FairSpec == Spec /\ Fairness
-----------------------------------------------------------------------------
(* A thread CreateThread returned is running or has run ("When returning   *)
(* the thread is already in the running state", TCMTFactory.h).            *)
CreatedIsRunning == \A w \in known : state[w] # "NEW"

(* A Join that returned true means the thread's OS thread has ended, has   *)
(* left the registry and touches no library state any more.                *)
JoinedHasEnded ==
    \A c \in Clients, w \in Workers :
        <<c, w>> \in joined => pc[w] = "ended" /\ \A i \in DOMAIN registry : registry[i] # w

(* What the joining thread posted before it joined was handled: the queue  *)
(* is first in, first out, so its Start cannot be behind its own Stop.     *)
JoinedHasHandled ==
    \A c \in Clients, w \in Workers :
        <<c, w>> \in joined => \A i \in DOMAIN box[w] : box[w][i].from # c

(* pthread_join gives back the pthread_t of the thread that was joined,    *)
(* though handles are reused for new threads.                              *)
OwnHandle ==
    \A w \in Workers : pc[w] \in {"begin", "announce", "loop", "run", "leave"}
                          => owner[handle[w]] = w

(* The test ThreadTest asserts, inside Run, m_thread_handle ==             *)
(* GetCurrentThread(): a thread finds its own object.                      *)
SelfIsOwn == \A w \in Workers : self[w] \in {Nobody, w}

(* The registry holds each live thread once and no ended one. *)
RegistryExact ==
    \A w \in Workers :
        LET places == {i \in DOMAIN registry : registry[i] = w}
        IN  CASE pc[w] \in {"begin", "announce", "loop", "run", "leave"} -> Cardinality(places) = 1
              [] pc[w] \in {"none", "ended"} -> places = {}
              [] OTHER -> Cardinality(places) <= 1

(* The static mutex, once made, is never given up, so that GetCurrentThread *)
(* and the ThreadRunners never lock a mutex that is gone: whoever stops a  *)
(* thread has registered itself by making the Stop message.                *)
MutexStays == [][mutex => mutex']_vars

(* A command execution thread "accepts only messages of type               *)
(* tc::multi_threading::CommandMessage and calls then the method Execute   *)
(* of the message" (TCMTFactory.h).                                        *)
OnlyCommandsExecuted == miscast = {}

(* A Join that reached pthread_join comes back. *)
JoinReturns == \A c \in Clients : pc[c] = "joinOS" ~> pc[c] # "joinOS"
=============================================================================
