# A TLA+ verification of TCSystem

TCSystem (`src/`) is a set of C++ libraries: `Basic`, `Thread`, `Net`, `Audio`,
`Math`, `GUI` and `OpenGL`, each in `src/Modules/<name>` with public headers in `inc`
and the implementation in `src`.  This directory models the parts whose correctness
depends on an order - of threads, processes, system calls, messages or calls of a
user -, checks the models with TLC and proves the most important results with
TLAPS.  Where there is a POSIX and a Windows implementation, the POSIX one is
modelled; of the Windows one only the condition variable is, the rest of it wraps
one Windows object per class.

## 1. Inventory

| Part | State | Operations | Interacts with |
|---|---|---|---|
| Event and condition (`TCMTEventPthread`, `TCMTConditionPthread`, `TCMTConditionWin32`) | `manual_reset`, `state`, who waits | Wait, TryWait, Try, Set, Reset; Signal, Broadcast | the queue and thread creation wait on events |
| Message queue (`TCMTMessageQueue`) | `m_messages`, `m_new_message_event` | AddMessage, GetMessage (two), TryGetMessage | any thread adds, the owner takes |
| Thread (`TCMTThreadBase`, `TCMTThreadPthread`) | `m_state`, `m_handle`, queue; static `m_threads`, `m_threads_mutex` | Create, ThreadRunner, Start, Join, Send..., Wait..., Self | queue, event, OS threads, thread objects (call back `Run`) |
| Command execution thread | its thread | Run: receive and `Execute` until quit | is a thread object of a thread |
| Named mutex, semaphore (`TCMTMutexPthread`, `TCMTSemaphorePthread`) | per process owner and nesting level; kernel semaphore and its name | create in three modes, Lock, TryLock, UnLock, destroy | other processes, through the name |
| Shared and weak pointers (`TCSharedPtr*.h`, `TCWeakPtr.h`) | use count, weak count, object | construct, copy, assign, reset, Lock | used by everything above |
| Message dispatcher, lockers | map of call backs | register, dispatch | streaming thread |
| Socket server (`TCNetSocketServerImp`) | sockets, receivers, `m_running`, poll timeout | Start, Stop, Add/RemoveSocket, Run, Accept | a thread, by messages; call back `OnNewData` |
| Sockets, addresses, SSL | a descriptor | open, read, timed read, write, close | OS, OpenSSL |
| Streaming thread and task (`TCAudioStreaming*`) | tasks, sources, buffers | Run, Play, Pause, Stop, Is... | a thread, by messages and answers; OpenAL |
| Sounds, manager, sound data | position, volume, state, list of sounds | play, pause, stop, GetData | streaming thread, decoders |
| Time and clock (`TCTime`, `TCClock`) | seconds and nanoseconds; system, simulation and frame time | arithmetic; start, stop, frames | timed waits; the clock of the system |
| Hash table, settings (`TCHashTable.h`, `TCSettings`) | lists of elements; tables of tables | add, remove, replace, look up | each other |
| Files (`TCFile*`) | none, the file system is | copy, create, remove and search directories | other processes |
| Streams and codecs | position, status, direction, bytes | read, write, seek, clone, encode, decode | memory, strings, plain and compressed files |
| Unit test framework | the tree of results, the current test | run suites and cases, count | the test that is run |
| Debug heap | the list of blocks | Alloc, ReAlloc, Free, report | the heap below; all threads |
| Viewer, objects (`OpenGL`) | operation mode, modifiers, selection, turbo; tree of objects | buttons, keys, menu; add, draw, hit, bounds | FOX, OpenGL names |
| Boxes (`Math`) | two corners | add, move, empty | the bounds of objects |
| Strings, output, operating system services, GUI, programs | own data | sequential | OS, toolkits |

What is hard, and therefore what the properties are about: threads that meet at
an event between a test and a wait; messages that are delivered through a queue
with requests for some ids only; the order of create, start, stop and join, with a
registry keyed by `pthread_t` values the OS reuses; a mutex whose owner field is
read without a lock and whose name other processes can remove; reference counts
that several threads change; sockets that are closed, removed or replaced by call
backs while they are walked over; timeouts that race late answers; buffers that a
device plays while they are refilled; system calls that fail in the middle or
between which another process acts; lists that are changed while something else
points into them; buttons that are released in any order.  `PROJECT.json` lists
each hazard at its line with the properties that cover it.

## 2. What is modelled, and how

| Module | Models | Run |
|---|---|---|
| `EventPthread`, `EventUsers` | the event, one operator per critical section; threads that call its methods | `shared` |
| `ConditionWin32` | the condition made of a counter and two Windows events | `shared`, `condition_win32_lost` |
| `MessageQueue`, `Mailbox` | AddMessage and GetMessage over `EventPthread`; what the queue promises | `message_queue` |
| `Time`, `TimedWait`, `Clock` | arithmetic of Time; GetMessage with a timeout down to `pthread_cond_timedwait`; the clock with frames | `message_queue` |
| `Thread` | thread life cycle, registry, command execution thread; queues are mailboxes | `threads` |
| `SyncSend` | SendSyncThreadMessage and SendReplyThreadMessage between threads | `threads` |
| `SharedMutex` | named mutex over the named semaphore, several processes | `shared` |
| `SharedPtr` | shared and weak pointers of several threads | `shared`, `weak_lock` |
| `SocketServer` | the server thread, its clients, its receivers | `net` |
| `SocketIO` | reads, timed reads and writes over a connection | `net` |
| `StreamingThread` | Play, Pause and Stop of sounds as requests and answers | `audio` |
| `StreamingTask` | sources, buffers, the device | `audio` |
| `SoundSequence` | several sounds behind one GetData | `audio`, `sound_sequence` |
| `FileCopy` | Copy, call by call | `basic` |
| `FileTree` | CreateDirRecursive, RemoveDirRecursive, FindFilesRecursive | `files` |
| `FileStreams` | FileStream, GzFileStream, Bz2FileStream | `basic` |
| `Codec` | ascii and binary codecs | `files` |
| `HashTable`, `KeyMap` | every operation of the table; the map it implements | `basic` |
| `Settings` | sections and entries, over the table | `basic` |
| `MemoryStreams` | MemoryStream and StringStream with clones | `basic` |
| `UnitTest` | suites, cases, both results | `basic` |
| `DebugHeap` | blocks, sorting, the report of leaks | `files` |
| `Viewer` | modes, selection, lasso, turbo | `viewer` |
| `Scene` | object groups, names, hits, boxes | `viewer` |
| `MC*` | instances for TLC | - |
| `*_proofs`, `OperatorLemmas` | theorems, each module about the parts of the MC module it extends; lemmas about operators | - |

**One run, several instances.**  An MC module composes the modules of one library:
it EXTENDS one of them, INSTANCEs the others, and a variable `part` says which one
a behaviour is about; the others stay in their initial state, so that the states
of a run are the union and not the product of those of its parts.  A part that
needs several instances of one module (`EventPthread` with and without
manual reset, `FileStreams` for each kind of file, `Codec` for text and for
bytes, `Viewer` with and without objects) has one value of `part` for each.

**Where modules meet.**  `MessageQueue` uses the operators of `EventPthread`;
`MailboxSpec` (`MessageQueue` implements `Mailbox`, with the request read off the
owner's place in GetMessage) justifies that `Thread`, `SyncSend`, `SocketServer`
and `StreamingThread` treat a thread's queue as a box.  `TimedWait` refines the one
thing `MessageQueue` abstracts, the length of a timeout.  `Settings` uses the
operators of `HashTable`, which implements `KeyMap`.  `StreamingThread` takes what
`StreamingTask` does with a sound data as one of three states.

**Steps.**  An action is what one thread does without another being able to see
or change something in between: a method body under its mutex, one system call,
one interlocked operation.  In particular a waiter of an event is in `waiting`
while it is inside `pthread_cond_wait` and in `woken` when it was unblocked and
only has to take the mutex again; `AddMessage` is two steps (append, set the event)
because the owner can be between its scan and its wait; `Join` is four (test the
state, make and check the Stop message, add it, `pthread_join`); `Lock` of the named
mutex is two (the semaphore, the owner field) and so is its `UnLock`, and so is
its destruction (`sem_close`, `sem_unlink`); a send to a thread is two (`IsTerminated`,
`AddMessage`), in `SyncSend` and in `SocketServer`; the walk of `Accept` is three for
each socket (`IsOpened`, `FD_ISSET`, the call).  Sequential
code (hash table, settings, streams, codecs, viewer) has one action per
operation, with everything the operation calls.

**What is abstracted.**  A message is its id and the number of its AddMessage or
the request it carries; a range of ids is a set.  Bytes are members of a small
set, or numbered where their order matters; positions, ids and seconds are
numbers that wrap at a constant where the code's integers do.  Names, stack sizes,
texts, volumes and traces are left out; a call that may fail is one whose outcome
is free.  A failed `new` is left out.

**Assumptions of a module** that its comment or its constants name:

- `Thread`: one client creates threads (`Creator`); a thread object's `Run` returns.
- `SharedPtr.UnguardedLocks = FALSE`: `WeakPtr::Lock` is called only while a
  `SharedPtr` (`keeper`) is known to keep the object alive.
- `SharedMutex.CloseInUse`, `LockExisting = FALSE`: an object that created the name is
  not destroyed while another process has the mutex open, and nobody makes, opens or
  looks for the mutex between its `sem_close` and its `sem_unlink`; `locked = true` is
  asked only when the name is new.  The run `shared_mutex_closed` drops the first rule.
- `Thread.QuitFirst`: `MSG_ID_QUIT` goes before the join of a command execution
  thread.  `RegisteredExit = FALSE`: threads the library did not create and that used
  it live as long as it is used.  `Joiners`: one thread joins.
- `SocketServer`: an exception of a receiver is left out; a select that fails leaves
  `Accept` without a change, as in the code, and is no step; `FD_ISSET` of a socket
  closed since its test is undefined, so either way is possible.  `Reused`: the OS may
  give a descriptor out again while `Accept` walks over the sockets (FALSE in the run).
  For TLC only: the first call is that of one client, by symmetry (`FirstCallIsOfC1`),
  and `m_running`, which has no initial value and which Run sets first, is false.
- `SocketIO.Watched`: the descriptor is one the select of the code looks at.
- `StreamingTask`: looping, volume, pitch and pan are left out.
- `SoundSequence`: a part of a sequence does not loop by itself.
- `FileCopy.Partial = FALSE`: a write takes all it is given.
- `FileTree`: the listing of a directory is one step, and so is the look at an entry
  with its removal; `search_ext` is empty.
- `Thread`: what `CreateCommandExecutionThread` does with the null pointer of a failed
  creation (`TCMTFactory.cpp:79`) is undefined and left out.
- `FileStreams`: what a library keeps in its buffers counts as written; a
  compressed file has one stream.
- `Codec`: some types of values, numbers of two bytes; a CR is an NL.
- `DebugHeap`: nobody frees while the list is walked, which the code does not see to.
- `Viewer`: the widget is enabled, its target consumes no mouse event, FOX flags
  are left out.
- `Scene`: groups are not in themselves; an object moves once.

Where a constant switches such a rule, its other value shows what happens without
it (section 5).

**History variables** record what the properties compare (what was sent,
answered, written, counted, set before, there during the call).  Apart from the
bounds, and from `depth` and `keeper`, which say what a well-behaved caller does
next, no action of the code depends on them.

## 3. Runs

| Run | Property | Shows |
|---|---|---|
| `message_queue` | `NoLostWakeup` | the owner does not sleep on a message it asked for |
| | `NoneLostNoneTwice` | every message is in the queue or was returned, once |
| | `MailboxSpec` | the queue implements the mailbox, answers included |
| | `WaitsItsTime` | a TryWait that reports a timeout has waited for it; what is left of a GetMessage's timeout is exact; Time agrees with numbers |
| | `FramesFollow` | frames of a Clock have no gap, also when the system's clock is set back |
| `threads` | `JoinedHasHandled` | what a thread sent before its Join returned was handled |
| | `RegistryExact` | the registry has each live thread once and no ended one |
| | `MutexStays` | the registry's mutex is not given up under a thread that will lock it |
| | `SendIsTruthful` | a synchronous send succeeds on its own answer only; when it fails there is a cause |
| | `CallsReturn` | Join and synchronous sends come back, rings and dropped messages apart |
| `shared` | `NoLostSignal` | no thread sleeps on a set event |
| | `TryWaitTrueMeansSet` | TryWait with a finite timeout says true of an event that was set during the call |
| | `OnePassPerSet` | one Set of an auto-reset event lets one Try, or TryWait with a finite timeout, pass |
| | `OnePassPerSignal` | one Signal of the Windows condition wakes one waiter; its counter is exact |
| | `MutualExclusion` | one thread of all processes has the mutex, if its users keep the two rules |
| | `InUseIsAlive` | what is pointed to is not deleted, no counter is used after its end |
| | `NothingLeaks` | what nobody points to is deleted, and its counter |
| `net` | `ServedIsAddedNotRemoved` | a receiver is called only for a socket that was added and not removed |
| | `StopComesFirst` | as long as the Run of the server is not over, the message of a Join has that of a Stop before it |
| | `StreamInOrder` | bytes arrive once and in order |
| | `CalledWithData` | a receiver is called only when there is something to read, unless another thread closes the socket between its test and the call |
| | `EverythingReturns` | Stop, Start and timed reads return, data is served |
| `audio` | `AnswersExact` | answers come in the order of the requests, none is lost, a late one is counted |
| | `NothingLost` | sources and buffers are in one place each; what is lost is what an exception took while a source was made |
| | `NothingSkipped` | the device gets all bytes, in order |
| | `OneAfterTheOther` | a sequence goes on where the last GetData stopped |
| | `EverythingEnds` | calls return and sounds end, also when the source starves |
| `files` | `TreeExact` | creating leaves the directories, removing removes all below and nothing else, searching finds each file once |
| | `RoundTrip` | what is decoded was encoded |
| | `LeaksExact` | blocks are listed once each, also after sorting, and so are the lines of the report |
| `basic` | `MapSpec` | the hash table implements a map, each operation that of the map for its own key and value, and lookups find what the map has |
| | `AllKeysOnce` | the list of all keys has each stored key once |
| | `EntriesMatch` | an entry is what it was set to, for its section and key |
| | `MemoryExact` | reads and writes of memory and strings are of the bytes at the position, clones included; memory returns the number it read, a string the number asked for |
| | `FilesExact` | reads and writes of files do what they say, errors stay |
| | `CopiesExactly` | a Copy that says true has copied |
| | `CountsExact` | every test is counted once and as it ended; what was set up is torn down |
| `viewer` | `ModeFits` | no operation outlives its buttons, full detail comes back |
| | `SelectedExact` | what looks selected is selected |
| | `SceneExact` | a hit leads to the object that was drawn, bounds are tight |
| `shared_mutex_closed` | `MutualExclusion` | *violated*: a creator that goes takes the name along, and the next process makes a second mutex |
| `weak_lock` | `InUseIsAlive` | *violated*: the two steps of WeakPtr::Lock |
| `condition_win32_lost` | `BroadcastWakesAll` | *violated*: one Broadcast resets the next |
| `sound_sequence` | `BufferIsPlayed` | *violated*: the second sound overwrites the first |

**Bounds and why they are enough.**  `message_queue`: two producers (one can hold the queue lock while
the other wants it), four messages of three ids (the quit id, the id asked for,
another one), so that a request can skip, take from the middle and be overtaken by a
quit message; a second of three nanoseconds and sixteen seconds, so that sums
carry and overflow; two times the clock is set back.  `threads`: one thread that runs
objects and one command execution thread, two clients, four `pthread_t` values (all of
them can be in use, and a value is reused after a join), two posted messages besides
those of creation and join; two threads that send to each other and a third one
that answers, three sends, so that an answer can be late for one and early for the next.
`shared`: three threads and three sets of an event - two sleepers
and a third actor, a signal that unblocks both, a set while one of them is on its way
back; three waiters, two signals and two broadcasts of a condition; two processes, one with two threads in one object, nesting 2, three
semaphores (each object can have an old one open while the name stands for a third);
three threads and two objects: an assignment moves from one object to the other
while two threads hold, copy, lock or drop either.  `net`: two sockets (a walk can
lose one before and one after the current place), two clients, three calls, one
socket that others open or close besides what receivers close (for any number of
them there is a proof); four
bytes through a connection that holds two in calls of up to three, so that both sides
split.  `audio`: two clients and a sound that shares its data with a multitrack; two
sources for three sounds and two buffers each, so that both run out; a sequence of
three of four sounds, one of them empty, with reads that cross one end and two.
`files`: trees of two levels with another thread at work; three values in every
order; three blocks of two threads whose ids are far apart.  `basic`: four keys of
which two or all collide; two sections and two keys that collide; clones over two
bytes with a position that wraps; two streams of one file of two bytes; a buffer of
two bytes and files up to five; a suite in a suite.  `viewer`: all buttons and keys;
a selection of two.

**Fairness.**  A thread inside a call, or in the loop of its thread object, goes on;
nobody has to begin a call.  So it is in `MessageQueue` (adders and owner), `Thread`
(creator, clients inside a call, workers), `SyncSend`, `SharedPtr` (a release that has
begun), `SocketServer` (server and callers), `SocketIO` (a timed read: its select
returns when there is data or the time is over), `StreamingThread` and `StreamingTask` (the
task's timer).  The device of `StreamingTask` plays what it has.  None of these waits for
anything but a short critical section, an event or a timeout.  Weak fairness is
enough but for the device, which the walks over the sources disable again and again:
it has 50 ms between two of them, hence strong fairness.  `Mailbox.FairSpec` says that
a request the box can answer is answered; the fairness of the queue implies it (checked by `MailboxSpec`).

**Deadlock** is checked in `message_queue`, `shared` and `viewer`, with a step
`Over` for a part that has come to its end.  The other runs may stop: every bound
is used up, all threads or the server have ended, a test run is over.

## 4. Proofs

The proofs hold for every value of the constants, under the `ASSUME`s of the
modules: a bound is a natural number, the quit id is an id, nobody is not a
producer, nobody sends to itself, sets that are counted are finite.  The bounds on
sets, messages and calls are then no restriction.  A rule of the callers is a
hypothesis of the theorem, with a name.  A module of proofs is about one or more
parts of one MC module: `Spec` is that of the module the MC module extends, and
`S!Spec`, `P!Spec`, `T!Spec`, ... are those of its instances.  (`Viewer_proofs` is
about `Viewer` itself, for `Scene`, which `MCViewer` composes it with, is recursive.)  Each
theorem has the same layout: the invariant holds at first, each action keeps it (a step
or a lemma per action), it implies the property.

- `OperatorLemmas`: what removing an element from a sequence keeps, at how many
  places an element is, the least of some numbers, the size of a set of which one
  member comes or goes; what each operator of the event does to `state`, `waiting`
  and `woken`.
- `Shared_proofs`, event and condition: `EventTypeCorrect`, `SetEventIsNotSleptOn`,
  `SetsBoundPasses`, `TryWaitIsTruthful`, the last two for finite timeouts: an infinite
  one is handed to Wait, which passes on any wakeup (section 5).  `TypeOK`,
  `NoLostSignal` and `OnePassPerSet` are inductive.
  `TryWaitTrueMeansSet` is not: TryWait tests the state when it returns, so one has to
  know that an event found set was set during the call (`SeenSet`), which in turn
  needs that a thread that blocks found the event not set.  `SignalsBoundPasses`, of
  the Windows condition: the count of waiters is the number of those between their
  increment and their decrement, and what has passed, what is on its way (one, if
  the event is set) and what signallers are about to set is no more than what was
  signalled (`SignalsBound`).
- `MessageQueue_proofs`: `TypeCorrect`, `OwnerMissesNoMessage`,
  `OwnerIsKnownWhenBlocked`, `ReturnsInOrder`, `ReturnsEachOnce`, `QueueIsAMailbox`.
  `NoLostWakeup` needs `BlockedIsWaiting` (a signal reaches the owner only if the
  condition knows it) and `ScannedInVain`: from the moment the scan missed, an
  unwanted queue, an adder inside its lock or a set event is what stands between the
  owner and its message.  `OrderKept` needs `Numbered` (numbers ascend in the queue and
  none is above `sent`); removal of the first match leaves no earlier message of the
  same id and no earlier quit message behind.  `NoneLostNoneTwice` follows from the same
  numbers: each up to `sent` is in the queue or in `received`, once.  `QueueIsAMailbox` is the
  safety part of the refinement `MailboxSpec`: the box is `messages`, AddMessage under its
  lock is the mailbox's Add, the scan that hits is its Take, all else stutters.
- `MessageQueue_proofs`, time: `WaitsAreInTime`, under `TimesFit` (no timeout is Infinite,
  no time is in the upper half of the seconds: outside of it section 5's finding bites).
  `TimeKept`: the clock shows the start plus the ticks less what it was set back; the limit
  is what is left of the timeout, the deadline when it is over, and no sum of two of them
  overflows.  `PlusExact`, `MinusExact` and `LessExact` say that the operators of
  `Time` are then those of numbers.  `FramesAreInOrder`, without a condition: `ClockInv`
  relates the time of the system, which a set back does not turn back, the pauses and
  the end of the frame; while nothing is set back, also `real` and `ran`.
- `Threads_proofs`, registry: `RegistryIsExact`, `MutexIsKept`, `HandlesAreOwn`, under
  `ClientsStay` (no client that the registry knows ends); `JoinedThreadsHaveHandled` and
  `JoinedThreadsHaveEnded` under `OneJoiner` (besides, one client joins: two that join one
  thread give the handle back twice).  `LifeInv`: the registry has the live threads,
  once; a handle names its live thread; who has sent a message is registered, so the last
  thread that leaves does not take the mutex from its joiner.  `JoinInv`, on top of it:
  only the joiner sends a Stop, it is the last it sends, and it then waits for that
  thread; so a thread that has left has no message of the joiner in its queue, and the
  handle the joiner waits for is still the thread's own.
- `Threads_proofs`, synchronous sends: `SendsAreTruthful`, for any threads, ids and
  senders.  `MovesInv` numbers the messages: each is in one queue or with one thread that
  handles it, once, and it is back in its sender's queue only if it was replied.
  `SendInv` adds what a send knows: it asks with its own message, what it got is nowhere
  any more, and a message that is on its way has a sender that waits for it or whose
  send was ended by another message (`SentIsPending`).  So an answer that a send takes
  is its own or was left behind by an earlier one, which is the cause `SendIsTruthful`
  asks for.
- `Shared_proofs`, named mutex: `OneHolder`, `OwnerFieldIsExact`, `TokenIsKept`, all under
  `CallersKeepTheRules` (`CloseInUse` and `LockExisting` are FALSE).  All objects
  use the semaphore that has the name, no object is open while one has still to unlink
  it, and its one token is in it or with the one
  thread that is in the mutex or on its way into it or out of it; one on its way in
  holds nothing yet.
- `Shared_proofs`, pointers: `PointersKeepAlive`, `PointersAreCounted`, for any threads and
  objects, under `LocksAreGuarded` (`UnguardedLocks` is FALSE).  `InUseIsAlive` follows
  from exact counters (`Counted`): the use count is the number of strong pointers and
  of releases that have not decremented yet; the weak count is the number of weak
  pointers, of releases that have still to delete or to drop theirs, and one for
  the strong pointers together.  `Kept` says what each thread between two steps still
  relies on; a thread that locks a weak pointer has a keeper, so the count it
  increments is not 0.
- `Net_proofs`, server: `SpecServedIsAddedNotRemoved`, `SpecPaired`, `SpecStopComesFirst`,
  for any clients, sockets and receivers, and `SpecCalledWithData` under
  `Reused = FALSE`.  `ServerInv`: sockets and receivers stay paired through every
  removal inside a walk, and the index of the walk stays at 1 or above.  `WalkInv`:
  a descriptor in the read set of a walk is that of a socket with data or of one
  the walk has passed, and no two open sockets have the same one; a socket that has
  passed a test and was not closed since still passes it.  `StopInv`: who is still to
  send, or is just adding, the message of a Join has added that of its Stop, which is
  in the queue or has ended the Run.
- `Net_proofs`, connection: `BytesArriveInOrder`, for any room and any sizes of the calls:
  what was read, is under way, is still to be sent and was lost by a failed write are the
  bytes written, each once and in order.  It needs that after a failed write nothing is
  sent or written any more (`DroppedLast`).  `TimedReadsKeepTheirTime`: a timed read
  never waits longer than it was given, because what it has spent before the select
  in progress, plus that select's timeout, is at most what was given (`TimeKept`).
- `Audio_proofs`, streaming thread: `AnswersAreExact`, for any clients, sounds and
  tracks, with answers that come late.  `ThreadInv`: the requests in the queue of the
  thread ascend and are younger than all it has answered, and so are the answers on
  their way to each client (`QueueAscends`, `DoneIsOlder`, `MailboxAscends`); a client
  is still to get one answer for each request it gave up, and one more while it waits.
- `Audio_proofs`, streaming task: `NothingIsLost`, `NothingIsSkipped`, for any sounds,
  sources, buffers and sizes, while the device plays between any two steps.
  `PoolsInv`: what was made of a kind is on the stack or in one row of what the streaming
  sources have, once, or in `gone`: what an exception takes away while a source is made,
  after the source or any number of its buffers.  `DeviceInv`: a
  source that plays has something left to play, and what Execute has seen processed
  stays so.  `QueueInv`: a queue has buffers of its own streaming source.  `ContinuesInv`:
  the queue goes on from where the device is up to the position of GetData, and is
  empty only at the end; which needs that no two sources share a sound data (`DataOnce`).
- `Audio_proofs`, sequence of sounds: `SoundsFollow`, for any sounds and sizes.
  `SequenceInv`: only the current sound can be left in its middle, and what was read last
  ends where the current sound is, or at the end of an earlier one after which only
  empty sounds were passed.
- `Basic_proofs`, table: `TableIsAMap`, `LookupIsExact`, `AllKeysAreListed`.  Each key is
  in the list of its hash and in it once; a change of one list leaves what is stored
  under all other keys, also those that collide; so every operation is that of `KeyMap`
  for its own key (`EachFollows`), and a lookup finds what the map has (`LookupsFollow`).
  `GetAllKeys` walks the lists by a recursive function: its values are taken from its
  defining equation, and the list of the first n lists has their keys once, by the
  set of those n for which it does not.
- `Basic_proofs`, settings: `SettingsAreAMap`, for any sections, keys, hash functions and
  numbers of lists.  Each step is a `Put` or a `Clear` of `KeyMap`.  `SettingsInv`: the
  number of a section is below the number of key tables and belongs to no other
  section; the number of a key is below the number of values and belongs to no
  other key of any section (`SectionsApart`, `KeysApart`), so that what is written for
  one entry is read for no other.
- `Basic_proofs`, copy: `CopyIsExact`, under `WritesAll` (a write takes all it is given).  The
  destination is, at each step, the bytes of the source up to its offset, less those in
  the buffer; the source can grow but not change, the destination is no file of
  another process, and a copy that was cut short has a negative `sz_read`.
- `Basic_proofs`, streams: `MemoryIsExact` for memory and strings, `FilesAreExact` for plain,
  gz and bz2 files, for any streams and bytes.  They are about each step: what a call says
  of the bytes and of its position is compared with both before and after.  What is
  returned differs (`Returned`): a memory stream says how much it read, a string stream
  how much it was asked for (section 5).
  `MemoryInv`: no position is behind the data nor behind the bound, so that no sum of a
  position and a size wraps (`NumbersFit`); a clone has a position of its own.  `FileInv`
  keeps the types only: a position may be behind the end of a file, where a write
  fills the gap; so whatever part of a call is done before an error is described by
  what it returns.
- `Basic_proofs`, unit tests: `UncleanEndsAll`, for any suites: once the environment is
  unclean, every suite that goes on has nothing ahead (`RunInv`).  `TestsAreCounted`, which also
  counts, needs that no test runs twice, hence the condition `IsTree`: a walk numbers
  the suites and tests when they are entered and left, as it does in every tree.
  `WalkInv`: what the running suites have ahead is behind all that was entered, so the
  numbers of the tests in `order` ascend.  `CurFits`: `cur` is what the running test has
  done so far and empty between tests; so each verdict is that of its own test, and
  each counter is the size of a set of places in `order`.
- `Viewer_proofs`: `SelectionIsExact`, for any objects and clicks, though one object can be
  in the selection twice; `ModeIsExact`, for any buttons and keys, if no limit of hits is
  negative and turbo mode is not switched inside an operation (with it, section 5's
  finding bites).  `ModeInv` adds to the four parts of `ModeFits` that nothing is drawn with
  less detail while no button is pressed, and that what was drawn so is drawn again:
  `setOp` keeps the detail of the mode before when it goes to picking, which is
  right only because picking begins without a button.

Model-checked only:

- Liveness under fairness is beyond the prover: `CallsReturn`, `NothingLeaks`,
  `EverythingReturns`, `EverythingEnds`, and of `MailboxSpec` the answers.
- `RoundTrip`, `TreeExact`, `LeaksExact` and `SceneExact` are about recursive
  operators, with which no theorem can be stated here.

## 5. Where code and documentation differ

Four runs each show one such place and `PROJECT.json` (`findings`) quotes the
sentence it contradicts.  The following are stated in the modules, too: TLC finds
the definition violated in the module, with the constants given.  The passing runs
do not include them, by a constant or because they do not check the definition.

| Definition | With | What happens |
|---|---|---|
| `EventUsers.WaitTrueMeansSet` | - | `Event::Wait` does not look at the state again when it was woken, and says true for an event that is not set; so does `TryWait` with an infinite timeout, which calls it (`TCMTEventPthread.cpp:72`, `:108`, `TCMTEvent.h:76`, `:83`) |
| `Thread.SelfIsOwn` | `RegisteredExit = TRUE` | a thread with the `pthread_t` of a client that ended finds that client's object (`TCMTThreadPthread.cpp:199`, `TCMTThreadTest.cpp:104`) |
| `Thread.OnlyCommandsExecuted` | `QuitFirst = FALSE` | the command loop casts the Stop of Join to a command and executes it (`TCMTCommandExecutionThread.h:59`) |
| `Thread.JoinedHasEnded` | two `Joiners` | the second Join returns before the thread has ended (`TCMTThreadBase.cpp:211`) |
| `SyncSend.ReturnsOnlyWhenReplied` | - | a quit message ends the send, the answer comes later (`TCMTThreadBase.cpp:332`) |
| `SocketServer.StartRestarts` | - | Start after Stop(false) starts nothing, Start(true) does not return (`TCNetSocketServerImp.cpp:226`) |
| `SocketServer.CalledWithData` | `Reused = TRUE`, `MaxOpens = 2` | a socket that reuses a descriptor in the middle of a walk is called (`:316`) |
| `SocketServer.CalledWithData` | without `raced` | a socket that another thread closes between its test and the call is called (`:314`, `TCNetSocketServer.h:96`) |
| `StreamingThread.AnswerIsOwn` | `Late = TRUE` | a late answer is taken for the next request's (`TCAudioStreamingThread.cpp:218`) |
| `StreamingThread.StopStops` | - | a paused sound is not stopped (`TCAudioSoundImp.cpp:92`); a track that ended stops the stopping (`TCAudioSoundMultitrackImp.cpp:87`) |
| `StreamingThread.PausedOrStopped` | - | IsPaused asks whether it is stopped (`TCAudioSoundImp.cpp:117`) |
| `StreamingTask.RestartedMeansMore` | the device plays meanwhile | a source with played buffers only is started again (`TCAudioStreamingTask.cpp:226`) |
| `StreamingTask.PlayContinues` | - | a second Play repeats the queue (`:118`) |
| `StreamingTask.PaddedToFour` | odd sizes | n % 4 bytes are added, not 4 - n % 4 (`:260`) |
| `SoundSequence.GetDataReturns` | a loop of sounds without bytes | GetData never returns, with the mutex held (`TCAudioSoundDataSequence.cpp:57`) |
| `SocketIO.TimedReadDelivers` | - | every recv of a timed read writes at the begin of the buffer (`TCNetSocketImp.cpp:136`) |
| `SocketIO.TimeoutIsGiven` | - | elapsed time is subtracted again and again (`:148`) |
| `SocketIO.TimeoutMeansNoData` | `Watched = FALSE` | select looks at descriptors 0 and 1 only (`:124`) |
| `SocketIO.PlainReadDelivers` | - | one recv may give less than was asked for, and this is called success |
| `TimedWait.AlwaysReturns` | `SetsBack = TRUE` | Time::Since throws when the clock was set back (`TCMTMessageQueue.cpp:100`) |
| `TimedWait.WaitsItsTime` | `Infinite` in `Timeouts` | Infinite minus elapsed is not infinite, its sum with now wraps: the wait spins (`:103`) |
| `Clock.NeverAhead` | `MaxBacks > 0` | a clock set back by d adds d (`TCClock.cpp:103`) |
| `FileTree.CreatesUnlessInTheWay` | two makers | a directory another thread made between the looks fails the call (`TCFile.cpp:61`) |
| `FileTree.RemovesOnlyBelow` | a tree with a `Link` | the directory behind a link is emptied (`TCFile.cpp:85`) |
| `FileTree.RemovesAnyDirectory` | a `Link` to nothing | such a link stays and so does its directory (`TCFilePosix.cpp:356`) |
| `FileCopy.CopiesExactly` | `Partial = TRUE` | after a short write the buffer is written again from its begin (`TCFilePosix.cpp:194`) |
| `FileCopy.OthersStayOpen` | - | descriptor 0 is closed when stat fails (`:183`) |
| `FileStreams.SeekTold` | `Kind = "gz"` | the position gzseek returns is compared with 0 (`TCGzFileStream.cpp:188`) |
| `FileStreams.CloneKeeps` | `Kind = "file"` | a clone of a stream that writes empties the file (`TCFileStream.cpp:259`) |
| `FileStreams.NotOpenIsDead` | - | a stream that could not be opened has a direction (`:129`) |
| `Codec.RoundTrip` | strings in a vector; a byte 0 in a string | a space after the element is read as part of it; the rest is lost (`TCStream.h:373`, binary codec `:178`) |
| `MemoryStreams.ReadTold` | `Kind = "string"` | ReadBytes returns the number asked for (`TCStringStream.cpp:96`) |
| `MemoryStreams.EndTold` | `Kind = "memory"` | a read that does not fit sets no status (`TCMemoryStream.cpp:91`) |
| `MemoryStreams.AccessInside` | `BeforeBegin = TRUE` | a position before the begin wraps, and twice is inside again (`:143`) |
| `UnitTest.UncleanIsNotOk` | - | a run that was abandoned is ok (`TCUnitTreeTestResult.h:70`, `cleanliness_check.cc:112`) |
| `UnitTest.ThrowsOrFails` | - | the failure itself is caught as the expected exception (`TCUnitTestCase.h:90`) |
| `DebugHeap.Sorted` | `Threads` more than half of the ids apart | the order of ids is none (`TCDebugHeap.cpp:218`) |
| `DebugHeap.ReAllocAnswers` | - | ReAlloc frees the new block and returns 0 (`:381`) |
| `Viewer.FullAtRest` | `Toggles = TRUE` | turbo switched off in an operation leaves less detail (`TCOpenGLViewer.cpp:3244`) |
| `Viewer.ControlToggles` | objects | a click with Shift selects twice, one with Control unselects once (`:1805`) |
| `Viewer.LassoSelects`, `LassoErased` | a lasso | the lasso selects nothing; its box stays (`:1535`, `:2185`) |
| `Viewer.NoPickWithoutHits` | a negative limit | a negative limit of hits throws (`:849`) |
| `Scene.BoundsCorrect` | `Shifts` | bounds are those before the object was dragged (`TCOpenGLObject3D.cpp:96`) |

Not stated, but seen while modelling the sequence: `SetToStart` resets the index and
not the parts; `RemoveSoundData` of a part in front shifts what is played;
`m_current_sound_data` has no initial value until the task calls `SetToStart`.

## 6. Plan

Done, in this order: event, queue with mailbox, thread, named mutex, pointers;
synchronous sends, socket server and sockets, streaming thread and task, hash
table, time, Windows condition; files, streams, codecs, settings, unit tests, debug
heap, clock; viewer, scene, sequence of sounds; proofs of the queue as a mailbox, of the
named mutex, of Copy, of the hash table, of the registry of threads and of Join; of
synchronous sends, of the Windows condition, of the pointers, of the socket server,
of the bytes of a connection, of timed waits and of the frames of the clock; of the
streaming thread and task, of streams over memory and files, of the keys of a table and of
the settings, of the modes and the selection of the viewer, of sequences of sounds and of
the unit tests.

Left, in the order of their worth:

1. Several creators in `Thread`; pointers inside objects in `SharedPtr`.
2. Looping, volume and the tasks that change it in `StreamingTask`; exceptions of receivers
   in `SocketServer`.

## 7. Not modelled

- Images and icons (`TCGuiImages.cpp`, `images.h`, icon sources: a fifth of the lines), test
  programs, licence headers, declarations: no behaviour.
- Windows classes apart from the condition; Windows files: they wrap one call each, and
  repeat the POSIX ones.
- `GUI`, the camera, drawing, textures and materials of `OpenGL`: driven by FOX and
  OpenGL, floating point; vectors and matrices of `Math` for the same reason.
- Strings, language files, output, trace, `OS` services, SSL, decoders (wav, mp3, ogg):
  parsing and formatting, or one call of a library each.
- Random numbers, checksums: arithmetic without a state.

For this reason the map covers about a tenth of the lines of the repository.  A process that
dies with a named mutex is not modelled: the code has no recovery.  Hazards
of two first calls of `CreateThread` at once, of a size 0 of a hash table and of a
failed `new` are known and not stated.  Memory ordering of the plain variables
(`m_state`, `m_owner_process`, the use count read by `GetUseCount`) is taken as
sequentially consistent.
