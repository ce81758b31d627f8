# TLA+ models of MMOServer

This directory holds TLA+ models of the server core in `src/ServerCore`: an IOCP network
layer, a job system that serialises the work of a session, and the buffers and lock-free
containers in between. TLC checks the models on small instances; TLAPS proves the main
invariants for every value of the constants.

`PROJECT.json` is the index: components, runs, the source lines behind each definition
(`map`), the slips used to test the properties (`mutants`), findings, hazards and theorems.

## 1. The system

### Threads and data flow

- **IOCP workers** (`NetworkServer::WorkerThread`) take `NetworkTask` objects from one
  completion port and call `Run`; a task whose `Run` returns false is deleted. Posting a
  task (`WorkerPush`) and completing an I/O both put it into the port's queue, and any
  worker may take it.
- **Logic threads** (`JobDispatcher::Run`) take `JobQueue`s from the dispatcher and execute
  their jobs.
- **Application threads**: `PlayServer` calls `Listen` once; the bots of `DummyClient` call
  `Connect`, `Send` and `RemoveSession` from the main loop.

A message travels: peer -> WSARecv into the session's `RingQ` ->
`NetworkTaskReceiveIO::Complete` cuts it off -> `OnRecvMessage` -> `JobQueue::Push` -> a
logic thread -> the handler -> `NetworkSession::Send` -> `m_sendQueue` -> `NetworkTaskSend`
-> WSASend.

### Components

| Component | State | Operations | Interacts with | What is hard |
|---|---|---|---|---|
| `JobQueue`, `JobDispatcher` | jobs and atomic counter per session; list of active queues, `m_running`, condition variable | `Push`, `Pop`, `Decrement`, `PushJobQueue`, `PopJobQueue`, `Run`, destructor | called by IOCP workers, runs handlers | counter changed outside the lock, notifications after unlock, timeouts, shutdown |
| `RingQ` | two positions, buffer | `Enqueue`, `Dequeue`, `Peek`, `GetDirectEnQData`, `Move*Position`, `ClearBuffer`, sizes | used by the receive task | wrap-around, one unused cell, two-part buffers |
| Receive task | step, session | `Start`, `Complete`, `OnRecvMessage` | ring, job queue, session map | stream cut anywhere, close from another thread, failures |
| Send path | `m_sendQueue`, `m_isSending`, packets of a task | `Send`, `NetworkTaskSend::Start`, `Complete` | any thread, IOCP | several tasks per session at once, flag against queue |
| `NetworkServer`, `NetworkSession`, accept and connect tasks | `m_sessions`, `m_socket`, last ID, tasks | `Listen`, `Connect`, `CreateNewSession`, `RemoveSession`, `SetSocket`, `OnAccept`, `OnConnected`, `AcceptIO`, `NewUser`, `Connect`, `ConnectIO` | everything | SOCKET values that are reused, removal between two steps, one accept task |
| `LockFreeQ`, `LockFreeStack`, `FreeList` | tagged pointers, nodes, counts | `EnQ`, `DeQ`, `Push`, `Pop`, `Alloc`, `Free` | send path, memory pool | ABA, stale pointers |
| `ObjectPool`, `ChunkPage`, `PointerStack`, `MemoryPool` | a current page per thread, two stacks of slots per page, a global stack of batches | `AllocFromChunk`, `FreeToChunk`, `ChunkAlloc`, `RecycledToMyLocalPool`, `TryStealFromGlobal` | every allocation | slots freed by another thread, stacks without a lock |
| `BotManager` | bot states, last assigned ID | `Tick`, `TryAssignSessionIDs`, `SendPacket`, `DisconnectBot`, `ReconnectBot` | session map | IDs taken by polling |
| `UIDGenerator` | one atomic counter | `GenerateSessionID` | sessions | - |
| Logging, time, dump, DB helper, protocol | - | - | - | no state the others depend on |

### What makes each part correct

- Job system: a session's jobs are executed by one thread at a time and in order; no stored
  job is forgotten; the destructor returns.
- Ring: it is a byte queue; what is offered to WSARecv is free.
- Receive path: exactly the messages sent are pushed, however the stream is cut; closing the
  socket ends the reception.
- Send path: one WSASend at a time, order kept, every packet sent, every packet deleted
  once.
- Life cycle: a session has one receive task and one socket of its own; a socket has an
  owner who closes it; accepting goes on; finished tasks are deleted.
- Lock-free containers: no node is handed out twice, queue and stack behave as if
  sequential.
- Memory pool: a slot is in one place, two threads never meet inside one stack of a page, a
  page that is given up leaves nothing usable behind.
- Bots: every session that was handed out has one bot, and a connecting bot gets one.

## 2. The modules

| Module | Models | Variables and actions |
|---|---|---|
| `SerialExecutor` | abstract: what the job system promises | `Accept`, `Start`, `Finish` per session |
| `JobDispatcher` | `JobQueue.cpp`, `JobDispatcher.cpp` | one step per lock section, atomic operation and notification; `ppc`, `wpc`, `owner` are the program counters of producers, logic threads and the destructor |
| `ByteQueue` | abstract: a bounded FIFO of bytes | write, read, peek, clear |
| `RingQ` | `RingBuffer.cpp` | `readPosition`, `writePosition`, `buffer`; one action per call; copies are one or two segments as in the code |
| `ReceiveIO` | `NetworkTaskReceiveIO`, `OnRecvMessage`; EXTENDS `RingQ` | the peer's stream, the task's step, the session's membership in `m_sessions` |
| `SessionSend` | `NetworkSession::Send`, `NetworkTaskSend` | `sendQueue`, `isSending`, and per task its step and packets |
| `NetworkServer` | `NetworkServer.cpp`, life cycle of `NetworkSession`, accept and connect tasks | `sessions`, `socket`, the system's handle table `kernel`, the set of existing tasks |
| `BotManager` | `BotManager.cpp`, the loop of `DummyClient::Run`; EXTENDS `NetworkServer` | `bots`, `lastAssignedID`, and where the main thread is (`loop`); the actions of workers and peers come from `NetworkServer` |
| `ObjectPool` | `ObjectPool.h`, `Chunk.h`, `PointerStack.h`: one size class | `fresh`, `recycled` per page, `tls` per thread, `batches`, and the call each thread is in |
| `FreeList` | `FreeList.h`: the lock-free list of recycled nodes | `top` (pointer and `m_checkID`), `next`, `freeFlag`; one step per access to shared memory |
| `LockFreeStack` | `LockFreeStack.h` | `top`, `count`, nodes; `Push`, `Pop` in steps |
| `LockFreeQ` | `LockFreeQ.h` | `front`, `rear`, `rearID`, `count`, nodes; `EnQ`, `DeQ` in steps |
| `JobDispatcherProofs`, `RingQProofs`, `SessionSendProofs`, `FreeListProofs`, `LockFreeStackProofs`, `LockFreeQProofs`, `ObjectPoolProofs`, `NetworkServerProofs` | theorems | each EXTENDS the module of its name; `RingQProofs` EXTENDS `ReceiveIO` and `NetworkServerProofs` EXTENDS `BotManager`, and so cover both |
| `MC*` | instances for TLC | symmetry sets, byte strings |

Conventions. Variables carry the names of the members they stand for. Variables marked
*history* are never read by an action; properties use them. An operator commented *Slip:* is
a plausible mistake in the definition that follows it and is no part of a specification; the
mutants of `PROJECT.json` put it in the definition's place to show that a property notices.

### JobDispatcher

`JobQueue::m_lock` is held across `PushJobQueue`, so it is a variable (`lock`).
`JobDispatcher::m_lock` protects sections that never block, so each is one step.
`fetch_add`, `fetch_sub` and each `notify` are steps of their own, because other threads can
run between them and the sections. Waiting is a set of workers; notifications remove one
(any one) or all; spurious wake-ups and timeouts are actions. A job is the number of its
acceptance in its session. Handlers are opaque: they begin (`ExcuteBegin`) and end
(`ExcuteEnd`). After the destructor has returned nobody pushes: this is the application's
obligation (see section 6).

`SerialExecutor` is implemented under the mapping: the job being handled in `q` is the next
one of the batch of the worker that holds `q` and is inside a handler.

### RingQ and ByteQueue

A position is the index of the byte read or written last, as in the code. `Segments` is the
split of a copy into the part up to the wrap and the rest; `GetDirectEnQData` gives the
WSABUFs. `ReceiveDirect` is WSARecv filling them and the completion calling
`MoveWitePosition`. Calls with size 0 are left out: no caller makes them. Getters without
callers are left out.

### ReceiveIO

A byte is the pair (message, index), so that a byte in the wrong place is noticed.
Encryption is left out because it does not move bytes. The flatbuffers verifier is the
`valid` flag of a message, which `Verdicts` may restrict; of bytes that are no message of
the peer the verifier may say anything (`Hand`). `Complete` parses through a linear pointer
(`GetReadBufferPtr`): as long as a message lies inside `m_Buffer` its bytes are the ring's,
beyond the end they may be anything, and `spoiled` records it. `Start` ends the task when
the ring is full or WSARecv is refused.

Another thread may remove the session at any moment. `Disconnect` closes the socket and
leaves `m_socket` as it is, so that the task's next WSARecv is refused or, if the system has
used the handle again, accepted on another connection: the task is then "straying". Bytes of
that connection (`Foreign`) go into the ring behind those of the peer and are parsed like
them; this sets `spoiled` too. `StraysOnce` bounds this to one completion with data. The
task never comes back to its own connection (`Off`), whose socket is closed. The opposite
case, in which the task of a removed session takes bytes off this one's connection, is not
in this module, which has one session; `StartIO` of `NetworkServer` has it.

### SessionSend

Each call of `Send` has a packet and a task, both with the number of the `EnQ`. Every task
may run on a worker of its own. `m_sendQueue` is a FIFO: `LockFreeQ` below is the module
about its inside. Of that, one thing is visible here: `EnQ` links its item first and counts
it in a later step (`EnQReturn`), and `DeQ` goes by the count. So `DeQ` may report an empty
queue while items are linked, one whose `EnQ` has returned among them (`Count`, `DeQEmpty`).
`Complete` ignores the result apart from logging, so success and failure are one action.

### NetworkServer

The point of this module is that a SOCKET is a number the system uses again. `kernel` maps
handles to sockets, numbered by creation; `mine[s]` remembers which socket session `s` was
given. I/O is started on whatever `m_socket` stands for at that moment. A new session's
`m_socket` is not initialised by the constructor, so its value is any handle or none. What
another thread can observe in the middle of a task is split into steps: `CreateNewSession`
registers the session before the socket is set, and `ConnectStart` sets the socket before
`ConnectEx` uses it. `MayFail` adds failures of calls that would otherwise succeed.
`SetSocket` ignores a failure of `RegisterSocketToIOCP`, after which no completion for that
socket arrives. The sockets of sessions need no case of their own, since nothing says
that their I/O completes; for the listener it is a failure like the others (`failed`). The
data paths are reduced to the task's step: data just makes a receive task go round, and two
waiting send tasks of one session count as one.

`Next` is the server program: it listens, and its sessions are removed only by their receive
tasks. `Connect`, `Send` and `RemoveSession` are called by the client program, which is
`BotManager`.

### BotManager

The main thread of `DummyClient` on top of `NetworkServer`. `loop` says which bot it handles
in which part of the loop: `Start` connects every bot; then `TryAssignSessionIDs` ("Assign")
and the rest of `Tick` ("Act", "Cycle") alternate. One bot is one step (a connected one that
sends takes two), since `FindSession`, `RemoveSession` and `Connect` lock or post once each
and workers run in between. The clock is left out: a bot whose time has come may act, and
`Wait` or `EndCycle` is the tick in which it has not. `RequestStop` by the key thread is
`Stop`; it is tested between two ticks. `Assigned` and the test before it are separate reads
of `m_lastAssignedID`, which only the main thread uses.

### ObjectPool

A slot is (page, index); `Owner` is `m_chunkOwner`, `allocThread` the thread it was last
given to. `m_freshSlots` has no synchronisation, so a call that uses it is split: it begins
(and `page` of `op` names the stack) and it ends. When a thread begins while another is
inside, the program has a data race whose outcome the language leaves open: `raced` is set
and the model stops, since nothing could be said of what follows. `m_recycledSlots` is used
by the thread whose current page it belongs to, in one step. The global stack and the
`FreeList`s behind it are atomic here; `LockFreeStack` and `FreeList` are the modules about
their inside. Of the former one thing is visible: its `Pop` may fail with a batch present,
and then the thread takes a new page (`AllocFromNewChunk`). Clients free what they hold,
from any thread. `thread::id` hashes are taken to be different.

### FreeList, LockFreeStack, LockFreeQ

These three have no locks, so every read or write of a shared word is a step, and the two
halves of a pair (pointer, ID) are read one after the other, as the compiled code does; only
`InterlockedCompareExchange128` handles both at once. A failed exchange stores the present
pair in the local copy, and the loop goes on with that. The clients call at will: any
thread, any operation, up to `MaxCalls` calls, which is a bound of the model.

Stack and queue get their nodes from a `FreeList`. In their modules `Alloc` and `Free` are
single steps that hand out any node that is not out; that a node is never out twice is
`NodesApart` of `FreeList`, which is proved. A freed node stays readable (`FreeList` never
gives memory back before its destructor), so a thread with an old pointer reads whatever the
next owner writes: the ABA cases are in the model.

`LockFreeQ` ends its list with a unique ID at or above `KERNEL_ADDRESS` instead of a null
pointer. In the model IDs are numbers and addresses are model values. A step that
dereferences a null pointer leads to "crashed", where everything stops. The constructor of a
recycled node leaves `m_next` null until `EnQ` writes the ID, which is a step of its own.
`overlap` remembers that two calls of `DeQ` were under way at once. The send path never does
this: `OneSender` of `SessionSend` says that one task at a time dequeues.

How the modules meet. `NetworkServer` shows that a session has at most one receive task
(`OneReceiver`, in the server and in the client), which `ReceiveIO` takes for granted for
the unlocked ring; a message `ReceiveIO` delivers is the `PushLock` of `JobDispatcher`; a
task of `SessionSend` is a `Send` task of `NetworkServer`. `ReceiveIO` is composed with
`RingQ` directly, and `BotManager` with `NetworkServer`.

## 3. Runs

| Run | Config | Instance | Shows |
|---|---|---|---|
| `jobs` | `JobDispatcher.cfg` | 2 sessions, 2 producers, 2 workers, 2 jobs per session, timeouts and shutdown at any moment | types, `OneHolder`, `NotStranded`, `Counted`, `EveryJobHandled`, `ShutdownEnds`, `ImplementsSerial` |
| `ring` | `RingQ.cfg` | ring of 5 cells, all strings of 1..5 bytes over two values | types, `DirectSegmentsFree`, `ImplementsQueue` |
| `receive` | `ReceiveIO.cfg` | ring of 6, header of 2, up to 3 messages of payload 0, 3 or 4, every cut | `Reassembled`, `EveryMessageParsed`, `CloseEndsReception` |
| `send` | `SessionSend.cfg` | 3 senders, 4 packets, failures | types, `OneSender`, `WireInOrder`, `PacketsOwned`, `FlagReleased` |
| `server` | `NetworkServer.cfg` | a listener, 2 clients, 4 handles, failures | `OneReceiver`, `RegisteredOwn`, `SocketsOwned`, `EveryPeerAccepted` |
| `client` | `BotManager.cfg` | 2 bots, of which one leaves and comes back, 3 connections, 1 handle, a packet, failures | `OneReceiver`, `SessionsHeld`, `EveryBotConnects` |
| `freelist` | `FreeList.cfg` | 3 threads, 5 nodes, 9 calls | types, `NodesApart`, `ListLinked`, `FlagsTell` |
| `stack` | `LockFreeStack.cfg` | 3 threads, 3 nodes, 7 calls | `TopThere`, `StackLinked`, `PopsTop` |
| `queue` | `LockFreeQ.cfg` | 2 threads, 3 nodes, 8 calls | `QueueLinked`, `RearNear`, `TakesFirst`, `ReservedThere`, `CountExact` |
| `pool` | `ObjectPool.cfg` | 2 threads, pages of 2 slots, 3 pages, 7 allocations | `SlotsAccounted`, `HomeSlotsSafe`, `RetiredEmpty` |
| `receive_wrap` | `ReceiveIOWrap.cfg` | ring of 6, header of 2, 2 messages of payload 1, all valid | violation of `ReceivedIsPushed`, section 5 |
| `send_lost` | `SessionSendLost.cfg` | 2 senders | violation of `EveryPacketSent`, section 5 |

What the two newest runs show. `client`: however sessions come and go, no bot is given the
session of another one and every registered session that was handed out has its bot; a
connecting bot gets a session, with one exception that the property names (`Blocked`): the
session whose number is next was removed by its receive task before a bot asked for it. From
then on no bot is assigned again. `pool`: as long as no two threads meet inside one
`m_freshSlots`, no slot is handed out twice or lost, except those a full `PointerStack`
refuses (`dropped`); and they can meet only after a thread was given a slot of a page it did
not make. Freeing for another thread alone is harmless, because such slots go to the
recycled stack of the thread that frees.

Why the bounds are enough to be of interest:

- `jobs`: with two jobs per session a batch can be running while the next job is between
  `emplace_back` and `fetch_add`; two workers can both want the queue, and a second session
  keeps `m_activeJobQueue` from being trivially empty. The theorems remove the bound for the
  safety properties and the refinement. Timeouts happen but the fairness does not rely on
  them: with polling workers `EveryJobHandled` would hold without any notification.
- `ring`: 5 cells let both positions lie anywhere, each operation wrap in each of its two
  segments, and a write be longer than the ring. Content is compared byte by byte.
- `receive`: the ring holds 5 bytes. Payload 0 is a header alone, 3 fills the ring to its
  last byte and makes the next message begin at index 0, and 4 is the shortest message that
  can never fit. Three messages pass the end of the ring, and completions cut headers and
  payloads at every byte.
- `send`: four packets let one task drain two, another be discarded and a third be posted
  later.
- `server`: with a listener, an accept socket and two clients, four handles are the least
  that let each be open at once; closed handles are reused at once by the next client, which
  is the case of interest. Symmetry (of threads and nodes) is used only in runs
  without liveness properties.
- `client`: three connections are one per bot and one of a bot that comes back; the
  reconnect rate of 50 % makes one bot leave after its cycle and the other go on. With one
  handle every connection that is opened while another one is closing reuses its value.
- `pool`: two slots per page make a stack full, half full and empty; two recycled slots make
  a batch. Seven allocations leave room to use up a page, free its slots from the other
  thread, steal the batch and return a stolen slot while its page is in use. Three pages are
  the first ones of both threads and a replacement.
- `freelist`, `stack`, `queue`: the bounds on calls are what an ABA case takes. A thread
  stands before its exchange while the other removes two nodes and puts the first one back;
  counting the calls that built the list, this needs 8 calls in `FreeList`, 6 in the stack
  and 8 at the front of the queue. The mutants that ignore the ID in the exchange are found
  within these bounds. Three nodes of the queue are the dummy and two items.

`CHECK_DEADLOCK FALSE` is set where the program may rightly stop: a receive task that is
gone, a server without peers, a client that was stopped, clients of a container that have
made their calls. The job system and the send path have an explicit final state instead
(`Terminated`, `Quiet`), so that a thread waiting for ever would be reported.

### Fairness

- `JobDispatcher`: each thread inside `Push`, `Run` or the destructor takes another step if
  it continuously can (`WF` per thread). This is the scheduler of the operating system;
  mutexes are held for bounded sections and handlers are assumed to return. Nothing forces a
  push, a shutdown or a spurious wake-up.
- `ReceiveIO`: the completion port hands a posted or completed task to a worker, and a
  WSARecv with data or an error completes. The peer need not do anything, and neither need
  the other connection that a straying task receives on.
- `SessionSend`: a thread in `Send` goes on, in `EnQ` too, every posted task is run, and a
  WSASend completes.
- `BotManager`: the main thread keeps running its loop (it sleeps 10 ms between ticks and
  waits for nothing), and a worker takes a `Connect` task that was posted. No fairness for
  the rest: connections may take for ever or fail. Where a bot may act or wait, nothing says
  that it acts.
- The lock-free containers and the memory pool are checked for safety only: a call may be
  overtaken as often as others call, so that the end of its loop is no property of the code.
- `NetworkServer`: the accept task is run and a waiting peer completes its AcceptEx, as long
  as no call has failed for a reason of its own (`failed`): without its registration at the
  completion port the listener gets no completion. Only the accept steps are fair; sessions
  may stall.

## 4. Proofs

`JobDispatcherProofs` (for any number of sessions, producers, workers and jobs):
`TypeCorrect`, `Serialised` (`OneHolder`), `OrderKept` (`InOrder`, which the run covers by
`ImplementsSerial`), `CounterExact` (`Counted`), `NoJobStranded` (`NotStranded`) and
`Refinement` (`ImplementsSerial`). Assumptions: `JobAssumption` (null values are no queue or
thread, `MaxJobs` is a natural number).

The inductive invariant `IInv`, which like those below is defined in the module of the
proofs, adds to these properties:

- `LockHeld`: a producer is inside `Push` exactly while it holds its target's lock, and the
  job it stored is still there while it is not counted;
- `RunLocals`: what a worker's locals are at each point of the loop;
- `ChargeCounted`: somebody is in charge of a queue exactly when its counter is not 0. This
  is the reason `Push` may schedule on `fetch_add` returning 0, and it is what makes
  `OneHolder` inductive: the queue of a producer about to dispatch has no holder since its
  counter was 0;
- `Ordered`: stored jobs, the batch and the executed jobs are consecutive.

One lemma per action shows `IInv /\ Next => IInv'`; `Refinement` uses it to map every step
to `Accept`, `Start`, `Finish` or a stutter.

`SessionSendProofs` (for any number of senders and calls): `TypeCorrect`, `SendLock`
(`OneSender`), `StreamOrder` (`WireInOrder`), `Ownership` (`PacketsOwned`). `IInv` adds
`PostingOwn` (a packet's task is posted once) and `Ordered` (stream, then the packets of the
task in charge, then the queue: each ahead of the next in the order of `EnQ`). The order of
the stream alone is not inductive: it depends on what is still to be sent. That calls of
`EnQ` not yet counted are finitely many (`CountKnown`) makes `Count` a number. Assumption:
`SendAssumption`.

`RingQProofs` (for a ring of any size of at least 2 and any non-empty byte strings):
`TypeCorrect` (`RingTypeOK`), `SizesExact` (`SizesAddUp`), `DirectFree`
(`DirectSegmentsFree`) and `Refinement` (`ImplementsQueue`). Assumptions: `RingAssumption`
and, for the refinement, `InputAssumption` (what is written is a non-empty sequence). The
two positions being cells is inductive by itself; the others follow from it in every
reachable state, by cases on how the positions lie (`DirectCases`) and where the unread
bytes are (`UnreadCells`). `Refinement` maps the contents of the abstract queue to `Unread`
and rests on three facts: the segments of a call, whether `Segments` or the WSABUFs computed
them, cover the cells behind a position one after the other and go on at cell 0
(`Layout`); a copy into such segments changes these cells and no other (`CopyInWhere`), and
a copy out reads them in order (`CopyOutIs`); and moving a position changes the used size by
just that much (`UsedAfterWrite`, `UsedAfterRead`). Then a write appends to `Unread`
(`WriteAppends`), a read drops its first bytes (`ReadDrops`), and every call is a step of
`ByteQueue`.

The same module proves `MessagesReassembled` (`Reassembled` of `ReceiveIO`) for every ring,
header size, set of payload lengths and number of messages; assumption: `ReceiveAssumption`
besides `RingAssumption`. `InSync` relates a byte to the one before it and would need an
induction over the message to say where it ends. `ReceiveInv` therefore says it in closed
form (`Follows`): from any byte on, every following one up to the end of its message is
determined, and the next message begins behind it; and, while the peer has not reset the
connection, the stream reaches to the end of the last message sent (`ToTheEnd`), which is
what a later message is appended to. A completion moves bytes from the wire to the ring and
leaves the stream as it is (by `WriteAppends`), a reset leaves a prefix, and a round of the
parse loop finds, as long as it reads inside m_Buffer, the header of message `parsed + 1` at
the read position (`NextInRing`). All of it is claimed only until `spoiled`: the finding
`receive_wrap` shows what happens then.

`FreeListProofs` (for any number of threads, nodes and calls): `TypeCorrect`, `NoNodeTwice`
(`NodesApart`), `LinksRight` (`ListLinked`), `FlagsRight` (`FlagsTell`). Assumption:
`FreeListAssumption`. What makes them inductive is `CopiesKnown`: the counter grows with
every exchange, so a thread's copy is never newer than the top, and if its copy equals the
top then nothing has happened since it was taken and the link it has read is still right.
The two halves of a copy are read apart; the proof shows that this does no harm, because the
counter is read second and a pair that never existed does not compare equal later.

`LockFreeStackProofs` (for any number of threads, nodes and calls): `TypeCorrect`,
`PopFindsNode` (`TopThere`), `LinksRight` (`StackLinked`), `PopsRight` (`PopsTop`).
Assumption: `StackAssumption`, which says that there are finitely many threads, because
`m_count` is compared with numbers of threads. To the analogue of `CopiesKnown` above `IInv`
adds `NodesApart`, so that writing to a new node or freeing a popped one cannot touch the
stack, and `Counts`: `m_count` is the length of the stack less the calls between their two
updates, and there is an item for every `Pop` that holds a reservation. The first half alone
is not inductive: a `Pop` whose decrement was not negative must keep its item until its
exchange, whatever other calls of `Pop` that fail and restore do to `m_count` meanwhile.

`LockFreeQProofs` (for any number of threads, nodes and calls): `LinksHold` (`QueueLinked`),
`RearStaysNear` (`RearNear`), `ReturnsFirst` (`TakesFirst`), `ReservationKept`
(`ReservedThere`), `CountsRight` (`CountExact`). Assumption: `QueueAssumption` (IDs, nodes
and null are different; finitely many threads). `IInv` was checked by TLC with 3 threads, 4
nodes and 5 calls before it was proved. Its parts and why they are needed:

- `Linked`, `Apart`: the chain from the front node, and no node in two places;
- `IDs`: only the last node and the nodes that an `EnQ` is preparing end with an ID, no two
  with the same, and the ID of the rear is at no other node. `RearCopy` says the same of a
  copy of the rear, whose two halves may stem from different moments: it follows
  (`LinkAtEnd`) that the first exchange of `EnQ`, which compares only an ID, can succeed on
  no node but the last, and only while the rear is up to date and equal to the copy;
- `RearKnown`: a rear that is behind has an `EnQ` that will move it, whose copy still equals
  the rear. Since that `EnQ` has not counted its item, `Counts` leaves a `DeQ` at least two
  items (`Enough`), and the node of the rear is not the one that `DeQ` takes away;
- `FrontCopy`: a copy of the front that is still equal to it was read with the successor and
  the data that are right now, since `m_checkID` of the front only grows;
- `Lone`: while no two calls of `DeQ` overlap, every copy of the front is up to date.

The theorems hold in spite of the null pointer that `EnQ` may meet (section 5): a thread in
"crashed" stops the model, and `Counts` is stated for the states before.

`ObjectPoolProofs` (for any number of threads, pages and slots per page): `HomeIsSafe`
(`HomeSlotsSafe`), `NothingRetired` (`RetiredEmpty`) and `EverySlotOnce`
(`SlotsAccounted`). Assumption: `PoolAssumption`. `Inv` says what a call relies on between
its two steps (`Relies`: the page it is inside is its own current page, a stack to be popped
has a slot, a page to be given up has none) and, for `HomeIsSafe`, that until a slot moves
each thread is only inside pages it made (`Homes`). `Accounted` names every stack and batch
and says that they are without repetition, disjoint from each other and from what clients
have, and complete; the cardinality in `SlotsAccounted` follows from it. It needs `Inv`
because pushing on a full stack or giving up a page that is not empty would lose slots.

`NetworkServerProofs` (for any number of handles, peers, bots and calls): `ReceivesOnce` and
`BotsReceiveOnce` (`OneReceiver` of the server and of the client), `SessionsKeepSockets`
(`RegisteredOwn`), `NoSocketLost` (`SocketsOwned`) and `BotsHoldSessions` (`SessionsHeld`).
Assumptions: `ServerAssumption` and that of `BotManager`. `BaseInv` holds for both
programs: a session has one task that may create its receiver or has had it (`OneStarter`),
and `Bounded` shows that the numbers of sessions do not exceed the bound of the model, which
without it would be a hidden assumption. `ServerInv` adds that an open socket has one
holder, a session or a task (`OneHolder`), and that sessions are given a socket once
(`SocketOnce`); since handles are used again, `RegisteredOwn` is not inductive without them:
a second holder could close the handle. `BotInv` adds what the main thread knows of the
sessions.

Only model-checked: the liveness properties, since fairness and ENABLED are outside the
prover. Every invariant and both refinements that a passing run checks are proved.

## 5. Findings

Each is a run whose property states what the documentation says, and which TLC refutes.

- `send_lost` (`EveryPacketSent`): `NetworkTaskSend::Start` discards its task when another
  one is sending, and that one resets `m_isSending` without looking at the queue again. A
  packet enqueued in between stays until somebody sends again.
- `receive_wrap` (`ReceivedIsPushed`): the parse loop reads a message through a linear
  pointer although it may lie across the end of the ring. The peer of this run sends only
  valid messages and the session stays registered. The second message is cut off the ring
  and is not pushed, or other bytes are pushed in its place: its last byte is not where the
  pointer looks for it.

Behaviour that the models show and no run of its own states:

- A task posted before its session was removed starts its I/O on the old value of `m_socket`
  (NetworkTask.cpp:308), which may be another client's socket by then: in run `server`, a
  client that leaves at once has its `FConnectAck` sent on the socket of the next one. On
  the receive side the task may go on with the bytes of another connection ("straying" of
  `ReceiveIO`), which it parses and pushes for the removed session.
- Two threads can meet inside one `m_freshSlots`: checking `~raced` as an invariant of run
  `pool` gives a trace of ten states. A thread frees a slot that another one allocated, is
  given it from its recycled slots, and frees it again; `ChunkPage::Free` now takes it for a
  slot of its own and pushes it on the stack of the page that made it (Chunk.h:128-131),
  whose thread may be popping. The repository's README (116) calls frees by other threads
  safe; `HomeSlotsSafe` says what is true of this.
- A slot freed twice is not noticed (README, 117, says it is): `m_markValue` and
  `m_chunkOwner` do not change when a slot is freed. The clients of the model free a slot
  once.
- A connected bot whose session its receive task removed stays as it is: `SendPacket` fails
  for ever, and the bot neither ends its cycle nor connects again.
- `NetworkTaskReceiveIO::Start` ends the task without removing the session when the ring is
  full or WSARecv is refused; the session stays registered without a receiver.
- Removing a session that has no socket yet closes the uninitialised `m_socket`: with
  removals, `RegisteredOwn` fails for outgoing connections. Run `server` shows that it holds
  where sessions are removed only by their receive task, and so have a socket.
- `EnQ` can meet a null pointer (LockFreeQ.h:128-135): its copy of the rear may be a node
  that was freed and handed out again and whose `m_next` is still the null of its
  constructor. The state "crashed" of `LockFreeQ` is reached.
- With several consumers `DeQ` may spin on an old copy of the front (LockFreeQ.h:196-199).
  `ReservedThere` is therefore stated for calls that do not overlap or have a current copy.
- `Pop` and `DeQ` may return false though the container is not empty, while another failing
  call has not yet restored `m_count`; `CountExact` says by how much.

`SocketsOwned` and `EveryPeerAccepted` are stated for the time before a call fails for a
reason of its own (`failed`): when WSASocket or AcceptEx fails once in `AcceptStart`, the
only accept task ends and its client socket is lost. No document promises otherwise, so this
is listed as a hazard and not as a finding. Likewise `NetworkTaskConnect::Run` returns true
although no I/O of the task is under way: the task is never deleted (`SessionConnect` leaves
it behind as "kept").

## 6. Not modelled

- `NetworkServer::Initialize` and the end of the workers: the workers exist for the whole
  run.
- Pushes to a destroyed dispatcher: the application keeps the dispatcher in a member while
  IOCP workers run; the repository's README names shutdown as not cleaned up.
- `NetworkTaskClose`, `NetworkTaskChange`: bodies are commented out and nothing creates
  them.
- Deleting a task through a base class without virtual destructor: outside a model without a
  heap.
- Short or failed sends as gaps in the peer's stream (they are only logged by the code).
- The table of size classes of `MemoryPool` (it forwards to one `ObjectPool` per class),
  allocations above 4096 bytes, which go to the C runtime, and `MyAllocator`, an adapter
  without state.
- The statistics of `BotManager`, and the times it waits.
- `PlayServer`'s handler table, logging, time, dumps, `DBSession`, the SQL scripts, the
  FlatBuffers schema and generated code, `TemplateQ`, `MemoryLog` and
  `NetworkSession_bak.cpp` (unused or not compiled).

Most of the repository's lines are vendored or generated: `spdlog` with its `fmt`,
`flatbuffers`, `libpqxx`, and the headers generated from the schema. They have no part in
the protocols between the threads of this program and are not modelled. Of the program's own
code, what is left out is listed above.

## 7. Plan

Done, in this order: `JobDispatcher` with `SerialExecutor`; `RingQ` with `ByteQueue`;
`ReceiveIO` on `RingQ`; `SessionSend`; `NetworkServer`; `FreeList`, `LockFreeStack`,
`LockFreeQ`; `ObjectPool`; `BotManager` on `NetworkServer`; the proofs above.

Left, where a later change of the code calls for it: an abstract stack and queue as the
specifications of `LockFreeStack` and `LockFreeQ`, whose linearization points the proofs
already name, and a server composed with its sessions' receive and send paths, which are
now modelled one session at a time.
