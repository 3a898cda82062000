# Formal models of WebKit's locks, IPC and disk cache

TLA+ models, TLC runs and TLAPS proofs for three parts of this WebKit tree
whose correctness is a matter of who does what when:

- the synchronization core on which every other thread rests: `WTF::WordLock`,
  `WTF::ParkingLot`, `WTF::Lock` and `WTF::Condition` (`WTF/wtf`);
- `IPC::Connection`, by which the processes of WebKit2 send each other
  messages and make synchronous calls (`WebKit2/Platform/IPC`);
- `NetworkCache::Storage`, the disk cache of the network process
  (`WebKit2/NetworkProcess/cache`).

Every definition is translated from the source; `PROJECT.json` maps each one
to the lines it stands for. Paths below are relative to `src/Source` unless
they start with `src/`.

## 1. Inventory

### 1.1 The locks

The four classes form a tower. `Lock` and `Condition` are one byte each and
keep their waiting threads in the `ParkingLot`, a global table of queues keyed
by address. `ParkingLot` protects each bucket of that table with a
`WordLock`, a lock that needs no help from it because its queue lives in its
own word.

| Component | State | Operations | Talks to |
|---|---|---|---|
| `WordLock` | `m_word`: isLockedBit, isQueueLockedBit, pointer to the first waiting `ThreadData`; per thread `shouldPark`, `nextInQueue`, `queueTail`, a `std::mutex` and a `std::condition_variable` | `lock`, `unlock`, `lockSlow`, `unlockSlow` | the OS |
| `ParkingLot` | the current `Hashtable` (older ones are never freed), its `Bucket`s (queue + `WordLock`), `numThreads`, per thread `address`, `nextInQueue`, `parkingLock`, `parkingCondition` | `parkConditionally`, `compareAndPark`, `unparkOne` (2), `unparkAll`, `forEach`, construction and destruction of `ThreadData`, `ensureHashtableSize` | `WordLock`; calls back into its users (`validation`, `beforeSleep`, the `unparkOne` callback) |
| `Lock` | `m_byte`: isHeldBit, hasParkedBit | `lock`, `tryLock`, `unlock`, slow paths | `compareAndPark`, `unparkOne` with a callback |
| `Condition` | `m_hasWaiters` | `waitUntil`, `wait`, `waitFor`, `notifyOne`, `notifyAll` | `parkConditionally`, `unparkOne`, `unparkAll`, the caller's lock |

What is hard about them:

- Every step of every operation is an access to memory that other threads are
  changing. Several stores are *not* compare-and-swaps (`WordLock.cpp:144`,
  `157`, `247`; `Lock.cpp:100`; `Condition.h:175`) and are correct only
  because of a global argument about who may write what when.
- Weak compare-and-swaps fail for no reason, and sleeping threads wake up for
  no reason.
- A notification may come before, during or after the sleep that it ends.
- A timeout races with the unpark it makes superfluous.
- The hash table is replaced while other threads are between reading it and
  locking one of its buckets.
- All buckets of a table are locked at once, by threads that see different
  generations of the table.

What makes them correct: mutual exclusion; queues that are FIFO, contain
exactly the threads that sleep, and survive a rehash; no lost wake-up; no
deadlock; `parkConditionally` returns `true` exactly for threads that were
unparked; the assertions in the code.

### 1.2 WebKit2 IPC

`WebKit2/Platform/IPC/Connection.{h,cpp}` and `unix/ConnectionUnix.cpp`.

- *State of a `Connection`:* `m_client` (null means invalid), `m_isConnected`,
  `m_shouldWaitForSyncReplies`, the queues `m_incomingMessages` and
  `m_outgoingMessages`, the stack `m_pendingSyncReplies`, the map of secondary
  threads that wait for a reply, `m_waitingForMessage`, the counter of request
  IDs. *Per process:* `SyncMessageState`, shared by all connections: the
  messages to be dispatched while the main thread waits, the set of
  connections whose dispatch is scheduled, one binary semaphore.
- *Operations:* `sendMessage`, `sendSyncMessage`, `sendSyncReply`,
  `waitForMessage`, `waitForAndDispatchImmediately`,
  `sendSyncMessageFromSecondaryThread`, `processIncomingMessage`,
  `dispatchOneMessage`, `dispatchMessages`, `invalidate`,
  `connectionDidClose`, `postConnectionDidCloseOnConnectionWorkQueue`.
- *Actors:* for each process its main thread (whose handlers call
  synchronously themselves), secondary threads, and one work queue thread per
  connection that reads and writes the socket; the socket between two
  processes; the kernel, which closes the sockets of a process that dies.

What is hard: two processes that call each other at once, so that each has to
dispatch the other's message while it waits; nested dispatch, with one
semaphore for all connections and all depths; replies that arrive in another
order than the stack, or after their caller has given up; a close, a crash or
an invalidation between any two of these steps; a socket that is full.

What makes it correct: every synchronous call returns; a reply ends the call
that it answers and no other; nobody sleeps while there is something for him
to do; messages keep their order where order is promised; no message stays
behind; a client is told, once, that its connection is gone.

### 1.3 The disk cache

`WebKit2/NetworkProcess/cache/NetworkCacheStorage.{h,cpp}` with
`NetworkCacheBlobStorage.cpp` and `NetworkCacheIOChannelSoup.cpp`.

- *State:* pending and active `WriteOperation`s and `ReadOperation`s (reads by
  priority), the record filter and the body filter (Bloom filters of what may
  be on the disk, absent until the first synchronization), the hashes added
  during a synchronization, the flags `m_synchronizationInProgress` and
  `m_shrinkInProgress`, a timer that delays writes and one that cancels slow
  reads. *On the disk:* one file per record; a large body is a second file, a
  link to a blob.
- *Operations:* `store`, `retrieve`, `remove`, `clear`, `setCapacity`,
  `synchronize`, `shrink`, and the functions they dispatch.
- *Actors:* the main thread, which owns all members; the I/O queue, the
  background queue and the serial background queue; a thread per read;
  asynchronous writes. Nothing orders the three queues.

What is hard: a record and its body are two files that are read and written in
several steps by several queues; a key is stored, read, removed and stored
again while earlier functions for it are still queued; the filters are rebuilt
from the disk while the disk changes; a read that times out is answered and
then finishes all the same; an earlier session may have ended at any point;
every file operation may fail.

What makes it correct: a record is answered with its own body or not at all,
and once; an older write never overwrites a younger one; what is on the disk
can be found; everything comes to an end.

### 1.4 The rest of the tree

`PROJECT.json` lists every component with the reason why it is not modelled.
In short: JavaScriptCore's compilers and runtime, WebCore's DOM, style, layout
and rendering are sequential algorithms over unbounded data, specified by web
standards; the platform layers, the GTK+ API, the inspector and the tools are
glue or user interface; third-party code is vendored. Candidates for later
modules, because they have concurrent state of their own, are the coordination
of Web SQL transactions (`WebCore/Modules/webdatabase`), the scavenger of
`bmalloc`, and the launch and end of processes (`WebKit2/UIProcess`). The map
of this project therefore covers a small share of the tree as a whole, and
most of the files it is about.

## 2. Modules

| Module | Models | Notes |
|---|---|---|
| `Mutex` | what a lock promises | abstract: each thread is *out*, *waiting* or *in* |
| `WordLock` | `WordLock.h`, `WordLock.cpp` | one step per access to shared memory; implements `Mutex` |
| `WordLockProofs` | | theorems about `WordLock` |
| `SequenceFacts` | | lemmas about the operators on sequences that the proofs below share |
| `ParkingQueues` | what `ParkingLot.h` promises | abstract: one FIFO queue per address |
| `ParkingLot` | `ParkingLot.cpp` | hash tables, bucket locks, rehash, park and unpark; implements `ParkingQueues` |
| `ParkingLotProofs` | | theorems about `ParkingLot` |
| `Lock` | `Lock.h`, `Lock.cpp` | implements `Mutex`; parks and unparks as `ParkingQueues` |
| `LockProofs` | | theorems about `Lock` |
| `Condition` | `Condition.h` | parks and unparks as `ParkingQueues`; its lock is a mutex |
| `ConditionProofs` | | theorems about `Condition` |
| `SyncCall` | what `sendSync` promises | abstract: a call is handled at most once and answered by its own handler, or fails |
| `Connection` | `Connection.h`, `Connection.cpp`, `ConnectionUnix.cpp` | any number of processes and connections; implements `SyncCall` |
| `ConnectionProofs` | | inductive invariant of `Connection`, types and wake-ups |
| `ConnectionCallProofs` | | where requests and replies are; the assertions, the refinement of `SyncCall` and the order of messages |
| `Storage` | `NetworkCacheStorage.{h,cpp}`, `NetworkCacheBlobStorage.cpp`, `NetworkCacheIOChannelSoup.cpp` | the members, the queues and the files |
| `StorageProofs` | | theorems about `Storage` |
| `MC…` | | constants for TLC |

The locks are layered as the classes are, and each layer is used by the one
above through its abstract specification, never through its details:

    Lock ──implements──> Mutex          Condition
      │                                     │ (its lock is a Mutex)
      └──uses──> ParkingQueues <──uses──────┘
                      ^
                 implements
                      │
                 ParkingLot ──(bucket locks)──> Mutex <──implements── WordLock

`Lock` and `Condition` each contain the park and unpark steps they need,
written after those of `ParkingQueues` for one address (append when parked,
take the first when unparked, with the callback under the same lock). That is a
modelling decision, to be read and not checked: the steps are there by
construction, whatever the two classes do with their byte. `ParkingLot`
implements `ParkingQueues` under the hypotheses of section 4.6.
`Connection` and `Storage` stand beside the tower: they use locks, run loops
and work queues as what these promise (critical sections are single steps,
queues are FIFO).

### 2.1 State and steps

**WordLock.** `m_word` is a record of a set of bits and a head pointer. The
locals of the slow paths that live across steps (`currentWordValue`,
`queueHead`, `newQueueHead`, `spinCount`) are variables indexed by thread, and
are reset when they are dead. `pc` names the next memory access; the label and
action names follow the code (`ClaimQueue` is the CAS that sets
isQueueLockedBit, `LinkTail` the store to `queueTail->nextInQueue`, and so
on). `Acquire`, `ClaimQueue` and the other CASes have a disjunct for failure.
`compareExchangeWeak` returning false sends the thread back where the code's
`continue` does. `SpuriousWakeUp` is the standard's spurious wake-up, which
the loop around `parkingCondition.wait` has to survive.

**ParkingLot.** `tables` is the sequence of all tables ever created, the last
one being `hashtable`; a slot holds the number of a bucket or 0 for null.
`queues` and `locks` are indexed by bucket number and `bucketAddress` says
where a bucket is in memory, because `lockHashtable` sorts by address. The
linked list of a bucket is a sequence. Each
thread has `park` (the arguments of the `parkConditionally` it is in) and
`frame` (the locals of the operation on the table it is in): `beforeSleep` may
call `unparkOne`, so both may be live at once. Reading the table, reading or
installing the bucket, locking it and the work under the lock are separate
steps, with the re-check of `hashtable` and the retry of the code between
them. Everything between lock and unlock of a bucket is one step (the lock is
a mutex, and nobody accesses the queue without it). `Wake` is the critical
section of the dequeued thread's `parkingLock`; it comes after the bucket lock
was released, as in the code. `Notify` is the `notify_one` after it.

**Lock.** As WordLock: one step per access to `m_byte`, failing CASes
included. `UnparkOne` is the callback of `unparkOne`, which runs under the
bucket lock together with the dequeue; `mayHaveMoreThreads` may be true for an
empty queue, because the bucket is shared with other addresses.

**Condition.** Consumers wait for an item under the lock, producers add items
and notify. `LockQueue`, `Validation`, `Enqueue` are separate steps under the
queue lock because `notifyAll` writes `m_hasWaiters` without it. A timeout is
in the past, fires at some time, or never.

**Connection.** `conn[c]` has the members of the `Connection` at each end of a
socket, together with what is queued for its work queue and where that thread
is; `proc[p]` has the `SyncMessageState`, the functions dispatched to the main
run loop and the *call stack* of the main thread, because a thread that waits
for a reply dispatches messages whose handlers wait in their turn. A frame is
a handler, a `waitForSyncReply()`, a `waitForMessage()` or a
`dispatchMessages()` with its local list. Client code may call anything
`Operations` allows whenever a handler or the bare run loop is on top of the
stack. A step is what one thread does under one lock, or one access to the
socket: `waitForSyncReply()` is `SyncDispatch`, `SyncCheck`, `SyncWakes`, and
messages may arrive between any two of them. `SendOutgoingMessages` writes
what fits into the socket and otherwise blocks in `poll()`, during which this
connection reads nothing. `ReadReply`, `ReadFlagged`, `ReadAwaited` and
`ReadOther` are the four fates of an incoming message. `HangUp` and
`CloseTask` lead to `connectionDidClose()`, whose two halves are separate
steps. `Crash` closes the sockets of a process and lets what it has written be
read. `calls` is a history of what became of each synchronous call, by which
`ImplementsSyncCall` is stated; the request ID is its index.

**Storage.** `s` has the members and the functions that wait in the four
queues; `writes` and `reads` are the operations by number, `records` and
`bodies` the files of each key. A function of a queue that makes several file
operations is several steps (`StoreBody`, `CreateRecord`; `OpenRecord`,
`GetBody`; `DeleteFile`, `UnlinkBody`), with the asynchronous write
(`WriteRecord`) and the reading thread (`ReadSync`) on their own. A file is
known by the store that made it, so that a write to an unlinked file does not
reappear and a reader may go on with a file that is gone. `Faults` names what
may fail: mapping a body, making its link, creating the record file, writing
it. `MayContain` answers as a Bloom filter does, wrongly on one side. `Init`
ranges over the files that a session may have left that ended between two
steps, a record without a body and a file that is not whole among them. A file
that is not whole may be empty or partly written: `synchronize()` deletes it in
the first case, and takes it for a record in the second.

Definitions marked *Mutant:* in the modules are not part of the
specifications. Each is a plausible mistake in the definition that follows it;
substituted for it, it makes the property named in `PROJECT.json` fail, which
shows that the property depends on that line of the code.

### 2.2 Abstractions

- Memory is sequentially consistent. The atomics in these classes are used
  with the default order almost everywhere; the weaker orders at the fast
  paths of `Lock` and `WordLock` (acquire on lock, release on unlock) are not
  explored.
- A thread does not exit while an unparker holds a pointer to its
  `ThreadData` (`Destruct`). In the code this is the caller's problem; see the
  hazard at `ParkingLot.cpp:656`.
- `isHeld`, `isLocked`, `isFullyReset` only read and are left out, and so are
  the `dataLog` statements.
- Tables are never freed, as in the code.
- A message is a name, the flag that it is to be dispatched while its receiver
  waits for a reply, and a request ID; the socket carries
  whole messages. `number` in a message is a history variable that only
  properties look at.
- Both ends of a connection are open when the model begins.
- Records have no size and no time: whether the cache is too large, which
  records a shrink deletes and which files are younger than a `clear()` is
  left open. Bodies differ from each other, and a checksum tells a whole
  record from a torn one.

## 3. What is checked

### 3.1 Runs

| Run | Instance | Shows |
|---|---|---|
| `wordlock` | 3 threads, spin limit 1, fair | `MutualExclusion`; all ASSERTs of both slow paths (`LockSlowAsserts`, `UnlockSlowAsserts`, `OwnDataAsserts`); the queue in the word is a proper FIFO list of exactly the threads that go to sleep (`QueueIsSound`, `QueueIsFIFO`); `ImplementsMutex`; `unlock()` returns (`UnlockReturns`); while somebody waits, somebody gets the lock (`LockIsHandedOn`) |
| `parkinglot_queues` | 2 threads park once with timeouts on 2 addresses in one bucket, a third unparks, the table grows | `ImplementsParkingQueues`; unparkers report the truth about what is left (`ReportsAreTrue`); nobody returns from a park while he is queued (`ReturnsOffQueue`) |
| `parkinglot_nested` | 3 threads, 2 parks each, no timeouts: one unparks from `beforeSleep`, one parks, walks the table and exits, one walks; a rehash parts the addresses | threads are found where their address leads now (`ThreadsAreFindable`); a sleeper is queued or about to be woken (`SleepersAreReachable`); no circular wait for bucket locks (`NoDeadlock`); a rehash loses no bucket (`RehashKeepsBuckets`) |
| `parkinglot_stale_unpark` | 2 threads park twice with timeouts | **violation**, section 3.4 |
| `lock` | 3 threads, spin limit 1, fair | `UnlockAsserts`; hasParkedBit covers the queue (`ParkedBitIsSet`); `ImplementsMutex`; the lock keeps being handed on (`LockIsHandedOn`) |
| `condition` | 3 threads, 2 items, all kinds of timeout, fair | no waiter is hidden from a notifier (`NoHiddenWaiters`); no lost notification (`NoStuckConsumer`); a consumer parked next to an item is unparked, or others take all items (`WaitersAreServed`) |
| `ipc_close` | UI process and web process call each other; the UI process waits, times out and invalidates; the web process sends, calls from two threads, exits on failure, may crash; fair | `NoLostWakeup`; `AssertsHold`, here for the single waiter of `waitForMessage()`; `ImplementsSyncCall`; `SyncSendsReturn`; no message is lost between `send()` and its handler (`NoMessageIsDropped`), and none stays in a queue (`QueuesDrain`); the client is told of a close (`ClosesAreNoticed`); `TypeOK` |
| `ipc_chain` | a web process that sends to a plug-in process, which calls it and may crash, and that the UI process calls, too; fair | what `dispatchMessages()` puts back because it is of the other connection is not dropped (`NoMessageIsDropped`) and does not stay in the list (`QueuesDrain`); ordinary messages are handled in the order sent (`HandledInOrder`); the assertions on the stack of replies and on scheduled dispatches, and that a client is told once although a crash is seen twice (`AssertsHold`) |
| `ipc_double_close` | a plug-in process that crashes | **violation**, section 3.4 |
| `ipc_dispatch_list` | three processes in a chain | **violation**, section 3.4 |
| `storage` | one key, three client calls of any kind, faults, leftovers, fair | an answer is whole, for the right key, and comes once (`AnswersAreWhole`); no older write is still to come (`NoOlderWriteToCome`); what is on the disk is in the filters (`FilterCoversDisk`); everything ends (`OperationsFinish`) |
| `storage_remove` | two stores and removals | **violation**, section 3.4 |

All runs check for deadlock except `condition`, where every thread may be
waiting for an item that nobody produces any more (`NoStuckConsumer` is the
statement that such a stop is legitimate), and the `ipc_…` and `storage…`
runs, where the client's calls are bounded and a system with nothing left to
do stops. What must not be left undone when they stop is stated:
`SyncSendsReturn`, `QueuesDrain`, `OperationsFinish`.

### 3.2 Bounds

- *Threads.* Three threads are a holder with two queued threads, or with one
  queued and one that enqueues or barges while the holder dequeues. Everything
  but liveness that the passing runs check of WordLock, ParkingLot, Lock,
  Condition and Storage is proved for any number (section 4); for those the
  runs add the liveness, and their mutants show that the properties depend on
  the code. What the proofs alone cover: a queue of WordLock whose new head is
  not its tail after a dequeue (four threads), and that the order of the
  threads of one address survives a rehash (in `parkinglot_queues` at most one
  thread is queued when the table grows).
- *spinLimit* is 40 in the code. It only counts how often a thread reloads the
  word before it may queue; with 1 both outcomes happen.
- *maxLoadFactor, growthFactor* are 3 and 2 in the code. With 1 (or 2) and 1
  the second (or third) thread already forces a rehash; the sizes computed are
  the code's formula. With the code's values, a rehash needs as many threads
  and all tables are larger, but no step differs.
- *maxParks* (1 or 2) caps the calls of `parkConditionally` per thread. One
  park per thread with 2 addresses reaches every combination of park, timeout
  and unpark in one bucket; two parks are what it takes to leave stale state
  behind, and are used where there is no timeout and where the finding is.
- *maxItems* is 2: with three threads, two consumers can wait for two items of
  one producer, or one consumer while two threads race for the items. Items are
  consumed and produced again without end; only the number present at once is
  bounded.
- *Hashes* are chosen so that addresses collide in tables of 1 and 2 and part
  in a table of 4. *bucketAddress* is not monotonic, so that the order of
  creation is not the order of locking.
- *maxOperations* caps what the client's code of a process begins. In
  `ipc_close` the UI process has two and the web process one: the least with
  which calls nest three deep with a second request on the stack (a call,
  whose handler calls back, whose handler calls again), or one call gives up
  and the next one meets the late reply. In `ipc_chain` the web process sends
  up to twice and the others call once, so that messages of both connections
  are in its list when it dispatches those of one.
- *capacity* of a socket is 1 message, so that a second one already blocks the
  writer; a real socket holds more and blocks later.
- *Storage:* keys share nothing but the queues, which several operations on
  one key fill as well as on several. Two stores (one with a large body), two
  retrieves and three calls in total are the least in which a record, its
  successor and a reader or a removal meet. `maximumActiveReadOperationCount`
  is 0 (5 in the code, compared by `>`), so that the second read has to wait;
  two priorities (5 in the code); one shrink.
- Symmetry is used in runs of `ParkingLot`, which have no liveness properties.

### 3.3 Fairness

*WordLock and Lock.* Threads are scheduled by the OS: a thread inside an
operation that can take a step eventually does (`WF` on `Run(t)`), and a
thread that holds a lock releases it. Nothing obliges a thread to call
`lock()`. A weak CAS that finds the expected value again and again does not
fail every time (`SF` on the steps of `Run(t)` that change the word): this is
what the C++ standard asks of `compare_exchange_weak` implementations and what
LL/SC loops give. Under these assumptions neither lock is starvation-free
(both allow barging), and no such property is claimed: `LockIsHandedOn` is
progress of the system.

*ParkingLot.* None. Because its bucket locks allow barging, a thread that
walks the table again and again can keep an unparker from its bucket for ever
even if all are scheduled, and no liveness is claimed. `SleepersAreReachable`
is the safety part: somebody is always in a position to wake a sleeper.

*Condition.* A thread that has begun to wait or to notify goes on when it can
(`WF` on `Run(t)`). Nothing obliges it to consume or to produce, and no time
need ever be over. Nobody is promised the mutex: a thread that finds it taken
each time it looks may wait for ever. `WaitersAreServed` therefore speaks of
being unparked, not of getting an item, and not of one that others take.

*Connection.* The main thread of a process, the thread of each connection's
work queue and a secondary thread that was signalled are scheduled (`WF` on
each). This includes that handlers return and that `waitForMessage()` times
out, whose timeouts are finite. Nothing obliges the client to call, a process
to crash, or a synchronous call to time out (`std::chrono::milliseconds::max()`
is a common timeout).

*Storage.* The functions of each queue, the write timer, the asynchronous
writes and the reading threads go on. The read timeout need not fire and the
client need not call.

### 3.4 Disagreements between code and comments

1. **A stale unparker ends a later park** (`parkinglot_stale_unpark`,
   `WTF/wtf/ParkingLot.cpp:588`). The timeout of a parked thread fires after
   an unparker has dequeued it and before the unparker clears its `address`
   (617–621). The thread does not find itself on the queue, clears `address`
   itself and returns. If it parks again before the unparker gets to line 619,
   the unparker clears the address of the *second* park: that
   `parkConditionally` returns `true` although the thread is still on the
   queue, and its `ThreadData` stays linked in the bucket with a null address.
   `ParkingLot.h:47` says that the thread sleeps "so long as the thread
   continues to be on the queue". Without a second park the same window makes
   `ASSERT(threadData->address)` fail in the unparker. `Lock` never parks
   with a timeout and is not affected. `Condition` may be: the `condition` run
   shows what it guarantees on top of queues that do what `ParkingQueues`
   says. That `ParkingLot` implements these is checked where each thread parks
   once, and proved when nobody uses timeouts or no thread parks twice
   (`AddressSpace` and `ParksOnce`, section 4.6); for a `Condition` that is
   used with timeouts again and again, nothing here closes that gap, and the
   run above shows that it is real.
2. **A message that has to be dispatched is out of reach**
   (`ipc_dispatch_list`, `WebKit2/Platform/IPC/Connection.cpp:159`).
   `dispatchMessages()` swaps the whole list into a local and dispatches one
   message after the other. If the handler of the first makes a synchronous
   call, the `waitForSyncReply()` inside it looks only at the shared list, and
   a synchronous message from the process that it waits for may sit behind, in
   the local one. The comment at 682 says that such messages are dispatched
   because "we'll end up with a deadlock where both sync message senders are
   stuck waiting for a reply". Calls from the UI process have a timeout of one
   second by default, which turns the deadlock into a hang and a failed call.
   The proof of `NoLostWakeup` met a second way to the same end. The
   `dispatchMessages()` that a run loop calls is for one connection and puts
   the messages of the others back into the list (175–180), without a signal.
   If it runs in a nested loop of a handler, above a call that waits, and
   another handler in between has made a call that took the signal, then the
   outer `waitForSyncReply()` goes to sleep beside a message that it should
   dispatch. This takes two connections in one process (TLC needs 37 steps
   for it); `NoLostWakeup` is checked and proved without it (section 4.5).
3. **A connection is closed twice** (`ipc_double_close`,
   `WebKit2/Platform/IPC/Connection.cpp:758`). When a plug-in process crashes,
   the web process sees the hang-up on its socket, and hears from the UI process
   that the plug-in process crashed (`PluginProcessProxy.cpp:197`), whereupon it
   posts another `connectionDidClose()`
   (`PluginProcessConnectionManager.cpp:112-123`), unless it has dropped its
   last plug-in by then. The second call fails `ASSERT(m_shouldWaitForSyncReplies)`,
   because the first has cleared that member: a debug build stops there. In
   a release build nothing more happens than a second function in the main run
   loop, which finds the client gone (the last conjunct of `AssertsHold`).
4. **A removed record may stay on the disk** (`storage_remove`,
   `WebKit2/NetworkProcess/cache/NetworkCacheStorage.cpp:522`). `remove()`
   drops only the latest pending write of the key and does not stop the active
   one; its deletion, on another queue, may overtake that write.
   `NetworkCache.cpp:414` says of the call "Make sure we don't keep a stale
   entry in the cache." What stays is a complete record (`AnswersAreWhole`
   holds), only an old one.

Three exceptions are written into properties that hold. `SyncSendsReturn` leaves
out a secondary thread whose own process invalidates the connection, which
nothing wakes (`Forsaken`). `NoMessageIsDropped` leaves out a
`waitForMessage()` that times out or is interrupted after its message has come:
it looks only at the reason why its wait ended and returns null, and the message
is in no queue any more (`GivesUpOn`, 437–439; no document says otherwise).
`FilterCoversDisk` leaves out the time between a `clear()` and the next
synchronization, in which functions queued before the `clear()` may still make
files.

## 4. What is proved

All theorems hold for every value of the constants that satisfies the named
assumptions. Each rests on an inductive invariant: it holds initially, every
step preserves it (one step of the proof per action, and one per conjunct the
action can disturb), and it implies the property.

### 4.1 WordLock

`WordLockProofs`, for every set of threads and every spin limit (assumptions:
`Null` is not a thread, `spinLimit` is a natural number):

| Theorem | Statement |
|---|---|
| `TypeCorrect` | `Spec => []TypeOK`; in particular no null queue head is followed |
| `MutualExclusionHolds` | `Spec => []MutualExclusion` |
| `LockSlowAssertsHold` | the ASSERTs of `lockSlow()` on the word, line 153 in the sense it means, never fail |
| `UnlockSlowAssertsHold` | the ASSERTs of `unlockSlow()` on the word never fail |
| `WordLockImplementsMutex` | `Spec => ImplementsMutex`: every step of WordLock is a step or a stutter of `Mutex` |
| `OwnDataAssertsHold` | the ASSERTs of `lockSlow()` on the thread's own `shouldPark`, `nextInQueue` and `queueTail` never fail, and nobody is about to write to them |
| `QueueSound` | for a finite set of threads, `Spec => []QueueIsSound` |
| `QueueFIFO` | for a finite set of threads, `Spec => QueueIsFIFO` |

None of these is inductive. The invariant behind the first five is `WordInv`,
the conjunction of

- `TypeOK`;
- `BitsInv`: isLockedBit is set exactly when a thread is between acquiring and
  releasing, isQueueLockedBit exactly when a thread is in one of the two
  sections that own the queue, each by one thread at most, and the queue lock
  is only owned while the lock is held. The last part is why `unlockSlow` may
  clear both bits with one store;
- `LocalsInv`: what each thread's stale copy of the word still tells it when
  it uses it. The important conjunct says that in the three places where the
  word is written by a plain store, the copy *equals* the word. It holds
  because every CAS other threads can succeed with needs a word in which one
  of the two bits is clear, and both are set there.

Type correctness depends on `LocalsInv` (a head pointer must not be null
before its fields are read), so the three parts are proved together:
`TypeStep`, `BitsStep` and `LocalsStep`, each with one step per action.
`BitsEffects` reduces the steps of `BitsInv` to the few effects an action can
have on the bits. The refinement follows from `WordInv`: of all actions only
`Lock`, `Acquire`, `Unlock`, `UnlockRetry` and `UnlockStore` change the mode of
a thread.

The last three are about the linked list, whose links live in the `ThreadData`
of the threads that wait. `QueueInv` says of it that there *is* a sequence `q`
of threads without repetition such that

- `Linked(q)`: the word points to its first thread, each thread to the next
  one, the last to nothing;
- `Tailed(q)`: the first thread knows the last one, except between the two
  stores of an enqueue (`setTail`), when the enqueuing thread is the last;
- its threads are exactly those that are `Queued`: past the store that links
  them in, told to park, and nobody's target in `unlockSlow()`;

and, as `OffQueueInv`, what holds of the threads that are not on it: those
that are not enqueueing or parked have clean data (`DataInv`); the target of an
`unlockSlow()` that has released the word is parked, has that one waker, and is
cleaned field by field before `shouldPark` tells it to go (`WakeInv`); and the
second thread of the queue has been given the tail before it becomes the first
(`HeirInv`). Most actions leave the list alone (`Calm`); for each of the others
one lemma (`…Queue`) gives the next `q`: the same one, one with a thread
appended, or its tail. `OwnDataAsserts` follows from `OffQueueInv`. The other
two speak of `WaitQueue`, the walk along the links, which `WaitQueueIs` shows
to be that `q`. The walk is a recursive function bounded by the number of
threads, hence the finite set; that it computes `q` is shown by exhibiting the
function and by the least place where two solutions could differ.

### 4.2 Lock

`LockProofs`, for every set of threads and every spin limit:

| Theorem | Statement |
|---|---|
| `UnlockAssertsHold` | the ASSERTs of `unlockSlow()` and of its callback never fail |
| `ParkedBitIsSetHolds` | while a thread is parked, hasParkedBit is set, so that no fast `unlock()` forgets it |
| `LockImplementsMutex` | `Spec => ImplementsMutex` |

The invariant `LockInv` is that of WordLock without a queue of its own:
isHeldBit means exactly one holder (`HolderInv`), a thread about to set
isHeldBit has seen it clear (`LocalsInv`), hasParkedBit stays set while a
thread is in `unparkOne()` (`UnparkInv`: only the callback clears it, and only
the holder gets there), and the queue holds each thread once, parked
(`QueueInv`). `ParkedBitIsSet` is a conjunct of it: it needs `UnparkInv` for
the plain store in the callback, and `QueueInv` to know that the queue is
empty when `mayHaveMoreThreads` is false.

### 4.3 Condition

`ConditionProofs`, for every finite set of threads and every bound on items:

| Theorem | Statement |
|---|---|
| `NoHiddenWaitersHolds` | if m_hasWaiters is false, nobody waits or a `notifyAll()` is about to unpark everybody |
| `NoStuckConsumerHolds` | no notification is lost |

`CondInv` adds to the types: who holds the mutex and the queue lock where
(`LocksInv`), that the queue holds each waiter once (`QueueInv`), and that
there is no item while a consumer is between its predicate and the unlock of
the mutex in `beforeSleep` (`PredicateInv`: the mutex protects the decision to
wait). `NoStuckConsumer` needs counting: while somebody is queued, and no
`notifyAll()` is under way, there are no more items than threads that are going
to take one or to notify (`ItemsInv`, with `Helpers` the set of those threads).
The set of threads is assumed finite for the sake of that count.

### 4.4 Storage

`StorageProofs`, for every set of keys, every number of calls, every limit on parallel reads, every set of faults and all files an
earlier session may have left (assumptions: the bounds are numbers, and the
model values for "no file" and "a file that is not whole" are not numbers):

| Theorem | Statement |
|---|---|
| `StorageInvariant` | `Spec => []Inv`, the inductive invariant |
| `AnswersAreWholeHolds` | an answer comes once, is for the key that was asked for, and has its own body |
| `NoOlderWriteToComeHolds` | a store that is on the disk is never overwritten by an older one |
| `FilterCoversDiskHolds` | what is on the disk is in the filters, except from a `clear()` to the next synchronization |

`Inv` has a part for each of the classes of state that the functions in the
four queues pass on to one another:

- `TypeOK` of the proof module gives a type to every function in every queue;
- `PendingInv`: the pending writes are in the order of their calls, all of them
  younger than the active one, of which there is at most one;
- `ActiveInv`: what is queued, created or being written for the active write
  is there once, and `activeCount` is the number of results to come, so that
  `finishWriteOperation()` runs once and after the last of them;
- `RecordsInv`: the file of a key was made by a store of that key and no older
  store of it is pending or active;
- `FilterInv`: not only the filters cover the disk, but also those that
  `synchronize()` has made and not installed yet, together with the hashes
  added since; and a write queued *behind* a synchronization is among these
  hashes. This is the part of the argument that is not visible in any single
  function;
- `PendingReadsInv`, `ActiveReadsInv`, `MainReadsInv`: a read is pending,
  active or answered from memory, and which functions may be queued for it in
  each case; `activeCount` again counts what is to come; a read that the
  timeout has canceled stays active with its answer given;
- `FoundInv`: what a read has found, and what a reading thread holds in its
  hand, was stored for the read's key.

A proof that treats each of some twenty actions against each of these would be
long; it is split where the state is. The steps of the writes leave the reads
alone, save that they dispatch functions that no read waits for
(`ReadsAlone`, `WriteStepOK`), and those of the reads leave the writes and the
filters alone except for what `remove()` takes from them (`ReadStep`). Effect
lemmas say what each helper of the model (`DispatchPendingWrites`,
`FinishRead`, `RemoveRecord`...) does to each member, and the steps cite them.

### 4.5 Connection

`ConnectionProofs` and `ConnectionCallProofs`, for any processes and connections between them, any
operations of the clients and number of them, any crashes and any capacity of
the sockets (assumptions: `peerOf` pairs the endpoints up, no message of a
client has the name of a synchronous one, `None` is not an endpoint):

| Theorem | Statement |
|---|---|
| `Invariance` | `Spec => []Inv`, the inductive invariant |
| `TypeCorrect` | `Spec => []TypeOK` |
| `NoWakeupIsLost` | `NestedAlone => (Spec => []NoLostWakeup)` |
| `AssertsNeverFail` | `Spec => []AssertsHold` |
| `CallsAreKept` | `Spec => ImplementsSyncCall`: every step is a step or a stutter of `SyncCall` |
| `MessagesInOrder` | `Spec => HandledInOrder` |

`Inv` is about one connection and its process at a time (`LocalInv`), since no
step touches the members of two processes except through the sockets:

- `Matches`: the requests on the stack of pending replies are those of the
  `waitForSyncReply()` frames on the main thread's stack, in the same order.
  Without it the reply that a call looks at need not be its own, and nothing
  else below is inductive;
- `IDsInv`: request IDs are not reused, neither by calls of secondary threads;
- `ScheduleInv`: a dispatch is in the run loop at most once, and then its
  connection is in the set of those scheduled;
- `WaitInv`: `m_waitingForMessage` is set exactly while the main thread is in
  the wait that has set it, and has no decoder while that thread sleeps;
- `WakeInv`, `SignalInv`: who sleeps without a signal has no reply and an open
  connection; `ToldInv`: a client is told of a close once;
- `ProcessInv`: only a handler, a dispatch, or a call that is about to look
  for its reply has another call on top of it.

Most steps leave most of this alone; `Quiet` and `Alike` say so for a process
and for a connection, and `QuietKeeps` draws the conclusion once.

For the messages that wait to be dispatched this is not enough: an inner call
takes the one signal, and then an outer one must find the list empty.
`DispatchesInv` says that while a call is anywhere on the stack, a list that is
not empty has been signalled or is looked at next; and that whoever puts
messages back is at the bottom of the stack, where no call is below. The second
part needs `NestedAlone`: a process whose handlers run nested loops has one
connection. Other processes are not restricted. The assumption keeps the case
of section 3.4 out, and the checked instances satisfy it.

That a request is handled once, and answered by its own handler, takes the
whole way of a request and of its reply through both processes. `CallsInv`
follows each request ID of each endpoint:

- `RequestInv`: the request is in one place only (the caller's
  `m_outgoingMessages`, the socket, the callee's `m_incomingMessages`, its list
  of messages to dispatch or the local list of a `dispatchMessages()`), once,
  and only while its handler has not run; at most one frame handles it, and
  only while it is running;
- `ReplyInv`: the reply is in the outgoing queue or in the socket, not in both
  and once, only when the handler has returned, and not if the caller has it
  already. Together with `RequestInv` this is why a reply never comes twice
  (the assertions at 606 and 622);
- `CallerInv`: a call with a pending reply has not returned, and a frame that
  has found its reply belongs to a call whose handler is done;
- `CountInv`: the request IDs handed out are those of the calls made, so that
  a new request meets no message with its ID;
- `DecoderInv`: `waitForMessage()` never takes a request away.

A step is *tame* (`ConnTame`, `ProcTame`) if it does not bring a request, a
reply or an answer anywhere; `TameStep` deals with all of these at once. The
steps that are not tame are: a request sent (`BeginStep`), moved through the socket
(`MovesStep`, `ArrivesStep`), dispatched or handled to the end (`HandleStep`),
a reply read (`ReplyStep`), an answer found (`AnsweredStep`), a call that
returns (`EndStep`), and a process that dies (`DieCalls`). The lemma of each
action (`…Calls`) also says which step of `SyncCall` it is.

The order of messages is an invariant of its own, `OrderInv`: what an endpoint
has been sent is in its `m_incomingMessages`, in its socket and in the other
end's `m_outgoingMessages`, the numbers rise along each of them and from each
to the next (`InOrder`), and as long as the other end has a client none of
them is above the number it sent last (`SoFar`; an end without a client, dead
or invalidated, sends nothing more). A step leaves the
two ends `Idle` (nothing sent or queued; what is left is `Thinner`), queues a message
(`OrderSent`), writes to the socket (`OrderMoved`) or reads from it
(`OrderRead`). For `HandledInOrder` it remains to find every way in which a
handler can start: `Settled` says of a step that it starts none, or starts one
for a message that breaks into waits or as part of a client's operation. Every
action but `DispatchOneMessage` is of this kind (`…Settled`), which needs that
only flagged messages are in the lists of messages to dispatch (`Entries`, a
part of `Inv`); and `DispatchOneMessage` takes the first of a queue in order.
The theorem does not use the condition in `HandledInOrder` that no
`waitForMessage()` is on the stack: what it picks is taken while the client's
operation begins or takes the place of the wait.

### 4.6 ParkingLot

`ParkingLotProofs`, for any threads and addresses, any hash function, any
`maxLoadFactor` and `growthFactor`, any number of calls, tables and rehashes
(assumptions: `Null` is not a thread or an address, the factors are positive):

| Theorem | Statement |
|---|---|
| `TablesSound` | `AddressSpace => (Spec => []TableInv)`, the first half of the inductive invariant |
| `NoCircularWait` | `AddressSpace => (Spec => []NoDeadlock)` |
| `RehashKeeps` | `AddressSpace => (Spec => RehashKeepsBuckets)` |
| `Findable` | `AddressSpace /\ ParksOnce => (Spec => []ThreadsAreFindable)` |
| `Reachable` | `AddressSpace /\ ParksOnce => (Spec => []SleepersAreReachable)` |
| `OffQueue` | `AddressSpace /\ ParksOnce => (Spec => ReturnsOffQueue)` |
| `Implements` | `AddressSpace /\ ParksOnce => (Spec => ImplementsParkingQueues)` |
| `ReportsTrue` | `AddressSpace /\ ParksOnce => (Spec => ReportsAreTrue)` |
| `AddressesKept` | `AddressSpace /\ "sometime" \notin Timeouts => (Spec => []AddressAsserts)` |

Three hypotheses appear. `AddressSpace` says that no two buckets are at the
same place in memory, as any allocator sees to; it is about all buckets there
may ever be, so that TLC cannot evaluate it, and is stated in the theorems
instead of being assumed of the constants. `ParksOnce` says that nobody uses
timeouts, or that no thread parks twice. It cannot be left out: without it the
stale unpark of section 3.4 happens, and `ReturnsOffQueue` and what depends on
it fail. The assertions on `address` need more, that there are no
timeouts at all: a thread whose time is over clears its own address while an
unparker, who has dequeued it, is about to look at it (the same finding). `AddressAsserts` is the one property here that is
proved and not among those of a run.

The invariant has two halves. `TableInv` holds whatever the callers do:

- the types of the tables, buckets and locals, and what the label of a thread
  says about them (`TypeOK`, `ControlInv`);
- `TablesInv`: a slot holds no bucket or one that exists, and *only the current
  table has empty slots*. `lockHashtable()` fills them before the table is
  replaced, so that an unparker who finds no bucket has looked at the current
  table;
- `LocksInv`: a thread in `lockHashtable()` has locked the buckets of its table
  that are not still to be locked, in the order of their addresses; whoever has
  a bucket and the right to change its queue holds its lock, found through the
  current table. A table can therefore only be replaced by a thread that holds
  all locks of the current one, and nobody else is in a bucket.

`NoDeadlock` follows: of any set of threads that wait for one another, take the
one that waits for the bucket with the greatest address. `RehashKeeps` needs
what `Rehashed` computes: that the slots are put into an order without
repetition (`SlotOrderFacts`), that the old buckets come first in it, and that
each thread gets to the bucket its address leads to in the new table
(`RehashedFacts`).

`ParkInv` is about the threads:

- `QueuedInv`: a thread is on one queue at most, once, in the bucket its
  address leads to in the current table, inside `parkConditionally()`, with its
  address set;
- `HeldInv`: a thread is in the hands of one unparker at most, once, and then
  on no queue; its address is still set, unless a timeout has let it go for
  good (this is where `ParksOnce` is needed);
- `AddressInv`: a thread whose address is set is on a queue or in the hands of
  an unparker, until it finds out that its time is over; if it sleeps with its
  address cleared, somebody is about to notify it.

`FoundInv`, for the last part of `ReportsAreTrue`, adds that a thread that has
found itself on its queue when its time was over is in nobody's hands.

Every step is of one of a few kinds (`Visible`): it leaves all threads where
they are and at most adds empty buckets (`Quiet`, `QueuesAdded`), rehashes
(`Rehashes`), puts its thread on a queue (`Joins`), takes some off (`Takes`),
takes itself off (`GivesUp`), wakes, or leaves `parkConditionally()`
(`Leaves`). One lemma per action says which (`Classified`), and one per kind
that the invariant is preserved and what a caller sees of it: nothing, or one
step of `ParkingQueues` (`ImplementsStep`). For this the queue of an address,
the part of a shared bucket that `Selected` picks out, is described by its
threads and their order (`QueueOk`, `Before`): two sequences without
repetition, with the same elements in the same order, are the same
(`SameOrder`). A rehash, which takes all queues apart and rebuilds them,
keeps the order of any two threads of one address, and that is enough.
`Selected` is a recursive function; what it computes is shown by the least
place at which it could be wrong.

### 4.7 Only model-checked

- All liveness (`…Returns`, `LockIsHandedOn`, `WaitersAreServed`,
  `SyncSendsReturn`, `QueuesDrain`, `ClosesAreNoticed`, `OperationsFinish`):
  fairness and `ENABLED` are outside the prover.
- `NoMessageIsDropped`, by `ipc_close` and `ipc_chain`.

Every other safety property that a passing run checks is a theorem, some of
`ParkingLot`'s under the hypotheses of section 4.6 and `NoLostWakeup` under that
of section 4.5.

## 5. Not modelled

- *Condition:* the conversions between clocks and durations (`waitFor`,
  `waitForSecondsImpl`, `absoluteFromRelative`); timeouts have no length here.
- *Connection:* receivers on work queues and the callbacks for incoming
  synchronous messages and for the close on the work queue, none of which
  touches the state of waiting threads; messages that fail to decode; replies
  that a handler sends later than it returns (a FIXME in the code);
  `SpinRunLoopWhileWaitingForReply`, which only Cocoa implements; messages
  sent before `open()`.
- *Unix transport:* the read buffer, file descriptors beside the messages and
  shared memory for long ones: byte-level, sequential, on one thread.
- *Storage:* `traverse()` (reads only), `deleteOldVersions()` (files of other
  versions of the format), sizes and times, blobs shared between keys with the
  same body, the completion handler of `clear()`, and completion handlers that
  call `Storage` again before they return.
- *Everything else* in the tree, for the reasons given in section 1.4 and, by
  component, in `PROJECT.json`.

## 6. Plan

1. *Done:* WordLock, ParkingLot, Lock, Condition, Connection and Storage with
   their abstract specifications and runs; proofs about all of them.
2. Candidates after that: the read buffer of `ConnectionUnix` against the
   sequence of messages sent, the clock conversions of `Condition.h` on a
   small integer width, Web SQL transaction coordination, bmalloc's scavenger.

## 7. Running

    tlc -workers 2 -config MCWordLock.cfg MCWordLock
    tlapm WordLockProofs.tla

Each `.cfg` belongs to the `MC` module whose name it starts with. The longest
runs, `storage` and `ipc_chain`, take about three minutes each, `ipc_close` two and
a half, the others up to a minute. The modules with proofs are
`WordLockProofs`, `SequenceFacts`,
`LockProofs`, `ConditionProofs`, `ParkingLotProofs`, `StorageProofs`,
`ConnectionProofs` and `ConnectionCallProofs`; from nothing, the last four take
ten to fifteen minutes each and the others less than two.
