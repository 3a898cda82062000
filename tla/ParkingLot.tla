----------------------------- MODULE ParkingLot ------------------------------
(***************************************************************************)
(* WTF::ParkingLot (ParkingLot.h, ParkingLot.cpp): threads sleep on queues *)
(* that belong to addresses. The queues live in the buckets of a hash      *)
(* table that grows with the number of threads; a bucket holds the threads *)
(* of every address that hashes to it, under one lock.                     *)
(*                                                                         *)
(* Bucket locks are WordLocks, used here as the mutexes that WordLock is   *)
(* shown to be. A bucket's linked list is the sequence of its threads, its *)
(* head first. Hash tables are never freed: the current one is the last of *)
(* tables. Whatever happens under a lock, or in a loop that only retries a *)
(* CAS, is one step. The caller's validation may succeed or fail, and its  *)
(* beforeSleep may unpark other threads.                                   *)
(***************************************************************************)
EXTENDS Naturals, FiniteSets, Sequences, SequencesExt

CONSTANTS
    Threads,
    Addresses,
    Null,               \* nullptr
    hashAddress,        \* the hash of each address, the null pointer too
    maxLoadFactor,
    growthFactor,
    bucketAddress,      \* bucketAddress[n]: where the nth bucket is allocated
    Calls,              \* the calls each thread makes
    Timeouts,           \* the timeouts callers use: "never", "sometime"
    maxParks            \* bound: calls of parkConditionally() per thread

UnparkCalls == {"unparkOne", "unparkOneCallback", "unparkAll"}

ASSUME ParkingLotAssumption ==
    /\ Null \notin Threads \cup Addresses
    /\ hashAddress \in [Addresses \cup {Null} -> Nat]
    /\ maxLoadFactor \in Nat \ {0} /\ growthFactor \in Nat \ {0}
    /\ Calls \in [Threads -> SUBSET (UnparkCalls \cup {"park", "forEach", "exit"})]
    /\ Timeouts \subseteq {"never", "sometime"}
    /\ maxParks \in Nat

VARIABLES
    tables,         \* all hash tables; a slot holds a bucket number or 0
    queues,         \* the queue of each bucket
    locks,          \* who holds the lock of each bucket
    numThreads,
    address,        \* ThreadData::address
    hasThreadData,  \* whether the thread has a ThreadData yet
    parks,          \* how often the thread has called parkConditionally()
    park,           \* the arguments of the parkConditionally() it is inside of
    frame,          \* the locals of the operation on the table it is inside of
    pc

table == <<tables, queues, locks>>
vars == <<table, numThreads, address, hasThreadData, parks, park, frame, pc>>

NoPark == [address |-> Null, timeout |-> "never"]
NoFrame == [op |-> "none", address |-> Null, table |-> 0, bucket |-> 0, numThreads |-> 0,
            toLock |-> <<>>, dequeued |-> <<>>, didFind |-> FALSE]

hashtable == Len(tables)
Size(tb) == Cardinality(DOMAIN tb)
Index(a, tb) == hashAddress[a] % Size(tb)
BucketsOf(tb) == {tb[i] : i \in DOMAIN tb} \ {0}

(* The elements of S in the order of their keys, and those of the sequence *)
(* q that are in S, in the order they have in q.                           *)
Sorted(S, key) ==
    [n \in 1 .. Cardinality(S) |-> CHOOSE x \in S : Cardinality({y \in S : key[y] <= key[x]}) = n]
Selected(q, S) ==
    LET upto[n \in 0 .. Len(q)] ==
            IF n = 0 THEN <<>> ELSE IF q[n] \in S THEN Append(upto[n - 1], q[n]) ELSE upto[n - 1]
    IN  upto[Len(q)]

Goto(t, label) == pc' = [pc EXCEPT ![t] = label]
Step(t, from, to) == pc[t] = from /\ Goto(t, to)
SetFrame(t, f) == frame' = [frame EXCEPT ![t] = f]

(* The operation on the table is over: back to the caller, which is        *)
(* beforeSleep() if the thread is inside parkConditionally().              *)
Return(t) ==
    /\ SetFrame(t, NoFrame)
    /\ Goto(t, IF park[t] = NoPark THEN "idle" ELSE "beforeSleep")

Unlocked(t) == [b \in DOMAIN locks |-> IF locks[b] = t THEN Null ELSE locks[b]]

Init ==
    /\ tables = <<>> /\ queues = <<>> /\ locks = <<>>
    /\ numThreads = 0
    /\ address = [t \in Threads |-> Null]
    /\ hasThreadData = [t \in Threads |-> FALSE]
    /\ parks = [t \in Threads |-> 0]
    /\ park = [t \in Threads |-> NoPark]
    /\ frame = [t \in Threads |-> NoFrame]
    /\ pc = [t \in Threads |-> "idle"]
-----------------------------------------------------------------------------
(***************************************************************************)
(* The calls. The first parkConditionally() of a thread makes its          *)
(* ThreadData, and a new ThreadData may make the hash table grow.          *)
(***************************************************************************)

ParkConditionally(t, a, timeout) ==
    /\ parks[t] < maxParks
    /\ Step(t, "idle", IF hasThreadData[t] THEN "loadTable" ELSE "construct")
    /\ parks' = [parks EXCEPT ![t] = @ + 1]
    /\ park' = [park EXCEPT ![t] = [address |-> a, timeout |-> timeout]]
    /\ SetFrame(t, [NoFrame EXCEPT !.op = "enqueue", !.address = a])
    /\ UNCHANGED <<table, numThreads, address, hasThreadData>>

(* unparkOne(address), unparkOne(address, callback) and unparkAll(),       *)
(* called from anywhere or from beforeSleep().                             *)
Unpark(t, op, a) ==
    /\ pc[t] \in {"idle", "beforeSleep"}
    /\ Goto(t, "loadTable")
    /\ SetFrame(t, [NoFrame EXCEPT !.op = op, !.address = a])
    /\ UNCHANGED <<table, numThreads, address, hasThreadData, parks, park>>

ForEach(t) ==
    /\ Step(t, "idle", "lockTable")
    /\ SetFrame(t, [NoFrame EXCEPT !.op = "forEach"])
    /\ UNCHANGED <<table, numThreads, address, hasThreadData, parks, park>>

Construct(t) ==
    /\ Step(t, "construct", "checkSize")
    /\ numThreads' = numThreads + 1
    /\ SetFrame(t, [frame[t] EXCEPT !.numThreads = numThreads'])
    /\ UNCHANGED <<table, address, hasThreadData, parks, park>>

(* ~ThreadData() of an exiting thread that no unparker has in its hands.   *)
Destruct(t) ==
    /\ pc[t] = "idle" /\ hasThreadData[t]
    /\ \A u \in Threads : ~Contains(frame[u].dequeued, t)
    /\ numThreads' = numThreads - 1
    /\ hasThreadData' = [hasThreadData EXCEPT ![t] = FALSE]
    /\ UNCHANGED <<table, address, parks, park, frame, pc>>
-----------------------------------------------------------------------------
(***************************************************************************)
(* ensureHashtableSize() and lockHashtable().                              *)
(***************************************************************************)

EnsureHashtable == IF tables = <<>> THEN <<[i \in 0 .. maxLoadFactor - 1 |-> 0]>> ELSE tables

LargeEnough(n) == hashtable # 0 /\ Size(tables[hashtable]) >= maxLoadFactor * n

CheckSize(t) ==
    /\ pc[t] = "checkSize"
    /\ IF LargeEnough(frame[t].numThreads)
       THEN Goto(t, "loadTable") /\ hasThreadData' = [hasThreadData EXCEPT ![t] = TRUE]
       ELSE Goto(t, "lockTable") /\ UNCHANGED hasThreadData
    /\ UNCHANGED <<table, numThreads, address, parks, park, frame>>

(* Mutant: the buckets are locked in the order they are found.             *)
BucketsInTableOrder(tb) ==
    Sorted(BucketsOf(tb), [b \in BucketsOf(tb) |-> CHOOSE i \in 0 .. Size(tb) - 1 : tb[Size(tb) - 1 - i] = b])

SortedBuckets(tb) == Sorted(BucketsOf(tb), bucketAddress)

(* lockHashtable() first puts a bucket into every slot. A slot is written  *)
(* once only, so it does not matter what others do between two slots.      *)
LockTable(t) ==
    LET tbs == EnsureHashtable
        tb == Last(tbs)
        empty == {i \in DOMAIN tb : tb[i] = 0}
        full == [i \in DOMAIN tb |->
                    IF i \in empty THEN Len(queues) + Cardinality({j \in empty : j >= i}) ELSE tb[i]]
    IN  /\ Step(t, "lockTable", "lockNext")
        /\ tables' = ReplaceAt(tbs, Len(tbs), full)
        /\ queues' = queues \o [n \in 1 .. Cardinality(empty) |-> <<>>]
        /\ locks' = locks \o [n \in 1 .. Cardinality(empty) |-> Null]
        /\ SetFrame(t, [frame[t] EXCEPT !.table = Len(tbs), !.toLock = SortedBuckets(full)])
        /\ UNCHANGED <<numThreads, address, hasThreadData, parks, park>>

(* Lock the buckets in order; with the last one, look whether the table is *)
(* still the current one and start again with the new one if it is not.    *)
LockNext(t) ==
    LET b == Head(frame[t].toLock)
        rest == Tail(frame[t].toLock)
        stale == frame[t].table # hashtable
    IN  /\ pc[t] = "lockNext" /\ locks[b] = Null
        /\ locks' = IF rest = <<>> /\ stale THEN Unlocked(t) ELSE [locks EXCEPT ![b] = t]
        /\ Goto(t, IF rest # <<>> THEN "lockNext" ELSE IF stale THEN "lockTable" ELSE "tableLocked")
        /\ SetFrame(t, [frame[t] EXCEPT !.toLock = rest])
        /\ UNCHANGED <<tables, queues, numThreads, address, hasThreadData, parks, park>>

(* Mutant: old buckets that no thread needs are dropped.                   *)
BucketIfNeeded(k, old, needed) ==
    IF k > needed THEN 0
    ELSE IF k <= Len(old) THEN old[Len(old) + 1 - k] ELSE Len(queues) + k - Len(old)

(* The slots of a new table get the old buckets, last one first: first the *)
(* slots that are needed, then the others from 0 on. If there are more     *)
(* slots needed than old buckets, these get new ones.                      *)
BucketForSlot(k, old, needed) ==
    IF k <= Len(old) THEN old[Len(old) + 1 - k]
    ELSE IF k <= needed THEN Len(queues) + k - Len(old) ELSE 0

(* Mutant: the dequeued threads do not get into the new table.             *)
RehashedWithoutThreads(newSize) ==
    LET old == SortedBuckets(tables[hashtable])
        tb == [i \in 0 .. newSize - 1 |-> BucketForSlot(i + 1, old, 0)]
    IN  [table |-> tb, queues |-> [b \in DOMAIN queues |-> <<>>]]

(* The new table: the threads go, in queue order, to the slots of their    *)
(* addresses.                                                              *)
Rehashed(newSize) ==
    LET old == SortedBuckets(tables[hashtable])
        threadDatas == FlattenSeq([i \in DOMAIN old |-> queues[old[i]]])
        indexOf(u) == hashAddress[address[u]] % newSize
        slots == {indexOf(u) : u \in ToSet(threadDatas)}
        first == [i \in slots |-> Min({n \in DOMAIN threadDatas : indexOf(threadDatas[n]) = i})]
        needed == Sorted(slots, first)
        others == (0 .. newSize - 1) \ slots
        order == needed \o Sorted(others, [i \in others |-> i])
        tb == [i \in 0 .. newSize - 1 |->
                  BucketForSlot(CHOOSE k \in DOMAIN order : order[k] = i, old, Len(needed))]
        all == 1 .. (Len(queues) + (IF Len(needed) > Len(old) THEN Len(needed) - Len(old) ELSE 0))
    IN  [table |-> tb,
         queues |-> [b \in all |-> Selected(threadDatas, {u \in ToSet(threadDatas) : tb[indexOf(u)] = b})]]

(* With all buckets locked: look at the size again, rehash if need be,     *)
(* install the new table and unlock the buckets.                           *)
EnsureHashtableSize(t) ==
    LET n == frame[t].numThreads
        new == Rehashed(n * growthFactor * maxLoadFactor)
    IN  /\ frame[t].op = "enqueue"
        /\ Step(t, "tableLocked", "loadTable")
        /\ IF LargeEnough(n)
           THEN locks' = Unlocked(t) /\ UNCHANGED <<tables, queues>>
           ELSE /\ tables' = Append(tables, new.table)
                /\ queues' = new.queues
                /\ locks' = [b \in DOMAIN new.queues |->
                                IF b \in DOMAIN locks THEN Unlocked(t)[b] ELSE Null]
        /\ hasThreadData' = [hasThreadData EXCEPT ![t] = TRUE]
        /\ UNCHANGED <<numThreads, address, parks, park, frame>>

(* forEach() only reports what it finds while all buckets are locked.      *)
ForEachWalk(t) ==
    /\ frame[t].op = "forEach"
    /\ pc[t] = "tableLocked" /\ Return(t)
    /\ locks' = Unlocked(t)
    /\ UNCHANGED <<tables, queues, numThreads, address, hasThreadData, parks, park>>
-----------------------------------------------------------------------------
(***************************************************************************)
(* enqueue() and dequeue(): find the bucket of the address and lock it; if *)
(* the table has been replaced meanwhile, start again.                     *)
(***************************************************************************)

LoadTable(t) ==
    /\ Step(t, "loadTable", "loadBucket")
    /\ tables' = EnsureHashtable
    /\ SetFrame(t, [frame[t] EXCEPT !.table = Len(tables')])
    /\ UNCHANGED <<queues, locks, numThreads, address, hasThreadData, parks, park>>

IgnoreEmpty(op) == op \in {"unparkOne", "unparkAll", "dequeueMe"}

LoadBucket(t) ==
    LET f == frame[t]
        i == Index(f.address, tables[f.table])
        b == tables[f.table][i]
    IN  /\ pc[t] = "loadBucket"
        /\ \/ /\ b # 0
              /\ Goto(t, "lockBucket") /\ SetFrame(t, [f EXCEPT !.bucket = b])
              /\ UNCHANGED table
           \/ /\ b = 0 /\ IgnoreEmpty(f.op)
              /\ IF f.op = "dequeueMe" THEN Goto(t, "clearAddress") /\ UNCHANGED frame ELSE Return(t)
              /\ UNCHANGED table
           \/ /\ b = 0 /\ ~IgnoreEmpty(f.op)
              /\ tables' = [tables EXCEPT ![f.table][i] = Len(queues) + 1]
              /\ queues' = Append(queues, <<>>)
              /\ locks' = Append(locks, Null)
              /\ Goto(t, "lockBucket") /\ SetFrame(t, [f EXCEPT !.bucket = Len(queues) + 1])
        /\ UNCHANGED <<numThreads, address, hasThreadData, parks, park>>

(* Mutant: nobody looks whether the table is still the current one.        *)
LockBucketUnchecked(t) ==
    LET b == frame[t].bucket IN
    /\ Step(t, "lockBucket", "bucketLocked")
    /\ locks[b] = Null /\ locks' = [locks EXCEPT ![b] = t]
    /\ UNCHANGED <<tables, queues, numThreads, address, hasThreadData, parks, park, frame>>

LockBucket(t) ==
    LET b == frame[t].bucket IN
    /\ pc[t] = "lockBucket" /\ locks[b] = Null
    /\ IF frame[t].table # hashtable
       THEN Goto(t, "loadTable") /\ UNCHANGED locks
       ELSE Goto(t, "bucketLocked") /\ locks' = [locks EXCEPT ![b] = t]
    /\ UNCHANGED <<tables, queues, numThreads, address, hasThreadData, parks, park, frame>>

(* What is done to the queue of the bucket before it is unlocked.          *)
InBucket(t, ops, q) ==
    /\ pc[t] = "bucketLocked" /\ frame[t].op \in ops
    /\ queues' = [queues EXCEPT ![frame[t].bucket] = q]
    /\ locks' = Unlocked(t)
    /\ UNCHANGED <<tables, numThreads, hasThreadData, parks>>

MyQueue(t) == queues[frame[t].bucket]
ParkedOn(a) == {u \in Threads : address[u] = a}

Enqueue(t) ==
    /\ \/ /\ InBucket(t, {"enqueue"}, Append(MyQueue(t), t))        \* validation() is true
          /\ address' = [address EXCEPT ![t] = park[t].address]
          /\ Return(t) /\ UNCHANGED park
       \/ /\ InBucket(t, {"enqueue"}, MyQueue(t))                   \* it is false
          /\ park' = [park EXCEPT ![t] = NoPark]
          /\ SetFrame(t, NoFrame) /\ Goto(t, "idle") /\ UNCHANGED address

(* Mutant: only the head of the bucket is looked at.                       *)
DequeueOneAtHead(t) ==
    LET q == MyQueue(t)
        hit == q # <<>> /\ Head(q) \in ParkedOn(frame[t].address)
    IN  /\ InBucket(t, {"unparkOne", "unparkOneCallback"}, IF hit THEN Tail(q) ELSE q)
        /\ IF hit THEN Goto(t, "wake") /\ SetFrame(t, [NoFrame EXCEPT !.dequeued = <<Head(q)>>])
           ELSE Return(t)
        /\ UNCHANGED <<address, park>>

(* Mutant: the last thread of the address is taken.                        *)
DequeueOneLast(t) ==
    LET mine == Selected(MyQueue(t), ParkedOn(frame[t].address)) IN
    /\ InBucket(t, {"unparkOne", "unparkOneCallback"},
                IF mine = <<>> THEN MyQueue(t) ELSE RemoveFirst(MyQueue(t), Last(mine)))
    /\ IF mine = <<>> THEN Return(t)
       ELSE Goto(t, "wake") /\ SetFrame(t, [NoFrame EXCEPT !.dequeued = <<Last(mine)>>])
    /\ UNCHANGED <<address, park>>

DequeueOne(t) ==
    LET mine == Selected(MyQueue(t), ParkedOn(frame[t].address))
    IN  /\ InBucket(t, {"unparkOne", "unparkOneCallback"},
                    IF mine = <<>> THEN MyQueue(t) ELSE RemoveFirst(MyQueue(t), Head(mine)))
        /\ IF mine = <<>> THEN Return(t)
           ELSE Goto(t, "wake") /\ SetFrame(t, [NoFrame EXCEPT !.dequeued = <<Head(mine)>>])
        /\ UNCHANGED <<address, park>>

DequeueAll(t) ==
    LET mine == Selected(MyQueue(t), ParkedOn(frame[t].address))
    IN  /\ InBucket(t, {"unparkAll"}, Selected(MyQueue(t), Threads \ ParkedOn(frame[t].address)))
        /\ IF mine = <<>> THEN Return(t)
           ELSE Goto(t, "wake") /\ SetFrame(t, [NoFrame EXCEPT !.dequeued = mine])
        /\ UNCHANGED <<address, park>>

(* Mutant: a thread that timed out stays on the queue.                     *)
DequeueMeIgnoring(t) ==
    /\ InBucket(t, {"dequeueMe"}, MyQueue(t))
    /\ Goto(t, "clearAddress")
    /\ SetFrame(t, [frame[t] EXCEPT !.didFind = Contains(MyQueue(t), t)])
    /\ UNCHANGED <<address, park>>

DequeueMe(t) ==
    /\ InBucket(t, {"dequeueMe"}, RemoveFirst(MyQueue(t), t))
    /\ Goto(t, "clearAddress")
    /\ SetFrame(t, [frame[t] EXCEPT !.didFind = Contains(MyQueue(t), t)])
    /\ UNCHANGED <<address, park>>
-----------------------------------------------------------------------------
(***************************************************************************)
(* Waking the dequeued threads. The parkingLock of a thread covers each    *)
(* access to its address.                                                  *)
(***************************************************************************)

Wake(t) ==
    /\ Step(t, "wake", "notify")
    /\ address' = [address EXCEPT ![Head(frame[t].dequeued)] = Null]
    /\ UNCHANGED <<table, numThreads, hasThreadData, parks, park, frame>>

Notify(t) ==
    LET u == Head(frame[t].dequeued)
        rest == Tail(frame[t].dequeued)
        back == IF rest # <<>> THEN "wake" ELSE IF park[t] = NoPark THEN "idle" ELSE "beforeSleep"
    IN  /\ pc[t] = "notify"
        /\ pc' = [pc EXCEPT ![u] = IF @ = "asleep" THEN "checkAddress" ELSE @, ![t] = back]
        /\ SetFrame(t, [frame[t] EXCEPT !.dequeued = rest])
        /\ UNCHANGED <<table, numThreads, address, hasThreadData, parks, park>>

(***************************************************************************)
(* The rest of parkConditionally(): sleep, and look after each wake-up     *)
(* whether somebody has dequeued this thread or the time is over.          *)
(***************************************************************************)

BeforeSleep(t) ==
    /\ Step(t, "beforeSleep", "checkAddress")
    /\ UNCHANGED <<table, numThreads, address, hasThreadData, parks, park, frame>>

CheckAddress(t) ==
    /\ pc[t] = "checkAddress"
    /\ \/ /\ address[t] = Null                                       \* dequeued: return true
          /\ Goto(t, "idle") /\ park' = [park EXCEPT ![t] = NoPark]
          /\ UNCHANGED frame
       \/ /\ address[t] # Null
          /\ Goto(t, "asleep") /\ UNCHANGED <<park, frame>>
       \/ /\ address[t] # Null /\ park[t].timeout = "sometime"       \* the time is over
          /\ Goto(t, "loadTable")
          /\ SetFrame(t, [NoFrame EXCEPT !.op = "dequeueMe", !.address = park[t].address])
          /\ UNCHANGED park
    /\ UNCHANGED <<table, numThreads, address, hasThreadData, parks>>

(* Wake up at the end of the time, or for no reason.                       *)
WakeUp(t) ==
    /\ Step(t, "asleep", "checkAddress")
    /\ UNCHANGED <<table, numThreads, address, hasThreadData, parks, park, frame>>

(* parkConditionally() returns !didFind.                                   *)
ClearAddress(t) ==
    /\ Step(t, "clearAddress", "idle")
    /\ address' = [address EXCEPT ![t] = Null]
    /\ park' = [park EXCEPT ![t] = NoPark]
    /\ SetFrame(t, NoFrame)
    /\ UNCHANGED <<table, numThreads, hasThreadData, parks>>
-----------------------------------------------------------------------------
Call(t) ==
    \/ \E a \in Addresses, timeout \in Timeouts :
           "park" \in Calls[t] /\ ParkConditionally(t, a, timeout)
    \/ \E a \in Addresses, op \in Calls[t] \cap UnparkCalls : Unpark(t, op, a)
    \/ "forEach" \in Calls[t] /\ ForEach(t)
    \/ "exit" \in Calls[t] /\ Destruct(t)

Run(t) ==
    \/ Construct(t) \/ CheckSize(t) \/ LockTable(t) \/ LockNext(t)
    \/ EnsureHashtableSize(t) \/ ForEachWalk(t)
    \/ LoadTable(t) \/ LoadBucket(t) \/ LockBucket(t)
    \/ Enqueue(t) \/ DequeueOne(t) \/ DequeueAll(t) \/ DequeueMe(t)
    \/ Wake(t) \/ Notify(t) \/ BeforeSleep(t) \/ CheckAddress(t) \/ ClearAddress(t)

Next == \E t \in Threads : Call(t) \/ Run(t) \/ WakeUp(t)

Spec == Init /\ [][Next]_vars
-----------------------------------------------------------------------------
(***************************************************************************)
(* Properties.                                                             *)
(***************************************************************************)

OnQueue(t, b) == Contains(queues[b], t)
OnAQueue(t) == \E b \in DOMAIN queues : OnQueue(t, b)

(* An unparker has dequeued t and has yet to clear its address.            *)
Dequeued(t) == \E u \in Threads :
    \/ pc[u] = "wake" /\ Contains(frame[u].dequeued, t)
    \/ pc[u] = "notify" /\ Contains(Tail(frame[u].dequeued), t)

(* Whoever unparks an address finds its threads: a thread is on one queue  *)
(* only, once, and that is the queue of the bucket its address leads to in *)
(* the current hash table, however often the table has been rehashed while *)
(* the thread slept.                                                       *)
ThreadsAreFindable == \A b \in DOMAIN queues, t \in Threads : OnQueue(t, b) =>
    /\ address[t] # Null
    /\ LET tb == tables[hashtable] IN tb[Index(address[t], tb)] = b
    /\ Cardinality({i \in DOMAIN queues[b] : queues[b][i] = t}) = 1

(* No lost wake-up: a thread that goes to sleep is on its queue or in the  *)
(* hands of an unparker that has yet to clear its address; and once that   *)
(* is cleared, a thread that sleeps is about to be notified. The unparker  *)
(* may come before, during or after the thread falls asleep.               *)
SleepersAreReachable == \A t \in Threads :
    /\ pc[t] \in {"beforeSleep", "checkAddress", "asleep"} /\ address[t] # Null
           => OnAQueue(t) \/ Dequeued(t)
    /\ pc[t] = "asleep" /\ address[t] = Null
           => \E u \in Threads : pc[u] = "notify" /\ Head(frame[u].dequeued) = t

(* RELEASE_ASSERT(!me->address) at the start of parkConditionally(), and   *)
(* the address it later finds is its own or null; ASSERT(                  *)
(* threadData->address) in the three unpark functions: the thread just     *)
(* dequeued has not left parkConditionally() behind its waker's back. They *)
(* hold where nobody uses timeouts (ParkingLotProofs, AddressesKept).      *)
AddressAsserts == \A t \in Threads :
    /\ pc[t] = "idle" => address[t] = Null
    /\ pc[t] \in {"checkAddress", "asleep"} => address[t] \in {Null, park[t].address}
    /\ pc[t] = "wake" => address[Head(frame[t].dequeued)] # Null

(* Nobody waits in a circle for bucket locks: the sorted order in which    *)
(* lockHashtable() takes them, also those of a table that is no longer     *)
(* current, excludes it.                                                   *)
WaitsFor(t) == IF pc[t] = "lockNext" THEN {locks[Head(frame[t].toLock)]}
               ELSE IF pc[t] = "lockBucket" THEN {locks[frame[t].bucket]} ELSE {}
NoDeadlock == \A S \in (SUBSET Threads) \ {{}} : \E t \in S : WaitsFor(t) \cap S = {}

(* parkConditionally() "will sleep so long as the thread continues to be   *)
(* on the queue and the timeout hasn't fired": it never returns while the  *)
(* thread is still on a queue.                                             *)
ReturnsOffQueue == [][ \A t \in Threads :
    park[t] # NoPark /\ park'[t] = NoPark => ~OnAQueue(t)' ]_vars

(* The queue of an address, as whoever calls unpark now would find it.     *)
QueueOf(a) ==
    IF tables = <<>> THEN <<>>
    ELSE LET tb == tables[hashtable]
             b == tb[Index(a, tb)]
         IN  IF b = 0 THEN <<>> ELSE Selected(queues[b], ParkedOn(a))

(* What the calls report is true. unparkOne() says that there are no more  *)
(* threads only if there are none, an unpark that wakes nobody found       *)
(* nobody to wake, and unparkAll() leaves nobody behind: not even when the *)
(* bucket or the table was missing or has just been replaced. And          *)
(* parkConditionally() returns false only if no unpark picked the thread   *)
(* up: an unpark is never wasted on a timeout.                             *)
ReportsAreTrue == [][ \A t \in Threads, a \in Addresses :
    LET f == frame[t]
        some == frame'[t].dequeued # <<>>
        mayHaveMoreThreads == some /\ queues'[f.bucket] # <<>>
        returns == f.op \in UnparkCalls /\ f.address = a /\ frame'[t].op = "none"
    IN  /\ returns /\ ~some => QueueOf(a) = <<>>
        /\ returns /\ (f.op = "unparkAll" \/ ~mayHaveMoreThreads) => QueueOf(a)' = <<>>
        /\ pc'[t] = "clearAddress" /\ frame'[t].didFind => ~Dequeued(t)' ]_vars

(* A rehash makes the table grow and leaks no bucket (whose lock others    *)
(* may be waiting for): the ASSERTs at the end of ensureHashtableSize().   *)
RehashKeepsBuckets == [][ hashtable # 0 /\ hashtable' # hashtable =>
    /\ Size(tables[hashtable]) < Size(Last(tables'))
    /\ BucketsOf(tables[hashtable]) \subseteq BucketsOf(Last(tables')) ]_vars

(* ParkingLot implements ParkingQueues: a rehash cannot be seen from       *)
(* outside, and the queue of each address is first in, first out.          *)
P == INSTANCE ParkingQueues WITH
    queue <- [a \in Addresses |-> QueueOf(a)],
    status <- [t \in Threads |->
        IF OnAQueue(t) THEN "parked"
        ELSE IF park[t] = NoPark \/ frame[t].op = "enqueue" \/ frame[t].didFind THEN "out"
        ELSE "unparked"]
ImplementsParkingQueues == P!Spec
=============================================================================
