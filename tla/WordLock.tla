------------------------------ MODULE WordLock -------------------------------
(***************************************************************************)
(* WTF::WordLock (WordLock.h, WordLock.cpp): an adaptive mutex in one      *)
(* pointer-sized word. The two low bits say that the lock and the queue of *)
(* waiting threads are held; the rest of the word points at the ThreadData *)
(* of the first waiting thread, which also carries the queue's tail.       *)
(*                                                                         *)
(* One step of the model is one access to shared memory. The atomics are   *)
(* sequentially consistent; compareExchangeWeak may fail although the word *)
(* has the expected value. A critical section of a thread's own            *)
(* parkingLock (a std::mutex) is one step, and a thread asleep on its      *)
(* parkingCondition may wake up without a notification. Threads do not     *)
(* exit while others hold pointers to their ThreadData.                    *)
(***************************************************************************)
EXTENDS Naturals, FiniteSets, Sequences

CONSTANTS
    Threads,    \* the threads that use the lock
    Null,       \* nullptr
    spinLimit   \* how often lockSlow() spins before it queues up (40)

ASSUME NullAssumption == Null \notin Threads
ASSUME SpinLimitAssumption == spinLimit \in Nat

VARIABLES
    m_word,             \* the lock word
    shouldPark,         \* ThreadData::shouldPark of each thread
    nextInQueue,        \* ThreadData::nextInQueue
    queueTail,          \* ThreadData::queueTail, meaningful for the queue head
    pc,                 \* where each thread is in lock() or unlock()
    currentWordValue,   \* locals of lockSlow() and unlockSlow()
    queueHead,
    newQueueHead,
    spinCount

threadDatas == <<shouldPark, nextInQueue, queueTail>>
locals == <<currentWordValue, queueHead, newQueueHead, spinCount>>
vars == <<m_word, threadDatas, pc, locals>>

Pointers == Threads \cup {Null}
Words == [bits : SUBSET {"isLocked", "isQueueLocked"}, head : Pointers]

(* The words 0 and isLockedBit.                                            *)
Unlocked == [bits |-> {}, head |-> Null]
JustLocked == [bits |-> {"isLocked"}, head |-> Null]

IsLocked(w) == "isLocked" \in w.bits
IsQueueLocked(w) == "isQueueLocked" \in w.bits
SetBit(w, b) == [w EXCEPT !.bits = @ \cup {b}]
ClearBit(w, b) == [w EXCEPT !.bits = @ \ {b}]
SetHead(w, h) == [w EXCEPT !.head = h]

Goto(t, label) == pc' = [pc EXCEPT ![t] = label]
Step(t, from, to) == pc[t] = from /\ Goto(t, to)

(* A local that is not read again is reset, so that states that differ     *)
(* only in dead locals are one.                                            *)
Read(t, w) == currentWordValue' = [currentWordValue EXCEPT ![t] = w]
ForgetWord(t) == Read(t, Unlocked)
ForgetQueue(t) == /\ queueHead' = [queueHead EXCEPT ![t] = Null]
                  /\ newQueueHead' = [newQueueHead EXCEPT ![t] = Null]

(* Mutant: a store instead of a compare-and-swap.                          *)
CASUnconditional(expected, new) == m_word' = new

(* m_word.compareExchangeWeak(expected, new) when it succeeds.             *)
CAS(expected, new) == m_word = expected /\ m_word' = new

Init ==
    /\ m_word = Unlocked
    /\ shouldPark = [t \in Threads |-> FALSE]
    /\ nextInQueue = [t \in Threads |-> Null]
    /\ queueTail = [t \in Threads |-> Null]
    /\ pc = [t \in Threads |-> "idle"]
    /\ currentWordValue = [t \in Threads |-> Unlocked]
    /\ queueHead = [t \in Threads |-> Null]
    /\ newQueueHead = [t \in Threads |-> Null]
    /\ spinCount = [t \in Threads |-> 0]
-----------------------------------------------------------------------------
(***************************************************************************)
(* lock() and lockSlow().                                                  *)
(***************************************************************************)

(* The inlined fast path: one weak CAS from 0 to isLockedBit.              *)
Lock(t) ==
    /\ \/ Step(t, "idle", "held") /\ CAS(Unlocked, JustLocked)
       \/ Step(t, "idle", "load") /\ UNCHANGED m_word
    /\ UNCHANGED <<threadDatas, locals>>

(* With w the value just read and no barging: spin around again while      *)
(* there is no queue and spins are left, otherwise go for the queue.       *)
SpinOrQueue(t, w) ==
    IF w.head = Null /\ spinCount[t] < spinLimit
    THEN Goto(t, "load") /\ spinCount' = [spinCount EXCEPT ![t] = @ + 1]
    ELSE Goto(t, "reload") /\ UNCHANGED spinCount

Load(t) ==
    /\ pc[t] = "load"
    /\ \/ /\ IsLocked(m_word)
          /\ SpinOrQueue(t, m_word) /\ UNCHANGED currentWordValue
       \/ /\ ~IsLocked(m_word)
          /\ Goto(t, "acquire") /\ Read(t, m_word) /\ UNCHANGED spinCount
    /\ UNCHANGED <<m_word, threadDatas, queueHead, newQueueHead>>

Acquire(t) ==
    /\ pc[t] = "acquire"
    /\ \/ /\ CAS(currentWordValue[t], SetBit(currentWordValue[t], "isLocked"))
          /\ Goto(t, "held") /\ spinCount' = [spinCount EXCEPT ![t] = 0]
       \/ /\ SpinOrQueue(t, currentWordValue[t]) /\ UNCHANGED m_word
    /\ ForgetWord(t)
    /\ UNCHANGED <<threadDatas, queueHead, newQueueHead>>

(* Queue up only while the lock is held and the queue lock is free.        *)
Reload(t) ==
    /\ pc[t] = "reload"
    /\ IF IsQueueLocked(m_word) \/ ~IsLocked(m_word)
       THEN Goto(t, "load") /\ UNCHANGED currentWordValue
       ELSE Goto(t, "claimQueue") /\ Read(t, m_word)
    /\ UNCHANGED <<m_word, threadDatas, queueHead, newQueueHead, spinCount>>

ClaimQueue(t) ==
    /\ \/ /\ Step(t, "claimQueue", "setShouldPark") /\ UNCHANGED currentWordValue
          /\ CAS(currentWordValue[t], SetBit(currentWordValue[t], "isQueueLocked"))
       \/ Step(t, "claimQueue", "load") /\ ForgetWord(t) /\ UNCHANGED m_word
    /\ UNCHANGED <<threadDatas, queueHead, newQueueHead, spinCount>>

SetShouldPark(t) ==
    LET head == currentWordValue[t].head IN
    /\ Step(t, "setShouldPark", IF head = Null THEN "initTail" ELSE "linkTail")
    /\ shouldPark' = [shouldPark EXCEPT ![t] = TRUE]
    /\ queueHead' = [queueHead EXCEPT ![t] = head]
    /\ ForgetWord(t)
    /\ UNCHANGED <<m_word, nextInQueue, queueTail, newQueueHead, spinCount>>

(* There is a queue: append this thread at its end ...                     *)
LinkTail(t) ==
    /\ Step(t, "linkTail", "setTail")
    /\ nextInQueue' = [nextInQueue EXCEPT ![queueTail[queueHead[t]]] = t]
    /\ UNCHANGED <<m_word, shouldPark, queueTail, locals>>

(* Mutant: the new tail is not recorded in the head.                       *)
SetTailForgotten(t) ==
    /\ Step(t, "setTail", "reloadQueued")
    /\ UNCHANGED <<m_word, threadDatas, locals>>

SetTail(t) ==
    /\ Step(t, "setTail", "reloadQueued")
    /\ queueTail' = [queueTail EXCEPT ![queueHead[t]] = t]
    /\ UNCHANGED <<m_word, shouldPark, nextInQueue, locals>>

(* ... there is none: be the head of a queue of one ...                    *)
InitTail(t) ==
    /\ Step(t, "initTail", "reloadHead")
    /\ queueTail' = [queueTail EXCEPT ![t] = t]
    /\ UNCHANGED <<m_word, shouldPark, nextInQueue, locals>>

(* Mutant: the queue lock is released with an old value of the word.       *)
ReloadSkipped(t) ==
    /\ Step(t, "reloadQueued", "releaseQueue") \/ Step(t, "reloadHead", "installHead")
    /\ UNCHANGED <<m_word, threadDatas, locals>>

(* ... and release the queue lock by storing the word read just before,    *)
(* in the second case with this thread as the queue head.                  *)
ReloadToRelease(t) ==
    /\ Step(t, "reloadQueued", "releaseQueue") \/ Step(t, "reloadHead", "installHead")
    /\ Read(t, m_word)
    /\ UNCHANGED <<m_word, threadDatas, queueHead, newQueueHead, spinCount>>

(* Mutant: both bits are cleared with the queue lock.                      *)
ReleaseQueueAndLock(t) ==
    LET w == [currentWordValue[t] EXCEPT !.bits = {}] IN
    /\ \/ Step(t, "releaseQueue", "park") /\ m_word' = w
       \/ Step(t, "installHead", "park") /\ m_word' = SetHead(w, t)
    /\ ForgetWord(t) /\ ForgetQueue(t)
    /\ UNCHANGED <<threadDatas, spinCount>>

(* Mutant: the bit of the queue lock is not cleared.                       *)
ReleaseQueueForgotten(t) ==
    /\ \/ Step(t, "releaseQueue", "park") /\ m_word' = currentWordValue[t]
       \/ Step(t, "installHead", "park") /\ m_word' = SetHead(currentWordValue[t], t)
    /\ ForgetWord(t) /\ ForgetQueue(t)
    /\ UNCHANGED <<threadDatas, spinCount>>

ReleaseQueue(t) ==
    LET w == ClearBit(currentWordValue[t], "isQueueLocked") IN
    /\ \/ Step(t, "releaseQueue", "park") /\ m_word' = w
       \/ Step(t, "installHead", "park") /\ m_word' = SetHead(w, t)
    /\ ForgetWord(t) /\ ForgetQueue(t)
    /\ UNCHANGED <<threadDatas, spinCount>>

(* The parkingLock section: sleep while shouldPark, else loop around.      *)
Park(t) ==
    /\ Step(t, "park", IF shouldPark[t] THEN "parked" ELSE "load")
    /\ UNCHANGED <<m_word, threadDatas, locals>>

SpuriousWakeUp(t) ==
    /\ Step(t, "parked", "park")
    /\ UNCHANGED <<m_word, threadDatas, locals>>
-----------------------------------------------------------------------------
(***************************************************************************)
(* unlock() and unlockSlow().                                              *)
(***************************************************************************)

(* The inlined fast path, and the same CAS in the loop of unlockSlow().    *)
Unlock(t) ==
    /\ \/ Step(t, "held", "idle") /\ CAS(JustLocked, Unlocked)
       \/ Step(t, "held", "unlockLoad") /\ UNCHANGED m_word
    /\ UNCHANGED <<threadDatas, locals>>

UnlockRetry(t) ==
    /\ \/ Step(t, "unlockRetry", "idle") /\ CAS(JustLocked, Unlocked)
       \/ Step(t, "unlockRetry", "unlockLoad") /\ UNCHANGED m_word
    /\ UNCHANGED <<threadDatas, locals>>

(* Mutant: unlockSlow() does not wait for the queue lock.                  *)
UnlockLoadUnchecked(t) ==
    /\ pc[t] = "unlockLoad"
    /\ IF m_word = JustLocked THEN Goto(t, "unlockRetry") /\ UNCHANGED currentWordValue
       ELSE Goto(t, "unlockClaim") /\ Read(t, m_word)
    /\ UNCHANGED <<m_word, threadDatas, queueHead, newQueueHead, spinCount>>

UnlockLoad(t) ==
    /\ pc[t] = "unlockLoad"
    /\ IF m_word = JustLocked THEN Goto(t, "unlockRetry") /\ UNCHANGED currentWordValue
       ELSE IF IsQueueLocked(m_word) THEN UNCHANGED <<pc, currentWordValue>>
       ELSE Goto(t, "unlockClaim") /\ Read(t, m_word)
    /\ UNCHANGED <<m_word, threadDatas, queueHead, newQueueHead, spinCount>>

UnlockClaim(t) ==
    /\ \/ /\ Step(t, "unlockClaim", "unlockHead")
          /\ CAS(currentWordValue[t], SetBit(currentWordValue[t], "isQueueLocked"))
       \/ Step(t, "unlockClaim", "unlockLoad") /\ UNCHANGED m_word
    /\ ForgetWord(t)
    /\ UNCHANGED <<threadDatas, queueHead, newQueueHead, spinCount>>

(* Mutant: the bits are not masked off the queue head.                     *)
UnlockHeadUnmasked(t) ==
    /\ Step(t, "unlockHead", "unlockNext")
    /\ queueHead' = [queueHead EXCEPT ![t] = m_word]
    /\ UNCHANGED <<m_word, threadDatas, currentWordValue, newQueueHead, spinCount>>

UnlockHead(t) ==
    /\ Step(t, "unlockHead", "unlockNext")
    /\ queueHead' = [queueHead EXCEPT ![t] = m_word.head]
    /\ UNCHANGED <<m_word, threadDatas, currentWordValue, newQueueHead, spinCount>>

(* The next thread in the queue takes over the bookkeeping of the head.    *)
UnlockNext(t) ==
    LET next == nextInQueue[queueHead[t]] IN
    /\ Step(t, "unlockNext", "unlockReload")
    /\ newQueueHead' = [newQueueHead EXCEPT ![t] = next]
    /\ queueTail' = IF next = Null THEN queueTail
                    ELSE [queueTail EXCEPT ![next] = queueTail[queueHead[t]]]
    /\ UNCHANGED <<m_word, shouldPark, nextInQueue, currentWordValue, queueHead, spinCount>>

UnlockReload(t) ==
    /\ Step(t, "unlockReload", "unlockStore")
    /\ Read(t, m_word)
    /\ UNCHANGED <<m_word, threadDatas, queueHead, newQueueHead, spinCount>>

(* Mutant: the threads behind the head are forgotten.                      *)
UnlockStoreEmptying(t) ==
    /\ Step(t, "unlockStore", "clearNext")
    /\ m_word' = SetHead(ClearBit(ClearBit(currentWordValue[t], "isLocked"), "isQueueLocked"), Null)
    /\ ForgetWord(t)
    /\ newQueueHead' = [newQueueHead EXCEPT ![t] = Null]
    /\ UNCHANGED <<threadDatas, queueHead, spinCount>>

(* Release the lock and the queue lock and install the new queue head.     *)
UnlockStore(t) ==
    /\ Step(t, "unlockStore", "clearNext")
    /\ m_word' = SetHead(ClearBit(ClearBit(currentWordValue[t], "isLocked"), "isQueueLocked"),
                         newQueueHead[t])
    /\ ForgetWord(t)
    /\ newQueueHead' = [newQueueHead EXCEPT ![t] = Null]
    /\ UNCHANGED <<threadDatas, queueHead, spinCount>>

(* Mutant: the link of the dequeued thread is not reset.                   *)
ClearNextForgotten(t) ==
    /\ Step(t, "clearNext", "clearTail")
    /\ UNCHANGED <<m_word, threadDatas, locals>>

ClearNext(t) ==
    /\ Step(t, "clearNext", "clearTail")
    /\ nextInQueue' = [nextInQueue EXCEPT ![queueHead[t]] = Null]
    /\ UNCHANGED <<m_word, shouldPark, queueTail, locals>>

ClearTail(t) ==
    /\ Step(t, "clearTail", "wake")
    /\ queueTail' = [queueTail EXCEPT ![queueHead[t]] = Null]
    /\ UNCHANGED <<m_word, shouldPark, nextInQueue, locals>>

Wake(t) ==
    /\ Step(t, "wake", "notify")
    /\ shouldPark' = [shouldPark EXCEPT ![queueHead[t]] = FALSE]
    /\ UNCHANGED <<m_word, nextInQueue, queueTail, locals>>

(* Mutant: the queue head is not notified.                                 *)
NotifyForgotten(t) ==
    /\ Step(t, "notify", "idle") /\ ForgetQueue(t)
    /\ UNCHANGED <<m_word, threadDatas, currentWordValue, spinCount>>

(* parkingCondition.notify_one(): only queueHead can be asleep on it.      *)
Notify(t) ==
    LET h == queueHead[t] IN
    /\ pc[t] = "notify"
    /\ pc' = [pc EXCEPT ![t] = "idle", ![h] = IF pc[h] = "parked" THEN "park" ELSE @]
    /\ ForgetQueue(t)
    /\ UNCHANGED <<m_word, threadDatas, currentWordValue, spinCount>>
-----------------------------------------------------------------------------
(* What thread t does once it is inside lock() or holds the lock.          *)
Run(t) ==
    \/ Load(t) \/ Acquire(t) \/ Reload(t) \/ ClaimQueue(t) \/ SetShouldPark(t)
    \/ LinkTail(t) \/ SetTail(t) \/ InitTail(t) \/ ReloadToRelease(t) \/ ReleaseQueue(t) \/ Park(t)
    \/ Unlock(t) \/ UnlockRetry(t) \/ UnlockLoad(t) \/ UnlockClaim(t) \/ UnlockHead(t)
    \/ UnlockNext(t) \/ UnlockReload(t) \/ UnlockStore(t)
    \/ ClearNext(t) \/ ClearTail(t) \/ Wake(t) \/ Notify(t)

Next == \E t \in Threads : Lock(t) \/ SpuriousWakeUp(t) \/ Run(t)

Spec == Init /\ [][Next]_vars

(* Threads are scheduled fairly once they are inside lock(), hold the lock *)
(* or are inside unlock(); nothing makes a thread call lock(). A thread    *)
(* whose weak CASes find the expected word over and over again does not    *)
(* see all of them fail.                                                   *)
FairSpec ==
    /\ Spec
    /\ \A t \in Threads : WF_vars(Run(t)) /\ SF_vars(Run(t) /\ m_word' # m_word)
-----------------------------------------------------------------------------
(***************************************************************************)
(* Properties.                                                             *)
(***************************************************************************)

Labels ==
    {"idle", "load", "acquire", "reload", "claimQueue", "setShouldPark", "linkTail", "setTail",
     "reloadQueued", "releaseQueue", "initTail", "reloadHead", "installHead", "park", "parked",
     "held", "unlockLoad", "unlockRetry", "unlockClaim", "unlockHead", "unlockNext",
     "unlockReload", "unlockStore", "clearNext", "clearTail", "wake", "notify"}

(* Every variable of the lock, its ThreadData records and the two slow     *)
(* paths holds a value of its C++ type.                                    *)
TypeOK ==
    /\ m_word \in Words
    /\ shouldPark \in [Threads -> BOOLEAN]
    /\ nextInQueue \in [Threads -> Pointers]
    /\ queueTail \in [Threads -> Pointers]
    /\ pc \in [Threads -> Labels]
    /\ currentWordValue \in [Threads -> Words]
    /\ queueHead \in [Threads -> Pointers]
    /\ newQueueHead \in [Threads -> Pointers]
    /\ spinCount \in [Threads -> Nat]

(* lock() has returned in t and unlock() has not released the word yet.    *)
Holding(t) == pc[t] \in {"held", "unlockLoad", "unlockRetry", "unlockClaim", "unlockHead",
                         "unlockNext", "unlockReload", "unlockStore"}

(* t owns the queue lock: in lockSlow() to enqueue, in unlockSlow() to     *)
(* dequeue.                                                                *)
Enqueuing(t) == pc[t] \in {"setShouldPark", "linkTail", "setTail", "reloadQueued", "releaseQueue",
                           "initTail", "reloadHead", "installHead"}
Dequeuing(t) == pc[t] \in {"unlockHead", "unlockNext", "unlockReload", "unlockStore"}

(* t has taken queueHead[t] off the queue and is about to wake it.         *)
Waking(t) == pc[t] \in {"clearNext", "clearTail", "wake"}

(* At most one thread is between the return of lock() and the release of   *)
(* the word in unlock(), whatever the weak CASes do.                       *)
MutualExclusion == \A t, u \in Threads : Holding(t) /\ Holding(u) => t = u

(* The ASSERTs of lockSlow() on the word: nobody owns the queue lock of a  *)
(* free lock, and a thread that owns the queue lock stores back a word in  *)
(* which both bits are set and which has a queue exactly when it found one *)
(* (the last one is what WordLock.cpp:153 means to assert).                *)
LockSlowAsserts == \A t \in Threads :
    /\ pc[t] = "acquire" => ~IsQueueLocked(currentWordValue[t])
    /\ pc[t] \in {"releaseQueue", "installHead"} =>
           /\ IsLocked(currentWordValue[t])
           /\ IsQueueLocked(currentWordValue[t])
           /\ (currentWordValue[t].head = Null) <=> (pc[t] = "installHead")

(* The ASSERTs of unlockSlow(): the lock stays held until the final store, *)
(* and a thread that owns the queue lock finds a queue and, when it stores *)
(* the word, still the same queue head.                                    *)
UnlockSlowAsserts == \A t \in Threads :
    /\ pc[t] \in {"unlockLoad", "unlockHead"} => IsLocked(m_word)
    /\ pc[t] = "unlockClaim" => currentWordValue[t].head # Null
    /\ pc[t] = "unlockHead" => IsQueueLocked(m_word) /\ m_word.head # Null
    /\ pc[t] = "unlockStore" => currentWordValue[t] =
           [bits |-> {"isLocked", "isQueueLocked"}, head |-> queueHead[t]]

(* The ASSERTs of lockSlow() on the thread's own data, before it queues up *)
(* and after it wakes: nobody still has it on the queue, nor is about to   *)
(* write to it.                                                            *)
OwnDataAsserts == \A t \in Threads : pc[t] \in {"load", "reload"} =>
    /\ ~shouldPark[t] /\ nextInQueue[t] = Null /\ queueTail[t] = Null
    /\ \A u \in Threads : Waking(u) => queueHead[u] # t

(* The threads that can be reached from the word, in queue order. With a   *)
(* cycle in the list the sequence is longer than there are threads.        *)
WaitQueue ==
    LET node[n \in 0..Cardinality(Threads)] ==
            IF n = 0 THEN m_word.head
            ELSE IF node[n - 1] = Null THEN Null ELSE nextInQueue[node[n - 1]]
        len == Cardinality({n \in DOMAIN node : node[n] # Null})
    IN  [i \in 1..len |-> node[i - 1]]

(* The linked list is a proper queue of exactly the threads that go to     *)
(* sleep: no cycle, nobody twice, nobody forgotten (a thread that parks    *)
(* off the queue would never be woken), and outside an enqueue the tail    *)
(* recorded in the head is the last one.                                   *)
QueueIsSound ==
    LET q == WaitQueue
        members == {q[i] : i \in DOMAIN q}
    IN  /\ Cardinality(members) = Len(q)
        /\ members = {t \in Threads :
                /\ pc[t] \in {"setTail", "reloadQueued", "releaseQueue", "park", "parked"}
                /\ shouldPark[t]
                /\ ~\E u \in Threads : Waking(u) /\ queueHead[u] = t}
        /\ (Len(q) > 0 /\ \A t \in Threads : pc[t] # "setTail") => queueTail[q[1]] = q[Len(q)]

(* First come, first served: the queue only ever grows at its end and      *)
(* shrinks at its front, under any interleaving of lockers and unlockers.  *)
QueueIsFIFO ==
    [][ \/ WaitQueue' = WaitQueue
        \/ \E t \in Threads : WaitQueue' = Append(WaitQueue, t)
        \/ WaitQueue # <<>> /\ WaitQueue' = Tail(WaitQueue) ]_vars

(* A thread that is inside unlock() gets out, although other threads take  *)
(* the queue lock and change the word under it.                            *)
UnlockReturns == \A t \in Threads :
    (Holding(t) \/ Waking(t)) /\ pc[t] # "held" ~> pc[t] = "idle"

(* While a thread waits the lock keeps being handed on: the word is not    *)
(* left free with everyone asleep, nor spun on without progress.           *)
LockIsHandedOn == \A t \in Threads :
    pc[t] \in {"load", "reload", "park", "parked"} ~> \E u \in Threads : pc[u] = "held"

(* WordLock implements Mutex: a thread waits in lock(), is in from the CAS *)
(* that sets isLockedBit to the CAS or store that clears it, and is out    *)
(* while it wakes the old queue head.                                      *)
M == INSTANCE Mutex WITH
    mode <- [t \in Threads |-> IF Holding(t) THEN "in"
                               ELSE IF pc[t] = "idle" \/ Waking(t) \/ pc[t] = "notify" THEN "out"
                               ELSE "waiting"]
ImplementsMutex == M!Spec
=============================================================================
