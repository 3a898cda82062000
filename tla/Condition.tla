------------------------------ MODULE Condition ------------------------------
(***************************************************************************)
(* WTF::Condition (Condition.h): a condition variable in one byte, which   *)
(* says whether threads may be waiting; they are parked on its address in  *)
(* the ParkingLot, used here as ParkingQueues describes it.                *)
(*                                                                         *)
(* The lock that goes with the condition is a Mutex. The model holds the   *)
(* queue lock of the ParkingLot apart from it, because the validation      *)
(* function of waitUntil() writes m_hasWaiters under it and notifyAll()    *)
(* writes m_hasWaiters without it.                                         *)
(*                                                                         *)
(* The callers are the usual ones: consumers take an item under the lock   *)
(* and wait while there is none (the forms of wait() that take a           *)
(* predicate); producers add an item under the lock and notify after they  *)
(* have released it.                                                       *)
(***************************************************************************)
EXTENDS Naturals, FiniteSets, SequencesExt

CONSTANTS
    Threads,
    Null,
    Timeouts,       \* the timeouts consumers wait with: "past", "sometime", "never"
    maxItems        \* bound: producers stop when there are so many items

ASSUME ConditionAssumption ==
    /\ IsFiniteSet(Threads) /\ Null \notin Threads
    /\ Timeouts \subseteq {"past", "sometime", "never"}
    /\ maxItems \in Nat

VARIABLES
    m_hasWaiters,
    queue,          \* the threads parked on &m_hasWaiters
    queueLock,      \* who holds the lock of their bucket, or Null
    lock,           \* who holds the lock the callers pass to wait(), or Null
    items,          \* what the predicate is about
    timeout,        \* the timeout of the wait a thread is in
    pc

vars == <<m_hasWaiters, queue, queueLock, lock, items, timeout, pc>>

Goto(t, label) == pc' = [pc EXCEPT ![t] = label]
Step(t, from, to) == pc[t] = from /\ Goto(t, to)

Init ==
    /\ m_hasWaiters = FALSE
    /\ queue = <<>> /\ queueLock = Null
    /\ lock = Null
    /\ items = 0
    /\ timeout = [t \in Threads |-> "never"]
    /\ pc = [t \in Threads |-> "idle"]
-----------------------------------------------------------------------------
(***************************************************************************)
(* The callers.                                                            *)
(***************************************************************************)

Consume(t, to) ==
    /\ Step(t, "idle", "predicate")
    /\ lock = Null /\ lock' = t
    /\ timeout' = [timeout EXCEPT ![t] = to]
    /\ UNCHANGED <<m_hasWaiters, queue, queueLock, items>>

Produce(t, notify) ==
    /\ items < maxItems
    /\ Step(t, "idle", notify)
    /\ lock = Null                          \* lock, add and unlock again
    /\ items' = items + 1
    /\ UNCHANGED <<m_hasWaiters, queue, queueLock, lock, timeout>>

(* The loop of wait(lock, predicate), with the lock held: the consumer     *)
(* takes its item and leaves, or calls waitUntil(), which parks it unless  *)
(* the time is over already.                                               *)
Predicate(t) ==
    /\ pc[t] = "predicate"
    /\ \/ /\ items > 0
          /\ Goto(t, "idle") /\ items' = items - 1 /\ lock' = Null
       \/ /\ items = 0 /\ timeout[t] \in {"sometime", "never"}
          /\ Goto(t, "lockQueue") /\ UNCHANGED <<items, lock>>
       \/ /\ items = 0 /\ timeout[t] \in {"past", "sometime"}
          /\ Goto(t, "relockFalse") /\ lock' = Null /\ UNCHANGED items
    /\ UNCHANGED <<m_hasWaiters, queue, queueLock, timeout>>
-----------------------------------------------------------------------------
(***************************************************************************)
(* waitUntil(): park, with the lock released once the thread is queued,    *)
(* and take the lock again.                                                *)
(***************************************************************************)

LockQueue(t) ==
    /\ Step(t, "lockQueue", "validation")
    /\ queueLock = Null /\ queueLock' = t
    /\ UNCHANGED <<m_hasWaiters, queue, lock, items, timeout>>

(* Mutant: the first waiter does not announce itself.                      *)
ValidationSilent(t) ==
    /\ Step(t, "validation", "enqueue")
    /\ m_hasWaiters' = (queue # <<>>)
    /\ UNCHANGED <<queue, queueLock, lock, items, timeout>>

Validation(t) ==
    /\ Step(t, "validation", "enqueue")
    /\ m_hasWaiters' = TRUE
    /\ UNCHANGED <<queue, queueLock, lock, items, timeout>>

Enqueue(t) ==
    /\ Step(t, "enqueue", "beforeSleep")
    /\ queue' = Append(queue, t)
    /\ queueLock' = Null
    /\ UNCHANGED <<m_hasWaiters, lock, items, timeout>>

BeforeSleep(t) ==
    /\ Step(t, "beforeSleep", "parked")
    /\ lock' = Null
    /\ UNCHANGED <<m_hasWaiters, queue, queueLock, items, timeout>>

Unparked(t) ==
    /\ t \notin Range(queue)
    /\ Step(t, "parked", "relockTrue")
    /\ UNCHANGED <<m_hasWaiters, queue, queueLock, lock, items, timeout>>

TimeOut(t) ==
    /\ timeout[t] = "sometime" /\ queueLock = Null
    /\ Step(t, "parked", "relockFalse")
    /\ \E i \in 1 .. Len(queue) : queue[i] = t /\ queue' = RemoveAt(queue, i)
    /\ UNCHANGED <<m_hasWaiters, queueLock, lock, items, timeout>>

(* After a notification the caller tries its predicate again; after a      *)
(* timeout it returns with what the predicate says now.                    *)
Relock(t) ==
    /\ lock = Null
    /\ \/ Step(t, "relockTrue", "predicate") /\ lock' = t /\ UNCHANGED items
       \/ /\ Step(t, "relockFalse", "idle")
          /\ items' = IF items > 0 THEN items - 1 ELSE items
          /\ UNCHANGED lock
    /\ UNCHANGED <<m_hasWaiters, queue, queueLock, timeout>>
-----------------------------------------------------------------------------
(***************************************************************************)
(* notifyOne() and notifyAll().                                            *)
(***************************************************************************)

NotifyOne(t) ==
    /\ Step(t, "notifyOne", IF m_hasWaiters THEN "unparkOne" ELSE "idle")
    /\ UNCHANGED <<m_hasWaiters, queue, queueLock, lock, items, timeout>>

(* Mutant: the callback clears m_hasWaiters although others wait.          *)
UnparkOneClears(t) ==
    /\ queueLock = Null
    /\ Step(t, "unparkOne", "idle")
    /\ queue' = IF queue = <<>> THEN <<>> ELSE Tail(queue)
    /\ m_hasWaiters' = FALSE
    /\ UNCHANGED <<queueLock, lock, items, timeout>>

(* unparkOne() with its callback, under the queue lock. There may be more  *)
(* threads in the bucket although none of them waits here.                 *)
UnparkOne(t) ==
    /\ queueLock = Null
    /\ Step(t, "unparkOne", "idle")
    /\ queue' = IF queue = <<>> THEN <<>> ELSE Tail(queue)
    /\ \E mayHaveMoreThreads \in BOOLEAN :
           /\ queue = <<>> => ~mayHaveMoreThreads
           /\ queue' # <<>> => mayHaveMoreThreads
           /\ m_hasWaiters' = IF mayHaveMoreThreads THEN m_hasWaiters ELSE FALSE
    /\ UNCHANGED <<queueLock, lock, items, timeout>>

NotifyAll(t) ==
    /\ Step(t, "notifyAll", IF m_hasWaiters THEN "storeFalse" ELSE "idle")
    /\ UNCHANGED <<m_hasWaiters, queue, queueLock, lock, items, timeout>>

StoreFalse(t) ==
    /\ Step(t, "storeFalse", "unparkAll")
    /\ m_hasWaiters' = FALSE
    /\ UNCHANGED <<queue, queueLock, lock, items, timeout>>

(* Mutant: notifyAll() unparks only if there are waiters by then.          *)
UnparkAllNobody(t) ==
    /\ queueLock = Null
    /\ Step(t, "unparkAll", "idle")
    /\ queue' = IF m_hasWaiters THEN <<>> ELSE queue
    /\ UNCHANGED <<m_hasWaiters, queueLock, lock, items, timeout>>

UnparkAll(t) ==
    /\ queueLock = Null
    /\ Step(t, "unparkAll", "idle")
    /\ queue' = <<>>
    /\ UNCHANGED <<m_hasWaiters, queueLock, lock, items, timeout>>
-----------------------------------------------------------------------------
Next == \E t \in Threads :
    \/ \E to \in Timeouts : Consume(t, to)
    \/ \E notify \in {"notifyOne", "notifyAll"} : Produce(t, notify)
    \/ Predicate(t)
    \/ LockQueue(t) \/ Validation(t) \/ Enqueue(t) \/ BeforeSleep(t)
    \/ Unparked(t) \/ TimeOut(t) \/ Relock(t)
    \/ NotifyOne(t) \/ UnparkOne(t) \/ NotifyAll(t) \/ StoreFalse(t) \/ UnparkAll(t)

Spec == Init /\ [][Next]_vars

(* What a thread does of its own accord once it has begun to wait or to    *)
(* notify. Nothing makes it consume or produce, and its time need never be *)
(* over.                                                                   *)
Run(t) ==
    \/ Predicate(t)
    \/ LockQueue(t) \/ Validation(t) \/ Enqueue(t) \/ BeforeSleep(t)
    \/ Unparked(t) \/ Relock(t)
    \/ NotifyOne(t) \/ UnparkOne(t) \/ NotifyAll(t) \/ StoreFalse(t) \/ UnparkAll(t)

(* Threads are scheduled fairly. Nobody is promised the lock: a thread     *)
(* that finds it taken each time may wait for ever.                        *)
FairSpec == Spec /\ \A t \in Threads : WF_vars(Run(t))
-----------------------------------------------------------------------------
(***************************************************************************)
(* Properties.                                                             *)
(***************************************************************************)

(* A notifier that finds m_hasWaiters false may leave: nobody waits, or a  *)
(* notifyAll() that cleared it is still going to unpark everybody. This is *)
(* why notifyAll() may clear it without the queue lock, even between a     *)
(* waiter's store and its enqueue.                                         *)
NoHiddenWaiters ==
    ~m_hasWaiters /\ (queue # <<>> \/ \E t \in Threads : pc[t] = "enqueue")
        => \E u \in Threads : pc[u] = "unparkAll"

(* No lost notification: no consumer stays parked next to an item while    *)
(* everybody else is parked too or has gone home.                          *)
NoStuckConsumer ==
    items > 0 /\ queue # <<>> =>
        \E u \in Threads : pc[u] # "idle" /\ ~(pc[u] = "parked" /\ u \in Range(queue))

(* An item reaches a consumer that sleeps: it is unparked, or others take  *)
(* everything there is. A notification does not get lost on a waiter that  *)
(* times out at that moment (95), before m_hasWaiters is set, or because   *)
(* the thread that was woken finds the item gone.                          *)
WaitersAreServed == \A t \in Threads :
    items > 0 /\ t \in Range(queue) ~> items = 0 \/ t \notin Range(queue)
=============================================================================
