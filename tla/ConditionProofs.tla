-------------------------- MODULE ConditionProofs ---------------------------
(***************************************************************************)
(* Proofs about Condition, for any finite set of threads, any timeouts and *)
(* any number of items.                                                    *)
(***************************************************************************)
EXTENDS Condition, SequenceFacts, FiniteSetTheorems

(***************************************************************************)
(* The inductive invariant behind the theorems.                            *)
(***************************************************************************)

Labels ==
    {"idle", "predicate", "lockQueue", "validation", "enqueue", "beforeSleep", "parked",
     "relockTrue", "relockFalse", "notifyOne", "unparkOne", "notifyAll", "storeFalse", "unparkAll"}

TypeOK ==
    /\ m_hasWaiters \in BOOLEAN
    /\ queue \in Seq(Threads)
    /\ items \in Nat
    /\ pc \in [Threads -> Labels]

(* A waiter keeps the lock from its predicate until it is queued, and the  *)
(* queue lock from its store to m_hasWaiters until it is queued.           *)
LocksInv == \A t \in Threads :
    /\ pc[t] \in {"predicate", "lockQueue", "validation", "enqueue", "beforeSleep"} => lock = t
    /\ pc[t] \in {"validation", "enqueue"} => queueLock = t

(* A thread is on the queue at most once, and waits while it is there.     *)
QueueInv ==
    /\ IsInjective(queue)
    /\ \A t \in Range(queue) : pc[t] \in {"beforeSleep", "parked"}

(* Nothing is produced behind the back of a consumer that has decided to   *)
(* wait.                                                                   *)
PredicateInv == \A t \in Threads :
    pc[t] \in {"lockQueue", "validation", "enqueue", "beforeSleep"} => items = 0

(* The threads that are going to notify a waiter or to take an item.       *)
Helpers == {t \in Threads :
    \/ pc[t] \in {"notifyOne", "unparkOne", "notifyAll", "storeFalse", "relockTrue", "predicate"}
    \/ pc[t] \in {"beforeSleep", "parked"} /\ t \notin Range(queue)}

(* While somebody waits, every item has a thread that cares for it, unless *)
(* a notifyAll() is about to wake everybody.                               *)
ItemsInv == queue # <<>> =>
    \/ \E t \in Threads : pc[t] = "unparkAll"
    \/ items <= Cardinality(Helpers)

CondInv ==
    TypeOK /\ LocksInv /\ QueueInv /\ PredicateInv /\ NoHiddenWaiters /\ ItemsInv
-----------------------------------------------------------------------------

LEMMA TypeStep == TypeOK /\ [Next]_vars => TypeOK'
<1> SUFFICES ASSUME TypeOK, [Next]_vars PROVE TypeOK'
  OBVIOUS
<1> USE DEF TypeOK, Labels, Step, Goto
<1>1. ASSUME NEW t \in Threads, NEW to \in Timeouts, Consume(t, to) PROVE TypeOK'
  BY <1>1 DEF Consume
<1>2. ASSUME NEW t \in Threads, NEW notify \in {"notifyOne", "notifyAll"}, Produce(t, notify) PROVE TypeOK'
  BY <1>2 DEF Produce
<1>3. ASSUME NEW t \in Threads, Predicate(t) PROVE TypeOK'
  BY <1>3 DEF Predicate
<1>4. ASSUME NEW t \in Threads, LockQueue(t) PROVE TypeOK'
  BY <1>4 DEF LockQueue
<1>5. ASSUME NEW t \in Threads, Validation(t) PROVE TypeOK'
  BY <1>5 DEF Validation
<1>6. ASSUME NEW t \in Threads, Enqueue(t) PROVE TypeOK'
  <2>1. Append(queue, t) \in Seq(Threads)
    BY AppendFacts
  <2> QED
    BY <1>6, <2>1 DEF Enqueue
<1>7. ASSUME NEW t \in Threads, BeforeSleep(t) PROVE TypeOK'
  BY <1>7 DEF BeforeSleep
<1>8. ASSUME NEW t \in Threads, Unparked(t) PROVE TypeOK'
  BY <1>8 DEF Unparked
<1>9. ASSUME NEW t \in Threads, TimeOut(t) PROVE TypeOK'
  <2>1. \A i \in 1..Len(queue) : RemoveAt(queue, i) \in Seq(Threads)
    BY RemoveAtFacts
  <2> QED
    BY <1>9, <2>1 DEF TimeOut
<1>10. ASSUME NEW t \in Threads, Relock(t) PROVE TypeOK'
  BY <1>10 DEF Relock
<1>11. ASSUME NEW t \in Threads, NotifyOne(t) PROVE TypeOK'
  BY <1>11 DEF NotifyOne
<1>12. ASSUME NEW t \in Threads, UnparkOne(t) PROVE TypeOK'
  <2>1. queue # <<>> => Tail(queue) \in Seq(Threads)
    BY TailFacts
  <2>2. m_hasWaiters' \in BOOLEAN
    BY <1>12, Zenon DEF UnparkOne
  <2> QED
    BY <1>12, <2>1, <2>2 DEF UnparkOne
<1>13. ASSUME NEW t \in Threads, NotifyAll(t) PROVE TypeOK'
  BY <1>13 DEF NotifyAll
<1>14. ASSUME NEW t \in Threads, StoreFalse(t) PROVE TypeOK'
  BY <1>14 DEF StoreFalse
<1>15. ASSUME NEW t \in Threads, UnparkAll(t) PROVE TypeOK'
  <2>1. <<>> \in Seq(Threads)
    OBVIOUS
  <2> QED
    BY <1>15, <2>1 DEF UnparkAll
<1>16. CASE UNCHANGED vars
  BY <1>16 DEF vars
<1> QED
  BY <1>1, <1>2, <1>3, <1>4, <1>5, <1>6, <1>7, <1>8, <1>9, <1>10, <1>11, <1>12, <1>13, <1>14, <1>15, <1>16 DEF Next

(* Nobody takes a lock that is not free.                                   *)
LEMMA LocksStep == TypeOK /\ LocksInv /\ [Next]_vars => LocksInv'
<1> SUFFICES ASSUME TypeOK, LocksInv, [Next]_vars PROVE LocksInv'
  OBVIOUS
<1> USE ConditionAssumption DEF TypeOK, LocksInv, Step, Goto
<1>1. ASSUME NEW t \in Threads, NEW to \in Timeouts, Consume(t, to) PROVE LocksInv'
  BY <1>1 DEF Consume
<1>2. ASSUME NEW t \in Threads, NEW notify \in {"notifyOne", "notifyAll"}, Produce(t, notify) PROVE LocksInv'
  BY <1>2 DEF Produce
<1>3. ASSUME NEW t \in Threads, Predicate(t) PROVE LocksInv'
  BY <1>3 DEF Predicate
<1>4. ASSUME NEW t \in Threads, LockQueue(t) PROVE LocksInv'
  BY <1>4 DEF LockQueue
<1>5. ASSUME NEW t \in Threads, Validation(t) PROVE LocksInv'
  BY <1>5 DEF Validation
<1>6. ASSUME NEW t \in Threads, Enqueue(t) PROVE LocksInv'
  BY <1>6 DEF Enqueue
<1>7. ASSUME NEW t \in Threads, BeforeSleep(t) PROVE LocksInv'
  BY <1>7 DEF BeforeSleep
<1>8. ASSUME NEW t \in Threads, Unparked(t) PROVE LocksInv'
  BY <1>8 DEF Unparked
<1>9. ASSUME NEW t \in Threads, TimeOut(t) PROVE LocksInv'
  BY <1>9 DEF TimeOut
<1>10. ASSUME NEW t \in Threads, Relock(t) PROVE LocksInv'
  BY <1>10 DEF Relock
<1>11. ASSUME NEW t \in Threads, NotifyOne(t) PROVE LocksInv'
  BY <1>11 DEF NotifyOne
<1>12. ASSUME NEW t \in Threads, UnparkOne(t) PROVE LocksInv'
  BY <1>12 DEF UnparkOne
<1>13. ASSUME NEW t \in Threads, NotifyAll(t) PROVE LocksInv'
  BY <1>13 DEF NotifyAll
<1>14. ASSUME NEW t \in Threads, StoreFalse(t) PROVE LocksInv'
  BY <1>14 DEF StoreFalse
<1>15. ASSUME NEW t \in Threads, UnparkAll(t) PROVE LocksInv'
  BY <1>15 DEF UnparkAll
<1>16. CASE UNCHANGED vars
  BY <1>16 DEF vars
<1> QED
  BY <1>1, <1>2, <1>3, <1>4, <1>5, <1>6, <1>7, <1>8, <1>9, <1>10, <1>11, <1>12, <1>13, <1>14, <1>15, <1>16 DEF Next

(* A thread queues itself once and stays in waitUntil() while it is there. *)
LEMMA QueueStep == TypeOK /\ QueueInv /\ [Next]_vars => QueueInv'
<1> SUFFICES ASSUME TypeOK, QueueInv, [Next]_vars PROVE QueueInv'
  OBVIOUS
<1>a. Range(queue) \subseteq Threads
  BY LenProperties DEF TypeOK, Range
<1> USE <1>a DEF TypeOK, QueueInv, Step, Goto
<1>1. ASSUME NEW t \in Threads, NEW to \in Timeouts, Consume(t, to) PROVE QueueInv'
  BY <1>1 DEF Consume
<1>2. ASSUME NEW t \in Threads, NEW notify \in {"notifyOne", "notifyAll"}, Produce(t, notify) PROVE QueueInv'
  BY <1>2 DEF Produce
<1>3. ASSUME NEW t \in Threads, Predicate(t) PROVE QueueInv'
  BY <1>3 DEF Predicate
<1>4. ASSUME NEW t \in Threads, LockQueue(t) PROVE QueueInv'
  BY <1>4 DEF LockQueue
<1>5. ASSUME NEW t \in Threads, Validation(t) PROVE QueueInv'
  BY <1>5 DEF Validation
<1>6. ASSUME NEW t \in Threads, Enqueue(t) PROVE QueueInv'
  <2>1. t \notin Range(queue) /\ queue' = Append(queue, t)
    BY <1>6 DEF Enqueue
  <2>2. IsInjective(queue') /\ Range(queue') = Range(queue) \cup {t}
    BY <2>1, AppendFacts
  <2> QED
    BY <1>6, <2>2 DEF Enqueue
<1>7. ASSUME NEW t \in Threads, BeforeSleep(t) PROVE QueueInv'
  BY <1>7 DEF BeforeSleep
<1>8. ASSUME NEW t \in Threads, Unparked(t) PROVE QueueInv'
  BY <1>8 DEF Unparked
<1>9. ASSUME NEW t \in Threads, TimeOut(t) PROVE QueueInv'
  <2>1. PICK i \in 1..Len(queue) : queue[i] = t /\ queue' = RemoveAt(queue, i)
    BY <1>9 DEF TimeOut
  <2>2. IsInjective(queue') /\ Range(queue') = Range(queue) \ {t}
    BY <2>1, RemoveAtFacts
  <2> QED
    BY <1>9, <2>2 DEF TimeOut
<1>10. ASSUME NEW t \in Threads, Relock(t) PROVE QueueInv'
  BY <1>10 DEF Relock
<1>11. ASSUME NEW t \in Threads, NotifyOne(t) PROVE QueueInv'
  BY <1>11 DEF NotifyOne
<1>12. ASSUME NEW t \in Threads, UnparkOne(t) PROVE QueueInv'
  <2>1. queue # <<>> => IsInjective(Tail(queue)) /\ Range(Tail(queue)) \subseteq Range(queue)
    BY TailFacts
  <2> QED
    BY <1>12, <2>1 DEF UnparkOne
<1>13. ASSUME NEW t \in Threads, NotifyAll(t) PROVE QueueInv'
  BY <1>13 DEF NotifyAll
<1>14. ASSUME NEW t \in Threads, StoreFalse(t) PROVE QueueInv'
  BY <1>14 DEF StoreFalse
<1>15. ASSUME NEW t \in Threads, UnparkAll(t) PROVE QueueInv'
  <2>1. IsInjective(<<>>) /\ Range(<<>>) = {}
    BY DEF IsInjective, Range
  <2> QED
    BY <1>15, <2>1 DEF UnparkAll
<1>16. CASE UNCHANGED vars
  BY <1>16 DEF vars
<1> QED
  BY <1>1, <1>2, <1>3, <1>4, <1>5, <1>6, <1>7, <1>8, <1>9, <1>10, <1>11, <1>12, <1>13, <1>14, <1>15, <1>16 DEF Next

(* Whoever changes the number of items finds the lock free.                *)
LEMMA PredicateStep == TypeOK /\ LocksInv /\ PredicateInv /\ [Next]_vars => PredicateInv'
<1> SUFFICES ASSUME TypeOK, LocksInv, PredicateInv, [Next]_vars PROVE PredicateInv'
  OBVIOUS
<1> USE ConditionAssumption DEF TypeOK, LocksInv, PredicateInv, Step, Goto
<1>1. ASSUME NEW t \in Threads, NEW to \in Timeouts, Consume(t, to) PROVE PredicateInv'
  BY <1>1 DEF Consume
<1>2. ASSUME NEW t \in Threads, NEW notify \in {"notifyOne", "notifyAll"}, Produce(t, notify) PROVE PredicateInv'
  BY <1>2 DEF Produce
<1>3. ASSUME NEW t \in Threads, Predicate(t) PROVE PredicateInv'
  BY <1>3 DEF Predicate
<1>4. ASSUME NEW t \in Threads, LockQueue(t) PROVE PredicateInv'
  BY <1>4 DEF LockQueue
<1>5. ASSUME NEW t \in Threads, Validation(t) PROVE PredicateInv'
  BY <1>5 DEF Validation
<1>6. ASSUME NEW t \in Threads, Enqueue(t) PROVE PredicateInv'
  BY <1>6 DEF Enqueue
<1>7. ASSUME NEW t \in Threads, BeforeSleep(t) PROVE PredicateInv'
  BY <1>7 DEF BeforeSleep
<1>8. ASSUME NEW t \in Threads, Unparked(t) PROVE PredicateInv'
  BY <1>8 DEF Unparked
<1>9. ASSUME NEW t \in Threads, TimeOut(t) PROVE PredicateInv'
  BY <1>9 DEF TimeOut
<1>10. ASSUME NEW t \in Threads, Relock(t) PROVE PredicateInv'
  BY <1>10 DEF Relock
<1>11. ASSUME NEW t \in Threads, NotifyOne(t) PROVE PredicateInv'
  BY <1>11 DEF NotifyOne
<1>12. ASSUME NEW t \in Threads, UnparkOne(t) PROVE PredicateInv'
  BY <1>12 DEF UnparkOne
<1>13. ASSUME NEW t \in Threads, NotifyAll(t) PROVE PredicateInv'
  BY <1>13 DEF NotifyAll
<1>14. ASSUME NEW t \in Threads, StoreFalse(t) PROVE PredicateInv'
  BY <1>14 DEF StoreFalse
<1>15. ASSUME NEW t \in Threads, UnparkAll(t) PROVE PredicateInv'
  BY <1>15 DEF UnparkAll
<1>16. CASE UNCHANGED vars
  BY <1>16 DEF vars
<1> QED
  BY <1>1, <1>2, <1>3, <1>4, <1>5, <1>6, <1>7, <1>8, <1>9, <1>10, <1>11, <1>12, <1>13, <1>14, <1>15, <1>16 DEF Next

(* m_hasWaiters is only cleared when the queue is empty and nobody is      *)
(* about to join it, or by a notifyAll() that then empties the queue.      *)
LEMMA HiddenStep == TypeOK /\ LocksInv /\ NoHiddenWaiters /\ [Next]_vars => NoHiddenWaiters'
<1> SUFFICES ASSUME TypeOK, LocksInv, NoHiddenWaiters, [Next]_vars PROVE NoHiddenWaiters'
  OBVIOUS
<1> USE ConditionAssumption DEF TypeOK, LocksInv, NoHiddenWaiters, Step, Goto
<1>1. ASSUME NEW t \in Threads, NEW to \in Timeouts, Consume(t, to) PROVE NoHiddenWaiters'
  BY <1>1 DEF Consume
<1>2. ASSUME NEW t \in Threads, NEW notify \in {"notifyOne", "notifyAll"}, Produce(t, notify) PROVE NoHiddenWaiters'
  BY <1>2 DEF Produce
<1>3. ASSUME NEW t \in Threads, Predicate(t) PROVE NoHiddenWaiters'
  BY <1>3 DEF Predicate
<1>4. ASSUME NEW t \in Threads, LockQueue(t) PROVE NoHiddenWaiters'
  BY <1>4 DEF LockQueue
<1>5. ASSUME NEW t \in Threads, Validation(t) PROVE NoHiddenWaiters'
  BY <1>5 DEF Validation
<1>6. ASSUME NEW t \in Threads, Enqueue(t) PROVE NoHiddenWaiters'
  BY <1>6 DEF Enqueue
<1>7. ASSUME NEW t \in Threads, BeforeSleep(t) PROVE NoHiddenWaiters'
  BY <1>7 DEF BeforeSleep
<1>8. ASSUME NEW t \in Threads, Unparked(t) PROVE NoHiddenWaiters'
  BY <1>8 DEF Unparked
<1>9. ASSUME NEW t \in Threads, TimeOut(t) PROVE NoHiddenWaiters'
  <2>1. queue # <<>>
    BY <1>9, EmptySeq DEF TimeOut
  <2> QED
    BY <1>9, <2>1 DEF TimeOut
<1>10. ASSUME NEW t \in Threads, Relock(t) PROVE NoHiddenWaiters'
  BY <1>10 DEF Relock
<1>11. ASSUME NEW t \in Threads, NotifyOne(t) PROVE NoHiddenWaiters'
  BY <1>11 DEF NotifyOne
<1>12. ASSUME NEW t \in Threads, UnparkOne(t) PROVE NoHiddenWaiters'
  BY <1>12 DEF UnparkOne
<1>13. ASSUME NEW t \in Threads, NotifyAll(t) PROVE NoHiddenWaiters'
  BY <1>13 DEF NotifyAll
<1>14. ASSUME NEW t \in Threads, StoreFalse(t) PROVE NoHiddenWaiters'
  BY <1>14 DEF StoreFalse
<1>15. ASSUME NEW t \in Threads, UnparkAll(t) PROVE NoHiddenWaiters'
  BY <1>15 DEF UnparkAll
<1>16. CASE UNCHANGED vars
  BY <1>16 DEF vars
<1> QED
  BY <1>1, <1>2, <1>3, <1>4, <1>5, <1>6, <1>7, <1>8, <1>9, <1>10, <1>11, <1>12, <1>13, <1>14, <1>15, <1>16 DEF Next

(* Gaining helpers, and losing one of them, changes their number by as     *)
(* much as one expects.                                                    *)
LEMMA HelpersCount ==
    ASSUME NEW A \in SUBSET Threads, NEW B \in SUBSET Threads, NEW t
    PROVE  /\ Cardinality(A) \in Nat /\ Cardinality(B) \in Nat
           /\ A \subseteq B => Cardinality(A) <= Cardinality(B)
           /\ A \subseteq B /\ t \in B \ A => Cardinality(A) + 1 <= Cardinality(B)
           /\ A \ {t} \subseteq B => Cardinality(A) - 1 <= Cardinality(B)
           /\ A \ {t} \subseteq B /\ B \ A # {} => Cardinality(A) <= Cardinality(B)
<1>1. IsFiniteSet(A) /\ IsFiniteSet(B)
  BY ConditionAssumption, FS_Subset
<1>2. Cardinality(A) \in Nat /\ Cardinality(B) \in Nat
  BY <1>1, FS_CardinalityType
<1>3. A \subseteq B => Cardinality(A) <= Cardinality(B)
  BY <1>1, FS_Subset
<1>4. ASSUME NEW x, A \subseteq B, x \in B \ A PROVE Cardinality(A) + 1 <= Cardinality(B)
  <2>1. IsFiniteSet(A \cup {x}) /\ Cardinality(A \cup {x}) = Cardinality(A) + 1
    BY <1>1, <1>4, FS_AddElement
  <2>2. Cardinality(A \cup {x}) <= Cardinality(B)
    BY <1>1, <1>4, FS_Subset
  <2> QED
    BY <2>1, <2>2
<1>5. ASSUME A \ {t} \subseteq B PROVE Cardinality(A) - 1 <= Cardinality(B)
  <2>1. CASE t \notin A
    BY <1>2, <1>3, <1>5, <2>1
  <2>2. CASE t \in A
    <3>1. IsFiniteSet(A \ {t}) /\ Cardinality(A \ {t}) = Cardinality(A) - 1
      BY <1>1, <2>2, FS_RemoveElement
    <3>2. Cardinality(A \ {t}) <= Cardinality(B)
      BY <1>1, <1>5, FS_Subset
    <3> QED
      BY <3>1, <3>2
  <2> QED
    BY <2>1, <2>2
<1>6. ASSUME A \ {t} \subseteq B, NEW x \in B \ A PROVE Cardinality(A) <= Cardinality(B)
  <2>1. CASE t \notin A
    BY <1>3, <1>6, <2>1
  <2>2. CASE t \in A
    <3>1. /\ IsFiniteSet(A \ {t}) /\ Cardinality(A \ {t}) = Cardinality(A) - 1
          /\ IsFiniteSet((A \ {t}) \cup {x})
          /\ Cardinality((A \ {t}) \cup {x}) = Cardinality(A \ {t}) + 1
      BY <1>1, <1>6, <2>2, FS_RemoveElement, FS_AddElement
    <3>2. Cardinality((A \ {t}) \cup {x}) <= Cardinality(B)
      BY <1>1, <1>6, FS_Subset
    <3> QED
      BY <1>2, <3>1, <3>2
  <2> QED
    BY <2>1, <2>2
<1> QED
  BY <1>2, <1>3, <1>4, <1>5, <1>6

(* Every item that is added comes with a notifier, every notifier passes   *)
(* its duty to a waiter, and every waiter that is woken takes an item if   *)
(* there is one.                                                           *)
LEMMA ItemsStep ==
    CondInv /\ [Next]_vars => ItemsInv'
<1> SUFFICES ASSUME CondInv, [Next]_vars, queue' # <<>>, ~\E u \in Threads : pc'[u] = "unparkAll"
             PROVE  items' <= Cardinality(Helpers')
  BY DEF ItemsInv
<1>a. Helpers \in SUBSET Threads /\ Helpers' \in SUBSET Threads
  BY DEF Helpers
<1>b. Range(queue) \subseteq Threads
  BY LenProperties DEF CondInv, TypeOK, Range
<1>c. ASSUME queue # <<>>, \A u \in Threads : pc[u] = "unparkAll" => pc'[u] = "unparkAll"
      PROVE  items <= Cardinality(Helpers)
  BY <1>c DEF CondInv, ItemsInv
<1>d. \A n \in Nat : n = 0 => n <= Cardinality(Helpers')
  BY <1>a, HelpersCount
<1>e. Helpers \subseteq Helpers' => Cardinality(Helpers) <= Cardinality(Helpers')
  BY <1>a, HelpersCount
<1>f. Cardinality(Helpers) \in Nat /\ Cardinality(Helpers') \in Nat
  BY <1>a, HelpersCount
<1> USE DEF CondInv, TypeOK, Step, Goto
<1>1. ASSUME NEW t \in Threads, NEW to \in Timeouts, Consume(t, to) PROVE items' <= Cardinality(Helpers')
  <2>1. Helpers \subseteq Helpers'
    BY <1>1 DEF Consume, Helpers
  <2>2. items <= Cardinality(Helpers) /\ items' = items
    BY <1>1, <1>c DEF Consume
  <2> QED
    BY <1>e, <1>f, <2>1, <2>2
<1>2. ASSUME NEW t \in Threads, NEW notify \in {"notifyOne", "notifyAll"}, Produce(t, notify) PROVE items' <= Cardinality(Helpers')
  <2>1. Helpers \subseteq Helpers' /\ t \in Helpers' \ Helpers
    BY <1>2 DEF Produce, Helpers
  <2>2. Cardinality(Helpers) + 1 <= Cardinality(Helpers')
    BY <1>a, <2>1, HelpersCount
  <2>3. items <= Cardinality(Helpers) /\ items' = items + 1
    BY <1>2, <1>c DEF Produce
  <2> QED
    BY <1>f, <2>2, <2>3
<1>3. ASSUME NEW t \in Threads, Predicate(t) PROVE items' <= Cardinality(Helpers')
  <2>1. CASE items = 0
    BY <1>3, <1>d, <2>1 DEF Predicate
  <2>2. CASE items > 0
    <3>1. Helpers \ {t} \subseteq Helpers'
      BY <1>3, <2>2 DEF Predicate, Helpers
    <3>2. Cardinality(Helpers) - 1 <= Cardinality(Helpers')
      BY <1>a, <3>1, HelpersCount
    <3>3. items <= Cardinality(Helpers) /\ items' = items - 1
      BY <1>3, <1>c, <2>2 DEF Predicate
    <3> QED
      BY <1>f, <3>2, <3>3
  <2> QED
    BY <2>1, <2>2
<1>4. ASSUME NEW t \in Threads, LockQueue(t) PROVE items' <= Cardinality(Helpers')
  <2>1. items' = 0
    BY <1>4 DEF LockQueue, PredicateInv
  <2> QED
    BY <1>d, <2>1
<1>5. ASSUME NEW t \in Threads, Validation(t) PROVE items' <= Cardinality(Helpers')
  <2>1. items' = 0
    BY <1>5 DEF Validation, PredicateInv
  <2> QED
    BY <1>d, <2>1
<1>6. ASSUME NEW t \in Threads, Enqueue(t) PROVE items' <= Cardinality(Helpers')
  <2>1. items' = 0
    BY <1>6 DEF Enqueue, PredicateInv
  <2> QED
    BY <1>d, <2>1
<1>7. ASSUME NEW t \in Threads, BeforeSleep(t) PROVE items' <= Cardinality(Helpers')
  <2>1. items' = 0
    BY <1>7 DEF BeforeSleep, PredicateInv
  <2> QED
    BY <1>d, <2>1
<1>8. ASSUME NEW t \in Threads, Unparked(t) PROVE items' <= Cardinality(Helpers')
  <2>1. Helpers \subseteq Helpers'
    BY <1>8 DEF Unparked, Helpers
  <2>2. items <= Cardinality(Helpers) /\ items' = items
    BY <1>8, <1>c DEF Unparked
  <2> QED
    BY <1>e, <1>f, <2>1, <2>2
<1>9. ASSUME NEW t \in Threads, TimeOut(t) PROVE items' <= Cardinality(Helpers')
  <2>1. PICK i \in 1..Len(queue) : queue[i] = t /\ queue' = RemoveAt(queue, i)
    BY <1>9 DEF TimeOut
  <2>2. Range(queue') \subseteq Range(queue) /\ queue # <<>> /\ t \in Range(queue)
    <3>1. Range(queue') \subseteq Range(queue)
      BY <2>1, RemoveAtFacts
    <3>2. DOMAIN queue = 1..Len(queue) /\ queue # <<>>
      BY <2>1, LenProperties
    <3> QED
      BY <2>1, <3>1, <3>2 DEF Range
  <2>3. Helpers \subseteq Helpers'
    BY <1>9, <2>2 DEF TimeOut, Helpers
  <2>4. items <= Cardinality(Helpers) /\ items' = items
    BY <1>9, <1>c, <2>2 DEF TimeOut
  <2> QED
    BY <1>e, <1>f, <2>3, <2>4
<1>10. ASSUME NEW t \in Threads, Relock(t) PROVE items' <= Cardinality(Helpers')
  <2>1. Helpers \subseteq Helpers'
    BY <1>10 DEF Relock, Helpers
  <2>2. items <= Cardinality(Helpers) /\ items' \in Nat /\ items' <= items
    BY <1>10, <1>c DEF Relock
  <2> QED
    BY <1>e, <1>f, <2>1, <2>2
<1>11. ASSUME NEW t \in Threads, NotifyOne(t) PROVE items' <= Cardinality(Helpers')
  <2>1. m_hasWaiters
    BY <1>11 DEF NotifyOne, NoHiddenWaiters
  <2>2. Helpers \subseteq Helpers'
    BY <1>11, <2>1 DEF NotifyOne, Helpers
  <2>3. items <= Cardinality(Helpers) /\ items' = items
    BY <1>11, <2>1, <1>c DEF NotifyOne
  <2> QED
    BY <1>e, <1>f, <2>2, <2>3
<1>12. ASSUME NEW t \in Threads, UnparkOne(t) PROVE items' <= Cardinality(Helpers')
  <2>1. queue # <<>> /\ queue' = Tail(queue)
    BY <1>12 DEF UnparkOne
  <2>2. /\ Head(queue) \in Range(queue) /\ Range(queue') = Range(queue) \ {Head(queue)}
        /\ pc[t] = "unparkOne" /\ pc' = [pc EXCEPT ![t] = "idle"] /\ items' = items
    BY <1>12, <2>1, TailFacts DEF QueueInv, UnparkOne
  <2>3. Head(queue) \in Helpers' \ Helpers
    BY <1>b, <2>2 DEF QueueInv, Helpers
  <2>4. Helpers \ {t} \subseteq Helpers'
    BY <2>2 DEF Helpers
  <2>5. Cardinality(Helpers) <= Cardinality(Helpers')
    BY <1>a, <2>3, <2>4, HelpersCount
  <2>6. items <= Cardinality(Helpers)
    BY <1>c, <2>1, <2>2
  <2> QED
    BY <1>f, <2>2, <2>5, <2>6
<1>13. ASSUME NEW t \in Threads, NotifyAll(t) PROVE items' <= Cardinality(Helpers')
  <2>1. m_hasWaiters
    BY <1>13 DEF NotifyAll, NoHiddenWaiters
  <2>2. Helpers \subseteq Helpers'
    BY <1>13, <2>1 DEF NotifyAll, Helpers
  <2>3. items <= Cardinality(Helpers) /\ items' = items
    BY <1>13, <2>1, <1>c DEF NotifyAll
  <2> QED
    BY <1>e, <1>f, <2>2, <2>3
<1>14. ASSUME NEW t \in Threads, StoreFalse(t) PROVE items' <= Cardinality(Helpers')
  BY <1>14 DEF StoreFalse
<1>15. ASSUME NEW t \in Threads, UnparkAll(t) PROVE items' <= Cardinality(Helpers')
  BY <1>15 DEF UnparkAll
<1>16. CASE UNCHANGED vars
  <2>1. Helpers \subseteq Helpers'
    BY <1>16 DEF vars, Helpers
  <2>2. items <= Cardinality(Helpers) /\ items' = items
    BY <1>16, <1>c DEF vars
  <2> QED
    BY <1>e, <1>f, <2>1, <2>2
<1> QED
  BY <1>1, <1>2, <1>3, <1>4, <1>5, <1>6, <1>7, <1>8, <1>9, <1>10, <1>11, <1>12, <1>13, <1>14, <1>15, <1>16 DEF Next
-----------------------------------------------------------------------------
(***************************************************************************)
(* The theorems.                                                           *)
(***************************************************************************)

LEMMA CondInvInit == Init => CondInv
<1> SUFFICES ASSUME Init PROVE CondInv
  OBVIOUS
<1>1. TypeOK
  BY EmptySeq DEF Init, TypeOK, Labels
<1>2. IsInjective(queue) /\ Range(queue) = {}
  BY DEF Init, IsInjective, Range
<1> QED
  BY <1>1, <1>2 DEF Init, CondInv, LocksInv, QueueInv, PredicateInv, NoHiddenWaiters, ItemsInv

LEMMA CondInvStep == CondInv /\ [Next]_vars => CondInv'
  BY TypeStep, LocksStep, QueueStep, PredicateStep, HiddenStep, ItemsStep DEF CondInv

LEMMA CondInvariant == Spec => []CondInv
  BY CondInvInit, CondInvStep, PTL DEF Spec

(* A notifier that finds m_hasWaiters false may leave at once: nobody      *)
(* waits, or a notifyAll() is still going to unpark everybody.             *)
THEOREM NoHiddenWaitersHolds == Spec => []NoHiddenWaiters
<1>1. CondInv => NoHiddenWaiters
  BY DEF CondInv
<1> QED
  BY <1>1, CondInvariant, PTL

(* No notification is lost: a consumer is never parked next to an item     *)
(* while everybody else is parked too or has gone home.                    *)
THEOREM NoStuckConsumerHolds == Spec => []NoStuckConsumer
<1>1. CondInv => NoStuckConsumer
  <2> SUFFICES ASSUME CondInv, items > 0, queue # <<>>
               PROVE  \E u \in Threads : pc[u] # "idle" /\ ~(pc[u] = "parked" /\ u \in Range(queue))
    BY DEF NoStuckConsumer
  <2>1. CASE \E u \in Threads : pc[u] = "unparkAll"
    BY <2>1
  <2>2. CASE items <= Cardinality(Helpers)
    <3>1. Helpers # {}
      <4> SUFFICES ASSUME Helpers = {} PROVE FALSE
        OBVIOUS
      <4>1. Cardinality(Helpers) = 0
        BY FS_EmptySet
      <4>2. items \in Nat /\ items <= 0
        BY <2>2, <4>1 DEF CondInv, TypeOK
      <4> QED
        BY <4>2
    <3>2. PICK u \in Helpers : TRUE
      BY <3>1
    <3> QED
      BY <3>2 DEF Helpers
  <2> QED
    BY <2>1, <2>2 DEF CondInv, ItemsInv
<1> QED
  BY <1>1, CondInvariant, PTL
=============================================================================
