-------------------------- MODULE WordLockProofs ---------------------------
(***************************************************************************)
(* Proofs about WordLock, for any set of threads and any spin limit.       *)
(***************************************************************************)
EXTENDS WordLock, SequenceFacts, FiniteSetTheorems, TLAPS

(***************************************************************************)
(* The inductive invariant behind the theorems.                           *)
(***************************************************************************)

OwnsQueue(t) == Enqueuing(t) \/ Dequeuing(t)

(* The bits of the word say who owns what, and the queue lock is only ever *)
(* owned while the lock is held.                                           *)
BitsInv ==
    /\ MutualExclusion
    /\ \A t, u \in Threads : OwnsQueue(t) /\ OwnsQueue(u) => t = u
    /\ IsLocked(m_word) <=> \E t \in Threads : Holding(t)
    /\ IsQueueLocked(m_word) <=> \E t \in Threads : OwnsQueue(t)
    /\ IsQueueLocked(m_word) => IsLocked(m_word)

(* What each local still says of the word when it is used.                 *)
LocalsInv == \A t \in Threads :
    LET w == currentWordValue[t] IN
    /\ pc[t] = "acquire" => ~IsLocked(w) /\ ~IsQueueLocked(w)
    /\ pc[t] = "claimQueue" => IsLocked(w) /\ ~IsQueueLocked(w)
    /\ pc[t] = "setShouldPark" => w.head = m_word.head
    /\ pc[t] \in {"linkTail", "setTail", "reloadQueued", "releaseQueue"} =>
           queueHead[t] = m_word.head /\ queueHead[t] # Null
    /\ pc[t] \in {"initTail", "reloadHead", "installHead"} => m_word.head = Null
    /\ pc[t] = "unlockClaim" => IsLocked(w) /\ ~IsQueueLocked(w) /\ w.head # Null
    /\ Dequeuing(t) => m_word.head # Null
    /\ pc[t] \in {"unlockNext", "unlockReload", "unlockStore"} => queueHead[t] = m_word.head
    /\ pc[t] \in {"releaseQueue", "installHead", "unlockStore"} => w = m_word
    /\ Waking(t) \/ pc[t] = "notify" => queueHead[t] # Null

WordInv == TypeOK /\ BitsInv /\ LocalsInv

-----------------------------------------------------------------------------

(* The two words the fast paths use, and what setting and clearing a bit   *)
(* does to a word.                                                         *)
LEMMA WordConstants ==
    /\ Unlocked \in Words /\ Unlocked.bits = {} /\ Unlocked.head = Null
    /\ JustLocked \in Words /\ JustLocked.bits = {"isLocked"} /\ JustLocked.head = Null
  BY DEF Unlocked, JustLocked, Words, Pointers

LEMMA WordOps ==
    ASSUME NEW w \in Words, NEW b \in {"isLocked", "isQueueLocked"}
    PROVE  /\ SetBit(w, b) \in Words
           /\ SetBit(w, b).bits = w.bits \cup {b} /\ SetBit(w, b).head = w.head
           /\ ClearBit(w, b) \in Words
           /\ ClearBit(w, b).bits = w.bits \ {b} /\ ClearBit(w, b).head = w.head
  BY DEF SetBit, ClearBit, Words

LEMMA WordHead ==
    ASSUME NEW w \in Words, NEW h \in Pointers
    PROVE  /\ SetHead(w, h) \in Words
           /\ SetHead(w, h).bits = w.bits /\ SetHead(w, h).head = h
  BY DEF Words, SetHead

(* The type invariant needs to know that unlockSlow() finds a queue head.  *)
LEMMA TypeStep == TypeOK /\ LocalsInv /\ [Next]_vars => TypeOK'
<1> SUFFICES ASSUME TypeOK, LocalsInv, [Next]_vars PROVE TypeOK'
  OBVIOUS
<1> USE SpinLimitAssumption, NullAssumption, WordConstants DEF TypeOK, Pointers, Labels, Step, Goto, Read,
       ForgetWord, ForgetQueue, CAS, SpinOrQueue, threadDatas, locals
<1>1. ASSUME NEW t \in Threads, Lock(t) PROVE TypeOK'
  BY <1>1 DEF Lock
<1>2. ASSUME NEW t \in Threads, SpuriousWakeUp(t) PROVE TypeOK'
  BY <1>2 DEF SpuriousWakeUp
<1>3. ASSUME NEW t \in Threads, Load(t) PROVE TypeOK'
  BY <1>3 DEF Load
<1>4. ASSUME NEW t \in Threads, Acquire(t) PROVE TypeOK'
  BY <1>4, WordOps DEF Acquire
<1>5. ASSUME NEW t \in Threads, Reload(t) PROVE TypeOK'
  BY <1>5 DEF Reload
<1>6. ASSUME NEW t \in Threads, ClaimQueue(t) PROVE TypeOK'
  BY <1>6, WordOps DEF ClaimQueue
<1>7. ASSUME NEW t \in Threads, SetShouldPark(t) PROVE TypeOK'
  BY <1>7 DEF SetShouldPark, Words
<1>8. ASSUME NEW t \in Threads, LinkTail(t) PROVE TypeOK'
  BY <1>8 DEF LinkTail
<1>9. ASSUME NEW t \in Threads, SetTail(t) PROVE TypeOK'
  BY <1>9 DEF SetTail
<1>10. ASSUME NEW t \in Threads, InitTail(t) PROVE TypeOK'
  BY <1>10 DEF InitTail
<1>11. ASSUME NEW t \in Threads, ReloadToRelease(t) PROVE TypeOK'
  BY <1>11 DEF ReloadToRelease
<1>12. ASSUME NEW t \in Threads, ReleaseQueue(t) PROVE TypeOK'
  <2>1. ClearBit(currentWordValue[t], "isQueueLocked") \in Words
    BY WordOps
  <2>2. SetHead(ClearBit(currentWordValue[t], "isQueueLocked"), t) \in Words
    BY <2>1, WordHead
  <2> QED
    BY <1>12, <2>1, <2>2 DEF ReleaseQueue
<1>13. ASSUME NEW t \in Threads, Park(t) PROVE TypeOK'
  BY <1>13 DEF Park
<1>14. ASSUME NEW t \in Threads, Unlock(t) PROVE TypeOK'
  BY <1>14 DEF Unlock
<1>15. ASSUME NEW t \in Threads, UnlockRetry(t) PROVE TypeOK'
  BY <1>15 DEF UnlockRetry
<1>16. ASSUME NEW t \in Threads, UnlockLoad(t) PROVE TypeOK'
  BY <1>16 DEF UnlockLoad
<1>17. ASSUME NEW t \in Threads, UnlockClaim(t) PROVE TypeOK'
  BY <1>17, WordOps DEF UnlockClaim
<1>18. ASSUME NEW t \in Threads, UnlockHead(t) PROVE TypeOK'
  BY <1>18 DEF UnlockHead, Words
<1>19. ASSUME NEW t \in Threads, UnlockNext(t) PROVE TypeOK'
  BY <1>19 DEF UnlockNext, LocalsInv, Dequeuing, Words
<1>20. ASSUME NEW t \in Threads, UnlockReload(t) PROVE TypeOK'
  BY <1>20 DEF UnlockReload
<1>21. ASSUME NEW t \in Threads, UnlockStore(t) PROVE TypeOK'
  BY <1>21, WordOps, WordHead DEF UnlockStore
<1>22. ASSUME NEW t \in Threads, ClearNext(t) PROVE TypeOK'
  BY <1>22 DEF ClearNext
<1>23. ASSUME NEW t \in Threads, ClearTail(t) PROVE TypeOK'
  BY <1>23 DEF ClearTail
<1>24. ASSUME NEW t \in Threads, Wake(t) PROVE TypeOK'
  BY <1>24 DEF Wake
<1>25. ASSUME NEW t \in Threads, Notify(t) PROVE TypeOK'
  BY <1>25 DEF Notify
<1>26. CASE UNCHANGED vars
  BY <1>26 DEF vars
<1> QED
  BY <1>1, <1>2, <1>3, <1>4, <1>5, <1>6, <1>7, <1>8, <1>9, <1>10, <1>11, <1>12, <1>13, <1>14, <1>15, <1>16, <1>17, <1>18, <1>19, <1>20, <1>21, <1>22, <1>23, <1>24, <1>25, <1>26 DEF Next, Run

LEMMA JustLockedWord ==
    ASSUME NEW w \in Words, IsLocked(w), ~IsQueueLocked(w), w.head = Null
    PROVE  w = JustLocked
  BY DEF Words, JustLocked, IsLocked, IsQueueLocked

(* The five effects a step can have on who owns the lock and the queue     *)
(* lock; each of them keeps the bits in step with the owners.              *)
LEMMA BitsEffects ==
    ASSUME BitsInv, NEW t \in Threads,
           \/ /\ m_word'.bits = m_word.bits
              /\ \A u \in Threads : Holding(u)' = Holding(u) /\ OwnsQueue(u)' = OwnsQueue(u)
           \/ /\ IsLocked(m_word)' /\ ~IsQueueLocked(m_word)'
              /\ \A u \in Threads : (Holding(u)' <=> u = t) /\ ~OwnsQueue(u)'
           \/ /\ ~IsLocked(m_word)' /\ ~IsQueueLocked(m_word)'
              /\ \A u \in Threads : ~Holding(u)' /\ ~OwnsQueue(u)'
           \/ /\ IsLocked(m_word) /\ IsLocked(m_word)' /\ IsQueueLocked(m_word)'
              /\ \A u \in Threads : Holding(u)' = Holding(u) /\ (OwnsQueue(u)' <=> u = t)
           \/ /\ IsLocked(m_word) /\ IsLocked(m_word)' /\ ~IsQueueLocked(m_word)'
              /\ \A u \in Threads : Holding(u)' = Holding(u) /\ ~OwnsQueue(u)'
    PROVE  BitsInv'
  BY DEF BitsInv, MutualExclusion, IsLocked, IsQueueLocked

LEMMA BitsStep == WordInv /\ [Next]_vars => BitsInv'
<1> SUFFICES ASSUME WordInv, [Next]_vars PROVE BitsInv'
  OBVIOUS
<1> DEFINE Same == /\ m_word'.bits = m_word.bits
                   /\ \A u \in Threads : Holding(u)' = Holding(u) /\ OwnsQueue(u)' = OwnsQueue(u)
<1>0. Same => BitsInv'
  <2> SUFFICES ASSUME Same PROVE BitsInv'
    OBVIOUS
  <2> QED
    BY DEF WordInv, BitsInv, MutualExclusion, IsLocked, IsQueueLocked
<1> HIDE DEF Same
<1> USE NullAssumption DEF WordInv, TypeOK, IsLocked, IsQueueLocked, Holding, OwnsQueue, Enqueuing, Dequeuing, Waking,
       Step, Goto, Read,
       ForgetWord, ForgetQueue, CAS, SpinOrQueue, threadDatas, locals
<1>1. ASSUME NEW t \in Threads, Lock(t) PROVE BitsInv'
  <2>1. CASE pc'[t] = "held"
    BY <1>1, <2>1, BitsEffects, WordConstants DEF Lock, BitsInv
  <2>2. CASE pc'[t] # "held"
    <3>1. Same
      BY <1>1, <2>2 DEF Lock, Same
    <3> QED BY <3>1, <1>0
  <2> QED BY <2>1, <2>2
<1>2. ASSUME NEW t \in Threads, SpuriousWakeUp(t) PROVE BitsInv'
  <2>1. Same
    BY <1>2 DEF SpuriousWakeUp, Same
  <2> QED BY <2>1, <1>0
<1>3. ASSUME NEW t \in Threads, Load(t) PROVE BitsInv'
  <2>1. Same
    BY <1>3 DEF Load, Same
  <2> QED BY <2>1, <1>0
<1>4. ASSUME NEW t \in Threads, Acquire(t) PROVE BitsInv'
  <2>1. CASE pc'[t] = "held"
    BY <1>4, <2>1, BitsEffects, WordOps DEF Acquire, BitsInv, LocalsInv
  <2>2. CASE pc'[t] # "held"
    <3>1. Same
      BY <1>4, <2>2 DEF Acquire, Same
    <3> QED BY <3>1, <1>0
  <2> QED BY <2>1, <2>2
<1>5. ASSUME NEW t \in Threads, Reload(t) PROVE BitsInv'
  <2>1. Same
    BY <1>5 DEF Reload, Same
  <2> QED BY <2>1, <1>0
<1>6. ASSUME NEW t \in Threads, ClaimQueue(t) PROVE BitsInv'
  <2>1. CASE pc'[t] = "setShouldPark"
    <3>1. /\ pc[t] = "claimQueue" /\ pc' = [pc EXCEPT ![t] = "setShouldPark"]
          /\ m_word = currentWordValue[t] /\ m_word' = SetBit(m_word, "isQueueLocked")
      BY <1>6, <2>1 DEF ClaimQueue
    <3>2. IsLocked(m_word) /\ ~IsQueueLocked(m_word)
      BY <3>1 DEF LocalsInv
    <3>3. m_word'.bits = m_word.bits \cup {"isQueueLocked"}
      BY <3>1, WordOps
    <3>4. \A u \in Threads : Holding(u)' = Holding(u) /\ (OwnsQueue(u)' <=> u = t)
      BY <3>1, <3>2 DEF BitsInv
    <3>5. IsLocked(m_word)' /\ IsQueueLocked(m_word)'
      BY <3>2, <3>3
    <3> QED
      BY <3>2, <3>4, <3>5, BitsEffects
  <2>2. CASE pc'[t] # "setShouldPark"
    <3>1. Same
      BY <1>6, <2>2 DEF ClaimQueue, Same
    <3> QED BY <3>1, <1>0
  <2> QED BY <2>1, <2>2
<1>7. ASSUME NEW t \in Threads, SetShouldPark(t) PROVE BitsInv'
  <2>1. Same
    BY <1>7 DEF SetShouldPark, Same
  <2> QED BY <2>1, <1>0
<1>8. ASSUME NEW t \in Threads, LinkTail(t) PROVE BitsInv'
  <2>1. Same
    BY <1>8 DEF LinkTail, Same
  <2> QED BY <2>1, <1>0
<1>9. ASSUME NEW t \in Threads, SetTail(t) PROVE BitsInv'
  <2>1. Same
    BY <1>9 DEF SetTail, Same
  <2> QED BY <2>1, <1>0
<1>10. ASSUME NEW t \in Threads, InitTail(t) PROVE BitsInv'
  <2>1. Same
    BY <1>10 DEF InitTail, Same
  <2> QED BY <2>1, <1>0
<1>11. ASSUME NEW t \in Threads, ReloadToRelease(t) PROVE BitsInv'
  <2>1. Same
    BY <1>11 DEF ReloadToRelease, Same
  <2> QED BY <2>1, <1>0
<1>12. ASSUME NEW t \in Threads, ReleaseQueue(t) PROVE BitsInv'
  <2> DEFINE w == ClearBit(currentWordValue[t], "isQueueLocked")
  <2>1. w \in Words /\ w.bits = m_word.bits \ {"isQueueLocked"}
    BY <1>12, WordOps DEF ReleaseQueue, LocalsInv
  <2>2. m_word' = w \/ m_word' = SetHead(w, t)
    BY <1>12 DEF ReleaseQueue
  <2> HIDE DEF w
  <2>3. SetHead(w, t).bits = w.bits
    BY <2>1, WordHead DEF Pointers
  <2>4. m_word'.bits = m_word.bits \ {"isQueueLocked"}
    BY <2>1, <2>2, <2>3
  <2>5. pc[t] \in {"releaseQueue", "installHead"} /\ pc' = [pc EXCEPT ![t] = "park"]
    BY <1>12 DEF ReleaseQueue
  <2> QED
    BY <2>4, <2>5, BitsEffects DEF BitsInv
<1>13. ASSUME NEW t \in Threads, Park(t) PROVE BitsInv'
  <2>1. Same
    BY <1>13 DEF Park, Same
  <2> QED BY <2>1, <1>0
<1>14. ASSUME NEW t \in Threads, Unlock(t) PROVE BitsInv'
  <2>1. CASE pc'[t] = "idle"
    BY <1>14, <2>1, BitsEffects, WordConstants DEF Unlock, BitsInv, MutualExclusion
  <2>2. CASE pc'[t] # "idle"
    <3>1. Same
      BY <1>14, <2>2 DEF Unlock, Same
    <3> QED BY <3>1, <1>0
  <2> QED BY <2>1, <2>2
<1>15. ASSUME NEW t \in Threads, UnlockRetry(t) PROVE BitsInv'
  <2>1. CASE pc'[t] = "idle"
    BY <1>15, <2>1, BitsEffects, WordConstants DEF UnlockRetry, BitsInv, MutualExclusion
  <2>2. CASE pc'[t] # "idle"
    <3>1. Same
      BY <1>15, <2>2 DEF UnlockRetry, Same
    <3> QED BY <3>1, <1>0
  <2> QED BY <2>1, <2>2
<1>16. ASSUME NEW t \in Threads, UnlockLoad(t) PROVE BitsInv'
  <2>1. Same
    BY <1>16 DEF UnlockLoad, Same
  <2> QED BY <2>1, <1>0
<1>17. ASSUME NEW t \in Threads, UnlockClaim(t) PROVE BitsInv'
  <2>1. CASE pc'[t] = "unlockHead"
    BY <1>17, <2>1, BitsEffects, WordOps, SMTT(40) DEF UnlockClaim, BitsInv, LocalsInv
  <2>2. CASE pc'[t] # "unlockHead"
    <3>1. Same
      BY <1>17, <2>2 DEF UnlockClaim, Same
    <3> QED BY <3>1, <1>0
  <2> QED BY <2>1, <2>2
<1>18. ASSUME NEW t \in Threads, UnlockHead(t) PROVE BitsInv'
  <2>1. Same
    BY <1>18 DEF UnlockHead, Same
  <2> QED BY <2>1, <1>0
<1>19. ASSUME NEW t \in Threads, UnlockNext(t) PROVE BitsInv'
  <2>1. Same
    BY <1>19 DEF UnlockNext, Same
  <2> QED BY <2>1, <1>0
<1>20. ASSUME NEW t \in Threads, UnlockReload(t) PROVE BitsInv'
  <2>1. Same
    BY <1>20 DEF UnlockReload, Same
  <2> QED BY <2>1, <1>0
<1>21. ASSUME NEW t \in Threads, UnlockStore(t) PROVE BitsInv'
  <2> DEFINE w1 == ClearBit(currentWordValue[t], "isLocked")
             w2 == ClearBit(w1, "isQueueLocked")
  <2>1. w1 \in Words /\ w1.bits = currentWordValue[t].bits \ {"isLocked"}
    BY WordOps
  <2> HIDE DEF w1
  <2>2. w2 \in Words /\ w2.bits = w1.bits \ {"isQueueLocked"}
    BY <2>1, WordOps
  <2> HIDE DEF w2
  <2>3. m_word' = SetHead(w2, newQueueHead[t])
    BY <1>21 DEF UnlockStore, w1, w2
  <2>4. ~IsLocked(m_word)' /\ ~IsQueueLocked(m_word)'
    BY <2>1, <2>2, <2>3, WordHead
  <2>5. \A u \in Threads : ~Holding(u)' /\ ~OwnsQueue(u)'
    BY <1>21 DEF UnlockStore, BitsInv, MutualExclusion
  <2> QED
    BY <2>4, <2>5, BitsEffects
<1>22. ASSUME NEW t \in Threads, ClearNext(t) PROVE BitsInv'
  <2>1. Same
    BY <1>22 DEF ClearNext, Same
  <2> QED BY <2>1, <1>0
<1>23. ASSUME NEW t \in Threads, ClearTail(t) PROVE BitsInv'
  <2>1. Same
    BY <1>23 DEF ClearTail, Same
  <2> QED BY <2>1, <1>0
<1>24. ASSUME NEW t \in Threads, Wake(t) PROVE BitsInv'
  <2>1. Same
    BY <1>24 DEF Wake, Same
  <2> QED BY <2>1, <1>0
<1>25. ASSUME NEW t \in Threads, Notify(t) PROVE BitsInv'
  <2>1. Same
    BY <1>25 DEF Notify, Same
  <2> QED BY <2>1, <1>0
<1>26. CASE UNCHANGED vars
  <2>1. Same
    BY <1>26 DEF vars, Same
  <2> QED BY <2>1, <1>0
<1> QED
  BY <1>1, <1>2, <1>3, <1>4, <1>5, <1>6, <1>7, <1>8, <1>9, <1>10, <1>11, <1>12, <1>13, <1>14, <1>15, <1>16, <1>17, <1>18, <1>19, <1>20, <1>21, <1>22, <1>23, <1>24, <1>25, <1>26 DEF Next, Run

(* Only a queue owner's locals speak of the word, and nobody else changes  *)
(* the queue head or the next pointer it has read.                         *)
LEMMA LocalsStep == WordInv /\ [Next]_vars => LocalsInv'
<1> SUFFICES ASSUME WordInv, [Next]_vars PROVE LocalsInv'
  OBVIOUS
<1>0. TypeOK'
  BY TypeStep DEF WordInv
<1> USE <1>0, NullAssumption DEF WordInv, TypeOK, Pointers, IsLocked, IsQueueLocked, Holding, OwnsQueue, Enqueuing, Dequeuing, Waking, MutualExclusion, BitsInv, LocalsInv, Words,
       Step, Goto, Read,
       ForgetWord, ForgetQueue, CAS, SpinOrQueue, threadDatas, locals
<1>1. ASSUME NEW t \in Threads, Lock(t) PROVE LocalsInv'
  BY <1>1, WordOps, WordConstants, WordHead DEF Lock
<1>2. ASSUME NEW t \in Threads, SpuriousWakeUp(t) PROVE LocalsInv'
  BY <1>2 DEF SpuriousWakeUp
<1>3. ASSUME NEW t \in Threads, Load(t) PROVE LocalsInv'
  BY <1>3 DEF Load
<1>4. ASSUME NEW t \in Threads, Acquire(t) PROVE LocalsInv'
  BY <1>4, WordOps, WordConstants, WordHead DEF Acquire
<1>5. ASSUME NEW t \in Threads, Reload(t) PROVE LocalsInv'
  BY <1>5 DEF Reload
<1>6. ASSUME NEW t \in Threads, ClaimQueue(t) PROVE LocalsInv'
  BY <1>6, WordOps, WordConstants, WordHead, SMTT(40) DEF ClaimQueue
<1>7. ASSUME NEW t \in Threads, SetShouldPark(t) PROVE LocalsInv'
  BY <1>7 DEF SetShouldPark
<1>8. ASSUME NEW t \in Threads, LinkTail(t) PROVE LocalsInv'
  BY <1>8 DEF LinkTail
<1>9. ASSUME NEW t \in Threads, SetTail(t) PROVE LocalsInv'
  BY <1>9 DEF SetTail
<1>10. ASSUME NEW t \in Threads, InitTail(t) PROVE LocalsInv'
  BY <1>10 DEF InitTail
<1>11. ASSUME NEW t \in Threads, ReloadToRelease(t) PROVE LocalsInv'
  BY <1>11 DEF ReloadToRelease
<1>12. ASSUME NEW t \in Threads, ReleaseQueue(t) PROVE LocalsInv'
  BY <1>12, WordOps, WordConstants, WordHead DEF ReleaseQueue
<1>13. ASSUME NEW t \in Threads, Park(t) PROVE LocalsInv'
  BY <1>13 DEF Park
<1>14. ASSUME NEW t \in Threads, Unlock(t) PROVE LocalsInv'
  BY <1>14, WordOps, WordConstants, WordHead DEF Unlock
<1>15. ASSUME NEW t \in Threads, UnlockRetry(t) PROVE LocalsInv'
  BY <1>15, WordOps, WordConstants, WordHead DEF UnlockRetry
<1>16. ASSUME NEW t \in Threads, UnlockLoad(t) PROVE LocalsInv'
  BY <1>16, JustLockedWord DEF UnlockLoad
<1>17. ASSUME NEW t \in Threads, UnlockClaim(t) PROVE LocalsInv'
  <2>1. CASE pc'[t] = "unlockHead"
    <3>1. m_word = currentWordValue[t] /\ m_word' = SetBit(m_word, "isQueueLocked")
      BY <1>17, <2>1 DEF UnlockClaim
    <3>2. m_word'.head = m_word.head /\ m_word.head # Null
      BY <1>17, <3>1, WordOps DEF UnlockClaim
    <3>3. \A u \in Threads : ~OwnsQueue(u)
      BY <1>17, <3>1 DEF UnlockClaim
    <3> QED
      BY <1>17, <2>1, <3>2, <3>3, WordConstants DEF UnlockClaim
  <2>2. CASE pc'[t] # "unlockHead"
    BY <1>17, <2>2, WordConstants DEF UnlockClaim
  <2> QED BY <2>1, <2>2
<1>18. ASSUME NEW t \in Threads, UnlockHead(t) PROVE LocalsInv'
  BY <1>18 DEF UnlockHead
<1>19. ASSUME NEW t \in Threads, UnlockNext(t) PROVE LocalsInv'
  BY <1>19 DEF UnlockNext
<1>20. ASSUME NEW t \in Threads, UnlockReload(t) PROVE LocalsInv'
  BY <1>20 DEF UnlockReload
<1>21. ASSUME NEW t \in Threads, UnlockStore(t) PROVE LocalsInv'
  BY <1>21, WordOps, WordConstants, WordHead DEF UnlockStore
<1>22. ASSUME NEW t \in Threads, ClearNext(t) PROVE LocalsInv'
  BY <1>22 DEF ClearNext
<1>23. ASSUME NEW t \in Threads, ClearTail(t) PROVE LocalsInv'
  BY <1>23 DEF ClearTail
<1>24. ASSUME NEW t \in Threads, Wake(t) PROVE LocalsInv'
  BY <1>24 DEF Wake
<1>25. ASSUME NEW t \in Threads, Notify(t) PROVE LocalsInv'
  BY <1>25 DEF Notify
<1>26. CASE UNCHANGED vars
  BY <1>26 DEF vars
<1> QED
  BY <1>1, <1>2, <1>3, <1>4, <1>5, <1>6, <1>7, <1>8, <1>9, <1>10, <1>11, <1>12, <1>13, <1>14, <1>15, <1>16, <1>17, <1>18, <1>19, <1>20, <1>21, <1>22, <1>23, <1>24, <1>25, <1>26 DEF Next, Run
-----------------------------------------------------------------------------
(***************************************************************************)
(* The theorems.                                                           *)
(***************************************************************************)

LEMMA WordInvInit == Init => WordInv
  BY WordConstants, NullAssumption, SpinLimitAssumption
     DEF Init, WordInv, TypeOK, BitsInv, LocalsInv, MutualExclusion, Labels, Pointers, IsLocked,
         IsQueueLocked, Holding, OwnsQueue, Enqueuing, Dequeuing, Waking

LEMMA WordInvStep == WordInv /\ [Next]_vars => WordInv'
  BY TypeStep, BitsStep, LocalsStep DEF WordInv

LEMMA WordInvariant == Spec => []WordInv
  BY WordInvInit, WordInvStep, PTL DEF Spec

(* Every variable keeps its C++ type; in particular no slow path follows a *)
(* null queue head.                                                        *)
THEOREM TypeCorrect == Spec => []TypeOK
<1>1. WordInv => TypeOK
  BY DEF WordInv
<1> QED
  BY <1>1, WordInvariant, PTL

(* At most one thread holds the lock, for any number of threads and any    *)
(* spin limit.                                                             *)
THEOREM MutualExclusionHolds == Spec => []MutualExclusion
<1>1. WordInv => MutualExclusion
  BY DEF WordInv, BitsInv
<1> QED
  BY <1>1, WordInvariant, PTL

(* No ASSERT of lockSlow() on the word fails.                              *)
THEOREM LockSlowAssertsHold == Spec => []LockSlowAsserts
<1>1. WordInv => LockSlowAsserts
  BY DEF WordInv, BitsInv, LocalsInv, LockSlowAsserts, OwnsQueue, Enqueuing
<1> QED
  BY <1>1, WordInvariant, PTL

(* No ASSERT of unlockSlow() on the word fails.                            *)
THEOREM UnlockSlowAssertsHold == Spec => []UnlockSlowAsserts
<1>1. WordInv => UnlockSlowAsserts
  <2> SUFFICES ASSUME WordInv, NEW t \in Threads
               PROVE  /\ pc[t] \in {"unlockLoad", "unlockHead"} => IsLocked(m_word)
                      /\ pc[t] = "unlockClaim" => currentWordValue[t].head # Null
                      /\ pc[t] = "unlockHead" => IsQueueLocked(m_word) /\ m_word.head # Null
                      /\ pc[t] = "unlockStore" => currentWordValue[t] =
                             [bits |-> {"isLocked", "isQueueLocked"}, head |-> queueHead[t]]
    BY DEF UnlockSlowAsserts
  <2>1. pc[t] \in {"unlockLoad", "unlockHead"} => IsLocked(m_word)
    BY DEF WordInv, BitsInv, Holding
  <2>2. pc[t] = "unlockClaim" => currentWordValue[t].head # Null
    BY DEF WordInv, LocalsInv
  <2>3. pc[t] = "unlockHead" => IsQueueLocked(m_word) /\ m_word.head # Null
    BY DEF WordInv, BitsInv, LocalsInv, OwnsQueue, Dequeuing
  <2>4. ASSUME pc[t] = "unlockStore"
        PROVE  currentWordValue[t] = [bits |-> {"isLocked", "isQueueLocked"}, head |-> queueHead[t]]
    <3>1. IsLocked(m_word) /\ IsQueueLocked(m_word)
      BY <2>4 DEF WordInv, BitsInv, OwnsQueue, Dequeuing, Holding
    <3>2. currentWordValue[t] = m_word /\ m_word.head = queueHead[t] /\ m_word \in Words
      BY <2>4 DEF WordInv, TypeOK, LocalsInv
    <3>3. m_word.bits = {"isLocked", "isQueueLocked"}
      BY <3>1, <3>2 DEF IsLocked, IsQueueLocked, Words
    <3> QED
      BY <3>2, <3>3 DEF Words
  <2> QED
    BY <2>1, <2>2, <2>3, <2>4
<1> QED
  BY <1>1, WordInvariant, PTL

(* WordLock implements the abstract mutex: every step of a thread is a     *)
(* step of Mutex by the same thread or leaves all modes alone.             *)
THEOREM WordLockImplementsMutex == Spec => ImplementsMutex
<1> DEFINE Mode(t) == IF Holding(t) THEN "in"
                      ELSE IF pc[t] = "idle" \/ Waking(t) \/ pc[t] = "notify" THEN "out"
                      ELSE "waiting"
           mode == [t \in Threads |-> Mode(t)]
<1>1. Init => M!Init
  BY DEF Init, M!Init, Holding, Waking
<1>2. WordInv /\ [Next]_vars => [M!Next]_mode
  <2> SUFFICES ASSUME WordInv, Next PROVE M!Next \/ UNCHANGED mode
    BY DEF vars, Holding, Waking
  <2>1. PICK t \in Threads : Lock(t) \/ SpuriousWakeUp(t) \/ Run(t)
    BY DEF Next
  <2> USE DEF WordInv, TypeOK, Holding, Waking, Step, Goto, SpinOrQueue, CAS
  <2>2. pc[t] = "idle" /\ pc' = [pc EXCEPT ![t] = "load"] => M!Request(t)
    BY DEF M!Request
  <2>3. ASSUME pc[t] \in {"idle", "acquire"}, pc' = [pc EXCEPT ![t] = "held"], ~IsLocked(m_word)
        PROVE  M!Acquire(t)
    <3>1. \A u \in Threads : ~Holding(u)
      BY <2>3 DEF BitsInv
    <3> QED
      BY <2>3, <3>1 DEF M!Acquire
  <2>4. ASSUME \/ pc[t] \in {"held", "unlockRetry"} /\ pc' = [pc EXCEPT ![t] = "idle"]
               \/ pc[t] = "unlockStore" /\ pc' = [pc EXCEPT ![t] = "clearNext"]
        PROVE  M!Release(t)
    BY <2>4 DEF M!Release
  <2>5. (\A u \in Threads : Mode(u)' = Mode(u)) => UNCHANGED mode
    OBVIOUS
  <2>6. CASE Lock(t)
    BY <2>6, <2>2, <2>3, WordConstants DEF Lock, M!Next, IsLocked
  <2>7. CASE Acquire(t)
    <3>1. CASE pc'[t] = "held"
      BY <2>7, <3>1, <2>3 DEF Acquire, LocalsInv, M!Next
    <3>2. CASE pc'[t] # "held"
      BY <2>7, <3>2, <2>5 DEF Acquire
    <3> QED
      BY <3>1, <3>2
  <2>8. CASE Unlock(t) \/ UnlockRetry(t)
    <3>1. CASE pc'[t] = "idle"
      BY <2>8, <3>1, <2>4 DEF Unlock, UnlockRetry, M!Next
    <3>2. CASE pc'[t] # "idle"
      BY <2>8, <3>2, <2>5 DEF Unlock, UnlockRetry
    <3> QED
      BY <3>1, <3>2
  <2>9. CASE UnlockStore(t)
    BY <2>9, <2>4 DEF UnlockStore, M!Next
  <2>10. CASE Notify(t)
    BY <2>10, <2>5 DEF Notify
  <2>11. CASE SpuriousWakeUp(t) \/ Load(t) \/ Reload(t) \/ Park(t)
    BY <2>11, <2>5 DEF SpuriousWakeUp, Load, Reload, Park
  <2>12. CASE ClaimQueue(t) \/ SetShouldPark(t) \/ LinkTail(t) \/ SetTail(t) \/ InitTail(t)
    BY <2>12, <2>5 DEF ClaimQueue, SetShouldPark, LinkTail, SetTail, InitTail
  <2>13. CASE ReloadToRelease(t) \/ ReleaseQueue(t)
    BY <2>13, <2>5 DEF ReloadToRelease, ReleaseQueue
  <2>14. CASE UnlockLoad(t) \/ UnlockClaim(t) \/ UnlockHead(t) \/ UnlockNext(t) \/ UnlockReload(t)
    BY <2>14, <2>5 DEF UnlockLoad, UnlockClaim, UnlockHead, UnlockNext, UnlockReload
  <2>15. CASE ClearNext(t) \/ ClearTail(t) \/ Wake(t)
    BY <2>15, <2>5 DEF ClearNext, ClearTail, Wake
  <2> QED
    BY <2>1, <2>6, <2>7, <2>8, <2>9, <2>10, <2>11, <2>12, <2>13, <2>14, <2>15 DEF Run
<1> QED
  BY <1>1, <1>2, WordInvariant, PTL DEF Spec, ImplementsMutex, M!Spec
-----------------------------------------------------------------------------
(***************************************************************************)
(* The queue. Its invariant speaks of the sequence of threads that the     *)
(* links form, whatever it is: q.                                          *)
(***************************************************************************)

Woken(t) == \E u \in Threads : Waking(u) /\ queueHead[u] = t
Queued(t) ==
    pc[t] \in {"setTail", "reloadQueued", "releaseQueue", "park", "parked"} /\ shouldPark[t] /\ ~Woken(t)

Linked(q) ==
    /\ q \in Seq(Threads) /\ \A i, j \in DOMAIN q : q[i] = q[j] => i = j
    /\ m_word.head = IF q = <<>> THEN Null ELSE q[1]
    /\ \A i \in DOMAIN q : nextInQueue[q[i]] = IF i = Len(q) THEN Null ELSE q[i + 1]

Tailed(q) ==
    /\ q # <<>> /\ (\A t \in Threads : pc[t] # "setTail") => queueTail[q[1]] = q[Len(q)]
    /\ \A t \in Threads : pc[t] = "setTail" => Len(q) > 1 /\ q[Len(q)] = t

QueueOf(q) ==
    /\ Linked(q) /\ Tailed(q)
    /\ \A t \in Threads : Queued(t) <=> \E i \in DOMAIN q : q[i] = t

(* A thread that is not queueing up has clean data ...                     *)
Clean(t) == ~shouldPark[t] /\ nextInQueue[t] = Null /\ queueTail[t] = Null
DataInv == \A t \in Threads :
    /\ pc[t] \notin {"linkTail", "setTail", "reloadQueued", "releaseQueue", "initTail", "reloadHead", "installHead",
                     "park", "parked"} => Clean(t)
    /\ pc[t] \in {"linkTail", "setTail", "reloadQueued", "releaseQueue", "initTail", "reloadHead", "installHead"} =>
           shouldPark[t]
    /\ pc[t] \in {"linkTail", "initTail", "reloadHead", "installHead"} => nextInQueue[t] = Null
    /\ pc[t] \in {"reloadHead", "installHead"} => queueTail[t] = t
    /\ pc[t] \in {"park", "parked"} /\ ~shouldPark[t] => Clean(t)

(* ... a thread that has been taken off the queue belongs to its waker ... *)
WakeInv == \A u \in Threads : Waking(u) =>
    LET h == queueHead[u] IN
    /\ h \in Threads /\ pc[h] \in {"park", "parked"} /\ shouldPark[h]
    /\ \A v \in Threads : Waking(v) /\ queueHead[v] = h => v = u
    /\ pc[u] \in {"clearTail", "wake"} => nextInQueue[h] = Null
    /\ pc[u] = "wake" => queueTail[h] = Null

(* ... and the one behind it is ready to be the queue head.                *)
HeirInv == \A u \in Threads : pc[u] \in {"unlockReload", "unlockStore"} =>
    /\ newQueueHead[u] = nextInQueue[m_word.head]
    /\ newQueueHead[u] # Null => queueTail[newQueueHead[u]] = queueTail[m_word.head]

OffQueueInv == DataInv /\ WakeInv /\ HeirInv

Neutral == {"idle", "load", "acquire", "reload", "claimQueue", "setShouldPark", "held", "unlockLoad", "unlockRetry",
            "unlockClaim", "unlockHead", "unlockNext", "notify"}

(* How the queue may change.                                               *)
Follows(r, q) == r = q \/ (\E t \in Threads : r = Append(q, t)) \/ (q # <<>> /\ r = Tail(q))
QueueStep(q) == OffQueueInv' /\ \E r : Follows(r, q) /\ QueueOf(r)'

(* A step that leaves the queue alone, and moves threads between places    *)
(* that the invariant does not tell apart.                                 *)
Calm ==
    /\ UNCHANGED threadDatas /\ m_word'.head = m_word.head
    /\ \A u \in Threads :
           \/ pc[u] \in Neutral /\ pc'[u] \in Neutral
           \/ pc[u] \in {"park", "parked"} /\ pc'[u] \in {"park", "parked"}
           \/ pc[u] \in {"reloadQueued", "releaseQueue"} /\ pc'[u] \in {"reloadQueued", "releaseQueue"}
           \/ pc[u] \in {"reloadHead", "installHead"} /\ pc'[u] \in {"reloadHead", "installHead"}
           \/ /\ queueHead'[u] = queueHead[u] /\ newQueueHead'[u] = newQueueHead[u]
              /\ pc'[u] = pc[u] \/ (pc[u] \in {"unlockReload", "unlockStore"} /\ pc'[u] \in {"unlockReload", "unlockStore"})

LEMMA CalmStep ==
    ASSUME OffQueueInv, Calm, NEW q, QueueOf(q)
    PROVE  QueueStep(q)
<1> USE DEF Neutral
<1>1. ASSUME NEW u \in Threads
      PROVE  /\ Waking(u)' <=> Waking(u)
             /\ Waking(u) => queueHead'[u] = queueHead[u] /\ pc'[u] = pc[u]
  BY DEF Calm, Waking
<1>2. \A t \in Threads : Woken(t)' <=> Woken(t)
  BY <1>1 DEF Woken
<1>3. \A t \in Threads : Queued(t)' <=> Queued(t)
  BY <1>2 DEF Queued, Calm, threadDatas
<1>4. DataInv'
  BY DEF OffQueueInv, DataInv, Clean, Calm, threadDatas
<1>5. WakeInv'
  BY <1>1 DEF OffQueueInv, WakeInv, Calm, threadDatas
<1>6. HeirInv'
  BY DEF OffQueueInv, HeirInv, Calm, threadDatas
<1>7. Linked(q)'
  BY DEF QueueOf, Linked, Calm, threadDatas
<1>8. Tailed(q)'
  <2>1. \A t \in Threads : pc'[t] = "setTail" <=> pc[t] = "setTail"
    BY DEF Calm
  <2> QED
    BY <2>1 DEF QueueOf, Tailed, Calm, threadDatas
<1> QED
  BY <1>3, <1>4, <1>5, <1>6, <1>7, <1>8 DEF QueueOf, QueueStep, Follows, OffQueueInv

LEMMA QueueFacts ==
    ASSUME WordInv, NEW q, QueueOf(q)
    PROVE  /\ Len(q) \in Nat /\ DOMAIN q = 1 .. Len(q) /\ q \in Seq(Threads)
           /\ \A i \in DOMAIN q : q[i] \in Threads /\ Queued(q[i])
           /\ \A i, j \in DOMAIN q : q[i] = q[j] => i = j
           /\ q = <<>> <=> m_word.head = Null
           /\ q = <<>> <=> Len(q) = 0
           /\ q # <<>> => 1 \in DOMAIN q /\ Len(q) \in DOMAIN q /\ m_word.head = q[1]
<1>1. q \in Seq(Threads) /\ Len(q) \in Nat /\ DOMAIN q = 1 .. Len(q) /\ (q = <<>> <=> Len(q) = 0)
  BY LenProperties, EmptySeq DEF QueueOf, Linked
<1>2. \A i \in DOMAIN q : q[i] \in Threads
  BY <1>1, ElementOfSeq
<1>3. q # <<>> => 1 \in DOMAIN q /\ Len(q) \in DOMAIN q
  BY <1>1
<1> QED
  BY <1>1, <1>2, <1>3, NullAssumption DEF QueueOf, Linked

(* Whoever owns the queue lock is alone with the queue.                    *)
LEMMA OwnerAlone ==
    ASSUME WordInv, NEW t \in Threads, OwnsQueue(t), NEW u \in Threads, u # t
    PROVE  /\ pc[u] \notin {"setShouldPark", "linkTail", "setTail", "reloadQueued", "releaseQueue", "initTail", "reloadHead",
                            "installHead", "unlockHead", "unlockNext", "unlockReload", "unlockStore"}
           /\ Queued(u) => pc[u] \in {"park", "parked"}
  BY DEF WordInv, BitsInv, OwnsQueue, Enqueuing, Dequeuing, Queued

LEMMA CalmActions ==
    ASSUME WordInv, NEW t \in Threads,
           \/ Lock(t) \/ SpuriousWakeUp(t) \/ Load(t) \/ Acquire(t) \/ Reload(t) \/ ClaimQueue(t) \/ ReloadToRelease(t)
           \/ Unlock(t) \/ UnlockRetry(t) \/ UnlockLoad(t) \/ UnlockClaim(t) \/ UnlockHead(t) \/ UnlockReload(t)
           \/ Notify(t) \/ (Park(t) /\ shouldPark[t])
    PROVE  Calm
<1> USE DEF WordInv, TypeOK, Step, Goto, Read, ForgetWord, ForgetQueue, CAS, SpinOrQueue, threadDatas, locals, Calm, Neutral
<1>1. CASE Lock(t)
  BY <1>1, WordConstants DEF Lock
<1>2. CASE SpuriousWakeUp(t)
  BY <1>2 DEF SpuriousWakeUp
<1>3. CASE Load(t)
  BY <1>3 DEF Load
<1>4. CASE Acquire(t)
  BY <1>4, WordOps DEF Acquire
<1>5. CASE Reload(t)
  BY <1>5 DEF Reload
<1>6. CASE ClaimQueue(t)
  BY <1>6, WordOps DEF ClaimQueue
<1>7. CASE ReloadToRelease(t)
  BY <1>7 DEF ReloadToRelease
<1>8. CASE Unlock(t)
  BY <1>8, WordConstants DEF Unlock
<1>9. CASE UnlockRetry(t)
  BY <1>9, WordConstants DEF UnlockRetry
<1>10. CASE UnlockLoad(t)
  BY <1>10 DEF UnlockLoad
<1>11. CASE UnlockClaim(t)
  BY <1>11, WordOps DEF UnlockClaim
<1>12. CASE UnlockHead(t)
  BY <1>12 DEF UnlockHead
<1>13. CASE UnlockReload(t)
  BY <1>13 DEF UnlockReload
<1>14. CASE Notify(t)
  BY <1>14 DEF Notify
<1>15. CASE Park(t) /\ shouldPark[t]
  BY <1>15 DEF Park
<1> QED
  BY <1>1, <1>2, <1>3, <1>4, <1>5, <1>6, <1>7, <1>8, <1>9, <1>10, <1>11, <1>12, <1>13, <1>14, <1>15

(* A thread that was unparked finds its data clean.                        *)
LEMMA ParkEnds ==
    ASSUME WordInv, OffQueueInv, NEW q, QueueOf(q), NEW t \in Threads, Park(t), ~shouldPark[t]
    PROVE  QueueStep(q)
<1> USE DEF threadDatas
<1>1. /\ pc[t] = "park" /\ pc'[t] = "load" /\ \A u \in Threads : u # t => pc'[u] = pc[u]
      /\ UNCHANGED <<m_word, shouldPark, nextInQueue, queueTail, queueHead, newQueueHead>>
  BY DEF Park, Step, Goto, WordInv, TypeOK, locals
<1>2. \A u \in Threads : Waking(u)' <=> Waking(u)
  BY <1>1 DEF Waking
<1>3. \A u \in Threads : (Woken(u)' <=> Woken(u)) /\ (Queued(u)' <=> Queued(u))
  BY <1>1, <1>2 DEF Woken, Queued
<1>4. DataInv'
  BY <1>1 DEF OffQueueInv, DataInv, Clean
<1>5. WakeInv'
  BY <1>1, <1>2 DEF OffQueueInv, WakeInv
<1>6. HeirInv'
  BY <1>1 DEF OffQueueInv, HeirInv
<1>7. Linked(q)' /\ Tailed(q)'
  BY <1>1 DEF QueueOf, Linked, Tailed
<1> QED
  BY <1>3, <1>4, <1>5, <1>6, <1>7 DEF QueueOf, QueueStep, Follows, OffQueueInv

LEMMA SetShouldParkQueue ==
    ASSUME WordInv, OffQueueInv, NEW q, QueueOf(q), NEW t \in Threads, SetShouldPark(t)
    PROVE  QueueStep(q)
<1>1. /\ pc[t] = "setShouldPark" /\ pc'[t] \in {"linkTail", "initTail"} /\ \A u \in Threads : u # t => pc'[u] = pc[u]
      /\ shouldPark'[t] /\ \A u \in Threads : u # t => shouldPark'[u] = shouldPark[u]
      /\ \A u \in Threads : u # t => queueHead'[u] = queueHead[u]
      /\ UNCHANGED <<m_word, nextInQueue, queueTail, newQueueHead>>
  BY DEF SetShouldPark, Step, Goto, WordInv, TypeOK
<1>2. \A u \in Threads : Waking(u)' <=> Waking(u)
  BY <1>1 DEF Waking
<1>3. \A u \in Threads : (Woken(u)' <=> Woken(u)) /\ (Queued(u)' <=> Queued(u))
  BY <1>1, <1>2 DEF Woken, Queued, Waking
<1>4. DataInv'
  BY <1>1 DEF OffQueueInv, DataInv, Clean
<1>5. WakeInv'
  BY <1>1, <1>2 DEF OffQueueInv, WakeInv, Waking
<1>6. HeirInv'
  BY <1>1 DEF OffQueueInv, HeirInv
<1>7. Linked(q)' /\ Tailed(q)'
  BY <1>1 DEF QueueOf, Linked, Tailed
<1> QED
  BY <1>3, <1>4, <1>5, <1>6, <1>7 DEF QueueOf, QueueStep, Follows, OffQueueInv

LEMMA InitTailQueue ==
    ASSUME WordInv, OffQueueInv, NEW q, QueueOf(q), NEW t \in Threads, InitTail(t)
    PROVE  QueueStep(q)
<1>1. /\ pc[t] = "initTail" /\ pc'[t] = "reloadHead" /\ \A u \in Threads : u # t => pc'[u] = pc[u]
      /\ queueTail'[t] = t /\ \A u \in Threads : u # t => queueTail'[u] = queueTail[u]
      /\ UNCHANGED <<m_word, shouldPark, nextInQueue, queueHead, newQueueHead>>
  BY DEF InitTail, Step, Goto, WordInv, TypeOK, locals
<1>2. \A u \in Threads : Waking(u)' <=> Waking(u)
  BY <1>1 DEF Waking
<1>3. \A u \in Threads : (Woken(u)' <=> Woken(u)) /\ (Queued(u)' <=> Queued(u))
  BY <1>1, <1>2 DEF Woken, Queued
<1>4. DataInv'
  BY <1>1 DEF OffQueueInv, DataInv, Clean
<1>5. WakeInv'
  BY <1>1, <1>2 DEF OffQueueInv, WakeInv
<1>6. HeirInv'
  <2>1. \A u \in Threads : pc[u] \notin {"unlockReload", "unlockStore"}
    BY <1>1, OwnerAlone DEF OwnsQueue, Enqueuing
  <2> QED
    BY <1>1, <2>1 DEF HeirInv
<1>7. Linked(q)' /\ Tailed(q)'
  <2>1. q = <<>>
    BY <1>1, QueueFacts DEF WordInv, LocalsInv
  <2> QED
    BY <1>1, <2>1, QueueFacts DEF QueueOf, Linked, Tailed
<1> QED
  BY <1>3, <1>4, <1>5, <1>6, <1>7 DEF QueueOf, QueueStep, Follows, OffQueueInv

(* The thread at the end is linked to t: t is queued from now on.          *)
LEMMA LinkTailQueue ==
    ASSUME WordInv, OffQueueInv, NEW q, QueueOf(q), NEW t \in Threads, LinkTail(t)
    PROVE  QueueStep(q)
<1> DEFINE n == Len(q)
           z == q[n]
           r == Append(q, t)
<1>1. /\ pc[t] = "linkTail" /\ pc'[t] = "setTail" /\ \A u \in Threads : u # t => pc'[u] = pc[u]
      /\ nextInQueue' = [nextInQueue EXCEPT ![queueTail[m_word.head]] = t] /\ m_word.head # Null
      /\ UNCHANGED <<m_word, shouldPark, queueTail, queueHead, newQueueHead>>
  BY DEF LinkTail, Step, Goto, WordInv, TypeOK, LocalsInv, locals
<1>2. /\ n \in Nat /\ DOMAIN q = 1 .. n /\ q \in Seq(Threads) /\ q # <<>> /\ n >= 1 /\ m_word.head = q[1]
      /\ \A i \in DOMAIN q : q[i] \in Threads /\ Queued(q[i])
      /\ \A i, j \in DOMAIN q : q[i] = q[j] => i = j
  BY <1>1, QueueFacts
<1>3. \A u \in Threads : u # t => /\ pc[u] \notin {"setTail", "unlockReload", "unlockStore"}
                                  /\ Queued(u) => pc[u] \in {"park", "parked"}
  BY <1>1, OwnerAlone DEF OwnsQueue, Enqueuing
<1>4. z \in Threads /\ Queued(z) /\ z # t /\ pc[z] \in {"park", "parked"} /\ shouldPark[z] /\ ~Woken(z)
  BY <1>1, <1>2, <1>3 DEF Queued
<1>5. queueTail[m_word.head] = z
  BY <1>1, <1>2, <1>3 DEF QueueOf, Tailed
<1>6. nextInQueue'[z] = t /\ \A u \in Threads : u # z => nextInQueue'[u] = nextInQueue[u]
  BY <1>1, <1>4, <1>5 DEF WordInv, TypeOK
<1>7. \A u \in Threads : Waking(u)' <=> Waking(u)
  BY <1>1 DEF Waking
<1>8. \A u \in Threads : Woken(u)' <=> Woken(u)
  BY <1>1, <1>7 DEF Woken
<1>9. ~Woken(t) /\ shouldPark[t]
  BY <1>1 DEF OffQueueInv, WakeInv, DataInv, Woken
<1>10. \A u \in Threads : Queued(u)' <=> Queued(u) \/ u = t
  BY <1>1, <1>8, <1>9 DEF Queued
<1>11. DataInv'
  <2>1. ASSUME NEW u \in Threads, u # z, u # t
        PROVE  pc'[u] = pc[u] /\ nextInQueue'[u] = nextInQueue[u] /\ queueTail'[u] = queueTail[u]
               /\ shouldPark'[u] = shouldPark[u]
    BY <1>1, <1>6, <2>1
  <2> QED
    BY <1>1, <1>4, <1>6, <1>9, <2>1 DEF OffQueueInv, DataInv, Clean
<1>12. WakeInv'
  <2>1. \A u \in Threads : Waking(u) => queueHead[u] # z
    BY <1>4 DEF Woken
  <2> QED
    BY <1>1, <1>6, <1>7, <2>1 DEF OffQueueInv, WakeInv
<1>13. HeirInv'
  BY <1>1, <1>3 DEF HeirInv
<1>14. r \in Seq(Threads) /\ Len(r) = n + 1 /\ (\A i \in 1 .. n : r[i] = q[i]) /\ r[n + 1] = t /\ r # <<>> /\ DOMAIN r = 1 .. n + 1
  BY <1>2, AppendFacts
<1>15. \A i \in DOMAIN q : q[i] # t
  BY <1>1, <1>2 DEF Queued
<1> HIDE DEF r, n, z
<1>16. Linked(r)'
  <2>1. \A i, j \in DOMAIN r : r[i] = r[j] => i = j
    BY <1>2, <1>14, <1>15
  <2>2. m_word'.head = r[1]
    BY <1>1, <1>2, <1>14
  <2>3. ASSUME NEW i \in DOMAIN r PROVE nextInQueue'[r[i]] = IF i = n + 1 THEN Null ELSE r[i + 1]
    <3>1. CASE i = n + 1
      <4>1. nextInQueue[t] = Null
        BY <1>1 DEF OffQueueInv, DataInv
      <4> QED
        BY <1>4, <1>6, <1>14, <3>1, <4>1
    <3>2. CASE i = n
      BY <1>2, <1>6, <1>14, <3>2 DEF z
    <3>3. CASE i \in 1 .. n /\ i # n
      <4>1. nextInQueue[q[i]] = q[i + 1]
        BY <1>2, <3>3 DEF QueueOf, Linked, n
      <4>2. q[i] # z /\ q[i] \in Threads /\ i + 1 \in 1 .. n
        BY <1>2, <3>3 DEF z
      <4> QED
        BY <1>2, <1>6, <1>14, <3>3, <4>1, <4>2
    <3> QED
      BY <1>2, <1>14, <3>1, <3>2, <3>3
  <2> QED
    BY <1>14, <2>1, <2>2, <2>3 DEF Linked
<1>17. Tailed(r)'
  BY <1>1, <1>2, <1>3, <1>14 DEF Tailed
<1>18. \A u \in Threads : Queued(u)' <=> \E i \in DOMAIN r : r[i] = u
  <2>1. \A u \in Threads : Queued(u) <=> \E i \in DOMAIN q : q[i] = u
    BY DEF QueueOf
  <2> QED
    BY <1>2, <1>10, <1>14, <2>1
<1>19. Follows(r, q)
  BY DEF Follows, r
<1> QED
  BY <1>11, <1>12, <1>13, <1>16, <1>17, <1>18, <1>19 DEF QueueOf, QueueStep, OffQueueInv

LEMMA SetTailQueue ==
    ASSUME WordInv, OffQueueInv, NEW q, QueueOf(q), NEW t \in Threads, SetTail(t)
    PROVE  QueueStep(q)
<1> DEFINE h == m_word.head
<1>1. /\ pc[t] = "setTail" /\ pc'[t] = "reloadQueued" /\ \A u \in Threads : u # t => pc'[u] = pc[u]
      /\ queueTail' = [queueTail EXCEPT ![h] = t] /\ h # Null
      /\ UNCHANGED <<m_word, shouldPark, nextInQueue, queueHead, newQueueHead>>
  BY DEF SetTail, Step, Goto, WordInv, TypeOK, LocalsInv, locals
<1>2. /\ Len(q) \in Nat /\ DOMAIN q = 1 .. Len(q) /\ q # <<>> /\ h = q[1] /\ h \in Threads /\ Queued(h)
      /\ Len(q) > 1 /\ q[Len(q)] = t /\ \A i, j \in DOMAIN q : q[i] = q[j] => i = j
  BY <1>1, QueueFacts DEF QueueOf, Tailed
<1>3. h # t
  BY <1>2
<1>4. \A u \in Threads : u # t => /\ pc[u] \notin {"setTail", "unlockReload", "unlockStore"}
                                  /\ Queued(u) => pc[u] \in {"park", "parked"}
  BY <1>1, OwnerAlone DEF OwnsQueue, Enqueuing
<1> HIDE DEF h
<1>5. queueTail'[h] = t /\ \A u \in Threads : u # h => queueTail'[u] = queueTail[u]
  BY <1>1, <1>2 DEF WordInv, TypeOK
<1>6. \A u \in Threads : Waking(u)' <=> Waking(u)
  BY <1>1 DEF Waking
<1>7. \A u \in Threads : (Woken(u)' <=> Woken(u)) /\ (Queued(u)' <=> Queued(u))
  BY <1>1, <1>6 DEF Woken, Queued
<1>8. DataInv'
  <2>1. pc[h] \in {"park", "parked"} /\ shouldPark[h]
    BY <1>2, <1>3, <1>4 DEF Queued
  <2> QED
    BY <1>1, <1>5, <2>1 DEF OffQueueInv, DataInv, Clean
<1>9. WakeInv'
  <2>1. \A u \in Threads : Waking(u) => queueHead[u] # h
    BY <1>2 DEF Woken, Queued
  <2> QED
    BY <1>1, <1>5, <1>6, <2>1 DEF OffQueueInv, WakeInv
<1>10. HeirInv'
  BY <1>1, <1>4 DEF HeirInv
<1>11. Linked(q)'
  BY <1>1 DEF QueueOf, Linked
<1>12. Tailed(q)'
  BY <1>1, <1>2, <1>4, <1>5 DEF Tailed
<1> QED
  BY <1>7, <1>8, <1>9, <1>10, <1>11, <1>12 DEF QueueOf, QueueStep, Follows, OffQueueInv

LEMMA ReleaseQueueQueue ==
    ASSUME WordInv, OffQueueInv, NEW q, QueueOf(q), NEW t \in Threads, ReleaseQueue(t)
    PROVE  QueueStep(q)
<1> DEFINE w == ClearBit(currentWordValue[t], "isQueueLocked")
<1>1. /\ pc[t] \in {"releaseQueue", "installHead"} /\ pc'[t] = "park" /\ \A u \in Threads : u # t => pc'[u] = pc[u]
      /\ pc[t] = "releaseQueue" => m_word' = w
      /\ pc[t] = "installHead" => m_word' = SetHead(w, t)
      /\ UNCHANGED <<shouldPark, nextInQueue, queueTail>>
      /\ \A u \in Threads : u # t => queueHead'[u] = queueHead[u] /\ newQueueHead'[u] = newQueueHead[u]
  BY DEF ReleaseQueue, Step, Goto, ForgetQueue, WordInv, TypeOK, threadDatas
<1>2. w \in Words /\ w.head = m_word.head
  BY <1>1, WordOps DEF WordInv, TypeOK, LocalsInv
<1> HIDE DEF w
<1>3. m_word'.head = IF pc[t] = "releaseQueue" THEN m_word.head ELSE t
  <2>1. t \in Pointers
    BY DEF Pointers
  <2> QED
    BY <1>1, <1>2, <2>1, WordHead
<1>4. \A u \in Threads : u # t => pc[u] \notin {"setTail", "unlockReload", "unlockStore"}
  BY <1>1, OwnerAlone DEF OwnsQueue, Enqueuing
<1>5. \A u \in Threads : Waking(u)' <=> Waking(u)
  BY <1>1 DEF Waking
<1>6. \A u \in Threads : Woken(u)' <=> Woken(u)
  BY <1>1, <1>5 DEF Woken, Waking
<1>7. ~Woken(t) /\ shouldPark[t]
  BY <1>1 DEF OffQueueInv, WakeInv, DataInv, Woken
<1>8. \A u \in Threads : Queued(u)' <=> Queued(u) \/ u = t
  BY <1>1, <1>6, <1>7 DEF Queued
<1>9. DataInv'
  BY <1>1, <1>7 DEF OffQueueInv, DataInv, Clean
<1>10. WakeInv'
  BY <1>1, <1>5, <1>7 DEF OffQueueInv, WakeInv, Waking, Woken
<1>11. HeirInv'
  BY <1>1, <1>4 DEF HeirInv
<1>12. CASE pc[t] = "releaseQueue"
  <2>1. \A u \in Threads : Queued(u)' <=> Queued(u)
    BY <1>7, <1>8, <1>12 DEF Queued
  <2>2. Linked(q)' /\ Tailed(q)'
    BY <1>1, <1>3, <1>4, <1>12 DEF QueueOf, Linked, Tailed
  <2> QED
    BY <1>9, <1>10, <1>11, <2>1, <2>2 DEF QueueOf, QueueStep, Follows, OffQueueInv
<1>13. CASE pc[t] = "installHead"
  <2> DEFINE r == Append(q, t)
  <2>1. q = <<>>
    BY <1>13, QueueFacts DEF WordInv, LocalsInv
  <2>2. r \in Seq(Threads) /\ Len(r) = 1 /\ DOMAIN r = {1} /\ r[1] = t /\ r # <<>>
    BY <2>1
  <2>3. \A u \in Threads : ~Queued(u)
    BY <2>1 DEF QueueOf
  <2>4. nextInQueue[t] = Null /\ queueTail[t] = t
    BY <1>13 DEF OffQueueInv, DataInv
  <2>5. Follows(r, q)
    BY DEF Follows
  <2> HIDE DEF r
  <2>6. Linked(r)'
    BY <1>1, <1>3, <1>13, <2>2, <2>4 DEF Linked
  <2>7. Tailed(r)'
    BY <1>1, <1>4, <2>2, <2>4 DEF Tailed
  <2>8. \A u \in Threads : Queued(u)' <=> \E i \in DOMAIN r : r[i] = u
    BY <1>8, <2>2, <2>3
  <2> QED
    BY <1>9, <1>10, <1>11, <2>5, <2>6, <2>7, <2>8 DEF QueueOf, QueueStep, OffQueueInv
<1> QED
  BY <1>1, <1>12, <1>13

(* What the second thread of the queue gets from the first.                *)
LEMMA UnlockNextQueue ==
    ASSUME WordInv, OffQueueInv, NEW q, QueueOf(q), NEW t \in Threads, UnlockNext(t)
    PROVE  QueueStep(q)
<1> DEFINE h == m_word.head
           x == nextInQueue[h]
<1>1. /\ pc[t] = "unlockNext" /\ pc'[t] = "unlockReload" /\ \A u \in Threads : u # t => pc'[u] = pc[u]
      /\ newQueueHead'[t] = x /\ \A u \in Threads : u # t => newQueueHead'[u] = newQueueHead[u]
      /\ queueTail' = IF x = Null THEN queueTail ELSE [queueTail EXCEPT ![x] = queueTail[h]]
      /\ h # Null /\ UNCHANGED <<m_word, shouldPark, nextInQueue, queueHead>>
  BY DEF UnlockNext, Step, Goto, WordInv, TypeOK, LocalsInv, Dequeuing
<1>2. /\ Len(q) \in Nat /\ DOMAIN q = 1 .. Len(q) /\ q # <<>> /\ h = q[1] /\ h \in Threads
      /\ \A i \in DOMAIN q : q[i] \in Threads /\ Queued(q[i])
      /\ \A i, j \in DOMAIN q : q[i] = q[j] => i = j
  BY <1>1, QueueFacts
<1>3. x # Null => x \in Threads /\ Queued(x) /\ x # h
  <2>1. x = IF Len(q) = 1 THEN Null ELSE q[2]
    BY <1>2 DEF QueueOf, Linked
  <2>2. Len(q) # 1 => 2 \in DOMAIN q /\ 1 \in DOMAIN q
    BY <1>1, <1>2, QueueFacts
  <2> QED
    BY <1>2, <2>1, <2>2
<1>4. \A u \in Threads : u # t => /\ pc[u] \notin {"setTail", "unlockReload", "unlockStore"}
                                  /\ Queued(u) => pc[u] \in {"park", "parked"}
  BY <1>1, OwnerAlone DEF OwnsQueue, Dequeuing
<1> HIDE DEF h, x
<1>5. /\ \A u \in Threads : u # x => queueTail'[u] = queueTail[u]
      /\ x # Null => queueTail'[x] = queueTail[h]
  BY <1>1, <1>2, <1>3 DEF WordInv, TypeOK
<1>6. \A u \in Threads : Waking(u)' <=> Waking(u)
  BY <1>1 DEF Waking
<1>7. \A u \in Threads : (Woken(u)' <=> Woken(u)) /\ (Queued(u)' <=> Queued(u))
  BY <1>1, <1>6 DEF Woken, Queued
<1>8. DataInv'
  <2>1. x # Null => x # t /\ pc[x] \in {"park", "parked"} /\ shouldPark[x]
    BY <1>1, <1>3, <1>4 DEF Queued
  <2>2. \A u \in Threads : u = x => x # Null
    BY NullAssumption
  <2> QED
    BY <1>1, <1>5, <2>1, <2>2 DEF OffQueueInv, DataInv, Clean
<1>9. WakeInv'
  <2>1. \A u \in Threads : Waking(u) => queueHead[u] # x
    <3>1. ASSUME NEW u \in Threads, Waking(u), queueHead[u] = x PROVE FALSE
      <4>1. x \in Threads
        BY <3>1 DEF OffQueueInv, WakeInv
      <4>2. Queued(x)
        BY <1>3, <4>1, NullAssumption
      <4> QED
        BY <3>1, <4>2 DEF Woken, Queued
    <3> QED
      BY <3>1
  <2> QED
    BY <1>1, <1>5, <1>6, <2>1 DEF OffQueueInv, WakeInv
<1>10. HeirInv'
  <2>1. h # x => queueTail'[h] = queueTail[h]
    BY <1>2, <1>5
  <2> QED
    BY <1>1, <1>3, <1>4, <1>5, <2>1 DEF HeirInv, h, x
<1>11. Linked(q)'
  BY <1>1 DEF QueueOf, Linked
<1>12. Tailed(q)'
  <2>1. h # x
    BY <1>2, <1>3, NullAssumption
  <2>2. queueTail'[h] = queueTail[h]
    BY <1>2, <1>5, <2>1
  <2> QED
    BY <1>1, <1>2, <1>4, <2>2 DEF QueueOf, Tailed
<1> QED
  BY <1>7, <1>8, <1>9, <1>10, <1>11, <1>12 DEF QueueOf, QueueStep, Follows, OffQueueInv

(* The first thread is taken off the queue.                                *)
LEMMA UnlockStoreQueue ==
    ASSUME WordInv, OffQueueInv, NEW q, QueueOf(q), NEW t \in Threads, UnlockStore(t)
    PROVE  QueueStep(q)
<1> DEFINE h == m_word.head
           x == newQueueHead[t]
           r == Tail(q)
           n == Len(q)
<1>1. /\ pc[t] = "unlockStore" /\ pc'[t] = "clearNext" /\ \A u \in Threads : u # t => pc'[u] = pc[u]
      /\ queueHead[t] = h /\ h # Null /\ UNCHANGED <<shouldPark, nextInQueue, queueTail, queueHead>>
      /\ \A u \in Threads : u # t => newQueueHead'[u] = newQueueHead[u]
  BY DEF UnlockStore, Step, Goto, WordInv, TypeOK, LocalsInv, Dequeuing, threadDatas
<1>2. m_word'.head = x
  <2> DEFINE v == ClearBit(currentWordValue[t], "isLocked")
             w == ClearBit(v, "isQueueLocked")
  <2>1. v \in Words
    BY WordOps DEF WordInv, TypeOK
  <2>2. w \in Words
    BY <2>1, WordOps
  <2>3. m_word' = SetHead(w, x) /\ x \in Pointers
    BY DEF UnlockStore, WordInv, TypeOK
  <2> HIDE DEF w, x
  <2> QED
    BY <2>2, <2>3, WordHead
<1>3. /\ n \in Nat /\ DOMAIN q = 1 .. n /\ q \in Seq(Threads) /\ q # <<>> /\ n >= 1 /\ h = q[1] /\ h \in Threads /\ Queued(h)
      /\ \A i \in DOMAIN q : q[i] \in Threads /\ Queued(q[i])
      /\ \A i, j \in DOMAIN q : q[i] = q[j] => i = j
  BY <1>1, QueueFacts
<1>4. \A u \in Threads : u # t => /\ pc[u] \notin {"setTail", "unlockReload", "unlockStore"}
                                  /\ Queued(u) => pc[u] \in {"park", "parked"}
  BY <1>1, OwnerAlone DEF OwnsQueue, Dequeuing
<1>5. x = nextInQueue[h] /\ (x # Null => queueTail[x] = queueTail[h])
  BY <1>1 DEF OffQueueInv, HeirInv
<1>6. r \in Seq(Threads) /\ Len(r) = n - 1 /\ (\A i \in 1 .. n - 1 : r[i] = q[i + 1]) /\ DOMAIN r = 1 .. n - 1
      /\ (r = <<>> <=> n = 1)
  BY <1>3, TailFacts, LenProperties, EmptySeq
<1>7. Follows(r, q)
  BY <1>3 DEF Follows
<1>8. queueTail[h] = q[n]
  BY <1>1, <1>3, <1>4 DEF QueueOf, Tailed
<1>9. \A i \in DOMAIN q : nextInQueue[q[i]] = IF i = n THEN Null ELSE q[i + 1]
  BY DEF QueueOf, Linked
<1> HIDE DEF h, x, r, n
<1>10. pc[h] \in {"park", "parked"} /\ shouldPark[h] /\ ~Woken(h) /\ h # t
  BY <1>1, <1>3, <1>4 DEF Queued
<1>11. \A u \in Threads : Waking(u)' <=> Waking(u) \/ u = t
  BY <1>1 DEF Waking
<1>12. ~Waking(t)
  BY <1>1 DEF Waking
<1>13. \A u \in Threads : Woken(u)' <=> Woken(u) \/ u = h
  BY <1>1, <1>11, <1>12 DEF Woken
<1>14. \A u \in Threads : Queued(u)' <=> Queued(u) /\ u # h
  BY <1>1, <1>13 DEF Queued
<1>15. DataInv'
  BY <1>1 DEF OffQueueInv, DataInv, Clean
<1>16. WakeInv'
  <2>1. ASSUME NEW u \in Threads, Waking(u)
        PROVE  queueHead[u] # h /\ u # t
    BY <1>10, <1>12, <2>1 DEF Woken
  <2> QED
    BY <1>1, <1>3, <1>10, <1>11, <2>1 DEF OffQueueInv, WakeInv
<1>17. HeirInv'
  BY <1>1, <1>4 DEF HeirInv
<1>18. x = IF n = 1 THEN Null ELSE q[2]
  BY <1>3, <1>5, <1>9
<1>19. Linked(r)'
  <2>1. ASSUME NEW i \in DOMAIN r, NEW j \in DOMAIN r, r[i] = r[j] PROVE i = j
    <3>1. i + 1 \in DOMAIN q /\ j + 1 \in DOMAIN q /\ q[i + 1] = q[j + 1] /\ i \in Nat /\ j \in Nat
      BY <1>3, <1>6, <2>1
    <3>2. i + 1 = j + 1
      BY <1>3, <3>1
    <3> QED
      BY <3>1, <3>2
  <2>2. m_word'.head = IF r = <<>> THEN Null ELSE r[1]
    BY <1>2, <1>3, <1>6, <1>18
  <2>3. \A i \in DOMAIN r : nextInQueue'[r[i]] = IF i = n - 1 THEN Null ELSE r[i + 1]
    BY <1>1, <1>3, <1>6, <1>9
  <2> QED
    BY <1>6, <2>1, <2>2, <2>3 DEF Linked
<1>20. Tailed(r)'
  <2>1. r # <<>> => r[1] = x /\ r[Len(r)] = q[n] /\ x # Null
    BY <1>3, <1>6, <1>18, NullAssumption
  <2> QED
    BY <1>1, <1>4, <1>5, <1>8, <2>1 DEF Tailed
<1>21. \A u \in Threads : Queued(u)' <=> \E i \in DOMAIN r : r[i] = u
  <2>1. ASSUME NEW u \in Threads PROVE (\E i \in DOMAIN r : r[i] = u) <=> (\E i \in DOMAIN q : q[i] = u) /\ u # h
    <3>1. ASSUME NEW i \in DOMAIN r, r[i] = u PROVE (\E j \in DOMAIN q : q[j] = u) /\ u # h
      <4>1. i + 1 \in DOMAIN q /\ q[i + 1] = u /\ i + 1 # 1 /\ 1 \in DOMAIN q
        BY <1>3, <1>6, <3>1
      <4> QED
        BY <1>3, <4>1
    <3>2. ASSUME NEW j \in DOMAIN q, q[j] = u, u # h PROVE \E i \in DOMAIN r : r[i] = u
      <4>1. j - 1 \in DOMAIN r /\ r[j - 1] = u
        BY <1>3, <1>6, <3>2
      <4> QED
        BY <4>1
    <3> QED
      BY <3>1, <3>2
  <2> QED
    BY <1>14, <2>1 DEF QueueOf
<1> QED
  BY <1>7, <1>15, <1>16, <1>17, <1>19, <1>20, <1>21 DEF QueueOf, QueueStep, OffQueueInv

(* What the waker does to the thread it has taken off the queue.           *)
LEMMA WakerQueue ==
    ASSUME WordInv, OffQueueInv, NEW q, QueueOf(q), NEW t \in Threads, ClearNext(t) \/ ClearTail(t) \/ Wake(t)
    PROVE  QueueStep(q)
<1> SUFFICES ASSUME NEW h, h = queueHead[t] PROVE QueueStep(q)
  OBVIOUS
<1>1. /\ Waking(t) /\ \A u \in Threads : u # t => pc'[u] = pc[u]
      /\ UNCHANGED <<m_word, queueHead, newQueueHead>>
      /\ \/ pc[t] = "clearNext" /\ pc'[t] = "clearTail"
         \/ pc[t] = "clearTail" /\ pc'[t] = "wake"
         \/ pc[t] = "wake" /\ pc'[t] = "notify"
  BY DEF ClearNext, ClearTail, Wake, Step, Goto, Waking, WordInv, TypeOK, locals
<1>2. /\ h \in Threads /\ pc[h] \in {"park", "parked"} /\ shouldPark[h]
      /\ \A v \in Threads : Waking(v) /\ queueHead[v] = h => v = t
      /\ pc[t] \in {"clearTail", "wake"} => nextInQueue[h] = Null
      /\ pc[t] = "wake" => queueTail[h] = Null
  BY <1>1 DEF OffQueueInv, WakeInv
<1>3. /\ \A u \in Threads : u # h => nextInQueue'[u] = nextInQueue[u] /\ queueTail'[u] = queueTail[u]
                                     /\ shouldPark'[u] = shouldPark[u]
      /\ nextInQueue'[h] = IF pc[t] = "clearNext" THEN Null ELSE nextInQueue[h]
      /\ queueTail'[h] = IF pc[t] = "clearTail" THEN Null ELSE queueTail[h]
      /\ shouldPark'[h] = IF pc[t] = "wake" THEN FALSE ELSE shouldPark[h]
  BY <1>2 DEF ClearNext, ClearTail, Wake, Step, WordInv, TypeOK
<1>4. Woken(h) /\ ~Queued(h) /\ h # t
  BY <1>1, <1>2 DEF Woken, Queued, Waking
<1>5. \A u \in Threads : u # t => (Waking(u)' <=> Waking(u))
  BY <1>1 DEF Waking
<1>6. \A u \in Threads : u # h => (Woken(u)' <=> Woken(u))
  BY <1>1, <1>5 DEF Woken, Waking
<1>7. Woken(h)' \/ ~shouldPark'[h]
  BY <1>1, <1>3 DEF Woken, Waking
<1>8. \A u \in Threads : Queued(u)' <=> Queued(u)
  <2>1. ~Queued(h)'
    BY <1>7 DEF Queued
  <2>2. ASSUME NEW u \in Threads, u # h PROVE Queued(u)' <=> Queued(u)
    <3>1. pc'[u] = pc[u] \/ u = t
      BY <1>1
    <3>2. ~Queued(t) /\ ~Queued(t)'
      BY <1>1 DEF Queued
    <3> QED
      BY <1>3, <1>6, <2>2, <3>1, <3>2 DEF Queued
  <2> QED
    BY <1>4, <2>1, <2>2
<1>9. DataInv'
  <2>1. pc'[h] = pc[h] /\ (~shouldPark'[h] => Clean(h)')
    BY <1>1, <1>2, <1>3, <1>4 DEF Clean
  <2>2. Clean(t) /\ nextInQueue'[t] = nextInQueue[t] /\ queueTail'[t] = queueTail[t] /\ shouldPark'[t] = shouldPark[t]
    BY <1>1, <1>3, <1>4 DEF OffQueueInv, DataInv
  <2>3. ASSUME NEW u \in Threads, u # h, u # t
        PROVE  /\ pc'[u] = pc[u] /\ nextInQueue'[u] = nextInQueue[u] /\ queueTail'[u] = queueTail[u]
               /\ shouldPark'[u] = shouldPark[u]
    BY <1>1, <1>3, <2>3
  <2> DEFINE DataOf(u) ==
        /\ pc[u] \notin {"linkTail", "setTail", "reloadQueued", "releaseQueue", "initTail", "reloadHead", "installHead",
                         "park", "parked"} => Clean(u)
        /\ pc[u] \in {"linkTail", "setTail", "reloadQueued", "releaseQueue", "initTail", "reloadHead", "installHead"} =>
               shouldPark[u]
        /\ pc[u] \in {"linkTail", "initTail", "reloadHead", "installHead"} => nextInQueue[u] = Null
        /\ pc[u] \in {"reloadHead", "installHead"} => queueTail[u] = u
        /\ pc[u] \in {"park", "parked"} /\ ~shouldPark[u] => Clean(u)
  <2>4. DataOf(h)'
    BY <1>2, <2>1
  <2>5. DataOf(t)'
    BY <1>1, <2>2 DEF Clean
  <2>6. ASSUME NEW u \in Threads, u # h, u # t PROVE DataOf(u)'
    <3>1. DataOf(u)
      BY DEF OffQueueInv, DataInv
    <3> QED
      BY <2>3, <2>6, <3>1 DEF Clean
  <2>7. ASSUME NEW u \in Threads PROVE DataOf(u)'
    BY <2>4, <2>5, <2>6
  <2> QED
    BY <2>7 DEF DataInv
<1>10. WakeInv'
  <2>1. ASSUME NEW u \in Threads, Waking(u), u # t
        PROVE  queueHead[u] # h
    BY <1>2, <2>1
  <2>2. h = queueHead[t]
    OBVIOUS
  <2>3. ASSUME NEW u \in Threads, Waking(u)', u # t
        PROVE  LET g == queueHead'[u] IN
               /\ g \in Threads /\ pc'[g] \in {"park", "parked"} /\ shouldPark'[g]
               /\ \A v \in Threads : Waking(v)' /\ queueHead'[v] = g => v = u
               /\ pc'[u] \in {"clearTail", "wake"} => nextInQueue'[g] = Null
               /\ pc'[u] = "wake" => queueTail'[g] = Null
    <3> DEFINE g == queueHead[u]
    <3>1. Waking(u) /\ g # h /\ queueHead'[u] = g
      BY <1>1, <1>5, <2>1, <2>3
    <3>2. /\ g \in Threads /\ pc[g] \in {"park", "parked"} /\ shouldPark[g]
          /\ \A v \in Threads : Waking(v) /\ queueHead[v] = g => v = u
          /\ pc[u] \in {"clearTail", "wake"} => nextInQueue[g] = Null
          /\ pc[u] = "wake" => queueTail[g] = Null
      BY <3>1 DEF OffQueueInv, WakeInv
    <3>3. g # t
      BY <1>1, <3>2
    <3>4. \A v \in Threads : Waking(v)' /\ queueHead'[v] = g => v = u
      BY <1>1, <1>5, <2>2, <3>1, <3>2
    <3> QED
      BY <1>1, <1>3, <2>3, <3>1, <3>2, <3>3, <3>4
  <2>4. ASSUME Waking(t)'
        PROVE  LET g == queueHead'[t] IN
               /\ g \in Threads /\ pc'[g] \in {"park", "parked"} /\ shouldPark'[g]
               /\ \A v \in Threads : Waking(v)' /\ queueHead'[v] = g => v = t
               /\ pc'[t] \in {"clearTail", "wake"} => nextInQueue'[g] = Null
               /\ pc'[t] = "wake" => queueTail'[g] = Null
    <3>1. pc[t] # "wake"
      BY <1>1, <2>4 DEF Waking
    <3>2. queueHead'[t] = h /\ pc'[h] = pc[h]
      BY <1>1, <1>2, <1>4, <2>2
    <3>3. \A v \in Threads : Waking(v)' /\ queueHead'[v] = h => v = t
      BY <1>1, <1>2, <1>5
    <3> QED
      BY <1>1, <1>2, <1>3, <3>1, <3>2, <3>3
  <2> QED
    BY <2>3, <2>4 DEF WakeInv
<1>11. \A i \in DOMAIN q : q[i] # h /\ q[i] \in Threads
  BY <1>4, QueueFacts
<1>12. HeirInv'
  <2>1. ASSUME NEW u \in Threads, pc'[u] \in {"unlockReload", "unlockStore"}
        PROVE  /\ newQueueHead'[u] = nextInQueue'[m_word'.head]
               /\ newQueueHead'[u] # Null => queueTail'[newQueueHead'[u]] = queueTail'[m_word'.head]
    <3>1. u # t /\ pc[u] = pc'[u]
      BY <1>1, <2>1
    <3>2. m_word.head # Null
      BY <2>1, <3>1 DEF WordInv, LocalsInv, Dequeuing
    <3>3. 1 \in DOMAIN q /\ m_word.head = q[1] /\ Len(q) \in Nat /\ DOMAIN q = 1 .. Len(q)
      BY <3>2, QueueFacts
    <3>4. nextInQueue[m_word.head] = IF 1 = Len(q) THEN Null ELSE q[2]
      BY <3>3 DEF QueueOf, Linked
    <3>5. m_word.head # h /\ m_word.head \in Threads /\ (nextInQueue[m_word.head] # Null =>
              nextInQueue[m_word.head] # h /\ nextInQueue[m_word.head] \in Threads)
      BY <1>11, <3>3, <3>4
    <3>6. /\ newQueueHead[u] = nextInQueue[m_word.head]
          /\ newQueueHead[u] # Null => queueTail[newQueueHead[u]] = queueTail[m_word.head]
      BY <2>1, <3>1 DEF OffQueueInv, HeirInv
    <3> QED
      BY <1>1, <1>3, <3>5, <3>6
  <2> QED
    BY <2>1 DEF HeirInv
<1>13. Linked(q)'
  BY <1>1, <1>3, <1>11 DEF QueueOf, Linked
<1>14. Tailed(q)'
  <2>1. q # <<>> => q[1] # h /\ q[1] \in Threads
    BY <1>11, QueueFacts
  <2>2. \A u \in Threads : pc'[u] = "setTail" <=> pc[u] = "setTail"
    BY <1>1
  <2> QED
    BY <1>3, <2>1, <2>2 DEF QueueOf, Tailed
<1> QED
  BY <1>8, <1>9, <1>10, <1>12, <1>13, <1>14 DEF QueueOf, QueueStep, Follows, OffQueueInv

LEMMA QueueNext ==
    ASSUME WordInv, OffQueueInv, NEW q, QueueOf(q), [Next]_vars
    PROVE  QueueStep(q)
<1>1. CASE UNCHANGED vars
  <2>1. Calm
    BY <1>1 DEF vars, locals, Calm
  <2> QED
    BY <2>1, CalmStep
<1>2. CASE Next
  <2>1. PICK t \in Threads : Lock(t) \/ SpuriousWakeUp(t) \/ Run(t)
    BY <1>2 DEF Next
  <2>2. CASE \/ Lock(t) \/ SpuriousWakeUp(t) \/ Load(t) \/ Acquire(t) \/ Reload(t) \/ ClaimQueue(t) \/ ReloadToRelease(t)
             \/ Unlock(t) \/ UnlockRetry(t) \/ UnlockLoad(t) \/ UnlockClaim(t) \/ UnlockHead(t) \/ UnlockReload(t)
             \/ Notify(t) \/ (Park(t) /\ shouldPark[t])
    <3>1. Calm
      BY <2>2, CalmActions
    <3> QED
      BY <3>1, CalmStep
  <2>3. CASE Park(t) /\ ~shouldPark[t]
    BY <2>3, ParkEnds
  <2>4. CASE SetShouldPark(t)
    BY <2>4, SetShouldParkQueue
  <2>5. CASE InitTail(t)
    BY <2>5, InitTailQueue
  <2>6. CASE LinkTail(t)
    BY <2>6, LinkTailQueue
  <2>7. CASE SetTail(t)
    BY <2>7, SetTailQueue
  <2>8. CASE ReleaseQueue(t)
    BY <2>8, ReleaseQueueQueue
  <2>9. CASE UnlockNext(t)
    BY <2>9, UnlockNextQueue
  <2>10. CASE UnlockStore(t)
    BY <2>10, UnlockStoreQueue
  <2>11. CASE ClearNext(t) \/ ClearTail(t) \/ Wake(t)
    BY <2>11, WakerQueue
  <2> QED
    BY <2>1, <2>2, <2>3, <2>4, <2>5, <2>6, <2>7, <2>8, <2>9, <2>10, <2>11 DEF Run
<1> QED
  BY <1>1, <1>2

(* The inductive invariant of the queue.                                   *)
QueueInv == OffQueueInv /\ \E q : QueueOf(q)

LEMMA QueueInvInit == Init => QueueInv
<1> SUFFICES ASSUME Init PROVE QueueInv
  OBVIOUS
<1>1. \A t \in Threads : pc[t] = "idle" /\ Clean(t)
  BY DEF Init, Clean
<1>2. m_word.head = Null
  BY DEF Init, Unlocked
<1>3. OffQueueInv
  BY <1>1 DEF OffQueueInv, DataInv, WakeInv, HeirInv, Waking
<1>4. QueueOf(<<>>)
  <2>1. <<>> \in Seq(Threads) /\ DOMAIN <<>> = {}
    BY EmptySeq
  <2>2. Linked(<<>>)
    BY <1>2, <2>1 DEF Linked
  <2>3. Tailed(<<>>)
    BY <1>1 DEF Tailed
  <2>4. \A t \in Threads : Queued(t) <=> \E i \in DOMAIN <<>> : <<>>[i] = t
    BY <1>1, <2>1 DEF Queued
  <2> QED
    BY <2>2, <2>3, <2>4 DEF QueueOf
<1> QED
  BY <1>3, <1>4 DEF QueueInv

LEMMA QueueInvStep == WordInv /\ QueueInv /\ [Next]_vars => QueueInv'
<1> SUFFICES ASSUME WordInv, QueueInv, [Next]_vars PROVE QueueInv'
  OBVIOUS
<1>1. PICK q : QueueOf(q)
  BY DEF QueueInv
<1>2. QueueStep(q)
  BY <1>1, QueueNext DEF QueueInv
<1> QED
  BY <1>2 DEF QueueStep, QueueInv

LEMMA QueueInvariant == Spec => [](WordInv /\ QueueInv)
  BY WordInvariant, QueueInvInit, QueueInvStep, PTL DEF Spec

(* No ASSERT of lockSlow() on the thread's own data fails: a thread that   *)
(* may queue up is on no queue, has clean data, and no unlockSlow() of     *)
(* another thread is about to write to it.                                 *)
THEOREM OwnDataAssertsHold == Spec => []OwnDataAsserts
<1>1. QueueInv => OwnDataAsserts
  <2> SUFFICES ASSUME OffQueueInv, NEW t \in Threads, pc[t] \in {"load", "reload"}
               PROVE  /\ ~shouldPark[t] /\ nextInQueue[t] = Null /\ queueTail[t] = Null
                      /\ \A u \in Threads : Waking(u) => queueHead[u] # t
    BY DEF QueueInv, OwnDataAsserts
  <2>1. Clean(t)
    BY DEF OffQueueInv, DataInv
  <2> QED
    BY <2>1 DEF OffQueueInv, WakeInv, Clean
<1> QED
  BY <1>1, QueueInvariant, PTL

(* The nodes that WaitQueue visits, Null from the end of the list on.      *)
IsNodes(g) ==
    g = [n \in 0..Cardinality(Threads) |->
            IF n = 0 THEN m_word.head ELSE IF g[n - 1] = Null THEN Null ELSE nextInQueue[g[n - 1]]]
Nodes == CHOOSE g : IsNodes(g)
Lengths(g) == {n \in DOMAIN g : g[n] # Null}

LEMMA WaitQueueNodes == WaitQueue = [i \in 1..Cardinality(Lengths(Nodes)) |-> Nodes[i - 1]]
  BY DEF WaitQueue, Nodes, IsNodes, Lengths

(* Two lists that start alike and go on alike are alike.                   *)
LEMMA NodesUnique ==
    ASSUME NEW f, NEW g, IsNodes(f), IsNodes(g), Cardinality(Threads) \in Nat
    PROVE  f = g
<1> DEFINE N == Cardinality(Threads)
           D == {n \in 0..N : f[n] # g[n]}
<1>1. /\ \A n \in 0..N : n = 0 => f[n] = m_word.head /\ g[n] = m_word.head
      /\ \A n \in 0..N : n # 0 => f[n] = IF f[n - 1] = Null THEN Null ELSE nextInQueue[f[n - 1]]
      /\ \A n \in 0..N : n # 0 => g[n] = IF g[n - 1] = Null THEN Null ELSE nextInQueue[g[n - 1]]
      /\ DOMAIN f = 0..N /\ DOMAIN g = 0..N
  BY DEF IsNodes
<1>2. f = [n \in 0..N |-> f[n]] /\ g = [n \in 0..N |-> g[n]]
  BY Zenon DEF IsNodes
<1>3. SUFFICES ASSUME D # {} PROVE FALSE
  <2>1. \A n \in 0..N : f[n] = g[n]
    BY <1>3
  <2> QED
    BY <1>2, <2>1
<1>4. D \subseteq Nat
  OBVIOUS
<1>5. PICK m \in D : \A n \in D : m <= n
  BY <1>3, <1>4, LeastElement
<1>6. m \in 0..N /\ f[m] # g[m] /\ m \in Nat /\ m # 0
  BY <1>1, <1>5
<1>7. m - 1 \in 0..N /\ m - 1 \notin D
  BY <1>5, <1>6
<1>8. f[m - 1] = g[m - 1]
  BY <1>7
<1> QED
  BY <1>1, <1>6, <1>8

(* The sequence of the invariant is the one that the links form.           *)
LEMMA WaitQueueIs == \A q : IsFiniteSet(Threads) /\ QueueOf(q) => WaitQueue = q
<1> SUFFICES ASSUME IsFiniteSet(Threads), NEW q, QueueOf(q) PROVE WaitQueue = q
  OBVIOUS
<1> DEFINE N == Cardinality(Threads)
           l == Len(q)
           g == [n \in 0..N |-> IF n < l THEN q[n + 1] ELSE Null]
<1>1. N \in Nat
  BY FS_CardinalityType
<1>2. /\ l \in Nat /\ DOMAIN q = 1..l /\ q \in [1..l -> Threads] /\ (q = <<>> <=> l = 0)
      /\ \A i, j \in 1..l : q[i] = q[j] => i = j
      /\ m_word.head = IF l = 0 THEN Null ELSE q[1]
      /\ \A i \in 1..l : nextInQueue[q[i]] = IF i = l THEN Null ELSE q[i + 1]
  BY LenProperties, EmptySeq DEF QueueOf, Linked
<1>3. q = [i \in 1..l |-> q[i]]
  BY <1>2
<1> HIDE DEF l, N
<1>4. l <= N
  <2>1. q \in Injection(1..l, Threads)
    BY <1>2 DEF Injection, IsInjective
  <2>2. Cardinality(1..l) <= N
    BY <2>1, FS_Injection DEF N
  <2>3. Cardinality(1..l) = l
    BY <1>2, FS_Interval
  <2> QED
    BY <2>2, <2>3
<1>5. /\ \A n \in 0..N : g[n] = IF n < l THEN q[n + 1] ELSE Null
      /\ DOMAIN g = 0..N
  OBVIOUS
<1>6. IsNodes(g)
  <2> DEFINE e == [n \in 0..N |-> IF n = 0 THEN m_word.head ELSE IF g[n - 1] = Null THEN Null ELSE nextInQueue[g[n - 1]]]
  <2>1. ASSUME NEW n \in 0..N
        PROVE  (IF n < l THEN q[n + 1] ELSE Null)
                 = IF n = 0 THEN m_word.head ELSE IF g[n - 1] = Null THEN Null ELSE nextInQueue[g[n - 1]]
    <3>1. CASE n = 0
      BY <1>2, <3>1
    <3>2. CASE n # 0
      <4>1. n - 1 \in 0..N /\ n \in Nat /\ (n - 1 < l <=> n <= l) /\ (n - 1) + 1 = n
        BY <1>1, <1>2, <3>2
      <4>2. g[n - 1] = IF n <= l THEN q[n] ELSE Null
        BY <1>5, <4>1
      <4>3. n <= l => n \in 1..l /\ q[n] # Null
        BY <1>2, <3>2, <4>1, NullAssumption
      <4> HIDE DEF g
      <4>4. n <= l => nextInQueue[q[n]] = IF n = l THEN Null ELSE q[n + 1]
        BY <1>2, <4>3
      <4> QED
        BY <1>2, <3>2, <4>1, <4>2, <4>3, <4>4
    <3> QED
      BY <3>1, <3>2
  <2>2. g = e
    BY <2>1
  <2> HIDE DEF g
  <2> QED
    BY <2>2 DEF IsNodes, N
<1> HIDE DEF g
<1>7. Nodes = g
  <2>1. IsNodes(Nodes)
    BY <1>6 DEF Nodes
  <2> QED
    BY <1>1, <1>6, <2>1, NodesUnique DEF N
<1>8. Lengths(g) = 0..(l - 1)
  BY <1>1, <1>2, <1>4, <1>5, NullAssumption DEF Lengths
<1>9. Cardinality(0..(l - 1)) = l
  BY <1>2, FS_Interval
<1>10. WaitQueue = [i \in 1..l |-> g[i - 1]]
  BY <1>7, <1>8, <1>9, WaitQueueNodes
<1>11. ASSUME NEW i \in 1..l PROVE g[i - 1] = q[i]
  BY <1>1, <1>2, <1>4, <1>5
<1> QED
  BY <1>3, <1>10, <1>11

(* The list of waiting threads is a proper queue of exactly the threads    *)
(* that sleep or are about to: under any interleaving of lockSlow() and    *)
(* unlockSlow(), for any finite number of threads, it has no cycle and no  *)
(* thread twice, no sleeper is forgotten, and the tail that the next       *)
(* locker appends to is the last thread.                                   *)
THEOREM QueueSound == IsFiniteSet(Threads) => (Spec => []QueueIsSound)
<1>1. IsFiniteSet(Threads) /\ WordInv /\ QueueInv => QueueIsSound
  <2> SUFFICES ASSUME IsFiniteSet(Threads), WordInv, QueueInv PROVE QueueIsSound
    OBVIOUS
  <2>1. PICK q : QueueOf(q)
    BY DEF QueueInv
  <2>2. WaitQueue = q
    BY <2>1, WaitQueueIs
  <2>3. /\ Len(q) \in Nat /\ DOMAIN q = 1 .. Len(q) /\ q \in Seq(Threads)
        /\ \A i \in DOMAIN q : q[i] \in Threads /\ Queued(q[i])
        /\ \A i, j \in DOMAIN q : q[i] = q[j] => i = j
        /\ q = <<>> <=> Len(q) = 0
    BY <2>1, QueueFacts
  <2> DEFINE members == {q[i] : i \in DOMAIN q}
  <2>4. Cardinality(members) = Len(q)
    <3>1. q \in [1..Len(q) -> members]
      BY <2>3
    <3>2. q \in Injection(1..Len(q), members)
      BY <2>3, <3>1 DEF Injection, IsInjective
    <3>3. q \in Surjection(1..Len(q), members)
      BY <2>3, <3>1 DEF Surjection
    <3>4. members \in SUBSET Threads
      BY <2>3
    <3> HIDE DEF members
    <3>5. IsFiniteSet(members)
      BY <3>4, FS_Subset
    <3>6. Cardinality(1..Len(q)) = Cardinality(members)
      BY <3>2, <3>3, <3>5, FS_Injection
    <3>7. Cardinality(1..Len(q)) = Len(q)
      <4>1. \A n \in Nat : Cardinality(1..n) = n
        BY FS_Interval
      <4> QED
        BY <2>3, <4>1
    <3> QED
      BY <3>6, <3>7
  <2>5. members = {t \in Threads :
                /\ pc[t] \in {"setTail", "reloadQueued", "releaseQueue", "park", "parked"}
                /\ shouldPark[t]
                /\ ~\E u \in Threads : Waking(u) /\ queueHead[u] = t}
    <3>1. \A t \in Threads : Queued(t) <=> t \in members
      BY <2>1 DEF QueueOf
    <3>2. \A t \in members : t \in Threads
      BY <2>3
    <3> HIDE DEF members
    <3> QED
      BY <3>1, <3>2 DEF Queued, Woken
  <2>6. (Len(q) > 0 /\ \A t \in Threads : pc[t] # "setTail") => queueTail[q[1]] = q[Len(q)]
    BY <2>1, <2>3 DEF QueueOf, Tailed
  <2> QED
    BY <2>2, <2>4, <2>5, <2>6 DEF QueueIsSound
<1> SUFFICES ASSUME IsFiniteSet(Threads) PROVE Spec => []QueueIsSound
  OBVIOUS
<1>2. WordInv /\ QueueInv => QueueIsSound
  BY <1>1
<1> QED
  BY <1>2, QueueInvariant, PTL

(* First come, first served: every step of every thread leaves the queue   *)
(* of waiting threads alone, appends one thread to it or takes its first   *)
(* thread off.                                                             *)
THEOREM QueueFIFO == IsFiniteSet(Threads) => (Spec => QueueIsFIFO)
<1> DEFINE Turn == \/ WaitQueue' = WaitQueue
                   \/ \E t \in Threads : WaitQueue' = Append(WaitQueue, t)
                   \/ WaitQueue # <<>> /\ WaitQueue' = Tail(WaitQueue)
<1>1. (\A q : IsFiniteSet(Threads) /\ QueueOf(q) => WaitQueue = q)'
  BY WaitQueueIs, PTL
<1> SUFFICES ASSUME IsFiniteSet(Threads) PROVE Spec => QueueIsFIFO
  OBVIOUS
<1>2. WordInv /\ QueueInv /\ [Next]_vars => [Turn]_vars
  <2> SUFFICES ASSUME WordInv, QueueInv, [Next]_vars PROVE Turn
    OBVIOUS
  <2>1. PICK q : QueueOf(q)
    BY DEF QueueInv
  <2>2. QueueStep(q)
    BY <2>1, QueueNext DEF QueueInv
  <2>3. PICK r : Follows(r, q) /\ QueueOf(r)'
    BY <2>2 DEF QueueStep
  <2>4. WaitQueue = q
    BY <2>1, WaitQueueIs
  <2>5. WaitQueue' = r
    BY <1>1, <2>3
  <2> QED
    BY <2>3, <2>4, <2>5 DEF Follows
<1>3. QueueIsFIFO <=> [][Turn]_vars
  BY DEF QueueIsFIFO
<1> QED
  BY <1>2, <1>3, QueueInvariant, PTL DEF Spec
=============================================================================
