----------------------------- MODULE LockProofs -----------------------------
(***************************************************************************)
(* Proofs about Lock, for any set of threads and any spin limit.           *)
(***************************************************************************)
EXTENDS Lock, SequenceFacts

(***************************************************************************)
(* The inductive invariant behind the theorems.                            *)
(***************************************************************************)

Labels ==
    {"idle", "tryLoad", "tryAcquire", "load", "acquire", "setParked", "park",
     "parked", "held", "unlockLoad", "unlockRetry", "unparkOne"}

TypeOK ==
    /\ m_byte \in SUBSET HeldAndParked
    /\ queue \in Seq(Threads)
    /\ pc \in [Threads -> Labels]
    /\ currentByteValue \in [Threads -> SUBSET HeldAndParked]
    /\ spinCount \in [Threads -> Nat]

(* The held bit is set while, and only while, one thread is between the    *)
(* acquisition and the release.                                            *)
HolderInv ==
    /\ \A t, u \in Threads : Holding(t) /\ Holding(u) => t = u
    /\ "isHeld" \in m_byte <=> \E t \in Threads : Holding(t)

(* A byte that somebody wants to acquire was free when it was read.        *)
LocalsInv == \A t \in Threads :
    pc[t] \in {"acquire", "tryAcquire"} => "isHeld" \notin currentByteValue[t]

(* Whoever has decided to unpark has seen the parked bit.                  *)
UnparkInv == \A t \in Threads : pc[t] = "unparkOne" => "hasParked" \in m_byte

(* A thread is on the queue at most once, and waits while it is there.     *)
QueueInv ==
    /\ IsInjective(queue)
    /\ \A t \in Range(queue) : pc[t] = "parked"

LockInv == TypeOK /\ HolderInv /\ LocalsInv /\ UnparkInv /\ QueueInv /\ ParkedBitIsSet



-----------------------------------------------------------------------------

(* Spinning or parking keeps the locals of lockSlow() well typed.          *)
LEMMA SpinOrParkType ==
    ASSUME TypeOK, NEW t \in Threads, NEW b \in SUBSET HeldAndParked, SpinOrPark(t, b)
    PROVE  /\ pc' \in [Threads -> Labels]
           /\ currentByteValue' \in [Threads -> SUBSET HeldAndParked]
           /\ spinCount' \in [Threads -> Nat]
<1> USE SpinLimitAssumption DEF TypeOK, SpinOrPark, Goto, Read
<1>1. pc' \in [Threads -> Labels]
  BY DEF Labels
<1>2. currentByteValue' \in [Threads -> SUBSET HeldAndParked]
  <2>1. \E c \in SUBSET HeldAndParked : currentByteValue' = [currentByteValue EXCEPT ![t] = c]
    BY Zenon
  <2> QED
    BY <2>1
<1>3. spinCount' \in [Threads -> Nat]
  <2>1. \E n \in Nat : spinCount' = [spinCount EXCEPT ![t] = n] \/ spinCount' = spinCount
    OBVIOUS
  <2> QED
    BY <2>1
<1> QED
  BY <1>1, <1>2, <1>3

LEMMA TypeStep == TypeOK /\ [Next]_vars => TypeOK'
<1> SUFFICES ASSUME TypeOK, [Next]_vars PROVE TypeOK'
  OBVIOUS
<1> USE DEF TypeOK, Labels, HeldAndParked, Step, Goto, Read, CAS, locals
<1>1. ASSUME NEW t \in Threads, TryLock(t) PROVE TypeOK'
  BY <1>1 DEF TryLock
<1>2. ASSUME NEW t \in Threads, TryAcquire(t) PROVE TypeOK'
  BY <1>2 DEF TryAcquire
<1>3. ASSUME NEW t \in Threads, LockFast(t) PROVE TypeOK'
  BY <1>3 DEF LockFast
<1>4. ASSUME NEW t \in Threads, Load(t) PROVE TypeOK'
  BY <1>4, SpinOrParkType DEF Load
<1>5. ASSUME NEW t \in Threads, Acquire(t) PROVE TypeOK'
  <2>1. CASE SpinOrPark(t, currentByteValue[t]) /\ UNCHANGED m_byte
    BY <1>5, <2>1, SpinOrParkType DEF Acquire
  <2>2. ASSUME CAS(currentByteValue[t], currentByteValue[t] \cup {"isHeld"}), Goto(t, "held"),
               Read(t, {}), spinCount' = [spinCount EXCEPT ![t] = 0]
        PROVE  TypeOK'
    BY <1>5, <2>2 DEF Acquire
  <2> QED
    BY <1>5, <2>1, <2>2 DEF Acquire
<1>6. ASSUME NEW t \in Threads, SetParked(t) PROVE TypeOK'
  BY <1>6 DEF SetParked
<1>7. ASSUME NEW t \in Threads, Park(t) PROVE TypeOK'
  <2>1. Append(queue, t) \in Seq(Threads)
    BY AppendFacts
  <2> QED
    BY <1>7, <2>1 DEF Park
<1>8. ASSUME NEW t \in Threads, Unparked(t) PROVE TypeOK'
  BY <1>8 DEF Unparked
<1>9. ASSUME NEW t \in Threads, UnlockFast(t) PROVE TypeOK'
  BY <1>9 DEF UnlockFast
<1>10. ASSUME NEW t \in Threads, UnlockLoad(t) PROVE TypeOK'
  BY <1>10 DEF UnlockLoad
<1>11. ASSUME NEW t \in Threads, UnlockRetry(t) PROVE TypeOK'
  BY <1>11 DEF UnlockRetry
<1>12. ASSUME NEW t \in Threads, UnparkOne(t) PROVE TypeOK'
  BY <1>12, TailFacts DEF UnparkOne
<1>13. CASE UNCHANGED vars
  BY <1>13 DEF vars
<1> QED
  BY <1>1, <1>2, <1>3, <1>4, <1>5, <1>6, <1>7, <1>8, <1>9, <1>10, <1>11, <1>12, <1>13 DEF Next, Run

(* The byte can only be acquired when it is free, and only be released by  *)
(* the holder.                                                             *)
LEMMA HolderStep == TypeOK /\ HolderInv /\ LocalsInv /\ [Next]_vars => HolderInv'
<1> SUFFICES ASSUME TypeOK, HolderInv, LocalsInv, [Next]_vars PROVE HolderInv'
  OBVIOUS
<1> USE DEF TypeOK, HolderInv, Holding, HeldAndParked, Step, Goto, CAS, SpinOrPark, locals
<1>1. ASSUME NEW t \in Threads, TryLock(t) PROVE HolderInv'
  BY <1>1 DEF TryLock
<1>2. ASSUME NEW t \in Threads, TryAcquire(t) PROVE HolderInv'
  BY <1>2 DEF TryAcquire, LocalsInv
<1>3. ASSUME NEW t \in Threads, LockFast(t) PROVE HolderInv'
  BY <1>3 DEF LockFast
<1>4. ASSUME NEW t \in Threads, Load(t) PROVE HolderInv'
  BY <1>4 DEF Load
<1>5. ASSUME NEW t \in Threads, Acquire(t) PROVE HolderInv'
  BY <1>5 DEF Acquire, LocalsInv
<1>6. ASSUME NEW t \in Threads, SetParked(t) PROVE HolderInv'
  BY <1>6 DEF SetParked
<1>7. ASSUME NEW t \in Threads, Park(t) PROVE HolderInv'
  BY <1>7 DEF Park
<1>8. ASSUME NEW t \in Threads, Unparked(t) PROVE HolderInv'
  BY <1>8 DEF Unparked
<1>9. ASSUME NEW t \in Threads, UnlockFast(t) PROVE HolderInv'
  BY <1>9 DEF UnlockFast
<1>10. ASSUME NEW t \in Threads, UnlockLoad(t) PROVE HolderInv'
  BY <1>10 DEF UnlockLoad
<1>11. ASSUME NEW t \in Threads, UnlockRetry(t) PROVE HolderInv'
  BY <1>11 DEF UnlockRetry
<1>12. ASSUME NEW t \in Threads, UnparkOne(t) PROVE HolderInv'
  BY <1>12 DEF UnparkOne
<1>13. CASE UNCHANGED vars
  BY <1>13 DEF vars
<1> QED
  BY <1>1, <1>2, <1>3, <1>4, <1>5, <1>6, <1>7, <1>8, <1>9, <1>10, <1>11, <1>12, <1>13 DEF Next, Run

LEMMA LocalsStep == TypeOK /\ LocalsInv /\ [Next]_vars => LocalsInv'
<1> SUFFICES ASSUME TypeOK, LocalsInv, [Next]_vars PROVE LocalsInv'
  OBVIOUS
<1> USE DEF TypeOK, LocalsInv, Step, Goto, Read, CAS, SpinOrPark, locals
<1>1. ASSUME NEW t \in Threads, TryLock(t) PROVE LocalsInv'
  BY <1>1 DEF TryLock
<1>2. ASSUME NEW t \in Threads, TryAcquire(t) PROVE LocalsInv'
  BY <1>2 DEF TryAcquire
<1>3. ASSUME NEW t \in Threads, LockFast(t) PROVE LocalsInv'
  BY <1>3 DEF LockFast
<1>4. ASSUME NEW t \in Threads, Load(t) PROVE LocalsInv'
  BY <1>4 DEF Load
<1>5. ASSUME NEW t \in Threads, Acquire(t) PROVE LocalsInv'
  BY <1>5 DEF Acquire
<1>6. ASSUME NEW t \in Threads, SetParked(t) PROVE LocalsInv'
  BY <1>6 DEF SetParked
<1>7. ASSUME NEW t \in Threads, Park(t) PROVE LocalsInv'
  BY <1>7 DEF Park
<1>8. ASSUME NEW t \in Threads, Unparked(t) PROVE LocalsInv'
  BY <1>8 DEF Unparked
<1>9. ASSUME NEW t \in Threads, UnlockFast(t) PROVE LocalsInv'
  BY <1>9 DEF UnlockFast
<1>10. ASSUME NEW t \in Threads, UnlockLoad(t) PROVE LocalsInv'
  BY <1>10 DEF UnlockLoad
<1>11. ASSUME NEW t \in Threads, UnlockRetry(t) PROVE LocalsInv'
  BY <1>11 DEF UnlockRetry
<1>12. ASSUME NEW t \in Threads, UnparkOne(t) PROVE LocalsInv'
  BY <1>12 DEF UnparkOne
<1>13. CASE UNCHANGED vars
  BY <1>13 DEF vars
<1> QED
  BY <1>1, <1>2, <1>3, <1>4, <1>5, <1>6, <1>7, <1>8, <1>9, <1>10, <1>11, <1>12, <1>13 DEF Next, Run

(* Only the holder clears the parked bit.                                  *)
LEMMA UnparkStep == TypeOK /\ HolderInv /\ LocalsInv /\ UnparkInv /\ [Next]_vars => UnparkInv'
<1> SUFFICES ASSUME TypeOK, HolderInv, LocalsInv, UnparkInv, [Next]_vars PROVE UnparkInv'
  OBVIOUS
<1> USE DEF TypeOK, HolderInv, UnparkInv, Holding, HeldAndParked, Step, Goto, CAS, SpinOrPark, locals
<1>1. ASSUME NEW t \in Threads, TryLock(t) PROVE UnparkInv'
  BY <1>1 DEF TryLock
<1>2. ASSUME NEW t \in Threads, TryAcquire(t) PROVE UnparkInv'
  BY <1>2 DEF TryAcquire, LocalsInv
<1>3. ASSUME NEW t \in Threads, LockFast(t) PROVE UnparkInv'
  BY <1>3 DEF LockFast
<1>4. ASSUME NEW t \in Threads, Load(t) PROVE UnparkInv'
  BY <1>4 DEF Load
<1>5. ASSUME NEW t \in Threads, Acquire(t) PROVE UnparkInv'
  BY <1>5 DEF Acquire, LocalsInv
<1>6. ASSUME NEW t \in Threads, SetParked(t) PROVE UnparkInv'
  BY <1>6 DEF SetParked
<1>7. ASSUME NEW t \in Threads, Park(t) PROVE UnparkInv'
  BY <1>7 DEF Park
<1>8. ASSUME NEW t \in Threads, Unparked(t) PROVE UnparkInv'
  BY <1>8 DEF Unparked
<1>9. ASSUME NEW t \in Threads, UnlockFast(t) PROVE UnparkInv'
  BY <1>9 DEF UnlockFast
<1>10. ASSUME NEW t \in Threads, UnlockLoad(t) PROVE UnparkInv'
  BY <1>10 DEF UnlockLoad
<1>11. ASSUME NEW t \in Threads, UnlockRetry(t) PROVE UnparkInv'
  BY <1>11 DEF UnlockRetry
<1>12. ASSUME NEW t \in Threads, UnparkOne(t) PROVE UnparkInv'
  BY <1>12 DEF UnparkOne
<1>13. CASE UNCHANGED vars
  BY <1>13 DEF vars
<1> QED
  BY <1>1, <1>2, <1>3, <1>4, <1>5, <1>6, <1>7, <1>8, <1>9, <1>10, <1>11, <1>12, <1>13 DEF Next, Run

(* A thread queues itself once, and only unparkOne() takes threads off.    *)
LEMMA QueueStep == TypeOK /\ QueueInv /\ [Next]_vars => QueueInv'
<1> SUFFICES ASSUME TypeOK, QueueInv, [Next]_vars PROVE QueueInv'
  OBVIOUS
<1>a. Range(queue) \subseteq Threads
  BY LenProperties DEF TypeOK, Range
<1> USE <1>a DEF TypeOK, QueueInv, Step, Goto, CAS, SpinOrPark, locals
<1>1. ASSUME NEW t \in Threads, TryLock(t) PROVE QueueInv'
  BY <1>1 DEF TryLock
<1>2. ASSUME NEW t \in Threads, TryAcquire(t) PROVE QueueInv'
  BY <1>2 DEF TryAcquire
<1>3. ASSUME NEW t \in Threads, LockFast(t) PROVE QueueInv'
  BY <1>3 DEF LockFast
<1>4. ASSUME NEW t \in Threads, Load(t) PROVE QueueInv'
  BY <1>4 DEF Load
<1>5. ASSUME NEW t \in Threads, Acquire(t) PROVE QueueInv'
  BY <1>5 DEF Acquire
<1>6. ASSUME NEW t \in Threads, SetParked(t) PROVE QueueInv'
  BY <1>6 DEF SetParked
<1>7. ASSUME NEW t \in Threads, Park(t) PROVE QueueInv'
  <2>1. CASE UNCHANGED queue
    BY <1>7, <2>1 DEF Park
  <2>2. CASE pc[t] = "park" /\ pc' = [pc EXCEPT ![t] = "parked"] /\ queue' = Append(queue, t)
    <3>1. t \notin Range(queue)
      BY <2>2
    <3>2. IsInjective(queue') /\ Range(queue') = Range(queue) \cup {t}
      BY <2>2, <3>1, AppendFacts
    <3> QED
      BY <2>2, <3>2
  <2> QED
    BY <1>7, <2>1, <2>2 DEF Park
<1>8. ASSUME NEW t \in Threads, Unparked(t) PROVE QueueInv'
  BY <1>8 DEF Unparked
<1>9. ASSUME NEW t \in Threads, UnlockFast(t) PROVE QueueInv'
  BY <1>9 DEF UnlockFast
<1>10. ASSUME NEW t \in Threads, UnlockLoad(t) PROVE QueueInv'
  BY <1>10 DEF UnlockLoad
<1>11. ASSUME NEW t \in Threads, UnlockRetry(t) PROVE QueueInv'
  BY <1>11 DEF UnlockRetry
<1>12. ASSUME NEW t \in Threads, UnparkOne(t) PROVE QueueInv'
  BY <1>12, TailFacts DEF UnparkOne
<1>13. CASE UNCHANGED vars
  BY <1>13 DEF vars
<1> QED
  BY <1>1, <1>2, <1>3, <1>4, <1>5, <1>6, <1>7, <1>8, <1>9, <1>10, <1>11, <1>12, <1>13 DEF Next, Run

(* The parked bit outlives the queue: threads only queue themselves while  *)
(* it is set, and it is cleared with the last of them.                     *)
LEMMA ParkedBitStep == TypeOK /\ HolderInv /\ ParkedBitIsSet /\ [Next]_vars => ParkedBitIsSet'
<1> SUFFICES ASSUME TypeOK, HolderInv, ParkedBitIsSet, [Next]_vars PROVE ParkedBitIsSet'
  OBVIOUS
<1> USE DEF TypeOK, HolderInv, ParkedBitIsSet, Holding, HeldAndParked, Step, Goto, CAS, SpinOrPark, locals
<1>1. ASSUME NEW t \in Threads, TryLock(t) PROVE ParkedBitIsSet'
  BY <1>1 DEF TryLock
<1>2. ASSUME NEW t \in Threads, TryAcquire(t) PROVE ParkedBitIsSet'
  BY <1>2 DEF TryAcquire
<1>3. ASSUME NEW t \in Threads, LockFast(t) PROVE ParkedBitIsSet'
  BY <1>3 DEF LockFast
<1>4. ASSUME NEW t \in Threads, Load(t) PROVE ParkedBitIsSet'
  BY <1>4 DEF Load
<1>5. ASSUME NEW t \in Threads, Acquire(t) PROVE ParkedBitIsSet'
  BY <1>5 DEF Acquire
<1>6. ASSUME NEW t \in Threads, SetParked(t) PROVE ParkedBitIsSet'
  BY <1>6 DEF SetParked
<1>7. ASSUME NEW t \in Threads, Park(t) PROVE ParkedBitIsSet'
  BY <1>7 DEF Park
<1>8. ASSUME NEW t \in Threads, Unparked(t) PROVE ParkedBitIsSet'
  BY <1>8 DEF Unparked
<1>9. ASSUME NEW t \in Threads, UnlockFast(t) PROVE ParkedBitIsSet'
  BY <1>9 DEF UnlockFast
<1>10. ASSUME NEW t \in Threads, UnlockLoad(t) PROVE ParkedBitIsSet'
  BY <1>10 DEF UnlockLoad
<1>11. ASSUME NEW t \in Threads, UnlockRetry(t) PROVE ParkedBitIsSet'
  BY <1>11 DEF UnlockRetry
<1>12. ASSUME NEW t \in Threads, UnparkOne(t) PROVE ParkedBitIsSet'
  BY <1>12 DEF UnparkOne
<1>13. CASE UNCHANGED vars
  BY <1>13 DEF vars
<1> QED
  BY <1>1, <1>2, <1>3, <1>4, <1>5, <1>6, <1>7, <1>8, <1>9, <1>10, <1>11, <1>12, <1>13 DEF Next, Run
-----------------------------------------------------------------------------
(***************************************************************************)
(* The theorems.                                                           *)
(***************************************************************************)

LEMMA LockInvInit == Init => LockInv
  BY EmptySeq DEF Init, LockInv, TypeOK, HolderInv, LocalsInv, UnparkInv, QueueInv, ParkedBitIsSet,
                  Labels, HeldAndParked, Holding, IsInjective, Range

LEMMA LockInvStep == LockInv /\ [Next]_vars => LockInv'
  BY TypeStep, HolderStep, LocalsStep, UnparkStep, QueueStep, ParkedBitStep DEF LockInv

LEMMA LockInvariant == Spec => []LockInv
  BY LockInvInit, LockInvStep, PTL DEF Spec

(* The assertions of unlockSlow() hold: whoever unlocks finds the byte     *)
(* held, and finds the parked bit it saw still set in the callback.        *)
THEOREM UnlockAssertsHold == Spec => []UnlockAsserts
<1>1. LockInv => UnlockAsserts
  <2> SUFFICES ASSUME LockInv, NEW t \in Threads
               PROVE  /\ pc[t] \in {"unlockLoad", "unlockRetry"} => m_byte \in {{"isHeld"}, HeldAndParked}
                      /\ pc[t] = "unparkOne" => m_byte = HeldAndParked
    BY DEF UnlockAsserts
  <2>1. Holding(t) => "isHeld" \in m_byte
    BY DEF LockInv, HolderInv
  <2>2. m_byte \in SUBSET {"isHeld", "hasParked"}
    BY DEF LockInv, TypeOK, HeldAndParked
  <2>3. pc[t] = "unparkOne" => "hasParked" \in m_byte
    BY DEF LockInv, UnparkInv
  <2> QED
    BY <2>1, <2>2, <2>3 DEF Holding, HeldAndParked
<1> QED
  BY <1>1, LockInvariant, PTL

(* The parked bit is set while a thread is parked, so that the fast path   *)
(* of unlock() does not forget it.                                         *)
THEOREM ParkedBitIsSetHolds == Spec => []ParkedBitIsSet
<1>1. LockInv => ParkedBitIsSet
  BY DEF LockInv
<1> QED
  BY <1>1, LockInvariant, PTL

(* Lock implements the abstract mutex: every step of a thread is a step of *)
(* Mutex by the same thread or leaves all modes alone.                     *)
THEOREM LockImplementsMutex == Spec => ImplementsMutex
<1> DEFINE Mode(t) == IF Holding(t) THEN "in"
                      ELSE IF pc[t] \in {"idle", "tryLoad", "tryAcquire"} THEN "out" ELSE "waiting"
           mode == [t \in Threads |-> Mode(t)]
<1>1. Init => M!Init
  BY DEF Init, M!Init, Holding
<1>2. LockInv /\ [Next]_vars => [M!Next]_mode
  <2> SUFFICES ASSUME LockInv, Next PROVE M!Next \/ UNCHANGED mode
    BY DEF vars, Holding
  <2>1. PICK t \in Threads : TryLock(t) \/ TryAcquire(t) \/ LockFast(t) \/ Run(t)
    BY DEF Next
  <2> USE DEF LockInv, TypeOK, Holding, Step, Goto, CAS, SpinOrPark
  <2>2. pc[t] = "idle" /\ pc' = [pc EXCEPT ![t] = "load"] => M!Request(t)
    BY DEF M!Request
  <2>3. ASSUME pc[t] \in {"idle", "tryAcquire", "acquire"}, pc' = [pc EXCEPT ![t] = "held"],
               "isHeld" \notin m_byte
        PROVE  M!Acquire(t)
    <3>1. \A u \in Threads : ~Holding(u)
      BY <2>3 DEF HolderInv
    <3> QED
      BY <2>3, <3>1 DEF M!Acquire
  <2>4. Holding(t) /\ pc' = [pc EXCEPT ![t] = "idle"] => M!Release(t)
    BY DEF M!Release
  <2>5. (\A u \in Threads : Mode(u)' = Mode(u)) => UNCHANGED mode
    OBVIOUS
  <2>6. CASE TryAcquire(t) \/ Acquire(t)
    <3>1. CASE pc'[t] = "held"
      BY <2>6, <3>1, <2>3 DEF TryAcquire, Acquire, LocalsInv, M!Next
    <3>2. CASE pc'[t] # "held"
      BY <2>6, <3>2, <2>5 DEF TryAcquire, Acquire
    <3> QED
      BY <3>1, <3>2
  <2>7. CASE LockFast(t)
    BY <2>7, <2>2, <2>3 DEF LockFast, M!Next
  <2>8. CASE UnlockFast(t) \/ UnlockRetry(t) \/ UnparkOne(t)
    <3>1. CASE pc'[t] = "idle"
      BY <2>8, <3>1, <2>4 DEF UnlockFast, UnlockRetry, UnparkOne, M!Next
    <3>2. CASE pc'[t] # "idle"
      BY <2>8, <3>2, <2>5 DEF UnlockFast, UnlockRetry, UnparkOne
    <3> QED
      BY <3>1, <3>2
  <2>9. CASE TryLock(t) \/ Load(t) \/ SetParked(t) \/ Park(t) \/ Unparked(t) \/ UnlockLoad(t)
    BY <2>9, <2>5 DEF TryLock, Load, SetParked, Park, Unparked, UnlockLoad
  <2> QED
    BY <2>1, <2>6, <2>7, <2>8, <2>9 DEF Run
<1> QED
  BY <1>1, <1>2, LockInvariant, PTL DEF Spec, ImplementsMutex, M!Spec
=============================================================================
