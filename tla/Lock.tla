-------------------------------- MODULE Lock ---------------------------------
(***************************************************************************)
(* WTF::Lock (Lock.h, Lock.cpp): an adaptive mutex in one byte. One bit    *)
(* says that the lock is held, the other one that threads may be parked on *)
(* the byte's address in the ParkingLot, which is used here as the queue   *)
(* that ParkingQueues describes. A step is one access to the byte or one   *)
(* visit to the queue, whose lock covers the validation in                 *)
(* compareAndPark() and the callback of unparkOne().                       *)
(***************************************************************************)
EXTENDS Naturals, Sequences, Functions

CONSTANTS
    Threads,
    spinLimit   \* how often lockSlow() spins before it parks (40)

ASSUME SpinLimitAssumption == spinLimit \in Nat

VARIABLES
    m_byte,             \* the bits that are set
    queue,              \* the threads parked on &m_byte
    pc,                 \* where each thread is
    currentByteValue,   \* locals of lockSlow()
    spinCount

locals == <<currentByteValue, spinCount>>
vars == <<m_byte, queue, pc, locals>>

HeldAndParked == {"isHeld", "hasParked"}

Goto(t, label) == pc' = [pc EXCEPT ![t] = label]
Step(t, from, to) == pc[t] = from /\ Goto(t, to)
Read(t, b) == currentByteValue' = [currentByteValue EXCEPT ![t] = b]

(* m_byte.compareExchangeWeak(expected, new) when it succeeds.             *)
CAS(expected, new) == m_byte = expected /\ m_byte' = new

Init ==
    /\ m_byte = {}
    /\ queue = <<>>
    /\ pc = [t \in Threads |-> "idle"]
    /\ currentByteValue = [t \in Threads |-> {}]
    /\ spinCount = [t \in Threads |-> 0]
-----------------------------------------------------------------------------
(***************************************************************************)
(* tryLock(), lock() and lockSlow().                                       *)
(***************************************************************************)

TryLock(t) ==
    /\ pc[t] \in {"idle", "tryLoad"}
    /\ IF "isHeld" \in m_byte THEN Goto(t, "idle") /\ UNCHANGED currentByteValue
       ELSE Goto(t, "tryAcquire") /\ Read(t, m_byte)
    /\ UNCHANGED <<m_byte, queue, spinCount>>

(* Mutant: tryLock() does not check its compare-and-swap.                  *)
TryAcquireAnyway(t) ==
    /\ Step(t, "tryAcquire", "held")
    /\ m_byte' = m_byte \cup {"isHeld"}
    /\ Read(t, {})
    /\ UNCHANGED <<queue, spinCount>>

TryAcquire(t) ==
    /\ \/ /\ Step(t, "tryAcquire", "held")
          /\ CAS(currentByteValue[t], currentByteValue[t] \cup {"isHeld"})
       \/ Step(t, "tryAcquire", "tryLoad") /\ UNCHANGED m_byte
    /\ Read(t, {})
    /\ UNCHANGED <<queue, spinCount>>

LockFast(t) ==
    /\ \/ Step(t, "idle", "held") /\ CAS({}, {"isHeld"})
       \/ Step(t, "idle", "load") /\ UNCHANGED m_byte
    /\ UNCHANGED <<queue, locals>>

(* With b the value just read and no barging: spin while nobody is parked  *)
(* and spins are left, else make sure that the parked bit is set and park. *)
SpinOrPark(t, b) ==
    \/ /\ "hasParked" \notin b /\ spinCount[t] < spinLimit
       /\ Goto(t, "load") /\ spinCount' = [spinCount EXCEPT ![t] = @ + 1]
       /\ Read(t, {})
    \/ /\ "hasParked" \notin b /\ spinCount[t] >= spinLimit
       /\ Goto(t, "setParked") /\ Read(t, b) /\ UNCHANGED spinCount
    \/ /\ "hasParked" \in b
       /\ Goto(t, "park") /\ Read(t, {}) /\ UNCHANGED spinCount

Load(t) ==
    /\ pc[t] = "load"
    /\ IF "isHeld" \in m_byte THEN SpinOrPark(t, m_byte)
       ELSE Goto(t, "acquire") /\ Read(t, m_byte) /\ UNCHANGED spinCount
    /\ UNCHANGED <<m_byte, queue>>

Acquire(t) ==
    /\ pc[t] = "acquire"
    /\ \/ /\ CAS(currentByteValue[t], currentByteValue[t] \cup {"isHeld"})
          /\ Goto(t, "held") /\ Read(t, {}) /\ spinCount' = [spinCount EXCEPT ![t] = 0]
       \/ SpinOrPark(t, currentByteValue[t]) /\ UNCHANGED m_byte
    /\ UNCHANGED queue

(* Mutant: the parked bit is stored over whatever the byte is now.         *)
SetParkedByStore(t) ==
    /\ Step(t, "setParked", "park")
    /\ m_byte' = currentByteValue[t] \cup {"hasParked"}
    /\ Read(t, {})
    /\ UNCHANGED <<queue, spinCount>>

SetParked(t) ==
    /\ \/ /\ Step(t, "setParked", "park")
          /\ CAS(currentByteValue[t], currentByteValue[t] \cup {"hasParked"})
       \/ Step(t, "setParked", "load") /\ UNCHANGED m_byte
    /\ Read(t, {})
    /\ UNCHANGED <<queue, spinCount>>

(* compareAndPark(&m_byte, isHeldBit | hasParkedBit).                      *)
Park(t) ==
    /\ \/ m_byte = HeldAndParked /\ Step(t, "park", "parked") /\ queue' = Append(queue, t)
       \/ m_byte # HeldAndParked /\ Step(t, "park", "load") /\ UNCHANGED queue
    /\ UNCHANGED <<m_byte, locals>>

(* compareAndPark() returns in a thread that has been dequeued.            *)
Unparked(t) ==
    /\ t \notin Range(queue)
    /\ Step(t, "parked", "load")
    /\ UNCHANGED <<m_byte, queue, locals>>
-----------------------------------------------------------------------------
(***************************************************************************)
(* unlock() and unlockSlow().                                              *)
(***************************************************************************)

UnlockFast(t) ==
    /\ \/ Step(t, "held", "idle") /\ CAS({"isHeld"}, {})
       \/ Step(t, "held", "unlockLoad") /\ UNCHANGED m_byte
    /\ UNCHANGED <<queue, locals>>

(* Mutant: unlockSlow() waits for the parked bit to go away.               *)
UnlockLoadSpinning(t) ==
    /\ Step(t, "unlockLoad", IF m_byte = {"isHeld"} THEN "unlockRetry" ELSE "unlockLoad")
    /\ UNCHANGED <<m_byte, queue, locals>>

UnlockLoad(t) ==
    /\ Step(t, "unlockLoad", IF m_byte = {"isHeld"} THEN "unlockRetry" ELSE "unparkOne")
    /\ UNCHANGED <<m_byte, queue, locals>>

UnlockRetry(t) ==
    /\ \/ Step(t, "unlockRetry", "idle") /\ CAS({"isHeld"}, {})
       \/ Step(t, "unlockRetry", "unlockLoad") /\ UNCHANGED m_byte
    /\ UNCHANGED <<queue, locals>>

(* Mutant: the callback clears the parked bit although others are parked.  *)
UnparkOneClears(t) ==
    /\ Step(t, "unparkOne", "idle")
    /\ queue' = IF queue = <<>> THEN <<>> ELSE Tail(queue)
    /\ m_byte' = {}
    /\ UNCHANGED locals

(* unparkOne(&m_byte, callback). There may be more threads although this   *)
(* queue is empty now: those of other addresses in the same bucket.        *)
UnparkOne(t) ==
    /\ Step(t, "unparkOne", "idle")
    /\ queue' = IF queue = <<>> THEN <<>> ELSE Tail(queue)
    /\ \E mayHaveMoreThreads \in BOOLEAN :
           /\ queue = <<>> => ~mayHaveMoreThreads
           /\ queue' # <<>> => mayHaveMoreThreads
           /\ m_byte' = IF mayHaveMoreThreads THEN {"hasParked"} ELSE {}
    /\ UNCHANGED locals
-----------------------------------------------------------------------------
(* What thread t does once it is inside lock() or holds the lock.          *)
Run(t) ==
    \/ Load(t) \/ Acquire(t) \/ SetParked(t) \/ Park(t) \/ Unparked(t)
    \/ UnlockFast(t) \/ UnlockLoad(t) \/ UnlockRetry(t) \/ UnparkOne(t)

Next == \E t \in Threads : TryLock(t) \/ TryAcquire(t) \/ LockFast(t) \/ Run(t)

Spec == Init /\ [][Next]_vars

(* As for WordLock: threads are scheduled fairly, except that nothing      *)
(* makes them ask for the lock, and a weak CAS that finds the expected     *)
(* byte over and over again does not fail each time.                       *)
FairSpec ==
    /\ Spec
    /\ \A t \in Threads : WF_vars(Run(t)) /\ SF_vars(Run(t) /\ m_byte' # m_byte)
-----------------------------------------------------------------------------
(***************************************************************************)
(* Properties.                                                             *)
(***************************************************************************)

(* lock() or tryLock() has returned in t and unlock() has not released the *)
(* byte yet.                                                               *)
Holding(t) == pc[t] \in {"held", "unlockLoad", "unlockRetry", "unparkOne"}

(* The RELEASE_ASSERT and the ASSERTs of unlockSlow(): whoever holds the   *)
(* lock finds isHeldBit set, and once it has seen hasParkedBit nobody else *)
(* clears it before its callback does.                                     *)
UnlockAsserts == \A t \in Threads :
    /\ pc[t] \in {"unlockLoad", "unlockRetry"} => m_byte \in {{"isHeld"}, HeldAndParked}
    /\ pc[t] = "unparkOne" => m_byte = HeldAndParked

(* While threads are parked the parked bit is set, so that the fast path   *)
(* of unlock() cannot forget them.                                         *)
ParkedBitIsSet == queue # <<>> => "hasParked" \in m_byte

(* While a thread waits the lock keeps being handed on.                    *)
LockIsHandedOn == \A t \in Threads :
    pc[t] \in {"load", "park", "parked"} ~> \E u \in Threads : pc[u] = "held"

(* Lock implements Mutex.                                                  *)
M == INSTANCE Mutex WITH
    mode <- [t \in Threads |->
                IF Holding(t) THEN "in"
                ELSE IF pc[t] \in {"idle", "tryLoad", "tryAcquire"} THEN "out" ELSE "waiting"]
ImplementsMutex == M!Spec
=============================================================================
