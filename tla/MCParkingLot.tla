---------------------------- MODULE MCParkingLot -----------------------------
(***************************************************************************)
(* ParkingLot for TLC. The factors that decide when the table grows are    *)
(* small, so that the second thread that parks makes it grow.              *)
(***************************************************************************)
EXTENDS ParkingLot, TLC

CONSTANTS t1, t2, t3, a1, a2

ThreeThreads == {t1, t2, t3}
OneAddress == {a1}
TwoAddresses == {a1, a2}

(* a1 and a2 share a slot in tables of 1 and 2, where the queue of a       *)
(* bucket mixes them, and part in a table of 4.                            *)
CollidingHashes == [a \in Addresses \cup {Null} |-> IF a = a1 THEN 1 ELSE 3]

(* Buckets are not allocated in the order of their addresses.              *)
Scrambled == [n \in 1 .. 40 |-> IF n % 2 = 0 THEN n ELSE 100 - n]

(* Two threads park, the third one unparks them.                           *)
Sleepers == {t1, t2}
SleepersAndWaker == [t \in Threads |-> IF t \in Sleepers THEN {"park"} ELSE UnparkCalls]

(* A thread parks, and unparks others from its beforeSleep(); the second   *)
(* one parks, walks through the table and exits; the third one walks.      *)
ParkUnparkAndWalk ==
    [t \in Threads |-> CASE t = t1 -> {"park", "unparkOneCallback"}
                         [] t = t2 -> {"park", "forEach", "exit"}
                         [] t = t3 -> {"forEach"}]

Symmetry == Permutations(Sleepers)
=============================================================================
