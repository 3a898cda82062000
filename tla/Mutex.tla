-------------------------------- MODULE Mutex --------------------------------
(***************************************************************************)
(* What WTF promises of its locks (WordLock.h, Lock.h): lock() returns in  *)
(* at most one thread at a time, and only unlock() by that thread lets the *)
(* next one in. The two lock algorithms, WordLock and Lock, are shown to   *)
(* implement this specification; ParkingLot and Condition then use it for  *)
(* the locks they hold.                                                    *)
(***************************************************************************)
CONSTANT Threads

VARIABLE
    mode    \* "out": not in lock(); "waiting": inside lock(); "in": lock() has
            \* returned and the release in unlock() has not happened yet

Init == mode = [t \in Threads |-> "out"]

(* lock() did not succeed at its first attempt.                            *)
Request(t) ==
    /\ mode[t] = "out"
    /\ mode' = [mode EXCEPT ![t] = "waiting"]

(* Barging is allowed: nothing is said of who gets the lock.               *)
Acquire(t) ==
    /\ mode[t] \in {"out", "waiting"}
    /\ \A u \in Threads : mode[u] # "in"
    /\ mode' = [mode EXCEPT ![t] = "in"]

Release(t) ==
    /\ mode[t] = "in"
    /\ mode' = [mode EXCEPT ![t] = "out"]

Next == \E t \in Threads : Request(t) \/ Acquire(t) \/ Release(t)

Spec == Init /\ [][Next]_mode
=============================================================================
