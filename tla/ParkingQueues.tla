---------------------------- MODULE ParkingQueues ----------------------------
(***************************************************************************)
(* What ParkingLot promises its callers (ParkingLot.h): a FIFO queue of    *)
(* parked threads for every address. A thread stays in parkConditionally() *)
(* while it is on a queue; it leaves the queue because it is unparked, or  *)
(* because its timeout fires. Nothing is said of hash tables and buckets.  *)
(* ParkingLot is shown to implement this specification, under the          *)
(* hypotheses of its theorems; the queues that Lock and Condition park in  *)
(* are written after it.                                                   *)
(***************************************************************************)
EXTENDS SequencesExt

CONSTANTS Threads, Addresses

VARIABLES
    queue,      \* the threads parked on each address, in the order they came
    status      \* "out" of parkConditionally(), "parked" on a queue, or
                \* "unparked": off the queue, about to return true

Init ==
    /\ queue = [a \in Addresses |-> <<>>]
    /\ status = [t \in Threads |-> "out"]

(* parkConditionally() whose validation has succeeded.                     *)
Park(t, a) ==
    /\ status[t] = "out"
    /\ status' = [status EXCEPT ![t] = "parked"]
    /\ queue' = [queue EXCEPT ![a] = Append(@, t)]

UnparkOne(a) ==
    /\ queue[a] # <<>>
    /\ status' = [status EXCEPT ![Head(queue[a])] = "unparked"]
    /\ queue' = [queue EXCEPT ![a] = Tail(@)]

UnparkAll(a) ==
    /\ queue[a] # <<>>
    /\ status' = [t \in Threads |-> IF t \in Range(queue[a]) THEN "unparked" ELSE status[t]]
    /\ queue' = [queue EXCEPT ![a] = <<>>]

(* parkConditionally() returns true ...                                    *)
Return(t) ==
    /\ status[t] = "unparked"
    /\ status' = [status EXCEPT ![t] = "out"]
    /\ UNCHANGED queue

(* ... or gives up its place in the queue to return false.                 *)
TimeOut(t, a) == \E i \in 1 .. Len(queue[a]) :
    /\ status[t] = "parked" /\ queue[a][i] = t
    /\ status' = [status EXCEPT ![t] = "out"]
    /\ queue' = [queue EXCEPT ![a] = RemoveAt(@, i)]

Next ==
    \/ \E a \in Addresses : UnparkOne(a) \/ UnparkAll(a)
    \/ \E t \in Threads : Return(t) \/ \E a \in Addresses : Park(t, a) \/ TimeOut(t, a)

Spec == Init /\ [][Next]_<<queue, status>>
=============================================================================
