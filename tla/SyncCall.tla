------------------------------- MODULE SyncCall -------------------------------
(***************************************************************************)
(* What Connection::sendSync() promises: the request is handled at most    *)
(* once, and the caller gets an answer only if its own request has been    *)
(* handled to the end. A call may fail at any moment, whatever the handler *)
(* does: the connection closes, or the caller stops waiting.               *)
(***************************************************************************)
EXTENDS Naturals, Sequences

CONSTANT Endpoints   \* the ends of the connections that calls are made on

VARIABLE calls       \* the calls made on each endpoint, by request ID

NewCall == [caller |-> "waiting", handler |-> "none"]

Call ==
    [caller : {"waiting", "answered", "failed"},
     handler : {"none", "running", "done"}]

Init == calls = [c \in Endpoints |-> <<>>]

Begin(c) == calls' = [calls EXCEPT ![c] = Append(@, NewCall)]

(* The request could not even be made.                                     *)
Refuse(c) ==
    calls' = [calls EXCEPT ![c] = Append(@, [NewCall EXCEPT !.caller = "failed"])]

Handle(c, id) ==
    /\ calls[c][id].handler = "none"
    /\ calls' = [calls EXCEPT ![c][id].handler = "running"]

Finish(c, id) ==
    /\ calls[c][id].handler = "running"
    /\ calls' = [calls EXCEPT ![c][id].handler = "done"]

Answer(c, id) ==
    /\ calls[c][id] = [caller |-> "waiting", handler |-> "done"]
    /\ calls' = [calls EXCEPT ![c][id].caller = "answered"]

Fail(c, id) ==
    /\ calls[c][id].caller = "waiting"
    /\ calls' = [calls EXCEPT ![c][id].caller = "failed"]

Next ==
    \E c \in Endpoints :
        \/ Begin(c) \/ Refuse(c)
        \/ \E id \in DOMAIN calls[c] :
               Handle(c, id) \/ Finish(c, id) \/ Answer(c, id) \/ Fail(c, id)

Spec == Init /\ [][Next]_calls
===============================================================================
