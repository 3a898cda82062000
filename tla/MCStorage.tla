------------------------------ MODULE MCStorage ------------------------------
(* Storage for TLC. Keys share nothing but the queues, which several       *)
(* operations on one key fill just as well.                                *)
EXTENDS Storage

CONSTANT k1

OneKey == {k1}
===============================================================================
