----------------------------- MODULE MCCondition -----------------------------
(* Condition for TLC.                                                      *)
EXTENDS Condition

CONSTANTS t1, t2, t3

ThreeThreads == {t1, t2, t3}
=============================================================================
