---------------------------- MODULE MCWordLock -----------------------------
(* Instances of WordLock for TLC.                                          *)
EXTENDS WordLock

CONSTANTS t1, t2, t3

ThreeThreads == {t1, t2, t3}
=============================================================================
