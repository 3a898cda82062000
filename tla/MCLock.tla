------------------------------- MODULE MCLock --------------------------------
(* Lock for TLC.                                                           *)
EXTENDS Lock

CONSTANTS t1, t2, t3

ThreeThreads == {t1, t2, t3}
=============================================================================
