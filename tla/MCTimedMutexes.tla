--------------------------- MODULE MCTimedMutexes ---------------------------
(* Values of the constants for TLC. *)
EXTENDS TimedMutexes

CONSTANTS t1, t2, t3

Threads3 == {t1, t2, t3}

=============================================================================
