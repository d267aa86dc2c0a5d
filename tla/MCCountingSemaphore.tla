------------------------ MODULE MCCountingSemaphore ------------------------
(* Values of the constants for TLC. *)
EXTENDS CountingSemaphore, TLC

CONSTANTS t1, t2, t3

Threads3 == {t1, t2, t3}

\* Threads are interchangeable
Symmetry == Permutations(Threads3)

=============================================================================
