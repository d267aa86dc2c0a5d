---------------------------- MODULE MCSharedPtr ----------------------------
(* Values of the constants for TLC. *)
EXTENDS SharedPtr, TLC

CONSTANTS t1, t2, h1, h2, w1, w2, b1, b2

Threads == {t1, t2}
Shareds == {h1, h2}
Weaks == {w1, w2}
Blocks == {b1, b2}

\* Threads, variables and control blocks are interchangeable
Symmetry ==
  Permutations(Threads) \cup Permutations(Shareds)
    \cup Permutations(Weaks) \cup Permutations(Blocks)

=============================================================================
