----------------------------- MODULE MCWorkers -----------------------------
(* Values of the constants for TLC. *)
EXTENDS Workers, TLC

CONSTANTS t1, t2, o1, o2, m1, m2, v1, v2, h1, h2, w1, w2, b1, b2

Threads == {t1, t2}
Objects == {o1, o2}
Mutexes == {m1, m2}
Variables == {v1, v2}
Shareds == {h1, h2}
Weaks == {w1, w2}
Blocks == {b1, b2}

\* So are h1 and h2, and w1 and w2, but more permutations would take longer
\* to try than they save
Symmetry ==
  Permutations(Threads) \cup Permutations(Objects) \cup Permutations(Mutexes)
    \cup Permutations(Variables) \cup Permutations(Blocks)

=============================================================================
