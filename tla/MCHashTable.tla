---------------------------- MODULE MCHashTable ----------------------------
(* Values of the constants for TLC. *)
EXTENDS HashTable

CONSTANTS a, c

Tables == {a, c}

\* Keys that share a bucket of 2, of 4 and of 8, and keys that do not
Keys == {0, 1, 2, 4, 8}
Hashes == [k \in Keys |-> k]

Symmetry == Permutations(Tables)

=============================================================================
