--------------------------- MODULE MCSearchTree ---------------------------
(* Values of the constants for TLC. *)
EXTENDS SearchTree, TLC

CONSTANTS a, b

Maps == {a, b}

\* The smallest tree in which a repair after an erasure first goes up and
\* then rotates has ten nodes
Keys == 1 .. 10

Symmetry == Permutations(Maps)

=============================================================================
