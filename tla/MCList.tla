------------------------------- MODULE MCList -------------------------------
(* Values of the constants for TLC. *)
EXTENDS List

CONSTANTS list1, list2

Lists == {list1, list2}

\* Two pairs of elements of one value, and one that is its own copy
Elems == 1 .. 5
Ranks == [e \in Elems |-> e % 3]
Twins == << 4, 5, 3, 1, 2 >>

=============================================================================
