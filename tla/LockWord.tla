------------------------------ MODULE LockWord ------------------------------
(* The unsigned word _locked that timed_mutex and recursive_timed_mutex     *)
(* keep: what it can hold.                                                  *)
EXTENDS Naturals

CONSTANT UINT_MAX    \* the largest number it can hold

ASSUME UintMaxAssumption == UINT_MAX \in Nat \ {0}

=============================================================================
