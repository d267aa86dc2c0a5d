----------------------- MODULE MCConditionVariableAny -----------------------
(* Values of the constants for TLC. *)
EXTENDS ConditionVariableAny

CONSTANTS t1, t2, t3

Threads3 == {t1, t2, t3}

=============================================================================
