---------------------------- MODULE MCMultiLock ----------------------------
(* Values of the constants for TLC. *)
EXTENDS MultiLock

CONSTANTS t1, t2, a, b, c

Threads2 == {t1, t2}
Mutexes3 == {a, b, c}

\* Every order of every two or three of three mutexes
AllOrders ==
  UNION {{s \in [1..n -> Mutexes3] :
            \A i, j \in 1..n : s[i] = s[j] => i = j} : n \in {2, 3}}

=============================================================================
