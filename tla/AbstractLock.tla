---------------------------- MODULE AbstractLock ----------------------------
(***************************************************************************)
(* What the Lockable types of the library promise their clients, with no   *)
(* mutex, no condition variable and no clock: a lock that one thread holds *)
(* up to MaxDepth times over.  A request is granted in one step, and only  *)
(* while nobody else holds the lock; a try_lock or a timed request may be  *)
(* refused, and only while the lock cannot be granted.                     *)
(* timed_mutex implements it with MaxDepth = 1, recursive_timed_mutex with *)
(* MaxDepth = UINT_MAX.                                                    *)
(***************************************************************************)
EXTENDS Naturals

CONSTANTS Thread,    \* the threads of the program
          NoThread,  \* nobody, as a holder
          MaxDepth   \* how often one thread may hold the lock over

VARIABLES holder,    \* the thread that holds the lock, or NoThread
          depth,     \* how often it holds it; 0 when nobody does
          request    \* the call each thread is in: "none" or a Kind

absVars == << holder, depth, request >>

Kind == {"lock", "try", "timed"}

AbsInit ==
  /\ holder = NoThread
  /\ depth = 0
  /\ request = [t \in Thread |-> "none"]

\* Nobody holds the lock, or t does and may hold it once more
Grantable(t) == \/ holder = NoThread
                \/ holder = t /\ depth < MaxDepth

Request(t, k) ==
  /\ request[t] = "none"
  /\ request' = [request EXCEPT ![t] = k]
  /\ UNCHANGED << holder, depth >>

Grant(t) ==
  /\ request[t] \in Kind
  /\ Grantable(t)
  /\ holder' = t
  /\ depth' = depth + 1
  /\ request' = [request EXCEPT ![t] = "none"]

\* try_lock and try_lock_until return false, or a lock at its recursion
\* limit throws
Refuse(t) ==
  /\ request[t] \in Kind
  /\ ~Grantable(t)
  /\ request[t] = "lock" => holder = t
  /\ request' = [request EXCEPT ![t] = "none"]
  /\ UNCHANGED << holder, depth >>

Release(t) ==
  /\ request[t] = "none"
  /\ holder = t
  /\ depth' = depth - 1
  /\ holder' = IF depth = 1 THEN NoThread ELSE holder
  /\ UNCHANGED request

AbsNext ==
  \E t \in Thread : \/ \E k \in Kind : Request(t, k)
                    \/ Grant(t)
                    \/ Refuse(t)
                    \/ Release(t)

AbsSpec == AbsInit /\ [][AbsNext]_absVars

=============================================================================
