------------------------ MODULE RecursiveTimedMutex ------------------------
(***************************************************************************)
(* recursive_timed_mutex of c_condition_variable.h: a count _locked and    *)
(* the id _owner of the thread that holds the lock, both under a mutex,    *)
(* and a condition variable for the threads that found another owner.      *)
(* The owner may take it again, up to UINT_MAX times; at that limit lock   *)
(* throws and try_lock and try_lock_until return false.                    *)
(*                                                                         *)
(* Steps are cut as in TimedMutex.  nest is the clients' own bookkeeping:  *)
(* how many of a thread's successful calls it has not undone by unlock,    *)
(* for the precondition of unlock is that this is not 0.                   *)
(***************************************************************************)
EXTENDS Monitor, LockWord

VARIABLES locked,    \* _locked
          ownerId,   \* _owner; NoThread is the id of no thread, thread::id()
          nest,      \* calls of each thread still to be undone
          pc,        \* where each thread is
          op,        \* the locking call it is, or was last, in
          expired    \* has the deadline of its try_lock_until passed?

vars == << mutex, waiters, locked, ownerId, nest, pc, op, expired >>

Op == {"lock", "try", "timed"}

Location ==
  { "out",        \* in the client's code
    "enter",      \* lock, try_lock, try_lock_until: about to take _mutex
    "first",      \* holds _mutex, about to compare its id with _owner
    "test",       \* not the owner; holds _mutex, about to read _locked
    "wait",       \* in pthread_cond_(timed)wait: blocked, or retaking _mutex
    "lastTest",   \* holds _mutex after a wait that timed out
    "unlock",     \* unlock: about to take _mutex
    "count",      \* unlock: holds _mutex, about to decrement _locked
    "notify" }    \* unlock: about to call notify_one

TypeOK ==
  /\ MonitorTypeOK
  /\ locked \in 0..UINT_MAX
  /\ ownerId \in Thread \cup {NoThread}
  /\ nest \in [Thread -> 0..UINT_MAX]
  /\ pc \in [Thread -> Location]
  /\ op \in [Thread -> Op]
  /\ expired \in [Thread -> BOOLEAN]

Init ==
  /\ MonitorInit
  /\ locked = 0
  /\ ownerId = NoThread
  /\ nest = [t \in Thread |-> 0]
  /\ pc = [t \in Thread |-> "out"]
  /\ op = [t \in Thread |-> "lock"]
  /\ expired = [t \in Thread |-> FALSE]

Goto(t, from, to) ==
  /\ pc[t] = from
  /\ pc' = [pc EXCEPT ![t] = to]

-----------------------------------------------------------------------------
(* The calls a client makes.                                               *)

Call(t, k) ==
  /\ Goto(t, "out", "enter")
  /\ op' = [op EXCEPT ![t] = k]
  /\ expired' = [expired EXCEPT ![t] = FALSE]
  /\ UNCHANGED << mutex, waiters, locked, ownerId, nest >>

CallUnlock(t) ==
  /\ nest[t] > 0
  /\ Goto(t, "out", "unlock")
  /\ UNCHANGED << mutex, waiters, locked, ownerId, nest, op, expired >>

-----------------------------------------------------------------------------
(* lock, try_lock, try_lock_until.                                         *)

Enter(t) ==
  /\ Goto(t, "enter", "first")
  /\ MutexLock(t)
  /\ UNCHANGED << waiters, locked, ownerId, nest, op, expired >>

\* The caller owns the lock already and the count has room
Relock(t) ==
  /\ ownerId = t
  /\ locked < UINT_MAX
  /\ Goto(t, "first", "out")
  /\ locked' = locked + 1
  /\ nest' = [nest EXCEPT ![t] = @ + 1]
  /\ MutexUnlock
  /\ UNCHANGED << waiters, ownerId, op, expired >>

\* Mutation: off by one at the limit
OverflowEarly(t) ==
  /\ ownerId = t
  /\ ~(locked + 1 < UINT_MAX)
  /\ Goto(t, "first", "out")
  /\ MutexUnlock
  /\ UNCHANGED << waiters, locked, ownerId, nest, op, expired >>

\* ... and it has none: lock throws, the others return false
Overflow(t) ==
  /\ ownerId = t
  /\ ~(locked < UINT_MAX)
  /\ Goto(t, "first", "out")
  /\ MutexUnlock
  /\ UNCHANGED << waiters, locked, ownerId, nest, op, expired >>

\* Not the owner, or back from a wait: _owner is not looked at again
Tests(t) == \/ pc[t] = "first" /\ ownerId # t
            \/ pc[t] \in {"test", "lastTest"}

Take(t) ==
  /\ Tests(t)
  /\ locked = 0
  /\ locked' = 1
  /\ ownerId' = t
  /\ nest' = [nest EXCEPT ![t] = @ + 1]
  /\ MutexUnlock
  /\ pc' = [pc EXCEPT ![t] = "out"]
  /\ UNCHANGED << waiters, op, expired >>

Block(t) ==
  /\ Tests(t)
  /\ pc[t] # "lastTest"
  /\ locked # 0
  /\ op[t] \in {"lock", "timed"}
  /\ pc' = [pc EXCEPT ![t] = "wait"]
  /\ CondWait(t)
  /\ UNCHANGED << locked, ownerId, nest, op, expired >>

\* The blocked thread returns from the wait with no signal
WakeUp(t) ==
  /\ CondReturn(t)
  /\ UNCHANGED << mutex, locked, ownerId, nest, pc, op, expired >>

TimedOut(t) == op[t] = "timed" /\ expired[t]

Retake(t) ==
  /\ t \notin waiters
  /\ Goto(t, "wait", IF TimedOut(t) THEN "lastTest" ELSE "test")
  /\ MutexLock(t)
  /\ UNCHANGED << waiters, locked, ownerId, nest, op, expired >>

\* try_lock, or try_lock_until after its deadline, returns false
Fail(t) ==
  /\ Tests(t)
  /\ op[t] = "try" \/ pc[t] = "lastTest"
  /\ locked # 0
  /\ MutexUnlock
  /\ pc' = [pc EXCEPT ![t] = "out"]
  /\ UNCHANGED << waiters, locked, ownerId, nest, op, expired >>

\* t is inside lock, try_lock or try_lock_until
InLock(t) == pc[t] \in {"enter", "first", "test", "wait", "lastTest"}

\* Time passes the deadline of a thread in try_lock_until
Expire(t) ==
  /\ InLock(t)
  /\ op[t] = "timed"
  /\ ~expired[t]
  /\ expired' = [expired EXCEPT ![t] = TRUE]
  /\ UNCHANGED << mutex, waiters, locked, ownerId, nest, pc, op >>

-----------------------------------------------------------------------------
(* unlock.                                                                 *)

EnterUnlock(t) ==
  /\ Goto(t, "unlock", "count")
  /\ MutexLock(t)
  /\ UNCHANGED << waiters, locked, ownerId, nest, op, expired >>

\* Mutation: _owner is not reset
DecrementKeepingOwner(t) ==
  /\ locked' = locked - 1
  /\ Goto(t, "count", IF locked' = 0 THEN "notify" ELSE "out")
  /\ nest' = [nest EXCEPT ![t] = @ - 1]
  /\ MutexUnlock
  /\ UNCHANGED << waiters, ownerId, op, expired >>

\* Mutation: unlock never notifies
DecrementSilently(t) ==
  /\ Goto(t, "count", "out")
  /\ locked' = locked - 1
  /\ nest' = [nest EXCEPT ![t] = @ - 1]
  /\ ownerId' = IF locked' = 0 THEN NoThread ELSE ownerId
  /\ MutexUnlock
  /\ UNCHANGED << waiters, op, expired >>

\* The last unlock resets _owner and goes on to notify; an inner one returns
Decrement(t) ==
  /\ locked' = locked - 1
  /\ Goto(t, "count", IF locked' = 0 THEN "notify" ELSE "out")
  /\ nest' = [nest EXCEPT ![t] = @ - 1]
  /\ ownerId' = IF locked' = 0 THEN NoThread ELSE ownerId
  /\ MutexUnlock
  /\ UNCHANGED << waiters, op, expired >>

Notify(t) ==
  /\ Goto(t, "notify", "out")
  /\ CondSignal
  /\ UNCHANGED << mutex, locked, ownerId, nest, op, expired >>

-----------------------------------------------------------------------------

Step(t) == \/ Enter(t) \/ Relock(t) \/ Overflow(t) \/ Take(t) \/ Block(t)
           \/ Retake(t) \/ Fail(t)
           \/ EnterUnlock(t) \/ Decrement(t) \/ Notify(t)

Next == \E t \in Thread : \/ \E k \in Op : Call(t, k)
                          \/ CallUnlock(t)
                          \/ Step(t)
                          \/ WakeUp(t)
                          \/ Expire(t)

Spec == Init /\ [][Next]_vars

\* As for timed_mutex
Fairness ==
  \A t \in Thread : /\ WF_vars(Step(t))
                    /\ WF_vars(Expire(t))
                    /\ WF_vars(TimedOut(t) /\ WakeUp(t))

FairSpec == Spec /\ Fairness

-----------------------------------------------------------------------------
(* Properties.                                                             *)

\* The count and the owner agree with what the clients were granted: the
\* owner has as many locks to undo as _locked says, nobody else has any,
\* and a lock nobody owns counts 0 (a stale _owner would let the next call
\* of its thread in beside the new owner)
CountIsNesting ==
  /\ \A t \in Thread : nest[t] = IF ownerId = t THEN locked ELSE 0
  /\ ownerId = NoThread <=> locked = 0

\* t is going to read _locked before it blocks or returns
Contends(t) == \/ pc[t] \in {"enter", "first", "test", "lastTest"}
               \/ pc[t] = "wait" /\ t \notin waiters

\* No lost wake-up, though only the outermost unlock notifies
NoStrandedWaiter ==
  waiters # {} => \/ locked # 0
                  \/ \E t \in Thread : pc[t] = "notify" \/ Contends(t)

\* While threads are blocked, a free lock is eventually taken again
FreeLockIsTaken == (locked = 0 /\ waiters # {}) ~> (locked # 0)

-----------------------------------------------------------------------------
(* The recursive_timed_mutex implements the abstract lock.                 *)

Abs == INSTANCE AbstractLock WITH
         holder   <- ownerId,
         depth    <- locked,
         request  <- [t \in Thread |-> IF InLock(t) THEN op[t] ELSE "none"],
         MaxDepth <- UINT_MAX

\* Grants and refusals are those of a lock one thread may hold UINT_MAX
\* times: a call of the owner fails only at the limit, a call of another
\* thread only while the lock is held
ImplementsLock == Abs!AbsSpec

=============================================================================
