----------------------------- MODULE TimedMutex -----------------------------
(***************************************************************************)
(* timed_mutex of c_condition_variable.h: a word _locked protected by a    *)
(* mutex, and a condition variable on which the threads that find the word *)
(* taken wait for it to become 0.                                          *)
(*                                                                         *)
(* A thread is idle, or in lock, try_lock or try_lock_until (op tells      *)
(* which; try_lock_for is try_lock_until with a computed deadline), or     *)
(* holds the timed_mutex, or is in unlock.  Code between taking _mutex and *)
(* giving it up runs in one step, for every access of _locked is under     *)
(* _mutex; taking it and notifying after giving it up are steps of their   *)
(* own.                                                                    *)
(*                                                                         *)
(* Clients respect the precondition of lock (the caller does not hold the  *)
(* timed_mutex) and of unlock (it does).                                   *)
(***************************************************************************)
EXTENDS Monitor, LockWord

VARIABLES locked,    \* _locked
          pc,        \* where each thread is
          op,        \* the locking call it is, or was last, in
          expired    \* has the deadline of its try_lock_until passed?

vars == << mutex, waiters, locked, pc, op, expired >>

Op == {"lock", "try", "timed"}

Location ==
  { "idle",       \* outside, not holding the timed_mutex
    "enter",      \* lock, try_lock, try_lock_until: about to take _mutex
    "test",       \* holds _mutex, about to read _locked
    "wait",       \* in pthread_cond_(timed)wait: blocked, or retaking _mutex
    "lastTest",   \* holds _mutex after a wait that timed out
    "held",       \* outside, holding the timed_mutex
    "unlock",     \* unlock: about to take _mutex
    "clear",      \* unlock: holds _mutex, about to reset _locked
    "notify" }    \* unlock: about to call notify_one

TypeOK ==
  /\ MonitorTypeOK
  /\ locked \in {0, UINT_MAX}
  /\ pc \in [Thread -> Location]
  /\ op \in [Thread -> Op]
  /\ expired \in [Thread -> BOOLEAN]

Init ==
  /\ MonitorInit
  /\ locked = 0
  /\ pc = [t \in Thread |-> "idle"]
  /\ op = [t \in Thread |-> "lock"]
  /\ expired = [t \in Thread |-> FALSE]

Goto(t, from, to) ==
  /\ pc[t] = from
  /\ pc' = [pc EXCEPT ![t] = to]

-----------------------------------------------------------------------------
(* The calls a client makes.                                               *)

Call(t, k) ==
  /\ Goto(t, "idle", "enter")
  /\ op' = [op EXCEPT ![t] = k]
  /\ expired' = [expired EXCEPT ![t] = FALSE]
  /\ UNCHANGED << mutex, waiters, locked >>

CallUnlock(t) ==
  /\ Goto(t, "held", "unlock")
  /\ UNCHANGED << mutex, waiters, locked, op, expired >>

-----------------------------------------------------------------------------
(* lock, try_lock, try_lock_until.                                         *)

Enter(t) ==
  /\ Goto(t, "enter", "test")
  /\ MutexLock(t)
  /\ UNCHANGED << waiters, locked, op, expired >>

\* _UINT_Is_Zero, the predicate of the timed wait, and the loop condition
\* of lock
IsZero == locked = 0

\* Mutation: after a timeout the predicate is taken to hold
TakeUnchecked(t) ==
  /\ pc[t] \in {"test", "lastTest"}
  /\ IsZero \/ pc[t] = "lastTest"
  /\ locked' = UINT_MAX
  /\ MutexUnlock
  /\ pc' = [pc EXCEPT ![t] = "held"]
  /\ UNCHANGED << waiters, op, expired >>

Take(t) ==
  /\ pc[t] \in {"test", "lastTest"}
  /\ IsZero
  /\ locked' = UINT_MAX
  /\ MutexUnlock
  /\ pc' = [pc EXCEPT ![t] = "held"]
  /\ UNCHANGED << waiters, op, expired >>

Block(t) ==
  /\ ~IsZero
  /\ op[t] \in {"lock", "timed"}
  /\ Goto(t, "test", "wait")
  /\ CondWait(t)
  /\ UNCHANGED << locked, op, expired >>

\* The blocked thread returns from the wait with no signal
WakeUp(t) ==
  /\ CondReturn(t)
  /\ UNCHANGED << mutex, locked, pc, op, expired >>

\* Mutation: every return from the wait counts as a timeout
TimedOutAlways(t) == op[t] = "timed"

\* cv_status::timeout, which wait_until computes once it has _mutex back
TimedOut(t) == op[t] = "timed" /\ expired[t]

\* Mutation: the cv_status of the wait is not looked at
RetakeIgnoringTimeout(t) ==
  /\ t \notin waiters
  /\ Goto(t, "wait", "test")
  /\ MutexLock(t)
  /\ UNCHANGED << waiters, locked, op, expired >>

Retake(t) ==
  /\ t \notin waiters
  /\ Goto(t, "wait", IF TimedOut(t) THEN "lastTest" ELSE "test")
  /\ MutexLock(t)
  /\ UNCHANGED << waiters, locked, op, expired >>

\* Mutation: a timeout is an answer, with no second look at the predicate
FailUnchecked(t) ==
  /\ \/ op[t] = "try" /\ ~IsZero /\ Goto(t, "test", "idle")
     \/ Goto(t, "lastTest", "idle")
  /\ MutexUnlock
  /\ UNCHANGED << waiters, locked, op, expired >>

\* try_lock returns false, or the predicate is false once more after a
\* timeout and try_lock_until returns false
Fail(t) ==
  /\ ~IsZero
  /\ \/ op[t] = "try" /\ Goto(t, "test", "idle")
     \/ Goto(t, "lastTest", "idle")
  /\ MutexUnlock
  /\ UNCHANGED << waiters, locked, op, expired >>

\* t is inside lock, try_lock or try_lock_until
InLock(t) == pc[t] \in {"enter", "test", "wait", "lastTest"}

\* Time passes the deadline of a thread in try_lock_until
Expire(t) ==
  /\ InLock(t)
  /\ op[t] = "timed"
  /\ ~expired[t]
  /\ expired' = [expired EXCEPT ![t] = TRUE]
  /\ UNCHANGED << mutex, waiters, locked, pc, op >>

-----------------------------------------------------------------------------
(* unlock.                                                                 *)

EnterUnlock(t) ==
  /\ Goto(t, "unlock", "clear")
  /\ MutexLock(t)
  /\ UNCHANGED << waiters, locked, op, expired >>

\* Mutation: unlock returns without notify_one
ClearSilently(t) ==
  /\ Goto(t, "clear", "idle")
  /\ locked' = 0
  /\ MutexUnlock
  /\ UNCHANGED << waiters, op, expired >>

Clear(t) ==
  /\ Goto(t, "clear", "notify")
  /\ locked' = 0
  /\ MutexUnlock
  /\ UNCHANGED << waiters, op, expired >>

Notify(t) ==
  /\ Goto(t, "notify", "idle")
  /\ CondSignal
  /\ UNCHANGED << mutex, locked, op, expired >>

-----------------------------------------------------------------------------

\* What a thread does inside a call, up to what the scheduler owes it
Step(t) == \/ Enter(t) \/ Take(t) \/ Block(t) \/ Retake(t) \/ Fail(t)
           \/ EnterUnlock(t) \/ Clear(t) \/ Notify(t)

Next == \E t \in Thread : \/ \E k \in Op : Call(t, k)
                          \/ CallUnlock(t)
                          \/ Step(t)
                          \/ WakeUp(t)
                          \/ Expire(t)

Spec == Init /\ [][Next]_vars

\* Threads run, time passes, and pthread_cond_timedwait returns once its
\* deadline has passed.  Nothing is assumed of the clients, nor of how the
\* mutex chooses among the threads that want it.
Fairness ==
  \A t \in Thread : /\ WF_vars(Step(t))
                    /\ WF_vars(Expire(t))
                    /\ WF_vars(TimedOut(t) /\ WakeUp(t))

FairSpec == Spec /\ Fairness

-----------------------------------------------------------------------------
(* Properties.                                                             *)

\* t was granted the timed_mutex and has not reset _locked yet
Holds(t) == pc[t] \in {"held", "unlock", "clear"}

\* Two threads never hold the timed_mutex at once, and _locked tells
\* whether one does (lock, try_lock, try_lock_until against unlock)
MutualExclusion ==
  /\ \A t, u \in Thread : Holds(t) /\ Holds(u) => t = u
  /\ (locked # 0) <=> (\E t \in Thread : Holds(t))

\* t is going to read _locked before it blocks or returns
Contends(t) == \/ pc[t] \in {"enter", "test", "lastTest"}
               \/ pc[t] = "wait" /\ t \notin waiters

\* No lost wake-up: a thread stays blocked on the condition variable only
\* while the timed_mutex is taken, or a notify_one is still to come, or
\* another thread is on its way to take it and will notify in its turn.
\* unlock notifies after it gave up _mutex, one waiter at a time, and a
\* notified try_lock_until may have timed out already: it must look again.
NoStrandedWaiter ==
  waiters # {} => \/ locked # 0
                  \/ \E t \in Thread : pc[t] = "notify" \/ Contends(t)

\* try_lock_until never gives up before its deadline
NoEarlyRefusal ==
  [][\A t \in Thread :
       op[t] = "timed" /\ ~expired[t] /\ pc[t] \in {"test", "lastTest"}
         => pc'[t] # "idle"]_vars

\* While threads are blocked, a free timed_mutex is eventually taken again
FreeLockIsTaken == (locked = 0 /\ waiters # {}) ~> (locked # 0)

\* Once its deadline has passed try_lock_until returns, unless others seize
\* the internal mutex over and over
TimedCallReturns ==
  \A t \in Thread :
    \/ (InLock(t) /\ TimedOut(t)) ~> (pc[t] \in {"idle", "held"})
    \/ []<>(mutex \notin {t, NoThread})

-----------------------------------------------------------------------------
(* The timed_mutex implements the abstract lock.                           *)

Holder == IF \E t \in Thread : Holds(t)
          THEN CHOOSE t \in Thread : Holds(t)
          ELSE NoThread

Abs == INSTANCE AbstractLock WITH
         holder   <- Holder,
         depth    <- IF locked = 0 THEN 0 ELSE 1,
         request  <- [t \in Thread |->
                        IF InLock(t) THEN op[t] ELSE "none"],
         MaxDepth <- 1

\* lock, try_lock and try_lock_until are granted in one step and only while
\* the timed_mutex is free; try_lock and try_lock_until are refused only at
\* a moment when another thread holds it
ImplementsLock == Abs!AbsSpec

=============================================================================
