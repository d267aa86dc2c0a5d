------------------------ MODULE ConditionVariableAny ------------------------
(***************************************************************************)
(* condition_variable_any of c_condition_variable.h: a condition variable  *)
(* for any lock, made of a condition_variable and a mutex of its own.      *)
(* wait holds the inner mutex from before it unlocks the client's lock     *)
(* until it is blocked; notify_one and notify_all take the inner mutex.    *)
(* The inner mutex belongs to a shared_ptr of which every wait keeps a     *)
(* copy, "for immunity to *this destruction".                              *)
(*                                                                         *)
(* The clients are those of condition_variable_any_test: under their own   *)
(* lock, producers add items and consumers wait, with or without a         *)
(* deadline, until there is one; a producer notifies after it unlocked or  *)
(* before.  One thread may also close the queue, wake everybody, and       *)
(* destroy the condition variable while the woken are still on their way   *)
(* out of wait; nobody else notifies then.  A next one is constructed when *)
(* they are all out.                                                       *)
(***************************************************************************)
EXTENDS Naturals, FiniteSets, Monitor

CONSTANT MaxItems    \* a bound on the items, for TLC

ASSUME MaxItemsAssumption == MaxItems \in Nat \ {0}
ASSUME FiniteThreadsAssumption == IsFiniteSet(Thread)

VARIABLES lock,      \* the client's lock: its holder, or NoThread
          items,     \* what the consumers wait for ...
          closed,    \* ... or to be told that there will be no more
          alive,     \* is the condition variable not destroyed?
          aux,       \* the threads whose auxMutexPtr owns the inner mutex
          pc,        \* where each thread is
          timed,     \* is it in a wait with a deadline?
          expired    \* has that deadline passed?

client == << lock, items, closed >>
object == << alive, aux >>
inner == << mutex, waiters >>
vars == << mutex, waiters, lock, items, closed, alive, aux, pc, timed, expired >>

Location ==
  { "idle",
    "test",        \* consumer: holds lock, about to evaluate the predicate
    "enter",       \* wait: holds lock, about to take the inner mutex
    "unlock",      \* wait: holds both, about to unlock lock
    "block",       \* wait: holds the inner mutex, about to block
    "wait",        \* in pthread_cond_(timed)wait: blocked, or retaking
    "leave",       \* wait: about to unlock the inner mutex
    "relock",      \* wait: about to take lock again
    "lastTest",    \* holds lock after a wait that timed out
    "put",         \* producer: holds lock, about to add an item
    "notify",      \* notify_one: about to take the inner mutex
    "signal",      \* notify_one: holds it
    "close",       \* holds lock, about to close the queue
    "notifyAll",   \* notify_all: about to take the inner mutex
    "broadcast",   \* notify_all: holds it
    "closed" }     \* notified all, may destroy the condition variable

TypeOK ==
  /\ MonitorTypeOK
  /\ lock \in Thread \cup {NoThread}
  /\ items \in 0..MaxItems
  /\ closed \in BOOLEAN /\ alive \in BOOLEAN
  /\ aux \subseteq Thread
  /\ pc \in [Thread -> Location]
  /\ timed \in [Thread -> BOOLEAN]
  /\ expired \in [Thread -> BOOLEAN]

Init ==
  /\ MonitorInit
  /\ lock = NoThread
  /\ items = 0
  /\ closed = FALSE
  /\ alive = TRUE
  /\ aux = {}
  /\ pc = [t \in Thread |-> "idle"]
  /\ timed = [t \in Thread |-> FALSE]
  /\ expired = [t \in Thread |-> FALSE]

Goto(t, from, to) ==
  /\ pc[t] = from
  /\ pc' = [pc EXCEPT ![t] = to]

ClientLock(t) == lock = NoThread /\ lock' = t
ClientUnlock == lock' = NoThread

-----------------------------------------------------------------------------
(* Clients.  None starts to consume, produce or close once it is closed.   *)

Consume(t) ==
  /\ ~closed
  /\ Goto(t, "idle", "test")
  /\ ClientLock(t)
  /\ \E b \in BOOLEAN : timed' = [timed EXCEPT ![t] = b]
  /\ expired' = [expired EXCEPT ![t] = FALSE]
  /\ UNCHANGED << inner, items, closed, object >>

Produce(t) ==
  /\ ~closed /\ items < MaxItems
  /\ Goto(t, "idle", "put")
  /\ ClientLock(t)
  /\ UNCHANGED << inner, items, closed, object, timed, expired >>

Put(t) ==
  /\ Goto(t, "put", "notify")
  /\ items' = items + 1
  /\ ClientUnlock \/ UNCHANGED lock
  /\ UNCHANGED << inner, closed, object, timed, expired >>

BeginClose(t) ==
  /\ ~closed
  /\ Goto(t, "idle", "close")
  /\ ClientLock(t)
  /\ UNCHANGED << inner, items, closed, object, timed, expired >>

Close(t) ==
  /\ Goto(t, "close", "notifyAll")
  /\ closed' = TRUE
  /\ ClientUnlock
  /\ UNCHANGED << inner, items, object, timed, expired >>

-----------------------------------------------------------------------------
(* wait and wait_until, with a predicate.                                  *)

\* pred() of the loop in wait and wait_until
Ready == items > 0 \/ closed

\* The predicate holds and wait returns; the consumer takes an item if
\* there is one
Take(t) ==
  /\ Ready
  /\ pc[t] \in {"test", "lastTest"}
  /\ pc' = [pc EXCEPT ![t] = "idle"]
  /\ items' = IF closed /\ items = 0 THEN 0 ELSE items - 1
  /\ ClientUnlock
  /\ UNCHANGED << inner, closed, object, timed, expired >>

\* It does not hold after a wait that timed out, and wait_until returns
GiveUp(t) ==
  /\ ~Ready
  /\ Goto(t, "lastTest", "idle")
  /\ ClientUnlock
  /\ UNCHANGED << inner, items, closed, object, timed, expired >>

\* Mutation: the client's lock is unlocked before the inner mutex is taken
BeginWaitUnlocked(t) ==
  /\ ~Ready
  /\ Goto(t, "test", "enter")
  /\ aux' = aux \cup {t}
  /\ ClientUnlock
  /\ UNCHANGED << inner, items, closed, alive, timed, expired >>

\* Mutation: wait uses the inner mutex of *this, without a copy of its owner
BeginWaitBorrowing(t) ==
  /\ ~Ready
  /\ Goto(t, "test", "enter")
  /\ UNCHANGED << inner, client, object, timed, expired >>

\* wait(lock): copy the shared_ptr of the inner mutex
BeginWait(t) ==
  /\ ~Ready
  /\ Goto(t, "test", "enter")
  /\ aux' = aux \cup {t}
  /\ UNCHANGED << inner, client, alive, timed, expired >>

Enter(t) ==
  /\ Goto(t, "enter", "unlock")
  /\ MutexLock(t)
  /\ UNCHANGED << waiters, client, object, timed, expired >>

\* The constructor of unlock_guard
Unlock(t) ==
  /\ Goto(t, "unlock", "block")
  /\ ClientUnlock
  /\ UNCHANGED << inner, items, closed, object, timed, expired >>

Block(t) ==
  /\ Goto(t, "block", "wait")
  /\ CondWait(t)
  /\ UNCHANGED << client, object, timed, expired >>

\* The blocked thread returns from the wait with no signal
WakeUp(t) ==
  /\ CondReturn(t)
  /\ UNCHANGED << mutex, client, object, pc, timed, expired >>

TimedOut(t) == timed[t] /\ expired[t]

\* Here wait_until computes its cv_status: later expiry does not change it
Retake(t) ==
  /\ t \notin waiters
  /\ Goto(t, "wait", "leave")
  /\ MutexLock(t)
  /\ UNCHANGED << waiters, client, object, timed, expired >>

\* unqLock2 goes out of scope before unlock_guard
Leave(t) ==
  /\ Goto(t, "leave", "relock")
  /\ MutexUnlock
  /\ UNCHANGED << waiters, client, object, timed, expired >>

\* Mutation: the cv_status of the wait is not looked at
RelockIgnoringTimeout(t) ==
  /\ Goto(t, "relock", "test")
  /\ ClientLock(t)
  /\ aux' = aux \ {t}
  /\ UNCHANGED << inner, items, closed, alive, timed, expired >>

\* The destructors of unlock_guard and auxMutexPtr
Relock(t) ==
  /\ Goto(t, "relock", IF TimedOut(t) THEN "lastTest" ELSE "test")
  /\ ClientLock(t)
  /\ aux' = aux \ {t}
  /\ UNCHANGED << inner, items, closed, alive, timed, expired >>

Expire(t) ==
  /\ pc[t] \in {"enter", "unlock", "block", "wait"}
  /\ timed[t] /\ ~expired[t]
  /\ expired' = [expired EXCEPT ![t] = TRUE]
  /\ UNCHANGED << inner, client, object, pc, timed >>

-----------------------------------------------------------------------------
(* notify_one, notify_all, the destructor and the constructor.             *)

EnterNotify(t) ==
  /\ \/ Goto(t, "notify", "signal")
     \/ Goto(t, "notifyAll", "broadcast")
  /\ MutexLock(t)
  /\ UNCHANGED << waiters, client, object, timed, expired >>

\* A producer that notified under its lock unlocks it
NotifyOne(t) ==
  /\ Goto(t, "signal", "idle")
  /\ CondSignal
  /\ MutexUnlock
  /\ lock' = IF lock = t THEN NoThread ELSE lock
  /\ UNCHANGED << items, closed, object, timed, expired >>

\* Mutation: a signal instead of a broadcast
NotifyAllButOne(t) ==
  /\ Goto(t, "broadcast", "closed")
  /\ CondSignal
  /\ MutexUnlock
  /\ UNCHANGED << client, object, timed, expired >>

NotifyAll(t) ==
  /\ Goto(t, "broadcast", "closed")
  /\ waiters' = {}
  /\ MutexUnlock
  /\ UNCHANGED << client, object, timed, expired >>

\* Its shared_ptr lets go of the inner mutex; what waits for nobody
Destroy(t) ==
  /\ \A u \in Thread : pc[u] \notin {"notify", "signal"}
  /\ Goto(t, "closed", "idle")
  /\ alive' = FALSE
  /\ UNCHANGED << inner, client, aux, timed, expired >>

Construct ==
  /\ ~alive
  /\ \A t \in Thread : pc[t] = "idle"
  /\ alive' = TRUE
  /\ closed' = FALSE
  /\ items' = 0
  /\ UNCHANGED << inner, lock, aux, pc, timed, expired >>

-----------------------------------------------------------------------------

\* What a thread does until it is idle again
Step(t) == \/ Put(t) \/ Close(t) \/ Take(t) \/ GiveUp(t) \/ BeginWait(t)
           \/ Enter(t) \/ Unlock(t) \/ Block(t) \/ Retake(t) \/ Leave(t)
           \/ Relock(t) \/ EnterNotify(t) \/ NotifyOne(t) \/ NotifyAll(t)

Next == \/ \E t \in Thread : \/ Consume(t) \/ Produce(t) \/ BeginClose(t)
                             \/ Destroy(t)
                             \/ Step(t)
                             \/ WakeUp(t)
                             \/ Expire(t)
        \/ Construct

Spec == Init /\ [][Next]_vars

\* Threads run, time passes and pthread_cond_timedwait returns once its
\* deadline has passed.  Nothing obliges the clients to consume, produce or
\* close, nor the locks to be fair.
Fairness ==
  \A t \in Thread : /\ WF_vars(Step(t))
                    /\ WF_vars(Expire(t))
                    /\ WF_vars(TimedOut(t) /\ WakeUp(t))

FairSpec == Spec /\ Fairness

-----------------------------------------------------------------------------
(* Properties.                                                             *)

\* t is going to look at the predicate before it blocks again
Contends(t) == \/ pc[t] \in {"test", "leave", "relock", "lastTest"}
               \/ pc[t] = "wait" /\ t \notin waiters

\* No lost wake-up: while consumers are blocked, there is for every item a
\* notify_one to come or a consumer about to look, and once it is closed a
\* notify_all to come.  A notify_one that falls between a consumer's look
\* at the predicate and its blocking has to wait for the inner mutex.
NoStrandedConsumer ==
  waiters # {} =>
    /\ items <= Cardinality({t \in Thread : pc[t] \in {"notify", "signal"}
                                            \/ Contends(t)})
    /\ closed => \E t \in Thread : pc[t] \in {"notifyAll", "broadcast"}

\* "Immunity to *this destruction": a thread in wait, wherever it is when
\* the condition variable is destroyed, still has an inner mutex, and none
\* is blocked on the destroyed condition variable or still to block on it
ImmuneToDestruction ==
  ~alive =>
    /\ waiters = {}
    /\ \A t \in Thread : pc[t] \notin {"enter", "unlock", "block",
                                       "notify", "signal"}
    /\ \A t \in Thread : pc[t] \in {"wait", "leave"} => t \in aux

\* A consumer that is blocked when the queue is closed returns
ClosingReleasesAll ==
  \A t \in Thread : (closed /\ t \in waiters) ~> (pc[t] = "idle")

\* Once its deadline has passed, wait_until returns, unless others seize one
\* of the two locks over and over
TimedWaitReturns ==
  \A t \in Thread :
    \/ (pc[t] = "wait" /\ TimedOut(t)) ~> (pc[t] = "idle")
    \/ []<>(lock \notin {t, NoThread})
    \/ []<>(mutex \notin {t, NoThread})

=============================================================================
