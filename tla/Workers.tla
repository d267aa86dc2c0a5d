------------------------------ MODULE Workers ------------------------------
(***************************************************************************)
(* Programs whose main thread creates, moves, joins and detaches threads,  *)
(* and whose threads all work with one of the facilities they can share:   *)
(* locks, a semaphore, or shared_ptr and weak_ptr variables.               *)
(*                                                                         *)
(* A thread takes steps of its program while its function runs; the        *)
(* function may return when the thread is in no call and has let go of     *)
(* what it locked and acquired, as with guards for local variables.        *)
(***************************************************************************)
EXTENDS SharedPtr

CONSTANTS NoId, Object, Absent,       \* of ThreadHandle
          Mutex, Variable, Nil,       \* of LockOwnership
          Desired                     \* of CountingSemaphore

\* 0 is no pthread_t, null no mutex, and an object that is not constructed has
\* no members; the semaphore starts with a number
ASSUME NamesAssumption ==
  /\ NoId \notin Thread /\ Absent \notin Thread \cup {NoId}
  /\ Nil \notin Mutex
  /\ Absent \notin [mutex : Mutex \cup {Nil}, owns : BOOLEAN]
  /\ Desired \in Nat

VARIABLES program,                                  \* what the threads do
          object, pthread, detached, freed, main,   \* of ThreadHandle
          mode, holders, writing, lock, direct,     \* of LockOwnership
          value, permits, update, call, expired     \* of CountingSemaphore

Handle == INSTANCE ThreadHandle WITH Id <- Thread
Locks == INSTANCE LockOwnership
Semaphore == INSTANCE CountingSemaphore

handleVars == << object, pthread, detached, freed, main >>
lockVars == << mode, holders, writing, lock, direct >>
semaphoreVars == << value, permits, update, call, expired >>

Program == {"locks", "semaphore", "pointers"}

WorkersTypeOK ==
  /\ program \in Program
  /\ Handle!TypeOK /\ Locks!TypeOK /\ Semaphore!TypeOK /\ TypeOK

WorkersInit ==
  /\ program \in Program
  /\ Handle!Init /\ Locks!Init /\ Semaphore!Init /\ Init
  /\ program # "locks" => mode = [t \in Thread |-> "unique"]

Running(t) == Handle!Alive /\ pthread[t] = "running"

\* May the function of thread t return?
Done(t) ==
  /\ program = "locks" => Locks!LetGo(t)
  /\ program = "semaphore" => call[t] = "none" /\ permits[t] = 0
  /\ program = "pointers" => Idle(t)

Work(t) ==
  /\ Running(t)
  /\ \/ /\ program = "locks" /\ Locks!Step(t)
        /\ UNCHANGED << semaphoreVars, vars >>
     \/ /\ program = "semaphore" /\ Semaphore!Step(t)
        /\ UNCHANGED << lockVars, vars >>
     \/ /\ program = "pointers" /\ (Operate(t) \/ Release(t))
        /\ UNCHANGED << lockVars, semaphoreVars >>
  /\ UNCHANGED << program, handleVars >>

ManageThreads ==
  /\ \/ Handle!Main
     \/ \E t \in Thread : \/ Handle!Begin(t)
                          \/ Done(t) /\ Handle!End(t)
                          \/ Handle!Throw(t)
  /\ UNCHANGED << program, vars, lockVars, semaphoreVars >>

WorkersNext == ManageThreads \/ \E t \in Thread : Work(t)

workersVars ==
  << program, vars, handleVars, lockVars, semaphoreVars >>

WorkersSpec == WorkersInit /\ [][WorkersNext]_workersVars

-----------------------------------------------------------------------------
(* Properties: those of the facilities, under threads that come and go.    *)

\* See ThreadHandle: one object names each thread that can be joined
OneHandlePerThread == Handle!OneHandlePerThread

\* See ThreadHandle: the thread that runs a callable deletes it, nobody else
CallableFreedOnce == Handle!CallableFreedOnce

\* See LockOwnership: each hold of a mutex is one variable's to give back
HoldsAccounted == Locks!HoldsAccounted

\* See CountingSemaphore: no more permits than it was made with
NoPermitCreated == Semaphore!NoPermitCreated

\* What join waits for has happened when it returns: a thread that was joined,
\* and whose id may name another one from now on, holds no mutex and no
\* permit, and has nothing left to post, to destroy or to free.
JoinedHasLetGo ==
  \A t \in Thread : pthread[t] = "unused" =>
    /\ \A m \in Mutex : t \notin holders[m]
    /\ permits[t] = 0 /\ update[t] = 0
    /\ stage[t] = "none"

=============================================================================
