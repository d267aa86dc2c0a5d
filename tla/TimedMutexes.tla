---------------------------- MODULE TimedMutexes ----------------------------
(***************************************************************************)
(* The two timed mutexes of c_condition_variable.h side by side, of which  *)
(* the threads use the one that the initial state chooses.  timed_mutex    *)
(* has the variables of TimedMutex, recursive_timed_mutex its own.         *)
(***************************************************************************)
EXTENDS TimedMutex

VARIABLES kind,          \* which of them the threads use
          recMutex, recWaiters, recLocked, ownerId, nest, recPc, recOp, recExpired

R == INSTANCE RecursiveTimedMutex WITH
       mutex <- recMutex, waiters <- recWaiters, locked <- recLocked,
       pc <- recPc, op <- recOp, expired <- recExpired

recVars == << recMutex, recWaiters, recLocked, ownerId, nest, recPc, recOp,
              recExpired >>
eitherVars == << kind, vars, recVars >>

EitherInit ==
  /\ kind \in {"timed_mutex", "recursive_timed_mutex"}
  /\ Init /\ R!Init

\* A step of the one that is used
Either(timed, recursive) ==
  /\ \/ kind = "timed_mutex" /\ timed /\ UNCHANGED recVars
     \/ kind = "recursive_timed_mutex" /\ recursive /\ UNCHANGED vars
  /\ UNCHANGED kind

EitherNext == Either(Next, R!Next)

\* The fairness of TimedMutex, and of RecursiveTimedMutex
EitherSpec ==
  /\ EitherInit /\ [][EitherNext]_eitherVars
  /\ \A t \in Thread :
       /\ WF_eitherVars(Either(Step(t), R!Step(t)))
       /\ WF_eitherVars(Either(Expire(t), R!Expire(t)))
       /\ WF_eitherVars(Either(TimedOut(t) /\ WakeUp(t),
                               R!TimedOut(t) /\ R!WakeUp(t)))

-----------------------------------------------------------------------------
(* The properties of RecursiveTimedMutex, which are stated there.          *)

\* The count and the owner agree with what the clients were granted
CountIsNesting == R!CountIsNesting

\* No lost wake-up, though only the outermost unlock notifies
RecursiveNoStrandedWaiter == R!NoStrandedWaiter

\* While threads are blocked, a free recursive_timed_mutex is eventually taken
RecursiveFreeLockIsTaken == R!FreeLockIsTaken

\* It is a lock that one thread may hold UINT_MAX times
RecursiveImplementsLock == R!ImplementsLock

=============================================================================
