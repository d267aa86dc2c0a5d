---------------------- MODULE RecursiveTimedMutexProofs ----------------------
(***************************************************************************)
(* Proofs about recursive_timed_mutex, for any set of threads and any      *)
(* UINT_MAX > 0: the count and the owner agree with what the clients were  *)
(* granted, no wake-up is lost, and it implements the abstract lock.       *)
(***************************************************************************)
EXTENDS TimedMutexes, TLAPS

USE NoThreadAssumption, UintMaxAssumption

\* The code that runs with _mutex held
Inside == {"first", "test", "lastTest", "count"}

\* _mutex is held by the thread that runs such code, and by no other
MutexInv == \A t \in Thread : recMutex = t <=> recPc[t] \in Inside

\* Only a thread that owns nothing waits, and it will not look at _owner
\* again: nobody else can make it the owner meanwhile.  An unlock under way
\* still has its lock to undo.
CallInv ==
  \A t \in Thread :
    /\ t \in recWaiters => recPc[t] = "wait"
    /\ recPc[t] \in {"test", "wait", "lastTest"} =>
         recOp[t] # "try" /\ ownerId # t
    /\ recPc[t] = "lastTest" => R!TimedOut(t)
    /\ recPc[t] \in {"unlock", "count"} => nest[t] > 0

\* The part of the inductive invariant that is about the count.  The type of
\* nest needs the rest: it is bounded because the owner's is _locked.
CountInv == R!TypeOK /\ MutexInv /\ CallInv /\ R!CountIsNesting

IInv == CountInv /\ R!NoStrandedWaiter

-----------------------------------------------------------------------------

\* The count, the owner and the clients' nesting stay together in every step:
\* only the thread that holds _mutex changes one of them, and it changes all
LEMMA CountInvStep ==
  ASSUME CountInv, [R!Next]_(R!vars)
  PROVE  CountInv'
<1> USE DEF CountInv, R!TypeOK, R!MonitorTypeOK, R!Location, R!Op, MutexInv,
            Inside, CallInv, R!CountIsNesting, R!TimedOut
<1>1. ASSUME NEW t \in Thread, NEW k \in R!Op, R!Call(t, k) PROVE CountInv'
  BY <1>1 DEF R!Call, R!Goto
<1>2. ASSUME NEW t \in Thread, R!CallUnlock(t) PROVE CountInv'
  BY <1>2 DEF R!CallUnlock, R!Goto
<1>3. ASSUME NEW t \in Thread, R!Enter(t) PROVE CountInv'
  BY <1>3 DEF R!Enter, R!Goto, R!MutexLock
<1>4. ASSUME NEW t \in Thread, R!Relock(t) PROVE CountInv'
  BY <1>4 DEF R!Relock, R!Goto, R!MutexUnlock
<1>5. ASSUME NEW t \in Thread, R!Overflow(t) PROVE CountInv'
  BY <1>5 DEF R!Overflow, R!Goto, R!MutexUnlock
<1>6. ASSUME NEW t \in Thread, R!Take(t) PROVE CountInv'
  BY <1>6 DEF R!Take, R!Tests, R!MutexUnlock
<1>7. ASSUME NEW t \in Thread, R!Block(t) PROVE CountInv'
  BY <1>7 DEF R!Block, R!Tests, R!CondWait, R!MutexUnlock
<1>8. ASSUME NEW t \in Thread, R!WakeUp(t) PROVE CountInv'
  BY <1>8 DEF R!WakeUp, R!CondReturn
<1>9. ASSUME NEW t \in Thread, R!Retake(t) PROVE CountInv'
  BY <1>9 DEF R!Retake, R!Goto, R!MutexLock
<1>10. ASSUME NEW t \in Thread, R!Fail(t) PROVE CountInv'
  BY <1>10 DEF R!Fail, R!Tests, R!MutexUnlock
<1>11. ASSUME NEW t \in Thread, R!Expire(t) PROVE CountInv'
  BY <1>11 DEF R!Expire
<1>12. ASSUME NEW t \in Thread, R!EnterUnlock(t) PROVE CountInv'
  BY <1>12 DEF R!EnterUnlock, R!Goto, R!MutexLock
<1>13. ASSUME NEW t \in Thread, R!Decrement(t) PROVE CountInv'
  BY <1>13 DEF R!Decrement, R!Goto, R!MutexUnlock
<1>14. ASSUME NEW t \in Thread, R!Notify(t) PROVE CountInv'
  BY <1>14 DEF R!Notify, R!Goto, R!CondSignal
<1>15. CASE UNCHANGED R!vars
  BY <1>15 DEF R!vars
<1>16. QED
  BY <1>1, <1>2, <1>3, <1>4, <1>5, <1>6, <1>7, <1>8, <1>9, <1>10, <1>11,
     <1>12, <1>13, <1>14, <1>15 DEF R!Next, R!Step

\* The argument against lost wake-ups.  Only an outermost unlock makes
\* _locked 0, and it has notify_one still to call; an inner one leaves the
\* lock held.  A thread that is past "enter" and owns the lock finds it held.
LEMMA NoStrandedWaiterStep ==
  ASSUME IInv, [R!Next]_(R!vars)
  PROVE  R!NoStrandedWaiter'
<1> USE DEF IInv, CountInv, R!TypeOK, R!MonitorTypeOK, R!NoStrandedWaiter,
            R!Contends
<1>1. ASSUME NEW t \in Thread, NEW k \in R!Op, R!Call(t, k)
      PROVE R!NoStrandedWaiter'
  BY <1>1 DEF R!Call, R!Goto
<1>2. ASSUME NEW t \in Thread, R!CallUnlock(t) PROVE R!NoStrandedWaiter'
  BY <1>2 DEF R!CallUnlock, R!Goto
<1>3. ASSUME NEW t \in Thread, R!Enter(t) PROVE R!NoStrandedWaiter'
  BY <1>3 DEF R!Enter, R!Goto
<1>4. ASSUME NEW t \in Thread, R!Relock(t) PROVE R!NoStrandedWaiter'
  BY <1>4 DEF R!Relock
<1>5. ASSUME NEW t \in Thread, R!Overflow(t) PROVE R!NoStrandedWaiter'
  BY <1>5 DEF R!Overflow
<1>6. ASSUME NEW t \in Thread, R!Take(t) PROVE R!NoStrandedWaiter'
  BY <1>6 DEF R!Take
<1>7. ASSUME NEW t \in Thread, R!Block(t) PROVE R!NoStrandedWaiter'
  BY <1>7 DEF R!Block
<1>8. ASSUME NEW t \in Thread, R!WakeUp(t) PROVE R!NoStrandedWaiter'
  BY <1>8 DEF R!WakeUp, R!CondReturn, CallInv
<1>9. ASSUME NEW t \in Thread, R!Retake(t) PROVE R!NoStrandedWaiter'
  BY <1>9 DEF R!Retake, R!Goto
<1>10. ASSUME NEW t \in Thread, R!Fail(t) PROVE R!NoStrandedWaiter'
  BY <1>10 DEF R!Fail
<1>11. ASSUME NEW t \in Thread, R!Expire(t) PROVE R!NoStrandedWaiter'
  BY <1>11 DEF R!Expire
<1>12. ASSUME NEW t \in Thread, R!EnterUnlock(t) PROVE R!NoStrandedWaiter'
  BY <1>12 DEF R!EnterUnlock, R!Goto
<1>13. ASSUME NEW t \in Thread, R!Decrement(t) PROVE R!NoStrandedWaiter'
  BY <1>13 DEF R!Decrement, R!Goto
<1>14. ASSUME NEW t \in Thread, R!Notify(t) PROVE R!NoStrandedWaiter'
  <2>1. CASE recWaiters = {}
    BY <1>14, <2>1 DEF R!Notify, R!CondSignal
  <2>2. CASE recWaiters # {}
    <3>1. PICK w \in recWaiters : recWaiters' = recWaiters \ {w}
      BY <1>14, <2>2 DEF R!Notify, R!CondSignal
    <3>2. recPc[w] = "wait" /\ recPc'[w] = "wait"
      BY <1>14, <3>1 DEF CallInv, R!Notify, R!Goto
    <3>3. R!Contends(w)'
      BY <3>1, <3>2
    <3>4. QED
      BY <3>1, <3>3
  <2>3. QED
    BY <2>1, <2>2
<1>15. CASE UNCHANGED R!vars
  BY <1>15 DEF R!vars
<1>16. QED
  BY <1>1, <1>2, <1>3, <1>4, <1>5, <1>6, <1>7, <1>8, <1>9, <1>10, <1>11,
     <1>12, <1>13, <1>14, <1>15 DEF R!Next, R!Step

\* The inductive invariant holds of every call sequence of every thread
THEOREM Invariance == R!Spec => []IInv
<1>1. R!Init => IInv
  BY DEF R!Init, R!MonitorInit, IInv, CountInv, R!TypeOK, R!MonitorTypeOK,
         R!Location, R!Op, MutexInv, Inside, CallInv, R!CountIsNesting,
         R!NoStrandedWaiter
<1>2. IInv /\ [R!Next]_(R!vars) => IInv'
  BY CountInvStep, NoStrandedWaiterStep DEF IInv
<1>3. QED
  BY <1>1, <1>2, PTL DEF R!Spec

\* The owner has as many locks to undo as _locked counts and nobody else has
\* any, so the count neither passes UINT_MAX nor falls below 0
THEOREM CountIsNestingHolds == R!Spec => [](R!TypeOK /\ CountIsNesting)
<1>1. IInv => R!TypeOK /\ CountIsNesting
  BY DEF IInv, CountInv, CountIsNesting
<1>2. QED
  BY <1>1, Invariance, PTL

\* It is enough that the outermost unlock notifies, and after it gave up
\* _mutex
THEOREM NoLostWakeUp == R!Spec => []RecursiveNoStrandedWaiter
<1>1. IInv => RecursiveNoStrandedWaiter
  BY DEF IInv, RecursiveNoStrandedWaiter
<1>2. QED
  BY <1>1, Invariance, PTL

-----------------------------------------------------------------------------
(* Refinement.                                                              *)

\* The abstract request of each thread, as the refinement maps it
RequestOf == [t \in Thread |-> IF R!InLock(t) THEN recOp[t] ELSE "none"]

\* Every step of a recursive_timed_mutex is a step of the abstract lock, or
\* leaves it as it was
LEMMA StepRefines ==
  ASSUME CountInv, [R!Next]_(R!vars)
  PROVE  [R!Abs!AbsNext]_(R!Abs!absVars)
<1> USE DEF CountInv, R!TypeOK, R!InLock
<1> SUFFICES \/ \E t \in Thread : \/ \E k \in R!Op : R!Abs!Request(t, k)
                                  \/ R!Abs!Grant(t)
                                  \/ R!Abs!Refuse(t)
                                  \/ R!Abs!Release(t)
             \/ UNCHANGED << ownerId, recLocked, RequestOf >>
  BY DEF R!Abs!AbsNext, R!Abs!absVars, R!Abs!Kind, R!Op, RequestOf
<1>1. ASSUME NEW t \in Thread, NEW k \in R!Op, R!Call(t, k)
      PROVE  R!Abs!Request(t, k)
  BY <1>1 DEF R!Call, R!Goto, R!Abs!Request
<1>2. ASSUME NEW t \in Thread, R!Relock(t) \/ R!Take(t)
      PROVE  R!Abs!Grant(t)
  <2>1. /\ ownerId = NoThread \/ (ownerId = t /\ recLocked < UINT_MAX)
        /\ ownerId' = t /\ recLocked' = recLocked + 1
    BY <1>2 DEF R!Relock, R!Take, R!CountIsNesting
  <2>2. RequestOf' = [RequestOf EXCEPT ![t] = "none"]
    BY <1>2 DEF R!Relock, R!Take, R!Goto, RequestOf
  <2>3. RequestOf[t] \in R!Op
    BY <1>2 DEF R!Relock, R!Take, R!Goto, R!Tests, RequestOf
  <2>4. QED
    BY <2>1, <2>2, <2>3
       DEF R!Abs!Grant, R!Abs!Grantable, R!Abs!Kind, R!Op, RequestOf
<1>3. ASSUME NEW t \in Thread, R!Overflow(t)
      PROVE  R!Abs!Refuse(t)
  <2>1. RequestOf' = [RequestOf EXCEPT ![t] = "none"] /\ RequestOf[t] \in R!Op
    BY <1>3 DEF R!Overflow, R!Goto, RequestOf
  <2>2. QED
    BY <1>3, <2>1 DEF R!Overflow, R!Abs!Refuse, R!Abs!Grantable, R!Abs!Kind,
                      R!Op, RequestOf
<1>4. ASSUME NEW t \in Thread, R!Fail(t)
      PROVE  R!Abs!Refuse(t)
  <2>1. ownerId \notin {NoThread, t}
    BY <1>4 DEF R!Fail, R!Tests, R!CountIsNesting, CallInv
  <2>2. RequestOf' = [RequestOf EXCEPT ![t] = "none"]
    BY <1>4 DEF R!Fail, RequestOf
  <2>3. RequestOf[t] \in {"try", "timed"}
    BY <1>4 DEF R!Fail, R!Tests, RequestOf, CallInv, R!TimedOut
  <2>4. QED
    BY <1>4, <2>1, <2>2, <2>3
       DEF R!Fail, R!Abs!Refuse, R!Abs!Grantable, R!Abs!Kind, RequestOf
<1>5. ASSUME NEW t \in Thread, R!Decrement(t)
      PROVE  R!Abs!Release(t)
  <2>1. ownerId = t /\ ownerId' = IF recLocked = 1 THEN NoThread ELSE ownerId
    BY <1>5 DEF R!Decrement, R!Goto, CallInv, R!CountIsNesting
  <2>2. RequestOf' = RequestOf /\ RequestOf[t] = "none"
    BY <1>5 DEF R!Decrement, R!Goto, RequestOf
  <2>3. QED
    BY <1>5, <2>1, <2>2 DEF R!Decrement, R!Abs!Release, RequestOf
<1>6. ASSUME NEW t \in Thread,
             \/ R!CallUnlock(t) \/ R!Enter(t) \/ R!Block(t) \/ R!WakeUp(t)
             \/ R!Retake(t) \/ R!Expire(t) \/ R!EnterUnlock(t) \/ R!Notify(t)
      PROVE  UNCHANGED << ownerId, recLocked, RequestOf >>
  BY <1>6 DEF R!CallUnlock, R!Enter, R!Block, R!Tests, R!WakeUp, R!Retake,
              R!Expire, R!EnterUnlock, R!Notify, R!Goto, RequestOf
<1>7. CASE UNCHANGED R!vars
  BY <1>7 DEF R!vars, RequestOf
<1>8. QED
  BY <1>1, <1>2, <1>3, <1>4, <1>5, <1>6, <1>7 DEF R!Next, R!Step

\* A recursive_timed_mutex is granted and refused like a lock that one
\* thread may hold UINT_MAX times
THEOREM Refinement == R!Spec => RecursiveImplementsLock
<1>1. R!Init => R!Abs!AbsInit
  BY DEF R!Init, R!Abs!AbsInit, R!InLock
<1>2. CountInv /\ [R!Next]_(R!vars) => [R!Abs!AbsNext]_(R!Abs!absVars)
  BY StepRefines
<1>3. IInv => CountInv
  BY DEF IInv
<1>4. QED
  BY <1>1, <1>2, <1>3, Invariance, PTL
     DEF R!Spec, RecursiveImplementsLock, R!ImplementsLock, R!Abs!AbsSpec

-----------------------------------------------------------------------------
(* Either of the two.                                                       *)

\* Where the threads use one of the two mutexes, that one behaves as its own
\* specification says and the other does nothing: what is proved about each,
\* here and in TimedMutexProofs, holds of both side by side
THEOREM EitherBehaves == EitherSpec => Spec /\ R!Spec
<1>1. EitherInit => Init /\ R!Init
  BY DEF EitherInit
<1>2. ASSUME [EitherNext]_eitherVars
      PROVE  [Next]_vars /\ [R!Next]_(R!vars)
  <2>1. CASE UNCHANGED eitherVars
    BY <2>1 DEF eitherVars, vars, recVars, R!vars
  <2>2. CASE EitherNext
    <3>1. CASE Next /\ UNCHANGED recVars
      BY <3>1 DEF recVars, R!vars
    <3>2. CASE R!Next /\ UNCHANGED vars
      BY <3>2
    <3>3. QED
      BY <2>2, <3>1, <3>2 DEF EitherNext, Either
  <2>3. QED
    BY <1>2, <2>1, <2>2
<1>3. QED
  BY <1>1, <1>2, PTL DEF EitherSpec, Spec, R!Spec

=============================================================================
