-------------------------- MODULE TimedMutexProofs --------------------------
(***************************************************************************)
(* Proofs about timed_mutex, for any set of threads: type correctness,     *)
(* mutual exclusion, the absence of lost wake-ups, no refusal before the   *)
(* deadline, and that it implements the abstract lock.                     *)
(***************************************************************************)
EXTENDS TimedMutex, TLAPS

USE NoThreadAssumption, UintMaxAssumption

\* The code that runs with _mutex held
Inside == {"test", "lastTest", "clear"}

\* _mutex is held by the thread that runs such code, and by no other
MutexInv == \A t \in Thread : mutex = t <=> pc[t] \in Inside

\* Where the threads are that wait, and what brought them there
CallInv ==
  \A t \in Thread :
    /\ t \in waiters => pc[t] = "wait"
    /\ pc[t] = "wait" => op[t] # "try"
    /\ pc[t] = "lastTest" => TimedOut(t)

\* The inductive invariant.  Mutual exclusion needs MutexInv: between the
\* read of _locked and the write nobody else may do the same.
IInv == TypeOK /\ MutexInv /\ CallInv /\ MutualExclusion /\ NoStrandedWaiter

\* No variable has a value of another type: the program starts well-typed and
\* every step of every call keeps it so
THEOREM TypeCorrect == Spec => []TypeOK
<1>1. Init => TypeOK
  BY DEF Init, MonitorInit, TypeOK, MonitorTypeOK, Location, Op
<1>2. TypeOK /\ [Next]_vars => TypeOK'
  <2> SUFFICES ASSUME TypeOK, [Next]_vars PROVE TypeOK'
    OBVIOUS
  <2> USE DEF TypeOK, MonitorTypeOK, Location, Op
  <2>1. ASSUME NEW t \in Thread, NEW k \in Op, Call(t, k) PROVE TypeOK'
    BY <2>1 DEF Call, Goto
  <2>2. ASSUME NEW t \in Thread, CallUnlock(t) PROVE TypeOK'
    BY <2>2 DEF CallUnlock, Goto
  <2>3. ASSUME NEW t \in Thread, Enter(t) PROVE TypeOK'
    BY <2>3 DEF Enter, Goto, MutexLock
  <2>4. ASSUME NEW t \in Thread, Take(t) PROVE TypeOK'
    BY <2>4 DEF Take, MutexUnlock
  <2>5. ASSUME NEW t \in Thread, Block(t) PROVE TypeOK'
    BY <2>5 DEF Block, Goto, CondWait, MutexUnlock
  <2>6. ASSUME NEW t \in Thread, WakeUp(t) PROVE TypeOK'
    BY <2>6 DEF WakeUp, CondReturn
  <2>7. ASSUME NEW t \in Thread, Retake(t) PROVE TypeOK'
    BY <2>7 DEF Retake, Goto, MutexLock
  <2>8. ASSUME NEW t \in Thread, Fail(t) PROVE TypeOK'
    BY <2>8 DEF Fail, Goto, MutexUnlock
  <2>9. ASSUME NEW t \in Thread, Expire(t) PROVE TypeOK'
    BY <2>9 DEF Expire
  <2>10. ASSUME NEW t \in Thread, EnterUnlock(t) PROVE TypeOK'
    BY <2>10 DEF EnterUnlock, Goto, MutexLock
  <2>11. ASSUME NEW t \in Thread, Clear(t) PROVE TypeOK'
    BY <2>11 DEF Clear, Goto, MutexUnlock
  <2>12. ASSUME NEW t \in Thread, Notify(t) PROVE TypeOK'
    BY <2>12 DEF Notify, Goto, CondSignal
  <2>13. CASE UNCHANGED vars
    BY <2>13 DEF vars
  <2>14. QED
    BY <2>1, <2>2, <2>3, <2>4, <2>5, <2>6, <2>7, <2>8, <2>9, <2>10, <2>11,
       <2>12, <2>13 DEF Next, Step
<1>3. QED
  BY <1>1, <1>2, PTL DEF Spec

-----------------------------------------------------------------------------
(* The safety part of the inductive invariant, one lemma for each part: the *)
(* part itself after a step, given the whole invariant before.              *)

\* _mutex is held by the thread that runs the code inside, after every step
LEMMA MutexInvStep ==
  ASSUME IInv, [Next]_vars
  PROVE  MutexInv'
<1> USE DEF IInv, TypeOK, MonitorTypeOK, MutexInv, Inside
<1>1. ASSUME NEW t \in Thread, NEW k \in Op, Call(t, k) PROVE MutexInv'
  BY <1>1 DEF Call, Goto
<1>2. ASSUME NEW t \in Thread, CallUnlock(t) PROVE MutexInv'
  BY <1>2 DEF CallUnlock, Goto
<1>3. ASSUME NEW t \in Thread, Enter(t) PROVE MutexInv'
  BY <1>3 DEF Enter, Goto, MutexLock
<1>4. ASSUME NEW t \in Thread, Take(t) PROVE MutexInv'
  BY <1>4 DEF Take, MutexUnlock
<1>5. ASSUME NEW t \in Thread, Block(t) PROVE MutexInv'
  BY <1>5 DEF Block, Goto, CondWait, MutexUnlock
<1>6. ASSUME NEW t \in Thread, WakeUp(t) PROVE MutexInv'
  BY <1>6 DEF WakeUp
<1>7. ASSUME NEW t \in Thread, Retake(t) PROVE MutexInv'
  BY <1>7 DEF Retake, Goto, MutexLock
<1>8. ASSUME NEW t \in Thread, Fail(t) PROVE MutexInv'
  BY <1>8 DEF Fail, Goto, MutexUnlock
<1>9. ASSUME NEW t \in Thread, Expire(t) PROVE MutexInv'
  BY <1>9 DEF Expire
<1>10. ASSUME NEW t \in Thread, EnterUnlock(t) PROVE MutexInv'
  BY <1>10 DEF EnterUnlock, Goto, MutexLock
<1>11. ASSUME NEW t \in Thread, Clear(t) PROVE MutexInv'
  BY <1>11 DEF Clear, Goto, MutexUnlock
<1>12. ASSUME NEW t \in Thread, Notify(t) PROVE MutexInv'
  BY <1>12 DEF Notify, Goto
<1>13. CASE UNCHANGED vars
  BY <1>13 DEF vars
<1>14. QED
  BY <1>1, <1>2, <1>3, <1>4, <1>5, <1>6, <1>7, <1>8, <1>9, <1>10, <1>11,
     <1>12, <1>13 DEF Next, Step

\* Who waits is in a wait, a try_lock never waits, and the last look at
\* _locked comes after a timeout only
LEMMA CallInvStep ==
  ASSUME IInv, [Next]_vars
  PROVE  CallInv'
<1> USE DEF IInv, TypeOK, MonitorTypeOK, CallInv, TimedOut, Op
<1>1. ASSUME NEW t \in Thread, NEW k \in Op, Call(t, k) PROVE CallInv'
  BY <1>1 DEF Call, Goto
<1>2. ASSUME NEW t \in Thread, CallUnlock(t) PROVE CallInv'
  BY <1>2 DEF CallUnlock, Goto
<1>3. ASSUME NEW t \in Thread, Enter(t) PROVE CallInv'
  BY <1>3 DEF Enter, Goto
<1>4. ASSUME NEW t \in Thread, Take(t) PROVE CallInv'
  BY <1>4 DEF Take
<1>5. ASSUME NEW t \in Thread, Block(t) PROVE CallInv'
  BY <1>5 DEF Block, Goto, CondWait
<1>6. ASSUME NEW t \in Thread, WakeUp(t) PROVE CallInv'
  BY <1>6 DEF WakeUp, CondReturn
<1>7. ASSUME NEW t \in Thread, Retake(t) PROVE CallInv'
  BY <1>7 DEF Retake, Goto
<1>8. ASSUME NEW t \in Thread, Fail(t) PROVE CallInv'
  BY <1>8 DEF Fail, Goto
<1>9. ASSUME NEW t \in Thread, Expire(t) PROVE CallInv'
  BY <1>9 DEF Expire
<1>10. ASSUME NEW t \in Thread, EnterUnlock(t) PROVE CallInv'
  BY <1>10 DEF EnterUnlock, Goto
<1>11. ASSUME NEW t \in Thread, Clear(t) PROVE CallInv'
  BY <1>11 DEF Clear, Goto
<1>12. ASSUME NEW t \in Thread, Notify(t) PROVE CallInv'
  BY <1>12 DEF Notify, Goto, CondSignal
<1>13. CASE UNCHANGED vars
  BY <1>13 DEF vars
<1>14. QED
  BY <1>1, <1>2, <1>3, <1>4, <1>5, <1>6, <1>7, <1>8, <1>9, <1>10, <1>11,
     <1>12, <1>13 DEF Next, Step

\* Only Take gives the timed_mutex away, and it does so while _locked is 0,
\* which is to say nobody holds it; only Clear of the holder resets _locked.
LEMMA MutualExclusionStep ==
  ASSUME IInv, [Next]_vars
  PROVE  MutualExclusion'
<1> USE DEF IInv, TypeOK, MonitorTypeOK, MutualExclusion, Holds
<1>1. ASSUME NEW t \in Thread, NEW k \in Op, Call(t, k)
      PROVE MutualExclusion'
  BY <1>1 DEF Call, Goto
<1>2. ASSUME NEW t \in Thread, CallUnlock(t) PROVE MutualExclusion'
  BY <1>2 DEF CallUnlock, Goto
<1>3. ASSUME NEW t \in Thread, Enter(t) PROVE MutualExclusion'
  BY <1>3 DEF Enter, Goto
<1>4. ASSUME NEW t \in Thread, Take(t) PROVE MutualExclusion'
  BY <1>4 DEF Take, IsZero
<1>5. ASSUME NEW t \in Thread, Block(t) PROVE MutualExclusion'
  BY <1>5 DEF Block, Goto
<1>6. ASSUME NEW t \in Thread, WakeUp(t) PROVE MutualExclusion'
  BY <1>6 DEF WakeUp
<1>7. ASSUME NEW t \in Thread, Retake(t) PROVE MutualExclusion'
  BY <1>7 DEF Retake, Goto
<1>8. ASSUME NEW t \in Thread, Fail(t) PROVE MutualExclusion'
  BY <1>8 DEF Fail, Goto
<1>9. ASSUME NEW t \in Thread, Expire(t) PROVE MutualExclusion'
  BY <1>9 DEF Expire
<1>10. ASSUME NEW t \in Thread, EnterUnlock(t) PROVE MutualExclusion'
  BY <1>10 DEF EnterUnlock, Goto
<1>11. ASSUME NEW t \in Thread, Clear(t) PROVE MutualExclusion'
  BY <1>11 DEF Clear, Goto
<1>12. ASSUME NEW t \in Thread, Notify(t) PROVE MutualExclusion'
  BY <1>12 DEF Notify, Goto
<1>13. CASE UNCHANGED vars
  BY <1>13 DEF vars
<1>14. QED
  BY <1>1, <1>2, <1>3, <1>4, <1>5, <1>6, <1>7, <1>8, <1>9, <1>10, <1>11,
     <1>12, <1>13 DEF Next, Step

\* The argument against lost wake-ups.  A waiter is added by Block, which
\* read _locked # 0.  _locked becomes 0 in Clear only, whose thread has
\* notify_one still to call; when it calls it, a waiter leaves and contends.
\* A contender stops contending by taking the lock, or because it found
\* _locked # 0.
LEMMA NoStrandedWaiterStep ==
  ASSUME IInv, [Next]_vars
  PROVE  NoStrandedWaiter'
<1> USE DEF IInv, TypeOK, MonitorTypeOK, NoStrandedWaiter, Contends
<1>1. ASSUME NEW t \in Thread, NEW k \in Op, Call(t, k)
      PROVE NoStrandedWaiter'
  BY <1>1 DEF Call, Goto
<1>2. ASSUME NEW t \in Thread, CallUnlock(t) PROVE NoStrandedWaiter'
  BY <1>2 DEF CallUnlock, Goto
<1>3. ASSUME NEW t \in Thread, Enter(t) PROVE NoStrandedWaiter'
  BY <1>3 DEF Enter, Goto
<1>4. ASSUME NEW t \in Thread, Take(t) PROVE NoStrandedWaiter'
  BY <1>4 DEF Take
<1>5. ASSUME NEW t \in Thread, Block(t) PROVE NoStrandedWaiter'
  BY <1>5 DEF Block, IsZero
<1>6. ASSUME NEW t \in Thread, WakeUp(t) PROVE NoStrandedWaiter'
  BY <1>6 DEF WakeUp, CondReturn, CallInv
<1>7. ASSUME NEW t \in Thread, Retake(t) PROVE NoStrandedWaiter'
  BY <1>7 DEF Retake, Goto
<1>8. ASSUME NEW t \in Thread, Fail(t) PROVE NoStrandedWaiter'
  BY <1>8 DEF Fail, IsZero
<1>9. ASSUME NEW t \in Thread, Expire(t) PROVE NoStrandedWaiter'
  BY <1>9 DEF Expire
<1>10. ASSUME NEW t \in Thread, EnterUnlock(t) PROVE NoStrandedWaiter'
  BY <1>10 DEF EnterUnlock, Goto
<1>11. ASSUME NEW t \in Thread, Clear(t) PROVE NoStrandedWaiter'
  BY <1>11 DEF Clear, Goto
<1>12. ASSUME NEW t \in Thread, Notify(t) PROVE NoStrandedWaiter'
  <2>1. CASE waiters = {}
    BY <1>12, <2>1 DEF Notify, CondSignal
  <2>2. CASE waiters # {}
    <3>1. PICK w \in waiters : waiters' = waiters \ {w}
      BY <1>12, <2>2 DEF Notify, CondSignal
    <3>2. pc[w] = "wait" /\ pc'[w] = "wait"
      BY <1>12, <3>1 DEF CallInv, Notify, Goto
    <3>3. Contends(w)'
      BY <3>1, <3>2
    <3>4. QED
      BY <3>1, <3>3
  <2>3. QED
    BY <2>1, <2>2
<1>13. CASE UNCHANGED vars
  BY <1>13 DEF vars
<1>14. QED
  BY <1>1, <1>2, <1>3, <1>4, <1>5, <1>6, <1>7, <1>8, <1>9, <1>10, <1>11,
     <1>12, <1>13 DEF Next, Step

\* The inductive invariant holds of every call sequence of every thread
THEOREM Invariance == Spec => []IInv
<1>1. Init => IInv
  BY DEF Init, MonitorInit, IInv, TypeOK, MonitorTypeOK, Location, Op,
         MutexInv, Inside, CallInv, MutualExclusion, Holds, NoStrandedWaiter
<1>2. IInv /\ [Next]_vars /\ TypeOK' => IInv'
  BY MutexInvStep, CallInvStep, MutualExclusionStep, NoStrandedWaiterStep
     DEF IInv
<1>3. QED
  BY <1>1, <1>2, TypeCorrect, PTL DEF Spec

\* At most one thread holds the timed_mutex, whatever the number of threads
THEOREM MutualExclusionHolds == Spec => []MutualExclusion
<1>1. IInv => MutualExclusion
  BY DEF IInv
<1>2. QED
  BY <1>1, Invariance, PTL

\* unlock may notify after giving up _mutex without losing a wake-up
THEOREM NoLostWakeUp == Spec => []NoStrandedWaiter
<1>1. IInv => NoStrandedWaiter
  BY DEF IInv
<1>2. QED
  BY <1>1, Invariance, PTL

-----------------------------------------------------------------------------
(* Action properties.                                                       *)

\* try_lock_until returns false only after its deadline
THEOREM NoEarlyRefusalHolds == Spec => NoEarlyRefusal
<1> DEFINE NotEarly ==
      \A t \in Thread :
        op[t] = "timed" /\ ~expired[t] /\ pc[t] \in {"test", "lastTest"}
          => pc'[t] # "idle"
<1>1. IInv /\ [Next]_vars => [NotEarly]_vars
  <2> SUFFICES ASSUME IInv, [Next]_vars, NEW u \in Thread, op[u] = "timed",
                      ~expired[u], pc[u] \in {"test", "lastTest"}
               PROVE  pc'[u] # "idle"
    OBVIOUS
  <2> USE DEF IInv, TypeOK, CallInv, TimedOut
  <2>1. ASSUME NEW t \in Thread, Notify(t) PROVE pc'[u] # "idle"
    BY <2>1 DEF Notify, Goto
  <2>2. ASSUME NEW t \in Thread, Fail(t) PROVE pc'[u] # "idle"
    BY <2>2 DEF Fail, Goto
  <2>3. CASE UNCHANGED vars
    BY <2>3 DEF vars
  <2>4. ASSUME NEW t \in Thread, ~Notify(t), ~Fail(t),
               \/ \E k \in Op : Call(t, k)
               \/ CallUnlock(t) \/ Step(t) \/ WakeUp(t) \/ Expire(t)
        PROVE  pc'[u] # "idle"
    BY <2>4 DEF Step, Call, CallUnlock, WakeUp, Expire, Enter, Take, Block,
                Retake, EnterUnlock, Clear, Goto
  <2>5. QED
    BY <2>1, <2>2, <2>3, <2>4 DEF Next
<1>2. QED
  BY <1>1, Invariance, PTL DEF Spec, NoEarlyRefusal

-----------------------------------------------------------------------------
(* Refinement.  The holder of the abstract lock is the thread that is       *)
(* between Take and Clear, the abstract depth is 1 while there is one.      *)

\* The holder of the abstract lock is the thread between Take and Clear, if
\* there is one
LEMMA HolderFacts ==
  ASSUME MutualExclusion
  PROVE  /\ \A t \in Thread : Holds(t) => Holder = t
         /\ locked = 0 => Holder = NoThread
         /\ locked # 0 => Holder \in Thread
<1>1. ASSUME NEW t \in Thread, Holds(t) PROVE Holder = t
  <2>1. \A u \in Thread : Holds(u) <=> u = t
    BY <1>1 DEF MutualExclusion
  <2>2. Holds(CHOOSE u \in Thread : Holds(u))
    BY <1>1
  <2>3. (CHOOSE u \in Thread : Holds(u)) \in Thread
    BY <1>1
  <2>4. QED
    BY <1>1, <2>1, <2>2, <2>3 DEF Holder
<1>2. locked = 0 => Holder = NoThread
  BY DEF Holder, MutualExclusion
<1>3. locked # 0 => Holder \in Thread
  BY <1>1 DEF MutualExclusion
<1>4. QED
  BY <1>1, <1>2, <1>3

\* The same after a step
LEMMA HolderFactsAfter ==
  ASSUME MutualExclusion'
  PROVE  /\ \A t \in Thread : Holds(t)' => Holder' = t
         /\ locked' = 0 => Holder' = NoThread
         /\ locked' # 0 => Holder' \in Thread
<1>1. ASSUME NEW t \in Thread, Holds(t)' PROVE Holder' = t
  <2>1. \A u \in Thread : Holds(u)' <=> u = t
    BY <1>1 DEF MutualExclusion
  <2>2. (CHOOSE u \in Thread : Holds(u)') = t
    BY <1>1, <2>1
  <2>3. QED
    BY <1>1, <2>2 DEF Holder
<1>2. locked' = 0 => Holder' = NoThread
  BY DEF Holder, MutualExclusion
<1>3. locked' # 0 => Holder' \in Thread
  BY <1>1 DEF MutualExclusion
<1>4. QED
  BY <1>1, <1>2, <1>3

\* The abstract request of each thread, as the refinement maps it
RequestOf == [t \in Thread |-> IF InLock(t) THEN op[t] ELSE "none"]

\* Every step of a timed_mutex is a step of the abstract lock, or leaves it
\* as it was
LEMMA StepRefines ==
  ASSUME IInv, IInv', [Next]_vars
  PROVE  [Abs!AbsNext]_(Abs!absVars)
<1> DEFINE D == IF locked = 0 THEN 0 ELSE 1
<1> USE DEF IInv, TypeOK, InLock
<1>a. /\ \A t \in Thread : Holds(t) => Holder = t
      /\ locked = 0 => Holder = NoThread
      /\ locked # 0 => Holder \in Thread
  BY HolderFacts
<1>b. /\ \A t \in Thread : Holds(t)' => Holder' = t
      /\ locked' = 0 => Holder' = NoThread
      /\ locked' # 0 => Holder' \in Thread
  BY HolderFactsAfter
<1> SUFFICES ASSUME TRUE
             PROVE  \/ \E t \in Thread : \/ \E k \in Op : Abs!Request(t, k)
                                         \/ Abs!Grant(t)
                                         \/ Abs!Refuse(t)
                                         \/ Abs!Release(t)
                    \/ UNCHANGED << Holder, D, RequestOf >>
  BY DEF Abs!AbsNext, Abs!absVars, Abs!Kind, Op, RequestOf
<1>h. ASSUME UNCHANGED << locked >>, \A t \in Thread : Holds(t) <=> Holds(t)'
      PROVE  UNCHANGED << Holder, D >>
  BY <1>a, <1>b, <1>h DEF MutualExclusion
<1>1. ASSUME NEW t \in Thread, NEW k \in Op, Call(t, k)
      PROVE  Abs!Request(t, k)
  <2>1. UNCHANGED << Holder, D >>
    BY <1>1, <1>h DEF Call, Goto, Holds
  <2>2. RequestOf' = [RequestOf EXCEPT ![t] = k]
    BY <1>1 DEF Call, Goto, RequestOf
  <2>3. RequestOf[t] = "none"
    BY <1>1 DEF Call, Goto, RequestOf
  <2>4. QED
    BY <2>1, <2>2, <2>3 DEF Abs!Request, RequestOf
<1>2. ASSUME NEW t \in Thread, Take(t)
      PROVE  Abs!Grant(t)
  <2>1. Holder = NoThread /\ Holder' = t /\ D' = D + 1
    BY <1>2, <1>a, <1>b DEF Take, IsZero, Holds
  <2>2. RequestOf' = [RequestOf EXCEPT ![t] = "none"]
    BY <1>2 DEF Take, RequestOf
  <2>3. RequestOf[t] \in Op
    BY <1>2 DEF Take, RequestOf
  <2>4. QED
    BY <2>1, <2>2, <2>3 DEF Abs!Grant, Abs!Grantable, Abs!Kind, Op, RequestOf
<1>3. ASSUME NEW t \in Thread, Fail(t)
      PROVE  Abs!Refuse(t)
  <2>1. Holder \in Thread /\ UNCHANGED << Holder, D >>
    BY <1>3, <1>a, <1>h DEF Fail, IsZero, Goto, Holds
  <2>2. RequestOf' = [RequestOf EXCEPT ![t] = "none"]
    BY <1>3 DEF Fail, Goto, RequestOf
  <2>3. RequestOf[t] \in {"try", "timed"}
    BY <1>3 DEF Fail, Goto, RequestOf, CallInv, TimedOut
  <2>4. D = 1
    BY <1>3 DEF Fail, IsZero
  <2>5. QED
    BY <2>1, <2>2, <2>3, <2>4
       DEF Abs!Refuse, Abs!Grantable, Abs!Kind, RequestOf
<1>4. ASSUME NEW t \in Thread, Clear(t)
      PROVE  Abs!Release(t)
  <2>1. Holder = t /\ Holder' = NoThread /\ D = 1 /\ D' = 0
    BY <1>4, <1>a, <1>b DEF Clear, Goto, Holds, MutualExclusion
  <2>2. RequestOf' = RequestOf
    BY <1>4 DEF Clear, Goto, RequestOf
  <2>3. RequestOf[t] = "none"
    BY <1>4 DEF Clear, Goto, RequestOf
  <2>4. QED
    BY <2>1, <2>2, <2>3 DEF Abs!Release, RequestOf
<1>5. ASSUME NEW t \in Thread,
             \/ CallUnlock(t) \/ Enter(t) \/ Block(t) \/ WakeUp(t)
             \/ Retake(t) \/ Expire(t) \/ EnterUnlock(t) \/ Notify(t)
      PROVE  UNCHANGED << Holder, D, RequestOf >>
  <2>1. UNCHANGED << Holder, D >>
    BY <1>5, <1>h DEF CallUnlock, Enter, Block, WakeUp, Retake, Expire,
       EnterUnlock, Notify, Goto, Holds
  <2>2. RequestOf' = RequestOf
    BY <1>5 DEF CallUnlock, Enter, Block, WakeUp, Retake, Expire,
       EnterUnlock, Notify, Goto, RequestOf
  <2>3. QED
    BY <2>1, <2>2
<1>6. CASE UNCHANGED vars
  BY <1>6, <1>h DEF vars, Holds, RequestOf
<1>7. QED
  BY <1>1, <1>2, <1>3, <1>4, <1>5, <1>6 DEF Next, Step

\* A timed_mutex is granted and refused like a lock with no inside
THEOREM Refinement == Spec => ImplementsLock
<1>1. Init => Abs!AbsInit
  BY DEF Init, Abs!AbsInit, Holder, Holds, InLock
<1>2. IInv /\ IInv' /\ [Next]_vars => [Abs!AbsNext]_(Abs!absVars)
  BY StepRefines
<1>3. QED
  BY <1>1, <1>2, Invariance, PTL DEF Spec, ImplementsLock, Abs!AbsSpec

=============================================================================
