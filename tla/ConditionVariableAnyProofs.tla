---------------------- MODULE ConditionVariableAnyProofs ----------------------
(***************************************************************************)
(* Proofs about condition_variable_any and its clients, for any finite set *)
(* of threads and any bound on the items: no wake-up is lost, and threads  *)
(* in wait are immune to the destruction of the condition variable.        *)
(***************************************************************************)
EXTENDS ConditionVariableAny, FiniteSetTheorems, TLAPS

USE NoThreadAssumption, MaxItemsAssumption

\* Where a thread holds the client's lock ...
Locked == {"test", "enter", "unlock", "lastTest", "put", "close"}

\* ... and where the inner mutex
Inside == {"unlock", "block", "leave", "signal", "broadcast"}

\* Where it is in wait, with a share in the inner mutex
InWait == {"enter", "unlock", "block", "wait", "leave", "relock"}

\* Where it is between closing the queue and destroying it
Closing == {"notifyAll", "broadcast", "closed"}

\* A producer may hold the client's lock while it notifies
LockInv ==
  \A t \in Thread :
    /\ pc[t] \in Locked => lock = t
    /\ lock = t => pc[t] \in Locked \cup {"notify", "signal"}

MutexInv == \A t \in Thread : mutex = t <=> pc[t] \in Inside

WaitInv ==
  \A t \in Thread : /\ t \in waiters => pc[t] = "wait"
                    /\ t \in aux <=> pc[t] \in InWait

\* What a thread found out under the client's lock still holds while it has
\* it: wait was called because there was nothing to take
ClientInv ==
  \A t \in Thread :
    /\ pc[t] \in {"put", "close", "enter", "unlock"} => ~closed
    /\ pc[t] = "put" => items < MaxItems
    /\ pc[t] \in {"enter", "unlock"} => items = 0

\* One thread closes the queue.  Who is about to block then holds the inner
\* mutex, which notify_all has still to take; who is blocked then is woken
\* by it.
CloseInv ==
  /\ \A t \in Thread : pc[t] \in Closing => closed /\ alive
  /\ \A t, u \in Thread : pc[t] \in Closing /\ pc[u] \in Closing => t = u
  /\ closed => /\ (\E t \in Thread : pc[t] = "block")
                    => \E t \in Thread : pc[t] = "notifyAll"
               /\ waiters # {}
                    => \E t \in Thread : pc[t] \in {"notifyAll", "broadcast"}
  /\ ~alive => closed /\ \A t \in Thread : pc[t] \notin {"notify", "signal"}

SafeInv == TypeOK /\ LockInv /\ MutexInv /\ WaitInv /\ ClientInv /\ CloseInv

\* Those who will notify a waiter, or look at the predicate themselves
Serving == {t \in Thread : pc[t] \in {"notify", "signal"} \/ Contends(t)}

\* NoStrandedConsumer speaks of the blocked; those who are about to block
\* are owed as much, for the items may come before they are
ItemsInv ==
  waiters # {} \/ (\E t \in Thread : pc[t] \in {"enter", "unlock", "block"})
    => items <= Cardinality(Serving)

IInv == SafeInv /\ ItemsInv

-----------------------------------------------------------------------------

\* The two locks, the shares in the inner mutex and the way the queue is
\* closed, through every step
LEMMA SafeStep ==
  ASSUME SafeInv, [Next]_vars
  PROVE  SafeInv'
<1> USE DEF SafeInv, TypeOK, MonitorTypeOK, Location, LockInv, Locked, MutexInv,
            Inside, WaitInv, InWait, ClientInv, CloseInv, Closing,
            inner, client, object
<1>1. ASSUME NEW t \in Thread, Consume(t) PROVE SafeInv'
  BY <1>1 DEF Consume, Goto, ClientLock
<1>2. ASSUME NEW t \in Thread, Produce(t) PROVE SafeInv'
  BY <1>2 DEF Produce, Goto, ClientLock
<1>3. ASSUME NEW t \in Thread, Put(t) PROVE SafeInv'
  BY <1>3 DEF Put, Goto, ClientUnlock
<1>4. ASSUME NEW t \in Thread, BeginClose(t) PROVE SafeInv'
  BY <1>4 DEF BeginClose, Goto, ClientLock
<1>5. ASSUME NEW t \in Thread, Close(t) PROVE SafeInv'
  BY <1>5 DEF Close, Goto, ClientUnlock
<1>6. ASSUME NEW t \in Thread, Take(t) PROVE SafeInv'
  BY <1>6 DEF Take, Ready, ClientUnlock
<1>7. ASSUME NEW t \in Thread, GiveUp(t) PROVE SafeInv'
  BY <1>7 DEF GiveUp, Goto, ClientUnlock
<1>8. ASSUME NEW t \in Thread, BeginWait(t) PROVE SafeInv'
  BY <1>8 DEF BeginWait, Ready, Goto
<1>9. ASSUME NEW t \in Thread, Enter(t) PROVE SafeInv'
  BY <1>9 DEF Enter, Goto, MutexLock
<1>10. ASSUME NEW t \in Thread, Unlock(t) PROVE SafeInv'
  BY <1>10 DEF Unlock, Goto, ClientUnlock
<1>11. ASSUME NEW t \in Thread, Block(t) PROVE SafeInv'
  BY <1>11 DEF Block, Goto, CondWait, MutexUnlock
<1>12. ASSUME NEW t \in Thread, WakeUp(t) PROVE SafeInv'
  BY <1>12 DEF WakeUp, CondReturn
<1>13. ASSUME NEW t \in Thread, Retake(t) PROVE SafeInv'
  BY <1>13 DEF Retake, Goto, MutexLock
<1>14. ASSUME NEW t \in Thread, Leave(t) PROVE SafeInv'
  BY <1>14 DEF Leave, Goto, MutexUnlock
<1>15. ASSUME NEW t \in Thread, Relock(t) PROVE SafeInv'
  BY <1>15 DEF Relock, Goto, ClientLock
<1>16. ASSUME NEW t \in Thread, Expire(t) PROVE SafeInv'
  BY <1>16 DEF Expire
<1>17. ASSUME NEW t \in Thread, EnterNotify(t) PROVE SafeInv'
  BY <1>17 DEF EnterNotify, Goto, MutexLock
<1>18. ASSUME NEW t \in Thread, NotifyOne(t) PROVE SafeInv'
  BY <1>18 DEF NotifyOne, Goto, CondSignal, MutexUnlock
<1>19. ASSUME NEW t \in Thread, NotifyAll(t) PROVE SafeInv'
  <2>1. \A u \in Thread : pc[u] # "block"
    BY <1>19 DEF NotifyAll, Goto
  <2>2. TypeOK' /\ LockInv' /\ MutexInv' /\ WaitInv' /\ ClientInv'
    BY <1>19 DEF NotifyAll, Goto, MutexUnlock
  <2>3. CloseInv'
    BY <1>19, <2>1 DEF NotifyAll, Goto
  <2>4. QED
    BY <2>2, <2>3
<1>20. ASSUME NEW t \in Thread, Destroy(t) PROVE SafeInv'
  <2>1. \A u \in Thread : pc[u] \in Closing => u = t
    BY <1>20 DEF Destroy, Goto
  <2>2. waiters = {} /\ \A u \in Thread : pc[u] # "block"
    BY <1>20, <2>1 DEF Destroy, Goto
  <2>3. TypeOK' /\ LockInv' /\ MutexInv' /\ WaitInv' /\ ClientInv'
    BY <1>20, ZenonT(60) DEF Destroy, Goto
  <2>4. CloseInv'
    BY <1>20, <2>1, <2>2 DEF Destroy, Goto
  <2>5. QED
    BY <2>3, <2>4
<1>21. CASE Construct
  <2>1. TypeOK'
    <3>1. items' \in 0..MaxItems
      BY <1>21 DEF Construct
    <3>2. QED
      BY <1>21, <3>1, Zenon DEF Construct
  <2>2. LockInv' /\ MutexInv' /\ WaitInv' /\ ClientInv' /\ CloseInv'
    BY <1>21 DEF Construct
  <2>3. QED
    BY <2>1, <2>2
<1>22. CASE UNCHANGED vars
  BY <1>22 DEF vars
<1>23. QED
  BY <1>1, <1>2, <1>3, <1>4, <1>5, <1>6, <1>7, <1>8, <1>9, <1>10, <1>11,
     <1>12, <1>13, <1>14, <1>15, <1>16, <1>17, <1>18, <1>19, <1>20, <1>21,
     <1>22 DEF Next, Step

-----------------------------------------------------------------------------
(* The argument against lost wake-ups.                                      *)

\* A step after which everybody who served still does
LEMMA ServingKept ==
  ASSUME Serving \subseteq Serving'
  PROVE  Cardinality(Serving) <= Cardinality(Serving')
<1>1. IsFiniteSet(Serving')
  BY FiniteThreadsAssumption, FS_Subset DEF Serving
<1>2. QED
  BY <1>1, FS_Subset

\* A step in which one thread stops serving
LEMMA ServingLessOne ==
  ASSUME NEW t, Serving \ {t} \subseteq Serving'
  PROVE  /\ Cardinality(Serving) \in Nat /\ Cardinality(Serving') \in Nat
         /\ Cardinality(Serving) - 1 <= Cardinality(Serving')
<1>1. IsFiniteSet(Serving) /\ IsFiniteSet(Serving')
  BY FiniteThreadsAssumption, FS_Subset DEF Serving
<1>2. /\ IsFiniteSet(Serving \ {t})
      /\ Cardinality(Serving \ {t}) >= Cardinality(Serving) - 1
  <2>1. Cardinality(Serving) \in Nat
    BY <1>1, FS_CardinalityType
  <2>2. IsFiniteSet(Serving \ {t})
    BY <1>1, FS_RemoveElement
  <2>3. Cardinality(Serving \ {t})
          = IF t \in Serving THEN Cardinality(Serving) - 1 ELSE Cardinality(Serving)
    BY <1>1, FS_RemoveElement
  <2>4. QED
    BY <2>1, <2>2, <2>3
<1>3. Cardinality(Serving \ {t}) <= Cardinality(Serving')
  BY <1>1, FS_Subset
<1>4. Cardinality(Serving \ {t}) \in Nat
  BY <1>2, FS_CardinalityType
<1>5. QED
  BY <1>1, <1>2, <1>3, <1>4, FS_CardinalityType

\* A step in which one more thread serves
LEMMA ServingOneMore ==
  ASSUME NEW t \in Thread, t \notin Serving, Serving \cup {t} \subseteq Serving'
  PROVE  /\ Cardinality(Serving) \in Nat /\ Cardinality(Serving') \in Nat
         /\ Cardinality(Serving) + 1 <= Cardinality(Serving')
<1>1. IsFiniteSet(Serving) /\ IsFiniteSet(Serving')
  BY FiniteThreadsAssumption, FS_Subset DEF Serving
<1>2. Cardinality(Serving \cup {t}) = Cardinality(Serving) + 1
  BY <1>1, FS_AddElement
<1>3. Cardinality(Serving \cup {t}) <= Cardinality(Serving')
  BY <1>1, FS_Subset
<1>4. QED
  BY <1>1, <1>2, <1>3, FS_CardinalityType

\* A step in which one thread takes over from another
LEMMA ServingPassedOn ==
  ASSUME NEW t \in Serving, NEW w \in Thread \ Serving,
         (Serving \ {t}) \cup {w} \subseteq Serving'
  PROVE  Cardinality(Serving) <= Cardinality(Serving')
<1>1. IsFiniteSet(Serving) /\ IsFiniteSet(Serving')
  BY FiniteThreadsAssumption, FS_Subset DEF Serving
<1>2. /\ IsFiniteSet(Serving \ {t})
      /\ Cardinality(Serving \ {t}) = Cardinality(Serving) - 1
  BY <1>1, FS_RemoveElement
<1>3. Cardinality((Serving \ {t}) \cup {w}) = Cardinality(Serving)
  BY <1>1, <1>2, FS_AddElement, FS_CardinalityType, SMTT(30)
<1>4. Cardinality((Serving \ {t}) \cup {w}) <= Cardinality(Serving')
  BY <1>1, FS_Subset
<1>5. QED
  BY <1>3, <1>4

\* An item that is added brings a notify_one with it; it is taken by one who
\* served; a notify_one makes the thread it wakes serve in its place.  A
\* thread starts to wait only while there is no item, and as it holds one of
\* the two locks until it is blocked, no signal falls in between.
LEMMA ItemsStep ==
  ASSUME IInv, SafeInv', [Next]_vars
  PROVE  ItemsInv'
<1> USE DEF IInv, SafeInv, TypeOK, MonitorTypeOK, inner, client, object
<1> DEFINE Blocking == waiters # {} \/ \E t \in Thread :
                                pc[t] \in {"enter", "unlock", "block"}
<1>i. Cardinality(Serving) \in Nat /\ Cardinality(Serving') \in Nat
  <2>1. IsFiniteSet(Serving) /\ IsFiniteSet(Serving')
    BY FiniteThreadsAssumption, FS_Subset DEF Serving
  <2>2. QED
    BY <2>1, FS_CardinalityType
<1>k. ASSUME Serving \subseteq Serving', items' = items, Blocking' => Blocking
      PROVE  ItemsInv'
  BY <1>k, <1>i, ServingKept DEF ItemsInv
<1>z. ASSUME items' = 0 PROVE ItemsInv'
  BY <1>z, <1>i DEF ItemsInv
<1>1. ASSUME NEW t \in Thread, Consume(t) PROVE ItemsInv'
  BY <1>1, <1>k DEF Consume, Goto, Serving, Contends
<1>2. ASSUME NEW t \in Thread, Produce(t) PROVE ItemsInv'
  BY <1>2, <1>k DEF Produce, Goto, Serving, Contends
<1>3. ASSUME NEW t \in Thread, Put(t) PROVE ItemsInv'
  <2>1. t \notin Serving /\ Serving \cup {t} \subseteq Serving'
    BY <1>3 DEF Put, Goto, Serving, Contends
  <2>2. Blocking' => Blocking
    BY <1>3 DEF Put, Goto
  <2>3. items' = items + 1 /\ items \in Nat
    BY <1>3 DEF Put
  <2>4. Cardinality(Serving) + 1 <= Cardinality(Serving')
    BY <2>1, ServingOneMore
  <2>5. QED
    BY <2>2, <2>3, <2>4, <1>i DEF ItemsInv
<1>4. ASSUME NEW t \in Thread, BeginClose(t) PROVE ItemsInv'
  BY <1>4, <1>k DEF BeginClose, Goto, Serving, Contends
<1>5. ASSUME NEW t \in Thread, Close(t) PROVE ItemsInv'
  BY <1>5, <1>k DEF Close, Goto, Serving, Contends
<1>6. ASSUME NEW t \in Thread, Take(t) PROVE ItemsInv'
  <2>1. Serving \ {t} \subseteq Serving'
    BY <1>6 DEF Take, Serving, Contends
  <2>2. Blocking' => Blocking
    BY <1>6 DEF Take
  <2>3. items' = 0 \/ (items' = items - 1 /\ items \in Nat)
    BY <1>6 DEF Take
  <2>4. Cardinality(Serving) - 1 <= Cardinality(Serving')
    BY <2>1, ServingLessOne
  <2>5. QED
    BY <2>2, <2>3, <2>4, <1>i, <1>z DEF ItemsInv
<1>7. ASSUME NEW t \in Thread, GiveUp(t) \/ BeginWait(t) PROVE ItemsInv'
  BY <1>7, <1>z DEF GiveUp, BeginWait, Ready
<1>9. ASSUME NEW t \in Thread, Enter(t) PROVE ItemsInv'
  BY <1>9, <1>k DEF Enter, Goto, Serving, Contends
<1>10. ASSUME NEW t \in Thread, Unlock(t) PROVE ItemsInv'
  BY <1>10, <1>k DEF Unlock, Goto, Serving, Contends
<1>11. ASSUME NEW t \in Thread, Block(t) PROVE ItemsInv'
  <2>1. Serving \subseteq Serving'
    BY <1>11 DEF Block, Goto, CondWait, WaitInv, Serving, Contends
  <2>2. QED
    BY <1>11, <1>k, <2>1 DEF Block, Goto
<1>12. ASSUME NEW t \in Thread, WakeUp(t) PROVE ItemsInv'
  BY <1>12, <1>k DEF WakeUp, CondReturn, Serving, Contends
<1>13. ASSUME NEW t \in Thread, Retake(t) PROVE ItemsInv'
  BY <1>13, <1>k DEF Retake, Goto, Serving, Contends
<1>14. ASSUME NEW t \in Thread, Leave(t) PROVE ItemsInv'
  BY <1>14, <1>k DEF Leave, Goto, Serving, Contends
<1>15. ASSUME NEW t \in Thread, Relock(t) PROVE ItemsInv'
  BY <1>15, <1>k DEF Relock, Goto, Serving, Contends
<1>16. ASSUME NEW t \in Thread, Expire(t) PROVE ItemsInv'
  BY <1>16, <1>k DEF Expire, Serving, Contends
<1>17. ASSUME NEW t \in Thread, EnterNotify(t) PROVE ItemsInv'
  BY <1>17, <1>k DEF EnterNotify, Goto, Serving, Contends
<1>18. ASSUME NEW t \in Thread, NotifyOne(t) PROVE ItemsInv'
  <2>1. CASE waiters = {}
    <3>1. \A u \in Thread : pc[u] \notin {"unlock", "block"}
      BY <1>18 DEF NotifyOne, Goto, MutexInv, Inside
    <3>2. CASE \E u \in Thread : pc[u] = "enter"
      BY <1>18, <1>z, <3>2 DEF NotifyOne, ClientInv
    <3>3. CASE \A u \in Thread : pc[u] # "enter"
      BY <1>18, <2>1, <3>1, <3>3 DEF NotifyOne, Goto, CondSignal, ItemsInv
    <3>4. QED
      BY <3>2, <3>3
  <2>2. CASE waiters # {}
    <3>1. PICK w \in waiters : waiters' = waiters \ {w}
      BY <1>18, <2>2 DEF NotifyOne, CondSignal
    <3>2. t \in Serving /\ w \in Thread \ Serving
      BY <1>18, <3>1 DEF NotifyOne, Goto, WaitInv, Serving, Contends
    <3>3. (Serving \ {t}) \cup {w} \subseteq Serving'
      BY <1>18, <3>1 DEF NotifyOne, Goto, WaitInv, Serving, Contends
    <3>4. Cardinality(Serving) <= Cardinality(Serving')
      BY <3>2, <3>3, ServingPassedOn
    <3>5. items' = items
      BY <1>18 DEF NotifyOne
    <3>6. QED
      BY <2>2, <3>4, <3>5, <1>i DEF ItemsInv
  <2>3. QED
    BY <2>1, <2>2
<1>19. ASSUME NEW t \in Thread, NotifyAll(t) PROVE ItemsInv'
  <2>1. Serving \subseteq Serving'
    BY <1>19 DEF NotifyAll, Goto, Serving, Contends
  <2>2. QED
    BY <1>19, <1>k, <2>1 DEF NotifyAll, Goto
<1>20. ASSUME NEW t \in Thread, Destroy(t) PROVE ItemsInv'
  BY <1>20, <1>k DEF Destroy, Goto, Serving, Contends
<1>21. CASE Construct
  BY <1>21, <1>z DEF Construct
<1>22. CASE UNCHANGED vars
  BY <1>22, <1>k DEF vars, Serving, Contends
<1>23. QED
  BY <1>1, <1>2, <1>3, <1>4, <1>5, <1>6, <1>7, <1>9, <1>10, <1>11, <1>12,
     <1>13, <1>14, <1>15, <1>16, <1>17, <1>18, <1>19, <1>20, <1>21, <1>22
     DEF Next, Step

\* The inductive invariant holds of the condition variable and its clients
THEOREM Invariance == Spec => []IInv
<1>1. Init => IInv
  <2> SUFFICES ASSUME Init PROVE IInv
    OBVIOUS
  <2>1. SafeInv
    <3>1. TypeOK
      <4>1. items \in 0..MaxItems
        BY DEF Init
      <4>2. QED
        BY <4>1, Zenon DEF Init, MonitorInit, TypeOK, MonitorTypeOK, Location
    <3>2. LockInv /\ MutexInv /\ WaitInv /\ ClientInv /\ CloseInv
      BY DEF Init, MonitorInit, LockInv, Locked, MutexInv, Inside, WaitInv,
             InWait, ClientInv, CloseInv, Closing
    <3>3. QED
      BY <3>1, <3>2 DEF SafeInv
  <2>2. ItemsInv
    BY DEF Init, MonitorInit, ItemsInv
  <2>3. QED
    BY <2>1, <2>2 DEF IInv
<1>2. IInv /\ [Next]_vars => IInv'
  BY SafeStep, ItemsStep DEF IInv
<1>3. QED
  BY <1>1, <1>2, PTL DEF Spec

\* No variable has a value of another type, and the count of the items stays
\* within the bound
THEOREM TypeCorrect == Spec => []TypeOK
<1>1. IInv => TypeOK
  BY DEF IInv, SafeInv
<1>2. QED
  BY <1>1, Invariance, PTL

\* While consumers are blocked, every item has someone who will notify or
\* look, and a closed queue has someone who will notify all
THEOREM NoLostWakeUp == Spec => []NoStrandedConsumer
<1>1. IInv => NoStrandedConsumer
  BY DEF IInv, SafeInv, ItemsInv, CloseInv, Serving, NoStrandedConsumer
<1>2. QED
  BY <1>1, Invariance, PTL

\* The condition variable may be destroyed while the woken are on their way
\* out of wait
THEOREM DestructionImmunity == Spec => []ImmuneToDestruction
<1>1. IInv => ImmuneToDestruction
  <2> SUFFICES ASSUME SafeInv, ~alive PROVE ImmuneToDestruction
    BY DEF IInv, ImmuneToDestruction
  <2>1. closed /\ \A t \in Thread : pc[t] \notin Closing
    BY DEF SafeInv, CloseInv
  <2>2. waiters = {} /\ \A t \in Thread : pc[t] # "block"
    BY <2>1 DEF SafeInv, CloseInv, Closing
  <2>3. QED
    BY <2>1, <2>2 DEF SafeInv, CloseInv, ClientInv, WaitInv, InWait,
                      ImmuneToDestruction
<1>2. QED
  BY <1>1, Invariance, PTL

=============================================================================
