---------------------------- MODULE WorkersProofs ----------------------------
(***************************************************************************)
(* Proofs about threads and the facilities they share, for any finite set  *)
(* of threads, any objects, mutexes and lock variables, and any number of  *)
(* permits.  A behaviour of the whole is one of each part, so that what is *)
(* proved of a part holds of the whole; what join promises takes them all. *)
(***************************************************************************)
EXTENDS Workers, SharedPtrProofs

USE NamesAssumption

-----------------------------------------------------------------------------
(* The parts of a program.                                                 *)

\* A step of the program is a step of the main thread and the threads'
\* lives, or leaves them alone
LEMMA HandleStep ==
  ASSUME [WorkersNext]_workersVars
  PROVE  [Handle!Next]_(Handle!vars)
<1>1. CASE ManageThreads
  BY <1>1 DEF ManageThreads, Handle!Next
<1>2. ASSUME NEW t \in Thread, Work(t)
      PROVE  UNCHANGED Handle!vars
  BY <1>2 DEF Work, handleVars, Handle!vars
<1>3. CASE UNCHANGED workersVars
  BY <1>3 DEF workersVars, handleVars, Handle!vars
<1>4. QED
  BY <1>1, <1>2, <1>3 DEF WorkersNext

\* ... of a thread with its locks
LEMMA LocksStep ==
  ASSUME [WorkersNext]_workersVars
  PROVE  [Locks!Next]_(Locks!vars)
<1>1. CASE ManageThreads
  BY <1>1 DEF ManageThreads, lockVars, Locks!vars
<1>2. ASSUME NEW t \in Thread, Work(t)
      PROVE  [Locks!Next]_(Locks!vars)
  BY <1>2 DEF Work, lockVars, Locks!vars, Locks!Next
<1>3. CASE UNCHANGED workersVars
  BY <1>3 DEF workersVars, lockVars, Locks!vars
<1>4. QED
  BY <1>1, <1>2, <1>3 DEF WorkersNext

\* ... of a thread with the semaphore
LEMMA SemaphoreStep ==
  ASSUME [WorkersNext]_workersVars
  PROVE  [Semaphore!Next]_(Semaphore!vars)
<1>1. CASE ManageThreads
  BY <1>1 DEF ManageThreads, semaphoreVars, Semaphore!vars
<1>2. ASSUME NEW t \in Thread, Work(t)
      PROVE  [Semaphore!Next]_(Semaphore!vars)
  BY <1>2 DEF Work, semaphoreVars, Semaphore!vars, Semaphore!Next
<1>3. CASE UNCHANGED workersVars
  BY <1>3 DEF workersVars, semaphoreVars, Semaphore!vars
<1>4. QED
  BY <1>1, <1>2, <1>3 DEF WorkersNext

\* ... of a thread with its pointers
LEMMA PointersStep ==
  ASSUME [WorkersNext]_workersVars
  PROVE  [Next]_vars
<1>1. CASE ManageThreads
  BY <1>1 DEF ManageThreads
<1>2. ASSUME NEW t \in Thread, Work(t)
      PROVE  [Next]_vars
  BY <1>2 DEF Work, Next
<1>3. CASE UNCHANGED workersVars
  BY <1>3 DEF workersVars
<1>4. QED
  BY <1>1, <1>2, <1>3 DEF WorkersNext

\* A program with threads that come and go is, for each of its parts, one of
\* the programs the part was specified for
THEOREM Parts ==
  WorkersSpec => Handle!Spec /\ Locks!Spec /\ Semaphore!Spec /\ Spec
<1>1. WorkersInit => Handle!Init /\ Locks!Init /\ Semaphore!Init /\ Init
  BY DEF WorkersInit
<1>2. [WorkersNext]_workersVars => /\ [Handle!Next]_(Handle!vars)
                                   /\ [Locks!Next]_(Locks!vars)
                                   /\ [Semaphore!Next]_(Semaphore!vars)
                                   /\ [Next]_vars
  BY HandleStep, LocksStep, SemaphoreStep, PointersStep
<1>3. QED
  BY <1>1, <1>2, PTL DEF WorkersSpec, Handle!Spec, Locks!Spec, Semaphore!Spec, Spec

-----------------------------------------------------------------------------
(* thread.                                                                 *)

\* An id that an object names is that of a thread neither joined nor
\* detached, which no other object names; a detached thread has not ended
HandleInv ==
  /\ Handle!TypeOK
  /\ \A o \in Object : object[o] \in Thread =>
       pthread[object[o]] # "unused" /\ object[o] \notin detached
  /\ \A o, p \in Object : object[o] \in Thread /\ object[o] = object[p] => o = p
  /\ \A i \in Thread : pthread[i] # "unused" /\ i \notin detached =>
       \E o \in Object : object[o] = i
  /\ \A i \in detached : pthread[i] \in {"started", "running"}
  /\ CallableFreedOnce

LEMMA HandleInit ==
  ASSUME Handle!Init
  PROVE  HandleInv
<1>1. Handle!TypeOK
  BY DEF Handle!Init, Handle!TypeOK
<1>2. QED
  BY <1>1 DEF Handle!Init, HandleInv, CallableFreedOnce, Handle!CallableFreedOnce

\* The objects of the threads as they are, but for the id that moved
LEMMA MoveInv ==
  ASSUME HandleInv, NEW o \in Object, NEW p \in Object, o # p,
         object[o] \notin Thread, object[p] # Absent, Handle!Move(o, p)
  PROVE  HandleInv'
<1> USE DEF HandleInv
<1>1. /\ object' = [object EXCEPT ![o] = object[p], ![p] = NoId]
      /\ UNCHANGED << pthread, detached, freed, main >>
  BY DEF Handle!Move
<1>2. /\ object'[o] = object[p] /\ object'[p] = NoId
      /\ \A q \in Object \ {o, p} : object'[q] = object[q]
      /\ object' \in [Object -> Thread \cup {NoId, Absent}]
  BY <1>1 DEF Handle!TypeOK
<1>3. Handle!TypeOK'
  BY <1>1, <1>2 DEF Handle!TypeOK
<1>4. ASSUME NEW q \in Object, object'[q] \in Thread
      PROVE  pthread'[object'[q]] # "unused" /\ object'[q] \notin detached'
  BY <1>1, <1>2, <1>4
<1>5. ASSUME NEW q \in Object, NEW r \in Object, object'[q] \in Thread,
             object'[q] = object'[r]
      PROVE  q = r
  BY <1>2, <1>5
<1>6. ASSUME NEW i \in Thread, pthread'[i] # "unused", i \notin detached'
      PROVE  \E q \in Object : object'[q] = i
  <2>1. PICK q \in Object : object[q] = i
    BY <1>1, <1>6
  <2>2. q # o
    BY <2>1
  <2>3. CASE q = p
    BY <1>2, <2>1, <2>3
  <2>4. CASE q # p
    BY <1>2, <2>1, <2>2, <2>4
  <2>5. QED
    BY <2>3, <2>4
<1>7. (\A i \in detached : pthread[i] \in {"started", "running"})'
  BY <1>1
<1>8. CallableFreedOnce'
  BY <1>1 DEF CallableFreedOnce, Handle!CallableFreedOnce
<1>9. QED
  BY <1>3, <1>4, <1>5, <1>6, <1>7, <1>8

\* An object that names thread i gives it up: the thread was joined, or is
\* detached
LEMMA GiveUpInv ==
  ASSUME HandleInv, NEW o \in Object, NEW i \in Thread, object[o] = i,
         object' = [object EXCEPT ![o] = NoId],
         \/ /\ pthread[i] = "ended"
            /\ pthread' = [pthread EXCEPT ![i] = "unused"]
            /\ UNCHANGED detached
         \/ /\ pthread[i] # "ended"
            /\ detached' = detached \cup {i}
            /\ UNCHANGED pthread,
         Handle!TypeOK', UNCHANGED freed
  PROVE  HandleInv'
<1> USE DEF HandleInv
<1>1. /\ object'[o] = NoId
      /\ \A q \in Object \ {o} : object'[q] = object[q]
      /\ \A q \in Object \ {o} : object[q] # i
  BY DEF Handle!TypeOK
<1>2. /\ \A j \in Thread \ {i} : pthread'[j] = pthread[j]
      /\ detached' \subseteq detached \cup {i} /\ detached \subseteq detached'
      /\ pthread'[i] = "unused" \/ i \in detached'
      /\ pthread[i] # "unused" /\ pthread[i] \in {"started", "running", "ended"}
      /\ i \in detached' => pthread'[i] \in {"started", "running"}
  BY DEF Handle!TypeOK
<1>3. ASSUME NEW q \in Object, object'[q] \in Thread
      PROVE  pthread'[object'[q]] # "unused" /\ object'[q] \notin detached'
  BY <1>1, <1>2, <1>3
<1>4. ASSUME NEW q \in Object, NEW r \in Object, object'[q] \in Thread,
             object'[q] = object'[r]
      PROVE  q = r
  BY <1>1, <1>4
<1>5. ASSUME NEW j \in Thread, pthread'[j] # "unused", j \notin detached'
      PROVE  \E q \in Object : object'[q] = j
  <2>1. j # i
    BY <1>2, <1>5
  <2>2. PICK q \in Object : object[q] = j
    BY <1>2, <1>5, <2>1
  <2>3. q # o
    BY <2>1, <2>2
  <2>4. QED
    BY <1>1, <2>2, <2>3
<1>6. ASSUME NEW j \in detached'
      PROVE  pthread'[j] \in {"started", "running"}
  BY <1>2 DEF Handle!TypeOK
<1>7. CallableFreedOnce'
  <2>1. ASSUME NEW j \in Thread
        PROVE  \/ pthread'[j] = pthread[j]
               \/ pthread[j] = "ended" /\ pthread'[j] = "unused"
    <3>1. CASE j = i
      <4>1. CASE pthread[i] = "ended"
        BY <3>1, <4>1 DEF Handle!TypeOK
      <4>2. CASE pthread[i] # "ended"
        BY <3>1, <4>2
      <4>3. QED
        BY <4>1, <4>2
    <3>2. CASE j # i
      BY <1>2, <3>2
    <3>3. QED
      BY <3>1, <3>2
  <2>2. QED
    BY <2>1 DEF CallableFreedOnce, Handle!CallableFreedOnce
<1>8. QED
  BY <1>3, <1>4, <1>5, <1>6, <1>7

\* No object and no thread changes
LEMMA HandleKept ==
  ASSUME HandleInv, UNCHANGED << object, pthread, detached, freed >>,
         Handle!TypeOK'
  PROVE  HandleInv'
BY DEF HandleInv, CallableFreedOnce, Handle!CallableFreedOnce

LEMMA TerminateInv ==
  ASSUME HandleInv, Handle!Terminate
  PROVE  HandleInv'
<1>1. Handle!TypeOK'
  BY DEF HandleInv, Handle!Terminate, Handle!TypeOK
<1>2. QED
  BY <1>1, HandleKept DEF Handle!Terminate

LEMMA MainInv ==
  ASSUME HandleInv, Handle!Main
  PROVE  HandleInv'
<1>1. ASSUME NEW o \in Object, Handle!DefaultConstruct(o)
      PROVE  HandleInv'
  <2>1. /\ object'[o] = NoId /\ object[o] = Absent
        /\ \A q \in Object \ {o} : object'[q] = object[q]
        /\ object' \in [Object -> Thread \cup {NoId, Absent}]
        /\ UNCHANGED << pthread, detached, freed, main >>
    BY <1>1 DEF HandleInv, Handle!DefaultConstruct, Handle!TypeOK
  <2>2. Handle!TypeOK'
    BY <2>1 DEF HandleInv, Handle!TypeOK
  <2>3. ASSUME NEW i \in Thread, NEW q \in Object
        PROVE  object'[q] = i <=> object[q] = i
    BY <2>1
  <2>4. CallableFreedOnce'
    BY <2>1 DEF HandleInv, CallableFreedOnce, Handle!CallableFreedOnce
  <2>5. QED
    BY <2>1, <2>2, <2>3, <2>4 DEF HandleInv
<1>2. ASSUME NEW o \in Object, Handle!Construct(o)
      PROVE  HandleInv'
  <2>1. PICK i \in Thread :
          /\ pthread[i] = "unused"
          /\ object' = [object EXCEPT ![o] = i]
          /\ pthread' = [pthread EXCEPT ![i] = "started"]
          /\ freed' = [freed EXCEPT ![i] = 0]
          /\ main' = [at |-> "created", id |-> i]
    BY <1>2 DEF Handle!Construct
  <2>2. Handle!TypeOK'
    BY <1>2, <2>1 DEF HandleInv, Handle!TypeOK, Handle!Construct
  <2>3. /\ object'[o] = i /\ object[o] = Absent
        /\ \A q \in Object \ {o} : object'[q] = object[q]
    BY <1>2, <2>1 DEF HandleInv, Handle!Construct, Handle!TypeOK
  <2>4. /\ pthread'[i] = "started" /\ freed'[i] = 0
        /\ \A j \in Thread \ {i} : pthread'[j] = pthread[j] /\ freed'[j] = freed[j]
        /\ detached' = detached /\ i \notin detached
    BY <1>2, <2>1 DEF HandleInv, Handle!Construct, Handle!TypeOK
  <2>5. \A q \in Object : object[q] # i
    BY <2>1 DEF HandleInv
  <2>6. ASSUME NEW q \in Object, object'[q] \in Thread
        PROVE  pthread'[object'[q]] # "unused" /\ object'[q] \notin detached'
    BY <2>3, <2>4, <2>5, <2>6 DEF HandleInv
  <2>7. ASSUME NEW q \in Object, NEW r \in Object, object'[q] \in Thread,
               object'[q] = object'[r]
        PROVE  q = r
    BY <2>3, <2>5, <2>7 DEF HandleInv
  <2>8. ASSUME NEW j \in Thread, pthread'[j] # "unused", j \notin detached'
        PROVE  \E q \in Object : object'[q] = j
    BY <2>3, <2>4, <2>8 DEF HandleInv
  <2>9. ASSUME NEW j \in detached'
        PROVE  pthread'[j] \in {"started", "running"}
    BY <2>4 DEF HandleInv, Handle!TypeOK
  <2>10. CallableFreedOnce'
    BY <2>4 DEF HandleInv, CallableFreedOnce, Handle!CallableFreedOnce
  <2>11. QED
    BY <2>2, <2>6, <2>7, <2>8, <2>9, <2>10 DEF HandleInv
<1>3. ASSUME NEW o \in Object, Handle!Destroy(o)
      PROVE  HandleInv'
  <2>1. CASE Handle!Joinable(o)
    BY <1>3, <2>1, TerminateInv DEF Handle!Destroy
  <2>2. CASE ~Handle!Joinable(o)
    <3>1. /\ object'[o] = Absent /\ object[o] \notin Thread
          /\ \A q \in Object \ {o} : object'[q] = object[q]
          /\ object' \in [Object -> Thread \cup {NoId, Absent}]
          /\ UNCHANGED << pthread, detached, freed, main >>
      BY <1>3, <2>2 DEF HandleInv, Handle!Destroy, Handle!Joinable, Handle!TypeOK
    <3>2. Handle!TypeOK'
      BY <3>1 DEF HandleInv, Handle!TypeOK
    <3>3. ASSUME NEW i \in Thread, NEW q \in Object
          PROVE  object'[q] = i <=> object[q] = i
      BY <3>1
    <3>4. CallableFreedOnce'
      BY <3>1 DEF HandleInv, CallableFreedOnce, Handle!CallableFreedOnce
    <3>5. QED
      BY <3>1, <3>2, <3>3, <3>4 DEF HandleInv
  <2>3. QED
    BY <2>1, <2>2
<1>4. ASSUME NEW o \in Object, Handle!Join(o)
      PROVE  HandleInv'
  <2>1. Handle!TypeOK'
    BY <1>4 DEF HandleInv, Handle!Join, Handle!Joinable, Handle!TypeOK
  <2>2. QED
    BY <1>4, <2>1, HandleKept DEF Handle!Join
<1>5. ASSUME NEW o \in Object, Handle!JoinReturns(o)
      PROVE  HandleInv'
  <2> DEFINE i == object[o]
  <2>1. i \in Thread
    BY <1>5 DEF HandleInv, Handle!JoinReturns, Handle!TypeOK
  <2>2. /\ pthread[i] = "ended" /\ pthread' = [pthread EXCEPT ![i] = "unused"]
        /\ object' = [object EXCEPT ![o] = NoId] /\ UNCHANGED << detached, freed >>
    BY <1>5 DEF Handle!JoinReturns
  <2>3. Handle!TypeOK'
    BY <1>5, <2>1 DEF HandleInv, Handle!JoinReturns, Handle!TypeOK
  <2>4. QED
    BY <2>1, <2>2, <2>3, GiveUpInv
<1>6. ASSUME NEW o \in Object, Handle!Detach(o)
      PROVE  HandleInv'
  <2> DEFINE i == object[o]
  <2>1. i \in Thread
    BY <1>6 DEF Handle!Detach, Handle!Joinable
  <2>2. /\ object' = [object EXCEPT ![o] = NoId] /\ UNCHANGED << freed, main >>
        /\ \/ /\ pthread[i] = "ended"
              /\ pthread' = [pthread EXCEPT ![i] = "unused"]
              /\ UNCHANGED detached
           \/ /\ pthread[i] # "ended"
              /\ detached' = detached \cup {i}
              /\ UNCHANGED pthread
    BY <1>6 DEF Handle!Detach
  <2>3. Handle!TypeOK'
    BY <2>1, <2>2 DEF HandleInv, Handle!TypeOK
  <2>4. QED
    BY <2>1, <2>2, <2>3, GiveUpInv
<1>7. ASSUME NEW o \in Object, NEW p \in Object, Handle!MoveConstruct(o, p)
      PROVE  HandleInv'
  BY <1>7, MoveInv DEF Handle!MoveConstruct
<1>8. ASSUME NEW o \in Object, NEW p \in Object, Handle!MoveAssign(o, p)
      PROVE  HandleInv'
  BY <1>8, MoveInv, TerminateInv DEF Handle!MoveAssign, Handle!Joinable
<1>9. CASE Handle!ReleaseCallable
  <2>1. Handle!TypeOK'
    BY <1>9 DEF HandleInv, Handle!ReleaseCallable, Handle!TypeOK
  <2>2. QED
    BY <1>9, <2>1, HandleKept DEF Handle!ReleaseCallable
<1>10. QED
  BY <1>1, <1>2, <1>3, <1>4, <1>5, <1>6, <1>7, <1>8, <1>9 DEF Handle!Main

\* The life of a thread
LEMMA LifeInv ==
  ASSUME HandleInv, NEW i \in Thread,
         Handle!Begin(i) \/ Handle!End(i) \/ Handle!Throw(i)
  PROVE  HandleInv'
<1>1. CASE Handle!Begin(i)
  <2>1. /\ pthread[i] = "started" /\ pthread'[i] = "running"
        /\ \A j \in Thread \ {i} : pthread'[j] = pthread[j]
        /\ UNCHANGED << object, detached, freed, main >>
    BY <1>1 DEF HandleInv, Handle!Begin, Handle!TypeOK
  <2>2. Handle!TypeOK'
    BY <1>1 DEF HandleInv, Handle!Begin, Handle!TypeOK
  <2>3. CallableFreedOnce'
    BY <2>1 DEF HandleInv, CallableFreedOnce, Handle!CallableFreedOnce
  <2>4. \A j \in Thread : pthread'[j] = "unused" <=> pthread[j] = "unused"
    BY <2>1
  <2>5. \A j \in detached' : pthread'[j] \in {"started", "running"}
    BY <2>1 DEF HandleInv, Handle!TypeOK
  <2>6. QED
    BY <2>1, <2>2, <2>3, <2>4, <2>5 DEF HandleInv
<1>2. CASE Handle!End(i)
  <2>1. /\ pthread[i] = "running" /\ freed[i] = 0
        /\ pthread'[i] = IF i \in detached THEN "unused" ELSE "ended"
        /\ \A j \in Thread \ {i} : pthread'[j] = pthread[j] /\ freed'[j] = freed[j]
        /\ detached' = detached \ {i} /\ UNCHANGED << object, main >>
    BY <1>2 DEF HandleInv, Handle!End, Handle!TypeOK, CallableFreedOnce,
                Handle!CallableFreedOnce
  <2>2. freed'[i] = 1
    BY <1>2, <2>1 DEF HandleInv, Handle!End, Handle!TypeOK
  <2>3. Handle!TypeOK'
    <3>1. pthread' \in [Thread -> {"unused", "started", "running", "ended"}]
      BY <1>2 DEF HandleInv, Handle!End, Handle!TypeOK
    <3>2. freed' \in [Thread -> Nat]
      BY <1>2 DEF HandleInv, Handle!End, Handle!TypeOK
    <3>3. QED
      BY <2>1, <3>1, <3>2 DEF HandleInv, Handle!TypeOK
  <2>4. CallableFreedOnce'
    BY <2>1, <2>2 DEF HandleInv, CallableFreedOnce, Handle!CallableFreedOnce
  <2>5. ASSUME NEW q \in Object, object'[q] \in Thread
        PROVE  pthread'[object'[q]] # "unused" /\ object'[q] \notin detached'
    BY <2>1, <2>5 DEF HandleInv
  <2>6. ASSUME NEW j \in Thread, pthread'[j] # "unused", j \notin detached'
        PROVE  \E q \in Object : object'[q] = j
    BY <2>1, <2>6 DEF HandleInv
  <2>7. ASSUME NEW j \in detached'
        PROVE  pthread'[j] \in {"started", "running"}
    BY <2>1 DEF HandleInv, Handle!TypeOK
  <2>8. QED
    BY <2>1, <2>3, <2>4, <2>5, <2>6, <2>7 DEF HandleInv
<1>3. CASE Handle!Throw(i)
  BY <1>3, TerminateInv DEF Handle!Throw
<1>4. QED
  BY <1>1, <1>2, <1>3

LEMMA HandleInvStep ==
  ASSUME HandleInv, [Handle!Next]_(Handle!vars)
  PROVE  HandleInv'
<1>1. CASE UNCHANGED Handle!vars
  BY <1>1, HandleKept DEF HandleInv, Handle!vars, Handle!TypeOK
<1>2. QED
  BY <1>1, MainInv, LifeInv DEF Handle!Next

THEOREM HandleInvariance == WorkersSpec => []HandleInv
<1>1. Handle!Init => HandleInv
  BY HandleInit
<1>2. HandleInv /\ [Handle!Next]_(Handle!vars) => HandleInv'
  BY HandleInvStep
<1>3. Handle!Spec => []HandleInv
  BY <1>1, <1>2, PTL DEF Handle!Spec
<1>4. QED
  BY <1>3, Parts, PTL

\* One thread object names each thread that was neither joined nor detached,
\* and none names another, however the objects were moved
THEOREM OneHandlePerThreadHolds == WorkersSpec => []OneHandlePerThread
<1>1. HandleInv => OneHandlePerThread
  <2> SUFFICES ASSUME HandleInv, NEW i \in Thread
               PROVE  IF pthread[i] = "unused" \/ i \in detached
                      THEN {o \in Object : object[o] = i} = {}
                      ELSE \E o \in Object : {p \in Object : object[p] = i} = {o}
    BY DEF OneHandlePerThread, Handle!OneHandlePerThread
  <2>1. CASE pthread[i] = "unused" \/ i \in detached
    BY <2>1 DEF HandleInv
  <2>2. CASE ~(pthread[i] = "unused" \/ i \in detached)
    <3>1. PICK o \in Object : object[o] = i
      BY <2>2 DEF HandleInv
    <3>2. {p \in Object : object[p] = i} = {o}
      BY <3>1 DEF HandleInv
    <3>3. QED
      BY <2>2, <3>2
  <2>3. QED
    BY <2>1, <2>2
<1>2. QED
  BY <1>1, HandleInvariance, PTL

\* The callable is deleted when its thread is over, once, and not before
THEOREM CallableFreedOnceHolds == WorkersSpec => []CallableFreedOnce
<1>1. HandleInv => CallableFreedOnce
  BY DEF HandleInv
<1>2. QED
  BY <1>1, HandleInvariance, PTL

-----------------------------------------------------------------------------
(* unique_lock, shared_lock and lock_guard.                                *)

LockValue == [mutex : Mutex \cup {Nil}, owns : BOOLEAN] \cup {Absent}

\* The mutex a variable is to unlock, or Nil
Owned(t, x) == IF lock[<< t, x >>] # Absent /\ lock[<< t, x >>].owns
               THEN lock[<< t, x >>].mutex ELSE Nil

\* A variable that owns has a mutex
OwnsMutex(t) ==
  \A x \in Variable : lock[<< t, x >>] # Absent /\ lock[<< t, x >>].owns =>
    lock[<< t, x >>].mutex # Nil

\* A thread holds the mutexes its variables own and those it holds by itself,
\* each of them in one way
ThreadHolds(t) ==
  /\ OwnsMutex(t)
  /\ \A x \in Variable : Owned(t, x) # Nil =>
       t \in holders[Owned(t, x)] /\ Owned(t, x) \notin direct[t]
  /\ \A x, y \in Variable : Owned(t, x) # Nil /\ Owned(t, x) = Owned(t, y) => x = y
  /\ \A m \in direct[t] : t \in holders[m]
  /\ \A m \in Mutex : t \in holders[m] =>
       m \in direct[t] \/ \E x \in Variable : Owned(t, x) = m

LocksInv == Locks!TypeOK /\ \A t \in Thread : ThreadHolds(t)

LEMMA OwnedType ==
  ASSUME Locks!TypeOK, NEW t \in Thread, NEW x \in Variable
  PROVE  Owned(t, x) \in Mutex \cup {Nil}
<1>1. lock[<< t, x >>] \in LockValue
  BY DEF Locks!TypeOK, LockValue
<1>2. QED
  BY <1>1 DEF Owned, LockValue

LEMMA LocksInit ==
  ASSUME Locks!Init
  PROVE  LocksInv
<1>1. Locks!TypeOK
  BY DEF Locks!Init, Locks!TypeOK
<1>2. \A t \in Thread, x \in Variable : lock[<< t, x >>] = Absent
  BY DEF Locks!Init
<1>3. QED
  BY <1>1, <1>2 DEF LocksInv, ThreadHolds, OwnsMutex, Owned, Locks!Init

\* What a thread does with a lock variable
OnVariable(t, v) ==
  \/ Locks!DefaultConstruct(v) \/ Locks!Lock(v) \/ Locks!Unlock(v)
  \/ Locks!ReleaseOwnership(v) \/ Locks!Destroy(v)
  \/ \E m \in Mutex : Locks!Defer(v, m) \/ Locks!Adopt(v, m)
  \/ \E w \in {t} \X Variable : Locks!MoveConstruct(v, w) \/ Locks!MoveAssign(v, w)

LEMMA StepCases ==
  ASSUME NEW t \in Thread, Locks!Step(t)
  PROVE  /\ UNCHANGED mode
         /\ \/ \E x \in Variable : OnVariable(t, << t, x >>)
            \/ \E m \in Mutex : Locks!LockDirectly(t, m) \/ Locks!UnlockDirectly(t, m)
<1>1. \A v \in {t} \X Variable : \E x \in Variable : v = << t, x >>
  OBVIOUS
<1>2. QED
  BY <1>1, ZenonT(60) DEF Locks!Step, OnVariable

\* A thread's step leaves the others' variables alone
LEMMA LocksOthers ==
  ASSUME Locks!TypeOK, NEW t \in Thread, NEW u \in Thread, u # t, Locks!Step(t)
  PROVE  /\ \A x \in Variable : lock'[<< u, x >>] = lock[<< u, x >>]
         /\ direct'[u] = direct[u]
         /\ \A m \in Mutex : u \in holders'[m] <=> u \in holders[m]
<1> USE DEF Locks!TypeOK
<1>1. ASSUME NEW n, Locks!Acquire(t, n) \/ Locks!Release(t, n) \/ holders' = holders
      PROVE  \A m \in Mutex : u \in holders'[m] <=> u \in holders[m]
  BY <1>1 DEF Locks!Acquire, Locks!Release
<1>2. ASSUME NEW x \in Variable, OnVariable(t, << t, x >>)
      PROVE  /\ \A y \in Variable : lock'[<< u, y >>] = lock[<< u, y >>]
             /\ direct'[u] = direct[u]
             /\ \E n : Locks!Acquire(t, n) \/ Locks!Release(t, n) \/ holders' = holders
  <2> DEFINE v == << t, x >>
  <2>1. v[1] = t
    OBVIOUS
  <2>2. ASSUME NEW y \in Variable
        PROVE  lock'[<< u, y >>] = lock[<< u, y >>]
    <3>1. << u, y >> \in Thread \X Variable /\ << u, y >> # v
      OBVIOUS
    <3>2. \A w \in {t} \X Variable : << u, y >> # w
      OBVIOUS
    <3> HIDE DEF v
    <3>3. QED
      BY <1>2, <3>1, <3>2
         DEF OnVariable, Locks!DefaultConstruct, Locks!Lock, Locks!Unlock,
             Locks!ReleaseOwnership, Locks!Destroy, Locks!Defer, Locks!Adopt,
             Locks!MoveConstruct, Locks!MoveAssign, v
  <2>3. direct'[u] = direct[u]
    BY <1>2, <2>1
       DEF OnVariable, Locks!DefaultConstruct, Locks!Lock, Locks!Unlock,
           Locks!ReleaseOwnership, Locks!Destroy, Locks!Defer, Locks!Adopt,
           Locks!MoveConstruct, Locks!MoveAssign
  <2>4. \E n : Locks!Acquire(t, n) \/ Locks!Release(t, n) \/ holders' = holders
    BY <1>2, <2>1
       DEF OnVariable, Locks!DefaultConstruct, Locks!Lock, Locks!Unlock,
           Locks!ReleaseOwnership, Locks!Destroy, Locks!Defer, Locks!Adopt,
           Locks!MoveConstruct, Locks!MoveAssign
  <2>5. QED
    BY <2>2, <2>3, <2>4
<1>3. ASSUME NEW m \in Mutex, Locks!LockDirectly(t, m) \/ Locks!UnlockDirectly(t, m)
      PROVE  /\ lock' = lock
             /\ direct'[u] = direct[u]
             /\ \E n : Locks!Acquire(t, n) \/ Locks!Release(t, n) \/ holders' = holders
  BY <1>3 DEF Locks!LockDirectly, Locks!UnlockDirectly
<1>4. QED
  BY <1>1, <1>2, <1>3, StepCases

LEMMA AcquireFacts ==
  ASSUME Locks!TypeOK, NEW t \in Thread, NEW STATE m, m \in Mutex, Locks!Acquire(t, m)
  PROVE  /\ holders' \in [Mutex -> SUBSET Thread]
         /\ writing' \in [Mutex -> BOOLEAN]
         /\ t \notin holders[m] /\ t \in holders'[m]
         /\ \A n \in Mutex \ {m} : holders'[n] = holders[n]
<1> USE DEF Locks!TypeOK
<1>1. writing' \in [Mutex -> BOOLEAN]
  <2>1. CASE mode[t] = "unique"
    BY <2>1 DEF Locks!Acquire
  <2>2. CASE mode[t] # "unique"
    BY <2>2 DEF Locks!Acquire
  <2>3. QED
    BY <2>1, <2>2
<1>2. QED
  BY <1>1 DEF Locks!Acquire

LEMMA ReleaseFacts ==
  ASSUME Locks!TypeOK, NEW t \in Thread, NEW STATE m, m \in Mutex, Locks!Release(t, m)
  PROVE  /\ holders' \in [Mutex -> SUBSET Thread]
         /\ writing' \in [Mutex -> BOOLEAN]
         /\ t \notin holders'[m]
         /\ \A n \in Mutex \ {m} : holders'[n] = holders[n]
BY DEF Locks!Release, Locks!TypeOK

\* A variable gets a new value
LEMMA LockExcept ==
  ASSUME Locks!TypeOK, NEW t \in Thread, NEW x \in Variable,
         NEW STATE r, r \in LockValue, lock' = [lock EXCEPT ![<< t, x >>] = r]
  PROVE  /\ lock' \in [Thread \X Variable -> LockValue]
         /\ lock'[<< t, x >>] = r
         /\ \A y \in Variable \ {x} : Owned(t, y)' = Owned(t, y)
         /\ \A y \in Variable \ {x} : lock'[<< t, y >>] = lock[<< t, y >>]
<1> USE DEF Locks!TypeOK, LockValue
<1>1. << t, x >> \in Thread \X Variable
  OBVIOUS
<1>2. lock' \in [Thread \X Variable -> LockValue] /\ lock'[<< t, x >>] = r
  BY <1>1
<1>3. ASSUME NEW y \in Variable \ {x}
      PROVE  lock'[<< t, y >>] = lock[<< t, y >>]
  <2>1. << t, y >> \in Thread \X Variable /\ << t, y >> # << t, x >>
    OBVIOUS
  <2>2. QED
    BY <2>1
<1>4. \A y \in Variable \ {x} : Owned(t, y)' = Owned(t, y)
  BY <1>3 DEF Owned
<1>5. QED
  BY <1>2, <1>3, <1>4

\* A variable gets what another one had
LEMMA LockMoved ==
  ASSUME Locks!TypeOK, NEW t \in Thread, NEW x \in Variable, NEW y \in Variable,
         \/ Locks!MoveConstruct(<< t, x >>, << t, y >>)
         \/ Locks!MoveAssign(<< t, x >>, << t, y >>)
  PROVE  /\ x # y
         /\ lock' \in [Thread \X Variable -> LockValue]
         /\ lock'[<< t, x >>] = lock[<< t, y >>]
         /\ Owned(t, x)' = Owned(t, y) /\ Owned(t, y)' = Nil
         /\ lock'[<< t, y >>] = Locks!None
         /\ \A z \in Variable \ {x, y} : Owned(t, z)' = Owned(t, z)
         /\ \A z \in Variable \ {x, y} : lock'[<< t, z >>] = lock[<< t, z >>]
<1> USE DEF Locks!TypeOK, LockValue
<1>1. /\ << t, x >> # << t, y >>
      /\ lock' = [lock EXCEPT ![<< t, x >>] = lock[<< t, y >>],
                             ![<< t, y >>] = Locks!None]
  BY DEF Locks!MoveConstruct, Locks!MoveAssign
<1>2. /\ << t, x >> \in Thread \X Variable /\ << t, y >> \in Thread \X Variable
      /\ x # y
  BY <1>1
<1>3. Locks!None \in LockValue /\ Locks!None.mutex = Nil /\ Locks!None.owns = FALSE
  BY DEF Locks!None
<1>4. /\ lock' \in [Thread \X Variable -> LockValue]
      /\ lock'[<< t, x >>] = lock[<< t, y >>]
      /\ lock'[<< t, y >>] = Locks!None
  BY <1>1, <1>2, <1>3
<1>5. ASSUME NEW z \in Variable \ {x, y}
      PROVE  lock'[<< t, z >>] = lock[<< t, z >>]
  <2>1. /\ << t, z >> \in Thread \X Variable
        /\ << t, z >> # << t, x >> /\ << t, z >> # << t, y >>
    OBVIOUS
  <2>2. QED
    BY <1>1, <2>1
<1>6. Owned(t, x)' = Owned(t, y) /\ Owned(t, y)' = Nil
  BY <1>2, <1>3, <1>4 DEF Owned
<1>7. \A z \in Variable \ {x, y} : Owned(t, z)' = Owned(t, z)
  BY <1>5 DEF Owned
<1>8. QED
  BY <1>2, <1>4, <1>5, <1>6, <1>7

\* The values of the variables
LEMMA Values ==
  /\ Locks!None \in LockValue /\ Locks!None # Absent
  /\ Locks!None.owns = FALSE /\ Locks!None.mutex = Nil
  /\ \A m \in Mutex \cup {Nil}, o \in BOOLEAN :
       /\ [mutex |-> m, owns |-> o] \in LockValue
       /\ [mutex |-> m, owns |-> o] # Absent
<1>1. ASSUME NEW m \in Mutex \cup {Nil}, NEW o \in BOOLEAN
      PROVE  [mutex |-> m, owns |-> o] \in [mutex : Mutex \cup {Nil}, owns : BOOLEAN]
  OBVIOUS
<1>2. \A r \in [mutex : Mutex \cup {Nil}, owns : BOOLEAN] :
        r \in LockValue /\ r # Absent
  BY DEF LockValue
<1>3. Locks!None \in [mutex : Mutex \cup {Nil}, owns : BOOLEAN]
  BY DEF Locks!None
<1>4. Locks!None.owns = FALSE /\ Locks!None.mutex = Nil
  BY DEF Locks!None
<1>5. QED
  BY <1>1, <1>2, <1>3, <1>4, Zenon

\* A step of thread t on its own variable x
LEMMA VariableInv ==
  ASSUME Locks!TypeOK, NEW t \in Thread, ThreadHolds(t), NEW x \in Variable,
         OnVariable(t, << t, x >>), UNCHANGED mode
  PROVE  Locks!TypeOK' /\ ThreadHolds(t)'
<1> DEFINE v == << t, x >>
<1> v[1] = t /\ v \in Thread \X Variable
  OBVIOUS
<1> HIDE DEF v
<1>1. /\ lock[v] \in LockValue /\ direct[t] \subseteq Mutex
      /\ \A y \in Variable : Owned(t, y) \in Mutex \cup {Nil}
  BY OwnedType DEF Locks!TypeOK, LockValue
<1>2. /\ lock[v] = Absent => Owned(t, x) = Nil
      /\ lock[v] # Absent /\ ~lock[v].owns => Owned(t, x) = Nil
      /\ lock[v] # Absent /\ lock[v].owns =>
           Owned(t, x) = lock[v].mutex /\ lock[v].mutex \in Mutex
      /\ lock[v] # Absent => lock[v].mutex \in Mutex \cup {Nil}
  BY <1>1 DEF ThreadHolds, OwnsMutex, Owned, LockValue, v
<1>3. CASE Locks!DefaultConstruct(v) \/ \E m \in Mutex : Locks!Defer(v, m)
  <2>1. PICK r \in LockValue : /\ lock' = [lock EXCEPT ![v] = r]
                              /\ r # Absent /\ r.owns = FALSE
    <3>1. CASE Locks!DefaultConstruct(v)
      BY <3>1, Values DEF Locks!DefaultConstruct
    <3>2. ASSUME NEW m \in Mutex, Locks!Defer(v, m)
          PROVE  \E r \in LockValue : /\ lock' = [lock EXCEPT ![v] = r]
                                      /\ r # Absent /\ r.owns = FALSE
      <4>1. /\ [mutex |-> m, owns |-> FALSE] \in LockValue
            /\ [mutex |-> m, owns |-> FALSE] # Absent
        BY Values
      <4>2. QED
        BY <3>2, <4>1 DEF Locks!Defer
    <3>3. QED
      BY <1>3, <3>1, <3>2
  <2>2. UNCHANGED << holders, writing, direct >> /\ lock[v] = Absent
    BY <1>3 DEF Locks!DefaultConstruct, Locks!Defer, Locks!Constructed
  <2>3. /\ lock' \in [Thread \X Variable -> LockValue]
        /\ lock'[v] = r
        /\ \A y \in Variable \ {x} : Owned(t, y)' = Owned(t, y)
        /\ \A y \in Variable \ {x} : lock'[<< t, y >>] = lock[<< t, y >>]
    BY <2>1, LockExcept DEF v
  <2>4. Owned(t, x)' = Owned(t, x)
    BY <1>2, <2>1, <2>2, <2>3 DEF Owned, v
  <2>5. OwnsMutex(t)'
    BY <2>1, <2>3 DEF ThreadHolds, OwnsMutex, v
  <2>6. Locks!TypeOK'
    BY <2>2, <2>3 DEF Locks!TypeOK, LockValue
  <2>7. \A y \in Variable : Owned(t, y)' = Owned(t, y)
    BY <2>3, <2>4
  <2>8. QED
    BY <2>2, <2>5, <2>6, <2>7 DEF ThreadHolds
<1>4. ASSUME NEW m \in Mutex, Locks!Adopt(v, m)
      PROVE  Locks!TypeOK' /\ ThreadHolds(t)'
  <2> DEFINE r == [mutex |-> m, owns |-> TRUE]
  <2>1. /\ r \in LockValue /\ r # Absent /\ lock' = [lock EXCEPT ![v] = r]
        /\ lock[v] = Absent /\ m \in direct[t]
        /\ direct' = [direct EXCEPT ![t] = @ \ {m}]
        /\ UNCHANGED << holders, writing >>
    BY <1>4, Values DEF Locks!Adopt, Locks!Constructed
  <2>2. /\ lock' \in [Thread \X Variable -> LockValue]
        /\ lock'[v] = r
        /\ \A y \in Variable \ {x} : Owned(t, y)' = Owned(t, y)
        /\ \A y \in Variable \ {x} : lock'[<< t, y >>] = lock[<< t, y >>]
    BY <2>1, LockExcept DEF v
  <2>3. Owned(t, x)' = m /\ r # Absent /\ r.mutex # Nil
    BY <2>1, <2>2 DEF Owned, v
  <2>4. OwnsMutex(t)'
    BY <2>2, <2>3 DEF ThreadHolds, OwnsMutex, v
  <2>5. direct' \in [Thread -> SUBSET Mutex] /\ direct'[t] = direct[t] \ {m}
    BY <2>1 DEF Locks!TypeOK
  <2>6. Locks!TypeOK'
    BY <2>1, <2>2, <2>5 DEF Locks!TypeOK, LockValue
  <2>7. \A y \in Variable : Owned(t, y) # m
    BY <2>1 DEF ThreadHolds
  <2>8. QED
    BY <1>2, <2>1, <2>2, <2>3, <2>4, <2>5, <2>6, <2>7 DEF ThreadHolds
<1>5. CASE Locks!Lock(v)
  <2> DEFINE m == lock[v].mutex
             r == [lock[v] EXCEPT !.owns = TRUE]
  <2>1. /\ m \in Mutex /\ Owned(t, x) = Nil /\ lock[v] # Absent
        /\ r \in LockValue /\ r # Absent /\ r.owns = TRUE /\ r.mutex = m
    BY <1>1, <1>2, <1>5 DEF Locks!Lock, Locks!Constructed, LockValue
  <2>2. /\ lock' = [lock EXCEPT ![v] = r] /\ Locks!Acquire(t, m)
        /\ UNCHANGED direct
    BY <1>5 DEF Locks!Lock
  <2>3. /\ lock' \in [Thread \X Variable -> LockValue]
        /\ lock'[v] = r
        /\ \A y \in Variable \ {x} : Owned(t, y)' = Owned(t, y)
        /\ \A y \in Variable \ {x} : lock'[<< t, y >>] = lock[<< t, y >>]
    BY <2>1, <2>2, LockExcept DEF v
  <2>4. /\ holders' \in [Mutex -> SUBSET Thread]
        /\ writing' \in [Mutex -> BOOLEAN]
        /\ t \notin holders[m] /\ t \in holders'[m]
        /\ \A n \in Mutex \ {m} : holders'[n] = holders[n]
    BY <2>1, <2>2, AcquireFacts
  <2>5. Locks!TypeOK'
    BY <2>2, <2>3, <2>4 DEF Locks!TypeOK, LockValue
  <2>6. Owned(t, x)' = m
    BY <2>1, <2>3 DEF Owned, v
  <2>7. OwnsMutex(t)'
    <3>1. lock'[<< t, x >>].mutex # Nil
      BY <2>1, <2>3 DEF v
    <3>2. QED
      BY <2>3, <3>1 DEF ThreadHolds, OwnsMutex
  <2>8. \A y \in Variable : Owned(t, y) # m
    BY <2>1, <2>4 DEF ThreadHolds
  <2> HIDE DEF m, r
  <2>9. \A y \in Variable : Owned(t, y)' # Nil =>
          t \in holders'[Owned(t, y)'] /\ Owned(t, y)' \notin direct'[t]
    BY <1>1, <2>1, <2>2, <2>3, <2>4, <2>6, <2>8 DEF ThreadHolds
  <2>10. \A y, z \in Variable : Owned(t, y)' # Nil /\ Owned(t, y)' = Owned(t, z)' =>
           y = z
    BY <1>1, <2>1, <2>3, <2>6, <2>8 DEF ThreadHolds
  <2>11. \A n \in direct'[t] : t \in holders'[n]
    BY <2>1, <2>2, <2>4 DEF ThreadHolds, Locks!TypeOK
  <2>12. \A n \in Mutex : t \in holders'[n] =>
           n \in direct'[t] \/ \E y \in Variable : Owned(t, y)' = n
    BY <1>1, <2>1, <2>2, <2>3, <2>4, <2>6 DEF ThreadHolds
  <2>13. QED
    BY <2>5, <2>7, <2>9, <2>10, <2>11, <2>12 DEF ThreadHolds
<1>6. CASE Locks!Unlock(v)
  <2> DEFINE m == lock[v].mutex
             r == [lock[v] EXCEPT !.owns = FALSE]
  <2>1. /\ m \in Mutex /\ Owned(t, x) = m /\ lock[v] # Absent
        /\ r \in LockValue /\ r # Absent /\ r.owns = FALSE
    BY <1>1, <1>2, <1>6 DEF Locks!Unlock, Locks!Constructed, LockValue
  <2>2. /\ lock' = [lock EXCEPT ![v] = r] /\ Locks!Release(t, m)
        /\ UNCHANGED direct
    BY <1>6 DEF Locks!Unlock
  <2>3. /\ lock' \in [Thread \X Variable -> LockValue]
        /\ lock'[v] = r
        /\ \A y \in Variable \ {x} : Owned(t, y)' = Owned(t, y)
        /\ \A y \in Variable \ {x} : lock'[<< t, y >>] = lock[<< t, y >>]
    BY <2>1, <2>2, LockExcept DEF v
  <2>4. /\ holders' \in [Mutex -> SUBSET Thread]
        /\ writing' \in [Mutex -> BOOLEAN]
        /\ t \notin holders'[m]
        /\ \A n \in Mutex \ {m} : holders'[n] = holders[n]
    BY <2>1, <2>2, ReleaseFacts
  <2>5. Locks!TypeOK'
    BY <2>2, <2>3, <2>4 DEF Locks!TypeOK, LockValue
  <2>6. Owned(t, x)' = Nil
    BY <2>1, <2>3 DEF Owned, v
  <2>7. OwnsMutex(t)'
    BY <2>1, <2>3 DEF ThreadHolds, OwnsMutex, v
  <2> HIDE DEF m, r
  <2>8. QED
    BY <1>1, <2>1, <2>2, <2>3, <2>4, <2>5, <2>6, <2>7 DEF ThreadHolds
<1>7. CASE Locks!ReleaseOwnership(v)
  <2>1. /\ Locks!None \in LockValue /\ Locks!None # Absent
        /\ Locks!None.owns = FALSE
    BY Values
  <2>2. /\ lock' = [lock EXCEPT ![v] = Locks!None]
        /\ UNCHANGED << holders, writing >> /\ lock[v] # Absent
        /\ direct' \in [Thread -> SUBSET Mutex]
        /\ direct'[t] = IF lock[v].owns THEN direct[t] \cup {lock[v].mutex}
                        ELSE direct[t]
    BY <1>2, <1>7 DEF Locks!ReleaseOwnership, Locks!Constructed, Locks!TypeOK
  <2>3. /\ lock' \in [Thread \X Variable -> LockValue]
        /\ lock'[v] = Locks!None
        /\ \A y \in Variable \ {x} : Owned(t, y)' = Owned(t, y)
        /\ \A y \in Variable \ {x} : lock'[<< t, y >>] = lock[<< t, y >>]
    BY <2>1, <2>2, LockExcept DEF v
  <2>4. Locks!TypeOK'
    BY <2>2, <2>3 DEF Locks!TypeOK, LockValue
  <2>5. Owned(t, x)' = Nil
    BY <2>1, <2>3 DEF Owned, v
  <2>6. OwnsMutex(t)'
    BY <2>1, <2>3 DEF ThreadHolds, OwnsMutex, v
  <2>7. direct'[t] = IF Owned(t, x) # Nil THEN direct[t] \cup {Owned(t, x)}
                     ELSE direct[t]
    BY <1>2, <2>2
  <2>8. QED
    BY <1>1, <2>2, <2>3, <2>4, <2>5, <2>6, <2>7 DEF ThreadHolds
<1>8. ASSUME NEW w \in {t} \X Variable,
             Locks!MoveConstruct(v, w) \/ Locks!MoveAssign(v, w)
      PROVE  Locks!TypeOK' /\ ThreadHolds(t)'
  <2>1. PICK y \in Variable : w = << t, y >>
    OBVIOUS
  <2>2. /\ x # y
        /\ lock' \in [Thread \X Variable -> LockValue]
        /\ lock'[<< t, x >>] = lock[<< t, y >>]
        /\ Owned(t, x)' = Owned(t, y) /\ Owned(t, y)' = Nil
        /\ lock'[<< t, y >>] = Locks!None
        /\ \A z \in Variable \ {x, y} : Owned(t, z)' = Owned(t, z)
        /\ \A z \in Variable \ {x, y} : lock'[<< t, z >>] = lock[<< t, z >>]
    BY <1>8, <2>1, LockMoved, SMTT(40) DEF v
  <2>3. UNCHANGED direct
    BY <1>8 DEF Locks!MoveConstruct, Locks!MoveAssign
  <2>4. Locks!None.owns = FALSE
    BY DEF Locks!None
  <2>5. OwnsMutex(t)'
    BY <2>2, <2>4 DEF ThreadHolds, OwnsMutex
  <2>6. /\ holders' \in [Mutex -> SUBSET Thread]
        /\ writing' \in [Mutex -> BOOLEAN]
        /\ Owned(t, x) # Nil => t \notin holders'[Owned(t, x)]
        /\ \A n \in Mutex \ {Owned(t, x)} : holders'[n] = holders[n]
    <3>1. CASE Locks!MoveAssign(v, w) /\ lock[v].owns
      <4>1. Owned(t, x) \in Mutex /\ Locks!Release(t, Owned(t, x))
        BY <1>2, <3>1 DEF Locks!MoveAssign, Locks!Constructed
      <4>2. QED
        BY <4>1, ReleaseFacts
    <3>2. CASE ~(Locks!MoveAssign(v, w) /\ lock[v].owns)
      <4>1. UNCHANGED << holders, writing >> /\ Owned(t, x) = Nil
        BY <1>2, <1>8, <3>2
           DEF Locks!MoveAssign, Locks!MoveConstruct, Locks!Constructed
      <4>2. QED
        BY <4>1 DEF Locks!TypeOK
    <3>3. QED
      BY <3>1, <3>2
  <2>7. Locks!TypeOK'
    BY <2>2, <2>3, <2>6 DEF Locks!TypeOK, LockValue
  <2>8. QED
    BY <1>1, <2>2, <2>3, <2>5, <2>6, <2>7 DEF ThreadHolds
<1>9. CASE Locks!Destroy(v)
  <2>1. /\ Absent \in LockValue /\ lock' = [lock EXCEPT ![v] = Absent]
        /\ lock[v] # Absent /\ UNCHANGED direct
    BY <1>9 DEF Locks!Destroy, Locks!Constructed, LockValue
  <2>2. /\ lock' \in [Thread \X Variable -> LockValue]
        /\ lock'[v] = Absent
        /\ \A y \in Variable \ {x} : Owned(t, y)' = Owned(t, y)
        /\ \A y \in Variable \ {x} : lock'[<< t, y >>] = lock[<< t, y >>]
    BY <2>1, LockExcept DEF v
  <2>3. Owned(t, x)' = Nil
    BY <2>2 DEF Owned, v
  <2>4. OwnsMutex(t)'
    BY <2>2 DEF ThreadHolds, OwnsMutex, v
  <2>5. /\ holders' \in [Mutex -> SUBSET Thread]
        /\ writing' \in [Mutex -> BOOLEAN]
        /\ Owned(t, x) # Nil => t \notin holders'[Owned(t, x)]
        /\ \A n \in Mutex \ {Owned(t, x)} : holders'[n] = holders[n]
    <3>1. CASE lock[v].owns
      <4>1. Owned(t, x) \in Mutex /\ Locks!Release(t, Owned(t, x))
        BY <1>2, <1>9, <2>1, <3>1 DEF Locks!Destroy
      <4>2. QED
        BY <4>1, ReleaseFacts
    <3>2. CASE ~lock[v].owns
      <4>1. UNCHANGED << holders, writing >> /\ Owned(t, x) = Nil
        BY <1>2, <1>9, <2>1, <3>2 DEF Locks!Destroy
      <4>2. QED
        BY <4>1 DEF Locks!TypeOK
    <3>3. QED
      BY <3>1, <3>2
  <2>6. Locks!TypeOK'
    BY <2>1, <2>2, <2>5 DEF Locks!TypeOK, LockValue
  <2>7. QED
    BY <1>1, <2>1, <2>2, <2>3, <2>4, <2>5, <2>6 DEF ThreadHolds
<1>10. QED
  BY <1>3, <1>4, <1>5, <1>6, <1>7, <1>8, <1>9 DEF OnVariable, v

\* A thread locks or unlocks a mutex by itself
LEMMA DirectInv ==
  ASSUME Locks!TypeOK, NEW t \in Thread, ThreadHolds(t), NEW m \in Mutex,
         Locks!LockDirectly(t, m) \/ Locks!UnlockDirectly(t, m), UNCHANGED mode
  PROVE  Locks!TypeOK' /\ ThreadHolds(t)'
<1>1. lock' = lock
  BY DEF Locks!LockDirectly, Locks!UnlockDirectly
<1>2. /\ \A x \in Variable : Owned(t, x)' = Owned(t, x)
      /\ \A x \in Variable : Owned(t, x) \in Mutex \cup {Nil}
      /\ OwnsMutex(t)' /\ direct[t] \subseteq Mutex
  BY <1>1, OwnedType DEF Owned, ThreadHolds, OwnsMutex, Locks!TypeOK
<1>3. CASE Locks!LockDirectly(t, m)
  <2>1. /\ holders' \in [Mutex -> SUBSET Thread] /\ writing' \in [Mutex -> BOOLEAN]
        /\ t \notin holders[m] /\ t \in holders'[m]
        /\ \A n \in Mutex \ {m} : holders'[n] = holders[n]
    BY <1>3, AcquireFacts DEF Locks!LockDirectly
  <2>2. direct' \in [Thread -> SUBSET Mutex] /\ direct'[t] = direct[t] \cup {m}
    BY <1>3 DEF Locks!LockDirectly, Locks!TypeOK
  <2>3. Locks!TypeOK'
    BY <1>1, <2>1, <2>2 DEF Locks!TypeOK
  <2>4. \A x \in Variable : Owned(t, x) # m
    BY <1>2, <2>1 DEF ThreadHolds
  <2>5. QED
    BY <1>2, <2>1, <2>2, <2>3, <2>4 DEF ThreadHolds
<1>4. CASE Locks!UnlockDirectly(t, m)
  <2>1. /\ holders' \in [Mutex -> SUBSET Thread] /\ writing' \in [Mutex -> BOOLEAN]
        /\ t \notin holders'[m]
        /\ \A n \in Mutex \ {m} : holders'[n] = holders[n]
    BY <1>4, ReleaseFacts DEF Locks!UnlockDirectly
  <2>2. /\ direct' \in [Thread -> SUBSET Mutex] /\ direct'[t] = direct[t] \ {m}
        /\ m \in direct[t]
    BY <1>4 DEF Locks!UnlockDirectly, Locks!TypeOK
  <2>3. Locks!TypeOK'
    BY <1>1, <2>1, <2>2 DEF Locks!TypeOK
  <2>4. \A x \in Variable : Owned(t, x) # m
    BY <1>2, <2>2 DEF ThreadHolds
  <2>5. QED
    BY <1>2, <2>1, <2>2, <2>3, <2>4 DEF ThreadHolds
<1>5. QED
  BY <1>3, <1>4

LEMMA LocksInvStep ==
  ASSUME LocksInv, [Locks!Next]_(Locks!vars)
  PROVE  LocksInv'
<1>1. ASSUME NEW t \in Thread, Locks!Step(t)
      PROVE  LocksInv'
  <2>1. Locks!TypeOK' /\ ThreadHolds(t)'
    BY <1>1, StepCases, VariableInv, DirectInv DEF LocksInv
  <2>2. ASSUME NEW u \in Thread, u # t
        PROVE  ThreadHolds(u)'
    <3>1. /\ \A x \in Variable : lock'[<< u, x >>] = lock[<< u, x >>]
          /\ direct'[u] = direct[u] /\ direct[u] \subseteq Mutex
          /\ \A m \in Mutex : u \in holders'[m] <=> u \in holders[m]
      BY <1>1, <2>2, LocksOthers DEF LocksInv, Locks!TypeOK
    <3>2. /\ \A x \in Variable : Owned(u, x)' = Owned(u, x)
          /\ \A x \in Variable : Owned(u, x) \in Mutex \cup {Nil}
          /\ OwnsMutex(u)'
      BY <3>1, OwnedType DEF LocksInv, ThreadHolds, OwnsMutex, Owned
    <3>3. QED
      BY <3>1, <3>2 DEF LocksInv, ThreadHolds
  <2>3. QED
    BY <2>1, <2>2 DEF LocksInv
<1>2. CASE UNCHANGED Locks!vars
  BY <1>2 DEF LocksInv, Locks!TypeOK, ThreadHolds, OwnsMutex, Owned, Locks!vars
<1>3. QED
  BY <1>1, <1>2 DEF Locks!Next

THEOREM LocksInvariance == WorkersSpec => []LocksInv
<1>1. Locks!Init => LocksInv
  BY LocksInit
<1>2. LocksInv /\ [Locks!Next]_(Locks!vars) => LocksInv'
  BY LocksInvStep
<1>3. Locks!Spec => []LocksInv
  BY <1>1, <1>2, PTL DEF Locks!Spec
<1>4. QED
  BY <1>3, Parts, PTL

LEMMA OwningRecord ==
  ASSUME NEW r \in [mutex : Mutex \cup {Nil}, owns : BOOLEAN], NEW m
  PROVE  r = [mutex |-> m, owns |-> TRUE] <=> r.mutex = m /\ r.owns
<1>1. r = [mutex |-> r.mutex, owns |-> r.owns] /\ r.owns \in BOOLEAN
  OBVIOUS
<1>2. CASE r.owns = TRUE
  BY <1>1, <1>2
<1>3. CASE r.owns = FALSE
  BY <1>1, <1>3
<1>4. QED
  BY <1>1, <1>2, <1>3

\* The parts count as the whole does
LEMMA SameCardinality ==
  ASSUME NEW S
  PROVE  Locks!Cardinality(S) = Cardinality(S) /\ Semaphore!Cardinality(S) = Cardinality(S)
BY DEF Locks!Cardinality, Semaphore!Cardinality, Cardinality

\* A mutex that is held is one variable's to unlock, or the thread's own
THEOREM HoldsAccountedHolds == WorkersSpec => []HoldsAccounted
<1> DEFINE owners(t, m) ==
             {x \in Variable :
                /\ Locks!Constructed(<< t, x >>)
                /\ lock[<< t, x >>] = [mutex |-> m, owns |-> TRUE]}
           others(t, m) == IF m \in direct[t] THEN 1 ELSE 0
<1>1. ASSUME LocksInv, NEW t \in Thread, NEW m \in Mutex
      PROVE  Cardinality(owners(t, m)) + others(t, m)
               = IF t \in holders[m] THEN 1 ELSE 0
  <2>1. ThreadHolds(t) /\ Locks!TypeOK
    BY <1>1 DEF LocksInv
  <2>2. \A x \in Variable : x \in owners(t, m) <=> Owned(t, x) = m
    <3> SUFFICES ASSUME NEW x \in Variable
                 PROVE  x \in owners(t, m) <=> Owned(t, x) = m
      OBVIOUS
    <3>1. lock[<< t, x >>] \in LockValue
      BY <2>1 DEF Locks!TypeOK, LockValue
    <3>2. CASE lock[<< t, x >>] = Absent
      BY <3>2 DEF Locks!Constructed, Owned
    <3>3. CASE lock[<< t, x >>] # Absent
      <4>1. lock[<< t, x >>] \in [mutex : Mutex \cup {Nil}, owns : BOOLEAN]
        BY <3>1, <3>3 DEF LockValue
      <4>2. lock[<< t, x >>] = [mutex |-> m, owns |-> TRUE]
              <=> lock[<< t, x >>].mutex = m /\ lock[<< t, x >>].owns
        BY <4>1, OwningRecord
      <4>3. QED
        BY <3>3, <4>2 DEF Locks!Constructed, Owned
    <3>4. QED
      BY <3>2, <3>3
  <2> HIDE DEF owners
  <2>3. owners(t, m) \subseteq Variable
    BY DEF owners
  <2>4. CASE \E x \in Variable : Owned(t, x) = m
    <3>1. PICK x \in Variable : Owned(t, x) = m
      BY <2>4
    <3>2. owners(t, m) = {x}
      BY <2>1, <2>2, <2>3, <3>1 DEF ThreadHolds
    <3>3. t \in holders[m] /\ m \notin direct[t]
      BY <2>1, <3>1 DEF ThreadHolds
    <3>4. Cardinality({x}) = 1
      BY FS_Singleton
    <3>5. QED
      BY <3>2, <3>3, <3>4
  <2>5. CASE ~\E x \in Variable : Owned(t, x) = m
    <3>1. owners(t, m) = {}
      BY <2>2, <2>3, <2>5
    <3>2. t \in holders[m] <=> m \in direct[t]
      BY <2>1, <2>5 DEF ThreadHolds
    <3>3. QED
      BY <3>1, <3>2, FS_EmptySet
  <2>6. QED
    BY <2>4, <2>5
<1>2. LocksInv => HoldsAccounted
  <2> SUFFICES ASSUME LocksInv, NEW t \in Thread, NEW m \in Mutex
               PROVE  Cardinality({x \in Variable :
                         /\ Locks!Constructed(<< t, x >>)
                         /\ lock[<< t, x >>] = [mutex |-> m, owns |-> TRUE]})
                        + (IF m \in direct[t] THEN 1 ELSE 0)
                        = IF t \in holders[m] THEN 1 ELSE 0
    BY SameCardinality DEF HoldsAccounted, Locks!HoldsAccounted
  <2> QED
    BY <1>1
<1>3. QED
  BY <1>2, LocksInvariance, PTL

-----------------------------------------------------------------------------
(* counting_semaphore.                                                     *)

\* How many permits a thread has, or is about to post
Has(t) == permits[t] + update[t]

\* A thread in release(update) has something to post, the others have not,
\* and all the permits together are no more than there were
SemaphoreInv ==
  /\ value \in Nat
  /\ permits \in [Thread -> Nat] /\ update \in [Thread -> Nat]
  /\ call \in [Thread -> Semaphore!Call \cup {"none"}]
  /\ expired \in [Thread -> BOOLEAN]
  /\ \A t \in Thread : call[t] = "release" <=> update[t] > 0
  /\ IsFiniteSet(Semaphore!Granted)
  /\ value + Cardinality(Semaphore!Granted) <= Desired

LEMMA SemaphoreInit ==
  ASSUME Semaphore!Init
  PROVE  SemaphoreInv
<1>1. Semaphore!Granted = {}
  BY DEF Semaphore!Init, Semaphore!Granted
<1>2. QED
  BY <1>1, FS_EmptySet DEF Semaphore!Init, SemaphoreInv

\* Granted is what the threads have, one by one
LEMMA GrantedElements ==
  /\ Semaphore!Granted = UNION {{t} \X (1..Has(t)) : t \in Thread}
  /\ Semaphore!Granted' = UNION {{t} \X (1..Has(t)') : t \in Thread}
  /\ \A t, i : << t, i >> \in Semaphore!Granted <=> t \in Thread /\ i \in 1..Has(t)
  /\ \A t, i : << t, i >> \in Semaphore!Granted' <=> t \in Thread /\ i \in 1..Has(t)'
  /\ \A p \in Semaphore!Granted : p = << p[1], p[2] >>
  /\ \A p \in Semaphore!Granted' : p = << p[1], p[2] >>
BY DEF Semaphore!Granted, Has

LEMMA GrantedSame ==
  ASSUME \A t \in Thread : Has(t)' = Has(t)
  PROVE  Semaphore!Granted' = Semaphore!Granted
<1>1. \A p : p \in Semaphore!Granted' <=> p \in Semaphore!Granted
  BY GrantedElements
<1>2. QED
  BY <1>1

\* A thread gets a permit more
LEMMA GrantedMore ==
  ASSUME NEW t \in Thread, Has(t) \in Nat, Has(t)' = Has(t) + 1,
         \A u \in Thread \ {t} : Has(u)' = Has(u), IsFiniteSet(Semaphore!Granted)
  PROVE  /\ IsFiniteSet(Semaphore!Granted')
         /\ Cardinality(Semaphore!Granted') = Cardinality(Semaphore!Granted) + 1
<1> DEFINE n == Has(t) + 1
<1>1. \A i : i \in 1..n <=> i \in 1..Has(t) \/ i = n
  OBVIOUS
<1>2. n \notin 1..Has(t)
  OBVIOUS
<1> HIDE DEF n
<1>3. \A u, i : << u, i >> \in Semaphore!Granted'
                 <=> << u, i >> \in Semaphore!Granted \/ << u, i >> = << t, n >>
  BY <1>1, GrantedElements DEF n
<1>4. Semaphore!Granted' = Semaphore!Granted \cup {<< t, n >>}
  BY <1>3, GrantedElements
<1>5. << t, n >> \notin Semaphore!Granted
  BY <1>2, GrantedElements
<1>6. QED
  BY <1>4, <1>5, FS_AddElement

\* ... or one less
LEMMA GrantedLess ==
  ASSUME NEW t \in Thread, Has(t)' \in Nat, Has(t) = Has(t)' + 1,
         \A u \in Thread \ {t} : Has(u)' = Has(u), IsFiniteSet(Semaphore!Granted)
  PROVE  /\ IsFiniteSet(Semaphore!Granted')
         /\ Cardinality(Semaphore!Granted') = Cardinality(Semaphore!Granted) - 1
<1> DEFINE n == Has(t)
<1>1. \A i : i \in 1..Has(t)' <=> i \in 1..n /\ i # n
  OBVIOUS
<1>2. n \in 1..n
  OBVIOUS
<1> HIDE DEF n
<1>3. \A u, i : << u, i >> \in Semaphore!Granted'
                 <=> << u, i >> \in Semaphore!Granted /\ << u, i >> # << t, n >>
  BY <1>1, GrantedElements DEF n
<1>4. Semaphore!Granted' = Semaphore!Granted \ {<< t, n >>}
  BY <1>3, GrantedElements
<1>5. << t, n >> \in Semaphore!Granted
  BY <1>2, GrantedElements DEF n
<1>6. QED
  BY <1>4, <1>5, FS_RemoveElement

LEMMA SemaphoreInvStep ==
  ASSUME SemaphoreInv, [Semaphore!Next]_(Semaphore!vars)
  PROVE  SemaphoreInv'
<1> USE DEF SemaphoreInv, Semaphore!Call
<1> DEFINE C == Cardinality(Semaphore!Granted)
<1>c. C \in Nat
  BY FS_CardinalityType
<1>1. ASSUME NEW t \in Thread,
             \/ Semaphore!Request(t) \/ Semaphore!TimeOut(t) \/ Semaphore!Expire(t)
             \/ Semaphore!TryAcquire(t)
      PROVE  SemaphoreInv'
  <2>1. UNCHANGED << permits, update >>
    BY <1>1 DEF Semaphore!Request, Semaphore!TimeOut, Semaphore!Expire,
                Semaphore!TryAcquire, Semaphore!TryWait
  <2>2. value' \in Nat /\ value' <= value
    BY <1>1 DEF Semaphore!Request, Semaphore!TimeOut, Semaphore!Expire,
                Semaphore!TryAcquire, Semaphore!TryWait
  <2>3. /\ call' \in [Thread -> Semaphore!Call \cup {"none"}]
        /\ expired' \in [Thread -> BOOLEAN]
        /\ \A u \in Thread : call'[u] = "release" <=> call[u] = "release"
    BY <1>1 DEF Semaphore!Request, Semaphore!TimeOut, Semaphore!Expire,
                Semaphore!TryAcquire, Semaphore!Return
  <2>4. Semaphore!Granted' = Semaphore!Granted
    BY <2>1, GrantedSame DEF Has
  <2>5. value' + C <= Desired
    BY <1>c, <2>2
  <2>6. QED
    BY <2>1, <2>2, <2>3, <2>4, <2>5
<1>2. ASSUME NEW t \in Thread, Semaphore!Acquire(t)
      PROVE  SemaphoreInv'
  <2>1. /\ value > 0 /\ value' = value - 1 /\ UNCHANGED << update, expired >>
        /\ permits' \in [Thread -> Nat]
        /\ permits'[t] = permits[t] + 1
        /\ \A u \in Thread \ {t} : permits'[u] = permits[u]
    BY <1>2 DEF Semaphore!Acquire
  <2>2. /\ call' \in [Thread -> Semaphore!Call \cup {"none"}]
        /\ \A u \in Thread : call'[u] = "release" <=> call[u] = "release"
    BY <1>2 DEF Semaphore!Acquire, Semaphore!Return
  <2>3. /\ Has(t) \in Nat /\ Has(t)' = Has(t) + 1
        /\ \A u \in Thread \ {t} : Has(u)' = Has(u)
    BY <2>1 DEF Has
  <2>4. IsFiniteSet(Semaphore!Granted') /\ Cardinality(Semaphore!Granted') = C + 1
    BY <2>3, GrantedMore
  <2>5. value' \in Nat /\ value' + Cardinality(Semaphore!Granted') <= Desired
    BY <1>c, <2>1, <2>4
  <2>6. QED
    BY <2>1, <2>2, <2>4, <2>5
<1>3. ASSUME NEW t \in Thread, Semaphore!Release(t)
      PROVE  SemaphoreInv'
  <2>1. PICK n \in 1..permits[t] : /\ update' = [update EXCEPT ![t] = n]
                                  /\ permits' = [permits EXCEPT ![t] = @ - n]
    BY <1>3 DEF Semaphore!Release
  <2>2. /\ permits' \in [Thread -> Nat] /\ update' \in [Thread -> Nat]
        /\ permits'[t] = permits[t] - n /\ update'[t] = n /\ n > 0
        /\ \A u \in Thread \ {t} : permits'[u] = permits[u] /\ update'[u] = update[u]
    <3>1. permits[t] \in Nat /\ n \in Nat /\ n <= permits[t] /\ n > 0
      BY <2>1
    <3>2. permits[t] - n \in Nat
      BY <3>1
    <3>3. QED
      BY <2>1, <3>1, <3>2
  <2>3. /\ call' \in [Thread -> Semaphore!Call \cup {"none"}]
        /\ call[t] = "none" /\ call'[t] = "release"
        /\ \A u \in Thread \ {t} : call'[u] = call[u]
        /\ UNCHANGED << value, expired >>
    BY <1>3 DEF Semaphore!Release
  <2>4. update[t] = 0
    BY <2>3
  <2>5. \A u \in Thread : Has(u)' = Has(u)
    BY <2>2, <2>4 DEF Has
  <2>6. Semaphore!Granted' = Semaphore!Granted
    BY <2>5, GrantedSame
  <2>7. \A u \in Thread : call'[u] = "release" <=> update'[u] > 0
    BY <2>2, <2>3
  <2>8. QED
    BY <2>2, <2>3, <2>6, <2>7
<1>4. ASSUME NEW t \in Thread, Semaphore!Post(t)
      PROVE  SemaphoreInv'
  <2>1. /\ call[t] = "release" /\ update[t] > 0 /\ value' = value + 1
        /\ UNCHANGED << permits, expired >>
        /\ update' = [update EXCEPT ![t] = @ - 1]
    BY <1>4 DEF Semaphore!Post
  <2>2. /\ update' \in [Thread -> Nat]
        /\ update'[t] = update[t] - 1
        /\ \A u \in Thread \ {t} : update'[u] = update[u]
    <3>1. update[t] - 1 \in Nat
      BY <2>1
    <3>2. QED
      BY <2>1, <3>1
  <2>3. /\ call' \in [Thread -> Semaphore!Call \cup {"none"}]
        /\ call'[t] = "release" <=> update'[t] # 0
        /\ \A u \in Thread \ {t} : call'[u] = call[u]
    BY <1>4 DEF Semaphore!Post, Semaphore!Return
  <2>4. /\ Has(t)' \in Nat /\ Has(t) = Has(t)' + 1
        /\ \A u \in Thread \ {t} : Has(u)' = Has(u)
    BY <2>1, <2>2 DEF Has
  <2>5. IsFiniteSet(Semaphore!Granted') /\ Cardinality(Semaphore!Granted') = C - 1
    BY <2>4, GrantedLess
  <2>6. value' \in Nat /\ value' + Cardinality(Semaphore!Granted') <= Desired
    BY <1>c, <2>1, <2>5
  <2>7. \A u \in Thread : call'[u] = "release" <=> update'[u] > 0
    BY <2>2, <2>3
  <2>8. QED
    BY <2>1, <2>2, <2>3, <2>5, <2>6, <2>7
<1>5. CASE UNCHANGED Semaphore!vars
  BY <1>5 DEF Semaphore!vars, Semaphore!Granted
<1>6. QED
  BY <1>1, <1>2, <1>3, <1>4, <1>5 DEF Semaphore!Next, Semaphore!Step

THEOREM SemaphoreInvariance == WorkersSpec => []SemaphoreInv
<1>1. Semaphore!Init => SemaphoreInv
  BY SemaphoreInit
<1>2. SemaphoreInv /\ [Semaphore!Next]_(Semaphore!vars) => SemaphoreInv'
  BY SemaphoreInvStep
<1>3. Semaphore!Spec => []SemaphoreInv
  BY <1>1, <1>2, PTL DEF Semaphore!Spec
<1>4. QED
  BY <1>3, Parts, PTL

\* However acquires, timeouts and releases interleave, no permit comes from
\* nowhere
THEOREM NoPermitCreatedHolds == WorkersSpec => []NoPermitCreated
<1>1. SemaphoreInv => NoPermitCreated
  BY SameCardinality
     DEF SemaphoreInv, NoPermitCreated, Semaphore!NoPermitCreated, Semaphore!Permits
<1>2. QED
  BY <1>1, SemaphoreInvariance, PTL

-----------------------------------------------------------------------------
(* shared_ptr and weak_ptr.                                                *)

\* With threads that come and go, for clients that lock no expired weak_ptr,
\* the counts are exact, what is owned lives, is released once, and all of it
THEOREM PointersHold ==
  ASSUME ~LockExpired
  PROVE  WorkersSpec => [](CountsExact /\ OwnedIsAlive /\ ReleasedOnce /\ NoLeak)
<1>1. /\ Spec => []CountsExact
      /\ Spec => []OwnedIsAlive
      /\ Spec => []ReleasedOnce
      /\ Spec => []NoLeak
  BY CountsExactHolds, OwnedIsAliveHolds, ReleasedOnceHolds, NoLeakHolds
<1>2. QED
  BY <1>1, Parts, PTL

\* Every variable of the whole keeps its type: no thread's permits are more
\* than there are
THEOREM WorkersTypeCorrect ==
  ASSUME ~LockExpired
  PROVE  WorkersSpec => []WorkersTypeOK
<1>1. ASSUME SemaphoreInv
      PROVE  Semaphore!TypeOK
  <2>1. ASSUME NEW t \in Thread
        PROVE  Has(t) \in Nat /\ Has(t) <= Cardinality(Semaphore!Granted)
    <3> DEFINE H == {t} \X (1..Has(t))
    <3>1. Has(t) \in Nat
      BY <1>1 DEF SemaphoreInv, Has
    <3>2. IsFiniteSet(1..Has(t)) /\ Cardinality(1..Has(t)) = Has(t)
      BY <3>1, FS_Interval
    <3>3. IsFiniteSet({t}) /\ Cardinality({t}) = 1
      BY FS_Singleton
    <3>4. Cardinality(H) = Has(t)
      <4>1. Cardinality(H) = Cardinality({t}) * Cardinality(1..Has(t))
        BY ONLY <3>2, <3>3, FS_Product, Zenon
      <4> HIDE DEF H
      <4>2. Cardinality(H) = 1 * Has(t)
        BY <4>1, <3>2, <3>3, Zenon
      <4>3. QED
        BY <4>2, <3>1
    <3>5. H \subseteq Semaphore!Granted
      BY GrantedElements
    <3> HIDE DEF H
    <3>6. Cardinality(H) <= Cardinality(Semaphore!Granted)
      BY <1>1, <3>5, FS_Subset DEF SemaphoreInv
    <3>7. QED
      BY <3>1, <3>4, <3>6
  <2>2. Cardinality(Semaphore!Granted) \in Nat
    BY <1>1, FS_CardinalityType DEF SemaphoreInv
  <2>3. \A t \in Thread : permits[t] \in 0..Desired /\ update[t] \in 0..Desired
    BY <1>1, <2>1, <2>2 DEF SemaphoreInv, Has
  <2>4. value \in 0..Desired
    BY <1>1, <2>2 DEF SemaphoreInv
  <2>5. QED
    BY <1>1, <2>3, <2>4 DEF SemaphoreInv, Semaphore!TypeOK
<1>2. /\ HandleInv => Handle!TypeOK
      /\ LocksInv => Locks!TypeOK
      /\ SemaphoreInv => Semaphore!TypeOK
  BY <1>1 DEF HandleInv, LocksInv
<1>3. WorkersSpec => [](program \in Program)
  <2>1. WorkersInit => program \in Program
    BY DEF WorkersInit
  <2>2. program \in Program /\ [WorkersNext]_workersVars => (program \in Program)'
    BY DEF WorkersNext, ManageThreads, Work, workersVars
  <2>3. QED
    BY <2>1, <2>2, PTL DEF WorkersSpec
<1>4. Spec => []TypeOK
  BY TypeCorrect
<1>5. WorkersTypeOK <=> /\ program \in Program /\ TypeOK
                        /\ Handle!TypeOK /\ Locks!TypeOK /\ Semaphore!TypeOK
  BY DEF WorkersTypeOK
<1>6. QED
  BY <1>2, <1>3, <1>4, <1>5, HandleInvariance, LocksInvariance,
     SemaphoreInvariance, Parts, PTL

-----------------------------------------------------------------------------
(* What join waits for.                                                    *)

\* A thread that is in no call and holds nothing
SemaphoreIdle(t) == call[t] = "none" /\ permits[t] = 0
Quiet(t) == Locks!LetGo(t) /\ SemaphoreIdle(t) /\ Idle(t)

\* A thread is quiet unless its function runs, and a facility the program
\* does not use unless it uses it
QuietInv ==
  /\ stage \in [Thread -> Stage]
  /\ \A t \in Thread :
       /\ program # "locks" => Locks!LetGo(t)
       /\ program # "semaphore" => SemaphoreIdle(t)
       /\ program # "pointers" => Idle(t)
       /\ pthread[t] # "running" => Quiet(t)

LEMMA QuietInit ==
  ASSUME WorkersInit
  PROVE  QuietInv
<1>1. \A t \in Thread : Locks!LetGo(t)
  BY DEF WorkersInit, Locks!Init, Locks!LetGo, Locks!Constructed
<1>2. \A t \in Thread : SemaphoreIdle(t)
  BY DEF WorkersInit, Semaphore!Init, SemaphoreIdle
<1>3. (\A t \in Thread : Idle(t)) /\ stage \in [Thread -> Stage]
  BY DEF WorkersInit, Init, Idle, Stage
<1>4. QED
  BY <1>1, <1>2, <1>3 DEF QuietInv, Quiet

\* The operations of one thread on its pointers are not the business of another
LEMMA PointersOthers ==
  ASSUME stage \in [Thread -> Stage], NEW t \in Thread, Operate(t) \/ Release(t)
  PROVE  /\ stage' \in [Thread -> Stage]
         /\ \A u \in Thread \ {t} : stage'[u] = stage[u]
<1>1. ASSUME NEW c, NEW s \in Stage,
             GiveUp(t, c, s) \/ Continue(t, s) \/ Finish(t) \/ UNCHANGED stage
      PROVE  /\ stage' \in [Thread -> Stage]
             /\ \A u \in Thread \ {t} : stage'[u] = stage[u]
  BY <1>1 DEF GiveUp, Continue, Finish, Stage
<1>2. \E c, s : s \in Stage
        /\ (GiveUp(t, c, s) \/ Continue(t, s) \/ Finish(t) \/ UNCHANGED stage)
  <2>1. {"decref", "destroy", "decwref", "delete"} \subseteq Stage
    BY DEF Stage
  <2>2. CASE Operate(t)
    BY <2>1, <2>2
       DEF Operate, Construct, ResetShared, ConstructFails, CopyShared, MoveShared,
           SwapShared, LockWeak, WeakFromShared, WeakFromWeak, WeakTo, ResetWeak
  <2>3. CASE Release(t)
    BY <2>1, <2>3 DEF Release, Decref, DestroyResource, Decwref, DeleteBlock
  <2>4. QED
    BY <2>2, <2>3
<1>3. QED
  BY <1>1, <1>2

LEMMA QuietWork ==
  ASSUME QuietInv, LocksInv, SemaphoreInv, NEW t \in Thread, Work(t)
  PROVE  QuietInv'
<1>1. pthread[t] = "running" /\ UNCHANGED << program, pthread >>
  BY DEF Work, Running, handleVars
<1>2. CASE program = "locks" /\ Locks!Step(t) /\ UNCHANGED << semaphoreVars, vars >>
  <2>1. ASSUME NEW u \in Thread, u # t, Locks!LetGo(u)
        PROVE  Locks!LetGo(u)'
    <3>1. /\ \A x \in Variable : lock'[<< u, x >>] = lock[<< u, x >>]
          /\ direct'[u] = direct[u]
      BY <1>2, <2>1, LocksOthers DEF LocksInv
    <3>2. QED
      BY <2>1, <3>1 DEF Locks!LetGo, Locks!Constructed
  <2>2. \A u \in Thread : /\ SemaphoreIdle(u)' <=> SemaphoreIdle(u)
                          /\ Idle(u)' <=> Idle(u)
    BY <1>2 DEF SemaphoreIdle, Idle, semaphoreVars, vars
  <2>3. stage' = stage
    BY <1>2 DEF vars
  <2>4. QED
    BY <1>1, <1>2, <2>1, <2>2, <2>3 DEF QuietInv, Quiet
<1>3. CASE program = "semaphore" /\ Semaphore!Step(t) /\ UNCHANGED << lockVars, vars >>
  <2>1. ASSUME NEW u \in Thread, u # t
        PROVE  call'[u] = call[u] /\ permits'[u] = permits[u]
    BY <1>3, <2>1
       DEF SemaphoreInv, Semaphore!Step, Semaphore!Request, Semaphore!Acquire,
           Semaphore!TimeOut, Semaphore!TryAcquire, Semaphore!Expire,
           Semaphore!Release, Semaphore!Post, Semaphore!Return
  <2>2. \A u \in Thread : /\ Locks!LetGo(u)' <=> Locks!LetGo(u)
                          /\ Idle(u)' <=> Idle(u)
    BY <1>3 DEF Locks!LetGo, Locks!Constructed, Idle, lockVars, vars
  <2>3. \A u \in Thread \ {t} : SemaphoreIdle(u)' <=> SemaphoreIdle(u)
    BY <2>1 DEF SemaphoreIdle
  <2>4. stage' = stage
    BY <1>3 DEF vars
  <2>5. QED
    BY <1>1, <1>3, <2>2, <2>3, <2>4 DEF QuietInv, Quiet
<1>4. CASE /\ program = "pointers" /\ (Operate(t) \/ Release(t))
           /\ UNCHANGED << lockVars, semaphoreVars >>
  <2>1. /\ stage' \in [Thread -> Stage]
        /\ \A u \in Thread \ {t} : stage'[u] = stage[u]
    BY <1>4, PointersOthers DEF QuietInv
  <2>2. \A u \in Thread : /\ Locks!LetGo(u)' <=> Locks!LetGo(u)
                          /\ SemaphoreIdle(u)' <=> SemaphoreIdle(u)
    BY <1>4 DEF Locks!LetGo, Locks!Constructed, SemaphoreIdle, lockVars, semaphoreVars
  <2>3. \A u \in Thread \ {t} : Idle(u)' <=> Idle(u)
    BY <2>1 DEF Idle
  <2>4. QED
    BY <1>1, <1>4, <2>1, <2>2, <2>3 DEF QuietInv, Quiet
<1>5. QED
  BY <1>2, <1>3, <1>4 DEF Work

\* A thread stops running by letting its function return, and no other way
LEMMA StopsRunning ==
  ASSUME HandleInv, ManageThreads, NEW t \in Thread,
         pthread[t] = "running", pthread'[t] # "running"
  PROVE  Done(t)
<1>1. pthread \in [Thread -> {"unused", "started", "running", "ended"}]
  BY DEF HandleInv, Handle!TypeOK
<1>2. CASE Handle!Main
  BY <1>1, <1>2
     DEF Handle!Main, Handle!DefaultConstruct, Handle!Construct, Handle!Destroy,
         Handle!Join, Handle!JoinReturns, Handle!Detach, Handle!MoveConstruct,
         Handle!MoveAssign, Handle!ReleaseCallable, Handle!Move, Handle!Terminate
<1>3. ASSUME NEW u \in Thread, Handle!Begin(u) \/ Handle!Throw(u)
      PROVE  FALSE
  BY <1>1, <1>3 DEF Handle!Begin, Handle!Throw, Handle!Terminate
<1>4. ASSUME NEW u \in Thread, Done(u), Handle!End(u)
      PROVE  Done(t)
  BY <1>1, <1>4 DEF Handle!End
<1>5. QED
  BY <1>2, <1>3, <1>4 DEF ManageThreads

LEMMA QuietManage ==
  ASSUME QuietInv, HandleInv, ManageThreads
  PROVE  QuietInv'
<1>1. UNCHANGED << program, stage >>
  BY DEF ManageThreads, vars
<1>2. \A t \in Thread : /\ Locks!LetGo(t)' <=> Locks!LetGo(t)
                        /\ SemaphoreIdle(t)' <=> SemaphoreIdle(t)
                        /\ Idle(t)' <=> Idle(t)
  BY DEF ManageThreads, Locks!LetGo, Locks!Constructed, SemaphoreIdle, Idle,
         lockVars, semaphoreVars, vars
<1>3. ASSUME NEW t \in Thread, pthread'[t] # "running"
      PROVE  Quiet(t)
  <2>1. CASE pthread[t] # "running"
    BY <2>1 DEF QuietInv
  <2>2. CASE pthread[t] = "running"
    <3>1. Done(t)
      BY <1>3, <2>2, StopsRunning
    <3>2. QED
      BY <3>1 DEF Done, QuietInv, Quiet, SemaphoreIdle
  <2>3. QED
    BY <2>1, <2>2
<1>4. QED
  BY <1>1, <1>2, <1>3 DEF QuietInv, Quiet

LEMMA QuietStep ==
  ASSUME QuietInv, HandleInv, LocksInv, SemaphoreInv, [WorkersNext]_workersVars
  PROVE  QuietInv'
<1>1. CASE ManageThreads
  BY <1>1, QuietManage
<1>2. ASSUME NEW t \in Thread, Work(t)
      PROVE  QuietInv'
  BY <1>2, QuietWork
<1>3. CASE UNCHANGED workersVars
  BY <1>3 DEF workersVars, handleVars, lockVars, semaphoreVars, vars, QuietInv,
              Quiet, SemaphoreIdle, Idle, Locks!LetGo, Locks!Constructed
<1>4. QED
  BY <1>1, <1>2, <1>3 DEF WorkersNext

LEMMA QuietHasLetGo ==
  ASSUME QuietInv, LocksInv, SemaphoreInv
  PROVE  JoinedHasLetGo
<1> SUFFICES ASSUME NEW t \in Thread, pthread[t] = "unused"
             PROVE  /\ \A m \in Mutex : t \notin holders[m]
                    /\ permits[t] = 0 /\ update[t] = 0
                    /\ stage[t] = "none"
  BY DEF JoinedHasLetGo
<1>1. Quiet(t)
  BY DEF QuietInv
<1>2. \A m \in Mutex : t \notin holders[m]
  <2>1. \A x \in Variable : Owned(t, x) = Nil
    BY <1>1 DEF Quiet, Locks!LetGo, Locks!Constructed, Owned
  <2>2. QED
    BY <1>1, <2>1 DEF Quiet, Locks!LetGo, LocksInv, ThreadHolds
<1>3. permits[t] = 0 /\ update[t] = 0
  <2>1. update[t] \in Nat /\ ~(update[t] > 0)
    BY <1>1 DEF Quiet, SemaphoreIdle, SemaphoreInv
  <2>2. QED
    BY <1>1, <2>1 DEF Quiet, SemaphoreIdle
<1>4. QED
  BY <1>1, <1>2, <1>3 DEF Quiet, Idle

\* When join returns, the thread it waited for has let go of every mutex and
\* permit, and has nothing left to post, to destroy or to free
THEOREM JoinedHasLetGoHolds == WorkersSpec => []JoinedHasLetGo
<1>1. WorkersInit => QuietInv
  BY QuietInit
<1>2. QuietInv /\ HandleInv /\ LocksInv /\ SemaphoreInv
        /\ [WorkersNext]_workersVars => QuietInv'
  BY QuietStep
<1>3. WorkersSpec => []QuietInv
  BY <1>1, <1>2, HandleInvariance, LocksInvariance, SemaphoreInvariance, PTL
     DEF WorkersSpec
<1>4. QuietInv /\ LocksInv /\ SemaphoreInv => JoinedHasLetGo
  BY QuietHasLetGo
<1>5. QED
  BY <1>3, <1>4, LocksInvariance, SemaphoreInvariance, PTL

=============================================================================
