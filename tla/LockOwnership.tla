---------------------------- MODULE LockOwnership ----------------------------
(***************************************************************************)
(* unique_lock, shared_lock and lock_guard of x_lock.h over shared_mutex   *)
(* and shared_timed_mutex of c_shared_mutex.h, which are adaptors of the   *)
(* pthread_rwlock_t; that one is external.                                 *)
(*                                                                         *)
(* A thread has variables of one of the two lock types.  It also holds     *)
(* mutexes by itself: those it locked directly or by a lock_guard, and     *)
(* those it got back from release().  A call that blocks is a step that    *)
(* waits until it can be made; try_lock and the timed calls make the same  *)
(* step, or fail and leave everything as it was.                           *)
(*                                                                         *)
(* Clients lock no mutex twice and unlock only what they hold.             *)
(***************************************************************************)
EXTENDS Naturals, FiniteSets

CONSTANTS Thread, Mutex,
          Variable,      \* the names of a thread's lock variables
          Nil,           \* no mutex
          Absent         \* a variable that is not constructed

VARIABLES mode,          \* unique_lock or shared_lock?
          holders,       \* who holds each rwlock ...
          writing,       \* ... and is that to write?
          lock,          \* _ownedMutex and _owns of each variable
          direct         \* the mutexes a thread holds by itself

vars == << mode, holders, writing, lock, direct >>

TypeOK ==
  /\ mode \in [Thread -> {"unique", "shared"}]
  /\ holders \in [Mutex -> SUBSET Thread]
  /\ writing \in [Mutex -> BOOLEAN]
  /\ lock \in [Thread \X Variable ->
                 [mutex : Mutex \cup {Nil}, owns : BOOLEAN] \cup {Absent}]
  /\ direct \in [Thread -> SUBSET Mutex]

Init ==
  /\ mode \in [Thread -> {"unique", "shared"}]
  /\ holders = [m \in Mutex |-> {}]
  /\ writing = [m \in Mutex |-> FALSE]
  /\ lock = [v \in Thread \X Variable |-> Absent]
  /\ direct = [t \in Thread |-> {}]

-----------------------------------------------------------------------------
(* shared_mutex.                                                           *)

\* lock, lock_shared, and the conditional and timed calls that succeed
Acquire(t, m) ==
  /\ IF mode[t] = "unique" THEN holders[m] = {} ELSE ~writing[m]
  /\ t \notin holders[m]
  /\ holders' = [holders EXCEPT ![m] = @ \cup {t}]
  /\ writing' = [writing EXCEPT ![m] = mode[t] = "unique"]

\* unlock, unlock_shared
Release(t, m) ==
  /\ holders' = [holders EXCEPT ![m] = @ \ {t}]
  /\ writing' = [writing EXCEPT ![m] = FALSE]

-----------------------------------------------------------------------------
(* The lock variables.  v is << thread, name >>.                           *)

None == [mutex |-> Nil, owns |-> FALSE]

Constructed(v) == lock[v] # Absent

\* unique_lock(), shared_lock(), and the constructors with defer_lock and
\* adopt_lock; a constructor that locks is one with defer_lock and Lock
DefaultConstruct(v) ==
  /\ ~Constructed(v)
  /\ lock' = [lock EXCEPT ![v] = None]
  /\ UNCHANGED << holders, writing, direct >>

Defer(v, m) ==
  /\ ~Constructed(v)
  /\ lock' = [lock EXCEPT ![v] = [mutex |-> m, owns |-> FALSE]]
  /\ UNCHANGED << holders, writing, direct >>

Adopt(v, m) ==
  /\ ~Constructed(v) /\ m \in direct[v[1]]
  /\ lock' = [lock EXCEPT ![v] = [mutex |-> m, owns |-> TRUE]]
  /\ direct' = [direct EXCEPT ![v[1]] = @ \ {m}]
  /\ UNCHANGED << holders, writing >>

\* lock, try_lock, try_lock_for, try_lock_until.  Without a mutex, or with
\* one that is owned, they throw.
Lock(v) ==
  /\ Constructed(v) /\ lock[v].mutex # Nil /\ ~lock[v].owns
  /\ Acquire(v[1], lock[v].mutex)
  /\ lock' = [lock EXCEPT ![v].owns = TRUE]
  /\ UNCHANGED direct

\* unlock; throws if the mutex is not owned
Unlock(v) ==
  /\ Constructed(v) /\ lock[v].owns
  /\ Release(v[1], lock[v].mutex)
  /\ lock' = [lock EXCEPT ![v].owns = FALSE]
  /\ UNCHANGED direct

\* release: the client holds on to the mutex
ReleaseOwnership(v) ==
  /\ Constructed(v) /\ lock[v].mutex # Nil
  /\ lock' = [lock EXCEPT ![v] = None]
  /\ direct' = [direct EXCEPT ![v[1]] = IF lock[v].owns THEN @ \cup {lock[v].mutex}
                                        ELSE @]
  /\ UNCHANGED << holders, writing >>

MoveConstruct(v, w) ==
  /\ v # w /\ ~Constructed(v) /\ Constructed(w)
  /\ lock' = [lock EXCEPT ![v] = lock[w], ![w] = None]
  /\ UNCHANGED << holders, writing, direct >>

\* Mutation: what the variable owned is forgotten
MoveAssignForgetful(v, w) ==
  /\ v # w /\ Constructed(v) /\ Constructed(w)
  /\ lock[v].mutex # lock[w].mutex
  /\ lock' = [lock EXCEPT ![v] = lock[w], ![w] = None]
  /\ UNCHANGED << holders, writing, direct >>

\* operator=: what the variable owned is unlocked first.  Between two
\* variables of one mutex nothing happens.
MoveAssign(v, w) ==
  /\ v # w /\ Constructed(v) /\ Constructed(w)
  /\ lock[v].mutex # lock[w].mutex
  /\ IF lock[v].owns THEN Release(v[1], lock[v].mutex)
     ELSE UNCHANGED << holders, writing >>
  /\ lock' = [lock EXCEPT ![v] = lock[w], ![w] = None]
  /\ UNCHANGED direct

\* The destructor
Destroy(v) ==
  /\ Constructed(v)
  /\ IF lock[v].owns THEN Release(v[1], lock[v].mutex)
     ELSE UNCHANGED << holders, writing >>
  /\ lock' = [lock EXCEPT ![v] = Absent]
  /\ UNCHANGED direct

\* lock or lock_shared of the mutex itself, and the constructor of lock_guard
LockDirectly(t, m) ==
  /\ Acquire(t, m)
  /\ direct' = [direct EXCEPT ![t] = @ \cup {m}]
  /\ UNCHANGED lock

\* unlock or unlock_shared, and the destructor of lock_guard
UnlockDirectly(t, m) ==
  /\ m \in direct[t]
  /\ Release(t, m)
  /\ direct' = [direct EXCEPT ![t] = @ \ {m}]
  /\ UNCHANGED lock

Step(t) ==
  /\ UNCHANGED mode
  /\ \/ \E v \in {t} \X Variable :
          \/ DefaultConstruct(v) \/ Lock(v) \/ Unlock(v) \/ ReleaseOwnership(v)
          \/ Destroy(v)
          \/ \E m \in Mutex : Defer(v, m) \/ Adopt(v, m)
          \/ \E w \in {t} \X Variable : MoveConstruct(v, w) \/ MoveAssign(v, w)
     \/ \E m \in Mutex : LockDirectly(t, m) \/ UnlockDirectly(t, m)

Next == \E t \in Thread : Step(t)

Spec == Init /\ [][Next]_vars

\* The variables of t went out of scope, and it unlocked the rest
LetGo(t) == direct[t] = {} /\ \A x \in Variable : ~Constructed(<< t, x >>)

-----------------------------------------------------------------------------
(* Properties.                                                             *)

\* Through moves, adoptions and releases a mutex that is held is somebody's to
\* unlock, and not two's: by one variable that owns it, or by the thread
\* itself.  So no destructor unlocks what another one still owns, and none is
\* left locked for good.
HoldsAccounted ==
  \A t \in Thread, m \in Mutex :
    LET owners == {x \in Variable :
                     /\ Constructed(<< t, x >>)
                     /\ lock[<< t, x >>] = [mutex |-> m, owns |-> TRUE]}
        others == IF m \in direct[t] THEN 1 ELSE 0
    IN  Cardinality(owners) + others = IF t \in holders[m] THEN 1 ELSE 0

=============================================================================
