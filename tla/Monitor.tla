------------------------------- MODULE Monitor -------------------------------
(***************************************************************************)
(* The pair every timed lock of the library is built from: one mutex (the  *)
(* adaptor of pthread_mutex_t in c_mutex.h) and one condition_variable     *)
(* (the adaptor of pthread_cond_t in c_condition_variable.h).  The POSIX   *)
(* objects are external; their behaviour is the one the adaptors rely on:  *)
(* a wait gives up the mutex and blocks in one step, a signal with nobody  *)
(* blocked is lost, and a blocked thread may wake without a signal.        *)
(***************************************************************************)

CONSTANTS Thread,    \* the threads of the program
          NoThread   \* "nobody", as a holder

ASSUME NoThreadAssumption == NoThread \notin Thread

VARIABLES mutex,     \* the thread that holds the mutex, or NoThread
          waiters    \* the threads blocked on the condition variable

MonitorTypeOK ==
  /\ mutex \in Thread \cup {NoThread}
  /\ waiters \subseteq Thread

MonitorInit ==
  /\ mutex = NoThread
  /\ waiters = {}

-----------------------------------------------------------------------------
(* Updates of the pair.  The caller's action says which thread it is and   *)
(* what it does to the data the mutex protects.                            *)

\* mutex::lock returns; also the way out of pthread_cond_wait
MutexLock(t) ==
  /\ mutex = NoThread
  /\ mutex' = t

\* mutex::unlock, by the destructor of lock_guard or unique_lock
MutexUnlock == mutex' = NoThread

\* condition_variable::wait up to the point where the thread is blocked
CondWait(t) ==
  /\ MutexUnlock
  /\ waiters' = waiters \cup {t}

\* condition_variable::notify_one
CondSignal ==
  IF waiters = {}
  THEN UNCHANGED waiters
  ELSE \E w \in waiters : waiters' = waiters \ {w}

\* A blocked thread stops waiting with no signal: a spurious wake-up, or
\* the deadline of pthread_cond_timedwait
CondReturn(t) ==
  /\ t \in waiters
  /\ waiters' = waiters \ {t}

=============================================================================
