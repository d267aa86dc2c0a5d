-------------------------- MODULE CountingSemaphore --------------------------
(***************************************************************************)
(* counting_semaphore of c_counting_semaphore.h, an adaptor of the sem_t   *)
(* of POSIX, which is external: sem_wait, sem_timedwait and sem_trywait    *)
(* decrement a positive value in one step and return 0; sem_trywait        *)
(* returns -1 when the value is 0, sem_timedwait when its deadline passes  *)
(* before the value is positive.  No signal handler interrupts them.       *)
(*                                                                         *)
(* The clients are those of semaphore_test: a call that says true gives    *)
(* the thread a permit, and the permits a thread has it may release        *)
(* together, by one call of release(update).                               *)
(***************************************************************************)
EXTENDS Integers, FiniteSets

CONSTANTS Thread,     \* the threads of the program
          Desired     \* the initial value, a number

VARIABLES value,      \* the value of _semaphore
          permits,    \* the permits each thread knows it has
          update,     \* release(update): what it has still to post
          call,       \* the call each thread is in, or "none"
          expired     \* has the deadline of its try_acquire_until passed?

vars == << value, permits, update, call, expired >>

Call == {"acquire", "try", "timed", "release"}

TypeOK ==
  /\ value \in 0..Desired
  /\ permits \in [Thread -> 0..Desired]
  /\ update \in [Thread -> 0..Desired]
  /\ call \in [Thread -> Call \cup {"none"}]
  /\ expired \in [Thread -> BOOLEAN]

Init ==
  /\ value = Desired
  /\ permits = [t \in Thread |-> 0]
  /\ update = [t \in Thread |-> 0]
  /\ call = [t \in Thread |-> "none"]
  /\ expired = [t \in Thread |-> FALSE]

Return(t) == call' = [call EXCEPT ![t] = "none"]

-----------------------------------------------------------------------------

Request(t) ==
  /\ call[t] = "none"
  /\ \E c \in Call \ {"release"} : call' = [call EXCEPT ![t] = c]
  /\ expired' = [expired EXCEPT ![t] = FALSE]
  /\ UNCHANGED << value, permits, update >>

\* sem_wait or sem_timedwait returns 0
Acquire(t) ==
  /\ call[t] \in {"acquire", "timed"}
  /\ value > 0
  /\ value' = value - 1
  /\ permits' = [permits EXCEPT ![t] = @ + 1]
  /\ Return(t)
  /\ UNCHANGED << update, expired >>

\* Mutation: a timeout is taken for success
TimeOutGranting(t) ==
  /\ call[t] = "timed" /\ expired[t]
  /\ value = 0
  /\ permits' = [permits EXCEPT ![t] = @ + 1]
  /\ Return(t)
  /\ UNCHANGED << value, update, expired >>

\* sem_timedwait returns -1, and try_acquire_until false
TimeOut(t) ==
  /\ call[t] = "timed" /\ expired[t]
  /\ value = 0
  /\ Return(t)
  /\ UNCHANGED << value, permits, update, expired >>

\* What sem_trywait returns
TryWait == IF value > 0 THEN 0 ELSE -1

\* try_acquire: its result is sem_trywait(...) > 0
TryAcquire(t) ==
  /\ call[t] = "try"
  /\ value' = IF TryWait = 0 THEN value - 1 ELSE value
  /\ permits' = [permits EXCEPT ![t] = IF TryWait > 0 THEN @ + 1 ELSE @]
  /\ Return(t)
  /\ UNCHANGED << update, expired >>

Expire(t) ==
  /\ call[t] = "timed" /\ ~expired[t]
  /\ expired' = [expired EXCEPT ![t] = TRUE]
  /\ UNCHANGED << value, permits, update, call >>

\* release(n), for some of the permits of the thread
Release(t) ==
  /\ call[t] = "none"
  /\ \E n \in 1..permits[t] :
       /\ update' = [update EXCEPT ![t] = n]
       /\ permits' = [permits EXCEPT ![t] = @ - n]
  /\ call' = [call EXCEPT ![t] = "release"]
  /\ UNCHANGED << value, expired >>

\* One sem_post of the loop
Post(t) ==
  /\ call[t] = "release"
  /\ value' = value + 1
  /\ update' = [update EXCEPT ![t] = @ - 1]
  /\ IF update'[t] = 0 THEN Return(t) ELSE UNCHANGED call
  /\ UNCHANGED << permits, expired >>

Step(t) == \/ Request(t) \/ Acquire(t) \/ TimeOut(t)
           \/ TryAcquire(t) \/ Expire(t)
           \/ Release(t) \/ Post(t)

Next == \E t \in Thread : Step(t)

Spec == Init /\ [][Next]_vars

-----------------------------------------------------------------------------
(* Properties.                                                             *)

\* The permits in the hands of the clients, and those that a release(update)
\* under way has still to post
Granted == UNION {{t} \X (1..(permits[t] + update[t])) : t \in Thread}

\* Those that are to be had, and these
Permits == value + Cardinality(Granted)

\* No call creates a permit: however the calls interleave, no more threads
\* are past the semaphore than it admits
NoPermitCreated == Permits <= Desired

\* Nor does one get lost: what a call took from the semaphore it reports to
\* its caller, by returning true (the documentation's try_acquire returns
\* whether it decremented the count)
NoPermitLost == Permits = Desired

=============================================================================
