----------------------------- MODULE MultiLock -----------------------------
(***************************************************************************)
(* custom::lock, custom::try_lock and scoped_lock of x_lock.h: taking      *)
(* several mutexes at once, "without deadlock".                            *)
(*                                                                         *)
(* lock blocks on one mutex of its argument list (the hard one, the first  *)
(* of the list to begin with), then tries the ones before it and the ones  *)
(* after it.  When a try fails it unlocks what it took and starts over     *)
(* with the one that failed as the hard one.  A mutex may throw; then what *)
(* was taken is unlocked and the exception goes on.                        *)
(*                                                                         *)
(* Each lock, try_lock and unlock of a mutex is a step; the arithmetic on  *)
(* the indices between two of them is part of the step before.  Indices    *)
(* count from 1, in the code from 0.  A client passes distinct mutexes and *)
(* holds none when it calls.                                               *)
(***************************************************************************)
EXTENDS Naturals, Sequences, FiniteSets

CONSTANTS Thread,      \* the threads of the program
          Mutex,       \* the mutexes they share
          NoThread,    \* nobody, as the holder of a mutex
          ArgLists,    \* the lists of mutexes the clients pass
          MayThrow     \* do lock and try_lock of a mutex ever throw?

ASSUME ArgListsAssumption ==
  /\ NoThread \notin Thread
  /\ MayThrow \in BOOLEAN
  /\ ArgLists \subseteq Seq(Mutex)
  /\ \A s \in ArgLists :
       /\ Len(s) > 0
       /\ \A i, j \in DOMAIN s : s[i] = s[j] => i = j

VARIABLES holder,      \* the thread that holds each mutex, or NoThread
          pc,          \* where each thread is
          args,        \* the argument list of its call
          hard,        \* hardLockIndex; 0 in try_lock, which has none
          next,        \* the index to be tried next
          undo,        \* indices still to be unlocked, in that order
          after        \* where the thread goes once they are

vars == << holder, pc, args, hard, next, undo, after >>

Location ==
  { "idle",       \* outside, holding nothing
    "hard",       \* lock: about to block on args[hard]
    "try",        \* _try_lock_range: about to try args[next]
    "undo",       \* backing out
    "destroy",    \* in the destructor of scoped_lock
    "held" }      \* outside, holding all of args

TypeOK ==
  /\ holder \in [Mutex -> Thread \cup {NoThread}]
  /\ pc \in [Thread -> Location]
  /\ args \in [Thread -> ArgLists \cup {<< >>}]
  /\ hard \in [Thread -> Nat]
  /\ next \in [Thread -> Nat]
  /\ undo \in [Thread -> Seq(Nat)]
  /\ \A t \in Thread : /\ hard[t] \in 0..Len(args[t])
                       /\ next[t] \in 0..Len(args[t])
                       /\ \A i \in DOMAIN undo[t] :
                            undo[t][i] \in 1..Len(args[t])
  /\ after \in [Thread -> {"idle", "hard"}]

Init ==
  /\ holder = [m \in Mutex |-> NoThread]
  /\ pc = [t \in Thread |-> "idle"]
  /\ args = [t \in Thread |-> << >>]
  /\ hard = [t \in Thread |-> 0]
  /\ next = [t \in Thread |-> 0]
  /\ undo = [t \in Thread |-> << >>]
  /\ after = [t \in Thread |-> "idle"]

-----------------------------------------------------------------------------
(* Indices.                                                                *)

\* first, first + 1, ... last
From(first, last) == [i \in 1..(last + 1 - first) |-> first + i - 1]

\* The index lock tries after it holds i: it skips the hard one
NextIndex(t, i) == IF i + 1 = hard[t] THEN i + 2 ELSE i + 1

\* Mutation: the mutex that failed is unlocked too
TakenAndFailed(t, n) ==
  IF n < hard[t] THEN From(1, n) \o << hard[t] >>
  ELSE From(hard[t] + 1, n) \o From(1, hard[t])

\* Mutation: the hard lock is kept
TakenButHard(t, n) ==
  IF n < hard[t] THEN From(1, n - 1)
  ELSE From(hard[t] + 1, n - 1) \o From(1, hard[t] - 1)

\* What lock unlocks when the attempt on index n fails or throws: first the
\* part of the range _try_lock_range had taken, then [backoutStart, hard].
\* try_lock has only the range.
Taken(t, n) ==
  IF n < hard[t] THEN From(1, n - 1) \o << hard[t] >>
  ELSE From(hard[t] + 1, n - 1) \o From(1, hard[t])

\* t is to unlock the indices in s, and then to go to l
BackOut(t, s, l) ==
  /\ undo' = [undo EXCEPT ![t] = s]
  /\ after' = [after EXCEPT ![t] = l]
  /\ next' = [next EXCEPT ![t] = 0]
  /\ pc' = [pc EXCEPT ![t] = "undo"]

\* The thread holds args[i] and goes on to the next index, or has them all
Proceed(t, i) ==
  /\ next' = [next EXCEPT ![t] = IF i > Len(args[t]) THEN 0 ELSE i]
  /\ pc' = [pc EXCEPT ![t] = IF i > Len(args[t]) THEN "held" ELSE "try"]

-----------------------------------------------------------------------------
(* custom::lock and the constructor of scoped_lock.                        *)

Lock(t) ==
  /\ pc[t] = "idle"
  /\ \E s \in ArgLists : args' = [args EXCEPT ![t] = s]
  /\ hard' = [hard EXCEPT ![t] = 1]
  /\ pc' = [pc EXCEPT ![t] = "hard"]
  /\ UNCHANGED << holder, next, undo, after >>

HardLock(t) ==
  /\ pc[t] = "hard"
  /\ holder[args[t][hard[t]]] = NoThread
  /\ holder' = [holder EXCEPT ![args[t][hard[t]]] = t]
  /\ Proceed(t, NextIndex(t, 0))
  /\ UNCHANGED << args, hard, undo, after >>

\* The blocking lock of the hard mutex throws: nothing is held
HardLockThrows(t) ==
  /\ MayThrow
  /\ pc[t] = "hard"
  /\ BackOut(t, << >>, "idle")
  /\ UNCHANGED << holder, args, hard >>

-----------------------------------------------------------------------------
(* custom::try_lock: the same range loop, with no hard lock.               *)

TryLock(t) ==
  /\ pc[t] = "idle"
  /\ \E s \in ArgLists : args' = [args EXCEPT ![t] = s]
  /\ hard' = [hard EXCEPT ![t] = 0]
  /\ next' = [next EXCEPT ![t] = 1]
  /\ pc' = [pc EXCEPT ![t] = "try"]
  /\ UNCHANGED << holder, undo, after >>

-----------------------------------------------------------------------------
(* _try_lock_range, for either.                                            *)

TrySucceeds(t) ==
  /\ pc[t] = "try"
  /\ holder[args[t][next[t]]] = NoThread
  /\ holder' = [holder EXCEPT ![args[t][next[t]]] = t]
  /\ Proceed(t, NextIndex(t, next[t]))
  /\ UNCHANGED << args, hard, undo, after >>

\* Mutation: lock starts over with the same hard lock
TryFailsSameHard(t) ==
  /\ pc[t] = "try"
  /\ holder[args[t][next[t]]] # NoThread
  /\ BackOut(t, Taken(t, next[t]), IF hard[t] = 0 THEN "idle" ELSE "hard")
  /\ UNCHANGED << hard, holder, args >>

\* Back out; lock starts over with the mutex that failed, try_lock returns
TryFails(t) ==
  /\ pc[t] = "try"
  /\ holder[args[t][next[t]]] # NoThread
  /\ IF hard[t] = 0
     THEN BackOut(t, Taken(t, next[t]), "idle") /\ UNCHANGED hard
     ELSE /\ BackOut(t, Taken(t, next[t]), "hard")
          /\ hard' = [hard EXCEPT ![t] = next[t]]
  /\ UNCHANGED << holder, args >>

TryThrows(t) ==
  /\ MayThrow
  /\ pc[t] = "try"
  /\ BackOut(t, Taken(t, next[t]), "idle")
  /\ UNCHANGED << holder, args, hard >>

\* One mutex of those to be unlocked
UndoOne(t) ==
  /\ pc[t] \in {"undo", "destroy"}
  /\ undo[t] # << >>
  /\ holder' = [holder EXCEPT ![args[t][Head(undo[t])]] = NoThread]
  /\ undo' = [undo EXCEPT ![t] = Tail(@)]
  /\ UNCHANGED << pc, args, hard, next, after >>

\* yield and the next iteration of lock, or the end of the call
Leave(t) ==
  /\ pc[t] \in {"undo", "destroy"}
  /\ undo[t] = << >>
  /\ pc' = [pc EXCEPT ![t] = after[t]]
  /\ after' = [after EXCEPT ![t] = "idle"]
  /\ IF after[t] = "idle"
     THEN /\ args' = [args EXCEPT ![t] = << >>]
          /\ hard' = [hard EXCEPT ![t] = 0]
     ELSE UNCHANGED << args, hard >>
  /\ UNCHANGED << holder, next, undo >>

\* The destructor of scoped_lock: the fold over the comma unlocks from the
\* first argument to the last
Destroy(t) ==
  /\ pc[t] = "held"
  /\ pc' = [pc EXCEPT ![t] = "destroy"]
  /\ undo' = [undo EXCEPT ![t] = From(1, Len(args[t]))]
  /\ UNCHANGED << holder, args, hard, next, after >>

-----------------------------------------------------------------------------

\* What a thread does inside a call
Step(t) == \/ HardLock(t) \/ HardLockThrows(t)
           \/ TrySucceeds(t) \/ TryFails(t) \/ TryThrows(t)
           \/ UndoOne(t) \/ Leave(t)

Next == \E t \in Thread : \/ Lock(t) \/ TryLock(t) \/ Destroy(t)
                          \/ Step(t)

Spec == Init /\ [][Next]_vars

\* Threads inside a call run; nothing is assumed of the clients, who may
\* keep what they hold for ever
FairSpec == Spec /\ \A t \in Thread : WF_vars(Step(t))

-----------------------------------------------------------------------------
(* Properties.                                                             *)

HeldBy(t) == {m \in Mutex : holder[m] = t}

\* lock and try_lock leave the caller with all of its mutexes or with none,
\* whichever index failed or threw
AllOrNothing ==
  \A t \in Thread :
    /\ pc[t] = "held" => HeldBy(t) = {args[t][i] : i \in DOMAIN args[t]}
    /\ pc[t] = "idle" => HeldBy(t) = {}

\* Nothing is unlocked that the thread does not hold, and nothing twice
UnlocksOnlyHeld ==
  \A t \in Thread : \A i \in DOMAIN undo[t] :
    /\ holder[args[t][undo[t][i]]] = t
    /\ \A j \in DOMAIN undo[t] : undo[t][i] = undo[t][j] => i = j

\* t is blocked on a mutex that u holds
WaitsFor(t, u) == pc[t] = "hard" /\ holder[args[t][hard[t]]] = u

\* "Without deadlock": no threads block one another in a circle, whatever
\* the orders in which they name the mutexes
NoCircularWait ==
  \A S \in (SUBSET Thread) \ {{}} : \E t \in S : \A u \in S : ~WaitsFor(t, u)

\* lock blocks instead of spinning: when every other thread has come to
\* rest, holding mutexes or not, a thread in lock returns or blocks for good
\* (on the mutex its last attempt failed on)
Rests(t) == pc[t] \in {"idle", "held"}

BlocksInsteadOfSpinning ==
  \A t \in Thread :
    (\A u \in Thread \ {t} : <>[]Rests(u))
      => ((pc[t] = "hard") ~> (Rests(t) \/ [](pc[t] = "hard")))

=============================================================================
