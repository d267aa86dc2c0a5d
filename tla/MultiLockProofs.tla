--------------------------- MODULE MultiLockProofs ---------------------------
(***************************************************************************)
(* Proofs about custom::lock, custom::try_lock and scoped_lock, for any    *)
(* threads, any mutexes and any lists of them, of any length: a call ends  *)
(* with all of its mutexes or with none, nothing is unlocked that is not   *)
(* held, and no threads block one another in a circle.                     *)
(***************************************************************************)
EXTENDS MultiLock, SequenceTheorems, TLAPS

\* The indices of the mutexes t holds, told by where it is.  While it tries
\* args[next] it holds those before next, the hard one among or beside them.
Owned(t) ==
  CASE pc[t] = "try" ->
         {i \in 1..Len(args[t]) : i < next[t] \/ i = hard[t]}
    [] pc[t] = "held" -> 1..Len(args[t])
    [] pc[t] \in {"undo", "destroy"} -> {undo[t][i] : i \in 1..Len(undo[t])}
    [] OTHER -> {}

\* A thread holds just these mutexes
HolderInv ==
  \A t \in Thread : \A m \in Mutex :
    holder[m] = t <=> \E i \in Owned(t) : args[t][i] = m

Lists == ArgLists \cup {<< >>}

Shape ==
  /\ holder \in [Mutex -> Thread \cup {NoThread}]
  /\ pc \in [Thread -> Location]
  /\ args \in [Thread -> Lists]
  /\ hard \in [Thread -> Nat]
  /\ next \in [Thread -> Nat]
  /\ undo \in [Thread -> Seq(Nat)]
  /\ after \in [Thread -> {"idle", "hard"}]

\* What the indices of a thread are in each place
IndicesOK(t) ==
  /\ hard[t] <= Len(args[t])
  /\ next[t] <= Len(args[t])
  /\ pc[t] = "try" => next[t] > 0 /\ next[t] # hard[t]
  /\ pc[t] # "try" => next[t] = 0
  /\ pc[t] = "hard" => hard[t] > 0
  /\ after[t] = "hard" => pc[t] = "undo" /\ hard[t] > 0

\* The indices still to be unlocked are such, and none is there twice
UndoOK(t) ==
  /\ pc[t] \notin {"undo", "destroy"} => undo[t] = << >>
  /\ \A i \in 1..Len(undo[t]) : undo[t][i] \in 1..Len(args[t])
  /\ \A i, j \in 1..Len(undo[t]) : undo[t][i] = undo[t][j] => i = j

IndexInv == Shape /\ \A t \in Thread : IndicesOK(t) /\ UndoOK(t)

IInv == IndexInv /\ HolderInv

-----------------------------------------------------------------------------
(* Facts about the lists.                                                   *)

\* An argument list names no mutex twice
LEMMA ArgFacts ==
  ASSUME Shape, NEW t \in Thread
  PROVE  /\ args[t] \in Seq(Mutex)
         /\ Len(args[t]) \in Nat
         /\ \A i \in 1..Len(args[t]) : args[t][i] \in Mutex
         /\ \A i, j \in 1..Len(args[t]) : args[t][i] = args[t][j] => i = j
         /\ \A s \in ArgLists : s \in Seq(Mutex) /\ Len(s) \in Nat \ {0}
<1>1. \A s \in ArgLists \cup {<< >>} : s \in Seq(Mutex)
  BY ArgListsAssumption, EmptySeq
<1>2. args[t] \in ArgLists \cup {<< >>}
  BY DEF Shape, Lists
<1>3. DOMAIN args[t] = 1..Len(args[t])
  BY <1>1, <1>2, LenProperties
<1>4. \A i, j \in 1..Len(args[t]) : args[t][i] = args[t][j] => i = j
  <2>1. CASE args[t] = << >>
    BY <2>1
  <2>2. CASE args[t] \in ArgLists
    BY <2>2, <1>3, ArgListsAssumption
  <2>3. QED
    BY <1>2, <2>1, <2>2
<1>5. \A s \in ArgLists : s \in Seq(Mutex) /\ Len(s) \in Nat \ {0}
  BY <1>1, ArgListsAssumption, LenProperties
<1>6. QED
  BY <1>1, <1>2, <1>4, <1>5, LenProperties, ElementOfSeq

\* From(first, last) counts from first to last
LEMMA FromFacts ==
  ASSUME NEW first \in Nat, NEW last \in Nat, first <= last + 1
  PROVE  /\ From(first, last) \in Seq(Nat)
         /\ Len(From(first, last)) = last + 1 - first
         /\ \A i \in 1..(last + 1 - first) :
              From(first, last)[i] = first + i - 1
<1> DEFINE n == last + 1 - first
<1>1. n \in Nat
  OBVIOUS
<1>2. From(first, last) \in [1..n -> Nat]
  BY DEF From
<1>3. From(first, last) \in Seq(Nat)
  BY <1>1, <1>2, SeqDef
<1>4. DOMAIN From(first, last) = 1..n
  BY DEF From
<1>5. Len(From(first, last)) = n
  BY <1>1, <1>3, <1>4, LenProperties
<1>6. QED
  BY <1>3, <1>5 DEF From

\* What lock and try_lock unlock after a failed attempt on index n is each
\* index they hold then, once
LEMMA TakenFacts ==
  ASSUME Shape, NEW t \in Thread, NEW n \in Nat, n > 0, n # hard[t]
  PROVE  /\ Taken(t, n) \in Seq(Nat)
         /\ \A k \in 1..Len(Taken(t, n)) :
              Taken(t, n)[k] > 0 /\ (Taken(t, n)[k] < n \/ Taken(t, n)[k] = hard[t])
         /\ \A i \in Nat \ {0} : i < n \/ i = hard[t] =>
              \E k \in 1..Len(Taken(t, n)) : Taken(t, n)[k] = i
         /\ \A j, k \in 1..Len(Taken(t, n)) :
              Taken(t, n)[j] = Taken(t, n)[k] => j = k
<1> DEFINE h == hard[t]
           s == Taken(t, n)
<1>0. h \in Nat /\ n - 1 \in Nat
  BY DEF Shape
<1>1. CASE n < h
  <2> DEFINE f == From(1, n - 1)
  <2>1. /\ f \in Seq(Nat) /\ Len(f) = n - 1
        /\ \A i \in 1..(n - 1) : f[i] = i
    <3>1. 1 \in Nat /\ 1 <= n - 1 + 1
      OBVIOUS
    <3>2. /\ From(1, n - 1) \in Seq(Nat) /\ Len(From(1, n - 1)) = n - 1 + 1 - 1
          /\ \A i \in 1..(n - 1 + 1 - 1) : From(1, n - 1)[i] = 1 + i - 1
      BY <1>0, <3>1, FromFacts
    <3>3. QED
      BY <3>2
  <2>2. << h >> \in Seq(Nat) /\ Len(<< h >>) = 1 /\ << h >>[1] = h
    BY <1>0
  <2>3. s = f \o << h >>
    BY <1>1 DEF Taken
  <2>4. /\ s \in Seq(Nat) /\ Len(s) = n
        /\ \A i \in 1..n : s[i] = IF i <= n - 1 THEN i ELSE h
    <3> HIDE DEF f, h, s
    <3>1. /\ f \o << h >> \in Seq(Nat)
          /\ Len(f \o << h >>) = Len(f) + Len(<< h >>)
          /\ \A i \in 1..(Len(f) + Len(<< h >>)) : (f \o << h >>)[i] =
               IF i <= Len(f) THEN f[i] ELSE << h >>[i - Len(f)]
      BY <2>1, <2>2, ConcatProperties
    <3>2. QED
      BY <2>1, <2>2, <2>3, <3>1
  <2>5. QED
    <3> HIDE DEF s, h
    <3>1. \A i \in Nat \ {0} : i < n \/ i = h => \E k \in 1..n : s[k] = i
      <4>1. s[n] = h
        BY <2>4
      <4>2. QED
        BY <2>4, <4>1
    <3>2. QED
      BY <1>0, <1>1, <2>4, <3>1 DEF s, h
<1>2. CASE n > h
  <2> DEFINE f == From(h + 1, n - 1)
             g == From(1, h)
  <2>1. /\ f \in Seq(Nat) /\ Len(f) = n - 1 - h
        /\ \A i \in 1..(n - 1 - h) : f[i] = h + i
    <3> HIDE DEF h
    <3>1. h + 1 \in Nat /\ h + 1 <= n - 1 + 1
      BY <1>0, <1>2
    <3>2. /\ From(h + 1, n - 1) \in Seq(Nat)
          /\ Len(From(h + 1, n - 1)) = n - 1 + 1 - (h + 1)
          /\ \A i \in 1..(n - 1 + 1 - (h + 1)) :
               From(h + 1, n - 1)[i] = h + 1 + i - 1
      BY <1>0, <3>1, FromFacts
    <3>3. n - 1 + 1 - (h + 1) = n - 1 - h /\ \A i \in Int : h + 1 + i - 1 = h + i
      BY <1>0
    <3>4. QED
      BY <1>0, <3>2, <3>3
  <2>2. g \in Seq(Nat) /\ Len(g) = h /\ \A i \in 1..h : g[i] = i
    <3> HIDE DEF h
    <3>1. 1 \in Nat /\ 1 <= h + 1 /\ h + 1 - 1 = h
      BY <1>0
    <3>2. /\ From(1, h) \in Seq(Nat) /\ Len(From(1, h)) = h + 1 - 1
          /\ \A i \in 1..(h + 1 - 1) : From(1, h)[i] = 1 + i - 1
      BY <1>0, <3>1, FromFacts
    <3>3. QED
      BY <1>0, <3>1, <3>2
  <2>3. s = f \o g
    BY <1>0, <1>2 DEF Taken
  <2>4. /\ s \in Seq(Nat) /\ Len(s) = n - 1
        /\ \A i \in 1..(n - 1) :
             s[i] = IF i <= n - 1 - h THEN h + i ELSE i - (n - 1 - h)
    <3> HIDE DEF f, g, h, s
    <3>1. /\ f \o g \in Seq(Nat)
          /\ Len(f \o g) = Len(f) + Len(g)
          /\ \A i \in 1..(Len(f) + Len(g)) :
               (f \o g)[i] = IF i <= Len(f) THEN f[i] ELSE g[i - Len(f)]
      BY <2>1, <2>2, ConcatProperties
    <3>2. s \in Seq(Nat) /\ Len(s) = n - 1
      BY <1>0, <1>2, <2>1, <2>2, <2>3, <3>1
    <3>3. ASSUME NEW i \in 1..(n - 1), i <= n - 1 - h
          PROVE  s[i] = h + i
      BY <1>0, <1>2, <2>1, <2>2, <2>3, <3>1, <3>3
    <3>4. ASSUME NEW i \in 1..(n - 1), ~ (i <= n - 1 - h)
          PROVE  s[i] = i - (n - 1 - h)
      <4>1. i \in 1..(Len(f) + Len(g)) /\ ~ (i <= Len(f)) /\ i - Len(f) \in 1..h
        BY <1>0, <1>2, <2>1, <2>2, <3>4
      <4>2. s[i] = g[i - Len(f)]
        BY <2>3, <3>1, <4>1
      <4>3. QED
        BY <2>1, <2>2, <4>1, <4>2
    <3>5. QED
      BY <3>2, <3>3, <3>4
  <2>5. QED
    <3> HIDE DEF s, h
    <3>1. ASSUME NEW i \in Nat \ {0}, i < n \/ i = h
          PROVE  \E k \in 1..(n - 1) : s[k] = i
      <4>1. CASE i <= h
        <5>1. s[i + (n - 1 - h)] = i /\ i + (n - 1 - h) \in 1..(n - 1)
          BY <1>0, <1>2, <2>4, <4>1
        <5>2. QED
          BY <5>1
      <4>2. CASE i > h
        <5>1. s[i - h] = i /\ i - h \in 1..(n - 1)
          BY <1>0, <1>2, <2>4, <3>1, <4>2
        <5>2. QED
          BY <5>1
      <4>3. QED
        BY <1>0, <4>1, <4>2
    <3>a. ASSUME NEW k \in 1..(n - 1)
          PROVE  \/ k <= n - 1 - h /\ s[k] = h + k /\ s[k] > h /\ s[k] < n
                 \/ /\ k > n - 1 - h /\ s[k] = k - (n - 1 - h)
                    /\ s[k] <= h /\ s[k] > 0
      <4>1. k \in Int /\ k >= 1 /\ k <= n - 1
        OBVIOUS
      <4>2. s[k] = IF k <= n - 1 - h THEN h + k ELSE k - (n - 1 - h)
        BY <2>4
      <4>3. CASE k <= n - 1 - h
        BY <1>0, <4>1, <4>2, <4>3
      <4>4. CASE k > n - 1 - h
        BY <1>0, <4>1, <4>2, <4>4
      <4>5. QED
        BY <1>0, <4>1, <4>3, <4>4
    <3>2. \A k \in 1..(n - 1) : s[k] > 0 /\ (s[k] < n \/ s[k] = h)
      BY <1>0, <1>2, <3>a
    <3>3. \A j, k \in 1..(n - 1) : s[j] = s[k] => j = k
      BY <1>0, <1>2, <3>a
    <3>4. QED
      BY <2>4, <3>1, <3>2, <3>3 DEF s, h
<1>3. QED
  BY <1>0, <1>1, <1>2

-----------------------------------------------------------------------------
(* Types and indices.                                                       *)

\* Every index is one of an argument list, and the lists of indices to be
\* unlocked name none twice
LEMMA IndexStep ==
  ASSUME IndexInv, [Next]_vars
  PROVE  IndexInv'
<1> USE DEF IndexInv, Shape, Location
<1>u. ASSUME NEW t \in Thread, UNCHANGED << args, hard, next, undo, after, pc >>
      PROVE  IndicesOK(t)' /\ UndoOK(t)'
  BY <1>u DEF IndicesOK, UndoOK
<1>l. << >> \in Lists /\ ArgLists \subseteq Lists
  BY DEF Lists
<1>1. ASSUME NEW t \in Thread, Lock(t) \/ TryLock(t) PROVE IndexInv'
  <2>1. PICK s \in ArgLists : args' = [args EXCEPT ![t] = s]
    BY <1>1 DEF Lock, TryLock
  <2>2. s \in Lists /\ Len(s) \in Nat \ {0}
    BY <1>l, ArgFacts
  <2>3. /\ \/ /\ hard' = [hard EXCEPT ![t] = 1]
              /\ pc' = [pc EXCEPT ![t] = "hard"] /\ next' = next
           \/ /\ hard' = [hard EXCEPT ![t] = 0]
              /\ pc' = [pc EXCEPT ![t] = "try"] /\ next' = [next EXCEPT ![t] = 1]
        /\ pc[t] = "idle"
        /\ holder' = holder /\ undo' = undo /\ after' = after
    BY <1>1 DEF Lock, TryLock
  <2>4. Shape'
    <3>1. args' \in [Thread -> Lists]
      BY <2>1, <2>2
    <3>2. hard' \in [Thread -> Nat] /\ next' \in [Thread -> Nat]
      BY <2>3
    <3>3. pc' \in [Thread -> Location]
      BY <2>3
    <3>4. QED
      BY <2>3, <3>1, <3>2, <3>3
  <2>5. ASSUME NEW u \in Thread PROVE IndicesOK(u)'
    BY <2>1, <2>2, <2>3 DEF IndicesOK
  <2>6. ASSUME NEW u \in Thread PROVE UndoOK(u)'
    <3>1. undo[t] = << >> /\ Len(undo[t]) = 0
      BY <2>3, EmptySeq DEF UndoOK
    <3>2. CASE u = t
      BY <2>3, <3>1, <3>2 DEF UndoOK
    <3>3. CASE u # t
      BY <2>1, <2>3, <3>3 DEF UndoOK
    <3>4. QED
      BY <3>2, <3>3
  <2>7. QED
    BY <2>4, <2>5, <2>6
<1>2. ASSUME NEW t \in Thread, HardLock(t) PROVE IndexInv'
  <2>1. Shape'
    <3>1. args[t][hard[t]] \in Mutex
      BY <1>2, ArgFacts DEF HardLock, IndicesOK
    <3>2. QED
      BY <1>2, <3>1 DEF HardLock, Proceed, NextIndex
  <2>2. ASSUME NEW u \in Thread PROVE IndicesOK(u)'
    BY <1>2, ArgFacts DEF HardLock, Proceed, NextIndex, IndicesOK
  <2>3. ASSUME NEW u \in Thread PROVE UndoOK(u)'
    BY <1>2 DEF HardLock, Proceed, UndoOK
  <2>4. QED
    BY <2>1, <2>2, <2>3
<1>3. ASSUME NEW t \in Thread, HardLockThrows(t) PROVE IndexInv'
  <2>1. Shape'
    BY <1>3, EmptySeq DEF HardLockThrows, BackOut
  <2>2. ASSUME NEW u \in Thread PROVE IndicesOK(u)'
    BY <1>3, ArgFacts DEF HardLockThrows, BackOut, IndicesOK
  <2>3. ASSUME NEW u \in Thread PROVE UndoOK(u)'
    BY <1>3, EmptySeq DEF HardLockThrows, BackOut, UndoOK
  <2>4. QED
    BY <2>1, <2>2, <2>3
<1>5. ASSUME NEW t \in Thread, TrySucceeds(t) PROVE IndexInv'
  <2>1. Shape'
    <3>1. args[t][next[t]] \in Mutex
      BY <1>5, ArgFacts DEF TrySucceeds, IndicesOK
    <3>2. QED
      BY <1>5, <3>1 DEF TrySucceeds, Proceed, NextIndex
  <2>2. ASSUME NEW u \in Thread PROVE IndicesOK(u)'
    BY <1>5, ArgFacts DEF TrySucceeds, Proceed, NextIndex, IndicesOK
  <2>3. ASSUME NEW u \in Thread PROVE UndoOK(u)'
    BY <1>5 DEF TrySucceeds, Proceed, UndoOK
  <2>4. QED
    BY <2>1, <2>2, <2>3
<1>6. ASSUME NEW t \in Thread, TryFails(t) \/ TryThrows(t) PROVE IndexInv'
  <2> DEFINE s == Taken(t, next[t])
  <2>1. /\ s \in Seq(Nat) /\ Len(s) \in Nat
        /\ \A k \in 1..Len(s) : s[k] \in 1..Len(args[t])
        /\ \A j, k \in 1..Len(s) : s[j] = s[k] => j = k
    <3>1. next[t] \in Nat /\ next[t] > 0 /\ next[t] # hard[t]
      BY <1>6 DEF TryFails, TryThrows, IndicesOK
    <3>2. /\ s \in Seq(Nat)
          /\ \A k \in 1..Len(s) : s[k] > 0 /\ (s[k] < next[t] \/ s[k] = hard[t])
          /\ \A j, k \in 1..Len(s) : s[j] = s[k] => j = k
      BY <3>1, TakenFacts
    <3>3. \A k \in 1..Len(s) : s[k] \in Nat
      BY <3>2, ElementOfSeq
    <3>4. hard[t] <= Len(args[t]) /\ next[t] <= Len(args[t]) /\ Len(args[t]) \in Nat
      BY ArgFacts DEF IndicesOK
    <3>5. ASSUME NEW k \in 1..Len(s) PROVE s[k] \in 1..Len(args[t])
      <4>1. s[k] \in Nat /\ s[k] > 0 /\ (s[k] < next[t] \/ s[k] = hard[t])
        BY <3>2, <3>3
      <4>2. QED
        BY <3>1, <3>4, <4>1
    <3>6. QED
      BY <3>2, <3>5, LenProperties
  <2> HIDE DEF s
  <2>2. /\ undo' = [undo EXCEPT ![t] = s] /\ args' = args
        /\ pc' = [pc EXCEPT ![t] = "undo"] /\ next' = [next EXCEPT ![t] = 0]
    BY <1>6 DEF TryFails, TryThrows, BackOut, s
  <2>3. Shape'
    BY <1>6, <2>1, <2>2, ZenonT(60) DEF TryFails, TryThrows, BackOut
  <2>4. ASSUME NEW u \in Thread PROVE IndicesOK(u)'
    BY <1>6, <2>2, ArgFacts, SMTT(30) DEF TryFails, TryThrows, BackOut, IndicesOK
  <2>5. ASSUME NEW u \in Thread PROVE UndoOK(u)'
    BY <2>1, <2>2 DEF UndoOK
  <2>6. QED
    BY <2>3, <2>4, <2>5
<1>7. ASSUME NEW t \in Thread, UndoOne(t) PROVE IndexInv'
  <2>1. /\ Tail(undo[t]) \in Seq(Nat) /\ Len(undo[t]) \in Nat
        /\ Len(Tail(undo[t])) = Len(undo[t]) - 1
        /\ \A i \in 1..Len(Tail(undo[t])) : Tail(undo[t])[i] = undo[t][i + 1]
    BY <1>7, HeadTailProperties, LenProperties DEF UndoOne
  <2>2. Head(undo[t]) = undo[t][1] /\ 1 \in 1..Len(undo[t])
    BY <1>7, EmptySeq DEF UndoOne
  <2>3. args[t][Head(undo[t])] \in Mutex
    BY <2>2, ArgFacts DEF UndoOK
  <2>4. Shape'
    BY <1>7, <2>1, <2>3 DEF UndoOne
  <2>5. ASSUME NEW u \in Thread PROVE IndicesOK(u)'
    BY <1>7 DEF UndoOne, IndicesOK
  <2>6. ASSUME NEW u \in Thread PROVE UndoOK(u)'
    <3>1. CASE u = t
      <4>1. undo'[t] = Tail(undo[t]) /\ args' = args /\ pc' = pc
        BY <1>7 DEF UndoOne
      <4>2. pc[t] \in {"undo", "destroy"}
        BY <1>7 DEF UndoOne
      <4>3. \A i \in 1..(Len(undo[t]) - 1) : i + 1 \in 1..Len(undo[t])
        BY <2>1
      <4>4. ASSUME NEW i \in 1..Len(Tail(undo[t]))
            PROVE  /\ i + 1 \in 1..Len(undo[t])
                   /\ Tail(undo[t])[i] = undo[t][i + 1]
                   /\ Tail(undo[t])[i] \in 1..Len(args[t])
        BY <2>1, <4>3 DEF UndoOK
      <4>5. ASSUME NEW i \in 1..Len(Tail(undo[t])),
                   NEW j \in 1..Len(Tail(undo[t])),
                   Tail(undo[t])[i] = Tail(undo[t])[j]
            PROVE  i = j
        <5>1. undo[t][i + 1] = undo[t][j + 1]
          BY <4>4, <4>5
        <5>2. i + 1 = j + 1
          BY <4>4, <5>1 DEF UndoOK
        <5>3. QED
          BY <2>1, <5>2
      <4>6. QED
        BY <3>1, <4>1, <4>2, <4>4, <4>5, ZenonT(60) DEF UndoOK
    <3>2. CASE u # t
      BY <1>7, <3>2 DEF UndoOne, UndoOK
    <3>3. QED
      BY <3>1, <3>2
  <2>7. QED
    BY <2>4, <2>5, <2>6
<1>8. ASSUME NEW t \in Thread, Leave(t) PROVE IndexInv'
  <2>1. Shape'
    <3>1. args' \in [Thread -> Lists]
      BY <1>8, <1>l DEF Leave
    <3>2. pc' \in [Thread -> Location] /\ after' \in [Thread -> {"idle", "hard"}]
      BY <1>8 DEF Leave
    <3>3. hard' \in [Thread -> Nat]
      <4>1. hard' = [hard EXCEPT ![t] = 0] \/ hard' = hard
        BY <1>8 DEF Leave
      <4>2. \A f \in [Thread -> Nat] : [f EXCEPT ![t] = 0] \in [Thread -> Nat]
        OBVIOUS
      <4>3. QED
        BY <4>1, <4>2, SMTT(30)
    <3>4. QED
      BY <1>8, <3>1, <3>2, <3>3 DEF Leave
  <2>2. ASSUME NEW u \in Thread PROVE IndicesOK(u)'
    BY <1>8 DEF Leave, IndicesOK
  <2>3. ASSUME NEW u \in Thread PROVE UndoOK(u)'
    BY <1>8, EmptySeq, SMTT(40) DEF Leave, UndoOK
  <2>4. QED
    BY <2>1, <2>2, <2>3
<1>9. ASSUME NEW t \in Thread, Destroy(t) PROVE IndexInv'
  <2> DEFINE n == Len(args[t])
             s == From(1, n)
  <2>1. n \in Nat
    BY ArgFacts
  <2>2. s \in Seq(Nat) /\ Len(s) = n /\ \A i \in 1..n : s[i] = i
    <3> HIDE DEF n
    <3>1. 1 \in Nat /\ 1 <= n + 1 /\ n + 1 - 1 = n
      BY <2>1
    <3>2. /\ From(1, n) \in Seq(Nat) /\ Len(From(1, n)) = n + 1 - 1
          /\ \A i \in 1..(n + 1 - 1) : From(1, n)[i] = 1 + i - 1
      BY <2>1, <3>1, FromFacts
    <3>3. QED
      BY <2>1, <3>1, <3>2
  <2>3. undo' = [undo EXCEPT ![t] = s]
    BY <1>9 DEF Destroy
  <2> HIDE DEF s
  <2>4. Shape'
    BY <1>9, <2>2, <2>3 DEF Destroy
  <2>5. ASSUME NEW u \in Thread PROVE IndicesOK(u)'
    BY <1>9 DEF Destroy, IndicesOK
  <2>6. ASSUME NEW u \in Thread PROVE UndoOK(u)'
    BY <1>9, <2>2, <2>3, SMTT(30) DEF Destroy, UndoOK
  <2>7. QED
    BY <2>4, <2>5, <2>6
<1>10. CASE UNCHANGED vars
  BY <1>10, <1>u DEF vars
<1>11. QED
  BY <1>1, <1>2, <1>3, <1>5, <1>6, <1>7, <1>8, <1>9, <1>10 DEF Next, Step

-----------------------------------------------------------------------------
(* Who holds what.                                                          *)

\* What a thread owns are indices of its list
LEMMA OwnedFacts ==
  ASSUME IndexInv, NEW t \in Thread, NEW i \in Owned(t)
  PROVE  i \in 1..Len(args[t]) /\ args[t][i] \in Mutex
<1>1. i \in 1..Len(args[t])
  BY DEF Owned, IndexInv, UndoOK
<1>2. QED
  BY <1>1, ArgFacts DEF IndexInv

\* A thread that takes a free mutex owns one index more
LEMMA AcquireKeeps ==
  ASSUME IndexInv, HolderInv, NEW t \in Thread, NEW k \in 1..Len(args[t]),
         holder[args[t][k]] = NoThread,
         holder' = [holder EXCEPT ![args[t][k]] = t],
         args' = args,
         Owned(t)' = Owned(t) \cup {k},
         \A u \in Thread : u # t => Owned(u)' = Owned(u)
  PROVE  HolderInv'
<1>1. args[t][k] \in Mutex /\ NoThread \notin Thread
  BY ArgFacts, ArgListsAssumption DEF IndexInv
<1>2. ASSUME NEW u \in Thread, NEW m \in Mutex
      PROVE  holder'[m] = u <=> \E i \in Owned(u)' : args[u][i] = m
  <2>1. holder'[m] = IF m = args[t][k] THEN t ELSE holder[m]
    BY <1>1 DEF IndexInv, Shape
  <2>2. holder[m] = u <=> \E i \in Owned(u) : args[u][i] = m
    BY DEF HolderInv
  <2>3. QED
    BY <1>1, <2>1, <2>2
<1>3. QED
  BY <1>2 DEF HolderInv

\* A thread that gives a mutex up owns one index less
LEMMA ReleaseKeeps ==
  ASSUME IndexInv, HolderInv, NEW t \in Thread, NEW k \in Owned(t),
         holder' = [holder EXCEPT ![args[t][k]] = NoThread],
         args' = args,
         Owned(t)' = Owned(t) \ {k},
         \A u \in Thread : u # t => Owned(u)' = Owned(u)
  PROVE  HolderInv'
<1>1. /\ args[t][k] \in Mutex /\ NoThread \notin Thread
      /\ holder[args[t][k]] = t
  BY OwnedFacts, ArgListsAssumption DEF HolderInv
<1>2. ASSUME NEW i \in Owned(t), args[t][i] = args[t][k] PROVE i = k
  <2>1. i \in 1..Len(args[t]) /\ k \in 1..Len(args[t])
    BY OwnedFacts
  <2>2. QED
    BY <1>2, <2>1, ArgFacts DEF IndexInv
<1>3. ASSUME NEW u \in Thread, NEW m \in Mutex
      PROVE  holder'[m] = u <=> \E i \in Owned(u)' : args[u][i] = m
  <2>1. holder'[m] = IF m = args[t][k] THEN NoThread ELSE holder[m]
    BY <1>1 DEF IndexInv, Shape
  <2>2. holder[m] = u <=> \E i \in Owned(u) : args[u][i] = m
    BY DEF HolderInv
  <2>3. CASE u = t
    BY <1>1, <1>2, <2>1, <2>2, <2>3
  <2>4. CASE u # t
    BY <1>1, <2>1, <2>2, <2>4
  <2>5. QED
    BY <2>3, <2>4
<1>4. QED
  BY <1>3 DEF HolderInv

\* A step that takes and gives up nothing
LEMMA NothingTaken ==
  ASSUME HolderInv, holder' = holder,
         \A u \in Thread : \/ Owned(u) = {} /\ Owned(u)' = {}
                           \/ Owned(u)' = Owned(u) /\ args'[u] = args[u]
  PROVE  HolderInv'
BY DEF HolderInv

\* The mutexes a thread owns are those it holds, through every step
LEMMA HolderStep ==
  ASSUME IInv, IndexInv', [Next]_vars
  PROVE  HolderInv'
<1> USE DEF IInv
<1>1. ASSUME NEW t \in Thread, Lock(t) \/ TryLock(t) PROVE HolderInv'
  <2>1. Owned(t) = {} /\ Owned(t)' = {}
    BY <1>1 DEF Lock, TryLock, Owned, IndexInv, Shape, IndicesOK
  <2>2. ASSUME NEW u \in Thread, u # t
        PROVE  Owned(u)' = Owned(u) /\ args'[u] = args[u]
    <3>1. /\ args'[u] = args[u] /\ pc'[u] = pc[u] /\ hard'[u] = hard[u]
          /\ next'[u] = next[u] /\ undo' = undo
      BY <1>1, <2>2 DEF Lock, TryLock, IndexInv, Shape
    <3>2. QED
      BY <3>1 DEF Owned
  <2>3. holder' = holder
    BY <1>1 DEF Lock, TryLock
  <2>4. QED
    BY <2>1, <2>2, <2>3, NothingTaken
<1>2. ASSUME NEW t \in Thread, HardLock(t) PROVE HolderInv'
  <2>1. hard[t] \in 1..Len(args[t]) /\ Len(args[t]) \in Nat
    BY <1>2, ArgFacts DEF HardLock, IndexInv, Shape, IndicesOK
  <2>2. Owned(t) = {}
    BY <1>2 DEF HardLock, Owned
  <2>3. Owned(t)' = {hard[t]}
    BY <1>2, <2>1 DEF HardLock, Owned, IndexInv, Shape, Proceed, NextIndex
  <2>4. \A u \in Thread : u # t => Owned(u)' = Owned(u)
    BY <1>2 DEF HardLock, Owned, IndexInv, Shape, Proceed
  <2>5. QED
    BY <1>2, <2>1, <2>2, <2>3, <2>4, AcquireKeeps DEF HardLock
<1>3. ASSUME NEW t \in Thread, HardLockThrows(t) PROVE HolderInv'
  <2>1. Owned(t) = {} /\ Owned(t)' = {}
    BY <1>3, EmptySeq DEF HardLockThrows, BackOut, Owned, IndexInv, Shape
  <2>2. ASSUME NEW u \in Thread, u # t
        PROVE  Owned(u)' = Owned(u) /\ args'[u] = args[u]
    BY <1>3, <2>2 DEF HardLockThrows, BackOut, Owned, IndexInv, Shape
  <2>3. QED
    BY <1>3, <2>1, <2>2, NothingTaken DEF HardLockThrows
<1>5. ASSUME NEW t \in Thread, TrySucceeds(t) PROVE HolderInv'
  <2>1. /\ next[t] \in 1..Len(args[t]) /\ Len(args[t]) \in Nat
        /\ hard[t] \in 0..Len(args[t]) /\ next[t] # hard[t]
    BY <1>5, ArgFacts DEF TrySucceeds, IndexInv, Shape, IndicesOK
  <2>2. Owned(t) = {i \in 1..Len(args[t]) : i < next[t] \/ i = hard[t]}
    BY <1>5 DEF TrySucceeds, Owned
  <2>3. Owned(t)' = Owned(t) \cup {next[t]}
    <3>1. CASE NextIndex(t, next[t]) > Len(args[t])
      <4>1. Owned(t)' = 1..Len(args[t])
        BY <1>5, <3>1 DEF TrySucceeds, Proceed, Owned, IndexInv, Shape
      <4>2. QED
        BY <2>1, <2>2, <3>1, <4>1 DEF NextIndex
    <3>2. CASE ~(NextIndex(t, next[t]) > Len(args[t]))
      <4>1. Owned(t)' = {i \in 1..Len(args[t]) :
                           i < NextIndex(t, next[t]) \/ i = hard[t]}
        BY <1>5, <3>2 DEF TrySucceeds, Proceed, Owned, IndexInv, Shape
      <4>2. QED
        BY <2>1, <2>2, <4>1 DEF NextIndex
    <3>3. QED
      BY <3>1, <3>2
  <2>4. \A u \in Thread : u # t => Owned(u)' = Owned(u)
    BY <1>5 DEF TrySucceeds, Owned, IndexInv, Shape, Proceed
  <2>5. QED
    BY <1>5, <2>1, <2>3, <2>4, AcquireKeeps DEF TrySucceeds
<1>6. ASSUME NEW t \in Thread, TryFails(t) \/ TryThrows(t) PROVE HolderInv'
  <2> DEFINE s == Taken(t, next[t])
  <2>1. /\ pc[t] = "try"
        /\ holder' = holder /\ args' = args
        /\ undo' = [undo EXCEPT ![t] = s]
        /\ pc' = [pc EXCEPT ![t] = "undo"] /\ next' = [next EXCEPT ![t] = 0]
        /\ \A u \in Thread : u # t => hard'[u] = hard[u]
    BY <1>6 DEF TryFails, TryThrows, BackOut, IndexInv, Shape
  <2>2. next[t] \in Nat /\ next[t] > 0 /\ next[t] # hard[t]
    BY <2>1 DEF IndexInv, Shape, IndicesOK
  <2>3. Owned(t) = {i \in 1..Len(args[t]) : i < next[t] \/ i = hard[t]}
    BY <2>1 DEF Owned
  <2>4. Owned(t)' = {s[i] : i \in 1..Len(s)}
    BY <2>1 DEF Owned, IndexInv, Shape
  <2>5. \A k \in 1..Len(s) : s[k] \in 1..Len(args[t])
    <3>1. undo'[t] = s /\ args'[t] = args[t]
      BY <2>1 DEF IndexInv, Shape
    <3>2. QED
      BY <3>1 DEF IndexInv, UndoOK
  <2>6. /\ \A k \in 1..Len(s) : s[k] < next[t] \/ s[k] = hard[t]
        /\ \A i \in Nat \ {0} : i < next[t] \/ i = hard[t] =>
             \E k \in 1..Len(s) : s[k] = i
    BY <2>2, TakenFacts DEF IndexInv
  <2>7. Owned(t)' = Owned(t)
    <3> HIDE DEF s
    <3>1. \A i \in 1..Len(args[t]) : i \in Nat \ {0}
      OBVIOUS
    <3>2. QED
      BY <2>3, <2>4, <2>5, <2>6, <3>1
  <2>8. ASSUME NEW u \in Thread, u # t PROVE Owned(u)' = Owned(u)
    <3>1. /\ args' = args /\ pc'[u] = pc[u] /\ hard'[u] = hard[u]
          /\ next'[u] = next[u] /\ undo'[u] = undo[u]
      BY <2>1, <2>8 DEF IndexInv, Shape
    <3>2. QED
      BY <3>1 DEF Owned
  <2>9. QED
    BY <2>1, <2>7, <2>8, NothingTaken
<1>7. ASSUME NEW t \in Thread, UndoOne(t) PROVE HolderInv'
  <2>1. /\ Len(undo[t]) \in Nat
        /\ Len(Tail(undo[t])) = Len(undo[t]) - 1
        /\ \A i \in 1..Len(Tail(undo[t])) : Tail(undo[t])[i] = undo[t][i + 1]
    BY <1>7, HeadTailProperties, LenProperties DEF UndoOne, IndexInv, Shape
  <2>2. Head(undo[t]) = undo[t][1] /\ 1 \in 1..Len(undo[t])
    BY <1>7, EmptySeq DEF UndoOne, IndexInv, Shape
  <2>3. Owned(t) = {undo[t][i] : i \in 1..Len(undo[t])}
    BY <1>7 DEF UndoOne, Owned
  <2>4. Owned(t)' = {Tail(undo[t])[i] : i \in 1..Len(Tail(undo[t]))}
    BY <1>7 DEF UndoOne, Owned, IndexInv, Shape
  <2>5. Owned(t)' = Owned(t) \ {Head(undo[t])}
    <3>1. ASSUME NEW i \in 1..Len(Tail(undo[t]))
          PROVE  /\ Tail(undo[t])[i] \in Owned(t)
                 /\ Tail(undo[t])[i] # Head(undo[t])
      <4>1. i + 1 \in 1..Len(undo[t]) /\ i + 1 # 1
        BY <2>1
      <4>2. Tail(undo[t])[i] = undo[t][i + 1]
        BY <2>1
      <4>3. undo[t][i + 1] # undo[t][1]
        BY <2>2, <4>1 DEF IndexInv, UndoOK
      <4>4. QED
        BY <2>2, <2>3, <4>1, <4>2, <4>3
    <3>2. ASSUME NEW j \in 1..Len(undo[t]), undo[t][j] # Head(undo[t])
          PROVE  undo[t][j] \in Owned(t)'
      <4>1. j # 1
        BY <2>2, <3>2
      <4>2. j - 1 \in 1..Len(Tail(undo[t])) /\ j - 1 + 1 = j
        BY <2>1, <4>1
      <4>3. Tail(undo[t])[j - 1] = undo[t][j]
        BY <2>1, <4>2
      <4>4. QED
        BY <2>4, <4>2, <4>3
    <3>3. QED
      BY <2>3, <2>4, <3>1, <3>2
  <2>6. \A u \in Thread : u # t => Owned(u)' = Owned(u)
    BY <1>7 DEF UndoOne, Owned, IndexInv, Shape
  <2>7. QED
    BY <1>7, <2>2, <2>3, <2>5, <2>6, ReleaseKeeps DEF UndoOne
<1>8. ASSUME NEW t \in Thread, Leave(t) PROVE HolderInv'
  <2>1. Owned(t) = {} /\ Owned(t)' = {}
    BY <1>8, EmptySeq DEF Leave, Owned, IndexInv, Shape
  <2>2. ASSUME NEW u \in Thread, u # t
        PROVE  Owned(u)' = Owned(u) /\ args'[u] = args[u]
    <3>1. /\ args'[u] = args[u] /\ pc'[u] = pc[u] /\ hard'[u] = hard[u]
          /\ next' = next /\ undo' = undo
      BY <1>8, <2>2 DEF Leave, IndexInv, Shape
    <3>2. QED
      BY <3>1 DEF Owned
  <2>3. QED
    BY <1>8, <2>1, <2>2, NothingTaken DEF Leave
<1>9. ASSUME NEW t \in Thread, Destroy(t) PROVE HolderInv'
  <2> DEFINE n == Len(args[t])
             s == From(1, n)
  <2>1. n \in Nat
    BY ArgFacts DEF IndexInv
  <2>2. Len(s) = n /\ \A i \in 1..n : s[i] = i
    <3> HIDE DEF n
    <3>1. 1 \in Nat /\ 1 <= n + 1 /\ n + 1 - 1 = n
      BY <2>1
    <3>2. /\ Len(From(1, n)) = n + 1 - 1
          /\ \A i \in 1..(n + 1 - 1) : From(1, n)[i] = 1 + i - 1
      BY <2>1, <3>1, FromFacts
    <3>3. QED
      BY <2>1, <3>1, <3>2
  <2>3. Owned(t)' = {s[i] : i \in 1..Len(s)}
    BY <1>9 DEF Destroy, Owned, IndexInv, Shape
  <2>4. Owned(t) = 1..n
    BY <1>9 DEF Destroy, Owned
  <2>5. \A u \in Thread : u # t => Owned(u)' = Owned(u)
    BY <1>9 DEF Destroy, Owned, IndexInv, Shape
  <2>6. Owned(t)' = Owned(t)
    <3> HIDE DEF s, n
    <3>1. QED
      BY <2>2, <2>3, <2>4
  <2>7. QED
    BY <1>9, <2>5, <2>6, NothingTaken DEF Destroy
<1>10. CASE UNCHANGED vars
  BY <1>10, NothingTaken DEF vars, Owned
<1>11. QED
  BY <1>1, <1>2, <1>3, <1>5, <1>6, <1>7, <1>8, <1>9, <1>10 DEF Next, Step

\* The inductive invariant holds of every mix of lock, try_lock and
\* scoped_lock, with mutexes that throw or not
THEOREM Invariance == Spec => []IInv
<1>1. Init => IInv
  <2> SUFFICES ASSUME Init PROVE IInv
    OBVIOUS
  <2>1. Shape
    BY EmptySeq DEF Init, Shape, Lists, Location
  <2>2. \A t \in Thread : IndicesOK(t) /\ UndoOK(t)
    BY EmptySeq DEF Init, IndicesOK, UndoOK
  <2>3. HolderInv
    BY ArgListsAssumption DEF Init, HolderInv, Owned
  <2>4. QED
    BY <2>1, <2>2, <2>3 DEF IInv, IndexInv
<1>2. IInv /\ [Next]_vars => IInv'
  BY IndexStep, HolderStep DEF IInv
<1>3. QED
  BY <1>1, <1>2, PTL DEF Spec

-----------------------------------------------------------------------------
(* What follows from it.                                                    *)

\* Every index a thread works with is one of its argument list
THEOREM TypeCorrect == Spec => []TypeOK
<1>1. IInv => TypeOK
  <2> SUFFICES ASSUME IInv PROVE TypeOK
    OBVIOUS
  <2>1. ASSUME NEW t \in Thread
        PROVE  /\ hard[t] \in 0..Len(args[t])
               /\ next[t] \in 0..Len(args[t])
               /\ \A i \in DOMAIN undo[t] : undo[t][i] \in 1..Len(args[t])
    <3>1. Len(args[t]) \in Nat /\ DOMAIN undo[t] = 1..Len(undo[t])
      BY ArgFacts, LenProperties DEF IInv, IndexInv, Shape
    <3>2. QED
      BY <3>1 DEF IInv, IndexInv, Shape, IndicesOK, UndoOK
  <2>2. QED
    BY <2>1 DEF IInv, IndexInv, Shape, TypeOK, Lists
<1>2. QED
  BY <1>1, Invariance, PTL

\* lock, try_lock and scoped_lock take all of their mutexes or none
THEOREM AllOrNothingHolds == Spec => []AllOrNothing
<1>1. IInv => AllOrNothing
  <2> SUFFICES ASSUME IInv, NEW t \in Thread
               PROVE  /\ pc[t] = "held" =>
                           HeldBy(t) = {args[t][i] : i \in DOMAIN args[t]}
                      /\ pc[t] = "idle" => HeldBy(t) = {}
    BY DEF AllOrNothing
  <2>1. HeldBy(t) = {m \in Mutex : \E i \in Owned(t) : args[t][i] = m}
    BY DEF HeldBy, HolderInv, IInv
  <2>2. /\ DOMAIN args[t] = 1..Len(args[t])
        /\ \A i \in 1..Len(args[t]) : args[t][i] \in Mutex
    BY ArgFacts, LenProperties DEF IInv, IndexInv
  <2>3. QED
    BY <2>1, <2>2 DEF Owned
<1>2. QED
  BY <1>1, Invariance, PTL

\* Whatever failed or threw, what a call unlocks it holds, and once each
THEOREM UnlocksOnlyHeldHolds == Spec => []UnlocksOnlyHeld
<1>1. IInv => UnlocksOnlyHeld
  <2> SUFFICES ASSUME IInv, NEW t \in Thread, NEW i \in DOMAIN undo[t]
               PROVE  /\ holder[args[t][undo[t][i]]] = t
                      /\ \A j \in DOMAIN undo[t] : undo[t][i] = undo[t][j] => i = j
    BY DEF UnlocksOnlyHeld
  <2>1. DOMAIN undo[t] = 1..Len(undo[t])
    BY LenProperties DEF IInv, IndexInv, Shape
  <2>2. undo[t] # << >>
    BY EmptySeq, <2>1
  <2>3. undo[t][i] \in Owned(t)
    BY <2>1, <2>2 DEF IInv, IndexInv, UndoOK, Owned
  <2>4. args[t][undo[t][i]] \in Mutex
    BY <2>3, OwnedFacts DEF IInv
  <2>5. QED
    BY <2>1, <2>3, <2>4 DEF IInv, IndexInv, UndoOK, HolderInv
<1>2. QED
  BY <1>1, Invariance, PTL

\* A thread that blocks holds nothing, so nobody waits for a thread that
\* waits: no circle of any length closes
THEOREM NoDeadlock == Spec => []NoCircularWait
<1>1. IInv => NoCircularWait
  <2> SUFFICES ASSUME IInv, NEW S \in (SUBSET Thread) \ {{}}
               PROVE  \E t \in S : \A u \in S : ~WaitsFor(t, u)
    BY DEF NoCircularWait
  <2>1. ASSUME NEW t \in Thread, NEW u \in Thread, WaitsFor(t, u)
        PROVE  pc[u] # "hard"
    <3>1. hard[t] \in 1..Len(args[t])
      BY <2>1, ArgFacts DEF WaitsFor, IInv, IndexInv, Shape, IndicesOK
    <3>2. args[t][hard[t]] \in Mutex
      BY <3>1, ArgFacts DEF IInv, IndexInv
    <3>3. Owned(u) # {}
      BY <2>1, <3>2 DEF WaitsFor, IInv, HolderInv
    <3>4. QED
      BY <3>3 DEF Owned
  <2>2. PICK t \in S : t \in Thread
    OBVIOUS
  <2>3. CASE \E u \in S : WaitsFor(t, u)
    <3>1. PICK u \in S : WaitsFor(t, u)
      BY <2>3
    <3>2. \A v \in S : ~WaitsFor(u, v)
      BY <2>1, <3>1 DEF WaitsFor
    <3>3. QED
      BY <3>2
  <2>4. CASE \A u \in S : ~WaitsFor(t, u)
    BY <2>4
  <2>5. QED
    BY <2>3, <2>4
<1>2. QED
  BY <1>1, Invariance, PTL

=============================================================================
