--------------------------- MODULE SharedPtrProofs ---------------------------
(***************************************************************************)
(* Proofs about shared_ptr and weak_ptr, for any finite sets of threads    *)
(* and variables and any set of control blocks, as long as clients lock no *)
(* weak_ptr that may have expired: the counts are exact, what is owned     *)
(* lives, everything is released, and once.                                *)
(***************************************************************************)
EXTENDS SharedPtr, FiniteSetTheorems, TLAPS

USE NoBlockAssumption

\* How many shared_ptrs and weak_ptrs refer to a control block, and how many
\* threads are at a stage of giving it up
NS(b) == Cardinality(SharedTo(b))
NW(b) == Cardinality(WeakRefs(b))
NA(s, b) == Cardinality(At(s, b))

One(p) == IF p THEN 1 ELSE 0

Numbers(b) ==
  /\ NS(b) \in Nat
  /\ NW(b) \in Nat
  /\ NA("decref", b) \in Nat
  /\ NA("destroy", b) \in Nat
  /\ NA("decwref", b) \in Nat
  /\ NA("delete", b) \in Nat

\* The inductive invariant for a control block, in these numbers.  The
\* resource lives until its last owner destroys it, the control block until
\* the last decwref of all deletes it; nothing refers to it before it was
\* made or after it was freed.
LiveOK(b) ==
  /\ uses[b] = NS(b) + NA("decref", b)
  /\ weaks[b] = NW(b) + NA("decwref", b)
                + One(uses[b] > 0 \/ NA("destroy", b) > 0)
                + One(esft[b] /\ resource[b] = "live")
  /\ resource[b] \in {"live", "dead"}
  /\ resource[b] = "live" <=> uses[b] > 0 \/ NA("destroy", b) > 0
  /\ uses[b] > 0 => NA("destroy", b) = 0
  /\ NA("destroy", b) <= 1
  /\ weaks[b] = 0 <=> NA("delete", b) > 0
  /\ NA("delete", b) <= 1

NotLiveOK(b) ==
  /\ NS(b) = 0 /\ NW(b) = 0
  /\ NA("decref", b) = 0 /\ NA("destroy", b) = 0
  /\ NA("decwref", b) = 0 /\ NA("delete", b) = 0
  /\ resource[b] # "live"

BlockOK(b) == IF block[b] = "live" THEN LiveOK(b) ELSE NotLiveOK(b)

TargetOK == \A t \in Thread : stage[t] = "none" <=> target[t] = NoBlock

IInv == TypeOK /\ TargetOK /\ \A b \in Block : BlockOK(b)

-----------------------------------------------------------------------------
(* How the numbers change.                                                  *)

\* Two sets that differ in one element at most
LEMMA CountChange ==
  ASSUME NEW F, IsFiniteSet(F), NEW G, NEW h, G \ {h} = F \ {h}
  PROVE  Cardinality(G) = Cardinality(F) + One(h \in G) - One(h \in F)
<1>1. Cardinality(F) \in Nat
  BY FS_CardinalityType
<1>2. CASE h \in G /\ h \notin F
  <2>1. G = F \cup {h}
    BY <1>2
  <2>2. Cardinality(G) = Cardinality(F) + 1
    BY <1>2, <2>1, FS_AddElement
  <2>3. QED
    BY <1>1, <1>2, <2>2 DEF One
<1>3. CASE h \notin G /\ h \in F
  <2>1. G = F \ {h}
    BY <1>3
  <2>2. Cardinality(G) = Cardinality(F) - 1
    BY <1>3, <2>1, FS_RemoveElement
  <2>3. QED
    BY <1>1, <1>3, <2>2 DEF One
<1>4. CASE h \in G <=> h \in F
  <2>1. G = F
    BY <1>4
  <2>2. QED
    BY <1>1, <1>4, <2>1 DEF One
<1>5. QED
  BY <1>2, <1>3, <1>4

\* The numbers are such
LEMMA NumbersOK ==
  ASSUME NEW b
  PROVE  Numbers(b) /\ Numbers(b)'
<1>1. /\ IsFiniteSet(SharedTo(b)) /\ IsFiniteSet(WeakRefs(b))
      /\ \A s : IsFiniteSet(At(s, b))
  BY FiniteAssumption, FS_Subset DEF SharedTo, WeakRefs, At
<1>2. /\ IsFiniteSet(SharedTo(b)') /\ IsFiniteSet(WeakRefs(b)')
      /\ \A s : IsFiniteSet(At(s, b)')
  BY FiniteAssumption, FS_Subset DEF SharedTo, WeakRefs, At
<1>3. QED
  BY <1>1, <1>2, FS_CardinalityType DEF Numbers, NS, NW, NA

\* A shared_ptr gets a new value
LEMMA SharedExcept ==
  ASSUME TypeOK, NEW h \in Shared, NEW STATE v, sp' = [sp EXCEPT ![h] = v], NEW b
  PROVE  NS(b)' = NS(b) + One(v = b) - One(sp[h] = b)
<1>1. IsFiniteSet(SharedTo(b))
  BY FiniteAssumption, FS_Subset DEF SharedTo
<1>2. /\ SharedTo(b)' \ {h} = SharedTo(b) \ {h}
      /\ h \in SharedTo(b)' <=> v = b
      /\ h \in SharedTo(b) <=> sp[h] = b
  BY DEF SharedTo, TypeOK
<1>3. Cardinality(SharedTo(b)') = Cardinality(SharedTo(b))
        + One(h \in SharedTo(b)') - One(h \in SharedTo(b))
  BY <1>1, <1>2, CountChange
<1>4. QED
  BY <1>2, <1>3 DEF NS, One

\* Two shared_ptrs get new values
LEMMA SharedExcept2 ==
  ASSUME NEW h \in Shared, NEW g \in Shared, h # g, NEW b,
         \A x \in Shared \ {h, g} : sp'[x] = sp[x]
  PROVE  NS(b)' = NS(b) + One(sp'[h] = b) - One(sp[h] = b)
                        + One(sp'[g] = b) - One(sp[g] = b)
<1> DEFINE M == {x \in Shared : IF x = h THEN sp'[h] = b ELSE sp[x] = b}
<1>1. IsFiniteSet(SharedTo(b)) /\ IsFiniteSet(M)
  BY FiniteAssumption, FS_Subset DEF SharedTo
<1>2. /\ M \ {h} = SharedTo(b) \ {h}
      /\ h \in M <=> sp'[h] = b
      /\ h \in SharedTo(b) <=> sp[h] = b
  BY DEF SharedTo
<1>3. /\ SharedTo(b)' \ {g} = M \ {g}
      /\ g \in SharedTo(b)' <=> sp'[g] = b
      /\ g \in M <=> sp[g] = b
  BY DEF SharedTo
<1> HIDE DEF M
<1>4. Cardinality(M) = Cardinality(SharedTo(b))
        + One(h \in M) - One(h \in SharedTo(b))
  BY <1>1, <1>2, CountChange
<1>5. Cardinality(SharedTo(b)') = Cardinality(M)
        + One(g \in SharedTo(b)') - One(g \in M)
  BY <1>1, <1>3, CountChange
<1>6. Cardinality(M) \in Nat /\ Cardinality(SharedTo(b)) \in Nat
  BY <1>1, FS_CardinalityType
<1>7. QED
  BY <1>2, <1>3, <1>4, <1>5, <1>6 DEF NS, One

\* A weak_ptr gets a new value
LEMMA WeakExcept ==
  ASSUME TypeOK, NEW w \in Weak, NEW STATE v, wp' = [wp EXCEPT ![w] = v], NEW b
  PROVE  NW(b)' = NW(b) + One(v = b) - One(wp[w] = b)
<1>1. IsFiniteSet(WeakRefs(b))
  BY FiniteAssumption, FS_Subset DEF WeakRefs
<1>2. /\ WeakRefs(b)' \ {w} = WeakRefs(b) \ {w}
      /\ w \in WeakRefs(b)' <=> v = b
      /\ w \in WeakRefs(b) <=> wp[w] = b
  BY DEF WeakRefs, TypeOK
<1>3. Cardinality(WeakRefs(b)') = Cardinality(WeakRefs(b))
        + One(w \in WeakRefs(b)') - One(w \in WeakRefs(b))
  BY <1>1, <1>2, CountChange
<1>4. QED
  BY <1>2, <1>3 DEF NW, One

\* A thread goes on to some stage
LEMMA StageExcept ==
  ASSUME TypeOK, NEW t \in Thread, NEW s, NEW b,
         \A u \in Thread \ {t} : stage'[u] = stage[u] /\ target'[u] = target[u]
  PROVE  NA(s, b)' = NA(s, b) + One(t \in At(s, b)') - One(t \in At(s, b))
<1>1. IsFiniteSet(At(s, b))
  BY FiniteAssumption, FS_Subset DEF At
<1>2. At(s, b)' \ {t} = At(s, b) \ {t}
  BY DEF At
<1>3. QED
  BY <1>1, <1>2, CountChange DEF NA

\* What is not assigned to is not counted anew
LEMMA Unmoved ==
  ASSUME NEW b
  PROVE  /\ UNCHANGED sp => NS(b)' = NS(b)
         /\ UNCHANGED wp => NW(b)' = NW(b)
         /\ UNCHANGED << stage, target >> => \A s : NA(s, b)' = NA(s, b)
BY DEF NS, NW, NA, SharedTo, WeakRefs, At

\* What a variable or a thread refers to is referred to
LEMMA Referred ==
  ASSUME NEW b
  PROVE  /\ \A h \in Shared : sp[h] = b => NS(b) > 0
         /\ \A w \in Weak : wp[w] = b => NW(b) > 0
         /\ \A t \in Thread : \A s : stage[t] = s /\ target[t] = b => NA(s, b) > 0
<1>1. /\ IsFiniteSet(SharedTo(b)) /\ IsFiniteSet(WeakRefs(b))
      /\ \A s : IsFiniteSet(At(s, b))
  BY FiniteAssumption, FS_Subset DEF SharedTo, WeakRefs, At
<1>2. ASSUME NEW S, IsFiniteSet(S), S # {}
      PROVE  Cardinality(S) > 0
  BY <1>2, FS_EmptySet, FS_CardinalityType
<1>3. ASSUME NEW h \in Shared, sp[h] = b
      PROVE  NS(b) > 0
  <2>1. SharedTo(b) # {}
    BY <1>3 DEF SharedTo
  <2>2. QED
    BY <1>1, <1>2, <2>1 DEF NS
<1>4. ASSUME NEW w \in Weak, wp[w] = b
      PROVE  NW(b) > 0
  <2>1. WeakRefs(b) # {}
    BY <1>4 DEF WeakRefs
  <2>2. QED
    BY <1>1, <1>2, <2>1 DEF NW
<1>5. ASSUME NEW t \in Thread, NEW s, stage[t] = s, target[t] = b
      PROVE  NA(s, b) > 0
  <2>1. At(s, b) # {}
    BY <1>5 DEF At
  <2>2. QED
    BY <1>1, <1>2, <2>1 DEF NA
<1>6. QED
  BY <1>3, <1>4, <1>5

\* ... and it is there
LEMMA ReferredLives ==
  ASSUME IInv
  PROVE  /\ \A h \in Shared : sp[h] # NoBlock =>
              /\ sp[h] \in Block /\ block[sp[h]] = "live"
              /\ uses[sp[h]] > 0 /\ weaks[sp[h]] > 0
         /\ \A w \in Weak : wp[w] # NoBlock =>
              wp[w] \in Block /\ block[wp[w]] = "live" /\ weaks[wp[w]] > 0
         /\ \A t \in Thread : stage[t] # "none" =>
              /\ target[t] \in Block /\ block[target[t]] = "live"
              /\ NA(stage[t], target[t]) > 0
<1>1. ASSUME NEW h \in Shared, sp[h] # NoBlock
      PROVE  /\ sp[h] \in Block /\ block[sp[h]] = "live"
             /\ uses[sp[h]] > 0 /\ weaks[sp[h]] > 0
  <2>1. sp[h] \in Block
    BY <1>1 DEF IInv, TypeOK
  <2>2. NS(sp[h]) > 0 /\ Numbers(sp[h])
    BY Referred, NumbersOK
  <2>3. QED
    BY <2>1, <2>2 DEF IInv, BlockOK, LiveOK, NotLiveOK, Numbers, One
<1>2. ASSUME NEW w \in Weak, wp[w] # NoBlock
      PROVE  wp[w] \in Block /\ block[wp[w]] = "live" /\ weaks[wp[w]] > 0
  <2>1. wp[w] \in Block
    BY <1>2 DEF IInv, TypeOK
  <2>2. NW(wp[w]) > 0 /\ Numbers(wp[w])
    BY Referred, NumbersOK
  <2>3. QED
    BY <2>1, <2>2 DEF IInv, BlockOK, LiveOK, NotLiveOK, Numbers, One
<1>3. ASSUME NEW t \in Thread, stage[t] # "none"
      PROVE  /\ target[t] \in Block /\ block[target[t]] = "live"
             /\ NA(stage[t], target[t]) > 0
  <2>1. target[t] \in Block
    BY <1>3 DEF IInv, TypeOK, TargetOK
  <2>2. NA(stage[t], target[t]) > 0
    BY Referred
  <2>3. stage[t] \in Stage
    BY DEF IInv, TypeOK
  <2>4. QED
    BY <1>3, <2>1, <2>2, <2>3 DEF IInv, BlockOK, NotLiveOK, Stage
<1>4. QED
  BY <1>1, <1>2, <1>3

\* A thread that was idle is to give c up, or has nothing to give up
LEMMA GivesUp ==
  ASSUME TypeOK, TargetOK, NEW t \in Thread, Idle(t),
         NEW STATE c, c \in Block \cup {NoBlock},
         NEW s \in {"decref", "decwref"}, GiveUp(t, c, s)
  PROVE  /\ stage' \in [Thread -> Stage]
         /\ target' \in [Thread -> Block \cup {NoBlock}]
         /\ TargetOK'
         /\ \A b \in Block :
              /\ NA(s, b)' = NA(s, b) + One(c = b)
              /\ \A r \in Stage \ {"none", s} : NA(r, b)' = NA(r, b)
<1> DEFINE s1 == IF c = NoBlock THEN "none" ELSE s
<1>1. stage' = [stage EXCEPT ![t] = s1] /\ target' = [target EXCEPT ![t] = c]
  BY DEF GiveUp
<1>2. s1 \in Stage
  BY DEF Stage
<1>3. stage' \in [Thread -> Stage] /\ target' \in [Thread -> Block \cup {NoBlock}]
  BY <1>1, <1>2 DEF TypeOK
<1>4. TargetOK'
  BY <1>1 DEF TargetOK, TypeOK
<1> HIDE DEF s1
<1>5. ASSUME NEW b \in Block, NEW r \in Stage \ {"none"}
      PROVE  NA(r, b)' = NA(r, b) + One(r = s /\ c = b)
  <2>1. t \notin At(r, b)
    BY DEF Idle, At
  <2>2. t \in At(r, b)' <=> (r = s /\ c = b)
    BY <1>1, NoBlockAssumption DEF s1, At, TypeOK
  <2>3. \A u \in Thread \ {t} : stage'[u] = stage[u] /\ target'[u] = target[u]
    BY <1>1 DEF TypeOK
  <2>4. NA(r, b)' = NA(r, b) + One(t \in At(r, b)') - One(t \in At(r, b))
    BY <2>3, StageExcept
  <2>5. NA(r, b) \in Nat
    BY NumbersOK DEF Numbers, Stage
  <2>6. QED
    BY <2>1, <2>2, <2>4, <2>5 DEF One
<1>6. \A b \in Block : NA(s, b)' = NA(s, b) + One(c = b)
  BY <1>5 DEF Stage, One
<1>7. \A b \in Block : \A r \in Stage \ {"none", s} : NA(r, b)' = NA(r, b)
  <2> SUFFICES ASSUME NEW b \in Block, NEW r \in Stage \ {"none", s}
               PROVE  NA(r, b)' = NA(r, b)
    OBVIOUS
  <2>1. NA(r, b)' = NA(r, b) + One(r = s /\ c = b) /\ NA(r, b) \in Nat
    BY <1>5, NumbersOK DEF Numbers, Stage
  <2>2. QED
    BY <2>1 DEF One
<1>8. QED
  BY <1>3, <1>4, <1>6, <1>7

\* A thread goes from one stage of giving its target up to the next, or is
\* through
LEMMA GoesOn ==
  ASSUME TypeOK, TargetOK, NEW t \in Thread, NEW s0, stage[t] = s0, s0 # "none",
         NEW s1 \in Stage, s1 # s0,
         \/ Continue(t, s1) /\ s1 # "none"
         \/ Finish(t) /\ s1 = "none"
  PROVE  /\ stage' \in [Thread -> Stage]
         /\ target' \in [Thread -> Block \cup {NoBlock}]
         /\ TargetOK'
         /\ \A b \in Block :
              /\ NA(s0, b)' = NA(s0, b) - One(target[t] = b)
              /\ s1 # "none" => NA(s1, b)' = NA(s1, b) + One(target[t] = b)
              /\ \A r \in Stage \ {"none", s0, s1} : NA(r, b)' = NA(r, b)
<1> DEFINE c1 == IF s1 = "none" THEN NoBlock ELSE target[t]
<1>1. stage' = [stage EXCEPT ![t] = s1] /\ target' = [target EXCEPT ![t] = c1]
  BY DEF Continue, Finish, TypeOK
<1>2. target[t] \in Block /\ s0 \in Stage
  BY DEF TypeOK, TargetOK
<1>3. stage' \in [Thread -> Stage] /\ target' \in [Thread -> Block \cup {NoBlock}]
  BY <1>1, <1>2 DEF TypeOK
<1>4. TargetOK'
  BY <1>1, <1>2 DEF TargetOK, TypeOK
<1> HIDE DEF c1
<1>5. ASSUME NEW b \in Block, NEW r \in Stage \ {"none"}
      PROVE  /\ NA(r, b)' = NA(r, b) + One(r = s1 /\ target[t] = b)
                                     - One(r = s0 /\ target[t] = b)
             /\ NA(r, b) \in Nat
  <2>1. t \in At(r, b) <=> (r = s0 /\ target[t] = b)
    BY DEF At
  <2>2. t \in At(r, b)' <=> (r = s1 /\ target[t] = b)
    BY <1>1 DEF c1, At, TypeOK
  <2>3. \A u \in Thread \ {t} : stage'[u] = stage[u] /\ target'[u] = target[u]
    BY <1>1 DEF TypeOK
  <2>4. NA(r, b)' = NA(r, b) + One(t \in At(r, b)') - One(t \in At(r, b))
    BY <2>3, StageExcept
  <2>5. NA(r, b) \in Nat
    BY NumbersOK DEF Numbers, Stage
  <2>6. QED
    BY <2>1, <2>2, <2>4, <2>5 DEF One
<1>6. ASSUME NEW b \in Block
      PROVE  NA(s0, b)' = NA(s0, b) - One(target[t] = b)
  BY <1>2, <1>5 DEF One
<1>7. ASSUME NEW b \in Block, s1 # "none"
      PROVE  NA(s1, b)' = NA(s1, b) + One(target[t] = b)
  BY <1>5, <1>7 DEF One
<1>8. ASSUME NEW b \in Block, NEW r \in Stage \ {"none", s0, s1}
      PROVE  NA(r, b)' = NA(r, b)
  BY <1>5 DEF One
<1>9. QED
  BY <1>3, <1>4, <1>6, <1>7, <1>8

-----------------------------------------------------------------------------
(* The steps.                                                              *)

\* What BlockOK(b) says of the next state depends on this
LEMMA SameBlock ==
  ASSUME NEW b, BlockOK(b),
         uses'[b] = uses[b], weaks'[b] = weaks[b], block'[b] = block[b],
         resource'[b] = resource[b], esft'[b] = esft[b],
         NS(b)' = NS(b), NW(b)' = NW(b),
         \A s \in Stage \ {"none"} : NA(s, b)' = NA(s, b)
  PROVE  BlockOK(b)'
<1>1. /\ NA("decref", b)' = NA("decref", b)
      /\ NA("destroy", b)' = NA("destroy", b)
      /\ NA("decwref", b)' = NA("decwref", b)
      /\ NA("delete", b)' = NA("delete", b)
  BY DEF Stage
<1>2. QED
  BY <1>1 DEF BlockOK, LiveOK, NotLiveOK

LEMMA Stuttering ==
  ASSUME IInv, UNCHANGED vars
  PROVE  IInv'
<1>1. TypeOK' /\ TargetOK'
  BY DEF IInv, TypeOK, TargetOK, vars
<1>2. ASSUME NEW b \in Block
      PROVE  BlockOK(b)'
  <2>1. NS(b)' = NS(b) /\ NW(b)' = NW(b) /\ \A s : NA(s, b)' = NA(s, b)
    BY Unmoved DEF vars
  <2>2. QED
    BY <2>1, SameBlock DEF IInv, vars
<1>3. QED
  BY <1>1, <1>2 DEF IInv

\* A shared_ptr is assigned the pointer c, with an owner more for it, and
\* gives up what it had: a copy, lock, and with the null pointer reset
LEMMA AssignShared ==
  ASSUME IInv, NEW t \in Thread, NEW h \in Shared, Idle(t),
         NEW STATE c, c \in Block \cup {NoBlock},
         c # NoBlock => block[c] = "live" /\ uses[c] > 0,
         uses' = Add(uses, c, 1), sp' = [sp EXCEPT ![h] = c],
         GiveUp(t, sp[h], "decref"),
         UNCHANGED << weaks, memory, wp >>
  PROVE  IInv'
<1> USE DEF IInv
<1>1. sp[h] \in Block \cup {NoBlock}
  BY DEF TypeOK
<1>2. /\ stage' \in [Thread -> Stage]
      /\ target' \in [Thread -> Block \cup {NoBlock}]
      /\ TargetOK'
      /\ \A b \in Block :
           /\ NA("decref", b)' = NA("decref", b) + One(sp[h] = b)
           /\ \A r \in Stage \ {"none", "decref"} : NA(r, b)' = NA(r, b)
  BY <1>1, GivesUp
<1>3. uses' \in [Block -> Nat]
  BY DEF TypeOK, Add
<1>4. TypeOK'
  BY <1>2, <1>3 DEF TypeOK, memory
<1>5. ASSUME NEW b \in Block
      PROVE  BlockOK(b)'
  <2>1. NS(b)' = NS(b) + One(c = b) - One(sp[h] = b)
    BY SharedExcept DEF One
  <2>2. NW(b)' = NW(b)
    BY Unmoved
  <2>3. /\ NA("decref", b)' = NA("decref", b) + One(sp[h] = b)
        /\ NA("destroy", b)' = NA("destroy", b)
        /\ NA("decwref", b)' = NA("decwref", b)
        /\ NA("delete", b)' = NA("delete", b)
    BY <1>2 DEF Stage
  <2>4. Numbers(b) /\ BlockOK(b) /\ (sp[h] = b => NS(b) > 0)
    BY NumbersOK, Referred
  <2>5. /\ uses'[b] = uses[b] + One(c = b) /\ uses[b] \in Nat
        /\ c = b => block[b] = "live" /\ uses[b] > 0
    BY DEF TypeOK, Add, One
  <2>6. /\ weaks'[b] = weaks[b] /\ block'[b] = block[b]
        /\ resource'[b] = resource[b] /\ esft'[b] = esft[b]
    BY DEF memory
  <2>7. CASE block[b] = "live"
    <3>1. uses'[b] > 0 <=> uses[b] > 0
      BY <2>5 DEF One
    <3>2. uses'[b] = NS(b)' + NA("decref", b)'
      BY <2>1, <2>3, <2>4, <2>5, <2>7 DEF One, BlockOK, LiveOK, Numbers
    <3>3. LiveOK(b)'
      BY <2>2, <2>3, <2>4, <2>6, <2>7, <3>1, <3>2 DEF BlockOK, LiveOK
    <3>4. QED
      BY <2>6, <2>7, <3>3 DEF BlockOK
  <2>8. CASE block[b] # "live"
    <3>1. c # b /\ sp[h] # b
      BY <2>4, <2>5, <2>8 DEF BlockOK, NotLiveOK
    <3>2. NS(b)' = NS(b) /\ NA("decref", b)' = NA("decref", b)
      BY <2>1, <2>3, <2>4, <3>1 DEF One, Numbers
    <3>3. QED
      BY <2>2, <2>3, <2>4, <2>6, <2>8, <3>2 DEF BlockOK, NotLiveOK
  <2>9. QED
    BY <2>7, <2>8
<1>6. QED
  BY <1>2, <1>4, <1>5

\* A weak_ptr is assigned the pointer c, with a weak reference more for it,
\* and gives up what it had
LEMMA AssignWeak ==
  ASSUME IInv, NEW t \in Thread, NEW w \in Weak, Idle(t),
         NEW STATE c, c \in Block \cup {NoBlock},
         c # NoBlock => block[c] = "live" /\ weaks[c] > 0,
         weaks' = Add(weaks, c, 1), wp' = [wp EXCEPT ![w] = c],
         GiveUp(t, wp[w], "decwref"),
         UNCHANGED << uses, memory, sp >>
  PROVE  IInv'
<1> USE DEF IInv
<1>1. wp[w] \in Block \cup {NoBlock}
  BY DEF TypeOK
<1>2. /\ stage' \in [Thread -> Stage]
      /\ target' \in [Thread -> Block \cup {NoBlock}]
      /\ TargetOK'
      /\ \A b \in Block :
           /\ NA("decwref", b)' = NA("decwref", b) + One(wp[w] = b)
           /\ \A r \in Stage \ {"none", "decwref"} : NA(r, b)' = NA(r, b)
  BY <1>1, GivesUp
<1>3. weaks' \in [Block -> Nat]
  BY DEF TypeOK, Add
<1>4. TypeOK'
  BY <1>2, <1>3 DEF TypeOK, memory
<1>5. ASSUME NEW b \in Block
      PROVE  BlockOK(b)'
  <2>1. NW(b)' = NW(b) + One(c = b) - One(wp[w] = b)
    BY WeakExcept DEF One
  <2>2. NS(b)' = NS(b)
    BY Unmoved
  <2>3. /\ NA("decwref", b)' = NA("decwref", b) + One(wp[w] = b)
        /\ NA("destroy", b)' = NA("destroy", b)
        /\ NA("decref", b)' = NA("decref", b)
        /\ NA("delete", b)' = NA("delete", b)
    BY <1>2 DEF Stage
  <2>4. Numbers(b) /\ BlockOK(b) /\ (wp[w] = b => NW(b) > 0)
    BY NumbersOK, Referred
  <2>5. /\ weaks'[b] = weaks[b] + One(c = b) /\ weaks[b] \in Nat
        /\ c = b => block[b] = "live" /\ weaks[b] > 0
    BY DEF TypeOK, Add, One
  <2>6. /\ uses'[b] = uses[b] /\ block'[b] = block[b]
        /\ resource'[b] = resource[b] /\ esft'[b] = esft[b]
    BY DEF memory
  <2>7. CASE block[b] = "live"
    <3>1. weaks'[b] = 0 <=> weaks[b] = 0
      BY <2>5 DEF One
    <3> DEFINE k == One(uses[b] > 0 \/ NA("destroy", b) > 0)
                      + One(esft[b] /\ resource[b] = "live")
    <3>2. k \in Nat /\ weaks[b] = NW(b) + NA("decwref", b) + k
      BY <2>4, <2>7 DEF One, BlockOK, LiveOK, Numbers
    <3>3. k' = k
      BY <2>3, <2>6
    <3> HIDE DEF k
    <3>4. weaks'[b] = NW(b)' + NA("decwref", b)' + k
      BY <2>1, <2>3, <2>4, <2>5, <3>2 DEF One, Numbers
    <3>5. weaks'[b] = NW(b)' + NA("decwref", b)'
                        + One(uses'[b] > 0 \/ NA("destroy", b)' > 0)
                        + One(esft'[b] /\ resource'[b] = "live")
      BY <2>1, <2>3, <2>4, <3>3, <3>4 DEF k, One, Numbers
    <3>6. LiveOK(b)'
      BY <2>2, <2>3, <2>4, <2>6, <2>7, <3>1, <3>5 DEF BlockOK, LiveOK
    <3>7. QED
      BY <2>6, <2>7, <3>6 DEF BlockOK
  <2>8. CASE block[b] # "live"
    <3>1. c # b /\ wp[w] # b
      BY <2>4, <2>5, <2>8 DEF BlockOK, NotLiveOK
    <3>2. NW(b)' = NW(b) /\ NA("decwref", b)' = NA("decwref", b)
      BY <2>1, <2>3, <2>4, <3>1 DEF One, Numbers
    <3>3. QED
      BY <2>2, <2>3, <2>4, <2>6, <2>8, <3>2 DEF BlockOK, NotLiveOK
  <2>9. QED
    BY <2>7, <2>8
<1>6. QED
  BY <1>2, <1>4, <1>5

\* A move between two shared_ptrs
LEMMA MoveStep ==
  ASSUME IInv, NEW t \in Thread, NEW h \in Shared, NEW g \in Shared, h # g,
         MoveShared(t, h, g)
  PROVE  IInv'
<1> USE DEF IInv
<1>1. sp[h] \in Block \cup {NoBlock}
  BY DEF TypeOK
<1>2. /\ Idle(t) /\ sp' = [sp EXCEPT ![h] = sp[g], ![g] = NoBlock]
      /\ GiveUp(t, sp[h], "decref")
      /\ UNCHANGED << counts, memory, wp >>
  BY DEF MoveShared
<1>3. /\ stage' \in [Thread -> Stage]
      /\ target' \in [Thread -> Block \cup {NoBlock}]
      /\ TargetOK'
      /\ \A b \in Block :
           /\ NA("decref", b)' = NA("decref", b) + One(sp[h] = b)
           /\ \A r \in Stage \ {"none", "decref"} : NA(r, b)' = NA(r, b)
  BY <1>1, <1>2, GivesUp
<1>4. TypeOK'
  BY <1>2, <1>3 DEF TypeOK, counts, memory
<1>5. ASSUME NEW b \in Block
      PROVE  BlockOK(b)'
  <2>1. NS(b)' = NS(b) + One(sp[g] = b) - One(sp[h] = b)
                       + One(NoBlock = b) - One(sp[g] = b)
    <3>1. /\ sp'[h] = sp[g] /\ sp'[g] = NoBlock
          /\ \A x \in Shared \ {h, g} : sp'[x] = sp[x]
      BY <1>2 DEF TypeOK
    <3>2. NS(b)' = NS(b) + One(sp'[h] = b) - One(sp[h] = b)
                         + One(sp'[g] = b) - One(sp[g] = b)
      BY <3>1, SharedExcept2
    <3>3. QED
      BY <3>1, <3>2
  <2>2. NW(b)' = NW(b)
    BY <1>2, Unmoved
  <2>3. /\ NA("decref", b)' = NA("decref", b) + One(sp[h] = b)
        /\ NA("destroy", b)' = NA("destroy", b)
        /\ NA("decwref", b)' = NA("decwref", b)
        /\ NA("delete", b)' = NA("delete", b)
    BY <1>3 DEF Stage
  <2>4. Numbers(b) /\ BlockOK(b) /\ (sp[h] = b => NS(b) > 0)
    BY NumbersOK, Referred
  <2>5. NoBlock # b
    OBVIOUS
  <2>6. /\ uses'[b] = uses[b] /\ weaks'[b] = weaks[b] /\ block'[b] = block[b]
        /\ resource'[b] = resource[b] /\ esft'[b] = esft[b]
    BY <1>2 DEF counts, memory
  <2>7. CASE block[b] = "live"
    <3>1. uses'[b] = NS(b)' + NA("decref", b)'
      BY <2>1, <2>3, <2>4, <2>5, <2>6, <2>7 DEF One, BlockOK, LiveOK, Numbers
    <3>2. LiveOK(b)'
      BY <2>2, <2>3, <2>4, <2>6, <2>7, <3>1 DEF BlockOK, LiveOK
    <3>3. QED
      BY <2>6, <2>7, <3>2 DEF BlockOK
  <2>8. CASE block[b] # "live"
    <3>1. sp[h] # b
      BY <2>4, <2>8 DEF BlockOK, NotLiveOK
    <3>2. NS(b)' = NS(b) /\ NA("decref", b)' = NA("decref", b)
      BY <2>1, <2>3, <2>4, <2>5, <3>1 DEF One, Numbers
    <3>3. QED
      BY <2>2, <2>3, <2>4, <2>6, <2>8, <3>2 DEF BlockOK, NotLiveOK
  <2>9. QED
    BY <2>7, <2>8
<1>6. QED
  BY <1>3, <1>4, <1>5

LEMMA SwapStep ==
  ASSUME IInv, NEW t \in Thread, NEW h \in Shared, NEW g \in Shared,
         SwapShared(t, h, g)
  PROVE  IInv'
<1> USE DEF IInv
<1>1. TypeOK' /\ TargetOK'
  BY DEF SwapShared, TypeOK, TargetOK, counts, memory
<1>2. ASSUME NEW b \in Block
      PROVE  BlockOK(b)'
  <2>1. Numbers(b) /\ BlockOK(b)
    BY NumbersOK
  <2>2. NS(b)' = NS(b)
    <3>1. CASE h = g
      <4>1. sp' = sp
        BY <3>1 DEF SwapShared, TypeOK
      <4>2. QED
        BY <4>1, Unmoved
    <3>2. CASE h # g
      <4>1. /\ sp'[h] = sp[g] /\ sp'[g] = sp[h]
            /\ \A x \in Shared \ {h, g} : sp'[x] = sp[x]
        BY DEF SwapShared, TypeOK
      <4>2. NS(b)' = NS(b) + One(sp'[h] = b) - One(sp[h] = b)
                           + One(sp'[g] = b) - One(sp[g] = b)
        BY <3>2, <4>1, SharedExcept2
      <4>3. QED
        BY <2>1, <4>1, <4>2 DEF One, Numbers
    <3>3. QED
      BY <3>1, <3>2
  <2>3. NW(b)' = NW(b) /\ \A s : NA(s, b)' = NA(s, b)
    BY Unmoved DEF SwapShared
  <2>4. QED
    BY <2>1, <2>2, <2>3, SameBlock DEF SwapShared, counts, memory
<1>3. QED
  BY <1>1, <1>2

LEMMA ConstructStep ==
  ASSUME IInv, NEW t \in Thread, NEW h \in Shared, Construct(t, h)
  PROVE  IInv'
<1> USE DEF IInv
<1>1. PICK c \in Block, e \in BOOLEAN :
        /\ block[c] = "raw" /\ resource[c] = "raw"
        /\ block' = [block EXCEPT ![c] = "live"]
        /\ resource' = [resource EXCEPT ![c] = "live"]
        /\ esft' = [esft EXCEPT ![c] = e]
        /\ uses' = [uses EXCEPT ![c] = 1]
        /\ weaks' = [weaks EXCEPT ![c] = IF e THEN 2 ELSE 1]
        /\ sp' = [sp EXCEPT ![h] = c]
  BY DEF Construct
<1>2. sp[h] \in Block \cup {NoBlock} /\ Idle(t) /\ GiveUp(t, sp[h], "decref")
  BY DEF TypeOK, Construct
<1>3. /\ stage' \in [Thread -> Stage]
      /\ target' \in [Thread -> Block \cup {NoBlock}]
      /\ TargetOK'
      /\ \A b \in Block :
           /\ NA("decref", b)' = NA("decref", b) + One(sp[h] = b)
           /\ \A r \in Stage \ {"none", "decref"} : NA(r, b)' = NA(r, b)
  BY <1>2, GivesUp
<1>4. TypeOK'
  <2>1. uses' \in [Block -> Nat] /\ weaks' \in [Block -> Nat]
    BY <1>1 DEF TypeOK
  <2>2. /\ block' \in [Block -> {"raw", "live", "freed"}]
        /\ resource' \in [Block -> {"raw", "live", "dead"}]
        /\ esft' \in [Block -> BOOLEAN]
    BY <1>1 DEF TypeOK
  <2>3. sp' \in [Shared -> Block \cup {NoBlock}]
    BY <1>1 DEF TypeOK
  <2>4. QED
    BY <1>3, <2>1, <2>2, <2>3 DEF TypeOK, Construct
<1>5. ASSUME NEW b \in Block
      PROVE  BlockOK(b)'
  <2>1. NS(b)' = NS(b) + One(c = b) - One(sp[h] = b)
    BY <1>1, SharedExcept DEF One
  <2>2. NW(b)' = NW(b)
    BY Unmoved DEF Construct
  <2>3. /\ NA("decref", b)' = NA("decref", b) + One(sp[h] = b)
        /\ NA("destroy", b)' = NA("destroy", b)
        /\ NA("decwref", b)' = NA("decwref", b)
        /\ NA("delete", b)' = NA("delete", b)
    BY <1>3 DEF Stage
  <2>4. Numbers(b) /\ BlockOK(b) /\ (sp[h] = b => NS(b) > 0)
    BY NumbersOK, Referred
  <2>5. CASE b = c
    <3>1. /\ NS(b) = 0 /\ NW(b) = 0 /\ NA("decref", b) = 0
          /\ NA("destroy", b) = 0 /\ NA("decwref", b) = 0
          /\ NA("delete", b) = 0 /\ sp[h] # b
      BY <1>1, <2>4, <2>5 DEF BlockOK, NotLiveOK
    <3>2. /\ NS(b)' = 1 /\ NW(b)' = 0 /\ NA("decref", b)' = 0
          /\ NA("destroy", b)' = 0 /\ NA("decwref", b)' = 0
          /\ NA("delete", b)' = 0
      BY <2>1, <2>2, <2>3, <2>5, <3>1 DEF One
    <3>3. /\ uses'[b] = 1 /\ block'[b] = "live" /\ resource'[b] = "live"
          /\ esft'[b] = e /\ weaks'[b] = IF e THEN 2 ELSE 1
      BY <1>1, <2>5 DEF TypeOK
    <3>4. weaks'[b] = 1 + One(esft'[b] /\ resource'[b] = "live")
      BY <3>3 DEF One
    <3>5. weaks'[b] = NW(b)' + NA("decwref", b)'
                        + One(uses'[b] > 0 \/ NA("destroy", b)' > 0)
                        + One(esft'[b] /\ resource'[b] = "live")
      BY <3>2, <3>3, <3>4 DEF One
    <3>6. weaks'[b] > 0
      BY <3>3
    <3>7. LiveOK(b)'
      BY <3>2, <3>3, <3>5, <3>6 DEF LiveOK
    <3>8. QED
      BY <3>3, <3>7 DEF BlockOK
  <2>6. CASE b # c
    <3>1. /\ uses'[b] = uses[b] /\ weaks'[b] = weaks[b]
          /\ block'[b] = block[b] /\ resource'[b] = resource[b]
          /\ esft'[b] = esft[b]
      BY <1>1, <2>6 DEF TypeOK
    <3>2. CASE block[b] = "live"
      <4>1. uses'[b] = NS(b)' + NA("decref", b)'
        BY <2>1, <2>3, <2>4, <2>6, <3>1, <3>2
           DEF One, BlockOK, LiveOK, Numbers
      <4>2. LiveOK(b)'
        BY <2>2, <2>3, <2>4, <3>1, <3>2, <4>1 DEF BlockOK, LiveOK
      <4>3. QED
        BY <3>1, <3>2, <4>2 DEF BlockOK
    <3>3. CASE block[b] # "live"
      <4>1. sp[h] # b
        BY <2>4, <3>3 DEF BlockOK, NotLiveOK
      <4>2. NS(b)' = NS(b) /\ NA("decref", b)' = NA("decref", b)
        BY <2>1, <2>3, <2>4, <2>6, <4>1 DEF One, Numbers
      <4>3. QED
        BY <2>2, <2>3, <2>4, <3>1, <3>3, <4>2 DEF BlockOK, NotLiveOK
    <3>4. QED
      BY <3>2, <3>3
  <2>7. QED
    BY <2>5, <2>6
<1>6. QED
  BY <1>3, <1>4, <1>5

LEMMA ConstructFailsStep ==
  ASSUME IInv, NEW t \in Thread, ConstructFails(t)
  PROVE  IInv'
<1> USE DEF IInv
<1>1. PICK c \in Block : /\ block[c] = "raw" /\ resource[c] = "raw"
                         /\ resource' = [resource EXCEPT ![c] = "dead"]
  BY DEF ConstructFails
<1>2. TypeOK' /\ TargetOK'
  BY <1>1 DEF ConstructFails, TypeOK, TargetOK, counts
<1>3. ASSUME NEW b \in Block
      PROVE  BlockOK(b)'
  <2>1. BlockOK(b)
    OBVIOUS
  <2>2. NS(b)' = NS(b) /\ NW(b)' = NW(b) /\ \A s : NA(s, b)' = NA(s, b)
    BY Unmoved DEF ConstructFails
  <2>3. CASE b = c
    BY <1>1, <2>1, <2>2, <2>3 DEF BlockOK, NotLiveOK, ConstructFails, TypeOK
  <2>4. CASE b # c
    <3>1. resource'[b] = resource[b]
      BY <1>1, <2>4 DEF TypeOK
    <3>2. QED
      BY <2>1, <2>2, <3>1, SameBlock DEF ConstructFails, counts
  <2>5. QED
    BY <2>3, <2>4
<1>4. QED
  BY <1>2, <1>3

LEMMA DecrefStep ==
  ASSUME IInv, NEW t \in Thread, Decref(t)
  PROVE  IInv'
<1> USE DEF IInv
<1> DEFINE c == target[t]
<1>1. c \in Block /\ block[c] = "live" /\ NA("decref", c) > 0
  BY ReferredLives DEF Decref
<1>2. BlockOK(c) /\ Numbers(c) /\ uses[c] \in Nat
  BY <1>1, NumbersOK DEF TypeOK
<1>3. uses[c] > 0
  BY <1>1, <1>2 DEF BlockOK, LiveOK, Numbers
<1>4. uses' = [uses EXCEPT ![c] = @ - 1]
  BY <1>1 DEF Decref, Add
<1>5. uses' \in [Block -> Nat]
  BY <1>1, <1>2, <1>3, <1>4 DEF TypeOK
<1>6. /\ uses'[c] = uses[c] - 1
      /\ \A b \in Block \ {c} : uses'[b] = uses[b]
  BY <1>1, <1>4 DEF TypeOK
<1>7. uses[c] - 1 = 0 <=> uses[c] = 1
  BY <1>2
<1>8. stage[t] = "decref"
  BY DEF Decref
<1>9. /\ stage' \in [Thread -> Stage]
      /\ target' \in [Thread -> Block \cup {NoBlock}]
      /\ TargetOK'
      /\ \A b \in Block :
           /\ NA("decref", b)' = NA("decref", b) - One(c = b)
           /\ NA("destroy", b)' = IF uses[c] = 1
                                  THEN NA("destroy", b) + One(c = b)
                                  ELSE NA("destroy", b)
           /\ NA("decwref", b)' = NA("decwref", b)
           /\ NA("delete", b)' = NA("delete", b)
  <2>1. CASE uses[c] = 1
    <3>1. "destroy" \in Stage /\ Continue(t, "destroy")
      BY <1>6, <1>7, <2>1 DEF Decref, Stage
    <3>2. QED
      BY <1>8, <2>1, <3>1, GoesOn DEF One, Stage
  <2>2. CASE uses[c] # 1
    <3>1. "none" \in Stage /\ Finish(t)
      BY <1>6, <1>7, <2>2 DEF Decref, Stage
    <3>2. QED
      BY <1>8, <2>2, <3>1, GoesOn DEF One, Stage
  <2>3. QED
    BY <2>1, <2>2
<1>10. TypeOK'
  BY <1>5, <1>9 DEF TypeOK, Decref, memory
<1>11. ASSUME NEW b \in Block
       PROVE  BlockOK(b)'
  <2>1. NS(b)' = NS(b) /\ NW(b)' = NW(b)
    BY Unmoved DEF Decref
  <2>2. Numbers(b) /\ BlockOK(b)
    BY NumbersOK
  <2>3. /\ weaks'[b] = weaks[b] /\ block'[b] = block[b]
        /\ resource'[b] = resource[b] /\ esft'[b] = esft[b]
    BY DEF Decref, memory
  <2>4. CASE b # c
    <3>1. uses'[b] = uses[b]
      BY <1>6, <2>4
    <3>2. \A s \in Stage \ {"none"} : NA(s, b)' = NA(s, b)
      <4>1. One(c = b) = 0
        BY <2>4 DEF One
      <4>2. QED
        BY <1>9, <2>2, <4>1 DEF Numbers, Stage
    <3>3. QED
      BY <2>1, <2>2, <2>3, <3>1, <3>2, SameBlock
  <2>5. CASE b = c
    <3>1. One(c = b) = 1
      BY <2>5 DEF One
    <3>2. /\ NA("decref", b)' = NA("decref", b) - 1
          /\ NA("decwref", b)' = NA("decwref", b)
          /\ NA("delete", b)' = NA("delete", b)
          /\ NA("destroy", b)' = IF uses[b] = 1 THEN NA("destroy", b) + 1
                                 ELSE NA("destroy", b)
      BY <1>9, <2>5, <3>1
    <3>3. uses'[b] = uses[b] - 1 /\ uses[b] > 0 /\ uses[b] \in Nat
      BY <1>2, <1>3, <1>6, <2>5
    <3>4. LiveOK(b) /\ block[b] = "live"
      BY <1>1, <2>2, <2>5 DEF BlockOK
    <3>5. NA("destroy", b) = 0
      BY <3>3, <3>4 DEF LiveOK
    <3>6. (uses'[b] > 0 \/ NA("destroy", b)' > 0) /\ uses[b] > 0
      BY <3>2, <3>3, <3>5
    <3>7. uses'[b] = NS(b)' + NA("decref", b)'
      BY <2>1, <2>2, <3>2, <3>3, <3>4 DEF LiveOK, Numbers
    <3>8. weaks'[b] = NW(b)' + NA("decwref", b)'
                        + One(uses'[b] > 0 \/ NA("destroy", b)' > 0)
                        + One(esft'[b] /\ resource'[b] = "live")
      BY <2>1, <2>3, <3>2, <3>4, <3>6 DEF LiveOK, One
    <3>9. /\ uses'[b] > 0 => NA("destroy", b)' = 0
          /\ NA("destroy", b)' <= 1
      BY <3>2, <3>3, <3>5
    <3>10. resource[b] = "live"
      BY <3>3, <3>4 DEF LiveOK
    <3>11. LiveOK(b)'
      BY <2>3, <3>2, <3>4, <3>6, <3>7, <3>8, <3>9, <3>10 DEF LiveOK
    <3>12. QED
      BY <2>3, <3>4, <3>11 DEF BlockOK
  <2>6. QED
    BY <2>4, <2>5
<1>12. QED
  BY <1>9, <1>10, <1>11

\* The control block outlives its resource: the weak reference of the owners
\* is given up after the resource was destroyed
LEMMA DestroyStep ==
  ASSUME IInv, NEW t \in Thread, DestroyResource(t)
  PROVE  IInv' /\ block' = block
<1> USE DEF IInv
<1> DEFINE c == target[t]
<1>1. c \in Block /\ block[c] = "live" /\ NA("destroy", c) > 0
  BY ReferredLives DEF DestroyResource
<1>2. BlockOK(c) /\ Numbers(c) /\ weaks[c] \in Nat
  BY <1>1, NumbersOK DEF TypeOK
<1>3. /\ uses[c] = 0 /\ NA("destroy", c) = 1 /\ resource[c] = "live"
      /\ weaks[c] = NW(c) + NA("decwref", c) + 1 + One(esft[c])
      /\ NS(c) = 0 /\ NA("decref", c) = 0 /\ NA("delete", c) = 0
  <2>1. LiveOK(c)
    BY <1>1, <1>2 DEF BlockOK
  <2>2. uses[c] \in Nat
    BY <1>1 DEF TypeOK
  <2>3. uses[c] = 0 /\ NA("destroy", c) = 1 /\ resource[c] = "live"
    BY <1>1, <1>2, <2>1, <2>2 DEF LiveOK, Numbers
  <2>4. weaks[c] = NW(c) + NA("decwref", c) + 1 + One(esft[c])
    BY <1>1, <2>1, <2>3 DEF LiveOK, One
  <2>5. weaks[c] > 0
    BY <1>2, <2>4 DEF One, Numbers
  <2>6. NS(c) = 0 /\ NA("decref", c) = 0 /\ NA("delete", c) = 0
    BY <1>2, <2>1, <2>3, <2>5 DEF LiveOK, Numbers
  <2>7. QED
    BY <2>3, <2>4, <2>6
<1>4. /\ weaks' \in [Block -> Nat]
      /\ weaks'[c] = NW(c) + NA("decwref", c) + 1
      /\ \A b \in Block \ {c} : weaks'[b] = weaks[b]
  <2>1. CASE esft[c]
    <3>1. weaks' = [weaks EXCEPT ![c] = weaks[c] - 1]
      BY <1>1, <2>1 DEF DestroyResource, Add
    <3>2. weaks[c] - 1 = NW(c) + NA("decwref", c) + 1
      BY <1>2, <1>3, <2>1 DEF One, Numbers
    <3>3. weaks[c] - 1 \in Nat
      BY <1>2, <3>2 DEF Numbers
    <3>4. QED
      BY <1>1, <3>1, <3>2, <3>3 DEF TypeOK
  <2>2. CASE ~esft[c]
    <3>1. weaks' = weaks
      BY <2>2 DEF DestroyResource
    <3>2. QED
      BY <1>2, <1>3, <2>2, <3>1 DEF TypeOK, One, Numbers
  <2>3. QED
    BY <2>1, <2>2
<1>5. weaks'[c] > 0
  BY <1>2, <1>4 DEF Numbers
<1>6. block' = block
  BY <1>5 DEF DestroyResource
<1>7. /\ "decwref" \in Stage /\ "decwref" # "destroy" /\ "decwref" # "none"
      /\ stage[t] = "destroy" /\ Continue(t, "decwref")
  BY DEF DestroyResource, Stage
<1>8. /\ stage' \in [Thread -> Stage]
      /\ target' \in [Thread -> Block \cup {NoBlock}]
      /\ TargetOK'
      /\ \A b \in Block :
           /\ NA("destroy", b)' = NA("destroy", b) - One(c = b)
           /\ NA("decwref", b)' = NA("decwref", b) + One(c = b)
           /\ \A r \in Stage \ {"none", "destroy", "decwref"} :
                NA(r, b)' = NA(r, b)
  BY <1>7, GoesOn DEF One
<1>9. /\ resource' \in [Block -> {"raw", "live", "dead"}]
      /\ resource'[c] = "dead"
      /\ \A b \in Block \ {c} : resource'[b] = resource[b]
  BY <1>1 DEF DestroyResource, TypeOK
<1>10. TypeOK'
  BY <1>4, <1>6, <1>8, <1>9 DEF TypeOK, DestroyResource
<1>11. ASSUME NEW b \in Block
       PROVE  BlockOK(b)'
  <2>1. NS(b)' = NS(b) /\ NW(b)' = NW(b)
    BY Unmoved DEF DestroyResource
  <2>2. Numbers(b) /\ BlockOK(b)
    BY NumbersOK
  <2>3. uses'[b] = uses[b] /\ block'[b] = block[b] /\ esft'[b] = esft[b]
    BY <1>6 DEF DestroyResource
  <2>4. CASE b # c
    <3>1. weaks'[b] = weaks[b] /\ resource'[b] = resource[b]
      BY <1>4, <1>9, <2>4
    <3>2. \A s \in Stage \ {"none"} : NA(s, b)' = NA(s, b)
      <4>1. One(c = b) = 0
        BY <2>4 DEF One
      <4>2. QED
        BY <1>8, <2>2, <4>1 DEF Numbers
    <3>3. QED
      BY <2>1, <2>2, <2>3, <3>1, <3>2, SameBlock
  <2>5. CASE b = c
    <3>1. One(c = b) = 1
      BY <2>5 DEF One
    <3>2. /\ NA("destroy", b)' = 0 /\ NA("decref", b)' = 0
          /\ NA("delete", b)' = 0
          /\ NA("decwref", b)' = NA("decwref", b) + 1
      BY <1>3, <1>8, <2>5, <3>1 DEF Stage
    <3>3. NS(b)' = 0 /\ NW(b)' = NW(b)
      BY <1>3, <2>1, <2>5
    <3>4. /\ uses'[b] = 0 /\ resource'[b] = "dead" /\ weaks'[b] > 0
          /\ weaks'[b] = NW(b)' + NA("decwref", b)'
      BY <1>3, <1>4, <1>5, <1>9, <2>2, <2>3, <2>5, <3>2, <3>3 DEF Numbers
    <3>5. weaks'[b] = NW(b)' + NA("decwref", b)'
                        + One(uses'[b] > 0 \/ NA("destroy", b)' > 0)
                        + One(esft'[b] /\ resource'[b] = "live")
      BY <2>2, <3>2, <3>3, <3>4 DEF One, Numbers
    <3>6. LiveOK(b)'
      BY <3>2, <3>3, <3>4, <3>5 DEF LiveOK
    <3>7. QED
      BY <1>1, <2>3, <2>5, <3>6 DEF BlockOK
  <2>6. QED
    BY <2>4, <2>5
<1>12. QED
  BY <1>6, <1>8, <1>10, <1>11

LEMMA DecwrefStep ==
  ASSUME IInv, NEW t \in Thread, Decwref(t)
  PROVE  IInv'
<1> USE DEF IInv
<1> DEFINE c == target[t]
<1>1. c \in Block /\ block[c] = "live" /\ NA("decwref", c) > 0
  BY ReferredLives DEF Decwref
<1>2. LiveOK(c) /\ Numbers(c) /\ weaks[c] \in Nat
  BY <1>1, NumbersOK DEF TypeOK, BlockOK
<1>3. weaks[c] > 0
  BY <1>1, <1>2 DEF LiveOK, Numbers, One
<1>4. NA("delete", c) = 0
  BY <1>2, <1>3 DEF LiveOK, Numbers
<1>5. weaks' = [weaks EXCEPT ![c] = @ - 1]
  BY <1>1 DEF Decwref, Add
<1>6. /\ weaks' \in [Block -> Nat]
      /\ weaks'[c] = weaks[c] - 1
      /\ \A b \in Block \ {c} : weaks'[b] = weaks[b]
  BY <1>1, <1>2, <1>3, <1>5 DEF TypeOK
<1>7. weaks[c] - 1 = 0 <=> weaks[c] = 1
  BY <1>2
<1>8. stage[t] = "decwref"
  BY DEF Decwref
<1>9. /\ stage' \in [Thread -> Stage]
      /\ target' \in [Thread -> Block \cup {NoBlock}]
      /\ TargetOK'
      /\ \A b \in Block :
           /\ NA("decwref", b)' = NA("decwref", b) - One(c = b)
           /\ NA("delete", b)' = IF weaks[c] = 1
                                 THEN NA("delete", b) + One(c = b)
                                 ELSE NA("delete", b)
           /\ NA("decref", b)' = NA("decref", b)
           /\ NA("destroy", b)' = NA("destroy", b)
  <2>1. CASE weaks[c] = 1
    <3>1. "delete" \in Stage /\ Continue(t, "delete")
      BY <1>6, <1>7, <2>1 DEF Decwref, Stage
    <3>2. QED
      BY <1>8, <2>1, <3>1, GoesOn DEF One, Stage
  <2>2. CASE weaks[c] # 1
    <3>1. "none" \in Stage /\ Finish(t)
      BY <1>6, <1>7, <2>2 DEF Decwref, Stage
    <3>2. QED
      BY <1>8, <2>2, <3>1, GoesOn DEF One, Stage
  <2>3. QED
    BY <2>1, <2>2
<1>10. TypeOK'
  BY <1>6, <1>9 DEF TypeOK, Decwref, memory
<1>11. ASSUME NEW b \in Block
       PROVE  BlockOK(b)'
  <2>1. NS(b)' = NS(b) /\ NW(b)' = NW(b)
    BY Unmoved DEF Decwref
  <2>2. Numbers(b) /\ BlockOK(b)
    BY NumbersOK
  <2>3. /\ uses'[b] = uses[b] /\ block'[b] = block[b]
        /\ resource'[b] = resource[b] /\ esft'[b] = esft[b]
    BY DEF Decwref, memory
  <2>4. CASE b # c
    <3>1. weaks'[b] = weaks[b]
      BY <1>6, <2>4
    <3>2. \A s \in Stage \ {"none"} : NA(s, b)' = NA(s, b)
      <4>1. One(c = b) = 0
        BY <2>4 DEF One
      <4>2. QED
        BY <1>9, <2>2, <4>1 DEF Numbers, Stage
    <3>3. QED
      BY <2>1, <2>2, <2>3, <3>1, <3>2, SameBlock
  <2>5. CASE b = c
    <3>1. One(c = b) = 1
      BY <2>5 DEF One
    <3>2. /\ NA("decwref", b)' = NA("decwref", b) - 1
          /\ NA("decref", b)' = NA("decref", b)
          /\ NA("destroy", b)' = NA("destroy", b)
          /\ NA("delete", b)' = IF weaks[b] = 1 THEN 1 ELSE 0
      BY <1>4, <1>9, <2>5, <3>1
    <3>3. weaks'[b] = weaks[b] - 1 /\ weaks[b] > 0 /\ weaks[b] \in Nat
      BY <1>2, <1>3, <1>6, <2>5
    <3>4. LiveOK(b)
      BY <1>2, <2>5
    <3>5. /\ weaks'[b] = 0 <=> NA("delete", b)' > 0
          /\ NA("delete", b)' <= 1
      BY <3>2, <3>3
    <3> DEFINE k == One(uses[b] > 0 \/ NA("destroy", b) > 0)
                      + One(esft[b] /\ resource[b] = "live")
    <3>6. k \in Nat /\ weaks[b] = NW(b) + NA("decwref", b) + k
      BY <2>2, <3>4 DEF One, LiveOK, Numbers
    <3>7. k' = k
      BY <2>3, <3>2
    <3> HIDE DEF k
    <3>8. weaks'[b] = NW(b)' + NA("decwref", b)' + k
      BY <2>1, <2>2, <3>2, <3>3, <3>6 DEF Numbers
    <3>9. weaks'[b] = NW(b)' + NA("decwref", b)'
                        + One(uses'[b] > 0 \/ NA("destroy", b)' > 0)
                        + One(esft'[b] /\ resource'[b] = "live")
      BY <2>1, <2>2, <3>2, <3>7, <3>8 DEF k, One, Numbers
    <3>10. LiveOK(b)'
      BY <2>1, <2>3, <3>2, <3>4, <3>5, <3>9 DEF LiveOK
    <3>11. QED
      BY <1>1, <2>3, <2>5, <3>10 DEF BlockOK
  <2>6. QED
    BY <2>4, <2>5
<1>12. QED
  BY <1>9, <1>10, <1>11

LEMMA DeleteStep ==
  ASSUME IInv, NEW t \in Thread, DeleteBlock(t)
  PROVE  IInv'
<1> USE DEF IInv
<1> DEFINE c == target[t]
<1>1. c \in Block /\ block[c] = "live" /\ NA("delete", c) > 0
  BY ReferredLives DEF DeleteBlock
<1>2. LiveOK(c) /\ Numbers(c) /\ uses[c] \in Nat
  BY <1>1, NumbersOK DEF TypeOK, BlockOK
<1>3. weaks[c] = 0 /\ NA("delete", c) = 1
  BY <1>1, <1>2 DEF LiveOK, Numbers
<1>4. /\ NW(c) = 0 /\ NA("decwref", c) = 0 /\ resource[c] # "live"
      /\ uses[c] = 0 /\ NA("destroy", c) = 0
  BY <1>2, <1>3 DEF LiveOK, Numbers, One
<1>5. NS(c) = 0 /\ NA("decref", c) = 0
  BY <1>2, <1>4 DEF LiveOK, Numbers
<1>6. /\ "none" \in Stage /\ stage[t] = "delete" /\ Finish(t)
  BY DEF DeleteBlock, Stage
<1>7. /\ stage' \in [Thread -> Stage]
      /\ target' \in [Thread -> Block \cup {NoBlock}]
      /\ TargetOK'
      /\ \A b \in Block :
           /\ NA("delete", b)' = NA("delete", b) - One(c = b)
           /\ \A r \in Stage \ {"none", "delete"} : NA(r, b)' = NA(r, b)
  BY <1>6, GoesOn DEF One
<1>8. /\ block' \in [Block -> {"raw", "live", "freed"}]
      /\ block'[c] = "freed"
      /\ \A b \in Block \ {c} : block'[b] = block[b]
  BY <1>1 DEF DeleteBlock, TypeOK
<1>9. TypeOK'
  BY <1>7, <1>8 DEF TypeOK, DeleteBlock, counts
<1>10. ASSUME NEW b \in Block
       PROVE  BlockOK(b)'
  <2>1. NS(b)' = NS(b) /\ NW(b)' = NW(b)
    BY Unmoved DEF DeleteBlock
  <2>2. Numbers(b) /\ BlockOK(b)
    BY NumbersOK
  <2>3. /\ uses'[b] = uses[b] /\ weaks'[b] = weaks[b]
        /\ resource'[b] = resource[b] /\ esft'[b] = esft[b]
    BY DEF DeleteBlock, counts
  <2>4. CASE b # c
    <3>1. \A s \in Stage \ {"none"} : NA(s, b)' = NA(s, b)
      <4>1. One(c = b) = 0
        BY <2>4 DEF One
      <4>2. QED
        BY <1>7, <2>2, <4>1 DEF Numbers, Stage
    <3>2. block'[b] = block[b]
      BY <1>8, <2>4
    <3>3. QED
      BY <2>1, <2>2, <2>3, <3>1, <3>2, SameBlock
  <2>5. CASE b = c
    <3>1. NA("delete", b)' = 0
      BY <1>3, <1>7, <2>5 DEF One
    <3>2. /\ NA("decref", b)' = 0 /\ NA("destroy", b)' = 0
          /\ NA("decwref", b)' = 0
      BY <1>4, <1>5, <1>7, <2>5 DEF Stage
    <3>3. NotLiveOK(b)'
      BY <1>4, <1>5, <2>1, <2>3, <2>5, <3>1, <3>2 DEF NotLiveOK
    <3>4. QED
      BY <1>8, <2>5, <3>3 DEF BlockOK
  <2>6. QED
    BY <2>4, <2>5
<1>11. QED
  BY <1>7, <1>9, <1>10

\* The operations on the variables
LEMMA OperateStep ==
  ASSUME IInv, ~LockExpired, NEW t \in Thread, Operate(t)
  PROVE  IInv'
<1>1. ASSUME NEW h \in Shared, Construct(t, h)
      PROVE  IInv'
  BY <1>1, ConstructStep
<1>2. ASSUME ConstructFails(t)
      PROVE  IInv'
  BY <1>2, ConstructFailsStep
<1>3. ASSUME NEW h \in Shared, ResetShared(t, h)
      PROVE  IInv'
  <2>1. /\ Idle(t) /\ GiveUp(t, sp[h], "decref")
        /\ uses' = Add(uses, NoBlock, 1)
        /\ sp' = [sp EXCEPT ![h] = NoBlock]
        /\ UNCHANGED << weaks, memory, wp >>
    BY <1>3 DEF ResetShared, Add, counts
  <2>2. QED
    BY <2>1, AssignShared
<1>4. ASSUME NEW h \in Shared, NEW g \in Shared, CopyShared(t, h, g)
      PROVE  IInv'
  <2>1. /\ Idle(t) /\ GiveUp(t, sp[h], "decref")
        /\ uses' = Add(uses, sp[g], 1)
        /\ sp' = [sp EXCEPT ![h] = sp[g]]
        /\ UNCHANGED << weaks, memory, wp >>
    BY <1>4 DEF CopyShared
  <2>2. /\ sp[g] \in Block \cup {NoBlock}
        /\ sp[g] # NoBlock => block[sp[g]] = "live" /\ uses[sp[g]] > 0
    BY ReferredLives DEF IInv, TypeOK
  <2>3. QED
    BY <2>1, <2>2, AssignShared
<1>5. ASSUME NEW h \in Shared, NEW g \in Shared, MoveShared(t, h, g)
      PROVE  IInv'
  <2>1. CASE h = g
    <3>1. UNCHANGED vars
      BY <1>5, <2>1 DEF MoveShared, vars, counts, memory
    <3>2. QED
      BY <3>1, Stuttering
  <2>2. CASE h # g
    BY <1>5, <2>2, MoveStep
  <2>3. QED
    BY <2>1, <2>2
<1>6. ASSUME NEW h \in Shared, NEW g \in Shared, SwapShared(t, h, g)
      PROVE  IInv'
  BY <1>6, SwapStep
<1>7. ASSUME NEW h \in Shared, NEW w \in Weak, LockWeak(t, h, w)
      PROVE  IInv'
  <2>1. /\ Idle(t) /\ GiveUp(t, sp[h], "decref")
        /\ uses' = Add(uses, wp[w], 1)
        /\ sp' = [sp EXCEPT ![h] = wp[w]]
        /\ UNCHANGED << weaks, memory, wp >>
    BY <1>7 DEF LockWeak
  <2>2. /\ wp[w] \in Block \cup {NoBlock}
        /\ wp[w] # NoBlock => block[wp[w]] = "live" /\ uses[wp[w]] > 0
    BY <1>7, ReferredLives DEF IInv, TypeOK, LockWeak
  <2>3. QED
    BY <2>1, <2>2, AssignShared
<1>8. ASSUME NEW h \in Shared, NEW w \in Weak, WeakFromShared(t, w, h)
      PROVE  IInv'
  <2>1. /\ Idle(t) /\ GiveUp(t, wp[w], "decwref")
        /\ weaks' = Add(weaks, sp[h], 1)
        /\ wp' = [wp EXCEPT ![w] = sp[h]]
        /\ UNCHANGED << uses, memory, sp >>
    BY <1>8 DEF WeakFromShared, WeakTo
  <2>2. /\ sp[h] \in Block \cup {NoBlock}
        /\ sp[h] # NoBlock => block[sp[h]] = "live" /\ weaks[sp[h]] > 0
    BY ReferredLives DEF IInv, TypeOK
  <2>3. QED
    BY <2>1, <2>2, AssignWeak
<1>9. ASSUME NEW w \in Weak, NEW v \in Weak, WeakFromWeak(t, w, v)
      PROVE  IInv'
  <2>1. /\ Idle(t) /\ GiveUp(t, wp[w], "decwref")
        /\ weaks' = Add(weaks, wp[v], 1)
        /\ wp' = [wp EXCEPT ![w] = wp[v]]
        /\ UNCHANGED << uses, memory, sp >>
    BY <1>9 DEF WeakFromWeak, WeakTo
  <2>2. /\ wp[v] \in Block \cup {NoBlock}
        /\ wp[v] # NoBlock => block[wp[v]] = "live" /\ weaks[wp[v]] > 0
    BY ReferredLives DEF IInv, TypeOK
  <2>3. QED
    BY <2>1, <2>2, AssignWeak
<1>10. ASSUME NEW w \in Weak, ResetWeak(t, w)
       PROVE  IInv'
  <2>1. /\ Idle(t) /\ GiveUp(t, wp[w], "decwref")
        /\ weaks' = Add(weaks, NoBlock, 1)
        /\ wp' = [wp EXCEPT ![w] = NoBlock]
        /\ UNCHANGED << uses, memory, sp >>
    BY <1>10 DEF ResetWeak, Add, counts
  <2>2. QED
    BY <2>1, AssignWeak
<1>11. QED
  BY <1>1, <1>2, <1>3, <1>4, <1>5, <1>6, <1>7, <1>8, <1>9, <1>10 DEF Operate

\* Every step of a program whose weak_ptrs have not expired when it locks them
LEMMA IInvStep ==
  ASSUME IInv, ~LockExpired, [Next]_vars
  PROVE  IInv'
<1>1. ASSUME NEW t \in Thread, Operate(t)
      PROVE  IInv'
  BY <1>1, OperateStep
<1>2. ASSUME NEW t \in Thread, Release(t)
      PROVE  IInv'
  BY <1>2, DecrefStep, DestroyStep, DecwrefStep, DeleteStep DEF Release
<1>3. CASE UNCHANGED vars
  BY <1>3, Stuttering
<1>4. QED
  BY <1>1, <1>2, <1>3 DEF Next

LEMMA IInvInit ==
  ASSUME Init
  PROVE  IInv
<1>1. TypeOK /\ TargetOK
  BY DEF Init, TypeOK, TargetOK, Stage
<1>2. ASSUME NEW b \in Block
      PROVE  BlockOK(b)
  <2>1. /\ SharedTo(b) = {} /\ WeakRefs(b) = {}
        /\ \A s \in Stage \ {"none"} : At(s, b) = {}
    BY DEF Init, SharedTo, WeakRefs, At
  <2>2. /\ NS(b) = 0 /\ NW(b) = 0
        /\ NA("decref", b) = 0 /\ NA("destroy", b) = 0
        /\ NA("decwref", b) = 0 /\ NA("delete", b) = 0
    BY <2>1, FS_EmptySet DEF NS, NW, NA, Stage
  <2>3. QED
    BY <2>2 DEF BlockOK, NotLiveOK, Init
<1>3. QED
  BY <1>1, <1>2 DEF IInv

-----------------------------------------------------------------------------
(* What the invariant says of the pointers.                                *)

LEMMA IInvCounts ==
  ASSUME IInv
  PROVE  CountsExact
<1> SUFFICES ASSUME NEW b \in Block, block[b] = "live"
             PROVE  /\ uses[b] = Cardinality(SharedTo(b))
                                   + Cardinality(At("decref", b))
                    /\ weaks[b] = Cardinality(WeakRefs(b))
                          + Cardinality(At("decwref", b))
                          + (IF uses[b] > 0 \/ At("destroy", b) # {}
                             THEN 1 ELSE 0)
                          + (IF esft[b] /\ resource[b] = "live"
                             THEN 1 ELSE 0)
  BY DEF CountsExact
<1>1. LiveOK(b)
  BY DEF IInv, BlockOK
<1>2. At("destroy", b) # {} <=> NA("destroy", b) > 0
  <2>1. IsFiniteSet(At("destroy", b))
    BY FiniteAssumption, FS_Subset DEF At
  <2>2. QED
    BY <2>1, FS_EmptySet, FS_CardinalityType DEF NA
<1>3. QED
  BY <1>1, <1>2 DEF LiveOK, NS, NW, NA, One

LEMMA IInvOwned ==
  ASSUME IInv
  PROVE  OwnedIsAlive
<1>1. ASSUME NEW h \in Shared, sp[h] # NoBlock
      PROVE  resource[sp[h]] = "live" /\ block[sp[h]] = "live"
  <2>1. /\ sp[h] \in Block /\ block[sp[h]] = "live" /\ uses[sp[h]] > 0
    BY <1>1, ReferredLives
  <2>2. QED
    BY <2>1 DEF IInv, BlockOK, LiveOK
<1>2. QED
  BY <1>1, ReferredLives DEF OwnedIsAlive

\* Of a stage that one thread at most is at
LEMMA Alone ==
  ASSUME NEW s, NEW b, NA(s, b) <= 1,
         NEW t \in At(s, b), NEW u \in At(s, b)
  PROVE  t = u
<1>1. IsFiniteSet(At(s, b)) /\ Cardinality(At(s, b)) \in Nat
  BY FiniteAssumption, FS_Subset, FS_CardinalityType DEF At
<1>2. Cardinality(At(s, b)) # 0
  BY <1>1, FS_EmptySet
<1>3. Cardinality(At(s, b)) = 1
  BY <1>1, <1>2 DEF NA
<1>4. QED
  BY <1>1, <1>3, FS_Singleton

LEMMA IInvReleased ==
  ASSUME IInv
  PROVE  ReleasedOnce
<1> SUFFICES ASSUME NEW t \in Thread, NEW u \in Thread
             PROVE  /\ stage[t] # "none" => block[target[t]] = "live"
                    /\ stage[t] = "destroy" => resource[target[t]] = "live"
                    /\ (stage[t] \in {"destroy", "delete"}
                        /\ stage[u] = stage[t] /\ target[u] = target[t]) => t = u
  BY DEF ReleasedOnce
<1>1. stage[t] # "none" => /\ target[t] \in Block /\ block[target[t]] = "live"
                           /\ NA(stage[t], target[t]) > 0
                           /\ LiveOK(target[t])
  BY ReferredLives DEF IInv, BlockOK
<1>2. stage[t] = "destroy" => resource[target[t]] = "live"
  BY <1>1 DEF LiveOK
<1>3. ASSUME stage[t] \in {"destroy", "delete"}, stage[u] = stage[t],
             target[u] = target[t]
      PROVE  t = u
  <2>1. NA(stage[t], target[t]) <= 1
    BY <1>1, <1>3 DEF LiveOK
  <2>2. t \in At(stage[t], target[t]) /\ u \in At(stage[t], target[t])
    BY <1>3 DEF At
  <2>3. QED
    BY <2>1, <2>2, Alone
<1>4. QED
  BY <1>1, <1>2, <1>3

LEMMA IInvNoLeak ==
  ASSUME IInv
  PROVE  NoLeak
<1> SUFFICES ASSUME \A t \in Thread : Idle(t), NEW b \in Block
             PROVE  /\ resource[b] = "live" => SharedTo(b) # {}
                    /\ block[b] = "live" => SharedTo(b) # {} \/ WeakRefs(b) # {}
  BY DEF NoLeak
<1>1. \A s \in Stage \ {"none"} : At(s, b) = {}
  BY DEF Idle, At
<1>2. /\ NA("decref", b) = 0 /\ NA("destroy", b) = 0
      /\ NA("decwref", b) = 0 /\ NA("delete", b) = 0
  BY <1>1, FS_EmptySet DEF NA, Stage
<1>3. /\ SharedTo(b) = {} => NS(b) = 0
      /\ WeakRefs(b) = {} => NW(b) = 0
  BY FS_EmptySet DEF NS, NW
<1>4. BlockOK(b) /\ Numbers(b) /\ uses[b] \in Nat
  BY NumbersOK DEF IInv, TypeOK
<1>5. ASSUME resource[b] = "live"
      PROVE  SharedTo(b) # {}
  <2>1. LiveOK(b)
    BY <1>4, <1>5 DEF BlockOK, NotLiveOK
  <2>2. uses[b] > 0
    BY <1>2, <1>5, <2>1 DEF LiveOK
  <2>3. NS(b) > 0
    BY <1>2, <1>4, <2>1, <2>2 DEF LiveOK, Numbers
  <2>4. QED
    BY <1>3, <2>3
<1>6. ASSUME block[b] = "live"
      PROVE  SharedTo(b) # {} \/ WeakRefs(b) # {}
  <2>1. LiveOK(b)
    BY <1>4, <1>6 DEF BlockOK
  <2>2. weaks[b] # 0
    BY <1>2, <2>1 DEF LiveOK
  <2>3. CASE resource[b] = "live"
    BY <1>5, <2>3
  <2>4. CASE resource[b] # "live"
    <3>1. weaks[b] = NW(b)
      BY <1>2, <1>4, <2>1, <2>4 DEF LiveOK, Numbers, One
    <3>2. QED
      BY <1>3, <2>2, <3>1
  <2>5. QED
    BY <2>3, <2>4
<1>7. QED
  BY <1>5, <1>6

-----------------------------------------------------------------------------

\* The invariant holds in every state, for clients that never lock a weak_ptr
\* that has expired
THEOREM Invariance ==
  ASSUME ~LockExpired
  PROVE  Spec => []IInv
<1>1. Init => IInv
  BY IInvInit
<1>2. IInv /\ [Next]_vars => IInv'
  BY IInvStep
<1>3. QED
  BY <1>1, <1>2, PTL DEF Spec

\* The variables keep their types: no count falls below 0
THEOREM TypeCorrect ==
  ASSUME ~LockExpired
  PROVE  Spec => []TypeOK
<1>1. IInv => TypeOK
  BY DEF IInv
<1>2. Spec => []IInv
  BY Invariance
<1>3. QED
  BY <1>1, <1>2, PTL

\* _uses and _weaks count the pointers there are and the decrements to come
THEOREM CountsExactHolds ==
  ASSUME ~LockExpired
  PROVE  Spec => []CountsExact
<1>1. IInv => CountsExact
  BY IInvCounts
<1>2. Spec => []IInv
  BY Invariance
<1>3. QED
  BY <1>1, <1>2, PTL

\* What a shared_ptr owns exists, and a weak_ptr's control block does
THEOREM OwnedIsAliveHolds ==
  ASSUME ~LockExpired
  PROVE  Spec => []OwnedIsAlive
<1>1. IInv => OwnedIsAlive
  BY IInvOwned
<1>2. Spec => []IInv
  BY Invariance
<1>3. QED
  BY <1>1, <1>2, PTL

\* decref and decwref destroy and free once, what is there
THEOREM ReleasedOnceHolds ==
  ASSUME ~LockExpired
  PROVE  Spec => []ReleasedOnce
<1>1. IInv => ReleasedOnce
  BY IInvReleased
<1>2. Spec => []IInv
  BY Invariance
<1>3. QED
  BY <1>1, <1>2, PTL

\* Nothing outlives the pointers to it once no operation is under way
THEOREM NoLeakHolds ==
  ASSUME ~LockExpired
  PROVE  Spec => []NoLeak
<1>1. IInv => NoLeak
  BY IInvNoLeak
<1>2. Spec => []IInv
  BY Invariance
<1>3. QED
  BY <1>1, <1>2, PTL

=============================================================================
