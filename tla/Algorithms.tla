----------------------------- MODULE Algorithms -----------------------------
(***************************************************************************)
(* The algorithms of c_algorithm.h and c_numeric.h that are more than one  *)
(* comparison in a loop, and the searches of x_char_traits.h.  A range is  *)
(* a sequence; an iterator is the number of elements before it.            *)
(***************************************************************************)
EXTENDS Integers, SequencesExt

CONSTANTS Value,         \* the elements: numbers from 0 on, ordered by <
          MaxFirst,      \* bound: elements of the first range
          MaxSecond      \* bound: elements of the second range

VARIABLES range1, range2 \* the arguments of the next call

vars == << range1, range2 >>

TypeOK ==
  /\ range1 \in Seq(Value) /\ Len(range1) <= MaxFirst
  /\ range2 \in Seq(Value) /\ Len(range2) <= MaxSecond

Init == range1 = << >> /\ range2 = << >>

\* The arguments go through all there are
Next ==
  \/ \E x \in Value : \/ /\ Len(range1) < MaxFirst
                         /\ range1' = Append(range1, x) /\ UNCHANGED range2
                      \/ /\ Len(range2) < MaxSecond
                         /\ range2' = Append(range2, x) /\ UNCHANGED range1
  \/ range1' = << >> /\ range2' = << >>

Spec == Init /\ [][Next]_vars

-----------------------------------------------------------------------------
(* Searches.                                                               *)

\* search: it and the iterator in t run together from first on
Search(s, t) ==
  LET loop[first, done \in 0 .. Len(s)] ==
        IF done = Len(t) THEN first
        ELSE IF first + done = Len(s) THEN Len(s)
        ELSE IF s[first + done + 1] # t[done + 1] THEN loop[first + 1, 0]
        ELSE loop[first, done + 1]
  IN  loop[0, 0]

NotFound == -1           \* npos

\* Does compare find the characters of t at i of s, or the terminator sooner?
SameAt(s, t, i) == \A j \in DOMAIN t : i + j <= Len(s) /\ s[i + j] = t[j]

\* _traits_cstring_find.  The length of s less that of t is unsigned.
Find(s, t, pos) ==
  LET lastSubstrPos == Len(s) - Len(t)
      loop[i \in Nat] ==
        IF i > lastSubstrPos THEN NotFound
        ELSE IF SameAt(s, t, i) THEN i ELSE loop[i + 1]
  IN  loop[pos]

\* _traits_cstring_rfind
Rfind(s, t, pos) ==
  LET lastSubstrPos == IF pos > Len(s) THEN Len(s) - Len(t) ELSE pos
      loop[i \in Nat] ==
        IF SameAt(s, t, i) THEN i ELSE IF i = 0 THEN NotFound ELSE loop[i - 1]
  IN  loop[lastSubstrPos]

\* partition_point halves what is left; the predicate holds of the values passing
PartitionPoint(s, passing) ==
  LET loop[first, length \in 0 .. Len(s)] ==
        LET half == length \div 2
        IN  IF length = 0 THEN first
            ELSE IF s[first + half + 1] \in passing
            THEN loop[first + half + 1, length - (half + 1)] ELSE loop[first, half]
  IN  loop[0, Len(s)]

\* max_element and min_element
MaxElement(s) ==
  FoldLeft(LAMBDA largest, i : IF s[largest] < s[i] THEN i ELSE largest,
           1, [i \in 1 .. Len(s) |-> i])
MinElement(s) ==
  FoldLeft(LAMBDA smallest, i : IF s[i] < s[smallest] THEN i ELSE smallest,
           1, [i \in 1 .. Len(s) |-> i])

-----------------------------------------------------------------------------
(* Two ranges.                                                             *)

LexicographicalCompare(s, t) ==
  LET loop[i \in Nat] ==
        IF i > Len(s) \/ i > Len(t) THEN i > Len(s) /\ i <= Len(t)
        ELSE s[i] < t[i] \/ (s[i] = t[i] /\ loop[i + 1])
  IN  loop[1]

\* includes, of ranges in order
Includes(s, t) ==
  LET loop[i, j \in Nat] ==
        IF i > Len(s) \/ j > Len(t) THEN j > Len(t)
        ELSE t[j] >= s[i] /\ loop[i + 1, IF s[i] < t[j] THEN j ELSE j + 1]
  IN  loop[1, 1]

\* set_intersection, of ranges in order
SetIntersection(s, t) ==
  LET loop[i, j \in Nat] ==
        IF i > Len(s) \/ j > Len(t) THEN << >>
        ELSE IF s[i] < t[j] THEN loop[i + 1, j]
        ELSE IF t[j] < s[i] THEN loop[i, j + 1]
        ELSE << s[i] >> \o loop[i + 1, j + 1]
  IN  loop[1, 1]

-----------------------------------------------------------------------------
(* Algorithms that write to the array a they read.                         *)

Swapped(a, i, j) == [a EXCEPT ![i] = a[j], ![j] = a[i]]

\* partition: behind the first element that fails, those that pass are
\* swapped with it, and it is then the next one that fails
Partition(a, passing) ==
  LET first == SelectInSeq(a, LAMBDA x : x \notin passing)
  IN  IF first = 0 THEN [range |-> a, point |-> Len(a)]
      ELSE FoldLeft(LAMBDA m, i :
                      IF m.range[i] \in passing
                      THEN [range |-> Swapped(m.range, i, m.point + 1),
                            point |-> m.point + 1]
                      ELSE m,
                    [range |-> a, point |-> first - 1],
                    [i \in 1 .. Len(a) - first |-> first + i])

\* copy and move, of n elements from one iterator to another
Copy(a, from, n, to) ==
  FoldLeft(LAMBDA b, i : [b EXCEPT ![to + i] = b[from + i]], a, [i \in 1 .. n |-> i])

\* copy_backward and move_backward
CopyBackward(a, from, n, to) ==
  FoldLeft(LAMBDA b, i : [b EXCEPT ![to + i] = b[from + i]], a,
           [i \in 1 .. n |-> n + 1 - i])

\* exclusive_scan: the next sum is taken before the element is overwritten
ExclusiveScan(a, init) ==
  FoldLeft(LAMBDA m, i : [range |-> [m.range EXCEPT ![i] = m.sum],
                          sum |-> m.sum + m.range[i]],
           [range |-> a, sum |-> init], [i \in 1 .. Len(a) |-> i]).range

\* partial_sum, and inclusive_scan without an initial value
PartialSum(a) ==
  FoldLeft(LAMBDA m, i : LET sum == IF i = 1 THEN m.range[1] ELSE m.sum + m.range[i]
                         IN  [range |-> [m.range EXCEPT ![i] = sum], sum |-> sum],
           [range |-> a, sum |-> 0], [i \in 1 .. Len(a) |-> i]).range

\* adjacent_difference: the element is kept before it is overwritten
AdjacentDifference(a) ==
  FoldLeft(LAMBDA m, i : [range |-> [m.range EXCEPT ![i] =
                                       IF i = 1 THEN @ ELSE @ - m.before],
                          before |-> m.range[i]],
           [range |-> a, before |-> 0], [i \in 1 .. Len(a) |-> i]).range

-----------------------------------------------------------------------------
(* Properties.                                                             *)

Least(positions, otherwise) == IF positions = {} THEN otherwise ELSE Min(positions)
Sum(s) == FoldLeft(+, 0, s)
Ordered(s) == \A i, j \in DOMAIN s : i < j => s[i] <= s[j]
Times(x, s) == Cardinality({i \in DOMAIN s : s[i] = x})

\* The first, or the last, place where t is a part of s.  A text that is too
\* short for t is not searched by find, nor by rfind from its end.
SearchesExact(s, t) ==
  LET places == {i \in 0 .. Len(s) - Len(t) : SubSeq(s, i + 1, i + Len(t)) = t}
  IN  /\ Search(s, t) = Least(places, Len(s))
      /\ \A pos \in 0 .. Len(s) :
           /\ Len(t) <= Len(s) =>
                Find(s, t, pos) = Least({i \in places : i >= pos}, NotFound)
           /\ Rfind(s, t, pos) = IF \E i \in places : i <= pos
                                 THEN Max({i \in places : i <= pos}) ELSE NotFound
      /\ Len(t) <= Len(s) =>
           Rfind(s, t, Len(s) + 1) = IF places = {} THEN NotFound ELSE Max(places)

\* What is said of two ranges is what their elements, counted, say
ComparisonsExact(s, t) ==
  /\ LexicographicalCompare(s, t) <=>
       \/ \E i \in DOMAIN s \cap DOMAIN t :
            s[i] < t[i] /\ \A j \in 1 .. i - 1 : s[j] = t[j]
       \/ IsStrictPrefix(s, t)
  /\ Ordered(s) /\ Ordered(t) =>
       /\ Includes(s, t) <=> \A x \in Value : Times(x, t) <= Times(x, s)
       /\ LET both == SetIntersection(s, t)
          IN  /\ Ordered(both)
              /\ \A x \in Value :
                   Times(x, both) = Min({Times(x, s), Times(x, t)})

\* Those that pass come first, and keep their order; none is lost
PartitionExact(s, passing) ==
  LET p == Partition(s, passing)
      first == SelectSeq(s, LAMBDA x : x \in passing)
  IN  /\ p.point = Len(first)
      /\ SubSeq(p.range, 1, p.point) = first
      /\ ToBag(p.range) = ToBag(s)
      /\ PartitionPoint(p.range, passing) = p.point

\* In place: each result is what the elements before the call say.  copy may
\* write in front of what it reads, copy_backward behind it.
InPlaceExact(s) ==
  /\ \A from, to \in 0 .. Len(s) : \A n \in 0 .. Len(s) - Max({from, to}) :
       LET copied == [i \in DOMAIN s |-> IF i \in to + 1 .. to + n
                                         THEN s[i - to + from] ELSE s[i]]
       IN  /\ to <= from \/ to >= from + n => Copy(s, from, n, to) = copied
           /\ to >= from \/ to + n <= from => CopyBackward(s, from, n, to) = copied
  /\ ExclusiveScan(s, 1) = [i \in DOMAIN s |-> 1 + Sum(SubSeq(s, 1, i - 1))]
  /\ PartialSum(s) = [i \in DOMAIN s |-> Sum(SubSeq(s, 1, i))]
  /\ PartialSum(AdjacentDifference(s)) = s
  /\ s # << >> =>
       /\ MaxElement(s) = Min({i \in DOMAIN s : s[i] = Max(ToSet(s))})
       /\ MinElement(s) = Min({i \in DOMAIN s : s[i] = Min(ToSet(s))})

\* Whatever the ranges, empty or full of equal elements, each algorithm gives
\* what a definition that looks at all of them at once gives.
MeetsReferences ==
  /\ SearchesExact(range1, range2)
  /\ ComparisonsExact(range1, range2)
  /\ range2 = << >> => /\ \A passing \in SUBSET Value : PartitionExact(range1, passing)
                       /\ InPlaceExact(range1)

=============================================================================
