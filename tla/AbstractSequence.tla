-------------------------- MODULE AbstractSequence --------------------------
(***************************************************************************)
(* What a sequence container of the library promises, seen through its     *)
(* iterators: each container object holds a sequence, and every operation  *)
(* changes it in one step.                                                 *)
(***************************************************************************)
EXTENDS Integers, Sequences

CONSTANT Object          \* the container objects

VARIABLE content         \* the elements of each container, first to last

Init == content = [q \in Object |-> << >>]

Become(q, s) == content' = [content EXCEPT ![q] = s]

Insert(q, i, e) ==
  LET s == content[q]
  IN  Become(q, SubSeq(s, 1, i - 1) \o << e >> \o SubSeq(s, i, Len(s)))

Erase(q, i) ==
  LET s == content[q]
  IN  Become(q, SubSeq(s, 1, i - 1) \o SubSeq(s, i + 1, Len(s)))

\* The first n elements stay, and those of s follow
Resize(q, n, s) == Become(q, SubSeq(content[q], 1, n) \o s)

Move(q, o) ==
  content' = [content EXCEPT ![q] = content[o], ![o] = << >>]

Swap(q, o) ==
  content' = [content EXCEPT ![q] = content[o], ![o] = content[q]]

=============================================================================
