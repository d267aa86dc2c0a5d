-------------------------------- MODULE List --------------------------------
(***************************************************************************)
(* list of c_list.h: nodes in a circle around a head node.                 *)
(*                                                                         *)
(* A node is named by the element it holds, a head by the list that        *)
(* allocated it, which may be another one's after a move.  Free memory has *)
(* null links.  Elements with the same rank are equal for operator== and   *)
(* less<>; a copied element becomes its twin.                              *)
(***************************************************************************)
EXTENDS Integers, SequencesExt

CONSTANTS Elem,          \* the elements clients construct
          Rank,          \* the value of each
          Twin,          \* an element of the same value, its copy
          Object,        \* the list objects
          Null,          \* nullptr
          MergesIntoEmpty\* do clients merge into lists that are empty?

VARIABLES links,         \* _Next and _Previous of all nodes
          head,          \* _Head of each list
          size           \* _Size of each list

vars == << links, head, size >>

Node == Elem \cup Object
Links == [next : [Node -> Node \cup {Null}], prev : [Node -> Node \cup {Null}]]

TypeOK ==
  /\ links \in Links
  /\ head \in [Object -> Object]
  /\ size \in [Object -> 0 .. Cardinality(Elem)]

\* The elements an iterator visits from begin() on, as many as size() says
Content(l) ==
  LET at[i \in 0 .. size[l]] == IF i = 0 THEN head[l] ELSE links.next[at[i - 1]]
  IN  [i \in 1 .. size[l] |-> at[i]]

Free == {e \in Elem : links.next[e] = Null}

Position(l, n) ==
  IF n = head[l] THEN size[l] + 1 ELSE CHOOSE i \in 1 .. size[l] : Content(l)[i] = n

-----------------------------------------------------------------------------
(* Changing the links k.                                                   *)

\* _link_node_before
LinkBefore(k, at, e) ==
  LET before == k.prev[at]
  IN  [next |-> [k.next EXCEPT ![e] = at, ![before] = e],
       prev |-> [k.prev EXCEPT ![e] = before, ![at] = e]]

\* _remove_node, _unlink_node
Removed(k, e) ==
  LET before == k.prev[e]
      after == k.next[e]
  IN  [next |-> [k.next EXCEPT ![before] = after, ![e] = Null],
       prev |-> [k.prev EXCEPT ![after] = before, ![e] = Null]]

\* _splice: the nodes from first to last go behind before.  The three pairs
\* of assignments follow one another.
Spliced(k, before, first, last) ==
  LET after == k.next[before]
      opened == [next |-> [k.next EXCEPT ![before] = first],
                 prev |-> [k.prev EXCEPT ![after] = last]]
      left == opened.prev[first]
      right == opened.next[last]
      closed == [next |-> [opened.next EXCEPT ![left] = right],
                 prev |-> [opened.prev EXCEPT ![right] = left]]
  IN  [next |-> [closed.next EXCEPT ![last] = after],
       prev |-> [closed.prev EXCEPT ![first] = before]]

\* One turn of _merge_internal: the nodes from mid on that are less than
\* first go before it, then first moves on to one that is greater than mid
MergeTurn(m, last, rank) ==
  LET run[n \in Node] ==
        IF n # last /\ rank[n] < rank[m.first] THEN run[m.links.next[n]] ELSE n
      mid == run[m.mid]
      k == IF mid = m.mid THEN m.links
           ELSE Spliced(m.links, m.links.prev[m.first], m.mid, m.links.prev[mid])
      skip[n \in Node] ==
        IF n = mid \/ rank[mid] < rank[n] THEN n ELSE skip[k.next[n]]
      first == skip[k.next[m.first]]
  IN  IF mid = last THEN [m EXCEPT !.links = k, !.over = TRUE]
      ELSE [links |-> k, first |-> first, mid |-> mid, over |-> first = mid]

MergeInternal(k, first, mid, last, rank) ==
  FoldLeft(LAMBDA m, turn : IF m.over THEN m ELSE MergeTurn(m, last, rank),
           [links |-> k, first |-> first, mid |-> mid, over |-> FALSE],
           [turn \in 1 .. 2 * Cardinality(Elem) |-> turn]).links

\* _sort: sorts size nodes from first on and returns the node behind them.
\* Each merge starts at the first node of the list.
Sorted(k, h, total) ==
  LET sort[a \in [links : Links, first : Node, size : 0 .. total]] ==
        IF a.size = 0 THEN [links |-> a.links, next |-> a.first]
        ELSE IF a.size = 1 THEN [links |-> a.links, next |-> a.links.next[a.first]]
        ELSE LET half == a.size \div 2
                 left == sort[[a EXCEPT !.size = half]]
                 right == sort[[links |-> left.links, first |-> left.next,
                                size |-> a.size - half]]
             IN  [links |-> MergeInternal(right.links, right.links.next[h],
                                          left.next, right.next, Rank),
                  next |-> right.next]
  IN  sort[[links |-> k, first |-> k.next[h], size |-> total]].links

\* _delete_until_size: n times pop_back
Shortened(k, h, n) ==
  FoldLeft(LAMBDA m, turn : Removed(m, m.prev[h]), k, [turn \in 1 .. n |-> turn])

\* _create_until_size, _copy: push_back of each element of s
Lengthened(k, h, s) == FoldLeft(LAMBDA m, e : LinkBefore(m, h, e), k, s)

-----------------------------------------------------------------------------
(* The operations.                                                         *)

Init ==
  /\ links = LET around == [n \in Node |-> IF n \in Object THEN n ELSE Null]
             IN  [next |-> around, prev |-> around]
  /\ head = [l \in Object |-> l]
  /\ size = [l \in Object |-> 0]

\* emplace, and emplace_back and emplace_front where at is the head or the
\* first node
Emplace(l, at, e) ==
  /\ size' = [size EXCEPT ![l] = @ + 1]
  /\ links' = LinkBefore(links, at, e)
  /\ UNCHANGED head

\* erase, and pop_back and pop_front of a list that is not empty
Erase(l, e) ==
  /\ size' = [size EXCEPT ![l] = @ - 1]
  /\ links' = Removed(links, e)
  /\ UNCHANGED head

\* resize: to n elements, of which those of s are new; clear where n is 0
Resize(l, n, s) ==
  LET gone == Max({size[l] - n, 0})
  IN  /\ n = size[l] - gone + Len(s)
      /\ size' = [size EXCEPT ![l] = n]
      /\ links' = Lengthened(Shortened(links, head[l], gone), head[l], s)
      /\ UNCHANGED head

\* Copy construction and assignment
CopyAssign(l, o) ==
  LET copies == [i \in 1 .. size[o] |-> Twin[Content(o)[i]]]
  IN  /\ l # o
      /\ size' = [size EXCEPT ![l] = size[o]]
      /\ links' = Lengthened(Shortened(links, head[l], size[l]), head[l], copies)
      /\ UNCHANGED head

\* Mutation: the list moved from keeps its size
MoveAssignSizeKept(l, o) ==
  /\ l # o
  /\ head' = [head EXCEPT ![l] = head[o], ![o] = head[l]]
  /\ size' = [size EXCEPT ![l] = size[o]]
  /\ links' = Shortened(links, head[l], size[l])

\* Move construction and assignment: the heads are swapped
MoveAssign(l, o) ==
  /\ l # o
  /\ head' = [head EXCEPT ![l] = head[o], ![o] = head[l]]
  /\ size' = [size EXCEPT ![l] = size[o], ![o] = 0]
  /\ links' = Shortened(links, head[l], size[l])

\* reverse: every node of the circle swaps its links
Flip(l) ==
  /\ size[l] > 1
  /\ LET mine == ToSet(Content(l)) \cup {head[l]}
         Swap(f, g) == [n \in Node |-> IF n \in mine THEN g[n] ELSE f[n]]
     IN  links' = [next |-> Swap(links.next, links.prev),
                   prev |-> Swap(links.prev, links.next)]
  /\ UNCHANGED << head, size >>

\* remove_if and remove: the next node is read before the current one goes
RemoveIf(l, value) ==
  LET doomed == {e \in ToSet(Content(l)) : Rank[e] = value}
      sweep[a \in [links : Links, at : Node]] ==
        IF a.at = head[l] THEN a.links
        ELSE sweep[[links |-> IF a.at \in doomed THEN Removed(a.links, a.at)
                              ELSE a.links,
                    at |-> a.links.next[a.at]]]
  IN  /\ doomed # {}
      /\ size' = [size EXCEPT ![l] = @ - Cardinality(doomed)]
      /\ links' = sweep[[links |-> links, at |-> links.next[head[l]]]]
      /\ UNCHANGED head

\* unique: the current node stays while those behind it are equal to it.  In
\* an empty list the current node is the head, and the loop ends at once.
Unique(l) ==
  LET sweep[a \in [links : Links, at : Node, size : 0 .. size[l]]] ==
        LET next == a.links.next[a.at]
        IN  IF next = head[l] THEN a
            ELSE IF Rank[a.at] = Rank[next]
            THEN sweep[[a EXCEPT !.links = Removed(@, next), !.size = @ - 1]]
            ELSE sweep[[a EXCEPT !.at = next]]
      end == sweep[[links |-> links, at |-> links.next[head[l]], size |-> size[l]]]
  IN  /\ end.size < size[l]
      /\ size' = [size EXCEPT ![l] = end.size]
      /\ links' = end.links
      /\ UNCHANGED head

\* splice: the nodes of o from first up to, but not including, last go before
\* the node at.  Iterators of the same list are refused.
Splice(l, at, o, first, last) ==
  LET count == Position(o, last) - Position(o, first)
  IN  /\ l # o
      /\ count > 0
      /\ size' = [size EXCEPT ![l] = @ + count, ![o] = @ - count]
      /\ links' = Spliced(links, links.prev[at], first, links.prev[last])
      /\ UNCHANGED head

\* merge: all of o goes to the end of l, where its first node divides the two
\* sorted ranges.  If l was empty that node is also the first one, and the
\* loop goes on to read the value of the head, which was never constructed.
Merge(l, o, headValue) ==
  LET mid == links.next[head[o]]
      joined == Spliced(links, links.prev[head[l]], mid, links.prev[head[o]])
      rank == [n \in Node |-> IF n \in Elem THEN Rank[n] ELSE headValue]
  IN  /\ l # o /\ size[o] > 0
      /\ size[l] = 0 => MergesIntoEmpty
      /\ size' = [size EXCEPT ![l] = @ + size[o], ![o] = 0]
      /\ links' = MergeInternal(joined, joined.next[head[l]], mid, head[l], rank)
      /\ UNCHANGED head

Sort(l) ==
  /\ size[l] > 1
  /\ UNCHANGED << head, size >>
  /\ links' = Sorted(links, head[l], size[l])

IsOrdered(l) ==
  \A i \in 1 .. size[l] - 1 : Rank[Content(l)[i]] <= Rank[Content(l)[i + 1]]

Values == {Rank[e] : e \in Elem}

\* Are there twins for the elements of o, once those of l are gone?
CopiesFree(l, o) ==
  {Twin[e] : e \in ToSet(Content(o))} \subseteq Free \cup ToSet(Content(l))

\* Elements of one value, for a resize to construct
Alike == {SetToSeq(s) : s \in {S \in SUBSET Free : \A e, f \in S : Rank[e] = Rank[f]}}

\* The nodes of l an iterator can stand at
Positions(l) == ToSet(Content(l)) \cup {head[l]}

Next ==
  \/ \E l \in Object :
       \/ \E at \in Positions(l), e \in Free : Emplace(l, at, e)
       \/ \E e \in ToSet(Content(l)) : Erase(l, e)
       \/ \E s \in Alike, n \in 0 .. Cardinality(Elem) : n # size[l] /\ Resize(l, n, s)
       \/ Flip(l) \/ Unique(l) \/ Sort(l)
       \/ \E value \in Values : RemoveIf(l, value)
  \/ \E l, o \in Object :
       \/ CopiesFree(l, o) /\ CopyAssign(l, o)
       \/ MoveAssign(l, o)
       \/ \E at \in Positions(l), first, last \in Positions(o) :
            Splice(l, at, o, first, last)
       \/ /\ IsOrdered(l) /\ IsOrdered(o)
          /\ \E headValue \in Values : Merge(l, o, headValue)

Spec == Init /\ [][Next]_vars

-----------------------------------------------------------------------------
(* Properties.                                                             *)

\* Whatever was spliced, merged, sorted or swapped between lists: from the
\* head of a list as many nodes as its size counts lead back to it, in both
\* directions, no node is in two lists, and none is linked but in no list.
LinksAgree ==
  /\ \A l \in Object :
       LET c == Content(l)
           round == << head[l] >> \o c \o << head[l] >>
       IN  /\ ToSet(c) \subseteq Elem
           /\ \A i \in 1 .. size[l] + 1 : /\ links.next[round[i]] = round[i + 1]
                                          /\ links.prev[round[i + 1]] = round[i]
  /\ \A l, o \in Object : l # o => ToSet(Content(l)) \cap ToSet(Content(o)) = {}
  /\ Cardinality(Elem \ Free) = SumFunction(size)

Abstract == INSTANCE AbstractList WITH content <- [l \in Object |-> Content(l)]

\* Each operation does to the elements an iterator visits what it does to a
\* sequence, and nothing to any other list: erasures and relinkings lose and
\* duplicate no element, merge is stable, and sort sorts.
Implementing ==
  /\ \A l \in Object :
       /\ \A at \in Positions(l), e \in Free :
            Emplace(l, at, e) => Abstract!Insert(l, Position(l, at), e)
       /\ \A e \in ToSet(Content(l)) :
            Erase(l, e) => Abstract!Erase(l, Position(l, e))
       /\ \A s \in Alike, n \in 0 .. Cardinality(Elem) :
            Resize(l, n, s) => Abstract!Resize(l, Min({n, size[l]}), s)
       /\ Flip(l) => Abstract!Flip(l)
       /\ Unique(l) => Abstract!Unique(l)
       /\ Sort(l) => Abstract!Sort(l)
       /\ \A value \in Values :
            RemoveIf(l, value) => Abstract!RemoveIf(l, LAMBDA e : Rank[e] = value)
  /\ \A l, o \in Object :
       /\ CopyAssign(l, o) => Abstract!Copy(l, o, Twin)
       /\ MoveAssign(l, o) => Abstract!Move(l, o)
       /\ \A at \in Positions(l), first, last \in Positions(o) :
            Splice(l, at, o, first, last) =>
              Abstract!Splice(l, Position(l, at), o,
                              Position(o, first), Position(o, last) - 1)
       /\ \A headValue \in Values :
            Merge(l, o, headValue) /\ IsOrdered(l) /\ IsOrdered(o) =>
              Abstract!Merge(l, o)

ImplementsSequence == Abstract!Init /\ [][Implementing]_vars

=============================================================================
