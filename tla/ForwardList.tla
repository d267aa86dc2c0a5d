---------------------------- MODULE ForwardList ----------------------------
(***************************************************************************)
(* forward_list of c_forward_list.h: nodes in a line behind a head node.   *)
(*                                                                         *)
(* Nodes, heads, ranks and twins are those of List.  The last node's link  *)
(* is null; memory that is free has none.                                  *)
(***************************************************************************)
EXTENDS Integers, SequencesExt

CONSTANTS Elem, Rank, Twin, Object, Null,
          Freed          \* the link of memory that is free

VARIABLES next,          \* _Next of all nodes
          head,          \* _Head of each list
          size           \* _Size of each list

vars == << next, head, size >>

Node == Elem \cup Object

TypeOK ==
  /\ next \in [Node -> Node \cup {Null, Freed}]
  /\ head \in [Object -> Object]
  /\ size \in [Object -> 0 .. Cardinality(Elem)]

\* The elements an iterator visits from begin() on, as many as size() says
Content(l) ==
  LET at[i \in 0 .. size[l]] == IF i = 0 THEN head[l] ELSE next[at[i - 1]]
  IN  [i \in 1 .. size[l] |-> at[i]]

Free == {e \in Elem : next[e] = Freed}

\* How many elements there are up to node n
Before(l, n) ==
  IF n = head[l] THEN 0 ELSE CHOOSE i \in 1 .. size[l] : Content(l)[i] = n

-----------------------------------------------------------------------------
(* Changing the links k.                                                   *)

\* _insert_node_after
InsertedAfter(k, at, e) == [k EXCEPT ![e] = k[at], ![at] = e]

\* _remove_node_after
RemovedAfter(k, at) == [k EXCEPT ![at] = k[k[at]], ![k[at]] = Freed]

\* n times pop_front
Shortened(k, h, n) ==
  FoldLeft(LAMBDA m, turn : RemovedAfter(m, h), k, [turn \in 1 .. n |-> turn])

\* push_front of each element of s
Lengthened(k, h, s) == FoldLeft(LAMBDA m, e : InsertedAfter(m, h, e), k, s)

\* Mutation: the other list is closed behind the first node taken, which is
\* no longer its own
SplicedLate(k, at, before, behind) ==
  LET last == CHOOSE n \in Node : k[n] = behind
      opened == [k EXCEPT ![at] = k[before], ![last] = k[at]]
  IN  [opened EXCEPT ![k[before]] = behind]

\* _splice_after: what lies between before and behind goes behind at
SplicedAfter(k, at, before, behind) ==
  LET seek[n \in Node] == IF k[n] = behind THEN n ELSE seek[k[n]]
      opened == [k EXCEPT ![at] = k[before], ![seek[before]] = k[at]]
  IN  [opened EXCEPT ![before] = behind]

-----------------------------------------------------------------------------
(* The operations.                                                         *)

Init ==
  /\ next = [n \in Node |-> IF n \in Object THEN Null ELSE Freed]
  /\ head = [l \in Object |-> l]
  /\ size = [l \in Object |-> 0]

\* emplace_after, and emplace_front where at is the head
EmplaceAfter(l, at, e) ==
  /\ size' = [size EXCEPT ![l] = @ + 1]
  /\ next' = InsertedAfter(next, at, e)
  /\ UNCHANGED head

\* erase_after, and pop_front; behind the last node the one throws, and in an
\* empty list the other does nothing
EraseAfter(l, at) ==
  /\ next[at] # Null
  /\ size' = [size EXCEPT ![l] = @ - 1]
  /\ next' = RemovedAfter(next, at)
  /\ UNCHANGED head

\* resize, at the front: to n elements, of which those of s are new
Resize(l, n, s) ==
  LET gone == Max({size[l] - n, 0})
  IN  /\ n = size[l] - gone + Len(s)
      /\ size' = [size EXCEPT ![l] = n]
      /\ next' = Lengthened(Shortened(next, head[l], gone), head[l], s)
      /\ UNCHANGED head

\* Copy construction and assignment: each copy goes to the front
CopyAssign(l, o) ==
  LET copies == [i \in 1 .. size[o] |-> Twin[Content(o)[i]]]
  IN  /\ l # o
      /\ size' = [size EXCEPT ![l] = size[o]]
      /\ next' = Lengthened(Shortened(next, head[l], size[l]), head[l], copies)
      /\ UNCHANGED head

\* Move construction and assignment: the heads are swapped
MoveAssign(l, o) ==
  /\ l # o
  /\ head' = [head EXCEPT ![l] = head[o], ![o] = head[l]]
  /\ size' = [size EXCEPT ![l] = size[o], ![o] = 0]
  /\ next' = Shortened(next, head[l], size[l])

\* reverse: each node is linked to the one before it
Flip(l) ==
  LET turned == FoldLeft(LAMBDA m, e : [next |-> [m.next EXCEPT ![e] = m.prev],
                                        prev |-> e],
                         [next |-> next, prev |-> Null], Content(l))
  IN  /\ size[l] > 1
      /\ next' = [turned.next EXCEPT ![head[l]] = turned.prev]
      /\ UNCHANGED << head, size >>

\* remove_if and remove: prev stays while the nodes behind it go
RemoveIf(l, value) ==
  LET doomed == {e \in ToSet(Content(l)) : Rank[e] = value}
      swept == FoldLeft(LAMBDA m, e : IF e \in doomed
                                      THEN [m EXCEPT !.next = RemovedAfter(@, m.prev)]
                                      ELSE [m EXCEPT !.prev = m.next[@]],
                        [next |-> next, prev |-> head[l]], Content(l))
  IN  /\ doomed # {}
      /\ size' = [size EXCEPT ![l] = @ - Cardinality(doomed)]
      /\ next' = swept.next
      /\ UNCHANGED head

\* unique of a list that is not empty: in an empty one it follows a null link
Unique(l) ==
  LET sweep[a \in [next : [Node -> Node \cup {Null, Freed}], at : Node,
                   size : 0 .. size[l]]] ==
        LET behind == a.next[a.at]
        IN  IF behind = Null THEN a
            ELSE IF Rank[a.at] = Rank[behind]
            THEN sweep[[a EXCEPT !.next = RemovedAfter(@, a.at), !.size = @ - 1]]
            ELSE sweep[[a EXCEPT !.at = behind]]
      end == sweep[[next |-> next, at |-> next[head[l]], size |-> size[l]]]
  IN  /\ size[l] > 0
      /\ end.size < size[l]
      /\ size' = [size EXCEPT ![l] = end.size]
      /\ next' = end.next
      /\ UNCHANGED head

\* splice_after: what lies between before and behind, a node of o or null,
\* goes behind at.  Iterators of the same list are refused.
SpliceAfter(l, at, o, before, behind) ==
  LET upTo == IF behind = Null THEN size[o] ELSE Before(o, behind) - 1
      count == upTo - Before(o, before)
  IN  /\ l # o
      /\ count > 0
      /\ size' = [size EXCEPT ![l] = @ + count, ![o] = @ - count]
      /\ next' = SplicedAfter(next, at, before, behind)
      /\ UNCHANGED head

Values == {Rank[e] : e \in Elem}

\* Are there twins for the elements of o, once those of l are gone?
CopiesFree(l, o) ==
  {Twin[e] : e \in ToSet(Content(o))} \subseteq Free \cup ToSet(Content(l))

\* Elements of one value, for a resize to construct
Alike == {SetToSeq(s) : s \in {S \in SUBSET Free : \A e, f \in S : Rank[e] = Rank[f]}}

\* The nodes of l something can go behind
Positions(l) == ToSet(Content(l)) \cup {head[l]}

Next ==
  \/ \E l \in Object :
       \/ \E at \in Positions(l), e \in Free : EmplaceAfter(l, at, e)
       \/ \E at \in Positions(l) : EraseAfter(l, at)
       \/ \E s \in Alike, n \in 0 .. Cardinality(Elem) : n # size[l] /\ Resize(l, n, s)
       \/ Flip(l) \/ Unique(l)
       \/ \E value \in Values : RemoveIf(l, value)
  \/ \E l, o \in Object :
       \/ CopiesFree(l, o) /\ CopyAssign(l, o)
       \/ MoveAssign(l, o)
       \/ \E at \in Positions(l), before \in Positions(o),
             behind \in ToSet(Content(o)) \cup {Null} :
            SpliceAfter(l, at, o, before, behind)

Spec == Init /\ [][Next]_vars

-----------------------------------------------------------------------------
(* Properties.                                                             *)

\* Whatever was spliced, removed or swapped between lists: from the head of a
\* list as many elements as its size counts lead to null, none of them is in
\* two lists, and none is linked but in no list.
LinksAgree ==
  /\ \A l \in Object :
       /\ ToSet(Content(l)) \subseteq Elem
       /\ next[(<< head[l] >> \o Content(l))[size[l] + 1]] = Null
  /\ \A l, o \in Object : l # o => ToSet(Content(l)) \cap ToSet(Content(o)) = {}
  /\ Cardinality(Elem \ Free) = SumFunction(size)

Abstract == INSTANCE AbstractList WITH content <- [l \in Object |-> Content(l)]

\* Each operation does to the elements an iterator visits what it does to a
\* sequence.  Of resize and copying this says which elements there are after
\* them; KeepsOrder says in which order.
Implementing ==
  /\ \A l \in Object :
       /\ \A at \in Positions(l) :
            /\ \A e \in Free :
                 EmplaceAfter(l, at, e) => Abstract!Insert(l, Before(l, at) + 1, e)
            /\ EraseAfter(l, at) => Abstract!Erase(l, Before(l, at) + 1)
       /\ \A s \in Alike, n \in 0 .. Cardinality(Elem) :
            Resize(l, n, s) => Abstract!Refill(l, n, s)
       /\ Flip(l) => Abstract!Flip(l)
       /\ Unique(l) => Abstract!Unique(l)
       /\ \A value \in Values :
            RemoveIf(l, value) => Abstract!RemoveIf(l, LAMBDA e : Rank[e] = value)
  /\ \A l, o \in Object :
       /\ CopyAssign(l, o) => Abstract!Collect(l, o, Twin)
       /\ MoveAssign(l, o) => Abstract!Move(l, o)
       /\ \A at \in Positions(l), before \in Positions(o),
             behind \in ToSet(Content(o)) \cup {Null} :
            SpliceAfter(l, at, o, before, behind) =>
              Abstract!Splice(l, Before(l, at) + 1, o, Before(o, before) + 1,
                              IF behind = Null THEN size[o] ELSE Before(o, behind) - 1)

\* The values of the elements of list l, first to last
Order(l) == [i \in 1 .. size[l] |-> Rank[Content(l)[i]]]

\* "Resize the list by removing or adding ... elements to the tail", and a copy
\* equals its source.  The code does both at the front: see the README.
KeepsOrder ==
  /\ \A l \in Object, s \in Alike, n \in 0 .. Cardinality(Elem) :
       Resize(l, n, s) =>
         LET new == [i \in DOMAIN s |-> Rank[s[i]]]
         IN  Order(l)' = SubSeq(Order(l), 1, Min({n, size[l]})) \o new
  /\ \A l, o \in Object : CopyAssign(l, o) => Order(l)' = Order(o)

=============================================================================
