---------------------------- MODULE AbstractList ----------------------------
(***************************************************************************)
(* What the lists of the library promise: they are sequences whose         *)
(* elements can be relinked in another order, and into another list.       *)
(***************************************************************************)
EXTENDS AbstractSequence, SequencesExt

CONSTANT Rank            \* where each element stands in the order of less<>

\* Each element of o is copied: f is its copy
Copy(q, o, f) ==
  Become(q, [i \in DOMAIN content[o] |-> f[content[o][i]]])

\* Whatever the order: the elements of o are copied, each once
Collect(q, o, f) ==
  /\ \A p \in Object \ {q} : content'[p] = content[p]
  /\ ToBag(content'[q]) = ToBag([i \in DOMAIN content[o] |-> f[content[o][i]]])

\* At whichever end: n elements are left, those of s besides neighbours that
\* stay neighbours
Refill(q, n, s) ==
  LET new == ToSet(s)
      old == SelectSeq(content'[q], LAMBDA e : e \notin new)
  IN  /\ \A p \in Object \ {q} : content'[p] = content[p]
      /\ ToBag(content'[q]) = ToBag(s \o old)
      /\ Len(content'[q]) = n
      /\ \E i \in 0 .. Len(content[q]) :
           old = SubSeq(content[q], i + 1, i + Len(old))

Flip(q) == Become(q, Reverse(content[q]))

RemoveIf(q, Test(_)) == Become(q, SelectSeq(content[q], LAMBDA e : ~Test(e)))

\* Of adjacent equal elements the first stays
Unique(q) ==
  LET s == content[q]
      kept == SetToSortSeq({i \in DOMAIN s : i = 1 \/ Rank[s[i]] # Rank[s[i - 1]]}, <)
  IN  Become(q, [i \in DOMAIN kept |-> s[kept[i]]])

\* Elements j to k of o move in front of element i of q
Splice(q, i, o, j, k) ==
  LET s == content[o]
  IN  content' = [content EXCEPT
        ![q] = SubSeq(@, 1, i - 1) \o SubSeq(s, j, k) \o SubSeq(@, i, Len(@)),
        ![o] = SubSeq(s, 1, j - 1) \o SubSeq(s, k + 1, Len(s))]

Ordered(s) == \A i, j \in DOMAIN s : i < j => Rank[s[i]] <= Rank[s[j]]

\* Of elements that are equal, those of q come first, and none overtakes
\* another
Merge(q, o) ==
  LET Insertion(s, e) ==
        LET greater == SelectInSeq(s, LAMBDA x : Rank[x] > Rank[e])
        IN  IF greater = 0 THEN Append(s, e) ELSE InsertAt(s, greater, e)
  IN  content' = [content EXCEPT ![q] = FoldLeft(Insertion, @, content[o]),
                                 ![o] = << >>]

\* The same elements, in order; equal ones in any
Sort(q) ==
  /\ \A p \in Object \ {q} : content'[p] = content[p]
  /\ Ordered(content'[q])
  /\ ToBag(content'[q]) = ToBag(content[q])

=============================================================================
