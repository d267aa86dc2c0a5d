---------------------------- MODULE SearchTree ----------------------------
(***************************************************************************)
(* _Search_Tree of x_search_tree.h, the red-black tree under map and set:  *)
(* nodes with parent, child and colour links and a head node that stands   *)
(* for every missing child, whose own links lead to the root and to the    *)
(* first and the last node.                                                *)
(*                                                                         *)
(* An operation that changes the shape of the tree is one step up to the   *)
(* loop that repairs it and one step per turn of that loop.  The branches  *)
(* for left and right are written once, for a side and the opposite one.   *)
(* A tree has one node per key, which is named by its key; mapped values   *)
(* play no part.                                                           *)
(***************************************************************************)
EXTENDS Integers, FiniteSets

CONSTANTS Key,           \* the keys, integers ordered by _less
          Nil,           \* the head node, the only one with _IsNil; no key
          Null,          \* nullptr, in the links of memory that is freed
          Map,           \* the map objects
          MaxNodes,      \* bound: nodes of a tree while no other is in use
          MaxShared      \* bound: nodes of all trees otherwise

VARIABLES tree,          \* the tree of each map
          call           \* the operation that is running

ASSUME TreeAssumption ==
  /\ Key \subseteq Int /\ IsFiniteSet(Key)
  /\ Nil \notin Key
  /\ Null \notin Key \cup {Nil}
  /\ MaxNodes \in Nat /\ MaxShared \in Nat

vars == << tree, call >>

Node == Key \cup {Nil}
Side == {"left", "right"}
Opposite(s) == IF s = "left" THEN "right" ELSE "left"

Tree ==
  [ parent : [Node -> Node \cup {Null}],
    left   : [Node -> Node \cup {Null}],
    right  : [Node -> Node \cup {Null}],
    color  : [Node -> {"red", "black"}],
    size   : 0 .. Cardinality(Key) ]

Idle == [at |-> "idle"]
Crashed == [at |-> "crashed"]

Call ==
  { Idle, Crashed }
    \cup [at : {"fixInsert"}, this : Map, node : Key]
    \cup [at : {"fixErase", "unlink"},
          this : Map, old : Key, next : Node, fix : Key]

TypeOK == tree \in [Map -> Tree] /\ call \in Call

-----------------------------------------------------------------------------
(* Reading a tree.                                                         *)

Root(t) == t.parent[Nil]

\* The nodes in use: free memory has no links
Live(t) == {k \in Key : t.left[k] # Null}

IsLeaf(t, n) == t.left[n] = Nil /\ t.right[n] = Nil

SideOf(t, n) == IF n = t.left[t.parent[n]] THEN "left" ELSE "right"

\* leftmost, rightmost: the last node on side s of the subtree at n
Extreme(t, s, n) ==
  LET from[m \in Node] == IF t[s][m] = Nil THEN m ELSE from[t[s][m]]
  IN  from[n]

\* The first node above n of which n is not on side s
Climb(t, s, n) ==
  LET from[m \in Node] ==
        LET up == t.parent[m]
        IN  IF up # Nil /\ m = t[s][up] THEN from[up] ELSE up
  IN  from[n]

\* operator++ (s = "right") and operator-- (s = "left") of the iterator at n
Advance(t, s, n) ==
  IF t[s][n] # Nil THEN Extreme(t, Opposite(s), t[s][n]) ELSE Climb(t, s, n)

\* Mutation: the right child, not the leftmost node below it
InOrderChild(t, n) ==
  IF t.right[n] # Nil THEN t.right[n] ELSE Extreme(t, "left", n)

\* _in_order_successor: the next node, or the one below that is a leaf
InOrderSuccessor(t, n) ==
  IF t.right[n] # Nil THEN Extreme(t, "left", t.right[n])
                      ELSE Extreme(t, "left", n)

\* The node of k, or Nil
Find(t, k) ==
  LET from[n \in Node] ==
        IF n = Nil \/ n = k THEN n
        ELSE from[IF k < n THEN t.left[n] ELSE t.right[n]]
  IN  from[Root(t)]

\* Where the new node k goes in a tree that is not empty
InsertionSlot(t, k) ==
  LET from[n \in Node] ==
        LET s == IF k < n THEN "left" ELSE "right"
        IN  IF t[s][n] = Nil THEN [parent |-> n, child |-> s]
                              ELSE from[t[s][n]]
  IN  from[Root(t)]

-----------------------------------------------------------------------------
(* Changing a tree.                                                        *)

EmptyTree ==
  [ parent |-> [n \in Node |-> IF n = Nil THEN Nil ELSE Null],
    left   |-> [n \in Node |-> IF n = Nil THEN Nil ELSE Null],
    right  |-> [n \in Node |-> IF n = Nil THEN Nil ELSE Null],
    color  |-> [n \in Node |-> IF n = Nil THEN "black" ELSE "red"],
    size   |-> 0 ]

Paint(t, n, c) == [t EXCEPT !.color[n] = c]

\* The link from the parent of n now leads to p
Relink(t, n, p) ==
  IF t.parent[n] = Nil THEN [t EXCEPT !.parent[Nil] = p]
                       ELSE [t EXCEPT ![SideOf(t, n)][t.parent[n]] = p]

\* c knows that p is its parent; the head stays as it is
Adopt(t, p, c) == IF c = Nil THEN t ELSE [t EXCEPT !.parent[c] = p]

\* _rotate_left and _rotate_right: n goes down on side s, and its child on
\* the other side takes its place
Rotate(t, n, s) ==
  LET p == t[Opposite(s)][n]
      inner == t[s][p]
  IN  [Adopt(Relink(t, n, p), n, inner) EXCEPT ![Opposite(s)][n] = inner,
                                               ![s][p] = n,
                                               !.parent[p] = t.parent[n],
                                               !.parent[n] = p]

SwapChildren(t, m, n, s) ==
  Adopt(Adopt([t EXCEPT ![s][m] = t[s][n], ![s][n] = t[s][m]], m, t[s][n]),
        n, t[s][m])

\* m and n trade places, which may be next to each other: the link of the
\* parent m of n is then turned to m itself, and the exchange of the
\* children turns it to n
Transplant(t, m, n) ==
  LET up == Relink(Relink(t, m, n), n, m)
      parents == [up EXCEPT !.parent[m] = up.parent[n],
                            !.parent[n] = up.parent[m]]
      children == SwapChildren(SwapChildren(parents, m, n, "left"), m, n, "right")
  IN  [children EXCEPT !.color[m] = t.color[n], !.color[n] = t.color[m]]

\* _free_common_node
Free(t, n) ==
  [Relink(t, n, Nil) EXCEPT !.parent[n] = Null, !.left[n] = Null,
                             !.right[n] = Null, !.color[n] = "red"]

\* The head leads to the first and the last node again
RelinkHead(t) ==
  [t EXCEPT !.left[Nil] = Extreme(t, "left", Root(t)),
            !.right[Nil] = Extreme(t, "right", Root(t))]

\* _copy and _copy_all: new nodes of the same shape and colours
Copied(t) ==
  LET root == Root(t)
      parentOf(n) == IF n = root THEN Nil
                     ELSE CHOOSE p \in Live(t) : n \in {t.left[p], t.right[p]}
      copy == [t EXCEPT !.parent = [n \in Node |->
                            IF n = Nil THEN root
                            ELSE IF n \in Live(t) THEN parentOf(n) ELSE Null],
                        !.left[Nil] = Nil,
                        !.right[Nil] = Nil]
  IN  RelinkHead(copy)

-----------------------------------------------------------------------------
(* Whole-map operations.                                                   *)

Init ==
  /\ tree = [m \in Map |-> EmptyTree]
  /\ call = Idle

\* May m have n nodes?
Room(m, n) ==
  LET others == Map \ {m}
      used == {<< o, k >> \in others \X Key : k \in Live(tree[o])}
  IN  IF \A o \in others : tree[o] = EmptyTree THEN n <= MaxNodes
      ELSE n + Cardinality(used) <= MaxShared

Clear(m) ==
  /\ call = Idle
  /\ UNCHANGED call
  /\ tree' = [tree EXCEPT ![m] = EmptyTree]

\* Copy construction and copy assignment of m from o; of a map from itself
\* nothing changes
CopyAssign(m, o) ==
  /\ call = Idle
  /\ m # o
  /\ Room(m, tree[o].size)
  /\ UNCHANGED call
  /\ tree' = [tree EXCEPT ![m] = Copied(tree[o])]

\* Move construction and move assignment: m is cleared, then the heads are
\* exchanged
MoveAssign(m, o) ==
  /\ call = Idle
  /\ m # o
  /\ UNCHANGED call
  /\ tree' = [tree EXCEPT ![m] = tree[o], ![o] = EmptyTree]

-----------------------------------------------------------------------------
(* emplace, try_emplace and operator[].                                    *)

\* The links of a red leaf k at position slot
LinkLeaf(t, k, slot) ==
  [t EXCEPT !.size = @ + 1,
            !.parent[k] = slot.parent,
            !.left[k] = Nil,
            !.right[k] = Nil,
            ![slot.child][slot.parent] = k,
            ![slot.child][Nil] = IF t[slot.child][Nil] = slot.parent
                                  THEN k ELSE @]

\* The first node is the root, the first and the last one
LinkFirst(t, k) ==
  [t EXCEPT !.size = @ + 1,
            !.parent[k] = Nil, !.left[k] = Nil, !.right[k] = Nil,
            !.parent[Nil] = k, !.left[Nil] = k, !.right[Nil] = k,
            !.color[k] = "black"]

\* A key that is there is found and its new node freed again: nothing
\* changes.  Else the node is linked, and the repair starts from it.
Emplace(m, k) ==
  /\ call = Idle
  /\ Find(tree[m], k) = Nil
  /\ Room(m, tree[m].size + 1)
  /\ tree' = [tree EXCEPT ![m] = IF Root(@) = Nil THEN LinkFirst(@, k)
                                 ELSE LinkLeaf(@, k, InsertionSlot(@, k))]
  /\ call' = [at |-> "fixInsert", this |-> m, node |-> k]

\* The node and its parent are both red
RedRed == /\ call.at = "fixInsert"
          /\ tree[call.this].color[tree[call.this].parent[call.node]] = "red"

\* Case 1, red uncle: the grandparent passes its black on to both children
\* and is the next to look at
RecolorUncle ==
  /\ RedRed
  /\ LET t == tree[call.this]
         up == t.parent[call.node]
         top == t.parent[up]
         uncle == t[Opposite(SideOf(t, up))][top]
     IN  /\ t.color[uncle] = "red"
         /\ tree' = [tree EXCEPT ![call.this] =
                       [@ EXCEPT !.color[up] = "black", !.color[uncle] = "black",
                                 !.color[top] = "red"]]
         /\ call' = [call EXCEPT !.node = top]

\* Mutation: the triangle is rotated like a line
RotateTriangleOnce ==
  /\ RedRed
  /\ LET t == tree[call.this]
         up == t.parent[call.node]
         top == t.parent[up]
         s == SideOf(t, up)
     IN  /\ t.color[t[Opposite(s)][top]] = "black"
         /\ tree' = [tree EXCEPT ![call.this] =
              Rotate(Paint(Paint(t, up, "black"), top, "red"), top, Opposite(s))]
         /\ call' = call

\* Cases 2 and 3, black uncle: a triangle is first made a line, whose middle
\* then becomes the black parent of the other two
RotateUncle ==
  /\ RedRed
  /\ LET t == tree[call.this]
         up == t.parent[call.node]
         top == t.parent[up]
         s == SideOf(t, up)
         triangle == call.node # t[s][up]
         line == IF triangle THEN Rotate(t, up, s) ELSE t
         node == IF triangle THEN up ELSE call.node
         middle == line.parent[node]
     IN  /\ t.color[t[Opposite(s)][top]] = "black"
         /\ tree' = [tree EXCEPT ![call.this] =
              Rotate(Paint(Paint(line, middle, "black"), top, "red"),
                     top, Opposite(s))]
         /\ call' = [call EXCEPT !.node = node]

\* The loop is over, and the root is painted black
EndInsert ==
  /\ call.at = "fixInsert" /\ ~RedRed
  /\ tree' = [tree EXCEPT ![call.this] = Paint(@, Root(@), "black")]
  /\ call' = Idle

-----------------------------------------------------------------------------
(* erase.                                                                  *)

\* A node that is not a leaf trades places with one below it until it is
RECURSIVE Sunk(_, _)
Sunk(t, n) ==
  IF IsLeaf(t, n) THEN t ELSE Sunk(Transplant(t, n, InOrderSuccessor(t, n)), n)

\* Mutation: the iterator to return is read off the erased node's child
EraseByChild(m, k) ==
  /\ call = Idle
  /\ Find(tree[m], k) = k
  /\ LET t == Sunk([tree[m] EXCEPT !.size = @ - 1], k)
     IN  /\ tree' = [tree EXCEPT ![m] = t]
         /\ call' = [at |-> IF t.color[k] = "black" THEN "fixErase" ELSE "unlink",
                     this |-> m, old |-> k, fix |-> k,
                     next |-> tree[m].right[k]]

\* A key that is not there is not erased: nothing changes.  Else the
\* iterator that will be returned is advanced before the tree changes, and
\* the node is made a leaf.  As a leaf it can go if it is red; a black one
\* leaves a path short of a black node, and the repair starts from it.
Erase(m, k) ==
  /\ call = Idle
  /\ Find(tree[m], k) = k
  /\ LET t == Sunk([tree[m] EXCEPT !.size = @ - 1], k)
     IN  /\ tree' = [tree EXCEPT ![m] = t]
         /\ call' = [at |-> IF t.color[k] = "black" THEN "fixErase" ELSE "unlink",
                     this |-> m, old |-> k, fix |-> k,
                     next |-> Advance(tree[m], "right", k)]

\* The paths through the node fix are short of a black node
Short == /\ call.at = "fixErase"
         /\ call.fix # Root(tree[call.this])
         /\ tree[call.this].color[call.fix] = "black"

\* The first part of a turn of the loop: a red sibling of n on side s is
\* rotated up, so that n gets a black one
BlackSibling(t, n, s) ==
  LET up == t.parent[n]
      sibling == t[Opposite(s)][up]
  IN  IF t.color[sibling] = "black" THEN t
      ELSE Rotate(Paint(Paint(t, sibling, "black"), up, "red"), up, s)

\* Both children of the sibling are black: it turns red, and the paths
\* through the parent are short
BorrowNothing ==
  /\ Short
  /\ LET s == SideOf(tree[call.this], call.fix)
         t == BlackSibling(tree[call.this], call.fix, s)
         up == t.parent[call.fix]
         sibling == t[Opposite(s)][up]
     IN  /\ \A c \in Side : t.color[t[c][sibling]] = "black"
         /\ tree' = [tree EXCEPT ![call.this] = Paint(t, sibling, "red")]
         /\ call' = [call EXCEPT !.fix = up]

\* Mutation: the red child on the near side is not first moved outside
BorrowNear ==
  /\ Short
  /\ LET s == SideOf(tree[call.this], call.fix)
         o == Opposite(s)
         t == BlackSibling(tree[call.this], call.fix, s)
         up == t.parent[call.fix]
         sib == t[o][up]
     IN  /\ \E c \in Side : t.color[t[c][sib]] = "red"
         /\ tree' = [tree EXCEPT ![call.this] =
              Rotate(Paint(Paint(t, sib, t.color[up]), up, "black"), up, s)]
         /\ call' = [call EXCEPT !.at = "unlink"]

\* A child of the sibling is red: it is brought to the far side, and a
\* rotation of the parent gives the short paths one more black node
BorrowRed ==
  /\ Short
  /\ LET s == SideOf(tree[call.this], call.fix)
         o == Opposite(s)
         t == BlackSibling(tree[call.this], call.fix, s)
         up == t.parent[call.fix]
         near == t[o][up]
         outer == IF t.color[t[o][near]] = "red" THEN t
                  ELSE Rotate(Paint(Paint(t, t[s][near], "black"), near, "red"),
                              near, o)
         sib == outer[o][up]
         painted == Paint(Paint(Paint(outer, sib, outer.color[up]),
                                up, "black"),
                          outer[o][sib], "black")
     IN  /\ \E c \in Side : t.color[t[c][near]] = "red"
         /\ tree' = [tree EXCEPT ![call.this] = Rotate(painted, up, s)]
         /\ call' = [call EXCEPT !.at = "unlink"]

\* The loop is over, and the node where it stopped is painted black
StopFixing ==
  /\ call.at = "fixErase" /\ ~Short
  /\ tree' = [tree EXCEPT ![call.this] = Paint(@, call.fix, "black")]
  /\ call' = [call EXCEPT !.at = "unlink"]

\* Mutation: the links of the head are only corrected on the left
UnlinkLeft ==
  /\ call.at = "unlink"
  /\ LET t == Free(tree[call.this], call.old)
     IN  /\ Root(t) # Nil
         /\ tree' = [tree EXCEPT ![call.this] =
                       [t EXCEPT !.left[Nil] = Extreme(t, "left", Root(t))]]
  /\ call' = Idle

\* The erased node is unlinked and freed, and the head corrected
Unlink ==
  /\ call.at = "unlink"
  /\ LET t == Free(tree[call.this], call.old)
     IN  /\ Root(t) # Nil
         /\ tree' = [tree EXCEPT ![call.this] = RelinkHead(t)]
  /\ call' = Idle

\* The only node is gone.  The first and the last one are looked up from the
\* head, whose links still lead to the freed node, and then through the links
\* of that.  Whether those were nulled (the program crashes) or the compiler
\* has dropped the stores to memory about to be freed (the node is found to be
\* the first and the last one) depends on the build.
UnlinkOnly ==
  /\ call.at = "unlink"
  /\ LET t == Free(tree[call.this], call.old)
     IN  /\ Root(t) = Nil
         /\ tree' = [tree EXCEPT ![call.this] = t]
  /\ call' \in {Idle, Crashed}

-----------------------------------------------------------------------------
Repair ==
  \/ RecolorUncle \/ RotateUncle \/ EndInsert
  \/ BorrowNothing \/ BorrowRed \/ StopFixing
  \/ Unlink \/ UnlinkOnly

Next ==
  \/ \E m \in Map : Clear(m)
  \/ \E m, o \in Map : CopyAssign(m, o) \/ MoveAssign(m, o)
  \/ \E m \in Map, k \in Key : Emplace(m, k) \/ Erase(m, k)
  \/ Repair

Spec == Init /\ [][Next]_vars

-----------------------------------------------------------------------------
(* Safety.                                                                 *)

\* The nodes of the subtree at n, walking down at most d levels
RECURSIVE Below(_, _, _)
Below(t, n, d) ==
  IF n \notin Live(t) \/ d = 0 THEN {}
  ELSE {n} \cup Below(t, t.left[n], d - 1) \cup Below(t, t.right[n], d - 1)

Subtree(t, n) == Below(t, n, Cardinality(Key))

\* How many black nodes the paths from n down to a missing child have
RECURSIVE BlackCounts(_, _, _)
BlackCounts(t, n, d) ==
  IF n \notin Live(t) \/ d = 0 THEN {0}
  ELSE {b + (IF t.color[n] = "black" THEN 1 ELSE 0) :
          b \in BlackCounts(t, t.left[n], d - 1)
                 \cup BlackCounts(t, t.right[n], d - 1)}

AtRest == call = Idle

\* Whatever rotations and exchanges an operation made, links up and links
\* down agree when it returns, every node in use hangs on the root, no link
\* leads to a freed one, and _Size counts them.
LinksAgree ==
  AtRest => \A m \in Map :
    LET t == tree[m]
    IN  /\ Subtree(t, Root(t)) = Live(t)
        /\ t.size = Cardinality(Live(t))
        /\ \A k \in Live(t) : /\ {t.left[k], t.right[k]} \subseteq Live(t) \cup {Nil}
                             /\ k = Root(t) <=> t.parent[k] = Nil
                             /\ k # Root(t) => k \in {t.left[t.parent[k]],
                                                     t.right[t.parent[k]]}

\* Between operations the tree is balanced as a red-black tree is: a black
\* root, no red node under a red one, and as many black nodes on each way
\* down.
RedBlack ==
  AtRest => \A m \in Map :
    LET t == tree[m]
    IN  /\ t.color[Root(t)] = "black"
        /\ t.color[Nil] = "black"
        /\ \A k \in Live(t) :
             t.color[k] = "red" => \A s \in Side : t.color[t[s][k]] = "black"
        /\ Cardinality(BlackCounts(t, Root(t), Cardinality(Key))) = 1

\* Every insertion and erasure ends in such a tree
IsRedBlackTree == LinksAgree /\ RedBlack

\* The largest key before k and the smallest one after it, or the head
Before(t, k) ==
  LET smaller == {j \in Live(t) : j < k}
  IN  IF smaller = {} THEN Nil
      ELSE CHOOSE j \in smaller : \A i \in smaller : i <= j

After(t, k) ==
  LET larger == {j \in Live(t) : k < j}
  IN  IF larger = {} THEN Nil
      ELSE CHOOSE j \in larger : \A i \in larger : j <= i

\* The head of a map that is not empty leads to its first and last node, and
\* an iterator that is advanced visits the keys in their order, in both
\* directions.
IteratesInOrder ==
  AtRest => \A m \in Map :
    LET t == tree[m]
    IN  \A k \in Live(t) :
          /\ Advance(t, "right", k) = After(t, k)
          /\ t.left[Nil] # k => Advance(t, "left", k) = Before(t, k)
          /\ After(t, k) = Nil <=> t.right[Nil] = k
          /\ Before(t, k) = Nil <=> t.left[Nil] = k

\* The iterator erase returns was advanced before the tree was rebuilt: when
\* erase returns it leads to the key that follows the erased one.
EraseReturnsNext ==
  [][call.at = "unlink" /\ AtRest' =>
       call.next = After(tree'[call.this], call.old)]_vars

\* The keys find finds in a map.  The erased key counts until it is freed.
Content(m) ==
  LET t == tree[m]
      erasing == call.at \in {"fixErase", "unlink"} /\ call.this = m
  IN  {k \in Key : Find(t, k) = k} \cup (IF erasing THEN {call.old} ELSE {})

Abstract == INSTANCE AbstractMap WITH content <- [m \in Map |-> Content(m)]

\* Each operation does to the keys that are found what it does in the abstract
\* map, when it is called or, to erase, when it unlinks the node; a repair
\* neither moves a key out of the way that leads to it nor loses another.
Implementing ==
  /\ \A m \in Map : Clear(m) => Abstract!Clear(m)
  /\ \A m, o \in Map : /\ CopyAssign(m, o) => Abstract!CopyAssign(m, o)
                      /\ MoveAssign(m, o) => Abstract!MoveAssign(m, o)
  /\ call = Idle /\ call'.at = "fixInsert" => Abstract!Emplace(call'.this, call'.node)
  /\ call = Idle /\ call'.at \in {"fixErase", "unlink"} => Abstract!Hidden
  /\ call.at \in {"fixInsert", "fixErase"} => Abstract!Hidden
  /\ call.at = "unlink" => Abstract!Erase(call.this, call.old)

ImplementsMap == Abstract!Init /\ [][Implementing]_vars

\* x_search_tree.h says of the head that it is the "Helper node used to link
\* min and max elems for iteration": between operations it leads to them, and
\* to itself when there are none.
HeadLinksMinAndMax ==
  AtRest => \A m \in Map :
    LET t == tree[m]
    IN  /\ t.left[Nil] \in Live(t) \cup {Nil}
        /\ t.right[Nil] \in Live(t) \cup {Nil}

-----------------------------------------------------------------------------
(* Termination.                                                            *)

Depth(t, n) ==
  LET depth[m \in Node] == IF m = Nil THEN 0 ELSE 1 + depth[t.parent[m]]
  IN  depth[n]

\* An upper bound on the steps the running operation has still to take
Remaining ==
  CASE call.at = "fixInsert" ->
         IF RedRed THEN 2 + Depth(tree[call.this], call.node) ELSE 1
    [] call.at = "fixErase" ->
         IF Short THEN 2 + Depth(tree[call.this], call.fix) ELSE 2
    [] call.at = "unlink" -> 1
    [] OTHER -> 0

\* The repair loops end: whatever cases follow one another, each turn brings
\* the operation nearer to its end, also where a rotation moves the node at
\* which the next turn starts one level down again.
RepairAdvances == [][Repair => Remaining' < Remaining]_vars

=============================================================================
