---------------------------- MODULE MCContainers ----------------------------
(***************************************************************************)
(* The containers and functions that share no state, checked in one run:   *)
(* the initial state chooses the subject, whose operations are then the    *)
(* only ones.                                                              *)
(***************************************************************************)
EXTENDS HashTable, Arrays

CONSTANTS object1, object2

VARIABLES subject,
          links, head, size,   \* of List
          next, forwardHead, forwardSize,   \* of ForwardList
          heap,                \* of PriorityQueue
          val1, val2,          \* of Numbers
          range1, range2       \* of Algorithms

Objects == {object1, object2}
Bit == {0, 1}

\* No block used, a part of one, all of the second, a part of the third
SomeSizes == {0, 1, 4, 5}

\* Keys that share a bucket of 2, of 4 and of 8, and keys that do not
Keys == {0, 1, 2, 4, 8}
Hashes == [k \in Keys |-> k]

\* Two pairs of elements of one value, and one that is its own copy
L == INSTANCE List WITH Elem <- 1 .. 5, Rank <- << 1, 2, 0, 1, 2 >>,
                        Twin <- << 4, 5, 3, 1, 2 >>, Object <- Objects,
                        MergesIntoEmpty <- FALSE

F == INSTANCE ForwardList WITH Elem <- 1 .. 4, Rank <- << 1, 2, 1, 2 >>,
                               Twin <- << 3, 4, 1, 2 >>, Object <- Objects,
                               head <- forwardHead, size <- forwardSize

\* A heap of four levels, the last one begun
P == INSTANCE PriorityQueue WITH Value <- 1 .. 3, Object <- Objects,
                                 MaxSize <- 8, MaxShared <- 3

\* Periods that are the same, coarser, and finer with and without a middle
N == INSTANCE Numbers WITH Width <- 4,
                           Ratios <- {<< 1, 1 >>, << 3, 1 >>, << 1, 3 >>, << 1, 4 >>}

A == INSTANCE Algorithms WITH Value <- 0 .. 2, MaxFirst <- 4, MaxSecond <- 3

hashTableVars == << table, borrowing >>
listVars == << links, head, size >>
forwardListVars == << next, forwardHead, forwardSize >>
numberVars == << val1, val2 >>
rangeVars == << range1, range2 >>

Subject == {"hash table", "list", "forward_list", "deque", "vector", "string",
            "priority_queue", "bitset", "numbers", "algorithms"}

AllInit ==
  /\ subject \in Subject
  /\ Init /\ L!Init /\ F!Init /\ D!Init /\ V!Init /\ S!Init /\ P!Init
  /\ N!Init /\ A!Init
  /\ IF subject = "bitset" THEN B!Init ELSE Bits = 0 /\ array = << >>

\* The steps of one subject leave the variables of all others alone
Others(mine) ==
  /\ UNCHANGED subject
  /\ IF mine = "hash table" THEN TRUE ELSE UNCHANGED hashTableVars
  /\ IF mine = "list" THEN TRUE ELSE UNCHANGED listVars
  /\ IF mine = "forward_list" THEN TRUE ELSE UNCHANGED forwardListVars
  /\ IF mine = "deque" THEN TRUE ELSE UNCHANGED deque
  /\ IF mine = "vector" THEN TRUE ELSE UNCHANGED vector
  /\ IF mine = "string" THEN TRUE ELSE UNCHANGED string
  /\ IF mine = "priority_queue" THEN TRUE ELSE UNCHANGED heap
  /\ IF mine = "bitset" THEN TRUE ELSE UNCHANGED bits
  /\ IF mine = "numbers" THEN TRUE ELSE UNCHANGED numberVars
  /\ IF mine = "algorithms" THEN TRUE ELSE UNCHANGED rangeVars

allVars == << subject, hashTableVars, listVars, forwardListVars, deque, vector,
              string, heap, bits, numberVars, rangeVars >>

AllNext ==
  \/ subject = "hash table" /\ Next /\ Others("hash table")
  \/ subject = "list" /\ L!Next /\ Others("list")
  \/ subject = "forward_list" /\ F!Next /\ Others("forward_list")
  \/ subject = "deque" /\ D!Next /\ Others("deque")
  \/ subject = "vector" /\ V!Next /\ Others("vector")
  \/ subject = "string" /\ S!Next /\ Others("string")
  \/ subject = "priority_queue" /\ P!Next /\ Others("priority_queue")
  \/ subject = "bitset" /\ B!Next /\ Others("bitset")
  \/ subject = "numbers" /\ N!Next /\ Others("numbers")
  \/ subject = "algorithms" /\ A!Next /\ Others("algorithms")

AllSpec == AllInit /\ [][AllNext]_allVars

Symmetry == Permutations(Objects)

-----------------------------------------------------------------------------
(* The properties of the modules, stated there, each for its subject; those *)
(* of deque, vector, string and bitset are in Arrays.                      *)

\* Hash table, list and forward_list: each node is linked in one container, at
\* the place it belongs to, and as many of them are found as its size says
LinksExact ==
  /\ BucketsExact
  /\ subject = "list" => L!LinksAgree
  /\ subject = "forward_list" => F!LinksAgree

\* Numbers and algorithms: what a call returns, or leaves in the array, is what
\* the definition of the function says, for all arguments in the bounds
MeetsReferences ==
  /\ subject = "numbers" => N!MeetsReferences
  /\ subject = "algorithms" => A!MeetsReferences

\* list and forward_list do to the elements an iterator visits what a sequence
\* does, whatever the order in which a forward_list is resized or copied
ListsImplementSequence ==
  /\ L!Abstract!Init /\ [][subject = "list" => L!Implementing]_listVars
  /\ F!Abstract!Init /\ [][subject = "forward_list" => F!Implementing]_forwardListVars

\* forward_list: resize works at the tail, and copies are in order
ForwardListKeepsOrder == [][subject = "forward_list" => F!KeepsOrder]_forwardListVars

\* priority_queue hands out the greatest element, and loses none
ImplementsQueue ==
  P!Abstract!Init /\ [][subject = "priority_queue" => P!Implementing]_heap

=============================================================================
