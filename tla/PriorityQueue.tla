---------------------------- MODULE PriorityQueue ----------------------------
(***************************************************************************)
(* priority_queue of c_queue.h: a heap in a container that is a sequence   *)
(* (a vector, see there).  Indices are the code's, from 0 on.              *)
(***************************************************************************)
EXTENDS Integers, SequencesExt

CONSTANTS Value,         \* the values of elements, ordered by less<>
          Object,        \* the queue objects
          MaxSize,       \* bound: elements of a queue while no other has any
          MaxShared      \* bound: elements of all queues otherwise

VARIABLE heap            \* _baseContainer of each queue

Heap == UNION {[0 .. n - 1 -> Value] : n \in 0 .. MaxSize}

TypeOK == heap \in [Object -> Heap]

Size(h) == Cardinality(DOMAIN h)

Swapped(h, i, j) == [h EXCEPT ![i] = h[j], ![j] = h[i]]

\* _heap_get_parent
Parent(i) == IF i > 0 THEN (i + 1) \div 2 - 1 ELSE i

\* Mutation: the element at the boundary is no child
MaxChildBefore(h, i) ==
  LET left == 2 * (i + 1) - 1
      right == left + 1
  IN  IF right >= Size(h) THEN i
      ELSE IF h[right] < h[left] THEN left ELSE right

\* _heap_get_max_child
MaxChild(h, i) ==
  LET left == 2 * (i + 1) - 1
      right == left + 1
  IN  IF left + right >= 2 * Size(h) THEN i
      ELSE IF right >= Size(h) THEN left
      ELSE IF h[right] < h[left] THEN left ELSE right

\* _heap_push_adjust: the element at i rises
Risen(h, i) ==
  LET rise[a \in [heap : Heap, at : 0 .. MaxSize]] ==
        IF a.at > 0 /\ a.heap[Parent(a.at)] < a.heap[a.at]
        THEN rise[[heap |-> Swapped(a.heap, Parent(a.at), a.at), at |-> Parent(a.at)]]
        ELSE a.heap
  IN  rise[[heap |-> h, at |-> i]]

\* _heap_pop_adjust: the element at 0 sinks
Sunk(h) ==
  LET sink[a \in [heap : Heap, at : 0 .. MaxSize]] ==
        LET child == MaxChild(a.heap, a.at)
        IN  IF a.heap[a.at] < a.heap[child]
            THEN sink[[heap |-> Swapped(a.heap, child, a.at), at |-> child]]
            ELSE a.heap
  IN  IF Size(h) = 0 THEN h ELSE sink[[heap |-> h, at |-> 0]]

-----------------------------------------------------------------------------
(* The operations.                                                         *)

Init == heap = [q \in Object |-> << >>]

\* May q have n elements?
Room(q, n) ==
  LET others == SumFunctionOnSet([p \in Object |-> Size(heap[p])], Object \ {q})
  IN  n <= IF others = 0 THEN MaxSize ELSE MaxShared - others

\* emplace: the new element is appended and rises
Emplace(q, v) ==
  LET n == Size(heap[q])
      longer == [i \in 0 .. n |-> IF i = n THEN v ELSE heap[q][i]]
  IN  /\ Room(q, n + 1)
      /\ heap' = [heap EXCEPT ![q] = Risen(longer, n)]

\* pop: the first and the last element change places, the last one goes
Pop(q) ==
  LET last == Size(heap[q]) - 1
      swapped == Swapped(heap[q], 0, last)
  IN  /\ last >= 0
      /\ heap' = [heap EXCEPT ![q] = Sunk([i \in 0 .. last - 1 |-> swapped[i]])]

Clear(q) == heap' = [heap EXCEPT ![q] = << >>]

CopyAssign(q, o) ==
  /\ Room(q, Size(heap[o]))
  /\ heap' = [heap EXCEPT ![q] = heap[o]]

MoveAssign(q, o) ==
  /\ q # o
  /\ heap' = [heap EXCEPT ![q] = heap[o], ![o] = << >>]

Next ==
  \/ \E q \in Object :
       \/ \E v \in Value : Emplace(q, v)
       \/ Pop(q) \/ Clear(q)
  \/ \E q, o \in Object : CopyAssign(q, o) \/ MoveAssign(q, o)

Spec == Init /\ [][Next]_heap

-----------------------------------------------------------------------------
(* Properties.                                                             *)

\* The element front() names, and the others from the greatest to the least
Promised(h) ==
  IF Size(h) = 0 THEN << >>
  ELSE << h[0] >> \o SortSeq([i \in 1 .. Size(h) - 1 |-> h[i]], >)

Abstract ==
  INSTANCE AbstractSequence WITH content <- [q \in Object |-> Promised(heap[q])]

\* Where v belongs among what q promises
Place(q, v) ==
  1 + Cardinality({i \in DOMAIN heap[q] : heap[q][i] > v})

\* A queue is what is in it, the greatest first: whatever shape the heap has,
\* emplace puts an element in its place, front() is the greatest, and pop
\* takes that one away and no other.
Implementing ==
  /\ \A q \in Object :
       /\ \A v \in Value : Emplace(q, v) => Abstract!Insert(q, Place(q, v), v)
       /\ Pop(q) => Abstract!Erase(q, 1)
       /\ Clear(q) => Abstract!Become(q, << >>)
  /\ \A q, o \in Object :
       /\ CopyAssign(q, o) => Abstract!Become(q, Promised(heap[o]))
       /\ MoveAssign(q, o) => Abstract!Move(q, o)

ImplementsQueue == Abstract!Init /\ [][Implementing]_heap

=============================================================================
