------------------------------- MODULE Deque -------------------------------
(***************************************************************************)
(* deque of c_deque.h: a circular map of pointers to blocks, of which an   *)
(* element takes the cell at its offset: iterators are offsets, _First is  *)
(* that of the first element, and grows without ever being reduced while   *)
(* elements leave at the front.                                            *)
(*                                                                         *)
(* A cell holds a value, or is raw memory, or holds what a move left.  A   *)
(* deque that was moved from has no map.                                   *)
(***************************************************************************)
EXTENDS Integers, Sequences, FiniteSetsExt

CONSTANTS Value,         \* the values of elements
          Object,        \* the deque objects
          Null,          \* no block
          Raw,           \* a cell that holds no object
          Moved,         \* a cell whose object was moved from
          BlockSize,     \* _BLOCK_SIZE
          DefaultCapacity,\* _DEFAULT_CAPACITY
          MaxSize,       \* bound: elements of a deque while no other has blocks
          MaxShared      \* bound: those of one and the blocks of the others
                         \* otherwise, and elements that are copied

VARIABLE deque           \* the map, _First and _Size of each deque

Cell == Value \cup {Raw, Moved}
Block == [0 .. BlockSize - 1 -> Cell]

\* _MapCapacity
Capacity(d) == Cardinality(DOMAIN d.map)

TypeOK ==
  \A q \in Object :
    /\ DOMAIN deque[q] = {"map", "first", "size"}
    /\ DOMAIN deque[q].map = 0 .. Capacity(deque[q]) - 1
    /\ \A i \in DOMAIN deque[q].map : deque[q].map[i] \in Block \cup {Null}
    /\ deque[q].first \in Nat /\ deque[q].size \in Nat

-----------------------------------------------------------------------------
(* Cells.                                                                  *)

\* get_block
BlockAt(d, offset) == (offset \div BlockSize) % Capacity(d)

Read(d, offset) == d.map[BlockAt(d, offset)][offset % BlockSize]

Write(d, offset, cell) ==
  [d EXCEPT !.map[BlockAt(d, offset)][offset % BlockSize] = cell]

\* The block of an offset is there, or is allocated
Allocated(d, offset) ==
  [d EXCEPT !.map[BlockAt(d, offset)] =
     IF @ = Null THEN [i \in 0 .. BlockSize - 1 |-> Raw] ELSE @]

\* _init_map: at least the default capacity
InitMap(n) ==
  [map |-> [i \in 0 .. Max({n, DefaultCapacity}) - 1 |-> Null],
   first |-> 0, size |-> 0]

\* Mutation: the blocks keep their places in the new map
ReservedInPlace(d, n) ==
  [map |-> [i \in 0 .. n - 1 |-> IF i < Capacity(d) THEN d.map[i] ELSE Null],
   first |-> d.first % (Capacity(d) * BlockSize),
   size |-> d.size]

\* _reserve: the blocks from that of the first element to that of the last
\* go to the beginning of a new map; the others are freed
Reserved(d, n) ==
  LET first == BlockAt(d, d.first)
      last == BlockAt(d, d.first + d.size - 1)
      taken == (last - first) % Capacity(d)
  IN  [map |-> [i \in 0 .. n - 1 |->
                  IF i <= taken THEN d.map[(first + i) % Capacity(d)] ELSE Null],
       first |-> d.first % BlockSize,
       size |-> d.size]

\* _extend_if_full: one block less than the map has, so that the first and the
\* last element are never in the same block with the last one in front
ExtendIfFull(d) ==
  IF Capacity(d) = 0 THEN InitMap(DefaultCapacity)
  ELSE IF d.size >= (Capacity(d) - 1) * BlockSize
  THEN Reserved(d, 2 * Capacity(d)) ELSE d

-----------------------------------------------------------------------------
(* Both ends.                                                              *)

PushedBack(d, v) ==
  LET e == ExtendIfFull(d)
      back == e.first + e.size
  IN  [Write(Allocated(e, back), back, v) EXCEPT !.size = @ + 1]

PushedFront(d, v) ==
  LET e == ExtendIfFull(d)
      front == (IF e.first = 0 THEN Capacity(e) * BlockSize ELSE e.first) - 1
  IN  [Write(Allocated(e, front), front, v) EXCEPT !.size = @ + 1, !.first = front]

\* Mutation: the cell behind the last element is destroyed
PoppedBehind(d) ==
  [Write(Allocated(d, d.first + d.size), d.first + d.size, Raw)
     EXCEPT !.size = @ - 1, !.first = IF d.size = 1 THEN 0 ELSE @]

PoppedBack(d) ==
  [Write(d, d.first + d.size - 1, Raw)
     EXCEPT !.size = @ - 1, !.first = IF d.size = 1 THEN 0 ELSE @]

PoppedFront(d) ==
  [Write(d, d.first, Raw)
     EXCEPT !.size = @ - 1, !.first = IF d.size = 1 THEN 0 ELSE @ + 1]

\* *to = move(*from)
MovedCell(d, to, from) == Write(Write(d, to, Read(d, from)), from, Moved)

\* Each cell of the sequence p of offsets takes what the next one holds, the
\* first one first
MovedAlong(d, p) ==
  LET moved[k \in 1 .. Len(p)] ==
        IF k = 1 THEN d ELSE MovedCell(moved[k - 1], p[k - 1], p[k])
  IN  moved[Len(p)]

\* The elements behind offset from, up to offset to, move one to the front
ShiftedDown(d, from, to) ==
  MovedAlong(d, [i \in 1 .. to - from + 1 |-> from + i - 1])

\* The elements before offset from, down to offset to, move one to the back
ShiftedUp(d, from, to) ==
  MovedAlong(d, [i \in 1 .. from - to + 1 |-> from - i + 1])

\* emplace: the new element enters at the nearer end, is taken out, and the
\* elements between make room for it
Emplaced(d, off, v) ==
  IF off <= d.size \div 2
  THEN LET e == PushedFront(d, v)
           m == ShiftedDown(Write(e, e.first, Moved), e.first, e.first + off)
       IN  Write(m, e.first + off, Read(e, e.first))
  ELSE LET e == PushedBack(d, v)
           last == e.first + e.size - 1
           m == ShiftedUp(Write(e, last, Moved), last, e.first + off)
       IN  Write(m, e.first + off, Read(e, last))

\* erase: the elements on the nearer side close the gap
Erased(d, off) ==
  IF off <= d.size \div 2
  THEN PoppedFront(ShiftedUp(d, d.first + off, d.first))
  ELSE PoppedBack(ShiftedDown(d, d.first + off, d.first + d.size - 1))

\* The elements of s are appended, one at a time
Appended(d, s) ==
  LET appended[i \in 0 .. Len(s)] ==
        IF i = 0 THEN d ELSE PushedBack(appended[i - 1], s[i])
  IN  appended[Len(s)]

\* The last n elements leave, one at a time
Shortened(d, n) ==
  LET shorter[i \in 0 .. n] == IF i = 0 THEN d ELSE PoppedBack(shorter[i - 1])
  IN  shorter[n]

\* clear: every element is destroyed, every block freed, the map stays
Cleared(d) == [map |-> [i \in DOMAIN d.map |-> Null], first |-> 0, size |-> 0]

-----------------------------------------------------------------------------
(* The operations.                                                         *)

Init == deque = [q \in Object |-> InitMap(DefaultCapacity)]

\* The blocks of d
Blocks(d) == {b \in DOMAIN d.map : d.map[b] # Null}

\* May q have n elements?
Room(q, n) ==
  LET others == SumFunctionOnSet([p \in Object |-> Cardinality(Blocks(deque[p]))],
                                 Object \ {q})
  IN  n <= IF others = 0 THEN MaxSize ELSE MaxShared - others

\* May the front of q move on?
Wanders(q) == deque[q].first < Capacity(deque[q]) * BlockSize

EmplaceBack(q, v) ==
  /\ Room(q, deque[q].size + 1)
  /\ deque' = [deque EXCEPT ![q] = PushedBack(@, v)]

EmplaceFront(q, v) ==
  /\ Room(q, deque[q].size + 1)
  /\ deque' = [deque EXCEPT ![q] = PushedFront(@, v)]

PopBack(q) ==
  /\ deque[q].size > 0
  /\ deque' = [deque EXCEPT ![q] = PoppedBack(@)]

PopFront(q) ==
  /\ deque[q].size > 0 /\ Wanders(q)
  /\ deque' = [deque EXCEPT ![q] = PoppedFront(@)]

Emplace(q, off, v) ==
  /\ Room(q, deque[q].size + 1)
  /\ deque' = [deque EXCEPT ![q] = Emplaced(@, off, v)]

Erase(q, off) ==
  /\ Wanders(q)
  /\ deque' = [deque EXCEPT ![q] = Erased(@, off)]

\* resize: to n elements, the new ones equal to v
Resize(q, n, v) ==
  /\ Room(q, n)
  /\ deque' = [deque EXCEPT ![q] =
       IF @.size < n THEN Appended(@, [i \in 1 .. n - @.size |-> v])
                     ELSE Shortened(@, @.size - n)]

Clear(q) == deque' = [deque EXCEPT ![q] = Cleared(@)]

\* The values an iterator visits
Content(q) ==
  [i \in 1 .. deque[q].size |-> Read(deque[q], deque[q].first + i - 1)]

\* Copy construction and assignment: a map as large as that of o, with the
\* elements at its beginning.  Two deques without map are left as they are.
CopyAssign(q, o) ==
  /\ q # o
  /\ deque[o].size <= MaxShared
  /\ Capacity(deque[q]) + Capacity(deque[o]) > 0
  /\ deque' = [deque EXCEPT ![q] =
                 Appended(InitMap(Capacity(deque[o])), Content(o))]

MoveAssign(q, o) ==
  /\ q # o
  /\ deque' = [deque EXCEPT ![q] = deque[o],
                            ![o] = [map |-> << >>, first |-> 0, size |-> 0]]

Next ==
  \/ \E q \in Object, v \in Value :
       \/ EmplaceBack(q, v) \/ EmplaceFront(q, v)
       \/ \E off \in 1 .. deque[q].size - 1 : Emplace(q, off, v)
       \/ \E n \in 0 .. MaxSize : Resize(q, n, v)
  \/ \E q \in Object :
       \/ PopBack(q) \/ PopFront(q) \/ Clear(q)
       \/ \E off \in 0 .. deque[q].size - 1 : Erase(q, off)
  \/ \E q, o \in Object : CopyAssign(q, o) \/ MoveAssign(q, o)

Spec == Init /\ [][Next]_deque

-----------------------------------------------------------------------------
(* Properties.                                                             *)

\* However the elements wander through the circle, shift, or change maps:
\* there is an object in the cell of every element, not one that was moved
\* from, and in no other cell of any block, so each is destroyed once.
CellsExact ==
  \A q \in Object :
    LET d == deque[q]
        used == Blocks(d)
        constructed == {c \in used \X (0 .. BlockSize - 1) : d.map[c[1]][c[2]] # Raw}
    IN  /\ \A i \in 1 .. d.size : BlockAt(d, d.first + i - 1) \in used
        /\ Content(q) \in Seq(Value)
        /\ Cardinality(constructed) = d.size

Abstract == INSTANCE AbstractSequence WITH content <- [q \in Object |-> Content(q)]

\* Each operation does to the values an iterator visits what it does to a
\* sequence, whatever block the first one is in and whenever the map grows.
Implementing ==
  /\ \A q \in Object, v \in Value :
       LET end == deque[q].size + 1
       IN  /\ EmplaceBack(q, v) => Abstract!Insert(q, end, v)
           /\ EmplaceFront(q, v) => Abstract!Insert(q, 1, v)
           /\ \A off \in 1 .. deque[q].size - 1 :
                Emplace(q, off, v) => Abstract!Insert(q, off + 1, v)
           /\ \A n \in 0 .. MaxSize :
                Resize(q, n, v) =>
                  Abstract!Resize(q, Min({n, deque[q].size}),
                                  [i \in 1 .. n - deque[q].size |-> v])
  /\ \A q \in Object :
       /\ PopBack(q) => Abstract!Erase(q, deque[q].size)
       /\ PopFront(q) => Abstract!Erase(q, 1)
       /\ \A off \in 0 .. deque[q].size - 1 :
            Erase(q, off) => Abstract!Erase(q, off + 1)
       /\ Clear(q) => Abstract!Become(q, << >>)
  /\ \A q, o \in Object :
       /\ CopyAssign(q, o) => Abstract!Become(q, Content(o))
       /\ MoveAssign(q, o) => Abstract!Move(q, o)

ImplementsSequence == Abstract!Init /\ [][Implementing]_deque

=============================================================================
