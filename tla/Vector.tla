------------------------------- MODULE Vector -------------------------------
(***************************************************************************)
(* vector of c_vector.h: an array of cells, of which the first ones hold   *)
(* elements.                                                               *)
(*                                                                         *)
(* A cell holds a value, or is raw memory, or holds what a move left.      *)
(* Arrays given back are forgotten, and so are the elements that reserve   *)
(* cuts off without destroying them.  Arguments are not elements of the    *)
(* vector they are given to.                                               *)
(***************************************************************************)
EXTENDS Integers, Sequences, FiniteSetsExt

CONSTANTS Value,         \* the values of elements
          DefaultValue,  \* that of value_type()
          Object,        \* the vector objects
          Raw,           \* a cell that holds no object
          Moved,         \* a cell whose object was moved from
          DefaultCapacity,\* _DEFAULT_CAPACITY
          MaxCapacity,   \* bound: the capacities clients ask for
          MaxSize,       \* bound: elements of a vector while no other has any
          MaxShared      \* bound: elements of all vectors otherwise

VARIABLE vector          \* the array of each vector and the number of elements

Capacity(v) == Cardinality(DOMAIN v.cells)

TypeOK ==
  \A q \in Object :
    /\ DOMAIN vector[q] = {"cells", "size"}
    /\ vector[q].cells \in [0 .. Capacity(vector[q]) - 1 -> Value \cup {Raw, Moved}]
    /\ vector[q].size \in 0 .. Capacity(vector[q])

-----------------------------------------------------------------------------
(* Changing the vector v.                                                  *)

\* The cells from a up to, but not including, b hold or become cell
Filled(v, a, b, cell) ==
  [v EXCEPT !.cells =
     [i \in DOMAIN @ |-> IF i \in a .. b - 1 THEN cell ELSE @[i]]]

\* reserve: as many elements as fit are moved to a new array
Reserved(v, n) ==
  LET kept == Min({v.size, n})
  IN  [cells |-> [i \in 0 .. n - 1 |-> IF i < kept THEN v.cells[i] ELSE Raw],
       size |-> kept]

\* _extend_if_full
ExtendIfFull(v) ==
  IF v.size = Capacity(v)
  THEN Reserved(v, Capacity(v) + Capacity(v) \div 2 + 1) ELSE v

PushedBack(v, x) ==
  LET e == ExtendIfFull(v)
  IN  [e EXCEPT !.cells[e.size] = x, !.size = @ + 1]

PoppedBack(v) == [v EXCEPT !.cells[v.size - 1] = Raw, !.size = @ - 1]

\* _First[to] = move(_First[from])
MovedCell(v, to, from) ==
  [v EXCEPT !.cells = [@ EXCEPT ![to] = v.cells[from], ![from] = Moved]]

\* Each cell of the sequence p takes what the next one holds, the first one first
MovedAlong(v, p) ==
  LET moved[k \in 1 .. Len(p)] ==
        IF k = 1 THEN v ELSE MovedCell(moved[k - 1], p[k - 1], p[k])
  IN  moved[Len(p)]

\* The elements from index on move one to the back, the last one first; the
\* one behind them makes room
ShiftedUp(v, index) == MovedAlong(v, [k \in 1 .. v.size - index |-> v.size - k])

\* The elements behind index move one to the front, the first one first
ShiftedDown(v, index) ==
  MovedAlong(v, [k \in 1 .. v.size - index |-> index + k - 1])

\* emplace: a default element is appended to make room for a shift
Emplaced(v, index, x) ==
  [ShiftedUp(PushedBack(v, DefaultValue), index) EXCEPT !.cells[index] = x]

\* erase: those behind the element close the gap, then the last one goes
Erased(v, index) == PoppedBack(ShiftedDown(v, index))

\* resize: the capacity grows to what is needed, and no further
Resized(v, n, x) ==
  LET room == IF n > Capacity(v) THEN Reserved(v, n) ELSE v
  IN  [(IF n < v.size THEN Filled(v, n, v.size, Raw) ELSE Filled(room, v.size, n, x))
         EXCEPT !.size = n]

-----------------------------------------------------------------------------
(* The operations.                                                         *)

Empty(n) == [cells |-> [i \in 0 .. n - 1 |-> Raw], size |-> 0]

\* Default construction
Init == vector = [q \in Object |-> Empty(DefaultCapacity)]

\* May q have n elements?
Room(q, n) ==
  LET others == SumFunctionOnSet([p \in Object |-> vector[p].size], Object \ {q})
  IN  n <= IF others = 0 THEN MaxSize ELSE MaxShared - others

EmplaceBack(q, x) ==
  /\ Room(q, vector[q].size + 1)
  /\ vector' = [vector EXCEPT ![q] = PushedBack(@, x)]

\* Nothing happens to a vector that is empty
PopBack(q) ==
  /\ vector[q].size > 0
  /\ vector' = [vector EXCEPT ![q] = PoppedBack(@)]

\* emplace at any position, the end too
Emplace(q, index, x) ==
  /\ Room(q, vector[q].size + 1)
  /\ vector' = [vector EXCEPT ![q] = Emplaced(@, index, x)]

\* erase; at the end it throws and changes nothing
Erase(q, index) == vector' = [vector EXCEPT ![q] = Erased(@, index)]

\* reserve and shrink_to_fit
Reserve(q, n) == vector' = [vector EXCEPT ![q] = Reserved(@, n)]

Resize(q, n, x) ==
  /\ Room(q, n)
  /\ vector' = [vector EXCEPT ![q] = Resized(@, n, x)]

\* realloc, and construction of n elements
Realloc(q, n, x) ==
  /\ Room(q, n)
  /\ vector' = [vector EXCEPT ![q] = [cells |-> [i \in 0 .. n - 1 |-> x], size |-> n]]

Clear(q) == vector' = [vector EXCEPT ![q] = [Filled(@, 0, @.size, Raw) EXCEPT !.size = 0]]

\* The values an iterator visits
Content(q) == [i \in 1 .. vector[q].size |-> vector[q].cells[i - 1]]

\* Copy construction and assignment take the capacity over, too
CopyAssign(q, o) ==
  /\ q # o
  /\ Room(q, vector[o].size)
  /\ vector' = [vector EXCEPT ![q] = vector[o]]

\* Move construction and assignment leave o without an array
MoveAssign(q, o) ==
  /\ q # o
  /\ vector' = [vector EXCEPT ![q] = vector[o], ![o] = Empty(0)]

Next ==
  \/ \E q \in Object, x \in Value :
       \/ EmplaceBack(q, x)
       \/ \E index \in 0 .. vector[q].size : Emplace(q, index, x)
       \/ \E n \in 0 .. MaxSize : Resize(q, n, x) \/ Realloc(q, n, x)
  \/ \E q \in Object :
       \/ PopBack(q) \/ Clear(q)
       \/ \E index \in 0 .. vector[q].size - 1 : Erase(q, index)
       \/ \E n \in 0 .. MaxCapacity : Reserve(q, n)
  \/ \E q, o \in Object : CopyAssign(q, o) \/ MoveAssign(q, o)

Spec == Init /\ [][Next]_vector

-----------------------------------------------------------------------------
(* Properties.                                                             *)

Abstract == INSTANCE AbstractSequence WITH content <- [q \in Object |-> Content(q)]

\* Each operation does to the values an iterator visits what it does to a
\* sequence, whenever the array grows and however the elements shift: none is
\* lost, doubled, or left as the object a move made of it.
Implementing ==
  /\ \A q \in Object, x \in Value :
       /\ EmplaceBack(q, x) => Abstract!Insert(q, vector[q].size + 1, x)
       /\ \A index \in 0 .. vector[q].size :
            Emplace(q, index, x) => Abstract!Insert(q, index + 1, x)
       /\ \A n \in 0 .. MaxSize :
            /\ Resize(q, n, x) =>
                 Abstract!Resize(q, Min({n, vector[q].size}),
                                 [i \in 1 .. n - vector[q].size |-> x])
            /\ Realloc(q, n, x) => Abstract!Become(q, [i \in 1 .. n |-> x])
  /\ \A q \in Object :
       /\ PopBack(q) => Abstract!Erase(q, vector[q].size)
       /\ Clear(q) => Abstract!Become(q, << >>)
       /\ \A index \in 0 .. vector[q].size - 1 :
            Erase(q, index) => Abstract!Erase(q, index + 1)
       /\ \A n \in 0 .. MaxCapacity :
            Reserve(q, n) => Abstract!Resize(q, Min({n, vector[q].size}), << >>)
  /\ \A q, o \in Object :
       /\ CopyAssign(q, o) => Abstract!Become(q, Content(o))
       /\ MoveAssign(q, o) => Abstract!Move(q, o)

ImplementsSequence == Abstract!Init /\ [][Implementing]_vector

=============================================================================
