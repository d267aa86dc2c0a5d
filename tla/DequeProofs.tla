----------------------------- MODULE DequeProofs ------------------------------
(*****************************************************************************)
(* Containers proved, part 2: the deques, and the theorems of the arrays.    *)
(* The cells of the blocks of a deque are one circle (Tape), and from the    *)
(* first element on, one round of it holds the elements, and then nothing    *)
(* (Wound); a block is always free (Holds), so that the ends never meet in   *)
(* one block.                                                                *)
(* Every operation keeps that and does to the elements what the operation of *)
(* AbstractSequence does.                                                    *)
(*****************************************************************************)
EXTENDS ContainerProofs

-----------------------------------------------------------------------------
(* Circles.                                                                *)

\* A product of naturals is one
LEMMA Product ==
  ASSUME NEW a \in Nat, NEW b \in Nat
  PROVE  a * b \in Nat
BY SMT

\* ... and grows with its second factor
LEMMA ProductGrows ==
  ASSUME NEW a \in Nat, NEW b \in Nat, NEW c \in Nat, a <= b
  PROVE  c * a <= c * b
BY SMT

\* Distributing over three summands, which the arithmetic of the provers leaves
\* undone
LEMMA Nested ==
  ASSUME NEW b \in Nat, NEW c \in Nat, NEW m \in Nat, NEW k \in Nat, NEW r \in Nat
  PROVE  b * (c * m + k) + r = (c * b) * m + (b * k + r)
BY SMT

\* The number of cells of a map of c blocks
Circle(c) == c * BlockSize

\* A circle has the cells of at least one block
LEMMA CircleIs ==
  ASSUME NEW c \in Nat \ {0}
  PROVE  Circle(c) \in Nat \ {0} /\ Circle(c) >= BlockSize
BY SMT, ArraysAssumption DEF Circle

\* Dividing by the size of a block tells apart block and place in it
LEMMA Places ==
  ASSUME NEW c \in Nat \ {0}, NEW o \in Nat
  PROVE  /\ o % Circle(c) \in 0 .. Circle(c) - 1
         /\ (o % Circle(c)) \div BlockSize = (o \div BlockSize) % c
         /\ (o % Circle(c)) % BlockSize = o % BlockSize
<1> DEFINE P == Circle(c)
           b == BlockSize
           q == o \div b
           r == o % b
           m == q \div c
           k == q % c
           x == b * k + r
<1>1. b \in Nat \ {0} /\ P \in Nat \ {0}
  BY CircleIs, ArraysAssumption
<1>2. o = b * q + r /\ q \in Nat /\ r \in 0 .. b - 1
  BY <1>1, Division
<1>3. q = c * m + k /\ m \in Nat /\ k \in 0 .. c - 1
  <2> HIDE DEF q
  <2> QED BY <1>2, Division
<1> HIDE DEF q, r, m, k
<1>4. o = P * m + x
  <2>1. b * q + r = b * (c * m + k) + r
    BY <1>3
  <2>2. b * (c * m + k) + r = (c * b) * m + (b * k + r)
    <3>1. b \in Nat /\ c \in Nat /\ k \in Nat /\ r \in Nat
      BY <1>1, <1>2, <1>3
    <3> HIDE DEF b
    <3> QED BY <1>3, <3>1, Nested
  <2> QED BY <1>2, <2>1, <2>2 DEF Circle
<1>5. x \in 0 .. P - 1
  <2>1. b * k <= b * (c - 1)
    <3>1. k \in Nat /\ c - 1 \in Nat /\ k <= c - 1 /\ b \in Nat
      BY <1>1, <1>3
    <3> HIDE DEF b
    <3> QED BY <3>1, ProductGrows
  <2>2. b * (c - 1) = P - b /\ b * k \in Nat /\ P \in Nat
    BY <1>1, <1>3, SMT DEF Circle
  <2> HIDE DEF P, b
  <2> QED BY <1>1, <1>2, <2>1, <2>2
<1> HIDE DEF P
<1>6. x = o % P
  <2> HIDE DEF x
  <2> QED BY <1>1, <1>3, <1>4, <1>5, DivisionIsUnique
<1>7. k = x \div b /\ r = x % b
  <2>1. x \in Nat /\ k \in Nat /\ x = b * k + r
    BY <1>1, <1>3, <1>5
  <2> HIDE DEF x
  <2> QED BY <1>1, <1>2, <2>1, DivisionIsUnique
<1> QED BY <1>5, <1>6, <1>7 DEF P, q, r, k

\* A place is told by its block and its place in it
LEMMA PlaceOf ==
  ASSUME NEW c \in Nat \ {0}, NEW x \in 0 .. Circle(c) - 1
  PROVE  /\ x \div BlockSize \in 0 .. c - 1 /\ x % BlockSize \in 0 .. BlockSize - 1
         /\ x = BlockSize * (x \div BlockSize) + (x % BlockSize)
<1> DEFINE b == BlockSize
           q == x \div b
           r == x % b
<1>1. b \in Nat \ {0} /\ Circle(c) \in Nat \ {0} /\ x \in Nat
  BY CircleIs, ArraysAssumption
<1>2. x = b * q + r /\ q \in Nat /\ r \in 0 .. b - 1
  BY <1>1, Division
<1> HIDE DEF q, r
<1>3. q < c
  <2> SUFFICES ASSUME c <= q PROVE FALSE
    BY <1>2
  <2>1. b * c <= b * q
    <3>1. b \in Nat /\ c \in Nat
      BY <1>1
    <3> HIDE DEF b
    <3> QED BY <1>2, <3>1, ProductGrows
  <2>2. b * c = Circle(c) /\ b * q \in Nat
    BY <1>1, <1>2, SMT DEF Circle
  <2> HIDE DEF b
  <2> QED BY <1>1, <1>2, <2>1, <2>2
<1> QED BY <1>2, <1>3 DEF q, r

\* A block and a place in it tell a place of the circle
LEMMA PlaceFrom ==
  ASSUME NEW c \in Nat \ {0}, NEW q \in 0 .. c - 1, NEW r \in 0 .. BlockSize - 1
  PROVE  /\ BlockSize * q + r \in 0 .. Circle(c) - 1
         /\ (BlockSize * q + r) \div BlockSize = q
         /\ (BlockSize * q + r) % BlockSize = r
<1> DEFINE b == BlockSize
           x == b * q + r
<1>1. b \in Nat \ {0} /\ Circle(c) \in Nat \ {0} /\ q \in Nat /\ r \in Nat
  BY CircleIs, ArraysAssumption
<1>2. b * q <= b * (c - 1)
  <2>1. c - 1 \in Nat /\ q <= c - 1 /\ b \in Nat
    BY <1>1
  <2> HIDE DEF b
  <2> QED BY <1>1, <2>1, ProductGrows
<1>3. b * (c - 1) = Circle(c) - b /\ b * q \in Nat
  BY <1>1, SMT DEF Circle
<1>4. x \in 0 .. Circle(c) - 1
  <2> DEFINE y == b * q
             z == b * (c - 1)
  <2>1. x = y + r /\ y <= z /\ z = Circle(c) - b /\ y \in Nat /\ z \in Int
    BY <1>1, <1>2, <1>3
  <2> HIDE DEF b, x, y, z
  <2> QED BY <1>1, <2>1 DEF b
<1>5. q = x \div b /\ r = x % b
  <2>1. x \in Nat /\ x = b * q + r
    BY <1>1, <1>4
  <2> HIDE DEF x
  <2> QED BY <1>1, <2>1, DivisionIsUnique
<1> QED BY <1>4, <1>5

\* Going round: the places behind f, one round, are those of the circle
LEMMA Round ==
  ASSUME NEW p \in Nat \ {0}, NEW f \in Nat
  PROVE  /\ \A k, j \in 0 .. p - 1 : (f + k) % p = (f + j) % p => k = j
         /\ \A x \in 0 .. p - 1 : \E k \in 0 .. p - 1 : (f + k) % p = x
         /\ (f + p) % p = f % p
         /\ f < p => f % p = f
         /\ f % p \in 0 .. p - 1
<1> DEFINE q == f \div p
           r == f % p
<1>1. f = p * q + r /\ q \in Nat /\ r \in 0 .. p - 1
  BY Division
<1> HIDE DEF q, r
<1>2. p * q \in Nat /\ p * (q + 1) = p * q + p
  BY <1>1, SMT
<1>3. ASSUME NEW k \in 0 .. p
      PROVE  (f + k) % p = IF r + k < p THEN r + k ELSE r + k - p
  <2>1. CASE r + k < p
    <3>1. f + k = p * q + (r + k) /\ r + k \in 0 .. p - 1 /\ f + k \in Nat
      BY <1>1, <1>2, <2>1
    <3>2. r + k = (f + k) % p
      BY <1>1, <3>1, DivisionIsUnique
    <3> QED BY <2>1, <3>2
  <2>2. CASE ~ (r + k < p)
    <3>1. /\ f + k = p * (q + 1) + (r + k - p) /\ r + k - p \in 0 .. p - 1
          /\ f + k \in Nat
          /\ q + 1 \in Nat
      BY <1>1, <1>2, <2>2
    <3>2. r + k - p = (f + k) % p
      BY <3>1, DivisionIsUnique
    <3> QED BY <2>2, <3>2
  <2> QED BY <2>1, <2>2
<1>4. \A k, j \in 0 .. p - 1 : (f + k) % p = (f + j) % p => k = j
  BY <1>1, <1>3
<1>5. ASSUME NEW x \in 0 .. p - 1
      PROVE  \E k \in 0 .. p - 1 : (f + k) % p = x
  <2> DEFINE k == IF r <= x THEN x - r ELSE x + p - r
  <2>1. k \in 0 .. p - 1 /\ k \in 0 .. p /\ (IF r + k < p THEN r + k ELSE r + k - p) = x
    BY <1>1
  <2> HIDE DEF k
  <2>2. (f + k) % p = x
    BY <1>3, <2>1
  <2> QED BY <2>1, <2>2
<1>6. (f + p) % p = r
  <2>1. p \in 0 .. p /\ ~ (r + p < p) /\ r + p - p = r
    BY <1>1
  <2> QED BY <1>3, <2>1
<1>7. f < p => r = f
  <2> SUFFICES ASSUME f < p PROVE r = f
    OBVIOUS
  <2>1. f = p * 0 + f /\ f \in 0 .. p - 1
    BY SMT
  <2>2. f = f % p
    BY <2>1, DivisionIsUnique
  <2> QED BY <2>2 DEF r
<1> QED BY <1>1, <1>4, <1>5, <1>6, <1>7 DEF r

\* The place in a circle of n blocks an offset stands for
Spot(o, n) == o % Circle(n)

\* The place an offset stands for is in the block get_block finds, at the index
\* the operators of the iterator take
LEMMA SpotIs ==
  ASSUME NEW n \in Nat \ {0}, NEW o \in Nat
  PROVE  /\ Spot(o, n) \in 0 .. Circle(n) - 1
         /\ Spot(o, n) \div BlockSize = (o \div BlockSize) % n
         /\ Spot(o, n) % BlockSize = o % BlockSize
BY Places DEF Spot

\* Offsets of one round stand for different places
LEMMA SpotsDiffer ==
  ASSUME NEW n \in Nat \ {0}, NEW f \in Nat,
         NEW k \in 0 .. Circle(n) - 1, NEW j \in 0 .. Circle(n) - 1,
         Spot(f + k, n) = Spot(f + j, n)
  PROVE  k = j
<1> DEFINE p == Circle(n)
<1>1. p \in Nat \ {0}
  BY CircleIs
<1>2. (f + k) % p = (f + j) % p
  BY DEF Spot
<1>3. \A i, h \in 0 .. p - 1 : (f + i) % p = (f + h) % p => i = h
  <2> HIDE DEF p
  <2> QED BY <1>1, Round
<1> HIDE DEF p
<1> QED BY <1>2, <1>3, Zenon DEF p

\* Does an offset of the round that begins with f stand for x?
Meets(f, n, x) == \E k \in 0 .. Circle(n) - 1 : Spot(f + k, n) = x

\* The offsets of one round stand for every place
LEMMA SpotsMeet ==
  ASSUME NEW n \in Nat \ {0}, NEW f \in Nat, NEW x \in 0 .. Circle(n) - 1
  PROVE  Meets(f, n, x)
<1> DEFINE p == Circle(n)
<1>1. p \in Nat \ {0}
  BY CircleIs
<1>2. \A y \in 0 .. p - 1 : \E k \in 0 .. p - 1 : (f + k) % p = y
  <2> HIDE DEF p
  <2> QED BY <1>1, Round, ZenonT(60)
<1> QED BY <1>2, Zenon DEF p, Spot, Meets

\* One round later is the same place
LEMMA SpotsReturn ==
  ASSUME NEW n \in Nat \ {0}, NEW f \in Nat
  PROVE  /\ Spot(f + Circle(n), n) = Spot(f, n)
         /\ f < Circle(n) => Spot(f, n) = f
<1> DEFINE p == Circle(n)
<1>1. p \in Nat \ {0}
  BY CircleIs
<1>2. (f + p) % p = f % p /\ (f < p => f % p = f)
  <2> HIDE DEF p
  <2> QED BY <1>1, Round
<1> QED BY <1>2, Zenon DEF p, Spot

-----------------------------------------------------------------------------
(* The map of a deque as one circle of cells.                              *)

\* A deque with n blocks or places for them
Mapped(d, n) ==
  /\ DOMAIN d = {"map", "first", "size"}
  /\ d.map \in [0 .. n - 1 -> D!Block \cup {NoBlock}]
  /\ d.first \in Nat /\ d.size \in Nat

\* The cells of the blocks, one behind the other
Tape(d, n) ==
  [x \in 0 .. Circle(n) - 1 |->
     IF d.map[x \div BlockSize] = NoBlock THEN Raw
       ELSE d.map[x \div BlockSize][x % BlockSize]]

\* The places of the map that have a block
Used(d, n) == {b \in 0 .. n - 1 : d.map[b] # NoBlock}

\* A deque whose map has n places has capacity n
LEMMA DequeCapacity ==
  ASSUME NEW d, NEW n \in Nat, Mapped(d, n)
  PROVE  D!Capacity(d) = n
<1>1. Cardinality(0 .. n - 1) = n
  BY FS_Interval
<1>2. D!Cardinality(0 .. n - 1) = n
  BY <1>1, SameCardinality
<1> QED BY <1>2 DEF D!Capacity, Mapped

\* What an iterator reads at offset o is on the tape at the spot of o
LEMMA DequeRead ==
  ASSUME NEW d, NEW n \in Nat \ {0}, Mapped(d, n), NEW o \in Nat
  PROVE  /\ D!BlockAt(d, o) = (o \div BlockSize) % n
         /\ D!BlockAt(d, o) \in 0 .. n - 1
         /\ D!BlockAt(d, o) \in Used(d, n) => Tape(d, n)[Spot(o, n)] = D!Read(d, o)
         /\ D!BlockAt(d, o) \notin Used(d, n) => Tape(d, n)[Spot(o, n)] = Raw
<1> DEFINE x == Spot(o, n)
           b == (o \div BlockSize) % n
<1>1. /\ x \in 0 .. Circle(n) - 1
      /\ x \div BlockSize = b
      /\ x % BlockSize = o % BlockSize
  BY SpotIs
<1>2. D!BlockAt(d, o) = b
  BY DequeCapacity DEF D!BlockAt
<1>3. b \in 0 .. n - 1
  BY <1>1, PlaceOf
<1> HIDE DEF x, b
<1>4. Tape(d, n)[x] = IF d.map[b] = NoBlock THEN Raw ELSE d.map[b][o % BlockSize]
  BY <1>1 DEF Tape
<1>5. D!Read(d, o) = d.map[b][o % BlockSize]
  BY <1>2 DEF D!Read
<1> QED BY <1>2, <1>3, <1>4, <1>5 DEF x, b, Used

\* e is d after a write to the cell of offset o
Written(e, d, n, o, cell) ==
  /\ Mapped(e, n) /\ e.first = d.first /\ e.size = d.size
  /\ Used(e, n) = Used(d, n)
  /\ Tape(e, n) = [Tape(d, n) EXCEPT ![Spot(o, n)] = cell]

\* A write to an offset whose block is there changes the spot of it and nothing
\* else
LEMMA DequeWrite ==
  ASSUME NEW d, NEW n \in Nat \ {0}, Mapped(d, n), NEW o \in Nat, NEW cell \in Cell,
         D!BlockAt(d, o) \in Used(d, n)
  PROVE  Written(D!Write(d, o, cell), d, n, o, cell)
<1> DEFINE e == D!Write(d, o, cell)
           b == D!BlockAt(d, o)
           r == o % BlockSize
           x == Spot(o, n)
           old == d.map[b]
           new == [old EXCEPT ![r] = cell]
<1>1. /\ x \in 0 .. Circle(n) - 1 /\ x \div BlockSize = b /\ x % BlockSize = r
      /\ b \in 0 .. n - 1
  BY DequeRead, SpotIs
<1>2. r \in 0 .. BlockSize - 1
  BY <1>1, PlaceOf
<1>3. /\ DOMAIN e = {"map", "first", "size"} /\ e.first = d.first /\ e.size = d.size
      /\ e.map = [d.map EXCEPT ![b] = new]
  BY DEF D!Write, Mapped
<1>4. old \in D!Block
  BY <1>1 DEF Mapped, Used
<1> HIDE DEF e, b, r, x, old
<1>5. /\ new \in D!Block
      /\ \A i \in 0 .. BlockSize - 1 : new[i] = IF i = r THEN cell ELSE old[i]
  BY <1>2, <1>4 DEF D!Block, D!Cell, Cell
<1>6. new # NoBlock /\ old # NoBlock
  BY <1>4, <1>5, ArraysAssumption DEF D!Block, D!Cell
<1> HIDE DEF new
<1>7. /\ e.map \in [0 .. n - 1 -> D!Block \cup {NoBlock}]
      /\ \A i \in 0 .. n - 1 : e.map[i] = IF i = b THEN new ELSE d.map[i]
  BY <1>1, <1>3, <1>5 DEF Mapped
<1>8. Mapped(e, n)
  BY <1>3, <1>7 DEF Mapped
<1>9. Used(e, n) = Used(d, n)
  BY <1>6, <1>7 DEF Used, old
<1>10. ASSUME NEW y \in 0 .. Circle(n) - 1
       PROVE  Tape(e, n)[y] = IF y = x THEN cell ELSE Tape(d, n)[y]
  <2> DEFINE c == y \div BlockSize
             i == y % BlockSize
  <2>1. /\ c \in 0 .. n - 1 /\ i \in 0 .. BlockSize - 1 /\ y = BlockSize * c + i
        /\ x = BlockSize * b + r
    BY <1>1, PlaceOf
  <2>2. /\ Tape(e, n)[y] = IF e.map[c] = NoBlock THEN Raw ELSE e.map[c][i]
        /\ Tape(d, n)[y] = IF d.map[c] = NoBlock THEN Raw ELSE d.map[c][i]
    BY DEF Tape
  <2>3. y = x <=> c = b /\ i = r
    BY <1>1, <2>1
  <2> HIDE DEF c, i
  <2> QED BY <1>5, <1>6, <1>7, <2>1, <2>2, <2>3 DEF old
<1>11. Tape(e, n) = [Tape(d, n) EXCEPT ![x] = cell]
  <2>1. /\ Tape(e, n) = [y \in 0 .. Circle(n) - 1 |-> Tape(e, n)[y]]
        /\ Tape(d, n) = [y \in 0 .. Circle(n) - 1 |-> Tape(d, n)[y]]
    BY DEF Tape
  <2> QED BY <1>10, <2>1
<1> QED BY <1>3, <1>8, <1>9, <1>11 DEF Written, e, x

\* e is d with a block for offset o
Blocked(e, d, n, o) ==
  /\ Mapped(e, n) /\ e.first = d.first /\ e.size = d.size
  /\ D!BlockAt(e, o) \in Used(e, n)
  /\ Tape(e, n) = Tape(d, n)

\* Allocating the block of an offset changes no cell
LEMMA DequeAllocated ==
  ASSUME NEW d, NEW n \in Nat \ {0}, Mapped(d, n), NEW o \in Nat
  PROVE  Blocked(D!Allocated(d, o), d, n, o)
<1> DEFINE e == D!Allocated(d, o)
           b == D!BlockAt(d, o)
           old == d.map[b]
           new == IF old = NoBlock THEN [i \in 0 .. BlockSize - 1 |-> Raw] ELSE old
<1>1. b \in 0 .. n - 1
  BY DequeRead
<1>2. /\ DOMAIN e = {"map", "first", "size"} /\ e.first = d.first /\ e.size = d.size
      /\ e.map = [d.map EXCEPT ![b] = new]
  BY DEF D!Allocated, Mapped
<1>3. old \in D!Block \cup {NoBlock}
  BY <1>1 DEF Mapped
<1> HIDE DEF e, b, old
<1>4. /\ new \in D!Block
      /\ \A i \in 0 .. BlockSize - 1 : new[i] = IF old = NoBlock THEN Raw ELSE old[i]
  BY <1>3 DEF D!Block, D!Cell
<1>5. new # NoBlock
  BY <1>4, ArraysAssumption DEF D!Block, D!Cell
<1> HIDE DEF new
<1>6. /\ e.map \in [0 .. n - 1 -> D!Block \cup {NoBlock}]
      /\ \A i \in 0 .. n - 1 : e.map[i] = IF i = b THEN new ELSE d.map[i]
  BY <1>1, <1>2, <1>4 DEF Mapped
<1>7. Mapped(e, n)
  BY <1>2, <1>6 DEF Mapped
<1>8. D!BlockAt(e, o) = b
  BY <1>7, DequeCapacity DEF D!BlockAt, b
<1>9. b \in Used(e, n)
  BY <1>1, <1>5, <1>6 DEF Used
<1>10. ASSUME NEW y \in 0 .. Circle(n) - 1
       PROVE  (IF e.map[y \div BlockSize] = NoBlock THEN Raw ELSE e.map[y \div BlockSize][y % BlockSize])
              = (IF d.map[y \div BlockSize] = NoBlock THEN Raw ELSE d.map[y \div BlockSize][y % BlockSize])
  <2> DEFINE c == y \div BlockSize
             i == y % BlockSize
  <2>1. c \in 0 .. n - 1 /\ i \in 0 .. BlockSize - 1
    BY PlaceOf
  <2> HIDE DEF c, i
  <2>2. (IF e.map[c] = NoBlock THEN Raw ELSE e.map[c][i]) =
          (IF d.map[c] = NoBlock THEN Raw ELSE d.map[c][i])
    BY <1>4, <1>5, <1>6, <2>1 DEF old
  <2> QED BY <2>2 DEF c, i
<1>11. Tape(e, n) = Tape(d, n)
  BY <1>10 DEF Tape
<1> QED BY <1>2, <1>7, <1>8, <1>9, <1>11 DEF Blocked, e

-----------------------------------------------------------------------------
(* The sequence a deque holds.                                             *)

\* What the cell of an element may hold during an operation
Item == Value \cup {Moved}

\* From the first one on, the cells of the circle hold s, and then nothing
Wound(d, n, s) ==
  \A k \in 0 .. Circle(n) - 1 :
    Tape(d, n)[Spot(d.first + k, n)] = IF k < Len(s) THEN s[k + 1] ELSE Raw

\* At least the cells of one block are free
Holds(d, n, s) ==
  /\ n \in Nat \ {0, 1} /\ Mapped(d, n)
  /\ s \in Seq(Item) /\ d.size = Len(s) /\ Len(s) <= Circle(n) - BlockSize
  /\ Wound(d, n, s)

\* The numbers of a deque that holds s
LEMMA HoldsNumbers ==
  ASSUME NEW d, NEW n, NEW s, Holds(d, n, s)
  PROVE  /\ n \in Nat \ {0} /\ Circle(n) \in Nat \ {0} /\ d.first \in Nat
         /\ Len(s) \in Nat /\ Len(s) < Circle(n)
         /\ BlockSize \in Nat \ {0} /\ d.size = Len(s) /\ Mapped(d, n)
         /\ \A i \in 1 .. Len(s) : s[i] \in Item
<1>1. /\ n \in Nat \ {0} /\ d.first \in Nat /\ BlockSize \in Nat \ {0}
      /\ d.size = Len(s) /\ Mapped(d, n)
  BY ArraysAssumption DEF Holds, Mapped
<1>2. s \in Seq(Item) /\ Len(s) <= Circle(n) - BlockSize
  BY DEF Holds
<1>3. Circle(n) \in Nat \ {0}
  BY <1>1, CircleIs
<1>4. Len(s) \in Nat /\ \A i \in 1 .. Len(s) : s[i] \in Item
  BY <1>2
<1> QED BY <1>1, <1>2, <1>3, <1>4

\* The cell of an element is in a block, and holds the element
LEMMA HoldsRead ==
  ASSUME NEW d, NEW n, NEW s, Holds(d, n, s), NEW i \in 1 .. Len(s),
         NEW o, o = d.first + i - 1
  PROVE  D!BlockAt(d, o) \in Used(d, n) /\ D!Read(d, o) = s[i] /\ o \in Nat
<1>1. /\ n \in Nat \ {0} /\ Circle(n) \in Nat \ {0} /\ d.first \in Nat
      /\ Len(s) \in Nat /\ Len(s) < Circle(n) /\ Mapped(d, n) /\ s[i] \in Item
  BY HoldsNumbers
<1> DEFINE k == i - 1
<1>2. /\ k \in 0 .. Circle(n) - 1 /\ k < Len(s) /\ k + 1 = i /\ o = d.first + k
      /\ o \in Nat
  BY <1>1
<1> HIDE DEF k
<1>3. Tape(d, n)[Spot(o, n)] = s[i]
  BY <1>2 DEF Holds, Wound
<1>4. s[i] # Raw
  BY <1>1, ArraysAssumption DEF Item
<1> QED BY <1>1, <1>2, <1>3, <1>4, DequeRead, ZenonT(60)

\* A write to the cell of an element
LEMMA HoldsWritten ==
  ASSUME NEW d, NEW n, NEW s, Holds(d, n, s), NEW i \in 1 .. Len(s), NEW c \in Item,
         NEW o, o = d.first + i - 1
  PROVE  /\ Holds(D!Write(d, o, c), n, [s EXCEPT ![i] = c])
         /\ D!Write(d, o, c).first = d.first
<1> DEFINE e == D!Write(d, o, c)
           t == [s EXCEPT ![i] = c]
           P == Circle(n)
           j == i - 1
<1>1. /\ n \in Nat \ {0} /\ P \in Nat \ {0} /\ d.first \in Nat
      /\ Len(s) \in Nat /\ Len(s) < P /\ Mapped(d, n)
  BY HoldsNumbers
<1>2. D!BlockAt(d, o) \in Used(d, n) /\ o \in Nat
  BY HoldsRead
<1>3. Written(e, d, n, o, c)
  <2>1. c \in Cell
    BY DEF Item, Cell
  <2> QED BY <1>1, <1>2, <2>1, DequeWrite
<1>4. /\ t \in Seq(Item) /\ Len(t) = Len(s)
      /\ \A k \in 1 .. Len(s) : t[k] = IF k = i THEN c ELSE s[k]
  BY DEF Holds
<1>5. j \in 0 .. P - 1 /\ o = d.first + j /\ j + 1 = i
  BY <1>1
<1> HIDE DEF e, t, P, j
<1>6. ASSUME NEW k \in 0 .. P - 1
      PROVE  Tape(e, n)[Spot(e.first + k, n)] = IF k < Len(t) THEN t[k + 1] ELSE Raw
  <2> DEFINE x == Spot(d.first + k, n)
             y == Spot(o, n)
  <2>1. x \in 0 .. P - 1 /\ y \in 0 .. P - 1 /\ (x = y <=> k = j)
    <3>1. d.first + k \in Nat
      BY <1>1
    <3>2. x \in 0 .. P - 1 /\ y \in 0 .. P - 1
      BY <1>1, <1>2, <3>1, SpotIs DEF P
    <3>3. x = y => k = j
      <4> SUFFICES ASSUME x = y PROVE k = j
        OBVIOUS
      <4> QED BY <1>1, <1>5, SpotsDiffer DEF P
    <3> QED BY <1>5, <3>2, <3>3
  <2>2. Tape(d, n)[x] = IF k < Len(s) THEN s[k + 1] ELSE Raw
    BY DEF Holds, Wound, P
  <2>3. /\ e.first = d.first /\ Tape(e, n) = [Tape(d, n) EXCEPT ![y] = c]
        /\ x \in DOMAIN Tape(d, n)
    BY <1>3, <2>1 DEF Written, Tape, P
  <2> HIDE DEF x, y
  <2>4. Tape(e, n)[x] = IF k = j THEN c ELSE Tape(d, n)[x]
    BY <2>1, <2>3
  <2>5. Tape(e, n)[x] = IF k < Len(t) THEN t[k + 1] ELSE Raw
    <3>1. CASE k < Len(s)
      <4>1. k + 1 \in 1 .. Len(s) /\ (k + 1 = i <=> k = j)
        BY <1>1, <1>5, <3>1
      <4> QED BY <1>4, <2>2, <2>4, <3>1, <4>1
    <3>2. CASE ~ (k < Len(s))
      <4>1. k # j
        BY <1>1, <1>5, <3>2
      <4> QED BY <1>4, <2>2, <2>4, <3>2, <4>1
    <3> QED BY <3>1, <3>2
  <2> QED BY <2>3, <2>5 DEF x
<1>7. Mapped(e, n) /\ e.size = Len(t) /\ e.first = d.first
  BY <1>1, <1>3, <1>4 DEF Written, Holds
<1>8. Wound(e, n, t)
  BY <1>6 DEF Wound, P
<1> QED BY <1>4, <1>7, <1>8 DEF Holds, e, t

\* A move from the cell of an element to that of another one
LEMMA HoldsMoved ==
  ASSUME NEW d, NEW n, NEW s, Holds(d, n, s), NEW i \in 1 .. Len(s),
         NEW j \in 1 .. Len(s),
         NEW to, to = d.first + i - 1, NEW from, from = d.first + j - 1
  PROVE  /\ Holds(D!MovedCell(d, to, from), n, [s EXCEPT ![i] = s[j], ![j] = Moved])
         /\ D!MovedCell(d, to, from).first = d.first
<1> DEFINE e == D!Write(d, to, D!Read(d, from))
           t == [s EXCEPT ![i] = s[j]]
<1>1. D!Read(d, from) = s[j] /\ s[j] \in Item
  BY HoldsRead, HoldsNumbers
<1>2. Holds(e, n, t) /\ e.first = d.first
  BY <1>1, HoldsWritten
<1>3. j \in 1 .. Len(t) /\ Moved \in Item
  BY DEF Holds, Item
<1>4. D!MovedCell(d, to, from) = D!Write(e, from, Moved)
  BY DEF D!MovedCell
<1> HIDE DEF e
<1>5. /\ Holds(D!Write(e, from, Moved), n, [t EXCEPT ![j] = Moved])
      /\ D!Write(e, from, Moved).first = e.first
  <2> HIDE DEF t
  <2> QED BY <1>2, <1>3, HoldsWritten
<1> QED BY <1>2, <1>4, <1>5

\* f is what the first, second, ... move along p makes of d
DequeMoves(f, d, p, n) ==
  f = [k \in 1 .. n |-> IF k = 1 THEN d ELSE D!MovedCell(f[k - 1], p[k - 1], p[k])]

\* The recursive function of MovedAlong exists
LEMMA DequeMovesExist ==
  ASSUME NEW d, NEW p, NEW n \in Nat
  PROVE  \E f : DequeMoves(f, d, p, n)
<1> DEFINE Turn(u, k) == D!MovedCell(u, p[k - 1], p[k])
           T == {m \in Nat : \E f : f = [k \in 1 .. m |-> IF k = 1 THEN d ELSE Turn(f[k - 1], k)]}
<1> HIDE DEF Turn
<1>1. 0 \in T
  <2> DEFINE f == [k \in 1 .. 0 |-> d]
  <2>1. f = [k \in 1 .. 0 |-> IF k = 1 THEN d ELSE Turn(f[k - 1], k)]
    OBVIOUS
  <2> QED BY <2>1
<1>2. ASSUME NEW m \in Nat, m \in T
      PROVE  m + 1 \in T
  <2>1. PICK f : f = [k \in 1 .. m |-> IF k = 1 THEN d ELSE Turn(f[k - 1], k)]
    BY <1>2
  <2> DEFINE g == [k \in 1 .. m + 1 |-> IF k = 1 THEN d
                                        ELSE IF k = m + 1 THEN Turn(f[m], m + 1) ELSE f[k]]
  <2>2. ASSUME NEW k \in 1 .. m + 1
        PROVE  g[k] = IF k = 1 THEN d ELSE Turn(g[k - 1], k)
    <3>1. CASE k = 1
      BY <3>1
    <3>2. CASE k # 1
      <4>1. k - 1 \in 1 .. m /\ k - 1 \in 1 .. m + 1 /\ k - 1 # m + 1
        BY <3>2
      <4>2. f[k - 1] = g[k - 1]
        BY <2>1, <4>1
      <4>3. CASE k = m + 1
        BY <3>2, <4>2, <4>3
      <4>4. CASE k # m + 1
        <5>1. k \in 1 .. m
          BY <4>4
        <5> QED BY <2>1, <3>2, <4>2, <4>4, <5>1
      <4> QED BY <4>3, <4>4
    <3> QED BY <3>1, <3>2
  <2>3. g = [k \in 1 .. m + 1 |-> IF k = 1 THEN d ELSE Turn(g[k - 1], k)]
    <3>1. g = [k \in 1 .. m + 1 |-> g[k]]
      OBVIOUS
    <3> HIDE DEF g
    <3> QED BY <2>2, <3>1
  <2> HIDE DEF g
  <2> QED BY <2>3
<1> HIDE DEF T
<1>3. n \in T
  BY <1>1, <1>2, Induct
<1> QED BY <1>3 DEF T, Turn, DequeMoves

\* The offsets of the elements of d that q names
Offsets(d, q) == [i \in 1 .. Len(q) |-> d.first + q[i] - 1]

\* Moves along a sequence of elements give the cell of each what that of the
\* next one held
LEMMA HoldsMovedAlong ==
  ASSUME NEW d, NEW n, NEW s, Holds(d, n, s), NEW q, Path(q, 1 .. Len(s)), NEW p,
         p = Offsets(d, q)
  PROVE  \E u : /\ Holds(D!MovedAlong(d, p), n, u) /\ D!MovedAlong(d, p).first = d.first
                /\ Along(u, s, q, Len(q))
<1> DEFINE m == Len(q)
           Turn(u, k) == D!MovedCell(u, p[k - 1], p[k])
           f == CHOOSE f : f = [k \in 1 .. m |-> IF k = 1 THEN d ELSE Turn(f[k - 1], k)]
           Done(e, k) == e.first = d.first /\ \E u : Holds(e, n, u) /\ Along(u, s, q, k)
<1>1. m \in Nat /\ m >= 1 /\ \A k \in 1 .. m : q[k] \in 1 .. Len(s)
  BY DEF Path
<1>2. Len(p) = m /\ \A k \in 1 .. m : p[k] = d.first + q[k] - 1
  <2>1. p = [i \in 1 .. m |-> d.first + q[i] - 1]
    BY DEF Offsets
  <2> HIDE DEF m
  <2> QED BY <1>1, <2>1
<1>3. D!MovedAlong(d, p) = f[m]
  BY <1>2, Zenon DEF D!MovedAlong
<1>4. \E g : g = [k \in 1 .. m |-> IF k = 1 THEN d ELSE Turn(g[k - 1], k)]
  <2>1. m \in Nat
    BY <1>1
  <2> HIDE DEF m
  <2>2. \E g : DequeMoves(g, d, p, m)
    BY <2>1, DequeMovesExist
  <2> QED BY <2>2 DEF DequeMoves
<1> HIDE DEF Turn
<1>5. f = [k \in 1 .. m |-> IF k = 1 THEN d ELSE Turn(f[k - 1], k)]
  BY <1>4, Zenon
<1> HIDE DEF f
<1> DEFINE T == {k \in Nat : k >= 1 /\ k <= m => Done(f[k], k)}
<1>6. 0 \in T
  BY <1>1
<1>7. ASSUME NEW k \in Nat, k \in T
      PROVE  k + 1 \in T
  <2> SUFFICES ASSUME k + 1 <= m
               PROVE  Done(f[k + 1], k + 1)
    OBVIOUS
  <2>1. CASE k = 0
    <3>1. f[1] = d
      BY <1>1, <1>5
    <3> QED BY <2>1, <3>1, AlongStarts
  <2>2. CASE k # 0
    <3> DEFINE e == f[k]
               h == f[k + 1]
               i == q[k]
               j == q[k + 1]
    <3>1. PICK u : e.first = d.first /\ Holds(e, n, u) /\ Along(u, s, q, k)
      BY <1>1, <1>7, <2>2
    <3>2. k \in 1 .. m /\ k + 1 \in 1 .. m /\ k + 1 # 1 /\ (k + 1) - 1 = k
      BY <1>1, <2>2
    <3>3. h = D!MovedCell(e, p[k], p[k + 1])
      BY <1>5, <3>2 DEF Turn
    <3> DEFINE w == [u EXCEPT ![i] = u[j], ![j] = Moved]
    <3>4. DOMAIN s = 1 .. Len(s) /\ Len(u) = Len(s)
      BY <3>1 DEF Along, Holds
    <3>5. Holds(h, n, w) /\ h.first = d.first
      <4>1. i \in 1 .. Len(u) /\ j \in 1 .. Len(u)
        BY <1>1, <3>2, <3>4
      <4>2. p[k] = e.first + i - 1 /\ p[k + 1] = e.first + j - 1
        BY <1>2, <3>1, <3>2
      <4> HIDE DEF e, h, i, j
      <4> QED BY <3>1, <3>3, <4>1, <4>2, HoldsMoved
    <3>6. Along(w, s, q, k + 1)
      BY <1>1, <2>2, <3>1, <3>2, <3>4, AlongMoves
    <3> HIDE DEF w, h
    <3> QED BY <3>5, <3>6 DEF h
  <2> QED BY <2>1, <2>2
<1> HIDE DEF T
<1>8. m \in T
  BY <1>1, <1>6, <1>7, Induct
<1>9. Done(f[m], m)
  BY <1>1, <1>8 DEF T
<1> QED BY <1>3, <1>9 DEF m

\* Put1 and Cut1 give sequences
LEMMA Put1Is ==
  ASSUME NEW E, NEW s \in Seq(E), NEW e \in E, NEW pos \in 1 .. Len(s) + 1
  PROVE  /\ Put1(s, pos, e) \in Seq(E) /\ Len(Put1(s, pos, e)) = Len(s) + 1
         /\ \A i \in 1 .. Len(s) + 1 :
              Put1(s, pos, e)[i] = IF i < pos THEN s[i] ELSE IF i = pos THEN e
                ELSE s[i - 1]
<1> DEFINE k == Len(s) + 1
           t == Put1(s, pos, e)
<1>1. k \in Nat
  OBVIOUS
<1>2. t = [i \in 1 .. k |-> IF i < pos THEN s[i] ELSE IF i = pos THEN e ELSE s[i - 1]]
  BY DEF Put1
<1>3. \A i \in 1 .. k : (i < pos => s[i] \in E) /\ (i > pos => s[i - 1] \in E)
  OBVIOUS
<1>4. \A i \in 1 .. k :
        (IF i < pos THEN s[i] ELSE IF i = pos THEN e ELSE s[i - 1]) \in E
  BY <1>3
<1> HIDE DEF k
<1>5. t \in [1 .. k -> E]
  BY <1>2, <1>4
<1> HIDE DEF t
<1>6. t \in Seq(E) /\ Len(t) = k
  BY <1>1, <1>5
<1> QED BY <1>2, <1>6 DEF k, t

\* What is left of a sequence is one
LEMMA Cut1Is ==
  ASSUME NEW E, NEW s \in Seq(E), NEW pos \in 1 .. Len(s)
  PROVE  /\ Cut1(s, pos) \in Seq(E) /\ Len(Cut1(s, pos)) = Len(s) - 1
         /\ \A i \in 1 .. Len(s) - 1 :
              Cut1(s, pos)[i] = IF i < pos THEN s[i] ELSE s[i + 1]
<1> DEFINE k == Len(s) - 1
           t == Cut1(s, pos)
<1>1. k \in Nat
  OBVIOUS
<1>2. t = [i \in 1 .. k |-> IF i < pos THEN s[i] ELSE s[i + 1]]
  BY DEF Cut1
<1>3. \A i \in 1 .. k : s[i] \in E /\ s[i + 1] \in E
  OBVIOUS
<1> HIDE DEF k
<1>4. t \in [1 .. k -> E]
  BY <1>2, <1>3
<1> HIDE DEF t
<1>5. t \in Seq(E) /\ Len(t) = k
  BY <1>1, <1>4
<1> QED BY <1>2, <1>5 DEF k, t

-----------------------------------------------------------------------------
(* Both ends of a deque.                                                   *)

\* Other numbers do not change the cells
LEMMA SameMap ==
  ASSUME NEW e, NEW n, Mapped(e, n), NEW r, DOMAIN r = {"map", "first", "size"},
         r.map = e.map, r.first \in Nat, r.size \in Nat
  PROVE  Mapped(r, n) /\ Tape(r, n) = Tape(e, n)
<1>1. Mapped(r, n)
  BY DEF Mapped
<1>2. Tape(r, n) = Tape(e, n)
  BY DEF Tape
<1> QED BY <1>1, <1>2

\* e is d with the cell of offset o put in
PutIn(e, d, n, o, cell) ==
  /\ Mapped(e, n) /\ e.first = d.first /\ e.size = d.size
  /\ Tape(e, n) = [Tape(d, n) EXCEPT ![Spot(o, n)] = cell]

\* A write, into a block that is allocated when there is none
LEMMA DequePut ==
  ASSUME NEW d, NEW n \in Nat \ {0}, Mapped(d, n), NEW o \in Nat, NEW cell \in Cell
  PROVE  PutIn(D!Write(D!Allocated(d, o), o, cell), d, n, o, cell)
<1> DEFINE e == D!Allocated(d, o)
<1>1. Blocked(e, d, n, o)
  BY DequeAllocated
<1> HIDE DEF e
<1>2. Written(D!Write(e, o, cell), e, n, o, cell)
  BY <1>1, DequeWrite DEF Blocked
<1> QED BY <1>1, <1>2 DEF Blocked, Written, PutIn, e

\* What one cell that is put in makes of the round that begins at the first one
LEMMA HoldsPut ==
  ASSUME NEW d, NEW n, NEW s, Holds(d, n, s), NEW j \in 0 .. Circle(n) - 1,
         NEW e, NEW o, NEW cell, PutIn(e, d, n, o, cell),
         Spot(o, n) = Spot(d.first + j, n),
         NEW k \in 0 .. Circle(n) - 1
  PROVE  Tape(e, n)[Spot(d.first + k, n)]
           = IF k = j THEN cell ELSE IF k < Len(s) THEN s[k + 1] ELSE Raw
<1> DEFINE P == Circle(n)
           x == Spot(d.first + k, n)
           y == Spot(d.first + j, n)
<1>1. n \in Nat \ {0} /\ P \in Nat \ {0} /\ d.first \in Nat
  BY HoldsNumbers
<1>2. x \in 0 .. P - 1 /\ y \in 0 .. P - 1
  <2>1. d.first + k \in Nat /\ d.first + j \in Nat
    BY <1>1
  <2> QED BY <1>1, <2>1, SpotIs DEF P
<1>3. x = y => k = j
  <2> SUFFICES ASSUME x = y PROVE k = j
    OBVIOUS
  <2> QED BY <1>1, SpotsDiffer
<1>4. Tape(d, n)[x] = IF k < Len(s) THEN s[k + 1] ELSE Raw
  BY DEF Holds, Wound
<1>5. k = j => x = y
  OBVIOUS
<1>6. Tape(e, n) = [Tape(d, n) EXCEPT ![y] = cell] /\ DOMAIN Tape(d, n) = 0 .. P - 1
  BY DEF PutIn, Tape
<1> HIDE DEF x, y, P
<1>7. Tape(e, n)[x] = IF x = y THEN cell ELSE Tape(d, n)[x]
  BY <1>2, <1>6
<1>8. x = y <=> k = j
  BY <1>3, <1>5
<1> QED BY <1>4, <1>7, <1>8 DEF x

\* Without elements there is no object in any cell
LEMMA HoldsNothing ==
  ASSUME NEW d, NEW n \in Nat \ {0, 1}, Mapped(d, n), d.size = 0,
         \A x \in 0 .. Circle(n) - 1 : Tape(d, n)[x] = Raw
  PROVE  Holds(d, n, << >>)
<1>1. Circle(n) \in Nat \ {0} /\ Circle(n) >= BlockSize /\ BlockSize \in Nat
  BY CircleIs, ArraysAssumption
<1>2. d.first \in Nat
  BY DEF Mapped
<1>3. \A k \in 0 .. Circle(n) - 1 : Spot(d.first + k, n) \in 0 .. Circle(n) - 1
  <2> SUFFICES ASSUME NEW k \in 0 .. Circle(n) - 1
               PROVE  Spot(d.first + k, n) \in 0 .. Circle(n) - 1
    OBVIOUS
  <2>1. d.first + k \in Nat
    BY <1>1, <1>2
  <2> QED BY <2>1, SpotIs
<1>4. << >> \in Seq(Item) /\ Len(<< >>) = 0
  OBVIOUS
<1>5. Wound(d, n, << >>)
  <2>1. \A k \in 0 .. Circle(n) - 1 : ~ (k < 0)
    BY <1>1
  <2> QED BY <1>3, <1>4, <2>1 DEF Wound
<1>6. Len(<< >>) <= Circle(n) - BlockSize
  BY <1>1, <1>4
<1> QED BY <1>4, <1>5, <1>6 DEF Holds

\* emplace_back, when there is room
LEMMA HoldsBehind ==
  ASSUME NEW d, NEW n, NEW s, Holds(d, n, s), Len(s) < Circle(n) - BlockSize,
         NEW v \in Item,
         NEW o, o = d.first + d.size
  PROVE  Holds([D!Write(D!Allocated(d, o), o, v) EXCEPT !.size = @ + 1],
               n, Put1(s, Len(s) + 1, v))
<1> DEFINE e == D!Write(D!Allocated(d, o), o, v)
           r == [e EXCEPT !.size = @ + 1]
           t == Put1(s, Len(s) + 1, v)
           P == Circle(n)
           m == Len(s)
<1>1. /\ n \in Nat \ {0} /\ P \in Nat \ {0} /\ d.first \in Nat
      /\ BlockSize \in Nat \ {0}
      /\ m \in Nat /\ m < P /\ Mapped(d, n) /\ d.size = m
  BY HoldsNumbers
<1>2. PutIn(e, d, n, o, v)
  <2>1. o \in Nat /\ v \in Cell
    BY <1>1 DEF Item, Cell
  <2> QED BY <1>1, <2>1, DequePut
<1>3. /\ t \in Seq(Item) /\ Len(t) = m + 1
      /\ \A i \in 1 .. m + 1 :
           t[i] = IF i < m + 1 THEN s[i] ELSE IF i = m + 1 THEN v ELSE s[i - 1]
  <2>1. s \in Seq(Item) /\ Len(s) + 1 \in 1 .. Len(s) + 1
    BY <1>1 DEF Holds
  <2> QED BY <2>1, Put1Is, SMTT(30)
<1> HIDE DEF e
<1>4. /\ DOMAIN r = {"map", "first", "size"} /\ r.map = e.map /\ r.first = d.first
      /\ r.size = m + 1
  BY <1>1, <1>2 DEF PutIn, Mapped
<1> HIDE DEF r
<1>5. Mapped(r, n) /\ Tape(r, n) = Tape(e, n)
  BY <1>1, <1>2, <1>4, SameMap, SMTT(30) DEF PutIn
<1> HIDE DEF t, m
<1>6. ASSUME NEW k \in 0 .. P - 1
      PROVE  Tape(r, n)[Spot(r.first + k, n)] = IF k < Len(t) THEN t[k + 1] ELSE Raw
  <2>1. m \in 0 .. P - 1 /\ o = d.first + m
    BY <1>1
  <2>2. Tape(e, n)[Spot(d.first + k, n)]
          = IF k = m THEN v ELSE IF k < m THEN s[k + 1] ELSE Raw
    <3> HIDE DEF e
    <3> QED BY <1>2, <2>1, HoldsPut DEF P, m
  <2>3. CASE k = m
    <3>1. k < Len(t) /\ t[k + 1] = v
      BY <1>1, <1>3, <2>3, SMTT(30)
    <3> QED BY <1>4, <1>5, <2>2, <2>3, <3>1
  <2>4. CASE k < m
    <3>1. k < Len(t) /\ t[k + 1] = s[k + 1] /\ k # m
      BY <1>1, <1>3, <2>4, SMTT(30)
    <3> QED BY <1>4, <1>5, <2>2, <2>4, <3>1
  <2>5. CASE k > m
    <3>1. ~ (k < Len(t)) /\ k # m /\ ~ (k < m)
      BY <1>1, <1>3, <2>5
    <3> QED BY <1>4, <1>5, <2>2, <3>1
  <2> QED BY <1>1, <2>3, <2>4, <2>5
<1>7. Wound(r, n, t)
  BY <1>6 DEF Wound, P
<1>8. Len(t) <= P - BlockSize
  BY <1>1, <1>3 DEF P, m
<1> QED BY <1>3, <1>4, <1>5, <1>7, <1>8 DEF Holds, r, e, t, m, P

\* The offset before the first one, going round
Before(d, n) == (IF d.first = 0 THEN Circle(n) ELSE d.first) - 1

\* The offset emplace_front takes is one before the first, and the round that
\* begins there is the old one, one cell on
LEMMA BeforeIs ==
  ASSUME NEW d, NEW n \in Nat \ {0}, d.first \in Nat
  PROVE  /\ Before(d, n) \in Nat
         /\ Spot(Before(d, n), n) = Spot(d.first + (Circle(n) - 1), n)
         /\ \A k \in 1 .. Circle(n) - 1 :
              Spot(Before(d, n) + k, n) = Spot(d.first + (k - 1), n)
<1> DEFINE P == Circle(n)
           f == Before(d, n)
<1>1. P \in Nat \ {0}
  BY CircleIs
<1>2. CASE d.first = 0
  <2>1. f = P - 1 /\ f \in Nat /\ f = d.first + (P - 1)
    BY <1>1, <1>2 DEF Before
  <2> HIDE DEF f, P
  <2>2. ASSUME NEW k \in 1 .. P - 1
        PROVE  Spot(f + k, n) = Spot(d.first + (k - 1), n)
    <3>1. k - 1 \in Nat /\ f + k = (k - 1) + P /\ d.first + (k - 1) = k - 1
      BY <1>1, <1>2, <2>1
    <3>2. Spot((k - 1) + P, n) = Spot(k - 1, n)
      BY <3>1, SpotsReturn DEF P
    <3> QED BY <3>1, <3>2
  <2> QED BY <2>1, <2>2 DEF f, P
<1>3. CASE d.first # 0
  <2>1. f = d.first - 1 /\ f \in Nat /\ f + P = d.first + (P - 1)
    BY <1>1, <1>3 DEF Before
  <2> HIDE DEF f, P
  <2>2. Spot(f + P, n) = Spot(f, n)
    BY <2>1, SpotsReturn DEF P
  <2>3. \A k \in 1 .. P - 1 : f + k = d.first + (k - 1)
    BY <1>1, <2>1
  <2> QED BY <2>1, <2>2, <2>3 DEF f, P
<1> QED BY <1>2, <1>3

\* emplace_front, when there is room
LEMMA HoldsBefore ==
  ASSUME NEW d, NEW n, NEW s, Holds(d, n, s), Len(s) < Circle(n) - BlockSize,
         NEW v \in Item,
         NEW o, o = Before(d, n)
  PROVE  Holds([D!Write(D!Allocated(d, o), o, v) EXCEPT !.size = @ + 1, !.first = o],
               n, Put1(s, 1, v))
<1> DEFINE e == D!Write(D!Allocated(d, o), o, v)
           r == [e EXCEPT !.size = @ + 1, !.first = o]
           t == Put1(s, 1, v)
           P == Circle(n)
           m == Len(s)
<1>1. /\ n \in Nat \ {0} /\ P \in Nat \ {0} /\ d.first \in Nat
      /\ BlockSize \in Nat \ {0}
      /\ m \in Nat /\ m < P /\ Mapped(d, n) /\ d.size = m
  BY HoldsNumbers
<1>2. /\ o \in Nat /\ Spot(o, n) = Spot(d.first + (P - 1), n)
      /\ \A k \in 1 .. P - 1 : Spot(o + k, n) = Spot(d.first + (k - 1), n)
  BY <1>1, BeforeIs
<1>3. PutIn(e, d, n, o, v)
  <2>1. v \in Cell
    BY DEF Item, Cell
  <2> QED BY <1>1, <1>2, <2>1, DequePut
<1>4. /\ t \in Seq(Item) /\ Len(t) = m + 1
      /\ \A i \in 1 .. m + 1 :
           t[i] = IF i < 1 THEN s[i] ELSE IF i = 1 THEN v ELSE s[i - 1]
  <2>1. s \in Seq(Item) /\ 1 \in 1 .. Len(s) + 1
    BY <1>1 DEF Holds
  <2> QED BY <2>1, Put1Is
<1> HIDE DEF e
<1>5. /\ DOMAIN r = {"map", "first", "size"} /\ r.map = e.map /\ r.first = o
      /\ r.size = m + 1
  BY <1>1, <1>3 DEF PutIn, Mapped
<1> HIDE DEF r
<1>6. Mapped(r, n) /\ Tape(r, n) = Tape(e, n)
  <2>1. r.first \in Nat /\ r.size \in Nat /\ Mapped(e, n)
    BY <1>1, <1>2, <1>3, <1>5 DEF PutIn
  <2> QED BY <1>5, <2>1, SameMap
<1> HIDE DEF t, m
<1>7. ASSUME NEW k \in 0 .. P - 1
      PROVE  Tape(e, n)[Spot(d.first + k, n)]
               = IF k = P - 1 THEN v ELSE IF k < m THEN s[k + 1] ELSE Raw
  <2>1. P - 1 \in 0 .. P - 1
    BY <1>1
  <2> QED BY <1>2, <1>3, <2>1, HoldsPut DEF P, m
<1>8. ASSUME NEW k \in 0 .. P - 1
      PROVE  Tape(r, n)[Spot(r.first + k, n)] = IF k < Len(t) THEN t[k + 1] ELSE Raw
  <2>1. CASE k = 0
    <3>1. k < Len(t) /\ t[k + 1] = v /\ P - 1 \in 0 .. P - 1 /\ r.first + k = o
      BY <1>1, <1>2, <1>4, <1>5, <2>1, SMTT(30)
    <3> QED BY <1>2, <1>6, <1>7, <3>1
  <2>2. CASE k # 0
    <3> DEFINE j == k - 1
    <3>1. /\ j \in 0 .. P - 1 /\ j # P - 1 /\ k \in 1 .. P - 1 /\ j + 1 = k
          /\ (j < m <=> k < Len(t))
      BY <1>1, <1>4, <2>2
    <3>2. Spot(o + k, n) = Spot(d.first + j, n)
      BY <1>2, <3>1
    <3>3. k < Len(t) => t[k + 1] = s[k]
      BY <1>1, <1>4, <2>2
    <3> HIDE DEF j
    <3>4. Tape(e, n)[Spot(d.first + j, n)] = IF j < m THEN s[k] ELSE Raw
      BY <1>7, <3>1
    <3> QED BY <1>5, <1>6, <3>1, <3>2, <3>3, <3>4
  <2> QED BY <2>1, <2>2
<1>9. Wound(r, n, t)
  BY <1>8 DEF Wound, P
<1>10. Len(t) <= P - BlockSize
  BY <1>1, <1>4 DEF P, m
<1> QED BY <1>4, <1>5, <1>6, <1>9, <1>10 DEF Holds, r, e, t, m, P

\* The cell of an element is emptied
LEMMA HoldsEmptied ==
  ASSUME NEW d, NEW n, NEW s, Holds(d, n, s), NEW i \in 1 .. Len(s), NEW o,
         o = d.first + i - 1
  PROVE  PutIn(D!Write(d, o, Raw), d, n, o, Raw)
<1>1. D!BlockAt(d, o) \in Used(d, n) /\ o \in Nat
  BY HoldsRead
<1>2. n \in Nat \ {0} /\ Mapped(d, n) /\ Raw \in Cell
  BY HoldsNumbers DEF Cell
<1>3. Written(D!Write(d, o, Raw), d, n, o, Raw)
  BY <1>1, <1>2, DequeWrite
<1> QED BY <1>3 DEF Written, PutIn

\* The only element of a deque goes
LEMMA HoldsLast ==
  ASSUME NEW d, NEW n, NEW s, Holds(d, n, s), Len(s) = 1,
         NEW e, PutIn(e, d, n, d.first, Raw),
         NEW r, DOMAIN r = {"map", "first", "size"}, r.map = e.map, r.first \in Nat,
         r.size = 0
  PROVE  Holds(r, n, << >>)
<1>1. /\ n \in Nat \ {0} /\ Circle(n) \in Nat \ {0} /\ d.first \in Nat
      /\ n \in Nat \ {0, 1}
  BY HoldsNumbers DEF Holds
<1>2. Mapped(r, n) /\ Tape(r, n) = Tape(e, n)
  BY SameMap DEF PutIn
<1>3. ASSUME NEW x \in 0 .. Circle(n) - 1 PROVE Tape(e, n)[x] = Raw
  <2> DEFINE f == d.first
  <2>1. n \in Nat \ {0} /\ f \in Nat
    BY <1>1
  <2> HIDE DEF f
  <2>2. Meets(f, n, x)
    BY <2>1, SpotsMeet
  <2>3. PICK k \in 0 .. Circle(n) - 1 : Spot(d.first + k, n) = x
    BY <2>2 DEF f, Meets
  <2>4. 0 \in 0 .. Circle(n) - 1 /\ d.first + 0 = d.first
    BY <1>1
  <2>5. Tape(e, n)[Spot(d.first + k, n)]
          = IF k = 0 THEN Raw ELSE IF k < Len(s) THEN s[k + 1] ELSE Raw
    BY <2>4, HoldsPut
  <2>6. k # 0 => ~ (k < Len(s))
    BY <1>1
  <2> QED BY <2>3, <2>5, <2>6
<1> QED BY <1>1, <1>2, <1>3, HoldsNothing

\* pop_back
LEMMA HoldsPoppedBack ==
  ASSUME NEW d, NEW n, NEW s, Holds(d, n, s), Len(s) > 0
  PROVE  Holds(D!PoppedBack(d), n, Cut1(s, Len(s)))
<1> DEFINE o == d.first + d.size - 1
           e == D!Write(d, o, Raw)
           r == D!PoppedBack(d)
           m == Len(s)
           t == Cut1(s, m)
           P == Circle(n)
<1>1. /\ n \in Nat \ {0} /\ P \in Nat \ {0} /\ d.first \in Nat
      /\ BlockSize \in Nat \ {0}
      /\ m \in Nat /\ m < P /\ Mapped(d, n) /\ d.size = m /\ m > 0
  BY HoldsNumbers
<1>2. PutIn(e, d, n, o, Raw)
  <2>1. m \in 1 .. Len(s) /\ o = d.first + m - 1
    BY <1>1
  <2> QED BY <2>1, HoldsEmptied
<1>3. /\ t \in Seq(Item) /\ Len(t) = m - 1
      /\ \A i \in 1 .. m - 1 : t[i] = IF i < m THEN s[i] ELSE s[i + 1]
  <2>1. s \in Seq(Item) /\ Len(s) \in 1 .. Len(s)
    BY <1>1 DEF Holds
  <2> QED BY <2>1, Cut1Is
<1>4. /\ DOMAIN r = {"map", "first", "size"} /\ r.map = e.map /\ r.size = m - 1
      /\ r.first = IF m = 1 THEN 0 ELSE d.first
  <2>1. r = [e EXCEPT !.size = @ - 1, !.first = IF d.size = 1 THEN 0 ELSE @]
    BY DEF D!PoppedBack
  <2> HIDE DEF e, r
  <2> QED BY <1>1, <1>2, <2>1 DEF PutIn, Mapped
<1> HIDE DEF e, r
<1>5. Mapped(r, n) /\ Tape(r, n) = Tape(e, n)
  <2>1. r.first \in Nat /\ r.size \in Nat
    BY <1>1, <1>4
  <2> QED BY <1>2, <1>4, <2>1, SameMap DEF PutIn
<1>6. CASE m = 1
  <2>1. o = d.first /\ r.size = 0 /\ r.first \in Nat
    BY <1>1, <1>4, <1>6
  <2>2. Holds(r, n, << >>)
    BY <1>2, <1>4, <1>6, <2>1, HoldsLast
  <2>3. t = << >>
    BY <1>3, <1>6
  <2> QED BY <2>2, <2>3 DEF r
<1>7. CASE m # 1
  <2> HIDE DEF m, t
  <2>1. r.first = d.first /\ m - 1 \in 0 .. P - 1 /\ o = d.first + (m - 1)
    BY <1>1, <1>4, <1>7
  <2>2. ASSUME NEW k \in 0 .. P - 1
        PROVE  Tape(r, n)[Spot(r.first + k, n)] = IF k < Len(t) THEN t[k + 1] ELSE Raw
    <3>1. Tape(e, n)[Spot(d.first + k, n)]
            = IF k = m - 1 THEN Raw ELSE IF k < m THEN s[k + 1] ELSE Raw
      BY <1>2, <2>1, HoldsPut DEF P, m
    <3>2. CASE k < m - 1
      <4>1. k + 1 \in 1 .. m - 1 /\ k + 1 < m /\ k < Len(t) /\ k # m - 1 /\ k < m
        BY <1>1, <1>3, <3>2
      <4> QED BY <1>3, <1>5, <2>1, <3>1, <4>1
    <3>3. CASE ~ (k < m - 1)
      <4>1. ~ (k < Len(t)) /\ (k = m - 1 \/ ~ (k < m))
        BY <1>1, <1>3, <3>3
      <4> QED BY <1>5, <2>1, <3>1, <4>1
    <3> QED BY <3>2, <3>3
  <2>3. Wound(r, n, t)
    BY <2>2 DEF Wound, P
  <2>4. Len(t) <= P - BlockSize /\ n \in Nat \ {0, 1}
    BY <1>1, <1>3 DEF P, m, Holds
  <2> QED BY <1>3, <1>4, <1>5, <2>3, <2>4 DEF Holds, r, t, m, P
<1> QED BY <1>6, <1>7

\* pop_front
LEMMA HoldsPoppedFront ==
  ASSUME NEW d, NEW n, NEW s, Holds(d, n, s), Len(s) > 0
  PROVE  Holds(D!PoppedFront(d), n, Cut1(s, 1))
<1> DEFINE o == d.first
           e == D!Write(d, o, Raw)
           r == D!PoppedFront(d)
           m == Len(s)
           t == Cut1(s, 1)
           P == Circle(n)
<1>1. /\ n \in Nat \ {0} /\ P \in Nat \ {0} /\ d.first \in Nat
      /\ BlockSize \in Nat \ {0}
      /\ m \in Nat /\ m < P /\ Mapped(d, n) /\ d.size = m /\ m > 0
  BY HoldsNumbers
<1>2. PutIn(e, d, n, o, Raw)
  <2>1. 1 \in 1 .. Len(s) /\ o = d.first + 1 - 1
    BY <1>1
  <2> QED BY <2>1, HoldsEmptied
<1>3. /\ t \in Seq(Item) /\ Len(t) = m - 1
      /\ \A i \in 1 .. m - 1 : t[i] = IF i < 1 THEN s[i] ELSE s[i + 1]
  <2>1. s \in Seq(Item) /\ 1 \in 1 .. Len(s)
    BY <1>1 DEF Holds
  <2> QED BY <2>1, Cut1Is
<1>4. /\ DOMAIN r = {"map", "first", "size"} /\ r.map = e.map /\ r.size = m - 1
      /\ r.first = IF m = 1 THEN 0 ELSE d.first + 1
  <2>1. r = [e EXCEPT !.size = @ - 1, !.first = IF d.size = 1 THEN 0 ELSE @ + 1]
    BY DEF D!PoppedFront
  <2> HIDE DEF e, r
  <2> QED BY <1>1, <1>2, <2>1 DEF PutIn, Mapped
<1> HIDE DEF e, r
<1>5. Mapped(r, n) /\ Tape(r, n) = Tape(e, n)
  <2>1. r.first \in Nat /\ r.size \in Nat
    BY <1>1, <1>4
  <2> QED BY <1>2, <1>4, <2>1, SameMap DEF PutIn
<1>6. CASE m = 1
  <2>1. r.size = 0 /\ r.first \in Nat
    BY <1>1, <1>4, <1>6
  <2>2. Holds(r, n, << >>)
    BY <1>2, <1>4, <1>6, <2>1, HoldsLast
  <2>3. t = << >>
    BY <1>3, <1>6
  <2> QED BY <2>2, <2>3 DEF r
<1>7. CASE m # 1
  <2> HIDE DEF m, t
  <2>1. r.first = d.first + 1 /\ 0 \in 0 .. P - 1 /\ o = d.first + 0
    BY <1>1, <1>4, <1>7
  <2>2. \A k \in 0 .. P - 1 :
          Tape(e, n)[Spot(d.first + k, n)]
            = IF k = 0 THEN Raw ELSE IF k < m THEN s[k + 1] ELSE Raw
    BY <1>2, <2>1, HoldsPut DEF P, m
  <2>3. ASSUME NEW k \in 0 .. P - 1
        PROVE  Tape(r, n)[Spot(r.first + k, n)] = IF k < Len(t) THEN t[k + 1] ELSE Raw
    <3>1. CASE k < P - 1
      <4> DEFINE j == k + 1
      <4>1. /\ j \in 0 .. P - 1 /\ j # 0 /\ r.first + k = d.first + j
            /\ (j < m <=> k < Len(t)) /\ (j < m => j \in 1 .. m - 1 /\ ~ (j < 1))
        <5>1. /\ m \in Nat /\ P \in Nat /\ d.first \in Nat /\ Len(t) = m - 1
              /\ k \in 0 .. P - 1
          BY <1>1, <1>3
        <5> HIDE DEF P
        <5>2. j \in 0 .. P - 1 /\ j # 0 /\ (j < m <=> k < Len(t))
          BY <5>1, <3>1
        <5>3. r.first + k = d.first + j
          BY <5>1, <2>1
        <5>4. j < m => j \in 1 .. m - 1 /\ ~ (j < 1)
          BY <5>1
        <5> QED BY <5>2, <5>3, <5>4
      <4> HIDE DEF j
      <4>2. Tape(e, n)[Spot(d.first + j, n)] = IF j < m THEN s[j + 1] ELSE Raw
        BY <2>2, <4>1
      <4>3. j < m => t[j] = s[j + 1]
        BY <1>3, <4>1
      <4> QED BY <1>5, <4>1, <4>2, <4>3 DEF j
    <3>2. CASE ~ (k < P - 1)
      <4>1. /\ r.first + k = d.first + P /\ ~ (k < Len(t)) /\ 0 \in 0 .. P - 1
            /\ d.first + 0 = d.first
        <5>1. /\ m \in Nat /\ P \in Nat /\ m < P /\ d.first \in Nat /\ Len(t) = m - 1
              /\ k \in 0 .. P - 1
          BY <1>1, <1>3
        <5> HIDE DEF P
        <5>2. k = P - 1
          BY <5>1, <3>2
        <5>3. r.first + k = d.first + P
          BY <5>1, <5>2, <2>1
        <5> QED BY <5>1, <5>2, <5>3
      <4>2. Spot(d.first + P, n) = Spot(d.first, n)
        BY <1>1, SpotsReturn DEF P
      <4>3. Tape(e, n)[Spot(d.first, n)] = Raw
        BY <2>2, <4>1
      <4> QED BY <1>5, <4>1, <4>2, <4>3
    <3> QED BY <3>1, <3>2
  <2>4. Wound(r, n, t)
    BY <2>3 DEF Wound, P
  <2>5. Len(t) <= P - BlockSize /\ n \in Nat \ {0, 1}
    BY <1>1, <1>3 DEF P, m, Holds
  <2> QED BY <1>3, <1>4, <1>5, <2>4, <2>5 DEF Holds, r, t, m, P
<1> QED BY <1>6, <1>7

-----------------------------------------------------------------------------
(* A circle of twice as many blocks.                                        *)

\* Whole blocks added to a number change its quotient only
LEMMA Shifted ==
  ASSUME NEW b \in Nat \ {0}, NEW q \in Nat, NEW z \in Nat
  PROVE  /\ b * q + z \in Nat
         /\ (b * q + z) \div b = q + (z \div b) /\ (b * q + z) % b = z % b
<1> DEFINE k == z \div b
           r == z % b
           x == b * q + z
<1>1. z = b * k + r /\ k \in Nat /\ r \in 0 .. b - 1
  BY Division
<1> HIDE DEF k, r
<1>2. b * (q + k) = b * q + b * k /\ b * q \in Nat /\ b * k \in Nat
  BY <1>1, SMT
<1>3. x = b * (q + k) + r /\ x \in Nat /\ q + k \in Nat
  BY <1>1, <1>2
<1> HIDE DEF x
<1>4. q + k = x \div b /\ r = x % b
  BY <1>1, <1>3, DivisionIsUnique
<1> QED BY <1>3, <1>4 DEF x, k, r

\* A quotient grows with its dividend
LEMMA DivisionGrows ==
  ASSUME NEW b \in Nat \ {0}, NEW x \in Nat, NEW y \in Nat, x <= y
  PROVE  x \div b <= y \div b
<1> DEFINE k == x \div b
           r == x % b
           m == y \div b
           t == y % b
<1>1. /\ x = b * k + r /\ k \in Nat /\ r \in 0 .. b - 1
      /\ y = b * m + t /\ m \in Nat /\ t \in 0 .. b - 1
  BY Division
<1> HIDE DEF k, r, m, t
<1>2. ~ (m + 1 <= k)
  <2> SUFFICES ASSUME m + 1 <= k PROVE FALSE
    OBVIOUS
  <2>1. b * (m + 1) <= b * k
    <3>1. m + 1 \in Nat /\ b \in Nat
      BY <1>1
    <3> QED BY <1>1, <3>1, ProductGrows
  <2>2. b * (m + 1) = b * m + b /\ b * m \in Nat /\ b * k \in Nat
    BY <1>1, SMT
  <2> QED BY <1>1, <2>1, <2>2
<1> QED BY <1>1, <1>2 DEF k, m

\* Going on from a place of a circle
LEMMA Onward ==
  ASSUME NEW n \in Nat \ {0}, NEW y \in Nat, NEW c \in Nat
  PROVE  ((y % n) + c) % n = (y + c) % n
<1> DEFINE m == y \div n
           j == y % n
           k == (j + c) \div n
           h == (j + c) % n
<1>1. y = n * m + j /\ m \in Nat /\ j \in 0 .. n - 1
  BY Division
<1> HIDE DEF m, j
<1>2. j + c = n * k + h /\ k \in Nat /\ h \in 0 .. n - 1
  <2>1. j + c \in Nat
    BY <1>1
  <2> QED BY <2>1, Division
<1> HIDE DEF k, h
<1>3. n * (m + k) = n * m + n * k /\ n * m \in Nat /\ n * k \in Nat
  BY <1>1, <1>2, SMT
<1>4. y + c = n * (m + k) + h /\ m + k \in Nat /\ y + c \in Nat
  BY <1>1, <1>2, <1>3
<1>5. h = (y + c) % n
  BY <1>2, <1>4, DivisionIsUnique
<1> QED BY <1>5 DEF h, j

\* How far apart two places of a circle are
LEMMA Apart ==
  ASSUME NEW n \in Nat \ {0}, NEW y \in Nat, NEW t \in 0 .. n - 1
  PROVE  (((y + t) % n) - (y % n)) % n = t
<1> DEFINE m == y \div n
           j == y % n
           k == (y + t) % n
<1>1. y = n * m + j /\ m \in Nat /\ j \in 0 .. n - 1
  BY Division
<1> HIDE DEF m, j
<1>2. n * (m + 1) = n * m + n /\ n * m \in Nat
  BY <1>1, SMT
<1>3. k = IF j + t < n THEN j + t ELSE j + t - n
  <2>1. CASE j + t < n
    <3>1. y + t = n * m + (j + t) /\ j + t \in 0 .. n - 1 /\ y + t \in Nat
      BY <1>1, <1>2, <2>1
    <3>2. j + t = (y + t) % n
      BY <1>1, <3>1, DivisionIsUnique
    <3> QED BY <2>1, <3>2
  <2>2. CASE ~ (j + t < n)
    <3>1. /\ y + t = n * (m + 1) + (j + t - n) /\ j + t - n \in 0 .. n - 1
          /\ y + t \in Nat /\ m + 1 \in Nat
      BY <1>1, <1>2, <2>2
    <3>2. j + t - n = (y + t) % n
      BY <3>1, DivisionIsUnique
    <3> QED BY <2>2, <3>2
  <2> QED BY <2>1, <2>2
<1> HIDE DEF k
<1>4. k - j = t \/ k - j = t - n
  BY <1>1, <1>3
<1>5. t % n = t
  <2>1. t = n * 0 + t /\ t \in Nat
    BY SMT
  <2> QED BY <2>1, DivisionIsUnique
<1>6. (t - n) % n = t
  BY SMT
<1>7. (k - j) % n = t
  BY <1>4, <1>5, <1>6
<1> QED BY <1>7 DEF k, j

\* Twice the blocks, twice the cells
LEMMA CircleDoubles ==
  ASSUME NEW n \in Nat \ {0}
  PROVE  Circle(2 * n) = 2 * Circle(n) /\ (n - 1) * BlockSize = Circle(n) - BlockSize
         /\ 2 * n \in Nat \ {0, 1}
BY SMT, ArraysAssumption DEF Circle

\* A circle has room for two blocks
LEMMA CircleOfTwo ==
  ASSUME NEW n \in Nat \ {0, 1}
  PROVE  Circle(n) >= 2 * BlockSize
<1>1. BlockSize \in Nat
  BY ArraysAssumption
<1>2. BlockSize * 2 <= BlockSize * n
  BY <1>1, ProductGrows
<1>3. Circle(n) = BlockSize * n
  BY <1>1, SMT DEF Circle
<1> QED BY <1>1, <1>2, <1>3

-----------------------------------------------------------------------------
(* Maps: a first one, none, and one of twice the size.                      *)

\* A map without blocks
LEMMA HoldsBare ==
  ASSUME NEW n \in Nat \ {0, 1}, NEW d,
         d = [map |-> [i \in 0 .. n - 1 |-> NoBlock], first |-> 0, size |-> 0]
  PROVE  Holds(d, n, << >>)
<1>1. Mapped(d, n) /\ d.size = 0
  BY DEF Mapped
<1>2. ASSUME NEW x \in 0 .. Circle(n) - 1 PROVE Tape(d, n)[x] = Raw
  <2> DEFINE b == x \div BlockSize
  <2>1. b \in 0 .. n - 1
    BY PlaceOf
  <2> HIDE DEF b
  <2>2. d.map[b] = NoBlock
    BY <2>1
  <2> QED BY <2>2 DEF Tape, b
<1> QED BY <1>1, <1>2, HoldsNothing

\* _init_map
LEMMA HoldsInitMap ==
  ASSUME NEW k \in Nat
  PROVE  \E n : Holds(D!InitMap(k), n, << >>)
<1> DEFINE n == D!Max({k, DequeBlocks})
<1>1. n \in Nat \ {0, 1}
  <2>1. DequeBlocks \in Nat \ {0, 1}
    BY ArraysAssumption
  <2>2. \E x \in {k, DequeBlocks} : \A y \in {k, DequeBlocks} : x >= y
    BY <2>1
  <2> QED BY <2>1, <2>2 DEF D!Max
<1>2. D!InitMap(k) = [map |-> [i \in 0 .. n - 1 |-> NoBlock], first |-> 0, size |-> 0]
  BY DEF D!InitMap
<1> HIDE DEF n
<1> QED BY <1>1, <1>2, HoldsBare

\* Without a map there are no elements
NoMap == [map |-> << >>, first |-> 0, size |-> 0]

IsDeque(d, s) == (d = NoMap /\ s = << >>) \/ \E n : Holds(d, n, s)

\* A deque that was moved from has no map
LEMMA NoCapacity == D!Capacity(NoMap) = 0
<1>1. DOMAIN NoMap.map = {}
  BY DEF NoMap
<1>2. Cardinality({}) = 0
  BY FS_EmptySet
<1>3. D!Cardinality({}) = 0
  BY <1>2, SameCardinality
<1> QED BY <1>1, <1>3 DEF D!Capacity

\* clear
LEMMA DequeCleared ==
  ASSUME NEW d, NEW s, IsDeque(d, s)
  PROVE  IsDeque(D!Cleared(d), << >>)
<1> DEFINE e == D!Cleared(d)
<1>1. CASE d = NoMap
  <2>1. DOMAIN d.map = {}
    BY <1>1 DEF NoMap
  <2>2. [i \in {} |-> NoBlock] = << >>
    OBVIOUS
  <2>3. e = NoMap
    BY <2>1, <2>2 DEF D!Cleared, NoMap
  <2> QED BY <2>3 DEF IsDeque
<1>2. CASE \E n : Holds(d, n, s)
  <2>1. PICK n : Holds(d, n, s)
    BY <1>2
  <2>2. DOMAIN d.map = 0 .. n - 1 /\ n \in Nat \ {0, 1}
    BY <2>1 DEF Holds, Mapped
  <2>3. e = [map |-> [i \in 0 .. n - 1 |-> NoBlock], first |-> 0, size |-> 0]
    BY <2>2 DEF D!Cleared
  <2>4. Holds(e, n, << >>)
    <3> HIDE DEF e
    <3> QED BY <2>2, <2>3, HoldsBare
  <2> QED BY <2>4 DEF IsDeque
<1> QED BY <1>1, <1>2 DEF IsDeque

\* Where the blocks of a full deque go
Packed(e, d, n, q, t) ==
  /\ DOMAIN e = {"map", "first", "size"} /\ e.first = d.first % BlockSize
  /\ e.size = d.size
  /\ e.map = [i \in 0 .. 2 * n - 1 |-> IF i <= t THEN d.map[(q + i) % n] ELSE NoBlock]

\* _reserve of a full deque, whose elements begin in block q of the round and
\* end t blocks later
LEMMA DequePacks ==
  ASSUME NEW d, NEW n \in Nat \ {0, 1}, Mapped(d, n), d.size = Circle(n) - BlockSize,
         NEW q, q = d.first \div BlockSize,
         NEW t, t = ((d.first % BlockSize) + (d.size - 1)) \div BlockSize
  PROVE  Packed(D!Reserved(d, 2 * n), d, n, q, t) /\ t \in 0 .. n - 1 /\ q \in Nat
<1> DEFINE b == BlockSize
           f == d.first
           r == f % b
           z == r + (d.size - 1)
           e == D!Reserved(d, 2 * n)
<1>1. /\ b \in Nat \ {0} /\ f \in Nat /\ n \in Nat \ {0} /\ Circle(n) \in Nat \ {0}
      /\ Circle(n) >= 2 * b
  BY ArraysAssumption, CircleIs, CircleOfTwo DEF Mapped
<1>2. f = b * q + r /\ q \in Nat /\ r \in 0 .. b - 1
  BY <1>1, Division
<1>3. z \in 0 .. Circle(n) - 1
  <2> HIDE DEF b, f, r
  <2> QED BY <1>1, <1>2 DEF b
<1>4. t \in 0 .. n - 1
  <2> HIDE DEF z
  <2>1. t = z \div b
    BY DEF z
  <2> QED BY <1>1, <1>3, <2>1, PlaceOf, SMTT(30)
<1>5. D!BlockAt(d, f) = q % n
  BY <1>1, DequeRead
<1>6. D!BlockAt(d, f + d.size - 1) = (q + t) % n
  <2> DEFINE o == f + d.size - 1
  <2>1. o = b * q + z /\ o \in Nat
    <3> DEFINE x == b * q
    <3>1. x \in Nat /\ f = x + r
      <4>1. b \in Nat
        BY <1>1
      <4>2. b * q \in Nat
        <5> HIDE DEF b
        <5> QED BY <1>2, <4>1, Product
      <4> HIDE DEF b, r
      <4> QED BY <1>2, <4>2
    <3> HIDE DEF x, b, f, r
    <3>2. f + d.size - 1 = x + (r + (d.size - 1)) /\ f + d.size - 1 \in Nat
      BY <1>1, <1>2, <3>1 DEF b
    <3> QED BY <3>2 DEF x
  <2>2. D!BlockAt(d, o) = (o \div b) % n
    <3> HIDE DEF o
    <3> QED BY <1>1, <2>1, DequeRead DEF b
  <2>3. o \div b = q + (z \div b)
    <3>1. z \in Nat /\ b \in Nat \ {0} /\ q \in Nat
      BY <1>1, <1>2, <1>3
    <3> HIDE DEF b, z, o
    <3>2. (b * q + z) \div b = q + (z \div b)
      BY <3>1, Shifted
    <3> QED BY <2>1, <3>2
  <2> QED BY <2>2, <2>3
<1> DEFINE first == D!BlockAt(d, f)
           last == D!BlockAt(d, f + d.size - 1)
           taken == (last - first) % n
<1>7. taken = t
  BY <1>1, <1>2, <1>4, <1>5, <1>6, Apart
<1>8. D!Capacity(d) = n
  BY <1>1, DequeCapacity
<1>9. e = [map |-> [i \in 0 .. 2 * n - 1 |->
                      IF i <= taken THEN d.map[(first + i) % n] ELSE NoBlock],
           first |-> r, size |-> d.size]
  BY <1>8 DEF D!Reserved
<1> HIDE DEF e
<1>10. ASSUME NEW i \in 0 .. 2 * n - 1
       PROVE  (IF i <= taken THEN d.map[(first + i) % n] ELSE NoBlock)
              = (IF i <= t THEN d.map[(q + i) % n] ELSE NoBlock)
  <2>1. i \in Nat
    BY <1>1
  <2>2. ((q % n) + i) % n = (q + i) % n
    BY <1>1, <1>2, <2>1, Onward
  <2> QED BY <1>5, <1>7, <2>2
<1> HIDE DEF first, last, taken
<1>11. e.map = [i \in 0 .. 2 * n - 1 |-> IF i <= t THEN d.map[(q + i) % n] ELSE NoBlock]
  BY <1>9, <1>10
<1>12. DOMAIN e = {"map", "first", "size"} /\ e.first = r /\ e.size = d.size
  BY <1>9
<1> QED BY <1>2, <1>4, <1>11, <1>12 DEF Packed, e, r, b, f

\* The cells of the new map
Repacked(e, d, n, q, t) ==
  \A x \in 0 .. Circle(2 * n) - 1 :
    Tape(e, 2 * n)[x] = IF x \div BlockSize <= t
                        THEN Tape(d, n)[Spot(BlockSize * q + x, n)] ELSE Raw

\* ... puts the cells of these blocks at the beginning of the new circle
LEMMA PackedCells ==
  ASSUME NEW d, NEW n \in Nat \ {0, 1}, Mapped(d, n), NEW q \in Nat,
         NEW t \in 0 .. n - 1,
         NEW e, Packed(e, d, n, q, t)
  PROVE  Mapped(e, 2 * n) /\ Repacked(e, d, n, q, t)
<1>1. /\ BlockSize \in Nat \ {0} /\ n \in Nat \ {0} /\ 2 * n \in Nat \ {0}
      /\ d.first \in Nat
  BY ArraysAssumption DEF Mapped
<1>2. Mapped(e, 2 * n)
  <2>1. d.first % BlockSize \in Nat /\ e.size \in Nat
    <3>1. d.first % BlockSize \in 0 .. BlockSize - 1
      BY <1>1, Division
    <3> DEFINE r == d.first % BlockSize
    <3> HIDE DEF r
    <3>2. r \in Nat
      BY <1>1, <3>1 DEF r
    <3>3. e.size \in Nat
      BY DEF Packed, Mapped
    <3> QED BY <3>2, <3>3 DEF r
  <2>2. ASSUME NEW i \in 0 .. 2 * n - 1
        PROVE  (IF i <= t THEN d.map[(q + i) % n] ELSE NoBlock) \in D!Block \cup {NoBlock}
    <3>1. (q + i) % n \in 0 .. n - 1
      <4>1. q + i \in Nat
        BY <1>1
      <4> QED BY <1>1, <4>1, Division
    <3> DEFINE c == (q + i) % n
    <3> HIDE DEF c
    <3>2. d.map[c] \in D!Block \cup {NoBlock}
      BY <3>1 DEF Mapped, c
    <3> QED BY <3>2 DEF c
  <2> QED BY <2>1, <2>2 DEF Packed, Mapped
<1>3. ASSUME NEW x \in 0 .. Circle(2 * n) - 1
      PROVE  Tape(e, 2 * n)[x] = IF x \div BlockSize <= t
                                 THEN Tape(d, n)[Spot(BlockSize * q + x, n)] ELSE Raw
  <2> DEFINE c == x \div BlockSize
             i == x % BlockSize
             o == BlockSize * q + x
             y == Spot(o, n)
             b == (q + c) % n
  <2>1. c \in 0 .. 2 * n - 1 /\ x \in Nat
    BY <1>1, PlaceOf, CircleIs
  <2>2. Tape(e, 2 * n)[x] = IF e.map[c] = NoBlock THEN Raw ELSE e.map[c][i]
    BY DEF Tape
  <2>3. e.map[c] = IF c <= t THEN d.map[b] ELSE NoBlock
    <3> HIDE DEF c
    <3> QED BY <2>1 DEF Packed
  <2>4. o \in Nat /\ o \div BlockSize = q + c /\ o % BlockSize = i
    BY <1>1, <2>1, Shifted
  <2>5. y \in 0 .. Circle(n) - 1 /\ y \div BlockSize = b /\ y % BlockSize = i
    <3> HIDE DEF o, i, c
    <3> QED BY <1>1, <2>4, SpotIs, ZenonT(60)
  <2> HIDE DEF o, y, b, c, i
  <2>6. Tape(d, n)[y] = IF d.map[b] = NoBlock THEN Raw ELSE d.map[b][i]
    BY <2>5 DEF Tape
  <2>7. Tape(e, 2 * n)[x] = IF c <= t THEN Tape(d, n)[y] ELSE Raw
    BY <2>2, <2>3, <2>6
  <2> QED BY <2>7 DEF c, y, o
<1> QED BY <1>2, <1>3 DEF Repacked

\* _reserve, when the map is full
LEMMA HoldsReserved ==
  ASSUME NEW d, NEW n, NEW s, Holds(d, n, s), Len(s) = Circle(n) - BlockSize
  PROVE  Holds(D!Reserved(d, 2 * n), 2 * n, s)
<1> DEFINE b == BlockSize
           P == Circle(n)
           f == d.first
           q == f \div b
           r == f % b
           m == Len(s)
           z == r + (d.size - 1)
           t == z \div b
           g == b * q
           e == D!Reserved(d, 2 * n)
<1>1. /\ n \in Nat \ {0} /\ P \in Nat \ {0} /\ f \in Nat /\ b \in Nat \ {0}
      /\ m \in Nat /\ m = P - b /\ d.size = m /\ Mapped(d, n) /\ n \in Nat \ {0, 1}
  BY HoldsNumbers DEF Holds
<1>2. Packed(e, d, n, q, t) /\ t \in 0 .. n - 1 /\ q \in Nat
  BY <1>1, DequePacks
<1>3. r \in 0 .. b - 1 /\ g \in Nat /\ f = g + r
  <2>1. f = b * q + r /\ q \in Nat /\ r \in 0 .. b - 1
    BY <1>1, Division
  <2> HIDE DEF q, r
  <2>2. b * q \in Nat
    <3>1. b \in Nat
      BY <1>1
    <3> HIDE DEF b
    <3> QED BY <2>1, <3>1, Product
  <2> QED BY <2>1, <2>2
<1>4. Circle(2 * n) = 2 * P /\ P >= 2 * b /\ 2 * n \in Nat \ {0, 1}
  BY <1>1, CircleDoubles, CircleOfTwo
<1>5. Mapped(e, 2 * n) /\ e.first = r /\ e.size = m
  <2> HIDE DEF e, q, t
  <2>1. Mapped(e, 2 * n)
    BY <1>1, <1>2, PackedCells
  <2>2. e.first = r /\ e.size = m
    BY <1>1, <1>2 DEF Packed
  <2> QED BY <2>1, <2>2
<1>6. ASSUME NEW x \in 0 .. Circle(2 * n) - 1
      PROVE  Tape(e, 2 * n)[x] = IF x \div b <= t THEN Tape(d, n)[Spot(g + x, n)]
               ELSE Raw
  <2> HIDE DEF e, q, t
  <2>1. Repacked(e, d, n, q, t)
    BY <1>1, <1>2, PackedCells
  <2> QED BY <2>1 DEF Repacked
<1>7. \A k \in 0 .. P - 1 : Tape(d, n)[Spot(f + k, n)] = IF k < m THEN s[k + 1] ELSE Raw
  BY DEF Holds, Wound
<1>8. z \in Nat /\ z = r + (m - 1) /\ m >= b
  <2> HIDE DEF r, m, P, b
  <2> QED BY <1>1, <1>3, <1>4
<1> HIDE DEF P, f, q, r, m, z, g, e, b
<1>9. ASSUME NEW k \in 0 .. Circle(2 * n) - 1
      PROVE  Tape(e, 2 * n)[Spot(r + k, 2 * n)] = IF k < m THEN s[k + 1] ELSE Raw
  <2> DEFINE x == Spot(r + k, 2 * n)
  <2>1. CASE r + k < 2 * P
    <3>1. x = r + k /\ x \in 0 .. Circle(2 * n) - 1 /\ g + x = f + k
      <4>1. r + k \in Nat /\ 2 * n \in Nat \ {0} /\ r + k < Circle(2 * n)
        BY <1>1, <1>3, <1>4, <2>1
      <4>2. x = r + k
        <5> DEFINE y == r + k
                   h == 2 * n
        <5>1. y \in Nat /\ h \in Nat \ {0} /\ y < Circle(h)
          BY <4>1
        <5> HIDE DEF y, h
        <5>2. Spot(y, h) = y
          BY <5>1, SpotsReturn
        <5> QED BY <5>2 DEF y, h
      <4> HIDE DEF x
      <4> QED BY <1>1, <1>3, <1>4, <4>1, <4>2
    <3> HIDE DEF x
    <3>2. CASE k < m
      <4>1. x \in Nat /\ x <= z
        BY <1>1, <1>3, <1>8, <3>1, <3>2
      <4>2. x \div b <= t
        BY <1>1, <1>8, <4>1, DivisionGrows
      <4>3. k \in 0 .. P - 1
        BY <1>1, <3>2
      <4> QED BY <1>6, <1>7, <3>1, <3>2, <4>2, <4>3 DEF x
    <3>3. CASE ~ (k < m) /\ x \div b <= t
      <4> DEFINE c == x \div b
                 i == x % b
      <4>1. x = b * c + i /\ c \in Nat /\ i \in 0 .. b - 1
        <5>1. x \in Nat
          BY <1>1, <1>3, <3>1
        <5> QED BY <1>1, <5>1, Division
      <4>2. c \in 0 .. n - 1
        <5> HIDE DEF c, t
        <5>1. c <= t
          BY <3>3 DEF c
        <5> QED BY <1>1, <1>2, <4>1, <5>1
      <4> HIDE DEF c, i
      <4>3. x \in 0 .. P - 1
        BY <1>1, <4>1, <4>2, PlaceFrom DEF P, b
      <4>4. k \in 0 .. P - 1
        BY <1>1, <1>3, <3>1, <4>3
      <4> QED BY <1>6, <1>7, <3>1, <3>3, <4>4 DEF x
    <3>4. CASE ~ (k < m) /\ ~ (x \div b <= t)
      BY <1>6, <3>1, <3>4 DEF x
    <3> QED BY <3>2, <3>3, <3>4
  <2>2. CASE ~ (r + k < 2 * P)
    <3> DEFINE y == r + k - 2 * P
               j == P - r + y
    <3>1. /\ y \in Nat /\ y < r /\ y < 2 * P /\ r + k = y + 2 * P /\ ~ (k < m)
          /\ j \in 0 .. P - 1 /\ ~ (j < m) /\ g + y + P = f + j /\ g + y \in Nat
      <4>1. k < 2 * P /\ k \in Nat
        BY <1>1, <1>4
      <4> QED BY <1>1, <1>3, <1>4, <2>2, <4>1
    <3> HIDE DEF y, j
    <3>2. Spot(y + Circle(2 * n), 2 * n) = Spot(y, 2 * n) /\ Spot(y, 2 * n) = y
      <4>1. 2 * n \in Nat \ {0} /\ y < Circle(2 * n)
        BY <1>4, <3>1
      <4> QED BY <3>1, <4>1, SpotsReturn
    <3>3. x = y /\ x \in 0 .. Circle(2 * n) - 1
      BY <1>1, <1>4, <3>1, <3>2
    <3>4. Spot(g + y, n) = Spot(f + j, n)
      <4> DEFINE w == g + y
      <4>1. w \in Nat /\ w + P = f + j
        BY <3>1
      <4> HIDE DEF w
      <4>2. Spot(w + Circle(n), n) = Spot(w, n)
        BY <1>1, <4>1, SpotsReturn
      <4> QED BY <4>1, <4>2 DEF w, P
    <3> HIDE DEF x
    <3> QED BY <1>6, <1>7, <3>1, <3>3, <3>4 DEF x
  <2> QED BY <2>1, <2>2
<1>10. Wound(e, 2 * n, s)
  BY <1>5, <1>9 DEF Wound, m
<1>11. s \in Seq(Item) /\ Len(s) <= Circle(2 * n) - BlockSize
  <2>1. s \in Seq(Item)
    BY DEF Holds
  <2> QED BY <1>1, <1>4, <2>1 DEF m, b
<1> QED BY <1>4, <1>5, <1>10, <1>11 DEF Holds, e, m

\* A deque with room for one more element
Roomy(d, n, s) == Holds(d, n, s) /\ Len(s) < Circle(n) - BlockSize

\* _extend_if_full
LEMMA DequeExtended ==
  ASSUME NEW d, NEW s, IsDeque(d, s)
  PROVE  \E n : Roomy(D!ExtendIfFull(d), n, s)
<1> DEFINE e == D!ExtendIfFull(d)
<1>1. CASE d = NoMap /\ s = << >>
  <2>1. e = D!InitMap(DequeBlocks)
    BY <1>1, NoCapacity DEF D!ExtendIfFull
  <2>2. DequeBlocks \in Nat
    BY ArraysAssumption
  <2>3. PICK n : Holds(D!InitMap(DequeBlocks), n, << >>)
    BY <2>2, HoldsInitMap
  <2>4. n \in Nat \ {0, 1} /\ BlockSize \in Nat \ {0}
    BY <2>3, ArraysAssumption DEF Holds
  <2>5. Circle(n) >= 2 * BlockSize /\ Circle(n) \in Nat
    BY <2>4, CircleOfTwo, CircleIs
  <2>6. Len(<< >>) < Circle(n) - BlockSize
    BY <2>4, <2>5
  <2> HIDE DEF e
  <2>7. Roomy(e, n, s)
    BY <1>1, <2>1, <2>3, <2>6 DEF Roomy
  <2> QED BY <2>7 DEF e
<1>2. CASE \E n : Holds(d, n, s)
  <2>1. PICK n : Holds(d, n, s)
    BY <1>2
  <2>2. /\ n \in Nat \ {0, 1} /\ n \in Nat \ {0} /\ BlockSize \in Nat \ {0}
        /\ Circle(n) \in Nat \ {0} /\ Len(s) \in Nat /\ d.size = Len(s) /\ Mapped(d, n)
        /\ Len(s) <= Circle(n) - BlockSize
    BY <2>1, HoldsNumbers DEF Holds
  <2>3. D!Capacity(d) = n
    BY <2>2, DequeCapacity
  <2>4. /\ (n - 1) * BlockSize = Circle(n) - BlockSize /\ Circle(2 * n) = 2 * Circle(n)
        /\ Circle(n) >= 2 * BlockSize
    BY <2>2, CircleDoubles, CircleOfTwo
  <2>5. CASE Len(s) = Circle(n) - BlockSize
    <3>1. e = D!Reserved(d, 2 * n)
      <4>1. d.size >= (n - 1) * BlockSize
        BY <2>2, <2>4, <2>5
      <4> QED BY <2>2, <2>3, <4>1 DEF D!ExtendIfFull
    <3>2. Holds(D!Reserved(d, 2 * n), 2 * n, s)
      BY <2>1, <2>5, HoldsReserved
    <3>3. Len(s) < Circle(2 * n) - BlockSize
      BY <2>2, <2>4, <2>5
    <3> HIDE DEF e
    <3>4. Roomy(e, 2 * n, s)
      BY <3>1, <3>2, <3>3 DEF Roomy
    <3> QED BY <3>4 DEF e
  <2>6. CASE Len(s) # Circle(n) - BlockSize
    <3>1. e = d
      <4>1. ~ (d.size >= (n - 1) * BlockSize)
        BY <2>2, <2>4, <2>6
      <4> QED BY <2>2, <2>3, <4>1 DEF D!ExtendIfFull
    <3>2. Len(s) < Circle(n) - BlockSize
      BY <2>2, <2>6
    <3> HIDE DEF e
    <3>3. Roomy(e, n, s)
      BY <2>1, <3>1, <3>2 DEF Roomy
    <3> QED BY <3>3 DEF e
  <2> QED BY <2>5, <2>6
<1> QED BY <1>1, <1>2 DEF IsDeque

\* emplace_back
LEMMA DequePushedBack ==
  ASSUME NEW d, NEW s, IsDeque(d, s), NEW v \in Item
  PROVE  \E n : Holds(D!PushedBack(d, v), n, Put1(s, Len(s) + 1, v))
<1> DEFINE e == D!ExtendIfFull(d)
           o == e.first + e.size
<1>1. PICK n : Roomy(e, n, s)
  BY DequeExtended
<1>2. D!PushedBack(d, v) = [D!Write(D!Allocated(e, o), o, v) EXCEPT !.size = @ + 1]
  BY DEF D!PushedBack
<1> HIDE DEF e
<1>3. Holds([D!Write(D!Allocated(e, o), o, v) EXCEPT !.size = @ + 1], n, Put1(s, Len(s) + 1, v))
  BY <1>1, HoldsBehind DEF Roomy
<1> HIDE DEF o
<1> QED BY <1>2, <1>3

\* emplace_front
LEMMA DequePushedFront ==
  ASSUME NEW d, NEW s, IsDeque(d, s), NEW v \in Item
  PROVE  \E n : Holds(D!PushedFront(d, v), n, Put1(s, 1, v))
<1> DEFINE e == D!ExtendIfFull(d)
           o == (IF e.first = 0 THEN D!Capacity(e) * BlockSize ELSE e.first) - 1
<1>1. PICK n : Roomy(e, n, s)
  BY DequeExtended
<1>2. D!PushedFront(d, v) =
        [D!Write(D!Allocated(e, o), o, v) EXCEPT !.size = @ + 1, !.first = o]
  BY DEF D!PushedFront
<1> HIDE DEF e
<1>3. D!Capacity(e) = n
  BY <1>1, HoldsNumbers, DequeCapacity DEF Roomy
<1>4. o = Before(e, n)
  BY <1>3 DEF Before, Circle
<1> HIDE DEF o
<1>5. Holds([D!Write(D!Allocated(e, o), o, v) EXCEPT !.size = @ + 1, !.first = o], n, Put1(s, 1, v))
  BY <1>1, <1>4, HoldsBefore DEF Roomy
<1> QED BY <1>2, <1>5

-----------------------------------------------------------------------------
(* emplace and erase of a deque.                                           *)

\* w is s, but along q each place has what the next one had, and the last v
Rotated(w, s, q, v) ==
  /\ w \in Seq(Item) /\ Len(w) = Len(s)
  /\ \A j \in 1 .. Len(q) - 1 : w[q[j]] = s[q[j + 1]]
  /\ w[q[Len(q)]] = v
  /\ \A i \in 1 .. Len(s) : (\A j \in 1 .. Len(q) : q[j] # i) => w[i] = s[i]

\* A sequence with another element in one place
LEMMA Replacing ==
  ASSUME NEW E, NEW s \in Seq(E), NEW e \in E, NEW a
  PROVE  /\ [s EXCEPT ![a] = e] \in Seq(E) /\ Len([s EXCEPT ![a] = e]) = Len(s)
         /\ \A i \in 1 .. Len(s) : [s EXCEPT ![a] = e][i] = IF i = a THEN e ELSE s[i]
<1> DEFINE t == [s EXCEPT ![a] = e]
           k == Len(s)
<1>1. k \in Nat /\ DOMAIN s = 1 .. k /\ \A i \in 1 .. k : s[i] \in E
  OBVIOUS
<1> HIDE DEF k
<1>2. t = [i \in 1 .. k |-> IF i = a THEN e ELSE s[i]]
  BY <1>1
<1> HIDE DEF t
<1>3. t \in [1 .. k -> E]
  BY <1>1, <1>2
<1>4. t \in Seq(E) /\ Len(t) = k
  BY <1>1, <1>3
<1> QED BY <1>2, <1>4 DEF t, k

\* An element is taken out, the others move along q, and v is put in
LEMMA HoldsRotated ==
  ASSUME NEW d, NEW n, NEW s, Holds(d, n, s), NEW q, Path(q, 1 .. Len(s)), NEW p,
         p = Offsets(d, q),
         NEW v \in Item, NEW begin, begin = d.first + q[1] - 1,
         NEW end, end = d.first + q[Len(q)] - 1
  PROVE  \E w : /\ Holds(D!Write(D!MovedAlong(D!Write(d, begin, Moved), p), end, v), n, w)
                /\ Rotated(w, s, q, v)
<1> DEFINE m == Len(q)
           L == Len(s)
           a == q[1]
           b == q[m]
           e == D!Write(d, begin, Moved)
           t == [s EXCEPT ![a] = Moved]
           g == D!MovedAlong(e, p)
<1>1. /\ m \in Nat /\ m >= 1 /\ L \in Nat /\ s \in Seq(Item) /\ d.first \in Nat
      /\ \A k \in 1 .. m : q[k] \in 1 .. L
      /\ \A j, k \in 1 .. m : q[j] = q[k] => j = k
  <2>1. L \in Nat /\ d.first \in Nat /\ s \in Seq(Item)
    BY HoldsNumbers DEF Holds
  <2>2. m \in Nat /\ m >= 1 /\ \A k \in 1 .. m : q[k] \in 1 .. L
    BY DEF Path
  <2>3. \A j, k \in 1 .. m : q[j] = q[k] => j = k
    BY DEF Path
  <2> QED BY <2>1, <2>2, <2>3
<1>2. a \in 1 .. L /\ b \in 1 .. L /\ 1 \in 1 .. m /\ m \in 1 .. m
  BY <1>1
<1>3. Holds(e, n, t) /\ e.first = d.first
  <2>1. Moved \in Item
    BY DEF Item
  <2> HIDE DEF a
  <2>2. begin = d.first + a - 1
    BY DEF a
  <2> QED BY <1>2, <2>1, <2>2, HoldsWritten
<1>4. t \in Seq(Item) /\ Len(t) = L /\ \A i \in 1 .. L : i # a => t[i] = s[i]
  <2>1. Moved \in Item
    BY DEF Item
  <2> HIDE DEF a, L
  <2>2. s \in Seq(Item) /\ Len(s) = L
    BY <1>1 DEF L
  <2> QED BY <2>1, <2>2, Replacing
<1> HIDE DEF e, t, a, b
<1>5. p = Offsets(e, q) /\ Path(q, 1 .. Len(t))
  BY <1>3, <1>4 DEF Offsets
<1>6. PICK u : Holds(g, n, u) /\ g.first = e.first /\ Along(u, t, q, m)
  BY <1>3, <1>5, HoldsMovedAlong
<1>7. u \in Seq(Item) /\ Len(u) = L
  <2>1. u \in Seq(Item) /\ DOMAIN u = DOMAIN t
    BY <1>6 DEF Along, Holds
  <2> QED BY <1>1, <1>4, <2>1
<1> HIDE DEF g
<1> DEFINE w == [u EXCEPT ![b] = v]
<1>8. Holds(D!Write(g, end, v), n, w)
  <2>1. b \in 1 .. Len(u) /\ end = g.first + b - 1
    BY <1>2, <1>3, <1>6, <1>7 DEF b
  <2> QED BY <1>6, <2>1, HoldsWritten
<1>9. /\ w \in Seq(Item) /\ Len(w) = L
      /\ \A i \in 1 .. L : w[i] = IF i = b THEN v ELSE u[i]
  BY <1>1, <1>2, <1>7
<1> HIDE DEF w
<1>10. ASSUME NEW j \in 1 .. m - 1 PROVE w[q[j]] = s[q[j + 1]]
  <2>1. /\ j \in 1 .. m /\ j + 1 \in 1 .. m /\ j # m /\ j + 1 # 1
    BY <1>1
  <2>2. q[j] \in 1 .. L /\ q[j + 1] \in 1 .. L /\ q[j] # b /\ q[j + 1] # a
    BY <1>1, <1>2, <2>1 DEF a, b
  <2>3. u[q[j]] = t[q[j + 1]]
    BY <1>6 DEF Along
  <2> QED BY <1>4, <1>9, <2>2, <2>3
<1>11. ASSUME NEW i \in 1 .. L, \A j \in 1 .. m : q[j] # i PROVE w[i] = s[i]
  <2>1. i # a /\ i # b
    BY <1>2, <1>11 DEF a, b
  <2>2. i \in DOMAIN t
    BY <1>1, <1>4
  <2>3. u[i] = t[i]
    BY <1>6, <1>11, <2>2 DEF Along
  <2> QED BY <1>4, <1>9, <2>1, <2>3
<1>12. Rotated(w, s, q, v)
  BY <1>2, <1>9, <1>10, <1>11 DEF Rotated, b
<1> QED BY <1>8, <1>12 DEF g, e

\* A sequence is told by its elements
LEMMA SameSequence ==
  ASSUME NEW E, NEW s \in Seq(E), NEW t \in Seq(E), Len(s) = Len(t),
         \A i \in 1 .. Len(s) : s[i] = t[i]
  PROVE  s = t
OBVIOUS

\* emplace, by way of the front
LEMMA EmplacedInFront ==
  ASSUME NEW d, NEW s \in Seq(Item), IsDeque(d, s), NEW v \in Item,
         NEW off \in 0 .. Len(s),
         NEW e, e = D!PushedFront(d, v)
  PROVE  \E n : Holds(D!Write(D!ShiftedDown(D!Write(e, e.first, Moved), e.first, e.first + off),
                              e.first + off, D!Read(e, e.first)),
                      n, Put1(s, off + 1, v))
<1> DEFINE L == Len(s)
           t == Put1(s, 1, v)
           k == off + 1
           q == [i \in 1 .. k |-> i]
           f == e.first
           a == D!Write(e, f, Moved)
           p == [i \in 1 .. (f + off) - f + 1 |-> f + i - 1]
           r == Put1(s, off + 1, v)
<1>1. PICK n : Holds(e, n, t)
  BY DequePushedFront
<1>2. /\ L \in Nat /\ 1 \in 1 .. L + 1 /\ k \in 1 .. L + 1 /\ k \in Nat /\ off \in Nat
  OBVIOUS
<1>3. /\ t \in Seq(Item) /\ Len(t) = L + 1
      /\ \A i \in 1 .. L + 1 :
           t[i] = IF i < 1 THEN s[i] ELSE IF i = 1 THEN v ELSE s[i - 1]
  BY <1>2, Put1Is
<1>4. /\ r \in Seq(Item) /\ Len(r) = L + 1
      /\ \A i \in 1 .. L + 1 :
           r[i] = IF i < k THEN s[i] ELSE IF i = k THEN v ELSE s[i - 1]
  BY <1>2, Put1Is
<1> HIDE DEF t, r, L, f, k
<1>5. q \in Seq(1 .. Len(t)) /\ Len(q) = k /\ \A i \in 1 .. k : q[i] = i
  <2>1. q \in [1 .. k -> 1 .. Len(t)]
    BY <1>2, <1>3
  <2> QED BY <1>2, <2>1
<1> HIDE DEF q
<1>6. Path(q, 1 .. Len(t))
  BY <1>2, <1>5 DEF Path
<1>7. f \in Nat /\ f = e.first
  BY <1>1, HoldsNumbers DEF f
<1>8. p = Offsets(e, q)
  <2>1. (f + off) - f + 1 = k
    BY <1>2, <1>7 DEF k
  <2> QED BY <1>5, <1>7, <2>1 DEF Offsets
<1>9. D!ShiftedDown(a, f, f + off) = D!MovedAlong(a, p)
  BY DEF D!ShiftedDown
<1>10. D!Read(e, f) = v
  <2>1. 1 \in 1 .. Len(t) /\ f = e.first + 1 - 1 /\ t[1] = v
    BY <1>2, <1>3, <1>7
  <2> QED BY <1>1, <2>1, HoldsRead
<1> HIDE DEF p
<1>11. PICK w : Holds(D!Write(D!MovedAlong(a, p), f + off, v), n, w) /\ Rotated(w, t, q, v)
  <2>1. f = e.first + q[1] - 1 /\ f + off = e.first + q[Len(q)] - 1
    BY <1>2, <1>5, <1>7 DEF k
  <2> QED BY <1>1, <1>6, <1>8, <2>1, HoldsRotated
<1> HIDE DEF a
<1>12. ASSUME NEW i \in 1 .. L + 1 PROVE w[i] = r[i]
  <2>1. CASE i < k
    <3>1. i \in 1 .. Len(q) - 1 /\ i + 1 \in 1 .. k /\ i \in 1 .. k
      BY <1>2, <1>5, <2>1
    <3>2. w[q[i]] = t[q[i + 1]]
      BY <1>11, <3>1 DEF Rotated
    <3>3. i + 1 \in 1 .. L + 1 /\ ~ (i + 1 < 1) /\ i + 1 # 1 /\ (i + 1) - 1 = i
      BY <1>2, <2>1
    <3>4. t[i + 1] = s[i]
      BY <1>3, <3>3
    <3> QED BY <1>4, <1>5, <2>1, <3>1, <3>2, <3>4
  <2>2. CASE i = k
    BY <1>2, <1>4, <1>5, <1>11, <2>2 DEF Rotated
  <2>3. CASE i > k
    <3>1. \A j \in 1 .. Len(q) : q[j] # i
      BY <1>2, <1>5, <2>3
    <3>2. w[i] = t[i]
      BY <1>3, <1>11, <3>1 DEF Rotated
    <3>3. t[i] = s[i - 1]
      BY <1>2, <1>3, <2>3
    <3> QED BY <1>2, <1>4, <2>3, <3>2, <3>3
  <2> QED BY <1>2, <2>1, <2>2, <2>3
<1>13. w = r
  <2>1. w \in Seq(Item) /\ Len(w) = L + 1
    BY <1>3, <1>11 DEF Rotated
  <2> QED BY <1>4, <1>12, <2>1, SameSequence
<1> QED BY <1>9, <1>10, <1>11, <1>13 DEF a, f, r

\* emplace, by way of the back
LEMMA EmplacedBehind ==
  ASSUME NEW d, NEW s \in Seq(Item), IsDeque(d, s), NEW v \in Item,
         NEW off \in 0 .. Len(s),
         NEW e, e = D!PushedBack(d, v), NEW last, last = e.first + e.size - 1
  PROVE  \E n : Holds(D!Write(D!ShiftedUp(D!Write(e, last, Moved), last, e.first + off),
                              e.first + off, D!Read(e, last)),
                      n, Put1(s, off + 1, v))
<1> DEFINE L == Len(s)
           t == Put1(s, L + 1, v)
           k == L - off + 1
           q == [i \in 1 .. k |-> L + 2 - i]
           f == e.first
           a == D!Write(e, last, Moved)
           p == [i \in 1 .. last - (f + off) + 1 |-> last - i + 1]
           r == Put1(s, off + 1, v)
<1>1. PICK n : Holds(e, n, t)
  BY DequePushedBack
<1>2. /\ L \in Nat /\ L + 1 \in 1 .. L + 1 /\ off + 1 \in 1 .. L + 1 /\ off \in Nat
      /\ k \in 1 .. L + 1 /\ k \in Nat
  OBVIOUS
<1>3. /\ t \in Seq(Item) /\ Len(t) = L + 1
      /\ \A i \in 1 .. L + 1 :
           t[i] = IF i < L + 1 THEN s[i] ELSE IF i = L + 1 THEN v ELSE s[i - 1]
  BY <1>2, Put1Is, SMTT(30)
<1>4. /\ r \in Seq(Item) /\ Len(r) = L + 1
      /\ \A i \in 1 .. L + 1 :
           r[i] = IF i < off + 1 THEN s[i] ELSE IF i = off + 1 THEN v ELSE s[i - 1]
  BY <1>2, Put1Is, SMTT(30)
<1>5. k = L - off + 1
  OBVIOUS
<1> HIDE DEF t, r, L, f, k
<1>6. q \in Seq(1 .. Len(t)) /\ Len(q) = k /\ \A i \in 1 .. k : q[i] = L + 2 - i
  <2>1. \A i \in 1 .. k : L + 2 - i \in 1 .. Len(t)
    BY <1>2, <1>3
  <2>2. q \in [1 .. k -> 1 .. Len(t)]
    BY <2>1
  <2> QED BY <1>2, <2>2
<1> HIDE DEF q
<1>7. Path(q, 1 .. Len(t))
  BY <1>2, <1>6 DEF Path
<1>8. f \in Nat /\ f = e.first /\ last = f + L
  <2>1. e.first \in Nat /\ e.size = L + 1
    BY <1>1, <1>3, HoldsNumbers
  <2> QED BY <1>2, <2>1 DEF f
<1>9. p = Offsets(e, q)
  <2>1. last - (f + off) + 1 = k
    BY <1>2, <1>5, <1>8, SMTT(30)
  <2>2. ASSUME NEW i \in 1 .. k PROVE last - i + 1 = f + q[i] - 1
    <3> DEFINE x == q[i]
    <3>1. x = L + 2 - i
      BY <1>6
    <3> HIDE DEF x
    <3>2. last - i + 1 = f + x - 1
      BY <1>2, <1>8, <3>1, SMTT(30)
    <3> QED BY <3>2 DEF x
  <2> QED BY <1>6, <1>8, <2>1, <2>2 DEF Offsets
<1>10. D!ShiftedUp(a, last, f + off) = D!MovedAlong(a, p)
  BY DEF D!ShiftedUp
<1>11. D!Read(e, last) = v
  <2>1. L + 1 \in 1 .. Len(t) /\ last = e.first + (L + 1) - 1 /\ t[L + 1] = v
    BY <1>2, <1>3, <1>8, SMTT(30)
  <2> QED BY <1>1, <2>1, HoldsRead
<1> HIDE DEF p
<1>12. PICK w : Holds(D!Write(D!MovedAlong(a, p), f + off, v), n, w) /\ Rotated(w, t, q, v)
  <2>1. last = e.first + q[1] - 1 /\ f + off = e.first + q[Len(q)] - 1
    <3> DEFINE x == q[1]
               y == q[Len(q)]
    <3>1. x = L + 1 /\ y = off + 1
      BY <1>2, <1>5, <1>6
    <3> HIDE DEF x, y
    <3>2. last = f + x - 1 /\ f + off = f + y - 1
      BY <1>2, <1>8, <3>1
    <3> QED BY <1>8, <3>2 DEF x, y
  <2> QED BY <1>1, <1>7, <1>9, <2>1, HoldsRotated
<1> HIDE DEF a
<1>13. ASSUME NEW i \in 1 .. L + 1 PROVE w[i] = r[i]
  <2>1. CASE i > off + 1
    <3> DEFINE j == L + 2 - i
    <3>1. /\ j \in 1 .. k - 1 /\ j \in 1 .. k /\ j + 1 \in 1 .. k /\ L + 2 - j = i
          /\ L + 2 - (j + 1) = i - 1
      BY <1>2, <1>5, <2>1
    <3> HIDE DEF j
    <3>2. w[q[j]] = t[q[j + 1]]
      BY <1>6, <1>12, <3>1 DEF Rotated
    <3>3. i - 1 \in 1 .. L + 1 /\ i - 1 < L + 1
      BY <1>2, <2>1
    <3>4. t[i - 1] = s[i - 1]
      BY <1>3, <3>3
    <3>5. w[i] = s[i - 1]
      BY <1>6, <3>1, <3>2, <3>4
    <3>6. ~ (i < off + 1) /\ i # off + 1
      BY <1>2, <2>1
    <3> QED BY <1>4, <3>5, <3>6
  <2>2. CASE i = off + 1
    <3>1. q[Len(q)] = i
      BY <1>2, <1>5, <1>6, <2>2
    <3> QED BY <1>4, <1>12, <2>2, <3>1 DEF Rotated
  <2>3. CASE i < off + 1
    <3>1. \A j \in 1 .. Len(q) : q[j] # i
      BY <1>2, <1>5, <1>6, <2>3
    <3>2. w[i] = t[i]
      BY <1>3, <1>12, <3>1 DEF Rotated
    <3>3. t[i] = s[i]
      BY <1>2, <1>3, <2>3
    <3> QED BY <1>4, <2>3, <3>2, <3>3
  <2> QED BY <1>2, <2>1, <2>2, <2>3
<1>14. w = r
  <2>1. w \in Seq(Item) /\ Len(w) = L + 1
    BY <1>3, <1>12 DEF Rotated
  <2> QED BY <1>4, <1>13, <2>1, SameSequence
<1> QED BY <1>10, <1>11, <1>12, <1>14 DEF a, f, r

\* emplace, by way of the nearer end, puts the value in behind off elements
LEMMA DequeEmplaced ==
  ASSUME NEW d, NEW s \in Seq(Item), IsDeque(d, s), NEW v \in Item,
         NEW off \in 0 .. Len(s)
  PROVE  \E n : Holds(D!Emplaced(d, off, v), n, Put1(s, off + 1, v))
<1>1. CASE off <= d.size \div 2
  BY <1>1, EmplacedInFront DEF D!Emplaced
<1>2. CASE ~ (off <= d.size \div 2)
  BY <1>2, EmplacedBehind DEF D!Emplaced
<1> QED BY <1>1, <1>2

\* erase, by way of the front
LEMMA ErasedInFront ==
  ASSUME NEW d, NEW n, NEW s, Holds(d, n, s), NEW off \in 0 .. Len(s) - 1
  PROVE  Holds(D!PoppedFront(D!ShiftedUp(d, d.first + off, d.first)), n, Cut1(s, off + 1))
<1> DEFINE L == Len(s)
           k == off + 1
           q == [i \in 1 .. k |-> k + 1 - i]
           f == d.first
           p == [i \in 1 .. (f + off) - f + 1 |-> (f + off) - i + 1]
           g == D!ShiftedUp(d, f + off, f)
           r == Cut1(s, off + 1)
<1>1. s \in Seq(Item) /\ f \in Nat
  BY HoldsNumbers DEF Holds
<1>2. L \in Nat /\ k \in 1 .. L /\ k \in Nat /\ off \in Nat /\ k = off + 1
  BY <1>1
<1>3. /\ r \in Seq(Item) /\ Len(r) = L - 1
      /\ \A i \in 1 .. L - 1 : r[i] = IF i < k THEN s[i] ELSE s[i + 1]
  BY <1>1, <1>2, Cut1Is
<1> HIDE DEF r, L, f, k
<1>4. q \in Seq(1 .. Len(s)) /\ Len(q) = k /\ \A i \in 1 .. k : q[i] = k + 1 - i
  <2>1. \A i \in 1 .. k : k + 1 - i \in 1 .. Len(s)
    BY <1>2 DEF L
  <2>2. q \in [1 .. k -> 1 .. Len(s)]
    BY <2>1
  <2> QED BY <1>2, <2>2
<1> HIDE DEF q
<1>5. Path(q, 1 .. Len(s))
  BY <1>2, <1>4 DEF Path
<1>6. p = Offsets(d, q)
  <2>1. (f + off) - f + 1 = k
    BY <1>1, <1>2
  <2>2. ASSUME NEW i \in 1 .. k PROVE (f + off) - i + 1 = f + q[i] - 1
    <3> DEFINE x == q[i]
    <3>1. x = k + 1 - i
      BY <1>4
    <3> HIDE DEF x
    <3>2. (f + off) - i + 1 = f + x - 1
      BY <1>1, <1>2, <3>1
    <3> QED BY <3>2 DEF x
  <2> QED BY <1>4, <2>1, <2>2 DEF Offsets, f
<1>7. g = D!MovedAlong(d, p)
  BY DEF D!ShiftedUp
<1> HIDE DEF p, g
<1>8. PICK u : Holds(g, n, u) /\ Along(u, s, q, k)
  BY <1>4, <1>5, <1>6, <1>7, HoldsMovedAlong
<1>9. u \in Seq(Item) /\ Len(u) = L /\ DOMAIN s = 1 .. L
  <2>1. u \in Seq(Item) /\ DOMAIN u = DOMAIN s
    BY <1>8 DEF Along, Holds
  <2> QED BY <1>1, <2>1 DEF L
<1>10. Holds(D!PoppedFront(g), n, Cut1(u, 1))
  <2>1. Len(u) > 0
    BY <1>2, <1>9
  <2> QED BY <1>8, <2>1, HoldsPoppedFront
<1> DEFINE w == Cut1(u, 1)
<1>11. /\ w \in Seq(Item) /\ Len(w) = L - 1
       /\ \A i \in 1 .. L - 1 : w[i] = IF i < 1 THEN u[i] ELSE u[i + 1]
  <2>1. 1 \in 1 .. Len(u)
    BY <1>2, <1>9
  <2> QED BY <1>9, <2>1, Cut1Is
<1> HIDE DEF w
<1>12. ASSUME NEW i \in 1 .. L - 1 PROVE w[i] = r[i]
  <2>1. w[i] = u[i + 1]
    BY <1>2, <1>11
  <2>2. CASE i < k
    <3> DEFINE j == k - i
    <3>1. /\ j \in 1 .. k - 1 /\ j \in 1 .. k /\ j + 1 \in 1 .. k /\ k + 1 - j = i + 1
          /\ k + 1 - (j + 1) = i
      BY <1>2, <2>2
    <3> HIDE DEF j
    <3>2. u[q[j]] = s[q[j + 1]]
      BY <1>8, <3>1 DEF Along
    <3> QED BY <1>3, <1>4, <2>1, <2>2, <3>1, <3>2
  <2>3. CASE ~ (i < k)
    <3>1. \A j \in 1 .. k : q[j] # i + 1
      BY <1>2, <1>4, <2>3
    <3>2. i + 1 \in 1 .. L
      BY <1>2
    <3>3. u[i + 1] = s[i + 1]
      BY <1>8, <1>9, <3>1, <3>2 DEF Along
    <3> QED BY <1>3, <2>1, <2>3, <3>3
  <2> QED BY <2>2, <2>3
<1>13. w = r
  BY <1>3, <1>11, <1>12, SameSequence
<1> QED BY <1>10, <1>13 DEF g, f, w, r

\* erase, by way of the back
LEMMA ErasedBehind ==
  ASSUME NEW d, NEW n, NEW s, Holds(d, n, s), NEW off \in 0 .. Len(s) - 1
  PROVE  Holds(D!PoppedBack(D!ShiftedDown(d, d.first + off, d.first + d.size - 1)),
               n, Cut1(s, off + 1))
<1> DEFINE L == Len(s)
           k == L - off
           q == [i \in 1 .. k |-> off + i]
           f == d.first
           last == f + d.size - 1
           p == [i \in 1 .. last - (f + off) + 1 |-> (f + off) + i - 1]
           g == D!ShiftedDown(d, f + off, last)
           r == Cut1(s, off + 1)
<1>1. s \in Seq(Item) /\ f \in Nat /\ d.size = L
  BY HoldsNumbers DEF Holds
<1>2. /\ L \in Nat /\ k \in 1 .. L /\ k \in Nat /\ off \in Nat /\ off + 1 \in 1 .. L
      /\ k = L - off
  BY <1>1
<1>3. /\ r \in Seq(Item) /\ Len(r) = L - 1
      /\ \A i \in 1 .. L - 1 : r[i] = IF i < off + 1 THEN s[i] ELSE s[i + 1]
  BY <1>1, <1>2, Cut1Is
<1> HIDE DEF r, L, f, k
<1>4. q \in Seq(1 .. Len(s)) /\ Len(q) = k /\ \A i \in 1 .. k : q[i] = off + i
  <2>1. \A i \in 1 .. k : off + i \in 1 .. Len(s)
    BY <1>2 DEF L
  <2>2. q \in [1 .. k -> 1 .. Len(s)]
    BY <2>1
  <2> QED BY <1>2, <2>2
<1> HIDE DEF q
<1>5. Path(q, 1 .. Len(s))
  BY <1>2, <1>4 DEF Path
<1>6. p = Offsets(d, q)
  <2>1. last - (f + off) + 1 = k
    BY <1>1, <1>2
  <2>2. ASSUME NEW i \in 1 .. k PROVE (f + off) + i - 1 = f + q[i] - 1
    <3> DEFINE x == q[i]
    <3>1. x = off + i
      BY <1>4
    <3> HIDE DEF x
    <3>2. (f + off) + i - 1 = f + x - 1
      BY <1>1, <1>2, <3>1
    <3> QED BY <3>2 DEF x
  <2> HIDE DEF last
  <2> QED BY <1>4, <2>1, <2>2 DEF Offsets, f
<1>7. g = D!MovedAlong(d, p)
  BY DEF D!ShiftedDown
<1> HIDE DEF p, g
<1>8. PICK u : Holds(g, n, u) /\ Along(u, s, q, k)
  BY <1>4, <1>5, <1>6, <1>7, HoldsMovedAlong
<1>9. u \in Seq(Item) /\ Len(u) = L /\ DOMAIN s = 1 .. L
  <2>1. u \in Seq(Item) /\ DOMAIN u = DOMAIN s
    BY <1>8 DEF Along, Holds
  <2> QED BY <1>1, <2>1 DEF L
<1> DEFINE w == Cut1(u, L)
<1>10. Holds(D!PoppedBack(g), n, w)
  <2>1. Len(u) > 0
    BY <1>2, <1>9
  <2> QED BY <1>8, <1>9, <2>1, HoldsPoppedBack
<1>11. /\ w \in Seq(Item) /\ Len(w) = L - 1
       /\ \A i \in 1 .. L - 1 : w[i] = IF i < L THEN u[i] ELSE u[i + 1]
  <2>1. L \in 1 .. Len(u)
    BY <1>2, <1>9
  <2> QED BY <1>9, <2>1, Cut1Is
<1> HIDE DEF w
<1>12. ASSUME NEW i \in 1 .. L - 1 PROVE w[i] = r[i]
  <2>1. w[i] = u[i]
    BY <1>2, <1>11
  <2>2. CASE ~ (i < off + 1)
    <3> DEFINE j == i - off
    <3>1. /\ j \in 1 .. k - 1 /\ j \in 1 .. k /\ j + 1 \in 1 .. k /\ off + j = i
          /\ off + (j + 1) = i + 1
      BY <1>2, <2>2
    <3> HIDE DEF j
    <3>2. u[q[j]] = s[q[j + 1]]
      BY <1>8, <3>1 DEF Along
    <3> QED BY <1>3, <1>4, <2>1, <2>2, <3>1, <3>2
  <2>3. CASE i < off + 1
    <3>1. \A j \in 1 .. k : q[j] # i
      BY <1>2, <1>4, <2>3
    <3>2. i \in 1 .. L
      BY <1>2
    <3>3. u[i] = s[i]
      BY <1>8, <1>9, <3>1, <3>2 DEF Along
    <3> QED BY <1>3, <2>1, <2>3, <3>3
  <2> QED BY <2>2, <2>3
<1>13. w = r
  BY <1>3, <1>11, <1>12, SameSequence
<1> QED BY <1>10, <1>13 DEF g, f, w, r

\* erase, by way of the nearer end, cuts the element at off out
LEMMA DequeErased ==
  ASSUME NEW d, NEW n, NEW s, Holds(d, n, s), NEW off \in 0 .. Len(s) - 1
  PROVE  Holds(D!Erased(d, off), n, Cut1(s, off + 1))
<1>1. CASE off <= d.size \div 2
  BY <1>1, ErasedInFront DEF D!Erased
<1>2. CASE ~ (off <= d.size \div 2)
  BY <1>2, ErasedBehind DEF D!Erased
<1> QED BY <1>1, <1>2

-----------------------------------------------------------------------------
(* Elements that are appended or taken off one at a time.                  *)

DequeAppends(f, d, part, n) ==
  f = [i \in 0 .. n |-> IF i = 0 THEN d ELSE D!PushedBack(f[i - 1], part[i])]

\* The recursive function of Appended exists
LEMMA DequeAppendsExist ==
  ASSUME NEW d, NEW part, NEW n \in Nat
  PROVE  \E f : DequeAppends(f, d, part, n)
<1> DEFINE Turn(u, k) == D!PushedBack(u, part[k])
           T == {m \in Nat : \E f : f = [k \in 0 .. m |-> IF k = 0 THEN d ELSE Turn(f[k - 1], k)]}
<1> HIDE DEF Turn
<1>1. 0 \in T
  <2> DEFINE f == [k \in 0 .. 0 |-> d]
  <2>1. f = [k \in 0 .. 0 |-> IF k = 0 THEN d ELSE Turn(f[k - 1], k)]
    OBVIOUS
  <2> QED BY <2>1
<1>2. ASSUME NEW m \in Nat, m \in T
      PROVE  m + 1 \in T
  <2>1. PICK f : f = [k \in 0 .. m |-> IF k = 0 THEN d ELSE Turn(f[k - 1], k)]
    BY <1>2
  <2> DEFINE g == [k \in 0 .. m + 1 |-> IF k = m + 1 THEN Turn(f[m], m + 1) ELSE f[k]]
  <2>2. ASSUME NEW k \in 0 .. m + 1
        PROVE  g[k] = IF k = 0 THEN d ELSE Turn(g[k - 1], k)
    <3>1. CASE k = 0
      BY <2>1, <3>1
    <3>2. CASE k # 0
      <4>1. k - 1 \in 0 .. m /\ k - 1 \in 0 .. m + 1 /\ k - 1 # m + 1
        BY <3>2
      <4>2. g[k - 1] = f[k - 1]
        BY <4>1
      <4>3. CASE k = m + 1
        BY <3>2, <4>2, <4>3
      <4>4. CASE k # m + 1
        <5>1. k \in 0 .. m
          BY <4>4
        <5> QED BY <2>1, <3>2, <4>2, <4>4, <5>1
      <4> QED BY <4>3, <4>4
    <3> QED BY <3>1, <3>2
  <2>3. g = [k \in 0 .. m + 1 |-> IF k = 0 THEN d ELSE Turn(g[k - 1], k)]
    <3>1. g = [k \in 0 .. m + 1 |-> g[k]]
      OBVIOUS
    <3> HIDE DEF g
    <3> QED BY <2>2, <3>1
  <2> HIDE DEF g
  <2> QED BY <2>3
<1> HIDE DEF T
<1>3. n \in T
  BY <1>1, <1>2, Induct
<1> QED BY <1>3 DEF T, Turn, DequeAppends

\* s and the first n elements of part
Lengthened(s, part, n) ==
  [i \in 1 .. Len(s) + n |-> IF i <= Len(s) THEN s[i] ELSE part[i - Len(s)]]

\* s with n elements of part behind it is a sequence
LEMMA LengthenedIs ==
  ASSUME NEW E, NEW s \in Seq(E), NEW part \in Seq(E), NEW n \in 0 .. Len(part)
  PROVE  /\ Lengthened(s, part, n) \in Seq(E)
         /\ Len(Lengthened(s, part, n)) = Len(s) + n
         /\ \A i \in 1 .. Len(s) + n :
              Lengthened(s, part, n)[i] = IF i <= Len(s) THEN s[i] ELSE part[i - Len(s)]
<1> DEFINE k == Len(s) + n
           t == Lengthened(s, part, n)
<1>1. k \in Nat
  OBVIOUS
<1>2. \A i \in 1 .. k : (IF i <= Len(s) THEN s[i] ELSE part[i - Len(s)]) \in E
  OBVIOUS
<1>3. t = [i \in 1 .. k |-> IF i <= Len(s) THEN s[i] ELSE part[i - Len(s)]]
  BY DEF Lengthened
<1> HIDE DEF k, t
<1>4. t \in [1 .. k -> E]
  BY <1>2, <1>3
<1>5. t \in Seq(E) /\ Len(t) = k
  BY <1>1, <1>4
<1> QED BY <1>3, <1>5 DEF k, t

\* One element more
LEMMA LengthenedMore ==
  ASSUME NEW E, NEW s \in Seq(E), NEW part \in Seq(E), NEW n \in Nat, n + 1 <= Len(part)
  PROVE  Put1(Lengthened(s, part, n), Len(Lengthened(s, part, n)) + 1, part[n + 1])
           = Lengthened(s, part, n + 1)
<1> DEFINE t == Lengthened(s, part, n)
           u == Lengthened(s, part, n + 1)
           w == Put1(t, Len(t) + 1, part[n + 1])
           L == Len(s)
<1>1. /\ t \in Seq(E) /\ Len(t) = L + n
      /\ \A i \in 1 .. L + n : t[i] = IF i <= L THEN s[i] ELSE part[i - L]
  <2>1. n \in 0 .. Len(part)
    OBVIOUS
  <2> QED BY <2>1, LengthenedIs
<1>2. /\ u \in Seq(E) /\ Len(u) = L + n + 1
      /\ \A i \in 1 .. L + n + 1 : u[i] = IF i <= L THEN s[i] ELSE part[i - L]
  <2> DEFINE m == n + 1
  <2>1. m \in 0 .. Len(part) /\ L + m = L + n + 1
    OBVIOUS
  <2> HIDE DEF m
  <2>2. /\ Lengthened(s, part, m) \in Seq(E) /\ Len(Lengthened(s, part, m)) = L + m
        /\ \A i \in 1 .. L + m :
             Lengthened(s, part, m)[i] = IF i <= L THEN s[i] ELSE part[i - L]
    BY <2>1, LengthenedIs
  <2> QED BY <2>1, <2>2 DEF m
<1>3. L \in Nat /\ part[n + 1] \in E
  OBVIOUS
<1> HIDE DEF t, u, L
<1>4. /\ w \in Seq(E) /\ Len(w) = Len(t) + 1
      /\ \A i \in 1 .. Len(t) + 1 :
           w[i] = IF i < Len(t) + 1 THEN t[i] ELSE IF i = Len(t) + 1 THEN part[n + 1]
             ELSE t[i - 1]
  <2> DEFINE pos == Len(t) + 1
             v == part[n + 1]
  <2>1. pos \in 1 .. Len(t) + 1 /\ t \in Seq(E) /\ v \in E
    BY <1>1, <1>3
  <2> HIDE DEF pos, v
  <2>2. /\ Put1(t, pos, v) \in Seq(E) /\ Len(Put1(t, pos, v)) = Len(t) + 1
        /\ \A i \in 1 .. Len(t) + 1 :
             Put1(t, pos, v)[i] = IF i < pos THEN t[i] ELSE IF i = pos THEN v
               ELSE t[i - 1]
    BY <2>1, Put1Is
  <2> QED BY <2>2 DEF pos, v
<1> HIDE DEF w
<1>5. ASSUME NEW i \in 1 .. Len(u) PROVE w[i] = u[i]
  <2>1. CASE i < L + n + 1
    <3>1. /\ i \in 1 .. L + n /\ i \in 1 .. L + n + 1 /\ i \in 1 .. Len(t) + 1
          /\ i < Len(t) + 1
      BY <1>1, <1>2, <1>3, <2>1
    <3> QED BY <1>1, <1>2, <1>4, <3>1
  <2>2. CASE i = L + n + 1
    <3>1. ~ (i <= L) /\ i - L = n + 1 /\ i = Len(t) + 1 /\ i \in 1 .. L + n + 1
      BY <1>1, <1>3, <2>2
    <3>2. u[i] = part[n + 1]
      BY <1>2, <3>1
    <3>3. w[i] = part[n + 1]
      <4>1. i \in 1 .. Len(t) + 1 /\ ~ (i < Len(t) + 1)
        BY <1>1, <1>3, <3>1
      <4> QED BY <1>4, <3>1, <4>1
    <3> QED BY <3>2, <3>3
  <2> QED BY <1>2, <1>3, <2>1, <2>2
<1>6. w = u
  <2>1. Len(w) = Len(u)
    BY <1>1, <1>2, <1>3, <1>4
  <2> QED BY <1>2, <1>4, <1>5, <2>1, SameSequence
<1> QED BY <1>6 DEF w, t, u

\* The elements of part, appended one at a time, are behind s
LEMMA DequeAppended ==
  ASSUME NEW d, NEW s \in Seq(Item), IsDeque(d, s), NEW part \in Seq(Item)
  PROVE  IsDeque(D!Appended(d, part), Lengthened(s, part, Len(part)))
<1> DEFINE m == Len(part)
           Turn(u, k) == D!PushedBack(u, part[k])
           f == CHOOSE f : f = [k \in 0 .. m |-> IF k = 0 THEN d ELSE Turn(f[k - 1], k)]
<1>1. m \in Nat
  OBVIOUS
<1>2. D!Appended(d, part) = f[m]
  BY Zenon DEF D!Appended
<1>3. \E g : g = [k \in 0 .. m |-> IF k = 0 THEN d ELSE Turn(g[k - 1], k)]
  <2> HIDE DEF m
  <2>1. \E g : DequeAppends(g, d, part, m)
    BY <1>1, DequeAppendsExist
  <2> QED BY <2>1 DEF DequeAppends
<1> HIDE DEF Turn
<1>4. f = [k \in 0 .. m |-> IF k = 0 THEN d ELSE Turn(f[k - 1], k)]
  BY <1>3, Zenon
<1> HIDE DEF f
<1> DEFINE T == {k \in Nat : k <= m => IsDeque(f[k], Lengthened(s, part, k))}
<1>5. 0 \in T
  <2>1. f[0] = d
    BY <1>1, <1>4
  <2>2. Lengthened(s, part, 0) = s
    <3>1. 0 \in 0 .. Len(part) /\ Len(s) + 0 = Len(s) /\ Len(s) \in Nat
      OBVIOUS
    <3>2. /\ Lengthened(s, part, 0) \in Seq(Item)
          /\ Len(Lengthened(s, part, 0)) = Len(s)
          /\ \A i \in 1 .. Len(s) :
               Lengthened(s, part, 0)[i]
                 = IF i <= Len(s) THEN s[i] ELSE part[i - Len(s)]
      BY <3>1, LengthenedIs, ZenonT(60)
    <3>3. \A i \in 1 .. Len(s) : Lengthened(s, part, 0)[i] = s[i]
      BY <3>1, <3>2
    <3> QED BY <3>2, <3>3, SameSequence
  <2> QED BY <2>1, <2>2
<1>6. ASSUME NEW k \in Nat, k \in T
      PROVE  k + 1 \in T
  <2> SUFFICES ASSUME k + 1 <= m
               PROVE  IsDeque(f[k + 1], Lengthened(s, part, k + 1))
    OBVIOUS
  <2> DEFINE e == f[k]
             t == Lengthened(s, part, k)
             v == part[k + 1]
  <2>1. IsDeque(e, t)
    BY <1>1, <1>6
  <2>2. v \in Item /\ t \in Seq(Item)
    <3>1. k + 1 \in 1 .. Len(part) /\ k \in 0 .. Len(part)
      BY <1>1
    <3> QED BY <3>1, LengthenedIs
  <2>3. f[k + 1] = D!PushedBack(e, v)
    <3>1. k + 1 \in 0 .. m /\ k + 1 # 0 /\ (k + 1) - 1 = k
      BY <1>1
    <3> QED BY <1>4, <3>1 DEF Turn
  <2>4. Put1(t, Len(t) + 1, v) = Lengthened(s, part, k + 1)
    BY LengthenedMore
  <2> HIDE DEF e, t, v
  <2>5. \E n : Holds(D!PushedBack(e, v), n, Put1(t, Len(t) + 1, v))
    BY <2>1, <2>2, DequePushedBack
  <2> QED BY <2>3, <2>4, <2>5 DEF IsDeque
<1> HIDE DEF T
<1>7. m \in T
  BY <1>1, <1>5, <1>6, Induct
<1> QED BY <1>1, <1>2, <1>7 DEF T

DequeShortens(f, d, n) ==
  f = [i \in 0 .. n |-> IF i = 0 THEN d ELSE D!PoppedBack(f[i - 1])]

\* The recursive function of Shortened exists
LEMMA DequeShortensExist ==
  ASSUME NEW d, NEW n \in Nat
  PROVE  \E f : DequeShortens(f, d, n)
<1> DEFINE Turn(u) == D!PoppedBack(u)
           T == {m \in Nat : \E f : f = [k \in 0 .. m |-> IF k = 0 THEN d ELSE Turn(f[k - 1])]}
<1> HIDE DEF Turn
<1>1. 0 \in T
  <2> DEFINE f == [k \in 0 .. 0 |-> d]
  <2>1. f = [k \in 0 .. 0 |-> IF k = 0 THEN d ELSE Turn(f[k - 1])]
    OBVIOUS
  <2> QED BY <2>1
<1>2. ASSUME NEW m \in Nat, m \in T
      PROVE  m + 1 \in T
  <2>1. PICK f : f = [k \in 0 .. m |-> IF k = 0 THEN d ELSE Turn(f[k - 1])]
    BY <1>2
  <2> DEFINE g == [k \in 0 .. m + 1 |-> IF k = m + 1 THEN Turn(f[m]) ELSE f[k]]
  <2>2. ASSUME NEW k \in 0 .. m + 1
        PROVE  g[k] = IF k = 0 THEN d ELSE Turn(g[k - 1])
    <3>1. CASE k = 0
      BY <2>1, <3>1
    <3>2. CASE k # 0
      <4>1. k - 1 \in 0 .. m /\ k - 1 \in 0 .. m + 1 /\ k - 1 # m + 1
        BY <3>2
      <4>2. g[k - 1] = f[k - 1]
        BY <4>1
      <4>3. CASE k = m + 1
        BY <3>2, <4>2, <4>3
      <4>4. CASE k # m + 1
        <5>1. k \in 0 .. m
          BY <4>4
        <5> QED BY <2>1, <3>2, <4>2, <4>4, <5>1
      <4> QED BY <4>3, <4>4
    <3> QED BY <3>1, <3>2
  <2>3. g = [k \in 0 .. m + 1 |-> IF k = 0 THEN d ELSE Turn(g[k - 1])]
    <3>1. g = [k \in 0 .. m + 1 |-> g[k]]
      OBVIOUS
    <3> HIDE DEF g
    <3> QED BY <2>2, <3>1
  <2> HIDE DEF g
  <2> QED BY <2>3
<1> HIDE DEF T
<1>3. n \in T
  BY <1>1, <1>2, Induct
<1> QED BY <1>3 DEF T, Turn, DequeShortens

\* The first n elements of s
Beginning(s, n) == [i \in 1 .. n |-> s[i]]

\* The first n elements of s are a sequence
LEMMA BeginningIs ==
  ASSUME NEW E, NEW s \in Seq(E), NEW n \in 0 .. Len(s)
  PROVE  /\ Beginning(s, n) \in Seq(E) /\ Len(Beginning(s, n)) = n
         /\ \A i \in 1 .. n : Beginning(s, n)[i] = s[i]
<1>1. n \in Nat /\ \A i \in 1 .. n : s[i] \in E
  OBVIOUS
<1>2. Beginning(s, n) \in [1 .. n -> E]
  BY <1>1 DEF Beginning
<1>3. Beginning(s, n) \in Seq(E) /\ Len(Beginning(s, n)) = n
  BY <1>1, <1>2
<1> QED BY <1>3 DEF Beginning

\* One element less
LEMMA BeginningLess ==
  ASSUME NEW E, NEW s \in Seq(E), NEW n \in 1 .. Len(s)
  PROVE  Cut1(Beginning(s, n), n) = Beginning(s, n - 1)
<1> DEFINE t == Beginning(s, n)
           u == Beginning(s, n - 1)
           w == Cut1(t, n)
           k == n - 1
<1>1. t \in Seq(E) /\ Len(t) = n /\ \A i \in 1 .. n : t[i] = s[i]
  BY BeginningIs
<1>2. u \in Seq(E) /\ Len(u) = k /\ \A i \in 1 .. k : u[i] = s[i]
  <2>1. k \in 0 .. Len(s)
    OBVIOUS
  <2> HIDE DEF k
  <2> QED BY <2>1, BeginningIs DEF k
<1> HIDE DEF t, u
<1>3. /\ w \in Seq(E) /\ Len(w) = n - 1
      /\ \A i \in 1 .. n - 1 : w[i] = IF i < n THEN t[i] ELSE t[i + 1]
  <2>1. n \in 1 .. Len(t)
    BY <1>1
  <2> QED BY <1>1, <2>1, Cut1Is
<1> HIDE DEF w
<1>4. ASSUME NEW i \in 1 .. Len(u) PROVE w[i] = u[i]
  <2>1. i \in 1 .. n /\ i \in 1 .. n - 1 /\ i \in 1 .. k /\ i < n
    BY <1>2
  <2> QED BY <1>1, <1>2, <1>3, <2>1
<1>5. w = u
  BY <1>2, <1>3, <1>4, SameSequence
<1> QED BY <1>5 DEF w, u, t

\* The last n elements leave, one at a time
LEMMA DequeShortened ==
  ASSUME NEW d, NEW s \in Seq(Item), IsDeque(d, s), NEW n \in 0 .. Len(s)
  PROVE  IsDeque(D!Shortened(d, n), Beginning(s, Len(s) - n))
<1> DEFINE L == Len(s)
           Turn(u) == D!PoppedBack(u)
           f == CHOOSE f : f = [k \in 0 .. n |-> IF k = 0 THEN d ELSE Turn(f[k - 1])]
<1>1. n \in Nat /\ L \in Nat /\ n <= L
  OBVIOUS
<1>2. D!Shortened(d, n) = f[n]
  BY Zenon DEF D!Shortened
<1>3. \E g : g = [k \in 0 .. n |-> IF k = 0 THEN d ELSE Turn(g[k - 1])]
  <2>1. \E g : DequeShortens(g, d, n)
    BY <1>1, DequeShortensExist
  <2> QED BY <2>1 DEF DequeShortens
<1> HIDE DEF Turn
<1>4. f = [k \in 0 .. n |-> IF k = 0 THEN d ELSE Turn(f[k - 1])]
  BY <1>3, Zenon
<1> HIDE DEF f, L
<1> DEFINE T == {k \in Nat : k <= n => IsDeque(f[k], Beginning(s, L - k))}
<1>5. 0 \in T
  <2>1. f[0] = d
    BY <1>1, <1>4
  <2>2. Beginning(s, L - 0) = s
    <3>1. L - 0 = L /\ L \in 0 .. Len(s)
      BY <1>1 DEF L
    <3>2. /\ Beginning(s, L) \in Seq(Item) /\ Len(Beginning(s, L)) = L
          /\ \A i \in 1 .. L : Beginning(s, L)[i] = s[i]
      BY <3>1, BeginningIs
    <3> QED BY <3>1, <3>2, SameSequence DEF L
  <2> QED BY <2>1, <2>2
<1>6. ASSUME NEW k \in Nat, k \in T
      PROVE  k + 1 \in T
  <2> SUFFICES ASSUME k + 1 <= n
               PROVE  IsDeque(f[k + 1], Beginning(s, L - (k + 1)))
    OBVIOUS
  <2> DEFINE e == f[k]
             j == L - k
             t == Beginning(s, j)
  <2>1. IsDeque(e, t)
    BY <1>1, <1>6
  <2>2. j \in 1 .. Len(s) /\ j \in 0 .. Len(s) /\ j - 1 = L - (k + 1) /\ j > 0
    BY <1>1 DEF L
  <2> HIDE DEF j
  <2>3. t \in Seq(Item) /\ Len(t) = j
    BY <2>2, BeginningIs
  <2>4. f[k + 1] = D!PoppedBack(e)
    <3>1. k + 1 \in 0 .. n /\ k + 1 # 0 /\ (k + 1) - 1 = k
      BY <1>1
    <3> QED BY <1>4, <3>1 DEF Turn
  <2>5. Cut1(t, j) = Beginning(s, L - (k + 1))
    BY <2>2, BeginningLess
  <2> HIDE DEF e, t
  <2>6. PICK m : Holds(e, m, t)
    <3>1. t # << >>
      BY <2>2, <2>3
    <3> QED BY <2>1, <3>1 DEF IsDeque
  <2>7. Holds(D!PoppedBack(e), m, Cut1(t, Len(t)))
    BY <2>2, <2>3, <2>6, HoldsPoppedBack
  <2> QED BY <2>3, <2>4, <2>5, <2>7 DEF IsDeque
<1> HIDE DEF T
<1>7. n \in T
  BY <1>1, <1>5, <1>6, Induct
<1> QED BY <1>1, <1>2, <1>7 DEF T, L

-----------------------------------------------------------------------------
(* The operations of deque are those of a sequence.                        *)

\* What the cells of the elements hold
Elems(d) == [i \in 1 .. d.size |-> D!Read(d, d.first + i - 1)]

\* A deque that holds values
Sound(d) == Elems(d) \in Seq(Value) /\ IsDeque(d, Elems(d))

DequeInv ==
  /\ deque = [q \in Object |-> deque[q]]
  /\ \A q \in Object : Sound(deque[q])

\* Values are items
LEMMA ValuesAreItems ==
  ASSUME NEW s \in Seq(Value)
  PROVE  s \in Seq(Item)
<1>1. \A i \in 1 .. Len(s) : s[i] \in Item
  BY DEF Item
<1>2. Len(s) \in Nat /\ s = [i \in 1 .. Len(s) |-> s[i]]
  OBVIOUS
<1>3. s \in [1 .. Len(s) -> Item]
  BY <1>1, <1>2
<1> QED BY <1>2, <1>3

\* A deque that holds a sequence of values is sound, and its cells hold this
\* one
LEMMA SoundIs ==
  ASSUME NEW d, NEW s \in Seq(Value), IsDeque(d, s)
  PROVE  Sound(d) /\ Elems(d) = s /\ d.size = Len(s)
<1>1. CASE d = NoMap /\ s = << >>
  <2>1. d.size = 0 /\ Len(s) = 0
    BY <1>1 DEF NoMap
  <2>2. Elems(d) = << >>
    BY <2>1 DEF Elems
  <2> QED BY <1>1, <2>1, <2>2 DEF Sound
<1>2. CASE \E n : Holds(d, n, s)
  <2>1. PICK n : Holds(d, n, s)
    BY <1>2
  <2>2. d.size = Len(s)
    BY <2>1, HoldsNumbers
  <2>3. ASSUME NEW i \in 1 .. Len(s) PROVE D!Read(d, d.first + i - 1) = s[i]
    BY <2>1, HoldsRead
  <2>4. Elems(d) = s
    <3>1. s = [i \in 1 .. Len(s) |-> s[i]]
      OBVIOUS
    <3> QED BY <2>2, <2>3, <3>1 DEF Elems
  <2> QED BY <2>2, <2>4 DEF Sound
<1> QED BY <1>1, <1>2 DEF IsDeque

\* The type of what a sound deque holds
LEMMA SoundHas ==
  ASSUME NEW d, Sound(d)
  PROVE  /\ Elems(d) \in Seq(Value) /\ Elems(d) \in Seq(Item)
         /\ IsDeque(d, Elems(d)) /\ Len(Elems(d)) = d.size /\ d.size \in Nat
<1>1. Elems(d) \in Seq(Value) /\ IsDeque(d, Elems(d))
  BY DEF Sound
<1>2. d.size = Len(Elems(d))
  BY <1>1, SoundIs
<1>3. Len(Elems(d)) \in Nat
  BY <1>1
<1> QED BY <1>1, <1>2, <1>3, ValuesAreItems

\* What an iterator over a deque visits is what its cells hold
LEMMA DequeContent ==
  ASSUME NEW q \in Object
  PROVE  D!Content(q) = Elems(deque[q])
BY DEF D!Content, Elems

\* When one deque changes to t, the deques stay in order and the one becomes
\* the sequence t holds
LEMMA DequeBecomes ==
  ASSUME DequeInv, NEW q \in Object, NEW STATE t, NEW STATE c, c \in Seq(Value),
         IsDeque(t, c),
         deque' = [deque EXCEPT ![q] = t]
  PROVE  DequeInv' /\ D!Abstract!Become(q, c)
<1>1. Sound(t) /\ Elems(t) = c
  BY SoundIs
<1>2. \A p \in Object : deque'[p] = IF p = q THEN t ELSE deque[p]
  BY DEF DequeInv
<1>3. DequeInv'
  <2>1. \A p \in Object : Sound(deque'[p])
    BY <1>1, <1>2 DEF DequeInv
  <2>2. deque' = [p \in Object |-> deque'[p]]
    BY DEF DequeInv
  <2> QED BY <2>1, <2>2 DEF DequeInv
<1>4. \A p \in Object :
        D!Content(p) = Elems(deque[p]) /\ D!Content(p)' = Elems(deque'[p])
  BY DEF D!Content, Elems
<1>5. \A p \in Object : D!Content(p)' = IF p = q THEN c ELSE D!Content(p)
  BY <1>1, <1>2, <1>4
<1> QED BY <1>3, <1>5 DEF D!Abstract!Become

\* emplace_back, growing or not, inserts the element behind the others
LEMMA DequeEmplaceBackImplements ==
  ASSUME DequeInv, NEW q \in Object, NEW v \in Value, D!EmplaceBack(q, v)
  PROVE  DequeInv' /\ D!Abstract!Insert(q, deque[q].size + 1, v)
<1> DEFINE d == deque[q]
           s == Elems(d)
           t == D!PushedBack(d, v)
           c == InsertAt(s, d.size + 1, v)
<1>1. deque' = [deque EXCEPT ![q] = t]
  BY DEF D!EmplaceBack
<1>2. Sound(d)
  BY DEF DequeInv
<1> HIDE DEF d
<1>3. /\ s \in Seq(Value) /\ s \in Seq(Item) /\ IsDeque(d, s) /\ Len(s) = d.size
      /\ d.size \in Nat
  BY <1>2, SoundHas
<1> HIDE DEF s
<1>4. \E n : Holds(t, n, Put1(s, d.size + 1, v))
  BY <1>3, DequePushedBack DEF Item
<1>5. d.size + 1 \in 1 .. Len(s) + 1
  BY <1>3
<1>6. c = Put1(s, d.size + 1, v) /\ c \in Seq(Value)
  BY <1>3, <1>5, InsertingAt, Put1Is
<1> HIDE DEF t, c
<1>7. IsDeque(t, c)
  BY <1>4, <1>6 DEF IsDeque
<1>8. DequeInv' /\ D!Abstract!Become(q, c)
  BY <1>1, <1>6, <1>7, DequeBecomes
<1> QED BY <1>8, DequeContent DEF D!Abstract!Insert, InsertAt, c, d, s

\* emplace_front, growing or not, inserts the element before the others
LEMMA DequeEmplaceFrontImplements ==
  ASSUME DequeInv, NEW q \in Object, NEW v \in Value, D!EmplaceFront(q, v)
  PROVE  DequeInv' /\ D!Abstract!Insert(q, 1, v)
<1> DEFINE d == deque[q]
           s == Elems(d)
           t == D!PushedFront(d, v)
           c == InsertAt(s, 1, v)
<1>1. deque' = [deque EXCEPT ![q] = t]
  BY DEF D!EmplaceFront
<1>2. Sound(d)
  BY DEF DequeInv
<1> HIDE DEF d
<1>3. /\ s \in Seq(Value) /\ s \in Seq(Item) /\ IsDeque(d, s) /\ Len(s) = d.size
      /\ d.size \in Nat
  BY <1>2, SoundHas
<1> HIDE DEF s
<1>4. \E n : Holds(t, n, Put1(s, 1, v))
  BY <1>3, DequePushedFront DEF Item
<1>5. 1 \in 1 .. Len(s) + 1
  BY <1>3
<1>6. c = Put1(s, 1, v) /\ c \in Seq(Value)
  BY <1>3, <1>5, InsertingAt, Put1Is
<1> HIDE DEF t, c
<1>7. IsDeque(t, c)
  BY <1>4, <1>6 DEF IsDeque
<1>8. DequeInv' /\ D!Abstract!Become(q, c)
  BY <1>1, <1>6, <1>7, DequeBecomes
<1> QED BY <1>8, DequeContent DEF D!Abstract!Insert, InsertAt, c, d, s

\* emplace, by way of either end, inserts the element at off
LEMMA DequeEmplaceImplements ==
  ASSUME DequeInv, NEW q \in Object, NEW v \in Value,
         NEW off \in 1 .. deque[q].size - 1,
         D!Emplace(q, off, v)
  PROVE  DequeInv' /\ D!Abstract!Insert(q, off + 1, v)
<1> DEFINE d == deque[q]
           s == Elems(d)
           t == D!Emplaced(d, off, v)
           c == InsertAt(s, off + 1, v)
<1>1. deque' = [deque EXCEPT ![q] = t]
  BY DEF D!Emplace
<1>2. Sound(d) /\ off \in 1 .. d.size - 1
  BY DEF DequeInv
<1> HIDE DEF d
<1>3. /\ s \in Seq(Value) /\ s \in Seq(Item) /\ IsDeque(d, s) /\ Len(s) = d.size
      /\ d.size \in Nat
  BY <1>2, SoundHas
<1> HIDE DEF s
<1>4. off \in 0 .. Len(s) /\ off + 1 \in 1 .. Len(s) + 1
  BY <1>2, <1>3
<1>5. \E n : Holds(t, n, Put1(s, off + 1, v))
  BY <1>3, <1>4, DequeEmplaced DEF Item
<1>6. c = Put1(s, off + 1, v) /\ c \in Seq(Value)
  BY <1>3, <1>4, InsertingAt, Put1Is
<1> HIDE DEF t, c
<1>7. IsDeque(t, c)
  BY <1>5, <1>6 DEF IsDeque
<1>8. DequeInv' /\ D!Abstract!Become(q, c)
  BY <1>1, <1>6, <1>7, DequeBecomes
<1> QED BY <1>8, DequeContent DEF D!Abstract!Insert, InsertAt, c, d, s

\* With an element there is a map
LEMMA SoundHolds ==
  ASSUME NEW d, NEW s, IsDeque(d, s), Len(s) > 0
  PROVE  \E n : Holds(d, n, s)
<1>1. s # << >>
  OBVIOUS
<1> QED BY <1>1 DEF IsDeque

\* pop_back erases the last element
LEMMA DequePopBackImplements ==
  ASSUME DequeInv, NEW q \in Object, D!PopBack(q)
  PROVE  DequeInv' /\ D!Abstract!Erase(q, deque[q].size)
<1> DEFINE d == deque[q]
           s == Elems(d)
           t == D!PoppedBack(d)
           c == RemoveAt(s, d.size)
<1>1. deque' = [deque EXCEPT ![q] = t] /\ d.size > 0
  BY DEF D!PopBack
<1>2. Sound(d)
  BY DEF DequeInv
<1> HIDE DEF d
<1>3. /\ s \in Seq(Value) /\ s \in Seq(Item) /\ IsDeque(d, s) /\ Len(s) = d.size
      /\ d.size \in Nat
  BY <1>2, SoundHas
<1> HIDE DEF s
<1>4. d.size \in 1 .. Len(s) /\ Len(s) > 0
  BY <1>1, <1>3
<1>5. PICK n : Holds(d, n, s)
  BY <1>3, <1>4, SoundHolds
<1>6. Holds(t, n, Cut1(s, d.size))
  BY <1>3, <1>4, <1>5, HoldsPoppedBack
<1>7. c = Cut1(s, d.size) /\ c \in Seq(Value)
  BY <1>3, <1>4, RemovingAt, Cut1Is
<1> HIDE DEF t, c
<1>8. IsDeque(t, c)
  BY <1>6, <1>7 DEF IsDeque
<1>9. DequeInv' /\ D!Abstract!Become(q, c)
  BY <1>1, <1>7, <1>8, DequeBecomes
<1> QED BY <1>9, DequeContent DEF D!Abstract!Erase, RemoveAt, c, d, s

\* pop_front erases the first element
LEMMA DequePopFrontImplements ==
  ASSUME DequeInv, NEW q \in Object, D!PopFront(q)
  PROVE  DequeInv' /\ D!Abstract!Erase(q, 1)
<1> DEFINE d == deque[q]
           s == Elems(d)
           t == D!PoppedFront(d)
           c == RemoveAt(s, 1)
<1>1. deque' = [deque EXCEPT ![q] = t] /\ d.size > 0
  BY DEF D!PopFront
<1>2. Sound(d)
  BY DEF DequeInv
<1> HIDE DEF d
<1>3. /\ s \in Seq(Value) /\ s \in Seq(Item) /\ IsDeque(d, s) /\ Len(s) = d.size
      /\ d.size \in Nat
  BY <1>2, SoundHas
<1> HIDE DEF s
<1>4. 1 \in 1 .. Len(s) /\ Len(s) > 0
  BY <1>1, <1>3
<1>5. PICK n : Holds(d, n, s)
  BY <1>3, <1>4, SoundHolds
<1>6. Holds(t, n, Cut1(s, 1))
  BY <1>4, <1>5, HoldsPoppedFront
<1>7. c = Cut1(s, 1) /\ c \in Seq(Value)
  BY <1>3, <1>4, RemovingAt, Cut1Is
<1> HIDE DEF t, c
<1>8. IsDeque(t, c)
  BY <1>6, <1>7 DEF IsDeque
<1>9. DequeInv' /\ D!Abstract!Become(q, c)
  BY <1>1, <1>7, <1>8, DequeBecomes
<1> QED BY <1>9, DequeContent DEF D!Abstract!Erase, RemoveAt, c, d, s

\* erase, by way of either end, erases the element at off
LEMMA DequeEraseImplements ==
  ASSUME DequeInv, NEW q \in Object, NEW off \in 0 .. deque[q].size - 1, D!Erase(q, off)
  PROVE  DequeInv' /\ D!Abstract!Erase(q, off + 1)
<1> DEFINE d == deque[q]
           s == Elems(d)
           t == D!Erased(d, off)
           c == RemoveAt(s, off + 1)
<1>1. deque' = [deque EXCEPT ![q] = t]
  BY DEF D!Erase
<1>2. Sound(d) /\ off \in 0 .. d.size - 1
  BY DEF DequeInv
<1> HIDE DEF d
<1>3. /\ s \in Seq(Value) /\ s \in Seq(Item) /\ IsDeque(d, s) /\ Len(s) = d.size
      /\ d.size \in Nat
  BY <1>2, SoundHas
<1> HIDE DEF s
<1>4. off + 1 \in 1 .. Len(s) /\ Len(s) > 0 /\ off \in 0 .. Len(s) - 1
  BY <1>2, <1>3
<1>5. PICK n : Holds(d, n, s)
  BY <1>3, <1>4, SoundHolds
<1>6. Holds(t, n, Cut1(s, off + 1))
  BY <1>4, <1>5, DequeErased
<1>7. c = Cut1(s, off + 1) /\ c \in Seq(Value)
  BY <1>3, <1>4, RemovingAt, Cut1Is
<1> HIDE DEF t, c
<1>8. IsDeque(t, c)
  BY <1>6, <1>7 DEF IsDeque
<1>9. DequeInv' /\ D!Abstract!Become(q, c)
  BY <1>1, <1>7, <1>8, DequeBecomes
<1> QED BY <1>9, DequeContent DEF D!Abstract!Erase, RemoveAt, c, d, s

\* clear leaves no element
LEMMA DequeClearImplements ==
  ASSUME DequeInv, NEW q \in Object, D!Clear(q)
  PROVE  DequeInv' /\ D!Abstract!Become(q, << >>)
<1> DEFINE d == deque[q]
           t == D!Cleared(d)
<1>1. deque' = [deque EXCEPT ![q] = t]
  BY DEF D!Clear
<1>2. Sound(d)
  BY DEF DequeInv
<1> HIDE DEF d
<1>3. IsDeque(t, << >>) /\ << >> \in Seq(Value)
  BY <1>2, DequeCleared DEF Sound
<1> HIDE DEF t
<1> QED BY <1>1, <1>3, DequeBecomes

\* A move hands the map over and leaves none
LEMMA DequeMoveImplements ==
  ASSUME DequeInv, NEW q \in Object, NEW o \in Object, D!MoveAssign(q, o)
  PROVE  DequeInv' /\ D!Abstract!Move(q, o)
<1>1. q # o /\ deque' = [deque EXCEPT ![q] = deque[o], ![o] = NoMap]
  BY DEF D!MoveAssign, NoMap
<1>2. Sound(NoMap) /\ Elems(NoMap) = << >>
  <2>1. << >> \in Seq(Value) /\ IsDeque(NoMap, << >>)
    BY DEF IsDeque
  <2> QED BY <2>1, SoundIs
<1>3. \A p \in Object :
        deque'[p] = IF p = o THEN NoMap ELSE IF p = q THEN deque[o] ELSE deque[p]
  BY <1>1 DEF DequeInv
<1>4. DequeInv'
  <2>1. \A p \in Object : Sound(deque'[p])
    BY <1>2, <1>3 DEF DequeInv
  <2>2. deque' = [p \in Object |-> deque'[p]]
    BY <1>1 DEF DequeInv
  <2> QED BY <2>1, <2>2 DEF DequeInv
<1>5. \A p \in Object :
        D!Content(p) = Elems(deque[p]) /\ D!Content(p)' = Elems(deque'[p])
  BY DEF D!Content, Elems
<1>6. \A p \in Object :
        D!Content(p)' = IF p = o THEN << >> ELSE IF p = q THEN D!Content(o)
          ELSE D!Content(p)
  BY <1>2, <1>3, <1>5
<1> QED BY <1>1, <1>4, <1>6 DEF D!Abstract!Move

\* Equal elements
LEMMA Repeated ==
  ASSUME NEW m \in Int, NEW v \in Value
  PROVE  /\ [i \in 1 .. m |-> v] \in Seq(Value)
         /\ Len([i \in 1 .. m |-> v]) = IF m >= 0 THEN m ELSE 0
<1> DEFINE part == [i \in 1 .. m |-> v]
<1>1. CASE m >= 0
  <2>1. m \in Nat /\ part \in [1 .. m -> Value]
    BY <1>1
  <2> QED BY <1>1, <2>1
<1>2. CASE ~ (m >= 0)
  <2>1. 1 .. m = {}
    BY <1>2
  <2>2. part = << >>
    BY <2>1
  <2> HIDE DEF part
  <2>3. part \in Seq(Value) /\ Len(part) = 0
    BY <2>2
  <2> QED BY <1>2, <2>3 DEF part
<1> QED BY <1>1, <1>2

\* What resize makes of a deque that holds s
LEMMA DequeResized ==
  ASSUME NEW d, NEW s \in Seq(Value), IsDeque(d, s), NEW n \in Nat, NEW v \in Value,
         NEW k, k = Min({n, Len(s)})
  PROVE  /\ SubSeq(s, 1, k) \o [i \in 1 .. n - Len(s) |-> v] \in Seq(Value)
         /\ IsDeque(IF Len(s) < n THEN D!Appended(d, [i \in 1 .. n - Len(s) |-> v])
                                  ELSE D!Shortened(d, Len(s) - n),
                    SubSeq(s, 1, k) \o [i \in 1 .. n - Len(s) |-> v])
<1> DEFINE L == Len(s)
           part == [i \in 1 .. n - L |-> v]
           c == SubSeq(s, 1, k) \o part
<1>1. L \in Nat /\ n - L \in Int /\ s \in Seq(Item)
  BY ValuesAreItems
<1>2. k = (IF n <= L THEN n ELSE L) /\ k \in 0 .. L
  <2> HIDE DEF L
  <2> QED BY <1>1, MinOfTwo DEF L
<1>3. part \in Seq(Value) /\ Len(part) = IF n - L >= 0 THEN n - L ELSE 0
  <2> DEFINE m == n - L
  <2> HIDE DEF m
  <2>1. /\ [i \in 1 .. m |-> v] \in Seq(Value)
        /\ Len([i \in 1 .. m |-> v]) = IF m >= 0 THEN m ELSE 0
    BY <1>1, Repeated DEF m
  <2> QED BY <2>1 DEF m
<1> HIDE DEF part
<1>4. c = Joined(s, k, part)
  BY <1>2, <1>3, Joining
<1>5. c \in Seq(Value)
  <2> DEFINE a == SubSeq(s, 1, k)
  <2>1. a \in Seq(Value)
    BY <1>2, SMTT(30)
  <2> HIDE DEF a
  <2>2. a \o part \in Seq(Value)
    BY <1>3, <2>1
  <2> QED BY <2>2 DEF a
<1>6. CASE L < n
  <2>1. k = L /\ part \in Seq(Item)
    BY <1>1, <1>2, <1>3, <1>6, ValuesAreItems
  <2>2. c = Lengthened(s, part, Len(part))
    BY <1>4, <2>1 DEF Joined, Lengthened
  <2>3. IsDeque(D!Appended(d, part), Lengthened(s, part, Len(part)))
    BY <1>1, <2>1, DequeAppended
  <2> HIDE DEF c
  <2> QED BY <1>5, <1>6, <2>2, <2>3 DEF c, part
<1>7. CASE ~ (L < n)
  <2>1. k = n /\ Len(part) = 0 /\ n + 0 = n /\ L - n \in 0 .. L /\ L - (L - n) = n
    BY <1>1, <1>2, <1>3, <1>7
  <2>2. c = Beginning(s, n)
    <3>1. Joined(s, n, part) = [i \in 1 .. n |-> IF i <= n THEN s[i] ELSE part[i - n]]
      BY <2>1 DEF Joined
    <3>2. \A i \in 1 .. n : i <= n
      OBVIOUS
    <3>3. Joined(s, n, part) = [i \in 1 .. n |-> s[i]]
      BY <3>1, <3>2
    <3> HIDE DEF c
    <3> QED BY <1>4, <2>1, <3>3 DEF Beginning
  <2>3. IsDeque(D!Shortened(d, L - n), Beginning(s, L - (L - n)))
    BY <1>1, <2>1, DequeShortened
  <2> HIDE DEF c
  <2> QED BY <1>5, <1>7, <2>1, <2>2, <2>3 DEF c, part
<1> QED BY <1>6, <1>7

\* resize cuts the elements off behind n, or fills up with copies of v
LEMMA DequeResizeImplements ==
  ASSUME DequeInv, NEW q \in Object, NEW n \in Nat, NEW v \in Value, D!Resize(q, n, v)
  PROVE  /\ DequeInv'
         /\ D!Abstract!Resize(q, D!Min({n, deque[q].size}),
                              [i \in 1 .. n - deque[q].size |-> v])
<1> DEFINE d == deque[q]
           s == Elems(d)
           k == Min({n, d.size})
           part == [i \in 1 .. n - d.size |-> v]
           t == IF d.size < n THEN D!Appended(d, part) ELSE D!Shortened(d, d.size - n)
           c == SubSeq(s, 1, k) \o part
<1>1. deque' = [deque EXCEPT ![q] = t]
  BY DEF D!Resize
<1>2. Sound(d)
  BY DEF DequeInv
<1> HIDE DEF d
<1>3. s \in Seq(Value) /\ IsDeque(d, s) /\ Len(s) = d.size
  BY <1>2, SoundHas
<1>4. D!Min({n, d.size}) = k
  BY DEF D!Min, Min
<1> HIDE DEF s
<1>5. c \in Seq(Value) /\ IsDeque(t, c)
  <2> HIDE DEF k
  <2>1. k = Min({n, Len(s)})
    BY <1>3 DEF k
  <2>2. /\ SubSeq(s, 1, k) \o [i \in 1 .. n - Len(s) |-> v] \in Seq(Value)
        /\ IsDeque(IF Len(s) < n THEN D!Appended(d, [i \in 1 .. n - Len(s) |-> v])
                                 ELSE D!Shortened(d, Len(s) - n),
                   SubSeq(s, 1, k) \o [i \in 1 .. n - Len(s) |-> v])
    BY <1>3, <2>1, DequeResized, ZenonT(60)
  <2> QED BY <1>3, <2>2
<1> HIDE DEF t, c, k, part
<1>6. DequeInv' /\ D!Abstract!Become(q, c)
  BY <1>1, <1>5, DequeBecomes
<1>7. D!Abstract!Resize(q, k, part)
  BY <1>6, DequeContent DEF D!Abstract!Resize, c, d, s
<1> QED BY <1>4, <1>6, <1>7 DEF part, d

\* A copy holds what the original holds
LEMMA DequeCopyImplements ==
  ASSUME DequeInv, NEW q \in Object, NEW o \in Object, D!CopyAssign(q, o)
  PROVE  DequeInv' /\ D!Abstract!Become(q, D!Content(o))
<1> DEFINE d == deque[o]
           s == Elems(d)
           n == D!Capacity(d)
           t == D!Appended(D!InitMap(n), s)
<1>1. deque' = [deque EXCEPT ![q] = t]
  BY DequeContent DEF D!CopyAssign
<1>2. Sound(d)
  BY DEF DequeInv
<1> HIDE DEF d
<1>3. s \in Seq(Value) /\ s \in Seq(Item) /\ IsDeque(d, s)
  BY <1>2, SoundHas
<1>4. n \in Nat
  <2>1. CASE d = NoMap
    BY <2>1, NoCapacity
  <2>2. CASE \E m : Holds(d, m, s)
    <3>1. PICK m : Holds(d, m, s)
      BY <2>2
    <3>2. m \in Nat /\ Mapped(d, m)
      BY <3>1 DEF Holds
    <3> QED BY <3>2, DequeCapacity
  <2> QED BY <1>3, <2>1, <2>2 DEF IsDeque
<1> HIDE DEF n, s
<1> DEFINE e == D!InitMap(n)
<1>5. IsDeque(e, << >>) /\ << >> \in Seq(Item)
  BY <1>4, HoldsInitMap DEF IsDeque
<1> HIDE DEF e
<1>6. IsDeque(D!Appended(e, s), Lengthened(<< >>, s, Len(s)))
  BY <1>3, <1>5, DequeAppended
<1>7. Lengthened(<< >>, s, Len(s)) = s
  <2>1. Len(<< >>) = 0 /\ Len(s) \in Nat /\ 0 + Len(s) = Len(s)
    BY <1>3
  <2>2. \A i \in 1 .. Len(s) : ~ (i <= 0) /\ i - 0 = i
    OBVIOUS
  <2>3. Lengthened(<< >>, s, Len(s)) = [i \in 1 .. Len(s) |-> s[i]]
    BY <2>1, <2>2 DEF Lengthened
  <2> QED BY <1>3, <2>3
<1>8. IsDeque(t, s)
  BY <1>6, <1>7 DEF e
<1> HIDE DEF t
<1>9. DequeInv' /\ D!Abstract!Become(q, s)
  BY <1>1, <1>3, <1>8, DequeBecomes
<1> QED BY <1>9, DequeContent DEF d, s

-----------------------------------------------------------------------------

\* In the beginning the deques are in order and empty
LEMMA DequesStart ==
  ASSUME D!Init
  PROVE  DequeInv /\ D!Abstract!Init
<1> DEFINE t == D!InitMap(DequeBlocks)
<1>1. Sound(t) /\ Elems(t) = << >>
  <2>1. DequeBlocks \in Nat /\ << >> \in Seq(Value)
    BY ArraysAssumption
  <2>2. IsDeque(t, << >>)
    BY <2>1, HoldsInitMap DEF IsDeque
  <2> HIDE DEF t
  <2> QED BY <2>1, <2>2, SoundIs
<1>2. deque = [q \in Object |-> t]
  BY DEF D!Init
<1> HIDE DEF t
<1>3. DequeInv
  BY <1>1, <1>2 DEF DequeInv
<1>4. \A q \in Object : D!Content(q) = << >>
  BY <1>1, <1>2, DequeContent
<1> QED BY <1>3, <1>4 DEF D!Abstract!Init

\* Every operation of deque keeps the deques in order
LEMMA DequesStep ==
  ASSUME DequeInv, D!Next
  PROVE  DequeInv'
<1>1. DequeMax \in Nat
  BY ArraysAssumption
<1>2. ASSUME NEW q \in Object, NEW v \in Value,
             D!EmplaceBack(q, v) \/ D!EmplaceFront(q, v)
      PROVE  DequeInv'
  BY <1>2, DequeEmplaceBackImplements, DequeEmplaceFrontImplements
<1>3. ASSUME NEW q \in Object, NEW v \in Value, NEW off \in 1 .. deque[q].size - 1,
             D!Emplace(q, off, v)
      PROVE  DequeInv'
  BY <1>3, DequeEmplaceImplements
<1>4. ASSUME NEW q \in Object, NEW v \in Value, NEW n \in 0 .. DequeMax,
             D!Resize(q, n, v)
      PROVE  DequeInv'
  <2>1. n \in Nat
    BY <1>1
  <2> QED BY <1>4, <2>1, DequeResizeImplements
<1>5. ASSUME NEW q \in Object, D!PopBack(q) \/ D!PopFront(q) \/ D!Clear(q)
      PROVE  DequeInv'
  BY <1>5, DequePopBackImplements, DequePopFrontImplements, DequeClearImplements
<1>6. ASSUME NEW q \in Object, NEW off \in 0 .. deque[q].size - 1, D!Erase(q, off)
      PROVE  DequeInv'
  BY <1>6, DequeEraseImplements
<1>7. ASSUME NEW q \in Object, NEW o \in Object,
             D!CopyAssign(q, o) \/ D!MoveAssign(q, o)
      PROVE  DequeInv'
  BY <1>7, DequeCopyImplements, DequeMoveImplements
<1> QED BY <1>2, <1>3, <1>4, <1>5, <1>6, <1>7, Zenon DEF D!Next

\* Every operation of deque does to the elements what that of AbstractSequence
\* does
LEMMA DequesImplement ==
  ASSUME DequeInv
  PROVE  D!Implementing
<1>1. DequeMax \in Nat
  BY ArraysAssumption
<1>2. ASSUME NEW q \in Object, NEW v \in Value
      PROVE  /\ D!EmplaceBack(q, v) => D!Abstract!Insert(q, deque[q].size + 1, v)
             /\ D!EmplaceFront(q, v) => D!Abstract!Insert(q, 1, v)
  BY DequeEmplaceBackImplements, DequeEmplaceFrontImplements
<1>3. ASSUME NEW q \in Object, NEW v \in Value, NEW off \in 1 .. deque[q].size - 1,
             D!Emplace(q, off, v)
      PROVE  D!Abstract!Insert(q, off + 1, v)
  BY <1>3, DequeEmplaceImplements
<1>4. ASSUME NEW q \in Object, NEW v \in Value, NEW n \in 0 .. DequeMax,
             D!Resize(q, n, v)
      PROVE  D!Abstract!Resize(q, D!Min({n, deque[q].size}),
                               [i \in 1 .. n - deque[q].size |-> v])
  <2>1. n \in Nat
    BY <1>1
  <2> QED BY <1>4, <2>1, DequeResizeImplements
<1>5. ASSUME NEW q \in Object
      PROVE  /\ D!PopBack(q) => D!Abstract!Erase(q, deque[q].size)
             /\ D!PopFront(q) => D!Abstract!Erase(q, 1)
             /\ D!Clear(q) => D!Abstract!Become(q, << >>)
  BY DequePopBackImplements, DequePopFrontImplements, DequeClearImplements
<1>6. ASSUME NEW q \in Object, NEW off \in 0 .. deque[q].size - 1, D!Erase(q, off)
      PROVE  D!Abstract!Erase(q, off + 1)
  BY <1>6, DequeEraseImplements
<1>7. ASSUME NEW q \in Object, NEW o \in Object
      PROVE  /\ D!CopyAssign(q, o) => D!Abstract!Become(q, D!Content(o))
             /\ D!MoveAssign(q, o) => D!Abstract!Move(q, o)
  BY DequeCopyImplements, DequeMoveImplements
<1> QED BY <1>2, <1>3, <1>4, <1>5, <1>6, <1>7, Zenon DEF D!Implementing

-----------------------------------------------------------------------------
(* The cells that hold an object are those of the elements.                *)

\* The cells of the blocks of d that hold an object
Constructed(d) ==
  {c \in D!Blocks(d) \X (0 .. BlockSize - 1) : d.map[c[1]][c[2]] # Raw}

\* The cell of the i-th element
CellOf(d, i) == << D!BlockAt(d, d.first + i - 1), (d.first + i - 1) % BlockSize >>

\* The blocks of a deque are those of its map that are there
LEMMA HoldsBlocks ==
  ASSUME NEW d, NEW n, NEW s, Holds(d, n, s)
  PROVE  D!Blocks(d) = Used(d, n)
<1>1. DOMAIN d.map = 0 .. n - 1
  BY HoldsNumbers DEF Mapped
<1> QED BY <1>1 DEF D!Blocks, Used

\* The cell of every element holds an object
LEMMA CellIsConstructed ==
  ASSUME NEW d, NEW n, NEW s \in Seq(Value), Holds(d, n, s), NEW i \in 1 .. Len(s)
  PROVE  CellOf(d, i) \in Constructed(d)
<1> DEFINE o == d.first + i - 1
           b == D!BlockAt(d, o)
           r == o % BlockSize
<1>1. b \in Used(d, n) /\ D!Read(d, o) = s[i] /\ o \in Nat
  BY HoldsRead
<1>2. n \in Nat \ {0} /\ BlockSize \in Nat \ {0} /\ s[i] \in Value
  BY HoldsNumbers
<1> HIDE DEF o
<1>3. r \in 0 .. BlockSize - 1
  BY <1>1, <1>2, Division
<1>4. d.map[b][r] # Raw
  BY <1>1, <1>2, ArraysAssumption DEF D!Read
<1> HIDE DEF b, r
<1>5. << b, r >> \in Constructed(d)
  BY <1>1, <1>3, <1>4, HoldsBlocks DEF Constructed
<1> QED BY <1>5 DEF CellOf, b, r, o

\* A spot is told by its block and its place in it
LEMMA SpotOfCell ==
  ASSUME NEW d, NEW n \in Nat \ {0}, Mapped(d, n), NEW o \in Nat
  PROVE  Spot(o, n) = BlockSize * D!BlockAt(d, o) + (o % BlockSize)
<1> DEFINE x == Spot(o, n)
           b == (o \div BlockSize) % n
           r == o % BlockSize
<1>1. x \in 0 .. Circle(n) - 1 /\ x \div BlockSize = b /\ x % BlockSize = r
  BY SpotIs
<1>2. D!BlockAt(d, o) = b
  BY DequeRead
<1> HIDE DEF x, b, r
<1>3. x = BlockSize * (x \div BlockSize) + (x % BlockSize)
  BY <1>1, PlaceOf
<1> QED BY <1>1, <1>2, <1>3, Zenon DEF x, r

\* Different elements are in different cells: the ends never meet
LEMMA CellsDiffer ==
  ASSUME NEW d, NEW n, NEW s, Holds(d, n, s), NEW i \in 1 .. Len(s),
         NEW j \in 1 .. Len(s),
         CellOf(d, i) = CellOf(d, j)
  PROVE  i = j
<1>1. /\ n \in Nat \ {0} /\ Circle(n) \in Nat \ {0} /\ d.first \in Nat
      /\ Len(s) \in Nat /\ Len(s) < Circle(n) /\ Mapped(d, n)
  BY HoldsNumbers
<1> DEFINE k == i - 1
           h == j - 1
           o == d.first + k
           u == d.first + h
<1>2. /\ k \in 0 .. Circle(n) - 1 /\ h \in 0 .. Circle(n) - 1 /\ k + 1 = i /\ h + 1 = j
      /\ d.first + i - 1 = o /\ d.first + j - 1 = u /\ o \in Nat /\ u \in Nat
  BY <1>1, SMTT(30)
<1> HIDE DEF k, h, o, u
<1>3. D!BlockAt(d, o) = D!BlockAt(d, u) /\ o % BlockSize = u % BlockSize
  BY <1>2, Zenon DEF CellOf
<1>4. /\ Spot(o, n) = BlockSize * D!BlockAt(d, o) + (o % BlockSize)
      /\ Spot(u, n) = BlockSize * D!BlockAt(d, u) + (u % BlockSize)
  BY <1>1, <1>2, SpotOfCell
<1>5. Spot(d.first + k, n) = Spot(d.first + h, n)
  BY <1>3, <1>4, Zenon DEF o, u
<1>9. k = h
  BY <1>1, <1>2, <1>5, SpotsDiffer
<1> QED BY <1>2, <1>9

\* Every cell that holds an object is the cell of an element
LEMMA ConstructedIsCell ==
  ASSUME NEW d, NEW n, NEW s, Holds(d, n, s), NEW c \in Constructed(d)
  PROVE  \E i \in 1 .. Len(s) : CellOf(d, i) = c
<1>1. /\ n \in Nat \ {0} /\ Circle(n) \in Nat \ {0} /\ d.first \in Nat
      /\ Len(s) \in Nat /\ Mapped(d, n)
  BY HoldsNumbers
<1> DEFINE b == c[1]
           r == c[2]
           x == BlockSize * b + r
<1>2. /\ b \in Used(d, n) /\ r \in 0 .. BlockSize - 1 /\ d.map[b][r] # Raw
      /\ c = << b, r >>
  BY HoldsBlocks DEF Constructed
<1>3. b \in 0 .. n - 1 /\ d.map[b] # NoBlock
  BY <1>2 DEF Used
<1> HIDE DEF b, r
<1>4. x \in 0 .. Circle(n) - 1 /\ x \div BlockSize = b /\ x % BlockSize = r
  BY <1>1, <1>2, <1>3, PlaceFrom
<1> HIDE DEF x
<1>5. Tape(d, n)[x] # Raw
  BY <1>2, <1>3, <1>4 DEF Tape
<1>6. Meets(d.first, n, x)
  BY <1>1, <1>4, SpotsMeet
<1>7. PICK k \in 0 .. Circle(n) - 1 : Spot(d.first + k, n) = x
  BY <1>6, Zenon DEF Meets
<1>8. k < Len(s)
  <2>1. Wound(d, n, s)
    BY DEF Holds
  <2>2. Tape(d, n)[Spot(d.first + k, n)] = IF k < Len(s) THEN s[k + 1] ELSE Raw
    BY <2>1, Zenon DEF Wound
  <2> QED BY <1>5, <1>7, <2>2, Zenon
<1> DEFINE i == k + 1
           o == d.first + k
<1>9. i \in 1 .. Len(s) /\ d.first + i - 1 = o /\ o \in Nat
  BY <1>1, <1>8
<1>10. x = Spot(o, n)
  BY <1>7
<1> HIDE DEF i, o
<1>11. D!BlockAt(d, o) = b /\ o % BlockSize = r
  BY <1>1, <1>4, <1>9, <1>10, SpotIs, DequeRead
<1>12. CellOf(d, i) = c
  BY <1>2, <1>9, <1>11, Zenon DEF CellOf
<1> QED BY <1>9, <1>12

\* There are as many objects in the blocks as there are elements, by the
\* bijection of elements and cells
LEMMA ConstructedCount ==
  ASSUME NEW d, NEW n, NEW s \in Seq(Value), Holds(d, n, s)
  PROVE  D!Cardinality(Constructed(d)) = d.size
<1> DEFINE I == 1 .. Len(s)
           C == Constructed(d)
           f == [i \in I |-> CellOf(d, i)]
<1>1. Len(s) \in Nat /\ d.size = Len(s)
  BY HoldsNumbers
<1>2. f \in [I -> C]
  BY CellIsConstructed
<1>3. \A i, j \in I : f[i] = f[j] => i = j
  BY CellsDiffer
<1>4. \A c \in C : \E i \in I : f[i] = c
  BY ConstructedIsCell
<1>5. IsFiniteSet(I) /\ Cardinality(I) = Len(s)
  <2> DEFINE m == Len(s)
  <2>1. m \in Nat
    BY <1>1
  <2> HIDE DEF m
  <2>2. IsFiniteSet(1 .. m) /\ Cardinality(1 .. m) = m
    BY <2>1, FS_Interval
  <2> QED BY <2>2 DEF m
<1> HIDE DEF C, f, I
<1>6. ExistsBijection(I, C)
  <2>1. f \in Bijection(I, C)
    BY <1>2, <1>3, <1>4 DEF Bijection, Injection, Surjection, IsInjective
  <2> QED BY <2>1 DEF ExistsBijection
<1>7. IsFiniteSet(C) /\ Cardinality(C) = Len(s)
  BY <1>5, <1>6, FS_Bijection
<1>8. D!Cardinality(C) = Cardinality(C)
  BY <1>7, SameCardinality
<1> QED BY <1>1, <1>7, <1>8 DEF C

\* Deques in order have an object in the cell of every element and in no other
LEMMA DequesExact ==
  ASSUME DequeInv
  PROVE  D!CellsExact
<1> SUFFICES ASSUME NEW q \in Object
             PROVE  /\ \A i \in 1 .. deque[q].size :
                         D!BlockAt(deque[q], deque[q].first + i - 1) \in D!Blocks(deque[q])
                    /\ D!Content(q) \in Seq(Value)
                    /\ D!Cardinality(Constructed(deque[q])) = deque[q].size
  BY DEF D!CellsExact, Constructed
<1> DEFINE d == deque[q]
           s == Elems(d)
<1>1. Sound(d)
  BY DEF DequeInv
<1>2. D!Content(q) = s
  BY DequeContent
<1> HIDE DEF d
<1>3. s \in Seq(Value) /\ IsDeque(d, s) /\ Len(s) = d.size /\ d.size \in Nat
  BY <1>1, SoundHas
<1> HIDE DEF s
<1>4. s \in Seq(Value)
  BY <1>3
<1>5. CASE d = NoMap
  <2>1. d.size = 0 /\ D!Blocks(d) = {}
    BY <1>5 DEF NoMap, D!Blocks
  <2>2. Constructed(d) = {}
    BY <2>1 DEF Constructed
  <2>3. Cardinality({}) = 0 /\ IsFiniteSet({})
    BY FS_EmptySet
  <2>4. D!Cardinality({}) = 0
    BY <2>3, SameCardinality
  <2> QED BY <1>2, <1>4, <2>1, <2>2, <2>4 DEF d
<1>6. CASE \E n : Holds(d, n, s)
  <2>1. PICK n : Holds(d, n, s)
    BY <1>6
  <2>2. \A i \in 1 .. d.size : D!BlockAt(d, d.first + i - 1) \in D!Blocks(d)
    BY <1>3, <2>1, HoldsRead, HoldsBlocks
  <2>3. D!Cardinality(Constructed(d)) = d.size
    BY <1>3, <2>1, ConstructedCount
  <2> QED BY <1>2, <1>4, <2>2, <2>3 DEF d
<1> QED BY <1>3, <1>5, <1>6 DEF IsDeque

\* Deques in order are of their type
LEMMA DequesAreTyped ==
  ASSUME DequeInv
  PROVE  D!TypeOK
<1> SUFFICES ASSUME NEW q \in Object
             PROVE  /\ DOMAIN deque[q] = {"map", "first", "size"}
                    /\ DOMAIN deque[q].map = 0 .. D!Capacity(deque[q]) - 1
                    /\ \A i \in DOMAIN deque[q].map :
                         deque[q].map[i] \in D!Block \cup {NoBlock}
                    /\ deque[q].first \in Nat /\ deque[q].size \in Nat
  BY DEF D!TypeOK
<1> DEFINE d == deque[q]
           s == Elems(d)
<1>1. Sound(d)
  BY DEF DequeInv
<1> HIDE DEF d
<1>2. IsDeque(d, s)
  BY <1>1, SoundHas
<1>3. CASE d = NoMap
  <2>1. /\ DOMAIN d = {"map", "first", "size"} /\ DOMAIN d.map = {}
        /\ d.first = 0 /\ d.size = 0
    BY <1>3 DEF NoMap
  <2>2. D!Capacity(d) = 0
    BY <1>3, NoCapacity
  <2>3. 0 .. 0 - 1 = {}
    OBVIOUS
  <2> QED BY <2>1, <2>2, <2>3 DEF d
<1>4. CASE \E n : Holds(d, n, s)
  <2>1. PICK n : Holds(d, n, s)
    BY <1>4
  <2>2. n \in Nat /\ Mapped(d, n)
    BY <2>1 DEF Holds
  <2>3. D!Capacity(d) = n
    BY <2>2, DequeCapacity
  <2> QED BY <2>2, <2>3 DEF d, Mapped
<1> QED BY <1>2, <1>3, <1>4 DEF IsDeque

-----------------------------------------------------------------------------
(* The four containers side by side.                                       *)

\* The inductive invariant: every deque, vector, string and bitset is in order
ArraysInv == DequeInv /\ VectorInv /\ StringInv /\ BitsInv

\* In the beginning all is in order, and empty
LEMMA ArraysStart ==
  ASSUME ArraysInit
  PROVE  ArraysInv /\ D!Abstract!Init /\ V!Abstract!Init /\ S!Abstract!Init
BY DequesStart, VectorsStart, StringsStart, BitsStart DEF ArraysInit, ArraysInv

\* An operation of another class leaves the deques in order,
LEMMA DequesStay ==
  ASSUME DequeInv, UNCHANGED deque
  PROVE  DequeInv'
BY DEF DequeInv

\* ... the vectors,
LEMMA VectorsStay ==
  ASSUME VectorInv, UNCHANGED vector
  PROVE  VectorInv'
BY DEF VectorInv

\* ... the strings,
LEMMA StringsStay ==
  ASSUME StringInv, UNCHANGED string
  PROVE  StringInv'
BY DEF StringInv

\* ... and the bits
LEMMA BitsStay ==
  ASSUME BitsInv, UNCHANGED bits
  PROVE  BitsInv'
BY DEF BitsInv, bits, B!Positions, B!Other, B!Last, B!Place

\* Every step keeps all in order
LEMMA ArraysStep ==
  ASSUME ArraysInv, [ArraysNext]_arrays
  PROVE  ArraysInv'
<1> USE DEF ArraysInv
<1>1. CASE D!Next /\ UNCHANGED << vector, string, bits >>
  BY <1>1, DequesStep, VectorsStay, StringsStay, BitsStay
<1>2. CASE V!Next /\ UNCHANGED << deque, string, bits >>
  BY <1>2, VectorsStep, DequesStay, StringsStay, BitsStay
<1>3. CASE S!Next /\ UNCHANGED << deque, vector, bits >>
  BY <1>3, StringsStep, DequesStay, VectorsStay, BitsStay
<1>4. CASE B!Next /\ UNCHANGED << deque, vector, string >>
  BY <1>4, BitsStep, DequesStay, VectorsStay, StringsStay
<1>5. CASE UNCHANGED arrays
  BY <1>5, DequesStay, VectorsStay, StringsStay, BitsStay DEF arrays
<1> QED BY <1>1, <1>2, <1>3, <1>4, <1>5 DEF ArraysNext

\* What is in order is of its type, and its cells are exact
LEMMA ArraysSafe ==
  ASSUME ArraysInv
  PROVE  /\ CellsExact /\ BitsCounted
         /\ D!TypeOK /\ V!TypeOK /\ S!TypeOK /\ B!TypeOK
BY DequesExact, DequesAreTyped, VectorsAreTyped, StringsExact, BitsCount, BitsFull,
   BitsAreTyped DEF ArraysInv, CellsExact, BitsCounted

\* What is in order does what a sequence does
LEMMA ArraysDo ==
  ASSUME ArraysInv
  PROVE  D!Implementing /\ V!Implementing /\ S!Implementing
BY DequesImplement, VectorsImplement, StringsImplement DEF ArraysInv

\* ... and the bits become what they say
LEMMA ArraysActs ==
  ASSUME ArraysInv, BitsCounted', [ArraysNext]_arrays
  PROVE  [bits' # bits => B!Acting]_bits
<1>1. CASE B!Next
  BY <1>1, BitsStep, BitsAct DEF ArraysInv
<1>2. CASE UNCHANGED bits
  BY <1>2
<1> QED BY <1>1, <1>2 DEF ArraysNext, arrays

\* Whatever is called in whatever order, deques, vectors, strings and bitsets
\* are in order: the inductive invariant of the theorems below
THEOREM ArraysStaySound == ArraysSpec => []ArraysInv
<1>1. ArraysInit => ArraysInv
  BY ArraysStart
<1>2. ArraysInv /\ [ArraysNext]_arrays => ArraysInv'
  BY ArraysStep
<1> QED BY <1>1, <1>2, PTL DEF ArraysSpec

\* Deques, vectors, strings and bitsets are always of their types: the cells of
\* an array are there, and the sizes are in their ranges
THEOREM ArraysAreTyped ==
  ArraysSpec => [](D!TypeOK /\ V!TypeOK /\ S!TypeOK /\ B!TypeOK)
<1>1. ArraysInv => D!TypeOK /\ V!TypeOK /\ S!TypeOK /\ B!TypeOK
  BY ArraysSafe
<1> QED BY <1>1, ArraysStaySound, PTL

\* There is always an object in the cell of every element of a deque and in no
\* other, so each is destroyed once, and the terminator of a string is right
\* behind its last character
THEOREM ArraysAreExact == ArraysSpec => []CellsExact
<1>1. ArraysInv => CellsExact
  BY ArraysSafe
<1> QED BY <1>1, ArraysStaySound, PTL

\* Whatever shifts, wraps round or is reallocated in their arrays, every
\* operation of deque, vector and basic_string does to the elements an iterator
\* visits what it does to a sequence
THEOREM ArraysAreSequences == ArraysSpec => ArraysImplementSequence
<1>1. ArraysInit => D!Abstract!Init /\ V!Abstract!Init /\ S!Abstract!Init
  BY ArraysStart
<1>2. ArraysInv => /\ [deque' # deque => D!Implementing]_deque
                   /\ [vector' # vector => V!Implementing]_vector
                   /\ [string' # string => S!Implementing]_string
  BY ArraysDo
<1> QED BY <1>1, <1>2, ArraysStaySound, PTL DEF ArraysSpec, ArraysImplementSequence

\* Across the boundaries of blocks, and with a last block that is partly,
\* wholly or not at all used, every operation of bitset does to the set of the
\* ones what its name says, and count and all, which look at whole blocks, see
\* no bit that is not one of the set
THEOREM ArraysActOnBits == ArraysSpec => ActsOnBits
<1>1. ArraysInv => BitsCounted
  BY ArraysSafe
<1>2. ArraysInv /\ BitsCounted' /\ [ArraysNext]_arrays => [bits' # bits => B!Acting]_bits
  BY ArraysActs
<1> QED BY <1>1, <1>2, ArraysStaySound, PTL DEF ArraysSpec, ActsOnBits

===============================================================================
