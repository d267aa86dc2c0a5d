---------------------------- MODULE ContainerProofs ---------------------------
(*****************************************************************************)
(* Containers proved, part 1: the strings, the vectors, the bitsets and the  *)
(* hash tables. What the loops of the operations leave in the cells is told  *)
(* by lemmas about one operation each; from them, every operation keeps the  *)
(* cells in order (StringInv, VectorInv, BitsInv) and does to the elements   *)
(* what the operation of AbstractSequence does, or to the bits what it does  *)
(* to a set. A hash table keeps the elements of each bucket one run of its   *)
(* list (HashInv), and so does to them what AbstractMap does; its theorems   *)
(* are at the end. DequeProofs has the deques and the theorems of the arrays.*)
(*****************************************************************************)
EXTENDS Arrays, HashTable,
        SequenceTheorems, FiniteSetTheorems, WellFoundedInduction, TLAPS

-----------------------------------------------------------------------------
(* Sequences.                                                               *)

\* s with part put in behind place pos, and without the n elements behind it
Put(s, pos, part) ==
  [i \in 1 .. Len(s) + Len(part) |->
     IF i <= pos THEN s[i]
     ELSE IF i <= pos + Len(part) THEN part[i - pos] ELSE s[i - Len(part)]]

Cut(s, pos, n) == [i \in 1 .. Len(s) - n |-> IF i <= pos THEN s[i] ELSE s[i + n]]

\* Concatenating what is before pos, part, and what is behind pos puts part in
LEMMA Inserting ==
  ASSUME NEW E, NEW s \in Seq(E), NEW part \in Seq(E), NEW pos \in 0 .. Len(s)
  PROVE  SubSeq(s, 1, pos) \o part \o SubSeq(s, pos + 1, Len(s))
           = Put(s, pos, part)
<1> DEFINE a == SubSeq(s, 1, pos)
           b == SubSeq(s, pos + 1, Len(s))
           c == a \o part
           u == c \o b
<1>1. a \in Seq(E) /\ Len(a) = pos /\ \A i \in 1 .. pos : a[i] = s[i]
  OBVIOUS
<1>2. /\ b \in Seq(E) /\ Len(b) = Len(s) - pos
      /\ \A i \in 1 .. Len(s) - pos : b[i] = s[pos + i]
  OBVIOUS
<1> HIDE DEF a, b
<1>3. /\ c \in Seq(E) /\ Len(c) = pos + Len(part)
      /\ \A i \in 1 .. pos + Len(part) : c[i] = IF i <= pos THEN s[i] ELSE part[i - pos]
  <2>1. /\ c \in Seq(E) /\ Len(c) = Len(a) + Len(part)
        /\ \A i \in 1 .. Len(a) + Len(part) :
             c[i] = IF i <= Len(a) THEN a[i] ELSE part[i - Len(a)]
    BY <1>1, ConcatProperties
  <2> HIDE DEF c
  <2> QED BY <2>1, <1>1
<1> HIDE DEF c
<1>4. /\ u \in Seq(E) /\ Len(u) = Len(s) + Len(part)
      /\ \A i \in 1 .. Len(s) + Len(part) :
           u[i] = IF i <= pos + Len(part) THEN c[i] ELSE b[i - (pos + Len(part))]
  <2>1. /\ u \in Seq(E) /\ Len(u) = Len(c) + Len(b)
        /\ \A i \in 1 .. Len(c) + Len(b) :
             u[i] = IF i <= Len(c) THEN c[i] ELSE b[i - Len(c)]
    BY <1>2, <1>3, ConcatProperties
  <2>2. Len(c) + Len(b) = Len(s) + Len(part)
    BY <1>2, <1>3
  <2> QED BY <2>1, <2>2, <1>3
<1> HIDE DEF u
<1>5. ASSUME NEW i \in 1 .. Len(s) + Len(part)
      PROVE  u[i] = IF i <= pos THEN s[i]
                    ELSE IF i <= pos + Len(part) THEN part[i - pos] ELSE s[i - Len(part)]
  <2>1. CASE i <= pos + Len(part)
    BY <2>1, <1>3, <1>4
  <2>2. CASE i > pos + Len(part)
    <3> DEFINE j == i - (pos + Len(part))
    <3>1. j \in 1 .. Len(s) - pos /\ pos + j = i - Len(part)
      BY <2>2
    <3>2. b[j] = s[i - Len(part)]
      BY <3>1, <1>2
    <3> QED BY <2>2, <3>2, <1>4
  <2> QED BY <2>1, <2>2
<1>6. u = [i \in 1 .. Len(s) + Len(part) |-> u[i]]
  BY <1>4
<1> QED BY <1>5, <1>6 DEF a, b, c, u, Put

\* Concatenating what is before and behind n elements cuts them out
LEMMA Cutting ==
  ASSUME NEW E, NEW s \in Seq(E), NEW pos \in 0 .. Len(s), NEW n \in 0 .. Len(s) - pos
  PROVE  SubSeq(s, 1, pos) \o SubSeq(s, pos + n + 1, Len(s))
           = Cut(s, pos, n)
<1> DEFINE a == SubSeq(s, 1, pos)
           b == SubSeq(s, pos + n + 1, Len(s))
           u == a \o b
<1>1. a \in Seq(E) /\ Len(a) = pos /\ \A i \in 1 .. pos : a[i] = s[i]
  OBVIOUS
<1>2. /\ b \in Seq(E) /\ Len(b) = Len(s) - pos - n
      /\ \A i \in 1 .. Len(s) - pos - n : b[i] = s[pos + n + i]
  OBVIOUS
<1> HIDE DEF a, b
<1>3. /\ u \in Seq(E) /\ Len(u) = Len(s) - n
      /\ \A i \in 1 .. Len(s) - n : u[i] = IF i <= pos THEN a[i] ELSE b[i - pos]
  <2>1. /\ a \o b \in Seq(E) /\ Len(a \o b) = Len(a) + Len(b)
        /\ \A i \in 1 .. Len(a) + Len(b) :
             (a \o b)[i] = IF i <= Len(a) THEN a[i] ELSE b[i - Len(a)]
    BY <1>1, <1>2, ConcatProperties
  <2>2. Len(a) = pos /\ Len(a) + Len(b) = Len(s) - n
    BY <1>1, <1>2
  <2> QED BY <2>1, <2>2
<1> HIDE DEF u
<1>4. ASSUME NEW i \in 1 .. Len(s) - n
      PROVE  u[i] = IF i <= pos THEN s[i] ELSE s[i + n]
  <2>1. CASE i <= pos
    BY <2>1, <1>1, <1>3
  <2>2. CASE i > pos
    <3> DEFINE j == i - pos
    <3>1. j \in 1 .. Len(s) - pos - n /\ pos + n + j = i + n
      BY <2>2
    <3>2. b[j] = s[i + n]
      BY <3>1, <1>2
    <3> QED BY <2>2, <3>2, <1>3
  <2> QED BY <2>1, <2>2
<1>5. u = [i \in 1 .. Len(s) - n |-> u[i]]
  BY <1>3
<1> QED BY <1>4, <1>5 DEF a, b, u, Cut

\* s with e put in at place pos, and without what is at place pos
Put1(s, pos, e) ==
  [i \in 1 .. Len(s) + 1 |-> IF i < pos THEN s[i] ELSE IF i = pos THEN e ELSE s[i - 1]]

Cut1(s, pos) == [i \in 1 .. Len(s) - 1 |-> IF i < pos THEN s[i] ELSE s[i + 1]]

\* Put1 is the library's InsertAt, which AbstractSequence inserts with
LEMMA InsertingAt ==
  ASSUME NEW E, NEW s \in Seq(E), NEW e \in E, NEW pos \in 1 .. Len(s) + 1
  PROVE  InsertAt(s, pos, e) = Put1(s, pos, e)
<1> DEFINE p == pos - 1
           part == << e >>
<1>1. /\ part \in Seq(E) /\ Len(part) = 1 /\ part[1] = e
      /\ p \in 0 .. Len(s) /\ pos = p + 1
  OBVIOUS
<1>2. InsertAt(s, pos, e) = SubSeq(s, 1, p) \o part \o SubSeq(s, p + 1, Len(s))
  BY <1>1 DEF InsertAt
<1> HIDE DEF p, part
<1>3. SubSeq(s, 1, p) \o part \o SubSeq(s, p + 1, Len(s))
        = Put(s, p, part)
  BY <1>1, Inserting
<1>4. \A i \in Int : /\ i <= p <=> i < pos
                     /\ ~ (i <= p) /\ i <= p + Len(part) <=> i = pos
                     /\ i = pos => i - p = 1
  BY <1>1
<1>5. ASSUME NEW i \in 1 .. Len(s) + 1
      PROVE  (IF i <= p THEN s[i]
              ELSE IF i <= p + Len(part) THEN part[i - p] ELSE s[i - Len(part)])
             = (IF i < pos THEN s[i] ELSE IF i = pos THEN e ELSE s[i - 1])
  BY <1>1, <1>4
<1>6. Put(s, p, part) = Put1(s, pos, e)
  BY <1>1, <1>5 DEF Put, Put1
<1> QED BY <1>2, <1>3, <1>6

\* Cut1 is the library's RemoveAt, which AbstractSequence erases with
LEMMA RemovingAt ==
  ASSUME NEW E, NEW s \in Seq(E), NEW pos \in 1 .. Len(s)
  PROVE  RemoveAt(s, pos) = Cut1(s, pos)
<1> DEFINE p == pos - 1
<1>1. p \in 0 .. Len(s) /\ 1 \in 0 .. Len(s) - p /\ pos = p + 1
  OBVIOUS
<1>2. RemoveAt(s, pos) = SubSeq(s, 1, p) \o SubSeq(s, p + 1 + 1, Len(s))
  BY <1>1 DEF RemoveAt
<1> HIDE DEF p
<1>3. RemoveAt(s, pos) = Cut(s, p, 1)
  BY <1>1, <1>2, Cutting
<1> QED BY <1>1, <1>3, SMTT(30) DEF Cut, Cut1

\* The first n elements of s, and those of part behind them
Joined(s, n, part) ==
  [i \in 1 .. n + Len(part) |-> IF i <= n THEN s[i] ELSE part[i - n]]

\* Joined is what concatenating the first n elements of s and part gives
LEMMA Joining ==
  ASSUME NEW E, NEW s \in Seq(E), NEW part \in Seq(E), NEW n \in 0 .. Len(s)
  PROVE  SubSeq(s, 1, n) \o part = Joined(s, n, part)
<1> DEFINE a == SubSeq(s, 1, n)
           u == a \o part
<1>1. a \in Seq(E) /\ Len(a) = n /\ \A i \in 1 .. n : a[i] = s[i]
  OBVIOUS
<1> HIDE DEF a
<1>2. /\ u \in Seq(E) /\ Len(u) = n + Len(part)
      /\ \A i \in 1 .. n + Len(part) : u[i] = IF i <= n THEN s[i] ELSE part[i - n]
  <2>1. /\ u \in Seq(E) /\ Len(u) = Len(a) + Len(part)
        /\ \A i \in 1 .. Len(a) + Len(part) :
             u[i] = IF i <= Len(a) THEN a[i] ELSE part[i - Len(a)]
    BY <1>1, ConcatProperties
  <2> HIDE DEF u
  <2> QED BY <2>1, <1>1
<1> HIDE DEF u
<1>3. u = [i \in 1 .. n + Len(part) |-> u[i]]
  BY <1>2
<1> QED BY <1>2, <1>3 DEF Joined, a, u

\* The least and the greatest of two numbers
LEMMA MinOfTwo ==
  ASSUME NEW a \in Int, NEW b \in Int
  PROVE  /\ Min({a, b}) = IF a <= b THEN a ELSE b
         /\ Max({a, b}) = IF a >= b THEN a ELSE b
<1> DEFINE m == IF a <= b THEN a ELSE b
           g == IF a >= b THEN a ELSE b
<1>1. \A x \in {a, b} : (\A y \in {a, b} : x <= y) <=> x = m
  OBVIOUS
<1>2. \A x \in {a, b} : (\A y \in {a, b} : x >= y) <=> x = g
  OBVIOUS
<1>3. m \in {a, b} /\ g \in {a, b}
  OBVIOUS
<1> HIDE DEF m, g
<1>4. Min({a, b}) = m
  BY <1>1, <1>3, Zenon DEF Min
<1>5. Max({a, b}) = g
  BY <1>2, <1>3, Zenon DEF Max
<1> QED BY <1>4, <1>5 DEF m, g

-----------------------------------------------------------------------------
(* basic_string.                                                           *)

\* What a cell of a string holds
Character == Value \cup {Terminator, Raw}

\* A string of the program, and what it holds
IsString(s) ==
  /\ s \in [cells : UNION {[0 .. n -> Character] : n \in Nat}, size : Nat]
  /\ s.size <= S!Capacity(s)
  /\ \A i \in 0 .. s.size - 1 : s.cells[i] \in Value
  /\ s.cells[s.size] = Terminator

Chars(s) == [i \in 1 .. s.size |-> s.cells[i - 1]]

\* The instances count as the library does, whose theorems are about its own
\* Cardinality
LEMMA SameCardinality ==
  ASSUME NEW X
  PROVE  /\ S!Cardinality(X) = Cardinality(X)
         /\ V!Cardinality(X) = Cardinality(X)
         /\ D!Cardinality(X) = Cardinality(X)
BY Zenon DEF S!Cardinality, V!Cardinality, D!Cardinality, Cardinality

\* A string whose array has n characters and the terminator has capacity n
LEMMA StringCapacity ==
  ASSUME NEW s, NEW n \in Nat, DOMAIN s.cells = 0 .. n
  PROVE  S!Capacity(s) = n
<1>1. Cardinality(0 .. n) = n + 1
  BY FS_Interval
<1>2. S!Cardinality(0 .. n) = n + 1
  BY <1>1, SameCardinality
<1> QED BY <1>2 DEF S!Capacity

\* The type of a string of the program, and of the sequence it holds
LEMMA StringIs ==
  ASSUME NEW s, IsString(s)
  PROVE  /\ S!Capacity(s) \in Nat /\ s.size \in 0 .. S!Capacity(s)
         /\ s.cells \in [0 .. S!Capacity(s) -> Character]
         /\ \A i \in 0 .. s.size - 1 : s.cells[i] \in Value
         /\ Chars(s) \in Seq(Value) /\ Len(Chars(s)) = s.size
         /\ \A i \in 1 .. s.size : Chars(s)[i] = s.cells[i - 1]
<1>1. PICK n \in Nat : s.cells \in [0 .. n -> Character]
  BY DEF IsString
<1>2. S!Capacity(s) = n
  BY <1>1, StringCapacity
<1>3. s.size \in 0 .. n
  BY <1>2 DEF IsString
<1>4. \A i \in 1 .. s.size : s.cells[i - 1] \in Value
  BY <1>3 DEF IsString
<1>5. Chars(s) \in [1 .. s.size -> Value]
  BY <1>4 DEF Chars
<1>6. Chars(s) \in Seq(Value) /\ Len(Chars(s)) = s.size
  BY <1>3, <1>5
<1>7. \A i \in 0 .. s.size - 1 : s.cells[i] \in Value
  BY DEF IsString
<1>8. \A i \in 1 .. s.size : Chars(s)[i] = s.cells[i - 1]
  BY DEF Chars
<1>9. S!Capacity(s) \in Nat /\ s.cells \in [0 .. S!Capacity(s) -> Character]
  BY <1>1, <1>2
<1>10. s.size \in 0 .. S!Capacity(s)
  BY <1>2, <1>3
<1> QED BY <1>6, <1>7, <1>8, <1>9, <1>10, Zenon

\* The characters before the terminator are those that were there
LEMMA StringTerminated ==
  ASSUME NEW s, NEW n \in Nat, NEW k \in 0 .. n,
         s.cells \in [0 .. n -> Character],
         \A i \in 0 .. k - 1 : s.cells[i] \in Value
  PROVE  /\ IsString(S!Terminated(s, k))
         /\ S!Terminated(s, k).size = k
         /\ S!Capacity(S!Terminated(s, k)) = n
         /\ \A i \in 0 .. k - 1 : S!Terminated(s, k).cells[i] = s.cells[i]
<1> DEFINE t == S!Terminated(s, k)
<1>1. /\ t = [cells |-> t.cells, size |-> k]
      /\ t.cells = [i \in 0 .. n |-> IF i = k THEN Terminator
                                     ELSE IF i < k THEN s.cells[i] ELSE Raw]
  BY DEF S!Terminated
<1> HIDE DEF t
<1>2. t.cells \in [0 .. n -> Character]
  BY <1>1 DEF Character
<1>3. S!Capacity(t) = n
  BY <1>2, StringCapacity
<1>4. /\ t.size = k /\ t.cells[k] = Terminator
      /\ \A i \in 0 .. k - 1 : t.cells[i] = s.cells[i]
  BY <1>1
<1>5. t \in [cells : UNION {[0 .. m -> Character] : m \in Nat}, size : Nat]
  <2> DEFINE Y == UNION {[0 .. m -> Character] : m \in Nat}
  <2>1. t.cells \in Y
    BY <1>2
  <2> HIDE DEF Y
  <2>2. t \in [cells : Y, size : Nat]
    BY <2>1, <1>1, SMTT(30)
  <2> QED BY <2>2 DEF Y
<1>6. IsString(t)
  BY <1>3, <1>4, <1>5 DEF IsString
<1> QED BY <1>3, <1>4, <1>6 DEF t
\* Empty(n): no characters, room for n
LEMMA StringEmpty ==
  ASSUME NEW n \in Nat
  PROVE  /\ IsString(S!Empty(n))
         /\ S!Empty(n).size = 0
         /\ S!Capacity(S!Empty(n)) = n
<1> DEFINE s == [cells |-> [i \in 0 .. n |-> Raw]]
<1>1. s.cells \in [0 .. n -> Character]
  BY DEF Character
<1> HIDE DEF s
<1>0. 0 \in 0 .. n /\ \A i \in 0 .. 0 - 1 : s.cells[i] \in Value
  OBVIOUS
<1>2. /\ IsString(S!Terminated(s, 0)) /\ S!Terminated(s, 0).size = 0
      /\ S!Capacity(S!Terminated(s, 0)) = n
  BY <1>0, <1>1, StringTerminated
<1> QED BY <1>2 DEF S!Empty, s

\* k characters from number from on can be read
Readable(cells, from, k) == \A i \in 0 .. k - 1 : cells[from + i] \in Value

\* t is s, of capacity n, but for k cells from number to on
MovedTo(t, s, n, to, cells, from, k) ==
  /\ t.cells \in [0 .. n -> Character] /\ "cells" \in DOMAIN t
  /\ \A i \in 0 .. n :
       t.cells[i] = IF i \in to .. to + k - 1 THEN cells[from + (i - to)]
         ELSE s.cells[i]

\* traits::move changes nothing but the cells it writes
LEMMA StringMovedIn ==
  ASSUME NEW s, "cells" \in DOMAIN s, NEW n \in Nat, NEW to \in Nat, NEW k \in Nat,
         NEW from \in Nat,
         s.cells \in [0 .. n -> Character], NEW cells, Readable(cells, from, k)
  PROVE  MovedTo(S!MovedIn(s, to, cells, from, k), s, n, to, cells, from, k)
<1> DEFINE t == S!MovedIn(s, to, cells, from, k)
<1>1. /\ DOMAIN t = DOMAIN s
      /\ t.cells =
           [i \in 0 .. n |-> IF i \in to .. to + k - 1 THEN cells[i - to + from] ELSE s.cells[i]]
  BY DEF S!MovedIn
<1> HIDE DEF t
<1>2. \A i \in to .. to + k - 1 :
        i - to + from = from + (i - to) /\ i - to \in 0 .. k - 1
  OBVIOUS
<1>3. \A i \in to .. to + k - 1 :
        cells[i - to + from] = cells[from + (i - to)] /\ cells[i - to + from] \in Value
  BY <1>2 DEF Readable
<1>4. \A i \in 0 .. n :
        t.cells[i] = IF i \in to .. to + k - 1 THEN cells[from + (i - to)]
          ELSE s.cells[i]
  BY <1>1, <1>3
<1>5. t.cells \in [0 .. n -> Character]
  BY <1>1, <1>3 DEF Character
<1> QED BY <1>1, <1>4, <1>5 DEF t, MovedTo

\* reserve keeps as many characters as fit
LEMMA StringReserved ==
  ASSUME NEW s, IsString(s), NEW n \in Nat
  PROVE  /\ IsString(S!Reserved(s, n))
         /\ S!Reserved(s, n).size = Min({s.size, n})
         /\ S!Capacity(S!Reserved(s, n)) = n
         /\ \A i \in 0 .. Min({s.size, n}) - 1 : S!Reserved(s, n).cells[i] = s.cells[i]
<1> DEFINE k == Min({s.size, n})
           m == S!MovedIn(S!Empty(n), 0, s.cells, 0, k)
<1>1. s.size \in Nat /\ \A i \in 0 .. s.size - 1 : s.cells[i] \in Value
  BY StringIs
<1>2. k \in 0 .. n /\ k \in 0 .. s.size
  BY <1>1, MinOfTwo
<1>3. S!Min({s.size, n}) = k
  BY DEF S!Min, Min
<1>4. S!Reserved(s, n) = S!Terminated(m, k)
  BY <1>3 DEF S!Reserved
<1> HIDE DEF k
<1>5. S!Empty(n).cells \in [0 .. n -> Character] /\ "cells" \in DOMAIN S!Empty(n)
  BY StringEmpty, StringIs DEF IsString
<1>6. \A i \in 0 .. k - 1 :
        /\ 0 + i = i /\ s.cells[0 + i] \in Value /\ i \in 0 .. 0 + k - 1
        /\ 0 + (i - 0) = i /\ i \in 0 .. n
  BY <1>1, <1>2
<1>10. Readable(s.cells, 0, k)
  BY <1>6 DEF Readable
<1>7. /\ m.cells \in [0 .. n -> Character]
      /\ \A i \in 0 .. n :
           m.cells[i] = IF i \in 0 .. 0 + k - 1 THEN s.cells[0 + (i - 0)]
             ELSE S!Empty(n).cells[i]
  <2>1. k \in Nat
    BY <1>2
  <2>2. MovedTo(m, S!Empty(n), n, 0, s.cells, 0, k)
    BY <2>1, <1>5, <1>10, StringMovedIn
  <2> HIDE DEF m
  <2> QED BY <2>2 DEF MovedTo
<1> HIDE DEF m
<1>8. \A i \in 0 .. k - 1 : m.cells[i] = s.cells[i] /\ m.cells[i] \in Value
  BY <1>6, <1>7
<1>9. /\ IsString(S!Terminated(m, k)) /\ S!Terminated(m, k).size = k
      /\ S!Capacity(S!Terminated(m, k)) = n
      /\ \A i \in 0 .. k - 1 : S!Terminated(m, k).cells[i] = m.cells[i]
  BY <1>2, <1>7, <1>8, StringTerminated, ZenonT(60)
<1> QED BY <1>4, <1>8, <1>9 DEF k
\* _extend_if_full: there is room for a character more
LEMMA StringExtended ==
  ASSUME NEW s, IsString(s)
  PROVE  /\ IsString(S!ExtendIfFull(s))
         /\ S!ExtendIfFull(s).size = s.size
         /\ s.size < S!Capacity(S!ExtendIfFull(s))
         /\ \A i \in 0 .. s.size - 1 : S!ExtendIfFull(s).cells[i] = s.cells[i]
<1> DEFINE n == S!Capacity(s) + S!Capacity(s) \div 2 + 1
<1>1. S!Capacity(s) \in Nat /\ s.size \in 0 .. S!Capacity(s)
  BY StringIs
<1>2. n \in Nat /\ n > S!Capacity(s)
  BY <1>1
<1>3. CASE s.size = S!Capacity(s)
  <2>1. S!ExtendIfFull(s) = S!Reserved(s, n)
    BY <1>3 DEF S!ExtendIfFull
  <2> HIDE DEF n
  <2>2. Min({s.size, n}) = s.size
    BY <1>1, <1>2, MinOfTwo
  <2>3. /\ IsString(S!Reserved(s, n)) /\ S!Reserved(s, n).size = s.size
        /\ S!Capacity(S!Reserved(s, n)) = n
        /\ \A i \in 0 .. s.size - 1 : S!Reserved(s, n).cells[i] = s.cells[i]
    BY <1>2, <2>2, StringReserved
  <2> QED BY <1>1, <1>2, <2>1, <2>3
<1>4. CASE s.size # S!Capacity(s)
  <2>1. S!ExtendIfFull(s) = s
    BY <1>4 DEF S!ExtendIfFull
  <2> QED BY <1>1, <1>4, <2>1
<1> QED BY <1>3, <1>4

\* push_back
LEMMA StringPushedBack ==
  ASSUME NEW s, IsString(s), NEW x \in Value
  PROVE  /\ IsString(S!PushedBack(s, x))
         /\ Chars(S!PushedBack(s, x)) = InsertAt(Chars(s), s.size + 1, x)
<1> DEFINE e == S!ExtendIfFull(s)
           f == [e EXCEPT !.cells[e.size] = x]
           t == S!PushedBack(s, x)
           n == S!Capacity(e)
<1>1. /\ IsString(e) /\ e.size = s.size /\ s.size < n
      /\ \A i \in 0 .. s.size - 1 : e.cells[i] = s.cells[i]
  BY StringExtended
<1>2. /\ n \in Nat /\ e.size \in 0 .. n /\ e.cells \in [0 .. n -> Character]
      /\ \A i \in 0 .. e.size - 1 : e.cells[i] \in Value
  BY <1>1, StringIs
<1>3. "cells" \in DOMAIN e
  BY <1>1 DEF IsString
<1> HIDE DEF e
<1>4. f.cells = [e.cells EXCEPT ![s.size] = x]
  BY <1>1, <1>3
<1>5. t = S!Terminated(f, s.size + 1)
  BY <1>1 DEF S!PushedBack, e
<1> HIDE DEF f, n
<1> DEFINE k == s.size + 1
<1>7. s.size \in Nat /\ k \in 0 .. n /\ k - 1 = s.size
  BY <1>1, <1>2
<1>6. /\ f.cells \in [0 .. n -> Character]
      /\ \A i \in 0 .. k - 1 : f.cells[i] = IF i = s.size THEN x ELSE s.cells[i]
  BY <1>1, <1>2, <1>4, <1>7 DEF Character
<1> HIDE DEF k
<1>8. ASSUME NEW i \in 0 .. k - 1 PROVE f.cells[i] \in Value
  BY <1>1, <1>2, <1>6, <1>7, SMTT(30)
<1>9. /\ IsString(t) /\ t.size = k
      /\ \A i \in 0 .. k - 1 : t.cells[i] = f.cells[i]
  <2>1. t = S!Terminated(f, k) /\ n \in Nat /\ k \in 0 .. n
    BY <1>2, <1>5, <1>7 DEF k
  <2> HIDE DEF t
  <2> QED BY <2>1, <1>6, <1>8, StringTerminated
<1>10. /\ Chars(s) \in Seq(Value) /\ Len(Chars(s)) = s.size
       /\ \A i \in 1 .. s.size : Chars(s)[i] = s.cells[i - 1]
  BY StringIs
<1>11. InsertAt(Chars(s), k, x) = Put1(Chars(s), k, x)
  <2>1. k \in 1 .. Len(Chars(s)) + 1
    BY <1>7, <1>10
  <2> QED BY <1>10, <2>1, InsertingAt
<1>12. ASSUME NEW i \in 1 .. k
       PROVE  t.cells[i - 1] = IF i < k THEN Chars(s)[i]
                               ELSE IF i = k THEN x ELSE Chars(s)[i - 1]
  <2>1. i - 1 \in 0 .. k - 1
    BY <1>7
  <2>2. t.cells[i - 1] = IF i - 1 = s.size THEN x ELSE s.cells[i - 1]
    BY <2>1, <1>6, <1>9
  <2> QED BY <2>1, <2>2, <1>7, <1>10
<1> HIDE DEF t
<1>13. Chars(t) = Put1(Chars(s), k, x)
  <2>1. Len(Chars(s)) + 1 = k
    BY <1>7, <1>10
  <2> QED BY <1>9, <1>12, <2>1, ZenonT(60) DEF Chars, Put1
<1> QED BY <1>9, <1>11, <1>13 DEF t, k

\* part is what cells hold from number from on
Holding(cells, from, part) == \A i \in 0 .. Len(part) - 1 : cells[from + i] = part[i + 1]

\* insert and append, of a part of another array
LEMMA StringInserted ==
  ASSUME NEW s, IsString(s), NEW pos \in 0 .. s.size, NEW cells, NEW from \in Nat,
         NEW m \in Nat,
         NEW part \in Seq(Value), Len(part) = m,
         Holding(cells, from, part)
  PROVE  /\ IsString(S!Inserted(s, pos, cells, from, m))
         /\ Chars(S!Inserted(s, pos, cells, from, m)) = Put(Chars(s), pos, part)
<1> DEFINE k == s.size + m
           r == IF s.size + m > S!Capacity(s) THEN S!Reserved(s, s.size + m) ELSE s
           n == S!Capacity(r)
           b == s.size - pos
           f == S!MovedIn(r, pos + m, r.cells, pos, b)
           g == S!MovedIn(f, pos, cells, from, m)
           t == S!Inserted(s, pos, cells, from, m)
<1>1. s.size \in Nat /\ S!Capacity(s) \in Nat /\ s.size <= S!Capacity(s) /\ k \in Nat
  BY StringIs
<1>2. t = S!Terminated(g, k)
  BY DEF S!Inserted
<1> HIDE DEF t
<1>0. k \in Nat
  BY <1>1
<1>3. /\ IsString(r) /\ n \in Nat /\ k <= n /\ r.size = s.size
      /\ \A i \in 0 .. s.size - 1 : r.cells[i] = s.cells[i]
  <2>1. CASE k > S!Capacity(s)
    <3>1. r = S!Reserved(s, k)
      BY <2>1
    <3> HIDE DEF k, r
    <3>2. Min({s.size, k}) = s.size
      BY <1>1, MinOfTwo DEF k
    <3>3. /\ IsString(S!Reserved(s, k)) /\ S!Reserved(s, k).size = s.size
          /\ S!Capacity(S!Reserved(s, k)) = k
          /\ \A i \in 0 .. s.size - 1 : S!Reserved(s, k).cells[i] = s.cells[i]
      BY <1>1, <3>2, StringReserved, ZenonT(60)
    <3> QED BY <1>1, <3>1, <3>3
  <2>2. CASE ~ (k > S!Capacity(s))
    <3>1. r = s
      BY <2>2
    <3> HIDE DEF r
    <3> QED BY <1>1, <2>2, <3>1
  <2> QED BY <2>1, <2>2
<1> HIDE DEF r
<1>4. /\ r.cells \in [0 .. n -> Character] /\ "cells" \in DOMAIN r
      /\ \A i \in 0 .. s.size - 1 : r.cells[i] \in Value
  BY <1>3, StringIs DEF IsString
<1> HIDE DEF n
<1>5. /\ pos \in Nat /\ b \in Nat /\ pos + m \in Nat /\ pos <= s.size
      /\ s.size = pos + b /\ k = pos + m + b
  BY <1>1
<1>6. Readable(r.cells, pos, b)
  <2>1. ASSUME NEW i \in 0 .. b - 1
        PROVE  pos + i \in 0 .. s.size - 1
    BY <1>5
  <2>2. \A i \in 0 .. b - 1 : r.cells[pos + i] \in Value
    BY <1>4, <2>1
  <2> QED BY <2>2 DEF Readable
<1> HIDE DEF b, k
<1>7. /\ f.cells \in [0 .. n -> Character] /\ "cells" \in DOMAIN f
      /\ \A i \in 0 .. n : f.cells[i] = IF i \in pos + m .. pos + m + b - 1
                                        THEN r.cells[pos + (i - (pos + m))] ELSE r.cells[i]
  <2>1. n \in Nat /\ pos \in Nat /\ b \in Nat /\ pos + m \in Nat
    BY <1>3, <1>5
  <2>2. r.cells \in [0 .. n -> Character] /\ "cells" \in DOMAIN r
    BY <1>4
  <2>3. MovedTo(f, r, n, pos + m, r.cells, pos, b)
    BY <2>1, <2>2, <1>6, StringMovedIn
  <2> HIDE DEF f
  <2> QED BY <2>3 DEF MovedTo
<1> HIDE DEF f
<1>8. Readable(cells, from, m)
  <2>1. ASSUME NEW i \in 0 .. m - 1
        PROVE  cells[from + i] \in Value
    <3>1. i \in 0 .. Len(part) - 1 /\ i + 1 \in 1 .. Len(part)
      OBVIOUS
    <3>2. part[i + 1] \in Value
      BY <3>1
    <3>3. cells[from + i] = part[i + 1]
      BY <3>1 DEF Holding
    <3> QED BY <3>2, <3>3
  <2> QED BY <2>1 DEF Readable
<1>9. /\ g.cells \in [0 .. n -> Character]
      /\ \A i \in 0 .. n : g.cells[i] = IF i \in pos .. pos + m - 1
                                        THEN cells[from + (i - pos)] ELSE f.cells[i]
  <2>1. n \in Nat /\ pos \in Nat /\ from \in Nat /\ m \in Nat
    BY <1>3, <1>5
  <2>2. f.cells \in [0 .. n -> Character] /\ "cells" \in DOMAIN f
    BY <1>7
  <2>3. MovedTo(g, f, n, pos, cells, from, m)
    BY <2>1, <2>2, <1>8, StringMovedIn
  <2> HIDE DEF g
  <2> QED BY <2>3 DEF MovedTo
<1> HIDE DEF g
<1>10. ASSUME NEW i \in 1 .. k
       PROVE  g.cells[i - 1] = Put(Chars(s), pos, part)[i] /\ g.cells[i - 1] \in Value
  <2>1. /\ Chars(s) \in Seq(Value) /\ Len(Chars(s)) = s.size
        /\ \A j \in 1 .. s.size : Chars(s)[j] = s.cells[j - 1]
    BY StringIs
  <2>2. Put(Chars(s), pos, part)[i]
          = IF i <= pos THEN Chars(s)[i]
            ELSE IF i <= pos + m THEN part[i - pos] ELSE Chars(s)[i - m]
    <3>1. Len(Chars(s)) + Len(part) = k
      BY <2>1, <1>5
    <3> QED BY <3>1 DEF Put
  <2>3. i - 1 \in 0 .. n /\ i \in Nat
    BY <1>3, <1>5
  <2>4. CASE i <= pos
    <3>1. i - 1 \in 0 .. s.size - 1 /\ i \in 1 .. s.size
      BY <2>4, <1>1, <1>5
    <3>2. g.cells[i - 1] = f.cells[i - 1] /\ f.cells[i - 1] = r.cells[i - 1]
      BY <2>3, <2>4, <1>5, <1>7, <1>9
    <3> QED BY <2>1, <2>2, <2>4, <3>1, <3>2, <1>3, <1>4
  <2>5. CASE i > pos /\ i <= pos + m
    <3> DEFINE j == i - pos - 1
    <3>1. /\ j \in 0 .. m - 1 /\ i - 1 \in pos .. pos + m - 1 /\ (i - 1) - pos = j
          /\ j + 1 = i - pos
      BY <2>5, <1>5
    <3> HIDE DEF j
    <3>2. g.cells[i - 1] = cells[from + j]
      BY <2>3, <3>1, <1>9
    <3>3. cells[from + j] = part[i - pos] /\ cells[from + j] \in Value
      BY <3>1, <1>8 DEF Readable, Holding
    <3> QED BY <2>2, <2>5, <3>2, <3>3, <1>5
  <2>6. CASE i > pos + m
    <3> DEFINE j == i - m
    <3>1. /\ i - 1 \notin pos .. pos + m - 1 /\ i - 1 \in pos + m .. pos + m + b - 1
          /\ pos + ((i - 1) - (pos + m)) = j - 1 /\ j - 1 \in 0 .. s.size - 1
          /\ j \in 1 .. s.size
          /\ ~ (i <= pos) /\ ~ (i <= pos + m)
      BY <2>6, <1>1, <1>5
    <3> HIDE DEF j
    <3>2. g.cells[i - 1] = r.cells[j - 1]
      BY <2>3, <3>1, <1>7, <1>9
    <3>3. Put(Chars(s), pos, part)[i] = Chars(s)[j]
      BY <2>2, <3>1 DEF j
    <3> QED BY <2>1, <3>1, <3>2, <3>3, <1>3, <1>4
  <2> QED BY <2>3, <2>4, <2>5, <2>6, <1>5
<1>11. \A i \in 0 .. k - 1 : i + 1 \in 1 .. k /\ (i + 1) - 1 = i
  BY <1>5
<1>12. \A i \in 0 .. k - 1 : g.cells[i] \in Value
  BY <1>10, <1>11
<1>13. k \in 0 .. n
  BY <1>0, <1>3
<1>14. /\ IsString(t) /\ t.size = k
       /\ \A i \in 0 .. k - 1 : t.cells[i] = g.cells[i]
  BY <1>2, <1>3, <1>9, <1>12, <1>13, StringTerminated, SMTT(30)
<1>15. \A i \in 1 .. k : t.cells[i - 1] = Put(Chars(s), pos, part)[i]
  <2> TAKE i \in 1 .. k
  <2>1. i - 1 \in 0 .. k - 1
    BY <1>5
  <2> QED BY <2>1, <1>10, <1>14
<1>16. Put(Chars(s), pos, part) = [i \in 1 .. k |-> Put(Chars(s), pos, part)[i]]
  <2>1. Len(Chars(s)) = s.size
    BY StringIs
  <2>2. Len(Chars(s)) + Len(part) = k
    BY <2>1, <1>1 DEF k
  <2> QED BY <2>2 DEF Put
<1>17. Chars(t) = Put(Chars(s), pos, part)
  BY <1>14, <1>15, <1>16 DEF Chars
<1> QED BY <1>14, <1>17 DEF t

\* erase
LEMMA StringRemoved ==
  ASSUME NEW s, IsString(s), NEW pos \in 0 .. s.size, NEW m \in 0 .. s.size - pos
  PROVE  /\ IsString(S!Removed(s, pos, m))
         /\ Chars(S!Removed(s, pos, m)) = Cut(Chars(s), pos, m)
<1> DEFINE k == s.size - m
           n == S!Capacity(s)
           b == s.size - pos - m
           g == S!MovedIn(s, pos, s.cells, pos + m, b)
           t == S!Removed(s, pos, m)
<1>1. /\ s.size \in Nat /\ n \in Nat /\ s.size <= n
      /\ pos \in Nat /\ m \in Nat /\ b \in Nat /\ k \in Nat /\ pos + m \in Nat
      /\ s.size = pos + m + b /\ k = pos + b
  BY StringIs, SMTT(30)
<1>2. t = S!Terminated(g, k)
  BY DEF S!Removed
<1> HIDE DEF t, k, b, n
<1>3. /\ s.cells \in [0 .. n -> Character] /\ "cells" \in DOMAIN s
      /\ \A i \in 0 .. s.size - 1 : s.cells[i] \in Value
  BY StringIs DEF IsString, n
<1>4. Readable(s.cells, pos + m, b)
  <2> DEFINE p == pos + m
  <2>1. ASSUME NEW i \in 0 .. b - 1
        PROVE  p + i \in 0 .. s.size - 1
    BY <1>1
  <2> HIDE DEF p
  <2>2. \A i \in 0 .. b - 1 : s.cells[p + i] \in Value
    BY <1>3, <2>1
  <2> QED BY <2>2 DEF Readable, p
<1>5. MovedTo(g, s, n, pos, s.cells, pos + m, b)
  BY <1>1, <1>3, <1>4, StringMovedIn
<1> HIDE DEF g
<1>6. /\ g.cells \in [0 .. n -> Character]
      /\ \A i \in 0 .. n : g.cells[i] = IF i \in pos .. pos + b - 1
                                        THEN s.cells[pos + m + (i - pos)] ELSE s.cells[i]
  BY <1>5 DEF MovedTo
<1>7. /\ Chars(s) \in Seq(Value) /\ Len(Chars(s)) = s.size
      /\ \A j \in 1 .. s.size : Chars(s)[j] = s.cells[j - 1]
  BY StringIs
<1>8. Len(Chars(s)) - m = k
  BY <1>1, <1>7
<1>9. ASSUME NEW i \in 1 .. k
      PROVE  g.cells[i - 1] = Cut(Chars(s), pos, m)[i] /\ g.cells[i - 1] \in Value
  <2>1. Cut(Chars(s), pos, m)[i] = IF i <= pos THEN Chars(s)[i] ELSE Chars(s)[i + m]
    BY <1>8 DEF Cut
  <2>2. i - 1 \in 0 .. n /\ i \in Nat
    BY <1>1
  <2>3. CASE i <= pos
    <3>1. /\ i - 1 \in 0 .. s.size - 1 /\ i \in 1 .. s.size
          /\ i - 1 \notin pos .. pos + b - 1
      BY <2>3, <1>1
    <3>2. g.cells[i - 1] = s.cells[i - 1]
      BY <2>2, <3>1, <1>6
    <3> QED BY <2>1, <2>3, <3>1, <3>2, <1>3, <1>7
  <2>4. CASE i > pos
    <3> DEFINE j == i + m
    <3>1. /\ i - 1 \in pos .. pos + b - 1 /\ pos + m + ((i - 1) - pos) = j - 1
          /\ j - 1 \in 0 .. s.size - 1 /\ j \in 1 .. s.size /\ ~ (i <= pos)
      BY <2>4, <1>1
    <3> HIDE DEF j
    <3>2. g.cells[i - 1] = s.cells[j - 1]
      BY <2>2, <3>1, <1>6
    <3>3. Cut(Chars(s), pos, m)[i] = Chars(s)[j]
      BY <2>1, <3>1 DEF j
    <3> QED BY <3>1, <3>2, <3>3, <1>3, <1>7
  <2> QED BY <2>2, <2>3, <2>4, <1>1
<1>10. \A i \in 0 .. k - 1 : i + 1 \in 1 .. k /\ (i + 1) - 1 = i
  BY <1>1
<1>11. \A i \in 0 .. k - 1 : g.cells[i] \in Value
  BY <1>9, <1>10
<1>12. k \in 0 .. n
  BY <1>1
<1>13. /\ IsString(t) /\ t.size = k
       /\ \A i \in 0 .. k - 1 : t.cells[i] = g.cells[i]
  <2>1. n \in Nat /\ g.cells \in [0 .. n -> Character]
    BY <1>1, <1>6
  <2>2. /\ IsString(S!Terminated(g, k)) /\ S!Terminated(g, k).size = k
        /\ \A i \in 0 .. k - 1 : S!Terminated(g, k).cells[i] = g.cells[i]
    BY <2>1, <1>11, <1>12, StringTerminated
  <2> QED BY <2>2, <1>2
<1>14. \A i \in 1 .. k : t.cells[i - 1] = Cut(Chars(s), pos, m)[i]
  <2> TAKE i \in 1 .. k
  <2>1. i - 1 \in 0 .. k - 1
    BY <1>1
  <2> QED BY <2>1, <1>9, <1>13
<1>15. Cut(Chars(s), pos, m) = [i \in 1 .. k |-> Cut(Chars(s), pos, m)[i]]
  BY <1>8 DEF Cut
<1>16. Chars(t) = Cut(Chars(s), pos, m)
  BY <1>13, <1>14, <1>15 DEF Chars
<1> QED BY <1>13, <1>16 DEF t

\* The first k characters, or those of another array, in front of a terminator
LEMMA StringPrefix ==
  ASSUME NEW s, NEW n \in Nat, NEW k \in 0 .. n, s.cells \in [0 .. n -> Character],
         NEW c \in Seq(Value), Len(c) = k, Holding(s.cells, 0, c)
  PROVE  IsString(S!Terminated(s, k)) /\ Chars(S!Terminated(s, k)) = c
<1> DEFINE t == S!Terminated(s, k)
<1>1. \A i \in 0 .. k - 1 : 0 + i = i /\ i + 1 \in 1 .. k
  OBVIOUS
<1>2. \A i \in 0 .. k - 1 : s.cells[i] = c[i + 1] /\ s.cells[i] \in Value
  BY <1>1, SMTT(30) DEF Holding
<1>3. /\ IsString(t) /\ t.size = k
      /\ \A i \in 0 .. k - 1 : t.cells[i] = s.cells[i]
  BY <1>2, StringTerminated
<1> HIDE DEF t
<1>4. \A i \in 1 .. k : i - 1 \in 0 .. k - 1 /\ (i - 1) + 1 = i
  OBVIOUS
<1>5. \A i \in 1 .. k : t.cells[i - 1] = c[i]
  BY <1>2, <1>3, <1>4
<1>6. c = [i \in 1 .. k |-> c[i]]
  OBVIOUS
<1>7. Chars(t) = c
  BY <1>3, <1>5, <1>6 DEF Chars
<1> QED BY <1>3, <1>7 DEF t
-----------------------------------------------------------------------------

\* Every string is one of the program
StringInv ==
  /\ string = [q \in Object |-> string[q]]
  /\ \A q \in Object : IsString(string[q])

\* What an iterator over a string visits is what its cells hold
LEMMA StringContent ==
  ASSUME StringInv, NEW q \in Object
  PROVE  S!Content(q) = Chars(string[q])
BY DEF S!Content, Chars

\* When one string changes to t, the strings stay in order and the one becomes
\* the sequence t holds
LEMMA StringBecomes ==
  ASSUME StringInv, NEW q \in Object, NEW STATE t, IsString(t), NEW STATE c,
         Chars(t) = c,
         string' = [string EXCEPT ![q] = t]
  PROVE  StringInv' /\ S!Abstract!Become(q, c)
<1>1. StringInv'
  BY DEF StringInv
<1>2. \A p \in Object : string'[p] = IF p = q THEN t ELSE string[p]
  BY DEF StringInv
<1>3. \A p \in Object :
        S!Content(p) = Chars(string[p]) /\ S!Content(p)' = Chars(string'[p])
  BY DEF S!Content, Chars
<1>4. \A p \in Object : S!Content(p)' = IF p = q THEN c ELSE S!Content(p)
  BY <1>2, <1>3
<1> QED BY <1>1, <1>4 DEF S!Abstract!Become

\* push_back, growing or not, inserts the character behind the others
LEMMA PushBackImplements ==
  ASSUME StringInv, NEW q \in Object, NEW x \in Value, S!PushBack(q, x)
  PROVE  StringInv' /\ S!Abstract!Insert(q, string[q].size + 1, x)
<1> DEFINE s == string[q]
           t == S!PushedBack(s, x)
           c == InsertAt(Chars(s), s.size + 1, x)
<1>1. string' = [string EXCEPT ![q] = t]
  BY DEF S!PushBack
<1>2. IsString(t) /\ Chars(t) = c
  BY StringPushedBack DEF StringInv
<1>3. StringInv' /\ S!Abstract!Become(q, c)
  <2> HIDE DEF t, c
  <2> QED BY <1>1, <1>2, StringBecomes
<1> QED BY <1>3, StringContent DEF S!Abstract!Insert, InsertAt
\* The constructors give a string of the given characters
LEMMA ConstructImplements ==
  ASSUME StringInv, NEW q \in Object, NEW chars \in Seq(Value), NEW n \in Nat,
         S!Construct(q, chars, n)
  PROVE  StringInv' /\ S!Abstract!Become(q, chars)
<1> DEFINE s == [cells |-> [i \in 0 .. n |-> IF i < Len(chars) THEN chars[i + 1] ELSE Raw]]
           k == Len(chars)
           t == S!Terminated(s, k)
<1>1. string' = [string EXCEPT ![q] = t]
  BY DEF S!Construct
<1>2. k \in 0 .. n
  <2>1. n = k \/ k = 0
    BY DEF S!Construct
  <2> QED BY <2>1
<1>3. \A i \in 0 .. n : i < Len(chars) => chars[i + 1] \in Value
  OBVIOUS
<1>4. s.cells \in [0 .. n -> Character]
  BY <1>3 DEF Character
<1>5. Holding(s.cells, 0, chars)
  BY <1>2 DEF Holding
<1>6. IsString(t) /\ Chars(t) = chars
  <2> HIDE DEF s
  <2> QED BY <1>2, <1>4, <1>5, StringPrefix
<1> HIDE DEF t
<1> QED BY <1>1, <1>6, StringBecomes

\* pop_back erases the last character
LEMMA PopBackImplements ==
  ASSUME StringInv, NEW q \in Object, S!PopBack(q)
  PROVE  StringInv' /\ S!Abstract!Erase(q, string[q].size)
<1> DEFINE s == string[q]
           k == s.size - 1
           t == S!Terminated(s, k)
           c == RemoveAt(Chars(s), s.size)
<1>1. string' = [string EXCEPT ![q] = t] /\ s.size > 0
  BY DEF S!PopBack
<1>2. IsString(s)
  BY DEF StringInv
<1> HIDE DEF s
<1>3. /\ Chars(s) \in Seq(Value) /\ Len(Chars(s)) = s.size
      /\ s.size \in 1 .. S!Capacity(s)
      /\ S!Capacity(s) \in Nat /\ s.cells \in [0 .. S!Capacity(s) -> Character]
      /\ \A i \in 1 .. s.size : Chars(s)[i] = s.cells[i - 1]
  BY <1>1, <1>2, StringIs
<1>4. c = Cut1(Chars(s), s.size)
  BY <1>3, RemovingAt
<1>5. c \in Seq(Value) /\ Len(c) = k /\ \A i \in 1 .. k : c[i] = Chars(s)[i]
  <2>1. c = [i \in 1 .. k |-> Chars(s)[i]]
    BY <1>3, <1>4 DEF Cut1
  <2>2. \A i \in 1 .. k : Chars(s)[i] \in Value
    BY <1>3
  <2>3. k \in Nat
    BY <1>3
  <2> HIDE DEF c, k
  <2>4. c \in [1 .. k -> Value]
    BY <2>1, <2>2
  <2>5. c \in Seq(Value) /\ Len(c) = k
    BY <2>3, <2>4
  <2> QED BY <2>1, <2>5
<1> HIDE DEF c
<1>6. k \in 0 .. S!Capacity(s) /\ k < s.size
  BY <1>3
<1>7. Holding(s.cells, 0, c)
  BY <1>3, <1>5, <1>6 DEF Holding
<1> HIDE DEF k
<1>8. IsString(t) /\ Chars(t) = c
  BY <1>3, <1>5, <1>6, <1>7, StringPrefix
<1> HIDE DEF t
<1>9. StringInv' /\ S!Abstract!Become(q, c)
  BY <1>1, <1>8, StringBecomes
<1> QED BY <1>9, StringContent DEF S!Abstract!Erase, RemoveAt, c, s

\* clear leaves no character
LEMMA ClearImplements ==
  ASSUME StringInv, NEW q \in Object, S!Clear(q)
  PROVE  StringInv' /\ S!Abstract!Become(q, << >>)
<1> DEFINE s == string[q]
           t == S!Terminated(s, 0)
<1>1. string' = [string EXCEPT ![q] = t]
  BY DEF S!Clear
<1>2. IsString(s)
  BY DEF StringInv
<1> HIDE DEF s
<1>3. S!Capacity(s) \in Nat /\ s.cells \in [0 .. S!Capacity(s) -> Character]
  BY <1>2, StringIs
<1>4. 0 \in 0 .. S!Capacity(s) /\ << >> \in Seq(Value) /\ Len(<< >>) = 0
  BY <1>3
<1>5. Holding(s.cells, 0, << >>)
  BY DEF Holding
<1>6. IsString(t) /\ Chars(t) = << >>
  BY <1>3, <1>4, <1>5, StringPrefix
<1> HIDE DEF t
<1> QED BY <1>1, <1>6, StringBecomes

\* reserve, which allocates anew for exactly n, keeps what fits
LEMMA ReserveImplements ==
  ASSUME StringInv, NEW q \in Object, NEW n \in Nat, S!Reserve(q, n)
  PROVE  StringInv' /\ S!Abstract!Resize(q, S!Min({n, string[q].size}), << >>)
<1> DEFINE s == string[q]
           k == Min({s.size, n})
           t == S!Reserved(s, n)
           c == SubSeq(Chars(s), 1, k) \o << >>
<1>1. string' = [string EXCEPT ![q] = t]
  BY DEF S!Reserve
<1>2. IsString(s)
  BY DEF StringInv
<1> HIDE DEF s
<1>3. /\ Chars(s) \in Seq(Value) /\ Len(Chars(s)) = s.size /\ s.size \in Nat
      /\ \A i \in 1 .. s.size : Chars(s)[i] = s.cells[i - 1]
  BY <1>2, StringIs
<1>4. k \in 0 .. s.size
  BY <1>3, MinOfTwo
<1>5. /\ IsString(t) /\ t.size = k
      /\ \A i \in 0 .. k - 1 : t.cells[i] = s.cells[i]
  BY <1>2, StringReserved
<1> HIDE DEF t, k
<1>6. c = [i \in 1 .. k |-> Chars(s)[i]]
  BY <1>3, <1>4
<1>7. \A i \in 1 .. k : i - 1 \in 0 .. k - 1 /\ i \in 1 .. s.size
  BY <1>3, <1>4
<1>8. \A i \in 1 .. k : t.cells[i - 1] = Chars(s)[i]
  BY <1>3, <1>5, <1>7
<1>9. Chars(t) = c
  BY <1>5, <1>6, <1>8 DEF Chars
<1> HIDE DEF c
<1>10. StringInv' /\ S!Abstract!Become(q, c)
  BY <1>1, <1>5, <1>9, StringBecomes
<1>11. S!Min({n, s.size}) = k
  <2>1. {n, s.size} = {s.size, n}
    OBVIOUS
  <2> QED BY <2>1, Zenon DEF S!Min, Min, k
<1> QED BY <1>10, <1>11, StringContent DEF S!Abstract!Resize, c, s
\* What insert of a part gives, as the sequence that is abstractly inserted
LEMMA InsertedBecomes ==
  ASSUME StringInv, NEW q \in Object, NEW pos \in 0 .. string[q].size, NEW STATE cells,
         NEW from \in Nat, NEW m \in Nat, NEW STATE part, part \in Seq(Value),
         Len(part) = m,
         Holding(cells, from, part),
         string' = [string EXCEPT ![q] = S!Inserted(string[q], pos, cells, from, m)]
  PROVE  StringInv' /\ S!Inserting(q, pos, part)
<1> DEFINE s == string[q]
           t == S!Inserted(s, pos, cells, from, m)
           c == Put(Chars(s), pos, part)
<1>1. IsString(s) /\ Chars(s) \in Seq(Value) /\ Len(Chars(s)) = s.size
  BY StringIs DEF StringInv
<1>2. IsString(t) /\ Chars(t) = c
  <2> HIDE DEF s
  <2> QED BY <1>1, StringInserted DEF s
<1>3. StringInv' /\ S!Abstract!Become(q, c)
  <2>1. string' = [string EXCEPT ![q] = t]
    OBVIOUS
  <2> HIDE DEF t, c
  <2> QED BY <1>2, <2>1, StringBecomes
<1>4. SubSeq(Chars(s), 1, pos) \o part \o SubSeq(Chars(s), pos + 1, s.size) = c
  <2>1. pos \in 0 .. Len(Chars(s))
    BY <1>1
  <2> HIDE DEF s
  <2> QED BY <1>1, <2>1, Inserting
<1> HIDE DEF c
<1> QED BY <1>3, <1>4, StringContent DEF S!Inserting

\* insert of n equal characters puts them in, whether there was room or not
LEMMA InsertCharImplements ==
  ASSUME StringInv, NEW q \in Object, NEW pos \in 0 .. string[q].size, NEW n \in Nat,
         NEW x \in Value,
         S!InsertChar(q, pos, n, x)
  PROVE  StringInv' /\ S!Inserting(q, pos, [i \in 1 .. n |-> x])
<1> DEFINE cells == [i \in 0 .. n |-> x]
           part == [i \in 1 .. n |-> x]
<1>1. part \in Seq(Value) /\ Len(part) = n
  <2>1. part \in [1 .. n -> Value]
    OBVIOUS
  <2> HIDE DEF part
  <2> QED BY <2>1
<1>2. Holding(cells, 0, part)
  BY <1>1 DEF Holding
<1>3. string' = [string EXCEPT ![q] = S!Inserted(string[q], pos, cells, 0, n)]
  BY DEF S!InsertChar
<1> HIDE DEF cells, part
<1>4. StringInv' /\ S!Inserting(q, pos, part)
  BY <1>1, <1>2, <1>3, InsertedBecomes
<1> QED BY <1>4 DEF part

\* A part of a string, as its cells hold it
LEMMA PartOf ==
  ASSUME NEW s, IsString(s), NEW from \in 0 .. s.size, NEW n \in 0 .. s.size - from
  PROVE  /\ SubSeq(Chars(s), from + 1, from + n) \in Seq(Value)
         /\ Len(SubSeq(Chars(s), from + 1, from + n)) = n
         /\ Holding(s.cells, from, SubSeq(Chars(s), from + 1, from + n))
         /\ Readable(s.cells, from, n)
<1> DEFINE c == Chars(s)
           part == SubSeq(c, from + 1, from + n)
<1>1. /\ c \in Seq(Value) /\ Len(c) = s.size /\ s.size \in Nat
      /\ \A i \in 1 .. s.size : c[i] = s.cells[i - 1]
      /\ \A i \in 0 .. s.size - 1 : s.cells[i] \in Value
  BY StringIs
<1> HIDE DEF c
<1>2. part \in Seq(Value) /\ Len(part) = n /\ \A i \in 1 .. n : part[i] = c[from + i]
  BY <1>1, SMTT(30)
<1> HIDE DEF part
<1>4. ASSUME NEW i \in 0 .. n - 1
      PROVE  s.cells[from + i] = part[i + 1] /\ s.cells[from + i] \in Value
  <2> DEFINE j == from + (i + 1)
  <2>1. /\ i + 1 \in 1 .. n /\ j \in 1 .. s.size /\ j - 1 = from + i
        /\ j - 1 \in 0 .. s.size - 1
    BY <1>1
  <2>2. part[i + 1] = c[j]
    BY <2>1, <1>2
  <2> HIDE DEF j
  <2>3. c[j] = s.cells[j - 1] /\ s.cells[j - 1] \in Value
    BY <2>1, <1>1
  <2> QED BY <2>1, <2>2, <2>3
<1> QED BY <1>2, <1>4 DEF c, part, Holding, Readable

\* insert of a part of a string, of the same one too, puts the part in as it
\* was before the call
LEMMA InsertImplements ==
  ASSUME StringInv, NEW q \in Object, NEW o \in Object, NEW pos \in 0 .. string[q].size,
         NEW from \in 0 .. string[o].size, NEW n \in 0 .. string[o].size - from,
         S!Insert(q, pos, o, from, n)
  PROVE  StringInv' /\ S!Inserting(q, pos, SubSeq(S!Content(o), from + 1, from + n))
<1> DEFINE s == string[o]
           cells == s.cells
           part == SubSeq(Chars(s), from + 1, from + n)
<1>1. IsString(s)
  BY DEF StringInv
<1>2. from \in Nat /\ n \in Nat
  BY <1>1, StringIs
<1>3. part \in Seq(Value) /\ Len(part) = n /\ Holding(cells, from, part)
  <2> HIDE DEF s
  <2> QED BY <1>1, PartOf DEF s
<1>4. string' = [string EXCEPT ![q] = S!Inserted(string[q], pos, cells, from, n)]
  BY DEF S!Insert
<1> HIDE DEF cells, part
<1>5. StringInv' /\ S!Inserting(q, pos, part)
  BY <1>2, <1>3, <1>4, InsertedBecomes
<1> QED BY <1>5, StringContent DEF part
\* erase cuts n characters out, and the ones behind close the gap
LEMMA EraseImplements ==
  ASSUME StringInv, NEW q \in Object, NEW pos \in 0 .. string[q].size,
         NEW n \in 0 .. string[q].size - pos, S!Erase(q, pos, n)
  PROVE  /\ StringInv'
         /\ S!Abstract!Become(q, SubSeq(S!Content(q), 1, pos)
                                   \o SubSeq(S!Content(q), pos + n + 1, string[q].size))
<1> DEFINE s == string[q]
           t == S!Removed(s, pos, n)
           c == Cut(Chars(s), pos, n)
<1>1. IsString(s) /\ Chars(s) \in Seq(Value) /\ Len(Chars(s)) = s.size
  BY StringIs DEF StringInv
<1>2. string' = [string EXCEPT ![q] = t]
  BY DEF S!Erase
<1>3. pos \in 0 .. s.size /\ n \in 0 .. s.size - pos
  OBVIOUS
<1> HIDE DEF s
<1>4. IsString(t) /\ Chars(t) = c
  BY <1>1, <1>3, StringRemoved
<1>5. SubSeq(Chars(s), 1, pos) \o SubSeq(Chars(s), pos + n + 1, s.size) = c
  BY <1>1, <1>3, Cutting
<1> HIDE DEF t, c
<1>6. StringInv' /\ S!Abstract!Become(q, c)
  BY <1>2, <1>4, StringBecomes
<1> QED BY <1>5, <1>6, StringContent DEF s

\* A new array for k characters of another one
LEMMA StringFilled ==
  ASSUME NEW n \in Nat, NEW k \in 0 .. n, NEW cells, NEW from \in Nat,
         NEW c \in Seq(Value), Len(c) = k, Holding(cells, from, c),
         Readable(cells, from, k)
  PROVE  /\ IsString(S!Terminated(S!MovedIn(S!Empty(n), 0, cells, from, k), k))
         /\ Chars(S!Terminated(S!MovedIn(S!Empty(n), 0, cells, from, k), k)) = c
<1> DEFINE m == S!MovedIn(S!Empty(n), 0, cells, from, k)
<1>1. S!Empty(n).cells \in [0 .. n -> Character] /\ "cells" \in DOMAIN S!Empty(n)
  BY StringEmpty, StringIs DEF IsString
<1>2. k \in Nat
  OBVIOUS
<1>3. MovedTo(m, S!Empty(n), n, 0, cells, from, k)
  BY <1>1, <1>2, StringMovedIn
<1> HIDE DEF m
<1>4. \A i \in 0 .. k - 1 :
        i \in 0 .. n /\ i \in 0 .. 0 + k - 1 /\ from + (i - 0) = from + i
  BY <1>2
<1>5. \A i \in 0 .. k - 1 : m.cells[i] = cells[from + i]
  BY <1>3, <1>4 DEF MovedTo
<1>6. Holding(m.cells, 0, c)
  BY <1>5 DEF Holding
<1>7. IsString(S!Terminated(m, k)) /\ Chars(S!Terminated(m, k)) = c
  BY <1>3, <1>6, StringPrefix DEF MovedTo
<1> QED BY <1>7 DEF m

\* substr gives the part of the other string
LEMMA SubstrImplements ==
  ASSUME StringInv, NEW q \in Object, NEW o \in Object,
         NEW from \in 0 .. string[o].size, NEW n \in 0 .. string[o].size - from,
         S!Substr(q, o, from, n)
  PROVE  StringInv' /\ S!Abstract!Become(q, SubSeq(S!Content(o), from + 1, from + n))
<1> DEFINE s == string[o]
           c == SubSeq(Chars(s), from + 1, from + n)
           t == S!Terminated(S!MovedIn(S!Empty(n), 0, s.cells, from, n), n)
<1>1. IsString(s) /\ s.size \in Nat
  BY StringIs DEF StringInv
<1>2. from \in Nat /\ n \in Nat /\ n \in 0 .. n
  BY <1>1
<1>3. /\ c \in Seq(Value) /\ Len(c) = n /\ Holding(s.cells, from, c)
      /\ Readable(s.cells, from, n)
  <2> HIDE DEF s
  <2> QED BY <1>1, PartOf DEF s
<1>4. string' = [string EXCEPT ![q] = t]
  BY DEF S!Substr
<1> HIDE DEF s, c
<1>5. IsString(t) /\ Chars(t) = c
  BY <1>2, <1>3, StringFilled
<1> HIDE DEF t
<1>6. StringInv' /\ S!Abstract!Become(q, c)
  BY <1>4, <1>5, StringBecomes
<1> QED BY <1>6, StringContent DEF c, s

\* A copy holds what the original holds
LEMMA CopyAssignImplements ==
  ASSUME StringInv, NEW q \in Object, NEW o \in Object, S!CopyAssign(q, o)
  PROVE  StringInv' /\ S!Abstract!Become(q, S!Content(o))
<1> DEFINE s == string[o]
           c == Chars(s)
           n == S!Capacity(s)
           k == s.size
           t == S!Terminated(S!MovedIn(S!Empty(n), 0, s.cells, 0, k), k)
<1>1. /\ IsString(s) /\ k \in 0 .. n /\ n \in Nat /\ c \in Seq(Value) /\ Len(c) = k
      /\ \A i \in 1 .. k : c[i] = s.cells[i - 1]
      /\ \A i \in 0 .. k - 1 : s.cells[i] \in Value
  BY StringIs DEF StringInv
<1>2. string' = [string EXCEPT ![q] = t]
  BY DEF S!CopyAssign
<1> HIDE DEF s, c, n, k
<1>3. \A i \in 0 .. k - 1 : i + 1 \in 1 .. k /\ (i + 1) - 1 = i /\ 0 + i = i
  BY <1>1
<1>4. Holding(s.cells, 0, c) /\ Readable(s.cells, 0, k)
  BY <1>1, <1>3 DEF Holding, Readable
<1>5. IsString(t) /\ Chars(t) = c
  BY <1>1, <1>4, StringFilled
<1> HIDE DEF t
<1>6. StringInv' /\ S!Abstract!Become(q, c)
  BY <1>2, <1>5, StringBecomes
<1> QED BY <1>6, StringContent DEF c, s

\* A move hands the characters over and leaves none
LEMMA MoveAssignImplements ==
  ASSUME StringInv, NEW q \in Object, NEW o \in Object, S!MoveAssign(q, o)
  PROVE  StringInv' /\ S!Abstract!Move(q, o)
<1> DEFINE e == S!Empty(StringCells)
<1>1. IsString(e) /\ e.size = 0
  BY StringEmpty, ArraysAssumption
<1>2. Chars(e) = << >>
  BY <1>1 DEF Chars
<1>3. q # o /\ string' = [string EXCEPT ![q] = string[o], ![o] = e]
  BY DEF S!MoveAssign
<1> HIDE DEF e
<1>4. \A p \in Object :
        string'[p] = IF p = o THEN e ELSE IF p = q THEN string[o] ELSE string[p]
  BY <1>3 DEF StringInv
<1>5. StringInv'
  <2>1. \A p \in Object : IsString(string'[p])
    BY <1>1, <1>4 DEF StringInv
  <2>2. string' = [p \in Object |-> string'[p]]
    BY <1>3 DEF StringInv
  <2> QED BY <2>1, <2>2 DEF StringInv
<1>6. \A p \in Object :
        S!Content(p) = Chars(string[p]) /\ S!Content(p)' = Chars(string'[p])
  BY DEF S!Content, Chars
<1>7. \A p \in Object :
        S!Content(p)' = IF p = o THEN << >> ELSE IF p = q THEN S!Content(o)
          ELSE S!Content(p)
  BY <1>2, <1>4, <1>6
<1> QED BY <1>3, <1>5, <1>7 DEF S!Abstract!Move

\* swap exchanges the characters of two strings
LEMMA SwapImplements ==
  ASSUME StringInv, NEW q \in Object, NEW o \in Object, S!Swap(q, o)
  PROVE  StringInv' /\ S!Abstract!Swap(q, o)
<1>1. string' = [string EXCEPT ![q] = string[o], ![o] = string[q]]
  BY DEF S!Swap
<1>2. \A p \in Object :
        string'[p] = IF p = o THEN string[q] ELSE IF p = q THEN string[o] ELSE string[p]
  BY <1>1 DEF StringInv
<1>3. StringInv'
  <2>1. \A p \in Object : IsString(string'[p])
    BY <1>2 DEF StringInv
  <2>2. string' = [p \in Object |-> string'[p]]
    BY <1>1 DEF StringInv
  <2> QED BY <2>1, <2>2 DEF StringInv
<1>4. \A p \in Object :
        S!Content(p) = Chars(string[p]) /\ S!Content(p)' = Chars(string'[p])
  BY DEF S!Content, Chars
<1>5. \A p \in Object :
        S!Content(p)' = IF p = o THEN S!Content(q) ELSE IF p = q THEN S!Content(o)
          ELSE S!Content(p)
  BY <1>2, <1>4
<1> QED BY <1>3, <1>5 DEF S!Abstract!Swap
-----------------------------------------------------------------------------

\* In the beginning the strings are in order and empty
LEMMA StringsStart ==
  ASSUME S!Init
  PROVE  StringInv /\ S!Abstract!Init
<1>1. IsString(S!Empty(StringCells)) /\ S!Empty(StringCells).size = 0
  BY StringEmpty, ArraysAssumption
<1>2. \A q \in Object : string[q] = S!Empty(StringCells)
  BY DEF S!Init
<1>3. StringInv
  BY <1>1, <1>2 DEF StringInv, S!Init
<1>4. \A q \in Object : S!Content(q) = << >>
  BY <1>1, <1>2 DEF S!Content
<1> QED BY <1>3, <1>4 DEF S!Abstract!Init

\* What the action of the constructors picks from are sequences of characters
LEMMA CharsInSeqOf ==
  ASSUME NEW chars \in S!SeqOf(Value, StringShared)
  PROVE  chars \in Seq(Value)
BY ArraysAssumption DEF S!SeqOf

\* Every operation of basic_string keeps the strings in order
LEMMA StringsStep ==
  ASSUME StringInv, S!Next
  PROVE  StringInv'
<1>1. ASSUME NEW q \in Object, NEW x \in Value, S!PushBack(q, x)
      PROVE  StringInv'
  BY <1>1, PushBackImplements
<1>2. ASSUME NEW q \in Object, NEW chars \in S!SeqOf(Value, StringShared),
             NEW n \in 0 .. StringRequest, S!Construct(q, chars, n)
      PROVE  StringInv'
  <2>1. chars \in Seq(Value) /\ n \in Nat
    BY CharsInSeqOf, ArraysAssumption
  <2> QED BY <1>2, <2>1, ConstructImplements
<1>3. ASSUME NEW q \in Object, NEW x \in Value, NEW pos \in 0 .. string[q].size,
             NEW n \in 0 .. StringShared, S!InsertChar(q, pos, n, x)
      PROVE  StringInv'
  <2>1. n \in Nat
    BY ArraysAssumption
  <2> QED BY <1>3, <2>1, InsertCharImplements
<1>4. ASSUME NEW q \in Object, S!PopBack(q) \/ S!Clear(q)
      PROVE  StringInv'
  BY <1>4, PopBackImplements, ClearImplements
<1>5. ASSUME NEW q \in Object, NEW n \in 0 .. StringRequest, S!Reserve(q, n)
      PROVE  StringInv'
  <2>1. n \in Nat
    BY ArraysAssumption
  <2> QED BY <1>5, <2>1, ReserveImplements
<1>6. ASSUME NEW q \in Object, NEW pos \in 0 .. string[q].size,
             NEW n \in 0 .. string[q].size - pos, S!Erase(q, pos, n)
      PROVE  StringInv'
  BY <1>6, EraseImplements
<1>7. ASSUME NEW q \in Object, NEW o \in Object,
             S!CopyAssign(q, o) \/ S!MoveAssign(q, o) \/ S!Swap(q, o)
      PROVE  StringInv'
  BY <1>7, CopyAssignImplements, MoveAssignImplements, SwapImplements
<1>8. ASSUME NEW q \in Object, NEW o \in Object, NEW from \in 0 .. string[o].size,
             NEW n \in 0 .. string[o].size - from, S!Substr(q, o, from, n)
      PROVE  StringInv'
  BY <1>8, SubstrImplements
<1>9. ASSUME NEW q \in Object, NEW o \in Object, NEW from \in 0 .. string[o].size,
             NEW n \in 0 .. string[o].size - from, NEW pos \in 0 .. string[q].size,
             S!Insert(q, pos, o, from, n)
      PROVE  StringInv'
  BY <1>9, InsertImplements
<1> QED BY <1>1, <1>2, <1>3, <1>4, <1>5, <1>6, <1>7, <1>8, <1>9, Zenon DEF S!Next

\* Every operation of basic_string does to the characters what that of
\* AbstractSequence does
LEMMA StringsImplement ==
  ASSUME StringInv
  PROVE  S!Implementing
<1>1. ASSUME NEW q \in Object, NEW x \in Value, S!PushBack(q, x)
      PROVE  S!Abstract!Insert(q, string[q].size + 1, x)
  BY <1>1, PushBackImplements
<1>2. ASSUME NEW q \in Object, NEW chars \in S!SeqOf(Value, StringShared),
             NEW n \in 0 .. StringRequest, S!Construct(q, chars, n)
      PROVE  S!Abstract!Become(q, chars)
  <2>1. chars \in Seq(Value) /\ n \in Nat
    BY CharsInSeqOf, ArraysAssumption
  <2> QED BY <1>2, <2>1, ConstructImplements
<1>3. ASSUME NEW q \in Object, NEW x \in Value, NEW pos \in 0 .. string[q].size,
             NEW n \in 0 .. StringShared, S!InsertChar(q, pos, n, x)
      PROVE  S!Inserting(q, pos, [i \in 1 .. n |-> x])
  <2>1. n \in Nat
    BY ArraysAssumption
  <2> QED BY <1>3, <2>1, InsertCharImplements
<1>4. ASSUME NEW q \in Object
      PROVE  /\ S!PopBack(q) => S!Abstract!Erase(q, string[q].size)
             /\ S!Clear(q) => S!Abstract!Become(q, << >>)
  BY PopBackImplements, ClearImplements
<1>5. ASSUME NEW q \in Object, NEW n \in 0 .. StringRequest, S!Reserve(q, n)
      PROVE  S!Abstract!Resize(q, S!Min({n, string[q].size}), << >>)
  <2>1. n \in Nat
    BY ArraysAssumption
  <2> QED BY <1>5, <2>1, ReserveImplements
<1>6. ASSUME NEW q \in Object, NEW pos \in 0 .. string[q].size,
             NEW n \in 0 .. string[q].size - pos, S!Erase(q, pos, n)
      PROVE  S!Abstract!Become(q, SubSeq(S!Content(q), 1, pos)
                                   \o SubSeq(S!Content(q), pos + n + 1, string[q].size))
  BY <1>6, EraseImplements
<1>7. ASSUME NEW q \in Object, NEW o \in Object
      PROVE  /\ S!CopyAssign(q, o) => S!Abstract!Become(q, S!Content(o))
             /\ S!MoveAssign(q, o) => S!Abstract!Move(q, o)
             /\ S!Swap(q, o) => S!Abstract!Swap(q, o)
  BY CopyAssignImplements, MoveAssignImplements, SwapImplements
<1>8. ASSUME NEW q \in Object, NEW o \in Object, NEW from \in 0 .. string[o].size,
             NEW n \in 0 .. string[o].size - from, S!Substr(q, o, from, n)
      PROVE  S!Abstract!Become(q, SubSeq(S!Content(o), from + 1, from + n))
  BY <1>8, SubstrImplements
<1>9. ASSUME NEW q \in Object, NEW o \in Object, NEW from \in 0 .. string[o].size,
             NEW n \in 0 .. string[o].size - from, NEW pos \in 0 .. string[q].size,
             S!Insert(q, pos, o, from, n)
      PROVE  S!Inserting(q, pos, SubSeq(S!Content(o), from + 1, from + n))
  BY <1>9, InsertImplements
<1> QED BY <1>1, <1>2, <1>3, <1>4, <1>5, <1>6, <1>7, <1>8, <1>9, ZenonT(60) DEF S!Implementing

\* Strings in order are of their type and have the terminator right behind the
\* last character
LEMMA StringsExact ==
  ASSUME StringInv
  PROVE  S!TypeOK /\ S!TerminatorExact
<1>1. ASSUME NEW q \in Object
      PROVE  /\ DOMAIN string[q] = {"cells", "size"}
             /\ string[q].cells \in [0 .. S!Capacity(string[q]) -> Character]
             /\ string[q].size \in 0 .. S!Capacity(string[q])
             /\ string[q].size <= S!Capacity(string[q])
             /\ \A i \in 0 .. string[q].size - 1 : string[q].cells[i] \in Value
             /\ string[q].cells[string[q].size] = Terminator
  BY StringIs DEF StringInv, IsString
<1>2. S!TypeOK
  BY <1>1 DEF S!TypeOK, Character
<1>3. S!TerminatorExact
  BY <1>1 DEF S!TerminatorExact
<1> QED BY <1>2, <1>3

\* Naturals are well ordered, by the library's theorem on well-founded
\* relations
LEMMA LeastNat ==
  ASSUME NEW T, T \subseteq Nat, T # {}
  PROVE  \E m \in T : \A n \in T : m <= n
<1> DEFINE R == OpToRel(<, Nat)
<1>1. IsWellFoundedOn(R, Nat)
  BY NatLessThanWellFounded
<1>2. R = {p \in Nat \X Nat : p[1] < p[2]}
  BY Zenon DEF OpToRel
<1>3. \A x \in Nat, y \in Nat : y < x => << y, x >> \in R
  BY <1>2
<1> HIDE DEF R
<1>4. PICK x \in T : \A y \in T : << y, x >> \notin R
  BY <1>1, WFMin
<1>5. ASSUME NEW n \in T PROVE x <= n
  <2>1. x \in Nat /\ n \in Nat
    OBVIOUS
  <2>2. ~ (n < x)
    BY <2>1, <1>3, <1>4
  <2> QED BY <2>1, <2>2
<1> QED BY <1>5

\* What holds of 0, and of the successor of every number it holds of, holds of
\* all: the induction on loops, on a set because no prover instantiates an
\* operator
LEMMA Induct ==
  ASSUME NEW T, 0 \in T, \A n \in Nat : n \in T => n + 1 \in T
  PROVE  \A n \in Nat : n \in T
<1> SUFFICES ASSUME NEW x \in Nat, x \notin T PROVE FALSE
  OBVIOUS
<1> DEFINE U == {n \in Nat : n \notin T}
<1>1. PICK m \in U : \A n \in U : m <= n
  BY LeastNat
<1>2. m \in Nat /\ m # 0 /\ m - 1 \in Nat /\ (m - 1) + 1 = m /\ ~ (m <= m - 1)
  BY <1>1
<1>3. m - 1 \in T
  BY <1>1, <1>2
<1> QED BY <1>1, <1>2, <1>3

-----------------------------------------------------------------------------
(* Moving along a sequence of places.                                      *)

\* p names places of I, none twice
Path(p, I) ==
  /\ p \in Seq(I) /\ Len(p) >= 1
  /\ \A j, k \in 1 .. Len(p) : p[j] = p[k] => j = k

\* u is s after the moves from p[2] to p[1], ..., from p[k] to p[k - 1]
Along(u, s, p, k) ==
  /\ DOMAIN u = DOMAIN s
  /\ \A j \in 1 .. k - 1 : u[p[j]] = s[p[j + 1]]
  /\ \A i \in DOMAIN s : (\A j \in 1 .. k : p[j] # i) => u[i] = s[i]

\* Before the first move nothing is moved
LEMMA AlongStarts ==
  ASSUME NEW s, NEW p
  PROVE  Along(s, s, p, 1)
BY DEF Along

\* One more move along p
LEMMA AlongMoves ==
  ASSUME NEW s, NEW u, NEW p, NEW k \in Nat, k >= 1, k < Len(p), Path(p, DOMAIN s),
         Along(u, s, p, k),
         NEW w, w = [u EXCEPT ![p[k]] = u[p[k + 1]], ![p[k + 1]] = Moved]
  PROVE  Along(w, s, p, k + 1)
<1> DEFINE to == p[k]
           from == p[k + 1]
<1>1. /\ Len(p) \in Nat /\ k \in 1 .. Len(p) /\ k + 1 \in 1 .. Len(p)
      /\ \A j \in 1 .. Len(p) : p[j] \in DOMAIN s
  BY DEF Path
<1>2. to \in DOMAIN s /\ from \in DOMAIN s /\ to # from /\ DOMAIN u = DOMAIN s
  BY <1>1 DEF Path, Along
<1>3. u[from] = s[from]
  <2>1. ASSUME NEW j \in 1 .. k PROVE p[j] # from
    BY <1>1 DEF Path
  <2> QED BY <1>2, <2>1 DEF Along
<1> HIDE DEF to, from
<1>4. /\ DOMAIN w = DOMAIN s
      /\ \A i \in DOMAIN s :
           w[i] = IF i = from THEN Moved ELSE IF i = to THEN s[from] ELSE u[i]
  BY <1>2, <1>3 DEF to, from
<1>5. ASSUME NEW j \in 1 .. k
      PROVE  w[p[j]] = s[p[j + 1]]
  <2>1. j \in 1 .. Len(p) /\ p[j] \in DOMAIN s /\ p[j] # from
    BY <1>1 DEF Path, from
  <2>2. CASE j = k
    BY <1>2, <1>4, <2>2 DEF to, from
  <2>3. CASE j # k
    <3>1. p[j] # to /\ j \in 1 .. k - 1
      BY <1>1, <2>1, <2>3 DEF Path, to
    <3> QED BY <1>4, <2>1, <3>1 DEF Along
  <2> QED BY <2>2, <2>3
<1>6. ASSUME NEW i \in DOMAIN s, \A j \in 1 .. k + 1 : p[j] # i
      PROVE  w[i] = s[i]
  <2>1. i # to /\ i # from /\ \A j \in 1 .. k : p[j] # i
    BY <1>6 DEF to, from
  <2> QED BY <1>4, <2>1 DEF Along
<1>7. (k + 1) - 1 = k
  OBVIOUS
<1> QED BY <1>4, <1>5, <1>6, <1>7 DEF Along

-----------------------------------------------------------------------------
(* vector.                                                                 *)

\* What a cell holds
Cell == Value \cup {Raw, Moved}

\* A vector with n cells
Shaped(v, n) ==
  /\ DOMAIN v = {"cells", "size"}
  /\ v.cells \in [0 .. n - 1 -> Cell]
  /\ v.size \in 0 .. n

\* A vector of the program, and what it holds
IsVector(v) ==
  /\ Shaped(v, V!Capacity(v)) /\ V!Capacity(v) \in Nat
  /\ \A i \in 0 .. v.size - 1 : v.cells[i] \in Value

Elements(v) == [i \in 1 .. v.size |-> v.cells[i - 1]]

\* A vector with n cells has capacity n
LEMMA VectorCapacity ==
  ASSUME NEW v, NEW n \in Nat, Shaped(v, n)
  PROVE  V!Capacity(v) = n
<1>1. Cardinality(0 .. n - 1) = n
  BY FS_Interval
<1>2. V!Cardinality(0 .. n - 1) = n
  BY <1>1, SameCardinality
<1> QED BY <1>2 DEF V!Capacity, Shaped

\* A vector whose cells up to its size hold values is one of the program
LEMMA VectorIs ==
  ASSUME NEW v, NEW n \in Nat, Shaped(v, n),
         \A i \in 0 .. v.size - 1 : v.cells[i] \in Value
  PROVE  IsVector(v)
BY VectorCapacity DEF IsVector

\* The type of the sequence a vector holds
LEMMA VectorElements ==
  ASSUME NEW v, IsVector(v)
  PROVE  /\ Elements(v) \in Seq(Value) /\ Len(Elements(v)) = v.size /\ v.size \in Nat
         /\ \A i \in 1 .. v.size : Elements(v)[i] = v.cells[i - 1]
<1>1. v.size \in Nat
  BY DEF IsVector, Shaped
<1>2. \A i \in 1 .. v.size : v.cells[i - 1] \in Value
  BY <1>1 DEF IsVector
<1>3. Elements(v) \in [1 .. v.size -> Value]
  BY <1>2 DEF Elements
<1>4. Elements(v) \in Seq(Value) /\ Len(Elements(v)) = v.size
  BY <1>1, <1>3
<1> QED BY <1>1, <1>4 DEF Elements

\* reserve
LEMMA VectorReserved ==
  ASSUME NEW v, IsVector(v), NEW n \in Nat
  PROVE  /\ IsVector(V!Reserved(v, n)) /\ V!Capacity(V!Reserved(v, n)) = n
         /\ V!Reserved(v, n).size = Min({v.size, n})
         /\ \A i \in 0 .. Min({v.size, n}) - 1 : V!Reserved(v, n).cells[i] = v.cells[i]
<1> DEFINE t == V!Reserved(v, n)
           k == Min({v.size, n})
<1>1. v.size \in Nat /\ \A i \in 0 .. v.size - 1 : v.cells[i] \in Value
  BY DEF IsVector, Shaped
<1>2. k \in 0 .. n /\ k \in 0 .. v.size
  BY <1>1, MinOfTwo
<1>3. V!Min({v.size, n}) = k
  BY DEF V!Min, Min
<1> HIDE DEF k
<1>4. /\ t = [cells |-> t.cells, size |-> k]
      /\ t.cells = [i \in 0 .. n - 1 |-> IF i < k THEN v.cells[i] ELSE Raw]
  BY <1>3 DEF V!Reserved
<1> HIDE DEF t
<1>5. \A i \in 0 .. k - 1 : i \in 0 .. n - 1 /\ i < k /\ i \in 0 .. v.size - 1
  BY <1>1, <1>2
<1>6. \A i \in 0 .. k - 1 : t.cells[i] = v.cells[i] /\ t.cells[i] \in Value
  BY <1>1, <1>4, <1>5
<1>7. \A i \in 0 .. n - 1 : i < k => i \in 0 .. k - 1
  BY <1>2
<1>8. t.cells \in [0 .. n - 1 -> Cell]
  BY <1>1, <1>4, <1>6, <1>7 DEF Cell
<1>9. Shaped(t, n) /\ t.size = k
  BY <1>2, <1>4, <1>8 DEF Shaped
<1> QED BY <1>6, <1>9, VectorIs, VectorCapacity DEF t, k

\* _extend_if_full: there is room for an element more
LEMMA VectorExtended ==
  ASSUME NEW v, IsVector(v)
  PROVE  /\ IsVector(V!ExtendIfFull(v)) /\ V!ExtendIfFull(v).size = v.size
         /\ v.size < V!Capacity(V!ExtendIfFull(v))
         /\ \A i \in 0 .. v.size - 1 : V!ExtendIfFull(v).cells[i] = v.cells[i]
<1> DEFINE n == V!Capacity(v) + V!Capacity(v) \div 2 + 1
<1>1. V!Capacity(v) \in Nat /\ v.size \in 0 .. V!Capacity(v)
  BY DEF IsVector, Shaped
<1>2. n \in Nat /\ n > V!Capacity(v)
  BY <1>1
<1>3. CASE v.size = V!Capacity(v)
  <2>1. V!ExtendIfFull(v) = V!Reserved(v, n)
    BY <1>3 DEF V!ExtendIfFull
  <2> HIDE DEF n
  <2>2. Min({v.size, n}) = v.size
    BY <1>1, <1>2, MinOfTwo
  <2>3. /\ IsVector(V!Reserved(v, n)) /\ V!Reserved(v, n).size = v.size
        /\ V!Capacity(V!Reserved(v, n)) = n
        /\ \A i \in 0 .. v.size - 1 : V!Reserved(v, n).cells[i] = v.cells[i]
    BY <1>2, <2>2, VectorReserved
  <2> QED BY <1>1, <1>2, <1>3, <2>1, <2>3
<1>4. CASE v.size # V!Capacity(v)
  <2>1. V!ExtendIfFull(v) = v
    BY <1>4 DEF V!ExtendIfFull
  <2> QED BY <1>1, <1>4, <2>1
<1> QED BY <1>3, <1>4

\* emplace_back
LEMMA VectorPushedBack ==
  ASSUME NEW v, IsVector(v), NEW x \in Value
  PROVE  /\ IsVector(V!PushedBack(v, x)) /\ V!PushedBack(v, x).size = v.size + 1
         /\ \A i \in 0 .. v.size - 1 : V!PushedBack(v, x).cells[i] = v.cells[i]
         /\ V!PushedBack(v, x).cells[v.size] = x
<1> DEFINE e == V!ExtendIfFull(v)
           n == V!Capacity(e)
           t == V!PushedBack(v, x)
<1>1. /\ IsVector(e) /\ e.size = v.size /\ v.size < n
      /\ \A i \in 0 .. v.size - 1 : e.cells[i] = v.cells[i]
  BY VectorExtended
<1>2. n \in Nat /\ Shaped(e, n) /\ \A i \in 0 .. v.size - 1 : e.cells[i] \in Value
  BY <1>1 DEF IsVector
<1>3. t = [e EXCEPT !.cells[e.size] = x, !.size = @ + 1]
  BY DEF V!PushedBack
<1> HIDE DEF e, n, t
<1>4. /\ DOMAIN t = {"cells", "size"} /\ t.size = v.size + 1
      /\ t.cells = [e.cells EXCEPT ![v.size] = x]
  BY <1>1, <1>2, <1>3 DEF Shaped
<1>5. v.size \in 0 .. n - 1 /\ v.size + 1 \in 0 .. n /\ v.size \in Nat
  BY <1>1, <1>2 DEF Shaped
<1>6. /\ t.cells \in [0 .. n - 1 -> Cell]
      /\ \A i \in 0 .. n - 1 : t.cells[i] = IF i = v.size THEN x ELSE e.cells[i]
  BY <1>2, <1>4, <1>5 DEF Shaped, Cell
<1>7. Shaped(t, n)
  BY <1>4, <1>5, <1>6 DEF Shaped
<1>8. \A i \in 0 .. v.size - 1 : i \in 0 .. n - 1 /\ i # v.size
  BY <1>2, <1>5
<1>9. \A i \in 0 .. v.size - 1 : t.cells[i] = v.cells[i] /\ t.cells[i] \in Value
  BY <1>1, <1>2, <1>6, <1>8
<1>10. t.cells[v.size] = x
  BY <1>5, <1>6
<1>11. \A i \in 0 .. t.size - 1 : i = v.size \/ i \in 0 .. v.size - 1
  BY <1>4, <1>5
<1>12. IsVector(t)
  BY <1>2, <1>7, <1>9, <1>10, <1>11, VectorIs
<1> QED BY <1>4, <1>9, <1>10, <1>12 DEF t

\* pop_back
LEMMA VectorPoppedBack ==
  ASSUME NEW v, NEW n \in Nat, Shaped(v, n), v.size > 0,
         \A i \in 0 .. v.size - 2 : v.cells[i] \in Value
  PROVE  /\ IsVector(V!PoppedBack(v)) /\ V!PoppedBack(v).size = v.size - 1
         /\ \A i \in 0 .. v.size - 2 : V!PoppedBack(v).cells[i] = v.cells[i]
<1> DEFINE t == V!PoppedBack(v)
           k == v.size - 1
<1>1. v.size \in 0 .. n /\ k \in 0 .. n /\ k \in 0 .. n - 1 /\ v.size - 2 = k - 1
  BY DEF Shaped
<1>2. /\ DOMAIN t = {"cells", "size"} /\ t.size = k
      /\ t.cells = [v.cells EXCEPT ![k] = Raw]
  BY DEF V!PoppedBack, Shaped
<1> HIDE DEF t, k
<1>3. /\ t.cells \in [0 .. n - 1 -> Cell]
      /\ \A i \in 0 .. n - 1 : i # k => t.cells[i] = v.cells[i]
  BY <1>2 DEF Shaped, Cell
<1>4. \A i \in 0 .. k - 1 : t.cells[i] = v.cells[i] /\ t.cells[i] \in Value
  BY <1>1, <1>3
<1>5. Shaped(t, n)
  BY <1>1, <1>2, <1>3 DEF Shaped
<1> QED BY <1>1, <1>2, <1>4, <1>5, VectorIs DEF t, k
\* t is v, of n cells, after a move from one cell to another
CellMoved(t, v, n, to, from) ==
  /\ Shaped(t, n) /\ t.size = v.size
  /\ t.cells = [v.cells EXCEPT ![to] = v.cells[from], ![from] = Moved]

\* *to = move(*from) changes two cells: one takes the value, the other is left
\* moved from
LEMMA VectorMovedCell ==
  ASSUME NEW v, NEW n \in Nat, Shaped(v, n), NEW to \in 0 .. n - 1,
         NEW from \in 0 .. n - 1
  PROVE  CellMoved(V!MovedCell(v, to, from), v, n, to, from)
<1> DEFINE t == V!MovedCell(v, to, from)
<1>1. /\ DOMAIN t = {"cells", "size"} /\ t.size = v.size
      /\ t.cells = [v.cells EXCEPT ![to] = v.cells[from], ![from] = Moved]
  BY DEF V!MovedCell, Shaped
<1> HIDE DEF t
<1>2. t.cells \in [0 .. n - 1 -> Cell]
  BY <1>1 DEF Shaped, Cell
<1> QED BY <1>1, <1>2 DEF t, Shaped, CellMoved

\* f is what the first, second, ... move along p makes of v
VectorMoves(f, v, p, n) ==
  f = [k \in 1 .. n |-> IF k = 1 THEN v ELSE V!MovedCell(f[k - 1], p[k - 1], p[k])]

\* The recursive function of MovedAlong exists
LEMMA VectorMovesExist ==
  ASSUME NEW v, NEW p, NEW n \in Nat
  PROVE  \E f : VectorMoves(f, v, p, n)
<1> DEFINE Turn(u, k) == V!MovedCell(u, p[k - 1], p[k])
           T == {m \in Nat : \E f : f = [k \in 1 .. m |-> IF k = 1 THEN v ELSE Turn(f[k - 1], k)]}
<1> HIDE DEF Turn
<1>1. 0 \in T
  <2> DEFINE f == [k \in 1 .. 0 |-> v]
  <2>1. f = [k \in 1 .. 0 |-> IF k = 1 THEN v ELSE Turn(f[k - 1], k)]
    OBVIOUS
  <2> QED BY <2>1
<1>2. ASSUME NEW m \in Nat, m \in T
      PROVE  m + 1 \in T
  <2>1. PICK f : f = [k \in 1 .. m |-> IF k = 1 THEN v ELSE Turn(f[k - 1], k)]
    BY <1>2
  <2> DEFINE g == [k \in 1 .. m + 1 |-> IF k = 1 THEN v
                                        ELSE IF k = m + 1 THEN Turn(f[m], m + 1) ELSE f[k]]
  <2>2. ASSUME NEW k \in 1 .. m + 1
        PROVE  g[k] = IF k = 1 THEN v ELSE Turn(g[k - 1], k)
    <3>1. CASE k = 1
      BY <3>1
    <3>2. CASE k # 1
      <4>1. k - 1 \in 1 .. m /\ k - 1 \in 1 .. m + 1 /\ k - 1 # m + 1
        BY <3>2
      <4>2. f[k - 1] = g[k - 1]
        BY <2>1, <4>1
      <4>3. CASE k = m + 1
        BY <3>2, <4>2, <4>3
      <4>4. CASE k # m + 1
        <5>1. k \in 1 .. m
          BY <4>4
        <5> QED BY <2>1, <3>2, <4>2, <4>4, <5>1
      <4> QED BY <4>3, <4>4
    <3> QED BY <3>1, <3>2
  <2>3. g = [k \in 1 .. m + 1 |-> IF k = 1 THEN v ELSE Turn(g[k - 1], k)]
    <3>1. g = [k \in 1 .. m + 1 |-> g[k]]
      OBVIOUS
    <3> HIDE DEF g
    <3> QED BY <2>2, <3>1
  <2> HIDE DEF g
  <2> QED BY <2>3
<1> HIDE DEF T
<1>3. n \in T
  BY <1>1, <1>2, Induct
<1> QED BY <1>3 DEF T, Turn, VectorMoves

\* Moves along a sequence of cells give each what the next one held
LEMMA VectorMovedAlong ==
  ASSUME NEW v, NEW n \in Nat, Shaped(v, n), NEW p, Path(p, 0 .. n - 1)
  PROVE  /\ Shaped(V!MovedAlong(v, p), n) /\ V!MovedAlong(v, p).size = v.size
         /\ Along(V!MovedAlong(v, p).cells, v.cells, p, Len(p))
<1> DEFINE m == Len(p)
           Turn(u, k) == V!MovedCell(u, p[k - 1], p[k])
           f == CHOOSE f : f = [k \in 1 .. m |-> IF k = 1 THEN v ELSE Turn(f[k - 1], k)]
           Done(u, k) == Shaped(u, n) /\ u.size = v.size /\ Along(u.cells, v.cells, p, k)
<1>1. m \in Nat /\ m >= 1 /\ \A k \in 1 .. m : p[k] \in 0 .. n - 1
  BY DEF Path
<1>2. V!MovedAlong(v, p) = f[m]
  BY Zenon DEF V!MovedAlong
<1>3. \E g : g = [k \in 1 .. m |-> IF k = 1 THEN v ELSE Turn(g[k - 1], k)]
  <2>1. m \in Nat
    BY <1>1
  <2> HIDE DEF m
  <2>2. \E g : VectorMoves(g, v, p, m)
    BY <2>1, VectorMovesExist
  <2> QED BY <2>2 DEF VectorMoves
<1> HIDE DEF Turn
<1>4. f = [k \in 1 .. m |-> IF k = 1 THEN v ELSE Turn(f[k - 1], k)]
  BY <1>3, Zenon
<1> HIDE DEF f
<1> DEFINE T == {k \in Nat : k >= 1 /\ k <= m => Done(f[k], k)}
<1>5. 0 \in T
  BY <1>1
<1>6. ASSUME NEW k \in Nat, k \in T
      PROVE  k + 1 \in T
  <2> SUFFICES ASSUME k + 1 <= m
               PROVE  Done(f[k + 1], k + 1)
    OBVIOUS
  <2>1. CASE k = 0
    <3>1. f[1] = v
      BY <1>1, <1>4
    <3> QED BY <2>1, <3>1, AlongStarts
  <2>2. CASE k # 0
    <3> DEFINE u == f[k]
               t == f[k + 1]
               to == p[k]
               from == p[k + 1]
    <3>1. Done(u, k)
      BY <1>1, <1>6, <2>2
    <3>2. t = V!MovedCell(u, to, from)
      <4>1. k + 1 \in 1 .. m /\ k + 1 # 1 /\ (k + 1) - 1 = k
        BY <1>1, <2>2
      <4> QED BY <1>4, <4>1 DEF Turn
    <3>3. to \in 0 .. n - 1 /\ from \in 0 .. n - 1
      <4>1. k \in 1 .. m /\ k + 1 \in 1 .. m
        BY <1>1, <2>2
      <4> QED BY <1>1, <4>1
    <3> HIDE DEF u, t, to, from
    <3>4. CellMoved(V!MovedCell(u, to, from), u, n, to, from)
      BY <3>1, <3>3, VectorMovedCell
    <3>5. t.cells = [u.cells EXCEPT ![to] = u.cells[from], ![from] = Moved]
      BY <3>2, <3>4 DEF CellMoved
    <3>6. Along(t.cells, v.cells, p, k + 1)
      <4>1. k >= 1 /\ k < Len(p) /\ DOMAIN v.cells = 0 .. n - 1
        BY <1>1, <2>2 DEF Shaped
      <4>2. t.cells = [u.cells EXCEPT ![p[k]] = u.cells[p[k + 1]], ![p[k + 1]] = Moved]
        BY <3>5 DEF to, from
      <4> QED BY <3>1, <4>1, <4>2, AlongMoves
    <3> QED BY <3>1, <3>2, <3>4, <3>6 DEF CellMoved, t
  <2> QED BY <2>1, <2>2
<1> HIDE DEF T
<1>7. m \in T
  BY <1>1, <1>5, <1>6, Induct
<1>8. Done(f[m], m)
  BY <1>1, <1>7 DEF T
<1> QED BY <1>2, <1>8 DEF m

\* The shift to the back leaves a hole at index
LEMMA VectorShiftedUp ==
  ASSUME NEW v, NEW n \in Nat, Shaped(v, n), NEW index \in 0 .. v.size - 1
  PROVE  /\ Shaped(V!ShiftedUp(v, index), n) /\ V!ShiftedUp(v, index).size = v.size
         /\ \A i \in 0 .. v.size - 1 : i # index =>
              V!ShiftedUp(v, index).cells[i]
                = IF i < index THEN v.cells[i] ELSE v.cells[i - 1]
<1> DEFINE m == v.size - index
           p == [k \in 1 .. m |-> v.size - k]
           t == V!ShiftedUp(v, index)
<1>1. v.size \in 0 .. n /\ v.size \in Nat /\ index \in Nat /\ m \in Nat /\ m >= 1
  BY DEF Shaped
<1>2. p \in Seq(0 .. n - 1) /\ Len(p) = m /\ \A k \in 1 .. m : p[k] = v.size - k
  <2>1. \A k \in 1 .. m : v.size - k \in 0 .. n - 1
    BY <1>1
  <2> HIDE DEF m
  <2>2. p \in [1 .. m -> 0 .. n - 1]
    BY <2>1
  <2> QED BY <1>1, <2>2
<1>3. t = V!MovedAlong(v, p)
  BY DEF V!ShiftedUp
<1> HIDE DEF p, t
<1>4. Path(p, 0 .. n - 1)
  BY <1>1, <1>2, SMTT(30) DEF Path
<1>5. /\ Shaped(t, n) /\ t.size = v.size
      /\ Along(t.cells, v.cells, p, m)
  BY <1>2, <1>3, <1>4, VectorMovedAlong
<1>6. ASSUME NEW i \in 0 .. v.size - 1, i # index
      PROVE  t.cells[i] = IF i < index THEN v.cells[i] ELSE v.cells[i - 1]
  <2>1. i \in DOMAIN v.cells
    BY <1>1 DEF Shaped
  <2>2. CASE i < index
    <3>1. \A k \in 1 .. m : p[k] # i
      BY <1>1, <1>2, <2>2, SMTT(30)
    <3> QED BY <1>5, <2>1, <2>2, <3>1 DEF Along
  <2>3. CASE i > index
    <3> DEFINE k == v.size - i
    <3>1. /\ k \in 1 .. m - 1 /\ k \in 1 .. m /\ k + 1 \in 1 .. m /\ v.size - k = i
          /\ v.size - (k + 1) = i - 1
      BY <1>1, <2>3
    <3> HIDE DEF k, m
    <3>2. p[k] = i /\ p[k + 1] = i - 1
      BY <1>2, <3>1
    <3>3. t.cells[p[k]] = v.cells[p[k + 1]]
      BY <1>5, <3>1 DEF Along
    <3> QED BY <1>1, <2>3, <3>2, <3>3
  <2> QED BY <1>1, <1>6, <2>2, <2>3
<1> QED BY <1>5, <1>6 DEF t

\* The shift to the front leaves a hole behind the others
LEMMA VectorShiftedDown ==
  ASSUME NEW v, NEW n \in Nat, Shaped(v, n), NEW index \in 0 .. v.size - 1
  PROVE  /\ Shaped(V!ShiftedDown(v, index), n) /\ V!ShiftedDown(v, index).size = v.size
         /\ \A i \in 0 .. v.size - 2 :
              V!ShiftedDown(v, index).cells[i]
                = IF i < index THEN v.cells[i] ELSE v.cells[i + 1]
<1> DEFINE m == v.size - index
           p == [k \in 1 .. m |-> index + k - 1]
           t == V!ShiftedDown(v, index)
<1>1. v.size \in 0 .. n /\ v.size \in Nat /\ index \in Nat /\ m \in Nat /\ m >= 1
  BY DEF Shaped
<1>2. p \in Seq(0 .. n - 1) /\ Len(p) = m /\ \A k \in 1 .. m : p[k] = index + k - 1
  <2>1. \A k \in 1 .. m : index + k - 1 \in 0 .. n - 1
    BY <1>1
  <2> HIDE DEF m
  <2>2. p \in [1 .. m -> 0 .. n - 1]
    BY <2>1
  <2> QED BY <1>1, <2>2
<1>3. t = V!MovedAlong(v, p)
  BY DEF V!ShiftedDown
<1> HIDE DEF p, t
<1>4. Path(p, 0 .. n - 1)
  BY <1>1, <1>2 DEF Path
<1>5. /\ Shaped(t, n) /\ t.size = v.size
      /\ Along(t.cells, v.cells, p, m)
  BY <1>2, <1>3, <1>4, VectorMovedAlong
<1>6. ASSUME NEW i \in 0 .. v.size - 2
      PROVE  t.cells[i] = IF i < index THEN v.cells[i] ELSE v.cells[i + 1]
  <2>1. i \in DOMAIN v.cells
    BY <1>1 DEF Shaped
  <2>2. CASE i < index
    <3>1. \A k \in 1 .. m : p[k] # i
      BY <1>1, <1>2, <2>2, SMTT(30)
    <3> QED BY <1>5, <2>1, <2>2, <3>1 DEF Along
  <2>3. CASE ~ (i < index)
    <3> DEFINE k == i - index + 1
    <3>1. k \in 1 .. m - 1 /\ k \in 1 .. m /\ k + 1 \in 1 .. m
          /\ index + k - 1 = i /\ index + (k + 1) - 1 = i + 1
      BY <1>1, <2>3
    <3> HIDE DEF k, m
    <3>2. p[k] = i /\ p[k + 1] = i + 1
      BY <1>2, <3>1
    <3>3. t.cells[p[k]] = v.cells[p[k + 1]]
      BY <1>5, <3>1 DEF Along
    <3> QED BY <1>1, <2>3, <3>2, <3>3
  <2> QED BY <2>2, <2>3
<1> QED BY <1>5, <1>6 DEF t

\* emplace
LEMMA VectorEmplaced ==
  ASSUME NEW v, IsVector(v), NEW index \in 0 .. v.size, NEW x \in Value
  PROVE  /\ IsVector(V!Emplaced(v, index, x))
         /\ Elements(V!Emplaced(v, index, x)) = Put1(Elements(v), index + 1, x)
<1> DEFINE e == V!PushedBack(v, DefaultValue)
           n == V!Capacity(e)
           u == V!ShiftedUp(e, index)
           t == V!Emplaced(v, index, x)
           k == v.size + 1
           c == Put1(Elements(v), index + 1, x)
<1>1. /\ IsVector(e) /\ e.size = k
      /\ \A i \in 0 .. v.size - 1 : e.cells[i] = v.cells[i]
  BY VectorPushedBack, ArraysAssumption
<1>2. /\ Elements(v) \in Seq(Value) /\ Len(Elements(v)) = v.size /\ v.size \in Nat
      /\ \A i \in 1 .. v.size : Elements(v)[i] = v.cells[i - 1]
      /\ \A i \in 0 .. v.size - 1 : v.cells[i] \in Value
  BY VectorElements DEF IsVector
<1> HIDE DEF e
<1>3. /\ index \in 0 .. e.size - 1 /\ n \in Nat /\ Shaped(e, n) /\ k \in Nat
      /\ index \in Nat /\ e.size \in 0 .. n
  BY <1>1, <1>2 DEF IsVector, Shaped
<1> HIDE DEF n
<1>4. /\ Shaped(u, n) /\ u.size = k
      /\ \A i \in 0 .. k - 1 : i # index =>
           u.cells[i] = IF i < index THEN e.cells[i] ELSE e.cells[i - 1]
  BY <1>1, <1>3, VectorShiftedUp
<1>5. t = [u EXCEPT !.cells[index] = x]
  BY DEF V!Emplaced, e
<1> HIDE DEF u, t, k
<1>6. /\ DOMAIN t = {"cells", "size"} /\ t.size = k
      /\ t.cells = [u.cells EXCEPT ![index] = x]
  BY <1>4, <1>5 DEF Shaped
<1>7. index \in 0 .. n - 1 /\ k \in 0 .. n /\ k - 1 = v.size
  BY <1>1, <1>2, <1>3 DEF k
<1>8. /\ t.cells \in [0 .. n - 1 -> Cell]
      /\ \A i \in 0 .. n - 1 : t.cells[i] = IF i = index THEN x ELSE u.cells[i]
  BY <1>4, <1>6, <1>7 DEF Shaped, Cell
<1>9. Shaped(t, n)
  BY <1>6, <1>7, <1>8 DEF Shaped
<1>10. /\ c = [i \in 1 .. k |-> c[i]]
       /\ \A i \in 1 .. k : c[i] = IF i < index + 1 THEN Elements(v)[i]
                                   ELSE IF i = index + 1 THEN x ELSE Elements(v)[i - 1]
  <2>1. Len(Elements(v)) + 1 = k
    BY <1>2 DEF k
  <2> QED BY <2>1 DEF Put1
<1> HIDE DEF c
<1>11. ASSUME NEW i \in 1 .. k
       PROVE  t.cells[i - 1] = c[i] /\ c[i] \in Value
  <2>1. i - 1 \in 0 .. k - 1 /\ i - 1 \in 0 .. n - 1
    BY <1>3, <1>7
  <2>2. CASE i = index + 1
    <3>1. i - 1 = index
      BY <1>3, <2>2
    <3> QED BY <1>8, <1>10, <2>1, <2>2, <3>1
  <2>3. CASE i < index + 1
    <3>1. /\ i - 1 < index /\ i - 1 # index /\ i \in 1 .. v.size
          /\ i - 1 \in 0 .. v.size - 1
      BY <1>3, <1>2, <2>3
    <3>2. t.cells[i - 1] = e.cells[i - 1]
      BY <1>4, <1>8, <2>1, <3>1
    <3> QED BY <1>1, <1>2, <1>10, <2>3, <3>1, <3>2
  <2>4. CASE i > index + 1
    <3> DEFINE j == i - 1
    <3>1. /\ j > index /\ ~ (j < index) /\ j # index /\ j \in 1 .. v.size
          /\ j - 1 \in 0 .. v.size - 1
          /\ ~ (i < index + 1) /\ i # index + 1
      BY <1>3, <1>7, <2>4
    <3> HIDE DEF j
    <3>2. t.cells[j] = e.cells[j - 1]
      BY <1>4, <1>8, <2>1, <3>1 DEF j
    <3>3. e.cells[j - 1] = v.cells[j - 1] /\ v.cells[j - 1] \in Value
      BY <1>1, <1>2, <3>1
    <3>4. c[i] = Elements(v)[j]
      BY <1>10, <3>1 DEF j
    <3> QED BY <1>2, <3>1, <3>2, <3>3, <3>4 DEF j
  <2> QED BY <1>3, <2>2, <2>3, <2>4
<1>12. Elements(t) = c
  BY <1>6, <1>10, <1>11 DEF Elements
<1>13. ASSUME NEW i \in 0 .. t.size - 1 PROVE t.cells[i] \in Value
  <2>1. i + 1 \in 1 .. k /\ (i + 1) - 1 = i
    BY <1>3, <1>6
  <2> QED BY <1>11, <2>1
<1>14. IsVector(t)
  BY <1>3, <1>9, <1>13, VectorIs
<1> QED BY <1>12, <1>14 DEF t, c

\* erase
LEMMA VectorErased ==
  ASSUME NEW v, IsVector(v), NEW index \in 0 .. v.size - 1
  PROVE  /\ IsVector(V!Erased(v, index))
         /\ Elements(V!Erased(v, index)) = Cut1(Elements(v), index + 1)
<1> DEFINE n == V!Capacity(v)
           u == V!ShiftedDown(v, index)
           t == V!Erased(v, index)
           k == v.size - 1
           c == Cut1(Elements(v), index + 1)
<1>1. /\ Elements(v) \in Seq(Value) /\ Len(Elements(v)) = v.size /\ v.size \in Nat
      /\ \A i \in 1 .. v.size : Elements(v)[i] = v.cells[i - 1]
      /\ \A i \in 0 .. v.size - 1 : v.cells[i] \in Value
  BY VectorElements DEF IsVector
<1>2. /\ n \in Nat /\ Shaped(v, n) /\ k \in Nat /\ index \in 0 .. k
      /\ v.size - 2 = k - 1 /\ v.size > 0
  BY <1>1 DEF IsVector
<1> HIDE DEF n
<1>3. /\ Shaped(u, n) /\ u.size = v.size
      /\ \A i \in 0 .. k - 1 :
           u.cells[i] = IF i < index THEN v.cells[i] ELSE v.cells[i + 1]
  <2>1. /\ Shaped(u, n) /\ u.size = v.size
        /\ \A i \in 0 .. v.size - 2 :
             u.cells[i] = IF i < index THEN v.cells[i] ELSE v.cells[i + 1]
    <3>1. index \in 0 .. v.size - 1
      OBVIOUS
    <3> HIDE DEF k
    <3> QED BY <1>2, <3>1, VectorShiftedDown
  <2> QED BY <2>1, <1>2
<1>4. t = V!PoppedBack(u)
  BY DEF V!Erased
<1> HIDE DEF u, t
<1>5. \A i \in 0 .. k - 1 : i \in 0 .. v.size - 1 /\ i + 1 \in 0 .. v.size - 1
  BY <1>1, <1>2, SMTT(30)
<1>6. \A i \in 0 .. k - 1 : u.cells[i] \in Value
  BY <1>1, <1>3, <1>5
<1>7. /\ IsVector(t) /\ t.size = k
      /\ \A i \in 0 .. k - 1 : t.cells[i] = u.cells[i]
  BY <1>2, <1>3, <1>4, <1>6, VectorPoppedBack
<1> HIDE DEF k
<1>8. /\ c = [i \in 1 .. k |-> c[i]]
      /\ \A i \in 1 .. k :
           c[i] = IF i < index + 1 THEN Elements(v)[i] ELSE Elements(v)[i + 1]
  <2>1. Len(Elements(v)) - 1 = k
    BY <1>1 DEF k
  <2> QED BY <2>1 DEF Cut1
<1> HIDE DEF c
<1>9. ASSUME NEW i \in 1 .. k
      PROVE  t.cells[i - 1] = c[i]
  <2>1. /\ i - 1 \in 0 .. k - 1 /\ i \in 1 .. v.size /\ i + 1 \in 1 .. v.size
        /\ (i - 1) + 1 = i /\ (i + 1) - 1 = i
        /\ i - 1 < index <=> i < index + 1
    BY <1>1, <1>2 DEF k
  <2>2. t.cells[i - 1] = IF i - 1 < index THEN v.cells[i - 1] ELSE v.cells[i]
    BY <1>3, <1>7, <2>1
  <2>3. Elements(v)[i] = v.cells[i - 1] /\ Elements(v)[i + 1] = v.cells[i]
    BY <1>1, <2>1
  <2> QED BY <1>8, <2>1, <2>2, <2>3
<1>10. Elements(t) = c
  BY <1>7, <1>8, <1>9 DEF Elements
<1> QED BY <1>7, <1>10 DEF t, c

\* t is a vector of k elements, those of v but for the cells that became cell
Filling(t, v, a, b, cell, k) ==
  /\ IsVector(t) /\ t.size = k
  /\ \A i \in 0 .. k - 1 : t.cells[i] = IF i \in a .. b - 1 THEN cell ELSE v.cells[i]

\* Filling some cells, and a new size
LEMMA VectorFilled ==
  ASSUME NEW v, NEW n \in Nat, Shaped(v, n), NEW a \in Nat, NEW b \in Nat,
         NEW cell \in Cell,
         NEW k \in 0 .. n,
         \A i \in 0 .. k - 1 : i \notin a .. b - 1 => v.cells[i] \in Value,
         \A i \in 0 .. k - 1 : i \in a .. b - 1 => cell \in Value
  PROVE  Filling([V!Filled(v, a, b, cell) EXCEPT !.size = k], v, a, b, cell, k)
<1> DEFINE t == [V!Filled(v, a, b, cell) EXCEPT !.size = k]
<1>1. /\ DOMAIN t = {"cells", "size"} /\ t.size = k
      /\ t.cells = [i \in 0 .. n - 1 |-> IF i \in a .. b - 1 THEN cell ELSE v.cells[i]]
  BY DEF V!Filled, Shaped
<1> HIDE DEF t
<1>2. t.cells \in [0 .. n - 1 -> Cell]
  BY <1>1 DEF Shaped
<1>3. \A i \in 0 .. k - 1 : t.cells[i] = IF i \in a .. b - 1 THEN cell ELSE v.cells[i]
  BY <1>1
<1>4. \A i \in 0 .. t.size - 1 : t.cells[i] \in Value
  BY <1>1, <1>3
<1>5. IsVector(t)
  BY <1>1, <1>2, <1>4, VectorIs DEF Shaped
<1> QED BY <1>1, <1>3, <1>5 DEF t, Filling

\* resize
LEMMA VectorResized ==
  ASSUME NEW v, IsVector(v), NEW n \in Nat, NEW x \in Value
  PROVE  /\ IsVector(V!Resized(v, n, x)) /\ V!Resized(v, n, x).size = n
         /\ \A i \in 0 .. n - 1 :
              V!Resized(v, n, x).cells[i] = IF i < v.size THEN v.cells[i] ELSE x
<1> DEFINE m == V!Capacity(v)
           t == V!Resized(v, n, x)
<1>1. /\ m \in Nat /\ Shaped(v, m) /\ v.size \in 0 .. m /\ v.size \in Nat
      /\ \A i \in 0 .. v.size - 1 : v.cells[i] \in Value
      /\ Raw \in Cell /\ x \in Cell
  BY DEF IsVector, Shaped, Cell
<1>2. CASE n < v.size
  <2>1. t = [V!Filled(v, n, v.size, Raw) EXCEPT !.size = n]
    BY <1>2 DEF V!Resized
  <2> HIDE DEF t, m
  <2>2. /\ n \in 0 .. m
        /\ \A i \in 0 .. n - 1 :
             i \notin n .. v.size - 1 /\ i \in 0 .. v.size - 1 /\ i < v.size
    BY <1>1, <1>2
  <2> DEFINE u == [V!Filled(v, n, v.size, Raw) EXCEPT !.size = n]
  <2>3. /\ IsVector(u) /\ u.size = n
        /\ \A i \in 0 .. n - 1 :
             u.cells[i] = IF i \in n .. v.size - 1 THEN Raw ELSE v.cells[i]
    <3>1. Filling(u, v, n, v.size, Raw, n)
      <4>1. n \in Nat /\ v.size \in Nat /\ m \in Nat
        BY <1>1
      <4> QED BY <1>1, <2>2, <4>1, VectorFilled
    <3> HIDE DEF u
    <3> QED BY <3>1 DEF Filling
  <2> HIDE DEF u
  <2> QED BY <2>1, <2>2, <2>3 DEF t, u
<1>3. CASE ~ (n < v.size)
  <2> DEFINE room == IF n > m THEN V!Reserved(v, n) ELSE v
             c == V!Capacity(room)
             u == [V!Filled(room, v.size, n, x) EXCEPT !.size = n]
  <2>1. t = u
    BY <1>3 DEF V!Resized
  <2> HIDE DEF t, m
  <2>2. /\ IsVector(room) /\ n <= c
        /\ \A i \in 0 .. v.size - 1 : room.cells[i] = v.cells[i]
    <3>1. CASE n > m
      <4>1. room = V!Reserved(v, n)
        BY <3>1
      <4> HIDE DEF room
      <4>2. Min({v.size, n}) = v.size
        BY <1>1, <1>3, MinOfTwo
      <4>3. /\ IsVector(V!Reserved(v, n)) /\ V!Capacity(V!Reserved(v, n)) = n
            /\ \A i \in 0 .. v.size - 1 : V!Reserved(v, n).cells[i] = v.cells[i]
        BY <4>2, VectorReserved
      <4> QED BY <4>1, <4>3
    <3>2. CASE ~ (n > m)
      <4>1. room = v
        BY <3>2
      <4> QED BY <1>1, <3>2, <4>1 DEF m
    <3> QED BY <3>1, <3>2
  <2> HIDE DEF room
  <2>3. c \in Nat /\ Shaped(room, c)
    BY <2>2 DEF IsVector
  <2> HIDE DEF c
  <2>4. /\ n \in 0 .. c
        /\ \A i \in 0 .. n - 1 : i \notin v.size .. n - 1 <=> i \in 0 .. v.size - 1
        /\ \A i \in 0 .. n - 1 : i \in v.size .. n - 1 <=> ~ (i < v.size)
    BY <1>1, <1>3, <2>2, <2>3
  <2>5. \A i \in 0 .. n - 1 : i \notin v.size .. n - 1 => room.cells[i] = v.cells[i] /\ room.cells[i] \in Value
    BY <1>1, <2>2, <2>4
  <2>6. /\ IsVector(u) /\ u.size = n
        /\ \A i \in 0 .. n - 1 :
             u.cells[i] = IF i \in v.size .. n - 1 THEN x ELSE room.cells[i]
    <3>1. Filling(u, room, v.size, n, x, n)
      BY <1>1, <2>3, <2>4, <2>5, VectorFilled
    <3> HIDE DEF u
    <3> QED BY <3>1 DEF Filling
  <2> HIDE DEF u
  <2> QED BY <2>1, <2>4, <2>5, <2>6 DEF t
<1> QED BY <1>2, <1>3

-----------------------------------------------------------------------------
(* The operations of vector are those of a sequence.                       *)

\* Every vector is one of the program
VectorInv ==
  /\ vector = [q \in Object |-> vector[q]]
  /\ \A q \in Object : IsVector(vector[q])

\* What an iterator over a vector visits is what its cells hold
LEMMA VectorContent ==
  ASSUME VectorInv, NEW q \in Object
  PROVE  V!Content(q) = Elements(vector[q])
BY DEF V!Content, Elements

\* When one vector changes to t, the vectors stay in order and the one becomes
\* the sequence t holds
LEMMA VectorBecomes ==
  ASSUME VectorInv, NEW q \in Object, NEW STATE t, IsVector(t), NEW STATE c,
         Elements(t) = c,
         vector' = [vector EXCEPT ![q] = t]
  PROVE  VectorInv' /\ V!Abstract!Become(q, c)
<1>1. VectorInv'
  BY DEF VectorInv
<1>2. \A p \in Object : vector'[p] = IF p = q THEN t ELSE vector[p]
  BY DEF VectorInv
<1>3. \A p \in Object :
        V!Content(p) = Elements(vector[p]) /\ V!Content(p)' = Elements(vector'[p])
  BY DEF V!Content, Elements
<1>4. \A p \in Object : V!Content(p)' = IF p = q THEN c ELSE V!Content(p)
  BY <1>2, <1>3
<1> QED BY <1>1, <1>4 DEF V!Abstract!Become

\* emplace_back, growing or not, inserts the element behind the others
LEMMA VectorEmplaceBackImplements ==
  ASSUME VectorInv, NEW q \in Object, NEW x \in Value, V!EmplaceBack(q, x)
  PROVE  VectorInv' /\ V!Abstract!Insert(q, vector[q].size + 1, x)
<1> DEFINE v == vector[q]
           t == V!PushedBack(v, x)
           k == v.size + 1
           c == InsertAt(Elements(v), k, x)
<1>1. vector' = [vector EXCEPT ![q] = t]
  BY DEF V!EmplaceBack
<1>2. IsVector(v)
  BY DEF VectorInv
<1> HIDE DEF v
<1>3. /\ IsVector(t) /\ t.size = k
      /\ \A i \in 0 .. v.size - 1 : t.cells[i] = v.cells[i]
      /\ t.cells[v.size] = x
  BY <1>2, VectorPushedBack
<1>4. /\ Elements(v) \in Seq(Value) /\ Len(Elements(v)) = v.size /\ v.size \in Nat
      /\ \A i \in 1 .. v.size : Elements(v)[i] = v.cells[i - 1]
  BY <1>2, VectorElements
<1>5. c = Put1(Elements(v), k, x)
  <2>1. k \in 1 .. Len(Elements(v)) + 1
    BY <1>4
  <2> QED BY <2>1, <1>4, InsertingAt
<1> HIDE DEF t
<1>6. ASSUME NEW i \in 1 .. k
      PROVE  t.cells[i - 1] = IF i < k THEN Elements(v)[i] ELSE IF i = k THEN x
               ELSE Elements(v)[i - 1]
  <2>1. CASE i = k
    BY <2>1, <1>3, <1>4
  <2>2. CASE i # k
    <3>1. i \in 1 .. v.size /\ i - 1 \in 0 .. v.size - 1 /\ i < k
      BY <1>4, <2>2
    <3> QED BY <1>3, <1>4, <3>1
  <2> QED BY <2>1, <2>2
<1>7. Elements(t) = c
  <2>1. Len(Elements(v)) + 1 = k
    BY <1>4
  <2> HIDE DEF c, k
  <2> QED BY <1>3, <1>5, <1>6, <2>1, ZenonT(60) DEF Elements, Put1
<1> HIDE DEF c
<1>8. VectorInv' /\ V!Abstract!Become(q, c)
  BY <1>1, <1>3, <1>7, VectorBecomes
<1> QED BY <1>8, VectorContent DEF V!Abstract!Insert, InsertAt, c, v

\* pop_back erases the last element
LEMMA VectorPopBackImplements ==
  ASSUME VectorInv, NEW q \in Object, V!PopBack(q)
  PROVE  VectorInv' /\ V!Abstract!Erase(q, vector[q].size)
<1> DEFINE v == vector[q]
           t == V!PoppedBack(v)
           k == v.size - 1
           n == V!Capacity(v)
           c == RemoveAt(Elements(v), v.size)
<1>1. vector' = [vector EXCEPT ![q] = t] /\ v.size > 0
  BY DEF V!PopBack
<1>2. IsVector(v)
  BY DEF VectorInv
<1> HIDE DEF v
<1>3. /\ Elements(v) \in Seq(Value) /\ Len(Elements(v)) = v.size /\ v.size \in Nat
      /\ \A i \in 1 .. v.size : Elements(v)[i] = v.cells[i - 1]
      /\ n \in Nat /\ Shaped(v, n) /\ \A i \in 0 .. v.size - 1 : v.cells[i] \in Value
  BY <1>2, VectorElements DEF IsVector
<1>4. \A i \in 0 .. v.size - 2 : i \in 0 .. v.size - 1
  BY <1>3
<1> HIDE DEF n
<1>5. /\ IsVector(t) /\ t.size = v.size - 1
      /\ \A i \in 0 .. v.size - 2 : t.cells[i] = v.cells[i]
  <2> HIDE DEF k, c
  <2> QED BY <1>1, <1>3, <1>4, VectorPoppedBack
<1>6. c = Cut1(Elements(v), v.size)
  BY <1>1, <1>3, RemovingAt
<1> HIDE DEF t
<1>7. \A i \in 1 .. k : t.cells[i - 1] = Elements(v)[i] /\ i < v.size
  <2>1. \A i \in 1 .. k : i \in 1 .. v.size /\ i - 1 \in 0 .. v.size - 2 /\ i < v.size
    BY <1>3
  <2> QED BY <1>3, <1>5, <2>1
<1>8. Elements(t) = c
  <2>1. Len(Elements(v)) - 1 = k
    BY <1>3
  <2> HIDE DEF c
  <2> QED BY <1>5, <1>6, <1>7, <2>1 DEF Elements, Cut1
<1> HIDE DEF c
<1>9. VectorInv' /\ V!Abstract!Become(q, c)
  BY <1>1, <1>5, <1>8, VectorBecomes
<1> QED BY <1>9, VectorContent DEF V!Abstract!Erase, RemoveAt, c, v

\* emplace shifts the elements behind index and inserts the new one there
LEMMA VectorEmplaceImplements ==
  ASSUME VectorInv, NEW q \in Object, NEW x \in Value,
         NEW index \in 0 .. vector[q].size,
         V!Emplace(q, index, x)
  PROVE  VectorInv' /\ V!Abstract!Insert(q, index + 1, x)
<1> DEFINE v == vector[q]
           t == V!Emplaced(v, index, x)
           c == InsertAt(Elements(v), index + 1, x)
<1>1. vector' = [vector EXCEPT ![q] = t]
  BY DEF V!Emplace
<1>2. IsVector(v) /\ index \in 0 .. v.size
  BY DEF VectorInv
<1> HIDE DEF v
<1>3. IsVector(t) /\ Elements(t) = Put1(Elements(v), index + 1, x)
  BY <1>2, VectorEmplaced
<1>4. Elements(v) \in Seq(Value) /\ Len(Elements(v)) = v.size /\ v.size \in Nat
  BY <1>2, VectorElements
<1>5. c = Put1(Elements(v), index + 1, x)
  <2>1. index + 1 \in 1 .. Len(Elements(v)) + 1
    BY <1>2, <1>4
  <2> QED BY <2>1, <1>4, InsertingAt
<1> HIDE DEF t, c
<1>6. VectorInv' /\ V!Abstract!Become(q, c)
  BY <1>1, <1>3, <1>5, VectorBecomes
<1> QED BY <1>6, VectorContent DEF V!Abstract!Insert, InsertAt, c, v

\* erase shifts the elements behind index over it
LEMMA VectorEraseImplements ==
  ASSUME VectorInv, NEW q \in Object, NEW index \in 0 .. vector[q].size - 1,
         V!Erase(q, index)
  PROVE  VectorInv' /\ V!Abstract!Erase(q, index + 1)
<1> DEFINE v == vector[q]
           t == V!Erased(v, index)
           c == RemoveAt(Elements(v), index + 1)
<1>1. vector' = [vector EXCEPT ![q] = t]
  BY DEF V!Erase
<1>2. IsVector(v) /\ index \in 0 .. v.size - 1
  BY DEF VectorInv
<1> HIDE DEF v
<1>3. IsVector(t) /\ Elements(t) = Cut1(Elements(v), index + 1)
  BY <1>2, VectorErased
<1>4. Elements(v) \in Seq(Value) /\ Len(Elements(v)) = v.size /\ v.size \in Nat
  BY <1>2, VectorElements
<1>5. c = Cut1(Elements(v), index + 1)
  <2>1. index + 1 \in 1 .. Len(Elements(v))
    BY <1>2, <1>4
  <2> QED BY <2>1, <1>4, RemovingAt
<1> HIDE DEF t, c
<1>6. VectorInv' /\ V!Abstract!Become(q, c)
  BY <1>1, <1>3, <1>5, VectorBecomes
<1> QED BY <1>6, VectorContent DEF V!Abstract!Erase, RemoveAt, c, v

\* The cells of the k elements hold the first n elements of s, then those of part
HoldsBoth(t, k, s, n, part) ==
  \A i \in 0 .. k - 1 : t.cells[i] = IF i < n THEN s[i + 1] ELSE part[i - n + 1]

\* A vector that holds n elements of s and those of part holds their
\* concatenation
LEMMA VectorHolds ==
  ASSUME NEW t, NEW k \in Nat, t.size = k, NEW s \in Seq(Value),
         NEW part \in Seq(Value),
         NEW n \in 0 .. Len(s), n + Len(part) = k, HoldsBoth(t, k, s, n, part)
  PROVE  Elements(t) = SubSeq(s, 1, n) \o part
<1>1. ASSUME NEW i \in 1 .. k
      PROVE  t.cells[i - 1] = IF i <= n THEN s[i] ELSE part[i - n]
  <2>1. /\ i - 1 \in 0 .. k - 1 /\ (i - 1) + 1 = i /\ (i - 1) - n + 1 = i - n
        /\ i - 1 < n <=> i <= n
    OBVIOUS
  <2> QED BY <2>1 DEF HoldsBoth
<1>2. Elements(t) = Joined(s, n, part)
  BY <1>1 DEF Elements, Joined
<1> QED BY <1>2, Joining

\* reserve, which allocates anew for exactly n, keeps what fits
LEMMA VectorReserveImplements ==
  ASSUME VectorInv, NEW q \in Object, NEW n \in Nat, V!Reserve(q, n)
  PROVE  VectorInv' /\ V!Abstract!Resize(q, V!Min({n, vector[q].size}), << >>)
<1> DEFINE v == vector[q]
           k == Min({v.size, n})
           t == V!Reserved(v, n)
           c == SubSeq(Elements(v), 1, k) \o << >>
<1>1. vector' = [vector EXCEPT ![q] = t]
  BY DEF V!Reserve
<1>2. IsVector(v)
  BY DEF VectorInv
<1> HIDE DEF v
<1>3. /\ Elements(v) \in Seq(Value) /\ Len(Elements(v)) = v.size /\ v.size \in Nat
      /\ \A i \in 1 .. v.size : Elements(v)[i] = v.cells[i - 1]
  BY <1>2, VectorElements
<1>4. k \in 0 .. v.size /\ k \in Nat
  BY <1>3, MinOfTwo
<1>5. /\ IsVector(t) /\ t.size = k
      /\ \A i \in 0 .. k - 1 : t.cells[i] = v.cells[i]
  BY <1>2, VectorReserved
<1>6. V!Min({n, v.size}) = k
  <2>1. {n, v.size} = {v.size, n}
    OBVIOUS
  <2> QED BY <2>1 DEF V!Min, Min
<1> HIDE DEF k, t
<1>7. \A i \in 0 .. k - 1 : i < k /\ t.cells[i] = Elements(v)[i + 1]
  <2>1. \A i \in 0 .. k - 1 : i < k /\ i + 1 \in 1 .. v.size /\ (i + 1) - 1 = i
    BY <1>3, <1>4
  <2> QED BY <1>3, <1>5, <2>1
<1>8. Elements(t) = c
  <2>1. /\ << >> \in Seq(Value) /\ Len(<< >>) = 0 /\ k + 0 = k
        /\ k \in 0 .. Len(Elements(v))
    BY <1>3, <1>4
  <2>2. HoldsBoth(t, k, Elements(v), k, << >>)
    BY <1>7 DEF HoldsBoth
  <2> QED BY <1>3, <1>4, <1>5, <2>1, <2>2, VectorHolds
<1> HIDE DEF c
<1>9. VectorInv' /\ V!Abstract!Become(q, c)
  BY <1>1, <1>5, <1>8, VectorBecomes
<1> QED BY <1>6, <1>9, VectorContent DEF V!Abstract!Resize, c, v

\* resize cuts the elements off behind n, or fills up with copies of x
LEMMA VectorResizeImplements ==
  ASSUME VectorInv, NEW q \in Object, NEW n \in Nat, NEW x \in Value, V!Resize(q, n, x)
  PROVE  /\ VectorInv'
         /\ V!Abstract!Resize(q, V!Min({n, vector[q].size}),
                              [i \in 1 .. n - vector[q].size |-> x])
<1> DEFINE v == vector[q]
           k == Min({v.size, n})
           m == n - v.size
           part == [i \in 1 .. m |-> x]
           t == V!Resized(v, n, x)
           c == SubSeq(Elements(v), 1, k) \o part
<1>1. vector' = [vector EXCEPT ![q] = t]
  BY DEF V!Resize
<1>2. IsVector(v)
  BY DEF VectorInv
<1> HIDE DEF v
<1>3. /\ Elements(v) \in Seq(Value) /\ Len(Elements(v)) = v.size /\ v.size \in Nat
      /\ \A i \in 1 .. v.size : Elements(v)[i] = v.cells[i - 1]
  BY <1>2, VectorElements
<1>4. k = (IF v.size <= n THEN v.size ELSE n) /\ k \in 0 .. v.size
  BY <1>3, MinOfTwo
<1>5. /\ IsVector(t) /\ t.size = n
      /\ \A i \in 0 .. n - 1 : t.cells[i] = IF i < v.size THEN v.cells[i] ELSE x
  BY <1>2, VectorResized
<1>6. V!Min({n, v.size}) = k
  <2>1. {n, v.size} = {v.size, n}
    OBVIOUS
  <2> QED BY <2>1 DEF V!Min, Min
<1> HIDE DEF k, t
<1>7. part \in Seq(Value) /\ k + Len(part) = n
  <2>1. CASE v.size <= n
    <3>1. m \in Nat /\ k + m = n
      BY <1>3, <1>4, <2>1
    <3> HIDE DEF m
    <3>2. part \in [1 .. m -> Value]
      OBVIOUS
    <3> QED BY <3>1, <3>2
  <2>2. CASE ~ (v.size <= n)
    <3>1. 1 .. m = {}
      BY <1>3, <2>2
    <3> HIDE DEF m
    <3>2. part = << >>
      BY <3>1
    <3> HIDE DEF part
    <3>3. part \in Seq(Value) /\ Len(part) = 0
      BY <3>2
    <3>4. k = n /\ k + 0 = n
      BY <1>4, <2>2
    <3> QED BY <3>3, <3>4
  <2> QED BY <2>1, <2>2
<1>8. ASSUME NEW i \in 0 .. n - 1
      PROVE  t.cells[i] = IF i < k THEN Elements(v)[i + 1] ELSE part[i - k + 1]
  <2>1. CASE i < k
    <3>1. i < v.size /\ i + 1 \in 1 .. v.size /\ (i + 1) - 1 = i
      BY <1>3, <1>4, <2>1
    <3> QED BY <1>3, <1>5, <2>1, <3>1
  <2>2. CASE ~ (i < k)
    <3>1. ~ (i < v.size) /\ i - k + 1 \in 1 .. m
      BY <1>3, <1>4, <2>2
    <3> HIDE DEF m
    <3> QED BY <1>5, <2>2, <3>1
  <2> QED BY <2>1, <2>2
<1> HIDE DEF part
<1>9. Elements(t) = c
  <2>1. k \in 0 .. Len(Elements(v))
    BY <1>3, <1>4
  <2>2. HoldsBoth(t, n, Elements(v), k, part)
    BY <1>8 DEF HoldsBoth
  <2> QED BY <1>3, <1>5, <1>7, <2>1, <2>2, VectorHolds
<1> HIDE DEF c
<1>10. VectorInv' /\ V!Abstract!Become(q, c)
  BY <1>1, <1>5, <1>9, VectorBecomes
<1>11. V!Abstract!Resize(q, k, part)
  BY <1>10, VectorContent DEF V!Abstract!Resize, c, v
<1> QED BY <1>6, <1>10, <1>11 DEF part, v

\* The private helper that allocates anew for n copies of x leaves these
LEMMA VectorReallocImplements ==
  ASSUME VectorInv, NEW q \in Object, NEW n \in Nat, NEW x \in Value, V!Realloc(q, n, x)
  PROVE  VectorInv' /\ V!Abstract!Become(q, [i \in 1 .. n |-> x])
<1> DEFINE t == [cells |-> [i \in 0 .. n - 1 |-> x], size |-> n]
           c == [i \in 1 .. n |-> x]
<1>1. vector' = [vector EXCEPT ![q] = t]
  BY DEF V!Realloc
<1>2. Shaped(t, n) /\ \A i \in 0 .. t.size - 1 : t.cells[i] \in Value
  BY DEF Shaped, Cell
<1>3. IsVector(t)
  <2> HIDE DEF t
  <2> QED BY <1>2, VectorIs
<1>4. Elements(t) = c
  BY DEF Elements
<1> HIDE DEF t, c
<1>5. VectorInv' /\ V!Abstract!Become(q, c)
  BY <1>1, <1>3, <1>4, VectorBecomes
<1> QED BY <1>5 DEF c

\* A vector without elements is one of the program
LEMMA VectorEmpty ==
  ASSUME NEW n \in Nat
  PROVE  IsVector(V!Empty(n)) /\ Elements(V!Empty(n)) = << >>
<1> DEFINE t == V!Empty(n)
<1>1. DOMAIN t = {"cells", "size"} /\ t.size = 0 /\ t.cells = [i \in 0 .. n - 1 |-> Raw]
  BY DEF V!Empty
<1> HIDE DEF t
<1>2. Shaped(t, n)
  BY <1>1 DEF Shaped, Cell
<1>3. \A i \in 0 .. t.size - 1 : t.cells[i] \in Value
  BY <1>1
<1>4. Elements(t) = << >>
  BY <1>1 DEF Elements
<1> QED BY <1>2, <1>3, <1>4, VectorIs DEF t

\* clear leaves no element
LEMMA VectorClearImplements ==
  ASSUME VectorInv, NEW q \in Object, V!Clear(q)
  PROVE  VectorInv' /\ V!Abstract!Become(q, << >>)
<1> DEFINE v == vector[q]
           n == V!Capacity(v)
           t == [V!Filled(v, 0, v.size, Raw) EXCEPT !.size = 0]
<1>1. vector' = [vector EXCEPT ![q] = t]
  BY DEF V!Clear
<1>2. IsVector(v)
  BY DEF VectorInv
<1> HIDE DEF v
<1>3. n \in Nat /\ Shaped(v, n) /\ v.size \in Nat /\ 0 \in 0 .. n /\ Raw \in Cell
  BY <1>2 DEF IsVector, Shaped, Cell
<1> HIDE DEF n
<1>4. Filling(t, v, 0, v.size, Raw, 0)
  <2>1. \A i \in 0 .. 0 - 1 : FALSE
    OBVIOUS
  <2> QED BY <1>3, <2>1, VectorFilled
<1> HIDE DEF t
<1>5. IsVector(t) /\ Elements(t) = << >>
  BY <1>4 DEF Filling, Elements
<1> QED BY <1>1, <1>5, VectorBecomes

\* A copy holds what the original holds
LEMMA VectorCopyImplements ==
  ASSUME VectorInv, NEW q \in Object, NEW o \in Object, V!CopyAssign(q, o)
  PROVE  VectorInv' /\ V!Abstract!Become(q, V!Content(o))
<1> DEFINE t == vector[o]
           c == Elements(t)
<1>1. vector' = [vector EXCEPT ![q] = t]
  BY DEF V!CopyAssign
<1>2. IsVector(t)
  BY DEF VectorInv
<1> HIDE DEF t
<1>3. VectorInv' /\ V!Abstract!Become(q, c)
  BY <1>1, <1>2, VectorBecomes
<1> QED BY <1>3, VectorContent DEF t

\* A move hands the elements over and leaves none
LEMMA VectorMoveImplements ==
  ASSUME VectorInv, NEW q \in Object, NEW o \in Object, V!MoveAssign(q, o)
  PROVE  VectorInv' /\ V!Abstract!Move(q, o)
<1> DEFINE e == V!Empty(0)
<1>1. IsVector(e) /\ Elements(e) = << >>
  BY VectorEmpty
<1>2. q # o /\ vector' = [vector EXCEPT ![q] = vector[o], ![o] = e]
  BY DEF V!MoveAssign
<1> HIDE DEF e
<1>3. \A p \in Object :
        vector'[p] = IF p = o THEN e ELSE IF p = q THEN vector[o] ELSE vector[p]
  BY <1>2 DEF VectorInv
<1>4. VectorInv'
  <2>1. \A p \in Object : IsVector(vector'[p])
    BY <1>1, <1>3 DEF VectorInv
  <2>2. vector' = [p \in Object |-> vector'[p]]
    BY <1>2 DEF VectorInv
  <2> QED BY <2>1, <2>2 DEF VectorInv
<1>5. \A p \in Object :
        V!Content(p) = Elements(vector[p]) /\ V!Content(p)' = Elements(vector'[p])
  BY DEF V!Content, Elements
<1>6. \A p \in Object :
        V!Content(p)' = IF p = o THEN << >> ELSE IF p = q THEN V!Content(o)
          ELSE V!Content(p)
  BY <1>1, <1>3, <1>5
<1> QED BY <1>2, <1>4, <1>6 DEF V!Abstract!Move

-----------------------------------------------------------------------------

\* In the beginning the vectors are in order and empty
LEMMA VectorsStart ==
  ASSUME V!Init
  PROVE  VectorInv /\ V!Abstract!Init
<1>1. IsVector(V!Empty(VectorCells)) /\ Elements(V!Empty(VectorCells)) = << >>
  BY VectorEmpty, ArraysAssumption
<1>2. \A q \in Object : vector[q] = V!Empty(VectorCells)
  BY DEF V!Init
<1>3. VectorInv
  BY <1>1, <1>2 DEF VectorInv, V!Init
<1>4. \A q \in Object : V!Content(q) = << >>
  BY <1>1, <1>2, <1>3, VectorContent
<1> QED BY <1>3, <1>4 DEF V!Abstract!Init

\* Every operation of vector keeps the vectors in order
LEMMA VectorsStep ==
  ASSUME VectorInv, V!Next
  PROVE  VectorInv'
<1>1. VectorMax \in Nat /\ VectorRequest \in Nat
  BY ArraysAssumption
<1>2. ASSUME NEW q \in Object, NEW x \in Value, V!EmplaceBack(q, x)
      PROVE  VectorInv'
  BY <1>2, VectorEmplaceBackImplements
<1>3. ASSUME NEW q \in Object, NEW x \in Value, NEW index \in 0 .. vector[q].size,
             V!Emplace(q, index, x)
      PROVE  VectorInv'
  BY <1>3, VectorEmplaceImplements
<1>4. ASSUME NEW q \in Object, NEW x \in Value, NEW n \in 0 .. VectorMax,
             V!Resize(q, n, x) \/ V!Realloc(q, n, x)
      PROVE  VectorInv'
  <2>1. n \in Nat
    BY <1>1
  <2> QED BY <1>4, <2>1, VectorResizeImplements, VectorReallocImplements
<1>5. ASSUME NEW q \in Object, V!PopBack(q) \/ V!Clear(q)
      PROVE  VectorInv'
  BY <1>5, VectorPopBackImplements, VectorClearImplements
<1>6. ASSUME NEW q \in Object, NEW index \in 0 .. vector[q].size - 1, V!Erase(q, index)
      PROVE  VectorInv'
  BY <1>6, VectorEraseImplements
<1>7. ASSUME NEW q \in Object, NEW n \in 0 .. VectorRequest, V!Reserve(q, n)
      PROVE  VectorInv'
  <2>1. n \in Nat
    BY <1>1
  <2> QED BY <1>7, <2>1, VectorReserveImplements
<1>8. ASSUME NEW q \in Object, NEW o \in Object,
             V!CopyAssign(q, o) \/ V!MoveAssign(q, o)
      PROVE  VectorInv'
  BY <1>8, VectorCopyImplements, VectorMoveImplements
<1> QED BY <1>2, <1>3, <1>4, <1>5, <1>6, <1>7, <1>8, Zenon DEF V!Next

\* Every operation of vector does to the elements what that of AbstractSequence
\* does
LEMMA VectorsImplement ==
  ASSUME VectorInv
  PROVE  V!Implementing
<1>1. VectorMax \in Nat /\ VectorRequest \in Nat
  BY ArraysAssumption
<1>2. ASSUME NEW q \in Object, NEW x \in Value, V!EmplaceBack(q, x)
      PROVE  V!Abstract!Insert(q, vector[q].size + 1, x)
  BY <1>2, VectorEmplaceBackImplements
<1>3. ASSUME NEW q \in Object, NEW x \in Value, NEW index \in 0 .. vector[q].size,
             V!Emplace(q, index, x)
      PROVE  V!Abstract!Insert(q, index + 1, x)
  BY <1>3, VectorEmplaceImplements
<1>4. ASSUME NEW q \in Object, NEW x \in Value, NEW n \in 0 .. VectorMax
      PROVE  /\ V!Resize(q, n, x) =>
                  V!Abstract!Resize(q, V!Min({n, vector[q].size}),
                                    [i \in 1 .. n - vector[q].size |-> x])
             /\ V!Realloc(q, n, x) => V!Abstract!Become(q, [i \in 1 .. n |-> x])
  <2>1. n \in Nat
    BY <1>1
  <2>2. CASE V!Resize(q, n, x)
    BY <2>1, <2>2, VectorResizeImplements, VectorReallocImplements
  <2>3. CASE V!Realloc(q, n, x)
    BY <2>1, <2>3, VectorResizeImplements, VectorReallocImplements
  <2> QED BY <2>2, <2>3
<1>5. ASSUME NEW q \in Object
      PROVE  /\ V!PopBack(q) => V!Abstract!Erase(q, vector[q].size)
             /\ V!Clear(q) => V!Abstract!Become(q, << >>)
  BY VectorPopBackImplements, VectorClearImplements
<1>6. ASSUME NEW q \in Object, NEW index \in 0 .. vector[q].size - 1, V!Erase(q, index)
      PROVE  V!Abstract!Erase(q, index + 1)
  BY <1>6, VectorEraseImplements
<1>7. ASSUME NEW q \in Object, NEW n \in 0 .. VectorRequest, V!Reserve(q, n)
      PROVE  V!Abstract!Resize(q, V!Min({n, vector[q].size}), << >>)
  <2>1. n \in Nat
    BY <1>1
  <2> QED BY <1>7, <2>1, VectorReserveImplements
<1>8. ASSUME NEW q \in Object, NEW o \in Object
      PROVE  /\ V!CopyAssign(q, o) => V!Abstract!Become(q, V!Content(o))
             /\ V!MoveAssign(q, o) => V!Abstract!Move(q, o)
  BY VectorCopyImplements, VectorMoveImplements
<1> QED BY <1>2, <1>3, <1>4, <1>5, <1>6, <1>7, <1>8, Zenon DEF V!Implementing

\* Vectors in order are of their type
LEMMA VectorsAreTyped ==
  ASSUME VectorInv
  PROVE  V!TypeOK
BY DEF VectorInv, IsVector, Shaped, Cell, V!TypeOK

-----------------------------------------------------------------------------
(* Bitsets.                                                                *)

\* The quotient and the remainder of a division
LEMMA Division ==
  ASSUME NEW a \in Nat, NEW b \in Nat \ {0}
  PROVE  /\ a = b * (a \div b) + (a % b)
         /\ a \div b \in Nat /\ a % b \in 0 .. b - 1
BY SMT

\* ... are the only ones
LEMMA DivisionIsUnique ==
  ASSUME NEW a \in Nat, NEW b \in Nat \ {0}, NEW q \in Nat, NEW r \in 0 .. b - 1,
         a = b * q + r
  PROVE  q = a \div b /\ r = a % b
BY SMT

\* The first place of a block
Base(b) == BitsPerBlock * b

\* Bases are numbers,
LEMMA BaseIs ==
  ASSUME NEW b \in Int
  PROVE  /\ Base(b) \in Int /\ (b \in Nat => Base(b) \in Nat) /\ Base(0) = 0
         /\ Base(b + 1) = Base(b) + BitsPerBlock
         /\ Base(b - 1) = Base(b) - BitsPerBlock
<1>1. BitsPerBlock \in Nat \ {0}
  BY ArraysAssumption
<1>2. b \in Nat => BitsPerBlock * b \in Nat
  BY <1>1, SMT
<1>3. BitsPerBlock * (b + 1) = BitsPerBlock * b + BitsPerBlock
  BY <1>1, SMT
<1>4. BitsPerBlock * (b - 1) = BitsPerBlock * b - BitsPerBlock
  BY <1>1, SMT
<1> QED BY <1>1, <1>2, <1>3, <1>4, SMT DEF Base

\* ... grow with the blocks,
LEMMA BaseGrows ==
  ASSUME NEW b \in Int, NEW c \in Int, b <= c
  PROVE  Base(b) <= Base(c)
<1>1. BitsPerBlock \in Nat \ {0}
  BY ArraysAssumption
<1> QED BY <1>1, SMT DEF Base

\* ... and add up
LEMMA BaseAdds ==
  ASSUME NEW b \in Int, NEW c \in Int
  PROVE  Base(b + c) = Base(b) + Base(c) /\ Base(b - c) = Base(b) - Base(c)
<1>1. BitsPerBlock \in Nat \ {0}
  BY ArraysAssumption
<1> QED BY <1>1, SMT DEF Base

\* A place is one of a block, and of that only
LEMMA PlaceInBlock ==
  ASSUME NEW pos \in Nat
  PROVE  /\ pos \div BitsPerBlock \in Nat /\ pos % BitsPerBlock \in B!Place
         /\ pos = Base(pos \div BitsPerBlock) + (pos % BitsPerBlock)
         /\ \A b \in Nat, p \in B!Place :
              pos = Base(b) + p => b = pos \div BitsPerBlock /\ p = pos % BitsPerBlock
<1>1. BitsPerBlock \in Nat \ {0}
  BY ArraysAssumption
<1>2. /\ pos = Base(pos \div BitsPerBlock) + (pos % BitsPerBlock)
      /\ pos \div BitsPerBlock \in Nat /\ pos % BitsPerBlock \in B!Place
  BY <1>1, Division DEF Base, B!Place
<1>3. ASSUME NEW b \in Nat, NEW p \in B!Place, pos = Base(b) + p
      PROVE  b = pos \div BitsPerBlock /\ p = pos % BitsPerBlock
  <2>1. p \in 0 .. BitsPerBlock - 1 /\ pos = BitsPerBlock * b + p
    BY <1>3 DEF Base, B!Place
  <2> QED BY <1>1, <2>1, DivisionIsUnique
<1> QED BY <1>2, <1>3

\* The rest of the last block, which is used when it is not 0
Rest == Bits % BitsPerBlock

\* The last block is the one in which the bits end
LEMMA LastIs ==
  ASSUME Bits \in Nat
  PROVE  /\ B!Last \in Nat /\ Rest \in 0 .. BitsPerBlock - 1
         /\ Bits = 0 => B!Last = 0 /\ Rest = 0
         /\ Bits # 0 /\ Rest = 0 => Bits = Base(B!Last) + BitsPerBlock
         /\ Rest # 0 => Bits = Base(B!Last) + Rest
<1> DEFINE n == Bits
           q == n \div BitsPerBlock
<1>1. BitsPerBlock \in Nat \ {0}
  BY ArraysAssumption
<1>2. n \in Nat /\ q \in Nat /\ Rest \in B!Place /\ n = Base(q) + Rest
  BY PlaceInBlock DEF Rest
<1>3. CASE n = 0
  <2>1. Base(0) = 0
    BY BaseIs
  <2>2. 0 \in B!Place /\ 0 = Base(0) + 0
    BY <1>1, <2>1 DEF B!Place
  <2>3. 0 = 0 % BitsPerBlock
    BY <2>2, PlaceInBlock
  <2> QED BY <1>1, <1>3, <2>3 DEF Rest, B!Last
<1>4. CASE n # 0 /\ Rest = 0
  <2>0. q # 0
    <3>1. Base(0) = 0
      BY BaseIs
    <3> QED BY <1>2, <1>4, <3>1
  <2>1. q - 1 \in Nat /\ Base(q - 1) = Base(q) - BitsPerBlock /\ Base(q) \in Int
    <3> HIDE DEF q
    <3> QED BY <1>2, <2>0, BaseIs
  <2>2. BitsPerBlock - 1 \in B!Place /\ n - 1 \in Nat
    BY <1>1, <1>2, <1>4 DEF B!Place
  <2> HIDE DEF q
  <2>3. n - 1 = Base(q - 1) + (BitsPerBlock - 1)
    BY <1>1, <1>2, <1>4, <2>1
  <2>4. q - 1 = (n - 1) \div BitsPerBlock
    BY <2>1, <2>2, <2>3, PlaceInBlock
  <2>5. B!Last = q - 1
    BY <1>4, <2>4 DEF B!Last
  <2> QED BY <1>1, <1>2, <1>4, <2>1, <2>5
<1>5. CASE Rest # 0
  <2>1. Rest - 1 \in B!Place /\ Rest \in Nat
    <3>1. Rest \in 0 .. BitsPerBlock - 1
      BY <1>2 DEF B!Place
    <3> QED BY <1>1, <1>5, <3>1 DEF B!Place
  <2>2. n # 0 /\ n - 1 \in Nat
    <3> HIDE DEF q
    <3>1. Base(q) \in Nat
      BY <1>2, BaseIs
    <3> QED BY <1>2, <1>5, <2>1, <3>1
  <2>3. n - 1 = Base(q) + (Rest - 1)
    <3> HIDE DEF q
    <3>1. Base(q) \in Nat
      BY <1>2, BaseIs
    <3> QED BY <1>2, <2>1, <3>1
  <2>4. q = (n - 1) \div BitsPerBlock
    <3> HIDE DEF q
    <3> QED BY <1>2, <2>1, <2>2, <2>3, PlaceInBlock
  <2>5. B!Last = q
    BY <2>2, <2>4 DEF B!Last
  <2> HIDE DEF q
  <2> QED BY <1>2, <1>5, <2>1, <2>2, <2>5 DEF B!Place
<1> QED BY <1>2, <1>3, <1>4, <1>5

\* Where the places of the blocks are, and of which block a position is
LEMMA PlacesOfBlocks ==
  ASSUME Bits \in Nat, NEW b \in 0 .. B!Last, NEW p \in B!Place
  PROVE  /\ Base(b) + p \in Nat
         /\ Base(b) + p \in B!Positions
              <=> Bits # 0 /\ (b < B!Last \/ Rest = 0 \/ p < Rest)
<1> DEFINE n == B!Last
           r == Rest
<1>1. /\ n \in Nat /\ r \in 0 .. BitsPerBlock - 1
      /\ Bits = 0 => n = 0 /\ r = 0
      /\ Bits # 0 /\ r = 0 => Bits = Base(n) + BitsPerBlock
      /\ r # 0 => Bits = Base(n) + r
  BY LastIs
<1> HIDE DEF n, r
<1>2. b \in Nat /\ b <= n
  BY <1>1 DEF n
<1>3. BitsPerBlock \in Nat \ {0} /\ p \in 0 .. BitsPerBlock - 1
  BY ArraysAssumption DEF B!Place
<1>4. /\ Base(b) \in Nat /\ Base(n) \in Nat /\ Base(b) <= Base(n)
      /\ b < n => Base(b) + BitsPerBlock <= Base(n)
  <2>1. Base(b + 1) = Base(b) + BitsPerBlock /\ Base(b) \in Nat /\ Base(n) \in Nat
    BY <1>1, <1>2, BaseIs
  <2>2. b < n => Base(b + 1) <= Base(n)
    BY <1>1, <1>2, BaseGrows
  <2>3. Base(b) <= Base(n)
    BY <1>1, <1>2, BaseGrows
  <2> QED BY <2>1, <2>2, <2>3
<1> DEFINE x == Base(b) + p
<1>5. x \in Nat /\ (x < Bits <=> Bits # 0 /\ (b < n \/ r = 0 \/ p < r))
  <2> DEFINE u == Base(b)
             w == Base(n)
  <2>1. /\ u \in Nat /\ w \in Nat /\ u <= w /\ (b < n => u + BitsPerBlock <= w)
        /\ (b = n => u = w)
    BY <1>4
  <2>2. /\ Bits # 0 /\ r = 0 => Bits = w + BitsPerBlock
        /\ r # 0 => Bits = w + r
    BY <1>1
  <2> HIDE DEF u, w
  <2>3. u + p \in Nat /\ (u + p < Bits <=> Bits # 0 /\ (b < n \/ r = 0 \/ p < r))
    BY <1>1, <1>2, <1>3, <2>1, <2>2
  <2> QED BY <2>3 DEF u
<1> QED BY <1>5 DEF B!Positions, n, r

\* A position is a place of one of the blocks
LEMMA PositionInBlock ==
  ASSUME Bits \in Nat, NEW pos \in B!Positions
  PROVE  /\ pos \in Nat /\ pos \div BitsPerBlock \in 0 .. B!Last
         /\ pos % BitsPerBlock \in B!Place
         /\ pos = Base(pos \div BitsPerBlock) + (pos % BitsPerBlock)
<1> DEFINE b == pos \div BitsPerBlock
           p == pos % BitsPerBlock
           n == B!Last
           r == Rest
<1>1. pos \in Nat /\ pos < Bits
  BY DEF B!Positions
<1>2. b \in Nat /\ p \in B!Place /\ pos = Base(b) + p
  BY <1>1, PlaceInBlock
<1>3. /\ n \in Nat /\ r \in 0 .. BitsPerBlock - 1
      /\ Bits # 0 /\ r = 0 => Bits = Base(n) + BitsPerBlock
      /\ r # 0 => Bits = Base(n) + r
  BY LastIs
<1> HIDE DEF b, p, n, r
<1>4. Base(n) \in Nat /\ Base(n + 1) = Base(n) + BitsPerBlock
  BY <1>3, BaseIs
<1>5. n + 1 <= b => Base(n + 1) <= Base(b)
  BY <1>2, <1>3, BaseGrows
<1>6. BitsPerBlock \in Nat \ {0} /\ p \in Nat /\ Base(b) \in Nat
  BY <1>2, BaseIs, ArraysAssumption DEF B!Place
<1>7. b <= n
  <2> DEFINE u == Base(b)
             w == Base(n)
             x == Base(n + 1)
  <2>1. /\ x = w + BitsPerBlock /\ w \in Nat /\ u \in Nat /\ pos = u + p
        /\ (n + 1 <= b => x <= u)
        /\ (Bits # 0 /\ r = 0 => Bits = w + BitsPerBlock) /\ (r # 0 => Bits = w + r)
    BY <1>2, <1>3, <1>4, <1>5, <1>6
  <2> HIDE DEF u, w, x
  <2> QED BY <1>1, <1>2, <1>3, <1>6, <2>1
<1> QED BY <1>1, <1>2, <1>3, <1>7 DEF b, p, n

-----------------------------------------------------------------------------

\* Every bitset of the program has the ones of some set of positions, and no
\* other
BitsInv ==
  /\ Bits \in BitsetSizes
  /\ \E ones \in SUBSET B!Positions : array = B!Other(ones)

\* What a block of such a bitset holds
LEMMA OtherHas ==
  ASSUME NEW STATE X, NEW b \in 0 .. B!Last
  PROVE  B!Other(X)[b] = {p \in B!Place : Base(b) + p \in X}
<1>1. B!Other(X)[b] = {p \in B!Place : b * BitsPerBlock + p \in X}
  BY DEF B!Other
<1>2. b * BitsPerBlock = Base(b)
  BY ArraysAssumption DEF Base
<1> QED BY <1>1, <1>2

\* What to show of a function to know it is such a bitset
LEMMA IsOther ==
  ASSUME NEW STATE X, NEW STATE a, a = [b \in 0 .. B!Last |-> a[b]],
         \A b \in 0 .. B!Last : a[b] = {p \in B!Place : Base(b) + p \in X}
  PROVE  a = B!Other(X)
<1>1. ASSUME NEW b \in 0 .. B!Last
      PROVE  a[b] = B!Other(X)[b]
  BY OtherHas
<1>2. B!Other(X) = [b \in 0 .. B!Last |-> B!Other(X)[b]]
  BY DEF B!Other
<1> QED BY <1>1, <1>2

\* The ones of such a bitset are that set
LEMMA OnesOfOther ==
  ASSUME Bits \in Nat, NEW STATE X, X \subseteq B!Positions
  PROVE  \A pos \in B!Positions :
           pos % BitsPerBlock \in B!Other(X)[pos \div BitsPerBlock] <=> pos \in X
<1> SUFFICES ASSUME NEW pos \in B!Positions
             PROVE  pos % BitsPerBlock \in B!Other(X)[pos \div BitsPerBlock] <=> pos \in X
  OBVIOUS
<1>1. /\ pos \div BitsPerBlock \in 0 .. B!Last /\ pos % BitsPerBlock \in B!Place
      /\ pos = Base(pos \div BitsPerBlock) + (pos % BitsPerBlock)
  BY PositionInBlock
<1>2. B!Other(X)[pos \div BitsPerBlock]
        = {p \in B!Place : Base(pos \div BitsPerBlock) + p \in X}
  BY <1>1, OtherHas
<1> QED BY <1>1, <1>2

\* The bits are those of their ones
LEMMA BitsAre ==
  ASSUME BitsInv
  PROVE  /\ Bits \in Nat /\ B!Ones \subseteq B!Positions
         /\ array = B!Other(B!Ones)
<1>1. PICK ones \in SUBSET B!Positions : array = B!Other(ones)
  BY DEF BitsInv
<1>2. Bits \in Nat
  BY ArraysAssumption DEF BitsInv
<1>3. \A pos \in B!Positions :
        pos % BitsPerBlock \in B!Other(ones)[pos \div BitsPerBlock] <=> pos \in ones
  BY <1>1, <1>2, OnesOfOther
<1>4. B!Ones = ones
  BY <1>1, <1>3 DEF B!Ones, B!Get
<1> QED BY <1>1, <1>2, <1>4

\* When the bits change to those of another set, they stay in order and become
\* that set
LEMMA BitsBecome ==
  ASSUME BitsInv, UNCHANGED Bits, NEW STATE X, X \subseteq B!Positions,
         array' = B!Other(X)
  PROVE  BitsInv' /\ B!Becomes(X)
<1>1. Bits \in Nat
  BY BitsAre
<1>2. \A pos \in B!Positions :
        pos % BitsPerBlock \in B!Other(X)[pos \div BitsPerBlock] <=> pos \in X
  BY <1>1, OnesOfOther
<1>3. \A pos \in B!Positions :
        pos % BitsPerBlock \in array'[pos \div BitsPerBlock] <=> pos \in X
  BY <1>2
<1>4. B!Positions' = B!Positions
  BY DEF B!Positions
<1>5. B!Ones' = X
  BY <1>3, <1>4 DEF B!Ones, B!Get
<1>6. BitsInv'
  BY DEF BitsInv, B!Positions, B!Other, B!Place, B!Last
<1> QED BY <1>5, <1>6 DEF B!Becomes

\* _trim leaves the ones that are positions
LEMMA Trimmed ==
  ASSUME Bits \in Nat, NEW STATE X
  PROVE  B!Trim(B!Other(X)) = B!Other(X \cap B!Positions)
<1> DEFINE a == B!Trim(B!Other(X))
<1>1. /\ B!Last \in Nat /\ Rest \in 0 .. BitsPerBlock - 1
      /\ Bits = 0 => B!Last = 0 /\ Rest = 0
  BY LastIs
<1>2. a = [b \in 0 .. B!Last |-> a[b]]
  BY DEF B!Trim, B!Other
<1>3. ASSUME NEW b \in 0 .. B!Last
      PROVE  a[b] = {p \in B!Place : Base(b) + p \in X \cap B!Positions}
  <2> DEFINE o == B!Other(X)
  <2>1. o[b] = {p \in B!Place : Base(b) + p \in X}
    BY OtherHas
  <2>2. /\ b \in DOMAIN o /\ B!Last \in DOMAIN o
        /\ a = IF Bits = 0 \/ Rest # 0
               THEN [o EXCEPT ![B!Last] = @ \cap (0 .. Rest - 1)] ELSE o
    BY <1>1 DEF B!Trim, B!Other, Rest
  <2>3. b \in Int /\ b <= B!Last
    BY <1>1
  <2> HIDE DEF a, o
  <2>4. ASSUME NEW p \in B!Place
        PROVE  p \in a[b] <=> Base(b) + p \in X \cap B!Positions
    <3>1. Base(b) + p \in B!Positions <=> Bits # 0 /\ (b < B!Last \/ Rest = 0 \/ p < Rest)
      BY PlacesOfBlocks
    <3>2. p \in o[b] <=> Base(b) + p \in X
      BY <2>1
    <3>3. p \in 0 .. Rest - 1 <=> p < Rest
      BY <1>1 DEF B!Place
    <3>4. p \in a[b] <=> p \in o[b] /\ ((Bits = 0 \/ Rest # 0) /\ b = B!Last => p < Rest)
      BY <2>2, <3>3
    <3>5. p \in Nat
      BY ArraysAssumption DEF B!Place
    <3> QED BY <1>1, <2>3, <3>1, <3>2, <3>4, <3>5
  <2>5. a[b] \subseteq B!Place
    BY <2>1, <2>2
  <2> QED BY <2>4, <2>5
<1> HIDE DEF a
<1>4. a = B!Other(X \cap B!Positions)
  BY <1>2, <1>3, IsOther
<1> QED BY <1>4 DEF a

-----------------------------------------------------------------------------
(* The operations of bitset are those of a set of positions.               *)

\* f[j] is what the loop over the characters has after j turns
Readings(f, a, chars, u, l) ==
  f = [k \in 0 .. l |-> IF k = 0 THEN [array |-> a, block |-> 0, bits |-> 0, word |-> {}]
                        ELSE B!Placed(f[k - 1], chars[u - k + 1])]

\* The recursive function of Filled exists
LEMMA ReadingsExist ==
  ASSUME NEW STATE a, NEW chars, NEW STATE u, NEW STATE l, l \in Nat
  PROVE  \E f : Readings(f, a, chars, u, l)
<1> DEFINE v == [array |-> a, block |-> 0, bits |-> 0, word |-> {}]
           Turn(w, k) == B!Placed(w, chars[u - k + 1])
           T == {i \in Nat : \E f : f = [k \in 0 .. i |-> IF k = 0 THEN v ELSE Turn(f[k - 1], k)]}
<1> HIDE DEF Turn, v
<1>1. 0 \in T
  <2> DEFINE f == [k \in 0 .. 0 |-> v]
  <2>1. f = [k \in 0 .. 0 |-> IF k = 0 THEN v ELSE Turn(f[k - 1], k)]
    OBVIOUS
  <2> QED BY <2>1
<1>2. ASSUME NEW i \in Nat, i \in T
      PROVE  i + 1 \in T
  <2>1. PICK f : f = [k \in 0 .. i |-> IF k = 0 THEN v ELSE Turn(f[k - 1], k)]
    BY <1>2
  <2> DEFINE g == [k \in 0 .. i + 1 |-> IF k = 0 THEN v
                                        ELSE IF k = i + 1 THEN Turn(f[i], i + 1) ELSE f[k]]
  <2>2. ASSUME NEW k \in 0 .. i + 1
        PROVE  g[k] = IF k = 0 THEN v ELSE Turn(g[k - 1], k)
    <3>1. CASE k = 0
      BY <3>1
    <3>2. CASE k # 0
      <4>1. k - 1 \in 0 .. i /\ k - 1 \in 0 .. i + 1 /\ k - 1 # i + 1
        BY <3>2
      <4>2. f[k - 1] = g[k - 1]
        BY <2>1, <4>1
      <4>3. CASE k = i + 1
        BY <3>2, <4>2, <4>3
      <4>4. CASE k # i + 1
        <5>1. k \in 0 .. i
          BY <4>4
        <5> QED BY <2>1, <3>2, <4>2, <4>4, <5>1
      <4> QED BY <4>3, <4>4
    <3> QED BY <3>1, <3>2
  <2>3. g = [k \in 0 .. i + 1 |-> IF k = 0 THEN v ELSE Turn(g[k - 1], k)]
    <3>1. g = [k \in 0 .. i + 1 |-> g[k]]
      OBVIOUS
    <3> HIDE DEF g
    <3> QED BY <2>2, <3>1
  <2> HIDE DEF g
  <2> QED BY <2>3
<1> HIDE DEF T
<1>3. l \in T
  BY <1>1, <1>2, Induct
<1> QED BY <1>3 DEF T, Turn, v, Readings

\* After j turns the places below j have what X says: all of the blocks before
\* the one that is being filled, and some of that one
ReadUpTo(t, j, X) ==
  /\ t.block \in Nat /\ t.bits \in B!Place /\ j = Base(t.block) + t.bits
  /\ DOMAIN t.array = 0 .. B!Last
  /\ \A b \in 0 .. B!Last :
       b < t.block => t.array[b] = {p \in B!Place : Base(b) + p \in X}
  /\ t.word = {p \in B!Place : p < t.bits /\ Base(t.block) + p \in X}

\* It is so at the start,
LEMMA ReadingStarts ==
  ASSUME NEW STATE a, DOMAIN a = 0 .. B!Last, NEW STATE X
  PROVE  ReadUpTo([array |-> a, block |-> 0, bits |-> 0, word |-> {}], 0, X)
<1>1. BitsPerBlock \in Nat \ {0} /\ 0 \in B!Place /\ Base(0) = 0
  BY BaseIs, ArraysAssumption DEF B!Place
<1>2. {p \in B!Place : p < 0 /\ Base(0) + p \in X} = {}
  BY DEF B!Place
<1>3. \A b \in 0 .. B!Last : ~ (b < 0)
  OBVIOUS
<1> QED BY <1>1, <1>2, <1>3 DEF ReadUpTo

\* ... and after each turn
LEMMA ReadingTurns ==
  ASSUME Bits \in Nat, NEW STATE X, NEW STATE t, NEW STATE j, j \in B!Positions,
         ReadUpTo(t, j, X), NEW STATE char, char = "1" <=> j \in X
  PROVE  ReadUpTo(B!Placed(t, char), j + 1, X)
<1> DEFINE w == IF char = "1" THEN t.word \cup {t.bits} ELSE t.word
           u == B!Placed(t, char)
<1>1. /\ t.block \in Nat /\ t.bits \in B!Place /\ j = Base(t.block) + t.bits
      /\ DOMAIN t.array = 0 .. B!Last
      /\ \A b \in 0 .. B!Last :
           b < t.block => t.array[b] = {p \in B!Place : Base(b) + p \in X}
      /\ t.word = {p \in B!Place : p < t.bits /\ Base(t.block) + p \in X}
  BY DEF ReadUpTo
<1>2. BitsPerBlock \in Nat \ {0} /\ t.bits \in 0 .. BitsPerBlock - 1
  BY <1>1, ArraysAssumption DEF B!Place
<1>3. t.block \in 0 .. B!Last
  <2>1. j \in Nat /\ j \div BitsPerBlock \in 0 .. B!Last
    BY PositionInBlock
  <2>2. t.block = j \div BitsPerBlock
    BY <1>1, <2>1, PlaceInBlock
  <2> QED BY <2>1, <2>2
<1>4. /\ Base(t.block) \in Nat /\ Base(t.block + 1) = Base(t.block) + BitsPerBlock
      /\ j = Base(t.block) + t.bits
  <2>1. t.block \in Int /\ t.block \in Nat
    BY <1>1
  <2> QED BY <1>1, <2>1, BaseIs, Zenon
<1>5. w = {p \in B!Place : p < t.bits + 1 /\ Base(t.block) + p \in X}
  <2>1. ASSUME NEW p \in B!Place
        PROVE  p < t.bits + 1 <=> p < t.bits \/ p = t.bits
    BY <1>2 DEF B!Place
  <2>2. Base(t.block) + t.bits \in X <=> char = "1"
    BY <1>1
  <2> QED BY <1>1, <2>1, <2>2, Zenon
<1>6. CASE t.bits + 1 = BitsPerBlock
  <2>1. u = [array |-> [t.array EXCEPT ![t.block] = w],
             block |-> t.block + 1, bits |-> 0, word |-> {}]
    BY <1>6 DEF B!Placed
  <2>2. w = {p \in B!Place : Base(t.block) + p \in X}
    <3>1. \A p \in B!Place : p < t.bits + 1
      BY <1>2, <1>6 DEF B!Place
    <3> QED BY <1>5, <3>1
  <2> HIDE DEF w, u
  <2>3. ASSUME NEW b \in 0 .. B!Last, b < t.block + 1
        PROVE  u.array[b] = {p \in B!Place : Base(b) + p \in X}
    <3>1. CASE b = t.block
      BY <1>1, <1>3, <2>1, <2>2, <3>1
    <3>2. CASE b # t.block
      <4>1. b < t.block /\ u.array[b] = t.array[b]
        BY <1>1, <1>3, <2>1, <2>3, <3>2
      <4> QED BY <1>1, <4>1
    <3> QED BY <3>1, <3>2
  <2>4. {p \in B!Place : p < 0 /\ Base(t.block + 1) + p \in X} = {}
    BY DEF B!Place
  <2>5. /\ u.block = t.block + 1 /\ u.bits = 0 /\ u.word = {}
        /\ DOMAIN u.array = 0 .. B!Last
    BY <1>1, <2>1
  <2>6. j + 1 = Base(t.block + 1) + 0 /\ 0 \in B!Place /\ t.block + 1 \in Nat
    <3>1. j + 1 = Base(t.block + 1) + 0
      BY <1>2, <1>4, <1>6
    <3> QED BY <1>2, <1>3, <3>1 DEF B!Place
  <2>7. ReadUpTo(u, j + 1, X)
    BY <2>3, <2>4, <2>5, <2>6 DEF ReadUpTo
  <2> QED BY <2>7 DEF u
<1>7. CASE t.bits + 1 # BitsPerBlock
  <2>1. u = [t EXCEPT !.bits = t.bits + 1, !.word = w]
    BY <1>7 DEF B!Placed
  <2> HIDE DEF w
  <2>2. /\ u.block = t.block /\ u.bits = t.bits + 1 /\ u.word = w
        /\ u.array = t.array
    BY <2>1
  <2>3. j + 1 = Base(t.block) + (t.bits + 1) /\ t.bits + 1 \in B!Place
    <3>1. j + 1 = Base(t.block) + (t.bits + 1)
      BY <1>2, <1>4
    <3> QED BY <1>2, <1>7, <3>1 DEF B!Place
  <2> HIDE DEF u
  <2>4. ReadUpTo(u, j + 1, X)
    BY <1>1, <1>5, <2>2, <2>3 DEF ReadUpTo
  <2> QED BY <2>4 DEF u
<1> QED BY <1>6, <1>7

\* The last turn, the rest of its word and the zeros behind it make X
LEMMA ReadingEnds ==
  ASSUME Bits \in Nat, NEW STATE X, NEW STATE c, c \in Nat, X \subseteq 0 .. c - 1,
         NEW STATE t, ReadUpTo(t, c, X), NEW STATE b, b \in 0 .. B!Last
  PROVE  (IF b < t.block THEN t.array[b]
          ELSE IF b = t.block /\ t.bits # 0 THEN t.word ELSE {})
           = {p \in B!Place : Base(b) + p \in X}
<1>1. /\ t.block \in Nat /\ t.bits \in B!Place /\ c = Base(t.block) + t.bits
      /\ b < t.block => t.array[b] = {p \in B!Place : Base(b) + p \in X}
      /\ t.word = {p \in B!Place : p < t.bits /\ Base(t.block) + p \in X}
  BY DEF ReadUpTo
<1>2. /\ BitsPerBlock \in Nat \ {0} /\ t.bits \in 0 .. BitsPerBlock - 1
      /\ B!Place = 0 .. BitsPerBlock - 1
  BY <1>1, ArraysAssumption DEF B!Place
<1>3. b \in Nat /\ Base(b) \in Nat /\ Base(t.block) \in Nat
  BY <1>1, LastIs, BaseIs
<1>4. CASE b < t.block
  BY <1>1, <1>4
<1>5. CASE b = t.block
  <2>1. ASSUME NEW p \in B!Place, Base(b) + p \in X
        PROVE  p < t.bits
    <3>1. Base(b) + p < c
      BY <2>1, <1>2, <1>3
    <3> QED BY <1>1, <1>2, <1>3, <1>5, <3>1
  <2>2. t.word = {p \in B!Place : Base(b) + p \in X}
    BY <1>1, <1>5, <2>1
  <2>3. t.bits = 0 => {p \in B!Place : Base(b) + p \in X} = {}
    BY <1>2, <2>1
  <2> QED BY <1>5, <2>2, <2>3
<1>6. CASE b > t.block
  <2>1. Base(t.block + 1) <= Base(b) /\ Base(t.block + 1) = Base(t.block) + BitsPerBlock
    <3>1. t.block \in Int /\ t.block + 1 \in Int /\ b \in Int /\ t.block + 1 <= b
      BY <1>1, <1>3, <1>6
    <3> QED BY <3>1, BaseIs, BaseGrows, Zenon
  <2>2. ASSUME NEW p \in B!Place, Base(b) + p \in X
        PROVE  FALSE
    <3>1. Base(b) + p < c
      BY <2>2, <1>2, <1>3
    <3> QED BY <1>1, <1>2, <1>3, <2>1, <3>1, SMTT(30)
  <2>3. {p \in B!Place : Base(b) + p \in X} = {}
    BY <2>2
  <2> QED BY <1>1, <1>3, <1>6, <2>3
<1> QED BY <1>1, <1>3, <1>4, <1>5, <1>6

\* The loop over the characters leaves in the blocks what the string says,
\* whatever was there before
LEMMA BitsFilled ==
  ASSUME Bits \in Nat, NEW STATE a, DOMAIN a = 0 .. B!Last,
         NEW chars \in Seq({"0", "1"})
  PROVE  /\ B!Filled(a, chars) = B!Other(B!Written(chars))
         /\ B!Written(chars) \subseteq B!Positions
<1> DEFINE c == B!Used(chars)
           X == B!Written(chars)
           v == [array |-> a, block |-> 0, bits |-> 0, word |-> {}]
           f == CHOOSE f : f = [k \in 0 .. c |-> IF k = 0 THEN v
                                  ELSE B!Placed(f[k - 1], chars[c - k + 1])]
           end == f[c]
           r == B!Filled(a, chars)
<1>1. c \in Nat /\ c <= Bits
  BY DEF B!Used
<1>2. X \subseteq 0 .. c - 1 /\ X \subseteq B!Positions
  BY <1>1 DEF B!Written, B!Positions
<1>3. r = [b \in 0 .. B!Last |-> IF b < end.block THEN end.array[b]
                                 ELSE IF b = end.block /\ end.bits # 0 THEN end.word
                                 ELSE {}]
  BY Zenon DEF B!Filled
<1>4. \E g : g = [k \in 0 .. c |-> IF k = 0 THEN v
                                   ELSE B!Placed(g[k - 1], chars[c - k + 1])]
  <2> HIDE DEF c
  <2>1. \E g : Readings(g, a, chars, c, c)
    BY <1>1, ReadingsExist
  <2> QED BY <2>1 DEF Readings
<1>5. f = [k \in 0 .. c |-> IF k = 0 THEN v ELSE B!Placed(f[k - 1], chars[c - k + 1])]
  BY <1>4, Zenon
<1> HIDE DEF f
<1> DEFINE T == {j \in Nat : j <= c => ReadUpTo(f[j], j, X)}
<1>6. 0 \in T
  <2>1. f[0] = v
    BY <1>1, <1>5
  <2>2. ReadUpTo(v, 0, X)
    BY ReadingStarts
  <2> QED BY <2>1, <2>2
<1>7. ASSUME NEW j \in Nat, j \in T
      PROVE  j + 1 \in T
  <2> SUFFICES ASSUME j + 1 <= c
               PROVE  ReadUpTo(f[j + 1], j + 1, X)
    OBVIOUS
  <2> DEFINE t == f[j]
             char == chars[c - j]
  <2>1. ReadUpTo(t, j, X)
    BY <1>1, <1>7
  <2>2. f[j + 1] = B!Placed(t, char)
    <3>1. j + 1 \in 0 .. c /\ j + 1 # 0 /\ (j + 1) - 1 = j /\ c - (j + 1) + 1 = c - j
      BY <1>1
    <3> HIDE DEF c, v
    <3> QED BY <1>5, <3>1
  <2>3. j \in B!Positions
    BY <1>1 DEF B!Positions
  <2>4. char = "1" <=> j \in X
    <3>1. j \in 0 .. c - 1
      BY <1>1
    <3> QED BY <3>1 DEF B!Written
  <2> HIDE DEF t, char, X, c
  <2>5. ReadUpTo(B!Placed(t, char), j + 1, X)
    BY <2>1, <2>3, <2>4, ReadingTurns
  <2> QED BY <2>2, <2>5
<1> HIDE DEF T
<1>8. c \in T
  BY <1>1, <1>6, <1>7, Induct
<1>9. ReadUpTo(end, c, X)
  BY <1>1, <1>8 DEF T
<1>10. ASSUME NEW b \in 0 .. B!Last
       PROVE  r[b] = {p \in B!Place : Base(b) + p \in X}
  <2> HIDE DEF X, c, end, r
  <2>1. r[b] = IF b < end.block THEN end.array[b]
               ELSE IF b = end.block /\ end.bits # 0 THEN end.word ELSE {}
    BY <1>3
  <2>2. (IF b < end.block THEN end.array[b]
         ELSE IF b = end.block /\ end.bits # 0 THEN end.word ELSE {})
          = {p \in B!Place : Base(b) + p \in X}
    BY <1>1, <1>2, <1>9, ReadingEnds, Zenon
  <2> QED BY <2>1, <2>2, Zenon
<1>11. r = [b \in 0 .. B!Last |-> r[b]]
  BY <1>3
<1>12. r = B!Other(X)
  <2> HIDE DEF r, X
  <2> QED BY <1>10, <1>11, IsOther
<1> QED BY <1>2, <1>12 DEF r, X

\* Strings are sequences of placeholders
LEMMA StringsAre ==
  ASSUME Bits \in Nat, NEW chars \in B!Strings
  PROVE  chars \in Seq({"0", "1"})
<1>1. PICK n \in 0 .. Bits + 1 : chars \in [1 .. n -> {"0", "1"}]
  BY DEF B!Strings
<1> QED BY <1>1

\* A string gives its ones,
LEMMA BitsConstructed ==
  ASSUME BitsInv, NEW chars \in B!Strings, B!Construct(chars)
  PROVE  BitsInv' /\ B!Becomes(B!Written(chars))
<1> DEFINE X == B!Written(chars)
<1>1. Bits \in Nat /\ DOMAIN array = 0 .. B!Last
  BY BitsAre DEF B!Other
<1>2. chars \in Seq({"0", "1"})
  BY <1>1, StringsAre
<1>3. B!Filled(array, chars) = B!Other(X) /\ X \subseteq B!Positions
  BY <1>1, <1>2, BitsFilled
<1>4. array' = B!Other(X) /\ UNCHANGED Bits
  BY <1>3 DEF B!Construct
<1> HIDE DEF X
<1>5. BitsInv' /\ B!Becomes(X)
  BY <1>3, <1>4, BitsBecome
<1> QED BY <1>5 DEF X

\* ... a number its own, up to the last bit,
LEMMA BitsNumbered ==
  ASSUME BitsInv, NEW val \in SUBSET B!Place, B!ConstructFromNumber(val)
  PROVE  BitsInv' /\ B!Becomes(val \cap B!Positions)
<1> DEFINE X == val \cap B!Positions
           a == [b \in 0 .. B!Last |->
                   IF b # 0 THEN {}
                   ELSE IF Bits < BitsPerBlock THEN val \cap (0 .. Bits - 1) ELSE val]
<1>1. array' = a /\ UNCHANGED Bits
  BY DEF B!ConstructFromNumber
<1>2. /\ Bits \in Nat /\ BitsPerBlock \in Nat \ {0}
      /\ B!Place = 0 .. BitsPerBlock - 1 /\ B!Last \in Nat
  BY BitsAre, LastIs, ArraysAssumption DEF B!Place
<1>3. ASSUME NEW b \in 0 .. B!Last
      PROVE  a[b] = {p \in B!Place : Base(b) + p \in X}
  <2>1. CASE b = 0
    <3>1. Base(b) = 0 /\ \A p \in B!Place : Base(b) + p = p
      BY <1>2, <2>1, BaseIs
    <3>2. {p \in B!Place : Base(b) + p \in X} = X
      BY <3>1
    <3>3. Bits < BitsPerBlock => a[b] = X
      BY <1>2, <2>1 DEF B!Positions
    <3>4. ~ (Bits < BitsPerBlock) => val \subseteq B!Positions
      BY <1>2 DEF B!Positions
    <3>5. ~ (Bits < BitsPerBlock) => a[b] = X
      BY <2>1, <3>4
    <3> HIDE DEF a, X
    <3> QED BY <3>2, <3>3, <3>5
  <2>2. CASE b # 0
    <3>1. Base(1) <= Base(b) /\ Base(1) = BitsPerBlock /\ Base(b) \in Nat
      <4>1. b \in Nat /\ 1 <= b
        BY <1>2, <2>2
      <4>2. Base(0 + 1) = Base(0) + BitsPerBlock /\ Base(0) = 0
        BY BaseIs
      <4>3. Base(1) = BitsPerBlock
        BY <1>2, <4>2
      <4>4. b \in Int /\ 1 \in Int
        BY <4>1
      <4>5. Base(1) <= Base(b)
        BY <4>1, <4>4, BaseGrows, Zenon
      <4>6. Base(b) \in Nat
        BY <4>1, <4>4, BaseIs, Zenon
      <4> QED BY <4>3, <4>5, <4>6
    <3>2. ASSUME NEW p \in B!Place
          PROVE  Base(b) + p \notin B!Place
      BY <1>2, <3>1
    <3>3. {p \in B!Place : Base(b) + p \in X} = {}
      BY <3>2
    <3> QED BY <2>2, <3>3
  <2> QED BY <2>1, <2>2
<1>4. a = [b \in 0 .. B!Last |-> a[b]]
  OBVIOUS
<1>5. a = B!Other(X)
  <2> HIDE DEF a, X
  <2> QED BY <1>3, <1>4, IsOther
<1>6. X \subseteq B!Positions
  OBVIOUS
<1> HIDE DEF a, X
<1>7. BitsInv' /\ B!Becomes(X)
  BY <1>1, <1>5, <1>6, BitsBecome
<1> QED BY <1>7 DEF X

\* &= meets,
LEMMA BitsMet ==
  ASSUME BitsInv, NEW o \in SUBSET B!Positions, B!And(o)
  PROVE  BitsInv' /\ B!Becomes(B!Ones \cap o)
<1> DEFINE X == B!Ones
           T == X \cap o
<1>1. array = B!Other(X) /\ X \subseteq B!Positions
  BY BitsAre
<1>2. /\ array' = [b \in 0 .. B!Last |-> array[b] \cap B!Other(o)[b]]
      /\ UNCHANGED Bits
  BY DEF B!And, B!Combine
<1> HIDE DEF X
<1>3. array' = B!Other(T)
  BY <1>1, <1>2 DEF B!Other
<1> HIDE DEF T
<1>4. T \subseteq B!Positions
  BY <1>1 DEF T
<1>5. BitsInv' /\ B!Becomes(T)
  BY <1>2, <1>3, <1>4, BitsBecome
<1> QED BY <1>5 DEF X, T

\* ... |= joins,
LEMMA BitsJoined ==
  ASSUME BitsInv, NEW o \in SUBSET B!Positions, B!Or(o)
  PROVE  BitsInv' /\ B!Becomes(B!Ones \cup o)
<1> DEFINE X == B!Ones
           T == X \cup o
<1>1. array = B!Other(X) /\ X \subseteq B!Positions
  BY BitsAre
<1>2. /\ array' = [b \in 0 .. B!Last |-> array[b] \cup B!Other(o)[b]]
      /\ UNCHANGED Bits
  BY DEF B!Or, B!Combine
<1> HIDE DEF X
<1>3. array' = B!Other(T)
  BY <1>1, <1>2 DEF B!Other
<1> HIDE DEF T
<1>4. T \subseteq B!Positions
  BY <1>1 DEF T
<1>5. BitsInv' /\ B!Becomes(T)
  BY <1>2, <1>3, <1>4, BitsBecome
<1> QED BY <1>5 DEF X, T

\* ... and ^= leaves what is in one of the two
LEMMA BitsDiffering ==
  ASSUME BitsInv, NEW o \in SUBSET B!Positions, B!Xor(o)
  PROVE  BitsInv' /\ B!Becomes((B!Ones \ o) \cup (o \ B!Ones))
<1> DEFINE X == B!Ones
           T == (X \ o) \cup (o \ X)
<1>1. array = B!Other(X) /\ X \subseteq B!Positions
  BY BitsAre
<1>2. /\ array' = [b \in 0 .. B!Last |-> (array[b] \ B!Other(o)[b])
                                           \cup (B!Other(o)[b] \ array[b])]
      /\ UNCHANGED Bits
  BY DEF B!Xor, B!Combine
<1> HIDE DEF X
<1>3. array' = B!Other(T)
  BY <1>1, <1>2 DEF B!Other
<1> HIDE DEF T
<1>4. T \subseteq B!Positions
  BY <1>1 DEF T
<1>5. BitsInv' /\ B!Becomes(T)
  BY <1>2, <1>3, <1>4, BitsBecome
<1> QED BY <1>5 DEF X, T

\* set() sets all positions,
LEMMA BitsSet ==
  ASSUME BitsInv, B!SetAll
  PROVE  BitsInv' /\ B!Becomes(B!Positions)
<1>1. Bits \in Nat
  BY BitsAre
<1>2. [b \in 0 .. B!Last |-> B!Place] = B!Other(Nat)
  <2>1. ASSUME NEW b \in 0 .. B!Last
        PROVE  B!Place = {p \in B!Place : b * BitsPerBlock + p \in Nat}
    BY <1>1, LastIs, ArraysAssumption DEF B!Place
  <2> QED BY <2>1 DEF B!Other
<1>3. B!Trim(B!Other(Nat)) = B!Other(Nat \cap B!Positions)
  BY <1>1, Trimmed
<1>4. Nat \cap B!Positions = B!Positions
  BY DEF B!Positions
<1>5. array' = B!Other(B!Positions) /\ UNCHANGED Bits
  BY <1>2, <1>3, <1>4 DEF B!SetAll
<1> QED BY <1>5, BitsBecome

\* ... reset() resets them,
LEMMA BitsReset ==
  ASSUME BitsInv, B!ResetAll
  PROVE  BitsInv' /\ B!Becomes({})
<1>1. array' = B!Other({}) /\ UNCHANGED Bits
  BY DEF B!ResetAll, B!Other
<1> QED BY <1>1, BitsBecome

\* ... and flip() changes all
LEMMA BitsFlipped ==
  ASSUME BitsInv, B!FlipAll
  PROVE  BitsInv' /\ B!Becomes(B!Positions \ B!Ones)
<1> DEFINE X == B!Ones
           T == Nat \ X
           U == B!Positions \ X
<1>1. array = B!Other(X) /\ X \subseteq B!Positions /\ Bits \in Nat
  BY BitsAre
<1> HIDE DEF X
<1>2. [b \in 0 .. B!Last |-> B!Place \ array[b]] = B!Other(T)
  <2>1. ASSUME NEW b \in 0 .. B!Last
        PROVE  B!Place \ array[b] = {p \in B!Place : b * BitsPerBlock + p \in T}
    <3>1. array[b] = {p \in B!Place : b * BitsPerBlock + p \in X}
      BY <1>1 DEF B!Other
    <3>2. \A p \in B!Place : b * BitsPerBlock + p \in Nat
      BY <1>1, LastIs, ArraysAssumption DEF B!Place
    <3> QED BY <3>1, <3>2
  <2> QED BY <2>1 DEF B!Other
<1> HIDE DEF T
<1>3. B!Trim(B!Other(T)) = B!Other(T \cap B!Positions)
  BY <1>1, Trimmed
<1>4. T \cap B!Positions = U
  BY DEF B!Positions, T
<1> HIDE DEF U
<1>5. array' = B!Other(U) /\ UNCHANGED Bits
  BY <1>2, <1>3, <1>4 DEF B!FlipAll
<1>6. U \subseteq B!Positions
  BY DEF U
<1>7. BitsInv' /\ B!Becomes(U)
  BY <1>5, <1>6, BitsBecome
<1> QED BY <1>7 DEF X, U

\* A bit that is set or reset is the only one that changes
LEMMA BitSet ==
  ASSUME BitsInv, NEW pos \in B!Positions, NEW STATE to, B!SetBit(pos, to)
  PROVE  /\ BitsInv'
         /\ B!Becomes(IF to THEN B!Ones \cup {pos} ELSE B!Ones \ {pos})
<1> DEFINE X == B!Ones
           T == IF to THEN X \cup {pos} ELSE X \ {pos}
           c == pos \div BitsPerBlock
           q == pos % BitsPerBlock
<1>1. array = B!Other(X) /\ X \subseteq B!Positions /\ Bits \in Nat
  BY BitsAre
<1>2. pos \in Nat /\ c \in 0 .. B!Last /\ q \in B!Place /\ pos = Base(c) + q
  BY <1>1, PositionInBlock
<1>3. \A b \in Nat, p \in B!Place : pos = Base(b) + p => b = c /\ p = q
  BY <1>2, PlaceInBlock
<1>4. /\ array' = [array EXCEPT ![c] = IF to THEN @ \cup {q} ELSE @ \ {q}]
      /\ UNCHANGED Bits
  BY DEF B!SetBit
<1> HIDE DEF X, c, q
<1>5. DOMAIN array = 0 .. B!Last
  BY <1>1 DEF B!Other
<1> DEFINE a == [array EXCEPT ![c] = IF to THEN @ \cup {q} ELSE @ \ {q}]
<1>6. a = [b \in 0 .. B!Last |-> a[b]]
  BY <1>1 DEF B!Other
<1>7. ASSUME NEW b \in 0 .. B!Last
      PROVE  a[b] = {p \in B!Place : Base(b) + p \in T}
  <2>1. b \in Nat
    BY <1>1, LastIs
  <2>2. array[b] = {p \in B!Place : Base(b) + p \in X}
    BY <1>1, OtherHas
  <2>3. \A p \in B!Place : Base(b) + p = pos <=> b = c /\ p = q
    BY <1>2, <1>3, <2>1
  <2>4. CASE to
    BY <1>2, <1>5, <2>2, <2>3, <2>4
  <2>5. CASE ~to
    BY <1>2, <1>5, <2>2, <2>3, <2>5
  <2> QED BY <2>4, <2>5
<1> HIDE DEF a, T
<1>8. a = B!Other(T)
  BY <1>6, <1>7, IsOther
<1>9. array' = B!Other(T)
  BY <1>4, <1>8 DEF a
<1>10. T \subseteq B!Positions
  BY <1>1 DEF T
<1>11. BitsInv' /\ B!Becomes(T)
  BY <1>4, <1>9, <1>10, BitsBecome
<1> QED BY <1>11 DEF X, T

-----------------------------------------------------------------------------
(* Shifts.                                                                 *)

\* The members of X moved up by n, and down by n
Up(X, n) == {x + n : x \in X}
Down(X, n) == {x - n : x \in X}

\* ... are those that moved back are in X
HasUp(X, n, x) == x \in Up(X, n) <=> x - n \in X
HasDown(X, n, x) == x \in Down(X, n) <=> x + n \in X

LEMMA UpHas ==
  ASSUME NEW STATE X, X \subseteq Int, NEW STATE n, n \in Int, NEW x \in Int
  PROVE  HasUp(X, n, x) /\ HasDown(X, n, x)
<1>1. x - n \in X => x \in Up(X, n)
  BY x = (x - n) + n DEF Up
<1>2. x + n \in X => x \in Down(X, n)
  BY x = (x + n) - n DEF Down
<1>3. ASSUME x \in Up(X, n)
      PROVE  x - n \in X
  <2>1. PICK y \in X : x = y + n
    BY <1>3 DEF Up
  <2>2. x - n = y
    BY <2>1
  <2> QED BY <2>2
<1>4. ASSUME x \in Down(X, n)
      PROVE  x + n \in X
  <2>1. PICK y \in X : x = y - n
    BY <1>4 DEF Down
  <2>2. x + n = y
    BY <2>1
  <2> QED BY <2>2
<1> QED BY <1>1, <1>2, <1>3, <1>4 DEF HasUp, HasDown

\* A word shifted within its width
LeftHas(w, n, p) == p \in B!ShiftLeft(w, n) <=> p - n \in w
RightHas(w, n, p) == p \in B!ShiftRight(w, n) <=> p + n \in w

LEMMA ShiftHas ==
  ASSUME NEW STATE w, w \subseteq B!Place, NEW STATE n, n \in Nat, NEW p \in B!Place
  PROVE  /\ LeftHas(w, n, p) /\ RightHas(w, n, p)
<1>1. BitsPerBlock \in Nat \ {0} /\ w \subseteq Int /\ p \in Int /\ n \in Int
  BY ArraysAssumption DEF B!Place
<1>2. HasUp(w, n, p) /\ HasDown(w, n, p)
  BY <1>1, UpHas
<1>4. B!ShiftLeft(w, n) = Up(w, n) \cap B!Place /\ B!ShiftRight(w, n) = Down(w, n) \cap B!Place
  BY DEF B!ShiftLeft, B!ShiftRight, Up, Down
<1> QED BY <1>2, <1>4 DEF HasUp, HasDown, LeftHas, RightHas

\* <<= by less than a block
WordsLeft(a, r) ==
  [b \in 0 .. B!Last |->
     B!ShiftLeft(a[b], r)
       \cup (IF b = 0 THEN {} ELSE B!ShiftRight(a[b - 1], BitsPerBlock - r))]

LEMMA ShiftedLeft ==
  ASSUME Bits \in Nat, NEW STATE X, X \subseteq Nat, NEW STATE a, a = B!Other(X),
         NEW STATE r, r \in 0 .. BitsPerBlock - 1
  PROVE  WordsLeft(a, r) = B!Other(Up(X, r))
<1> DEFINE z == WordsLeft(a, r)
<1>1. z = [b \in 0 .. B!Last |-> z[b]]
  BY DEF WordsLeft
<1>2. ASSUME NEW b \in 0 .. B!Last
      PROVE  z[b] = {p \in B!Place : Base(b) + p \in Up(X, r)}
  <2> DEFINE k == BitsPerBlock
             s == k - r
             c == b - 1
             w == B!ShiftLeft(a[b], r)
             v == B!ShiftRight(a[c], s)
  <2>1. k \in Nat \ {0} /\ s \in 1 .. k /\ r \in 0 .. k - 1 /\ k = s + r
    BY ArraysAssumption
  <2>2. B!Last \in Nat /\ b \in Nat
    BY LastIs
  <2>3. Base(b) \in Nat /\ Base(c) = Base(b) - k
    <3>1. Base(b) \in Nat /\ Base(b - 1) = Base(b) - BitsPerBlock
      BY <2>2, BaseIs
    <3> QED BY <3>1
  <2>4. a[b] = {p \in B!Place : Base(b) + p \in X}
    BY OtherHas
  <2>5. b # 0 => c \in 0 .. B!Last /\ a[c] = {p \in B!Place : Base(c) + p \in X}
    <3>1. b # 0 => c \in 0 .. B!Last
      BY <2>2
    <3> HIDE DEF c
    <3> QED BY <3>1, OtherHas
  <2>6. z[b] = w \cup (IF b = 0 THEN {} ELSE v)
    BY DEF WordsLeft
  <2> HIDE DEF s, c, w, v, z
  <2>7. w \subseteq B!Place /\ v \subseteq B!Place
    BY DEF w, v, B!ShiftLeft, B!ShiftRight
  <2>8. ASSUME NEW p \in B!Place
        PROVE  p \in z[b] <=> Base(b) + p \in Up(X, r)
    <3>1. p \in 0 .. k - 1
      BY DEF B!Place
    <3>2. p \in w <=> p - r \in a[b]
      <4>1. r \in Nat /\ a[b] \subseteq B!Place
        BY <2>1, <2>4
      <4>2. LeftHas(a[b], r, p)
        BY <4>1, ShiftHas
      <4> QED BY <4>2 DEF LeftHas, w
    <3>3. b # 0 => (p \in v <=> p + s \in a[c])
      <4> SUFFICES ASSUME b # 0
                   PROVE  p \in v <=> p + s \in a[c]
        OBVIOUS
      <4>1. s \in Nat /\ a[c] \subseteq B!Place
        BY <2>1, <2>5
      <4>2. RightHas(a[c], s, p)
        BY <4>1, ShiftHas
      <4> QED BY <4>2 DEF RightHas, v
    <3>4. Base(b) + p \in Up(X, r) <=> (Base(b) + p) - r \in X
      <4> DEFINE y == Base(b) + p
      <4>1. y \in Int /\ r \in Int /\ X \subseteq Int
        BY <2>1, <2>3, <3>1
      <4> HIDE DEF y
      <4>2. HasUp(X, r, y)
        BY <4>1, UpHas
      <4> QED BY <4>2 DEF HasUp, y
    <3> DEFINE u == Base(b)
               t == Base(c)
               x == (u + p) - r
    <3>5. u \in Nat /\ t = u - k
      BY <2>3
    <3>6. CASE r <= p
      <4>1. p - r \in B!Place /\ p + s \notin B!Place /\ u + (p - r) = x
        BY <2>1, <3>1, <3>5, <3>6 DEF B!Place
      <4>2. p \in w <=> x \in X
        BY <2>4, <3>2, <4>1
      <4>3. b # 0 => p \notin v
        BY <2>5, <3>3, <4>1
      <4> QED BY <2>6, <3>4, <4>2, <4>3
    <3>7. CASE p < r
      <4>1. p - r \notin B!Place /\ p + s \in B!Place /\ t + (p + s) = x
        BY <2>1, <3>1, <3>5, <3>7 DEF B!Place
      <4>2. p \notin w
        BY <2>4, <3>2, <4>1
      <4>3. b # 0 => (p \in v <=> x \in X)
        BY <2>5, <3>3, <4>1
      <4>4. b = 0 => x \notin X
        <5>1. b = 0 => u = 0
          BY BaseIs
        <5>2. b = 0 => x \notin Nat
          BY <2>1, <3>1, <3>7, <5>1
        <5> HIDE DEF x
        <5> QED BY <5>2
      <4> QED BY <2>6, <3>4, <4>2, <4>3, <4>4
    <3> QED BY <2>1, <3>1, <3>6, <3>7
  <2>9. z[b] \subseteq B!Place
    BY <2>6, <2>7
  <2> QED BY <2>8, <2>9
<1> DEFINE U == Up(X, r)
<1>3. \A b \in 0 .. B!Last : z[b] = {p \in B!Place : Base(b) + p \in U}
  BY <1>2
<1> HIDE DEF U, z
<1>4. z = B!Other(U)
  BY <1>1, <1>3, IsOther
<1> QED BY <1>4 DEF U, z

\* <<= moves the ones up, and those that leave the bitset are lost
LEMMA BitsShiftedLeft ==
  ASSUME BitsInv, NEW n \in Nat, B!LeftShift(n)
  PROVE  BitsInv' /\ B!Becomes({p + n : p \in B!Ones} \cap B!Positions)
<1> DEFINE X == B!Ones
           k == n \div BitsPerBlock
           r == n % BitsPerBlock
           a == [b \in 0 .. B!Last |-> IF k <= b THEN array[b - k] ELSE {}]
           U == Up(X, Base(k))
           z == WordsLeft(a, r)
           T == Up(X, n) \cap B!Positions
<1>1. array = B!Other(X) /\ X \subseteq B!Positions /\ Bits \in Nat
  BY BitsAre
<1>2. k \in Nat /\ r \in 0 .. BitsPerBlock - 1 /\ n = Base(k) + r
  BY PlaceInBlock DEF B!Place
<1>3. array' = B!Trim(z) /\ UNCHANGED Bits
  BY DEF B!LeftShift, WordsLeft
<1>4. X \subseteq Nat /\ X \subseteq Int /\ Base(k) \in Nat
  BY <1>1, <1>2, BaseIs DEF B!Positions
<1> HIDE DEF X, k, r
<1>5. a = B!Other(U)
  <2>1. a = [b \in 0 .. B!Last |-> a[b]]
    OBVIOUS
  <2>2. ASSUME NEW b \in 0 .. B!Last
        PROVE  a[b] = {p \in B!Place : Base(b) + p \in U}
    <3>1. B!Last \in Nat /\ b \in Nat
      BY <1>1, LastIs
    <3>2. Base(b) \in Nat /\ Base(b + 1) = Base(b) + BitsPerBlock
      BY <3>1, BaseIs
    <3>3. BitsPerBlock \in Nat \ {0}
      BY ArraysAssumption
    <3>4. ASSUME NEW p \in B!Place
          PROVE  Base(b) + p \in U <=> (Base(b) - Base(k)) + p \in X
      <4>1. p \in Int /\ Base(b) + p \in Int /\ Base(k) \in Int
        BY <1>4, <3>2 DEF B!Place
      <4> DEFINE y == Base(b) + p
                 j == Base(k)
      <4>2. HasUp(X, j, y)
        <5> HIDE DEF y, j
        <5> QED BY <1>4, <4>1, UpHas DEF y, j
      <4>3. (Base(b) + p) - Base(k) = (Base(b) - Base(k)) + p
        BY <1>4, <3>2, <4>1
      <4> QED BY <4>2, <4>3 DEF HasUp
    <3>5. CASE k <= b
      <4> DEFINE c == b - k
      <4>1. c \in 0 .. B!Last /\ a[b] = array[c]
        BY <1>2, <3>1, <3>5
      <4>2. Base(c) = Base(b) - Base(k)
        BY <1>2, <3>1, BaseAdds
      <4> HIDE DEF c
      <4>3. array[c] = {p \in B!Place : Base(c) + p \in X}
        BY <1>1, <4>1, OtherHas
      <4> QED BY <3>4, <4>1, <4>2, <4>3
    <3>6. CASE ~(k <= b)
      <4>1. b + 1 <= k
        BY <1>2, <3>1, <3>6
      <4>2. Base(b + 1) <= Base(k)
        BY <1>2, <3>1, <4>1, BaseGrows
      <4>3. ASSUME NEW p \in B!Place
            PROVE  (Base(b) - Base(k)) + p \notin Nat
        <5>1. p \in 0 .. BitsPerBlock - 1
          BY DEF B!Place
        <5> QED BY <1>4, <3>2, <3>3, <4>2, <5>1
      <4>4. \A p \in B!Place : (Base(b) - Base(k)) + p \notin X
        BY <1>4, <4>3, Zenon
      <4>5. a[b] = {}
        BY <3>6
      <4> QED BY <3>4, <4>4, <4>5
    <3> QED BY <3>5, <3>6
  <2> HIDE DEF a, U
  <2> QED BY <2>1, <2>2, IsOther
<1>6. U \subseteq Nat
  BY <1>4 DEF Up
<1> HIDE DEF a, U
<1>7. z = B!Other(Up(U, r))
  BY <1>1, <1>2, <1>5, <1>6, ShiftedLeft
<1> HIDE DEF z
<1>8. Up(U, r) \cap B!Positions = T
  <2>1. ASSUME NEW x \in Int
        PROVE  x \in Up(U, r) <=> x \in Up(X, n)
    <3> DEFINE y == x - r
               j == Base(k)
    <3>1. y \in Int /\ j \in Int /\ y - j = x - n /\ r \in Int /\ n \in Int
          /\ U \subseteq Int
      BY <1>2, <1>4, <1>6
    <3>2. HasUp(U, r, x) /\ HasUp(X, n, x)
      BY <1>4, <3>1, UpHas
    <3>3. HasUp(X, j, y)
      <4> HIDE DEF y, j
      <4> QED BY <1>4, <3>1, UpHas
    <3> QED BY <3>1, <3>2, <3>3 DEF HasUp, U
  <2>2. B!Positions \subseteq Int
    BY <1>1 DEF B!Positions
  <2> QED BY <2>1, <2>2
<1>9. B!Trim(z) = B!Other(Up(U, r) \cap B!Positions)
  BY <1>1, <1>7, Trimmed
<1> HIDE DEF T
<1>10. array' = B!Other(T)
  BY <1>3, <1>8, <1>9
<1>11. T \subseteq B!Positions
  BY DEF T
<1>12. BitsInv' /\ B!Becomes(T)
  BY <1>3, <1>10, <1>11, BitsBecome
<1> QED BY <1>12 DEF X, T, Up

\* >>= by less than a block
WordsRight(a, r) ==
  [b \in 0 .. B!Last |->
     B!ShiftRight(a[b], r)
       \cup (IF b = B!Last THEN {} ELSE B!ShiftLeft(a[b + 1], BitsPerBlock - r))]

LEMMA ShiftedRight ==
  ASSUME Bits \in Nat, NEW STATE X, X \subseteq Int,
         \A x \in X : x < Base(B!Last + 1), NEW STATE a, a = B!Other(X),
         NEW STATE r, r \in 0 .. BitsPerBlock - 1
  PROVE  WordsRight(a, r) = B!Other(Down(X, r))
<1> DEFINE z == WordsRight(a, r)
<1>1. z = [b \in 0 .. B!Last |-> z[b]]
  BY DEF WordsRight
<1>2. ASSUME NEW b \in 0 .. B!Last
      PROVE  z[b] = {p \in B!Place : Base(b) + p \in Down(X, r)}
  <2> DEFINE k == BitsPerBlock
             s == k - r
             c == b + 1
             w == B!ShiftRight(a[b], r)
             v == B!ShiftLeft(a[c], s)
  <2>1. k \in Nat \ {0} /\ s \in 1 .. k /\ r \in 0 .. k - 1 /\ k = s + r
    BY ArraysAssumption
  <2>2. B!Last \in Nat /\ b \in Nat
    BY LastIs
  <2>3. Base(b) \in Nat /\ Base(c) = Base(b) + k
    <3>1. Base(b) \in Nat /\ Base(b + 1) = Base(b) + BitsPerBlock
      BY <2>2, BaseIs
    <3> QED BY <3>1
  <2>4. a[b] = {p \in B!Place : Base(b) + p \in X}
    BY OtherHas
  <2>5. b # B!Last => c \in 0 .. B!Last /\ a[c] = {p \in B!Place : Base(c) + p \in X}
    <3>1. b # B!Last => c \in 0 .. B!Last
      BY <2>2
    <3> HIDE DEF c
    <3> QED BY <3>1, OtherHas
  <2>6. z[b] = w \cup (IF b = B!Last THEN {} ELSE v)
    BY DEF WordsRight
  <2> HIDE DEF s, w, v, z
  <2>7. w \subseteq B!Place /\ v \subseteq B!Place
    BY DEF w, v, B!ShiftLeft, B!ShiftRight
  <2>8. ASSUME NEW p \in B!Place
        PROVE  p \in z[b] <=> Base(b) + p \in Down(X, r)
    <3>1. p \in 0 .. k - 1
      BY DEF B!Place
    <3>2. p \in w <=> p + r \in a[b]
      <4>1. r \in Nat /\ a[b] \subseteq B!Place
        BY <2>1, <2>4
      <4>2. RightHas(a[b], r, p)
        BY <4>1, ShiftHas
      <4> QED BY <4>2 DEF RightHas, w
    <3>3. b # B!Last => (p \in v <=> p - s \in a[c])
      <4> SUFFICES ASSUME b # B!Last
                   PROVE  p \in v <=> p - s \in a[c]
        OBVIOUS
      <4> HIDE DEF c
      <4>1. s \in Nat /\ a[c] \subseteq B!Place
        BY <2>1, <2>5
      <4>2. LeftHas(a[c], s, p)
        BY <4>1, ShiftHas
      <4> QED BY <4>2 DEF LeftHas, v
    <3>4. Base(b) + p \in Down(X, r) <=> (Base(b) + p) + r \in X
      <4> DEFINE y == Base(b) + p
      <4>1. y \in Int /\ r \in Int /\ X \subseteq Int
        BY <2>1, <2>3, <3>1
      <4> HIDE DEF y
      <4>2. HasDown(X, r, y)
        BY <4>1, UpHas
      <4> QED BY <4>2 DEF HasDown, y
    <3> DEFINE u == Base(b)
               t == Base(c)
               x == (u + p) + r
    <3>5. u \in Nat /\ t = u + k
      BY <2>3
    <3>6. CASE p + r < k
      <4>1. p + r \in B!Place /\ p - s \notin B!Place /\ u + (p + r) = x
        BY <2>1, <3>1, <3>5, <3>6 DEF B!Place
      <4>2. p \in w <=> x \in X
        BY <2>4, <3>2, <4>1
      <4>3. b # B!Last => p \notin v
        BY <2>5, <3>3, <4>1
      <4> QED BY <2>6, <3>4, <4>2, <4>3
    <3>7. CASE k <= p + r
      <4>1. p + r \notin B!Place /\ p - s \in B!Place /\ t + (p - s) = x
        BY <2>1, <3>1, <3>5, <3>7 DEF B!Place
      <4>2. p \notin w
        BY <2>4, <3>2, <4>1
      <4>3. b # B!Last => (p \in v <=> x \in X)
        BY <2>5, <3>3, <4>1
      <4>4. b = B!Last => x \notin X
        <5>1. b = B!Last => t = Base(B!Last + 1)
          OBVIOUS
        <5>2. t <= x /\ x \in Int /\ t \in Int
          BY <2>1, <3>1, <3>5, <3>7
        <5> HIDE DEF x, t
        <5> QED BY <5>1, <5>2
      <4> QED BY <2>6, <3>4, <4>2, <4>3, <4>4
    <3> QED BY <2>1, <3>1, <3>6, <3>7
  <2>9. z[b] \subseteq B!Place
    BY <2>6, <2>7
  <2> QED BY <2>8, <2>9
<1> DEFINE U == Down(X, r)
<1>3. \A b \in 0 .. B!Last : z[b] = {p \in B!Place : Base(b) + p \in U}
  BY <1>2
<1> HIDE DEF U, z
<1>4. z = B!Other(U)
  BY <1>1, <1>3, IsOther
<1> QED BY <1>4 DEF U, z

\* No position is behind the last block
LEMMA PositionsEnd ==
  ASSUME Bits \in Nat
  PROVE  Base(B!Last + 1) \in Nat /\ Bits <= Base(B!Last + 1)
<1>1. /\ B!Last \in Nat /\ Rest \in 0 .. BitsPerBlock - 1
      /\ Bits # 0 /\ Rest = 0 => Bits = Base(B!Last) + BitsPerBlock
      /\ Rest # 0 => Bits = Base(B!Last) + Rest
  BY LastIs
<1>2. Base(B!Last) \in Nat /\ Base(B!Last + 1) = Base(B!Last) + BitsPerBlock
  BY <1>1, BaseIs
<1>3. BitsPerBlock \in Nat \ {0}
  BY ArraysAssumption
<1> QED BY <1>1, <1>2, <1>3

\* >>= moves the ones down, and those that leave the bitset are lost
LEMMA BitsShiftedRight ==
  ASSUME BitsInv, NEW n \in Nat, B!RightShift(n)
  PROVE  BitsInv' /\ B!Becomes({p - n : p \in B!Ones} \cap B!Positions)
<1> DEFINE X == B!Ones
           k == n \div BitsPerBlock
           r == n % BitsPerBlock
           a == [b \in 0 .. B!Last |-> IF k <= B!Last - b THEN array[b + k] ELSE {}]
           U == Down(X, Base(k))
           z == WordsRight(a, r)
           T == Down(X, n) \cap B!Positions
           e == Base(B!Last + 1)
<1>1. array = B!Other(X) /\ X \subseteq B!Positions /\ Bits \in Nat
  BY BitsAre
<1>2. k \in Nat /\ r \in 0 .. BitsPerBlock - 1 /\ n = Base(k) + r
  BY PlaceInBlock DEF B!Place
<1>3. array' = z /\ UNCHANGED Bits
  BY DEF B!RightShift, WordsRight
<1>4. X \subseteq Nat /\ X \subseteq Int /\ Base(k) \in Nat
  BY <1>1, <1>2, BaseIs DEF B!Positions
<1>5. e \in Nat /\ \A x \in X : x < e
  <2>1. e \in Nat /\ Bits <= e
    BY <1>1, PositionsEnd
  <2> HIDE DEF e, X
  <2> QED BY <1>1, <2>1 DEF B!Positions
<1> HIDE DEF X, k, r
<1>6. a = B!Other(U)
  <2>1. a = [b \in 0 .. B!Last |-> a[b]]
    OBVIOUS
  <2>2. ASSUME NEW b \in 0 .. B!Last
        PROVE  a[b] = {p \in B!Place : Base(b) + p \in U}
    <3>1. B!Last \in Nat /\ b \in Nat
      BY <1>1, LastIs
    <3>2. Base(b) \in Nat /\ Base(b + k) = Base(b) + Base(k)
      <4>1. Base(b) \in Nat
        BY <3>1, BaseIs
      <4>2. b \in Int /\ k \in Int
        BY <1>2, <3>1
      <4> QED BY <4>1, <4>2, BaseAdds
    <3>3. ASSUME NEW p \in B!Place
          PROVE  Base(b) + p \in U <=> Base(b + k) + p \in X
      <4> DEFINE y == Base(b) + p
                 j == Base(k)
      <4>1. p \in Int /\ y \in Int /\ j \in Int
        BY <1>4, <3>2, ArraysAssumption DEF B!Place
      <4>2. HasDown(X, j, y)
        <5> HIDE DEF y, j
        <5> QED BY <1>4, <4>1, UpHas DEF y, j
      <4>3. y + j = Base(b + k) + p
        BY <1>4, <3>2, <4>1
      <4> QED BY <4>2, <4>3 DEF HasDown
    <3>4. CASE k <= B!Last - b
      <4> DEFINE c == b + k
      <4>1. c \in 0 .. B!Last /\ a[b] = array[c]
        BY <1>2, <3>1, <3>4
      <4> HIDE DEF c, a, U
      <4>2. array[c] = {p \in B!Place : Base(c) + p \in X}
        BY <1>1, <4>1, OtherHas
      <4> QED BY <3>3, <4>1, <4>2 DEF c
    <3>5. CASE ~(k <= B!Last - b)
      <4>1. B!Last + 1 <= b + k /\ B!Last + 1 \in Int /\ b + k \in Int
        BY <1>2, <3>1, <3>5
      <4>2. e <= Base(b + k)
        BY <4>1, BaseGrows
      <4>3. ASSUME NEW p \in B!Place
            PROVE  Base(b + k) + p \notin X
        <5>1. p \in Nat
          BY ArraysAssumption DEF B!Place
        <5>2. Base(b + k) \in Nat
          BY <1>4, <3>2
        <5> DEFINE x == Base(b + k)
        <5>3. e <= x + p /\ x + p \in Nat
          <6> HIDE DEF e, x
          <6> QED BY <1>5, <4>2, <5>1, <5>2 DEF x
        <5> DEFINE y == x + p
        <5> HIDE DEF y, e
        <5>4. y \notin X
          BY <1>5, <5>3 DEF y
        <5> QED BY <5>4 DEF y
      <4>4. a[b] = {}
        BY <3>5
      <4> QED BY <3>3, <4>3, <4>4
    <3> QED BY <3>4, <3>5
  <2> HIDE DEF a, U
  <2> QED BY <2>1, <2>2, IsOther
<1>7. U \subseteq Int /\ \A x \in U : x < e
  <2> DEFINE j == Base(k)
  <2> HIDE DEF e, j
  <2> QED BY <1>4, <1>5 DEF Down, j
<1> HIDE DEF a, U
<1>8. z = B!Other(Down(U, r))
  BY <1>1, <1>2, <1>6, <1>7, ShiftedRight
<1> HIDE DEF z, e
<1>9. Down(U, r) \cap B!Positions = T
  <2>1. ASSUME NEW x \in Int
        PROVE  x \in Down(U, r) <=> x \in Down(X, n)
    <3> DEFINE y == x + r
               j == Base(k)
    <3>1. y \in Int /\ j \in Int /\ y + j = x + n /\ r \in Int /\ n \in Int
      BY <1>2, <1>4
    <3>2. HasDown(U, r, x) /\ HasDown(X, n, x)
      BY <1>4, <1>7, <3>1, UpHas
    <3>3. HasDown(X, j, y)
      <4> HIDE DEF y, j
      <4> QED BY <1>4, <3>1, UpHas
    <3> QED BY <3>1, <3>2, <3>3 DEF HasDown, U
  <2>2. B!Positions \subseteq Int
    BY <1>1 DEF B!Positions
  <2> QED BY <2>1, <2>2
<1>10. z = B!Other(Down(U, r) \cap B!Positions)
  <2> DEFINE Q == Down(U, r)
             R == Q \cap B!Positions
  <2>1. Q \subseteq Int /\ \A x \in Q : x >= 0 => x \in B!Positions
    <3>1. \A x \in Q : \E y \in X : x = (y - Base(k)) - r
      BY DEF Down, U
    <3>2. \A y \in X : y \in Nat /\ y < Bits
      BY <1>1, <1>4 DEF B!Positions
    <3> DEFINE j == Base(k)
    <3>3. j \in Nat /\ r \in Nat
      BY <1>2, <1>4
    <3> HIDE DEF Q, j
    <3>4. \A x \in Q : x \in Int /\ x < Bits
      BY <1>1, <3>1, <3>2, <3>3 DEF j
    <3> QED BY <1>1, <3>4 DEF B!Positions
  <2> HIDE DEF Q
  <2>2. ASSUME NEW b \in 0 .. B!Last, NEW p \in B!Place
        PROVE  b * BitsPerBlock + p \in Q <=> b * BitsPerBlock + p \in R
    <3>1. Base(b) + p \in Nat
      BY <1>1, PlacesOfBlocks
    <3>2. b * BitsPerBlock = Base(b)
      BY ArraysAssumption, <1>1, LastIs DEF Base
    <3> DEFINE y == b * BitsPerBlock + p
    <3>3. y \in Nat
      BY <3>1, <3>2
    <3> HIDE DEF y
    <3>4. y \in Q <=> y \in R
      BY <2>1, <3>3
    <3> QED BY <3>4 DEF y
  <2> HIDE DEF R
  <2>3. B!Other(Q) = B!Other(R)
    BY <2>2, Zenon DEF B!Other
  <2> QED BY <1>8, <2>3 DEF Q, R
<1> HIDE DEF T
<1>11. array' = B!Other(T)
  BY <1>3, <1>9, <1>10
<1>12. T \subseteq B!Positions
  BY DEF T
<1>13. BitsInv' /\ B!Becomes(T)
  BY <1>3, <1>11, <1>12, BitsBecome
<1> QED BY <1>13 DEF X, T, Down

-----------------------------------------------------------------------------
(* Counting.                                                               *)

\* The instance of bitset counts as the library does, too
LEMMA SameCardinalityOfBits ==
  ASSUME NEW X
  PROVE  B!Cardinality(X) = Cardinality(X)
BY Zenon DEF B!Cardinality, Cardinality

\* What count(), any() and all() say, who look at blocks, is what test() says
\* of the single bits
BitsCounted ==
  /\ B!Count = B!Cardinality(B!Ones)
  /\ B!All <=> B!Ones = B!Positions

\* The place of a position
PlaceOfBit(pos) == << pos \div BitsPerBlock, pos % BitsPerBlock >>

\* There are as many ones in the blocks as there are positions of ones
LEMMA BitsCount ==
  ASSUME BitsInv
  PROVE  B!Count = B!Cardinality(B!Ones)
<1> DEFINE X == B!Ones
           C == {c \in (0 .. B!Last) \X B!Place : c[2] \in array[c[1]]}
           f == [pos \in X |-> PlaceOfBit(pos)]
<1>1. array = B!Other(X) /\ X \subseteq B!Positions /\ Bits \in Nat
  BY BitsAre
<1>2. B!Count = B!Cardinality(C)
  BY DEF B!Count
<1> HIDE DEF X
<1>3. \A b \in 0 .. B!Last : array[b] = {p \in B!Place : Base(b) + p \in X}
  BY <1>1, OtherHas
<1>4. ASSUME NEW pos \in X
      PROVE  /\ PlaceOfBit(pos) \in C
             /\ pos = Base(PlaceOfBit(pos)[1]) + PlaceOfBit(pos)[2]
  <2> DEFINE b == pos \div BitsPerBlock
             p == pos % BitsPerBlock
  <2>1. b \in 0 .. B!Last /\ p \in B!Place /\ pos = Base(b) + p
    BY <1>1, PositionInBlock
  <2> HIDE DEF b, p
  <2>2. p \in array[b]
    BY <1>3, <2>1
  <2>3. PlaceOfBit(pos) = << b, p >>
    BY DEF PlaceOfBit, b, p
  <2> QED BY <2>1, <2>2, <2>3
<1>5. ASSUME NEW c \in C
      PROVE  \E pos \in X : PlaceOfBit(pos) = c
  <2> DEFINE b == c[1]
             p == c[2]
             pos == Base(b) + p
  <2>1. b \in 0 .. B!Last /\ p \in B!Place /\ p \in array[b] /\ c = << b, p >>
    OBVIOUS
  <2> HIDE DEF b, p
  <2>2. pos \in X
    BY <1>3, <2>1
  <2>3. b \in Nat /\ pos \in Nat
    BY <1>1, <2>1, LastIs, PlacesOfBlocks
  <2> HIDE DEF pos
  <2>4. pos = Base(b) + p
    BY DEF pos
  <2>5. b = pos \div BitsPerBlock /\ p = pos % BitsPerBlock
    BY <2>1, <2>3, <2>4, PlaceInBlock
  <2> QED BY <2>1, <2>2, <2>5 DEF PlaceOfBit
<1> HIDE DEF C
<1>6. f \in Bijection(X, C)
  <2>1. f \in [X -> C]
    BY <1>4
  <2>2. \A x, y \in X : f[x] = f[y] => x = y
    BY <1>4
  <2>3. \A c \in C : \E x \in X : f[x] = c
    BY <1>5
  <2> HIDE DEF f
  <2> QED BY <2>1, <2>2, <2>3 DEF Bijection, Injection, Surjection, IsInjective
<1>7. ExistsBijection(X, C)
  BY <1>6 DEF ExistsBijection
<1>8. IsFiniteSet(X)
  <2>1. IsFiniteSet(0 .. Bits - 1)
    <3> DEFINE m == Bits - 1
    <3>1. m \in Int
      BY <1>1
    <3> HIDE DEF m
    <3>2. IsFiniteSet(0 .. m)
      BY <3>1, FS_Interval
    <3> QED BY <3>2 DEF m
  <2> QED BY <1>1, <2>1, FS_Subset DEF B!Positions
<1>9. Cardinality(X) = Cardinality(C)
  BY <1>7, <1>8, FS_Bijection
<1> QED BY <1>2, <1>9, SameCardinalityOfBits DEF X

\* All blocks are full, as far as they are used, when all positions are ones
LEMMA BitsFull ==
  ASSUME BitsInv
  PROVE  B!All <=> B!Ones = B!Positions
<1> DEFINE X == B!Ones
           n == B!Last
           r == Rest
           full == n - (IF r = 0 THEN 0 ELSE 1)
<1>1. array = B!Other(X) /\ X \subseteq B!Positions /\ Bits \in Nat
  BY BitsAre
<1>2. B!All <=> \/ Bits = 0
                \/ /\ \A b \in 0 .. full : array[b] = B!Place
                   /\ r = 0 \/ array[n] = 0 .. r - 1
  BY DEF B!All, Rest
<1> HIDE DEF X
<1>3. \A b \in 0 .. n : array[b] = {p \in B!Place : Base(b) + p \in X}
  BY <1>1, OtherHas
<1>4. n \in Nat /\ r \in 0 .. BitsPerBlock - 1
  BY <1>1, LastIs
<1>5. \A b \in 0 .. n, p \in B!Place :
        Base(b) + p \in B!Positions <=> Bits # 0 /\ (b < n \/ r = 0 \/ p < r)
  BY <1>1, PlacesOfBlocks
<1>6. B!Place = 0 .. BitsPerBlock - 1 /\ BitsPerBlock \in Nat \ {0}
  BY ArraysAssumption DEF B!Place
<1>7. CASE Bits = 0
  <2>1. B!Positions = {}
    BY <1>7 DEF B!Positions
  <2> QED BY <1>1, <1>2, <1>7, <2>1 DEF X
<1>8. ASSUME Bits # 0, X = B!Positions
      PROVE  B!All
  <2> HIDE DEF n, r
  <2>1. ASSUME NEW b \in 0 .. full
        PROVE  array[b] = B!Place
    <3>1. b \in 0 .. n /\ (b < n \/ r = 0)
      BY <1>4
    <3> QED BY <1>3, <1>5, <1>8, <3>1
  <2>2. r = 0 \/ array[n] = 0 .. r - 1
    <3>1. n \in 0 .. n
      BY <1>4
    <3>2. array[n] = {p \in B!Place : r = 0 \/ p < r}
      BY <1>3, <1>4, <1>5, <1>8, <3>1
    <3> QED BY <1>4, <1>6, <3>2
  <2> QED BY <1>2, <2>1, <2>2
<1>9. ASSUME Bits # 0, B!All
      PROVE  X = B!Positions
  <2> SUFFICES ASSUME NEW pos \in B!Positions
               PROVE  pos \in X
    BY <1>1
  <2> DEFINE b == pos \div BitsPerBlock
             p == pos % BitsPerBlock
  <2>1. b \in 0 .. n /\ p \in B!Place /\ pos = Base(b) + p
    BY <1>1, PositionInBlock
  <2> HIDE DEF b, p, n, r
  <2>2. b < n \/ r = 0 \/ p < r
    BY <1>5, <2>1
  <2>3. p \in array[b]
    <3>1. CASE b \in 0 .. full
      BY <1>2, <1>9, <2>1, <3>1
    <3>2. CASE b \notin 0 .. full
      <4>1. b = n /\ r # 0
        BY <1>4, <2>1, <3>2
      <4>2. array[n] = 0 .. r - 1 /\ p < r
        BY <1>2, <1>4, <1>9, <2>2, <4>1
      <4> QED BY <1>4, <1>6, <2>1, <4>1, <4>2
    <3> QED BY <3>1, <3>2
  <2> QED BY <1>3, <2>1, <2>3
<1> QED BY <1>7, <1>8, <1>9 DEF X

-----------------------------------------------------------------------------

\* In the beginning no bit is set
LEMMA BitsStart ==
  ASSUME B!Init
  PROVE  BitsInv
<1>1. array = B!Other({}) /\ Bits \in BitsetSizes
  BY DEF B!Init, B!Other
<1> QED BY <1>1 DEF BitsInv

\* Every operation keeps the bits in order
LEMMA BitsStep ==
  ASSUME BitsInv, B!Next
  PROVE  BitsInv' /\ UNCHANGED Bits
<1>1. ASSUME NEW o \in SUBSET B!Positions, B!And(o) \/ B!Or(o) \/ B!Xor(o)
      PROVE  BitsInv' /\ UNCHANGED Bits
  <2>1. BitsInv'
    BY <1>1, BitsMet, BitsJoined, BitsDiffering
  <2>2. UNCHANGED Bits
    BY <1>1 DEF B!And, B!Or, B!Xor, B!Combine
  <2> QED BY <2>1, <2>2
<1>2. ASSUME NEW n \in 0 .. Bits + 1, B!LeftShift(n) \/ B!RightShift(n)
      PROVE  BitsInv' /\ UNCHANGED Bits
  <2>1. n \in Nat
    BY BitsAre
  <2>2. BitsInv'
    BY <1>2, <2>1, BitsShiftedLeft, BitsShiftedRight
  <2>3. UNCHANGED Bits
    BY <1>2 DEF B!LeftShift, B!RightShift
  <2> QED BY <2>2, <2>3
<1>3. ASSUME B!SetAll \/ B!ResetAll \/ B!FlipAll
      PROVE  BitsInv' /\ UNCHANGED Bits
  <2>1. BitsInv'
    BY <1>3, BitsSet, BitsReset, BitsFlipped
  <2> QED BY <1>3, <2>1 DEF B!SetAll, B!ResetAll, B!FlipAll
<1>4. ASSUME NEW pos \in B!Positions, NEW STATE to, B!SetBit(pos, to)
      PROVE  BitsInv' /\ UNCHANGED Bits
  <2>1. BitsInv'
    BY <1>4, BitSet
  <2> QED BY <1>4, <2>1 DEF B!SetBit
<1>5. ASSUME NEW pos \in B!Positions, B!FlipBit(pos)
      PROVE  BitsInv' /\ UNCHANGED Bits
  <2> DEFINE to == ~B!Get(pos)
  <2>1. B!SetBit(pos, to)
    BY <1>5 DEF B!FlipBit
  <2> HIDE DEF to
  <2> QED BY <1>4, <2>1
<1>6. ASSUME NEW chars \in B!Strings, B!Construct(chars)
      PROVE  BitsInv' /\ UNCHANGED Bits
  <2>1. BitsInv'
    BY <1>6, BitsConstructed
  <2> QED BY <1>6, <2>1 DEF B!Construct
<1>7. ASSUME NEW val \in SUBSET B!Place, B!ConstructFromNumber(val)
      PROVE  BitsInv' /\ UNCHANGED Bits
  <2>1. BitsInv'
    BY <1>7, BitsNumbered
  <2> QED BY <1>7, <2>1 DEF B!ConstructFromNumber
<1> QED BY <1>1, <1>2, <1>3, <1>4, <1>5, <1>6, <1>7 DEF B!Next

\* What the operations do, they do to the set of the ones
LEMMA BitsAct ==
  ASSUME BitsInv, UNCHANGED Bits, BitsCounted'
  PROVE  B!Acting
<1>1. B!Count' = B!Cardinality(B!Ones') /\ (B!All' <=> B!Ones' = B!Positions)
  <2>1. B!Positions' = B!Positions
    BY DEF B!Positions
  <2> QED BY <2>1 DEF BitsCounted
<1>2. ASSUME NEW o \in SUBSET B!Positions
      PROVE  /\ B!And(o) => B!Becomes(B!Ones \cap o)
             /\ B!Or(o) => B!Becomes(B!Ones \cup o)
             /\ B!Xor(o) => B!Becomes((B!Ones \ o) \cup (o \ B!Ones))
  BY BitsMet, BitsJoined, BitsDiffering
<1>3. ASSUME NEW n \in 0 .. Bits + 1
      PROVE  /\ B!LeftShift(n) => B!Becomes({p + n : p \in B!Ones} \cap B!Positions)
             /\ B!RightShift(n) => B!Becomes({p - n : p \in B!Ones} \cap B!Positions)
  <2>1. n \in Nat
    BY BitsAre
  <2> QED BY <2>1, BitsShiftedLeft, BitsShiftedRight
<1>4. /\ B!SetAll => B!Becomes(B!Positions)
      /\ B!ResetAll => B!Becomes({})
      /\ B!FlipAll => B!Becomes(B!Positions \ B!Ones)
  BY BitsSet, BitsReset, BitsFlipped
<1>5. ASSUME NEW pos \in B!Positions
      PROVE  /\ B!SetBit(pos, TRUE) => B!Becomes(B!Ones \cup {pos})
             /\ B!SetBit(pos, FALSE) => B!Becomes(B!Ones \ {pos})
  <2>1. B!SetBit(pos, TRUE) =>
          B!Becomes(IF TRUE THEN B!Ones \cup {pos} ELSE B!Ones \ {pos})
    BY BitSet
  <2>2. B!SetBit(pos, FALSE) =>
          B!Becomes(IF FALSE THEN B!Ones \cup {pos} ELSE B!Ones \ {pos})
    BY BitSet
  <2> QED BY <2>1, <2>2
<1>6. ASSUME NEW chars \in B!Strings
      PROVE  B!Construct(chars) => B!Becomes(B!Written(chars))
  BY BitsConstructed
<1>7. ASSUME NEW val \in SUBSET B!Place
      PROVE  B!ConstructFromNumber(val) => B!Becomes(val \cap B!Positions)
  BY BitsNumbered
<1> QED BY <1>1, <1>2, <1>3, <1>4, <1>5, <1>6, <1>7 DEF B!Acting

\* Bits in order are of their type
LEMMA BitsAreTyped ==
  ASSUME BitsInv
  PROVE  B!TypeOK
BY DEF BitsInv, B!TypeOK, B!Other

-----------------------------------------------------------------------------
(* The list of a hash table.                                               *)

\* A list with no element twice
Once(list) ==
  /\ list \in Seq(Key)
  /\ \A i, j \in 1 .. Len(list) : list[i] = list[j] => i = j

\* An element is at one position
LEMMA PositionIs ==
  ASSUME NEW list, Once(list), NEW j \in 1 .. Len(list)
  PROVE  Position(list, list[j]) = j
<1>1. DOMAIN list = 1 .. Len(list)
  BY DEF Once
<1>2. \A i \in DOMAIN list : list[i] = list[j] <=> i = j
  BY <1>1 DEF Once
<1> QED BY <1>1, <1>2, Zenon DEF Position

\* list is old with k put in
Extends(list, old, k) ==
  /\ Once(list)
  /\ Len(list) = Len(old) + 1
  /\ ToSet(list) = ToSet(old) \cup {k}

LEMMA PutOnce ==
  ASSUME NEW list, Once(list), NEW k \in Key, k \notin ToSet(list),
         NEW p \in 1 .. Len(list) + 1
  PROVE  Extends(Put1(list, p, k), list, k)
<1> DEFINE n == Len(list)
           u == Put1(list, p, k)
<1>1. /\ n \in Nat /\ p \in 1 .. n + 1 /\ list \in [1 .. n -> Key]
      /\ \A i, j \in 1 .. n : list[i] = list[j] => i = j
  BY DEF Once
<1>2. u = [i \in 1 .. n + 1 |-> IF i < p THEN list[i] ELSE IF i = p THEN k ELSE list[i - 1]]
  BY DEF Put1
<1>3. \A i \in 1 .. n : list[i] # k
  BY <1>1 DEF ToSet
<1> HIDE DEF n, u
<1>4. u \in [1 .. n + 1 -> Key]
  BY <1>1, <1>2
<1>5. u \in Seq(Key) /\ Len(u) = n + 1
  BY <1>1, <1>4
<1>6. ASSUME NEW i \in 1 .. n + 1, NEW j \in 1 .. n + 1, u[i] = u[j]
      PROVE  i = j
  <2>1. CASE i = p \/ j = p
    BY <2>1, <1>1, <1>2, <1>3, <1>6
  <2>2. CASE i # p /\ j # p
    <3> DEFINE a == IF i < p THEN i ELSE i - 1
               b == IF j < p THEN j ELSE j - 1
    <3>1. a \in 1 .. n /\ b \in 1 .. n /\ (a = b => i = j)
      BY <2>2, <1>1
    <3>2. u[i] = list[a] /\ u[j] = list[b]
      BY <2>2, <1>2
    <3> HIDE DEF a, b
    <3> QED BY <3>1, <3>2, <1>1, <1>6
  <2> QED BY <2>1, <2>2
<1>7. Once(u)
  BY <1>5, <1>6 DEF Once
<1>8. ToSet(u) = ToSet(list) \cup {k}
  <2>1. ASSUME NEW i \in 1 .. n + 1
        PROVE  u[i] = k \/ \E j \in 1 .. n : u[i] = list[j]
    <3>1. CASE i < p
      BY <3>1, <1>1, <1>2
    <3>2. CASE i > p
      <4>1. i - 1 \in 1 .. n /\ u[i] = list[i - 1]
        BY <3>2, <1>1, <1>2
      <4> QED BY <4>1
    <3> QED BY <3>1, <3>2, <1>1, <1>2
  <2>2. ASSUME NEW j \in 1 .. n
        PROVE  \E i \in 1 .. n + 1 : u[i] = list[j]
    <3>1. CASE j < p
      BY <3>1, <1>1, <1>2
    <3>2. CASE j >= p
      <4>1. j + 1 \in 1 .. n + 1 /\ u[j + 1] = list[j]
        BY <3>2, <1>1, <1>2
      <4> QED BY <4>1
    <3> QED BY <3>1, <3>2, <1>1
  <2>3. p \in 1 .. n + 1 /\ u[p] = k
    BY <1>1, <1>2
  <2>4. DOMAIN u = 1 .. n + 1 /\ DOMAIN list = 1 .. n
    BY <1>1, <1>4
  <2>5. /\ \A x : x \in ToSet(u) <=> \E i \in 1 .. n + 1 : u[i] = x
        /\ \A x : x \in ToSet(list) <=> \E j \in 1 .. n : list[j] = x
    BY <2>4, Zenon DEF ToSet
  <2>6. ASSUME NEW x PROVE x \in ToSet(u) <=> x \in ToSet(list) \/ x = k
    BY <2>1, <2>2, <2>3, <2>5, ZenonT(60)
  <2> QED BY <2>6
<1> QED BY <1>5, <1>7, <1>8 DEF Extends, n, u

\* list is old without k
Lacks(list, old, k) ==
  /\ Once(list)
  /\ Len(list) = Len(old) - 1
  /\ ToSet(list) = ToSet(old) \ {k}

LEMMA CutOnce ==
  ASSUME NEW list, Once(list), NEW p \in 1 .. Len(list)
  PROVE  Lacks(Cut1(list, p), list, list[p])
<1> DEFINE n == Len(list)
           u == Cut1(list, p)
<1>1. /\ n \in Nat /\ n - 1 \in Nat /\ p \in 1 .. n /\ list \in [1 .. n -> Key]
      /\ \A i, j \in 1 .. n : list[i] = list[j] => i = j
  BY DEF Once
<1>2. u = [i \in 1 .. n - 1 |-> IF i < p THEN list[i] ELSE list[i + 1]]
  BY DEF Cut1
<1> HIDE DEF n, u
<1>4. u \in [1 .. n - 1 -> Key]
  <2>1. \A i \in 1 .. n - 1 : i \in 1 .. n /\ i + 1 \in 1 .. n
    BY <1>1
  <2> QED BY <1>1, <1>2, <2>1
<1>5. u \in Seq(Key) /\ Len(u) = n - 1
  BY <1>1, <1>4
<1>6. ASSUME NEW i \in 1 .. n - 1, NEW j \in 1 .. n - 1, u[i] = u[j]
      PROVE  i = j
  <2> DEFINE a == IF i < p THEN i ELSE i + 1
             b == IF j < p THEN j ELSE j + 1
  <2>1. a \in 1 .. n /\ b \in 1 .. n /\ (a = b => i = j)
    BY <1>1
  <2>2. u[i] = list[a] /\ u[j] = list[b]
    BY <1>2
  <2> HIDE DEF a, b
  <2> QED BY <2>1, <2>2, <1>1, <1>6
<1>7. Once(u)
  BY <1>5, <1>6 DEF Once
<1>8. ToSet(u) = ToSet(list) \ {list[p]}
  <2>1. ASSUME NEW i \in 1 .. n - 1
        PROVE  \E j \in 1 .. n : j # p /\ u[i] = list[j]
    <3>1. CASE i < p
      BY <3>1, <1>1, <1>2
    <3>2. CASE i >= p
      <4>1. i + 1 \in 1 .. n /\ i + 1 # p /\ u[i] = list[i + 1]
        BY <3>2, <1>1, <1>2
      <4> QED BY <4>1
    <3> QED BY <3>1, <3>2, <1>1
  <2>2. ASSUME NEW j \in 1 .. n, j # p
        PROVE  \E i \in 1 .. n - 1 : u[i] = list[j]
    <3>1. CASE j < p
      <4>1. j \in 1 .. n - 1 /\ u[j] = list[j]
        BY <3>1, <1>1, <1>2
      <4> QED BY <4>1
    <3>2. CASE j > p
      <4>1. j - 1 \in 1 .. n - 1 /\ ~ (j - 1 < p) /\ (j - 1) + 1 = j
        BY <3>2, <1>1
      <4>2. u[j - 1] = list[j]
        BY <4>1, <1>2
      <4> QED BY <4>1, <4>2
    <3> QED BY <2>2, <3>1, <3>2, <1>1
  <2>3. \A j \in 1 .. n : j # p <=> list[j] # list[p]
    BY <1>1
  <2>4. DOMAIN u = 1 .. n - 1 /\ DOMAIN list = 1 .. n
    BY <1>1, <1>4
  <2>5. /\ \A x : x \in ToSet(u) <=> \E i \in 1 .. n - 1 : u[i] = x
        /\ \A x : x \in ToSet(list) <=> \E j \in 1 .. n : list[j] = x
    BY <2>4, Zenon DEF ToSet
  <2>6. ASSUME NEW x PROVE x \in ToSet(u) <=> x \in ToSet(list) /\ x # list[p]
    <3>1. x \in ToSet(u) => x \in ToSet(list) /\ x # list[p]
      <4> SUFFICES ASSUME x \in ToSet(u) PROVE x \in ToSet(list) /\ x # list[p]
        OBVIOUS
      <4>1. PICK i \in 1 .. n - 1 : u[i] = x
        BY <2>5, Zenon
      <4>2. PICK j \in 1 .. n : j # p /\ u[i] = list[j]
        BY <2>1, Zenon
      <4> QED BY <4>1, <4>2, <2>3, <2>5, Zenon
    <3>2. x \in ToSet(list) /\ x # list[p] => x \in ToSet(u)
      BY <2>2, <2>5, Zenon
    <3> QED BY <3>1, <3>2
  <2> QED BY <2>6
<1> QED BY <1>5, <1>7, <1>8 DEF Lacks, n, u

-----------------------------------------------------------------------------
(* The elements of one bucket in the list.                                 *)

\* The elements of C are those from position f on, as many as b counts, and b
\* leads to the first
Chained(list, m, b, C, f) ==
  /\ b.count \in Nat /\ f \in 1 .. Len(list) + 1 /\ f + b.count <= Len(list) + 1
  /\ b.first = IF b.count = 0 THEN Null ELSE << m, list[f] >>
  /\ \A j \in 1 .. Len(list) : list[j] \in C <=> f <= j /\ j < f + b.count

Leads(list, m, b, C) == \E f \in 1 .. Len(list) + 1 : Chained(list, m, b, C, f)

\* An element of another bucket that is not put between them leaves them
\* together
LEMMA ChainedPut ==
  ASSUME NEW list, Once(list), NEW m, NEW b, NEW C, NEW f, Chained(list, m, b, C, f),
         NEW k \in Key, k \notin C, NEW p \in 1 .. Len(list) + 1,
         p <= f \/ p >= f + b.count
  PROVE  Leads(Put1(list, p, k), m, b, C)
<1> DEFINE n == Len(list)
           c == b.count
           u == Put1(list, p, k)
           g == IF p <= f THEN f + 1 ELSE f
<1>1. /\ n \in Nat /\ p \in 1 .. n + 1 /\ c \in Nat /\ f \in 1 .. n + 1 /\ f + c <= n + 1
      /\ p <= f \/ p >= f + c
      /\ b.first = IF c = 0 THEN Null ELSE << m, list[f] >>
      /\ \A j \in 1 .. n : list[j] \in C <=> f <= j /\ j < f + c
  BY DEF Once, Chained
<1>2. u = [i \in 1 .. n + 1 |-> IF i < p THEN list[i] ELSE IF i = p THEN k ELSE list[i - 1]]
  BY DEF Put1
<1>3. Len(u) = n + 1
  BY <1>1, <1>2
<1> HIDE DEF n, u, c
<1>4. g \in 1 .. n + 2 /\ g + c <= n + 2
  BY <1>1
<1>5. c # 0 => u[g] = list[f]
  BY <1>1, <1>2
<1>6. ASSUME NEW j \in 1 .. n + 1
      PROVE  u[j] \in C <=> g <= j /\ j < g + c
  <2>1. CASE j < p
    BY <2>1, <1>1, <1>2
  <2>2. CASE j = p
    BY <2>2, <1>1, <1>2
  <2>3. CASE j > p
    <3>1. j - 1 \in 1 .. n /\ u[j] = list[j - 1]
      BY <2>3, <1>1, <1>2
    <3>2. list[j - 1] \in C <=> f <= j - 1 /\ j - 1 < f + c
      BY <3>1, <1>1
    <3> QED BY <3>1, <3>2, <2>3, <1>1
  <2> QED BY <2>1, <2>2, <2>3, <1>1
<1>7. (n + 1) + 1 = n + 2
  BY <1>1
<1> HIDE DEF g
<1>8. Chained(u, m, b, C, g)
  BY <1>1, <1>3, <1>4, <1>5, <1>6, <1>7 DEF Chained, c
<1> QED BY <1>3, <1>4, <1>7, <1>8 DEF Leads, u

\* So does one of another bucket that is taken out
LEMMA ChainedCut ==
  ASSUME NEW list, Once(list), NEW m, NEW b, NEW C, Leads(list, m, b, C),
         NEW p \in 1 .. Len(list), list[p] \notin C
  PROVE  Leads(Cut1(list, p), m, b, C)
<1> PICK f \in 1 .. Len(list) + 1 : Chained(list, m, b, C, f)
  BY DEF Leads
<1> DEFINE n == Len(list)
           c == b.count
           u == Cut1(list, p)
           g == IF p < f THEN f - 1 ELSE f
<1>1. /\ n \in Nat /\ p \in 1 .. n /\ c \in Nat /\ f \in 1 .. n + 1 /\ f + c <= n + 1
      /\ b.first = IF c = 0 THEN Null ELSE << m, list[f] >>
      /\ \A j \in 1 .. n : list[j] \in C <=> f <= j /\ j < f + c
  BY DEF Once, Chained
<1>2. u = [i \in 1 .. n - 1 |-> IF i < p THEN list[i] ELSE list[i + 1]]
  BY DEF Cut1
<1>3. n - 1 \in Nat /\ Len(u) = n - 1 /\ (n - 1) + 1 = n
  BY <1>1, <1>2
<1>4. p < f \/ p >= f + c
  BY <1>1
<1> HIDE DEF n, u, c
<1>5. g \in 1 .. n /\ g + c <= n
  BY <1>1, <1>4
<1>6. c # 0 => u[g] = list[f]
  BY <1>1, <1>2, <1>4
<1>7. ASSUME NEW j \in 1 .. n - 1
      PROVE  u[j] \in C <=> g <= j /\ j < g + c
  <2>1. CASE j < p
    BY <2>1, <1>1, <1>2, <1>4, SMTT(30)
  <2>2. CASE j >= p
    <3>1. j + 1 \in 1 .. n /\ u[j] = list[j + 1]
      BY <2>2, <1>1, <1>2, SMTT(30)
    <3>2. list[j + 1] \in C <=> f <= j + 1 /\ j + 1 < f + c
      BY <3>1, <1>1
    <3> QED BY <3>1, <3>2, <2>2, <1>1, <1>4
  <2> QED BY <2>1, <2>2, <1>1
<1> HIDE DEF g
<1>8. Chained(u, m, b, C, g)
  BY <1>1, <1>3, <1>5, <1>6, <1>7 DEF Chained, c
<1> QED BY <1>3, <1>5, <1>8 DEF Leads, u

\* An element put in front of them leads them
LEMMA ChainedGrows ==
  ASSUME NEW list, Once(list), NEW m, NEW b, NEW C, NEW f, Chained(list, m, b, C, f),
         NEW k \in Key, k \notin ToSet(list)
  PROVE  Leads(Put1(list, f, k), m, Grown(b, m, k), C \cup {k})
<1> DEFINE n == Len(list)
           c == b.count
           u == Put1(list, f, k)
           g == Grown(b, m, k)
<1>1. /\ n \in Nat /\ c \in Nat /\ f \in 1 .. n + 1 /\ f + c <= n + 1
      /\ \A j \in 1 .. n : list[j] \in C <=> f <= j /\ j < f + c
  BY DEF Once, Chained
<1>2. u = [i \in 1 .. n + 1 |-> IF i < f THEN list[i] ELSE IF i = f THEN k ELSE list[i - 1]]
  BY DEF Put1
<1>3. Len(u) = n + 1
  BY <1>1, <1>2
<1>4. \A j \in 1 .. n : list[j] # k
  BY <1>1 DEF ToSet, Once
<1>5. g.count = c + 1 /\ g.first = << m, k >> /\ c + 1 \in Nat /\ c + 1 # 0
  BY <1>1 DEF Grown
<1> HIDE DEF n, u, c, g
<1>6. f \in 1 .. (n + 1) + 1 /\ f + (c + 1) <= (n + 1) + 1 /\ u[f] = k
  BY <1>1, <1>2
<1>7. ASSUME NEW j \in 1 .. n + 1
      PROVE  u[j] \in C \cup {k} <=> f <= j /\ j < f + (c + 1)
  <2>1. CASE j < f
    <3>1. j \in 1 .. n /\ u[j] = list[j]
      BY <2>1, <1>1, <1>2
    <3> QED BY <2>1, <3>1, <1>1, <1>4
  <2>2. CASE j = f
    BY <2>2, <1>1, <1>2
  <2>3. CASE j > f
    <3>1. j - 1 \in 1 .. n /\ u[j] = list[j - 1]
      BY <2>3, <1>1, <1>2
    <3>2. list[j - 1] \in C <=> f <= j - 1 /\ j - 1 < f + c
      BY <3>1, <1>1
    <3>3. list[j - 1] # k
      BY <3>1, <1>4
    <3> QED BY <3>1, <3>2, <3>3, <2>3, <1>1
  <2> QED BY <2>1, <2>2, <2>3, <1>1
<1>8. Chained(u, m, g, C \cup {k}, f)
  BY <1>3, <1>5, <1>6, <1>7 DEF Chained
<1> QED BY <1>3, <1>6, <1>8 DEF Leads, u, g

\* An element in the list of which a bucket has no others is a chain of one
LEMMA ChainedStarts ==
  ASSUME NEW list, Once(list), NEW m, NEW b, NEW C, Leads(list, m, b, C), b.count = 0,
         NEW p \in 1 .. Len(list)
  PROVE  Leads(list, m, Grown(b, m, list[p]), C \cup {list[p]})
<1> DEFINE n == Len(list)
           g == Grown(b, m, list[p])
<1>1. /\ n \in Nat /\ p \in 1 .. n
      /\ \A i, j \in 1 .. n : list[i] = list[j] => i = j
  BY DEF Once
<1>2. \A j \in 1 .. n : list[j] \notin C
  BY DEF Leads, Chained
<1>3. g.count = 1 /\ g.first = << m, list[p] >>
  BY DEF Grown
<1> HIDE DEF n, g
<1>4. \A j \in 1 .. n : list[j] \in C \cup {list[p]} <=> p <= j /\ j < p + 1
  BY <1>1, <1>2
<1>5. 1 \in Nat /\ p \in 1 .. n + 1 /\ p + 1 <= n + 1
  BY <1>1
<1>6. Chained(list, m, g, C \cup {list[p]}, p)
  BY <1>3, <1>4, <1>5 DEF Chained, n
<1> QED BY <1>5, <1>6 DEF Leads, n, g

\* The bucket b after the element of position p is gone
Left(list, m, b, p) ==
  [count |-> b.count - 1,
   first |-> IF b.first # << m, list[p] >> THEN b.first
             ELSE IF b.count = 1 THEN Null ELSE << m, list[p + 1] >>]

LEMMA ChainedShrinks ==
  ASSUME NEW list, Once(list), NEW m, NEW b, NEW C, Leads(list, m, b, C),
         NEW p \in 1 .. Len(list), list[p] \in C
  PROVE  /\ b.count - 1 \in Nat
         /\ Leads(Cut1(list, p), m, Left(list, m, b, p), C)
<1> PICK f \in 1 .. Len(list) + 1 : Chained(list, m, b, C, f)
  BY DEF Leads
<1> DEFINE n == Len(list)
           c == b.count
           u == Cut1(list, p)
           g == Left(list, m, b, p)
<1>1. /\ n \in Nat /\ p \in 1 .. n /\ c \in Nat /\ f \in 1 .. n + 1 /\ f + c <= n + 1
      /\ b.first = IF c = 0 THEN Null ELSE << m, list[f] >>
      /\ \A j \in 1 .. n : list[j] \in C <=> f <= j /\ j < f + c
      /\ \A i, j \in 1 .. n : list[i] = list[j] => i = j
  BY DEF Once, Chained
<1>2. u = [i \in 1 .. n - 1 |-> IF i < p THEN list[i] ELSE list[i + 1]]
  BY DEF Cut1
<1>3. n - 1 \in Nat /\ Len(u) = n - 1 /\ (n - 1) + 1 = n
  BY <1>1, <1>2
<1>4. p >= f /\ p < f + c
  BY <1>1
<1>5. /\ g.count = c - 1
      /\ g.first = IF b.first # << m, list[p] >> THEN b.first
                   ELSE IF c = 1 THEN Null ELSE << m, list[p + 1] >>
  BY DEF Left
<1> HIDE DEF n, u, c, g
<1>6. c - 1 \in Nat /\ f \in 1 .. n /\ f + (c - 1) <= n /\ f \in 1 .. (n - 1) + 1
  BY <1>1, <1>4
<1>7. g.first = IF c - 1 = 0 THEN Null ELSE << m, u[f] >>
  <2>1. CASE p = f
    <3>1. g.first = IF c = 1 THEN Null ELSE << m, list[f + 1] >>
      BY <2>1, <1>1, <1>4, <1>5
    <3>2. c # 1 => f \in 1 .. n - 1
      BY <2>1, <1>1, <1>4
    <3>3. c # 1 => u[f] = list[f + 1]
      BY <2>1, <3>2, <1>2
    <3>4. c - 1 = 0 <=> c = 1
      BY <1>1
    <3> QED BY <3>1, <3>3, <3>4
  <2>2. CASE p > f
    <3>1. list[f] # list[p] /\ c # 0 /\ c - 1 # 0
      BY <2>2, <1>1, <1>4
    <3>2. g.first = << m, list[f] >>
      BY <3>1, <1>1, <1>5
    <3>3. u[f] = list[f]
      BY <2>2, <1>1, <1>2
    <3> QED BY <3>1, <3>2, <3>3
  <2> QED BY <2>1, <2>2, <1>1, <1>4
<1>8. ASSUME NEW j \in 1 .. n - 1
      PROVE  u[j] \in C <=> f <= j /\ j < f + (c - 1)
  <2>1. CASE j < p
    BY <2>1, <1>1, <1>2, <1>4
  <2>2. CASE j >= p
    <3>1. j + 1 \in 1 .. n /\ u[j] = list[j + 1]
      BY <2>2, <1>1, <1>2, SMTT(30)
    <3>2. list[j + 1] \in C <=> f <= j + 1 /\ j + 1 < f + c
      BY <3>1, <1>1
    <3> QED BY <3>1, <3>2, <2>2, <1>1, <1>4
  <2> QED BY <2>1, <2>2, <1>1
<1>9. Chained(u, m, g, C, f)
  BY <1>3, <1>5, <1>6, <1>7, <1>8 DEF Chained
<1> QED BY <1>3, <1>6, <1>9 DEF Leads, u, g, c

-----------------------------------------------------------------------------
(* A table.                                                                *)

\* A table of n buckets
IsTable(t, n) ==
  /\ t = [list |-> t.list, buckets |-> t.buckets]
  /\ Once(t.list)
  /\ t.buckets \in [0 .. n - 1 -> Bucket]

\* The keys of P that belong to bucket i of n
Class(n, P, i) == {k \in P : Hash[k] % n = i}

\* Every bucket leads to those of its elements that are in P
Leading(list, buckets, m, n, P) ==
  \A i \in 0 .. n - 1 : Leads(list, m, buckets[i], Class(n, P, i))

LEMMA BucketCountIs ==
  ASSUME NEW t, NEW n \in Nat, IsTable(t, n)
  PROVE  BucketCount(t) = n /\ DOMAIN t.buckets = 0 .. n - 1
<1>1. DOMAIN t.buckets = 0 .. n - 1
  BY DEF IsTable
<1>2. Cardinality(0 .. n - 1) = n
  <2>1. n - 1 \in Int /\ (n - 1) - 0 + 1 = n /\ (n = 0 <=> 0 > n - 1)
    OBVIOUS
  <2> DEFINE h == n - 1
  <2>2. h \in Int /\ h - 0 + 1 = n /\ (n = 0 <=> 0 > h)
    BY <2>1
  <2> HIDE DEF h
  <2>3. Cardinality(0 .. h) = n
    BY <2>2, FS_Interval
  <2> QED BY <2>3 DEF h
<1> QED BY <1>1, <1>2 DEF BucketCount

LEMMA BucketOfIs ==
  ASSUME NEW t, NEW n \in Nat \ {0}, IsTable(t, n), NEW k \in Key
  PROVE  /\ BucketOf(t, k) = Hash[k] % n
         /\ Hash[k] % n \in 0 .. n - 1
<1>1. BucketCount(t) = n
  BY BucketCountIs
<1>2. Hash[k] \in Nat
  BY TableAssumption
<1>3. \A a \in Nat : a % n \in 0 .. n - 1
  OBVIOUS
<1> QED BY <1>1, <1>2, <1>3 DEF BucketOf

\* Buckets without elements lead to none
LEMMA BlankLeads ==
  ASSUME NEW list, Once(list), NEW m, NEW n \in Nat, NEW P,
         \A j \in 1 .. Len(list) : list[j] \notin P
  PROVE  /\ Blank(n) \in [0 .. n - 1 -> Bucket]
         /\ Leading(list, Blank(n), m, n, P)
<1>1. [count |-> 0, first |-> Null] \in Bucket
  BY DEF Bucket, Pointer
<1>2. Blank(n) \in [0 .. n - 1 -> Bucket]
  BY <1>1 DEF Blank
<1>3. ASSUME NEW i \in 0 .. n - 1
      PROVE  Leads(list, m, Blank(n)[i], Class(n, P, i))
  <2> DEFINE b == Blank(n)[i]
             C == Class(n, P, i)
  <2>1. b.count = 0 /\ b.first = Null
    BY DEF Blank
  <2>2. \A j \in 1 .. Len(list) : list[j] \notin C
    BY DEF Class
  <2>3. Len(list) \in Nat
    BY DEF Once
  <2> HIDE DEF b, C
  <2>4. 1 \in 1 .. Len(list) + 1 /\ 1 + 0 <= Len(list) + 1
    BY <2>3
  <2>5. \A j \in 1 .. Len(list) : ~ (1 <= j /\ j < 1 + 0)
    OBVIOUS
  <2>6. Chained(list, m, b, C, 1)
    BY <2>1, <2>2, <2>4, <2>5 DEF Chained
  <2> QED BY <2>4, <2>6 DEF Leads, b, C
<1> QED BY <1>2, <1>3 DEF Leading

\* list and buckets are old and those of before with k, which is in bucket i
Linked(list, buckets, before, m, n, i, k, P) ==
  /\ buckets = [before EXCEPT ![i] = Grown(@, m, k)]
  /\ buckets \in [0 .. n - 1 -> Bucket]
  /\ Leading(list, buckets, m, n, P \cup {k})

\* Counting an element that leads its bucket
LEMMA LinkedIs ==
  ASSUME NEW m \in Table, NEW n \in Nat \ {0}, NEW k \in Key, NEW list, NEW P,
         NEW before \in [0 .. n - 1 -> Bucket],
         Leads(list, m, Grown(before[Hash[k] % n], m, k),
               Class(n, P, Hash[k] % n) \cup {k}),
         \A i \in 0 .. n - 1 : i # Hash[k] % n =>
            Leads(list, m, before[i], Class(n, P, i))
  PROVE  Linked(list, [before EXCEPT ![Hash[k] % n] = Grown(@, m, k)], before, m, n,
                Hash[k] % n, k, P)
<1> DEFINE h == Hash[k] % n
           b == [before EXCEPT ![h] = Grown(@, m, k)]
<1>1. h \in 0 .. n - 1
  <2>1. Hash[k] \in Nat
    BY TableAssumption
  <2>2. \A a \in Nat : a % n \in 0 .. n - 1
    OBVIOUS
  <2> QED BY <2>1, <2>2
<1>2. /\ Class(n, P \cup {k}, h) = Class(n, P, h) \cup {k}
      /\ \A i : i # h => Class(n, P \cup {k}, i) = Class(n, P, i)
  BY Zenon DEF Class
<1>3. /\ Leads(list, m, Grown(before[h], m, k), Class(n, P, h) \cup {k})
      /\ \A i \in 0 .. n - 1 : i # h => Leads(list, m, before[i], Class(n, P, i))
  OBVIOUS
<1> HIDE DEF h
<1>4. Grown(before[h], m, k) \in Bucket
  <2>1. before[h] \in Bucket
    BY <1>1
  <2>2. before[h].count + 1 \in Nat
    BY <2>1 DEF Bucket
  <2>3. << m, k >> \in Pointer
    BY DEF Pointer
  <2> QED BY <2>2, <2>3 DEF Grown, Bucket
<1>5. /\ b \in [0 .. n - 1 -> Bucket]
      /\ \A i \in 0 .. n - 1 : b[i] = IF i = h THEN Grown(before[h], m, k) ELSE before[i]
  BY <1>1, <1>4
<1>6. b = [before EXCEPT ![h] = Grown(@, m, k)]
  OBVIOUS
<1> HIDE DEF b
<1>7. ASSUME NEW i \in 0 .. n - 1
      PROVE  Leads(list, m, b[i], Class(n, P \cup {k}, i))
  <2>1. CASE i = h
    BY <2>1, <1>1, <1>2, <1>3, <1>5
  <2>2. CASE i # h
    BY <2>2, <1>2, <1>3, <1>5
  <2> QED BY <2>1, <2>2
<1>8. Leading(list, b, m, n, P \cup {k})
  BY <1>7 DEF Leading
<1> QED BY <1>5, <1>6, <1>8 DEF Linked, b, h

\* A new element put in where its bucket begins, or behind all others if the
\* bucket has none
LEMMA PutLinked ==
  ASSUME NEW m \in Table, NEW n \in Nat \ {0}, NEW k \in Key,
         NEW list, Once(list), k \notin ToSet(list), NEW P,
         NEW before \in [0 .. n - 1 -> Bucket], Leading(list, before, m, n, P),
         NEW f \in 1 .. Len(list) + 1,
         Chained(list, m, before[Hash[k] % n], Class(n, P, Hash[k] % n), f),
         before[Hash[k] % n].count = 0 => f = Len(list) + 1
  PROVE  Linked(Put1(list, f, k), [before EXCEPT ![Hash[k] % n] = Grown(@, m, k)],
                before, m, n, Hash[k] % n, k, P)
<1> DEFINE h == Hash[k] % n
           b == before[h]
           u == Put1(list, f, k)
<1>1. Leads(u, m, Grown(b, m, k), Class(n, P, h) \cup {k})
  BY ChainedGrows
<1>2. ASSUME NEW i \in 0 .. n - 1, i # h
      PROVE  Leads(u, m, before[i], Class(n, P, i))
  <2> DEFINE c == before[i]
  <2>1. PICK g \in 1 .. Len(list) + 1 : Chained(list, m, c, Class(n, P, i), g)
    BY DEF Leading, Leads
  <2>2. k \notin Class(n, P, i)
    BY <1>2 DEF Class
  <2>3. f <= g \/ f >= g + c.count
    <3>1. CASE b.count = 0
      <4>1. f = Len(list) + 1
        BY <3>1
      <4>2. Len(list) \in Nat /\ c.count \in Nat /\ g + c.count <= Len(list) + 1
        BY <2>1 DEF Chained, Once
      <4> QED BY <4>1, <4>2
    <3>2. CASE b.count # 0
      <4>1. /\ b.count \in Nat /\ f + b.count <= Len(list) + 1 /\ Len(list) \in Nat
            /\ \A j \in 1 .. Len(list) :
                 list[j] \in Class(n, P, h) <=> f <= j /\ j < f + b.count
        BY DEF Chained, Once
      <4>2. f \in 1 .. Len(list) /\ f <= f /\ f < f + b.count
        BY <3>2, <4>1, SMTT(30)
      <4>3. list[f] \in Class(n, P, h)
        BY <4>1, <4>2
      <4>4. list[f] \notin Class(n, P, i)
        BY <4>3, <1>2 DEF Class
      <4>5. ~ (g <= f /\ f < g + c.count)
        BY <4>2, <4>4, <2>1 DEF Chained
      <4>6. c.count \in Nat
        BY <2>1 DEF Chained
      <4> QED BY <4>5, <4>6, <2>1
    <3> QED BY <3>1, <3>2
  <2> HIDE DEF c
  <2>4. Leads(u, m, c, Class(n, P, i))
    <3> HIDE DEF u
    <3>1. Leads(Put1(list, f, k), m, c, Class(n, P, i))
      BY <2>1, <2>2, <2>3, ChainedPut
    <3> QED BY <3>1 DEF u
  <2> QED BY <2>4 DEF c
<1> HIDE DEF u
<1>3. Linked(u, [before EXCEPT ![h] = Grown(@, m, k)], before, m, n, h, k, P)
  BY <1>1, <1>2, LinkedIs
<1> QED BY <1>3 DEF u

-----------------------------------------------------------------------------
(* Rehashing.                                                              *)

\* Linking an element in front of that of position f puts it there
LEMMA LinkBeforeIs ==
  ASSUME NEW list, Once(list), NEW f \in 1 .. Len(list), NEW k \in Key
  PROVE  LinkBefore(list, list[f], k) = Put1(list, f, k)
<1>1. Position(list, list[f]) = f
  BY PositionIs
<1>2. list \in Seq(Key) /\ f \in 1 .. Len(list) + 1
  BY DEF Once
<1>3. InsertAt(list, f, k) = Put1(list, f, k)
  BY <1>2, InsertingAt
<1> QED BY <1>1, <1>3 DEF LinkBefore

\* A bucket leads to nodes of its own table
LEMMA LeadsOwn ==
  ASSUME NEW list, Once(list), NEW m \in Table, NEW b, NEW C, Leads(list, m, b, C)
  PROVE  /\ b.count \in Nat
         /\ b.first = Null \/ \E k \in Key : b.first = << m, k >>
         /\ b.first \in Pointer
<1>1. PICK f \in 1 .. Len(list) + 1 : Chained(list, m, b, C, f)
  BY DEF Leads
<1>2. b.count \in Nat /\ f + b.count <= Len(list) + 1 /\ Len(list) \in Nat
  BY <1>1 DEF Chained, Once
<1>3. b.first = Null \/ \E k \in Key : b.first = << m, k >>
  <2>1. CASE b.count = 0
    BY <2>1, <1>1 DEF Chained
  <2>2. CASE b.count # 0
    <3>1. f \in 1 .. Len(list)
      BY <2>2, <1>2
    <3>2. list[f] \in Key
      BY <3>1 DEF Once
    <3>3. b.first = << m, list[f] >>
      BY <2>2, <1>1 DEF Chained
    <3> QED BY <3>2, <3>3
  <2> QED BY <2>1, <2>2
<1>4. b.first \in Pointer
  <2>1. CASE b.first = Null
    BY <2>1 DEF Pointer
  <2>2. CASE \E k \in Key : b.first = << m, k >>
    <3>1. PICK k \in Key : b.first = << m, k >>
      BY <2>2
    <3> QED BY <3>1 DEF Pointer
  <2> QED BY <2>1, <2>2, <1>3
<1> QED BY <1>2, <1>3, <1>4

\* list holds what old does, in another order
Reordered(list, old) == Once(list) /\ Len(list) = Len(old) /\ ToSet(list) = ToSet(old)

\* A turn of the loop of _force_rehash leads the next node's bucket to it
LEMMA Remapped ==
  ASSUME NEW m \in Table, NEW n \in Nat \ {0}, NEW t, IsTable(t, n), NEW P,
         Leading(t.list, t.buckets, m, n, P),
         NEW k \in ToSet(t.list), k \notin P
  PROVE  /\ IsTable(Remap(t, m, k), n)
         /\ Reordered(Remap(t, m, k).list, t.list)
         /\ Leading(Remap(t, m, k).list, Remap(t, m, k).buckets, m, n, P \cup {k})
<1> DEFINE list == t.list
           h == Hash[k] % n
           b == t.buckets[h]
           r == Remap(t, m, k)
<1>1. Once(list) /\ t.buckets \in [0 .. n - 1 -> Bucket]
  BY DEF IsTable
<1>2. PICK p \in 1 .. Len(list) : list[p] = k
  <2>1. DOMAIN list = 1 .. Len(list)
    BY <1>1 DEF Once
  <2> QED BY <2>1 DEF ToSet
<1>3. k \in Key /\ Position(list, k) = p
  <2>1. k \in Key
    BY <1>1, <1>2 DEF Once
  <2> QED BY <2>1, <1>1, <1>2, PositionIs
<1>4. BucketOf(t, k) = h /\ h \in 0 .. n - 1
  BY <1>3, BucketOfIs
<1> DEFINE moved == IF b.count = 0 THEN list
                    ELSE LinkBefore(RemoveAt(list, p), b.first[2], k)
           grown == [t.buckets EXCEPT ![h] = Grown(@, m, k)]
<1>5. r = [list |-> moved, buckets |-> grown]
  BY <1>3, <1>4, SMTT(30) DEF Remap
<1>6. Reordered(moved, list) /\ Linked(moved, grown, t.buckets, m, n, h, k, P)
  <2>1. CASE b.count = 0
    <3>1. moved = list
      BY <2>1
    <3>2. Leads(list, m, b, Class(n, P, h))
      BY <1>4 DEF Leading
    <3>3. Leads(list, m, Grown(b, m, k), Class(n, P, h) \cup {k})
      <4> HIDE DEF list, b
      <4> QED BY <2>1, <3>2, <1>1, <1>2, ChainedStarts
    <3>4. \A i \in 0 .. n - 1 : i # h => Leads(list, m, t.buckets[i], Class(n, P, i))
      BY DEF Leading
    <3>5. Linked(list, grown, t.buckets, m, n, h, k, P)
      <4> HIDE DEF list
      <4> QED BY <3>3, <3>4, <1>1, <1>3, LinkedIs
    <3> QED BY <3>1, <3>5, <1>1 DEF Reordered
  <2>2. CASE b.count # 0
    <3> DEFINE cut == Cut1(list, p)
    <3>1. RemoveAt(list, p) = cut
      BY <1>1, RemovingAt DEF Once
    <3>2. Lacks(cut, list, k)
      BY <1>1, <1>2, CutOnce
    <3>3. Once(cut) /\ Len(cut) = Len(list) - 1 /\ ToSet(cut) = ToSet(list) \ {k}
      BY <3>2 DEF Lacks
    <3>4. ASSUME NEW i \in 0 .. n - 1
          PROVE  Leads(cut, m, t.buckets[i], Class(n, P, i))
      <4>1. list[p] \notin Class(n, P, i)
        BY <1>2 DEF Class
      <4>2. Leads(list, m, t.buckets[i], Class(n, P, i))
        BY DEF Leading
      <4> QED BY <4>1, <4>2, <1>1, ChainedCut
    <3> HIDE DEF cut
    <3>5. Leading(cut, t.buckets, m, n, P)
      BY <3>4 DEF Leading
    <3>6. PICK f \in 1 .. Len(cut) + 1 : Chained(cut, m, b, Class(n, P, h), f)
      BY <3>4, <1>4 DEF Leads
    <3>7. f \in 1 .. Len(cut) /\ b.first[2] = cut[f]
      <4>1. /\ b.count \in Nat /\ f + b.count <= Len(cut) + 1 /\ Len(cut) \in Nat
            /\ b.first = << m, cut[f] >>
        BY <2>2, <3>3, <3>6 DEF Chained, Once
      <4> QED BY <2>2, <4>1, SMTT(30)
    <3>8. moved = Put1(cut, f, k)
      BY <2>2, <3>1, <3>3, <3>7, <1>3, LinkBeforeIs
    <3>9. k \notin ToSet(cut)
      BY <3>3
    <3>10. Linked(Put1(cut, f, k), grown, t.buckets, m, n, h, k, P)
      BY <2>2, <3>3, <3>5, <3>6, <3>9, <1>1, <1>3, PutLinked
    <3>11. Extends(Put1(cut, f, k), cut, k)
      BY <3>3, <3>9, <1>3, PutOnce
    <3>12. Reordered(Put1(cut, f, k), list)
      <4>1. Len(list) \in Nat /\ ToSet(cut) \cup {k} = ToSet(list)
        BY <3>3, <1>1 DEF Once
      <4> QED BY <4>1, <3>3, <3>11 DEF Extends, Reordered
    <3> QED BY <3>8, <3>10, <3>12
  <2> QED BY <2>1, <2>2
<1>7. r.list = moved /\ r.buckets = grown /\ r = [list |-> r.list, buckets |-> r.buckets]
  BY <1>5
<1> HIDE DEF r, moved, grown, list
<1>8. IsTable(r, n)
  BY <1>6, <1>7 DEF IsTable, Reordered, Linked
<1>9. Leading(r.list, r.buckets, m, n, P \cup {k})
  BY <1>6, <1>7 DEF Linked
<1> QED BY <1>6, <1>7, <1>8, <1>9 DEF r, list

\* f[j] is the table after j turns of the loop
Turns(f, t, m, n, l) ==
  f = [j \in 0 .. l |-> IF j = 0 THEN [list |-> t.list, buckets |-> Blank(n)]
                        ELSE Remap(f[j - 1], m, t.list[j])]

LEMMA TurnsExist ==
  ASSUME NEW t, NEW m, NEW n, NEW l \in Nat
  PROVE  \E f : Turns(f, t, m, n, l)
<1> DEFINE v == [list |-> t.list, buckets |-> Blank(n)]
           Turn(u, k) == Remap(u, m, t.list[k])
           T == {i \in Nat : \E f : f = [k \in 0 .. i |-> IF k = 0 THEN v ELSE Turn(f[k - 1], k)]}
<1> HIDE DEF Turn, v
<1>1. 0 \in T
  <2> DEFINE f == [k \in 0 .. 0 |-> v]
  <2>1. f = [k \in 0 .. 0 |-> IF k = 0 THEN v ELSE Turn(f[k - 1], k)]
    OBVIOUS
  <2> QED BY <2>1
<1>2. ASSUME NEW i \in Nat, i \in T
      PROVE  i + 1 \in T
  <2>1. PICK f : f = [k \in 0 .. i |-> IF k = 0 THEN v ELSE Turn(f[k - 1], k)]
    BY <1>2
  <2> DEFINE g == [k \in 0 .. i + 1 |-> IF k = 0 THEN v
                                        ELSE IF k = i + 1 THEN Turn(f[i], i + 1) ELSE f[k]]
  <2>2. ASSUME NEW k \in 0 .. i + 1
        PROVE  g[k] = IF k = 0 THEN v ELSE Turn(g[k - 1], k)
    <3>1. CASE k = 0
      BY <3>1
    <3>2. CASE k # 0
      <4>1. k - 1 \in 0 .. i /\ k - 1 \in 0 .. i + 1 /\ k - 1 # i + 1
        BY <3>2
      <4>2. f[k - 1] = g[k - 1]
        BY <2>1, <4>1
      <4>3. CASE k = i + 1
        BY <3>2, <4>2, <4>3
      <4>4. CASE k # i + 1
        <5>1. k \in 0 .. i
          BY <4>4
        <5> QED BY <2>1, <3>2, <4>2, <4>4, <5>1
      <4> QED BY <4>3, <4>4
    <3> QED BY <3>1, <3>2
  <2>3. g = [k \in 0 .. i + 1 |-> IF k = 0 THEN v ELSE Turn(g[k - 1], k)]
    <3>1. g = [k \in 0 .. i + 1 |-> g[k]]
      OBVIOUS
    <3> HIDE DEF g
    <3> QED BY <2>2, <3>1
  <2> HIDE DEF g
  <2> QED BY <2>3
<1> HIDE DEF T
<1>3. l \in T
  BY <1>1, <1>2, Induct
<1> QED BY <1>3 DEF T, Turn, v, Turns

\* Buckets that lead to all elements of the list
LEMMA LeadingAll ==
  ASSUME NEW list, Once(list), NEW buckets, NEW m, NEW n, NEW P,
         Leading(list, buckets, m, n, P), P = ToSet(list)
  PROVE  Leading(list, buckets, m, n, Key)
<1>1. ASSUME NEW i \in 0 .. n - 1
      PROVE  Leads(list, m, buckets[i], Class(n, Key, i))
  <2>1. PICK f \in 1 .. Len(list) + 1 : Chained(list, m, buckets[i], Class(n, P, i), f)
    BY DEF Leading, Leads
  <2>2. ASSUME NEW j \in 1 .. Len(list)
        PROVE  list[j] \in Class(n, P, i) <=> list[j] \in Class(n, Key, i)
    <3>1. list[j] \in P /\ list[j] \in Key
      BY DEF Once, ToSet
    <3> QED BY <3>1 DEF Class
  <2>3. Chained(list, m, buckets[i], Class(n, Key, i), f)
    BY <2>1, <2>2 DEF Chained
  <2> QED BY <2>3 DEF Leads
<1> QED BY <1>1 DEF Leading

\* _force_rehash leads n buckets to all elements, whatever buckets there were
LEMMA Rehashed ==
  ASSUME NEW m \in Table, NEW n \in Nat \ {0}, NEW t, NEW o \in Nat, IsTable(t, o)
  PROVE  /\ IsTable(ForceRehash(t, m, n), n)
         /\ Reordered(ForceRehash(t, m, n).list, t.list)
         /\ Leading(ForceRehash(t, m, n).list, ForceRehash(t, m, n).buckets, m, n, Key)
<1> DEFINE l == Len(t.list)
           f == CHOOSE f : f = [j \in 0 .. l |->
                                  IF j = 0 THEN [list |-> t.list, buckets |-> Blank(n)]
                                  ELSE Remap(f[j - 1], m, t.list[j])]
           First(j) == {t.list[i] : i \in 1 .. j}
           Done(u, j) == /\ IsTable(u, n) /\ Reordered(u.list, t.list)
                         /\ Leading(u.list, u.buckets, m, n, First(j))
<1>1. Once(t.list) /\ l \in Nat
  BY DEF IsTable, Once
<1>2. ForceRehash(t, m, n) = f[l]
  BY Zenon DEF ForceRehash
<1>3. Turns(f, t, m, n, l)
  <2> HIDE DEF l
  <2>1. \E g : Turns(g, t, m, n, l)
    BY <1>1, TurnsExist
  <2> QED BY <2>1, Zenon DEF Turns
<1> HIDE DEF f
<1> DEFINE T == {j \in Nat : j <= l => Done(f[j], j)}
<1>4. 0 \in T
  <2> DEFINE u == [list |-> t.list, buckets |-> Blank(n)]
  <2>1. f[0] = u
    BY <1>1, <1>3 DEF Turns
  <2>2. /\ u.list = t.list /\ u.buckets = Blank(n)
        /\ u = [list |-> u.list, buckets |-> u.buckets]
    OBVIOUS
  <2>3. First(0) = {}
    OBVIOUS
  <2> HIDE DEF First
  <2>4. /\ Blank(n) \in [0 .. n - 1 -> Bucket]
        /\ Leading(t.list, Blank(n), m, n, First(0))
    BY <2>3, <1>1, BlankLeads
  <2> HIDE DEF u
  <2>5. Done(u, 0)
    BY <2>2, <2>4, <1>1 DEF IsTable, Reordered
  <2> QED BY <2>1, <2>5
<1>5. ASSUME NEW j \in Nat, j \in T
      PROVE  j + 1 \in T
  <2> SUFFICES ASSUME j + 1 <= l
               PROVE  Done(f[j + 1], j + 1)
    OBVIOUS
  <2> DEFINE u == f[j]
             k == t.list[j + 1]
             r == Remap(u, m, k)
  <2>1. Done(u, j)
    BY <1>1, <1>5
  <2>2. f[j + 1] = r
    <3>1. j + 1 \in 0 .. l /\ j + 1 # 0 /\ (j + 1) - 1 = j
      BY <1>1
    <3> QED BY <3>1, <1>3 DEF Turns
  <2>3. j + 1 \in 1 .. l /\ DOMAIN t.list = 1 .. l
    BY <1>1 DEF Once
  <2>4. k \in ToSet(t.list)
    BY <2>3 DEF ToSet
  <2>5. k \notin First(j)
    <3>1. \A i \in 1 .. j : i \in 1 .. l /\ i # j + 1
      BY <1>1
    <3> QED BY <3>1, <2>3, <1>1 DEF Once
  <2>6. First(j + 1) = First(j) \cup {k}
    <3>1. \A i \in Nat : i \in 1 .. j + 1 <=> i \in 1 .. j \/ i = j + 1
      OBVIOUS
    <3> QED BY <3>1
  <2> HIDE DEF u, k, r, First, l
  <2>7. k \in ToSet(u.list) /\ IsTable(u, n) /\ Leading(u.list, u.buckets, m, n, First(j))
    BY <2>1, <2>4 DEF Reordered
  <2>8. /\ IsTable(Remap(u, m, k), n)
        /\ Reordered(Remap(u, m, k).list, u.list)
        /\ Leading(Remap(u, m, k).list, Remap(u, m, k).buckets, m, n, First(j) \cup {k})
    BY <2>5, <2>7, Remapped
  <2>9. /\ IsTable(r, n) /\ Reordered(r.list, u.list)
        /\ Leading(r.list, r.buckets, m, n, First(j) \cup {k})
    BY <2>8 DEF r
  <2>10. Reordered(r.list, t.list)
    BY <2>1, <2>9 DEF Reordered
  <2>11. Done(r, j + 1)
    BY <2>6, <2>9, <2>10
  <2> QED BY <2>2, <2>11
<1>6. l \in T
  <2>1. \A j \in Nat : j \in T => j + 1 \in T
    BY <1>5
  <2> HIDE DEF T, l
  <2>2. \A j \in Nat : j \in T
    BY <2>1, <1>4, Induct, Zenon
  <2>3. l \in Nat
    BY <1>1
  <2> QED BY <2>2, <2>3, Zenon
<1>7. Done(f[l], l)
  <2>1. l \in Nat
    BY <1>1
  <2> HIDE DEF l, Done, First
  <2> QED BY <2>1, <1>6
<1>8. First(l) = ToSet(t.list)
  <2>1. DOMAIN t.list = 1 .. l
    BY <1>1 DEF Once
  <2> QED BY <2>1 DEF ToSet
<1> DEFINE u == f[l]
<1> HIDE DEF T, First, u
<1>9. IsTable(u, n) /\ Reordered(u.list, t.list) /\ Leading(u.list, u.buckets, m, n, First(l))
  BY <1>7 DEF u
<1>10. Leading(u.list, u.buckets, m, n, Key)
  BY <1>8, <1>9, LeadingAll DEF Reordered
<1> QED BY <1>2, <1>9, <1>10 DEF u

-----------------------------------------------------------------------------
(* The operations on one table.                                            *)

\* Key is what it was with one of its keys put in
LEMMA KeyWith ==
  ASSUME NEW k \in Key
  PROVE  Key \cup {k} = Key
OBVIOUS

\* A new element is put in, and its bucket leads to it
LEMMA NewMapped ==
  ASSUME NEW m \in Table, NEW n \in Nat \ {0}, NEW t, IsTable(t, n),
         Leading(t.list, t.buckets, m, n, Key), NEW k \in Key, k \notin ToSet(t.list),
         NEW h, h = Hash[k] % n
  PROVE  /\ IsTable(MapAndLink(t, m, h, k), n)
         /\ Extends(MapAndLink(t, m, h, k).list, t.list, k)
         /\ Leading(MapAndLink(t, m, h, k).list, MapAndLink(t, m, h, k).buckets, m, n, Key)
<1> DEFINE list == t.list
           b == t.buckets[h]
           r == MapAndLink(t, m, h, k)
           moved == IF b.count = 0 THEN Append(list, k)
                    ELSE LinkBefore(list, b.first[2], k)
           grown == [t.buckets EXCEPT ![h] = Grown(@, m, k)]
<1>1. Once(list) /\ t.buckets \in [0 .. n - 1 -> Bucket]
  BY DEF IsTable
<1>2. h \in 0 .. n - 1
  BY BucketOfIs
<1>3. r = [list |-> moved, buckets |-> grown]
  BY DEF MapAndLink
<1>4. PICK g \in 1 .. Len(list) + 1 : Chained(list, m, b, Class(n, Key, h), g)
  BY <1>2, SMTT(30) DEF Leading, Leads
<1>5. /\ b.count \in Nat /\ g + b.count <= Len(list) + 1 /\ Len(list) \in Nat
      /\ b.count # 0 => b.first = << m, list[g] >>
  BY <1>1, <1>4, SMTT(30) DEF Chained, Once
<1> DEFINE f == IF b.count = 0 THEN Len(list) + 1 ELSE g
<1>6. f \in 1 .. Len(list) + 1 /\ (b.count = 0 => f = Len(list) + 1)
  BY <1>5
<1>7. Chained(list, m, b, Class(n, Key, h), f)
  <2>1. CASE b.count # 0
    BY <2>1, <1>4
  <2>2. CASE b.count = 0
    <3>1. f = Len(list) + 1 /\ f + b.count <= Len(list) + 1
      BY <2>2, <1>5
    <3>2. \A j \in 1 .. Len(list) : /\ ~ (g <= j /\ j < g + b.count)
                                    /\ ~ (f <= j /\ j < f + b.count)
      BY <2>2, <1>5, <3>1
    <3> HIDE DEF f
    <3> QED BY <2>2, <3>1, <3>2, <1>4, <1>6 DEF Chained
  <2> QED BY <2>1, <2>2
<1>8. moved = Put1(list, f, k)
  <2>1. CASE b.count = 0
    <3>1. moved = Append(list, k) /\ f = Len(list) + 1
      BY <2>1
    <3>2. list \in Seq(Key) /\ Len(list) \in Nat
      BY <1>1 DEF Once
    <3>3. Append(list, k) = Put1(list, Len(list) + 1, k)
      <4> HIDE DEF list
      <4>1. Append(list, k) = [i \in 1 .. Len(list) + 1 |->
                                IF i = Len(list) + 1 THEN k ELSE list[i]]
        <5> DEFINE a == Append(list, k)
        <5>1. /\ a \in Seq(Key) /\ Len(a) = Len(list) + 1
              /\ \A i \in 1 .. Len(list) : a[i] = list[i]
              /\ a[Len(list) + 1] = k
          BY <3>2, AppendProperties
        <5> HIDE DEF a
        <5>2. a = [i \in 1 .. Len(list) + 1 |-> a[i]]
          BY <5>1
        <5>3. \A i \in 1 .. Len(list) + 1 :
                 a[i] = IF i = Len(list) + 1 THEN k ELSE list[i]
          BY <5>1, <3>2, SMTT(30)
        <5>4. a = [i \in 1 .. Len(list) + 1 |->
                     IF i = Len(list) + 1 THEN k ELSE list[i]]
          BY <5>2, <5>3
        <5> QED BY <5>4 DEF a
      <4>2. ASSUME NEW i \in 1 .. Len(list) + 1
            PROVE  (IF i < Len(list) + 1 THEN list[i]
                    ELSE IF i = Len(list) + 1 THEN k ELSE list[i - 1])
                   = (IF i = Len(list) + 1 THEN k ELSE list[i])
        BY <3>2
      <4> QED BY <4>1, <4>2 DEF Put1
    <3> QED BY <3>1, <3>3
  <2>2. CASE b.count # 0
    <3>1. f = g /\ g \in 1 .. Len(list)
      BY <2>2, <1>5
    <3>2. b.first[2] = list[g]
      BY <2>2, <1>5
    <3>3. LinkBefore(list, list[g], k) = Put1(list, g, k)
      BY <3>1, <1>1, LinkBeforeIs
    <3> QED BY <2>2, <3>1, <3>2, <3>3
  <2> QED BY <2>1, <2>2
<1> HIDE DEF f
<1>9. Extends(moved, list, k)
  BY <1>1, <1>6, <1>8, PutOnce
<1>10. Linked(moved, grown, t.buckets, m, n, h, k, Key)
  <2>1. Linked(Put1(list, f, k), grown, t.buckets, m, n, h, k, Key)
    BY <1>1, <1>6, <1>7, PutLinked
  <2> QED BY <2>1, <1>8
<1>11. r.list = moved /\ r.buckets = grown /\ r = [list |-> r.list, buckets |-> r.buckets]
  <2> HIDE DEF moved, grown, r
  <2> QED BY <1>3
<1> HIDE DEF r, moved, grown, list
<1>12. IsTable(r, n)
  BY <1>9, <1>10, <1>11 DEF IsTable, Extends, Linked
<1>13. Leading(r.list, r.buckets, m, n, Key)
  BY <1>10, <1>11, KeyWith DEF Linked
<1> QED BY <1>9, <1>11, <1>12, <1>13 DEF r, list

\* An element is taken out, and its bucket leads to what it had behind it
LEMMA UnlinkedIs ==
  ASSUME NEW m \in Table, NEW n \in Nat \ {0}, NEW t, IsTable(t, n),
         Leading(t.list, t.buckets, m, n, Key), NEW k \in ToSet(t.list)
  PROVE  /\ IsTable(Unlinked(t, m, k), n)
         /\ Lacks(Unlinked(t, m, k).list, t.list, k)
         /\ Leading(Unlinked(t, m, k).list, Unlinked(t, m, k).buckets, m, n, Key)
<1> DEFINE list == t.list
           h == Hash[k] % n
           r == Unlinked(t, m, k)
<1>1. Once(list) /\ t.buckets \in [0 .. n - 1 -> Bucket]
  BY DEF IsTable
<1>2. PICK p \in 1 .. Len(list) : list[p] = k
  <2>1. DOMAIN list = 1 .. Len(list)
    BY <1>1 DEF Once
  <2> QED BY <2>1 DEF ToSet
<1>3. k \in Key /\ Position(list, k) = p
  <2>1. k \in Key
    BY <1>1, <1>2 DEF Once
  <2> QED BY <2>1, <1>1, <1>2, PositionIs
<1>4. BucketOf(t, k) = h /\ h \in 0 .. n - 1
  BY <1>3, BucketOfIs
<1> DEFINE cut == Cut1(list, p)
           c == Left(list, m, t.buckets[h], p)
           left == [t.buckets EXCEPT ![h] = c]
<1>5. r = [list |-> cut, buckets |-> left]
  <2>1. RemoveAt(list, p) = cut
    BY <1>1, RemovingAt DEF Once
  <2> QED BY <2>1, <1>2, <1>3, <1>4, Zenon DEF Unlinked, Left
<1>6. Lacks(cut, list, k)
  BY <1>1, <1>2, CutOnce
<1>7. Once(cut)
  BY <1>6 DEF Lacks
<1>8. ASSUME NEW i \in 0 .. n - 1
      PROVE  Leads(list, m, t.buckets[i], Class(n, Key, i))
  BY DEF Leading
<1>9. Leads(cut, m, c, Class(n, Key, h))
  <2>1. list[p] \in Class(n, Key, h)
    BY <1>2, <1>3 DEF Class
  <2> HIDE DEF list
  <2> QED BY <2>1, <1>1, <1>4, <1>8, ChainedShrinks
<1>10. ASSUME NEW i \in 0 .. n - 1, i # h
       PROVE  Leads(cut, m, t.buckets[i], Class(n, Key, i))
  <2>1. list[p] \notin Class(n, Key, i)
    BY <1>2, <1>10 DEF Class
  <2> HIDE DEF list
  <2> QED BY <2>1, <1>1, <1>8, ChainedCut
<1>11. c \in Bucket
  <2>1. c = [count |-> c.count, first |-> c.first]
    BY DEF Left
  <2> HIDE DEF c, cut
  <2>2. c.count \in Nat /\ c.first \in Pointer
    BY <1>7, <1>9, LeadsOwn
  <2> QED BY <2>1, <2>2 DEF Bucket
<1> HIDE DEF c, cut
<1>12. /\ left \in [0 .. n - 1 -> Bucket]
       /\ \A i \in 0 .. n - 1 : left[i] = IF i = h THEN c ELSE t.buckets[i]
  BY <1>1, <1>4, <1>11
<1> HIDE DEF left
<1>13. Leading(cut, left, m, n, Key)
  <2>1. ASSUME NEW i \in 0 .. n - 1
        PROVE  Leads(cut, m, left[i], Class(n, Key, i))
    <3>1. CASE i = h
      BY <3>1, <1>4, <1>9, <1>12
    <3>2. CASE i # h
      BY <3>2, <1>10, <1>12
    <3> QED BY <3>1, <3>2
  <2> QED BY <2>1 DEF Leading
<1>14. r.list = cut /\ r.buckets = left /\ r = [list |-> r.list, buckets |-> r.buckets]
  BY <1>5
<1> HIDE DEF r, list
<1>15. IsTable(r, n)
  BY <1>7, <1>12, <1>14 DEF IsTable
<1> QED BY <1>6, <1>13, <1>14, <1>15 DEF r, list

\* find finds what is in the list, and walks through all elements of the bucket
LEMMA ChainIs ==
  ASSUME NEW list, Once(list), NEW t, t.list = list, NEW m, NEW C, NEW i,
         NEW f \in 1 .. Len(list) + 1, Chained(list, m, t.buckets[i], C, f)
  PROVE  Chain(t, i) = SubSeq(list, f, f + t.buckets[i].count - 1)
<1> DEFINE b == t.buckets[i]
<1>1. /\ b.count \in Nat /\ f + b.count <= Len(list) + 1 /\ Len(list) \in Nat
      /\ b.count # 0 => b.first = << m, list[f] >>
      /\ list \in Seq(Key)
  BY DEF Chained, Once
<1>2. CASE b.count = 0
  <2>1. Chain(t, i) = << >>
    BY <1>2 DEF Chain
  <2> HIDE DEF b
  <2>2. SubSeq(list, f, f + b.count - 1) = << >>
    <3>1. f + b.count - 1 < f
      BY <1>1, <1>2
    <3>2. f \in 1 .. Len(list) + 1 /\ f + b.count - 1 \in (f - 1) .. Len(list)
      BY <1>1, <1>2
    <3> DEFINE e == f + b.count - 1
    <3>3. e < f /\ f \in 1 .. Len(list) + 1 /\ e \in (f - 1) .. Len(list) /\ e - f + 1 = 0
      BY <3>1, <3>2, <1>1, <1>2
    <3> HIDE DEF e
    <3>4. SubSeq(list, f, e) = << >>
      BY <3>3, <1>1, SubSeqProperties, EmptySeq
    <3> QED BY <3>4 DEF e
  <2> QED BY <2>1, <2>2 DEF b
<1>3. CASE b.count # 0
  <2>1. f \in 1 .. Len(list) /\ b.first[2] = list[f]
    BY <1>1, <1>3
  <2>2. Position(list, b.first[2]) = f
    BY <2>1, PositionIs
  <2> QED BY <2>2, <1>3 DEF Chain
<1> QED BY <1>2, <1>3

LEMMA FindIs ==
  ASSUME NEW m, NEW n \in Nat \ {0}, NEW t, IsTable(t, n),
         Leading(t.list, t.buckets, m, n, Key), NEW k \in Key
  PROVE  Find(t, k) <=> k \in ToSet(t.list)
<1> DEFINE list == t.list
           h == Hash[k] % n
           b == t.buckets[h]
<1>1. Once(list)
  BY DEF IsTable
<1>2. BucketOf(t, k) = h /\ h \in 0 .. n - 1
  BY BucketOfIs
<1>3. PICK f \in 1 .. Len(list) + 1 : Chained(list, m, b, Class(n, Key, h), f)
  BY <1>2 DEF Leading, Leads
<1>4. Chain(t, h) = SubSeq(list, f, f + b.count - 1)
  BY <1>1, <1>3, ChainIs, ZenonT(60)
<1>5. /\ b.count \in Nat /\ f + b.count <= Len(list) + 1 /\ Len(list) \in Nat
      /\ list \in Seq(Key) /\ DOMAIN list = 1 .. Len(list)
      /\ \A j \in 1 .. Len(list) : list[j] \in Class(n, Key, h) <=> f <= j /\ j < f + b.count
  BY <1>1, <1>3 DEF Chained, Once
<1>6. k \in Class(n, Key, h)
  BY DEF Class
<1> DEFINE c == Chain(t, h)
<1> HIDE DEF b, h
<1>7. /\ DOMAIN c = 1 .. b.count
      /\ \A i \in 1 .. b.count : f + i - 1 \in 1 .. Len(list) /\ c[i] = list[f + i - 1]
  <2> DEFINE e == f + b.count - 1
  <2>1. f \in 1 .. Len(list) + 1 /\ e \in (f - 1) .. Len(list) /\ e - f + 1 = b.count
    BY <1>5, SMTT(30)
  <2>2. \A i \in 1 .. b.count : f + i - 1 \in 1 .. Len(list)
    BY <1>5
  <2> HIDE DEF e
  <2>3. /\ SubSeq(list, f, e) \in Seq(Key) /\ Len(SubSeq(list, f, e)) = b.count
        /\ \A i \in 1 .. b.count : SubSeq(list, f, e)[i] = list[f + i - 1]
    BY <2>1, <1>5, SubSeqProperties, SMTT(30)
  <2>4. c = SubSeq(list, f, e)
    BY <1>4 DEF e
  <2>5. DOMAIN SubSeq(list, f, e) = 1 .. b.count
    BY <2>3
  <2> QED BY <2>2, <2>3, <2>4, <2>5
<1> HIDE DEF c
<1>8. ASSUME k \in ToSet(c) PROVE k \in ToSet(list)
  <2>1. PICK i \in 1 .. b.count : c[i] = k
    BY <1>7, <1>8 DEF ToSet
  <2>2. f + i - 1 \in DOMAIN list /\ list[f + i - 1] = k
    BY <2>1, <1>5, <1>7
  <2> QED BY <2>2 DEF ToSet
<1>9. ASSUME k \in ToSet(list) PROVE k \in ToSet(c)
  <2>1. PICK j \in 1 .. Len(list) : list[j] = k
    BY <1>5, <1>9 DEF ToSet
  <2>2. f <= j /\ j < f + b.count
    BY <2>1, <1>5, <1>6
  <2>3. j - f + 1 \in 1 .. b.count /\ f + (j - f + 1) - 1 = j
    BY <2>2, <1>5
  <2>4. j - f + 1 \in DOMAIN c /\ c[j - f + 1] = k
    BY <2>1, <2>3, <1>7
  <2> QED BY <2>4 DEF ToSet
<1>10. Find(t, k) <=> k \in ToSet(c)
  BY <1>2, Zenon DEF Find, c
<1> QED BY <1>8, <1>9, <1>10

-----------------------------------------------------------------------------
(* Tables and the nodes of others.                                         *)

\* A table of n buckets, which are enough of them
Filed(t, n) == IsTable(t, n) /\ 4 * Len(t.list) <= 3 * n

\* The buckets of t lead to all of its elements, the nodes of table m
Led(t, m, n) == Leading(t.list, t.buckets, m, n, Key)

\* What is true of table m, of which b are those whose buckets were copied
Kept(t, m, b) == \E n \in Nat : Filed(t, n) /\ (m \notin b => Led(t, m, n))

\* What a bucket says is its count and where it leads
LEMMA SameLeads ==
  ASSUME NEW list, NEW m, NEW b, NEW C, Leads(list, m, b, C),
         NEW c, c.count = b.count, c.first = b.first
  PROVE  Leads(list, m, c, C)
BY Zenon DEF Leads, Chained

\* Without elements it leads nowhere
LEMMA EmptyLeads ==
  ASSUME NEW m, NEW o, NEW b, NEW C, Leads(<< >>, o, b, C)
  PROVE  Leads(<< >>, m, b, C)
<1>1. PICK f \in 1 .. 0 + 1 : Chained(<< >>, o, b, C, f)
  BY DEF Leads
<1>2. b.count \in Nat /\ f + b.count <= 0 + 1
  BY <1>1 DEF Chained
<1>3. b.count = 0
  BY <1>2
<1>4. Chained(<< >>, m, b, C, f)
  BY <1>1, <1>3 DEF Chained
<1> QED BY <1>4 DEF Leads

\* A table that leads to its own elements only does not notice that those of
\* another are gone
LEMMA DroppedKept ==
  ASSUME NEW m \in Table, NEW o \in Table, o # m, NEW keys \in SUBSET Key,
         NEW t, NEW b, Kept(t, o, b)
  PROVE  /\ Kept(Dropped(t, m, keys), o, b)
         /\ Dropped(t, m, keys).list = t.list
<1> DEFINE r == Dropped(t, m, keys)
<1>1. PICK n \in Nat : Filed(t, n) /\ (o \notin b => Led(t, o, n))
  BY DEF Kept
<1>2. /\ t = [list |-> t.list, buckets |-> t.buckets]
      /\ Once(t.list) /\ t.buckets \in [0 .. n - 1 -> Bucket]
  BY <1>1 DEF Filed, IsTable
<1> DEFINE Gone(p) == IF p \in {m} \X keys THEN Freed ELSE p
           left == [i \in 0 .. n - 1 |-> [count |-> t.buckets[i].count,
                                          first |-> Gone(t.buckets[i].first)]]
<1>3. r = [list |-> t.list, buckets |-> left]
  <2>1. DOMAIN t.buckets = 0 .. n - 1
    BY <1>2
  <2>2. r = [t EXCEPT !.buckets = left]
    BY <2>1, Zenon DEF Dropped, Repointed
  <2> HIDE DEF r, left
  <2> QED BY <1>2, <2>2
<1>4. /\ left \in [0 .. n - 1 -> Bucket]
      /\ \A i \in 0 .. n - 1 : /\ left[i].count = t.buckets[i].count
                               /\ left[i].first = Gone(t.buckets[i].first)
  <2>1. ASSUME NEW i \in 0 .. n - 1
        PROVE  [count |-> t.buckets[i].count, first |-> Gone(t.buckets[i].first)] \in Bucket
    <3>1. t.buckets[i].count \in Nat /\ t.buckets[i].first \in Pointer
      BY <1>2 DEF Bucket
    <3>2. Gone(t.buckets[i].first) \in Pointer
      BY <3>1 DEF Pointer
    <3> QED BY <3>1, <3>2 DEF Bucket
  <2> HIDE DEF Gone
  <2> QED BY <2>1
<1>5. /\ r.list = t.list /\ r.buckets = left
      /\ r = [list |-> r.list, buckets |-> r.buckets]
  <2> HIDE DEF r, left
  <2> QED BY <1>3
<1> HIDE DEF r, left
<1>6. Filed(r, n)
  BY <1>1, <1>2, <1>4, <1>5 DEF Filed, IsTable
<1>7. ASSUME o \notin b
      PROVE  Led(r, o, n)
  <2>1. ASSUME NEW i \in 0 .. n - 1
        PROVE  Leads(t.list, o, left[i], Class(n, Key, i))
    <3>1. Leads(t.list, o, t.buckets[i], Class(n, Key, i))
      BY <1>1, <1>7 DEF Led, Leading
    <3>2. t.buckets[i].first = Null \/ \E k \in Key : t.buckets[i].first = << o, k >>
      BY <3>1, <1>2, LeadsOwn
    <3>3. t.buckets[i].first \notin {m} \X keys
      BY <3>2, TableAssumption
    <3>4. left[i].count = t.buckets[i].count /\ left[i].first = t.buckets[i].first
      BY <3>3, <1>4
    <3> QED BY <3>1, <3>4, SameLeads
  <2> QED BY <2>1, <1>5 DEF Led, Leading
<1>8. Kept(r, o, b)
  BY <1>6, <1>7 DEF Kept
<1> QED BY <1>5, <1>8 DEF r

\* The nodes of o become those of m, and with them where the buckets lead
LEMMA HandedKept ==
  ASSUME NEW m \in Table, NEW o \in Table, o # m, NEW x \in Table, NEW y \in Table,
         (x = o /\ y = m) \/ (x = y /\ x # o /\ x # m),
         NEW t, NEW b, NEW c, Kept(t, x, b), x \in b => y \in c
  PROVE  /\ Kept(Handed(t, m, o), y, c)
         /\ Handed(t, m, o).list = t.list
<1> DEFINE r == Handed(t, m, o)
<1>1. PICK n \in Nat : Filed(t, n) /\ (x \notin b => Led(t, x, n))
  BY DEF Kept
<1>2. /\ t = [list |-> t.list, buckets |-> t.buckets]
      /\ Once(t.list) /\ t.buckets \in [0 .. n - 1 -> Bucket]
  BY <1>1 DEF Filed, IsTable
<1> DEFINE Now(p) == IF p \in {o} \X Key THEN << m, p[2] >>
                     ELSE IF p \in {m} \X Key THEN Freed ELSE p
           left == [i \in 0 .. n - 1 |-> [count |-> t.buckets[i].count,
                                          first |-> Now(t.buckets[i].first)]]
<1>3. r = [list |-> t.list, buckets |-> left]
  <2>1. DOMAIN t.buckets = 0 .. n - 1
    BY <1>2
  <2>2. r = [t EXCEPT !.buckets = left]
    BY <2>1, Zenon DEF Handed, Repointed
  <2> HIDE DEF r, left
  <2> QED BY <1>2, <2>2
<1>4. /\ left \in [0 .. n - 1 -> Bucket]
      /\ \A i \in 0 .. n - 1 : /\ left[i].count = t.buckets[i].count
                               /\ left[i].first = Now(t.buckets[i].first)
  <2>1. ASSUME NEW i \in 0 .. n - 1
        PROVE  [count |-> t.buckets[i].count, first |-> Now(t.buckets[i].first)] \in Bucket
    <3>1. t.buckets[i].count \in Nat /\ t.buckets[i].first \in Pointer
      BY <1>2 DEF Bucket
    <3>2. Now(t.buckets[i].first) \in Pointer
      BY <3>1 DEF Pointer
    <3> QED BY <3>1, <3>2 DEF Bucket
  <2> HIDE DEF Now
  <2> QED BY <2>1
<1>5. /\ r.list = t.list /\ r.buckets = left
      /\ r = [list |-> r.list, buckets |-> r.buckets]
  <2> HIDE DEF r, left
  <2> QED BY <1>3
<1> HIDE DEF r, left
<1>6. Filed(r, n)
  BY <1>1, <1>2, <1>4, <1>5 DEF Filed, IsTable
<1>7. ASSUME y \notin c
      PROVE  Led(r, y, n)
  <2>1. ASSUME NEW i \in 0 .. n - 1
        PROVE  Leads(t.list, y, left[i], Class(n, Key, i))
    <3> DEFINE d == t.buckets[i]
               C == Class(n, Key, i)
    <3>1. Leads(t.list, x, d, C)
      BY <1>1, <1>7 DEF Led, Leading
    <3>2. d.first = Null \/ \E k \in Key : d.first = << x, k >>
      BY <3>1, <1>2, LeadsOwn
    <3>3. left[i].count = d.count /\ left[i].first = Now(d.first)
      BY <1>4
    <3>4. PICK f \in 1 .. Len(t.list) + 1 : Chained(t.list, x, d, C, f)
      BY <3>1 DEF Leads
    <3> HIDE DEF d, C
    <3>5. CASE x = y /\ x # o /\ x # m
      <4>1. d.first \notin {o} \X Key /\ d.first \notin {m} \X Key
        BY <3>2, <3>5, TableAssumption
      <4>2. left[i].first = d.first
        BY <3>3, <4>1
      <4>3. Leads(t.list, y, d, C)
        BY <3>1, <3>5
      <4> QED BY <3>3, <4>2, <4>3, SameLeads DEF C
    <3>6. CASE x = o /\ y = m
      <4>1. left[i].first = IF left[i].count = 0 THEN Null ELSE << m, t.list[f] >>
        <5>1. CASE d.count = 0
          <6>1. d.first = Null
            BY <5>1, <3>4 DEF Chained
          <6>2. Null \notin {o} \X Key /\ Null \notin {m} \X Key
            BY TableAssumption
          <6> QED BY <5>1, <6>1, <6>2, <3>3
        <5>2. CASE d.count # 0
          <6>1. d.first = << o, t.list[f] >> /\ d.first # Null
            <7>1. d.first = << o, t.list[f] >>
              BY <5>2, <3>4, <3>6 DEF Chained
            <7>2. f \in 1 .. Len(t.list)
              BY <5>2, <3>4, <1>2 DEF Chained, Once
            <7>3. t.list[f] \in Key
              BY <7>2, <1>2 DEF Once
            <7> QED BY <7>1, <7>3, TableAssumption
          <6>2. d.first \in {o} \X Key /\ d.first[2] = t.list[f]
            BY <6>1, <3>2, <3>6
          <6> QED BY <5>2, <6>1, <6>2, <3>3
        <5> QED BY <5>1, <5>2
      <4>2. Chained(t.list, m, left[i], C, f)
        BY <4>1, <3>3, <3>4 DEF Chained
      <4> QED BY <4>2, <3>6 DEF Leads, C
    <3> QED BY <3>5, <3>6
  <2> QED BY <2>1, <1>5 DEF Led, Leading
<1>8. Kept(r, y, c)
  BY <1>6, <1>7 DEF Kept
<1> QED BY <1>5, <1>8 DEF r

\* A table without elements
LEMMA BlankKept ==
  ASSUME NEW m, NEW n \in Nat, NEW b
  PROVE  Kept([list |-> << >>, buckets |-> Blank(n)], m, b)
<1> DEFINE t == [list |-> << >>, buckets |-> Blank(n)]
<1>1. Once(<< >>) /\ Len(<< >>) = 0
  BY DEF Once
<1>2. /\ Blank(n) \in [0 .. n - 1 -> Bucket]
      /\ Leading(<< >>, Blank(n), m, n, Key)
  <2> DEFINE list == << >>
  <2>1. Once(list) /\ \A j \in 1 .. Len(list) : list[j] \notin Key
    BY <1>1
  <2> HIDE DEF list
  <2>2. /\ Blank(n) \in [0 .. n - 1 -> Bucket]
        /\ Leading(list, Blank(n), m, n, Key)
    BY <2>1, BlankLeads
  <2> QED BY <2>2 DEF list
<1>3. t.list = << >> /\ t.buckets = Blank(n) /\ t = [list |-> t.list, buckets |-> t.buckets]
  OBVIOUS
<1> HIDE DEF t
<1>4. Filed(t, n)
  BY <1>1, <1>2, <1>3 DEF Filed, IsTable
<1>5. Led(t, m, n)
  BY <1>2, <1>3 DEF Led
<1> QED BY <1>4, <1>5 DEF Kept, t

\* emplace rehashes a table that would be overloaded, and puts the element in
LEMMA EmplacedKept ==
  ASSUME NEW m \in Table, NEW n \in Nat \ {0}, NEW t, Filed(t, n), Led(t, m, n),
         NEW k \in Key, k \notin ToSet(t.list), NEW b,
         NEW g, g = RehashIfOverload(t, m), NEW r, r = MapAndLink(g, m, BucketOf(g, k), k)
  PROVE  Kept(r, m, b) /\ ToSet(r.list) = ToSet(t.list) \cup {k}
<1> DEFINE l == IF 4 * (Len(t.list) + 1) > 3 * n THEN 2 * n ELSE n
<1>1. IsTable(t, n) /\ 4 * Len(t.list) <= 3 * n /\ Len(t.list) \in Nat
  BY DEF Filed, IsTable, Once
<1>2. BucketCount(t) = n
  BY <1>1, BucketCountIs
<1>3. l \in Nat \ {0} /\ 4 * (Len(t.list) + 1) <= 3 * l
  BY <1>1
<1>4. IsTable(g, l) /\ Reordered(g.list, t.list) /\ Led(g, m, l)
  <2>1. CASE 4 * (Len(t.list) + 1) > 3 * n
    <3>1. l = 2 * n /\ g = ForceRehash(t, m, l)
      BY <2>1, <1>2 DEF RehashIfOverload
    <3> HIDE DEF l
    <3> QED BY <3>1, <1>1, <1>3, Rehashed DEF Led
  <2>2. CASE ~ (4 * (Len(t.list) + 1) > 3 * n)
    <3>1. l = n /\ g = t
      BY <2>2, <1>2 DEF RehashIfOverload
    <3>2. Reordered(t.list, t.list)
      BY <1>1 DEF IsTable, Reordered
    <3> HIDE DEF l
    <3> QED BY <3>1, <3>2, <1>1
  <2> QED BY <2>1, <2>2
<1> HIDE DEF l
<1>5. BucketOf(g, k) = Hash[k] % l
  BY <1>3, <1>4, BucketOfIs
<1>6. k \notin ToSet(g.list)
  BY <1>4 DEF Reordered
<1>7. Leading(g.list, g.buckets, m, l, Key)
  BY <1>4 DEF Led
<1>8. /\ IsTable(r, l) /\ Extends(r.list, g.list, k)
      /\ Leading(r.list, r.buckets, m, l, Key)
  <2> DEFINE h == Hash[k] % l
  <2>1. h = Hash[k] % l /\ r = MapAndLink(g, m, h, k)
    BY <1>5
  <2> HIDE DEF h
  <2> QED BY <2>1, <1>3, <1>4, <1>6, <1>7, NewMapped
<1>9. Len(r.list) = Len(t.list) + 1 /\ ToSet(r.list) = ToSet(t.list) \cup {k}
  BY <1>4, <1>8 DEF Extends, Reordered
<1>10. Filed(r, l)
  BY <1>3, <1>8, <1>9 DEF Filed
<1> QED BY <1>3, <1>8, <1>9, <1>10 DEF Kept, Led

\* erase takes the element out
LEMMA ErasedKept ==
  ASSUME NEW m \in Table, NEW n \in Nat \ {0}, NEW t, Filed(t, n), Led(t, m, n),
         NEW k \in ToSet(t.list), NEW b
  PROVE  /\ Kept(Unlinked(t, m, k), m, b)
         /\ ToSet(Unlinked(t, m, k).list) = ToSet(t.list) \ {k}
<1> DEFINE r == Unlinked(t, m, k)
<1>1. IsTable(t, n) /\ 4 * Len(t.list) <= 3 * n /\ Len(t.list) \in Nat
  BY DEF Filed, IsTable, Once
<1>2. /\ IsTable(r, n) /\ Lacks(r.list, t.list, k)
      /\ Leading(r.list, r.buckets, m, n, Key)
  BY <1>1, UnlinkedIs DEF Led
<1> HIDE DEF r
<1>3. Len(r.list) = Len(t.list) - 1 /\ ToSet(r.list) = ToSet(t.list) \ {k}
  BY <1>2 DEF Lacks
<1>4. Filed(r, n)
  BY <1>1, <1>2, <1>3 DEF Filed
<1> QED BY <1>2, <1>3, <1>4 DEF Kept, Led, r

\* rehash makes enough buckets, and leads them to all elements
LEMMA RehashedKept ==
  ASSUME NEW m \in Table, NEW n \in Nat, NEW t, Filed(t, n), NEW q \in Nat,
         Wanted(t, q) > n, NEW b
  PROVE  /\ Kept(ForceRehash(t, m, Wanted(t, q)), m, b)
         /\ ToSet(ForceRehash(t, m, Wanted(t, q)).list) = ToSet(t.list)
<1> DEFINE l == Wanted(t, q)
           a == MinBuckets(Len(t.list))
           r == ForceRehash(t, m, l)
<1>1. IsTable(t, n) /\ Len(t.list) \in Nat
  BY DEF Filed, IsTable, Once
<1>2. a \in Nat /\ 3 * a >= 4 * Len(t.list)
  <2> DEFINE s == 4 * Len(t.list)
  <2>1. s \in Nat /\ a = (s + 2) \div 3
    BY <1>1 DEF MinBuckets
  <2> HIDE DEF s, a
  <2>2. (s + 2) \div 3 \in Nat /\ 3 * ((s + 2) \div 3) >= s
    BY <2>1
  <2> QED BY <2>1, <2>2 DEF s
<1>3. l = IF a >= q THEN a ELSE q
  <2> HIDE DEF a
  <2>1. a \in Int /\ q \in Int
    BY <1>2
  <2>2. Max({a, q}) = IF a >= q THEN a ELSE q
    BY <2>1, MinOfTwo
  <2> QED BY <2>2 DEF a, Wanted
<1> HIDE DEF l, a
<1>4. l \in Nat \ {0} /\ 4 * Len(t.list) <= 3 * l
  <2>1. l > n
    BY DEF l
  <2> QED BY <2>1, <1>1, <1>2, <1>3
<1>5. /\ IsTable(r, l) /\ Reordered(r.list, t.list)
      /\ Leading(r.list, r.buckets, m, l, Key)
  BY <1>1, <1>4, Rehashed
<1> HIDE DEF r
<1>6. Len(r.list) = Len(t.list) /\ ToSet(r.list) = ToSet(t.list)
  BY <1>5 DEF Reordered
<1>7. Filed(r, l)
  BY <1>4, <1>5, <1>6 DEF Filed
<1> QED BY <1>4, <1>5, <1>6, <1>7 DEF Kept, Led, r, l

-----------------------------------------------------------------------------
(* The tables of the program.                                              *)

\* Every table has enough buckets, and they lead to all of its elements,
\* unless they were copied
HashInv ==
  /\ table = [m \in Table |-> table[m]]
  /\ borrowing \subseteq Table
  /\ \A m \in Table : Kept(table[m], m, borrowing)

\* The keys found in table m, which is t
ContentOf(t, m, b) ==
  IF BucketCount(t) > 0 /\ m \notin b THEN {k \in Key : Find(t, k)} ELSE ToSet(t.list)

LEMMA ContentIs ==
  ASSUME NEW m, NEW t, NEW b, Kept(t, m, b)
  PROVE  ContentOf(t, m, b) = ToSet(t.list)
<1>1. PICK n \in Nat : Filed(t, n) /\ (m \notin b => Led(t, m, n))
  BY DEF Kept
<1>2. IsTable(t, n) /\ BucketCount(t) = n
  BY <1>1, BucketCountIs DEF Filed
<1>3. ToSet(t.list) \subseteq Key
  BY <1>2 DEF IsTable, Once, ToSet
<1>4. CASE n > 0 /\ m \notin b
  <2>1. n \in Nat \ {0} /\ Leading(t.list, t.buckets, m, n, Key)
    BY <1>1, <1>4 DEF Led
  <2>2. \A k \in Key : Find(t, k) <=> k \in ToSet(t.list)
    BY <2>1, <1>2, FindIs
  <2> QED BY <2>2, <1>2, <1>3, <1>4 DEF ContentOf
<1>5. CASE ~ (n > 0 /\ m \notin b)
  BY <1>2, <1>5 DEF ContentOf
<1> QED BY <1>4, <1>5

\* When the tables become those of u, they stay in order, and find finds what
\* is in the lists of u
LEMMA TablesBecome ==
  ASSUME HashInv, NEW STATE u, NEW STATE b, u = [x \in Table |-> u[x]], b \subseteq Table,
         \A x \in Table : Kept(u[x], x, b), table' = u, borrowing' = b
  PROVE  /\ HashInv'
         /\ \A x \in Table : /\ Content(x) = ToSet(table[x].list)
                             /\ Content(x)' = ToSet(u[x].list)
<1>1. HashInv'
  BY DEF HashInv
<1>2. ASSUME NEW x \in Table
      PROVE  /\ Content(x) = ToSet(table[x].list)
             /\ Content(x)' = ToSet(u[x].list)
  <2>1. Content(x) = ContentOf(table[x], x, borrowing)
    BY Zenon DEF Content, ContentOf, Usable
  <2>2. ContentOf(table[x], x, borrowing) = ToSet(table[x].list)
    BY ContentIs DEF HashInv
  <2>3. Content(x)' = ContentOf(u[x], x, b)
    BY Zenon DEF Content, ContentOf, Usable
  <2>4. ContentOf(u[x], x, b) = ToSet(u[x].list)
    BY ContentIs
  <2> QED BY <2>1, <2>2, <2>3, <2>4
<1> QED BY <1>1, <1>2

\* Table m has buckets enough and can be used
LEMMA UsableIs ==
  ASSUME HashInv, NEW m \in Table, Usable(m)
  PROVE  \E n \in Nat \ {0} : Filed(table[m], n) /\ Led(table[m], m, n)
<1>1. PICK n \in Nat : Filed(table[m], n) /\ (m \notin borrowing => Led(table[m], m, n))
  BY DEF HashInv, Kept
<1>2. BucketCount(table[m]) = n
  BY <1>1, BucketCountIs DEF Filed
<1> QED BY <1>1, <1>2 DEF Usable

\* emplace puts the key in
LEMMA EmplaceImplements ==
  ASSUME HashInv, NEW m \in Table, NEW k \in Key, Emplace(m, k)
  PROVE  HashInv' /\ Abstract!Emplace(m, k)
<1> DEFINE t == table[m]
           g == RehashIfOverload(t, m)
           r == MapAndLink(g, m, BucketOf(g, k), k)
           u == [table EXCEPT ![m] = r]
<1>1. Usable(m) /\ ~ Find(t, k) /\ table' = u /\ borrowing' = borrowing
  BY DEF Emplace
<1>2. PICK n \in Nat \ {0} : Filed(t, n) /\ Led(t, m, n)
  BY <1>1, UsableIs
<1>3. k \notin ToSet(t.list)
  BY <1>1, <1>2, FindIs DEF Filed, Led
<1>4. Kept(r, m, borrowing) /\ ToSet(r.list) = ToSet(t.list) \cup {k}
  <2> HIDE DEF t
  <2> QED BY <1>2, <1>3, EmplacedKept
<1> HIDE DEF r
<1>5. /\ u = [x \in Table |-> u[x]]
      /\ \A x \in Table : u[x] = IF x = m THEN r ELSE table[x]
  BY DEF HashInv
<1> HIDE DEF u
<1>6. \A x \in Table : Kept(u[x], x, borrowing)
  BY <1>4, <1>5 DEF HashInv
<1>7. HashInv' /\ \A x \in Table : /\ Content(x) = ToSet(table[x].list)
                                  /\ Content(x)' = ToSet(u[x].list)
  <2>1. borrowing \subseteq Table
    BY DEF HashInv
  <2> QED BY <2>1, <1>1, <1>5, <1>6, TablesBecome
<1>8. \A x \in Table : Content(x)' = IF x = m THEN Content(m) \cup {k} ELSE Content(x)
  BY <1>4, <1>5, <1>7
<1> QED BY <1>7, <1>8 DEF Abstract!Emplace

\* erase takes it out
LEMMA EraseOfTableImplements ==
  ASSUME HashInv, NEW m \in Table, NEW k \in Key, Erase(m, k)
  PROVE  HashInv' /\ Abstract!Erase(m, k)
<1> DEFINE t == table[m]
           r == Unlinked(t, m, k)
           u == [o \in Table |-> IF o = m THEN r ELSE Dropped(table[o], m, {k})]
<1>1. Usable(m) /\ Find(t, k) /\ table' = u /\ borrowing' = borrowing
  BY DEF Erase
<1>2. PICK n \in Nat \ {0} : Filed(t, n) /\ Led(t, m, n)
  BY <1>1, UsableIs
<1>3. k \in ToSet(t.list)
  BY <1>1, <1>2, FindIs DEF Filed, Led
<1>4. Kept(r, m, borrowing) /\ ToSet(r.list) = ToSet(t.list) \ {k}
  <2> HIDE DEF t
  <2> QED BY <1>2, <1>3, ErasedKept
<1>5. ASSUME NEW o \in Table, o # m
      PROVE  /\ Kept(Dropped(table[o], m, {k}), o, borrowing)
             /\ Dropped(table[o], m, {k}).list = table[o].list
  BY <1>5, DroppedKept DEF HashInv
<1> HIDE DEF r
<1>6. /\ u = [x \in Table |-> u[x]]
      /\ \A x \in Table : u[x] = IF x = m THEN r ELSE Dropped(table[x], m, {k})
  OBVIOUS
<1> HIDE DEF u
<1>7. \A x \in Table : Kept(u[x], x, borrowing)
  BY <1>4, <1>5, <1>6
<1>8. HashInv' /\ \A x \in Table : /\ Content(x) = ToSet(table[x].list)
                                  /\ Content(x)' = ToSet(u[x].list)
  <2>1. borrowing \subseteq Table
    BY DEF HashInv
  <2> QED BY <2>1, <1>1, <1>6, <1>7, TablesBecome
<1>9. ASSUME NEW x \in Table
      PROVE  Content(x)' = IF x = m THEN Content(m) \ {k} ELSE Content(x)
  <2>1. Content(x)' = ToSet(u[x].list) /\ Content(x) = ToSet(table[x].list)
    BY <1>8
  <2>2. CASE x = m
    BY <2>1, <2>2, <1>4, <1>6, <1>8
  <2>3. CASE x # m
    BY <2>1, <2>3, <1>5, <1>6
  <2> QED BY <2>2, <2>3
<1> QED BY <1>8, <1>9 DEF Abstract!Erase

\* clear leaves none
LEMMA ClearOfTableImplements ==
  ASSUME HashInv, NEW m \in Table, Clear(m)
  PROVE  HashInv' /\ Abstract!Clear(m)
<1> DEFINE r == [list |-> << >>, buckets |-> Blank(BucketCount(table[m]))]
           u == [o \in Table |-> IF o = m THEN r ELSE Dropped(table[o], m, Key)]
           b == borrowing \ {m}
<1>1. table' = u /\ borrowing' = b /\ b \subseteq Table
  BY DEF Clear, HashInv
<1>2. BucketCount(table[m]) \in Nat
  BY BucketCountIs DEF HashInv, Kept, Filed
<1>3. Kept(r, m, b) /\ ToSet(r.list) = {}
  <2>1. Kept(r, m, b)
    BY <1>2, BlankKept
  <2>2. r.list = << >> /\ ToSet(<< >>) = {}
    BY DEF ToSet
  <2> QED BY <2>1, <2>2
<1>4. ASSUME NEW o \in Table, o # m
      PROVE  /\ Kept(Dropped(table[o], m, Key), o, b)
             /\ Dropped(table[o], m, Key).list = table[o].list
  <2>1. Kept(table[o], o, b)
    BY <1>4 DEF HashInv, Kept
  <2> HIDE DEF b
  <2> QED BY <1>4, <2>1, DroppedKept
<1> HIDE DEF r, b
<1>5. /\ u = [x \in Table |-> u[x]]
      /\ \A x \in Table : u[x] = IF x = m THEN r ELSE Dropped(table[x], m, Key)
  OBVIOUS
<1> HIDE DEF u
<1>6. \A x \in Table : Kept(u[x], x, b)
  BY <1>3, <1>4, <1>5
<1>7. HashInv' /\ \A x \in Table : /\ Content(x) = ToSet(table[x].list)
                                  /\ Content(x)' = ToSet(u[x].list)
  BY <1>1, <1>5, <1>6, TablesBecome
<1>8. \A x \in Table : Content(x)' = IF x = m THEN {} ELSE Content(x)
  BY <1>3, <1>4, <1>5, <1>7
<1> QED BY <1>7, <1>8 DEF Abstract!Clear

\* rehash moves no key
LEMMA RehashImplements ==
  ASSUME HashInv, NEW m \in Table, NEW n \in Nat, Rehash(m, n)
  PROVE  HashInv' /\ Abstract!Hidden
<1> DEFINE t == table[m]
           r == ForceRehash(t, m, Wanted(t, n))
           u == [table EXCEPT ![m] = r]
           b == borrowing \ {m}
<1>1. /\ Wanted(t, n) > BucketCount(t) /\ table' = u /\ borrowing' = b
      /\ b \subseteq Table
  BY DEF Rehash, HashInv
<1>2. PICK l \in Nat : Filed(t, l)
  BY DEF HashInv, Kept
<1>3. BucketCount(t) = l
  BY <1>2, BucketCountIs DEF Filed
<1>4. Kept(r, m, b) /\ ToSet(r.list) = ToSet(t.list)
  <2> HIDE DEF t, b
  <2> QED BY <1>1, <1>2, <1>3, RehashedKept
<1>5. \A x \in Table : x # m => Kept(table[x], x, b)
  BY DEF HashInv, Kept
<1> HIDE DEF r, b
<1>6. /\ u = [x \in Table |-> u[x]]
      /\ \A x \in Table : u[x] = IF x = m THEN r ELSE table[x]
  BY DEF HashInv
<1> HIDE DEF u
<1>7. \A x \in Table : Kept(u[x], x, b)
  BY <1>4, <1>5, <1>6
<1>8. HashInv' /\ \A x \in Table : /\ Content(x) = ToSet(table[x].list)
                                  /\ Content(x)' = ToSet(u[x].list)
  BY <1>1, <1>6, <1>7, TablesBecome
<1>9. \A x \in Table : Content(x)' = Content(x)
  BY <1>4, <1>6, <1>8
<1> QED BY <1>8, <1>9 DEF Abstract!Hidden

\* A table that leads nowhere is another table's as well
LEMMA EmptyKept ==
  ASSUME NEW m, NEW o, NEW t, NEW b, NEW c, Kept(t, o, b), o \notin b, t.list = << >>
  PROVE  Kept(t, m, c)
<1>1. PICK n \in Nat : Filed(t, n) /\ Led(t, o, n)
  BY DEF Kept
<1>2. \A i \in 0 .. n - 1 : Leads(<< >>, m, t.buckets[i], Class(n, Key, i))
  BY <1>1, EmptyLeads DEF Led, Leading
<1>3. Led(t, m, n)
  BY <1>2 DEF Led, Leading
<1> QED BY <1>1, <1>3 DEF Kept

\* Copying copies the keys: they are found again after a rehash
LEMMA CopyOfTableImplements ==
  ASSUME HashInv, NEW m \in Table, NEW o \in Table, CopyAssign(m, o)
  PROVE  HashInv' /\ Abstract!CopyAssign(m, o)
<1> DEFINE left == [x \in Table |-> Dropped(table[x], m, Key)]
           r == [list |-> table[o].list, buckets |-> left[o].buckets]
           u == [left EXCEPT ![m] = r]
           b == IF o \in borrowing \/ table[o].list # << >>
                THEN borrowing \cup {m} ELSE borrowing \ {m}
<1>1. m # o /\ table' = u /\ borrowing' = b /\ b \subseteq Table
  BY DEF CopyAssign, HashInv
<1>2. ASSUME NEW x \in Table, x # m
      PROVE  /\ Kept(left[x], x, borrowing) /\ Kept(left[x], x, b)
             /\ left[x].list = table[x].list
  <2>1. Kept(table[x], x, borrowing)
    BY DEF HashInv
  <2>2. Kept(table[x], x, b)
    <3>1. x \in b <=> x \in borrowing
      BY <1>2
    <3> HIDE DEF b
    <3> QED BY <2>1, <3>1 DEF Kept
  <2> HIDE DEF b
  <2> QED BY <2>1, <2>2, <1>2, DroppedKept
<1>3. Kept(left[o], o, borrowing) /\ left[o].list = table[o].list
  BY <1>1, <1>2
<1>4. r = left[o]
  <2> DEFINE d == left[o]
  <2> HIDE DEF d
  <2>1. d = [list |-> d.list, buckets |-> d.buckets]
    BY <1>3 DEF Kept, Filed, IsTable, d
  <2>2. r = [list |-> d.list, buckets |-> d.buckets]
    BY <1>3 DEF d
  <2> QED BY <2>1, <2>2 DEF d
<1>5. Kept(r, m, b)
  <2>1. CASE o \in borrowing \/ table[o].list # << >>
    <3>1. m \in b
      BY <2>1
    <3> HIDE DEF left, b, r
    <3> QED BY <3>1, <1>3, <1>4 DEF Kept
  <2>2. CASE ~ (o \in borrowing \/ table[o].list # << >>)
    <3>1. o \notin borrowing /\ left[o].list = << >>
      BY <2>2, <1>3
    <3> HIDE DEF left, b, r
    <3> QED BY <3>1, <1>3, <1>4, EmptyKept
  <2> QED BY <2>1, <2>2
<1>6. r.list = table[o].list
  BY <1>3, <1>4
<1> HIDE DEF r, b
<1>7. /\ u = [x \in Table |-> u[x]]
      /\ \A x \in Table : u[x] = IF x = m THEN r ELSE left[x]
  OBVIOUS
<1> HIDE DEF u, left
<1>8. \A x \in Table : Kept(u[x], x, b)
  BY <1>2, <1>5, <1>7
<1>9. HashInv' /\ \A x \in Table : /\ Content(x) = ToSet(table[x].list)
                                  /\ Content(x)' = ToSet(u[x].list)
  BY <1>1, <1>7, <1>8, TablesBecome
<1>10. \A x \in Table : Content(x)' = IF x = m THEN Content(o) ELSE Content(x)
  BY <1>2, <1>6, <1>7, <1>9
<1> QED BY <1>9, <1>10 DEF Abstract!CopyAssign

\* Moving moves them
LEMMA MoveOfTableImplements ==
  ASSUME HashInv, NEW m \in Table, NEW o \in Table, MoveAssign(m, o)
  PROVE  HashInv' /\ Abstract!MoveAssign(m, o)
<1> DEFINE r == [list |-> << >>, buckets |-> Blank(0)]
           u == [x \in Table |-> IF x = o THEN r
                                 ELSE Handed(table[IF x = m THEN o ELSE x], m, o)]
           b == IF o \in borrowing THEN (borrowing \ {o}) \cup {m} ELSE borrowing \ {m}
<1>1. m # o /\ table' = u /\ borrowing' = b /\ b \subseteq Table
  BY DEF MoveAssign, HashInv
<1>2. Kept(r, o, b) /\ ToSet(r.list) = {}
  <2>1. Kept(r, o, b)
    BY BlankKept
  <2>2. r.list = << >> /\ ToSet(<< >>) = {}
    BY DEF ToSet
  <2> QED BY <2>1, <2>2
<1>3. /\ Kept(Handed(table[o], m, o), m, b)
      /\ Handed(table[o], m, o).list = table[o].list
  <2>1. o \in borrowing => m \in b
    OBVIOUS
  <2>2. Kept(table[o], o, borrowing)
    BY DEF HashInv
  <2> HIDE DEF b
  <2> QED BY <2>1, <2>2, <1>1, HandedKept
<1>4. ASSUME NEW x \in Table, x # m, x # o
      PROVE  /\ Kept(Handed(table[x], m, o), x, b)
             /\ Handed(table[x], m, o).list = table[x].list
  <2>1. x \in borrowing => x \in b
    BY <1>4
  <2>2. Kept(table[x], x, borrowing)
    BY DEF HashInv
  <2>3. (x = o /\ x = m) \/ (x = x /\ x # o /\ x # m)
    BY <1>4
  <2> HIDE DEF b
  <2> QED BY <2>1, <2>2, <2>3, <1>1, HandedKept
<1> HIDE DEF r, b
<1>5. /\ u = [x \in Table |-> u[x]]
      /\ \A x \in Table : u[x] = IF x = o THEN r
                                 ELSE IF x = m THEN Handed(table[o], m, o)
                                 ELSE Handed(table[x], m, o)
  BY Zenon
<1> HIDE DEF u
<1>6. \A x \in Table : Kept(u[x], x, b)
  BY <1>2, <1>3, <1>4, <1>5
<1>7. HashInv' /\ \A x \in Table : /\ Content(x) = ToSet(table[x].list)
                                  /\ Content(x)' = ToSet(u[x].list)
  BY <1>1, <1>5, <1>6, TablesBecome
<1>8. \A x \in Table : Content(x)' = IF x = o THEN {} ELSE IF x = m THEN Content(o)
                                     ELSE Content(x)
  BY <1>1, <1>2, <1>3, <1>4, <1>5, <1>7
<1> QED BY <1>1, <1>7, <1>8 DEF Abstract!MoveAssign

-----------------------------------------------------------------------------
(* The theorems.                                                           *)

\* In the beginning the tables have buckets and no elements
LEMMA TablesStart ==
  ASSUME Init
  PROVE  HashInv /\ Abstract!Init
<1> DEFINE r == [list |-> << >>, buckets |-> Blank(DefaultBuckets)]
<1>1. /\ table = [x \in Table |-> r] /\ borrowing = {}
  BY DEF Init
<1>2. \A m \in Table : Kept(r, m, {})
  <2>1. DefaultBuckets \in Nat
    BY TableAssumption
  <2> QED BY <2>1, BlankKept
<1>3. ToSet(r.list) = {}
  BY DEF ToSet
<1> HIDE DEF r
<1>4. HashInv
  BY <1>1, <1>2 DEF HashInv
<1>5. ASSUME NEW m \in Table PROVE Content(m) = {}
  <2>1. Content(m) = ContentOf(table[m], m, borrowing)
    BY Zenon DEF Content, ContentOf, Usable
  <2>2. ContentOf(table[m], m, borrowing) = ToSet(table[m].list)
    BY <1>4, ContentIs DEF HashInv
  <2> QED BY <2>1, <2>2, <1>1, <1>3
<1> QED BY <1>4, <1>5 DEF Abstract!Init

\* Every operation keeps the tables in order
LEMMA TablesStep ==
  ASSUME HashInv, [Next]_vars
  PROVE  HashInv'
<1>1. ASSUME NEW m \in Table, NEW k \in Key, Emplace(m, k) \/ Erase(m, k)
      PROVE  HashInv'
  BY <1>1, EmplaceImplements, EraseOfTableImplements
<1>2. ASSUME NEW m \in Table, NEW n \in Requests, Rehash(m, n)
      PROVE  HashInv'
  <2>1. n \in Nat
    BY TableAssumption
  <2> QED BY <1>2, <2>1, RehashImplements
<1>3. ASSUME NEW m \in Table, Clear(m)
      PROVE  HashInv'
  BY <1>3, ClearOfTableImplements
<1>4. ASSUME NEW m \in Table, NEW o \in Table, CopyAssign(m, o) \/ MoveAssign(m, o)
      PROVE  HashInv'
  BY <1>4, CopyOfTableImplements, MoveOfTableImplements
<1>5. CASE UNCHANGED vars
  BY <1>5 DEF vars, HashInv
<1> QED BY <1>1, <1>2, <1>3, <1>4, <1>5, Zenon DEF Next

\* Every operation does to the keys that are found what that of AbstractMap does
LEMMA TablesImplement ==
  ASSUME HashInv
  PROVE  Implementing
<1>1. ASSUME NEW m \in Table, NEW k \in Key
      PROVE  /\ Emplace(m, k) => Abstract!Emplace(m, k)
             /\ Erase(m, k) => Abstract!Erase(m, k)
  BY EmplaceImplements, EraseOfTableImplements
<1>2. ASSUME NEW m \in Table
      PROVE  Clear(m) => Abstract!Clear(m)
  BY ClearOfTableImplements
<1>3. ASSUME NEW m \in Table, NEW n \in Requests
      PROVE  Rehash(m, n) => Abstract!Hidden
  <2>1. n \in Nat
    BY TableAssumption
  <2> QED BY <2>1, RehashImplements
<1>4. ASSUME NEW m \in Table, NEW o \in Table
      PROVE  /\ CopyAssign(m, o) => Abstract!CopyAssign(m, o)
             /\ MoveAssign(m, o) => Abstract!MoveAssign(m, o)
  BY CopyOfTableImplements, MoveOfTableImplements
<1> QED BY <1>1, <1>2, <1>3, <1>4, Zenon DEF Implementing

\* Tables in order are of their type
LEMMA TablesTyped ==
  ASSUME HashInv
  PROVE  TypeOK
<1>1. ASSUME NEW m \in Table
      PROVE  /\ DOMAIN table[m] = {"list", "buckets"}
             /\ table[m].list \in Seq(Key)
             /\ DOMAIN table[m].buckets = 0 .. BucketCount(table[m]) - 1
             /\ \A i \in DOMAIN table[m].buckets : table[m].buckets[i] \in Bucket
  <2> DEFINE t == table[m]
  <2>1. PICK n \in Nat : IsTable(t, n)
    BY DEF HashInv, Kept, Filed
  <2> HIDE DEF t
  <2>2. BucketCount(t) = n /\ DOMAIN t.buckets = 0 .. n - 1
    BY <2>1, BucketCountIs
  <2>3. DOMAIN t = {"list", "buckets"} /\ t.list \in Seq(Key)
    BY <2>1 DEF IsTable, Once
  <2>4. \A i \in 0 .. n - 1 : t.buckets[i] \in Bucket
    BY <2>1 DEF IsTable
  <2> QED BY <2>2, <2>3, <2>4 DEF t
<1> QED BY <1>1 DEF HashInv, TypeOK

\* ... and their buckets exact
LEMMA TablesExact ==
  ASSUME HashInv
  PROVE  BucketsExact
<1>1. ASSUME NEW m \in Table, Usable(m)
      PROVE  LET t == table[m]
             IN  /\ IsInjective(t.list)
                 /\ \A i \in DOMAIN t.buckets :
                      LET mine == {j \in DOMAIN t.list : BucketOf(t, t.list[j]) = i}
                          b == t.buckets[i]
                      IN  \E from \in 1 .. Len(t.list) + 1 :
                            /\ mine = from .. from + b.count - 1
                            /\ b.first = IF mine = {} THEN Null ELSE << m, t.list[from] >>
                            /\ Chain(t, i) = SubSeq(t.list, from, from + b.count - 1)
  <2> DEFINE t == table[m]
             list == t.list
  <2>1. PICK n \in Nat \ {0} : Filed(t, n) /\ Led(t, m, n)
    BY <1>1, UsableIs
  <2>2. IsTable(t, n) /\ Once(list) /\ Len(list) \in Nat
    BY <2>1 DEF Filed, IsTable, Once
  <2>3. DOMAIN t.buckets = 0 .. n - 1 /\ DOMAIN list = 1 .. Len(list)
    BY <2>2, BucketCountIs DEF Once
  <2>4. IsInjective(list)
    BY <2>2, <2>3 DEF IsInjective, Once
  <2>5. ASSUME NEW i \in 0 .. n - 1
        PROVE  LET mine == {j \in DOMAIN list : BucketOf(t, list[j]) = i}
                   b == t.buckets[i]
               IN  \E from \in 1 .. Len(list) + 1 :
                     /\ mine = from .. from + b.count - 1
                     /\ b.first = IF mine = {} THEN Null ELSE << m, list[from] >>
                     /\ Chain(t, i) = SubSeq(list, from, from + b.count - 1)
    <3> DEFINE mine == {j \in DOMAIN list : BucketOf(t, list[j]) = i}
               b == t.buckets[i]
    <3>1. PICK f \in 1 .. Len(list) + 1 : Chained(list, m, b, Class(n, Key, i), f)
      BY <2>1 DEF Led, Leading, Leads
    <3>2. ASSUME NEW j \in 1 .. Len(list)
          PROVE  j \in mine <=> f <= j /\ j < f + b.count
      <4>1. list[j] \in Key
        BY <2>2 DEF Once
      <4>2. BucketOf(t, list[j]) = Hash[list[j]] % n
        BY <4>1, <2>2, BucketOfIs
      <4>3. j \in mine <=> list[j] \in Class(n, Key, i)
        BY <4>1, <4>2, <2>3, Zenon DEF Class
      <4> QED BY <4>3, <3>1 DEF Chained
    <3>3. mine \subseteq 1 .. Len(list)
      BY <2>3
    <3>4. Chain(t, i) = SubSeq(list, f, f + b.count - 1)
      BY <3>1, <2>2, ChainIs, ZenonT(60)
    <3>5. /\ b.count \in Nat /\ f + b.count <= Len(list) + 1
          /\ b.first = IF b.count = 0 THEN Null ELSE << m, list[f] >>
      BY <3>1 DEF Chained
    <3> HIDE DEF mine, b, list
    <3>6. mine = f .. f + b.count - 1
      <4>1. ASSUME NEW j \in Int
            PROVE  j \in mine <=> j \in f .. f + b.count - 1
        <5>1. j \in f .. f + b.count - 1 <=> f <= j /\ j < f + b.count
          BY <3>5
        <5>2. f <= j /\ j < f + b.count => j \in 1 .. Len(list)
          BY <3>5, <2>2
        <5> QED BY <5>1, <5>2, <3>2, <3>3
      <4>2. mine \subseteq Int /\ f .. f + b.count - 1 \subseteq Int
        BY <3>3, <2>2
      <4> QED BY <4>1, <4>2
    <3>7. mine = {} <=> b.count = 0
      <4>1. b.count # 0 => f \in f .. f + b.count - 1
        BY <3>5
      <4>2. b.count = 0 => f .. f + b.count - 1 = {}
        BY <3>5
      <4> QED BY <4>1, <4>2, <3>6
    <3> QED BY <3>4, <3>5, <3>6, <3>7 DEF mine, b
  <2> QED BY <2>3, <2>4, <2>5
<1>2. ASSUME NEW m \in Table
      PROVE  4 * Len(table[m].list) <= 3 * BucketCount(table[m])
  <2>1. PICK n \in Nat : Filed(table[m], n)
    BY DEF HashInv, Kept
  <2>2. BucketCount(table[m]) = n
    BY <2>1, BucketCountIs DEF Filed
  <2> QED BY <2>1, <2>2 DEF Filed
<1>3. ChainsExact
  BY <1>1, Zenon DEF ChainsExact
<1>4. LoadBounded
  BY <1>2, Zenon DEF LoadBounded
<1> QED BY <1>3, <1>4 DEF BucketsExact

\* Whatever is called in whatever order, the buckets of every table lead to
\* all of its elements and to no others, unless they were copied from another
\* table: the inductive invariant of the theorems below
THEOREM TablesStaySound == Spec => []HashInv
<1>1. Init => HashInv
  BY TablesStart
<1>2. HashInv /\ [Next]_vars => HashInv'
  BY TablesStep
<1> QED BY <1>1, <1>2, PTL DEF Spec

\* Hash tables are always of their type
THEOREM TablesAreTyped == Spec => []TypeOK
<1>1. HashInv => TypeOK
  BY TablesTyped
<1> QED BY <1>1, TablesStaySound, PTL

\* Through any sequence of insertions, erasures and rehashes, with any hash,
\* the elements of a bucket stay next to each other in the list, find walks
\* through all of them and no others, and no table is overloaded
THEOREM BucketsStayExact == Spec => []BucketsExact
<1>1. HashInv => BucketsExact
  BY TablesExact
<1> QED BY <1>1, TablesStaySound, PTL

\* What find finds after an operation is what a map would hold: no relinking
\* hides an element or shows one that is gone
THEOREM TablesAreMaps == Spec => ImplementsMap
<1>1. Init => Abstract!Init
  BY TablesStart
<1>2. HashInv => [vars' # vars => Implementing]_vars
  BY TablesImplement
<1> QED BY <1>1, <1>2, TablesStaySound, PTL DEF Spec, ImplementsMap

===============================================================================
