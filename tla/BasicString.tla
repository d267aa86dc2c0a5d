---------------------------- MODULE BasicString ----------------------------
(***************************************************************************)
(* basic_string of x_string.h: an array of characters, of which the one    *)
(* behind the last is the terminator.                                      *)
(*                                                                         *)
(* Nothing reads a cell behind the terminator before it is written again,  *)
(* so all of them are raw.  Characters are not the terminator itself, and  *)
(* an argument is no part of the string it is given to.                    *)
(***************************************************************************)
EXTENDS Integers, SequencesExt

CONSTANTS Value,         \* the characters
          Null,          \* the terminator
          Object,        \* the string objects
          Raw,           \* a cell that was not written
          DefaultCapacity,\* _DEFAULT_CAPACITY
          MaxCapacity,   \* bound: the capacities clients ask for
          MaxSize,       \* bound: characters of a string while no other has any
          MaxShared      \* bound: characters of all strings otherwise

VARIABLE string          \* the array of each string and the number of characters

Capacity(s) == Cardinality(DOMAIN s.cells) - 1

TypeOK ==
  \A q \in Object :
    /\ DOMAIN string[q] = {"cells", "size"}
    /\ string[q].cells \in [0 .. Capacity(string[q]) -> Value \cup {Null, Raw}]
    /\ string[q].size \in 0 .. Capacity(string[q])

-----------------------------------------------------------------------------
(* Changing the string s.                                                  *)

\* The new _Last, with the terminator there
Terminated(s, n) ==
  [cells |-> [i \in DOMAIN s.cells |->
                IF i = n THEN Null ELSE IF i < n THEN s.cells[i] ELSE Raw],
   size |-> n]

\* traits::move of n characters from another array, or of the same one
MovedIn(s, to, cells, from, n) ==
  [s EXCEPT !.cells =
     [i \in DOMAIN @ |-> IF i \in to .. to + n - 1 THEN cells[i - to + from] ELSE @[i]]]

\* _alloc_empty
Empty(n) == Terminated([cells |-> [i \in 0 .. n |-> Raw]], 0)

\* reserve: a new array, and as many characters as fit
Reserved(s, n) ==
  LET kept == Min({s.size, n})
  IN  Terminated(MovedIn(Empty(n), 0, s.cells, 0, kept), kept)

\* _extend_if_full
ExtendIfFull(s) ==
  IF s.size = Capacity(s)
  THEN Reserved(s, Capacity(s) + Capacity(s) \div 2 + 1) ELSE s

\* push_back
PushedBack(s, x) ==
  LET e == ExtendIfFull(s) IN Terminated([e EXCEPT !.cells[e.size] = x], e.size + 1)

\* _insert_from_cstring, of n characters from number from of another array,
\* and _insert_char: what is behind pos makes room
Inserted(s, pos, cells, from, n) ==
  LET room == IF s.size + n > Capacity(s) THEN Reserved(s, s.size + n) ELSE s
      shifted == MovedIn(room, pos + n, room.cells, pos, s.size - pos)
  IN  Terminated(MovedIn(shifted, pos, cells, from, n), s.size + n)

\* _remove_from_cstring
Removed(s, pos, n) ==
  Terminated(MovedIn(s, pos, s.cells, pos + n, s.size - pos - n), s.size - n)

-----------------------------------------------------------------------------
(* The operations.                                                         *)

\* Default construction
Init == string = [q \in Object |-> Empty(DefaultCapacity)]

\* May q have n characters?
Room(q, n) ==
  LET others == SumFunctionOnSet([p \in Object |-> string[p].size], Object \ {q})
  IN  n <= IF others = 0 THEN MaxSize ELSE MaxShared - others

\* Construction from characters, with no more capacity than they need, and of
\* an empty string with a capacity of n
Construct(q, chars, n) ==
  /\ n = Len(chars) \/ chars = << >>
  /\ Room(q, Len(chars))
  /\ string' = [string EXCEPT ![q] =
       Terminated([cells |-> [i \in 0 .. n |-> IF i < Len(chars) THEN chars[i + 1]
                                                                 ELSE Raw]], Len(chars))]

PushBack(q, x) ==
  /\ Room(q, string[q].size + 1)
  /\ string' = [string EXCEPT ![q] = PushedBack(@, x)]

\* Of a string that is not empty
PopBack(q) ==
  /\ string[q].size > 0
  /\ string' = [string EXCEPT ![q] = Terminated(@, @.size - 1)]

\* reserve and shrink_to_fit
Reserve(q, n) == string' = [string EXCEPT ![q] = Reserved(@, n)]

Clear(q) == string' = [string EXCEPT ![q] = Terminated(@, 0)]

\* insert and append of a part of another string
Insert(q, pos, o, from, n) ==
  /\ q # o
  /\ Room(q, string[q].size + n)
  /\ string' = [string EXCEPT ![q] = Inserted(@, pos, string[o].cells, from, n)]

\* insert and append of n times a character
InsertChar(q, pos, n, x) ==
  /\ Room(q, string[q].size + n)
  /\ string' = [string EXCEPT ![q] = Inserted(@, pos, [i \in 0 .. n |-> x], 0, n)]

\* erase; what goes beyond the end throws and changes nothing
Erase(q, pos, n) == string' = [string EXCEPT ![q] = Removed(@, pos, n)]

\* substr of another string, to which q is assigned
Substr(q, o, pos, n) ==
  /\ q # o
  /\ Room(q, n)
  /\ string' = [string EXCEPT ![q] =
       Terminated(MovedIn(Empty(n), 0, string[o].cells, pos, n), n)]

\* Copy construction and assignment take the capacity over, too
CopyAssign(q, o) ==
  /\ q # o
  /\ Room(q, string[o].size)
  /\ string' = [string EXCEPT ![q] =
       Terminated(MovedIn(Empty(Capacity(string[o])), 0, string[o].cells, 0,
                          string[o].size), string[o].size)]

\* Move construction and assignment leave o as one that was constructed
MoveAssign(q, o) ==
  /\ q # o
  /\ string' = [string EXCEPT ![q] = string[o], ![o] = Empty(DefaultCapacity)]

Swap(q, o) == string' = [string EXCEPT ![q] = string[o], ![o] = string[q]]

Next ==
  \/ \E q \in Object, x \in Value :
       \/ PushBack(q, x)
       \/ \E chars \in SeqOf(Value, MaxShared), n \in 0 .. MaxCapacity :
            Construct(q, chars, n)
       \/ \E pos \in 0 .. string[q].size, n \in 0 .. MaxShared : InsertChar(q, pos, n, x)
  \/ \E q \in Object :
       \/ PopBack(q) \/ Clear(q)
       \/ \E n \in 0 .. MaxCapacity : Reserve(q, n)
       \/ \E pos \in 0 .. string[q].size :
            \E n \in 0 .. string[q].size - pos : Erase(q, pos, n)
  \/ \E q, o \in Object :
       \/ CopyAssign(q, o) \/ MoveAssign(q, o) \/ Swap(q, o)
       \/ \E from \in 0 .. string[o].size :
            \E n \in 0 .. string[o].size - from :
              \/ Substr(q, o, from, n)
              \/ \E pos \in 0 .. string[q].size : Insert(q, pos, o, from, n)

Spec == Init /\ [][Next]_string

-----------------------------------------------------------------------------
(* Properties.                                                             *)

\* What c_str() shows is what the string holds: as many characters as size()
\* says, each of them written, and the terminator after them, inside the array.
TerminatorExact ==
  \A q \in Object :
    LET s == string[q]
    IN  /\ s.size <= Capacity(s)
        /\ \A i \in 0 .. s.size - 1 : s.cells[i] \in Value
        /\ s.cells[s.size] = Null

Content(q) == [i \in 1 .. string[q].size |-> string[q].cells[i - 1]]

Abstract == INSTANCE AbstractSequence WITH content <- [q \in Object |-> Content(q)]

\* n characters of o from number from on are put before number pos of q
Inserting(q, pos, part) ==
  Abstract!Become(q, SubSeq(Content(q), 1, pos) \o part
                       \o SubSeq(Content(q), pos + 1, string[q].size))

\* Each operation does to the characters what it does to a sequence, whether
\* or not the array grows, and however source and target of a move overlap.
Implementing ==
  /\ \A q \in Object, x \in Value :
       /\ PushBack(q, x) => Abstract!Insert(q, string[q].size + 1, x)
       /\ \A chars \in SeqOf(Value, MaxShared), n \in 0 .. MaxCapacity :
            Construct(q, chars, n) => Abstract!Become(q, chars)
       /\ \A pos \in 0 .. string[q].size, n \in 0 .. MaxShared :
            InsertChar(q, pos, n, x) => Inserting(q, pos, [i \in 1 .. n |-> x])
  /\ \A q \in Object :
       /\ PopBack(q) => Abstract!Erase(q, string[q].size)
       /\ Clear(q) => Abstract!Become(q, << >>)
       /\ \A n \in 0 .. MaxCapacity :
            Reserve(q, n) => Abstract!Resize(q, Min({n, string[q].size}), << >>)
       /\ \A pos \in 0 .. string[q].size : \A n \in 0 .. string[q].size - pos :
            Erase(q, pos, n) =>
              Abstract!Become(q, SubSeq(Content(q), 1, pos)
                                   \o SubSeq(Content(q), pos + n + 1, string[q].size))
  /\ \A q, o \in Object :
       /\ CopyAssign(q, o) => Abstract!Become(q, Content(o))
       /\ MoveAssign(q, o) => Abstract!Move(q, o)
       /\ Swap(q, o) => Abstract!Swap(q, o)
       /\ \A from \in 0 .. string[o].size : \A n \in 0 .. string[o].size - from :
            LET part == SubSeq(Content(o), from + 1, from + n)
            IN  /\ Substr(q, o, from, n) => Abstract!Become(q, part)
                /\ \A pos \in 0 .. string[q].size :
                     Insert(q, pos, o, from, n) => Inserting(q, pos, part)

=============================================================================
