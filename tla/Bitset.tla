------------------------------- MODULE Bitset -------------------------------
(***************************************************************************)
(* bitset of c_bitset.h: bits in blocks of a fixed width.  A block is the  *)
(* set of the places where it has ones; those of the last block that are   *)
(* not used have to stay zero, for count, any and == look at them.         *)
(***************************************************************************)
EXTENDS Integers, Sequences, FiniteSets

CONSTANTS Width,         \* _BITS_PER_BLOCK
          Sizes          \* the numbers of bits a bitset may be declared with

VARIABLES Bits,          \* the template parameter
          array          \* _array

vars == << Bits, array >>

Place == 0 .. Width - 1

\* _BLOCKS: the index of the last block
Last == IF Bits = 0 THEN 0 ELSE (Bits - 1) \div Width

TypeOK == Bits \in Sizes /\ array \in [0 .. Last -> SUBSET Place]

-----------------------------------------------------------------------------
(* Words.                                                                  *)

ShiftLeft(word, n) == {p + n : p \in word} \cap Place
ShiftRight(word, n) == {p - n : p \in word} \cap Place

\* _trim: the unused places of the last block are cleared
Trim(a) ==
  IF Bits = 0 \/ Bits % Width # 0
  THEN [a EXCEPT ![Last] = @ \cap (0 .. (Bits % Width) - 1)] ELSE a

\* _get_bit
Get(pos) == pos % Width \in array[pos \div Width]

-----------------------------------------------------------------------------
(* The operations.                                                         *)

Init == Bits \in Sizes /\ array = [b \in 0 .. Last |-> {}]

\* Mutation: thisBlock is not reset
PlacedOver(t, char) ==
  LET word == IF char = "1" THEN t.word \cup {t.bits} ELSE t.word
  IN  IF t.bits + 1 = Width
      THEN [array |-> [t.array EXCEPT ![t.block] = word],
            block |-> t.block + 1, bits |-> 0, word |-> word]
      ELSE [t EXCEPT !.bits = @ + 1, !.word = word]

\* The turn of the loop of _construct_from_cstring for one character
Placed(t, char) ==
  LET word == IF char = "1" THEN t.word \cup {t.bits} ELSE t.word
  IN  IF t.bits + 1 = Width
      THEN [array |-> [t.array EXCEPT ![t.block] = word],
            block |-> t.block + 1, bits |-> 0, word |-> {}]
      ELSE [t EXCEPT !.bits = @ + 1, !.word = word]

\* How many characters are read
Used(chars) == IF Len(chars) > Bits THEN Bits ELSE Len(chars)

\* _construct_from_cstring: from the last character that is used to the first,
\* word by word; then the word that was begun, and zeros.  a is the memory
Filled(a, chars) ==
  LET turn[i \in 0 .. Used(chars)] ==
        IF i = 0 THEN [array |-> a, block |-> 0, bits |-> 0, word |-> {}]
        ELSE Placed(turn[i - 1], chars[Used(chars) - i + 1])
      end == turn[Used(chars)]
  IN  [b \in 0 .. Last |-> IF b < end.block THEN end.array[b]
                           ELSE IF b = end.block /\ end.bits # 0 THEN end.word
                           ELSE {}]

\* Construction from a string of the two placeholders, "0" and "1"; another
\* character, also one behind those that are used, throws and nothing is
\* constructed.  The memory holds what the bitset before left there.
Construct(chars) == array' = Filled(array, chars) /\ UNCHANGED Bits

\* Construction from a number that fits a block, which _MASK cuts off at Bits
ConstructFromNumber(val) ==
  /\ array' = [b \in 0 .. Last |->
                 IF b # 0 THEN {}
                 ELSE IF Bits < Width THEN val \cap (0 .. Bits - 1) ELSE val]
  /\ UNCHANGED Bits

Combine(Op(_, _), other) ==
  /\ array' = [b \in 0 .. Last |-> Op(array[b], other[b])]
  /\ UNCHANGED Bits

\* operator<<=: by whole blocks, then by bits, each block taking over what
\* left the one below it
LeftShift(pos) ==
  LET blocks == pos \div Width
      bits == pos % Width
      a == [b \in 0 .. Last |-> IF blocks <= b THEN array[b - blocks] ELSE {}]
      carry(b) == IF b = 0 THEN {} ELSE ShiftRight(a[b - 1], Width - bits)
  IN  /\ array' = Trim([b \in 0 .. Last |-> ShiftLeft(a[b], bits) \cup carry(b)])
      /\ UNCHANGED Bits

\* operator>>=
RightShift(pos) ==
  LET blocks == pos \div Width
      bits == pos % Width
      a == [b \in 0 .. Last |-> IF blocks <= Last - b THEN array[b + blocks] ELSE {}]
      carry(b) == IF b = Last THEN {} ELSE ShiftLeft(a[b + 1], Width - bits)
  IN  /\ array' = [b \in 0 .. Last |-> ShiftRight(a[b], bits) \cup carry(b)]
      /\ UNCHANGED Bits

SetAll == array' = Trim([b \in 0 .. Last |-> Place]) /\ UNCHANGED Bits

ResetAll == array' = [b \in 0 .. Last |-> {}] /\ UNCHANGED Bits

FlipAll == array' = Trim([b \in 0 .. Last |-> Place \ array[b]]) /\ UNCHANGED Bits

\* set, reset and flip of one bit, and those of a reference to it; outside of
\* the bitset they throw and change nothing
SetBit(pos, to) ==
  /\ array' = [array EXCEPT ![pos \div Width] =
                 IF to THEN @ \cup {pos % Width} ELSE @ \ {pos % Width}]
  /\ UNCHANGED Bits

FlipBit(pos) == SetBit(pos, ~Get(pos))

\* The places of a bitset, and the ones among them
Positions == 0 .. Bits - 1
Ones == {pos \in Positions : Get(pos)}

\* Another bitset of the same size
Other(ones) == [b \in 0 .. Last |-> {p \in Place : b * Width + p \in ones}]

And(ones) == Combine(LAMBDA v, w : v \cap w, Other(ones))
Or(ones) == Combine(LAMBDA v, w : v \cup w, Other(ones))
Xor(ones) == Combine(LAMBDA v, w : (v \ w) \cup (w \ v), Other(ones))

\* Strings up to one that is longer than the bitset
Strings == UNION {[1 .. n -> {"0", "1"}] : n \in 0 .. Bits + 1}

Next ==
  \/ \E chars \in Strings : Construct(chars)
  \/ \E val \in SUBSET Place : ConstructFromNumber(val)
  \/ \E ones \in SUBSET Positions : And(ones) \/ Or(ones) \/ Xor(ones)
  \/ \E pos \in 0 .. Bits + 1 : LeftShift(pos) \/ RightShift(pos)
  \/ SetAll \/ ResetAll \/ FlipAll
  \/ \E pos \in Positions : \/ FlipBit(pos)
                            \/ \E to \in BOOLEAN : SetBit(pos, to)

Spec == Init /\ [][Next]_vars

-----------------------------------------------------------------------------
(* Properties.                                                             *)

\* popcount of every block
Count == Cardinality({c \in (0 .. Last) \X Place : c[2] \in array[c[1]]})

\* all()
All ==
  \/ Bits = 0
  \/ LET noPadding == Bits % Width = 0
     IN  /\ \A b \in 0 .. Last - (IF noPadding THEN 0 ELSE 1) : array[b] = Place
         /\ noPadding \/ array[Last] = 0 .. (Bits % Width) - 1

\* The bits a step leaves, as test() sees them
Becomes(ones) == Ones' = ones

\* What a string says: the last of the first Bits characters is position 0
Written(chars) == {k \in 0 .. Used(chars) - 1 : chars[Used(chars) - k] = "1"}

\* Across the boundaries of blocks, and with a last block that is partly,
\* wholly or not at all used, each operation does to the set of the ones what
\* its name says; no unused bit is ever set, so count, any and all, which look
\* at whole blocks, say what test says of the single bits.
Acting ==
  /\ Count' = Cardinality(Ones') /\ (All' <=> Ones' = Positions)
  /\ \A chars \in Strings : Construct(chars) => Becomes(Written(chars))
  /\ \A val \in SUBSET Place :
       ConstructFromNumber(val) => Becomes(val \cap Positions)
  /\ \A ones \in SUBSET Positions :
       /\ And(ones) => Becomes(Ones \cap ones)
       /\ Or(ones) => Becomes(Ones \cup ones)
       /\ Xor(ones) => Becomes((Ones \ ones) \cup (ones \ Ones))
  /\ \A n \in 0 .. Bits + 1 :
       /\ LeftShift(n) => Becomes({p + n : p \in Ones} \cap Positions)
       /\ RightShift(n) => Becomes({p - n : p \in Ones} \cap Positions)
  /\ SetAll => Becomes(Positions)
  /\ ResetAll => Becomes({})
  /\ FlipAll => Becomes(Positions \ Ones)
  /\ \A pos \in Positions :
       /\ SetBit(pos, TRUE) => Becomes(Ones \cup {pos})
       /\ SetBit(pos, FALSE) => Becomes(Ones \ {pos})

ActsOnBits == [][Acting]_vars

=============================================================================
