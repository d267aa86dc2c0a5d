------------------------------- MODULE Arrays -------------------------------
(***************************************************************************)
(* The containers that keep their elements in arrays - deque, vector,      *)
(* basic_string and bitset - side by side: each object is changed by the   *)
(* operations of its own class only.                                       *)
(***************************************************************************)
EXTENDS Integers, SequencesExt

CONSTANTS Value,         \* the values of elements, or the characters
          DefaultValue,  \* that of value_type()
          Object,        \* the objects of each class
          Raw,           \* a cell that holds no object
          Moved,         \* a cell whose object was moved from
          NoBlock,       \* a null pointer in the map of a deque
          Terminator,    \* the character behind the last one of a string
          BlockSize,     \* _BLOCK_SIZE of deque
          DequeBlocks,   \* _DEFAULT_CAPACITY of deque,
          VectorCells,   \* of vector,
          StringCells,   \* and of basic_string
          BitsPerBlock, BitsetSizes,   \* Width and Sizes of Bitset
          DequeMax, DequeShared,    \* bounds: MaxSize and MaxShared of Deque,
          VectorMax, VectorShared, VectorRequest,   \* and those of Vector and
          StringMax, StringShared, StringRequest    \* BasicString, MaxCapacity too

\* What marks a cell or a block is no value, _create_empty_map makes eight
\* blocks, and a block has room for an element, or a bit
ASSUME ArraysAssumption ==
  /\ BlockSize \in Nat \ {0}
  /\ DequeBlocks \in Nat \ {0, 1} /\ VectorCells \in Nat /\ StringCells \in Nat
  /\ BitsPerBlock \in Nat \ {0} /\ BitsetSizes \subseteq Nat
  /\ DequeMax \in Nat /\ VectorMax \in Nat /\ VectorRequest \in Nat
  /\ StringShared \in Nat /\ StringRequest \in Nat
  /\ DefaultValue \in Value
  /\ Raw \notin Value /\ Moved \notin Value /\ Raw # Moved
  /\ NoBlock \notin [0 .. BlockSize - 1 -> Value \cup {Raw, Moved}]

VARIABLES deque, vector, string, Bits, array

D == INSTANCE Deque WITH Null <- NoBlock, DefaultCapacity <- DequeBlocks,
                         MaxSize <- DequeMax, MaxShared <- DequeShared

V == INSTANCE Vector WITH DefaultCapacity <- VectorCells,
                          MaxCapacity <- VectorRequest,
                          MaxSize <- VectorMax, MaxShared <- VectorShared

S == INSTANCE BasicString WITH Null <- Terminator, DefaultCapacity <- StringCells,
                               MaxCapacity <- StringRequest,
                               MaxSize <- StringMax, MaxShared <- StringShared

B == INSTANCE Bitset WITH Width <- BitsPerBlock, Sizes <- BitsetSizes

bits == << Bits, array >>
arrays == << deque, vector, string, bits >>

ArraysInit == D!Init /\ V!Init /\ S!Init /\ B!Init

ArraysNext ==
  \/ D!Next /\ UNCHANGED << vector, string, bits >>
  \/ V!Next /\ UNCHANGED << deque, string, bits >>
  \/ S!Next /\ UNCHANGED << deque, vector, bits >>
  \/ B!Next /\ UNCHANGED << deque, vector, string >>

ArraysSpec == ArraysInit /\ [][ArraysNext]_arrays

-----------------------------------------------------------------------------
(* Properties.                                                             *)

\* Deque and string: an object in the cell of every element, and in no other;
\* of a string the terminator behind them
CellsExact == D!CellsExact /\ S!TerminatorExact

\* What deque, vector and string do to the elements an iterator visits is what
\* their operations do to a sequence, whatever moves inside their arrays.  (The
\* comparisons say what the subscripts say; they keep TLC from evaluating
\* Implementing on the steps of the other containers.)
ArraysImplementSequence ==
  /\ D!Abstract!Init /\ [][deque' # deque => D!Implementing]_deque
  /\ V!Abstract!Init /\ [][vector' # vector => V!Implementing]_vector
  /\ S!Abstract!Init /\ [][string' # string => S!Implementing]_string

\* bitset: across blocks, operations do to the bits what they say
ActsOnBits == [][bits' # bits => B!Acting]_bits

=============================================================================
