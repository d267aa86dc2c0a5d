----------------------------- MODULE HashTable -----------------------------
(***************************************************************************)
(* _Hash_Table of x_hash_table.h, under unordered_map and unordered_set: a *)
(* list of the elements, in which those of one bucket are next to each     *)
(* other, and a vector of buckets, each with the number of its elements    *)
(* and a pointer to the first.                                             *)
(*                                                                         *)
(* A table has one node per key; the node of key k in the list of table m  *)
(* is << m, k >>, and follows the list when that is moved to another       *)
(* table.  Mapped values play no part.  The nodes a copied bucket vector   *)
(* leads to are those of the other table: clients modelled here do not     *)
(* look keys up in such a table before they cleared, rehashed or assigned  *)
(* it, and neither in a moved-from table, which has no buckets.            *)
(***************************************************************************)
EXTENDS Integers, SequencesExt

CONSTANTS Key,           \* the keys
          Hash,          \* _hash of each key
          Table,         \* the table objects
          Null,          \* nullptr
          Freed,         \* a pointer to a node that is gone
          DefaultBuckets,\* _DEFAULT_BUCKETS
          Requests,      \* bound: the bucket counts clients ask for
          MaxNodes,      \* bound: elements of a table while no other has any
          MaxShared      \* bound: elements of all tables otherwise

ASSUME TableAssumption ==
  /\ Hash \in [Key -> Nat]
  /\ DefaultBuckets \in Nat \ {0}
  /\ Null \notin Table \X Key /\ Freed \notin Table \X Key
  /\ Requests \subseteq Nat /\ MaxNodes \in Nat /\ MaxShared \in Nat

VARIABLES table,         \* the list and the buckets of each table
          borrowing      \* the tables whose buckets were copied from others
                         \* with elements

vars == << table, borrowing >>

Pointer == (Table \X Key) \cup {Null, Freed}
Bucket == [count : Nat, first : Pointer]

BucketCount(t) == Cardinality(DOMAIN t.buckets)

TypeOK ==
  /\ borrowing \subseteq Table
  /\ \A m \in Table :
       /\ DOMAIN table[m] = {"list", "buckets"}
       /\ table[m].list \in Seq(Key)
       /\ DOMAIN table[m].buckets = 0 .. BucketCount(table[m]) - 1
       /\ \A i \in DOMAIN table[m].buckets : table[m].buckets[i] \in Bucket

-----------------------------------------------------------------------------
(* Reading a table.                                                        *)

BucketOf(t, k) == Hash[k] % BucketCount(t)

Position(list, k) == CHOOSE j \in DOMAIN list : list[j] = k

\* The elements find walks through: as many as the bucket counts, from the
\* first one on
Chain(t, i) ==
  LET b == t.buckets[i]
      from == Position(t.list, b.first[2])
  IN  IF b.count = 0 THEN << >>
      ELSE SubSeq(t.list, from, from + b.count - 1)

Find(t, k) == k \in ToSet(Chain(t, BucketOf(t, k)))

\* _min_load_factor_buckets: size / 0.75, rounded up
MinBuckets(size) == (4 * size + 2) \div 3

\* A table in which keys can be looked up
Usable(m) == BucketCount(table[m]) > 0 /\ m \notin borrowing

-----------------------------------------------------------------------------
(* Changing a table.                                                       *)

Blank(n) == [i \in 0 .. n - 1 |-> [count |-> 0, first |-> Null]]

Grown(b, m, k) == [count |-> b.count + 1, first |-> << m, k >>]

\* _link_node_before
LinkBefore(list, at, k) == InsertAt(list, Position(list, at), k)

\* _map_and_link_node: the new node is the first one of bucket i, in front
\* of the others, and the last one of the list if there are none
MapAndLink(t, m, i, k) ==
  LET b == t.buckets[i]
  IN  [list |-> IF b.count = 0 THEN Append(t.list, k)
                ELSE LinkBefore(t.list, b.first[2], k),
       buckets |-> [t.buckets EXCEPT ![i] = Grown(b, m, k)]]

\* One turn of the loop of _force_rehash: the first node of a bucket stays
\* where it is, the others are relinked in front of it
Remap(t, m, k) ==
  LET i == BucketOf(t, k)
      b == t.buckets[i]
  IN  [list |-> IF b.count = 0 THEN t.list
                ELSE LinkBefore(RemoveAt(t.list, Position(t.list, k)), b.first[2], k),
       buckets |-> [t.buckets EXCEPT ![i] = Grown(b, m, k)]]

ForceRehash(t, m, n) ==
  LET turn[j \in 0 .. Len(t.list)] ==
        IF j = 0 THEN [list |-> t.list, buckets |-> Blank(n)]
        ELSE Remap(turn[j - 1], m, t.list[j])
  IN  turn[Len(t.list)]

\* _rehash_if_overload: the load factor with one more element may not exceed
\* 0.75
RehashIfOverload(t, m) ==
  IF 4 * (Len(t.list) + 1) > 3 * BucketCount(t)
  THEN ForceRehash(t, m, 2 * BucketCount(t)) ELSE t

\* The buckets rehash makes for a request of n: the elements need some
Wanted(t, n) == Max({MinBuckets(Len(t.list)), n})

\* erase of a key that is there
Unlinked(t, m, k) ==
  LET place == Position(t.list, k)
  IN  [list |-> RemoveAt(t.list, place),
       buckets |-> [t.buckets EXCEPT ![BucketOf(t, k)] =
         [count |-> @.count - 1,
          first |-> IF @.first # << m, k >> THEN @.first
                    ELSE IF @.count = 1 THEN Null ELSE << m, t.list[place + 1] >>]]]

\* Every pointer p of the buckets of t becomes f(p)
Repointed(t, f(_)) ==
  [t EXCEPT !.buckets =
     [i \in DOMAIN @ |-> [count |-> @[i].count, first |-> f(@[i].first)]]]

\* The pointers to the nodes of keys in table m are left dangling
Dropped(t, m, keys) ==
  Repointed(t, LAMBDA p : IF p \in {m} \X keys THEN Freed ELSE p)

\* The nodes of o become nodes of m, whose own are gone
Handed(t, m, o) ==
  Repointed(t, LAMBDA p : IF p \in {o} \X Key THEN << m, p[2] >>
                          ELSE IF p \in {m} \X Key THEN Freed ELSE p)

-----------------------------------------------------------------------------
(* The operations.                                                         *)

Init ==
  /\ table = [m \in Table |-> [list |-> << >>, buckets |-> Blank(DefaultBuckets)]]
  /\ borrowing = {}

\* May m have n elements?
Room(m, n) ==
  LET others == {p \in (Table \ {m}) \X Key : p[2] \in ToSet(table[p[1]].list)}
  IN  IF others = {} THEN n <= MaxNodes
                     ELSE n + Cardinality(others) <= MaxShared

\* emplace, try_emplace and operator[].  A key that is there is found and its
\* new node freed again: nothing changes.
Emplace(m, k) ==
  /\ Usable(m)
  /\ ~Find(table[m], k)
  /\ Room(m, Len(table[m].list) + 1)
  /\ LET grown == RehashIfOverload(table[m], m)
     IN  table' = [table EXCEPT ![m] =
                     MapAndLink(grown, m, BucketOf(grown, k), k)]
  /\ UNCHANGED borrowing

\* Mutation: the first element of the bucket is the one that goes
EraseFirst(m, k) ==
  /\ Usable(m)
  /\ Find(table[m], k)
  /\ LET first == Chain(table[m], BucketOf(table[m], k))[1]
     IN  table' = [o \in Table |-> IF o = m THEN Unlinked(table[m], m, first)
                                   ELSE Dropped(table[o], m, {first})]
  /\ UNCHANGED borrowing

\* A key that is not there is not erased: nothing changes
Erase(m, k) ==
  /\ Usable(m)
  /\ Find(table[m], k)
  /\ table' = [o \in Table |-> IF o = m THEN Unlinked(table[m], m, k)
                                        ELSE Dropped(table[o], m, {k})]
  /\ UNCHANGED borrowing

\* rehash, reserve for as many elements as these buckets are for, and
\* construction with a number of buckets.  Where there are enough of them
\* nothing changes.  Any table can be rehashed: it only reads the list.
Rehash(m, n) ==
  /\ Wanted(table[m], n) > BucketCount(table[m])
  /\ table' = [table EXCEPT ![m] = ForceRehash(@, m, Wanted(@, n))]
  /\ borrowing' = borrowing \ {m}

Clear(m) ==
  /\ table' = [o \in Table |->
                 IF o = m
                 THEN [list |-> << >>, buckets |-> Blank(BucketCount(table[m]))]
                 ELSE Dropped(table[o], m, Key)]
  /\ borrowing' = borrowing \ {m}

\* Copy construction and copy assignment of m from o: the list gets nodes of
\* its own, the buckets are copied as they are
CopyAssign(m, o) ==
  /\ m # o
  /\ Room(m, Len(table[o].list))
  /\ LET left == [x \in Table |-> Dropped(table[x], m, Key)]
     IN  table' = [left EXCEPT ![m] = [list |-> table[o].list,
                                       buckets |-> left[o].buckets]]
  /\ borrowing' = IF o \in borrowing \/ table[o].list # << >>
                  THEN borrowing \cup {m} ELSE borrowing \ {m}

\* Move construction and move assignment of m from o: o is left without
\* elements and without buckets
MoveAssign(m, o) ==
  /\ m # o
  /\ table' = [x \in Table |->
                 IF x = o THEN [list |-> << >>, buckets |-> Blank(0)]
                 ELSE Handed(table[IF x = m THEN o ELSE x], m, o)]
  /\ borrowing' = IF o \in borrowing THEN (borrowing \ {o}) \cup {m}
                  ELSE borrowing \ {m}

Next ==
  \/ \E m \in Table, k \in Key : Emplace(m, k) \/ Erase(m, k)
  \/ \E m \in Table, n \in Requests : Rehash(m, n)
  \/ \E m \in Table : Clear(m)
  \/ \E m, o \in Table : CopyAssign(m, o) \/ MoveAssign(m, o)

Spec == Init /\ [][Next]_vars

-----------------------------------------------------------------------------
(* Safety.                                                                 *)

\* Whatever emplaces, erasures and rehashes relinked, no element is in the list
\* twice, the elements of a bucket are next to each other in it, from the one the
\* bucket leads to, and its count is exact: find, which walks that far, sees all
\* of them and no others.
ChainsExact ==
  \A m \in Table :
    Usable(m) =>
      LET t == table[m]
      IN  /\ IsInjective(t.list)
          /\ \A i \in DOMAIN t.buckets :
            LET mine == {j \in DOMAIN t.list : BucketOf(t, t.list[j]) = i}
                b == t.buckets[i]
            IN  \E from \in 1 .. Len(t.list) + 1 :
                  /\ mine = from .. from + b.count - 1
                  /\ b.first = IF mine = {} THEN Null ELSE << m, t.list[from] >>
                  /\ Chain(t, i) = SubSeq(t.list, from, from + b.count - 1)

\* "don't violate bucket_count() >= size() / max_load_factor()" (rehash): no
\* operation, whatever went before it, leaves a table with more elements than
\* three for four buckets.
LoadBounded ==
  \A m \in Table : 4 * Len(table[m].list) <= 3 * BucketCount(table[m])

\* The buckets are exact, and there are enough of them
BucketsExact == ChainsExact /\ LoadBounded

\* The keys find finds in a table, and those it should where it cannot be used
Content(m) ==
  IF Usable(m) THEN {k \in Key : Find(table[m], k)} ELSE ToSet(table[m].list)

Abstract == INSTANCE AbstractMap WITH Map <- Table,
                                      content <- [m \in Table |-> Content(m)]

\* Each operation does to the keys that are found what it does in the abstract
\* map, and changes nothing in any other table; a copy, and a table moved
\* from, finds its contents again once it is rehashed.
Implementing ==
  /\ \A m \in Table, k \in Key : /\ Emplace(m, k) => Abstract!Emplace(m, k)
                                /\ Erase(m, k) => Abstract!Erase(m, k)
  /\ \A m \in Table : /\ Clear(m) => Abstract!Clear(m)
                     /\ \A n \in Requests : Rehash(m, n) => Abstract!Hidden
  /\ \A m, o \in Table : /\ CopyAssign(m, o) => Abstract!CopyAssign(m, o)
                        /\ MoveAssign(m, o) => Abstract!MoveAssign(m, o)

\* (The comparison says what the subscript says; it keeps TLC from evaluating
\* Implementing on the steps of other containers.)
ImplementsMap == Abstract!Init /\ [][vars' # vars => Implementing]_vars

\* x_hash_table.h says of _buckets: "Used to map elems from _Iter_List".  The
\* buckets of a table lead to elements of its own list.
BucketsMapOwnElements ==
  \A m \in Table : \A i \in DOMAIN table[m].buckets :
    table[m].buckets[i].first \in {Null} \cup ({m} \X ToSet(table[m].list))

=============================================================================
