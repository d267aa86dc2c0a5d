---------------------------- MODULE AbstractMap ----------------------------
(***************************************************************************)
(* What an associative container of the library promises, seen through     *)
(* find: each container object holds a set of keys, and every operation    *)
(* changes what is found, and in which object, in one step.                *)
(***************************************************************************)
CONSTANTS Key,           \* the keys
          Map            \* the container objects

VARIABLE content         \* the keys each container holds

Init == content = [m \in Map |-> {}]

Emplace(m, k) == content' = [content EXCEPT ![m] = @ \cup {k}]

Erase(m, k) == content' = [content EXCEPT ![m] = @ \ {k}]

Clear(m) == content' = [content EXCEPT ![m] = {}]

CopyAssign(m, o) == content' = [content EXCEPT ![m] = content[o]]

MoveAssign(m, o) ==
  /\ m # o
  /\ content' = [content EXCEPT ![m] = content[o], ![o] = {}]

\* What an operation does to the table beside its elements
Hidden == UNCHANGED content

Next ==
  \/ \E m \in Map, k \in Key : Emplace(m, k) \/ Erase(m, k)
  \/ \E m \in Map : Clear(m)
  \/ \E m, o \in Map : CopyAssign(m, o) \/ MoveAssign(m, o)

Spec == Init /\ [][Next]_content

=============================================================================
