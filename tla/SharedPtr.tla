----------------------------- MODULE SharedPtr -----------------------------
(***************************************************************************)
(* shared_ptr, weak_ptr and enable_shared_from_this of c_memory.h, and the *)
(* reference counts of _Ref_Count_Base they work on.                       *)
(*                                                                         *)
(* Threads work on shared_ptr and weak_ptr variables.  The language makes  *)
(* them keep two accesses of one variable apart, so an operation reads and *)
(* writes its variables in one step; the counts are atomics shared by all, *)
(* and what an operation gives up it gives up later, step by step:         *)
(* --_uses, then, if that was the last, the destructor of the resource,    *)
(* then --_weaks, then, if that was the last, the control block itself.    *)
(*                                                                         *)
(* Aliasing pointers share the control block they alias and are not told   *)
(* apart from it.  Control blocks are not reused: Block bounds how many a  *)
(* behaviour creates.                                                      *)
(***************************************************************************)
EXTENDS Integers, FiniteSets

CONSTANTS Thread,        \* the threads
          Shared,        \* the shared_ptr variables
          Weak,          \* the weak_ptr variables
          Block,         \* the control blocks, each with its resource
          NoBlock,       \* the null _rep
          LockExpired    \* do clients lock weak_ptrs that may have expired?

ASSUME NoBlockAssumption == NoBlock \notin Block /\ LockExpired \in BOOLEAN

\* A program has so many threads and variables at a time, and no more
ASSUME FiniteAssumption ==
  IsFiniteSet(Thread) /\ IsFiniteSet(Shared) /\ IsFiniteSet(Weak)

VARIABLES uses,          \* _uses
          weaks,         \* _weaks
          block,         \* the control block: "raw", "live" or "freed"
          resource,      \* the managed resource: "raw", "live" or "dead"
          esft,          \* does it derive from enable_shared_from_this?
          sp, wp,        \* _rep of every shared_ptr and weak_ptr
          stage,         \* what each thread has still to do ...
          target         \* ... and to which control block

counts == << uses, weaks >>
memory == << block, resource, esft >>
vars == << uses, weaks, block, resource, esft, sp, wp, stage, target >>

Stage ==
  { "none",
    "decref",       \* decref: about to decrement _uses
    "destroy",      \* _uses reached 0: about to destroy the resource
    "decwref",      \* decwref: about to decrement _weaks
    "delete" }      \* _weaks reached 0: about to free the control block

TypeOK ==
  /\ uses \in [Block -> Nat]
  /\ weaks \in [Block -> Nat]
  /\ block \in [Block -> {"raw", "live", "freed"}]
  /\ resource \in [Block -> {"raw", "live", "dead"}]
  /\ esft \in [Block -> BOOLEAN]
  /\ sp \in [Shared -> Block \cup {NoBlock}]
  /\ wp \in [Weak -> Block \cup {NoBlock}]
  /\ stage \in [Thread -> Stage]
  /\ target \in [Thread -> Block \cup {NoBlock}]

Init ==
  /\ uses = [b \in Block |-> 0]
  /\ weaks = [b \in Block |-> 0]
  /\ block = [b \in Block |-> "raw"]
  /\ resource = [b \in Block |-> "raw"]
  /\ esft = [b \in Block |-> FALSE]
  /\ sp = [h \in Shared |-> NoBlock]
  /\ wp = [w \in Weak |-> NoBlock]
  /\ stage = [t \in Thread |-> "none"]
  /\ target = [t \in Thread |-> NoBlock]

-----------------------------------------------------------------------------
(* Steps on the counts.                                                    *)

\* f with its value at b changed by d; the null _rep is left alone
Add(f, b, d) == IF b = NoBlock THEN f ELSE [f EXCEPT ![b] = @ + d]

\* The old _rep of a variable goes to a temporary whose destructor runs
\* next: _decref of a shared_ptr, _decwref of a weak_ptr
GiveUp(t, b, s) ==
  /\ stage' = [stage EXCEPT ![t] = IF b = NoBlock THEN "none" ELSE s]
  /\ target' = [target EXCEPT ![t] = b]

Finish(t) ==
  /\ stage' = [stage EXCEPT ![t] = "none"]
  /\ target' = [target EXCEPT ![t] = NoBlock]

Continue(t, s) ==
  /\ stage' = [stage EXCEPT ![t] = s]
  /\ UNCHANGED target

Idle(t) == stage[t] = "none"

-----------------------------------------------------------------------------
(* shared_ptr.                                                             *)

\* A shared_ptr that takes ownership of a new resource, assigned to h:
\* make_shared, the constructors from a pointer, reset(ptr), from unique_ptr.
\* If the resource derives from enable_shared_from_this, its _wptr is set.
Construct(t, h) ==
  /\ Idle(t)
  /\ \E b \in Block, e \in BOOLEAN :
       /\ block[b] = "raw" /\ resource[b] = "raw"
       /\ block' = [block EXCEPT ![b] = "live"]
       /\ resource' = [resource EXCEPT ![b] = "live"]
       /\ esft' = [esft EXCEPT ![b] = e]
       /\ uses' = [uses EXCEPT ![b] = 1]
       /\ weaks' = [weaks EXCEPT ![b] = IF e THEN 2 ELSE 1]
       /\ sp' = [sp EXCEPT ![h] = b]
  /\ GiveUp(t, sp[h], "decref")
  /\ UNCHANGED wp

\* There is no memory for the control block: _Temporary_Owner_Del deletes
\* the resource
ConstructFails(t) ==
  /\ Idle(t)
  /\ \E b \in Block : /\ block[b] = "raw" /\ resource[b] = "raw"
                      /\ resource' = [resource EXCEPT ![b] = "dead"]
  /\ UNCHANGED << counts, block, esft, sp, wp, stage, target >>

\* Mutation: the new owner is not counted
CopySharedUncounted(t, h, g) ==
  /\ Idle(t)
  /\ sp' = [sp EXCEPT ![h] = sp[g]]
  /\ GiveUp(t, sp[h], "decref")
  /\ UNCHANGED << counts, memory, wp >>

\* Copy construction and copy assignment of h from g; the assignment counts
\* the new owner before it lets go of the old one
CopyShared(t, h, g) ==
  /\ Idle(t)
  /\ uses' = Add(uses, sp[g], 1)
  /\ sp' = [sp EXCEPT ![h] = sp[g]]
  /\ GiveUp(t, sp[h], "decref")
  /\ UNCHANGED << weaks, memory, wp >>

\* Mutation: the source of a move keeps the pointer
MoveSharedCopying(t, h, g) ==
  /\ Idle(t)
  /\ sp' = [sp EXCEPT ![h] = sp[g]]
  /\ GiveUp(t, sp[h], "decref")
  /\ UNCHANGED << counts, memory, wp >>

\* Move construction and move assignment; a self-move keeps the pointer
MoveShared(t, h, g) ==
  /\ Idle(t)
  /\ IF h = g
     THEN UNCHANGED << sp, stage, target >>
     ELSE /\ sp' = [sp EXCEPT ![h] = sp[g], ![g] = NoBlock]
          /\ GiveUp(t, sp[h], "decref")
  /\ UNCHANGED << counts, memory, wp >>

\* swap
SwapShared(t, h, g) ==
  /\ Idle(t)
  /\ sp' = [sp EXCEPT ![h] = sp[g], ![g] = sp[h]]
  /\ UNCHANGED << counts, memory, wp, stage, target >>

\* reset and the destructor
ResetShared(t, h) ==
  /\ Idle(t)
  /\ sp[h] # NoBlock
  /\ sp' = [sp EXCEPT ![h] = NoBlock]
  /\ GiveUp(t, sp[h], "decref")
  /\ UNCHANGED << counts, memory, wp >>

\* weak_ptr::lock and the constructor from a weak_ptr, by
\* _construct_from_weak: the use count is incremented whatever it is.
\* Clients that keep an owner alive meanwhile never see it 0.
LockWeak(t, h, w) ==
  /\ Idle(t)
  /\ ~LockExpired /\ wp[w] # NoBlock => uses[wp[w]] > 0
  /\ uses' = Add(uses, wp[w], 1)
  /\ sp' = [sp EXCEPT ![h] = wp[w]]
  /\ GiveUp(t, sp[h], "decref")
  /\ UNCHANGED << weaks, memory, wp >>

-----------------------------------------------------------------------------
(* weak_ptr.                                                               *)

\* Construction or assignment of w from a pointer to b, by _weak_construct;
\* the move constructor of weak_ptr does just the same and leaves its
\* argument as it was
WeakTo(t, w, b) ==
  /\ Idle(t)
  /\ weaks' = Add(weaks, b, 1)
  /\ wp' = [wp EXCEPT ![w] = b]
  /\ GiveUp(t, wp[w], "decwref")
  /\ UNCHANGED << uses, memory, sp >>

\* From a shared_ptr, or by weak_from_this of the resource it owns
WeakFromShared(t, w, h) == WeakTo(t, w, sp[h])

WeakFromWeak(t, w, v) == WeakTo(t, w, wp[v])

ResetWeak(t, w) ==
  /\ Idle(t)
  /\ wp[w] # NoBlock
  /\ wp' = [wp EXCEPT ![w] = NoBlock]
  /\ GiveUp(t, wp[w], "decwref")
  /\ UNCHANGED << counts, memory, sp >>

-----------------------------------------------------------------------------
(* _Ref_Count_Base, run by the destructor of the temporary.                *)

Decref(t) ==
  /\ stage[t] = "decref"
  /\ uses' = Add(uses, target[t], -1)
  /\ IF uses'[target[t]] = 0 THEN Continue(t, "destroy") ELSE Finish(t)
  /\ UNCHANGED << weaks, memory, sp, wp >>

\* Mutation: decref does not go on to decwref
DestroyResourceOnly(t) ==
  /\ stage[t] = "destroy"
  /\ resource' = [resource EXCEPT ![target[t]] = "dead"]
  /\ weaks' = IF esft[target[t]] THEN Add(weaks, target[t], -1) ELSE weaks
  /\ Finish(t)
  /\ UNCHANGED << uses, block, esft, sp, wp >>

\* _destroy: the deleter; the resource's own _wptr is destroyed with it
DestroyResource(t) ==
  /\ stage[t] = "destroy"
  /\ resource' = [resource EXCEPT ![target[t]] = "dead"]
  /\ weaks' = IF esft[target[t]] THEN Add(weaks, target[t], -1) ELSE weaks
  /\ block' = IF weaks'[target[t]] = 0
              THEN [block EXCEPT ![target[t]] = "freed"] ELSE block
  /\ Continue(t, "decwref")
  /\ UNCHANGED << uses, esft, sp, wp >>

\* Mutation: off by one in the test for the last weak reference
DecwrefEarly(t) ==
  /\ stage[t] = "decwref"
  /\ weaks' = Add(weaks, target[t], -1)
  /\ IF weaks'[target[t]] <= 1 THEN Continue(t, "delete") ELSE Finish(t)
  /\ UNCHANGED << uses, memory, sp, wp >>

Decwref(t) ==
  /\ stage[t] = "decwref"
  /\ weaks' = Add(weaks, target[t], -1)
  /\ IF weaks'[target[t]] = 0 THEN Continue(t, "delete") ELSE Finish(t)
  /\ UNCHANGED << uses, memory, sp, wp >>

\* _delete_this
DeleteBlock(t) ==
  /\ stage[t] = "delete"
  /\ block' = [block EXCEPT ![target[t]] = "freed"]
  /\ Finish(t)
  /\ UNCHANGED << counts, resource, esft, sp, wp >>

-----------------------------------------------------------------------------

Release(t) ==
  Decref(t) \/ DestroyResource(t) \/ Decwref(t) \/ DeleteBlock(t)

Operate(t) ==
  \/ \E h \in Shared : Construct(t, h) \/ ResetShared(t, h)
  \/ ConstructFails(t)
  \/ \E h, g \in Shared : \/ CopyShared(t, h, g)
                          \/ MoveShared(t, h, g)
                          \/ SwapShared(t, h, g)
  \/ \E h \in Shared, w \in Weak : LockWeak(t, h, w) \/ WeakFromShared(t, w, h)
  \/ \E w, v \in Weak : WeakFromWeak(t, w, v)
  \/ \E w \in Weak : ResetWeak(t, w)

Next == \E t \in Thread : Operate(t) \/ Release(t)

Spec == Init /\ [][Next]_vars

-----------------------------------------------------------------------------
(* Properties.                                                             *)

SharedTo(b) == {h \in Shared : sp[h] = b}
WeakRefs(b) == {w \in Weak : wp[w] = b}
At(s, b) == {t \in Thread : stage[t] = s /\ target[t] = b}

\* The counts are those of the pointers there are and of the decrements
\* still to come: all owners together hold one weak reference, which passes
\* to the thread that destroys the resource, and an enable_shared_from_this
\* resource holds one to itself
CountsExact ==
  \A b \in Block : block[b] = "live" =>
    /\ uses[b] = Cardinality(SharedTo(b)) + Cardinality(At("decref", b))
    /\ weaks[b] = Cardinality(WeakRefs(b)) + Cardinality(At("decwref", b))
                  + (IF uses[b] > 0 \/ At("destroy", b) # {} THEN 1 ELSE 0)
                  + (IF esft[b] /\ resource[b] = "live" THEN 1 ELSE 0)

\* A shared_ptr owns a resource that exists, and a weak_ptr refers to a
\* control block that does
OwnedIsAlive ==
  /\ \A h \in Shared : sp[h] # NoBlock =>
       resource[sp[h]] = "live" /\ block[sp[h]] = "live"
  /\ \A w \in Weak : wp[w] # NoBlock => block[wp[w]] = "live"

\* One thread destroys a resource, one frees a control block, once, and no
\* thread touches the counts of a freed one
ReleasedOnce ==
  \A t, u \in Thread :
    /\ stage[t] # "none" => block[target[t]] = "live"
    /\ stage[t] = "destroy" => resource[target[t]] = "live"
    /\ (stage[t] \in {"destroy", "delete"} /\ stage[u] = stage[t]
        /\ target[u] = target[t]) => t = u

\* When no operation is under way, what nobody owns has been destroyed and
\* what nobody refers to has been freed
NoLeak ==
  (\A t \in Thread : Idle(t)) =>
    \A b \in Block :
      /\ resource[b] = "live" => SharedTo(b) # {}
      /\ block[b] = "live" => SharedTo(b) # {} \/ WeakRefs(b) # {}

=============================================================================
