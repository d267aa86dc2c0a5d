---------------------------- MODULE ThreadHandle ----------------------------
(***************************************************************************)
(* thread of c_thread.h: objects that name a pthread, as the main thread   *)
(* uses them, and the callable that is handed to the new thread.           *)
(*                                                                         *)
(* pthread_create, pthread_join and pthread_detach are external: an id is  *)
(* unused until a thread is created with it, and again when the thread has *)
(* ended and was joined or detached.                                       *)
(***************************************************************************)
EXTENDS Naturals

CONSTANTS Id,            \* the values of pthread_t
          NoId,          \* 0
          Object,        \* the thread objects
          Absent         \* an object that is not constructed

VARIABLES object,        \* _thread of each object
          pthread,       \* what each pthread does
          detached,      \* the ids of detached threads
          freed,         \* how often the callable of a thread was deleted
          main           \* where the main thread is, and about which thread

vars == << object, pthread, detached, freed, main >>

TypeOK ==
  /\ object \in [Object -> Id \cup {NoId, Absent}]
  /\ pthread \in [Id -> {"unused", "started", "running", "ended"}]
  /\ detached \subseteq Id
  /\ freed \in [Id -> Nat]
  /\ main \in [at : {"idle", "terminated"}, id : {NoId}]
                \cup [at : {"created", "join"}, id : Id]

Init ==
  /\ object = [o \in Object |-> Absent]
  /\ pthread = [i \in Id |-> "unused"]
  /\ detached = {}
  /\ freed = [i \in Id |-> 0]
  /\ main = [at |-> "idle", id |-> NoId]

Idle == main = [at |-> "idle", id |-> NoId]

Joinable(o) == object[o] \in Id

\* std::terminate: the program is over
Terminate ==
  /\ main' = [at |-> "terminated", id |-> NoId]
  /\ UNCHANGED << object, pthread, detached, freed >>

-----------------------------------------------------------------------------
(* The main thread.                                                        *)

\* thread(): names no thread
DefaultConstruct(o) ==
  /\ Idle /\ object[o] = Absent
  /\ object' = [object EXCEPT ![o] = NoId]
  /\ UNCHANGED << pthread, detached, freed, main >>

\* thread(func, args...): the callable is allocated and pthread_create
\* returns.  Where it fails the constructor throws, and nothing is left.
Construct(o) ==
  /\ Idle /\ object[o] = Absent
  /\ \E i \in Id :
       /\ pthread[i] = "unused"
       /\ object' = [object EXCEPT ![o] = i]
       /\ pthread' = [pthread EXCEPT ![i] = "started"]
       /\ freed' = [freed EXCEPT ![i] = 0]
       /\ main' = [at |-> "created", id |-> i]
  /\ UNCHANGED detached

\* Mutation: the constructor keeps the callable, and deletes it at its end
ReleaseCallableKept ==
  /\ main.at = "created"
  /\ main' = [at |-> "idle", id |-> NoId]
  /\ freed' = [freed EXCEPT ![main.id] = @ + 1]
  /\ UNCHANGED << object, pthread, detached >>

\* ... and the unique_ptr gives the callable up: the new thread, which may
\* have begun meanwhile, or ended, deletes it
ReleaseCallable ==
  /\ main.at = "created"
  /\ main' = [at |-> "idle", id |-> NoId]
  /\ UNCHANGED << object, pthread, detached, freed >>

\* Mutation: the object moved from keeps the id
MoveCopying(o, p) ==
  /\ object' = [object EXCEPT ![o] = object[p]]
  /\ UNCHANGED << pthread, detached, freed, main >>

\* _move
Move(o, p) ==
  /\ object' = [object EXCEPT ![o] = object[p], ![p] = NoId]
  /\ UNCHANGED << pthread, detached, freed, main >>

MoveConstruct(o, p) ==
  /\ Idle /\ object[o] = Absent /\ object[p] # Absent
  /\ Move(o, p)

\* Assignment to an object that still names a thread terminates
MoveAssign(o, p) ==
  /\ Idle /\ object[o] # Absent /\ object[p] # Absent
  /\ object[o] # object[p]
  /\ IF Joinable(o) THEN Terminate ELSE Move(o, p)

\* So does the destructor
Destroy(o) ==
  /\ Idle /\ object[o] # Absent
  /\ IF Joinable(o) THEN Terminate
     ELSE /\ object' = [object EXCEPT ![o] = Absent]
          /\ UNCHANGED << pthread, detached, freed, main >>

\* join of an object that names a thread; without one it throws
Join(o) ==
  /\ Idle /\ Joinable(o)
  /\ main' = [at |-> "join", id |-> object[o]]
  /\ UNCHANGED << object, pthread, detached, freed >>

\* Mutation: join does not wait
JoinReturnsAtOnce(o) ==
  /\ main = [at |-> "join", id |-> object[o]]
  /\ pthread' = [pthread EXCEPT ![object[o]] = "unused"]
  /\ object' = [object EXCEPT ![o] = NoId]
  /\ main' = [at |-> "idle", id |-> NoId]
  /\ UNCHANGED << detached, freed >>

\* pthread_join returns when the thread has ended, and the object names none
JoinReturns(o) ==
  /\ main = [at |-> "join", id |-> object[o]]
  /\ pthread[object[o]] = "ended"
  /\ pthread' = [pthread EXCEPT ![object[o]] = "unused"]
  /\ object' = [object EXCEPT ![o] = NoId]
  /\ main' = [at |-> "idle", id |-> NoId]
  /\ UNCHANGED << detached, freed >>

\* detach: the id is free at once if the thread has ended, and when it ends
\* otherwise
Detach(o) ==
  /\ Idle /\ Joinable(o)
  /\ LET i == object[o]
     IN  /\ object' = [object EXCEPT ![o] = NoId]
         /\ IF pthread[i] = "ended"
            THEN pthread' = [pthread EXCEPT ![i] = "unused"] /\ UNCHANGED detached
            ELSE detached' = detached \cup {i} /\ UNCHANGED pthread
  /\ UNCHANGED << freed, main >>

-----------------------------------------------------------------------------
(* A thread.                                                               *)

Alive == main.at # "terminated"

\* _invoke_impl calls the function
Begin(i) ==
  /\ Alive /\ pthread[i] = "started"
  /\ pthread' = [pthread EXCEPT ![i] = "running"]
  /\ UNCHANGED << object, detached, freed, main >>

\* The function returns, and the unique_ptr of _invoke_impl deletes the
\* callable
End(i) ==
  /\ Alive /\ pthread[i] = "running"
  /\ freed' = [freed EXCEPT ![i] = @ + 1]
  /\ pthread' = [pthread EXCEPT ![i] = IF i \in detached THEN "unused" ELSE "ended"]
  /\ detached' = detached \ {i}
  /\ UNCHANGED << object, main >>

\* The function throws through the noexcept of _invoke_impl
Throw(i) == Alive /\ pthread[i] = "running" /\ Terminate

Main ==
  \/ \E o \in Object : \/ DefaultConstruct(o) \/ Construct(o) \/ Destroy(o)
                       \/ Join(o) \/ JoinReturns(o) \/ Detach(o)
  \/ \E o, p \in Object : MoveConstruct(o, p) \/ MoveAssign(o, p)
  \/ ReleaseCallable

Next == Main \/ \E i \in Id : Begin(i) \/ End(i) \/ Throw(i)

Spec == Init /\ [][Next]_vars

-----------------------------------------------------------------------------
(* Properties.                                                             *)

\* Wherever the objects were moved to, one of them, and one only, names a
\* thread that was neither joined nor detached: none can get lost, be joined
\* twice, or be taken for a later one with the same id.
OneHandlePerThread ==
  \A i \in Id :
    LET names == {o \in Object : object[o] = i}
    IN  IF pthread[i] = "unused" \/ i \in detached THEN names = {}
        ELSE \E o \in Object : names = {o}

\* The callable lives while its thread uses it, whatever became of the
\* constructor, which still holds a pointer to it when the thread begins, and
\* of the object; and it is deleted when the thread is over, once.
CallableFreedOnce ==
  \A i \in Id :
    /\ pthread[i] \in {"started", "running"} => freed[i] = 0
    /\ pthread[i] = "ended" => freed[i] = 1
    /\ freed[i] <= 1

=============================================================================
