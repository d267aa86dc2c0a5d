# A verification project for CustomSTL

CustomSTL is a C++20 re-implementation of the standard library in headers
(`src/code/stl/*.h`): containers, smart pointers, algorithms, strings, chrono,
and, over POSIX threads, the synchronisation primitives. This directory holds
TLA+ models of it, TLC configurations that check them, and proofs for TLAPS.
The vendored MSVC headers and notes under `src/documentation`, the sample
application and the test programs are not modelled; the tests are read as the
statement of how the library is used.

## 1. Inventory

| Part | State it keeps | Operations | Interacts with | What is hard |
|---|---|---|---|---|
| `mutex`, `condition_variable` (`c_mutex.h`, `c_condition_variable.h`) | a pthread object each | lock, try_lock, unlock; wait, wait_until, notify | POSIX (external) | spurious wake-ups, lost signals, deadlines |
| `timed_mutex` | `_locked` under a mutex, a condition variable | lock, try_lock, try_lock_until/for, unlock | the two above | the notification after the unlock, the deadline that races it |
| `recursive_timed_mutex` | count `_locked`, id `_owner` | the same | the same, `thread::id` | owner and count in step, the count at its limit |
| `condition_variable_any` | a condition variable, a shared inner mutex | wait, wait_until, notify | any client lock | two locks, the gap between them, destruction during wait |
| `lock`, `try_lock`, `scoped_lock` (`x_lock.h`) | the caller's mutexes, indices | multiple locking | any lockables | deadlock, back-out after the k-th failure or exception |
| `unique_lock`, `shared_lock`, guards | a mutex pointer, `_owns` | lock, move, release, unlock | any lockable | ownership after an exception or a move |
| `shared_mutex`, `shared_timed_mutex` | a pthread rwlock | exclusive and shared locking | POSIX | adaptors of one line |
| `counting_semaphore`, `barrier` | `sem_t`, `pthread_barrier_t` | acquire, try, release; arrive | POSIX | a permit taken must be reported |
| `thread` | a handle | start, join, detach, move | POSIX | joinable handles |
| `shared_ptr`, `weak_ptr`, `enable_shared_from_this` (`c_memory.h`) | control block: `_uses`, `_weaks` | copy, move, swap, reset, lock | atomics | destruction once, by the last; lock against the last release |
| `unique_ptr` | a pointer, a deleter | move, reset, release | - | sequential |
| hash table, `unordered_*` | one list, a vector of (count, first node) | emplace, erase, rehash | list, vector | chains of one bucket stay adjacent through relinking |
| search tree, `map`, `set` | red-black nodes around a head | emplace, erase | - | the cases of deletion |
| `list`, `forward_list` | nodes around a head | links, splice, merge, sort, unique | - | pointers during a traversal |
| `vector`, `deque`, `basic_string`, `bitset` | arrays, circular block map, words | insertion, erasure, growth, shifts | allocators | boundaries, aliasing |
| `priority_queue` and adaptors | a heap in a vector | push, pop | vector | the boundary of the heap |
| algorithms, chrono | none | searching, partitioning, set operations, scans; casts, rounding | iterators | ends of ranges, negative values |
| traits, limits, ratio, tuple, allocators, iterators, function objects | none at run time, one call, or one owned callable | - | all | nothing TLC adds to a test |

What makes each correct, in short: a lock is held by one thread and never
forgotten while threads wait for it; a multiple lock takes all or nothing and
deadlocks with nobody; a resource is destroyed once, by its last owner, and
never while owned; a container is at every moment the sequence, set or map its
operations say, with its internal counts and links exact.

## 2. Modules

| Module | Models | In the code |
|---|---|---|
| `Monitor` | a mutex with a condition variable | `_Mutex_Base`, `condition_variable` |
| `AbstractLock` | what a lockable promises (abstract: no code) | - |
| `TimedMutex` | `timed_mutex` | `c_condition_variable.h` 196-268 |
| `RecursiveTimedMutex` | `recursive_timed_mutex` | `c_condition_variable.h` 271-382 |
| `LockWord` | what their `_locked` can hold | both |
| `TimedMutexes` | the two side by side | composes `TimedMutex` and `RecursiveTimedMutex` |
| `ConditionVariableAny` | `condition_variable_any` with producers and consumers | `c_condition_variable.h` 104-184 |
| `MultiLock` | `lock`, `try_lock`, `scoped_lock` | `x_lock.h` 23-136, 487-516 |
| `ThreadHandle` | `thread`: the objects, the threads, the callables | `c_thread.h` 19-156 |
| `LockOwnership` | `unique_lock`, `shared_lock`, `lock_guard` over `shared_mutex` and `shared_timed_mutex` | `x_lock.h` 150-480, `c_shared_mutex.h` |
| `CountingSemaphore` | `counting_semaphore` | `c_counting_semaphore.h` |
| `SharedPtr` | `shared_ptr`, `weak_ptr`, `enable_shared_from_this` | `c_memory.h` 495-1166 |
| `Workers` | programs that create, move, join and detach threads which lock, take permits or share pointers | composes `ThreadHandle` with `LockOwnership`, `CountingSemaphore` and `SharedPtr` |
| `AbstractMap` | what an associative container promises (abstract: no code) | - |
| `HashTable` | `_Hash_Table`, under `unordered_map` and `unordered_set` | `x_hash_table.h` 43-370 |
| `SearchTree` | `_Search_Tree`, under `map` and `set` | `x_search_tree.h` 47-135, 254-378, 477-895 |
| `AbstractSequence`, `AbstractList` | what a sequential container promises, and what a list promises besides (abstract: no code) | - |
| `List`, `ForwardList` | `list`, `forward_list` | `c_list.h` 213-700, `c_forward_list.h` 181-539 |
| `Deque`, `Vector`, `BasicString` | `deque`, `vector`, `basic_string` | `c_deque.h` 269-674, `c_vector.h` 252-578, `x_string.h` 721-1270 |
| `Bitset` | `bitset` | `c_bitset.h` 17-350 |
| `Arrays` | the four side by side, and what they promise together | composes `Deque`, `Vector`, `BasicString` and `Bitset` |
| `PriorityQueue` | the heap of `priority_queue` | `c_queue.h` 141-299 |
| `Numbers` | bit operations, `gcd`, `lcm`, `midpoint`, casts and rounding of durations | `c_bit.h`, `c_numeric.h` 334-432, `c_chrono.h` 245-316 |
| `Algorithms` | searches, comparisons, partitioning, set operations, copies and scans in place | `c_algorithm.h`, `c_numeric.h` 60-226, `x_char_traits.h` 128-165 |
| `TimedMutexProofs`, `RecursiveTimedMutexProofs`, `MultiLockProofs`, `ConditionVariableAnyProofs`, `SharedPtrProofs` | theorems about the module of the same name | - |
| `WorkersProofs` | theorems about `Workers` and its parts | - |
| `ContainerProofs`, `DequeProofs` | lemmas about strings, vectors and bitsets, and the theorems about `HashTable`; lemmas about deques, and the theorems about `Arrays` | - |

`TimedMutex`, `RecursiveTimedMutex` and `ConditionVariableAny` extend
`Monitor`; the first two instantiate `AbstractLock`, `HashTable` and
`SearchTree` instantiate `AbstractMap`, the lists `AbstractList`, and the other
sequential containers `AbstractSequence`, which it extends, each with a
refinement mapping; what `priority_queue` promises, an ordered bag, is stated in
`PriorityQueue` in the same way.
`MCx` gives the constants of module `x` their values for TLC. `MCContainers`
is one specification of ten: the initial state chooses a subject (a container,
or the functions on numbers or on ranges), and only its operations follow, so
that what shares no state is checked in one run and never multiplied with one
another. It extends `Arrays`, whose own specification lets the operations of all
its classes interleave; that one is for the proofs. In the same way
`TimedMutexes` lets the initial state choose the mutex that the threads use; it
extends `TimedMutex`, instantiates `RecursiveTimedMutex`, and gives the names of
the latter's properties that the two have in common the prefix `Recursive`.

**How the steps are cut.** A thread's position in a call is a location (`pc`,
`call`, `stage` or `main`). Code that runs with an internal mutex held is one
step when every access to the data is under that mutex; taking the mutex,
blocking, waking, and what runs after the mutex was given up (the `notify_one`
of `unlock`) are steps of their own. In `MultiLock` every `lock`, `try_lock` and
`unlock` of a client's mutex is a step; in `SharedPtr` every atomic decrement;
in `ThreadHandle` the creation of a thread, the release of its callable by the
constructor, and what the new thread does meanwhile. In `Workers` the steps of
the main thread and of the threads it created interleave freely: a thread works
while its function runs, and may end once it has let go of what it holds, as
local guards make it. The containers are sequential: an operation is one step,
and in `SearchTree` the insertion and the erasure are cut at the turns of their
repair loops, so that what holds between turns and how the loops end can be
stated.

**Containers.** In `HashTable` and `SearchTree` a node is named by its key, and
the mapped value, which no container reads, is left out. In `List` and
`ForwardList` a node is named by its element, of which some have the same value:
elements that compare equal must not be confused by `unique`, `merge` or `sort`.
`HashTable` keeps a list as a sequence and the buckets as records of a count and
a pointer, which names the table whose node it leads to, or is dangling.
`SearchTree` keeps the links and colours as functions on nodes and writes the
mirrored branches once, for a side and the opposite one; memory that is freed
has null links. In the arrays a cell is raw, holds a value, or holds what a move
left, so that an element constructed twice or read after a move shows. `Find`
and the iterators are translated from the code: the refinements are about what
`find` returns and what an iterator visits, not about which nodes exist. What
each operation does to the abstract container is stated by `Implementing`, one
implication per operation, so a step that is right for a different operation
does not pass.

**Numbers and ranges** have no state: the variables are the arguments of the
next call, their steps go through all of them within the bounds, and
`MeetsReferences` compares what each function returns or leaves in the array
with a definition that looks at all numbers, or all elements, at once.

**Time.** A deadline is a flag `expired` that a step sets at any moment of the
call. A thread blocked in a timed wait may return at any moment, before the
deadline too: that is a spurious wake-up, and it also covers a deadline of
`steady_clock` read by `pthread_cond_timedwait` on another clock, whose wait
returns at once. What the code computes from the clock (`cv_status`) is read
when the mutex has been taken again, as in `wait_until`.

**Clients** respect the preconditions the standard gives them, and no more:
they unlock what they hold, do not lock a `timed_mutex` twice, pass distinct
mutexes. They may keep a lock for ever. Two threads do not use one `thread`,
`shared_ptr` or lock variable at the same time. They look no key up in a hash
table that was moved from (it has no buckets), nor in one copied from a table
with elements (finding 4), before they assigned, cleared or rehashed it. They
pass containers no elements of their own as arguments (section 4), merge into
lists that are not empty (but see finding 5), and call `unique` of a
`forward_list` that is not empty.

**Mutations.** Next to some definitions stands another with the comment
"Mutation": the same definition with a plausible slip. They are not part of the
specifications. For every property, replacing the definition by one of them
makes TLC report that property violated (`PROJECT.json`, `mutants`).

## 3. Runs

| Run | Instance | Checks |
|---|---|---|
| `TimedMutexes` | 3 threads, `UINT_MAX = 2` | of `timed_mutex`: `MutualExclusion`, `NoStrandedWaiter`, `NoEarlyRefusal`, `ImplementsLock`, `FreeLockIsTaken`, `TimedCallReturns`; of `recursive_timed_mutex`: `CountIsNesting`, `RecursiveNoStrandedWaiter`, `RecursiveImplementsLock`, `RecursiveFreeLockIsTaken` |
| `MultiLock` | 2 threads, all lists of 2 or 3 of 3 mutexes, exceptions | `AllOrNothing`, `UnlocksOnlyHeld`, `NoCircularWait`, `BlocksInsteadOfSpinning` |
| `ConditionVariableAny` | 3 threads, 2 items | `NoStrandedConsumer`, `ImmuneToDestruction`, `ClosingReleasesAll`, `TimedWaitReturns` |
| `Workers` | 2 threads, 2 `thread` objects; 2 mutexes and 2 lock variables, or 2 permits, or 2 variables of each kind of pointer and 2 resources | `OneHandlePerThread`, `CallableFreedOnce`, `HoldsAccounted`, `NoPermitCreated`, `JoinedHasLetGo`, `CountsExact`, `OwnedIsAlive`, `ReleasedOnce`, `NoLeak` |
| `SearchTree` | 2 maps, 10 keys, trees of up to 10 nodes | `IsRedBlackTree`, `IteratesInOrder`, `EraseReturnsNext`, `ImplementsMap`, `RepairAdvances` |
| `Containers` | 2 objects of each container (see the bounds) | `LinksExact`, `CellsExact`, `MeetsReferences`, `ImplementsMap`, `ListsImplementSequence`, `ArraysImplementSequence`, `ImplementsQueue`, `ActsOnBits` |
| `SharedPtr_lock` | 2 threads that lock expired pointers, too | finding 1: `OwnedIsAlive` |
| `CountingSemaphore_lost` | 3 threads, 3 permits | finding 2: `NoPermitLost` |
| `SearchTree_only` | trees of up to 7 nodes | finding 3: `HeadLinksMinAndMax` |
| `HashTable_copy` | 2 tables, 5 keys | finding 4: `BucketsMapOwnElements` |
| `List_merge` | 2 lists, 5 elements, merging into empty lists, too | finding 5: `LinksAgree` |
| `ForwardList_order` | as in `Containers` | finding 6: `ForwardListKeepsOrder` |

Every module has a `TypeOK`, which holds in these instances and is where the
proofs start; the runs list only the properties that say more.

**Bounds.** Three threads are a holder, a waiter and a third that barges in
between notification and wake-up; a fourth only repeats a role. `UINT_MAX = 2`
lets a recursive lock be taken, taken again and refused; in `TimedMutex` it is
only a value other than 0, which a decrement does not make 0. In
`MultiLock` two threads with three mutexes reach each branch of the back-out
(failure before the hard lock, after it, with and without a part of the range
taken). Two items in `ConditionVariableAny` let two notifications be under way
at once.

In `Workers` two `thread` objects are a source and a target of each move, and
two ids let one be used again while the other thread runs. Two mutexes and two
lock variables per thread let a hold move to a variable that has one already;
two permits let `release(update)` be interrupted between its posts. Two
threads, two owners and two weak references reach each race of a release with
a copy; a control block is not reused, so two of them are one pointer's old and
new resource.

Ten is the smallest number of nodes with which the repair after an erasure
first goes up and then rotates, so that all sequences of its cases occur. What
the tree does depends on the order of the keys only, so ten keys give every
shape of up to ten nodes that operations can build. `MaxNodes` and `MaxShared`
are guards of `Emplace` and of copying: a tree grows to `MaxNodes` while the
other map is empty, and the two have `MaxShared` nodes between them otherwise,
for copying and moving treat all nodes alike. `HashTable` has the same two
bounds, and so do the arrays and the heap (`MaxSize`, `MaxShared`).

In `Containers`, the hash table starts with two buckets instead of eight
(`DefaultBuckets`) and thus grows to four and to eight buckets with five
elements, and its keys 0, 1, 2, 4 and 8, hashed to themselves, collide at two
buckets, at four or at eight; a request for three buckets (`Requests`) gives an
odd number. Lists have five elements, two pairs of which have the same value
(a merge sort of five splits unevenly twice), forward lists four. A deque has
blocks of two cells and a map of two blocks, so that the third element makes it
grow wherever in the circle the first one is. Vectors have a capacity of up to
4, strings of up to 3 characters, with one more when they grow by half. The
heap has up to eight elements, that is, a fourth level with one. A bitset has
blocks of two bits and 0, 1, 4 or 5 bits: no block in use, a part of one, all
of two, a part of the third; it is constructed from every string of up to one
character more than it has bits, and from every number of a block. Numbers have four bits and go through all
pairs, durations through periods that are equal, three times as long, a third
and a quarter (with and without a tie in the middle). Ranges have up to four and
up to three elements of three values: a text with a false start for a search,
equal elements in both ranges, every overlap of a copy. Nothing else is bounded:
no run uses a state constraint. Runs without liveness properties use the symmetry of
objects, threads and resources that are interchangeable.

**Deadlock** is checked everywhere but in `CountingSemaphore_lost`, whose
clients may all be blocked in `acquire`; in `Workers`, where the program may
terminate and its threads may wait for one another's locks; and in
those of `SearchTree`, where erasing the only element may crash the program
(finding 3).

**Fairness** is weak fairness of each thread's steps inside the library, of the
clock (a deadline passes), and of the return of `pthread_cond_timedwait` after
its deadline: what a scheduler that runs every runnable thread gives. Steps of
clients (calling, unlocking) have none. The mutexes are not assumed to be fair,
so the properties about timed calls exclude behaviours in which others seize
the lock for ever.

## 4. What the runs show

* `timed_mutex` loses no wake-up although `unlock` notifies outside the mutex
  and only one waiter: whenever threads are blocked, the lock is taken, or a
  notification is to come, or another thread is about to look at the lock and
  will notify in its turn. `recursive_timed_mutex` likewise, and its owner and
  count agree with what the clients were granted up to the limit of the count.
* Both implement `AbstractLock`: a call is granted in one step and only while
  it may be; `try_lock` and timed calls are refused only at a moment when the
  lock cannot be had.
* `condition_variable_any` has, while consumers are blocked, a notification or
  an awake consumer for every item, because the inner mutex is held from before
  the client's lock is released; a condition variable may be destroyed as soon
  as all its waiters were notified.
* `lock` leaves its caller with all or none, whichever `try_lock` fails or
  throws, never unlocks what it does not hold, and blocks holding nothing.
* Through construction, moves, assignment, `join` and `detach` each joinable
  thread is named by one object, and its callable is deleted once, by the thread
  itself, although the constructor still holds it when the thread starts to
  run. A thread that was joined holds no mutex and no permit, and has nothing
  left to release, although its id may already be another's.
* Each hold of a mutex is accounted for by one lock variable or by the thread
  itself, through every move, adoption and release.
* The counts of `shared_ptr` are exactly those of the pointers there are and of
  the decrements under way, so a resource is destroyed once, after its last
  owner, and the control block after its last reference - as long as clients
  lock only weak pointers that have not expired.
* A hash table that was not copied finds exactly the keys a map would hold, for
  the elements of a bucket stay next to each other with an exact count through
  every relinking; no operation leaves more than three elements for four
  buckets. Moving hands both list and buckets on intact.
* The tree is a red-black tree with consistent links after every operation, its
  iterators visit the keys in order in both directions, and the iterator
  `erase` returns is right although it is computed before the rebalancing. No
  key is lost or found twice even between two turns of a repair, and every
  turn brings the repair nearer to its end.
* `list` and `forward_list` do to their elements what a sequence does, and
  through every splice, merge and sort a node is linked in one list only. Of
  copying and resizing a `forward_list` the refinement says which elements there
  are afterwards, and that those which stay are next to each other in their
  order; the order that the comments promise they do not have (finding 6).
  `list::sort` orders the elements but does not keep equal ones in their order.
* `deque`, `vector` and `basic_string` do to their elements what a sequence
  does, wherever the array or the circular map grows. A deque has an object in
  the cell of each of its elements and nowhere else; the terminator of a string
  always follows its last character. `reserve` below the size cuts elements off.
* `priority_queue` always hands out the greatest element and loses none, and
  the bits of a `bitset` that are not used stay zero through shifts and flips.
  A string is read from its last character on, across the boundaries of blocks,
  whatever the memory held before.
* The functions on bits, numbers and durations are right for all arguments,
  the least and the greatest included; floor, ceil and round of negative
  durations, too. `find`, `rfind`, `search`, `partition`, the set operations,
  copies that overlap in the permitted direction and scans in place give what
  their definitions say.

**Findings.**
1. `weak_ptr::lock` (and the constructor of `shared_ptr` from a `weak_ptr`)
   increments the use count without looking at it (`c_memory.h:723`). For an
   expired pointer it returns an owner of a destroyed resource, which will be
   destroyed again. Run `SharedPtr_lock`.
2. `counting_semaphore::try_acquire` tests `sem_trywait(...) > 0`
   (`c_counting_semaphore.h:50`), which is never true: it takes a permit and
   returns false. Run `CountingSemaphore_lost`.
3. Erasing the only element of a tree looks up the first node through the freed
   one (`x_search_tree.h:779`): the head keeps leading to the freed node, or
   the program crashes, depending on whether the compiler keeps the stores that
   null the links of a node about to be freed. Run `SearchTree_only`. The
   properties of the run `SearchTree` speak of the head of a map that is not
   empty.
4. Copying a hash table copies its buckets with their pointers to the other
   table's nodes (`x_hash_table.h:64` and `:79`). Run `HashTable_copy`.
5. `list::merge` into an empty list merges an empty first range
   (`c_list.h:503`): the loop walks on over the head node, compares with the
   value the head never had, and leaves links that are no circle of `size()`
   nodes. Run `List_merge`.
6. `forward_list::resize` creates elements with `emplace_front`
   (`c_forward_list.h:514`) and removes them with `pop_front` (`:521`), at the
   front; the comments of both overloads (`:233` and `:239`) say "to the tail".
   So a list that holds 2, resized to two elements of value 1, holds 1, 2, and
   a list that shrinks keeps its last elements. `_copy` (`:499-506`) pushes the
   elements of the other list to the front one after the other: a copy is the
   reverse of its source and compares unequal to it. `ForwardListKeepsOrder`
   says of both what the comments say and what a copy is; run
   `ForwardList_order`.

**Read, and not checked by a run of its own.**
* Locks: the destructor of `scoped_lock` unlocks first to last, while its
  comment and the name `reverseUnlock` say last to first (`x_lock.h:504-508`);
  the model does what the code does, and no correctness property depends on the
  order. Move assignment between two locks of one mutex does nothing
  (`x_lock.h:257-268`), so the source keeps its ownership.
* Hash table: `erase` returns the iterator before the erased element, and its
  comment (`x_hash_table.h:137`) says the next one. A lookup in a moved-from
  table takes a remainder by zero (`x_hash_table.h:196`).
* `list`: `erase` returns the iterator before the erased element
  (`c_list.h:330-339`); the constructor from an initializer list (`:221`) never
  creates the head.
* `function`: copying an empty one calls through its null pointer
  (`c_functional.h:683`, `:703`), and assigning a null callable keeps the old one,
  beside the comment "already empty" (`:761-762`). With
  `CUSTOM_OPTIMAL_IMPLEMENTATION` set, copying or moving from an empty one leaves
  the pointer of the new one unset (`:441-447`, `:541-561`).
* `forward_list`: `erase_after` returns an iterator to the node it removed
  (`c_forward_list.h:278-282`); `unique` of an empty list follows a null pointer
  (`:363-364`); `merge` and `sort` are empty. The comments of `emplace_front`,
  `push_front` and `pop_front` (`:245-258`) speak of the tail and of the last
  element; all three work at the front.
* `vector`: `emplace_back` of an element of the vector itself reads freed memory
  when it reallocates (`c_vector.h:387`), `emplace` of one reads a shifted one
  (`:410`); elements cut off by `reserve` are not destroyed.
* `basic_string`: inserting or appending a part of the string itself reads
  shifted characters or the array `reserve` gave up (`x_string.h:1241-1244`);
  `append` and `insert` refuse a string with a terminator inside (`:1236`); the
  constructor from a `string_view` ignores its size (`:731`). `find` of a string
  longer than the text, and `rfind` of one from the end, compute a negative
  length that is unsigned (`x_char_traits.h:136` and `:154`).
* `bitset`: `operator==` returns what `memcmp` returns (`c_bitset.h:373-375`).
* `max` with a comparator returns the lesser of the two
  (`c_algorithm.h:596-598`); `set_intersection` without a comparator does not
  compile (`:514-517`). `floor`, `ceil` and `round` do not compile between
  periods neither of which divides the other.

## 5. What is proved

The safety of everything that runs on several threads is proved: every
invariant of the runs `TimedMutexes`, `MultiLock`, `ConditionVariableAny` and
`Workers`, `NoEarlyRefusal`, and that both timed mutexes implement
`AbstractLock`. Of the containers, those that keep their
elements in arrays are proved: `deque`, `vector` and `basic_string` implement
`AbstractSequence`, their cells are exact, and `bitset` is a set of positions.
So is the hash table: it implements `AbstractMap`, and its buckets are exact.

The theorems hold for every value of the constants that satisfies the named
assumptions of the modules:

* the names that stand for nothing (`NoThread`, `NoId`, `NoBlock`, `Nil`,
  `Absent`) are none of the things they could be taken for, as null is no
  address of an object;
* `UINT_MAX > 0`, `MaxItems > 0`, `Desired` is a natural number, and argument
  lists are sequences of distinct mutexes, at least one (a thread that names a
  mutex twice locks it while it owns it, which the standard forbids);
* in `ConditionVariableAny`, `SharedPtr` and thus `Workers`, the threads and the pointer
  variables are finitely many. A program has so many at a time; the properties
  speak of their number, which an infinite set has not. The control blocks, of
  which a long run uses any number, may be infinitely many, and so may the
  threads of the other modules.
* in `Arrays`, a block has room for an element or a bit, the map of a deque
  starts with two blocks at least (the code's is eight), the marks of cells that
  are raw or were moved from are no values, and what `value_type()` gives is one.
* in `HashTable`, the hash is any function from keys to natural numbers, a table
  starts with one bucket at least, and neither a null nor a dangling pointer is
  one to a node.

The theorems about shared pointers have one more hypothesis, `~LockExpired`:
clients lock no `weak_ptr` that has expired. Without it they are false
(finding 1), and it constrains the clients, not the library. In a program
without `weak_ptr`s it holds by itself.

| Module | Theorems | States of a run's properties |
|---|---|---|
| `TimedMutexProofs` | `MutualExclusionHolds`, `NoLostWakeUp`, `NoEarlyRefusalHolds`, `Refinement` | `MutualExclusion`, `NoStrandedWaiter`, `NoEarlyRefusal`, `ImplementsLock` |
| `RecursiveTimedMutexProofs` | `CountIsNestingHolds`, `NoLostWakeUp`, `Refinement`, `EitherBehaves` | `CountIsNesting`, `RecursiveNoStrandedWaiter`, `RecursiveImplementsLock` |
| `MultiLockProofs` | `AllOrNothingHolds`, `UnlocksOnlyHeldHolds`, `NoDeadlock` | `AllOrNothing`, `UnlocksOnlyHeld`, `NoCircularWait` |
| `ConditionVariableAnyProofs` | `NoLostWakeUp`, `DestructionImmunity` | `NoStrandedConsumer`, `ImmuneToDestruction` |
| `SharedPtrProofs` | `CountsExactHolds`, `OwnedIsAliveHolds`, `ReleasedOnceHolds`, `NoLeakHolds` | `CountsExact`, `OwnedIsAlive`, `ReleasedOnce`, `NoLeak` |
| `DequeProofs` | `ArraysAreExact`, `ArraysAreSequences`, `ArraysActOnBits` | `CellsExact`, `ArraysImplementSequence`, `ActsOnBits` |
| `ContainerProofs` | `BucketsStayExact`, `TablesAreMaps` | what `LinksExact` says of hash tables, `ImplementsMap` |
| `WorkersProofs` | `OneHandlePerThreadHolds`, `CallableFreedOnceHolds`, `HoldsAccountedHolds`, `NoPermitCreatedHolds`, `JoinedHasLetGoHolds`, `PointersHold`, `Parts` | the properties of their names, and those of `SharedPtr` for the whole |

Each module proves type correctness too (`RecursiveTimedMutex` in
`CountIsNestingHolds`, `Workers` in `WorkersTypeCorrect`). Each has an
inductive invariant, which `Invariance` states (in `WorkersProofs` each part has
its own; in `DequeProofs` it is `ArraysStaySound`, in `ContainerProofs`
`TablesStaySound`), and the rest follows from it.
All are parametric. The only bounds of section 3 that occur are those of
`Arrays` and `HashTable`, constants which any program's containers stay below if
chosen large enough: a behaviour of the specification keeps to some `DequeMax`,
and the theorems hold for each.

**`timed_mutex`.** `IInv` adds two facts to the properties. `MutexInv` says
that the inner mutex is held by the one thread whose location is inside it:
without it, two threads could both have read `_locked = 0`. `CallInv` says that
blocked threads are in a wait, that a `try_lock` never waits and that the last
look at `_locked` comes after a timeout: without it, a refusal could not be
told from an early one. No further strengthening is needed for
`NoStrandedWaiter`: `Clear` leaves the thread about to notify, `Notify` makes a
contender of a waiter, and a contender stops contending only by taking the lock
or by seeing it taken.

**`recursive_timed_mutex`.** `CallInv` adds that a thread in its wait is not
the owner: it compares `_owner` with its own id once, before the wait, and
nobody else can make it the owner meanwhile, so the answer is not stale. The
type of the clients' nesting, at most `UINT_MAX`, is no invariant on its own:
it follows from the owner's being `_locked`, which stops at the limit
(`CountInv`). `EitherBehaves` says that in `TimedMutexes` each of the two mutexes
does what its own specification allows, so that the theorems about either hold
of the specification that the run checks.

**`lock` and `try_lock`.** `HolderInv` says which mutexes a thread holds from
where it is: during the attempts those before `next`, and the hard one; during
the back-out those still listed in `undo`. `IndexInv` keeps these indices in
the argument list and free of repetitions, for lists of any length. A blocked
thread holds nothing, so whom it waits for is not blocked, and no circle of any
length closes.

**`condition_variable_any`.** `NoStrandedConsumer` speaks of consumers that are
blocked. It is not inductive: a consumer that has found nothing and is about to
block is owed as much, since items may come before it blocks (`ItemsInv`). Its
steps count the threads that will notify or look, which is why the proof needs
finite sets. `CloseInv` carries the argument about destruction: a thread about
to block when the queue is closed still has the inner mutex, which `notify_all`
must take first.

**`shared_ptr`, `weak_ptr`.** The invariant relates six numbers for each control
block: its two counts, the owners and weak references there are, and the
threads at each stage of giving it up. `LiveOK` says that the resource lives as
long as there are owners or a thread is about to destroy it, the control block
as long as there are references, and that at most one thread is at each last
stage; `NotLiveOK` that nothing refers to a block that was not made or was
freed. Every action changes each number by one at most, which lemmas about the
sets behind them say (`CountChange` and those after it); the rest is arithmetic.

**Threads and what they share.** `Parts` says that a behaviour of `Workers`
is, seen by each facility, one of that facility's own behaviours, so that what
is proved of a part holds of the whole. `HandleInv`, `LocksInv` and
`SemaphoreInv` are about the parts. A joinable thread has one name, which no
detached or joined one has. A lock variable that owns has a mutex its thread
holds, and none that another variable or the thread itself accounts for. The
permits are those there were at the start, less what `try_acquire` took and
did not report (finding 2), so that "no more" is inductive and "as many" is
false. `JoinedHasLetGo` needs all parts: only a running thread works, it
may end only when it holds nothing in the facility the program uses, and it
never used the others (`QuietInv`).

**`vector`, `basic_string`.** `StringInv` and `VectorInv` say which cells of an
array hold values - those of the elements, in the order of their indices - and
that the terminator of a string is behind them. Each operation has a lemma
about the cells it leaves (`VectorEmplaced`, `StringInserted`), and one that
says what the abstract operation does to the elements (`...Implements`).

**`deque`.** The cells of the `n` blocks of the map are one circle of
`n * BlockSize` places (`Tape`): the place behind the last cell of the last block
is the first cell of the first. One round of the circle, begun at the first
element, meets all elements in order and then only cells that hold nothing
(`Wound`), and a block that is null has none of them. The invariant needs one
thing more, which the code never writes down: all elements take at most
`n * BlockSize - BlockSize` cells (`Holds`). For this is what
`_extend_if_full` compares the size with, and without it the two ends could
meet inside one block, so that `reserve`, which copies blocks as a whole, would
give the block of both ends to one of them. `emplace` and `erase` move the
elements before or behind the place, whichever are fewer: either way leaves the
same sequence (`EmplacedInFront`, `EmplacedBehind`).
`CellsExact` compares numbers of elements and of cells, which a one-to-one map
from the indices to the cells gives.

**`bitset`.** `BitsInv` says that the blocks are those of a set of positions
(`Other`), so that nothing is set behind the last bit. That is why `count`
and `all` may look at blocks as a whole, and it is what `_trim` is for: after
`<<=`, `set` and `flip` there may be ones that are no positions (`Trimmed`),
after all others there are none. A shift is one by whole blocks and one by
less than a block, in which every word takes over what left its neighbour
(`ShiftedLeft`, `ShiftedRight`); the two add up by the uniqueness of the division.
The construction from a string reads one character a turn, from the last that
is used to the first: after each turn the blocks that are written and the word
that was begun hold the positions read so far (`ReadUpTo`, `ReadingTurns`).
For a bitset of any size that takes as many turns as characters are used, so
`BitsConstructed` is by induction over them, like the loops below.

**Loops over cells** - the moves of an element to the next cell, the growth
one by one of `resize` - are recursive functions in `Deque` and `Vector`. That
they exist, and what they leave after the last turn, is induction over the
naturals. The library's rule for it cannot be used (it takes an operator as
a parameter), so `Induct` proves one for subsets of the naturals, from the fact
that they are well-founded, and each loop is a subset of its turns
(`VectorMovesExist`, `VectorMovedAlong`, `DequeAppended`). No loop is bounded.

`ArraysInv` is not among the invariants of a run: it speaks of all sequences and of
an unknown number of blocks. TLC checks what it implies, `CellsExact`,
`ArraysImplementSequence` and `ActsOnBits`.

**The hash table.** A bucket has a pointer to its first element and a count, and
nothing else says which places of the list are its own. `HashInv` says it: no
element is in the list twice, and the elements of each bucket are the places
from one place on, as many as its count, the first of which the pointer leads to
(`Chained`, `Leads`). A new element goes in front of that run, an erased one out
of it; every other run is wholly before or wholly behind the place, and stays
one (`ChainedPut`, `ChainedCut`). `_force_rehash` relinks the list it traverses:
it is a recursive function of the number of nodes it has passed, and by
induction over that number the buckets lead to the elements passed, among those
still to come (`Leading`, `TurnsExist`, `Rehashed`). The pointers of a bucket
name the table whose node they lead to, so what moving hands on leads into its
own list, while the buckets of a copy lead into another's: such a table keeps
its list, but no bucket is claimed of it, until it is assigned, cleared or
rehashed (`borrowing`, finding 4). `Find` walks a run of the list and thus finds
the keys that are in it, from which `TablesAreMaps` follows operation by
operation.

**Only model-checked.** Liveness (`FreeLockIsTaken` of both timed mutexes, `TimedCallReturns`,
`ClosingReleasesAll`, `TimedWaitReturns`, `BlocksInsteadOfSpinning`): it rests on
fairness, that is, on ENABLED, about which the provers have no rules. The other
containers and the functions: the walks and the invariants of `SearchTree` are
recursive operators, with which the provers do not work; what the folds and
recursive functions of the others (`list`, `forward_list`, `priority_queue`,
`Numbers`, `Algorithms`) compute for every input would need an
induction of its own for each, as the loops of the arrays have.

## 6. Plan

The modules planned are written; the concurrent ones, the arrays and the hash
table are proved. What is left is to prove the others that are not recursive
operators: that the heap of `priority_queue` is one (`ImplementsQueue`), by the
induction used for the arrays, along the path from a leaf to the root; that the
links of `list` stay a circle; and the numeric identities of `Numbers`.

## 7. What is not modelled, and why

Most lines of the repository are no code of the library: `src/documentation`
holds some 200 vendored headers of another implementation, against which the
share of modelled lines stays small whatever is modelled. Of `src/code/stl`:

* Type traits, limits, ratio, tuples and the other compile-time parts have no
  run time. Allocators and iterators, `bind` and `mem_fn` forward one call.
  `function` owns its callable through one `unique_ptr`, with no second actor and
  no order of calls to get wrong: section 4 says where it fails.
* `unique_ptr` has one pointer and no second actor: each operation is one
  exchange and at most one deletion. `barrier` is two lines over
  `pthread_barrier_t`.
* Algorithms that are one loop around one call (`for_each`, `fill`, `count`,
  `transform`, `accumulate`) leave nothing to get wrong over several steps.
  Sorting, binary search, permutations and heaps are regions of
  `c_algorithm.h` marked as not implemented.
* `queue` and `stack` forward to their container; `string_view` searches and
  compares. Streams and conversions between strings and numbers are
  input and output.
* The POSIX objects are external, modelled by what the adaptors rely on. Signal
  handlers (which would let `sem_wait` return without a permit) occur nowhere
  in the repository.
* A `timed_mutex` is never destroyed by a modelled client; a client that
  destroys one as soon as it gets it would race the `notify_one` of the previous
  holder (`c_condition_variable.h:245`).
* Aliasing `shared_ptr`s are their control block. Exceptions of element types
  and failed allocations are left out but for the control block of a
  `shared_ptr`.
* How long anything takes is not modelled: that `wait_for` spins because its
  deadline is read on another clock changes no lock state.
