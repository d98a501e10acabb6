# esch in TLA+

esch is an embedded Scheme runtime in C: objects with types, an allocator, a
pluggable garbage collector, vectors, pairs, strings and a configuration that
hands them to each other. This directory holds TLA+ modules of it, the TLC
configurations that check them and the TLAPS proofs about them.

The runtime is single-threaded and keeps nothing on disk. What is hard in it is
not interleaving of threads. It is (1) algorithms over one mutable heap whose
correctness depends on the order of everything that happened before, (2)
failure in the middle of an operation of many steps (each allocation may fail,
each destructor may fail), (3) limits: tables that fill, double, and are
indexed by numbers computed elsewhere, and (4) facts that are computed once and
trusted afterwards: a flag that says what a tail is, a length that a first pass
counted, two tables that only position keeps together.

The program modelled is the release build: `ESCH_CHECK_PARAM_INTERNAL` and
`ESCH_ASSERT` vanish there, `ESCH_CHECK_PARAM_PUBLIC` does not. The assertions
are read as claims about the program, not as guards.

## Inventory

| component | source | state | operations | hard behaviour | what makes it correct |
|---|---|---|---|---|---|
| collector | `esch_gc.c`, `.h` | root, slot table with a free list threaded through it, in-use flags, traversal stack | new, attach, recycle, delete | the loop's end, circles, doubling in the middle of a creation, failing reallocations and destructors | objects and slots name each other; the free list is exact; garbage goes; what is reachable stays |
| objects | `esch_object.c`, `.h` | header of every object: type, alloc, log, gc, gc_id | new (with one collection and one retry), delete, iterator | a creation that fails half way; a collection in the middle of one | nothing half-made remains |
| allocator | `esch_alloc.c`, `.h` | a cookie before each buffer, two counters | new, realloc, free, delete | the leak report must be right after every failure and every refusal | allocate_count - deallocate_count = live buffers; no buffer without its allocator |
| vectors, values | `esch_vector.c`, `esch_value.c` | begin, next, slots, enlarge; elements with a type | append, set, get, copy, iterate | doubling; tables of functions indexed by type and by error code; a rejected value | a bounded sequence; a failed call changes nothing |
| pairs | `esch_pair.c`, `.h` | head, tail, next_is_pair | new, set, get, iterate, is_list | the cached flag; circular lists; END in the middle of a list | the flag follows the tail; the iterator yields the list |
| strings | `esch_string.c`, `.h` | two buffers and two lengths | new from UTF-8, duplicate, identifier test | two passes over the same bytes must agree; three allocations | nothing is written outside the buffer; the code points are the text |
| Unicode categories | `esch_range.c` | eighteen pairs of tables | search | low and up bounds are two tables | every character has one category, and the right one |
| configuration | `esch_config.c`, `.h` | eight preset keys | new, get, set, delete | copies allocate one and must free it | what was set is read back |
| types | `esch_type.c`, `.h` | a record of methods | new, set, delete | a type must outlive its objects, and nothing counts them | a destructor is looked up in a type that is there |
| log, debug macros | `esch_log.c`, `esch_debug.h` | none | output | none to speak of | - |
| numbers | `esch_number.c`, `.h` | - | - | not built | - |

They interact by calls only. A constructor reads the allocator, log and
collector from the configuration, allocates its buffers, and calls
`esch_object_new_i`. That allocates the object, on failure runs a collection
and tries once more, and attaches the object to the collector. The collector
walks the heap through the iterators of the types, and deletes through
`esch_object_delete_i`, which calls the type's destructor and the allocator.

## Modules

| module | what it is | extends |
|---|---|---|
| `AbstractCollector` | what the collector promises | - |
| `EschGc` | the collector and the objects it manages | - (instantiates `AbstractCollector`) |
| `EschGcInv` | its inductive invariant | `EschGc` |
| `EschGcTable`, `EschGcProofs` | the proofs: the table; the marks, the stack, the refinement, the lists, and the theorems | `EschGcInv`, `ManagedPairsInv`, `WellOrdering` |
| `AbstractVector` | what vectors promise | - |
| `EschVector` | vectors as buffers, values, iterators | - (instantiates `AbstractVector`) |
| `EschVectorProofs` | the proofs, the refinement among them | `EschVector` |
| `EschPair` | pairs, lists, the iterator, `is_list` | - |
| `EschPairProofs` | the proofs | `EschPair`, `WellOrdering` |
| `ManagedPairs` | pairs under the collector | `EschGc` |
| `ManagedPairsInv` | its inductive invariant | `ManagedPairs`, `EschGcInv` |
| `EschAlloc` | the allocators, and what a program may do with buffers | - |
| `EschHeap` | constructors, destructors and copies of all objects, one allocation per step | `EschAlloc` |
| `EschHeapProofs` | the proofs, the refinement among them | `EschHeap` |
| `EschString` | UTF-8 decoding, byte by byte, and strings | - |
| `EschStringProofs` | the proofs | `EschString`, `WellOrdering` |
| `EschRange` | the tables of Unicode categories | - |
| `EschIdentifier` | the scan that tells identifiers | `EschRange` |
| `EschIdentifierProofs` | the proofs | `EschIdentifier` |
| `WellOrdering` | least numbers and induction over a set, for the proofs | - |
| `MC...` | values of the constants for TLC | the modules they instantiate |

### EschGc and AbstractCollector - the collector

State and code: `alive`, `managed`, `gc_id` are what the headers of the objects
say; `elems` is what the iterator of a vector yields, the edges of the heap;
`root`, `slots`, `slot_count`, `usable_slot`, `inuse_flags`, `recycle_stack`
are the fields of `struct esch_gc` (a slot holds an object or the index of the
next free slot, as the C union does); `iter`, `sweep`, `failed` are the locals
of `recycle`; `pending` is the object whose allocation failed and started the
collection; `pc` says which function the single thread is in.

A call that has no loop is one action, and has every branch of its code:
`New` with `AttachFree`, `AttachEnlarged`, `AttachEnlargeFails` (each of the
three reallocations), `AttachFull`; `Recycle`, `DeleteGc` and
`NewOutOfMemory` begin a collection. The collection itself is one action per
iteration (`VisitPrim`, `VisitChild`, `PopStack`, `SweepKeep`, `SweepFree`), so
that its end is a property that can fail. Behaviour that C does not define
(an index outside a buffer, freed memory, the wrong member of the union) sets
`fault` and stops the run: nothing said afterwards would mean anything. The
safety properties are about the states before.

The stack of step 2 has one cell more than there are slots and no test of its
bounds. A container is pushed each time it is met, so one that is held several
times overruns the stack, and a root that holds no container pops below it.
`StackSufficesForTrees` says what else can be relied upon: on a tree of the
collector's own containers, the root of which holds one, the stack suffices.
*Own* matters: a container whose destructor failed outlives its collector, may
be held by a vector that becomes the root of the next one, and is visited and
pushed without having a slot that the size of the stack counts.

`FlatHeapMarks` and `FlatHeapProgress` say what can be relied upon of the
marking itself. A heap is flat when the root holds a container and its
containers, but for the last, hold no containers. On such a heap a collection
spares exactly the root, what it holds, and what its containers but for the
last hold: the last is popped in place of the root and is never run over, even
if it is the only one, and `gc_reachable` shows what is lost with it. Each step
of the loop leaves less to do. On any other heap no collection comes to its
sweep, which is the other half of `FlatHeapMarks`: a root without containers pops below the bottom of
the stack, and a container that is run over and holds another stays on the stack
below what it holds, to be run over again. `gc_endless` is one such walk. So the
collector never frees anything but on flat heaps, although `esch_t_gc.c:110` has
nested containers visited. The heap of that test is a flat one: its scope that
holds a scope is the last the root holds.

`AbstractCollector` is what is left of all this for the program. The collector
owns a set of objects. Creation adds to it; a collection, which happens at once
and on flat heaps only, keeps the root, what the root holds and what its
containers but for the last hold, and frees all else; a deletion gives up all. `EschGc` implements it under the mapping `Owned`: while a
collection marks, what is managed, and from the moment it begins to sweep, what
is marked. The sweep, the failing destructors and the return to the program do
not show. The abstract module knows no order of elements, so that any container
of the root may be the last; otherwise it is exact, and less than the
documentation has it, where whatever can be reached survives.

What the collector is handed by the program is an environment: vectors of
managed objects and primitive values, changed by `AppendElem` and `SetElem`
between calls. Objects in `Stubborn` have a destructor that may return an
error.

### EschVector and AbstractVector - the vectors

`vec` maps each vector that exists to its struct (`enlarge`, `slots`, `begin`,
`next`); `mem` maps each allocated buffer to its cells, so that a pointer is a
buffer and an offset, and a store outside a buffer, a shared buffer, a leaked
one and a read of a cell nobody wrote can all be told apart. `iter` is the
iterator, `ret` the status of the last call and `out` the caller's variable;
`kept` is history: what that variable would hold if no call that reports an
error had written to it.
No call has a loop, so each is one action: `New`, `Copy` and `Delete` with the
ways they fail, `AppendValue` with its four outcomes, `AppendObject`,
`SetValue`, `SetObject`, `GetValue`, `GetTyped`, `GetTypedFails`, `GetIterator`,
`IterValue`, `IterNext`. The tables of `esch_value.c` are the operators `ValueCheck` and
`TypeCheck`; an index into a table of two entries that is neither 0 nor 1 sets
`fault`.

A reallocation may keep its buffer or move to any free one, and the new cells
hold `Junk`: `esch_alloc_realloc` clears memory only when it allocates.

`AbstractVector` is what a program may rely on: each vector is a sequence with
a limit, a call does what it is for or reports an error and changes no
sequence, an iterator is a position. `EschVector` implements it under the
mapping `Contents` (the cells before `next`) and `Limit` (none, or `slots`).
The abstract module has a copy that may have lost the right to be enlarged, as
the code may, and a caller's variable that a failing call leaves alone, as
`esch.h` promises. The second is not what the code does: a failing getter of one
type writes whatever its local held. So the caller's variable of the sequences
is mapped to `kept`, which such a getter leaves alone, and `ErrorsKeepOutput`
states the promise for `out`. Run `vec_getters` refutes it.

### EschPair and ManagedPairs - pairs and lists

`head`, `tail` and `next_is_pair` are the struct; `iter` is the iterator of the
program, `NextPosition` its two dispatch tables; `subject`, `each`, `answer` are
the argument, loop variable and result of `esch_pair_is_list`, one iteration per
action. `start` and `seen` are history: what the iterator has yielded since it
was obtained, forgotten when the list is changed under it. The constructor and
the setters accept different types (`Storable`, `Settable`), as the code does:
END comes into a pair through `esch_pair_new_empty` or through a setter.

What a list is (`Nth`, `Chain`, `Value`, `Contents`, `IsList`) is read from the
tails alone, never from the flag, so that the properties compare the flag's
answers with the truth.

A value of type OBJECT may hold the address NULL. In a head it is a value like
any other; in a tail `esch_pair_new` and `esch_pair_set_tail` look up the type of
the object at NULL (`NewNullTail`, `SetNullTail`), and the model stops.

`ManagedPairs` adds `head` and `tail` to the state of `EschGc` and recomputes
`elems` of every pair as its iterator would yield it (`Yield`). Its run shows
what comes of an iterator that does not yield the pairs themselves. The lists have
any shape but circles, and the model stops when a pair refers to freed memory,
since whatever reads it then is undefined. `ManagedPairsInv` says what holds up
to there: the elements the collector sees of a pair are the values of its list
(`ElementsFollowLists`), and when it has run over them all of these values are
marked (`VisitedValuesAreMarked`), though not the pairs that hold them. Both are
proved; to have TLC evaluate them, add `INVARIANT PairsInv` to `PairTails.cfg`
in place of its property (210,290 states).

### EschAlloc and EschHeap - memory

`EschAlloc` is `esch_alloc_c_default`: `cookie` is the allocator named in front
of each buffer, `allocate_count` and `deallocate_count` are the counters. It is
also the abstract specification of `EschHeap`: whatever constructors and
destructors do to buffers is a step of it.

`EschHeap` has one action per allocation and per free. `job` is the call that
runs: the kind of object under construction, the buffers it has got, the
temporary configuration of a copy. `Fail` may come before any request is
answered; `UndoPart`, `UndoConfig` and `Return` are what follows at the label
`Exit`, and also the destructors, which free the parts in order and then the
object. All constructors share this form, and `Parts` says how many buffers each
asks for before the object. Types made by the program start without the two
methods that `ESCH_IS_VALID_TYPE` asks for.

Undefined behaviour sets `fault` and ends the run: a copy of a vector that gets
no configuration (`null_config`, `esch_vector.c:254`); a type or an empty pair
made from a configuration whose allocator was set to NULL, which these two
constructors do not check (`null_alloc`, `esch_type.c:38`, `esch_pair.c:60`); and
the deletion of an object whose type is gone (`freed_type`, `esch_object.c:281`).
Rule 7 of `esch_object.h` asks the program to delete a type after its objects,
and nothing in the code sees to it; the model does not assume it either. It does
assume the same rule of allocators: a configuration does not name one that is
gone. What the leak report checks is left to the leak report.

### EschString, EschIdentifier, EschRange - text

`EschString` is `decode_utf8`: the first pass counts code points and rejects
(`CountByte`, `CountFails`, `CountDone`), the second fills the buffer made to
that measure and checks nothing (`WriteByte`, `WriteDone`). A byte is its class,
a code point the sequence of bytes shifted into it, so that decoding can be
compared with the text. The two switch statements are two operators
(`CountContinued`, `WriteContinued`), as they are two in the code.
`Length` has the inverted test of `esch_string.c:110`: bounds that make no range
are reported and give an empty string.

`EschRange` has the eighteen pairs of tables, written as the progressions they
are made of, and `EschIdentifier` the scan, one character per action.

## Runs

| run | instance | shows |
|---|---|---|
| `gc_safety` | 3 vectors of up to 2 elements, 1 atom whose destructor may fail; table of 2 slots that may double once | slot table and free list exact, a flag for every marked slot, garbage freed, root and its children spared, the stack suffices for trees, on flat heaps exactly the right objects are marked and the marking loop goes down, on others the sweep never begins, deletion complete; the collector implements `AbstractCollector`; the strengthened invariant holds |
| `gc_live` | 3 vectors, 1 atom, 1 primitive value; table of 3 slots that may not grow | on flat heaps a collection ends |
| `vec_safety` | 2 vectors, 3 buffers, 1 slot that may double, an integer, an object and the end value | no buffer leaked, shared or overrun, no unwritten element; the vectors are sequences |
| `pair_safety` | 3 pairs, 1 other value, 3 values taken from an iterator | the flag is right, the iterator yields the list, `is_list` answers right, ends on lists that do not come back and never on those that do |
| `heap_safety` | 2 allocators, 5 buffers, strings, vectors, types, objects of them, 1 buffer of the program | counters exact, every buffer has one owner after every failure, allocators outlive their buffers |
| `string_safety` | all texts of up to 5 bytes of 6 classes, all bounds | the second pass stays in the buffer and agrees with the first; well-formed text is decoded; a copy is the same string |
| `identifier_safety` | every character at the edge of a range and beside it, strings of up to 3 characters of each sort | the tables are paired and disjoint and the ASCII macros agree with them; the right verdict, no read behind a string that is not empty |
| `gc_endless` | 2 vectors, 1 atom, 4 slots | violated: a circle of two vectors is walked for ever |
| `gc_reachable` | the same | violated: what only an unvisited container holds is freed |
| `vec_getters` | as `vec_safety` | violated: a getter of one type reports an error and still changes the caller's variable |
| `pair_tails` | a root vector and a list of two pairs | violated: the second pair of a list is not marked, though the list was visited |
| `string_four_bytes` | texts of up to 4 bytes | violated: a four-byte sequence is "Bad Unicode" |

Why these bounds are enough to be interesting.

* Collector: three vectors are the least with a container below a container
  beside a third; two elements per vector make circles, shared children and
  repeated children; a table of two slots is full at once, so attaching,
  doubling, each failing reallocation, the collection in the middle of a
  creation and the reuse of slots freed in any order all happen within a few
  calls. `ByteBits` is the number of flags in a byte, made small so that a table
  of two or four slots is a whole number of bytes, as the default table of the
  code is.
* Vectors: two are the least that can share a buffer, and one slot that doubles
  to two is the least that is full, moves and is full again; a third buffer
  leaves room to move to while two vectors live. `Minimal` stands for the 31
  slots of the code.
* Pairs: three make chains, circles of every length up to three, circles with a
  way into them, and a list cut in the middle. Three values taken from an
  iterator are one turn around the longest circle.
* Memory: five buffers are a configuration, a vector and its copy at the
  moment the copy has its configuration and array, so that the request for the
  object itself is the one that fails; or a string and what made it. `MaxCount`,
  the buffers an allocator gives in its life, is six: reuse happens. The second
  allocator gives none and is there to be handed the buffers of the first. The
  kinds left out, pairs and collectors, have the same actions with no buffer and
  with three before the object.
* Strings: a code point has at most four bytes, so five bytes are one with
  something before or behind it, cut short or interrupted in every place.
* Identifiers: a verdict depends on a character only through the ranges it is
  in, which change at their edges alone, and on its position, first or later.

Beyond these bounds the theorems take over, where there are any.

Symmetry is used over vectors in `gc_safety` and over buffers in `vec_safety`;
neither is told apart by any action. Buffers of `EschHeap` are numbers, because
`malloc` returns the lowest free one: which of them it is makes no difference.
`CHECK_DEADLOCK FALSE` stands in `IdentifierSafety.cfg`, since a call that has
returned is the end of that behaviour, and in `PairTails.cfg`, where the model
stops when a pair refers to freed memory.

Fairness. `FairSpec` of `EschGc` is weak fairness of the steps of a collection
(`Collect`), that of `EschPair` of the iterations of `esch_pair_is_list`
(`IsListLoop`), and of nothing else. Both run inside one call on the only
thread, so they go on until they return; that the program ever calls again is
not assumed.

## Divergences

The violation runs compare the code with a comment, an assertion or a test of
the repository; `PROJECT.json` quotes each. The following were met as well.
Each is in the model, and one call shows it, so none has a run:

* a table whose number of slots is no multiple of eight has no flag for its
  last slots, neither to set in step 2 nor to read in step 3 (`esch_gc.c:372`,
  `:280`, `:310`, fault `flag_bounds`; `FlagsFit` says that no other table lacks
  one, and no run has such a table);
* when the second or third reallocation of `attach` fails, the collector keeps
  the pointers that the earlier ones have freed (`esch_gc.c:137`,
  `AttachEnlargeFails`), and whatever uses the table next reads freed memory
  (fault `freed_buffer`), though the comment of `esch_gc.c:148` has the content
  moved;
* step 2 pops below its stack when the root holds no container, and overruns it
  when one container is held several times (`esch_gc.c:284`, `:291`);
* a destructor that fails during deletion leaves a collector without root
  (`esch_gc.c:74`);
* a copy that cannot create its configuration deletes the object of NULL
  (`esch_vector.c:254`, fault `null_config`);
* appending a NULL object indexes the assignment table with an error code
  (`esch_vector.c:371`, fault `bad_dispatch`), and setting one stores it
  (`esch_vector.c:446`);
* a pair whose tail is the object at NULL, and a type or an empty pair made
  without an allocator, are read at address NULL (`esch_pair.c:131`, `:334`;
  `esch_type.c:38`, `esch_pair.c:60`; faults `null_object` and `null_alloc`);
* an object whose type was deleted before it cannot be deleted
  (`esch_object.c:281`, fault `freed_type`);
* bounds that make no range give an empty string (`esch_string.c:110`);
* the scan of an empty string reads behind its terminator
  (`esch_string.c:210`; `OverrunsOnlyEmpty` says that no other string is
  overrun);
* ranges that the Unicode data gives by first and last character are two single
  characters in the tables (`esch_range.c:7`): the tables are checked against
  themselves, not against Unicode;
* `esch_type_new_s` hands out its object when creation failed
  (`esch_type.c:208`); nothing calls it, so it is not modelled.

## Proofs

All theorems hold for every value of the constants that satisfies the named
assumptions of `EschGc` (`HeapAssumption`, `SlotAssumption`), `EschVector`
(`ValueAssumption`, `MemoryAssumption`), `EschPair` (`PairAssumption`),
`EschAlloc` (`AllocAssumption`), `EschHeap` (`HeapAssumption`), `EschString`
(`StringAssumption`) and `EschIdentifier` (`InputAssumption`); TLC evaluates
them on every run. The bounds (`MaxSlots`, `MaxLen`, `MaxPos`, `MaxSeen`,
`MaxCount`, `MaxRaw`) are arbitrary constants there. Every safety and action
property of a passing run is proved, but for one third of `TablesFit`: that the
ranges of the categories are disjoint, which is computation.

**Collector** (`EschGcProofs`). `InductiveInvariant` proves `Spec => []IInv`.
The properties are not inductive alone, and `IInv` adds what they rest on:

* `FreeListLinked`: no two links of the free list meet. Without it taking the
  head could leave a slot that the rest of the list no longer reaches.
* `TableAlive`, `PendingNotAlive`: when there is a table, and that the object
  under creation is not yet one of the objects a collection may meet.
* `MarksReachable`: while a collection runs, a marked object can be reached
  from the root, and so can whatever is on the stack; from this follows that
  garbage is never kept.
* `RootFamilyMarked`: when the sweep begins, the root and its children are
  marked. The first container visited is the root, so its elements are marked
  before the order of pops matters.
* `SweptSlots`, `UnsweptMarked`: what the sweep has passed is marked or free,
  and what it has not yet reached still has the flag of its free slot set, so
  that a free-list index is not taken for a pointer.
* `StackGrown`, `StackDistinct`: the stack has one entry only while the root is
  visited for the first time and no container was met in it; in a tree no
  container is on it twice. A child that is on the stack lies above its parent,
  because it has only one; so what the iterator still has to come to is not on
  the stack, and what it pushes is new. Distinct containers of the collector
  have distinct slots, and the pigeonhole principle bounds the stack by the
  table (`StackFits`).
* `FlagsWhole`: doubling keeps a table a whole number of bytes of flags.
* `FlatWalk`: on a flat heap the stack holds containers of the root in the order
  of their places, which an existential quantifier ranges over. While the root
  is run over these are the ones it has met; afterwards the container on top is
  run over, those before it are all on the stack, and those after it but for the
  last are done (`PlaceMarked`). Popping the one on top makes the one before it
  the next, so nothing is left out. `FlatSound` adds that nothing else is marked.
* `RootAlone`, `NestedHeld`: on any other heap the root is alone on the stack and
  what it holds pushes nothing; or it is run over for the first time; or some
  entry of the stack above the root is `Anchored`: it holds a container, and
  either something lies above it or it is run over and has all its containers
  still before it. Such an entry is never popped: when its turn comes, the
  containers it holds are pushed above it before the pop. The first run leaves
  one, because a container that is not the root's last lies below another.

`EschGcTable` sorts the steps by what they change (`StepCase`) and proves that
each keeps the table; `EschGcProofs` does the same for the marks and the stack.
From `IInv` follow `TypeCorrect`, `SlotsCorrect`, `FreeListCorrect`,
`UnionCorrect`, `FlagsCorrect`, `StackCorrect`, `FlatMarksCorrect` and, as
properties of steps, `GarbageCorrect`, `RootFamilyCorrect`, `DeleteCorrect` and
`FlatProgressCorrect`. The last is the variant of the marking loop; that the
loop therefore ends (`FlatHeapRecycleEnds`) needs fairness as well, and is left
to TLC.

`FlatTreesCorrect` puts the faults together. The findings are about heaps on
which a collection leaves its stack, misses a flag, reads a freed object or
takes an index for a pointer; the theorem is the other side: on a flat tree in
which nothing was freed, with a table of whole bytes of flags, it does none of
this, in step 2 or in the sweep. `FaultPlaces` says where each fault can arise,
and that is what makes it inductive: a freed object is read only when one that
can be reached was freed, a free-list index only in the sweep. The stack is
above its bottom because a flat heap's root holds a container, and below its top
because the heap is a tree (both from `StackSufficesForTrees`). Together
with `FlatMarksCorrect` (what is kept) and `FlatProgressCorrect` (the variant)
this is all there is to say of such a collection but the fairness.

`CollectorCorrect` is `Spec => ImplementsCollector`. The step at which step 2
ends is the abstract collection: `FlatHeapMarks` says that the heap is flat and
what is marked. A step of the sweep
frees only what is not marked, so that `Owned` stays, and when the sweep is over
`SweptSlots` has all that is still managed marked, so that it stays once more.
Deletion is the abstract one when it begins, because by then nothing is marked.

**Pairs under the collector** (`EschGcProofs`, last section). These theorems
assume that `Pairs` is a finite subset of `Vectors`. `PairsInv` is `IInv` with
`ElementsFollowLists` and the types of heads and tails, and is inductive
(`PairsInvariant`): between collections a setter recomputes the elements of
every pair, and within one the pairs do not change, while a list of which a pair
is freed drops out. That it stays out until the program could see it is why the
model has to stop at a dangling pair. What a list is, is again a statement about
all numbers of tails taken (`NthIterates`): lists that hold the same are the same
(`SameList`), no list is shorter than its set of pairs (`NthInPairs`), and the
pairs of a list stay in every set that is closed under tails (`ChainWithin`).
`ValuesMarked` is `VisitedValuesAreMarked`, from `PassedMarked`, the conjunct of `IInv` that what
the iterator has passed is marked. All that is proved of a collector of vectors
holds of one of lists: `PairsCollected` for its action properties, `PairFaults`
for its faults and for flat trees of lists, and `PairsImplementCollector` for the refinement, where setting
one tail may change what many pairs hold, but only by what is owned.

**Vectors** (`EschVectorProofs`). Here the three invariants together are
inductive. `GoodHeap` restates them one vector at a time, and
`OneVectorChanges` is the only lemma about the whole heap: whatever a call
does, it changes one vector, to a record and a buffer that `Fits`.
`VectorTypes`, `VectorBuffers` and `VectorElements` follow. For the refinement,
each call is an abstract call or leaves the abstract variables alone, and
`VectorsAreSequences` is `Spec => ImplementsSequences`.

**Pairs** (`EschPairProofs`). `TailsAreTrusted` speaks of the pair the iterator
stands on; its next position is a tail. So `PairInv` adds `TailsExist`, that no
tail was freed, which deletion keeps because a pair that is held is not deleted,
and `EachExists`, that the loop of `is_list` has a pair in hand exactly while it
runs. `PairInvariant`, `PairTypes` and `TailsTrusted` follow. What a list is, is
a statement about all numbers of tails taken, so the rest needs to follow a
chain step by step: the iterator has taken the tails that were yielded, and the
loop of `is_list` has come to its pair by tails alone. From this follow
`IteratorRight`, `AnswersRight` and, since a pair that comes back to itself
yields no end, `CircleForEver`. On a list that does not come back each turn of
the loop leaves a pair behind that no later turn can meet (`NeverAgain`); this is
`LoopProgresses`, the variant behind `IsListReturns`, which itself needs fairness
and is left to TLC.

**Memory** (`EschHeapProofs`). `AllocInv` is the types, exact counters and
`AllocatorsOutliveBuffers` together: an allocator is deleted when its counters
agree, and only because they are exact does this mean that it has nothing
outstanding. `AllocatorsCorrect` proves it of `EschAlloc`. `HeapImplementsAlloc`
is `Spec => AllocSpec` of `EschHeap`, action by action, so that `LeakReportExact`
and `AllocatorsGoLast` carry over to every constructor, copy and destructor.

`HeapInv` says of buffers what the code never writes down: those of the job,
of its temporary configuration and of each object are apart (`ListsDistinct`,
`NoneShared`), all of them are allocated, by the allocator the owner names
(`RightAllocator`), and nothing allocated is without an owner (`AllOwned`). An
action moves one buffer from one owner to another. With `TypeGiven`, that an
object under construction was given a type, `HeapCorrect` gives `OneOwner` and
`HeapTypeOK`.

**Strings** (`EschStringProofs`). `StringInv` says where in the text each pass is:
in which sequence, after how many of its bytes, and how many code points came
before. The second pass is where the first was (`SecondPassAgrees`); it has
completed at most as many code points as the first counted (`SecondPassFits`);
and on well-formed text what it has written is the text (`DecodesWellFormed`). A
duplicate is decoded from the same bytes (`DuplicatesAreSame`). `WellFormed` and
the concatenation of code points are recursive functions; the proof obtains
their equations from the existence of the function, shown by induction over the
length of a prefix.

**Identifiers** (`EschIdentifierProofs`). `ScanInv` says that the pointer leaves
only the empty string, and that every character before it was accepted:
`OnlyEmptyOverrun`, `VerdictOfAllCharacters`.

The tables are data, but data that SMT can read when it comes in parts. Three
facts about them are wanted. `TablesBelongTogether` (`TablesPaired`): the
tables of a category have one length, and no range ends before it begins. The
tables written in one piece are read at once; the long ones part by part,
and `PartsPaired` says that what two tables have is what their parts have.
`MacrosAgree` (`AsciiAgrees`): `AsciiPart` says that only the first ranges of a
table can hold an ASCII character, and these few are read (`AsciiOf`). With both,
`InsideRanges` (a range that has ended has begun, so counting finds what the
search finds) gives `VerdictCorrect`, with no hypothesis on the tables.

The third, `TablesDisjoint`, is left to TLC. Each pair of tables is within the
reach of SMT, but the 153 pairs, the long ones in parts, would be a proof several
times as long as the tables and would say no more than TLC's evaluation of the
formula. It has no constants and no variables, so what TLC computes in
`identifier_safety` (`TablesFit`) is the whole of it.

`WellOrdering` has the induction these proofs use. The induction theorems of the
library take an operator, which the provers cannot instantiate; these take a
set, and are proved from the fact that a finite set has no infinite descending
chain of subsets. `Iteration` is the sequence f(x), f(f(x)), ... for any function
f, as a function on the numbers, from which the lists are made.

With TLC only: liveness (that a collection and `is_list` end), which needs
fairness; that the tables are disjoint (in `TablesFit`), which is computation;
and the violated claims, which are shown by a behaviour.

## Not modelled

* The log (output only), the macros of `esch_debug.h` (their early returns are
  guards of the actions), the public header, tests and build files.
* Numbers: not part of the build.
* String entries of a configuration, which nothing reads, and the search of its
  keys; integer entries are constants of the models that read them.
* Types of another version, which no program can make, and the setters of
  methods that have a default.
* Types that a collector manages are not nodes of the graph, and vectors under
  a collector hold only objects of that collector or values without an object.
* Collector and memory meet in `EschGc` only as "an allocation may fail":
  `EschHeap` has the buffers of objects without a collector.
* After undefined behaviour nothing is said.

## Plan

What is left, in this order.

1. Circular lists under the collector: the iterator of such a pair yields for
   ever, so that a collection that comes to it does not end.
2. The vectors of `EschVector` as the containers of `EschGc`: a doubling that
   fails while a collection runs.
