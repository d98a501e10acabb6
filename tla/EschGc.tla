------------------------------- MODULE EschGc -------------------------------
(***************************************************************************)
(* The naive mark-and-sweep collector of src/src/esch_gc.c, with the part  *)
(* of the object layer that drives it (esch_object_new_i and               *)
(* esch_object_delete_i of src/src/esch_object.c) and the vectors whose    *)
(* elements are the edges of the object graph.                             *)
(*                                                                         *)
(* The runtime is single-threaded.  A collection is a long loop, so it is  *)
(* modelled one iteration per action: only this shows whether the loop     *)
(* ends, and in which state it leaves the table when it does.  Behaviour   *)
(* that C leaves undefined (an index outside an array, a freed buffer, a   *)
(* freed object, the wrong member of the slot union) ends the run in a     *)
(* state whose variable fault names what was done: nothing that happens    *)
(* afterwards can be relied upon.                                          *)
(***************************************************************************)
EXTENDS Naturals, Sequences, FiniteSets

CONSTANTS
  Vectors,        (* containers: the objects a collection can descend into *)
  Atoms,          (* objects without elements (strings)                    *)
  Prims,          (* values of vector elements that are not objects        *)
  Stubborn,       (* objects whose destructor may return an error          *)
  NoObj,          (* the NULL object pointer                               *)
  InitialSlots,   (* gc:naive:slots of the configuration                   *)
  Enlarge,        (* gc:naive:enlarge of the configuration                 *)
  ByteBits,       (* bits in an element of inuse_flags: 8 in the code      *)
  MaxSlots,       (* bound: the slot table never grows beyond this         *)
  MaxLen          (* bound: length of a vector                             *)

Objects == Vectors \cup Atoms

ASSUME HeapAssumption ==
  /\ Vectors \cap Atoms = {}
  /\ Prims \cap Objects = {}
  /\ Stubborn \subseteq Objects
  /\ NoObj \notin Objects
  /\ \A o \in Objects : o \notin Nat

ASSUME SlotAssumption ==
  /\ InitialSlots \in Nat \ {0}
  /\ ByteBits \in Nat \ {0}
  /\ Enlarge \in BOOLEAN
  /\ MaxSlots \in Nat
  /\ MaxLen \in Nat

VARIABLES
  alive,          (* objects whose memory is allocated                     *)
  managed,        (* objects o with o->gc = gc                             *)
  gc_id,          (* o->gc_id: the index of o's slot                       *)
  elems,          (* what the iterator of a vector yields                  *)
  root,           (* gc->root                                              *)
  slots,          (* gc->slots: in each, an object or the next free index  *)
  slot_count,     (* gc->slot_count                                        *)
  usable_slot,    (* gc->usable_slot: head of the free list, 0 = none      *)
  freed,          (* gc buffers that were freed though gc still uses them  *)
  inuse_flags,    (* indices whose bit is set in gc->inuse_flags           *)
  recycle_stack,  (* gc->recycle_stack up to stack_ptr                     *)
  iter,           (* the iterator: its container and position              *)
  sweep,          (* index of the sweeping loop                            *)
  failed,         (* the last destructor called returned an error          *)
  pending,        (* object being created when its allocation failed       *)
  pc,             (* where the single thread is                            *)
  fault           (* "none", or the undefined behaviour that was reached   *)

heap  == <<alive, managed, gc_id, elems>>
table == <<root, slots, slot_count, usable_slot, freed>>
walk  == <<inuse_flags, recycle_stack, iter, sweep, failed>>
ctl   == <<pending, pc, fault>>
vars  == <<heap, table, walk, ctl>>

ROOT_INDEX == 0
Start(o) == [container |-> o, pos |-> 1]

Last(s) == s[Len(s)]
Front(s) == SubSeq(s, 1, Len(s) - 1)

(***************************************************************************)
(* The slot table.                                                         *)
(***************************************************************************)

\* The slots that hold the index of another slot rather than an object.
FreeSlots == {i \in 1 .. slot_count - 1 : slots[i] \in Nat}

\* Plausible bug: the linking loop stops one slot early.
ShortChain(lo, hi) ==
  [i \in lo .. hi |-> IF i \in {lo, hi} THEN ROOT_INDEX ELSE i - 1]

\* A run lo..hi of free slots, each linked to the one below, the last to 0.
FreshChain(lo, hi) == [i \in lo .. hi |-> IF i = lo THEN ROOT_INDEX ELSE i - 1]

\* The table of a new collector: root in slot 0, every other slot free.
NewSlots(r) ==
  [i \in 0 .. InitialSlots - 1 |->
     IF i = ROOT_INDEX THEN r ELSE FreshChain(1, InitialSlots - 1)[i]]

\* Plausible bug: the old slots are not carried over to the new buffer.
ForgetfulSlots ==
  [i \in 0 .. 2 * slot_count - 1 |->
     IF i < slot_count THEN ROOT_INDEX
     ELSE FreshChain(slot_count, 2 * slot_count - 1)[i]]

\* The table doubled when no slot was free.
EnlargedSlots ==
  [i \in 0 .. 2 * slot_count - 1 |->
     IF i < slot_count THEN slots[i]
     ELSE FreshChain(slot_count, 2 * slot_count - 1)[i]]

\* The slots met by following the free list from usable_slot: the least set
\* that holds the head and, with a slot, the slot it links to.
FreeChain ==
  {i \in 1 .. slot_count - 1 :
     \A S \in SUBSET (1 .. slot_count - 1) :
        /\ usable_slot # ROOT_INDEX => usable_slot \in S
        /\ \A j \in S : slots[j] \in 1 .. slot_count - 1 => slots[j] \in S
        => i \in S}

\* Plausible bug: the bytes are counted from one.
ByteFromOne(i) == i \div ByteBits + 1 < slot_count \div ByteBits

\* DIV8(idx) is inside the slot_count/8 bytes allocated for inuse_flags.
HasFlag(i) == i \div ByteBits < slot_count \div ByteBits

(***************************************************************************)
(* The object graph: what can be reached from root through elements.       *)
(***************************************************************************)
Children(v) == {elems[v][k] : k \in DOMAIN elems[v]} \cap Objects

Reachable ==
  {o \in Objects :
     \A S \in SUBSET Objects :
        /\ root \in Objects => root \in S
        /\ \A v \in S \cap Vectors : Children(v) \subseteq S
        => o \in S}

(***************************************************************************)
(* Faults.                                                                 *)
(***************************************************************************)
Fault(what) ==
  /\ fault' = what
  /\ UNCHANGED <<heap, table, walk, pending, pc>>

Running(at) == fault = "none" /\ pc = at

-----------------------------------------------------------------------------
(***************************************************************************)
(* Objects that no collector manages: the configuration holds no GC yet.   *)
(***************************************************************************)

\* esch_vector_new without a GC: how the future root is made.
NewUnmanaged(o) ==
  /\ Running("none") /\ o \in Vectors \ alive
  /\ alive' = alive \cup {o}
  /\ UNCHANGED <<managed, gc_id, elems, table, walk, ctl>>

\* esch_object_delete: a managed object is refused, any other is destroyed.
DeleteUnmanaged(o) ==
  /\ fault = "none" /\ pc \in {"none", "idle"}
  /\ o \in alive \ managed
  /\ alive' = alive \ {o}
  /\ elems' = IF o \in Vectors THEN [elems EXCEPT ![o] = <<>>] ELSE elems
  /\ UNCHANGED <<managed, gc_id, table, walk, ctl>>

\* esch_gc_new_naive_mark_sweep on a container that has no collector.  The
\* flag of the root is set at once, inside the array or not; no step reads it.
GcNew(r) ==
  /\ Running("none") /\ r \in (alive \cap Vectors) \ managed
  /\ root' = r
  /\ slots' = NewSlots(r)
  /\ slot_count' = InitialSlots
  /\ usable_slot' = InitialSlots - 1
  /\ freed' = {}
  /\ managed' = managed \cup {r}
  /\ gc_id' = [gc_id EXCEPT ![r] = ROOT_INDEX]
  /\ pc' = "idle"
  /\ fault' = IF InitialSlots < ByteBits THEN "flag_bounds" ELSE "none"
  /\ UNCHANGED <<alive, elems, walk, pending>>

(***************************************************************************)
(* attach: give a new object a slot.  Nothing of the object is kept when   *)
(* it fails: esch_object_new_i frees its memory.                           *)
(***************************************************************************)

\* Take the head of the free list tbl, whose first index is head.
Occupy(o, tbl, count, head) ==
  /\ slots' = [tbl EXCEPT ![head] = o]
  /\ slot_count' = count
  /\ usable_slot' = tbl[head]
  /\ gc_id' = [gc_id EXCEPT ![o] = head]
  /\ managed' = managed \cup {o}
  /\ alive' = alive \cup {o}
  /\ UNCHANGED <<elems, root, freed, walk, fault>>
  /\ pending' = NoObj /\ pc' = "idle"

AttachFree(o) ==
  /\ usable_slot # ROOT_INDEX
  /\ Occupy(o, slots, slot_count, usable_slot)

AttachEnlarged(o) ==
  /\ usable_slot = ROOT_INDEX /\ Enlarge /\ freed = {}
  /\ 2 * slot_count <= MaxSlots
  /\ Occupy(o, EnlargedSlots, 2 * slot_count, 2 * slot_count - 1)

\* One of the three reallocations fails.  Those before it have freed the old
\* buffers, and Exit frees the new ones, which gc does not know of yet.
AttachEnlargeFails ==
  /\ usable_slot = ROOT_INDEX /\ Enlarge /\ freed = {}
  /\ freed' \in {{}, {"slots"}, {"slots", "inuse_flags"}}
  /\ pending' = NoObj /\ pc' = "idle"
  /\ UNCHANGED <<heap, root, slots, slot_count, usable_slot, walk, fault>>

\* ESCH_ERROR_CONTAINER_FULL.
AttachFull ==
  /\ usable_slot = ROOT_INDEX /\ ~Enlarge
  /\ pending' = NoObj /\ pc' = "idle"
  /\ UNCHANGED <<heap, table, walk, fault>>

AttachFreedBuffer ==
  /\ usable_slot = ROOT_INDEX /\ Enlarge /\ freed # {}
  /\ Fault("freed_buffer")

Attach(o) ==
  \/ AttachFree(o)
  \/ AttachEnlarged(o)
  \/ AttachEnlargeFails
  \/ AttachFull
  \/ AttachFreedBuffer

(***************************************************************************)
(* recycle, steps 1 and 1.5: clear the flags, mark the free list.  Then    *)
(* step 2 from the root or, when the destructor has cleared root, step 3.  *)
(***************************************************************************)

\* Plausible bug: step 1.5 forgotten.
NoMarkedFreeList == {}

MarkedFreeList == FreeChain

BeginRecycle(r, o) ==
  IF freed # {} THEN Fault("freed_buffer")
  ELSE IF \E i \in MarkedFreeList : ~HasFlag(i) THEN Fault("flag_bounds")
  ELSE
    /\ root' = r
    /\ pending' = o
    /\ failed' = FALSE
    /\ sweep' = 0
    /\ IF r = NoObj
       THEN /\ pc' = "sweep"
            /\ inuse_flags' = MarkedFreeList
            /\ UNCHANGED <<recycle_stack, iter>>
       ELSE /\ pc' = "mark"
            /\ inuse_flags' = MarkedFreeList \cup {gc_id[r]}
            /\ recycle_stack' = <<r>>
            /\ iter' = Start(r)
    /\ UNCHANGED <<heap, slots, slot_count, usable_slot, freed, fault>>

\* esch_gc_recycle, called by the program.
Recycle == Running("idle") /\ BeginRecycle(root, NoObj)

\* esch_object_delete on the collector: its destructor clears root first.
DeleteGc == Running("idle") /\ BeginRecycle(NoObj, NoObj)

\* esch_object_new_i.  Out of memory starts a collection and tries again once.
New(o) == Running("idle") /\ o \notin alive /\ Attach(o)

NewOutOfMemory(o) ==
  Running("idle") /\ o \notin alive /\ BeginRecycle(root, o)

RetryNew == Running("retry") /\ Attach(pending)

RetryFails ==
  /\ Running("retry")
  /\ pending' = NoObj /\ pc' = "idle"
  /\ UNCHANGED <<heap, table, walk, fault>>

-----------------------------------------------------------------------------
(***************************************************************************)
(* recycle, step 2.  The iterator runs over the elements of the container  *)
(* on top of the stack when it was obtained; containers met on the way are *)
(* pushed above it, marked before or not.                                  *)
(***************************************************************************)
Current == iter.container
AtEnd   == iter.pos > Len(elems[Current])
Element == elems[Current][iter.pos]

Advance == iter' = [iter EXCEPT !.pos = @ + 1]

VisitPrim ==
  /\ Running("mark") /\ ~AtEnd /\ Element \in Prims
  /\ Advance
  /\ UNCHANGED <<heap, table, inuse_flags, recycle_stack, sweep, failed, ctl>>

\* Plausible bug: a container is left to be marked when it is visited.
MarkAtomsOnly(child) ==
  IF child \in Vectors THEN inuse_flags ELSE inuse_flags \cup {gc_id[child]}

\* ESCH_GC_MARK_INUSE, without effect when the flag is set already.
Marked(child) == inuse_flags \cup {gc_id[child]}

\* What is on the stack once a child was visited.
Pushed(child) ==
  IF child \in Vectors THEN Append(recycle_stack, child) ELSE recycle_stack

VisitChild ==
  /\ Running("mark") /\ ~AtEnd /\ Element \in Objects
  /\ IF Element \notin alive THEN Fault("freed_object")
     ELSE IF ~HasFlag(gc_id[Element]) THEN Fault("flag_bounds")
     ELSE IF Len(Pushed(Element)) > slot_count + 1 THEN Fault("stack_overflow")
     ELSE
       /\ inuse_flags' = Marked(Element)
       /\ recycle_stack' = Pushed(Element)
       /\ Advance
       /\ UNCHANGED <<heap, table, sweep, failed, ctl>>

\* Plausible bug: the finished container stays on the stack.
Unpopped == recycle_stack

\* Plausible bug: two entries are taken away at once.
PoppedTwice ==
  IF Len(recycle_stack) > 1 THEN Front(Front(recycle_stack)) ELSE <<>>

Popped == Front(recycle_stack)

\* (*(stack_ptr--)) = NULL takes the top of the stack away, which is the last
\* container pushed, not the one just visited.  The loop ends when the pointer
\* is back at the bottom; from below the bottom it goes on.
PopStack ==
  /\ Running("mark") /\ AtEnd
  /\ LET rest == Popped IN
     IF rest = <<>> THEN Fault("stack_underflow")
     ELSE
       /\ recycle_stack' = rest
       /\ IF Len(rest) = 1
          THEN /\ inuse_flags' = Marked(root)
               /\ pc' = "sweep"
               /\ UNCHANGED iter
          ELSE /\ inuse_flags' = Marked(Last(rest))
               /\ iter' = Start(Last(rest))
               /\ UNCHANGED pc
       /\ UNCHANGED <<heap, table, sweep, failed, pending, fault>>

(***************************************************************************)
(* recycle, step 3: destroy what is not marked, slot by slot.              *)
(***************************************************************************)

\* Plausible bug: the last slot is not swept.
SweepEndEarly == slot_count - 1

SweepEnd == slot_count

SweepKeep ==
  /\ Running("sweep") /\ sweep < SweepEnd /\ sweep \in inuse_flags
  /\ sweep' = sweep + 1
  /\ UNCHANGED <<heap, table, inuse_flags, recycle_stack, iter, failed, ctl>>

\* Plausible bug: the slot is set to NULL instead of being linked.
Nulled(i) == [slots EXCEPT ![i] = NoObj]

\* slots[i].next = gc->usable_slot; gc->usable_slot = i.
Unlinked(i) == [slots EXCEPT ![i] = usable_slot]

\* The object loses its collector, its destructor runs, and its slot is
\* returned even when the destructor fails and the object remains.
SweepFree ==
  /\ Running("sweep") /\ sweep < SweepEnd /\ sweep \notin inuse_flags
  /\ IF ~HasFlag(sweep) THEN Fault("flag_bounds")
     ELSE IF slots[sweep] \notin Objects THEN Fault("slot_not_object")
     ELSE LET o == slots[sweep] IN
       /\ managed' = managed \ {o}
       /\ gc_id' = [gc_id EXCEPT ![o] = 0]
       /\ \/ alive' = alive \ {o} /\ failed' = FALSE
          \/ o \in Stubborn /\ failed' = TRUE /\ UNCHANGED alive
       /\ slots' = Unlinked(sweep)
       /\ usable_slot' = sweep
       /\ sweep' = sweep + 1
       /\ UNCHANGED <<elems, root, slot_count, freed, inuse_flags,
                      recycle_stack, iter, ctl>>

\* What no later step reads is forgotten when the collection is over: what
\* freed memory held, the locals of recycle, and the flags, which the next
\* collection clears first.
Forget ==
  /\ elems' = [v \in Vectors |-> IF v \in alive THEN elems[v] ELSE <<>>]
  /\ inuse_flags' = {} /\ recycle_stack' = <<>>
  /\ iter' = Start(NoObj) /\ sweep' = 0 /\ failed' = FALSE

\* recycle returns, to esch_gc_recycle or to esch_object_new_i.
SweepDone ==
  /\ Running("sweep") /\ sweep = SweepEnd /\ root # NoObj
  /\ Forget
  /\ pc' = IF pending = NoObj THEN "idle" ELSE "retry"
  /\ UNCHANGED <<alive, managed, gc_id, table, pending, fault>>

\* The three buffers and the collector itself are freed.
NoTable ==
  /\ root' = NoObj /\ slots' = [i \in {} |-> 0]
  /\ slot_count' = 0 /\ usable_slot' = 0 /\ freed' = {}

\* recycle returns to esch_gc_destructor_i.  The status it returns is that of
\* the last destructor called: unless it is ESCH_OK, esch_gc_destructor_i
\* gives up and the collector stays, without a root.
DestructorDone ==
  /\ Running("sweep") /\ sweep = SweepEnd /\ root = NoObj
  /\ Forget
  /\ IF failed
     THEN pc' = "idle" /\ UNCHANGED table
     ELSE pc' = "none" /\ NoTable
  /\ UNCHANGED <<alive, managed, gc_id, pending, fault>>

(***************************************************************************)
(* The program between two calls of the collector.                         *)
(***************************************************************************)

\* esch_vector_append_*: children must be managed by the same GC.
AppendElem(v, x) ==
  /\ Running("idle") /\ Len(elems[v]) < MaxLen
  /\ elems' = [elems EXCEPT ![v] = Append(@, x)]
  /\ UNCHANGED <<alive, managed, gc_id, table, walk, ctl>>

\* esch_vector_set_*: the former element is dropped.
SetElem(v, k, x) ==
  /\ Running("idle") /\ k \in DOMAIN elems[v]
  /\ elems' = [elems EXCEPT ![v][k] = x]
  /\ UNCHANGED <<alive, managed, gc_id, table, walk, ctl>>

\* After undefined behaviour nothing is known.
Crashed == fault # "none" /\ UNCHANGED vars

-----------------------------------------------------------------------------
Init ==
  /\ alive = {} /\ managed = {}
  /\ gc_id = [o \in Objects |-> 0]
  /\ elems = [v \in Vectors |-> <<>>]
  /\ root = NoObj /\ slots = [i \in {} |-> 0]
  /\ slot_count = 0 /\ usable_slot = 0 /\ freed = {}
  /\ inuse_flags = {} /\ recycle_stack = <<>>
  /\ iter = Start(NoObj) /\ sweep = 0 /\ failed = FALSE
  /\ pending = NoObj /\ pc = "none" /\ fault = "none"

Mutate ==
  \E v \in Vectors \cap managed, x \in managed \cup Prims :
     \/ AppendElem(v, x)
     \/ \E k \in 1 .. MaxLen : SetElem(v, k, x)

Collect ==
  \/ VisitPrim \/ VisitChild \/ PopStack
  \/ SweepKeep \/ SweepFree \/ SweepDone \/ DestructorDone

Next ==
  \/ \E o \in Objects :
        \/ NewUnmanaged(o) \/ DeleteUnmanaged(o) \/ GcNew(o)
        \/ New(o) \/ NewOutOfMemory(o)
  \/ Mutate
  \/ Recycle \/ DeleteGc
  \/ RetryNew \/ RetryFails
  \/ Collect
  \/ Crashed

Spec == Init /\ [][Next]_vars

\* A collection runs inside a call, on the only thread: it is not suspended.
FairSpec == Spec /\ WF_vars(Collect)

-----------------------------------------------------------------------------
(***************************************************************************)
(* Properties.                                                             *)
(***************************************************************************)
Faults == {"none", "flag_bounds", "freed_buffer", "freed_object",
           "slot_not_object", "stack_overflow", "stack_underflow"}

\* Every variable has its type.
TypeOK ==
  /\ alive \subseteq Objects /\ managed \subseteq Objects
  /\ gc_id \in [Objects -> Nat]
  /\ elems \in [Vectors -> Seq(Objects \cup Prims)]
  /\ root \in Vectors \cup {NoObj}
  /\ slot_count \in Nat
  /\ slots \in [0 .. slot_count - 1 -> Objects \cup Nat]
  /\ usable_slot \in Nat
  /\ freed \subseteq {"slots", "inuse_flags"}
  /\ inuse_flags \subseteq Nat
  /\ recycle_stack \in Seq(Vectors)
  /\ iter \in [container : Vectors \cup {NoObj}, pos : Nat]
  /\ sweep \in Nat
  /\ failed \in BOOLEAN
  /\ pending \in Objects \cup {NoObj}
  /\ pc \in {"none", "idle", "mark", "sweep", "retry"}
  /\ fault \in Faults

\* Slots and objects name each other: the slot an object's gc_id gives holds
\* that object, a slot holds only objects that the collector owns, and no
\* object it owns has been freed (esch_gc.h: "The esch_object::gc_id field
\* points to the offset").  Attaching, doubling the table and sweeping all
\* rewrite one side of this.
SlotsMatchObjects ==
  /\ \A o \in managed :
        o \in alive /\ gc_id[o] \in DOMAIN slots /\ slots[gc_id[o]] = o
  /\ \A i \in DOMAIN slots :
        slots[i] \in Objects => slots[i] \in managed /\ gc_id[slots[i]] = i

\* While the collector has its root, the free list is exactly the set of
\* slots without an object: it starts and stays in it, reaches all of it and
\* ends.  So a slot is never lost, never handed out twice, and attach reports
\* a full table only when it is full.
FreeListExact ==
  root # NoObj =>
    /\ slots[ROOT_INDEX] = root
    /\ usable_slot \in FreeSlots \cup {ROOT_INDEX}
    /\ \A i \in FreeSlots : slots[i] \in FreeSlots \cup {ROOT_INDEX}
    /\ FreeSlots \subseteq FreeChain
    /\ \A S \in SUBSET FreeSlots :
          S # {} => \E i \in S : slots[i] \notin S

\* The containers that can be reached from the root are the collector's own,
\* and each is an element of them at most once, the root never.
IsTree ==
  LET held == Reachable \cap Vectors IN
    /\ held \subseteq managed
    /\ \A v, w \in held :
         \A i \in DOMAIN elems[v], j \in DOMAIN elems[w] :
           /\ elems[v][i] # root
           /\ elems[v][i] = elems[w][j] /\ elems[v][i] \in Vectors
                => v = w /\ i = j

\* recycle_stack is left at either end only where the loop of step 2 cannot
\* cope: below the bottom (esch_gc.c:248, the root is "always in use") when
\* the root holds no container at all, and over the slot_count + 1 entries
\* that esch_gc.h:67 calls "predictable memory/stack usage" when a container
\* is held more than once, or is not the collector's, as one that outlived a
\* former collector may hold.  A tree of its own containers always fits.
StackSufficesForTrees ==
  /\ fault = "stack_underflow" => Children(root) \cap Vectors = {}
  /\ fault = "stack_overflow" => ~IsTree

\* A collection that ran to its end leaves no garbage: when the sweep of a
\* collector with a root is over, every object it still owns could be reached
\* from the root when the collection began.
GarbageIsFreed ==
  [][pc = "sweep" /\ pc' # "sweep" /\ root # NoObj
       => managed \subseteq Reachable]_vars

\* A collection never frees the root nor an object stored in the root itself,
\* whatever else it frees.
RootFamilySurvives ==
  [][root # NoObj /\ root' = root
       => \A o \in managed \ managed' : o # root /\ o \notin Children(root)]_vars

\* Deleting the collector gives up every object it owns, the root included.
DeleteFreesAll ==
  [][pc = "sweep" /\ pc' # "sweep" /\ root = NoObj => managed' = {}]_vars

\* The sweep never takes a free-list index for an object pointer, as long as
\* the collector was not kept alive by a destructor that failed.
UnionReadRight == fault = "slot_not_object" => root = NoObj /\ sweep = 0

\* The bytes of inuse_flags are counted by dividing the number of slots: a
\* table whose first size is a whole number of bytes has a flag for each slot
\* that is marked, however often attach doubles it.
FlagsFit == fault = "flag_bounds" => InitialSlots % ByteBits # 0

\* The one shape of heap that step 2 copes with: the root holds a container,
\* and the containers it holds, but for the last, hold atoms only.
ContainerPlaces(v) == {i \in DOMAIN elems[v] : elems[v][i] \in Vectors}

NotLast(i) == \E j \in ContainerPlaces(root) : i < j

FlatHeap ==
  /\ ContainerPlaces(root) # {}
  /\ \A i \in ContainerPlaces(root) :
        NotLast(i) => ContainerPlaces(elems[root][i]) = {}

\* The root, what it holds, and what its containers but for the last hold: the
\* last is taken from the stack in place of the root that was run over.
FlatFamily ==
  {root} \cup Children(root)
    \cup UNION {Children(elems[root][i]) :
                  i \in {j \in ContainerPlaces(root) : NotLast(j)}}

\* The sweep begins on flat heaps only, with exactly these marked: a collection
\* spares them and, of what the collector owns, nothing else.  Elsewhere step 2
\* does not end: where the root holds no container the stack is left below its
\* bottom, and a container that is run over and holds another stays on the stack
\* below what it holds, to be run over once more.
FlatHeapMarks ==
  pc = "sweep" /\ root # NoObj =>
    FlatHeap /\ {o \in managed : gc_id[o] \in inuse_flags} = FlatFamily \cap managed

\* What step 2 has before it: whether the root is still run over; if not, what
\* is on the stack; and the elements of the current container.
WorkLeft ==
  IF Current = root THEN <<1, 0, Len(elems[Current]) + 1 - iter.pos>>
  ELSE <<0, Len(recycle_stack), Len(elems[Current]) + 1 - iter.pos>>

LessWork(w, u) ==
  \E k \in 1 .. 3 : w[k] < u[k] /\ \A j \in 1 .. k - 1 : w[j] = u[j]

\* On a flat heap each step of the marking loop leaves less to do, so that it
\* cannot go on for ever: the root is not run over again, though it lies at the
\* bottom of the stack all the time, and nothing is pushed after it.
FlatHeapProgress ==
  [][pc = "mark" /\ pc' = "mark" /\ fault' = "none" /\ FlatHeap
       => LessWork(WorkLeft', WorkLeft) /\ WorkLeft \in Nat \X Nat \X Nat]_vars

\* On such a heap a collection that started comes to its end.
FlatHeapRecycleEnds ==
  (pc = "mark" /\ FlatHeap) ~> (pc # "mark" \/ fault # "none")

-----------------------------------------------------------------------------
(***************************************************************************)
(* The collector as its program sees it: AbstractCollector.                *)
(***************************************************************************)

\* The sweep frees one object after another, but which ones is settled when it
\* begins.
Owned ==
  IF pc = "sweep" THEN {o \in managed : gc_id[o] \in inuse_flags} ELSE managed

Holds == [v \in Vectors |-> Children(v)]

Collector == INSTANCE AbstractCollector WITH owned <- Owned, holds <- Holds

\* To the program a collection happens at once, when step 2 is over: the slots,
\* the flags, the stack and the order of the sweep do not show, and neither does
\* a destructor that fails, or memory that runs out in between.
ImplementsCollector == Collector!Spec

-----------------------------------------------------------------------------
(***************************************************************************)
(* What the comments, assertions and tests of the repository say of the    *)
(* collector, and the code does not do.                                    *)
(***************************************************************************)

\* esch_gc.h:59: step 2 marks every reachable object as in-use, so none is
\* destructed.  esch_t_gc.c:109-110: a child container must be visited.
ReachableSurvives ==
  fault = "none" /\ pc \in {"idle", "retry"} => Reachable \subseteq alive

\* esch_gc.c:277: "Never mark twice so we won't fall into endless loop if we
\* hit a reference circle."  Step 2 comes to its end, or crashes.
RecycleEnds == pc = "mark" ~> (pc # "mark" \/ fault # "none")
=============================================================================
