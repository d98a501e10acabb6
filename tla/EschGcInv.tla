------------------------------ MODULE EschGcInv ------------------------------
(***************************************************************************)
(* The inductive invariant from which EschGcProofs proves the properties   *)
(* of EschGc.  The free list has to be described also for a collector that *)
(* a failing destructor left without its root, and the marks of an         *)
(* unfinished collection have to be related to the object graph.           *)
(***************************************************************************)
EXTENDS EschGc

\* The free list stays among the free slots, and no two links meet but at 0.
FreeListLinked ==
  /\ usable_slot \in FreeSlots \cup {ROOT_INDEX}
  /\ \A i \in FreeSlots :
        /\ slots[i] \in FreeSlots \cup {ROOT_INDEX}
        /\ slots[i] # ROOT_INDEX => slots[i] # usable_slot
  /\ \A i, j \in FreeSlots :
        slots[i] = slots[j] /\ slots[i] # ROOT_INDEX => i = j

\* There is a table exactly while there is a collector; without one nothing is
\* managed.  The root is in slot 0.
TableAlive ==
  /\ pc = "none" =>
        slot_count = 0 /\ root = NoObj /\ managed = {} /\ usable_slot = 0
  /\ pc # "none" => slot_count > 0
  /\ root # NoObj => slots[ROOT_INDEX] = root
  /\ \A o \in Objects \ managed : gc_id[o] = 0

\* Doubling keeps a table a whole number of bytes of flags.
FlagsWhole ==
  pc # "none" /\ InitialSlots % ByteBits = 0 => slot_count % ByteBits = 0

\* The object under creation is not there yet.
PendingNotAlive ==
  /\ pc \in {"mark", "sweep", "retry"} /\ pending # NoObj => pending \notin alive
  /\ pc = "retry" => pending # NoObj

\* While marking, the root is marked and the stack holds reachable containers;
\* every flag is that of a free slot or of a reachable object.
MarksReachable ==
  /\ pc = "mark" =>
        /\ root # NoObj
        /\ iter.container \in Vectors \cap Reachable
        /\ iter.pos \in Nat \ {0}
        /\ recycle_stack # <<>>
        /\ \A k \in DOMAIN recycle_stack : recycle_stack[k] \in Reachable
  /\ pc \in {"mark", "sweep"} /\ root # NoObj =>
        /\ ROOT_INDEX \in inuse_flags
        /\ \A i \in inuse_flags \cap DOMAIN slots :
              slots[i] \in Objects => slots[i] \in Reachable

\* What the root holds is marked once its own iteration is over.
RootFamilyMarked ==
  pc \in {"mark", "sweep"} /\ root # NoObj =>
    \/ Children(root) \cap managed \subseteq {o \in managed : gc_id[o] \in inuse_flags}
    \/ /\ pc = "mark" /\ iter.container = root
       /\ \A k \in DOMAIN elems[root] :
             k < iter.pos /\ elems[root][k] \in managed
               => gc_id[elems[root][k]] \in inuse_flags

\* The sweep begins at slot 0.  Slots below its index hold what is marked, or
\* are free.  The destructor marks no object.
SweptSlots ==
  /\ pc = "mark" => sweep = 0
  /\ pc = "sweep" =>
    /\ sweep <= slot_count
    /\ \A i \in DOMAIN slots :
          i < sweep /\ slots[i] \in Objects => i \in inuse_flags
    /\ root = NoObj =>
          \A i \in DOMAIN slots : slots[i] \in Objects => i \notin inuse_flags

\* What the sweep has still to come to is an object or a marked free slot,
\* unless the collector was left without its root and with slot 0 empty: then
\* the sweep fails at once.
UnsweptMarked ==
  /\ pc \in {"idle", "retry"} /\ root = NoObj => slots[ROOT_INDEX] \notin Objects
  /\ pc \in {"mark", "sweep"} =>
        \/ root = NoObj /\ sweep = 0 /\ slots[ROOT_INDEX] \notin Objects
        \/ \A i \in FreeSlots : i >= sweep => i \in inuse_flags
  /\ pc = "sweep" /\ root = NoObj =>
        /\ ROOT_INDEX \notin inuse_flags
        /\ sweep > 0 => slots[ROOT_INDEX] \notin Objects

\* The stack of step 2 has one entry only as long as the root is visited for
\* the first time and no container was met in it.
StackGrown ==
  pc = "mark" =>
    \/ Len(recycle_stack) >= 2
    \/ /\ Len(recycle_stack) = 1 /\ iter.container = root
       /\ \A k \in DOMAIN elems[root] :
             k < iter.pos => elems[root][k] \notin Vectors

\* In a tree no container is on the stack twice: above its parent lies each
\* container that was pushed, and of the one being visited only elements that
\* the iterator has passed are on the stack.
StackDistinct ==
  pc = "mark" /\ IsTree =>
    /\ recycle_stack[1] = root
    /\ \A i, j \in DOMAIN recycle_stack :
          recycle_stack[i] = recycle_stack[j] => i = j
    /\ \A j \in DOMAIN recycle_stack :
          j # 1 => \E i \in 1 .. j - 1 :
                     recycle_stack[j] \in Children(recycle_stack[i])
    /\ \E i \in DOMAIN recycle_stack : recycle_stack[i] = iter.container
    /\ \A j \in DOMAIN recycle_stack, k \in DOMAIN elems[iter.container] :
          recycle_stack[j] = elems[iter.container][k] => k < iter.pos

\* What is marked on a flat heap belongs to FlatFamily.
FlatSound ==
  pc \in {"mark", "sweep"} /\ root # NoObj /\ FlatHeap =>
    \A o \in managed : gc_id[o] \in inuse_flags => o \in FlatFamily

\* Above the bottom of the stack lie containers that the root holds, those at
\* the places places[2], places[3], ... in this order.
StackPlaces(places) ==
  /\ \A k \in DOMAIN places : recycle_stack[k] = elems[root][places[k]]
  /\ \A k, l \in DOMAIN places : k < l => places[k] < places[l]

\* Everything that the container at place i of the root holds is marked.
PlaceMarked(i) ==
  \A o \in Children(elems[root][i]) \cap managed : gc_id[o] \in inuse_flags

\* The root is run over, and the stack holds the containers it has met.
RootRun(places) ==
  /\ iter.container = root
  /\ \A i \in ContainerPlaces(root) :
        (\E k \in DOMAIN places : places[k] = i) <=> i < iter.pos

\* The container on top of the stack is run over, which is not the last the
\* root holds.  Those before it are on the stack, those after it are done.
ChildRun(places, top) ==
  /\ top >= 2 /\ NotLast(places[top])
  /\ iter.container = elems[root][places[top]]
  /\ \A i \in ContainerPlaces(root) :
        i <= places[top] => \E k \in DOMAIN places : places[k] = i
  /\ \A i \in ContainerPlaces(root) :
        i > places[top] /\ NotLast(i) => PlaceMarked(i)
  /\ \A k \in DOMAIN elems[iter.container] :
        k < iter.pos /\ elems[iter.container][k] \in managed
          => gc_id[elems[iter.container][k]] \in inuse_flags

\* On a flat heap first the root is run over and then its containers, from the
\* last but one to the first.
FlatWalk ==
  pc = "mark" /\ FlatHeap =>
    \E places \in [2 .. Len(recycle_stack) -> ContainerPlaces(root)] :
      StackPlaces(places)
        /\ (RootRun(places) \/ ChildRun(places, Len(recycle_stack)))

\* A root that holds no container is alone on the stack.
RootAlone ==
  pc = "mark" /\ ContainerPlaces(root) = {} =>
    Len(recycle_stack) = 1 /\ iter.container = root

\* The entry j of the stack holds a container and is not next to be popped, or
\* what it holds will be pushed above it before it is.
Anchored(j) ==
  /\ ContainerPlaces(recycle_stack[j]) # {}
  /\ \/ j < Len(recycle_stack)
     \/ /\ iter.container = recycle_stack[j]
        /\ \A k \in ContainerPlaces(iter.container) : iter.pos <= k

\* The root is run over for the first time.
FirstRun ==
  \E places \in [2 .. Len(recycle_stack) -> ContainerPlaces(root)] :
    StackPlaces(places) /\ RootRun(places)

\* On any other heap this is so or the stack cannot empty.
NestedHeld ==
  pc = "mark" /\ ContainerPlaces(root) # {} /\ ~ FlatHeap =>
    FirstRun \/ \E j \in 2 .. Len(recycle_stack) : Anchored(j)

\* The iterator goes no further than behind the last element.
IterInBounds ==
  pc = "mark" => iter.pos <= Len(elems[iter.container]) + 1

\* What the iterator has passed of the current container is marked.
PassedMarked ==
  pc = "mark" =>
    \A k \in DOMAIN elems[Current] :
       k < iter.pos /\ elems[Current][k] \in managed
         => gc_id[elems[Current][k]] \in inuse_flags

IInv ==
  /\ TypeOK
  /\ SlotsMatchObjects
  /\ FreeListLinked
  /\ FreeListExact
  /\ TableAlive
  /\ FlagsWhole
  /\ PendingNotAlive
  /\ MarksReachable
  /\ RootFamilyMarked
  /\ SweptSlots
  /\ UnsweptMarked
  /\ StackGrown
  /\ StackDistinct
  /\ StackSufficesForTrees
  /\ FlatSound
  /\ FlatWalk
  /\ RootAlone
  /\ NestedHeld
  /\ FlatHeapMarks
  /\ IterInBounds
  /\ PassedMarked
=============================================================================
