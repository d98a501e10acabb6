---------------------------- MODULE EschGcProofs ----------------------------
(***************************************************************************)
(* What EschGc promises for every set of objects, every initial number of  *)
(* slots and every length of the vectors: the safety and action properties *)
(* of EschGc, from the inductive invariant IInv.  The half of it that is   *)
(* about the table is in EschGcTable; here are the flags of a collection,  *)
(* which every step keeps related to what can be reached, to what the root *)
(* holds, and to the free slots; the stack, which suffices for trees; what *)
(* becomes of flat heaps; and the number of flags, which doubling keeps    *)
(* whole.  The collector implements AbstractCollector.  The last section   *)
(* has the same promises for a program that builds lists of pairs.         *)
(***************************************************************************)
EXTENDS EschGcTable, ManagedPairsInv

LEMMA ReachableFacts ==
  ASSUME TypeOK
  PROVE  /\ root # NoObj => root \in Reachable
         /\ \A v \in Vectors : v \in Reachable => Children(v) \subseteq Reachable
<1>1. root # NoObj => root \in Objects
  BY DEF TypeOK, Objects
<1>2. \A v \in Vectors : Children(v) \subseteq Objects /\ v \in Objects
  BY DEF Children, Objects
<1> QED BY <1>1, <1>2 DEF Reachable

LEMMA ReachableKept ==
  ASSUME UNCHANGED <<root, elems>>
  PROVE  Reachable' = Reachable
BY DEF Reachable, Children

\* The slot of any object: its own if it is managed, else that of the root.
LEMMA SlotReachable ==
  ASSUME TypeOK, SlotsMatchObjects, TableAlive, root # NoObj,
         NEW o \in Objects, o \in Reachable
  PROVE  slots[gc_id[o]] \in Reachable
<1>1. CASE o \in managed
  BY <1>1 DEF SlotsMatchObjects
<1>2. CASE o \notin managed
  <2>1. gc_id[o] = 0
    BY <1>2 DEF TableAlive
  <2> QED BY <2>1, RootSlot, ReachableFacts
<1> QED BY <1>1, <1>2

\* The element under the iterator is a child of its container.
LEMMA ElementIsChild ==
  ASSUME TypeOK, iter.container \in Vectors, iter.pos \in Nat \ {0},
         iter.pos <= Len(elems[Current]), Element \in Objects
  PROVE  Element \in Children(Current)
<1>1. elems[Current] \in Seq(Objects \cup Prims)
  BY DEF TypeOK, Current
<1>2. iter.pos \in DOMAIN elems[Current]
  BY <1>1, LenProperties DEF Current
<1> QED BY <1>2 DEF Children, Element

LEMMA MarksStep ==
  ASSUME TypeOK, SlotsMatchObjects, FreeListLinked, TableAlive, MarksReachable,
         StepCase
  PROVE  MarksReachable'
<1>1. CASE pc' \notin {"mark", "sweep"}
  BY <1>1 DEF MarksReachable
<1>2. ASSUME NEW r \in Vectors \cup {NoObj}, NEW o \in Objects \cup {NoObj},
             Starts(r, o), r # NoObj
      PROVE  MarksReachable'
  <2>1. r = root /\ UNCHANGED <<root, elems, slots>>
    BY <1>2 DEF Starts, heap
  <2>2. gc_id[root] = 0 /\ slots[0] = root /\ root \in Vectors
    BY <1>2, <2>1, RootSlot
  <2>3. root \in Reachable' /\ Reachable' = Reachable
    BY <1>2, <2>1, ReachableFacts, ReachableKept
  <2>4. iter' = Start(root) /\ recycle_stack' = <<root>>
        /\ inuse_flags' = FreeChain \cup {0}
    BY <1>2, <2>1, <2>2 DEF Starts
  <2>5. \A i \in FreeChain : slots[i] \notin Objects
    BY FreeChainFree, HeapAssumption DEF FreeSlots
  <2>6. /\ root' # NoObj /\ iter'.container \in Vectors \cap Reachable'
        /\ iter'.pos \in Nat \ {0} /\ recycle_stack' # <<>>
        /\ \A k \in DOMAIN recycle_stack' : recycle_stack'[k] \in Reachable'
    BY <1>2, <2>1, <2>2, <2>3, <2>4 DEF Start
  <2>7. /\ ROOT_INDEX \in inuse_flags'
        /\ \A i \in inuse_flags' \cap DOMAIN slots' :
              slots'[i] \in Objects => slots'[i] \in Reachable'
    BY <2>1, <2>2, <2>3, <2>4, <2>5 DEF ROOT_INDEX
  <2> QED BY <2>6, <2>7 DEF MarksReachable
<1>3. ASSUME NEW r \in Vectors \cup {NoObj}, NEW o \in Objects \cup {NoObj},
             Starts(r, o), r = NoObj
      PROVE  MarksReachable'
  BY <1>3 DEF Starts, MarksReachable
<1>4. CASE VisitPrim
  <2>1. UNCHANGED <<root, elems, slots, recycle_stack, inuse_flags, pc>>
    BY <1>4 DEF VisitPrim, heap, table, ctl
  <2>2. iter'.container = iter.container /\ iter'.pos = iter.pos + 1
    BY <1>4, AdvanceType DEF VisitPrim
  <2>3. Reachable' = Reachable
    BY <2>1, ReachableKept
  <2> QED BY <2>1, <2>2, <2>3 DEF MarksReachable
<1>5. CASE Visits
  <2>1. UNCHANGED <<root, elems, slots, pc>> /\ pc = "mark"
    BY <1>5 DEF Visits, heap, table
  <2>2. iter'.container = iter.container /\ iter'.pos = iter.pos + 1
    BY <1>5, AdvanceType DEF Visits
  <2>3. Reachable' = Reachable
    BY <2>1, ReachableKept
  <2>4. Element \in Reachable
    BY <1>5, <2>1, ElementIsChild, ReachableFacts DEF MarksReachable, Visits, Current
  <2>5. slots[gc_id[Element]] \in Reachable
    BY <1>5, <2>1, <2>4, SlotReachable DEF MarksReachable, Visits
  <2>6. /\ recycle_stack' # <<>>
        /\ \A k \in DOMAIN recycle_stack' : recycle_stack'[k] \in Reachable
    <3>1. recycle_stack \in Seq(Vectors)
      BY DEF TypeOK
    <3>2. CASE Element \in Vectors
      <4>1. recycle_stack' = Append(recycle_stack, Element)
        BY <1>5, <3>2 DEF Visits, Pushed
      <4>2. /\ Len(recycle_stack') = Len(recycle_stack) + 1
            /\ Len(recycle_stack) \in Nat
            /\ DOMAIN recycle_stack' = 1 .. Len(recycle_stack) + 1
            /\ recycle_stack'[Len(recycle_stack) + 1] = Element
            /\ \A k \in 1 .. Len(recycle_stack) : recycle_stack'[k] = recycle_stack[k]
            /\ DOMAIN recycle_stack = 1 .. Len(recycle_stack)
        BY <3>1, <3>2, <4>1, AppendProperties, LenProperties
      <4>3. recycle_stack' # <<>>
        BY <4>1, <3>1, <3>2, AppendProperties
      <4> QED BY <2>1, <2>4, <4>2, <4>3 DEF MarksReachable
    <3>3. CASE Element \notin Vectors
      BY <1>5, <2>1, <3>3 DEF Visits, Pushed, MarksReachable
    <3> QED BY <3>2, <3>3
  <2>7. inuse_flags' = inuse_flags \cup {gc_id[Element]}
    BY <1>5 DEF Visits
  <2> QED BY <2>1, <2>2, <2>3, <2>5, <2>6, <2>7 DEF MarksReachable
<1>6. CASE PopsToNext
  <2>1. UNCHANGED <<root, elems, slots, pc>> /\ pc = "mark"
    BY <1>6 DEF PopsToNext, heap, table
  <2>2. Reachable' = Reachable
    BY <2>1, ReachableKept
  <2>3. /\ recycle_stack' # <<>>
        /\ \A k \in DOMAIN recycle_stack' : recycle_stack'[k] \in Reachable
        /\ Last(recycle_stack') \in Reachable \cap Vectors
    <3>1. recycle_stack \in Seq(Vectors) /\ recycle_stack' = Front(recycle_stack)
          /\ recycle_stack' # <<>>
      BY <1>6 DEF PopsToNext, TypeOK
    <3>2. \A k \in DOMAIN recycle_stack :
             recycle_stack[k] \in Reachable \cap Vectors
      <4>1. \A k \in DOMAIN recycle_stack : recycle_stack[k] \in Vectors
        BY <3>1, LenProperties, ElementOfSeq
      <4> QED BY <2>1, <4>1 DEF MarksReachable
    <3>3. recycle_stack \in Seq(Reachable \cap Vectors)
      BY <3>1, <3>2, SeqDef, LenProperties
    <3>4. recycle_stack' \in Seq(Reachable \cap Vectors)
      BY <3>1, <3>3, SeqTypes
    <3>5. Last(recycle_stack') \in Reachable \cap Vectors
      BY <3>1, <3>4, SeqTypes
    <3>6. \A k \in DOMAIN recycle_stack' : recycle_stack'[k] \in Reachable
      BY <3>4, LenProperties, ElementOfSeq
    <3> QED BY <3>1, <3>5, <3>6
  <2>4. /\ inuse_flags' = inuse_flags \cup {gc_id[Last(recycle_stack')]}
        /\ iter' = Start(Last(recycle_stack'))
    BY <1>6 DEF PopsToNext
  <2>5. slots[gc_id[Last(recycle_stack')]] \in Reachable
    BY <2>1, <2>3, SlotReachable DEF MarksReachable, Objects
  <2>6. iter'.container \in Vectors \cap Reachable' /\ iter'.pos \in Nat \ {0}
    BY <2>2, <2>3, <2>4 DEF Start
  <2> QED BY <2>1, <2>2, <2>3, <2>4, <2>5, <2>6 DEF MarksReachable
<1>7. CASE PopsToSweep
  <2>1. UNCHANGED <<root, elems, slots>> /\ pc = "mark" /\ pc' = "sweep"
    BY <1>7 DEF PopsToSweep, heap, table
  <2>2. Reachable' = Reachable
    BY <2>1, ReachableKept
  <2>3. inuse_flags' = inuse_flags \cup {0} /\ slots[0] \in Reachable
    BY <1>7, <2>1, RootSlot, ReachableFacts DEF PopsToSweep, MarksReachable
  <2> QED BY <2>1, <2>2, <2>3 DEF MarksReachable
<1>8. CASE SweepKeep \/ Still
  <2>1. UNCHANGED <<root, elems, slots, iter, recycle_stack, inuse_flags, pc>>
    BY <1>8 DEF SweepKeep, Still, heap, table, walk, ctl
  <2>2. Reachable' = Reachable
    BY <2>1, ReachableKept
  <2> QED BY <2>1, <2>2 DEF MarksReachable
<1>9. ASSUME NEW o \in Objects, Frees(o) PROVE MarksReachable'
  <2>1. UNCHANGED <<root, elems, inuse_flags>> /\ pc = "sweep" /\ pc' = "sweep"
    BY <1>9 DEF Frees
  <2>2. \A i \in inuse_flags : slots'[i] = slots[i]
    BY <1>9 DEF Frees, Unlinked, TypeOK
  <2>3. Reachable' = Reachable /\ DOMAIN slots' = DOMAIN slots
    BY <1>9, <2>1, ReachableKept DEF Frees, Unlinked
  <2> QED BY <2>1, <2>2, <2>3 DEF MarksReachable
<1>10. CASE GivesUp \/ Ends
  BY <1>1, <1>10 DEF GivesUp, Ends
<1>11. CASE \/ \E o \in Objects : NewUnmanaged(o) \/ DeleteUnmanaged(o) \/ GcNew(o)
            \/ \E v \in Vectors, x \in Objects \cup Prims : Writes(v, x)
  BY <1>1, <1>11 DEF NewUnmanaged, DeleteUnmanaged, GcNew, Writes, Running, ctl
<1>12. CASE \E o \in Objects : Attaches(o)
  BY <1>1, <1>12 DEF Attaches, AttachFree, AttachEnlarged, Occupy
<1> QED BY <1>2, <1>3, <1>4, <1>5, <1>6, <1>7, <1>8, <1>9, <1>10, <1>11, <1>12
        DEF StepCase

LEMMA RootFamilyStep ==
  ASSUME TypeOK, SlotsMatchObjects, TableAlive, MarksReachable,
         RootFamilyMarked, StepCase
  PROVE  RootFamilyMarked'
<1> DEFINE Family == \A k \in DOMAIN elems[root] :
                        elems[root][k] \in managed
                          => gc_id[elems[root][k]] \in inuse_flags
           Seen == /\ pc = "mark" /\ iter.container = root
                   /\ \A k \in DOMAIN elems[root] :
                         k < iter.pos /\ elems[root][k] \in managed
                           => gc_id[elems[root][k]] \in inuse_flags
<1>1. /\ RootFamilyMarked <=>
           (pc \in {"mark", "sweep"} /\ root # NoObj => Family \/ Seen)
      /\ RootFamilyMarked' <=>
           (pc' \in {"mark", "sweep"} /\ root' # NoObj => Family' \/ Seen')
  <2>1. managed \subseteq Objects
    BY DEF TypeOK
  <2>2. managed' \subseteq Objects => 
        ( RootFamilyMarked' <=>
           (pc' \in {"mark", "sweep"} /\ root' # NoObj => Family' \/ Seen') )
    BY DEF RootFamilyMarked, Children
  <2>3. managed' \subseteq Objects
    BY <2>1 DEF StepCase, Still, NewUnmanaged, DeleteUnmanaged, GcNew, GivesUp,
       Attaches, AttachFree, AttachEnlarged, Occupy, Starts, VisitPrim, Visits,
       PopsToNext, PopsToSweep, SweepKeep, Frees, Ends, Writes, heap, Objects
  <2> QED BY <2>1, <2>2, <2>3 DEF RootFamilyMarked, Children
<1>2. CASE pc' \notin {"mark", "sweep"} \/ root' = NoObj
  BY <1>1, <1>2
<1>3. ASSUME NEW r \in Vectors \cup {NoObj}, NEW o \in Objects \cup {NoObj},
             Starts(r, o), r # NoObj
      PROVE  RootFamilyMarked'
  <2>1. root' = r /\ iter' = Start(r) /\ pc' = "mark" /\ elems' = elems
        /\ r \in Vectors
    BY <1>3 DEF Starts, heap
  <2>2. DOMAIN elems'[root'] = 1 .. Len(elems'[root'])
    BY <2>1, LenProperties DEF TypeOK
  <2>3. Seen'
    BY <2>1, <2>2, LenProperties DEF Start, TypeOK
  <2> QED BY <1>1, <2>3
<1>4. CASE VisitPrim \/ Visits
  <2>1. UNCHANGED <<root, elems, managed, gc_id, pc>>
        /\ inuse_flags \subseteq inuse_flags' /\ pc = "mark"
    BY <1>4 DEF VisitPrim, Visits, heap, table, ctl, Running
  <2>2. iter'.container = iter.container /\ iter'.pos = iter.pos + 1
    BY <1>4, AdvanceType DEF VisitPrim, Visits
  <2>3. Element \in managed => gc_id[Element] \in inuse_flags'
    BY <1>4, HeapAssumption DEF VisitPrim, Visits, TypeOK
  <2>4. CASE root # NoObj /\ Family
    BY <1>1, <2>1, <2>4
  <2>5. CASE root # NoObj /\ Seen
    <3>1. DOMAIN elems[root] \subseteq Nat /\ iter.pos \in Nat
      BY <2>5, LenProperties DEF TypeOK
    <3>2. \A k \in DOMAIN elems[root] :
             k < iter.pos + 1 => k < iter.pos \/ k = iter.pos
      BY <3>1
    <3>3. Element = elems[root][iter.pos]
      BY <2>5 DEF Element, Current
    <3>4. Seen'
      BY <2>1, <2>2, <2>3, <2>5, <3>2, <3>3
    <3> QED BY <1>1, <3>4
  <2> QED BY <1>1, <1>2, <2>1, <2>4, <2>5
<1>5. CASE PopsToNext \/ PopsToSweep
  <2>1. UNCHANGED <<root, elems, managed, gc_id>> /\ inuse_flags \subseteq inuse_flags'
        /\ pc = "mark"
    BY <1>5 DEF PopsToNext, PopsToSweep, heap, table
  <2>2. CASE root # NoObj /\ Family
    BY <1>1, <2>1, <2>2
  <2>3. CASE root # NoObj /\ Seen
    <3>1. /\ DOMAIN elems[root] = 1 .. Len(elems[root])
          /\ Len(elems[root]) \in Nat /\ iter.pos \in Nat
      BY <2>3, LenProperties DEF TypeOK
    <3>2. iter.pos > Len(elems[root])
      BY <1>5, <2>3 DEF PopsToNext, PopsToSweep, Current
    <3>3. \A k \in DOMAIN elems[root] : k < iter.pos
      BY <3>1, <3>2
    <3>4. Family
      BY <2>3, <3>3
    <3> QED BY <1>1, <2>1, <3>4
  <2> QED BY <1>1, <1>2, <2>1, <2>2, <2>3
<1>6. CASE SweepKeep \/ Still
  BY <1>1, <1>6 DEF SweepKeep, Still, heap, table, walk, ctl
<1>7. ASSUME NEW o \in Objects, Frees(o) PROVE RootFamilyMarked'
  <2>1. UNCHANGED <<root, elems, inuse_flags, iter>> /\ pc = "sweep" /\ pc' = "sweep"
    BY <1>7 DEF Frees
  <2>2. managed' = managed \ {o}
        /\ \A p \in managed' : gc_id'[p] = gc_id[p]
    BY <1>7 DEF Frees, TypeOK
  <2> QED BY <1>1, <2>1, <2>2
<1>8. CASE GivesUp \/ Ends
           \/ \E r \in Vectors \cup {NoObj}, o \in Objects \cup {NoObj} :
                 Starts(r, o) /\ r = NoObj
  BY <1>2, <1>8 DEF GivesUp, Ends, Starts
<1>9. CASE \/ \E o \in Objects : NewUnmanaged(o) \/ DeleteUnmanaged(o) \/ GcNew(o)
           \/ \E v \in Vectors, x \in Objects \cup Prims : Writes(v, x)
  BY <1>2, <1>9 DEF NewUnmanaged, DeleteUnmanaged, GcNew, Writes, Running, ctl
<1>10. CASE \E o \in Objects : Attaches(o)
  BY <1>2, <1>10 DEF Attaches, AttachFree, AttachEnlarged, Occupy
<1> QED BY <1>3, <1>4, <1>5, <1>6, <1>7, <1>8, <1>9, <1>10 DEF StepCase

LEMMA SweptStep ==
  ASSUME TypeOK, FreeListLinked, MarksReachable, SweptSlots, StepCase
  PROVE  SweptSlots'
<1>1. CASE pc' \notin {"mark", "sweep"}
  BY <1>1 DEF SweptSlots
<1>2. ASSUME NEW r \in Vectors \cup {NoObj}, NEW o \in Objects \cup {NoObj},
             Starts(r, o)
      PROVE  SweptSlots'
  <2>1. \A i \in FreeChain : slots[i] \notin Objects
    BY FreeChainFree, HeapAssumption DEF FreeSlots
  <2>2. slots' = slots /\ slot_count' = slot_count /\ sweep' = 0 /\ root' = r
    BY <1>2 DEF Starts
  <2>3. r = NoObj => inuse_flags' = FreeChain
    BY <1>2 DEF Starts
  <2>4. r # NoObj => pc' = "mark"
    BY <1>2 DEF Starts
  <2>5. 0 <= slot_count /\ \A i \in DOMAIN slots : ~ i < 0
    BY DEF TypeOK
  <2>6. CASE r # NoObj
    BY <2>2, <2>4, <2>6 DEF SweptSlots
  <2>7. CASE r = NoObj
    BY <2>1, <2>2, <2>3, <2>5, <2>7 DEF SweptSlots
  <2> QED BY <2>6, <2>7
<1>3. CASE VisitPrim \/ Visits \/ PopsToNext
  BY <1>3 DEF VisitPrim, Visits, PopsToNext, SweptSlots, Running, ctl
<1>4. CASE PopsToSweep
  <2>1. sweep' = 0 /\ slots' = slots /\ slot_count' = slot_count /\ root' # NoObj
        /\ pc' = "sweep"
    BY <1>4 DEF PopsToSweep, SweptSlots, MarksReachable, table
  <2> QED BY <2>1 DEF SweptSlots, TypeOK
<1>5. CASE SweepKeep
  <2>1. sweep' = sweep + 1 /\ sweep \in inuse_flags /\ sweep < slot_count
        /\ UNCHANGED <<slots, slot_count, root, inuse_flags, pc>> /\ pc = "sweep"
    BY <1>5 DEF SweepKeep, table, ctl, Running, SweepEnd
  <2>2. \A i \in DOMAIN slots : i < sweep + 1 => i < sweep \/ i = sweep
    BY DEF TypeOK
  <2>3. sweep + 1 <= slot_count
    BY <2>1 DEF TypeOK
  <2> QED BY <2>1, <2>2, <2>3 DEF SweptSlots
<1>6. ASSUME NEW o \in Objects, Frees(o) PROVE SweptSlots'
  <2>1. sweep' = sweep + 1 /\ sweep < slot_count
        /\ UNCHANGED <<slot_count, root, inuse_flags, pc>> /\ pc = "sweep"
        /\ slots' = [slots EXCEPT ![sweep] = usable_slot]
    BY <1>6 DEF Frees, Unlinked
  <2>2. \A i \in DOMAIN slots : i < sweep + 1 => i < sweep \/ i = sweep
    BY DEF TypeOK
  <2>3. sweep + 1 <= slot_count
    BY <2>1 DEF TypeOK
  <2>4. usable_slot \notin Objects
    BY HeapAssumption DEF TypeOK
  <2>5. \A i \in DOMAIN slots : slots'[i] \in Objects => i # sweep /\ slots'[i] = slots[i]
    BY <2>1, <2>4
  <2>6. DOMAIN slots' = DOMAIN slots
    BY <2>1
  <2> QED BY <2>1, <2>2, <2>3, <2>5, <2>6 DEF SweptSlots
<1>7. CASE Still
  BY <1>7 DEF Still, SweptSlots, table, walk
<1>8. CASE GivesUp \/ Ends
  BY <1>1, <1>8 DEF GivesUp, Ends
<1>9. CASE \/ \E o \in Objects : NewUnmanaged(o) \/ DeleteUnmanaged(o) \/ GcNew(o)
           \/ \E v \in Vectors, x \in Objects \cup Prims : Writes(v, x)
  BY <1>1, <1>9 DEF NewUnmanaged, DeleteUnmanaged, GcNew, Writes, Running, ctl
<1>10. CASE \E o \in Objects : Attaches(o)
  BY <1>1, <1>10 DEF Attaches, AttachFree, AttachEnlarged, Occupy
<1> QED BY <1>2, <1>3, <1>4, <1>5, <1>6, <1>7, <1>8, <1>9, <1>10 DEF StepCase

LEMMA UnsweptStep ==
  ASSUME TypeOK, FreeListLinked, FreeListExact, TableAlive, MarksReachable,
         SweptSlots, UnsweptMarked, StepCase
  PROVE  UnsweptMarked'
<1> USE DEF ROOT_INDEX
<1>1. CASE Still
  BY <1>1 DEF Still, UnsweptMarked, FreeSlots, table, walk
<1>2. CASE \E o \in Objects : NewUnmanaged(o) \/ DeleteUnmanaged(o)
  BY <1>2 DEF NewUnmanaged, DeleteUnmanaged, UnsweptMarked, table, ctl, Running
<1>3. ASSUME NEW r \in Objects, GcNew(r) PROVE UnsweptMarked'
  BY <1>3, HeapAssumption DEF GcNew, UnsweptMarked
<1>4. CASE GivesUp
  BY <1>4 DEF GivesUp, UnsweptMarked
<1>5. ASSUME NEW o \in Objects, Attaches(o) PROVE UnsweptMarked'
  <2>1. pc' = "idle" /\ root' = root /\ pc \in {"idle", "retry"}
    BY <1>5 DEF Attaches, AttachFree, AttachEnlarged, Occupy
  <2>2. slots'[0] = slots[0]
    <3>1. slot_count \in Nat \ {0}
      BY <1>5 DEF Attaches, TableAlive, TypeOK
    <3>2. CASE AttachFree(o)
      BY <3>1, <3>2 DEF AttachFree, Occupy, TypeOK
    <3>3. CASE AttachEnlarged(o)
      <4>1. /\ slots' = [EnlargedSlots EXCEPT ![2 * slot_count - 1] = o]
            /\ slot_count' = 2 * slot_count
        BY <3>3 DEF AttachEnlarged, Occupy
      <4>2. slot_count > 0 /\ 0 \in 0 .. slot_count - 1
        BY <3>1
      <4> QED BY <4>1, <4>2, EnlargedFree
    <3> QED BY <1>5, <3>2, <3>3 DEF Attaches
  <2> QED BY <2>1, <2>2 DEF UnsweptMarked
<1>6. ASSUME NEW r \in Vectors \cup {NoObj}, NEW o \in Objects \cup {NoObj},
             Starts(r, o)
      PROVE  UnsweptMarked'
  <2>1. /\ pc = "idle" /\ root' = r /\ sweep' = 0 /\ FreeChain \subseteq inuse_flags'
        /\ UNCHANGED <<slots, slot_count>> /\ (r = root \/ r = NoObj)
        /\ pc' = (IF r = NoObj THEN "sweep" ELSE "mark")
        /\ (r = NoObj => inuse_flags' = FreeChain)
    BY <1>6 DEF Starts
  <2>2. FreeSlots' = FreeSlots
    BY <2>1 DEF FreeSlots
  <2>3. 0 \notin FreeChain
    BY DEF FreeChain
  <2>4. root # NoObj => FreeSlots \subseteq FreeChain
    BY DEF FreeListExact
  <2>5. root = NoObj => slots[0] \notin Objects
    BY <2>1 DEF UnsweptMarked
  <2>6. ~ 0 > 0
    OBVIOUS
  <2> QED BY <2>1, <2>2, <2>3, <2>4, <2>5, <2>6 DEF UnsweptMarked
<1>7. CASE VisitPrim \/ Visits \/ PopsToNext \/ PopsToSweep
  <2>1. /\ pc = "mark" /\ pc' \in {"mark", "sweep"} /\ inuse_flags \subseteq inuse_flags'
        /\ UNCHANGED <<root, slots, slot_count, sweep>>
    BY <1>7 DEF VisitPrim, Visits, PopsToNext, PopsToSweep, table, ctl, Running
  <2>2. FreeSlots' = FreeSlots /\ root # NoObj
    BY <2>1 DEF FreeSlots, MarksReachable
  <2> QED BY <2>1, <2>2 DEF UnsweptMarked
<1>8. CASE SweepKeep
  <2>1. /\ pc = "sweep" /\ pc' = "sweep" /\ sweep' = sweep + 1
        /\ sweep \in inuse_flags
        /\ UNCHANGED <<root, slots, slot_count, inuse_flags>>
    BY <1>8 DEF SweepKeep, table, ctl, Running
  <2>2. FreeSlots' = FreeSlots /\ sweep \in Nat /\ FreeSlots \subseteq Nat
    BY <2>1 DEF FreeSlots, TypeOK
  <2>3. \A i \in FreeSlots : i >= sweep + 1 => i >= sweep
    BY <2>2
  <2>4. root = NoObj => sweep # 0
    BY <2>1 DEF UnsweptMarked
  <2>5. root = NoObj => sweep > 0
    BY <2>2, <2>4
  <2> QED BY <2>1, <2>2, <2>3, <2>4, <2>5 DEF UnsweptMarked
<1>9. ASSUME NEW o \in Objects, Frees(o) PROVE UnsweptMarked'
  <2>1. /\ pc = "sweep" /\ pc' = "sweep" /\ sweep' = sweep + 1
        /\ slots' = Unlinked(sweep) /\ slot_count' = slot_count
        /\ sweep \in 0 .. slot_count - 1 /\ slots[sweep] = o
        /\ UNCHANGED <<root, inuse_flags>>
    BY <1>9 DEF Frees, TypeOK
  <2>2. /\ FreeSlots' = FreeSlots \cup ({sweep} \ {0})
        /\ slots'[sweep] = usable_slot
        /\ \A j \in DOMAIN slots \ {sweep} : slots'[j] = slots[j]
    BY <2>1, UnlinkedFree
  <2>3. sweep \in Nat /\ FreeSlots' \subseteq Nat /\ ~ sweep >= sweep + 1
    BY <2>1 DEF FreeSlots
  <2>4. \A i \in FreeSlots' : i >= sweep + 1 => i \in FreeSlots /\ i >= sweep
    BY <2>2, <2>3
  <2>5. root = NoObj /\ sweep > 0 => slots[0] \notin Objects
    BY <2>1 DEF UnsweptMarked
  <2>6. root = NoObj => slots'[0] \notin Objects
    <3>1. CASE sweep = 0
      BY <2>2, <3>1, HeapAssumption DEF TypeOK
    <3>2. CASE sweep # 0
      BY <2>1, <2>2, <2>3, <2>5, <3>2 DEF TypeOK
    <3> QED BY <3>1, <3>2
  <2>7. \A i \in FreeSlots' : i >= sweep + 1 => i \in inuse_flags
    BY <2>1, <2>4 DEF UnsweptMarked
  <2> QED BY <2>1, <2>6, <2>7 DEF UnsweptMarked
<1>10. CASE Ends
  <2>1. CASE root # NoObj
    BY <1>10, <2>1 DEF Ends, UnsweptMarked, table
  <2>2. CASE root = NoObj
    <3>1. sweep > 0
      BY <1>10 DEF Ends, TableAlive, TypeOK
    <3> QED BY <1>10, <2>2, <3>1 DEF Ends, UnsweptMarked, table
  <2> QED BY <2>1, <2>2
<1>11. CASE \E v \in Vectors, x \in Objects \cup Prims : Writes(v, x)
  BY <1>11 DEF Writes, UnsweptMarked, table
<1> QED BY <1>1, <1>2, <1>3, <1>4, <1>5, <1>6, <1>7, <1>8, <1>9, <1>10, <1>11
        DEF StepCase

-----------------------------------------------------------------------------
(***************************************************************************)
(* The stack of step 2.  In a tree a container has one parent, so it is on *)
(* the stack at most once, and the stack is never longer than the table.   *)
(***************************************************************************)

\* A tree stays one while neither the root, nor an element, nor what the
\* collector owns changes.
LEMMA TreeKept ==
  ASSUME UNCHANGED <<root, elems, managed>>
  PROVE  IsTree' <=> IsTree
<1>1. Reachable' = Reachable
  BY ReachableKept
<1> QED BY <1>1 DEF IsTree

\* In a tree the root is no element of a container, and a container is an
\* element of one container only, in one place.
LEMMA OneParent ==
  ASSUME IsTree,
         NEW v \in Vectors, v \in Reachable, NEW w \in Vectors, w \in Reachable,
         NEW i \in DOMAIN elems[v], NEW j \in DOMAIN elems[w]
  PROVE  /\ elems[v][i] # root
         /\ elems[v][i] = elems[w][j] /\ elems[v][i] \in Vectors
              => v = w /\ i = j
BY DEF IsTree

\* What the stack holds while marking.
LEMMA StackFacts ==
  ASSUME TypeOK, MarksReachable, pc = "mark"
  PROVE  /\ recycle_stack \in Seq(Vectors \cap Reachable)
         /\ recycle_stack \in Seq(Vectors)
         /\ Len(recycle_stack) \in Nat \ {0}
         /\ DOMAIN recycle_stack = 1 .. Len(recycle_stack)
         /\ \A k \in DOMAIN recycle_stack :
               recycle_stack[k] \in Vectors /\ recycle_stack[k] \in Reachable
<1>1. recycle_stack \in Seq(Vectors) /\ recycle_stack # <<>>
  BY DEF TypeOK, MarksReachable
<1>2. /\ Len(recycle_stack) \in Nat \ {0}
      /\ DOMAIN recycle_stack = 1 .. Len(recycle_stack)
  BY <1>1, LenProperties, EmptySeq
<1>3. \A k \in DOMAIN recycle_stack :
         recycle_stack[k] \in Vectors /\ recycle_stack[k] \in Reachable
  <2>1. \A k \in DOMAIN recycle_stack : recycle_stack[k] \in Vectors
    BY <1>1, <1>2, ElementOfSeq
  <2> QED BY <2>1 DEF MarksReachable
<1>4. recycle_stack \in Seq(Vectors \cap Reachable)
  BY <1>1, <1>2, <1>3, SeqDef, LenProperties
<1> QED BY <1>1, <1>2, <1>3, <1>4

\* What is under the top of the stack.
LEMMA FrontFacts ==
  ASSUME NEW S, NEW s \in Seq(S), s # <<>>
  PROVE  /\ Front(s) \in Seq(S) /\ Len(Front(s)) = Len(s) - 1
         /\ DOMAIN Front(s) = 1 .. Len(s) - 1
         /\ \A k \in 1 .. Len(s) - 1 : Front(s)[k] = s[k]
<1>1. Front(s) \in Seq(S) /\ Len(Front(s)) = Len(s) - 1
  BY SeqTypes
<1>2. DOMAIN Front(s) = 1 .. Len(s) - 1
  BY <1>1, LenProperties
<1>3. \A i \in 1 .. Len(s) - 1 : s[i] \in S
  BY ElementOfSeq, LenProperties
<1>4. 1 \in Int /\ Len(s) - 1 \in Int
  BY LenProperties
<1>5. \A k \in 1 .. (Len(s) - 1) - 1 + 1 :
         SubSeq(s, 1, Len(s) - 1)[k] = s[1 + k - 1]
  BY <1>3, <1>4, SubSeqProperties
<1>6. ASSUME NEW k \in 1 .. Len(s) - 1 PROVE Front(s)[k] = s[k]
  <2>1. k \in 1 .. (Len(s) - 1) - 1 + 1 /\ 1 + k - 1 = k
    BY <1>4
  <2>2. SubSeq(s, 1, Len(s) - 1)[k] = s[k]
    BY <1>5, <2>1
  <2> QED BY <2>2 DEF Front
<1> QED BY <1>1, <1>2, <1>6

\* The iterator's place in the container it runs over.
LEMMA PlaceFacts ==
  ASSUME TypeOK, NEW v \in Vectors
  PROVE  /\ elems[v] \in Seq(Objects \cup Prims) /\ Len(elems[v]) \in Nat
         /\ DOMAIN elems[v] = 1 .. Len(elems[v])
<1>1. elems[v] \in Seq(Objects \cup Prims)
  BY DEF TypeOK
<1> QED BY <1>1, LenProperties

\* The steps that stay in step 2, or begin it.
LEMMA MarkingSteps ==
  ASSUME StepCase, pc' = "mark"
  PROVE  \/ Still \/ VisitPrim \/ Visits \/ PopsToNext
         \/ \E o \in Objects \cup {NoObj} : Starts(root, o) /\ root # NoObj
<1>1. CASE \E o \in Objects : NewUnmanaged(o) \/ DeleteUnmanaged(o) \/ GcNew(o)
  BY <1>1 DEF NewUnmanaged, DeleteUnmanaged, GcNew, Running, ctl
<1>2. CASE GivesUp \/ PopsToSweep \/ Ends
  BY <1>2 DEF GivesUp, PopsToSweep, Ends
<1>3. CASE \E o \in Objects : Attaches(o)
  BY <1>3 DEF Attaches, AttachFree, AttachEnlarged, Occupy
<1>4. CASE \E r \in Vectors \cup {NoObj}, o \in Objects \cup {NoObj} : Starts(r, o)
  BY <1>4 DEF Starts
<1>5. CASE SweepKeep
  BY <1>5 DEF SweepKeep, Running, ctl
<1>6. CASE \/ \E o \in Objects : Frees(o)
           \/ \E v \in Vectors, x \in Objects \cup Prims : Writes(v, x)
  BY <1>6 DEF Frees, Writes
<1> QED BY <1>1, <1>2, <1>3, <1>4, <1>5, <1>6 DEF StepCase

LEMMA StackGrownStep ==
  ASSUME TypeOK, MarksReachable, StackGrown, StepCase
  PROVE  StackGrown'
<1> SUFFICES ASSUME pc' = "mark" PROVE StackGrown'
  BY DEF StackGrown
<1>1. CASE Still
  BY <1>1 DEF Still, StackGrown, heap, table, walk
<1>2. CASE \E o \in Objects \cup {NoObj} : Starts(root, o) /\ root # NoObj
  <2>1. recycle_stack' = <<root>> /\ iter' = Start(root)
        /\ root' = root /\ elems' = elems /\ root \in Vectors
    BY <1>2 DEF Starts, heap, TypeOK
  <2>2. Len(recycle_stack') = 1
    BY <2>1
  <2>3. \A k \in DOMAIN elems[root] : ~ k < 1
    BY <2>1, PlaceFacts
  <2> QED BY <2>1, <2>2, <2>3 DEF StackGrown, Start
<1>3. CASE VisitPrim \/ Visits
  <2>1. pc = "mark" /\ UNCHANGED <<root, elems>>
    BY <1>3 DEF VisitPrim, Visits, Running, heap, table
  <2>2. iter'.container = iter.container /\ iter'.pos = iter.pos + 1
    BY <1>3, AdvanceType DEF VisitPrim, Visits
  <2>3. recycle_stack \in Seq(Vectors) /\ Len(recycle_stack) \in Nat
    BY <2>1, StackFacts
  <2>4. CASE Element \in Vectors
    <3>1. recycle_stack' = Append(recycle_stack, Element)
      BY <1>3, <2>4, HeapAssumption DEF VisitPrim, Visits, Pushed, Objects
    <3>2. Len(recycle_stack') = Len(recycle_stack) + 1
      BY <3>1, <2>3, <2>4, AppendProperties
    <3>3. Len(recycle_stack) >= 1
      BY <2>1, StackFacts
    <3>4. Len(recycle_stack') >= 2
      BY <3>2, <3>3, <2>3
    <3> QED BY <3>4 DEF StackGrown
  <2>5. CASE Element \notin Vectors
    <3>1. recycle_stack' = recycle_stack
      BY <1>3, <2>5 DEF VisitPrim, Visits, Pushed
    <3>2. CASE Len(recycle_stack) >= 2
      BY <3>1, <3>2 DEF StackGrown
    <3>3. CASE ~ Len(recycle_stack) >= 2
      <4>1. /\ Len(recycle_stack) = 1 /\ iter.container = root
            /\ \A k \in DOMAIN elems[root] :
                  k < iter.pos => elems[root][k] \notin Vectors
        BY <2>1, <3>3 DEF StackGrown
      <4>2. root \in Vectors
        BY <2>1, <4>1 DEF MarksReachable
      <4>3. \A k \in DOMAIN elems[root] :
               k < iter.pos + 1 => k < iter.pos \/ k = iter.pos
        BY <4>2, PlaceFacts DEF TypeOK
      <4>4. Element = elems[root][iter.pos]
        BY <4>1 DEF Element, Current
      <4> QED BY <2>1, <2>2, <2>5, <3>1, <4>1, <4>3, <4>4 DEF StackGrown
    <3> QED BY <3>2, <3>3
  <2> QED BY <2>4, <2>5
<1>4. CASE PopsToNext
  <2>1. /\ pc = "mark" /\ recycle_stack' = Front(recycle_stack)
        /\ Front(recycle_stack) # <<>> /\ Len(Front(recycle_stack)) # 1
    BY <1>4 DEF PopsToNext
  <2>2. Front(recycle_stack) \in Seq(Vectors)
    BY <2>1, SeqTypes DEF TypeOK
  <2>3. Len(Front(recycle_stack)) \in Nat \ {0}
    BY <2>1, <2>2, EmptySeq
  <2>4. Len(recycle_stack') >= 2
    BY <2>1, <2>3
  <2> QED BY <2>4 DEF StackGrown
<1> QED BY <1>1, <1>2, <1>3, <1>4, MarkingSteps

\* An entry above the first that is a child of the container v, itself on the
\* stack at i, lies above i: its parent on the stack is v.
LEMMA ChildLiesAbove ==
  ASSUME TypeOK, MarksReachable, StackDistinct, pc = "mark", IsTree,
         NEW i \in DOMAIN recycle_stack, NEW j \in DOMAIN recycle_stack,
         recycle_stack[j] \in Children(recycle_stack[i])
  PROVE  i < j
<1> DEFINE stack == recycle_stack
<1>1. /\ DOMAIN stack = 1 .. Len(stack) /\ Len(stack) \in Nat
      /\ \A k \in DOMAIN stack : stack[k] \in Vectors /\ stack[k] \in Reachable
  BY StackFacts
<1>2. PICK k \in DOMAIN elems[stack[i]] : elems[stack[i]][k] = stack[j]
  BY DEF Children
<1>3. j # 1
  <2>1. stack[j] # root
    BY <1>1, <1>2, OneParent
  <2> QED BY <2>1 DEF StackDistinct
<1>4. PICK h \in 1 .. j - 1 : stack[j] \in Children(stack[h])
  BY <1>3 DEF StackDistinct
<1>5. PICK l \in DOMAIN elems[stack[h]] : elems[stack[h]][l] = stack[j]
  BY <1>4 DEF Children
<1>6. h \in DOMAIN stack /\ h < j
  BY <1>1, <1>4
<1>7. stack[i] = stack[h]
  BY <1>1, <1>2, <1>5, <1>6, OneParent
<1>8. i = h
  BY <1>6, <1>7 DEF StackDistinct
<1> QED BY <1>6, <1>8

LEMMA StackDistinctStep ==
  ASSUME TypeOK, MarksReachable, StackDistinct, StepCase
  PROVE  StackDistinct'
<1> SUFFICES ASSUME pc' = "mark", IsTree' PROVE StackDistinct'
  BY DEF StackDistinct
<1>1. CASE Still
  <2>1. IsTree
    BY <1>1, TreeKept DEF Still, heap, table
  <2> QED BY <1>1, <2>1 DEF Still, StackDistinct, Children, heap, table, walk
<1>2. CASE \E o \in Objects \cup {NoObj} : Starts(root, o) /\ root # NoObj
  <2>1. recycle_stack' = <<root>> /\ iter' = Start(root)
        /\ UNCHANGED <<root, elems, managed>> /\ root \in Vectors
    BY <1>2 DEF Starts, heap, TypeOK
  <2>2. IsTree /\ root \in Reachable
    BY <1>2, <2>1, TreeKept, ReachableFacts
  <2>3. \A k \in DOMAIN elems[root] : elems[root][k] # root
    BY <2>1, <2>2, OneParent
  <2>4. /\ DOMAIN recycle_stack' = {1} /\ recycle_stack'[1] = root'
        /\ iter'.container = root
    BY <2>1 DEF Start
  <2>5. \A j \in DOMAIN recycle_stack' : j = 1
    BY <2>4
  <2> QED BY <2>1, <2>3, <2>4, <2>5 DEF StackDistinct
<1>3. CASE VisitPrim \/ Visits
  <2>1. pc = "mark" /\ UNCHANGED <<root, elems, managed>>
    BY <1>3 DEF VisitPrim, Visits, Running, heap, table
  <2>2. iter'.container = iter.container /\ iter'.pos = iter.pos + 1
    BY <1>3, AdvanceType DEF VisitPrim, Visits
  <2>3. IsTree
    BY <2>1, TreeKept
  <2>4. iter.container \in Vectors /\ iter.container \in Reachable
        /\ iter.pos \in Nat
    BY <2>1 DEF MarksReachable
  <2>5. DOMAIN elems[iter.container] \subseteq Nat
    BY <2>4, PlaceFacts
  <2>6. /\ recycle_stack \in Seq(Vectors) /\ Len(recycle_stack) \in Nat \ {0}
        /\ DOMAIN recycle_stack = 1 .. Len(recycle_stack)
    BY <2>1, StackFacts
  <2> DEFINE c == iter.container
             n == Len(recycle_stack)
  <2>7. CASE Element \notin Vectors
    <3>1. recycle_stack' = recycle_stack
      BY <1>3, <2>7 DEF VisitPrim, Visits, Pushed
    <3>2. \A j \in DOMAIN recycle_stack, k \in DOMAIN elems[c] :
             recycle_stack[j] = elems[c][k] => k < iter.pos + 1
      <4>1. \A j \in DOMAIN recycle_stack, k \in DOMAIN elems[c] :
               recycle_stack[j] = elems[c][k] => k < iter.pos
        BY <2>1, <2>3 DEF StackDistinct
      <4>2. \A k \in DOMAIN elems[c] : k < iter.pos => k < iter.pos + 1
        BY <2>4, <2>5
      <4> QED BY <4>1, <4>2
    <3>3. Children(recycle_stack[1])' = Children(recycle_stack[1])
      BY <2>1, <3>1 DEF Children
    <3>4. \A i : Children(recycle_stack[i])' = Children(recycle_stack[i])
      BY <2>1, <3>1 DEF Children
    <3> QED BY <2>1, <2>2, <2>3, <3>1, <3>2, <3>4 DEF StackDistinct
  <2>8. CASE Element \in Vectors
    <3>1. /\ recycle_stack' = Append(recycle_stack, Element)
          /\ iter.pos <= Len(elems[c])
      BY <1>3, <2>8, HeapAssumption DEF VisitPrim, Visits, Pushed, Objects, Current
    <3>2. iter.pos \in DOMAIN elems[c] /\ Element = elems[c][iter.pos]
      BY <2>1, <2>4, <3>1, PlaceFacts DEF MarksReachable, Element, Current
    <3>3. /\ recycle_stack' \in Seq(Vectors) /\ Len(recycle_stack') = n + 1
          /\ recycle_stack'[n + 1] = Element
          /\ \A k \in 1 .. n : recycle_stack'[k] = recycle_stack[k]
      BY <2>6, <2>8, <3>1, AppendProperties
    <3>4. DOMAIN recycle_stack' = 1 .. n + 1
      BY <3>3, LenProperties
    <3>5. \A j \in 1 .. n : recycle_stack[j] # Element
      BY <2>1, <2>3, <2>4, <2>6, <3>2 DEF StackDistinct
    <3>6. \A j \in DOMAIN recycle_stack' : j \in 1 .. n \/ j = n + 1
      BY <2>6, <3>4
    <3>7. recycle_stack'[1] = root'
      BY <2>1, <2>3, <2>6, <3>3 DEF StackDistinct
    <3>8. \A i, j \in DOMAIN recycle_stack' :
             recycle_stack'[i] = recycle_stack'[j] => i = j
      BY <2>1, <2>3, <2>6, <3>3, <3>5, <3>6 DEF StackDistinct
    <3>9. PICK m \in 1 .. n : recycle_stack[m] = c
      BY <2>1, <2>3, <2>6 DEF StackDistinct
    <3>10. ASSUME NEW j \in DOMAIN recycle_stack', j # 1
           PROVE  \E i \in 1 .. j - 1 :
                     recycle_stack'[j] \in Children(recycle_stack[i])'
      <4>1. CASE j \in 1 .. n
        <5>1. PICK i \in 1 .. j - 1 : recycle_stack[j] \in Children(recycle_stack[i])
          BY <2>1, <2>3, <2>6, <3>10, <4>1 DEF StackDistinct
        <5>2. i \in 1 .. n
          BY <4>1, <5>1, <2>6
        <5>3. Children(recycle_stack[i])' = Children(recycle_stack[i])
          BY <2>1, <3>3, <5>2 DEF Children
        <5> QED BY <3>3, <4>1, <5>1, <5>2, <5>3
      <4>2. CASE j = n + 1
        <5>1. Element \in Children(c)
          BY <2>8, <3>2 DEF Children, Objects
        <5>2. Children(recycle_stack[m])' = Children(c)
          BY <2>1, <3>3, <3>9 DEF Children
        <5>3. m \in 1 .. j - 1
          BY <2>6, <4>2
        <5> QED BY <3>3, <4>2, <5>1, <5>2, <5>3
      <4> QED BY <3>6, <4>1, <4>2
    <3>11. \E i \in DOMAIN recycle_stack' : recycle_stack'[i] = iter'.container
      BY <2>2, <2>6, <3>3, <3>4, <3>9
    <3>12. ASSUME NEW j \in DOMAIN recycle_stack', NEW k \in DOMAIN elems[c],
                  recycle_stack'[j] = elems[c][k]
           PROVE  k < iter.pos + 1
      <4>1. CASE j \in 1 .. n
        <5>1. k < iter.pos
          BY <2>1, <2>3, <2>6, <3>3, <3>12, <4>1 DEF StackDistinct
        <5> QED BY <5>1, <2>4, <2>5
      <4>2. CASE j = n + 1
        <5>1. elems[c][k] = elems[c][iter.pos] /\ elems[c][k] \in Vectors
          BY <2>8, <3>2, <3>3, <3>12, <4>2
        <5>2. k = iter.pos
          BY <2>3, <2>4, <3>2, <5>1, OneParent
        <5> QED BY <5>2, <2>4
      <4> QED BY <3>6, <4>1, <4>2
    <3> QED BY <2>1, <2>2, <3>7, <3>8, <3>10, <3>11, <3>12 DEF StackDistinct
  <2> QED BY <2>7, <2>8
<1>4. CASE PopsToNext
  <2>1. /\ pc = "mark" /\ recycle_stack' = Front(recycle_stack)
        /\ Front(recycle_stack) # <<>> /\ iter' = Start(Last(Front(recycle_stack)))
        /\ UNCHANGED <<root, elems, managed>>
    BY <1>4 DEF PopsToNext, heap, table
  <2>2. IsTree
    BY <2>1, TreeKept
  <2> DEFINE n == Len(recycle_stack) - 1
  <2>3. /\ recycle_stack \in Seq(Vectors)
        /\ DOMAIN recycle_stack = 1 .. Len(recycle_stack)
        /\ Len(recycle_stack) \in Nat \ {0}
    BY <2>1, StackFacts
  <2>4. /\ recycle_stack' \in Seq(Vectors) /\ Len(recycle_stack') = n
        /\ DOMAIN recycle_stack' = 1 .. n
        /\ \A k \in 1 .. n : recycle_stack'[k] = recycle_stack[k]
    <3>1. recycle_stack # <<>>
      BY <2>3, EmptySeq
    <3> QED BY <2>1, <2>3, <3>1, FrontFacts
  <2>5. n \in Nat \ {0}
    BY <2>1, <2>3, <2>4, EmptySeq
  <2>6. iter'.container = recycle_stack[n] /\ iter'.pos = 1
    BY <2>1, <2>4, <2>5 DEF Start, Last
  <2>7. \A k \in 1 .. n : k \in DOMAIN recycle_stack
    BY <2>3
  <2>8. recycle_stack'[1] = root'
    BY <2>1, <2>2, <2>4, <2>5 DEF StackDistinct
  <2>9. \A i, j \in DOMAIN recycle_stack' :
           recycle_stack'[i] = recycle_stack'[j] => i = j
    BY <2>1, <2>2, <2>4, <2>7 DEF StackDistinct
  <2>10. ASSUME NEW j \in DOMAIN recycle_stack', j # 1
         PROVE  \E i \in 1 .. j - 1 :
                   recycle_stack'[j] \in Children(recycle_stack[i])'
    <3>1. PICK i \in 1 .. j - 1 : recycle_stack[j] \in Children(recycle_stack[i])
      BY <2>1, <2>2, <2>4, <2>7, <2>10 DEF StackDistinct
    <3>2. i \in 1 .. n
      BY <2>4, <2>5, <3>1
    <3>3. Children(recycle_stack[i])' = Children(recycle_stack[i])
      BY <2>1, <2>4, <3>2 DEF Children
    <3> QED BY <2>4, <2>10, <3>1, <3>2, <3>3
  <2>11. \E i \in DOMAIN recycle_stack' : recycle_stack'[i] = iter'.container
    BY <2>4, <2>5, <2>6
  <2>12. ASSUME NEW j \in DOMAIN recycle_stack',
                NEW k \in DOMAIN elems[recycle_stack[n]],
                recycle_stack'[j] = elems[recycle_stack[n]][k]
         PROVE  FALSE
    <3>1. n \in DOMAIN recycle_stack /\ j \in DOMAIN recycle_stack /\ j <= n
      BY <2>3, <2>4, <2>5, <2>7
    <3>2. recycle_stack[j] \in Vectors
      BY <2>1, <3>1, StackFacts
    <3>3. recycle_stack[j] \in Children(recycle_stack[n])
      BY <2>4, <2>12, <3>2 DEF Children, Objects
    <3>4. n < j
      BY <2>1, <2>2, <3>1, <3>3, ChildLiesAbove
    <3> QED BY <2>4, <2>5, <3>1, <3>4
  <2>13. \A j \in DOMAIN recycle_stack', k \in DOMAIN elems'[iter'.container] :
            recycle_stack'[j] = elems'[iter'.container][k] => k < iter'.pos
    BY <2>1, <2>6, <2>12
  <2> QED BY <2>8, <2>9, <2>10, <2>11, <2>13 DEF StackDistinct
<1> QED BY <1>1, <1>2, <1>3, <1>4, MarkingSteps

\* Distinct containers of the collector have distinct slots: in a tree the
\* stack holds at most slot_count of them.
LEMMA StackFits ==
  ASSUME TypeOK, SlotsMatchObjects, MarksReachable, StackDistinct, pc = "mark",
         IsTree
  PROVE  Len(recycle_stack) <= slot_count
<1> SUFFICES ASSUME ~ Len(recycle_stack) <= slot_count PROVE FALSE
  OBVIOUS
<1> DEFINE S == 1 .. Len(recycle_stack)
           T == 0 .. slot_count - 1
           f == [k \in S |-> gc_id[recycle_stack[k]]]
<1>1. /\ Len(recycle_stack) \in Nat /\ slot_count \in Nat
      /\ DOMAIN recycle_stack = S
      /\ \A k \in S : recycle_stack[k] \in Vectors /\ recycle_stack[k] \in Reachable
  BY StackFacts DEF TypeOK
<1>2. \A k \in S : recycle_stack[k] \in managed
  BY <1>1 DEF IsTree
<1>3. DOMAIN slots = T
  BY DEF TypeOK
<1>4. f \in [S -> T]
  BY <1>2, <1>3 DEF SlotsMatchObjects
<1>5. /\ IsFiniteSet(S) /\ IsFiniteSet(T)
      /\ Cardinality(S) = Len(recycle_stack) /\ Cardinality(T) = slot_count
  <2>1. /\ IsFiniteSet(S)
        /\ Cardinality(S)
             = IF 1 > Len(recycle_stack) THEN 0 ELSE Len(recycle_stack) - 1 + 1
    BY <1>1, FS_Interval
  <2>2. /\ IsFiniteSet(T)
        /\ Cardinality(T) = IF 0 > slot_count - 1 THEN 0 ELSE slot_count - 1 - 0 + 1
    <3>1. 0 \in Int /\ slot_count - 1 \in Int
      BY <1>1
    <3> QED BY <3>1, FS_Interval
  <2> QED BY <1>1, <2>1, <2>2
<1>6. Cardinality(T) < Cardinality(S)
  BY <1>1, <1>5
<1>7. PICK x, y \in S : x # y /\ f[x] = f[y]
  <2> HIDE DEF S, T, f
  <2> QED BY <1>4, <1>5, <1>6, FS_PigeonHole
<1>8. gc_id[recycle_stack[x]] = gc_id[recycle_stack[y]]
  BY <1>7
<1>9. recycle_stack[x] = recycle_stack[y]
  BY <1>2, <1>8 DEF SlotsMatchObjects
<1> QED BY <1>1, <1>7, <1>9 DEF StackDistinct

\* The steps that leave the stack at either end.
LEMMA StackFaults ==
  ASSUME [Next]_vars, fault' \in {"stack_underflow", "stack_overflow"}
  PROVE  \/ UNCHANGED vars
         \/ /\ pc = "mark" /\ AtEnd /\ Front(recycle_stack) = <<>>
            /\ fault' = "stack_underflow" /\ UNCHANGED <<heap, table, walk, pc>>
         \/ /\ pc = "mark" /\ Len(Pushed(Element)) > slot_count + 1
            /\ fault' = "stack_overflow" /\ UNCHANGED <<heap, table, walk, pc>>
<1>1. CASE UNCHANGED vars
  BY <1>1
<1>2. ASSUME NEW o, Attach(o), fault = "none" PROVE FALSE
  BY <1>2 DEF Attach, AttachFree, AttachEnlarged, AttachEnlargeFails,
     AttachFull, AttachFreedBuffer, Fault, Occupy
<1>3. ASSUME NEW r, NEW o, BeginRecycle(r, o), fault = "none" PROVE FALSE
  BY <1>3 DEF BeginRecycle, Fault
<1>4. CASE \E o \in Objects :
        \/ NewUnmanaged(o) \/ DeleteUnmanaged(o) \/ GcNew(o)
        \/ New(o) \/ NewOutOfMemory(o)
  BY <1>2, <1>3, <1>4
     DEF NewUnmanaged, DeleteUnmanaged, GcNew, New, NewOutOfMemory, ctl, Running
<1>5. CASE Mutate
  BY <1>5 DEF Mutate, AppendElem, SetElem, ctl, Running
<1>6. CASE Recycle \/ DeleteGc \/ RetryNew \/ RetryFails
  BY <1>2, <1>3, <1>6 DEF Recycle, DeleteGc, RetryNew, RetryFails, Running
<1>7. CASE VisitPrim \/ SweepKeep \/ SweepFree \/ SweepDone \/ DestructorDone
  BY <1>7 DEF VisitPrim, SweepKeep, SweepFree, SweepDone, DestructorDone,
     Fault, Running, ctl
<1>8. CASE VisitChild
  BY <1>8 DEF VisitChild, Fault, Running, ctl
<1>9. CASE PopStack
  BY <1>9 DEF PopStack, Popped, Fault, Running, ctl
<1> QED BY <1>1, <1>4, <1>5, <1>6, <1>7, <1>8, <1>9 DEF Next, Collect, Crashed

LEMMA StackSufficesStep ==
  ASSUME TypeOK, SlotsMatchObjects, MarksReachable, StackGrown, StackDistinct,
         StackSufficesForTrees, [Next]_vars
  PROVE  StackSufficesForTrees'
<1> SUFFICES ASSUME fault' \in {"stack_underflow", "stack_overflow"}
             PROVE  StackSufficesForTrees'
  BY DEF StackSufficesForTrees
<1>1. CASE UNCHANGED vars
  <2>1. UNCHANGED <<root, elems, managed, fault>>
    BY <1>1 DEF vars, heap, table, ctl
  <2>2. (IsTree' <=> IsTree) /\ Children(root)' = Children(root)
    BY <2>1, TreeKept DEF Children
  <2> QED BY <2>1, <2>2 DEF StackSufficesForTrees
<1>2. CASE /\ pc = "mark" /\ AtEnd /\ Front(recycle_stack) = <<>>
           /\ fault' = "stack_underflow" /\ UNCHANGED <<heap, table, walk, pc>>
  <2>1. recycle_stack \in Seq(Vectors) /\ Len(recycle_stack) \in Nat \ {0}
    BY <1>2, StackFacts
  <2>2. Len(recycle_stack) = 1
    <3>1. Len(Front(recycle_stack)) = Len(recycle_stack) - 1
      BY <2>1, EmptySeq, FrontFacts
    <3>2. Len(Front(recycle_stack)) = 0
      BY <1>2, EmptySeq
    <3> QED BY <2>1, <3>1, <3>2
  <2>3. /\ iter.container = root
        /\ \A k \in DOMAIN elems[root] :
              k < iter.pos => elems[root][k] \notin Vectors
    BY <1>2, <2>2 DEF StackGrown
  <2>4. root \in Vectors /\ iter.pos \in Nat
    BY <1>2, <2>3 DEF MarksReachable
  <2>5. iter.pos > Len(elems[root])
    BY <1>2, <2>3 DEF AtEnd, Current
  <2>6. \A k \in DOMAIN elems[root] : k < iter.pos
    BY <2>4, <2>5, PlaceFacts
  <2>7. Children(root) \cap Vectors = {}
    BY <2>3, <2>6 DEF Children
  <2>8. Children(root)' = Children(root)
    BY <1>2 DEF Children, heap, table
  <2> QED BY <1>2, <2>7, <2>8 DEF StackSufficesForTrees
<1>3. CASE /\ pc = "mark" /\ Len(Pushed(Element)) > slot_count + 1
           /\ fault' = "stack_overflow" /\ UNCHANGED <<heap, table, walk, pc>>
  <2> SUFFICES ASSUME IsTree PROVE FALSE
    BY <1>3, TreeKept DEF StackSufficesForTrees, heap, table
  <2>1. Len(recycle_stack) <= slot_count
    BY <1>3, StackFits
  <2>2. Len(recycle_stack) \in Nat /\ slot_count \in Nat
    BY <1>3, StackFacts DEF TypeOK
  <2>3. \/ Len(Pushed(Element)) = Len(recycle_stack)
        \/ Len(Pushed(Element)) = Len(recycle_stack) + 1
    <3>1. CASE Element \in Vectors
      <4>1. Pushed(Element) = Append(recycle_stack, Element)
        BY <3>1 DEF Pushed
      <4>2. Len(Append(recycle_stack, Element)) = Len(recycle_stack) + 1
        BY <1>3, <3>1, StackFacts, AppendProperties
      <4> QED BY <4>1, <4>2
    <3>2. CASE Element \notin Vectors
      BY <3>2 DEF Pushed
    <3> QED BY <3>1, <3>2
  <2> QED BY <1>3, <2>1, <2>2, <2>3
<1> QED BY <1>1, <1>2, <1>3, StackFaults

-----------------------------------------------------------------------------
(***************************************************************************)
(* Flat heaps: which container is run over when, what is marked at the     *)
(* end, and that there is an end.                                          *)
(***************************************************************************)
\* What is flat, and what belongs to it, is said of the root and the elements.
LEMMA FlatKept ==
  ASSUME UNCHANGED <<root, elems>>
  PROVE  /\ FlatHeap' <=> FlatHeap
         /\ FlatFamily' = FlatFamily
         /\ \A v : ContainerPlaces(v)' = ContainerPlaces(v)
         /\ \A i : NotLast(i)' <=> NotLast(i)
         /\ \A v : Children(v)' = Children(v)
<1>1. \A v : ContainerPlaces(v)' = ContainerPlaces(v)
  BY DEF ContainerPlaces
<1>2. \A v : Children(v)' = Children(v)
  BY DEF Children
<1>3. \A i : NotLast(i)' <=> NotLast(i)
  BY DEF NotLast, ContainerPlaces
<1>4. FlatHeap' <=> FlatHeap
  BY DEF FlatHeap, NotLast, ContainerPlaces
<1>5. FlatFamily' = FlatFamily
  BY DEF FlatFamily, NotLast, ContainerPlaces, Children
<1> QED BY <1>1, <1>2, <1>3, <1>4, <1>5

\* Two objects with one slot are the same, unless one is not managed: then the
\* slot is that of the root.
LEMMA SameSlot ==
  ASSUME TypeOK, SlotsMatchObjects, TableAlive, root # NoObj,
         NEW o \in managed, NEW p \in Objects, gc_id[o] = gc_id[p]
  PROVE  o = p \/ o = root
<1>1. slots[gc_id[o]] = o
  BY DEF SlotsMatchObjects
<1>2. CASE p \in managed
  BY <1>1, <1>2 DEF SlotsMatchObjects
<1>3. CASE p \notin managed
  <2>1. gc_id[p] = 0
    BY <1>3 DEF TableAlive
  <2> QED BY <1>1, <2>1 DEF TableAlive, ROOT_INDEX
<1> QED BY <1>2, <1>3

\* Which containers step 2 runs over on a flat heap.
LEMMA FlatCurrent ==
  ASSUME TypeOK, MarksReachable, FlatWalk, pc = "mark", FlatHeap
  PROVE  \/ iter.container = root
         \/ /\ iter.container # root
            /\ ContainerPlaces(iter.container) = {}
            /\ \E i \in ContainerPlaces(root) :
                  NotLast(i) /\ iter.container = elems[root][i]
<1>1. PICK places \in [2 .. Len(recycle_stack) -> ContainerPlaces(root)] :
        RootRun(places) \/ ChildRun(places, Len(recycle_stack))
  BY DEF FlatWalk
<1>2. CASE RootRun(places)
  BY <1>2 DEF RootRun
<1>3. CASE ChildRun(places, Len(recycle_stack))
  <2>1. /\ Len(recycle_stack) >= 2 /\ NotLast(places[Len(recycle_stack)])
        /\ iter.container = elems[root][places[Len(recycle_stack)]]
    BY <1>3 DEF ChildRun
  <2>2. Len(recycle_stack) \in 2 .. Len(recycle_stack)
    BY <2>1, StackFacts
  <2>3. places[Len(recycle_stack)] \in ContainerPlaces(root)
    BY <1>1, <2>2
  <2> QED BY <2>1, <2>3 DEF FlatHeap
<1> QED BY <1>1, <1>2, <1>3

\* The entry that PopStack makes the top.
LEMMA PoppedTop ==
  ASSUME TypeOK, MarksReachable, pc = "mark",
         Front(recycle_stack) # <<>>, Len(Front(recycle_stack)) # 1
  PROVE  /\ Last(Front(recycle_stack)) = recycle_stack[Len(recycle_stack) - 1]
         /\ Len(Front(recycle_stack)) = Len(recycle_stack) - 1
         /\ Len(recycle_stack) >= 3
         /\ Len(recycle_stack) - 1 \in 2 .. Len(recycle_stack)
         /\ recycle_stack[Len(recycle_stack) - 1] \in Vectors
<1>1. /\ recycle_stack \in Seq(Vectors) /\ Len(recycle_stack) \in Nat
      /\ recycle_stack # <<>> /\ DOMAIN recycle_stack = 1 .. Len(recycle_stack)
      /\ \A k \in DOMAIN recycle_stack : recycle_stack[k] \in Vectors
  BY StackFacts DEF MarksReachable
<1>2. /\ Front(recycle_stack) \in Seq(Vectors)
      /\ Len(Front(recycle_stack)) = Len(recycle_stack) - 1
      /\ \A k \in 1 .. Len(recycle_stack) - 1 :
            Front(recycle_stack)[k] = recycle_stack[k]
  BY <1>1, FrontFacts
<1>3. Len(Front(recycle_stack)) # 0
  BY <1>2, EmptySeq
<1>4. Len(recycle_stack) >= 3
  BY <1>1, <1>2, <1>3
<1> QED BY <1>1, <1>2, <1>4 DEF Last

LEMMA FlatSoundStep ==
  ASSUME TypeOK, SlotsMatchObjects, FreeListLinked, TableAlive,
         MarksReachable, FlatWalk, FlatSound, StepCase
  PROVE  FlatSound'
<1>1. CASE pc' \notin {"mark", "sweep"} \/ root' = NoObj
  BY <1>1 DEF FlatSound
<1>2. ASSUME NEW r \in Vectors \cup {NoObj}, NEW q \in Objects \cup {NoObj},
             Starts(r, q), r # NoObj
      PROVE  FlatSound'
  <2>1. /\ r = root /\ UNCHANGED <<root, elems, managed, gc_id>>
        /\ inuse_flags' = FreeChain \cup {gc_id[root]} /\ root \in Objects
    BY <1>2 DEF Starts, heap, TypeOK, Objects
  <2>2. ASSUME NEW o \in managed, gc_id[o] \in inuse_flags' PROVE o = root
    <3>1. slots[gc_id[o]] = o /\ o \in Objects
      BY DEF SlotsMatchObjects, TypeOK
    <3>2. gc_id[o] \notin FreeChain
      BY <3>1, FreeChainFree, HeapAssumption DEF FreeSlots
    <3>3. gc_id[o] = gc_id[root]
      BY <2>1, <2>2, <3>2
    <3> QED BY <1>2, <2>1, <3>3, SameSlot
  <2>3. root \in FlatFamily /\ FlatFamily' = FlatFamily
    BY <2>1, FlatKept DEF FlatFamily
  <2> QED BY <2>1, <2>2, <2>3 DEF FlatSound
<1>3. CASE VisitPrim \/ SweepKeep \/ Still
  <2>1. UNCHANGED <<root, elems, managed, gc_id, inuse_flags, pc>>
    BY <1>3 DEF VisitPrim, SweepKeep, Still, heap, table, walk, ctl
  <2> QED BY <2>1, FlatKept DEF FlatSound
<1>4. ASSUME NEW p \in Objects, pc = "mark", FlatHeap => p \in FlatFamily,
             inuse_flags' = inuse_flags \cup {gc_id[p]},
             UNCHANGED <<root, elems, managed, gc_id>>
      PROVE  FlatSound'
  <2>1. root # NoObj
    BY <1>4 DEF MarksReachable
  <2>2. root \in FlatFamily
    BY DEF FlatFamily
  <2>3. ASSUME FlatHeap, NEW o \in managed, gc_id[o] \in inuse_flags'
        PROVE  o \in FlatFamily
    <3>1. CASE gc_id[o] \in inuse_flags
      BY <1>4, <2>1, <2>3, <3>1 DEF FlatSound
    <3>2. CASE gc_id[o] = gc_id[p]
      BY <1>4, <2>1, <2>2, <2>3, <3>2, SameSlot
    <3> QED BY <1>4, <2>3, <3>1, <3>2
  <2> QED BY <1>4, <2>3, FlatKept DEF FlatSound
<1>5. CASE Visits
  <2>1. /\ pc = "mark" /\ Element \in Objects
        /\ inuse_flags' = inuse_flags \cup {gc_id[Element]}
        /\ UNCHANGED <<root, elems, managed, gc_id>>
    BY <1>5 DEF Visits, heap, table
  <2>2. Element \in Children(iter.container)
    BY <1>5, <2>1, ElementIsChild DEF MarksReachable, Visits, Current
  <2>3. FlatHeap => Element \in FlatFamily
    BY <2>1, <2>2, FlatCurrent DEF FlatFamily
  <2> QED BY <1>4, <2>1, <2>3
<1>6. CASE PopsToNext
  <2> DEFINE n == Len(recycle_stack)
  <2>1. /\ pc = "mark" /\ Front(recycle_stack) # <<>>
        /\ Len(Front(recycle_stack)) # 1
        /\ inuse_flags' = inuse_flags \cup {gc_id[Last(Front(recycle_stack))]}
        /\ UNCHANGED <<root, elems, managed, gc_id>>
    BY <1>6 DEF PopsToNext, heap, table
  <2>2. /\ Last(Front(recycle_stack)) = recycle_stack[n - 1]
        /\ n - 1 \in 2 .. n /\ recycle_stack[n - 1] \in Vectors
    BY <2>1, PoppedTop
  <2>3. ASSUME FlatHeap PROVE recycle_stack[n - 1] \in FlatFamily
    <3>1. PICK places \in [2 .. n -> ContainerPlaces(root)] : StackPlaces(places)
      BY <2>1, <2>3 DEF FlatWalk
    <3>2. places[n - 1] \in ContainerPlaces(root)
          /\ recycle_stack[n - 1] = elems[root][places[n - 1]]
      BY <2>2, <3>1 DEF StackPlaces
    <3>3. recycle_stack[n - 1] \in Children(root)
      BY <3>2 DEF ContainerPlaces, Children, Objects
    <3> QED BY <3>3 DEF FlatFamily
  <2> QED BY <1>4, <2>1, <2>2, <2>3 DEF Objects
<1>7. CASE PopsToSweep
  <2>1. /\ pc = "mark" /\ inuse_flags' = inuse_flags \cup {gc_id[root]}
        /\ UNCHANGED <<root, elems, managed, gc_id>>
    BY <1>7 DEF PopsToSweep, heap, table
  <2>2. root \in Objects
    BY <2>1 DEF MarksReachable, TypeOK, Objects
  <2>3. root \in FlatFamily
    BY DEF FlatFamily
  <2> QED BY <1>4, <2>1, <2>2, <2>3
<1>8. ASSUME NEW p \in Objects, Frees(p) PROVE FlatSound'
  <2>1. UNCHANGED <<root, elems, inuse_flags>> /\ pc = "sweep"
    BY <1>8 DEF Frees
  <2>2. managed' = managed \ {p} /\ \A o \in managed' : gc_id'[o] = gc_id[o]
    BY <1>8 DEF Frees, TypeOK
  <2> QED BY <1>1, <2>1, <2>2, FlatKept DEF FlatSound
<1>9. CASE GivesUp \/ Ends
           \/ \E r \in Vectors \cup {NoObj}, o \in Objects \cup {NoObj} :
                 Starts(r, o) /\ r = NoObj
  BY <1>1, <1>9 DEF GivesUp, Ends, Starts
<1>10. CASE \/ \E o \in Objects : NewUnmanaged(o) \/ DeleteUnmanaged(o) \/ GcNew(o)
            \/ \E v \in Vectors, x \in Objects \cup Prims : Writes(v, x)
  BY <1>1, <1>10 DEF NewUnmanaged, DeleteUnmanaged, GcNew, Writes, Running, ctl
<1>11. CASE \E o \in Objects : Attaches(o)
  BY <1>1, <1>11 DEF Attaches, AttachFree, AttachEnlarged, Occupy
<1> QED BY <1>2, <1>3, <1>5, <1>6, <1>7, <1>8, <1>9, <1>10, <1>11 DEF StepCase

\* When a container was run over, all of the root's that are not the last and
\* lie at or behind the top of the stack are done.
LEMMA RunOver ==
  ASSUME TypeOK, MarksReachable, FlatWalk, pc = "mark", FlatHeap,
         iter.pos > Len(elems[Current])
  PROVE  \E places \in [2 .. Len(recycle_stack) -> ContainerPlaces(root)] :
           LET top == Len(recycle_stack) IN
           /\ StackPlaces(places) /\ top >= 2
           /\ \A i \in ContainerPlaces(root) :
                 i <= places[top] => \E k \in DOMAIN places : places[k] = i
           /\ \A i \in ContainerPlaces(root) :
                 i >= places[top] /\ NotLast(i) => PlaceMarked(i)
<1> DEFINE top == Len(recycle_stack)
<1>1. PICK places \in [2 .. top -> ContainerPlaces(root)] :
        StackPlaces(places) /\ (RootRun(places) \/ ChildRun(places, top))
  BY DEF FlatWalk
<1>2. /\ top \in Nat /\ iter.container \in Vectors /\ iter.pos \in Nat
      /\ root \in Vectors
  BY StackFacts DEF MarksReachable, TypeOK
<1>3. /\ DOMAIN elems[root] = 1 .. Len(elems[root]) /\ Len(elems[root]) \in Nat
      /\ DOMAIN elems[iter.container] = 1 .. Len(elems[iter.container])
      /\ Len(elems[iter.container]) \in Nat
  BY <1>2, PlaceFacts
<1>4. ContainerPlaces(root) \subseteq Nat
  BY <1>3 DEF ContainerPlaces
<1>5. \A k \in DOMAIN elems[iter.container] : k < iter.pos
  BY <1>2, <1>3 DEF Current
<1>6. \A k, l \in 2 .. top : k < l => places[k] < places[l]
  BY <1>1 DEF StackPlaces
<1>7. CASE RootRun(places)
  <2>1. \A i \in ContainerPlaces(root) : \E k \in 2 .. top : places[k] = i
    BY <1>1, <1>5, <1>7 DEF RootRun, ContainerPlaces
  <2>2. PICK i \in ContainerPlaces(root) : TRUE
    BY DEF FlatHeap
  <2>3. PICK k \in 2 .. top : places[k] = i
    BY <2>1
  <2>4. top >= 2 /\ top \in 2 .. top
    BY <1>2, <2>3
  <2>5. ASSUME NEW j \in ContainerPlaces(root) PROVE j <= places[top]
    <3>1. PICK l \in 2 .. top : places[l] = j
      BY <2>1
    <3>2. l < top \/ l = top
      BY <1>2
    <3>3. places[l] \in Nat /\ places[top] \in Nat
      BY <1>1, <1>4, <2>4
    <3> QED BY <1>6, <2>4, <3>1, <3>2, <3>3
  <2>6. ASSUME NEW j \in ContainerPlaces(root), j >= places[top], NotLast(j)
        PROVE  FALSE
    <3>1. PICK l \in ContainerPlaces(root) : j < l
      BY <2>6 DEF NotLast
    <3>2. l <= places[top]
      BY <2>5
    <3>3. places[top] \in Nat /\ l \in Nat /\ j \in Nat
      BY <1>1, <1>4, <2>4
    <3> QED BY <2>6, <3>1, <3>2, <3>3
  <2> QED BY <1>1, <2>1, <2>4, <2>6
<1>8. CASE ChildRun(places, top)
  <2>1. /\ top >= 2 /\ NotLast(places[top])
        /\ iter.container = elems[root][places[top]]
        /\ \A i \in ContainerPlaces(root) :
              i <= places[top] => \E k \in DOMAIN places : places[k] = i
        /\ \A i \in ContainerPlaces(root) :
              i > places[top] /\ NotLast(i) => PlaceMarked(i)
        /\ \A k \in DOMAIN elems[iter.container] :
              k < iter.pos /\ elems[iter.container][k] \in managed
                => gc_id[elems[iter.container][k]] \in inuse_flags
    BY <1>8 DEF ChildRun
  <2>2. PlaceMarked(places[top])
    BY <1>5, <2>1 DEF PlaceMarked, Children
  <2>3. places[top] \in Nat
    BY <1>1, <1>2, <1>4, <2>1
  <2>4. ASSUME NEW i \in ContainerPlaces(root), i >= places[top], NotLast(i)
        PROVE  PlaceMarked(i)
    <3>1. i > places[top] \/ i = places[top]
      BY <1>4, <2>3, <2>4
    <3> QED BY <2>1, <2>2, <2>4, <3>1
  <2> QED BY <1>1, <2>1, <2>4
<1> QED BY <1>1, <1>7, <1>8

LEMMA IterStep ==
  ASSUME TypeOK, MarksReachable, IterInBounds, StepCase
  PROVE  IterInBounds'
<1> SUFFICES ASSUME pc' = "mark" PROVE IterInBounds'
  BY DEF IterInBounds
<1>1. CASE Still
  BY <1>1 DEF Still, IterInBounds, heap, walk
<1>2. CASE VisitPrim \/ Visits
  <2>1. pc = "mark" /\ elems' = elems /\ iter.pos <= Len(elems[iter.container])
    BY <1>2 DEF VisitPrim, Visits, AtEnd, Current, Running, heap, MarksReachable,
       TypeOK, IterInBounds
  <2>2. iter'.container = iter.container /\ iter'.pos = iter.pos + 1
    BY <1>2, AdvanceType DEF VisitPrim, Visits
  <2>3. Len(elems[iter.container]) \in Nat /\ iter.pos \in Nat
    BY <2>1, PlaceFacts DEF MarksReachable
  <2> QED BY <2>1, <2>2, <2>3 DEF IterInBounds
<1>3. CASE PopsToNext \/ \E o \in Objects \cup {NoObj} : Starts(root, o) /\ root # NoObj
  <2>1. PICK v \in Vectors : iter' = Start(v) /\ elems' = elems
    <3>1. CASE PopsToNext
      BY <3>1, PoppedTop DEF PopsToNext, heap
    <3>2. CASE \E o \in Objects \cup {NoObj} : Starts(root, o) /\ root # NoObj
      BY <3>2 DEF Starts, heap, TypeOK
    <3> QED BY <1>3, <3>1, <3>2
  <2>2. Len(elems[v]) \in Nat
    BY PlaceFacts
  <2>3. iter'.pos = 1 /\ iter'.container = v
    BY <2>1 DEF Start
  <2> QED BY <2>1, <2>2, <2>3 DEF IterInBounds
<1> QED BY <1>1, <1>2, <1>3, MarkingSteps

\* Step 2 marks each element before the iterator passes it.
LEMMA PassedStep ==
  ASSUME TypeOK, MarksReachable, PassedMarked, StepCase
  PROVE  PassedMarked'
<1> SUFFICES ASSUME pc' = "mark" PROVE PassedMarked'
  BY DEF PassedMarked
<1>1. CASE Still
  BY <1>1 DEF Still, PassedMarked, Current, heap, walk
<1>2. CASE VisitPrim \/ Visits
  <2>1. /\ pc = "mark" /\ UNCHANGED <<elems, managed, gc_id>>
        /\ inuse_flags \subseteq inuse_flags'
    BY <1>2 DEF VisitPrim, Visits, Running, heap
  <2>2. Current' = Current /\ iter'.pos = iter.pos + 1
    BY <1>2, AdvanceType DEF VisitPrim, Visits, Current
  <2>3. Element \in managed => gc_id[Element] \in inuse_flags'
    BY <1>2, HeapAssumption DEF VisitPrim, Visits, TypeOK
  <2>4. Current \in Vectors /\ iter.pos \in Nat
    BY <2>1 DEF MarksReachable, Current
  <2>5. DOMAIN elems[Current] \subseteq Nat
    BY <2>4, PlaceFacts
  <2>6. \A k \in DOMAIN elems[Current] :
           k < iter.pos + 1 => k < iter.pos \/ k = iter.pos
    BY <2>4, <2>5
  <2> QED BY <2>1, <2>2, <2>3, <2>6 DEF PassedMarked, Element
<1>3. CASE PopsToNext \/ \E o \in Objects \cup {NoObj} : Starts(root, o) /\ root # NoObj
  <2>1. PICK v \in Vectors : iter' = Start(v) /\ elems' = elems
    <3>1. CASE PopsToNext
      BY <3>1, PoppedTop DEF PopsToNext, heap
    <3>2. CASE \E o \in Objects \cup {NoObj} : Starts(root, o) /\ root # NoObj
      BY <3>2 DEF Starts, heap, TypeOK
    <3> QED BY <1>3, <3>1, <3>2
  <2>2. iter'.pos = 1 /\ Current' = v
    BY <2>1 DEF Start, Current
  <2>3. \A k \in DOMAIN elems[v] : ~(k < 1)
    <3>1. DOMAIN elems[v] = 1 .. Len(elems[v]) /\ Len(elems[v]) \in Nat
      BY PlaceFacts
    <3> QED BY <3>1
  <2> QED BY <2>1, <2>2, <2>3 DEF PassedMarked
<1> QED BY <1>1, <1>2, <1>3, MarkingSteps

\* The stack that the last pop leaves with the root alone had two entries.
LEMMA TwoEntries ==
  ASSUME TypeOK, MarksReachable, pc = "mark", Len(Front(recycle_stack)) = 1
  PROVE  Len(recycle_stack) = 2
<1> DEFINE n == Len(recycle_stack)
           m == Len(Front(recycle_stack))
<1>1. n \in Nat /\ m = n - 1
  BY StackFacts, FrontFacts DEF MarksReachable
<1>2. m = 1
  OBVIOUS
<1> HIDE DEF n, m
<1>3. n = 2
  BY <1>1, <1>2
<1> QED BY <1>3 DEF n

LEMMA FirstRunStarts ==
  ASSUME TypeOK, root \in Vectors, iter' = Start(root),
         recycle_stack' = <<root>>, UNCHANGED <<root, elems>>
  PROVE  FirstRun'
<1>1. Len(recycle_stack') = 1
  OBVIOUS
<1>2. \A i \in ContainerPlaces(root) : i \in Nat \ {0}
  BY PlaceFacts DEF ContainerPlaces
<1> DEFINE places == [k \in {} |-> 0]
<1>3. 2 .. 1 = {}
  OBVIOUS
<1>4. places \in [2 .. Len(recycle_stack') -> ContainerPlaces(root)']
  BY <1>1, <1>3
<1>5. DOMAIN places = {}
  OBVIOUS
<1>6. /\ \A k \in DOMAIN places : recycle_stack'[k] = elems'[root'][places[k]]
      /\ \A k, l \in DOMAIN places : k < l => places[k] < places[l]
  BY <1>5
<1>7. iter'.container = root' /\ iter'.pos = 1
  BY DEF Start
<1>8. \A i \in ContainerPlaces(root)' : ~ i < 1
  BY <1>2, FlatKept
<1>9. \A i \in ContainerPlaces(root)' :
         (\E k \in DOMAIN places : places[k] = i) <=> i < iter'.pos
  BY <1>5, <1>7, <1>8
<1> HIDE DEF places
<1> QED BY <1>4, <1>6, <1>7, <1>9 DEF FirstRun, StackPlaces, RootRun

\* The iterator moves on over the elements of the root.
LEMMA FirstRunStep ==
  ASSUME TypeOK, MarksReachable, pc = "mark", VisitPrim \/ Visits,
         NEW places \in [2 .. Len(recycle_stack) -> ContainerPlaces(root)],
         StackPlaces(places), RootRun(places)
  PROVE  FirstRun'
<1> DEFINE n == Len(recycle_stack)
           p == iter.pos
<1>1. /\ UNCHANGED <<root, elems>> /\ p <= Len(elems[root])
      /\ iter.container = root
  BY DEF VisitPrim, Visits, AtEnd, Current, Running, heap, table, RootRun,
     MarksReachable, TypeOK
<1>2. iter'.container = root' /\ iter'.pos = p + 1
  BY <1>1, AdvanceType DEF VisitPrim, Visits
<1>3. /\ recycle_stack \in Seq(Vectors) /\ n \in Nat \ {0}
      /\ p \in Nat \ {0} /\ root \in Vectors
  BY <1>1, StackFacts DEF MarksReachable
<1>4. /\ DOMAIN elems[root] = 1 .. Len(elems[root]) /\ Len(elems[root]) \in Nat
      /\ p \in DOMAIN elems[root] /\ Element = elems[root][p]
  BY <1>1, <1>3, PlaceFacts DEF Element, Current
<1>5. ContainerPlaces(root) \subseteq Nat
      /\ ContainerPlaces(root)' = ContainerPlaces(root)
  BY <1>1, <1>4, FlatKept DEF ContainerPlaces
<1>6. /\ \A k \in 2 .. n : recycle_stack[k] = elems[root][places[k]]
      /\ \A k, l \in 2 .. n : k < l => places[k] < places[l]
      /\ \A i \in ContainerPlaces(root) : (\E k \in 2 .. n : places[k] = i) <=> i < p
  BY DEF StackPlaces, RootRun
<1>7. \A i \in ContainerPlaces(root) : i < p + 1 <=> i < p \/ i = p
  BY <1>3, <1>5
<1>8. CASE Element \in Vectors
  <2>1. p \in ContainerPlaces(root)
    BY <1>4, <1>8 DEF ContainerPlaces
  <2>2. recycle_stack' = Append(recycle_stack, Element)
    BY <1>8, HeapAssumption DEF VisitPrim, Visits, Pushed, Objects
  <2>3. /\ Len(recycle_stack') = n + 1 /\ recycle_stack'[n + 1] = Element
        /\ \A k \in 1 .. n : recycle_stack'[k] = recycle_stack[k]
    BY <1>3, <1>8, <2>2, AppendProperties
  <2>4. \A k \in 2 .. n + 1 : k \in 2 .. n \/ k = n + 1
    BY <1>3
  <2>5. n + 1 \in 2 .. n + 1 /\ n + 1 \notin 2 .. n /\ 2 .. n \subseteq 2 .. n + 1
    BY <1>3
  <2>6. \A k \in 2 .. n : places[k] \in ContainerPlaces(root)
    OBVIOUS
  <2>7. PICK more \in [2 .. n + 1 -> ContainerPlaces(root)] :
           more[n + 1] = p /\ \A k \in 2 .. n : more[k] = places[k]
    <3> DEFINE f == [k \in 2 .. n + 1 |-> IF k = n + 1 THEN p ELSE places[k]]
    <3>1. f \in [2 .. n + 1 -> ContainerPlaces(root)]
      BY <2>1, <2>4, <2>6
    <3>2. f[n + 1] = p /\ \A k \in 2 .. n : f[k] = places[k]
      BY <2>5
    <3> QED BY <3>1, <3>2
  <2>8. /\ more[n + 1] = p /\ \A k \in 2 .. n : more[k] = places[k]
        /\ DOMAIN more = 2 .. n + 1
    BY <2>7
  <2>9. \A k \in 2 .. n : places[k] < p
    BY <1>6, <2>6
  <2>10. \A k \in 2 .. n + 1 : recycle_stack'[k] = elems[root][more[k]]
    BY <1>3, <1>4, <1>6, <2>3, <2>4, <2>8
  <2>11. ASSUME NEW k \in 2 .. n + 1, NEW l \in 2 .. n + 1, k < l
         PROVE  more[k] < more[l]
    <3>1. k \in 2 .. n
      BY <1>3, <2>4, <2>11
    <3> QED BY <1>6, <2>4, <2>8, <2>9, <2>11, <3>1
  <2>12. \A i \in ContainerPlaces(root) :
            (\E k \in 2 .. n + 1 : more[k] = i) <=> i < p + 1
    <3>1. \A i \in ContainerPlaces(root) :
             (\E k \in 2 .. n + 1 : more[k] = i)
               <=> ((\E k \in 2 .. n : places[k] = i) \/ i = p)
      BY <2>4, <2>5, <2>8
    <3> QED BY <1>6, <1>7, <3>1
  <2>13. StackPlaces(more)'
    BY <1>1, <2>8, <2>10, <2>11 DEF StackPlaces
  <2>14. RootRun(more)'
    <3>1. \A i \in ContainerPlaces(root)' :
             (\E k \in DOMAIN more : more[k] = i) <=> i < iter'.pos
      BY <1>2, <1>5, <2>8, <2>12
    <3> QED BY <1>2, <3>1 DEF RootRun
  <2> QED BY <1>5, <2>3, <2>7, <2>13, <2>14 DEF FirstRun
<1>9. CASE Element \notin Vectors
  <2>1. recycle_stack' = recycle_stack
    BY <1>9 DEF VisitPrim, Visits, Pushed
  <2>2. p \notin ContainerPlaces(root)
    BY <1>4, <1>9 DEF ContainerPlaces
  <2>3. StackPlaces(places)'
    BY <1>1, <2>1 DEF StackPlaces
  <2>4. \A i \in ContainerPlaces(root) :
           (\E k \in DOMAIN places : places[k] = i) <=> i < p + 1
    BY <1>6, <1>7, <2>2
  <2>5. RootRun(places)'
    BY <1>2, <1>5, <2>4 DEF RootRun
  <2> QED BY <1>5, <2>1, <2>3, <2>5 DEF FirstRun
<1> QED BY <1>8, <1>9

\* On a flat heap that is where the walk is.
LEMMA FirstRunFlat == FirstRun' => FlatWalk'
BY DEF FirstRun, FlatWalk

\* The iterator moves on over the elements of one of the root's containers.
LEMMA FlatWalkChild ==
  ASSUME TypeOK, MarksReachable, pc = "mark", VisitPrim \/ Visits, FlatHeap,
         NEW places \in [2 .. Len(recycle_stack) -> ContainerPlaces(root)],
         StackPlaces(places), ChildRun(places, Len(recycle_stack))
  PROVE  FlatWalk'
<1> DEFINE n == Len(recycle_stack)
           p == iter.pos
           c == iter.container
<1>1. /\ UNCHANGED <<root, elems, managed, gc_id>> /\ p <= Len(elems[c])
      /\ inuse_flags \subseteq inuse_flags'
  BY DEF VisitPrim, Visits, AtEnd, Current, Running, heap, table, MarksReachable,
     TypeOK
<1>2. iter'.container = c /\ iter'.pos = p + 1
  BY <1>1, AdvanceType DEF VisitPrim, Visits
<1>3. n \in Nat \ {0} /\ p \in Nat \ {0} /\ c \in Vectors
  BY <1>1, StackFacts DEF MarksReachable
<1>4. /\ DOMAIN elems[c] = 1 .. Len(elems[c]) /\ Len(elems[c]) \in Nat
      /\ p \in DOMAIN elems[c] /\ Element = elems[c][p]
  BY <1>1, <1>3, PlaceFacts DEF Element, Current
<1>5. /\ n >= 2 /\ NotLast(places[n]) /\ c = elems[root][places[n]]
      /\ \A i \in ContainerPlaces(root) :
            i <= places[n] => \E k \in DOMAIN places : places[k] = i
      /\ \A i \in ContainerPlaces(root) :
            i > places[n] /\ NotLast(i) => PlaceMarked(i)
      /\ \A k \in DOMAIN elems[c] :
            k < p /\ elems[c][k] \in managed => gc_id[elems[c][k]] \in inuse_flags
  BY DEF ChildRun
<1>6. ContainerPlaces(c) = {}
  BY <1>3, <1>5 DEF FlatHeap
<1>7. recycle_stack' = recycle_stack
  <2>1. Element \notin Vectors
    BY <1>4, <1>6 DEF ContainerPlaces
  <2> QED BY <2>1 DEF VisitPrim, Visits, Pushed
<1>8. StackPlaces(places)'
  BY <1>1, <1>7 DEF StackPlaces
<1>9. \A i : PlaceMarked(i) => PlaceMarked(i)'
  BY <1>1 DEF PlaceMarked, Children
<1>10. Element \in managed => gc_id[Element] \in inuse_flags'
  BY HeapAssumption DEF VisitPrim, Visits, TypeOK
<1>11. ASSUME NEW k \in DOMAIN elems[c], k < p + 1, elems[c][k] \in managed
       PROVE  gc_id[elems[c][k]] \in inuse_flags'
  <2>1. k < p \/ k = p
    BY <1>3, <1>4, <1>11
  <2> QED BY <1>1, <1>4, <1>5, <1>10, <1>11, <2>1
<1>12. ChildRun(places, Len(recycle_stack))'
  <2>1. /\ Len(recycle_stack') = n /\ elems' = elems /\ root' = root
        /\ ContainerPlaces(root)' = ContainerPlaces(root)
        /\ \A i : NotLast(i)' <=> NotLast(i)
    BY <1>1, <1>7, FlatKept
  <2>2. \A k \in DOMAIN elems'[iter'.container] :
           k < iter'.pos /\ elems'[iter'.container][k] \in managed'
             => gc_id'[elems'[iter'.container][k]] \in inuse_flags'
    BY <1>1, <1>2, <1>11
  <2>3. \A i \in ContainerPlaces(root)' :
           i > places[n] /\ NotLast(i)' => PlaceMarked(i)'
    BY <1>5, <1>9, <2>1
  <2> QED BY <1>2, <1>5, <2>1, <2>2, <2>3 DEF ChildRun
<1> QED BY <1>1, <1>7, <1>8, <1>12, FlatKept DEF FlatWalk

\* The next container is the one before in the root.
LEMMA FlatWalkPops ==
  ASSUME TypeOK, MarksReachable, FlatWalk, FlatHeap, PopsToNext
  PROVE  FlatWalk'
<1> DEFINE n == Len(recycle_stack)
           m == n - 1
<1>1. /\ pc = "mark" /\ UNCHANGED <<root, elems, managed, gc_id>>
      /\ inuse_flags \subseteq inuse_flags' /\ iter.pos > Len(elems[Current])
      /\ recycle_stack' = Front(recycle_stack)
      /\ iter' = Start(Last(Front(recycle_stack)))
  BY DEF PopsToNext, heap, table
<1>2. /\ Last(Front(recycle_stack)) = recycle_stack[m] /\ n \in Nat /\ n >= 3
      /\ Len(recycle_stack') = m /\ recycle_stack[m] \in Vectors
      /\ \A k \in 1 .. m : recycle_stack'[k] = recycle_stack[k]
  <2>1. recycle_stack \in Seq(Vectors) /\ recycle_stack # <<>> /\ n \in Nat
    BY <1>1, StackFacts DEF MarksReachable
  <2> QED BY <1>1, <2>1, PoppedTop, FrontFacts DEF PopsToNext
<1>3. PICK places \in [2 .. n -> ContainerPlaces(root)] :
         /\ StackPlaces(places)
         /\ \A i \in ContainerPlaces(root) :
               i <= places[n] => \E k \in DOMAIN places : places[k] = i
         /\ \A i \in ContainerPlaces(root) :
               i >= places[n] /\ NotLast(i) => PlaceMarked(i)
  BY <1>1, RunOver
<1>4. PICK less \in [2 .. m -> ContainerPlaces(root)] :
         DOMAIN less = 2 .. m /\ \A k \in 2 .. m : less[k] = places[k]
  <2> DEFINE f == [k \in 2 .. m |-> places[k]]
  <2>1. /\ f \in [2 .. m -> ContainerPlaces(root)] /\ DOMAIN f = 2 .. m
        /\ \A k \in 2 .. m : f[k] = places[k]
    BY <1>2
  <2> QED BY <2>1
<1>5. ContainerPlaces(root) \subseteq Nat
  <2>1. root \in Vectors
    BY <1>1 DEF MarksReachable, TypeOK
  <2>2. DOMAIN elems[root] \subseteq Nat
    BY <2>1, PlaceFacts
  <2> QED BY <2>2 DEF ContainerPlaces
<1>6. /\ m \in 2 .. n /\ n \in 2 .. n /\ m < n /\ 2 .. m \subseteq 2 .. n
      /\ 2 .. m \subseteq 1 .. m /\ m \in 2 .. m /\ m >= 2
      /\ \A k \in 2 .. n : k \in 2 .. m \/ k = n
  BY <1>2
<1>7. /\ \A k \in 2 .. n : recycle_stack[k] = elems[root][places[k]]
      /\ \A k, l \in 2 .. n : k < l => places[k] < places[l]
      /\ \A k \in 2 .. n : places[k] \in ContainerPlaces(root) /\ places[k] \in Nat
  BY <1>3, <1>5 DEF StackPlaces
<1>8. StackPlaces(less)'
  <2>1. \A k \in 2 .. m : recycle_stack'[k] = elems[root][less[k]]
    BY <1>2, <1>4, <1>6, <1>7
  <2>2. \A k, l \in 2 .. m : k < l => less[k] < less[l]
    BY <1>4, <1>6, <1>7
  <2> QED BY <1>1, <1>4, <2>1, <2>2 DEF StackPlaces
<1>9. places[m] < places[n]
  BY <1>6, <1>7
<1>10. NotLast(less[m])
  BY <1>4, <1>6, <1>7, <1>9 DEF NotLast
<1>11. iter'.container = elems[root][less[m]] /\ iter'.pos = 1
  BY <1>1, <1>2, <1>4, <1>6, <1>7 DEF Start
<1>12. ASSUME NEW i \in ContainerPlaces(root), i <= less[m]
       PROVE  \E k \in 2 .. m : less[k] = i
  <2>1. i < places[n] /\ i <= places[n]
    BY <1>4, <1>5, <1>6, <1>7, <1>9, <1>12
  <2>2. PICK k \in 2 .. n : places[k] = i
    BY <1>3, <2>1
  <2> QED BY <1>4, <1>6, <1>7, <2>1, <2>2
<1>13. ASSUME NEW i \in ContainerPlaces(root), i > less[m], NotLast(i)
       PROVE  PlaceMarked(i)
  <2>1. CASE i >= places[n]
    BY <1>3, <1>13, <2>1
  <2>2. CASE ~ i >= places[n]
    <3>1. i <= places[n] /\ i < places[n]
      BY <1>5, <1>6, <1>7, <2>2
    <3>2. PICK k \in 2 .. n : places[k] = i
      BY <1>3, <3>1
    <3>3. k \in 2 .. m
      BY <1>6, <1>7, <3>1, <3>2
    <3>4. k < m \/ k = m
      BY <1>2, <3>3
    <3>5. places[k] < places[m] \/ places[k] = places[m]
      BY <1>6, <1>7, <3>4, <3>2
    <3> QED BY <1>4, <1>6, <1>7, <1>13, <3>2, <3>5
  <2> QED BY <2>1, <2>2
<1>14. \A i : PlaceMarked(i) => PlaceMarked(i)'
  BY <1>1 DEF PlaceMarked, Children
<1>15. \A k \in DOMAIN elems[iter'.container] : ~ k < 1
  BY <1>1, <1>2, PlaceFacts DEF Start
<1>16. ChildRun(less, Len(recycle_stack))'
  <2>1. /\ Len(recycle_stack') = m /\ elems' = elems /\ root' = root
        /\ ContainerPlaces(root)' = ContainerPlaces(root)
        /\ \A i : NotLast(i)' <=> NotLast(i)
    BY <1>1, <1>2, FlatKept
  <2>2. \A k \in DOMAIN elems'[iter'.container] : ~ k < iter'.pos
    BY <1>1, <1>11, <1>15
  <2>3. \A i \in ContainerPlaces(root)' :
           i > less[m] /\ NotLast(i)' => PlaceMarked(i)'
    BY <1>13, <1>14, <2>1
  <2>4. /\ \A i \in ContainerPlaces(root)' :
              i <= less[m] => \E k \in DOMAIN less : less[k] = i
    BY <1>4, <1>12, <2>1
  <2> QED BY <1>6, <1>10, <1>11, <2>1, <2>2, <2>3, <2>4 DEF ChildRun
<1> QED BY <1>1, <1>2, <1>4, <1>8, <1>16, FlatKept DEF FlatWalk

LEMMA FlatWalkStep ==
  ASSUME TypeOK, MarksReachable, FlatWalk, StepCase
  PROVE  FlatWalk'
<1> SUFFICES ASSUME pc' = "mark", FlatHeap' PROVE FlatWalk'
  BY DEF FlatWalk
<1>1. CASE Still
  <2>1. UNCHANGED <<root, elems, managed, gc_id, inuse_flags, recycle_stack, iter, pc>>
    BY <1>1 DEF Still, heap, table, walk
  <2>2. FlatHeap /\ pc = "mark"
    BY <2>1, FlatKept
  <2>3. PICK places \in [2 .. Len(recycle_stack) -> ContainerPlaces(root)] :
          StackPlaces(places)
            /\ (RootRun(places) \/ ChildRun(places, Len(recycle_stack)))
    BY <2>2 DEF FlatWalk
  <2>4. StackPlaces(places)'
    BY <2>1, <2>3 DEF StackPlaces
  <2>5. RootRun(places) => RootRun(places)'
    BY <2>1, FlatKept DEF RootRun
  <2>6. ChildRun(places, Len(recycle_stack)) => ChildRun(places, Len(recycle_stack))'
    <3>1. \A i : PlaceMarked(i)' <=> PlaceMarked(i)
      BY <2>1 DEF PlaceMarked, Children
    <3> QED BY <2>1, <3>1, FlatKept DEF ChildRun
  <2> QED BY <2>1, <2>3, <2>4, <2>5, <2>6, FlatKept DEF FlatWalk
<1>2. CASE \E o \in Objects \cup {NoObj} : Starts(root, o) /\ root # NoObj
  BY <1>2, FirstRunStarts, FirstRunFlat DEF Starts, heap, TypeOK
<1>3. CASE VisitPrim \/ Visits
  <2>1. pc = "mark" /\ UNCHANGED <<root, elems>>
    BY <1>3 DEF VisitPrim, Visits, Running, heap, table
  <2>2. FlatHeap
    BY <2>1, FlatKept
  <2>3. PICK places \in [2 .. Len(recycle_stack) -> ContainerPlaces(root)] :
          StackPlaces(places)
            /\ (RootRun(places) \/ ChildRun(places, Len(recycle_stack)))
    BY <2>1, <2>2 DEF FlatWalk
  <2> QED BY <1>3, <2>1, <2>2, <2>3, FirstRunStep, FirstRunFlat, FlatWalkChild
<1>4. CASE PopsToNext
  <2>1. FlatHeap
    BY <1>4, FlatKept DEF PopsToNext, heap, table
  <2> QED BY <1>4, <2>1, FlatWalkPops
<1> QED BY <1>1, <1>2, <1>3, <1>4, MarkingSteps

-----------------------------------------------------------------------------
(***************************************************************************)
(* Heaps that are not flat: the sweep does not begin.                      *)
(***************************************************************************)
LEMMA RootAloneStep ==
  ASSUME TypeOK, MarksReachable, RootAlone, StepCase
  PROVE  RootAlone'
<1> SUFFICES ASSUME pc' = "mark", ContainerPlaces(root)' = {}
             PROVE  Len(recycle_stack') = 1 /\ iter'.container = root'
  BY DEF RootAlone
<1>1. CASE Still
  <2>1. UNCHANGED <<root, elems, recycle_stack, iter, pc>>
    BY <1>1 DEF Still, heap, table, walk
  <2> QED BY <2>1, FlatKept DEF RootAlone
<1>2. CASE \E o \in Objects \cup {NoObj} : Starts(root, o) /\ root # NoObj
  BY <1>2 DEF Starts, Start
<1>3. CASE VisitPrim \/ Visits
  <2>1. pc = "mark" /\ UNCHANGED <<root, elems>>
    BY <1>3 DEF VisitPrim, Visits, Running, heap, table
  <2>2. /\ ContainerPlaces(root) = {} /\ Len(recycle_stack) = 1
        /\ iter.container = root /\ root \in Vectors
    BY <2>1, FlatKept DEF RootAlone, MarksReachable
  <2>3. iter'.container = root
    BY <1>3, <2>2, AdvanceType DEF VisitPrim, Visits
  <2>4. iter.pos \in DOMAIN elems[root]
    BY <1>3, <2>1, <2>2, PlaceFacts
       DEF VisitPrim, Visits, AtEnd, Current, MarksReachable
  <2>5. Element \notin Vectors
    BY <2>2, <2>4 DEF Element, Current, ContainerPlaces
  <2>6. recycle_stack' = recycle_stack
    BY <1>3, <2>5 DEF VisitPrim, Visits, Pushed
  <2> QED BY <2>1, <2>2, <2>3, <2>6
<1>4. CASE PopsToNext
  <2>1. UNCHANGED <<root, elems>>
    BY <1>4 DEF PopsToNext, heap, table
  <2>2. Len(recycle_stack) = 1
    BY <1>4, <2>1, FlatKept DEF RootAlone, PopsToNext
  <2> QED BY <1>4, <2>2, PoppedTop DEF PopsToNext
<1> QED BY <1>1, <1>2, <1>3, <1>4, MarkingSteps

\* What is anchored stays so when the iterator moves on.
LEMMA AnchorVisits ==
  ASSUME TypeOK, MarksReachable, pc = "mark", VisitPrim \/ Visits,
         NEW j \in 2 .. Len(recycle_stack), Anchored(j)
  PROVE  \E i \in 2 .. Len(recycle_stack') : Anchored(i)'
<1> DEFINE n == Len(recycle_stack)
           p == iter.pos
           c == iter.container
<1>1. UNCHANGED <<root, elems>> /\ p <= Len(elems[c])
  BY DEF VisitPrim, Visits, AtEnd, Current, Running, heap, table, MarksReachable,
     TypeOK
<1>2. iter'.container = c /\ iter'.pos = p + 1
  BY AdvanceType DEF VisitPrim, Visits
<1>3. /\ recycle_stack \in Seq(Vectors) /\ n \in Nat \ {0}
      /\ p \in Nat \ {0} /\ c \in Vectors
  BY StackFacts DEF MarksReachable
<1>4. /\ DOMAIN elems[c] = 1 .. Len(elems[c]) /\ Len(elems[c]) \in Nat
      /\ p \in DOMAIN elems[c] /\ Element = elems[c][p]
  BY <1>1, <1>3, PlaceFacts DEF Element, Current
<1>5. \A v : ContainerPlaces(v)' = ContainerPlaces(v)
  BY <1>1, FlatKept
<1>6. CASE Element \in Vectors
  <2>1. recycle_stack' = Append(recycle_stack, Element)
    BY <1>6, HeapAssumption DEF VisitPrim, Visits, Pushed, Objects
  <2>2. Len(recycle_stack') = n + 1 /\ recycle_stack'[j] = recycle_stack[j]
    BY <1>3, <1>6, <2>1, AppendProperties
  <2>3. j \in 2 .. Len(recycle_stack') /\ j < Len(recycle_stack')
    BY <1>3, <2>2
  <2>4. ContainerPlaces(recycle_stack[j])' # {}
    BY <1>1, <2>2 DEF Anchored, ContainerPlaces
  <2>5. Anchored(j)'
    BY <2>3, <2>4 DEF Anchored
  <2> QED BY <2>3, <2>5
<1>7. CASE Element \notin Vectors
  <2>1. recycle_stack' = recycle_stack
    BY <1>7 DEF VisitPrim, Visits, Pushed
  <2>2. p \notin ContainerPlaces(c) /\ ContainerPlaces(c) \subseteq Nat
    BY <1>4, <1>7 DEF ContainerPlaces
  <2>3. \A k \in ContainerPlaces(c) : p <= k => p + 1 <= k
    BY <1>3, <2>2
  <2>4. Anchored(j)'
    BY <1>2, <1>5, <2>1, <2>3 DEF Anchored
  <2> QED BY <2>1, <2>4
<1> QED BY <1>6, <1>7

\* At the end of a container an entry that is anchored is not on top.
LEMMA AnchorBelowTop ==
  ASSUME TypeOK, MarksReachable, pc = "mark", iter.pos > Len(elems[Current]),
         NEW j \in 2 .. Len(recycle_stack), Anchored(j)
  PROVE  j < Len(recycle_stack)
<1>1. SUFFICES ASSUME iter.container = recycle_stack[j],
                      \A k \in ContainerPlaces(iter.container) : iter.pos <= k
               PROVE  FALSE
  BY DEF Anchored
<1>2. PICK k \in ContainerPlaces(iter.container) : TRUE
  BY <1>1 DEF Anchored
<1>3. iter.container \in Vectors /\ iter.pos \in Nat
  BY DEF MarksReachable
<1>4. k \in 1 .. Len(elems[iter.container]) /\ Len(elems[iter.container]) \in Nat
  BY <1>3, PlaceFacts DEF ContainerPlaces
<1> QED BY <1>1, <1>2, <1>3, <1>4 DEF Current

\* On a heap that is not flat, the first run leaves a container that holds
\* another below the top.
LEMMA NestedBelowTop ==
  ASSUME TypeOK, MarksReachable, pc = "mark", iter.pos > Len(elems[Current]),
         ContainerPlaces(root) # {}, ~ FlatHeap, FirstRun
  PROVE  \E j \in 2 .. Len(recycle_stack) :
           /\ ContainerPlaces(recycle_stack[j]) # {} /\ j < Len(recycle_stack)
<1> DEFINE n == Len(recycle_stack)
<1>1. PICK places \in [2 .. n -> ContainerPlaces(root)] :
        StackPlaces(places) /\ RootRun(places)
  BY DEF FirstRun
<1>2. PICK i \in ContainerPlaces(root), l \in ContainerPlaces(root) :
        i < l /\ ContainerPlaces(elems[root][i]) # {}
  BY DEF FlatHeap, NotLast
<1>3. iter.container = root /\ root \in Vectors /\ iter.pos \in Nat /\ n \in Nat
  BY <1>1, StackFacts DEF RootRun, MarksReachable
<1>4. /\ DOMAIN elems[root] = 1 .. Len(elems[root]) /\ Len(elems[root]) \in Nat
      /\ ContainerPlaces(root) \subseteq DOMAIN elems[root]
  BY <1>3, PlaceFacts DEF ContainerPlaces
<1>5. i < iter.pos /\ l < iter.pos
  BY <1>3, <1>4 DEF Current
<1>6. PICK j \in 2 .. n : places[j] = i
  BY <1>1, <1>5 DEF RootRun
<1>7. PICK m \in 2 .. n : places[m] = l
  BY <1>1, <1>5 DEF RootRun
<1>8. recycle_stack[j] = elems[root][i]
  BY <1>1, <1>6 DEF StackPlaces
<1>9. j < m
  <2>1. m < j => l < i
    BY <1>1, <1>6, <1>7 DEF StackPlaces
  <2>2. i \in Nat /\ l \in Nat
    BY <1>4
  <2> QED BY <1>2, <1>6, <1>7, <2>1, <2>2
<1>10. j < n
  BY <1>3, <1>9
<1> QED BY <1>2, <1>8, <1>10

\* So at the end of a container something anchored is left below the top.
LEMMA NestedAtEnd ==
  ASSUME TypeOK, MarksReachable, NestedHeld, pc = "mark",
         iter.pos > Len(elems[Current]), ContainerPlaces(root) # {}, ~ FlatHeap
  PROVE  \E j \in 2 .. Len(recycle_stack) :
           /\ ContainerPlaces(recycle_stack[j]) # {} /\ j < Len(recycle_stack)
<1>1. CASE FirstRun
  BY <1>1, NestedBelowTop
<1>2. ASSUME NEW j \in 2 .. Len(recycle_stack), Anchored(j)
      PROVE  ContainerPlaces(recycle_stack[j]) # {} /\ j < Len(recycle_stack)
  <2>1. j < Len(recycle_stack)
    BY <1>2, AnchorBelowTop
  <2> QED BY <1>2, <2>1 DEF Anchored
<1> QED BY <1>1, <1>2 DEF NestedHeld

LEMMA NestedStep ==
  ASSUME TypeOK, MarksReachable, NestedHeld, StepCase
  PROVE  NestedHeld'
<1> SUFFICES ASSUME pc' = "mark", ContainerPlaces(root)' # {}, ~ FlatHeap'
             PROVE  FirstRun' \/ \E j \in 2 .. Len(recycle_stack') : Anchored(j)'
  BY DEF NestedHeld
<1>1. CASE Still
  <2>1. UNCHANGED <<root, elems, recycle_stack, iter, pc>>
    BY <1>1 DEF Still, heap, table, walk
  <2>2. FirstRun' <=> FirstRun
    BY <2>1, FlatKept DEF FirstRun, StackPlaces, RootRun
  <2>3. \A j : Anchored(j)' <=> Anchored(j)
    BY <2>1, FlatKept DEF Anchored
  <2> QED BY <2>1, <2>2, <2>3, FlatKept DEF NestedHeld
<1>2. CASE \E o \in Objects \cup {NoObj} : Starts(root, o) /\ root # NoObj
  BY <1>2, FirstRunStarts DEF Starts, heap, TypeOK
<1>3. CASE VisitPrim \/ Visits
  <2>1. pc = "mark" /\ UNCHANGED <<root, elems>>
    BY <1>3 DEF VisitPrim, Visits, Running, heap, table
  <2>2. FirstRun \/ \E j \in 2 .. Len(recycle_stack) : Anchored(j)
    BY <2>1, FlatKept DEF NestedHeld
  <2>3. CASE FirstRun
    BY <1>3, <2>1, <2>3, FirstRunStep DEF FirstRun
  <2> QED BY <1>3, <2>1, <2>2, <2>3, AnchorVisits
<1>4. CASE PopsToNext
  <2>1. /\ pc = "mark" /\ UNCHANGED <<root, elems>>
        /\ iter.pos > Len(elems[Current])
        /\ recycle_stack' = Front(recycle_stack)
        /\ iter' = Start(Last(Front(recycle_stack)))
    BY <1>4 DEF PopsToNext, heap, table
  <2>2. PICK j \in 2 .. Len(recycle_stack) :
          ContainerPlaces(recycle_stack[j]) # {} /\ j < Len(recycle_stack)
    BY <2>1, FlatKept, NestedAtEnd
  <2>3. recycle_stack \in Seq(Vectors) /\ recycle_stack # <<>>
        /\ Len(recycle_stack) \in Nat
    BY <2>1, StackFacts DEF MarksReachable
  <2>4. /\ Len(recycle_stack') = Len(recycle_stack) - 1
        /\ recycle_stack'[j] = recycle_stack[j]
    BY <2>1, <2>2, <2>3, FrontFacts
  <2>5. j \in 2 .. Len(recycle_stack')
    BY <2>2, <2>3, <2>4
  <2>6. ContainerPlaces(recycle_stack[j])' # {}
    BY <2>1, <2>2, <2>4 DEF ContainerPlaces
  <2>7. CASE j < Len(recycle_stack')
    BY <2>5, <2>6, <2>7 DEF Anchored
  <2>8. CASE ~ j < Len(recycle_stack')
    <3>1. j = Len(recycle_stack) - 1
      BY <2>3, <2>4, <2>5, <2>8
    <3>2. Last(Front(recycle_stack)) = recycle_stack[j]
      BY <1>4, <2>1, <3>1, PoppedTop DEF PopsToNext
    <3>3. iter'.container = recycle_stack'[j] /\ iter'.pos = 1
      BY <2>1, <2>4, <3>2 DEF Start
    <3>4. recycle_stack[j] \in Vectors
      BY <2>2, <2>3
    <3>5. \A k \in ContainerPlaces(recycle_stack[j]) : 1 <= k
      BY <3>4, PlaceFacts DEF ContainerPlaces
    <3>6. \A k \in ContainerPlaces(iter.container)' : iter'.pos <= k
      BY <2>1, <2>4, <3>3, <3>5 DEF ContainerPlaces
    <3>7. Anchored(j)'
      BY <2>6, <3>3, <3>6 DEF Anchored
    <3> QED BY <2>5, <3>7
  <2> QED BY <2>7, <2>8
<1> QED BY <1>1, <1>2, <1>3, <1>4, MarkingSteps

\* The last pop leaves the root alone on the stack.
LEMMA SweptFlatStep ==
  ASSUME TypeOK, MarksReachable, RootAlone, NestedHeld, FlatHeapMarks, StepCase
  PROVE  pc' = "sweep" /\ root' # NoObj => FlatHeap'
<1> SUFFICES ASSUME pc' = "sweep", root' # NoObj PROVE FlatHeap'
  OBVIOUS
<1>1. CASE SweepKeep \/ Still \/ \E p \in Objects : Frees(p)
  <2>1. UNCHANGED <<root, elems, pc>>
    BY <1>1 DEF SweepKeep, Still, Frees, heap, table, walk, ctl
  <2> QED BY <2>1, FlatKept DEF FlatHeapMarks
<1>2. CASE PopsToSweep
  <2>1. /\ pc = "mark" /\ UNCHANGED <<root, elems>>
        /\ iter.pos > Len(elems[Current]) /\ Len(Front(recycle_stack)) = 1
    BY <1>2 DEF PopsToSweep, heap, table
  <2>2. Len(recycle_stack) = 2
    BY <2>1, TwoEntries
  <2>3. ContainerPlaces(root) # {}
    BY <2>1, <2>2 DEF RootAlone
  <2>4. FlatHeap
    <3>1. SUFFICES ASSUME ~ FlatHeap PROVE FALSE
      OBVIOUS
    <3>2. PICK j \in 2 .. Len(recycle_stack) : j < Len(recycle_stack)
      BY <2>1, <2>3, <3>1, NestedAtEnd
    <3> QED BY <2>2, <3>2
  <2> QED BY <2>1, <2>4, FlatKept
<1>3. CASE \/ GivesUp \/ Ends \/ VisitPrim \/ Visits \/ PopsToNext
           \/ \E r \in Vectors \cup {NoObj}, o \in Objects \cup {NoObj} : Starts(r, o)
  BY <1>3 DEF GivesUp, Ends, Starts, VisitPrim, Visits, PopsToNext, Running, ctl
<1>4. CASE \/ \E o \in Objects : NewUnmanaged(o) \/ DeleteUnmanaged(o) \/ GcNew(o)
           \/ \E v \in Vectors, x \in Objects \cup Prims : Writes(v, x)
  BY <1>4 DEF NewUnmanaged, DeleteUnmanaged, GcNew, Writes, Running, ctl
<1>5. CASE \E o \in Objects : Attaches(o)
  BY <1>5 DEF Attaches, AttachFree, AttachEnlarged, Occupy
<1> QED BY <1>1, <1>2, <1>3, <1>4, <1>5 DEF StepCase

\* And whatever else the family has is marked.
LEMMA FlatMarksStep ==
  ASSUME IInv, StepCase, FlatSound', RootFamilyMarked', MarksReachable',
         SlotsMatchObjects', TypeOK'
  PROVE  FlatHeapMarks'
<1> USE DEF IInv
<1> SUFFICES ASSUME pc' = "sweep", root' # NoObj, FlatHeap'
             PROVE  \A o \in FlatFamily' \cap managed' : gc_id'[o] \in inuse_flags'
  <2>1. pc' = "sweep" /\ root' # NoObj => FlatHeap'
    BY SweptFlatStep
  <2> QED BY <2>1 DEF FlatHeapMarks, FlatSound
<1>1. CASE SweepKeep \/ Still
  <2>1. UNCHANGED <<root, elems, managed, gc_id, inuse_flags, pc>>
    BY <1>1 DEF SweepKeep, Still, heap, table, walk, ctl
  <2>2. FlatHeap /\ FlatFamily' = FlatFamily
    BY <2>1, FlatKept
  <2> QED BY <2>1, <2>2 DEF FlatHeapMarks
<1>2. ASSUME NEW p \in Objects, Frees(p)
      PROVE  \A o \in FlatFamily' \cap managed' : gc_id'[o] \in inuse_flags'
  <2>1. UNCHANGED <<root, elems, inuse_flags>> /\ pc = "sweep"
    BY <1>2 DEF Frees
  <2>2. managed' = managed \ {p} /\ \A o \in managed' : gc_id'[o] = gc_id[o]
    BY <1>2 DEF Frees, TypeOK
  <2>3. FlatHeap /\ FlatFamily' = FlatFamily
    BY <2>1, FlatKept
  <2> QED BY <2>1, <2>2, <2>3 DEF FlatHeapMarks
<1>3. CASE PopsToSweep
  <2>1. /\ pc = "mark" /\ UNCHANGED <<root, elems, managed, gc_id>>
        /\ inuse_flags \subseteq inuse_flags'
        /\ iter.pos > Len(elems[Current]) /\ Len(Front(recycle_stack)) = 1
    BY <1>3 DEF PopsToSweep, heap, table
  <2>2. FlatHeap /\ FlatFamily' = FlatFamily
    BY <2>1, FlatKept
  <2>3. PICK places \in [2 .. Len(recycle_stack) -> ContainerPlaces(root)] :
           LET top == Len(recycle_stack) IN
           /\ StackPlaces(places) /\ top >= 2
           /\ \A i \in ContainerPlaces(root) :
                 i <= places[top] => \E k \in DOMAIN places : places[k] = i
           /\ \A i \in ContainerPlaces(root) :
                 i >= places[top] /\ NotLast(i) => PlaceMarked(i)
    BY <2>1, <2>2, RunOver
  <2>4. Len(recycle_stack) = 2
    BY <2>1, TwoEntries
  <2>5. \A k \in DOMAIN places : k = 2
    BY <2>3, <2>4
  <2>6. ContainerPlaces(root) \subseteq Nat /\ places[2] \in ContainerPlaces(root)
    <3>1. root \in Vectors
      BY <2>1 DEF MarksReachable, TypeOK
    <3>2. DOMAIN elems[root] \subseteq Nat
      BY <3>1, PlaceFacts
    <3> QED BY <2>3, <2>4, <3>2 DEF ContainerPlaces
  <2>7. ASSUME NEW i \in ContainerPlaces(root), NotLast(i) PROVE PlaceMarked(i)
    <3>1. i <= places[2] => i = places[2]
      BY <2>3, <2>4, <2>5
    <3>2. i >= places[2]
      BY <2>6, <3>1
    <3> QED BY <2>3, <2>4, <2>7, <3>2
  <2>8. Children(root)' \cap managed' \subseteq {o \in managed' : gc_id'[o] \in inuse_flags'}
    BY DEF RootFamilyMarked
  <2>9. root \in managed => gc_id[root] \in inuse_flags'
    BY <1>3 DEF PopsToSweep
  <2> QED BY <2>1, <2>2, <2>7, <2>8, <2>9, FlatKept DEF FlatFamily, PlaceMarked
<1>4. CASE \/ GivesUp \/ Ends \/ VisitPrim \/ Visits \/ PopsToNext
           \/ \E r \in Vectors \cup {NoObj}, o \in Objects \cup {NoObj} : Starts(r, o)
  BY <1>4 DEF GivesUp, Ends, Starts, VisitPrim, Visits, PopsToNext, Running, ctl
<1>5. CASE \/ \E o \in Objects : NewUnmanaged(o) \/ DeleteUnmanaged(o) \/ GcNew(o)
           \/ \E v \in Vectors, x \in Objects \cup Prims : Writes(v, x)
  BY <1>5 DEF NewUnmanaged, DeleteUnmanaged, GcNew, Writes, Running, ctl
<1>6. CASE \E o \in Objects : Attaches(o)
  BY <1>6 DEF Attaches, AttachFree, AttachEnlarged, Occupy
<1> QED BY <1>1, <1>2, <1>3, <1>4, <1>5, <1>6 DEF StepCase

-----------------------------------------------------------------------------
\* While marking, a step without a fault is one of the loop's.
LEMMA LoopSteps ==
  ASSUME TypeOK, PendingNotAlive, [Next]_vars, ~ UNCHANGED vars,
         pc = "mark", pc' = "mark", fault' = "none"
  PROVE  VisitPrim \/ Visits \/ PopsToNext
<1>1. VisitPrim \/ VisitChild \/ PopStack
  BY DEF Next, Collect, NewUnmanaged, DeleteUnmanaged, GcNew, New,
     NewOutOfMemory, Mutate, AppendElem, SetElem, Recycle, DeleteGc, RetryNew,
     RetryFails, SweepKeep, SweepFree, SweepDone, DestructorDone, Crashed, Running
<1>2. fault = "none"
  BY <1>1 DEF VisitPrim, VisitChild, PopStack, Running
<1>3. ~ Still
  BY <1>2 DEF Still, vars, ctl
<1>4. CASE VisitChild
  BY <1>4, AdvanceType DEF VisitChild, Visits, Fault, Marked, Running, AtEnd,
     Current, TypeOK, ctl
<1>5. CASE PopStack
  BY <1>5 DEF PopStack, PopsToNext, Popped, Fault, Marked, Running, AtEnd,
     Current, TypeOK
<1> QED BY <1>1, <1>4, <1>5

\* After the top was popped, a container of the root is next that is not its
\* last.
LEMMA NextIsChild ==
  ASSUME TypeOK, MarksReachable, FlatWalk, FlatHeap, PopsToNext
  PROVE  \E i \in ContainerPlaces(root) :
            NotLast(i) /\ iter'.container = elems[root][i]
<1> DEFINE n == Len(recycle_stack)
<1>1. pc = "mark" /\ iter.pos > Len(elems[Current])
      /\ iter' = Start(Last(Front(recycle_stack)))
  BY DEF PopsToNext
<1>2. /\ Last(Front(recycle_stack)) = recycle_stack[n - 1]
      /\ n >= 3 /\ n - 1 \in 2 .. n /\ n \in 2 .. n /\ n - 1 < n
  BY <1>1, PoppedTop, StackFacts DEF PopsToNext
<1>3. PICK places \in [2 .. n -> ContainerPlaces(root)] : StackPlaces(places)
  BY <1>1 DEF FlatWalk
<1>4. /\ places[n - 1] < places[n]
      /\ recycle_stack[n - 1] = elems[root][places[n - 1]]
      /\ places[n] \in ContainerPlaces(root)
      /\ places[n - 1] \in ContainerPlaces(root)
  BY <1>2, <1>3 DEF StackPlaces
<1> QED BY <1>1, <1>2, <1>4 DEF NotLast, Start

\* The loop has a variant, and it is a natural number in each part.
LEMMA LoopVariant ==
  ASSUME IInv, pc = "mark", FlatHeap, VisitPrim \/ Visits \/ PopsToNext
  PROVE  LessWork(WorkLeft', WorkLeft) /\ WorkLeft \in Nat \X Nat \X Nat
<1> USE DEF IInv
<1> DEFINE c == iter.container
           n == Len(recycle_stack)
           l == Len(elems[c]) + 1 - iter.pos
<1>1. /\ c \in Vectors /\ iter.pos \in Nat \ {0} /\ n \in Nat \ {0}
      /\ recycle_stack \in Seq(Vectors) /\ recycle_stack # <<>>
  BY StackFacts DEF MarksReachable
<1>2. l \in Nat /\ Len(elems[c]) \in Nat
  BY <1>1, PlaceFacts DEF IterInBounds
<1>3. WorkLeft = IF c = root THEN <<1, 0, l>> ELSE <<0, n, l>>
  BY DEF WorkLeft, Current
<1>4. WorkLeft' = IF iter'.container = root'
                  THEN <<1, 0, Len(elems'[iter'.container]) + 1 - iter'.pos>>
                  ELSE <<0, Len(recycle_stack'),
                         Len(elems'[iter'.container]) + 1 - iter'.pos>>
  BY DEF WorkLeft, Current
<1>5. CASE VisitPrim \/ Visits
  <2>1. UNCHANGED <<root, elems>>
    BY <1>5 DEF VisitPrim, Visits, heap, table
  <2>2. iter'.container = c /\ iter'.pos = iter.pos + 1
    BY <1>5, AdvanceType DEF VisitPrim, Visits
  <2>3. Len(elems[c]) + 1 - (iter.pos + 1) < l
    BY <1>1, <1>2
  <2>4. c # root => recycle_stack' = recycle_stack
    <3>1. iter.pos <= Len(elems[c])
      BY <1>1, <1>2, <1>5 DEF VisitPrim, Visits, AtEnd, Current
    <3>2. iter.pos \in DOMAIN elems[c] /\ Element = elems[c][iter.pos]
      BY <1>1, <3>1, PlaceFacts DEF Element, Current
    <3>3. c # root => Element \notin Vectors
      BY <3>2, FlatCurrent DEF ContainerPlaces
    <3> QED BY <1>5, <3>3 DEF VisitPrim, Visits, Pushed
  <2> DEFINE k == Len(elems[c]) + 1 - (iter.pos + 1)
  <2>5. WorkLeft' = IF c = root THEN <<1, 0, k>> ELSE <<0, n, k>>
    BY <1>4, <2>1, <2>2, <2>4
  <2> HIDE DEF k, l, n, c
  <2>6. k < l
    BY <2>3 DEF k, l, c
  <2>7. 3 \in 1 .. 3 /\ 1 .. 3 - 1 = {1, 2}
    OBVIOUS
  <2>8. LessWork(WorkLeft', WorkLeft)
    BY <1>3, <2>5, <2>6, <2>7 DEF LessWork
  <2>9. n \in Nat /\ l \in Nat
    BY <1>1, <1>2
  <2> QED BY <1>3, <2>8, <2>9
<1>6. CASE PopsToNext
  <2>1. UNCHANGED <<root, elems>> /\ recycle_stack' = Front(recycle_stack)
    BY <1>6 DEF PopsToNext, heap, table
  <2>2. Len(recycle_stack') = n - 1
    BY <1>1, <2>1, FrontFacts
  <2>3. iter'.container # root
    <3>1. PICK i \in ContainerPlaces(root) :
             NotLast(i) /\ iter'.container = elems[root][i]
      BY <1>6, <2>1, <1>1, NextIsChild
    <3>2. ContainerPlaces(iter'.container) = {} /\ ContainerPlaces(root) # {}
      BY <3>1 DEF FlatHeap
    <3> QED BY <3>2
  <2> DEFINE k == Len(elems'[iter'.container]) + 1 - iter'.pos
  <2>4. WorkLeft' = <<0, n - 1, k>>
    BY <1>4, <2>1, <2>2, <2>3
  <2> HIDE DEF k, l, n, c
  <2>5. n \in Nat /\ l \in Nat /\ n - 1 < n
    BY <1>1, <1>2
  <2>6. /\ 1 \in 1 .. 3 /\ 2 \in 1 .. 3 /\ 1 .. 1 - 1 = {} /\ 1 .. 2 - 1 = {1}
    OBVIOUS
  <2>7. CASE c = root
    <3>1. WorkLeft'[1] < WorkLeft[1]
      BY <1>3, <2>4, <2>7
    <3>2. LessWork(WorkLeft', WorkLeft)
      BY <2>6, <3>1 DEF LessWork
    <3> QED BY <1>3, <2>5, <2>7, <3>2
  <2>8. CASE c # root
    <3>1. WorkLeft'[2] < WorkLeft[2] /\ WorkLeft'[1] = WorkLeft[1]
      BY <1>3, <2>4, <2>5, <2>8
    <3>2. LessWork(WorkLeft', WorkLeft)
      BY <2>6, <3>1 DEF LessWork
    <3> QED BY <1>3, <2>5, <2>8, <3>2
  <2> QED BY <2>7, <2>8
<1> QED BY <1>5, <1>6

-----------------------------------------------------------------------------
(***************************************************************************)
(* The flags of a table: slot_count is a whole number of bytes of them, if *)
(* it began as one.                                                        *)
(***************************************************************************)

LEMMA Division ==
  ASSUME NEW a \in Nat, NEW b \in Nat \ {0}
  PROVE  /\ a \div b \in Nat /\ a % b \in 0 .. b - 1
         /\ a = b * (a \div b) + (a % b)
OBVIOUS

LEMMA TwiceWhole ==
  ASSUME NEW b \in Nat \ {0}, NEW c \in Nat, c % b = 0
  PROVE  (2 * c) % b = 0
<1>1. c = b * (c \div b) /\ c \div b \in Nat
  BY Division
<1>2. 2 * c \in Nat
  OBVIOUS
<1>3. /\ (2 * c) \div b \in Nat /\ (2 * c) % b \in 0 .. b - 1
      /\ 2 * c = b * ((2 * c) \div b) + ((2 * c) % b)
  BY <1>2, Division
<1> DEFINE q == c \div b
           d == (2 * c) \div b
           r == (2 * c) % b
<1> HIDE DEF q, d, r
<1>4. /\ q \in Nat /\ d \in Nat /\ r \in 0 .. b - 1
      /\ b * (2 * q) = b * d + r
  BY <1>1, <1>3 DEF q, d, r
<1>5. b * (2 * q - d) = r
  BY <1>4
<1>6. 2 * q - d = 0
  BY <1>4, <1>5
<1> QED BY <1>5, <1>6 DEF r

LEMMA BelowWhole ==
  ASSUME NEW b \in Nat \ {0}, NEW c \in Nat, c % b = 0, NEW i \in Nat, i < c
  PROVE  i \div b < c \div b
<1>1. /\ i \div b \in Nat /\ i % b \in 0 .. b - 1
      /\ i = b * (i \div b) + (i % b)
  BY Division
<1>2. c \div b \in Nat /\ c = b * (c \div b)
  BY Division
<1>3. \A k, q \in Nat : k <= q => b * k <= b * q
  OBVIOUS
<1>4. CASE c \div b <= i \div b
  <2>1. b * (c \div b) <= b * (i \div b)
    BY <1>1, <1>2, <1>3, <1>4
  <2> QED BY <1>1, <1>2, <2>1
<1> QED BY <1>1, <1>2, <1>4

LEMMA FlagsWholeStep ==
  ASSUME TypeOK, FlagsWhole, StepCase
  PROVE  FlagsWhole'
<1> SUFFICES ASSUME pc' # "none", InitialSlots % ByteBits = 0
             PROVE  slot_count' % ByteBits = 0
  BY DEF FlagsWhole
<1>1. CASE UNCHANGED slot_count /\ pc # "none"
  BY <1>1 DEF FlagsWhole
<1>2. CASE \E o \in Objects : GcNew(o)
  BY <1>2 DEF GcNew
<1>3. ASSUME NEW o \in Objects, Attaches(o) PROVE slot_count' % ByteBits = 0
  <2>1. pc # "none"
    BY <1>3 DEF Attaches
  <2>2. slot_count % ByteBits = 0 /\ slot_count \in Nat
    BY <2>1 DEF FlagsWhole, TypeOK
  <2>3. (2 * slot_count) % ByteBits = 0
    BY <2>2, SlotAssumption, TwiceWhole
  <2>4. slot_count' = slot_count \/ slot_count' = 2 * slot_count
    BY <1>3 DEF Attaches, AttachFree, AttachEnlarged, Occupy
  <2> QED BY <2>2, <2>3, <2>4
<1>4. CASE Still \/ \E o \in Objects : NewUnmanaged(o) \/ DeleteUnmanaged(o)
  BY <1>1, <1>4 DEF Still, NewUnmanaged, DeleteUnmanaged, Running, table, ctl
<1>5. CASE \/ GivesUp \/ Ends
           \/ \E r \in Vectors \cup {NoObj}, o \in Objects \cup {NoObj} : Starts(r, o)
  BY <1>1, <1>5 DEF GivesUp, Ends, Starts, table
<1>6. CASE VisitPrim \/ Visits \/ PopsToNext \/ PopsToSweep \/ SweepKeep
  BY <1>1, <1>6
     DEF VisitPrim, Visits, PopsToNext, PopsToSweep, SweepKeep, Running, table
<1>7. CASE \/ \E o \in Objects : Frees(o)
           \/ \E v \in Vectors, x \in Objects \cup Prims : Writes(v, x)
  BY <1>1, <1>7 DEF Frees, Writes, table
<1> QED BY <1>2, <1>3, <1>4, <1>5, <1>6, <1>7 DEF StepCase

\* The steps that look for a flag outside the array.
LEMMA FlagFaults ==
  ASSUME [Next]_vars, fault' = "flag_bounds"
  PROVE  \/ UNCHANGED fault
         \/ InitialSlots < ByteBits
         \/ pc # "none" /\ \E i \in FreeChain : ~HasFlag(i)
         \/ pc # "none" /\ Element \in Objects /\ ~HasFlag(gc_id[Element])
         \/ pc # "none" /\ sweep < slot_count /\ ~HasFlag(sweep)
<1>1. CASE UNCHANGED vars
  BY <1>1 DEF vars, ctl
<1>2. ASSUME NEW o, Attach(o), fault = "none" PROVE FALSE
  BY <1>2 DEF Attach, AttachFree, AttachEnlarged, AttachEnlargeFails,
     AttachFull, AttachFreedBuffer, Fault, Occupy
<1>3. ASSUME NEW r, NEW o, BeginRecycle(r, o), Running("idle")
      PROVE  pc # "none" /\ \E i \in FreeChain : ~HasFlag(i)
  BY <1>3 DEF BeginRecycle, Fault, MarkedFreeList, Running
<1>4. CASE \E o \in Objects :
        \/ NewUnmanaged(o) \/ DeleteUnmanaged(o) \/ GcNew(o)
        \/ New(o) \/ NewOutOfMemory(o)
  BY <1>2, <1>3, <1>4
     DEF NewUnmanaged, DeleteUnmanaged, GcNew, New, NewOutOfMemory, ctl, Running
<1>5. CASE Mutate
  BY <1>5 DEF Mutate, AppendElem, SetElem, ctl, Running
<1>6. CASE Recycle \/ DeleteGc \/ RetryNew \/ RetryFails
  BY <1>2, <1>3, <1>6 DEF Recycle, DeleteGc, RetryNew, RetryFails, Running
<1>7. CASE VisitPrim \/ PopStack \/ SweepKeep
  BY <1>7 DEF VisitPrim, PopStack, SweepKeep, Fault, Running, ctl
<1>8. CASE SweepDone \/ DestructorDone
  BY <1>8 DEF SweepDone, DestructorDone, Running
<1>9. CASE VisitChild
  BY <1>9 DEF VisitChild, Fault, Running, ctl
<1>10. CASE SweepFree
  BY <1>10 DEF SweepFree, SweepEnd, Fault, Running, ctl
<1> QED BY <1>1, <1>4, <1>5, <1>6, <1>7, <1>8, <1>9, <1>10
        DEF Next, Collect, Crashed

-----------------------------------------------------------------------------
(***************************************************************************)
(* The invariant as a whole, and what follows from it.                     *)
(***************************************************************************)
LEMMA IInvInit == Init => IInv
<1> SUFFICES ASSUME Init PROVE IInv
  OBVIOUS
<1> USE DEF Init, ROOT_INDEX
<1>1. TypeOK
  <2>1. slots \in [0 .. slot_count - 1 -> Objects \cup Nat]
    <3>1. 0 .. 0 - 1 = {}
      OBVIOUS
    <3>2. [i \in {} |-> 0] \in [{} -> Objects \cup Nat]
      OBVIOUS
    <3> QED BY <3>1, <3>2
  <2>2. <<>> \in Seq(Objects \cup Prims) /\ <<>> \in Seq(Vectors)
    BY EmptySeq
  <2>3. iter \in [container : Vectors \cup {NoObj}, pos : Nat]
    BY DEF Start
  <2> QED BY <2>1, <2>2, <2>3 DEF TypeOK, Faults
<1>2. FreeSlots = {}
  BY DEF FreeSlots
<1>3. SlotsMatchObjects
  BY DEF SlotsMatchObjects
<1>4. FreeListLinked /\ FreeListExact
  BY <1>2 DEF FreeListLinked, FreeListExact
<1>5. StackGrown /\ StackDistinct /\ StackSufficesForTrees
  BY DEF StackGrown, StackDistinct, StackSufficesForTrees
<1>6. FlatSound /\ FlatWalk /\ FlatHeapMarks /\ IterInBounds /\ PassedMarked
  BY DEF FlatSound, FlatWalk, FlatHeapMarks, IterInBounds, PassedMarked
<1>7. RootAlone /\ NestedHeld
  BY DEF RootAlone, NestedHeld
<1> QED BY <1>1, <1>3, <1>4, <1>5, <1>6, <1>7
        DEF IInv, TableAlive, FlagsWhole, PendingNotAlive, MarksReachable,
            RootFamilyMarked, SweptSlots, UnsweptMarked

LEMMA IInvStep == IInv /\ [Next]_vars => IInv'
<1> SUFFICES ASSUME IInv, [Next]_vars PROVE IInv'
  OBVIOUS
<1> USE DEF IInv
<1>1. StepCase
  BY StepCases
<1>2. TypeOK'
  BY <1>1, FaultType, TypeStep
<1>3. SlotsMatchObjects'
  BY <1>1, SlotsMatchStep
<1>4. FreeListLinked'
  BY <1>1, FreeLinkedStep
<1>5. TableAlive'
  BY <1>1, TableAliveStep
<1>6. FreeListExact'
  BY <1>1, <1>4, <1>5, FreeExactStep
<1>7. PendingNotAlive'
  BY <1>1, PendingStep
<1>8. MarksReachable'
  BY <1>1, MarksStep
<1>9. RootFamilyMarked'
  BY <1>1, RootFamilyStep
<1>10. SweptSlots'
  BY <1>1, SweptStep
<1>11. UnsweptMarked'
  BY <1>1, UnsweptStep
<1>12. StackGrown'
  BY <1>1, StackGrownStep
<1>13. StackDistinct'
  BY <1>1, StackDistinctStep
<1>14. StackSufficesForTrees'
  BY StackSufficesStep
<1>15. FlagsWhole'
  BY <1>1, FlagsWholeStep
<1>16. FlatSound'
  BY <1>1, FlatSoundStep
<1>17. FlatWalk'
  BY <1>1, FlatWalkStep
<1>18. FlatHeapMarks'
  BY <1>1, <1>2, <1>3, <1>8, <1>9, <1>16, FlatMarksStep
<1>19. IterInBounds'
  BY <1>1, IterStep
<1>20. PassedMarked'
  BY <1>1, PassedStep
<1>21. RootAlone'
  BY <1>1, RootAloneStep
<1>22. NestedHeld'
  BY <1>1, NestedStep
<1> QED BY <1>2, <1>3, <1>4, <1>5, <1>6, <1>7, <1>8, <1>9, <1>10, <1>11,
           <1>12, <1>13, <1>14, <1>15, <1>16, <1>17, <1>18, <1>19, <1>20,
           <1>21, <1>22

\* The inductive invariant holds: the marks of a collection, the free list and
\* the slots stay related as the code of esch_gc.c needs them, whatever the
\* program does between collections.
THEOREM InductiveInvariant == Spec => []IInv
<1>1. Init => IInv
  BY IInvInit
<1>2. IInv /\ [Next]_vars => IInv'
  BY IInvStep
<1> QED BY <1>1, <1>2, PTL DEF Spec

\* Every variable keeps its type: an index stays inside slots, which holds
\* nothing but objects and indices however often attach doubles it.
THEOREM TypeCorrect == Spec => []TypeOK
<1>1. IInv => TypeOK
  BY DEF IInv
<1> QED BY <1>1, InductiveInvariant, PTL

\* Slots and objects name each other after every attach, doubling and sweep.
THEOREM SlotsCorrect == Spec => []SlotsMatchObjects
<1>1. IInv => SlotsMatchObjects
  BY DEF IInv
<1> QED BY <1>1, InductiveInvariant, PTL

\* The free list of a collector with a root is exactly the set of slots
\* without an object: attach never loses a slot nor hands one out twice.
THEOREM FreeListCorrect == Spec => []FreeListExact
<1>1. IInv => FreeListExact
  BY DEF IInv
<1> QED BY <1>1, InductiveInvariant, PTL

\* The stack of step 2 is left below its bottom only when the root holds no
\* container, and over its end only when the containers form no tree of the
\* collector's own: for any number of them slot_count + 1 entries suffice.
THEOREM StackCorrect == Spec => []StackSufficesForTrees
<1>1. IInv => StackSufficesForTrees
  BY DEF IInv
<1> QED BY <1>1, InductiveInvariant, PTL

\* A step that reports the wrong member of the slot union is the sweep's, and
\* nothing else has changed.
LEMMA WrongMember ==
  ASSUME IInv, [Next]_vars, fault' = "slot_not_object"
  PROVE  \/ UNCHANGED <<root, sweep, fault>>
         \/ /\ Running("sweep") /\ sweep < SweepEnd /\ sweep \notin inuse_flags
            /\ slots[sweep] \notin Objects /\ UNCHANGED <<root, sweep>>
<1> DEFINE Goal == \/ UNCHANGED <<root, sweep, fault>>
                   \/ /\ Running("sweep") /\ sweep < SweepEnd /\ sweep \notin inuse_flags
                      /\ slots[sweep] \notin Objects /\ UNCHANGED <<root, sweep>>
<1>1. CASE UNCHANGED vars
  BY <1>1 DEF vars, table, walk, ctl
<1>2. ASSUME NEW o, Attach(o), fault = "none" PROVE FALSE
  BY <1>2 DEF Attach, AttachFree, AttachEnlarged, AttachEnlargeFails,
     AttachFull, AttachFreedBuffer, Fault, Occupy
<1>3. ASSUME NEW r, NEW o, BeginRecycle(r, o), fault = "none" PROVE FALSE
  BY <1>3 DEF BeginRecycle, Fault
<1>4. CASE \E o \in Objects :
        \/ NewUnmanaged(o) \/ DeleteUnmanaged(o) \/ GcNew(o)
        \/ New(o) \/ NewOutOfMemory(o)
  BY <1>2, <1>3, <1>4
     DEF NewUnmanaged, DeleteUnmanaged, GcNew, New, NewOutOfMemory, ctl, Running
<1>5. CASE Mutate
  BY <1>5 DEF Mutate, AppendElem, SetElem, ctl, Running
<1>6. CASE Recycle \/ DeleteGc \/ RetryNew \/ RetryFails
  BY <1>2, <1>3, <1>6 DEF Recycle, DeleteGc, RetryNew, RetryFails, Running
<1>7. CASE VisitPrim \/ VisitChild \/ PopStack \/ SweepKeep \/ SweepDone \/ DestructorDone
  BY <1>7 DEF VisitPrim, VisitChild, PopStack, SweepKeep, SweepDone,
     DestructorDone, Fault, Running, ctl
<1>8. CASE SweepFree
  BY <1>8 DEF SweepFree, Fault, Running, ctl, table, walk
<1> QED BY <1>1, <1>4, <1>5, <1>6, <1>7, <1>8 DEF Next, Collect, Crashed

LEMMA UnionStep == IInv /\ UnionReadRight /\ [Next]_vars => UnionReadRight'
<1> SUFFICES ASSUME IInv, UnionReadRight, [Next]_vars, fault' = "slot_not_object"
             PROVE  root' = NoObj /\ sweep' = 0
  BY DEF UnionReadRight
<1>1. CASE UNCHANGED <<root, sweep, fault>>
  BY <1>1 DEF UnionReadRight
<1>2. CASE /\ Running("sweep") /\ sweep < SweepEnd /\ sweep \notin inuse_flags
           /\ slots[sweep] \notin Objects /\ UNCHANGED <<root, sweep>>
  <2>1. /\ pc = "sweep" /\ sweep \in 0 .. slot_count - 1
        /\ slots[sweep] \in Nat
    BY <1>2 DEF Running, SweepEnd, IInv, TypeOK
  <2>2. root # NoObj => sweep # 0
    BY <1>2, <2>1 DEF IInv, MarksReachable, ROOT_INDEX
  <2>3. sweep # 0 => sweep \in FreeSlots /\ sweep >= sweep
    BY <2>1 DEF FreeSlots
  <2>4. sweep # 0 => FALSE
    BY <1>2, <2>1, <2>3 DEF IInv, UnsweptMarked
  <2> QED BY <1>2, <2>2, <2>4
<1> QED BY <1>1, <1>2, WrongMember

\* The sweep takes a free-list index for an object pointer only in a collector
\* that a failing destructor kept alive without its root, and then at once.
THEOREM UnionCorrect == Spec => []UnionReadRight
<1>1. Init => UnionReadRight
  BY DEF Init, UnionReadRight
<1>2. IInv /\ UnionReadRight /\ [Next]_vars => UnionReadRight'
  BY UnionStep
<1> QED BY <1>1, <1>2, InductiveInvariant, PTL DEF Spec

LEMMA FlagsStep == IInv /\ FlagsFit /\ [Next]_vars => FlagsFit'
<1> SUFFICES ASSUME IInv, FlagsFit, [Next]_vars, fault' = "flag_bounds",
                    InitialSlots % ByteBits = 0
             PROVE  FALSE
  BY DEF FlagsFit
<1>1. slot_count \in Nat /\ TypeOK
  BY DEF IInv, TypeOK
<1>2. ASSUME NEW i \in Nat, pc # "none", i < slot_count PROVE HasFlag(i)
  <2>1. slot_count % ByteBits = 0
    BY <1>2 DEF IInv, FlagsWhole
  <2>2. i \div ByteBits < slot_count \div ByteBits
    BY <1>1, <1>2, <2>1, SlotAssumption, BelowWhole
  <2> QED BY <2>2 DEF HasFlag
<1>3. CASE UNCHANGED fault
  BY <1>3 DEF FlagsFit
<1>4. CASE InitialSlots < ByteBits
  <2>1. /\ InitialSlots \div ByteBits \in Nat
        /\ InitialSlots = ByteBits * (InitialSlots \div ByteBits)
    <3>1. /\ InitialSlots \div ByteBits \in Nat
          /\ InitialSlots = ByteBits * (InitialSlots \div ByteBits)
                              + (InitialSlots % ByteBits)
      BY SlotAssumption, Division
    <3> QED BY <3>1, SlotAssumption
  <2> DEFINE q == InitialSlots \div ByteBits
  <2> HIDE DEF q
  <2>2. q \in Nat /\ InitialSlots = ByteBits * q
    BY <2>1 DEF q
  <2>3. CASE q = 0
    BY <2>2, <2>3, SlotAssumption
  <2>4. CASE q # 0
    BY <1>4, <2>2, <2>4, SlotAssumption
  <2> QED BY <2>3, <2>4
<1>5. CASE pc # "none" /\ \E i \in FreeChain : ~HasFlag(i)
  <2>1. \A i \in FreeChain : i \in Nat /\ i < slot_count
    BY <1>1 DEF FreeChain
  <2> QED BY <1>2, <1>5, <2>1
<1>6. CASE pc # "none" /\ Element \in Objects /\ ~HasFlag(gc_id[Element])
  <2>1. CASE Element \in managed
    <3>1. gc_id[Element] \in 0 .. slot_count - 1
      BY <2>1 DEF IInv, TypeOK, SlotsMatchObjects
    <3> QED BY <1>1, <1>2, <1>6, <3>1
  <2>2. CASE Element \notin managed
    <3>1. gc_id[Element] = 0 /\ slot_count > 0
      BY <1>6, <2>2 DEF IInv, TableAlive
    <3> QED BY <1>2, <1>6, <3>1
  <2> QED BY <2>1, <2>2
<1>7. CASE pc # "none" /\ sweep < slot_count /\ ~HasFlag(sweep)
  <2>1. sweep \in Nat
    BY <1>1 DEF TypeOK
  <2> QED BY <1>2, <1>7, <2>1
<1> QED BY <1>3, <1>4, <1>5, <1>6, <1>7, FlagFaults

\* No flag is looked for outside inuse_flags, unless the table began with a
\* number of slots that is no multiple of the flags in a byte.
THEOREM FlagsCorrect == Spec => []FlagsFit
<1>1. Init => FlagsFit
  BY DEF Init, FlagsFit
<1>2. IInv /\ FlagsFit /\ [Next]_vars => FlagsFit'
  BY FlagsStep
<1> QED BY <1>1, <1>2, InductiveInvariant, PTL DEF Spec

LEMMA SweepLeavesReachable ==
  ASSUME IInv, [Next]_vars, pc = "sweep", pc' # "sweep", root # NoObj
  PROVE  managed \subseteq Reachable
<1>1. StepCase
  BY StepCases DEF IInv
<1>2. sweep = slot_count
  BY <1>1 DEF StepCase, Still, NewUnmanaged, DeleteUnmanaged, GcNew, GivesUp,
     Attaches, Starts, VisitPrim, Visits, PopsToNext, PopsToSweep, SweepKeep,
     Frees, Ends, Writes, Running, ctl
<1>3. ASSUME NEW o \in managed PROVE o \in Reachable
  <2>1. o \in Objects /\ gc_id[o] \in DOMAIN slots /\ slots[gc_id[o]] = o
    BY DEF IInv, TypeOK, SlotsMatchObjects
  <2>2. gc_id[o] < sweep
    BY <1>2, <2>1 DEF IInv, TypeOK
  <2> QED BY <2>1, <2>2 DEF IInv, SweptSlots, MarksReachable
<1> QED BY <1>3

\* A collection that came to its end leaves nothing that could not be reached
\* from the root when it began.
THEOREM GarbageCorrect == Spec => GarbageIsFreed
<1> DEFINE A == pc = "sweep" /\ pc' # "sweep" /\ root # NoObj
                  => managed \subseteq Reachable
<1>1. IInv /\ [Next]_vars => A
  BY SweepLeavesReachable
<1> QED BY <1>1, InductiveInvariant, PTL DEF Spec, GarbageIsFreed

LEMMA FreedOutsideFamily ==
  ASSUME IInv, [Next]_vars, root # NoObj, root' = root,
         NEW o \in managed \ managed'
  PROVE  o # root /\ o \notin Children(root)
<1>1. StepCase
  BY StepCases DEF IInv
<1>2. PICK p \in Objects : Frees(p)
  BY <1>1 DEF StepCase, Still, NewUnmanaged, DeleteUnmanaged, GcNew, GivesUp,
     Attaches, AttachFree, AttachEnlarged, Occupy, Starts, VisitPrim, Visits,
     PopsToNext, PopsToSweep, SweepKeep, Ends, Writes, heap
<1>3. p = o /\ pc = "sweep" /\ gc_id[o] \notin inuse_flags
  BY <1>2 DEF Frees, IInv, TypeOK, SlotsMatchObjects
<1>4. gc_id[root] = 0 /\ 0 \in inuse_flags
  BY <1>3, RootSlot DEF IInv, MarksReachable, ROOT_INDEX
<1>5. Children(root) \cap managed \subseteq {q \in managed : gc_id[q] \in inuse_flags}
  BY <1>3 DEF IInv, RootFamilyMarked
<1> QED BY <1>3, <1>4, <1>5

\* Neither the root nor an object stored in the root is ever collected.
THEOREM RootFamilyCorrect == Spec => RootFamilySurvives
<1> DEFINE A == root # NoObj /\ root' = root
                  => \A o \in managed \ managed' : o # root /\ o \notin Children(root)
<1>1. IInv /\ [Next]_vars => A
  BY FreedOutsideFamily
<1> QED BY <1>1, InductiveInvariant, PTL DEF Spec, RootFamilySurvives

LEMMA DeletedGivesUp ==
  ASSUME IInv, [Next]_vars, pc = "sweep", pc' # "sweep", root = NoObj
  PROVE  managed' = {}
<1>1. StepCase
  BY StepCases DEF IInv
<1>2. Ends
  BY <1>1 DEF StepCase, Still, NewUnmanaged, DeleteUnmanaged, GcNew, GivesUp,
     Attaches, Starts, VisitPrim, Visits, PopsToNext, PopsToSweep, SweepKeep,
     Frees, Writes, Running, ctl
<1>3. managed = {} /\ managed' = managed
  BY <1>2, DeletedOwnsNothing DEF IInv, Ends
<1> QED BY <1>3

\* Deleting the collector gives up every object it owned.
THEOREM DeleteCorrect == Spec => DeleteFreesAll
<1> DEFINE A == pc = "sweep" /\ pc' # "sweep" /\ root = NoObj => managed' = {}
<1>1. IInv /\ [Next]_vars => A
  BY DeletedGivesUp
<1> QED BY <1>1, InductiveInvariant, PTL DEF Spec, DeleteFreesAll

(***************************************************************************)
(* The refinement: every step is one of AbstractCollector, or does not     *)
(* show.                                                                   *)
(***************************************************************************)
LEMMA HoldsFacts ==
  /\ Holds \in [Vectors -> SUBSET Objects]
  /\ Holds' \in [Vectors -> SUBSET Objects]
  /\ \A v \in Vectors : Holds[v] = Children(v) /\ Holds'[v] = Children(v)'
  /\ elems' = elems => Holds' = Holds
BY DEF Holds, Children

\* What is not marked when the sweep comes to its end has been freed.
LEMMA SweptOwned ==
  ASSUME IInv, pc = "sweep", sweep = slot_count
  PROVE  Owned = managed
<1>1. ASSUME NEW o \in managed PROVE gc_id[o] \in inuse_flags
  <2>1. o \in Objects /\ gc_id[o] \in DOMAIN slots /\ slots[gc_id[o]] = o
    BY DEF IInv, TypeOK, SlotsMatchObjects
  <2>2. gc_id[o] < sweep
    BY <2>1 DEF IInv, TypeOK
  <2> QED BY <2>1, <2>2 DEF IInv, SweptSlots
<1> QED BY <1>1 DEF Owned

\* Emptying containers, or writing what the collector owns, is a step of Mutate.
LEMMA MutateMaps ==
  ASSUME Owned' = Owned, root' = root,
         \A v \in Vectors \cap Owned : Children(v)' \subseteq Children(v) \cup Owned
  PROVE  Collector!Mutate
BY HoldsFacts DEF Collector!Mutate

LEMMA WritesMaps ==
  ASSUME IInv, NEW v \in Vectors, NEW x \in Objects \cup Prims, Writes(v, x)
  PROVE  Collector!Mutate
<1>1. pc = "idle" /\ pc' = "idle" /\ managed' = managed /\ root' = root
  BY DEF Writes, table
<1>2. Owned = managed /\ Owned' = managed
  BY <1>1 DEF Owned
<1>3. elems \in [Vectors -> Seq(Objects \cup Prims)] /\ x \in managed \cup Prims
  BY DEF IInv, TypeOK, Writes
<1>4. /\ \A u \in Vectors \ {v} : elems'[u] = elems[u]
      /\ \/ elems'[v] = Append(elems[v], x)
         \/ \E k \in DOMAIN elems[v] : elems'[v] = [elems[v] EXCEPT ![k] = x]
  BY <1>3 DEF Writes
<1>5. \A k \in DOMAIN elems'[v] : elems'[v][k] = x \/ elems'[v][k] \in {elems[v][j] : j \in DOMAIN elems[v]}
  <2>1. CASE elems'[v] = Append(elems[v], x)
    <3>1. elems[v] \in Seq(Objects \cup Prims)
      BY <1>3
    <3> QED BY <2>1, <3>1, AppendProperties, LenProperties
  <2>2. CASE \E k \in DOMAIN elems[v] : elems'[v] = [elems[v] EXCEPT ![k] = x]
    BY <2>2
  <2> QED BY <1>4, <2>1, <2>2
<1>6. x \in Objects => x \in managed
  BY <1>3, HeapAssumption
<1>7. \A u \in Vectors \cap Owned : Children(u)' \subseteq Children(u) \cup Owned
  BY <1>2, <1>4, <1>5, <1>6 DEF Children
<1> QED BY <1>1, <1>2, <1>7, MutateMaps

\* Of the places of the root's containers one is the last.
LEMMA LastPlace ==
  ASSUME TypeOK, root \in Vectors, ContainerPlaces(root) # {}
  PROVE  \E l \in ContainerPlaces(root) :
           \A i \in ContainerPlaces(root) : i # l => NotLast(i)
<1> DEFINE n == Len(elems[root])
           T == {n - i : i \in ContainerPlaces(root)}
<1>1. n \in Nat /\ \A i \in ContainerPlaces(root) : i \in Nat /\ i <= n
  BY PlaceFacts DEF ContainerPlaces
<1>2. T \subseteq Nat /\ T # {}
  BY <1>1
<1>3. PICK d \in T : \A e \in T : d <= e
  <2> HIDE DEF T
  <2> QED BY <1>2, NatMin
<1>4. PICK l \in ContainerPlaces(root) : d = n - l
  BY <1>3
<1>5. ASSUME NEW i \in ContainerPlaces(root), i # l PROVE NotLast(i)
  <2>1. n - l <= n - i
    BY <1>3, <1>4
  <2>2. i < l
    BY <1>1, <1>5, <2>1
  <2> QED BY <2>2 DEF NotLast
<1> QED BY <1>5

\* The sweep begins: from here on only what is marked is owned.
LEMMA CollectMaps ==
  ASSUME IInv, IInv', PopsToSweep
  PROVE  Collector!Collect
<1>1. /\ pc = "mark" /\ pc' = "sweep"
      /\ UNCHANGED <<managed, gc_id, elems, slots, root>>
  BY DEF PopsToSweep, heap, table
<1>2. root # NoObj /\ root \in Vectors /\ TypeOK
  BY <1>1, RootSlot DEF IInv, MarksReachable
<1>3. FlatHeap /\ FlatFamily' = FlatFamily /\ FlatHeap'
  BY <1>1, <1>2, FlatKept DEF IInv, FlatHeapMarks
<1>4. Owned = managed /\ Owned' = FlatFamily \cap managed
  BY <1>1, <1>2, <1>3 DEF Owned, IInv, FlatHeapMarks
<1> DEFINE places == {i \in ContainerPlaces(root) : NotLast(i)}
           visited == {elems[root][i] : i \in places}
           held == Collector!RootContainers
<1>5. /\ Holds' = Holds /\ Holds[root] = Children(root)
      /\ \A v \in Vectors : Holds[v] = Children(v)
  BY <1>1, <1>2, HoldsFacts
<1>6. held = {elems[root][i] : i \in ContainerPlaces(root)}
  BY <1>5 DEF Collector!RootContainers, Children, ContainerPlaces, Objects
<1>7. visited \subseteq held /\ held \subseteq Vectors /\ held # {}
  BY <1>3, <1>6 DEF ContainerPlaces, FlatHeap
<1>8. PICK l \in ContainerPlaces(root) :
         \A i \in ContainerPlaces(root) : i # l => NotLast(i)
  BY <1>2, <1>3, LastPlace DEF FlatHeap
<1>9. held \ {elems[root][l]} \subseteq visited
  BY <1>6, <1>8
<1>10. elems[root][l] \in held
  BY <1>6
<1>11. visited \in {held, held \ {elems[root][l]}}
  BY <1>7, <1>9, <1>10
<1>12. \A v \in visited : Holds[v] \cap Vectors = {}
  <2>1. \A v \in visited : ContainerPlaces(v) = {}
    BY <1>3 DEF FlatHeap
  <2> QED BY <1>5, <1>7, <2>1 DEF ContainerPlaces, Children
<1>13. FlatFamily = {root} \cup Holds[root] \cup UNION {Holds[v] : v \in visited}
  <2>1. UNION {Holds[v] : v \in visited}
          = UNION {Children(elems[root][i]) : i \in places}
    BY <1>5, <1>7
  <2> QED BY <1>5, <2>1 DEF FlatFamily
<1> HIDE DEF visited, held
<1>14. \E last \in held : \E seen \in {held, held \ {last}} :
          /\ \A v \in seen : Holds[v] \cap Vectors = {}
          /\ Owned' = Owned \cap
               ({root} \cup Holds[root] \cup UNION {Holds[v] : v \in seen})
  BY <1>4, <1>10, <1>11, <1>12, <1>13
<1> QED BY <1>1, <1>2, <1>5, <1>7, <1>14 DEF Collector!Collect, held

\* The collector is being deleted: its root is gone and nothing is marked.
LEMMA DeleteMaps ==
  ASSUME IInv, IInv', NEW o \in Objects \cup {NoObj}, Starts(NoObj, o)
  PROVE  Collector!Delete
<1>1. root' = NoObj /\ pc' = "sweep" /\ elems' = elems
  BY DEF Starts, heap
<1>2. Owned' = {p \in managed' : gc_id'[p] \in inuse_flags'}
  BY <1>1 DEF Owned
<1>3. ASSUME NEW p \in managed' PROVE gc_id'[p] \notin inuse_flags'
  <2>1. p \in Objects /\ gc_id'[p] \in DOMAIN slots' /\ slots'[gc_id'[p]] = p
    BY DEF IInv, TypeOK, SlotsMatchObjects
  <2> QED BY <1>1, <2>1 DEF IInv, SweptSlots
<1> QED BY <1>1, <1>2, <1>3, HoldsFacts DEF Collector!Delete

LEMMA EndsMaps ==
  ASSUME IInv, Ends
  PROVE  Collector!Mutate
<1>1. pc = "sweep" /\ sweep = slot_count /\ managed' = managed /\ root' = root
      /\ pc' # "sweep"
  BY DEF Ends, NoTable, table
<1>2. Owned = managed /\ Owned' = managed
  BY <1>1, SweptOwned DEF Owned
<1>3. \A v \in Vectors : elems'[v] = elems[v] \/ elems'[v] = <<>>
  BY DEF Ends, Forget
<1>4. \A v \in Vectors : Children(v)' \subseteq Children(v)
  BY <1>3 DEF Children
<1> QED BY <1>1, <1>2, <1>4, MutateMaps

LEMMA CollectorStep ==
  ASSUME IInv, IInv', [Next]_vars
  PROVE  [Collector!Next]_(Collector!vars)
<1> DEFINE Maps == Collector!Next \/ UNCHANGED Collector!vars
<1>1. SUFFICES Maps
  OBVIOUS
<1>2. ASSUME UNCHANGED <<managed, elems, root>>,
             \/ pc # "sweep" /\ pc' # "sweep"
             \/ pc = "sweep" /\ pc' = "sweep" /\ UNCHANGED <<gc_id, inuse_flags>>
      PROVE  Maps
  BY <1>2, HoldsFacts DEF Owned, Collector!vars
<1>3. CASE \/ Still \/ GivesUp \/ VisitPrim \/ Visits \/ PopsToNext \/ SweepKeep
           \/ \E o \in Objects : NewUnmanaged(o)
  BY <1>2, <1>3 DEF Still, GivesUp, VisitPrim, Visits, PopsToNext, SweepKeep,
     NewUnmanaged, Running, heap, table, walk, ctl
<1>4. ASSUME NEW r \in Vectors \cup {NoObj}, NEW o \in Objects \cup {NoObj},
             Starts(r, o)
      PROVE  Maps
  <2>1. CASE r = NoObj
    BY <1>4, <2>1, DeleteMaps DEF Collector!Next
  <2>2. CASE r # NoObj
    BY <1>2, <1>4, <2>2 DEF Starts, heap
  <2> QED BY <2>1, <2>2
<1>5. ASSUME NEW o \in Objects, DeleteUnmanaged(o) PROVE Maps
  <2>1. /\ pc \in {"none", "idle"} /\ pc' = pc /\ managed' = managed /\ root' = root
        /\ elems' = IF o \in Vectors THEN [elems EXCEPT ![o] = <<>>] ELSE elems
    BY <1>5 DEF DeleteUnmanaged, table, ctl
  <2>2. Owned' = Owned
    BY <2>1 DEF Owned
  <2>3. \A v \in Vectors : elems'[v] = elems[v] \/ elems'[v] = <<>>
    BY <2>1 DEF IInv, TypeOK
  <2>4. \A v \in Vectors : Children(v)' \subseteq Children(v)
    BY <2>3 DEF Children
  <2> QED BY <2>1, <2>2, <2>4, MutateMaps DEF Collector!Next
<1>6. ASSUME NEW r \in Objects, GcNew(r) PROVE Maps
  <2>1. /\ pc = "none" /\ pc' = "idle" /\ managed = {} /\ managed' = managed \cup {r}
        /\ root' = r /\ elems' = elems /\ r \in Vectors
    BY <1>6 DEF GcNew, Running, IInv, TableAlive
  <2>2. Collector!GcNew(r)
    BY <2>1, HoldsFacts DEF Owned, Collector!GcNew
  <2> QED BY <2>1, <2>2 DEF Collector!Next
<1>7. ASSUME NEW o \in Objects, Attaches(o) PROVE Maps
  <2>1. /\ pc \in {"idle", "retry"} /\ pc' = "idle" /\ managed' = managed \cup {o}
        /\ root' = root /\ elems' = elems /\ o \notin alive
    BY <1>7 DEF Attaches, AttachFree, AttachEnlarged, Occupy
  <2>2. Collector!New(o)
    BY <2>1, HoldsFacts DEF Owned, Collector!New, IInv, SlotsMatchObjects
  <2> QED BY <2>2 DEF Collector!Next
<1>8. CASE PopsToSweep
  BY <1>8, CollectMaps DEF Collector!Next
<1>9. ASSUME NEW o \in Objects, Frees(o) PROVE Maps
  <2>1. /\ pc = "sweep" /\ pc' = "sweep" /\ UNCHANGED <<elems, root, inuse_flags>>
        /\ managed' = managed \ {o}
        /\ gc_id' = [gc_id EXCEPT ![o] = 0]
        /\ slots[sweep] = o /\ sweep \notin inuse_flags
        /\ sweep \in DOMAIN slots
    BY <1>9 DEF Frees, IInv, TypeOK
  <2>2. gc_id[o] = sweep
    BY <2>1 DEF IInv, SlotsMatchObjects
  <2>3. \A p \in managed' : gc_id'[p] = gc_id[p]
    BY <2>1 DEF IInv, TypeOK
  <2>4. Owned' = Owned
    BY <2>1, <2>2, <2>3 DEF Owned
  <2> QED BY <2>1, <2>4, HoldsFacts DEF Collector!vars
<1>10. CASE Ends
  BY <1>10, EndsMaps DEF Collector!Next
<1>11. ASSUME NEW v \in Vectors, NEW x \in Objects \cup Prims, Writes(v, x) PROVE Maps
  BY <1>11, WritesMaps DEF Collector!Next
<1>12. StepCase
  BY StepCases DEF IInv
<1> HIDE DEF Maps
<1> QED BY <1>3, <1>4, <1>5, <1>6, <1>7, <1>8, <1>9, <1>10, <1>11, <1>12
        DEF StepCase

LEMMA CollectorInit == Init => Collector!Init
BY HoldsFacts DEF Init, Collector!Init, Owned, Holds, Children

\* To its program the collector is one that collects at once: it owns what was
\* created; a collection is over on flat heaps only, keeps the root, what that
\* holds and what its containers but for the last hold, and changes nothing
\* else; and this for every program.
THEOREM CollectorCorrect == Spec => ImplementsCollector
<1>1. Init => Collector!Init
  BY CollectorInit
<1>2. IInv /\ IInv' /\ [Next]_vars => [Collector!Next]_(Collector!vars)
  BY CollectorStep
<1>3. Spec => Collector!Init /\ [][Collector!Next]_(Collector!vars)
  BY <1>1, <1>2, InductiveInvariant, PTL DEF Spec
<1> QED BY <1>3 DEF ImplementsCollector, Collector!Spec

\* The marking loop cannot go on for ever on a flat heap, however many
\* containers the root holds and however often it holds one of them.
THEOREM FlatProgressCorrect == Spec => FlatHeapProgress
<1> DEFINE A == pc = "mark" /\ pc' = "mark" /\ fault' = "none" /\ FlatHeap
                  => LessWork(WorkLeft', WorkLeft) /\ WorkLeft \in Nat \X Nat \X Nat
<1>1. IInv /\ [Next]_vars => A \/ UNCHANGED vars
  BY LoopSteps, LoopVariant DEF IInv
<1> QED BY <1>1, InductiveInvariant, PTL DEF Spec, FlatHeapProgress

\* A collection comes to its sweep on flat heaps only, whatever the program
\* builds, and spares the root, what it holds, and what its containers but for
\* the last hold; of what it owns, it frees all else.
THEOREM FlatMarksCorrect == Spec => []FlatHeapMarks
<1>1. IInv => FlatHeapMarks
  BY DEF IInv
<1> QED BY <1>1, InductiveInvariant, PTL

\* Where the run ends, for each kind of undefined behaviour but the flags', and
\* what was met when it was a freed object.
FaultPlaces ==
  /\ fault \in {"stack_overflow", "stack_underflow", "freed_object"} => pc = "mark"
  /\ fault = "freed_buffer" => pc \notin {"mark", "sweep"}
  /\ fault = "slot_not_object" => pc = "sweep"
  /\ fault = "freed_object" => \E o \in Reachable : o \notin alive

\* The collections that all the theorems about the collector vouch for: of a
\* collector that has its root, with a table of whole bytes of flags, begun on
\* a flat tree of containers in which nothing was freed.
FlatTreesCollected ==
  /\ InitialSlots % ByteBits = 0
  /\ pc = "mark" => FlatHeap /\ IsTree /\ Reachable \subseteq alive
  /\ pc \in {"mark", "sweep"} /\ root # NoObj
  => fault = "none"

LEMMA FaultPlacesStep == IInv /\ FaultPlaces /\ [Next]_vars => FaultPlaces'
<1> SUFFICES ASSUME IInv, FaultPlaces, [Next]_vars PROVE FaultPlaces'
  OBVIOUS
<1> DEFINE Kept == UNCHANGED <<fault, pc, root, elems, alive>>
           NoFault == fault' \in {"none", "flag_bounds"}
<1>1. CASE Kept
  <2>1. Reachable' = Reachable
    BY <1>1, ReachableKept
  <2> QED BY <1>1, <2>1 DEF FaultPlaces
<1>2. CASE NoFault
  BY <1>2 DEF FaultPlaces
<1>3. ASSUME NEW o, Attach(o), fault = "none", pc \in {"idle", "retry"}
      PROVE  FaultPlaces'
  <2>1. fault' \in {"none", "freed_buffer"} /\ (fault' # "none" => pc' = pc)
    BY <1>3 DEF Attach, AttachFree, AttachEnlarged, AttachEnlargeFails,
       AttachFull, AttachFreedBuffer, Fault, Occupy
  <2> QED BY <1>3, <2>1 DEF FaultPlaces
<1>4. ASSUME NEW r, NEW o, BeginRecycle(r, o), Running("idle")
      PROVE  FaultPlaces'
  <2>1. fault' \in {"none", "flag_bounds"} \/ (fault' = "freed_buffer" /\ pc' = pc)
    BY <1>4 DEF BeginRecycle, Fault, Running
  <2> QED BY <1>4, <2>1 DEF FaultPlaces, Running
<1>5. CASE UNCHANGED vars
  BY <1>1, <1>5 DEF vars, heap, table, ctl
<1>6. CASE \E o \in Objects :
        \/ NewUnmanaged(o) \/ DeleteUnmanaged(o) \/ GcNew(o)
        \/ New(o) \/ NewOutOfMemory(o)
  <2>1. PICK o \in Objects :
          \/ NewUnmanaged(o) \/ DeleteUnmanaged(o) \/ GcNew(o)
          \/ New(o) \/ NewOutOfMemory(o)
    BY <1>6
  <2>2. CASE NewUnmanaged(o) \/ DeleteUnmanaged(o) \/ GcNew(o)
    BY <1>2, <2>2 DEF NewUnmanaged, DeleteUnmanaged, GcNew, Running, ctl
  <2>3. CASE New(o) \/ NewOutOfMemory(o)
    BY <1>3, <1>4, <2>3 DEF New, NewOutOfMemory, Running
  <2> QED BY <2>1, <2>2, <2>3
<1>7. CASE Mutate
  BY <1>2, <1>7 DEF Mutate, AppendElem, SetElem, ctl, Running
<1>8. CASE Recycle \/ DeleteGc \/ RetryNew \/ RetryFails
  BY <1>2, <1>3, <1>4, <1>8 DEF Recycle, DeleteGc, RetryNew, RetryFails, Running
<1>9. CASE VisitPrim \/ SweepKeep \/ SweepDone \/ DestructorDone
  BY <1>2, <1>9 DEF VisitPrim, SweepKeep, SweepDone, DestructorDone, Running, ctl
<1>10. CASE PopStack
  <2>1. NoFault \/ (fault' = "stack_underflow" /\ pc' = "mark")
    BY <1>10 DEF PopStack, Fault, Running
  <2> QED BY <1>2, <2>1 DEF FaultPlaces
<1>11. CASE SweepFree
  <2>1. NoFault \/ (fault' = "slot_not_object" /\ pc' = "sweep")
    BY <1>11 DEF SweepFree, Fault, Running, ctl
  <2> QED BY <1>2, <2>1 DEF FaultPlaces
<1>12. CASE VisitChild
  <2>1. \/ NoFault
        \/ fault' = "stack_overflow" /\ pc' = "mark"
        \/ /\ fault' = "freed_object" /\ Element \notin alive
           /\ pc' = "mark" /\ UNCHANGED <<root, elems, alive>>
    BY <1>12 DEF VisitChild, Fault, Running, heap, table, ctl
  <2>2. ASSUME Element \notin alive, fault' = "freed_object",
               pc' = "mark", UNCHANGED <<root, elems, alive>>
        PROVE  FaultPlaces'
    <3>1. Element \in Reachable
      <4>1. /\ iter.container \in Vectors \cap Reachable
            /\ iter.pos \in Nat \ {0} /\ iter.pos <= Len(elems[Current])
            /\ Element \in Objects
        BY <1>12, LenProperties
           DEF VisitChild, Running, AtEnd, Current, IInv, TypeOK, MarksReachable
      <4> QED BY <4>1, ElementIsChild, ReachableFacts DEF Current, IInv
    <3>2. Reachable' = Reachable
      BY <2>2, ReachableKept
    <3> QED BY <2>2, <3>1, <3>2 DEF FaultPlaces
  <2> QED BY <1>2, <2>1, <2>2 DEF FaultPlaces
<1> QED BY <1>5, <1>6, <1>7, <1>8, <1>9, <1>10, <1>11, <1>12 DEF Next, Collect, Crashed

\* What the invariants together say of a run that ended in a collection.
LEMMA FlatTreesSafe ==
  ASSUME IInv, UnionReadRight, FlagsFit, FaultPlaces
  PROVE  FlatTreesCollected
<1> SUFFICES ASSUME InitialSlots % ByteBits = 0,
                    pc = "mark" => FlatHeap /\ IsTree /\ Reachable \subseteq alive,
                    pc \in {"mark", "sweep"}, root # NoObj
             PROVE  fault = "none"
  BY DEF FlatTreesCollected
<1>1. fault \in Faults
  BY DEF IInv, TypeOK
<1>2. fault # "flag_bounds" /\ fault # "freed_buffer" /\ fault # "slot_not_object"
  BY DEF FlagsFit, FaultPlaces, UnionReadRight
<1>3. fault # "freed_object"
  BY DEF FaultPlaces
<1>4. fault # "stack_overflow"
  BY DEF FaultPlaces, IInv, StackSufficesForTrees
<1>5. fault # "stack_underflow"
  <2> SUFFICES ASSUME fault = "stack_underflow" PROVE FALSE
    OBVIOUS
  <2>1. FlatHeap /\ Children(root) \cap Vectors = {}
    BY DEF FaultPlaces, IInv, StackSufficesForTrees
  <2>2. PICK i : i \in ContainerPlaces(root)
    BY <2>1 DEF FlatHeap
  <2>3. elems[root][i] \in Children(root) \cap Vectors
    BY <2>2 DEF ContainerPlaces, Children, Objects
  <2> QED BY <2>1, <2>3
<1> QED BY <1>1, <1>2, <1>3, <1>4, <1>5 DEF Faults

\* However large the table, the tree and the vectors: a collection that begins
\* on a flat tree in which nothing was freed does nothing undefined, in step 2
\* or in the sweep.  That step 2 ends there is FlatProgressCorrect, and what it
\* spares FlatMarksCorrect.
THEOREM FlatTreesCorrect == Spec => []FlatTreesCollected
<1>1. Init => UnionReadRight /\ FlagsFit /\ FaultPlaces
  BY DEF Init, UnionReadRight, FlagsFit, FaultPlaces
<1>2. IInv /\ FaultPlaces /\ [Next]_vars => FaultPlaces'
  BY FaultPlacesStep
<1>3. IInv /\ UnionReadRight /\ FlagsFit /\ FaultPlaces => FlatTreesCollected
  BY FlatTreesSafe
<1>4. Spec => []FaultPlaces
  BY <1>1, <1>2, InductiveInvariant, PTL DEF Spec
<1> QED BY <1>3, <1>4, InductiveInvariant, UnionCorrect, FlagsCorrect, PTL

-----------------------------------------------------------------------------
(***************************************************************************)
(* Pairs as containers of the collector: ManagedPairs.  First the lists,   *)
(* as operators of the heads and tails; then the steps of the composition. *)
(***************************************************************************)

\* it has the pairs of the list of p when the tails are t, and then NoObj.
ListOf(it, p, t) ==
  /\ it \in [Nat -> Pairs \cup {NoObj}] /\ it[0] = p
  /\ \A k \in Nat : it[k + 1] = Following(it[k], t)
  /\ \A k \in Nat : Nth(p, t, k) = it[k]

\* The pairs of a list one after the other.
LEMMA NthIterates ==
  ASSUME Pairs \subseteq Vectors, NEW p \in Pairs, NEW t
  PROVE  \E it : ListOf(it, p, t)
<1> DEFINE D == Pairs \cup {NoObj}
           F == [q \in D |-> Following(q, t)]
<1>1. F \in [D -> D] /\ p \in D
  BY DEF Following
<1> HIDE DEF D, F
<1>2. PICK it : Iterates(it, D, F, p)
  BY <1>1, Iteration
<1>3. \A k \in Nat : it[k + 1] = Following(it[k], t)
  BY <1>2 DEF F, Iterates
<1>4. ASSUME NEW k \in Nat PROVE Nth(p, t, k) = it[k]
  <2> DEFINE IsNth(g) ==
        g = [i \in 0 .. k |-> IF i = 0 THEN p ELSE Following(g[i - 1], t)]
             g == CHOOSE g : IsNth(g)
  <2>1. IsNth([i \in 0 .. k |-> it[i]])
    <3> DEFINE h == [i \in 0 .. k |-> it[i]]
    <3>1. ASSUME NEW i \in 0 .. k
          PROVE  h[i] = IF i = 0 THEN p ELSE Following(h[i - 1], t)
      <4>1. CASE i = 0
        BY <1>2, <4>1 DEF Iterates
      <4>2. CASE i # 0
        <5>1. i - 1 \in Nat /\ i - 1 \in 0 .. k /\ (i - 1) + 1 = i
          BY <4>2
        <5>2. it[(i - 1) + 1] = Following(it[i - 1], t)
          BY <1>3, <5>1
        <5> QED BY <4>2, <5>1, <5>2
      <4> QED BY <4>1, <4>2
    <3>2. h = [i \in 0 .. k |-> h[i]]
      OBVIOUS
    <3> HIDE DEF h
    <3>3. h = [i \in 0 .. k |-> IF i = 0 THEN p ELSE Following(h[i - 1], t)]
      BY <3>1, <3>2, Zenon
    <3> QED BY <3>3 DEF h
  <2>2. IsNth(g)
    BY <2>1
  <2>3. Nth(p, t, k) = g[k]
    BY DEF Nth
  <2> HIDE DEF g
  <2>4. \A i \in 0 .. k : g[i] = IF i = 0 THEN p ELSE Following(g[i - 1], t)
    BY <2>2
  <2> DEFINE T == {i \in 0 .. k : g[i] = it[i]}
  <2>5. 0 \in T
    BY <1>2, <2>4 DEF Iterates
  <2>6. \A i \in 0 .. k - 1 : i \in T => i + 1 \in T
    <3> SUFFICES ASSUME NEW i \in 0 .. k - 1, g[i] = it[i]
                 PROVE  g[i + 1] = it[i + 1]
      OBVIOUS
    <3>1. i + 1 \in 0 .. k /\ i + 1 # 0 /\ (i + 1) - 1 = i /\ i \in Nat
      OBVIOUS
    <3> QED BY <1>3, <2>4, <3>1
  <2> HIDE DEF T
  <2>7. \A i \in 0 .. k : i \in T
    BY <2>5, <2>6, BoundedInduction
  <2> QED BY <2>3, <2>7 DEF T
<1> QED BY <1>2, <1>3, <1>4 DEF D, Iterates, ListOf

\* A list is no shorter than its set of pairs: up to their number it goes on.
LEMMA NthInPairs ==
  ASSUME Pairs \subseteq Vectors, IsFiniteSet(Pairs), NEW p \in Pairs, NEW t
  PROVE  /\ Cardinality(Chain(p, t)) \in Nat \ {0}
         /\ \A k \in 0 .. Cardinality(Chain(p, t)) - 1 :
               Nth(p, t, k) \in Pairs \cap Chain(p, t)
<1>0. PICK it : ListOf(it, p, t)
  BY NthIterates
<1>1. /\ it \in [Nat -> Pairs \cup {NoObj}]
      /\ it[0] = p
      /\ \A k \in Nat : it[k + 1] = Following(it[k], t)
      /\ \A k \in Nat : Nth(p, t, k) = it[k]
  BY <1>0 DEF ListOf
<1> DEFINE c == Cardinality(Pairs)
           n == Cardinality(Chain(p, t))
<1>2. NoObj \notin Pairs
  BY HeapAssumption DEF Objects
<1>3. c \in Nat
  BY FS_CardinalityType
<1>4. Chain(p, t) = {it[k] : k \in 0 .. c} \ {NoObj}
  BY <1>1, <1>3 DEF Chain
<1>5. Chain(p, t) \subseteq Pairs /\ p \in Chain(p, t)
  BY <1>1, <1>2, <1>3, <1>4
<1>6. IsFiniteSet(Chain(p, t)) /\ n \in Nat
  BY <1>5, FS_Subset, FS_CardinalityType
<1>7. n # 0
  BY <1>5, <1>6, FS_EmptySet
<1>8. ASSUME NEW j \in Nat, it[j] = NoObj PROVE \A k \in Nat : k >= j => it[k] = NoObj
  <2> DEFINE T == {d \in Nat : it[j + d] = NoObj}
  <2>1. 0 \in T
    BY <1>8
  <2>2. \A d \in Nat : d \in T => d + 1 \in T
    <3> SUFFICES ASSUME NEW d \in Nat, it[j + d] = NoObj PROVE it[j + (d + 1)] = NoObj
      OBVIOUS
    <3>1. it[(j + d) + 1] = Following(NoObj, t)
      BY <1>1
    <3>2. (j + d) + 1 = j + (d + 1)
      OBVIOUS
    <3> QED BY <1>2, <3>1, <3>2 DEF Following
  <2> HIDE DEF T
  <2>3. Nat \subseteq T
    BY <2>1, <2>2, SetInduction
  <2> SUFFICES ASSUME NEW k \in Nat, k >= j PROVE it[k] = NoObj
    OBVIOUS
  <2>4. k - j \in Nat /\ j + (k - j) = k
    OBVIOUS
  <2> QED BY <2>3, <2>4 DEF T
<1>9. ASSUME NEW j \in Nat, j < n PROVE it[j] \in Pairs
  <2> SUFFICES ASSUME it[j] = NoObj PROVE FALSE
    BY <1>1
  <2>1. Chain(p, t) \subseteq {it[k] : k \in 0 .. j - 1}
    <3> SUFFICES ASSUME NEW k \in 0 .. c, it[k] # NoObj
                 PROVE  k \in 0 .. j - 1
      BY <1>4
    <3>1. k \in Nat /\ ~ k >= j
      BY <1>3, <1>8
    <3> QED BY <3>1
  <2> DEFINE I == 0 .. j - 1
             R == {it[k] : k \in I}
  <2>2. IsFiniteSet(I) /\ Cardinality(I) = j
    <3>1. 0 \in Int /\ j - 1 \in Int
      OBVIOUS
    <3>2. IsFiniteSet(I)
      BY <3>1, FS_Interval
    <3>3. Cardinality(I) = IF 0 > j - 1 THEN 0 ELSE (j - 1) - 0 + 1
      BY <3>1, FS_Interval
    <3> QED BY <3>2, <3>3
  <2>3. IsFiniteSet(R) /\ Cardinality(R) <= Cardinality(I)
    <3> DEFINE f == [k \in I |-> it[k]]
    <3>1. f \in Surjection(I, R)
      BY DEF Surjection
    <3> HIDE DEF I, R, f
    <3> QED BY <2>2, <3>1, FS_Surjection
  <2>4. n <= Cardinality(R)
    <3> HIDE DEF R
    <3> QED BY <2>1, <2>3, FS_Subset DEF R
  <2> QED BY <1>6, <1>9, <2>2, <2>3, <2>4, FS_CardinalityType
<1>10. n <= c
  BY <1>5, FS_Subset
<1> HIDE DEF n, c
<1>11. ASSUME NEW k \in 0 .. n - 1 PROVE Nth(p, t, k) \in Pairs \cap Chain(p, t)
  <2>1. k \in Nat /\ k < n /\ k \in 0 .. c
    BY <1>3, <1>6, <1>10
  <2> QED BY <1>1, <1>2, <1>4, <1>9, <2>1
<1> QED BY <1>6, <1>7, <1>11 DEF n

LEMMA ChainFacts ==
  ASSUME Pairs \subseteq Vectors, IsFiniteSet(Pairs), NEW p \in Pairs, NEW t
  PROVE  p \in Chain(p, t) /\ Chain(p, t) \subseteq Pairs
<1>1. NoObj \notin Pairs /\ Cardinality(Pairs) \in Nat
  BY HeapAssumption, FS_CardinalityType DEF Objects
<1>2. PICK it : ListOf(it, p, t)
  BY NthIterates
<1> QED BY <1>1, <1>2 DEF Chain, ListOf

\* The elements of a pair are what the pairs of its list hold.
LEMMA YieldFrom ==
  ASSUME Pairs \subseteq Vectors, IsFiniteSet(Pairs), NEW p \in Pairs,
         NEW h, NEW t, NEW S,
         \A q \in Chain(p, t) : {h[q], t[q]} \subseteq S \cup {NoObj}
  PROVE  Yield(p, h, t) \in Seq(S)
<1> DEFINE n == Cardinality(Chain(p, t))
           all == [k \in 1 .. n + 1 |->
                     IF k <= n THEN h[Nth(p, t, k - 1)] ELSE t[Nth(p, t, n - 1)]]
           ends == {k \in 1 .. n + 1 : all[k] = NoObj}
           T == S \cup {NoObj}
<1>1. n \in Nat \ {0} /\ \A k \in 0 .. n - 1 : Nth(p, t, k) \in Chain(p, t)
  BY NthInPairs
<1> HIDE DEF n
<1>2. all \in [1 .. n + 1 -> T]
  <2> SUFFICES ASSUME NEW k \in 1 .. n + 1
               PROVE (IF k <= n THEN h[Nth(p, t, k - 1)] ELSE t[Nth(p, t, n - 1)])
                        \in T
    OBVIOUS
  <2>1. CASE k <= n
    <3>1. k - 1 \in 0 .. n - 1
      BY <1>1, <2>1
    <3> QED BY <1>1, <2>1, <3>1
  <2>2. CASE ~(k <= n)
    <3>1. n - 1 \in 0 .. n - 1
      BY <1>1
    <3> QED BY <1>1, <2>2, <3>1
  <2> QED BY <2>1, <2>2
<1>3. Yield(p, h, t) = IF ends = {} THEN all
        ELSE SubSeq(all, 1, (CHOOSE k \in ends : \A j \in ends : k <= j) - 1)
  BY DEF Yield, n
<1> HIDE DEF all
<1>4. CASE ends = {}
  <2>1. \A k \in 1 .. n + 1 : all[k] \in S
    BY <1>2, <1>4
  <2>2. all \in [1 .. n + 1 -> S]
    BY <1>2, <2>1
  <2>3. n + 1 \in Nat
    BY <1>1
  <2>4. all \in Seq(S)
    BY <2>2, <2>3, SeqDef
  <2> QED BY <1>3, <1>4, <2>4
<1>5. CASE ends # {}
  <2>1. ends \subseteq Nat
    BY <1>1
  <2> DEFINE m == CHOOSE k \in ends : \A j \in ends : k <= j
  <2>2. m \in ends /\ \A j \in ends : m <= j
    <3>1. \E k \in ends : \A j \in ends : k <= j
      <4> HIDE DEF ends
      <4> QED BY <1>5, <2>1, NatMin
    <3> QED BY <3>1
  <2>3. m \in 1 .. n + 1 /\ \A k \in 1 .. m - 1 : all[k] # NoObj
    BY <1>1, <2>2
  <2> HIDE DEF m
  <2>4. n + 1 \in Nat
    BY <1>1
  <2>5. all \in Seq(T) /\ Len(all) = n + 1
    BY <1>2, <2>4, SeqDef
  <2>6. /\ Len(SubSeq(all, 1, m - 1)) = m - 1
        /\ \A k \in 1 .. m - 1 : SubSeq(all, 1, m - 1)[k] = all[k]
        /\ SubSeq(all, 1, m - 1) \in Seq(T)
    BY <2>3, <2>4, <2>5
  <2>7. SubSeq(all, 1, m - 1) \in Seq(S)
    <3>1. \A k \in 1 .. m - 1 : all[k] \in S
      BY <1>2, <2>3, <2>4
    <3>2. m - 1 \in Nat
      BY <2>3, <2>4
    <3> DEFINE s == SubSeq(all, 1, m - 1)
    <3> HIDE DEF s
    <3>3. s \in Seq(T) /\ Len(s) = m - 1 /\ \A k \in 1 .. m - 1 : s[k] \in S
      BY <2>6, <3>1 DEF s
    <3>4. s \in [1 .. m - 1 -> S]
      BY <3>2, <3>3
    <3>5. s \in Seq(S)
      BY <3>2, <3>4, SeqDef
    <3> QED BY <3>5 DEF s
  <2> QED BY <1>3, <1>5, <2>7 DEF m
<1> QED BY <1>4, <1>5

LEMMA YieldType ==
  ASSUME Pairs \subseteq Vectors, IsFiniteSet(Pairs), NEW p \in Pairs,
         NEW h \in [Pairs -> PairValues], NEW t \in [Pairs -> PairValues]
  PROVE  Yield(p, h, t) \in Seq(Objects \cup Prims)
<1>1. \A q \in Pairs : {h[q], t[q]} \subseteq (Objects \cup Prims) \cup {NoObj}
  BY DEF PairValues
<1> QED BY <1>1, ChainFacts, YieldFrom

\* Lists that hold the same are the same.
LEMMA SameList ==
  ASSUME Pairs \subseteq Vectors, IsFiniteSet(Pairs), NEW p \in Pairs,
         NEW h, NEW t, NEW g, NEW u,
         \A q \in Chain(p, u) : h[q] = g[q] /\ t[q] = u[q]
  PROVE  Chain(p, t) = Chain(p, u) /\ Yield(p, h, t) = Yield(p, g, u)
<1> DEFINE c == Cardinality(Pairs)
<1>1. NoObj \notin Pairs /\ c \in Nat
  BY HeapAssumption, FS_CardinalityType DEF Objects
<1>2. PICK it : ListOf(it, p, t)
  BY NthIterates
<1>3. PICK iu : ListOf(iu, p, u)
  BY NthIterates
<1>4. \A k \in 0 .. c : it[k] = iu[k]
  <2> DEFINE T == {k \in 0 .. c : it[k] = iu[k]}
  <2>1. 0 \in T
    BY <1>1, <1>2, <1>3 DEF ListOf
  <2>2. ASSUME NEW k \in 0 .. c - 1, k \in T PROVE k + 1 \in T
    <3>1. k \in Nat /\ k \in 0 .. c /\ k + 1 \in 0 .. c
      BY <1>1
    <3>2. /\ it[k] = iu[k]
          /\ it[k + 1] = Following(it[k], t) /\ iu[k + 1] = Following(iu[k], u)
      BY <1>2, <1>3, <2>2, <3>1 DEF ListOf
    <3>3. CASE iu[k] \in Pairs
      <4>1. Nth(p, u, k) = iu[k] /\ iu[k] # NoObj
        BY <1>1, <1>3, <3>1, <3>3 DEF ListOf
      <4>2. iu[k] \in Chain(p, u)
        BY <3>1, <4>1 DEF Chain
      <4> QED BY <3>1, <3>2, <4>2 DEF Following
    <3>4. CASE iu[k] \notin Pairs
      BY <3>1, <3>2, <3>4 DEF Following
    <3> QED BY <3>3, <3>4
  <2> HIDE DEF T, c
  <2>3. \A k \in 0 .. c : k \in T
    BY <1>1, <2>1, <2>2, BoundedInduction
  <2> QED BY <2>3 DEF T
<1>5. \A k \in 0 .. c : Nth(p, t, k) = Nth(p, u, k)
  BY <1>1, <1>2, <1>3, <1>4 DEF ListOf
<1>6. Chain(p, t) = Chain(p, u)
  BY <1>5 DEF Chain
<1> DEFINE n == Cardinality(Chain(p, u))
<1>7. n \in Nat \ {0} /\ \A k \in 0 .. n - 1 : Nth(p, u, k) \in Pairs
  BY NthInPairs
<1>8. n <= c
  <2>1. Chain(p, u) \subseteq Pairs
    BY <1>1, <1>3 DEF Chain, ListOf
  <2> QED BY <2>1, FS_Subset
<1> HIDE DEF n
<1>9. ASSUME NEW k \in 0 .. n - 1
      PROVE  /\ Nth(p, t, k) = Nth(p, u, k)
             /\ h[Nth(p, t, k)] = g[Nth(p, u, k)]
             /\ t[Nth(p, t, k)] = u[Nth(p, u, k)]
  <2>1. k \in 0 .. c
    BY <1>1, <1>7, <1>8
  <2>2. Nth(p, u, k) \in Chain(p, u)
    BY <1>1, <1>7, <2>1 DEF Chain
  <2> QED BY <1>5, <2>1, <2>2
<1> DEFINE a == [k \in 1 .. n + 1 |->
                   IF k <= n THEN h[Nth(p, t, k - 1)] ELSE t[Nth(p, t, n - 1)]]
           b == [k \in 1 .. n + 1 |->
                   IF k <= n THEN g[Nth(p, u, k - 1)] ELSE u[Nth(p, u, n - 1)]]
           Cut(s) ==
             LET ends == {k \in 1 .. n + 1 : s[k] = NoObj}
             IN  IF ends = {} THEN s
                 ELSE SubSeq(s, 1, (CHOOSE k \in ends : \A j \in ends : k <= j) - 1)
<1>10. a = b
  <2> SUFFICES ASSUME NEW k \in 1 .. n + 1
               PROVE  (IF k <= n THEN h[Nth(p, t, k - 1)] ELSE t[Nth(p, t, n - 1)])
                    = (IF k <= n THEN g[Nth(p, u, k - 1)] ELSE u[Nth(p, u, n - 1)])
    OBVIOUS
  <2>1. n - 1 \in 0 .. n - 1 /\ k <= n => k - 1 \in 0 .. n - 1
    BY <1>7
  <2>2. n - 1 \in 0 .. n - 1
    BY <1>7
  <2> QED BY <1>9, <2>1, <2>2
<1>11. Yield(p, h, t) = Cut(a) /\ Yield(p, g, u) = Cut(b)
  BY <1>6 DEF Yield, n
<1> HIDE DEF a, b, Cut
<1> QED BY <1>6, <1>10, <1>11

\* The pairs of a list stay among those that are closed under tails.
LEMMA ChainWithin ==
  ASSUME Pairs \subseteq Vectors, IsFiniteSet(Pairs), NEW t,
         NEW M \in SUBSET Pairs, NEW p \in M,
         \A q \in M : t[q] \in Pairs => t[q] \in M
  PROVE  Chain(p, t) \subseteq M
<1>1. NoObj \notin Pairs /\ Cardinality(Pairs) \in Nat
  BY HeapAssumption, FS_CardinalityType DEF Objects
<1>2. PICK it : ListOf(it, p, t)
  BY NthIterates
<1> DEFINE T == {k \in Nat : it[k] \in M \cup {NoObj}}
<1>3. 0 \in T
  BY <1>2 DEF ListOf
<1>4. \A k \in Nat : k \in T => k + 1 \in T
  BY <1>1, <1>2 DEF ListOf, Following
<1> HIDE DEF T
<1>5. Nat \subseteq T
  BY <1>3, <1>4, SetInduction
<1>6. \A k \in 0 .. Cardinality(Pairs) : Nth(p, t, k) \in M \cup {NoObj}
  BY <1>1, <1>2, <1>5 DEF T, ListOf
<1> QED BY <1>6 DEF Chain

\* As long as no pair refers to freed memory the pairs of a list that the
\* collector owns are its own.
LEMMA ChainOwned ==
  ASSUME Pairs \subseteq Vectors, IsFiniteSet(Pairs), NEW p \in Pairs \cap managed,
         ~Dangling
  PROVE  Chain(p, tail) \subseteq managed
<1>1. Pairs \cap Prims = {} /\ NoObj \notin Pairs
  BY HeapAssumption DEF Objects
<1>2. \A q \in Pairs \cap managed : tail[q] \in Pairs => tail[q] \in Pairs \cap managed
  BY <1>1 DEF Dangling
<1> QED BY <1>2, ChainWithin

\* A pair that holds nothing yields nothing.
LEMMA EmptyList ==
  ASSUME Pairs \subseteq Vectors, IsFiniteSet(Pairs), NEW p \in Pairs,
         NEW h, NEW t, h[p] = NoObj, t[p] = NoObj
  PROVE  Chain(p, t) = {p} /\ Yield(p, h, t) = <<>>
<1>1. NoObj \notin Pairs /\ Cardinality(Pairs) \in Nat
  BY HeapAssumption, FS_CardinalityType DEF Objects
<1>2. PICK it : ListOf(it, p, t)
  BY NthIterates
<1> DEFINE T == {k \in Nat : it[k] \in {p, NoObj}}
<1>3. 0 \in T /\ \A k \in Nat : k \in T => k + 1 \in T
  BY <1>1, <1>2 DEF ListOf, Following
<1> HIDE DEF T
<1>4. Nat \subseteq T
  BY <1>3, SetInduction
<1>5. Chain(p, t) = {p}
  <2>1. \A k \in 0 .. Cardinality(Pairs) : Nth(p, t, k) \in {p, NoObj}
    BY <1>1, <1>2, <1>4 DEF T, ListOf
  <2>2. p \in Chain(p, t)
    BY ChainFacts
  <2> QED BY <2>1, <2>2 DEF Chain
<1>6. Cardinality(Chain(p, t)) = 1
  BY <1>5, FS_Singleton
<1> DEFINE all == [k \in 1 .. 1 + 1 |->
                     IF k <= 1 THEN h[Nth(p, t, k - 1)] ELSE t[Nth(p, t, 1 - 1)]]
           ends == {k \in 1 .. 1 + 1 : all[k] = NoObj}
           m == CHOOSE k \in ends : \A j \in ends : k <= j
<1>7. Yield(p, h, t) = IF ends = {} THEN all ELSE SubSeq(all, 1, m - 1)
  BY <1>6 DEF Yield
<1>8. all[1] = NoObj
  <2>1. Nth(p, t, 0) = p
    BY <1>2 DEF ListOf
  <2> QED BY <2>1
<1> HIDE DEF all
<1>9. 1 \in ends /\ \A j \in ends : 1 <= j
  BY <1>8
<1>10. m \in ends /\ \A j \in ends : m <= j
  <2> HIDE DEF ends
  <2> QED BY <1>9
<1>11. m = 1
  BY <1>9, <1>10
<1> HIDE DEF m, ends
<1>12. SubSeq(all, 1, 1 - 1) = <<>>
  BY DEF all
<1> QED BY <1>5, <1>7, <1>9, <1>11, <1>12

(***************************************************************************)
(* What the steps of the composition change.                               *)
(***************************************************************************)

\* A step of the collector or of a vector is a step of EschGc.
LEMMA GcNext ==
  ASSUME IInv, GcStep \/ AppendToVector
  PROVE  Next
<1>1. CASE GcStep
  BY <1>1 DEF GcStep, Next
<1>2. CASE AppendToVector
  <2>1. Mutate
    BY <1>2 DEF AppendToVector, Mutate
  <2> QED BY <2>1 DEF Next
<1> QED BY <1>1, <1>2

\* An object is created by the collector.
Creates(o) ==
  /\ pc # "sweep" /\ pc' # "sweep" /\ o \in Objects \ alive
  /\ alive' = alive \cup {o} /\ managed' = managed \cup {o} /\ elems' = elems

Quiet ==
  UNCHANGED <<alive, managed, elems>> /\ (pc = "sweep" => pc' = "sweep")

HeapCase ==
  \/ \E o \in Objects \ Pairs : NewUnmanaged(o) \/ GcNew(o)
  \/ \E o \in Objects : DeleteUnmanaged(o) \/ Creates(o)
  \/ Quiet
  \/ /\ pc = "sweep" /\ pc' = "sweep" /\ elems' = elems
     /\ managed' \subseteq managed /\ alive' \subseteq alive
  \/ pc = "sweep" /\ Forget /\ UNCHANGED <<alive, managed>>
  \/ \E v \in Vectors \ Pairs : \E x : Running("idle") /\ AppendElem(v, x)

LEMMA HeapCases ==
  ASSUME IInv, GcStep \/ AppendToVector
  PROVE  HeapCase
<1> USE DEF HeapCase
<1>1. ASSUME NEW what, Fault(what) PROVE HeapCase
  BY <1>1 DEF Fault, Quiet, heap
<1>2. ASSUME NEW o \in Objects \ alive, pc \in {"idle", "retry"}, Attach(o)
      PROVE  HeapCase
  <2>1. CASE AttachFree(o) \/ AttachEnlarged(o)
    <3>1. Creates(o)
      BY <1>2, <2>1 DEF AttachFree, AttachEnlarged, Occupy, Creates
    <3> QED BY <3>1
  <2>2. CASE AttachEnlargeFails \/ AttachFull
    BY <1>2, <2>2 DEF AttachEnlargeFails, AttachFull, Quiet, heap
  <2>3. CASE AttachFreedBuffer
    BY <1>1, <2>3 DEF AttachFreedBuffer
  <2> QED BY <1>2, <2>1, <2>2, <2>3 DEF Attach
<1>3. ASSUME NEW r, NEW o, pc = "idle", BeginRecycle(r, o) PROVE HeapCase
  <2>1. CASE \E what : Fault(what)
    BY <1>1, <2>1
  <2>2. CASE ~ \E what : Fault(what)
    BY <1>3, <2>2 DEF BeginRecycle, Quiet, heap
  <2> QED BY <2>1, <2>2
<1>4. CASE \E o \in Objects : \/ o \notin Pairs /\ NewUnmanaged(o)
                              \/ o \notin Pairs /\ GcNew(o)
                              \/ DeleteUnmanaged(o)
  BY <1>4
<1>5. CASE \E o \in Objects : New(o) \/ NewOutOfMemory(o)
  BY <1>2, <1>3, <1>5 DEF New, NewOutOfMemory, Running
<1>6. CASE Recycle \/ DeleteGc
  BY <1>3, <1>6 DEF Recycle, DeleteGc, Running
<1>7. CASE RetryNew \/ RetryFails
  <2>1. CASE RetryNew
    <3>1. pending \in Objects \ alive /\ pc = "retry"
      BY <2>1 DEF RetryNew, Running, IInv, TypeOK, PendingNotAlive
    <3> QED BY <1>2, <2>1, <3>1 DEF RetryNew
  <2>2. CASE RetryFails
    BY <2>2 DEF RetryFails, Running, Quiet, heap
  <2> QED BY <1>7, <2>1, <2>2
<1>8. CASE VisitPrim \/ VisitChild \/ PopStack
  <2>1. CASE \E what : Fault(what)
    BY <1>1, <2>1
  <2>2. CASE ~ \E what : Fault(what)
    <3>1. Quiet
      BY <1>8, <2>2 DEF VisitPrim, VisitChild, PopStack, Running, Quiet, heap
    <3> QED BY <3>1
  <2> QED BY <2>1, <2>2
<1>9. CASE SweepKeep \/ SweepFree
  <2>1. CASE SweepKeep
    BY <2>1 DEF SweepKeep, Quiet, heap, ctl
  <2>2. CASE SweepFree /\ \E what : Fault(what)
    BY <1>1, <2>2
  <2>3. CASE SweepFree /\ ~ \E what : Fault(what)
    BY <2>3 DEF SweepFree, Running, ctl
  <2> QED BY <1>9, <2>1, <2>2, <2>3
<1>10. CASE SweepDone \/ DestructorDone
  BY <1>10 DEF SweepDone, DestructorDone, Running
<1>11. CASE Crashed
  BY <1>11 DEF Crashed, vars, heap, ctl, Quiet
<1>12. CASE AppendToVector
  BY <1>12 DEF AppendToVector, AppendElem
<1> QED BY <1>4, <1>5, <1>6, <1>7, <1>8, <1>9, <1>10, <1>11, <1>12
        DEF GcStep, Collect

\* What the collector owns is allocated.
LEMMA OwnedAlive == IInv => managed \subseteq alive
BY DEF IInv, SlotsMatchObjects

LEMMA EmptyStep ==
  ASSUME Pairs \subseteq Vectors, PairsInv, GcStep \/ AppendToVector, FreedForgotten
  PROVE  PairTypes' /\ FreedPairsEmpty'
<1>1. PairTypes'
  BY DEF PairsInv, PairTypes, FreedForgotten, PairValues
<1>2. HeapCase
  BY HeapCases DEF PairsInv
<1>3. TypeOK /\ FreedPairsEmpty /\ managed \subseteq alive
  BY OwnedAlive DEF PairsInv, IInv
<1>4. ASSUME NEW p \in Pairs, p \notin alive', pc' # "sweep" PROVE elems'[p] = <<>>
  <2>1. CASE p \notin alive /\ pc # "sweep" /\ elems'[p] = elems[p]
    BY <1>3, <2>1 DEF FreedPairsEmpty
  <2>2. CASE \E o \in Objects \ Pairs : NewUnmanaged(o) \/ GcNew(o)
    BY <1>4, <2>1, <2>2 DEF NewUnmanaged, GcNew, Running
  <2>3. CASE \E o \in Objects : DeleteUnmanaged(o)
    <3>1. PICK o \in Objects : DeleteUnmanaged(o)
      BY <2>3
    <3>2. CASE p = o
      BY <3>1, <3>2, <1>3 DEF DeleteUnmanaged, TypeOK
    <3>3. CASE p # o
      BY <1>3, <1>4, <2>1, <3>1, <3>3 DEF DeleteUnmanaged, TypeOK
    <3> QED BY <3>2, <3>3
  <2>4. CASE \E o \in Objects : Creates(o)
    BY <1>4, <2>1, <2>4 DEF Creates
  <2>5. CASE Quiet
    BY <1>4, <2>1, <2>5 DEF Quiet
  <2>6. CASE pc = "sweep" /\ Forget /\ UNCHANGED <<alive, managed>>
    BY <1>4, <2>6 DEF Forget
  <2>7. CASE \E v \in Vectors \ Pairs : \E x : Running("idle") /\ AppendElem(v, x)
    BY <1>3, <1>4, <2>1, <2>7 DEF AppendElem, Running, TypeOK
  <2> QED BY <1>2, <1>4, <2>2, <2>3, <2>4, <2>5, <2>6, <2>7 DEF HeapCase
<1>5. \A p \in Pairs : p \notin alive' => head'[p] = NoObj /\ tail'[p] = NoObj
  BY DEF FreedForgotten
<1> QED BY <1>1, <1>4, <1>5 DEF FreedPairsEmpty

\* Lists whose pairs the collector owned before are what they were.
LEMMA ListsKept ==
  ASSUME Pairs \subseteq Vectors, IsFiniteSet(Pairs), PairsInv, FreedForgotten,
         managed' \subseteq alive',
         \A p \in Pairs : p \in managed' => p \in managed /\ elems'[p] = elems[p]
  PROVE  ElementsFollowLists'
<1> SUFFICES ASSUME NEW p \in Pairs, Chain(p, tail') \subseteq managed'
             PROVE  elems'[p] = Yield(p, head', tail')
  BY DEF ElementsFollowLists
<1>1. p \in Chain(p, tail') /\ Chain(p, tail') \subseteq Pairs
  BY ChainFacts
<1>2. \A q \in Chain(p, tail') : head[q] = head'[q] /\ tail[q] = tail'[q]
  BY <1>1 DEF FreedForgotten
<1>3. Chain(p, tail) = Chain(p, tail') /\ Yield(p, head, tail) = Yield(p, head', tail')
  BY <1>2, SameList
<1>4. Chain(p, tail) \subseteq managed
  BY <1>1, <1>3
<1> QED BY <1>1, <1>3, <1>4 DEF PairsInv, ElementsFollowLists

\* A new pair is a list of its own, and no pair refers to it.
LEMMA ListsCreate ==
  ASSUME Pairs \subseteq Vectors, IsFiniteSet(Pairs), PairsInv, FreedForgotten,
         ~Dangling, NEW o \in Objects, Creates(o)
  PROVE  ElementsFollowLists'
<1>1. head' = head /\ tail' = tail
  <2>1. \A p \in Pairs : p \notin alive' => head[p] = NoObj /\ tail[p] = NoObj
    BY DEF Creates, PairsInv, FreedPairsEmpty
  <2>2. /\ head = [p \in Pairs |-> head[p]] /\ tail = [p \in Pairs |-> tail[p]]
    BY DEF PairsInv, PairTypes
  <2>3. /\ head' = [p \in Pairs |-> head[p]] /\ tail' = [p \in Pairs |-> tail[p]]
    BY <2>1 DEF FreedForgotten
  <2> QED BY <2>2, <2>3
<1> SUFFICES ASSUME NEW p \in Pairs, Chain(p, tail) \subseteq managed \cup {o}
             PROVE  elems[p] = Yield(p, head, tail)
  BY <1>1 DEF ElementsFollowLists, Creates
<1>2. CASE p = o
  <2>1. head[p] = NoObj /\ tail[p] = NoObj /\ elems[p] = <<>>
    BY <1>2 DEF Creates, PairsInv, FreedPairsEmpty
  <2> QED BY <2>1, EmptyList
<1>3. CASE p # o
  <2>1. p \in Pairs \cap managed
    BY <1>3, ChainFacts
  <2>2. Chain(p, tail) \subseteq managed
    BY <2>1, ChainOwned
  <2> QED BY <2>2 DEF PairsInv, ElementsFollowLists
<1> QED BY <1>2, <1>3

\* The setters change nothing that the collector keeps but the elements.
LEMMA SetPairStep ==
  ASSUME Pairs \subseteq Vectors, IsFiniteSet(Pairs), PairsInv,
         NEW p \in Pairs, NEW h, NEW t, SetPair(p, h, t),
         h \in [Pairs -> PairValues], t \in [Pairs -> PairValues],
         \A q \in Pairs \ {p} : h[q] = head[q] /\ t[q] = tail[q]
  PROVE  PairsInv'
<1>1. /\ UNCHANGED <<alive, managed, gc_id, table, walk, ctl>>
      /\ head' = h /\ tail' = t /\ elems' = Elements(h, t)
      /\ pc = "idle" /\ fault = "none" /\ p \in managed
  BY DEF SetPair, Running
<1>2. elems' \in [Vectors -> Seq(Objects \cup Prims)]
  <2>1. \A q \in Pairs : Yield(q, h, t) \in Seq(Objects \cup Prims)
    BY YieldType
  <2> QED BY <1>1, <2>1 DEF Elements, PairsInv, IInv, TypeOK
<1>3. IInv'
  <2>1. IInv
    BY DEF PairsInv
  <2>2. TypeOK'
    BY <1>1, <1>2, <2>1 DEF IInv, TypeOK, table, walk, ctl
  <2>3. SlotsMatchObjects' /\ FreeListLinked' /\ TableAlive' /\ FlagsWhole'
    BY <1>1, <2>1 DEF IInv, SlotsMatchObjects, FreeListLinked, FreeSlots,
       TableAlive, FlagsWhole, table, ctl
  <2>4. FreeListExact'
    BY <1>1, <2>1 DEF IInv, FreeListExact, FreeSlots, FreeChain, table
  <2>5. PendingNotAlive' /\ StackSufficesForTrees'
    BY <1>1, <2>1 DEF IInv, PendingNotAlive, StackSufficesForTrees, ctl
  <2>6. /\ MarksReachable' /\ RootFamilyMarked' /\ SweptSlots' /\ StackGrown'
        /\ StackDistinct' /\ FlatSound' /\ FlatWalk' /\ FlatHeapMarks'
        /\ IterInBounds' /\ PassedMarked' /\ RootAlone' /\ NestedHeld'
    BY <1>1 DEF MarksReachable, RootFamilyMarked, SweptSlots, StackGrown,
       StackDistinct, FlatSound, FlatWalk, FlatHeapMarks, IterInBounds, PassedMarked,
       RootAlone, NestedHeld, ctl
  <2>7. UnsweptMarked'
    BY <1>1, <2>1 DEF IInv, UnsweptMarked, table, ctl
  <2> QED BY <2>2, <2>3, <2>4, <2>5, <2>6, <2>7 DEF IInv
<1>4. PairTypes'
  BY <1>1 DEF PairTypes
<1>5. ElementsFollowLists'
  BY <1>1 DEF ElementsFollowLists, Elements
<1>6. FreedPairsEmpty'
  <2> SUFFICES ASSUME NEW q \in Pairs \ alive
               PROVE  head'[q] = NoObj /\ tail'[q] = NoObj /\ elems'[q] = <<>>
    BY <1>1 DEF FreedPairsEmpty
  <2>1. q # p /\ head[q] = NoObj /\ tail[q] = NoObj
    BY <1>1, OwnedAlive DEF PairsInv, FreedPairsEmpty
  <2>2. h[q] = NoObj /\ t[q] = NoObj
    BY <2>1
  <2>3. Yield(q, h, t) = <<>>
    BY <2>2, EmptyList
  <2> QED BY <1>1, <2>2, <2>3 DEF Elements
<1> QED BY <1>3, <1>4, <1>5, <1>6 DEF PairsInv

LEMMA PairsStep ==
  ASSUME Pairs \subseteq Vectors, IsFiniteSet(Pairs), PairsInv, [PairNext]_pvars
  PROVE  PairsInv'
<1>1. CASE UNCHANGED pvars
  <2>1. UNCHANGED <<vars, head, tail>>
    BY <1>1 DEF pvars
  <2>2. IInv'
    BY <2>1, IInvStep DEF PairsInv
  <2>3. UNCHANGED <<alive, managed, elems, pc>>
    BY <2>1 DEF vars, heap, ctl
  <2> QED BY <2>1, <2>2, <2>3
          DEF PairsInv, PairTypes, FreedPairsEmpty, ElementsFollowLists
<1>2. ASSUME GcStep \/ AppendToVector, FreedForgotten, pc # "sweep" => ~Dangling
      PROVE  PairsInv'
  <2>1. IInv'
    BY <1>2, GcNext, IInvStep DEF PairsInv
  <2>2. PairTypes' /\ FreedPairsEmpty'
    BY <1>2, EmptyStep
  <2>3. managed \subseteq alive /\ managed' \subseteq alive' /\ TypeOK
    BY <2>1, OwnedAlive DEF PairsInv, IInv, SlotsMatchObjects
  <2>4. CASE \E o \in Objects : Creates(o)
    <3>1. ElementsFollowLists'
      BY <1>2, <2>4, ListsCreate DEF Creates
    <3> QED BY <2>1, <2>2, <3>1 DEF PairsInv
  <2>5. CASE \A p \in Pairs : p \in managed' => p \in managed /\ elems'[p] = elems[p]
    <3>1. ElementsFollowLists'
      BY <1>2, <2>3, <2>5, ListsKept
    <3> QED BY <2>1, <2>2, <3>1 DEF PairsInv
  <2>6. CASE \E o \in Objects \ Pairs : NewUnmanaged(o) \/ GcNew(o)
    BY <2>5, <2>6 DEF NewUnmanaged, GcNew
  <2>7. CASE \E o \in Objects : DeleteUnmanaged(o)
    <3>1. PICK o \in Objects : DeleteUnmanaged(o)
      BY <2>7
    <3>2. \A p \in Pairs : p \in managed' => p \in managed /\ elems'[p] = elems[p]
      BY <2>3, <3>1 DEF DeleteUnmanaged, TypeOK
    <3> QED BY <2>5, <3>2
  <2>8. CASE Quiet
    BY <2>5, <2>8 DEF Quiet
  <2>9. CASE elems' = elems /\ managed' \subseteq managed
    BY <2>5, <2>9
  <2>10. CASE Forget /\ UNCHANGED <<alive, managed>>
    BY <2>3, <2>5, <2>10 DEF Forget
  <2>11. CASE \E v \in Vectors \ Pairs : \E x : AppendElem(v, x)
    BY <2>3, <2>5, <2>11 DEF AppendElem, TypeOK
  <2>12. HeapCase
    BY <1>2, HeapCases DEF PairsInv
  <2> QED BY <2>4, <2>6, <2>7, <2>8, <2>9, <2>10, <2>11, <2>12 DEF HeapCase
<1>3. ASSUME NEW p \in Pairs, NEW x \in managed \cup Prims,
             SetHead(p, x) \/ SetTail(p, x)
      PROVE  PairsInv'
  <2>1. x \in PairValues /\ PairTypes
    BY DEF PairsInv, IInv, TypeOK, PairValues
  <2>2. CASE SetHead(p, x)
    <3> DEFINE h == [head EXCEPT ![p] = x]
    <3>1. h \in [Pairs -> PairValues] /\ \A q \in Pairs \ {p} : h[q] = head[q]
      BY <2>1 DEF PairTypes
    <3>2. SetPair(p, h, tail) /\ tail \in [Pairs -> PairValues]
      BY <2>1, <2>2 DEF SetHead, PairTypes
    <3> HIDE DEF h
    <3> QED BY <3>1, <3>2, SetPairStep
  <2>3. CASE SetTail(p, x)
    <3> DEFINE t == [tail EXCEPT ![p] = x]
    <3>1. t \in [Pairs -> PairValues] /\ \A q \in Pairs \ {p} : t[q] = tail[q]
      BY <2>1 DEF PairTypes
    <3>2. SetPair(p, head, t) /\ head \in [Pairs -> PairValues]
      BY <2>1, <2>3 DEF SetTail, PairTypes
    <3> HIDE DEF t
    <3> QED BY <3>1, <3>2, SetPairStep
  <2> QED BY <1>3, <2>2, <2>3
<1> QED BY <1>1, <1>2, <1>3 DEF PairNext

\* The pairs keep the invariant of the collector, whatever lists the program
\* builds of them, and the collector keeps theirs.
THEOREM PairsInvariant ==
  ASSUME Pairs \subseteq Vectors, IsFiniteSet(Pairs)
  PROVE  PairSpec => []PairsInv
<1>1. PairInit => PairsInv
  <2> SUFFICES ASSUME PairInit PROVE PairsInv
    OBVIOUS
  <2>1. IInv
    BY IInvInit DEF PairInit
  <2>2. PairTypes /\ FreedPairsEmpty
    BY DEF PairInit, Init, PairTypes, FreedPairsEmpty, PairValues
  <2>3. ElementsFollowLists
    BY ChainFacts DEF PairInit, Init, ElementsFollowLists
  <2> QED BY <2>1, <2>2, <2>3 DEF PairsInv
<1>2. PairsInv /\ [PairNext]_pvars => PairsInv'
  BY PairsStep
<1> QED BY <1>1, <1>2, PTL DEF PairSpec

\* All values of a list that step 2 has visited are marked.
THEOREM ValuesMarked ==
  ASSUME Pairs \subseteq Vectors, IsFiniteSet(Pairs)
  PROVE  PairSpec => []VisitedValuesAreMarked
<1>1. PairsInv => VisitedValuesAreMarked
  <2> SUFFICES ASSUME PairsInv, pc = "mark", Current \in Pairs \cap managed, AtEnd,
                      ~Dangling,
                      NEW k \in DOMAIN Yield(Current, head, tail),
                      Yield(Current, head, tail)[k] \in managed
               PROVE  gc_id[Yield(Current, head, tail)[k]] \in inuse_flags
    BY DEF VisitedValuesAreMarked
  <2>1. Chain(Current, tail) \subseteq managed
    BY ChainOwned
  <2>2. elems[Current] = Yield(Current, head, tail)
    BY <2>1 DEF PairsInv, ElementsFollowLists
  <2>3. Current \in Vectors /\ TypeOK /\ iter.pos \in Nat
    BY DEF PairsInv, IInv, TypeOK
  <2>4. DOMAIN elems[Current] = 1 .. Len(elems[Current]) /\ Len(elems[Current]) \in Nat
    BY <2>3, PlaceFacts
  <2>5. k < iter.pos
    BY <2>2, <2>3, <2>4 DEF AtEnd
  <2> QED BY <2>2, <2>5 DEF PairsInv, IInv, PassedMarked
<1> QED BY <1>1, PairsInvariant, PTL

\* A step of the composition that the collector takes part in is one of its
\* own; the others happen between two collections.
LEMMA PairNextSteps ==
  ASSUME PairsInv, [PairNext]_pvars
  PROVE  \/ [Next]_vars
         \/ pc = "idle" /\ UNCHANGED <<managed, root, pc, fault, sweep>>
<1>1. CASE UNCHANGED pvars
  BY <1>1 DEF pvars
<1>2. CASE GcStep \/ AppendToVector
  BY <1>2, GcNext DEF PairsInv
<1>3. CASE \E p \in Pairs, x \in managed \cup Prims : SetHead(p, x) \/ SetTail(p, x)
  BY <1>3 DEF SetHead, SetTail, SetPair, Running, table, walk, ctl
<1> QED BY <1>1, <1>2, <1>3 DEF PairNext

\* A collector of lists frees what it should and spares what it should, as one
\* of vectors does.
THEOREM PairsCollected ==
  ASSUME Pairs \subseteq Vectors, IsFiniteSet(Pairs)
  PROVE  PairSpec => /\ GarbageIsFreed /\ RootFamilySurvives
                     /\ DeleteFreesAll /\ FlatHeapProgress
<1> DEFINE A == pc = "sweep" /\ pc' # "sweep" /\ root # NoObj
                  => managed \subseteq Reachable
           B == root # NoObj /\ root' = root
                  => \A o \in managed \ managed' : o # root /\ o \notin Children(root)
           C == pc = "sweep" /\ pc' # "sweep" /\ root = NoObj => managed' = {}
           D == pc = "mark" /\ pc' = "mark" /\ fault' = "none" /\ FlatHeap
                  => LessWork(WorkLeft', WorkLeft) /\ WorkLeft \in Nat \X Nat \X Nat
<1>1. PairsInv /\ [PairNext]_pvars => A /\ B /\ C /\ (D \/ UNCHANGED vars)
  <2> SUFFICES ASSUME PairsInv, [PairNext]_pvars
               PROVE  A /\ B /\ C /\ (D \/ UNCHANGED vars)
    OBVIOUS
  <2>1. CASE pc = "idle" /\ UNCHANGED <<managed, root, pc, fault, sweep>>
    BY <2>1
  <2>2. CASE [Next]_vars
    <3>1. IInv
      BY DEF PairsInv
    <3>2. A /\ B /\ C
      BY <2>2, <3>1, SweepLeavesReachable, FreedOutsideFamily, DeletedGivesUp
    <3>3. D \/ UNCHANGED vars
      BY <2>2, <3>1, LoopSteps, LoopVariant DEF IInv
    <3> QED BY <3>2, <3>3
  <2> QED BY <2>1, <2>2, PairNextSteps
<1> QED BY <1>1, PairsInvariant, PTL
        DEF PairSpec, GarbageIsFreed, RootFamilySurvives, DeleteFreesAll,
            FlatHeapProgress

\* With lists, too, the undefined behaviour of the collector is that which the
\* divergences name, and no other, and on flat trees there is none.
THEOREM PairFaults ==
  ASSUME Pairs \subseteq Vectors, IsFiniteSet(Pairs)
  PROVE  PairSpec => [](/\ UnionReadRight /\ FlagsFit /\ StackSufficesForTrees
                        /\ FlatTreesCollected)
<1> DEFINE Idle == pc = "idle" /\ UNCHANGED <<managed, root, pc, fault, sweep>>
<1>1. PairInit => UnionReadRight /\ FlagsFit /\ FaultPlaces
  BY DEF PairInit, Init, UnionReadRight, FlagsFit, FaultPlaces
<1>2. PairsInv /\ UnionReadRight /\ [PairNext]_pvars => UnionReadRight'
  <2> SUFFICES ASSUME PairsInv, UnionReadRight, [PairNext]_pvars PROVE UnionReadRight'
    OBVIOUS
  <2>1. CASE Idle
    BY <2>1 DEF UnionReadRight
  <2> QED BY <2>1, PairNextSteps, UnionStep DEF PairsInv
<1>3. PairsInv /\ FlagsFit /\ [PairNext]_pvars => FlagsFit'
  <2> SUFFICES ASSUME PairsInv, FlagsFit, [PairNext]_pvars PROVE FlagsFit'
    OBVIOUS
  <2>1. CASE Idle
    BY <2>1 DEF FlagsFit
  <2> QED BY <2>1, PairNextSteps, FlagsStep DEF PairsInv
<1>4. PairsInv /\ FaultPlaces /\ [PairNext]_pvars => FaultPlaces'
  <2> SUFFICES ASSUME PairsInv, FaultPlaces, [PairNext]_pvars PROVE FaultPlaces'
    OBVIOUS
  <2>1. CASE Idle
    BY <2>1 DEF FaultPlaces
  <2> QED BY <2>1, PairNextSteps, FaultPlacesStep DEF PairsInv
<1>5. /\ PairsInv => StackSufficesForTrees
      /\ PairsInv /\ UnionReadRight /\ FlagsFit /\ FaultPlaces => FlatTreesCollected
  BY FlatTreesSafe DEF PairsInv, IInv
<1>6. PairSpec => [](UnionReadRight /\ FlagsFit /\ FaultPlaces)
  BY <1>1, <1>2, <1>3, <1>4, PairsInvariant, PTL DEF PairSpec
<1> QED BY <1>5, <1>6, PairsInvariant, PTL

\* A pair of the collector is only given what the collector owns, and all that
\* it yields then is owned: values come from pairs of its list.
LEMMA SetPairMaps ==
  ASSUME Pairs \subseteq Vectors, IsFiniteSet(Pairs), PairsInv, ~Dangling,
         NEW p \in Pairs, NEW x \in managed \cup Prims,
         SetHead(p, x) \/ SetTail(p, x)
  PROVE  Collector!Mutate
<1>1. PICK h, t :
        /\ SetPair(p, h, t)
        /\ \A q \in Pairs : h[q] \in {head[q], x} /\ t[q] \in {tail[q], x}
  <2>1. PairTypes
    BY DEF PairsInv
  <2>2. CASE SetHead(p, x)
    <3> DEFINE h == [head EXCEPT ![p] = x]
    <3>1. SetPair(p, h, tail) /\ \A q \in Pairs : h[q] \in {head[q], x}
      BY <2>1, <2>2 DEF SetHead, PairTypes
    <3> HIDE DEF h
    <3> QED BY <3>1
  <2>3. CASE SetTail(p, x)
    <3> DEFINE t == [tail EXCEPT ![p] = x]
    <3>1. SetPair(p, head, t) /\ \A q \in Pairs : t[q] \in {tail[q], x}
      BY <2>1, <2>3 DEF SetTail, PairTypes
    <3> HIDE DEF t
    <3> QED BY <3>1
  <2> QED BY <2>2, <2>3
<1>2. /\ pc = "idle" /\ pc' = "idle" /\ UNCHANGED <<managed, root>>
      /\ elems' = Elements(h, t)
  BY <1>1 DEF SetPair, Running, table, ctl
<1>3. \A q \in Pairs \cap managed :
         {h[q], t[q]} \subseteq (managed \cup Prims) \cup {NoObj}
  BY <1>1 DEF Dangling
<1>4. ASSUME NEW q \in Pairs \cap managed PROVE Children(q)' \subseteq managed
  <2>1. Chain(q, t) \subseteq Pairs \cap managed
    <3>1. \A u \in Pairs \cap managed : t[u] \in Pairs => t[u] \in Pairs \cap managed
      BY <1>3, HeapAssumption DEF Objects
    <3> QED BY <3>1, ChainWithin
  <2>2. Yield(q, h, t) \in Seq(managed \cup Prims)
    BY <1>3, <2>1, YieldFrom
  <2>3. elems'[q] \in Seq(managed \cup Prims)
    BY <1>2, <2>2 DEF Elements
  <2>4. \A k \in DOMAIN elems'[q] : elems'[q][k] \in managed \cup Prims
    BY <2>3, LenProperties, ElementOfSeq
  <2> QED BY <2>4, HeapAssumption DEF Children
<1>5. \A v \in Vectors \ Pairs : Children(v)' = Children(v)
  BY <1>2 DEF Elements, Children
<1>6. Owned = managed /\ Owned' = Owned
  BY <1>2 DEF Owned
<1> QED BY <1>2, <1>4, <1>5, <1>6, MutateMaps

\* The program that builds lists sees the same collector as the one that fills
\* vectors: setting the head or tail of a pair may change what many pairs hold,
\* but only by what the collector owns.
THEOREM PairsImplementCollector ==
  ASSUME Pairs \subseteq Vectors, IsFiniteSet(Pairs)
  PROVE  PairSpec => ImplementsCollector
<1>1. PairInit => Collector!Init
  BY CollectorInit DEF PairInit
<1>2. PairsInv /\ PairsInv' /\ [PairNext]_pvars
        => [Collector!Next]_(Collector!vars)
  <2> SUFFICES ASSUME PairsInv, PairsInv', [PairNext]_pvars
               PROVE  [Collector!Next]_(Collector!vars)
    OBVIOUS
  <2>1. IInv /\ IInv'
    BY DEF PairsInv
  <2>2. CASE [Next]_vars
    BY <2>1, <2>2, CollectorStep
  <2>3. CASE UNCHANGED pvars
    BY <2>2, <2>3 DEF pvars
  <2>4. CASE GcStep \/ AppendToVector
    BY <2>1, <2>2, <2>4, GcNext
  <2>5. ASSUME NEW p \in Pairs, NEW x \in managed \cup Prims, ~Dangling,
               SetHead(p, x) \/ SetTail(p, x)
        PROVE  Collector!Next
    BY <2>5, SetPairMaps DEF Collector!Next
  <2>6. CASE PairNext /\ pc = "sweep"
    <3>1. ~ \E p \in Pairs, x \in managed \cup Prims : SetHead(p, x) \/ SetTail(p, x)
      BY <2>6 DEF SetHead, SetTail, SetPair, Running
    <3> QED BY <2>4, <2>6, <3>1 DEF PairNext
  <2> QED BY <2>3, <2>4, <2>5, <2>6 DEF PairNext
<1>3. PairSpec => Collector!Init /\ [][Collector!Next]_(Collector!vars)
  BY <1>1, <1>2, PairsInvariant, PTL DEF PairSpec
<1> QED BY <1>3 DEF ImplementsCollector, Collector!Spec
=============================================================================
