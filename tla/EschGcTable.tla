----------------------------- MODULE EschGcTable ----------------------------
(***************************************************************************)
(* The steps of EschGc sorted by what they change, which is how the proofs *)
(* of its invariants go through them; the types, which every step keeps;   *)
(* and the slot table: every step keeps slots and objects matched and the  *)
(* free list exact.                                                        *)
(***************************************************************************)
EXTENDS EschGcInv, WellOrdering, SequenceTheorems

\* The functions over objects are total on what the actions apply them to.
LEMMA SeqTypes ==
  ASSUME NEW S, NEW s \in Seq(S)
  PROVE  /\ \A x \in S : Append(s, x) \in Seq(S) /\ Len(Append(s, x)) = Len(s) + 1
         /\ Len(s) \in Nat
         /\ Front(s) \in Seq(S)
         /\ s # <<>> => Len(Front(s)) = Len(s) - 1
         /\ s # <<>> => Last(s) \in S
         /\ \A k \in DOMAIN s, x \in S : [s EXCEPT ![k] = x] \in Seq(S)
<1>1. \A x \in S : Append(s, x) \in Seq(S) /\ Len(Append(s, x)) = Len(s) + 1
  BY AppendProperties
<1>2. Len(s) \in Nat
  BY LenProperties
<1>3. s # <<>> => Len(s) > 0
  BY EmptySeq
<1>4. Front(s) \in Seq(S) /\ (s # <<>> => Len(Front(s)) = Len(s) - 1)
  <2>1. CASE s = <<>>
    BY <2>1 DEF Front
  <2>2. CASE s # <<>>
    <3>1. \A i \in 1 .. Len(s) - 1 : s[i] \in S
      BY <1>2, ElementOfSeq
    <3>2. /\ SubSeq(s, 1, Len(s) - 1) \in Seq(S)
          /\ Len(SubSeq(s, 1, Len(s) - 1))
               = IF 1 <= Len(s) - 1 THEN (Len(s) - 1) - 1 + 1 ELSE 0
      <4>1. 1 \in Int /\ Len(s) - 1 \in Int
        BY <1>2
      <4> QED BY <4>1, <3>1, SubSeqProperties
    <3>3. Len(s) - 1 = IF 1 <= Len(s) - 1 THEN (Len(s) - 1) - 1 + 1 ELSE 0
      <4>1. Len(s) > 0
        BY <2>2, <1>3, Zenon
      <4>2. \A n \in Nat :
              n > 0 => n - 1 = IF 1 <= n - 1 THEN (n - 1) - 1 + 1 ELSE 0
        OBVIOUS
      <4> QED BY <4>1, <4>2, <1>2, Zenon
    <3>4. Front(s) = SubSeq(s, 1, Len(s) - 1)
      BY Zenon DEF Front
    <3> HIDE DEF Front
    <3> QED BY <3>2, <3>3, <3>4, Zenon
  <2> QED BY <2>1, <2>2
<1>5. s # <<>> => Last(s) \in S
  BY <1>2, <1>3, ElementOfSeq DEF Last
<1>6. \A k \in DOMAIN s, x \in S : [s EXCEPT ![k] = x] \in Seq(S)
  BY LenProperties, ExceptSeq
<1> QED BY <1>1, <1>2, <1>3, <1>4, <1>5, <1>6

LEMMA ChainTypes ==
  /\ \A lo, hi \in Nat : FreshChain(lo, hi) \in [lo .. hi -> Nat]
  /\ \A r \in Objects : NewSlots(r) \in [0 .. InitialSlots - 1 -> Objects \cup Nat]
  /\ TypeOK => EnlargedSlots \in [0 .. 2 * slot_count - 1 -> Objects \cup Nat]
<1>1. \A lo, hi \in Nat : FreshChain(lo, hi) \in [lo .. hi -> Nat]
  BY DEF FreshChain, ROOT_INDEX
<1>2. \A r \in Objects : NewSlots(r) \in [0 .. InitialSlots - 1 -> Objects \cup Nat]
  <2> TAKE r \in Objects
  <2>1. FreshChain(1, InitialSlots - 1) \in [1 .. InitialSlots - 1 -> Nat]
    BY <1>1, SlotAssumption
  <2> QED BY <2>1, SlotAssumption DEF NewSlots, ROOT_INDEX
<1>3. TypeOK => EnlargedSlots \in [0 .. 2 * slot_count - 1 -> Objects \cup Nat]
  <2> HAVE TypeOK
  <2>1. slot_count \in Nat
    BY DEF TypeOK
  <2>2. FreshChain(slot_count, 2 * slot_count - 1)
          \in [slot_count .. 2 * slot_count - 1 -> Nat]
    <3>1. CASE slot_count = 0
      BY <3>1 DEF FreshChain, ROOT_INDEX
    <3>2. CASE slot_count # 0
      BY <3>2, <2>1, <1>1
    <3> QED BY <3>1, <3>2
  <2> QED BY <2>1, <2>2 DEF EnlargedSlots, TypeOK
<1> QED BY <1>1, <1>2, <1>3

LEMMA TypeOccupy ==
  ASSUME TypeOK, NEW o \in Objects, NEW tbl, NEW count \in Nat,
         tbl \in [0 .. count - 1 -> Objects \cup Nat],
         NEW head \in 0 .. count - 1, tbl[head] \in Nat,
         Occupy(o, tbl, count, head)
  PROVE  TypeOK'
  BY DEF TypeOK, Occupy, walk

(***************************************************************************)
(* A step of the specification is one of the following.  The disjuncts     *)
(* group what changes the same variables in the same way.                  *)
(***************************************************************************)

\* Nothing but fault changes: stuttering and every undefined behaviour.
Still == UNCHANGED <<heap, table, walk, pending, pc>>

\* esch_object_new_i gives up; at most buffers of the table were freed.
GivesUp ==
  /\ pc \in {"idle", "retry"} /\ pc' = "idle" /\ pending' = NoObj
  /\ freed' \in SUBSET {"slots", "inuse_flags"}
  /\ UNCHANGED <<heap, root, slots, slot_count, usable_slot, walk>>

Attaches(o) ==
  /\ pc \in {"idle", "retry"} /\ o \notin alive
  /\ AttachFree(o) \/ AttachEnlarged(o)

\* A collection starts from root r, on behalf of the creation of o.
Starts(r, o) ==
  /\ pc = "idle" /\ root' = r /\ pending' = o /\ failed' = FALSE /\ sweep' = 0
  /\ r = root \/ r = NoObj
  /\ o = NoObj \/ o \in Objects \ alive
  /\ \/ /\ r = NoObj /\ pc' = "sweep" /\ inuse_flags' = FreeChain
        /\ UNCHANGED <<recycle_stack, iter>>
     \/ /\ r # NoObj /\ pc' = "mark"
        /\ inuse_flags' = FreeChain \cup {gc_id[r]}
        /\ recycle_stack' = <<r>> /\ iter' = Start(r)
  /\ UNCHANGED <<heap, slots, slot_count, usable_slot, freed>>

\* A child that VisitChild marks.
Visits ==
  /\ pc = "mark" /\ iter.pos <= Len(elems[Current]) /\ Element \in Objects
  /\ inuse_flags' = inuse_flags \cup {gc_id[Element]}
  /\ recycle_stack' = Pushed(Element) /\ Advance
  /\ UNCHANGED <<heap, table, sweep, failed, pending, pc>>

\* The top of the stack goes, and the container below is next.
PopsToNext ==
  /\ pc = "mark" /\ iter.pos > Len(elems[Current])
  /\ recycle_stack' = Front(recycle_stack)
  /\ Front(recycle_stack) # <<>> /\ Len(Front(recycle_stack)) # 1
  /\ inuse_flags' = inuse_flags \cup {gc_id[Last(Front(recycle_stack))]}
  /\ iter' = Start(Last(Front(recycle_stack)))
  /\ UNCHANGED <<heap, table, sweep, failed, pending, pc>>

PopsToSweep ==
  /\ pc = "mark" /\ iter.pos > Len(elems[Current])
  /\ recycle_stack' = Front(recycle_stack) /\ Len(Front(recycle_stack)) = 1
  /\ inuse_flags' = inuse_flags \cup {gc_id[root]}
  /\ pc' = "sweep"
  /\ UNCHANGED <<heap, table, iter, sweep, failed, pending>>

\* The object o of the slot at the sweep is destroyed.
Frees(o) ==
  /\ pc = "sweep" /\ sweep < slot_count /\ sweep \notin inuse_flags
  /\ slots[sweep] = o
  /\ managed' = managed \ {o}
  /\ gc_id' = [gc_id EXCEPT ![o] = 0]
  /\ alive' \in {alive, alive \ {o}} /\ failed' \in BOOLEAN
  /\ slots' = Unlinked(sweep) /\ usable_slot' = sweep /\ sweep' = sweep + 1
  /\ UNCHANGED <<elems, root, slot_count, freed, inuse_flags, recycle_stack,
                 iter, pending, pc>>

\* A collection ends: the collector stays, or it is deleted.
Ends ==
  /\ pc = "sweep" /\ sweep = slot_count
  /\ Forget /\ UNCHANGED <<alive, managed, gc_id, pending>>
  /\ \/ /\ root # NoObj
        /\ pc' = (IF pending = NoObj THEN "idle" ELSE "retry")
        /\ UNCHANGED table
     \/ root = NoObj /\ pc' = "idle" /\ UNCHANGED table
     \/ root = NoObj /\ pc' = "none" /\ NoTable

\* Writes an element of a vector.
Writes(v, x) ==
  /\ pc = "idle" /\ x \in managed \cup Prims
  /\ \/ elems' = [elems EXCEPT ![v] = Append(@, x)]
     \/ \E k \in DOMAIN elems[v] : elems' = [elems EXCEPT ![v][k] = x]
  /\ UNCHANGED <<alive, managed, gc_id, table, walk, pending, pc>>

StepCase ==
  \/ Still
  \/ \E o \in Objects : NewUnmanaged(o) \/ DeleteUnmanaged(o) \/ GcNew(o)
  \/ GivesUp
  \/ \E o \in Objects : Attaches(o)
  \/ \E r \in Vectors \cup {NoObj}, o \in Objects \cup {NoObj} : Starts(r, o)
  \/ VisitPrim \/ Visits \/ PopsToNext \/ PopsToSweep
  \/ SweepKeep \/ (\E o \in Objects : Frees(o)) \/ Ends
  \/ \E v \in Vectors, x \in Objects \cup Prims : Writes(v, x)

LEMMA StepCases ==
  ASSUME TypeOK, PendingNotAlive, [Next]_vars
  PROVE  StepCase
<1>1. CASE UNCHANGED vars
  BY <1>1 DEF vars, heap, table, walk, ctl, StepCase, Still
<1>2. ASSUME NEW what, Fault(what) PROVE StepCase
  BY <1>2 DEF Fault, StepCase, Still
<1>3. ASSUME NEW o \in Objects,
             NewUnmanaged(o) \/ DeleteUnmanaged(o) \/ GcNew(o)
      PROVE  StepCase
  BY <1>3 DEF StepCase
<1>4. ASSUME NEW o \in Objects \ alive, pc \in {"idle", "retry"}, Attach(o)
      PROVE  StepCase
  <2>1. CASE AttachFree(o) \/ AttachEnlarged(o)
    BY <1>4, <2>1 DEF StepCase, Attaches
  <2>2. CASE AttachEnlargeFails \/ AttachFull
    BY <1>4, <2>2 DEF TypeOK, AttachEnlargeFails, AttachFull, StepCase, GivesUp,
                      heap, table, walk
  <2>3. CASE AttachFreedBuffer
    BY <1>2, <2>3 DEF AttachFreedBuffer
  <2> QED BY <1>4, <2>1, <2>2, <2>3 DEF Attach
<1>5. ASSUME NEW r \in Vectors \cup {NoObj}, NEW o \in Objects \cup {NoObj},
             pc = "idle", r = root \/ r = NoObj, o = NoObj \/ o \in Objects \ alive,
             BeginRecycle(r, o)
      PROVE  StepCase
  <2>1. CASE \E what : Fault(what)
    BY <1>2, <2>1
  <2>2. CASE Starts(r, o)
    BY <2>2 DEF StepCase
  <2> QED BY <1>5, <2>1, <2>2 DEF BeginRecycle, Starts, MarkedFreeList
<1>6. CASE Recycle \/ DeleteGc
  BY <1>5, <1>6 DEF Recycle, DeleteGc, Running, TypeOK
<1>7. ASSUME NEW o \in Objects, New(o) \/ NewOutOfMemory(o) PROVE StepCase
  BY <1>4, <1>5, <1>7 DEF New, NewOutOfMemory, Running, TypeOK
<1>8. CASE RetryNew
  BY <1>4, <1>8 DEF RetryNew, Running, TypeOK, PendingNotAlive
<1>9. CASE RetryFails
  BY <1>9 DEF RetryFails, Running, TypeOK, StepCase, GivesUp, heap, table, walk
<1>10. CASE Mutate
  <2>1. PICK v \in Vectors \cap managed, x \in managed \cup Prims :
           \/ AppendElem(v, x)
           \/ \E k \in 1 .. MaxLen : SetElem(v, k, x)
    BY <1>10 DEF Mutate
  <2>2. Writes(v, x)
    BY <2>1 DEF Writes, AppendElem, SetElem, Running, ctl
  <2> QED BY <2>2 DEF StepCase, TypeOK
<1>11. CASE VisitPrim \/ VisitChild
  <2>1. CASE VisitPrim
    BY <2>1 DEF StepCase
  <2>2. CASE VisitChild /\ ~ \E what : Fault(what)
    <3>1. iter.pos <= Len(elems[Current])
      BY <2>2, SeqTypes DEF VisitChild, AtEnd, TypeOK, Current, Running
    <3> QED BY <2>2, <3>1 DEF VisitChild, Visits, StepCase, Running, Marked, ctl
  <2> QED BY <1>2, <1>11, <2>1, <2>2
<1>12. CASE PopStack
  <2>1. CASE \E what : Fault(what)
    BY <1>2, <2>1
  <2>2. CASE PopsToNext \/ PopsToSweep
    BY <2>2 DEF StepCase
  <2> QED BY <1>12, <2>1, <2>2
        DEF PopStack, AtEnd, PopsToNext, PopsToSweep, Running, Popped, Marked
<1>13. CASE SweepKeep \/ SweepFree
  <2>1. CASE SweepKeep
    BY <2>1 DEF StepCase
  <2>2. CASE SweepFree /\ ~ \E what : Fault(what)
    <3>1. slots[sweep] \in Objects
      BY <2>2 DEF SweepFree
    <3>2. Frees(slots[sweep])
      BY <2>2, <3>1 DEF SweepFree, Frees, Running, SweepEnd, ctl
    <3> QED BY <3>1, <3>2 DEF StepCase
  <2> QED BY <1>2, <1>13, <2>1, <2>2
<1>14. CASE SweepDone \/ DestructorDone
  BY <1>14 DEF SweepDone, DestructorDone, Running, SweepEnd, StepCase, Ends
<1>15. CASE Crashed
  BY <1>1, <1>15 DEF Crashed
<1> QED BY <1>1, <1>3, <1>6, <1>7, <1>8, <1>9, <1>10, <1>11, <1>12, <1>13,
           <1>14, <1>15 DEF Next, Collect

(***************************************************************************)
(* Type correctness.                                                       *)
(***************************************************************************)
LEMMA FreeChainType == TypeOK => FreeChain \subseteq Nat
  BY DEF TypeOK, FreeChain

LEMMA AdvanceType ==
  ASSUME TypeOK, Advance
  PROVE  /\ iter' \in [container : Vectors \cup {NoObj}, pos : Nat]
         /\ iter'.container = iter.container /\ iter'.pos = iter.pos + 1
<1>1. iter \in [container : Vectors \cup {NoObj}, pos : Nat]
  BY DEF TypeOK
<1>2. iter' = [iter EXCEPT !.pos = iter.pos + 1]
  BY DEF Advance
<1> QED BY <1>1, <1>2

LEMMA FaultType ==
  ASSUME TypeOK, [Next]_vars
  PROVE  fault' \in Faults
<1>1. CASE UNCHANGED vars
  BY <1>1 DEF TypeOK, vars, ctl
<1>2. fault \in Faults
  BY DEF TypeOK
<1>3. ASSUME NEW what \in Faults, Fault(what) PROVE fault' \in Faults
  BY <1>3 DEF Fault
<1>4. ASSUME NEW o, Attach(o) PROVE fault' \in Faults
  BY <1>2, <1>4 DEF Attach, AttachFree, AttachEnlarged, AttachEnlargeFails,
     AttachFull, AttachFreedBuffer, Fault, Faults, Occupy
<1>5. ASSUME NEW r, NEW o, BeginRecycle(r, o) PROVE fault' \in Faults
  BY <1>2, <1>5 DEF BeginRecycle, Fault, Faults
<1>6. CASE \E o \in Objects :
        \/ NewUnmanaged(o) \/ DeleteUnmanaged(o) \/ GcNew(o)
        \/ New(o) \/ NewOutOfMemory(o)
  BY <1>2, <1>4, <1>5, <1>6
     DEF NewUnmanaged, DeleteUnmanaged, GcNew, New, NewOutOfMemory, ctl, Faults
<1>7. CASE Mutate \/ Crashed
  BY <1>2, <1>7 DEF Mutate, AppendElem, SetElem, Crashed, vars, ctl
<1>8. CASE Recycle \/ DeleteGc \/ RetryNew \/ RetryFails
  BY <1>2, <1>4, <1>5, <1>8 DEF Recycle, DeleteGc, RetryNew, RetryFails
<1>9. CASE Collect
  BY <1>2, <1>9 DEF Collect, VisitPrim, VisitChild, PopStack, SweepKeep,
     SweepFree, SweepDone, DestructorDone, Fault, Faults, ctl
<1> QED BY <1>1, <1>6, <1>7, <1>8, <1>9 DEF Next

LEMMA TypeStep ==
  ASSUME TypeOK, FreeListLinked, TableAlive, MarksReachable, StepCase,
         fault' \in Faults
  PROVE  TypeOK'
<1> USE DEF Faults
<1>1. CASE Still
  BY <1>1 DEF Still, TypeOK, heap, table, walk
<1>2. ASSUME NEW o \in Objects, NewUnmanaged(o) \/ DeleteUnmanaged(o) PROVE TypeOK'
  <2>1. <<>> \in Seq(Objects \cup Prims)
    BY EmptySeq
  <2>2. CASE NewUnmanaged(o)
    BY <2>2 DEF NewUnmanaged, TypeOK, table, walk, ctl, Objects
  <2>3. CASE DeleteUnmanaged(o)
    <3>1. elems' \in [Vectors -> Seq(Objects \cup Prims)]
      BY <2>3, <2>1 DEF DeleteUnmanaged, TypeOK
    <3> QED BY <2>3, <3>1 DEF DeleteUnmanaged, TypeOK, table, walk, ctl
  <2> QED BY <1>2, <2>2, <2>3
<1>3. ASSUME NEW o \in Objects, GcNew(o) PROVE TypeOK'
  <2>1. InitialSlots \in Nat /\ InitialSlots - 1 \in Nat
    BY SlotAssumption
  <2>2. slots' \in [0 .. slot_count' - 1 -> Objects \cup Nat]
    BY <1>3, ChainTypes DEF GcNew
  <2>3. gc_id' \in [Objects -> Nat]
    BY <1>3 DEF GcNew, TypeOK, ROOT_INDEX
  <2>4. iter' = iter /\ recycle_stack' = recycle_stack /\ sweep' = sweep
        /\ inuse_flags' = inuse_flags /\ failed' = failed
    BY <1>3 DEF GcNew, walk
  <2> QED BY <1>3, <2>1, <2>2, <2>3, <2>4 DEF GcNew, TypeOK
<1>4. CASE GivesUp
  BY <1>4 DEF GivesUp, TypeOK, heap, walk
<1>5. ASSUME NEW o \in Objects, Attaches(o) PROVE TypeOK'
  <2>1. CASE AttachFree(o)
    <3>1. usable_slot \in FreeSlots
      BY <2>1 DEF AttachFree, FreeListLinked
    <3>2. usable_slot \in 0 .. slot_count - 1 /\ slots[usable_slot] \in Nat
      BY <3>1 DEF FreeSlots, TypeOK
    <3> QED BY <2>1, <3>2, TypeOccupy DEF AttachFree, TypeOK
  <2>2. CASE AttachEnlarged(o)
    <3>1. slot_count > 0 /\ slot_count \in Nat
      BY <1>5 DEF TableAlive, Attaches, TypeOK
    <3>2. EnlargedSlots[2 * slot_count - 1] \in Nat
      BY <3>1 DEF EnlargedSlots, FreshChain, ROOT_INDEX
    <3>3. /\ EnlargedSlots \in [0 .. 2 * slot_count - 1 -> Objects \cup Nat]
          /\ 2 * slot_count \in Nat
          /\ 2 * slot_count - 1 \in 0 .. 2 * slot_count - 1
      BY <3>1, ChainTypes
    <3> QED BY <2>2, <3>2, <3>3, TypeOccupy DEF AttachEnlarged
  <2> QED BY <1>5, <2>1, <2>2 DEF Attaches
<1>6. ASSUME NEW r \in Vectors \cup {NoObj}, NEW o \in Objects \cup {NoObj},
             Starts(r, o)
      PROVE  TypeOK'
  <2>1. r \in Vectors =>
          /\ <<r>> \in Seq(Vectors)
          /\ Start(r) \in [container : Vectors \cup {NoObj}, pos : Nat]
    BY DEF Start
  <2>2. r \in Vectors => gc_id[r] \in Nat
    BY DEF TypeOK, Objects
  <2> QED BY <1>6, <2>1, <2>2, FreeChainType DEF Starts, TypeOK, heap
<1>7. CASE VisitPrim
  <2>1. iter' \in [container : Vectors \cup {NoObj}, pos : Nat]
    BY <1>7, AdvanceType DEF VisitPrim
  <2> QED BY <1>7, <2>1 DEF VisitPrim, TypeOK, heap, table, ctl
<1>8. CASE Visits
  <2>1. Pushed(Element) \in Seq(Vectors)
    BY <1>8, SeqTypes DEF Pushed, TypeOK
  <2>2. gc_id[Element] \in Nat
    BY <1>8 DEF Visits, TypeOK
  <2>3. iter' \in [container : Vectors \cup {NoObj}, pos : Nat]
    BY <1>8, AdvanceType DEF Visits
  <2> QED BY <1>8, <2>1, <2>2, <2>3 DEF Visits, TypeOK, heap, table
<1>9. CASE PopsToNext
  <2>1. Front(recycle_stack) \in Seq(Vectors)
    BY SeqTypes DEF TypeOK
  <2>2. Last(Front(recycle_stack)) \in Vectors
    BY <1>9, <2>1, SeqTypes DEF PopsToNext
  <2>3. gc_id[Last(Front(recycle_stack))] \in Nat
    BY <2>2 DEF TypeOK, Objects
  <2> QED BY <1>9, <2>1, <2>2, <2>3 DEF PopsToNext, Start, TypeOK, heap, table
<1>10. CASE PopsToSweep
  <2>1. Front(recycle_stack) \in Seq(Vectors)
    BY SeqTypes DEF TypeOK
  <2>2. gc_id[root] \in Nat
    BY <1>10 DEF PopsToSweep, MarksReachable, TypeOK, Objects
  <2> QED BY <1>10, <2>1, <2>2 DEF PopsToSweep, TypeOK, heap, table
<1>11. CASE SweepKeep
  BY <1>11 DEF SweepKeep, TypeOK, heap, table, ctl
<1>12. ASSUME NEW o \in Objects, Frees(o) PROVE TypeOK'
  BY <1>12 DEF Frees, Unlinked, TypeOK
<1>13. CASE Ends
  <2>1. <<>> \in Seq(Objects \cup Prims) /\ <<>> \in Seq(Vectors)
    BY EmptySeq
  <2>2. elems' \in [Vectors -> Seq(Objects \cup Prims)]
    BY <1>13, <2>1 DEF Ends, Forget, TypeOK
  <2>3. /\ root' \in Vectors \cup {NoObj} /\ slot_count' \in Nat
        /\ slots' \in [0 .. slot_count' - 1 -> Objects \cup Nat]
        /\ usable_slot' \in Nat /\ freed' \subseteq {"slots", "inuse_flags"}
    <3>1. CASE NoTable
      <4>1. 0 .. 0 - 1 = {}
        OBVIOUS
      <4>2. [i \in {} |-> 0] \in [{} -> Objects \cup Nat]
        OBVIOUS
      <4> QED BY <3>1, <4>1, <4>2 DEF NoTable
    <3>2. CASE UNCHANGED table
      BY <3>2 DEF TypeOK, table
    <3> QED BY <1>13, <3>1, <3>2 DEF Ends
  <2> QED BY <1>13, <2>1, <2>2, <2>3 DEF Ends, Forget, Start, TypeOK
<1>14. ASSUME NEW v \in Vectors, NEW x \in Objects \cup Prims, Writes(v, x)
       PROVE TypeOK'
  <2>1. elems' \in [Vectors -> Seq(Objects \cup Prims)]
    <3>1. elems[v] \in Seq(Objects \cup Prims)
      BY DEF TypeOK
    <3>2. Append(elems[v], x) \in Seq(Objects \cup Prims)
      BY <3>1, SeqTypes
    <3>3. \A k \in DOMAIN elems[v] :
             [elems[v] EXCEPT ![k] = x] \in Seq(Objects \cup Prims)
      BY <3>1, SeqTypes
    <3> QED BY <1>14, <3>2, <3>3 DEF Writes, TypeOK
  <2> QED BY <1>14, <2>1 DEF Writes, TypeOK, table, walk
<1> QED BY <1>1, <1>2, <1>3, <1>4, <1>5, <1>6, <1>7, <1>8, <1>9, <1>10, <1>11,
           <1>12, <1>13, <1>14 DEF StepCase

-----------------------------------------------------------------------------
(***************************************************************************)
(* The slot table.                                                         *)
(***************************************************************************)
\* A set that holds hi, and with a number the one below it, holds all down
\* to lo.
LEMMA DownToLo ==
  ASSUME NEW lo \in Nat, NEW hi \in Nat, NEW S,
         lo <= hi => hi \in S,
         \A j \in lo .. hi : j \in S /\ j # lo => j - 1 \in S
  PROVE  lo .. hi \subseteq S
<1> DEFINE T == {k \in Nat : hi - k \in lo .. hi /\ hi - k \notin S}
<1>1. SUFFICES ASSUME NEW i \in lo .. hi, i \notin S PROVE FALSE
  OBVIOUS
<1>2. hi - i \in T
  BY <1>1
<1>3. PICK m \in T : \A n \in T : m <= n
  <2> HIDE DEF T
  <2>1. T \subseteq Nat
    BY DEF T
  <2> QED BY <1>2, <2>1, NatMin
<1>4. m # 0
  BY <1>3
<1>5. m - 1 \in Nat /\ m - 1 \notin T
  BY <1>3, <1>4
<1>6. hi - (m - 1) \in S
  BY <1>3, <1>5, <1>4
<1>7. (hi - (m - 1)) - 1 = hi - m
  BY <1>3
<1>8. hi - (m - 1) \in lo .. hi /\ hi - (m - 1) # lo
  BY <1>3, <1>4
<1>9. hi - m \in S
  BY <1>6, <1>7, <1>8
<1> QED BY <1>3, <1>9

LEMMA FreeChainFree ==
  ASSUME TypeOK, FreeListLinked
  PROVE  FreeChain \subseteq FreeSlots
<1>1. FreeSlots \in SUBSET (1 .. slot_count - 1)
  BY DEF FreeSlots
<1>2. usable_slot # ROOT_INDEX => usable_slot \in FreeSlots
  BY DEF FreeListLinked
<1>3. \A j \in FreeSlots : slots[j] \in 1 .. slot_count - 1 => slots[j] \in FreeSlots
  BY DEF FreeListLinked, ROOT_INDEX
<1> QED BY <1>1, <1>2, <1>3 DEF FreeChain

\* Without a free slot at its head the free list is empty.
LEMMA FreeListEmpty ==
  ASSUME FreeListExact, root # NoObj, usable_slot = ROOT_INDEX
  PROVE  FreeSlots = {}
<1>1. FreeChain = {}
  <2>1. {} \in SUBSET (1 .. slot_count - 1)
    OBVIOUS
  <2> QED BY <2>1 DEF FreeChain
<1> QED BY <1>1 DEF FreeListExact

\* What a table looks like to a set that follows the links of the free list.
ClosedUnderLinks(S, tbl, count, head) ==
  /\ S \in SUBSET (1 .. count - 1)
  /\ head # ROOT_INDEX => head \in S
  /\ \A j \in S : tbl[j] \in 1 .. count - 1 => tbl[j] \in S

LEMMA FreeChainMember ==
  ASSUME NEW T, T \subseteq 1 .. slot_count - 1,
         \A S : ClosedUnderLinks(S, slots, slot_count, usable_slot) => T \subseteq S
  PROVE  T \subseteq FreeChain
BY DEF FreeChain, ClosedUnderLinks

\* The free slots after the head of the list was occupied.
LEMMA OccupiedFree ==
  ASSUME TypeOK, NEW o \in Objects, NEW head \in FreeSlots,
         slots' = [slots EXCEPT ![head] = o],
         slot_count' = slot_count
  PROVE  /\ FreeSlots' = FreeSlots \ {head}
         /\ \A i \in FreeSlots' : slots'[i] = slots[i]
<1>1. DOMAIN slots = 0 .. slot_count - 1 /\ slot_count \in Nat
  BY DEF TypeOK
<1>2. o \notin Nat
  BY HeapAssumption
<1> QED BY <1>1, <1>2 DEF FreeSlots

\* The slots of an enlarged table.
LEMMA EnlargedFree ==
  ASSUME TypeOK, slot_count > 0, NEW o \in Objects,
         slots' = [EnlargedSlots EXCEPT ![2 * slot_count - 1] = o],
         slot_count' = 2 * slot_count
  PROVE  /\ FreeSlots' = FreeSlots \cup (slot_count .. 2 * slot_count - 2)
         /\ \A i \in 0 .. slot_count - 1 : slots'[i] = slots[i]
         /\ \A i \in slot_count .. 2 * slot_count - 2 :
               slots'[i] = IF i = slot_count THEN 0 ELSE i - 1
         /\ slots'[2 * slot_count - 1] = o
         /\ EnlargedSlots[2 * slot_count - 1]
              = IF slot_count = 1 THEN 0 ELSE 2 * slot_count - 2
<1>1. DOMAIN slots = 0 .. slot_count - 1 /\ slot_count \in Nat
  BY DEF TypeOK
<1>2. o \notin Nat
  BY HeapAssumption
<1>3. \A i \in 0 .. 2 * slot_count - 1 :
         EnlargedSlots[i] = IF i < slot_count THEN slots[i]
                            ELSE IF i = slot_count THEN 0 ELSE i - 1
  BY <1>1 DEF EnlargedSlots, FreshChain, ROOT_INDEX
<1>4. DOMAIN EnlargedSlots = 0 .. 2 * slot_count - 1
  BY DEF EnlargedSlots
<1>5. \A i \in 0 .. 2 * slot_count - 1 :
         slots'[i] = IF i = 2 * slot_count - 1 THEN o ELSE EnlargedSlots[i]
  BY <1>1, <1>4
<1>6. 2 * slot_count - 1 \in 0 .. 2 * slot_count - 1
      /\ (slot_count = 1 <=> 2 * slot_count - 1 = slot_count)
      /\ slot_count <= 2 * slot_count - 1
  BY <1>1
<1>7. \A i \in 0 .. slot_count - 1 : slots'[i] = slots[i]
  BY <1>1, <1>3, <1>5
<1>8. \A i \in slot_count .. 2 * slot_count - 2 :
               slots'[i] = IF i = slot_count THEN 0 ELSE i - 1
  BY <1>1, <1>3, <1>5
<1>9. slots'[2 * slot_count - 1] = o
  BY <1>5, <1>6
<1>10. FreeSlots' = FreeSlots \cup (slot_count .. 2 * slot_count - 2)
  BY <1>1, <1>2, <1>7, <1>8, <1>9 DEF FreeSlots
<1>11. EnlargedSlots[2 * slot_count - 1]
              = IF slot_count = 1 THEN 0 ELSE 2 * slot_count - 2
  BY <1>1, <1>3, <1>6
<1> QED BY <1>7, <1>8, <1>9, <1>10, <1>11

\* The free slots after the object of slot i was destroyed.
LEMMA UnlinkedFree ==
  ASSUME TypeOK, NEW i \in 0 .. slot_count - 1, slots[i] \in Objects,
         slots' = Unlinked(i), slot_count' = slot_count
  PROVE  /\ FreeSlots' = FreeSlots \cup ({i} \ {0})
         /\ i \notin FreeSlots
         /\ \A j \in FreeSlots : slots'[j] = slots[j]
         /\ slots'[i] = usable_slot
         /\ \A j \in DOMAIN slots \ {i} : slots'[j] = slots[j]
<1>1. DOMAIN slots = 0 .. slot_count - 1 /\ slot_count \in Nat /\ usable_slot \in Nat
  BY DEF TypeOK
<1>2. slots[i] \notin Nat
  BY HeapAssumption
<1> QED BY <1>1, <1>2 DEF FreeSlots, Unlinked

\* The slots of a new table.
LEMMA NewFree ==
  ASSUME NEW r \in Objects, slots' = NewSlots(r), slot_count' = InitialSlots
  PROVE  /\ FreeSlots' = 1 .. InitialSlots - 1
         /\ slots'[0] = r
         /\ \A i \in 1 .. InitialSlots - 1 : slots'[i] = i - 1
<1>1. InitialSlots \in Nat \ {0}
  BY SlotAssumption
<1>2. slots'[0] = r
  BY <1>1 DEF NewSlots, ROOT_INDEX
<1>3. \A i \in 1 .. InitialSlots - 1 : slots'[i] = i - 1
  BY <1>1 DEF NewSlots, ROOT_INDEX, FreshChain
<1> QED BY <1>1, <1>2, <1>3 DEF FreeSlots

(***************************************************************************)
(* Every step keeps slots and objects matched.                             *)
(***************************************************************************)
LEMMA SlotsMatchStep ==
  ASSUME TypeOK, SlotsMatchObjects, FreeListLinked, TableAlive, SweptSlots, StepCase
  PROVE  SlotsMatchObjects'
<1> USE DEF SlotsMatchObjects
<1>1. CASE UNCHANGED <<alive, managed, gc_id, slots>>
  BY <1>1
<1>2. ASSUME NEW o \in Objects, NewUnmanaged(o) \/ DeleteUnmanaged(o)
      PROVE  SlotsMatchObjects'
  BY <1>2 DEF NewUnmanaged, DeleteUnmanaged, table
<1>3. ASSUME NEW r \in Objects, GcNew(r) PROVE SlotsMatchObjects'
  <2>1. managed' = {r} /\ r \in alive' /\ gc_id'[r] = 0
    BY <1>3 DEF GcNew, Running, TableAlive, TypeOK, ROOT_INDEX
  <2>2. slots'[0] = r /\ \A i \in 1 .. InitialSlots - 1 : slots'[i] = i - 1
    BY <1>3, NewFree DEF GcNew
  <2>3. DOMAIN slots' = 0 .. InitialSlots - 1 /\ InitialSlots \in Nat \ {0}
    BY <1>3, SlotAssumption DEF GcNew, NewSlots
  <2>4. \A i \in DOMAIN slots' : slots'[i] \in Objects => i = 0
    BY <2>2, <2>3, HeapAssumption
  <2> QED BY <2>1, <2>2, <2>3, <2>4
<1>4. CASE GivesUp
  BY <1>1, <1>4 DEF GivesUp, heap
<1>5. ASSUME NEW o \in Objects, Attaches(o) PROVE SlotsMatchObjects'
  <2>1. ASSUME NEW tbl, NEW count \in Nat, NEW head \in 0 .. count - 1,
               DOMAIN tbl = 0 .. count - 1, tbl[head] \in Nat,
               \A p \in managed : gc_id[p] \in DOMAIN tbl /\ tbl[gc_id[p]] = p,
               \A i \in DOMAIN tbl :
                  tbl[i] \in Objects => tbl[i] \in managed /\ gc_id[tbl[i]] = i,
               Occupy(o, tbl, count, head)
        PROVE  SlotsMatchObjects'
    <3>1. o \notin managed
      BY <1>5 DEF Attaches
    <3>2. gc_id' = [gc_id EXCEPT ![o] = head] /\ gc_id \in [Objects -> Nat]
          /\ managed \subseteq Objects
      BY <2>1 DEF Occupy, TypeOK
    <3>3. slots' = [tbl EXCEPT ![head] = o] /\ managed' = managed \cup {o}
          /\ alive' = alive \cup {o}
      BY <2>1 DEF Occupy
    <3>4. \A p \in managed : gc_id[p] # head
      BY <2>1, <3>2, HeapAssumption
    <3> QED BY <2>1, <3>1, <3>2, <3>3, <3>4
  <2>2. CASE AttachFree(o)
    <3>1. usable_slot \in FreeSlots
      BY <2>2 DEF AttachFree, FreeListLinked
    <3>2. DOMAIN slots = 0 .. slot_count - 1 /\ slot_count \in Nat
          /\ usable_slot \in 0 .. slot_count - 1 /\ slots[usable_slot] \in Nat
      BY <3>1 DEF FreeSlots, TypeOK
    <3> QED BY <2>1, <2>2, <3>2 DEF AttachFree
  <2>3. CASE AttachEnlarged(o)
    <3>1. slot_count \in Nat \ {0} /\ DOMAIN slots = 0 .. slot_count - 1
      BY <1>5 DEF Attaches, TableAlive, TypeOK
    <3>2. \A i \in 0 .. 2 * slot_count - 1 :
             EnlargedSlots[i] = IF i < slot_count THEN slots[i]
                                ELSE IF i = slot_count THEN 0 ELSE i - 1
      BY <3>1 DEF EnlargedSlots, FreshChain, ROOT_INDEX
    <3>3. DOMAIN EnlargedSlots = 0 .. 2 * slot_count - 1
      BY DEF EnlargedSlots
    <3>4. EnlargedSlots[2 * slot_count - 1] \in Nat
      BY <3>1, <3>2
    <3>5. \A i \in DOMAIN EnlargedSlots :
             EnlargedSlots[i] \in Objects
               => i \in DOMAIN slots /\ EnlargedSlots[i] = slots[i]
      BY <3>1, <3>2, <3>3, HeapAssumption
    <3>6. \A i \in DOMAIN slots :
             i \in DOMAIN EnlargedSlots /\ EnlargedSlots[i] = slots[i]
      BY <3>1, <3>2, <3>3
    <3> HIDE DEF EnlargedSlots
    <3>7. /\ \A p \in managed :
                gc_id[p] \in DOMAIN EnlargedSlots /\ EnlargedSlots[gc_id[p]] = p
          /\ \A i \in DOMAIN EnlargedSlots :
                EnlargedSlots[i] \in Objects
                  => EnlargedSlots[i] \in managed /\ gc_id[EnlargedSlots[i]] = i
      BY <3>5, <3>6
    <3>8. 2 * slot_count \in Nat /\ 2 * slot_count - 1 \in 0 .. 2 * slot_count - 1
      BY <3>1
    <3> QED BY <2>1, <2>3, <3>3, <3>4, <3>7, <3>8 DEF AttachEnlarged
  <2> QED BY <1>5, <2>2, <2>3 DEF Attaches
<1>6. ASSUME NEW o \in Objects, Frees(o) PROVE SlotsMatchObjects'
  <2>1. sweep \in 0 .. slot_count - 1 /\ slots[sweep] = o
    BY <1>6 DEF Frees, TypeOK
  <2>2. /\ slots'[sweep] = usable_slot /\ usable_slot \in Nat
        /\ \A j \in DOMAIN slots \ {sweep} : slots'[j] = slots[j]
    BY <1>6, <2>1, UnlinkedFree DEF Frees, TypeOK
  <2>3. DOMAIN slots' = DOMAIN slots /\ sweep \in DOMAIN slots
    BY <1>6, <2>1 DEF Frees, Unlinked, TypeOK
  <2>4. /\ managed' = managed \ {o} /\ o \in managed /\ gc_id[o] = sweep
        /\ \A p \in managed' : p \in alive' /\ gc_id'[p] = gc_id[p]
    BY <1>6, <2>1, <2>3 DEF Frees, TypeOK
  <2>5. \A p \in managed' : gc_id[p] # sweep
    BY <2>1, <2>4
  <2>6. usable_slot \notin Objects
    BY <2>2, HeapAssumption
  <2> QED BY <2>1, <2>2, <2>3, <2>4, <2>5, <2>6
<1>7. CASE Ends
  <2>1. CASE UNCHANGED table
    BY <1>1, <1>7, <2>1 DEF Ends, table
  <2>2. CASE root = NoObj /\ NoTable
    <3>1. \A i \in DOMAIN slots : slots[i] \notin Objects
      BY <1>7, <2>2 DEF Ends, SweptSlots, TypeOK
    <3>2. managed = {}
      BY <3>1 DEF TypeOK
    <3> QED BY <1>7, <2>2, <3>2 DEF Ends, NoTable
  <2> QED BY <1>7, <2>1, <2>2 DEF Ends
<1>8. CASE \E r \in Vectors \cup {NoObj}, o \in Objects \cup {NoObj} : Starts(r, o)
  BY <1>1, <1>8 DEF Starts, heap
<1>9. CASE Still \/ VisitPrim \/ Visits \/ PopsToNext \/ PopsToSweep \/ SweepKeep
  BY <1>1, <1>9 DEF Still, VisitPrim, Visits, PopsToNext, PopsToSweep, SweepKeep,
                    heap, table
<1>10. CASE \E v \in Vectors, x \in Objects \cup Prims : Writes(v, x)
  BY <1>1, <1>10 DEF Writes, table
<1> QED BY <1>2, <1>3, <1>4, <1>5, <1>6, <1>7, <1>8, <1>9, <1>10 DEF StepCase

(***************************************************************************)
(* Every step keeps the free list linked.                                  *)
(***************************************************************************)
LEMMA FreeLinkedStep ==
  ASSUME TypeOK, FreeListLinked, TableAlive, StepCase
  PROVE  FreeListLinked'
<1> USE DEF FreeListLinked, ROOT_INDEX
<1>1. CASE UNCHANGED <<slots, slot_count, usable_slot>>
  BY <1>1 DEF FreeSlots
<1>2. ASSUME NEW r \in Objects, GcNew(r) PROVE FreeListLinked'
  <2>1. /\ FreeSlots' = 1 .. InitialSlots - 1
        /\ \A i \in 1 .. InitialSlots - 1 : slots'[i] = i - 1
        /\ usable_slot' = InitialSlots - 1
    BY <1>2, NewFree DEF GcNew
  <2> QED BY <2>1, SlotAssumption
<1>3. ASSUME NEW o \in Objects, Attaches(o) PROVE FreeListLinked'
  <2>1. CASE AttachFree(o)
    <3>1. usable_slot \in FreeSlots
      BY <2>1 DEF AttachFree
    <3>2. /\ FreeSlots' = FreeSlots \ {usable_slot}
          /\ \A i \in FreeSlots' : slots'[i] = slots[i]
          /\ usable_slot' = slots[usable_slot]
      BY <2>1, <3>1, OccupiedFree DEF AttachFree, Occupy
    <3> QED BY <3>1, <3>2
  <2>2. CASE AttachEnlarged(o)
    <3>1. slot_count \in Nat \ {0}
      BY <1>3 DEF Attaches, TableAlive, TypeOK
    <3>2. /\ FreeSlots' = FreeSlots \cup (slot_count .. 2 * slot_count - 2)
          /\ \A i \in 0 .. slot_count - 1 : slots'[i] = slots[i]
          /\ \A i \in slot_count .. 2 * slot_count - 2 :
               slots'[i] = IF i = slot_count THEN 0 ELSE i - 1
          /\ usable_slot' = IF slot_count = 1 THEN 0 ELSE 2 * slot_count - 2
      <4>1. /\ slots' = [EnlargedSlots EXCEPT ![2 * slot_count - 1] = o]
            /\ slot_count' = 2 * slot_count
            /\ usable_slot' = EnlargedSlots[2 * slot_count - 1]
        BY <2>2 DEF AttachEnlarged, Occupy
      <4>2. slot_count > 0
        BY <3>1
      <4> QED BY <4>1, <4>2, EnlargedFree
    <3>3. FreeSlots \subseteq 1 .. slot_count - 1
      BY DEF FreeSlots
    <3>4. \A i \in FreeSlots : slots'[i] = slots[i] /\ slots'[i] \in FreeSlots \cup {0}
      BY <3>1, <3>2, <3>3
    <3>5. \A i \in slot_count .. 2 * slot_count - 2 :
             slots'[i] \in (slot_count .. 2 * slot_count - 3) \cup {0}
      BY <3>1, <3>2
    <3>6. usable_slot' \in FreeSlots' \cup {0}
      BY <3>1, <3>2
    <3>7. \A i \in FreeSlots' : slots'[i] \in FreeSlots' \cup {0}
      BY <3>1, <3>2, <3>4, <3>5
    <3>8. \A i \in FreeSlots' : slots'[i] # 0 => slots'[i] # usable_slot'
      BY <3>1, <3>2, <3>3, <3>4, <3>5
    <3>9. \A i, j \in FreeSlots' : slots'[i] = slots'[j] /\ slots'[i] # 0 => i = j
      <4>1. \A i, j \in FreeSlots : slots'[i] = slots'[j] /\ slots'[i] # 0 => i = j
        BY <3>4
      <4>2. \A i, j \in slot_count .. 2 * slot_count - 2 :
               slots'[i] = slots'[j] /\ slots'[i] # 0 => i = j
        BY <3>1, <3>2
      <4>3. \A i \in FreeSlots, j \in slot_count .. 2 * slot_count - 2 :
               slots'[i] # 0 => slots'[i] # slots'[j]
        BY <3>1, <3>3, <3>4, <3>5
      <4> QED BY <3>2, <4>1, <4>2, <4>3
    <3> QED BY <3>6, <3>7, <3>8, <3>9
  <2> QED BY <1>3, <2>1, <2>2 DEF Attaches
<1>4. ASSUME NEW o \in Objects, Frees(o) PROVE FreeListLinked'
  <2>1. sweep \in 0 .. slot_count - 1 /\ slots[sweep] \in Objects
    BY <1>4 DEF Frees, TypeOK
  <2>2. /\ FreeSlots' = FreeSlots \cup ({sweep} \ {0})
        /\ sweep \notin FreeSlots
        /\ \A j \in FreeSlots : slots'[j] = slots[j]
        /\ slots'[sweep] = usable_slot
        /\ usable_slot' = sweep
    BY <1>4, <2>1, UnlinkedFree DEF Frees
  <2> QED BY <2>1, <2>2
<1>5. CASE Ends
  <2>1. CASE UNCHANGED table
    BY <1>1, <2>1 DEF table
  <2>2. CASE NoTable
    BY <2>2 DEF NoTable, FreeSlots
  <2> QED BY <1>5, <2>1, <2>2 DEF Ends
<1>6. CASE Still \/ VisitPrim \/ Visits \/ PopsToNext \/ PopsToSweep \/ SweepKeep
  BY <1>1, <1>6 DEF Still, VisitPrim, Visits, PopsToNext, PopsToSweep, SweepKeep, table
<1>7. CASE GivesUp \/ \E r \in Vectors \cup {NoObj}, o \in Objects \cup {NoObj} :
                         Starts(r, o)
  BY <1>1, <1>7 DEF GivesUp, Starts
<1>8. CASE \/ \E o \in Objects : NewUnmanaged(o) \/ DeleteUnmanaged(o)
           \/ \E v \in Vectors, x \in Objects \cup Prims : Writes(v, x)
  BY <1>1, <1>8 DEF NewUnmanaged, DeleteUnmanaged, Writes, table
<1> QED BY <1>2, <1>3, <1>4, <1>5, <1>6, <1>7, <1>8 DEF StepCase

(***************************************************************************)
(* Every step keeps the free list exact: the two conjuncts that speak of   *)
(* the whole list, for each way a step changes it.                         *)
(***************************************************************************)
FreeListCovers == FreeSlots \subseteq FreeChain

FreeListEnds ==
  \A S \in SUBSET FreeSlots : S # {} => \E i \in S : slots[i] \notin S

LEMMA FreeExactOccupy ==
  ASSUME TypeOK, FreeListLinked, FreeListCovers, FreeListEnds,
         NEW o \in Objects, NEW head \in FreeSlots, usable_slot = head,
         slots' = [slots EXCEPT ![head] = o], slot_count' = slot_count,
         usable_slot' = slots[head]
  PROVE  FreeListCovers' /\ FreeListEnds'
<1>1. /\ FreeSlots' = FreeSlots \ {head}
      /\ \A i \in FreeSlots' : slots'[i] = slots[i]
  BY OccupiedFree
<1>2. FreeListEnds'
  BY <1>1 DEF FreeListEnds
<1>3. ASSUME NEW S, ClosedUnderLinks(S, slots', slot_count', usable_slot')
      PROVE  FreeSlots' \subseteq S
  <2>1. head \in 1 .. slot_count - 1 /\ DOMAIN slots = 0 .. slot_count - 1
        /\ slot_count \in Nat
    BY DEF FreeSlots, TypeOK
  <2>2. \A j \in S : j # head => slots'[j] = slots[j]
    BY <1>3, <2>1 DEF ClosedUnderLinks
  <2>3. slots[head] \in 1 .. slot_count - 1 => slots[head] \in S
    BY <1>3, <2>1 DEF ClosedUnderLinks, ROOT_INDEX
  <2>4. S \cup {head} \in SUBSET (1 .. slot_count - 1)
    BY <1>3, <2>1 DEF ClosedUnderLinks
  <2>5. \A j \in S \cup {head} :
           slots[j] \in 1 .. slot_count - 1 => slots[j] \in S \cup {head}
    BY <1>3, <2>2, <2>3 DEF ClosedUnderLinks
  <2>6. FreeChain \subseteq S \cup {head}
    BY <2>4, <2>5 DEF FreeChain
  <2> QED BY <1>1, <2>6 DEF FreeListCovers
<1>4. FreeSlots' \subseteq 1 .. slot_count' - 1
  BY DEF FreeSlots
<1>5. FreeSlots' \subseteq FreeChain'
  BY <1>3, <1>4 DEF FreeChain, ClosedUnderLinks
<1> QED BY <1>2, <1>5 DEF FreeListCovers

\* A table whose free slots are lo..hi, each linked to the one below.
LEMMA FreeExactFresh ==
  ASSUME NEW lo \in Nat \ {0}, NEW hi \in Nat, FreeSlots' = lo .. hi,
         \A i \in lo .. hi : slots'[i] = IF i = lo THEN 0 ELSE i - 1,
         usable_slot' = IF lo <= hi THEN hi ELSE 0
  PROVE  FreeListCovers' /\ FreeListEnds'
<1>1. FreeListEnds'
  <2>1. ASSUME NEW S \in SUBSET FreeSlots', S # {} PROVE \E i \in S : slots'[i] \notin S
    <3>1. S \subseteq Nat
      BY <2>1
    <3>2. PICK m \in S : \A n \in S : m <= n
      BY <2>1, <3>1, NatMin
    <3>3. m \in lo .. hi
      BY <3>2, <2>1
    <3>4. slots'[m] \in Nat /\ slots'[m] < m
      BY <3>3
    <3> QED BY <3>1, <3>2, <3>4
  <2> QED BY <2>1 DEF FreeListEnds
<1>2. FreeSlots' \subseteq 1 .. slot_count' - 1
  BY DEF FreeSlots
<1>3. ASSUME NEW S, ClosedUnderLinks(S, slots', slot_count', usable_slot')
      PROVE  FreeSlots' \subseteq S
  <2>1. lo <= hi => hi \in S
    BY <1>3 DEF ClosedUnderLinks, ROOT_INDEX
  <2>2. \A j \in lo .. hi : j \in S /\ j # lo => j - 1 \in S
    <3> TAKE j \in lo .. hi
    <3> HAVE j \in S /\ j # lo
    <3>1. slots'[j] = j - 1 /\ j - 1 \in lo .. hi
      OBVIOUS
    <3>2. j - 1 \in 1 .. slot_count' - 1
      BY <3>1, <1>2
    <3> QED BY <1>3, <3>1, <3>2 DEF ClosedUnderLinks
  <2> QED BY <2>1, <2>2, DownToLo
<1>4. FreeSlots' \subseteq FreeChain'
  BY <1>2, <1>3 DEF FreeChain, ClosedUnderLinks
<1> QED BY <1>1, <1>4 DEF FreeListCovers

LEMMA FreeExactUnlink ==
  ASSUME TypeOK, FreeListLinked, FreeListCovers, FreeListEnds,
         NEW i \in 1 .. slot_count - 1, slots[i] \in Objects,
         slots' = Unlinked(i), slot_count' = slot_count, usable_slot' = i
  PROVE  FreeListCovers' /\ FreeListEnds'
<1>1. /\ FreeSlots' = FreeSlots \cup {i}
      /\ i \notin FreeSlots
      /\ \A j \in FreeSlots : slots'[j] = slots[j]
      /\ slots'[i] = usable_slot
      /\ \A j \in DOMAIN slots \ {i} : slots'[j] = slots[j]
  <2>1. i \in 0 .. slot_count - 1 /\ {i} \ {0} = {i}
    BY DEF TypeOK
  <2> QED BY <2>1, UnlinkedFree
<1>2. i # 0 /\ i \in Nat /\ slots[i] \notin Nat /\ slot_count \in Nat
      /\ DOMAIN slots = 0 .. slot_count - 1
  BY HeapAssumption DEF TypeOK
<1>3. FreeListEnds'
  <2>1. ASSUME NEW S \in SUBSET FreeSlots', S # {} PROVE \E k \in S : slots'[k] \notin S
    <3>1. CASE S = {i}
      BY <1>1, <1>2, <3>1 DEF FreeListLinked, ROOT_INDEX
    <3>2. CASE S # {i}
      <4>1. S \ {i} \in SUBSET FreeSlots /\ S \ {i} # {}
        BY <1>1, <2>1, <3>2
      <4>2. PICK k \in S \ {i} : slots[k] \notin S \ {i}
        BY <4>1 DEF FreeListEnds
      <4>3. slots'[k] = slots[k] /\ slots[k] # i
        BY <1>1, <1>2, <4>1, <4>2 DEF FreeListLinked, ROOT_INDEX
      <4> QED BY <4>2, <4>3
    <3> QED BY <3>1, <3>2
  <2> QED BY <2>1 DEF FreeListEnds
<1>4. ASSUME NEW S, ClosedUnderLinks(S, slots', slot_count', usable_slot')
      PROVE  FreeSlots' \subseteq S
  <2>1. S \in SUBSET (1 .. slot_count - 1) /\ i \in S
    BY <1>2, <1>4 DEF ClosedUnderLinks, ROOT_INDEX
  <2>2. usable_slot # 0 => usable_slot \in S
    <3>1. usable_slot # 0 => usable_slot \in 1 .. slot_count - 1
      BY DEF FreeListLinked, FreeSlots, ROOT_INDEX
    <3> QED BY <1>1, <1>4, <2>1, <3>1 DEF ClosedUnderLinks
  <2>3. \A j \in S : slots[j] \in 1 .. slot_count - 1 => slots[j] \in S
    BY <1>1, <1>2, <1>4, <2>1 DEF ClosedUnderLinks
  <2>4. FreeChain \subseteq S
    BY <2>1, <2>2, <2>3 DEF FreeChain, ROOT_INDEX
  <2> QED BY <1>1, <2>1, <2>4 DEF FreeListCovers
<1>5. FreeSlots' \subseteq 1 .. slot_count' - 1
  BY DEF FreeSlots
<1>6. FreeSlots' \subseteq FreeChain'
  BY <1>4, <1>5 DEF FreeChain, ClosedUnderLinks
<1> QED BY <1>3, <1>6 DEF FreeListCovers

(***************************************************************************)
(* Every step keeps the root in slot 0.                                    *)
(***************************************************************************)

\* With a root, its slot is 0 and a sweep has it marked.
LEMMA RootSlot ==
  ASSUME TypeOK, SlotsMatchObjects, TableAlive, root # NoObj
  PROVE  /\ root \in Vectors /\ root \in Objects /\ root \in managed
         /\ gc_id[root] = 0
         /\ 0 \in DOMAIN slots /\ slots[0] = root
<1>1. root \in Vectors /\ root \in Objects /\ slots[0] = root
  BY DEF TypeOK, Objects, TableAlive, ROOT_INDEX
<1>2. slot_count > 0 /\ slot_count \in Nat
  BY DEF TableAlive, TypeOK
<1>3. 0 \in DOMAIN slots
  BY <1>2 DEF TypeOK
<1> QED BY <1>1, <1>3 DEF SlotsMatchObjects

\* A collector that is deleted owns nothing any more.
LEMMA DeletedOwnsNothing ==
  ASSUME TypeOK, SlotsMatchObjects, SweptSlots, Ends, root = NoObj
  PROVE  managed = {}
<1>1. \A i \in DOMAIN slots : slots[i] \notin Objects
  BY DEF Ends, SweptSlots, TypeOK
<1> QED BY <1>1 DEF TypeOK, SlotsMatchObjects

LEMMA TableAliveStep ==
  ASSUME TypeOK, SlotsMatchObjects, FreeListLinked, TableAlive, MarksReachable,
         SweptSlots, StepCase
  PROVE  TableAlive'
<1>1. CASE UNCHANGED <<root, slots, slot_count, usable_slot, managed, gc_id>>
           /\ (pc' = "none" <=> pc = "none")
  BY <1>1 DEF TableAlive
<1>2. ASSUME NEW r \in Objects, GcNew(r) PROVE TableAlive'
  <2>1. slots'[0] = r /\ root' = r /\ slot_count' > 0 /\ pc' = "idle"
    BY <1>2, NewFree, SlotAssumption DEF GcNew
  <2>2. managed' = {r} /\ \A o \in Objects : gc_id'[o] = 0
    BY <1>2 DEF GcNew, Running, TableAlive, TypeOK, ROOT_INDEX
  <2> QED BY <2>1, <2>2 DEF TableAlive, ROOT_INDEX
<1>3. ASSUME NEW o \in Objects, Attaches(o) PROVE TableAlive'
  <2>1. /\ pc' = "idle" /\ root' = root /\ managed' = managed \cup {o}
        /\ \E head : gc_id' = [gc_id EXCEPT ![o] = head]
    <3>1. ASSUME NEW tbl, NEW count, NEW head, Occupy(o, tbl, count, head)
          PROVE  /\ pc' = "idle" /\ root' = root /\ managed' = managed \cup {o}
                 /\ gc_id' = [gc_id EXCEPT ![o] = head]
      BY <3>1 DEF Occupy
    <3> HIDE DEF Occupy
    <3> QED BY <1>3, <3>1, Zenon DEF Attaches, AttachFree, AttachEnlarged
  <2>2. \A p \in Objects \ managed' : gc_id'[p] = 0
    BY <2>1 DEF TableAlive, TypeOK
  <2>3. slot_count' > 0 /\ slots'[0] = slots[0]
    <3>1. slot_count \in Nat \ {0}
      BY <1>3 DEF Attaches, TableAlive, TypeOK
    <3>2. CASE AttachFree(o)
      BY <3>1, <3>2 DEF AttachFree, Occupy, TypeOK, ROOT_INDEX
    <3>3. CASE AttachEnlarged(o)
      <4>1. /\ slots' = [EnlargedSlots EXCEPT ![2 * slot_count - 1] = o]
            /\ slot_count' = 2 * slot_count
        BY <3>3 DEF AttachEnlarged, Occupy
      <4>2. slot_count > 0 /\ 0 \in 0 .. slot_count - 1 /\ 2 * slot_count > 0
        BY <3>1
      <4> QED BY <4>1, <4>2, EnlargedFree
    <3> QED BY <1>3, <3>2, <3>3 DEF Attaches
  <2> QED BY <2>1, <2>2, <2>3 DEF TableAlive, ROOT_INDEX
<1>4. ASSUME NEW r \in Vectors \cup {NoObj}, NEW o \in Objects \cup {NoObj},
             Starts(r, o)
      PROVE  TableAlive'
  BY <1>4 DEF Starts, TableAlive, heap
<1>5. ASSUME NEW o \in Objects, Frees(o) PROVE TableAlive'
  <2>1. root # NoObj => sweep # 0
    BY <1>5 DEF Frees, MarksReachable, ROOT_INDEX
  <2>2. root # NoObj => slots'[0] = slots[0]
    <3>1. root # NoObj => 0 \in DOMAIN slots
      BY RootSlot
    <3> QED BY <2>1, <3>1, <1>5 DEF Frees, Unlinked, TypeOK
  <2>3. \A p \in Objects \ managed' : gc_id'[p] = 0
    BY <1>5 DEF Frees, TableAlive, TypeOK
  <2> QED BY <1>5, <2>2, <2>3 DEF Frees, TableAlive, ROOT_INDEX
<1>6. CASE Ends
  <2>1. CASE pc' # "none"
    BY <1>6, <2>1 DEF Ends, NoTable, table, TableAlive
  <2>2. CASE pc' = "none"
    <3>1. root = NoObj /\ NoTable
      BY <1>6, <2>2 DEF Ends
    <3>2. managed = {}
      BY <1>6, <3>1, DeletedOwnsNothing
    <3> QED BY <1>6, <2>2, <3>1, <3>2 DEF Ends, NoTable, TableAlive
  <2> QED BY <2>1, <2>2
<1>7. CASE Still \/ VisitPrim \/ Visits \/ PopsToNext \/ PopsToSweep \/ SweepKeep
  BY <1>1, <1>7 DEF Still, VisitPrim, Visits, PopsToNext, PopsToSweep, SweepKeep,
                    heap, table, ctl
<1>8. CASE GivesUp
  BY <1>1, <1>8 DEF GivesUp, heap
<1>9. CASE \/ \E o \in Objects : NewUnmanaged(o) \/ DeleteUnmanaged(o)
           \/ \E v \in Vectors, x \in Objects \cup Prims : Writes(v, x)
  BY <1>1, <1>9 DEF NewUnmanaged, DeleteUnmanaged, Writes, table, ctl
<1> QED BY <1>2, <1>3, <1>4, <1>5, <1>6, <1>7, <1>8, <1>9 DEF StepCase

LEMMA FreeExactStep ==
  ASSUME TypeOK, SlotsMatchObjects, FreeListLinked, FreeListExact, TableAlive,
         MarksReachable, StepCase, TableAlive', FreeListLinked'
  PROVE  FreeListExact'
<1>1. SUFFICES ASSUME root' # NoObj PROVE FreeListCovers' /\ FreeListEnds'
  BY DEF FreeListExact, FreeListCovers, FreeListEnds, TableAlive, FreeListLinked
<1>2. root # NoObj => FreeListCovers /\ FreeListEnds
  BY DEF FreeListExact, FreeListCovers, FreeListEnds
<1>3. CASE UNCHANGED <<slots, slot_count, usable_slot>> /\ root # NoObj
  BY <1>2, <1>3 DEF FreeListCovers, FreeListEnds, FreeSlots, FreeChain
<1>4. ASSUME NEW r \in Objects, GcNew(r) PROVE FreeListCovers' /\ FreeListEnds'
  <2>1. /\ FreeSlots' = 1 .. InitialSlots - 1
        /\ \A i \in 1 .. InitialSlots - 1 : slots'[i] = i - 1
        /\ usable_slot' = InitialSlots - 1
    BY <1>4, NewFree DEF GcNew
  <2>2. \A i \in 1 .. InitialSlots - 1 : slots'[i] = IF i = 1 THEN 0 ELSE i - 1
    BY <2>1
  <2>3. InitialSlots - 1 \in Nat /\ 1 \in Nat \ {0}
        /\ usable_slot' = IF 1 <= InitialSlots - 1 THEN InitialSlots - 1 ELSE 0
    BY <2>1, SlotAssumption
  <2> QED BY <2>1, <2>2, <2>3, FreeExactFresh
<1>5. ASSUME NEW o \in Objects, Attaches(o) PROVE FreeListCovers' /\ FreeListEnds'
  <2>1. root # NoObj
    BY <1>1, <1>5 DEF Attaches, AttachFree, AttachEnlarged, Occupy
  <2>2. CASE AttachFree(o)
    <3>1. usable_slot \in FreeSlots
      BY <2>2 DEF AttachFree, FreeListLinked
    <3>2. /\ slots' = [slots EXCEPT ![usable_slot] = o]
          /\ slot_count' = slot_count /\ usable_slot' = slots[usable_slot]
      BY <2>2 DEF AttachFree, Occupy
    <3> QED BY <1>2, <2>1, <3>1, <3>2, FreeExactOccupy
  <2>3. CASE AttachEnlarged(o)
    <3>1. FreeSlots = {}
      BY <2>1, <2>3, FreeListEmpty DEF AttachEnlarged
    <3>2. slot_count \in Nat \ {0} /\ slot_count > 0
      BY <1>5 DEF Attaches, TableAlive, TypeOK
    <3>3. /\ slots' = [EnlargedSlots EXCEPT ![2 * slot_count - 1] = o]
          /\ slot_count' = 2 * slot_count
          /\ usable_slot' = EnlargedSlots[2 * slot_count - 1]
      BY <2>3 DEF AttachEnlarged, Occupy
    <3>4. /\ FreeSlots' = slot_count .. 2 * slot_count - 2
          /\ \A i \in slot_count .. 2 * slot_count - 2 :
               slots'[i] = IF i = slot_count THEN 0 ELSE i - 1
          /\ usable_slot' = IF slot_count = 1 THEN 0 ELSE 2 * slot_count - 2
      BY <3>1, <3>2, <3>3, EnlargedFree
    <3>5. /\ 2 * slot_count - 2 \in Nat
          /\ slot_count = 1 <=> ~ slot_count <= 2 * slot_count - 2
      BY <3>2
    <3> QED BY <3>2, <3>4, <3>5, FreeExactFresh
  <2> QED BY <1>5, <2>2, <2>3 DEF Attaches
<1>6. ASSUME NEW o \in Objects, Frees(o) PROVE FreeListCovers' /\ FreeListEnds'
  <2>1. root # NoObj /\ sweep # 0
    BY <1>1, <1>6 DEF Frees, MarksReachable, ROOT_INDEX
  <2>2. sweep \in 1 .. slot_count - 1 /\ slots[sweep] \in Objects
    BY <1>6, <2>1 DEF Frees, TypeOK
  <2>3. slots' = Unlinked(sweep) /\ slot_count' = slot_count /\ usable_slot' = sweep
    BY <1>6 DEF Frees
  <2> QED BY <1>2, <2>1, <2>2, <2>3, FreeExactUnlink
<1>7. CASE Ends \/ \E r \in Vectors \cup {NoObj}, o \in Objects \cup {NoObj} :
                      Starts(r, o)
  BY <1>1, <1>3, <1>7 DEF Ends, NoTable, Starts, table
<1>8. CASE \/ Still \/ VisitPrim \/ Visits \/ PopsToNext \/ PopsToSweep
           \/ SweepKeep \/ GivesUp
  BY <1>1, <1>3, <1>8 DEF Still, VisitPrim, Visits, PopsToNext, PopsToSweep,
                          SweepKeep, GivesUp, table
<1>9. CASE \/ \E o \in Objects : NewUnmanaged(o) \/ DeleteUnmanaged(o)
           \/ \E v \in Vectors, x \in Objects \cup Prims : Writes(v, x)
  BY <1>1, <1>3, <1>9 DEF NewUnmanaged, DeleteUnmanaged, Writes, table
<1> QED BY <1>4, <1>5, <1>6, <1>7, <1>8, <1>9 DEF StepCase

LEMMA PendingStep ==
  ASSUME PendingNotAlive, StepCase
  PROVE  PendingNotAlive'
<1> USE DEF PendingNotAlive
<1>1. CASE \E o \in Objects : NewUnmanaged(o) \/ DeleteUnmanaged(o) \/ GcNew(o)
  BY <1>1 DEF NewUnmanaged, DeleteUnmanaged, GcNew, Running, ctl
<1>2. CASE \E o \in Objects : Attaches(o)
  BY <1>2 DEF Attaches, AttachFree, AttachEnlarged, Occupy
<1>3. CASE \E r \in Vectors \cup {NoObj}, o \in Objects \cup {NoObj} : Starts(r, o)
  BY <1>3 DEF Starts, heap
<1>4. CASE VisitPrim \/ Visits \/ PopsToNext \/ PopsToSweep
  BY <1>4 DEF VisitPrim, Visits, PopsToNext, PopsToSweep, Running, heap, ctl
<1>5. CASE SweepKeep \/ \E o \in Objects : Frees(o)
  BY <1>5 DEF SweepKeep, Frees, heap, ctl
<1>6. CASE Ends
  BY <1>6 DEF Ends
<1>7. CASE Still \/ GivesUp \/ \E v \in Vectors, x \in Objects \cup Prims : Writes(v, x)
  BY <1>7 DEF Still, GivesUp, Writes, heap
<1> QED BY <1>1, <1>2, <1>3, <1>4, <1>5, <1>6, <1>7 DEF StepCase
=============================================================================
