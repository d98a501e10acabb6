--------------------------- MODULE EschHeapProofs ---------------------------
(***************************************************************************)
(* Proofs about memory.  The counts of EschAlloc are exact and no buffer   *)
(* outlives its allocator; EschHeap, whose constructors and destructors    *)
(* fail anywhere, does nothing to the buffers that EschAlloc does not      *)
(* allow; and every buffer has exactly one owner.                          *)
(***************************************************************************)
EXTENDS EschHeap, FiniteSetTheorems, TLAPS

AllocInv == AllocTypeOK /\ CountsExact /\ AllocatorsOutliveBuffers

-----------------------------------------------------------------------------
\* The buffers an allocator has to take back can be counted.
LEMMA OutstandingFinite ==
  ASSUME NEW a
  PROVE  /\ IsFiniteSet(Outstanding(a))
         /\ Cardinality(Outstanding(a)) \in Nat
<1>1. IsFiniteSet(Buffers) /\ Outstanding(a) \subseteq Buffers
  BY AllocAssumption DEF Outstanding
<1>2. IsFiniteSet(Outstanding(a))
  BY <1>1, FS_Subset
<1>3. QED
  BY <1>2, FS_CardinalityType

\* An allocator that has given back as much as it gave has nothing out.
LEMMA NothingOut ==
  ASSUME AllocTypeOK, NEW a \in Allocs, Balanced(a),
         allocate_count[a] =
           deallocate_count[a] + Cardinality(Outstanding(a))
  PROVE  Outstanding(a) = {}
<1>1. /\ IsFiniteSet(Outstanding(a)) /\ Cardinality(Outstanding(a)) \in Nat
      /\ allocate_count[a] \in Nat /\ deallocate_count[a] \in Nat
  BY OutstandingFinite DEF AllocTypeOK
<1>2. Cardinality(Outstanding(a)) = 0
  BY <1>1 DEF Balanced
<1>3. QED
  BY <1>1, <1>2, FS_EmptySet

\* Arithmetic of the two counts, apart from sets and functions.
LEMMA CountsMove ==
  ASSUME NEW m \in Nat, NEW n \in Nat, NEW c \in Nat, m = n + c
  PROVE  /\ m + 1 = n + (c + 1)
         /\ m + 1 = (n + 1) + c
         /\ c # 0 => m = (n + 1) + (c - 1)
OBVIOUS

-----------------------------------------------------------------------------
LEMMA AllocStart == AllocInit => AllocInv
<1> SUFFICES ASSUME AllocInit PROVE AllocInv
  OBVIOUS
<1>1. AllocTypeOK
  <2>1. /\ cookie \in [Buffers -> Allocs \cup {NoAlloc}]
        /\ allocators \subseteq Allocs
    BY DEF AllocInit
  <2>2. 0 \in Nat
    OBVIOUS
  <2>3. /\ allocate_count \in [Allocs -> Nat]
        /\ deallocate_count \in [Allocs -> Nat]
    BY <2>2 DEF AllocInit
  <2>4. QED
    BY <2>1, <2>3 DEF AllocTypeOK
<1>2. CountsExact
  BY DEF AllocInit, CountsExact
<1>3. AllocatorsOutliveBuffers
  BY DEF AllocInit, AllocatorsOutliveBuffers, Allocated
<1>4. QED
  BY <1>1, <1>2, <1>3 DEF AllocInv

\* A new allocator has no buffers out: those there are belong to others.
LEMMA NewAllocStep ==
  ASSUME AllocInv, NEW a \in Allocs, NewAlloc(a)
  PROVE  AllocInv'
<1> USE DEF NewAlloc, AllocInv
<1>1. AllocTypeOK'
  BY DEF AllocTypeOK
<1>2. Outstanding(a) = {}
  BY AllocAssumption DEF Outstanding, AllocatorsOutliveBuffers, Allocated
<1>3. CountsExact'
  <2> SUFFICES ASSUME NEW c \in allocators'
               PROVE  allocate_count'[c] =
                        deallocate_count'[c] + Cardinality(Outstanding(c))'
    BY DEF CountsExact
  <2>1. Outstanding(c)' = Outstanding(c)
    BY DEF Outstanding
  <2>2. CASE c = a
    <3>1. Cardinality(Outstanding(a)) = 0
      BY <1>2, FS_EmptySet
    <3>2. allocate_count'[c] = 0 /\ deallocate_count'[c] = 0
      BY <2>2 DEF AllocTypeOK
    <3>3. QED
      BY <2>1, <2>2, <3>1, <3>2
  <2>3. CASE c # a
    <3>1. /\ allocate_count'[c] = allocate_count[c]
          /\ deallocate_count'[c] = deallocate_count[c]
      BY <2>3 DEF AllocTypeOK
    <3>2. c \in allocators
      BY <2>3
    <3>3. QED
      BY <2>1, <3>1, <3>2 DEF CountsExact
  <2>4. QED
    BY <2>2, <2>3
<1>4. AllocatorsOutliveBuffers'
  BY DEF AllocatorsOutliveBuffers, Allocated
<1>5. QED
  BY <1>1, <1>3, <1>4

\* One buffer more is out, and one more was given.
LEMMA GiveStep ==
  ASSUME AllocInv, NEW a \in Allocs, NEW b \in Buffers, Give(a, b)
  PROVE  AllocInv'
<1> USE DEF Give, AllocInv
<1>1. AllocTypeOK'
  BY DEF AllocTypeOK
<1>2. /\ cookie' = [cookie EXCEPT ![b] = a] /\ cookie[b] = NoAlloc
      /\ cookie \in [Buffers -> Allocs \cup {NoAlloc}]
      /\ NoAlloc \notin Allocs
  BY AllocAssumption DEF AllocTypeOK, Malloc, Allocated
<1>3. CountsExact'
  <2> SUFFICES ASSUME NEW c \in allocators
               PROVE  allocate_count'[c] =
                        deallocate_count'[c] + Cardinality(Outstanding(c)')
    BY DEF CountsExact
  <2>1. /\ c \in Allocs
        /\ allocate_count[c] \in Nat /\ deallocate_count[c] \in Nat
        /\ Cardinality(Outstanding(c)) \in Nat
        /\ IsFiniteSet(Outstanding(c))
        /\ allocate_count[c] =
             deallocate_count[c] + Cardinality(Outstanding(c))
    BY OutstandingFinite DEF AllocTypeOK, CountsExact
  <2>2. CASE c = a
    <3>1. /\ Outstanding(c)' = Outstanding(c) \cup {b}
          /\ b \notin Outstanding(c)
      BY <1>2, <2>1, <2>2 DEF Outstanding
    <3>2. Cardinality(Outstanding(c)') = Cardinality(Outstanding(c)) + 1
      BY <2>1, <3>1, FS_AddElement
    <3>3. /\ allocate_count'[c] = allocate_count[c] + 1
          /\ deallocate_count'[c] = deallocate_count[c]
      BY <2>1, <2>2 DEF AllocTypeOK
    <3>4. QED
      BY <2>1, <3>2, <3>3, CountsMove
  <2>3. CASE c # a
    <3>1. Outstanding(c)' = Outstanding(c)
      BY <1>2, <2>1, <2>3 DEF Outstanding
    <3>2. /\ allocate_count'[c] = allocate_count[c]
          /\ deallocate_count'[c] = deallocate_count[c]
      BY <2>1, <2>3 DEF AllocTypeOK
    <3>3. QED
      BY <2>1, <3>1, <3>2
  <2>4. QED
    BY <2>2, <2>3
<1>4. AllocatorsOutliveBuffers'
  BY <1>2 DEF AllocatorsOutliveBuffers, Allocated
<1>5. QED
  BY <1>1, <1>3, <1>4

\* As many buffers are out as before; one more was given and taken back.
LEMMA ResizeStep ==
  ASSUME AllocInv, NEW a \in Allocs, NEW in \in Buffers, NEW out \in Buffers,
         Resize(a, in, out)
  PROVE  AllocInv'
<1> USE DEF Resize, ResizedCount, AllocInv
<1>1. AllocTypeOK'
  BY DEF AllocTypeOK
<1>2. /\ cookie' = [cookie EXCEPT ![in] = NoAlloc, ![out] = a]
      /\ cookie[in] = a
      /\ out = in \/ (out # in /\ cookie[out] = NoAlloc)
      /\ cookie \in [Buffers -> Allocs \cup {NoAlloc}]
      /\ NoAlloc \notin Allocs
  BY AllocAssumption DEF AllocTypeOK, Malloc, Allocated
<1>3. CountsExact'
  <2> SUFFICES ASSUME NEW c \in allocators
               PROVE  allocate_count'[c] =
                        deallocate_count'[c] + Cardinality(Outstanding(c)')
    BY DEF CountsExact
  <2>1. /\ c \in Allocs
        /\ allocate_count[c] \in Nat /\ deallocate_count[c] \in Nat
        /\ Cardinality(Outstanding(c)) \in Nat
        /\ IsFiniteSet(Outstanding(c))
        /\ allocate_count[c] =
             deallocate_count[c] + Cardinality(Outstanding(c))
    BY OutstandingFinite DEF AllocTypeOK, CountsExact
  <2>2. CASE c = a
    <3>1. Cardinality(Outstanding(c)') = Cardinality(Outstanding(c))
      <4>1. CASE out = in
        <5>1. Outstanding(c)' = Outstanding(c)
          BY <1>2, <2>1, <2>2, <4>1 DEF Outstanding
        <5>2. QED
          BY <5>1
      <4>2. CASE out # in
        <5> DEFINE Kept == Outstanding(c) \ {in}
        <5>1. /\ Outstanding(c)' = Kept \cup {out}
              /\ in \in Outstanding(c) /\ out \notin Kept
          BY <1>2, <2>1, <2>2, <4>2 DEF Outstanding
        <5>2. /\ IsFiniteSet(Kept)
              /\ Cardinality(Kept) = Cardinality(Outstanding(c)) - 1
          BY <2>1, <5>1, FS_RemoveElement
        <5>3. Cardinality(Kept \cup {out}) = Cardinality(Kept) + 1
          BY <5>1, <5>2, FS_AddElement
        <5> HIDE DEF Kept
        <5>4. QED
          BY <2>1, <5>1, <5>2, <5>3
      <4>3. QED
        BY <4>1, <4>2
    <3>2. /\ allocate_count'[c] = allocate_count[c] + 1
          /\ deallocate_count'[c] = deallocate_count[c] + 1
      BY <2>1, <2>2 DEF AllocTypeOK
    <3>3. QED
      BY <2>1, <3>1, <3>2, CountsMove
  <2>3. CASE c # a
    <3>1. Outstanding(c)' = Outstanding(c)
      BY <1>2, <2>1, <2>3 DEF Outstanding
    <3>2. /\ allocate_count'[c] = allocate_count[c]
          /\ deallocate_count'[c] = deallocate_count[c]
      BY <2>1, <2>3 DEF AllocTypeOK
    <3>3. QED
      BY <2>1, <3>1, <3>2
  <2>4. QED
    BY <2>2, <2>3
<1>4. AllocatorsOutliveBuffers'
  BY <1>2 DEF AllocatorsOutliveBuffers, Allocated
<1>5. QED
  BY <1>1, <1>3, <1>4

\* One buffer less is out, and one more was taken back; or nothing happens.
LEMMA FreeStep ==
  ASSUME AllocInv, NEW a \in Allocs, NEW b \in Buffers, Free(a, b)
  PROVE  AllocInv'
<1> USE DEF AllocInv
<1>1. CASE ~OwnCookie(a, b)
  BY <1>1 DEF Free, avars, AllocTypeOK, CountsExact, AllocatorsOutliveBuffers,
     Allocated, Outstanding
<1>2. CASE OwnCookie(a, b)
  <2>1. /\ cookie' = [cookie EXCEPT ![b] = NoAlloc] /\ cookie[b] = a
        /\ deallocate_count' = [deallocate_count EXCEPT ![a] = @ + 1]
        /\ UNCHANGED <<allocators, allocate_count>>
        /\ cookie \in [Buffers -> Allocs \cup {NoAlloc}]
        /\ NoAlloc \notin Allocs
    BY <1>2, AllocAssumption DEF Free, OwnCookie, AllocTypeOK
  <2>2. AllocTypeOK'
    BY <2>1 DEF AllocTypeOK
  <2>3. CountsExact'
    <3> SUFFICES ASSUME NEW c \in allocators
                 PROVE  allocate_count'[c] =
                          deallocate_count'[c] + Cardinality(Outstanding(c)')
      BY <2>1 DEF CountsExact
    <3>1. /\ c \in Allocs
          /\ allocate_count[c] \in Nat /\ deallocate_count[c] \in Nat
          /\ Cardinality(Outstanding(c)) \in Nat
          /\ IsFiniteSet(Outstanding(c))
          /\ allocate_count[c] =
               deallocate_count[c] + Cardinality(Outstanding(c))
      BY OutstandingFinite DEF AllocTypeOK, CountsExact
    <3>2. CASE c = a
      <4>1. /\ Outstanding(c)' = Outstanding(c) \ {b}
            /\ b \in Outstanding(c)
        BY <2>1, <3>1, <3>2 DEF Outstanding
      <4>2. Cardinality(Outstanding(c)') = Cardinality(Outstanding(c)) - 1
        BY <3>1, <4>1, FS_RemoveElement
      <4>3. Cardinality(Outstanding(c)) # 0
        BY <3>1, <4>1, FS_EmptySet
      <4>4. /\ allocate_count'[c] = allocate_count[c]
            /\ deallocate_count'[c] = deallocate_count[c] + 1
        BY <2>1, <3>1, <3>2 DEF AllocTypeOK
      <4>5. QED
        BY <3>1, <4>2, <4>3, <4>4, CountsMove
    <3>3. CASE c # a
      <4>1. Outstanding(c)' = Outstanding(c)
        BY <2>1, <3>1, <3>3 DEF Outstanding
      <4>2. /\ allocate_count'[c] = allocate_count[c]
            /\ deallocate_count'[c] = deallocate_count[c]
        BY <2>1, <3>1, <3>3 DEF AllocTypeOK
      <4>3. QED
        BY <3>1, <4>1, <4>2
    <3>4. QED
      BY <3>2, <3>3
  <2>4. AllocatorsOutliveBuffers'
    BY <2>1 DEF AllocatorsOutliveBuffers, Allocated
  <2>5. QED
    BY <2>2, <2>3, <2>4
<1>3. QED
  BY <1>1, <1>2

\* An allocator goes only when nothing of it is out.
LEMMA DeleteAllocStep ==
  ASSUME AllocInv, NEW a \in Allocs, DeleteAlloc(a)
  PROVE  AllocInv'
<1> USE DEF AllocInv
<1>1. CASE ~Balanced(a)
  BY <1>1 DEF DeleteAlloc, avars, AllocTypeOK, CountsExact,
     AllocatorsOutliveBuffers, Allocated, Outstanding
<1>2. CASE Balanced(a)
  <2>1. /\ a \in allocators /\ allocators' = allocators \ {a}
        /\ allocate_count' = [allocate_count EXCEPT ![a] = 0]
        /\ deallocate_count' = [deallocate_count EXCEPT ![a] = 0]
        /\ UNCHANGED cookie
    BY <1>2 DEF DeleteAlloc
  <2>2. AllocTypeOK'
    BY <2>1 DEF AllocTypeOK
  <2>3. Outstanding(a) = {}
    BY <1>2, <2>1, NothingOut DEF CountsExact
  <2>4. AllocatorsOutliveBuffers'
    BY <2>1, <2>3 DEF AllocatorsOutliveBuffers, Allocated, Outstanding
  <2>5. CountsExact'
    <3> SUFFICES ASSUME NEW c \in allocators'
                 PROVE  allocate_count'[c] =
                          deallocate_count'[c] + Cardinality(Outstanding(c)')
      BY DEF CountsExact
    <3>1. c \in allocators /\ c # a
      BY <2>1
    <3>2. /\ allocate_count'[c] = allocate_count[c]
          /\ deallocate_count'[c] = deallocate_count[c]
          /\ Outstanding(c)' = Outstanding(c)
      BY <2>1, <3>1 DEF AllocTypeOK, Outstanding
    <3>3. QED
      BY <3>1, <3>2 DEF CountsExact
  <2>6. QED
    BY <2>2, <2>4, <2>5
<1>3. QED
  BY <1>1, <1>2

\* Every step of an allocator keeps the invariant.
LEMMA AllocStep == AllocInv /\ [AllocNext]_avars => AllocInv'
<1> SUFFICES ASSUME AllocInv, [AllocNext]_avars PROVE AllocInv'
  OBVIOUS
<1>1. CASE UNCHANGED avars
  BY <1>1 DEF avars, AllocInv, AllocTypeOK, CountsExact,
     AllocatorsOutliveBuffers, Allocated, Outstanding
<1>2. CASE \E a \in Allocs : NewAlloc(a) \/ DeleteAlloc(a)
  BY <1>2, NewAllocStep, DeleteAllocStep
<1>3. CASE \E a \in Allocs, b \in Buffers : Give(a, b) \/ Free(a, b)
  BY <1>3, GiveStep, FreeStep
<1>4. CASE \E a \in Allocs, b \in Buffers, in \in Buffers : Resize(a, in, b)
  BY <1>4, ResizeStep
<1>5. QED
  BY <1>1, <1>2, <1>3, <1>4 DEF AllocNext

\* The counts of the allocators are exact for any number of buffers and
\* allocators, whatever a program does with them.
THEOREM AllocatorsCorrect == AllocSpec => []AllocInv
<1>1. AllocInit => AllocInv
  BY AllocStart
<1>2. AllocInv /\ [AllocNext]_avars => AllocInv'
  BY AllocStep
<1>3. QED
  BY <1>1, <1>2, PTL DEF AllocSpec

-----------------------------------------------------------------------------
\* A buffer is got, freed or resized only through an allocator that exists, so
\* each of these is a step of AllocNext.
LEMMA BufferSteps ==
  ASSUME AllocTypeOK, NEW a, NEW b
  PROVE  /\ b \in Buffers /\ Give(a, b) => AllocNext
         /\ Free(a, b) => AllocNext
         /\ \A in : b \in Buffers /\ Resize(a, in, b) => AllocNext
<1>1. a \in allocators => a \in Allocs
  BY DEF AllocTypeOK
<1>2. b \in Buffers /\ Give(a, b) => AllocNext
  BY <1>1 DEF Give, AllocNext
<1>3. Free(a, b) => AllocNext
  <2> SUFFICES ASSUME Free(a, b) PROVE AllocNext
    OBVIOUS
  <2>1. a \in Allocs /\ b \in Buffers
    BY <1>1 DEF Free, Allocated
  <2>2. QED
    BY <2>1 DEF AllocNext
<1>4. ASSUME NEW in, b \in Buffers, Resize(a, in, b) PROVE AllocNext
  <2>1. a \in Allocs /\ in \in Buffers
    BY <1>1, <1>4 DEF Resize, Allocated
  <2>2. QED
    BY <1>4, <2>1 DEF AllocNext
<1>5. QED
  BY <1>2, <1>3, <1>4

LEMMA ProgramSteps == AllocTypeOK /\ Program => [AllocNext]_avars
<1> SUFFICES ASSUME AllocTypeOK, NEW a \in Allocs,
                    \/ ProgramNewAlloc(a) \/ ProgramDeleteAlloc(a)
                    \/ \E b \in Buffers :
                         \/ ProgramFree(a, b) \/ NewConfig(a, b)
                         \/ SetAlloc(b, a) \/ SetAlloc(b, NoAlloc)
                         \/ \E in \in raw \cup {NoBuffer} :
                              ProgramRealloc(a, in, b)
             PROVE  [AllocNext]_avars
  BY DEF Program
<1>1. CASE ProgramNewAlloc(a) \/ ProgramDeleteAlloc(a)
  BY <1>1 DEF ProgramNewAlloc, ProgramDeleteAlloc, AllocNext
<1>2. ASSUME NEW b \in Buffers, ProgramFree(a, b) \/ NewConfig(a, b)
      PROVE  AllocNext
  BY <1>2, BufferSteps DEF ProgramFree, NewConfig
<1>3. ASSUME NEW b \in Buffers, SetAlloc(b, a) \/ SetAlloc(b, NoAlloc)
      PROVE  UNCHANGED avars
  BY <1>3 DEF SetAlloc
<1>4. ASSUME NEW b \in Buffers, NEW in \in raw \cup {NoBuffer},
             ProgramRealloc(a, in, b)
      PROVE  AllocNext
  BY <1>4, BufferSteps DEF ProgramRealloc
<1>5. QED
  BY <1>1, <1>2, <1>3, <1>4

LEMMA CallSteps == AllocTypeOK /\ Call => [AllocNext]_avars
<1> SUFFICES ASSUME AllocTypeOK, NEW o \in Live,
                    \/ \E kind \in Kinds :
                         CallNew(o, kind) \/ CallNewNoAlloc(o, kind)
                    \/ \E t \in Live : CallObjectNew(o, t)
                    \/ \E b \in Buffers : Copy(o, b) \/ EnlargeVector(o, b)
                    \/ \E m \in Required : SetMethod(o, m)
                    \/ CopyFails(o) \/ Delete(o) \/ DeleteOrphan(o)
             PROVE  [AllocNext]_avars
  BY DEF Call
<1>1. ASSUME NEW kind \in Kinds, CallNew(o, kind) \/ CallNewNoAlloc(o, kind)
      PROVE  UNCHANGED avars
  BY <1>1 DEF CallNew, CallNewNoAlloc
<1>2. ASSUME NEW t \in Live, CallObjectNew(o, t) PROVE UNCHANGED avars
  BY <1>2 DEF CallObjectNew
<1>3. ASSUME NEW b \in Buffers, Copy(o, b) \/ EnlargeVector(o, b)
      PROVE  AllocNext
  BY <1>3, BufferSteps DEF Copy, EnlargeVector
<1>4. ASSUME NEW m \in Required, SetMethod(o, m) PROVE UNCHANGED avars
  BY <1>4 DEF SetMethod
<1>5. CASE CopyFails(o) \/ Delete(o) \/ DeleteOrphan(o)
  BY <1>5 DEF CopyFails, Delete, DeleteOrphan
<1>6. QED
  BY <1>1, <1>2, <1>3, <1>4, <1>5

LEMMA ConstructorSteps == AllocTypeOK /\ Step => [AllocNext]_avars
<1> SUFFICES ASSUME AllocTypeOK,
                    \/ \E b \in Buffers : GetPart(b) \/ GetObject(b)
                    \/ Fail \/ UndoPart \/ UndoConfig \/ Return
             PROVE  [AllocNext]_avars
  BY DEF Step
<1>1. ASSUME NEW b \in Buffers, GetPart(b) \/ GetObject(b)
      PROVE  AllocNext
  BY <1>1, BufferSteps DEF GetPart, GetObject
<1>2. CASE Fail \/ Return
  BY <1>2 DEF Fail, Return
<1>3. CASE UndoPart \/ UndoConfig
  BY <1>3, BufferSteps DEF UndoPart, UndoConfig
<1>4. QED
  BY <1>1, <1>2, <1>3

\* Every step of the heap is a step of the allocators or leaves them alone.
LEMMA HeapStep == AllocTypeOK /\ [Next]_hvars => [AllocNext]_avars
<1> SUFFICES ASSUME AllocTypeOK, [Next]_hvars PROVE [AllocNext]_avars
  OBVIOUS
<1>1. CASE UNCHANGED hvars \/ Crashed
  BY <1>1 DEF hvars, Crashed
<1>2. CASE Program
  BY <1>2, ProgramSteps
<1>3. CASE Call
  BY <1>3, CallSteps
<1>4. CASE Step
  BY <1>4, ConstructorSteps
<1>5. QED
  BY <1>1, <1>2, <1>3, <1>4 DEF Next

\* The heap keeps the invariant of the allocators.
LEMMA HeapInvariant == Spec => []AllocInv
<1>1. Init => AllocInv
  BY AllocStart DEF Init
<1>2. AllocInv /\ [Next]_hvars => AllocInv'
  BY HeapStep, AllocStep DEF AllocInv
<1>3. QED
  BY <1>1, <1>2, PTL DEF Spec

\* Constructors, copies and destructors, failing anywhere, do nothing to the
\* buffers but what the allocators of esch_alloc.c allow.
THEOREM HeapImplementsAlloc == Spec => AllocSpec
<1>1. Init => AllocInit
  BY DEF Init
<1>2. AllocInv /\ [Next]_hvars => [AllocNext]_avars
  BY HeapStep DEF AllocInv
<1>3. QED
  BY <1>1, <1>2, HeapInvariant, PTL DEF Spec, AllocSpec

\* The leak report is right in any program over any number of buffers: the
\* counts differ by exactly the buffers that are out.
THEOREM LeakReportExact == Spec => []CountsExact
<1>1. AllocInv => CountsExact
  BY DEF AllocInv
<1>2. QED
  BY <1>1, HeapInvariant, PTL

\* No allocator is deleted before the last of its buffers is freed.
THEOREM AllocatorsGoLast == Spec => []AllocatorsOutliveBuffers
<1>1. AllocInv => AllocatorsOutliveBuffers
  BY DEF AllocInv
<1>2. QED
  BY <1>1, HeapInvariant, PTL

-----------------------------------------------------------------------------
(***************************************************************************)
(* Who owns which buffer.  OwnershipExact is not inductive: a constructor  *)
(* frees the buffers of a list one by one, so the list must name none      *)
(* twice; it may get as many as its kind has parts and no more; and an     *)
(* object that is being made knows the address of its type.                *)
(***************************************************************************)
NoRepeat(s) == \A i, j \in DOMAIN s : s[i] = s[j] => i = j

PlainKinds == Kinds \ {"type", "custom"}

ObjectRecords ==
  [kind : {"config"}, alloc : Allocs, parts : {<<>>},
   entry : Allocs \cup {NoAlloc}]
  \cup [kind : {"type"} \cap Kinds, alloc : Allocs, parts : {<<>>},
        methods : SUBSET Required]
  \cup [kind : {"custom"} \cap Kinds, alloc : Allocs, parts : {<<>>},
        type : Buffers]
  \cup [kind : PlainKinds, alloc : Allocs, parts : Seq(Buffers)]

NewJobs ==
  [step : {"new"}, kind : Kinds, alloc : Allocs, got : Seq(Buffers),
   config : Buffers \cup {NoBuffer}, type : Buffers \cup {NoBuffer}]

UndoJobs ==
  [step : {"undo"}, alloc : Allocs, got : Seq(Buffers),
   config : Buffers \cup {NoBuffer}]

\* The types of the variables, record by record.
HeapTypes ==
  /\ raw \subseteq Buffers
  /\ object \in [Buffers -> ObjectRecords \cup {Nothing}]
  /\ job \in NewJobs \cup UndoJobs \cup {Idle}
  /\ fault \in {"none", "null_alloc", "null_config", "freed_type"}

\* A finished object has the buffers of its kind, an unfinished one no more.
PartsCounted ==
  /\ \A o \in Live : Len(object[o].parts) = Parts(object[o].kind)
  /\ job.step = "new" => Len(job.got) <= Parts(job.kind)

\* No list names a buffer twice.
ListsDistinct ==
  /\ \A o \in Live :
       NoRepeat(object[o].parts) /\ o \notin ToSet(object[o].parts)
  /\ job.step # "idle" =>
       NoRepeat(job.got) /\ job.config \notin ToSet(job.got)

\* What is allocated is owned.
AllOwned ==
  \A b \in Buffers :
    b \in Allocated <=> \/ b \in raw \cup Held
                        \/ \E o \in Live : b \in Owned(o)

\* Nothing is owned twice.
NoneShared ==
  /\ raw \cap Held = {}
  /\ \A o \in Live : Owned(o) \cap (raw \cup Held) = {}
  /\ \A o, q \in Live : o # q => Owned(o) \cap Owned(q) = {}

\* The owner frees through the allocator the buffer came from.
RightAllocator ==
  /\ \A o \in Live : \A b \in Owned(o) : cookie[b] = object[o].alloc
  /\ \A b \in Held : cookie[b] = job.alloc

\* An object that is being made was given a type.
TypeGiven ==
  job.step = "new" /\ job.kind = "custom" => job.type \in Buffers

HeapInv ==
  /\ HeapTypes /\ PartsCounted /\ ListsDistinct
  /\ AllOwned /\ NoneShared /\ RightAllocator /\ TypeGiven

-----------------------------------------------------------------------------
\* What a list of buffers names, as it grows at its end and shrinks at its
\* front.
LEMMA ListEmpty ==
  /\ <<>> \in Seq(Buffers) /\ Len(<<>>) = 0
  /\ ToSet(<<>>) = {} /\ NoRepeat(<<>>)
BY DEF ToSet, NoRepeat

LEMMA ListOfOne ==
  ASSUME NEW b \in Buffers
  PROVE  /\ <<b>> \in Seq(Buffers) /\ Len(<<b>>) = 1
         /\ ToSet(<<b>>) = {b} /\ NoRepeat(<<b>>)
BY DEF ToSet, NoRepeat

LEMMA ListAppended ==
  ASSUME NEW s \in Seq(Buffers), NEW b \in Buffers
  PROVE  /\ Append(s, b) \in Seq(Buffers)
         /\ Len(Append(s, b)) = Len(s) + 1
         /\ ToSet(Append(s, b)) = ToSet(s) \cup {b}
         /\ NoRepeat(s) /\ b \notin ToSet(s) => NoRepeat(Append(s, b))
<1> DEFINE t == Append(s, b)
<1>1. /\ t \in Seq(Buffers) /\ Len(t) = Len(s) + 1
      /\ \A i \in 1 .. Len(s) : t[i] = s[i]
      /\ t[Len(s) + 1] = b
      /\ DOMAIN t = 1 .. Len(s) + 1 /\ DOMAIN s = 1 .. Len(s)
      /\ Len(s) \in Nat
  OBVIOUS
<1> HIDE DEF t
<1>2. ToSet(t) = ToSet(s) \cup {b}
  <2>1. ASSUME NEW x \in ToSet(t) PROVE x \in ToSet(s) \cup {b}
    BY <1>1, <2>1 DEF ToSet
  <2>2. ASSUME NEW x \in ToSet(s) PROVE x \in ToSet(t)
    BY <1>1, <2>2 DEF ToSet
  <2>3. b \in ToSet(t)
    BY <1>1 DEF ToSet
  <2>4. QED
    BY <2>1, <2>2, <2>3
<1>3. NoRepeat(s) /\ b \notin ToSet(s) => NoRepeat(t)
  BY <1>1 DEF ToSet, NoRepeat
<1>4. QED
  BY <1>1, <1>2, <1>3 DEF t

LEMMA ListShortened ==
  ASSUME NEW s \in Seq(Buffers), s # <<>>
  PROVE  /\ Head(s) \in Buffers
         /\ Tail(s) \in Seq(Buffers)
         /\ ToSet(s) = ToSet(Tail(s)) \cup {Head(s)}
         /\ NoRepeat(s) => NoRepeat(Tail(s)) /\ Head(s) \notin ToSet(Tail(s))
<1> DEFINE t == Tail(s)
<1>1. /\ Head(s) \in Buffers /\ t \in Seq(Buffers)
      /\ Len(s) \in Nat \ {0} /\ Len(t) = Len(s) - 1
      /\ Head(s) = s[1]
      /\ \A i \in 1 .. Len(t) : t[i] = s[i + 1]
      /\ DOMAIN t = 1 .. Len(t) /\ DOMAIN s = 1 .. Len(s)
  OBVIOUS
<1> HIDE DEF t
<1>2. ToSet(s) = ToSet(t) \cup {Head(s)}
  <2>1. ASSUME NEW i \in DOMAIN s PROVE s[i] \in ToSet(t) \cup {Head(s)}
    <3>1. CASE i = 1
      BY <1>1, <3>1
    <3>2. CASE i # 1
      <4>1. i - 1 \in DOMAIN t /\ t[i - 1] = s[i]
        BY <1>1, <3>2
      <4>2. QED
        BY <4>1 DEF ToSet
    <3>3. QED
      BY <3>1, <3>2
  <2>2. ASSUME NEW i \in DOMAIN t PROVE t[i] \in ToSet(s)
    BY <1>1 DEF ToSet
  <2>3. Head(s) \in ToSet(s)
    BY <1>1 DEF ToSet
  <2>4. QED
    BY <2>1, <2>2, <2>3 DEF ToSet
<1>3. ASSUME NoRepeat(s) PROVE NoRepeat(t) /\ Head(s) \notin ToSet(t)
  <2>1. ASSUME NEW i \in DOMAIN t, NEW j \in DOMAIN t, t[i] = t[j]
        PROVE  i = j
    BY <1>1, <1>3, <2>1 DEF NoRepeat
  <2>2. ASSUME NEW i \in DOMAIN t PROVE t[i] # Head(s)
    BY <1>1, <1>3 DEF NoRepeat
  <2>3. QED
    BY <2>1, <2>2 DEF NoRepeat, ToSet
<1>4. QED
  BY <1>1, <1>2, <1>3 DEF t

\* A list that names no buffer twice names as many as it is long.
LEMMA ListCounted ==
  ASSUME NEW s \in Seq(Buffers), NoRepeat(s), NEW o, o \notin ToSet(s)
  PROVE  Cardinality({o} \cup ToSet(s)) = Len(s) + 1
<1>1. /\ Len(s) \in Nat /\ DOMAIN s = 1 .. Len(s)
      /\ s \in [1 .. Len(s) -> ToSet(s)]
  BY DEF ToSet
<1>2. s \in Bijection(1 .. Len(s), ToSet(s))
  <2>1. s \in Injection(1 .. Len(s), ToSet(s))
    BY <1>1 DEF Injection, NoRepeat, IsInjective
  <2>2. s \in Surjection(1 .. Len(s), ToSet(s))
    BY <1>1 DEF Surjection, ToSet
  <2>3. QED
    BY <2>1, <2>2 DEF Bijection
<1>3. IsFiniteSet(1 .. Len(s)) /\ Cardinality(1 .. Len(s)) = Len(s)
  BY <1>1, FS_Interval
<1>4. IsFiniteSet(ToSet(s)) /\ Cardinality(ToSet(s)) = Len(s)
  <2>1. ExistsBijection(1 .. Len(s), ToSet(s))
    BY <1>2 DEF ExistsBijection
  <2>2. QED
    BY <1>3, <2>1, FS_Bijection
<1>5. {o} \cup ToSet(s) = ToSet(s) \cup {o}
  OBVIOUS
<1>6. QED
  BY <1>1, <1>4, <1>5, FS_AddElement

-----------------------------------------------------------------------------
\* What the three calls of the allocator do to the set of allocated buffers.
LEMMA GiveEffect ==
  ASSUME AllocTypeOK, NEW a, NEW b \in Buffers, Give(a, b)
  PROVE  /\ a \in Allocs /\ b \notin Allocated
         /\ Allocated' = Allocated \cup {b}
         /\ cookie'[b] = a
         /\ \A c \in Buffers \ {b} : cookie'[c] = cookie[c]
<1>1. /\ a \in Allocs /\ b \notin Allocated
      /\ cookie' = [cookie EXCEPT ![b] = a]
      /\ cookie \in [Buffers -> Allocs \cup {NoAlloc}]
      /\ NoAlloc \notin Allocs
  BY AllocAssumption DEF Give, Malloc, AllocTypeOK
<1>2. QED
  BY <1>1 DEF Allocated

LEMMA FreeEffect ==
  ASSUME AllocTypeOK, NEW a, NEW b \in Buffers, Free(a, b), cookie[b] = a
  PROVE  /\ Allocated' = Allocated \ {b}
         /\ \A c \in Buffers \ {b} : cookie'[c] = cookie[c]
<1>1. /\ cookie' = [cookie EXCEPT ![b] = NoAlloc]
      /\ cookie \in [Buffers -> Allocs \cup {NoAlloc}]
  BY DEF Free, OwnCookie, AllocTypeOK
<1>2. QED
  BY <1>1 DEF Allocated

LEMMA ResizeEffect ==
  ASSUME AllocTypeOK, NEW a, NEW in, NEW out \in Buffers, Resize(a, in, out)
  PROVE  /\ a \in Allocs /\ in \in Allocated /\ cookie[in] = a
         /\ out = in \/ out \notin Allocated
         /\ Allocated' = (Allocated \ {in}) \cup {out}
         /\ cookie'[out] = a
         /\ \A c \in Buffers \ {in, out} : cookie'[c] = cookie[c]
<1>1. /\ a \in Allocs /\ in \in Allocated /\ cookie[in] = a
      /\ out = in \/ out \notin Allocated
      /\ cookie' = [cookie EXCEPT ![in] = NoAlloc, ![out] = a]
      /\ cookie \in [Buffers -> Allocs \cup {NoAlloc}]
      /\ NoAlloc \notin Allocs
  BY AllocAssumption DEF Resize, Malloc, AllocTypeOK
<1>2. QED
  BY <1>1 DEF Allocated

\* A step that leaves objects and the running call alone leaves all that is
\* said of them alone.
LEMMA ObjectsSame ==
  ASSUME object' = object
  PROVE  /\ Live' = Live
         /\ \A o : Owned(o)' = Owned(o)
         /\ \A kind : Are(kind)' = Are(kind)
BY DEF Live, Owned, Are

LEMMA JobSame ==
  ASSUME job' = job
  PROVE  Held' = Held
BY DEF Held

LEMMA ListsSame ==
  ASSUME HeapInv, object' = object, job' = job
  PROVE  PartsCounted' /\ ListsDistinct' /\ TypeGiven'
<1>1. Live' = Live /\ \A kind : Are(kind)' = Are(kind)
  BY ObjectsSame
<1>2. PartsCounted'
  BY <1>1 DEF HeapInv, PartsCounted
<1>3. ListsDistinct'
  BY <1>1 DEF HeapInv, ListsDistinct
<1>4. TypeGiven'
  BY <1>1 DEF HeapInv, TypeGiven
<1>5. QED
  BY <1>2, <1>3, <1>4

\* What is owned is allocated, and what is free is no object.
LEMMA OwnedAllocated ==
  ASSUME HeapInv
  PROVE  /\ raw \subseteq Allocated
         /\ Held \subseteq Buffers /\ Held \subseteq Allocated
         /\ \A o \in Live : /\ o \in Owned(o)
                            /\ Owned(o) \subseteq Buffers
                            /\ Owned(o) \subseteq Allocated
         /\ \A b \in Buffers \ Allocated : object[b] = Nothing
<1> USE DEF HeapInv
<1>1. Held \subseteq Buffers
  BY DEF HeapTypes, Held, NewJobs, UndoJobs, Idle, ToSet
<1>2. ASSUME NEW o \in Live PROVE o \in Owned(o) /\ Owned(o) \subseteq Buffers
  <2>1. object[o] \in ObjectRecords
    BY DEF HeapTypes, Live
  <2>2. object[o].parts \in Seq(Buffers)
    BY <2>1, ListEmpty DEF ObjectRecords
  <2>3. \A i \in DOMAIN object[o].parts : object[o].parts[i] \in Buffers
    BY <2>2
  <2>4. o \in Buffers
    BY DEF Live
  <2>5. QED
    BY <2>3, <2>4 DEF Owned, ToSet
<1>3. raw \subseteq Buffers
  BY DEF HeapTypes
<1>4. QED
  BY <1>1, <1>2, <1>3 DEF AllOwned, Live

\* The types of an object's fields.
LEMMA ObjectFields ==
  ASSUME HeapInv, NEW o \in Live
  PROVE  /\ object[o] \in ObjectRecords
         /\ object[o].alloc \in Allocs
         /\ object[o].parts \in Seq(Buffers)
         /\ object[o].kind \in Kinds \cup {"config"}
<1>1. object[o] \in ObjectRecords
  BY DEF HeapInv, HeapTypes, Live
<1>2. QED
  BY <1>1, ListEmpty DEF ObjectRecords, PlainKinds

\* The types of a job's fields.
LEMMA JobFields ==
  ASSUME HeapInv
  PROVE  /\ job.step \in {"idle", "new", "undo"}
         /\ job.step = "idle" => Held = {}
         /\ job.step # "idle" =>
              /\ job.alloc \in Allocs /\ job.got \in Seq(Buffers)
              /\ job.config \in Buffers \cup {NoBuffer}
              /\ Held = ToSet(job.got) \cup ({job.config} \ {NoBuffer})
         /\ job.step = "new" => job \in NewJobs
         /\ job.step = "undo" => job \in UndoJobs
<1>1. job \in NewJobs \cup UndoJobs \cup {Idle}
  BY DEF HeapInv, HeapTypes
<1>2. QED
  BY <1>1 DEF NewJobs, UndoJobs, Idle, Held

-----------------------------------------------------------------------------
\* Steps that move no buffer.
LEMMA NothingMoves ==
  ASSUME HeapInv, UNCHANGED <<cookie, raw, object, job, fault>>
  PROVE  HeapInv'
<1>1. /\ Live' = Live /\ Allocated' = Allocated /\ Held' = Held
      /\ \A o : Owned(o)' = Owned(o)
  BY ObjectsSame, JobSame DEF Allocated
<1>2. HeapTypes'
  BY DEF HeapInv, HeapTypes
<1>3. PartsCounted' /\ ListsDistinct' /\ TypeGiven'
  BY ListsSame
<1>4. AllOwned' /\ NoneShared'
  BY <1>1 DEF HeapInv, AllOwned, NoneShared
<1>5. RightAllocator'
  BY <1>1 DEF HeapInv, RightAllocator
<1>6. QED
  BY <1>2, <1>3, <1>4, <1>5 DEF HeapInv

\* The program gets a buffer for itself.
LEMMA RawGiven ==
  ASSUME AllocTypeOK, HeapInv, NEW a, NEW b \in Buffers, Give(a, b),
         raw' = raw \cup {b}, UNCHANGED <<object, job, fault>>
  PROVE  HeapInv'
<1>1. /\ Live' = Live /\ Held' = Held
      /\ \A o : Owned(o)' = Owned(o)
  BY ObjectsSame, JobSame
<1>2. /\ b \notin Allocated /\ Allocated' = Allocated \cup {b}
      /\ \A c \in Buffers \ {b} : cookie'[c] = cookie[c]
  BY GiveEffect
<1>3. /\ Held \subseteq Buffers /\ Held \subseteq Allocated
      /\ \A o \in Live : /\ Owned(o) \subseteq Buffers
                         /\ Owned(o) \subseteq Allocated
  BY OwnedAllocated
<1>4. HeapTypes'
  BY DEF HeapInv, HeapTypes
<1>5. PartsCounted' /\ ListsDistinct' /\ TypeGiven'
  BY ListsSame
<1>6. AllOwned'
  BY <1>1, <1>2 DEF HeapInv, AllOwned
<1>7. NoneShared'
  BY <1>1, <1>2, <1>3 DEF HeapInv, NoneShared
<1>8. RightAllocator'
  BY <1>1, <1>2, <1>3 DEF HeapInv, RightAllocator
<1>9. QED
  BY <1>4, <1>5, <1>6, <1>7, <1>8 DEF HeapInv

\* The program resizes a buffer of its own, which may move.
LEMMA RawResized ==
  ASSUME AllocTypeOK, HeapInv, NEW a, NEW in \in raw, NEW out \in Buffers,
         Resize(a, in, out), raw' = (raw \ {in}) \cup {out},
         UNCHANGED <<object, job, fault>>
  PROVE  HeapInv'
<1>1. /\ Live' = Live /\ Held' = Held
      /\ \A o : Owned(o)' = Owned(o)
  BY ObjectsSame, JobSame
<1>2. /\ out = in \/ out \notin Allocated
      /\ Allocated' = (Allocated \ {in}) \cup {out}
      /\ \A c \in Buffers \ {in, out} : cookie'[c] = cookie[c]
  BY ResizeEffect
<1>3. /\ Held \subseteq Buffers /\ Held \subseteq Allocated
      /\ \A o \in Live : /\ Owned(o) \subseteq Buffers
                         /\ Owned(o) \subseteq Allocated
  BY OwnedAllocated
<1>4. in \notin Held /\ \A o \in Live : in \notin Owned(o)
  BY DEF HeapInv, NoneShared
<1>5. HeapTypes'
  BY DEF HeapInv, HeapTypes
<1>6. PartsCounted' /\ ListsDistinct' /\ TypeGiven'
  BY ListsSame
<1>7. AllOwned'
  BY <1>1, <1>2, <1>4 DEF HeapInv, AllOwned
<1>8. NoneShared'
  BY <1>1, <1>2, <1>3, <1>4 DEF HeapInv, NoneShared
<1>9. RightAllocator'
  BY <1>1, <1>2, <1>3, <1>4 DEF HeapInv, RightAllocator
<1>10. QED
  BY <1>5, <1>6, <1>7, <1>8, <1>9 DEF HeapInv

\* The program frees a buffer of its own; through the wrong allocator it
\* stays its own.
LEMMA RawFreed ==
  ASSUME AllocTypeOK, HeapInv, NEW a, NEW b, ProgramFree(a, b)
  PROVE  HeapInv'
<1> USE DEF ProgramFree
<1>1. raw \subseteq Allocated
  BY OwnedAllocated
<1>2. CASE ~OwnCookie(a, b)
  <2>1. UNCHANGED avars
    BY <1>2 DEF Free
  <2>2. UNCHANGED <<cookie, raw, object, job, fault>>
    BY <1>1, <2>1 DEF avars, Allocated
  <2>3. QED
    BY <2>2, NothingMoves
<1>3. CASE OwnCookie(a, b)
  <2>1. b \in raw /\ b \in Buffers /\ cookie[b] = a
    BY <1>3 DEF OwnCookie, HeapInv, HeapTypes
  <2>2. /\ Allocated' = Allocated \ {b}
        /\ \A c \in Buffers \ {b} : cookie'[c] = cookie[c]
    BY <2>1, FreeEffect
  <2>3. raw' = raw \ {b}
    BY <1>1, <2>2
  <2>4. /\ Live' = Live /\ Held' = Held
        /\ \A o : Owned(o)' = Owned(o)
    BY ObjectsSame, JobSame
  <2>5. /\ Held \subseteq Buffers
        /\ \A o \in Live : Owned(o) \subseteq Buffers
        /\ b \notin Held /\ \A o \in Live : b \notin Owned(o)
    BY <2>1, OwnedAllocated DEF HeapInv, NoneShared
  <2>6. HeapTypes'
    BY <2>3 DEF HeapInv, HeapTypes
  <2>7. PartsCounted' /\ ListsDistinct' /\ TypeGiven'
    BY ListsSame
  <2>8. AllOwned'
    BY <2>2, <2>3, <2>4, <2>5 DEF HeapInv, AllOwned
  <2>9. NoneShared'
    BY <2>3, <2>4 DEF HeapInv, NoneShared
  <2>10. RightAllocator'
    BY <2>2, <2>4, <2>5 DEF HeapInv, RightAllocator
  <2>11. QED
    BY <2>6, <2>7, <2>8, <2>9, <2>10 DEF HeapInv
<1>4. QED
  BY <1>2, <1>3

LEMMA ProgramRawSteps ==
  ASSUME AllocTypeOK, HeapInv, NEW a \in Allocs, NEW b \in Buffers,
         NEW in \in raw \cup {NoBuffer},
         \/ ProgramNewAlloc(a) \/ ProgramDeleteAlloc(a)
         \/ ProgramFree(a, b) \/ ProgramRealloc(a, in, b)
  PROVE  HeapInv'
<1>1. CASE ProgramNewAlloc(a) \/ ProgramDeleteAlloc(a)
  <2>1. UNCHANGED <<cookie, raw, object, job, fault>>
    BY <1>1 DEF ProgramNewAlloc, ProgramDeleteAlloc, NewAlloc, DeleteAlloc,
       avars
  <2>2. QED
    BY <2>1, NothingMoves
<1>2. CASE ProgramFree(a, b)
  BY <1>2, RawFreed
<1>3. CASE ProgramRealloc(a, in, b)
  BY <1>3, RawGiven, RawResized DEF ProgramRealloc
<1>4. QED
  BY <1>1, <1>2, <1>3

-----------------------------------------------------------------------------
\* No object is the record of nothing.
LEMMA RecordsAreSomething ==
  ASSUME NEW r \in ObjectRecords
  PROVE  r # Nothing /\ r.alloc \in Allocs /\ r.parts \in Seq(Buffers)
<1>1. r.kind \in Kinds \cup {"config"}
  BY DEF ObjectRecords, PlainKinds
<1>2. r.kind # "nothing"
  BY <1>1, HeapAssumption
<1>3. r.alloc \in Allocs /\ r.parts \in Seq(Buffers)
  BY ListEmpty DEF ObjectRecords
<1>4. QED
  BY <1>2, <1>3 DEF Nothing

\* What a record says of the object it is put down for.
GoodObject(b, r) ==
  /\ r \in ObjectRecords
  /\ Len(r.parts) = Parts(r.kind)
  /\ NoRepeat(r.parts) /\ b \notin ToSet(r.parts)

\* One more object.
LEMMA ObjectMade ==
  ASSUME HeapInv, NEW b \in Buffers, object[b] = Nothing, NEW r,
         GoodObject(b, r), object' = [object EXCEPT ![b] = r]
  PROVE  /\ Live' = Live \cup {b} /\ b \notin Live
         /\ Owned(b)' = {b} \cup ToSet(r.parts)
         /\ \A o \in Live : Owned(o)' = Owned(o) /\ object'[o] = object[o]
         /\ object' \in [Buffers -> ObjectRecords \cup {Nothing}]
         /\ object'[b] = r
         /\ \A o \in Live' : GoodObject(o, object'[o])
<1>1. /\ object \in [Buffers -> ObjectRecords \cup {Nothing}]
      /\ r \in ObjectRecords /\ r # Nothing
  BY RecordsAreSomething DEF HeapInv, HeapTypes, GoodObject
<1>2. /\ object' \in [Buffers -> ObjectRecords \cup {Nothing}]
      /\ object'[b] = r
      /\ \A o \in Buffers \ {b} : object'[o] = object[o]
  BY <1>1
<1>3. Live' = Live \cup {b} /\ b \notin Live
  BY <1>1, <1>2 DEF Live
<1>4. \A o \in Live : o \in Buffers \ {b} /\ object'[o] = object[o]
  BY <1>2, <1>3 DEF Live
<1>5. /\ Owned(b)' = {b} \cup ToSet(r.parts)
      /\ \A o \in Live : Owned(o)' = Owned(o)
  BY <1>2, <1>4 DEF Owned
<1>6. \A o \in Live : GoodObject(o, object[o])
  BY ObjectFields DEF GoodObject, HeapInv, PartsCounted, ListsDistinct
<1>7. \A o \in Live' : GoodObject(o, object'[o])
  BY <1>2, <1>3, <1>4, <1>6
<1>8. QED
  BY <1>2, <1>3, <1>4, <1>5, <1>7

\* An object is changed, but not its kind.
LEMMA ObjectChanged ==
  ASSUME HeapInv, NEW v \in Live, NEW r, GoodObject(v, r),
         r.kind = object[v].kind,
         object' = [object EXCEPT ![v] = r]
  PROVE  /\ Live' = Live
         /\ Owned(v)' = {v} \cup ToSet(r.parts)
         /\ \A o \in Live \ {v} : Owned(o)' = Owned(o) /\ object'[o] = object[o]
         /\ object' \in [Buffers -> ObjectRecords \cup {Nothing}]
         /\ object'[v] = r
         /\ \A o \in Live' : GoodObject(o, object'[o])
<1>1. /\ object \in [Buffers -> ObjectRecords \cup {Nothing}]
      /\ r \in ObjectRecords /\ r # Nothing
      /\ v \in Buffers /\ object[v] # Nothing
  BY RecordsAreSomething DEF HeapInv, HeapTypes, GoodObject, Live
<1>2. /\ object' \in [Buffers -> ObjectRecords \cup {Nothing}]
      /\ object'[v] = r
      /\ \A o \in Buffers \ {v} : object'[o] = object[o]
  BY <1>1
<1>3. Live' = Live
  BY <1>1, <1>2 DEF Live
<1>4. \A o \in Live \ {v} : o \in Buffers \ {v} /\ object'[o] = object[o]
  BY <1>2 DEF Live
<1>5. /\ Owned(v)' = {v} \cup ToSet(r.parts)
      /\ \A o \in Live \ {v} : Owned(o)' = Owned(o)
  BY <1>2, <1>4 DEF Owned
<1>6. \A o \in Live : GoodObject(o, object[o])
  BY ObjectFields DEF GoodObject, HeapInv, PartsCounted, ListsDistinct
<1>7. \A o \in Live' : GoodObject(o, object'[o])
  BY <1>2, <1>3, <1>4, <1>6
<1>8. QED
  BY <1>2, <1>3, <1>4, <1>5, <1>7

\* The parts of the invariant that speak of one object at a time.
LEMMA ObjectsGood ==
  ASSUME \A o \in Live' : GoodObject(o, object'[o]),
         job'.step # "idle" =>
            NoRepeat(job'.got) /\ job'.config \notin ToSet(job'.got),
         job'.step = "new" => /\ Len(job'.got) <= Parts(job'.kind)
                              /\ job'.kind = "custom" => job'.type \in Buffers
  PROVE  PartsCounted' /\ ListsDistinct' /\ TypeGiven'
BY DEF PartsCounted, ListsDistinct, TypeGiven, GoodObject

\* What is true of the running call before a step.
LEMMA JobGood ==
  ASSUME HeapInv
  PROVE  /\ job.step # "idle" =>
              NoRepeat(job.got) /\ job.config \notin ToSet(job.got)
         /\ job.step = "new" =>
              /\ Len(job.got) <= Parts(job.kind)
              /\ job.kind = "custom" => job.type \in Buffers
BY DEF HeapInv, PartsCounted, ListsDistinct, TypeGiven

-----------------------------------------------------------------------------
\* esch_config_new: the buffer becomes a configuration at once.
LEMMA NewConfigStep ==
  ASSUME AllocTypeOK, HeapInv, NEW a, NEW b \in Buffers, NewConfig(a, b)
  PROVE  HeapInv'
<1> DEFINE r == Config(a, NoAlloc)
<1>1. /\ a \in Allocs /\ b \notin Allocated
      /\ Allocated' = Allocated \cup {b} /\ cookie'[b] = a
      /\ \A c \in Buffers \ {b} : cookie'[c] = cookie[c]
  BY GiveEffect DEF NewConfig
<1>2. /\ raw \subseteq Allocated
      /\ Held \subseteq Buffers /\ Held \subseteq Allocated
      /\ \A o \in Live : Owned(o) \subseteq Buffers /\ Owned(o) \subseteq Allocated
      /\ object[b] = Nothing
  BY <1>1, OwnedAllocated
<1>3. GoodObject(b, r) /\ r.parts = <<>> /\ r.alloc = a
  BY <1>1, ListEmpty DEF Config, GoodObject, ObjectRecords, Parts
<1>4. object' = [object EXCEPT ![b] = r] /\ UNCHANGED <<raw, job, fault>>
  BY DEF NewConfig
<1> HIDE DEF r
<1>5. /\ Live' = Live \cup {b} /\ b \notin Live
      /\ Owned(b)' = {b}
      /\ \A o \in Live : Owned(o)' = Owned(o) /\ object'[o] = object[o]
      /\ object' \in [Buffers -> ObjectRecords \cup {Nothing}]
      /\ object'[b] = r
      /\ \A o \in Live' : GoodObject(o, object'[o])
  BY <1>2, <1>3, <1>4, ObjectMade, ListEmpty
<1>6. Held' = Held
  BY <1>4, JobSame
<1>7. HeapTypes'
  BY <1>4, <1>5 DEF HeapInv, HeapTypes
<1>8. PartsCounted' /\ ListsDistinct' /\ TypeGiven'
  BY <1>4, <1>5, JobGood, ObjectsGood
<1>9. AllOwned'
  BY <1>1, <1>4, <1>5, <1>6 DEF HeapInv, AllOwned
<1>10. NoneShared'
  BY <1>1, <1>2, <1>4, <1>5, <1>6 DEF HeapInv, NoneShared
<1>11. RightAllocator'
  BY <1>1, <1>2, <1>3, <1>4, <1>5, <1>6 DEF HeapInv, RightAllocator
<1>12. QED
  BY <1>7, <1>8, <1>9, <1>10, <1>11 DEF HeapInv

\* A setter puts another record in place of an object, with the same buffers.
LEMMA RecordChanged ==
  ASSUME HeapInv, NEW v \in Live, NEW r, GoodObject(v, r),
         r.kind = object[v].kind, r.alloc = object[v].alloc,
         r.parts = object[v].parts,
         object' = [object EXCEPT ![v] = r],
         UNCHANGED <<cookie, raw, job, fault>>
  PROVE  HeapInv'
<1>1. /\ Live' = Live
      /\ \A o \in Live : Owned(o)' = Owned(o)
      /\ \A o \in Live : object'[o].alloc = object[o].alloc
      /\ object' \in [Buffers -> ObjectRecords \cup {Nothing}]
      /\ \A o \in Live' : GoodObject(o, object'[o])
  <2>1. /\ Live' = Live
        /\ Owned(v)' = {v} \cup ToSet(r.parts)
        /\ \A o \in Live \ {v} : /\ Owned(o)' = Owned(o)
                                 /\ object'[o] = object[o]
        /\ object' \in [Buffers -> ObjectRecords \cup {Nothing}]
        /\ object'[v] = r
        /\ \A o \in Live' : GoodObject(o, object'[o])
    BY ObjectChanged
  <2>2. Owned(v) = {v} \cup ToSet(r.parts)
    BY DEF Owned
  <2>3. QED
    BY <2>1, <2>2
<1>2. Held' = Held /\ Allocated' = Allocated
  BY JobSame DEF Allocated
<1>3. HeapTypes'
  BY <1>1 DEF HeapInv, HeapTypes
<1>4. PartsCounted' /\ ListsDistinct' /\ TypeGiven'
  BY <1>1, JobGood, ObjectsGood
<1>5. AllOwned' /\ NoneShared'
  BY <1>1, <1>2 DEF HeapInv, AllOwned, NoneShared
<1>6. RightAllocator'
  BY <1>1, <1>2 DEF HeapInv, RightAllocator
<1>7. QED
  BY <1>3, <1>4, <1>5, <1>6 DEF HeapInv

LEMMA SetAllocStep ==
  ASSUME AllocTypeOK, HeapInv, NEW c, NEW a \in Allocs \cup {NoAlloc},
         SetAlloc(c, a)
  PROVE  HeapInv'
<1> DEFINE r == [object[c] EXCEPT !.entry = a]
<1>1. /\ c \in Live /\ object[c].kind = "config" /\ object[c] \in ObjectRecords
      /\ object' = [object EXCEPT ![c] = r]
      /\ UNCHANGED <<cookie, raw, job, fault>>
  BY ObjectFields DEF SetAlloc, Are, avars
<1>2. object[c] \in [kind : {"config"}, alloc : Allocs, parts : {<<>>},
                     entry : Allocs \cup {NoAlloc}]
  BY <1>1, HeapAssumption DEF ObjectRecords, PlainKinds
<1>3. /\ r \in ObjectRecords /\ r.kind = "config" /\ r.parts = <<>>
      /\ r.alloc = object[c].alloc /\ object[c].parts = <<>>
  BY <1>2 DEF ObjectRecords
<1>4. GoodObject(c, r)
  BY <1>3, ListEmpty DEF GoodObject, Parts
<1> HIDE DEF r
<1>5. QED
  BY <1>1, <1>3, <1>4, RecordChanged

LEMMA SetMethodStep ==
  ASSUME AllocTypeOK, HeapInv, NEW t, NEW m, SetMethod(t, m)
  PROVE  HeapInv'
<1> DEFINE r == [object[t] EXCEPT !.methods = @ \cup {m}]
<1>1. /\ t \in Live /\ object[t].kind = "type" /\ object[t] \in ObjectRecords
      /\ object' = [object EXCEPT ![t] = r] /\ m \in Required
      /\ UNCHANGED <<cookie, raw, job, fault>>
  BY ObjectFields DEF SetMethod, Are, avars
<1>2. object[t] \in [kind : {"type"} \cap Kinds, alloc : Allocs,
                     parts : {<<>>}, methods : SUBSET Required]
  BY <1>1, HeapAssumption DEF ObjectRecords, PlainKinds
<1>3. /\ r \in ObjectRecords /\ r.kind = "type" /\ r.parts = <<>>
      /\ r.alloc = object[t].alloc /\ object[t].parts = <<>>
  BY <1>1, <1>2 DEF ObjectRecords
<1>4. GoodObject(t, r)
  BY <1>3, ListEmpty DEF GoodObject, Parts
<1> HIDE DEF r
<1>5. QED
  BY <1>1, <1>3, <1>4, RecordChanged

\* A vector gets a larger array, which may be another buffer.
LEMMA EnlargeVectorStep ==
  ASSUME AllocTypeOK, HeapInv, NEW v, NEW out \in Buffers, EnlargeVector(v, out)
  PROVE  HeapInv'
<1> DEFINE r == [object[v] EXCEPT !.parts = <<out>>]
           in == object[v].parts[1]
<1>1. /\ v \in Live /\ object[v].kind = "vector" /\ object[v] \in ObjectRecords
      /\ object' = [object EXCEPT ![v] = r]
      /\ UNCHANGED <<raw, job, fault>>
      /\ Resize(object[v].alloc, in, out)
  BY ObjectFields DEF EnlargeVector, NewArray, Are
<1>2. object[v] \in [kind : PlainKinds, alloc : Allocs, parts : Seq(Buffers)]
  BY <1>1, HeapAssumption DEF ObjectRecords
<1>3. /\ object[v].parts \in Seq(Buffers) /\ Len(object[v].parts) = 1
      /\ v \notin ToSet(object[v].parts)
  BY <1>1, <1>2 DEF HeapInv, PartsCounted, ListsDistinct, Parts
<1>4. /\ in \in Buffers /\ ToSet(object[v].parts) = {in} /\ in # v
  BY <1>3 DEF ToSet
<1>5. Owned(v) = {v, in}
  BY <1>4 DEF Owned
<1>6. /\ r \in ObjectRecords /\ r.kind = "vector" /\ r.parts = <<out>>
      /\ r.alloc = object[v].alloc
  BY <1>1, <1>2, ListOfOne DEF ObjectRecords
<1> HIDE DEF r, in
<1>7. /\ in \in Allocated /\ cookie[in] = object[v].alloc
      /\ out = in \/ out \notin Allocated
      /\ Allocated' = (Allocated \ {in}) \cup {out}
      /\ cookie'[out] = object[v].alloc
      /\ \A c \in Buffers \ {in, out} : cookie'[c] = cookie[c]
  BY <1>1, ResizeEffect
<1>8. /\ raw \subseteq Allocated
      /\ Held \subseteq Buffers /\ Held \subseteq Allocated
      /\ \A o \in Live : /\ o \in Owned(o)
                         /\ Owned(o) \subseteq Buffers
                         /\ Owned(o) \subseteq Allocated
  BY OwnedAllocated
<1>9. out # v
  BY <1>1, <1>4, <1>7, <1>8
<1>10. GoodObject(v, r)
  BY <1>6, <1>9, ListOfOne DEF GoodObject, Parts
<1>11. /\ Live' = Live
       /\ Owned(v)' = {v} \cup ToSet(r.parts)
       /\ \A o \in Live \ {v} : Owned(o)' = Owned(o) /\ object'[o] = object[o]
       /\ object' \in [Buffers -> ObjectRecords \cup {Nothing}]
       /\ object'[v] = r
       /\ \A o \in Live' : GoodObject(o, object'[o])
  BY <1>1, <1>6, <1>10, ObjectChanged
<1>12. Owned(v)' = {v, out}
  BY <1>6, <1>11, ListOfOne
<1>13. Held' = Held
  BY <1>1, JobSame
<1>14. /\ in \notin raw \cup Held
       /\ \A o \in Live \ {v} : in \notin Owned(o)
  BY <1>1, <1>5 DEF HeapInv, NoneShared
<1>15. HeapTypes'
  BY <1>1, <1>11 DEF HeapInv, HeapTypes
<1>16. PartsCounted' /\ ListsDistinct' /\ TypeGiven'
  BY <1>1, <1>11, JobGood, ObjectsGood
<1>17. AllOwned'
  <2> SUFFICES ASSUME NEW b \in Buffers
               PROVE  b \in Allocated' <=> \/ b \in raw' \cup Held'
                                           \/ \E o \in Live' : b \in Owned(o)'
    BY DEF AllOwned
  <2>1. b \in Allocated <=> \/ b \in raw \cup Held
                            \/ \E o \in Live : b \in Owned(o)
    BY DEF HeapInv, AllOwned
  <2>2. (\E o \in Live' : b \in Owned(o)')
          <=> \/ b \in {v, out}
              \/ \E o \in Live \ {v} : b \in Owned(o)
    BY <1>1, <1>11, <1>12
  <2>3. (\E o \in Live : b \in Owned(o))
          <=> \/ b \in {v, in}
              \/ \E o \in Live \ {v} : b \in Owned(o)
    BY <1>1, <1>5
  <2>4. QED
    BY <1>1, <1>4, <1>7, <1>13, <1>14, <2>1, <2>2, <2>3
<1>18. NoneShared'
  BY <1>1, <1>5, <1>7, <1>8, <1>11, <1>12, <1>13 DEF HeapInv, NoneShared
<1>19. RightAllocator'
  <2>1. \A o \in Live \ {v} : \A b \in Owned(o) :
           \/ b \in Buffers \ {in, out}
           \/ out = in /\ b \in Buffers \ {in}
    BY <1>7, <1>8, <1>14
  <2>2. \A o \in Live \ {v} : \A b \in Owned(o)' : cookie'[b] = object'[o].alloc
    BY <1>7, <1>11, <2>1 DEF HeapInv, RightAllocator
  <2>3. cookie'[v] = r.alloc
    BY <1>1, <1>4, <1>6, <1>7, <1>8, <1>9 DEF HeapInv, RightAllocator
  <2>4. \A b \in Owned(v)' : cookie'[b] = object'[v].alloc
    BY <1>6, <1>7, <1>11, <1>12, <2>3
  <2>5. \A b \in Held' : cookie'[b] = job'.alloc
    BY <1>1, <1>7, <1>8, <1>13, <1>14 DEF HeapInv, RightAllocator
  <2>6. QED
    BY <1>11, <2>2, <2>4, <2>5 DEF RightAllocator
<1>20. QED
  BY <1>15, <1>16, <1>17, <1>18, <1>19 DEF HeapInv

-----------------------------------------------------------------------------
\* The call that begins has no buffers yet.
LEMMA CallBegins ==
  ASSUME AllocTypeOK, HeapInv, job = Idle, NEW j \in NewJobs,
         j.got = <<>>, j.config = NoBuffer,
         j.kind = "custom" => j.type \in Buffers,
         job' = j, UNCHANGED <<cookie, raw, object, fault>>
  PROVE  HeapInv'
<1>1. /\ Live' = Live /\ Allocated' = Allocated
      /\ \A o : Owned(o)' = Owned(o)
      /\ \A kind : Are(kind)' = Are(kind)
  BY ObjectsSame DEF Allocated
<1>2. Held = {} /\ Held' = {}
  BY ListEmpty DEF Held, Idle, NewJobs
<1>3. HeapTypes'
  BY DEF HeapInv, HeapTypes
<1>4. PartsCounted'
  <2>1. Parts(j.kind) \in Nat
    BY DEF Parts
  <2>2. QED
    BY <1>1, <2>1, ListEmpty DEF HeapInv, PartsCounted
<1>5. ListsDistinct'
  BY <1>1, ListEmpty DEF HeapInv, ListsDistinct
<1>6. TypeGiven'
  BY <1>1 DEF HeapInv, TypeGiven
<1>7. AllOwned' /\ NoneShared'
  BY <1>1, <1>2 DEF HeapInv, AllOwned, NoneShared
<1>8. RightAllocator'
  BY <1>1, <1>2 DEF HeapInv, RightAllocator
<1>9. QED
  BY <1>3, <1>4, <1>5, <1>6, <1>7, <1>8 DEF HeapInv

\* Outside a call there is no job.
LEMMA IdleJob ==
  ASSUME HeapInv, Running("idle")
  PROVE  job = Idle
BY DEF Running, HeapInv, HeapTypes, NewJobs, UndoJobs

LEMMA CallNewStep ==
  ASSUME AllocTypeOK, HeapInv, NEW c, NEW kind, CallNew(c, kind)
  PROVE  HeapInv'
<1> DEFINE j == NewJob(kind, object[c].entry, NoBuffer)
<1>1. /\ c \in Live /\ object[c].kind = "config"
      /\ object[c].entry # NoAlloc /\ kind \in Kinds /\ kind # "custom"
      /\ job' = j /\ UNCHANGED <<cookie, raw, object, fault>>
  BY DEF CallNew, Are, avars
<1>2. object[c].entry \in Allocs
  BY <1>1, ObjectFields, HeapAssumption DEF ObjectRecords, PlainKinds
<1>3. /\ j \in NewJobs /\ j.got = <<>> /\ j.config = NoBuffer
      /\ j.kind # "custom"
  BY <1>1, <1>2, ListEmpty DEF NewJob, NewJobs
<1> HIDE DEF j
<1>4. job = Idle
  BY IdleJob DEF CallNew
<1>5. QED
  BY <1>1, <1>3, <1>4, CallBegins

LEMMA CallObjectNewStep ==
  ASSUME AllocTypeOK, HeapInv, NEW c, NEW t, CallObjectNew(c, t)
  PROVE  HeapInv'
<1> DEFINE j == [NewJob("custom", object[c].entry, NoBuffer) EXCEPT !.type = t]
<1>1. /\ c \in Live /\ object[c].kind = "config"
      /\ t \in Are("type")
      /\ object[c].entry # NoAlloc /\ "custom" \in Kinds
      /\ job' = j /\ UNCHANGED <<cookie, raw, object, fault>>
  BY DEF CallObjectNew, Are, avars
<1>2. object[c].entry \in Allocs /\ t \in Buffers
  BY <1>1, ObjectFields, HeapAssumption
     DEF ObjectRecords, PlainKinds, Are, Live
<1>3. /\ j \in NewJobs /\ j.got = <<>> /\ j.config = NoBuffer
      /\ j.type = t
  BY <1>1, <1>2, ListEmpty DEF NewJob, NewJobs
<1> HIDE DEF j
<1>4. job = Idle
  BY IdleJob DEF CallObjectNew
<1>5. QED
  BY <1>1, <1>2, <1>3, <1>4, CallBegins

\* One more buffer for the object under construction.
LEMMA GetPartStep ==
  ASSUME AllocTypeOK, HeapInv, NEW b \in Buffers, GetPart(b)
  PROVE  HeapInv'
<1>1. /\ job.step = "new" /\ Len(job.got) < Parts(job.kind)
      /\ Give(job.alloc, b)
      /\ job' = [job EXCEPT !.got = Append(job.got, b)]
      /\ UNCHANGED <<raw, object, fault>>
  BY DEF GetPart, Running
<1>2. /\ job \in NewJobs /\ job.got \in Seq(Buffers)
      /\ Held = ToSet(job.got) \cup ({job.config} \ {NoBuffer})
  BY <1>1, JobFields
<1>3. /\ b \notin Allocated /\ Allocated' = Allocated \cup {b}
      /\ cookie'[b] = job.alloc
      /\ \A c \in Buffers \ {b} : cookie'[c] = cookie[c]
  BY <1>1, GiveEffect
<1>4. /\ raw \subseteq Allocated
      /\ Held \subseteq Buffers /\ Held \subseteq Allocated
      /\ \A o \in Live : Owned(o) \subseteq Buffers /\ Owned(o) \subseteq Allocated
  BY OwnedAllocated
<1>5. /\ job' \in NewJobs
      /\ job'.step = "new" /\ job'.kind = job.kind /\ job'.alloc = job.alloc
      /\ job'.config = job.config /\ job'.type = job.type
      /\ job'.got = Append(job.got, b)
  BY <1>1, <1>2, ListAppended DEF NewJobs
<1>6. Held' = Held \cup {b}
  BY <1>2, <1>5, ListAppended, HeapAssumption DEF Held
<1>7. /\ Live' = Live /\ \A o : Owned(o)' = Owned(o)
      /\ \A kind : Are(kind)' = Are(kind)
  BY <1>1, ObjectsSame
<1>8. HeapTypes'
  BY <1>1, <1>5 DEF HeapInv, HeapTypes
<1>9. PartsCounted'
  <2>1. Len(job'.got) <= Parts(job'.kind)
    BY <1>1, <1>2, <1>5, ListAppended DEF Parts
  <2>2. QED
    BY <1>1, <1>7, <2>1 DEF HeapInv, PartsCounted
<1>10. ListsDistinct'
  <2>1. NoRepeat(job.got) /\ job.config \notin ToSet(job.got)
    BY <1>1, JobGood
  <2>2. b \notin ToSet(job.got) /\ b # job.config
    BY <1>2, <1>3, <1>4, HeapAssumption
  <2>3. NoRepeat(job'.got) /\ job'.config \notin ToSet(job'.got)
    BY <1>2, <1>5, <2>1, <2>2, ListAppended
  <2>4. QED
    BY <1>1, <1>7, <2>3 DEF HeapInv, ListsDistinct
<1>11. TypeGiven'
  BY <1>1, <1>5, <1>7 DEF HeapInv, TypeGiven
<1>12. AllOwned'
  BY <1>1, <1>3, <1>6, <1>7 DEF HeapInv, AllOwned
<1>13. NoneShared'
  BY <1>1, <1>3, <1>4, <1>6, <1>7 DEF HeapInv, NoneShared
<1>14. RightAllocator'
  BY <1>1, <1>3, <1>4, <1>5, <1>6, <1>7 DEF HeapInv, RightAllocator
<1>15. QED
  BY <1>8, <1>9, <1>10, <1>11, <1>12, <1>13, <1>14 DEF HeapInv

\* The record a finished constructor puts down.
LEMMA MadeRecord ==
  ASSUME HeapInv, job.step = "new", Len(job.got) = Parts(job.kind)
  PROVE  /\ Made \in ObjectRecords
         /\ Made.parts = job.got /\ Made.alloc = job.alloc
         /\ Made.kind = job.kind
         /\ Made.kind = "custom" => Made.type = job.type
<1>1. job \in NewJobs /\ job.got \in Seq(Buffers)
  BY JobFields
<1>2. CASE job.kind = "type"
  <2>1. job.got = <<>>
    BY <1>1, <1>2 DEF Parts
  <2>2. QED
    BY <1>1, <1>2, <2>1 DEF Made, Type, ObjectRecords, NewJobs
<1>3. CASE job.kind = "custom"
  <2>1. job.got = <<>>
    BY <1>1, <1>3 DEF Parts
  <2>2. job.type \in Buffers
    BY <1>3, JobGood
  <2>3. QED
    BY <1>1, <1>3, <2>1, <2>2
       DEF Made, Custom, ObjectRecords, NewJobs
<1>4. CASE job.kind \notin {"type", "custom"}
  BY <1>1, <1>4 DEF Made, Plain, ObjectRecords, NewJobs, PlainKinds
<1>5. QED
  BY <1>2, <1>3, <1>4

\* The object is made: the buffers of the call are its own from now on.
LEMMA GetObjectStep ==
  ASSUME AllocTypeOK, HeapInv, NEW b \in Buffers, GetObject(b)
  PROVE  HeapInv'
<1>1. /\ job.step = "new" /\ Len(job.got) = Parts(job.kind)
      /\ Give(job.alloc, b)
      /\ object' = [object EXCEPT ![b] = Made]
      /\ job' = Undone(<<>>)
      /\ UNCHANGED <<raw, fault>>
  BY DEF GetObject, Running, Cleared
<1>2. /\ job \in NewJobs /\ job.got \in Seq(Buffers)
      /\ job.alloc \in Allocs /\ job.config \in Buffers \cup {NoBuffer}
      /\ Held = ToSet(job.got) \cup ({job.config} \ {NoBuffer})
      /\ NoRepeat(job.got) /\ job.config \notin ToSet(job.got)
  BY <1>1, JobFields, JobGood
<1>3. /\ b \notin Allocated /\ Allocated' = Allocated \cup {b}
      /\ cookie'[b] = job.alloc
      /\ \A c \in Buffers \ {b} : cookie'[c] = cookie[c]
  BY <1>1, GiveEffect
<1>4. /\ raw \subseteq Allocated
      /\ Held \subseteq Buffers /\ Held \subseteq Allocated
      /\ \A o \in Live : Owned(o) \subseteq Buffers /\ Owned(o) \subseteq Allocated
      /\ object[b] = Nothing
  BY <1>3, OwnedAllocated
<1> DEFINE r == Made
<1>5. /\ r.parts = job.got /\ r.alloc = job.alloc
      /\ GoodObject(b, r)
  BY <1>1, <1>2, <1>3, <1>4, MadeRecord DEF GoodObject
<1>6. object' = [object EXCEPT ![b] = r]
  BY <1>1
<1> HIDE DEF r
<1>7. /\ Live' = Live \cup {b} /\ b \notin Live
      /\ Owned(b)' = {b} \cup ToSet(job.got)
      /\ \A o \in Live : Owned(o)' = Owned(o) /\ object'[o] = object[o]
      /\ object' \in [Buffers -> ObjectRecords \cup {Nothing}]
      /\ object'[b] = r
      /\ \A o \in Live' : GoodObject(o, object'[o])
  BY <1>4, <1>5, <1>6, ObjectMade
<1>8. /\ job' \in UndoJobs /\ job'.step = "undo" /\ job'.got = <<>>
      /\ job'.config = job.config /\ job'.alloc = job.alloc
  BY <1>1, <1>2, ListEmpty DEF Undone, UndoJobs
<1>9. Held' = {job.config} \ {NoBuffer}
  BY <1>8, ListEmpty DEF Held
<1>10. HeapTypes'
  BY <1>1, <1>7, <1>8 DEF HeapInv, HeapTypes
<1>11. PartsCounted' /\ ListsDistinct' /\ TypeGiven'
  BY <1>7, <1>8, ListEmpty, ObjectsGood
<1>12. AllOwned'
  BY <1>1, <1>2, <1>3, <1>7, <1>9 DEF HeapInv, AllOwned
<1>13. NoneShared'
  <2>1. raw' \cap Held' = {}
    BY <1>1, <1>2, <1>9 DEF HeapInv, NoneShared
  <2>2. Owned(b)' \cap (raw' \cup Held') = {}
    BY <1>1, <1>2, <1>3, <1>4, <1>7, <1>9 DEF HeapInv, NoneShared
  <2>3. \A o \in Live : Owned(o)' \cap (raw' \cup Held') = {}
    BY <1>1, <1>2, <1>7, <1>9 DEF HeapInv, NoneShared
  <2>4. \A o \in Live : Owned(o)' \cap Owned(b)' = {}
    BY <1>2, <1>3, <1>4, <1>7 DEF HeapInv, NoneShared
  <2>5. \A o, q \in Live : o # q => Owned(o)' \cap Owned(q)' = {}
    BY <1>7 DEF HeapInv, NoneShared
  <2>6. QED
    BY <1>7, <2>1, <2>2, <2>3, <2>4, <2>5 DEF NoneShared
<1>14. RightAllocator'
  <2>1. \A c \in Held : cookie'[c] = job.alloc
    BY <1>3, <1>4 DEF HeapInv, RightAllocator
  <2>2. \A c \in Owned(b)' : cookie'[c] = object'[b].alloc
    BY <1>2, <1>3, <1>5, <1>7, <2>1
  <2>3. \A o \in Live : \A c \in Owned(o)' : cookie'[c] = object'[o].alloc
    BY <1>3, <1>4, <1>7 DEF HeapInv, RightAllocator
  <2>4. QED
    BY <1>2, <1>7, <1>8, <1>9, <2>1, <2>2, <2>3 DEF RightAllocator
<1>15. QED
  BY <1>10, <1>11, <1>12, <1>13, <1>14 DEF HeapInv

\* A call that goes on with the buffers it has, or returns with none.
LEMMA JobGoesOn ==
  ASSUME HeapInv, NEW j \in UndoJobs \cup {Idle}, job' = j, Held' = Held,
         j.step # "idle" => NoRepeat(j.got) /\ j.config \notin ToSet(j.got)
                              /\ j.alloc = job.alloc,
         UNCHANGED <<cookie, raw, object, fault>>
  PROVE  HeapInv'
<1>1. /\ Live' = Live /\ Allocated' = Allocated
      /\ \A o : Owned(o)' = Owned(o)
      /\ \A kind : Are(kind)' = Are(kind)
  BY ObjectsSame DEF Allocated
<1>2. j.step \in {"undo", "idle"}
  BY DEF UndoJobs, Idle
<1>3. HeapTypes'
  BY DEF HeapInv, HeapTypes
<1>4. PartsCounted' /\ ListsDistinct' /\ TypeGiven'
  BY <1>1, <1>2 DEF HeapInv, PartsCounted, ListsDistinct, TypeGiven
<1>5. AllOwned' /\ NoneShared'
  BY <1>1 DEF HeapInv, AllOwned, NoneShared
<1>6. RightAllocator'
  <2>1. \A b \in Held' : cookie'[b] = job'.alloc
    <3>1. CASE j.step = "idle"
      BY <3>1 DEF Held
    <3>2. CASE j.step # "idle"
      BY <3>2 DEF HeapInv, RightAllocator
    <3>3. QED
      BY <3>1, <3>2
  <2>2. QED
    BY <1>1, <2>1 DEF HeapInv, RightAllocator
<1>7. QED
  BY <1>3, <1>4, <1>5, <1>6 DEF HeapInv

LEMMA FailStep ==
  ASSUME AllocTypeOK, HeapInv, Fail
  PROVE  HeapInv'
<1> DEFINE j == Undone(job.got)
<1>1. /\ job.step = "new" /\ job' = j
      /\ UNCHANGED <<cookie, raw, object, fault>>
  BY DEF Fail, Running, AllOf, avars
<1>2. /\ j \in UndoJobs /\ j.step = "undo" /\ j.got = job.got
      /\ j.config = job.config /\ j.alloc = job.alloc
  BY <1>1, JobFields DEF Undone, UndoJobs
<1>3. Held' = Held
  BY <1>1, <1>2, JobFields DEF Held
<1> HIDE DEF j
<1>4. QED
  BY <1>1, <1>2, <1>3, JobGood, JobGoesOn

LEMMA ReturnStep ==
  ASSUME AllocTypeOK, HeapInv, Return
  PROVE  HeapInv'
<1>1. /\ job.step = "undo" /\ job.got = <<>> /\ job.config = NoBuffer
      /\ job' = Idle /\ UNCHANGED <<cookie, raw, object, fault>>
  BY DEF Return, Running, avars
<1>2. Held' = Held
  BY <1>1, ListEmpty DEF Held, Idle
<1>3. Idle.step = "idle"
  BY DEF Idle
<1>4. QED
  BY <1>1, <1>2, <1>3, JobGoesOn

\* The call frees one of its buffers.
LEMMA HeldFreed ==
  ASSUME AllocTypeOK, HeapInv, NEW b \in Held, Free(job.alloc, b),
         NEW j \in UndoJobs, job' = j, Held' = Held \ {b},
         NoRepeat(j.got), j.config \notin ToSet(j.got), j.alloc = job.alloc,
         UNCHANGED <<raw, object, fault>>
  PROVE  HeapInv'
<1>1. /\ Live' = Live
      /\ \A o : Owned(o)' = Owned(o)
      /\ \A kind : Are(kind)' = Are(kind)
  BY ObjectsSame
<1>2. /\ raw \subseteq Allocated
      /\ Held \subseteq Buffers
      /\ \A o \in Live : Owned(o) \subseteq Buffers
  BY OwnedAllocated
<1>3. b \in Buffers /\ cookie[b] = job.alloc
  BY <1>2 DEF HeapInv, RightAllocator
<1>4. /\ Allocated' = Allocated \ {b}
      /\ \A c \in Buffers \ {b} : cookie'[c] = cookie[c]
  BY <1>3, FreeEffect
<1>5. b \notin raw /\ \A o \in Live : b \notin Owned(o)
  BY DEF HeapInv, NoneShared
<1>6. j.step = "undo"
  BY DEF UndoJobs
<1>7. HeapTypes'
  BY DEF HeapInv, HeapTypes
<1>8. PartsCounted' /\ ListsDistinct' /\ TypeGiven'
  BY <1>1, <1>6 DEF HeapInv, PartsCounted, ListsDistinct, TypeGiven
<1>9. AllOwned'
  BY <1>1, <1>4, <1>5 DEF HeapInv, AllOwned
<1>10. NoneShared'
  BY <1>1 DEF HeapInv, NoneShared
<1>11. RightAllocator'
  BY <1>1, <1>2, <1>4, <1>5 DEF HeapInv, RightAllocator
<1>12. QED
  BY <1>7, <1>8, <1>9, <1>10, <1>11 DEF HeapInv

LEMMA UndoPartStep ==
  ASSUME AllocTypeOK, HeapInv, UndoPart
  PROVE  HeapInv'
<1> DEFINE j == [job EXCEPT !.got = Tail(@)]
           b == Head(job.got)
<1>1. /\ job.step = "undo" /\ job.got # <<>> /\ Free(job.alloc, b)
      /\ job' = j /\ UNCHANGED <<raw, object, fault>>
  BY DEF UndoPart, Running
<1>2. /\ job \in UndoJobs /\ job.got \in Seq(Buffers)
      /\ Held = ToSet(job.got) \cup ({job.config} \ {NoBuffer})
      /\ NoRepeat(job.got) /\ job.config \notin ToSet(job.got)
  BY <1>1, JobFields, JobGood
<1>3. /\ Tail(job.got) \in Seq(Buffers)
      /\ ToSet(job.got) = ToSet(Tail(job.got)) \cup {b}
      /\ NoRepeat(Tail(job.got)) /\ b \notin ToSet(Tail(job.got))
  BY <1>1, <1>2, ListShortened
<1>4. /\ j \in UndoJobs /\ j.step = "undo" /\ j.got = Tail(job.got)
      /\ j.config = job.config /\ j.alloc = job.alloc
  BY <1>2, <1>3 DEF UndoJobs
<1> HIDE DEF j, b
<1>5. Held' = Held \ {b}
  BY <1>1, <1>2, <1>3, <1>4 DEF Held
<1>6. b \in Held
  BY <1>2, <1>3
<1>7. QED
  BY <1>1, <1>2, <1>3, <1>4, <1>5, <1>6, HeldFreed

LEMMA UndoConfigStep ==
  ASSUME AllocTypeOK, HeapInv, UndoConfig
  PROVE  HeapInv'
<1> DEFINE j == [job EXCEPT !.config = NoBuffer]
<1>1. /\ job.step = "undo" /\ job.got = <<>> /\ job.config # NoBuffer
      /\ Free(job.alloc, job.config)
      /\ job' = j /\ UNCHANGED <<raw, object, fault>>
  BY DEF UndoConfig, Running
<1>2. /\ job \in UndoJobs
      /\ Held = ToSet(job.got) \cup ({job.config} \ {NoBuffer})
  BY <1>1, JobFields
<1>3. /\ j \in UndoJobs /\ j.step = "undo" /\ j.got = <<>>
      /\ j.config = NoBuffer /\ j.alloc = job.alloc
  BY <1>1, <1>2 DEF UndoJobs
<1> HIDE DEF j
<1>4. Held' = Held \ {job.config} /\ job.config \in Held
  BY <1>1, <1>2, <1>3, ListEmpty DEF Held
<1>5. QED
  BY <1>1, <1>3, <1>4, ListEmpty, HeldFreed

-----------------------------------------------------------------------------
\* A copy begins: the temporary configuration is the only buffer it holds.
LEMMA CopyStep ==
  ASSUME AllocTypeOK, HeapInv, NEW o, NEW b \in Buffers, Copy(o, b)
  PROVE  HeapInv'
<1> DEFINE a == object[o].alloc
           j == NewJob(object[o].kind, a, b)
<1>1. /\ o \in Live /\ object[o].kind \in {"string", "vector"}
      /\ Give(a, b) /\ job' = j /\ UNCHANGED <<raw, object, fault>>
  BY DEF Copy, Are
<1>2. job = Idle /\ Held = {}
  BY IdleJob DEF Copy, Held, Idle
<1>3. /\ a \in Allocs /\ b \notin Allocated
      /\ Allocated' = Allocated \cup {b} /\ cookie'[b] = a
      /\ \A c \in Buffers \ {b} : cookie'[c] = cookie[c]
  BY <1>1, GiveEffect
<1>4. /\ j \in NewJobs /\ j.step = "new" /\ j.got = <<>> /\ j.config = b
      /\ j.alloc = a /\ j.kind \in {"string", "vector"}
  BY <1>1, <1>3, ObjectFields, ListEmpty DEF NewJob, NewJobs
<1> HIDE DEF a, j
<1>5. /\ raw \subseteq Allocated
      /\ \A p \in Live : Owned(p) \subseteq Buffers /\ Owned(p) \subseteq Allocated
  BY OwnedAllocated
<1>6. Held' = {b}
  BY <1>1, <1>4, ListEmpty, HeapAssumption DEF Held
<1>7. /\ Live' = Live /\ \A p : Owned(p)' = Owned(p)
      /\ \A kind : Are(kind)' = Are(kind)
  BY <1>1, ObjectsSame
<1>8. HeapTypes'
  BY <1>1, <1>4 DEF HeapInv, HeapTypes
<1>9. PartsCounted'
  BY <1>1, <1>4, <1>7, ListEmpty DEF HeapInv, PartsCounted, Parts
<1>10. ListsDistinct'
  BY <1>1, <1>4, <1>7, ListEmpty DEF HeapInv, ListsDistinct
<1>11. TypeGiven'
  BY <1>1, <1>4, <1>7 DEF HeapInv, TypeGiven
<1>12. AllOwned'
  BY <1>1, <1>2, <1>3, <1>6, <1>7 DEF HeapInv, AllOwned
<1>13. NoneShared'
  BY <1>1, <1>3, <1>5, <1>6, <1>7 DEF HeapInv, NoneShared
<1>14. RightAllocator'
  BY <1>1, <1>3, <1>4, <1>5, <1>6, <1>7 DEF HeapInv, RightAllocator
<1>15. QED
  BY <1>8, <1>9, <1>10, <1>11, <1>12, <1>13, <1>14 DEF HeapInv

\* A call that reaches undefined behaviour leaves all buffers with their owners.
LEMMA FaultStep ==
  ASSUME HeapInv, UNCHANGED <<cookie, raw, object, job>>,
         fault' \in {"none", "null_alloc", "null_config", "freed_type"}
  PROVE  HeapInv'
<1>1. UNCHANGED <<cookie, raw, object, job>>
  OBVIOUS
<1>2. /\ Live' = Live /\ Allocated' = Allocated /\ Held' = Held
      /\ \A p : Owned(p)' = Owned(p)
  BY <1>1, ObjectsSame, JobSame DEF Allocated
<1>3. HeapTypes'
  BY <1>1 DEF HeapInv, HeapTypes
<1>4. PartsCounted' /\ ListsDistinct' /\ TypeGiven'
  BY <1>1, ListsSame
<1>5. AllOwned' /\ NoneShared'
  BY <1>1, <1>2 DEF HeapInv, AllOwned, NoneShared
<1>6. RightAllocator'
  BY <1>1, <1>2 DEF HeapInv, RightAllocator
<1>7. QED
  BY <1>3, <1>4, <1>5, <1>6 DEF HeapInv

\* A copy that gets no memory.
LEMMA CopyFailsStep ==
  ASSUME HeapInv, NEW o, CopyFails(o)
  PROVE  HeapInv'
<1>1. /\ UNCHANGED <<cookie, raw, object, job>>
      /\ fault' \in {"none", "null_config"}
  BY DEF CopyFails, avars
<1>2. QED
  BY <1>1, FaultStep

\* An object is deleted: its buffers go to the call that frees them.
LEMMA DeleteStep ==
  ASSUME HeapInv, NEW o, Delete(o)
  PROVE  HeapInv'
<1> DEFINE j == [step |-> "undo", alloc |-> object[o].alloc,
                 got |-> Append(object[o].parts, o), config |-> NoBuffer]
<1>1. /\ o \in Live /\ o \in Buffers
      /\ job' = j /\ object' = [object EXCEPT ![o] = Nothing]
      /\ UNCHANGED <<cookie, raw, fault>>
  BY DEF Delete, avars, Live
<1>2. Held = {}
  BY IdleJob DEF Delete, Held, Idle
<1>3. /\ object[o].parts \in Seq(Buffers) /\ object[o].alloc \in Allocs
      /\ NoRepeat(object[o].parts) /\ o \notin ToSet(object[o].parts)
  BY <1>1, ObjectFields DEF HeapInv, ListsDistinct
<1>4. /\ j \in UndoJobs /\ j.step = "undo" /\ j.config = NoBuffer
      /\ j.alloc = object[o].alloc
      /\ ToSet(j.got) = Owned(o) /\ NoRepeat(j.got)
  BY <1>1, <1>3, ListAppended DEF UndoJobs, Owned
<1> HIDE DEF j
<1>5. Owned(o) \subseteq Buffers
  BY <1>1, OwnedAllocated
<1>6. Held' = Owned(o)
  BY <1>1, <1>4, <1>5, HeapAssumption DEF Held
<1>7. /\ object \in [Buffers -> ObjectRecords \cup {Nothing}]
      /\ object'[o] = Nothing
      /\ \A c \in Buffers \ {o} : object'[c] = object[c]
      /\ object' \in [Buffers -> ObjectRecords \cup {Nothing}]
  BY <1>1 DEF HeapInv, HeapTypes
<1>8. /\ Live' = Live \ {o}
      /\ \A p \in Live \ {o} : Owned(p)' = Owned(p) /\ object'[p] = object[p]
  BY <1>7 DEF Live, Owned
<1>9. HeapTypes'
  BY <1>1, <1>4, <1>7 DEF HeapInv, HeapTypes
<1>10. PartsCounted'
  BY <1>1, <1>4, <1>8 DEF HeapInv, PartsCounted
<1>11. ListsDistinct'
  <2>1. NoBuffer \notin Owned(o)
    BY <1>5, HeapAssumption
  <2>2. QED
    BY <1>1, <1>4, <1>8, <2>1 DEF HeapInv, ListsDistinct
<1>12. TypeGiven'
  BY <1>1, <1>4 DEF TypeGiven
<1>13. AllOwned'
  BY <1>1, <1>2, <1>6, <1>8 DEF HeapInv, AllOwned, Allocated
<1>14. NoneShared'
  BY <1>1, <1>2, <1>6, <1>8 DEF HeapInv, NoneShared
<1>15. RightAllocator'
  BY <1>1, <1>4, <1>6, <1>8 DEF HeapInv, RightAllocator
<1>16. QED
  BY <1>9, <1>10, <1>11, <1>12, <1>13, <1>14, <1>15 DEF HeapInv

-----------------------------------------------------------------------------
LEMMA HeapStart == Init => HeapInv
<1> SUFFICES ASSUME Init PROVE HeapInv
  OBVIOUS
<1>1. /\ raw = {} /\ fault = "none" /\ job = Idle
      /\ object = [b \in Buffers |-> Nothing]
      /\ cookie = [b \in Buffers |-> NoAlloc]
  BY DEF Init, AllocInit
<1>2. Live = {} /\ Held = {} /\ Are("custom") = {}
  BY <1>1 DEF Live, Held, Idle, Are
<1>3. HeapTypes
  BY <1>1 DEF HeapTypes
<1>4. Allocated = {}
  BY <1>1 DEF Allocated
<1>5. job.step = "idle"
  BY <1>1 DEF Idle
<1>6. QED
  BY <1>1, <1>2, <1>3, <1>4, <1>5
     DEF HeapInv, PartsCounted, ListsDistinct, AllOwned, NoneShared,
         RightAllocator, TypeGiven

\* Every step of the heap keeps the buffers with their owners.
LEMMA OwnershipStep == AllocTypeOK /\ HeapInv /\ [Next]_hvars => HeapInv'
<1> SUFFICES ASSUME AllocTypeOK, HeapInv, [Next]_hvars PROVE HeapInv'
  OBVIOUS
<1>1. CASE UNCHANGED hvars \/ Crashed
  BY <1>1, NothingMoves DEF hvars, avars, Crashed
<1>2. CASE Program
  <2>1. PICK a \in Allocs :
          \/ ProgramNewAlloc(a) \/ ProgramDeleteAlloc(a)
          \/ \E b \in Buffers :
               \/ ProgramFree(a, b) \/ NewConfig(a, b)
               \/ SetAlloc(b, a) \/ SetAlloc(b, NoAlloc)
               \/ \E in \in raw \cup {NoBuffer} : ProgramRealloc(a, in, b)
    BY <1>2 DEF Program
  <2>2. CASE ProgramNewAlloc(a) \/ ProgramDeleteAlloc(a)
    <3>1. UNCHANGED <<cookie, raw, object, job, fault>>
      BY <2>2 DEF ProgramNewAlloc, ProgramDeleteAlloc, NewAlloc, DeleteAlloc,
         avars
    <3>2. QED
      BY <3>1, NothingMoves
  <2>3. ASSUME NEW b \in Buffers, ProgramFree(a, b) PROVE HeapInv'
    BY <2>3, RawFreed
  <2>4. ASSUME NEW b \in Buffers, NewConfig(a, b) PROVE HeapInv'
    BY <2>4, NewConfigStep
  <2>5. ASSUME NEW b \in Buffers, SetAlloc(b, a) \/ SetAlloc(b, NoAlloc)
        PROVE  HeapInv'
    BY <2>5, SetAllocStep
  <2>6. ASSUME NEW b \in Buffers, NEW in \in raw \cup {NoBuffer},
               ProgramRealloc(a, in, b)
        PROVE  HeapInv'
    BY <2>6, ProgramRawSteps
  <2>7. QED
    BY <2>1, <2>2, <2>3, <2>4, <2>5, <2>6
<1>3. CASE Call
  <2>1. PICK o \in Live :
          \/ \E kind \in Kinds : CallNew(o, kind) \/ CallNewNoAlloc(o, kind)
          \/ \E t \in Live : CallObjectNew(o, t)
          \/ \E b \in Buffers : Copy(o, b) \/ EnlargeVector(o, b)
          \/ \E m \in Required : SetMethod(o, m)
          \/ CopyFails(o) \/ Delete(o) \/ DeleteOrphan(o)
    BY <1>3 DEF Call
  <2>2. ASSUME NEW kind \in Kinds, CallNew(o, kind) \/ CallNewNoAlloc(o, kind)
        PROVE  HeapInv'
    <3>1. CASE CallNewNoAlloc(o, kind)
      BY <3>1, FaultStep DEF CallNewNoAlloc, avars
    <3>2. QED
      BY <2>2, <3>1, CallNewStep
  <2>3. ASSUME NEW t \in Live, CallObjectNew(o, t) PROVE HeapInv'
    BY <2>3, CallObjectNewStep
  <2>4. ASSUME NEW b \in Buffers, Copy(o, b) PROVE HeapInv'
    BY <2>4, CopyStep
  <2>5. ASSUME NEW b \in Buffers, EnlargeVector(o, b) PROVE HeapInv'
    BY <2>5, EnlargeVectorStep
  <2>6. ASSUME NEW m \in Required, SetMethod(o, m) PROVE HeapInv'
    BY <2>6, SetMethodStep
  <2>7. CASE CopyFails(o) \/ Delete(o) \/ DeleteOrphan(o)
    <3>1. CASE DeleteOrphan(o)
      BY <3>1, FaultStep DEF DeleteOrphan, avars
    <3>2. QED
      BY <2>7, <3>1, CopyFailsStep, DeleteStep
  <2>8. QED
    BY <2>1, <2>2, <2>3, <2>4, <2>5, <2>6, <2>7
<1>4. CASE Step
  <2>1. ASSUME NEW b \in Buffers, GetPart(b) PROVE HeapInv'
    BY <2>1, GetPartStep
  <2>2. ASSUME NEW b \in Buffers, GetObject(b) PROVE HeapInv'
    BY <2>2, GetObjectStep
  <2>3. CASE Fail \/ UndoPart \/ UndoConfig \/ Return
    BY <2>3, FailStep, UndoPartStep, UndoConfigStep, ReturnStep
  <2>4. QED
    BY <1>4, <2>1, <2>2, <2>3 DEF Step
<1>5. QED
  BY <1>1, <1>2, <1>3, <1>4 DEF Next

\* The inductive invariant of the heap, for any program, any number of
\* buffers and allocators and any set of kinds.
THEOREM HeapCorrect == Spec => []HeapInv
<1>1. Init => HeapInv
  BY HeapStart
<1>2. AllocInv /\ HeapInv /\ [Next]_hvars => HeapInv'
  BY OwnershipStep DEF AllocInv
<1>3. QED
  BY <1>1, <1>2, HeapInvariant, PTL DEF Spec

LEMMA OwnershipFollows == HeapInv => OwnershipExact
<1> SUFFICES ASSUME HeapInv PROVE OwnershipExact
  OBVIOUS
<1>1. /\ raw \subseteq Allocated /\ Held \subseteq Allocated
      /\ \A o \in Live : o \in Owned(o) /\ Owned(o) \subseteq Allocated
  BY OwnedAllocated
<1>2. Allocated = raw \cup Held \cup UNION {Owned(o) : o \in Live}
  <2>1. ASSUME NEW b \in Allocated
        PROVE  b \in raw \cup Held \cup UNION {Owned(o) : o \in Live}
    <3>1. b \in Buffers
      BY DEF Allocated
    <3>2. b \in raw \cup Held \/ \E o \in Live : b \in Owned(o)
      BY <3>1 DEF HeapInv, AllOwned
    <3>3. QED
      BY <3>2
  <2>2. QED
    BY <1>1, <2>1
<1>3. ASSUME NEW o \in Live
      PROVE  Cardinality(Owned(o)) = Len(object[o].parts) + 1
  BY ObjectFields, ListCounted DEF HeapInv, ListsDistinct, Owned
<1>4. QED
  BY <1>2, <1>3 DEF HeapInv, NoneShared, RightAllocator, OwnershipExact

\* Whatever request fails, wherever it fails: every allocated buffer has one
\* owner that will free it through the allocator it came from.  Nothing is
\* leaked by a constructor, a copy or a destructor, and nothing is freed
\* twice.
THEOREM OneOwner == Spec => []OwnershipExact
<1>1. QED
  BY OwnershipFollows, HeapCorrect, PTL

LEMMA HeapTypesFollow == AllocInv /\ HeapInv => TypeOK
<1> SUFFICES ASSUME AllocInv, HeapInv PROVE TypeOK
  OBVIOUS
<1>1. ASSUME NEW b \in Live
      PROVE  /\ object[b].kind \in Kinds \cup {"config"}
             /\ object[b].alloc \in Allocs
             /\ object[b].parts \in Seq(Buffers)
             /\ object[b].kind = "config" =>
                  object[b].entry \in Allocs \cup {NoAlloc}
  BY ObjectFields, HeapAssumption DEF ObjectRecords, PlainKinds
<1>2. job.step \in {"idle", "new", "undo"}
  BY JobFields
<1>3. QED
  BY <1>1, <1>2 DEF TypeOK, HeapInv, HeapTypes, AllocInv

\* The variables of the heap keep their types.
THEOREM HeapTypeOK == Spec => []TypeOK
<1>1. QED
  BY HeapTypesFollow, HeapInvariant, HeapCorrect, PTL
=============================================================================
