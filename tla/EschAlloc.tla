----------------------------- MODULE EschAlloc -----------------------------
(***************************************************************************)
(* The allocators of src/src/esch_alloc.c.                                 *)
(*                                                                         *)
(* esch_alloc_c_default wraps malloc: in front of every buffer it keeps a  *)
(* cookie, the allocator that gave the buffer, and it counts the buffers   *)
(* it gave and took back.  A buffer is resized or freed only through the   *)
(* allocator its cookie names, and an allocator whose counts differ        *)
(* refuses to be deleted: it reports a leak.                               *)
(*                                                                         *)
(* The module is also the interface that EschHeap builds objects on: what  *)
(* is done there to a buffer is a step of this specification.              *)
(***************************************************************************)
EXTENDS Naturals, FiniteSets

CONSTANTS
  Allocs,         (* the allocators a program can create                   *)
  Buffers,        (* the addresses malloc can return, in their order       *)
  NoAlloc,        (* the cookie of memory that is not allocated            *)
  MaxCount        (* bound: buffers each allocator gives in its life       *)

ASSUME AllocAssumption ==
  /\ NoAlloc \notin Allocs
  /\ Buffers \subseteq Nat /\ IsFiniteSet(Buffers)
  /\ MaxCount \in [Allocs -> Nat]

VARIABLES
  allocators,       (* allocators that exist                               *)
  cookie,           (* the cookie in front of each buffer                  *)
  allocate_count,   (* how many buffers each allocator gave                *)
  deallocate_count  (* how many of them it took back                       *)

avars == <<allocators, cookie, allocate_count, deallocate_count>>

Allocated == {b \in Buffers : cookie[b] # NoAlloc}

\* The buffers that allocator a has to take back.
Outstanding(a) == {b \in Buffers : cookie[b] = a}

\* Where malloc puts a new buffer.  Which of the free addresses it is makes
\* no difference: it is the lowest one.
Malloc(b) ==
  /\ b \notin Allocated
  /\ \A c \in Buffers \ Allocated : b <= c

-----------------------------------------------------------------------------
\* esch_alloc_new_c_default.  The allocator lies in memory of its own, with
\* its own cookie, which its counts do not include.
NewAlloc(a) ==
  /\ a \notin allocators
  /\ allocators' = allocators \cup {a}
  /\ allocate_count' = [allocate_count EXCEPT ![a] = 0]
  /\ deallocate_count' = [deallocate_count EXCEPT ![a] = 0]
  /\ UNCHANGED cookie

\* esch_alloc_realloc_c_default without an old buffer.
Give(a, b) ==
  /\ a \in allocators /\ Malloc(b)
  /\ allocate_count[a] < MaxCount[a]
  /\ cookie' = [cookie EXCEPT ![b] = a]
  /\ allocate_count' = [allocate_count EXCEPT ![a] = @ + 1]
  /\ UNCHANGED <<allocators, deallocate_count>>

\* Plausible bug: a resized buffer is counted as given but not as taken back.
DeallocatesOnResize(a) == deallocate_count

\* The old buffer counts as taken back.
ResizedCount(a) == [deallocate_count EXCEPT ![a] = @ + 1]

\* esch_alloc_realloc_c_default with an old buffer, which may stay in place;
\* that of another allocator is refused.
Resize(a, in, out) ==
  /\ a \in allocators /\ in \in Allocated /\ cookie[in] = a
  /\ out = in \/ Malloc(out)
  /\ allocate_count[a] < MaxCount[a]
  /\ cookie' = [cookie EXCEPT ![in] = NoAlloc, ![out] = a]
  /\ allocate_count' = [allocate_count EXCEPT ![a] = @ + 1]
  /\ deallocate_count' = ResizedCount(a)
  /\ UNCHANGED allocators

\* Plausible bug: the cookie is not looked at.
AnyCookie(a, b) == TRUE

OwnCookie(a, b) == cookie[b] = a

\* esch_alloc_free_c_default.  A buffer of another allocator is refused.
Free(a, b) ==
  /\ a \in allocators /\ b \in Allocated
  /\ IF OwnCookie(a, b)
     THEN /\ cookie' = [cookie EXCEPT ![b] = NoAlloc]
          /\ deallocate_count' = [deallocate_count EXCEPT ![a] = @ + 1]
          /\ UNCHANGED <<allocators, allocate_count>>
     ELSE UNCHANGED avars

\* Plausible bug: the comparison is the wrong way round.
CountsDiffer(a) == allocate_count[a] <= deallocate_count[a] + 1

Balanced(a) == allocate_count[a] = deallocate_count[a]

\* esch_object_delete on an allocator: its destructor refuses when the counts
\* differ, otherwise it takes its own memory back and the counts are gone.
DeleteAlloc(a) ==
  /\ a \in allocators
  /\ IF Balanced(a)
     THEN /\ allocators' = allocators \ {a}
          /\ allocate_count' = [allocate_count EXCEPT ![a] = 0]
          /\ deallocate_count' = [deallocate_count EXCEPT ![a] = 0]
          /\ UNCHANGED cookie
     ELSE UNCHANGED avars

-----------------------------------------------------------------------------
AllocInit ==
  /\ allocators = {}
  /\ cookie = [b \in Buffers |-> NoAlloc]
  /\ allocate_count = [a \in Allocs |-> 0]
  /\ deallocate_count = [a \in Allocs |-> 0]

AllocNext ==
  \E a \in Allocs :
    \/ NewAlloc(a) \/ DeleteAlloc(a)
    \/ \E b \in Buffers :
         Give(a, b) \/ Free(a, b) \/ \E in \in Buffers : Resize(a, in, b)

AllocSpec == AllocInit /\ [][AllocNext]_avars

-----------------------------------------------------------------------------
AllocTypeOK ==
  /\ allocators \subseteq Allocs
  /\ cookie \in [Buffers -> Allocs \cup {NoAlloc}]
  /\ allocate_count \in [Allocs -> Nat]
  /\ deallocate_count \in [Allocs -> Nat]

\* The counts of an allocator differ by exactly the buffers it has not taken
\* back, whatever was resized, refused or freed through the wrong allocator.
\* So the leak report of its destructor is right: an allocator is deleted when
\* none of its buffers is in use, and only then.
CountsExact ==
  \A a \in allocators :
    allocate_count[a] = deallocate_count[a] + Cardinality(Outstanding(a))

\* No buffer is in use whose allocator is gone: rule 7 of esch_object.h, which
\* for allocators the leak report enforces.
AllocatorsOutliveBuffers == \A b \in Allocated : cookie[b] \in allocators
=============================================================================
