------------------------------ MODULE EschPair ------------------------------
(***************************************************************************)
(* Pairs and the lists built from them: src/src/esch_pair.c.               *)
(*                                                                         *)
(* A pair holds two values and a flag, next_is_pair, which caches whether  *)
(* the tail is itself a pair.  The iterator and esch_pair_is_list trust    *)
(* the flag alone: they take the tail for a pair when it is set, and never *)
(* look at the tail when it is not.  A program may hold an iterator while  *)
(* it changes the list; esch_pair_is_list is a loop inside one call, here  *)
(* one iteration per action, to see whether it ends.                       *)
(*                                                                         *)
(* Pairs are not managed by a collector here; ManagedPairs puts them under *)
(* the collector of EschGc.                                                *)
(***************************************************************************)
EXTENDS Naturals, Sequences, FiniteSets

CONSTANTS
  Pairs,          (* the pairs a program can create                        *)
  Chars,          (* values of type BYTE and UNICODE                       *)
  Prims,          (* any other value that is not a pair: numbers, NIL,     *)
                  (* objects of another type and, in a head, the object at *)
                  (* address NULL                                          *)
  End,            (* the value of type END                                 *)
  None,           (* no pair: no iterator, no call in progress             *)
  MaxSeen         (* bound: values taken from one iterator                 *)

ASSUME PairAssumption ==
  /\ Pairs \cap (Chars \cup Prims \cup {End, None}) = {}
  /\ Chars \cap (Prims \cup {End}) = {}
  /\ End \notin Prims
  /\ IsFiniteSet(Pairs)
  /\ MaxSeen \in Nat

VARIABLES
  alive,          (* pairs whose memory is allocated                       *)
  head,           (* values[0] of each pair                                *)
  tail,           (* values[1] of each pair                                *)
  next_is_pair,   (* the flag of each pair                                 *)
  iter,           (* the iterator of the program: container and position   *)
  start,          (* history: the pair the iterator was obtained from      *)
  seen,           (* history: the values that get_next has passed          *)
  subject,        (* the argument of esch_pair_is_list                     *)
  each,           (* its loop variable                                     *)
  answer,         (* the last *is_list returned                            *)
  pc              (* "idle", inside esch_pair_is_list, or "null_object":   *)
                  (* undefined behaviour was reached                       *)

heap == <<alive, head, tail, next_is_pair>>
walk == <<iter, start, seen>>
loop == <<subject, each, answer, pc>>
vars == <<heap, walk, loop>>

Values == Pairs \cup Chars \cup Prims \cup {End}

\* What a new pair may hold: type > UNKNOWN and < END.
Storable == (Pairs \cap alive) \cup Chars \cup Prims

\* What a setter accepts: type > UNICODE and <= END.
Settable == (Pairs \cap alive) \cup Prims \cup {End}

HEAD_ID  == 0
TAIL_ID  == 1
EMPTY_ID == 2

NoIter == [container |-> None, idx |-> HEAD_ID]

-----------------------------------------------------------------------------
(***************************************************************************)
(* What a list is, read from the pairs themselves.                         *)
(***************************************************************************)

\* The pair that follows p, if the tail is one.
Following(p) == IF p \in Pairs /\ tail[p] \in Pairs THEN tail[p] ELSE None

\* The k-th pair of the list that starts at p, counted from 0.
Nth(p, k) ==
  LET nth[i \in 0 .. k] == IF i = 0 THEN p ELSE Following(nth[i - 1]) IN nth[k]

\* The pairs of the list.
Chain(p) == {Nth(p, k) : k \in 0 .. Cardinality(Pairs)} \ {None}

\* The tails come back to a pair that was met before.
Circular(p) == Nth(p, Cardinality(Pairs)) # None

\* The last pair of a list whose tails do not come back.
LastPair(p) == CHOOSE q \in Chain(p) : Following(q) = None

\* A list ends with the empty pair.
IsList(p) == head[LastPair(p)] = End /\ tail[LastPair(p)] = End

\* The k-th value of the list: the heads, and after them the last tail.
Value(p, k) ==
  LET q == Nth(p, k) IN
  IF q # None THEN head[q]
  ELSE IF k > 0 /\ Nth(p, k - 1) # None THEN tail[Nth(p, k - 1)]
  ELSE End

\* The first n values of the list, or all that come before the first END.
Contents(p, n) ==
  LET ends == {k \in 0 .. n - 1 : Value(p, k) = End}
      len  == IF ends = {} THEN n
              ELSE CHOOSE k \in ends : \A j \in ends : k <= j
  IN [k \in 1 .. len |-> Value(p, k - 1)]

-----------------------------------------------------------------------------
(***************************************************************************)
(* Creating, changing and deleting pairs.                                  *)
(***************************************************************************)

\* A change of the list makes the history of the iterator meaningless.
Disturb ==
  /\ start' = None
  /\ seen' = <<>>
  /\ UNCHANGED iter

\* Plausible bug: the flag tells END from the other values, too, though it is
\* the index of a table of two.
TypeFlag(v) == IF v \in Pairs THEN 1 ELSE IF v = End THEN 2 ELSE 0

\* next_is_pair as it follows from the value put in the tail.
Flag(v) == IF v \in Pairs THEN 1 ELSE 0

\* esch_pair_new_i, called by esch_pair_new with two values of the program or
\* by esch_pair_new_empty with the address of esch_pair_empty for both.
New(p, h, t) ==
  /\ pc = "idle" /\ p \notin alive
  /\ (h \in Storable /\ t \in Storable) \/ (h = End /\ t = End)
  /\ alive' = alive \cup {p}
  /\ head' = [head EXCEPT ![p] = h]
  /\ tail' = [tail EXCEPT ![p] = t]
  /\ next_is_pair' = [next_is_pair EXCEPT ![p] = Flag(t)]
  /\ UNCHANGED <<walk, loop>>

SetHead(p, v) ==
  /\ pc = "idle" /\ v \in Settable
  /\ head' = [head EXCEPT ![p] = v]
  /\ Disturb
  /\ UNCHANGED <<alive, tail, next_is_pair, loop>>

\* Plausible bug: the flag is raised for a pair but not lowered afterwards.
RaisedFlag(p, v) == IF v \in Pairs THEN 1 ELSE next_is_pair[p]

\* Plausible bug: only the constructor sets the flag.
OldFlag(p, v) == next_is_pair[p]

\* The flag esch_pair_set_tail leaves in p.
NewFlag(p, v) == Flag(v)

SetTail(p, v) ==
  /\ pc = "idle" /\ v \in Settable
  /\ tail' = [tail EXCEPT ![p] = v]
  /\ next_is_pair' = [next_is_pair EXCEPT ![p] = NewFlag(p, v)]
  /\ Disturb
  /\ UNCHANGED <<alive, head, loop>>

\* A value of type OBJECT at address NULL passes the checks of esch_pair_new
\* and esch_pair_set_tail, which then look up the type of the object.
LooksAtNull ==
  /\ pc = "idle" /\ pc' = "null_object"
  /\ UNCHANGED <<heap, walk, subject, each, answer>>

NewNullTail(p, h) == p \notin alive /\ h \in Storable /\ LooksAtNull

SetNullTail(p) == p \in alive /\ LooksAtNull

\* After undefined behaviour nothing is known.
Crashed == pc = "null_object" /\ UNCHANGED vars

\* The pairs that hold p, and the iterator when it stands on p.  Nothing in
\* the code counts references: not to delete p before is the program's part.
Holders(p) == {q \in alive \ {p} : p \in {head[q], tail[q]}}

\* esch_object_delete: the destructor of a pair does nothing.  What the freed
\* memory held is forgotten.
Delete(p) ==
  /\ pc = "idle"
  /\ Holders(p) = {} /\ iter.container # p
  /\ alive' = alive \ {p}
  /\ head' = [head EXCEPT ![p] = End]
  /\ tail' = [tail EXCEPT ![p] = End]
  /\ next_is_pair' = [next_is_pair EXCEPT ![p] = 0]
  /\ start' = IF start = p THEN None ELSE start
  /\ seen' = IF start = p THEN <<>> ELSE seen
  /\ UNCHANGED <<iter, loop>>

-----------------------------------------------------------------------------
(***************************************************************************)
(* The iterator.                                                           *)
(***************************************************************************)

\* esch_pair_get_iterator_i.
GetIterator(p) ==
  /\ pc = "idle"
  /\ iter' = [container |-> p, idx |-> HEAD_ID]
  /\ start' = p
  /\ seen' = <<>>
  /\ UNCHANGED <<heap, loop>>

\* esch_pair_iterator_get_value_i.
GetValue ==
  CASE iter.idx = HEAD_ID  -> head[iter.container]
    [] iter.idx = TAIL_ID  -> tail[iter.container]
    [] iter.idx = EMPTY_ID -> End

\* Plausible bug: the tail of a pair is always given as a value.
AlwaysTail ==
  [iter EXCEPT !.idx = IF iter.idx = HEAD_ID THEN TAIL_ID ELSE EMPTY_ID]

\* The dispatch tables esch_pair_assign_next, indexed by the position, and
\* esch_pair_next_pair_dispatch, indexed by the flag.
NextPosition ==
  CASE iter.idx # HEAD_ID -> [iter EXCEPT !.idx = EMPTY_ID]
    [] iter.idx = HEAD_ID /\ next_is_pair[iter.container] = 0 ->
         [iter EXCEPT !.idx = TAIL_ID]
    [] iter.idx = HEAD_ID /\ next_is_pair[iter.container] = 1 ->
         [container |-> tail[iter.container], idx |-> HEAD_ID]

\* esch_pair_iterator_get_next_i, called by a program that has looked at the
\* value and found that the list goes on.
GetNext ==
  /\ pc = "idle" /\ iter.container # None
  /\ GetValue # End
  /\ Len(seen) < MaxSeen
  /\ seen' = IF start = None THEN seen ELSE Append(seen, GetValue)
  /\ iter' = NextPosition
  /\ UNCHANGED <<heap, start, loop>>

\* The program drops the iterator.
DropIterator ==
  /\ pc = "idle" /\ iter # NoIter
  /\ iter' = NoIter /\ start' = None /\ seen' = <<>>
  /\ UNCHANGED <<heap, loop>>

-----------------------------------------------------------------------------
(***************************************************************************)
(* esch_pair_is_list.                                                      *)
(***************************************************************************)

\* Bound: the program has dropped its iterator, which the call cannot see.
CallIsList(p) ==
  /\ pc = "idle" /\ iter = NoIter
  /\ subject' = p /\ each' = p /\ answer' = FALSE /\ pc' = "is_list"
  /\ UNCHANGED <<heap, walk>>

\* Plausible bug: the loop looks at the same pair again.
SameEach == each

\* Plausible bug: a list held as a head is looked at instead of the rest.
HeadFirst == IF head[each] \in Pairs THEN head[each] ELSE tail[each]

NextEach == tail[each]

\* One iteration of the loop: the tail is taken for a pair.
IsListStep ==
  /\ pc = "is_list" /\ next_is_pair[each] = 1
  /\ each' = NextEach
  /\ UNCHANGED <<heap, walk, subject, answer, pc>>

\* Plausible bug: the first pair is looked at instead of the last one.
EndsAtSubject == head[subject] = End \/ tail[each] = End

\* The last pair holds END twice.
EndsEmpty == head[each] = End /\ tail[each] = End

IsListReturn ==
  /\ pc = "is_list" /\ next_is_pair[each] = 0
  /\ answer' = EndsEmpty
  /\ subject' = None /\ each' = None /\ pc' = "idle"
  /\ UNCHANGED <<heap, walk>>

-----------------------------------------------------------------------------
Init ==
  /\ alive = {}
  /\ head = [p \in Pairs |-> End]
  /\ tail = [p \in Pairs |-> End]
  /\ next_is_pair = [p \in Pairs |-> 0]
  /\ iter = NoIter /\ start = None /\ seen = <<>>
  /\ subject = None /\ each = None /\ answer = FALSE
  /\ pc = "idle"

IsListLoop == IsListStep \/ IsListReturn

Next ==
  \/ \E p \in Pairs, h \in Values :
        NewNullTail(p, h) \/ \E t \in Values : New(p, h, t)
  \/ \E p \in alive, v \in Values : SetHead(p, v) \/ SetTail(p, v)
  \/ \E p \in alive :
        SetNullTail(p) \/ Delete(p) \/ GetIterator(p) \/ CallIsList(p)
  \/ GetNext \/ DropIterator
  \/ IsListLoop
  \/ Crashed

Spec == Init /\ [][Next]_vars

\* The loop runs inside a call, on the only thread: it is not suspended.
FairSpec == Spec /\ WF_vars(IsListLoop)

-----------------------------------------------------------------------------
(***************************************************************************)
(* Properties.                                                             *)
(***************************************************************************)

\* Every variable has its type.
TypeOK ==
  /\ alive \subseteq Pairs
  /\ head \in [Pairs -> Values] /\ tail \in [Pairs -> Values]
  /\ next_is_pair \in [Pairs -> {0, 1}]
  /\ iter \in [container : Pairs \cup {None}, idx : {0, 1, 2}]
  /\ start \in Pairs \cup {None} /\ seen \in Seq(Values)
  /\ subject \in Pairs \cup {None} /\ each \in Pairs \cup {None}
  /\ answer \in BOOLEAN
  /\ pc \in {"idle", "is_list", "null_object"}

\* The flag that the iterator and is_list trust says of every pair what its
\* tail is, and the pairs they stand on have not been freed: so neither ever
\* takes another value for a pair or reads freed memory, however setters,
\* deletions and iteration are mixed (what ESCH_IS_VALID_PAIR checks in debug
\* builds at each step).
TailsAreTrusted ==
  /\ \A p \in alive : next_is_pair[p] = 1 <=> tail[p] \in Pairs
  /\ iter.container \in alive \cup {None}
  /\ each \in alive \cup {None}

\* An iterator over a list that was not changed since gives the heads of its
\* pairs and then the last tail, in order, each of them once, and it stops at
\* the first END: also on circular lists, where it never stops.
IteratorFollowsList ==
  start # None =>
    /\ seen = Contents(start, Len(seen))
    /\ GetValue = End => seen = Contents(start, Len(seen) + 1)
    /\ GetValue # End =>
         Append(seen, GetValue) = Contents(start, Len(seen) + 1)

\* esch_pair_is_list answers whether the last pair of the list is the empty
\* pair ("A valid list should always use empty as last element").
IsListAnswersRight ==
  [][pc = "is_list" /\ pc' = "idle" => answer' = IsList(subject)]_vars

\* On a list whose tails do not come back the loop ends.
IsListReturns ==
  (pc = "is_list" /\ ~Circular(each)) ~> (pc = "idle")

\* So it must, for each step leaves a pair behind that it will not meet again.
IsListProgress ==
  [][pc = "is_list" /\ pc' = "is_list" /\ ~Circular(each)
       => ~Circular(each') /\ Chain(each') \subseteq Chain(each) \ {each}]_vars

\* On a list whose tails come back it never does, and no other call is served.
CircleNeverReturns ==
  [][pc = "is_list" /\ Circular(each) => pc' = "is_list" /\ Circular(each')]_vars
=============================================================================
