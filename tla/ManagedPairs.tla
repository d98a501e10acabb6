---------------------------- MODULE ManagedPairs ----------------------------
(***************************************************************************)
(* Pairs under the collector: the composition of src/src/esch_pair.c with  *)
(* the collector of EschGc.                                                *)
(*                                                                         *)
(* The collector sees a pair through its iterator only: the elements it    *)
(* marks are the values of the list, heads and last tail, and not the      *)
(* pairs the list is made of.  So elems, which EschGc keeps for every      *)
(* container, is for a pair a function of the heads and tails of its list. *)
(*                                                                         *)
(* Bounds: lists are not circular here, EschPair has those that are; and   *)
(* the model stops when a sweep has left a pair that refers to freed       *)
(* memory, for nothing that reads it is defined.                           *)
(***************************************************************************)
EXTENDS EschGc

CONSTANT Pairs    (* those of Vectors, which here are all the containers,  *)
                  (* that are pairs                                        *)

VARIABLES
  head, tail      (* values[0] and values[1] of each pair, NoObj for END   *)

pvars == <<vars, head, tail>>

\* What follows pair p when the tails are those of t.
Following(p, t) == IF p \in Pairs /\ t[p] \in Pairs THEN t[p] ELSE NoObj

Nth(p, t, k) ==
  LET nth[i \in 0 .. k] ==
        IF i = 0 THEN p ELSE Following(nth[i - 1], t)
  IN nth[k]

Chain(p, t) == {Nth(p, t, k) : k \in 0 .. Cardinality(Pairs)} \ {NoObj}

Circular(p, t) == Nth(p, t, Cardinality(Pairs)) # NoObj

\* What the iterator of pair p yields: the heads of its list, then the last
\* tail, up to the first END.
Yield(p, h, t) ==
  LET n == Cardinality(Chain(p, t))
      all == [k \in 1 .. n + 1 |->
                IF k <= n THEN h[Nth(p, t, k - 1)] ELSE t[Nth(p, t, n - 1)]]
      ends == {k \in 1 .. n + 1 : all[k] = NoObj}
  IN IF ends = {} THEN all
     ELSE SubSeq(all, 1, (CHOOSE k \in ends : \A j \in ends : k <= j) - 1)

\* The elements of every container once the heads are h and the tails t.
Elements(h, t) ==
  [v \in Vectors |-> IF v \in Pairs THEN Yield(v, h, t) ELSE elems[v]]

-----------------------------------------------------------------------------
\* A step of the collector or of a vector: it leaves the pairs alone.
GcStep ==
  \/ \E o \in Objects :
        \/ o \notin Pairs /\ NewUnmanaged(o)
        \/ o \notin Pairs /\ GcNew(o)
        \/ DeleteUnmanaged(o) \/ New(o) \/ NewOutOfMemory(o)
  \/ Recycle \/ DeleteGc \/ RetryNew \/ RetryFails \/ Collect \/ Crashed

AppendToVector ==
  \E v \in (Vectors \ Pairs) \cap managed, x \in managed \cup Prims :
     AppendElem(v, x)

\* A pair still refers to what the collector has freed.
Dangling ==
  \E q \in Pairs \cap managed :
    ~({head[q], tail[q]} \subseteq managed \cup Prims \cup {NoObj})

\* What a freed pair held is forgotten.
FreedForgotten ==
  /\ head' = [p \in Pairs |-> IF p \in alive' THEN head[p] ELSE NoObj]
  /\ tail' = [p \in Pairs |-> IF p \in alive' THEN tail[p] ELSE NoObj]

\* A pair is created empty; esch_pair_set_head and esch_pair_set_tail fill it.
SetPair(p, h, t) ==
  /\ Running("idle") /\ p \in Pairs \cap managed
  /\ ~Circular(p, t)
  /\ head' = h /\ tail' = t
  /\ elems' = Elements(h, t)
  /\ UNCHANGED <<alive, managed, gc_id, table, walk, ctl>>

SetHead(p, x) == SetPair(p, [head EXCEPT ![p] = x], tail)

SetTail(p, x) == SetPair(p, head, [tail EXCEPT ![p] = x])

-----------------------------------------------------------------------------
PairInit ==
  /\ Init
  /\ head = [p \in Pairs |-> NoObj] /\ tail = [p \in Pairs |-> NoObj]

PairNext ==
  /\ pc # "sweep" => ~Dangling
  /\ \/ (GcStep \/ AppendToVector) /\ FreedForgotten
     \/ \E p \in Pairs, x \in managed \cup Prims : SetHead(p, x) \/ SetTail(p, x)

PairSpec == PairInit /\ [][PairNext]_pvars

\* esch_gc.h:59 says that step 2 marks every reachable object.  Those pairs it
\* does visit it should keep whole: when it has run over the elements of a
\* pair, every pair of that list is marked, so that the sweep spares it.
VisitedListsAreMarked ==
  [][\A p \in Pairs \cap managed :
       pc = "mark" /\ Current = p /\ PopStack /\ fault' = "none"
         => \A q \in Chain(p, tail) : q \in managed => gc_id[q] \in inuse_flags
    ]_pvars
=============================================================================
