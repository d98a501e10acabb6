--------------------------- MODULE ManagedPairsInv ---------------------------
(***************************************************************************)
(* What ManagedPairs keeps beyond the invariant of the collector: the      *)
(* elements that the collector sees of a pair are the values of its list,  *)
(* as the heads and tails are at that moment.                              *)
(***************************************************************************)
EXTENDS ManagedPairs, EschGcInv

\* What a pair may hold.
PairValues == Objects \cup Prims \cup {NoObj}

PairTypes ==
  head \in [Pairs -> PairValues] /\ tail \in [Pairs -> PairValues]

\* What a freed pair held is forgotten, its elements when the sweep is over.
FreedPairsEmpty ==
  \A p \in Pairs \ alive :
    head[p] = NoObj /\ tail[p] = NoObj /\ (pc # "sweep" => elems[p] = <<>>)

\* The elements of a pair are the values of its list, unless a pair of the list
\* was freed.
ElementsFollowLists ==
  \A p \in Pairs :
    Chain(p, tail) \subseteq managed => elems[p] = Yield(p, head, tail)

PairsInv ==
  /\ IInv
  /\ PairTypes
  /\ FreedPairsEmpty
  /\ ElementsFollowLists

\* What esch_gc.h:59 comes to for a pair that step 2 visits: when it has run
\* over the elements of the pair, all values of the list are marked, though
\* the pairs that hold them are not.
VisitedValuesAreMarked ==
  pc = "mark" /\ Current \in Pairs \cap managed /\ AtEnd /\ ~Dangling
    => LET values == Yield(Current, head, tail) IN
       \A k \in DOMAIN values :
          values[k] \in managed => gc_id[values[k]] \in inuse_flags
=============================================================================
