-------------------------- MODULE AbstractCollector --------------------------
(***************************************************************************)
(* What the collector of esch promises to the program that uses it: it     *)
(* owns a set of objects, which grows as the program creates them and      *)
(* shrinks by collections only; and a collection happens at once.  There   *)
(* are no slots, no flags, no stack and no sweep here: EschGc has them,    *)
(* and implements this module.                                             *)
(*                                                                         *)
(* Which objects a collection spares is said exactly, and it is less than  *)
(* the documentation says: what only the last container of the root holds  *)
(* is freed, though it can be reached, and over a deeper nest of           *)
(* containers a collection does not come to its end.                       *)
(***************************************************************************)
CONSTANTS
  Objects,        (* all objects                                           *)
  Vectors,        (* those of them that hold others                        *)
  NoObj           (* no object                                             *)

VARIABLES
  owned,          (* the objects of the collector                          *)
  root,           (* its root, which is NoObj when there is none           *)
  holds           (* the objects that each container holds                 *)

vars == <<owned, root, holds>>

-----------------------------------------------------------------------------
Init ==
  /\ owned = {} /\ root = NoObj
  /\ holds = [v \in Vectors |-> {}]

\* A collector is made of a container that becomes its root.
GcNew(r) ==
  /\ owned = {}
  /\ owned' = {r} /\ root' = r /\ UNCHANGED holds

New(o) ==
  /\ o \notin owned
  /\ owned' = owned \cup {o} /\ UNCHANGED <<root, holds>>

\* Between two collections nothing gets into a container of the collector but
\* what the collector owns.  It cares for no other container.
Mutate ==
  /\ holds' \in [Vectors -> SUBSET Objects]
  /\ \A v \in owned \cap Vectors : holds'[v] \subseteq holds[v] \cup owned
  /\ UNCHANGED <<owned, root>>

\* The containers that the root holds.
RootContainers == holds[root] \cap Vectors

\* A collection comes to its end only when the root holds containers and these
\* hold no others, but for one of them perhaps, the last.  It keeps the root,
\* what the root holds and what those containers hold, but for the last.
Collect ==
  /\ root # NoObj /\ RootContainers # {}
  /\ \E last \in RootContainers :
       \E visited \in {RootContainers, RootContainers \ {last}} :
         /\ \A v \in visited : holds[v] \cap Vectors = {}
         /\ owned' = owned \cap
              ({root} \cup holds[root] \cup UNION {holds[v] : v \in visited})
  /\ UNCHANGED <<root, holds>>

\* A collector that is deleted gives up all at once, its root included.
Delete ==
  owned' = {} /\ root' = NoObj /\ UNCHANGED holds

Next ==
  \/ \E r \in Vectors : GcNew(r)
  \/ \E o \in Objects : New(o)
  \/ Mutate
  \/ Collect
  \/ Delete

Spec == Init /\ [][Next]_vars
=============================================================================
