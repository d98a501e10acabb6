---------------------------- MODULE AbstractVector ----------------------------
(***************************************************************************)
(* What the vectors of esch promise to the program that uses them: each    *)
(* is a sequence of values, of bounded or unbounded length.  A call either *)
(* does what it is for or reports an error and leaves every sequence as it *)
(* was, and the caller's variable too (esch.h says of what a getter        *)
(* returns: "Unchanged if an error is raised"); an index counts from the   *)
(* end when it is negative; an iterator is a position, which stays good    *)
(* while the vector grows.  There are no buffers here: EschVector has      *)
(* them, and implements this module.                                       *)
(***************************************************************************)
EXTENDS Integers, Sequences

CONSTANTS
  Vecs,           (* the vectors the program may hold                      *)
  Values,         (* the values it stores                                  *)
  Rejected,       (* the values every call refuses                         *)
  Lengths,        (* the lengths it asks for                               *)
  Indices,        (* the indices it asks for                               *)
  Queries,        (* the types it asks for                                 *)
  Any,            (* the query that every type answers                     *)
  EndValue,       (* what an iterator yields behind the last element       *)
  NoVec,          (* not a vector                                          *)
  Unbounded       (* the limit of a vector that may be enlarged            *)

VARIABLES
  seq,            (* the sequence each vector that exists holds            *)
  limit,          (* the length at which it is full                        *)
  iter,           (* an iterator: its vector and how many values it passed *)
  ret,            (* the status the last call returned                     *)
  out             (* the caller's variable that calls return a value in    *)

vars == <<seq, limit, iter, ret, out>>

Live == DOMAIN seq

\* f with x mapped to y, whether it was in its domain or not, and f without x.
With(f, x, y)  == [z \in DOMAIN f \cup {x} |-> IF z = x THEN y ELSE f[z]]
Without(f, x) == [z \in DOMAIN f \ {x} |-> f[z]]

\* The call changes nothing but its status.
Returns(status) == ret' = status /\ UNCHANGED <<seq, limit, iter, out>>

\* The position that index i means in a sequence of n values, from 1.
Position(i, n) == IF i < 0 THEN n + i + 1 ELSE i + 1

InBounds(i, n) == Position(i, n) \in 1 .. n

-----------------------------------------------------------------------------
Init ==
  /\ seq = [v \in {} |-> <<>>]
  /\ limit = [v \in {} |-> 0]
  /\ iter = [container |-> NoVec, pos |-> 0]
  /\ ret = "OK" /\ out = EndValue

\* A new vector is empty and has room for the length that was asked for.
New(v, len) ==
  /\ v \notin Live
  /\ seq' = With(seq, v, <<>>)
  /\ limit' = With(limit, v, limit'[v])
  /\ limit'[v] = Unbounded \/ (limit'[v] \in Nat /\ limit'[v] >= len)
  /\ ret' = "OK" /\ UNCHANGED <<iter, out>>

Delete(v) ==
  /\ v \in Live
  /\ seq' = Without(seq, v)
  /\ limit' = Without(limit, v)
  /\ iter' = IF iter.container = v THEN [container |-> NoVec, pos |-> 0] ELSE iter
  /\ ret' = "OK" /\ UNCHANGED out

\* A copy holds what the original holds and is full no earlier; whether it may
\* be enlarged is not promised.
Copy(v, w) ==
  /\ v \in Live /\ w \notin Live
  /\ seq' = With(seq, w, seq[v])
  /\ limit' = With(limit, w, limit'[w])
  /\ limit'[w] = Unbounded \/ (limit'[w] \in Nat /\ limit'[w] >= Len(seq[v]))
  /\ ret' = "OK" /\ UNCHANGED <<iter, out>>

NoMemory == Returns("OUT_OF_MEMORY")

Append1(v, x) ==
  /\ v \in Live
  /\ limit[v] = Unbounded \/ Len(seq[v]) < limit[v]
  /\ seq' = [seq EXCEPT ![v] = Append(@, x)]
  /\ ret' = "OK" /\ UNCHANGED <<limit, iter, out>>

\* Only a vector that may not be enlarged is ever full, and at its limit only.
AppendFull(v) ==
  /\ v \in Live /\ limit[v] # Unbounded /\ Len(seq[v]) = limit[v]
  /\ Returns("CONTAINER_FULL")

Refused(v) == v \in Live /\ Returns("INVALID_PARAMETER")

Set(v, i, x) ==
  /\ v \in Live /\ InBounds(i, Len(seq[v]))
  /\ seq' = [seq EXCEPT ![v][Position(i, Len(seq[v]))] = x]
  /\ ret' = "OK" /\ UNCHANGED <<limit, iter, out>>

Get(v, i, t) ==
  /\ v \in Live /\ InBounds(i, Len(seq[v]))
  /\ t = Any \/ seq[v][Position(i, Len(seq[v]))].type = t
  /\ out' = seq[v][Position(i, Len(seq[v]))]
  /\ ret' = "OK" /\ UNCHANGED <<seq, limit, iter>>

OutOfBound(v, i) ==
  /\ v \in Live /\ ~InBounds(i, Len(seq[v]))
  /\ Returns("OUT_OF_BOUND")

BadType(v, i, t) ==
  /\ v \in Live /\ InBounds(i, Len(seq[v]))
  /\ seq[v][Position(i, Len(seq[v]))].type # t
  /\ Returns("BAD_VALUE_TYPE")

Iterate(v) ==
  /\ v \in Live
  /\ iter' = [container |-> v, pos |-> 0]
  /\ ret' = "OK" /\ UNCHANGED <<seq, limit, out>>

IterValue ==
  /\ iter.container \in Live
  /\ out' = IF iter.pos < Len(seq[iter.container])
            THEN seq[iter.container][iter.pos + 1] ELSE EndValue
  /\ ret' = "OK" /\ UNCHANGED <<seq, limit, iter>>

IterNext ==
  /\ iter.container \in Live
  /\ iter' = [iter EXCEPT !.pos = @ + 1]
  /\ ret' = "OK" /\ UNCHANGED <<seq, limit, out>>

Next ==
  \/ NoMemory \/ IterValue \/ IterNext
  \/ \E v \in Vecs :
        \/ \E len \in Lengths : New(v, len)
        \/ \E w \in Vecs : Copy(v, w)
        \/ Delete(v) \/ AppendFull(v) \/ Refused(v) \/ Iterate(v)
        \/ \E x \in Values \ Rejected :
              Append1(v, x) \/ \E i \in Indices : Set(v, i, x)
        \/ \E i \in Indices :
              \/ OutOfBound(v, i)
              \/ \E t \in Queries : Get(v, i, t) \/ BadType(v, i, t)

Spec == Init /\ [][Next]_vars
=============================================================================
