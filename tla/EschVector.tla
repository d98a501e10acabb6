------------------------------ MODULE EschVector ------------------------------
(***************************************************************************)
(* The vectors of src/src/esch_vector.c, with the dispatch on value types  *)
(* of src/src/esch_value.c: buffers that are allocated, doubled, copied    *)
(* and freed, the pointers begin and next into them, and the tables of     *)
(* functions that a value type or the result of a check selects from.      *)
(*                                                                         *)
(* A call has no loop and is one action.  A pointer into a buffer is the   *)
(* buffer and an offset.  What C leaves undefined ends the run in a state  *)
(* whose variable fault names what was done.                               *)
(***************************************************************************)
EXTENDS Integers, Sequences, FiniteSets

CONSTANTS
  Vecs,           (* the vectors the program may hold                      *)
  Buffers,        (* the addresses malloc may return                       *)
  Values,         (* the values the program stores: [type, val]            *)
  Queries,        (* the types it asks for                                 *)
  Indices,        (* the indices it asks for                               *)
  Lengths,        (* the values of vector:length in the configuration      *)
  Minimal,        (* ESCH_VECTOR_MINIMAL_INITIAL_LENGTH: 31 in the code    *)
  NullObj,        (* the NULL pointer, as the payload of a value           *)
  NoVec,          (* not a vector                                          *)
  MaxSlots,       (* bound: no vector grows beyond this                    *)
  MaxPos          (* bound: how far an iterator is advanced                *)

ValueTypes ==
  {"UNKNOWN", "BYTE", "UNICODE", "INTEGER", "FLOAT", "OBJECT", "NIL", "END"}

EndValue   == [type |-> "END", val |-> NullObj]
NullObject == [type |-> "OBJECT", val |-> NullObj]

\* A cell of memory that was set to zero, and one that was not.
Zero == [type |-> "UNKNOWN", val |-> NullObj]
Junk == [type |-> "junk", val |-> NullObj]

Cells == Values \cup {Zero, Junk}

ASSUME ValueAssumption ==
  /\ \A x \in Values : x.type \in ValueTypes
  /\ EndValue \in Values
  /\ Queries \subseteq ValueTypes
  /\ Indices \subseteq Int

ASSUME MemoryAssumption ==
  /\ NoVec \notin Vecs
  /\ Lengths \subseteq Nat
  /\ Minimal \in Nat \ {0} /\ MaxSlots \in Nat /\ MaxPos \in Nat

VARIABLES
  vec,            (* struct esch_vector of each vector that exists         *)
  mem,            (* what each buffer that is allocated holds              *)
  iter,           (* the iterator: its container and position              *)
  ret,            (* the status the last call returned                     *)
  out,            (* the caller's variable that calls return a value in    *)
  kept,           (* history: what out would hold if no call that reports  *)
                  (* an error had written to it                            *)
  fault           (* "none", or the undefined behaviour that was reached   *)

vars == <<vec, mem, iter, ret, out, kept, fault>>

Live == DOMAIN vec
FreeBuffers == Buffers \ DOMAIN mem

\* f with x mapped to y, whether it was in its domain or not, and f without x.
With(f, x, y)  == [z \in DOMAIN f \cup {x} |-> IF z = x THEN y ELSE f[z]]
Without(f, x) == [z \in DOMAIN f \ {x} |-> f[z]]

Pointer(b, off) == [buf |-> b, off |-> off]

Returns(status) == ret' = status /\ UNCHANGED <<vec, mem, iter, out, kept, fault>>

\* After undefined behaviour nothing is called any more.
Running == fault = "none"

Fault(what) == fault' = what /\ UNCHANGED <<vec, mem, iter, ret, out, kept>>

-----------------------------------------------------------------------------
(***************************************************************************)
(* esch_value.c: what may be stored and what answers a query.  Both tables *)
(* yield the index of an entry of esch_value_assign, which has two: 0      *)
(* assigns, 1 reports BAD_VALUE_TYPE.                                      *)
(***************************************************************************)
OK == 0
INVALID_PARAMETER == 3
BAD_VALUE_TYPE == 6

\* esch_value_check: the error code is the index.
ValueCheck(x) ==
  CASE x.type \in {"UNKNOWN", "END"}             -> BAD_VALUE_TYPE
    [] x = NullObject                            -> INVALID_PARAMETER
    [] OTHER                                     -> OK

\* Plausible bug: the row of OBJECT accepts NIL as well.
LooseTypeCheck(expected, real) ==
  IF \/ expected = "END"
     \/ expected = real /\ expected # "UNKNOWN"
     \/ expected = "OBJECT" /\ real = "NIL" THEN 0 ELSE 1

\* esch_value_type_check: the row of END ignores the type.
TypeCheck(expected, real) ==
  IF expected = "END" \/ (expected = real /\ expected # "UNKNOWN") THEN 0 ELSE 1

-----------------------------------------------------------------------------
(***************************************************************************)
(* Creation, deletion, copy.                                               *)
(***************************************************************************)
\* Plausible bug: the configured length is taken as it is.
UncheckedLength(len) == len

InitialLength(len) == IF len < Minimal THEN Minimal ELSE len

\* esch_vector_new: begin is a buffer of one cell more than slots, zeroed.
New(v, len, enl) ==
  /\ Running /\ v \notin Live
  /\ \E b \in FreeBuffers :
        LET n == InitialLength(len) IN
        /\ n <= MaxSlots
        /\ vec' = With(vec, v, [enlarge |-> enl, slots |-> n,
                                begin |-> b, next |-> Pointer(b, 0)])
        /\ mem' = With(mem, b, [k \in 0 .. n |-> Zero])
  /\ ret' = "OK" /\ UNCHANGED <<iter, out, kept, fault>>

\* The array or the object cannot be allocated; Exit frees the array.
NewFails == Running /\ Returns("OUT_OF_MEMORY")

\* The destructor frees the buffer.  A program does not use the iterator of a
\* vector it has deleted.
Delete(v) ==
  /\ Running /\ v \in Live
  /\ mem' = Without(mem, vec[v].begin)
  /\ vec' = Without(vec, v)
  /\ iter' = IF iter.container = v THEN [container |-> NoVec, pos |-> 0] ELSE iter
  /\ ret' = "OK" /\ UNCHANGED <<out, kept, fault>>

\* Plausible bug: a copy is taken to be full.
FullNext(v, b) == Pointer(b, vec[v].slots)

\* The next pointer of a copy of v in buffer b.
CopiedNext(v, b) == Pointer(b, vec[v].next.off)

\* object_copy: a new vector of the same number of slots, which may not be
\* enlarged whatever the original may; slots cells are copied.
Copy(v, w) ==
  /\ Running /\ v \in Live /\ w \notin Live
  /\ \E b \in FreeBuffers :
        LET n == InitialLength(vec[v].slots) IN
        /\ vec' = With(vec, w, [enlarge |-> FALSE, slots |-> n,
                                begin |-> b, next |-> CopiedNext(v, b)])
        /\ mem' = With(mem, b, [k \in 0 .. n |-> IF k < vec[v].slots
                                                 THEN mem[vec[v].begin][k]
                                                 ELSE Zero])
  /\ ret' = "OK" /\ UNCHANGED <<iter, out, kept, fault>>

\* esch_vector_new_i fails: the temporary configuration is deleted.
CopyFails(v) == Running /\ v \in Live /\ Returns("OUT_OF_MEMORY")

\* The temporary configuration itself cannot be allocated: Exit deletes the
\* object of a NULL configuration.
CopyWithoutConfig(v) == Running /\ v \in Live /\ Fault("null_config")

-----------------------------------------------------------------------------
(***************************************************************************)
(* esch_vector_append_value_i.                                             *)
(***************************************************************************)
Full(v) == vec[v].next = Pointer(vec[v].begin, vec[v].slots)

\* The element goes where next points, and next advances, unless the check of
\* the value selects an entry that esch_value_assign does not have.
StoreAtNext(v, r, m, x) ==
  IF ValueCheck(x) = OK
  THEN /\ mem' = [m EXCEPT ![r.next.buf][r.next.off] = x]
       /\ vec' = [vec EXCEPT ![v] = [r EXCEPT !.next.off = @ + 1]]
       /\ ret' = "OK" /\ UNCHANGED <<iter, out, kept, fault>>
  ELSE Fault("bad_dispatch")

AppendInPlace(v, x) == ~Full(v) /\ StoreAtNext(v, vec[v], mem, x)

\* Plausible bug: next is left where it was before the reallocation.
UnmovedNext(v, b) == vec[v].next

\* next = begin + slots, in the new buffer.
MovedNext(v, b) == Pointer(b, vec[v].slots)

\* realloc keeps the address or moves to another; cells behind the old ones
\* are not set to anything.
AppendEnlarged(v, x) ==
  /\ Full(v) /\ vec[v].enlarge /\ 2 * vec[v].slots <= MaxSlots
  /\ \E b \in FreeBuffers \cup {vec[v].begin} :
        LET n == 2 * vec[v].slots
            grown == [k \in 0 .. n |-> IF k <= vec[v].slots
                                       THEN mem[vec[v].begin][k] ELSE Junk]
        IN StoreAtNext(v, [enlarge |-> TRUE, slots |-> n,
                           begin |-> b, next |-> MovedNext(v, b)],
                       With(Without(mem, vec[v].begin), b, grown), x)

AppendNoMemory(v) == Full(v) /\ vec[v].enlarge /\ Returns("OUT_OF_MEMORY")

AppendFull(v) == Full(v) /\ ~vec[v].enlarge /\ Returns("CONTAINER_FULL")

\* esch_vector_append_value and the appenders of one type, which call it.
AppendValue(v, x) ==
  /\ Running /\ v \in Live
  /\ IF x.type \in {"UNKNOWN", "END"} THEN Returns("INVALID_PARAMETER")
     ELSE \/ AppendInPlace(v, x) \/ AppendEnlarged(v, x)
          \/ AppendNoMemory(v) \/ AppendFull(v)

\* What the setter and the appender of objects are called with.
Objects == {x \in Values : x.type = "OBJECT"} \cup {NullObject}

\* esch_vector_append_object: NULL is refused before anything else.
AppendObject(v, x) ==
  /\ Running /\ v \in Live
  /\ IF x = NullObject THEN Returns("INVALID_PARAMETER") ELSE AppendValue(v, x)

-----------------------------------------------------------------------------
(***************************************************************************)
(* Access by index.                                                        *)
(***************************************************************************)
Length(v) == vec[v].next.off

\* Plausible bug: the index that is minus the length is refused.
RealIndexOffByOne(v, i) ==
  IF i >= 0 THEN i ELSE IF i > -Length(v) THEN i + Length(v) ELSE -1

\* An index below zero counts from the end; -1 when it is out of bounds.
RealIndex(v, i) ==
  IF i >= 0 THEN i ELSE IF i >= -Length(v) THEN i + Length(v) ELSE -1

InBounds(v, i) == RealIndex(v, i) >= 0 /\ Length(v) > RealIndex(v, i)

Cell(v, i) == mem[vec[v].begin][RealIndex(v, i)]

\* esch_vector_set_value: the type of the new value is not looked at, that of
\* the old one selects the row of END, which never refuses.
SetValue(v, i, x) ==
  /\ Running /\ v \in Live
  /\ IF x.type \in {"UNKNOWN", "END"} THEN Returns("INVALID_PARAMETER")
     ELSE IF ~InBounds(v, i) THEN Returns("OUT_OF_BOUND")
     ELSE IF TypeCheck("END", Cell(v, i).type) # 0 THEN Returns("BAD_VALUE_TYPE")
     ELSE /\ mem' = [mem EXCEPT ![vec[v].begin][RealIndex(v, i)] = x]
          /\ ret' = "OK" /\ UNCHANGED <<vec, iter, out, kept, fault>>

SetObject(v, i, x) ==
  /\ Running /\ v \in Live
  /\ IF x = NullObject THEN Returns("INVALID_PARAMETER") ELSE SetValue(v, i, x)

\* The call hands x to its caller and succeeds.
Yields(x) ==
  /\ out' = x /\ kept' = x
  /\ ret' = "OK" /\ UNCHANGED <<vec, mem, iter, fault>>

\* esch_vector_get_value.
GetValue(v, i, t) ==
  /\ Running /\ v \in Live
  /\ IF t = "UNKNOWN" THEN Returns("INVALID_PARAMETER")
     ELSE IF ~InBounds(v, i) THEN Returns("OUT_OF_BOUND")
     ELSE IF TypeCheck(t, Cell(v, i).type) # 0 THEN Returns("BAD_VALUE_TYPE")
     ELSE Yields(Cell(v, i))

\* esch_vector_get_integer and the other getters of one type.
OneTypes == {"BYTE", "UNICODE", "INTEGER", "FLOAT", "OBJECT"}

GetTyped(v, i, t) ==
  /\ Running /\ v \in Live /\ t \in OneTypes
  /\ InBounds(v, i) /\ TypeCheck(t, Cell(v, i).type) = 0
  /\ Yields(Cell(v, i))

\* The local that esch_vector_get_value fills is copied out even when it was
\* not filled, and holds then whatever the stack held.
GetTypedFails(v, i, t) ==
  /\ Running /\ v \in Live /\ t \in OneTypes
  /\ ret' = IF InBounds(v, i) THEN "BAD_VALUE_TYPE" ELSE "OUT_OF_BOUND"
  /\ InBounds(v, i) => TypeCheck(t, Cell(v, i).type) # 0
  /\ out' \in Cells
  /\ UNCHANGED <<vec, mem, iter, kept, fault>>

-----------------------------------------------------------------------------
(***************************************************************************)
(* The iterator: an offset, compared with the length at each use.          *)
(***************************************************************************)
GetIterator(v) ==
  /\ Running /\ v \in Live
  /\ iter' = [container |-> v, pos |-> 0]
  /\ ret' = "OK" /\ UNCHANGED <<vec, mem, out, kept, fault>>

IterValue ==
  /\ Running /\ iter.container \in Live
  /\ Yields(IF iter.pos >= Length(iter.container) THEN EndValue
            ELSE mem[vec[iter.container].begin][iter.pos])

IterNext ==
  /\ Running /\ iter.container \in Live /\ iter.pos < MaxPos
  /\ iter' = [iter EXCEPT !.pos = @ + 1]
  /\ ret' = "OK" /\ UNCHANGED <<vec, mem, out, kept, fault>>

-----------------------------------------------------------------------------
Init ==
  /\ vec = [v \in {} |-> NoVec]
  /\ mem = [b \in {} |-> EndValue]
  /\ iter = [container |-> NoVec, pos |-> 0]
  /\ ret = "OK" /\ out = EndValue /\ kept = EndValue /\ fault = "none"

Call ==
  \/ NewFails \/ IterValue \/ IterNext
  \/ \E v \in Vecs :
        \/ \E len \in Lengths, enl \in BOOLEAN : New(v, len, enl)
        \/ \E w \in Vecs : Copy(v, w)
        \/ Delete(v) \/ CopyFails(v) \/ CopyWithoutConfig(v) \/ GetIterator(v)
        \/ \E x \in Values :
              AppendValue(v, x) \/ \E i \in Indices : SetValue(v, i, x)
        \/ \E x \in Objects :
              AppendObject(v, x) \/ \E i \in Indices : SetObject(v, i, x)
        \/ \E i \in Indices, t \in Queries :
              GetValue(v, i, t) \/ GetTyped(v, i, t) \/ GetTypedFails(v, i, t)

\* After undefined behaviour nothing is known.
Crashed == ~Running /\ UNCHANGED vars

Next == Call \/ Crashed

Spec == Init /\ [][Next]_vars

-----------------------------------------------------------------------------
(***************************************************************************)
(* Properties.                                                             *)
(***************************************************************************)
Errors == {"OK", "INVALID_PARAMETER", "OUT_OF_MEMORY", "CONTAINER_FULL",
           "OUT_OF_BOUND", "BAD_VALUE_TYPE"}

VectorRecords ==
  [enlarge : BOOLEAN, slots : Nat \ {0}, begin : Buffers,
   next : [buf : Buffers, off : Nat]]

\* Every variable has its type.
TypeOK ==
  /\ Live \subseteq Vecs /\ vec \in [Live -> VectorRecords]
  /\ DOMAIN mem \subseteq Buffers
  /\ \A b \in DOMAIN mem : \A k \in DOMAIN mem[b] : mem[b][k] \in Cells
  /\ iter \in [container : Vecs \cup {NoVec}, pos : Nat]
  /\ ret \in Errors
  /\ out \in Cells /\ kept \in Cells
  /\ fault \in {"none", "bad_dispatch", "null_config"}

\* Every allocated buffer is the buffer of exactly one vector, begin and next
\* of a vector point into the same buffer, next no further than the last slot,
\* and the buffer has a cell more than slots: after any order of creations,
\* copies, doublings that move and doublings that do not, and failures.
BuffersOwned ==
  /\ DOMAIN mem = {vec[v].begin : v \in Live}
  /\ \A v \in Live :
        /\ DOMAIN mem[vec[v].begin] = 0 .. vec[v].slots
        /\ vec[v].next.buf = vec[v].begin
        /\ vec[v].next.off \in 0 .. vec[v].slots
        /\ \A w \in Live \ {v} : vec[w].begin # vec[v].begin

\* No element of a vector is a cell that nobody wrote: what doubling and
\* copying leave uninitialized stays behind next.
ElementsWritten ==
  \A v \in Live : \A k \in 0 .. Length(v) - 1 :
     mem[vec[v].begin][k] \in Values

\* The sequence a vector stands for.
Contents(v) == [k \in 1 .. Length(v) |-> mem[vec[v].begin][k - 1]]

Limit(v) == IF vec[v].enlarge THEN -1 ELSE vec[v].slots

Abstract == INSTANCE AbstractVector WITH
  Rejected <- {x \in Values : x.type \in {"UNKNOWN", "END"}},
  Any <- "END", Unbounded <- -1, out <- kept,
  seq <- [v \in Live |-> Contents(v)],
  limit <- [v \in Live |-> Limit(v)]

\* The buffers behave as sequences: whatever is appended, set, copied and
\* iterated, in whatever order buffers are moved, each vector holds the values
\* put into it, and a call that reports an error changed none of them.  What a
\* caller is handed is that of the sequences for as long as no getter failed
\* since: what a failing one writes is left to ErrorsKeepOutput.
ImplementsSequences == Abstract!Spec

\* esch.h:589, 598, 607, 616 and 625, of what the getters of one type return:
\* "Unchanged if an error is raised."
ErrorsKeepOutput == [][ret' # "OK" => out' = out]_vars
=============================================================================
