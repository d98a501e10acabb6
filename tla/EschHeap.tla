------------------------------ MODULE EschHeap ------------------------------
(***************************************************************************)
(* How objects get their memory and give it back: the constructors,        *)
(* destructors and copies of src/src/esch_config.c, esch_string.c,         *)
(* esch_vector.c, esch_pair.c, esch_type.c and esch_gc.c, with             *)
(* esch_object_new_i and esch_object_delete_i of esch_object.c, over the   *)
(* allocators of EschAlloc.                                                *)
(*                                                                         *)
(* A constructor asks for several buffers in turn.  Any of these requests  *)
(* can fail, and then those before it must be undone: each request and     *)
(* each free is an action.  Objects have no collector here; EschGc is      *)
(* about those that have.                                                  *)
(***************************************************************************)
EXTENDS EschAlloc, Sequences, SequencesExt

CONSTANTS
  NoBuffer,       (* the NULL pointer                                      *)
  MaxRaw,         (* bound: buffers the program holds itself               *)
  Kinds           (* the kinds of objects the program creates              *)

ASSUME HeapAssumption ==
  /\ NoBuffer \notin Buffers
  /\ MaxRaw \in Nat
  /\ Kinds \subseteq {"pair", "string", "vector", "gc", "type", "custom"}

VARIABLES
  raw,            (* buffers the program got for itself                    *)
  object,         (* what each buffer is the header of, or Nothing         *)
  job,            (* the constructor, copy or destructor that runs         *)
  fault           (* "none", or the undefined behaviour that was reached   *)

hvars == <<avars, raw, object, job, fault>>

\* Buffers that a constructor allocates before the object itself: the array of
\* a vector, the two encodings of a string, the three tables of a collector.
Parts(kind) ==
  CASE kind = "vector" -> 1
    [] kind = "string" -> 2
    [] kind = "gc"     -> 3
    [] OTHER           -> 0

\* The methods a type must be given before objects of it can be created.
Required == {"object_new", "object_destructor"}

Nothing == [kind |-> "nothing"]

\* An object that has no data beyond its buffers.
Plain(kind, a, parts) == [kind |-> kind, alloc |-> a, parts |-> parts]

\* A configuration: entry is its common:alloc.
Config(a, entry) ==
  [kind |-> "config", alloc |-> a, parts |-> <<>>, entry |-> entry]

Type(a, methods) ==
  [kind |-> "type", alloc |-> a, parts |-> <<>>, methods |-> methods]

Custom(a, t) ==
  [kind |-> "custom", alloc |-> a, parts |-> <<>>, type |-> t]

Idle == [step |-> "idle"]

Live     == {b \in Buffers : object[b] # Nothing}
Are(kind) == {b \in Live : object[b].kind = kind}

Running(step) == fault = "none" /\ job.step = step

-----------------------------------------------------------------------------
(***************************************************************************)
(* The program's own use of the allocators.                                *)
(***************************************************************************)
ProgramNewAlloc(a) ==
  Running("idle") /\ NewAlloc(a) /\ UNCHANGED <<raw, object, job, fault>>

\* Rule 7 of esch_object.h: a configuration that names the allocator is the
\* program's own to change first.  What else uses it the allocator sees.
ProgramDeleteAlloc(a) ==
  /\ Running("idle")
  /\ \A c \in Are("config") : object[c].entry # a
  /\ DeleteAlloc(a)
  /\ UNCHANGED <<raw, object, job, fault>>

ProgramRealloc(a, in, out) ==
  /\ Running("idle")
  /\ \/ /\ in = NoBuffer /\ Cardinality(raw) < MaxRaw /\ Give(a, out)
        /\ raw' = raw \cup {out}
     \/ /\ in \in raw /\ Resize(a, in, out)
        /\ raw' = (raw \ {in}) \cup {out}
  /\ UNCHANGED <<object, job, fault>>

ProgramFree(a, b) ==
  /\ Running("idle") /\ b \in raw
  /\ Free(a, b)
  /\ raw' = raw \cap Allocated'
  /\ UNCHANGED <<object, job, fault>>

-----------------------------------------------------------------------------
(***************************************************************************)
(* Constructors.  A job holds what a running one has: the kind of object,  *)
(* the allocator, the buffers it got so far, and for a copy the temporary  *)
(* configuration.                                                          *)
(***************************************************************************)
NewJob(kind, a, config) ==
  [step |-> "new", kind |-> kind, alloc |-> a, got |-> <<>>,
   config |-> config, type |-> NoBuffer]

\* esch_config_new: one buffer, from the allocator it is given.  The entry for
\* the allocator of other objects is left empty.
NewConfig(a, b) ==
  /\ Running("idle") /\ Give(a, b)
  /\ object' = [object EXCEPT ![b] = Config(a, NoAlloc)]
  /\ UNCHANGED <<raw, job, fault>>

\* esch_config_set_obj with the key common:alloc.  NULL clears the entry.
SetAlloc(c, a) ==
  /\ Running("idle") /\ c \in Are("config") /\ a \in allocators \cup {NoAlloc}
  /\ object' = [object EXCEPT ![c].entry = a]
  /\ UNCHANGED <<avars, raw, job, fault>>

\* The public constructors, those of types and empty pairs excepted, check the
\* configuration first.
CallNew(c, kind) ==
  /\ Running("idle") /\ c \in Are("config") /\ kind \in Kinds \ {"custom"}
  /\ object[c].entry # NoAlloc
  /\ job' = NewJob(kind, object[c].entry, NoBuffer)
  /\ UNCHANGED <<avars, raw, object, fault>>

\* esch_type_new and esch_pair_new_empty do not check the entry, and
\* esch_object_new_i asks the allocator at address NULL for memory.
CallNewNoAlloc(c, kind) ==
  /\ Running("idle") /\ c \in Are("config")
  /\ kind \in Kinds \cap {"type", "pair"} /\ object[c].entry = NoAlloc
  /\ fault' = "null_alloc"
  /\ UNCHANGED <<avars, raw, object, job>>

\* ESCH_IS_VALID_TYPE, for a type made by esch_type_new.
IsValidType(t) == object[t].methods = Required

\* esch_object_new, with a type of the program.
CallObjectNew(c, t) ==
  /\ Running("idle") /\ c \in Are("config") /\ t \in Are("type")
  /\ "custom" \in Kinds
  /\ object[c].entry # NoAlloc /\ IsValidType(t)
  /\ job' = [NewJob("custom", object[c].entry, NoBuffer) EXCEPT !.type = t]
  /\ UNCHANGED <<avars, raw, object, fault>>

\* One more buffer for the object under construction.
GetPart(b) ==
  /\ Running("new") /\ Len(job.got) < Parts(job.kind)
  /\ Give(job.alloc, b)
  /\ job' = [job EXCEPT !.got = Append(@, b)]
  /\ UNCHANGED <<raw, object, fault>>

\* The object that comes out of a finished constructor.
Made ==
  CASE job.kind = "type"   -> Type(job.alloc, {})
    [] job.kind = "custom" -> Custom(job.alloc, job.type)
    [] OTHER               -> Plain(job.kind, job.alloc, job.got)

\* The buffers that a constructor frees at its label Exit.
Undone(got) == [step |-> "undo", alloc |-> job.alloc, got |-> got,
                config |-> job.config]

\* Plausible bug: the locals are not set to NULL once the object has them.
NotCleared(got) == got

\* What is left to undo when the object was made: its buffers are its own.
Cleared(got) == <<>>

\* esch_object_new_i succeeds, and the constructor with it.
GetObject(b) ==
  /\ Running("new") /\ Len(job.got) = Parts(job.kind)
  /\ Give(job.alloc, b)
  /\ object' = [object EXCEPT ![b] = Made]
  /\ job' = Undone(Cleared(job.got))
  /\ UNCHANGED <<raw, fault>>

\* Plausible bug: the first buffer is lost when a later request fails.
LastOnly(got) == SubSeq(got, 2, Len(got))

\* All that was got is freed when a request fails.
AllOf(got) == got

\* A request fails, or the UTF-8 text of a string, whose first buffer holds
\* it, turns out to be malformed.
Fail ==
  /\ Running("new")
  /\ job' = Undone(AllOf(job.got))
  /\ UNCHANGED <<avars, raw, object, fault>>

\* esch_alloc_free on each of the buffers, then on a temporary configuration.
UndoPart ==
  /\ Running("undo") /\ job.got # <<>>
  /\ Free(job.alloc, Head(job.got))
  /\ job' = [job EXCEPT !.got = Tail(@)]
  /\ UNCHANGED <<raw, object, fault>>

UndoConfig ==
  /\ Running("undo") /\ job.got = <<>> /\ job.config # NoBuffer
  /\ Free(job.alloc, job.config)
  /\ job' = [job EXCEPT !.config = NoBuffer]
  /\ UNCHANGED <<raw, object, fault>>

Return ==
  /\ Running("undo") /\ job.got = <<>> /\ job.config = NoBuffer
  /\ job' = Idle
  /\ UNCHANGED <<avars, raw, object, fault>>

-----------------------------------------------------------------------------
(***************************************************************************)
(* Copies: esch_string_duplicate and esch_vector_copy_object_i make a      *)
(* temporary configuration with the allocator of the original and call the *)
(* constructor with it.                                                    *)
(***************************************************************************)
Copy(o, b) ==
  /\ Running("idle") /\ o \in Are("string") \cup Are("vector")
  /\ Give(object[o].alloc, b)
  /\ job' = NewJob(object[o].kind, object[o].alloc, b)
  /\ UNCHANGED <<raw, object, fault>>

\* Without memory for the configuration esch_string_duplicate returns the
\* error.  esch_vector_copy_object_i deletes the object that a configuration
\* at address NULL would have.
CopyFails(o) ==
  /\ Running("idle") /\ o \in Are("string") \cup Are("vector")
  /\ fault' = IF object[o].kind = "vector" THEN "null_config" ELSE "none"
  /\ UNCHANGED <<avars, raw, object, job>>

-----------------------------------------------------------------------------
(***************************************************************************)
(* What changes an object.                                                 *)
(***************************************************************************)

\* The setters of esch_type.c accept no NULL method, so none is ever unset.
SetMethod(t, m) ==
  /\ Running("idle") /\ t \in Are("type") /\ m \in Required
  /\ object' = [object EXCEPT ![t].methods = @ \cup {m}]
  /\ UNCHANGED <<avars, raw, job, fault>>

\* Plausible bug: the vector keeps the address of its old array.
OldArray(out, parts) == parts

\* Plausible bug: the new address is lost.
LostArray(out, parts) == <<NoBuffer>>

NewArray(out, parts) == <<out>>

\* esch_vector_append_value_i when the array is full and may grow.
EnlargeVector(v, out) ==
  /\ Running("idle") /\ v \in Are("vector")
  /\ Resize(object[v].alloc, object[v].parts[1], out)
  /\ object' = [object EXCEPT ![v].parts = NewArray(out, @)]
  /\ UNCHANGED <<raw, job, fault>>

\* The destructor is looked up where the type of the object was.  Only rule 7
\* of esch_object.h asks for the type to outlive the object; nothing in the code
\* sees to it.
HasDestructor(o) ==
  object[o].kind = "custom" =>
    /\ object[o].type \in Are("type")
    /\ "object_destructor" \in object[object[o].type].methods

\* esch_object_delete: the destructor frees the buffers of the object one by
\* one, esch_object_delete_i the object.
Delete(o) ==
  /\ Running("idle") /\ o \in Live
  /\ HasDestructor(o)
  /\ job' = [step |-> "undo", alloc |-> object[o].alloc,
             got |-> Append(object[o].parts, o), config |-> NoBuffer]
  /\ object' = [object EXCEPT ![o] = Nothing]
  /\ UNCHANGED <<avars, raw, fault>>

\* The type is no more: the memory is freed, or holds something else by now.
DeleteOrphan(o) ==
  /\ Running("idle") /\ o \in Live
  /\ ~HasDestructor(o)
  /\ fault' = "freed_type"
  /\ UNCHANGED <<avars, raw, object, job>>

\* After undefined behaviour nothing is known.
Crashed == fault # "none" /\ UNCHANGED hvars

-----------------------------------------------------------------------------
Init ==
  /\ AllocInit
  /\ raw = {}
  /\ object = [b \in Buffers |-> Nothing]
  /\ job = Idle
  /\ fault = "none"

Program ==
  \E a \in Allocs :
    \/ ProgramNewAlloc(a) \/ ProgramDeleteAlloc(a)
    \/ \E b \in Buffers :
         \/ ProgramFree(a, b) \/ NewConfig(a, b)
         \/ SetAlloc(b, a) \/ SetAlloc(b, NoAlloc)
         \/ \E in \in raw \cup {NoBuffer} : ProgramRealloc(a, in, b)

Call ==
  \E o \in Live :
    \/ \E kind \in Kinds : CallNew(o, kind) \/ CallNewNoAlloc(o, kind)
    \/ \E t \in Live : CallObjectNew(o, t)
    \/ \E b \in Buffers : Copy(o, b) \/ EnlargeVector(o, b)
    \/ \E m \in Required : SetMethod(o, m)
    \/ CopyFails(o) \/ Delete(o) \/ DeleteOrphan(o)

Step ==
  \/ \E b \in Buffers : GetPart(b) \/ GetObject(b)
  \/ Fail \/ UndoPart \/ UndoConfig \/ Return

Next == Program \/ Call \/ Step \/ Crashed

Spec == Init /\ [][Next]_hvars

-----------------------------------------------------------------------------
(***************************************************************************)
(* Properties.                                                             *)
(***************************************************************************)

\* Every variable has its type.
TypeOK ==
  /\ AllocTypeOK
  /\ raw \subseteq Buffers
  /\ \A b \in Live :
       /\ object[b].kind \in Kinds \cup {"config"}
       /\ object[b].alloc \in Allocs
       /\ object[b].parts \in Seq(Buffers)
       /\ object[b].kind = "config" =>
            object[b].entry \in Allocs \cup {NoAlloc}
  /\ job.step \in {"idle", "new", "undo"}
  /\ fault \in {"none", "null_alloc", "null_config", "freed_type"}

\* The buffers of an object, the object among them.
Owned(o) == {o} \cup ToSet(object[o].parts)

\* The buffers that only the running call knows of.
Held ==
  IF job.step = "idle" THEN {}
  ELSE ToSet(job.got) \cup ({job.config} \ {NoBuffer})

\* Every buffer that is allocated has exactly one owner, which will free it
\* through the right allocator: an object, the program, or the call that
\* runs.  So nothing is leaked by a constructor that fails at any point,
\* nothing is freed twice and no object keeps a buffer that was freed.
OwnershipExact ==
  /\ Allocated = raw \cup Held \cup UNION {Owned(o) : o \in Live}
  /\ raw \cap Held = {}
  /\ \A o \in Live :
       /\ Owned(o) \cap (raw \cup Held) = {}
       /\ \A q \in Live \ {o} : Owned(o) \cap Owned(q) = {}
       /\ \A b \in Owned(o) : cookie[b] = object[o].alloc
       /\ Cardinality(Owned(o)) = Len(object[o].parts) + 1
  /\ \A b \in Held : cookie[b] = job.alloc
=============================================================================
