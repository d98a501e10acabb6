----------------------------- MODULE EschString -----------------------------
(***************************************************************************)
(* Strings and their decoding from UTF-8: src/src/esch_string.c.           *)
(*                                                                         *)
(* A string keeps its text twice, as the UTF-8 bytes it was made from and  *)
(* as code points.  decode_utf8 runs over the bytes twice: the first pass  *)
(* counts the code points and rejects malformed text, and the buffer is    *)
(* made as large as it says; the second pass fills the buffer and checks   *)
(* nothing.  Each byte is an action.                                       *)
(*                                                                         *)
(* A byte is abstracted to its class, which its leading bits give; a code  *)
(* point to the bytes that were shifted into it.  How a string gets and    *)
(* gives back its buffers is in EschHeap.                                  *)
(***************************************************************************)
EXTENDS Naturals, Integers, Sequences, FiniteSets, SequencesExt

CONSTANTS
  Bytes,          (* classes of bytes the program's texts are made of      *)
  MaxLen,         (* bound: bytes in a text of the program                 *)
  NoString        (* the NULL pointer                                      *)

\* 0xxxxxxx, 110xxxxx, 1110xxxx, 11110xxx, 10xxxxxx, and 11111xxx.
ASSUME StringAssumption ==
  /\ Bytes \subseteq {"one", "two", "three", "four", "cont", "other"}
  /\ MaxLen \in Nat

VARIABLES
  text,           (* the new buffer of UTF-8 bytes, without its terminator *)
  pass,           (* "idle", or which pass over the bytes is running       *)
  idx,            (* bytes the pass has read                               *)
  state,          (* its esch_unicode_parse_state                          *)
  len,            (* the number of code points the first pass counted      *)
  unicode,        (* the buffer of code points                             *)
  unicode_idx,    (* where the second pass writes                          *)
  trace,          (* history: the states of the first pass                 *)
  original,       (* a string of the program                               *)
  duplicate,      (* the copy made from it                                 *)
  result          (* what the last constructor returned                    *)

decoder == <<idx, state, len, unicode, unicode_idx, trace>>
strings == <<original, duplicate, result>>
svars   == <<text, pass, decoder, strings>>

LeadBytes == {"nul", "one", "two", "three", "four"}
Zero      == <<>>

\* A string that was made from text t, with n code points counted and the
\* buffer u filled.
String(t, n, u) ==
  [utf8 |-> t, utf8_len |-> Len(t), unicode |-> u, unicode_len |-> n]

-----------------------------------------------------------------------------
(***************************************************************************)
(* The bytes a string is made of.                                          *)
(***************************************************************************)

\* What strlen finds: the bytes before the first NUL.
StrLen(s) ==
  IF "nul" \in ToSet(s)
  THEN (CHOOSE k \in 1 .. Len(s) :
          s[k] = "nul" /\ \A j \in 1 .. k - 1 : s[j] # "nul") - 1
  ELSE Len(s)

\* The length in bytes.  Bounds that are neither "all of it" nor a range are
\* reported, but the test of the result is the wrong way round: the
\* constructor goes on with length 0.
Length(source, begin, end) ==
  CASE begin = 0 /\ end < 0 -> StrLen(source)
    [] begin >= 0 /\ end >= begin -> end - begin
    [] OTHER -> 0

\* strncpy into a buffer of zeros: it stops at the end of the source.
Copied(source, begin, n) ==
  [k \in 1 .. n |->
     IF begin + k <= StrLen(source) THEN source[begin + k] ELSE "nul"]

Decode(source, begin, end) ==
  /\ text' = Copied(source, begin, Length(source, begin, end))
  /\ pass' = "count" /\ idx' = 0 /\ state' = "begin" /\ len' = 0
  /\ trace' = <<>>
  /\ unicode' = <<>> /\ unicode_idx' = 0

\* The texts that the program has.
Sources == UNION {[1 .. n -> Bytes] : n \in 0 .. MaxLen}

\* esch_string_new_from_utf8, where source + begin lies inside the source.
NewFromUtf8 ==
  /\ pass = "idle" /\ original = NoString
  /\ \E source \in Sources, begin \in 0 .. MaxLen, end \in -1 .. MaxLen + 1 :
       begin <= Len(source) /\ Decode(source, begin, end)
  /\ UNCHANGED strings

\* Plausible bug: the copy is made from the first byte only.
FirstByte(s) == IF s.utf8 = <<>> THEN <<>> ELSE <<Head(s.utf8)>>

Source(s) == s.utf8

\* esch_string_duplicate: the bytes of the original, up to a NUL.
Duplicate ==
  /\ pass = "idle" /\ original # NoString /\ duplicate = NoString
  /\ Decode(Source(original), 0, -1)
  /\ UNCHANGED strings

\* esch_string_destructor; the duplicate has buffers of its own.
Delete ==
  /\ pass = "idle" /\ original # NoString
  /\ original' = NoString /\ duplicate' = NoString /\ result' = "none"
  /\ UNCHANGED <<text, pass, decoder>>

-----------------------------------------------------------------------------
(***************************************************************************)
(* The first pass: utf8_get_unicode_len.                                   *)
(***************************************************************************)

\* Where a lead byte leads.
First(b) ==
  CASE b \in {"nul", "one"} -> "one1"
    [] b = "two"   -> "two1"
    [] b = "three" -> "three1"
    [] b = "four"  -> "four1"

\* Where a continuation byte leads from state s.
CountContinued(s) ==
  CASE s = "two1"   -> "two2"
    [] s = "three1" -> "three2"
    [] s = "three2" -> "three3"
    [] s = "four1"  -> "four2"
    [] s = "four3"  -> "four4"
    [] OTHER        -> "wrong"

\* A byte of any other form is passed over.
CountState(s, b) ==
  CASE b \in LeadBytes -> First(b)
    [] b = "cont"      -> CountContinued(s)
    [] OTHER           -> s

\* Plausible bug: a three-byte code point is not counted.
ShortCount(b) == IF b \in LeadBytes \ {"three"} THEN 1 ELSE 0

\* Plausible bug: a byte of no form is taken off the count again.
TakenOff(b) ==
  CASE b \in LeadBytes -> 1
    [] b = "other"     -> -1
    [] OTHER           -> 0

\* A code point is counted when its first byte is met.
Counted(b) == IF b \in LeadBytes THEN 1 ELSE 0

CountByte ==
  /\ pass = "count" /\ idx < Len(text) /\ state # "wrong"
  /\ LET b == text[idx + 1] IN
       /\ state' = CountState(state, b)
       /\ trace' = Append(trace, CountState(state, b))
       /\ len' = len + Counted(b)
  /\ idx' = idx + 1
  /\ UNCHANGED <<text, pass, unicode, unicode_idx, strings>>

\* What the constructor returns to the program, which forgets its locals.
Returns(res) ==
  /\ result' = res
  /\ pass' = "idle"
  /\ idx' = 0 /\ state' = "begin" /\ len' = 0 /\ trace' = <<>>
  /\ unicode' = <<>> /\ unicode_idx' = 0 /\ text' = <<>>

\* "Bad Unicode".
CountFails ==
  /\ pass = "count" /\ state = "wrong"
  /\ Returns("invalid")
  /\ UNCHANGED <<original, duplicate>>

\* Plausible bug: no room for the terminator of an empty string.
TightBuffer == [k \in 0 .. len - 1 |-> Zero]

\* The buffer of len + 1 code points, cleared by the allocator.
NewUnicode == [k \in 0 .. len |-> Zero]

CountDone ==
  /\ pass = "count" /\ idx = Len(text) /\ state # "wrong"
  /\ unicode' = NewUnicode
  /\ pass' = "write" /\ idx' = 0 /\ state' = "begin" /\ unicode_idx' = 0
  /\ UNCHANGED <<text, len, trace, strings>>

-----------------------------------------------------------------------------
(***************************************************************************)
(* The second pass: write_unicode_from_utf8.                               *)
(***************************************************************************)

\* Plausible bug: the third byte of three is taken for the first of two.
SlippedContinued(s) ==
  CASE s = "two1"   -> "two2"
    [] s = "three1" -> "three2"
    [] s = "three2" -> "two1"
    [] s = "four1"  -> "four2"
    [] s = "four3"  -> "four4"
    [] OTHER        -> "wrong"

\* The second pass has a switch of its own.
WriteContinued(s) ==
  CASE s = "two1"   -> "two2"
    [] s = "three1" -> "three2"
    [] s = "three2" -> "three3"
    [] s = "four1"  -> "four2"
    [] s = "four3"  -> "four4"
    [] OTHER        -> "wrong"

WriteState(s, b) ==
  CASE b \in LeadBytes -> First(b)
    [] b = "cont"      -> WriteContinued(s)
    [] OTHER           -> s

\* The code point is complete: the next one goes to the next cell.
Completes(s) == s \in {"one1", "two2", "three3", "four4"}

\* Plausible bug: the index moves on at the first byte.
AtLead(b, s) == IF b \in LeadBytes THEN 1 ELSE 0

Moves(b, s) == IF b # "other" /\ Completes(s) THEN 1 ELSE 0

\* What a byte makes of the cell: a lead byte starts it, the others are
\* shifted in.
Written(cell, b) ==
  CASE b \in LeadBytes -> <<b>>
    [] b = "cont"      -> Append(cell, b)
    [] OTHER           -> cell

WriteByte ==
  /\ pass = "write" /\ idx < Len(text)
  /\ LET b == text[idx + 1]
         s == WriteState(state, b) IN
       /\ state' = s
       /\ unicode' = IF s = "wrong" THEN unicode
                     ELSE [unicode EXCEPT ![unicode_idx] = Written(@, b)]
       /\ unicode_idx' = unicode_idx + Moves(b, s)
  /\ idx' = idx + 1
  /\ UNCHANGED <<text, pass, len, trace, strings>>

\* The terminator is written, and the string is complete.
WriteDone ==
  /\ pass = "write" /\ idx = Len(text)
  /\ LET s == String(text, len, [unicode EXCEPT ![unicode_idx] = Zero]) IN
       IF original = NoString
       THEN original' = s /\ UNCHANGED duplicate
       ELSE duplicate' = s /\ UNCHANGED original
  /\ Returns("ok")

-----------------------------------------------------------------------------
Init ==
  /\ text = <<>> /\ pass = "idle"
  /\ idx = 0 /\ state = "begin" /\ len = 0 /\ trace = <<>>
  /\ unicode = <<>> /\ unicode_idx = 0
  /\ original = NoString /\ duplicate = NoString /\ result = "none"

Next ==
  \/ NewFromUtf8 \/ Duplicate \/ Delete
  \/ CountByte \/ CountFails \/ CountDone
  \/ WriteByte \/ WriteDone

Spec == Init /\ [][Next]_svars

-----------------------------------------------------------------------------
(***************************************************************************)
(* Properties.                                                             *)
(***************************************************************************)
States == {"wrong", "begin", "one1", "two1", "two2", "three1", "three2",
           "three3", "four1", "four2", "four3", "four4"}

\* Every variable has its type.
TypeOK ==
  /\ text \in Seq(Bytes \cup {"nul"})
  /\ pass \in {"idle", "count", "write"}
  /\ idx \in 0 .. Len(text) /\ state \in States
  /\ len \in Nat /\ unicode_idx \in Nat
  /\ trace \in Seq(States)
  /\ result \in {"none", "ok", "invalid"}

\* The second pass writes inside the buffer that the first pass sized, also
\* when sequences are cut short or interrupted: the cell under construction
\* and, at the end, the terminator have a place.
WritesInBuffer ==
  pass = "write" =>
    /\ DOMAIN unicode = 0 .. len
    /\ unicode_idx \in DOMAIN unicode
    /\ idx < Len(text) /\ text[idx + 1] \in LeadBytes => unicode_idx < len

\* "Impossible to happen: we've got correct calcaulation": the second pass is
\* in the state the first was in, so that what the first accepted the second
\* does not find wrong.
PassesAgree ==
  pass = "write" =>
    /\ state = IF idx = 0 THEN "begin" ELSE trace[idx]
    /\ state # "wrong"

\* The bytes of the code point that starts at position k of s, 0 if none does.
Need(b) ==
  CASE b \in {"one", "nul"} -> 1
    [] b = "two"   -> 2
    [] b = "three" -> 3
    [] b = "four"  -> 4
    [] OTHER       -> 0

\* s can be cut into complete code points from byte k + 1 on.
WellFormed(s) ==
  LET ok[k \in 0 .. Len(s)] ==
        k = Len(s) \/ LET n == Need(s[k + 1]) IN
          /\ n > 0 /\ k + n <= Len(s)
          /\ \A j \in k + 2 .. k + n : s[j] = "cont"
          /\ ok[k + n]
  IN ok[0]

\* The code points of a string as a C string: the cells before the first zero.
CString(u) ==
  LET end == CHOOSE k \in DOMAIN u :
               /\ u[k] \in {Zero, <<"nul">>}
               /\ \A j \in 0 .. k - 1 : u[j] \notin {Zero, <<"nul">>}
  IN [k \in 1 .. end |-> u[k - 1]]

\* A text of complete code points of one to three bytes is decoded: the code
\* points, put together, are the text, and their number is unicode_len.
WellFormedIsDecoded ==
  /\ pass = "idle" =>
       \A s \in {original, duplicate} \ {NoString} :
         WellFormed(s.utf8) /\ "nul" \notin ToSet(s.utf8) =>
           /\ FlattenSeq(CString(s.unicode)) = s.utf8
           /\ Len(CString(s.unicode)) = s.unicode_len
  /\ pass = "count" /\ state = "wrong"
       => "four" \in ToSet(text) \/ ~WellFormed(text)

\* A duplicate is the same C string as its original, of which it cannot have
\* the bytes behind a NUL, and a duplicate can always be made.
DuplicateIsSame ==
  /\ duplicate # NoString =>
       CString(duplicate.unicode) = CString(original.unicode)
  /\ original # NoString => result = "ok"

\* The comment at src/src/esch_string.c:403 lists the forms of UTF-8, that of
\* four bytes among them: a text made of complete code points is not "Bad
\* Unicode".
EveryFormIsAccepted ==
  (pass = "count" /\ state = "wrong") => ~WellFormed(text)
=============================================================================
