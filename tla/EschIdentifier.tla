--------------------------- MODULE EschIdentifier ---------------------------
(***************************************************************************)
(* esch_unicode_string_is_valid_identifier of src/src/esch_string.c: may a *)
(* string be the name of a symbol?                                         *)
(*                                                                         *)
(* The function runs a pointer along the characters of the string up to    *)
(* the terminator, one loop iteration per action.  ASCII characters are    *)
(* judged by the macros of esch.h, all others by the eighteen categories   *)
(* of EschRange.                                                           *)
(***************************************************************************)
EXTENDS EschRange, FiniteSets

CONSTANTS
  Inputs,         (* the strings the program asks about, without their     *)
                  (* terminators                                           *)
  NoString        (* the NULL pointer                                      *)

ASSUME InputAssumption ==
  \A s \in Inputs : s = NoString \/ s \in Seq(Nat \ {0})

VARIABLES
  unicode,        (* the argument                                          *)
  ptr,            (* the position that is read next, from 1                *)
  step,           (* "call", "first", "rest", "returned" or "overrun"      *)
  result          (* what the function returns; 0 before it does           *)

vars == <<unicode, ptr, step, result>>

-----------------------------------------------------------------------------
(***************************************************************************)
(* The macros of esch.h.                                                   *)
(***************************************************************************)
is_ascii(ch) == 0 <= ch /\ ch < 127

is_digit(ch) == \h30 <= ch /\ ch <= \h39

is_alpha(ch) == (\h41 <= ch /\ ch <= \h5A) \/ (\h61 <= ch /\ ch <= \h7A)

\* ! $ % & * + - . / : < = > ? @ ^ _ ~
is_extended_alphabetic(ch) ==
  ch \in {\h21, \h24, \h25, \h26, \h2A, \h2B, \h2D, \h2E, \h2F, \h3A, \h3C,
          \h3D, \h3E, \h3F, \h40, \h5E, \h5F, \h7E}

\* Plausible bug: only decimal digits of other scripts are looked for.
DecimalDigit(ch) ==
  IF is_ascii(ch) THEN is_digit(ch) ELSE is_range_nd(ch)

\* What an identifier must not begin with.
Number(ch) ==
  IF is_ascii(ch) THEN is_digit(ch)
  ELSE is_range_nd(ch) \/ is_range_no(ch) \/ is_range_nl(ch)

\* What may follow.
Subsequent(ch) ==
  IF is_ascii(ch)
  THEN is_digit(ch) \/ is_alpha(ch) \/ is_extended_alphabetic(ch)
  ELSE \/ is_range_lu(ch) \/ is_range_ll(ch) \/ is_range_lt(ch)
       \/ is_range_lm(ch) \/ is_range_lo(ch) \/ is_range_mn(ch)
       \/ is_range_mc(ch) \/ is_range_nd(ch) \/ is_range_nl(ch)
       \/ is_range_no(ch) \/ is_range_pd(ch) \/ is_range_pc(ch)
       \/ is_range_po(ch) \/ is_range_sc(ch) \/ is_range_sm(ch)
       \/ is_range_sk(ch) \/ is_range_so(ch) \/ is_range_co(ch)

-----------------------------------------------------------------------------
(***************************************************************************)
(* The scan.                                                               *)
(***************************************************************************)
Terminator == 0

\* *ptr, as long as ptr is inside the string.
Character ==
  IF ptr <= Len(unicode) THEN unicode[ptr] ELSE Terminator

InString == ptr <= Len(unicode) + 1

Returns(r) ==
  /\ step' = "returned"
  /\ result' = r
  /\ UNCHANGED <<unicode, ptr>>

Call ==
  /\ step = "call"
  /\ IF unicode = NoString
     THEN Returns(0)
     ELSE step' = "first" /\ UNCHANGED <<unicode, ptr, result>>

\* Plausible bug: two positions at once.
BeyondNext == ptr + 2

\* ++ptr
NextPosition == ptr + 1

\* The first character.  That it is the terminator is not noticed.
FirstNumber ==
  /\ step = "first" /\ Number(Character)
  /\ Returns(0)

FirstAccepted ==
  /\ step = "first" /\ ~Number(Character)
  /\ step' = "rest"
  /\ ptr' = NextPosition
  /\ UNCHANGED <<unicode, result>>

AtEnd ==
  /\ step = "rest" /\ InString /\ Character = Terminator
  /\ Returns(1)

Accepted ==
  /\ step = "rest" /\ InString /\ Character # Terminator
  /\ Subsequent(Character)
  /\ ptr' = NextPosition
  /\ UNCHANGED <<unicode, step, result>>

Rejected ==
  /\ step = "rest" /\ InString /\ Character # Terminator
  /\ ~Subsequent(Character)
  /\ Returns(0)

\* The pointer has left the string: what it reads there, and so all that
\* follows, is not known.
ReadBehind ==
  /\ step = "rest" /\ ~InString
  /\ step' = "overrun"
  /\ UNCHANGED <<unicode, ptr, result>>

-----------------------------------------------------------------------------
Init ==
  /\ unicode \in Inputs
  /\ ptr = 1
  /\ step = "call"
  /\ result = 0

Next ==
  \/ Call \/ FirstNumber \/ FirstAccepted
  \/ AtEnd \/ Accepted \/ Rejected \/ ReadBehind

Spec == Init /\ [][Next]_vars

-----------------------------------------------------------------------------
(***************************************************************************)
(* Properties.                                                             *)
(***************************************************************************)

\* Every variable has its type.
TypeOK ==
  /\ unicode # NoString => unicode \in Seq(Nat)
  /\ ptr \in 1 .. (IF unicode = NoString THEN 1 ELSE Len(unicode) + 2)
  /\ step \in {"call", "first", "rest", "returned", "overrun"}
  /\ result \in {0, 1}

\* The two tables of a category belong together: they are of one length, and no
\* range ends before it begins.
TablesPaired ==
  \A c \in Categories :
    LET low == Tables[c][1]
        up  == Tables[c][2]
    IN  /\ low \in Seq(Nat) /\ up \in Seq(Nat)
        /\ Len(low) = Len(up)
        /\ \A n \in DOMAIN low : low[n] <= up[n]

\* No range of a category begins inside a range of another.
TablesDisjoint ==
  \A c, d \in Categories :
    c # d => \A n \in DOMAIN Tables[c][1] :
               ~InRanges(Tables[c][1][n], Tables[d][1], Tables[d][2])

\* Whether a character is in a table, without its pairing: more ranges have
\* begun at it than have ended before it.
Begun(ch, low) == Cardinality({n \in DOMAIN low : low[n] <= ch})
Ended(ch, up)  == Cardinality({n \in DOMAIN up : up[n] < ch})

Inside(ch, cats) ==
  \E c \in cats : Begun(ch, Tables[c][1]) > Ended(ch, Tables[c][2])

\* Of the ASCII characters, which all have a category of their own in the
\* tables, these delimiters and quotes do not follow in an identifier.
Delimiters == {\h22, \h23, \h27, \h28, \h29, \h2C, \h3B, \h5B, \h5C, \h5D,
               \h60, \h7B, \h7C, \h7D}

IsIdentifier(s) ==
  /\ ~Inside(s[1], {"nd", "nl", "no"})
  /\ \A p \in 2 .. Len(s) : s[p] \notin Delimiters /\ Inside(s[p], Categories)

\* The macros of esch.h, which judge ASCII characters without the tables, say
\* of each what the tables say.
AsciiAgrees ==
  \A ch \in 1 .. 126 :
    /\ Number(ch) <=> Inside(ch, {"nd", "nl", "no"})
    /\ Subsequent(ch) <=> ch \notin Delimiters /\ Inside(ch, Categories)

\* The generated tables of esch_range.c and the macros of esch.h fit together,
\* which is all that the scan takes from them.  This is about no variable: it
\* is stated for one state only, the call with NULL, to be computed once.
TablesFit ==
  step = "call" /\ unicode = NoString
    => TablesPaired /\ TablesDisjoint /\ AsciiAgrees

\* A string that is not empty gets the verdict that its characters deserve:
\* the loop skips none, the ASCII macros agree with the tables, low and up
\* bounds of a table have not slipped against each other, and no range is
\* missed by a search.
VerdictRight ==
  (step = "returned" /\ unicode # NoString)
    => (result = 1 <=> IsIdentifier(unicode))

\* The scan reads behind the terminator of no string but the empty one: there
\* the first character is the terminator, and the loop starts after it.
OverrunsOnlyEmpty == (step = "overrun") => (unicode = <<>>)
=============================================================================
