------------------------ MODULE EschIdentifierProofs ------------------------
(***************************************************************************)
(* Proofs about EschIdentifier: where the pointer of the scan may be, for  *)
(* strings of any length and any characters; that the verdict is that of   *)
(* the macros on all the characters; and that each pair of tables belongs  *)
(* together and the macros agree with the tables on ASCII, so that the     *)
(* verdict is the right one.  That the ranges of the categories are        *)
(* disjoint is a fact about fixed data, which TLC computes.                *)
(***************************************************************************)
EXTENDS EschIdentifier, FiniteSetTheorems, SequenceTheorems, TLAPS

\* The string is one the program may ask about, and its characters are not
\* the terminator.
InputOK ==
  /\ unicode \in Inputs
  /\ unicode # NoString =>
       /\ Len(unicode) \in Nat
       /\ unicode \in Seq(Nat)
       /\ \A p \in 1 .. Len(unicode) : unicode[p] # Terminator

\* Only the empty string lets the pointer leave it.
PointerOK ==
  /\ ptr \in Nat
  /\ step \in {"first", "rest", "overrun"} => unicode # NoString
  /\ step \in {"call", "first"} => ptr = 1
  /\ unicode = NoString => ptr = 1
  /\ unicode # NoString =>
       /\ ptr \in 1 .. Len(unicode) + 2
       /\ ptr = Len(unicode) + 2 => unicode = <<>>
  /\ step = "overrun" => unicode = <<>>
  /\ step = "rest" => ptr > 1

\* What the characters before the pointer are.
ReadSoFar ==
  step = "rest" =>
    /\ Len(unicode) > 0 => ~Number(unicode[1])
    /\ \A p \in 2 .. ptr - 1 : p <= Len(unicode) => Subsequent(unicode[p])

\* What the macros say of a string, character by character.
Accepts(s) ==
  /\ ~Number(s[1])
  /\ \A p \in 2 .. Len(s) : Subsequent(s[p])

\* A verdict is about the whole string, not about the part that was read.
VerdictOfAll ==
  (step = "returned" /\ unicode # NoString)
    => /\ unicode # <<>>
       /\ result = 1 <=> Accepts(unicode)

ScanInv == TypeOK /\ InputOK /\ PointerOK /\ ReadSoFar /\ VerdictOfAll

-----------------------------------------------------------------------------
\* 0 is no digit: an empty string passes the test of its first character.
LEMMA TerminatorIsNoNumber == ~Number(Terminator)
BY DEF Number, Terminator, is_ascii, is_digit

LEMMA ScanStart == Init => ScanInv
<1> SUFFICES ASSUME Init PROVE ScanInv
  OBVIOUS
<1> USE DEF Init
<1>1. InputOK
  <2>1. unicode # NoString => unicode \in Seq(Nat \ {0})
    BY InputAssumption
  <2>2. QED
    BY <2>1 DEF InputOK, Terminator
<1>2. TypeOK
  BY <1>1 DEF TypeOK, InputOK
<1>3. PointerOK
  BY <1>1 DEF PointerOK, InputOK
<1>4. ReadSoFar /\ VerdictOfAll
  BY DEF ReadSoFar, VerdictOfAll
<1>5. QED
  BY <1>1, <1>2, <1>3, <1>4 DEF ScanInv

\* The character at the pointer.
LEMMA CharacterRead ==
  ASSUME ScanInv, unicode # NoString
  PROVE  /\ Len(unicode) \in Nat /\ ptr \in 1 .. Len(unicode) + 2
         /\ Character = Terminator <=> ptr > Len(unicode)
         /\ ptr <= Len(unicode) => Character = unicode[ptr]
BY DEF ScanInv, InputOK, PointerOK, Character

LEMMA ScanStep == ScanInv /\ [Next]_vars => ScanInv'
<1> SUFFICES ASSUME ScanInv, [Next]_vars PROVE ScanInv'
  OBVIOUS
<1> USE DEF ScanInv
<1>1. CASE UNCHANGED vars
  BY <1>1 DEF vars, TypeOK, InputOK, PointerOK, ReadSoFar, VerdictOfAll
<1>2. CASE Call
  BY <1>2 DEF Call, Returns, TypeOK, InputOK, PointerOK, ReadSoFar,
     VerdictOfAll
<1>3. CASE FirstNumber
  <2>1. unicode # NoString /\ ptr = 1 /\ Number(Character)
    BY <1>3 DEF FirstNumber, PointerOK
  <2>2. ptr <= Len(unicode) /\ Number(unicode[1])
    BY <2>1, CharacterRead, TerminatorIsNoNumber
  <2>3. unicode # <<>>
    BY <2>1, <2>2
  <2>4. VerdictOfAll'
    BY <1>3, <2>2, <2>3 DEF FirstNumber, Returns, VerdictOfAll, Accepts
  <2>5. QED
    BY <1>3, <2>4 DEF FirstNumber, Returns, TypeOK, InputOK, PointerOK,
       ReadSoFar
<1>4. CASE FirstAccepted
  <2>1. /\ unicode # NoString /\ ptr = 1 /\ ~Number(Character)
        /\ step' = "rest" /\ ptr' = 2 /\ UNCHANGED <<unicode, result>>
    BY <1>4 DEF FirstAccepted, PointerOK, NextPosition
  <2>2. /\ Len(unicode) \in Nat
        /\ 1 <= Len(unicode) => Character = unicode[1]
    BY <2>1, CharacterRead
  <2>3. TypeOK' /\ InputOK'
    BY <2>1, <2>2 DEF TypeOK, InputOK
  <2>4. PointerOK'
    <3>1. 2 = Len(unicode) + 2 => unicode = <<>>
      BY <2>1, <2>2 DEF InputOK
    <3>2. QED
      BY <2>1, <2>2, <3>1 DEF PointerOK
  <2>5. ReadSoFar' /\ VerdictOfAll'
    BY <2>1, <2>2 DEF ReadSoFar, VerdictOfAll
  <2>6. QED
    BY <2>3, <2>4, <2>5
<1>5. CASE AtEnd
  <2>1. /\ unicode # NoString /\ ptr > 1 /\ InString
        /\ Character = Terminator /\ step = "rest"
        /\ step' = "returned" /\ result' = 1 /\ UNCHANGED <<unicode, ptr>>
    BY <1>5 DEF AtEnd, Returns, PointerOK
  <2>2. Len(unicode) \in Nat /\ ptr = Len(unicode) + 1 /\ Len(unicode) > 0
    BY <2>1, CharacterRead DEF InString
  <2>3. Accepts(unicode) /\ unicode # <<>>
    BY <2>1, <2>2 DEF ReadSoFar, Accepts
  <2>4. QED
    BY <2>1, <2>3 DEF TypeOK, InputOK, PointerOK, ReadSoFar, VerdictOfAll
<1>6. CASE Accepted
  <2>1. /\ unicode # NoString /\ ptr > 1 /\ step = "rest"
        /\ Character # Terminator /\ Subsequent(Character)
        /\ ptr' = ptr + 1 /\ UNCHANGED <<unicode, step, result>>
    BY <1>6 DEF Accepted, PointerOK, NextPosition
  <2>2. /\ Len(unicode) \in Nat /\ ptr <= Len(unicode) /\ ptr \in Nat
        /\ Character = unicode[ptr]
    BY <2>1, CharacterRead DEF PointerOK
  <2>3. TypeOK' /\ InputOK' /\ PointerOK'
    BY <2>1, <2>2 DEF TypeOK, InputOK, PointerOK
  <2>4. ReadSoFar'
    BY <2>1, <2>2 DEF ReadSoFar
  <2>5. VerdictOfAll'
    BY <2>1 DEF VerdictOfAll
  <2>6. QED
    BY <2>3, <2>4, <2>5
<1>7. CASE Rejected
  <2>1. /\ unicode # NoString /\ ptr > 1 /\ step = "rest"
        /\ Character # Terminator /\ ~Subsequent(Character)
        /\ step' = "returned" /\ result' = 0 /\ UNCHANGED <<unicode, ptr>>
    BY <1>7 DEF Rejected, Returns, PointerOK
  <2>2. /\ Len(unicode) \in Nat /\ ptr <= Len(unicode) /\ ptr \in Nat
        /\ Character = unicode[ptr]
    BY <2>1, CharacterRead DEF PointerOK
  <2>3. ~Accepts(unicode) /\ unicode # <<>>
    BY <2>1, <2>2 DEF Accepts
  <2>4. QED
    BY <2>1, <2>3 DEF TypeOK, InputOK, PointerOK, ReadSoFar, VerdictOfAll
<1>8. CASE ReadBehind
  <2>1. /\ unicode # NoString /\ ~InString
        /\ step' = "overrun" /\ UNCHANGED <<unicode, ptr, result>>
    BY <1>8 DEF ReadBehind, PointerOK
  <2>2. ptr = Len(unicode) + 2 /\ unicode = <<>>
    BY <2>1, CharacterRead DEF InString, PointerOK
  <2>3. QED
    BY <2>1, <2>2 DEF TypeOK, InputOK, PointerOK, ReadSoFar, VerdictOfAll
<1>9. QED
  BY <1>1, <1>2, <1>3, <1>4, <1>5, <1>6, <1>7, <1>8 DEF Next

\* The inductive invariant of the scan, for any strings.
THEOREM ScanCorrect == Spec => []ScanInv
<1>1. QED
  BY ScanStart, ScanStep, PTL DEF Spec

\* The variables of the scan keep their types.
THEOREM ScanTypes == Spec => []TypeOK
<1>1. ScanInv => TypeOK
  BY DEF ScanInv
<1>2. QED
  BY <1>1, ScanCorrect, PTL

\* However long a string is, the scan reads behind its terminator only if it
\* is empty.
THEOREM OnlyEmptyOverrun == Spec => []OverrunsOnlyEmpty
<1>1. ScanInv => OverrunsOnlyEmpty
  BY DEF ScanInv, PointerOK, OverrunsOnlyEmpty
<1>2. QED
  BY <1>1, ScanCorrect, PTL

\* A verdict of the scan is about every character of the string: the first is
\* no number and all that follow may follow, as the macros judge them.
THEOREM VerdictOfAllCharacters == Spec => []VerdictOfAll
<1>1. ScanInv => VerdictOfAll
  BY DEF ScanInv
<1>2. QED
  BY <1>1, ScanCorrect, PTL

-----------------------------------------------------------------------------
(***************************************************************************)
(* The tables themselves.  They are fixed data, which SMT reads part by    *)
(* part: the two tables of a category belong together, and which of the    *)
(* ASCII characters are in them, which the macros of esch.h have to know.  *)
(***************************************************************************)
\* The two tables of a category, or two parts of them, belong together.
Paired(low, up) ==
  /\ low \in Seq(Nat) /\ up \in Seq(Nat) /\ Len(low) = Len(up)
  /\ \A n \in DOMAIN low : low[n] <= up[n]

\* They do, and all their characters come after ASCII.
PairedLater(low, up) ==
  Paired(low, up) /\ \A n \in DOMAIN low : low[n] > 126

\* They do, and of the ASCII characters S are in them.
PairedAscii(low, up, S) ==
  Paired(low, up) /\ \A ch \in 1 .. 126 : InRanges(ch, low, up) <=> ch \in S

LEMMA PairedFacts ==
  ASSUME NEW low, NEW up, Paired(low, up)
  PROVE  /\ Len(low) \in Nat
         /\ DOMAIN low = 1 .. Len(low) /\ DOMAIN up = 1 .. Len(low)
         /\ \A n \in 1 .. Len(low) : low[n] \in Nat /\ up[n] \in Nat
<1>1. low \in Seq(Nat) /\ up \in Seq(Nat) /\ Len(low) = Len(up)
  BY DEF Paired
<1>2. /\ Len(low) \in Nat /\ DOMAIN low = 1 .. Len(low)
      /\ DOMAIN up = 1 .. Len(up)
  BY <1>1, LenProperties
<1>3. QED
  BY <1>1, <1>2, ElementOfSeq

\* A search goes over all the ranges.
LEMMA Search ==
  ASSUME NEW low, NEW up, Paired(low, up), NEW ch
  PROVE  InRanges(ch, low, up)
           <=> \E n \in 1 .. Len(low) : low[n] <= ch /\ ch <= up[n]
<1>1. DOMAIN up = 1 .. Len(low)
  BY PairedFacts
<1>2. QED
  BY <1>1 DEF InRanges

\* Only the first k ranges can hold an ASCII character, if the others begin
\* after them.
LEMMA AsciiPart ==
  ASSUME NEW low, NEW up, Paired(low, up), NEW k \in Nat, NEW b \in Nat,
         Len(low) = b, k <= b, \A n \in k + 1 .. b : low[n] > 126
  PROVE  \A ch \in 1 .. 126 :
           InRanges(ch, low, up) <=> \E n \in 1 .. k : low[n] <= ch /\ ch <= up[n]
<1> SUFFICES ASSUME NEW ch \in 1 .. 126
             PROVE  InRanges(ch, low, up)
                      <=> \E n \in 1 .. k : low[n] <= ch /\ ch <= up[n]
  OBVIOUS
<1>1. \A n \in 1 .. b : low[n] \in Nat
  BY PairedFacts
<1>2. InRanges(ch, low, up) <=> \E n \in 1 .. b : low[n] <= ch /\ ch <= up[n]
  BY Search
<1>4. ASSUME NEW n \in 1 .. b, low[n] <= ch PROVE n \in 1 .. k
  <2>1. CASE n <= k
    BY <1>1, <2>1
  <2>2. CASE ~(n <= k)
    <3>1. n \in k + 1 .. b
      BY <1>1, <2>2
    <3>2. low[n] > 126 /\ low[n] \in Nat
      BY <1>1, <3>1
    <3>3. QED
      BY <1>4, <3>2
  <2>3. QED
    BY <2>1, <2>2
<1>5. \A n \in 1 .. k : n \in 1 .. b
  OBVIOUS
<1>6. QED
  BY <1>2, <1>4, <1>5

LEMMA LaterIsAsciiFree ==
  ASSUME NEW low, NEW up, PairedLater(low, up)
  PROVE  PairedAscii(low, up, {})
<1>1. Paired(low, up) /\ \A n \in DOMAIN low : low[n] > 126
  BY DEF PairedLater
<1>2. PICK b \in Nat : Len(low) = b /\ DOMAIN low = 1 .. b
  BY <1>1, PairedFacts
<1>3. 0 \in Nat /\ 0 <= b /\ \A n \in 0 + 1 .. b : low[n] > 126
  BY <1>1, <1>2
<1>4. \A ch \in 1 .. 126 :
        InRanges(ch, low, up) <=> \E n \in 1 .. 0 : low[n] <= ch /\ ch <= up[n]
  BY <1>1, <1>2, <1>3, AsciiPart
<1>5. \A n \in 1 .. 0 : FALSE
  OBVIOUS
<1>6. QED
  BY <1>1, <1>4, <1>5 DEF PairedAscii

\* What two tables have is what their parts have.
LEMMA PartsPaired ==
  ASSUME NEW l, NEW u, Paired(l, u), NEW m, NEW v, Paired(m, v)
  PROVE  /\ Paired(l \o m, u \o v)
         /\ \A ch \in Nat : InRanges(ch, l \o m, u \o v)
                              <=> InRanges(ch, l, u) \/ InRanges(ch, m, v)
<1> DEFINE a == Len(l)
           b == Len(m)
           low == l \o m
           up == u \o v
<1>1. /\ l \in Seq(Nat) /\ u \in Seq(Nat) /\ Len(u) = a
      /\ m \in Seq(Nat) /\ v \in Seq(Nat) /\ Len(v) = b
  BY DEF Paired
<1>2. a \in Nat /\ b \in Nat
  BY PairedFacts
<1>3. /\ \A n \in 1 .. a : l[n] <= u[n]
      /\ \A n \in 1 .. b : m[n] <= v[n]
  BY PairedFacts DEF Paired
<1>4. /\ low \in Seq(Nat) /\ Len(low) = a + b
      /\ \A n \in 1 .. a + b : low[n] = IF n <= a THEN l[n] ELSE m[n - a]
  BY <1>1, ConcatProperties
<1>5. /\ up \in Seq(Nat) /\ Len(up) = a + b
      /\ \A n \in 1 .. a + b : up[n] = IF n <= a THEN u[n] ELSE v[n - a]
  <2>1. /\ up \in Seq(Nat) /\ Len(up) = Len(u) + Len(v)
        /\ \A n \in 1 .. Len(u) + Len(v) :
              up[n] = IF n <= Len(u) THEN u[n] ELSE v[n - Len(u)]
    BY <1>1, ConcatProperties
  <2>2. QED
    BY <1>1, <2>1
<1>6. \A ch : /\ InRanges(ch, l, u)
                   <=> \E n \in 1 .. a : l[n] <= ch /\ ch <= u[n]
              /\ InRanges(ch, m, v)
                   <=> \E n \in 1 .. b : m[n] <= ch /\ ch <= v[n]
  BY Search
<1> HIDE DEF a, b, low, up
<1>7. DOMAIN low = 1 .. a + b
  BY <1>4, LenProperties
<1>8. /\ \A n \in 1 .. a : n \in 1 .. a + b /\ low[n] = l[n] /\ up[n] = u[n]
      /\ \A n \in 1 .. b :
           a + n \in 1 .. a + b /\ low[a + n] = m[n] /\ up[a + n] = v[n]
  <2>1. ASSUME NEW n \in 1 .. b
        PROVE  a + n \in 1 .. a + b /\ ~(a + n <= a) /\ (a + n) - a = n
    BY <1>2
  <2>2. ASSUME NEW n \in 1 .. a PROVE n \in 1 .. a + b /\ n <= a
    BY <1>2
  <2>3. QED
    BY <1>4, <1>5, <2>1, <2>2
<1>9. ASSUME NEW n \in 1 .. a + b
      PROVE  n \in 1 .. a \/ \E k \in 1 .. b : n = a + k
  <2>1. CASE n <= a
    BY <1>2, <2>1
  <2>2. CASE ~(n <= a)
    <3>1. n - a \in 1 .. b /\ n = a + (n - a)
      BY <1>2, <2>2
    <3>2. QED
      BY <3>1
  <2>3. QED
    BY <2>1, <2>2
<1>10. Paired(low, up)
  <2>1. ASSUME NEW n \in 1 .. a + b PROVE low[n] <= up[n]
    BY <1>3, <1>8, <1>9
  <2>2. QED
    BY <1>4, <1>5, <1>7, <2>1 DEF Paired
<1>11. ASSUME NEW ch \in Nat
       PROVE  InRanges(ch, low, up) <=> InRanges(ch, l, u) \/ InRanges(ch, m, v)
  <2>1. InRanges(ch, low, up)
          <=> \E n \in 1 .. a + b : low[n] <= ch /\ ch <= up[n]
    BY <1>4, <1>10, Search
  <2>2. ASSUME NEW n \in 1 .. a + b, low[n] <= ch /\ ch <= up[n]
        PROVE  InRanges(ch, l, u) \/ InRanges(ch, m, v)
    BY <1>6, <1>8, <1>9, <2>2
  <2>3. ASSUME InRanges(ch, l, u) \/ InRanges(ch, m, v)
        PROVE  \E n \in 1 .. a + b : low[n] <= ch /\ ch <= up[n]
    BY <1>6, <1>8, <2>3
  <2>4. QED
    BY <2>1, <2>2, <2>3
<1>12. QED
  BY <1>10, <1>11 DEF low, up

LEMMA PartsAscii ==
  ASSUME NEW l, NEW u, NEW m, NEW v, NEW S,
         PairedAscii(l, u, S), PairedLater(m, v)
  PROVE  PairedAscii(l \o m, u \o v, S)
<1>1. PairedAscii(m, v, {})
  BY LaterIsAsciiFree
<1>2. QED
  BY <1>1, PartsPaired DEF PairedAscii

\* Two tables belong together that do so position by position.
LEMMA PairedBy ==
  ASSUME NEW low \in Seq(Nat), NEW up \in Seq(Nat), NEW b \in Nat,
         Len(low) = b, Len(up) = b, \A n \in 1 .. b : low[n] <= up[n]
  PROVE  Paired(low, up) /\ DOMAIN low = 1 .. b
<1>1. DOMAIN low = 1 .. b
  BY LenProperties
<1>2. QED
  BY <1>1 DEF Paired

\* A table whose first range alone is in ASCII.
LEMMA FirstIsAscii ==
  ASSUME NEW low \in Seq(Nat), NEW up \in Seq(Nat), NEW b \in Nat \ {0},
         Len(low) = b, Len(up) = b,
         NEW first \in 1 .. 126, NEW last \in 1 .. 126, first <= last,
         low[1] = first, up[1] = last,
         \A n \in 2 .. b : low[n] <= up[n] /\ low[n] > 126
  PROVE  PairedAscii(low, up, first .. last)
<1>1. \A n \in 1 .. b : low[n] <= up[n]
  <2>1. \A n \in 1 .. b : n = 1 \/ n \in 2 .. b
    OBVIOUS
  <2>2. QED
    BY <2>1
<1>2. Paired(low, up)
  BY <1>1, PairedBy
<1>3. 1 \in Nat /\ 1 <= b /\ \A n \in 1 + 1 .. b : low[n] > 126
  OBVIOUS
<1>4. \A ch \in 1 .. 126 :
        InRanges(ch, low, up) <=> \E n \in 1 .. 1 : low[n] <= ch /\ ch <= up[n]
  BY <1>2, <1>3, AsciiPart
<1>5. \A ch \in 1 .. 126 :
        (\E n \in 1 .. 1 : low[n] <= ch /\ ch <= up[n]) <=> ch \in first .. last
  OBVIOUS
<1>6. QED
  BY <1>2, <1>4, <1>5 DEF PairedAscii

\* The tables that are written in one piece and hold no ASCII character.
LEMMA LaterTables ==
  /\ PairedLater(CoLow, CoUp) /\ PairedLater(LmLow, LmUp)
  /\ PairedLater(LtLow, LtUp) /\ PairedLater(McLow, McUp)
  /\ PairedLater(NlLow, NlUp) /\ PairedLater(NoLow, NoUp)
  /\ PairedLater(SoLow, SoUp)
<1>1. PairedLater(CoLow, CoUp)
  BY SMTT(60) DEF CoLow, CoUp, Paired, PairedLater
<1>2. PairedLater(LmLow, LmUp)
  BY SMTT(60) DEF LmLow, LmUp, Paired, PairedLater
<1>3. PairedLater(LtLow, LtUp)
  BY SMTT(60) DEF LtLow, LtUp, LtUpShort, Paired, PairedLater
<1>4. PairedLater(McLow, McUp)
  BY SMTT(60) DEF McLow, McUp, Paired, PairedLater
<1>5. PairedLater(NlLow, NlUp)
  BY SMTT(60) DEF NlLow, NlUp, Paired, PairedLater
<1>6. PairedLater(NoLow, NoUp)
  BY SMTT(60) DEF NoLow, NoUp, Paired, PairedLater
<1>7. PairedLater(SoLow, SoUp)
  BY SMTT(60) DEF SoLow, SoUp, Paired, PairedLater
<1>8. QED
  BY <1>1, <1>2, <1>3, <1>4, <1>5, <1>6, <1>7

\* The parts of the long tables but for the Latin letters hold none either.
LEMMA LaterParts ==
  /\ PairedLater(LlLowGreek, LlUpGreek)
  /\ PairedLater(LlLowExtended, LlUpExtended)
  /\ PairedLater(LlLowCoptic, LlUpCoptic)
  /\ PairedLater(LlLowLater, LlUpLater)
  /\ PairedLater(LlLowPlanes, LlUpPlanes)
  /\ PairedLater(LoLowEarly, LoUpEarly)
  /\ PairedLater(LoLowMiddle, LoUpMiddle)
  /\ PairedLater(LoLowLater, LoUpLater)
  /\ PairedLater(LoLowPlanes, LoUpPlanes)
  /\ PairedLater(LuLowGreek, LuUpGreek)
  /\ PairedLater(LuLowExtended, LuUpExtended)
  /\ PairedLater(LuLowCoptic, LuUpCoptic)
  /\ PairedLater(LuLowLater, LuUpLater)
  /\ PairedLater(LuLowPlanes, LuUpPlanes)
  /\ PairedLater(MnLowEarly, MnUpEarly)
  /\ PairedLater(MnLowLater, MnUpLater)
<1>1. PairedLater(LlLowGreek, LlUpGreek)
  <2>1. /\ LlLowGreek \in Seq(Nat) /\ Len(LlLowGreek) = 124
        /\ LlUpGreek \in Seq(Nat) /\ Len(LlUpGreek) = 124
    BY SMTT(60) DEF LlLowGreek, LlUpGreek, Every
  <2>2. \A n \in 1 .. 42 : LlLowGreek[n] <= LlUpGreek[n] /\ LlLowGreek[n] > 126
    BY SMTT(60) DEF LlLowGreek, LlUpGreek, Every
  <2>3. \A n \in 43 .. 69 : LlLowGreek[n] <= LlUpGreek[n] /\ LlLowGreek[n] > 126
    BY SMTT(60) DEF LlLowGreek, LlUpGreek, Every
  <2>4. \A n \in 70 .. 120 : LlLowGreek[n] <= LlUpGreek[n] /\ LlLowGreek[n] > 126
    BY SMTT(60) DEF LlLowGreek, LlUpGreek, Every
  <2>5. \A n \in 121 .. 124 : LlLowGreek[n] <= LlUpGreek[n] /\ LlLowGreek[n] > 126
    BY SMTT(60) DEF LlLowGreek, LlUpGreek, Every
  <2>6. /\ 124 \in Nat
        /\ \A n \in 1 .. 124 : LlLowGreek[n] <= LlUpGreek[n]
        /\ \A n \in 1 .. 124 : LlLowGreek[n] > 126
    BY <2>2, <2>3, <2>4, <2>5
  <2>7. Paired(LlLowGreek, LlUpGreek) /\ DOMAIN LlLowGreek = 1 .. 124
    BY <2>1, <2>6, PairedBy
  <2>8. QED
    BY <2>6, <2>7 DEF PairedLater
<1>2. PairedLater(LlLowExtended, LlUpExtended)
  BY SMTT(60) DEF LlLowExtended, LlUpExtended, Paired, PairedLater, Every
<1>3. PairedLater(LlLowCoptic, LlUpCoptic)
  BY SMTT(60) DEF LlLowCoptic, LlUpCoptic, Paired, PairedLater, Every
<1>4. PairedLater(LlLowLater, LlUpLater)
  BY SMTT(60) DEF LlLowLater, LlUpLater, Paired, PairedLater, Every
<1>5. PairedLater(LlLowPlanes, LlUpPlanes)
  BY SMTT(60) DEF LlLowPlanes, LlUpPlanes, Paired, PairedLater, Every
<1>6. PairedLater(LoLowEarly, LoUpEarly)
  BY SMTT(60) DEF LoLowEarly, LoUpEarly, Paired, PairedLater, Every
<1>7. PairedLater(LoLowMiddle, LoUpMiddle)
  BY SMTT(60) DEF LoLowMiddle, LoUpMiddle, Paired, PairedLater, Every
<1>8. PairedLater(LoLowLater, LoUpLater)
  BY SMTT(60) DEF LoLowLater, LoUpLater, Paired, PairedLater
<1>9. PairedLater(LoLowPlanes, LoUpPlanes)
  BY SMTT(60) DEF LoLowPlanes, LoUpPlanes, Paired, PairedLater, Every
<1>10. PairedLater(LuLowGreek, LuUpGreek)
  BY SMTT(60) DEF LuLowGreek, LuUpGreek, Paired, PairedLater, Every
<1>11. PairedLater(LuLowExtended, LuUpExtended)
  BY SMTT(60) DEF LuLowExtended, LuUpExtended, Paired, PairedLater, Every
<1>12. PairedLater(LuLowCoptic, LuUpCoptic)
  BY SMTT(60) DEF LuLowCoptic, LuUpCoptic, Paired, PairedLater, Every
<1>13. PairedLater(LuLowLater, LuUpLater)
  BY SMTT(60) DEF LuLowLater, LuUpLater, Paired, PairedLater, Every
<1>14. PairedLater(LuLowPlanes, LuUpPlanes)
  BY SMTT(60) DEF LuLowPlanes, LuUpPlanes, Paired, PairedLater, Every
<1>15. PairedLater(MnLowEarly, MnUpEarly)
  BY SMTT(60) DEF MnLowEarly, MnUpEarly, Paired, PairedLater
<1>16. PairedLater(MnLowLater, MnUpLater)
  BY SMTT(60) DEF MnLowLater, MnUpLater, Paired, PairedLater
<1>17. QED
  BY <1>1, <1>2, <1>3, <1>4, <1>5, <1>6, <1>7, <1>8, <1>9, <1>10, <1>11, <1>12,
     <1>13, <1>14, <1>15, <1>16

\* The Latin letters: the first range of either case is that of ASCII.
LEMMA LatinTables ==
  /\ PairedAscii(LlLowLatin, LlUpLatin, \h61 .. \h7A)
  /\ PairedAscii(LuLowLatin, LuUpLatin, \h41 .. \h5A)
<1>1. PairedAscii(LlLowLatin, LlUpLatin, \h61 .. \h7A)
  <2>1. /\ LlLowLatin \in Seq(Nat) /\ Len(LlLowLatin) = 145
        /\ LlUpLatin \in Seq(Nat) /\ Len(LlUpLatin) = 145
    BY SMTT(60) DEF LlLowLatin, LlUpLatin, Every
  <2>2. LlLowLatin[1] = \h61 /\ LlUpLatin[1] = \h7A
    BY SMTT(60) DEF LlLowLatin, LlUpLatin, Every
  <2>3. \A n \in 2 .. 63 : LlLowLatin[n] <= LlUpLatin[n] /\ LlLowLatin[n] > 126
    BY SMTT(60) DEF LlLowLatin, LlUpLatin, Every
  <2>4. \A n \in 64 .. 87 : LlLowLatin[n] <= LlUpLatin[n] /\ LlLowLatin[n] > 126
    BY SMTT(60) DEF LlLowLatin, LlUpLatin, Every
  <2>5. \A n \in 88 .. 107 : LlLowLatin[n] <= LlUpLatin[n] /\ LlLowLatin[n] > 126
    BY SMTT(60) DEF LlLowLatin, LlUpLatin, Every
  <2>6. \A n \in 108 .. 145 : LlLowLatin[n] <= LlUpLatin[n] /\ LlLowLatin[n] > 126
    BY SMTT(60) DEF LlLowLatin, LlUpLatin, Every
  <2> DEFINE first == \h61
             last == \h7A
             b == 145
  <2>7. /\ b \in Nat \ {0} /\ first \in 1 .. 126 /\ last \in 1 .. 126
        /\ first <= last /\ LlLowLatin[1] = first /\ LlUpLatin[1] = last
        /\ LlLowLatin \in Seq(Nat) /\ Len(LlLowLatin) = b
        /\ LlUpLatin \in Seq(Nat) /\ Len(LlUpLatin) = b
        /\ \A n \in 2 .. b : LlLowLatin[n] <= LlUpLatin[n] /\ LlLowLatin[n] > 126
    BY <2>1, <2>2, <2>3, <2>4, <2>5, <2>6
  <2> HIDE DEF first, last, b
  <2>8. PairedAscii(LlLowLatin, LlUpLatin, first .. last)
    BY <2>7, FirstIsAscii
  <2>9. QED
    BY <2>8 DEF first, last
<1>2. PairedAscii(LuLowLatin, LuUpLatin, \h41 .. \h5A)
  <2>1. /\ LuLowLatin \in Seq(Nat) /\ Len(LuLowLatin) = 144
        /\ LuUpLatin \in Seq(Nat) /\ Len(LuUpLatin) = 144
    BY SMTT(60) DEF LuLowLatin, LuUpLatin, Every
  <2>2. LuLowLatin[1] = \h41 /\ LuUpLatin[1] = \h5A
    BY SMTT(60) DEF LuLowLatin, LuUpLatin, Every
  <2>3. \A n \in 2 .. 63 : LuLowLatin[n] <= LuUpLatin[n] /\ LuLowLatin[n] > 126
    BY SMTT(60) DEF LuLowLatin, LuUpLatin, Every
  <2>4. \A n \in 64 .. 87 : LuLowLatin[n] <= LuUpLatin[n] /\ LuLowLatin[n] > 126
    BY SMTT(60) DEF LuLowLatin, LuUpLatin, Every
  <2>5. \A n \in 88 .. 107 : LuLowLatin[n] <= LuUpLatin[n] /\ LuLowLatin[n] > 126
    BY SMTT(60) DEF LuLowLatin, LuUpLatin, Every
  <2>6. \A n \in 108 .. 144 : LuLowLatin[n] <= LuUpLatin[n] /\ LuLowLatin[n] > 126
    BY SMTT(60) DEF LuLowLatin, LuUpLatin, Every
  <2> DEFINE first == \h41
             last == \h5A
             b == 144
  <2>7. /\ b \in Nat \ {0} /\ first \in 1 .. 126 /\ last \in 1 .. 126
        /\ first <= last /\ LuLowLatin[1] = first /\ LuUpLatin[1] = last
        /\ LuLowLatin \in Seq(Nat) /\ Len(LuLowLatin) = b
        /\ LuUpLatin \in Seq(Nat) /\ Len(LuUpLatin) = b
        /\ \A n \in 2 .. b : LuLowLatin[n] <= LuUpLatin[n] /\ LuLowLatin[n] > 126
    BY <2>1, <2>2, <2>3, <2>4, <2>5, <2>6
  <2> HIDE DEF first, last, b
  <2>8. PairedAscii(LuLowLatin, LuUpLatin, first .. last)
    BY <2>7, FirstIsAscii
  <2>9. QED
    BY <2>8 DEF first, last
<1>3. QED
  BY <1>1, <1>2

\* The other tables that hold ASCII characters: digits, punctuation, symbols.
LEMMA AsciiTables ==
  /\ PairedAscii(NdLow, NdUp, \h30 .. \h39)
  /\ PairedAscii(PcLow, PcUp, {\h5F})
  /\ PairedAscii(PdLow, PdUp, {\h2D})
  /\ PairedAscii(PoLow, PoUp, {\h21, \h22, \h23, \h25, \h26, \h27, \h2A, \h2C,
                               \h2E, \h2F, \h3A, \h3B, \h3F, \h40, \h5C})
  /\ PairedAscii(ScLow, ScUp, {\h24})
  /\ PairedAscii(SkLow, SkUp, {\h5E, \h60})
  /\ PairedAscii(SmLow, SmUp, {\h2B, \h3C, \h3D, \h3E, \h7C, \h7E})
<1>1. PairedAscii(NdLow, NdUp, \h30 .. \h39)
  <2>1. Paired(NdLow, NdUp) /\ Len(NdLow) = 42
    BY SMTT(60) DEF NdLow, NdUp, Every, Paired
  <2>2. \A n \in 1 + 1 .. 42 : NdLow[n] > 126
    BY SMTT(60) DEF NdLow, Every
  <2>3. \A ch \in 1 .. 126 : InRanges(ch, NdLow, NdUp)
           <=> \E n \in 1 .. 1 : NdLow[n] <= ch /\ ch <= NdUp[n]
    <3> DEFINE k == 1
               b == 42
    <3>1. /\ Paired(NdLow, NdUp) /\ Len(NdLow) = b
          /\ k \in Nat /\ b \in Nat /\ k <= b
          /\ \A n \in k + 1 .. b : NdLow[n] > 126
      BY <2>1, <2>2
    <3> HIDE DEF k, b
    <3>2. \A ch \in 1 .. 126 : InRanges(ch, NdLow, NdUp)
             <=> \E n \in 1 .. k : NdLow[n] <= ch /\ ch <= NdUp[n]
      BY <3>1, AsciiPart
    <3>3. QED
      BY <3>2 DEF k
  <2>4. \A ch \in 1 .. 126 :
           (\E n \in 1 .. 1 : NdLow[n] <= ch /\ ch <= NdUp[n])
              <=> ch \in \h30 .. \h39
    BY SMTT(60) DEF NdLow, NdUp, Every
  <2>5. QED
    BY <2>1, <2>3, <2>4 DEF PairedAscii
<1>2. PairedAscii(PcLow, PcUp, {\h5F})
  <2>1. Paired(PcLow, PcUp) /\ Len(PcLow) = 6
    BY SMTT(60) DEF PcLow, PcUp, Paired
  <2>2. \A n \in 1 + 1 .. 6 : PcLow[n] > 126
    BY SMTT(60) DEF PcLow
  <2>3. \A ch \in 1 .. 126 : InRanges(ch, PcLow, PcUp)
           <=> \E n \in 1 .. 1 : PcLow[n] <= ch /\ ch <= PcUp[n]
    <3> DEFINE k == 1
               b == 6
    <3>1. /\ Paired(PcLow, PcUp) /\ Len(PcLow) = b
          /\ k \in Nat /\ b \in Nat /\ k <= b
          /\ \A n \in k + 1 .. b : PcLow[n] > 126
      BY <2>1, <2>2
    <3> HIDE DEF k, b
    <3>2. \A ch \in 1 .. 126 : InRanges(ch, PcLow, PcUp)
             <=> \E n \in 1 .. k : PcLow[n] <= ch /\ ch <= PcUp[n]
      BY <3>1, AsciiPart
    <3>3. QED
      BY <3>2 DEF k
  <2>4. \A ch \in 1 .. 126 :
           (\E n \in 1 .. 1 : PcLow[n] <= ch /\ ch <= PcUp[n])
              <=> ch \in {\h5F}
    BY SMTT(60) DEF PcLow, PcUp
  <2>5. QED
    BY <2>1, <2>3, <2>4 DEF PairedAscii
<1>3. PairedAscii(PdLow, PdUp, {\h2D})
  <2>1. Paired(PdLow, PdUp) /\ Len(PdLow) = 16
    BY SMTT(60) DEF PdLow, PdUp, Paired
  <2>2. \A n \in 1 + 1 .. 16 : PdLow[n] > 126
    BY SMTT(60) DEF PdLow
  <2>3. \A ch \in 1 .. 126 : InRanges(ch, PdLow, PdUp)
           <=> \E n \in 1 .. 1 : PdLow[n] <= ch /\ ch <= PdUp[n]
    <3> DEFINE k == 1
               b == 16
    <3>1. /\ Paired(PdLow, PdUp) /\ Len(PdLow) = b
          /\ k \in Nat /\ b \in Nat /\ k <= b
          /\ \A n \in k + 1 .. b : PdLow[n] > 126
      BY <2>1, <2>2
    <3> HIDE DEF k, b
    <3>2. \A ch \in 1 .. 126 : InRanges(ch, PdLow, PdUp)
             <=> \E n \in 1 .. k : PdLow[n] <= ch /\ ch <= PdUp[n]
      BY <3>1, AsciiPart
    <3>3. QED
      BY <3>2 DEF k
  <2>4. \A ch \in 1 .. 126 :
           (\E n \in 1 .. 1 : PdLow[n] <= ch /\ ch <= PdUp[n])
              <=> ch \in {\h2D}
    BY SMTT(60) DEF PdLow, PdUp
  <2>5. QED
    BY <2>1, <2>3, <2>4 DEF PairedAscii
<1>4. PairedAscii(PoLow, PoUp, {\h21, \h22, \h23, \h25, \h26, \h27, \h2A, \h2C,
                                  \h2E, \h2F, \h3A, \h3B, \h3F, \h40, \h5C})
  <2>1. Paired(PoLow, PoUp) /\ Len(PoLow) = 135
    BY SMTT(60) DEF PoLow, PoUp, Paired
  <2>2. /\ 8 \in Nat /\ 135 \in Nat /\ 8 <= 135
        /\ \A n \in 8 + 1 .. 135 : PoLow[n] > 126
    BY SMTT(60) DEF PoLow
  <2>3. \A ch \in 1 .. 126 : InRanges(ch, PoLow, PoUp)
           <=> \E n \in 1 .. 8 : PoLow[n] <= ch /\ ch <= PoUp[n]
    <3> DEFINE k == 8
               b == 135
    <3>1. /\ Paired(PoLow, PoUp) /\ Len(PoLow) = b
          /\ k \in Nat /\ b \in Nat /\ k <= b
          /\ \A n \in k + 1 .. b : PoLow[n] > 126
      BY <2>1, <2>2
    <3> HIDE DEF k, b
    <3>2. \A ch \in 1 .. 126 : InRanges(ch, PoLow, PoUp)
             <=> \E n \in 1 .. k : PoLow[n] <= ch /\ ch <= PoUp[n]
      BY <3>1, AsciiPart
    <3>3. QED
      BY <3>2 DEF k
  <2>4. \A ch \in 1 .. 126 :
           (\E n \in 1 .. 8 : PoLow[n] <= ch /\ ch <= PoUp[n])
              <=> ch \in {\h21, \h22, \h23, \h25, \h26, \h27, \h2A, \h2C,
                                  \h2E, \h2F, \h3A, \h3B, \h3F, \h40, \h5C}
    BY SMTT(60) DEF PoLow, PoUp
  <2>5. QED
    BY <2>1, <2>3, <2>4 DEF PairedAscii
<1>5. PairedAscii(ScLow, ScUp, {\h24})
  <2>1. Paired(ScLow, ScUp) /\ Len(ScLow) = 17
    BY SMTT(60) DEF ScLow, ScUp, Paired
  <2>2. \A n \in 1 + 1 .. 17 : ScLow[n] > 126
    BY SMTT(60) DEF ScLow
  <2>3. \A ch \in 1 .. 126 : InRanges(ch, ScLow, ScUp)
           <=> \E n \in 1 .. 1 : ScLow[n] <= ch /\ ch <= ScUp[n]
    <3> DEFINE k == 1
               b == 17
    <3>1. /\ Paired(ScLow, ScUp) /\ Len(ScLow) = b
          /\ k \in Nat /\ b \in Nat /\ k <= b
          /\ \A n \in k + 1 .. b : ScLow[n] > 126
      BY <2>1, <2>2
    <3> HIDE DEF k, b
    <3>2. \A ch \in 1 .. 126 : InRanges(ch, ScLow, ScUp)
             <=> \E n \in 1 .. k : ScLow[n] <= ch /\ ch <= ScUp[n]
      BY <3>1, AsciiPart
    <3>3. QED
      BY <3>2 DEF k
  <2>4. \A ch \in 1 .. 126 :
           (\E n \in 1 .. 1 : ScLow[n] <= ch /\ ch <= ScUp[n])
              <=> ch \in {\h24}
    BY SMTT(60) DEF ScLow, ScUp
  <2>5. QED
    BY <2>1, <2>3, <2>4 DEF PairedAscii
<1>6. PairedAscii(SkLow, SkUp, {\h5E, \h60})
  <2>1. Paired(SkLow, SkUp) /\ Len(SkLow) = 27
    BY SMTT(60) DEF SkLow, SkUp, Paired
  <2>2. \A n \in 2 + 1 .. 27 : SkLow[n] > 126
    BY SMTT(60) DEF SkLow
  <2>3. \A ch \in 1 .. 126 : InRanges(ch, SkLow, SkUp)
           <=> \E n \in 1 .. 2 : SkLow[n] <= ch /\ ch <= SkUp[n]
    <3> DEFINE k == 2
               b == 27
    <3>1. /\ Paired(SkLow, SkUp) /\ Len(SkLow) = b
          /\ k \in Nat /\ b \in Nat /\ k <= b
          /\ \A n \in k + 1 .. b : SkLow[n] > 126
      BY <2>1, <2>2
    <3> HIDE DEF k, b
    <3>2. \A ch \in 1 .. 126 : InRanges(ch, SkLow, SkUp)
             <=> \E n \in 1 .. k : SkLow[n] <= ch /\ ch <= SkUp[n]
      BY <3>1, AsciiPart
    <3>3. QED
      BY <3>2 DEF k
  <2>4. \A ch \in 1 .. 126 :
           (\E n \in 1 .. 2 : SkLow[n] <= ch /\ ch <= SkUp[n])
              <=> ch \in {\h5E, \h60}
    BY SMTT(60) DEF SkLow, SkUp
  <2>5. QED
    BY <2>1, <2>3, <2>4 DEF PairedAscii
<1>7. PairedAscii(SmLow, SmUp, {\h2B, \h3C, \h3D, \h3E, \h7C, \h7E})
  <2>1. Paired(SmLow, SmUp) /\ Len(SmLow) = 65
    BY SMTT(60) DEF SmLow, SmUp, Paired
  <2>2. \A n \in 4 + 1 .. 65 : SmLow[n] > 126
    BY SMTT(60) DEF SmLow
  <2>3. \A ch \in 1 .. 126 : InRanges(ch, SmLow, SmUp)
           <=> \E n \in 1 .. 4 : SmLow[n] <= ch /\ ch <= SmUp[n]
    <3> DEFINE k == 4
               b == 65
    <3>1. /\ Paired(SmLow, SmUp) /\ Len(SmLow) = b
          /\ k \in Nat /\ b \in Nat /\ k <= b
          /\ \A n \in k + 1 .. b : SmLow[n] > 126
      BY <2>1, <2>2
    <3> HIDE DEF k, b
    <3>2. \A ch \in 1 .. 126 : InRanges(ch, SmLow, SmUp)
             <=> \E n \in 1 .. k : SmLow[n] <= ch /\ ch <= SmUp[n]
      BY <3>1, AsciiPart
    <3>3. QED
      BY <3>2 DEF k
  <2>4. \A ch \in 1 .. 126 :
           (\E n \in 1 .. 4 : SmLow[n] <= ch /\ ch <= SmUp[n])
              <=> ch \in {\h2B, \h3C, \h3D, \h3E, \h7C, \h7E}
    BY SMTT(60) DEF SmLow, SmUp
  <2>5. QED
    BY <2>1, <2>3, <2>4 DEF PairedAscii
<1>8. QED
  BY <1>1, <1>2, <1>3, <1>4, <1>5, <1>6, <1>7

LEMMA CategoryNames ==
  Categories = {"co", "ll", "lm", "lo", "lt", "lu", "mc", "mn", "nd",
                "nl", "no", "pc", "pd", "po", "sc", "sk", "sm", "so"}
BY DEF Categories, Tables

\* The long tables, put together from their parts.
LEMMA LongTables ==
  /\ PairedAscii(LlLow, LlUp, \h61 .. \h7A)
  /\ PairedAscii(LoLow, LoUp, {})
  /\ PairedAscii(LuLow, LuUp, \h41 .. \h5A)
  /\ PairedAscii(MnLow, MnUp, {})
<1>1. PairedAscii(LlLow, LlUp, \h61 .. \h7A)
  <2>1. PairedAscii(LlLowLatin \o LlLowGreek, LlUpLatin \o LlUpGreek,
                    \h61 .. \h7A)
    BY LatinTables, LaterParts, PartsAscii
  <2>2. PairedAscii(LlLowLatin \o LlLowGreek \o LlLowExtended,
                    LlUpLatin \o LlUpGreek \o LlUpExtended, \h61 .. \h7A)
    BY <2>1, LaterParts, PartsAscii
  <2>3. PairedAscii(LlLowLatin \o LlLowGreek \o LlLowExtended \o LlLowCoptic,
                    LlUpLatin \o LlUpGreek \o LlUpExtended \o LlUpCoptic,
                    \h61 .. \h7A)
    BY <2>2, LaterParts, PartsAscii
  <2>4. PairedAscii(LlLowLatin \o LlLowGreek \o LlLowExtended \o LlLowCoptic
                      \o LlLowLater,
                    LlUpLatin \o LlUpGreek \o LlUpExtended \o LlUpCoptic
                      \o LlUpLater, \h61 .. \h7A)
    BY <2>3, LaterParts, PartsAscii
  <2>5. QED
    BY <2>4, LaterParts, PartsAscii DEF LlLow, LlUp
<1>2. PairedAscii(LoLow, LoUp, {})
  <2>1. PairedAscii(LoLowEarly, LoUpEarly, {})
    BY LaterParts, LaterIsAsciiFree
  <2>2. PairedAscii(LoLowEarly \o LoLowMiddle, LoUpEarly \o LoUpMiddle, {})
    BY <2>1, LaterParts, PartsAscii
  <2>3. PairedAscii(LoLowEarly \o LoLowMiddle \o LoLowLater,
                    LoUpEarly \o LoUpMiddle \o LoUpLater, {})
    BY <2>2, LaterParts, PartsAscii
  <2>4. QED
    BY <2>3, LaterParts, PartsAscii DEF LoLow, LoUp
<1>3. PairedAscii(LuLow, LuUp, \h41 .. \h5A)
  <2>1. PairedAscii(LuLowLatin \o LuLowGreek, LuUpLatin \o LuUpGreek,
                    \h41 .. \h5A)
    BY LatinTables, LaterParts, PartsAscii
  <2>2. PairedAscii(LuLowLatin \o LuLowGreek \o LuLowExtended,
                    LuUpLatin \o LuUpGreek \o LuUpExtended, \h41 .. \h5A)
    BY <2>1, LaterParts, PartsAscii
  <2>3. PairedAscii(LuLowLatin \o LuLowGreek \o LuLowExtended \o LuLowCoptic,
                    LuUpLatin \o LuUpGreek \o LuUpExtended \o LuUpCoptic,
                    \h41 .. \h5A)
    BY <2>2, LaterParts, PartsAscii
  <2>4. PairedAscii(LuLowLatin \o LuLowGreek \o LuLowExtended \o LuLowCoptic
                      \o LuLowLater,
                    LuUpLatin \o LuUpGreek \o LuUpExtended \o LuUpCoptic
                      \o LuUpLater, \h41 .. \h5A)
    BY <2>3, LaterParts, PartsAscii
  <2>5. QED
    BY <2>4, LaterParts, PartsAscii DEF LuLow, LuUp
<1>4. PairedAscii(MnLow, MnUp, {})
  <2>1. PairedAscii(MnLowEarly, MnUpEarly, {})
    BY LaterParts, LaterIsAsciiFree
  <2>2. QED
    BY <2>1, LaterParts, PartsAscii DEF MnLow, MnUp
<1>5. QED
  BY <1>1, <1>2, <1>3, <1>4

\* The ASCII characters of each category.
AsciiOf(c) ==
  CASE c = "ll" -> \h61 .. \h7A
    [] c = "lu" -> \h41 .. \h5A
    [] c = "nd" -> \h30 .. \h39
    [] c = "pc" -> {\h5F}
    [] c = "pd" -> {\h2D}
    [] c = "po" -> {\h21, \h22, \h23, \h25, \h26, \h27, \h2A, \h2C,
                    \h2E, \h2F, \h3A, \h3B, \h3F, \h40, \h5C}
    [] c = "sc" -> {\h24}
    [] c = "sk" -> {\h5E, \h60}
    [] c = "sm" -> {\h2B, \h3C, \h3D, \h3E, \h7C, \h7E}
    [] OTHER    -> {}

LEMMA EveryTable ==
  ASSUME NEW c \in Categories
  PROVE  PairedAscii(Tables[c][1], Tables[c][2], AsciiOf(c))
<1>1. /\ PairedAscii(CoLow, CoUp, {}) /\ PairedAscii(LmLow, LmUp, {})
      /\ PairedAscii(LtLow, LtUp, {}) /\ PairedAscii(McLow, McUp, {})
      /\ PairedAscii(NlLow, NlUp, {}) /\ PairedAscii(NoLow, NoUp, {})
      /\ PairedAscii(SoLow, SoUp, {})
  BY LaterTables, LaterIsAsciiFree
<1>2. CASE c \in {"co", "lm", "lt", "mc", "nl", "no", "so"}
  <2>1. AsciiOf(c) = {}
    BY <1>2 DEF AsciiOf
  <2>2. /\ Tables["co"][1] = CoLow /\ Tables["co"][2] = CoUp
        /\ Tables["lm"][1] = LmLow /\ Tables["lm"][2] = LmUp
        /\ Tables["lt"][1] = LtLow /\ Tables["lt"][2] = LtUp
        /\ Tables["mc"][1] = McLow /\ Tables["mc"][2] = McUp
        /\ Tables["nl"][1] = NlLow /\ Tables["nl"][2] = NlUp
        /\ Tables["no"][1] = NoLow /\ Tables["no"][2] = NoUp
        /\ Tables["so"][1] = SoLow /\ Tables["so"][2] = SoUp
    BY DEF Tables
  <2>3. QED
    BY <1>1, <1>2, <2>1, <2>2
<1>3. CASE c \in {"ll", "lo", "lu", "mn"}
  <2>1. /\ AsciiOf("ll") = \h61 .. \h7A /\ AsciiOf("lo") = {}
        /\ AsciiOf("lu") = \h41 .. \h5A /\ AsciiOf("mn") = {}
    BY DEF AsciiOf
  <2>2. /\ Tables["ll"][1] = LlLow /\ Tables["ll"][2] = LlUp
        /\ Tables["lo"][1] = LoLow /\ Tables["lo"][2] = LoUp
        /\ Tables["lu"][1] = LuLow /\ Tables["lu"][2] = LuUp
        /\ Tables["mn"][1] = MnLow /\ Tables["mn"][2] = MnUp
    BY DEF Tables
  <2>3. PairedAscii(Tables["ll"][1], Tables["ll"][2], AsciiOf("ll"))
    BY <2>1, <2>2, LongTables
  <2>4. PairedAscii(Tables["lo"][1], Tables["lo"][2], AsciiOf("lo"))
    BY <2>1, <2>2, LongTables
  <2>5. PairedAscii(Tables["lu"][1], Tables["lu"][2], AsciiOf("lu"))
    BY <2>1, <2>2, LongTables
  <2>6. PairedAscii(Tables["mn"][1], Tables["mn"][2], AsciiOf("mn"))
    BY <2>1, <2>2, LongTables
  <2>7. QED
    BY <1>3, <2>3, <2>4, <2>5, <2>6
<1>4. CASE c \in {"nd", "pc", "pd", "po", "sc", "sk", "sm"}
  <2>1. /\ AsciiOf("nd") = \h30 .. \h39
        /\ AsciiOf("pc") = {\h5F}
        /\ AsciiOf("pd") = {\h2D}
        /\ AsciiOf("po") = {\h21, \h22, \h23, \h25, \h26, \h27, \h2A, \h2C,
                            \h2E, \h2F, \h3A, \h3B, \h3F, \h40, \h5C}
        /\ AsciiOf("sc") = {\h24}
        /\ AsciiOf("sk") = {\h5E, \h60}
        /\ AsciiOf("sm") = {\h2B, \h3C, \h3D, \h3E, \h7C, \h7E}
    BY DEF AsciiOf
  <2>2. /\ Tables["nd"][1] = NdLow /\ Tables["nd"][2] = NdUp
        /\ Tables["pc"][1] = PcLow /\ Tables["pc"][2] = PcUp
        /\ Tables["pd"][1] = PdLow /\ Tables["pd"][2] = PdUp
        /\ Tables["po"][1] = PoLow /\ Tables["po"][2] = PoUp
        /\ Tables["sc"][1] = ScLow /\ Tables["sc"][2] = ScUp
        /\ Tables["sk"][1] = SkLow /\ Tables["sk"][2] = SkUp
        /\ Tables["sm"][1] = SmLow /\ Tables["sm"][2] = SmUp
    BY DEF Tables
  <2>3. PairedAscii(Tables["nd"][1], Tables["nd"][2], AsciiOf("nd"))
    BY <2>1, <2>2, AsciiTables
  <2>4. PairedAscii(Tables["pc"][1], Tables["pc"][2], AsciiOf("pc"))
    BY <2>1, <2>2, AsciiTables
  <2>5. PairedAscii(Tables["pd"][1], Tables["pd"][2], AsciiOf("pd"))
    BY <2>1, <2>2, AsciiTables
  <2>6. PairedAscii(Tables["po"][1], Tables["po"][2], AsciiOf("po"))
    BY <2>1, <2>2, AsciiTables
  <2>7. PairedAscii(Tables["sc"][1], Tables["sc"][2], AsciiOf("sc"))
    BY <2>1, <2>2, AsciiTables
  <2>8. PairedAscii(Tables["sk"][1], Tables["sk"][2], AsciiOf("sk"))
    BY <2>1, <2>2, AsciiTables
  <2>9. PairedAscii(Tables["sm"][1], Tables["sm"][2], AsciiOf("sm"))
    BY <2>1, <2>2, AsciiTables
  <2>10. QED
    BY <1>4, <2>3, <2>4, <2>5, <2>6, <2>7, <2>8, <2>9
<1>5. QED
  BY <1>2, <1>3, <1>4, CategoryNames

\* The two tables of each of the eighteen categories belong together: the
\* search of a category, which takes its length from one of them, reads both
\* inside and finds every range.
THEOREM TablesBelongTogether == TablesPaired
BY EveryTable DEF TablesPaired, PairedAscii, Paired

-----------------------------------------------------------------------------
(***************************************************************************)
(* What the tables say of a character.                                     *)
(***************************************************************************)
LEMMA TablesTyped ==
  ASSUME NEW c \in Categories
  PROVE  /\ Tables[c][1] \in Seq(Nat) /\ Tables[c][2] \in Seq(Nat)
         /\ Len(Tables[c][1]) \in Nat
         /\ DOMAIN Tables[c][1] = 1 .. Len(Tables[c][1])
         /\ DOMAIN Tables[c][2] = 1 .. Len(Tables[c][1])
         /\ \A n \in 1 .. Len(Tables[c][1]) :
               /\ Tables[c][1][n] \in Nat /\ Tables[c][2][n] \in Nat
               /\ Tables[c][1][n] <= Tables[c][2][n]
<1> DEFINE low == Tables[c][1]
           up == Tables[c][2]
<1>1. /\ low \in Seq(Nat) /\ up \in Seq(Nat) /\ Len(low) = Len(up)
      /\ \A n \in DOMAIN low : low[n] <= up[n]
  BY TablesBelongTogether DEF TablesPaired
<1> HIDE DEF low, up
<1>2. /\ Len(low) \in Nat /\ DOMAIN low = 1 .. Len(low)
      /\ DOMAIN up = 1 .. Len(up)
  BY <1>1, LenProperties
<1>3. \A n \in 1 .. Len(low) : low[n] \in Nat /\ up[n] \in Nat
  BY <1>1, ElementOfSeq
<1>4. QED
  BY <1>1, <1>2, <1>3 DEF low, up

\* A range that has ended has begun: so more have begun than ended exactly if
\* there is one that has begun and not ended.
LEMMA InsideRanges ==
  ASSUME NEW c \in Categories, NEW ch \in Nat
  PROVE  Begun(ch, Tables[c][1]) > Ended(ch, Tables[c][2])
           <=> InRanges(ch, Tables[c][1], Tables[c][2])
<1> DEFINE low == Tables[c][1]
           up == Tables[c][2]
           D == 1 .. Len(low)
           B == {n \in D : low[n] <= ch}
           E == {n \in D : up[n] < ch}
<1>1. /\ Len(low) \in Nat /\ DOMAIN low = D /\ DOMAIN up = D
      /\ \A n \in D : low[n] \in Nat /\ up[n] \in Nat /\ low[n] <= up[n]
  BY TablesTyped
<1>2. IsFiniteSet(D)
  <2>1. 1 \in Int /\ Len(low) \in Int
    BY <1>1
  <2>2. QED
    BY <2>1, FS_Interval
<1>3. /\ Begun(ch, low) = Cardinality(B) /\ Ended(ch, up) = Cardinality(E)
      /\ InRanges(ch, low, up) <=> \E n \in D : low[n] <= ch /\ ch <= up[n]
  BY <1>1 DEF Begun, Ended, InRanges
<1>4. E \subseteq B
  <2>1. ASSUME NEW n \in D, up[n] < ch PROVE low[n] <= ch
    <3>1. low[n] \in Nat /\ up[n] \in Nat /\ low[n] <= up[n]
      BY <1>1
    <3>2. QED
      BY <2>1, <3>1
  <2>2. QED
    BY <2>1
<1>5. (\E n \in D : low[n] <= ch /\ ch <= up[n]) <=> B # E
  <2>1. \A n \in D : ch <= up[n] <=> ~(up[n] < ch)
    BY <1>1
  <2>2. QED
    BY <1>4, <2>1
<1>6. B \subseteq D
  OBVIOUS
<1> HIDE DEF B, E, D, low, up
<1>7. IsFiniteSet(B) /\ IsFiniteSet(E)
  BY <1>2, <1>4, <1>6, FS_Subset
<1>8. /\ Cardinality(B) \in Nat /\ Cardinality(E) \in Nat
      /\ Cardinality(E) <= Cardinality(B)
      /\ Cardinality(B) = Cardinality(E) => B = E
  BY <1>4, <1>7, FS_Subset, FS_CardinalityType
<1>9. Cardinality(B) > Cardinality(E) <=> B # E
  BY <1>8
<1>10. Begun(ch, low) > Ended(ch, up) <=> InRanges(ch, low, up)
  BY <1>3, <1>5, <1>9
<1>11. QED
  BY <1>10 DEF low, up

\* Which ASCII characters the tables have.
LEMMA AsciiInside ==
  ASSUME NEW ch \in 1 .. 126, NEW cats \in SUBSET Categories
  PROVE  Inside(ch, cats) <=> \E c \in cats : ch \in AsciiOf(c)
<1>1. \A c \in cats : InRanges(ch, Tables[c][1], Tables[c][2])
                        <=> ch \in AsciiOf(c)
  BY EveryTable DEF PairedAscii
<1>2. \A c \in cats : Begun(ch, Tables[c][1]) > Ended(ch, Tables[c][2])
                        <=> InRanges(ch, Tables[c][1], Tables[c][2])
  BY InsideRanges
<1>3. QED
  BY <1>1, <1>2 DEF Inside

\* The macros judge every ASCII character as its category does.
THEOREM MacrosAgree == AsciiAgrees
<1> SUFFICES ASSUME NEW ch \in 1 .. 126
             PROVE  /\ Number(ch) <=> Inside(ch, {"nd", "nl", "no"})
                    /\ Subsequent(ch)
                         <=> ch \notin Delimiters /\ Inside(ch, Categories)
  BY DEF AsciiAgrees
<1>1. is_ascii(ch)
  BY DEF is_ascii
<1>2. Number(ch) <=> Inside(ch, {"nd", "nl", "no"})
  <2>1. Inside(ch, {"nd", "nl", "no"}) <=> ch \in \h30 .. \h39
    BY AsciiInside, CategoryNames DEF AsciiOf
  <2>2. QED
    BY <1>1, <2>1 DEF Number, is_digit
<1>3. Subsequent(ch) <=> ch \notin Delimiters /\ Inside(ch, Categories)
  <2>1. Inside(ch, Categories) <=>
          \/ ch \in \h61 .. \h7A \/ ch \in \h41 .. \h5A \/ ch \in \h30 .. \h39
          \/ ch \in {\h5F} \/ ch \in {\h2D}
          \/ ch \in {\h21, \h22, \h23, \h25, \h26, \h27, \h2A, \h2C,
                     \h2E, \h2F, \h3A, \h3B, \h3F, \h40, \h5C}
          \/ ch \in {\h24} \/ ch \in {\h5E, \h60}
          \/ ch \in {\h2B, \h3C, \h3D, \h3E, \h7C, \h7E}
    <3>1. Inside(ch, Categories) <=> \E c \in Categories : ch \in AsciiOf(c)
      BY AsciiInside
    <3>2. QED
      BY <3>1, CategoryNames DEF AsciiOf
  <2>2. QED
    BY <1>1, <2>1
       DEF Subsequent, is_digit, is_alpha, is_extended_alphabetic, Delimiters
<1>4. QED
  BY <1>2, <1>3

\* Outside ASCII the scan looks into the tables.
LEMMA NumberTables ==
  ASSUME NEW ch \in Nat, ch >= 127
  PROVE  Number(ch) <=> Inside(ch, {"nd", "nl", "no"})
<1>1. ~is_ascii(ch)
  BY DEF is_ascii
<1>2. /\ is_range_nd(ch) <=> InRanges(ch, Tables["nd"][1], Tables["nd"][2])
      /\ is_range_nl(ch) <=> InRanges(ch, Tables["nl"][1], Tables["nl"][2])
      /\ is_range_no(ch) <=> InRanges(ch, Tables["no"][1], Tables["no"][2])
  BY DEF is_range_nd, is_range_nl, is_range_no, Tables
<1>3. {"nd", "nl", "no"} \subseteq Categories
  BY CategoryNames
<1>4. Inside(ch, {"nd", "nl", "no"})
        <=> \E c \in {"nd", "nl", "no"} :
               InRanges(ch, Tables[c][1], Tables[c][2])
  BY <1>3, InsideRanges DEF Inside
<1>5. QED
  BY <1>1, <1>2, <1>4 DEF Number

LEMMA SubsequentTables ==
  ASSUME NEW ch \in Nat, ch >= 127
  PROVE  Subsequent(ch) <=> Inside(ch, Categories)
<1>1. ~is_ascii(ch)
  BY DEF is_ascii
<1> DEFINE In(c) == InRanges(ch, Tables[c][1], Tables[c][2])
<1>2. /\ is_range_co(ch) <=> In("co")
      /\ is_range_ll(ch) <=> In("ll")
      /\ is_range_lm(ch) <=> In("lm")
      /\ is_range_lo(ch) <=> In("lo")
      /\ is_range_lt(ch) <=> In("lt")
      /\ is_range_lu(ch) <=> In("lu")
      /\ is_range_mc(ch) <=> In("mc")
      /\ is_range_mn(ch) <=> In("mn")
      /\ is_range_nd(ch) <=> In("nd")
  BY DEF is_range_co, is_range_ll, is_range_lm, is_range_lo, is_range_lt,
     is_range_lu, is_range_mc, is_range_mn, is_range_nd, Tables
<1>3. /\ is_range_nl(ch) <=> In("nl")
      /\ is_range_no(ch) <=> In("no")
      /\ is_range_pc(ch) <=> In("pc")
      /\ is_range_pd(ch) <=> In("pd")
      /\ is_range_po(ch) <=> In("po")
      /\ is_range_sc(ch) <=> In("sc")
      /\ is_range_sk(ch) <=> In("sk")
      /\ is_range_sm(ch) <=> In("sm")
      /\ is_range_so(ch) <=> In("so")
  BY DEF is_range_nl, is_range_no, is_range_pc, is_range_pd, is_range_po,
     is_range_sc, is_range_sk, is_range_sm, is_range_so, Tables
<1>4. Inside(ch, Categories) <=> \E c \in Categories : In(c)
  BY InsideRanges DEF Inside
<1> HIDE DEF In
<1>5. QED
  BY <1>1, <1>2, <1>3, <1>4, CategoryNames DEF Subsequent

\* The verdict of the macros is what the categories give.
LEMMA AcceptsRight ==
  ASSUME NEW s \in Seq(Nat), s # <<>>, \A p \in 1 .. Len(s) : s[p] # 0
  PROVE  Accepts(s) <=> IsIdentifier(s)
<1>1. /\ Len(s) \in Nat \ {0}
      /\ \A p \in 1 .. Len(s) : s[p] \in Nat /\ s[p] # 0
  BY EmptySeq, ElementOfSeq
<1>2. ASSUME NEW ch \in Nat, ch # 0
      PROVE  /\ Number(ch) <=> Inside(ch, {"nd", "nl", "no"})
             /\ Subsequent(ch) <=> ch \notin Delimiters /\ Inside(ch, Categories)
  <2>1. CASE ch >= 127
    <3>1. ch \notin Delimiters
      BY <2>1 DEF Delimiters
    <3>2. QED
      BY <2>1, <3>1, NumberTables, SubsequentTables
  <2>2. CASE ~(ch >= 127)
    <3>1. ch \in 1 .. 126
      BY <1>2, <2>2
    <3>2. QED
      BY <3>1, MacrosAgree DEF AsciiAgrees
  <2>3. QED
    BY <2>1, <2>2
<1>3. 1 \in 1 .. Len(s) /\ \A p \in 2 .. Len(s) : p \in 1 .. Len(s)
  BY <1>1
<1>4. QED
  BY <1>1, <1>2, <1>3 DEF Accepts, IsIdentifier

\* Every string that is not empty, of any length and any characters, gets the
\* verdict that the categories of its characters give: the scan skips none,
\* the searches miss no range, and the macros judge ASCII as the tables do.
THEOREM VerdictCorrect == Spec => []VerdictRight
<1>1. ASSUME ScanInv PROVE VerdictRight
  <2> SUFFICES ASSUME step = "returned", unicode # NoString
               PROVE  result = 1 <=> IsIdentifier(unicode)
    BY DEF VerdictRight
  <2>1. /\ unicode \in Seq(Nat) /\ unicode # <<>>
        /\ \A p \in 1 .. Len(unicode) : unicode[p] # 0
    BY <1>1 DEF ScanInv, InputOK, VerdictOfAll, Terminator
  <2>2. result = 1 <=> Accepts(unicode)
    BY <1>1 DEF ScanInv, VerdictOfAll
  <2>3. QED
    BY <1>1, <2>1, <2>2, AcceptsRight
<1>2. ScanInv => VerdictRight
  BY <1>1
<1>3. QED
  BY <1>2, ScanCorrect, PTL
=============================================================================
