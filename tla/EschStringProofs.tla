-------------------------- MODULE EschStringProofs --------------------------
(***************************************************************************)
(* Proofs about EschString: for every set of bytes and every length, the   *)
(* two passes of the decoder agree, the second fits into the buffer of the *)
(* first, texts of complete code points of up to three bytes are decoded   *)
(* to what they are, and a duplicate is the same C string.                 *)
(*                                                                         *)
(* Both passes are runs of one recursive function of the text, Run: what   *)
(* the decoder has become after so many bytes, on a buffer without end.    *)
(* The inductive invariant StringInv says that the first pass shows the    *)
(* states and the count of Run, that the second shows its state, position  *)
(* and cells as far as the buffer goes, and that the strings of the        *)
(* program are what Run makes of accepted texts.  The rest is about Run.   *)
(***************************************************************************)
EXTENDS EschString, WellOrdering, SequenceTheorems

AllBytes == Bytes \cup {"nul"}

-----------------------------------------------------------------------------
(***************************************************************************)
(* The bytes a string is made of.                                          *)
(***************************************************************************)
LEMMA ByteKinds ==
  /\ AllBytes \subseteq {"nul", "one", "two", "three", "four", "cont", "other"}
  /\ "nul" \notin Bytes
BY StringAssumption DEF AllBytes

\* What strlen finds is the first NUL or the end.
LEMMA StrLenFacts ==
  ASSUME NEW s \in Seq(AllBytes)
  PROVE  /\ StrLen(s) \in 0 .. Len(s)
         /\ \A j \in 1 .. StrLen(s) : s[j] # "nul"
         /\ StrLen(s) < Len(s) => s[StrLen(s) + 1] = "nul"
<1>1. Len(s) \in Nat /\ DOMAIN s = 1 .. Len(s)
  OBVIOUS
<1>2. CASE "nul" \notin ToSet(s)
  <2>1. StrLen(s) = Len(s)
    BY <1>2 DEF StrLen
  <2>2. \A j \in 1 .. Len(s) : s[j] # "nul"
    BY <1>1, <1>2 DEF ToSet
  <2>3. QED
    BY <1>1, <2>1, <2>2
<1>3. CASE "nul" \in ToSet(s)
  <2> DEFINE T == {k \in 1 .. Len(s) : s[k] = "nul"}
             IsFirst(k) == s[k] = "nul" /\ \A j \in 1 .. k - 1 : s[j] # "nul"
  <2>1. T # {} /\ T \subseteq Nat
    BY <1>1, <1>3 DEF ToSet
  <2>2. PICK m \in T : \A n \in T : m <= n
    <3> HIDE DEF T
    <3>1. QED
      BY <2>1, NatMin
  <2>3. m \in 1 .. Len(s) /\ IsFirst(m)
    BY <1>1, <2>2
  <2> DEFINE c == CHOOSE k \in 1 .. Len(s) : IsFirst(k)
  <2>4. c \in 1 .. Len(s) /\ IsFirst(c)
    BY <2>3
  <2>5. StrLen(s) = c - 1
    BY <1>3 DEF StrLen
  <2> HIDE DEF c
  <2>6. QED
    BY <1>1, <2>4, <2>5
<1>4. QED
  BY <1>2, <1>3

LEMMA LengthFacts ==
  ASSUME NEW s \in Seq(AllBytes), NEW begin \in Nat, NEW end \in Int
  PROVE  /\ Length(s, begin, end) \in Nat
         /\ Length(s, 0, -1) = StrLen(s)
<1>1. StrLen(s) \in Nat
  BY StrLenFacts
<1>2. QED
  BY <1>1 DEF Length

LEMMA CopiedFacts ==
  ASSUME NEW s \in Seq(AllBytes), NEW begin \in Nat, NEW n \in Nat
  PROVE  /\ Copied(s, begin, n) \in Seq(AllBytes)
         /\ Len(Copied(s, begin, n)) = n
<1> DEFINE c == [k \in 1 .. n |->
                   IF begin + k <= StrLen(s) THEN s[begin + k] ELSE "nul"]
<1>1. StrLen(s) \in 0 .. Len(s) /\ Len(s) \in Nat
  BY StrLenFacts
<1>2. ASSUME NEW k \in 1 .. n PROVE c[k] \in AllBytes
  <2>1. CASE begin + k <= StrLen(s)
    <3>1. begin + k \in 1 .. Len(s)
      BY <1>1, <2>1
    <3>2. s[begin + k] \in AllBytes
      BY <3>1
    <3>3. QED
      BY <2>1, <3>2
  <2>2. CASE ~(begin + k <= StrLen(s))
    BY <2>2 DEF AllBytes
  <2>3. QED
    BY <2>1, <2>2
<1>3. c \in [1 .. n -> AllBytes]
  BY <1>2
<1> HIDE DEF c
<1>4. c \in Seq(AllBytes) /\ Len(c) = n
  BY <1>3
<1>5. Copied(s, begin, n) = c
  BY DEF Copied, c
<1>6. QED
  BY <1>4, <1>5

\* The copy that is made for a duplicate.
CPart(s) == Copied(s, 0, StrLen(s))

LEMMA CPartFacts ==
  ASSUME NEW s \in Seq(AllBytes)
  PROVE  /\ CPart(s) \in Seq(AllBytes)
         /\ Len(CPart(s)) = StrLen(s)
         /\ \A k \in 1 .. StrLen(s) : CPart(s)[k] = s[k]
<1>1. StrLen(s) \in Nat
  BY StrLenFacts
<1>2. \A k \in 1 .. StrLen(s) : CPart(s)[k] = s[k]
  BY <1>1 DEF CPart, Copied
<1>3. QED
  BY <1>1, <1>2, CopiedFacts DEF CPart

-----------------------------------------------------------------------------
(***************************************************************************)
(* The decoder as a function of the text: where it is and what it has      *)
(* written after so many bytes, on a buffer without end.                   *)
(***************************************************************************)
Begin ==
  [state |-> "begin", count |-> 0, pos |-> 0, cells |-> [k \in Nat |-> Zero]]

After(r, b) ==
  LET s == WriteState(r.state, b) IN
    [state |-> s,
     count |-> r.count + Counted(b),
     pos   |-> r.pos + Moves(b, s),
     cells |-> IF s = "wrong" THEN r.cells
               ELSE [r.cells EXCEPT ![r.pos] = Written(@, b)]]

Run(t) ==
  LET run[k \in 0 .. Len(t)] ==
        IF k = 0 THEN Begin ELSE After(run[k - 1], t[k])
  IN run

RunRecords ==
  [state : States, count : Nat, pos : Nat, cells : [Nat -> Seq(AllBytes)]]

\* The two switch statements agree.
LEMMA SameSwitch ==
  ASSUME NEW s \in States, NEW b \in AllBytes
  PROVE  /\ CountState(s, b) = WriteState(s, b)
         /\ WriteState(s, b) \in States
BY ByteKinds DEF CountState, WriteState, CountContinued, WriteContinued,
   First, LeadBytes, States

LEMMA IsRunExists ==
  ASSUME NEW t, NEW n \in Nat
  PROVE  \E g : g = [i \in 0 .. n |-> IF i = 0 THEN Begin
                                      ELSE After(g[i - 1], t[i])]
<1> DEFINE S == {k \in Nat :
                   \E g : g = [i \in 0 .. k |-> IF i = 0 THEN Begin
                                               ELSE After(g[i - 1], t[i])]}
<1>1. 0 \in S
  <2> DEFINE g == [i \in 0 .. 0 |-> Begin]
  <2>1. g = [i \in 0 .. 0 |-> IF i = 0 THEN Begin ELSE After(g[i - 1], t[i])]
    OBVIOUS
  <2> HIDE DEF g
  <2>2. QED
    BY <2>1
<1>2. ASSUME NEW k \in Nat, k \in S PROVE k + 1 \in S
  <2>1. PICK g : g = [i \in 0 .. k |-> IF i = 0 THEN Begin
                                       ELSE After(g[i - 1], t[i])]
    BY <1>2
  <2> DEFINE h == [i \in 0 .. k + 1 |->
                     IF i = k + 1 THEN After(g[k], t[i]) ELSE g[i]]
  <2>2. \A i \in 0 .. k : g[i] = IF i = 0 THEN Begin ELSE After(g[i - 1], t[i])
    BY <2>1
  <2>3. \A i \in 0 .. k + 1 :
          h[i] = IF i = 0 THEN Begin ELSE After(h[i - 1], t[i])
    <3> TAKE i \in 0 .. k + 1
    <3>1. CASE i = 0
      BY <3>1, <2>2
    <3>2. CASE i \in 1 .. k
      BY <3>2, <2>2
    <3>3. CASE i = k + 1
      BY <3>3
    <3>4. QED
      BY <3>1, <3>2, <3>3
  <2>4. h = [i \in 0 .. k + 1 |-> h[i]]
    OBVIOUS
  <2> HIDE DEF h
  <2>5. h = [i \in 0 .. k + 1 |-> IF i = 0 THEN Begin
                                  ELSE After(h[i - 1], t[i])]
    BY <2>3, <2>4, Zenon
  <2>6. QED
    BY <2>5
<1> HIDE DEF S
<1>3. Nat \subseteq S
  BY <1>1, <1>2, SetInduction
<1>4. QED
  BY <1>3 DEF S

LEMMA RunSteps ==
  ASSUME NEW t \in Seq(AllBytes)
  PROVE  /\ Run(t)[0] = Begin
         /\ \A k \in 0 .. Len(t) - 1 :
              Run(t)[k + 1] = After(Run(t)[k], t[k + 1])
<1>1. Len(t) \in Nat
  OBVIOUS
<1> DEFINE g == Run(t)
<1>2. g = [i \in 0 .. Len(t) |-> IF i = 0 THEN Begin
                                 ELSE After(g[i - 1], t[i])]
  BY <1>1, IsRunExists DEF Run
<1> HIDE DEF g
<1>3. g[0] = Begin
  BY <1>1, <1>2
<1>4. ASSUME NEW k \in 0 .. Len(t) - 1
      PROVE  g[k + 1] = After(g[k], t[k + 1])
  <2>1. k + 1 \in 0 .. Len(t) /\ k + 1 # 0 /\ (k + 1) - 1 = k
    BY <1>1
  <2>2. g[k + 1] = After(g[(k + 1) - 1], t[k + 1])
    BY <1>2, <2>1
  <2>3. QED
    BY <2>1, <2>2
<1>5. QED
  BY <1>3, <1>4 DEF g

LEMMA AfterTypes ==
  ASSUME NEW r \in RunRecords, NEW b \in AllBytes
  PROVE  /\ After(r, b) \in RunRecords
         /\ After(r, b).state = WriteState(r.state, b)
         /\ After(r, b).count = r.count + Counted(b)
         /\ After(r, b).pos = r.pos + Moves(b, WriteState(r.state, b))
         /\ \A k \in Nat \ {r.pos} : After(r, b).cells[k] = r.cells[k]
         /\ After(r, b).state # "wrong" =>
              After(r, b).cells[r.pos] = Written(r.cells[r.pos], b)
<1> DEFINE s == WriteState(r.state, b)
           w == Written(r.cells[r.pos], b)
           c == IF s = "wrong" THEN r.cells ELSE [r.cells EXCEPT ![r.pos] = w]
           n == r.count + Counted(b)
           p == r.pos + Moves(b, s)
<1>1. s \in States
  BY SameSwitch DEF RunRecords
<1>2. /\ r.pos \in Nat /\ r.cells \in [Nat -> Seq(AllBytes)]
      /\ r.cells[r.pos] \in Seq(AllBytes)
  BY DEF RunRecords
<1>3. n \in Nat /\ p \in Nat
  <2>1. r.count \in Nat /\ r.pos \in Nat
    BY DEF RunRecords
  <2>2. n \in Nat
    BY <2>1 DEF Counted
  <2>3. p \in Nat
    BY <2>1 DEF Moves
  <2>4. QED
    BY <2>2, <2>3
<1>4. w \in Seq(AllBytes)
  BY <1>2 DEF Written
<1>5. After(r, b) = [state |-> s, count |-> n, pos |-> p, cells |-> c]
  BY DEF After
<1> HIDE DEF s, w, n, p
<1>6. /\ c \in [Nat -> Seq(AllBytes)]
      /\ \A k \in Nat \ {r.pos} : c[k] = r.cells[k]
      /\ s # "wrong" => c[r.pos] = w
  BY <1>2, <1>4
<1> HIDE DEF c
<1>7. After(r, b) \in RunRecords
  BY <1>1, <1>3, <1>5, <1>6 DEF RunRecords
<1>8. /\ After(r, b).state = s /\ After(r, b).count = n
      /\ After(r, b).pos = p /\ After(r, b).cells = c
  BY <1>5
<1>9. After(r, b).state # "wrong" => After(r, b).cells[r.pos] = w
  BY <1>6, <1>8
<1>10. \A k \in Nat \ {r.pos} : After(r, b).cells[k] = r.cells[k]
  BY <1>6, <1>8
<1>11. QED
  BY <1>7, <1>8, <1>9, <1>10 DEF s, w, n, p

LEMMA RunTypes ==
  ASSUME NEW t \in Seq(AllBytes)
  PROVE  \A k \in 0 .. Len(t) : Run(t)[k] \in RunRecords
<1> DEFINE S == {k \in 0 .. Len(t) : Run(t)[k] \in RunRecords}
<1>1. Len(t) \in Nat
  OBVIOUS
<1>2. 0 \in S
  <2>1. [k \in Nat |-> Zero] \in [Nat -> Seq(AllBytes)]
    BY DEF Zero
  <2>2. Begin \in RunRecords
    BY <2>1 DEF Begin, RunRecords, States
  <2>3. QED
    BY <1>1, <2>2, RunSteps
<1>3. ASSUME NEW k \in 0 .. Len(t) - 1, k \in S PROVE k + 1 \in S
  <2>1. t[k + 1] \in AllBytes /\ k + 1 \in 0 .. Len(t)
    BY <1>1
  <2>2. QED
    BY <1>3, <2>1, RunSteps, AfterTypes
<1> HIDE DEF S
<1>4. \A k \in 0 .. Len(t) : k \in S
  BY <1>1, <1>2, <1>3, BoundedInduction
<1>5. QED
  BY <1>4 DEF S

\* Decoding a text begins like decoding its beginning.
LEMMA RunPrefix ==
  ASSUME NEW t \in Seq(AllBytes), NEW d \in Seq(AllBytes), Len(d) <= Len(t),
         \A k \in 1 .. Len(d) : d[k] = t[k]
  PROVE  \A k \in 0 .. Len(d) : Run(d)[k] = Run(t)[k]
<1> DEFINE S == {k \in 0 .. Len(d) : Run(d)[k] = Run(t)[k]}
<1>1. Len(t) \in Nat /\ Len(d) \in Nat
  OBVIOUS
<1>2. 0 \in S
  BY <1>1, RunSteps
<1>3. ASSUME NEW k \in 0 .. Len(d) - 1, k \in S PROVE k + 1 \in S
  <2>1. k \in 0 .. Len(t) - 1 /\ k + 1 \in 1 .. Len(d)
    BY <1>1
  <2>2. /\ Run(d)[k + 1] = After(Run(d)[k], d[k + 1])
        /\ Run(t)[k + 1] = After(Run(t)[k], t[k + 1])
    BY <2>1, RunSteps
  <2>3. QED
    BY <1>3, <2>1, <2>2
<1> HIDE DEF S
<1>4. \A k \in 0 .. Len(d) : k \in S
  BY <1>1, <1>2, <1>3, BoundedInduction
<1>5. QED
  BY <1>4 DEF S

\* What the decoder has written before its position it does not touch again,
\* and it neither goes back nor takes off the count.
LEMMA RunGrows ==
  ASSUME NEW t \in Seq(AllBytes), NEW i \in 0 .. Len(t)
  PROVE  \A j \in i .. Len(t) :
           /\ Run(t)[i].count <= Run(t)[j].count
           /\ Run(t)[i].pos <= Run(t)[j].pos
           /\ \A k \in Nat : k < Run(t)[i].pos =>
                Run(t)[j].cells[k] = Run(t)[i].cells[k]
<1> DEFINE P(j) == /\ Run(t)[i].count <= Run(t)[j].count
                   /\ Run(t)[i].pos <= Run(t)[j].pos
                   /\ \A k \in Nat : k < Run(t)[i].pos =>
                        Run(t)[j].cells[k] = Run(t)[i].cells[k]
           S == {j \in 0 .. Len(t) : i <= j => P(j)}
<1>1. Len(t) \in Nat
  OBVIOUS
<1>2. P(i)
  <2>1. Run(t)[i].count \in Nat /\ Run(t)[i].pos \in Nat
    BY RunTypes DEF RunRecords
  <2>2. QED
    BY <2>1
<1>3. 0 \in S
  <2>1. i <= 0 => i = 0
    BY <1>1
  <2>2. i <= 0 => P(0)
    BY <1>2, <2>1
  <2>3. QED
    BY <1>1, <2>2
<1>4. ASSUME NEW j \in 0 .. Len(t) - 1, j \in S PROVE j + 1 \in S
  <2> DEFINE r == Run(t)[j]
             q == Run(t)[j + 1]
             b == t[j + 1]
             o == Run(t)[i]
  <2>1. j + 1 \in 0 .. Len(t) /\ j \in 0 .. Len(t) /\ b \in AllBytes
    BY <1>1
  <2>2. q = After(r, b) /\ r \in RunRecords /\ o \in RunRecords
    BY <2>1, RunSteps, RunTypes
  <2>3. CASE i <= j
    <3>0. P(j)
      BY <1>4, <2>3
    <3>1. o.count <= r.count /\ o.pos <= r.pos
      BY <3>0
    <3>2. \A k \in Nat : k < o.pos => r.cells[k] = o.cells[k]
      BY <3>0
    <3> HIDE DEF r, q, b, o
    <3>3. q.count = r.count + Counted(b)
      BY <2>1, <2>2, AfterTypes
    <3>4. q.pos = r.pos + Moves(b, WriteState(r.state, b))
      BY <2>1, <2>2, AfterTypes
    <3>5. \A k \in Nat \ {r.pos} : q.cells[k] = r.cells[k]
      BY <2>1, <2>2, AfterTypes
    <3>6. /\ r.count \in Nat /\ r.pos \in Nat /\ o.count \in Nat /\ o.pos \in Nat
          /\ Counted(b) \in Nat /\ Moves(b, WriteState(r.state, b)) \in Nat
      BY <2>2 DEF RunRecords, Counted, Moves
    <3>7. o.count <= q.count /\ o.pos <= q.pos
      BY <3>1, <3>3, <3>4, <3>6
    <3>8. \A k \in Nat : k < o.pos => q.cells[k] = o.cells[k]
      BY <3>1, <3>2, <3>5, <3>6
    <3>9. P(j + 1)
      BY <3>7, <3>8 DEF q, o
    <3> HIDE DEF P
    <3>10. QED
      BY <2>1, <3>9
  <2>4. CASE i = j + 1
    BY <1>2, <2>1, <2>4
  <2>5. CASE j + 1 < i
    BY <2>1, <2>5
  <2>6. QED
    BY <2>1, <2>3, <2>4, <2>5
<1> HIDE DEF S
<1>5. \A j \in 0 .. Len(t) : j \in S
  BY <1>1, <1>3, <1>4, BoundedInduction
<1>6. QED
  BY <1>5 DEF S

-----------------------------------------------------------------------------
(***************************************************************************)
(* The second pass fits into the buffer of the first.                      *)
(***************************************************************************)

\* The states in which no code point is begun.
Between == {"begin", "one1", "two2", "three3", "four4"}

LEMMA WriteStep ==
  ASSUME NEW s \in States, NEW b \in AllBytes, s # "wrong",
         WriteState(s, b) # "wrong"
  PROVE  /\ s \in Between => Moves(b, WriteState(s, b)) <= Counted(b)
         /\ s \in Between /\ WriteState(s, b) \notin Between =>
              Moves(b, WriteState(s, b)) < Counted(b)
         /\ s \notin Between =>
              Moves(b, WriteState(s, b)) <= Counted(b) + 1
         /\ s \notin Between /\ WriteState(s, b) \notin Between =>
              Moves(b, WriteState(s, b)) <= Counted(b)
BY ByteKinds DEF Moves, Counted, Between, Completes, WriteState,
   WriteContinued, First, LeadBytes, States

\* As long as nothing is wrong, as many code points are begun as counted: the
\* position is that of a code point that was counted, or the one behind.
LEMMA PosBound ==
  ASSUME NEW t \in Seq(AllBytes), NEW n \in 0 .. Len(t),
         \A k \in 0 .. n : Run(t)[k].state # "wrong"
  PROVE  /\ Run(t)[n].pos <= Run(t)[n].count
         /\ Run(t)[n].state \notin Between => Run(t)[n].pos < Run(t)[n].count
<1> DEFINE P(r) == /\ r.pos <= r.count
                   /\ r.state \notin Between => r.pos < r.count
           S == {k \in 0 .. n : P(Run(t)[k])}
<1>1. n \in Nat /\ Len(t) \in Nat /\ n <= Len(t)
  OBVIOUS
<1>2. 0 \in S
  <2>1. P(Begin)
    BY DEF Begin, Between
  <2> HIDE DEF P
  <2>2. QED
    BY <1>1, <2>1, RunSteps
<1>3. ASSUME NEW k \in 0 .. n - 1, k \in S PROVE k + 1 \in S
  <2> DEFINE r == Run(t)[k]
             b == t[k + 1]
             s == WriteState(r.state, b)
             q == Run(t)[k + 1]
  <2>1. /\ k + 1 \in 0 .. n /\ k \in 0 .. n /\ k \in 0 .. Len(t) - 1
        /\ k \in 0 .. Len(t) /\ b \in AllBytes
    BY <1>1
  <2>2. /\ q = After(r, b) /\ r \in RunRecords
        /\ r.state # "wrong" /\ q.state # "wrong"
    BY <2>1, RunSteps, RunTypes
  <2>3. P(r)
    BY <1>3
  <2> HIDE DEF r, b, q
  <2>4. /\ q.state = s /\ q.count = r.count + Counted(b)
        /\ q.pos = r.pos + Moves(b, s)
    BY <2>1, <2>2, AfterTypes
  <2>5. /\ r.state \in States /\ r.count \in Nat /\ r.pos \in Nat
        /\ Counted(b) \in Nat /\ Moves(b, s) \in Nat
    BY <2>2 DEF RunRecords, Counted, Moves
  <2>6. /\ r.state \in Between => Moves(b, s) <= Counted(b)
        /\ r.state \in Between /\ s \notin Between => Moves(b, s) < Counted(b)
        /\ r.state \notin Between => Moves(b, s) <= Counted(b) + 1
        /\ r.state \notin Between /\ s \notin Between =>
             Moves(b, s) <= Counted(b)
    BY <2>1, <2>2, <2>4, <2>5, WriteStep
  <2> HIDE DEF s
  <2>7. P(q)
    BY <2>3, <2>4, <2>5, <2>6
  <2> HIDE DEF P
  <2>8. QED
    BY <2>1, <2>7 DEF q
<1> HIDE DEF S
<1>4. \A k \in 0 .. n : k \in S
  BY <1>1, <1>2, <1>3, BoundedInduction
<1>5. n \in S
  BY <1>1, <1>4
<1>6. QED
  BY <1>5 DEF S

-----------------------------------------------------------------------------
(***************************************************************************)
(* The inductive invariant.                                                *)
(***************************************************************************)

\* The decoder takes the text.
Accepted(t) == \A k \in 0 .. Len(t) : Run(t)[k].state # "wrong"

Total(t) == Run(t)[Len(t)].count

Trace(t, n) == [k \in 1 .. n |-> Run(t)[k].state]

\* The buffer for the text t, after n bytes of it.
Buffer(t, n) == [j \in 0 .. Total(t) |-> Run(t)[n].cells[j]]

\* The string that is made of the text.
Decoded(t) ==
  String(t, Total(t), [Buffer(t, Len(t)) EXCEPT ![Run(t)[Len(t)].pos] = Zero])

GoodString(s) ==
  s.utf8 \in Seq(AllBytes) /\ Accepted(s.utf8) /\ s = Decoded(s.utf8)

TypeInv ==
  /\ text \in Seq(AllBytes)
  /\ pass \in {"idle", "count", "write"}
  /\ idx \in 0 .. Len(text)
  /\ result \in {"none", "ok", "invalid"}

IdleInv ==
  pass = "idle" =>
    /\ text = <<>> /\ idx = 0 /\ state = "begin" /\ len = 0 /\ trace = <<>>
    /\ unicode = <<>> /\ unicode_idx = 0

CountInv ==
  pass = "count" =>
    /\ state = Run(text)[idx].state
    /\ len = Run(text)[idx].count
    /\ trace = Trace(text, idx)
    /\ \A k \in 0 .. idx - 1 : Run(text)[k].state # "wrong"
    /\ unicode = <<>> /\ unicode_idx = 0

WriteInv ==
  pass = "write" =>
    /\ Accepted(text)
    /\ len = Total(text)
    /\ trace = Trace(text, Len(text))
    /\ state = Run(text)[idx].state
    /\ unicode_idx = Run(text)[idx].pos
    /\ unicode = Buffer(text, idx)

OriginalInv ==
  original # NoString =>
    /\ GoodString(original) /\ result = "ok"
    /\ pass # "idle" => text = CPart(original.utf8) /\ duplicate = NoString

DuplicateInv ==
  duplicate # NoString =>
    /\ original # NoString /\ GoodString(duplicate)
    /\ duplicate.utf8 = CPart(original.utf8)

StringInv ==
  TypeInv /\ IdleInv /\ CountInv /\ WriteInv /\ OriginalInv /\ DuplicateInv

-----------------------------------------------------------------------------
(***************************************************************************)
(* What the invariant is made of.                                          *)
(***************************************************************************)
LEMMA RunFields ==
  ASSUME NEW t \in Seq(AllBytes), NEW n \in 0 .. Len(t)
  PROVE  /\ Run(t)[n].state \in States
         /\ Run(t)[n].count \in Nat
         /\ Run(t)[n].pos \in Nat
         /\ Run(t)[n].cells \in [Nat -> Seq(AllBytes)]
<1>1. Run(t)[n] \in RunRecords
  BY RunTypes
<1>2. QED
  BY <1>1 DEF RunRecords

LEMMA RunStep ==
  ASSUME NEW t \in Seq(AllBytes), NEW n \in 0 .. Len(t) - 1
  PROVE  LET r == Run(t)[n]
             q == Run(t)[n + 1]
             b == t[n + 1]
         IN /\ b \in AllBytes
            /\ q.state = WriteState(r.state, b)
            /\ q.state = CountState(r.state, b)
            /\ q.count = r.count + Counted(b)
            /\ q.pos = r.pos + Moves(b, q.state)
            /\ \A k \in Nat \ {r.pos} : q.cells[k] = r.cells[k]
            /\ q.state # "wrong" =>
                 q.cells[r.pos] = Written(r.cells[r.pos], b)
<1> DEFINE r == Run(t)[n]
           q == Run(t)[n + 1]
           b == t[n + 1]
<1>1. n \in 0 .. Len(t) /\ n + 1 \in 1 .. Len(t) /\ Len(t) \in Nat
  OBVIOUS
<1>2. b \in AllBytes
  BY <1>1
<1>3. r \in RunRecords /\ r.state \in States
  BY <1>1, RunTypes, RunFields
<1>4. q = After(r, b)
  BY RunSteps
<1> HIDE DEF r, q, b
<1>5. /\ q.state = WriteState(r.state, b)
      /\ q.count = r.count + Counted(b)
      /\ q.pos = r.pos + Moves(b, WriteState(r.state, b))
      /\ \A k \in Nat \ {r.pos} : q.cells[k] = r.cells[k]
      /\ q.state # "wrong" => q.cells[r.pos] = Written(r.cells[r.pos], b)
  BY <1>2, <1>3, <1>4, AfterTypes
<1>6. q.state = CountState(r.state, b)
  BY <1>2, <1>3, <1>5, SameSwitch
<1>7. QED
  BY <1>2, <1>5, <1>6 DEF r, q, b

\* The position of the second pass is inside the buffer of the first.
LEMMA InRoom ==
  ASSUME NEW t \in Seq(AllBytes), Accepted(t), NEW n \in 0 .. Len(t)
  PROVE  /\ Total(t) \in Nat
         /\ Run(t)[n].pos \in 0 .. Total(t)
         /\ n < Len(t) /\ t[n + 1] \in LeadBytes => Run(t)[n].pos < Total(t)
<1>1. Len(t) \in Nat /\ Len(t) \in 0 .. Len(t)
  OBVIOUS
<1>2. /\ Total(t) \in Nat /\ Run(t)[n].count \in Nat /\ Run(t)[n].pos \in Nat
      /\ Run(t)[n].count <= Total(t)
  <2>1. Len(t) \in n .. Len(t)
    BY <1>1
  <2>2. Run(t)[n].count <= Run(t)[Len(t)].count
    BY <2>1, RunGrows
  <2>3. QED
    BY <1>1, <2>2, RunFields DEF Total
<1>3. Run(t)[n].pos <= Run(t)[n].count
  BY <1>1, PosBound DEF Accepted
<1>4. ASSUME n < Len(t), t[n + 1] \in LeadBytes
      PROVE  Run(t)[n].pos < Total(t)
  <2>1. n \in 0 .. Len(t) - 1 /\ n + 1 \in 0 .. Len(t)
    BY <1>1, <1>4
  <2>2. Counted(t[n + 1]) = 1
    BY <1>4 DEF Counted
  <2>3. Run(t)[n + 1].count = Run(t)[n].count + 1
    BY <2>1, <2>2, RunStep
  <2>4. Run(t)[n + 1].count <= Total(t)
    <3>1. Len(t) \in n + 1 .. Len(t)
      BY <1>1, <2>1
    <3>2. QED
      BY <2>1, <3>1, RunGrows DEF Total
  <2>5. QED
    BY <1>2, <1>3, <2>3, <2>4
<1>5. QED
  BY <1>2, <1>3, <1>4

LEMMA BufferStep ==
  ASSUME NEW t \in Seq(AllBytes), Accepted(t), NEW n \in 0 .. Len(t) - 1
  PROVE  Buffer(t, n + 1) =
           [Buffer(t, n) EXCEPT ![Run(t)[n].pos] = Written(@, t[n + 1])]
<1> DEFINE r == Run(t)[n]
           q == Run(t)[n + 1]
           b == t[n + 1]
           m == Total(t)
<1>1. n \in 0 .. Len(t) /\ n + 1 \in 0 .. Len(t) /\ Len(t) \in Nat
  OBVIOUS
<1>2. r.pos \in 0 .. m /\ m \in Nat
  BY <1>1, InRoom
<1>3. q.state # "wrong"
  BY <1>1 DEF Accepted
<1>4. \A k \in Nat \ {r.pos} : q.cells[k] = r.cells[k]
  BY RunStep
<1>5. q.cells[r.pos] = Written(r.cells[r.pos], b)
  BY <1>3, RunStep
<1>6. Buffer(t, n) = [j \in 0 .. m |-> r.cells[j]]
  BY DEF Buffer
<1>7. Buffer(t, n + 1) = [j \in 0 .. m |-> q.cells[j]]
  BY DEF Buffer
<1> HIDE DEF r, q, b, m
<1> DEFINE u == [j \in 0 .. m |-> r.cells[j]]
           v == [u EXCEPT ![r.pos] = Written(u[r.pos], b)]
<1>8. [j \in 0 .. m |-> q.cells[j]] = v
  <2>1. v = [j \in 0 .. m |-> v[j]]
    OBVIOUS
  <2>2. ASSUME NEW j \in 0 .. m PROVE v[j] = q.cells[j]
    <3>1. CASE j = r.pos
      BY <1>5, <3>1
    <3>2. CASE j # r.pos
      BY <1>2, <1>4, <3>2
    <3>3. QED
      BY <3>1, <3>2
  <2> HIDE DEF v
  <2>3. [j \in 0 .. m |-> q.cells[j]] = [j \in 0 .. m |-> v[j]]
    BY <2>2
  <2>4. QED
    BY <2>1, <2>3
<1>9. QED
  BY <1>6, <1>7, <1>8 DEF r, b

LEMMA TraceTypes ==
  ASSUME NEW t \in Seq(AllBytes), NEW n \in 0 .. Len(t)
  PROVE  Trace(t, n) \in Seq(States)
<1>1. n \in Nat /\ \A k \in 1 .. n : Run(t)[k].state \in States
  BY RunFields
<1>2. Trace(t, n) \in [1 .. n -> States]
  BY <1>1 DEF Trace
<1>3. QED
  BY <1>1, <1>2

LEMMA TraceStep ==
  ASSUME NEW t \in Seq(AllBytes), NEW n \in 0 .. Len(t) - 1
  PROVE  Append(Trace(t, n), Run(t)[n + 1].state) = Trace(t, n + 1)
<1> DEFINE u == Trace(t, n)
           v == Trace(t, n + 1)
           s == Run(t)[n + 1].state
<1>1. n \in Nat /\ n + 1 \in 0 .. Len(t) /\ Len(t) \in Nat
  OBVIOUS
<1>2. \A k \in 0 .. n + 1 : Run(t)[k].state \in States
  BY <1>1, RunFields
<1>3. u \in [1 .. n -> States] /\ v \in [1 .. n + 1 -> States]
  BY <1>2 DEF Trace
<1>4. \A k \in 1 .. n : v[k] = u[k]
  BY DEF Trace
<1>5. v[n + 1] = s
  BY <1>1 DEF Trace
<1>6. s \in States
  BY <1>1, <1>2
<1> HIDE DEF u, v, s
<1>7. /\ u \in Seq(States) /\ Len(u) = n
      /\ v \in Seq(States) /\ Len(v) = n + 1
  BY <1>1, <1>3
<1>8. Append(u, s) = v
  BY <1>1, <1>4, <1>5, <1>6, <1>7
<1>9. QED
  BY <1>8 DEF u, v, s

LEMMA DecodedFields ==
  ASSUME NEW t
  PROVE  /\ Decoded(t).utf8 = t
         /\ Decoded(t).unicode_len = Total(t)
         /\ Decoded(t).unicode =
              [Buffer(t, Len(t)) EXCEPT ![Run(t)[Len(t)].pos] = Zero]
BY DEF Decoded, String

\* What is left of an accepted text is accepted.
LEMMA PartAccepted ==
  ASSUME NEW t \in Seq(AllBytes), Accepted(t)
  PROVE  Accepted(CPart(t))
<1> DEFINE d == CPart(t)
<1>1. d \in Seq(AllBytes) /\ Len(d) = StrLen(t)
      /\ \A k \in 1 .. StrLen(t) : d[k] = t[k]
  BY CPartFacts
<1>2. StrLen(t) \in 0 .. Len(t) /\ Len(t) \in Nat
  BY StrLenFacts
<1> HIDE DEF d
<1>3. \A k \in 0 .. Len(d) : Run(d)[k] = Run(t)[k]
  BY <1>1, <1>2, RunPrefix
<1>4. \A k \in 0 .. Len(d) : Run(d)[k].state # "wrong"
  BY <1>1, <1>2, <1>3 DEF Accepted
<1>5. QED
  BY <1>4 DEF Accepted, d

-----------------------------------------------------------------------------
(***************************************************************************)
(* The steps.                                                              *)
(***************************************************************************)
LEMMA TraceZero ==
  ASSUME NEW t
  PROVE  Trace(t, 0) = <<>>
BY DEF Trace

LEMMA InitStrings ==
  ASSUME Init
  PROVE  StringInv
<1>1. <<>> \in Seq(AllBytes) /\ Len(<<>>) = 0
  OBVIOUS
<1>2. TypeInv /\ IdleInv /\ CountInv /\ WriteInv
  BY <1>1 DEF Init, TypeInv, IdleInv, CountInv, WriteInv
<1>3. OriginalInv /\ DuplicateInv
  BY DEF Init, OriginalInv, DuplicateInv
<1>4. QED
  BY <1>2, <1>3 DEF StringInv

\* A constructor starts with a text and its locals cleared.
LEMMA DecodeStarts ==
  ASSUME NEW source \in Seq(AllBytes), NEW begin \in Nat, NEW end \in Int,
         Decode(source, begin, end), TypeInv, UNCHANGED result
  PROVE  (TypeInv /\ IdleInv /\ CountInv /\ WriteInv)'
<1>1. text' \in Seq(AllBytes)
  BY LengthFacts, CopiedFacts DEF Decode
<1>2. Len(text') \in Nat
  BY <1>1
<1>3. TypeInv'
  BY <1>1, <1>2 DEF Decode, TypeInv
<1>4. Run(text')[0] = Begin
  BY <1>1, RunSteps
<1>5. CountInv'
  BY <1>4, TraceZero DEF Decode, CountInv, Begin
<1>6. IdleInv' /\ WriteInv'
  BY DEF Decode, IdleInv, WriteInv
<1>7. QED
  BY <1>3, <1>5, <1>6

\* A constructor returns with its locals forgotten.
LEMMA ReturnsClean ==
  ASSUME NEW res \in {"none", "ok", "invalid"}, Returns(res)
  PROVE  (TypeInv /\ IdleInv /\ CountInv /\ WriteInv)'
<1>1. <<>> \in Seq(AllBytes) /\ Len(<<>>) = 0
  OBVIOUS
<1>2. TypeInv'
  BY <1>1 DEF Returns, TypeInv
<1>3. IdleInv' /\ CountInv' /\ WriteInv'
  BY DEF Returns, IdleInv, CountInv, WriteInv
<1>4. QED
  BY <1>2, <1>3

LEMMA SourcesAreTexts == Sources \subseteq Seq(AllBytes)
<1> SUFFICES ASSUME NEW s \in Sources PROVE s \in Seq(AllBytes)
  OBVIOUS
<1>1. PICK n \in 0 .. MaxLen : s \in [1 .. n -> Bytes]
  BY DEF Sources
<1>2. n \in Nat /\ s \in [1 .. n -> AllBytes]
  BY <1>1, StringAssumption DEF AllBytes
<1>3. QED
  BY <1>2

LEMMA NewFromUtf8Keeps ==
  ASSUME StringInv, NewFromUtf8
  PROVE  StringInv'
<1> USE DEF StringInv
<1>1. PICK source \in Sources, begin \in 0 .. MaxLen, end \in -1 .. MaxLen + 1 :
        Decode(source, begin, end)
  BY DEF NewFromUtf8
<1>2. source \in Seq(AllBytes) /\ begin \in Nat /\ end \in Int
  BY SourcesAreTexts, StringAssumption
<1>3. UNCHANGED <<original, duplicate, result>> /\ original = NoString
  BY DEF NewFromUtf8, strings
<1>4. (TypeInv /\ IdleInv /\ CountInv /\ WriteInv)'
  BY <1>1, <1>2, <1>3, DecodeStarts
<1>5. OriginalInv' /\ DuplicateInv'
  BY <1>3 DEF OriginalInv, DuplicateInv
<1>6. QED
  BY <1>4, <1>5

LEMMA DuplicateKeeps ==
  ASSUME StringInv, Duplicate
  PROVE  StringInv'
<1> USE DEF StringInv
<1>1. /\ pass = "idle" /\ original # NoString /\ duplicate = NoString
      /\ Decode(original.utf8, 0, -1)
      /\ UNCHANGED <<original, duplicate, result>>
  BY DEF Duplicate, strings, Source
<1>2. GoodString(original) /\ original.utf8 \in Seq(AllBytes)
  BY <1>1 DEF OriginalInv, GoodString
<1>3. (TypeInv /\ IdleInv /\ CountInv /\ WriteInv)'
  BY <1>1, <1>2, DecodeStarts
<1>4. text' = CPart(original.utf8)
  BY <1>1, <1>2, LengthFacts DEF Decode, CPart
<1>5. OriginalInv'
  BY <1>1, <1>4 DEF OriginalInv
<1>6. DuplicateInv'
  BY <1>1 DEF DuplicateInv
<1>7. QED
  BY <1>3, <1>5, <1>6

LEMMA DeleteKeeps ==
  ASSUME StringInv, Delete
  PROVE  StringInv'
<1> USE DEF StringInv
<1>1. /\ original' = NoString /\ duplicate' = NoString /\ result' = "none"
      /\ UNCHANGED <<text, pass, idx, state, len, unicode, unicode_idx, trace>>
  BY DEF Delete, decoder
<1>2. TypeInv'
  BY <1>1 DEF TypeInv
<1>3. IdleInv' /\ CountInv' /\ WriteInv'
  BY <1>1 DEF IdleInv, CountInv, WriteInv
<1>4. OriginalInv' /\ DuplicateInv'
  BY <1>1 DEF OriginalInv, DuplicateInv
<1>5. QED
  BY <1>2, <1>3, <1>4

LEMMA CountByteKeeps ==
  ASSUME StringInv, CountByte
  PROVE  StringInv'
<1> USE DEF StringInv
<1> DEFINE b == text[idx + 1]
           r == Run(text)[idx]
           q == Run(text)[idx + 1]
<1>1. /\ pass = "count" /\ idx < Len(text) /\ state # "wrong"
      /\ state' = CountState(state, b)
      /\ trace' = Append(trace, CountState(state, b))
      /\ len' = len + Counted(b)
      /\ idx' = idx + 1
      /\ UNCHANGED <<text, pass, unicode, unicode_idx>>
      /\ UNCHANGED <<original, duplicate, result>>
  BY DEF CountByte, strings
<1>2. /\ text \in Seq(AllBytes) /\ idx \in 0 .. Len(text)
      /\ Len(text) \in Nat /\ idx \in 0 .. Len(text) - 1
  BY <1>1 DEF TypeInv
<1>3. /\ state = r.state /\ len = r.count /\ trace = Trace(text, idx)
      /\ \A k \in 0 .. idx - 1 : Run(text)[k].state # "wrong"
      /\ unicode = <<>> /\ unicode_idx = 0
  BY <1>1 DEF CountInv
<1>4. q.state = CountState(r.state, b) /\ q.count = r.count + Counted(b)
  BY <1>2, RunStep
<1>5. Append(Trace(text, idx), q.state) = Trace(text, idx + 1)
  BY <1>2, TraceStep
<1>6. \A k \in 0 .. (idx + 1) - 1 : Run(text)[k].state # "wrong"
  BY <1>1, <1>2, <1>3
<1>7. state' = q.state /\ len' = q.count /\ trace' = Trace(text, idx + 1)
  BY <1>1, <1>3, <1>4, <1>5
<1> HIDE DEF b, r
<1>8. CountInv'
  BY <1>1, <1>3, <1>6, <1>7 DEF CountInv
<1>9. TypeInv'
  BY <1>1, <1>2 DEF TypeInv
<1>10. IdleInv' /\ WriteInv'
  BY <1>1 DEF IdleInv, WriteInv
<1>11. OriginalInv' /\ DuplicateInv'
  BY <1>1 DEF OriginalInv, DuplicateInv
<1>12. QED
  BY <1>8, <1>9, <1>10, <1>11

\* A duplicate is never refused.
LEMMA CountFailsKeeps ==
  ASSUME StringInv, CountFails
  PROVE  StringInv'
<1> USE DEF StringInv
<1>1. /\ pass = "count" /\ state = "wrong" /\ Returns("invalid")
      /\ UNCHANGED <<original, duplicate>>
  BY DEF CountFails
<1>2. idx \in 0 .. Len(text) /\ state = Run(text)[idx].state
  BY <1>1 DEF TypeInv, CountInv
<1>3. original = NoString
  <2> SUFFICES ASSUME original # NoString PROVE FALSE
    OBVIOUS
  <2>1. GoodString(original) /\ text = CPart(original.utf8)
    BY <1>1 DEF OriginalInv
  <2>2. Accepted(text)
    BY <2>1, PartAccepted DEF GoodString
  <2>3. QED
    BY <1>1, <1>2, <2>2 DEF Accepted
<1>4. (TypeInv /\ IdleInv /\ CountInv /\ WriteInv)'
  BY <1>1, ReturnsClean
<1>5. OriginalInv' /\ DuplicateInv'
  BY <1>1, <1>3 DEF OriginalInv, DuplicateInv
<1>6. QED
  BY <1>4, <1>5

LEMMA CountDoneKeeps ==
  ASSUME StringInv, CountDone
  PROVE  StringInv'
<1> USE DEF StringInv
<1>1. /\ pass = "count" /\ idx = Len(text) /\ state # "wrong"
      /\ unicode' = [k \in 0 .. len |-> Zero]
      /\ pass' = "write" /\ idx' = 0 /\ state' = "begin" /\ unicode_idx' = 0
      /\ UNCHANGED <<text, len, trace>>
      /\ UNCHANGED <<original, duplicate, result>>
  BY DEF CountDone, NewUnicode, strings
<1>2. text \in Seq(AllBytes) /\ Len(text) \in Nat
  BY DEF TypeInv
<1>3. /\ state = Run(text)[Len(text)].state /\ len = Total(text)
      /\ trace = Trace(text, Len(text))
      /\ \A k \in 0 .. Len(text) - 1 : Run(text)[k].state # "wrong"
  BY <1>1 DEF CountInv, Total
<1>4. Accepted(text)
  <2>1. ASSUME NEW k \in 0 .. Len(text) PROVE Run(text)[k].state # "wrong"
    BY <1>1, <1>2, <1>3
  <2>2. QED
    BY <2>1 DEF Accepted
<1>5. Run(text)[0] = Begin
  BY <1>2, RunSteps
<1>6. Total(text) \in Nat
  BY <1>2, <1>4, InRoom
<1>7. Buffer(text, 0) = [k \in 0 .. len |-> Zero]
  BY <1>3, <1>5, <1>6 DEF Buffer, Begin
<1>8. WriteInv'
  BY <1>1, <1>3, <1>4, <1>5, <1>7 DEF WriteInv, Begin
<1>9. TypeInv'
  BY <1>1, <1>2 DEF TypeInv
<1>10. IdleInv' /\ CountInv'
  BY <1>1 DEF IdleInv, CountInv
<1>11. OriginalInv' /\ DuplicateInv'
  BY <1>1 DEF OriginalInv, DuplicateInv
<1>12. QED
  BY <1>8, <1>9, <1>10, <1>11

LEMMA WriteByteKeeps ==
  ASSUME StringInv, WriteByte
  PROVE  StringInv'
<1> USE DEF StringInv
<1> DEFINE b == text[idx + 1]
           s == WriteState(state, b)
           r == Run(text)[idx]
           q == Run(text)[idx + 1]
<1>1. /\ pass = "write" /\ idx < Len(text)
      /\ state' = s
      /\ unicode' = IF s = "wrong" THEN unicode
                    ELSE [unicode EXCEPT ![unicode_idx] = Written(@, b)]
      /\ unicode_idx' = unicode_idx + Moves(b, s)
      /\ idx' = idx + 1
      /\ UNCHANGED <<text, pass, len, trace>>
      /\ UNCHANGED <<original, duplicate, result>>
  BY DEF WriteByte, strings
<1>2. /\ text \in Seq(AllBytes) /\ idx \in 0 .. Len(text)
      /\ Len(text) \in Nat /\ idx \in 0 .. Len(text) - 1
      /\ idx + 1 \in 0 .. Len(text)
  BY <1>1 DEF TypeInv
<1>3. /\ Accepted(text) /\ len = Total(text)
      /\ trace = Trace(text, Len(text))
      /\ state = r.state /\ unicode_idx = r.pos
      /\ unicode = Buffer(text, idx)
  BY <1>1 DEF WriteInv
<1>4. q.state = WriteState(r.state, b) /\ q.pos = r.pos + Moves(b, q.state)
  BY <1>2, RunStep
<1>5. q.state # "wrong"
  BY <1>2, <1>3 DEF Accepted
<1>6. Buffer(text, idx + 1) =
        [Buffer(text, idx) EXCEPT ![r.pos] = Written(@, b)]
  BY <1>2, <1>3, BufferStep
<1>7. s = q.state
  BY <1>3, <1>4
<1> HIDE DEF s, b, r
<1>8. /\ state' = q.state /\ unicode_idx' = q.pos
      /\ unicode' = Buffer(text, idx + 1)
  BY <1>1, <1>3, <1>4, <1>5, <1>6, <1>7
<1>9. WriteInv'
  BY <1>1, <1>3, <1>8 DEF WriteInv
<1>10. TypeInv'
  BY <1>1, <1>2 DEF TypeInv
<1>11. IdleInv' /\ CountInv'
  BY <1>1 DEF IdleInv, CountInv
<1>12. OriginalInv' /\ DuplicateInv'
  BY <1>1 DEF OriginalInv, DuplicateInv
<1>13. QED
  BY <1>9, <1>10, <1>11, <1>12

LEMMA WriteDoneKeeps ==
  ASSUME StringInv, WriteDone
  PROVE  StringInv'
<1> USE DEF StringInv
<1> DEFINE s == Decoded(text)
<1>1. /\ pass = "write" /\ idx = Len(text) /\ Returns("ok")
      /\ text \in Seq(AllBytes)
  BY DEF WriteDone, TypeInv
<1>2. /\ Accepted(text) /\ len = Total(text)
      /\ unicode_idx = Run(text)[Len(text)].pos
      /\ unicode = Buffer(text, Len(text))
  BY <1>1 DEF WriteInv
<1>3. String(text, len, [unicode EXCEPT ![unicode_idx] = Zero]) = s
  BY <1>2 DEF Decoded
<1>4. IF original = NoString
      THEN original' = s /\ duplicate' = duplicate
      ELSE duplicate' = s /\ original' = original
  BY <1>3 DEF WriteDone
<1>5. s.utf8 = text
  BY DecodedFields
<1>6. GoodString(s)
  BY <1>1, <1>2, <1>5 DEF GoodString
<1>7. pass' = "idle" /\ result' = "ok"
  BY <1>1 DEF Returns
<1>8. (TypeInv /\ IdleInv /\ CountInv /\ WriteInv)'
  BY <1>1, ReturnsClean
<1> HIDE DEF s
<1>9. CASE original = NoString
  <2>1. original' = s /\ duplicate' = duplicate /\ duplicate = NoString
    BY <1>4, <1>9 DEF DuplicateInv
  <2>2. OriginalInv' /\ DuplicateInv'
    BY <1>6, <1>7, <2>1 DEF OriginalInv, DuplicateInv
  <2>3. QED
    BY <1>8, <2>2
<1>10. CASE original # NoString
  <2>1. original' = original /\ duplicate' = s
    BY <1>4, <1>10
  <2>2. GoodString(original) /\ text = CPart(original.utf8)
    BY <1>1, <1>10 DEF OriginalInv
  <2>3. OriginalInv' /\ DuplicateInv'
    BY <1>5, <1>6, <1>7, <1>10, <2>1, <2>2 DEF OriginalInv, DuplicateInv
  <2>4. QED
    BY <1>8, <2>3
<1>11. QED
  BY <1>9, <1>10

LEMMA NextKeepsStrings ==
  ASSUME StringInv, [Next]_svars
  PROVE  StringInv'
<1>1. CASE UNCHANGED svars
  <2>1. /\ UNCHANGED <<text, pass, idx, state, len, unicode, unicode_idx>>
        /\ UNCHANGED <<trace, original, duplicate, result>>
    BY <1>1 DEF svars, decoder, strings
  <2>2. TypeInv' /\ IdleInv'
    BY <2>1 DEF StringInv, TypeInv, IdleInv
  <2>3. CountInv' /\ WriteInv'
    BY <2>1 DEF StringInv, CountInv, WriteInv
  <2>4. OriginalInv' /\ DuplicateInv'
    BY <2>1 DEF StringInv, OriginalInv, DuplicateInv
  <2>5. QED
    BY <2>2, <2>3, <2>4 DEF StringInv
<1>2. QED
  BY <1>1, NewFromUtf8Keeps, DuplicateKeeps, DeleteKeeps, CountByteKeeps,
     CountFailsKeeps, CountDoneKeeps, WriteByteKeeps, WriteDoneKeeps DEF Next

\* The decoder's two passes are two runs of one function of the text, and the
\* strings are what that function makes of accepted texts.
THEOREM StringsCorrect == Spec => []StringInv
<1>1. Init => StringInv
  BY InitStrings
<1>2. StringInv /\ [Next]_svars => StringInv'
  BY NextKeepsStrings
<1>3. QED
  BY <1>1, <1>2, PTL DEF Spec

-----------------------------------------------------------------------------
(***************************************************************************)
(* What follows from the invariant.                                        *)
(***************************************************************************)

\* Every variable has its type: the index stays inside the text and the state
\* is one of the parser's.
THEOREM StringTypeOK == Spec => []TypeOK
<1>1. StringInv => TypeOK
  <2> SUFFICES ASSUME StringInv PROVE TypeOK
    OBVIOUS
  <2>1. /\ text \in Seq(AllBytes) /\ idx \in 0 .. Len(text)
        /\ pass \in {"idle", "count", "write"} /\ Len(text) \in Nat
        /\ result \in {"none", "ok", "invalid"} /\ Len(text) \in 0 .. Len(text)
    BY DEF StringInv, TypeInv
  <2>2. /\ state \in States /\ len \in Nat /\ unicode_idx \in Nat
        /\ trace \in Seq(States)
    <3>1. CASE pass = "idle"
      <4>1. /\ state = "begin" /\ len = 0 /\ unicode_idx = 0 /\ trace = <<>>
        BY <3>1 DEF StringInv, IdleInv
      <4>2. QED
        BY <4>1 DEF States
    <3>2. CASE pass = "count"
      <4>1. /\ state = Run(text)[idx].state /\ len = Run(text)[idx].count
            /\ trace = Trace(text, idx) /\ unicode_idx = 0
        BY <3>2 DEF StringInv, CountInv
      <4>2. QED
        BY <2>1, <4>1, RunFields, TraceTypes
    <3>3. CASE pass = "write"
      <4>1. /\ Accepted(text) /\ len = Total(text)
            /\ trace = Trace(text, Len(text))
            /\ state = Run(text)[idx].state
            /\ unicode_idx = Run(text)[idx].pos
        BY <3>3 DEF StringInv, WriteInv
      <4>2. QED
        BY <2>1, <4>1, RunFields, TraceTypes DEF Total
    <3>4. QED
      BY <2>1, <3>1, <3>2, <3>3
  <2>3. QED
    BY <2>1, <2>2 DEF TypeOK, AllBytes
<1>2. QED
  BY <1>1, StringsCorrect, PTL

\* The second pass writes inside the buffer that the first pass sized.
THEOREM SecondPassFits == Spec => []WritesInBuffer
<1>1. StringInv => WritesInBuffer
  <2> SUFFICES ASSUME StringInv, pass = "write"
               PROVE  /\ DOMAIN unicode = 0 .. len
                      /\ unicode_idx \in DOMAIN unicode
                      /\ idx < Len(text) /\ text[idx + 1] \in LeadBytes
                           => unicode_idx < len
    BY DEF WritesInBuffer
  <2>1. text \in Seq(AllBytes) /\ idx \in 0 .. Len(text)
    BY DEF StringInv, TypeInv
  <2>2. /\ Accepted(text) /\ len = Total(text)
        /\ unicode_idx = Run(text)[idx].pos /\ unicode = Buffer(text, idx)
    BY DEF StringInv, WriteInv
  <2>3. DOMAIN unicode = 0 .. len
    BY <2>2 DEF Buffer
  <2>4. QED
    BY <2>1, <2>2, <2>3, InRoom
<1>2. QED
  BY <1>1, StringsCorrect, PTL

\* The second pass is in the state in which the first one was, and never finds
\* wrong what the first accepted.
THEOREM SecondPassAgrees == Spec => []PassesAgree
<1>1. StringInv => PassesAgree
  <2> SUFFICES ASSUME StringInv, pass = "write"
               PROVE  /\ state = IF idx = 0 THEN "begin" ELSE trace[idx]
                      /\ state # "wrong"
    BY DEF PassesAgree
  <2>1. /\ text \in Seq(AllBytes) /\ idx \in 0 .. Len(text)
        /\ Len(text) \in Nat
    BY DEF StringInv, TypeInv
  <2>2. /\ Accepted(text) /\ trace = Trace(text, Len(text))
        /\ state = Run(text)[idx].state
    BY DEF StringInv, WriteInv
  <2>3. idx = 0 => state = "begin"
    BY <2>1, <2>2, RunSteps DEF Begin
  <2>4. idx # 0 => state = trace[idx]
    BY <2>1, <2>2 DEF Trace
  <2>5. QED
    BY <2>1, <2>2, <2>3, <2>4 DEF Accepted
<1>2. QED
  BY <1>1, StringsCorrect, PTL

-----------------------------------------------------------------------------
(***************************************************************************)
(* A duplicate is the same C string.                                       *)
(***************************************************************************)
Terminators == {Zero, <<"nul">>}

\* The first terminator ends the string, whatever comes after it.
LEMMA CStringEnds ==
  ASSUME NEW u, NEW n \in Nat, DOMAIN u = 0 .. n, NEW e \in 0 .. n,
         u[e] \in Terminators, \A j \in 0 .. e - 1 : u[j] \notin Terminators
  PROVE  CString(u) = [k \in 1 .. e |-> u[k - 1]]
<1> DEFINE IsEnd(k) == /\ u[k] \in {Zero, <<"nul">>}
                       /\ \A j \in 0 .. k - 1 : u[j] \notin {Zero, <<"nul">>}
           c == CHOOSE k \in DOMAIN u : IsEnd(k)
<1>1. e \in DOMAIN u /\ IsEnd(e)
  BY DEF Terminators
<1>2. \A k \in DOMAIN u : IsEnd(k) => k = e
  <2> SUFFICES ASSUME NEW k \in 0 .. n, IsEnd(k) PROVE k = e
    OBVIOUS
  <2>1. ~(k < e)
    BY <1>1
  <2>2. ~(e < k)
    BY <1>1
  <2>3. QED
    BY <2>1, <2>2
<1>3. c \in DOMAIN u /\ IsEnd(c)
  BY <1>1
<1>4. c = e
  BY <1>2, <1>3
<1>5. CString(u) = [k \in 1 .. c |-> u[k - 1]]
  BY DEF CString
<1>6. QED
  BY <1>4, <1>5

LEMMA SameCString ==
  ASSUME NEW u, NEW v, NEW m \in Nat, NEW n \in Nat,
         DOMAIN u = 0 .. m, DOMAIN v = 0 .. n,
         NEW p \in Nat, p <= m, p <= n,
         u[p] \in Terminators, v[p] \in Terminators,
         \A j \in 0 .. p - 1 : u[j] = v[j]
  PROVE  CString(u) = CString(v)
<1> DEFINE T == {k \in 0 .. p : u[k] \in Terminators}
<1>1. T # {} /\ T \subseteq Nat
  OBVIOUS
<1>2. PICK e \in T : \A k \in T : e <= k
  <2> HIDE DEF T
  <2>1. QED
    BY <1>1, NatMin
<1>3. e \in 0 .. p /\ u[e] \in Terminators /\ e \in Nat
  OBVIOUS
<1>4. \A j \in 0 .. e - 1 : u[j] \notin Terminators
  BY <1>2, <1>3
<1>5. \A j \in 0 .. e - 1 : u[j] = v[j]
  BY <1>3
<1>6. v[e] \in Terminators
  BY <1>3
<1>7. CString(u) = [k \in 1 .. e |-> u[k - 1]]
  BY <1>3, <1>4, CStringEnds
<1>8. \A j \in 0 .. e - 1 : v[j] \notin Terminators
  BY <1>4, <1>5
<1>9. CString(v) = [k \in 1 .. e |-> v[k - 1]]
  BY <1>3, <1>6, <1>8, CStringEnds
<1>10. \A k \in 1 .. e : u[k - 1] = v[k - 1]
  BY <1>3, <1>5
<1>11. QED
  BY <1>7, <1>9, <1>10

\* A text and the part of it before its NUL make the same C string.
LEMMA PartIsSame ==
  ASSUME NEW t \in Seq(AllBytes), Accepted(t)
  PROVE  CString(Decoded(CPart(t)).unicode) = CString(Decoded(t).unicode)
<1> DEFINE d == CPart(t)
           n == StrLen(t)
           p == Run(t)[n].pos
           u == Decoded(d).unicode
           v == Decoded(t).unicode
           f == Run(t)[Len(t)].pos
<1>1. n \in 0 .. Len(t) /\ Len(t) \in Nat /\ Len(t) \in 0 .. Len(t)
      /\ Len(t) \in n .. Len(t)
  BY StrLenFacts
<1>2. /\ d \in Seq(AllBytes) /\ Len(d) = n
      /\ \A k \in 1 .. n : d[k] = t[k]
  BY CPartFacts
<1>3. Accepted(d)
  BY PartAccepted
<1>4. CASE n = Len(t)
  <2>1. d = t
    BY <1>2, <1>4
  <2>2. QED
    BY <2>1
<1>5. CASE n < Len(t)
  <2>1. t[n + 1] = "nul" /\ n \in 0 .. Len(t) - 1 /\ n + 1 \in 0 .. Len(t)
    BY <1>1, <1>5, StrLenFacts
  <2>2. Run(d)[n] = Run(t)[n]
    BY <1>1, <1>2, RunPrefix
  <2>3. u = [Buffer(d, n) EXCEPT ![p] = Zero]
    BY <1>2, <2>2, DecodedFields
  <2>4. v = [Buffer(t, Len(t)) EXCEPT ![f] = Zero]
    BY DecodedFields
  <2>5. Total(d) \in Nat /\ p \in 0 .. Total(d)
    BY <1>1, <1>2, <1>3, <2>2, InRoom
  <2>6. /\ Total(t) \in Nat /\ p \in 0 .. Total(t) /\ f \in 0 .. Total(t)
        /\ p < Total(t)
    <3>1. t[n + 1] \in LeadBytes
      BY <2>1 DEF LeadBytes
    <3>2. QED
      BY <1>1, <1>5, <3>1, InRoom
  <2>7. /\ Run(t)[n + 1].state = "one1" /\ Run(t)[n + 1].pos = p + 1
        /\ Run(t)[n + 1].cells[p] = <<"nul">>
        /\ \A k \in Nat \ {p} : Run(t)[n + 1].cells[k] = Run(t)[n].cells[k]
    <3> DEFINE q == Run(t)[n + 1]
               r == Run(t)[n]
    <3>1. /\ q.state = WriteState(r.state, "nul")
          /\ q.pos = r.pos + Moves("nul", q.state)
          /\ \A k \in Nat \ {r.pos} : q.cells[k] = r.cells[k]
          /\ q.state # "wrong" =>
               q.cells[r.pos] = Written(r.cells[r.pos], "nul")
      BY <2>1, RunStep
    <3> HIDE DEF q, r
    <3>2. WriteState(r.state, "nul") = "one1"
      BY DEF WriteState, First, LeadBytes
    <3>3. Moves("nul", "one1") = 1
      BY DEF Moves, Completes
    <3>4. Written(r.cells[r.pos], "nul") = <<"nul">>
      BY DEF Written, LeadBytes
    <3>5. QED
      BY <3>1, <3>2, <3>3, <3>4 DEF q, r
  <2>8. /\ p + 1 <= f
        /\ \A k \in Nat : k < p + 1 =>
             Run(t)[Len(t)].cells[k] = Run(t)[n + 1].cells[k]
    <3>1. Len(t) \in n + 1 .. Len(t)
      BY <1>1, <1>5
    <3>2. QED
      BY <2>1, <2>7, <3>1, RunGrows
  <2>9. DOMAIN u = 0 .. Total(d) /\ DOMAIN v = 0 .. Total(t)
    BY <2>3, <2>4 DEF Buffer
  <2>10. \A j \in 0 .. p - 1 : u[j] = Run(t)[n].cells[j]
    BY <2>2, <2>3, <2>5 DEF Buffer
  <2>11. u[p] = Zero
    BY <2>3, <2>5 DEF Buffer
  <2>12. \A j \in 0 .. p : v[j] = Run(t)[Len(t)].cells[j]
    BY <2>4, <2>6, <2>8 DEF Buffer
  <2>13. v[p] = <<"nul">>
    BY <2>6, <2>7, <2>8, <2>12
  <2>14. \A j \in 0 .. p - 1 : u[j] = v[j]
    BY <2>6, <2>7, <2>8, <2>10, <2>12
  <2> HIDE DEF u, v, p, d
  <2>15. p \in Nat /\ p <= Total(d) /\ p <= Total(t)
    BY <2>5, <2>6
  <2>16. u[p] \in Terminators /\ v[p] \in Terminators
    BY <2>11, <2>13 DEF Terminators
  <2>17. CString(u) = CString(v)
    BY <2>5, <2>6, <2>9, <2>14, <2>15, <2>16, SameCString
  <2>18. QED
    BY <2>17 DEF u, v, d
<1>6. QED
  BY <1>1, <1>4, <1>5

\* A duplicate can be made of every string, and the two are the same string to
\* the program, also when the original has a NUL inside.
THEOREM DuplicatesAreSame == Spec => []DuplicateIsSame
<1>1. StringInv => DuplicateIsSame
  <2> SUFFICES ASSUME StringInv PROVE DuplicateIsSame
    OBVIOUS
  <2>1. original # NoString => result = "ok"
    BY DEF StringInv, OriginalInv
  <2>2. ASSUME duplicate # NoString
        PROVE  CString(duplicate.unicode) = CString(original.unicode)
    <3>1. /\ original # NoString /\ GoodString(duplicate)
          /\ duplicate.utf8 = CPart(original.utf8)
      BY <2>2 DEF StringInv, DuplicateInv
    <3>2. GoodString(original)
      BY <3>1 DEF StringInv, OriginalInv
    <3>3. duplicate.unicode = Decoded(duplicate.utf8).unicode
      BY <3>1 DEF GoodString
    <3>4. original.unicode = Decoded(original.utf8).unicode
      BY <3>2 DEF GoodString
    <3>5. original.utf8 \in Seq(AllBytes) /\ Accepted(original.utf8)
      BY <3>2 DEF GoodString
    <3>6. QED
      BY <3>1, <3>3, <3>4, <3>5, PartIsSame
  <2>3. QED
    BY <2>1, <2>2 DEF DuplicateIsSame
<1>2. QED
  BY <1>1, StringsCorrect, PTL

-----------------------------------------------------------------------------
(***************************************************************************)
(* Texts of complete code points.                                          *)
(***************************************************************************)

\* The form of the code point behind the first k bytes of t.
Whole(t, k) ==
  LET n == Need(t[k + 1]) IN
    /\ n > 0 /\ k + n <= Len(t)
    /\ \A j \in k + 2 .. k + n : t[j] = "cont"

\* A set of places where t may be cut.
Cut(t, C) ==
  /\ C \subseteq 0 .. Len(t)
  /\ \A k \in C : k = Len(t) \/ (Whole(t, k) /\ k + Need(t[k + 1]) \in C)

\* The function that WellFormed defines by recursion from the end exists: a
\* place is all right if some set of cuts has it.
LEMMA CutsExist ==
  ASSUME NEW t \in Seq(AllBytes)
  PROVE  \E ok : ok = [k \in 0 .. Len(t) |->
                         k = Len(t) \/ LET n == Need(t[k + 1]) IN
                           /\ n > 0 /\ k + n <= Len(t)
                           /\ \A j \in k + 2 .. k + n : t[j] = "cont"
                           /\ ok[k + n]]
<1> DEFINE L == Len(t)
           Fine(k) == \E C \in SUBSET (0 .. L) : k \in C /\ Cut(t, C)
           g == [k \in 0 .. L |-> Fine(k)]
           n(k) == Need(t[k + 1])
<1>1. L \in Nat
  OBVIOUS
<1>2. ASSUME NEW k \in 0 .. L, Fine(k)
      PROVE  k = L \/ (Whole(t, k) /\ Fine(k + n(k)))
  BY <1>2 DEF Cut
<1>3. Fine(L)
  <2> DEFINE C == {L}
  <2>1. C \in SUBSET (0 .. L) /\ L \in C
    BY <1>1
  <2>2. \A k \in C : k = Len(t) \/ (Whole(t, k) /\ k + Need(t[k + 1]) \in C)
    OBVIOUS
  <2> HIDE DEF C
  <2>3. Cut(t, C)
    BY <2>1, <2>2 DEF Cut
  <2>4. QED
    BY <2>1, <2>3
<1>4. ASSUME NEW k \in 0 .. L, Whole(t, k), Fine(k + n(k))
      PROVE  Fine(k)
  <2>1. PICK C \in SUBSET (0 .. L) : k + n(k) \in C /\ Cut(t, C)
    BY <1>4
  <2> DEFINE D == C \cup {k}
  <2>2. D \in SUBSET (0 .. L) /\ k \in D
    BY <2>1
  <2>3. Cut(t, D)
    BY <1>4, <2>1 DEF Cut
  <2>4. QED
    BY <2>2, <2>3
<1>5. ASSUME NEW k \in 0 .. L, Whole(t, k)
      PROVE  k + n(k) \in 0 .. L
  <2>1. n(k) \in Nat
    BY DEF Need
  <2>2. QED
    BY <1>1, <1>5, <2>1 DEF Whole
<1> HIDE DEF Fine
<1>6. \A k \in 0 .. L :
        Fine(k) <=> k = L \/ (Whole(t, k) /\ Fine(k + n(k)))
  BY <1>2, <1>3, <1>4
<1> DEFINE Right(k) == k = L \/ LET m == Need(t[k + 1]) IN
                         /\ m > 0 /\ k + m <= L
                         /\ \A j \in k + 2 .. k + m : t[j] = "cont"
                         /\ g[k + m]
<1>7. ASSUME NEW k \in 0 .. L PROVE Fine(k) <=> Right(k)
  <2>1. CASE Whole(t, k)
    <3>1. g[k + n(k)] <=> Fine(k + n(k))
      BY <1>5, <2>1
    <3>2. /\ n(k) > 0 /\ k + n(k) <= L
          /\ \A j \in k + 2 .. k + n(k) : t[j] = "cont"
      BY <2>1 DEF Whole
    <3>3. Right(k) <=> k = L \/ g[k + n(k)]
      <4> HIDE DEF g
      <4>1. QED
        BY <3>2, Zenon
    <3> HIDE DEF Right, g, n
    <3>4. QED
      BY <1>6, <2>1, <3>1, <3>3, Zenon
  <2>2. CASE ~Whole(t, k)
    <3>1. Right(k) <=> k = L
      BY <2>2 DEF Whole
    <3>2. QED
      BY <1>6, <2>2, <3>1
  <2>3. QED
    BY <2>1, <2>2
<1>8. \A k \in 0 .. L : Fine(k) \in BOOLEAN /\ Right(k) \in BOOLEAN
  BY DEF Fine
<1>9. \A k \in 0 .. L : Fine(k) = Right(k)
  BY <1>7, <1>8
<1>10. g = [k \in 0 .. L |-> Right(k)]
  <2> HIDE DEF Right
  <2>1. QED
    BY <1>9, Zenon
<1> HIDE DEF g
<1>11. QED
  BY <1>10 DEF L

LEMMA WellFormedCuts ==
  ASSUME NEW t \in Seq(AllBytes), WellFormed(t)
  PROVE  \E C : Cut(t, C) /\ 0 \in C
<1> DEFINE L == Len(t)
           ok == CHOOSE f : f = [k \in 0 .. L |->
                         k = L \/ LET n == Need(t[k + 1]) IN
                           /\ n > 0 /\ k + n <= L
                           /\ \A j \in k + 2 .. k + n : t[j] = "cont"
                           /\ f[k + n]]
           C == {k \in 0 .. L : ok[k]}
<1>1. L \in Nat
  OBVIOUS
<1>2. ok = [k \in 0 .. L |->
              k = L \/ LET n == Need(t[k + 1]) IN
                /\ n > 0 /\ k + n <= L
                /\ \A j \in k + 2 .. k + n : t[j] = "cont"
                /\ ok[k + n]]
  BY CutsExist
<1>3. ok[0]
  BY DEF WellFormed
<1> HIDE DEF ok
<1>4. 0 \in C
  BY <1>1, <1>3
<1>5. ASSUME NEW k \in 0 .. L, ok[k], k # L
      PROVE  Whole(t, k) /\ k + Need(t[k + 1]) \in C
  <2>1. /\ Need(t[k + 1]) > 0 /\ k + Need(t[k + 1]) <= L
        /\ \A j \in k + 2 .. k + Need(t[k + 1]) : t[j] = "cont"
        /\ ok[k + Need(t[k + 1])]
    BY <1>2, <1>5
  <2>2. Need(t[k + 1]) \in Nat
    BY DEF Need
  <2>3. k + Need(t[k + 1]) \in 0 .. L
    BY <1>1, <2>1, <2>2
  <2>4. Whole(t, k)
    BY <2>1 DEF Whole
  <2>5. k + Need(t[k + 1]) \in C
    BY <2>1, <2>3
  <2>6. QED
    BY <2>4, <2>5
<1>6. Cut(t, C)
  <2>1. \A k \in C : k = L \/ (Whole(t, k) /\ k + Need(t[k + 1]) \in C)
    BY <1>5
  <2>2. C \subseteq 0 .. L
    OBVIOUS
  <2> HIDE DEF C
  <2>3. QED
    BY <2>1, <2>2 DEF Cut
<1>7. QED
  BY <1>4, <1>6

-----------------------------------------------------------------------------
(***************************************************************************)
(* The bytes of the code points, put together.                             *)
(***************************************************************************)
Joined(i, a, b) == IF i = 1 THEN b ELSE a \o b

LEMMA FlattenExists ==
  ASSUME NEW c, NEW n \in Nat
  PROVE  \E g : g = [i \in 1 .. n |-> Joined(i, g[i - 1], c[i])]
<1> DEFINE S == {k \in Nat :
                   \E g : g = [i \in 1 .. k |-> Joined(i, g[i - 1], c[i])]}
<1>1. 0 \in S
  <2> DEFINE g == [i \in 1 .. 0 |-> c[i]]
  <2>1. g = [i \in 1 .. 0 |-> Joined(i, g[i - 1], c[i])]
    OBVIOUS
  <2> HIDE DEF g
  <2>2. QED
    BY <2>1
<1>2. ASSUME NEW k \in Nat, k \in S PROVE k + 1 \in S
  <2>1. PICK g : g = [i \in 1 .. k |-> Joined(i, g[i - 1], c[i])]
    BY <1>2
  <2> DEFINE h == [i \in 1 .. k + 1 |->
                     IF i = k + 1 THEN Joined(i, g[k], c[i]) ELSE g[i]]
  <2>2. \A i \in 1 .. k : g[i] = Joined(i, g[i - 1], c[i])
    BY <2>1
  <2>3. \A i \in 1 .. k + 1 : h[i] = Joined(i, h[i - 1], c[i])
    <3> TAKE i \in 1 .. k + 1
    <3>1. CASE i = 1
      <4>1. h[i] = Joined(i, g[k], c[i]) \/ h[i] = Joined(i, g[i - 1], c[i])
        BY <2>2
      <4>2. QED
        BY <3>1, <4>1 DEF Joined
    <3>2. CASE i \in 2 .. k
      BY <3>2, <2>2
    <3>3. CASE i = k + 1 /\ i # 1
      <4>1. h[i - 1] = g[k]
        BY <3>3
      <4>2. QED
        BY <3>3, <4>1
    <3>4. QED
      BY <3>1, <3>2, <3>3
  <2>4. h = [i \in 1 .. k + 1 |-> h[i]]
    OBVIOUS
  <2> HIDE DEF h
  <2>5. h = [i \in 1 .. k + 1 |-> Joined(i, h[i - 1], c[i])]
    BY <2>3, <2>4, Zenon
  <2>6. QED
    BY <2>5
<1> HIDE DEF S
<1>3. Nat \subseteq S
  BY <1>1, <1>2, SetInduction
<1>4. QED
  BY <1>3 DEF S

\* Joins of a sequence of byte sequences: G[i] is the first i of them.
Joins(c, G) ==
  /\ G[0] = <<>>
  /\ \A i \in 1 .. Len(c) : G[i] = G[i - 1] \o c[i]
  /\ FlattenSeq(c) = G[Len(c)]

LEMMA JoinsExist ==
  ASSUME NEW c \in Seq(Seq(AllBytes))
  PROVE  \E G : Joins(c, G)
<1> DEFINE n == Len(c)
           f == CHOOSE g : g = [i \in 1 .. n |->
                                  IF i = 1 THEN c[i] ELSE g[i - 1] \o c[i]]
           G == [i \in 0 .. n |-> IF i = 0 THEN <<>> ELSE f[i]]
<1>1. n \in Nat /\ \A i \in 1 .. n : c[i] \in Seq(AllBytes)
  OBVIOUS
<1>2. f = [i \in 1 .. n |-> IF i = 1 THEN c[i] ELSE f[i - 1] \o c[i]]
  BY <1>1, FlattenExists DEF Joined
<1>3. FlattenSeq(c) = IF n = 0 THEN c ELSE f[n]
  BY DEF FlattenSeq
<1> HIDE DEF f
<1>4. ASSUME NEW i \in 1 .. n PROVE G[i] = G[i - 1] \o c[i]
  <2>1. CASE i = 1
    <3>1. G[i] = c[i] /\ G[i - 1] = <<>>
      BY <1>1, <1>2, <2>1
    <3>2. <<>> \o c[i] = c[i]
      BY <1>1, ConcatEmptySeq
    <3>3. QED
      BY <3>1, <3>2
  <2>2. CASE i # 1
    <3>1. G[i] = f[i] /\ G[i - 1] = f[i - 1]
      BY <1>1, <2>2
    <3>2. f[i] = f[i - 1] \o c[i]
      BY <1>2, <2>2
    <3>3. QED
      BY <3>1, <3>2
  <2>3. QED
    BY <2>1, <2>2
<1>5. FlattenSeq(c) = G[n]
  BY <1>1, <1>3
<1>6. G[0] = <<>>
  BY <1>1
<1>7. Joins(c, G)
  BY <1>4, <1>5, <1>6 DEF Joins
<1>8. QED
  BY <1>7

-----------------------------------------------------------------------------
LEMMA SubSeqJoin ==
  ASSUME NEW t \in Seq(AllBytes), NEW m \in 0 .. Len(t), NEW k \in 0 .. m
  PROVE  SubSeq(t, 1, k) \o SubSeq(t, k + 1, m) = SubSeq(t, 1, m)
<1> DEFINE a == SubSeq(t, 1, k)
           b == SubSeq(t, k + 1, m)
           c == SubSeq(t, 1, m)
<1>1. /\ Len(t) \in Nat /\ m \in Nat /\ k \in Nat /\ m <= Len(t) /\ k <= m
      /\ \A i \in 1 .. Len(t) : t[i] \in AllBytes
  OBVIOUS
<1>2. /\ \A i \in 1 .. k : t[i] \in AllBytes
      /\ \A i \in k + 1 .. m : t[i] \in AllBytes
      /\ \A i \in 1 .. m : t[i] \in AllBytes
  BY <1>1
<1>3. a \in Seq(AllBytes) /\ Len(a) = k /\ \A i \in 1 .. k : a[i] = t[i]
  BY <1>1, <1>2, SubSeqProperties
<1>4. b \in Seq(AllBytes) /\ Len(b) = m - k
      /\ \A i \in 1 .. m - k : b[i] = t[k + i]
  <2>1. /\ b \in Seq(AllBytes)
        /\ Len(b) = IF k + 1 <= m THEN m - (k + 1) + 1 ELSE 0
        /\ \A i \in 1 .. m - (k + 1) + 1 : b[i] = t[(k + 1) + i - 1]
    BY <1>1, <1>2, SubSeqProperties
  <2>2. QED
    BY <1>1, <2>1
<1>5. c \in Seq(AllBytes) /\ Len(c) = m /\ \A i \in 1 .. m : c[i] = t[i]
  BY <1>1, <1>2, SubSeqProperties
<1> HIDE DEF a, b, c
<1> DEFINE d == a \o b
<1>6. /\ d \in Seq(AllBytes) /\ Len(d) = m
      /\ \A i \in 1 .. m : d[i] = IF i <= k THEN a[i] ELSE b[i - k]
  <2>1. /\ d \in Seq(AllBytes) /\ Len(d) = Len(a) + Len(b)
        /\ \A i \in 1 .. Len(a) + Len(b) :
             d[i] = IF i <= Len(a) THEN a[i] ELSE b[i - Len(a)]
    BY <1>3, <1>4, ConcatProperties
  <2>2. Len(a) + Len(b) = m /\ Len(a) = k
    BY <1>1, <1>3, <1>4
  <2> HIDE DEF d
  <2>3. QED
    BY <2>1, <2>2
<1> HIDE DEF d
<1>7. ASSUME NEW i \in 1 .. m PROVE d[i] = c[i]
  <2>1. i \in Nat /\ i <= m /\ 1 <= i /\ (i <= k \/ k < i)
    BY <1>1
  <2>2. CASE i <= k
    <3>1. d[i] = a[i] /\ a[i] = t[i]
      BY <1>1, <1>3, <1>6, <2>1, <2>2
    <3>2. QED
      BY <1>5, <3>1
  <2>3. CASE k < i
    <3>1. i - k \in 1 .. m - k /\ k + (i - k) = i /\ ~(i <= k)
      BY <1>1, <2>1, <2>3
    <3>2. d[i] = b[i - k]
      BY <1>6, <3>1
    <3>3. b[i - k] = t[k + (i - k)]
      BY <1>4, <3>1
    <3>4. QED
      BY <1>5, <3>1, <3>2, <3>3
  <2>4. QED
    BY <2>1, <2>2, <2>3
<1>8. d = c
  BY <1>5, <1>6, <1>7, SeqEqual
<1>9. QED
  BY <1>8 DEF a, b, c, d

LEMMA SubSeqNext ==
  ASSUME NEW t \in Seq(AllBytes), NEW m \in 0 .. Len(t) - 1, NEW k \in 0 .. m
  PROVE  /\ k < m => SubSeq(t, k + 1, m + 1) =
                       Append(SubSeq(t, k + 1, m), t[m + 1])
         /\ SubSeq(t, m + 1, m + 1) = <<t[m + 1]>>
         /\ SubSeq(t, k + 1, m + 1) \in Seq(AllBytes)
         /\ Len(SubSeq(t, k + 1, m + 1)) = (m + 1) - k
         /\ SubSeq(t, k + 1, m + 1)[1] = t[k + 1]
<1>1. /\ Len(t) \in Nat /\ m \in Nat /\ k \in Nat /\ m < Len(t) /\ k <= m
      /\ \A i \in 1 .. Len(t) : t[i] \in AllBytes
  OBVIOUS
<1>2. /\ \A i \in k + 1 .. m + 1 : t[i] \in AllBytes
      /\ \A i \in k + 1 .. m : t[i] \in AllBytes
      /\ t[m + 1] \in AllBytes
  BY <1>1
<1> DEFINE a == SubSeq(t, k + 1, m)
           c == SubSeq(t, k + 1, m + 1)
           d == SubSeq(t, m + 1, m + 1)
<1>3. /\ c \in Seq(AllBytes) /\ Len(c) = (m + 1) - k
      /\ \A i \in 1 .. (m + 1) - k : c[i] = t[k + i]
  <2>1. /\ c \in Seq(AllBytes)
        /\ Len(c) = IF k + 1 <= m + 1 THEN (m + 1) - (k + 1) + 1 ELSE 0
        /\ \A i \in 1 .. (m + 1) - (k + 1) + 1 : c[i] = t[(k + 1) + i - 1]
    BY <1>1, <1>2, SubSeqProperties
  <2>2. QED
    BY <1>1, <2>1
<1>4. /\ a \in Seq(AllBytes) /\ Len(a) = m - k
      /\ \A i \in 1 .. m - k : a[i] = t[k + i]
  <2>1. /\ a \in Seq(AllBytes)
        /\ Len(a) = IF k + 1 <= m THEN m - (k + 1) + 1 ELSE 0
        /\ \A i \in 1 .. m - (k + 1) + 1 : a[i] = t[(k + 1) + i - 1]
    BY <1>1, <1>2, SubSeqProperties
  <2>2. QED
    BY <1>1, <2>1
<1>5. d = <<t[m + 1]>>
  <2>1. \A i \in m + 1 .. m + 1 : t[i] \in AllBytes
    BY <1>2
  <2>2. /\ d \in Seq(AllBytes)
        /\ Len(d) = IF m + 1 <= m + 1 THEN (m + 1) - (m + 1) + 1 ELSE 0
        /\ \A i \in 1 .. (m + 1) - (m + 1) + 1 : d[i] = t[(m + 1) + i - 1]
    BY <1>1, <2>1, SubSeqProperties
  <2>3. Len(d) = 1 /\ d[1] = t[m + 1]
    BY <1>1, <2>2
  <2> HIDE DEF d
  <2>4. <<t[m + 1]>> \in Seq(AllBytes)
    BY <1>2
  <2>5. QED
    BY <2>2, <2>3, <2>4, SeqEqual
<1> HIDE DEF a, c, d
<1>6. k < m => c = Append(a, t[m + 1])
  <2> DEFINE e == Append(a, t[m + 1])
  <2>1. /\ e \in Seq(AllBytes) /\ Len(e) = (m + 1) - k
        /\ \A i \in 1 .. m - k : e[i] = a[i]
        /\ e[(m - k) + 1] = t[m + 1]
    BY <1>1, <1>2, <1>4
  <2>2. ASSUME NEW i \in 1 .. (m + 1) - k PROVE c[i] = e[i]
    <3>1. i \in 1 .. m - k \/ i = (m - k) + 1
      BY <1>1
    <3>2. CASE i \in 1 .. m - k
      BY <1>3, <1>4, <2>1, <3>2
    <3>3. CASE i = (m - k) + 1
      <4>1. k + i = m + 1
        BY <1>1, <3>3
      <4>2. QED
        BY <1>3, <2>1, <3>3, <4>1
    <3>4. QED
      BY <3>1, <3>2, <3>3
  <2> HIDE DEF e
  <2>3. c = e
    BY <1>1, <1>3, <2>1, <2>2, SeqEqual
  <2>4. QED
    BY <2>3 DEF e
<1>7. c[1] = t[k + 1]
  BY <1>1, <1>3
<1>8. QED
  BY <1>3, <1>5, <1>6, <1>7 DEF a, c, d

-----------------------------------------------------------------------------
(***************************************************************************)
(* How a text of complete code points is decoded.                          *)
(***************************************************************************)
Final(t) == Run(t)[Len(t)]

\* The code points, each with its bytes.
Points(t) == [k \in 1 .. Final(t).pos |-> Final(t).cells[k - 1]]

\* No code point that is complete looks like the end of the string.
Solid(t, r) ==
  \A j \in 0 .. r.pos - 1 :
    /\ r.cells[j] # Zero
    /\ "nul" \notin ToSet(t) => r.cells[j] # <<"nul">>

\* After m bytes, between two code points.
AtCut(t, C, G, m) ==
  /\ m \in C
  /\ Run(t)[m].state \in Between
  /\ Run(t)[m].pos = Run(t)[m].count
  /\ G[Run(t)[m].pos] = SubSeq(t, 1, m)
  /\ Solid(t, Run(t)[m])

\* After m bytes, inside the code point that begins behind byte k.
InPoint(t, C, G, k, m) ==
  /\ k \in C /\ k # Len(t)
  /\ \/ t[k + 1] = "two" /\ m = k + 1 /\ Run(t)[m].state = "two1"
     \/ t[k + 1] = "three" /\ m = k + 1 /\ Run(t)[m].state = "three1"
     \/ t[k + 1] = "three" /\ m = k + 2 /\ Run(t)[m].state = "three2"
  /\ Run(t)[m].pos + 1 = Run(t)[m].count
  /\ G[Run(t)[m].pos] = SubSeq(t, 1, k)
  /\ Run(t)[m].cells[Run(t)[m].pos] = SubSeq(t, k + 1, m)
  /\ Solid(t, Run(t)[m])

LEMMA PointsType ==
  ASSUME NEW t \in Seq(AllBytes)
  PROVE  Points(t) \in Seq(Seq(AllBytes)) /\ Len(Points(t)) = Final(t).pos
<1>1. Final(t).pos \in Nat /\ Final(t).cells \in [Nat -> Seq(AllBytes)]
  <2>1. Len(t) \in 0 .. Len(t)
    OBVIOUS
  <2>2. QED
    BY <2>1, RunFields DEF Final
<1> DEFINE n == Final(t).pos
           c == Points(t)
<1>2. c \in [1 .. n -> Seq(AllBytes)] /\ n \in Nat
  <2>1. ASSUME NEW k \in 1 .. Final(t).pos
        PROVE  Final(t).cells[k - 1] \in Seq(AllBytes)
    BY <1>1
  <2>2. QED
    BY <1>1, <2>1 DEF Points
<1> HIDE DEF n, c
<1>3. c \in Seq(Seq(AllBytes)) /\ Len(c) = n
  BY <1>2
<1>4. QED
  BY <1>3 DEF n, c

\* The step that completes the code point behind byte k.
LEMMA PointDone ==
  ASSUME NEW t \in Seq(AllBytes), NEW C, NEW G, Joins(Points(t), G),
         NEW m \in 0 .. Len(t) - 1, NEW k \in 0 .. m, m + 1 \in C,
         LET r == Run(t)[m]
             q == Run(t)[m + 1]
         IN /\ q.state \in Between /\ q.count = q.pos
            /\ q.pos = r.pos + 1
            /\ \A j \in Nat \ {r.pos} : q.cells[j] = r.cells[j]
            /\ q.cells[r.pos] = SubSeq(t, k + 1, m + 1)
            /\ G[r.pos] = SubSeq(t, 1, k)
            /\ Solid(t, r)
  PROVE  AtCut(t, C, G, m + 1)
<1> DEFINE r == Run(t)[m]
           q == Run(t)[m + 1]
           w == SubSeq(t, k + 1, m + 1)
           p == r.pos
           e == Final(t)
<1>0. /\ q.state \in Between /\ q.count = q.pos
      /\ q.pos = p + 1
      /\ \A j \in Nat \ {p} : q.cells[j] = r.cells[j]
      /\ q.cells[p] = w
      /\ G[p] = SubSeq(t, 1, k)
      /\ Solid(t, r)
  OBVIOUS
<1>1. /\ m \in Nat /\ Len(t) \in Nat /\ m + 1 \in 0 .. Len(t)
      /\ m \in 0 .. Len(t) /\ Len(t) \in m + 1 .. Len(t) /\ k \in 0 .. m + 1
  OBVIOUS
<1>2. p \in Nat
  BY <1>1, RunFields
<1>3. p + 1 <= e.pos /\ e.cells[p] = w
  <2>1. /\ q.pos <= e.pos
        /\ \A j \in Nat : j < q.pos => e.cells[j] = q.cells[j]
    BY <1>1, RunGrows DEF Final
  <2>2. p < p + 1
    BY <1>2
  <2> HIDE DEF q, p, e, w
  <2>3. QED
    BY <1>0, <1>2, <2>1, <2>2
<1>4. e.pos \in Nat
  <2>1. Len(t) \in 0 .. Len(t)
    BY <1>1
  <2>2. QED
    BY <2>1, RunFields DEF Final
<1>5. Points(t)[p + 1] = w /\ p + 1 \in 1 .. Len(Points(t))
  <2>1. p + 1 \in 1 .. e.pos /\ (p + 1) - 1 = p
    <3>1. p + 1 <= e.pos
      BY <1>3
    <3> HIDE DEF p, e
    <3>2. QED
      BY <1>2, <1>4, <3>1
  <2>2. Points(t)[p + 1] = e.cells[(p + 1) - 1]
    BY <2>1 DEF Points
  <2>3. QED
    BY <1>3, <2>1, <2>2, PointsType
<1>6. G[p + 1] = G[(p + 1) - 1] \o Points(t)[p + 1]
  BY <1>5 DEF Joins
<1>7. (p + 1) - 1 = p
  BY <1>2
<1>8. SubSeq(t, 1, k) \o w = SubSeq(t, 1, m + 1)
  BY <1>1, SubSeqJoin
<1>9. G[q.pos] = SubSeq(t, 1, m + 1)
  BY <1>0, <1>5, <1>6, <1>7, <1>8
<1>10. w # Zero /\ ("nul" \notin ToSet(t) => w # <<"nul">>)
  <2>1. w \in Seq(AllBytes) /\ Len(w) = (m + 1) - k /\ w[1] = t[k + 1]
    BY SubSeqNext
  <2>2. k + 1 \in 1 .. Len(t)
    BY <1>1
  <2>3. "nul" \notin ToSet(t) => t[k + 1] # "nul"
    BY <2>2 DEF ToSet
  <2> HIDE DEF w
  <2>4. w # Zero
    <3>1. Len(w) # 0
      BY <1>1, <2>1
    <3>2. QED
      BY <3>1 DEF Zero
  <2>5. QED
    BY <2>1, <2>3, <2>4
<1>11. Solid(t, q)
  <2> SUFFICES ASSUME NEW j \in 0 .. q.pos - 1
               PROVE  /\ q.cells[j] # Zero
                      /\ "nul" \notin ToSet(t) => q.cells[j] # <<"nul">>
    BY DEF Solid
  <2>1. CASE j = p
    BY <1>0, <1>10, <2>1
  <2>2. CASE j # p
    <3>1. j \in 0 .. p - 1 /\ q.cells[j] = r.cells[j]
      BY <1>0, <1>2, <2>2
    <3>2. QED
      BY <1>0, <3>1 DEF Solid
  <2>3. QED
    BY <2>1, <2>2
<1>12. QED
  BY <1>0, <1>9, <1>11 DEF AtCut

\* The bytes of a code point of four are not accepted.
LEMMA FourIsWrong ==
  ASSUME NEW t \in Seq(AllBytes), NEW k \in 0 .. Len(t), k + 3 <= Len(t),
         t[k + 1] = "four", t[k + 2] = "cont", t[k + 3] = "cont"
  PROVE  Run(t)[k + 3].state = "wrong"
<1>1. /\ k \in 0 .. Len(t) - 1 /\ k + 1 \in 0 .. Len(t) - 1
      /\ k + 2 \in 0 .. Len(t) - 1
      /\ (k + 1) + 1 = k + 2 /\ (k + 2) + 1 = k + 3
  OBVIOUS
<1>2. /\ Run(t)[k + 1].state = WriteState(Run(t)[k].state, t[k + 1])
      /\ Run(t)[k + 2].state = WriteState(Run(t)[k + 1].state, t[k + 2])
      /\ Run(t)[k + 3].state = WriteState(Run(t)[k + 2].state, t[k + 3])
  <2>1. Run(t)[k + 1].state = WriteState(Run(t)[k].state, t[k + 1])
    BY <1>1, RunStep
  <2>2. Run(t)[(k + 1) + 1].state =
          WriteState(Run(t)[k + 1].state, t[(k + 1) + 1])
    BY <1>1, RunStep
  <2>3. Run(t)[(k + 2) + 1].state =
          WriteState(Run(t)[k + 2].state, t[(k + 2) + 1])
    BY <1>1, RunStep
  <2>4. QED
    BY <1>1, <2>1, <2>2, <2>3
<1>3. Run(t)[k + 1].state = "four1"
  BY <1>2 DEF WriteState, First, LeadBytes
<1>4. Run(t)[k + 2].state = "four2"
  BY <1>2, <1>3 DEF WriteState, WriteContinued, LeadBytes
<1>5. QED
  BY <1>2, <1>4 DEF WriteState, WriteContinued, LeadBytes

-----------------------------------------------------------------------------
LEMMA NeedFacts ==
  ASSUME NEW b \in AllBytes, Need(b) > 0
  PROVE  /\ b \in LeadBytes
         /\ b \in {"nul", "one"} => Need(b) = 1
         /\ b = "two" => Need(b) = 2
         /\ b = "three" => Need(b) = 3
         /\ b = "four" => Need(b) = 4
BY ByteKinds DEF Need, LeadBytes

\* Nothing is decoded before the first byte.
LEMMA StartsAtCut ==
  ASSUME NEW t \in Seq(AllBytes), NEW C, NEW G, 0 \in C, Joins(Points(t), G)
  PROVE  AtCut(t, C, G, 0)
<1>1. Run(t)[0] = Begin
  BY RunSteps
<1>2. /\ Begin.state = "begin" /\ Begin.pos = 0 /\ Begin.count = 0
  BY DEF Begin
<1>3. SubSeq(t, 1, 0) = <<>>
  BY SubSeqEmpty
<1>4. G[0] = <<>>
  BY DEF Joins
<1>5. Solid(t, Run(t)[0])
  BY <1>1, <1>2 DEF Solid
<1>6. QED
  BY <1>1, <1>2, <1>3, <1>4, <1>5 DEF AtCut, Between

\* The first byte of a code point.
LEMMA FirstByteRead ==
  ASSUME NEW t \in Seq(AllBytes), NEW C, NEW G, Joins(Points(t), G),
         Cut(t, C), Accepted(t) \/ "four" \notin ToSet(t),
         NEW m \in 0 .. Len(t) - 1, AtCut(t, C, G, m)
  PROVE  AtCut(t, C, G, m + 1) \/ InPoint(t, C, G, m, m + 1)
<1> DEFINE r == Run(t)[m]
           q == Run(t)[m + 1]
           b == t[m + 1]
<1>1. /\ m \in Nat /\ Len(t) \in Nat /\ m \in 0 .. Len(t) /\ m # Len(t)
      /\ m + 1 \in 1 .. Len(t)
  OBVIOUS
<1>2. b \in AllBytes
  BY <1>1
<1>3. /\ m \in C /\ r.state \in Between /\ r.pos = r.count
      /\ G[r.pos] = SubSeq(t, 1, m) /\ Solid(t, r)
  BY DEF AtCut
<1>4. Whole(t, m) /\ m + Need(b) \in C
  BY <1>1, <1>3 DEF Cut
<1>5. Need(b) > 0 /\ b \in LeadBytes
  BY <1>2, <1>4, NeedFacts DEF Whole
<1>6. /\ q.state = WriteState(r.state, b)
      /\ q.count = r.count + Counted(b)
      /\ q.pos = r.pos + Moves(b, q.state)
      /\ \A k \in Nat \ {r.pos} : q.cells[k] = r.cells[k]
      /\ q.state # "wrong" => q.cells[r.pos] = Written(r.cells[r.pos], b)
  BY RunStep
<1>7. r.pos \in Nat /\ r.count \in Nat
  BY <1>1, RunFields
<1>8. SubSeq(t, m + 1, m + 1) = <<b>>
  <2>1. m \in 0 .. m
    BY <1>1
  <2>2. QED
    BY <2>1, SubSeqNext
<1>9. /\ q.state = First(b) /\ q.count = r.count + 1
      /\ Written(r.cells[r.pos], b) = <<b>>
  <2>1. WriteState(r.state, b) = First(b)
    BY <1>5 DEF WriteState, LeadBytes
  <2>2. Counted(b) = 1
    BY <1>5 DEF Counted
  <2>3. Written(r.cells[r.pos], b) = <<b>>
    BY <1>5 DEF Written, LeadBytes
  <2> HIDE DEF r, q, b
  <2>4. QED
    BY <1>6, <2>1, <2>2, <2>3
<1>10. CASE b \in {"nul", "one"}
  <2>1. q.state = "one1"
    BY <1>9, <1>10 DEF First
  <2>2. Moves(b, q.state) = 1
    BY <1>10, <2>1 DEF Moves, Completes
  <2>3. q.pos = r.pos + 1 /\ q.count = q.pos /\ q.state \in Between
    BY <1>3, <1>6, <1>9, <2>1, <2>2 DEF Between
  <2>4. q.cells[r.pos] = SubSeq(t, m + 1, m + 1)
    BY <1>6, <1>8, <1>9, <2>1
  <2>5. m + 1 \in C /\ m \in 0 .. m
    BY <1>1, <1>2, <1>4, <1>5, <1>10, NeedFacts
  <2>6. AtCut(t, C, G, m + 1)
    BY <1>3, <1>6, <2>3, <2>4, <2>5, PointDone
  <2>7. QED
    BY <2>6
<1>11. CASE b \in {"two", "three"}
  <2>1. /\ b = "two" => q.state = "two1"
        /\ b = "three" => q.state = "three1"
    BY <1>9 DEF First
  <2>2. Moves(b, q.state) = 0 /\ q.state # "wrong"
    BY <1>11, <2>1 DEF Moves, Completes
  <2>3. q.pos = r.pos /\ q.pos + 1 = q.count
    BY <1>3, <1>6, <1>7, <1>9, <2>2
  <2>4. q.cells[q.pos] = SubSeq(t, m + 1, m + 1)
    BY <1>6, <1>8, <1>9, <2>2, <2>3
  <2>5. Solid(t, q)
    <3>1. \A j \in 0 .. q.pos - 1 : j \in 0 .. r.pos - 1 /\ j \in Nat \ {r.pos}
      BY <1>7, <2>3
    <3>2. \A j \in 0 .. q.pos - 1 : q.cells[j] = r.cells[j]
      BY <1>6, <3>1
    <3>3. QED
      BY <1>3, <3>1, <3>2 DEF Solid
  <2>6. \/ b = "two" /\ m + 1 = m + 1 /\ q.state = "two1"
        \/ b = "three" /\ m + 1 = m + 1 /\ q.state = "three1"
    BY <1>11, <2>1
  <2>7. G[q.pos] = SubSeq(t, 1, m)
    BY <1>3, <2>3
  <2>8. InPoint(t, C, G, m, m + 1)
    BY <1>1, <1>3, <2>3, <2>4, <2>5, <2>6, <2>7 DEF InPoint
  <2>9. QED
    BY <2>8
<1>12. CASE b = "four"
  <2>1. Need(b) = 4
    BY <1>2, <1>5, <1>12, NeedFacts
  <2>2. m + 4 <= Len(t) /\ \A j \in m + 2 .. m + 4 : t[j] = "cont"
    BY <1>4, <2>1 DEF Whole
  <2>3. /\ m + 3 <= Len(t) /\ m + 3 \in 0 .. Len(t)
        /\ t[m + 2] = "cont" /\ t[m + 3] = "cont"
    <3>1. m + 2 \in m + 2 .. m + 4 /\ m + 3 \in m + 2 .. m + 4
      BY <1>1
    <3>2. QED
      BY <1>1, <2>2, <3>1
  <2>4. Run(t)[m + 3].state = "wrong"
    BY <1>1, <1>12, <2>3, FourIsWrong
  <2>5. ~Accepted(t)
    BY <2>3, <2>4 DEF Accepted
  <2>6. "four" \in ToSet(t)
    BY <1>1, <1>12 DEF ToSet
  <2>7. QED
    BY <2>5, <2>6
<1>13. QED
  BY <1>5, <1>10, <1>11, <1>12 DEF LeadBytes

\* The other bytes of a code point.
LEMMA NextByteRead ==
  ASSUME NEW t \in Seq(AllBytes), NEW C, NEW G, Joins(Points(t), G),
         Cut(t, C), NEW m \in 0 .. Len(t) - 1,
         NEW k, InPoint(t, C, G, k, m)
  PROVE  AtCut(t, C, G, m + 1) \/ InPoint(t, C, G, k, m + 1)
<1> DEFINE r == Run(t)[m]
           q == Run(t)[m + 1]
           b == t[k + 1]
           s == SubSeq(t, k + 1, m)
<1>1. /\ k \in C /\ k # Len(t)
      /\ \/ b = "two" /\ m = k + 1 /\ r.state = "two1"
         \/ b = "three" /\ m = k + 1 /\ r.state = "three1"
         \/ b = "three" /\ m = k + 2 /\ r.state = "three2"
      /\ r.pos + 1 = r.count
      /\ G[r.pos] = SubSeq(t, 1, k)
      /\ r.cells[r.pos] = s
      /\ Solid(t, r)
  BY DEF InPoint
<1>2. k \in 0 .. Len(t) /\ Whole(t, k) /\ k + Need(b) \in C
  BY <1>1 DEF Cut
<1>3. /\ m \in Nat /\ Len(t) \in Nat /\ k \in Nat /\ m \in 0 .. Len(t)
      /\ k + 1 \in 1 .. Len(t) /\ k < m /\ k \in 0 .. m
      /\ (m = k + 1 \/ m = k + 2)
  <2>1. m = k + 1 \/ m = k + 2
    BY <1>1
  <2>2. m \in Nat /\ Len(t) \in Nat /\ k \in Nat /\ m \in 0 .. Len(t)
    BY <1>2
  <2>3. k <= Len(t) /\ k # Len(t)
    BY <1>1, <1>2
  <2>4. QED
    BY <2>1, <2>2, <2>3
<1>4. b \in AllBytes /\ Need(b) > 0
  BY <1>2, <1>3 DEF Whole
<1>5. /\ b = "two" => Need(b) = 2
      /\ b = "three" => Need(b) = 3
  BY <1>4, NeedFacts
<1>6. t[m + 1] = "cont"
  <2>1. m + 1 \in k + 2 .. k + Need(b)
    BY <1>1, <1>3, <1>5
  <2>2. QED
    BY <1>2, <2>1 DEF Whole
<1>7. /\ q.state = WriteState(r.state, "cont")
      /\ q.count = r.count + Counted("cont")
      /\ q.pos = r.pos + Moves("cont", q.state)
      /\ \A j \in Nat \ {r.pos} : q.cells[j] = r.cells[j]
      /\ q.state # "wrong" =>
           q.cells[r.pos] = Written(r.cells[r.pos], "cont")
  BY <1>6, RunStep
<1>8. r.pos \in Nat /\ r.count \in Nat
  BY <1>3, RunFields
<1>9. /\ q.count = r.count
      /\ Written(r.cells[r.pos], "cont") = SubSeq(t, k + 1, m + 1)
  <2>1. Counted("cont") = 0
    BY DEF Counted, LeadBytes
  <2>2. SubSeq(t, k + 1, m + 1) = Append(s, "cont")
    BY <1>3, <1>6, SubSeqNext
  <2>3. Written(s, "cont") = Append(s, "cont")
    BY DEF Written, LeadBytes
  <2>4. q.count = r.count
    <3> HIDE DEF q, r
    <3>1. QED
      BY <1>7, <1>8, <2>1
  <2>5. r.cells[r.pos] = s
    BY <1>1
  <2> HIDE DEF q, r, s
  <2>6. QED
    BY <2>2, <2>3, <2>4, <2>5
<1>10. CASE b = "three" /\ m = k + 1 /\ r.state = "three1"
  <2>1. q.state = "three2"
    BY <1>7, <1>10 DEF WriteState, WriteContinued, LeadBytes
  <2>2. Moves("cont", q.state) = 0
    BY <2>1 DEF Moves, Completes
  <2>3. q.pos = r.pos /\ q.pos + 1 = q.count
    BY <1>1, <1>7, <1>8, <1>9, <2>2
  <2>4. q.cells[q.pos] = SubSeq(t, k + 1, m + 1)
    BY <1>7, <1>9, <2>1, <2>3
  <2>5. Solid(t, q)
    <3>1. \A j \in 0 .. q.pos - 1 : j \in 0 .. r.pos - 1 /\ j \in Nat \ {r.pos}
      BY <1>8, <2>3
    <3>2. \A j \in 0 .. q.pos - 1 : q.cells[j] = r.cells[j]
      BY <1>7, <3>1
    <3>3. QED
      BY <1>1, <3>1, <3>2 DEF Solid
  <2>6. m + 1 = k + 2
    BY <1>3, <1>10
  <2>7. G[q.pos] = SubSeq(t, 1, k)
    BY <1>1, <2>3
  <2>8. InPoint(t, C, G, k, m + 1)
    BY <1>1, <1>10, <2>1, <2>3, <2>4, <2>5, <2>6, <2>7 DEF InPoint
  <2>9. QED
    BY <2>8
<1>11. CASE ~(b = "three" /\ m = k + 1 /\ r.state = "three1")
  <2>1. /\ r.state = "two1" \/ r.state = "three2"
        /\ m + 1 = k + Need(b)
    <3>1. \/ b = "two" /\ m = k + 1 /\ r.state = "two1"
          \/ b = "three" /\ m = k + 2 /\ r.state = "three2"
      BY <1>1, <1>11
    <3> HIDE DEF b, r
    <3>2. CASE b = "two" /\ m = k + 1 /\ r.state = "two1"
      BY <1>3, <1>5, <3>2
    <3>3. CASE b = "three" /\ m = k + 2 /\ r.state = "three2"
      BY <1>3, <1>5, <3>3
    <3>4. QED
      BY <3>1, <3>2, <3>3
  <2>2. q.state \in {"two2", "three3"}
    BY <1>7, <2>1 DEF WriteState, WriteContinued, LeadBytes
  <2>3. Moves("cont", q.state) = 1 /\ q.state # "wrong"
    BY <2>2 DEF Moves, Completes
  <2>4. q.pos = r.pos + 1 /\ q.count = q.pos /\ q.state \in Between
    BY <1>1, <1>7, <1>9, <2>2, <2>3 DEF Between
  <2>5. q.cells[r.pos] = SubSeq(t, k + 1, m + 1)
    BY <1>7, <1>9, <2>3
  <2>6. m + 1 \in C
    BY <1>2, <2>1
  <2>7. AtCut(t, C, G, m + 1)
    BY <1>1, <1>3, <1>7, <2>4, <2>5, <2>6, PointDone
  <2>8. QED
    BY <2>7
<1>12. QED
  BY <1>10, <1>11

\* Everywhere in the text the decoder is between two code points or inside one.
LEMMA WellFormedRun ==
  ASSUME NEW t \in Seq(AllBytes), NEW C, NEW G, Joins(Points(t), G),
         Cut(t, C), 0 \in C, Accepted(t) \/ "four" \notin ToSet(t)
  PROVE  \A m \in 0 .. Len(t) :
           AtCut(t, C, G, m) \/ \E k \in C : InPoint(t, C, G, k, m)
<1> DEFINE P(m) == AtCut(t, C, G, m) \/ \E k \in C : InPoint(t, C, G, k, m)
           S == {m \in 0 .. Len(t) : P(m)}
<1>1. Len(t) \in Nat
  OBVIOUS
<1>2. 0 \in S
  BY <1>1, StartsAtCut
<1>3. ASSUME NEW m \in 0 .. Len(t) - 1, m \in S PROVE m + 1 \in S
  <2>1. m + 1 \in 0 .. Len(t)
    BY <1>1
  <2>2. CASE AtCut(t, C, G, m)
    <3>1. m \in C
      BY <2>2 DEF AtCut
    <3>2. AtCut(t, C, G, m + 1) \/ InPoint(t, C, G, m, m + 1)
      BY <2>2, FirstByteRead
    <3>3. QED
      BY <2>1, <3>1, <3>2
  <2>3. CASE \E k \in C : InPoint(t, C, G, k, m)
    <3>1. PICK k \in C : InPoint(t, C, G, k, m)
      BY <2>3
    <3>2. AtCut(t, C, G, m + 1) \/ InPoint(t, C, G, k, m + 1)
      BY <3>1, NextByteRead
    <3>3. QED
      BY <2>1, <3>2
  <2>4. QED
    BY <1>3, <2>2, <2>3
<1> HIDE DEF S
<1>4. \A m \in 0 .. Len(t) : m \in S
  BY <1>1, <1>2, <1>3, BoundedInduction
<1>5. QED
  BY <1>4 DEF S

\* The pass over a text of complete code points of one to three bytes goes
\* through.
LEMMA WellFormedNotWrong ==
  ASSUME NEW t \in Seq(AllBytes), WellFormed(t), "four" \notin ToSet(t),
         NEW m \in 0 .. Len(t)
  PROVE  Run(t)[m].state # "wrong"
<1>1. PICK C : Cut(t, C) /\ 0 \in C
  BY WellFormedCuts
<1>2. PICK G : Joins(Points(t), G)
  BY PointsType, JoinsExist
<1>3. AtCut(t, C, G, m) \/ \E k \in C : InPoint(t, C, G, k, m)
  BY <1>1, <1>2, WellFormedRun
<1>4. QED
  BY <1>3 DEF AtCut, InPoint, Between

\* What is decoded from it is the text.
LEMMA WellFormedDecoded ==
  ASSUME NEW t \in Seq(AllBytes), WellFormed(t), Accepted(t),
         "nul" \notin ToSet(t)
  PROVE  /\ FlattenSeq(CString(Decoded(t).unicode)) = t
         /\ Len(CString(Decoded(t).unicode)) = Decoded(t).unicode_len
<1> DEFINE e == Final(t)
           u == Decoded(t).unicode
           n == Total(t)
<1>1. PICK C : Cut(t, C) /\ 0 \in C
  BY WellFormedCuts
<1>2. PICK G : Joins(Points(t), G)
  BY PointsType, JoinsExist
<1>3. Len(t) \in Nat /\ Len(t) \in 0 .. Len(t)
  OBVIOUS
<1>4. AtCut(t, C, G, Len(t))
  <2>1. AtCut(t, C, G, Len(t)) \/ \E k \in C : InPoint(t, C, G, k, Len(t))
    BY <1>1, <1>2, <1>3, WellFormedRun
  <2>2. ASSUME NEW k \in C, InPoint(t, C, G, k, Len(t)) PROVE FALSE
    <3>1. /\ k # Len(t)
          /\ \/ t[k + 1] = "two" /\ Len(t) = k + 1
             \/ t[k + 1] = "three" /\ Len(t) = k + 1
             \/ t[k + 1] = "three" /\ Len(t) = k + 2
      BY <2>2 DEF InPoint
    <3>2. k \in 0 .. Len(t) /\ Whole(t, k)
      BY <1>1, <3>1 DEF Cut
    <3>3. k + Need(t[k + 1]) <= Len(t)
      BY <3>2 DEF Whole
    <3>4. /\ t[k + 1] = "two" => Need(t[k + 1]) = 2
          /\ t[k + 1] = "three" => Need(t[k + 1]) = 3
      BY DEF Need
    <3>5. QED
      BY <1>3, <3>1, <3>2, <3>3, <3>4
  <2>3. QED
    BY <2>1, <2>2
<1>5. /\ e.pos = n /\ n \in Nat
      /\ G[n] = SubSeq(t, 1, Len(t)) /\ Solid(t, e)
  <2>1. n \in Nat
    BY <1>3, InRoom
  <2>2. /\ e.pos = e.count /\ e.count = n /\ G[e.pos] = SubSeq(t, 1, Len(t))
        /\ Solid(t, e)
    BY <1>4 DEF AtCut, Final, Total
  <2>3. QED
    BY <2>1, <2>2
<1>6. u = [Buffer(t, Len(t)) EXCEPT ![n] = Zero]
  BY <1>5, DecodedFields DEF Final
<1>7. /\ DOMAIN u = 0 .. n /\ n \in 0 .. n /\ u[n] = Zero
      /\ \A j \in 0 .. n - 1 : u[j] = e.cells[j]
  <2>1. Buffer(t, Len(t)) = [j \in 0 .. n |-> e.cells[j]]
    BY DEF Buffer, Final
  <2> HIDE DEF u, e, n
  <2>2. QED
    BY <1>5, <1>6, <2>1
<1>8. \A j \in 0 .. n - 1 : e.cells[j] \notin Terminators
  BY <1>5 DEF Solid, Terminators
<1>9. \A j \in 0 .. n - 1 : u[j] \notin Terminators
  BY <1>7, <1>8
<1>10. u[n] \in Terminators
  BY <1>7 DEF Terminators
<1>11. CString(u) = [k \in 1 .. n |-> u[k - 1]]
  <2> HIDE DEF u, n
  <2>1. QED
    BY <1>5, <1>7, <1>9, <1>10, CStringEnds
<1>12. \A k \in 1 .. n : k - 1 \in 0 .. n - 1
  BY <1>5
<1>13. [k \in 1 .. n |-> u[k - 1]] = [k \in 1 .. n |-> e.cells[k - 1]]
  <2> HIDE DEF u, n, e
  <2>1. QED
    BY <1>7, <1>12
<1>14. CString(u) = Points(t)
  BY <1>5, <1>11, <1>13 DEF Points
<1>15. Len(Points(t)) = n
  BY <1>5, PointsType
<1>16. FlattenSeq(Points(t)) = G[n]
  BY <1>2, <1>15 DEF Joins
<1>17. SubSeq(t, 1, Len(t)) = t
  BY SubSeqFull
<1>18. Decoded(t).unicode_len = n
  BY DecodedFields
<1>19. QED
  BY <1>5, <1>14, <1>15, <1>16, <1>17, <1>18

\* A text of complete code points of one to three bytes is not refused, and a
\* string without NUL that is made of complete code points is exactly them.
THEOREM DecodesWellFormed == Spec => []WellFormedIsDecoded
<1>1. StringInv => WellFormedIsDecoded
  <2> SUFFICES ASSUME StringInv PROVE WellFormedIsDecoded
    OBVIOUS
  <2>1. ASSUME NEW s \in {original, duplicate} \ {NoString},
               WellFormed(s.utf8), "nul" \notin ToSet(s.utf8)
        PROVE  /\ FlattenSeq(CString(s.unicode)) = s.utf8
               /\ Len(CString(s.unicode)) = s.unicode_len
    <3>1. GoodString(s)
      BY DEF StringInv, OriginalInv, DuplicateInv
    <3>2. /\ s.utf8 \in Seq(AllBytes) /\ Accepted(s.utf8)
          /\ s = Decoded(s.utf8)
      BY <3>1 DEF GoodString
    <3> DEFINE t == s.utf8
    <3>3. s.unicode = Decoded(t).unicode /\ s.unicode_len = Decoded(t).unicode_len
      BY <3>2
    <3>4. /\ FlattenSeq(CString(Decoded(t).unicode)) = t
          /\ Len(CString(Decoded(t).unicode)) = Decoded(t).unicode_len
      BY <2>1, <3>2, WellFormedDecoded
    <3>5. QED
      BY <3>3, <3>4
  <2>2. ASSUME pass = "count", state = "wrong", "four" \notin ToSet(text)
        PROVE  ~WellFormed(text)
    <3>1. /\ text \in Seq(AllBytes) /\ idx \in 0 .. Len(text)
          /\ state = Run(text)[idx].state
      BY <2>2 DEF StringInv, TypeInv, CountInv
    <3>2. QED
      BY <2>2, <3>1, WellFormedNotWrong
  <2>3. QED
    BY <2>1, <2>2 DEF WellFormedIsDecoded
<1>2. QED
  BY <1>1, StringsCorrect, PTL
=============================================================================
