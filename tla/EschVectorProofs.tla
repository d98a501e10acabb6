--------------------------- MODULE EschVectorProofs ---------------------------
(***************************************************************************)
(* The invariants of EschVector, for all vectors, buffers, values, indices *)
(* and lengths.  TypeOK, BuffersOwned and ElementsWritten together are     *)
(* inductive.  GoodHeap restates what they say of vec and mem, one vector  *)
(* at a time; OneVectorChanges is the only fact about the whole heap: the  *)
(* actions either leave it alone, remove a vector, or change one vector    *)
(* whose new buffer Fits.                                                  *)
(***************************************************************************)
EXTENDS EschVector, SequenceTheorems, TLAPS

\* The record r of a vector and the content c of its buffer agree.
Fits(r, c) ==
  /\ r \in VectorRecords
  /\ r.next.buf = r.begin
  /\ r.next.off \in 0 .. r.slots
  /\ DOMAIN c = 0 .. r.slots
  /\ \A k \in 0 .. r.slots : c[k] \in Cells
  /\ \A k \in 0 .. r.next.off - 1 : c[k] \in Values

GoodHeap(V, M) ==
  /\ V \in [DOMAIN V -> VectorRecords]
  /\ DOMAIN V \subseteq Vecs
  /\ DOMAIN M = {V[v].begin : v \in DOMAIN V}
  /\ \A v \in DOMAIN V : Fits(V[v], M[V[v].begin])
  /\ \A v, w \in DOMAIN V : v # w => V[v].begin # V[w].begin

\* The types of the variables that are not the heap.
RestOK ==
  /\ iter \in [container : Vecs \cup {NoVec}, pos : Nat]
  /\ ret \in Errors
  /\ out \in Cells /\ kept \in Cells
  /\ fault \in {"none", "bad_dispatch", "null_config"}

VInv == GoodHeap(vec, mem) /\ RestOK

\* The step gives vector v, new or not, the record r and a buffer of content c,
\* and leaves the other vectors as they are.
Changed(v, r, c) ==
  /\ DOMAIN vec' = DOMAIN vec \cup {v}
  /\ vec'[v] = r /\ mem'[r.begin] = c
  /\ \A w \in DOMAIN vec \ {v} : /\ vec'[w] = vec[w]
                                 /\ mem'[vec[w].begin] = mem[vec[w].begin]

\* The step adds x behind the elements of v.
Appended(v, x) ==
  \E r, c : /\ Changed(v, r, c)
            /\ r.next.off = vec[v].next.off + 1
            /\ r.enlarge = vec[v].enlarge
            /\ r.enlarge \/ r.slots = vec[v].slots
            /\ c[vec[v].next.off] = x
            /\ \A k \in 0 .. vec[v].next.off - 1 : c[k] = mem[vec[v].begin][k]

-----------------------------------------------------------------------------
\* The invariants of the module follow from VInv.
LEMMA VInvImplies == VInv => TypeOK /\ BuffersOwned /\ ElementsWritten
<1> SUFFICES ASSUME VInv PROVE TypeOK /\ BuffersOwned /\ ElementsWritten
  OBVIOUS
<1>1. GoodHeap(vec, mem) /\ RestOK
  BY DEF VInv
<1>2. \A v \in Live : /\ vec[v] \in VectorRecords
                      /\ vec[v].begin \in Buffers
                      /\ Fits(vec[v], mem[vec[v].begin])
  BY <1>1 DEF GoodHeap, Live, VectorRecords
<1>3. \A b \in DOMAIN mem : b \in Buffers /\ \A k \in DOMAIN mem[b] : mem[b][k] \in Cells
  <2> SUFFICES ASSUME NEW b \in DOMAIN mem
               PROVE  b \in Buffers /\ \A k \in DOMAIN mem[b] : mem[b][k] \in Cells
    OBVIOUS
  <2>1. PICK v \in Live : b = vec[v].begin
    BY <1>1 DEF GoodHeap, Live
  <2> QED BY <1>2, <2>1 DEF Fits
<1>4. TypeOK
  BY <1>1, <1>3 DEF TypeOK, GoodHeap, RestOK, Live
<1>5. BuffersOwned
  BY <1>1, <1>2 DEF BuffersOwned, GoodHeap, Fits, Live
<1>6. ElementsWritten
  BY <1>2 DEF ElementsWritten, Fits, Length
<1> QED BY <1>4, <1>5, <1>6

\* Functions with one value added and with one removed.
LEMMA WithFacts ==
  ASSUME NEW f, NEW x, NEW y
  PROVE  /\ DOMAIN With(f, x, y) = DOMAIN f \cup {x}
         /\ With(f, x, y)[x] = y
         /\ \A z \in DOMAIN f \ {x} : With(f, x, y)[z] = f[z]
         /\ With(f, x, y) = [z \in DOMAIN With(f, x, y) |-> With(f, x, y)[z]]
BY DEF With

LEMMA WithoutFacts ==
  ASSUME NEW f, NEW x
  PROVE  /\ DOMAIN Without(f, x) = DOMAIN f \ {x}
         /\ \A z \in DOMAIN f \ {x} : Without(f, x)[z] = f[z]
         /\ Without(f, x) = [z \in DOMAIN Without(f, x) |-> Without(f, x)[z]]
BY DEF Without

\* A heap stays good when one vector is created or changed and the buffer it
\* then has fits and is nobody else's.
LEMMA OneVectorChanges ==
  ASSUME NEW V, NEW M, NEW W, NEW N, NEW v \in Vecs,
         GoodHeap(V, M),
         W = [z \in DOMAIN W |-> W[z]],
         DOMAIN W = DOMAIN V \cup {v},
         \A w \in DOMAIN V \ {v} : W[w] = V[w],
         DOMAIN N = {V[w].begin : w \in DOMAIN V \ {v}} \cup {W[v].begin},
         \A w \in DOMAIN V \ {v} : /\ N[V[w].begin] = M[V[w].begin]
                                   /\ V[w].begin # W[v].begin,
         Fits(W[v], N[W[v].begin])
  PROVE  GoodHeap(W, N)
<1>1. \A w \in DOMAIN W : Fits(W[w], N[W[w].begin])
  BY DEF GoodHeap
<1>2. W \in [DOMAIN W -> VectorRecords]
  <2>1. \A w \in DOMAIN W : W[w] \in VectorRecords
    BY <1>1 DEF Fits
  <2> QED BY <2>1
<1>3. DOMAIN W \subseteq Vecs
  BY DEF GoodHeap
<1>4. DOMAIN N = {W[w].begin : w \in DOMAIN W}
  OBVIOUS
<1>5. \A u, w \in DOMAIN W : u # w => W[u].begin # W[w].begin
  BY DEF GoodHeap
<1> QED BY <1>1, <1>2, <1>3, <1>4, <1>5 DEF GoodHeap

\* A heap stays good when a vector and its buffer go.
LEMMA OneVectorGoes ==
  ASSUME NEW V, NEW M, NEW v \in DOMAIN V, GoodHeap(V, M)
  PROVE  GoodHeap(Without(V, v), Without(M, V[v].begin))
<1> DEFINE W == Without(V, v)
           N == Without(M, V[v].begin)
<1>1. /\ DOMAIN W = DOMAIN V \ {v}
      /\ \A w \in DOMAIN W : W[w] = V[w]
      /\ W = [z \in DOMAIN W |-> W[z]]
  BY DEF Without
<1>2. /\ DOMAIN N = DOMAIN M \ {V[v].begin}
      /\ \A b \in DOMAIN N : N[b] = M[b]
  BY DEF Without
<1> HIDE DEF W, N
<1>3. \A w \in DOMAIN W : /\ W[w].begin # V[v].begin
                          /\ W[w].begin \in DOMAIN M
  BY <1>1 DEF GoodHeap
<1>4. \A w \in DOMAIN W : Fits(W[w], N[W[w].begin])
  BY <1>1, <1>2, <1>3 DEF GoodHeap
<1>5. W \in [DOMAIN W -> VectorRecords]
  <2>1. \A w \in DOMAIN W : W[w] \in VectorRecords
    BY <1>4 DEF Fits
  <2> QED BY <1>1, <2>1
<1>6. DOMAIN N = {W[w].begin : w \in DOMAIN W}
  BY <1>1, <1>2, <1>3 DEF GoodHeap
<1>7. DOMAIN W \subseteq Vecs /\ \A u, w \in DOMAIN W : u # w => W[u].begin # W[w].begin
  BY <1>1 DEF GoodHeap
<1>8. GoodHeap(W, N)
  BY <1>4, <1>5, <1>6, <1>7 DEF GoodHeap
<1> QED BY <1>8 DEF W, N

\* What VInv says of a vector that exists.
LEMMA LiveFacts ==
  ASSUME GoodHeap(vec, mem), NEW v \in Live
  PROVE  /\ v \in Vecs /\ vec[v] \in VectorRecords
         /\ vec[v].begin \in Buffers /\ vec[v].begin \in DOMAIN mem
         /\ vec[v].slots \in Nat \ {0} /\ vec[v].next.off \in 0 .. vec[v].slots
         /\ vec[v].next.buf = vec[v].begin
         /\ Fits(vec[v], mem[vec[v].begin])
         /\ \A w \in Live \ {v} : vec[w].begin # vec[v].begin
BY DEF GoodHeap, Fits, VectorRecords, Live

-----------------------------------------------------------------------------
(***************************************************************************)
(* Each action preserves VInv.                                             *)
(***************************************************************************)
\* A call that leaves the heap alone.
LEMMA HeapKept ==
  ASSUME VInv, vec' = vec, mem' = mem, RestOK'
  PROVE  VInv'
BY DEF VInv, GoodHeap, Fits

LEMMA ReturnsKeeps ==
  ASSUME VInv, NEW status \in Errors, Returns(status)
  PROVE  VInv'
<1>1. RestOK'
  BY DEF VInv, RestOK, Returns
<1> QED BY <1>1, HeapKept DEF Returns

LEMMA FaultKeeps ==
  ASSUME VInv, NEW what \in {"bad_dispatch", "null_config"}, Fault(what)
  PROVE  VInv'
<1>1. RestOK'
  BY DEF VInv, RestOK, Fault
<1> QED BY <1>1, HeapKept DEF Fault

\* A new vector v with record r, in buffer b with content c.
LEMMA AddedKeeps ==
  ASSUME VInv, NEW v \in Vecs \ Live, NEW b \in FreeBuffers, NEW r, NEW c,
         r.begin = b, Fits(r, c),
         vec' = With(vec, v, r), mem' = With(mem, b, c), RestOK'
  PROVE  VInv' /\ Changed(v, r, c)
<1> DEFINE W == With(vec, v, r)
           N == With(mem, b, c)
<1>1. GoodHeap(vec, mem) /\ v \notin DOMAIN vec /\ b \notin DOMAIN mem
  BY DEF VInv, Live, FreeBuffers
<1>2. /\ DOMAIN W = DOMAIN vec \cup {v} /\ W[v] = r
      /\ \A w \in DOMAIN vec \ {v} : W[w] = vec[w]
      /\ W = [z \in DOMAIN W |-> W[z]]
  BY DEF With
<1>3. /\ DOMAIN N = DOMAIN mem \cup {b} /\ N[b] = c
      /\ \A d \in DOMAIN mem \ {b} : N[d] = mem[d]
  BY DEF With
<1> HIDE DEF W, N
<1>4. \A w \in DOMAIN vec \ {v} : vec[w].begin \in DOMAIN mem \ {b}
  BY <1>1 DEF GoodHeap
<1>5. DOMAIN N = {vec[w].begin : w \in DOMAIN vec \ {v}} \cup {W[v].begin}
  BY <1>1, <1>2, <1>3 DEF GoodHeap
<1>6. \A w \in DOMAIN vec \ {v} : /\ N[vec[w].begin] = mem[vec[w].begin]
                                  /\ vec[w].begin # W[v].begin
  BY <1>2, <1>3, <1>4
<1>7. Fits(W[v], N[W[v].begin])
  BY <1>2, <1>3
<1>8. GoodHeap(W, N)
  BY <1>1, <1>2, <1>5, <1>6, <1>7, OneVectorChanges
<1>9. GoodHeap(vec', mem')
  BY <1>8 DEF W, N
<1>10. Changed(v, r, c)
  <2>1. vec' = W /\ mem' = N
    BY DEF W, N
  <2> QED BY <1>2, <1>3, <1>6, <2>1 DEF Changed
<1> QED BY <1>9, <1>10 DEF VInv

LEMMA NewKeeps ==
  ASSUME VInv, NEW v \in Vecs, NEW len \in Lengths, NEW enl \in BOOLEAN,
         New(v, len, enl)
  PROVE  VInv' /\ \E r, c : /\ Changed(v, r, c)
                            /\ r.next.off = 0 /\ r.enlarge = enl
                            /\ r.slots \in Nat /\ r.slots >= len
<1> DEFINE n == InitialLength(len)
           r(b) == [enlarge |-> enl, slots |-> n, begin |-> b, next |-> Pointer(b, 0)]
           c == [k \in 0 .. n |-> Zero]
<1>1. PICK b \in FreeBuffers : vec' = With(vec, v, r(b)) /\ mem' = With(mem, b, c)
  BY DEF New
<1>2. n \in Nat \ {0} /\ n >= len
  BY MemoryAssumption DEF InitialLength
<1>3. b \in Buffers
  BY DEF FreeBuffers
<1> HIDE DEF n
<1>4. r(b) \in VectorRecords
  BY <1>2, <1>3 DEF VectorRecords, Pointer
<1>5. Fits(r(b), c)
  BY <1>2, <1>4 DEF Fits, Pointer, Cells
<1>6. RestOK'
  BY DEF VInv, RestOK, New, Errors
<1>7. v \in Vecs \ Live /\ r(b).begin = b
  BY DEF New
<1>8. VInv' /\ Changed(v, r(b), c)
  BY <1>1, <1>5, <1>6, <1>7, AddedKeeps
<1>9. r(b).next.off = 0 /\ r(b).enlarge = enl /\ r(b).slots = n
  BY DEF Pointer
<1> QED BY <1>2, <1>8, <1>9

LEMMA CopyKeeps ==
  ASSUME VInv, NEW v \in Vecs, NEW w \in Vecs, Copy(v, w)
  PROVE  VInv' /\ \E r, c : /\ Changed(w, r, c)
                            /\ r.next.off = vec[v].next.off
                            /\ r.enlarge = FALSE
                            /\ r.slots \in Nat /\ r.slots >= vec[v].slots
                            /\ \A k \in 0 .. vec[v].next.off - 1 :
                                  c[k] = mem[vec[v].begin][k]
<1> DEFINE n == InitialLength(vec[v].slots)
           r(b) == [enlarge |-> FALSE, slots |-> n, begin |-> b, next |-> CopiedNext(v, b)]
           c == [k \in 0 .. n |-> IF k < vec[v].slots THEN mem[vec[v].begin][k] ELSE Zero]
<1>1. PICK b \in FreeBuffers : vec' = With(vec, w, r(b)) /\ mem' = With(mem, b, c)
  BY DEF Copy
<1>2. /\ v \in Live /\ w \in Vecs \ Live
      /\ vec[v].slots \in Nat \ {0} /\ vec[v].next.off \in 0 .. vec[v].slots
      /\ Fits(vec[v], mem[vec[v].begin])
  BY LiveFacts DEF Copy, VInv
<1>3. n \in Nat \ {0} /\ vec[v].slots <= n
  BY <1>2, MemoryAssumption DEF InitialLength
<1>4. b \in Buffers
  BY DEF FreeBuffers
<1> HIDE DEF n
<1>5. r(b) \in VectorRecords
  BY <1>2, <1>3, <1>4 DEF VectorRecords, CopiedNext, Pointer
<1>6. \A k \in 0 .. n : c[k] \in Cells
  BY <1>2, <1>3 DEF Fits, Cells
<1>7. \A k \in 0 .. vec[v].next.off - 1 : c[k] \in Values
  BY <1>2, <1>3 DEF Fits
<1>8. Fits(r(b), c)
  BY <1>2, <1>3, <1>5, <1>6, <1>7 DEF Fits, CopiedNext, Pointer
<1>9. RestOK'
  BY DEF VInv, RestOK, Copy, Errors
<1>10. VInv' /\ Changed(w, r(b), c)
  BY <1>1, <1>2, <1>8, <1>9, AddedKeeps
<1>11. r(b).next.off = vec[v].next.off /\ r(b).enlarge = FALSE /\ r(b).slots = n
  BY DEF CopiedNext, Pointer
<1>12. \A k \in 0 .. vec[v].next.off - 1 : c[k] = mem[vec[v].begin][k]
  BY <1>2, <1>3
<1> HIDE DEF r, c
<1> QED BY <1>3, <1>10, <1>11, <1>12

LEMMA DeleteKeeps ==
  ASSUME VInv, NEW v \in Vecs, Delete(v)
  PROVE  VInv'
<1>1. GoodHeap(vec', mem')
  BY OneVectorGoes DEF Delete, VInv, Live
<1>2. RestOK'
  BY DEF VInv, RestOK, Delete, Errors
<1> QED BY <1>1, <1>2 DEF VInv

\* A value is stored at next, in a buffer b with content c that is the vector's
\* own or has taken the place of it, and next advances.
LEMMA StoreKeeps ==
  ASSUME VInv, NEW v \in Live, NEW r, NEW m, NEW x \in Values,
         DOMAIN m = (DOMAIN mem \ {vec[v].begin}) \cup {r.begin},
         r.begin = vec[v].begin \/ r.begin \notin DOMAIN mem,
         \A b \in DOMAIN mem \ {vec[v].begin} : m[b] = mem[b],
         Fits(r, m[r.begin]), r.next.off < r.slots,
         StoreAtNext(v, r, m, x)
  PROVE  /\ VInv'
         /\ ValueCheck(x) = OK => Changed(v, [r EXCEPT !.next.off = @ + 1],
                                          [m[r.begin] EXCEPT ![r.next.off] = x])
<1>0. GoodHeap(vec, mem) /\ v \in DOMAIN vec /\ v \in Vecs
  BY LiveFacts DEF VInv, Live
<1>1. CASE ValueCheck(x) # OK
  BY <1>1, FaultKeeps DEF StoreAtNext
<1>2. CASE ValueCheck(x) = OK
  <2> DEFINE W == [vec EXCEPT ![v] = [r EXCEPT !.next.off = @ + 1]]
             N == [m EXCEPT ![r.next.buf][r.next.off] = x]
             c == [m[r.begin] EXCEPT ![r.next.off] = x]
             s == [r EXCEPT !.next.off = @ + 1]
  <2>1. vec' = W /\ mem' = N
    BY <1>2 DEF StoreAtNext
  <2>2. /\ r \in VectorRecords /\ r.next.buf = r.begin
        /\ r.next.off \in Nat /\ r.slots \in Nat
        /\ r.next.off < r.slots
    BY DEF Fits, VectorRecords
  <2>3. /\ s \in VectorRecords /\ s.begin = r.begin /\ s.slots = r.slots
        /\ s.next.buf = r.next.buf /\ s.next.off = r.next.off + 1
    BY <2>2 DEF VectorRecords
  <2>4. /\ DOMAIN c = 0 .. r.slots
        /\ c[r.next.off] = x
        /\ \A k \in 0 .. r.slots : k # r.next.off => c[k] = m[r.begin][k]
    BY <2>2 DEF Fits
  <2>5. /\ DOMAIN W = DOMAIN vec /\ W[v] = s
        /\ \A w \in DOMAIN vec \ {v} : W[w] = vec[w]
        /\ W = [z \in DOMAIN W |-> W[z]]
    BY <1>0 DEF GoodHeap
  <2>6. /\ DOMAIN N = DOMAIN m /\ N[r.begin] = c
        /\ \A b \in DOMAIN m \ {r.begin} : N[b] = m[b]
    BY <2>2
  <2> HIDE DEF W, N, c, s
  <2>7. Fits(s, c)
    <3>1. \A k \in 0 .. r.slots : c[k] \in Cells
      BY <2>4 DEF Fits, Cells
    <3>2. \A k \in 0 .. r.next.off : c[k] \in Values
      BY <2>2, <2>4 DEF Fits
    <3> QED BY <2>2, <2>3, <2>4, <3>1, <3>2 DEF Fits
  <2>8. \A w \in DOMAIN vec \ {v} : /\ vec[w].begin \in DOMAIN mem
                                    /\ vec[w].begin # vec[v].begin
                                    /\ vec[w].begin # r.begin
    BY <1>0 DEF GoodHeap
  <2>9. DOMAIN N = {vec[w].begin : w \in DOMAIN vec \ {v}} \cup {W[v].begin}
    <3>1. DOMAIN mem \ {vec[v].begin} = {vec[w].begin : w \in DOMAIN vec \ {v}}
      BY <1>0, <2>8 DEF GoodHeap
    <3> QED BY <2>3, <2>5, <2>6, <3>1
  <2>10. \A w \in DOMAIN vec \ {v} : /\ N[vec[w].begin] = mem[vec[w].begin]
                                     /\ vec[w].begin # W[v].begin
    BY <2>3, <2>5, <2>6, <2>8
  <2>11. Fits(W[v], N[W[v].begin])
    BY <2>3, <2>5, <2>6, <2>7
  <2>12. DOMAIN W = DOMAIN vec \cup {v}
    BY <1>0, <2>5
  <2>13. GoodHeap(W, N)
    BY <1>0, <2>5, <2>9, <2>10, <2>11, <2>12, OneVectorChanges, SMTT(30)
  <2>14. RestOK'
    BY <1>2 DEF VInv, RestOK, StoreAtNext, Errors
  <2>15. GoodHeap(vec', mem')
    BY <2>1, <2>13
  <2>16. Changed(v, s, c)
    BY <2>1, <2>3, <2>5, <2>6, <2>10, <2>12 DEF Changed
  <2>17. VInv' /\ Changed(v, s, c)
    BY <2>14, <2>15, <2>16 DEF VInv
  <2> QED BY <2>17 DEF s, c
<1> QED BY <1>1, <1>2

\* Appended is known by its witnesses.
LEMMA AppendedBy ==
  ASSUME NEW v, NEW x, NEW r, NEW c,
         Changed(v, r, c),
         r.next.off = vec[v].next.off + 1,
         r.enlarge = vec[v].enlarge,
         r.enlarge \/ r.slots = vec[v].slots,
         c[vec[v].next.off] = x,
         \A k \in 0 .. vec[v].next.off - 1 : c[k] = mem[vec[v].begin][k]
  PROVE  Appended(v, x)
BY DEF Appended

LEMMA AppendInPlaceKeeps ==
  ASSUME VInv, NEW v \in Live, NEW x \in Values, AppendInPlace(v, x)
  PROVE  /\ VInv' /\ vec[v].next.off < vec[v].slots
         /\ ValueCheck(x) = OK => Appended(v, x)
<1>1. /\ vec[v].begin \in DOMAIN mem /\ Fits(vec[v], mem[vec[v].begin])
      /\ vec[v].slots \in Nat /\ vec[v].next.off \in 0 .. vec[v].slots
      /\ vec[v].next.buf = vec[v].begin /\ vec[v] \in VectorRecords
  BY LiveFacts DEF VInv
<1>2. vec[v].next.off < vec[v].slots
  <2>1. vec[v].next # Pointer(vec[v].begin, vec[v].slots)
    BY DEF AppendInPlace, Full
  <2>2. vec[v].next = Pointer(vec[v].begin, vec[v].next.off)
    BY <1>1 DEF VectorRecords, Pointer
  <2>3. vec[v].next.off # vec[v].slots
    BY <2>1, <2>2
  <2> QED BY <1>1, <2>3
<1> DEFINE s == [vec[v] EXCEPT !.next.off = @ + 1]
           c == [mem[vec[v].begin] EXCEPT ![vec[v].next.off] = x]
<1>3. VInv' /\ (ValueCheck(x) = OK => Changed(v, s, c))
  BY <1>1, <1>2, StoreKeeps DEF AppendInPlace
<1>4. /\ s.next.off = vec[v].next.off + 1 /\ s.enlarge = vec[v].enlarge
      /\ s.slots = vec[v].slots
  BY <1>1 DEF VectorRecords
<1>5. /\ c[vec[v].next.off] = x
      /\ \A k \in 0 .. vec[v].next.off - 1 : c[k] = mem[vec[v].begin][k]
  BY <1>1 DEF Fits
<1> HIDE DEF s, c
<1> QED BY <1>2, <1>3, <1>4, <1>5 DEF Appended

LEMMA AppendEnlargedKeeps ==
  ASSUME VInv, NEW v \in Live, NEW x \in Values, AppendEnlarged(v, x)
  PROVE  VInv' /\ (ValueCheck(x) = OK => Appended(v, x))
<1> DEFINE n == 2 * vec[v].slots
           grown == [k \in 0 .. n |-> IF k <= vec[v].slots
                                      THEN mem[vec[v].begin][k] ELSE Junk]
           r(b) == [enlarge |-> TRUE, slots |-> n, begin |-> b, next |-> MovedNext(v, b)]
           m(b) == With(Without(mem, vec[v].begin), b, grown)
<1>1. PICK b \in FreeBuffers \cup {vec[v].begin} : StoreAtNext(v, r(b), m(b), x)
  BY DEF AppendEnlarged
<1>2. /\ vec[v].begin \in DOMAIN mem /\ vec[v].begin \in Buffers
      /\ Fits(vec[v], mem[vec[v].begin])
      /\ vec[v].slots \in Nat \ {0} /\ vec[v].next.off \in 0 .. vec[v].slots
      /\ vec[v].next.buf = vec[v].begin /\ vec[v] \in VectorRecords
  BY LiveFacts DEF VInv
<1>3. vec[v].next.off = vec[v].slots
  BY DEF AppendEnlarged, Full, Pointer
<1>4. b \in Buffers /\ (b = vec[v].begin \/ b \notin DOMAIN mem)
  BY <1>2 DEF FreeBuffers
<1>5. /\ DOMAIN m(b) = (DOMAIN mem \ {vec[v].begin}) \cup {b}
      /\ m(b)[b] = grown
      /\ \A d \in DOMAIN mem \ {vec[v].begin} : m(b)[d] = mem[d]
  <2>1. b \notin DOMAIN mem \ {vec[v].begin}
    BY <1>4
  <2> QED BY <2>1 DEF With, Without
<1>6. n \in Nat \ {0} /\ vec[v].slots < n
  BY <1>2
<1> HIDE DEF n
<1>7. /\ \A k \in 0 .. n : grown[k] \in Cells
      /\ \A k \in 0 .. vec[v].slots - 1 : grown[k] \in Values
  <2>1. \A k \in 0 .. n : grown[k] \in Cells
    BY <1>2, <1>6 DEF Fits, Cells
  <2>2. \A k \in 0 .. vec[v].slots - 1 : grown[k] \in Values
    BY <1>2, <1>3, <1>6 DEF Fits
  <2> QED BY <2>1, <2>2
<1>8. /\ r(b) \in VectorRecords /\ r(b).begin = b /\ r(b).slots = n
      /\ r(b).next.buf = b /\ r(b).next.off = vec[v].slots
  BY <1>2, <1>4, <1>6 DEF VectorRecords, MovedNext, Pointer
<1>9. DOMAIN grown = 0 .. n
  OBVIOUS
<1> HIDE DEF grown, r, m
<1>10. Fits(r(b), m(b)[b])
  BY <1>2, <1>5, <1>6, <1>7, <1>8, <1>9 DEF Fits
<1> DEFINE s == [r(b) EXCEPT !.next.off = @ + 1]
           c == [m(b)[b] EXCEPT ![vec[v].slots] = x]
<1>11. VInv' /\ (ValueCheck(x) = OK => Changed(v, s, c))
  BY <1>1, <1>4, <1>5, <1>6, <1>8, <1>10, StoreKeeps
<1>12. s.next.off = vec[v].next.off + 1 /\ s.enlarge = r(b).enlarge
  BY <1>3, <1>8 DEF VectorRecords
<1>13. r(b).enlarge = TRUE /\ vec[v].enlarge = TRUE
  BY <1>2 DEF r, AppendEnlarged, VectorRecords
<1>14. /\ c[vec[v].next.off] = x
       /\ \A k \in 0 .. vec[v].next.off - 1 : c[k] = grown[k]
  BY <1>2, <1>3, <1>5, <1>6, <1>9
<1>15. \A k \in 0 .. vec[v].next.off - 1 : grown[k] = mem[vec[v].begin][k]
  BY <1>2, <1>3, <1>6 DEF grown
<1> HIDE DEF s, c
<1>16. \A k \in 0 .. vec[v].next.off - 1 : c[k] = mem[vec[v].begin][k]
  BY <1>14, <1>15
<1>17. s.enlarge = vec[v].enlarge /\ s.enlarge = TRUE
  BY <1>12, <1>13
<1>18. CASE ValueCheck(x) = OK
  <2>1. Changed(v, s, c)
    BY <1>11, <1>18
  <2>2. Appended(v, x)
    <3>1. /\ s.next.off = vec[v].next.off + 1
          /\ s.enlarge = vec[v].enlarge
          /\ s.enlarge \/ s.slots = vec[v].slots
          /\ c[vec[v].next.off] = x
      BY <1>12, <1>14, <1>17, Zenon
    <3> HIDE DEF r, m, n, grown
    <3> QED BY <1>16, <2>1, <3>1, AppendedBy
  <2> QED BY <1>11, <2>2
<1> QED BY <1>11, <1>18

LEMMA AppendKeeps ==
  ASSUME VInv, NEW v \in Vecs, NEW x \in Values, AppendValue(v, x)
  PROVE  VInv'
<1>1. v \in Live
  BY DEF AppendValue
<1>2. CASE Returns("INVALID_PARAMETER")
  BY <1>2, ReturnsKeeps DEF Errors
<1>3. CASE AppendInPlace(v, x)
  BY <1>1, <1>3, AppendInPlaceKeeps
<1>4. CASE AppendEnlarged(v, x)
  BY <1>1, <1>4, AppendEnlargedKeeps
<1>5. CASE AppendNoMemory(v)
  BY <1>5, ReturnsKeeps DEF AppendNoMemory, Errors
<1>6. CASE AppendFull(v)
  BY <1>6, ReturnsKeeps DEF AppendFull, Errors
<1> QED BY <1>2, <1>3, <1>4, <1>5, <1>6 DEF AppendValue

\* An index in bounds is that of an element.
LEMMA IndexFacts ==
  ASSUME GoodHeap(vec, mem), NEW v \in Live, NEW i \in Int, InBounds(v, i)
  PROVE  /\ RealIndex(v, i) \in 0 .. Length(v) - 1
         /\ Cell(v, i) \in Values
<1>1. /\ vec[v].next.off \in Nat /\ vec[v].slots \in Nat
      /\ Fits(vec[v], mem[vec[v].begin])
  BY LiveFacts
<1>2. RealIndex(v, i) \in 0 .. Length(v) - 1
  BY <1>1 DEF InBounds, RealIndex, Length
<1>3. \A k \in 0 .. Length(v) - 1 : mem[vec[v].begin][k] \in Values
  BY <1>1 DEF Fits, Length
<1> QED BY <1>2, <1>3 DEF Cell

LEMMA SetKeeps ==
  ASSUME VInv, NEW v \in Vecs, NEW i \in Indices, NEW x \in Values, SetValue(v, i, x)
  PROVE  VInv'
<1>0. v \in Live /\ GoodHeap(vec, mem) /\ i \in Int
  BY ValueAssumption DEF SetValue, VInv
<1>1. CASE \E status \in Errors : Returns(status)
  BY <1>1, ReturnsKeeps
<1>2. CASE /\ InBounds(v, i) /\ vec' = vec
           /\ mem' = [mem EXCEPT ![vec[v].begin][RealIndex(v, i)] = x]
           /\ ret' = "OK" /\ UNCHANGED <<iter, out, kept, fault>>
  <2> DEFINE j == RealIndex(v, i)
             d == vec[v].begin
             c == [mem[d] EXCEPT ![j] = x]
  <2>1. /\ d \in DOMAIN mem /\ Fits(vec[v], mem[d])
        /\ \A w \in Live \ {v} : vec[w].begin # d
    BY <1>0, LiveFacts
  <2>2. j \in 0 .. Length(v) - 1
    BY <1>0, <1>2, IndexFacts
  <2> HIDE DEF j
  <2>3. /\ DOMAIN c = DOMAIN mem[d]
        /\ \A k \in DOMAIN mem[d] : c[k] = IF k = j THEN x ELSE mem[d][k]
    OBVIOUS
  <2>4. /\ DOMAIN mem' = DOMAIN mem
        /\ mem'[d] = c
        /\ \A e \in DOMAIN mem \ {d} : mem'[e] = mem[e]
    BY <1>2, <2>1 DEF j
  <2> HIDE DEF c
  <2>5. Fits(vec[v], c)
    <3>1. \A k \in 0 .. vec[v].slots : c[k] \in Cells
      BY <2>1, <2>3 DEF Fits, Cells
    <3>2. \A k \in 0 .. vec[v].next.off - 1 : c[k] \in Values
      <4>1. \A k \in 0 .. vec[v].next.off - 1 : k \in DOMAIN mem[d]
        BY <2>1 DEF Fits, VectorRecords
      <4> QED BY <2>1, <2>3, <4>1 DEF Fits
    <3>3. DOMAIN c = 0 .. vec[v].slots
      BY <2>1, <2>3 DEF Fits
    <3> QED BY <2>1, <3>1, <3>2, <3>3 DEF Fits
  <2> HIDE DEF d
  <2>6. \A w \in DOMAIN vec : Fits(vec[w], mem'[vec[w].begin])
    <3> SUFFICES ASSUME NEW w \in DOMAIN vec PROVE Fits(vec[w], mem'[vec[w].begin])
      OBVIOUS
    <3>1. CASE w = v
      BY <2>4, <2>5, <3>1 DEF d
    <3>2. CASE w # v
      BY <1>0, <2>1, <2>4, <3>2 DEF GoodHeap, Live
    <3> QED BY <3>1, <3>2
  <2>7. GoodHeap(vec, mem')
    BY <1>0, <2>4, <2>6 DEF GoodHeap
  <2>8. RestOK'
    BY <1>2 DEF VInv, RestOK, Errors
  <2> QED BY <1>2, <2>7, <2>8 DEF VInv
<1> QED BY <1>1, <1>2 DEF SetValue, Errors

LEMMA YieldsKeeps ==
  ASSUME VInv, NEW x \in Cells, Yields(x)
  PROVE  VInv'
<1>1. RestOK'
  BY DEF Yields, VInv, RestOK, Errors
<1> QED BY <1>1, HeapKept DEF Yields

LEMMA GetKeeps ==
  ASSUME VInv, NEW v \in Vecs, NEW i \in Indices, NEW t \in Queries,
         GetValue(v, i, t) \/ GetTyped(v, i, t) \/ GetTypedFails(v, i, t)
  PROVE  VInv'
<1>0. v \in Live /\ GoodHeap(vec, mem) /\ i \in Int
  BY ValueAssumption DEF GetValue, GetTyped, GetTypedFails, VInv
<1>1. CASE \E status \in Errors : Returns(status)
  BY <1>1, ReturnsKeeps
<1>2. CASE InBounds(v, i) /\ Yields(Cell(v, i))
  <2>1. Cell(v, i) \in Cells
    BY <1>0, <1>2, IndexFacts DEF Cells
  <2> QED BY <1>2, <2>1, YieldsKeeps
<1>3. CASE GetTypedFails(v, i, t)
  <2>1. RestOK'
    BY <1>3 DEF GetTypedFails, VInv, RestOK, Errors
  <2> QED BY <1>3, <2>1, HeapKept DEF GetTypedFails
<1> QED BY <1>1, <1>2, <1>3 DEF GetValue, GetTyped, Errors

LEMMA IteratorKeeps ==
  ASSUME VInv, IterValue \/ IterNext \/ \E v \in Vecs : GetIterator(v)
  PROVE  VInv'
<1>1. vec' = vec /\ mem' = mem
  BY DEF IterValue, IterNext, GetIterator, Yields
<1>2. CASE IterValue
  <2> DEFINE v == iter.container
  <2>1. v \in Live /\ iter.pos \in Nat /\ GoodHeap(vec, mem)
    BY <1>2 DEF IterValue, VInv, RestOK
  <2>2. vec[v].next.off \in Nat /\ Fits(vec[v], mem[vec[v].begin])
    BY <2>1, LiveFacts
  <2>3. iter.pos < Length(v) => mem[vec[v].begin][iter.pos] \in Values
    BY <2>1, <2>2 DEF Fits, Length
  <2>4. out' \in Values
    BY <1>2, <2>1, <2>2, <2>3, ValueAssumption DEF IterValue, Yields, Length
  <2>5. RestOK'
    BY <1>2, <2>4 DEF VInv, RestOK, IterValue, Yields, Cells, Errors
  <2> QED BY <1>1, <2>5, HeapKept
<1>3. CASE IterNext
  <2>1. RestOK'
    BY <1>3 DEF VInv, RestOK, IterNext, Errors
  <2> QED BY <1>1, <2>1, HeapKept
<1>4. CASE \E v \in Vecs : GetIterator(v)
  <2>1. RestOK'
    BY <1>4 DEF VInv, RestOK, GetIterator, Errors
  <2> QED BY <1>1, <2>1, HeapKept
<1> QED BY <1>2, <1>3, <1>4

-----------------------------------------------------------------------------
LEMMA InitVInv == Init => VInv
<1> SUFFICES ASSUME Init PROVE VInv
  OBVIOUS
<1>1. DOMAIN vec = {} /\ DOMAIN mem = {}
  BY DEF Init
<1>2. vec \in [DOMAIN vec -> VectorRecords]
  BY DEF Init
<1>3. GoodHeap(vec, mem)
  BY <1>1, <1>2 DEF GoodHeap
<1>4. RestOK
  BY ValueAssumption DEF Init, RestOK, Errors, Cells
<1> QED BY <1>3, <1>4 DEF VInv

LEMMA CallKeeps == VInv /\ Call => VInv'
<1> SUFFICES ASSUME VInv, Call PROVE VInv'
  OBVIOUS
<1>1. CASE NewFails
  BY <1>1, ReturnsKeeps DEF NewFails, Errors
<1>2. CASE IterValue \/ IterNext \/ \E v \in Vecs : GetIterator(v)
  BY <1>2, IteratorKeeps
<1>3. CASE \E v \in Vecs, len \in Lengths, enl \in BOOLEAN : New(v, len, enl)
  BY <1>3, NewKeeps
<1>4. CASE \E v, w \in Vecs : Copy(v, w)
  BY <1>4, CopyKeeps
<1>5. CASE \E v \in Vecs : Delete(v)
  BY <1>5, DeleteKeeps
<1>6. CASE \E v \in Vecs : CopyFails(v)
  BY <1>6, ReturnsKeeps DEF CopyFails, Errors
<1>7. CASE \E v \in Vecs : CopyWithoutConfig(v)
  BY <1>7, FaultKeeps DEF CopyWithoutConfig
<1>8. CASE \E v \in Vecs, x \in Values : AppendValue(v, x)
  BY <1>8, AppendKeeps
<1>9. CASE \E v \in Vecs, i \in Indices, x \in Values : SetValue(v, i, x)
  BY <1>9, SetKeeps
<1>10. ASSUME NEW v \in Vecs, NEW x \in Objects, AppendObject(v, x) PROVE VInv'
  <2>1. CASE x = NullObject
    BY <1>10, <2>1, ReturnsKeeps DEF AppendObject, Errors
  <2>2. CASE x # NullObject
    BY <1>10, <2>2, AppendKeeps DEF AppendObject, Objects
  <2> QED BY <2>1, <2>2
<1>11. ASSUME NEW v \in Vecs, NEW i \in Indices, NEW x \in Objects, SetObject(v, i, x)
       PROVE  VInv'
  <2>1. CASE x = NullObject
    BY <1>11, <2>1, ReturnsKeeps DEF SetObject, Errors
  <2>2. CASE x # NullObject
    BY <1>11, <2>2, SetKeeps DEF SetObject, Objects
  <2> QED BY <2>1, <2>2
<1>12. CASE \E v \in Vecs, i \in Indices, t \in Queries :
               GetValue(v, i, t) \/ GetTyped(v, i, t) \/ GetTypedFails(v, i, t)
  BY <1>12, GetKeeps
<1> QED BY <1>1, <1>2, <1>3, <1>4, <1>5, <1>6, <1>7, <1>8, <1>9, <1>10, <1>11, <1>12
        DEF Call

LEMMA NextKeeps == VInv /\ [Next]_vars => VInv'
<1> SUFFICES ASSUME VInv, [Next]_vars PROVE VInv'
  OBVIOUS
<1>1. CASE Call
  BY <1>1, CallKeeps
<1>2. CASE UNCHANGED vars
  <2>1. vec' = vec /\ mem' = mem /\ RestOK'
    BY <1>2 DEF vars, VInv, RestOK
  <2> QED BY <2>1, HeapKept
<1> QED BY <1>1, <1>2 DEF Next, Crashed

\* The inductive invariant holds for every number of vectors, buffers and
\* values, every initial length and every order of calls and failures.
THEOREM VectorInvariant == Spec => []VInv
BY InitVInv, NextKeeps, PTL DEF Spec

\* Every variable keeps its type, for every instance of the constants.
THEOREM VectorTypes == Spec => []TypeOK
<1>1. VInv => TypeOK
  BY VInvImplies
<1> QED BY <1>1, VectorInvariant, PTL

\* No buffer is leaked, shared or overrun: creation, copy, reallocation that
\* moves or does not, deletion and failure keep buffers and vectors one to one
\* and every pointer within its buffer.
THEOREM VectorBuffers == Spec => []BuffersOwned
<1>1. VInv => BuffersOwned
  BY VInvImplies
<1> QED BY <1>1, VectorInvariant, PTL

\* Every element was written by the program: neither the uninitialized cells
\* of a reallocated buffer nor the zeros of a new one become elements.
THEOREM VectorElements == Spec => []ElementsWritten
<1>1. VInv => ElementsWritten
  BY VInvImplies
<1> QED BY <1>1, VectorInvariant, PTL

-----------------------------------------------------------------------------
(***************************************************************************)
(* EschVector implements AbstractVector: under the mapping of EschVector   *)
(* each call is the abstract call of the same name, or changes nothing the *)
(* abstract program sees.  The invariants above are                        *)
(* what makes the mapping good: an element is never an unwritten cell, and *)
(* a step on one vector is no step on another.                             *)
(***************************************************************************)
\* The sequence in the first cells of content c, for a vector of record r.
SeqOf(r, c) == [k \in 1 .. r.next.off |-> c[k - 1]]

LimitOf(r) == IF r.enlarge THEN -1 ELSE r.slots

\* The variables of AbstractVector.
Seqs   == [v \in Live |-> Contents(v)]
Limits == [v \in Live |-> Limit(v)]

-----------------------------------------------------------------------------
\* The cells before next form a sequence.
LEMMA SeqOfFacts ==
  ASSUME NEW r, NEW c, r.next.off \in Nat,
         \A k \in 0 .. r.next.off - 1 : c[k] \in Values
  PROVE  /\ SeqOf(r, c) \in Seq(Values)
         /\ Len(SeqOf(r, c)) = r.next.off
         /\ \A k \in 1 .. r.next.off : SeqOf(r, c)[k] = c[k - 1]
<1> DEFINE n == r.next.off
<1>1. \A k \in 1 .. n : c[k - 1] \in Values
  OBVIOUS
<1>2. SeqOf(r, c) \in [1 .. n -> Values]
  BY <1>1 DEF SeqOf
<1>3. SeqOf(r, c) \in Seq(Values)
  BY <1>2, SeqDef
<1>4. DOMAIN SeqOf(r, c) = 1 .. n
  BY DEF SeqOf
<1>5. Len(SeqOf(r, c)) = n
  BY <1>3, <1>4, LenProperties
<1> QED BY <1>3, <1>5 DEF SeqOf

LEMMA ContentsFacts ==
  ASSUME VInv, NEW v \in Live
  PROVE  /\ Seqs[v] \in Seq(Values)
         /\ Len(Seqs[v]) = Length(v) /\ Length(v) \in Nat
         /\ \A k \in 1 .. Length(v) : Seqs[v][k] = mem[vec[v].begin][k - 1]
         /\ Seqs[v] = SeqOf(vec[v], mem[vec[v].begin])
         /\ Limits[v] = LimitOf(vec[v])
         /\ v \in Vecs
<1>1. /\ vec[v].next.off \in Nat /\ Fits(vec[v], mem[vec[v].begin]) /\ v \in Vecs
  BY LiveFacts DEF VInv
<1>2. Seqs[v] = SeqOf(vec[v], mem[vec[v].begin]) /\ Limits[v] = LimitOf(vec[v])
  BY DEF Seqs, Limits, Contents, Limit, Length, SeqOf, LimitOf
<1>3. /\ SeqOf(vec[v], mem[vec[v].begin]) \in Seq(Values)
      /\ Len(SeqOf(vec[v], mem[vec[v].begin])) = vec[v].next.off
      /\ \A k \in 1 .. vec[v].next.off :
            SeqOf(vec[v], mem[vec[v].begin])[k] = mem[vec[v].begin][k - 1]
  BY <1>1, SeqOfFacts DEF Fits
<1> QED BY <1>1, <1>2, <1>3 DEF Length

\* A step that changes one vector changes one sequence.
LEMMA ChangedMaps ==
  ASSUME VInv, VInv', NEW v \in Vecs, NEW r, NEW c, Changed(v, r, c)
  PROVE  /\ Seqs' = With(Seqs, v, SeqOf(r, c))
         /\ Limits' = With(Limits, v, LimitOf(r))
         /\ SeqOf(r, c) \in Seq(Values)
         /\ r.next.off \in Nat /\ r.enlarge \in BOOLEAN /\ r.slots \in Nat
<1>1. /\ Live' = Live \cup {v} /\ vec'[v] = r /\ mem'[r.begin] = c
      /\ \A w \in Live \ {v} : vec'[w] = vec[w] /\ mem'[vec[w].begin] = mem[vec[w].begin]
  BY DEF Changed, Live
<1>2. /\ GoodHeap(vec', mem') /\ v \in DOMAIN vec'
  BY <1>1 DEF VInv, Live
<1>3. /\ r \in VectorRecords /\ Fits(r, c)
  BY <1>1, <1>2 DEF GoodHeap
<1>4. r.next.off \in Nat /\ r.enlarge \in BOOLEAN /\ r.slots \in Nat
  BY <1>3 DEF VectorRecords
<1>5. SeqOf(r, c) \in Seq(Values)
  BY <1>3, <1>4, SeqOfFacts DEF Fits
<1>6. Seqs' = [w \in Live' |-> SeqOf(vec'[w], mem'[vec'[w].begin])]
  BY DEF Seqs, Contents, Length, SeqOf
<1>7. Limits' = [w \in Live' |-> LimitOf(vec'[w])]
  BY DEF Limits, Limit, LimitOf
<1>8. \A w \in Live : /\ Seqs[w] = SeqOf(vec[w], mem[vec[w].begin])
                      /\ Limits[w] = LimitOf(vec[w])
  BY ContentsFacts
<1>9. DOMAIN Seqs = Live /\ DOMAIN Limits = Live
  BY DEF Seqs, Limits
<1>10. \A w \in Live' : SeqOf(vec'[w], mem'[vec'[w].begin])
                        = IF w = v THEN SeqOf(r, c) ELSE Seqs[w]
  BY <1>1, <1>8
<1>11. \A w \in Live' : LimitOf(vec'[w]) = IF w = v THEN LimitOf(r) ELSE Limits[w]
  BY <1>1, <1>8
<1>12. Seqs' = With(Seqs, v, SeqOf(r, c))
  BY <1>1, <1>6, <1>9, <1>10 DEF With
<1>13. Limits' = With(Limits, v, LimitOf(r))
  BY <1>1, <1>7, <1>9, <1>11 DEF With
<1> QED BY <1>4, <1>5, <1>12, <1>13

-----------------------------------------------------------------------------
(***************************************************************************)
(* Each call is an abstract call.                                          *)
(***************************************************************************)
\* A call that changes no vector and no cell changes no sequence.
LEMMA HeapMaps ==
  ASSUME vec' = vec, mem' = mem
  PROVE  Seqs' = Seqs /\ Limits' = Limits
BY DEF Seqs, Limits, Contents, Limit, Length, Live

LEMMA ReturnsMaps ==
  ASSUME NEW status, Returns(status)
  PROVE  Abstract!Returns(status)
<1>1. Seqs' = Seqs /\ Limits' = Limits
  BY HeapMaps DEF Returns
<1> QED BY <1>1 DEF Returns, Abstract!Returns, Seqs, Limits

LEMMA FaultMaps ==
  ASSUME NEW what, Fault(what)
  PROVE  UNCHANGED Abstract!vars
<1>1. Seqs' = Seqs /\ Limits' = Limits
  BY HeapMaps DEF Fault
<1> QED BY <1>1 DEF Fault, Abstract!vars, Seqs, Limits

LEMMA NewMaps ==
  ASSUME VInv, NEW v \in Vecs, NEW len \in Lengths, NEW enl \in BOOLEAN,
         New(v, len, enl)
  PROVE  Abstract!New(v, len)
<1>1. PICK r, c : /\ VInv' /\ Changed(v, r, c)
                  /\ r.next.off = 0 /\ r.enlarge = enl
                  /\ r.slots \in Nat /\ r.slots >= len
  BY NewKeeps
<1>2. /\ Seqs' = With(Seqs, v, SeqOf(r, c))
      /\ Limits' = With(Limits, v, LimitOf(r))
      /\ SeqOf(r, c) \in Seq(Values)
  BY <1>1, ChangedMaps
<1>3. SeqOf(r, c) = <<>>
  <2>1. Len(SeqOf(r, c)) = 0
    BY <1>1, SeqOfFacts
  <2> QED BY <1>2, <2>1, EmptySeq
<1>4. Limits'[v] = LimitOf(r) /\ (LimitOf(r) = -1 \/ (LimitOf(r) \in Nat /\ LimitOf(r) >= len))
  <2>1. Limits'[v] = LimitOf(r)
    BY <1>2 DEF With
  <2>2. LimitOf(r) = -1 \/ LimitOf(r) = r.slots
    BY DEF LimitOf
  <2>3. r.slots \in Nat /\ r.slots >= len
    BY <1>1
  <2> QED BY <2>1, <2>2, <2>3
<1>5. v \notin Live /\ ret' = "OK" /\ UNCHANGED <<iter, kept>>
  BY DEF New
<1>6. /\ Seqs' = Abstract!With(Seqs, v, <<>>)
      /\ Limits' = Abstract!With(Limits, v, Limits'[v])
  BY <1>2, <1>3, <1>4 DEF With, Abstract!With
<1> QED BY <1>4, <1>5, <1>6 DEF Abstract!New, Abstract!Live, Seqs, Limits

LEMMA CopyMaps ==
  ASSUME VInv, NEW v \in Vecs, NEW w \in Vecs, Copy(v, w)
  PROVE  Abstract!Copy(v, w)
<1>0. VInv'
  BY CopyKeeps
<1>1. PICK r, c : /\ Changed(w, r, c)
                  /\ r.next.off = vec[v].next.off
                  /\ r.enlarge = FALSE
                  /\ r.slots \in Nat /\ r.slots >= vec[v].slots
                  /\ \A k \in 0 .. vec[v].next.off - 1 : c[k] = mem[vec[v].begin][k]
  BY CopyKeeps, Zenon
<1>2. v \in Live /\ w \notin Live /\ ret' = "OK" /\ UNCHANGED <<iter, kept>>
  BY DEF Copy
<1>3. /\ Seqs' = With(Seqs, w, SeqOf(r, c))
      /\ Limits' = With(Limits, w, LimitOf(r))
  BY <1>0, <1>1, ChangedMaps
<1>4. /\ vec[v].next.off \in Nat /\ vec[v].next.off <= vec[v].slots /\ vec[v].slots \in Nat
      /\ Seqs[v] = SeqOf(vec[v], mem[vec[v].begin])
      /\ Len(Seqs[v]) = vec[v].next.off
  BY <1>2, LiveFacts, ContentsFacts DEF VInv, Length
<1>5. SeqOf(r, c) = Seqs[v]
  BY <1>1, <1>4 DEF SeqOf
<1>6. Limits'[w] = LimitOf(r) /\ LimitOf(r) \in Nat /\ LimitOf(r) >= Len(Seqs[v])
  <2>1. Limits'[w] = LimitOf(r)
    BY <1>3 DEF With
  <2> QED BY <1>1, <1>4, <2>1 DEF LimitOf
<1>7. /\ Seqs' = Abstract!With(Seqs, w, Seqs[v])
      /\ Limits' = Abstract!With(Limits, w, Limits'[w])
  BY <1>3, <1>5, <1>6 DEF With, Abstract!With
<1> QED BY <1>2, <1>6, <1>7 DEF Abstract!Copy, Abstract!Live, Seqs, Limits

LEMMA DeleteMaps ==
  ASSUME VInv, NEW v \in Vecs, Delete(v)
  PROVE  Abstract!Delete(v)
<1>1. v \in Live /\ vec' = Without(vec, v) /\ mem' = Without(mem, vec[v].begin)
  BY DEF Delete
<1>2. /\ Live' = Live \ {v}
      /\ \A w \in Live \ {v} : /\ vec'[w] = vec[w]
                               /\ mem'[vec[w].begin] = mem[vec[w].begin]
  <2>1. \A w \in Live \ {v} : vec[w].begin \in DOMAIN mem \ {vec[v].begin}
    BY <1>1, LiveFacts DEF VInv
  <2> QED BY <1>1, <2>1 DEF Without, Live
<1>3. \A w \in Live \ {v} : Contents(w)' = Contents(w) /\ Limit(w)' = Limit(w)
  BY <1>2 DEF Contents, Limit, Length
<1>4. Seqs' = Abstract!Without(Seqs, v) /\ Limits' = Abstract!Without(Limits, v)
  BY <1>2, <1>3 DEF Seqs, Limits, Abstract!Without
<1> QED BY <1>1, <1>4 DEF Delete, Abstract!Delete, Abstract!Live, Seqs, Limits

LEMMA AppendedMaps ==
  ASSUME VInv, VInv', NEW v \in Live, NEW x \in Values, Appended(v, x),
         vec[v].enlarge \/ vec[v].next.off < vec[v].slots,
         ret' = "OK", UNCHANGED <<iter, kept>>
  PROVE  Abstract!Append1(v, x)
<1>1. PICK r, c : /\ Changed(v, r, c)
                  /\ r.next.off = vec[v].next.off + 1
                  /\ r.enlarge = vec[v].enlarge
                  /\ r.enlarge \/ r.slots = vec[v].slots
                  /\ c[vec[v].next.off] = x
                  /\ \A k \in 0 .. vec[v].next.off - 1 : c[k] = mem[vec[v].begin][k]
  BY Zenon DEF Appended
<1> DEFINE n == vec[v].next.off
           s == Seqs[v]
<1>2. /\ v \in Vecs /\ n \in Nat /\ s \in Seq(Values) /\ Len(s) = n
      /\ \A k \in 1 .. n : s[k] = mem[vec[v].begin][k - 1]
      /\ Limits[v] = LimitOf(vec[v])
  BY ContentsFacts DEF Length
<1>3. /\ Seqs' = With(Seqs, v, SeqOf(r, c))
      /\ Limits' = With(Limits, v, LimitOf(r))
      /\ SeqOf(r, c) \in Seq(Values)
  BY <1>1, <1>2, ChangedMaps
<1>4. SeqOf(r, c) = Append(s, x)
  <2>1. DOMAIN SeqOf(r, c) = 1 .. n + 1
    BY <1>1 DEF SeqOf
  <2>2. Len(SeqOf(r, c)) = n + 1
    BY <1>2, <1>3, <2>1, LenProperties
  <2>3. /\ Append(s, x) \in Seq(Values) /\ Len(Append(s, x)) = n + 1
        /\ \A k \in 1 .. n : Append(s, x)[k] = s[k]
        /\ Append(s, x)[n + 1] = x
    BY <1>2, AppendProperties
  <2>4. \A k \in 1 .. n + 1 : SeqOf(r, c)[k] = c[k - 1]
    BY <1>1 DEF SeqOf
  <2>5. \A k \in 1 .. n + 1 : SeqOf(r, c)[k] = Append(s, x)[k]
    <3> HIDE DEF s
    <3>1. ASSUME NEW k \in 1 .. n PROVE SeqOf(r, c)[k] = Append(s, x)[k]
      <4>1. k - 1 \in 0 .. n - 1 /\ k \in 1 .. n + 1
        BY <1>2
      <4>2. c[k - 1] = mem[vec[v].begin][k - 1]
        BY <1>1, <4>1
      <4> QED BY <1>2, <2>3, <2>4, <4>1, <4>2
    <3>2. SeqOf(r, c)[n + 1] = Append(s, x)[n + 1]
      <4>1. n + 1 \in 1 .. n + 1 /\ (n + 1) - 1 = n
        BY <1>2
      <4>2. SeqOf(r, c)[n + 1] = c[n]
        BY <2>4, <4>1
      <4> QED BY <1>1, <2>3, <4>2
    <3>3. \A k \in 1 .. n + 1 : k \in 1 .. n \/ k = n + 1
      BY <1>2
    <3> QED BY <3>1, <3>2, <3>3
  <2> HIDE DEF s, n
  <2> QED BY <1>3, <2>2, <2>3, <2>5, SeqEqual
<1>5. LimitOf(r) = Limits[v]
  BY <1>1, <1>2 DEF LimitOf
<1>6. Seqs' = [Seqs EXCEPT ![v] = Append(@, x)]
  BY <1>3, <1>4 DEF With, Seqs
<1>7. Limits' = Limits
  BY <1>3, <1>5 DEF With, Limits
<1>8. Limits[v] = -1 \/ Len(Seqs[v]) < Limits[v]
  BY <1>2 DEF LimitOf
<1> QED BY <1>6, <1>7, <1>8 DEF Abstract!Append1, Abstract!Live, Seqs, Limits

\* What an append may do, in the words of the abstract module.
AppendMapped(v, x) ==
  \/ Abstract!Append1(v, x) \/ Abstract!AppendFull(v)
  \/ Abstract!NoMemory \/ Abstract!Refused(v) \/ UNCHANGED Abstract!vars

LEMMA StoreOrFault ==
  ASSUME NEW v, NEW r, NEW m, NEW x, StoreAtNext(v, r, m, x)
  PROVE  \/ ValueCheck(x) = OK /\ ret' = "OK" /\ UNCHANGED <<iter, kept>>
         \/ UNCHANGED Abstract!vars
<1>1. CASE ValueCheck(x) = OK
  BY <1>1 DEF StoreAtNext
<1>2. CASE ValueCheck(x) # OK
  BY <1>2, FaultMaps DEF StoreAtNext
<1> QED BY <1>1, <1>2

LEMMA AppendMaps ==
  ASSUME VInv, NEW v \in Vecs, NEW x \in Values, AppendValue(v, x)
  PROVE  /\ AppendMapped(v, x)
         /\ Abstract!Append1(v, x) => x.type \notin {"UNKNOWN", "END"}
<1>0. v \in Live
  BY DEF AppendValue
<1>1. CASE x.type \in {"UNKNOWN", "END"}
  <2>1. Returns("INVALID_PARAMETER")
    BY <1>1 DEF AppendValue
  <2>2. Abstract!Refused(v)
    BY <1>0, <2>1, ReturnsMaps DEF Abstract!Refused, Abstract!Live
  <2>3. ret' # "OK"
    BY <2>1 DEF Returns
  <2> QED BY <2>2, <2>3 DEF AppendMapped, Abstract!Append1
<1>2. CASE x.type \notin {"UNKNOWN", "END"}
  <2>1. CASE AppendInPlace(v, x)
    <3>1. \/ ValueCheck(x) = OK /\ ret' = "OK" /\ UNCHANGED <<iter, kept>>
          \/ UNCHANGED Abstract!vars
      BY <2>1, StoreOrFault DEF AppendInPlace
    <3>2. /\ VInv' /\ vec[v].next.off < vec[v].slots
          /\ ValueCheck(x) = OK => Appended(v, x)
      BY <1>0, <2>1, AppendInPlaceKeeps
    <3>3. Abstract!Append1(v, x) \/ UNCHANGED Abstract!vars
      BY <1>0, <3>1, <3>2, AppendedMaps
    <3> QED BY <1>2, <3>3 DEF AppendMapped
  <2>2. CASE AppendEnlarged(v, x)
    <3>1. \/ ValueCheck(x) = OK /\ ret' = "OK" /\ UNCHANGED <<iter, kept>>
          \/ UNCHANGED Abstract!vars
      BY <2>2, StoreOrFault DEF AppendEnlarged
    <3>2. /\ VInv' /\ vec[v].enlarge
          /\ ValueCheck(x) = OK => Appended(v, x)
      BY <1>0, <2>2, AppendEnlargedKeeps DEF AppendEnlarged
    <3>3. Abstract!Append1(v, x) \/ UNCHANGED Abstract!vars
      BY <1>0, <3>1, <3>2, AppendedMaps
    <3> QED BY <1>2, <3>3 DEF AppendMapped
  <2>3. CASE AppendNoMemory(v)
    BY <1>2, <2>3, ReturnsMaps DEF AppendNoMemory, AppendMapped, Abstract!NoMemory
  <2>4. CASE AppendFull(v)
    <3>1. Abstract!Returns("CONTAINER_FULL") /\ Full(v) /\ ~vec[v].enlarge
      BY <2>4, ReturnsMaps DEF AppendFull
    <3>2. /\ vec[v].next.off = vec[v].slots /\ vec[v].slots \in Nat
          /\ Len(Seqs[v]) = vec[v].next.off /\ Limits[v] = LimitOf(vec[v])
      BY <1>0, <3>1, LiveFacts, ContentsFacts DEF VInv, Length, Full, Pointer
    <3>3. Limits[v] # -1 /\ Len(Seqs[v]) = Limits[v]
      BY <3>1, <3>2 DEF LimitOf
    <3>4. Abstract!AppendFull(v)
      BY <1>0, <3>1, <3>3 DEF Abstract!AppendFull, Abstract!Live, Seqs, Limits
    <3> QED BY <1>2, <3>4 DEF AppendMapped
  <2> QED BY <1>2, <2>1, <2>2, <2>3, <2>4 DEF AppendValue
<1> QED BY <1>1, <1>2

\* The code and the abstract module mean the same element by an index.
LEMMA IndexMaps ==
  ASSUME VInv, NEW v \in Live, NEW i \in Indices
  PROVE  /\ InBounds(v, i) <=> Abstract!InBounds(i, Len(Seqs[v]))
         /\ InBounds(v, i) =>
               /\ Abstract!Position(i, Len(Seqs[v])) = RealIndex(v, i) + 1
               /\ RealIndex(v, i) \in 0 .. Length(v) - 1
               /\ Seqs[v][Abstract!Position(i, Len(Seqs[v]))] = Cell(v, i)
               /\ Cell(v, i) \in Values
<1>1. i \in Int /\ GoodHeap(vec, mem)
  BY ValueAssumption DEF VInv
<1>2. /\ Len(Seqs[v]) = Length(v) /\ Length(v) \in Nat
      /\ \A k \in 1 .. Length(v) : Seqs[v][k] = mem[vec[v].begin][k - 1]
  BY ContentsFacts
<1>3. InBounds(v, i) <=> Abstract!InBounds(i, Length(v))
  BY <1>1, <1>2 DEF InBounds, RealIndex, Abstract!InBounds, Abstract!Position
<1>4. ASSUME InBounds(v, i)
      PROVE  /\ Abstract!Position(i, Length(v)) = RealIndex(v, i) + 1
             /\ RealIndex(v, i) \in 0 .. Length(v) - 1
             /\ Cell(v, i) \in Values
  <2>1. RealIndex(v, i) \in 0 .. Length(v) - 1 /\ Cell(v, i) \in Values
    BY <1>1, <1>4, IndexFacts
  <2>2. Abstract!Position(i, Length(v)) = RealIndex(v, i) + 1
    BY <1>1, <1>2, <1>4 DEF InBounds, RealIndex, Abstract!Position
  <2> QED BY <2>1, <2>2
<1>5. ASSUME InBounds(v, i)
      PROVE  Seqs[v][RealIndex(v, i) + 1] = Cell(v, i)
  <2> DEFINE j == RealIndex(v, i)
  <2>1. j \in 0 .. Length(v) - 1
    BY <1>4, <1>5
  <2> HIDE DEF j
  <2>2. Seqs[v][j + 1] = mem[vec[v].begin][j]
    BY <1>2, <2>1
  <2> QED BY <2>2 DEF Cell, j
<1> QED BY <1>2, <1>3, <1>4, <1>5

\* What a call that names an element may do, in the words of the abstract module.
AccessMapped(v, i) ==
  \/ Abstract!Refused(v) \/ Abstract!OutOfBound(v, i)

LEMMA RefusedMaps ==
  ASSUME NEW v \in Live, Returns("INVALID_PARAMETER")
  PROVE  Abstract!Refused(v)
BY ReturnsMaps DEF Abstract!Refused, Abstract!Live

LEMMA OutOfBoundMaps ==
  ASSUME VInv, NEW v \in Live, NEW i \in Indices, ~InBounds(v, i),
         Returns("OUT_OF_BOUND")
  PROVE  Abstract!OutOfBound(v, i)
<1>1. ~Abstract!InBounds(i, Len(Seqs[v]))
  BY IndexMaps
<1> QED BY <1>1, ReturnsMaps DEF Abstract!OutOfBound, Abstract!Live, Seqs

LEMMA SetMaps ==
  ASSUME VInv, NEW v \in Vecs, NEW i \in Indices, NEW x \in Values, SetValue(v, i, x)
  PROVE  \/ AccessMapped(v, i)
         \/ Abstract!Set(v, i, x) /\ x.type \notin {"UNKNOWN", "END"}
<1>0. v \in Live
  BY DEF SetValue
<1>1. CASE Returns("INVALID_PARAMETER")
  BY <1>0, <1>1, RefusedMaps DEF AccessMapped
<1>2. CASE ~InBounds(v, i) /\ Returns("OUT_OF_BOUND")
  BY <1>0, <1>2, OutOfBoundMaps DEF AccessMapped
<1>3. CASE /\ InBounds(v, i) /\ x.type \notin {"UNKNOWN", "END"}
           /\ mem' = [mem EXCEPT ![vec[v].begin][RealIndex(v, i)] = x]
           /\ ret' = "OK" /\ UNCHANGED <<vec, iter, out, kept, fault>>
  <2> DEFINE j == RealIndex(v, i)
             d == vec[v].begin
             p == Abstract!Position(i, Len(Seqs[v]))
  <2>1. /\ p = j + 1 /\ j \in 0 .. Length(v) - 1 /\ Length(v) \in Nat
        /\ Len(Seqs[v]) = Length(v)
        /\ Abstract!InBounds(i, Len(Seqs[v]))
    BY <1>0, <1>3, IndexMaps, ContentsFacts
  <2>2. /\ d \in DOMAIN mem /\ DOMAIN mem[d] = 0 .. vec[v].slots
        /\ vec[v].slots \in Nat /\ Length(v) <= vec[v].slots
        /\ \A w \in Live \ {v} : vec[w].begin # d
    BY <1>0, LiveFacts DEF VInv, Fits, Length
  <2> HIDE DEF j, p
  <2>3. mem' = [mem EXCEPT ![d][j] = x]
    BY <1>3 DEF j
  <2>4. /\ mem'[d] = [mem[d] EXCEPT ![j] = x]
        /\ \A w \in Live \ {v} : mem'[vec[w].begin] = mem[vec[w].begin]
    <3>1. \A w \in Live : vec[w].begin \in DOMAIN mem
      BY LiveFacts DEF VInv
    <3> QED BY <2>2, <2>3, <3>1
  <2>5. \A k \in 0 .. Length(v) - 1 : mem'[d][k] = IF k = j THEN x ELSE mem[d][k]
    BY <2>1, <2>2, <2>4
  <2>6. /\ Live' = Live /\ Limits' = Limits
        /\ \A w \in Live : Length(w)' = Length(w) /\ vec'[w] = vec[w]
    BY <1>3 DEF Live, Limits, Limit, Length
  <2>7. \A w \in Live \ {v} : Contents(w)' = Contents(w)
    BY <2>4, <2>6 DEF Contents
  <2>8. Contents(v)' = [Contents(v) EXCEPT ![p] = x]
    <3>1. Contents(v)' = [k \in 1 .. Length(v) |-> mem'[d][k - 1]]
      BY <1>0, <2>6 DEF Contents
    <3>2. Contents(v) = [k \in 1 .. Length(v) |-> mem[d][k - 1]]
      BY DEF Contents
    <3>3. \A k \in 1 .. Length(v) : mem'[d][k - 1] = IF k = p THEN x ELSE mem[d][k - 1]
      BY <2>1, <2>5
    <3>4. [Contents(v) EXCEPT ![p] = x]
          = [k \in 1 .. Length(v) |-> IF k = p THEN x ELSE mem[d][k - 1]]
      BY <3>2
    <3>5. Contents(v)' = [k \in 1 .. Length(v) |-> IF k = p THEN x ELSE mem[d][k - 1]]
      BY <3>1, <3>3
    <3> QED BY <3>4, <3>5
  <2>9. Seqs' = [Seqs EXCEPT ![v][p] = x]
    BY <1>0, <2>6, <2>7, <2>8 DEF Seqs
  <2>10. Abstract!Set(v, i, x)
    BY <1>0, <1>3, <2>1, <2>6, <2>9 DEF Abstract!Set, Abstract!Live, Seqs, Limits, p
  <2> QED BY <1>3, <2>10
<1> QED BY <1>1, <1>2, <1>3 DEF SetValue, TypeCheck

LEMMA GetMaps ==
  ASSUME VInv, NEW v \in Vecs, NEW i \in Indices, NEW t \in Queries, GetValue(v, i, t)
  PROVE  AccessMapped(v, i) \/ Abstract!Get(v, i, t) \/ Abstract!BadType(v, i, t)
<1>0. v \in Live
  BY DEF GetValue
<1>1. CASE Returns("INVALID_PARAMETER")
  BY <1>0, <1>1, RefusedMaps DEF AccessMapped
<1>2. CASE ~InBounds(v, i) /\ Returns("OUT_OF_BOUND")
  BY <1>0, <1>2, OutOfBoundMaps DEF AccessMapped
<1>3. CASE /\ InBounds(v, i) /\ t # "UNKNOWN"
           /\ TypeCheck(t, Cell(v, i).type) # 0 /\ Returns("BAD_VALUE_TYPE")
  <2>1. Cell(v, i).type # t
    BY <1>3 DEF TypeCheck
  <2>2. Abstract!BadType(v, i, t)
    BY <1>0, <1>3, <2>1, IndexMaps, ReturnsMaps DEF Abstract!BadType, Abstract!Live, Seqs
  <2> QED BY <2>2
<1>4. CASE /\ InBounds(v, i) /\ TypeCheck(t, Cell(v, i).type) = 0
           /\ Yields(Cell(v, i))
  <2>1. t = "END" \/ Cell(v, i).type = t
    BY <1>4 DEF TypeCheck
  <2>2. Seqs' = Seqs /\ Limits' = Limits
    BY <1>4, HeapMaps DEF Yields
  <2>3. Abstract!Get(v, i, t)
    BY <1>0, <1>4, <2>1, <2>2, IndexMaps
       DEF Yields, Abstract!Get, Abstract!Live, Seqs, Limits
  <2> QED BY <2>3
<1> QED BY <1>1, <1>2, <1>3, <1>4 DEF GetValue

LEMMA TypedMaps ==
  ASSUME VInv, NEW v \in Vecs, NEW i \in Indices, NEW t \in Queries, GetTyped(v, i, t)
  PROVE  Abstract!Get(v, i, t)
<1>1. /\ v \in Live /\ InBounds(v, i)
      /\ Cell(v, i).type = t /\ Yields(Cell(v, i))
  BY DEF GetTyped, OneTypes, TypeCheck
<1>2. Seqs' = Seqs /\ Limits' = Limits
  BY <1>1, HeapMaps DEF Yields
<1> QED BY <1>1, <1>2, IndexMaps
        DEF Yields, Abstract!Get, Abstract!Live, Seqs, Limits

\* A getter of one type that fails is an error to the sequences too, and
\* leaves kept alone, which is what out is mapped to.
LEMMA TypedFailsMaps ==
  ASSUME VInv, NEW v \in Vecs, NEW i \in Indices, NEW t \in Queries,
         GetTypedFails(v, i, t)
  PROVE  Abstract!OutOfBound(v, i) \/ Abstract!BadType(v, i, t)
<1>0. v \in Live /\ t \in OneTypes
  BY DEF GetTypedFails
<1>1. Seqs' = Seqs /\ Limits' = Limits /\ UNCHANGED <<iter, kept>>
  BY HeapMaps DEF GetTypedFails
<1>2. CASE InBounds(v, i)
  <2>1. Cell(v, i).type # t /\ ret' = "BAD_VALUE_TYPE"
    BY <1>0, <1>2 DEF GetTypedFails, OneTypes, TypeCheck
  <2>2. /\ Abstract!InBounds(i, Len(Seqs[v]))
        /\ Seqs[v][Abstract!Position(i, Len(Seqs[v]))].type # t
    BY <1>0, <1>2, <2>1, IndexMaps
  <2> QED BY <1>0, <1>1, <2>1, <2>2
          DEF Abstract!BadType, Abstract!Returns, Abstract!Live, Seqs, Limits
<1>3. CASE ~InBounds(v, i)
  <2>1. ~Abstract!InBounds(i, Len(Seqs[v])) /\ ret' = "OUT_OF_BOUND"
    BY <1>0, <1>3, IndexMaps DEF GetTypedFails
  <2> QED BY <1>0, <1>1, <2>1
          DEF Abstract!OutOfBound, Abstract!Returns, Abstract!Live, Seqs, Limits
<1> QED BY <1>2, <1>3

LEMMA IterMaps ==
  ASSUME VInv
  PROVE  /\ IterValue => Abstract!IterValue
         /\ IterNext => Abstract!IterNext
         /\ \A v \in Vecs : GetIterator(v) => Abstract!Iterate(v)
<1>1. ASSUME IterValue PROVE Abstract!IterValue
  <2>1. Seqs' = Seqs /\ Limits' = Limits /\ UNCHANGED iter /\ ret' = "OK"
    BY <1>1, HeapMaps DEF IterValue, Yields
  <2>2. iter.container \in Live /\ iter.pos \in Nat
    BY <1>1 DEF IterValue, VInv, RestOK
  <2>3. /\ Len(Seqs[iter.container]) = Length(iter.container)
        /\ Length(iter.container) \in Nat
        /\ \A k \in 1 .. Length(iter.container) :
              Seqs[iter.container][k] = mem[vec[iter.container].begin][k - 1]
    BY <2>2, ContentsFacts
  <2>4. kept' = IF iter.pos < Len(Seqs[iter.container])
               THEN Seqs[iter.container][iter.pos + 1] ELSE EndValue
    <3>1. kept' = IF iter.pos >= Length(iter.container) THEN EndValue
                  ELSE mem[vec[iter.container].begin][iter.pos]
      BY <1>1 DEF IterValue, Yields
    <3> QED BY <2>2, <2>3, <3>1
  <2> QED BY <2>1, <2>2, <2>4 DEF Abstract!IterValue, Abstract!Live, Seqs, Limits
<1>2. ASSUME IterNext PROVE Abstract!IterNext
  <2>1. Seqs' = Seqs /\ Limits' = Limits
    BY <1>2, HeapMaps DEF IterNext
  <2> QED BY <1>2, <2>1 DEF IterNext, Abstract!IterNext, Abstract!Live, Seqs, Limits
<1>3. ASSUME NEW v \in Vecs, GetIterator(v) PROVE Abstract!Iterate(v)
  <2>1. Seqs' = Seqs /\ Limits' = Limits
    BY <1>3, HeapMaps DEF GetIterator
  <2> QED BY <1>3, <2>1 DEF GetIterator, Abstract!Iterate, Abstract!Live, Seqs, Limits
<1> QED BY <1>1, <1>2, <1>3

-----------------------------------------------------------------------------
LEMMA InitMaps == Init => Abstract!Init
<1> SUFFICES ASSUME Init PROVE Abstract!Init
  OBVIOUS
<1>1. Live = {}
  BY DEF Init, Live
<1>2. Seqs = [v \in {} |-> <<>>] /\ Limits = [v \in {} |-> 0]
  BY <1>1 DEF Seqs, Limits
<1> QED BY <1>2 DEF Init, Abstract!Init, Seqs, Limits

\* What an append and a set do are calls of the abstract program.
LEMMA AppendIsNext ==
  ASSUME VInv, NEW v \in Vecs, NEW x \in Values, AppendValue(v, x)
  PROVE  Abstract!Next \/ UNCHANGED Abstract!vars
BY AppendMaps DEF AppendMapped, Abstract!Next

LEMMA SetIsNext ==
  ASSUME VInv, NEW v \in Vecs, NEW i \in Indices, NEW x \in Values, SetValue(v, i, x)
  PROVE  Abstract!Next
BY SetMaps DEF AccessMapped, Abstract!Next

LEMMA RefusedIsNext ==
  ASSUME NEW v \in Vecs, v \in Live, Returns("INVALID_PARAMETER")
  PROVE  Abstract!Next
BY RefusedMaps DEF Abstract!Next

LEMMA CallMaps == VInv /\ Call => Abstract!Next \/ UNCHANGED Abstract!vars
<1> SUFFICES ASSUME VInv, Call PROVE Abstract!Next \/ UNCHANGED Abstract!vars
  OBVIOUS
<1>1. CASE NewFails
  BY <1>1, ReturnsMaps DEF NewFails, Abstract!NoMemory, Abstract!Next
<1>2. CASE IterValue \/ IterNext \/ \E v \in Vecs : GetIterator(v)
  BY <1>2, IterMaps DEF Abstract!Next
<1>3. CASE \E v \in Vecs, len \in Lengths, enl \in BOOLEAN : New(v, len, enl)
  BY <1>3, NewMaps DEF Abstract!Next
<1>4. CASE \E v, w \in Vecs : Copy(v, w)
  BY <1>4, CopyMaps DEF Abstract!Next
<1>5. CASE \E v \in Vecs : Delete(v)
  BY <1>5, DeleteMaps DEF Abstract!Next
<1>6. CASE \E v \in Vecs : CopyFails(v)
  BY <1>6, ReturnsMaps DEF CopyFails, Abstract!NoMemory, Abstract!Next
<1>7. CASE \E v \in Vecs : CopyWithoutConfig(v)
  BY <1>7, FaultMaps DEF CopyWithoutConfig
<1>8. CASE \E v \in Vecs, x \in Values : AppendValue(v, x)
  BY <1>8, AppendIsNext
<1>9. CASE \E v \in Vecs, i \in Indices, x \in Values : SetValue(v, i, x)
  BY <1>9, SetIsNext
<1>10. ASSUME NEW v \in Vecs, NEW x \in Objects, AppendObject(v, x)
       PROVE  Abstract!Next \/ UNCHANGED Abstract!vars
  <2>1. CASE x = NullObject
    BY <1>10, <2>1, RefusedIsNext DEF AppendObject
  <2>2. CASE x # NullObject
    BY <1>10, <2>2, AppendIsNext DEF AppendObject, Objects
  <2> QED BY <2>1, <2>2
<1>11. ASSUME NEW v \in Vecs, NEW i \in Indices, NEW x \in Objects, SetObject(v, i, x)
       PROVE  Abstract!Next
  <2>1. CASE x = NullObject
    BY <1>11, <2>1, RefusedIsNext DEF SetObject
  <2>2. CASE x # NullObject
    BY <1>11, <2>2, SetIsNext DEF SetObject, Objects
  <2> QED BY <2>1, <2>2
<1>12. ASSUME NEW v \in Vecs, NEW i \in Indices, NEW t \in Queries, GetValue(v, i, t)
       PROVE  Abstract!Next
  BY <1>12, GetMaps DEF AccessMapped, Abstract!Next
<1>13. ASSUME NEW v \in Vecs, NEW i \in Indices, NEW t \in Queries, GetTyped(v, i, t)
       PROVE  Abstract!Next
  BY <1>13, TypedMaps DEF Abstract!Next
<1>14. ASSUME NEW v \in Vecs, NEW i \in Indices, NEW t \in Queries, GetTypedFails(v, i, t)
       PROVE  Abstract!Next
  BY <1>14, TypedFailsMaps DEF Abstract!Next
<1> QED BY <1>1, <1>2, <1>3, <1>4, <1>5, <1>6, <1>7, <1>8, <1>9, <1>10, <1>11,
           <1>12, <1>13, <1>14 DEF Call

\* The buffers implement the sequences: for every number of vectors, values and
\* lengths, and wherever memory runs out, each step of the code is a call of
\* AbstractVector or changes nothing in it.
THEOREM VectorsAreSequences == Spec => ImplementsSequences
<1>1. VInv /\ [Next]_vars => [Abstract!Next]_(Abstract!vars)
  <2> SUFFICES ASSUME VInv, [Next]_vars
               PROVE  Abstract!Next \/ UNCHANGED Abstract!vars
    OBVIOUS
  <2>1. CASE Call
    BY <2>1, CallMaps
  <2>2. CASE UNCHANGED vars
    <3>1. Seqs' = Seqs /\ Limits' = Limits
      BY <2>2, HeapMaps DEF vars
    <3> QED BY <2>2, <3>1 DEF vars, Abstract!vars, Seqs, Limits
  <2> QED BY <2>1, <2>2 DEF Next, Crashed
<1>2. Spec => Abstract!Init /\ [][Abstract!Next]_(Abstract!vars)
  BY <1>1, InitMaps, VectorInvariant, PTL DEF Spec
<1> QED BY <1>2 DEF ImplementsSequences, Abstract!Spec
=============================================================================
