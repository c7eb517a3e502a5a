-------------------------- MODULE BitmapIndex_proof -------------------------
(***************************************************************************)
(* Proofs about BitmapIndex for every word size, dimension, chunk size and *)
(* list of vectors: the buffer keeps the length its count says, every row  *)
(* keeps its weight, the passes of the batched kernel fill exactly the     *)
(* cells they should, and every call answers as the abstract store of      *)
(* DocStore does.                                                          *)
(***************************************************************************)
EXTENDS BitmapIndex, FiniteSetTheorems, SequenceTheorems, TLAPS

\* A function on 1 .. k is a sequence of k elements.
LEMMA LenOfFunction ==
  ASSUME NEW k \in Nat, NEW f, f = [x \in 1 .. k |-> f[x]]
  PROVE  Len(f) = k
<1> DEFINE S == {f[x] : x \in 1 .. k}
<1>1. f \in [1 .. k -> S]
  OBVIOUS
<1>2. f \in Seq(S)
  BY <1>1
<1>3. DOMAIN f = 1 .. k /\ DOMAIN f = 1 .. Len(f) /\ Len(f) \in Nat
  BY <1>1, <1>2, LenProperties
<1> QED BY <1>3

-----------------------------------------------------------------------------
(* Ranks in finite ordered sets. *)

\* R, a set of pairs, orders S totally and strictly.
IsStrictOrder(R, S) ==
  /\ \A x \in S : <<x, x>> \notin R
  /\ \A x, y \in S : x = y \/ <<x, y>> \in R \/ <<y, x>> \in R
  /\ \A x, y, z \in S : <<x, y>> \in R /\ <<y, z>> \in R => <<x, z>> \in R

Below(x, R, S) == {y \in S : <<y, x>> \in R}

\* The elements of a finite set have the ranks 0 to its size less one, each of
\* them once: a sort is described by the places of the sorted, and the first of
\* them is the least.
LEMMA Ranked ==
  ASSUME NEW S, IsFiniteSet(S), NEW R, IsStrictOrder(R, S),
         NEW r \in 0 .. Cardinality(S) - 1
  PROVE  /\ \E x \in S : Cardinality(Below(x, R, S)) = r
         /\ \A x, y \in S : Cardinality(Below(x, R, S)) = Cardinality(Below(y, R, S)) => x = y
<1> DEFINE places == 0 .. Cardinality(S) - 1
           f == [x \in S |-> Cardinality(Below(x, R, S))]
<1>1. Cardinality(S) \in Nat
  BY FS_CardinalityType
<1>2. IsFiniteSet(places) /\ Cardinality(places) = Cardinality(S)
  BY <1>1, FS_Interval
<1>3. ASSUME NEW x \in S
      PROVE  /\ IsFiniteSet(Below(x, R, S)) /\ Cardinality(Below(x, R, S)) \in Nat
             /\ x \notin Below(x, R, S)
             /\ IsFiniteSet(Below(x, R, S) \cup {x})
             /\ Cardinality(Below(x, R, S) \cup {x}) = Cardinality(Below(x, R, S)) + 1
             /\ Below(x, R, S) \cup {x} \subseteq S
  <2>1. Below(x, R, S) \cup {x} \subseteq S /\ x \notin Below(x, R, S)
    BY DEF Below, IsStrictOrder
  <2>2. IsFiniteSet(Below(x, R, S))
    BY <2>1, FS_Subset
  <2> QED BY <2>1, <2>2, FS_CardinalityType, FS_AddElement
<1>4. f \in [S -> places]
  <2>1. ASSUME NEW x \in S PROVE Cardinality(Below(x, R, S)) \in places
    <3>1. Cardinality(Below(x, R, S) \cup {x}) <= Cardinality(S)
      BY <1>3, FS_Subset
    <3>2. /\ Cardinality(Below(x, R, S)) \in Nat
          /\ Cardinality(Below(x, R, S) \cup {x}) = Cardinality(Below(x, R, S)) + 1
      BY <1>3
    <3> QED BY <1>1, <3>1, <3>2
  <2> QED BY <2>1
<1>5. ASSUME NEW x \in S, NEW y \in S, <<x, y>> \in R
      PROVE  Cardinality(Below(x, R, S)) < Cardinality(Below(y, R, S))
  <2>1. Below(x, R, S) \cup {x} \subseteq Below(y, R, S)
    BY <1>5 DEF Below, IsStrictOrder
  <2>2. IsFiniteSet(Below(y, R, S)) /\ Cardinality(Below(y, R, S)) \in Nat
    BY <1>3
  <2>3. Cardinality(Below(x, R, S) \cup {x}) <= Cardinality(Below(y, R, S))
    BY <2>1, <2>2, FS_Subset
  <2>4. /\ Cardinality(Below(x, R, S)) \in Nat
        /\ Cardinality(Below(x, R, S) \cup {x}) = Cardinality(Below(x, R, S)) + 1
    BY <1>3
  <2> QED BY <2>2, <2>3, <2>4
<1>6. ASSUME NEW x \in S, NEW y \in S,
             Cardinality(Below(x, R, S)) = Cardinality(Below(y, R, S))
      PROVE  x = y
  <2>1. Cardinality(Below(x, R, S)) \in Nat /\ Cardinality(Below(y, R, S)) \in Nat
    BY <1>3
  <2>2. <<x, y>> \notin R /\ <<y, x>> \notin R
    BY <1>5, <1>6, <2>1
  <2> QED BY <2>2 DEF IsStrictOrder
<1>7. f \in Injection(S, places)
  BY <1>4, <1>6 DEF Injection, IsInjective
<1> HIDE DEF f
<1>8. f \in Surjection(S, places)
  BY <1>2, <1>7, FS_Injection
<1>9. \E x \in S : f[x] = r
  <2>1. r \in places
    OBVIOUS
  <2> HIDE DEF places
  <2> QED BY <1>8, <2>1 DEF Surjection
<1> QED BY <1>6, <1>9 DEF f

\* A nonempty finite set has a first element under a strict order.
LEMMA FirstElement ==
  ASSUME NEW S, IsFiniteSet(S), S # {}, NEW R, IsStrictOrder(R, S)
  PROVE  \E x \in S : \A y \in S : y = x \/ <<x, y>> \in R
<1>1. Cardinality(S) \in Nat /\ Cardinality(S) # 0
  BY FS_CardinalityType, FS_EmptySet
<1>2. PICK x \in S : Cardinality(Below(x, R, S)) = 0
  <2>1. 0 \in 0 .. Cardinality(S) - 1
    BY <1>1
  <2> QED BY <2>1, Ranked
<1>3. Below(x, R, S) = {}
  <2>1. IsFiniteSet(Below(x, R, S))
    BY FS_Subset DEF Below
  <2> QED BY <1>2, <2>1, FS_EmptySet
<1> QED BY <1>3 DEF Below, IsStrictOrder

-----------------------------------------------------------------------------
(* The buffer and its count.                                               *)

Layout == n_vectors \in Nat /\ Persistable

\* Only add and swap_remove touch the buffer.
LEMMA OthersKeepIndex ==
  ASSUME Next,
         ~ \E vs \in Additions : Add(vs),
         ~ \E idx \in 0 .. n_vectors - 1 : SwapRemove(idx)
  PROVE  UNCHANGED index
<1>1. CASE \E qs \in QueryLists, k \in Ks :
             \/ Search(qs, k)
             \/ \E size \in BatchSizes : BeginChunked(qs, k, size)
             \/ qs # <<>> /\ TopMCandidates(qs[1], k)
             \/ \E ids \in IdLists : qs # <<>> /\ SearchSubset(qs[1], ids, k)
  <2>1. PICK qs \in QueryLists, k \in Ks :
             \/ Search(qs, k)
             \/ \E size \in BatchSizes : BeginChunked(qs, k, size)
             \/ qs # <<>> /\ TopMCandidates(qs[1], k)
             \/ \E ids \in IdLists : qs # <<>> /\ SearchSubset(qs[1], ids, k)
    BY <1>1
  <2>2. CASE Search(qs, k)
    BY <2>2 DEF Search, Returning
  <2>3. CASE \E size \in BatchSizes : BeginChunked(qs, k, size)
    BY <2>3 DEF BeginChunked
  <2>4. CASE TopMCandidates(qs[1], k)
    BY <2>4 DEF TopMCandidates, Returning
  <2>5. CASE \E ids \in IdLists : SearchSubset(qs[1], ids, k)
    BY <2>5 DEF SearchSubset, Returning
  <2> QED BY <2>1, <2>2, <2>3, <2>4, <2>5
<1>2. CASE Work
  BY <1>2 DEF Work, BeginChunk, HotPass, TailPass, ScalarPass, Select, Collect, Return
<1> QED BY <1>1, <1>2 DEF Next

\* An addition keeps the layout of the buffer.
LEMMA AddLayout ==
  ASSUME Layout, NEW vs \in Additions, Add(vs)
  PROVE  Layout'
<1>1. Len(vs) \in Nat
  BY BitmapAssumption, LenProperties
<1>2. n_vectors' = n_vectors + Len(vs) /\ n_vectors' <= MaxVectors
  BY DEF Add
<1> DEFINE k == Len(bitmaps) + Len(vs) * Qpv
<1>3. Len(bitmaps) = n_vectors * Qpv /\ n_vectors \in Nat /\ Qpv \in Nat
  BY BitmapAssumption DEF Layout, Persistable
<1>4. k \in Nat /\ k = n_vectors' * Qpv
  BY <1>1, <1>2, <1>3
<1>5. bitmaps' = [x \in 1 .. k |-> bitmaps'[x]]
  BY DEF Add
<1>6. Len(bitmaps') = k
  BY <1>4, <1>5, LenOfFunction
<1> QED BY <1>1, <1>2, <1>3, <1>4, <1>6 DEF Layout, Persistable

\* A removal keeps the layout of the buffer.
LEMMA SwapRemoveLayout ==
  ASSUME Layout, NEW idx \in 0 .. n_vectors - 1, SwapRemove(idx)
  PROVE  Layout'
<1> DEFINE k == (n_vectors - 1) * Qpv
<1>1. n_vectors \in Nat /\ n_vectors >= 1 /\ Qpv \in Nat
  BY BitmapAssumption DEF Layout
<1>2. n_vectors' = n_vectors - 1
  BY DEF SwapRemove
<1>3. n_vectors - 1 \in Nat /\ k \in Nat
  BY <1>1
<1>4. bitmaps' = [x \in 1 .. k |-> bitmaps'[x]]
  BY DEF SwapRemove
<1>5. Len(bitmaps') = k
  BY <1>3, <1>4, LenOfFunction
<1>6. n_vectors' <= MaxVectors
  BY <1>1, <1>2, BitmapAssumption DEF Layout, Persistable
<1> QED BY <1>2, <1>3, <1>5, <1>6 DEF Layout, Persistable

\* Whatever is added and removed, the index can be saved and loaded again.
THEOREM StaysPersistable == Spec => []Persistable
<1>1. Init => Layout
  BY BitmapAssumption DEF Init, Layout, Persistable
<1>2. Layout /\ [Next]_vars => Layout'
  <2> SUFFICES ASSUME Layout, [Next]_vars PROVE Layout'
    OBVIOUS
  <2>1. CASE \E vs \in Additions : Add(vs)
    BY <2>1, AddLayout
  <2>2. CASE \E idx \in 0 .. n_vectors - 1 : SwapRemove(idx)
    BY <2>2, SwapRemoveLayout
  <2>3. CASE UNCHANGED index
    BY <2>3 DEF index, Layout, Persistable
  <2>4. CASE UNCHANGED vars
    BY <2>3, <2>4 DEF vars, index
  <2> QED BY <2>1, <2>2, <2>3, <2>4, OthersKeepIndex
<1>3. Layout => Persistable
  BY DEF Layout
<1> QED BY <1>1, <1>2, <1>3, PTL DEF Spec

-----------------------------------------------------------------------------
(* The passes of the batched kernel.                                       *)

\* More rows take more words.
LEMMA Monotone ==
  ASSUME NEW i \in Nat, NEW j \in Nat, NEW w \in Nat, i <= j
  PROVE  i * w <= j * w
<1>1. PICK e \in Nat : j = i + e
  BY j - i \in Nat
<1>2. j * w = i * w + e * w /\ e * w \in Nat
  BY <1>1
<1> QED BY <1>2

\* A cell of a buffer of rows of length w belongs to one row, at one place.
LEMMA CellOf ==
  ASSUME NEW w \in Nat, NEW b \in Nat, NEW di \in 0 .. w - 1
  PROVE  (b * w + di) \div w = b /\ (b * w + di) % w = di
<1> DEFINE x == b * w + di
           q == x \div w
           r == x % w
<1>1. w \in Nat \ {0} /\ x \in Nat
  OBVIOUS
<1>2. q \in Nat /\ r \in 0 .. w - 1 /\ x = q * w + r
  BY <1>1
<1>3. ~ q < b
  <2> SUFFICES ASSUME q < b PROVE FALSE
    OBVIOUS
  <2>1. (q + 1) * w <= b * w /\ (q + 1) * w = q * w + w
    BY <1>2, Monotone, q + 1 \in Nat, q + 1 <= b
  <2> QED BY <1>2, <2>1
<1>4. ~ b < q
  <2> SUFFICES ASSUME b < q PROVE FALSE
    OBVIOUS
  <2>1. (b + 1) * w <= q * w /\ (b + 1) * w = b * w + w
    BY <1>2, Monotone, b + 1 \in Nat, b + 1 <= q
  <2> QED BY <1>2, <2>1
<1>5. q = b
  BY <1>2, <1>3, <1>4
<1>6. r = di
  BY <1>2, <1>5
<1> QED BY <1>5, <1>6

\* A cell lies in the rows lo .. hi - 1 iff its row does.
LEMMA CellIn ==
  ASSUME NEW w \in Nat, NEW b \in Nat, NEW di \in 0 .. w - 1,
         NEW lo \in Nat, NEW hi \in Nat
  PROVE  b * w + di \in lo * w .. hi * w - 1 <=> b \in lo .. hi - 1
<1>1. b * w \in Nat /\ lo * w \in Nat /\ hi * w \in Nat
  OBVIOUS
<1>2. ASSUME b < lo PROVE b * w + di < lo * w
  <2>1. (b + 1) * w <= lo * w /\ (b + 1) * w = b * w + w
    BY <1>2, Monotone, b + 1 \in Nat, b + 1 <= lo
  <2> QED BY <1>1, <2>1
<1>3. ASSUME lo <= b PROVE lo * w <= b * w + di
  BY <1>1, <1>3, Monotone
<1>4. ASSUME b < hi PROVE b * w + di <= hi * w - 1
  <2>1. (b + 1) * w <= hi * w /\ (b + 1) * w = b * w + w
    BY <1>4, Monotone, b + 1 \in Nat, b + 1 <= hi
  <2> QED BY <1>1, <2>1
<1>5. ASSUME hi <= b PROVE hi * w <= b * w + di
  BY <1>1, <1>5, Monotone
<1> QED BY <1>1, <1>2, <1>3, <1>4, <1>5

Overlap(b, di) == Score(QueryBitmap(job.chunks[cur][b + 1]), di)

\* What a pass needs: a chunk, a place in it and a buffer of its size.
Buffered ==
  /\ cur \in DOMAIN job.chunks
  /\ batch \in Nat /\ chunkStart \in Nat /\ chunkStart <= batch
  /\ scores = [x \in 0 .. batch * n_vectors - 1 |-> scores[x]]

Shape ==
  /\ n_vectors \in Nat
  /\ DOMAIN done = DOMAIN job.chunks
  /\ \A c \in DOMAIN job.chunks : Len(job.chunks[c]) \in Nat
  /\ pc \in {"score", "select"} => Buffered

\* Chunks are sequences of queries.
LEMMA ChunkLengths ==
  ASSUME NEW qs \in QueryLists, NEW size \in BatchSizes,
         NEW c \in DOMAIN ChunksOf(qs, size)
  PROVE  Len(ChunksOf(qs, size)[c]) \in Nat
<1>1. qs \in Seq(Vector) /\ Len(qs) \in Nat /\ size \in Nat \ {0}
  BY BitmapAssumption, LenProperties
<1> DEFINE last == (Len(qs) + size - 1) \div size
           from == (c - 1) * size + 1
           upto == Least(c * size, Len(qs))
<1>2. last \in Nat /\ last * size <= Len(qs) + size - 1
  BY <1>1
<1>3. c \in 1 .. last /\ ChunksOf(qs, size)[c] = SubSeq(qs, from, upto)
  BY <1>1 DEF ChunksOf
<1>4. c * size <= last * size
  BY <1>1, <1>2, <1>3, Monotone, c \in Nat, c <= last, size \in Nat
<1>5. (c - 1) * size = c * size - size /\ c * size \in Nat /\ (c - 1) * size \in Nat
  BY <1>1, <1>2, <1>3
<1>6. from \in 1 .. Len(qs) + 1 /\ upto \in from - 1 .. Len(qs)
  BY <1>1, <1>2, <1>4, <1>5 DEF Least
<1>7. SubSeq(qs, from, upto) \in Seq(Vector)
  BY <1>1, <1>6, SubSeqProperties
<1> QED BY <1>3, <1>7, LenProperties

IInv == Shape /\ ScoresExact

\* ScoresExact, cell by cell.
LEMMA ExactCells ==
  ScoresExact <=>
    (pc \in {"score", "select"} =>
       \A b \in 0 .. batch - 1, di \in 0 .. n_vectors - 1 :
         scores[b * n_vectors + di] =
           IF pc = "select" \/ b < chunkStart THEN Overlap(b, di) ELSE 0)
BY DEF ScoresExact, Overlap

\* Outside of the passes only the lengths of the chunks matter.
LEMMA OutsidePasses ==
  ASSUME IInv, pc' \notin {"score", "select"}, n_vectors' \in Nat,
         DOMAIN done' = DOMAIN job.chunks, job' = job
  PROVE  IInv'
BY DEF IInv, Shape, ScoresExact

\* Additions and removals find no call in progress.
LEMMA IndexIInv ==
  ASSUME IInv, \/ \E vs \in Additions : Add(vs)
               \/ \E idx \in 0 .. n_vectors - 1 : SwapRemove(idx)
  PROVE  IInv'
<1>1. n_vectors \in Nat /\ DOMAIN done = DOMAIN job.chunks
  BY DEF IInv, Shape
<1>2. ASSUME NEW vs \in Additions, Add(vs) PROVE IInv'
  <2>1. Len(vs) \in Nat
    BY BitmapAssumption, LenProperties
  <2>2. n_vectors' \in Nat /\ pc' = "idle" /\ done' = done /\ job' = job
    BY <1>1, <1>2, <2>1 DEF Add, work
  <2> QED BY <1>1, <2>2, OutsidePasses
<1>3. ASSUME NEW idx \in 0 .. n_vectors - 1, SwapRemove(idx) PROVE IInv'
  <2>1. n_vectors' = n_vectors - 1 /\ pc' = "idle" /\ done' = done /\ job' = job
    BY <1>3 DEF SwapRemove, work
  <2> QED BY <1>1, <2>1, OutsidePasses
<1> QED BY <1>2, <1>3

\* An answer leaves no job behind.
LEMMA AnswerIInv ==
  ASSUME IInv, NEW rows, Returning(rows)
  PROVE  IInv'
BY OutsidePasses DEF Returning, index, work, IInv, Shape

\* A chunked call starts with every chunk to be done.
LEMMA BeginChunkedIInv ==
  ASSUME IInv, NEW qs \in QueryLists, NEW m \in Ks, NEW size \in BatchSizes,
         BeginChunked(qs, m, size)
  PROVE  IInv'
<1>1. job'.chunks = ChunksOf(qs, size) /\ pc' = "chunks" /\ n_vectors' = n_vectors
  BY DEF BeginChunked, index
<1>2. DOMAIN done' = DOMAIN job'.chunks
  BY <1>1 DEF BeginChunked
<1>3. \A c \in DOMAIN job'.chunks : Len(job'.chunks[c]) \in Nat
  BY <1>1, ChunkLengths
<1> QED BY <1>1, <1>2, <1>3 DEF IInv, Shape, ScoresExact

\* A chunk starts with a buffer of zeros.
LEMMA BeginChunkIInv ==
  ASSUME IInv, NEW c \in DOMAIN done, BeginChunk(c)
  PROVE  IInv'
<1>1. /\ n_vectors \in Nat /\ n_vectors' = n_vectors
      /\ DOMAIN done = DOMAIN job.chunks /\ job' = job /\ pc = "chunks"
      /\ c \in DOMAIN job.chunks /\ Len(job.chunks[c]) \in Nat
  BY DEF IInv, Shape, BeginChunk, index
<1>2. CASE mEff = 0
  <2>1. pc' = "chunks" /\ DOMAIN done' = DOMAIN done
    BY <1>1, <1>2 DEF BeginChunk
  <2> QED BY <1>1, <2>1, OutsidePasses
<1>3. CASE mEff # 0
  <2>1. /\ cur' = c /\ chunkStart' = 0 /\ pc' = "score" /\ done' = done
        /\ scores' = [x \in 0 .. Len(job.chunks[c]) * n_vectors - 1 |-> 0]
    BY <1>3 DEF BeginChunk
  <2>2. batch' = Len(job.chunks[c])
    BY <1>1, <2>1 DEF batch
  <2>3. Buffered'
    BY <1>1, <2>1, <2>2 DEF Buffered
  <2>4. Shape'
    BY <1>1, <2>1, <2>3 DEF Shape, IInv
  <2>5. ASSUME NEW b \in 0 .. batch' - 1, NEW di \in 0 .. n_vectors - 1
        PROVE  scores'[b * n_vectors + di] = 0
    <3>1. b \in Nat /\ batch' \in Nat /\ 0 * n_vectors = 0
      BY <1>1, <2>2
    <3>2. b * n_vectors + di \in 0 * n_vectors .. batch' * n_vectors - 1
      BY <1>1, <3>1, CellIn
    <3> QED BY <2>1, <2>2, <3>1, <3>2
  <2>6. ASSUME NEW b \in 0 .. batch' - 1, NEW di \in 0 .. n_vectors' - 1
        PROVE  scores'[b * n_vectors' + di] = 0 /\ ~ b < chunkStart' /\ pc' # "select"
    <3>1. b \in Nat /\ n_vectors' = n_vectors /\ chunkStart' = 0 /\ pc' = "score"
      BY <1>1, <2>1, <2>2
    <3>2. di \in 0 .. n_vectors - 1
      BY <3>1
    <3>3. scores'[b * n_vectors + di] = 0
      BY <3>2, <2>5
    <3> QED BY <3>1, <3>3
  <2>7. ScoresExact'
    BY <2>6 DEF ScoresExact
  <2> QED BY <2>4, <2>7 DEF IInv
<1> QED BY <1>2, <1>3

\* A pass that fills the rows from `first` on, and then counts them as filled.
LEMMA PassIInv ==
  ASSUME IInv, pc = "score", UNCHANGED <<index, job, done, cur>>,
         NEW first \in Nat, NEW size \in Nat, first + size <= batch,
         first <= chunkStart, scores' = Filled(first, size),
         chunkStart' \in Nat, chunkStart' <= batch,
         \/ pc' = "score" /\ first = chunkStart /\ chunkStart' = first + size
         \/ pc' = "select" /\ first + size = batch
  PROVE  IInv'
<1>1. n_vectors \in Nat /\ Buffered /\ batch' = batch /\ n_vectors' = n_vectors
  BY DEF IInv, Shape, index, batch
<1>2. DOMAIN scores = 0 .. batch * n_vectors - 1
  BY <1>1 DEF Buffered
<1>3. scores' = [x \in 0 .. batch * n_vectors - 1 |-> scores'[x]]
  BY <1>2 DEF Filled
<1>4. Buffered'
  BY <1>1, <1>3 DEF Buffered
<1>5. Shape'
  BY <1>1, <1>4 DEF IInv, Shape
<1>6. ASSUME NEW b \in 0 .. batch - 1, NEW di \in 0 .. n_vectors - 1
      PROVE  scores'[b * n_vectors + di] =
               IF pc' = "select" \/ b < chunkStart' THEN Overlap(b, di) ELSE 0
  <2>1. scores'[b * n_vectors + di] =
          IF b \in first .. first + size - 1 THEN Overlap(b, di)
          ELSE scores[b * n_vectors + di]
    <3> DEFINE x == b * n_vectors + di
    <3>1. batch \in Nat /\ b \in Nat /\ first + size \in Nat /\ 0 * n_vectors = 0
      BY <1>1 DEF Buffered
    <3>2. x \in 0 * n_vectors .. batch * n_vectors - 1
      BY <1>1, <3>1, CellIn
    <3>3. x \in DOMAIN scores
      BY <1>2, <3>1, <3>2
    <3>4. x \in first * n_vectors .. (first + size) * n_vectors - 1
            <=> b \in first .. first + size - 1
      BY <1>1, <3>1, CellIn
    <3>5. x \div n_vectors = b /\ x % n_vectors = di
      BY <1>1, <3>1, CellOf
    <3> HIDE DEF x
    <3>6. scores'[x] =
            IF x \in first * n_vectors .. (first + size) * n_vectors - 1
            THEN Score(QueryBitmap(job.chunks[cur][x \div n_vectors + 1]), x % n_vectors)
            ELSE scores[x]
      BY <3>3 DEF Filled
    <3> QED BY <3>4, <3>5, <3>6 DEF x, Overlap
  <2>2. scores[b * n_vectors + di] = IF b < chunkStart THEN Overlap(b, di) ELSE 0
    BY <1>1, ExactCells DEF IInv
  <2>3. b \in Nat /\ batch \in Nat /\ chunkStart \in Nat
    BY <1>1 DEF Buffered
  <2>4. CASE b \in first .. first + size - 1
    BY <2>1, <2>3, <2>4
  <2>5. CASE b < first
    BY <2>1, <2>2, <2>3, <2>5
  <2>6. CASE first + size <= b
    BY <2>1, <2>2, <2>3, <2>6
  <2> QED BY <2>3, <2>4, <2>5, <2>6
<1>7. \A b, di : Overlap(b, di)' = Overlap(b, di)
  BY DEF Overlap, Score, Doc, index
<1>8. ScoresExact'
  <2> SUFFICES ASSUME NEW b \in 0 .. batch - 1, NEW di \in 0 .. n_vectors - 1
               PROVE  scores'[b * n_vectors + di] =
                        IF pc' = "select" \/ b < chunkStart' THEN Overlap(b, di)' ELSE 0
    BY <1>1 DEF ScoresExact, Overlap
  <2> QED BY <1>6, <1>7
<1> QED BY <1>5, <1>8 DEF IInv

\* The passes, the selection and the return keep the invariant.
LEMMA WorkIInv ==
  ASSUME IInv, Work
  PROVE  IInv'
<1>1. n_vectors \in Nat /\ Chunk \in Nat \ {0}
  BY BitmapAssumption DEF IInv, Shape
<1>2. ASSUME pc = "score"
      PROVE  batch \in Nat /\ chunkStart \in Nat /\ chunkStart <= batch
  BY <1>2 DEF IInv, Shape, Buffered
<1>3. ASSUME NEW c \in DOMAIN done, BeginChunk(c) PROVE IInv'
  BY <1>3, BeginChunkIInv
<1>4. ASSUME HotPass PROVE IInv'
  <2>1. /\ pc = "score" /\ pc' = "score" /\ UNCHANGED <<index, job, done, cur>>
        /\ chunkStart + Chunk <= batch /\ scores' = Filled(chunkStart, Chunk)
        /\ chunkStart' = chunkStart + Chunk
    BY <1>4 DEF HotPass
  <2> QED BY <1>1, <1>2, <2>1, PassIInv
<1>5. ASSUME TailPass PROVE IInv'
  <2>1. /\ pc = "score" /\ pc' = "select" /\ UNCHANGED <<index, job, done, cur>>
        /\ scores' = Filled(chunkStart, batch - chunkStart)
        /\ chunkStart' = chunkStart
    BY <1>5 DEF TailPass
  <2>2. batch - chunkStart \in Nat /\ chunkStart + (batch - chunkStart) = batch
    BY <1>2, <2>1
  <2> QED BY <1>2, <2>1, <2>2, PassIInv
<1>6. ASSUME ScalarPass PROVE IInv'
  <2>1. /\ pc = "score" /\ pc' = "select" /\ UNCHANGED <<index, job, done, cur>>
        /\ scores' = Filled(0, batch) /\ chunkStart' = chunkStart
    BY <1>6 DEF ScalarPass
  <2> QED BY <1>2, <2>1, PassIInv
<1>7. ASSUME Select PROVE IInv'
  <2>1. pc' = "chunks" /\ job' = job /\ DOMAIN done' = DOMAIN done /\ n_vectors' = n_vectors
    BY <1>7 DEF Select, index
  <2> QED BY <1>1, <2>1, OutsidePasses DEF IInv, Shape
<1>8. ASSUME Collect PROVE IInv'
  <2>1. pc' = "return" /\ job' = NoJob /\ done' = <<>> /\ n_vectors' = n_vectors
    BY <1>8 DEF Collect, index
  <2> QED BY <1>1, <2>1 DEF IInv, Shape, ScoresExact, NoJob
<1>9. ASSUME Return PROVE IInv'
  <2>1. pc' = "idle" /\ job' = job /\ done' = done /\ n_vectors' = n_vectors
    BY <1>9 DEF Return, index, work
  <2> QED BY <1>1, <2>1, OutsidePasses DEF IInv, Shape
<1> QED BY <1>3, <1>4, <1>5, <1>6, <1>7, <1>8, <1>9 DEF Work

\* So do the calls.
LEMMA CallIInv ==
  ASSUME IInv, NEW qs \in QueryLists, NEW k \in Ks,
         \/ Search(qs, k)
         \/ \E size \in BatchSizes : BeginChunked(qs, k, size)
         \/ qs # <<>> /\ TopMCandidates(qs[1], k)
         \/ \E ids \in IdLists : qs # <<>> /\ SearchSubset(qs[1], ids, k)
  PROVE  IInv'
<1>1. CASE Search(qs, k)
  BY <1>1, AnswerIInv DEF Search
<1>2. CASE \E size \in BatchSizes : BeginChunked(qs, k, size)
  BY <1>2, BeginChunkedIInv
<1>3. CASE TopMCandidates(qs[1], k)
  BY <1>3, AnswerIInv DEF TopMCandidates
<1>4. CASE \E ids \in IdLists : SearchSubset(qs[1], ids, k)
  BY <1>4, AnswerIInv DEF SearchSubset
<1> QED BY <1>1, <1>2, <1>3, <1>4

\* Every step keeps the invariant of the chunked call.
LEMMA IInvStep == IInv /\ [Next]_vars => IInv'
<1> SUFFICES ASSUME IInv, [Next]_vars PROVE IInv'
  OBVIOUS
<1>1. CASE \/ \E vs \in Additions : Add(vs)
           \/ \E idx \in 0 .. n_vectors - 1 : SwapRemove(idx)
  BY <1>1, IndexIInv
<1>2. CASE \E qs \in QueryLists, k \in Ks :
             \/ Search(qs, k)
             \/ \E size \in BatchSizes : BeginChunked(qs, k, size)
             \/ qs # <<>> /\ TopMCandidates(qs[1], k)
             \/ \E ids \in IdLists : qs # <<>> /\ SearchSubset(qs[1], ids, k)
  BY <1>2, CallIInv
<1>3. CASE Work
  BY <1>3, WorkIInv
<1>4. CASE UNCHANGED vars
  BY <1>4 DEF vars, index, work, IInv, Shape, Buffered, ScoresExact, Score, Doc, batch
<1> QED BY <1>1, <1>2, <1>3, <1>4 DEF Next

\* The score buffer of a chunk is exact between any two passes and when the
\* candidates are selected, for every chunk size, corpus and split of the batch.
THEOREM ScoresAreExact == Spec => []ScoresExact
<1>1. Init => IInv
  BY BitmapAssumption DEF Init, IInv, Shape, ScoresExact, NoJob
<1>2. IInv /\ [Next]_vars => IInv'
  BY IInvStep
<1>3. IInv => ScoresExact
  BY DEF IInv
<1> QED BY <1>1, <1>2, <1>3, PTL DEF Spec

-----------------------------------------------------------------------------
(* The weight of a row.                                                    *)

Pairs(s, D, F) == {p \in s \X D : p[2] \in F[p[1]]}

\* The pairs of one more index are the elements of its set, in addition.
LEMMA PairsAdd ==
  ASSUME NEW S, IsFiniteSet(S), NEW D, IsFiniteSet(D), NEW F \in [S -> SUBSET D],
         NEW s \in SUBSET S, NEW x \in s
  PROVE  Cardinality(Pairs(s, D, F)) = Cardinality(F[x]) + Cardinality(Pairs(s \ {x}, D, F))
<1> DEFINE own == {p \in {x} \X D : p[2] \in F[x]}
           rest == Pairs(s \ {x}, D, F)
<1>1. Pairs(s, D, F) = own \cup rest /\ own \cap rest = {}
  BY DEF Pairs
<1>2. IsFiniteSet(s) /\ IsFiniteSet(s \X D) /\ IsFiniteSet(F[x])
  BY FS_Subset, FS_Product
<1>3. IsFiniteSet(own) /\ IsFiniteSet(rest)
  <2>1. own \subseteq s \X D /\ rest \subseteq s \X D
    BY DEF Pairs
  <2> HIDE DEF own, rest
  <2> QED BY <1>2, <2>1, FS_Subset
<1>4. Cardinality(own) = Cardinality(F[x])
  <2> DEFINE f == [e \in F[x] |-> <<x, e>>]
  <2>1. f \in Injection(F[x], own)
    <3>1. f \in [F[x] -> own]
      OBVIOUS
    <3>2. \A a, b \in F[x] : f[a] = f[b] => a = b
      OBVIOUS
    <3> QED BY <3>1, <3>2 DEF Injection, IsInjective
  <2>4. f \in Surjection(F[x], own)
    <3>1. ASSUME NEW p \in own PROVE \E e \in F[x] : f[e] = p
      OBVIOUS
    <3> QED BY <2>1, <3>1 DEF Injection, Surjection
  <2>2. ExistsBijection(F[x], own)
    BY <2>1, <2>4 DEF ExistsBijection, Bijection
  <2> HIDE DEF own
  <2> QED BY <1>2, <2>2, FS_Bijection
<1>5. Cardinality(own \cap rest) = 0
  BY <1>1, FS_EmptySet
<1> HIDE DEF own, rest
<1>6. Cardinality(own) \in Nat /\ Cardinality(rest) \in Nat
  BY <1>3, FS_CardinalityType
<1>7. Cardinality(own \cup rest) = Cardinality(own) + Cardinality(rest)
  <2>1. Cardinality(own \cup rest) = Cardinality(own) + Cardinality(rest) - Cardinality(own \cap rest)
    BY <1>3, FS_Union
  <2> QED BY <1>5, <1>6, <2>1
<1> QED BY <1>1, <1>4, <1>7 DEF rest

\* The sum of the sizes of finitely many sets is the number of their elements,
\* each counted with the index of its set.
LEMMA SumOfSizes ==
  ASSUME NEW S, IsFiniteSet(S), NEW D, IsFiniteSet(D), NEW F \in [S -> SUBSET D]
  PROVE  MapThenSumSet(LAMBDA w : Cardinality(F[w]), S) = Cardinality(Pairs(S, D, F))
<1> DEFINE some(s) == CHOOSE x \in s : TRUE
           G(f) == [s \in SUBSET S |->
                      IF s = {} THEN 0 ELSE Cardinality(F[some(s)]) + f[s \ {some(s)}]]
           size == [s \in SUBSET S |-> Cardinality(Pairs(s, D, F))]
           sum == CHOOSE f : f = G(f)
<1>1. MapThenSumSet(LAMBDA w : Cardinality(F[w]), S) = sum[S]
  BY DEF MapThenSumSet, MapThenFoldSet
<1>2. size = G(size)
  <2> SUFFICES ASSUME NEW s \in SUBSET S
               PROVE  size[s] = IF s = {} THEN 0
                                ELSE Cardinality(F[some(s)]) + size[s \ {some(s)}]
    OBVIOUS
  <2>1. CASE s = {}
    BY <2>1, FS_EmptySet DEF Pairs
  <2>2. CASE s # {}
    <3>1. some(s) \in s
      BY <2>2
    <3>2. s \ {some(s)} \in SUBSET S
      OBVIOUS
    <3>3. Cardinality(Pairs(s, D, F)) =
            Cardinality(F[some(s)]) + Cardinality(Pairs(s \ {some(s)}, D, F))
      <4> HIDE DEF some
      <4> QED BY <3>1, PairsAdd
    <3> HIDE DEF some
    <3> QED BY <2>2, <3>2, <3>3
  <2> QED BY <2>1, <2>2
<1>3. sum = G(sum)
  <2> HIDE DEF G, size
  <2> QED BY <1>2
<1> DEFINE Wrong == {s \in SUBSET S : sum[s] # size[s]}
<1> HIDE DEF sum
<1>4. Wrong = {}
  <2>1. SUFFICES ASSUME Wrong # {} PROVE FALSE
    OBVIOUS
  <2>2. IsWellFoundedOn(StrictSubsetOrdering(S), SUBSET S)
    BY FS_StrictSubsetOrderingWellFounded, FS_FiniteSubsetsOfFinite
  <2>3. PICK s \in Wrong : \A r \in Wrong : ~ (<<r, s>> \in StrictSubsetOrdering(S))
    <3>1. Wrong \subseteq SUBSET S
      OBVIOUS
    <3> HIDE DEF Wrong
    <3> QED BY <2>1, <2>2, <3>1, WFMin
  <2>4. s \in SUBSET S /\ sum[s] # size[s]
    OBVIOUS
  <2>5. CASE s = {}
    <3>1. sum[s] = 0 /\ size[s] = 0
      BY <1>2, <1>3, <2>4, <2>5
    <3> QED BY <2>4, <3>1
  <2>6. CASE s # {}
    <3> DEFINE r == s \ {some(s)}
    <3>1. some(s) \in s /\ r \in SUBSET S /\ r # s /\ r \subseteq s
      BY <2>4, <2>6
    <3>2. r \notin Wrong
      BY <2>3, <2>4, <3>1 DEF StrictSubsetOrdering
    <3>3. sum[r] = size[r]
      BY <3>1, <3>2
    <3>4. sum[s] = Cardinality(F[some(s)]) + sum[r]
      BY <1>3, <2>4, <2>6
    <3>5. size[s] = Cardinality(F[some(s)]) + size[r]
      <4> HIDE DEF size
      <4> QED BY <1>2, <2>4, <2>6
    <3> QED BY <2>4, <3>3, <3>4, <3>5
  <2> QED BY <2>5, <2>6
<1>5. sum[S] = size[S]
  BY <1>4
<1> QED BY <1>1, <1>5

\* The n_top highest-ranked coordinates are n_top.
LEMMA TopSize ==
  ASSUME NEW v \in Vector
  PROVE  Cardinality({j \in Coords : RankTransform(v)[j] >= dim - NTop}) = NTop
<1> DEFINE R == {p \in Coords \X Coords : \/ v[p[1] + 1] < v[p[2] + 1]
                                          \/ v[p[1] + 1] = v[p[2] + 1] /\ p[1] < p[2]}
           rank(j) == Cardinality(Below(j, R, Coords))
           top == {j \in Coords : rank(j) >= dim - NTop}
           places == dim - NTop .. dim - 1
<1>1. dim \in Nat /\ NTop \in Nat /\ NTop < dim
  BY BitmapAssumption DEF dim
<1>2. IsFiniteSet(Coords) /\ Cardinality(Coords) = dim
  <2>1. dim - 1 \in Int /\ 0 \in Int /\ ~ 0 > dim - 1 /\ (dim - 1) - 0 + 1 = dim
    BY <1>1
  <2> QED BY <2>1, FS_Interval DEF Coords
<1>3. \A i \in Coords : v[i + 1] \in Int /\ i \in Int
  <2>1. \A i \in Coords : i + 1 \in 1 .. dim /\ i \in Int
    BY <1>1 DEF Coords
  <2> QED BY <2>1 DEF Vector
<1>4. \A i, j \in Coords : <<i, j>> \in R <=> v[i + 1] < v[j + 1] \/ (v[i + 1] = v[j + 1] /\ i < j)
  OBVIOUS
<1>5. \A j \in Coords : Below(j, R, Coords) =
        {i \in Coords : v[i + 1] < v[j + 1] \/ (v[i + 1] = v[j + 1] /\ i < j)}
  BY <1>4 DEF Below
<1> HIDE DEF R
<1>6. IsStrictOrder(R, Coords)
  <2>1. ASSUME NEW i \in Coords PROVE <<i, i>> \notin R
    BY <1>3, <1>4
  <2>2. ASSUME NEW i \in Coords, NEW j \in Coords
        PROVE  i = j \/ <<i, j>> \in R \/ <<j, i>> \in R
    BY <1>3, <1>4
  <2>3. ASSUME NEW i \in Coords, NEW j \in Coords, NEW k \in Coords,
               <<i, j>> \in R, <<j, k>> \in R
        PROVE  <<i, k>> \in R
    BY <1>3, <1>4, <2>3
  <2> QED BY <2>1, <2>2, <2>3 DEF IsStrictOrder
<1>7. {j \in Coords : RankTransform(v)[j] >= dim - NTop} = top
  BY <1>5 DEF RankTransform
<1>8. ASSUME NEW j \in Coords PROVE rank(j) \in 0 .. dim - 1
  <2>1. Below(j, R, Coords) \subseteq Coords \ {j}
    BY <1>6 DEF Below, IsStrictOrder
  <2>2. IsFiniteSet(Coords \ {j}) /\ Cardinality(Coords \ {j}) = dim - 1
    BY <1>2, FS_RemoveElement
  <2>3. IsFiniteSet(Below(j, R, Coords)) /\ rank(j) <= dim - 1
    BY <2>1, <2>2, FS_Subset
  <2>4. rank(j) \in Nat
    BY <2>3, FS_CardinalityType
  <2> QED BY <1>1, <2>3, <2>4
<1>9. ASSUME NEW r \in places
      PROVE  \E j \in top : rank(j) = r
  <2>1. r \in 0 .. Cardinality(Coords) - 1
    BY <1>1, <1>2
  <2>2. PICK j \in Coords : rank(j) = r
    BY <1>2, <1>6, <2>1, Ranked
  <2> QED BY <1>1, <2>2
<1>10. ASSUME NEW i \in Coords, NEW j \in Coords, rank(i) = rank(j)
       PROVE  i = j
  <2>1. 0 \in 0 .. Cardinality(Coords) - 1
    BY <1>1, <1>2
  <2> QED BY <1>2, <1>6, <1>10, <2>1, Ranked
<1> DEFINE f == [j \in top |-> rank(j)]
<1>11. IsFiniteSet(top) /\ Cardinality(top) = Cardinality(places)
  <2>1. IsFiniteSet(top)
    BY <1>2, FS_Subset
  <2>2. f \in [top -> places]
    BY <1>1, <1>8
  <2>3. f \in Injection(top, places)
    <3>1. \A i, j \in top : f[i] = f[j] => i = j
      BY <1>10
    <3> QED BY <2>2, <3>1 DEF Injection, IsInjective
  <2>4. f \in Surjection(top, places)
    <3>1. \A r \in places : \E j \in top : f[j] = r
      BY <1>9
    <3> HIDE DEF f
    <3> QED BY <2>2, <3>1 DEF Surjection
  <2>5. ExistsBijection(top, places)
    BY <2>3, <2>4 DEF ExistsBijection, Bijection
  <2> HIDE DEF top, places
  <2> QED BY <2>1, <2>5, FS_Bijection
<1>12. Cardinality(places) = NTop
  <2>1. /\ dim - NTop \in Int /\ dim - 1 \in Int
        /\ ~ dim - NTop > dim - 1 \/ NTop = 0
        /\ (dim - 1) - (dim - NTop) + 1 = NTop
    BY <1>1
  <2>2. NTop # 0
    BY BitmapAssumption
  <2> QED BY <2>1, <2>2, FS_Interval
<1> QED BY <1>7, <1>11, <1>12

\* Quotient and remainder.
LEMMA Divided ==
  ASSUME NEW x \in Nat, NEW w \in Nat \ {0}
  PROVE  x \div w \in Nat /\ x % w \in 0 .. w - 1 /\ x = (x \div w) * w + (x % w)
OBVIOUS

\* Packing keeps the number of coordinates.
LEMMA PackedWeight ==
  ASSUME NEW top \in SUBSET Coords
  PROVE  /\ Packed(top) \in [1 .. Qpv -> Word]
         /\ Cardinality(Pairs(1 .. Qpv, 0 .. WordBits - 1, Packed(top))) = Cardinality(top)
<1> DEFINE bits == 0 .. WordBits - 1
           pairs == Pairs(1 .. Qpv, bits, Packed(top))
           f == [j \in top |-> <<j \div WordBits + 1, j % WordBits>>]
           place(p) == (p[1] - 1) * WordBits + p[2]
<1>1. WordBits \in Nat \ {0} /\ Qpv \in Nat \ {0} /\ dim \in Nat /\ dim = WordBits * Qpv
  BY BitmapAssumption DEF dim
<1>2. Packed(top) \in [1 .. Qpv -> SUBSET bits]
  BY DEF Packed
<1>3. IsFiniteSet(1 .. Qpv) /\ IsFiniteSet(bits) /\ IsFiniteSet(top)
  <2>1. IsFiniteSet(Coords)
    BY <1>1, FS_Interval DEF Coords
  <2>2. IsFiniteSet(1 .. Qpv) /\ IsFiniteSet(0 .. WordBits - 1)
    BY <1>1, FS_Interval
  <2> QED BY <2>1, <2>2, FS_Subset
<1>4. ASSUME NEW j \in Coords
      PROVE  /\ j \in Nat /\ j \div WordBits + 1 \in 1 .. Qpv /\ j % WordBits \in bits
             /\ place(<<j \div WordBits + 1, j % WordBits>>) = j
  <2> DEFINE q == j \div WordBits
             r == j % WordBits
  <2>1. j \in Nat /\ j < Qpv * WordBits
    BY <1>1 DEF Coords
  <2>2. q \in Nat /\ r \in 0 .. WordBits - 1 /\ j = q * WordBits + r
    BY <1>1, <2>1, Divided
  <2> HIDE DEF q, r
  <2>3. ~ Qpv <= q
    <3>1. Qpv <= q => Qpv * WordBits <= q * WordBits
      BY <1>1, <2>2, Monotone
    <3>2. q * WordBits \in Nat /\ Qpv * WordBits \in Nat
      BY <1>1, <2>2
    <3> QED BY <2>1, <2>2, <3>1, <3>2
  <2>4. q + 1 \in 1 .. Qpv /\ (q + 1) - 1 = q
    BY <1>1, <2>2, <2>3
  <2>5. place(<<q + 1, r>>) = j
    BY <2>2, <2>4
  <2> QED BY <2>1, <2>2, <2>4, <2>5 DEF q, r
<1>5. \A p \in pairs : /\ p[1] \in 1 .. Qpv /\ p[2] \in bits /\ p = <<p[1], p[2]>>
                       /\ place(p) \in top
  BY DEF Pairs, Packed
<1>6. ASSUME NEW w \in 1 .. Qpv, NEW e \in bits, place(<<w, e>>) \in top
      PROVE  <<w, e>> \in pairs
  BY <1>6 DEF Pairs, Packed
<1>7. f \in Injection(top, pairs)
  <2>1. \A j \in top : f[j] \in pairs /\ place(f[j]) = j
    <3> SUFFICES ASSUME NEW j \in top PROVE f[j] \in pairs /\ place(f[j]) = j
      OBVIOUS
    <3>1. f[j] = <<j \div WordBits + 1, j % WordBits>>
      OBVIOUS
    <3> HIDE DEF place, f, pairs, bits
    <3> QED BY <1>4, <1>6, <3>1
  <2>3. f \in [top -> pairs]
    BY <2>1
  <2>2. ASSUME NEW i \in top, NEW j \in top, f[i] = f[j] PROVE i = j
    <3> HIDE DEF place, f
    <3> QED BY <2>1, <2>2
  <2> QED BY <2>2, <2>3 DEF Injection, IsInjective
<1>8. f \in Surjection(top, pairs)
  <2>1. ASSUME NEW p \in pairs PROVE \E j \in top : f[j] = p
    <3> DEFINE j == (p[1] - 1) * WordBits + p[2]
    <3>1. /\ p[1] \in 1 .. Qpv /\ p[2] \in 0 .. WordBits - 1 /\ p = <<p[1], p[2]>>
          /\ j \in top
      BY <1>5
    <3>2. p[1] - 1 \in Nat /\ (p[1] - 1) + 1 = p[1]
      BY <1>1, <3>1
    <3>3. j \div WordBits = p[1] - 1 /\ j % WordBits = p[2]
      BY <1>1, <3>1, <3>2, CellOf
    <3>4. f[j] = <<j \div WordBits + 1, j % WordBits>>
      BY <3>1
    <3>5. f[j] = p
      BY <3>1, <3>2, <3>3, <3>4
    <3> QED BY <3>1, <3>5
  <2> HIDE DEF f
  <2> QED BY <1>7, <2>1 DEF Injection, Surjection
<1>9. Cardinality(pairs) = Cardinality(top)
  <2>1. ExistsBijection(top, pairs)
    BY <1>7, <1>8 DEF ExistsBijection, Bijection
  <2> HIDE DEF pairs
  <2> QED BY <1>3, <2>1, FS_Bijection
<1> QED BY <1>2, <1>9 DEF Word

\* What is stored: every row is the row of some vector.
Stored ==
  /\ Layout
  /\ bitmaps \in Seq(Word)
  /\ \A di \in 0 .. n_vectors - 1 : \E v \in Vector :
       \A w \in 1 .. Qpv : bitmaps[di * Qpv + w] = RowOf(v)[w]

\* Such a row has its weight.
LEMMA StoredWeight == Stored => ConstantWeight
<1> SUFFICES ASSUME Stored, NEW di \in 0 .. n_vectors - 1
             PROVE  MapThenSumSet(LAMBDA w : Cardinality(Doc(di)[w]), 1 .. Qpv) = NTop
  BY DEF ConstantWeight
<1>1. PICK v \in Vector : \A w \in 1 .. Qpv : bitmaps[di * Qpv + w] = RowOf(v)[w]
  BY DEF Stored
<1> DEFINE top == {j \in Coords : RankTransform(v)[j] >= dim - NTop}
<1>2. RowOf(v) = Packed(top)
  BY DEF RowOf
<1>3. Packed(top) \in [1 .. Qpv -> Word]
  BY PackedWeight
<1>4. Doc(di) = Packed(top)
  <2>1. /\ n_vectors \in Nat /\ di \in Nat /\ di + 1 <= n_vectors /\ Qpv \in Nat \ {0}
        /\ Len(bitmaps) = n_vectors * Qpv /\ bitmaps \in Seq(Word)
    BY BitmapAssumption DEF Stored, Layout, Persistable
  <2>2. (di + 1) * Qpv <= Len(bitmaps)
    BY <2>1, Monotone
  <2>3. (di + 1) * Qpv = di * Qpv + Qpv /\ di * Qpv \in Nat
    BY <2>1
  <2> DEFINE m == di * Qpv + 1
             n == (di + 1) * Qpv
  <2>4. m \in 1 .. Len(bitmaps) + 1 /\ n \in m - 1 .. Len(bitmaps) /\ n - m + 1 = Qpv
    BY <2>1, <2>2, <2>3
  <2>5. /\ SubSeq(bitmaps, m, n) \in Seq(Word)
        /\ Len(SubSeq(bitmaps, m, n)) = n - m + 1
        /\ \A i \in 1 .. n - m + 1 : SubSeq(bitmaps, m, n)[i] = bitmaps[m + i - 1]
    BY <2>1, <2>4, SubSeqProperties
  <2>6. \A i \in 1 .. Qpv : m + i - 1 = di * Qpv + i
    BY <2>1, <2>3
  <2>7. Doc(di) = SubSeq(bitmaps, m, n)
    BY DEF Doc
  <2>8. DOMAIN Doc(di) = 1 .. Qpv /\ \A i \in 1 .. Qpv : Doc(di)[i] = Packed(top)[i]
    <3>1. Len(Doc(di)) = Qpv /\ Doc(di) \in Seq(Word)
      BY <2>4, <2>5, <2>7
    <3>2. DOMAIN Doc(di) = 1 .. Qpv
      BY <3>1, LenProperties
    <3>3. ASSUME NEW i \in 1 .. Qpv PROVE Doc(di)[i] = bitmaps[di * Qpv + i]
      <4> HIDE DEF m, n
      <4> QED BY <2>4, <2>5, <2>6, <2>7
    <3> QED BY <1>1, <1>2, <3>2, <3>3
  <2>9. Doc(di) = [i \in DOMAIN Doc(di) |-> Doc(di)[i]]
    BY <2>5, <2>7, SMTT(30)
  <2> QED BY <1>3, <2>8, <2>9
<1>5. Cardinality(top) = NTop
  BY TopSize
<1>6. Doc(di) \in [1 .. Qpv -> SUBSET (0 .. WordBits - 1)]
  BY <1>3, <1>4 DEF Word
<1>7. IsFiniteSet(1 .. Qpv) /\ IsFiniteSet(0 .. WordBits - 1)
  BY BitmapAssumption, FS_Interval
<1> DEFINE row == Doc(di)
<1> HIDE DEF row
<1>8. MapThenSumSet(LAMBDA w : Cardinality(row[w]), 1 .. Qpv)
        = Cardinality(Pairs(1 .. Qpv, 0 .. WordBits - 1, row))
  BY <1>6, <1>7, SumOfSizes DEF row
<1>9. Cardinality(Pairs(1 .. Qpv, 0 .. WordBits - 1, row)) = NTop
  BY <1>4, <1>5, PackedWeight DEF row
<1> QED BY <1>8, <1>9 DEF row

\* The place of word w of row di.
LEMMA WordPlace ==
  ASSUME NEW n \in Nat, NEW di \in 0 .. n - 1, NEW w \in 1 .. Qpv
  PROVE  /\ Qpv \in Nat \ {0} /\ di \in Nat /\ di * Qpv \in Nat /\ n * Qpv \in Nat
         /\ di * Qpv + w \in 1 .. n * Qpv
<1>1. Qpv \in Nat \ {0} /\ di \in Nat /\ di + 1 <= n
  BY BitmapAssumption
<1>2. (di + 1) * Qpv <= n * Qpv /\ (di + 1) * Qpv = di * Qpv + Qpv
  BY <1>1, Monotone
<1>3. di * Qpv \in Nat /\ n * Qpv \in Nat
  BY <1>1
<1> QED BY <1>1, <1>2, <1>3

\* A flat buffer of rows of words is a sequence of words.
LEMMA RowsAreWords ==
  ASSUME NEW n \in Nat, NEW s, s = [x \in 1 .. n * Qpv |-> s[x]],
         \A di \in 0 .. n - 1 : \E v \in Vector :
           \A w \in 1 .. Qpv : s[di * Qpv + w] = RowOf(v)[w]
  PROVE  s \in Seq(Word)
<1>1. Qpv \in Nat \ {0} /\ n * Qpv \in Nat
  BY BitmapAssumption
<1>2. ASSUME NEW x \in 1 .. n * Qpv PROVE s[x] \in Word
  <2> DEFINE di == (x - 1) \div Qpv
             e  == (x - 1) % Qpv
  <2>1. x - 1 \in Nat /\ x - 1 < n * Qpv
    <3> DEFINE last == n * Qpv
    <3>1. last \in Nat /\ x \in 1 .. last
      BY <1>1
    <3> HIDE DEF last
    <3>2. x - 1 \in Nat /\ x - 1 < last
      BY <3>1
    <3> QED BY <3>2 DEF last
  <2>2. di \in Nat /\ e \in 0 .. Qpv - 1 /\ x - 1 = di * Qpv + e
    <3> DEFINE y == x - 1
    <3>1. y \in Nat
      BY <2>1
    <3> HIDE DEF y
    <3>2. y \div Qpv \in Nat /\ y % Qpv \in 0 .. Qpv - 1 /\ y = (y \div Qpv) * Qpv + (y % Qpv)
      BY <1>1, <3>1, Divided
    <3> HIDE DEF di, e
    <3> QED BY <3>2 DEF y, di, e
  <2>3. ~ n <= di
    <3>1. n <= di => n * Qpv <= di * Qpv
      BY <1>1, <2>2, Monotone
    <3> HIDE DEF di, e
    <3>2. di * Qpv \in Nat
      BY <1>1, <2>2
    <3> QED BY <1>1, <2>1, <2>2, <3>1, <3>2
  <2> HIDE DEF di, e
  <2>4. di \in 0 .. n - 1 /\ e + 1 \in 1 .. Qpv
    BY <1>1, <2>2, <2>3
  <2>5. x = di * Qpv + (e + 1)
    <3>1. di * Qpv \in Nat
      BY <1>1, <2>2
    <3> QED BY <2>1, <2>2, <3>1
  <2>6. PICK v \in Vector : \A w \in 1 .. Qpv : s[di * Qpv + w] = RowOf(v)[w]
    BY <2>4
  <2>7. RowOf(v) \in [1 .. Qpv -> Word]
    BY PackedWeight DEF RowOf
  <2> QED BY <2>4, <2>5, <2>6, <2>7
<1>3. s \in [1 .. n * Qpv -> Word]
  BY <1>2
<1> QED BY <1>1, <1>3

\* The old words stay, and the new ones are those of the rows of the vectors.
LEMMA AddWords ==
  ASSUME Layout, NEW vs \in Additions, Add(vs)
  PROVE  /\ vs \in Seq(Vector) /\ Len(vs) \in Nat /\ n_vectors' = n_vectors + Len(vs)
         /\ bitmaps' = [x \in 1 .. n_vectors' * Qpv |-> bitmaps'[x]]
         /\ \A di \in 0 .. n_vectors - 1, w \in 1 .. Qpv :
              bitmaps'[di * Qpv + w] = bitmaps[di * Qpv + w]
         /\ \A i \in 1 .. Len(vs), w \in 1 .. Qpv :
              bitmaps'[(n_vectors + (i - 1)) * Qpv + w] = RowOf(vs[i])[w]
<1> DEFINE n == n_vectors
           new(x) == LET y == x - Len(bitmaps) - 1
                     IN  RowOf(vs[y \div Qpv + 1])[(y % Qpv) + 1]
<1>1. /\ vs \in Seq(Vector) /\ Len(vs) \in Nat /\ Qpv \in Nat \ {0}
      /\ n \in Nat /\ Len(bitmaps) = n * Qpv /\ n * Qpv \in Nat
  BY BitmapAssumption, LenProperties DEF Layout, Persistable
<1>2. n_vectors' = n + Len(vs) /\ (n + Len(vs)) * Qpv = n * Qpv + Len(vs) * Qpv
  BY <1>1 DEF Add
<1>3. /\ \A x \in 1 .. n * Qpv + Len(vs) * Qpv :
           bitmaps'[x] = IF x <= n * Qpv THEN bitmaps[x] ELSE new(x)
      /\ bitmaps' = [x \in 1 .. n * Qpv + Len(vs) * Qpv |-> bitmaps'[x]]
  BY <1>1 DEF Add
<1>4. ASSUME NEW di \in 0 .. n - 1, NEW w \in 1 .. Qpv
      PROVE  bitmaps'[di * Qpv + w] = bitmaps[di * Qpv + w]
  <2>1. di * Qpv + w \in 1 .. n * Qpv /\ Len(vs) * Qpv \in Nat
    BY <1>1, WordPlace
  <2>2. di * Qpv + w \in 1 .. n * Qpv + Len(vs) * Qpv /\ di * Qpv + w <= n * Qpv
    BY <1>1, <2>1
  <2> QED BY <1>3, <2>2
<1>5. ASSUME NEW i \in 1 .. Len(vs), NEW w \in 1 .. Qpv
      PROVE  bitmaps'[(n + (i - 1)) * Qpv + w] = RowOf(vs[i])[w]
  <2> DEFINE di == n + (i - 1)
             x == di * Qpv + w
             y == x - Len(bitmaps) - 1
  <2>1. i - 1 \in Nat /\ (i - 1) + 1 = i /\ di \in 0 .. n_vectors' - 1 /\ n_vectors' \in Nat
    BY <1>1, <1>2
  <2>2. di * Qpv = (i - 1) * Qpv + n * Qpv /\ (i - 1) * Qpv \in Nat
    BY <1>1, <2>1
  <2>3. w - 1 \in 0 .. Qpv - 1 /\ (w - 1) + 1 = w /\ w \in Nat
    BY <1>1
  <2>4. y = (i - 1) * Qpv + (w - 1) /\ ~ x <= n * Qpv
    BY <1>1, <2>2, <2>3
  <2>5. x \in 1 .. n * Qpv + Len(vs) * Qpv
    BY <1>2, <2>1, WordPlace
  <2>6. y \div Qpv = i - 1 /\ y % Qpv = w - 1
    <3>1. ((i - 1) * Qpv + (w - 1)) \div Qpv = i - 1
          /\ ((i - 1) * Qpv + (w - 1)) % Qpv = w - 1
      BY <1>1, <2>1, <2>3, CellOf
    <3> QED BY <2>4, <3>1
  <2>7. bitmaps'[x] = new(x)
    BY <1>3, <2>4, <2>5
  <2> QED BY <2>1, <2>3, <2>6, <2>7
<1> QED BY <1>1, <1>2, <1>3, <1>4, <1>5

\* An addition stores rows of the right weight.
LEMMA AddStored ==
  ASSUME Stored, NEW vs \in Additions, Add(vs)
  PROVE  Stored'
<1>1. Layout /\ Layout' /\ n_vectors \in Nat
  BY AddLayout DEF Stored, Layout
<1>2. /\ vs \in Seq(Vector) /\ Len(vs) \in Nat /\ n_vectors' = n_vectors + Len(vs)
      /\ bitmaps' = [x \in 1 .. n_vectors' * Qpv |-> bitmaps'[x]]
  BY <1>1, AddWords
<1>3. ASSUME NEW di \in 0 .. n_vectors' - 1
      PROVE  \E v \in Vector : \A w \in 1 .. Qpv : bitmaps'[di * Qpv + w] = RowOf(v)[w]
  <2>1. CASE di < n_vectors
    <3>1. di \in 0 .. n_vectors - 1
      BY <1>1, <2>1
    <3>2. PICK v \in Vector : \A w \in 1 .. Qpv : bitmaps[di * Qpv + w] = RowOf(v)[w]
      BY <3>1 DEF Stored
    <3>3. \A w \in 1 .. Qpv : bitmaps'[di * Qpv + w] = bitmaps[di * Qpv + w]
      BY <1>1, <3>1, AddWords
    <3> QED BY <3>2, <3>3
  <2>2. CASE n_vectors <= di
    <3> DEFINE i == (di - n_vectors) + 1
    <3>1. i \in 1 .. Len(vs) /\ di = n_vectors + (i - 1)
      BY <1>1, <1>2, <2>2
    <3>2. vs[i] \in Vector
      BY <1>2, <3>1, ElementOfSeq
    <3> HIDE DEF i
    <3>3. \A w \in 1 .. Qpv : bitmaps'[(n_vectors + (i - 1)) * Qpv + w] = RowOf(vs[i])[w]
      BY <1>1, <3>1, AddWords
    <3> QED BY <3>1, <3>2, <3>3
  <2>3. di < n_vectors \/ n_vectors <= di
    BY <1>1, <1>2
  <2> QED BY <2>1, <2>2, <2>3
<1>4. bitmaps' \in Seq(Word)
  <2>1. n_vectors' \in Nat
    BY <1>1, <1>2
  <2> QED BY <1>2, <1>3, <2>1, RowsAreWords
<1> QED BY <1>1, <1>3, <1>4 DEF Stored

\* The words of the last row are found at the row that went, the others stay.
LEMMA SwapRemoveWords ==
  ASSUME Layout, NEW idx \in 0 .. n_vectors - 1, SwapRemove(idx)
  PROVE  /\ n_vectors \in Nat /\ n_vectors' = n_vectors - 1 /\ n_vectors' \in Nat
         /\ bitmaps' = [x \in 1 .. n_vectors' * Qpv |-> bitmaps'[x]]
         /\ \A di \in 0 .. n_vectors' - 1, w \in 1 .. Qpv :
              bitmaps'[di * Qpv + w] =
                bitmaps[(IF di = idx THEN n_vectors - 1 ELSE di) * Qpv + w]
<1> DEFINE last == n_vectors - 1
           dst  == idx * Qpv
<1>1. Qpv \in Nat \ {0} /\ last \in Nat /\ idx \in Nat /\ last \in 0 .. n_vectors - 1
  BY BitmapAssumption DEF Layout
<1>2. /\ n_vectors' = last
      /\ DOMAIN bitmaps' = 1 .. last * Qpv
      /\ bitmaps' = [x \in 1 .. last * Qpv |-> bitmaps'[x]]
      /\ \A x \in 1 .. last * Qpv :
           bitmaps'[x] = IF x - 1 \in dst .. dst + Qpv - 1
                         THEN bitmaps[last * Qpv + (x - dst)] ELSE bitmaps[x]
  BY DEF SwapRemove
<1>3. ASSUME NEW di \in 0 .. last - 1, NEW w \in 1 .. Qpv
      PROVE  bitmaps'[di * Qpv + w] =
               bitmaps[(IF di = idx THEN last ELSE di) * Qpv + w]
  <2>1. /\ di * Qpv + w \in 1 .. last * Qpv /\ di * Qpv \in Nat /\ di \in Nat
        /\ w - 1 \in 0 .. Qpv - 1
        /\ (di * Qpv + w) - 1 = di * Qpv + (w - 1)
    BY <1>1, WordPlace
  <2>2. di * Qpv + (w - 1) \in idx * Qpv .. (idx + 1) * Qpv - 1 <=> di \in idx .. (idx + 1) - 1
    BY <1>1, <2>1, CellIn, idx + 1 \in Nat
  <2>3. (idx + 1) * Qpv = dst + Qpv /\ (di \in idx .. (idx + 1) - 1 <=> di = idx)
        /\ dst \in Nat
    BY <1>1, <2>1
  <2>4. bitmaps'[di * Qpv + w] = IF di = idx THEN bitmaps[last * Qpv + ((di * Qpv + w) - dst)]
                                 ELSE bitmaps[di * Qpv + w]
    <3> DEFINE x == di * Qpv + w
    <3>1. bitmaps'[x] = IF x - 1 \in dst .. dst + Qpv - 1
                        THEN bitmaps[last * Qpv + (x - dst)] ELSE bitmaps[x]
      BY <1>2, <2>1
    <3>2. x - 1 \in dst .. dst + Qpv - 1 <=> di = idx
      <4> HIDE DEF dst
      <4>1. x - 1 = di * Qpv + (w - 1)
        BY <2>1
      <4>2. x - 1 \in dst .. (dst + Qpv) - 1 <=> di = idx
        BY <2>2, <2>3, <4>1 DEF dst
      <4>3. dst + Qpv - 1 = (dst + Qpv) - 1
        BY <1>1, <2>3
      <4> QED BY <4>2, <4>3
    <3> HIDE DEF x
    <3> QED BY <3>1, <3>2 DEF x
  <2>5. di = idx => (di * Qpv + w) - dst = w
    BY <2>1, <2>3
  <2> QED BY <2>4, <2>5
<1> QED BY <1>1, <1>2, <1>3 DEF Layout

\* A removal moves rows as they are.
LEMMA SwapRemoveStored ==
  ASSUME Stored, NEW idx \in 0 .. n_vectors - 1, SwapRemove(idx)
  PROVE  Stored'
<1>1. Layout /\ Layout'
  BY SwapRemoveLayout DEF Stored
<1>2. /\ n_vectors \in Nat /\ n_vectors' = n_vectors - 1 /\ n_vectors' \in Nat
      /\ bitmaps' = [x \in 1 .. n_vectors' * Qpv |-> bitmaps'[x]]
  BY <1>1, SwapRemoveWords
<1>3. ASSUME NEW di \in 0 .. n_vectors' - 1
      PROVE  \E v \in Vector : \A w \in 1 .. Qpv : bitmaps'[di * Qpv + w] = RowOf(v)[w]
  <2> DEFINE from == IF di = idx THEN n_vectors - 1 ELSE di
  <2>1. from \in 0 .. n_vectors - 1
    BY <1>2
  <2>2. \A w \in 1 .. Qpv : bitmaps'[di * Qpv + w] = bitmaps[from * Qpv + w]
    BY <1>1, SwapRemoveWords
  <2> HIDE DEF from
  <2>3. PICK v \in Vector : \A w \in 1 .. Qpv : bitmaps[from * Qpv + w] = RowOf(v)[w]
    BY <2>1 DEF Stored
  <2> QED BY <2>2, <2>3
<1>4. bitmaps' \in Seq(Word)
  BY <1>2, <1>3, RowsAreWords
<1> QED BY <1>1, <1>3, <1>4 DEF Stored

\* Every step keeps the invariant of the buffer.
LEMMA StoredStep == Stored /\ [Next]_vars => Stored'
<1> SUFFICES ASSUME Stored, [Next]_vars PROVE Stored'
  OBVIOUS
<1>1. CASE \E vs \in Additions : Add(vs)
  BY <1>1, AddStored
<1>2. CASE \E idx \in 0 .. n_vectors - 1 : SwapRemove(idx)
  BY <1>2, SwapRemoveStored
<1>3. CASE UNCHANGED index
  BY <1>3 DEF index, Stored, Layout, Persistable
<1>4. CASE UNCHANGED vars
  BY <1>3, <1>4 DEF vars, index
<1> QED BY <1>1, <1>2, <1>3, <1>4, OthersKeepIndex

\* Every stored row has exactly n_top bits, for every word size and dimension,
\* every list of vectors and any sequence of additions and removals.
THEOREM RowsAreWeighted == Spec => []ConstantWeight
<1>1. Init => Stored
  <2> SUFFICES ASSUME Init PROVE Stored
    OBVIOUS
  <2>1. bitmaps = <<>> /\ n_vectors = 0
    BY DEF Init
  <2> QED BY <2>1, BitmapAssumption DEF Stored, Layout, Persistable
<1>2. Stored /\ [Next]_vars => Stored'
  BY StoredStep
<1> QED BY <1>1, <1>2, StoredWeight, PTL DEF Spec

-----------------------------------------------------------------------------
(* The rows as sets of coordinates.                                        *)

\* What is below an element is below everything above it.
LEMMA LowerRank ==
  ASSUME NEW S, IsFiniteSet(S), NEW R, IsStrictOrder(R, S),
         NEW x \in S, NEW y \in S, <<x, y>> \in R
  PROVE  Cardinality(Below(x, R, S)) < Cardinality(Below(y, R, S))
<1>1. Below(x, R, S) \subseteq S /\ Below(y, R, S) \subseteq S
  BY DEF Below
<1>2. /\ IsFiniteSet(Below(x, R, S)) /\ Cardinality(Below(x, R, S)) \in Nat
      /\ IsFiniteSet(Below(y, R, S)) /\ Cardinality(Below(y, R, S)) \in Nat
  BY <1>1, FS_Subset, FS_CardinalityType
<1>3. x \notin Below(x, R, S) /\ Below(x, R, S) \cup {x} \subseteq Below(y, R, S)
  BY DEF Below, IsStrictOrder
<1>4. Cardinality(Below(x, R, S) \cup {x}) = Cardinality(Below(x, R, S)) + 1
  BY <1>2, <1>3, FS_AddElement
<1>5. Cardinality(Below(x, R, S) \cup {x}) <= Cardinality(Below(y, R, S))
  BY <1>2, <1>3, FS_Subset
<1> QED BY <1>2, <1>4, <1>5

\* A rank is less than the number of elements.
LEMMA RankRange ==
  ASSUME NEW S, IsFiniteSet(S), NEW R, IsStrictOrder(R, S), NEW x \in S
  PROVE  Cardinality(Below(x, R, S)) \in 0 .. Cardinality(S) - 1
<1>1. Below(x, R, S) \subseteq S \ {x}
  BY DEF Below, IsStrictOrder
<1>2. IsFiniteSet(S \ {x}) /\ Cardinality(S \ {x}) = Cardinality(S) - 1
  BY FS_RemoveElement
<1>3. IsFiniteSet(Below(x, R, S)) /\ Cardinality(Below(x, R, S)) <= Cardinality(S) - 1
  BY <1>1, <1>2, FS_Subset
<1>4. Cardinality(Below(x, R, S)) \in Nat /\ Cardinality(S) \in Nat
  BY <1>3, FS_CardinalityType
<1> QED BY <1>3, <1>4

\* There are as many elements of rank less than n as there are ranks.
LEMMA FirstOnes ==
  ASSUME NEW S, IsFiniteSet(S), NEW R, IsStrictOrder(R, S), NEW n \in 1 .. Cardinality(S)
  PROVE  Cardinality({x \in S : Cardinality(Below(x, R, S)) < n}) = n
<1> DEFINE rank(x) == Cardinality(Below(x, R, S))
           first == {x \in S : rank(x) < n}
           ranks == 0 .. n - 1
           f == [x \in first |-> rank(x)]
<1>1. Cardinality(S) \in Nat /\ n \in Nat /\ n - 1 \in Nat /\ n <= Cardinality(S)
  BY FS_CardinalityType
<1>2. f \in [first -> ranks]
  <2>1. \A x \in first : rank(x) \in ranks
    <3> SUFFICES ASSUME NEW x \in first PROVE rank(x) \in ranks
      OBVIOUS
    <3>1. rank(x) \in 0 .. Cardinality(S) - 1 /\ rank(x) < n
      BY RankRange
    <3> HIDE DEF rank
    <3> QED BY <1>1, <3>1
  <2> QED BY <2>1
<1>3. \A x, y \in first : f[x] = f[y] => x = y
  <2>1. 0 \in 0 .. Cardinality(S) - 1
    BY <1>1
  <2> QED BY <2>1, Ranked
<1>4. ASSUME NEW r \in ranks PROVE \E x \in first : f[x] = r
  <2>1. r \in 0 .. Cardinality(S) - 1 /\ r < n
    BY <1>1
  <2>2. PICK x \in S : rank(x) = r
    BY <2>1, Ranked
  <2> QED BY <2>1, <2>2
<1>5. IsFiniteSet(first) /\ IsFiniteSet(ranks) /\ Cardinality(ranks) = n
  <2>1. first \subseteq S
    OBVIOUS
  <2>2. 0 \in Int /\ n - 1 \in Int /\ ~ 0 > n - 1 /\ (n - 1) - 0 + 1 = n
    BY <1>1
  <2>3. IsFiniteSet(ranks) /\ Cardinality(ranks) = n
    BY <2>2, FS_Interval
  <2> QED BY <2>1, <2>3, FS_Subset
<1> HIDE DEF f, first, ranks
<1>6. f \in Injection(first, ranks) /\ f \in Surjection(first, ranks)
  BY <1>2, <1>3, <1>4 DEF Injection, IsInjective, Surjection
<1>7. ExistsBijection(first, ranks)
  BY <1>6 DEF ExistsBijection, Bijection
<1>8. Cardinality(first) = n
  BY <1>5, <1>7, FS_Bijection
<1> QED BY <1>8 DEF first

\* S is a set of size coordinates that are all before the others.
Leads(S, R, size) ==
  /\ S \in SUBSET Coords /\ Cardinality(S) = size
  /\ \A i \in S, j \in Coords \ S : <<i, j>> \in R

\* There is only one.
LEMMA OneLeads ==
  ASSUME NEW R, IsStrictOrder(R, Coords), NEW size, NEW A, NEW B,
         Leads(A, R, size), Leads(B, R, size)
  PROVE  A = B
<1>1. dim \in Nat /\ IsFiniteSet(Coords)
  BY BitmapAssumption, FS_Interval DEF dim, Coords
<1>2. IsFiniteSet(A) /\ IsFiniteSet(B) /\ A \subseteq Coords /\ B \subseteq Coords
  BY <1>1, FS_Subset DEF Leads
<1>3. ~ (\E i \in A : i \notin B) \/ ~ (\E j \in B : j \notin A)
  <2> SUFFICES ASSUME NEW i \in A, i \notin B, NEW j \in B, j \notin A
               PROVE  FALSE
    OBVIOUS
  <2>1. <<i, j>> \in R /\ <<j, i>> \in R
    BY <1>2 DEF Leads
  <2> QED BY <1>2, <2>1 DEF IsStrictOrder
<1>4. A \subseteq B \/ B \subseteq A
  BY <1>3
<1> QED BY <1>2, <1>4, FS_Subset DEF Leads

\* The order in which the coordinates of v lead: by value, descending, and equal
\* ones as in wins, a set of pairs.
By(v, wins) ==
  {p \in Coords \X Coords :
     v[p[1] + 1] > v[p[2] + 1] \/ (v[p[1] + 1] = v[p[2] + 1] /\ p \in wins)}

Up   == {p \in Coords \X Coords : p[1] < p[2]}
Down == {p \in Coords \X Coords : p[1] > p[2]}

\* The coordinates are a finite set of more than NTop.
LEMMA CoordsFinite ==
  /\ dim \in Nat /\ NTop \in Nat /\ 1 <= NTop /\ NTop < dim
  /\ IsFiniteSet(Coords) /\ Cardinality(Coords) = dim
  /\ \A v \in Vector, i \in Coords : v[i + 1] \in Int /\ i \in Nat
<1>1. dim \in Nat /\ NTop \in Nat /\ 1 <= NTop /\ NTop < dim
  BY BitmapAssumption DEF dim
<1>2. IsFiniteSet(Coords) /\ Cardinality(Coords) = dim
  <2>1. dim - 1 \in Int /\ 0 \in Int /\ ~ 0 > dim - 1 /\ (dim - 1) - 0 + 1 = dim
    BY <1>1
  <2> QED BY <2>1, FS_Interval DEF Coords
<1>3. ASSUME NEW v \in Vector, NEW i \in Coords PROVE v[i + 1] \in Int /\ i \in Nat
  <2>1. i + 1 \in 1 .. dim /\ i \in Nat
    BY <1>1 DEF Coords
  <2> QED BY <2>1 DEF Vector
<1> QED BY <1>1, <1>2, <1>3

\* By value, ties by coordinate either way, is a strict order.
LEMMA ByOrders ==
  ASSUME NEW v \in Vector, NEW wins, wins = Up \/ wins = Down
  PROVE  IsStrictOrder(By(v, wins), Coords)
<1>1. \A i \in Coords : v[i + 1] \in Int /\ i \in Int
  BY CoordsFinite
<1>2. \A i, j \in Coords : <<i, j>> \in By(v, wins) <=>
        v[i + 1] > v[j + 1] \/ (v[i + 1] = v[j + 1] /\ IF wins = Up THEN i < j ELSE i > j)
  <2>1. \A i, j \in Coords : /\ <<i, j>> \in Up <=> i < j
                             /\ <<i, j>> \in Down <=> i > j
    BY DEF Up, Down
  <2> QED BY <2>1 DEF By
<1>3. ASSUME NEW i \in Coords PROVE <<i, i>> \notin By(v, wins)
  BY <1>1, <1>2
<1>4. ASSUME NEW i \in Coords, NEW j \in Coords
      PROVE  i = j \/ <<i, j>> \in By(v, wins) \/ <<j, i>> \in By(v, wins)
  BY <1>1, <1>2
<1>5. ASSUME NEW i \in Coords, NEW j \in Coords, NEW k \in Coords,
             <<i, j>> \in By(v, wins), <<j, k>> \in By(v, wins)
      PROVE  <<i, k>> \in By(v, wins)
  BY <1>1, <1>2, <1>5
<1> QED BY <1>3, <1>4, <1>5 DEF IsStrictOrder

\* The coordinates a query keeps.
Foremost(q) == {j \in Coords : Cardinality(Below(j, By(q, Up), Coords)) < NTop}

\* The coordinates of the first NTop places are ahead of all others.
LEMMA ForemostLead == ASSUME NEW q \in Vector PROVE Leads(Foremost(q), By(q, Up), NTop)
<1>1. IsStrictOrder(By(q, Up), Coords) /\ IsFiniteSet(Coords)
  BY ByOrders, CoordsFinite
<1>2. Cardinality(Foremost(q)) = NTop
  <2>1. NTop \in 1 .. Cardinality(Coords)
    BY CoordsFinite
  <2> QED BY <1>1, <2>1, FirstOnes DEF Foremost
<1>3. ASSUME NEW i \in Foremost(q), NEW j \in Coords \ Foremost(q) PROVE <<i, j>> \in By(q, Up)
  <2> DEFINE rank(x) == Cardinality(Below(x, By(q, Up), Coords))
  <2>1. rank(i) < NTop /\ ~ rank(j) < NTop /\ i \in Coords /\ j \in Coords /\ i # j
    BY DEF Foremost
  <2>2. rank(i) \in Nat /\ rank(j) \in Nat /\ NTop \in Nat
    BY <1>1, <2>1, RankRange, CoordsFinite
  <2>3. <<j, i>> \in By(q, Up) => rank(j) < rank(i)
    BY <1>1, <2>1, LowerRank
  <2> HIDE DEF rank
  <2>4. <<j, i>> \notin By(q, Up)
    BY <2>1, <2>2, <2>3
  <2> QED BY <1>1, <2>1, <2>4 DEF IsStrictOrder
<1> QED BY <1>2, <1>3 DEF Leads, Foremost

\* They are the greatest, ties by ascending coordinate.
LEMMA TopIsForemost == ASSUME NEW q \in Vector PROVE TopOf(q) = Foremost(q)
<1> DEFINE Fits(S) == \A i \in S, j \in Coords \ S :
             q[i + 1] > q[j + 1] \/ (q[i + 1] = q[j + 1] /\ i < j)
           top == CHOOSE S \in kSubset(NTop, Coords) : Fits(S)
<1>1. TopOf(q) = top
  BY DEF TopOf, Greatest
<1>2. ASSUME NEW S PROVE S \in kSubset(NTop, Coords) /\ Fits(S) <=> Leads(S, By(q, Up), NTop)
  BY DEF kSubset, Leads, By, Up
<1>3. top \in kSubset(NTop, Coords) /\ Fits(top)
  <2>1. Leads(Foremost(q), By(q, Up), NTop)
    BY ForemostLead
  <2> HIDE DEF Fits
  <2> QED BY <1>2, <2>1
<1> HIDE DEF top, Fits
<1> QED BY <1>1, <1>2, <1>3, ForemostLead, OneLeads, ByOrders

\* The coordinates that are kept of a document.
Kept(v) == {j \in Coords : RankTransform(v)[j] >= dim - NTop}

\* The coordinates of the NTop highest ranks are ahead of all others.
LEMMA KeptLeads == ASSUME NEW v \in Vector PROVE Leads(Kept(v), By(v, Down), NTop)
<1> DEFINE R == {p \in Coords \X Coords : <<p[2], p[1]>> \in By(v, Down)}
           rank(j) == Cardinality(Below(j, R, Coords))
<1>1. IsStrictOrder(By(v, Down), Coords) /\ IsFiniteSet(Coords)
  BY ByOrders, CoordsFinite
<1>2. \A i, j \in Coords : <<i, j>> \in R <=> <<j, i>> \in By(v, Down)
  OBVIOUS
<1>3. ASSUME NEW j \in Coords PROVE RankTransform(v)[j] = rank(j)
  <2>1. ASSUME NEW i \in Coords
        PROVE  i \in Below(j, R, Coords) <=> v[i + 1] < v[j + 1] \/ (v[i + 1] = v[j + 1] /\ i < j)
    <3>1. v[i + 1] \in Int /\ v[j + 1] \in Int /\ i \in Int /\ j \in Int
      BY CoordsFinite
    <3>2. i \in Below(j, R, Coords) <=> <<j, i>> \in By(v, Down)
      BY <1>2 DEF Below
    <3>3. <<j, i>> \in By(v, Down) <=> v[j + 1] > v[i + 1] \/ (v[j + 1] = v[i + 1] /\ j > i)
      BY DEF By, Down
    <3> QED BY <3>1, <3>2, <3>3
  <2>2. Below(j, R, Coords) = {i \in Coords : v[i + 1] < v[j + 1] \/ (v[i + 1] = v[j + 1] /\ i < j)}
    <3>1. Below(j, R, Coords) \subseteq Coords
      BY DEF Below
    <3> HIDE DEF R
    <3> QED BY <2>1, <3>1
  <2> QED BY <2>2 DEF RankTransform
<1> HIDE DEF R
<1>4. IsStrictOrder(R, Coords)
  BY <1>1, <1>2 DEF IsStrictOrder
<1>5. Cardinality(Kept(v)) = NTop
  BY TopSize DEF Kept
<1>6. ASSUME NEW i \in Kept(v), NEW j \in Coords \ Kept(v) PROVE <<i, j>> \in By(v, Down)
  <2>1. rank(i) >= dim - NTop /\ ~ rank(j) >= dim - NTop /\ i \in Coords /\ j \in Coords /\ i # j
    BY <1>3 DEF Kept
  <2>2. rank(i) \in Nat /\ rank(j) \in Nat /\ NTop \in Nat /\ dim \in Nat
    BY <1>1, <1>4, <2>1, RankRange, CoordsFinite
  <2>3. <<i, j>> \in R => rank(i) < rank(j)
    BY <1>1, <1>4, <2>1, LowerRank
  <2> HIDE DEF rank
  <2>4. <<i, j>> \notin R
    BY <2>1, <2>2, <2>3
  <2> QED BY <1>2, <1>4, <2>1, <2>4 DEF IsStrictOrder
<1> QED BY <1>5, <1>6 DEF Leads, Kept

\* They are the greatest, ties by descending coordinate.
LEMMA BodyIsKept == ASSUME NEW v \in Vector PROVE Body(v) = Kept(v)
<1> DEFINE Fits(S) == \A i \in S, j \in Coords \ S :
             v[i + 1] > v[j + 1] \/ (v[i + 1] = v[j + 1] /\ i > j)
           top == CHOOSE S \in kSubset(NTop, Coords) : Fits(S)
<1>1. Body(v) = top
  BY DEF Body, Greatest
<1>2. ASSUME NEW S PROVE S \in kSubset(NTop, Coords) /\ Fits(S) <=> Leads(S, By(v, Down), NTop)
  BY DEF kSubset, Leads, By, Down
<1>3. top \in kSubset(NTop, Coords) /\ Fits(top)
  <2>1. Leads(Kept(v), By(v, Down), NTop)
    BY KeptLeads
  <2> HIDE DEF Fits
  <2> QED BY <1>2, <2>1
<1> HIDE DEF top, Fits
<1> QED BY <1>1, <1>2, <1>3, KeptLeads, OneLeads, ByOrders

-----------------------------------------------------------------------------
(* What the words of a row have in common with those of a query.           *)

\* The coordinates whose bits are set in a row of words.
Unpacked(row) == {j \in Coords : j % WordBits \in row[j \div WordBits + 1]}

\* A coordinate is one bit of one word.
LEMMA BitOf ==
  ASSUME NEW j \in Coords, NEW q, q = j \div WordBits, NEW r, r = j % WordBits
  PROVE  q + 1 \in 1 .. Qpv /\ r \in 0 .. WordBits - 1 /\ ((q + 1) - 1) * WordBits + r = j
<1>1. WordBits \in Nat \ {0} /\ Qpv \in Nat \ {0} /\ j \in Nat /\ j < Qpv * WordBits
  BY BitmapAssumption DEF Coords, dim
<1>2. q \in Nat /\ r \in 0 .. WordBits - 1 /\ j = q * WordBits + r
  BY <1>1, Divided
<1>3. ~ Qpv <= q
  <2>1. Qpv <= q => Qpv * WordBits <= q * WordBits
    BY <1>1, <1>2, Monotone
  <2>2. q * WordBits \in Nat /\ Qpv * WordBits \in Nat
    BY <1>1, <1>2
  <2> QED BY <1>1, <1>2, <2>1, <2>2
<1>4. q + 1 \in 1 .. Qpv /\ (q + 1) - 1 = q
  BY <1>1, <1>2, <1>3
<1> QED BY <1>2, <1>4

\* A bit of a word is one coordinate.
LEMMA CoordOf ==
  ASSUME NEW w \in 1 .. Qpv, NEW b \in 0 .. WordBits - 1
  PROVE  /\ (w - 1) * WordBits + b \in Coords
         /\ ((w - 1) * WordBits + b) \div WordBits + 1 = w
         /\ ((w - 1) * WordBits + b) % WordBits = b
<1>1. WordBits \in Nat \ {0} /\ Qpv \in Nat \ {0} /\ w - 1 \in Nat /\ (w - 1) + 1 = w
      /\ b \in Nat /\ w <= Qpv /\ w \in Nat
  BY BitmapAssumption
<1>2. w * WordBits <= Qpv * WordBits /\ w * WordBits = (w - 1) * WordBits + WordBits
  BY <1>1, Monotone
<1>3. (w - 1) * WordBits \in Nat /\ Qpv * WordBits \in Nat /\ dim = Qpv * WordBits
  BY <1>1 DEF dim
<1>4. (w - 1) * WordBits + b \in Coords
  BY <1>1, <1>2, <1>3 DEF Coords
<1> QED BY <1>1, <1>4, CellOf

\* A set of coordinates is read back from its words.
LEMMA UnpackPacked == ASSUME NEW S \in SUBSET Coords PROVE Unpacked(Packed(S)) = S
<1>1. ASSUME NEW j \in Coords PROVE j \in Unpacked(Packed(S)) <=> j \in S
  <2> DEFINE q == j \div WordBits
             b == j % WordBits
             w == q + 1
  <2>2. j \in Unpacked(Packed(S)) <=> b \in Packed(S)[w]
    BY DEF Unpacked
  <2>1. w \in 1 .. Qpv /\ b \in 0 .. WordBits - 1 /\ (w - 1) * WordBits + b = j
    <3>1. q = j \div WordBits /\ b = j % WordBits
      OBVIOUS
    <3> HIDE DEF q, b
    <3> QED BY <3>1, BitOf
  <2> HIDE DEF w, b
  <2>3. Packed(S)[w] = {e \in 0 .. WordBits - 1 : (w - 1) * WordBits + e \in S}
    BY <2>1 DEF Packed
  <2> QED BY <2>1, <2>2, <2>3
<1> QED BY <1>1 DEF Unpacked

\* Words are those of the coordinates read from them.
LEMMA PackUnpacked == ASSUME NEW row \in [1 .. Qpv -> Word] PROVE Packed(Unpacked(row)) = row
<1>1. ASSUME NEW w \in 1 .. Qpv
      PROVE  {b \in 0 .. WordBits - 1 : (w - 1) * WordBits + b \in Unpacked(row)} = row[w]
  <2>1. row[w] \subseteq 0 .. WordBits - 1
    BY DEF Word
  <2>2. ASSUME NEW b \in 0 .. WordBits - 1
        PROVE  (w - 1) * WordBits + b \in Unpacked(row) <=> b \in row[w]
    BY CoordOf DEF Unpacked
  <2> QED BY <2>1, <2>2
<1> QED BY <1>1 DEF Packed

\* Row di is a row of words.
LEMMA DocIsRow ==
  ASSUME Stored, NEW di \in 0 .. n_vectors - 1
  PROVE  /\ Doc(di) \in [1 .. Qpv -> Word]
         /\ \A w \in 1 .. Qpv : Doc(di)[w] = bitmaps[di * Qpv + w]
<1>1. /\ n_vectors \in Nat /\ di \in Nat /\ di + 1 <= n_vectors /\ Qpv \in Nat \ {0}
      /\ Len(bitmaps) = n_vectors * Qpv /\ bitmaps \in Seq(Word)
  BY BitmapAssumption DEF Stored, Layout, Persistable
<1>2. (di + 1) * Qpv <= Len(bitmaps)
  BY <1>1, Monotone
<1>3. (di + 1) * Qpv = di * Qpv + Qpv /\ di * Qpv \in Nat
  BY <1>1
<1> DEFINE m == di * Qpv + 1
           n == (di + 1) * Qpv
<1>4. m \in 1 .. Len(bitmaps) + 1 /\ n \in m - 1 .. Len(bitmaps) /\ n - m + 1 = Qpv
  BY <1>1, <1>2, <1>3
<1>5. /\ SubSeq(bitmaps, m, n) \in Seq(Word)
      /\ Len(SubSeq(bitmaps, m, n)) = n - m + 1
      /\ \A i \in 1 .. n - m + 1 : SubSeq(bitmaps, m, n)[i] = bitmaps[m + i - 1]
  BY <1>1, <1>4, SubSeqProperties
<1>6. \A i \in 1 .. Qpv : m + i - 1 = di * Qpv + i
  BY <1>1, <1>3
<1>7. Doc(di) = SubSeq(bitmaps, m, n)
  BY DEF Doc
<1> HIDE DEF m, n
<1>8. Len(Doc(di)) = Qpv /\ Doc(di) \in Seq(Word)
  BY <1>4, <1>5, <1>7
<1>9. Doc(di) \in [1 .. Qpv -> Word]
  BY <1>8
<1> QED BY <1>4, <1>5, <1>6, <1>7, <1>9

\* The popcount is a sum of sizes of sets.
LEMMA PopcountSums ==
  ASSUME NEW row \in [1 .. Qpv -> Word], NEW words
  PROVE  AndPopcount(row, words) =
           Cardinality(Pairs(1 .. Qpv, 0 .. WordBits - 1, [w \in 1 .. Qpv |-> row[w] \cap words[w]]))
<1> DEFINE F == [w \in 1 .. Qpv |-> row[w] \cap words[w]]
           S == 1 .. Qpv
           some(s) == CHOOSE x \in s : TRUE
           G(f) == [s \in SUBSET S |->
                      IF s = {} THEN 0
                      ELSE Cardinality(row[some(s)] \cap words[some(s)]) + f[s \ {some(s)}]]
           H(f) == [s \in SUBSET S |->
                      IF s = {} THEN 0 ELSE Cardinality(F[some(s)]) + f[s \ {some(s)}]]
<1>1. AndPopcount(row, words) = (CHOOSE f : f = G(f))[S]
  BY DEF AndPopcount, MapThenSumSet, MapThenFoldSet
<1>2. MapThenSumSet(LAMBDA w : Cardinality(F[w]), S) = (CHOOSE f : f = H(f))[S]
  BY DEF MapThenSumSet, MapThenFoldSet
<1>3. ASSUME NEW f PROVE G(f) = H(f)
  <2>1. ASSUME NEW s \in SUBSET S, s # {}
        PROVE  row[some(s)] \cap words[some(s)] = F[some(s)]
    <3>1. some(s) \in s
      BY <2>1
    <3>2. some(s) \in 1 .. Qpv
      BY <3>1
    <3> HIDE DEF some
    <3> QED BY <3>2
  <2> HIDE DEF some
  <2> QED BY <2>1
<1> HIDE DEF G, H
<1>4. (CHOOSE f : f = G(f)) = (CHOOSE f : f = H(f))
  BY <1>3
<1>5. MapThenSumSet(LAMBDA w : Cardinality(F[w]), S)
        = Cardinality(Pairs(S, 0 .. WordBits - 1, F))
  <2>1. IsFiniteSet(S) /\ IsFiniteSet(0 .. WordBits - 1) /\ F \in [S -> SUBSET (0 .. WordBits - 1)]
    <3>1. F \in [1 .. Qpv -> SUBSET (0 .. WordBits - 1)]
      BY DEF Word
    <3>2. IsFiniteSet(1 .. Qpv) /\ IsFiniteSet(0 .. WordBits - 1)
      BY BitmapAssumption, FS_Interval
    <3> QED BY <3>1, <3>2
  <2> HIDE DEF S, F
  <2> QED BY <2>1, SumOfSizes
<1> QED BY <1>1, <1>2, <1>4, <1>5

\* The popcount of two rows of words is the number of coordinates they share.
LEMMA PopcountCounts ==
  ASSUME NEW row \in [1 .. Qpv -> Word], NEW top \in SUBSET Coords
  PROVE  AndPopcount(row, Packed(top)) = Cardinality(top \cap Unpacked(row))
<1> DEFINE F == [w \in 1 .. Qpv |-> row[w] \cap Packed(top)[w]]
           both == top \cap Unpacked(row)
<1>1. F = Packed(both)
  <2>1. ASSUME NEW w \in 1 .. Qpv
        PROVE  row[w] \cap Packed(top)[w]
                 = {b \in 0 .. WordBits - 1 : (w - 1) * WordBits + b \in both}
    <3>1. row[w] = {b \in 0 .. WordBits - 1 : (w - 1) * WordBits + b \in Unpacked(row)}
      BY PackUnpacked DEF Packed
    <3>2. Packed(top)[w] = {b \in 0 .. WordBits - 1 : (w - 1) * WordBits + b \in top}
      BY DEF Packed
    <3> QED BY <3>1, <3>2
  <2> QED BY <2>1 DEF Packed
<1>2. both \in SUBSET Coords
  OBVIOUS
<1> HIDE DEF both
<1>3. F \in [1 .. Qpv -> Word]
      /\ Cardinality(Pairs(1 .. Qpv, 0 .. WordBits - 1, F)) = Cardinality(both)
  BY <1>1, <1>2, PackedWeight
<1>4. AndPopcount(row, Packed(top)) = Cardinality(Pairs(1 .. Qpv, 0 .. WordBits - 1, F))
  BY PopcountSums
<1> QED BY <1>3, <1>4 DEF both

\* The bitmap of a query packs its greatest coordinates.
LEMMA QueryIsTop == ASSUME NEW q \in Vector PROVE QueryBitmap(q) = Packed(TopOf(q))
<1>1. ASSUME NEW j \in Coords
      PROVE  Below(j, By(q, Up), Coords) =
               {i \in Coords : q[i + 1] > q[j + 1] \/ (q[i + 1] = q[j + 1] /\ i < j)}
  BY DEF Below, By, Up
<1>2. QueryBitmap(q) = Packed({j \in Coords :
        Cardinality({i \in Coords : q[i + 1] > q[j + 1] \/ (q[i + 1] = q[j + 1] /\ i < j)}) < NTop})
  BY DEF QueryBitmap
<1>3. {j \in Coords :
        Cardinality({i \in Coords : q[i + 1] > q[j + 1] \/ (q[i + 1] = q[j + 1] /\ i < j)}) < NTop}
        = Foremost(q)
  BY <1>1 DEF Foremost
<1> QED BY <1>2, <1>3, TopIsForemost

\* The row of a document packs its greatest coordinates.
LEMMA RowIsBody ==
  ASSUME NEW v \in Vector
  PROVE  RowOf(v) = Packed(Body(v)) /\ Body(v) \in SUBSET Coords
BY BodyIsKept DEF RowOf, Kept

\* The score of a document is what the store calls its overlap, within 0 .. NTop.
LEMMA ScoreIsOverlap ==
  ASSUME Stored, NEW q \in Vector, NEW di \in 0 .. n_vectors - 1
  PROVE  /\ Score(QueryBitmap(q), di) = Common(q, BodyAt(di))
         /\ Common(q, BodyAt(di)) \in 0 .. NTop
<1>1. TopOf(q) \in SUBSET Coords /\ Cardinality(TopOf(q)) = NTop
  BY TopIsForemost, ForemostLead DEF Leads
<1>2. BodyAt(di) = Unpacked(Doc(di))
  BY DEF BodyAt, Unpacked
<1>3. Score(QueryBitmap(q), di) = Common(q, BodyAt(di))
  BY <1>1, <1>2, DocIsRow, PopcountCounts, QueryIsTop DEF Score, Common
<1>4. IsFiniteSet(TopOf(q))
  BY <1>1, CoordsFinite, FS_Subset
<1>5. Cardinality(TopOf(q) \cap BodyAt(di)) <= NTop /\ IsFiniteSet(TopOf(q) \cap BodyAt(di))
  BY <1>1, <1>4, FS_Subset
<1>6. Cardinality(TopOf(q) \cap BodyAt(di)) \in Nat
  BY <1>5, FS_CardinalityType
<1>7. NTop \in Nat
  BY CoordsFinite
<1> QED BY <1>3, <1>5, <1>6, <1>7 DEF Common

-----------------------------------------------------------------------------
(* Selections and what the store calls best.                               *)

\* The store counts as this module does.
LEMMA SameSize == ASSUME NEW S PROVE Store!Cardinality(S) = Cardinality(S)
BY DEF Cardinality, Store!Cardinality, IsFiniteSet, Store!IsFiniteSet

Hit == [id : Nat, score : Nat]

\* The hit of a place.
Chosen(hits, r) ==
  CHOOSE i \in DOMAIN hits : Cardinality({j \in DOMAIN hits : Ahead(hits, j, i)}) = r - 1

\* There is exactly one hit for each place.
LEMMA ChosenHit ==
  ASSUME NEW hits \in Seq(Hit), NEW r \in 1 .. Len(hits)
  PROVE  /\ Chosen(hits, r) \in DOMAIN hits
         /\ Cardinality({j \in DOMAIN hits : Ahead(hits, j, Chosen(hits, r))}) = r - 1
         /\ \A i \in DOMAIN hits :
              Cardinality({j \in DOMAIN hits : Ahead(hits, j, i)}) = r - 1 => i = Chosen(hits, r)
<1> DEFINE S == DOMAIN hits
           R == {p \in S \X S : Ahead(hits, p[1], p[2])}
           Before(i) == {j \in S : Ahead(hits, j, i)}
<1>1. S = 1 .. Len(hits) /\ Len(hits) \in Nat /\ S \subseteq Nat
  OBVIOUS
<1>2. IsFiniteSet(S) /\ Cardinality(S) = Len(hits)
  BY <1>1, FS_Interval
<1>3. \A i \in S : i \in Nat /\ hits[i].score \in Nat /\ hits[i].id \in Nat
  <2>1. \A i \in S : hits[i] \in Hit
    OBVIOUS
  <2> QED BY <1>1, <2>1 DEF Hit
<1>4. \A i, j \in S : <<i, j>> \in R <=> Ahead(hits, i, j)
  OBVIOUS
<1> HIDE DEF R, S
<1>5. IsStrictOrder(R, S)
  <2>1. \A i \in S : ~ Ahead(hits, i, i)
    BY <1>3 DEF Ahead
  <2>2. \A i, j \in S : i = j \/ Ahead(hits, i, j) \/ Ahead(hits, j, i)
    BY <1>3 DEF Ahead
  <2>3. \A i, j, k \in S : Ahead(hits, i, j) /\ Ahead(hits, j, k) => Ahead(hits, i, k)
    BY <1>3, SMTT(30) DEF Ahead
  <2> QED BY <1>4, <2>1, <2>2, <2>3 DEF IsStrictOrder
<1>6. \A i \in S : Below(i, R, S) = Before(i)
  BY <1>4 DEF Below
<1>7. r - 1 \in 0 .. Cardinality(S) - 1
  BY <1>1, <1>2
<1> HIDE DEF Before
<1>8. PICK i \in S : Cardinality(Before(i)) = r - 1
  BY <1>2, <1>5, <1>6, <1>7, Ranked
<1>9. \A j \in S : Cardinality(Before(j)) = r - 1 => j = i
  BY <1>2, <1>5, <1>6, <1>7, <1>8, Ranked
<1>10. Chosen(hits, r) = i
  BY <1>8, <1>9 DEF Chosen, S, Before
<1> QED BY <1>8, <1>9, <1>10 DEF S, Before

\* The docs of the store.
Bodies == [i \in 1 .. n_vectors |-> BodyAt(i - 1)]

\* The hits of a list of documents.
Rated(q, ids) == [p \in DOMAIN ids |-> [id |-> ids[p], score |-> Common(q, Bodies[ids[p] + 1])]]

\* What the store calls best is what a selection of the hits gives.
LEMMA BestIsSelected ==
  ASSUME NEW q, NEW ids \in Seq(Nat), NEW k \in Nat,
         \A p \in DOMAIN ids : Common(q, Bodies[ids[p] + 1]) \in Nat
  PROVE  Store!Best(q, ids, k) = Selected(Rated(q, ids), Least(k, Len(ids)))
<1> DEFINE hits == Rated(q, ids)
           entry(p) == [at |-> p, id |-> ids[p], score |-> Common(q, Bodies[ids[p] + 1])]
           entries == {entry(p) : p \in DOMAIN ids}
           Prior(e) == {o \in entries : Store!Precedes(o, e)}
           ranked(i) == CHOOSE e \in entries : Cardinality(Prior(e)) = i - 1
           width == Least(k, Len(ids))
<1>1. Store!Best(q, ids, k) =
        [i \in 1 .. width |-> [id |-> ranked(i).id, score |-> ranked(i).score]]
  BY SameSize DEF Store!Best, Store!Fewer, Least, Bodies
<1>2. Len(ids) \in Nat /\ DOMAIN ids = 1 .. Len(ids) /\ width \in Nat /\ width <= Len(ids)
      /\ \A p \in DOMAIN ids : ids[p] \in Nat
  BY DEF Least
<1>3. /\ DOMAIN hits = DOMAIN ids /\ hits \in Seq(Hit) /\ Len(hits) = Len(ids)
      /\ \A p \in DOMAIN ids : hits[p] = [id |-> entry(p).id, score |-> entry(p).score]
                               /\ entry(p).at = p
  <2>1. hits = [p \in 1 .. Len(ids) |-> hits[p]] /\ \A p \in 1 .. Len(ids) : hits[p] \in Hit
    BY <1>2 DEF Rated, Hit
  <2>2. Len(hits) = Len(ids)
    BY <1>2, <2>1, LenOfFunction
  <2>3. hits \in [1 .. Len(ids) -> Hit]
    BY <2>1
  <2> QED BY <1>2, <2>2, <2>3 DEF Rated
<1>4. ASSUME NEW i \in DOMAIN ids
      PROVE  Cardinality(Prior(entry(i))) = Cardinality({j \in DOMAIN hits : Ahead(hits, j, i)})
  <2> DEFINE A == {j \in DOMAIN ids : Ahead(hits, j, i)}
             f == [j \in A |-> entry(j)]
             B == Prior(entry(i))
  <2>1. \A j \in DOMAIN ids : Store!Precedes(entry(j), entry(i)) <=> Ahead(hits, j, i)
    BY <1>3 DEF Store!Precedes, Ahead
  <2>2. IsFiniteSet(A)
    <3>1. IsFiniteSet(DOMAIN ids)
      BY <1>2, FS_Interval
    <3>2. A \subseteq DOMAIN ids
      OBVIOUS
    <3> HIDE DEF A
    <3> QED BY <3>1, <3>2, FS_Subset
  <2>3. \A j \in A : f[j] \in B /\ f[j].at = j
    <3> SUFFICES ASSUME NEW j \in A PROVE f[j] \in B /\ f[j].at = j
      OBVIOUS
    <3>1. j \in DOMAIN ids /\ f[j] = entry(j) /\ Store!Precedes(entry(j), entry(i))
      BY <2>1
    <3> QED BY <3>1
  <2>4. ASSUME NEW e \in B PROVE \E j \in A : f[j] = e
    <3>1. PICK j \in DOMAIN ids : e = entry(j)
      OBVIOUS
    <3>2. j \in A
      BY <2>1, <3>1
    <3> QED BY <3>1, <3>2
  <2> HIDE DEF A, B
  <2>5. f \in [A -> B]
    BY <2>3
  <2>6. \A j, l \in A : f[j] = f[l] => j = l
    <3> HIDE DEF f
    <3> QED BY <2>3
  <2> HIDE DEF f
  <2>7. f \in Injection(A, B) /\ f \in Surjection(A, B)
    BY <2>4, <2>5, <2>6 DEF Injection, IsInjective, Surjection
  <2>8. ExistsBijection(A, B)
    BY <2>7 DEF ExistsBijection, Bijection
  <2>9. Cardinality(A) = Cardinality(B)
    BY <2>2, <2>8, FS_Bijection
  <2> QED BY <1>3, <2>9 DEF A, B
<1>5. ASSUME NEW r \in 1 .. width
      PROVE  [id |-> ranked(r).id, score |-> ranked(r).score] = Selected(hits, width)[r]
  <2> DEFINE c == Chosen(hits, r)
  <2>1. r \in 1 .. Len(hits)
    BY <1>2, <1>3
  <2>2. /\ c \in DOMAIN ids
        /\ Cardinality({j \in DOMAIN hits : Ahead(hits, j, c)}) = r - 1
        /\ \A i \in DOMAIN ids :
             Cardinality({j \in DOMAIN hits : Ahead(hits, j, i)}) = r - 1 => i = c
    BY <1>3, <2>1, ChosenHit
  <2>3. Selected(hits, width)[r] = hits[c]
    BY DEF Selected, Chosen
  <2> HIDE DEF c, hits, Prior
  <2>4. ranked(r) = entry(c)
    <3>1. entry(c) \in entries /\ Cardinality(Prior(entry(c))) = r - 1
      BY <1>4, <2>2
    <3>2. ASSUME NEW e \in entries, Cardinality(Prior(e)) = r - 1 PROVE e = entry(c)
      <4>1. PICK i \in DOMAIN ids : e = entry(i)
        OBVIOUS
      <4> HIDE DEF entry
      <4> QED BY <1>4, <2>2, <3>2, <4>1
    <3> HIDE DEF entry, entries
    <3> QED BY <3>1, <3>2
  <2> HIDE DEF ranked, entry
  <2> QED BY <1>3, <2>2, <2>3, <2>4
<1> HIDE DEF ranked, hits
<1>6. Selected(hits, width) = [r \in 1 .. width |-> Selected(hits, width)[r]]
  BY DEF Selected
<1> QED BY <1>1, <1>5, <1>6 DEF hits

\* The documents of the store are the rows of the buffer.
LEMMA BodiesAre ==
  ASSUME Stored
  PROVE  /\ n_vectors \in Nat /\ Len(Bodies) = n_vectors /\ Store!n = n_vectors
         /\ DOMAIN Bodies = 1 .. n_vectors
         /\ \A di \in 0 .. n_vectors - 1 : Bodies[di + 1] = BodyAt(di)
<1>1. n_vectors \in Nat
  BY DEF Stored, Layout
<1>2. Bodies = [i \in 1 .. n_vectors |-> Bodies[i]]
  BY DEF Bodies
<1>3. Len(Bodies) = n_vectors
  BY <1>1, <1>2, LenOfFunction
<1>4. \A di \in 0 .. n_vectors - 1 : di + 1 \in 1 .. n_vectors /\ (di + 1) - 1 = di
  BY <1>1
<1> QED BY <1>1, <1>3, <1>4 DEF Bodies, Store!n

\* All documents, with their scores.
Everyone(q) == [i \in 1 .. n_vectors |-> [id |-> i - 1, score |-> Score(QueryBitmap(q), i - 1)]]

\* The hits of a query are the documents of the store with their overlaps.
LEMMA EveryoneRated ==
  ASSUME Stored, NEW q \in Vector
  PROVE  /\ Store!AllIds \in Seq(Nat) /\ Len(Store!AllIds) = n_vectors
         /\ \A p \in DOMAIN Store!AllIds : Common(q, Bodies[Store!AllIds[p] + 1]) \in Nat
         /\ Rated(q, Store!AllIds) = Everyone(q)
         /\ Everyone(q) \in Seq(Hit) /\ Len(Everyone(q)) = n_vectors
         /\ \A i \in 1 .. n_vectors : Everyone(q)[i].score \in 0 .. NTop
<1> DEFINE all == Store!AllIds
<1>1. n_vectors \in Nat /\ all = [i \in 1 .. n_vectors |-> i - 1] /\ NTop \in Nat
  BY BodiesAre, CoordsFinite DEF Store!AllIds
<1>2. all \in [1 .. n_vectors -> Nat]
  BY <1>1
<1>3. all \in Seq(Nat) /\ Len(all) = n_vectors /\ DOMAIN all = 1 .. n_vectors
  BY <1>1, <1>2, LenOfFunction
<1>4. ASSUME NEW p \in 1 .. n_vectors
      PROVE  /\ all[p] = p - 1 /\ p - 1 \in Nat
             /\ Common(q, Bodies[all[p] + 1]) = Score(QueryBitmap(q), p - 1)
             /\ Score(QueryBitmap(q), p - 1) \in 0 .. NTop
             /\ Score(QueryBitmap(q), p - 1) \in Nat
  <2>1. p - 1 \in 0 .. n_vectors - 1 /\ all[p] = p - 1
    BY <1>1
  <2>2. Bodies[(p - 1) + 1] = BodyAt(p - 1)
    BY <2>1, BodiesAre
  <2>3. Score(QueryBitmap(q), p - 1) = Common(q, BodyAt(p - 1))
        /\ Common(q, BodyAt(p - 1)) \in 0 .. NTop
    BY <2>1, ScoreIsOverlap
  <2>4. Score(QueryBitmap(q), p - 1) \in Nat
    BY <1>1, <2>3
  <2>5. p - 1 \in Nat
    BY <2>1
  <2> QED BY <2>1, <2>2, <2>3, <2>4, <2>5
<1> HIDE DEF all
<1>5. Rated(q, all) = Everyone(q)
  BY <1>3, <1>4 DEF Rated, Everyone
<1>6. Everyone(q) \in [1 .. n_vectors -> Hit]
  <2>1. ASSUME NEW i \in 1 .. n_vectors
        PROVE  i - 1 \in Nat /\ Score(QueryBitmap(q), i - 1) \in Nat
    BY <1>4
  <2> QED BY <2>1 DEF Everyone, Hit
<1>7. Len(Everyone(q)) = n_vectors
  <2>1. Everyone(q) = [i \in 1 .. n_vectors |-> Everyone(q)[i]]
    BY <1>6
  <2> HIDE DEF Everyone
  <2> QED BY <1>1, <2>1, LenOfFunction
<1>8. \A i \in 1 .. n_vectors : Everyone(q)[i].score \in 0 .. NTop
  BY <1>4 DEF Everyone
<1>9. Everyone(q) \in Seq(Hit)
  BY <1>1, <1>6
<1> QED BY <1>1, <1>3, <1>4, <1>5, <1>7, <1>8, <1>9 DEF all

\* The row of candidates of a query.
CandidateRow(q, m) == Store!WithoutScores(Store!Best(q, Store!AllIds, m))

\* The selection of the candidates is the row of the store.
LEMMA CandidatesAre ==
  ASSUME Stored, NEW q \in Vector, NEW m \in Nat
  PROVE  CandidateRow(q, m) = Dropped(Selected(Everyone(q), Least(m, n_vectors)))
<1>1. Store!Best(q, Store!AllIds, m) = Selected(Everyone(q), Least(m, n_vectors))
  BY EveryoneRated, BestIsSelected
<1> QED BY <1>1 DEF CandidateRow, Store!WithoutScores, Dropped, NoScore, Store!NoScore

\* Nothing is selected where nothing is asked for.
LEMMA NoCandidates ==
  ASSUME Stored, NEW q \in Vector, NEW m \in Nat, Least(m, n_vectors) = 0
  PROVE  CandidateRow(q, m) = <<>>
<1>1. CandidateRow(q, m) = Dropped(Selected(Everyone(q), 0))
  BY CandidatesAre
<1>2. Selected(Everyone(q), 0) = <<>>
  BY DEF Selected
<1> QED BY <1>1, <1>2 DEF Dropped

\* A subset is selected from as the store does, if its numbers are documents'.
LEMMA SubsetIs ==
  ASSUME Stored, NEW q \in Vector, NEW ids \in Seq(Nat), NEW k \in Nat,
         Least(k, Len(ids)) > 0 => \A i \in DOMAIN ids : ids[i] < n_vectors
  PROVE  Store!Best(q, ids, k) =
           LET kEff == Least(k, Len(ids))
               hits == [i \in DOMAIN ids |-> [id |-> ids[i], score |-> Score(QueryBitmap(q), ids[i])]]
           IN  IF kEff = 0 THEN <<>> ELSE Selected(hits, kEff)
<1> DEFINE kEff == Least(k, Len(ids))
           hits == [i \in DOMAIN ids |-> [id |-> ids[i], score |-> Score(QueryBitmap(q), ids[i])]]
<1>1. Len(ids) \in Nat /\ kEff \in Nat /\ n_vectors \in Nat
  BY BodiesAre DEF Least
<1>2. CASE kEff = 0
  <2>1. Store!Fewer(k, Len(ids)) = 0
    BY <1>2 DEF Store!Fewer, Least
  <2>2. Store!Best(q, ids, k) = <<>>
    BY <2>1 DEF Store!Best
  <2> QED BY <1>2, <2>2
<1>3. CASE kEff # 0
  <2>1. ASSUME NEW p \in DOMAIN ids
        PROVE  /\ Common(q, Bodies[ids[p] + 1]) = Score(QueryBitmap(q), ids[p])
               /\ Common(q, Bodies[ids[p] + 1]) \in Nat
    <3>1. ids[p] \in 0 .. n_vectors - 1
      <4>1. ids[p] \in Nat /\ ids[p] < n_vectors
        BY <1>1, <1>3
      <4> QED BY <1>1, <4>1
    <3>2. Bodies[ids[p] + 1] = BodyAt(ids[p])
      BY <3>1, BodiesAre
    <3>3. NTop \in Nat
      BY CoordsFinite
    <3> QED BY <3>1, <3>2, <3>3, ScoreIsOverlap
  <2>2. Rated(q, ids) = hits
    BY <2>1 DEF Rated
  <2>3. Store!Best(q, ids, k) = Selected(Rated(q, ids), kEff)
    BY <2>1, BestIsSelected
  <2> QED BY <1>3, <2>2, <2>3
<1> QED BY <1>2, <1>3

-----------------------------------------------------------------------------
(* What the collector of TopK keeps, for every capacity, every scan and     *)
(* every assignment of scores and tie keys.                                 *)

Slot == [score : Nat, idx : Nat, tie : Nat]

\* slots holds min(k, n) different documents of the first n with the entries key
\* gives them, in scan order until the collector is full, and no document left
\* out is better than one kept.
KeepsBest(slots, k, key, n) ==
  /\ Len(slots) = IF n < k THEN n ELSE k
  /\ n <= k => \A p \in 1 .. n : slots[p].idx = p - 1
  /\ \A i \in DOMAIN slots : slots[i].idx \in 0 .. n - 1 /\ slots[i] = key[slots[i].idx]
  /\ \A i, j \in DOMAIN slots : slots[i].idx = slots[j].idx => i = j
  /\ \A p \in (0 .. n - 1) \ {slots[i].idx : i \in DOMAIN slots} :
        \A i \in DOMAIN slots : ~ T!Better(key[p], slots[i])

\* Once the collector is full its cached worst entry is the worst it keeps.
WorstCached(top) ==
  Len(top.slots) = top.k =>
    /\ top.worst.pos \in DOMAIN top.slots
    /\ top.worst.score = top.slots[top.worst.pos].score
    /\ top.worst.tie = top.slots[top.worst.pos].tie
    /\ T!IsWorstSlot(top.slots, top.worst.pos)

\* recompute_worst finds a slot: the loop's choice exists and is unique.
LEMMA WorstSlotExists ==
  ASSUME NEW slots \in Seq(Slot), slots # <<>>
  PROVE  \E i \in DOMAIN slots : T!IsWorstSlot(slots, i)
<1> DEFINE S == DOMAIN slots
           Before(i, j) == \/ T!Better(slots[j], slots[i])
                           \/ ~ T!Better(slots[i], slots[j]) /\ i < j
           R == {p \in S \X S : Before(p[1], p[2])}
<1>1. S = 1 .. Len(slots) /\ Len(slots) \in Nat /\ S # {} /\ S \subseteq Nat
  OBVIOUS
<1>2. IsFiniteSet(S)
  BY <1>1, FS_Interval
<1>3. \A i \in S : slots[i].score \in Int /\ slots[i].tie \in Int
  <2>1. \A x \in Slot : x.score \in Int /\ x.tie \in Int
    BY DEF Slot
  <2>2. \A i \in S : slots[i] \in Slot
    OBVIOUS
  <2> QED BY <2>1, <2>2
<1>4. \A i, j \in S : <<i, j>> \in R <=> Before(i, j)
  OBVIOUS
<1> HIDE DEF R, S
<1>5. IsStrictOrder(R, S)
  <2>1. \A i, j \in S : i = j \/ Before(i, j) \/ Before(j, i)
    BY <1>1, <1>3 DEF T!Better
  <2>2. \A i, j, l \in S : Before(i, j) /\ Before(j, l) => Before(i, l)
    BY <1>1, <1>3, SMTT(30) DEF T!Better
  <2>3. \A i \in S : ~ Before(i, i)
    BY <1>1, <1>3 DEF T!Better
  <2> QED BY <1>4, <2>1, <2>2, <2>3 DEF IsStrictOrder
<1>6. PICK i \in S : \A j \in S : j = i \/ <<i, j>> \in R
  <2>1. S # {}
    BY <1>1
  <2> QED BY <1>2, <1>5, <2>1, FirstElement
<1>7. \A j \in S : j = i \/ Before(i, j)
  BY <1>4, <1>6
<1>8. T!IsWorstSlot(slots, i)
  BY <1>1, <1>3, <1>7 DEF T!IsWorstSlot, T!Better, S
<1> QED BY <1>8 DEF S

\* recompute_worst returns the slot, score and tie key of a worst kept entry.
LEMMA RecomputeWorstCorrect ==
  ASSUME NEW slots \in Seq(Slot), slots # <<>>
  PROVE  LET w == T!RecomputeWorst(slots)
         IN  /\ w.pos \in DOMAIN slots
             /\ w.score = slots[w.pos].score
             /\ w.tie = slots[w.pos].tie
             /\ T!IsWorstSlot(slots, w.pos)
BY WorstSlotExists DEF T!RecomputeWorst

\* What is not better than one that is not better is not better.
LEMMA NotBetter ==
  ASSUME NEW x \in Slot, NEW y \in Slot, NEW z \in Slot, ~ T!Better(x, y), ~ T!Better(y, z)
  PROVE  ~ T!Better(x, z)
<1>1. /\ x.score \in Int /\ x.tie \in Int /\ y.score \in Int /\ y.tie \in Int
      /\ z.score \in Int /\ z.tie \in Int
  BY DEF Slot
<1> QED BY <1>1 DEF T!Better

\* No two entries are better than each other.
LEMMA NotBoth ==
  ASSUME NEW x \in Slot, NEW y \in Slot
  PROVE  (T!Better(x, y) => ~ T!Better(y, x)) /\ ~ T!Better(x, x)
<1>1. /\ x.score \in Int /\ x.tie \in Int /\ y.score \in Int /\ y.tie \in Int
  BY DEF Slot
<1> QED BY <1>1 DEF T!Better

\* One maybe_insert extends "the best k seen so far" by one position.
LEMMA MaybeInsertKeepsBest ==
  ASSUME NEW top, NEW raw, NEW n \in Nat, NEW m \in Nat, n < m,
         NEW key \in [0 .. m - 1 -> Slot],
         top = [k |-> top.k, slots |-> top.slots, worst |-> top.worst,
                keyed |-> top.keyed, keys |-> top.keys, offset |-> top.offset],
         top.k \in Nat \ {0}, top.slots \in Seq(Slot),
         T!EntryFor(top, raw, n) = key[n],
         KeepsBest(top.slots, top.k, key, n), WorstCached(top)
  PROVE  LET new == T!MaybeInsert(top, raw, n)
         IN  /\ new = [top EXCEPT !.slots = new.slots, !.worst = new.worst]
             /\ new.slots \in Seq(Slot)
             /\ KeepsBest(new.slots, top.k, key, n + 1)
             /\ WorstCached(new)
<1> DEFINE e == T!EntryFor(top, raw, n)
           slots == top.slots
           new == T!MaybeInsert(top, raw, n)
           app == Append(slots, e)
           rep == [slots EXCEPT ![top.worst.pos] = e]
<1>0. e \in Slot /\ e = key[n]
  OBVIOUS
<1>a. \A s \in Slot : s.score \in Int /\ s.tie \in Int /\ s.idx \in Nat
  BY DEF Slot
<1>b. \A i \in DOMAIN slots : slots[i] \in Slot /\ slots[i].idx \in 0 .. n - 1
  BY DEF KeepsBest
<1>f. \A i \in DOMAIN slots : slots[i] = key[slots[i].idx]
  BY DEF KeepsBest
<1>g. n \in 0 .. n /\ e = key[e.idx]
  BY <1>0 DEF T!EntryFor
<1>c. \A p \in 0 .. n : p \in 0 .. m - 1 /\ key[p] \in Slot
  OBVIOUS
<1>d. Len(slots) \in Nat /\ DOMAIN slots = 1 .. Len(slots)
  OBVIOUS
<1>e. (\A q \in 0 .. n - 1 : q # n /\ q \in 0 .. n) /\ (n + 1) - 1 = n
  OBVIOUS
<1>1. CASE Len(slots) < top.k
  <2>1. new.slots = app
    BY <1>1 DEF T!MaybeInsert
  <2>2. new = [top EXCEPT !.slots = new.slots, !.worst = new.worst]
    BY <1>1 DEF T!MaybeInsert
  <2>3. /\ app \in Seq(Slot) /\ Len(app) = Len(slots) + 1
        /\ DOMAIN app = 1 .. Len(slots) + 1
        /\ \A i \in DOMAIN slots : app[i] = slots[i]
        /\ app[Len(slots) + 1] = e
    BY <1>0
  <2>4. Len(slots) = n
    BY <1>1 DEF KeepsBest
  <2>5. e.idx = n
    BY DEF T!EntryFor
  <2>6. KeepsBest(app, top.k, key, n + 1)
    <3>1. Len(app) = IF n + 1 < top.k THEN n + 1 ELSE top.k
      BY <1>1, <2>3, <2>4
    <3>2. \A i \in DOMAIN app : app[i].idx \in 0 .. n /\ app[i] = key[app[i].idx]
      <4>1. \A i \in DOMAIN app : i \in DOMAIN slots \/ app[i] = e
        BY <1>d, <2>3
      <4> HIDE DEF app, e, slots
      <4> QED BY <1>b, <1>e, <1>f, <1>g, <2>3, <2>5, <4>1
    <3>3. \A i, j \in DOMAIN app : app[i].idx = app[j].idx => i = j
      <4>1. \A i \in DOMAIN slots : app[i].idx # n
        BY <1>b, <2>3
      <4> QED BY <1>d, <2>3, <2>5, <4>1 DEF KeepsBest
    <3>4. (0 .. n) \subseteq {app[i].idx : i \in DOMAIN app}
      <4>1. \A p \in 1 .. n : p \in DOMAIN app /\ app[p].idx = p - 1
        BY <1>1, <1>d, <2>3, <2>4 DEF KeepsBest
      <4>2. n + 1 \in DOMAIN app /\ app[n + 1].idx = n
        BY <2>3, <2>4, <2>5
      <4>3. \A p \in 0 .. n : p = n \/ (p + 1 \in 1 .. n /\ (p + 1) - 1 = p)
        OBVIOUS
      <4>4. \A p \in 0 .. n : \E i \in DOMAIN app : app[i].idx = p
        <5>1. TAKE p \in 0 .. n
        <5>2. CASE p = n
          BY <4>2, <5>2
        <5>3. CASE p # n
          <6>1. p + 1 \in 1 .. n /\ (p + 1) - 1 = p
            BY <4>3, <5>3
          <6> QED BY <4>1, <6>1
        <5> QED BY <5>2, <5>3
      <4> HIDE DEF app
      <4> QED BY <4>4
    <3>5. n + 1 <= top.k => \A p \in 1 .. n + 1 : app[p].idx = p - 1
      BY <1>1, <1>d, <2>3, <2>4, <2>5 DEF KeepsBest
    <3> QED BY <1>e, <3>1, <3>2, <3>3, <3>4, <3>5 DEF KeepsBest
  <2>7. WorstCached(new)
    <3>1. CASE Len(app) = top.k
      <4>1. new.worst = T!RecomputeWorst(app) /\ new.k = top.k
        BY <1>1, <3>1 DEF T!MaybeInsert
      <4>2. app # <<>>
        BY <2>3, SMTT(30)
      <4> HIDE DEF new, app
      <4> QED BY <2>1, <2>3, <4>1, <4>2, RecomputeWorstCorrect DEF WorstCached
    <3>2. CASE Len(app) # top.k
      BY <2>1, <2>2, <3>2 DEF WorstCached
    <3> QED BY <3>1, <3>2
  <2> QED BY <2>1, <2>2, <2>3, <2>6, <2>7
<1>4. ASSUME Len(slots) >= top.k
      PROVE  /\ Len(slots) = top.k /\ n >= top.k
             /\ top.worst.pos \in DOMAIN slots
             /\ \A i \in DOMAIN slots : ~ T!Better(slots[top.worst.pos], slots[i])
             /\ \A x : T!Better(x, top.worst) <=> T!Better(x, slots[top.worst.pos])
  BY <1>4, <1>d DEF KeepsBest, WorstCached, T!IsWorstSlot, T!Better
<1>2. CASE Len(slots) >= top.k /\ T!Better(e, top.worst)
  <2> DEFINE w == top.worst.pos
  <2>1. new.slots = rep /\ new.worst = T!RecomputeWorst(rep) /\ new.k = top.k
    BY <1>2, <1>d DEF T!MaybeInsert
  <2>2. new = [top EXCEPT !.slots = new.slots, !.worst = new.worst]
    BY <1>2, <1>d DEF T!MaybeInsert
  <2>3. /\ w \in DOMAIN slots /\ rep \in Seq(Slot) /\ Len(rep) = Len(slots)
        /\ DOMAIN rep = DOMAIN slots
        /\ \A i \in DOMAIN slots : rep[i] = IF i = w THEN e ELSE slots[i]
    BY <1>0, <1>2, <1>4
  <2>4. e.idx = n
    BY DEF T!EntryFor
  <2> HIDE DEF new, rep, w
  <2>5. KeepsBest(rep, top.k, key, n + 1)
    <3>1. Len(rep) = IF n + 1 < top.k THEN n + 1 ELSE top.k
      BY <1>2, <1>4, <2>3
    <3>2. \A i \in DOMAIN rep : rep[i].idx \in 0 .. n /\ rep[i] = key[rep[i].idx]
      BY <1>b, <1>e, <1>f, <1>g, <2>3, <2>4
    <3>3. \A i, j \in DOMAIN rep : rep[i].idx = rep[j].idx => i = j
      <4>1. \A i \in DOMAIN slots : slots[i].idx # n
        BY <1>b
      <4> QED BY <2>3, <2>4, <4>1 DEF KeepsBest
    <3>4. ASSUME NEW p \in (0 .. n) \ {rep[i].idx : i \in DOMAIN rep},
                 NEW i \in DOMAIN rep
          PROVE  ~ T!Better(key[p], rep[i])
      <4>1. p \in 0 .. n - 1
        BY <2>3, <2>4
      <4>2. ~ T!Better(key[p], slots[w])
        <5>1. CASE p \in {slots[j].idx : j \in DOMAIN slots}
          <6>1. PICK j \in DOMAIN slots : p = slots[j].idx
            BY <5>1
          <6>2. j = w
            BY <2>3, <6>1
          <6>3. key[p] = slots[w]
            BY <6>1, <6>2 DEF KeepsBest
          <6>4. slots[w] \in Slot
            BY <1>b, <2>3
          <6> QED BY <6>3, <6>4, NotBoth
        <5>2. CASE p \notin {slots[j].idx : j \in DOMAIN slots}
          BY <4>1, <5>2, <2>3 DEF KeepsBest
        <5> QED BY <5>1, <5>2
      <4>3. ~ T!Better(slots[w], rep[i])
        <5>1. T!Better(e, slots[w])
          BY <1>2, <1>4 DEF w
        <5>2. i # w => ~ T!Better(slots[w], slots[i])
          BY <1>2, <1>4, <2>3 DEF w
        <5>3. slots[w] \in Slot /\ e \in Slot
          BY <1>0, <1>b, <2>3
        <5>4. ~ T!Better(slots[w], e)
          BY <5>1, <5>3, NotBoth
        <5> QED BY <2>3, <5>2, <5>4
      <4>4. key[p] \in Slot /\ slots[w] \in Slot /\ rep[i] \in Slot
        BY <1>0, <1>b, <1>c, <2>3
      <4> HIDE DEF slots
      <4> QED BY <4>2, <4>3, <4>4, NotBetter
    <3>5. ~ (n + 1 <= top.k)
      BY <1>2, <1>4
    <3> QED BY <1>e, <3>1, <3>2, <3>3, <3>4, <3>5 DEF KeepsBest
  <2>6. WorstCached(new)
    <3>1. rep # <<>>
      BY <2>3
    <3> QED BY <2>1, <2>3, <3>1, RecomputeWorstCorrect DEF WorstCached
  <2> QED BY <2>1, <2>2, <2>3, <2>5, <2>6 DEF new
<1>3. CASE Len(slots) >= top.k /\ ~ T!Better(e, top.worst)
  <2>1. new = top
    BY <1>3, <1>d DEF T!MaybeInsert
  <2>2. KeepsBest(slots, top.k, key, n + 1)
    <3>1. ~ (n + 1 <= top.k) /\ Len(slots) = top.k
      BY <1>3, <1>4
    <3>2. ASSUME NEW p \in (0 .. n) \ {slots[i].idx : i \in DOMAIN slots},
                 NEW i \in DOMAIN slots
          PROVE  ~ T!Better(key[p], slots[i])
      <4>1. CASE p \in 0 .. n - 1
        BY <4>1 DEF KeepsBest
      <4>2. CASE p = n
        <5>1. ~ T!Better(e, slots[top.worst.pos])
          BY <1>3, <1>4
        <5>2. ~ T!Better(slots[top.worst.pos], slots[i])
          BY <1>3, <1>4
        <5>3. e \in Slot /\ slots[i] \in Slot /\ slots[top.worst.pos] \in Slot
          BY <1>0, <1>3, <1>4, <1>b
        <5>4. key[p] = e
          BY <1>0, <4>2
        <5> HIDE DEF e, slots
        <5> QED BY <5>1, <5>2, <5>3, <5>4, NotBetter
      <4> QED BY <4>1, <4>2
    <3> QED BY <1>e, <3>1, <3>2 DEF KeepsBest
  <2> QED BY <2>1, <2>2
<1> QED BY <1>d, <1>1, <1>2, <1>3

\* The order of the keys is total up to ties.
LEMMA KeyOrder ==
  /\ \A x \in Slot : x.score \in Nat /\ x.tie \in Nat /\ x.idx \in Nat
  /\ \A x, y \in Slot :
       /\ T!Better(x, y) => ~ T!Better(y, x)
       /\ ~ T!Better(x, y) /\ ~ T!Better(y, x) => x.score = y.score /\ x.tie = y.tie
  /\ \A x, y, z \in Slot :
       /\ T!Better(x, y) /\ ~ T!Better(z, y) => T!Better(x, z)
       /\ ~ T!Better(y, x) /\ T!Better(y, z) => T!Better(x, z)
<1>1. \A x \in Slot : x.score \in Nat /\ x.tie \in Nat /\ x.idx \in Nat
  BY DEF Slot
<1> QED BY <1>1 DEF T!Better

\* The final sort has exactly one entry for each place.
LEMMA PlacedRank ==
  ASSUME NEW slots \in Seq(Slot), NEW r \in 1 .. Len(slots)
  PROVE  \E i \in DOMAIN slots :
           /\ T!Placed(slots, r) = slots[i]
           /\ Cardinality({j \in DOMAIN slots : T!SortsBefore(slots, j, i)}) = r - 1
<1> DEFINE S == DOMAIN slots
           R == {p \in S \X S : T!SortsBefore(slots, p[1], p[2])}
           Before(i) == {j \in S : T!SortsBefore(slots, j, i)}
<1>1. S = 1 .. Len(slots) /\ Len(slots) \in Nat /\ S \subseteq Nat
  OBVIOUS
<1>2. IsFiniteSet(S) /\ Cardinality(S) = Len(slots)
  BY <1>1, FS_Interval
<1>3. \A i \in S : slots[i] \in Slot
  OBVIOUS
<1>4. \A i, j \in S : <<i, j>> \in R <=> T!SortsBefore(slots, i, j)
  OBVIOUS
<1>5. IsStrictOrder(R, S)
  <2>1. \A i \in S : ~ T!SortsBefore(slots, i, i)
    BY <1>1, <1>3, KeyOrder DEF T!SortsBefore
  <2>2. \A i, j \in S : i = j \/ T!SortsBefore(slots, i, j) \/ T!SortsBefore(slots, j, i)
    BY <1>1 DEF T!SortsBefore
  <2>3. \A i, j, k \in S : T!SortsBefore(slots, i, j) /\ T!SortsBefore(slots, j, k)
                             => T!SortsBefore(slots, i, k)
    <3> SUFFICES ASSUME NEW i \in S, NEW j \in S, NEW k \in S,
                        T!SortsBefore(slots, i, j), T!SortsBefore(slots, j, k)
                 PROVE  T!SortsBefore(slots, i, k)
      OBVIOUS
    <3>1. slots[i] \in Slot /\ slots[j] \in Slot /\ slots[k] \in Slot
      BY <1>3
    <3>2. i \in Nat /\ j \in Nat /\ k \in Nat
      BY <1>1
    <3>3. i < j /\ j < k => i < k
      BY <3>2
    <3> HIDE DEF S
    <3> QED BY <3>1, <3>3, KeyOrder DEF T!SortsBefore
  <2> HIDE DEF R, S
  <2> QED BY <1>4, <2>1, <2>2, <2>3 DEF IsStrictOrder
<1>6. \A i \in S : Below(i, R, S) = Before(i)
  BY <1>4 DEF Below
<1> HIDE DEF R
<1>7. r - 1 \in 0 .. Cardinality(S) - 1
  BY <1>2
<1>8. PICK i \in S : Cardinality(Before(i)) = r - 1
  <2> HIDE DEF S, Before
  <2> QED BY <1>2, <1>5, <1>6, <1>7, Ranked
<1>9. \A j \in S : Cardinality(Before(j)) = r - 1 => j = i
  <2> HIDE DEF S, Before
  <2> QED BY <1>2, <1>5, <1>6, <1>7, <1>8, Ranked
<1>10. T!Placed(slots, r) = slots[i]
  <2>1. \A X : T!Cardinality(X) = Cardinality(X)
    BY DEF Cardinality, T!Cardinality, IsFiniteSet, T!IsFiniteSet
  <2>2. i = CHOOSE j \in S : Cardinality(Before(j)) = r - 1
    <3> HIDE DEF S, Before
    <3> QED BY <1>8, <1>9
  <2>3. T!Placed(slots, r) =
          slots[CHOOSE j \in DOMAIN slots :
                  T!Cardinality({l \in DOMAIN slots : T!SortsBefore(slots, l, j)}) = r - 1]
    BY DEF T!Placed
  <2>4. T!Placed(slots, r) =
          slots[CHOOSE j \in DOMAIN slots :
                  Cardinality({l \in DOMAIN slots : T!SortsBefore(slots, l, j)}) = r - 1]
    BY <2>1, <2>3
  <2> QED BY <2>2, <2>4
<1> QED BY <1>8, <1>10

\* A nonempty set of natural numbers has a least one: a claim about every step
\* of a loop is proved by the first step at which it would fail.
LEMMA LeastNumber ==
  ASSUME NEW S \in SUBSET Nat, S # {}
  PROVE  \E m \in S : \A k \in S : m <= k
<1>1. PICK m \in S : \A k \in S : ~ <<k, m>> \in OpToRel(<, Nat)
  BY NatLessThanWellFounded, WFMin
<1>2. m \in Nat /\ \A k \in S : k \in Nat /\ ~ k < m
  BY <1>1 DEF OpToRel
<1>3. \A k \in S : m <= k
  BY <1>2
<1> QED BY <1>3

\* The scan goes from document to document.
LEMMA ScanRuns ==
  ASSUME NEW qb, NEW k, n_vectors \in Nat
  PROVE  \E top : /\ Scan(qb, k) = top[n_vectors] /\ top[0] = T!New(k)
                  /\ \A i \in 1 .. n_vectors :
                       top[i] = T!MaybeInsert(top[i - 1], Score(qb, i - 1), i - 1)
<1> DEFINE new == T!New(k)
           Step(t, i) == T!MaybeInsert(t, Score(qb, i), i)
           G(f, m) == [di \in 0 .. m |-> IF di = 0 THEN new ELSE Step(f[di - 1], di - 1)]
           top == CHOOSE f : f = G(f, n_vectors)
           Missing == {m \in 0 .. n_vectors : ~ \E f : f = G(f, m)}
<1>1. Scan(qb, k) = top[n_vectors]
  BY DEF Scan
<1> HIDE DEF new, Step
<1>2. Missing = {}
  <2>1. SUFFICES ASSUME Missing # {} PROVE FALSE
    OBVIOUS
  <2>2. PICK m \in Missing : \A l \in Missing : m <= l
    <3>1. Missing \in SUBSET Nat
      OBVIOUS
    <3> HIDE DEF Missing
    <3> QED BY <2>1, <3>1, LeastNumber
  <2>3. m \in 0 .. n_vectors /\ m \in Nat /\ ~ \E f : f = G(f, m)
    OBVIOUS
  <2>4. CASE m = 0
    <3> DEFINE g == [i \in 0 .. 0 |-> new]
    <3>1. g = G(g, 0)
      OBVIOUS
    <3> QED BY <2>3, <2>4, <3>1
  <2>5. CASE m # 0
    <3>1. m - 1 \in 0 .. n_vectors /\ ~ m <= m - 1 /\ m - 1 \in 0 .. m - 1
      BY <2>3, <2>5
    <3>2. m - 1 \notin Missing
      <4> HIDE DEF Missing
      <4> QED BY <2>2, <3>1
    <3>3. PICK f : f = G(f, m - 1)
      BY <3>1, <3>2
    <3> DEFINE g == [i \in 0 .. m |-> IF i = m THEN Step(f[m - 1], m - 1) ELSE f[i]]
    <3>4. \A i \in 0 .. m - 1 : f[i] = IF i = 0 THEN new ELSE Step(f[i - 1], i - 1)
      BY <3>3
    <3>5. g[m] = Step(f[m - 1], m - 1) /\ \A i \in 0 .. m - 1 : g[i] = f[i]
      <4>1. m \in 0 .. m /\ \A i \in 0 .. m - 1 : i \in 0 .. m /\ i # m
        BY <2>3
      <4> QED BY <4>1
    <3>6. \A i \in 0 .. m : i = m \/ (i \in 0 .. m - 1 /\ (i # 0 => i - 1 \in 0 .. m - 1))
      BY <2>3
    <3>7. g = [i \in 0 .. m |-> g[i]]
      OBVIOUS
    <3> HIDE DEF g
    <3>8. \A i \in 0 .. m : g[i] = IF i = 0 THEN new ELSE Step(g[i - 1], i - 1)
      BY <2>5, <3>1, <3>4, <3>5, <3>6
    <3>9. g = G(g, m)
      BY <3>7, <3>8
    <3> QED BY <2>3, <3>9
  <2> QED BY <2>4, <2>5
<1>3. top = G(top, n_vectors)
  <2>1. \E f : f = G(f, n_vectors)
    <3>1. n_vectors \in 0 .. n_vectors /\ n_vectors \notin Missing
      BY <1>2
    <3> HIDE DEF G
    <3> QED BY <3>1
  <2> HIDE DEF G
  <2> QED BY <2>1
<1> HIDE DEF top, Missing
<1>4. /\ 0 \in 0 .. n_vectors
      /\ \A i \in 1 .. n_vectors : i \in 0 .. n_vectors /\ i # 0
  OBVIOUS
<1>5. top[0] = new /\ \A i \in 1 .. n_vectors : top[i] = Step(top[i - 1], i - 1)
  BY <1>3, <1>4
<1> QED BY <1>1, <1>5 DEF new, Step

\* The entry of each document.
Key(qb) == [i \in 0 .. n_vectors - 1 |-> [score |-> Score(qb, i), idx |-> i, tie |-> i]]

\* What the collector is between two documents.
Collects(top, k, key, i) ==
  /\ top = [k |-> k, slots |-> top.slots, worst |-> top.worst,
            keyed |-> FALSE, keys |-> <<>>, offset |-> T!NoOffset]
  /\ top.slots \in Seq(Slot) /\ KeepsBest(top.slots, k, key, i) /\ WorstCached(top)

\* A new collector has collected nothing.
LEMMA CollectsNone ==
  ASSUME NEW k \in Nat \ {0}, NEW key
  PROVE  Collects(T!New(k), k, key, 0)
<1>1. T!New(k).slots = <<>> /\ T!New(k).k = k
  BY DEF T!New
<1>2. Len(<<>>) = 0 /\ DOMAIN <<>> = {} /\ <<>> \in Seq(Slot)
  OBVIOUS
<1>3. (0 .. 0 - 1) = {} /\ (1 .. 0) = {}
  OBVIOUS
<1>4. KeepsBest(<<>>, k, key, 0)
  BY <1>2, <1>3 DEF KeepsBest
<1>5. WorstCached(T!New(k))
  BY <1>1, <1>2 DEF WorstCached
<1> QED BY <1>1, <1>2, <1>4, <1>5 DEF Collects, T!New

\* An offer is collected.
LEMMA CollectsNext ==
  ASSUME NEW k \in Nat \ {0}, NEW m \in Nat, NEW i \in 0 .. m - 1,
         NEW key \in [0 .. m - 1 -> Slot], NEW raw \in 0 .. NTop,
         key[i] = [score |-> raw, idx |-> i, tie |-> i],
         NEW top, Collects(top, k, key, i)
  PROVE  Collects(T!MaybeInsert(top, raw, i), k, key, i + 1)
<1> DEFINE new == T!MaybeInsert(top, raw, i)
<1>1. /\ top = [k |-> k, slots |-> top.slots, worst |-> top.worst,
                keyed |-> FALSE, keys |-> <<>>, offset |-> T!NoOffset]
      /\ top.slots \in Seq(Slot) /\ KeepsBest(top.slots, k, key, i) /\ WorstCached(top)
  BY DEF Collects
<1>2. top.k = k /\ top.keyed = FALSE /\ top.keys = <<>> /\ top.offset = T!NoOffset
  <2> DEFINE s == top.slots
             w == top.worst
  <2>1. top = [k |-> k, slots |-> s, worst |-> w,
               keyed |-> FALSE, keys |-> <<>>, offset |-> T!NoOffset]
    BY <1>1
  <2> HIDE DEF s, w
  <2> QED BY <2>1
<1>3. T!EntryFor(top, raw, i) = key[i]
  BY <1>2 DEF T!EntryFor, T!NoOffset
<1>4. i \in Nat /\ i < m
  OBVIOUS
<1>5. top = [k |-> top.k, slots |-> top.slots, worst |-> top.worst,
             keyed |-> top.keyed, keys |-> top.keys, offset |-> top.offset]
  BY <1>1, <1>2
<1>6. KeepsBest(top.slots, top.k, key, i) /\ top.k \in Nat \ {0}
  BY <1>1, <1>2
<1>7. /\ new = [top EXCEPT !.slots = new.slots, !.worst = new.worst]
      /\ new.slots \in Seq(Slot)
      /\ KeepsBest(new.slots, top.k, key, i + 1)
      /\ WorstCached(new)
  BY <1>1, <1>3, <1>4, <1>5, <1>6, MaybeInsertKeepsBest
<1> HIDE DEF new
<1>8. new = [k |-> k, slots |-> new.slots, worst |-> new.worst,
             keyed |-> FALSE, keys |-> <<>>, offset |-> T!NoOffset]
  <2> DEFINE s == new.slots
             w == new.worst
             s0 == top.slots
             w0 == top.worst
  <2>1. top = [k |-> k, slots |-> s0, worst |-> w0,
               keyed |-> FALSE, keys |-> <<>>, offset |-> T!NoOffset]
    BY <1>1
  <2>2. new = [top EXCEPT !.slots = s, !.worst = w]
    BY <1>7
  <2> HIDE DEF s, w, s0, w0
  <2>3. new = [k |-> k, slots |-> s, worst |-> w,
               keyed |-> FALSE, keys |-> <<>>, offset |-> T!NoOffset]
    BY <2>1, <2>2
  <2> QED BY <2>3 DEF s, w
<1> QED BY <1>2, <1>7, <1>8 DEF Collects, new

\* A scan keeps the best k documents.
LEMMA ScanKeepsBest ==
  ASSUME Stored, NEW q \in Vector, NEW k \in Nat \ {0}
  PROVE  /\ Key(QueryBitmap(q)) \in [0 .. n_vectors - 1 -> Slot]
         /\ Scan(QueryBitmap(q), k).slots \in Seq(Slot)
         /\ KeepsBest(Scan(QueryBitmap(q), k).slots, k, Key(QueryBitmap(q)), n_vectors)
<1> DEFINE qb == QueryBitmap(q)
           key == Key(qb)
           n == n_vectors
<1>1. n \in Nat
  BY DEF Stored, Layout
<1>2. \A i \in 0 .. n - 1 : Score(qb, i) \in 0 .. NTop /\ Score(qb, i) \in Nat
  BY CoordsFinite, ScoreIsOverlap
<1>3. /\ key \in [0 .. n - 1 -> Slot]
      /\ \A i \in 0 .. n - 1 : key[i] = [score |-> Score(qb, i), idx |-> i, tie |-> i]
  BY <1>1, <1>2 DEF Key, Slot
<1>4. PICK top : /\ Scan(qb, k) = top[n] /\ top[0] = T!New(k)
                 /\ \A i \in 1 .. n : top[i] = T!MaybeInsert(top[i - 1], Score(qb, i - 1), i - 1)
  BY <1>1, ScanRuns
<1> HIDE DEF key, n, qb
<1> DEFINE Wrong == {i \in 0 .. n : ~ Collects(top[i], k, key, i)}
<1>5. Wrong = {}
  <2>1. SUFFICES ASSUME Wrong # {} PROVE FALSE
    OBVIOUS
  <2>2. PICK m \in Wrong : \A l \in Wrong : m <= l
    <3>1. Wrong \in SUBSET Nat
      BY <1>1
    <3> HIDE DEF Wrong
    <3> QED BY <2>1, <3>1, LeastNumber
  <2>3. m \in 0 .. n /\ m \in Nat /\ ~ Collects(top[m], k, key, m)
    BY <1>1
  <2>4. m # 0
    BY <1>4, <2>3, CollectsNone
  <2>5. m - 1 \in 0 .. n /\ m - 1 \in 0 .. n - 1 /\ m \in 1 .. n /\ (m - 1) + 1 = m /\ ~ m <= m - 1
    BY <1>1, <2>3, <2>4
  <2>6. Collects(top[m - 1], k, key, m - 1)
    <3>1. m - 1 \notin Wrong
      <4> HIDE DEF Wrong
      <4> QED BY <2>2, <2>5
    <3> QED BY <2>5, <3>1
  <2>7. Collects(T!MaybeInsert(top[m - 1], Score(qb, m - 1), m - 1), k, key, (m - 1) + 1)
    <3>1. /\ key[m - 1] = [score |-> Score(qb, m - 1), idx |-> m - 1, tie |-> m - 1]
          /\ Score(qb, m - 1) \in 0 .. NTop
      BY <1>2, <1>3, <2>5
    <3> DEFINE i == m - 1
               raw == Score(qb, i)
               last == top[i]
    <3>2. key[i] = [score |-> raw, idx |-> i, tie |-> i] /\ raw \in 0 .. NTop /\ i \in 0 .. n - 1
      BY <2>5, <3>1
    <3>3. Collects(last, k, key, i)
      BY <2>6
    <3> HIDE DEF i, raw, last
    <3>4. Collects(T!MaybeInsert(last, raw, i), k, key, i + 1)
      BY <1>1, <1>3, <3>2, <3>3, CollectsNext
    <3> QED BY <3>4 DEF i, raw, last
  <2>8. Collects(top[m], k, key, m)
    BY <1>4, <2>5, <2>7
  <2> QED BY <2>3, <2>8
<1>6. Collects(top[n], k, key, n)
  BY <1>1, <1>5
<1> QED BY <1>3, <1>4, <1>6 DEF Collects, key, n, qb

\* Two entries of different documents are sorted as their hits are.
LEMMA SortsAsHits ==
  ASSUME NEW qb, NEW hits, n_vectors \in Nat,
         NEW a \in 0 .. n_vectors - 1, NEW b \in 0 .. n_vectors - 1, a # b,
         Score(qb, a) \in Nat, Score(qb, b) \in Nat,
         hits = [i \in 1 .. n_vectors |-> [id |-> i - 1, score |-> Score(qb, i - 1)]]
  PROVE  /\ T!Better(Key(qb)[a], Key(qb)[b]) <=> Ahead(hits, a + 1, b + 1)
         /\ T!Better(Key(qb)[a], Key(qb)[b]) \/ T!Better(Key(qb)[b], Key(qb)[a])
<1> DEFINE key == Key(qb)
           x == Score(qb, a)
           y == Score(qb, b)
<1>1. /\ key[a] = [score |-> x, idx |-> a, tie |-> a]
      /\ key[b] = [score |-> y, idx |-> b, tie |-> b]
  BY DEF Key
<1>2. /\ key[a].score = x /\ key[a].tie = a
      /\ key[b].score = y /\ key[b].tie = b
  BY <1>1
<1>3. /\ a + 1 \in 1 .. n_vectors /\ b + 1 \in 1 .. n_vectors
      /\ (a + 1) - 1 = a /\ (b + 1) - 1 = b
  OBVIOUS
<1>4. /\ hits[a + 1] = [id |-> a, score |-> x] /\ hits[b + 1] = [id |-> b, score |-> y]
  BY <1>3
<1>5. /\ hits[a + 1].id = a /\ hits[a + 1].score = x
      /\ hits[b + 1].id = b /\ hits[b + 1].score = y
  BY <1>4
<1> HIDE DEF key, x, y
<1>6. x \in Nat /\ y \in Nat /\ a \in Nat /\ b \in Nat
  BY DEF x, y
<1>7. T!Better(key[a], key[b]) <=> x > y \/ (x = y /\ a < b)
  BY <1>2 DEF T!Better
<1>8. T!Better(key[b], key[a]) <=> y > x \/ (y = x /\ b < a)
  BY <1>2 DEF T!Better
<1>9. Ahead(hits, a + 1, b + 1) <=> x > y \/ (x = y /\ a < b)
  BY <1>5, <1>6 DEF Ahead
<1>10. T!Better(key[a], key[b]) \/ T!Better(key[b], key[a])
  BY <1>6, <1>7, <1>8
<1> QED BY <1>7, <1>9, <1>10 DEF key

AheadOf(hits, i)      == {j \in DOMAIN hits : Ahead(hits, j, i)}
SortedBefore(slots, s) == {j \in DOMAIN slots : T!SortsBefore(slots, j, s)}
HitsOf(qb)            == [i \in 1 .. n_vectors |-> [id |-> i - 1, score |-> Score(qb, i - 1)]]

\* An entry has as many entries before it in the sorted collector as its hit has
\* hits ahead of it: nothing that was left out is better.
LEMMA PlaceOfHit ==
  ASSUME n_vectors \in Nat, NEW qb, \A i \in 0 .. n_vectors - 1 : Score(qb, i) \in Nat,
         NEW k, NEW slots \in Seq(Slot), KeepsBest(slots, k, Key(qb), n_vectors),
         NEW s \in DOMAIN slots
  PROVE  /\ slots[s].idx + 1 \in 1 .. n_vectors
         /\ HitsOf(qb)[slots[s].idx + 1] = [id |-> slots[s].idx, score |-> slots[s].score]
         /\ Cardinality(AheadOf(HitsOf(qb), slots[s].idx + 1)) = Cardinality(SortedBefore(slots, s))
<1> DEFINE key == Key(qb)
           hits == HitsOf(qb)
           n == n_vectors
           h == slots[s].idx + 1
           A == {j \in DOMAIN slots : T!SortsBefore(slots, j, s)}
           B == {i \in DOMAIN hits : Ahead(hits, i, h)}
           f == [j \in A |-> slots[j].idx + 1]
<1>1. /\ \A i \in DOMAIN slots : slots[i].idx \in 0 .. n - 1 /\ slots[i] = key[slots[i].idx]
      /\ \A i, j \in DOMAIN slots : slots[i].idx = slots[j].idx => i = j
      /\ \A p \in (0 .. n - 1) \ {slots[i].idx : i \in DOMAIN slots} :
           \A i \in DOMAIN slots : ~ T!Better(key[p], slots[i])
  BY DEF KeepsBest
<1>2. \A p \in 0 .. n - 1 : p + 1 \in 1 .. n /\ (p + 1) - 1 = p
  OBVIOUS
<1>3. \A i \in 1 .. n : i - 1 \in 0 .. n - 1 /\ (i - 1) + 1 = i
  OBVIOUS
<1>4. /\ hits = [i \in 1 .. n |-> [id |-> i - 1, score |-> Score(qb, i - 1)]]
      /\ DOMAIN hits = 1 .. n
  BY DEF HitsOf
<1> HIDE DEF hits
<1>5. hits[h] = [id |-> slots[s].idx, score |-> slots[s].score]
  <2>1. slots[s] = [score |-> Score(qb, slots[s].idx), idx |-> slots[s].idx, tie |-> slots[s].idx]
    BY <1>1 DEF Key
  <2>2. slots[s].score = Score(qb, slots[s].idx)
    BY <2>1
  <2> QED BY <1>1, <1>2, <1>4, <2>2
<1>6. IsFiniteSet(A)
  <2>1. IsFiniteSet(DOMAIN slots)
    <3>1. DOMAIN slots = 1 .. Len(slots) /\ Len(slots) \in Nat
      OBVIOUS
    <3> QED BY <3>1, FS_Interval
  <2> QED BY <2>1, FS_Subset
<1>7. ASSUME NEW a \in 0 .. n - 1, NEW b \in 0 .. n - 1, a # b
      PROVE  /\ T!Better(key[a], key[b]) <=> Ahead(hits, a + 1, b + 1)
             /\ T!Better(key[a], key[b]) \/ T!Better(key[b], key[a])
  BY <1>4, <1>7, SortsAsHits
<1>8. ASSUME NEW a \in 0 .. n - 1
      PROVE  ~ Ahead(hits, a + 1, a + 1)
  <2> DEFINE x == Score(qb, a)
  <2>1. hits[a + 1] = [id |-> a, score |-> x] /\ x \in Nat
    BY <1>2, <1>4
  <2>2. hits[a + 1].id = a /\ hits[a + 1].score = x
    BY <2>1
  <2> QED BY <2>1, <2>2 DEF Ahead
<1>9. \A i \in DOMAIN slots : slots[i] \in Slot
  OBVIOUS
<1>10. ASSUME NEW j \in A PROVE f[j] \in B
  <2>1. j \in DOMAIN slots /\ T!SortsBefore(slots, j, s)
    OBVIOUS
  <2> DEFINE a == slots[j].idx
             b == slots[s].idx
  <2>2. a \in 0 .. n - 1 /\ b \in 0 .. n - 1 /\ slots[j] = key[a] /\ slots[s] = key[b]
    BY <1>1, <2>1
  <2>3. j # s
    <3>1. s \in Nat /\ j \in Nat
      BY <2>1
    <3>2. ~ T!Better(slots[s], slots[s])
      BY <1>9, NotBoth
    <3> QED BY <2>1, <3>1, <3>2 DEF T!SortsBefore
  <2>4. a # b
    BY <1>1, <2>1, <2>3
  <2>5. T!Better(slots[j], slots[s]) \/ ~ T!Better(slots[s], slots[j])
    BY <2>1 DEF T!SortsBefore
  <2> HIDE DEF a, b, key
  <2>6. T!Better(key[a], key[b])
    BY <1>7, <2>2, <2>4, <2>5
  <2>7. Ahead(hits, a + 1, b + 1)
    BY <1>7, <2>2, <2>4, <2>6
  <2> QED BY <1>2, <1>4, <2>2, <2>7 DEF a, b
<1>11. ASSUME NEW i \in B PROVE \E j \in A : f[j] = i
  <2> DEFINE a == i - 1
             b == slots[s].idx
  <2>1. i \in 1 .. n /\ Ahead(hits, i, b + 1)
    BY <1>4
  <2>2. a \in 0 .. n - 1 /\ b \in 0 .. n - 1 /\ slots[s] = key[b] /\ a + 1 = i
    BY <1>1, <1>3, <2>1
  <2>3. a # b
    BY <1>8, <2>1, <2>2
  <2> HIDE DEF a, b, key
  <2>4. T!Better(key[a], key[b])
    BY <1>7, <2>1, <2>2, <2>3
  <2>5. PICK j \in DOMAIN slots : slots[j].idx = a
    BY <1>1, <2>2, <2>4
  <2>6. slots[j] = key[a]
    BY <1>1, <2>5
  <2>7. j \in A
    BY <2>2, <2>4, <2>6 DEF T!SortsBefore
  <2>8. f[j] = i
    BY <2>2, <2>5, <2>7
  <2> QED BY <2>7, <2>8
<1>12. ASSUME NEW j \in A, NEW l \in A, f[j] = f[l] PROVE j = l
  <2>1. slots[j].idx \in 0 .. n - 1 /\ slots[l].idx \in 0 .. n - 1
    BY <1>1
  <2>2. slots[j].idx + 1 = slots[l].idx + 1
    BY <1>12
  <2>3. slots[j].idx = slots[l].idx
    <3> DEFINE a == slots[j].idx
               b == slots[l].idx
    <3>1. a \in 0 .. n - 1 /\ b \in 0 .. n - 1 /\ a + 1 = b + 1
      BY <2>1, <2>2
    <3> HIDE DEF a, b
    <3>2. a = b
      BY <3>1
    <3> QED BY <3>2 DEF a, b
  <2> QED BY <1>1, <2>3
<1>13. Cardinality(A) = Cardinality(B)
  <2>1. f = [j \in A |-> f[j]]
    OBVIOUS
  <2> HIDE DEF f, A, B
  <2>2. f \in [A -> B]
    BY <1>10, <2>1
  <2>3. f \in Bijection(A, B)
    BY <1>11, <1>12, <2>2 DEF Bijection, Injection, Surjection, IsInjective
  <2> QED BY <1>6, <2>3, FS_Bijection DEF ExistsBijection
<1> QED BY <1>1, <1>2, <1>5, <1>13 DEF hits, AheadOf, SortedBefore

\* A search keeps what a selection of all documents would.
LEMMA SearchRowIs ==
  ASSUME Stored, NEW q \in Vector, NEW k \in Nat, k <= n_vectors
  PROVE  SearchRow(q, k) = Selected(Everyone(q), k)
<1> DEFINE qb == QueryBitmap(q)
           top == Scan(qb, k)
           slots == top.slots
           hits == Everyone(q)
           sentinel == [score |-> NoScore, idx |-> -1]
           row == T!FinalizeInto(top, k, sentinel)
<1>1. n_vectors \in Nat
  BY DEF Stored, Layout
<1>2. /\ SearchRow(q, k) = [r \in 1 .. k |-> [id |-> row[r].idx, score |-> row[r].score]]
      /\ Selected(hits, k) = [r \in 1 .. k |-> hits[Chosen(hits, r)]]
  BY DEF SearchRow, Selected, Chosen
<1>3. CASE k = 0
  BY <1>2, <1>3
<1>4. CASE k # 0
  <2> SUFFICES ASSUME NEW r \in 1 .. k
               PROVE  [id |-> row[r].idx, score |-> row[r].score] = hits[Chosen(hits, r)]
    BY <1>2
  <2>1. slots \in Seq(Slot) /\ KeepsBest(slots, k, Key(qb), n_vectors)
    BY <1>4, ScanKeepsBest
  <2>2. Len(slots) = k
    BY <1>1, <2>1 DEF KeepsBest
  <2>3. row[r] = T!Placed(slots, r)
    BY <2>2 DEF T!FinalizeInto
  <2>4. PICK s \in DOMAIN slots :
          /\ T!Placed(slots, r) = slots[s]
          /\ Cardinality({j \in DOMAIN slots : T!SortsBefore(slots, j, s)}) = r - 1
    BY <2>1, <2>2, PlacedRank
  <2>5. /\ \A i \in 0 .. n_vectors - 1 : Score(qb, i) \in Nat
        /\ hits = HitsOf(qb)
    <3>1. \A i \in 0 .. n_vectors - 1 : Score(qb, i) \in 0 .. NTop
      BY ScoreIsOverlap
    <3> QED BY <3>1, CoordsFinite DEF Everyone, HitsOf
  <2> HIDE DEF qb, top, slots, hits, row
  <2> DEFINE h == slots[s].idx + 1
  <2>6. /\ h \in 1 .. n_vectors
        /\ hits[h] = [id |-> slots[s].idx, score |-> slots[s].score]
        /\ Cardinality({i \in DOMAIN hits : Ahead(hits, i, h)}) = r - 1
    <3>1. /\ h \in 1 .. n_vectors
          /\ hits[h] = [id |-> slots[s].idx, score |-> slots[s].score]
          /\ Cardinality(AheadOf(hits, h)) = Cardinality(SortedBefore(slots, s))
      BY <1>1, <2>1, <2>5, PlaceOfHit
    <3>2. Cardinality(SortedBefore(slots, s)) = r - 1
      BY <2>4 DEF SortedBefore
    <3>3. Cardinality(AheadOf(hits, h)) = Cardinality({i \in DOMAIN hits : Ahead(hits, i, h)})
      BY DEF AheadOf
    <3> HIDE DEF h
    <3> QED BY <3>1, <3>2, <3>3
  <2>7. hits \in Seq(Hit) /\ Len(hits) = n_vectors /\ DOMAIN hits = 1 .. n_vectors
    BY EveryoneRated DEF hits
  <2>8. r \in 1 .. Len(hits) /\ h \in DOMAIN hits
    BY <1>1, <2>6, <2>7
  <2> HIDE DEF h
  <2>9. h = Chosen(hits, r)
    BY <2>6, <2>7, <2>8, ChosenHit
  <2> QED BY <2>3, <2>4, <2>6, <2>9
<1> QED BY <1>3, <1>4

\* What the store calls best of all documents is what a search returns.
LEMMA SearchIs ==
  ASSUME Stored, NEW q \in Vector, NEW k \in Nat
  PROVE  SearchRow(q, Least(k, n_vectors)) = Store!Best(q, Store!AllIds, k)
<1>1. n_vectors \in Nat
  BY DEF Stored, Layout
<1>2. Least(k, n_vectors) \in Nat /\ Least(k, n_vectors) <= n_vectors
  BY <1>1 DEF Least
<1>3. SearchRow(q, Least(k, n_vectors)) = Selected(Everyone(q), Least(k, n_vectors))
  BY <1>2, SearchRowIs
<1>4. Store!Best(q, Store!AllIds, k) = Selected(Rated(q, Store!AllIds), Least(k, Len(Store!AllIds)))
  BY EveryoneRated, BestIsSelected
<1> QED BY <1>3, <1>4, EveryoneRated

-----------------------------------------------------------------------------
(* The steps of the index, and those of the store.                         *)

\* A row of a buffer of rows, word by word.
LEMMA BufferRow ==
  ASSUME NEW n \in Nat, NEW s \in Seq(Word), Len(s) = n * Qpv, NEW di \in 0 .. n - 1
  PROVE  SubSeq(s, di * Qpv + 1, (di + 1) * Qpv) = [w \in 1 .. Qpv |-> s[di * Qpv + w]]
<1> DEFINE first == di * Qpv + 1
           last == (di + 1) * Qpv
           row == SubSeq(s, first, last)
<1>1. Qpv \in Nat \ {0} /\ di \in Nat /\ di * Qpv \in Nat /\ last = di * Qpv + Qpv
  BY BitmapAssumption
<1>2. last <= Len(s)
  <2>1. (di + 1) * Qpv <= n * Qpv
    BY <1>1, Monotone
  <2> QED BY <2>1
<1>3. first \in 1 .. Len(s) + 1 /\ last \in first - 1 .. Len(s) /\ last - first + 1 = Qpv
  <2> DEFINE a == di * Qpv
  <2>1. a \in Nat /\ first = a + 1 /\ last = a + Qpv /\ Qpv \in Nat \ {0} /\ Len(s) \in Nat
    BY <1>1
  <2> HIDE DEF a, first, last
  <2> QED BY <1>2, <2>1
<1>4. \A w \in 1 .. Qpv : first + w - 1 = di * Qpv + w
  <2> DEFINE a == di * Qpv
  <2>1. a \in Nat /\ first = a + 1 /\ Qpv \in Nat
    BY <1>1
  <2> HIDE DEF a, first
  <2>2. \A w \in 1 .. Qpv : first + w - 1 = a + w
    BY <2>1
  <2> QED BY <2>2 DEF a
<1> HIDE DEF first, last
<1>5. /\ row \in Seq(Word) /\ Len(row) = last - first + 1
      /\ \A i \in 1 .. last - first + 1 : row[i] = s[first + i - 1]
  BY <1>3, SubSeqProperties
<1>6. row = [w \in 1 .. Qpv |-> row[w]]
  <2> HIDE DEF row
  <2> QED BY <1>3, <1>5
<1>7. \A w \in 1 .. Qpv : row[w] = s[di * Qpv + w]
  BY <1>3, <1>4, <1>5
<1> HIDE DEF row
<1> QED BY <1>6, <1>7 DEF row, first, last

\* The coordinates of a document are the bits of its words.
LEMMA BodyOfWords ==
  ASSUME Stored, NEW di \in 0 .. n_vectors - 1
  PROVE  BodyAt(di) = Unpacked([w \in 1 .. Qpv |-> bitmaps[di * Qpv + w]])
<1>1. n_vectors \in Nat /\ bitmaps \in Seq(Word) /\ Len(bitmaps) = n_vectors * Qpv
  BY DEF Stored, Layout, Persistable
<1>2. Doc(di) = [w \in 1 .. Qpv |-> bitmaps[di * Qpv + w]]
  BY <1>1, BufferRow DEF Doc
<1> QED BY <1>2 DEF BodyAt, Unpacked

\* The same after a step.
LEMMA NextBodyOfWords ==
  ASSUME Stored', NEW di \in 0 .. n_vectors' - 1
  PROVE  BodyAt(di)' = Unpacked([w \in 1 .. Qpv |-> bitmaps'[di * Qpv + w]])
<1>1. n_vectors' \in Nat /\ bitmaps' \in Seq(Word) /\ Len(bitmaps') = n_vectors' * Qpv
  BY DEF Stored, Layout, Persistable
<1>2. Doc(di)' = [w \in 1 .. Qpv |-> bitmaps'[di * Qpv + w]]
  BY <1>1, BufferRow DEF Doc
<1> QED BY <1>2 DEF BodyAt, Unpacked

\* One list after another is the list that has their elements at their places.
LEMMA IsJoined ==
  ASSUME NEW S, NEW a \in Seq(S), NEW b \in Seq(S), NEW n, n = Len(a) + Len(b),
         NEW c, c = [i \in 1 .. n |-> c[i]],
         \A i \in 1 .. Len(a) : c[i] = a[i],
         \A i \in 1 .. Len(b) : c[Len(a) + i] = b[i]
  PROVE  c = a \o b
<1> DEFINE both == a \o b
           m == Len(a)
           l == Len(b)
<1>1. /\ m \in Nat /\ l \in Nat /\ both \in Seq(S) /\ Len(both) = m + l
      /\ \A i \in 1 .. m + l : both[i] = IF i <= m THEN a[i] ELSE b[i - m]
  BY ConcatProperties, LenProperties
<1>2. both = [i \in 1 .. m + l |-> both[i]]
  <2> HIDE DEF both, m, l
  <2> QED BY <1>1
<1>3. ASSUME NEW i \in 1 .. m + l PROVE c[i] = both[i]
  <2>1. CASE i <= m
    <3>1. i \in 1 .. m
      BY <1>1, <2>1
    <3> QED BY <1>1, <2>1, <3>1
  <2>2. CASE ~ i <= m
    <3>1. i - m \in 1 .. l /\ m + (i - m) = i
      BY <1>1, <2>2
    <3> QED BY <1>1, <2>2, <3>1
  <2> QED BY <2>1, <2>2
<1> HIDE DEF both
<1> QED BY <1>2, <1>3 DEF both

\* The store gets the bodies of the vectors.
LEMMA AddIs ==
  ASSUME Stored, Stored', NEW vs \in Additions, Add(vs), answer = NoAnswer
  PROVE  Store!Add([i \in DOMAIN vs |-> Body(vs[i])])
<1> DEFINE n == n_vectors
           new == [i \in DOMAIN vs |-> Body(vs[i])]
           next == [i \in 1 .. n_vectors' |-> BodyAt(i - 1)']
<1>1. Layout /\ n \in Nat /\ Qpv \in Nat \ {0}
  BY BitmapAssumption DEF Stored, Layout
<1>2. /\ vs \in Seq(Vector) /\ Len(vs) \in Nat /\ DOMAIN vs = 1 .. Len(vs) /\ n_vectors' = n + Len(vs)
  BY <1>1, AddWords, LenProperties
<1>3. \A i \in DOMAIN vs : vs[i] \in Vector
  BY <1>2, ElementOfSeq
<1>4. new \in Seq(SUBSET Coords) /\ Len(new) = Len(vs)
  <2>1. \A i \in DOMAIN vs : Body(vs[i]) \in SUBSET Coords
    BY <1>3, RowIsBody
  <2>2. new \in [1 .. Len(vs) -> SUBSET Coords]
    BY <1>2, <2>1
  <2> HIDE DEF new
  <2>3. new \in Seq(SUBSET Coords) /\ new = [i \in 1 .. Len(vs) |-> new[i]]
    BY <1>2, <2>2
  <2> QED BY <1>2, <2>3, LenOfFunction
<1>5. Bodies \in Seq(SUBSET Coords) /\ Len(Bodies) = n
  <2>1. \A i \in 1 .. n : BodyAt(i - 1) \in SUBSET Coords
    BY DEF BodyAt
  <2> QED BY <1>1, <2>1, BodiesAre DEF Bodies
<1>6. ASSUME NEW i \in 1 .. n PROVE next[i] = Bodies[i]
  <2>1. i - 1 \in 0 .. n - 1 /\ i - 1 \in 0 .. n_vectors' - 1 /\ i \in 1 .. n_vectors'
    BY <1>1, <1>2
  <2>2. \A w \in 1 .. Qpv : bitmaps'[(i - 1) * Qpv + w] = bitmaps[(i - 1) * Qpv + w]
    BY <1>1, <2>1, AddWords
  <2>3. BodyAt(i - 1)' = Unpacked([w \in 1 .. Qpv |-> bitmaps'[(i - 1) * Qpv + w]])
    BY <2>1, NextBodyOfWords
  <2>4. BodyAt(i - 1) = Unpacked([w \in 1 .. Qpv |-> bitmaps[(i - 1) * Qpv + w]])
    BY <2>1, BodyOfWords
  <2>5. [w \in 1 .. Qpv |-> bitmaps'[(i - 1) * Qpv + w]]
          = [w \in 1 .. Qpv |-> bitmaps[(i - 1) * Qpv + w]]
    BY <2>2
  <2>6. BodyAt(i - 1)' = BodyAt(i - 1)
    BY <2>3, <2>4, <2>5
  <2> QED BY <2>1, <2>6 DEF Bodies
<1>7. ASSUME NEW i \in 1 .. Len(vs) PROVE next[n + i] = new[i]
  <2>0. PICK di : di = n + (i - 1)
    OBVIOUS
  <2>1. di \in 0 .. n_vectors' - 1 /\ n + i \in 1 .. n_vectors' /\ (n + i) - 1 = di
    BY <1>1, <1>2, <2>0
  <2>2. \A w \in 1 .. Qpv : bitmaps'[di * Qpv + w] = RowOf(vs[i])[w]
    BY <1>1, <2>0, AddWords
  <2>3. vs[i] \in Vector /\ new[i] = Body(vs[i])
    BY <1>2, <1>3
  <2>4. RowOf(vs[i]) = Packed(Body(vs[i])) /\ Body(vs[i]) \in SUBSET Coords
    BY <2>3, RowIsBody
  <2> HIDE DEF new
  <2>5. BodyAt(di)' = Unpacked([w \in 1 .. Qpv |-> bitmaps'[di * Qpv + w]])
    BY <2>1, NextBodyOfWords
  <2>6. Packed(Body(vs[i])) = [w \in 1 .. Qpv |-> Packed(Body(vs[i]))[w]]
    BY DEF Packed
  <2>7. [w \in 1 .. Qpv |-> bitmaps'[di * Qpv + w]] = Packed(Body(vs[i]))
    BY <2>2, <2>4, <2>6
  <2>8. Unpacked(Packed(Body(vs[i]))) = Body(vs[i])
    BY <2>4, UnpackPacked
  <2>9. BodyAt(di)' = Body(vs[i])
    BY <2>5, <2>7, <2>8
  <2> QED BY <2>1, <2>3, <2>9
<1>8. next = Bodies \o new
  <2>1. next = [i \in 1 .. n_vectors' |-> next[i]] /\ n_vectors' = Len(Bodies) + Len(new)
    BY <1>2, <1>4, <1>5
  <2>2. \A i \in 1 .. Len(Bodies) : next[i] = Bodies[i]
    BY <1>5, <1>6
  <2>3. \A i \in 1 .. Len(new) : next[Len(Bodies) + i] = new[i]
    BY <1>4, <1>5, <1>7
  <2> HIDE DEF next, new
  <2> QED BY <1>4, <1>5, <2>1, <2>2, <2>3, IsJoined, ZenonT(30)
<1>9. n + Len(vs) <= MaxVectors /\ answer' = answer
  BY DEF Add
<1>10. Bodies' = Bodies \o new
  BY <1>8 DEF Bodies
<1>11. Store!n + Len(new) <= MaxVectors
  BY <1>4, <1>9, BodiesAre
<1> HIDE DEF new, next
<1>12. Store!Add(new)
  BY <1>9, <1>10, <1>11 DEF Store!Add, Store!NoAnswer, NoAnswer, Bodies
<1> QED BY <1>12 DEF new

\* The store's last document takes the free number.
LEMMA SwapRemoveIs ==
  ASSUME Stored, Stored', NEW idx \in 0 .. n_vectors - 1, SwapRemove(idx), answer = NoAnswer
  PROVE  idx \in 0 .. Store!n - 1 /\ Store!SwapRemove(idx)
<1> DEFINE n == n_vectors
           next == [i \in 1 .. n_vectors' |-> BodyAt(i - 1)']
<1>1. Layout /\ n \in Nat /\ Store!n = n
  BY BodiesAre DEF Stored, Layout
<1>2. n_vectors' = n - 1 /\ n - 1 \in 0 .. n - 1
  BY <1>1, SwapRemoveWords
<1>3. ASSUME NEW i \in 1 .. n - 1
      PROVE  next[i] = IF i = idx + 1 THEN Bodies[n] ELSE Bodies[i]
  <2>1. PICK from : from = IF i - 1 = idx THEN n - 1 ELSE i - 1
    OBVIOUS
  <2>2. /\ from \in 0 .. n - 1 /\ i - 1 \in 0 .. n_vectors' - 1 /\ i \in 1 .. n_vectors'
        /\ from + 1 \in 1 .. n /\ (from + 1) - 1 = from
        /\ from + 1 = IF i = idx + 1 THEN n ELSE i
    BY <1>1, <1>2, <2>1
  <2>3. \A w \in 1 .. Qpv : bitmaps'[(i - 1) * Qpv + w] = bitmaps[from * Qpv + w]
    BY <1>1, <2>1, <2>2, SwapRemoveWords
  <2>4. BodyAt(i - 1)' = Unpacked([w \in 1 .. Qpv |-> bitmaps'[(i - 1) * Qpv + w]])
    BY <2>2, NextBodyOfWords
  <2>5. BodyAt(from) = Unpacked([w \in 1 .. Qpv |-> bitmaps[from * Qpv + w]])
    BY <2>2, BodyOfWords
  <2>6. [w \in 1 .. Qpv |-> bitmaps'[(i - 1) * Qpv + w]]
          = [w \in 1 .. Qpv |-> bitmaps[from * Qpv + w]]
    BY <2>3
  <2>7. BodyAt(i - 1)' = BodyAt(from)
    BY <2>4, <2>5, <2>6
  <2>8. next[i] = Bodies[from + 1]
    BY <2>2, <2>7 DEF Bodies
  <2> QED BY <2>2, <2>8
<1>4. next = [i \in 1 .. n - 1 |-> IF i = idx + 1 THEN Bodies[n] ELSE Bodies[i]]
  <2>1. next = [i \in 1 .. n - 1 |-> next[i]]
    BY <1>2
  <2> HIDE DEF next
  <2> QED BY <1>3, <2>1
<1>5. Bodies' = [i \in 1 .. n - 1 |-> IF i = idx + 1 THEN Bodies[n] ELSE Bodies[i]]
  BY <1>4 DEF Bodies
<1>6. answer' = answer
  BY DEF SwapRemove
<1>7. Store!SwapRemove(idx)
  BY <1>1, <1>5, <1>6 DEF Store!SwapRemove, Store!NoAnswer, NoAnswer, Bodies
<1> QED BY <1>1, <1>7

\* A call that leaves the index alone leaves the documents alone.
LEMMA DocsStay == ASSUME UNCHANGED index PROVE Bodies' = Bodies
BY DEF Bodies, BodyAt, Doc, index

\* A search is a search of the store.
LEMMA SearchMaps ==
  ASSUME Stored, answer = NoAnswer, NEW qs \in QueryLists, NEW k \in Ks, Search(qs, k)
  PROVE  Store!Search(qs, k)
<1>1. qs \in Seq(Vector) /\ k \in Nat
  BY BitmapAssumption
<1>2. answer' = [i \in DOMAIN qs |-> SearchRow(qs[i], Least(k, n_vectors))] /\ UNCHANGED index
  BY DEF Search, Returning
<1>3. \A i \in DOMAIN qs : SearchRow(qs[i], Least(k, n_vectors)) = Store!Best(qs[i], Store!AllIds, k)
  BY <1>1, SearchIs
<1>4. answer' = [i \in DOMAIN qs |-> Store!Best(qs[i], Store!AllIds, k)]
  BY <1>2, <1>3
<1>5. Bodies' = Bodies
  BY <1>2, DocsStay
<1> QED BY <1>4, <1>5 DEF Store!Search, Store!NoAnswer, NoAnswer, Bodies

\* The candidates are those of the store.
LEMMA CandidatesMap ==
  ASSUME Stored, answer = NoAnswer, NEW qs \in QueryLists, qs # <<>>, NEW m \in Ks,
         TopMCandidates(qs[1], m)
  PROVE  Store!Candidates(<<qs[1]>>, m)
<1>1. qs \in Seq(Vector) /\ m \in Nat
  BY BitmapAssumption
<1>2. qs[1] \in Vector
  BY <1>1
<1>3. answer' = <<Dropped(Selected(Everyone(qs[1]), Least(m, n_vectors)))>> /\ UNCHANGED index
  BY DEF TopMCandidates, Returning, Everyone
<1>4. answer' = <<CandidateRow(qs[1], m)>>
  BY <1>1, <1>2, <1>3, CandidatesAre
<1>5. Bodies' = Bodies
  BY <1>3, DocsStay
<1> DEFINE q == qs[1]
           one == <<q>>
<1>6. <<CandidateRow(q, m)>> = [i \in DOMAIN one |-> CandidateRow(one[i], m)]
  <2> HIDE DEF q
  <2> QED OBVIOUS
<1>7. answer' = [i \in DOMAIN one |-> CandidateRow(one[i], m)]
  BY <1>4, <1>6
<1> HIDE DEF one
<1>8. Store!Candidates(one, m)
  BY <1>5, <1>7 DEF Store!Candidates, Store!NoAnswer, NoAnswer, Bodies, CandidateRow
<1> QED BY <1>8 DEF one

\* A search among given documents is that of the store.
LEMMA SubsetMaps ==
  ASSUME Stored, answer = NoAnswer, NEW qs \in QueryLists, qs # <<>>, NEW ids \in IdLists,
         NEW k \in Ks, SearchSubset(qs[1], ids, k)
  PROVE  Store!Subset(qs[1], ids, k)
<1> DEFINE q == qs[1]
           kEff == Least(k, Len(ids))
           hits == [i \in DOMAIN ids |-> [id |-> ids[i], score |-> Score(QueryBitmap(q), ids[i])]]
<1>1. q \in Vector /\ ids \in Seq(Nat) /\ k \in Nat
  BY BitmapAssumption
<1>2. /\ kEff > 0 => \A i \in DOMAIN ids : ids[i] < n_vectors
      /\ answer' = <<IF kEff = 0 THEN <<>> ELSE Selected(hits, kEff)>> /\ UNCHANGED index
  BY DEF SearchSubset, Returning
<1>3. Store!Best(q, ids, k) = IF kEff = 0 THEN <<>> ELSE Selected(hits, kEff)
  <2> HIDE DEF q
  <2> QED BY <1>1, <1>2, SubsetIs DEF q
<1>4. Bodies' = Bodies /\ Store!n = n_vectors
  BY <1>2, DocsStay, BodiesAre
<1>5. answer' = <<Store!Best(q, ids, k)>>
  BY <1>2, <1>3
<1>6. Store!Fewer(k, Len(ids)) = kEff
  BY DEF Store!Fewer, Least
<1> HIDE DEF hits, kEff, q
<1>7. Store!Subset(q, ids, k)
  BY <1>2, <1>4, <1>5, <1>6 DEF Store!Subset, Store!NoAnswer, NoAnswer, Bodies
<1> QED BY <1>7 DEF q

-----------------------------------------------------------------------------
(* The chunked call.                                                       *)

\* A list of queries and its chunks.
LEMMA ChunkFacts ==
  ASSUME NEW qs \in QueryLists, NEW size \in BatchSizes
  PROVE  /\ qs \in Seq(Vector) /\ Len(qs) \in Nat /\ size \in Nat \ {0}
         /\ Len(ChunksOf(qs, size)) \in Nat
         /\ DOMAIN ChunksOf(qs, size) = 1 .. Len(ChunksOf(qs, size))
         /\ Least(Len(ChunksOf(qs, size)) * size, Len(qs)) = Len(qs)
         /\ \A c \in 1 .. Len(ChunksOf(qs, size)) :
              /\ (c - 1) * size \in Nat /\ (c - 1) * size < Len(qs)
              /\ Least((c - 1) * size, Len(qs)) = (c - 1) * size
              /\ Len(ChunksOf(qs, size)[c]) \in Nat \ {0}
              /\ Least(c * size, Len(qs)) = (c - 1) * size + Len(ChunksOf(qs, size)[c])
              /\ \A b \in 1 .. Len(ChunksOf(qs, size)[c]) :
                   /\ (c - 1) * size + b \in DOMAIN qs
                   /\ ChunksOf(qs, size)[c][b] = qs[(c - 1) * size + b]
                   /\ ChunksOf(qs, size)[c][b] \in Vector
<1> DEFINE n == Len(qs)
           count == (n + size - 1) \div size
           chunks == ChunksOf(qs, size)
<1>1. qs \in Seq(Vector) /\ n \in Nat /\ size \in Nat \ {0} /\ DOMAIN qs = 1 .. n
  BY BitmapAssumption, LenProperties
<1>2. count \in Nat /\ count * size <= n + size - 1 /\ n <= count * size /\ count * size \in Nat
  <2> DEFINE x == n + size - 1
  <2>1. x \in Nat
    BY <1>1
  <2> HIDE DEF x
  <2>2. x \div size \in Nat /\ x % size \in 0 .. size - 1 /\ x = (x \div size) * size + (x % size)
    BY <1>1, <2>1, Divided
  <2> DEFINE q == x \div size
             r == x % size
             p == q * size
  <2>3. q \in Nat /\ r \in 0 .. size - 1 /\ x = p + r /\ p \in Nat
    <3>1. q \in Nat /\ r \in 0 .. size - 1 /\ x = q * size + r
      BY <2>2
    <3> HIDE DEF q, r
    <3> QED BY <1>1, <3>1
  <2> HIDE DEF q, r, p
  <2>4. p <= x /\ x < p + size
    BY <1>1, <2>1, <2>3
  <2>5. n <= p
    BY <1>1, <2>3, <2>4 DEF x
  <2> QED BY <2>3, <2>4, <2>5 DEF x, p, q
<1> HIDE DEF count
<1>3. chunks = [c \in 1 .. count |-> SubSeq(qs, (c - 1) * size + 1, Least(c * size, n))]
  BY DEF ChunksOf, count
<1>4. Len(chunks) = count
  <2>1. chunks = [c \in 1 .. count |-> chunks[c]]
    BY <1>3
  <2> HIDE DEF chunks
  <2> QED BY <1>2, <2>1, LenOfFunction
<1>5. ASSUME NEW c \in 1 .. count
      PROVE  /\ (c - 1) * size \in Nat /\ (c - 1) * size < n
             /\ Least((c - 1) * size, n) = (c - 1) * size
             /\ Len(chunks[c]) \in Nat \ {0}
             /\ Least(c * size, n) = (c - 1) * size + Len(chunks[c])
             /\ \A b \in 1 .. Len(chunks[c]) :
                  /\ (c - 1) * size + b \in 1 .. n
                  /\ chunks[c][b] = qs[(c - 1) * size + b]
                  /\ chunks[c][b] \in Vector
  <2> DEFINE a == (c - 1) * size
             e == Least(c * size, n)
             row == SubSeq(qs, a + 1, e)
  <2>1. c * size <= count * size
    BY <1>1, <1>2, Monotone, c \in Nat, c <= count, size \in Nat
  <2>2. a \in Nat /\ c * size = a + size
    BY <1>1
  <2>3. a < n /\ e \in a + 1 .. n /\ Least(a, n) = a
    <3> DEFINE p == c * size
               l == count * size
    <3>1. p <= l /\ l <= n + size - 1 /\ p = a + size /\ p \in Nat /\ l \in Nat
      BY <1>1, <1>2, <2>1, <2>2
    <3> HIDE DEF p, l, a
    <3>2. a < n
      BY <1>1, <2>2, <3>1
    <3>3. Least(p, n) \in a + 1 .. n /\ Least(a, n) = a
      <4>1. n \in Nat /\ a \in Nat /\ p \in Nat /\ a < p
        BY <1>1, <2>2, <3>1
      <4> HIDE DEF n
      <4> QED BY <3>2, <4>1 DEF Least
    <3>4. e = Least(p, n)
      BY DEF p
    <3> QED BY <3>2, <3>3, <3>4
  <2>4. chunks[c] = row
    BY <1>3
  <2> HIDE DEF a, e, chunks
  <2>5. a + 1 \in 1 .. n + 1 /\ e \in (a + 1) - 1 .. n /\ e - (a + 1) + 1 = e - a
    BY <1>1, <2>2, <2>3
  <2>6. /\ Len(row) = e - a
        /\ \A b \in 1 .. e - a : row[b] = qs[(a + 1) + b - 1]
    BY <1>1, <2>5, SubSeqProperties
  <2>7. Len(chunks[c]) \in Nat \ {0} /\ e = a + Len(chunks[c])
    BY <1>1, <2>2, <2>3, <2>4, <2>6
  <2>8. ASSUME NEW b \in 1 .. Len(chunks[c])
        PROVE  a + b \in 1 .. n /\ chunks[c][b] = qs[a + b] /\ chunks[c][b] \in Vector
    <3>1. b \in 1 .. e - a /\ a + b \in 1 .. n /\ (a + 1) + b - 1 = a + b
      BY <1>1, <2>2, <2>3, <2>7
    <3>2. qs[a + b] \in Vector
      BY <1>1, <3>1, ElementOfSeq
    <3> QED BY <2>4, <2>6, <3>1, <3>2
  <2> QED BY <2>2, <2>3, <2>7, <2>8 DEF a, e
<1>6. Least(count * size, n) = n
  <2> DEFINE p == count * size
  <2>1. p \in Nat /\ n <= p /\ n \in Nat
    BY <1>1, <1>2
  <2> HIDE DEF p, n
  <2>2. Least(p, n) = n
    BY <2>1 DEF Least
  <2> QED BY <2>2 DEF p
<1> HIDE DEF n, chunks
<1> QED BY <1>1, <1>2, <1>3, <1>4, <1>5, <1>6 DEF n, chunks

\* The candidates of a query.
Given(q, m) == Dropped(Selected(Everyone(q), Least(m, n_vectors)))

\* The rows of a chunk.
ChunkRows(c) == [b \in 1 .. Len(job.chunks[c]) |-> Given(job.chunks[c][b], job.m)]

\* No answer is held while a call is in progress, and a chunked call has finished
\* some of the chunks of its queries.
Answering ==
  /\ pc \in {"idle", "chunks", "score", "select"} => answer = NoAnswer
  /\ pc \in {"chunks", "score", "select"} =>
       /\ \E qs \in QueryLists, size \in BatchSizes : job.chunks = ChunksOf(qs, size)
       /\ job.m \in Ks
       /\ \A c \in DOMAIN job.chunks : done[c] = <<>> \/ done[c] = ChunkRows(c)

\* The candidates of a query depend on the index alone.
LEMMA GivenStays ==
  ASSUME UNCHANGED index, NEW q, NEW m
  PROVE  Given(q, m)' = Given(q, m)
<1>1. Everyone(q)' = Everyone(q) /\ n_vectors' = n_vectors
  BY DEF Everyone, Score, Doc, index
<1> QED BY <1>1 DEF Given

\* The rows of a chunk depend on the index and on the job alone.
LEMMA RowsStay ==
  ASSUME UNCHANGED index, job' = job, NEW c
  PROVE  ChunkRows(c)' = ChunkRows(c)
<1>1. \A b : Given(job.chunks[c][b], job.m)' = Given(job.chunks[c][b], job.m)
  <2> SUFFICES ASSUME NEW b
               PROVE  Given(job.chunks[c][b], job.m)' = Given(job.chunks[c][b], job.m)
    OBVIOUS
  <2>1. PICK q, m : q = job.chunks[c][b] /\ m = job.m
    OBVIOUS
  <2>2. Given(q, m)' = Given(q, m)
    BY GivenStays
  <2> QED BY <2>1, <2>2
<1> QED BY <1>1 DEF ChunkRows

Behind(a, b) == a \o b

\* What has the elements of a and then those of b is one behind the other.
LEMMA IsBehind ==
  ASSUME NEW S, NEW a \in Seq(S), NEW b \in Seq(S), NEW n, n = Len(a) + Len(b),
         NEW c, c = [i \in 1 .. n |-> c[i]],
         \A i \in 1 .. Len(a) : c[i] = a[i],
         \A i \in 1 .. Len(b) : c[Len(a) + i] = b[i]
  PROVE  c = Behind(a, b)
BY IsJoined, ZenonT(30) DEF Behind

\* The first n of some lists, one after the other.
Joining(parts, n) ==
  LET rows[c \in 0 .. n] == IF c = 0 THEN <<>> ELSE rows[c - 1] \o parts[c]
  IN  rows[n]

\* The rows are put together chunk by chunk.
LEMMA CollectRuns ==
  ASSUME NEW n \in Nat, NEW parts
  PROVE  \E rows : /\ Joining(parts, n) = rows[n] /\ rows[0] = <<>>
                   /\ \A c \in 1 .. n : rows[c] = Behind(rows[c - 1], parts[c])
<1> DEFINE none == <<>>
           G(f, m) == [c \in 0 .. m |-> IF c = 0 THEN none ELSE Behind(f[c - 1], parts[c])]
           rows == CHOOSE f : f = G(f, n)
           Missing == {m \in 0 .. n : ~ \E f : f = G(f, m)}
<1>1. Joining(parts, n) = rows[n]
  BY DEF Joining, Behind
<1> HIDE DEF none
<1>2. Missing = {}
  <2>1. SUFFICES ASSUME Missing # {} PROVE FALSE
    OBVIOUS
  <2>2. PICK m \in Missing : \A l \in Missing : m <= l
    <3>1. Missing \in SUBSET Nat
      OBVIOUS
    <3> HIDE DEF Missing
    <3> QED BY <2>1, <3>1, LeastNumber
  <2>3. m \in 0 .. n /\ m \in Nat /\ ~ \E f : f = G(f, m)
    OBVIOUS
  <2>4. CASE m = 0
    <3> DEFINE g == [i \in 0 .. 0 |-> none]
    <3>1. g = G(g, 0)
      OBVIOUS
    <3> QED BY <2>3, <2>4, <3>1
  <2>5. CASE m # 0
    <3>1. m - 1 \in 0 .. n /\ ~ m <= m - 1 /\ m - 1 \in 0 .. m - 1
      BY <2>3, <2>5
    <3>2. m - 1 \notin Missing
      <4> HIDE DEF Missing
      <4> QED BY <2>2, <3>1
    <3>3. PICK f : f = G(f, m - 1)
      BY <3>1, <3>2
    <3> DEFINE g == [i \in 0 .. m |-> IF i = m THEN Behind(f[m - 1], parts[m]) ELSE f[i]]
    <3>4. \A i \in 0 .. m - 1 : f[i] = IF i = 0 THEN none ELSE Behind(f[i - 1], parts[i])
      BY <3>3
    <3>5. g[m] = Behind(f[m - 1], parts[m]) /\ \A i \in 0 .. m - 1 : g[i] = f[i]
      <4>1. m \in 0 .. m /\ \A i \in 0 .. m - 1 : i \in 0 .. m /\ i # m
        BY <2>3
      <4> QED BY <4>1
    <3>6. \A i \in 0 .. m : i = m \/ (i \in 0 .. m - 1 /\ (i # 0 => i - 1 \in 0 .. m - 1))
      BY <2>3
    <3>7. g = [i \in 0 .. m |-> g[i]]
      OBVIOUS
    <3> HIDE DEF g
    <3>8. \A i \in 0 .. m : g[i] = IF i = 0 THEN none ELSE Behind(g[i - 1], parts[i])
      BY <2>5, <3>1, <3>4, <3>5, <3>6
    <3>9. g = G(g, m)
      BY <3>7, <3>8
    <3> QED BY <2>3, <3>9
  <2> QED BY <2>4, <2>5
<1>3. rows = G(rows, n)
  <2>1. \E f : f = G(f, n)
    <3>1. n \notin Missing
      <4> HIDE DEF Missing
      <4> QED BY <1>2
    <3>2. n \in 0 .. n
      OBVIOUS
    <3> HIDE DEF G
    <3> QED BY <3>1, <3>2
  <2> HIDE DEF G
  <2> QED BY <2>1
<1> HIDE DEF rows, Missing
<1>4. 0 \in 0 .. n /\ \A i \in 1 .. n : i \in 0 .. n /\ i # 0
  OBVIOUS
<1>5. rows[0] = none /\ \A i \in 1 .. n : rows[i] = Behind(rows[i - 1], parts[i])
  BY <1>3, <1>4
<1> QED BY <1>1, <1>5 DEF none

\* Together they are the rows of the queries, in their order.
LEMMA CollectMaps ==
  ASSUME Stored, Shape, Answering, Collect
  PROVE  \E qs \in QueryLists, m \in Ks : Store!Candidates(qs, m)
<1>1. /\ pc = "chunks" /\ answer = NoAnswer /\ UNCHANGED index
      /\ DOMAIN done = DOMAIN job.chunks /\ \A c \in DOMAIN done : done[c] # <<>>
      /\ job.m \in Ks /\ \A c \in DOMAIN job.chunks : done[c] = <<>> \/ done[c] = ChunkRows(c)
      /\ \E qs \in QueryLists, size \in BatchSizes : job.chunks = ChunksOf(qs, size)
  BY DEF Collect, Answering, Shape
<1>2. PICK qs \in QueryLists, size \in BatchSizes : job.chunks = ChunksOf(qs, size)
  BY <1>1
<1> DEFINE chunks == ChunksOf(qs, size)
           n == Len(chunks)
           l == Len(qs)
           m == job.m
           Of(i) == Given(qs[i], m)
           S == {Of(i) : i \in 1 .. l}
<1>3. /\ qs \in Seq(Vector) /\ l \in Nat /\ size \in Nat \ {0} /\ n \in Nat
      /\ DOMAIN chunks = 1 .. n /\ Least(n * size, l) = l /\ DOMAIN qs = 1 .. l
  BY ChunkFacts, LenProperties
<1>4. PICK rows : /\ answer' = rows[n] /\ rows[0] = <<>>
                  /\ \A c \in 1 .. n : rows[c] = Behind(rows[c - 1], done[c])
  <2>1. answer' = Joining(done, n)
    BY <1>2 DEF Collect, Joining
  <2>2. n \in Nat
    BY <1>3
  <2> HIDE DEF n
  <2>3. \E rows : /\ Joining(done, n) = rows[n] /\ rows[0] = <<>>
                  /\ \A c \in 1 .. n : rows[c] = Behind(rows[c - 1], done[c])
    BY <2>2, CollectRuns, ZenonT(30)
  <2> QED BY <2>1, <2>3
<1>5. ASSUME NEW c \in 1 .. n
      PROVE  /\ (c - 1) * size \in Nat /\ (c - 1) * size < l
             /\ Least((c - 1) * size, l) = (c - 1) * size
             /\ Len(chunks[c]) \in Nat \ {0}
             /\ Least(c * size, l) = (c - 1) * size + Len(chunks[c])
             /\ \A b \in 1 .. Len(chunks[c]) : (c - 1) * size + b \in 1 .. l
             /\ done[c] = [b \in 1 .. Len(chunks[c]) |-> Of((c - 1) * size + b)]
  <2>1. /\ (c - 1) * size \in Nat /\ (c - 1) * size < l
        /\ Least((c - 1) * size, l) = (c - 1) * size
        /\ Len(chunks[c]) \in Nat \ {0}
        /\ Least(c * size, l) = (c - 1) * size + Len(chunks[c])
        /\ \A b \in 1 .. Len(chunks[c]) : (c - 1) * size + b \in DOMAIN qs
                                           /\ chunks[c][b] = qs[(c - 1) * size + b]
    <3>1. \A d \in 1 .. Len(ChunksOf(qs, size)) :
            /\ (d - 1) * size \in Nat /\ (d - 1) * size < Len(qs)
            /\ Least((d - 1) * size, Len(qs)) = (d - 1) * size
            /\ Len(ChunksOf(qs, size)[d]) \in Nat \ {0}
            /\ Least(d * size, Len(qs)) = (d - 1) * size + Len(ChunksOf(qs, size)[d])
            /\ \A b \in 1 .. Len(ChunksOf(qs, size)[d]) :
                 /\ (d - 1) * size + b \in DOMAIN qs
                 /\ ChunksOf(qs, size)[d][b] = qs[(d - 1) * size + b]
                 /\ ChunksOf(qs, size)[d][b] \in Vector
      BY ChunkFacts
    <3> QED BY <3>1
  <2>2. done[c] = ChunkRows(c)
    <3>1. c \in DOMAIN job.chunks
      BY <1>2, <1>3
    <3> QED BY <1>1, <3>1
  <2>3. done[c] = [b \in 1 .. Len(chunks[c]) |-> Given(chunks[c][b], m)]
    BY <1>2, <2>2 DEF ChunkRows
  <2> HIDE DEF chunks
  <2> QED BY <1>3, <2>1, <2>3
<1> DEFINE Front(x) == [i \in 1 .. x |-> Of(i)]
           Wrong == {c \in 0 .. n : rows[c] # Front(Least(c * size, l))}
<1>6. \A x \in 0 .. l : Front(x) \in Seq(S) /\ Len(Front(x)) = x
  <2> SUFFICES ASSUME NEW x \in 0 .. l PROVE Front(x) \in Seq(S) /\ Len(Front(x)) = x
    OBVIOUS
  <2>1. x \in Nat /\ \A i \in 1 .. x : i \in 1 .. l
    BY <1>3
  <2> HIDE DEF Of, l
  <2>2. Front(x) \in [1 .. x -> S]
    BY <2>1
  <2>3. Front(x) \in Seq(S)
    BY <2>1, <2>2
  <2>4. Front(x) = [i \in 1 .. x |-> Front(x)[i]]
    OBVIOUS
  <2> HIDE DEF Front
  <2> QED BY <2>1, <2>3, <2>4, LenOfFunction
<1> HIDE DEF chunks, n, l, m, Of, S, Front
<1>7. Wrong = {}
  <2>1. SUFFICES ASSUME Wrong # {} PROVE FALSE
    OBVIOUS
  <2>2. PICK c \in Wrong : \A k \in Wrong : c <= k
    <3>1. Wrong \in SUBSET Nat
      BY <1>3
    <3> HIDE DEF Wrong
    <3> QED BY <2>1, <3>1, LeastNumber
  <2>3. c \in 0 .. n /\ c \in Nat /\ rows[c] # Front(Least(c * size, l))
    BY <1>3
  <2>4. c # 0
    <3>1. Front(0) = <<>>
      BY DEF Front
    <3>2. Least(0 * size, l) = 0
      BY <1>3 DEF Least
    <3> QED BY <1>4, <2>3, <3>1, <3>2
  <2>5. c \in 1 .. n /\ c - 1 \in 0 .. n /\ ~ c <= c - 1
    BY <1>3, <2>3, <2>4
  <2> DEFINE a == (c - 1) * size
             w == Len(chunks[c])
  <2>6. rows[c - 1] = Front(a)
    <3>1. c - 1 \notin Wrong
      <4> HIDE DEF Wrong
      <4> QED BY <2>2, <2>5
    <3>2. rows[c - 1] = Front(Least((c - 1) * size, l))
      BY <2>5, <3>1
    <3> QED BY <1>5, <2>5, <3>2
  <2>7. /\ a \in Nat /\ a < l /\ w \in Nat \ {0} /\ Least(c * size, l) = a + w
        /\ \A b \in 1 .. w : a + b \in 1 .. l
        /\ done[c] = [b \in 1 .. w |-> Of(a + b)]
    BY <1>5, <2>5
  <2>8. rows[c] = Behind(Front(a), done[c])
    BY <1>4, <2>5, <2>6
  <2> HIDE DEF a, w
  <2>9. a \in 0 .. l /\ a + w \in 0 .. l /\ a + w \in Nat
    <3>1. w \in 1 .. w
      BY <2>7
    <3>2. a + w \in 1 .. l
      BY <2>7, <3>1
    <3> QED BY <1>3, <2>7, <3>2
  <2>10. done[c] \in Seq(S) /\ Len(done[c]) = w
    <3>1. done[c] \in [1 .. w -> S]
      BY <2>7 DEF S
    <3>2. done[c] \in Seq(S) /\ done[c] = [b \in 1 .. w |-> done[c][b]]
      BY <2>7, <3>1
    <3> QED BY <2>7, <3>2, LenOfFunction
  <2>11. Front(a) \in Seq(S) /\ Len(Front(a)) = a
    BY <1>6, <2>9
  <2>12. Front(a + w) = [i \in 1 .. a + w |-> Front(a + w)[i]]
    BY DEF Front
  <2>13. ASSUME NEW i \in 1 .. a PROVE Front(a + w)[i] = Front(a)[i]
    <3>1. i \in 1 .. a + w
      BY <2>7
    <3> QED BY <3>1 DEF Front
  <2>14. ASSUME NEW i \in 1 .. w PROVE Front(a + w)[a + i] = done[c][i]
    <3>1. a + i \in 1 .. a + w
      BY <2>7
    <3> QED BY <2>7, <3>1 DEF Front
  <2>15. Front(a + w) = Behind(Front(a), done[c])
    <3> DEFINE f == Front(a)
               g == Front(a + w)
               d == done[c]
               t == a + w
    <3>1. f \in Seq(S) /\ d \in Seq(S) /\ t = Len(f) + Len(d)
      BY <2>10, <2>11
    <3>2. g = [i \in 1 .. t |-> g[i]]
      BY <2>12
    <3>3. \A i \in 1 .. Len(f) : g[i] = f[i]
      BY <2>11, <2>13
    <3>4. \A i \in 1 .. Len(d) : g[Len(f) + i] = d[i]
      BY <2>10, <2>11, <2>14
    <3> HIDE DEF f, g, d, t, Wrong
    <3>5. g = Behind(f, d)
      BY <3>1, <3>2, <3>3, <3>4, IsBehind, ZenonT(30)
    <3> QED BY <3>5 DEF f, g, d
  <2> QED BY <2>3, <2>7, <2>8, <2>15
<1>8. answer' = Front(l)
  <2>1. n \in 0 .. n /\ n \notin Wrong
    BY <1>3, <1>7
  <2>2. rows[n] = Front(Least(n * size, l))
    BY <2>1
  <2> QED BY <1>3, <1>4, <2>2
<1>9. \A i \in DOMAIN qs : Given(qs[i], m) = CandidateRow(qs[i], m)
  <2>1. m \in Nat
    BY <1>1, BitmapAssumption DEF m
  <2>2. \A i \in DOMAIN qs : qs[i] \in Vector
    BY <1>3, ElementOfSeq
  <2>3. \A q \in Vector : Given(q, m) = CandidateRow(q, m)
    BY <2>1, CandidatesAre DEF Given
  <2> QED BY <2>2, <2>3
<1>10. answer' = [i \in DOMAIN qs |-> CandidateRow(qs[i], m)]
  BY <1>3, <1>8, <1>9 DEF Front, Of
<1>11. Bodies' = Bodies
  BY <1>1, DocsStay
<1>12. PICK k \in Ks : k = m
  BY <1>1 DEF m
<1>13. Store!Candidates(qs, k)
  BY <1>1, <1>10, <1>11, <1>12
     DEF Store!Candidates, Store!NoAnswer, NoAnswer, Bodies, CandidateRow
<1> QED BY <1>13

\* The candidates a selection takes from the score buffer are the queries'.
LEMMA SelectRows ==
  ASSUME IInv, Answering, Select
  PROVE  /\ cur \in DOMAIN job.chunks
         /\ done' = [done EXCEPT ![cur] = ChunkRows(cur)]
<1> DEFINE n == n_vectors
           chunk == job.chunks[cur]
           hits(b) == [i \in 1 .. n |-> [id |-> i - 1, score |-> scores[(b - 1) * n + i - 1]]]
<1>1. /\ pc = "select" /\ cur \in DOMAIN job.chunks /\ batch \in Nat /\ n \in Nat
      /\ batch = Len(chunk)
  BY DEF Select, IInv, Shape, Buffered, batch
<1>2. ASSUME NEW b \in 1 .. batch PROVE hits(b) = Everyone(chunk[b])
  <2>1. b - 1 \in 0 .. batch - 1 /\ (b - 1) + 1 = b /\ (b - 1) * n \in Nat
    BY <1>1
  <2>2. ASSUME NEW i \in 1 .. n
        PROVE  scores[(b - 1) * n + i - 1] = Score(QueryBitmap(chunk[b]), i - 1)
    <3>1. i - 1 \in 0 .. n - 1
      BY <1>1
    <3>2. (b - 1) * n + i - 1 = (b - 1) * n + (i - 1)
      <4> DEFINE a == (b - 1) * n
      <4>1. a \in Nat /\ i \in Int
        BY <2>1
      <4> HIDE DEF a
      <4>2. a + i - 1 = a + (i - 1)
        BY <4>1
      <4> QED BY <4>2 DEF a
    <3>3. scores[(b - 1) * n + (i - 1)] = Score(QueryBitmap(job.chunks[cur][(b - 1) + 1]), i - 1)
      BY <1>1, <2>1, <3>1 DEF IInv, ScoresExact
    <3> QED BY <2>1, <3>2, <3>3
  <2> QED BY <2>2 DEF Everyone
<1>3. done' = [done EXCEPT ![cur] =
                 [b \in 1 .. batch |-> Dropped(Selected(hits(b), mEff))]]
  BY DEF Select
<1>4. \A b \in 1 .. batch : Dropped(Selected(hits(b), mEff)) = Given(chunk[b], job.m)
  BY <1>2 DEF Given, mEff
<1>5. [b \in 1 .. batch |-> Dropped(Selected(hits(b), mEff))] = ChunkRows(cur)
  <2> HIDE DEF hits
  <2> QED BY <1>1, <1>4 DEF ChunkRows
<1> QED BY <1>1, <1>3, <1>5

\* A chunk without candidates has empty rows.
LEMMA NoRows ==
  ASSUME Stored, Answering, pc = "chunks", NEW c \in DOMAIN job.chunks, mEff = 0
  PROVE  [i \in DOMAIN job.chunks[c] |-> <<>>] = ChunkRows(c)
<1>1. PICK qs \in QueryLists, size \in BatchSizes : job.chunks = ChunksOf(qs, size)
  BY DEF Answering
<1>2. job.m \in Nat /\ Least(job.m, n_vectors) = 0
  BY BitmapAssumption DEF Answering, mEff
<1>3. PICK chunk : chunk = job.chunks[c]
  OBVIOUS
<1>4. DOMAIN chunk = 1 .. Len(chunk) /\ \A b \in 1 .. Len(chunk) : chunk[b] \in Vector
  <2>1. c \in 1 .. Len(ChunksOf(qs, size))
    <3>1. DOMAIN ChunksOf(qs, size) = 1 .. Len(ChunksOf(qs, size))
      BY ChunkFacts
    <3> QED BY <1>1, <3>1
  <2>2. /\ (c - 1) * size \in Nat /\ (c - 1) * size < Len(qs)
        /\ Len(ChunksOf(qs, size)[c]) \in Nat \ {0}
        /\ Least(c * size, Len(qs)) = (c - 1) * size + Len(ChunksOf(qs, size)[c])
        /\ \A b \in 1 .. Len(ChunksOf(qs, size)[c]) :
             (c - 1) * size + b \in DOMAIN qs /\ ChunksOf(qs, size)[c][b] \in Vector
    <3>1. \A d \in 1 .. Len(ChunksOf(qs, size)) :
            /\ (d - 1) * size \in Nat /\ (d - 1) * size < Len(qs)
            /\ Least((d - 1) * size, Len(qs)) = (d - 1) * size
            /\ Len(ChunksOf(qs, size)[d]) \in Nat \ {0}
            /\ Least(d * size, Len(qs)) = (d - 1) * size + Len(ChunksOf(qs, size)[d])
            /\ \A b \in 1 .. Len(ChunksOf(qs, size)[d]) :
                 /\ (d - 1) * size + b \in DOMAIN qs
                 /\ ChunksOf(qs, size)[d][b] = qs[(d - 1) * size + b]
                 /\ ChunksOf(qs, size)[d][b] \in Vector
      BY ChunkFacts
    <3> QED BY <2>1, <3>1
  <2>3. chunk = ChunksOf(qs, size)[c]
    BY <1>1, <1>3
  <2>4. chunk = SubSeq(qs, (c - 1) * size + 1, Least(c * size, Len(qs)))
    <3>1. \A d \in DOMAIN ChunksOf(qs, size) : ChunksOf(qs, size)[d] =
            SubSeq(qs, (d - 1) * size + 1, Least(d * size, Len(qs)))
      BY DEF ChunksOf
    <3> QED BY <1>1, <2>3, <3>1
  <2> DEFINE a == (c - 1) * size
             w == Len(chunk)
             e == Least(c * size, Len(qs))
  <2>5. a \in Nat /\ w \in Nat \ {0} /\ e = a + w
    BY <2>2, <2>3
  <2>6. a + w \in DOMAIN qs
    <3>1. w \in 1 .. Len(ChunksOf(qs, size)[c])
      BY <2>3, <2>5
    <3> QED BY <2>2, <3>1
  <2>7. qs \in Seq(Vector) /\ Len(qs) \in Nat /\ DOMAIN qs = 1 .. Len(qs)
    BY ChunkFacts, LenProperties
  <2> HIDE DEF a, w, e
  <2>8. a + 1 \in 1 .. Len(qs) + 1 /\ e \in (a + 1) - 1 .. Len(qs)
    BY <2>5, <2>6, <2>7
  <2>9. chunk = SubSeq(qs, a + 1, e)
    BY <2>4 DEF a, e
  <2>10. chunk \in Seq(Vector)
    BY <2>7, <2>8, <2>9, SubSeqProperties
  <2> QED BY <2>2, <2>3, <2>10, LenProperties
<1>5. \A b \in 1 .. Len(chunk) : Given(chunk[b], job.m) = <<>>
  <2>1. \A q \in Vector : Given(q, job.m) = <<>>
    BY <1>2, CandidatesAre, NoCandidates DEF Given
  <2> QED BY <1>4, <2>1
<1> QED BY <1>3, <1>4, <1>5 DEF ChunkRows

\* What Answering says is kept while the index and the job stay, but for a chunk
\* whose rows are put down.
LEMMA AnsweringStays ==
  ASSUME Answering, UNCHANGED index, job' = job, answer' = answer,
         pc \in {"chunks", "score", "select"}, pc' \in {"chunks", "score", "select"},
         DOMAIN done = DOMAIN job.chunks,
         done' = done \/ \E c \in DOMAIN done : done' = [done EXCEPT ![c] = ChunkRows(c)]
  PROVE  Answering'
<1>1. /\ answer = NoAnswer /\ job.m \in Ks
      /\ \E qs \in QueryLists, size \in BatchSizes : job.chunks = ChunksOf(qs, size)
      /\ \A c \in DOMAIN job.chunks : done[c] = <<>> \/ done[c] = ChunkRows(c)
  BY DEF Answering
<1>2. ASSUME NEW c \in DOMAIN job.chunks PROVE done'[c] = <<>> \/ done'[c] = ChunkRows(c)'
  <2>1. ChunkRows(c)' = ChunkRows(c)
    BY RowsStay
  <2>2. CASE done' = done
    BY <1>1, <2>1, <2>2
  <2>3. CASE \E d \in DOMAIN done : done' = [done EXCEPT ![d] = ChunkRows(d)]
    <3>1. PICK d \in DOMAIN done : done' = [done EXCEPT ![d] = ChunkRows(d)]
      BY <2>3
    <3>2. done'[c] = IF c = d THEN ChunkRows(d) ELSE done[c]
      BY <3>1
    <3> QED BY <1>1, <2>1, <3>2
  <2> QED BY <2>2, <2>3
<1>3. \A c \in DOMAIN job'.chunks : done'[c] = <<>> \/ done'[c] = ChunkRows(c)'
  BY <1>2
<1> QED BY <1>1, <1>3 DEF Answering, NoAnswer

\* The steps of a call in progress keep what Answering says.
LEMMA WorkAnswers ==
  ASSUME Stored, IInv, Answering, Work
  PROVE  Answering'
<1>1. DOMAIN done = DOMAIN job.chunks
  BY DEF IInv, Shape
<1>2. ASSUME NEW c \in DOMAIN done, BeginChunk(c) PROVE Answering'
  <2>1. /\ pc = "chunks" /\ UNCHANGED index /\ job' = job /\ answer' = answer
        /\ pc' \in {"chunks", "score"}
    BY <1>2 DEF BeginChunk
  <2>2. CASE mEff = 0
    <3>1. done' = [done EXCEPT ![c] = ChunkRows(c)]
      BY <1>1, <1>2, <2>1, <2>2, NoRows DEF BeginChunk
    <3> QED BY <1>1, <2>1, <3>1, AnsweringStays
  <2>3. CASE mEff # 0
    BY <1>1, <1>2, <2>1, <2>3, AnsweringStays DEF BeginChunk
  <2> QED BY <2>2, <2>3
<1>3. ASSUME HotPass \/ TailPass \/ ScalarPass PROVE Answering'
  <2>1. /\ pc = "score" /\ UNCHANGED index /\ job' = job /\ answer' = answer /\ done' = done
        /\ pc' \in {"score", "select"}
    BY <1>3 DEF HotPass, TailPass, ScalarPass
  <2> QED BY <1>1, <2>1, AnsweringStays
<1>4. ASSUME Select PROVE Answering'
  <2>1. /\ pc = "select" /\ UNCHANGED index /\ job' = job /\ answer' = answer /\ pc' = "chunks"
    BY <1>4 DEF Select
  <2>2. cur \in DOMAIN done /\ done' = [done EXCEPT ![cur] = ChunkRows(cur)]
    BY <1>1, <1>4, SelectRows
  <2>3. PICK c \in DOMAIN done : c = cur
    BY <2>2
  <2>4. done' = [done EXCEPT ![c] = ChunkRows(c)]
    BY <2>2, <2>3
  <2> QED BY <1>1, <2>1, <2>4, AnsweringStays
<1>5. ASSUME Collect PROVE Answering'
  BY <1>5 DEF Collect, Answering
<1>6. ASSUME Return PROVE Answering'
  BY <1>6 DEF Return, Answering
<1> QED BY <1>2, <1>3, <1>4, <1>5, <1>6 DEF Work

\* A chunked call starts without an answer and without rows.
LEMMA BeginChunkedAnswers ==
  ASSUME Answering, NEW qs \in QueryLists, NEW m \in Ks, NEW size \in BatchSizes,
         BeginChunked(qs, m, size)
  PROVE  Answering'
<1>1. /\ answer' = NoAnswer /\ pc' = "chunks" /\ job' = [chunks |-> ChunksOf(qs, size), m |-> m]
      /\ done' = [c \in DOMAIN ChunksOf(qs, size) |-> <<>>]
  BY DEF BeginChunked, Answering
<1>2. job'.chunks = ChunksOf(qs, size) /\ job'.m = m
  BY <1>1
<1>3. \A c \in DOMAIN job'.chunks : done'[c] = <<>>
  BY <1>1, <1>2
<1> QED BY <1>1, <1>2, <1>3 DEF Answering, NoAnswer

\* A step of the index is a step of the store, or changes nothing it sees.
LEMMA StepMaps ==
  ASSUME Stored, Stored', IInv, Answering, [Next]_vars
  PROVE  Answering' /\ (Store!Next \/ UNCHANGED Store!vars)
<1>1. CASE \E vs \in Additions : Add(vs)
  <2>1. PICK vs \in Additions : Add(vs)
    BY <1>1
  <2>2. pc = "idle" /\ pc' = "idle" /\ answer' = answer /\ answer = NoAnswer
    BY <2>1 DEF Add, Answering
  <2>3. Answering'
    BY <2>2 DEF Answering, NoAnswer
  <2> DEFINE bodies == [i \in DOMAIN vs |-> Body(vs[i])]
  <2>4. Store!Add(bodies)
    BY <2>1, <2>2, AddIs
  <2>5. bodies \in {[i \in DOMAIN xs |-> Body(xs[i])] : xs \in Additions}
    OBVIOUS
  <2> HIDE DEF bodies
  <2>6. Store!Next
    BY <2>4, <2>5 DEF Store!Next
  <2> QED BY <2>3, <2>6
<1>2. CASE \E idx \in 0 .. n_vectors - 1 : SwapRemove(idx)
  <2>1. PICK idx \in 0 .. n_vectors - 1 : SwapRemove(idx)
    BY <1>2
  <2>2. pc = "idle" /\ pc' = "idle" /\ answer' = answer /\ answer = NoAnswer
    BY <2>1 DEF SwapRemove, Answering
  <2>3. Answering'
    BY <2>2 DEF Answering, NoAnswer
  <2>4. idx \in 0 .. Store!n - 1 /\ Store!SwapRemove(idx)
    BY <2>1, <2>2, SwapRemoveIs
  <2>5. Store!Next
    BY <2>4 DEF Store!Next
  <2> QED BY <2>3, <2>5
<1>3. CASE \E qs \in QueryLists, k \in Ks :
             \/ Search(qs, k)
             \/ qs # <<>> /\ TopMCandidates(qs[1], k)
             \/ \E ids \in IdLists : qs # <<>> /\ SearchSubset(qs[1], ids, k)
  <2>1. PICK qs \in QueryLists, k \in Ks :
             \/ Search(qs, k)
             \/ qs # <<>> /\ TopMCandidates(qs[1], k)
             \/ \E ids \in IdLists : qs # <<>> /\ SearchSubset(qs[1], ids, k)
    BY <1>3
  <2>2. pc = "idle" /\ pc' = "return" /\ answer = NoAnswer
    BY <2>1 DEF Search, TopMCandidates, SearchSubset, Returning, Answering
  <2>3. Answering'
    BY <2>2 DEF Answering
  <2> DEFINE lists == QueryLists \cup {<<xs[1]>> : xs \in QueryLists \ {<<>>}}
  <2>4. qs \in lists /\ (qs # <<>> => <<qs[1]>> \in lists)
    OBVIOUS
  <2>5. CASE Search(qs, k)
    <3>1. Store!Search(qs, k)
      BY <2>2, <2>5, SearchMaps
    <3> HIDE DEF lists
    <3>2. Store!Next
      BY <2>4, <3>1 DEF Store!Next, lists
    <3> QED BY <2>3, <3>2
  <2>6. CASE qs # <<>> /\ TopMCandidates(qs[1], k)
    <3>1. PICK one \in lists : one = <<qs[1]>>
      BY <2>4, <2>6
    <3>2. Store!Candidates(one, k)
      BY <2>2, <2>6, <3>1, CandidatesMap
    <3> HIDE DEF lists
    <3>3. Store!Next
      BY <3>1, <3>2 DEF Store!Next, lists
    <3> QED BY <2>3, <3>3
  <2>7. CASE \E ids \in IdLists : qs # <<>> /\ SearchSubset(qs[1], ids, k)
    <3>1. PICK ids \in IdLists : qs # <<>> /\ SearchSubset(qs[1], ids, k)
      BY <2>7
    <3>2. Store!Subset(qs[1], ids, k)
      BY <2>2, <3>1, SubsetMaps
    <3> HIDE DEF lists
    <3>3. Store!Next
      BY <2>4, <3>1, <3>2 DEF Store!Next, lists
    <3> QED BY <2>3, <3>3
  <2> QED BY <2>1, <2>5, <2>6, <2>7
<1>4. CASE \E qs \in QueryLists, k \in Ks, size \in BatchSizes : BeginChunked(qs, k, size)
  <2>1. PICK qs \in QueryLists, k \in Ks, size \in BatchSizes : BeginChunked(qs, k, size)
    BY <1>4
  <2>2. Answering'
    BY <2>1, BeginChunkedAnswers
  <2>3. answer' = answer /\ UNCHANGED index
    BY <2>1 DEF BeginChunked
  <2>4. UNCHANGED Store!vars
    BY <2>3, DocsStay DEF Store!vars, Bodies
  <2> QED BY <2>2, <2>4
<1>5. CASE \/ \E c \in DOMAIN done : BeginChunk(c)
           \/ HotPass \/ TailPass \/ ScalarPass \/ Select
  <2>1. Answering'
    BY <1>5, WorkAnswers DEF Work
  <2>2. answer' = answer /\ UNCHANGED index
    BY <1>5 DEF BeginChunk, HotPass, TailPass, ScalarPass, Select
  <2>3. UNCHANGED Store!vars
    BY <2>2, DocsStay DEF Store!vars, Bodies
  <2> QED BY <2>1, <2>3
<1>6. CASE Collect
  <2>1. Answering'
    BY <1>6, WorkAnswers DEF Work
  <2>2. PICK qs \in QueryLists, m \in Ks : Store!Candidates(qs, m)
    BY <1>6, CollectMaps DEF IInv
  <2> DEFINE lists == QueryLists \cup {<<xs[1]>> : xs \in QueryLists \ {<<>>}}
  <2>3. qs \in lists
    OBVIOUS
  <2> HIDE DEF lists
  <2>4. Store!Next
    BY <2>2, <2>3 DEF Store!Next, lists
  <2> QED BY <2>1, <2>4
<1>7. CASE Return
  <2>1. Answering'
    BY <1>7, WorkAnswers DEF Work
  <2>2. answer' = NoAnswer /\ UNCHANGED index
    BY <1>7 DEF Return
  <2>3. Bodies' = Bodies
    BY <2>2, DocsStay
  <2>4. CASE answer = NoAnswer
    BY <2>1, <2>2, <2>3, <2>4 DEF Store!vars, Bodies
  <2>5. CASE answer # NoAnswer
    <3>1. Store!Return
      BY <2>2, <2>3, <2>5 DEF Store!Return, Store!NoAnswer, NoAnswer, Bodies
    <3>2. Store!Next
      BY <3>1 DEF Store!Next
    <3> QED BY <2>1, <3>2
  <2> QED BY <2>4, <2>5
<1>8. CASE UNCHANGED vars
  <2>1. UNCHANGED index /\ UNCHANGED <<pc, job, done, answer>>
    BY <1>8 DEF vars, work
  <2>2. UNCHANGED Store!vars
    BY <2>1, DocsStay DEF Store!vars, Bodies
  <2>3. \A c : ChunkRows(c)' = ChunkRows(c)
    BY <2>1, RowsStay
  <2>4. Answering'
    BY <2>1, <2>3 DEF Answering, NoAnswer
  <2> QED BY <2>2, <2>4
<1> QED BY <1>1, <1>2, <1>3, <1>4, <1>5, <1>6, <1>7, <1>8 DEF Next, Work

\* For every word size, dimension, number of kept coordinates and chunk size,
\* every list of vectors and of queries and every split into batches, the index
\* answers as the abstract store does.
THEOREM ImplementsStore == Spec => AnswersLikeStore
<1>1. Init => Stored /\ IInv /\ Answering /\ Store!Init
  <2> SUFFICES ASSUME Init PROVE Stored /\ IInv /\ Answering /\ Store!Init
    OBVIOUS
  <2>1. bitmaps = <<>> /\ n_vectors = 0 /\ pc = "idle" /\ answer = NoAnswer
    BY DEF Init
  <2>2. Stored
    BY <2>1, BitmapAssumption DEF Stored, Layout, Persistable
  <2>3. IInv
    BY BitmapAssumption DEF Init, IInv, Shape, ScoresExact, NoJob
  <2>4. Answering
    BY <2>1 DEF Answering
  <2>5. Store!Init
    BY <2>1 DEF Store!Init, Store!NoAnswer, NoAnswer
  <2> QED BY <2>2, <2>3, <2>4, <2>5
<1>2. Stored /\ [Next]_vars => Stored'
  BY StoredStep
<1>3. IInv /\ [Next]_vars => IInv'
  BY IInvStep
<1>4. Stored /\ Stored' /\ IInv /\ Answering /\ [Next]_vars
        => Answering' /\ [Store!Next]_(Store!vars)
  BY StepMaps
<1> QED BY <1>1, <1>2, <1>3, <1>4, PTL DEF Spec, AnswersLikeStore, Store!Spec
=============================================================================
