---------------------------- MODULE SignScan_proof ----------------------------
(***************************************************************************)
(* For every corpus, every batch and every block and tile size: each heap  *)
(* of the streamed scan holds exactly the m smallest keys it has been      *)
(* offered, and each row is what the single-query path returns.            *)
(***************************************************************************)
EXTENDS SignScan, FiniteSetTheorems, SequenceTheorems, TLAPS

-----------------------------------------------------------------------------
(* Ranks in finite ordered sets. *)

\* R, a set of pairs, orders S totally and strictly.
IsStrictOrder(R, S) ==
  /\ \A x \in S : <<x, x>> \notin R
  /\ \A x, y \in S : x = y \/ <<x, y>> \in R \/ <<y, x>> \in R
  /\ \A x, y, z \in S : <<x, y>> \in R /\ <<y, z>> \in R => <<x, z>> \in R

Below(x, R, S) == {y \in S : <<y, x>> \in R}

\* The elements of a finite set have the ranks 0 to its size less one, each of
\* them once: a sort is described by the places of the sorted, and the first of
\* them is the least.
LEMMA Ranked ==
  ASSUME NEW S, IsFiniteSet(S), NEW R, IsStrictOrder(R, S),
         NEW r \in 0 .. Cardinality(S) - 1
  PROVE  /\ \E x \in S : Cardinality(Below(x, R, S)) = r
         /\ \A x, y \in S : Cardinality(Below(x, R, S)) = Cardinality(Below(y, R, S)) => x = y
<1> DEFINE places == 0 .. Cardinality(S) - 1
           f == [x \in S |-> Cardinality(Below(x, R, S))]
<1>1. Cardinality(S) \in Nat
  BY FS_CardinalityType
<1>2. IsFiniteSet(places) /\ Cardinality(places) = Cardinality(S)
  BY <1>1, FS_Interval
<1>3. ASSUME NEW x \in S
      PROVE  /\ IsFiniteSet(Below(x, R, S)) /\ Cardinality(Below(x, R, S)) \in Nat
             /\ x \notin Below(x, R, S)
             /\ IsFiniteSet(Below(x, R, S) \cup {x})
             /\ Cardinality(Below(x, R, S) \cup {x}) = Cardinality(Below(x, R, S)) + 1
             /\ Below(x, R, S) \cup {x} \subseteq S
  <2>1. Below(x, R, S) \cup {x} \subseteq S /\ x \notin Below(x, R, S)
    BY DEF Below, IsStrictOrder
  <2>2. IsFiniteSet(Below(x, R, S))
    BY <2>1, FS_Subset
  <2> QED BY <2>1, <2>2, FS_CardinalityType, FS_AddElement
<1>4. f \in [S -> places]
  <2>1. ASSUME NEW x \in S PROVE Cardinality(Below(x, R, S)) \in places
    <3>1. Cardinality(Below(x, R, S) \cup {x}) <= Cardinality(S)
      BY <1>3, FS_Subset
    <3>2. /\ Cardinality(Below(x, R, S)) \in Nat
          /\ Cardinality(Below(x, R, S) \cup {x}) = Cardinality(Below(x, R, S)) + 1
      BY <1>3
    <3> QED BY <1>1, <3>1, <3>2
  <2> QED BY <2>1
<1>5. ASSUME NEW x \in S, NEW y \in S, <<x, y>> \in R
      PROVE  Cardinality(Below(x, R, S)) < Cardinality(Below(y, R, S))
  <2>1. Below(x, R, S) \cup {x} \subseteq Below(y, R, S)
    BY <1>5 DEF Below, IsStrictOrder
  <2>2. IsFiniteSet(Below(y, R, S)) /\ Cardinality(Below(y, R, S)) \in Nat
    BY <1>3
  <2>3. Cardinality(Below(x, R, S) \cup {x}) <= Cardinality(Below(y, R, S))
    BY <2>1, <2>2, FS_Subset
  <2>4. /\ Cardinality(Below(x, R, S)) \in Nat
        /\ Cardinality(Below(x, R, S) \cup {x}) = Cardinality(Below(x, R, S)) + 1
    BY <1>3
  <2> QED BY <2>2, <2>3, <2>4
<1>6. ASSUME NEW x \in S, NEW y \in S,
             Cardinality(Below(x, R, S)) = Cardinality(Below(y, R, S))
      PROVE  x = y
  <2>1. Cardinality(Below(x, R, S)) \in Nat /\ Cardinality(Below(y, R, S)) \in Nat
    BY <1>3
  <2>2. <<x, y>> \notin R /\ <<y, x>> \notin R
    BY <1>5, <1>6, <2>1
  <2> QED BY <2>2 DEF IsStrictOrder
<1>7. f \in Injection(S, places)
  BY <1>4, <1>6 DEF Injection, IsInjective
<1> HIDE DEF f
<1>8. f \in Surjection(S, places)
  BY <1>2, <1>7, FS_Injection
<1>9. \E x \in S : f[x] = r
  <2>1. r \in places
    OBVIOUS
  <2> HIDE DEF places
  <2> QED BY <1>8, <2>1 DEF Surjection
<1> QED BY <1>6, <1>9 DEF f

\* A nonempty finite set has a first element under a strict order.
LEMMA FirstElement ==
  ASSUME NEW S, IsFiniteSet(S), S # {}, NEW R, IsStrictOrder(R, S)
  PROVE  \E x \in S : \A y \in S : y = x \/ <<x, y>> \in R
<1>1. Cardinality(S) \in Nat /\ Cardinality(S) # 0
  BY FS_CardinalityType, FS_EmptySet
<1>2. PICK x \in S : Cardinality(Below(x, R, S)) = 0
  <2>1. 0 \in 0 .. Cardinality(S) - 1
    BY <1>1
  <2> QED BY <2>1, Ranked
<1>3. Below(x, R, S) = {}
  <2>1. IsFiniteSet(Below(x, R, S))
    BY FS_Subset DEF Below
  <2> QED BY <1>2, <2>1, FS_EmptySet
<1> QED BY <1>3 DEF Below, IsStrictOrder

-----------------------------------------------------------------------------
Pairs == Nat \X Nat

\* What a heap and its bound hold after the keys of S, `seen` of them.
HeapOf(heap, bound, S, m, seen) ==
  /\ heap \subseteq S /\ IsFiniteSet(heap)
  /\ Cardinality(heap) = Minimum(m, seen)
  /\ seen <= m => heap = S
  /\ \A out \in S \ heap : \A kept \in heap : Less(kept, out)
  /\ IF Cardinality(heap) = m
     THEN /\ \E kept \in heap : bound = kept[1]
          /\ \A kept \in heap : kept[1] <= bound
     ELSE bound = Unbounded

\* Keys are totally ordered.
LEMMA LessOrder ==
  \A a, b, c \in Pairs :
    /\ ~ Less(a, a)
    /\ Less(a, b) \/ Less(b, a) \/ a = b
    /\ Less(a, b) => ~ Less(b, a)
    /\ Less(a, b) /\ Less(b, c) => Less(a, c)
BY DEF Less, Pairs

\* The top of a nonempty heap is its greatest key.
LEMMA GreatestKey ==
  ASSUME NEW H, H \subseteq Pairs, IsFiniteSet(H), H # {}
  PROVE  /\ Greatest(H) \in H
         /\ \A o \in H : o = Greatest(H) \/ Less(o, Greatest(H))
<1> DEFINE R == {p \in H \X H : Less(p[2], p[1])}
<1>1. \A a, b \in H : <<a, b>> \in R <=> Less(b, a)
  OBVIOUS
<1> HIDE DEF R
<1>2. IsStrictOrder(R, H)
  BY <1>1, LessOrder DEF IsStrictOrder
<1>3. PICK k \in H : \A o \in H : o = k \/ <<k, o>> \in R
  BY <1>2, FirstElement
<1>4. \A o \in H : o = k \/ Less(o, k)
  BY <1>1, <1>3
<1> QED BY <1>4 DEF Greatest

\* A Hamming distance stays below the bound that stands for "not full".
LEMMA HammingBelow ==
  ASSUME NEW a \in Bitmap, NEW b \in Bitmap
  PROVE  Hamming(a, b) \in 0 .. Unbounded - 1 /\ Unbounded \in Nat
<1>1. (a \ b) \cup (b \ a) \subseteq Bits
  BY DEF Bitmap
<1>2. /\ Cardinality((a \ b) \cup (b \ a)) \in Nat
      /\ Cardinality((a \ b) \cup (b \ a)) <= Cardinality(Bits)
      /\ Cardinality(Bits) \in Nat
  BY <1>1, FS_Subset, FS_CardinalityType, SignScanAssumption
<1> QED BY <1>2 DEF Hamming, Unbounded

\* One offer extends "the m smallest seen so far" by one key, because document
\* ids are offered in ascending order.
LEMMA CollectExact ==
  ASSUME NEW S, S \subseteq Pairs, NEW seen \in Nat, NEW m \in Nat \ {0},
         NEW heap, NEW bound, NEW h \in 0 .. Unbounded - 1, NEW doc \in Nat,
         Unbounded \in Nat,
         \A s \in S : s[2] < doc,
         HeapOf(heap, bound, S, m, seen)
  PROVE  LET new == Collect(heap, bound, <<h, doc>>, m)
         IN  HeapOf(new.heap, new.bound, S \cup {<<h, doc>>}, m, seen + 1)
<1> DEFINE key == <<h, doc>>
           T == S \cup {key}
           grown == heap \cup {key}
           kept == IF Cardinality(grown) > m THEN grown \ {Greatest(grown)} ELSE grown
           new == Collect(heap, bound, key, m)
<1>1. /\ key \in Pairs /\ T \subseteq Pairs /\ key \notin S /\ key \notin heap
      /\ key[1] = h /\ key[2] = doc
  BY DEF HeapOf, Pairs
<1>2. /\ heap \subseteq Pairs /\ IsFiniteSet(heap) /\ Cardinality(heap) \in Nat
      /\ heap \subseteq S
  BY FS_CardinalityType DEF HeapOf
<1>3. /\ IsFiniteSet(grown) /\ Cardinality(grown) = Cardinality(heap) + 1
      /\ grown \subseteq Pairs /\ grown \subseteq T /\ grown # {}
  BY <1>1, <1>2, FS_AddElement
<1> HIDE DEF key
<1>4. CASE h >= bound
  <2>1. new.heap = heap /\ new.bound = bound
    BY <1>1, <1>4 DEF Collect
  <2>2. Cardinality(heap) = m /\ seen >= m
    BY <1>4 DEF HeapOf, Minimum
  <2>3. \A k \in heap : Less(k, key)
    <3>1. \A k \in heap : k[1] <= bound /\ bound \in Nat /\ k[1] \in Nat /\ k[2] < doc
      BY <1>2, <2>2 DEF HeapOf, Pairs
    <3> QED BY <1>1, <1>2, <1>4, <3>1 DEF Less
  <2>4. Cardinality(heap) = Minimum(m, seen + 1) /\ ~ (seen + 1 <= m)
    BY <2>2 DEF Minimum
  <2>5. HeapOf(heap, bound, T, m, seen + 1)
    BY <1>2, <2>3, <2>4 DEF HeapOf
  <2> QED BY <2>1, <2>5 DEF key
<1>5. CASE h < bound
  <2> DEFINE g == Greatest(grown)
  <2>1. g \in grown /\ \A o \in grown : o = g \/ Less(o, g)
    BY <1>3, GreatestKey
  <2>2. /\ new.heap = kept
        /\ new.bound = IF Cardinality(kept) = m THEN Greatest(kept)[1] ELSE bound
    <3>1. ~ (h >= bound)
      <4>1. bound \in Nat
        BY <1>2 DEF HeapOf, Pairs
      <4> QED BY <1>5, <4>1
    <3> QED BY <1>1, <3>1 DEF Collect
  <2> HIDE DEF g, new
  <2>3. /\ kept \subseteq T /\ IsFiniteSet(kept)
        /\ Cardinality(kept) = Minimum(m, seen + 1) /\ kept # {}
        /\ seen + 1 <= m => kept = T
        /\ \A out \in T \ kept : \A k \in kept : Less(k, out)
    <3>1. CASE seen < m
      <4>1. Cardinality(heap) = seen /\ heap = S /\ Cardinality(grown) = seen + 1
        BY <1>3, <3>1 DEF HeapOf, Minimum
      <4>2. kept = grown /\ grown = T
        BY <3>1, <4>1
      <4> HIDE DEF kept, grown, T
      <4> QED BY <1>3, <3>1, <4>1, <4>2 DEF Minimum
    <3>2. CASE seen >= m
      <4>1. Cardinality(heap) = m /\ Cardinality(grown) = m + 1
        BY <1>3, <3>2 DEF HeapOf, Minimum
      <4>2. kept = grown \ {g}
        BY <4>1 DEF g
      <4>3. IsFiniteSet(kept) /\ Cardinality(kept) = m
        <5>1. IsFiniteSet(grown \ {g}) /\ Cardinality(grown \ {g}) = Cardinality(grown) - 1
          <6> HIDE DEF grown
          <6> QED BY <1>3, <2>1, FS_RemoveElement
        <5> HIDE DEF kept, grown
        <5> QED BY <4>1, <4>2, <5>1
      <4>4. PICK top \in heap : bound = top[1]
        BY <4>1 DEF HeapOf
      <4>5. Less(key, top)
        BY <1>1, <1>2, <1>5, <4>4 DEF Less, Pairs
      <4>6. ASSUME NEW out \in T \ kept, NEW k \in kept PROVE Less(k, out)
        <5>1. CASE out = g
          BY <2>1, <4>2, <5>1
        <5>2. CASE out # g
          <6>1. out \in S \ heap
            BY <4>2, <5>2
          <6>2. CASE k \in heap
            BY <6>1, <6>2 DEF HeapOf
          <6>3. CASE k = key
            <7>1. Less(top, out)
              BY <6>1 DEF HeapOf
            <7>2. key \in Pairs /\ top \in Pairs /\ out \in Pairs
              BY <1>1, <1>2, <6>1
            <7> QED BY <4>5, <6>3, <7>1, <7>2, LessOrder
          <6> QED BY <4>2, <6>2, <6>3
        <5> QED BY <5>1, <5>2
      <4>7. kept # {}
        BY <4>3, FS_EmptySet
      <4> HIDE DEF kept
      <4> QED BY <1>3, <3>2, <4>2, <4>3, <4>6, <4>7 DEF Minimum
    <3> QED BY <3>1, <3>2
  <2>4. kept \subseteq Pairs
    BY <1>1, <2>3
  <2>5. IF Cardinality(kept) = m
        THEN /\ \E k \in kept : new.bound = k[1]
             /\ \A k \in kept : k[1] <= new.bound
        ELSE new.bound = Unbounded
    <3>1. CASE Cardinality(kept) = m
      <4>1. /\ Greatest(kept) \in kept
            /\ \A o \in kept : o = Greatest(kept) \/ Less(o, Greatest(kept))
        <5> HIDE DEF kept
        <5> QED BY <2>3, <2>4, GreatestKey
      <4>2. new.bound = Greatest(kept)[1]
        BY <2>2, <3>1
      <4> HIDE DEF kept
      <4> QED BY <2>4, <3>1, <4>1, <4>2 DEF Less, Pairs
    <3>2. CASE Cardinality(kept) # m
      <4>1. seen < m
        BY <2>3, <3>2 DEF Minimum
      <4>2. bound = Unbounded
        BY <4>1 DEF HeapOf, Minimum
      <4> QED BY <2>2, <3>2, <4>2
    <3> QED BY <3>1, <3>2
  <2> HIDE DEF kept
  <2>6. HeapOf(new.heap, new.bound, T, m, seen + 1)
    BY <2>2, <2>3, <2>5 DEF HeapOf
  <2> QED BY <2>6 DEF key, new
<1>6. h >= bound \/ h < bound
  <2>1. bound \in Nat
    BY <1>2 DEF HeapOf, Pairs
  <2> QED BY <2>1
<1> QED BY <1>4, <1>5, <1>6

-----------------------------------------------------------------------------
(* The flat score buffer: row t, column x of a tile is cell t * b + x.     *)

\* Multiplication by a natural number keeps the order, and the type.
LEMMA ProductGrows ==
  ASSUME NEW a \in Nat, NEW b \in Nat, NEW c \in Nat, a <= b
  PROVE  a * c <= b * c /\ a * c \in Nat /\ b * c \in Nat
OBVIOUS

\* A cell belongs to one row and one column.
LEMMA CellOf ==
  ASSUME NEW b \in Nat \ {0}, NEW t \in Nat, NEW x \in 0 .. b - 1
  PROVE  /\ t * b + x \in Nat
         /\ (t * b + x) \div b = t /\ (t * b + x) % b = x
<1> DEFINE k == t * b + x
           q == k \div b
           r == k % b
<1>1. t * b \in Nat /\ k \in Nat
  BY ProductGrows
<1> HIDE DEF k
<1>2. k = b * q + r /\ r \in 0 .. b - 1 /\ q \in Nat
  BY <1>1
<1> HIDE DEF q, r
<1>3. b * q = q * b
  BY <1>2
<1>4. ~ (t < q)
  <2>1. SUFFICES ASSUME t < q PROVE FALSE
    OBVIOUS
  <2>2. (t + 1) * b <= q * b
    BY <1>2, <2>1, ProductGrows
  <2>3. (t + 1) * b = t * b + b
    OBVIOUS
  <2> QED BY <1>1, <1>2, <1>3, <2>2, <2>3 DEF k
<1>5. ~ (q < t)
  <2>1. SUFFICES ASSUME q < t PROVE FALSE
    OBVIOUS
  <2>2. (q + 1) * b <= t * b
    BY <1>2, <2>1, ProductGrows
  <2>3. (q + 1) * b = q * b + b
    BY <1>2
  <2> QED BY <1>1, <1>2, <1>3, <2>2, <2>3 DEF k
<1>6. q = t
  BY <1>2, <1>4, <1>5
<1>7. r = x
  BY <1>1, <1>2, <1>3, <1>6 DEF k
<1> QED BY <1>1, <1>6, <1>7 DEF k, q, r

-----------------------------------------------------------------------------
(* The invariant.                                                          *)

\* Cell t * width + x of sc is the distance of query q0 + t to document b0 + x.
CellsHold(sc, height, width, queries, q0, bitmaps, b0) ==
  \A t \in 0 .. height - 1, x \in 0 .. width - 1 :
    sc[t * width + x] = Hamming(queries[q0 + t + 1], bitmaps[b0 + x + 1])

\* The cells of the tile in hand hold its distances, whatever the buffer held.
ScoresFresh ==
  CellsHold(scores, TileLen, BlockLen, batch.queries, tileStart, docs, blockStart)

Buffer == 0 .. Minimum(TileQueries, nq) * Minimum(BlockDocs, n) - 1

Scanning ==
  /\ nq \in Nat \ {0}
  /\ heaps \in [1 .. nq -> SUBSET Pairs] /\ worst \in [1 .. nq -> Nat]
  /\ scores = [i \in Buffer |-> scores[i]]
  /\ pc \in {"score", "collect"} => blockStart < n /\ tileStart < nq
  /\ pc = "collect" => ti < TileLen /\ d < BlockLen /\ ScoresFresh
  /\ \A i \in 1 .. nq : HeapOf(heaps[i], worst[i], Offered(i), MEff, Seen(i))

\* HeapExact is not inductive: the next offer reads a score cell and trusts
\* that ids ascend.
IInv == TypeOK /\ (pc # "idle" => Scanning)

\* The corpus and the batch while TypeOK holds.
LEMMA Sizes ==
  ASSUME TypeOK
  PROVE  /\ n \in Nat /\ nq \in Nat /\ MEff \in Nat
         /\ \A i \in 1 .. nq : batch.queries[i] \in Bitmap
         /\ \A i \in 1 .. n : docs[i] \in Bitmap
<1>1. docs \in Seq(Bitmap) /\ batch.queries \in Seq(Bitmap) /\ batch.m \in Nat
  BY DEF TypeOK
<1> QED BY <1>1 DEF n, nq, MEff, Minimum

\* A block and a tile are never empty and never leave the corpus or the batch.
LEMMA TileInBounds ==
  ASSUME IInv, pc \in {"score", "collect"}
  PROVE  /\ BlockLen \in 1 .. n /\ blockStart + BlockLen <= n
         /\ TileLen \in 1 .. nq /\ tileStart + TileLen <= nq
         /\ TileLen <= Minimum(TileQueries, nq) /\ BlockLen <= Minimum(BlockDocs, n)
         /\ blockStart \in Nat /\ tileStart \in Nat /\ ti \in Nat /\ d \in Nat
<1>1. /\ TypeOK /\ blockStart < n /\ tileStart < nq
  BY DEF IInv, Scanning, TypeOK
<1>2. /\ n \in Nat /\ nq \in Nat /\ BlockDocs \in Nat \ {0} /\ TileQueries \in Nat \ {0}
      /\ blockStart \in Nat /\ tileStart \in Nat /\ ti \in Nat /\ d \in Nat
  BY <1>1, Sizes, SignScanAssumption DEF TypeOK
<1>3. /\ BlockLen \in 1 .. n /\ blockStart + BlockLen <= n
      /\ BlockLen <= Minimum(BlockDocs, n)
  BY <1>1, <1>2 DEF BlockLen, Minimum
<1>4. /\ TileLen \in 1 .. nq /\ tileStart + TileLen <= nq
      /\ TileLen <= Minimum(TileQueries, nq)
  BY <1>1, <1>2 DEF TileLen, Minimum
<1> QED BY <1>2, <1>3, <1>4

\* The keys a heap has been offered.
LEMMA OfferedKeys ==
  ASSUME TypeOK, NEW i \in 1 .. nq, NEW s \in Nat, s <= n
  PROVE  LET S == {Key(batch.queries[i], doc) : doc \in 0 .. s - 1}
         IN  S \subseteq Pairs /\ \A k \in S : k[2] < s
<1>1. ASSUME NEW doc \in 0 .. s - 1
      PROVE  Key(batch.queries[i], doc) \in Pairs /\ Key(batch.queries[i], doc)[2] < s
  <2>1. docs[doc + 1] \in Bitmap /\ batch.queries[i] \in Bitmap
    BY Sizes
  <2>2. Hamming(batch.queries[i], docs[doc + 1]) \in Nat
    BY <2>1, HammingBelow
  <2> QED BY <2>2 DEF Key, Pairs
<1> QED BY <1>1

\* The empty index satisfies the invariant.
LEMMA InitIInv == Init => IInv
<1> SUFFICES ASSUME Init PROVE IInv
  OBVIOUS
<1>1. docs \in Seq(Bitmap) /\ n = 0
  BY DEF Init, n
<1>2. NoBatch \in [queries : Seq(Bitmap), m : Nat]
  BY DEF NoBatch
<1> QED BY <1>1, <1>2, SignScanAssumption DEF Init, IInv, TypeOK

\* Adding vectors below MAX_VECTORS keeps the corpus well typed.
LEMMA AddIInv ==
  ASSUME IInv, NEW bitmaps \in Additions, Add(bitmaps)
  PROVE  IInv'
<1>1. docs \in Seq(Bitmap) /\ bitmaps \in Seq(Bitmap)
  BY SignScanAssumption DEF IInv, TypeOK
<1>2. docs' \in Seq(Bitmap) /\ n' <= MaxVectors
  BY <1>1 DEF Add, n
<1>3. NoBatch \in [queries : Seq(Bitmap), m : Nat]
  BY DEF NoBatch
<1> QED BY <1>2, <1>3 DEF Add, IInv, TypeOK, loop

\* swap_remove keeps the rows dense.
LEMMA SwapRemoveIInv ==
  ASSUME IInv, NEW idx \in 0 .. n - 1, SwapRemove(idx)
  PROVE  IInv'
<1>1. docs \in Seq(Bitmap) /\ n \in Nat /\ n >= 1 /\ \A i \in 1 .. n : docs[i] \in Bitmap
  BY Sizes DEF IInv, TypeOK
<1>2. docs' \in [1 .. n - 1 -> Bitmap]
  BY <1>1 DEF SwapRemove
<1>3. docs' \in Seq(Bitmap) /\ n' = n - 1
  BY <1>1, <1>2 DEF n
<1>4. NoBatch \in [queries : Seq(Bitmap), m : Nat]
  BY DEF NoBatch
<1> QED BY <1>1, <1>3, <1>4, SignScanAssumption DEF SwapRemove, IInv, TypeOK, loop

\* A call without queries or candidates touches no state of the scan.
LEMMA BeginEmptyIInv ==
  ASSUME IInv, NEW b \in Batches, BeginEmpty(b)
  PROVE  IInv'
<1>1. b \in [queries : Seq(Bitmap), m : Nat] /\ batch' = b /\ pc' = "idle"
  BY SignScanAssumption DEF BeginEmpty
<1>2. TypeOK /\ docs' = docs
  BY DEF BeginEmpty, IInv
<1>3. TypeOK'
  BY <1>1, <1>2 DEF BeginEmpty, TypeOK, loop, n
<1> QED BY <1>1, <1>3 DEF IInv

\* Empty heaps are exact for no document.
LEMMA BeginIInv ==
  ASSUME IInv, NEW b \in Batches, Begin(b)
  PROVE  IInv'
<1>1. /\ b \in [queries : Seq(Bitmap), m : Nat] /\ batch' = b /\ docs' = docs
      /\ pc' = "score" /\ blockStart' = 0 /\ tileStart' = 0
      /\ heaps' = [i \in 1 .. Len(b.queries) |-> {}]
      /\ worst' = [i \in 1 .. Len(b.queries) |-> Unbounded]
      /\ TypeOK
  BY SignScanAssumption DEF Begin, IInv
<1>2. /\ n' = n /\ n \in Nat /\ nq' = Len(b.queries) /\ nq' \in Nat \ {0}
      /\ MEff' = Minimum(b.m, n) /\ MEff' \in 1 .. n
  <2>1. b.m \in Nat /\ Len(b.queries) \in Nat \ {0} /\ n \in Nat
    BY <1>1, Sizes DEF Begin
  <2> QED BY <1>1, <2>1 DEF Begin, n, nq, MEff, Minimum
<1>3. TypeOK'
  <2>1. ti' \in Nat /\ d' \in Nat
    BY <1>1 DEF Begin, TypeOK
  <2> QED BY <1>1, <1>2, <2>1 DEF TypeOK, n
<1>4. Unbounded \in Nat
  BY FS_CardinalityType, SignScanAssumption DEF Unbounded
<1>5. scores' = [i \in Buffer' |-> scores'[i]]
  BY <1>2 DEF Begin, Buffer, nq
<1>6. \A i \in 1 .. nq' : HeapOf(heaps[i], worst[i], Offered(i), MEff, Seen(i))'
  <2> SUFFICES ASSUME NEW i \in 1 .. nq'
               PROVE  HeapOf(heaps[i], worst[i], Offered(i), MEff, Seen(i))'
    OBVIOUS
  <2>1. Seen(i)' = 0
    BY <1>1, <1>2 DEF Seen
  <2>2. Offered(i)' = {}
    BY <2>1 DEF Offered
  <2>3. heaps'[i] = {} /\ worst'[i] = Unbounded
    BY <1>1, <1>2
  <2> QED BY <1>2, <2>1, <2>2, <2>3, FS_EmptySet DEF HeapOf, Minimum
<1>7. Scanning'
  BY <1>1, <1>2, <1>4, <1>5, <1>6 DEF Scanning, Pairs
<1> QED BY <1>3, <1>7 DEF IInv

\* The rows of the buffer are written with the stride they are read with.
LEMMA ScoreTileIInv ==
  ASSUME IInv, ScoreTile
  PROVE  IInv'
<1>1. /\ TypeOK /\ Scanning /\ pc = "score"
      /\ docs' = docs /\ batch' = batch /\ blockStart' = blockStart
      /\ tileStart' = tileStart /\ heaps' = heaps /\ worst' = worst
      /\ ti' = 0 /\ d' = 0 /\ pc' = "collect"
  BY DEF IInv, ScoreTile, call
<1>2. /\ BlockLen \in 1 .. n /\ TileLen \in 1 .. nq /\ n \in Nat /\ nq \in Nat
      /\ TileLen <= Minimum(TileQueries, nq) /\ BlockLen <= Minimum(BlockDocs, n)
      /\ Minimum(TileQueries, nq) \in Nat /\ Minimum(BlockDocs, n) \in Nat
      /\ blockStart \in Nat /\ tileStart \in Nat
  BY <1>1, Sizes, TileInBounds, SignScanAssumption DEF Minimum
<1>3. /\ n' = n /\ nq' = nq /\ MEff' = MEff /\ BlockLen' = BlockLen /\ TileLen' = TileLen
      /\ Buffer' = Buffer
  BY <1>1 DEF n, nq, MEff, BlockLen, TileLen, Minimum, Buffer
<1>4. TypeOK'
  <2>1. {blockStart, tileStart, ti, d}' \subseteq Nat
    BY <1>1 DEF TypeOK
  <2> QED BY <1>1, <1>3, <2>1 DEF TypeOK
<1>5. scores' = [i \in Buffer |->
                  IF i < TileLen * BlockLen
                  THEN Hamming(batch.queries[tileStart + (i \div BlockLen) + 1],
                               docs[blockStart + (i % BlockLen) + 1])
                  ELSE scores[i]]
  <2>1. DOMAIN scores = Buffer
    BY <1>1 DEF Scanning
  <2> QED BY <2>1 DEF ScoreTile
<1>6. ScoresFresh'
  <2>0. ScoresFresh' = CellsHold(scores', TileLen, BlockLen, batch.queries,
                                 tileStart, docs, blockStart)
    BY <1>1, <1>3 DEF ScoresFresh
  <2>1. \A t \in 0 .. TileLen - 1, x \in 0 .. BlockLen - 1 :
          scores'[t * BlockLen + x] =
            Hamming(batch.queries[tileStart + t + 1], docs[blockStart + x + 1])
    <3> TAKE t \in 0 .. TileLen - 1, x \in 0 .. BlockLen - 1
    <3> DEFINE i == t * BlockLen + x
    <3>0. BlockLen \in Nat \ {0} /\ t \in Nat /\ x \in 0 .. BlockLen - 1
      BY <1>2
    <3>1. i \in Nat /\ i \div BlockLen = t /\ i % BlockLen = x
      BY ONLY <3>0, CellOf
    <3>2. i < TileLen * BlockLen
      <4>1. (t + 1) * BlockLen <= TileLen * BlockLen
        BY <1>2, ProductGrows
      <4>2. (t + 1) * BlockLen = t * BlockLen + BlockLen /\ t * BlockLen \in Nat
        BY <1>2, ProductGrows
      <4>3. TileLen * BlockLen \in Nat
        BY <1>2, ProductGrows
      <4> QED BY <1>2, <4>1, <4>2, <4>3
    <3>3. i \in Buffer
      <4> DEFINE R == Minimum(TileQueries, nq)
                 C == Minimum(BlockDocs, n)
      <4>1. TileLen * BlockLen <= R * BlockLen /\ R * BlockLen \in Nat
        BY <1>2, ProductGrows
      <4>2. BlockLen * R <= C * R /\ C * R \in Nat
        BY <1>2, ProductGrows
      <4>3. R * BlockLen = BlockLen * R /\ R * C = C * R
        BY <1>2
      <4>4. TileLen * BlockLen \in Nat
        BY <1>2, ProductGrows
      <4> HIDE DEF i, R, C
      <4>5. i < R * C
        BY <3>1, <3>2, <4>1, <4>2, <4>3, <4>4
      <4> QED BY <3>1, <4>2, <4>3, <4>5 DEF Buffer, R, C
    <3> HIDE DEF i
    <3>4. scores'[i] = Hamming(batch.queries[tileStart + (i \div BlockLen) + 1],
                               docs[blockStart + (i % BlockLen) + 1])
      BY <1>5, <3>2, <3>3
    <3> QED BY <3>1, <3>4 DEF i
  <2> QED BY <2>0, <2>1 DEF CellsHold
<1>7. \A i \in 1 .. nq : Seen(i)' = Seen(i) /\ Offered(i)' = Offered(i)
  <2> SUFFICES ASSUME NEW i \in 1 .. nq
               PROVE  Seen(i)' = Seen(i) /\ Offered(i)' = Offered(i)
    OBVIOUS
  <2>1. Seen(i)' = Seen(i)
    BY <1>1, <1>2, <1>3 DEF Seen, cur
  <2> QED BY <1>1, <2>1 DEF Offered, Key
<1>8. Scanning'
  <2>1. scores' = [i \in Buffer' |-> scores'[i]]
    BY <1>3, <1>5
  <2>2. \A i \in 1 .. nq : HeapOf(heaps[i], worst[i], Offered(i), MEff, Seen(i))'
    BY <1>1, <1>3, <1>7 DEF Scanning, HeapOf, Less
  <2>3. ti' < TileLen' /\ d' < BlockLen'
    BY <1>1, <1>2, <1>3
  <2>4. /\ nq' \in Nat \ {0}
        /\ heaps' \in [1 .. nq' -> SUBSET Pairs] /\ worst' \in [1 .. nq' -> Nat]
        /\ blockStart' < n' /\ tileStart' < nq'
    BY <1>1, <1>3 DEF Scanning, Pairs
  <2> QED BY <1>1, <1>3, <1>6, <2>1, <2>2, <2>3, <2>4 DEF Scanning, Pairs
<1> QED BY <1>4, <1>8 DEF IInv

\* Exactly the current heap has been offered one more document, whichever loop
\* the step leaves.
LEMMA SeenAdvances ==
  ASSUME IInv, CollectDoc, NEW i \in 1 .. nq
  PROVE  /\ Seen(i) \in 0 .. n
         /\ Seen(i)' = IF i = cur THEN Seen(i) + 1 ELSE Seen(i)
         /\ cur \in 1 .. nq /\ Seen(cur) = blockStart + d /\ Seen(cur) < n
<1>1. /\ TypeOK /\ Scanning /\ pc = "collect" /\ ti < TileLen /\ d < BlockLen
      /\ docs' = docs /\ batch' = batch /\ n' = n /\ nq' = nq
  BY DEF IInv, CollectDoc, Scanning, call, n, nq
<1>2. /\ n \in Nat /\ nq \in Nat /\ BlockLen \in 1 .. n /\ blockStart + BlockLen <= n
      /\ TileLen \in 1 .. nq /\ tileStart + TileLen <= nq
      /\ blockStart \in Nat /\ tileStart \in Nat /\ ti \in Nat /\ d \in Nat
  BY <1>1, Sizes, TileInBounds
<1>3. cur = tileStart + ti + 1
  BY DEF cur
<1>4. Seen(i) = IF i <= tileStart \/ i < cur THEN blockStart + BlockLen
                ELSE IF i = cur THEN blockStart + d ELSE blockStart
  BY <1>1 DEF Seen
<1>5. CASE d + 1 < BlockLen
  <2>1. /\ blockStart' = blockStart /\ tileStart' = tileStart /\ ti' = ti /\ d' = d + 1
        /\ pc' = "collect"
    BY <1>1, <1>5 DEF CollectDoc, Advance
  <2>2. cur' = cur /\ BlockLen' = BlockLen
    BY <1>1, <2>1 DEF cur, BlockLen, Minimum
  <2>3. Seen(i)' = IF i <= tileStart \/ i < cur THEN blockStart + BlockLen
                   ELSE IF i = cur THEN blockStart + d + 1 ELSE blockStart
    BY <1>2, <2>1, <2>2 DEF Seen
  <2> QED BY <1>1, <1>2, <1>3, <1>4, <2>3 DEF Seen
<1>6. CASE ~ (d + 1 < BlockLen) /\ ti + 1 < TileLen
  <2>1. /\ blockStart' = blockStart /\ tileStart' = tileStart /\ ti' = ti + 1 /\ d' = 0
        /\ pc' = "collect"
    BY <1>1, <1>6 DEF CollectDoc, Advance
  <2>2. cur' = cur + 1 /\ BlockLen' = BlockLen /\ d + 1 = BlockLen
    BY <1>1, <1>2, <1>6, <2>1 DEF cur, BlockLen, Minimum
  <2>3. Seen(i)' = IF i <= tileStart \/ i < cur + 1 THEN blockStart + BlockLen
                   ELSE blockStart
    BY <1>2, <2>1, <2>2 DEF Seen
  <2> QED BY <1>1, <1>2, <1>3, <1>4, <2>2, <2>3 DEF Seen
<1>7. CASE ~ (d + 1 < BlockLen) /\ ~ (ti + 1 < TileLen) /\ tileStart + TileLen < nq
  <2>1. /\ blockStart' = blockStart /\ tileStart' = tileStart + TileLen /\ pc' = "score"
    BY <1>1, <1>7 DEF CollectDoc, Advance
  <2>2. BlockLen' = BlockLen /\ d + 1 = BlockLen /\ tileStart' = cur
    BY <1>1, <1>2, <1>3, <1>7, <2>1 DEF BlockLen, Minimum
  <2>3. Seen(i)' = IF i <= cur THEN blockStart + BlockLen ELSE blockStart
    BY <2>1, <2>2 DEF Seen
  <2> QED BY <1>1, <1>2, <1>3, <1>4, <2>2, <2>3 DEF Seen
<1>8. CASE ~ (d + 1 < BlockLen) /\ ~ (ti + 1 < TileLen) /\ ~ (tileStart + TileLen < nq)
  <2>1. /\ blockStart' = blockStart + BlockLen /\ tileStart' = 0
        /\ pc' = IF blockStart' < n THEN "score" ELSE "emit"
    BY <1>1, <1>8 DEF CollectDoc, Advance
  <2>2. d + 1 = BlockLen /\ cur = nq
    BY <1>1, <1>2, <1>3, <1>8
  <2>3. Seen(i)' = blockStart + BlockLen
    BY <1>1, <1>2, <2>1 DEF Seen
  <2> QED BY <1>1, <1>2, <1>3, <1>4, <2>2, <2>3 DEF Seen
<1> QED BY <1>5, <1>6, <1>7, <1>8

\* The loops stay inside the corpus and the batch, and a tile is read only with
\* the cells written for it.
LEMMA LoopAdvances ==
  ASSUME IInv, CollectDoc
  PROVE  /\ {blockStart, tileStart, ti, d}' \subseteq Nat
         /\ pc' \in {"score", "collect", "emit"}
         /\ pc' \in {"score", "collect"} => blockStart' < n /\ tileStart' < nq
         /\ pc' = "collect" => (ti < TileLen /\ d < BlockLen /\ ScoresFresh)'
<1>1. /\ TypeOK /\ Scanning /\ pc = "collect" /\ ti < TileLen /\ d < BlockLen
      /\ docs' = docs /\ batch' = batch /\ n' = n /\ nq' = nq /\ scores' = scores
      /\ ScoresFresh /\ blockStart < n /\ tileStart < nq
  BY DEF IInv, CollectDoc, Scanning, call, n, nq
<1>2. /\ n \in Nat /\ nq \in Nat /\ BlockLen \in 1 .. n /\ blockStart + BlockLen <= n
      /\ TileLen \in 1 .. nq /\ tileStart + TileLen <= nq
      /\ blockStart \in Nat /\ tileStart \in Nat /\ ti \in Nat /\ d \in Nat
  BY <1>1, Sizes, TileInBounds
<1>3. ASSUME blockStart' = blockStart, tileStart' = tileStart
      PROVE  BlockLen' = BlockLen /\ TileLen' = TileLen /\ ScoresFresh'
  <2>1. BlockLen' = BlockLen /\ TileLen' = TileLen
    BY <1>1, <1>3 DEF BlockLen, TileLen, Minimum
  <2> QED BY <1>1, <1>3, <2>1 DEF ScoresFresh
<1>5. CASE d + 1 < BlockLen
  <2>1. /\ blockStart' = blockStart /\ tileStart' = tileStart /\ ti' = ti /\ d' = d + 1
        /\ pc' = "collect"
    BY <1>1, <1>5 DEF CollectDoc, Advance
  <2> QED BY <1>1, <1>2, <1>3, <1>5, <2>1
<1>6. CASE ~ (d + 1 < BlockLen) /\ ti + 1 < TileLen
  <2>1. /\ blockStart' = blockStart /\ tileStart' = tileStart /\ ti' = ti + 1 /\ d' = 0
        /\ pc' = "collect"
    BY <1>1, <1>6 DEF CollectDoc, Advance
  <2> QED BY <1>1, <1>2, <1>3, <1>6, <2>1
<1>7. CASE ~ (d + 1 < BlockLen) /\ ~ (ti + 1 < TileLen) /\ tileStart + TileLen < nq
  <2>1. /\ blockStart' = blockStart /\ tileStart' = tileStart + TileLen /\ pc' = "score"
        /\ ti' = ti /\ d' = d
    BY <1>1, <1>7 DEF CollectDoc, Advance
  <2> QED BY <1>1, <1>2, <1>7, <2>1
<1>8. CASE ~ (d + 1 < BlockLen) /\ ~ (ti + 1 < TileLen) /\ ~ (tileStart + TileLen < nq)
  <2>1. /\ blockStart' = blockStart + BlockLen /\ tileStart' = 0
        /\ pc' = (IF blockStart' < n THEN "score" ELSE "emit")
        /\ ti' = ti /\ d' = d
    BY <1>1, <1>8 DEF CollectDoc, Advance
  <2>2. blockStart' \in Nat /\ 0 < nq
    BY <1>1, <1>2, <2>1
  <2> QED BY <1>1, <1>2, <2>1, <2>2
<1> QED BY <1>5, <1>6, <1>7, <1>8

\* A document is offered to the heap of its query with its own distance.
LEMMA CollectDocIInv ==
  ASSUME IInv, CollectDoc
  PROVE  IInv'
<1> DEFINE key == <<scores[ti * BlockLen + d], blockStart + d>>
           new == Collect(heaps[cur], worst[cur], key, MEff)
<1>1. /\ TypeOK /\ Scanning /\ pc = "collect"
      /\ docs' = docs /\ batch' = batch /\ scores' = scores
      /\ heaps' = [heaps EXCEPT ![cur] = new.heap]
      /\ worst' = [worst EXCEPT ![cur] = new.bound]
  BY DEF IInv, CollectDoc, call
<1>2. n' = n /\ nq' = nq /\ MEff' = MEff /\ Buffer' = Buffer
  BY <1>1 DEF n, nq, MEff, Buffer, Minimum
<1>3. n \in Nat /\ nq \in Nat /\ MEff \in Nat \ {0}
  BY <1>1, Sizes DEF TypeOK
<1>4. /\ cur \in 1 .. nq /\ Seen(cur) = blockStart + d
      /\ Seen(cur) \in Nat /\ Seen(cur) < n
  <2>1. 1 \in 1 .. nq
    BY <1>1, <1>3 DEF Scanning
  <2>2. cur \in 1 .. nq /\ Seen(cur) = blockStart + d /\ Seen(cur) < n
    BY <2>1, SeenAdvances
  <2> QED BY <2>2, <1>3, SeenAdvances
<1>5. \A i \in 1 .. nq : /\ Seen(i) \in 0 .. n
                         /\ Seen(i)' = IF i = cur THEN Seen(i) + 1 ELSE Seen(i)
  BY SeenAdvances
<1>6. key = Key(batch.queries[cur], Seen(cur))
  <2>1. /\ ti \in 0 .. TileLen - 1 /\ d \in 0 .. BlockLen - 1 /\ ScoresFresh
        /\ blockStart \in Nat
    BY <1>1, TileInBounds DEF Scanning
  <2>2. scores[ti * BlockLen + d] =
          Hamming(batch.queries[tileStart + ti + 1], docs[blockStart + d + 1])
    BY <2>1 DEF ScoresFresh, CellsHold
  <2> QED BY <1>4, <2>2 DEF Key, cur
<1>7. /\ key[1] \in 0 .. Unbounded - 1 /\ key[2] = Seen(cur)
      /\ key = <<key[1], key[2]>> /\ Unbounded \in Nat
  <2>1. batch.queries[cur] \in Bitmap /\ docs[Seen(cur) + 1] \in Bitmap
    BY <1>1, <1>3, <1>4, Sizes
  <2>2. /\ Hamming(batch.queries[cur], docs[Seen(cur) + 1]) \in 0 .. Unbounded - 1
        /\ Unbounded \in Nat
    BY <2>1, HammingBelow
  <2> QED BY <1>6, <2>2 DEF Key
<1>8. Offered(cur) \subseteq Pairs /\ \A k \in Offered(cur) : k[2] < Seen(cur)
  BY <1>1, <1>3, <1>4, OfferedKeys DEF Offered
<1> HIDE DEF key
<1>9. HeapOf(new.heap, new.bound, Offered(cur) \cup {key}, MEff, Seen(cur) + 1)
  <2>1. HeapOf(heaps[cur], worst[cur], Offered(cur), MEff, Seen(cur))
    BY <1>1, <1>4 DEF Scanning
  <2>2. LET x == Collect(heaps[cur], worst[cur], <<key[1], key[2]>>, MEff)
        IN  HeapOf(x.heap, x.bound, Offered(cur) \cup {<<key[1], key[2]>>}, MEff, Seen(cur) + 1)
    BY <1>3, <1>4, <1>7, <1>8, <2>1, CollectExact
  <2> QED BY <1>7, <2>2
<1> HIDE DEF new
<1>10. \A i \in 1 .. nq :
          Offered(i)' = IF i = cur THEN Offered(i) \cup {key} ELSE Offered(i)
  <2> SUFFICES ASSUME NEW i \in 1 .. nq
               PROVE  Offered(i)' = IF i = cur THEN Offered(i) \cup {key} ELSE Offered(i)
    OBVIOUS
  <2>1. Offered(i)' = {Key(batch.queries[i], doc) : doc \in 0 .. Seen(i)' - 1}
    BY <1>1 DEF Offered, Key
  <2>2. CASE i # cur
    BY <1>5, <2>1, <2>2 DEF Offered
  <2>3. CASE i = cur
    <3>1. 0 .. Seen(i)' - 1 = (0 .. Seen(i) - 1) \cup {Seen(i)}
      BY <1>3, <1>5, <2>3
    <3> QED BY <1>6, <2>1, <2>3, <3>1 DEF Offered
  <2> QED BY <2>2, <2>3
<1>11. new.heap \subseteq Pairs /\ new.bound \in Nat
  <2>1. key \in Pairs
    BY <1>4, <1>7 DEF Pairs
  <2>2. new.heap \subseteq Pairs
    BY <1>8, <1>9, <2>1 DEF HeapOf
  <2> QED BY <1>7, <1>9, <2>2 DEF HeapOf, Pairs
<1>12. \A i \in 1 .. nq : HeapOf(heaps[i], worst[i], Offered(i), MEff, Seen(i))'
  <2> SUFFICES ASSUME NEW i \in 1 .. nq
               PROVE  HeapOf(heaps'[i], worst'[i], Offered(i)', MEff', Seen(i)')
    BY DEF HeapOf, Less, Minimum, Unbounded
  <2>1. CASE i # cur
    BY <1>1, <1>2, <1>4, <1>5, <1>10, <2>1 DEF Scanning
  <2>2. CASE i = cur
    BY <1>1, <1>2, <1>4, <1>5, <1>9, <1>10, <2>2 DEF Scanning
  <2> QED BY <2>1, <2>2
<1>13. /\ heaps' \in [1 .. nq' -> SUBSET Pairs] /\ worst' \in [1 .. nq' -> Nat]
  BY <1>1, <1>2, <1>4, <1>11 DEF Scanning
<1>14. Scanning'
  <2>1. scores' = [i \in Buffer' |-> scores'[i]]
    BY <1>1, <1>2 DEF Scanning
  <2>2. Pairs' = Pairs
    BY DEF Pairs
  <2>3. nq' \in Nat \ {0}
    BY <1>1, <1>2 DEF Scanning
  <2> QED BY <1>2, <1>12, <1>13, <2>1, <2>2, <2>3, LoopAdvances DEF Scanning
<1>15. TypeOK'
  <2>1. MEff' \in 1 .. n' /\ DOMAIN heaps' = 1 .. nq' /\ DOMAIN worst' = 1 .. nq'
    BY <1>1, <1>2, <1>13 DEF TypeOK
  <2>2. pc' \in {"score", "collect", "emit"} /\ {blockStart, tileStart, ti, d}' \subseteq Nat
    BY LoopAdvances
  <2> QED BY <1>1, <1>2, <2>1, <2>2 DEF TypeOK
<1> QED BY <1>14, <1>15 DEF IInv

\* Emitting a row reads the heaps; the last one drops them.
LEMMA EmitRowIInv ==
  ASSUME IInv, EmitRow
  PROVE  IInv'
<1>1. TypeOK /\ Scanning /\ pc = "emit" /\ docs' = docs /\ batch' = batch
  BY DEF IInv, EmitRow, call
<1>2. CASE Len(result.offsets) < nq
  <2>1. UNCHANGED <<docs, batch, loop, scores, heaps, worst, pc>>
    BY <1>1, <1>2 DEF EmitRow
  <2>2. /\ n' = n /\ nq' = nq /\ MEff' = MEff /\ Buffer' = Buffer
        /\ BlockLen' = BlockLen /\ TileLen' = TileLen /\ cur' = cur
    BY <2>1 DEF n, nq, MEff, Buffer, BlockLen, TileLen, cur, Minimum, loop
  <2>3. TypeOK'
    BY <1>1, <2>1, <2>2 DEF TypeOK, loop
  <2>4. \A i \in 1 .. nq : Seen(i)' = Seen(i) /\ Offered(i)' = Offered(i)
    BY <2>1, <2>2 DEF Seen, Offered, Key, loop
  <2>5. \A i \in 1 .. nq : HeapOf(heaps[i], worst[i], Offered(i), MEff, Seen(i))'
    BY <1>1, <2>1, <2>2, <2>4 DEF Scanning, HeapOf, Less
  <2>6. Scanning'
    BY <1>1, <2>1, <2>2, <2>5 DEF Scanning, Pairs
  <2> QED BY <2>3, <2>6 DEF IInv
<1>3. CASE ~ (Len(result.offsets) < nq)
  <2>1. pc' = "idle" /\ blockStart' = 0 /\ tileStart' = 0 /\ ti' = 0 /\ d' = 0
    BY <1>1, <1>3 DEF EmitRow
  <2> QED BY <1>1, <2>1 DEF IInv, TypeOK, n
<1> QED BY <1>2, <1>3

\* The invariant speaks only of the variables of the module.
LEMMA StutterIInv ==
  ASSUME IInv, UNCHANGED vars
  PROVE  IInv'
<1>1. /\ docs' = docs /\ batch' = batch /\ UNCHANGED loop /\ scores' = scores
      /\ heaps' = heaps /\ worst' = worst /\ pc' = pc
  BY DEF vars, call
<1>2. /\ n' = n /\ nq' = nq /\ MEff' = MEff /\ Buffer' = Buffer
      /\ BlockLen' = BlockLen /\ TileLen' = TileLen /\ cur' = cur
  BY <1>1 DEF n, nq, MEff, Buffer, BlockLen, TileLen, cur, Minimum, loop
<1>3. TypeOK' = TypeOK
  BY <1>1, <1>2 DEF TypeOK, loop
<1>4. \A i \in 1 .. nq : Seen(i)' = Seen(i) /\ Offered(i)' = Offered(i)
  BY <1>1, <1>2 DEF Seen, Offered, Key, loop
<1>5. ScoresFresh' = ScoresFresh
  BY <1>1, <1>2 DEF ScoresFresh, loop
<1>6. ASSUME Scanning PROVE Scanning'
  <2>1. \A i \in 1 .. nq : HeapOf(heaps[i], worst[i], Offered(i), MEff, Seen(i))'
    BY <1>1, <1>2, <1>4, <1>6 DEF Scanning, HeapOf, Less
  <2> QED BY <1>1, <1>2, <1>5, <1>6, <2>1 DEF Scanning, Pairs, loop
<1> QED BY <1>1, <1>3, <1>6 DEF IInv

\* The inductive invariant holds in every reachable state.
THEOREM InductiveInvariant == Spec => []IInv
<1>1. Init => IInv
  BY InitIInv
<1>2. IInv /\ [Next]_vars => IInv'
  <2> SUFFICES ASSUME IInv, [Next]_vars PROVE IInv'
    OBVIOUS
  <2>1. ASSUME NEW bitmaps \in Additions, Add(bitmaps) PROVE IInv'
    BY <2>1, AddIInv
  <2>2. ASSUME NEW idx \in 0 .. n - 1, SwapRemove(idx) PROVE IInv'
    BY <2>2, SwapRemoveIInv
  <2>3. ASSUME NEW b \in Batches, BeginEmpty(b) PROVE IInv'
    BY <2>3, BeginEmptyIInv
  <2>4. ASSUME NEW b \in Batches, Begin(b) PROVE IInv'
    BY <2>4, BeginIInv
  <2>5. CASE ScoreTile BY <2>5, ScoreTileIInv
  <2>6. CASE CollectDoc BY <2>6, CollectDocIInv
  <2>7. CASE EmitRow BY <2>7, EmitRowIInv
  <2>8. CASE UNCHANGED vars BY <2>8, StutterIInv
  <2> QED BY <2>1, <2>2, <2>3, <2>4, <2>5, <2>6, <2>7, <2>8 DEF Next, Step
<1> QED BY <1>1, <1>2, PTL DEF Spec

-----------------------------------------------------------------------------
(* The rows that are emitted.                                               *)

\* The keys of a query order the documents strictly.
LEMMA KeyType ==
  ASSUME TypeOK, NEW i \in 1 .. nq, NEW doc \in 0 .. n - 1
  PROVE  Key(batch.queries[i], doc) \in Pairs /\ Key(batch.queries[i], doc)[2] = doc
<1>1. n \in Nat /\ doc \in 0 .. n - 1
  BY Sizes
<1>2. {Key(batch.queries[i], o) : o \in 0 .. n - 1} \subseteq Pairs
  BY <1>1, OfferedKeys
<1>3. Key(batch.queries[i], doc) \in Pairs
  BY <1>1, <1>2
<1> QED BY <1>3 DEF Key

\* A heap that was offered every document becomes the row of the single-query path.
LEMMA SortedHeap ==
  ASSUME TypeOK, NEW i \in 1 .. nq, NEW heap, NEW bound,
         HeapOf(heap, bound, {Key(batch.queries[i], doc) : doc \in 0 .. n - 1}, MEff, n)
  PROVE  /\ SortedDocs(heap) = TopMCandidates(batch.queries[i], batch.m)
         /\ SortedDocs(heap) \in Seq(Nat)
<1> DEFINE q == batch.queries[i]
           Docs == 0 .. n - 1
           S == {Key(q, doc) : doc \in Docs}
           RH == {p \in heap \X heap : Less(p[1], p[2])}
           RD == {p \in Docs \X Docs : Less(Key(q, p[1]), Key(q, p[2]))}
           Nearer(doc) == {o \in Docs : Less(Key(q, o), Key(q, doc))}
           Under(k) == {o \in heap : Less(o, k)}
           Rank(r) == CHOOSE doc \in Docs : Cardinality(Nearer(doc)) = r - 1
           Kept(r) == CHOOSE k \in heap : Cardinality(Under(k)) = r - 1
<1>1. n \in Nat /\ MEff \in Nat /\ IsFiniteSet(Docs) /\ Cardinality(Docs) = n /\ MEff <= n
  <2>1. n \in Nat /\ MEff \in Nat /\ batch.m \in Nat
    BY Sizes DEF TypeOK
  <2>2. MEff <= n
    BY <2>1 DEF MEff, Minimum
  <2>3. IsFiniteSet(0 .. n - 1) /\ Cardinality(0 .. n - 1) = n
    <3>1. 0 \in Int /\ n - 1 \in Int
      BY <2>1
    <3>2. /\ IsFiniteSet(0 .. n - 1)
          /\ Cardinality(0 .. n - 1) = IF 0 > n - 1 THEN 0 ELSE n - 1 - 0 + 1
      BY <3>1, FS_Interval
    <3> QED BY <2>1, <3>2
  <2> QED BY <2>1, <2>2, <2>3
<1>2. \A doc \in Docs : Key(q, doc) \in Pairs /\ Key(q, doc)[2] = doc
  BY KeyType
<1>3. /\ heap \subseteq S /\ IsFiniteSet(heap) /\ Cardinality(heap) = MEff
      /\ \A out \in S \ heap : \A kept \in heap : Less(kept, out)
  BY <1>1 DEF HeapOf, Minimum, MEff
<1>4. heap \subseteq Pairs
  BY <1>2, <1>3
<1> HIDE DEF Docs
<1>5. \A a, b \in heap : <<a, b>> \in RH <=> Less(a, b)
  OBVIOUS
<1>6. \A a, b \in Docs : <<a, b>> \in RD <=> Less(Key(q, a), Key(q, b))
  OBVIOUS
<1> HIDE DEF RH, RD
<1>7. IsStrictOrder(RH, heap)
  BY <1>4, <1>5, LessOrder DEF IsStrictOrder
<1>8. IsStrictOrder(RD, Docs)
  <2>1. \A a, b \in Docs : Key(q, a) = Key(q, b) => a = b
    BY <1>2
  <2>2. \A a, b, c \in Docs :
          /\ ~ Less(Key(q, a), Key(q, a))
          /\ Less(Key(q, a), Key(q, b)) \/ Less(Key(q, b), Key(q, a)) \/ a = b
          /\ Less(Key(q, a), Key(q, b)) /\ Less(Key(q, b), Key(q, c)) => Less(Key(q, a), Key(q, c))
    BY <1>2, <2>1, LessOrder
  <2> QED BY <1>6, <2>2 DEF IsStrictOrder
<1>9. \A k \in heap : Below(k, RH, heap) = Under(k)
  BY <1>5 DEF Below
<1>10. \A doc \in Docs : Below(doc, RD, Docs) = Nearer(doc)
  BY <1>6 DEF Below
<1>11. ASSUME NEW r \in 1 .. MEff
       PROVE  Kept(r)[2] = Rank(r) /\ Rank(r) \in Docs
  <2>1. r - 1 \in 0 .. Cardinality(heap) - 1 /\ r - 1 \in 0 .. Cardinality(Docs) - 1
    BY <1>1, <1>3
  <2>2. PICK k \in heap : Cardinality(Under(k)) = r - 1
    <3> HIDE DEF Under
    <3> QED BY <1>3, <1>7, <1>9, <2>1, Ranked
  <2>3. \A x \in heap : Cardinality(Under(x)) = r - 1 => x = k
    <3> HIDE DEF Under
    <3> QED BY <1>3, <1>7, <1>9, <2>1, <2>2, Ranked
  <2>4. PICK doc \in Docs : k = Key(q, doc)
    BY <1>3
  <2>5. Cardinality(Nearer(doc)) = Cardinality(Under(k))
    <3> DEFINE g == [o \in Nearer(doc) |-> Key(q, o)]
    <3>1. \A o \in Nearer(doc) : Key(q, o) \in Under(k)
      <4> SUFFICES ASSUME NEW o \in Docs, Less(Key(q, o), k) PROVE Key(q, o) \in heap
        BY <2>4
      <4>1. Key(q, o) \in heap \/ Less(k, Key(q, o))
        BY <1>3
      <4> QED BY <1>2, <1>4, <4>1, LessOrder
    <3>2. \A x \in Under(k) : \E o \in Nearer(doc) : Key(q, o) = x
      BY <1>3, <2>4
    <3>3. \A a, b \in Nearer(doc) : Key(q, a) = Key(q, b) => a = b
      BY <1>2
    <3>4. IsFiniteSet(Nearer(doc))
      BY <1>1, FS_Subset
    <3> HIDE DEF Nearer, Under
    <3>5. g \in [Nearer(doc) -> Under(k)] /\ DOMAIN g = Nearer(doc)
      BY <3>1
    <3>6. \A o \in Nearer(doc) : g[o] = Key(q, o)
      OBVIOUS
    <3> HIDE DEF g
    <3>7. g \in Injection(Nearer(doc), Under(k))
      BY <3>3, <3>5, <3>6 DEF Injection, IsInjective
    <3>8. g \in Surjection(Nearer(doc), Under(k))
      BY <3>2, <3>5, <3>6 DEF Surjection
    <3> QED BY <3>4, <3>7, <3>8, FS_Bijection DEF Bijection, ExistsBijection
  <2>6. \A o \in Docs : Cardinality(Nearer(o)) = r - 1 => o = doc
    <3>1. Cardinality(Nearer(doc)) = r - 1
      BY <2>2, <2>5
    <3> HIDE DEF Nearer
    <3> QED BY <1>1, <1>8, <1>10, <2>1, <3>1, Ranked
  <2>7. Kept(r) = k
    <3> HIDE DEF Under
    <3> QED BY <2>2, <2>3
  <2>8. Rank(r) = doc
    <3>1. Cardinality(Nearer(doc)) = r - 1
      BY <2>2, <2>5
    <3> HIDE DEF Nearer
    <3> QED BY <2>6, <3>1
  <2> HIDE DEF Kept, Rank
  <2> QED BY <1>2, <2>4, <2>7, <2>8
<1>12. SortedDocs(heap) = [r \in 1 .. MEff |-> Kept(r)[2]]
  BY <1>3 DEF SortedDocs
<1>13. TopMCandidates(q, batch.m) = [r \in 1 .. MEff |-> Rank(r)]
  BY DEF TopMCandidates, MEff, Docs
<1>14. Docs \subseteq Nat
  BY DEF Docs
<1> HIDE DEF Kept, Rank
<1>15. SortedDocs(heap) = TopMCandidates(q, batch.m)
  BY <1>11, <1>12, <1>13
<1>16. TopMCandidates(q, batch.m) \in [1 .. MEff -> Nat]
  BY <1>11, <1>13, <1>14
<1> HIDE DEF q
<1>17. TopMCandidates(q, batch.m) \in Seq(Nat)
  BY <1>1, <1>16
<1> QED BY <1>15, <1>17 DEF q

\* The part of the batch that is finished: a row per query emitted, each where its
\* offsets say.
RowsDone(candidates, offsets, q, m) ==
  /\ offsets[1] = 0 /\ offsets[Len(offsets)] = Len(candidates)
  /\ \A i \in 1 .. Len(offsets) - 1 :
       /\ offsets[i] <= offsets[i + 1] /\ offsets[i + 1] <= Len(candidates)
       /\ SubSeq(candidates, offsets[i] + 1, offsets[i + 1]) = TopMCandidates(q[i], m)

Emitted ==
  /\ result.candidates \in Seq(Nat) /\ result.offsets \in Seq(Nat)
  /\ pc # "idle" => result.offsets # <<>>
  /\ pc \in {"score", "collect"} => Len(result.offsets) = 1
  /\ pc = "emit" => Len(result.offsets) <= nq
  /\ result.offsets # <<>> =>
       /\ RowsDone(result.candidates, result.offsets, batch.queries, batch.m)
       /\ pc = "idle" => Len(result.offsets) = nq + 1

\* One more row at the end moves none of the others.
LEMMA RowAppended ==
  ASSUME NEW cands \in Seq(Nat), NEW offs \in Seq(Nat), offs # <<>>,
         RowsDone(cands, offs, batch.queries, batch.m), NEW row \in Seq(Nat),
         row = TopMCandidates(batch.queries[Len(offs)], batch.m)
  PROVE  LET more == cands \o row
         IN  /\ more \in Seq(Nat) /\ Append(offs, Len(more)) \in Seq(Nat)
             /\ Len(Append(offs, Len(more))) = Len(offs) + 1
             /\ RowsDone(more, Append(offs, Len(more)), batch.queries, batch.m)
<1> DEFINE more == cands \o row
           new == Append(offs, Len(more))
           l == Len(offs)
<1>1. /\ more \in Seq(Nat) /\ Len(more) = Len(cands) + Len(row)
      /\ \A x \in 1 .. Len(cands) + Len(row) :
           more[x] = IF x <= Len(cands) THEN cands[x] ELSE row[x - Len(cands)]
  BY ConcatProperties
<1>2. Len(more) \in Nat /\ Len(cands) \in Nat /\ Len(row) \in Nat /\ l \in Nat \ {0}
  BY <1>1
<1> HIDE DEF more
<1>3. /\ new \in Seq(Nat) /\ Len(new) = l + 1 /\ new[l + 1] = Len(more)
      /\ \A x \in 1 .. l : new[x] = offs[x] /\ offs[x] \in Nat
  BY <1>2, AppendProperties
<1> HIDE DEF new
<1>4. new[1] = 0 /\ new[Len(new)] = Len(more)
  <2>1. offs[1] = 0
    BY DEF RowsDone
  <2>2. 1 \in 1 .. l
    BY <1>2
  <2> QED BY <1>3, <2>1, <2>2
<1>5. ASSUME NEW i \in 1 .. Len(new) - 1
      PROVE  /\ new[i] <= new[i + 1] /\ new[i + 1] <= Len(more)
             /\ SubSeq(more, new[i] + 1, new[i + 1]) = TopMCandidates(batch.queries[i], batch.m)
  <2>1. CASE i < l
    <3> DEFINE lo == offs[i]
               hi == offs[i + 1]
    <3>1. i \in 1 .. l - 1 /\ new[i] = lo /\ new[i + 1] = hi /\ lo \in Nat /\ hi \in Nat
      BY <1>2, <1>3, <2>1
    <3>2. /\ lo <= hi /\ hi <= Len(cands)
          /\ SubSeq(cands, lo + 1, hi) = TopMCandidates(batch.queries[i], batch.m)
      BY <3>1 DEF RowsDone
    <3> HIDE DEF lo, hi
    <3>3. SubSeq(more, lo + 1, hi) = SubSeq(cands, lo + 1, hi)
      <4>1. CASE lo < hi
        <5>1. lo + 1 \in 1 .. Len(cands) /\ hi \in 1 .. Len(cands)
          BY <1>2, <3>1, <3>2, <4>1
        <5> QED BY <5>1, SubSeqOfConcat1 DEF more
      <4>2. CASE lo = hi
        <5>1. lo + 1 \in Int /\ hi \in Int /\ hi < lo + 1
          BY <3>1, <4>2
        <5>2. SubSeq(more, lo + 1, hi) = <<>> /\ SubSeq(cands, lo + 1, hi) = <<>>
          BY <5>1, SubSeqEmpty
        <5> QED BY <5>2
      <4>3. lo < hi \/ lo = hi
        BY <3>1, <3>2
      <4> QED BY <4>1, <4>2, <4>3
    <3>4. hi <= Len(more)
      BY <1>1, <1>2, <3>1, <3>2
    <3> QED BY <3>1, <3>2, <3>3, <3>4
  <2>2. CASE i = l
    <3>1. new[i] = Len(cands) /\ new[i + 1] = Len(more)
      BY <1>2, <1>3, <2>2 DEF RowsDone
    <3>2. SubSeq(more, Len(cands) + 1, Len(more)) = row
      <4> DEFINE a == Len(cands) + 1
                 b == Len(more)
                 sub == SubSeq(more, a, b)
      <4>1. a \in Int /\ b \in Int /\ b - a + 1 = Len(row) /\ \A x \in a .. b : more[x] \in Nat
        <5>1. a \in Int /\ b \in Int /\ b = Len(cands) + Len(row)
          BY <1>1, <1>2
        <5>2. \A x \in 1 .. Len(more) : more[x] \in Nat
          BY <1>1
        <5>3. \A x \in a .. b : x \in 1 .. Len(more)
          BY <1>2
        <5>4. b - a + 1 = Len(row)
          BY <1>2, <5>1
        <5> QED BY <5>1, <5>2, <5>3, <5>4
      <4>2. /\ sub \in Seq(Nat) /\ Len(sub) = IF a <= b THEN b - a + 1 ELSE 0
            /\ \A x \in 1 .. b - a + 1 : sub[x] = more[a + x - 1]
        <5> HIDE DEF a, b
        <5> QED BY <4>1, SubSeqProperties
      <4>3. Len(sub) = Len(row)
        <5> HIDE DEF sub
        <5> QED BY <1>1, <1>2, <4>1, <4>2
      <4>4. ASSUME NEW x \in 1 .. Len(row) PROVE sub[x] = row[x]
        <5>1. a + x - 1 = Len(cands) + x /\ Len(cands) + x \in 1 .. Len(cands) + Len(row)
              /\ ~ Len(cands) + x <= Len(cands) /\ Len(cands) + x - Len(cands) = x
          BY <1>2
        <5>2. sub[x] = more[Len(cands) + x]
          BY <4>1, <4>2, <5>1
        <5>3. more[Len(cands) + x] = row[Len(cands) + x - Len(cands)]
          <6> DEFINE y == Len(cands) + x
          <6>1. y \in 1 .. Len(cands) + Len(row) /\ ~ y <= Len(cands)
            BY <5>1
          <6> HIDE DEF y
          <6>2. more[y] = row[y - Len(cands)]
            BY <1>1, <6>1
          <6> QED BY <6>2 DEF y
        <5> HIDE DEF sub
        <5> QED BY <5>1, <5>2, <5>3
      <4>5. sub \in Seq(Nat)
        BY <4>2
      <4> HIDE DEF sub
      <4>6. \A x \in 1 .. Len(sub) : sub[x] = row[x]
        BY <4>3, <4>4
      <4>7. sub = row
        BY <4>3, <4>5, <4>6, SeqEqual
      <4> QED BY <4>7 DEF sub, a, b
    <3>3. Len(cands) <= Len(more)
      <4>1. Len(more) = Len(cands) + Len(row)
        BY <1>1
      <4> QED BY <1>2, <4>1
    <3> QED BY <1>2, <2>2, <3>1, <3>2, <3>3
  <2>3. i < l \/ i = l
    BY <1>2, <1>3
  <2> QED BY <2>1, <2>2, <2>3
<1>6. RowsDone(more, new, batch.queries, batch.m)
  BY <1>4, <1>5 DEF RowsDone
<1> QED BY <1>1, <1>3, <1>6 DEF more, new

\* What the single-query path returns depends on the documents alone.
LEMMA RowsStay ==
  ASSUME UNCHANGED docs
  PROVE  /\ n' = n
         /\ \A q, m : TopMCandidates(q, m)' = TopMCandidates(q, m)
         /\ \A c, o, q, m : RowsDone(c, o, q, m)' = RowsDone(c, o, q, m)
<1>1. n' = n
  BY DEF n
<1>2. \A q, m : TopMCandidates(q, m)' = TopMCandidates(q, m)
  BY <1>1 DEF TopMCandidates, Key
<1> QED BY <1>1, <1>2 DEF RowsDone

\* A call without a query or a candidate returns a batch of empty rows.
LEMMA BeginEmptyEmitted ==
  ASSUME IInv, NEW b \in Batches, BeginEmpty(b)
  PROVE  Emitted'
<1> DEFINE l == Len(b.queries)
           zeros == [i \in 1 .. l + 1 |-> 0]
<1>1. /\ b.queries \in Seq(Bitmap) /\ b.m \in Nat /\ l \in Nat /\ n \in Nat
      /\ batch' = b /\ docs' = docs /\ pc' = "idle"
      /\ result' = [candidates |-> <<>>, offsets |-> zeros]
  BY SignScanAssumption, Sizes DEF BeginEmpty, IInv
<1>2. l = 0 \/ Minimum(b.m, n) = 0
  BY DEF BeginEmpty
<1>3. zeros \in Seq(Nat) /\ Len(zeros) = l + 1 /\ \A i \in 1 .. l + 1 : zeros[i] = 0
  BY <1>1
<1>4. SubSeq(<<>>, 1, 0) = <<>>
  BY SubSeqEmpty
<1>5. ASSUME NEW i \in 1 .. l PROVE TopMCandidates(b.queries[i], b.m) = <<>>
  <2>1. Minimum(b.m, n) = 0
    BY <1>1, <1>2
  <2> QED BY <2>1 DEF TopMCandidates
<1> HIDE DEF zeros
<1>6. RowsDone(<<>>, zeros, b.queries, b.m)
  <2>1. ASSUME NEW i \in 1 .. Len(zeros) - 1
        PROVE  zeros[i] = 0 /\ zeros[i + 1] = 0 /\ i \in 1 .. l
    <3>1. i \in 1 .. l + 1 /\ i + 1 \in 1 .. l + 1 /\ i \in 1 .. l
      BY <1>1, <1>3
    <3> QED BY <1>3, <3>1
  <2>2. ASSUME NEW i \in 1 .. Len(zeros) - 1
        PROVE  /\ zeros[i] <= zeros[i + 1] /\ zeros[i + 1] <= Len(<<>>)
               /\ SubSeq(<<>>, zeros[i] + 1, zeros[i + 1]) = TopMCandidates(b.queries[i], b.m)
    <3>1. zeros[i] = 0 /\ zeros[i + 1] = 0 /\ i \in 1 .. l
      BY <2>1
    <3>2. 0 + 1 = 1 /\ Len(<<>>) = 0 /\ 0 <= 0
      OBVIOUS
    <3> QED BY <1>4, <1>5, <3>1, <3>2
  <2>3. zeros[1] = 0 /\ zeros[Len(zeros)] = 0
    <3>1. 1 \in 1 .. l + 1 /\ l + 1 \in 1 .. l + 1
      BY <1>1
    <3> QED BY <1>3, <3>1
  <2> QED BY <2>2, <2>3 DEF RowsDone
<1>7. RowsDone(<<>>, zeros, b.queries, b.m)'
  BY <1>1, <1>6, RowsStay DEF zeros
<1>8. nq' = l
  BY <1>1 DEF nq
<1>9. result'.candidates = <<>> /\ result'.offsets = zeros /\ <<>> \in Seq(Nat)
  BY <1>1
<1>10. RowsDone(result.candidates, result.offsets, batch.queries, batch.m)'
  BY <1>1, <1>6, <1>9, RowsStay
<1> HIDE DEF l
<1> QED BY <1>1, <1>3, <1>8, <1>9, <1>10 DEF Emitted

\* A scan starts with no row.
LEMMA BeginEmitted ==
  ASSUME IInv, NEW b \in Batches, Begin(b)
  PROVE  Emitted'
<1>1. /\ result'.candidates = <<>> /\ result'.offsets = <<0>> /\ pc' = "score"
  BY DEF Begin
<1>2. <<>> \in Seq(Nat) /\ <<0>> \in Seq(Nat) /\ Len(<<0>>) = 1 /\ <<0>> # <<>> /\ <<0>>[1] = 0
      /\ Len(<<>>) = 0
  OBVIOUS
<1>3. RowsDone(result.candidates, result.offsets, batch.queries, batch.m)'
  BY <1>1, <1>2 DEF RowsDone
<1> QED BY <1>1, <1>2, <1>3 DEF Emitted

\* At the end of the scan each heap has been offered every document, and becomes
\* the next row.
LEMMA EmitRowEmitted ==
  ASSUME IInv, Emitted, EmitRow
  PROVE  Emitted'
<1> DEFINE i == Len(result.offsets)
           row == SortedDocs(heaps[i])
           more == result.candidates \o row
           new == Append(result.offsets, Len(more))
<1>1. /\ TypeOK /\ Scanning /\ pc = "emit" /\ docs' = docs /\ batch' = batch
      /\ result' = [candidates |-> more, offsets |-> new]
      /\ IF i < nq THEN pc' = "emit" ELSE pc' = "idle"
  BY DEF IInv, EmitRow, call
<1>2. /\ result.candidates \in Seq(Nat) /\ result.offsets \in Seq(Nat) /\ result.offsets # <<>>
      /\ i <= nq
      /\ RowsDone(result.candidates, result.offsets, batch.queries, batch.m)
  BY <1>1 DEF Emitted
<1>3. i \in 1 .. nq /\ nq \in Nat
  BY <1>1, <1>2, Sizes
<1>4. Offered(i) = {Key(batch.queries[i], doc) : doc \in 0 .. n - 1} /\ Seen(i) = n
  BY <1>1 DEF Offered, Seen
<1>5. HeapOf(heaps[i], worst[i], {Key(batch.queries[i], doc) : doc \in 0 .. n - 1}, MEff, n)
  BY <1>1, <1>3, <1>4 DEF Scanning
<1>6. row \in Seq(Nat) /\ row = TopMCandidates(batch.queries[i], batch.m)
  BY <1>1, <1>3, <1>5, SortedHeap
<1> HIDE DEF row
<1>7. /\ more \in Seq(Nat) /\ new \in Seq(Nat) /\ Len(new) = i + 1
      /\ RowsDone(more, new, batch.queries, batch.m)
  <2> DEFINE offs  == result.offsets
             cands == result.candidates
  <2>1. /\ cands \in Seq(Nat) /\ offs \in Seq(Nat) /\ offs # <<>> /\ row \in Seq(Nat)
        /\ RowsDone(cands, offs, batch.queries, batch.m)
        /\ row = TopMCandidates(batch.queries[Len(offs)], batch.m)
    BY <1>2, <1>6
  <2> HIDE DEF offs, cands
  <2>2. /\ cands \o row \in Seq(Nat) /\ Append(offs, Len(cands \o row)) \in Seq(Nat)
        /\ Len(Append(offs, Len(cands \o row))) = Len(offs) + 1
        /\ RowsDone(cands \o row, Append(offs, Len(cands \o row)), batch.queries, batch.m)
    BY <2>1, RowAppended
  <2> QED BY <2>2 DEF offs, cands
<1> HIDE DEF more, new
<1>8. /\ result'.candidates = more /\ result'.offsets = new /\ nq' = nq
      /\ RowsDone(result.candidates, result.offsets, batch.queries, batch.m)'
  BY <1>1, <1>7, RowsStay DEF nq
<1>9. pc' \in {"emit", "idle"} /\ (pc' = "emit" => i + 1 <= nq) /\ (pc' = "idle" => i + 1 = nq + 1)
  BY <1>1, <1>2, <1>3
<1>10. new # <<>>
  BY <1>3, <1>7
<1> HIDE DEF i
<1> QED BY <1>7, <1>8, <1>9, <1>10 DEF Emitted

\* Every step keeps what is emitted.
LEMMA EmittedStep == ASSUME IInv, Emitted, [Next]_vars PROVE Emitted'
<1>1. ASSUME result' = NoResult, pc' = "idle" PROVE Emitted'
  <2>1. result'.candidates = <<>> /\ result'.offsets = <<>> /\ <<>> \in Seq(Nat)
    BY <1>1 DEF NoResult
  <2> QED BY <1>1, <2>1 DEF Emitted
<1>2. ASSUME NEW bitmaps \in Additions, Add(bitmaps) PROVE Emitted'
  BY <1>1, <1>2 DEF Add
<1>3. ASSUME NEW idx \in 0 .. n - 1, SwapRemove(idx) PROVE Emitted'
  BY <1>1, <1>3 DEF SwapRemove
<1>4. ASSUME NEW b \in Batches, BeginEmpty(b) PROVE Emitted'
  BY <1>4, BeginEmptyEmitted
<1>5. ASSUME NEW b \in Batches, Begin(b) PROVE Emitted'
  BY <1>5, BeginEmitted
<1>6. CASE ScoreTile \/ CollectDoc
  <2>1. /\ pc \in {"score", "collect"} /\ pc' \in {"score", "collect", "emit"}
        /\ result' = result /\ docs' = docs /\ batch' = batch /\ nq' = nq
        /\ Scanning
    BY <1>6, LoopAdvances DEF ScoreTile, CollectDoc, call, nq, IInv
  <2>2. RowsDone(result.candidates, result.offsets, batch.queries, batch.m)'
    BY <2>1, RowsStay DEF Emitted
  <2>3. Len(result.offsets) = 1 /\ 1 <= nq
    BY <2>1 DEF Emitted, Scanning
  <2> QED BY <2>1, <2>2, <2>3 DEF Emitted
<1>7. CASE EmitRow
  BY <1>7, EmitRowEmitted
<1>8. CASE UNCHANGED vars
  <2>1. result' = result /\ docs' = docs /\ batch' = batch /\ nq' = nq /\ pc' = pc
    BY <1>8 DEF vars, call, nq
  <2>2. result.offsets # <<>> =>
          RowsDone(result.candidates, result.offsets, batch.queries, batch.m)'
    BY <2>1, RowsStay DEF Emitted
  <2> QED BY <2>1, <2>2 DEF Emitted
<1> QED BY <1>2, <1>3, <1>4, <1>5, <1>6, <1>7, <1>8 DEF Next, Step

-----------------------------------------------------------------------------
(* The theorems.                                                            *)

\* Type correctness of the index and of the scan.
THEOREM TypeCorrect == Spec => []TypeOK
<1>1. IInv => TypeOK
  BY DEF IInv
<1> QED BY <1>1, InductiveInvariant, PTL

\* At every step, for every corpus, batch, block size and tile size, each heap
\* holds exactly the m smallest keys it has been offered, under a bound that
\* never lets a better key be skipped.
THEOREM HeapsAreExact == Spec => []HeapExact
<1>1. IInv => HeapExact
  BY DEF IInv, Scanning, HeapOf, HeapExact
<1> QED BY <1>1, InductiveInvariant, PTL

\* Each row of the batch is what the single-query path returns for its query, and
\* the batch is one the rerank accepts, for every block and tile size.
THEOREM BatchIsExact == Spec => []CsrExact
<1>1. Init => Emitted
  BY DEF Init, Emitted, NoResult
<1>2. IInv /\ Emitted /\ [Next]_vars => Emitted'
  BY EmittedStep
<1>3. Emitted => CsrExact
  <2> SUFFICES ASSUME Emitted, result.offsets # <<>> PROVE CsrExact
    BY DEF CsrExact
  <2> QED BY DEF Emitted, RowsDone, CsrExact
<1> QED BY <1>1, <1>2, <1>3, InductiveInvariant, PTL DEF Spec
=============================================================================
