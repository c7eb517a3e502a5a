------------------------------ MODULE Evidence ------------------------------
(***************************************************************************)
(* What two code vectors have in common, without an index: the checked     *)
(* bucket codes of src/src/bucket_code.rs, the constant-weight bitmaps and *)
(* their null of const_weight_bitmap.rs, the contingency tables of         *)
(* contingency.rs, and the evaluation scan of quant.rs.                    *)
(*                                                                         *)
(* A table is a function of pairs of buckets.  Centres are doubled, so a   *)
(* product of two is four times the code's.  Counts stay far below the     *)
(* widths (u32, u128) whose overflow the code checks for.                  *)
(***************************************************************************)
EXTENDS MultiBucket

CONSTANT HistLanes  \* codes the AVX-512 histogram takes at a time (64)

EvidenceAssumption == HistLanes \in Nat \ {0}

-----------------------------------------------------------------------------
(* Bucket codes.  A check gives "ok" or the CompositionViolation.          *)

\* CompositionSpec::new.
SpecCheck(d, buckets) ==
  IF d = 0 \/ buckets < 2 \/ buckets > 256 THEN "InvalidSpec"
  ELSE IF d % buckets # 0 THEN "NonUniformSpec" ELSE "ok"

\* RankQuantSpec::new.
RankQuantSpecCheck(d, bits) ==
  IF bits \notin {1, 2, 4, 8} THEN "InvalidBits"
  ELSE IF d > 65535 THEN "DimTooLarge" ELSE SpecCheck(d, 2^bits)

Occupancy(codes, b) == Cardinality({j \in DOMAIN codes : codes[j] = b})

\* CompositionSpec::validate_codes, with the histogram it takes.
CodesCheck(d, buckets, codes) ==
  IF Len(codes) # d THEN "WrongLength"
  ELSE IF \E j \in DOMAIN codes : codes[j] >= buckets THEN "BucketOutOfRange"
  ELSE IF \E b \in 0 .. buckets - 1 : Occupancy(codes, b) # d \div buckets
  THEN "WrongBucketCount" ELSE "ok"

\* BucketCode::from_ranks: ranks are taken in order, and the first that is out
\* of range or seen before ends the loop.
RanksCheck(d, buckets, ranks) ==
  LET bad == {j \in DOMAIN ranks : \/ ranks[j] >= d
                                   \/ \E i \in 1 .. j - 1 : ranks[i] = ranks[j]}
  IN  IF SpecCheck(d, buckets) # "ok" THEN SpecCheck(d, buckets)
      ELSE IF Len(ranks) # d THEN "WrongLength"
      ELSE IF bad = {} THEN "ok"
      ELSE IF ranks[Min(bad)] >= d THEN "RankOutOfRange" ELSE "DuplicateRank"

CodesFromRanks(d, buckets, ranks) ==
  [j \in DOMAIN ranks |-> (ranks[j] * buckets) \div d]

\* BucketCode::from_vector, of a finite vector.
VectorCheck(d, bits, v) ==
  IF RankQuantSpecCheck(d, bits) # "ok" THEN RankQuantSpecCheck(d, bits)
  ELSE IF Len(v) # d THEN "WrongLength"
  ELSE CodesCheck(d, 2^bits, CodesOf(v, bits))

-----------------------------------------------------------------------------
(* Constant-weight bitmaps.                                                *)

\* The coordinates of the last bucket, as flags.
TopBitmap(codes, buckets) == [j \in DOMAIN codes |-> codes[j] = buckets - 1]

FlagOverlap(a, b) == Cardinality({j \in DOMAIN a : a[j] /\ b[j]})

\* from_bucket_range: the coordinates, packed into words.
PackedRange(codes, first, last) ==
  [w \in 1 .. (Len(codes) + WordBits - 1) \div WordBits |->
     {t \in 0 .. WordBits - 1 :
        LET j == (w - 1) * WordBits + t + 1
        IN  j <= Len(codes) /\ codes[j] \in first .. last}]

PackedTopGroup(codes, buckets, width) ==
  PackedRange(codes, buckets - width, buckets - 1)

\* and_popcount.
PackedOverlap(a, b) == Sum(LAMBDA w : Cardinality(a[w] \cap b[w]), 1, Len(a))

TopGroupOverlapVector(a, b, buckets, widths) ==
  [i \in DOMAIN widths |->
     PackedOverlap(PackedTopGroup(a, buckets, widths[i]),
                   PackedTopGroup(b, buckets, widths[i]))]

-----------------------------------------------------------------------------
(* The null: all bitmaps of one weight, equally likely.                    *)

Gcd(a, b) ==
  LET g[p \in Nat \X Nat] == IF p[2] = 0 THEN p[1] ELSE g[<<p[2], p[1] % p[2]>>]
  IN  g[<<a, b>>]

\* choose: common factors are cancelled before each division.
ChooseCount(n, k) ==
  LET less == IF k < n - k THEN k ELSE n - k
      acc[i \in 0 .. less] ==
        IF i = 0 THEN 1
        ELSE LET g == Gcd(n - i + 1, i)
             IN  (acc[i - 1] \div (i \div g)) * ((n - i + 1) \div g)
  IN  IF k > n THEN 0 ELSE acc[less]

\* fiber_count: the bitmaps of that overlap with a fixed one.
FiberCount(d, weight, overlap) ==
  IF overlap > weight \/ weight - overlap > d - weight THEN 0
  ELSE ChooseCount(weight, overlap) * ChooseCount(d - weight, weight - overlap)

\* Mutant: the observed overlap itself is left out of its tail.
TailCountAbove(d, weight, threshold) ==
  IF threshold = 0 THEN ChooseCount(d, weight)
  ELSE Sum(LAMBDA o : FiberCount(d, weight, o), threshold + 1, weight)

\* tail_count: the fibers from the threshold on.
TailCount(d, weight, threshold) ==
  IF threshold = 0 THEN ChooseCount(d, weight)
  ELSE Sum(LAMBDA o : FiberCount(d, weight, o), threshold, weight)

\* tail_probability, as a reduced fraction.
TailProbability(d, weight, observed) ==
  LET space == ChooseCount(d, weight)
      count == TailCount(d, weight, observed)
      g     == Gcd(count, space)
  IN  IF observed = 0 THEN <<1, 1>>
      ELSE IF observed > weight \/ space = 0 THEN <<0, 1>>
      ELSE <<count \div g, space \div g>>

-----------------------------------------------------------------------------
(* Contingency tables.                                                     *)

Cells(nb) == (0 .. nb - 1) \X (0 .. nb - 1)

\* build_histogram_scalar.
HistogramScalar(query, doc, nb) ==
  [c \in Cells(nb) |-> Cardinality({j \in DOMAIN query : <<query[j], doc[j]>> = c})]

\* Mutant: the lanes past the end count too, as the zeros they are loaded with.
HistogramAvx512NoMask(query, doc, nb) ==
  LET groups == (Len(query) + HistLanes - 1) \div HistLanes
      lane(v, j) == IF j <= Len(v) THEN v[j] ELSE 0
  IN  [c \in Cells(nb) |->
         Sum(LAMBDA g : Cardinality({l \in 1 .. HistLanes :
               LET j == g * HistLanes + l
               IN  lane(query, j) = c[1] /\ lane(doc, j) = c[2]}),
             0, groups - 1)]

\* build_histogram_avx512: the last group is loaded with zeros past the end, and
\* a mask keeps those lanes out of every count.
HistogramAvx512(query, doc, nb) ==
  LET groups == (Len(query) + HistLanes - 1) \div HistLanes
      lane(v, j) == IF j <= Len(v) THEN v[j] ELSE 0
  IN  [c \in Cells(nb) |->
         Sum(LAMBDA g : Cardinality({l \in 1 .. HistLanes :
               LET j == g * HistLanes + l
               IN  lane(query, j) = c[1] /\ j <= Len(query) /\ lane(doc, j) = c[2]}),
             0, groups - 1)]

\* find_out_of_range: with 256 buckets a code cannot be.
CodesInRange(query, doc, nb) ==
  nb > 255 \/ \A j \in DOMAIN query : query[j] < nb /\ doc[j] < nb

\* Contingency::new, of codes that pass its checks.
TableCheck(query, doc, nb) ==
  /\ nb \in 1 .. 256 /\ Len(query) = Len(doc)
  /\ CodesInRange(query, doc, nb)

Table(query, doc, nb, cpu) ==
  IF cpu = "avx512" /\ nb <= 16 THEN HistogramAvx512(query, doc, nb)
                                ELSE HistogramScalar(query, doc, nb)

RowSum(table, nb, a) == Sum(LAMBDA b : table[<<a, b>>], 0, nb - 1)

ColumnSum(table, nb, b) == Sum(LAMBDA a : table[<<a, b>>], 0, nb - 1)

TotalCount(table, nb) == Sum(LAMBDA a : RowSum(table, nb, a), 0, nb - 1)

TopOverlap(table, nb) == table[<<nb - 1, nb - 1>>]

DiagonalAgreement(table, nb) == Sum(LAMBDA a : table[<<a, a>>], 0, nb - 1)

\* The band is cut at both ends of the buckets.
BandAgreement(table, nb, radius) ==
  Sum(LAMBDA a : Sum(LAMBDA b : table[<<a, b>>],
                     IF a < radius THEN 0 ELSE a - radius,
                     IF a + radius < nb THEN a + radius ELSE nb - 1),
      0, nb - 1)

TopGroupOverlap(table, nb, width) ==
  Sum(LAMBDA a : Sum(LAMBDA b : table[<<a, b>>], nb - width, nb - 1), nb - width, nb - 1)

BucketL1Distance(table, nb) ==
  Sum(LAMBDA a : Sum(LAMBDA b : (IF a < b THEN b - a ELSE a - b) * table[<<a, b>>],
                     0, nb - 1),
      0, nb - 1)

\* coarsened_counts, of a number of groups that divides the buckets.
Coarsened(table, nb, groups) ==
  LET width == nb \div groups
  IN  [c \in Cells(groups) |->
         Sum(LAMBDA a : Sum(LAMBDA b : table[<<a, b>>],
                            c[2] * width, (c[2] + 1) * width - 1),
             c[1] * width, (c[1] + 1) * width - 1)]

\* rankquant_symmetric_score: the centre of a row is taken once.
SymmetricScore(table, nb) ==
  Sum(LAMBDA a : (2 * a - (nb - 1)) * Sum(LAMBDA b : (2 * b - (nb - 1)) * table[<<a, b>>],
                                          0, nb - 1),
      0, nb - 1)

\* Projection::score.
ProjectionScore(projection, table, nb) ==
  CASE projection.kind = "top"       -> TopOverlap(table, nb)
    [] projection.kind = "topgroup"  -> TopGroupOverlap(table, nb, projection.by)
    [] projection.kind = "diagonal"  -> DiagonalAgreement(table, nb)
    [] projection.kind = "band"      -> BandAgreement(table, nb, projection.by)
    [] projection.kind = "l1"        -> BucketL1Distance(table, nb)
    [] projection.kind = "symmetric" -> SymmetricScore(table, nb)

-----------------------------------------------------------------------------
(* The evaluation scan: no packing, no constraint on the dimension.        *)

\* Four times the square of rankquant_eval_norm.
EvalNorm4(d, bits) ==
  Sum(LAMBDA r : Centre2(RankToBucket(r, d, bits), bits)^2, 0, d - 1)

\* Mutant: the closed form is taken for every dimension.
AsymmetricNorm12ClosedForm(d, bits) == RankQuantNorm12(d, bits)

\* asymmetric_norm: the closed form where every bucket is as full as the others.
AsymmetricNorm12(d, bits) ==
  IF bits = 8 /\ d % 256 # 0 THEN 3 * EvalNorm4(d, bits) ELSE RankQuantNorm12(d, bits)

\* rankquant_eval_search, for one document.
EvalScore(q, codes, bits) ==
  LET own == CodesOf(q, bits)
  IN  Sum(LAMBDA j : Centre2(own[j], bits) * Centre2(codes[j], bits), 1, Len(q))
=============================================================================
