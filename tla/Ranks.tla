------------------------------- MODULE Ranks --------------------------------
(***************************************************************************)
(* The pure functions of src/src/rank.rs: the rank transform of a vector,  *)
(* the bucketing of ranks and the packing of bucket codes into bytes.      *)
(*                                                                         *)
(* A vector is a sequence of numbers of which the transform uses only the  *)
(* order; a byte is a number below 2^ByteBits.                             *)
(***************************************************************************)
EXTENDS Integers, Sequences, FiniteSetsExt

ByteBits == 8

\* Term(first) + ... + Term(last).
Sum(Term(_), first, last) ==
  LET upTo[i \in first - 1 .. last] == IF i < first THEN 0 ELSE upTo[i - 1] + Term(i)
  IN  IF last < first THEN 0 ELSE upTo[last]

\* cmp_finite_f32_then_index: by value, ties by coordinate.
Before(v, i, j) == v[i] < v[j] \/ (v[i] = v[j] /\ i < j)

\* The place of each coordinate in the sorted vector, counted from 0.
RankTransform(v) ==
  [j \in DOMAIN v |-> Cardinality({i \in DOMAIN v : Before(v, i, j)})]

RankToBucket(rank, d, bits) == (rank * 2^bits) \div d

BucketRanks(ranks, bits) ==
  [j \in DOMAIN ranks |-> RankToBucket(ranks[j], Len(ranks), bits)]

\* The bucket codes of a vector.
CodesOf(v, bits) == BucketRanks(RankTransform(v), bits)

CodesPerByte(bits) == ByteBits \div bits

BytesPerVec(d, bits) == d \div CodesPerByte(bits)

\* How far the code at position i (from 0) of a packed vector is shifted: the
\* first code of a byte takes its most significant bits.
ShiftOf(i, bits) == (CodesPerByte(bits) - 1 - (i % CodesPerByte(bits))) * bits

PackBuckets(codes, bits) ==
  LET cpb == CodesPerByte(bits)
  IN  [y \in 1 .. BytesPerVec(Len(codes), bits) |->
         Sum(LAMBDA i : codes[i + 1] * 2^ShiftOf(i, bits), (y - 1) * cpb, y * cpb - 1)]

UnpackBuckets(packed, d, bits) ==
  [j \in 1 .. d |->
     (packed[(j - 1) \div CodesPerByte(bits) + 1] \div 2^ShiftOf(j - 1, bits)) % 2^bits]

\* Twice bucket_centre: the centres of 2^bits bins around 0.
Centre2(bucket, bits) == 2 * bucket - (2^bits - 1)

\* The square of rank_norm, times 12.
RankNorm12(d) == d * (d * d - 1)

\* The square of rankquant_norm, times 12: exact when every bucket is as full
\* as the others.
RankQuantNorm12(d, bits) == d * (2^bits * 2^bits - 1)
=============================================================================
