---------------------------- MODULE MultiBucket -----------------------------
(***************************************************************************)
(* The pure part of src/src/multi_bucket.rs: a document as one bitmap per  *)
(* bucket, and the scores that are read off the overlaps of two documents' *)
(* bitmaps.  A word is the set of its 1 bits; a row holds the words of     *)
(* bucket 0, then those of bucket 1, and so on.  A weight matrix is a      *)
(* function of pairs of buckets, four times what the code holds.           *)
(***************************************************************************)
EXTENDS Ranks

CONSTANT WordBits  \* bits of a word (64)

MultiBucketAssumption == WordBits \in Nat \ {0}

Buckets(bits) == 0 .. 2^bits - 1
WordsPerBitmap(d) == d \div WordBits

\* The bitmaps of the buckets of a vector: add and query_bitmaps_from_ranks.
BucketBitmaps(v, bits) ==
  LET codes == CodesOf(v, bits)
      qpb   == WordsPerBitmap(Len(v))
  IN  [x \in 1 .. 2^bits * qpb |->
         {t \in 0 .. WordBits - 1 :
            codes[((x - 1) % qpb) * WordBits + t + 1] = (x - 1) \div qpb}]

\* The coordinates that lie in bucket a of one row and bucket b of another.
OverlapOf(q, doc, qpb, a, b) ==
  Sum(LAMBDA w : Cardinality(q[a * qpb + w] \cap doc[b * qpb + w]), 1, qpb)

-----------------------------------------------------------------------------
(* Weights.                                                                *)

OuterProductWeights(bits) ==
  [c \in Buckets(bits) \X Buckets(bits) |-> Centre2(c[1], bits) * Centre2(c[2], bits)]

DiagonalWeights(bits) ==
  [c \in Buckets(bits) \X Buckets(bits) |-> IF c[1] = c[2] THEN 4 ELSE 0]

BandedWeights(bits, halfWidth) ==
  [c \in Buckets(bits) \X Buckets(bits) |->
     IF c[1] - c[2] \in -halfWidth .. halfWidth
     THEN Centre2(c[1], bits) * Centre2(c[2], bits) ELSE 0]

-----------------------------------------------------------------------------
(* Scores.                                                                 *)

\* Weights of 0 are passed over.
BilinearScore(q, doc, w, bits, qpb) ==
  MapThenSumSet(LAMBDA c : w[c] * OverlapOf(q, doc, qpb, c[1], c[2]),
                {c \in Buckets(bits) \X Buckets(bits) : w[c] # 0})

\* contingency_row: all the overlaps of a document, in one pass.
ContingencyRow(q, doc, bits, qpb) ==
  [c \in Buckets(bits) \X Buckets(bits) |-> OverlapOf(q, doc, qpb, c[1], c[2])]

\* diagonal_overlap_row: those of equal buckets.
DiagonalOverlapRow(q, doc, bits, qpb) ==
  [a \in Buckets(bits) |-> OverlapOf(q, doc, qpb, a, a)]

ProjectTable(table, w) == MapThenSumSet(LAMBDA c : w[c] * table[c], DOMAIN table)

\* project_all_batched, for one document: one table, a score per matrix.
ProjectAll(q, doc, ws, bits, qpb) ==
  LET table == ContingencyRow(q, doc, bits, qpb)
  IN  [p \in DOMAIN ws |-> ProjectTable(table, ws[p])]
=============================================================================
