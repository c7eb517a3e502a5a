------------------------------ MODULE Kernels -------------------------------
(***************************************************************************)
(* The scan kernels of src/src/quant_kernels.rs and src/src/fastscan.rs:   *)
(* what each adds up for one query and one stored document.                *)
(*                                                                         *)
(* Coordinates of a query are integers, and a score is twice the sum the   *)
(* code forms, so that the half-integer centres of the buckets are whole.  *)
(* Rounding and the constant positive factor every score of a call is      *)
(* multiplied with are left out: neither changes which document is better. *)
(***************************************************************************)
EXTENDS Ranks

CONSTANTS
  Lanes512, \* codes an AVX-512 kernel takes at a time (64; 16 for b = 8)
  LanesB2,  \* codes the AVX2 kernel takes at a time, b = 2 (16)
  LanesB4,  \* and b = 4 (8)
  Block,    \* documents in a FastScan block (32)
  Flush,    \* FLUSH: pairs added up in 16 bits (256)
  AccMod,   \* 2^16
  U8Max     \* the greatest entry of a FastScan table (255)

KernelsAssumption ==
  /\ {Lanes512, LanesB2, LanesB4, Block, Flush, U8Max} \subseteq Nat \ {0}
  /\ AccMod \in Nat /\ Flush * U8Max < AccMod

QuerySum(q) == Sum(LAMBDA j : q[j], 1, Len(q))

-----------------------------------------------------------------------------
(* Tables: what the bucket of a document adds at a coordinate.             *)

AsymLut(q, bits) ==
  [j \in DOMAIN q |-> [b \in 0 .. 2^bits - 1 |-> q[j] * Centre2(b, bits)]]

AsymLutB8(q) == [j \in DOMAIN q |-> [code \in 0 .. 255 |-> q[j] * Centre2(code, 8)]]

SymLut(q, bits) ==
  LET codes == CodesOf(q, bits)
  IN  [j \in DOMAIN q |->
         [b \in 0 .. 2^bits - 1 |-> Centre2(codes[j], bits) * Centre2(b, bits)]]

\* The scalar kernels of 1, 2 and 4 bits: each byte, its codes from the most
\* significant.
ScanPacked(doc, lut, bits) ==
  LET cpb == CodesPerByte(bits)
  IN  Sum(LAMBDA g :
            Sum(LAMBDA p : lut[g * cpb + p + 1]
                              [(doc[g + 1] \div 2^((cpb - 1 - p) * bits)) % 2^bits],
                0, cpb - 1),
          0, Len(doc) - 1)

\* The scalar kernel of 8 bits: a byte is a code.
ScanB8(doc, lut) == Sum(LAMBDA d : lut[d][doc[d]], 1, Len(doc))

\* The gather kernel: whole groups of lanes only.
ScanB8Gather(doc, lut) ==
  Sum(LAMBDA c : Sum(LAMBDA l : lut[c * Lanes512 + l][doc[c * Lanes512 + l]],
                     1, Lanes512),
      0, Len(doc) \div Lanes512 - 1)

\* scan_b8_asym_with_lut.
ScanB8Asym(doc, q, cpu) ==
  IF cpu = "avx512" /\ Len(q) % Lanes512 = 0
  THEN ScanB8Gather(doc, AsymLutB8(q))
  ELSE ScanB8(doc, AsymLutB8(q))

\* scan_via_lut_scalar_with_lut.
ScanViaLut(doc, q, bits) ==
  IF bits = 8 THEN ScanB8(doc, AsymLutB8(q))
              ELSE ScanPacked(doc, AsymLut(q, bits), bits)

\* build_byte_lut_b2 and build_byte_lut_b4: what a whole byte of a document adds.
ByteLut(q, bits) ==
  LET cpb == CodesPerByte(bits)
  IN  [g \in 0 .. Len(q) \div cpb - 1 |->
         [byte \in 0 .. 255 |->
            Sum(LAMBDA p : q[g * cpb + p + 1]
                             * Centre2((byte \div 2^((cpb - 1 - p) * bits)) % 2^bits, bits),
                0, cpb - 1)]]

ScanByteLut(doc, lut) == Sum(LAMBDA g : lut[g][doc[g + 1]], 0, Len(doc) - 1)

-----------------------------------------------------------------------------
(* The vector kernels: raw codes, whole groups of lanes, no centres.       *)

RawDot(q, codes, lanes) ==
  Sum(LAMBDA c : Sum(LAMBDA l : q[c * lanes + l] * codes[c * lanes + l], 1, lanes),
      0, Len(q) \div lanes - 1)

RawAvx2(doc, q, bits) ==
  RawDot(q, UnpackBuckets(doc, Len(q), bits), IF bits = 2 THEN LanesB2 ELSE LanesB4)

RawAvx512(doc, q, bits) == RawDot(q, UnpackBuckets(doc, Len(q), bits), Lanes512)

\* Mutant: AVX-512 is taken for any dimension.
SimdTierAnyDim(dim, bits, cpu) ==
  IF bits \notin {2, 4} THEN "none"
  ELSE IF cpu = "avx512" THEN "avx512"
  ELSE IF cpu # "none" /\ dim % (IF bits = 2 THEN LanesB2 ELSE LanesB4) = 0
  THEN "avx2" ELSE "none"

\* select_simd_tier: the widest kernel whose groups divide the dimension.
SimdTier(dim, bits, cpu) ==
  IF bits \notin {2, 4} THEN "none"
  ELSE IF cpu = "avx512" /\ dim % Lanes512 = 0 THEN "avx512"
  ELSE IF cpu # "none" /\ dim % (IF bits = 2 THEN LanesB2 ELSE LanesB4) = 0
  THEN "avx2" ELSE "none"

\* What the centres take from twice a raw sum, the same for every document.
CentreOffset(q, bits) == -(2^bits - 1) * QuerySum(q)

-----------------------------------------------------------------------------
(* FastScan.                                                               *)

Blocks(n) == (n + Block - 1) \div Block

Nibble(a, c) == 4 * a + c

\* pack_fastscan_b2: [block][pair][lane], the lanes without a document zero.
PackFastscan(rows, dim) ==
  LET pairs == dim \div 2
      bytesPerBlock == pairs * Block
  IN  [x \in 1 .. Blocks(Len(rows)) * bytesPerBlock |->
         LET doc == ((x - 1) \div bytesPerBlock) * Block + ((x - 1) % Block)
             p   == ((x - 1) % bytesPerBlock) \div Block
         IN  IF doc < Len(rows)
             THEN Nibble(rows[doc + 1][2 * p + 1], rows[doc + 1][2 * p + 2]) ELSE 0]

\* The byte of a document and a pair, both from 0.
FastscanByte(packed, dim, doc, p) ==
  packed[(doc \div Block) * (dim \div 2) * Block + p * Block + (doc % Block) + 1]

\* Twice what a pair of buckets adds.
PairValue(q, p, nibble) ==
  q[2 * p + 1] * Centre2(nibble \div 4, 2) + q[2 * p + 2] * Centre2(nibble % 4, 2)

\* Mutant: levels are cut, not rounded.
FastscanQueryTruncated(q) ==
  LET pairs  == 0 .. Len(q) \div 2 - 1
      values == {PairValue(q, p, x) : p \in pairs, x \in 0 .. 15}
      low    == Min(values)
      span   == Max(values) - low
      level(v) == IF span = 0 THEN 0
                  ELSE (U8Max * (v - low)) \div span
  IN  [lut |-> [p \in pairs |-> [x \in 0 .. 15 |-> level(PairValue(q, p, x))]],
       low |-> low, span |-> span]

\* build_fastscan_b2_query: one affine map takes every pair's values to
\* 0 .. U8Max, rounding halves up.
FastscanQuery(q) ==
  LET pairs  == 0 .. Len(q) \div 2 - 1
      values == {PairValue(q, p, x) : p \in pairs, x \in 0 .. 15}
      low    == Min(values)
      span   == Max(values) - low
      level(v) == IF span = 0 THEN 0
                  ELSE (2 * U8Max * (v - low) + span) \div (2 * span)
  IN  [lut |-> [p \in pairs |-> [x \in 0 .. 15 |-> level(PairValue(q, p, x))]],
       low |-> low, span |-> span]

\* scan_b2_fastscan_scalar: 32-bit sums.
FastscanScalar(packed, dim, lut, doc) ==
  Sum(LAMBDA p : lut[p][FastscanByte(packed, dim, doc, p)], 0, dim \div 2 - 1)

\* scan_b2_fastscan_avx512: 16-bit sums of Flush pairs, then 32-bit ones.
FastscanAvx512(packed, dim, lut, doc) ==
  LET pairs == dim \div 2
      last(f) == IF (f + 1) * Flush < pairs THEN (f + 1) * Flush - 1 ELSE pairs - 1
  IN  Sum(LAMBDA f : Sum(LAMBDA p : lut[p][FastscanByte(packed, dim, doc, p)],
                         f * Flush, last(f)) % AccMod,
          0, (pairs + Flush - 1) \div Flush - 1)
=============================================================================
