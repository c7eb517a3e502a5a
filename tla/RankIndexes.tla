---------------------------- MODULE RankIndexes -----------------------------
(***************************************************************************)
(* The indexes that keep what ranks say of a vector: Rank (src/src/rank.rs),*)
(* RankQuant (quant.rs), RankQuantFastscan (fastscan.rs) and               *)
(* MultiBucketBitmap (multi_bucket.rs).  Each holds one flat buffer; a     *)
(* behaviour is about one index, whose kind, dimension and width are       *)
(* chosen at the start with the CPU it runs on.                            *)
(*                                                                         *)
(* Documents count from 0.  A call borrows the index, and its answer is    *)
(* taken before the next call.  Scores are what Kernels says, moved up by  *)
(* Shift to make them natural numbers.                                     *)
(***************************************************************************)
EXTENDS Kernels, Evidence, Abi

CONSTANTS
  Configs,    \* the [kind, dim, bits, cpu] considered
  MaxVectors, \* MAX_VECTORS
  Bound,      \* how far an index that checks no limit is explored
  Additions,  \* Additions[dim]: the lists of vectors add may be given
  QueryLists, \* QueryLists[dim]: the lists of queries a call may be given
  IdLists,    \* the candidates search_asymmetric_subset may be given
  Ks,         \* the k, or m, a call may be given
  Shift       \* above the magnitude of every score

RankIndexesAssumption ==
  /\ MaxVectors \in Nat /\ Bound \in Nat /\ MaxVectors <= Bound
  /\ IdLists \subseteq Seq(Nat) /\ Ks \subseteq Nat /\ Shift \in Nat

VARIABLES
  config,     \* kind, dim, bits, the CPU's kernels
  buf,        \* ranks, packed, packed_fs or bitmaps
  n_vectors,  \* n_vectors
  asked,      \* the call whose answer waits: its mode and queries
  answer      \* the answer: a row of [id, score] per query

index == <<config, buf, n_vectors>>
vars  == <<index, asked, answer>>

T == INSTANCE TopK WITH RawScores <- 0 .. 2 * Shift, Infinity <- 4 * Shift

dim  == config.dim
bits == config.bits

NoCall   == [mode |-> "none", queries |-> <<>>]
NoAnswer == <<>>
NoScore  == -1

Smaller(a, b) == IF a < b THEN a ELSE b

-----------------------------------------------------------------------------
(* Construction.                                                           *)

\* The constructors' asserts: Rank::new, RankQuant::new_asymmetric with
\* validate_params, RankQuantFastscan::new and MultiBucketBitmap::new.
Constructible(c) ==
  CASE c.kind = "rank"     -> c.dim >= 2
    [] c.kind = "quant"    -> /\ c.bits \in {1, 2, 4, 8} /\ c.dim >= 2
                              /\ c.dim % CodesPerByte(c.bits) = 0
                              /\ c.bits # 8 => c.dim % 2^c.bits = 0
    [] c.kind = "fastscan" -> c.dim >= 2 /\ c.dim % 4 = 0
    [] c.kind = "multi"    -> /\ c.bits \in {1, 2, 4} /\ c.dim > 0
                              /\ c.dim % WordBits = 0 /\ c.dim % 2^c.bits = 0

\* capability_for: with 8 bits every bucket is as full as the others only at
\* multiples of 256.
SymmetricSupported(c) == c.kind = "rank" \/ ~ (c.bits = 8 /\ c.dim % 256 # 0)

\* What one document takes of the buffer of an index that grows row by row.
RowWidth(c) ==
  CASE c.kind = "rank"  -> c.dim
    [] c.kind = "quant" -> BytesPerVec(c.dim, c.bits)
    [] c.kind = "multi" -> 2^c.bits * WordsPerBitmap(c.dim)

RowOf(c, v) ==
  CASE c.kind = "rank"  -> RankTransform(v)
    [] c.kind = "quant" -> PackBuckets(CodesOf(v, c.bits), c.bits)
    [] c.kind = "multi" -> BucketBitmaps(v, c.bits)

RowAt(di) == SubSeq(buf, di * RowWidth(config) + 1, (di + 1) * RowWidth(config))

Init ==
  /\ config \in {c \in Configs : Constructible(c)}
  /\ buf = <<>> /\ n_vectors = 0
  /\ asked = NoCall /\ answer = NoAnswer

-----------------------------------------------------------------------------
(* Additions and removals.                                                 *)

Idle == asked = NoCall

\* The buffer with the rows of new documents behind those it holds.
AppendedRows(vs) ==
  LET w == RowWidth(config)
  IN  [x \in 1 .. (n_vectors + Len(vs)) * w |->
         IF x <= Len(buf) THEN buf[x]
         ELSE RowOf(config, vs[(x - Len(buf) - 1) \div w + 1])[((x - Len(buf) - 1) % w) + 1]]

\* checked_new_count panics before anything changes; a MultiBucketBitmap checks
\* nothing and is only explored up to Bound.
AddRows(vs) ==
  /\ Idle /\ config.kind \in {"rank", "quant", "multi"}
  /\ n_vectors + Len(vs) <= IF config.kind = "multi" THEN Bound ELSE MaxVectors
  /\ buf' = AppendedRows(vs)
  /\ n_vectors' = n_vectors + Len(vs)
  /\ UNCHANGED <<config, asked, answer>>

\* Nothing to add is no addition; otherwise the index has to be empty.
AddFastscan(vs) ==
  /\ Idle /\ config.kind = "fastscan" /\ Len(vs) <= Bound
  /\ \/ vs = <<>> /\ UNCHANGED <<buf, n_vectors>>
     \/ /\ vs # <<>> /\ n_vectors = 0
        /\ buf' = PackFastscan([i \in DOMAIN vs |-> CodesOf(vs[i], 2)], dim)
        /\ n_vectors' = Len(vs)
  /\ UNCHANGED <<config, asked, answer>>

Add(vs) == AddRows(vs) \/ AddFastscan(vs)

\* The last row is copied over row idx and the buffer is cut.
SwapRemove(idx) ==
  /\ Idle /\ config.kind \in {"rank", "quant"} /\ idx < n_vectors
  /\ LET w    == RowWidth(config)
         last == n_vectors - 1
     IN  /\ buf' = [x \in 1 .. last * w |->
                      IF x - 1 \in idx * w .. (idx + 1) * w - 1
                      THEN buf[last * w + x - idx * w] ELSE buf[x]]
         /\ n_vectors' = last
  /\ UNCHANGED <<config, asked, answer>>

-----------------------------------------------------------------------------
(* Persistence.                                                            *)

\* RankQuant refuses to write 8 bits, a FastScan index the loader's limit; a
\* MultiBucketBitmap has no file.
Written ==
  CASE config.kind = "rank"     -> TRUE
    [] config.kind = "quant"    -> bits # 8
    [] config.kind = "fastscan" -> n_vectors <= MaxVectors
    [] config.kind = "multi"    -> FALSE

\* A row of codes that holds every one of 0 .. top as often as the others.
Uniform(codes, top) ==
  \A b \in 0 .. top :
    Cardinality({j \in DOMAIN codes : codes[j] = b}) = Len(codes) \div (top + 1)

FastscanCodes(doc) ==
  [j \in 1 .. dim |->
     LET byte == FastscanByte(buf, dim, doc, (j - 1) \div 2)
     IN  IF j % 2 = 1 THEN byte \div 4 ELSE byte % 4]

\* The codes, or ranks, of a stored document.
Stored(di) ==
  CASE config.kind = "rank"     -> RowAt(di)
    [] config.kind = "quant"    -> UnpackBuckets(RowAt(di), dim, bits)
    [] config.kind = "fastscan" -> FastscanCodes(di)
    [] config.kind = "multi"    ->
         LET qpb == WordsPerBitmap(dim)
         IN  [j \in 1 .. dim |->
                CHOOSE b \in Buckets(bits) :
                  (j - 1) % WordBits
                    \in RowAt(di)[b * qpb + (j - 1) \div WordBits + 1]]

\* The loaders' checks: the count, the length, each row, and the padding.
LoaderAccepts ==
  /\ n_vectors <= MaxVectors
  /\ Len(buf) = IF config.kind = "fastscan"
                THEN Blocks(n_vectors) * (dim \div 2) * Block
                ELSE n_vectors * RowWidth(config)
  /\ \A di \in 0 .. n_vectors - 1 :
       Uniform(Stored(di), IF config.kind = "rank" THEN dim - 1
                           ELSE IF config.kind = "quant" THEN 2^bits - 1 ELSE 3)
  /\ config.kind = "fastscan" =>
       \A doc \in n_vectors .. Blocks(n_vectors) * Block - 1 :
         \A p \in 0 .. dim \div 2 - 1 : FastscanByte(buf, dim, doc, p) = 0

\* The index is written, its process ends, and another loads the file: a file
\* the loader refuses is lost.
Restart ==
  /\ Idle /\ Written
  /\ IF LoaderAccepts THEN UNCHANGED <<buf, n_vectors>>
                      ELSE buf' = <<>> /\ n_vectors' = 0
  /\ UNCHANGED <<config, asked, answer>>

-----------------------------------------------------------------------------
(* Scores.                                                                 *)

RankSymmetric(q, di) ==
  LET qr == RankTransform(q)
      dr == RowAt(di)
  IN  Sum(LAMBDA j : (2 * qr[j] - (dim - 1)) * (2 * dr[j] - (dim - 1)), 1, dim)

\* The mean is taken out of the sum once for the query.
RankAsymmetric(q, di) ==
  2 * Sum(LAMBDA j : q[j] * RowAt(di)[j], 1, dim) - (dim - 1) * QuerySum(q)

QuantSymmetric(q, di) ==
  IF bits = 8 THEN ScanB8(RowAt(di), SymLut(q, bits))
              ELSE ScanPacked(RowAt(di), SymLut(q, bits), bits)

\* What the kernel of a tier offers to the collector.
QuantAsymmetric(q, di, tier) ==
  CASE bits = 8        -> ScanB8Asym(RowAt(di), q, config.cpu)
    [] tier = "avx512" -> 2 * RawAvx512(RowAt(di), q, bits)
    [] tier = "avx2"   -> 2 * RawAvx2(RowAt(di), q, bits)
    [] OTHER           -> ScanViaLut(RowAt(di), q, bits)

\* A vector kernel leaves the centres to the collector's offset.
WithOffset(top, q, tier) ==
  LET offset == CentreOffset(q, bits)
  IN  IF tier = "none" THEN top
      ELSE T!SetScoreOffset(top, [s \in 0 .. 2 * Shift |-> s + offset])

-----------------------------------------------------------------------------
(* Searches.                                                               *)

\* The collector after the entries 0 .. count - 1 were offered in order.
Offered(start, Score(_), count) ==
  LET top[i \in 0 .. count] ==
        IF i = 0 THEN start ELSE T!MaybeInsert(top[i - 1], Shift + Score(i - 1), i)
  IN  top[count]

\* The k entries a collector kept, under the ids of their positions.
Row(top, k, IdAt(_)) ==
  LET row == T!FinalizeInto(top, k, [score |-> NoScore, idx |-> 0, tie |-> 0])
  IN  [r \in 1 .. k |-> [id |-> IdAt(row[r].idx), score |-> row[r].score]]

FullRow(start, Score(_), k) ==
  Row(Offered(start, Score, n_vectors), k, LAMBDA i : i - 1)

Answers(mode, qs, rows) ==
  /\ answer' = rows
  /\ asked' = [mode |-> mode, queries |-> qs]
  /\ UNCHANGED index

\* k is cut to the number of documents and is then the width of every row.
Search(qs, k) ==
  LET kEff == Smaller(k, n_vectors)
      row(q) == FullRow(T!New(kEff),
                        LAMBDA di : IF config.kind = "rank" THEN RankSymmetric(q, di)
                                    ELSE QuantSymmetric(q, di), kEff)
  IN  /\ Idle /\ config.kind \in {"rank", "quant"} /\ SymmetricSupported(config)
      /\ Answers("symmetric", qs, [i \in DOMAIN qs |-> row(qs[i])])

SearchAsymmetric(qs, k) ==
  LET kEff == Smaller(k, n_vectors)
      tier == SimdTier(dim, bits, config.cpu)
      row(q) == IF config.kind = "rank"
                THEN FullRow(T!New(kEff), LAMBDA di : RankAsymmetric(q, di), kEff)
                ELSE FullRow(WithOffset(T!New(kEff), q, tier),
                             LAMBDA di : QuantAsymmetric(q, di, tier), kEff)
  IN  /\ Idle /\ config.kind \in {"rank", "quant"}
      /\ Answers("asymmetric", qs, [i \in DOMAIN qs |-> row(qs[i])])

\* search_asymmetric_byte_lut, for benchmarks: other widths panic once there is
\* something to score.
SearchByteLut(qs, k) ==
  LET kEff == Smaller(k, n_vectors)
      row(q) == LET lut == ByteLut(q, bits)
                IN  FullRow(T!New(kEff), LAMBDA di : ScanByteLut(RowAt(di), lut), kEff)
  IN  /\ Idle /\ config.kind = "quant" /\ (bits \in {2, 4} \/ kEff = 0 \/ qs = <<>>)
      /\ Answers("asymmetric", qs, [i \in DOMAIN qs |-> row(qs[i])])

\* The rerank of one list of candidates: their rows are gathered, scanned with
\* the ids as tie keys, and the positions kept turned back into ids.
Reranked(q, ids, kEff) ==
  LET tier == SimdTier(dim, bits, config.cpu)
      top  == T!ResetWithTieKeys(T!New(0), kEff, ids)
  IN  Row(Offered(WithOffset(top, q, tier),
                  LAMBDA i : QuantAsymmetric(q, ids[i + 1], tier), Len(ids)),
          kEff, LAMBDA i : IF i = 0 THEN -1 ELSE ids[i])

\* The list may repeat ids but not be longer than the index.
SearchSubset(q, ids, k) ==
  /\ Idle /\ config.kind = "quant"
  /\ Len(ids) <= n_vectors /\ \A p \in DOMAIN ids : ids[p] < n_vectors
  /\ Answers("subset", <<q>>, <<Reranked(q, ids, Smaller(k, Len(ids)))>>)

AbiHits == 2 \* the hits a caller of the C interface has room for

\* ordvec_index_search on a loaded RankQuant.  Of candidates the core gives all,
\* and it panics where they are more than the documents.  A call for no hits is
\* answered before.
SearchAbi(q, given, rows, k, capacity) ==
  LET call == [flags |-> TRUE, dim |-> Len(q), finite |-> TRUE, given |-> given,
               rows |-> rows, k |-> k, hits |-> capacity > 0, capacity |-> capacity]
      required == RequiredHits(call, n_vectors)
      tier == SimdTier(dim, bits, config.cpu)
      full == FullRow(WithOffset(T!New(required), q, tier),
                      LAMBDA di : QuantAsymmetric(q, di, tier), required)
  IN  /\ Idle /\ config.kind = "quant" /\ (given \/ rows = <<>>)
      /\ ValidateSearch(call, dim, n_vectors) = "OK"
      /\ required > 0 /\ given => Len(rows) <= n_vectors
      /\ Answers(IF given THEN "subset" ELSE "asymmetric", <<q>>,
                 <<IF given
                   THEN NormalizeGlobalOrder(Reranked(q, rows, Len(rows)), required)
                   ELSE full>>)

SearchFastscan(qs, k) ==
  LET kEff == Smaller(k, n_vectors)
      score(lut, di) == IF config.cpu = "avx512"
                        THEN FastscanAvx512(buf, dim, lut, di)
                        ELSE FastscanScalar(buf, dim, lut, di)
      row(q) == LET lut == FastscanQuery(q).lut
                IN  FullRow(T!New(kEff), LAMBDA di : score(lut, di), kEff)
  IN  /\ Idle /\ config.kind = "fastscan"
      /\ Answers("fastscan", qs, [i \in DOMAIN qs |-> row(qs[i])])

\* Documents of equal score come in any order, at the cut too.
TopMBilinear(q, w, m) ==
  LET qb == BucketBitmaps(q, bits)
      score(di) == Shift + BilinearScore(qb, RowAt(di), w, bits, WordsPerBitmap(dim))
  IN  /\ Idle /\ config.kind = "multi"
      /\ \E row \in [1 .. Smaller(m, n_vectors) -> 0 .. n_vectors - 1] :
           /\ \A r, s \in DOMAIN row :
                r < s => row[r] # row[s] /\ score(row[r]) >= score(row[s])
           /\ \A di \in 0 .. n_vectors - 1 :
                (\A r \in DOMAIN row : row[r] # di)
                  => \A r \in DOMAIN row : score(row[r]) >= score(di)
           /\ Answers("bilinear", <<q>>,
                      <<[r \in DOMAIN row |-> [id |-> row[r], score |-> NoScore]]>>)

\* The caller takes the answer.
Return ==
  /\ ~ Idle
  /\ asked' = NoCall /\ answer' = NoAnswer
  /\ UNCHANGED index

Next ==
  \/ \E vs \in Additions[dim] : Add(vs)
  \/ \E idx \in 0 .. n_vectors - 1 : SwapRemove(idx)
  \/ Restart
  \/ \E qs \in QueryLists[dim], k \in Ks :
       \/ Search(qs, k) \/ SearchAsymmetric(qs, k) \/ SearchFastscan(qs, k)
       \/ SearchByteLut(qs, k)
       \/ \E ids \in IdLists : qs # <<>> /\ SearchSubset(qs[1], ids, k)
       \/ \E given \in BOOLEAN, ids \in IdLists :
            qs # <<>> /\ SearchAbi(qs[1], given, ids, k, AbiHits)
       \/ qs # <<>> /\ TopMBilinear(qs[1], OuterProductWeights(bits), k)
  \/ Return

Spec == Init /\ [][Next]_vars

-----------------------------------------------------------------------------
(* Properties.                                                             *)

\* A document as the store keeps it: what its index calls it, and its codes.
Body(c, v) ==
  [kind |-> c.kind, bits |-> c.bits,
   codes |-> CASE c.kind = "rank"     -> RankTransform(v)
               [] c.kind = "fastscan" -> CodesOf(v, 2)
               [] OTHER               -> CodesOf(v, c.bits)]

BodyAt(di) == [kind |-> config.kind, bits |-> bits, codes |-> Stored(di)]

Centred(d, x) == IF d.kind = "rank" THEN 2 * x - (Len(d.codes) - 1)
                 ELSE Centre2(x, d.bits)

\* The score of a document for a query, from its codes alone.
Affinity(mode, q, d) ==
  CASE mode = "symmetric" ->
         LET own == IF d.kind = "rank" THEN RankTransform(q) ELSE CodesOf(q, d.bits)
         IN  Sum(LAMBDA j : Centred(d, own[j]) * Centred(d, d.codes[j]), 1, Len(q))
    [] mode = "asymmetric" -> Sum(LAMBDA j : q[j] * Centred(d, d.codes[j]), 1, Len(q))
    [] mode = "fastscan" ->
         LET lut == FastscanQuery(q).lut
         IN  Sum(LAMBDA p : lut[p][Nibble(d.codes[2 * p + 1], d.codes[2 * p + 2])],
                 0, Len(q) \div 2 - 1)

\* A query a document of this kind and dimension can be asked with.
Fits(mq, d) ==
  /\ Len(mq[2]) = Len(d.codes)
  /\ mq[1] = "fastscan" <=> d.kind = "fastscan"

Scored(mq, d) == IF Fits(mq, d) THEN Shift + Affinity(mq[1], mq[2], d) ELSE NoScore

Dims == {c.dim : c \in Configs}
AllAdditions == UNION {{[i \in DOMAIN vs |-> Body(c, vs[i])] : vs \in Additions[c.dim]} :
                         c \in {c \in Configs : Constructible(c)}}
AllLists == UNION {QueryLists[d] : d \in Dims}

Store == INSTANCE DocStore WITH
  Overlap    <- Scored,
  MaxVectors <- Bound,
  Additions  <- AllAdditions,
  QueryLists <- {[i \in DOMAIN qs |-> <<mode, qs[i]>>] :
                   mode \in {"symmetric", "asymmetric", "fastscan"},
                   qs \in AllLists \cup {<<qs[1]>> : qs \in AllLists \ {<<>>}}},
  docs       <- [i \in 1 .. n_vectors |-> BodyAt(i - 1)],
  answer     <- IF config.kind = "multi" THEN <<>> ELSE answer

\* Each index answers as the abstract store does, with the score its documents'
\* ranks or codes have by definition: after any additions, removals and restarts
\* a document keeps its number and its codes; the kernels of every width and CPU
\* agree; a list of candidates gives what the whole index gives, ties to the
\* lower id, through the C interface too (rank.rs, quant.rs and fastscan.rs, the
\* search methods; ordvec-ffi/src/lib.rs, ordvec_index_search).
IndexLikeStore == Store!Init /\ [][UNCHANGED vars \/ Store!Next]_(Store!vars)

\* The norm a search divides by is the one the stored document has (rank.rs,
\* rank_norm and rankquant_norm; quant.rs, asymmetric_norm, "the closed form
\* mis-scales the absolute scores"): the constant factor left out of the scores
\* is the right one for every document, also where buckets are not equally full.
ScalesExact ==
  LET square(di) == Sum(LAMBDA j : Centred(BodyAt(di), Stored(di)[j])^2, 1, dim)
  IN  \A di \in 0 .. n_vectors - 1 :
        CASE config.kind = "rank"  -> RankNorm12(dim) = 3 * square(di)
          [] config.kind = "quant" ->
               /\ AsymmetricNorm12(dim, bits) = 3 * square(di)
               /\ SymmetricSupported(config) =>
                    RankQuantNorm12(dim, bits) = 3 * EvalNorm4(dim, bits)
          [] OTHER -> TRUE

\* A table, the packed bitmaps and the weights tell the same of two code vectors.
TableAgrees(own, codes) ==
  LET nb    == 2^bits
      table == Table(own, codes, nb, config.cpu)
      score(kind, by) == ProjectionScore([kind |-> kind, by |-> by], table, nb)
      within(radius) == {j \in 1 .. dim : own[j] - codes[j] \in -radius .. radius}
  IN  /\ TableCheck(own, codes, nb) /\ CodesCheck(dim, nb, codes) = "ok"
      /\ \A a \in 0 .. nb - 1 : /\ RowSum(table, nb, a) = dim \div nb
                                /\ ColumnSum(table, nb, a) = dim \div nb
      /\ TotalCount(table, nb) = dim
      /\ \A w \in 1 .. nb :
           TopGroupOverlapVector(own, codes, nb, <<w>>) = <<score("topgroup", w)>>
      /\ score("top", 0) = FlagOverlap(TopBitmap(own, nb), TopBitmap(codes, nb))
      /\ score("topgroup", nb \div 2) = Coarsened(table, nb, 2)[<<1, 1>>]
      /\ \A radius \in 0 .. nb : score("band", radius) = Cardinality(within(radius))
      /\ score("diagonal", 0) = score("band", 0)
      /\ score("l1", 0) = Sum(LAMBDA radius : dim - score("band", radius), 0, nb - 1)
      /\ score("symmetric", 0) = ProjectTable(table, OuterProductWeights(bits))
      /\ score("symmetric", 0) = ProjectTable(table, BandedWeights(bits, nb))

\* The bucket bitmaps of a document give the table of its codes.
BitmapsAgree(q, di) ==
  LET qb    == BucketBitmaps(q, bits)
      qpb   == WordsPerBitmap(dim)
      table == Table(CodesOf(q, bits), Stored(di), 2^bits, config.cpu)
  IN  /\ ContingencyRow(qb, RowAt(di), bits, qpb) = table
      /\ DiagonalOverlapRow(qb, RowAt(di), bits, qpb)
           = [a \in Buckets(bits) |-> table[<<a, a>>]]
      /\ ProjectAll(qb, RowAt(di), <<DiagonalWeights(bits)>>, bits, qpb)
           = <<4 * DiagonalAgreement(table, 2^bits)>>

\* For every document a search answers with, the routes to the same evidence
\* agree: the symmetric scan of packed codes, the evaluation scan of raw codes,
\* the contingency table of either kernel, the outer-product weights on bucket
\* bitmaps, and the overlaps of packed and unpacked top groups; and the documents
\* a bilinear scan picks are those of greatest symmetric score
\* (contingency.rs, rankquant_symmetric_score; multi_bucket.rs,
\* outer_product_weights and contingency_row).
EvidenceAgrees ==
  LET symmetric(q, di) == SymmetricScore(Table(CodesOf(q, bits), Stored(di), 2^bits,
                                               config.cpu), 2^bits)
  IN  /\ asked.mode = "symmetric" /\ config.kind = "quant" =>
           \A i \in DOMAIN answer : \A r \in DOMAIN answer[i] :
             LET q  == asked.queries[i]
                 di == answer[i][r].id
             IN  /\ answer[i][r].score = Shift + symmetric(q, di)
                 /\ symmetric(q, di) = EvalScore(q, Stored(di), bits)
                 /\ VectorCheck(dim, bits, q) = "ok"
                 /\ TableAgrees(CodesOf(q, bits), Stored(di))
      /\ asked.mode = "bilinear" =>
           LET q    == asked.queries[1]
               row  == answer[1]
               picked == {row[r].id : r \in DOMAIN row}
           IN  /\ \A r \in DOMAIN row :
                    /\ r > 1 => symmetric(q, row[r - 1].id) >= symmetric(q, row[r].id)
                    /\ \A di \in (0 .. n_vectors - 1) \ picked :
                         symmetric(q, row[r].id) >= symmetric(q, di)
                    /\ BitmapsAgree(q, row[r].id)
                    /\ TableAgrees(CodesOf(q, bits), Stored(row[r].id))

\* The tail of the null counts what it says it counts, the bitmaps of one weight
\* that meet a fixed one often enough; and the codes of a list of ranks are
\* uniform exactly when the list is accepted (const_weight_bitmap.rs, tail_count
\* and tail_probability; bucket_code.rs, from_ranks).
NullExact ==
  asked.mode = "bilinear" =>
    /\ \A top \in SUBSET (1 .. WordBits + 1) :
         LET d == WordBits + 1
             w == Cardinality(top)
             space == {s \in SUBSET (1 .. d) : Cardinality(s) = w}
         IN  \A t \in 0 .. w + 1 :
               LET tail == {s \in space : Cardinality(s \cap top) >= t}
                   p    == TailProbability(d, w, t)
               IN  /\ TailCount(d, w, t) = Cardinality(tail)
                   /\ p[1] * Cardinality(space) = p[2] * Cardinality(tail)
    /\ \A ranks \in [1 .. 4 -> 0 .. 4] :
         LET accepted == RanksCheck(4, 2^bits, ranks) = "ok"
         IN  /\ accepted <=> {ranks[j] : j \in 1 .. 4} = 0 .. 3
             /\ accepted => CodesCheck(4, 2^bits, CodesFromRanks(4, 2^bits, ranks)) = "ok"

\* Twice the exact asymmetric score of a document and the FastScan sum are at
\* most half a level per pair apart (fastscan.rs, "Same scoring contract ...
\* within 8-bit LUT quantization noise").
FastscanNear ==
  asked.mode = "fastscan" =>
    \A i \in DOMAIN answer : \A r \in DOMAIN answer[i] :
      LET q     == asked.queries[i]
          exact == Sum(LAMBDA j : q[j] * Centre2(Stored(answer[i][r].id)[j], 2), 1, dim)
          table == FastscanQuery(q)
          pairs == dim \div 2
          gap   == U8Max * (exact - pairs * table.low)
                     - (answer[i][r].score - Shift) * table.span
      IN  2 * gap \in -(pairs * table.span) .. pairs * table.span
=============================================================================
