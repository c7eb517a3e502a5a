---------------------------- MODULE BitmapIndex -----------------------------
(***************************************************************************)
(* The Bitmap index of src/src/bitmap.rs.  A document is stored as the set *)
(* of its n_top highest-ranked coordinates, packed into qpv words of one   *)
(* flat buffer; a query keeps its n_top largest coordinates.  Five calls   *)
(* answer from the same buffer: search (a streaming collector),            *)
(* top_m_candidates (partition and sort), its batched and its chunked form *)
(* (kernel passes over a shared score buffer) and search_subset.           *)
(*                                                                         *)
(* A word is the set of its 1 bits, a vector a sequence of values of which *)
(* only the order matters.  Documents and coordinates count from 0.  A     *)
(* call is in progress until its result is returned; meanwhile the index   *)
(* is borrowed and does not change.                                        *)
(***************************************************************************)
EXTENDS Integers, Sequences, FiniteSetsExt

CONSTANTS
  WordBits,   \* bits of a word (64)
  Qpv,        \* qwords_per_vec
  NTop,       \* n_top
  MaxVectors, \* MAX_VECTORS
  Chunk,      \* BATCHED_AVX512_CHUNK
  Additions,  \* the lists of vectors add may be given
  QueryLists, \* the lists of queries a call may be given
  IdLists,    \* the lists of document numbers search_subset may be given
  Ks,         \* the k, or m, a call may be given
  BatchSizes  \* the batch sizes of the chunked call

dim == WordBits * Qpv
Coords == 0 .. dim - 1
Word == SUBSET (0 .. WordBits - 1)
Vector == [1 .. dim -> Int]

ASSUME BitmapAssumption ==
  /\ WordBits \in Nat \ {0} /\ Qpv \in Nat \ {0}
  /\ NTop \in 1 .. dim - 1
  /\ MaxVectors \in Nat /\ Chunk \in Nat \ {0}
  /\ Additions \subseteq Seq(Vector) /\ QueryLists \subseteq Seq(Vector)
  /\ IdLists \subseteq Seq(Nat)
  /\ Ks \subseteq Nat /\ BatchSizes \subseteq Nat \ {0}

VARIABLES
  bitmaps,    \* bitmaps: n_vectors rows of Qpv words
  n_vectors,  \* n_vectors
  simd,       \* the CPU has the AVX-512 kernels
  pc,         \* "idle", "chunks", "score", "select" or "return"
  job,        \* the arguments of a chunked call: its chunks of queries, and m
  done,       \* the rows of the chunks that are finished, by chunk
  cur,        \* the chunk being scored
  chunkStart, \* chunk_start, the first query of the kernel's next pass
  scores,     \* scores, the batch * n overlaps of the chunk
  answer      \* the result about to be returned

index == <<bitmaps, n_vectors, simd>>
work  == <<job, done, cur, chunkStart, scores>>
vars  == <<index, pc, work, answer>>

T == INSTANCE TopK WITH RawScores <- 0 .. NTop, Infinity <- NTop + MaxVectors + 1

NoAnswer == <<>>
NoScore  == -1
NoJob    == [chunks |-> <<>>, m |-> 0]

Least(a, b) == IF a < b THEN a ELSE b

-----------------------------------------------------------------------------
(* Bitmaps.                                                                *)

\* The rank of each coordinate, ties by ascending coordinate.
RankTransform(v) ==
  [j \in Coords |-> Cardinality({i \in Coords :
     v[i + 1] < v[j + 1] \/ (v[i + 1] = v[j + 1] /\ i < j)})]

\* The words whose bits are the coordinates of a set.
Packed(coords) ==
  [w \in 1 .. Qpv |-> {b \in 0 .. WordBits - 1 : (w - 1) * WordBits + b \in coords}]

\* Mutant: the cutoff admits one rank more.
RowOfWide(v) ==
  LET ranks == RankTransform(v)
  IN  Packed({j \in Coords : ranks[j] >= dim - NTop - 1})

\* The row add stores for a vector.
RowOf(v) ==
  LET ranks == RankTransform(v)
  IN  Packed({j \in Coords : ranks[j] >= dim - NTop})

\* build_query_bitmap_fp32: a stable sort by value, descending, and its head.
QueryBitmap(q) ==
  LET place(j) == Cardinality({i \in Coords :
                    q[i + 1] > q[j + 1] \/ (q[i + 1] = q[j + 1] /\ i < j)})
  IN  Packed({j \in Coords : place(j) < NTop})

AndPopcount(doc, q) ==
  MapThenSumSet(LAMBDA w : Cardinality(doc[w] \cap q[w]), 1 .. Qpv)

\* Row di of the flat buffer.
Doc(di) == SubSeq(bitmaps, di * Qpv + 1, (di + 1) * Qpv)

Score(qb, di) == AndPopcount(Doc(di), qb)

-----------------------------------------------------------------------------
(* The index.                                                              *)

Init ==
  /\ bitmaps = <<>> /\ n_vectors = 0 /\ simd \in BOOLEAN
  /\ pc = "idle" /\ job = NoJob /\ done = <<>> /\ cur = 0
  /\ chunkStart = 0 /\ scores = <<>>
  /\ answer = NoAnswer

\* Mutant: the capacity is checked before the new documents are counted.
AddUnchecked(vs) ==
  /\ pc = "idle" /\ n_vectors <= MaxVectors
  /\ bitmaps' = [x \in 1 .. Len(bitmaps) + Len(vs) * Qpv |->
                   IF x <= Len(bitmaps) THEN bitmaps[x]
                   ELSE LET y == x - Len(bitmaps) - 1
                        IN  RowOf(vs[y \div Qpv + 1])[(y % Qpv) + 1]]
  /\ n_vectors' = n_vectors + Len(vs)
  /\ UNCHANGED <<simd, pc, work, answer>>

\* checked_new_count refuses (panics) before anything changes.
Add(vs) ==
  /\ pc = "idle" /\ n_vectors + Len(vs) <= MaxVectors
  /\ bitmaps' = [x \in 1 .. Len(bitmaps) + Len(vs) * Qpv |->
                   IF x <= Len(bitmaps) THEN bitmaps[x]
                   ELSE LET y == x - Len(bitmaps) - 1
                        IN  RowOf(vs[y \div Qpv + 1])[(y % Qpv) + 1]]
  /\ n_vectors' = n_vectors + Len(vs)
  /\ UNCHANGED <<simd, pc, work, answer>>

\* Mutant: the last row is copied to where it would be in a buffer of one word
\* per document.
SwapRemoveUnscaled(idx) ==
  /\ pc = "idle"
  /\ LET last == n_vectors - 1
     IN  /\ bitmaps' = [x \in 1 .. last * Qpv |->
                          IF x - 1 \in idx .. idx + Qpv - 1
                          THEN bitmaps[last * Qpv + (x - idx)] ELSE bitmaps[x]]
         /\ n_vectors' = last
  /\ UNCHANGED <<simd, pc, work, answer>>

\* The words of the last row are copied over row idx and the buffer is cut.
SwapRemove(idx) ==
  /\ pc = "idle"
  /\ LET last == n_vectors - 1
         dst  == idx * Qpv
     IN  /\ bitmaps' = [x \in 1 .. last * Qpv |->
                          IF x - 1 \in dst .. dst + Qpv - 1
                          THEN bitmaps[last * Qpv + (x - dst)] ELSE bitmaps[x]]
         /\ n_vectors' = last
  /\ UNCHANGED <<simd, pc, work, answer>>

-----------------------------------------------------------------------------
(* The calls that answer in one pass.                                      *)

\* bitmap_scan: every document is offered to the collector in order.
Scan(qb, k) ==
  LET top[di \in 0 .. n_vectors] ==
        IF di = 0 THEN T!New(k)
        ELSE T!MaybeInsert(top[di - 1], Score(qb, di - 1), di - 1)
  IN  top[n_vectors]

SearchRow(q, k) ==
  LET row == T!FinalizeInto(Scan(QueryBitmap(q), k), k,
                            [score |-> NoScore, idx |-> -1])
  IN  [r \in 1 .. k |-> [id |-> row[r].idx, score |-> row[r].score]]

Returning(rows) ==
  /\ answer' = rows /\ pc' = "return"
  /\ UNCHANGED <<index, work>>

\* k is cut to the number of documents, and is then the width of every row.
Search(qs, k) ==
  /\ pc = "idle"
  /\ Returning([i \in DOMAIN qs |-> SearchRow(qs[i], Least(k, n_vectors))])

\* The order of a selection: overlap descending, document ascending.  Hits that
\* agree in both are equal, so that it does not matter which of them is first.
Ahead(hits, i, j) ==
  \/ hits[i].score > hits[j].score
  \/ hits[i].score = hits[j].score /\ hits[i].id < hits[j].id
  \/ hits[i].score = hits[j].score /\ hits[i].id = hits[j].id /\ i < j

\* select_nth_unstable_by and sort_unstable_by: the first m of the hits in this
\* order; the r-th is the hit that r - 1 others are ahead of.
Selected(hits, m) ==
  [r \in 1 .. m |->
     hits[CHOOSE i \in DOMAIN hits :
            Cardinality({j \in DOMAIN hits : Ahead(hits, j, i)}) = r - 1]]

Dropped(row) == [i \in DOMAIN row |-> [row[i] EXCEPT !.score = NoScore]]

TopMCandidates(q, m) ==
  /\ pc = "idle"
  /\ LET qb   == QueryBitmap(q)
         hits == [i \in 1 .. n_vectors |-> [id |-> i - 1, score |-> Score(qb, i - 1)]]
     IN  Returning(<<Dropped(Selected(hits, Least(m, n_vectors)))>>)

\* Nothing is looked at when nothing is asked for; otherwise every number has
\* to be a document's before the first row is read.
SearchSubset(q, ids, k) ==
  LET kEff == Least(k, Len(ids))
      qb   == QueryBitmap(q)
      hits == [i \in DOMAIN ids |-> [id |-> ids[i], score |-> Score(qb, ids[i])]]
  IN  /\ pc = "idle"
      /\ kEff > 0 => \A i \in DOMAIN ids : ids[i] < n_vectors
      /\ Returning(<<IF kEff = 0 THEN <<>> ELSE Selected(hits, kEff)>>)

-----------------------------------------------------------------------------
(* The chunked call: its chunks are scored on their own, in any order.     *)

ChunksOf(qs, size) ==
  [c \in 1 .. (Len(qs) + size - 1) \div size |->
     SubSeq(qs, (c - 1) * size + 1, Least(c * size, Len(qs)))]

BeginChunked(qs, m, size) ==
  /\ pc = "idle"
  /\ job' = [chunks |-> ChunksOf(qs, size), m |-> m]
  /\ done' = [c \in DOMAIN ChunksOf(qs, size) |-> <<>>]
  /\ pc' = "chunks"
  /\ UNCHANGED <<index, cur, chunkStart, scores, answer>>

batch == Len(job.chunks[cur])
mEff  == Least(job.m, n_vectors)

\* Without candidates the rows are empty; otherwise the chunk gets a score
\* buffer of its own.
BeginChunk(c) ==
  /\ pc = "chunks" /\ done[c] = <<>>
  /\ IF mEff = 0
     THEN /\ done' = [done EXCEPT ![c] = [i \in DOMAIN job.chunks[c] |-> <<>>]]
          /\ UNCHANGED <<pc, cur, chunkStart, scores>>
     ELSE /\ cur' = c /\ chunkStart' = 0
          /\ scores' = [x \in 0 .. Len(job.chunks[c]) * n_vectors - 1 |-> 0]
          /\ pc' = "score"
          /\ UNCHANGED done
  /\ UNCHANGED <<index, job, answer>>

\* Mutant: the cells of a pass are laid out from the pass, not from the batch.
FilledAtPass(first, size) ==
  [x \in DOMAIN scores |->
     IF x \in 0 .. size * n_vectors - 1
     THEN Score(QueryBitmap(job.chunks[cur][first + x \div n_vectors + 1]),
                x % n_vectors)
     ELSE scores[x]]

\* The score buffer after a pass over the corpus for size queries from first.
Filled(first, size) ==
  [x \in DOMAIN scores |->
     IF x \in first * n_vectors .. (first + size) * n_vectors - 1
     THEN Score(QueryBitmap(job.chunks[cur][x \div n_vectors + 1]), x % n_vectors)
     ELSE scores[x]]

\* Mutant: the pass is left for the next round of the loop before chunk_start
\* moves on.
HotPassStuck ==
  /\ pc = "score" /\ simd /\ chunkStart + Chunk <= batch
  /\ UNCHANGED vars

\* A full group of Chunk queries.
HotPass ==
  /\ pc = "score" /\ simd /\ chunkStart + Chunk <= batch
  /\ scores' = Filled(chunkStart, Chunk)
  /\ chunkStart' = chunkStart + Chunk
  /\ UNCHANGED <<index, pc, job, done, cur, answer>>

\* The queries that are left, if any.
TailPass ==
  /\ pc = "score" /\ simd /\ chunkStart + Chunk > batch
  /\ scores' = Filled(chunkStart, batch - chunkStart)
  /\ pc' = "select"
  /\ UNCHANGED <<index, job, done, cur, chunkStart, answer>>

\* The scalar kernel scores every query in one pass.
ScalarPass ==
  /\ pc = "score" /\ ~ simd
  /\ scores' = Filled(0, batch)
  /\ pc' = "select"
  /\ UNCHANGED <<index, job, done, cur, chunkStart, answer>>

\* Each query's slice of the score buffer becomes its row.
Select ==
  /\ pc = "select"
  /\ LET hits(b) == [i \in 1 .. n_vectors |->
                       [id |-> i - 1, score |-> scores[(b - 1) * n_vectors + i - 1]]]
     IN  done' = [done EXCEPT ![cur] =
                    [b \in 1 .. batch |-> Dropped(Selected(hits(b), mEff))]]
  /\ pc' = "chunks" /\ cur' = 0 /\ chunkStart' = 0 /\ scores' = <<>>
  /\ UNCHANGED <<index, job, answer>>

\* The rows of the chunks, in the order of the queries.
Collect ==
  LET rows[c \in 0 .. Len(job.chunks)] ==
        IF c = 0 THEN <<>> ELSE rows[c - 1] \o done[c]
  IN  /\ pc = "chunks" /\ \A c \in DOMAIN done : done[c] # <<>>
      /\ answer' = rows[Len(job.chunks)]
      /\ pc' = "return" /\ job' = NoJob /\ done' = <<>>
      /\ UNCHANGED <<index, cur, chunkStart, scores>>

Return ==
  /\ pc = "return"
  /\ answer' = NoAnswer /\ pc' = "idle"
  /\ UNCHANGED <<index, work>>

Work == \/ \E c \in DOMAIN done : BeginChunk(c)
        \/ HotPass \/ TailPass \/ ScalarPass \/ Select \/ Collect \/ Return

Next ==
  \/ \E vs \in Additions : Add(vs)
  \/ \E idx \in 0 .. n_vectors - 1 : SwapRemove(idx)
  \/ \E qs \in QueryLists, k \in Ks :
       \/ Search(qs, k)
       \/ \E size \in BatchSizes : BeginChunked(qs, k, size)
       \/ qs # <<>> /\ TopMCandidates(qs[1], k)
       \/ \E ids \in IdLists : qs # <<>> /\ SearchSubset(qs[1], ids, k)
  \/ Work

Spec == Init /\ [][Next]_vars

\* A call is straight-line code: once made, it runs.
FairSpec == Spec /\ WF_vars(Work)

-----------------------------------------------------------------------------
(* Properties.                                                             *)

\* An index that was built can be saved and loaded again: its buffer is as long
\* as its count says and its count is one the loader takes, after any sequence of
\* additions and removals (from_persisted_parts in bitmap.rs; checked_new_count
\* in util.rs).
Persistable ==
  /\ Len(bitmaps) = n_vectors * Qpv
  /\ n_vectors <= MaxVectors

\* Every stored row has exactly n_top bits, also after other rows were moved over
\* it: the null distribution of an overlap rests on it (bitmap.rs, "literal
\* n_top-active bitmaps").
ConstantWeight ==
  \A di \in 0 .. n_vectors - 1 :
    MapThenSumSet(LAMBDA w : Cardinality(Doc(di)[w]), 1 .. Qpv) = NTop

\* Between two passes the cells of the queries before chunkStart hold their
\* overlaps and the others are still untouched; before the selection every cell
\* is filled (bitmap.rs, "writes scores[bi * n + di] for all bi and di").
ScoresExact ==
  pc \in {"score", "select"} =>
    \A b \in 0 .. batch - 1, di \in 0 .. n_vectors - 1 :
      scores[b * n_vectors + di] =
        IF pc = "select" \/ b < chunkStart
        THEN Score(QueryBitmap(job.chunks[cur][b + 1]), di) ELSE 0

\* The NTop coordinates of greatest value, ties as in Wins.
Greatest(v, Wins(_, _)) ==
  CHOOSE S \in kSubset(NTop, Coords) :
    \A i \in S, j \in Coords \ S :
      v[i + 1] > v[j + 1] \/ (v[i + 1] = v[j + 1] /\ Wins(i, j))

Body(v)    == Greatest(v, LAMBDA i, j : i > j)
TopOf(q)   == Greatest(q, LAMBDA i, j : i < j)
BodyAt(di) == {j \in Coords : j % WordBits \in Doc(di)[j \div WordBits + 1]}

Common(q, d) == Cardinality(TopOf(q) \cap d)

Store == INSTANCE DocStore WITH
  Overlap   <- Common,
  Additions <- {[i \in DOMAIN vs |-> Body(vs[i])] : vs \in Additions},
  QueryLists <- QueryLists \cup {<<qs[1]>> : qs \in QueryLists \ {<<>>}},
  docs      <- [i \in 1 .. n_vectors |-> BodyAt(i - 1)]

\* Whatever was added and removed before, every call answers as the abstract
\* store does: the documents keep their numbers but for the one that fills a
\* hole, and search, top_m_candidates, its chunked form and search_subset agree
\* on the order (overlap descending, document ascending), with any kernel, any
\* batch size and any k.
AnswersLikeStore == Store!Spec

\* A call returns, however its queries divide into chunks and passes.
CallReturns == pc # "idle" ~> pc = "idle"
=============================================================================
