------------------------------ MODULE SignScan ------------------------------
(***************************************************************************)
(* The sign bitmap index of src/src/sign_bitmap.rs: documents come and go, *)
(* and top_m_candidates_batched_serial_csr streams the corpus once, block  *)
(* by block, collecting for every query the m documents of lowest Hamming  *)
(* distance in a bounded max-heap behind a cached bound.                   *)
(*                                                                         *)
(* A bitmap is the set of its 1 bits.  Documents are numbered from 0 as in *)
(* the code; the vectors the code holds one per query are sequences.       *)
(***************************************************************************)
EXTENDS Integers, Sequences, FiniteSets

CONSTANTS
  Bits,       \* the coordinates, dim of them
  MaxVectors, \* MAX_VECTORS
  BlockDocs,  \* documents in a block (BLOCK_BYTES / bytes per document)
  TileQueries,\* TILE_QUERIES
  Additions,  \* the vector batches add may be given
  Batches     \* the [queries, m] arguments of a candidate call

Bitmap == SUBSET Bits

ASSUME SignScanAssumption ==
  /\ IsFiniteSet(Bits)
  /\ MaxVectors \in Nat
  /\ BlockDocs \in Nat \ {0} /\ TileQueries \in Nat \ {0}
  /\ Additions \subseteq Seq(Bitmap)
  /\ Batches \subseteq [queries : Seq(Bitmap), m : Nat]

VARIABLES
  docs,       \* bitmaps: the indexed documents in row order
  batch,      \* the arguments of the call in progress or last made
  blockStart, tileStart, ti, d,   \* the loop variables of the scan (0 outside)
  scores,     \* block_scores, allocated once and reused for every tile
  heaps,      \* per query, the (hamming, doc_id) pairs kept
  worst,      \* worst_bounds
  pc,         \* "idle", "score", "collect" or "emit"
  result      \* the CandidateBatch being built or returned last

call == <<batch, docs>>
loop == <<blockStart, tileStart, ti, d>>
vars == <<call, loop, scores, heaps, worst, pc, result>>

NoBatch  == [queries |-> <<>>, m |-> 0]
NoResult == [candidates |-> <<>>, offsets |-> <<>>]

n   == Len(docs)
nq  == Len(batch.queries)
Minimum(a, b) == IF a < b THEN a ELSE b
MEff == Minimum(batch.m, n)

Hamming(a, b) == Cardinality((a \ b) \cup (b \ a))

\* u32::MAX: no Hamming distance reaches it.
Unbounded == Cardinality(Bits) + 1

\* The composite key (hamming ascending, doc_id ascending).
Less(a, b) == a[1] < b[1] \/ (a[1] = b[1] /\ a[2] < b[2])

Key(q, doc) == <<Hamming(q, docs[doc + 1]), doc>>

\* The single-query path: a dense score vector partitioned at m_eff, its head
\* sorted.
TopMCandidates(q, m) ==
  LET Docs == 0 .. n - 1
  IN  [r \in 1 .. Minimum(m, n) |->
         CHOOSE doc \in Docs :
           Cardinality({o \in Docs : Less(Key(q, o), Key(q, doc))}) = r - 1]

-----------------------------------------------------------------------------
(* The index.                                                              *)

Init ==
  /\ docs = <<>> /\ batch = NoBatch
  /\ blockStart = 0 /\ tileStart = 0 /\ ti = 0 /\ d = 0
  /\ scores = <<>> /\ heaps = <<>> /\ worst = <<>>
  /\ pc = "idle" /\ result = NoResult

\* Mutant: the count is not checked.
AddUnchecked(bitmaps) ==
  /\ pc = "idle"
  /\ docs' = docs \o bitmaps
  /\ batch' = NoBatch /\ result' = NoResult
  /\ UNCHANGED <<loop, scores, heaps, worst, pc>>

\* checked_new_count refuses (panics) before anything changes.
Add(bitmaps) ==
  /\ pc = "idle" /\ n + Len(bitmaps) <= MaxVectors
  /\ docs' = docs \o bitmaps
  /\ batch' = NoBatch /\ result' = NoResult
  /\ UNCHANGED <<loop, scores, heaps, worst, pc>>

\* The last row moves into the hole.
SwapRemove(idx) ==
  /\ pc = "idle"
  /\ docs' = [i \in 1 .. n - 1 |-> IF i = idx + 1 THEN docs[n] ELSE docs[i]]
  /\ batch' = NoBatch /\ result' = NoResult
  /\ UNCHANGED <<loop, scores, heaps, worst, pc>>

-----------------------------------------------------------------------------
(* The candidate call.                                                     *)

BlockLen == Minimum(Minimum(BlockDocs, n), n - blockStart)
TileLen  == Minimum(TileQueries, nq - tileStart)
cur      == tileStart + ti + 1        \* the query being collected

\* With no query or no candidate every row is empty.
BeginEmpty(b) ==
  /\ pc = "idle" /\ (b.queries = <<>> \/ Minimum(b.m, n) = 0)
  /\ batch' = b
  /\ result' = [candidates |-> <<>>, offsets |-> [i \in 1 .. Len(b.queries) + 1 |-> 0]]
  /\ UNCHANGED <<docs, loop, scores, heaps, worst, pc>>

Begin(b) ==
  /\ pc = "idle" /\ b.queries # <<>> /\ Minimum(b.m, n) # 0
  /\ batch' = b /\ result' = [candidates |-> <<>>, offsets |-> <<0>>]
  /\ blockStart' = 0 /\ tileStart' = 0
  /\ scores' = [i \in 0 .. Minimum(TileQueries, Len(b.queries)) * Minimum(BlockDocs, n) - 1 |-> 0]
  /\ heaps' = [i \in 1 .. Len(b.queries) |-> {}]
  /\ worst' = [i \in 1 .. Len(b.queries) |-> Unbounded]
  /\ pc' = "score"
  /\ UNCHANGED <<docs, ti, d>>

\* sign_scan_collect_batched: the hot block against every query of the tile,
\* one row of BlockLen scores per query.
ScoreTile ==
  /\ pc = "score"
  /\ scores' = [i \in DOMAIN scores |->
                  IF i < TileLen * BlockLen
                  THEN Hamming(batch.queries[tileStart + (i \div BlockLen) + 1],
                               docs[blockStart + (i % BlockLen) + 1])
                  ELSE scores[i]]
  /\ ti' = 0 /\ d' = 0 /\ pc' = "collect"
  /\ UNCHANGED <<call, blockStart, tileStart, heaps, worst, result>>

Greatest(heap) == CHOOSE k \in heap : \A o \in heap : o = k \/ Less(o, k)

\* Mutant: the bound follows the heap before the heap is full.
CollectEarlyBound(heap, bound, key, m) ==
  LET grown == heap \cup {key}
      kept == IF Cardinality(grown) > m THEN grown \ {Greatest(grown)} ELSE grown
  IN  IF key[1] >= bound
      THEN [heap |-> heap, bound |-> bound]
      ELSE [heap |-> kept, bound |-> Greatest(kept)[1]]

\* A bounded max-heap and its cached bound after a key is offered to it.
Collect(heap, bound, key, m) ==
  LET grown == heap \cup {key}
      kept == IF Cardinality(grown) > m THEN grown \ {Greatest(grown)} ELSE grown
  IN  IF key[1] >= bound
      THEN [heap |-> heap, bound |-> bound]
      ELSE [heap |-> kept, bound |-> IF Cardinality(kept) = m
                                     THEN Greatest(kept)[1] ELSE bound]

\* After document d of the block: the next one, the next query of the tile,
\* the next tile, the next block, or the end.
Advance ==
  IF d + 1 < BlockLen
  THEN d' = d + 1 /\ UNCHANGED <<blockStart, tileStart, ti, pc>>
  ELSE IF ti + 1 < TileLen
  THEN ti' = ti + 1 /\ d' = 0 /\ UNCHANGED <<blockStart, tileStart, pc>>
  ELSE /\ UNCHANGED <<ti, d>>
       /\ IF tileStart + TileLen < nq
          THEN /\ tileStart' = tileStart + TileLen
               /\ UNCHANGED blockStart /\ pc' = "score"
          ELSE /\ tileStart' = 0 /\ blockStart' = blockStart + BlockLen
               /\ pc' = IF blockStart' < n THEN "score" ELSE "emit"

\* Mutant: a skipped document does not advance the scan.
CollectDocSkipped ==
  /\ pc = "collect"
  /\ LET key == <<scores[ti * BlockLen + d], blockStart + d>>
         collected == Collect(heaps[cur], worst[cur], key, MEff)
     IN  /\ heaps' = [heaps EXCEPT ![cur] = collected.heap]
         /\ worst' = [worst EXCEPT ![cur] = collected.bound]
  /\ IF heaps' = heaps THEN UNCHANGED <<loop, pc>> ELSE Advance
  /\ UNCHANGED <<call, scores, result>>

CollectDoc ==
  /\ pc = "collect"
  /\ LET key == <<scores[ti * BlockLen + d], blockStart + d>>
         collected == Collect(heaps[cur], worst[cur], key, MEff)
     IN  /\ heaps' = [heaps EXCEPT ![cur] = collected.heap]
         /\ worst' = [worst EXCEPT ![cur] = collected.bound]
  /\ Advance
  /\ UNCHANGED <<call, scores, result>>

\* Mutant: the row is left in the order the heap pops.
SortedDocsDescending(heap) ==
  [r \in 1 .. Cardinality(heap) |->
     (CHOOSE k \in heap : Cardinality({o \in heap : Less(k, o)}) = r - 1)[2]]

\* A heap as the row it becomes.
SortedDocs(heap) ==
  [r \in 1 .. Cardinality(heap) |->
     (CHOOSE k \in heap : Cardinality({o \in heap : Less(o, k)}) = r - 1)[2]]

\* Append the next row to the batch; the locals of the scan go after the last.
EmitRow ==
  /\ pc = "emit"
  /\ LET candidates == result.candidates \o SortedDocs(heaps[Len(result.offsets)])
     IN  result' = [candidates |-> candidates,
                    offsets |-> Append(result.offsets, Len(candidates))]
  /\ IF Len(result.offsets) < nq
     THEN UNCHANGED <<loop, scores, heaps, worst, pc>>
     ELSE /\ pc' = "idle"
          /\ blockStart' = 0 /\ tileStart' = 0 /\ ti' = 0 /\ d' = 0
          /\ scores' = <<>> /\ heaps' = <<>> /\ worst' = <<>>
  /\ UNCHANGED call

Step == ScoreTile \/ CollectDoc \/ EmitRow

Next == \/ \E bitmaps \in Additions : Add(bitmaps)
        \/ \E idx \in 0 .. n - 1 : SwapRemove(idx)
        \/ \E b \in Batches : BeginEmpty(b) \/ Begin(b)
        \/ Step

Spec == Init /\ [][Next]_vars

\* The scan is straight-line code: once entered, it runs.
FairSpec == Spec /\ WF_vars(Step)

-----------------------------------------------------------------------------
(* Properties.                                                             *)

\* How many documents query i's heap has been offered.
Seen(i) ==
  IF pc = "emit" THEN n
  ELSE IF i <= tileStart \/ (pc = "collect" /\ i < cur) THEN blockStart + BlockLen
  ELSE IF pc = "collect" /\ i = cur THEN blockStart + d
  ELSE blockStart

Offered(i) == {Key(batch.queries[i], doc) : doc \in 0 .. Seen(i) - 1}

\* Type correctness of the index and of the scan.
TypeOK ==
  /\ docs \in Seq(Bitmap) /\ n <= MaxVectors
  /\ batch \in [queries : Seq(Bitmap), m : Nat]
  /\ {blockStart, tileStart, ti, d} \subseteq Nat
  /\ pc \in {"idle", "score", "collect", "emit"}
  /\ pc # "idle" => /\ MEff \in 1 .. n
                    /\ DOMAIN heaps = 1 .. nq /\ DOMAIN worst = 1 .. nq

\* At every step of the scan each heap holds the m smallest (hamming, doc_id)
\* keys of the documents it has been offered, and its bound is the largest
\* distance it keeps once it is full: no document is skipped by a bound that is
\* too low, scored against another query's cell, or kept past a better one
\* (sign_bitmap.rs, "the retained set is always the m lexicographically
\* smallest keys seen so far").
HeapExact ==
  pc # "idle" => \A i \in 1 .. nq :
    /\ heaps[i] \subseteq Offered(i)
    /\ Cardinality(heaps[i]) = Minimum(MEff, Seen(i))
    /\ \A out \in Offered(i) \ heaps[i] : \A kept \in heaps[i] : Less(kept, out)
    /\ IF Cardinality(heaps[i]) = MEff
       THEN /\ \E kept \in heaps[i] : worst[i] = kept[1]
            /\ \A kept \in heaps[i] : kept[1] <= worst[i]
       ELSE worst[i] = Unbounded

\* Row i of a batch is what the single-query path returns for query i,
\* whatever the block and tile sizes, and the batch is a CSR batch the rerank
\* accepts (sign_bitmap.rs, "bit-identical to a full sort, independent of
\* processing order" and the invariants of CandidateBatch).
CsrExact ==
  LET offsets == result.offsets
  IN  offsets # <<>> =>
        /\ offsets[1] = 0 /\ offsets[Len(offsets)] = Len(result.candidates)
        /\ \A i \in 1 .. Len(offsets) - 1 :
             /\ offsets[i] <= offsets[i + 1]
             /\ SubSeq(result.candidates, offsets[i] + 1, offsets[i + 1])
                  = TopMCandidates(batch.queries[i], batch.m)
        /\ pc = "idle" => Len(offsets) = nq + 1

\* A candidate call always returns.
ScanReturns == pc # "idle" ~> pc = "idle"
=============================================================================
