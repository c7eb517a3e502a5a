---------------------------- MODULE SubsetRerank ----------------------------
(***************************************************************************)
(* The serial batched subset rerank of src/src/quant.rs                    *)
(* (RankQuant::search_asymmetric_subset_batched_serial_into): a caller     *)
(* hands over queries, a CSR batch of candidate ids, two output buffers    *)
(* and a scratch that outlives the call.  The batch is validated, then     *)
(* each row is gathered, scanned through the collector of TopK and written *)
(* to its part of the outputs.                                             *)
(*                                                                         *)
(* Ids and CSR offsets are numbered from 0 as in the code; rows, scan      *)
(* positions and output cells from 1.                                      *)
(***************************************************************************)
EXTENDS TopK

CONSTANTS
  N,          \* n_vectors of the index
  Queries,    \* query vectors
  CentreOf,   \* CentreOf[q]: what adding the SIMD centre offset of q does
  ScoreTables,\* the tables [Queries -> [0..N-1 -> RawScores]] considered
  Calls       \* the calls considered (see Call)

Ids == 0 .. N - 1

Call == [queries : Seq(Queries), finite : BOOLEAN, offsets : Seq(Nat),
         cands : Seq(Nat), k : Nat, scoreLen : Nat, indexLen : Nat,
         simd : BOOLEAN]

ASSUME RerankAssumption ==
  /\ N \in Nat /\ N <= Infinity
  /\ CentreOf \in [Queries -> [RawScores -> 0 .. Infinity - 1]]
  /\ ScoreTables \subseteq [Queries -> [Ids -> RawScores]]
  /\ Calls \subseteq Call

VARIABLES
  table,    \* score of each document under each query (fixed)
  scratch,  \* SubsetScratch: the query loaded in q_unit, the gathered rows, TopK
  call,     \* the arguments of the call in progress or last made
  out,      \* the caller's two output buffers, one cell per position
  qi,       \* the row being processed
  pos,      \* the next scan position of that row
  pc,       \* "idle", "row" or "scan"
  outcome   \* how the last call ended

vars == <<table, scratch, call, out, qi, pos, pc, outcome>>

Sentinel == [score |-> -1, id |-> -1]     \* NEG_INFINITY / -1
Stale    == [score |-> -2, id |-> -2]     \* whatever the buffer held before
NoEntry  == [score |-> -1, idx |-> 0, tie |-> Infinity]

NoCall == [queries |-> <<>>, finite |-> TRUE, offsets |-> <<0>>, cands |-> <<>>,
           k |-> 0, scoreLen |-> 0, indexLen |-> 0, simd |-> FALSE]

-----------------------------------------------------------------------------
(* Arguments.                                                              *)

NumRows(c) == Len(c.queries)
OutK(c) == IF c.k < N THEN c.k ELSE N
RowLen(c, i) == c.offsets[i + 1] - c.offsets[i]
Row(c, i) == SubSeq(c.cands, c.offsets[i] + 1, c.offsets[i + 1])

\* Slicing row i of the batch and gathering its documents does not panic.
RowInBounds(c, i) ==
  /\ {i, i + 1} \subseteq DOMAIN c.offsets
  /\ c.offsets[i] <= c.offsets[i + 1]
  /\ c.offsets[i + 1] <= Len(c.cands)
  /\ \A p \in c.offsets[i] + 1 .. c.offsets[i + 1] : c.cands[p] < N

\* Mutant: only the ends of the offsets are checked.
ValidCsrBatchEndsOnly(c) ==
  /\ Len(c.offsets) = NumRows(c) + 1
  /\ c.offsets[1] = 0
  /\ c.offsets[Len(c.offsets)] = Len(c.cands)
  /\ \A p \in DOMAIN c.cands : c.cands[p] < N

ValidCsrBatch(c) ==
  /\ Len(c.offsets) = NumRows(c) + 1
  /\ c.offsets[1] = 0
  /\ c.offsets[Len(c.offsets)] = Len(c.cands)
  /\ \A i \in 1 .. NumRows(c) :
        c.offsets[i + 1] >= c.offsets[i] /\ RowLen(c, i) <= N
  /\ \A p \in DOMAIN c.cands : c.cands[p] < N

Accepted(c) ==
  /\ c.finite
  /\ ValidCsrBatch(c)
  /\ c.scoreLen = NumRows(c) * OutK(c)
  /\ c.indexLen = NumRows(c) * OutK(c)

-----------------------------------------------------------------------------
(* The call.                                                               *)

Init ==
  /\ table \in ScoreTables
  /\ scratch = [q |-> <<>>, sub |-> <<>>, top |-> New(0)]
  /\ call = NoCall /\ out = <<>> /\ qi = 1 /\ pos = 1
  /\ pc = "idle" /\ outcome = "none"

\* The asserts at the head of the call: nothing has been written when one
\* fails.
Reject(c) ==
  /\ ~ Accepted(c)
  /\ outcome' = "rejected"
  /\ UNCHANGED <<qi, pc>>

Accept(c) ==
  /\ Accepted(c)
  /\ qi' = 1
  /\ IF OutK(c) = 0 \/ NumRows(c) = 0
     THEN pc' = "idle" /\ outcome' = "ok"
     ELSE pc' = "row" /\ outcome' = "none"

BeginCall(c) ==
  /\ pc = "idle"
  /\ call' = c
  /\ out' = [i \in 1 .. c.scoreLen |-> Stale]
  /\ Reject(c) \/ Accept(c)
  /\ UNCHANGED <<table, scratch, pos>>

\* Mutant: the row is appended to the outputs.
WriteRowAppended(cells) ==
  [i \in 1 .. Len(out) + OutK(call) |->
     IF i <= Len(out) THEN out[i] ELSE cells[i - Len(out)]]

\* The outputs with the cells of row qi replaced by cells.
WriteRow(cells) ==
  LET base == (qi - 1) * OutK(call)
  IN  [i \in DOMAIN out |->
         IF i \in base + 1 .. base + OutK(call) THEN cells[i - base] ELSE out[i]]

\* Leave row qi: go to the next one, or return to the caller.
NextRow ==
  /\ qi' = qi + 1
  /\ IF qi = NumRows(call)
     THEN pc' = "idle" /\ outcome' = "ok"
     ELSE pc' = "row" /\ UNCHANGED outcome

PadEmptyRow ==
  /\ pc = "row" /\ RowInBounds(call, qi) /\ Row(call, qi) = <<>>
  /\ out' = WriteRow([i \in 1 .. OutK(call) |-> Sentinel])
  /\ NextRow
  /\ UNCHANGED <<table, scratch, call, pos>>

\* Load the query, gather the candidates, reset the collector with the row's
\* global ids as tie keys; a SIMD kernel then sets its score offset.
BeginRow ==
  /\ pc = "row" /\ RowInBounds(call, qi) /\ Row(call, qi) # <<>>
  /\ LET row  == Row(call, qi)
         q    == call.queries[qi]
         top  == ResetWithTieKeys(scratch.top, OutK(call), row)
     IN  scratch' = [q |-> q, sub |-> row,
                     top |-> IF call.simd THEN SetScoreOffset(top, CentreOf[q])
                                          ELSE top]
  /\ pos' = 1 /\ pc' = "scan"
  /\ UNCHANGED <<table, call, out, qi, outcome>>

\* Mutant: a document that is not kept does not advance the scan.
ScanDocSkipped ==
  /\ pc = "scan" /\ pos <= Len(scratch.sub)
  /\ scratch' = [scratch EXCEPT !.top =
                   MaybeInsert(@, table[scratch.q][scratch.sub[pos]], pos)]
  /\ pos' = IF scratch' = scratch THEN pos ELSE pos + 1
  /\ UNCHANGED <<table, call, out, qi, pc, outcome>>

ScanDoc ==
  /\ pc = "scan" /\ pos <= Len(scratch.sub)
  /\ scratch' = [scratch EXCEPT !.top =
                   MaybeInsert(@, table[scratch.q][scratch.sub[pos]], pos)]
  /\ pos' = pos + 1
  /\ UNCHANGED <<table, call, out, qi, pc, outcome>>

\* Mutant: scan positions are returned as if they were ids.
FinishRowLocalIds ==
  /\ pc = "scan" /\ pos > Len(scratch.sub)
  /\ LET local == FinalizeInto(scratch.top, OutK(call), NoEntry)
     IN  out' = WriteRow([r \in 1 .. OutK(call) |->
                  IF local[r].idx = 0 THEN Sentinel
                  ELSE [score |-> local[r].score, id |-> local[r].idx - 1]])
  /\ NextRow
  /\ UNCHANGED <<table, scratch, call, pos>>

\* finalize_into emits scan positions; they are mapped to global ids.
FinishRow ==
  /\ pc = "scan" /\ pos > Len(scratch.sub)
  /\ LET local == FinalizeInto(scratch.top, OutK(call), NoEntry)
     IN  out' = WriteRow([r \in 1 .. OutK(call) |->
                  IF local[r].idx = 0 THEN Sentinel
                  ELSE [score |-> local[r].score,
                        id    |-> scratch.sub[local[r].idx]]])
  /\ NextRow
  /\ UNCHANGED <<table, scratch, call, pos>>

\* SubsetScratch::clear, between two calls.
ClearScratch ==
  /\ pc = "idle"
  /\ scratch' = [q |-> <<>>, sub |-> <<>>, top |-> New(0)]
  /\ UNCHANGED <<table, call, out, qi, pos, pc, outcome>>

Next == \/ \E c \in Calls : BeginCall(c)
        \/ PadEmptyRow \/ BeginRow \/ ScanDoc \/ FinishRow
        \/ ClearScratch

\* The call is straight-line code: once entered, it runs.
Step == PadEmptyRow \/ BeginRow \/ ScanDoc \/ FinishRow

Spec == Init /\ [][Next]_vars
FairSpec == Spec /\ WF_vars(Step)

-----------------------------------------------------------------------------
(* Properties.                                                             *)

\* The key under which position p of row i of call c competes, from the
\* arguments alone.
KeyOf(c, i, p) ==
  LET q == c.queries[i]
      d == Row(c, i)[p]
      raw == table[q][d]
  IN  [score |-> IF c.simd THEN CentreOf[q][raw] ELSE raw, idx |-> p, tie |-> d]

\* Type correctness of everything the call keeps.
TypeOK ==
  /\ table \in ScoreTables
  /\ call \in Calls \cup {NoCall}
  /\ scratch.top.k \in Nat
  /\ qi \in Nat \ {0} /\ pos \in Nat \ {0}
  /\ pc \in {"idle", "row", "scan"}
  /\ outcome \in {"none", "ok", "rejected"}
  /\ DOMAIN out = 1 .. call.scoreLen

\* While a row is scanned, the collector holds each scanned position at most
\* once, exactly min(k, scanned) of them, with the key that the arguments of
\* this call give it, and no scanned position left out is better than one
\* kept (util.rs TopK: "the best k pairs seen so far").
CollectorExact ==
  pc = "scan" =>
    LET slots == scratch.top.slots
        KeptPos == {slots[i].idx : i \in DOMAIN slots}
    IN  /\ Len(slots) = IF pos - 1 < OutK(call) THEN pos - 1 ELSE OutK(call)
        /\ \A i \in DOMAIN slots :
              /\ slots[i].idx \in 1 .. pos - 1
              /\ slots[i] = KeyOf(call, qi, slots[i].idx)
        /\ \A i, j \in DOMAIN slots : slots[i].idx = slots[j].idx => i = j
        /\ \A p \in (1 .. pos - 1) \ KeptPos : \A i \in DOMAIN slots :
              ~ Better(KeyOf(call, qi, p), slots[i])

\* Cell r of row i in the order (score descending, global id ascending),
\* whatever the order of the candidates in the row.
Expected(c, i, r) ==
  LET P == DOMAIN Row(c, i)
      p == CHOOSE p \in P :
             /\ Cardinality({o \in P : Better(KeyOf(c, i, o), KeyOf(c, i, p))}) < r
             /\ r <= Cardinality({o \in P : ~ Better(KeyOf(c, i, p), KeyOf(c, i, o))})
      e == KeyOf(c, i, p)
  IN  IF r > Cardinality(P) THEN Sentinel ELSE [score |-> e.score, id |-> e.tie]

\* The rows already written hold exactly the expected cells and the others
\* what the caller left there: no row depends on an earlier row, an earlier
\* call, or the order of its candidates (quant.rs, "each row is written
\* exactly once", "input order has no effect on results").
RowsExact ==
  pc # "idle" \/ outcome = "ok" =>
    \A i \in 1 .. NumRows(call) : \A r \in 1 .. OutK(call) :
      out[(i - 1) * OutK(call) + r] =
        IF i < qi THEN Expected(call, i, r) ELSE Stale

\* Every slice and gather of a row of an accepted batch is in range: no call
\* panics after it has begun to write its outputs (quant.rs, "a validation
\* panic leaves caller buffers intact").
SlicesInBounds == pc = "row" => RowInBounds(call, qi)

\* A call always returns.
CallReturns == pc # "idle" ~> pc = "idle"
=============================================================================
