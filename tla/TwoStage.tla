------------------------------ MODULE TwoStage ------------------------------
(***************************************************************************)
(* The retrieval of two stages: a SignBitmap (SignScan) picks candidates   *)
(* and a RankQuant (RankIndexes) reranks them, through                     *)
(* try_search_with_sign_probe_with_policy for one query, or through a      *)
(* CandidateBatch the caller carries from one index to the other for many. *)
(*                                                                         *)
(* The two indexes are separate objects.  Their caller changes the sign    *)
(* index first and the rank index later; nothing but their lengths tells   *)
(* whether they hold the same documents.  It calls one at a time.  A       *)
(* behaviour is about a sign index alone, a rank index alone, or such a    *)
(* pair.                                                                   *)
(***************************************************************************)
EXTENDS SignScan

CONSTANTS
  Configs, Bound, RankAdditions, QueryLists, IdLists, Ks, Shift,
  Lanes512, LanesB2, LanesB4, Block, Flush, AccMod, U8Max, WordBits, HistLanes,
  PairConfigs,  \* the configurations of the rank index of a pair
  PairAdditions,\* the lists of vectors the caller of a pair may add
  PairQueries,  \* the lists of queries it may ask
  Policies,     \* the [min, multiplier, max] of a TwoStageCandidatePolicy
  Lag,          \* how many changes the rank index may be behind
  NoMax         \* None, for max_candidates

ASSUME TwoStageAssumption ==
  /\ \A c \in PairConfigs : c \in Configs /\ PairAdditions \subseteq RankAdditions[c.dim]
  /\ Lag \in Nat

VARIABLES
  config, buf, n_vectors, asked, answer,  \* the rank index
  setup,    \* "sign", "rank" or "pair"
  live,     \* the vectors the caller of a pair has in its indexes
  backlog,  \* the changes the rank index has not seen
  held,     \* the CandidateBatch the caller holds, with its queries
  found     \* the answer of a two-stage call

Q == INSTANCE RankIndexes WITH Additions <- RankAdditions

ASSUME RankLimits ==
  /\ Q!MultiBucketAssumption /\ Q!EvidenceAssumption
  /\ Q!KernelsAssumption /\ Q!RankIndexesAssumption

rankVars == <<config, buf, n_vectors, asked, answer>>
caller   == <<live, backlog, held, found>>
allVars  == <<vars, rankVars, setup, caller>>

NoHeld  == [queries |-> <<>>, m |-> 0, csr |-> NoResult, fresh |-> FALSE]
NoFound == [queries |-> <<>>, k |-> 0, m |-> 0, floor |-> 0, rows |-> <<>>, fresh |-> FALSE]

PairInit ==
  /\ Init
  /\ setup \in {"sign", "rank", "pair"}
  /\ CASE setup = "rank" -> Q!Init
       [] setup = "pair" -> Q!Init /\ config \in PairConfigs
       [] setup = "sign" -> Q!Init /\ config = CHOOSE c \in PairConfigs : TRUE
  /\ live = <<>> /\ backlog = <<>> /\ held = NoHeld /\ found = NoFound

-----------------------------------------------------------------------------
(* The caller keeps the two indexes.                                       *)

\* Bit j is set iff the coordinate is above zero.
SignOf(v) == {j \in DOMAIN v : v[j] > 0}

SignsOf(vs) == [i \in DOMAIN vs |-> SignOf(vs[i])]

Behind(change) ==
  /\ found = NoFound /\ result = NoResult /\ Len(backlog) < Lag
  /\ backlog' = Append(backlog, change)
  /\ held' = [held EXCEPT !.fresh = FALSE]
  /\ UNCHANGED <<rankVars, found>>

PairAdd(vs) ==
  /\ Add(SignsOf(vs))
  /\ live' = live \o vs
  /\ Behind([op |-> "add", vectors |-> vs])

PairRemove(idx) ==
  /\ SwapRemove(idx)
  /\ live' = [i \in 1 .. n - 1 |-> IF i = idx + 1 THEN live[n] ELSE live[i]]
  /\ Behind([op |-> "remove", idx |-> idx])

\* The rank index follows.
CatchUp ==
  /\ found = NoFound /\ pc = "idle" /\ result = NoResult /\ backlog # <<>>
  /\ LET change == Head(backlog)
     IN  IF change.op = "add" THEN Q!Add(change.vectors) ELSE Q!SwapRemove(change.idx)
  /\ backlog' = Tail(backlog)
  /\ UNCHANGED <<vars, live, held, found>>

-----------------------------------------------------------------------------
(* One query.                                                              *)

\* Mutant: the number of results asked for is left out.
CandidateCountMinOnly(policy, k, space) ==
  IF k = 0 THEN 0
  ELSE Minimum(IF policy.max = NoMax THEN policy.min ELSE Minimum(policy.min, policy.max),
               space)

\* TwoStageCandidatePolicy::candidate_count.
CandidateCount(policy, k, space) ==
  LET wanted == IF policy.min > k * policy.multiplier THEN policy.min
                ELSE k * policy.multiplier
      capped == IF policy.max = NoMax THEN wanted ELSE Minimum(wanted, policy.max)
  IN  IF k = 0 THEN 0 ELSE Minimum(capped, space)

\* The candidates a caller who asks for k results can count on.
Floor(policy, k) ==
  IF policy.multiplier = 0 THEN 0
  ELSE IF policy.max = NoMax THEN k ELSE Minimum(k, policy.max)

\* A probe of another length is refused, and so is a candidate beyond the end.
Probe(q, k, policy) ==
  /\ found = NoFound /\ pc = "idle"
  /\ result = NoResult /\ n = n_vectors
  /\ LET ids == TopMCandidates(SignOf(q), CandidateCount(policy, k, n_vectors))
     IN  /\ \A i \in DOMAIN ids : ids[i] < n_vectors
         /\ found' = [queries |-> <<q>>, k |-> k, m |-> Len(ids),
                      floor |-> Floor(policy, k),
                      rows |-> <<Q!Reranked(q, ids, Minimum(k, Len(ids)))>>,
                      fresh |-> backlog = <<>>]
  /\ UNCHANGED <<vars, rankVars, live, backlog, held>>

-----------------------------------------------------------------------------
(* A batch.                                                                *)

\* top_m_candidates_batched_serial_csr is called, and runs as SignScan says.
Scan(qs, m) ==
  /\ held = NoHeld /\ found = NoFound
  /\ LET b == [queries |-> SignsOf(qs), m |-> m] IN BeginEmpty(b) \/ Begin(b)
  /\ held' = [queries |-> qs, m |-> m, csr |-> NoResult, fresh |-> TRUE]
  /\ UNCHANGED <<rankVars, live, backlog, found>>

\* The caller takes the batch the scan returned.
Take ==
  /\ pc = "idle" /\ result # NoResult /\ held # NoHeld
  /\ held' = [held EXCEPT !.csr = result]
  /\ batch' = NoBatch /\ result' = NoResult
  /\ UNCHANGED <<docs, loop, scores, heaps, worst, pc, rankVars, live, backlog, found>>

RowIds(csr, i) == SubSeq(csr.candidates, csr.offsets[i] + 1, csr.offsets[i + 1])

\* validate_csr_batch.
ValidCsr(csr, nqs) ==
  /\ Len(csr.offsets) = nqs + 1
  /\ \A i \in 1 .. nqs : Len(RowIds(csr, i)) <= n_vectors
  /\ \A c \in DOMAIN csr.candidates : csr.candidates[c] < n_vectors

\* search_asymmetric_subset_batched_serial: rows of equal width, a row without
\* candidates all sentinels.
RerankHeld(k) ==
  /\ found = NoFound /\ held.csr # NoResult
  /\ LET qs   == held.queries
         outK == Minimum(k, n_vectors)
         none == [r \in 1 .. outK |-> [id |-> -1, score |-> Q!NoScore]]
         row(i) == LET ids == RowIds(held.csr, i)
                   IN  IF ids = <<>> THEN none ELSE Q!Reranked(qs[i], ids, outK)
     IN  IF ValidCsr(held.csr, Len(qs))
         THEN found' = [queries |-> qs, k |-> k, m |-> held.m, floor |-> 0,
                        rows |-> [i \in DOMAIN qs |-> row(i)],
                        fresh |-> held.fresh /\ backlog = <<>>]
         ELSE UNCHANGED found
  /\ held' = NoHeld
  /\ UNCHANGED <<vars, rankVars, live, backlog>>

\* The caller has read the answer.
Done ==
  /\ found # NoFound /\ found' = NoFound
  /\ UNCHANGED <<vars, rankVars, live, backlog, held>>

-----------------------------------------------------------------------------
ScanStep == Step /\ UNCHANGED <<rankVars, caller>>

TogetherNext ==
  \/ \E vs \in PairAdditions : PairAdd(vs)
  \/ \E idx \in 0 .. n - 1 : PairRemove(idx)
  \/ CatchUp
  \/ \E qs \in PairQueries, k \in Ks, policy \in Policies :
       qs # <<>> /\ Probe(qs[1], k, policy)
  \/ \E qs \in PairQueries, m \in Ks : Scan(qs, m)
  \/ ScanStep
  \/ Take
  \/ \E k \in Ks : RerankHeld(k)
  \/ Done

PairNext ==
  \/ setup = "sign" /\ Next /\ UNCHANGED <<rankVars, setup, caller>>
  \/ setup = "rank" /\ Q!Next /\ UNCHANGED <<vars, setup, caller>>
  \/ setup = "pair" /\ TogetherNext /\ UNCHANGED setup

\* A candidate scan is straight-line code: once entered, it runs.
PairSpec == PairInit /\ [][PairNext]_allVars /\ WF_vars(Step)

-----------------------------------------------------------------------------
(* Properties.                                                             *)

IndexLikeStore == Q!IndexLikeStore
FastscanNear   == Q!FastscanNear
ScalesExact    == Q!ScalesExact
EvidenceAgrees == Q!EvidenceAgrees
NullExact      == Q!NullExact

\* How much a vector of the caller's agrees with a query: the score its codes
\* have by definition.
Exact(q, v) == Q!Affinity("asymmetric", q, Q!Body(config, v))

\* The places of the m vectors nearest to a query in sign.
Nearest(q, m) ==
  LET key(p) == <<Hamming(SignOf(q), SignOf(live[p])), p>>
  IN  {p \in DOMAIN live : Cardinality({o \in DOMAIN live : Less(key(o), key(p))}) < m}

\* Row r of the answer is the vector of which exactly r - 1 of the m nearest are
\* better; what is wider than the candidates are is filled up.
ExactRow(row, q, k, m) ==
  LET near == Nearest(q, m)
      better(o, p) == \/ Exact(q, live[o]) > Exact(q, live[p])
                      \/ Exact(q, live[o]) = Exact(q, live[p]) /\ o < p
  IN  /\ Len(row) >= Minimum(k, Cardinality(near))
      /\ \A r \in DOMAIN row :
           IF r <= Cardinality(near)
           THEN \E p \in near :
                  /\ Cardinality({o \in near : better(o, p)}) = r - 1
                  /\ row[r] = [id |-> p - 1, score |-> Shift + Exact(q, live[p])]
           ELSE row[r].id = -1

\* Whatever the pair went through, a two-stage call made while both indexes hold
\* the caller's documents returns, for each query, the best by exact score among
\* the m documents nearest in sign, the lower number first where scores are
\* equal; m is below k only where the policy's cap or the corpus is.  A call made
\* while they do not, which the length check lets through when an addition made up
\* for a removal, still names only documents that exist, none twice, in the order
\* of their scores (quant.rs, try_search_with_sign_probe_with_policy and validate_csr_batch).
TwoStageExact ==
  found # NoFound =>
    /\ found.fresh => found.m >= Minimum(found.floor, n)
    /\ \A i \in DOMAIN found.rows :
      LET row == found.rows[i]
      IN  /\ found.fresh => ExactRow(row, found.queries[i], found.k, found.m)
          /\ \A r \in DOMAIN row : row[r].id # -1 =>
               /\ row[r].id < n_vectors
               /\ row[r].score = Shift + Q!Affinity("asymmetric", found.queries[i],
                                                    Q!BodyAt(row[r].id))
               /\ \A s \in 1 .. r - 1 :
                    row[s].id # row[r].id /\ row[s].score >= row[r].score
=============================================================================
