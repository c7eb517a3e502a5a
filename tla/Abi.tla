--------------------------------- MODULE Abi ---------------------------------
(***************************************************************************)
(* ordvec_index_search of the C interface (src/ordvec-ffi/src/lib.rs):     *)
(* which calls it takes, and the order in which it hands out hits.  A call *)
(* is [flags, dim, finite, given, rows, k, hits, capacity]: its flags are  *)
(* the known ones; whether candidate rows are given, and which; whether a  *)
(* buffer for hits is given, and how many fit.                             *)
(***************************************************************************)
EXTENDS Naturals, Sequences, TLC

\* The rows a call searches, given the number of documents.
SearchSpace(call, n) == IF call.given THEN Len(call.rows) ELSE n

RequiredHits(call, n) ==
  IF call.k < SearchSpace(call, n) THEN call.k ELSE SearchSpace(call, n)

\* validate_search: the status of the first check that fails.
ValidateSearch(call, dim, n) ==
  LET required == RequiredHits(call, n)
      failed == SelectSeq(<<
        <<~ call.flags, "BAD_ARGUMENT">>, <<call.dim # dim, "DIM_MISMATCH">>,
        <<~ call.finite, "NONFINITE_QUERY">>,
        <<call.given /\ call.rows = <<>>, "BAD_ARGUMENT">>,
        <<\E p \in DOMAIN call.rows : call.rows[p] >= n, "ROW_ID_OUT_OF_RANGE">>,
        <<required > 0 /\ ~ call.hits, "NULL_POINTER">>,
        <<call.capacity < required, "BUFFER_TOO_SMALL">>>>, LAMBDA check : check[1])
  IN  IF failed = <<>> THEN "OK" ELSE failed[1][2]

\* normalize_global_order: by score, ties to the lower row.
NormalizeGlobalOrder(row, k) ==
  SubSeq(SortSeq(row, LAMBDA a, b : \/ a.score > b.score
                                    \/ a.score = b.score /\ a.id < b.id), 1, k)
=============================================================================
