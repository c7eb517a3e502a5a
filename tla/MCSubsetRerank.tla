--------------------------- MODULE MCSubsetRerank ---------------------------
(***************************************************************************)
(* A small instance of SubsetRerank: 3 documents, 2 queries, 3 raw scores  *)
(* of which the SIMD offset collapses two, k up to 4, rows with ties,      *)
(* duplicates, empty rows, and every small malformed CSR batch.            *)
(***************************************************************************)
EXTENDS SubsetRerank

CONSTANTS q1, q2

MCN == 3
MCQueries == {q1, q2}
MCRawScores == 0 .. 2

\* Rounding collapses raw scores 1 and 2 of q1.
MCCentreOf == [q \in MCQueries |->
                 IF q = q1 THEN [s \in MCRawScores |-> IF s = 0 THEN 0 ELSE 1]
                           ELSE [s \in MCRawScores |-> s + 1]]

\* q1 sees a tie at the top, a tie at the bottom, a tie across the gap, and
\* strictly falling scores; q2 sees the reverse of each.
MCScoreTables ==
  {[q \in MCQueries |-> IF q = q1 THEN f ELSE [d \in 0 .. MCN - 1 |-> 2 - f[d]]] :
     f \in {[d \in 0 .. 2 |-> t[d + 1]] :
             t \in {<<2, 1, 2>>, <<0, 1, 0>>, <<1, 1, 1>>, <<2, 1, 0>>}}}

Batch(qs, offsets, cands, k, lens, simd) ==
  [queries |-> qs, finite |-> TRUE, offsets |-> offsets, cands |-> cands,
   k |-> k, scoreLen |-> lens[1], indexLen |-> lens[2], simd |-> simd]

SmallK(k) == IF k < MCN THEN k ELSE MCN

OneRow ==
  {Batch(<<q1>>, <<0, Len(row)>>, row, k, <<SmallK(k), SmallK(k)>>, simd) :
     row \in {<<2, 0, 1>>, <<1, 2, 1>>, <<2, 0>>},
     k \in {1, 2, 4}, simd \in BOOLEAN}

TwoRows ==
  {Batch(<<q1, q2>>, <<0, cut, 3>>, cands, 2, <<4, 4>>, simd) :
     cut \in 0 .. 3, cands \in {<<2, 1, 1>>}, simd \in BOOLEAN}

Malformed ==
  {Batch(qs, offsets, cands, 1, <<Len(qs), Len(qs)>>, FALSE) :
     qs \in {<<q1, q2>>},
     offsets \in [1 .. 3 -> 0 .. 2] \cup {<<0, 2>>, <<0, 4, 4>>, <<0, 3, 2>>},
     cands \in {<<0, 3>>, <<1, 2>>, <<0, 1, 2, 0>>}}

WrongArguments ==
  {Batch(<<q1>>, <<0, 1>>, <<0>>, 0, <<0, 0>>, FALSE), Batch(<<>>, <<0>>, <<>>, 1, <<0, 0>>, FALSE)}
  \cup {Batch(<<q2, q1>>, <<0, 1, 2>>, <<1, 0>>, 1, lens, FALSE) :
     lens \in {<<1, 2>>, <<2, 1>>, <<2, 2>>}}
  \cup {[Batch(<<q1>>, <<0, 1>>, <<0>>, 1, <<1, 1>>, FALSE)
           EXCEPT !.finite = FALSE]}

MCCalls == OneRow \cup TwoRows \cup Malformed \cup WrongArguments
=============================================================================
