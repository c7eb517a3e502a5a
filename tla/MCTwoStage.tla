----------------------------- MODULE MCTwoStage -----------------------------
(***************************************************************************)
(* A small instance of TwoStage.  A sign index alone: 4 coordinates, up to *)
(* 3 documents in blocks of 2, up to 3 queries in tiles of 2, so that the  *)
(* last block and the last tile are short ones.  A rank index alone: every *)
(* kind and width, in dimensions whole and partial for the lanes of each   *)
(* kernel, up to 3 documents and 1 more where nothing is checked.  A pair: *)
(* 3 vectors of which two have the same signs, the rank index up to two    *)
(* changes behind.                                                         *)
(***************************************************************************)
EXTENDS TwoStage

MCBits == 1 .. 4

MCAdditions == {<<{}>>, <<{1}, {}>>, <<{1}, {1}, {1, 2}>>}

MCBatches == [queries : {<<>>, <<{1}>>, <<{}, {1, 2}, {2}>>}, m : {0, 1, 2, 9}]

Config(kind, dim, bits, cpu) == [kind |-> kind, dim |-> dim, bits |-> bits, cpu |-> cpu]

MCConfigs == {
  Config("rank", 4, 0, "none"),
  Config("quant", 8, 1, "avx512"),
  Config("quant", 4, 2, "avx512"), Config("quant", 8, 2, "avx512"),
  Config("quant", 16, 4, "avx2"),
  Config("quant", 3, 8, "none"), Config("quant", 8, 8, "avx512"),
  Config("quant", 8, 4, "none"),
  Config("fastscan", 8, 2, "avx512"), Config("fastscan", 8, 2, "none"),
  Config("multi", 4, 2, "none"), Config("multi", 8, 1, "none")}

\* Vectors that repeat a few values, equal ones among them.
Wave(len, a, b) == [j \in 1 .. len |-> ((j * a + b) % 5) - 2]

MCPairAdditions == {<<<<3, -1, 2, -2>>>>, <<<<2, -1, 3, -2>>, <<-1, 2, 1, -3>>>>}

MCRankAdditions ==
  [len \in {3, 4, 8, 16} |->
     IF len = 4 THEN MCPairAdditions \cup {<<>>}
     ELSE {<<>>, <<Wave(len, 1, 0)>>, <<Wave(len, 3, 1), Wave(len, 2, 2)>>}]

MCQueryLists ==
  [len \in {3, 4, 8, 16} |->
     {<<>>, <<Wave(len, 2, 0), [j \in 1 .. len |-> IF j = 2 THEN 1 ELSE 0]>>}]

MCIdLists == {<<>>, <<1, 0>>, <<0, 0>>, <<2, 0, 1>>}

MCPairConfigs == {Config("quant", 4, 2, "avx512")}

MCPairQueries == {<<<<1, 0, 2, -1>>, <<0, 1, 0, 0>>>>}

MCPolicies ==
  {[min |-> 0, multiplier |-> 1, max |-> NoMax],
   [min |-> 2, multiplier |-> 0, max |-> NoMax],
   [min |-> 9, multiplier |-> 2, max |-> 1]}
=============================================================================
