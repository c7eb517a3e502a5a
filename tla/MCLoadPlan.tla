----------------------------- MODULE MCLoadPlan -----------------------------
(***************************************************************************)
(* A small instance of LoadPlan.  Creation starts from good and from odd   *)
(* files; the manifests that come from elsewhere are a good one, one with  *)
(* both profiles, and variants of these with a single defect each.  Files  *)
(* are replaced twice around the former and not at all around the latter,  *)
(* whose defects do not depend on the files.                               *)
(***************************************************************************)
EXTENDS LoadPlan

MCAux  == <<"a", "b">>
MCBase == <<"m">>
MCRooted    == {"\\\\host"}
MCSlashed   == MCRooted \cup {"back\\slash"}
MCNotFinite == -99

Meta(kind, n, param) ==
  [covered |-> TRUE, vectors |-> n, kind |-> kind, dim |-> 2, param |-> param]
Index(i, size, meta) == [id |-> i, size |-> size, meta |-> meta, at |-> <<"m", "i">>]
Good == Index("i1", 2, Meta("bitmap", 2, 1))
MCIndexes ==
  {Good, Index("i2", 2, Meta("bitmap", 1, 1)), Index("i3", 1, Good.meta), Index("i5", 2, Absent),
   Index("i4", 2, [Good.meta EXCEPT !.covered = FALSE]), Index("i6", 2, Meta("bitmap", 2, 2)),
   Index("i7", 2, Meta("quant", 2, 1)), Index("i8", 2, Meta("rank", 2, 0)),
   Index("i9", 2, Meta("sign", 2, 0))}
  \cup {[Good EXCEPT !.at = at] : at \in {<<"o", "i">>, <<"m", "C:", "i">>}}

Row(n, db) == [json |-> TRUE, rowId |-> n, dbId |-> db, uuid |-> TRUE, long |-> FALSE]
Map(lines) == [lines |-> lines, at |-> <<"m", "r">>]
GoodLines == <<Row(0, 1), Row(1, 2)>>
Bad == {[Row(0, 1) EXCEPT !.json = FALSE], [Row(0, 1) EXCEPT !.uuid = FALSE],
        [Row(0, 1) EXCEPT !.long = TRUE], Row(1, 1)}
MCRowMaps ==
  {Map(GoodLines), Map(<<Row(0, 1), Row(1, 1)>>), Map(<<Row(0, 1)>>), Map(<<>>),
   Map(Append(GoodLines, Row(2, 3)))}
  \cup {[Map(GoodLines) EXCEPT !.at = at] : at \in {<<"o", "r">>, <<"m", "back\\slash">>}}
  \cup {Map(<<line, Row(1, 2)>>) : line \in Bad}

AuxFile(i, size) == [id |-> i, size |-> size, at |-> <<"m", "x">>]
MCAuxFiles ==
  {AuxFile("x1", 1), AuxFile("x2", 2), AuxFile("x0", 0), AuxFile("x8", 8), AuxFile("x16", 16),
   [AuxFile("x1", 1) EXCEPT !.at = <<"o", "x">>]}

-----------------------------------------------------------------------------
(* Creation.                                                               *)

Files(index0, rowMap0, file) ==
  [index |-> index0, rowMap |-> rowMap0, aux |-> [n \in Names |-> file],
   profiles |-> [s \in Slots |-> AuxFile("x8", 8)]]
AllGood == Files(Good, Map(GoodLines), AuxFile("x1", 1))
Starts ==
  {AllGood, [AllGood EXCEPT !.rowMap = Map(<<Row(0, 1), Row(1, 1)>>)],
   [AllGood EXCEPT !.rowMap = Map(<<Row(0, 1)>>)],
   [AllGood EXCEPT !.index.at = <<"o", "i">>, !.rowMap.at = <<"o", "r">>],
   [AllGood EXCEPT !.aux = [n \in Names |-> Absent]],
   [AllGood EXCEPT !.aux = [n \in Names |-> AuxFile("x0", 0)]]}

Request(rows, required, model) == [rows |-> rows, required |-> required, model |-> model]
Requests ==
  {Request(TRUE, <<>>, "model"), Request(FALSE, [n \in {"b"} |-> TRUE], "model"),
   Request(FALSE, [n \in Names |-> FALSE], "blank")}

Opts(escape, duplicates, issues, rows, tracked) ==
  [escape |-> escape, absolute |-> escape, duplicates |-> duplicates, maxIssues |-> issues,
   maxRows |-> rows, maxTracked |-> tracked, maxAux |-> IF issues = 2 THEN 1 ELSE 9,
   maxBytes |-> IF rows = 1 THEN 4 ELSE 16, maxManifest |-> 9]
OptionSets ==
  {Opts(FALSE, FALSE, 0, 9, 9), Opts(TRUE, TRUE, 1, 9, 9), Opts(FALSE, FALSE, 2, 9, 1),
   Opts(FALSE, FALSE, 9, 1, 9)}

Case(start, opts, req, d, n) ==
  [files |-> start, options |-> opts, request |-> req, doc |-> d, edits |-> n]
CreateCases(n) ==
  {Case(start, opts, req, Absent, n) : start \in Starts, opts \in OptionSets, req \in Requests}

-----------------------------------------------------------------------------
(* Manifests from elsewhere.                                               *)

Rel(segs) == [absolute |-> FALSE, segs |-> segs]
Embedding == [model |-> "model", dim |-> 2, revision |-> "r1", normalization |-> Absent,
              tokenizer |-> Absent, pooling |-> Absent, corpus |-> Absent, matrix |-> Absent]
Doc(rowCount, lines, declared) ==
  [bytes |-> 1, current |-> TRUE, path |-> Rel(<<"i">>), id |-> "i1", size |-> 2,
   meta |-> Good.meta, embedding |-> Embedding, distortion |-> Absent, calibration |-> Absent,
   rowCount |-> rowCount, lines |-> lines, rowPath |-> Rel(<<"r">>), aux |-> declared,
   build |-> Absent, attestations |-> <<>>]
Plain == Doc(2, Absent, <<>>)
Required(req) == [id |-> "x1", size |-> 1, required |-> req, path |-> Rel(<<"x">>)]
Documents ==
  {Doc(2, lines, <<>>) : lines \in {GoodLines, <<Row(0, 1), Row(1, 1)>>,
                                     <<Row(0, 1)>>, <<Row(1, 1), Row(1, 2)>>}}
  \cup {Doc(1, Absent, <<>>), Doc(2, Absent, [n \in Names |-> Required(n = "b")])}

Encoder == [model |-> "model", dim |-> 2, revision |-> "r1", normalization |-> Absent]
Metric == [name |-> "cosine", version |-> Absent, digest |-> Absent]
Distortion ==
  [current |-> TRUE, id |-> "d", created |-> Absent, encoder |-> Encoder, tokenizer |-> Absent,
   pooling |-> Absent, source |-> Metric, embedding |-> Metric,
   bounds |-> [lower |-> 5, upper |-> 10, estimated |-> 20, rate |-> Absent,
               worst |-> Absent, quantile |-> 0],
   scope |-> [corpus |-> Absent, queries |-> Absent, pairs |-> Absent, domain |-> Absent,
              estimator |-> Absent, samples |-> 1, confidence |-> 10, coverage |-> Absent],
   evidence |-> "empirical_sample", estimator |-> Absent, estimatorHash |-> Absent,
   profile |-> [path |-> Rel(<<"x">>), id |-> "x8", size |-> 8, format |-> "json",
                source |-> Absent],
   calibration |-> "c"]
Weighted(by) == [kind |-> "weighted_marginal_profile", arg |-> by]
Raw(by, shape) ==
  [path |-> Rel(<<"x">>), id |-> "x8", size |-> 8, format |-> "raw_f32_le", dim |-> 2,
   samples |-> 1, shape |-> shape, by |-> by, source |-> Absent]
Ord(kind, arg) == [kind |-> kind, dim |-> 2, arg |-> arg]
Calibration ==
  [current |-> TRUE, id |-> "c", created |-> Absent, encoder |-> Encoder,
   ord |-> Ord("top_k", 1), null |-> Weighted("marginal_topk_frequency"),
   profile |-> Raw("marginal_topk_frequency", <<2>>)]
Full == [Plain EXCEPT !.distortion = Distortion, !.calibration = Calibration,
                      !.build = [invocation |-> "v", builder |-> Absent, source |-> Absent],
                      !.attestations = <<[predicate |-> TRUE, subjects |-> {"i1", "x8"}]>>]

\* One defect, or one variation, each.
ShapeVariants ==
  {[Plain EXCEPT !.bytes = 10], [Plain EXCEPT !.current = FALSE], [Plain EXCEPT !.id = "malformed"],
   [Plain EXCEPT !.size = 0], [Plain EXCEPT !.meta.dim = 3], [Plain EXCEPT !.meta.kind = "quant"],
   [Plain EXCEPT !.embedding.model = "blank"], [Plain EXCEPT !.embedding.dim = 0],
   [Plain EXCEPT !.embedding.tokenizer = "blank"], [Plain EXCEPT !.embedding.corpus = "malformed"],
   [Plain EXCEPT !.build = [invocation |-> "blank", builder |-> Absent, source |-> Absent]],
   [Plain EXCEPT !.attestations = <<[predicate |-> FALSE, subjects |-> {"i1"}]>>],
   [Plain EXCEPT !.attestations = <<[predicate |-> TRUE, subjects |-> {"i2"}],
                                    [predicate |-> TRUE, subjects |-> {}]>>]}
  \cup {[Plain EXCEPT !.path = path] :
          path \in {[absolute |-> TRUE, segs |-> <<"m", "i">>], Rel(<<"C:", "i">>),
                    Rel(<<"..", "m", "i">>), Rel(<<"d", ".", "i">>), Rel(<<"d", "..", "..", "i">>),
                    Rel(<<"back\\slash">>), Rel(<<"\\\\host">>), Rel(<<"C:">>)}}
  \cup {Doc(2, Absent, [n \in {"a"} |-> [Required(req) EXCEPT !.size = 0]]) : req \in BOOLEAN}
  \cup {Doc(2, Absent, [n \in {"a"} |-> [Required(TRUE) EXCEPT !.path = path]]) :
          path \in {Rel(<<>>), Rel(<<"..", "x">>)}}
DistortionVariants ==
  LET With(d) == [Full EXCEPT !.distortion = d]
      D == Distortion
  IN  {With(d) : d \in
        {[D EXCEPT !.current = FALSE], [D EXCEPT !.id = "blank"], [D EXCEPT !.pooling = "p"],
         [D EXCEPT !.encoder.model = "other"], [D EXCEPT !.encoder.revision = Absent],
         [D EXCEPT !.encoder.dim = 3], [D EXCEPT !.source.name = "blank"],
         [D EXCEPT !.embedding.digest = "malformed"], [D EXCEPT !.scope.samples = 0],
         [D EXCEPT !.scope.confidence = 11], [D EXCEPT !.scope.pairs = "malformed"],
         [D EXCEPT !.estimatorHash = "malformed"], [D EXCEPT !.profile = Absent],
         [D EXCEPT !.profile = Absent, !.evidence = "caller_asserted"],
         [D EXCEPT !.profile.path = Rel(<<>>)], [D EXCEPT !.profile.size = 0],
         [D EXCEPT !.profile.path = Rel(<<"..", "x">>)], [D EXCEPT !.profile.format = "blank"]}
        \cup {[D EXCEPT !.calibration = x] : x \in {Absent, "blank", "padded", "other"}}
        \cup {[D EXCEPT !.bounds.lower = x] : x \in {0, 10, 11, NotFinite, Absent}}
        \cup {[D EXCEPT !.bounds.estimated = x] : x \in {0, 10, NotFinite, Absent}}
        \cup {[D EXCEPT !.bounds.upper = 60, !.bounds.estimated = 60 * 2],
              [D EXCEPT !.bounds.quantile = -1], [D EXCEPT !.bounds.rate = 11],
              [D EXCEPT !.bounds = [f \in DOMAIN D.bounds |-> Absent]]}}
CalibrationVariants ==
  LET With(meta, c) == [Full EXCEPT !.meta = meta, !.calibration = c]
      C == Calibration
      Fit(id, ord, by, shape) ==
        LET size == RawSize(shape, 4)
            meta == (CHOOSE f \in MCIndexes : f.id = id).meta
            p == [Raw(by, shape) EXCEPT !.size = size, !.id = IF size = 16 THEN "x16" ELSE "x8"]
        IN  [With(meta, [C EXCEPT !.ord = ord, !.null = Weighted(by), !.profile = p])
               EXCEPT !.id = id, !.attestations = <<[predicate |-> TRUE, subjects |-> {id}]>>]
  IN  {With(Good.meta, c) : c \in
        {[C EXCEPT !.current = FALSE], [C EXCEPT !.encoder.model = "other"],
         [C EXCEPT !.encoder.normalization = "l2"], [C EXCEPT !.ord.dim = 0],
         [C EXCEPT !.ord.arg = 2], [C EXCEPT !.profile = Absent], [C EXCEPT !.profile.dim = 3],
         [C EXCEPT !.profile.samples = 0], [C EXCEPT !.profile.shape = <<2, 2>>],
         [C EXCEPT !.profile.shape = <<>>], [C EXCEPT !.profile.format = "raw_f64_le"],
         [C EXCEPT !.profile.id = "x2", !.profile.size = 2],
         [C EXCEPT !.profile.path = Rel(<<"..", "x">>)], [C EXCEPT !.profile.path = Rel(<<>>)],
         [C EXCEPT !.null.kind = "uniform_hypergeometric"],
         [C EXCEPT !.null.kind = "uniform_hypergeometric", !.profile = Absent],
         [C EXCEPT !.null = [kind |-> "empirical_tail_table", arg |-> "tail"]],
         [C EXCEPT !.null = [kind |-> "empirical_tail_table", arg |-> "tail"],
                   !.profile = Raw("empirical_tail_table", <<1, 2>>)],
         [C EXCEPT !.profile = Raw("empirical_tail_table", <<99, 99>>)],
         [C EXCEPT !.null = [kind |-> "caller_defined", arg |-> [name |-> "n", by |-> "blank"]]],
         [C EXCEPT !.null = Weighted("bucket_frequency")]}}
      \cup {Fit("i7", Ord("bucket", 1), "bucket_frequency", <<2, 2>>),
            Fit("i7", Ord("top_k", 1), "marginal_topk_frequency", <<2>>),
            Fit("i8", Ord("rank_position", 0), "rank_position_frequency", <<2, 2>>),
            Fit("i8", Ord("caller_defined", "mine"), "bucket_frequency", <<1, 2>>),
            Fit("i9", Ord("sign", 0), "sign_frequency", <<2>>),
            [Full EXCEPT !.calibration = Absent]}

NoRequest == Request(FALSE, <<>>, "model")
\* The files are those the document declares, where there are such.
FilesOf(d) ==
  [AllGood EXCEPT
     !.index = CHOOSE f \in MCIndexes : /\ f.at = Good.at
                                           /\ f.id = IF d.id = "malformed" THEN "i1" ELSE d.id,
     !.profiles["calibration"] =
       IF ~ Given(d.calibration) THEN @
       ELSE IF ~ Given(d.calibration.profile) THEN @
       ELSE CHOOSE f \in MCAuxFiles : f.at = <<"m", "x">> /\ f.id = d.calibration.profile.id]
VerifyCases ==
  {Case(AllGood, opts, NoRequest, d, 2) : opts \in OptionSets, d \in Documents}
  \cup {Case(AllGood, opts, NoRequest, Full, 1) : opts \in OptionSets}
  \cup {Case(FilesOf(d), opts, NoRequest, d, 0) :
          opts \in OptionSets,
          d \in ShapeVariants \cup DistortionVariants \cup CalibrationVariants}

MCCases       == CreateCases(2) \cup VerifyCases
MCCreateCases == CreateCases(1)
=============================================================================
