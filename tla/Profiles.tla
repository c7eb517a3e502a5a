------------------------------ MODULE Profiles ------------------------------
(***************************************************************************)
(* The two profiles a manifest may refer to (src/ordvec-manifest/src/      *)
(* lib.rs): how an encoder distorts distances, and what the null is that   *)
(* an index is calibrated against.  Here are the issues that verification  *)
(* finds in what the manifest says of them; LoadPlan reads their files.    *)
(*                                                                         *)
(* A text is a string, of which "blank" is one that trims to nothing and   *)
(* "padded" one that would change; a digest or a date that does not parse  *)
(* is "malformed".  A number is in units of 1 / Unit.                      *)
(***************************************************************************)
EXTENDS ManifestPaths

CONSTANTS
  Absent,     \* None
  Unit,       \* the number 1.0
  NotFinite,  \* a number that is not finite
  MaxRatio,   \* f64::MAX
  MaxU64      \* u64::MAX

ASSUME ProfilesAssumption ==
  /\ Unit \in Nat \ {0} /\ NotFinite \in Int /\ MaxRatio \in Nat /\ MaxU64 \in Nat
  /\ Absent \notin Seq(Nat) /\ Absent \notin {"blank", "malformed"}

Maybe(S) == S \cup {Absent}

\* The entries of s at some places, in their order.
Picked(s, places) ==
  [k \in 1 .. Cardinality(places) |->
     s[CHOOSE i \in places : Cardinality({j \in places : j <= i}) = k]]

\* The codes of the checks that failed, in the order they are made.
IssuesOf(checks) ==
  Picked([i \in DOMAIN checks |-> checks[i][2]], {i \in DOMAIN checks : checks[i][1]})

Blank(text)      == text = "blank"
Malformed(value) == value = "malformed"

Given(value)     == value # Absent
Finite(x)        == x # NotFinite
NotPositive(x)   == Given(x) /\ (~ Finite(x) \/ x <= 0)
Negative(x)      == Given(x) /\ (~ Finite(x) \/ x < 0)
NoProbability(x) == Given(x) /\ (~ Finite(x) \/ x \notin 0 .. Unit)

-----------------------------------------------------------------------------
(* The records.                                                            *)

\* EncoderSpec, and Embedding, which has more of the same kind.
IsEncoder(e) ==
  /\ e.model \in STRING /\ e.dim \in Nat
  /\ e.revision \in Maybe(STRING) /\ e.normalization \in Maybe(STRING)

IsEmbedding(e) ==
  /\ IsEncoder(e) /\ e.tokenizer \in Maybe(STRING) /\ e.pooling \in Maybe(STRING)
  /\ e.corpus \in Maybe(STRING) /\ e.matrix \in Maybe(STRING)

IsPath(path) == path.absolute \in BOOLEAN /\ path.segs \in Seq(STRING)

\* EncoderDistortionProfileRef and what it is made of.
IsDistortion(d) ==
  /\ d.current \in BOOLEAN /\ d.id \in STRING /\ d.created \in Maybe(STRING)
  /\ IsEncoder(d.encoder) /\ d.tokenizer \in Maybe(STRING) /\ d.pooling \in Maybe(STRING)
  /\ \A m \in {d.source, d.embedding} :
       m.name \in STRING /\ m.version \in Maybe(STRING) /\ m.digest \in Maybe(STRING)
  /\ d.bounds \in [{"lower", "upper", "estimated", "rate", "worst", "quantile"} -> Maybe(Int)]
  /\ \A f \in {"corpus", "queries", "pairs", "domain", "estimator"} :
       d.scope[f] \in Maybe(STRING)
  /\ \A f \in {"samples", "confidence", "coverage"} : d.scope[f] \in Maybe(Int)
  /\ d.evidence \in {"certified", "empirical_sample", "benchmark_estimate",
                     "teacher_estimate", "caller_asserted"}
  /\ d.estimator \in Maybe(STRING) /\ d.estimatorHash \in Maybe(STRING)
  /\ Given(d.profile) => IsPath(d.profile.path) /\ d.profile.size \in Nat
  /\ d.calibration \in Maybe(STRING)

Parameterizations == {"marginal_topk_frequency", "bucket_frequency", "sign_frequency",
                      "rank_position_frequency", "empirical_tail_table"}

\* CalibrationProfileRef; what an ordinalization has beside its dimension (k,
\* bits or a name) and a null model beside its kind is its arg.
IsCalibration(c) ==
  /\ c.current \in BOOLEAN /\ c.id \in STRING /\ c.created \in Maybe(STRING)
  /\ IsEncoder(c.encoder)
  /\ c.ord.kind \in {"top_k", "bucket", "sign", "rank_position", "caller_defined"}
  /\ c.ord.dim \in Nat
  /\ c.null.kind \in {"uniform_hypergeometric", "weighted_marginal_profile",
                      "empirical_tail_table", "caller_defined"}
  /\ c.null.kind = "weighted_marginal_profile" => c.null.arg \in Parameterizations
  /\ Given(c.profile) =>
       /\ IsPath(c.profile.path) /\ c.profile.size \in Nat /\ c.profile.dim \in Nat
       /\ c.profile.samples \in Nat /\ c.profile.shape \in Seq(Nat)
       /\ c.profile.by \in Parameterizations

-----------------------------------------------------------------------------
(* The encoder distortion profile.                                         *)

\* compare_optional_encoder_identity: a value left out on one side only is a
\* mismatch.
Unlike(expected, observed) == expected # observed

\* validate_encoder_distortion_shape.
DistortionShape(d) == IssuesOf(<<
  <<~ d.current, "schema_version">>, <<Blank(d.id), "profile_id">>,
  <<Malformed(d.created), "created_at">>, <<Blank(d.encoder.model), "model">>,
  <<d.encoder.dim = 0, "dim">>, <<Blank(d.encoder.revision), "model_revision">>,
  <<Blank(d.encoder.normalization), "normalization">>,
  <<Blank(d.tokenizer), "tokenizer_revision">>, <<Blank(d.pooling), "pooling">>>>)

\* validate_encoder_distortion_encoder.
DistortionEncoder(d, e) == IssuesOf(<<
  <<d.encoder.model # e.model, "model_mismatch">>,
  <<d.encoder.dim # e.dim, "dim_mismatch">>,
  <<Unlike(e.revision, d.encoder.revision), "model_revision_mismatch">>,
  <<Unlike(e.normalization, d.encoder.normalization), "normalization_mismatch">>,
  <<Unlike(e.tokenizer, d.tokenizer), "tokenizer_revision_mismatch">>,
  <<Unlike(e.pooling, d.pooling), "pooling_mismatch">>>>)

\* validate_metric_spec.
MetricIssues(m) == IssuesOf(<<
  <<Blank(m.name), "metric_name">>, <<Blank(m.version), "metric_version">>,
  <<Malformed(m.digest), "metric_digest">>>>)

\* validate_encoder_distortion_metrics.
DistortionMetrics(d) == MetricIssues(d.source) \o MetricIssues(d.embedding)

\* The estimate has to be the quotient of the bounds, up to rounding.
QuotientIssue(b) ==
  /\ Given(b.lower) /\ Given(b.upper) /\ Given(b.estimated)
  /\ Finite(b.lower) /\ Finite(b.upper) /\ b.lower > 0 /\ b.upper > 0
  /\ \/ b.upper * Unit > MaxRatio * b.lower
     \/ Finite(b.estimated) /\ b.estimated * b.lower # b.upper * Unit

\* validate_encoder_distortion_bounds.
DistortionBounds(b) == IssuesOf(<<
  <<\A f \in DOMAIN b : ~ Given(b[f]), "bounds_empty">>,
  <<NotPositive(b.lower), "lower_bound">>, <<NotPositive(b.upper), "upper_bound">>,
  <<NotPositive(b.estimated), "estimated_distortion">>,
  <<NoProbability(b.rate), "violation_rate">>,
  <<Negative(b.worst), "max_observed_violation">>,
  <<Negative(b.quantile), "quantile_observed_violation">>,
  <<Given(b.lower) /\ Given(b.upper)
      /\ Finite(b.lower) /\ Finite(b.upper) /\ b.lower > b.upper, "bounds_order">>,
  <<QuotientIssue(b), "distortion_mismatch">>>>)

\* validate_encoder_distortion_scope.
DistortionScope(s) == IssuesOf(<<
  <<Malformed(s.corpus), "corpus_digest">>, <<Malformed(s.queries), "query_set_digest">>,
  <<Malformed(s.pairs), "pair_sample_digest">>, <<Blank(s.domain), "domain">>,
  <<Blank(s.estimator), "estimator_version">>, <<s.samples = 0, "sample_size">>,
  <<NoProbability(s.confidence), "confidence">>, <<NoProbability(s.coverage), "coverage">>>>)

\* validate_encoder_distortion_evidence: only a caller may assert without proof.
DistortionEvidence(d) == IssuesOf(<<
  <<Blank(d.estimator), "estimator_id">>, <<Malformed(d.estimatorHash), "estimator_hash">>,
  <<~ Given(d.profile) /\ d.evidence # "caller_asserted", "profile_required">>>>)

\* validate_encoder_distortion_profile_artifact, before the file is looked for.
DistortionProfile(p, escape) ==
  PathShape(p.path, escape) \o IssuesOf(<<
    <<Malformed(p.id), "profile_sha256">>, <<p.size = 0, "profile_file_size">>,
    <<Blank(p.format), "profile_format">>, <<Malformed(p.source), "source_digest">>>>)

\* validate_encoder_distortion_calibration: the first that fails.
DistortionLink(d, calibration) ==
  IF ~ Given(d.calibration) THEN <<>>
  ELSE IF Blank(d.calibration) THEN <<"calibration_profile_id_empty">>
  ELSE IF d.calibration = "padded" THEN <<"calibration_profile_id_whitespace">>
  ELSE IF ~ Given(calibration) THEN <<"calibration_missing">>
  ELSE IF calibration.id # d.calibration THEN <<"calibration_profile_mismatch">>
  ELSE <<>>

-----------------------------------------------------------------------------
(* The calibration profile.                                                *)

\* What is wrong with an ordinalization by itself.
OrdinalizationFault(ord) ==
  CASE ord.kind = "top_k"          -> ord.arg = 0
    [] ord.kind = "bucket"         -> ord.arg \notin {1, 2, 4}
    [] ord.kind = "caller_defined" -> Blank(ord.arg)
    [] OTHER                       -> FALSE

\* validate_calibration_shape; a null model of the caller's has a name and a
\* parameterization of its own.
CalibrationShape(c) == IssuesOf(<<
  <<~ c.current, "schema_version">>, <<Blank(c.id), "profile_id">>,
  <<Malformed(c.created), "created_at">>, <<Blank(c.encoder.model), "model">>,
  <<c.encoder.dim = 0, "dim">>, <<Blank(c.encoder.revision), "model_revision">>,
  <<Blank(c.encoder.normalization), "normalization">>,
  <<c.ord.dim = 0, "ordinalization_dim">>,
  <<OrdinalizationFault(c.ord), "ordinalization_artifact_mismatch">>,
  <<c.null.kind = "empirical_tail_table" /\ Blank(c.null.arg), "null_statistic">>,
  <<c.null.kind = "caller_defined" /\ Blank(c.null.arg.name), "null_name">>,
  <<c.null.kind = "caller_defined" /\ Blank(c.null.arg.by), "null_parameterization">>>>)

\* validate_calibration_encoder.
CalibrationEncoder(c, e) == IssuesOf(<<
  <<c.encoder.model # e.model, "model_mismatch">>,
  <<c.encoder.dim # e.dim, "dim_mismatch">>,
  <<Unlike(e.revision, c.encoder.revision), "model_revision_mismatch">>,
  <<Unlike(e.normalization, c.encoder.normalization), "normalization_mismatch">>>>)

\* Which ordinalizations an artifact of a kind can be calibrated for.
Compatible(meta, ord) ==
  CASE meta.kind = "bitmap" -> ord.kind = "top_k" /\ ord.arg = meta.param
    [] meta.kind = "quant"  -> ord.kind = "bucket" /\ ord.arg = meta.param
    [] meta.kind = "sign"   -> ord.kind = "sign"
    [] meta.kind = "rank"   -> ord.kind \in {"rank_position", "caller_defined"}
    [] OTHER                -> FALSE

\* validate_calibration_ordinalization.
CalibrationOrdinalization(c, meta) == IssuesOf(<<
  <<c.ord.dim # meta.dim, "ordinalization_dim_mismatch">>,
  <<~ Compatible(meta, c.ord), "ordinalization_artifact_mismatch">>>>)

Uniform(c) == c.null.kind = "uniform_hypergeometric"

\* validate_calibration_null_model_ordinalization.
CalibrationNull(c) ==
  IssuesOf(<<<<Uniform(c) /\ c.ord.kind # "top_k", "null_model_ordinalization">>>>)

\* profile_parameterization_matches_ordinalization.
ParameterizationFits(by, ord) ==
  by \in CASE ord.kind = "top_k"  -> {"marginal_topk_frequency", "empirical_tail_table"}
           [] ord.kind = "bucket" -> {"bucket_frequency", "empirical_tail_table"}
           [] ord.kind = "sign"   -> {"sign_frequency", "empirical_tail_table"}
           [] ord.kind = "rank_position" ->
                {"rank_position_frequency", "empirical_tail_table"}
           [] ord.kind = "caller_defined" -> Parameterizations

\* validate_calibration_parameterization.
CalibrationParameterization(c) == IssuesOf(<<
  <<\/ c.null.kind = "weighted_marginal_profile" /\ c.null.arg # c.profile.by
    \/ c.null.kind = "empirical_tail_table" /\ c.profile.by # "empirical_tail_table",
    "null_parameterization_mismatch">>,
  <<~ ParameterizationFits(c.profile.by, c.ord), "parameterization_ordinalization">>>>)

\* expected_profile_shape.
ExpectedShape(by, ord) ==
  CASE by \in {"marginal_topk_frequency", "sign_frequency"} -> <<ord.dim>>
    [] by = "bucket_frequency" ->
         IF ord.kind = "bucket" /\ ord.arg \in {1, 2, 4} THEN <<ord.dim, 2^ord.arg>>
         ELSE Absent
    [] by = "rank_position_frequency" -> <<ord.dim, ord.dim>>
    [] by = "empirical_tail_table" -> Absent

\* How many values a profile of a shape has.
Values(shape) ==
  LET product[i \in 0 .. Len(shape)] == IF i = 0 THEN 1 ELSE product[i - 1] * shape[i]
  IN  product[Len(shape)]

\* The bytes of a raw profile of a shape.
RawSize(shape, width) == Values(shape) * width

\* A product beyond u64, with or without the width.
Overflows(shape, width) ==
  \/ \E i \in DOMAIN shape : Values(SubSeq(shape, 1, i)) > MaxU64
  \/ RawSize(shape, width) > MaxU64

\* validate_calibration_profile_shape: without a shape there is nothing to
\* compare.
CalibrationProfileShape(p, ord) ==
  LET expected == ExpectedShape(p.by, ord)
      width == CASE p.format = "raw_f64_le" -> 8
                 [] p.format = "raw_f32_le" -> 4
                 [] OTHER -> 0
  IN  IssuesOf(<<<<Blank(p.format), "profile_format">>>>)
      \o IF p.shape = <<>> THEN <<>>
         ELSE IssuesOf(<<
           <<Given(expected) /\ p.shape # expected, "profile_shape">>,
           <<width > 0 /\ Overflows(p.shape, width), "profile_shape_overflow">>,
           <<width > 0 /\ ~ Overflows(p.shape, width)
               /\ p.size # RawSize(p.shape, width), "profile_file_size">>>>)

\* validate_calibration_profile, before the file is looked for.
CalibrationProfile(c, meta, escape) ==
  IF Uniform(c) THEN IssuesOf(<<<<Given(c.profile), "profile_unexpected">>>>)
  ELSE IF ~ Given(c.profile) THEN <<"profile_required">>
  ELSE PathShape(c.profile.path, escape)
       \o IssuesOf(<<
            <<Malformed(c.profile.id), "profile_sha256">>,
            <<c.profile.size = 0, "profile_file_size">>,
            <<c.profile.dim # meta.dim, "profile_dim">>,
            <<c.profile.samples = 0, "sample_count">>,
            <<Malformed(c.profile.source), "source_digest">>>>)
       \o CalibrationParameterization(c)
       \o CalibrationProfileShape(c.profile, c.ord)
=============================================================================
