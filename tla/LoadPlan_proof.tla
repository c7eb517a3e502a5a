--------------------------- MODULE LoadPlan_proof ---------------------------
(***************************************************************************)
(* For every set of files, manifest, options and replacement of files: no  *)
(* limit on issues makes a failed check pass, a report that is ok becomes  *)
(* a plan, a plan tells of what was read, and what creation writes is      *)
(* accepted if nobody replaces a file.                                     *)
(***************************************************************************)
EXTENDS LoadPlan, FiniteSetTheorems, SequenceTheorems, WellFoundedInduction, TLAPS

\* A nonempty set of natural numbers has a least one: a claim about every step
\* of a loop is proved by the first step at which it would fail.
LEMMA LeastNumber ==
  ASSUME NEW S \in SUBSET Nat, S # {}
  PROVE  \E m \in S : \A k \in S : m <= k
<1>1. PICK m \in S : \A k \in S : ~ <<k, m>> \in OpToRel(<, Nat)
  BY NatLessThanWellFounded, WFMin
<1>2. m \in Nat /\ \A k \in S : k \in Nat /\ ~ k < m
  BY <1>1 DEF OpToRel
<1>3. \A k \in S : m <= k
  BY <1>2
<1> QED BY <1>3

-----------------------------------------------------------------------------
(* Sequences of any elements.                                               *)

IsSeq(s) == \E S : s \in Seq(S)

LEMMA Short == IsSeq(<<>>) /\ \A x : IsSeq(<<x>>) /\ <<x>> # <<>> /\ Len(<<x>>) = 1
<1>1. <<>> \in Seq({}) /\ \A x : <<x>> \in Seq({x})
  OBVIOUS
<1> QED BY <1>1 DEF IsSeq

LEMMA Joined ==
  ASSUME NEW s, NEW t, IsSeq(s), IsSeq(t)
  PROVE  /\ IsSeq(s \o t) /\ Len(s \o t) = Len(s) + Len(t)
         /\ s \o t = <<>> <=> s = <<>> /\ t = <<>>
<1>1. PICK S, T : s \in Seq(S) /\ t \in Seq(T)
  BY DEF IsSeq
<1>2. s \in Seq(S \cup T) /\ t \in Seq(S \cup T)
  BY <1>1, SeqMonotonic
<1>3. s \o t \in Seq(S \cup T) /\ Len(s \o t) = Len(s) + Len(t)
  BY <1>2, ConcatProperties
<1>4. s \o t = <<>> <=> s = <<>> /\ t = <<>>
  BY <1>2, ConcatEqualIffEmpty
<1> QED BY <1>3, <1>4 DEF IsSeq

LEMMA JoinedSix ==
  ASSUME NEW a, NEW b, NEW c, NEW d, NEW e, NEW f,
         IsSeq(a), IsSeq(b), IsSeq(c), IsSeq(d), IsSeq(e), IsSeq(f)
  PROVE  /\ IsSeq(a \o b \o c \o d \o e \o f)
         /\ a \o b \o c \o d \o e \o f = <<>> <=>
              a = <<>> /\ b = <<>> /\ c = <<>> /\ d = <<>> /\ e = <<>> /\ f = <<>>
<1>1. IsSeq(a \o b) /\ (a \o b = <<>> <=> a = <<>> /\ b = <<>>)
  BY Joined
<1>2. IsSeq(a \o b \o c) /\ (a \o b \o c = <<>> <=> a \o b = <<>> /\ c = <<>>)
  BY <1>1, Joined
<1>3. IsSeq(a \o b \o c \o d) /\ (a \o b \o c \o d = <<>> <=> a \o b \o c = <<>> /\ d = <<>>)
  BY <1>2, Joined
<1>4. /\ IsSeq(a \o b \o c \o d \o e)
      /\ a \o b \o c \o d \o e = <<>> <=> a \o b \o c \o d = <<>> /\ e = <<>>
  BY <1>3, Joined
<1>5. /\ IsSeq(a \o b \o c \o d \o e \o f)
      /\ a \o b \o c \o d \o e \o f = <<>> <=> a \o b \o c \o d \o e = <<>> /\ f = <<>>
  BY <1>4, Joined
<1> QED BY <1>1, <1>2, <1>3, <1>4, <1>5

LEMMA Longer ==
  ASSUME NEW s, NEW x, IsSeq(s)
  PROVE  /\ IsSeq(Append(s, x)) /\ Append(s, x) # <<>>
         /\ Len(Append(s, x)) = Len(s) + 1 /\ Len(s) \in Nat
         /\ DOMAIN s = 1 .. Len(s) /\ DOMAIN Append(s, x) = 1 .. Len(s) + 1
         /\ \A i \in 1 .. Len(s) : Append(s, x)[i] = s[i]
         /\ Append(s, x)[Len(s) + 1] = x
<1>1. PICK S : s \in Seq(S)
  BY DEF IsSeq
<1>2. s \in Seq(S \cup {x})
  BY <1>1, SeqMonotonic
<1>3. /\ Append(s, x) \in Seq(S \cup {x}) /\ Len(Append(s, x)) = Len(s) + 1
      /\ \A i \in 1 .. Len(s) : Append(s, x)[i] = s[i]
      /\ Append(s, x)[Len(s) + 1] = x
  BY <1>2, AppendProperties
<1>4. Len(s) \in Nat /\ DOMAIN s = 1 .. Len(s)
  BY <1>2, LenProperties
<1>5. DOMAIN Append(s, x) = 1 .. Len(s) + 1
  BY <1>3, LenProperties
<1>6. Append(s, x) # <<>>
  BY <1>2, AppendProperties
<1> QED BY <1>3, <1>4, <1>5, <1>6 DEF IsSeq

LEMMA Sized ==
  ASSUME NEW s, IsSeq(s)
  PROVE  Len(s) \in Nat /\ DOMAIN s = 1 .. Len(s) /\ (s = <<>> <=> Len(s) = 0)
<1>1. PICK S : s \in Seq(S)
  BY DEF IsSeq
<1> QED BY <1>1, LenProperties, EmptySeq

LEMMA Cut ==
  ASSUME NEW s, IsSeq(s), NEW n \in 0 .. Len(s)
  PROVE  IsSeq(SubSeq(s, 1, n)) /\ Len(SubSeq(s, 1, n)) = n
<1>1. PICK S : s \in Seq(S)
  BY DEF IsSeq
<1>2. Len(s) \in Nat
  BY <1>1, LenProperties
<1>3. SubSeq(s, 1, n) \in Seq(S) /\ Len(SubSeq(s, 1, n)) = n
  BY <1>1, <1>2, SubSeqProperties
<1> QED BY <1>3 DEF IsSeq

\* What is picked of a sequence is as long as the set of places.
LEMMA PickedLength ==
  ASSUME NEW s, NEW places, IsFiniteSet(places)
  PROVE  /\ IsSeq(Picked(s, places)) /\ Len(Picked(s, places)) = Cardinality(places)
         /\ Picked(s, places) = <<>> <=> places = {}
<1> DEFINE n == Cardinality(places)
           t == Picked(s, places)
           T == {t[k] : k \in 1 .. n}
<1>1. n \in Nat
  BY FS_CardinalityType
<1>2. t \in [1 .. n -> T] /\ DOMAIN t = 1 .. n
  BY DEF Picked
<1> HIDE DEF t, n
<1>3. t \in Seq(T) /\ Len(t) = n
  <2>1. t \in Seq(T)
    BY <1>1, <1>2, SeqDef
  <2> HIDE DEF T
  <2> QED BY <1>1, <1>2, <2>1, LenProperties
<1>4. t = <<>> <=> places = {}
  BY <1>1, <1>3, FS_EmptySet, EmptySeq DEF n
<1> QED BY <1>3, <1>4 DEF IsSeq, t, n

\* A list of issues is a sequence, and empty exactly where no check has failed.
LEMMA IssuesNone ==
  ASSUME NEW checks, IsSeq(checks)
  PROVE  /\ IsSeq(IssuesOf(checks))
         /\ IssuesOf(checks) = <<>> <=> \A i \in 1 .. Len(checks) : ~ checks[i][1]
<1> DEFINE failed == {i \in DOMAIN checks : checks[i][1]}
<1>1. Len(checks) \in Nat /\ DOMAIN checks = 1 .. Len(checks)
  BY Sized
<1>2. IsFiniteSet(failed)
  <2>1. IsFiniteSet(1 .. Len(checks)) /\ failed \subseteq 1 .. Len(checks)
    BY <1>1, FS_Interval
  <2> HIDE DEF failed
  <2> QED BY <2>1, FS_Subset
<1> QED BY <1>1, <1>2, PickedLength DEF IssuesOf

\* The lists of checks are sequences.
LEMMA Listed ==
  ASSUME NEW a, NEW b, NEW c, NEW d, NEW e, NEW f, NEW g, NEW h, NEW i
  PROVE  /\ IsSeq(<<a>>) /\ IsSeq(<<a, b>>) /\ IsSeq(<<a, b, c>>) /\ IsSeq(<<a, b, c, d>>)
         /\ IsSeq(<<a, b, c, d, e>>) /\ IsSeq(<<a, b, c, d, e, f>>)
         /\ IsSeq(<<a, b, c, d, e, f, g, h>>) /\ IsSeq(<<a, b, c, d, e, f, g, h, i>>)
<1> DEFINE S == {a, b, c, d, e, f, g, h, i}
<1>1. /\ <<a>> \in Seq(S) /\ <<a, b>> \in Seq(S) /\ <<a, b, c>> \in Seq(S)
      /\ <<a, b, c, d>> \in Seq(S) /\ <<a, b, c, d, e>> \in Seq(S)
      /\ <<a, b, c, d, e, f>> \in Seq(S) /\ <<a, b, c, d, e, f, g, h>> \in Seq(S)
      /\ <<a, b, c, d, e, f, g, h, i>> \in Seq(S)
  OBVIOUS
<1> QED BY <1>1 DEF IsSeq

LEMMA ListedTwelve ==
  ASSUME NEW a, NEW b, NEW c, NEW d, NEW e, NEW f, NEW g, NEW h, NEW i, NEW j, NEW k, NEW l
  PROVE  IsSeq(<<a, b, c, d, e, f, g, h, i, j, k, l>>)
<1> DEFINE S == {a, b, c, d, e, f, g, h, i, j, k, l}
<1>1. <<a, b, c, d, e, f, g, h, i, j, k, l>> \in Seq(S)
  OBVIOUS
<1> QED BY <1>1 DEF IsSeq

-----------------------------------------------------------------------------
(* The lists of issues.                                                     *)

LEMMA PathIssues ==
  ASSUME NEW path, NEW escape
  PROVE  /\ IsSeq(PathShape(path, escape))
         /\ PathShape(path, escape) = <<>> => path.segs # <<>>
  BY Short DEF PathShape

LEMMA IssueList ==
  ASSUME NEW failed \in BOOLEAN, NEW code
  PROVE  IsSeq(Issue(failed, code)) /\ (Issue(failed, code) = <<>> <=> ~ failed)
  BY Short DEF Issue

LEMMA EmbeddingIssues ==
  ASSUME NEW e, NEW build
  PROVE  IsSeq(EmbeddingShape(e)) /\ IsSeq(BuildShape(build))
  BY Listed, IssuesNone, Short DEF EmbeddingShape, BuildShape

\* When an artifact shape has no issues.
LEMMA ArtifactClean ==
  /\ IsSeq(ArtifactShape)
  /\ ArtifactShape = <<>> <=>
       /\ PathShape(doc.path, options.escape) = <<>>
       /\ ~ Blank(doc.embedding.model) /\ doc.embedding.dim # 0
       /\ ~ Malformed(doc.id) /\ doc.size # 0
       /\ doc.meta.dim = doc.embedding.dim /\ doc.meta.vectors = doc.rowCount
       /\ doc.lines # Absent => PathShape(doc.rowPath, options.escape) = <<>>
<1> DEFINE checks == <<
      <<Blank(doc.embedding.model), "model">>, <<doc.embedding.dim = 0, "dim">>,
      <<Malformed(doc.id), "artifact_sha256">>, <<doc.size = 0, "artifact_size">>,
      <<doc.meta.dim # doc.embedding.dim, "artifact_dim">>,
      <<doc.meta.vectors # doc.rowCount, "artifact_row_count">>>>
    first == PathShape(doc.path, options.escape)
    last == IF doc.lines = Absent THEN <<>> ELSE PathShape(doc.rowPath, options.escape)
<1>1. IsSeq(checks)
  BY Listed
<1>2. /\ Len(checks) = 6
      /\ checks[1][1] <=> Blank(doc.embedding.model)
      /\ checks[2][1] <=> doc.embedding.dim = 0
      /\ checks[3][1] <=> Malformed(doc.id)
      /\ checks[4][1] <=> doc.size = 0
      /\ checks[5][1] <=> doc.meta.dim # doc.embedding.dim
      /\ checks[6][1] <=> doc.meta.vectors # doc.rowCount
  BY DEF Blank, Malformed
<1>3. ArtifactShape = (first \o IssuesOf(checks)) \o last
  BY DEF ArtifactShape
<1>4. /\ IsSeq(first) /\ IsSeq(last)
      /\ last = <<>> <=> (doc.lines # Absent => PathShape(doc.rowPath, options.escape) = <<>>)
  BY PathIssues, Short
<1>7. 1 .. 6 = {1, 2, 3, 4, 5, 6}
  OBVIOUS
<1> HIDE DEF checks, last
<1>5. /\ IsSeq(IssuesOf(checks))
      /\ IssuesOf(checks) = <<>> <=> \A i \in {1, 2, 3, 4, 5, 6} : ~ checks[i][1]
  BY <1>1, <1>2, <1>7, IssuesNone
<1>8. IssuesOf(checks) = <<>> <=>
        /\ ~ Blank(doc.embedding.model) /\ doc.embedding.dim # 0
        /\ ~ Malformed(doc.id) /\ doc.size # 0
        /\ doc.meta.dim = doc.embedding.dim /\ doc.meta.vectors = doc.rowCount
  BY <1>2, <1>5
<1>6. /\ IsSeq(first \o IssuesOf(checks))
      /\ first \o IssuesOf(checks) = <<>> <=> first = <<>> /\ IssuesOf(checks) = <<>>
  BY <1>4, <1>5, Joined
<1>9. /\ IsSeq((first \o IssuesOf(checks)) \o last)
      /\ (first \o IssuesOf(checks)) \o last = <<>> <=>
           first \o IssuesOf(checks) = <<>> /\ last = <<>>
  BY <1>4, <1>6, Joined
<1> QED BY <1>3, <1>4, <1>6, <1>8, <1>9

\* What a comparison of a file with its declaration says.
LEMMA MismatchesNone ==
  ASSUME NEW file, NEW declared
  PROVE  /\ IsSeq(Mismatches(file, declared))
         /\ Mismatches(file, declared) = <<>> <=>
              file.id = declared.id /\ file.size = declared.size
<1> DEFINE a == Issue(file.id # declared.id, "sha256")
           b == Issue(file.size # declared.size, "size")
<1>1. /\ IsSeq(a) /\ (a = <<>> <=> file.id = declared.id)
      /\ IsSeq(b) /\ (b = <<>> <=> file.size = declared.size)
  BY IssueList
<1> HIDE DEF a, b
<1>2. Mismatches(file, declared) = a \o b
  BY DEF Mismatches, a, b
<1> QED BY <1>1, <1>2, Joined

\* What a probe without issues has found.
LEMMA ProbeClean ==
  ASSUME NEW probed
  PROVE  /\ IsSeq(ProbeIssues(probed))
         /\ ProbeIssues(probed) = <<>> <=>
              /\ probed # Absent /\ probed.covered
              /\ probed.kind = doc.meta.kind /\ probed.dim = doc.meta.dim
              /\ probed.param = doc.meta.param /\ probed.vectors = doc.meta.vectors
              /\ index.size = doc.size
<1>1. CASE probed = Absent
  BY <1>1, Short DEF ProbeIssues
<1>2. CASE probed # Absent
  <2> DEFINE checks == <<
         <<probed.kind # doc.meta.kind, "kind_mismatch">>,
         <<probed.dim # doc.meta.dim, "dim_mismatch">>,
         <<probed.param # doc.meta.param, "params_mismatch">>,
         <<probed.vectors # doc.meta.vectors, "vector_count">>,
         <<index.size # doc.size, "metadata_size">>>>
       kind == Issue(~ probed.covered, "kind")
  <2>1. IsSeq(checks)
    BY Listed
  <2>2. /\ Len(checks) = 5
        /\ checks[1][1] <=> probed.kind # doc.meta.kind
        /\ checks[2][1] <=> probed.dim # doc.meta.dim
        /\ checks[3][1] <=> probed.param # doc.meta.param
        /\ checks[4][1] <=> probed.vectors # doc.meta.vectors
        /\ checks[5][1] <=> index.size # doc.size
    OBVIOUS
  <2>3. IsSeq(kind) /\ (kind = <<>> <=> probed.covered)
    BY IssueList
  <2>4. ProbeIssues(probed) = kind \o IssuesOf(checks)
    BY <1>2 DEF ProbeIssues
  <2> HIDE DEF checks, kind
  <2>5. /\ IsSeq(IssuesOf(checks))
        /\ IssuesOf(checks) = <<>> <=> \A i \in 1 .. 5 : ~ checks[i][1]
    BY <2>1, <2>2, IssuesNone
  <2>6. 1 .. 5 = {1, 2, 3, 4, 5}
    OBVIOUS
  <2>7. /\ IsSeq(kind \o IssuesOf(checks))
        /\ kind \o IssuesOf(checks) = <<>> <=> kind = <<>> /\ IssuesOf(checks) = <<>>
    BY <2>3, <2>5, Joined
  <2> QED BY <1>2, <2>2, <2>3, <2>4, <2>5, <2>6, <2>7
<1> QED BY <1>1, <1>2

\* What the distortion of an encoder says where it has no issues.
LEMMA DistortionLists ==
  ASSUME NEW d, NEW e, NEW escape
  PROVE  /\ IsSeq(DistortionShape(d)) /\ IsSeq(DistortionEncoder(d, e))
         /\ IsSeq(DistortionMetrics(d)) /\ IsSeq(DistortionBounds(d.bounds))
         /\ IsSeq(DistortionScope(d.scope)) /\ IsSeq(DistortionEvidence(d))
         /\ IsSeq(DistortionProfile(d.profile, escape))
<1>1. IsSeq(MetricIssues(d.source)) /\ IsSeq(MetricIssues(d.embedding))
  BY Listed, IssuesNone DEF MetricIssues
<1>2. IsSeq(DistortionMetrics(d))
  BY <1>1, Joined DEF DistortionMetrics
<1>3. IsSeq(DistortionShape(d)) /\ IsSeq(DistortionEncoder(d, e))
  BY Listed, IssuesNone DEF DistortionShape, DistortionEncoder
<1>4. IsSeq(DistortionBounds(d.bounds))
  BY Listed, IssuesNone DEF DistortionBounds
<1>5. IsSeq(DistortionScope(d.scope)) /\ IsSeq(DistortionEvidence(d))
  BY Listed, IssuesNone DEF DistortionScope, DistortionEvidence
<1>6. IsSeq(DistortionProfile(d.profile, escape))
  BY Listed, IssuesNone, PathIssues, Joined DEF DistortionProfile
<1> QED BY <1>2, <1>3, <1>4, <1>5, <1>6

LEMMA DistortionEncoderClean ==
  ASSUME NEW d, NEW e, DistortionEncoder(d, e) = <<>>
  PROVE  d.encoder.model = e.model /\ d.encoder.dim = e.dim
<1> DEFINE checks == <<
      <<d.encoder.model # e.model, "model_mismatch">>,
      <<d.encoder.dim # e.dim, "dim_mismatch">>,
      <<Unlike(e.revision, d.encoder.revision), "model_revision_mismatch">>,
      <<Unlike(e.normalization, d.encoder.normalization), "normalization_mismatch">>,
      <<Unlike(e.tokenizer, d.tokenizer), "tokenizer_revision_mismatch">>,
      <<Unlike(e.pooling, d.pooling), "pooling_mismatch">>>>
<1>1. IsSeq(checks) /\ IssuesOf(checks) = <<>>
  BY Listed DEF DistortionEncoder
<1>2. /\ Len(checks) = 6
      /\ checks[1][1] <=> d.encoder.model # e.model
      /\ checks[2][1] <=> d.encoder.dim # e.dim
  OBVIOUS
<1> HIDE DEF checks
<1>3. \A i \in 1 .. 6 : ~ checks[i][1]
  BY <1>1, <1>2, IssuesNone
<1> QED BY <1>2, <1>3

LEMMA DistortionBoundsClean ==
  ASSUME NEW b, DistortionBounds(b) = <<>>
  PROVE  /\ ~ NotPositive(b.lower) /\ ~ NotPositive(b.upper) /\ ~ NotPositive(b.estimated)
         /\ ~ (Given(b.lower) /\ Given(b.upper)
                 /\ Finite(b.lower) /\ Finite(b.upper) /\ b.lower > b.upper)
         /\ ~ QuotientIssue(b)
<1> DEFINE order == Given(b.lower) /\ Given(b.upper)
                      /\ Finite(b.lower) /\ Finite(b.upper) /\ b.lower > b.upper
           checks == <<
      <<\A f \in DOMAIN b : ~ Given(b[f]), "bounds_empty">>,
      <<NotPositive(b.lower), "lower_bound">>, <<NotPositive(b.upper), "upper_bound">>,
      <<NotPositive(b.estimated), "estimated_distortion">>,
      <<NoProbability(b.rate), "violation_rate">>,
      <<Negative(b.worst), "max_observed_violation">>,
      <<Negative(b.quantile), "quantile_observed_violation">>,
      <<order, "bounds_order">>,
      <<QuotientIssue(b), "distortion_mismatch">>>>
<1>1. IsSeq(checks) /\ IssuesOf(checks) = <<>>
  BY Listed DEF DistortionBounds
<1>2. order \in BOOLEAN
  OBVIOUS
<1> HIDE DEF order
<1>3. /\ Len(checks) = 9
      /\ checks[2][1] <=> NotPositive(b.lower)
      /\ checks[3][1] <=> NotPositive(b.upper)
      /\ checks[4][1] <=> NotPositive(b.estimated)
      /\ checks[8][1] <=> order
      /\ checks[9][1] <=> QuotientIssue(b)
  BY <1>2
<1> HIDE DEF checks
<1>4. \A i \in 1 .. 9 : ~ checks[i][1]
  BY <1>1, <1>3, IssuesNone
<1> QED BY <1>3, <1>4 DEF order

LEMMA DistortionEvidenceClean ==
  ASSUME NEW d, DistortionEvidence(d) = <<>>
  PROVE  Given(d.profile) \/ d.evidence = "caller_asserted"
<1> DEFINE checks == <<
      <<Blank(d.estimator), "estimator_id">>, <<Malformed(d.estimatorHash), "estimator_hash">>,
      <<~ Given(d.profile) /\ d.evidence # "caller_asserted", "profile_required">>>>
<1>1. IsSeq(checks) /\ IssuesOf(checks) = <<>>
  BY Listed DEF DistortionEvidence
<1>2. Len(checks) = 3 /\ (checks[3][1] <=> ~ Given(d.profile) /\ d.evidence # "caller_asserted")
  OBVIOUS
<1> HIDE DEF checks
<1>3. \A i \in 1 .. 3 : ~ checks[i][1]
  BY <1>1, <1>2, IssuesNone
<1> QED BY <1>2, <1>3

LEMMA DistortionProfileClean ==
  ASSUME NEW p, NEW escape, DistortionProfile(p, escape) = <<>>
  PROVE  p.path.segs # <<>>
<1> DEFINE rest == IssuesOf(<<
      <<Malformed(p.id), "profile_sha256">>, <<p.size = 0, "profile_file_size">>,
      <<Blank(p.format), "profile_format">>, <<Malformed(p.source), "source_digest">>>>)
<1>1. IsSeq(rest)
  BY Listed, IssuesNone
<1>2. PathShape(p.path, escape) \o rest = <<>>
  BY DEF DistortionProfile
<1> QED BY <1>1, <1>2, PathIssues, Joined

LEMMA DistortionLinkClean ==
  ASSUME NEW d, NEW calibration
  PROVE  /\ IsSeq(DistortionLink(d, calibration))
         /\ DistortionLink(d, calibration) = <<>> =>
              ~ Given(d.calibration) \/ (Given(calibration) /\ calibration.id = d.calibration)
  BY Short DEF DistortionLink

\* The same of the calibration.
LEMMA CalibrationLists ==
  ASSUME NEW c, NEW e, NEW meta, NEW escape
  PROVE  /\ IsSeq(CalibrationShape(c)) /\ IsSeq(CalibrationEncoder(c, e))
         /\ IsSeq(CalibrationOrdinalization(c, meta)) /\ IsSeq(CalibrationNull(c))
         /\ IsSeq(CalibrationProfileShape(c.profile, c.ord))
         /\ IsSeq(CalibrationProfile(c, meta, escape))
<1>1. IsSeq(CalibrationShape(c))
  <2> DEFINE checks == <<
        <<~ c.current, "schema_version">>, <<Blank(c.id), "profile_id">>,
        <<Malformed(c.created), "created_at">>, <<Blank(c.encoder.model), "model">>,
        <<c.encoder.dim = 0, "dim">>, <<Blank(c.encoder.revision), "model_revision">>,
        <<Blank(c.encoder.normalization), "normalization">>,
        <<c.ord.dim = 0, "ordinalization_dim">>,
        <<OrdinalizationFault(c.ord), "ordinalization_artifact_mismatch">>,
        <<c.null.kind = "empirical_tail_table" /\ Blank(c.null.arg), "null_statistic">>,
        <<c.null.kind = "caller_defined" /\ Blank(c.null.arg.name), "null_name">>,
        <<c.null.kind = "caller_defined" /\ Blank(c.null.arg.by), "null_parameterization">>>>
  <2>1. IsSeq(checks)
    BY ListedTwelve
  <2>2. CalibrationShape(c) = IssuesOf(checks)
    BY DEF CalibrationShape
  <2> HIDE DEF checks
  <2> QED BY <2>1, <2>2, IssuesNone
<1>2. IsSeq(CalibrationOrdinalization(c, meta)) /\ IsSeq(CalibrationNull(c))
  BY Listed, IssuesNone DEF CalibrationOrdinalization, CalibrationNull
<1>6. IsSeq(CalibrationEncoder(c, e))
  BY Listed, IssuesNone DEF CalibrationEncoder
<1>3. IsSeq(CalibrationParameterization(c))
  BY Listed, IssuesNone DEF CalibrationParameterization
<1>4. IsSeq(CalibrationProfileShape(c.profile, c.ord))
  BY Listed, IssuesNone, Short, Joined DEF CalibrationProfileShape
<1>5. IsSeq(CalibrationProfile(c, meta, escape))
  <2> DEFINE unexpected == IssuesOf(<<<<Given(c.profile), "profile_unexpected">>>>)
             said == IssuesOf(<<
               <<Malformed(c.profile.id), "profile_sha256">>,
               <<c.profile.size = 0, "profile_file_size">>,
               <<c.profile.dim # meta.dim, "profile_dim">>,
               <<c.profile.samples = 0, "sample_count">>,
               <<Malformed(c.profile.source), "source_digest">>>>)
             all == ((PathShape(c.profile.path, escape) \o said)
                       \o CalibrationParameterization(c))
                       \o CalibrationProfileShape(c.profile, c.ord)
  <2>1. IsSeq(unexpected) /\ IsSeq(said) /\ IsSeq(<<"profile_required">>)
    BY Listed, IssuesNone
  <2>2. CalibrationProfile(c, meta, escape) \in {unexpected, <<"profile_required">>, all}
    BY DEF CalibrationProfile
  <2> HIDE DEF unexpected, said
  <2>3. IsSeq(all)
    BY <1>3, <1>4, <2>1, PathIssues, Joined
  <2> HIDE DEF all
  <2> QED BY <2>1, <2>2, <2>3
<1> QED BY <1>1, <1>2, <1>4, <1>5, <1>6

LEMMA CalibrationShapeClean ==
  ASSUME NEW c, CalibrationShape(c) = <<>>
  PROVE  ~ OrdinalizationFault(c.ord)
<1> DEFINE checks == <<
      <<~ c.current, "schema_version">>, <<Blank(c.id), "profile_id">>,
      <<Malformed(c.created), "created_at">>, <<Blank(c.encoder.model), "model">>,
      <<c.encoder.dim = 0, "dim">>, <<Blank(c.encoder.revision), "model_revision">>,
      <<Blank(c.encoder.normalization), "normalization">>,
      <<c.ord.dim = 0, "ordinalization_dim">>,
      <<OrdinalizationFault(c.ord), "ordinalization_artifact_mismatch">>,
      <<c.null.kind = "empirical_tail_table" /\ Blank(c.null.arg), "null_statistic">>,
      <<c.null.kind = "caller_defined" /\ Blank(c.null.arg.name), "null_name">>,
      <<c.null.kind = "caller_defined" /\ Blank(c.null.arg.by), "null_parameterization">>>>
<1>1. IsSeq(checks)
  BY ListedTwelve
<1>3. IssuesOf(checks) = <<>>
  BY DEF CalibrationShape
<1>2. Len(checks) = 12 /\ (checks[9][1] <=> OrdinalizationFault(c.ord))
  OBVIOUS
<1> HIDE DEF checks
<1>4. \A i \in 1 .. 12 : ~ checks[i][1]
  BY <1>1, <1>2, <1>3, IssuesNone
<1> QED BY <1>2, <1>4

LEMMA CalibrationEncoderClean ==
  ASSUME NEW c, NEW e, CalibrationEncoder(c, e) = <<>>
  PROVE  c.encoder.model = e.model /\ c.encoder.dim = e.dim
<1> DEFINE checks == <<
      <<c.encoder.model # e.model, "model_mismatch">>,
      <<c.encoder.dim # e.dim, "dim_mismatch">>,
      <<Unlike(e.revision, c.encoder.revision), "model_revision_mismatch">>,
      <<Unlike(e.normalization, c.encoder.normalization), "normalization_mismatch">>>>
<1>1. IsSeq(checks) /\ IssuesOf(checks) = <<>>
  BY Listed DEF CalibrationEncoder
<1>2. /\ Len(checks) = 4
      /\ checks[1][1] <=> c.encoder.model # e.model
      /\ checks[2][1] <=> c.encoder.dim # e.dim
  OBVIOUS
<1> HIDE DEF checks
<1>3. \A i \in 1 .. 4 : ~ checks[i][1]
  BY <1>1, <1>2, IssuesNone
<1> QED BY <1>2, <1>3

LEMMA CalibrationOrdinalizationClean ==
  ASSUME NEW c, NEW meta, CalibrationOrdinalization(c, meta) = <<>>
  PROVE  c.ord.dim = meta.dim /\ Compatible(meta, c.ord)
<1> DEFINE checks == <<
      <<c.ord.dim # meta.dim, "ordinalization_dim_mismatch">>,
      <<~ Compatible(meta, c.ord), "ordinalization_artifact_mismatch">>>>
<1>1. IsSeq(checks) /\ IssuesOf(checks) = <<>>
  BY Listed DEF CalibrationOrdinalization
<1>2. /\ Len(checks) = 2
      /\ checks[1][1] <=> c.ord.dim # meta.dim
      /\ checks[2][1] <=> ~ Compatible(meta, c.ord)
  OBVIOUS
<1> HIDE DEF checks
<1>3. \A i \in 1 .. 2 : ~ checks[i][1]
  BY <1>1, <1>2, IssuesNone
<1> QED BY <1>2, <1>3

LEMMA CalibrationNullClean ==
  ASSUME NEW c, CalibrationNull(c) = <<>>
  PROVE  Uniform(c) => c.ord.kind = "top_k"
<1> DEFINE checks == <<<<Uniform(c) /\ c.ord.kind # "top_k", "null_model_ordinalization">>>>
<1>1. IsSeq(checks) /\ IssuesOf(checks) = <<>>
  BY Listed DEF CalibrationNull
<1>2. Len(checks) = 1 /\ (checks[1][1] <=> Uniform(c) /\ c.ord.kind # "top_k")
  OBVIOUS
<1> HIDE DEF checks
<1>3. \A i \in 1 .. 1 : ~ checks[i][1]
  BY <1>1, <1>2, IssuesNone
<1> QED BY <1>2, <1>3

\* A raw table without issues has the expected shape and the size of that.
LEMMA ProfileShapeClean ==
  ASSUME NEW p, NEW ord, CalibrationProfileShape(p, ord) = <<>>,
         p.format = "raw_f32_le", p.shape # <<>>
  PROVE  /\ Given(ExpectedShape(p.by, ord)) => p.shape = ExpectedShape(p.by, ord)
         /\ p.size = RawSize(p.shape, 4)
<1> DEFINE expected == ExpectedShape(p.by, ord)
           first == IssuesOf(<<<<Blank(p.format), "profile_format">>>>)
           over == Overflows(p.shape, 4)
           wrong == Given(expected) /\ p.shape # expected
           large == 4 > 0 /\ over
           odd == 4 > 0 /\ ~ over /\ p.size # RawSize(p.shape, 4)
           checks == <<<<wrong, "profile_shape">>, <<large, "profile_shape_overflow">>,
                       <<odd, "profile_file_size">>>>
<1>1. first \o IssuesOf(checks) = <<>>
  BY DEF CalibrationProfileShape
<1>2. IsSeq(checks) /\ IsSeq(first)
  BY Listed, IssuesNone
<1>3. wrong \in BOOLEAN /\ large \in BOOLEAN /\ odd \in BOOLEAN
  BY DEF Overflows
<1> HIDE DEF wrong, large, odd, first
<1>4. /\ Len(checks) = 3 /\ (checks[1][1] <=> wrong) /\ (checks[2][1] <=> large)
      /\ (checks[3][1] <=> odd)
  BY <1>3
<1> HIDE DEF checks
<1>5. /\ IsSeq(IssuesOf(checks))
      /\ IssuesOf(checks) = <<>> => \A i \in 1 .. 3 : ~ checks[i][1]
  BY <1>2, <1>4, IssuesNone
<1>6. IssuesOf(checks) = <<>>
  BY <1>1, <1>2, <1>5, Joined
<1>7. ~ wrong /\ ~ large /\ ~ odd
  BY <1>4, <1>5, <1>6
<1> QED BY <1>7 DEF wrong, large, odd

LEMMA CalibrationProfileClean ==
  ASSUME NEW c, NEW meta, NEW escape, CalibrationProfile(c, meta, escape) = <<>>
  PROVE  /\ Uniform(c) => ~ Given(c.profile)
         /\ ~ Uniform(c) => /\ Given(c.profile) /\ c.profile.path.segs # <<>>
                            /\ c.profile.dim = meta.dim
                            /\ CalibrationProfileShape(c.profile, c.ord) = <<>>
<1>1. CASE Uniform(c)
  <2> DEFINE checks == <<<<Given(c.profile), "profile_unexpected">>>>
  <2>1. IsSeq(checks) /\ IssuesOf(checks) = <<>>
    BY <1>1, Listed DEF CalibrationProfile
  <2>2. Len(checks) = 1 /\ (checks[1][1] <=> Given(c.profile))
    OBVIOUS
  <2> HIDE DEF checks
  <2>3. \A i \in 1 .. 1 : ~ checks[i][1]
    BY <2>1, <2>2, IssuesNone
  <2> QED BY <1>1, <2>2, <2>3
<1>2. CASE ~ Uniform(c)
  <2>1. Given(c.profile)
    BY <1>2, Short DEF CalibrationProfile
  <2> DEFINE checks == <<
            <<Malformed(c.profile.id), "profile_sha256">>,
            <<c.profile.size = 0, "profile_file_size">>,
            <<c.profile.dim # meta.dim, "profile_dim">>,
            <<c.profile.samples = 0, "sample_count">>,
            <<Malformed(c.profile.source), "source_digest">>>>
     path == PathShape(c.profile.path, escape)
     fit == CalibrationParameterization(c)
     shape == CalibrationProfileShape(c.profile, c.ord)
  <2>2. ((path \o IssuesOf(checks)) \o fit) \o shape = <<>>
    BY <1>2, <2>1 DEF CalibrationProfile
  <2>3. /\ IsSeq(path) /\ (path = <<>> => c.profile.path.segs # <<>>)
        /\ IsSeq(checks) /\ IsSeq(shape)
    BY PathIssues, Listed, CalibrationLists
  <2>4. IsSeq(fit)
    BY Listed, IssuesNone DEF CalibrationParameterization
  <2>5. Len(checks) = 5 /\ (checks[3][1] <=> c.profile.dim # meta.dim)
    OBVIOUS
  <2> HIDE DEF checks, path, fit, shape
  <2>6. /\ IsSeq(IssuesOf(checks))
        /\ IssuesOf(checks) = <<>> => \A i \in 1 .. 5 : ~ checks[i][1]
    BY <2>3, <2>5, IssuesNone
  <2>7. IsSeq(path \o IssuesOf(checks)) /\ IsSeq((path \o IssuesOf(checks)) \o fit)
    BY <2>3, <2>4, <2>6, Joined
  <2>8. shape = <<>> /\ (path \o IssuesOf(checks)) \o fit = <<>>
    BY <2>2, <2>3, <2>7, Joined
  <2>9. path \o IssuesOf(checks) = <<>>
    BY <2>4, <2>7, <2>8, Joined
  <2>10. path = <<>> /\ IssuesOf(checks) = <<>>
    BY <2>3, <2>6, <2>9, Joined
  <2> QED BY <1>2, <2>1, <2>3, <2>5, <2>6, <2>8, <2>10 DEF shape
<1> QED BY <1>1, <1>2

\* The number of values of a shape of one or two dimensions.
LEMMA ValuesOfShape ==
  ASSUME NEW d \in Nat, NEW e \in Nat
  PROVE  Values(<<d>>) = d /\ Values(<<d, e>>) = d * e
<1>1. Values(<<d>>) = d
  <2> DEFINE G(f) == [i \in 0 .. 1 |-> IF i = 0 THEN 1 ELSE f[i - 1] * <<d>>[i]]
             f0 == [i \in 0 .. 1 |-> IF i = 0 THEN 1 ELSE 1 * d]
             product == CHOOSE f : f = G(f)
  <2>1. f0 = G(f0)
    OBVIOUS
  <2>2. Values(<<d>>) = product[1]
    <3>1. Len(<<d>>) = 1
      OBVIOUS
    <3> QED BY <3>1 DEF Values
  <2>3. product = G(product)
    <3> HIDE DEF G, f0
    <3> QED BY <2>1
  <2> HIDE DEF product
  <2>4. product[0] = 1 /\ product[1] = product[0] * d
    BY <2>3
  <2> QED BY <2>2, <2>4
<1>2. Values(<<d, e>>) = d * e
  <2> DEFINE G(f) == [i \in 0 .. 2 |-> IF i = 0 THEN 1 ELSE f[i - 1] * <<d, e>>[i]]
             f0 == [i \in 0 .. 2 |-> IF i = 0 THEN 1 ELSE IF i = 1 THEN 1 * d ELSE (1 * d) * e]
             product == CHOOSE f : f = G(f)
  <2>1. f0 = G(f0)
    OBVIOUS
  <2>2. Values(<<d, e>>) = product[2]
    <3>1. Len(<<d, e>>) = 2
      OBVIOUS
    <3> QED BY <3>1 DEF Values
  <2>3. product = G(product)
    <3> HIDE DEF G, f0
    <3> QED BY <2>1
  <2> HIDE DEF product
  <2>4. product[0] = 1 /\ product[1] = product[0] * d /\ product[2] = product[1] * e
    BY <2>3
  <2>5. product[1] = d
    BY <2>4
  <2> QED BY <2>2, <2>4, <2>5
<1> QED BY <1>1, <1>2

\* How many values a raw table has for an index of this metadata.
Cells(c, meta) ==
  CASE c.profile.by = "bucket_frequency" /\ c.ord.kind = "bucket" -> meta.dim * 2^meta.param
    [] c.profile.by = "rank_position_frequency" -> meta.dim * meta.dim
    [] c.profile.by \in {"marginal_topk_frequency", "sign_frequency"} -> meta.dim
    [] OTHER -> Values(c.profile.shape)

\* A raw table that passes its checks has an entry for every cell of the index.
LEMMA RawTable ==
  ASSUME NEW c, NEW meta, meta.dim \in Nat, c.ord.dim = meta.dim,
         ~ OrdinalizationFault(c.ord), Compatible(meta, c.ord),
         CalibrationProfileShape(c.profile, c.ord) = <<>>,
         c.profile.format = "raw_f32_le", c.profile.shape # <<>>
  PROVE  c.profile.size = Cells(c, meta) * 4
<1> DEFINE expected == ExpectedShape(c.profile.by, c.ord)
           v == Values(c.profile.shape)
<1>1. /\ Given(expected) => c.profile.shape = expected
      /\ c.profile.size = v * 4
  BY ProfileShapeClean DEF RawSize
<1>2. CASE c.profile.by = "bucket_frequency" /\ c.ord.kind = "bucket"
  <2>1. c.ord.arg = meta.param /\ c.ord.arg \in {1, 2, 4}
    BY <1>2 DEF Compatible, OrdinalizationFault
  <2>2. 2^c.ord.arg \in Nat
    <3>1. 2^1 \in Nat /\ 2^2 \in Nat /\ 2^4 \in Nat
      OBVIOUS
    <3>2. c.ord.arg = 1 \/ c.ord.arg = 2 \/ c.ord.arg = 4
      BY <2>1
    <3> QED BY <3>1, <3>2
  <2>3. expected = <<meta.dim, 2^c.ord.arg>>
    BY <1>2, <2>1 DEF ExpectedShape
  <2>4. <<meta.dim, 2^c.ord.arg>> \in Seq(Nat)
    BY <2>2
  <2>5. c.profile.shape = expected
    BY <1>1, <2>3, <2>4, ProfilesAssumption DEF Given
  <2>6. v = meta.dim * 2^meta.param
    BY <2>1, <2>2, <2>3, <2>5, ValuesOfShape
  <2> HIDE DEF v
  <2> QED BY <1>1, <1>2, <2>6 DEF Cells
<1>3. CASE c.profile.by = "rank_position_frequency"
  <2>1. expected = <<meta.dim, meta.dim>> /\ <<meta.dim, meta.dim>> \in Seq(Nat)
    BY <1>3 DEF ExpectedShape
  <2>2. c.profile.shape = expected
    BY <1>1, <2>1, ProfilesAssumption DEF Given
  <2>3. v = meta.dim * meta.dim
    BY <2>1, <2>2, ValuesOfShape
  <2> HIDE DEF v
  <2> QED BY <1>1, <1>3, <2>3 DEF Cells
<1>4. CASE c.profile.by \in {"marginal_topk_frequency", "sign_frequency"}
  <2>1. expected = <<meta.dim>> /\ <<meta.dim>> \in Seq(Nat)
    BY <1>4 DEF ExpectedShape
  <2>2. c.profile.shape = expected
    BY <1>1, <2>1, ProfilesAssumption DEF Given
  <2>3. v = meta.dim
    BY <2>1, <2>2, ValuesOfShape
  <2> HIDE DEF v
  <2> QED BY <1>1, <1>4, <2>3 DEF Cells
<1>5. CASE /\ ~ (c.profile.by = "bucket_frequency" /\ c.ord.kind = "bucket")
           /\ c.profile.by # "rank_position_frequency"
           /\ c.profile.by \notin {"marginal_topk_frequency", "sign_frequency"}
  <2> HIDE DEF v
  <2>1. v = Values(c.profile.shape)
    BY DEF v
  <2> QED BY <1>1, <1>5, <2>1 DEF Cells
<1> QED BY <1>2, <1>3, <1>4, <1>5

\* Bounds that pass their checks leave room.
LEMMA BoundsLeaveRoom ==
  ASSUME NEW b, DistortionBounds(b) = <<>>, b.lower \in Maybe(Int), b.upper \in Maybe(Int),
         b.estimated \in Maybe(Int), Given(b.lower), Given(b.upper)
  PROVE  /\ 0 < b.lower /\ b.lower <= b.upper
         /\ Given(b.estimated) => b.estimated >= Unit
<1>1. b.lower \in Int /\ Finite(b.lower) /\ b.lower > 0
  BY DistortionBoundsClean DEF NotPositive, Given, Maybe
<1>2. b.upper \in Int /\ Finite(b.upper) /\ b.upper > 0
  BY DistortionBoundsClean DEF NotPositive, Given, Maybe
<1>3. b.lower <= b.upper
  BY <1>1, <1>2, DistortionBoundsClean
<1>4. ASSUME Given(b.estimated) PROVE b.estimated >= Unit
  <2>1. b.estimated \in Int /\ Finite(b.estimated) /\ b.estimated > 0
    BY <1>4, DistortionBoundsClean DEF NotPositive, Given, Maybe
  <2>2. b.estimated * b.lower = b.upper * Unit
    BY <1>1, <1>2, <1>4, <2>1, DistortionBoundsClean DEF QuotientIssue
  <2>3. \A e, l, u, w \in Int : 0 < l /\ l <= u /\ 0 < w /\ e < w => e * l < u * w
    <3>1. TAKE e, l, u, w \in Int
    <3>2. HAVE 0 < l /\ l <= u /\ 0 < w /\ e < w
    <3>3. e * l < w * l
      BY <3>2
    <3>4. l * w <= u * w
      BY <3>2
    <3>5. w * l = l * w /\ e * l \in Int /\ l * w \in Int /\ u * w \in Int
      OBVIOUS
    <3> QED BY <3>3, <3>4, <3>5
  <2>4. Unit \in Int /\ Unit > 0
    BY ProfilesAssumption
  <2>5. ~ b.estimated < Unit
    BY <1>1, <1>2, <1>3, <2>1, <2>2, <2>3, <2>4
  <2> QED BY <2>1, <2>4, <2>5
<1> QED BY <1>1, <1>3, <1>4

LEMMA ArtifactIssuesNone ==
  ASSUME NEW n
  PROVE  /\ IsSeq(ArtifactIssues(n))
         /\ ArtifactIssues(n) = <<>> <=>
              (n \in DOMAIN doc.aux =>
                 /\ PathShape(doc.aux[n].path, options.escape) = <<>>
                 /\ ~ Malformed(doc.aux[n].id)
                 /\ ~ (doc.aux[n].required /\ doc.aux[n].size = 0))
<1>1. CASE n \notin DOMAIN doc.aux
  BY <1>1, Short DEF ArtifactIssues
<1>2. CASE n \in DOMAIN doc.aux
  <2> DEFINE path == PathShape(doc.aux[n].path, options.escape)
             checks == <<
               <<Malformed(doc.aux[n].id), "aux_sha256">>,
               <<doc.aux[n].required /\ doc.aux[n].size = 0, "aux_size">>>>
             rest == IssuesOf(checks)
  <2>1. IsSeq(path) /\ IsSeq(checks)
    BY PathIssues, Listed
  <2>2. ArtifactIssues(n) = path \o rest
    BY <1>2 DEF ArtifactIssues
  <2>3. /\ Len(checks) = 2
        /\ checks[1][1] <=> Malformed(doc.aux[n].id)
        /\ checks[2][1] <=> doc.aux[n].required /\ doc.aux[n].size = 0
    BY DEF Malformed
  <2> HIDE DEF path, checks
  <2>4. IsSeq(rest) /\ (rest = <<>> <=> \A i \in 1 .. 2 : ~ checks[i][1])
    BY <2>1, <2>3, IssuesNone
  <2>5. 1 .. 2 = {1, 2}
    OBVIOUS
  <2> HIDE DEF rest
  <2>6. rest = <<>> <=> /\ ~ Malformed(doc.aux[n].id)
                        /\ ~ (doc.aux[n].required /\ doc.aux[n].size = 0)
    BY <2>3, <2>4, <2>5
  <2>7. IsSeq(path \o rest) /\ (path \o rest = <<>> <=> path = <<>> /\ rest = <<>>)
    BY <2>1, <2>4, Joined
  <2> QED BY <1>2, <2>2, <2>6, <2>7 DEF path
<1> QED BY <1>1, <1>2

\* The list is empty exactly where no declared artifact has an issue.
LEMMA AuxShapeClean ==
  ASSUME Aux \in Seq(Names)
  PROVE  /\ IsSeq(AuxShape)
         /\ AuxShape = <<>> <=> AuxCounted /\ \A n \in Names : ArtifactIssues(n) = <<>>
<1>1. CASE ~ AuxCounted
  BY <1>1, Short DEF AuxShape
<1>2. CASE AuxCounted
  <2> DEFINE G(f, k) == [i \in 0 .. k |->
                           IF i = 0 THEN <<>> ELSE f[i - 1] \o ArtifactIssues(Aux[i])]
             n == Len(Aux)
             issues == CHOOSE f : f = G(f, n)
             Missing == {k \in Nat : ~ \E f : f = G(f, k)}
  <2>1. n \in Nat /\ DOMAIN Aux = 1 .. n
    BY LenProperties
  <2>2. AuxShape = issues[n]
    BY <1>2 DEF AuxShape
  <2>3. Missing = {}
    <3>1. SUFFICES ASSUME Missing # {} PROVE FALSE
      OBVIOUS
    <3>2. PICK m \in Missing : \A k \in Missing : m <= k
      <4>1. Missing \in SUBSET Nat
        OBVIOUS
      <4> HIDE DEF Missing
      <4> QED BY <3>1, <4>1, LeastNumber
    <3>3. m \in Nat /\ ~ \E f : f = G(f, m)
      OBVIOUS
    <3>4. CASE m = 0
      <4> DEFINE f0 == [i \in 0 .. 0 |-> <<>>]
      <4>1. f0 = G(f0, 0)
        OBVIOUS
      <4> QED BY <3>3, <3>4, <4>1
    <3>5. CASE m # 0
      <4>1. m - 1 \in Nat /\ ~ m <= m - 1
        BY <3>3, <3>5
      <4>2. m - 1 \notin Missing
        <5> HIDE DEF Missing
        <5> QED BY <3>2, <4>1
      <4>3. PICK f : f = G(f, m - 1)
        BY <4>1, <4>2
      <4> DEFINE g == [i \in 0 .. m |-> IF i = m THEN f[m - 1] \o ArtifactIssues(Aux[m])
                                        ELSE f[i]]
      <4>6. \A i \in 0 .. m - 1 :
              f[i] = IF i = 0 THEN <<>> ELSE f[i - 1] \o ArtifactIssues(Aux[i])
        BY <4>3
      <4>7. /\ g[m] = f[m - 1] \o ArtifactIssues(Aux[m])
            /\ \A i \in 0 .. m - 1 : g[i] = f[i]
        <5>1. m \in Nat
          BY <3>3
        <5>2. m \in 0 .. m /\ \A i \in 0 .. m - 1 : i \in 0 .. m /\ i # m
          BY <5>1
        <5> QED BY <5>2
      <4>8. \A i \in 0 .. m : i = m \/ (i \in 0 .. m - 1 /\ (i # 0 => i - 1 \in 0 .. m - 1))
        BY <3>3
      <4>9. m - 1 \in 0 .. m - 1
        BY <4>1
      <4>10. DOMAIN g = 0 .. m /\ g = [i \in 0 .. m |-> g[i]]
        OBVIOUS
      <4> HIDE DEF g
      <4>4. \A i \in 0 .. m : g[i] = IF i = 0 THEN <<>> ELSE g[i - 1] \o ArtifactIssues(Aux[i])
        BY <3>5, <4>6, <4>7, <4>8, <4>9
      <4>5. g = G(g, m)
        BY <4>4, <4>10
      <4> QED BY <3>3, <4>5
    <3> QED BY <3>4, <3>5
  <2>4. issues = G(issues, n)
    <3>1. \E f : f = G(f, n)
      BY <2>1, <2>3
    <3> HIDE DEF G
    <3> QED BY <3>1
  <2> HIDE DEF issues, Missing
  <2>5. issues[0] = <<>> /\ \A i \in 1 .. n : issues[i] = issues[i - 1] \o ArtifactIssues(Aux[i])
    BY <2>1, <2>4
  <2> DEFINE Fine(i) == /\ IsSeq(issues[i])
                        /\ issues[i] = <<>> <=> \A j \in 1 .. i : ArtifactIssues(Aux[j]) = <<>>
             Wrong == {i \in 0 .. n : ~ Fine(i)}
  <2>6. Wrong = {}
    <3>1. SUFFICES ASSUME Wrong # {} PROVE FALSE
      OBVIOUS
    <3>2. PICK m \in Wrong : \A k \in Wrong : m <= k
      <4>1. Wrong \in SUBSET Nat
        BY <2>1
      <4> HIDE DEF Wrong
      <4> QED BY <3>1, <4>1, LeastNumber
    <3>3. m \in 0 .. n /\ ~ Fine(m)
      OBVIOUS
    <3>4. m # 0
      <4>1. Fine(0)
        BY <2>5, Short
      <4> QED BY <3>3, <4>1
    <3>5. m - 1 \in 0 .. n /\ ~ m <= m - 1
      BY <2>1, <3>3, <3>4
    <3>6. Fine(m - 1)
      <4>1. m - 1 \notin Wrong
        <5> HIDE DEF Wrong
        <5> QED BY <3>2, <3>5
      <4> QED BY <3>5, <4>1
    <3>7. issues[m] = issues[m - 1] \o ArtifactIssues(Aux[m])
      <4>1. m \in 1 .. n
        BY <2>1, <3>4
      <4> HIDE DEF Fine, n
      <4> QED BY <2>5, <4>1
    <3>8. /\ IsSeq(issues[m])
          /\ issues[m] = <<>> <=> issues[m - 1] = <<>> /\ ArtifactIssues(Aux[m]) = <<>>
      <4>1. IsSeq(ArtifactIssues(Aux[m]))
        BY ArtifactIssuesNone
      <4> QED BY <3>6, <3>7, <4>1, Joined
    <3>9. /\ \A j \in 1 .. m : j \in 1 .. m - 1 \/ j = m
          /\ m \in 1 .. m /\ \A j \in 1 .. m - 1 : j \in 1 .. m
      BY <2>1, <3>3, <3>4
    <3>10. Fine(m)
      BY <3>6, <3>8, <3>9
    <3> QED BY <3>3, <3>10
  <2>7. Fine(n)
    BY <2>1, <2>6
  <2>8. /\ \A x \in Names : \E j \in 1 .. n : Aux[j] = x
        /\ \A j \in 1 .. n : Aux[j] \in Names
    BY <2>1 DEF Names
  <2> QED BY <1>2, <2>2, <2>7, <2>8
<1> QED BY <1>1, <1>2

-----------------------------------------------------------------------------
(* The limit on issues.                                                     *)

LEMMA TruncatedList ==
  ASSUME NEW errors, IsSeq(errors), NEW limit \in Nat
  PROVE  /\ IsSeq(Truncated(errors, limit)) /\ Truncated(errors, limit) # <<>>
         /\ Len(Truncated(errors, limit)) <= IF limit = 0 THEN 1 ELSE limit
<1> DEFINE n == IF limit = 0 THEN 0
                ELSE IF Len(errors) < limit - 1 THEN Len(errors) ELSE limit - 1
<1>1. Len(errors) \in Nat
  BY Sized
<1>2. n \in 0 .. Len(errors) /\ n + 1 <= IF limit = 0 THEN 1 ELSE limit
  BY <1>1
<1>3. Truncated(errors, limit) = Append(SubSeq(errors, 1, n), "limit")
  BY DEF Truncated
<1> HIDE DEF n
<1>4. IsSeq(SubSeq(errors, 1, n)) /\ Len(SubSeq(errors, 1, n)) = n
  BY <1>2, Cut
<1> QED BY <1>2, <1>3, <1>4, Longer

\* An issue is never lost: a full list says that it is.
LEMMA Pushed ==
  ASSUME NEW errors, IsSeq(errors), NEW code, NEW limit \in Nat
  PROVE  IsSeq(PushBounded(errors, code, limit)) /\ PushBounded(errors, code, limit) # <<>>
<1>1. DOMAIN errors = 1 .. Len(errors) /\ (errors = <<>> <=> Len(errors) = 0)
  BY Sized
<1>2. CASE Len(errors) < limit
  BY <1>2, Longer DEF PushBounded
<1>3. CASE ~ Len(errors) < limit /\ \E i \in DOMAIN errors : errors[i] = "limit"
  <2>1. errors # <<>>
    BY <1>1, <1>3
  <2> QED BY <1>3, <2>1 DEF PushBounded
<1>4. CASE ~ Len(errors) < limit /\ ~ \E i \in DOMAIN errors : errors[i] = "limit"
  BY <1>4, TruncatedList DEF PushBounded
<1> QED BY <1>2, <1>3, <1>4

\* The limit neither empties a list nor fills an empty one.
LEMMA Enforced ==
  ASSUME NEW errors, IsSeq(errors), NEW limit \in Nat
  PROVE  /\ EnforceLimit(errors, limit) = <<>> <=> errors = <<>>
         /\ Len(EnforceLimit(errors, limit)) <= IF limit = 0 THEN 1 ELSE limit
<1> DEFINE others == {i \in DOMAIN errors : errors[i] # "limit"}
<1>1. /\ Len(errors) \in Nat /\ DOMAIN errors = 1 .. Len(errors)
      /\ errors = <<>> <=> Len(errors) = 0
  BY Sized
<1>2. CASE Len(errors) <= limit
  <2>1. EnforceLimit(errors, limit) = errors
    BY <1>2 DEF EnforceLimit
  <2> QED BY <1>1, <1>2, <2>1
<1>3. CASE ~ Len(errors) <= limit
  <2>1. IsFiniteSet(others)
    <3>1. others \subseteq 1 .. Len(errors) /\ IsFiniteSet(1 .. Len(errors))
      BY <1>1, FS_Interval
    <3> HIDE DEF others
    <3> QED BY <3>1, FS_Subset
  <2>2. EnforceLimit(errors, limit) = Truncated(Picked(errors, others), limit)
    BY <1>3 DEF EnforceLimit
  <2> HIDE DEF others
  <2>3. IsSeq(Picked(errors, others))
    BY <2>1, PickedLength
  <2>4. errors # <<>>
    BY <1>1, <1>3
  <2> QED BY <2>2, <2>3, <2>4, TruncatedList
<1> QED BY <1>2, <1>3

-----------------------------------------------------------------------------
(* The rows.                                                                *)

IdsUpTo(lines, i) == {lines[j].dbId : j \in 1 .. i}

\* Nothing is wrong with the first i lines of a map for an index of n vectors.
GoodUpTo(lines, n, opts, i) ==
  /\ i <= n /\ i <= opts.maxRows
  /\ \A j \in 1 .. i : /\ lines[j].json /\ lines[j].uuid /\ ~ lines[j].long
                       /\ lines[j].rowId = j - 1
  /\ opts.duplicates \/
       /\ i <= opts.maxTracked
       /\ \A j, k \in 1 .. i : lines[j].dbId = lines[k].dbId => j = k

\* What the loop knows after i lines, if it began with some errors: it has none
\* exactly if there were none and nothing was wrong.
LoopKnows(acc, lines, n, opts, errors, i) ==
  /\ IsSeq(acc.errors)
  /\ acc = [errors |-> acc.errors, rows |-> acc.rows, validated |-> acc.validated,
            ids |-> acc.ids, eof |-> acc.eof]
  /\ acc.errors = <<>> <=> errors = <<>> /\ GoodUpTo(lines, n, opts, i)
  /\ acc.errors = <<>> => /\ acc.rows = i /\ acc.validated = i /\ acc.eof
                          /\ acc.ids = IF opts.duplicates THEN {} ELSE IdsUpTo(lines, i)

\* As many ids as lines are found exactly if none repeats.
LEMMA DistinctIds ==
  ASSUME NEW lines, NEW i \in Nat
  PROVE  /\ Cardinality(IdsUpTo(lines, i)) \in Nat
         /\ Cardinality(IdsUpTo(lines, i)) = i <=>
              \A j, k \in 1 .. i : lines[j].dbId = lines[k].dbId => j = k
<1> DEFINE f == [j \in 1 .. i |-> lines[j].dbId]
           T == IdsUpTo(lines, i)
<1>1. IsFiniteSet(1 .. i) /\ Cardinality(1 .. i) = i
  BY FS_Interval
<1>2. f \in Surjection(1 .. i, T)
  BY DEF IdsUpTo, Surjection
<1>3. f \in Injection(1 .. i, T) <=>
        \A j, k \in 1 .. i : lines[j].dbId = lines[k].dbId => j = k
  <2>1. f \in [1 .. i -> T]
    BY DEF IdsUpTo
  <2>2. \A j \in 1 .. i : f[j] = lines[j].dbId
    OBVIOUS
  <2> HIDE DEF f, T
  <2> QED BY <2>1, <2>2 DEF Injection, IsInjective
<1> HIDE DEF f
<1>4. IsFiniteSet(T) /\ (Cardinality(T) = i <=> f \in Injection(1 .. i, T))
  BY <1>1, <1>2, FS_Surjection
<1> QED BY <1>3, <1>4, FS_CardinalityType

\* One line more.
LEMMA LineStep ==
  ASSUME NEW lines \in Seq(Line), NEW n \in Nat, NEW opts \in Option, NEW errors,
         NEW i \in 1 .. Len(lines), NEW acc, LoopKnows(acc, lines, n, opts, errors, i - 1)
  PROVE  LoopKnows(NextLine(acc, lines[i], n, opts), lines, n, opts, errors, i)
<1> DEFINE line == lines[i]
           next == NextLine(acc, line, n, opts)
           Bounded(e, code) == PushBounded(e, code, opts.maxIssues)
           numbered == IF line.rowId = acc.rows THEN acc.errors
                       ELSE Bounded(acc.errors, "row_id")
           named == IF line.uuid THEN numbered ELSE Bounded(numbered, "uuid")
<1>1. /\ i \in Nat /\ i - 1 \in Nat /\ line \in Line
      /\ opts.maxIssues \in Nat /\ opts.maxRows \in Nat /\ opts.maxTracked \in Nat
      /\ opts.duplicates \in BOOLEAN
  <2>1. Len(lines) \in Nat /\ line \in Line
    BY LenProperties
  <2> HIDE DEF line
  <2> QED BY <2>1 DEF Option
<1>2. \A e, code : IsSeq(e) => IsSeq(Bounded(e, code)) /\ Bounded(e, code) # <<>>
  BY <1>1, Pushed
<1>3. IsSeq(acc.errors) /\ acc = [errors |-> acc.errors, rows |-> acc.rows,
                                  validated |-> acc.validated, ids |-> acc.ids, eof |-> acc.eof]
  BY DEF LoopKnows
<1>4. /\ IsSeq(numbered) /\ (numbered = <<>> <=> acc.errors = <<>> /\ line.rowId = acc.rows)
      /\ IsSeq(named) /\ (named = <<>> <=> numbered = <<>> /\ line.uuid)
  <2> HIDE DEF line, Bounded
  <2> QED BY <1>2, <1>3
<1> DEFINE stop(code) == [acc EXCEPT !.rows = @ + 1, !.eof = FALSE,
                                     !.errors = Bounded(@, code)]
           valid == [acc EXCEPT !.rows = @ + 1, !.validated = @ + 1, !.errors = named]
<1>5. next = IF ~ acc.eof THEN acc
             ELSE IF acc.rows + 1 > opts.maxRows THEN stop("too_many_rows")
             ELSE IF acc.rows + 1 > n THEN stop("row_count")
             ELSE IF line.long THEN stop("line")
             ELSE IF ~ line.json
             THEN [acc EXCEPT !.rows = @ + 1, !.errors = Bounded(@, "json")]
             ELSE IF opts.duplicates THEN valid
             ELSE IF line.dbId \in acc.ids
             THEN [valid EXCEPT !.errors = Bounded(@, "duplicate")]
             ELSE IF Cardinality(acc.ids) + 1 > opts.maxTracked
             THEN [valid EXCEPT !.errors = Bounded(@, "tracking"), !.eof = FALSE]
             ELSE [valid EXCEPT !.ids = @ \cup {line.dbId}]
  BY DEF NextLine
<1> HIDE DEF next, line, named, numbered, Bounded
<1> SUFFICES LoopKnows(next, lines, n, opts, errors, i)
  BY DEF next, line
<1>6. /\ IsSeq(next.errors)
      /\ next = [errors |-> next.errors, rows |-> next.rows, validated |-> next.validated,
                 ids |-> next.ids, eof |-> next.eof]
  <2>1. PICK e, r, v, s, b : acc = [errors |-> e, rows |-> r, validated |-> v, ids |-> s, eof |-> b]
    BY <1>3
  <2> QED BY <1>2, <1>3, <1>4, <1>5, <2>1
<1>7. CASE acc.errors # <<>>
  <2>1. next.errors # <<>>
    <3>1. PICK e, r, v, s, b : acc = [errors |-> e, rows |-> r, validated |-> v, ids |-> s, eof |-> b]
      BY <1>3
    <3> QED BY <1>2, <1>3, <1>4, <1>5, <1>7, <3>1
  <2>2. ~ (errors = <<>> /\ GoodUpTo(lines, n, opts, i))
    <3>1. GoodUpTo(lines, n, opts, i) => GoodUpTo(lines, n, opts, i - 1)
      <4>1. HAVE GoodUpTo(lines, n, opts, i)
      <4>2. \A j \in 1 .. i - 1 : j \in 1 .. i
        BY <1>1
      <4>3. i - 1 <= n /\ i - 1 <= opts.maxRows /\ (i <= opts.maxTracked => i - 1 <= opts.maxTracked)
        BY <1>1, <4>1 DEF GoodUpTo
      <4> QED
        BY <4>1, <4>2, <4>3 DEF GoodUpTo
    <3> QED BY <1>7, <3>1 DEF LoopKnows
  <2> QED BY <1>6, <2>1, <2>2 DEF LoopKnows
<1>8. CASE acc.errors = <<>>
  <2>1. /\ errors = <<>> /\ GoodUpTo(lines, n, opts, i - 1)
        /\ acc.rows = i - 1 /\ acc.validated = i - 1 /\ acc.eof
        /\ acc.ids = IF opts.duplicates THEN {} ELSE IdsUpTo(lines, i - 1)
    BY <1>8 DEF LoopKnows
  <2> DEFINE fresh == opts.duplicates \/ (line.dbId \notin acc.ids
                                          /\ ~ Cardinality(acc.ids) + 1 > opts.maxTracked)
             fine == /\ i <= opts.maxRows /\ i <= n /\ ~ line.long /\ line.json
                     /\ line.rowId = i - 1 /\ line.uuid /\ fresh
  <2>2. GoodUpTo(lines, n, opts, i) <=> fine
    <3>1. \A j \in 1 .. i : j \in 1 .. i - 1 \/ j = i
      BY <1>1
    <3>2. i \in 1 .. i /\ \A j \in 1 .. i - 1 : j \in 1 .. i /\ j # i
      BY <1>1
    <3>3. ASSUME ~ opts.duplicates
          PROVE  fresh <=> /\ i <= opts.maxTracked
                           /\ \A j, k \in 1 .. i : lines[j].dbId = lines[k].dbId => j = k
      <4>1. acc.ids = IdsUpTo(lines, i - 1)
            /\ \A j, k \in 1 .. i - 1 : lines[j].dbId = lines[k].dbId => j = k
        BY <2>1, <3>3 DEF GoodUpTo
      <4>2. Cardinality(acc.ids) = i - 1
        BY <1>1, <4>1, DistinctIds
      <4>3. line.dbId \notin acc.ids <=> \A j \in 1 .. i - 1 : lines[j].dbId # lines[i].dbId
        BY <4>1 DEF IdsUpTo, line
      <4>4. (\A j \in 1 .. i - 1 : lines[j].dbId # lines[i].dbId) <=>
              \A j, k \in 1 .. i : lines[j].dbId = lines[k].dbId => j = k
        BY <3>1, <3>2, <4>1
      <4>5. ~ Cardinality(acc.ids) + 1 > opts.maxTracked <=> i <= opts.maxTracked
        BY <1>1, <4>2
      <4> QED BY <3>3, <4>3, <4>4, <4>5
    <3>4. (\A j \in 1 .. i : /\ lines[j].json /\ lines[j].uuid /\ ~ lines[j].long
                             /\ lines[j].rowId = j - 1)
          <=> line.json /\ line.uuid /\ ~ line.long /\ line.rowId = i - 1
      <4>1. \A j \in 1 .. i - 1 : /\ lines[j].json /\ lines[j].uuid /\ ~ lines[j].long
                                  /\ lines[j].rowId = j - 1
        BY <2>1 DEF GoodUpTo
      <4> QED BY <3>1, <3>2, <4>1 DEF line
    <3>5. opts.duplicates => fresh
      OBVIOUS
    <3> HIDE DEF fresh
    <3> QED BY <3>3, <3>4, <3>5 DEF GoodUpTo
  <2>3. next.errors = <<>> <=> fine
    <3>1. acc = [errors |-> <<>>, rows |-> i - 1, validated |-> i - 1, ids |-> acc.ids,
                 eof |-> TRUE]
      BY <1>3, <1>8, <2>1
    <3>2. named = <<>> <=> line.rowId = i - 1 /\ line.uuid
      BY <1>4, <1>8, <2>1
    <3>3. (acc.rows + 1 > opts.maxRows <=> ~ i <= opts.maxRows) /\ (acc.rows + 1 > n <=> ~ i <= n)
      BY <1>1, <2>1
    <3>4. \A e, code : IsSeq(e) => Bounded(e, code) # <<>>
      BY <1>2
    <3>5. IsSeq(acc.errors) /\ IsSeq(named)
      BY <1>3, <1>4
    <3>6. DOMAIN valid = {"errors", "rows", "validated", "ids", "eof"} /\ valid.errors = named
      <4>1. DOMAIN acc = {"errors", "rows", "validated", "ids", "eof"}
        BY <1>3
      <4>2. DOMAIN valid = DOMAIN acc
        OBVIOUS
      <4>3. valid.errors = named
        BY <4>1
      <4> QED BY <4>1, <4>2, <4>3
    <3>7. \A code : stop(code).errors # <<>>
      BY <3>1, <3>4, <3>5
    <3>8. [acc EXCEPT !.rows = @ + 1, !.errors = Bounded(@, "json")].errors # <<>>
      BY <3>1, <3>4, <3>5
    <3>9. /\ valid.errors = named
          /\ [valid EXCEPT !.errors = Bounded(@, "duplicate")].errors # <<>>
          /\ [valid EXCEPT !.errors = Bounded(@, "tracking"), !.eof = FALSE].errors # <<>>
          /\ [valid EXCEPT !.ids = @ \cup {line.dbId}].errors = named
      <4> HIDE DEF valid
      <4> QED BY <3>4, <3>5, <3>6
    <3>10. acc.eof
      BY <2>1
    <3> HIDE DEF stop, valid
    <3>11. CASE ~ (i <= opts.maxRows /\ i <= n /\ ~ line.long /\ line.json)
      BY <1>5, <3>3, <3>7, <3>8, <3>10, <3>11
    <3>12. CASE i <= opts.maxRows /\ i <= n /\ ~ line.long /\ line.json
      <4>1. next = IF opts.duplicates THEN valid
             ELSE IF line.dbId \in acc.ids
             THEN [valid EXCEPT !.errors = Bounded(@, "duplicate")]
             ELSE IF Cardinality(acc.ids) + 1 > opts.maxTracked
             THEN [valid EXCEPT !.errors = Bounded(@, "tracking"), !.eof = FALSE]
             ELSE [valid EXCEPT !.ids = @ \cup {line.dbId}]
        BY <1>5, <3>3, <3>10, <3>12
      <4> QED BY <3>2, <3>9, <3>12, <4>1
    <3> QED BY <3>11, <3>12
  <2>4. ASSUME fine
        PROVE  /\ next.rows = i /\ next.validated = i /\ next.eof
               /\ next.ids = IF opts.duplicates THEN {} ELSE IdsUpTo(lines, i)
    <3>1. acc = [errors |-> <<>>, rows |-> i - 1, validated |-> i - 1, ids |-> acc.ids,
                 eof |-> TRUE]
      BY <1>3, <1>8, <2>1
    <3>2. ~ acc.rows + 1 > opts.maxRows /\ ~ acc.rows + 1 > n
      BY <1>1, <2>1, <2>4
    <3>3. next = IF opts.duplicates THEN valid ELSE [valid EXCEPT !.ids = @ \cup {line.dbId}]
      <4> HIDE DEF valid, stop
      <4> QED BY <1>5, <2>1, <2>4, <3>2
    <3>4. i - 1 + 1 = i
      BY <1>1
    <3>5. /\ next.rows = i /\ next.validated = i /\ next.eof
          /\ next.ids = IF opts.duplicates THEN acc.ids ELSE acc.ids \cup {line.dbId}
      BY <3>1, <3>3, <3>4
    <3>6. IdsUpTo(lines, i) = IdsUpTo(lines, i - 1) \cup {line.dbId}
      <4>1. \A j \in 1 .. i : j \in 1 .. i - 1 \/ j = i
        BY <1>1
      <4>2. i \in 1 .. i /\ \A j \in 1 .. i - 1 : j \in 1 .. i
        BY <1>1
      <4> QED BY <4>1, <4>2 DEF IdsUpTo, line
    <3> QED BY <2>1, <3>5, <3>6
  <2> HIDE DEF fine
  <2> QED BY <1>6, <2>1, <2>2, <2>3, <2>4 DEF LoopKnows
<1> QED BY <1>7, <1>8

\* The whole loop.
LEMMA LoopResult ==
  ASSUME NEW lines \in Seq(Line), NEW n \in Nat, NEW opts \in Option,
         NEW errors, IsSeq(errors)
  PROVE  LoopKnows(ValidateJsonlRows(lines, n, opts, errors), lines, n, opts, errors, Len(lines))
<1> DEFINE G(f, k) == [i \in 0 .. k |-> IF i = 0 THEN NoLines(errors)
                                        ELSE NextLine(f[i - 1], lines[i], n, opts)]
           last == Len(lines)
           run == CHOOSE f : f = G(f, last)
           Missing == {k \in Nat : ~ \E f : f = G(f, k)}
<1>1. last \in Nat
  BY LenProperties
<1>2. ValidateJsonlRows(lines, n, opts, errors) = run[last]
  BY DEF ValidateJsonlRows
<1>3. Missing = {}
  <2>1. SUFFICES ASSUME Missing # {} PROVE FALSE
    OBVIOUS
  <2>2. PICK m \in Missing : \A k \in Missing : m <= k
    <3>1. Missing \in SUBSET Nat
      OBVIOUS
    <3> HIDE DEF Missing
    <3> QED BY <2>1, <3>1, LeastNumber
  <2>3. m \in Nat /\ ~ \E f : f = G(f, m)
    OBVIOUS
  <2>4. CASE m = 0
    <3> DEFINE f0 == [i \in 0 .. 0 |-> NoLines(errors)]
    <3>1. f0 = G(f0, 0)
      OBVIOUS
    <3> QED BY <2>3, <2>4, <3>1
  <2>5. CASE m # 0
    <3>1. m - 1 \in Nat /\ ~ m <= m - 1
      BY <2>3, <2>5
    <3>2. m - 1 \notin Missing
      <4> HIDE DEF Missing
      <4> QED BY <2>2, <3>1
    <3>3. PICK f : f = G(f, m - 1)
      BY <3>1, <3>2
    <3> DEFINE g == [i \in 0 .. m |-> IF i = m THEN NextLine(f[m - 1], lines[m], n, opts)
                                      ELSE f[i]]
    <3>4. \A i \in 0 .. m - 1 :
            f[i] = IF i = 0 THEN NoLines(errors) ELSE NextLine(f[i - 1], lines[i], n, opts)
      BY <3>3
    <3>5. /\ g[m] = NextLine(f[m - 1], lines[m], n, opts)
          /\ \A i \in 0 .. m - 1 : g[i] = f[i]
      <4>1. m \in 0 .. m /\ \A i \in 0 .. m - 1 : i \in 0 .. m /\ i # m
        BY <2>3
      <4> QED BY <4>1
    <3>6. \A i \in 0 .. m : i = m \/ (i \in 0 .. m - 1 /\ (i # 0 => i - 1 \in 0 .. m - 1))
      BY <2>3
    <3>7. m - 1 \in 0 .. m - 1
      BY <3>1
    <3>8. g = [i \in 0 .. m |-> g[i]]
      OBVIOUS
    <3> HIDE DEF g
    <3>9. \A i \in 0 .. m :
            g[i] = IF i = 0 THEN NoLines(errors) ELSE NextLine(g[i - 1], lines[i], n, opts)
      BY <2>5, <3>4, <3>5, <3>6, <3>7
    <3>10. g = G(g, m)
      BY <3>8, <3>9
    <3> QED BY <2>3, <3>10
  <2> QED BY <2>4, <2>5
<1>4. run = G(run, last)
  <2>1. \E f : f = G(f, last)
    BY <1>1, <1>3
  <2> HIDE DEF G
  <2> QED BY <2>1
<1> HIDE DEF run, Missing
<1>5. /\ run[0] = NoLines(errors)
      /\ \A i \in 1 .. last : run[i] = NextLine(run[i - 1], lines[i], n, opts)
  BY <1>1, <1>4
<1> DEFINE Known(i) == LoopKnows(run[i], lines, n, opts, errors, i)
           Wrong == {i \in 0 .. last : ~ Known(i)}
<1>6. Wrong = {}
  <2>1. SUFFICES ASSUME Wrong # {} PROVE FALSE
    OBVIOUS
  <2>2. PICK m \in Wrong : \A k \in Wrong : m <= k
    <3>1. Wrong \in SUBSET Nat
      BY <1>1
    <3> HIDE DEF Wrong
    <3> QED BY <2>1, <3>1, LeastNumber
  <2>3. m \in 0 .. last /\ ~ Known(m)
    OBVIOUS
  <2>4. m # 0
    <3>1. GoodUpTo(lines, n, opts, 0)
      <4>1. opts.maxRows \in Nat /\ opts.maxTracked \in Nat
        BY DEF Option
      <4> QED BY <4>1 DEF GoodUpTo
    <3>2. IdsUpTo(lines, 0) = {}
      BY DEF IdsUpTo
    <3>3. Known(0)
      BY <1>5, <3>1, <3>2 DEF LoopKnows, NoLines
    <3> QED BY <2>3, <3>3
  <2>5. m - 1 \in 0 .. last /\ ~ m <= m - 1 /\ m \in 1 .. last
    BY <1>1, <2>3, <2>4
  <2>6. Known(m - 1)
    <3>1. m - 1 \notin Wrong
      <4> HIDE DEF Wrong
      <4> QED BY <2>2, <2>5
    <3> QED BY <2>5, <3>1
  <2>7. run[m] = NextLine(run[m - 1], lines[m], n, opts)
    BY <1>5, <2>5
  <2>8. Known(m)
    BY <2>5, <2>6, <2>7, LineStep
  <2> QED BY <2>3, <2>8
<1> QED BY <1>1, <1>2, <1>6

\* All that is said of the rows, once the loop is over.
RowErrors(checked, lines, n, declared) ==
  checked.errors
    \o Issue(checked.eof /\ lines # declared, "row_sha256")
    \o Issue(checked.rows # n /\ ~ \E i \in DOMAIN checked.errors : checked.errors[i] = "row_count",
             "row_count")

\* The rows are accepted exactly if they are the declared ones and a good map.
LEMMA RowsJudged ==
  ASSUME NEW lines \in Seq(Line), NEW n \in Nat, NEW opts \in Option,
         NEW errors, IsSeq(errors), NEW checked, NEW declared,
         checked = ValidateJsonlRows(lines, n, opts, errors)
  PROVE  /\ IsSeq(RowErrors(checked, lines, n, declared))
         /\ RowErrors(checked, lines, n, declared) = <<>> <=>
              errors = <<>> /\ lines = declared /\ GoodMap(lines, n, opts)
         /\ RowErrors(checked, lines, n, declared) = <<>> => checked.eof
<1> DEFINE last == Len(lines)
           all == RowErrors(checked, lines, n, declared)
           counted == \E i \in DOMAIN checked.errors : checked.errors[i] = "row_count"
           a == Issue(checked.eof /\ lines # declared, "row_sha256")
           b == Issue(checked.rows # n /\ ~ counted, "row_count")
<1>1. last \in Nat /\ DOMAIN lines = 1 .. last
  BY LenProperties
<1>2. LoopKnows(checked, lines, n, opts, errors, last)
  BY LoopResult
<1>3. /\ IsSeq(a) /\ (a = <<>> <=> ~ (checked.eof /\ lines # declared))
      /\ IsSeq(b) /\ (b = <<>> <=> ~ (checked.rows # n /\ ~ counted))
  BY IssueList
<1>4. IsSeq(checked.errors)
  BY <1>2 DEF LoopKnows
<1>5. all = (checked.errors \o a) \o b
  BY DEF RowErrors
<1>7. checked.errors = <<>> => ~ counted
  OBVIOUS
<1> HIDE DEF a, b, all, counted
<1>6. IsSeq(all) /\ (all = <<>> <=> checked.errors = <<>> /\ a = <<>> /\ b = <<>>)
  <2>1. /\ IsSeq(checked.errors \o a)
        /\ checked.errors \o a = <<>> <=> checked.errors = <<>> /\ a = <<>>
    BY <1>3, <1>4, Joined
  <2> DEFINE head == checked.errors \o a
  <2> HIDE DEF head
  <2>2. IsSeq(head \o b) /\ (head \o b = <<>> <=> head = <<>> /\ b = <<>>)
    BY <1>3, <2>1, Joined DEF head
  <2> QED BY <1>5, <2>1, <2>2 DEF head
<1>8. checked.errors = <<>> => checked.eof /\ checked.rows = last
  BY <1>2 DEF LoopKnows
<1>9. all = <<>> <=> checked.errors = <<>> /\ lines = declared /\ last = n
  BY <1>3, <1>6, <1>7, <1>8
<1>10. checked.errors = <<>> <=> errors = <<>> /\ GoodUpTo(lines, n, opts, last)
  BY <1>2 DEF LoopKnows
<1>11. last = n => (GoodUpTo(lines, n, opts, last) <=> GoodMap(lines, n, opts))
  <2>1. HAVE last = n
  <2>2. {lines[j].dbId : j \in DOMAIN lines} = IdsUpTo(lines, last)
    BY <1>1 DEF IdsUpTo
  <2>3. Cardinality(IdsUpTo(lines, last)) = last <=>
          \A j, k \in 1 .. last : lines[j].dbId = lines[k].dbId => j = k
    BY <1>1, DistinctIds
  <2> DEFINE rows == \A j \in 1 .. last : /\ lines[j].json /\ lines[j].uuid /\ ~ lines[j].long
                                          /\ lines[j].rowId = j - 1
             distinct == \A j, k \in 1 .. last : lines[j].dbId = lines[k].dbId => j = k
  <2>4. GoodUpTo(lines, n, opts, last) <=>
          last <= n /\ last <= opts.maxRows /\ rows
            /\ (opts.duplicates \/ (last <= opts.maxTracked /\ distinct))
    BY DEF GoodUpTo
  <2>5. GoodMap(lines, n, opts) <=>
          last = n /\ n <= opts.maxRows /\ rows
            /\ (opts.duplicates \/ (Cardinality(IdsUpTo(lines, last)) = last
                                     /\ last <= opts.maxTracked))
    <3>1. rows <=> \A i \in DOMAIN lines :
                     lines[i].json /\ lines[i].uuid /\ ~ lines[i].long /\ lines[i].rowId = i - 1
      BY <1>1
    <3> DEFINE ids == {lines[i].dbId : i \in DOMAIN lines}
    <3> HIDE DEF rows, ids
    <3>2. GoodMap(lines, n, opts) <=>
          last = n /\ n <= opts.maxRows /\ rows
            /\ (opts.duplicates \/ (Cardinality(ids) = last /\ last <= opts.maxTracked))
      BY <3>1 DEF GoodMap, ids
    <3> QED BY <2>2, <3>2 DEF ids
  <2> HIDE DEF rows, distinct, last
  <2>6. last <= n
    BY <1>1, <2>1
  <2> QED BY <2>1, <2>3, <2>4, <2>5, <2>6 DEF distinct
<1>12. GoodMap(lines, n, opts) => last = n
  BY DEF GoodMap
<1> QED BY <1>6, <1>8, <1>9, <1>10, <1>11, <1>12 DEF all

-----------------------------------------------------------------------------
(* The inductive invariant.                                                 *)

Building == {"create", "create_hash", "create_rows", "create_aux"}
Decided  == {"refused", "planned", "incomplete"}

\* The steps of a verification, from the last one back.
AfterCalibration == {"attestations", "finish"}
AfterDistortion  == {"calibration", "hash_calibration"} \cup AfterCalibration
AfterRows        == {"distortion", "hash_distortion"} \cup AfterDistortion
AfterAux         == {"resolve_rows", "read_rows"} \cup AfterRows
AfterProbe       == {"aux", "hash_aux"} \cup AfterAux
AfterHash        == {"probe_artifact"} \cup AfterProbe
AfterResolve     == {"hash_artifact"} \cup AfterHash
Judging          == {"resolve_artifact"} \cup AfterResolve

\* What is known of every manifest, whoever made it.
Known(d) ==
  /\ d.meta \in Metadata /\ d.meta.covered /\ d.rowCount \in Nat
  /\ DOMAIN d.aux \subseteq Names /\ IsSeq(d.attestations)
  /\ Given(d.distortion) =>
       \A f \in {"lower", "upper", "estimated"} : d.distortion.bounds[f] \in Maybe(Int)

\* The variables have their shapes, and creation has seen what an index can be.
Setup ==
  /\ index \in Maybe(Indexes) /\ rowMap \in Maybe(RowMaps)
  /\ aux \in [Names -> Maybe(AuxFiles)] /\ profiles \in [Slots -> Maybe(AuxFiles)]
  /\ options \in Option /\ turn \in Nat \ {0} /\ raised \in BOOLEAN
  /\ pc \in Building \cup {"load", "verify", "failed"} \cup Judging \cup Decided
  /\ DOMAIN report = {"errors", "meta", "digest", "entries", "rows", "ok"}
  /\ DOMAIN paths = {"artifact", "rows", "aux"}
  /\ DOMAIN read = {"artifact", "rows", "aux", "profiles"}
  /\ DOMAIN read.aux = Names /\ DOMAIN read.profiles = Slots
  /\ pc \notin Building \cup {"failed"} => Known(doc)

Seen ==
  pc \in Building =>
    /\ DOMAIN seen = {"meta", "size", "id", "lines", "aux", "path", "rowPath"}
    /\ pc # "create" => seen.meta \in Metadata
    /\ pc \notin {"create", "create_hash"} => seen.meta.covered
    /\ IsSeq(seen.aux) /\ \A i \in 1 .. Len(seen.aux) : seen.aux[i].name \in Names

\* The report has errors exactly if a check has failed, and the verdict keeps it.
Ledger ==
  /\ pc \in Judging => IsSeq(report.errors) /\ (raised <=> report.errors # <<>>)
  /\ pc \in Decided =>
       /\ report.ok = ~ raised
       /\ Len(report.errors) <= IF options.maxIssues = 0 THEN 1 ELSE options.maxIssues

\* There is an entry, and a place for its path, for each declared artifact that
\* was processed.
DeclaredBefore(d, t) == {n \in DOMAIN d.aux : \E j \in DOMAIN Aux : j < t /\ Aux[j] = n}
NamesOf(entries)     == {entries[i].name : i \in DOMAIN entries}

Entries ==
  /\ pc \in Judging =>
       /\ IsSeq(report.entries) /\ IsSeq(paths.aux) /\ Len(paths.aux) = Len(report.entries)
       /\ pc \notin AfterProbe => turn = 1
       /\ pc \notin AfterAux => NamesOf(report.entries) = DeclaredBefore(doc, turn)
  /\ pc = "hash_aux" => turn \in DOMAIN Aux /\ Aux[turn] \in DOMAIN doc.aux

\* What each part of a verification leaves behind if nothing has failed.
ShapeFits(d, opts) ==
  /\ d.meta.vectors = d.rowCount /\ d.meta.dim = d.embedding.dim
  /\ Cardinality(DOMAIN d.aux) <= opts.maxAux
  /\ \A n \in DOMAIN d.aux : d.aux[n].path.segs # <<>>

EntryFits(entry, path, d, r) ==
  /\ entry.name \in DOMAIN d.aux
  /\ \/ entry.state = "optional_absent" /\ ~ d.aux[entry.name].required
     \/ /\ entry.state = "verified" /\ path = entry.name
        /\ r.aux[entry.name] = d.aux[entry.name].id

RowsFit(d, opts, resolved, r, lines) ==
  d.lines # Absent =>
    resolved /\ r.rows = d.lines /\ lines = d.lines /\ GoodMap(d.lines, d.rowCount, opts)

Matches(r, slot, profile) ==
  /\ r.profiles[slot] # Absent
  /\ r.profiles[slot].id = profile.id /\ r.profiles[slot].size = profile.size

DistortionSays(d) ==
  LET x == d.distortion
  IN  /\ x.encoder.model = d.embedding.model /\ x.encoder.dim = d.embedding.dim
      /\ Given(x.bounds.lower) /\ Given(x.bounds.upper) =>
           /\ 0 < x.bounds.lower /\ x.bounds.lower <= x.bounds.upper
           /\ Given(x.bounds.estimated) => x.bounds.estimated >= Unit
      /\ ~ Given(x.profile) => x.evidence = "caller_asserted"

DistortionFits(d, r) ==
  Given(d.distortion) =>
    /\ DistortionSays(d)
    /\ Given(d.distortion.profile) => Matches(r, "distortion", d.distortion.profile)

LinkFits(d) ==
  Given(d.distortion) /\ Given(d.distortion.calibration) =>
    Given(d.calibration) /\ d.calibration.id = d.distortion.calibration

CalibrationSays(d) ==
  LET c == d.calibration
  IN  /\ c.encoder.model = d.embedding.model /\ c.ord.dim = d.meta.dim
      /\ c.ord.kind \in {"top_k", "bucket"} => c.ord.arg = d.meta.param
      /\ IF Uniform(c) THEN d.meta.kind = "bitmap" /\ ~ Given(c.profile)
         ELSE /\ Given(c.profile) /\ c.profile.dim = d.meta.dim
              /\ c.profile.format = "raw_f32_le" /\ c.profile.shape # <<>> =>
                   c.profile.size = Cells(c, d.meta) * 4

CalibrationFits(d, r) ==
  Given(d.calibration) =>
    /\ CalibrationSays(d)
    /\ ~ Uniform(d.calibration) => Matches(r, "calibration", d.calibration.profile)

AttestationFits(d) ==
  d.attestations # <<>> => \E x \in Range(d.attestations) : d.id \in x.subjects

Passed ==
  ~ raised =>
    /\ pc \in Judging => ShapeFits(doc, options)
    /\ pc \in AfterResolve => paths.artifact
    /\ pc \in AfterHash => read.artifact = doc.id /\ report.digest = doc.id
    /\ pc \in AfterProbe => report.meta = doc.meta /\ report.meta # Absent
    /\ pc \in Judging => \A i \in 1 .. Len(report.entries) :
                           EntryFits(report.entries[i], paths.aux[i], doc, read)
    /\ pc \in AfterAux => NamesOf(report.entries) = DOMAIN doc.aux
    /\ pc = "read_rows" => doc.lines # Absent /\ paths.rows
    /\ pc \in AfterRows => RowsFit(doc, options, paths.rows, read, report.rows.lines)
    /\ pc = "hash_distortion" => /\ Given(doc.distortion) /\ DistortionSays(doc)
                                 /\ Given(doc.distortion.profile)
    /\ pc \in AfterDistortion => DistortionFits(doc, read)
    /\ pc \in AfterCalibration \cup {"hash_calibration"} => LinkFits(doc)
    /\ pc = "hash_calibration" => Given(doc.calibration) /\ CalibrationSays(doc)
    /\ pc \in AfterCalibration => CalibrationFits(doc, read)
    /\ pc = "finish" => AttestationFits(doc)

\* A plan stays what it was until the next verification begins.
Planned ==
  /\ PlanSound /\ pc # "incomplete"
  /\ plan # Absent => pc \in {"planned", "verify"}

IInv == Setup /\ Seen /\ Ledger /\ Entries /\ Passed /\ Planned

-----------------------------------------------------------------------------
(* What the steps of a verification have in common.                         *)

\* A step within a verification changes neither the files nor the manifest.
LEMMA Frame ==
  ASSUME IInv, UNCHANGED fixed, pc \in Judging, pc' \in Judging, plan' = plan,
         turn' \in Nat \ {0}, raised' \in BOOLEAN, DOMAIN report' = DOMAIN report,
         DOMAIN paths' = DOMAIN paths, DOMAIN read' = DOMAIN read,
         DOMAIN read'.aux = DOMAIN read.aux, DOMAIN read'.profiles = DOMAIN read.profiles
  PROVE  /\ Setup' /\ Seen' /\ Planned'
         /\ doc' = doc /\ options' = options
<1>1. /\ index' = index /\ rowMap' = rowMap /\ aux' = aux /\ profiles' = profiles
      /\ options' = options /\ doc' = doc
  BY DEF fixed, files, creating
<1>2. pc \notin Building \cup {"failed"} /\ pc' \notin Building \cup {"failed", "incomplete"}
  BY DEF Building, Judging, AfterResolve, AfterHash, AfterProbe, AfterAux, AfterRows,
         AfterDistortion, AfterCalibration
<1>3. Setup'
  BY <1>1, <1>2 DEF IInv, Setup
<1>4. Seen'
  BY <1>2 DEF Seen
<1>5. plan' = Absent
  <2>1. pc \notin {"planned", "verify"}
    BY DEF Judging, AfterResolve, AfterHash, AfterProbe, AfterAux, AfterRows,
           AfterDistortion, AfterCalibration
  <2> QED BY <2>1 DEF IInv, Planned
<1>6. Planned'
  BY <1>2, <1>5 DEF Planned, PlanSound
<1> QED BY <1>1, <1>3, <1>4, <1>6

\* Issues that are reported are kept, and none of them is raised in silence.
LEMMA Told ==
  ASSUME IInv, pc \in Judging, pc' \in Judging, NEW issues, IsSeq(issues),
         report'.errors = report.errors \o issues, raised' = (raised \/ issues # <<>>)
  PROVE  /\ Ledger' /\ raised' \in BOOLEAN
         /\ ~ raised' => ~ raised /\ issues = <<>>
<1>1. IsSeq(report.errors) /\ (raised <=> report.errors # <<>>) /\ raised \in BOOLEAN
  BY DEF IInv, Ledger, Setup
<1>2. /\ IsSeq(report.errors \o issues)
      /\ report.errors \o issues = <<>> <=> report.errors = <<>> /\ issues = <<>>
  BY <1>1, Joined
<1>3. pc' \notin Decided
  BY DEF Decided, Judging, AfterResolve, AfterHash, AfterProbe, AfterAux, AfterRows,
         AfterDistortion, AfterCalibration
<1> QED BY <1>1, <1>2, <1>3 DEF Ledger

\* The other fields of a report that is told of issues.
LEMMA ReportFields ==
  ASSUME IInv, NEW issues, Report(issues)
  PROVE  /\ DOMAIN report' = DOMAIN report /\ report'.errors = report.errors \o issues
         /\ report'.meta = report.meta /\ report'.digest = report.digest
         /\ report'.entries = report.entries /\ report'.rows = report.rows
         /\ raised' = (raised \/ issues # <<>>)
<1>1. DOMAIN report = {"errors", "meta", "digest", "entries", "rows", "ok"}
  BY DEF IInv, Setup
<1> DEFINE errors == report.errors \o issues
<1>2. report' = [report EXCEPT !.errors = errors] /\ raised' = (raised \/ issues # <<>>)
  BY DEF Report
<1> HIDE DEF errors
<1> QED BY <1>1, <1>2 DEF errors

LEMMA StepResolveArtifact ==
  ASSUME IInv, ResolveArtifact
  PROVE  IInv'
<1> DEFINE outcome == Resolve(doc.path, index, Absent, options)
           issues == Issue(outcome # "ok", outcome)
<1>1. /\ pc = "resolve_artifact" /\ Report(issues)
      /\ paths' = [paths EXCEPT !.artifact = outcome = "ok"]
      /\ pc' = IF outcome = "ok" THEN "hash_artifact" ELSE "aux"
      /\ UNCHANGED fixed /\ turn' = turn /\ plan' = plan /\ read' = read
  BY DEF ResolveArtifact
<1>2. IsSeq(issues) /\ (issues = <<>> <=> outcome = "ok")
  BY IssueList
<1> HIDE DEF issues, outcome
<1>3. pc \in Judging /\ pc' \in Judging /\ pc \notin AfterProbe
  BY <1>1 DEF Judging, AfterResolve, AfterHash, AfterProbe, AfterAux, AfterRows,
              AfterDistortion, AfterCalibration
<1>4. /\ DOMAIN paths' = DOMAIN paths /\ paths'.artifact = (outcome = "ok")
      /\ paths'.aux = paths.aux /\ paths'.rows = paths.rows
  <2>1. DOMAIN paths = {"artifact", "rows", "aux"}
    BY DEF IInv, Setup
  <2> QED BY <1>1, <2>1
<1>5. /\ DOMAIN report' = DOMAIN report /\ report'.errors = report.errors \o issues
      /\ report'.meta = report.meta /\ report'.digest = report.digest
      /\ report'.entries = report.entries /\ report'.rows = report.rows
      /\ raised' = (raised \/ issues # <<>>)
  BY <1>1, ReportFields
<1>6. /\ Ledger' /\ raised' \in BOOLEAN
      /\ ~ raised' => ~ raised /\ issues = <<>>
  BY <1>2, <1>3, <1>5, Told
<1>7. /\ Setup' /\ Seen' /\ Planned' /\ doc' = doc /\ options' = options
  <2>1. turn' \in Nat \ {0}
    BY <1>1 DEF IInv, Setup
  <2> QED BY <1>1, <1>3, <1>4, <1>5, <1>6, <2>1, Frame
<1>8. Entries'
  BY <1>1, <1>3, <1>4, <1>5, <1>7
     DEF IInv, Entries, Judging, AfterResolve, AfterHash, AfterProbe, AfterAux, AfterRows,
         AfterDistortion, AfterCalibration
<1>9. Passed'
  <2>1. SUFFICES ASSUME ~ raised' PROVE Passed'
    BY DEF Passed
  <2>2. outcome = "ok" /\ pc' = "hash_artifact" /\ ~ raised
    BY <1>1, <1>2, <1>6, <2>1
  <2>3. /\ ShapeFits(doc, options)
        /\ \A i \in 1 .. Len(report.entries) :
             EntryFits(report.entries[i], paths.aux[i], doc, read)
    BY <1>3, <2>2 DEF IInv, Passed
  <2> QED BY <1>1, <1>4, <1>5, <1>7, <2>2, <2>3
          DEF Passed, Judging, AfterResolve, AfterHash, AfterProbe, AfterAux, AfterRows,
              AfterDistortion, AfterCalibration
<1> QED BY <1>6, <1>7, <1>8, <1>9 DEF IInv

\* Two records of metadata that agree in every field are one.
LEMMA SameMetadata ==
  ASSUME NEW a \in Metadata, NEW b \in Metadata, a.covered, b.covered,
         a.vectors = b.vectors, a.kind = b.kind, a.dim = b.dim, a.param = b.param
  PROVE  a = b
<1>1. a = [covered |-> a.covered, vectors |-> a.vectors, kind |-> a.kind, dim |-> a.dim,
           param |-> a.param]
  BY DEF Metadata
<1>2. b = [covered |-> b.covered, vectors |-> b.vectors, kind |-> b.kind, dim |-> b.dim,
           param |-> b.param]
  BY DEF Metadata
<1>3. a.covered = b.covered
  BY DEF Metadata
<1> QED BY <1>1, <1>2, <1>3

LEMMA StepHashArtifact ==
  ASSUME IInv, HashArtifact
  PROVE  IInv'
<1> DEFINE issues == IF Hashed(index, doc.size) THEN Mismatches(index, doc)
                     ELSE <<"artifact_hash">>
<1>1. /\ pc = "hash_artifact" /\ pc' = "probe_artifact"
      /\ UNCHANGED fixed /\ turn' = turn /\ plan' = plan /\ paths' = paths
  BY DEF HashArtifact
<1>2. /\ IsSeq(issues)
      /\ issues = <<>> => Hashed(index, doc.size) /\ index.id = doc.id
  BY MismatchesNone, Short
<1>3. pc \in Judging /\ pc' \in Judging /\ pc' \notin AfterProbe
  BY <1>1 DEF Judging, AfterResolve, AfterHash, AfterProbe, AfterAux, AfterRows,
              AfterDistortion, AfterCalibration
<1>4. /\ DOMAIN report' = DOMAIN report /\ report'.errors = report.errors \o issues
      /\ report'.meta = report.meta /\ report'.entries = report.entries
      /\ report'.rows = report.rows /\ raised' = (raised \/ issues # <<>>)
      /\ DOMAIN read' = DOMAIN read /\ read'.aux = read.aux /\ read'.profiles = read.profiles
      /\ Hashed(index, doc.size) => report'.digest = index.id /\ read'.artifact = index.id
  <2>1. DOMAIN report = {"errors", "meta", "digest", "entries", "rows", "ok"}
        /\ DOMAIN read = {"artifact", "rows", "aux", "profiles"}
    BY DEF IInv, Setup
  <2>2. CASE Hashed(index, doc.size)
    <3> DEFINE all == report.errors \o Mismatches(index, doc)
    <3>1. /\ report' = [report EXCEPT !.errors = all, !.digest = index.id]
          /\ raised' = (raised \/ issues # <<>>)
          /\ read' = [read EXCEPT !.artifact = index.id]
      BY <2>2 DEF HashArtifact
    <3>2. all = report.errors \o issues
      BY <2>2
    <3> HIDE DEF all, issues
    <3> QED BY <2>1, <3>1, <3>2
  <2>3. CASE ~ Hashed(index, doc.size)
    <3>1. Report(issues) /\ read' = read
      BY <2>3 DEF HashArtifact
    <3> HIDE DEF issues
    <3> QED BY <2>3, <3>1, ReportFields
  <2> QED BY <2>2, <2>3
<1> HIDE DEF issues
<1>5. /\ Ledger' /\ raised' \in BOOLEAN
      /\ ~ raised' => ~ raised /\ issues = <<>>
  BY <1>2, <1>3, <1>4, Told
<1>6. /\ Setup' /\ Seen' /\ Planned' /\ doc' = doc /\ options' = options
  <2>1. turn' \in Nat \ {0}
    BY <1>1 DEF IInv, Setup
  <2> QED BY <1>1, <1>3, <1>4, <1>5, <2>1, Frame
<1>7. Entries'
  BY <1>1, <1>3, <1>4, <1>6
     DEF IInv, Entries, Judging, AfterResolve, AfterHash, AfterProbe, AfterAux, AfterRows,
         AfterDistortion, AfterCalibration
<1>8. Passed'
  <2>1. SUFFICES ASSUME ~ raised' PROVE Passed'
    BY DEF Passed
  <2>2. /\ ShapeFits(doc, options) /\ paths.artifact
        /\ \A i \in 1 .. Len(report.entries) :
             EntryFits(report.entries[i], paths.aux[i], doc, read)
    BY <1>1, <1>5, <2>1
       DEF IInv, Passed, Judging, AfterResolve
  <2>3. read'.artifact = doc.id /\ report'.digest = doc.id
    BY <1>2, <1>4, <1>5, <2>1
  <2>4. \A i \in 1 .. Len(report'.entries) :
          EntryFits(report'.entries[i], paths'.aux[i], doc, read')
    BY <1>1, <1>4, <2>2 DEF EntryFits
  <2> QED BY <1>1, <1>6, <2>2, <2>3, <2>4
          DEF Passed, Judging, AfterResolve, AfterHash, AfterProbe, AfterAux, AfterRows,
              AfterDistortion, AfterCalibration
<1> QED BY <1>5, <1>6, <1>7, <1>8 DEF IInv

LEMMA StepProbeArtifact ==
  ASSUME IInv, ProbeArtifact
  PROVE  IInv'
<1> DEFINE probed == IF index = Absent THEN Absent ELSE index.meta
           issues == ProbeIssues(probed)
           meta == IF probed = Absent THEN Absent ELSE IF probed.covered THEN probed ELSE Absent
           errors == report.errors \o issues
<1>1. /\ pc = "probe_artifact" /\ pc' = "aux"
      /\ report' = [report EXCEPT !.errors = errors, !.meta = meta]
      /\ raised' = (raised \/ issues # <<>>)
      /\ UNCHANGED fixed /\ turn' = turn /\ plan' = plan /\ paths' = paths /\ read' = read
  BY DEF ProbeArtifact
<1>2. /\ IsSeq(issues)
      /\ issues = <<>> => /\ probed # Absent /\ probed.covered
                          /\ probed.kind = doc.meta.kind /\ probed.dim = doc.meta.dim
                          /\ probed.param = doc.meta.param /\ probed.vectors = doc.meta.vectors
  BY ProbeClean
<1>3. probed = Absent \/ probed \in Metadata
  BY LoadPlanAssumption DEF IInv, Setup, Maybe
<1>4. doc.meta \in Metadata /\ doc.meta.covered
  BY <1>1 DEF IInv, Setup, Known, Building
<1>5. issues = <<>> => meta = doc.meta /\ meta # Absent
  <2> HIDE DEF probed, issues
  <2>1. ASSUME issues = <<>> PROVE probed = doc.meta
    <3>1. probed \in Metadata
      BY <1>2, <1>3, <2>1
    <3> QED BY <1>2, <1>4, <2>1, <3>1, SameMetadata
  <2> QED BY <1>2, <2>1
<1> HIDE DEF issues, probed, meta, errors
<1>6. pc \in Judging /\ pc' \in Judging
  BY <1>1 DEF Judging, AfterResolve, AfterHash, AfterProbe, AfterAux, AfterRows,
              AfterDistortion, AfterCalibration
<1>7. /\ DOMAIN report' = DOMAIN report /\ report'.errors = errors /\ report'.meta = meta
      /\ report'.digest = report.digest /\ report'.entries = report.entries
      /\ report'.rows = report.rows
  <2>1. DOMAIN report = {"errors", "meta", "digest", "entries", "rows", "ok"}
    BY DEF IInv, Setup
  <2> QED BY <1>1, <2>1
<1>8. /\ Ledger' /\ raised' \in BOOLEAN
      /\ ~ raised' => ~ raised /\ issues = <<>>
  BY <1>1, <1>2, <1>6, <1>7, Told DEF errors
<1>9. /\ Setup' /\ Seen' /\ Planned' /\ doc' = doc /\ options' = options
  <2>1. turn' \in Nat \ {0}
    BY <1>1 DEF IInv, Setup
  <2> QED BY <1>1, <1>6, <1>7, <1>8, <2>1, Frame
<1>10. Entries'
  BY <1>1, <1>6, <1>7, <1>9
     DEF IInv, Entries, Judging, AfterResolve, AfterHash, AfterProbe, AfterAux, AfterRows,
         AfterDistortion, AfterCalibration
<1>11. Passed'
  <2>1. SUFFICES ASSUME ~ raised' PROVE Passed'
    BY DEF Passed
  <2>2. /\ ShapeFits(doc, options) /\ paths.artifact
        /\ read.artifact = doc.id /\ report.digest = doc.id
        /\ \A i \in 1 .. Len(report.entries) :
             EntryFits(report.entries[i], paths.aux[i], doc, read)
    BY <1>1, <1>8, <2>1 DEF IInv, Passed, Judging, AfterResolve, AfterHash
  <2>3. report'.meta = doc.meta /\ report'.meta # Absent
    BY <1>5, <1>7, <1>8, <2>1
  <2> QED BY <1>1, <1>7, <1>9, <2>2, <2>3
          DEF Passed, Judging, AfterResolve, AfterHash, AfterProbe, AfterAux, AfterRows,
              AfterDistortion, AfterCalibration
<1> QED BY <1>8, <1>9, <1>10, <1>11 DEF IInv

LEMMA StepAuxDone ==
  ASSUME IInv, AuxDone
  PROVE  IInv'
<1>1. /\ pc = "aux" /\ pc' = "resolve_rows" /\ (turn > Len(Aux) \/ ~ AuxCounted)
      /\ UNCHANGED fixed /\ turn' = turn
      /\ report' = report /\ paths' = paths /\ plan' = plan /\ raised' = raised /\ read' = read
  BY DEF AuxDone, verifying
<1>2. pc \in Judging /\ pc' \in Judging
  BY <1>1 DEF Judging, AfterResolve, AfterHash, AfterProbe, AfterAux, AfterRows,
              AfterDistortion, AfterCalibration
<1>3. /\ Setup' /\ Seen' /\ Planned' /\ doc' = doc /\ options' = options
  <2>1. turn' \in Nat \ {0} /\ raised' \in BOOLEAN
    BY <1>1 DEF IInv, Setup
  <2> QED BY <1>1, <1>2, <2>1, Frame
<1>4. Ledger'
  BY <1>1, <1>2 DEF IInv, Ledger, Decided
<1>5. Entries'
  BY <1>1, <1>2, <1>3
     DEF IInv, Entries, Judging, AfterResolve, AfterHash, AfterProbe, AfterAux, AfterRows,
         AfterDistortion, AfterCalibration
<1>6. Passed'
  <2>1. SUFFICES ASSUME ~ raised' PROVE Passed'
    BY DEF Passed
  <2>2. /\ ShapeFits(doc, options) /\ paths.artifact
        /\ read.artifact = doc.id /\ report.digest = doc.id
        /\ report.meta = doc.meta /\ report.meta # Absent
        /\ \A i \in 1 .. Len(report.entries) :
             EntryFits(report.entries[i], paths.aux[i], doc, read)
    BY <1>1, <2>1 DEF IInv, Passed, Judging, AfterResolve, AfterHash, AfterProbe
  <2>3. NamesOf(report.entries) = DOMAIN doc.aux
    <3>1. NamesOf(report.entries) = DeclaredBefore(doc, turn)
      BY <1>1, <1>2 DEF IInv, Entries, AfterAux, AfterRows, AfterDistortion, AfterCalibration
    <3>2. turn > Len(Aux) /\ turn \in Nat
      BY <1>1, <2>2 DEF AuxCounted, ShapeFits, IInv, Setup
    <3>3. DOMAIN Aux = 1 .. Len(Aux) /\ Len(Aux) \in Nat
      BY LoadPlanAssumption, LenProperties
    <3>4. DOMAIN doc.aux \subseteq Names
      BY <1>1 DEF IInv, Setup, Known, Building
    <3>5. \A j \in DOMAIN Aux : j < turn
      BY <3>2, <3>3
    <3>6. \A n \in Names : \E j \in DOMAIN Aux : Aux[j] = n
      BY DEF Names
    <3> QED BY <3>1, <3>4, <3>5, <3>6 DEF DeclaredBefore
  <2> QED BY <1>1, <1>3, <2>2, <2>3
          DEF Passed, Judging, AfterResolve, AfterHash, AfterProbe, AfterAux, AfterRows,
              AfterDistortion, AfterCalibration
<1> QED BY <1>3, <1>4, <1>5, <1>6 DEF IInv

\* An entry is added to the report, and a place for its path.
LEMMA EnterFields ==
  ASSUME IInv, NEW name, NEW state, NEW path, NEW issues, Enter(name, state, path, issues)
  PROVE  /\ DOMAIN report' = DOMAIN report /\ report'.errors = report.errors \o issues
         /\ report'.meta = report.meta /\ report'.digest = report.digest
         /\ report'.entries = Append(report.entries, [name |-> name, state |-> state])
         /\ DOMAIN paths' = DOMAIN paths /\ paths'.artifact = paths.artifact
         /\ paths'.aux = Append(paths.aux, path)
         /\ raised' = (raised \/ issues # <<>>)
         /\ turn' = turn + 1 /\ pc' = "aux"
<1>1. /\ DOMAIN report = {"errors", "meta", "digest", "entries", "rows", "ok"}
      /\ DOMAIN paths = {"artifact", "rows", "aux"}
  BY DEF IInv, Setup
<1> DEFINE errors == report.errors \o issues
           entries == Append(report.entries, [name |-> name, state |-> state])
           places == Append(paths.aux, path)
<1>2. /\ report' = [report EXCEPT !.errors = errors, !.entries = entries]
      /\ paths' = [paths EXCEPT !.aux = places]
      /\ raised' = (raised \/ issues # <<>>) /\ turn' = turn + 1 /\ pc' = "aux"
  BY DEF Enter
<1> HIDE DEF errors, entries, places
<1> QED BY <1>1, <1>2 DEF errors, entries, places

\* Entering keeps the invariant if the entry fits, or an issue comes with it.
LEMMA StepEnter ==
  ASSUME IInv, pc \in {"aux", "hash_aux"}, turn \in DOMAIN Aux, UNCHANGED fixed, plan' = plan,
         NEW state, NEW path, NEW issues, IsSeq(issues), Aux[turn] \in DOMAIN doc.aux,
         Enter(Aux[turn], state, path, issues),
         DOMAIN read' = DOMAIN read, DOMAIN read'.aux = DOMAIN read.aux,
         read'.profiles = read.profiles, read'.artifact = read.artifact,
         ~ raised /\ issues = <<>> =>
           /\ EntryFits([name |-> Aux[turn], state |-> state], path, doc, read')
           /\ \A x \in DOMAIN doc.aux : read.aux[x] = doc.aux[x].id => read'.aux[x] = read.aux[x]
  PROVE  IInv'
<1> DEFINE entry == [name |-> Aux[turn], state |-> state]
<1>1. /\ DOMAIN report' = DOMAIN report /\ report'.errors = report.errors \o issues
      /\ report'.meta = report.meta /\ report'.digest = report.digest
      /\ report'.entries = Append(report.entries, entry)
      /\ DOMAIN paths' = DOMAIN paths /\ paths'.artifact = paths.artifact
      /\ paths'.aux = Append(paths.aux, path)
      /\ raised' = (raised \/ issues # <<>>)
      /\ turn' = turn + 1 /\ pc' = "aux"
  BY EnterFields
<1>2. /\ pc \in Judging /\ pc' \in Judging /\ pc \in AfterProbe
      /\ pc' \notin AfterAux /\ pc \notin AfterAux
  BY <1>1 DEF Judging, AfterResolve, AfterHash, AfterProbe, AfterAux, AfterRows,
              AfterDistortion, AfterCalibration
<1>3. /\ Ledger' /\ raised' \in BOOLEAN
      /\ ~ raised' => ~ raised /\ issues = <<>>
  BY <1>1, <1>2, Told
<1>4. turn \in Nat /\ turn # 0 /\ turn' \in Nat \ {0}
  BY <1>1 DEF IInv, Setup
<1>5. /\ Setup' /\ Seen' /\ Planned' /\ doc' = doc /\ options' = options
  BY <1>1, <1>2, <1>3, <1>4, Frame
<1> DEFINE n == Len(report.entries)
           m == Len(report'.entries)
<1>6. /\ IsSeq(report.entries) /\ IsSeq(paths.aux) /\ Len(paths.aux) = n
      /\ NamesOf(report.entries) = DeclaredBefore(doc, turn)
  BY <1>2 DEF IInv, Entries
<1>7. /\ IsSeq(report'.entries) /\ IsSeq(paths'.aux) /\ m = n + 1 /\ Len(paths'.aux) = m
      /\ n \in Nat /\ DOMAIN report.entries = 1 .. n /\ DOMAIN report'.entries = 1 .. m
      /\ report'.entries[m] = entry /\ paths'.aux[m] = path
      /\ \A i \in 1 .. n : report'.entries[i] = report.entries[i] /\ paths'.aux[i] = paths.aux[i]
  BY <1>1, <1>6, Longer
<1> HIDE DEF n, m
<1>8. entry.name = Aux[turn]
  OBVIOUS
<1> HIDE DEF entry
<1>9. NamesOf(report'.entries) = DeclaredBefore(doc, turn')
  <2>1. NamesOf(report'.entries) = NamesOf(report.entries) \cup {Aux[turn]}
    <3>1. \A i \in 1 .. m : i \in 1 .. n \/ i = m
      BY <1>7
    <3>2. m \in 1 .. m /\ \A i \in 1 .. n : i \in 1 .. m
      BY <1>7
    <3> QED BY <1>7, <1>8, <3>1, <3>2 DEF NamesOf
  <2>2. DeclaredBefore(doc, turn + 1) = DeclaredBefore(doc, turn) \cup {Aux[turn]}
    <3>1. DOMAIN Aux \subseteq Nat
      BY LoadPlanAssumption, LenProperties
    <3>2. \A j \in DOMAIN Aux : j < turn + 1 <=> j < turn \/ j = turn
      BY <1>4, <3>1
    <3> QED BY <3>2 DEF DeclaredBefore
  <2> QED BY <1>1, <1>6, <2>1, <2>2
<1>10. Entries'
  BY <1>1, <1>2, <1>5, <1>7, <1>9
     DEF Entries, Judging, AfterResolve, AfterHash, AfterProbe, AfterAux, AfterRows,
         AfterDistortion, AfterCalibration, m
<1>11. Passed'
  <2>1. SUFFICES ASSUME ~ raised' PROVE Passed'
    BY DEF Passed
  <2>2. ~ raised /\ issues = <<>>
    BY <1>3, <2>1
  <2>3. /\ ShapeFits(doc, options) /\ paths.artifact
        /\ read.artifact = doc.id /\ report.digest = doc.id
        /\ report.meta = doc.meta /\ report.meta # Absent
        /\ \A i \in 1 .. n : EntryFits(report.entries[i], paths.aux[i], doc, read)
    BY <1>2, <2>2 DEF IInv, Passed, Judging, AfterResolve, AfterHash, n
  <2>4. \A i \in 1 .. m : EntryFits(report'.entries[i], paths'.aux[i], doc, read')
    <3>1. \A i \in 1 .. m : i \in 1 .. n \/ i = m
      BY <1>7
    <3>2. \A i \in 1 .. n : EntryFits(report'.entries[i], paths'.aux[i], doc, read')
      <4>1. TAKE i \in 1 .. n
      <4>2. EntryFits(report'.entries[i], paths'.aux[i], doc, read)
        BY <1>7, <2>3
      <4>4. \A x \in DOMAIN doc.aux : read.aux[x] = doc.aux[x].id => read'.aux[x] = read.aux[x]
        BY <2>2
      <4>5. ASSUME NEW e, NEW p, EntryFits(e, p, doc, read) PROVE EntryFits(e, p, doc, read')
        BY <4>4, <4>5 DEF EntryFits
      <4> QED BY <4>2, <4>5
    <3>3. EntryFits(entry, path, doc, read')
      BY <2>2 DEF entry
    <3> QED BY <1>7, <3>1, <3>2, <3>3
  <2> QED BY <1>1, <1>2, <1>5, <2>3, <2>4
          DEF Passed, Judging, AfterResolve, AfterHash, AfterProbe, AfterAux, AfterRows,
              AfterDistortion, AfterCalibration, m
<1> QED BY <1>3, <1>5, <1>10, <1>11 DEF IInv

LEMMA StepResolveAux ==
  ASSUME IInv, ResolveAux
  PROVE  IInv'
<1> DEFINE name == Aux[turn]
           outcome == Resolve(doc.aux[name].path, aux[name], Absent, options)
<1>1. /\ pc = "aux" /\ turn <= Len(Aux) /\ UNCHANGED fixed /\ plan' = plan /\ read' = read
      /\ doc' = doc /\ options' = options
  BY DEF ResolveAux, fixed, creating
<1>2. /\ turn \in DOMAIN Aux /\ turn \in Nat /\ turn + 1 \in Nat \ {0}
      /\ DOMAIN Aux \subseteq Nat
  <2>1. Len(Aux) \in Nat /\ DOMAIN Aux = 1 .. Len(Aux)
    BY LoadPlanAssumption, LenProperties
  <2>2. turn \in Nat \ {0}
    BY DEF IInv, Setup
  <2> QED BY <1>1, <2>1, <2>2
<1>3. ASSUME pc' \in {"aux", "hash_aux"}, report' = report, paths' = paths, raised' = raised,
             \/ pc' = "aux" /\ turn' = turn + 1 /\ name \notin DOMAIN doc.aux
             \/ pc' = "hash_aux" /\ turn' = turn /\ name \in DOMAIN doc.aux
      PROVE  IInv'
  <2>1. pc \in Judging /\ pc' \in Judging /\ pc \notin AfterAux /\ pc' \notin AfterAux
        /\ pc \in AfterProbe /\ pc' \in AfterProbe
    BY <1>1, <1>3 DEF Judging, AfterResolve, AfterHash, AfterProbe, AfterAux, AfterRows,
                      AfterDistortion, AfterCalibration
  <2>2. Setup' /\ Seen' /\ Planned'
    <3>1. turn' \in Nat \ {0} /\ raised' \in BOOLEAN
      BY <1>2, <1>3 DEF IInv, Setup
    <3> QED BY <1>1, <1>3, <2>1, <3>1, Frame
  <2>3. Ledger'
    <3>1. pc' \notin Decided
      BY <1>3 DEF Decided
    <3> QED BY <1>3, <2>1, <3>1 DEF IInv, Ledger
  <2>4. Entries'
    <3>1. DeclaredBefore(doc, turn') = DeclaredBefore(doc, turn)
      <4>1. CASE turn' = turn
        BY <4>1
      <4>2. CASE turn' = turn + 1 /\ name \notin DOMAIN doc.aux
        <5>1. \A j \in DOMAIN Aux : j < turn + 1 <=> j < turn \/ j = turn
          BY <1>2
        <5> QED BY <4>2, <5>1 DEF DeclaredBefore
      <4> QED BY <1>3, <4>1, <4>2
    <3>2. pc' = "hash_aux" => turn' \in DOMAIN Aux /\ Aux[turn'] \in DOMAIN doc.aux
      BY <1>2, <1>3
    <3>3. /\ IsSeq(report.entries) /\ IsSeq(paths.aux) /\ Len(paths.aux) = Len(report.entries)
          /\ NamesOf(report.entries) = DeclaredBefore(doc, turn)
      BY <2>1 DEF IInv, Entries
    <3> QED BY <1>1, <1>3, <2>1, <3>1, <3>2, <3>3 DEF Entries
  <2>5. Passed'
    <3>1. SUFFICES ASSUME ~ raised' PROVE Passed'
      BY DEF Passed
    <3>2. /\ ShapeFits(doc, options) /\ paths.artifact
          /\ read.artifact = doc.id /\ report.digest = doc.id
          /\ report.meta = doc.meta /\ report.meta # Absent
          /\ \A i \in 1 .. Len(report.entries) :
               EntryFits(report.entries[i], paths.aux[i], doc, read)
      BY <1>1, <1>3, <2>1, <3>1 DEF IInv, Passed, Judging, AfterResolve, AfterHash
    <3> QED BY <1>1, <1>3, <3>2
            DEF Passed, Judging, AfterResolve, AfterHash, AfterProbe, AfterAux, AfterRows,
                AfterDistortion, AfterCalibration
  <2> QED BY <2>2, <2>3, <2>4, <2>5 DEF IInv
<1>4. ASSUME NEW state, NEW path, NEW issues, IsSeq(issues), name \in DOMAIN doc.aux,
             Enter(name, state, path, issues),
             ~ raised /\ issues = <<>> =>
               state = "optional_absent" /\ ~ doc.aux[name].required
      PROVE  IInv'
  <2> DEFINE entry == [name |-> name, state |-> state]
  <2>1. entry.name = name /\ entry.state = state
    OBVIOUS
  <2> HIDE DEF entry
  <2>2. ~ raised /\ issues = <<>> => EntryFits(entry, path, doc, read')
    BY <1>4, <2>1 DEF EntryFits
  <2> QED BY <1>1, <1>2, <1>4, <2>2, StepEnter DEF entry
<1>5. CASE name \notin DOMAIN doc.aux
  <2>1. turn' = turn + 1 /\ UNCHANGED <<report, paths, raised, pc>>
    BY <1>5 DEF ResolveAux
  <2> QED BY <1>1, <1>3, <1>5, <2>1
<1>6. CASE name \in DOMAIN doc.aux /\ doc.aux[name].path.segs = <<>>
  <2>1. Enter(name, "failed", Absent, <<>>)
    BY <1>6 DEF ResolveAux
  <2>2. raised
    <3>1. pc \in Judging
      BY <1>1 DEF Judging, AfterResolve, AfterHash, AfterProbe
    <3> QED BY <1>6, <3>1 DEF IInv, Passed, ShapeFits
  <2> QED BY <1>4, <1>6, <2>1, <2>2, Short
<1>7. CASE name \in DOMAIN doc.aux /\ doc.aux[name].path.segs # <<>>
  <2>1. CASE outcome = "ok"
    <3>1. pc' = "hash_aux" /\ UNCHANGED <<report, paths, raised, turn>>
      BY <1>7, <2>1 DEF ResolveAux
    <3> QED BY <1>3, <1>7, <3>1
  <2>2. CASE outcome = "missing" /\ ~ doc.aux[name].required
    <3>1. Enter(name, "optional_absent", Absent, <<>>)
      BY <1>7, <2>2 DEF ResolveAux
    <3> QED BY <1>4, <1>7, <2>2, <3>1, Short
  <2>3. CASE outcome # "ok" /\ ~ (outcome = "missing" /\ ~ doc.aux[name].required)
    <3>1. \/ Enter(name, "missing_required", Absent, <<outcome>>)
          \/ Enter(name, "failed", Absent, <<outcome>>)
      BY <1>7, <2>3 DEF ResolveAux
    <3> HIDE DEF outcome
    <3>2. IsSeq(<<outcome>>) /\ <<outcome>> # <<>>
      BY Short
    <3> QED BY <1>4, <1>7, <3>1, <3>2
  <2> QED BY <2>1, <2>2, <2>3
<1> QED BY <1>5, <1>6, <1>7

LEMMA StepHashAux ==
  ASSUME IInv, HashAux
  PROVE  IInv'
<1> DEFINE name == Aux[turn]
           file == aux[name]
<1>1. /\ pc = "hash_aux" /\ UNCHANGED fixed /\ plan' = plan
      /\ turn \in DOMAIN Aux /\ name \in DOMAIN doc.aux
  BY DEF HashAux, IInv, Entries
<1>2. DOMAIN read = {"artifact", "rows", "aux", "profiles"} /\ DOMAIN read.aux = Names
      /\ name \in Names
  BY <1>1 DEF IInv, Setup, Names
<1>3. CASE Hashed(file, doc.aux[name].size)
  <2> DEFINE issues == Mismatches(file, doc.aux[name])
             state == IF issues = <<>> THEN "verified" ELSE "failed"
             entry == [name |-> name, state |-> state]
  <2>1. Enter(name, state, name, issues) /\ read' = [read EXCEPT !.aux[name] = file.id]
    BY <1>3 DEF HashAux
  <2>2. IsSeq(issues) /\ (issues = <<>> => file.id = doc.aux[name].id)
    BY MismatchesNone
  <2>3. entry.name = name /\ entry.state = state
    OBVIOUS
  <2>4. /\ DOMAIN read' = DOMAIN read /\ DOMAIN read'.aux = DOMAIN read.aux
        /\ read'.profiles = read.profiles /\ read'.artifact = read.artifact
        /\ read'.aux[name] = file.id
        /\ \A x \in Names : x # name => read'.aux[x] = read.aux[x]
    <3> HIDE DEF file, name
    <3> QED BY <1>2, <2>1
  <2>5. issues = <<>> => state = "verified"
    OBVIOUS
  <2> HIDE DEF issues, entry, state, file
  <2>6. ASSUME issues = <<>> PROVE EntryFits(entry, name, doc, read')
    <3>1. entry.state = "verified" /\ read'.aux[name] = doc.aux[name].id
      BY <2>2, <2>3, <2>4, <2>5, <2>6
    <3> QED BY <1>1, <2>3, <3>1 DEF EntryFits
  <2>7. ASSUME issues = <<>>
        PROVE  \A x \in DOMAIN doc.aux : read.aux[x] = doc.aux[x].id => read'.aux[x] = read.aux[x]
    <3>1. DOMAIN doc.aux \subseteq Names
      BY <1>1 DEF IInv, Setup, Known, Building
    <3> QED BY <2>2, <2>4, <2>7, <3>1
  <2> QED BY <1>1, <2>1, <2>2, <2>4, <2>6, <2>7, StepEnter DEF entry
<1>4. CASE ~ Hashed(file, doc.aux[name].size)
  <2>1. Enter(name, "failed", name, <<"aux_hash">>) /\ read' = read
    BY <1>4 DEF HashAux
  <2>2. IsSeq(<<"aux_hash">>) /\ <<"aux_hash">> # <<>>
    BY Short
  <2> QED BY <1>1, <2>1, <2>2, StepEnter
<1> QED BY <1>3, <1>4

\* What the steps after the artifacts leave alone.
LEMMA AfterAuxStep ==
  ASSUME IInv, UNCHANGED fixed, pc \in AfterAux, pc' \in AfterAux, plan' = plan, turn' = turn,
         NEW issues, IsSeq(issues), report'.errors = report.errors \o issues,
         raised' = (raised \/ issues # <<>>),
         DOMAIN report' = DOMAIN report, DOMAIN paths' = DOMAIN paths, DOMAIN read' = DOMAIN read,
         DOMAIN read'.profiles = DOMAIN read.profiles,
         report'.entries = report.entries, report'.meta = report.meta,
         report'.digest = report.digest, paths'.aux = paths.aux,
         paths'.artifact = paths.artifact, read'.aux = read.aux, read'.artifact = read.artifact
  PROVE  /\ Setup' /\ Seen' /\ Ledger' /\ Entries' /\ Planned'
         /\ doc' = doc /\ options' = options
         /\ ~ raised' => /\ ~ raised /\ issues = <<>>
                         /\ ShapeFits(doc, options)' /\ paths'.artifact
                         /\ read'.artifact = doc'.id /\ report'.digest = doc'.id
                         /\ report'.meta = doc'.meta /\ report'.meta # Absent
                         /\ NamesOf(report'.entries) = DOMAIN doc'.aux
                         /\ \A i \in 1 .. Len(report'.entries) :
                              EntryFits(report.entries[i], paths.aux[i], doc, read)'
<1>1. /\ pc \in Judging /\ pc' \in Judging /\ pc \in AfterProbe /\ pc' \in AfterProbe
      /\ pc \in AfterHash /\ pc' \in AfterHash /\ pc \in AfterResolve /\ pc' \in AfterResolve
      /\ pc' # "hash_aux"
  BY DEF Judging, AfterResolve, AfterHash, AfterProbe, AfterAux, AfterRows,
         AfterDistortion, AfterCalibration
<1>2. /\ Ledger' /\ raised' \in BOOLEAN
      /\ ~ raised' => ~ raised /\ issues = <<>>
  BY <1>1, Told
<1>3. /\ Setup' /\ Seen' /\ Planned' /\ doc' = doc /\ options' = options
  <2>1. turn' \in Nat \ {0}
    BY DEF IInv, Setup
  <2> QED BY <1>1, <1>2, <2>1, Frame
<1>4. Entries'
  BY <1>1, <1>3 DEF IInv, Entries
<1>5. ASSUME ~ raised
      PROVE  /\ ShapeFits(doc, options) /\ paths.artifact
             /\ read.artifact = doc.id /\ report.digest = doc.id
             /\ report.meta = doc.meta /\ report.meta # Absent
             /\ NamesOf(report.entries) = DOMAIN doc.aux
             /\ \A i \in 1 .. Len(report.entries) :
                  EntryFits(report.entries[i], paths.aux[i], doc, read)
  BY <1>1, <1>5 DEF IInv, Passed
<1>6. \A i : EntryFits(report.entries[i], paths.aux[i], doc, read)
               <=> EntryFits(report.entries[i], paths.aux[i], doc, read)'
  BY <1>3 DEF EntryFits
<1>7. ShapeFits(doc, options)' <=> ShapeFits(doc, options)
  BY <1>3
<1> QED BY <1>2, <1>3, <1>4, <1>5, <1>6, <1>7

LEMMA StepResolveRows ==
  ASSUME IInv, ResolveRows
  PROVE  IInv'
<1> DEFINE outcome == IF doc.rowCount > options.maxRows THEN "row_count_limit"
                      ELSE Resolve(doc.rowPath, rowMap, Absent, options)
           issues == IF doc.lines = Absent THEN <<>> ELSE Issue(outcome # "ok", outcome)
<1>1. /\ pc = "resolve_rows" /\ UNCHANGED fixed /\ turn' = turn /\ plan' = plan /\ read' = read
      /\ doc.lines = Absent => pc' = "distortion" /\ UNCHANGED <<report, raised, paths>>
      /\ doc.lines # Absent =>
           /\ Report(issues) /\ paths' = [paths EXCEPT !.rows = outcome = "ok"]
           /\ pc' = IF outcome = "ok" THEN "read_rows" ELSE "distortion"
  BY DEF ResolveRows
<1>2. /\ IsSeq(issues) /\ (doc.lines = Absent => issues = <<>>)
      /\ doc.lines # Absent => (issues = <<>> <=> outcome = "ok")
  BY IssueList, Short
<1> HIDE DEF issues, outcome
<1>3. pc \in AfterAux /\ pc' \in AfterAux
  BY <1>1 DEF AfterAux, AfterRows
<1>4. /\ DOMAIN paths' = DOMAIN paths /\ paths'.artifact = paths.artifact
      /\ paths'.aux = paths.aux /\ (doc.lines # Absent => paths'.rows = (outcome = "ok"))
  <2>1. DOMAIN paths = {"artifact", "rows", "aux"}
    BY DEF IInv, Setup
  <2> QED BY <1>1, <2>1
<1>5. /\ DOMAIN report' = DOMAIN report /\ report'.errors = report.errors \o issues
      /\ report'.meta = report.meta /\ report'.digest = report.digest
      /\ report'.entries = report.entries /\ report'.rows = report.rows
      /\ raised' = (raised \/ issues # <<>>)
  <2>1. CASE doc.lines # Absent
    BY <1>1, <2>1, ReportFields
  <2>2. CASE doc.lines = Absent
    <3>1. pc \in Judging
      BY <1>1 DEF Judging, AfterResolve, AfterHash, AfterProbe, AfterAux
    <3>2. PICK S : report.errors \in Seq(S)
      BY <3>1 DEF IInv, Ledger, IsSeq
    <3>3. report.errors \o <<>> = report.errors
      BY <3>2, ConcatEmptySeq
    <3>4. raised \in BOOLEAN
      BY DEF IInv, Setup
    <3> QED BY <1>1, <1>2, <2>2, <3>3, <3>4
  <2> QED BY <2>1, <2>2
<1>6. /\ Setup' /\ Seen' /\ Ledger' /\ Entries' /\ Planned'
      /\ doc' = doc /\ options' = options
      /\ ~ raised' => /\ ~ raised /\ issues = <<>>
                      /\ ShapeFits(doc, options)' /\ paths'.artifact
                      /\ read'.artifact = doc'.id /\ report'.digest = doc'.id
                      /\ report'.meta = doc'.meta /\ report'.meta # Absent
                      /\ NamesOf(report'.entries) = DOMAIN doc'.aux
                      /\ \A i \in 1 .. Len(report'.entries) :
                           EntryFits(report.entries[i], paths.aux[i], doc, read)'
  BY <1>1, <1>2, <1>3, <1>4, <1>5, AfterAuxStep
<1>7. Passed'
  <2>1. SUFFICES ASSUME ~ raised' PROVE Passed'
    BY DEF Passed
  <2>2. pc' = "read_rows" => doc'.lines # Absent /\ paths'.rows
    BY <1>1, <1>4, <1>6
  <2>3. pc' = "distortion" => doc'.lines = Absent
    BY <1>1, <1>2, <1>6, <2>1
  <2>4. pc' = "read_rows" \/ pc' = "distortion"
    BY <1>1
  <2>5. pc' = "distortion" => RowsFit(doc, options, paths.rows, read, report.rows.lines)'
    BY <2>3 DEF RowsFit
  <2> QED BY <1>6, <2>1, <2>2, <2>4, <2>5
          DEF Passed, AfterRows, AfterDistortion, AfterCalibration
<1> QED BY <1>6, <1>7 DEF IInv

LEMMA StepReadRows ==
  ASSUME IInv, ReadRows
  PROVE  IInv'
<1> DEFINE checked == ValidateJsonlRows(rowMap.lines, doc.rowCount, options, report.errors)
           counted == \E i \in DOMAIN checked.errors : checked.errors[i] = "row_count"
           errors == IF rowMap = Absent THEN report.errors \o <<"row_read">>
                     ELSE checked.errors
                            \o Issue(checked.eof /\ rowMap.lines # doc.lines, "row_sha256")
                            \o Issue(checked.rows # doc.rowCount /\ ~ counted, "row_count")
           rows == [validated |-> checked.validated,
                    lines |-> IF checked.eof THEN rowMap.lines ELSE Absent]
           wrong == \/ rowMap = Absent \/ rowMap.lines # doc.lines
                    \/ ~ GoodMap(rowMap.lines, doc.rowCount, options)
<1>1. /\ pc = "read_rows" /\ pc' = "distortion" /\ UNCHANGED fixed /\ turn' = turn
      /\ paths' = paths /\ plan' = plan /\ doc' = doc /\ options' = options
  BY DEF ReadRows, fixed, creating
<1>2. /\ pc \in AfterAux /\ pc' \in AfterAux /\ pc \in Judging
      /\ pc \in AfterProbe /\ pc' \in AfterProbe /\ pc' \in AfterHash
      /\ pc \in AfterHash /\ pc' \in AfterResolve /\ pc \in AfterResolve /\ pc' \in Judging
  BY <1>1 DEF Judging, AfterResolve, AfterHash, AfterProbe, AfterAux, AfterRows
<1>3. /\ DOMAIN report = {"errors", "meta", "digest", "entries", "rows", "ok"}
      /\ DOMAIN read = {"artifact", "rows", "aux", "profiles"}
      /\ IsSeq(report.errors) /\ (raised <=> report.errors # <<>>) /\ raised \in BOOLEAN
  BY <1>2 DEF IInv, Setup, Ledger
<1>4. doc.rowCount \in Nat /\ options \in Option
      /\ (rowMap # Absent => rowMap \in RowMaps /\ rowMap.lines \in Seq(Line))
  BY <1>1, LoadPlanAssumption DEF IInv, Setup, Known, Building, Maybe
<1>5. CASE rowMap = Absent
  <2>1. Report(<<"row_read">>) /\ read' = read
    BY <1>5 DEF ReadRows
  <2>2. IsSeq(<<"row_read">>) /\ <<"row_read">> # <<>>
    BY Short
  <2>3. /\ DOMAIN report' = DOMAIN report /\ report'.errors = report.errors \o <<"row_read">>
        /\ report'.meta = report.meta /\ report'.digest = report.digest
        /\ report'.entries = report.entries /\ raised'
    BY <2>1, <2>2, ReportFields
  <2>4. raised' = (raised \/ <<"row_read">> # <<>>)
    BY <2>1, <2>2, ReportFields
  <2>5. Setup' /\ Seen' /\ Ledger' /\ Entries' /\ Planned'
    BY <1>1, <1>2, <2>1, <2>2, <2>3, <2>4, AfterAuxStep
  <2>6. Passed'
    BY <2>3 DEF Passed
  <2> QED BY <2>5, <2>6 DEF IInv
<1>6. CASE rowMap # Absent
  <2>1. /\ report' = [report EXCEPT !.errors = errors, !.rows = rows]
        /\ raised' = (raised \/ wrong)
        /\ read' = [read EXCEPT !.rows = rowMap.lines]
    BY <1>6 DEF ReadRows
  <2>2. /\ IsSeq(errors)
        /\ errors = <<>> <=> report.errors = <<>> /\ rowMap.lines = doc.lines
                               /\ GoodMap(rowMap.lines, doc.rowCount, options)
        /\ errors = <<>> => checked.eof
    <3>1. errors = RowErrors(checked, rowMap.lines, doc.rowCount, doc.lines)
      BY <1>6 DEF RowErrors
    <3>2. checked = ValidateJsonlRows(rowMap.lines, doc.rowCount, options, report.errors)
      OBVIOUS
    <3> HIDE DEF checked, errors
    <3> QED BY <1>3, <1>4, <1>6, <3>1, <3>2, RowsJudged
  <2>3. rows.lines = IF checked.eof THEN rowMap.lines ELSE Absent
    OBVIOUS
  <2>4. wrong <=> ~ (rowMap.lines = doc.lines /\ GoodMap(rowMap.lines, doc.rowCount, options))
    BY <1>6
  <2> HIDE DEF errors, rows, checked, wrong
  <2>5. /\ DOMAIN report' = DOMAIN report /\ report'.errors = errors
        /\ report'.meta = report.meta /\ report'.digest = report.digest
        /\ report'.entries = report.entries /\ report'.rows = rows
        /\ DOMAIN read' = DOMAIN read /\ read'.rows = rowMap.lines
        /\ read'.artifact = read.artifact /\ read'.aux = read.aux
        /\ read'.profiles = read.profiles
    BY <1>3, <2>1
  <2>6. /\ raised' \in BOOLEAN /\ (raised' <=> errors # <<>>)
        /\ ~ raised' => /\ ~ raised /\ rowMap.lines = doc.lines /\ checked.eof
                        /\ GoodMap(doc.lines, doc.rowCount, options)
    BY <1>3, <2>1, <2>2, <2>4
  <2>7. Setup' /\ Seen' /\ Planned'
    <3>1. turn' \in Nat \ {0}
      BY <1>1 DEF IInv, Setup
    <3> QED BY <1>1, <1>2, <2>5, <2>6, <3>1, Frame
  <2>8. Ledger'
    <3>1. pc' \notin Decided
      BY <1>1 DEF Decided
    <3> QED BY <2>2, <2>5, <2>6, <3>1 DEF Ledger
  <2>9. Entries'
    <3>1. pc' # "hash_aux"
      BY <1>1
    <3> QED BY <1>1, <1>2, <2>5, <3>1 DEF IInv, Entries
  <2>10. Passed'
    <3>1. SUFFICES ASSUME ~ raised' PROVE Passed'
      BY DEF Passed
    <3>2. /\ ShapeFits(doc, options) /\ paths.artifact
          /\ read.artifact = doc.id /\ report.digest = doc.id
          /\ report.meta = doc.meta /\ report.meta # Absent
          /\ NamesOf(report.entries) = DOMAIN doc.aux
          /\ doc.lines # Absent /\ paths.rows
          /\ \A i \in 1 .. Len(report.entries) :
               EntryFits(report.entries[i], paths.aux[i], doc, read)
      BY <1>1, <1>2, <2>6, <3>1 DEF IInv, Passed
    <3>3. RowsFit(doc, options, paths'.rows, read', report'.rows.lines)
      BY <1>1, <2>3, <2>5, <2>6, <3>1, <3>2 DEF RowsFit
    <3>4. \A i \in 1 .. Len(report'.entries) :
            EntryFits(report'.entries[i], paths'.aux[i], doc, read')
      BY <1>1, <2>5, <3>2 DEF EntryFits
    <3> QED BY <1>1, <2>5, <3>2, <3>3, <3>4
            DEF Passed, AfterRows, AfterDistortion, AfterCalibration
  <2> QED BY <2>7, <2>8, <2>9, <2>10 DEF IInv
<1> QED BY <1>5, <1>6

\* A step that reports nothing has no issues.
LEMMA Quiet ==
  ASSUME IInv, pc \in Judging, report' = report, raised' = raised
  PROVE  report'.errors = report.errors \o <<>> /\ raised' = (raised \/ <<>> # <<>>)
<1>1. PICK S : report.errors \in Seq(S)
  BY DEF IInv, Ledger, IsSeq
<1>2. report.errors \o <<>> = report.errors
  BY <1>1, ConcatEmptySeq
<1>3. raised \in BOOLEAN
  BY DEF IInv, Setup
<1> QED BY <1>2, <1>3

LEMMA OutcomeNone ==
  ASSUME NEW slot, NEW profile, profile.path.segs # <<>>
  PROVE  ProfileOutcome(slot, profile) # "none"
BY DEF ProfileOutcome, Resolve

\* What the checks of a distortion without issues have established.
LEMMA DistortionJudged ==
  ASSUME Known(doc), Given(doc.distortion),
         NEW issues, issues = DistortionShape(doc.distortion)
           \o DistortionEncoder(doc.distortion, doc.embedding)
           \o DistortionMetrics(doc.distortion) \o DistortionBounds(doc.distortion.bounds)
           \o DistortionScope(doc.distortion.scope) \o DistortionEvidence(doc.distortion)
  PROVE  IsSeq(issues) /\ (issues = <<>> => DistortionSays(doc))
<1> DEFINE x == doc.distortion
           a == DistortionShape(x)
           b == DistortionEncoder(x, doc.embedding)
           c == DistortionMetrics(x)
           d == DistortionBounds(x.bounds)
           e == DistortionScope(x.scope)
           f == DistortionEvidence(x)
<1>1. IsSeq(a) /\ IsSeq(b) /\ IsSeq(c) /\ IsSeq(d) /\ IsSeq(e) /\ IsSeq(f)
  BY DistortionLists
<1>2. issues = a \o b \o c \o d \o e \o f
  OBVIOUS
<1>3. b = <<>> => x.encoder.model = doc.embedding.model /\ x.encoder.dim = doc.embedding.dim
  BY DistortionEncoderClean
<1>4. d = <<>> => (Given(x.bounds.lower) /\ Given(x.bounds.upper) =>
                     /\ 0 < x.bounds.lower /\ x.bounds.lower <= x.bounds.upper
                     /\ Given(x.bounds.estimated) => x.bounds.estimated >= Unit)
  <2>1. /\ x.bounds.lower \in Maybe(Int) /\ x.bounds.upper \in Maybe(Int)
        /\ x.bounds.estimated \in Maybe(Int)
    BY DEF Known
  <2> HIDE DEF x
  <2> QED BY <2>1, BoundsLeaveRoom
<1>5. f = <<>> => (~ Given(x.profile) => x.evidence = "caller_asserted")
  BY DistortionEvidenceClean
<1> HIDE DEF a, b, c, d, e, f
<1>6. IsSeq(issues) /\ (issues = <<>> => b = <<>> /\ d = <<>> /\ f = <<>>)
  BY <1>1, <1>2, JoinedSix
<1> QED BY <1>3, <1>4, <1>5, <1>6 DEF DistortionSays

LEMMA StepVerifyDistortion ==
  ASSUME IInv, VerifyDistortion
  PROVE  IInv'
<1> DEFINE d == doc.distortion
           first == DistortionShape(d) \o DistortionEncoder(d, doc.embedding)
                      \o DistortionMetrics(d) \o DistortionBounds(d.bounds)
                      \o DistortionScope(d.scope) \o DistortionEvidence(d)
           outcome == ProfileOutcome("distortion", d.profile)
           path == DistortionProfile(d.profile, options.escape)
           lost == Issue(outcome \notin {"ok", "none"}, outcome)
<1>1. /\ pc = "distortion" /\ UNCHANGED fixed /\ turn' = turn /\ paths' = paths
      /\ plan' = plan /\ read' = read /\ pc' \in {"calibration", "hash_distortion"}
  BY DEF VerifyDistortion
<1>2. /\ pc \in AfterAux /\ pc' \in AfterAux /\ pc \in AfterRows /\ pc' \in AfterRows
      /\ pc \in Judging
      /\ pc' \notin AfterCalibration \cup {"hash_calibration", "read_rows"}
  BY <1>1 DEF Judging, AfterResolve, AfterHash, AfterProbe, AfterAux, AfterRows,
              AfterDistortion, AfterCalibration
<1>3. Known(doc)
  BY <1>1 DEF IInv, Setup, Building
<1>4. PICK issues :
        /\ IsSeq(issues) /\ report'.errors = report.errors \o issues
        /\ raised' = (raised \/ issues # <<>>)
        /\ DOMAIN report' = DOMAIN report /\ report'.entries = report.entries
        /\ report'.meta = report.meta /\ report'.digest = report.digest
        /\ report'.rows = report.rows
        /\ issues = <<>> => \/ pc' = "calibration" /\ ~ Given(d)
                            \/ pc' = "calibration" /\ Given(d) /\ ~ Given(d.profile)
                                 /\ DistortionSays(doc)
                            \/ pc' = "hash_distortion" /\ Given(d) /\ Given(d.profile)
                                 /\ DistortionSays(doc)
  <2>1. CASE ~ Given(d)
    <3>1. pc' = "calibration" /\ report' = report /\ raised' = raised
      BY <2>1 DEF VerifyDistortion
    <3>2. report'.errors = report.errors \o <<>> /\ raised' = (raised \/ <<>> # <<>>)
      BY <1>2, <3>1, Quiet
    <3> QED BY <2>1, <3>1, <3>2, Short
  <2>2. CASE Given(d) /\ ~ Given(d.profile)
    <3>1. Report(first) /\ pc' = "calibration"
      BY <2>2 DEF VerifyDistortion
    <3>2. IsSeq(first) /\ (first = <<>> => DistortionSays(doc))
      BY <1>3, <2>2, DistortionJudged
    <3> HIDE DEF first
    <3> QED BY <2>2, <3>1, <3>2, ReportFields
  <2>3. CASE Given(d) /\ Given(d.profile)
    <3>1. /\ Report(first \o path \o lost)
          /\ pc' = IF outcome = "ok" THEN "hash_distortion" ELSE "calibration"
      BY <2>3 DEF VerifyDistortion
    <3>2. IsSeq(first) /\ (first = <<>> => DistortionSays(doc))
      BY <1>3, <2>3, DistortionJudged
    <3>3. IsSeq(path) /\ (path = <<>> => outcome # "none")
      BY DistortionLists, DistortionProfileClean, OutcomeNone
    <3>4. IsSeq(lost) /\ (lost = <<>> => outcome \in {"ok", "none"})
      BY IssueList
    <3> HIDE DEF first, path, lost, outcome
    <3>5. /\ IsSeq(first \o path)
          /\ first \o path = <<>> => first = <<>> /\ path = <<>>
      BY <3>2, <3>3, Joined
    <3>6. /\ IsSeq(first \o path \o lost)
          /\ first \o path \o lost = <<>> => first \o path = <<>> /\ lost = <<>>
      BY <3>4, <3>5, Joined
    <3>7. first \o path \o lost = <<>> => outcome = "ok" /\ DistortionSays(doc)
      BY <3>2, <3>3, <3>4, <3>5, <3>6
    <3> QED BY <2>3, <3>1, <3>6, <3>7, ReportFields
  <2> QED BY <2>1, <2>2, <2>3
<1>5. /\ Setup' /\ Seen' /\ Ledger' /\ Entries' /\ Planned'
      /\ doc' = doc /\ options' = options
      /\ ~ raised' => /\ ~ raised /\ issues = <<>>
                      /\ ShapeFits(doc, options)' /\ paths'.artifact
                      /\ read'.artifact = doc'.id /\ report'.digest = doc'.id
                      /\ report'.meta = doc'.meta /\ report'.meta # Absent
                      /\ NamesOf(report'.entries) = DOMAIN doc'.aux
                      /\ \A i \in 1 .. Len(report'.entries) :
                           EntryFits(report.entries[i], paths.aux[i], doc, read)'
  BY <1>1, <1>2, <1>4, AfterAuxStep
<1>6. Passed'
  <2>1. SUFFICES ASSUME ~ raised' PROVE Passed'
    BY DEF Passed
  <2>2. RowsFit(doc, options, paths.rows, read, report.rows.lines)'
    <3>1. RowsFit(doc, options, paths.rows, read, report.rows.lines)
      BY <1>2, <1>5, <2>1 DEF IInv, Passed
    <3> QED BY <1>1, <1>4, <1>5, <3>1
  <2>3. pc' = "calibration" => DistortionFits(doc', read')
    BY <1>4, <1>5, <2>1 DEF DistortionFits
  <2>4. pc' = "hash_distortion" => Given(doc'.distortion) /\ DistortionSays(doc')
                                     /\ Given(doc'.distortion.profile)
    BY <1>4, <1>5, <2>1
  <2>5. pc' \in AfterDistortion <=> pc' = "calibration"
    BY <1>1 DEF AfterDistortion, AfterCalibration
  <2> QED BY <1>2, <1>5, <2>1, <2>2, <2>3, <2>4, <2>5 DEF Passed, AfterCalibration
<1> QED BY <1>5, <1>6 DEF IInv

\* The file of a profile is read, or an issue tells that it does not match.
LEMMA ProfileHashed ==
  ASSUME IInv, NEW slot \in Slots, NEW profile, HashProfile(slot, profile)
  PROVE  \E issues :
           /\ IsSeq(issues) /\ report'.errors = report.errors \o issues
           /\ raised' = (raised \/ issues # <<>>)
           /\ DOMAIN report' = DOMAIN report /\ report'.entries = report.entries
           /\ report'.meta = report.meta /\ report'.digest = report.digest
           /\ report'.rows = report.rows
           /\ DOMAIN read' = DOMAIN read /\ DOMAIN read'.profiles = DOMAIN read.profiles
           /\ read'.aux = read.aux /\ read'.artifact = read.artifact /\ read'.rows = read.rows
           /\ \A s \in Slots : s # slot => read'.profiles[s] = read.profiles[s]
           /\ issues = <<>> => Matches(read', slot, profile)
<1> DEFINE file == profiles[slot]
           issues == IF Hashed(file, profile.size) THEN Mismatches(file, profile)
                     ELSE <<"profile_hash">>
<1>1. DOMAIN read = {"artifact", "rows", "aux", "profiles"} /\ DOMAIN read.profiles = Slots
  BY DEF IInv, Setup
<1>2. /\ Report(issues)
      /\ IF Hashed(file, profile.size) THEN read' = [read EXCEPT !.profiles[slot] = file]
         ELSE read' = read
  BY DEF HashProfile
<1>3. /\ IsSeq(issues)
      /\ issues = <<>> => /\ Hashed(file, profile.size)
                          /\ file.id = profile.id /\ file.size = profile.size
  BY MismatchesNone, Short
<1>4. Hashed(file, profile.size) => file # Absent
  BY DEF Hashed
<1> HIDE DEF issues, file
<1>5. /\ DOMAIN read' = DOMAIN read /\ DOMAIN read'.profiles = DOMAIN read.profiles
      /\ read'.aux = read.aux /\ read'.artifact = read.artifact /\ read'.rows = read.rows
      /\ \A s \in Slots : s # slot => read'.profiles[s] = read.profiles[s]
      /\ Hashed(file, profile.size) => read'.profiles[slot] = file
  BY <1>1, <1>2
<1>6. issues = <<>> => Matches(read', slot, profile)
  BY <1>3, <1>4, <1>5 DEF Matches
<1> QED BY <1>2, <1>3, <1>5, <1>6, ReportFields

LEMMA StepHashDistortion ==
  ASSUME IInv, HashDistortion
  PROVE  IInv'
<1>1. /\ pc = "hash_distortion" /\ pc' = "calibration" /\ UNCHANGED fixed /\ turn' = turn
      /\ paths' = paths /\ plan' = plan
      /\ HashProfile("distortion", doc.distortion.profile)
  BY DEF HashDistortion
<1>2. /\ pc \in AfterAux /\ pc' \in AfterAux /\ pc \in AfterRows /\ pc' \in AfterRows
      /\ pc' \in AfterDistortion
      /\ pc' \notin AfterCalibration \cup {"hash_calibration", "read_rows", "hash_distortion"}
  BY <1>1 DEF AfterAux, AfterRows, AfterDistortion, AfterCalibration
<1>3. PICK issues :
        /\ IsSeq(issues) /\ report'.errors = report.errors \o issues
        /\ raised' = (raised \/ issues # <<>>)
        /\ DOMAIN report' = DOMAIN report /\ report'.entries = report.entries
        /\ report'.meta = report.meta /\ report'.digest = report.digest
        /\ report'.rows = report.rows
        /\ DOMAIN read' = DOMAIN read /\ DOMAIN read'.profiles = DOMAIN read.profiles
        /\ read'.aux = read.aux /\ read'.artifact = read.artifact /\ read'.rows = read.rows
        /\ issues = <<>> => Matches(read', "distortion", doc.distortion.profile)
  <2>1. "distortion" \in Slots
    BY DEF Slots
  <2> QED BY <1>1, <2>1, ProfileHashed
<1>4. /\ Setup' /\ Seen' /\ Ledger' /\ Entries' /\ Planned'
      /\ doc' = doc /\ options' = options
      /\ ~ raised' => /\ ~ raised /\ issues = <<>>
                      /\ ShapeFits(doc, options)' /\ paths'.artifact
                      /\ read'.artifact = doc'.id /\ report'.digest = doc'.id
                      /\ report'.meta = doc'.meta /\ report'.meta # Absent
                      /\ NamesOf(report'.entries) = DOMAIN doc'.aux
                      /\ \A i \in 1 .. Len(report'.entries) :
                           EntryFits(report.entries[i], paths.aux[i], doc, read)'
  BY <1>1, <1>2, <1>3, AfterAuxStep
<1>5. Passed'
  <2>1. SUFFICES ASSUME ~ raised' PROVE Passed'
    BY DEF Passed
  <2>2. /\ RowsFit(doc, options, paths.rows, read, report.rows.lines)
        /\ Given(doc.distortion) /\ DistortionSays(doc) /\ Given(doc.distortion.profile)
    BY <1>1, <1>2, <1>4, <2>1 DEF IInv, Passed
  <2>3. RowsFit(doc, options, paths.rows, read, report.rows.lines)'
    BY <1>1, <1>3, <1>4, <2>2 DEF RowsFit
  <2>4. DistortionFits(doc', read')
    BY <1>3, <1>4, <2>1, <2>2 DEF DistortionFits
  <2> QED BY <1>1, <1>2, <1>4, <2>1, <2>3, <2>4 DEF Passed, AfterCalibration
<1> QED BY <1>4, <1>5 DEF IInv

\* What the checks of a calibration without issues have established.
LEMMA CalibrationJudged ==
  ASSUME Known(doc), Given(doc.calibration), NEW link, IsSeq(link),
         NEW issues, issues = link \o CalibrationShape(doc.calibration)
           \o CalibrationEncoder(doc.calibration, doc.embedding)
           \o CalibrationOrdinalization(doc.calibration, doc.meta)
           \o CalibrationNull(doc.calibration)
           \o CalibrationProfile(doc.calibration, doc.meta, options.escape)
  PROVE  /\ IsSeq(issues)
         /\ issues = <<>> =>
              /\ link = <<>> /\ CalibrationSays(doc)
              /\ ~ Uniform(doc.calibration) => /\ Given(doc.calibration.profile)
                                               /\ doc.calibration.profile.path.segs # <<>>
<1> DEFINE x == doc.calibration
           b == CalibrationShape(x)
           c == CalibrationEncoder(x, doc.embedding)
           d == CalibrationOrdinalization(x, doc.meta)
           e == CalibrationNull(x)
           f == CalibrationProfile(x, doc.meta, options.escape)
           cells == x.profile.format = "raw_f32_le" /\ x.profile.shape # <<>> =>
                      x.profile.size = Cells(x, doc.meta) * 4
<1>1. IsSeq(b) /\ IsSeq(c) /\ IsSeq(d) /\ IsSeq(e) /\ IsSeq(f)
  BY CalibrationLists
<1>2. issues = link \o b \o c \o d \o e \o f
  OBVIOUS
<1>3. b = <<>> => ~ OrdinalizationFault(x.ord)
  BY CalibrationShapeClean
<1>4. c = <<>> => x.encoder.model = doc.embedding.model
  BY CalibrationEncoderClean
<1>5. d = <<>> => x.ord.dim = doc.meta.dim /\ Compatible(doc.meta, x.ord)
  BY CalibrationOrdinalizationClean
<1>6. e = <<>> => (Uniform(x) => x.ord.kind = "top_k")
  BY CalibrationNullClean
<1>7. f = <<>> => /\ Uniform(x) => ~ Given(x.profile)
                  /\ ~ Uniform(x) => /\ Given(x.profile) /\ x.profile.path.segs # <<>>
                                     /\ x.profile.dim = doc.meta.dim
                                     /\ CalibrationProfileShape(x.profile, x.ord) = <<>>
  BY CalibrationProfileClean
<1> HIDE DEF b, c, d, e, f, x, cells
<1>8. /\ IsSeq(issues)
      /\ issues = <<>> => link = <<>> /\ b = <<>> /\ c = <<>> /\ d = <<>> /\ e = <<>> /\ f = <<>>
  BY <1>1, <1>2, JoinedSix
<1>9. ASSUME issues = <<>>
      PROVE  /\ CalibrationSays(doc)
             /\ ~ Uniform(x) => Given(x.profile) /\ x.profile.path.segs # <<>>
  <2>1. /\ ~ OrdinalizationFault(x.ord) /\ x.encoder.model = doc.embedding.model
        /\ x.ord.dim = doc.meta.dim /\ Compatible(doc.meta, x.ord)
        /\ Uniform(x) => x.ord.kind = "top_k" /\ ~ Given(x.profile)
        /\ ~ Uniform(x) => /\ Given(x.profile) /\ x.profile.path.segs # <<>>
                           /\ x.profile.dim = doc.meta.dim
                           /\ CalibrationProfileShape(x.profile, x.ord) = <<>>
    BY <1>3, <1>4, <1>5, <1>6, <1>7, <1>8, <1>9
  <2>2. x.ord.kind \in {"top_k", "bucket"} => x.ord.arg = doc.meta.param
    BY <2>1 DEF Compatible
  <2>3. x.ord.kind = "top_k" => doc.meta.kind = "bitmap"
    BY <2>1 DEF Compatible
  <2>4. ~ Uniform(x) => cells
    <3>1. HAVE ~ Uniform(x)
    <3>2. SUFFICES ASSUME x.profile.format = "raw_f32_le", x.profile.shape # <<>>
                   PROVE  x.profile.size = Cells(x, doc.meta) * 4
      BY DEF cells
    <3>3. doc.meta.dim \in Nat
      BY DEF Known, Metadata
    <3> QED BY <2>1, <3>1, <3>2, <3>3, RawTable
  <2> QED BY <2>1, <2>2, <2>3, <2>4 DEF CalibrationSays, x, cells
<1> QED BY <1>8, <1>9 DEF x

LEMMA StepVerifyCalibration ==
  ASSUME IInv, VerifyCalibration
  PROVE  IInv'
<1> DEFINE c == doc.calibration
           link == IF Given(doc.distortion) THEN DistortionLink(doc.distortion, c) ELSE <<>>
           first == link \o CalibrationShape(c) \o CalibrationEncoder(c, doc.embedding)
                      \o CalibrationOrdinalization(c, doc.meta) \o CalibrationNull(c)
                      \o CalibrationProfile(c, doc.meta, options.escape)
           outcome == IF Uniform(c) \/ ~ Given(c.profile) THEN "none"
                      ELSE ProfileOutcome("calibration", c.profile)
           lost == Issue(outcome \notin {"ok", "none"}, outcome)
<1>1. /\ pc = "calibration" /\ UNCHANGED fixed /\ turn' = turn /\ paths' = paths
      /\ plan' = plan /\ read' = read /\ pc' \in {"attestations", "hash_calibration"}
  BY DEF VerifyCalibration
<1>2. /\ pc \in AfterAux /\ pc' \in AfterAux /\ pc \in AfterRows /\ pc' \in AfterRows
      /\ pc \in AfterDistortion /\ pc' \in AfterDistortion /\ pc \in Judging
      /\ pc' \in AfterCalibration \cup {"hash_calibration"}
      /\ pc' \notin {"finish", "read_rows", "hash_distortion"}
      /\ pc' \in AfterCalibration <=> pc' = "attestations"
  BY <1>1 DEF Judging, AfterResolve, AfterHash, AfterProbe, AfterAux, AfterRows,
              AfterDistortion, AfterCalibration
<1>3. Known(doc)
  BY <1>1 DEF IInv, Setup, Building
<1>4. IsSeq(link) /\ (link = <<>> => LinkFits(doc))
  <2>1. CASE Given(doc.distortion)
    <3>1. link = DistortionLink(doc.distortion, c)
      BY <2>1
    <3> HIDE DEF link
    <3> QED BY <2>1, <3>1, DistortionLinkClean DEF LinkFits
  <2>2. CASE ~ Given(doc.distortion)
    BY <2>2, Short DEF LinkFits
  <2> QED BY <2>1, <2>2
<1>5. PICK issues :
        /\ IsSeq(issues) /\ report'.errors = report.errors \o issues
        /\ raised' = (raised \/ issues # <<>>)
        /\ DOMAIN report' = DOMAIN report /\ report'.entries = report.entries
        /\ report'.meta = report.meta /\ report'.digest = report.digest
        /\ report'.rows = report.rows
        /\ issues = <<>> =>
             /\ LinkFits(doc)
             /\ \/ pc' = "attestations" /\ ~ Given(c)
                \/ pc' = "attestations" /\ Given(c) /\ CalibrationSays(doc) /\ Uniform(c)
                \/ pc' = "hash_calibration" /\ Given(c) /\ CalibrationSays(doc)
  <2>1. CASE ~ Given(c)
    <3>1. pc' = "attestations" /\ Report(link)
      BY <2>1 DEF VerifyCalibration
    <3> HIDE DEF link, c
    <3> QED BY <1>4, <2>1, <3>1, ReportFields
  <2>2. CASE Given(c)
    <3>1. /\ Report(first \o lost)
          /\ pc' = IF outcome = "ok" THEN "hash_calibration" ELSE "attestations"
      BY <2>2 DEF VerifyCalibration
    <3>2. /\ IsSeq(first)
          /\ first = <<>> => /\ link = <<>> /\ CalibrationSays(doc)
                             /\ ~ Uniform(c) => Given(c.profile) /\ c.profile.path.segs # <<>>
      <4>1. first = link \o CalibrationShape(c) \o CalibrationEncoder(c, doc.embedding)
                      \o CalibrationOrdinalization(c, doc.meta) \o CalibrationNull(c)
                      \o CalibrationProfile(c, doc.meta, options.escape)
        OBVIOUS
      <4> HIDE DEF first, link
      <4> QED BY <1>3, <1>4, <2>2, <4>1, CalibrationJudged
    <3>3. ~ Uniform(c) /\ Given(c.profile) /\ c.profile.path.segs # <<>> => outcome # "none"
      BY OutcomeNone
    <3>4. IsSeq(lost) /\ (lost = <<>> => outcome \in {"ok", "none"})
      BY IssueList
    <3>7. Uniform(c) => outcome = "none"
      OBVIOUS
    <3> HIDE DEF first, link, lost, outcome, c
    <3>5. /\ IsSeq(first \o lost)
          /\ first \o lost = <<>> => first = <<>> /\ lost = <<>>
      BY <3>2, <3>4, Joined
    <3>6. first \o lost = <<>> =>
            /\ LinkFits(doc) /\ CalibrationSays(doc)
            /\ ~ Uniform(c) => outcome = "ok"
      BY <1>4, <3>2, <3>3, <3>4, <3>5
    <3> QED BY <2>2, <3>1, <3>5, <3>6, <3>7, ReportFields
  <2> QED BY <2>1, <2>2
<1>6. /\ Setup' /\ Seen' /\ Ledger' /\ Entries' /\ Planned'
      /\ doc' = doc /\ options' = options
      /\ ~ raised' => /\ ~ raised /\ issues = <<>>
                      /\ ShapeFits(doc, options)' /\ paths'.artifact
                      /\ read'.artifact = doc'.id /\ report'.digest = doc'.id
                      /\ report'.meta = doc'.meta /\ report'.meta # Absent
                      /\ NamesOf(report'.entries) = DOMAIN doc'.aux
                      /\ \A i \in 1 .. Len(report'.entries) :
                           EntryFits(report.entries[i], paths.aux[i], doc, read)'
  BY <1>1, <1>2, <1>5, AfterAuxStep
<1>7. Passed'
  <2>1. SUFFICES ASSUME ~ raised' PROVE Passed'
    BY DEF Passed
  <2>2. /\ RowsFit(doc, options, paths.rows, read, report.rows.lines)
        /\ DistortionFits(doc, read)
    BY <1>2, <1>6, <2>1 DEF IInv, Passed
  <2>3. /\ RowsFit(doc, options, paths.rows, read, report.rows.lines)'
        /\ DistortionFits(doc', read') /\ LinkFits(doc')
    BY <1>1, <1>5, <1>6, <2>1, <2>2
  <2>4. pc' = "attestations" => CalibrationFits(doc', read')
    BY <1>5, <1>6, <2>1 DEF CalibrationFits
  <2>5. pc' = "hash_calibration" => Given(doc'.calibration) /\ CalibrationSays(doc')
    BY <1>5, <1>6, <2>1
  <2> QED BY <1>2, <1>6, <2>1, <2>3, <2>4, <2>5 DEF Passed
<1> QED BY <1>6, <1>7 DEF IInv

LEMMA StepHashCalibration ==
  ASSUME IInv, HashCalibration
  PROVE  IInv'
<1>1. /\ pc = "hash_calibration" /\ pc' = "attestations" /\ UNCHANGED fixed /\ turn' = turn
      /\ paths' = paths /\ plan' = plan
      /\ HashProfile("calibration", doc.calibration.profile)
  BY DEF HashCalibration
<1>2. /\ pc \in AfterAux /\ pc' \in AfterAux /\ pc \in AfterRows /\ pc' \in AfterRows
      /\ pc \in AfterDistortion /\ pc' \in AfterDistortion
      /\ pc \in AfterCalibration \cup {"hash_calibration"}
      /\ pc' \in AfterCalibration \cup {"hash_calibration"}
      /\ pc' \notin {"finish", "read_rows", "hash_distortion", "hash_calibration"}
  BY <1>1 DEF AfterAux, AfterRows, AfterDistortion, AfterCalibration
<1>3. PICK issues :
        /\ IsSeq(issues) /\ report'.errors = report.errors \o issues
        /\ raised' = (raised \/ issues # <<>>)
        /\ DOMAIN report' = DOMAIN report /\ report'.entries = report.entries
        /\ report'.meta = report.meta /\ report'.digest = report.digest
        /\ report'.rows = report.rows
        /\ DOMAIN read' = DOMAIN read /\ DOMAIN read'.profiles = DOMAIN read.profiles
        /\ read'.aux = read.aux /\ read'.artifact = read.artifact /\ read'.rows = read.rows
        /\ read'.profiles["distortion"] = read.profiles["distortion"]
        /\ issues = <<>> => Matches(read', "calibration", doc.calibration.profile)
  <2>1. "calibration" \in Slots /\ "distortion" \in Slots /\ "distortion" # "calibration"
    BY DEF Slots
  <2> QED BY <1>1, <2>1, ProfileHashed
<1>4. /\ Setup' /\ Seen' /\ Ledger' /\ Entries' /\ Planned'
      /\ doc' = doc /\ options' = options
      /\ ~ raised' => /\ ~ raised /\ issues = <<>>
                      /\ ShapeFits(doc, options)' /\ paths'.artifact
                      /\ read'.artifact = doc'.id /\ report'.digest = doc'.id
                      /\ report'.meta = doc'.meta /\ report'.meta # Absent
                      /\ NamesOf(report'.entries) = DOMAIN doc'.aux
                      /\ \A i \in 1 .. Len(report'.entries) :
                           EntryFits(report.entries[i], paths.aux[i], doc, read)'
  BY <1>1, <1>2, <1>3, AfterAuxStep
<1>5. Passed'
  <2>1. SUFFICES ASSUME ~ raised' PROVE Passed'
    BY DEF Passed
  <2>2. /\ RowsFit(doc, options, paths.rows, read, report.rows.lines)
        /\ DistortionFits(doc, read) /\ LinkFits(doc)
        /\ Given(doc.calibration) /\ CalibrationSays(doc)
    BY <1>1, <1>2, <1>4, <2>1 DEF IInv, Passed
  <2>3. RowsFit(doc, options, paths.rows, read, report.rows.lines)'
    BY <1>1, <1>3, <1>4, <2>2 DEF RowsFit
  <2>4. DistortionFits(doc', read')
    BY <1>3, <1>4, <2>2 DEF DistortionFits, Matches
  <2>5. CalibrationFits(doc', read')
    BY <1>3, <1>4, <2>1, <2>2 DEF CalibrationFits
  <2> QED BY <1>1, <1>2, <1>4, <2>1, <2>2, <2>3, <2>4, <2>5 DEF Passed
<1> QED BY <1>4, <1>5 DEF IInv

\* An attestation that is there is about the artifact, or an issue tells.
LEMMA StepVerifyAttestations ==
  ASSUME IInv, VerifyAttestations
  PROVE  IInv'
<1> DEFINE digest == IF Given(report.digest) THEN report.digest ELSE doc.id
           said == Range(doc.attestations)
           wrong == {i \in DOMAIN doc.attestations : ~ doc.attestations[i].predicate}
           types == [i \in 1 .. Cardinality(wrong) |-> "predicate_type"]
           missing == said # {} /\ \A x \in said : digest \notin x.subjects
           subject == Issue(missing, "subject")
           issues == types \o subject
<1>1. /\ pc = "attestations" /\ pc' = "finish" /\ UNCHANGED fixed /\ turn' = turn
      /\ paths' = paths /\ plan' = plan /\ read' = read /\ Report(issues)
  BY DEF VerifyAttestations
<1>2. /\ pc \in AfterAux /\ pc' \in AfterAux /\ pc \in AfterRows /\ pc' \in AfterRows
      /\ pc \in AfterDistortion /\ pc' \in AfterDistortion
      /\ pc \in AfterCalibration /\ pc' \in AfterCalibration
      /\ pc' \notin {"read_rows", "hash_distortion", "hash_calibration"}
  BY <1>1 DEF AfterAux, AfterRows, AfterDistortion, AfterCalibration
<1>3. IsSeq(doc.attestations)
  BY <1>1 DEF IInv, Setup, Known, Building
<1>4. IsSeq(types)
  <2>1. Cardinality(wrong) \in Nat
    <3>1. Len(doc.attestations) \in Nat /\ DOMAIN doc.attestations = 1 .. Len(doc.attestations)
      BY <1>3, Sized
    <3>2. wrong \subseteq 1 .. Len(doc.attestations) /\ IsFiniteSet(1 .. Len(doc.attestations))
      BY <3>1, FS_Interval
    <3> HIDE DEF wrong
    <3>3. IsFiniteSet(wrong)
      BY <3>2, FS_Subset
    <3> QED BY <3>3, FS_CardinalityType
  <2> HIDE DEF wrong
  <2> DEFINE n == Cardinality(wrong)
  <2>2. n \in Nat /\ types \in [1 .. n -> {"predicate_type"}]
    BY <2>1
  <2> HIDE DEF types, n
  <2>3. types \in Seq({"predicate_type"})
    BY <2>2, SeqDef
  <2> QED BY <2>3 DEF IsSeq
<1>5. IsSeq(subject) /\ (subject = <<>> => ~ missing)
  BY IssueList
<1> HIDE DEF types, subject, missing
<1>6. IsSeq(issues) /\ (issues = <<>> => ~ missing)
  BY <1>4, <1>5, Joined
<1> HIDE DEF issues
<1>7. /\ DOMAIN report' = DOMAIN report /\ report'.errors = report.errors \o issues
      /\ report'.meta = report.meta /\ report'.digest = report.digest
      /\ report'.entries = report.entries /\ report'.rows = report.rows
      /\ raised' = (raised \/ issues # <<>>)
  BY <1>1, ReportFields
<1>8. /\ Setup' /\ Seen' /\ Ledger' /\ Entries' /\ Planned'
      /\ doc' = doc /\ options' = options
      /\ ~ raised' => /\ ~ raised /\ issues = <<>>
                      /\ ShapeFits(doc, options)' /\ paths'.artifact
                      /\ read'.artifact = doc'.id /\ report'.digest = doc'.id
                      /\ report'.meta = doc'.meta /\ report'.meta # Absent
                      /\ NamesOf(report'.entries) = DOMAIN doc'.aux
                      /\ \A i \in 1 .. Len(report'.entries) :
                           EntryFits(report.entries[i], paths.aux[i], doc, read)'
  BY <1>1, <1>2, <1>6, <1>7, AfterAuxStep
<1>9. Passed'
  <2>1. SUFFICES ASSUME ~ raised' PROVE Passed'
    BY DEF Passed
  <2>2. /\ RowsFit(doc, options, paths.rows, read, report.rows.lines)
        /\ DistortionFits(doc, read) /\ LinkFits(doc) /\ CalibrationFits(doc, read)
        /\ report.digest = doc.id
    BY <1>2, <1>7, <1>8, <2>1 DEF IInv, Passed
  <2>3. /\ RowsFit(doc, options, paths.rows, read, report.rows.lines)'
        /\ DistortionFits(doc', read') /\ LinkFits(doc') /\ CalibrationFits(doc', read')
    BY <1>1, <1>7, <1>8, <2>2
  <2>4. AttestationFits(doc')
    <3>1. digest = doc.id /\ ~ missing
      BY <1>6, <1>8, <2>1, <2>2
    <3>2. doc.attestations # <<>> => said # {}
      <4>1. HAVE doc.attestations # <<>>
      <4>2. 1 \in DOMAIN doc.attestations
        BY <1>3, <4>1, Sized
      <4> QED BY <4>2 DEF Range
    <3> HIDE DEF digest, said
    <3> QED BY <1>8, <3>1, <3>2 DEF AttestationFits, missing, said
  <2> QED BY <1>2, <1>8, <2>1, <2>3, <2>4 DEF Passed
<1> QED BY <1>8, <1>9 DEF IInv

\* Outside a verification nothing is asked of a report.
LEMMA NotJudging ==
  ASSUME pc' \notin Judging
  PROVE  Entries' /\ Passed'
<1>1. /\ pc' \notin AfterResolve /\ pc' \notin AfterHash /\ pc' \notin AfterProbe
      /\ pc' \notin AfterAux /\ pc' \notin AfterRows /\ pc' \notin AfterDistortion
      /\ pc' \notin AfterCalibration
      /\ pc' \notin {"hash_aux", "read_rows", "hash_distortion", "hash_calibration", "finish"}
  BY DEF Judging, AfterResolve, AfterHash, AfterProbe, AfterAux, AfterRows,
         AfterDistortion, AfterCalibration
<1> QED BY <1>1 DEF Entries, Passed

\* A plan that is made of a report without errors tells of what was read.
LEMMA PlanFits ==
  ASSUME IInv, pc = "finish", ~ raised, UNCHANGED <<doc, options, read>>
  PROVE  Complete /\ (plan' = PlanFromReport => PlanSound')
<1>1. /\ pc \in Judging /\ pc \in AfterResolve /\ pc \in AfterHash /\ pc \in AfterProbe
      /\ pc \in AfterAux /\ pc \in AfterRows /\ pc \in AfterDistortion /\ pc \in AfterCalibration
  BY DEF Judging, AfterResolve, AfterHash, AfterProbe, AfterAux, AfterRows,
         AfterDistortion, AfterCalibration
<1>2. /\ ShapeFits(doc, options) /\ paths.artifact /\ read.artifact = doc.id
      /\ report.meta = doc.meta /\ report.meta # Absent
      /\ \A i \in 1 .. Len(report.entries) :
           EntryFits(report.entries[i], paths.aux[i], doc, read)
      /\ NamesOf(report.entries) = DOMAIN doc.aux
      /\ RowsFit(doc, options, paths.rows, read, report.rows.lines)
      /\ DistortionFits(doc, read) /\ LinkFits(doc) /\ CalibrationFits(doc, read)
      /\ AttestationFits(doc)
  BY <1>1 DEF IInv, Passed
<1>3. /\ DOMAIN report.entries = 1 .. Len(report.entries)
      /\ DOMAIN paths.aux = DOMAIN report.entries
  <2>1. /\ IsSeq(report.entries) /\ IsSeq(paths.aux)
        /\ Len(paths.aux) = Len(report.entries)
    BY <1>1 DEF IInv, Entries
  <2> QED BY <2>1, Sized
<1>4. DOMAIN doc.aux \subseteq Names /\ Absent \notin Names
  BY LoadPlanAssumption DEF IInv, Setup, Known, Building
<1>5. ASSUME NEW i \in DOMAIN report.entries
       PROVE  /\ report.entries[i].name \in DOMAIN doc.aux
              /\ \/ /\ report.entries[i].state = "optional_absent"
                    /\ ~ doc.aux[report.entries[i].name].required
                 \/ /\ report.entries[i].state = "verified"
                    /\ paths.aux[i] = report.entries[i].name /\ paths.aux[i] # Absent
                    /\ read.aux[report.entries[i].name] = doc.aux[report.entries[i].name].id
  <2>1. EntryFits(report.entries[i], paths.aux[i], doc, read)
    BY <1>2, <1>3
  <2> QED BY <1>4, <2>1 DEF EntryFits
<1>6. Complete
  BY <1>2, <1>3, <1>5 DEF Complete, RowsFit
<1> SUFFICES ASSUME plan' = PlanFromReport PROVE PlanSound'
  BY <1>6
<1> DEFINE places == [i \in DOMAIN report.entries |->
                        [name |-> report.entries[i].name,
                         path |-> IF report.entries[i].state = "verified"
                                  THEN paths.aux[i] ELSE Absent]]
<1>7. /\ plan'.meta = doc.meta /\ plan'.rows = report.rows /\ plan'.aux = places
  BY <1>2 DEF PlanFromReport
<1>8. /\ DOMAIN places = DOMAIN report.entries
      /\ \A i \in DOMAIN report.entries :
           /\ places[i].name = report.entries[i].name
           /\ places[i].path = IF report.entries[i].state = "verified"
                               THEN paths.aux[i] ELSE Absent
  OBVIOUS
<1> HIDE DEF places
<1>9. doc'.lines # Absent =>
         /\ read'.rows = doc'.lines /\ plan'.rows.lines = doc'.lines
         /\ GoodMap(doc'.lines, doc'.meta.vectors, options')
  BY <1>2, <1>7 DEF RowsFit, ShapeFits
<1>10. {plan'.aux[i].name : i \in DOMAIN plan'.aux} = DOMAIN doc'.aux
  BY <1>2, <1>7, <1>8 DEF NamesOf
<1>11. ASSUME NEW i \in DOMAIN plan'.aux
       PROVE  LET name == plan'.aux[i].name
              IN  IF plan'.aux[i].path = Absent THEN ~ doc'.aux[name].required
                  ELSE plan'.aux[i].path = name /\ read'.aux[name] = doc'.aux[name].id
  BY <1>7, <1>8, <1>5
<1>12. Given(doc'.distortion) => DistortionSound(doc.distortion)'
  <2>1. HAVE Given(doc'.distortion)
  <2>2. DistortionSays(doc) /\ doc.embedding.dim = doc.meta.dim
    BY <1>2, <2>1 DEF DistortionFits, ShapeFits
  <2>3. Given(doc.distortion.profile) => Matches(read, "distortion", doc.distortion.profile)
    BY <1>2, <2>1 DEF DistortionFits
  <2> QED BY <1>2, <1>7, <2>1, <2>2, <2>3
          DEF DistortionSound, DistortionSays, LinkFits, ProfileRead, Matches
<1>13. Given(doc'.calibration) => CalibrationSound(doc.calibration)'
  <2>1. HAVE Given(doc'.calibration)
  <2> DEFINE c == doc.calibration
  <2>2. CalibrationSays(doc) /\ (~ Uniform(c) => Matches(read, "calibration", c.profile))
    BY <1>2, <2>1 DEF CalibrationFits
  <2>3. c.profile.format = "raw_f32_le" /\ c.profile.shape # <<>> /\ ~ Uniform(c) =>
          read.profiles["calibration"].size = Cells(c, plan'.meta) * 4
    BY <1>7, <2>2 DEF CalibrationSays, Matches
  <2> HIDE DEF c
  <2>5. \/ Uniform(c) /\ plan'.meta.kind = "bitmap" /\ ~ Given(c.profile)
        \/ ~ Uniform(c) /\ Given(c.profile) /\ ProfileRead("calibration", c.profile)'
           /\ c.profile.dim = plan'.meta.dim
    BY <1>7, <2>2 DEF CalibrationSays, Matches, ProfileRead, c
  <2>6. /\ c.encoder.model = doc.embedding.model /\ c.ord.dim = plan'.meta.dim
        /\ c.ord.kind \in {"top_k", "bucket"} => c.ord.arg = plan'.meta.param
    BY <1>7, <2>2 DEF CalibrationSays, c
  <2> QED BY <2>3, <2>5, <2>6 DEF CalibrationSound, Cells, c
<1>14. doc'.attestations # <<>> =>
          \E x \in Range(doc'.attestations) : read'.artifact \in x.subjects
  BY <1>2 DEF AttestationFits
<1> QED BY <1>2, <1>7, <1>9, <1>10, <1>11, <1>12, <1>13, <1>14 DEF PlanSound

LEMMA StepFinish ==
  ASSUME IInv, Finish
  PROVE  IInv'
<1> DEFINE errors == EnforceLimit(report.errors, options.maxIssues)
           ok == errors = <<>>
<1>1. /\ pc = "finish" /\ UNCHANGED fixed /\ UNCHANGED <<turn, paths, raised, read>>
      /\ report' = [report EXCEPT !.errors = errors, !.ok = ok]
      /\ plan' = IF ok /\ Complete THEN PlanFromReport ELSE Absent
      /\ pc' = IF ~ ok THEN "refused" ELSE IF Complete THEN "planned" ELSE "incomplete"
  BY DEF Finish
<1>2. /\ index' = index /\ rowMap' = rowMap /\ aux' = aux /\ profiles' = profiles
      /\ options' = options /\ doc' = doc
  BY <1>1 DEF fixed, files, creating
<1>3. /\ IsSeq(report.errors) /\ (raised <=> report.errors # <<>>) /\ raised \in BOOLEAN
      /\ options.maxIssues \in Nat
      /\ DOMAIN report = {"errors", "meta", "digest", "entries", "rows", "ok"}
  <2>1. pc \in Judging
    BY <1>1 DEF Judging, AfterResolve, AfterHash, AfterProbe, AfterAux, AfterRows,
                AfterDistortion, AfterCalibration
  <2> QED BY <2>1 DEF IInv, Setup, Ledger, Option
<1>4. /\ ok <=> ~ raised
      /\ Len(errors) <= IF options.maxIssues = 0 THEN 1 ELSE options.maxIssues
      /\ ok \in BOOLEAN
  BY <1>3, Enforced
<1> HIDE DEF errors, ok
<1>5. DOMAIN report' = DOMAIN report /\ report'.errors = errors /\ report'.ok = ok
  BY <1>1, <1>3
<1>6. ok => Complete
  BY <1>1, <1>2, <1>4, PlanFits
<1>7. pc' = (IF raised THEN "refused" ELSE "planned") /\ pc' \in Decided
  BY <1>1, <1>4, <1>6 DEF Decided
<1>8. Setup'
  BY <1>1, <1>2, <1>5, <1>7 DEF IInv, Setup, Decided, Building
<1>9. Seen'
  BY <1>7 DEF Seen, Building
<1>10. pc' \notin Judging
  BY <1>7 DEF Judging, AfterResolve, AfterHash, AfterProbe, AfterAux, AfterRows,
              AfterDistortion, AfterCalibration
<1>11. Ledger'
  BY <1>1, <1>2, <1>3, <1>4, <1>5, <1>10 DEF Ledger
<1>12. Entries' /\ Passed'
  BY <1>10, NotJudging
<1>13. Planned'
  <2>1. CASE raised
    BY <1>1, <1>4, <1>7, <2>1 DEF Planned, PlanSound
  <2>2. CASE ~ raised
    <3>1. plan' = PlanFromReport /\ pc' = "planned"
      BY <1>1, <1>4, <1>6, <2>2, <1>7
    <3>2. PlanSound'
      BY <1>1, <1>2, <2>2, <3>1, PlanFits
    <3> QED BY <3>1, <3>2 DEF Planned
  <2> QED BY <2>1, <2>2
<1> QED BY <1>8, <1>9, <1>11, <1>12, <1>13 DEF IInv

\* A plan whose manifest and evidence stay is as sound as it was.
LEMMA SamePlan ==
  ASSUME PlanSound, UNCHANGED <<plan, doc, options, read>>
  PROVE  PlanSound'
BY DEF PlanSound, DistortionSound, CalibrationSound, ProfileRead

LEMMA StepVerifyShape ==
  ASSUME IInv, VerifyShape
  PROVE  IInv'
<1> DEFINE first == ArtifactShape
           second == AuxShape
           third == EmbeddingShape(doc.embedding)
           fourth == BuildShape(doc.build)
           issues == first \o second \o third \o fourth
<1>1. /\ pc = "verify" /\ pc' = "resolve_artifact" /\ turn' = 1 /\ UNCHANGED fixed
      /\ report' = [NoReport EXCEPT !.errors = issues] /\ raised' = (issues # <<>>)
      /\ paths' = NoPaths /\ plan' = Absent /\ read' = NoneRead
  BY DEF VerifyShape
<1>2. /\ index' = index /\ rowMap' = rowMap /\ aux' = aux /\ profiles' = profiles
      /\ options' = options /\ doc' = doc
  BY <1>1 DEF fixed, files, creating
<1>3. DOMAIN doc.aux \subseteq Names /\ Known(doc)
  BY <1>1 DEF IInv, Setup, Known, Building
<1>4. IsSeq(first) /\ IsSeq(second) /\ IsSeq(third) /\ IsSeq(fourth)
  BY ArtifactClean, AuxShapeClean, EmbeddingIssues, LoadPlanAssumption
<1>5. /\ first = <<>> => doc.meta.dim = doc.embedding.dim /\ doc.meta.vectors = doc.rowCount
      /\ second = <<>> =>
           AuxCounted /\ \A n \in Names : n \in DOMAIN doc.aux => doc.aux[n].path.segs # <<>>
  BY ArtifactClean, AuxShapeClean, ArtifactIssuesNone, PathIssues, LoadPlanAssumption
<1> HIDE DEF first, second, third, fourth
<1>6. IsSeq(issues) /\ (issues = <<>> => first = <<>> /\ second = <<>>)
  <2>1. IsSeq(first \o second) /\ (first \o second = <<>> <=> first = <<>> /\ second = <<>>)
    BY <1>4, Joined
  <2>2. /\ IsSeq(first \o second \o third)
        /\ first \o second \o third = <<>> => first \o second = <<>>
    BY <1>4, <2>1, Joined
  <2>3. /\ IsSeq(first \o second \o third \o fourth)
        /\ first \o second \o third \o fourth = <<>> => first \o second \o third = <<>>
    BY <1>4, <2>2, Joined
  <2> QED BY <2>1, <2>2, <2>3
<1>7. issues = <<>> => ShapeFits(doc, options)
  BY <1>3, <1>5, <1>6 DEF ShapeFits, AuxCounted
<1> HIDE DEF issues
<1>8. /\ DOMAIN report' = {"errors", "meta", "digest", "entries", "rows", "ok"}
      /\ report'.errors = issues /\ report'.entries = <<>>
      /\ DOMAIN paths' = {"artifact", "rows", "aux"} /\ paths'.aux = <<>>
      /\ DOMAIN read' = {"artifact", "rows", "aux", "profiles"}
      /\ DOMAIN read'.aux = Names /\ DOMAIN read'.profiles = Slots
  BY <1>1 DEF NoReport, NoPaths, NoneRead
<1>9. /\ pc' \in Judging /\ pc' \notin AfterResolve /\ pc' \notin AfterHash
      /\ pc' \notin AfterProbe /\ pc' \notin AfterAux /\ pc' \notin AfterRows
      /\ pc' \notin AfterDistortion /\ pc' \notin AfterCalibration
      /\ pc' \notin {"hash_aux", "read_rows", "hash_distortion", "hash_calibration", "finish"}
      /\ pc' \notin Building /\ pc' \notin Decided
  BY <1>1 DEF Judging, AfterResolve, AfterHash, AfterProbe, AfterAux, AfterRows,
              AfterDistortion, AfterCalibration, Building, Decided
<1>10. Setup' /\ Seen'
  <2>1. raised' \in BOOLEAN /\ turn' \in Nat \ {0}
    BY <1>1
  <2> QED BY <1>2, <1>3, <1>8, <1>9, <2>1 DEF IInv, Setup, Seen
<1>11. Ledger'
  BY <1>1, <1>6, <1>8, <1>9 DEF Ledger
<1>12. Entries'
  <2>1. NamesOf(<<>>) = {} /\ IsSeq(<<>>) /\ Len(<<>>) = 0
    BY Short DEF NamesOf
  <2>2. DeclaredBefore(doc, 1) = {}
    <3>1. DOMAIN Aux = 1 .. Len(Aux) /\ Len(Aux) \in Nat
      BY LoadPlanAssumption, LenProperties
    <3>2. \A j \in DOMAIN Aux : ~ j < 1
      BY <3>1
    <3> QED BY <3>2 DEF DeclaredBefore
  <2> QED BY <1>1, <1>2, <1>8, <1>9, <2>1, <2>2 DEF Entries
<1>13. Passed'
  <2>1. \A i \in 1 .. Len(report'.entries) : FALSE
    <3>1. Len(<<>>) = 0
      BY Short, Sized
    <3> QED BY <1>8, <3>1
  <2> QED BY <1>1, <1>2, <1>7, <1>9, <2>1 DEF Passed
<1>14. Planned'
  BY <1>1 DEF Planned, PlanSound
<1> QED BY <1>10, <1>11, <1>12, <1>13, <1>14 DEF IInv

LEMMA StepVerifyAgain ==
  ASSUME IInv, VerifyAgain
  PROVE  IInv'
<1>1. /\ pc \in {"refused", "planned"} /\ pc' = "verify" /\ UNCHANGED fixed /\ turn' = turn
      /\ UNCHANGED <<report, paths, plan, raised, read>>
  BY DEF VerifyAgain, verifying
<1>2. /\ index' = index /\ rowMap' = rowMap /\ aux' = aux /\ profiles' = profiles
      /\ options' = options /\ doc' = doc
  BY <1>1 DEF fixed, files, creating
<1>3. pc' \notin Judging /\ pc' \notin Building /\ pc' \notin Decided /\ pc \notin Building
  BY <1>1 DEF Judging, AfterResolve, AfterHash, AfterProbe, AfterAux, AfterRows,
              AfterDistortion, AfterCalibration, Building, Decided
<1>4. Setup'
  BY <1>1, <1>2, <1>3 DEF IInv, Setup
<1>5. Seen' /\ Ledger'
  BY <1>3 DEF Seen, Ledger
<1>6. Entries' /\ Passed'
  BY <1>3, NotJudging
<1>7. Planned'
  BY <1>1, <1>2, SamePlan DEF IInv, Planned
<1> QED BY <1>4, <1>5, <1>6, <1>7 DEF IInv

LEMMA StepLoadManifest ==
  ASSUME IInv, LoadManifest
  PROVE  IInv'
<1>1. /\ pc = "load" /\ pc' \in {"failed", "verify"} /\ UNCHANGED fixed /\ turn' = turn
      /\ UNCHANGED <<report, paths, plan, raised, read>>
  BY DEF LoadManifest, verifying
<1>2. /\ index' = index /\ rowMap' = rowMap /\ aux' = aux /\ profiles' = profiles
      /\ options' = options /\ doc' = doc
  BY <1>1 DEF fixed, files, creating
<1>3. pc' \notin Judging /\ pc' \notin Building /\ pc' \notin Decided /\ pc \notin Building
  BY <1>1 DEF Judging, AfterResolve, AfterHash, AfterProbe, AfterAux, AfterRows,
              AfterDistortion, AfterCalibration, Building, Decided
<1>4. Setup'
  BY <1>1, <1>2, <1>3 DEF IInv, Setup
<1>5. Seen' /\ Ledger'
  BY <1>3 DEF Seen, Ledger
<1>6. Entries' /\ Passed'
  BY <1>3, NotJudging
<1>7. Planned'
  BY <1>1 DEF IInv, Planned, PlanSound
<1> QED BY <1>4, <1>5, <1>6, <1>7 DEF IInv

\* Others replace files: nothing that is known is about the files themselves.
LEMMA StepReplace ==
  ASSUME IInv, Replace
  PROVE  IInv'
<1>1. /\ UNCHANGED <<options, doc, seen, pc, turn, report, paths, plan, raised, read>>
  BY DEF Replace, creating, verifying
<1>2. /\ index' \in Maybe(Indexes) /\ rowMap' \in Maybe(RowMaps)
      /\ aux' \in [Names -> Maybe(AuxFiles)] /\ profiles' \in [Slots -> Maybe(AuxFiles)]
  BY DEF IInv, Setup, Replace, Maybe
<1>3. Setup' /\ Seen' /\ Ledger'
  BY <1>1, <1>2 DEF IInv, Setup, Seen, Ledger
<1>4. Entries'
  BY <1>1 DEF IInv, Entries
<1>5. Passed'
  BY <1>1 DEF IInv, Passed
<1>6. Planned'
  BY <1>1, SamePlan DEF IInv, Planned
<1> QED BY <1>3, <1>4, <1>5, <1>6 DEF IInv

-----------------------------------------------------------------------------
(* Creation.                                                                *)

\* A step of a creation has only to keep what creation has seen.
LEMMA CreateFrame ==
  ASSUME IInv, pc \in Building, UNCHANGED <<files, options, doc, verifying>>,
         turn' \in Nat \ {0}, pc' \in Building \cup {"failed"}, Seen'
  PROVE  IInv'
<1>1. /\ index' = index /\ rowMap' = rowMap /\ aux' = aux /\ profiles' = profiles
      /\ options' = options /\ doc' = doc
      /\ UNCHANGED <<report, paths, plan, raised, read>>
  BY DEF files, verifying
<1>2. pc' \notin Judging /\ pc' \notin Decided /\ pc' # "incomplete"
  BY DEF Judging, AfterResolve, AfterHash, AfterProbe, AfterAux, AfterRows,
         AfterDistortion, AfterCalibration, Building, Decided
<1>3. Setup'
  BY <1>1 DEF IInv, Setup
<1>4. Ledger'
  BY <1>2 DEF Ledger
<1>5. Entries' /\ Passed'
  BY <1>2, NotJudging
<1>6. plan = Absent
  BY DEF IInv, Planned, Building
<1>7. Planned'
  BY <1>1, <1>2, <1>6 DEF Planned, PlanSound
<1> QED BY <1>3, <1>4, <1>5, <1>7 DEF IInv

LEMMA StepCreateProbe ==
  ASSUME IInv, CreateProbe
  PROVE  IInv'
<1>1. /\ pc = "create" /\ pc \in Building /\ UNCHANGED <<files, options, doc, verifying>>
      /\ turn' = turn /\ pc' \in {"create_hash", "failed"}
  BY DEF CreateProbe, CreateFails, Building
<1>2. DOMAIN seen = {"meta", "size", "id", "lines", "aux", "path", "rowPath"}
      /\ IsSeq(seen.aux) /\ \A i \in 1 .. Len(seen.aux) : seen.aux[i].name \in Names
  BY <1>1 DEF IInv, Seen
<1>3. ASSUME pc' = "failed" PROVE Seen'
  BY <1>3 DEF Seen, Building
<1>4. ASSUME pc' = "create_hash" PROVE Seen'
  <2>1. /\ index # Absent /\ index.meta # Absent
        /\ seen' = [seen EXCEPT !.meta = index.meta, !.size = index.size]
    BY <1>1, <1>4 DEF CreateProbe, CreateFails
  <2>2. index.meta \in Metadata
    BY <2>1, LoadPlanAssumption DEF IInv, Setup, Maybe
  <2>3. DOMAIN seen' = DOMAIN seen /\ seen'.meta = index.meta /\ seen'.aux = seen.aux
    BY <1>2, <2>1
  <2> QED BY <1>2, <1>4, <2>2, <2>3 DEF Seen
<1>5. Seen' /\ turn' \in Nat \ {0}
  BY <1>1, <1>3, <1>4 DEF IInv, Setup
<1> QED BY <1>1, <1>5, CreateFrame DEF Building

LEMMA StepCreateHash ==
  ASSUME IInv, CreateHash
  PROVE  IInv'
<1>1. /\ pc = "create_hash" /\ pc \in Building /\ UNCHANGED <<files, options, doc, verifying>>
      /\ turn' = turn /\ pc' \in {"create_rows", "failed"}
  BY DEF CreateHash, CreateFails, Building
<1>2. DOMAIN seen = {"meta", "size", "id", "lines", "aux", "path", "rowPath"}
      /\ IsSeq(seen.aux) /\ (\A i \in 1 .. Len(seen.aux) : seen.aux[i].name \in Names)
      /\ seen.meta \in Metadata
  BY <1>1 DEF IInv, Seen
<1>3. ASSUME pc' = "failed" PROVE Seen'
  BY <1>3 DEF Seen, Building
<1>4. ASSUME pc' = "create_rows" PROVE Seen'
  <2> DEFINE path == RelativeTo(index.at)
  <2>1. seen.meta.covered /\ seen' = [seen EXCEPT !.id = index.id, !.path = path]
    BY <1>1, <1>4 DEF CreateHash, CreateFails
  <2> HIDE DEF path
  <2>2. DOMAIN seen' = DOMAIN seen /\ seen'.meta = seen.meta /\ seen'.aux = seen.aux
    BY <1>2, <2>1
  <2> QED BY <1>2, <1>4, <2>1, <2>2 DEF Seen
<1>5. Seen' /\ turn' \in Nat \ {0}
  BY <1>1, <1>3, <1>4 DEF IInv, Setup
<1> QED BY <1>1, <1>5, CreateFrame DEF Building

LEMMA StepCreateRows ==
  ASSUME IInv, CreateRows
  PROVE  IInv'
<1>1. /\ pc = "create_rows" /\ pc \in Building /\ UNCHANGED <<files, options, doc, verifying>>
      /\ turn' = turn /\ pc' \in {"create_aux", "failed"}
  BY DEF CreateRows, CreateFails, Building
<1>2. DOMAIN seen = {"meta", "size", "id", "lines", "aux", "path", "rowPath"}
      /\ IsSeq(seen.aux) /\ (\A i \in 1 .. Len(seen.aux) : seen.aux[i].name \in Names)
      /\ seen.meta \in Metadata /\ seen.meta.covered
  BY <1>1 DEF IInv, Seen
<1>3. ASSUME pc' = "failed" PROVE Seen'
  BY <1>3 DEF Seen, Building
<1>4. ASSUME pc' = "create_aux" PROVE Seen'
  <2> DEFINE path == RelativeTo(rowMap.at)
  <2>1. seen' = seen \/ seen' = [seen EXCEPT !.lines = rowMap.lines, !.rowPath = path]
    BY <1>1, <1>4 DEF CreateRows, CreateFails
  <2> HIDE DEF path
  <2>2. DOMAIN seen' = DOMAIN seen /\ seen'.meta = seen.meta /\ seen'.aux = seen.aux
    BY <1>2, <2>1
  <2> QED BY <1>2, <1>4, <2>2 DEF Seen
<1>5. Seen' /\ turn' \in Nat \ {0}
  BY <1>1, <1>3, <1>4 DEF IInv, Setup
<1> QED BY <1>1, <1>5, CreateFrame DEF Building

LEMMA StepCreateAux ==
  ASSUME IInv, CreateAux
  PROVE  IInv'
<1> DEFINE name == Aux[turn]
           file == aux[name]
           entry == [name |-> name, id |-> file.id, size |-> file.size,
                     path |-> RelativeTo(file.at)]
<1>1. /\ pc = "create_aux" /\ pc \in Building /\ UNCHANGED <<files, options, doc, verifying>>
      /\ \/ pc' = "failed" /\ seen' = seen /\ turn' = turn
         \/ pc' = "create_aux" /\ seen' = seen /\ turn' = turn + 1
         \/ pc' = "create_aux" /\ seen' = [seen EXCEPT !.aux = Append(@, entry)] /\ turn' = turn + 1
  BY DEF CreateAux, CreateFails, Building
<1>2. DOMAIN seen = {"meta", "size", "id", "lines", "aux", "path", "rowPath"}
      /\ IsSeq(seen.aux) /\ (\A i \in 1 .. Len(seen.aux) : seen.aux[i].name \in Names)
      /\ seen.meta \in Metadata /\ seen.meta.covered
  BY <1>1 DEF IInv, Seen
<1>3. entry.name \in Names
  <2>1. Len(Aux) \in Nat /\ DOMAIN Aux = 1 .. Len(Aux)
    BY LoadPlanAssumption, LenProperties
  <2>2. turn \in Nat \ {0} /\ turn <= Len(Aux)
    BY DEF IInv, Setup, CreateAux
  <2>3. turn \in DOMAIN Aux
    BY <2>1, <2>2
  <2> QED BY <2>3 DEF Names
<1> HIDE DEF entry
<1>4. Seen'
  <2>1. CASE seen' = seen
    BY <1>1, <1>2, <2>1 DEF Seen
  <2>2. CASE seen' = [seen EXCEPT !.aux = Append(@, entry)]
    <3> DEFINE longer == Append(seen.aux, entry)
    <3>1. seen' = [seen EXCEPT !.aux = longer]
      BY <2>2
    <3>2. /\ IsSeq(longer) /\ Len(longer) = Len(seen.aux) + 1 /\ Len(seen.aux) \in Nat
          /\ \A i \in 1 .. Len(seen.aux) : longer[i] = seen.aux[i]
          /\ longer[Len(seen.aux) + 1] = entry
      BY <1>2, Longer
    <3> HIDE DEF longer
    <3>3. DOMAIN seen' = DOMAIN seen /\ seen'.meta = seen.meta /\ seen'.aux = longer
      BY <1>2, <3>1
    <3>4. \A i \in 1 .. Len(longer) : i \in 1 .. Len(seen.aux) \/ i = Len(seen.aux) + 1
      BY <3>2
    <3>5. \A i \in 1 .. Len(longer) : longer[i].name \in Names
      BY <1>2, <1>3, <3>2, <3>4
    <3> QED BY <1>2, <3>2, <3>3, <3>5 DEF Seen
  <2> QED BY <1>1, <2>1, <2>2
<1>5. turn' \in Nat \ {0}
  BY <1>1 DEF IInv, Setup
<1> QED BY <1>1, <1>4, <1>5, CreateFrame DEF Building

\* A manifest that create has made is one that verification can judge.
LEMMA StepCreateManifest ==
  ASSUME IInv, CreateManifest
  PROVE  IInv'
<1> DEFINE entry(n) == CHOOSE e \in Range(seen.aux) : e.name = n
           embedding == [model |-> request.model, dim |-> seen.meta.dim,
                         revision |-> Absent, normalization |-> Absent,
                         tokenizer |-> Absent, pooling |-> Absent,
                         corpus |-> Absent, matrix |-> Absent]
           given == {e.name : e \in Range(seen.aux)}
           artifacts == [n \in given |->
                           [id |-> entry(n).id, size |-> entry(n).size,
                            path |-> entry(n).path, required |-> request.required[n]]]
<1>1. /\ pc = "create_aux" /\ pc' = "verify" /\ turn' = 1
      /\ UNCHANGED <<files, options, verifying>>
      /\ doc' = [bytes |-> 0, current |-> TRUE,
                 path |-> seen.path, id |-> seen.id, size |-> seen.size, meta |-> seen.meta,
                 embedding |-> embedding, distortion |-> Absent, calibration |-> Absent,
                 rowCount |-> seen.meta.vectors, lines |-> seen.lines,
                 rowPath |-> seen.rowPath, aux |-> artifacts,
                 build |-> Absent, attestations |-> <<>>]
  BY DEF CreateManifest
<1>2. /\ IsSeq(seen.aux) /\ (\A i \in 1 .. Len(seen.aux) : seen.aux[i].name \in Names)
      /\ seen.meta \in Metadata /\ seen.meta.covered
  BY <1>1 DEF IInv, Seen, Building
<1>3. DOMAIN artifacts = given
  OBVIOUS
<1>4. given \subseteq Names
  BY <1>2, Sized DEF Range
<1> HIDE DEF embedding, given, artifacts
<1>5. Known(doc')
  <2>1. /\ doc'.meta = seen.meta /\ doc'.rowCount = seen.meta.vectors
        /\ doc'.aux = artifacts /\ doc'.attestations = <<>> /\ doc'.distortion = Absent
    BY <1>1
  <2>2. seen.meta.vectors \in Nat
    BY <1>2 DEF Metadata
  <2> QED BY <1>2, <1>3, <1>4, <2>1, <2>2, Short DEF Known, Given
<1>6. /\ index' = index /\ rowMap' = rowMap /\ aux' = aux /\ profiles' = profiles
      /\ options' = options /\ UNCHANGED <<report, paths, plan, raised, read>>
  BY <1>1 DEF files, verifying
<1>7. /\ pc' \notin Judging /\ pc' \notin Decided /\ pc' \notin Building
      /\ pc' # "incomplete" /\ turn' \in Nat \ {0}
  BY <1>1 DEF Judging, AfterResolve, AfterHash, AfterProbe, AfterAux, AfterRows,
              AfterDistortion, AfterCalibration, Building, Decided
<1>8. Setup'
  BY <1>1, <1>5, <1>6, <1>7 DEF IInv, Setup
<1>9. Seen' /\ Ledger'
  BY <1>7 DEF Seen, Ledger
<1>10. Entries' /\ Passed'
  BY <1>7, NotJudging
<1>11. plan = Absent
  BY <1>1 DEF IInv, Planned
<1>12. Planned'
  BY <1>6, <1>7, <1>11 DEF Planned, PlanSound
<1> QED BY <1>8, <1>9, <1>10, <1>12 DEF IInv

-----------------------------------------------------------------------------
(* The paths that creation embeds.                                          *)

\* Two locations have a longest common prefix.
LEMMA CommonLength ==
  ASSUME NEW s \in Seq(STRING), NEW t \in Seq(STRING)
  PROVE  Len(LongestCommonPrefix({s, t})) \in 0 .. Len(s)
<1> DEFINE C == CommonPrefixes({s, t})
           Missing == {Len(s) - Len(p) : p \in C}
<1>1. Len(s) \in Nat /\ Len(t) \in Nat
  BY LenProperties
<1>2. <<>> \in C
  <2>1. <<>> \in Prefixes(s)
    BY DEF Prefixes
  <2>2. Len(<<>>) = 0
    BY EmptySeq
  <2>3. \A u \in {s, t} : SubSeq(<<>>, 1, 0) = SubSeq(u, 1, 0)
    OBVIOUS
  <2>4. \A u \in {s, t} : IsPrefix(<<>>, u)
    BY <1>1, <2>2, <2>3 DEF IsPrefix
  <2> QED BY <2>1, <2>4 DEF CommonPrefixes
<1>3. \A p \in C : Len(p) \in 0 .. Len(s)
  <2>1. ASSUME NEW p \in C PROVE Len(p) \in Nat /\ Len(p) <= Len(s)
    <3>1. Len(p) <= Len(s)
      BY DEF CommonPrefixes, IsPrefix
    <3>2. PICK u \in {s, t} : p \in Prefixes(u)
      BY DEF CommonPrefixes
    <3>3. CASE p = <<>>
      BY <3>1, <3>3, EmptySeq
    <3>4. CASE \E l \in 1 .. Len(u) : p = SubSeq(u, 1, l)
      <4>1. PICK l \in 1 .. Len(u) : p = SubSeq(u, 1, l)
        BY <3>4
      <4>2. u \in Seq(STRING) /\ Len(u) \in Nat
        BY <1>1
      <4>3. Len(p) = l
        BY <4>1, <4>2, SubSeqProperties
      <4> QED BY <1>1, <3>1, <4>2, <4>3
    <3> QED BY <3>2, <3>3, <3>4 DEF Prefixes
  <2> QED BY <1>1, <2>1
<1> HIDE DEF C
<1>4. \E p \in C : \A q \in C : Len(q) <= Len(p)
  <2>1. Missing \in SUBSET Nat /\ Missing # {}
    BY <1>1, <1>2, <1>3
  <2>2. PICK m \in Missing : \A k \in Missing : m <= k
    <3> HIDE DEF Missing
    <3> QED BY <2>1, LeastNumber
  <2>3. PICK p \in C : m = Len(s) - Len(p)
    OBVIOUS
  <2>4. ASSUME NEW q \in C PROVE Len(q) <= Len(p)
    <3>1. Len(s) - Len(p) <= Len(s) - Len(q)
      BY <2>2, <2>3
    <3>2. Len(q) \in Nat /\ Len(p) \in Nat
      BY <1>1, <1>3
    <3> QED BY <1>1, <3>1, <3>2
  <2> QED BY <2>4
<1>5. LongestCommonPrefix({s, t}) \in C
  BY <1>4 DEF LongestCommonPrefix, C
<1> QED BY <1>3, <1>5

\* A path that creation embeds is relative, and a text of some names.
LEMMA RelativePath ==
  ASSUME NEW at \in Seq(STRING)
  PROVE  RelativeTo(at).absolute = FALSE /\ IsSeq(RelativeTo(at).segs)
<1> DEFINE c == Len(LongestCommonPrefix({Base, at}))
           up == [i \in 1 .. Len(Base) - c |-> ".."]
           down == SubSeq(at, c + 1, Len(at))
<1>1. Base \in Seq(STRING) /\ Len(Base) \in Nat /\ Len(at) \in Nat
  BY PathsAssumption, LenProperties
<1>2. c \in 0 .. Len(Base)
  BY <1>1, CommonLength
<1>3. RelativeTo(at) = [absolute |-> FALSE, segs |-> up \o down]
  BY DEF RelativeTo
<1> HIDE DEF c
<1>4. IsSeq(up)
  <2>1. Len(Base) - c \in Nat
    BY <1>1, <1>2
  <2>2. up \in Seq({".."})
    BY <2>1
  <2> HIDE DEF up
  <2> QED BY <2>2 DEF IsSeq
<1>5. IsSeq(down)
  <2>1. c + 1 \in Int /\ Len(at) \in Int /\ \A i \in c + 1 .. Len(at) : i \in 1 .. Len(at)
    BY <1>1, <1>2
  <2>2. \A i \in c + 1 .. Len(at) : at[i] \in STRING
    BY <2>1
  <2>3. down \in Seq(STRING)
    BY <2>1, <2>2, SubSeqProperties
  <2> HIDE DEF down
  <2> QED BY <2>3 DEF IsSeq
<1> HIDE DEF up, down
<1>6. IsSeq(up \o down)
  BY <1>4, <1>5, Joined
<1> QED BY <1>3, <1>6

\* A path without steps up goes nowhere above.
LEMMA NoEscape ==
  ASSUME NEW path, IsSeq(path.segs), Canonical(path, FALSE)
  PROVE  ~ LexicalEscape(path)
<1>1. Len(path.segs) \in Nat /\ DOMAIN path.segs = 1 .. Len(path.segs)
  BY Sized
<1>2. \A i \in DOMAIN path.segs : path.segs[i] \notin {"..", ".", ""}
  BY DEF Canonical
<1>3. ASSUME NEW i \in DOMAIN path.segs, NEW S, S \subseteq {"..", ".", ""}
      PROVE  Cardinality({j \in 1 .. i : path.segs[j] \in S}) = 0
  <2>1. \A j \in 1 .. i : j \in DOMAIN path.segs
    BY <1>1
  <2>2. {j \in 1 .. i : path.segs[j] \in S} = {}
    BY <1>2, <1>3, <2>1
  <2> QED BY <2>2, FS_EmptySet
<1>4. \A i \in DOMAIN path.segs :
        /\ Cardinality({j \in 1 .. i : path.segs[j] \in {".."}}) = 0
        /\ Cardinality({j \in 1 .. i : path.segs[j] \in {"..", ".", ""}}) = 0
  BY <1>3
<1>5. \A i \in DOMAIN path.segs : ~ 0 > i - 0
  BY <1>1
<1> QED BY <1>4, <1>5 DEF LexicalEscape

\* What may be embedded has a fine shape, and leads to its file unless it reads as
\* absolute.
LEMMA EmbeddedPath ==
  ASSUME NEW at \in Seq(STRING), NEW opts \in Option, MayEmbed(at, opts),
         NEW file, file # Absent, file.at = at
  PROVE  /\ RelativeTo(at).segs # <<>>
         /\ PathShape(RelativeTo(at), opts.escape) = <<>>
         /\ Resolve(RelativeTo(at), file, Absent, opts) = "ok" <=> ~ PolicyAbsolute(RelativeTo(at))
         /\ Resolve(RelativeTo(at), file, Absent, opts) # "missing"
<1> DEFINE path == RelativeTo(at)
<1>1. path.absolute = FALSE /\ IsSeq(path.segs)
  BY RelativePath
<1>2. opts.escape \in BOOLEAN /\ opts.absolute \in BOOLEAN
  BY DEF Option
<1>3. /\ Beneath(at) \/ opts.escape
      /\ PolicyAbsolute(path) \/ Canonical(path, opts.escape)
  BY DEF MayEmbed
<1> HIDE DEF path
<1>4. PolicyAbsolute(path) \in BOOLEAN
  BY <1>1 DEF PolicyAbsolute
<1>5. path.segs # <<>>
  BY <1>1, <1>3 DEF PolicyAbsolute, Canonical
<1>6. PathShape(path, opts.escape) = <<>>
  BY <1>3, <1>5 DEF PathShape
<1>7. CASE PolicyAbsolute(path)
  BY <1>1, <1>5, <1>6, <1>7 DEF path, Resolve
<1>8. CASE ~ PolicyAbsolute(path)
  <2>1. ~ opts.escape => ~ LexicalEscape(path) /\ Beneath(at)
    BY <1>1, <1>2, <1>3, <1>8, NoEscape
  <2>2. Resolve(path, file, Absent, opts) = "ok"
    BY <1>1, <1>2, <1>4, <1>8, <2>1 DEF Resolve
  <2> QED BY <1>5, <1>6, <1>8, <2>2 DEF path
<1> QED BY <1>7, <1>8

-----------------------------------------------------------------------------
(* A manifest that creation has made of files that nobody has replaced.     *)

HeldByIndex(meta, size) ==
  /\ index # Absent /\ index.meta # Absent
  /\ meta = index.meta /\ size = index.size

NamesIndex(id, path) ==
  /\ id = index.id /\ index.size <= options.maxBytes
  /\ path = RelativeTo(index.at) /\ MayEmbed(index.at, options)

HeldByRows(lines, path, n) ==
  lines # Absent =>
    /\ rowMap # Absent /\ lines = rowMap.lines /\ GoodMap(lines, n, options)
    /\ path = RelativeTo(rowMap.at) /\ MayEmbed(rowMap.at, options)

HeldByAux(name, e) ==
  /\ aux[name] # Absent /\ e.id = aux[name].id /\ e.size = aux[name].size
  /\ e.size <= options.maxBytes
  /\ e.path = RelativeTo(aux[name].at) /\ MayEmbed(aux[name].at, options)

\* What creation has seen so far is what the files hold.
Gathered ==
  pc \in Building =>
    /\ pc # "create" => HeldByIndex(seen.meta, seen.size)
    /\ pc \in {"create_rows", "create_aux"} => NamesIndex(seen.id, seen.path)
    /\ pc # "create_aux" => seen.lines = Absent
    /\ HeldByRows(seen.lines, seen.rowPath, seen.meta.vectors)
    /\ \A i \in 1 .. Len(seen.aux) :
         /\ seen.aux[i].name \in DOMAIN request.required
         /\ HeldByAux(seen.aux[i].name, seen.aux[i])
         /\ Cardinality(DOMAIN request.required) <= options.maxAux

\* So is what the manifest says.
Copied(d) ==
  /\ HeldByIndex(d.meta, d.size) /\ NamesIndex(d.id, d.path)
  /\ d.embedding.dim = d.meta.dim /\ d.rowCount = d.meta.vectors
  /\ d.embedding.revision = Absent /\ d.embedding.normalization = Absent
  /\ d.embedding.tokenizer = Absent /\ d.embedding.pooling = Absent
  /\ d.embedding.corpus = Absent /\ d.embedding.matrix = Absent
  /\ d.distortion = Absent /\ d.calibration = Absent
  /\ d.build = Absent /\ d.attestations = <<>>
  /\ HeldByRows(d.lines, d.rowPath, d.rowCount)
  /\ Cardinality(DOMAIN d.aux) <= options.maxAux
  /\ \A n \in DOMAIN d.aux : HeldByAux(n, d.aux[n])

\* The exceptions that the verification has come across.
ShapeFaulty(d) ==
  \/ Blank(d.embedding.model)
  \/ \E n \in DOMAIN d.aux : d.aux[n].required /\ d.aux[n].size = 0

FaultsSoFar ==
  \/ ShapeFaulty(doc)
  \/ pc # "resolve_artifact" /\ PolicyAbsolute(doc.path)
  \/ \E n \in DeclaredBefore(doc, turn) : PolicyAbsolute(doc.aux[n].path)
  \/ pc \in AfterRows /\ doc.lines # Absent /\ PolicyAbsolute(doc.rowPath)

\* They, and nothing else, have failed it.
Judged ==
  /\ pc \in Judging => (raised <=> FaultsSoFar)
  /\ pc \in AfterAux => turn > Len(Aux)
  /\ pc = "hash_aux" => ~ PolicyAbsolute(doc.aux[Aux[turn]].path)
  /\ pc = "read_rows" => doc.lines # Absent /\ ~ PolicyAbsolute(doc.rowPath)
  /\ pc \notin {"load", "hash_distortion", "hash_calibration"}
  /\ pc \in {"planned", "refused"} => ((pc = "refused") <=> Refusable)

Undisturbed ==
  calm =>
    /\ DOMAIN request.required \subseteq Names
    /\ Gathered /\ Judged
    /\ pc \notin Building \cup {"failed"} => Copied(doc)

\* A step of the verification keeps the manifest a copy of the files.
LEMMA CopyKept ==
  ASSUME Undisturbed, UNCHANGED fixed, pc \notin Building \cup {"failed"},
         pc' \notin Building \cup {"failed"}, calm => Judged'
  PROVE  Undisturbed'
<1>1. SUFFICES ASSUME calm' PROVE Undisturbed'
  BY DEF Undisturbed
<1>2. /\ index' = index /\ rowMap' = rowMap /\ aux' = aux /\ options' = options
      /\ request' = request /\ doc' = doc /\ calm' = calm
  BY DEF fixed, files, creating
<1>3. DOMAIN request'.required \subseteq Names /\ Copied(doc) /\ Judged'
  BY <1>1, <1>2 DEF Undisturbed
<1>4. Gathered'
  BY DEF Gathered
<1>5. Copied(doc)'
  BY <1>2, <1>3 DEF Copied, HeldByIndex, NamesIndex, HeldByRows, HeldByAux
<1> QED BY <1>3, <1>4, <1>5 DEF Undisturbed

\* Where such a manifest leads.
LEMMA CopiedPaths ==
  ASSUME IInv, Undisturbed, calm, pc \notin Building \cup {"failed"}
  PROVE  /\ Copied(doc) /\ Judged
         /\ PathShape(doc.path, options.escape) = <<>>
         /\ Resolve(doc.path, index, Absent, options) = "ok" <=> ~ PolicyAbsolute(doc.path)
         /\ doc.lines # Absent =>
              /\ PathShape(doc.rowPath, options.escape) = <<>>
              /\ Resolve(doc.rowPath, rowMap, Absent, options) = "ok" <=>
                   ~ PolicyAbsolute(doc.rowPath)
         /\ \A n \in DOMAIN doc.aux :
              /\ doc.aux[n].path.segs # <<>>
              /\ PathShape(doc.aux[n].path, options.escape) = <<>>
              /\ Resolve(doc.aux[n].path, aux[n], Absent, options) = "ok" <=>
                   ~ PolicyAbsolute(doc.aux[n].path)
              /\ Resolve(doc.aux[n].path, aux[n], Absent, options) # "missing"
<1>1. Copied(doc) /\ Judged
  BY DEF Undisturbed
<1>2. /\ index \in Maybe(Indexes) /\ rowMap \in Maybe(RowMaps)
      /\ aux \in [Names -> Maybe(AuxFiles)] /\ options \in Option
      /\ DOMAIN doc.aux \subseteq Names
  BY DEF IInv, Setup, Known
<1>3. /\ index # Absent /\ doc.path = RelativeTo(index.at) /\ MayEmbed(index.at, options)
      /\ index.at \in Seq(STRING)
  BY <1>1, <1>2, LoadPlanAssumption DEF Copied, HeldByIndex, NamesIndex, Maybe
<1>4. ASSUME doc.lines # Absent
      PROVE  /\ rowMap # Absent /\ doc.rowPath = RelativeTo(rowMap.at)
             /\ MayEmbed(rowMap.at, options) /\ rowMap.at \in Seq(STRING)
  BY <1>1, <1>2, <1>4, LoadPlanAssumption DEF Copied, HeldByRows, Maybe
<1>5. ASSUME NEW n \in DOMAIN doc.aux
      PROVE  /\ aux[n] # Absent /\ doc.aux[n].path = RelativeTo(aux[n].at)
             /\ MayEmbed(aux[n].at, options) /\ aux[n].at \in Seq(STRING)
  <2>1. HeldByAux(n, doc.aux[n])
    BY <1>1 DEF Copied
  <2>2. aux[n] \in Maybe(AuxFiles)
    BY <1>2
  <2> QED BY <2>1, <2>2, LoadPlanAssumption DEF HeldByAux, Maybe
<1>6. /\ PathShape(doc.path, options.escape) = <<>>
      /\ Resolve(doc.path, index, Absent, options) = "ok" <=> ~ PolicyAbsolute(doc.path)
  BY <1>2, <1>3, EmbeddedPath
<1>7. doc.lines # Absent =>
        /\ PathShape(doc.rowPath, options.escape) = <<>>
        /\ Resolve(doc.rowPath, rowMap, Absent, options) = "ok" <=> ~ PolicyAbsolute(doc.rowPath)
  BY <1>2, <1>4, EmbeddedPath
<1>8. \A n \in DOMAIN doc.aux :
        /\ doc.aux[n].path.segs # <<>>
        /\ PathShape(doc.aux[n].path, options.escape) = <<>>
        /\ Resolve(doc.aux[n].path, aux[n], Absent, options) = "ok" <=>
             ~ PolicyAbsolute(doc.aux[n].path)
        /\ Resolve(doc.aux[n].path, aux[n], Absent, options) # "missing"
  BY <1>2, <1>5, EmbeddedPath
<1> QED BY <1>1, <1>6, <1>7, <1>8

LEMMA EmbeddingUnsaid ==
  ASSUME NEW e, e.revision = Absent, e.normalization = Absent, e.tokenizer = Absent,
         e.pooling = Absent, e.corpus = Absent, e.matrix = Absent
  PROVE  EmbeddingShape(e) = <<>>
<1> DEFINE checks == <<
      <<Blank(e.revision), "model_revision">>, <<Blank(e.tokenizer), "tokenizer_revision">>,
      <<Blank(e.pooling), "pooling">>, <<Malformed(e.corpus), "corpus_digest">>,
      <<Malformed(e.matrix), "matrix_digest">>, <<Blank(e.normalization), "normalization">>>>
<1>1. ~ Blank(Absent) /\ ~ Malformed(Absent)
  BY ProfilesAssumption DEF Blank, Malformed
<1>2. /\ Len(checks) = 6
      /\ ~ checks[1][1] /\ ~ checks[2][1] /\ ~ checks[3][1]
      /\ ~ checks[4][1] /\ ~ checks[5][1] /\ ~ checks[6][1]
  BY <1>1
<1>3. IsSeq(checks)
  BY Listed
<1>5. 1 .. 6 = {1, 2, 3, 4, 5, 6}
  OBVIOUS
<1>4. EmbeddingShape(e) = IssuesOf(checks)
  BY DEF EmbeddingShape
<1> HIDE DEF checks
<1> QED BY <1>2, <1>3, <1>4, <1>5, IssuesNone

\* The shape has only the exceptions of the shape to tell of.
LEMMA JudgedVerifyShape ==
  ASSUME IInv, Undisturbed, VerifyShape
  PROVE  Undisturbed'
<1> DEFINE first == ArtifactShape
           second == AuxShape
           third == EmbeddingShape(doc.embedding)
           fourth == BuildShape(doc.build)
           issues == first \o second \o third \o fourth
<1>1. /\ pc = "verify" /\ pc' = "resolve_artifact" /\ turn' = 1 /\ UNCHANGED fixed
      /\ raised' = (issues # <<>>)
  BY DEF VerifyShape
<1>2. doc' = doc
  BY <1>1 DEF fixed, creating
<1>3. SUFFICES ASSUME calm PROVE Judged'
  BY <1>1, CopyKept DEF Building
<1>4. Copied(doc) /\ DOMAIN doc.aux \subseteq Names /\ index \in Maybe(Indexes)
      /\ aux \in [Names -> Maybe(AuxFiles)]
  BY <1>1, <1>3, CopiedPaths DEF IInv, Setup, Known, Building
<1>5. first = <<>> <=> ~ Blank(doc.embedding.model)
  <2>1. /\ index \in Indexes /\ index.meta # Absent /\ doc.meta = index.meta
        /\ doc.size = index.size /\ doc.id = index.id
        /\ doc.embedding.dim = doc.meta.dim /\ doc.rowCount = doc.meta.vectors
    BY <1>4 DEF Copied, HeldByIndex, NamesIndex, Maybe
  <2>2. doc.size > 0 /\ doc.size \in Nat /\ doc.meta.dim > 0 /\ doc.meta \in Metadata
        /\ ~ Malformed(doc.id)
    BY <2>1, LoadPlanAssumption
  <2>3. doc.size # 0 /\ doc.embedding.dim # 0
    BY <2>1, <2>2 DEF Metadata
  <2> QED BY <1>1, <1>3, <2>1, <2>2, <2>3, CopiedPaths, ArtifactClean DEF Building
<1>6. second = <<>> <=> ~ \E n \in DOMAIN doc.aux : doc.aux[n].required /\ doc.aux[n].size = 0
  <2>1. AuxCounted
    BY <1>4 DEF Copied, AuxCounted
  <2>2. \A n \in DOMAIN doc.aux : ~ Malformed(doc.aux[n].id)
    BY <1>4, LoadPlanAssumption DEF Copied, HeldByAux, Maybe
  <2>3. \A n \in DOMAIN doc.aux : PathShape(doc.aux[n].path, options.escape) = <<>>
    BY <1>1, <1>3, CopiedPaths DEF Building
  <2>4. \A n \in Names :
          ArtifactIssues(n) = <<>> <=>
            ~ (n \in DOMAIN doc.aux /\ doc.aux[n].required /\ doc.aux[n].size = 0)
    BY <2>2, <2>3, ArtifactIssuesNone
  <2> QED BY <1>4, <2>1, <2>4, AuxShapeClean, LoadPlanAssumption
<1>7. third = <<>> /\ fourth = <<>>
  BY <1>4, EmbeddingUnsaid DEF Copied, BuildShape
<1>8. IsSeq(first) /\ IsSeq(second) /\ IsSeq(third) /\ IsSeq(fourth)
  BY ArtifactClean, AuxShapeClean, EmbeddingIssues, LoadPlanAssumption
<1> HIDE DEF first, second, third, fourth
<1>9. issues = <<>> <=> first = <<>> /\ second = <<>>
  <2>1. IsSeq(first \o second) /\ (first \o second = <<>> <=> first = <<>> /\ second = <<>>)
    BY <1>8, Joined
  <2>2. /\ IsSeq(first \o second \o third)
        /\ first \o second \o third = <<>> <=> first \o second = <<>> /\ third = <<>>
    BY <1>8, <2>1, Joined
  <2>3. first \o second \o third \o fourth = <<>> <=>
          first \o second \o third = <<>> /\ fourth = <<>>
    BY <1>8, <2>2, Joined
  <2> QED BY <1>7, <2>1, <2>2, <2>3
<1> HIDE DEF issues
<1>10. raised' <=> ShapeFaulty(doc)
  BY <1>1, <1>5, <1>6, <1>9 DEF ShapeFaulty
<1>11. DeclaredBefore(doc', turn') = {}
  <2>1. DOMAIN Aux = 1 .. Len(Aux) /\ Len(Aux) \in Nat
    BY LoadPlanAssumption, LenProperties
  <2>2. \A j \in DOMAIN Aux : ~ j < 1
    BY <2>1
  <2> QED BY <1>1, <2>2 DEF DeclaredBefore
<1>12. FaultsSoFar' <=> ShapeFaulty(doc)
  BY <1>1, <1>2, <1>11
     DEF FaultsSoFar, ShapeFaulty, AfterRows, AfterDistortion, AfterCalibration
<1> QED BY <1>1, <1>10, <1>12 DEF Judged, AfterAux, AfterRows, AfterDistortion, AfterCalibration

\* Before the artifacts are declared to the last, one is declared at each turn.
LEMMA DeclaredNext ==
  ASSUME turn \in DOMAIN Aux
  PROVE  DeclaredBefore(doc, turn + 1) =
           DeclaredBefore(doc, turn) \cup ({Aux[turn]} \cap DOMAIN doc.aux)
<1>1. DOMAIN Aux \subseteq Int
  BY LoadPlanAssumption, LenProperties
<1>2. \A j \in DOMAIN Aux : j < turn + 1 <=> j < turn \/ j = turn
  BY <1>1
<1> QED BY <1>2 DEF DeclaredBefore

LEMMA AllDeclared ==
  ASSUME turn \in Nat, turn > Len(Aux), DOMAIN doc.aux \subseteq Names
  PROVE  DeclaredBefore(doc, turn) = DOMAIN doc.aux
<1>1. DOMAIN Aux = 1 .. Len(Aux) /\ Len(Aux) \in Nat
  BY LoadPlanAssumption, LenProperties
<1>2. \A j \in DOMAIN Aux : j < turn
  BY <1>1
<1>3. \A n \in Names : \E j \in DOMAIN Aux : Aux[j] = n
  BY DEF Names
<1> QED BY <1>2, <1>3 DEF DeclaredBefore

\* The path of the index fails the verification only if it reads as absolute.
LEMMA JudgedResolveArtifact ==
  ASSUME IInv, Undisturbed, ResolveArtifact
  PROVE  Undisturbed'
<1> DEFINE outcome == Resolve(doc.path, index, Absent, options)
           issues == Issue(outcome # "ok", outcome)
<1>1. /\ pc = "resolve_artifact" /\ pc' \in {"hash_artifact", "aux"}
      /\ turn' = turn /\ UNCHANGED fixed /\ raised' = (raised \/ issues # <<>>)
  BY DEF ResolveArtifact, Report
<1>2. doc' = doc
  BY <1>1 DEF fixed, creating
<1>3. SUFFICES ASSUME calm PROVE Judged'
  BY <1>1, CopyKept DEF Building
<1>4. Judged /\ (outcome = "ok" <=> ~ PolicyAbsolute(doc.path))
  BY <1>1, <1>3, CopiedPaths DEF Building
<1>5. issues = <<>> <=> outcome = "ok"
  BY IssueList
<1> HIDE DEF outcome, issues
<1>6. raised' <=> raised \/ PolicyAbsolute(doc.path)
  BY <1>1, <1>4, <1>5
<1>7. raised <=> FaultsSoFar
  BY <1>1, <1>4 DEF Judged, Judging
<1>8. FaultsSoFar' <=> FaultsSoFar \/ PolicyAbsolute(doc.path)
  BY <1>1, <1>2 DEF FaultsSoFar, ShapeFaulty, AfterRows, AfterDistortion, AfterCalibration
<1> QED BY <1>1, <1>6, <1>7, <1>8
        DEF Judged, AfterAux, AfterRows, AfterDistortion, AfterCalibration

\* The index is what the manifest says, when it is hashed and when it is probed.
LEMMA JudgedHashArtifact ==
  ASSUME IInv, Undisturbed, HashArtifact
  PROVE  Undisturbed'
<1> DEFINE issues == Mismatches(index, doc)
<1>1. /\ pc = "hash_artifact" /\ pc' = "probe_artifact" /\ turn' = turn /\ UNCHANGED fixed
      /\ Hashed(index, doc.size) => raised' = (raised \/ issues # <<>>)
  BY DEF HashArtifact
<1>2. doc' = doc
  BY <1>1 DEF fixed, creating
<1>3. SUFFICES ASSUME calm PROVE Judged'
  BY <1>1, CopyKept DEF Building
<1>4. Judged /\ Copied(doc) /\ index \in Maybe(Indexes)
  BY <1>1, <1>3, CopiedPaths DEF Building, IInv, Setup
<1>5. Hashed(index, doc.size) /\ doc.id = index.id /\ doc.size = index.size
  <2>1. /\ index \in Indexes /\ doc.size = index.size /\ doc.id = index.id
        /\ index.size <= options.maxBytes /\ index # Absent
    BY <1>4 DEF Copied, HeldByIndex, NamesIndex, Maybe
  <2>2. index.size \in Nat
    BY <2>1, LoadPlanAssumption
  <2> QED BY <2>1, <2>2 DEF Hashed
<1>6. issues = <<>>
  BY <1>5, MismatchesNone
<1> HIDE DEF issues
<1>7. raised' = raised
  BY <1>1, <1>5, <1>6 DEF IInv, Setup
<1>8. FaultsSoFar' <=> FaultsSoFar
  BY <1>1, <1>2 DEF FaultsSoFar, ShapeFaulty, AfterRows, AfterDistortion, AfterCalibration
<1> QED BY <1>1, <1>4, <1>7, <1>8
        DEF Judged, Judging, AfterResolve, AfterHash, AfterProbe, AfterAux, AfterRows,
            AfterDistortion, AfterCalibration

LEMMA JudgedProbeArtifact ==
  ASSUME IInv, Undisturbed, ProbeArtifact
  PROVE  Undisturbed'
<1> DEFINE probed == IF index = Absent THEN Absent ELSE index.meta
           issues == ProbeIssues(probed)
<1>1. /\ pc = "probe_artifact" /\ pc' = "aux" /\ turn' = turn /\ UNCHANGED fixed
      /\ raised' = (raised \/ issues # <<>>)
  BY DEF ProbeArtifact
<1>2. doc' = doc
  BY <1>1 DEF fixed, creating
<1>3. SUFFICES ASSUME calm PROVE Judged'
  BY <1>1, CopyKept DEF Building
<1>4. Judged /\ Copied(doc) /\ doc.meta.covered
  BY <1>1, <1>3, CopiedPaths DEF Building, IInv, Setup, Known
<1>5. probed # Absent /\ probed = doc.meta /\ index.size = doc.size
  BY <1>4 DEF Copied, HeldByIndex
<1> HIDE DEF probed
<1>6. issues = <<>>
  BY <1>4, <1>5, ProbeClean
<1> HIDE DEF issues
<1>7. raised' = raised
  BY <1>1, <1>6 DEF IInv, Setup
<1>8. FaultsSoFar' <=> FaultsSoFar
  BY <1>1, <1>2 DEF FaultsSoFar, ShapeFaulty, AfterRows, AfterDistortion, AfterCalibration
<1> QED BY <1>1, <1>4, <1>7, <1>8
        DEF Judged, Judging, AfterResolve, AfterHash, AfterProbe, AfterAux, AfterRows,
            AfterDistortion, AfterCalibration

\* An artifact fails the verification only if its path reads as absolute.
LEMMA JudgedResolveAux ==
  ASSUME IInv, Undisturbed, ResolveAux
  PROVE  Undisturbed'
<1> DEFINE name == Aux[turn]
           outcome == Resolve(doc.aux[name].path, aux[name], Absent, options)
<1>1. pc = "aux" /\ turn <= Len(Aux) /\ UNCHANGED fixed /\ doc' = doc
  BY DEF ResolveAux, fixed, creating
<1>2. turn \in DOMAIN Aux /\ raised \in BOOLEAN
  <2>1. Len(Aux) \in Nat /\ DOMAIN Aux = 1 .. Len(Aux)
    BY LoadPlanAssumption, LenProperties
  <2> QED BY <1>1, <2>1 DEF IInv, Setup
<1>3. \/ /\ name \notin DOMAIN doc.aux
         /\ pc' = "aux" /\ turn' = turn + 1 /\ raised' = raised
      \/ /\ name \in DOMAIN doc.aux /\ outcome = "ok"
         /\ pc' = "hash_aux" /\ turn' = turn /\ raised' = raised
      \/ /\ name \in DOMAIN doc.aux
         /\ doc.aux[name].path.segs = <<>> \/ outcome # "ok"
         /\ pc' = "aux" /\ turn' = turn + 1
         /\ (doc.aux[name].path.segs # <<>> /\ outcome # "missing") =>
              raised' = (raised \/ <<outcome>> # <<>>)
  <2> HIDE DEF outcome
  <2>1. CASE name \notin DOMAIN doc.aux
    BY <1>1, <2>1 DEF ResolveAux
  <2>2. CASE name \in DOMAIN doc.aux /\ doc.aux[name].path.segs = <<>>
    BY <2>2 DEF ResolveAux, Enter
  <2>3. CASE name \in DOMAIN doc.aux /\ doc.aux[name].path.segs # <<>>
    <3>1. CASE outcome = "ok"
      BY <2>3, <3>1 DEF ResolveAux, outcome
    <3>2. CASE outcome = "missing"
      BY <2>3, <3>2 DEF ResolveAux, Enter, outcome
    <3>3. CASE outcome \notin {"ok", "missing"}
      BY <2>3, <3>3 DEF ResolveAux, Enter, outcome
    <3> QED BY <3>1, <3>2, <3>3
  <2> QED BY <2>1, <2>2, <2>3
<1>4. pc' \in {"aux", "hash_aux"}
  BY <1>3
<1>5. SUFFICES ASSUME calm PROVE Judged'
  BY <1>1, <1>4, CopyKept DEF Building
<1>6. Judged /\ \A n \in DOMAIN doc.aux :
        /\ doc.aux[n].path.segs # <<>>
        /\ Resolve(doc.aux[n].path, aux[n], Absent, options) = "ok" <=>
             ~ PolicyAbsolute(doc.aux[n].path)
        /\ Resolve(doc.aux[n].path, aux[n], Absent, options) # "missing"
  BY <1>1, <1>5, CopiedPaths DEF Building
<1>7. name \in DOMAIN doc.aux =>
        /\ doc.aux[name].path.segs # <<>> /\ outcome # "missing"
        /\ outcome = "ok" <=> ~ PolicyAbsolute(doc.aux[name].path)
  BY <1>6
<1>8. <<outcome>> # <<>>
  BY Short
<1> HIDE DEF outcome
<1>9. \/ /\ name \notin DOMAIN doc.aux
         /\ pc' = "aux" /\ turn' = turn + 1 /\ raised' = raised
      \/ /\ name \in DOMAIN doc.aux /\ ~ PolicyAbsolute(doc.aux[name].path)
         /\ pc' = "hash_aux" /\ turn' = turn /\ raised' = raised
      \/ /\ name \in DOMAIN doc.aux /\ PolicyAbsolute(doc.aux[name].path)
         /\ pc' = "aux" /\ turn' = turn + 1 /\ raised' = TRUE
  BY <1>2, <1>3, <1>7, <1>8
<1>10. raised <=> FaultsSoFar
  BY <1>1, <1>6 DEF Judged, Judging, AfterResolve, AfterHash, AfterProbe
<1>11. DeclaredBefore(doc, turn + 1) =
         DeclaredBefore(doc, turn) \cup ({name} \cap DOMAIN doc.aux)
  BY <1>2, DeclaredNext
<1>12. pc \notin AfterRows /\ pc' \notin AfterRows /\ pc # "resolve_artifact"
       /\ pc' # "resolve_artifact"
  BY <1>1, <1>4 DEF AfterRows, AfterDistortion, AfterCalibration
<1>13. raised' <=> FaultsSoFar'
  <2>1. FaultsSoFar' <=>
          \/ ShapeFaulty(doc) \/ PolicyAbsolute(doc.path)
          \/ \E n \in DeclaredBefore(doc, turn') : PolicyAbsolute(doc.aux[n].path)
    BY <1>1, <1>12 DEF FaultsSoFar, ShapeFaulty
  <2>2. FaultsSoFar <=>
          \/ ShapeFaulty(doc) \/ PolicyAbsolute(doc.path)
          \/ \E n \in DeclaredBefore(doc, turn) : PolicyAbsolute(doc.aux[n].path)
    BY <1>12 DEF FaultsSoFar
  <2> QED BY <1>9, <1>10, <1>11, <2>1, <2>2
<1>14. pc' = "hash_aux" => ~ PolicyAbsolute(doc'.aux[Aux[turn']].path)
  BY <1>1, <1>9
<1> QED BY <1>4, <1>13, <1>14
        DEF Judged, AfterAux, AfterRows, AfterDistortion, AfterCalibration

LEMMA JudgedHashAux ==
  ASSUME IInv, Undisturbed, HashAux
  PROVE  Undisturbed'
<1> DEFINE name == Aux[turn]
           file == aux[name]
           issues == Mismatches(file, doc.aux[name])
<1>1. /\ pc = "hash_aux" /\ pc' = "aux" /\ turn' = turn + 1 /\ UNCHANGED fixed
      /\ Hashed(file, doc.aux[name].size) => raised' = (raised \/ issues # <<>>)
  BY DEF HashAux, Enter
<1>2. doc' = doc /\ turn \in DOMAIN Aux /\ name \in DOMAIN doc.aux /\ name \in Names
  BY <1>1 DEF fixed, creating, IInv, Entries, Names
<1>3. SUFFICES ASSUME calm PROVE Judged'
  BY <1>1, CopyKept DEF Building
<1>4. Judged /\ Copied(doc) /\ file \in Maybe(AuxFiles)
  BY <1>1, <1>2, <1>3, CopiedPaths DEF Building, IInv, Setup
<1>5. HeldByAux(name, doc.aux[name])
  BY <1>2, <1>4 DEF Copied
<1>6. /\ file # Absent /\ doc.aux[name].id = file.id /\ doc.aux[name].size = file.size
      /\ file.size <= options.maxBytes
  BY <1>5 DEF HeldByAux
<1> HIDE DEF file
<1>7. Hashed(file, doc.aux[name].size)
  <2>1. file.size \in Nat
    BY <1>4, <1>6, LoadPlanAssumption DEF Maybe
  <2> QED BY <1>6, <2>1 DEF Hashed
<1>8. issues = <<>>
  BY <1>6, MismatchesNone
<1> HIDE DEF issues
<1>9. raised' = raised
  BY <1>1, <1>7, <1>8 DEF IInv, Setup
<1>10. raised <=> FaultsSoFar
  BY <1>1, <1>4 DEF Judged, Judging, AfterResolve, AfterHash, AfterProbe
<1>11. ~ PolicyAbsolute(doc.aux[name].path)
  BY <1>1, <1>4 DEF Judged
<1>12. DeclaredBefore(doc, turn + 1) = DeclaredBefore(doc, turn) \cup {name}
  BY <1>2, DeclaredNext
<1>13. FaultsSoFar' <=> FaultsSoFar
  <2>1. pc \notin AfterRows /\ pc' \notin AfterRows /\ pc # "resolve_artifact"
        /\ pc' # "resolve_artifact"
    BY <1>1 DEF AfterRows, AfterDistortion, AfterCalibration
  <2>2. FaultsSoFar' <=>
          \/ ShapeFaulty(doc) \/ PolicyAbsolute(doc.path)
          \/ \E n \in DeclaredBefore(doc, turn + 1) : PolicyAbsolute(doc.aux[n].path)
    BY <1>1, <1>2, <2>1 DEF FaultsSoFar, ShapeFaulty
  <2>3. FaultsSoFar <=>
          \/ ShapeFaulty(doc) \/ PolicyAbsolute(doc.path)
          \/ \E n \in DeclaredBefore(doc, turn) : PolicyAbsolute(doc.aux[n].path)
    BY <2>1 DEF FaultsSoFar
  <2> QED BY <1>11, <1>12, <2>2, <2>3
<1> QED BY <1>1, <1>9, <1>10, <1>13
        DEF Judged, AfterAux, AfterRows, AfterDistortion, AfterCalibration

\* There are not more artifacts than the limit.
LEMMA JudgedAuxDone ==
  ASSUME IInv, Undisturbed, AuxDone
  PROVE  Undisturbed'
<1>1. /\ pc = "aux" /\ pc' = "resolve_rows" /\ (turn > Len(Aux) \/ ~ AuxCounted)
      /\ UNCHANGED fixed /\ turn' = turn /\ raised' = raised
  BY DEF AuxDone, verifying
<1>2. doc' = doc
  BY <1>1 DEF fixed, creating
<1>3. SUFFICES ASSUME calm PROVE Judged'
  BY <1>1, CopyKept DEF Building
<1>4. Judged /\ AuxCounted
  BY <1>1, <1>3, CopiedPaths DEF Building, Copied, AuxCounted
<1>5. FaultsSoFar' <=> FaultsSoFar
  BY <1>1, <1>2 DEF FaultsSoFar, ShapeFaulty, AfterRows, AfterDistortion, AfterCalibration
<1> QED BY <1>1, <1>4, <1>5
        DEF Judged, Judging, AfterResolve, AfterHash, AfterProbe, AfterAux, AfterRows,
            AfterDistortion, AfterCalibration

\* The row map fails the verification only if its path reads as absolute.
LEMMA JudgedResolveRows ==
  ASSUME IInv, Undisturbed, ResolveRows
  PROVE  Undisturbed'
<1> DEFINE outcome == IF doc.rowCount > options.maxRows THEN "row_count_limit"
                      ELSE Resolve(doc.rowPath, rowMap, Absent, options)
           issues == Issue(outcome # "ok", outcome)
<1>1. /\ pc = "resolve_rows" /\ UNCHANGED fixed /\ turn' = turn
      /\ doc.lines = Absent => pc' = "distortion" /\ raised' = raised
      /\ doc.lines # Absent =>
           /\ raised' = (raised \/ issues # <<>>)
           /\ pc' = IF outcome = "ok" THEN "read_rows" ELSE "distortion"
  BY DEF ResolveRows, Report
<1>2. doc' = doc /\ pc' \in {"read_rows", "distortion"}
  BY <1>1 DEF fixed, creating
<1>3. SUFFICES ASSUME calm PROVE Judged'
  BY <1>1, <1>2, CopyKept DEF Building
<1>4. /\ Judged /\ Copied(doc) /\ options.maxRows \in Nat /\ doc.rowCount \in Nat
      /\ doc.lines # Absent =>
           (Resolve(doc.rowPath, rowMap, Absent, options) = "ok" <=>
              ~ PolicyAbsolute(doc.rowPath))
  BY <1>1, <1>3, CopiedPaths DEF Building, IInv, Setup, Option, Known
<1>5. doc.lines # Absent => (outcome = "ok" <=> ~ PolicyAbsolute(doc.rowPath))
  <2>1. HAVE doc.lines # Absent
  <2>2. doc.rowCount <= options.maxRows
    BY <1>4, <2>1 DEF Copied, HeldByRows, GoodMap
  <2> QED BY <1>4, <2>1, <2>2
<1>6. issues = <<>> <=> outcome = "ok"
  BY IssueList
<1> HIDE DEF outcome, issues
<1>7. (raised <=> FaultsSoFar) /\ turn > Len(Aux)
  BY <1>1, <1>4 DEF Judged, Judging, AfterResolve, AfterHash, AfterProbe, AfterAux
<1>8. raised' <=> raised \/ (doc.lines # Absent /\ PolicyAbsolute(doc.rowPath))
  <2>1. CASE doc.lines = Absent
    BY <1>1, <2>1
  <2>2. CASE doc.lines # Absent
    <3>1. raised' <=> raised \/ outcome # "ok"
      BY <1>1, <1>6, <2>2
    <3> QED BY <1>5, <2>2, <3>1
  <2> QED BY <2>1, <2>2
<1>9. pc' = "read_rows" => doc.lines # Absent /\ ~ PolicyAbsolute(doc.rowPath)
  BY <1>1, <1>5
<1>10. pc' # "read_rows" => pc' = "distortion"
  BY <1>2
<1>11. FaultsSoFar' <=> FaultsSoFar \/ (doc.lines # Absent /\ PolicyAbsolute(doc.rowPath))
  BY <1>1, <1>2, <1>9, <1>10
     DEF FaultsSoFar, ShapeFaulty, AfterRows, AfterDistortion, AfterCalibration
<1> QED BY <1>1, <1>2, <1>7, <1>8, <1>9, <1>11 DEF Judged

LEMMA JudgedReadRows ==
  ASSUME IInv, Undisturbed, ReadRows
  PROVE  Undisturbed'
<1>1. /\ pc = "read_rows" /\ pc' = "distortion" /\ UNCHANGED fixed /\ turn' = turn
      /\ rowMap # Absent =>
           raised' = (raised \/ rowMap.lines # doc.lines
                             \/ ~ GoodMap(rowMap.lines, doc.rowCount, options))
  BY DEF ReadRows
<1>2. doc' = doc
  BY <1>1 DEF fixed, creating
<1>3. SUFFICES ASSUME calm PROVE Judged'
  BY <1>1, CopyKept DEF Building
<1>4. Judged /\ Copied(doc)
  BY <1>1, <1>3, CopiedPaths DEF Building
<1>5. doc.lines # Absent /\ ~ PolicyAbsolute(doc.rowPath)
  BY <1>1, <1>4 DEF Judged
<1>6. raised' = raised
  <2>1. rowMap # Absent /\ doc.lines = rowMap.lines /\ GoodMap(doc.lines, doc.rowCount, options)
    BY <1>4, <1>5 DEF Copied, HeldByRows
  <2> QED BY <1>1, <2>1 DEF IInv, Setup
<1>7. FaultsSoFar' <=> FaultsSoFar
  BY <1>1, <1>2, <1>5 DEF FaultsSoFar, ShapeFaulty, AfterRows, AfterDistortion, AfterCalibration
<1> QED BY <1>1, <1>4, <1>6, <1>7
        DEF Judged, Judging, AfterResolve, AfterHash, AfterProbe, AfterAux, AfterRows,
            AfterDistortion, AfterCalibration

\* After the rows there is nothing left that could fail.
LEMMA JudgedAfterRows ==
  ASSUME IInv, Undisturbed, UNCHANGED fixed, turn' = turn, pc \in AfterRows,
         calm => /\ raised' = raised
                 /\ pc' \in AfterRows \ {"hash_distortion", "hash_calibration"},
         pc' \in AfterRows
  PROVE  Undisturbed'
<1>1. /\ doc' = doc /\ pc \notin Building \cup {"failed"} /\ pc' \notin Building \cup {"failed"}
  BY DEF fixed, creating, Building, AfterRows, AfterDistortion, AfterCalibration
<1>2. SUFFICES ASSUME calm PROVE Judged'
  BY <1>1, CopyKept
<1>3. Judged
  BY <1>2 DEF Undisturbed
<1>4. FaultsSoFar' <=> FaultsSoFar
  <2>1. pc # "resolve_artifact" /\ pc' # "resolve_artifact"
    BY DEF AfterRows, AfterDistortion, AfterCalibration
  <2> QED BY <1>1, <2>1 DEF FaultsSoFar, ShapeFaulty
<1>5. pc \in Judging /\ pc \in AfterAux
  BY DEF Judging, AfterResolve, AfterHash, AfterProbe, AfterAux
<1>6. pc' \notin {"load", "hash_aux", "read_rows", "planned", "refused", "hash_distortion",
                  "hash_calibration"}
  BY <1>2 DEF AfterRows, AfterDistortion, AfterCalibration
<1> QED BY <1>2, <1>3, <1>4, <1>5, <1>6 DEF Judged

\* Creation declares neither profiles nor attestations.
LEMMA JudgedProfiles ==
  ASSUME IInv, Undisturbed, VerifyDistortion \/ VerifyCalibration \/ VerifyAttestations
  PROVE  Undisturbed'
<1>1. /\ pc \in {"distortion", "calibration", "attestations"} /\ UNCHANGED fixed /\ turn' = turn
      /\ pc' \in {"calibration", "hash_distortion", "attestations", "hash_calibration", "finish"}
  BY DEF VerifyDistortion, VerifyCalibration, VerifyAttestations
<1>2. pc \in AfterRows /\ pc' \in AfterRows
  BY <1>1 DEF AfterRows, AfterDistortion, AfterCalibration
<1>3. ASSUME calm
      PROVE  raised' = raised /\ pc' \in AfterRows \ {"hash_distortion", "hash_calibration"}
  <2>1. /\ doc.distortion = Absent /\ doc.calibration = Absent /\ doc.attestations = <<>>
        /\ raised \in BOOLEAN
    BY <1>1, <1>3, CopiedPaths DEF Copied, IInv, Setup, Building
  <2>2. CASE VerifyDistortion
    BY <2>1, <2>2 DEF VerifyDistortion, Given, AfterRows, AfterDistortion
  <2>3. CASE VerifyCalibration
    <3>1. Report(<<>>) /\ pc' = "attestations"
      BY <2>1, <2>3 DEF VerifyCalibration, Given
    <3> QED BY <2>1, <3>1 DEF Report, AfterRows, AfterDistortion, AfterCalibration
  <2>4. CASE VerifyAttestations
    <3> DEFINE wrong == {i \in DOMAIN doc.attestations : ~ doc.attestations[i].predicate}
               types == [i \in 1 .. Cardinality(wrong) |-> "predicate_type"]
               said == Range(doc.attestations)
               digest == IF Given(report.digest) THEN report.digest ELSE doc.id
               missing == said # {} /\ \A x \in said : digest \notin x.subjects
    <3>1. pc' = "finish" /\ Report(types \o Issue(missing, "subject"))
      BY <2>4 DEF VerifyAttestations
    <3>2. DOMAIN doc.attestations = {}
      BY <2>1
    <3>3. wrong = {} /\ said = {}
      BY <3>2 DEF Range
    <3> HIDE DEF wrong, said, digest
    <3>4. types = <<>> /\ ~ missing
      <4>1. Cardinality(wrong) = 0
        BY <3>3, FS_EmptySet
      <4> QED BY <3>3, <4>1
    <3> HIDE DEF types, missing
    <3>5. types \o Issue(missing, "subject") = <<>>
      BY <3>4, Short, Joined DEF Issue
    <3>6. raised' = raised
      BY <2>1, <3>1, <3>5 DEF Report
    <3> QED BY <3>1, <3>6 DEF AfterRows, AfterDistortion, AfterCalibration
  <2> QED BY <2>2, <2>3, <2>4
<1> QED BY <1>1, <1>2, <1>3, JudgedAfterRows

\* Neither is a profile hashed, nor a manifest loaded.
LEMMA JudgedElsewhere ==
  ASSUME IInv, Undisturbed, HashDistortion \/ HashCalibration \/ LoadManifest \/ Replace
  PROVE  Undisturbed'
<1>1. CASE Replace
  BY <1>1 DEF Replace, Undisturbed
<1>2. CASE HashDistortion \/ HashCalibration \/ LoadManifest
  <2>1. pc \in {"load", "hash_distortion", "hash_calibration"} /\ calm' = calm
    BY <1>2 DEF HashDistortion, HashCalibration, LoadManifest, fixed
  <2> QED BY <2>1 DEF Undisturbed, Judged
<1> QED BY <1>1, <1>2

\* The verdict is about the exceptions, and nothing else.
LEMMA JudgedFinish ==
  ASSUME IInv, Undisturbed, Finish
  PROVE  Undisturbed'
<1> DEFINE errors == EnforceLimit(report.errors, options.maxIssues)
<1>1. /\ pc = "finish" /\ UNCHANGED fixed /\ turn' = turn
      /\ pc' \in {"refused", "planned", "incomplete"}
      /\ pc' = "refused" <=> errors # <<>>
  BY DEF Finish
<1>2. doc' = doc
  BY <1>1 DEF fixed, creating
<1>3. SUFFICES ASSUME calm PROVE Judged'
  BY <1>1, CopyKept DEF Building
<1>4. /\ pc \in Judging /\ pc \in AfterRows /\ pc \in AfterAux
  BY <1>1 DEF Judging, AfterResolve, AfterHash, AfterProbe, AfterAux, AfterRows,
              AfterDistortion, AfterCalibration
<1>5. errors # <<>> <=> raised
  BY <1>4, Enforced DEF IInv, Setup, Ledger, Option
<1> HIDE DEF errors
<1>6. (raised <=> FaultsSoFar) /\ turn > Len(Aux)
  BY <1>3, <1>4 DEF Undisturbed, Judged
<1>7. DeclaredBefore(doc, turn) = DOMAIN doc.aux
  BY <1>1, <1>6, AllDeclared DEF IInv, Setup, Known, Building
<1>8. FaultsSoFar <=> Refusable
  BY <1>1, <1>4, <1>7 DEF FaultsSoFar, ShapeFaulty, Refusable
<1>9. Refusable' <=> Refusable
  BY <1>2 DEF Refusable
<1>10. pc' \notin Judging /\ pc' \notin AfterAux
       /\ pc' \notin {"hash_aux", "read_rows", "load", "hash_distortion", "hash_calibration"}
  BY <1>1 DEF Judging, AfterResolve, AfterHash, AfterProbe, AfterAux, AfterRows,
              AfterDistortion, AfterCalibration
<1> QED BY <1>1, <1>5, <1>6, <1>8, <1>9, <1>10 DEF Judged

LEMMA JudgedVerifyAgain ==
  ASSUME IInv, Undisturbed, VerifyAgain
  PROVE  Undisturbed'
<1>1. pc \in {"refused", "planned"} /\ pc' = "verify" /\ UNCHANGED fixed
  BY DEF VerifyAgain
<1>2. Judged'
  BY <1>1 DEF Judged, Judging, AfterResolve, AfterHash, AfterProbe, AfterAux, AfterRows,
              AfterDistortion, AfterCalibration
<1> QED BY <1>1, <1>2, CopyKept DEF Building

\* There are finitely many names.
LEMMA FewNames ==
  ASSUME NEW S, S \subseteq Names
  PROVE  IsFiniteSet(S)
<1>1. DOMAIN Aux = 1 .. Len(Aux) /\ Len(Aux) \in Nat
  BY LoadPlanAssumption, LenProperties
<1>2. IsFiniteSet(DOMAIN Aux)
  BY <1>1, FS_Interval
<1> DEFINE f == [i \in DOMAIN Aux |-> Aux[i]]
<1>3. f \in Surjection(DOMAIN Aux, Names)
  BY DEF Names, Surjection
<1>4. IsFiniteSet(Names)
  BY <1>2, <1>3, FS_Surjection
<1> QED BY <1>4, FS_Subset

\* A step of the creation.
LEMMA BuildingKept ==
  ASSUME Undisturbed, UNCHANGED <<files, options, request, calm>>,
         pc' \in Building \cup {"failed"}, calm => Gathered'
  PROVE  Undisturbed'
<1>1. request' = request /\ calm' = calm
  OBVIOUS
<1>2. Judged'
  BY DEF Judged, Building, Judging, AfterResolve, AfterHash, AfterProbe, AfterAux, AfterRows,
         AfterDistortion, AfterCalibration
<1> QED BY <1>1, <1>2 DEF Undisturbed

LEMMA GatheredProbe ==
  ASSUME IInv, Undisturbed, CreateProbe
  PROVE  Undisturbed'
<1>1. /\ pc = "create" /\ pc' \in {"create_hash", "failed"}
      /\ UNCHANGED <<files, options, request, calm>>
  BY DEF CreateProbe, CreateFails
<1>2. SUFFICES ASSUME calm PROVE Gathered'
  BY <1>1, BuildingKept DEF Building
<1>3. CASE pc' = "failed"
  BY <1>3 DEF Gathered, Building
<1>4. CASE pc' = "create_hash"
  <2>1. /\ index # Absent /\ index.meta # Absent
        /\ seen' = [seen EXCEPT !.meta = index.meta, !.size = index.size]
    BY <1>1, <1>4 DEF CreateProbe, CreateFails
  <2>2. DOMAIN seen = {"meta", "size", "id", "lines", "aux", "path", "rowPath"}
    BY <1>1 DEF IInv, Seen, Building
  <2>3. /\ seen'.meta = index.meta /\ seen'.size = index.size
        /\ seen'.lines = seen.lines /\ seen'.aux = seen.aux
    BY <2>1, <2>2
  <2>4. /\ index' = index /\ aux' = aux /\ options' = options /\ request' = request
    BY <1>1 DEF files
  <2>5. /\ seen.lines = Absent
        /\ \A i \in 1 .. Len(seen.aux) :
             /\ seen.aux[i].name \in DOMAIN request.required
             /\ HeldByAux(seen.aux[i].name, seen.aux[i])
             /\ Cardinality(DOMAIN request.required) <= options.maxAux
    BY <1>1, <1>2 DEF Undisturbed, Gathered, Building
  <2> QED BY <1>4, <2>1, <2>3, <2>4, <2>5
          DEF Gathered, HeldByIndex, HeldByRows, HeldByAux
<1> QED BY <1>1, <1>3, <1>4

LEMMA GatheredHash ==
  ASSUME IInv, Undisturbed, CreateHash
  PROVE  Undisturbed'
<1>1. /\ pc = "create_hash" /\ pc' \in {"create_rows", "failed"}
      /\ UNCHANGED <<files, options, request, calm>>
  BY DEF CreateHash, CreateFails
<1>2. SUFFICES ASSUME calm PROVE Gathered'
  BY <1>1, BuildingKept DEF Building
<1>3. CASE pc' = "failed"
  BY <1>3 DEF Gathered, Building
<1>4. CASE pc' = "create_rows"
  <2> DEFINE path == RelativeTo(index.at)
  <2>1. /\ index # Absent /\ Hashed(index, seen.size) /\ Embeddable(index)
        /\ seen' = [seen EXCEPT !.id = index.id, !.path = path]
    BY <1>1, <1>4 DEF CreateHash, CreateFails
  <2>2. DOMAIN seen = {"meta", "size", "id", "lines", "aux", "path", "rowPath"}
    BY <1>1 DEF IInv, Seen, Building
  <2>3. index.size <= options.maxBytes /\ MayEmbed(index.at, options)
    BY <2>1 DEF Hashed, Embeddable
  <2> HIDE DEF path
  <2>4. /\ seen'.meta = seen.meta /\ seen'.size = seen.size /\ seen'.id = index.id
        /\ seen'.path = path /\ seen'.lines = seen.lines /\ seen'.aux = seen.aux
    BY <2>1, <2>2
  <2>5. /\ index' = index /\ aux' = aux /\ options' = options /\ request' = request
    BY <1>1 DEF files
  <2>6. /\ seen.lines = Absent /\ HeldByIndex(seen.meta, seen.size)
        /\ \A i \in 1 .. Len(seen.aux) :
             /\ seen.aux[i].name \in DOMAIN request.required
             /\ HeldByAux(seen.aux[i].name, seen.aux[i])
             /\ Cardinality(DOMAIN request.required) <= options.maxAux
    BY <1>1, <1>2 DEF Undisturbed, Gathered, Building
  <2>7. /\ HeldByIndex(seen.meta, seen.size)' /\ NamesIndex(seen.id, seen.path)'
    BY <2>3, <2>4, <2>5, <2>6 DEF HeldByIndex, NamesIndex, path
  <2> QED BY <1>4, <2>4, <2>5, <2>6, <2>7 DEF Gathered, HeldByRows, HeldByAux
<1> QED BY <1>1, <1>3, <1>4

\* The rows that creation accepts, without repetition, are a good map.
LEMMA GatheredRows ==
  ASSUME IInv, Undisturbed, CreateRows
  PROVE  Undisturbed'
<1>1. /\ pc = "create_rows" /\ pc' \in {"create_aux", "failed"}
      /\ UNCHANGED <<files, options, request, calm>>
  BY DEF CreateRows, CreateFails
<1>2. SUFFICES ASSUME calm PROVE Gathered'
  BY <1>1, BuildingKept DEF Building
<1>3. CASE pc' = "failed"
  BY <1>3 DEF Gathered, Building
<1>4. CASE pc' = "create_aux"
  <2> DEFINE path == RelativeTo(rowMap.at)
             strict == [options EXCEPT !.duplicates = FALSE]
             n == seen.meta.vectors
             checked == ValidateJsonlRows(rowMap.lines, n, strict, <<>>)
  <2>1. /\ index' = index /\ rowMap' = rowMap /\ aux' = aux /\ options' = options
        /\ request' = request
    BY <1>1 DEF files
  <2>2. /\ HeldByIndex(seen.meta, seen.size) /\ NamesIndex(seen.id, seen.path)
        /\ seen.lines = Absent
        /\ \A i \in 1 .. Len(seen.aux) :
             /\ seen.aux[i].name \in DOMAIN request.required
             /\ HeldByAux(seen.aux[i].name, seen.aux[i])
             /\ Cardinality(DOMAIN request.required) <= options.maxAux
    BY <1>1, <1>2 DEF Undisturbed, Gathered, Building
  <2>3. /\ DOMAIN seen = {"meta", "size", "id", "lines", "aux", "path", "rowPath"}
        /\ seen.meta \in Metadata
    BY <1>1 DEF IInv, Seen, Building
  <2>4. \/ seen' = seen
        \/ /\ rowMap # Absent /\ checked.errors = <<>> /\ checked.rows = n
           /\ Embeddable(rowMap)
           /\ seen' = [seen EXCEPT !.lines = rowMap.lines, !.rowPath = path]
    BY <1>1, <1>4 DEF CreateRows, CreateFails
  <2>5. CASE seen' = seen
    BY <1>4, <2>1, <2>2, <2>5 DEF Gathered, HeldByIndex, NamesIndex, HeldByRows, HeldByAux
  <2>6. CASE /\ rowMap # Absent /\ checked.errors = <<>> /\ checked.rows = n
             /\ Embeddable(rowMap)
             /\ seen' = [seen EXCEPT !.lines = rowMap.lines, !.rowPath = path]
    <3>1. /\ rowMap.lines \in Seq(Line) /\ n \in Nat /\ strict \in Option /\ options \in Option
      BY <2>3, <2>6, LoadPlanAssumption DEF IInv, Setup, Maybe, Metadata, Option
    <3>2. /\ strict.duplicates = FALSE /\ strict.maxRows = options.maxRows
          /\ strict.maxTracked = options.maxTracked
      BY <3>1 DEF Option
    <3> HIDE DEF strict, n, path
    <3>3. checked.errors = <<>> /\ checked.rows = n
      BY <2>6
    <3>4. checked = ValidateJsonlRows(rowMap.lines, n, strict, <<>>)
      OBVIOUS
    <3> HIDE DEF checked
    <3>5. RowErrors(checked, rowMap.lines, n, rowMap.lines) = <<>>
      <4>1. Issue(checked.eof /\ rowMap.lines # rowMap.lines, "row_sha256") = <<>>
        BY DEF Issue
      <4>2. Issue(checked.rows # n /\ ~ \E i \in DOMAIN checked.errors :
                                          checked.errors[i] = "row_count", "row_count") = <<>>
        BY <3>3 DEF Issue
      <4> QED BY <3>3, <4>1, <4>2, Short, Joined DEF RowErrors
    <3>6. GoodMap(rowMap.lines, n, strict)
      BY <3>1, <3>4, <3>5, RowsJudged, Short
    <3>7. GoodMap(rowMap.lines, n, options)
      BY <3>2, <3>6 DEF GoodMap
    <3>8. /\ seen'.meta = seen.meta /\ seen'.size = seen.size /\ seen'.id = seen.id
          /\ seen'.path = seen.path /\ seen'.aux = seen.aux
          /\ seen'.lines = rowMap.lines /\ seen'.rowPath = path
      BY <2>3, <2>6
    <3>9. HeldByRows(seen.lines, seen.rowPath, seen.meta.vectors)'
      BY <2>1, <2>6, <3>7, <3>8 DEF HeldByRows, Embeddable, path, n
    <3>10. HeldByIndex(seen.meta, seen.size)' /\ NamesIndex(seen.id, seen.path)'
      BY <2>1, <2>2, <3>8 DEF HeldByIndex, NamesIndex
    <3> QED BY <1>4, <2>1, <2>2, <3>8, <3>9, <3>10 DEF Gathered, HeldByAux
  <2> QED BY <2>4, <2>5, <2>6
<1> QED BY <1>1, <1>3, <1>4

LEMMA GatheredAux ==
  ASSUME IInv, Undisturbed, CreateAux
  PROVE  Undisturbed'
<1> DEFINE name == Aux[turn]
           file == aux[name]
           entry == [name |-> name, id |-> file.id, size |-> file.size,
                     path |-> RelativeTo(file.at)]
<1>1. /\ pc = "create_aux" /\ pc' \in {"create_aux", "failed"}
      /\ UNCHANGED <<files, options, request, calm>>
  BY DEF CreateAux, CreateFails
<1>2. SUFFICES ASSUME calm PROVE Gathered'
  BY <1>1, BuildingKept DEF Building
<1>3. CASE pc' = "failed"
  BY <1>3 DEF Gathered, Building
<1>4. CASE pc' = "create_aux"
  <2>1. /\ index' = index /\ rowMap' = rowMap /\ aux' = aux /\ options' = options
        /\ request' = request
    BY <1>1 DEF files
  <2>2. /\ HeldByIndex(seen.meta, seen.size) /\ NamesIndex(seen.id, seen.path)
        /\ HeldByRows(seen.lines, seen.rowPath, seen.meta.vectors)
        /\ \A i \in 1 .. Len(seen.aux) :
             /\ seen.aux[i].name \in DOMAIN request.required
             /\ HeldByAux(seen.aux[i].name, seen.aux[i])
             /\ Cardinality(DOMAIN request.required) <= options.maxAux
    BY <1>1, <1>2 DEF Undisturbed, Gathered, Building
  <2>3. \/ seen' = seen
        \/ /\ name \in DOMAIN request.required
           /\ Cardinality(DOMAIN request.required) <= options.maxAux
           /\ Embeddable(file) /\ Hashed(file, file.size)
           /\ seen' = [seen EXCEPT !.aux = Append(@, entry)]
    <3>1. /\ options.maxAux \in Nat
      BY DEF IInv, Setup, Option
    <3>2. Cardinality(DOMAIN request.required) \in Nat
      BY <1>2, FewNames, FS_CardinalityType DEF Undisturbed
    <3> QED BY <1>1, <1>4, <3>1, <3>2 DEF CreateAux, CreateFails
  <2>4. CASE seen' = seen
    BY <1>4, <2>1, <2>2, <2>4 DEF Gathered, HeldByIndex, NamesIndex, HeldByRows, HeldByAux
  <2>5. CASE /\ name \in DOMAIN request.required
             /\ Cardinality(DOMAIN request.required) <= options.maxAux
             /\ Embeddable(file) /\ Hashed(file, file.size)
             /\ seen' = [seen EXCEPT !.aux = Append(@, entry)]
    <3> DEFINE longer == Append(seen.aux, entry)
    <3>1. seen' = [seen EXCEPT !.aux = longer]
      BY <2>5
    <3>2. /\ entry.name = name /\ HeldByAux(name, entry)
      BY <2>5 DEF Embeddable, Hashed, HeldByAux
    <3> HIDE DEF entry
    <3>3. /\ DOMAIN seen = {"meta", "size", "id", "lines", "aux", "path", "rowPath"}
          /\ IsSeq(seen.aux)
      BY <1>1 DEF IInv, Seen, Building
    <3>4. /\ Len(longer) = Len(seen.aux) + 1 /\ Len(seen.aux) \in Nat
          /\ \A i \in 1 .. Len(seen.aux) : longer[i] = seen.aux[i]
          /\ longer[Len(seen.aux) + 1] = entry
      BY <3>3, Longer
    <3> HIDE DEF longer, name
    <3>5. /\ seen'.meta = seen.meta /\ seen'.size = seen.size /\ seen'.id = seen.id
          /\ seen'.path = seen.path /\ seen'.aux = longer
          /\ seen'.lines = seen.lines /\ seen'.rowPath = seen.rowPath
      BY <3>1, <3>3
    <3>6. \A i \in 1 .. Len(longer) : i \in 1 .. Len(seen.aux) \/ i = Len(seen.aux) + 1
      BY <3>4
    <3>7. \A i \in 1 .. Len(longer) :
            /\ longer[i].name \in DOMAIN request.required
            /\ HeldByAux(longer[i].name, longer[i])
            /\ Cardinality(DOMAIN request.required) <= options.maxAux
      BY <2>2, <2>5, <3>2, <3>4, <3>6
    <3>8. /\ HeldByIndex(seen.meta, seen.size)' /\ NamesIndex(seen.id, seen.path)'
          /\ HeldByRows(seen.lines, seen.rowPath, seen.meta.vectors)'
      BY <2>1, <2>2, <3>5 DEF HeldByIndex, NamesIndex, HeldByRows
    <3> QED BY <1>4, <2>1, <3>5, <3>7, <3>8 DEF Gathered, HeldByAux
  <2> QED BY <2>3, <2>4, <2>5
<1> QED BY <1>1, <1>3, <1>4

\* The manifest is a copy of what creation has seen.
LEMMA CopiedManifest ==
  ASSUME IInv, Undisturbed, CreateManifest
  PROVE  Undisturbed'
<1> DEFINE entry(n) == CHOOSE e \in Range(seen.aux) : e.name = n
           embedding == [model |-> request.model, dim |-> seen.meta.dim,
                         revision |-> Absent, normalization |-> Absent,
                         tokenizer |-> Absent, pooling |-> Absent,
                         corpus |-> Absent, matrix |-> Absent]
           given == {e.name : e \in Range(seen.aux)}
           artifacts == [n \in given |->
                           [id |-> entry(n).id, size |-> entry(n).size,
                            path |-> entry(n).path, required |-> request.required[n]]]
<1>1. /\ pc = "create_aux" /\ pc' = "verify"
      /\ UNCHANGED <<files, options, request, seen, calm>>
      /\ doc' = [bytes |-> 0, current |-> TRUE,
                 path |-> seen.path, id |-> seen.id, size |-> seen.size, meta |-> seen.meta,
                 embedding |-> embedding, distortion |-> Absent, calibration |-> Absent,
                 rowCount |-> seen.meta.vectors, lines |-> seen.lines,
                 rowPath |-> seen.rowPath, aux |-> artifacts,
                 build |-> Absent, attestations |-> <<>>]
  BY DEF CreateManifest
<1>2. SUFFICES ASSUME calm PROVE Copied(doc)'
  <2>1. Gathered'
    BY <1>1 DEF Gathered, Building
  <2>2. Judged'
    BY <1>1 DEF Judged, Judging, AfterResolve, AfterHash, AfterProbe, AfterAux, AfterRows,
                AfterDistortion, AfterCalibration
  <2> QED BY <1>1, <2>1, <2>2 DEF Undisturbed
<1>3. /\ DOMAIN request.required \subseteq Names
      /\ HeldByIndex(seen.meta, seen.size) /\ NamesIndex(seen.id, seen.path)
      /\ HeldByRows(seen.lines, seen.rowPath, seen.meta.vectors)
      /\ \A i \in 1 .. Len(seen.aux) :
           /\ seen.aux[i].name \in DOMAIN request.required
           /\ HeldByAux(seen.aux[i].name, seen.aux[i])
           /\ Cardinality(DOMAIN request.required) <= options.maxAux
  BY <1>1, <1>2 DEF Undisturbed, Gathered, Building
<1>4. IsSeq(seen.aux) /\ options.maxAux \in Nat
  BY <1>1 DEF IInv, Seen, Setup, Option, Building
<1>5. \A e \in Range(seen.aux) :
        /\ e.name \in DOMAIN request.required /\ HeldByAux(e.name, e)
        /\ Cardinality(DOMAIN request.required) <= options.maxAux
  BY <1>3, <1>4, Sized DEF Range
<1>6. \A n \in given : entry(n) \in Range(seen.aux) /\ entry(n).name = n
  OBVIOUS
<1>7. \A n \in given : HeldByAux(n, artifacts[n])
  <2> HIDE DEF entry, given
  <2>1. TAKE n \in given
  <2>2. /\ artifacts[n].id = entry(n).id /\ artifacts[n].size = entry(n).size
        /\ artifacts[n].path = entry(n).path
    OBVIOUS
  <2>3. HeldByAux(n, entry(n))
    BY <1>5, <1>6
  <2> HIDE DEF artifacts
  <2> QED BY <2>2, <2>3 DEF HeldByAux
<1>8. Cardinality(given) <= options.maxAux
  <2>1. CASE given = {}
    BY <1>4, <2>1, FS_EmptySet
  <2>2. CASE given # {}
    <3>1. /\ given \subseteq DOMAIN request.required
          /\ Cardinality(DOMAIN request.required) <= options.maxAux
      BY <1>5, <2>2
    <3>2. IsFiniteSet(DOMAIN request.required)
      BY <1>3, FewNames
    <3> HIDE DEF given
    <3>3. /\ Cardinality(given) <= Cardinality(DOMAIN request.required)
          /\ Cardinality(given) \in Nat /\ Cardinality(DOMAIN request.required) \in Nat
      BY <3>1, <3>2, FS_Subset, FS_CardinalityType
    <3> QED BY <1>4, <3>1, <3>3
  <2> QED BY <2>1, <2>2
<1>9. DOMAIN artifacts = given
  OBVIOUS
<1>10. /\ embedding.dim = seen.meta.dim /\ embedding.revision = Absent
       /\ embedding.normalization = Absent /\ embedding.tokenizer = Absent
       /\ embedding.pooling = Absent /\ embedding.corpus = Absent /\ embedding.matrix = Absent
  OBVIOUS
<1> HIDE DEF embedding, given, artifacts
<1>11. Copied(doc')
  <2>1. /\ doc'.path = seen.path /\ doc'.id = seen.id /\ doc'.size = seen.size
        /\ doc'.meta = seen.meta /\ doc'.embedding = embedding
        /\ doc'.distortion = Absent /\ doc'.calibration = Absent
        /\ doc'.rowCount = seen.meta.vectors /\ doc'.lines = seen.lines
        /\ doc'.rowPath = seen.rowPath /\ doc'.aux = artifacts
        /\ doc'.build = Absent /\ doc'.attestations = <<>>
    BY <1>1
  <2> QED BY <1>3, <1>7, <1>8, <1>9, <1>10, <2>1 DEF Copied
<1>12. index' = index /\ rowMap' = rowMap /\ aux' = aux /\ options' = options
  BY <1>1 DEF files
<1> QED BY <1>11, <1>12 DEF Copied, HeldByIndex, NamesIndex, HeldByRows, HeldByAux

LEMMA StartsUndisturbed ==
  ASSUME Init
  PROVE  Undisturbed
<1>1. PICK c \in Cases :
        /\ index = c.files.index /\ rowMap = c.files.rowMap
        /\ aux = c.files.aux /\ profiles = c.files.profiles
        /\ options = c.options /\ request = c.request /\ doc = c.doc /\ edits = c.edits
  BY DEF Init
<1>2. /\ calm = (pc = "create")
      /\ seen = [meta |-> Absent, size |-> 0, id |-> "", lines |-> Absent, aux |-> <<>>,
                 path |-> Absent, rowPath |-> Absent]
  BY DEF Init
<1>3. SUFFICES ASSUME calm PROVE Undisturbed
  BY DEF Undisturbed
<1>4. pc = "create"
  BY <1>2, <1>3
<1>5. DOMAIN request.required \subseteq Names
  BY <1>1, LoadPlanAssumption
<1>6. Gathered
  <2>1. seen.lines = Absent /\ seen.aux = <<>>
    BY <1>2
  <2>2. 1 .. Len(seen.aux) = {}
    BY <2>1, EmptySeq
  <2> QED BY <1>4, <2>1, <2>2 DEF Gathered, HeldByRows
<1>7. Judged
  BY <1>4 DEF Judged, Judging, AfterResolve, AfterHash, AfterProbe, AfterAux, AfterRows,
              AfterDistortion, AfterCalibration
<1> QED BY <1>4, <1>5, <1>6, <1>7 DEF Undisturbed, Building

-----------------------------------------------------------------------------
(* The theorems.                                                            *)

LEMMA Starts ==
  ASSUME Init
  PROVE  IInv
<1>1. PICK c \in Cases :
        /\ index = c.files.index /\ rowMap = c.files.rowMap
        /\ aux = c.files.aux /\ profiles = c.files.profiles
        /\ options = c.options /\ request = c.request /\ doc = c.doc /\ edits = c.edits
  BY DEF Init
<1>2. /\ pc = IF doc = Absent THEN "create" ELSE "load"
      /\ turn = 1 /\ raised = FALSE
      /\ seen = [meta |-> Absent, size |-> 0, id |-> "", lines |-> Absent, aux |-> <<>>,
                 path |-> Absent, rowPath |-> Absent]
      /\ report = NoReport /\ paths = NoPaths /\ plan = Absent /\ read = NoneRead
  BY DEF Init
<1>3. IsFiles(c.files) /\ c.options \in Option /\ (c.doc # Absent => IsDocument(c.doc))
  BY LoadPlanAssumption
<1>4. doc # Absent => Known(doc)
  <2>1. SUFFICES ASSUME doc # Absent, IsDocument(doc) PROVE Known(doc)
    BY <1>1, <1>3
  <2>2. doc.meta \in Metadata /\ doc.meta.covered /\ doc.rowCount \in Nat
        /\ DOMAIN doc.aux \subseteq Names
    BY <2>1 DEF IsDocument
  <2>3. IsSeq(doc.attestations)
    BY <2>1 DEF IsDocument, IsSeq
  <2>4. Given(doc.distortion) =>
          \A f \in {"lower", "upper", "estimated"} : doc.distortion.bounds[f] \in Maybe(Int)
    <3>1. HAVE Given(doc.distortion)
    <3>2. IsDistortion(doc.distortion)
      BY <2>1, <3>1 DEF IsDocument, Given
    <3>3. doc.distortion.bounds
            \in [{"lower", "upper", "estimated", "rate", "worst", "quantile"} -> Maybe(Int)]
      BY <3>2 DEF IsDistortion
    <3> QED BY <3>3
  <2> QED BY <2>2, <2>3, <2>4 DEF Known
<1>5. /\ pc \in {"create", "load"} /\ (pc = "load" => doc # Absent)
      /\ pc \notin Judging /\ pc \notin AfterResolve /\ pc \notin AfterHash
      /\ pc \notin AfterProbe /\ pc \notin AfterAux /\ pc \notin AfterRows
      /\ pc \notin AfterDistortion /\ pc \notin AfterCalibration /\ pc \notin Decided
      /\ pc \notin {"hash_aux", "read_rows", "hash_distortion", "hash_calibration", "finish"}
  BY <1>2 DEF Judging, AfterResolve, AfterHash, AfterProbe, AfterAux, AfterRows,
              AfterDistortion, AfterCalibration, Decided
<1>6. Setup
  <2>1. /\ index \in Maybe(Indexes) /\ rowMap \in Maybe(RowMaps)
        /\ aux \in [Names -> Maybe(AuxFiles)] /\ profiles \in [Slots -> Maybe(AuxFiles)]
        /\ options \in Option
    BY <1>1, <1>3 DEF IsFiles
  <2>2. /\ DOMAIN report = {"errors", "meta", "digest", "entries", "rows", "ok"}
        /\ DOMAIN paths = {"artifact", "rows", "aux"}
        /\ DOMAIN read = {"artifact", "rows", "aux", "profiles"}
        /\ DOMAIN read.aux = Names /\ DOMAIN read.profiles = Slots
    BY <1>2 DEF NoReport, NoPaths, NoneRead
  <2>3. pc \notin Building \cup {"failed"} => Known(doc)
    BY <1>4, <1>5 DEF Building
  <2>4. turn \in Nat \ {0} /\ raised \in BOOLEAN
    <3>1. turn = 1
      BY DEF Init
    <3>2. turn \in Nat \ {0}
      BY <3>1
    <3>3. raised = FALSE
      BY DEF Init
    <3>4. raised \in BOOLEAN
      BY <3>3
    <3> QED BY <3>2, <3>4
  <2>5. pc \in Building \cup {"load", "verify", "failed"} \cup Judging \cup Decided
    BY <1>5 DEF Building
  <2> QED BY <2>1, <2>2, <2>3, <2>4, <2>5 DEF Setup
<1>7. Seen
  <2>1. /\ DOMAIN seen = {"meta", "size", "id", "lines", "aux", "path", "rowPath"}
        /\ seen.aux = <<>>
    BY <1>2
  <2>2. IsSeq(<<>>) /\ \A i \in 1 .. Len(<<>>) : FALSE
    BY Short, Sized
  <2> QED BY <1>5, <2>1, <2>2 DEF Seen, Building
<1>8. Ledger /\ Entries /\ Passed
  BY <1>5 DEF Ledger, Entries, Passed
<1>9. Planned
  BY <1>2, <1>5 DEF Planned, PlanSound
<1> QED BY <1>6, <1>7, <1>8, <1>9 DEF IInv

LEMMA Inductive == Spec => []IInv
<1>1. Init => IInv
  BY Starts
<1>2. IInv /\ [Next]_vars => IInv'
  <2>1. SUFFICES ASSUME IInv, [Next]_vars PROVE IInv'
    OBVIOUS
  <2>2. CASE Next
    BY <2>1, <2>2, StepCreateProbe, StepCreateHash, StepCreateRows, StepCreateAux,
       StepCreateManifest, StepLoadManifest, StepVerifyShape, StepResolveArtifact,
       StepHashArtifact, StepProbeArtifact, StepResolveAux, StepHashAux, StepAuxDone,
       StepResolveRows, StepReadRows, StepVerifyDistortion, StepHashDistortion,
       StepVerifyCalibration, StepHashCalibration, StepVerifyAttestations, StepFinish,
       StepVerifyAgain, StepReplace
       DEF Next
  <2>3. CASE UNCHANGED vars
    <3>1. UNCHANGED <<index, rowMap, aux, profiles, options, doc, pc, turn, seen, report,
                      paths, plan, raised, read>>
      BY <2>3 DEF vars, files
    <3>2. Setup' /\ Seen' /\ Ledger'
      BY <2>1, <3>1 DEF IInv, Setup, Seen, Ledger
    <3>3. Entries' /\ Passed'
      BY <2>1, <3>1 DEF IInv, Entries, Passed
    <3>4. Planned'
      BY <2>1, <3>1, SamePlan DEF IInv, Planned
    <3> QED BY <3>2, <3>3, <3>4 DEF IInv
  <2> QED BY <2>1, <2>2, <2>3
<1> QED BY <1>1, <1>2, PTL DEF Spec

\* A check that has failed is never forgotten: whatever the limit on issues drops
\* or truncates, the report is ok only if every check passed, and it is as short
\* as it was asked to be (lib.rs, push_report_issue_bounded and
\* enforce_report_issue_limit).
THEOREM VerdictIsKept == Spec => []VerdictKept
<1>1. IInv => VerdictKept
  BY DEF IInv, Ledger, VerdictKept, Decided
<1> QED BY <1>1, Inductive, PTL

\* A report that is ok always becomes a plan: of what from_report looks for
\* nothing is missing, so that IncompletePlan is unreachable.
THEOREM PlanIsComplete == Spec => []PlanComplete
<1>1. IInv => PlanComplete
  BY DEF IInv, Planned, PlanComplete
<1> QED BY <1>1, Inductive, PTL

\* A plan tells of bytes that were verified, whoever replaces whatever file
\* between two steps: everything it names was read with the declared content, its
\* paths belong to the artifacts they are listed under, and its profiles are about
\* this encoder and this index ("proof of the verification just performed").
THEOREM PlanIsSound == Spec => []PlanSound
<1>1. IInv => PlanSound
  BY DEF IInv, Planned
<1> QED BY <1>1, Inductive, PTL

\* What creation writes, verification accepts under the same options, with the
\* exceptions Refusable names and no other, if nobody replaces a file ("what create
\* writes, verify (under the same policy flags) must accept").
THEOREM CreatedIsAccepted == Spec => []CreatedVerifies
<1>1. Init => Undisturbed
  BY StartsUndisturbed
<1>2. IInv /\ Undisturbed /\ [Next]_vars => Undisturbed'
  <2>1. SUFFICES ASSUME IInv, Undisturbed, [Next]_vars PROVE Undisturbed'
    OBVIOUS
  <2>2. CASE Next
    BY <2>1, <2>2, GatheredProbe, GatheredHash, GatheredRows, GatheredAux, CopiedManifest,
       JudgedVerifyShape, JudgedResolveArtifact, JudgedHashArtifact, JudgedProbeArtifact,
       JudgedResolveAux, JudgedHashAux, JudgedAuxDone, JudgedResolveRows, JudgedReadRows,
       JudgedProfiles, JudgedElsewhere, JudgedFinish, JudgedVerifyAgain
       DEF Next
  <2>3. CASE UNCHANGED vars
    <3>1. UNCHANGED <<index, rowMap, aux, options, request, doc, pc, turn, seen, raised, calm>>
      BY <2>3 DEF vars, files
    <3>2. ASSUME calm PROVE Undisturbed'
      <4>1. Gathered'
        BY <2>1, <3>1, <3>2
           DEF Undisturbed, Gathered, HeldByIndex, NamesIndex, HeldByRows, HeldByAux
      <4>2. FaultsSoFar' <=> FaultsSoFar
        BY <3>1 DEF FaultsSoFar, ShapeFaulty
      <4>3. Refusable' <=> Refusable
        BY <3>1 DEF Refusable
      <4>4. Judged'
        BY <2>1, <3>1, <3>2, <4>2, <4>3 DEF Undisturbed, Judged
      <4>5. pc \notin Building \cup {"failed"} => Copied(doc)'
        BY <2>1, <3>1, <3>2
           DEF Undisturbed, Copied, HeldByIndex, NamesIndex, HeldByRows, HeldByAux
      <4> QED BY <2>1, <3>1, <3>2, <4>1, <4>4, <4>5 DEF Undisturbed
    <3> QED BY <3>1, <3>2 DEF Undisturbed
  <2> QED BY <2>1, <2>2, <2>3
<1>3. Undisturbed => CreatedVerifies
  BY DEF Undisturbed, Judged, CreatedVerifies
<1> QED BY <1>1, <1>2, <1>3, Inductive, PTL DEF Spec
=============================================================================
