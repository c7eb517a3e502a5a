------------------------------ MODULE LoadPlan ------------------------------
(***************************************************************************)
(* The life of a manifest (src/ordvec-manifest/src/lib.rs): it is created  *)
(* for an index, a row map and auxiliary artifacts, or comes from          *)
(* elsewhere; verify_for_load judges the files against it and turns the    *)
(* report into a VerifiedLoadPlan.  Every file is opened anew for each     *)
(* step, and others may replace it between any two of them.                *)
(*                                                                         *)
(* A file is a record of its content and of the location its path leads    *)
(* to.  The digest of a file is its id, that of a row map its lines.       *)
(***************************************************************************)
EXTENDS Profiles, FiniteSets

CONSTANTS
  Indexes,     \* files an index artifact may be
  RowMaps,     \* files a row map may be
  AuxFiles,    \* files an auxiliary artifact or a profile may be
  Aux,         \* the names of the auxiliary artifacts, in report order
  Cases        \* how a behaviour may start: [files, options, request, doc, edits],
               \* edits the bound on how often a file is replaced

Names == {Aux[i] : i \in DOMAIN Aux}
Slots == {"distortion", "calibration"}
Metadata == [covered : BOOLEAN, vectors : Nat, kind : STRING, dim : Nat, param : Nat]
Line == [json : BOOLEAN, rowId : Nat, dbId : Nat, uuid : BOOLEAN, long : BOOLEAN]
Option == [escape : BOOLEAN, absolute : BOOLEAN, duplicates : BOOLEAN,
           maxIssues : Nat, maxRows : Nat, maxTracked : Nat, maxAux : Nat,
           maxBytes : Nat, maxManifest : Nat]

IsDeclared(a) ==
  /\ a.id \in STRING /\ a.size \in Nat /\ a.required \in BOOLEAN
  /\ IsPath(a.path)

\* IndexManifest.
IsDocument(d) ==
  /\ d.bytes \in Nat /\ d.current \in BOOLEAN
  /\ IsPath(d.path) /\ d.id \in STRING /\ d.size \in Nat
  /\ d.meta \in Metadata /\ d.meta.covered /\ IsEmbedding(d.embedding)
  /\ d.distortion # Absent => IsDistortion(d.distortion)
  /\ d.calibration # Absent => IsCalibration(d.calibration)
  /\ d.rowCount \in Nat
  /\ d.lines # Absent => d.lines \in Seq(Line) /\ IsPath(d.rowPath)
  /\ DOMAIN d.aux \subseteq Names /\ \A n \in DOMAIN d.aux : IsDeclared(d.aux[n])
  /\ d.build = Absent \/ d.build \in [{"invocation", "builder", "source"} -> Maybe(STRING)]
  /\ d.attestations \in Seq([predicate : BOOLEAN, subjects : SUBSET STRING])

IsFiles(f) ==
  /\ f.index \in Maybe(Indexes) /\ f.rowMap \in Maybe(RowMaps)
  /\ f.aux \in [Names -> Maybe(AuxFiles)] /\ f.profiles \in [Slots -> Maybe(AuxFiles)]

ASSUME LoadPlanAssumption ==
  /\ \A f \in Indexes : /\ f.id \in STRING /\ f.size \in Nat
                        /\ f.meta = Absent \/ f.meta \in Metadata
                        /\ f.meta # Absent => f.size > 0 /\ f.meta.dim > 0
  /\ \A f \in RowMaps : f.lines \in Seq(Line)
  /\ \A f \in AuxFiles : f.id \in STRING /\ f.size \in Nat
  /\ \A f \in Indexes \cup AuxFiles : ~ Malformed(f.id)
  /\ \A f \in Indexes \cup RowMaps \cup AuxFiles : f.at \in Seq(STRING)
  /\ \A c \in Cases : /\ IsFiles(c.files) /\ c.options \in Option /\ c.edits \in Nat
                      /\ DOMAIN c.request.required \subseteq Names
                      /\ c.doc # Absent => IsDocument(c.doc)
  /\ Aux \in Seq(Names) /\ Absent \notin Names
  /\ \A i, j \in DOMAIN Aux : Aux[i] = Aux[j] => i = j

VARIABLES
  index, rowMap, aux,   \* the files; aux by name
  profiles,             \* and the files of the profiles
  options,              \* the options of every call
  request,              \* what create was asked for
  doc,                  \* the manifest, or Absent
  pc,
  turn,                 \* the auxiliary artifact that is being processed
  seen,                 \* create: what its reads have returned
  report,               \* verify: the report under way
  paths,                \* verify: VerificationPathCapture
  plan,                 \* the result of verify_for_load, or Absent
  raised,               \* history: has any check failed during the verification?
  read,                 \* history: the files whose bytes the verification hashed
  calm,                 \* history: created, and no file replaced since the start?
  edits                 \* how often a file may still be replaced

files == <<index, rowMap, aux, profiles>>
vars == <<files, options, request, doc, pc, turn, seen, report, paths, plan,
          raised, read, calm, edits>>

NoReport == [errors |-> <<>>, meta |-> Absent, digest |-> Absent, entries |-> <<>>,
             rows |-> [validated |-> Absent, lines |-> Absent], ok |-> FALSE]
NoPaths  == [artifact |-> FALSE, rows |-> FALSE, aux |-> <<>>]
NoneRead == [artifact |-> Absent, rows |-> Absent, aux |-> [n \in Names |-> Absent],
             profiles |-> [s \in Slots |-> Absent]]

-----------------------------------------------------------------------------
(* Issues.                                                                 *)

Truncated(errors, limit) ==
  Append(SubSeq(errors, 1, IF limit = 0 THEN 0
                           ELSE IF Len(errors) < limit - 1 THEN Len(errors) ELSE limit - 1),
         "limit")

\* Mutant: at the limit nothing more is said.
PushBoundedSilent(errors, code, limit) ==
  IF Len(errors) < limit THEN Append(errors, code)
  ELSE SubSeq(errors, 1, limit)

\* push_report_issue_bounded: the last issue that fits is the limit itself.
PushBounded(errors, code, limit) ==
  IF Len(errors) < limit THEN Append(errors, code)
  ELSE IF \E i \in DOMAIN errors : errors[i] = "limit" THEN errors
  ELSE Truncated(errors, limit)

EnforceLimit(errors, limit) ==
  IF Len(errors) <= limit THEN errors
  ELSE Truncated(Picked(errors, {i \in DOMAIN errors : errors[i] # "limit"}), limit)

-----------------------------------------------------------------------------
(* validate_jsonl_rows.                                                    *)

NoLines(errors) == [errors |-> errors, rows |-> 0, validated |-> 0, ids |-> {},
                    eof |-> TRUE]

\* One line of the loop; expected and opts are those of the call.  A line that
\* breaks the loop leaves eof FALSE.
NextLine(acc, line, expected, opts) ==
  LET Bounded(errors, code) == PushBounded(errors, code, opts.maxIssues)
      Stop(code) == [acc EXCEPT !.rows = @ + 1, !.eof = FALSE,
                                !.errors = Bounded(@, code)]
      misnumbered == IF line.rowId = acc.rows THEN acc.errors
                     ELSE Bounded(acc.errors, "row_id")
      named == IF line.uuid THEN misnumbered ELSE Bounded(misnumbered, "uuid")
      next == [acc EXCEPT !.rows = @ + 1, !.validated = @ + 1, !.errors = named]
  IN  IF ~ acc.eof THEN acc
      ELSE IF acc.rows + 1 > opts.maxRows THEN Stop("too_many_rows")
      ELSE IF acc.rows + 1 > expected THEN Stop("row_count")
      ELSE IF line.long THEN Stop("line")
      ELSE IF ~ line.json
      THEN [acc EXCEPT !.rows = @ + 1, !.errors = Bounded(@, "json")]
      ELSE IF opts.duplicates THEN next
      ELSE IF line.dbId \in acc.ids
      THEN [next EXCEPT !.errors = Bounded(@, "duplicate")]
      ELSE IF Cardinality(acc.ids) + 1 > opts.maxTracked
      THEN [next EXCEPT !.errors = Bounded(@, "tracking"), !.eof = FALSE]
      ELSE [next EXCEPT !.ids = @ \cup {line.dbId}]

ValidateJsonlRows(lines, expected, opts, errors) ==
  LET run[i \in 0 .. Len(lines)] ==
        IF i = 0 THEN NoLines(errors) ELSE NextLine(run[i - 1], lines[i], expected, opts)
  IN  run[Len(lines)]

-----------------------------------------------------------------------------
(* Creation.                                                               *)

Init ==
  /\ \E c \in Cases :
       /\ index = c.files.index /\ rowMap = c.files.rowMap
       /\ aux = c.files.aux /\ profiles = c.files.profiles
       /\ options = c.options /\ request = c.request /\ doc = c.doc /\ edits = c.edits
  /\ pc = IF doc = Absent THEN "create" ELSE "load"
  /\ turn = 1 /\ seen = [meta |-> Absent, size |-> 0, id |-> "", lines |-> Absent, aux |-> <<>>,
                          path |-> Absent, rowPath |-> Absent]
  /\ report = NoReport /\ paths = NoPaths /\ plan = Absent
  /\ raised = FALSE /\ read = NoneRead
  /\ calm = (pc = "create")

verifying == <<report, paths, plan, raised, read>>
creating  == <<seen, doc>>

CreateFails == pc' = "failed" /\ UNCHANGED <<seen, turn>>

\* probe_index_metadata.
CreateProbe ==
  /\ pc = "create"
  /\ IF index = Absent THEN CreateFails
     ELSE IF index.meta = Absent THEN CreateFails
     ELSE /\ seen' = [seen EXCEPT !.meta = index.meta, !.size = index.size]
          /\ pc' = "create_hash" /\ UNCHANGED turn
  /\ UNCHANGED <<files, options, request, doc, verifying, calm, edits>>

\* sha256_file_bounded reads no file that is larger than declared, or than the
\* ceiling, which is one for every kind of file here.
Hashed(file, size) ==
  IF file = Absent THEN FALSE ELSE file.size <= size /\ file.size <= options.maxBytes

\* A file create reads and can name.
Embeddable(file) == IF file = Absent THEN FALSE ELSE MayEmbed(file.at, options)

\* Hash, size comparison, supported kind, path.
CreateHash ==
  /\ pc = "create_hash"
  /\ IF index = Absent THEN CreateFails
     ELSE IF \/ ~ Hashed(index, seen.size) \/ index.size # seen.size
             \/ ~ seen.meta.covered \/ ~ Embeddable(index)
     THEN CreateFails
     ELSE /\ seen' = [seen EXCEPT !.id = index.id, !.path = RelativeTo(index.at)]
          /\ pc' = "create_rows" /\ UNCHANGED turn
  /\ UNCHANGED <<files, options, request, doc, verifying, calm, edits>>

\* Mutant: the number of rows is not compared with the index.
CreateRowsUncounted ==
  /\ pc = "create_rows"
  /\ IF ~ request.rows
     THEN pc' = "create_aux" /\ UNCHANGED <<seen, turn>>
     ELSE IF rowMap = Absent THEN CreateFails
     ELSE LET checked == ValidateJsonlRows(rowMap.lines, seen.meta.vectors,
                                           [options EXCEPT !.duplicates = FALSE], <<>>)
          IN  IF checked.errors # <<>> \/ ~ Embeddable(rowMap)
              THEN CreateFails
              ELSE /\ seen' = [seen EXCEPT !.lines = rowMap.lines,
                                            !.rowPath = RelativeTo(rowMap.at)]
                   /\ pc' = "create_aux" /\ UNCHANGED turn
  /\ UNCHANGED <<files, options, request, doc, verifying, calm, edits>>

\* The row map, when one is named: db_ids may not repeat, whatever the options.
CreateRows ==
  /\ pc = "create_rows"
  /\ IF ~ request.rows
     THEN pc' = "create_aux" /\ UNCHANGED <<seen, turn>>
     ELSE IF rowMap = Absent THEN CreateFails
     ELSE LET checked == ValidateJsonlRows(rowMap.lines, seen.meta.vectors,
                                           [options EXCEPT !.duplicates = FALSE], <<>>)
          IN  IF \/ checked.errors # <<>> \/ checked.rows # seen.meta.vectors
                 \/ ~ Embeddable(rowMap)
              THEN CreateFails
              ELSE /\ seen' = [seen EXCEPT !.lines = rowMap.lines,
                                            !.rowPath = RelativeTo(rowMap.at)]
                   /\ pc' = "create_aux" /\ UNCHANGED turn
  /\ UNCHANGED <<files, options, request, doc, verifying, calm, edits>>

\* The next auxiliary artifact that was asked for, hashed up to the size it is
\* found to have.
CreateAux ==
  /\ pc = "create_aux" /\ turn <= Len(Aux)
  /\ LET name == Aux[turn]
         file == aux[name]
     IN  IF name \notin DOMAIN request.required
         THEN turn' = turn + 1 /\ UNCHANGED <<seen, pc>>
         ELSE IF \/ Cardinality(DOMAIN request.required) > options.maxAux
                 \/ ~ Embeddable(file)
         THEN CreateFails
         ELSE IF ~ Hashed(file, file.size) THEN CreateFails
         ELSE /\ seen' = [seen EXCEPT !.aux = Append(@,
                   [name |-> name, id |-> file.id, size |-> file.size,
                    path |-> RelativeTo(file.at)])]
              /\ turn' = turn + 1 /\ UNCHANGED pc
  /\ UNCHANGED <<files, options, request, doc, verifying, calm, edits>>

CreateManifest ==
  /\ pc = "create_aux" /\ turn > Len(Aux)
  /\ LET entry(n) == CHOOSE e \in Range(seen.aux) : e.name = n
     IN  doc' = [bytes |-> 0, current |-> TRUE,
                 path |-> seen.path, id |-> seen.id, size |-> seen.size, meta |-> seen.meta,
                 embedding |-> [model |-> request.model, dim |-> seen.meta.dim,
                                revision |-> Absent, normalization |-> Absent,
                                tokenizer |-> Absent, pooling |-> Absent,
                                corpus |-> Absent, matrix |-> Absent],
                 distortion |-> Absent, calibration |-> Absent,
                 rowCount |-> seen.meta.vectors, lines |-> seen.lines, rowPath |-> seen.rowPath,
                 aux |-> [n \in {e.name : e \in Range(seen.aux)} |->
                            [id |-> entry(n).id, size |-> entry(n).size,
                             path |-> entry(n).path, required |-> request.required[n]]],
                 build |-> Absent, attestations |-> <<>>]
  /\ pc' = "verify" /\ turn' = 1
  /\ UNCHANGED <<files, options, request, seen, verifying, calm, edits>>

-----------------------------------------------------------------------------
(* Verification.                                                           *)

fixed == <<files, options, request, creating, calm, edits>>

Issue(failed, code) == IF failed THEN <<code>> ELSE <<>>

\* The issues are reported, and remembered by the history.
Report(issues) ==
  /\ report' = [report EXCEPT !.errors = @ \o issues]
  /\ raised' = (raised \/ issues # <<>>)

\* load_manifest_file_with_options: a manifest that is too large, or of another
\* schema, is not verified at all.
LoadManifest ==
  /\ pc = "load"
  /\ pc' = IF doc.bytes > options.maxManifest \/ ~ doc.current THEN "failed" ELSE "verify"
  /\ UNCHANGED <<fixed, turn, verifying>>

\* What validate_manifest_shape says of the artifact and the row map.
ArtifactShape ==
  PathShape(doc.path, options.escape) \o IssuesOf(<<
    <<Blank(doc.embedding.model), "model">>, <<doc.embedding.dim = 0, "dim">>,
    <<Malformed(doc.id), "artifact_sha256">>, <<doc.size = 0, "artifact_size">>,
    <<doc.meta.dim # doc.embedding.dim, "artifact_dim">>,
    <<doc.meta.vectors # doc.rowCount, "artifact_row_count">>>>)
  \o IF doc.lines = Absent THEN <<>> ELSE PathShape(doc.rowPath, options.escape)

AuxCounted == Cardinality(DOMAIN doc.aux) <= options.maxAux

ArtifactIssues(n) ==
  IF n \notin DOMAIN doc.aux THEN <<>>
  ELSE PathShape(doc.aux[n].path, options.escape) \o IssuesOf(<<
         <<Malformed(doc.aux[n].id), "aux_sha256">>,
         <<doc.aux[n].required /\ doc.aux[n].size = 0, "aux_size">>>>)

\* validate_auxiliary_artifact_shape; names are unique here.
AuxShape ==
  IF ~ AuxCounted THEN <<"aux_count">>
  ELSE LET issues[i \in 0 .. Len(Aux)] ==
             IF i = 0 THEN <<>> ELSE issues[i - 1] \o ArtifactIssues(Aux[i])
       IN  issues[Len(Aux)]

\* The optional texts and digests of the embedding.
EmbeddingShape(e) == IssuesOf(<<
  <<Blank(e.revision), "model_revision">>, <<Blank(e.tokenizer), "tokenizer_revision">>,
  <<Blank(e.pooling), "pooling">>, <<Malformed(e.corpus), "corpus_digest">>,
  <<Malformed(e.matrix), "matrix_digest">>, <<Blank(e.normalization), "normalization">>>>)

BuildShape(build) ==
  IF build = Absent THEN <<>>
  ELSE IssuesOf(<<<<Blank(build.invocation), "invocation_id">>,
                  <<Blank(build.builder), "builder_id">>, <<Blank(build.source), "source">>>>)

VerifyShape ==
  /\ pc = "verify"
  /\ LET issues == ArtifactShape \o AuxShape \o EmbeddingShape(doc.embedding)
                     \o BuildShape(doc.build)
     IN  /\ report' = [NoReport EXCEPT !.errors = issues]
         /\ raised' = (issues # <<>>)
  /\ paths' = NoPaths /\ plan' = Absent /\ read' = NoneRead
  /\ pc' = "resolve_artifact" /\ turn' = 1
  /\ UNCHANGED fixed

ResolveArtifact ==
  /\ pc = "resolve_artifact"
  /\ LET outcome == Resolve(doc.path, index, Absent, options)
     IN  /\ Report(Issue(outcome # "ok", outcome))
         /\ paths' = [paths EXCEPT !.artifact = outcome = "ok"]
         /\ pc' = IF outcome = "ok" THEN "hash_artifact" ELSE "aux"
  /\ UNCHANGED <<fixed, turn, plan, read>>

\* Mutant: content is compared by its size.
MismatchesBySize(file, declared) == Issue(file.size # declared.size, "size")

Mismatches(file, declared) ==
  Issue(file.id # declared.id, "sha256") \o Issue(file.size # declared.size, "size")

HashArtifact ==
  /\ pc = "hash_artifact"
  /\ IF Hashed(index, doc.size)
     THEN LET issues == Mismatches(index, doc)
          IN  /\ report' = [report EXCEPT !.errors = @ \o issues, !.digest = index.id]
              /\ raised' = (raised \/ issues # <<>>)
              /\ read' = [read EXCEPT !.artifact = index.id]
     ELSE Report(<<"artifact_hash">>) /\ UNCHANGED read
  /\ pc' = "probe_artifact"
  /\ UNCHANGED <<fixed, turn, paths, plan>>

\* Mutant: a kind that manifests do not cover is no issue.
ProbeIssuesKindless(probed) ==
  IF probed = Absent THEN <<"artifact_probe">>
  ELSE Issue(probed.vectors # doc.meta.vectors, "vector_count")
       \o Issue(index.size # doc.size, "metadata_size")

ProbeIssues(probed) ==
  IF probed = Absent THEN <<"artifact_probe">>
  ELSE Issue(~ probed.covered, "kind") \o IssuesOf(<<
         <<probed.kind # doc.meta.kind, "kind_mismatch">>,
         <<probed.dim # doc.meta.dim, "dim_mismatch">>,
         <<probed.param # doc.meta.param, "params_mismatch">>,
         <<probed.vectors # doc.meta.vectors, "vector_count">>,
         <<index.size # doc.size, "metadata_size">>>>)

\* probe_index_metadata opens the file again; compare_artifact_metadata.
ProbeArtifact ==
  /\ pc = "probe_artifact"
  /\ LET probed == IF index = Absent THEN Absent ELSE index.meta
         issues == ProbeIssues(probed)
     IN  /\ report' = [report EXCEPT !.errors = @ \o issues,
                         !.meta = IF probed = Absent THEN Absent
                                  ELSE IF probed.covered THEN probed ELSE Absent]
         /\ raised' = (raised \/ issues # <<>>)
  /\ pc' = "aux"
  /\ UNCHANGED <<fixed, turn, paths, plan, read>>

\* The report entry of an auxiliary artifact, and the path captured for it.
Enter(name, state, path, issues) ==
  /\ report' = [report EXCEPT !.errors = @ \o issues,
                  !.entries = Append(@, [name |-> name, state |-> state])]
  /\ raised' = (raised \/ issues # <<>>)
  /\ paths' = [paths EXCEPT !.aux = Append(@, path)]
  /\ turn' = turn + 1 /\ pc' = "aux"

\* resolve_auxiliary_artifact_path for the next declaration, in report order; of
\* an empty path the shape has told.
ResolveAux ==
  /\ pc = "aux" /\ turn <= Len(Aux) /\ AuxCounted
  /\ LET name == Aux[turn]
         file == aux[name]
     IN  IF name \notin DOMAIN doc.aux
         THEN turn' = turn + 1 /\ UNCHANGED <<report, paths, raised, pc>>
         ELSE IF doc.aux[name].path.segs = <<>>
         THEN Enter(name, "failed", Absent, <<>>)
         ELSE LET outcome == Resolve(doc.aux[name].path, file, Absent, options)
              IN  CASE outcome = "ok" ->
                         pc' = "hash_aux" /\ UNCHANGED <<report, paths, raised, turn>>
                    [] outcome = "missing" /\ ~ doc.aux[name].required ->
                         Enter(name, "optional_absent", Absent, <<>>)
                    [] outcome = "missing" /\ doc.aux[name].required ->
                         Enter(name, "missing_required", Absent, <<outcome>>)
                    [] OTHER -> Enter(name, "failed", Absent, <<outcome>>)
  /\ UNCHANGED <<fixed, plan, read>>

\* Once its path is resolved, an optional artifact that goes away is a failure.
HashAux ==
  /\ pc = "hash_aux"
  /\ LET name == Aux[turn]
         file == aux[name]
     IN  IF Hashed(file, doc.aux[name].size)
         THEN LET issues == Mismatches(file, doc.aux[name])
              IN  /\ Enter(name, IF issues = <<>> THEN "verified" ELSE "failed", name, issues)
                  /\ read' = [read EXCEPT !.aux[name] = file.id]
         ELSE Enter(name, "failed", name, <<"aux_hash">>) /\ UNCHANGED read
  /\ UNCHANGED <<fixed, plan>>

\* All are done, or there are more than the limit and none is looked at.
AuxDone ==
  /\ pc = "aux" /\ (turn > Len(Aux) \/ ~ AuxCounted)
  /\ pc' = "resolve_rows"
  /\ UNCHANGED <<fixed, turn, verifying>>

ResolveRows ==
  /\ pc = "resolve_rows"
  /\ IF doc.lines = Absent THEN pc' = "distortion" /\ UNCHANGED <<report, raised, paths>>
     ELSE LET outcome == IF doc.rowCount > options.maxRows THEN "row_count_limit"
                         ELSE Resolve(doc.rowPath, rowMap, Absent, options)
          IN  /\ Report(Issue(outcome # "ok", outcome))
              /\ paths' = [paths EXCEPT !.rows = outcome = "ok"]
              /\ pc' = IF outcome = "ok" THEN "read_rows" ELSE "distortion"
  /\ UNCHANGED <<fixed, turn, plan, read>>

\* What the rows of a map have to be, from the documentation of the format.
GoodMap(lines, n, opts) ==
  /\ Len(lines) = n /\ n <= opts.maxRows
  /\ \A i \in DOMAIN lines :
       lines[i].json /\ lines[i].uuid /\ ~ lines[i].long /\ lines[i].rowId = i - 1
  /\ opts.duplicates \/
       /\ Cardinality({lines[i].dbId : i \in DOMAIN lines}) = Len(lines)
       /\ Len(lines) <= opts.maxTracked

\* The digest is that of the whole file, or none when the loop broke off.
ReadRows ==
  /\ pc = "read_rows"
  /\ IF rowMap = Absent THEN Report(<<"row_read">>) /\ UNCHANGED read
     ELSE LET checked == ValidateJsonlRows(rowMap.lines, doc.rowCount, options, report.errors)
              counted == \E i \in DOMAIN checked.errors : checked.errors[i] = "row_count"
          IN  /\ report' = [report EXCEPT
                   !.errors = checked.errors
                     \o Issue(checked.eof /\ rowMap.lines # doc.lines, "row_sha256")
                     \o Issue(checked.rows # doc.rowCount /\ ~ counted, "row_count"),
                   !.rows = [validated |-> checked.validated,
                             lines |-> IF checked.eof THEN rowMap.lines ELSE Absent]]
              /\ raised' = (raised \/ rowMap.lines # doc.lines
                                   \/ ~ GoodMap(rowMap.lines, doc.rowCount, options))
              /\ read' = [read EXCEPT !.rows = rowMap.lines]
  /\ pc' = "distortion"
  /\ UNCHANGED <<fixed, turn, paths, plan>>

\* The path of a profile, unless it is empty: of that the shape has told.
ProfileOutcome(slot, profile) ==
  IF profile.path.segs = <<>> THEN "none"
  ELSE Resolve(profile.path, profiles[slot], Absent, options)

\* verify_encoder_distortion, up to the file of the profile.
VerifyDistortion ==
  /\ pc = "distortion"
  /\ IF ~ Given(doc.distortion)
     THEN pc' = "calibration" /\ UNCHANGED <<report, raised>>
     ELSE LET d == doc.distortion
              issues == DistortionShape(d) \o DistortionEncoder(d, doc.embedding)
                          \o DistortionMetrics(d) \o DistortionBounds(d.bounds)
                          \o DistortionScope(d.scope) \o DistortionEvidence(d)
          IN  IF ~ Given(d.profile)
              THEN Report(issues) /\ pc' = "calibration"
              ELSE LET outcome == ProfileOutcome("distortion", d.profile)
                   IN  /\ Report(issues \o DistortionProfile(d.profile, options.escape)
                                  \o Issue(outcome \notin {"ok", "none"}, outcome))
                       /\ pc' = IF outcome = "ok" THEN "hash_distortion" ELSE "calibration"
  /\ UNCHANGED <<fixed, turn, paths, plan, read>>

\* The file of a profile, opened once more.
HashProfile(slot, profile) ==
  LET file == profiles[slot]
  IN  IF Hashed(file, profile.size)
      THEN /\ Report(Mismatches(file, profile))
           /\ read' = [read EXCEPT !.profiles[slot] = file]
      ELSE Report(<<"profile_hash">>) /\ UNCHANGED read

HashDistortion ==
  /\ pc = "hash_distortion"
  /\ HashProfile("distortion", doc.distortion.profile)
  /\ pc' = "calibration"
  /\ UNCHANGED <<fixed, turn, paths, plan>>

\* The distortion's link to the calibration, and verify_calibration up to the
\* file of its profile; neither looks at a file before.
VerifyCalibration ==
  /\ pc = "calibration"
  /\ LET link == IF Given(doc.distortion) THEN DistortionLink(doc.distortion, doc.calibration)
                 ELSE <<>>
         c == doc.calibration
     IN  IF ~ Given(c) THEN Report(link) /\ pc' = "attestations"
         ELSE LET issues == link \o CalibrationShape(c) \o CalibrationEncoder(c, doc.embedding)
                              \o CalibrationOrdinalization(c, doc.meta) \o CalibrationNull(c)
                              \o CalibrationProfile(c, doc.meta, options.escape)
                  outcome == IF Uniform(c) \/ ~ Given(c.profile) THEN "none"
                             ELSE ProfileOutcome("calibration", c.profile)
              IN  /\ Report(issues \o Issue(outcome \notin {"ok", "none"}, outcome))
                  /\ pc' = IF outcome = "ok" THEN "hash_calibration" ELSE "attestations"
  /\ UNCHANGED <<fixed, turn, paths, plan, read>>

HashCalibration ==
  /\ pc = "hash_calibration"
  /\ HashProfile("calibration", doc.calibration.profile)
  /\ pc' = "attestations"
  /\ UNCHANGED <<fixed, turn, paths, plan>>

\* verify_attestations: one of the subjects has to be the artifact, by the digest
\* that was computed, or the declared one if none was.
VerifyAttestations ==
  /\ pc = "attestations"
  /\ LET digest == IF Given(report.digest) THEN report.digest ELSE doc.id
         said == Range(doc.attestations)
         wrong == {i \in DOMAIN doc.attestations : ~ doc.attestations[i].predicate}
     IN  Report([i \in 1 .. Cardinality(wrong) |-> "predicate_type"]
                \o Issue(said # {} /\ \A x \in said : digest \notin x.subjects, "subject"))
  /\ pc' = "finish"
  /\ UNCHANGED <<fixed, turn, paths, plan, read>>

-----------------------------------------------------------------------------
(* The plan.                                                               *)

\* VerifiedLoadPlan::from_report finds everything it needs.
Complete ==
  /\ paths.artifact /\ report.meta # Absent
  /\ doc.lines # Absent => paths.rows
  /\ \A i \in DOMAIN report.entries :
       \/ report.entries[i].state = "optional_absent"
       \/ report.entries[i].state = "verified" /\ i \in DOMAIN paths.aux /\ paths.aux[i] # Absent

PlanFromReport ==
  [meta |-> report.meta, rows |-> report.rows,
   aux |-> [i \in DOMAIN report.entries |->
              [name |-> report.entries[i].name,
               path |-> IF report.entries[i].state = "verified" THEN paths.aux[i] ELSE Absent]]]

Finish ==
  /\ pc = "finish"
  /\ LET errors == EnforceLimit(report.errors, options.maxIssues)
         ok == errors = <<>>
     IN  /\ report' = [report EXCEPT !.errors = errors, !.ok = ok]
         /\ plan' = IF ok /\ Complete THEN PlanFromReport ELSE Absent
         /\ pc' = IF ~ ok THEN "refused" ELSE IF Complete THEN "planned" ELSE "incomplete"
  /\ UNCHANGED <<fixed, turn, paths, raised, read>>

\* The caller may verify again, as the documentation of the plan advises.
VerifyAgain ==
  /\ pc \in {"refused", "planned"}
  /\ pc' = "verify"
  /\ UNCHANGED <<fixed, turn, verifying>>

-----------------------------------------------------------------------------
(* The files, replaced by others.                                          *)

\* Only a file that the manifest, or create, may still look at.
Declares(slot) ==
  doc # Absent /\ Given(IF slot = "distortion" THEN doc.distortion ELSE doc.calibration)

Replace ==
  /\ edits > 0 /\ edits' = edits - 1
  /\ \/ index' \in (Indexes \cup {Absent}) \ {index} /\ UNCHANGED <<rowMap, aux, profiles>>
     \/ rowMap' \in (RowMaps \cup {Absent}) \ {rowMap} /\ UNCHANGED <<index, aux, profiles>>
     \/ /\ \E n \in Names : \E file \in (AuxFiles \cup {Absent}) \ {aux[n]} :
             aux' = [aux EXCEPT ![n] = file]
        /\ UNCHANGED <<index, rowMap, profiles>>
     \/ /\ \E slot \in Slots : \E file \in (AuxFiles \cup {Absent}) \ {profiles[slot]} :
             Declares(slot) /\ profiles' = [profiles EXCEPT ![slot] = file]
        /\ UNCHANGED <<index, rowMap, aux>>
  /\ calm' = FALSE
  /\ UNCHANGED <<options, request, creating, pc, turn, verifying>>

Next ==
  \/ CreateProbe \/ CreateHash \/ CreateRows \/ CreateAux \/ CreateManifest
  \/ LoadManifest \/ VerifyShape \/ ResolveArtifact \/ HashArtifact \/ ProbeArtifact
  \/ ResolveAux \/ HashAux \/ AuxDone \/ ResolveRows \/ ReadRows
  \/ VerifyDistortion \/ HashDistortion \/ VerifyCalibration \/ HashCalibration
  \/ VerifyAttestations \/ Finish \/ VerifyAgain \/ Replace

Spec == Init /\ [][Next]_vars

-----------------------------------------------------------------------------
(* Properties.                                                             *)

\* A check that has failed is never forgotten: the report is ok only if every
\* check of this verification passed, whatever the limit on issues drops or
\* truncates (lib.rs, push_report_issue_bounded and enforce_report_issue_limit).
VerdictKept ==
  pc \in {"refused", "planned", "incomplete"} =>
    /\ report.ok = ~ raised
    /\ Len(report.errors) <= IF options.maxIssues = 0 THEN 1 ELSE options.maxIssues

\* What was read for a profile is what was declared.
ProfileRead(slot, profile) ==
  /\ read.profiles[slot] # Absent
  /\ read.profiles[slot].id = profile.id /\ read.profiles[slot].size = profile.size

\* What a plan says of the encoder: the bounds of its distortion leave room, and
\* evidence that more than the caller stands for is in a file that was read.
DistortionSound(d) ==
  /\ d.encoder.model = doc.embedding.model /\ d.encoder.dim = plan.meta.dim
  /\ Given(d.bounds.lower) /\ Given(d.bounds.upper) =>
       /\ 0 < d.bounds.lower /\ d.bounds.lower <= d.bounds.upper
       /\ Given(d.bounds.estimated) => d.bounds.estimated >= Unit
  /\ IF Given(d.profile) THEN ProfileRead("distortion", d.profile)
     ELSE d.evidence = "caller_asserted"
  /\ Given(d.calibration) =>
       Given(doc.calibration) /\ doc.calibration.id = d.calibration

\* What a plan says of the null: it is one for the kind, the dimension and the
\* parameter of the index, and a raw table has an entry for every cell of it.
CalibrationSound(c) ==
  /\ c.encoder.model = doc.embedding.model /\ c.ord.dim = plan.meta.dim
  /\ c.ord.kind \in {"top_k", "bucket"} => c.ord.arg = plan.meta.param
  /\ IF Uniform(c) THEN plan.meta.kind = "bitmap" /\ ~ Given(c.profile)
     ELSE /\ Given(c.profile) /\ ProfileRead("calibration", c.profile)
          /\ c.profile.dim = plan.meta.dim
          /\ c.profile.format = "raw_f32_le" /\ c.profile.shape # <<>> =>
               read.profiles["calibration"].size =
                 (CASE c.profile.by = "bucket_frequency" /\ c.ord.kind = "bucket" ->
                            plan.meta.dim * 2^plan.meta.param
                       [] c.profile.by = "rank_position_frequency" ->
                            plan.meta.dim * plan.meta.dim
                       [] c.profile.by \in {"marginal_topk_frequency", "sign_frequency"} ->
                            plan.meta.dim
                       [] OTHER -> Values(c.profile.shape)) * 4

\* A plan tells of bytes that were verified: the index, the row map, each
\* auxiliary artifact it names and each profile were read with the declared
\* content during this verification, the row map numbers every vector once, the
\* metadata is the declared one, each path belongs to the artifact it is listed
\* under, the profiles are about this encoder and this index, and an attestation
\* that is there is about the bytes that were read
\* (VerifiedLoadPlan, "proof of the verification just performed").
PlanSound ==
  plan # Absent =>
    /\ read.artifact = doc.id /\ plan.meta = doc.meta
    /\ doc.lines # Absent =>
         /\ read.rows = doc.lines /\ plan.rows.lines = doc.lines
         /\ GoodMap(doc.lines, doc.meta.vectors, options)
    /\ {plan.aux[i].name : i \in DOMAIN plan.aux} = DOMAIN doc.aux
    /\ \A i \in DOMAIN plan.aux :
         LET name == plan.aux[i].name
         IN  IF plan.aux[i].path = Absent THEN ~ doc.aux[name].required
             ELSE plan.aux[i].path = name /\ read.aux[name] = doc.aux[name].id
    /\ Given(doc.distortion) => DistortionSound(doc.distortion)
    /\ Given(doc.calibration) => CalibrationSound(doc.calibration)
    /\ doc.attestations # <<>> =>
         \E x \in Range(doc.attestations) : read.artifact \in x.subjects

\* A report that is ok always becomes a plan: IncompletePlan is unreachable.
PlanComplete == pc # "incomplete"

\* What create lets through and verification does not: a model without a name, a
\* required artifact without content, and a path that begins like one of another
\* platform's absolute paths.
Refusable ==
  \/ Blank(doc.embedding.model)
  \/ \E n \in DOMAIN doc.aux : doc.aux[n].required /\ doc.aux[n].size = 0
  \/ PolicyAbsolute(doc.path)
  \/ doc.lines # Absent /\ PolicyAbsolute(doc.rowPath)
  \/ \E n \in DOMAIN doc.aux : PolicyAbsolute(doc.aux[n].path)

\* A manifest that create has just made is verified under the same options, if
\* nobody replaces a file, with the exceptions above and no other ("what create
\* writes, verify (under the same policy flags) must accept").
CreatedVerifies ==
  calm /\ pc \in {"planned", "refused"} => ((pc = "refused") <=> Refusable)

\* The metadata and the digest of a created manifest describe the same bytes
\* (create_manifest_for_index_with_options, "any change between the metadata
\* probe and the hash (concurrent writer) fails loudly instead of embedding a
\* size/digest pair describing different bytes").
CreatedConsistent ==
  doc # Absent /\ seen.meta # Absent =>
    \E f \in Indexes : f.id = doc.id /\ f.size = doc.size /\ f.meta = doc.meta
=============================================================================
