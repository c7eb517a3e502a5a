------------------------------ MODULE Registry ------------------------------
(***************************************************************************)
(* The sqlite registry of ordvec-manifest (src/ordvec-manifest/src/        *)
(* sqlite.rs): a cache of verification reports and one active-manifest     *)
(* pointer, used by several processes at once.  Each command loads the     *)
(* manifest, opens the database and brings its tables to the current       *)
(* schema, answers from the cache or verifies the files one after the      *)
(* other, stores the report, and may then move the pointer.  The files can *)
(* be replaced and a process can stop between any two of these steps.      *)
(*                                                                         *)
(* One manifest path, one index artifact, and one profile that stands for  *)
(* every other file a manifest may declare.  A file's content is a record  *)
(* of its identity (its SHA-256), its size and, for an index, the metadata *)
(* a probe finds; a manifest declares contents.                            *)
(***************************************************************************)
EXTENDS Naturals, Sequences, FiniteSets

CONSTANTS
  Manifests,      \* manifest documents
  Declares,       \* Declares[m]: the [artifact, profile] contents m declares
  Contents,       \* contents of the artifact and profile files
  Absent,         \* no file, no profile declared, NULL
  Processes,
  Commands,       \* the commands run: [activate, cache, force : BOOLEAN]
  OldTables,      \* the [reports, active] schemas the database may start with
  EditDuringCalls,\* may the manifest be replaced while a command uses it?
  MaxCalls, MaxEdits  \* bounds on commands and on replacements of files

Content == [id : Nat, size : Nat, meta : Nat]

\* The columns a report is stored and found under, and the active row.
Key    == [manifest : Manifests \cup {Absent}, artifact : Contents \cup {Absent},
           profile : Contents \cup {Absent}]
Active == [doc : Manifests, forced : BOOLEAN]

ASSUME RegistryAssumption ==
  /\ Contents \subseteq Content
  /\ Absent \notin Contents \cup Manifests \cup Key \cup Active
  /\ Declares \in [Manifests -> [artifact : Contents, profile : Contents \cup {Absent}]]
  /\ Commands \subseteq [activate : BOOLEAN, cache : BOOLEAN, force : BOOLEAN]
  /\ OldTables \subseteq [reports : {"absent", "legacy"}, active : {"absent", "legacy"}]
  /\ EditDuringCalls \in BOOLEAN /\ {MaxCalls, MaxEdits} \subseteq Nat

VARIABLES
  manifest, artifact, profile,  \* the files
  reports,    \* verification_reports: its schema and its rows, oldest first
  active,     \* active_manifest: its schema and its row, or Absent
  proc,       \* proc[p]: the command p runs, or Idle
  calls, edits

files == <<manifest, artifact, profile>>
db    == <<reports, active>>
vars  == <<files, db, proc, calls, edits>>

Idle == [pc |-> "idle"]

NoReport == [ok |-> FALSE, doc |-> Absent, artifact |-> Absent, profile |-> Absent]

Init ==
  /\ manifest \in Manifests /\ artifact \in Contents /\ profile \in Contents \cup {Absent}
  /\ \E old \in OldTables :
       /\ reports = [schema |-> old.reports,
                     rows |-> IF old.reports = "absent" THEN <<>>
                              ELSE <<[key |-> Absent, report |-> NoReport]>>]
       /\ active = [schema |-> old.active, row |-> Absent]
  /\ proc = [p \in Processes |-> Idle]
  /\ calls = 0 /\ edits = 0

At(p, pc) == proc[p].pc = pc
Goto(p, pc) == proc' = [proc EXCEPT ![p].pc = pc]

-----------------------------------------------------------------------------
(* Opening the database.                                                   *)

\* load_manifest_file, before the database is opened.
Start(p, cmd) ==
  /\ At(p, "idle") /\ calls < MaxCalls /\ calls' = calls + 1
  /\ proc' = [proc EXCEPT ![p] =
       [pc |-> "open", cmd |-> cmd, doc |-> manifest, quiet |-> TRUE,
        key |-> [manifest |-> Absent, artifact |-> Absent, profile |-> Absent],
        probed |-> FALSE, report |-> NoReport]]
  /\ UNCHANGED <<files, db, edits>>

\* Mutant: an older table is taken as it is.
CheckReportsSkipped(p) ==
  /\ At(p, "open")
  /\ Goto(p, "check_active")
  /\ UNCHANGED <<files, db, calls, edits>>

\* verification_reports_needs_migration.
CheckReports(p) ==
  /\ At(p, "open")
  /\ Goto(p, IF reports.schema = "legacy" THEN "migrate" ELSE "check_active")
  /\ UNCHANGED <<files, db, calls, edits>>

\* A row copied by the migration has no cache key.
Unkeyed(rows) == [i \in DOMAIN rows |-> [rows[i] EXCEPT !.key = Absent]]

\* Mutant: the need is not checked again under the lock.
MigrateUnchecked(p) ==
  /\ At(p, "migrate")
  /\ reports' = [schema |-> "current", rows |-> Unkeyed(reports.rows)]
  /\ Goto(p, "check_active")
  /\ UNCHANGED <<files, active, calls, edits>>

\* One IMMEDIATE transaction, which checks the need again under the lock.
Migrate(p) ==
  /\ At(p, "migrate")
  /\ reports' = IF reports.schema = "legacy"
                THEN [schema |-> "current", rows |-> Unkeyed(reports.rows)]
                ELSE reports
  /\ Goto(p, "check_active")
  /\ UNCHANGED <<files, active, calls, edits>>

\* drop_registry_table_on_schema_mismatch: the columns are read in one
\* statement and the table is dropped in another.
CheckActive(p) ==
  /\ At(p, "check_active")
  /\ Goto(p, IF active.schema = "legacy" THEN "drop_active" ELSE "create_reports")
  /\ UNCHANGED <<files, db, calls, edits>>

\* DROP TABLE fails when another process has just dropped it.
DropActive(p) ==
  /\ At(p, "drop_active")
  /\ active' = [schema |-> "absent", row |-> Absent]
  /\ IF active.schema = "absent" THEN proc' = [proc EXCEPT ![p] = Idle]
                                 ELSE Goto(p, "create_reports")
  /\ UNCHANGED <<files, reports, calls, edits>>

\* CREATE TABLE IF NOT EXISTS, a statement for each table.
CreateReports(p) ==
  /\ At(p, "create_reports")
  /\ reports' = IF reports.schema = "absent" THEN [reports EXCEPT !.schema = "current"]
                                             ELSE reports
  /\ Goto(p, "create_active")
  /\ UNCHANGED <<files, active, calls, edits>>

CreateActive(p) ==
  /\ At(p, "create_active")
  /\ active' = IF active.schema = "absent" THEN [active EXCEPT !.schema = "current"]
                                           ELSE active
  /\ Goto(p, IF proc[p].cmd.cache /\ ~ proc[p].cmd.activate THEN "key_manifest"
             ELSE "hash_artifact")
  /\ UNCHANGED <<files, reports, calls, edits>>

-----------------------------------------------------------------------------
(* The cache.                                                              *)

\* sha256_file_bounded: no digest for a missing file or one larger than the
\* document declares.
Digest(content, declared) ==
  IF content # Absent /\ declared # Absent
  THEN IF content.size <= declared.size THEN content ELSE Absent
  ELSE Absent

\* current_cache_key hashes the manifest file, not the document it was given.
KeyManifest(p) ==
  /\ At(p, "key_manifest")
  /\ proc' = [proc EXCEPT ![p].key.manifest = manifest, ![p].pc = "key_artifact"]
  /\ UNCHANGED <<files, db, calls, edits>>

\* Without a digest of the artifact there is no key: a miss.
KeyArtifact(p) ==
  /\ At(p, "key_artifact")
  /\ LET digest == Digest(artifact, Declares[proc[p].doc].artifact)
     IN  proc' = [proc EXCEPT ![p].key.artifact = digest,
                    ![p].pc = IF digest = Absent THEN "hash_artifact" ELSE "key_profile"]
  /\ UNCHANGED <<files, db, calls, edits>>

KeyProfile(p) ==
  /\ At(p, "key_profile")
  /\ proc' = [proc EXCEPT ![p].key.profile = Digest(profile, Declares[proc[p].doc].profile),
                          ![p].pc = "lookup"]
  /\ UNCHANGED <<files, db, calls, edits>>

\* Mutant: the profile is left out of the comparison.
MatchesWithoutProfile(key) ==
  {i \in DOMAIN reports.rows :
     reports.rows[i].key # Absent /\ [reports.rows[i].key EXCEPT !.profile = key.profile] = key}

Matches(key) == {i \in DOMAIN reports.rows : reports.rows[i].key = key}

\* The newest report under the key is the answer.
Lookup(p) ==
  /\ At(p, "lookup")
  /\ IF Matches(proc[p].key) = {} THEN Goto(p, "hash_artifact")
     ELSE LET newest == CHOOSE i \in Matches(proc[p].key) :
                          \A j \in Matches(proc[p].key) : j <= i
          IN  proc' = [proc EXCEPT ![p].report = reports.rows[newest].report,
                                   ![p].pc = "hit"]
  /\ UNCHANGED <<files, db, calls, edits>>

-----------------------------------------------------------------------------
(* Verification: verify_manifest reads the files one after the other, the  *)
(* artifact twice.                                                         *)

HashArtifact(p) ==
  /\ At(p, "hash_artifact")
  /\ proc' = [proc EXCEPT
       ![p].report.artifact = Digest(artifact, Declares[proc[p].doc].artifact),
       ![p].pc = "probe"]
  /\ UNCHANGED <<files, db, calls, edits>>

\* probe_index_metadata opens the file again; compare_artifact_metadata.
ProbeArtifact(p) ==
  /\ At(p, "probe")
  /\ proc' = [proc EXCEPT
       ![p].probed = IF artifact = Absent THEN FALSE
                     ELSE artifact.meta = Declares[proc[p].doc].artifact.meta,
       ![p].pc = "hash_profile"]
  /\ UNCHANGED <<files, db, calls, edits>>

HashProfile(p) ==
  /\ At(p, "hash_profile")
  /\ LET declared == Declares[proc[p].doc]
         digest == Digest(profile, declared.profile)
         seen == proc[p].report.artifact
     IN  proc' = [proc EXCEPT
           ![p].report = [ok |-> /\ seen = declared.artifact /\ proc[p].probed
                                 /\ digest = declared.profile,
                          doc |-> proc[p].doc, artifact |-> seen, profile |-> digest],
           ![p].pc = "stamp"]
  /\ UNCHANGED <<files, db, calls, edits>>

\* cache_key_from_report: the manifest file is hashed now.  A failure that is
\* about to be forced, and a digest that is missing, leave the report unkeyed.
StampKey(p) ==
  /\ At(p, "stamp")
  /\ LET report == proc[p].report
         unkeyed == \/ ~ report.ok /\ proc[p].cmd.activate /\ proc[p].cmd.force
                    \/ report.artifact = Absent
                    \/ Declares[proc[p].doc].profile # Absent /\ report.profile = Absent
     IN  proc' = [proc EXCEPT
           ![p].key = IF unkeyed THEN Absent
                      ELSE [manifest |-> manifest, artifact |-> report.artifact,
                            profile |-> report.profile],
           ![p].pc = "store"]
  /\ UNCHANGED <<files, db, calls, edits>>

\* Mutant: a failed verification is activated without force.
StoreReportThenActivate(p) ==
  /\ At(p, "store")
  /\ reports' = [reports EXCEPT
       !.rows = Append(@, [key |-> proc[p].key, report |-> proc[p].report])]
  /\ IF proc[p].cmd.activate
     THEN Goto(p, "activate") ELSE proc' = [proc EXCEPT ![p] = Idle]
  /\ UNCHANGED <<files, active, calls, edits>>

\* store_report, in a transaction of its own.
StoreReport(p) ==
  /\ At(p, "store")
  /\ reports' = [reports EXCEPT
       !.rows = Append(@, [key |-> proc[p].key, report |-> proc[p].report])]
  /\ IF proc[p].cmd.activate /\ (proc[p].report.ok \/ proc[p].cmd.force)
     THEN Goto(p, "activate") ELSE proc' = [proc EXCEPT ![p] = Idle]
  /\ UNCHANGED <<files, active, calls, edits>>

\* The upsert of row 1; it fails on a table that is gone.
Activate(p) ==
  /\ At(p, "activate")
  /\ active' = IF active.schema = "current"
               THEN [active EXCEPT !.row = [doc |-> proc[p].doc, forced |-> proc[p].cmd.force]]
               ELSE active
  /\ proc' = [proc EXCEPT ![p] = Idle]
  /\ UNCHANGED <<files, reports, calls, edits>>

\* A cached report is returned; any other command may stop here, because its
\* process ends or the database stays locked.
End(p) ==
  /\ ~ At(p, "idle")
  /\ proc' = [proc EXCEPT ![p] = Idle]
  /\ UNCHANGED <<files, db, calls, edits>>

-----------------------------------------------------------------------------
(* The files, replaced by others.                                          *)

Edited ==
  /\ edits < MaxEdits /\ edits' = edits + 1
  /\ proc' = [p \in Processes |-> IF At(p, "idle") THEN Idle
                                  ELSE [proc[p] EXCEPT !.quiet = FALSE]]
  /\ UNCHANGED <<db, calls>>

ReplaceManifest ==
  /\ (\E p \in Processes : ~ At(p, "idle")) => EditDuringCalls
  /\ manifest' \in Manifests \ {manifest}
  /\ Edited
  /\ UNCHANGED <<artifact, profile>>

ReplaceArtifact ==
  /\ artifact' \in (Contents \cup {Absent}) \ {artifact}
  /\ Edited
  /\ UNCHANGED <<manifest, profile>>

ReplaceProfile ==
  /\ profile' \in (Contents \cup {Absent}) \ {profile}
  /\ Edited
  /\ UNCHANGED <<manifest, artifact>>

Next ==
  \/ \E p \in Processes :
       \/ \E cmd \in Commands : Start(p, cmd)
       \/ CheckReports(p) \/ Migrate(p) \/ CheckActive(p) \/ DropActive(p)
       \/ CreateReports(p) \/ CreateActive(p)
       \/ KeyManifest(p) \/ KeyArtifact(p) \/ KeyProfile(p) \/ Lookup(p)
       \/ HashArtifact(p) \/ ProbeArtifact(p) \/ HashProfile(p) \/ StampKey(p)
       \/ StoreReport(p) \/ Activate(p) \/ End(p)
  \/ ReplaceManifest \/ ReplaceArtifact \/ ReplaceProfile

Spec == Init /\ [][Next]_vars

-----------------------------------------------------------------------------
(* Properties.                                                             *)

Report == [ok : BOOLEAN, doc : Manifests \cup {Absent},
           artifact : Contents \cup {Absent}, profile : Contents \cup {Absent}]

\* Type correctness of the files and the tables: a table that commands store
\* into has the current schema.
TypeOK ==
  /\ manifest \in Manifests
  /\ {artifact, profile} \subseteq Contents \cup {Absent}
  /\ reports.schema \in {"absent", "legacy", "current"}
  /\ active.schema \in {"absent", "legacy", "current"}
  /\ \A i \in DOMAIN reports.rows : reports.rows[i].report \in Report
  /\ active.row # Absent => active.schema = "current"
  /\ \A p \in Processes : proc[p].pc \in {"lookup", "hit", "store", "activate"} =>
       reports.schema = "current"

\* What verifying document m against the files as they are would say.
Verifies(m) ==
  /\ artifact = Declares[m].artifact
  /\ Declares[m].profile \in {Absent, profile}

\* A cached report was made for the manifest and the file bytes it is reused for
\* (README of ordvec-manifest, "reuses only reports whose manifest, verification
\* options, artifact bytes, ... still match"), when no file is replaced between
\* this command's load of the manifest and its answer.
ReusedReportMatches ==
  \A p \in Processes : At(p, "hit") /\ proc[p].quiet =>
    /\ proc[p].report.doc = proc[p].doc
    /\ proc[p].report.artifact = artifact

\* A cached report is reused only for what it was made for, and one that says ok
\* only while a fresh verification would say so, with the same proviso.
HitSound ==
  /\ ReusedReportMatches
  /\ \A p \in Processes : At(p, "hit") /\ proc[p].quiet /\ proc[p].report.ok =>
       Verifies(proc[p].doc)

\* An active manifest that was not forced has an ok report of itself in the
\* log: whatever races, the pointer never precedes or survives its evidence.
ActivationBacked ==
  active.row # Absent =>
    \/ active.row.forced
    \/ \E i \in DOMAIN reports.rows :
         reports.rows[i].report.ok /\ reports.rows[i].report.doc = active.row.doc

\* No step of any command, migrations that race included, loses a stored
\* report or the cache key it was stored under (sqlite.rs, "a process that
\* lost the race commits a no-op instead of re-migrating").
LogKept ==
  [][\A i \in DOMAIN reports.rows :
       /\ i \in DOMAIN reports'.rows
       /\ reports'.rows[i].report = reports.rows[i].report
       /\ reports'.rows[i].key = reports.rows[i].key]_vars

\* Once the active_manifest table has the current schema, opening the registry
\* leaves it alone (sqlite.rs, "Idempotent: once the table matches the current
\* schema this is a no-op").
ActivationKept ==
  [][active.schema = "current" => active'.schema = "current"]_vars
=============================================================================
