--------------------------- MODULE Registry_proof ---------------------------
(***************************************************************************)
(* For every set of processes, manifests and files and any number of       *)
(* commands and replacements: the log of reports only grows, a pointer     *)
(* that was not forced has its evidence, and, where nobody replaces a      *)
(* manifest that a command uses, a cached report is reused only for what   *)
(* it was made for.                                                        *)
(***************************************************************************)
EXTENDS Registry, FiniteSetTheorems, SequenceTheorems, WellFoundedInduction, TLAPS

Migrated == {"check_active", "drop_active", "create_reports"}
Created  == {"create_active", "key_manifest", "key_artifact", "key_profile", "lookup",
             "hit", "hash_artifact", "probe", "hash_profile", "stamp", "store", "activate"}
Phases   == {"open", "migrate"} \cup Migrated \cup Created
Schemas  == {"absent", "legacy", "current"}
Row      == [key : Key \cup {Absent}, report : Report]
Command  == [pc : Phases, cmd : Commands, doc : Manifests, quiet : BOOLEAN,
             key : Key \cup {Absent}, probed : BOOLEAN, report : Report]

Shape ==
  /\ manifest \in Manifests
  /\ artifact \in Contents \cup {Absent} /\ profile \in Contents \cup {Absent}
  /\ reports \in [schema : Schemas, rows : Seq(Row)]
  /\ active \in [schema : Schemas, row : Active \cup {Absent}]
  /\ proc \in [Processes -> Command \cup {Idle}]
  /\ \A p \in Processes :
       proc[p].pc \in Phases \ {"store", "activate"} => proc[p].key \in Key

\* A table only gets a row once it has the current schema, and keeps that.
Tables ==
  /\ reports.schema = "legacy" => \A i \in DOMAIN reports.rows : reports.rows[i].key = Absent
  /\ active.row # Absent => active.schema = "current"
  /\ \A p \in Processes : /\ proc[p].pc \in Migrated => reports.schema # "legacy"
                          /\ proc[p].pc \in Created => reports.schema = "current"

\* A log has an ok report of document m.
Backed(rows, m) == \E i \in DOMAIN rows : rows[i].report.ok /\ rows[i].report.doc = m

\* Evidence is in the log before the pointer moves.
Evidence ==
  /\ active.row # Absent => active.row.forced \/ Backed(reports.rows, active.row.doc)
  /\ \A p \in Processes :
       /\ proc[p].pc \in {"stamp", "store"} => proc[p].report.doc = proc[p].doc
       /\ proc[p].pc = "activate" => proc[p].cmd.force \/ Backed(reports.rows, proc[p].doc)

IInv == Shape /\ Tables /\ Evidence

\* A process that is not idle is in a command.
LEMMA Busy == ASSUME Shape, NEW p \in Processes, proc[p].pc # "idle"
              PROVE  proc[p] \in Command
  BY DEF Shape, Idle

\* The tables as they are found hold nothing that would need evidence.
LEMMA InitIInv == ASSUME Init PROVE IInv
<1> USE RegistryAssumption DEF Init, Idle, Phases, Migrated, Created
<1>1. PICK old \in OldTables :
        /\ reports = [schema |-> old.reports,
                      rows |-> IF old.reports = "absent" THEN <<>>
                               ELSE <<[key |-> Absent, report |-> NoReport]>>]
        /\ active = [schema |-> old.active, row |-> Absent]
  OBVIOUS
<1>2. old.reports \in Schemas /\ old.active \in Schemas
  BY DEF Schemas
<1>3. [key |-> Absent, report |-> NoReport] \in Row
  BY DEF Row, Report, NoReport
<1>4. reports.rows \in Seq(Row)
  <2>1. CASE old.reports = "absent"
    BY <1>1, <2>1
  <2>2. CASE old.reports # "absent"
    BY <1>1, <1>3, <2>2
  <2> QED BY <2>1, <2>2
<1>5. Shape
  BY <1>1, <1>2, <1>4 DEF Shape, Active
<1>6. Tables
  BY <1>1, <1>2 DEF Tables
<1>7. Evidence
  BY <1>1 DEF Evidence
<1> QED BY <1>5, <1>6, <1>7 DEF IInv

\* Any step of one command, or a replacement of a file.
Step(p) ==
  \/ \E cmd \in Commands : Start(p, cmd)
  \/ CheckReports(p) \/ Migrate(p) \/ CheckActive(p) \/ DropActive(p)
  \/ CreateReports(p) \/ CreateActive(p)
  \/ KeyManifest(p) \/ KeyArtifact(p) \/ KeyProfile(p) \/ Lookup(p)
  \/ HashArtifact(p) \/ ProbeArtifact(p) \/ HashProfile(p) \/ StampKey(p)
  \/ StoreReport(p) \/ Activate(p) \/ End(p)

Replace == ReplaceManifest \/ ReplaceArtifact \/ ReplaceProfile

LEMMA NextStep == Next <=> (\E p \in Processes : Step(p)) \/ Replace
  BY DEF Next, Step, Replace

\* A log is a sequence of rows; a row added, and rows without their keys, make one too.
LEMMA LogType ==
  ASSUME NEW rows \in Seq(Row)
  PROVE  /\ Len(rows) \in Nat /\ DOMAIN rows = 1 .. Len(rows)
         /\ \A i \in DOMAIN rows : rows[i] \in Row /\ rows[i].report \in Report
         /\ Unkeyed(rows) \in Seq(Row)
         /\ \A row \in Row :
              /\ Append(rows, row) \in Seq(Row) /\ Len(Append(rows, row)) = Len(rows) + 1
              /\ \A i \in DOMAIN rows : Append(rows, row)[i] = rows[i]
              /\ Append(rows, row)[Len(rows) + 1] = row
<1>1. Len(rows) \in Nat /\ DOMAIN rows = 1 .. Len(rows)
  BY LenProperties
<1>2. \A i \in DOMAIN rows : rows[i] \in Row
  BY <1>1, ElementOfSeq
<1>3. \A row \in Row : row.report \in Report /\ [row EXCEPT !.key = Absent] \in Row
  BY DEF Row
<1>4. Unkeyed(rows) \in Seq(Row)
  BY <1>1, <1>2, <1>3 DEF Unkeyed
<1>5. \A row \in Row :
        /\ Append(rows, row) \in Seq(Row) /\ Len(Append(rows, row)) = Len(rows) + 1
        /\ \A i \in DOMAIN rows : Append(rows, row)[i] = rows[i]
        /\ Append(rows, row)[Len(rows) + 1] = row
  BY <1>1, AppendProperties
<1> QED BY <1>1, <1>2, <1>3, <1>4, <1>5

\* A nonempty set of natural numbers has a least one: a claim about every step
\* of a loop is proved by the first step at which it would fail.
LEMMA LeastNumber ==
  ASSUME NEW S \in SUBSET Nat, S # {}
  PROVE  \E m \in S : \A k \in S : m <= k
<1>1. PICK m \in S : \A k \in S : ~ <<k, m>> \in OpToRel(<, Nat)
  BY NatLessThanWellFounded, WFMin
<1>2. m \in Nat /\ \A k \in S : k \in Nat /\ ~ k < m
  BY <1>1 DEF OpToRel
<1>3. \A k \in S : m <= k
  BY <1>2
<1> QED BY <1>3

\* The newest row under a key is one of the rows under the key.
LEMMA Newest ==
  ASSUME reports.rows \in Seq(Row), NEW key, Matches(key) # {}
  PROVE  LET newest == CHOOSE i \in Matches(key) : \A j \in Matches(key) : j <= i
         IN  newest \in DOMAIN reports.rows /\ reports.rows[newest].key = key
<1> DEFINE n == Len(reports.rows)
           Above == {b \in Nat : \A j \in Matches(key) : j <= b}
<1>1. Matches(key) \subseteq 1 .. n /\ n \in Nat
  BY DEF Matches
<1>2. PICK b \in Above : \A c \in Above : b <= c
  <2>1. n \in Above /\ Above \in SUBSET Nat
    BY <1>1
  <2> HIDE DEF Above
  <2> QED BY <2>1, LeastNumber
<1>3. b \in Nat /\ \A j \in Matches(key) : j \in Nat /\ j <= b
  BY <1>1
<1>4. b \in Matches(key)
  <2>1. SUFFICES ASSUME b \notin Matches(key) PROVE FALSE
    OBVIOUS
  <2>2. PICK j \in Matches(key) : TRUE
    OBVIOUS
  <2>3. b - 1 \in Nat /\ ~ b <= b - 1
    BY <1>3, <2>1, <2>2
  <2>4. \A i \in Matches(key) : i <= b - 1
    BY <1>3, <2>1
  <2>5. b - 1 \in Above
    BY <2>3, <2>4
  <2> HIDE DEF Above
  <2> QED BY <1>2, <2>3, <2>5
<1> QED BY <1>3, <1>4 DEF Matches

\* What a file is hashed to.
LEMMA DigestType ==
  ASSUME NEW content \in Contents \cup {Absent}, NEW declared \in Contents \cup {Absent}
  PROVE  Digest(content, declared) \in Contents \cup {Absent}
  BY DEF Digest

LEMMA DeclaresType ==
  ASSUME NEW m \in Manifests
  PROVE  Declares[m].artifact \in Contents /\ Declares[m].profile \in Contents \cup {Absent}
  BY RegistryAssumption

\* A step within a command keeps the shapes, if it keeps those of the tables and
\* gives the process one of its own.
LEMMA ShapeKept ==
  ASSUME Shape, NEW p \in Processes, NEW c \in Command \cup {Idle},
         proc' = [proc EXCEPT ![p] = c], UNCHANGED files,
         c.pc \in Phases \ {"store", "activate"} => c.key \in Key,
         reports' \in [schema : Schemas, rows : Seq(Row)],
         active' \in [schema : Schemas, row : Active \cup {Absent}]
  PROVE  Shape'
  BY DEF Shape, files

\* Every step keeps the shapes.
LEMMA ShapeStep == ASSUME IInv, [Next]_vars PROVE Shape'
<1> USE RegistryAssumption DEF IInv, At, Goto
<1> USE DEF Phases, Migrated, Created
<1>0. /\ UNCHANGED db => /\ reports' \in [schema : Schemas, rows : Seq(Row)]
                         /\ active' \in [schema : Schemas, row : Active \cup {Absent}]
      /\ Idle.pc = "idle"
  BY DEF Shape, db, Idle
<1>1. ASSUME NEW p \in Processes, NEW cmd \in Commands, Start(p, cmd) PROVE Shape'
  <2> DEFINE c == [pc |-> "open", cmd |-> cmd, doc |-> manifest, quiet |-> TRUE,
                   key |-> [manifest |-> Absent, artifact |-> Absent, profile |-> Absent],
                   probed |-> FALSE, report |-> NoReport]
  <2>1. c \in Command /\ c.key \in Key
    BY DEF Shape, Command, NoReport, Report, Key
  <2>2. proc' = [proc EXCEPT ![p] = c] /\ UNCHANGED <<files, db>>
    BY <1>1 DEF Start
  <2> QED BY <1>0, <2>1, <2>2, ShapeKept
<1>2. ASSUME NEW p \in Processes, NEW pc \in Phases \ {"store", "activate"},
             proc[p].pc \in Phases \ {"store", "activate"}, Goto(p, pc), UNCHANGED files,
             reports' \in [schema : Schemas, rows : Seq(Row)],
             active' \in [schema : Schemas, row : Active \cup {Absent}]
      PROVE Shape'
  <2> DEFINE c == [proc[p] EXCEPT !.pc = pc]
  <2>1. proc[p] \in Command /\ proc[p].key \in Key
    BY <1>2, Busy DEF Shape
  <2>2. c \in Command /\ c.key \in Key
    BY <2>1 DEF Command
  <2>3. proc' = [proc EXCEPT ![p] = c]
    BY <1>2
  <2> QED BY <1>2, <2>2, <2>3, ShapeKept
<1>3. ASSUME NEW p \in Processes, proc' = [proc EXCEPT ![p] = Idle], UNCHANGED files,
             reports' \in [schema : Schemas, rows : Seq(Row)],
             active' \in [schema : Schemas, row : Active \cup {Absent}]
      PROVE Shape'
  BY <1>0, <1>3, ShapeKept
<1>4. ASSUME NEW p \in Processes, CheckReports(p) \/ CheckActive(p) PROVE Shape'
  <2>1. PICK pc \in Phases \ {"store", "activate"} : Goto(p, pc)
    BY <1>4 DEF CheckReports, CheckActive
  <2> QED BY <1>0, <1>2, <1>4, <2>1 DEF CheckReports, CheckActive
<1>5. ASSUME NEW p \in Processes, Migrate(p) PROVE Shape'
  <2>1. Unkeyed(reports.rows) \in Seq(Row)
    BY LogType DEF Shape
  <2>2. reports' \in [schema : Schemas, rows : Seq(Row)]
    BY <1>5, <2>1 DEF Migrate, Shape, Schemas
  <2> QED BY <1>2, <1>5, <2>2 DEF Migrate, Shape
<1>6. ASSUME NEW p \in Processes, DropActive(p) PROVE Shape'
  <2>1. active' \in [schema : Schemas, row : Active \cup {Absent}] /\ UNCHANGED <<files, reports>>
    BY <1>6 DEF DropActive, Schemas
  <2> QED BY <1>2, <1>3, <1>6, <2>1 DEF DropActive, Shape
<1>7. ASSUME NEW p \in Processes, CreateReports(p) PROVE Shape'
  <2>1. reports' \in [schema : Schemas, rows : Seq(Row)] /\ UNCHANGED <<files, active>>
    BY <1>7 DEF CreateReports, Shape, Schemas
  <2> QED BY <1>2, <1>7, <2>1 DEF CreateReports, Shape
<1>8. ASSUME NEW p \in Processes, CreateActive(p) PROVE Shape'
  <2>1. /\ active' \in [schema : Schemas, row : Active \cup {Absent}]
        /\ reports' \in [schema : Schemas, rows : Seq(Row)]
        /\ proc[p].pc = "create_active" /\ UNCHANGED files
    BY <1>8 DEF CreateActive, Shape, Schemas
  <2>2. PICK pc \in Phases \ {"store", "activate"} : Goto(p, pc)
    BY <1>8 DEF CreateActive
  <2> QED BY <1>2, <2>1, <2>2
<1>9. ASSUME NEW p \in Processes, KeyManifest(p) PROVE Shape'
  <2> DEFINE key == [proc[p].key EXCEPT !.manifest = manifest]
             c == [proc[p] EXCEPT !.key = key, !.pc = "key_artifact"]
  <2>1. proc[p] \in Command /\ proc[p].key \in Key
    BY <1>9, Busy DEF KeyManifest, Shape
  <2>2. key \in Key
    BY <2>1 DEF Key, Shape
  <2>3. c \in Command /\ c.key \in Key
    BY <2>1, <2>2 DEF Command
  <2>4. proc' = [proc EXCEPT ![p] = c] /\ UNCHANGED <<files, db>>
    BY <1>9 DEF KeyManifest
  <2> QED BY <1>0, <2>3, <2>4, ShapeKept
<1>10. ASSUME NEW p \in Processes, KeyArtifact(p) PROVE Shape'
  <2>1. proc[p] \in Command /\ proc[p].key \in Key
    BY <1>10, Busy DEF KeyArtifact, Shape
  <2> DEFINE digest == Digest(artifact, Declares[proc[p].doc].artifact)
             key == [proc[p].key EXCEPT !.artifact = digest]
             c == [proc[p] EXCEPT !.key = key,
                     !.pc = IF digest = Absent THEN "hash_artifact" ELSE "key_profile"]
  <2>2. digest \in Contents \cup {Absent}
    BY <2>1, DigestType, DeclaresType DEF Shape, Command
  <2> HIDE DEF digest
  <2>3. key \in Key
    BY <2>1, <2>2 DEF Key
  <2>4. c \in Command /\ c.key \in Key
    BY <2>1, <2>3 DEF Command
  <2>5. proc' = [proc EXCEPT ![p] = c] /\ UNCHANGED <<files, db>>
    BY <1>10 DEF KeyArtifact, digest
  <2> QED BY <1>0, <2>4, <2>5, ShapeKept
<1>11. ASSUME NEW p \in Processes, KeyProfile(p) PROVE Shape'
  <2>1. proc[p] \in Command /\ proc[p].key \in Key
    BY <1>11, Busy DEF KeyProfile, Shape
  <2> DEFINE digest == Digest(profile, Declares[proc[p].doc].profile)
             key == [proc[p].key EXCEPT !.profile = digest]
             c == [proc[p] EXCEPT !.key = key, !.pc = "lookup"]
  <2>2. digest \in Contents \cup {Absent}
    BY <2>1, DigestType, DeclaresType DEF Shape, Command
  <2> HIDE DEF digest
  <2>3. key \in Key
    BY <2>1, <2>2 DEF Key
  <2>4. c \in Command /\ c.key \in Key
    BY <2>1, <2>3 DEF Command
  <2>5. proc' = [proc EXCEPT ![p] = c] /\ UNCHANGED <<files, db>>
    BY <1>11 DEF KeyProfile, digest
  <2> QED BY <1>0, <2>4, <2>5, ShapeKept
<1>12. ASSUME NEW p \in Processes, Lookup(p) PROVE Shape'
  <2>1. UNCHANGED <<files, db>> /\ proc[p].pc = "lookup"
    BY <1>12 DEF Lookup
  <2>2. CASE Matches(proc[p].key) = {}
    <3>1. Goto(p, "hash_artifact")
      BY <1>12, <2>2 DEF Lookup
    <3> QED BY <1>0, <1>2, <2>1, <3>1
  <2>3. CASE Matches(proc[p].key) # {}
    <3> DEFINE newest == CHOOSE i \in Matches(proc[p].key) :
                           \A j \in Matches(proc[p].key) : j <= i
               c == [proc[p] EXCEPT !.report = reports.rows[newest].report, !.pc = "hit"]
    <3>1. proc[p] \in Command /\ proc[p].key \in Key
      BY <2>1, Busy DEF Shape
    <3>2. reports.rows \in Seq(Row)
      BY DEF Shape
    <3>3. newest \in DOMAIN reports.rows
      BY <2>3, <3>2, Newest
    <3>4. proc' = [proc EXCEPT ![p] = c]
      BY <1>12, <2>3 DEF Lookup
    <3> HIDE DEF newest
    <3>5. reports.rows[newest].report \in Report
      BY <3>2, <3>3, LogType
    <3>6. c \in Command /\ c.key \in Key
      BY <3>1, <3>5 DEF Command
    <3> QED BY <1>0, <2>1, <3>4, <3>6, ShapeKept
  <2> QED BY <2>2, <2>3
<1>13. ASSUME NEW p \in Processes, HashArtifact(p) PROVE Shape'
  <2>1. proc[p] \in Command /\ proc[p].key \in Key
    BY <1>13, Busy DEF HashArtifact, Shape
  <2> DEFINE digest == Digest(artifact, Declares[proc[p].doc].artifact)
             report == [proc[p].report EXCEPT !.artifact = digest]
             c == [proc[p] EXCEPT !.report = report, !.pc = "probe"]
  <2>2. digest \in Contents \cup {Absent}
    BY <2>1, DigestType, DeclaresType DEF Shape, Command
  <2> HIDE DEF digest
  <2>3. report \in Report
    BY <2>1, <2>2 DEF Command, Report
  <2>4. c \in Command /\ c.key \in Key
    BY <2>1, <2>3 DEF Command
  <2>5. proc' = [proc EXCEPT ![p] = c] /\ UNCHANGED <<files, db>>
    BY <1>13 DEF HashArtifact, digest
  <2> QED BY <1>0, <2>4, <2>5, ShapeKept
<1>14. ASSUME NEW p \in Processes, ProbeArtifact(p) PROVE Shape'
  <2>1. proc[p] \in Command /\ proc[p].key \in Key
    BY <1>14, Busy DEF ProbeArtifact, Shape
  <2> DEFINE probed == IF artifact = Absent THEN FALSE
                       ELSE artifact.meta = Declares[proc[p].doc].artifact.meta
             c == [proc[p] EXCEPT !.probed = probed, !.pc = "hash_profile"]
  <2>2. probed \in BOOLEAN
    OBVIOUS
  <2> HIDE DEF probed
  <2>3. c \in Command /\ c.key \in Key
    BY <2>1, <2>2 DEF Command
  <2>4. proc' = [proc EXCEPT ![p] = c] /\ UNCHANGED <<files, db>>
    BY <1>14 DEF ProbeArtifact, probed
  <2> QED BY <1>0, <2>3, <2>4, ShapeKept
<1>15. ASSUME NEW p \in Processes, HashProfile(p) PROVE Shape'
  <2>1. proc[p] \in Command /\ proc[p].key \in Key
    BY <1>15, Busy DEF HashProfile, Shape
  <2> DEFINE declared == Declares[proc[p].doc]
             digest == Digest(profile, declared.profile)
             seen == proc[p].report.artifact
             ok == /\ seen = declared.artifact /\ proc[p].probed /\ digest = declared.profile
             report == [ok |-> ok, doc |-> proc[p].doc, artifact |-> seen, profile |-> digest]
             c == [proc[p] EXCEPT !.report = report, !.pc = "stamp"]
  <2>2. digest \in Contents \cup {Absent} /\ ok \in BOOLEAN
    BY <2>1, DigestType, DeclaresType DEF Shape, Command
  <2>3. proc' = [proc EXCEPT ![p] = c] /\ UNCHANGED <<files, db>>
    BY <1>15 DEF HashProfile
  <2> HIDE DEF digest, ok
  <2>4. report \in Report
    BY <2>1, <2>2 DEF Command, Report
  <2> HIDE DEF report
  <2>5. c \in Command /\ c.key \in Key
    BY <2>1, <2>4 DEF Command
  <2> QED BY <1>0, <2>3, <2>5, ShapeKept
<1>16. ASSUME NEW p \in Processes, StampKey(p) PROVE Shape'
  <2>1. proc[p] \in Command
    BY <1>16, Busy DEF StampKey
  <2> DEFINE report == proc[p].report
             unkeyed == \/ ~ report.ok /\ proc[p].cmd.activate /\ proc[p].cmd.force
                        \/ report.artifact = Absent
                        \/ Declares[proc[p].doc].profile # Absent /\ report.profile = Absent
             key == IF unkeyed THEN Absent
                    ELSE [manifest |-> manifest, artifact |-> report.artifact,
                          profile |-> report.profile]
             c == [proc[p] EXCEPT !.key = key, !.pc = "store"]
  <2>2. proc' = [proc EXCEPT ![p] = c] /\ UNCHANGED <<files, db>>
    BY <1>16 DEF StampKey
  <2>3. key \in Key \cup {Absent}
    BY <2>1 DEF Key, Command, Report, Shape
  <2> HIDE DEF key
  <2>4. c \in Command /\ c.pc = "store"
    BY <2>1, <2>3 DEF Command
  <2> QED BY <1>0, <2>2, <2>4, ShapeKept
<1>17. ASSUME NEW p \in Processes, StoreReport(p) PROVE Shape'
  <2>1. proc[p] \in Command
    BY <1>17, Busy DEF StoreReport
  <2>2. [key |-> proc[p].key, report |-> proc[p].report] \in Row
    BY <2>1 DEF Command, Row
  <2>3. reports' \in [schema : Schemas, rows : Seq(Row)]
    BY <1>17, <2>2, LogType DEF StoreReport, Shape
  <2>4. active' \in [schema : Schemas, row : Active \cup {Absent}] /\ UNCHANGED files
    BY <1>17 DEF StoreReport, Shape
  <2>5. CASE proc' = [proc EXCEPT ![p] = Idle]
    BY <1>3, <2>3, <2>4, <2>5
  <2>6. CASE Goto(p, "activate")
    <3> DEFINE c == [proc[p] EXCEPT !.pc = "activate"]
    <3>1. c \in Command /\ c.pc = "activate"
      BY <2>1 DEF Command
    <3> QED BY <2>3, <2>4, <2>6, <3>1, ShapeKept
  <2> QED BY <1>17, <2>5, <2>6 DEF StoreReport
<1>18. ASSUME NEW p \in Processes, Activate(p) PROVE Shape'
  <2>1. proc[p] \in Command
    BY <1>18, Busy DEF Activate
  <2>2. [doc |-> proc[p].doc, forced |-> proc[p].cmd.force] \in Active
    BY <2>1 DEF Command, Active
  <2>3. active' \in [schema : Schemas, row : Active \cup {Absent}]
    BY <1>18, <2>2 DEF Activate, Shape
  <2>4. reports' \in [schema : Schemas, rows : Seq(Row)] /\ UNCHANGED files
    BY <1>18 DEF Activate, Shape
  <2> QED BY <1>3, <1>18, <2>3, <2>4 DEF Activate
<1>19. ASSUME NEW p \in Processes, End(p) PROVE Shape'
  BY <1>0, <1>3, <1>19 DEF End
<1>20. CASE Replace
  <2>1. \A p \in Processes : proc[p] \in Command => [proc[p] EXCEPT !.quiet = FALSE] \in Command
    BY DEF Command
  <2>2. /\ proc' = [p \in Processes |-> IF proc[p].pc = "idle" THEN Idle
                                        ELSE [proc[p] EXCEPT !.quiet = FALSE]]
        /\ UNCHANGED db
    BY <1>20 DEF Replace, ReplaceManifest, ReplaceArtifact, ReplaceProfile, Edited
  <2>3. proc' \in [Processes -> Command \cup {Idle}]
    BY <2>1, <2>2, Busy
  <2>4. \A p \in Processes : proc[p].pc # "idle" => proc'[p].pc = proc[p].pc /\ proc'[p].key = proc[p].key
    BY <2>2, Busy DEF Command
  <2>5. \A p \in Processes :
          proc'[p].pc \in Phases \ {"store", "activate"} => proc'[p].key \in Key
    BY <1>0, <2>2, <2>4 DEF Shape
  <2>6. /\ manifest' \in Manifests
        /\ artifact' \in Contents \cup {Absent} /\ profile' \in Contents \cup {Absent}
    BY <1>20 DEF Replace, ReplaceManifest, ReplaceArtifact, ReplaceProfile, Shape
  <2> QED BY <1>0, <2>2, <2>3, <2>5, <2>6 DEF Shape
<1>21. CASE UNCHANGED vars
  BY <1>21 DEF vars, files, db, Shape
<1> QED
  BY <1>1, <1>4, <1>5, <1>6, <1>7, <1>8, <1>9, <1>10, <1>11, <1>12, <1>13, <1>14, <1>15,
     <1>16, <1>17, <1>18, <1>19, <1>20, <1>21, NextStep DEF Step

\* What the steps between the tables and the log leave alone.
Between(p) ==
  \/ KeyManifest(p) \/ KeyArtifact(p) \/ KeyProfile(p) \/ Lookup(p)
  \/ HashArtifact(p) \/ ProbeArtifact(p) \/ HashProfile(p) \/ StampKey(p)

LEMMA BetweenMoves ==
  ASSUME Shape, NEW p \in Processes, Between(p)
  PROVE  /\ UNCHANGED <<files, db>>
         /\ \A q \in Processes \ {p} : proc'[q] = proc[q]
         /\ proc[p] \in Command /\ proc[p].pc \in Created
         /\ \/ proc'[p].pc \in Created \ {"stamp", "store", "activate"}
            \/ HashProfile(p) /\ proc'[p].pc = "stamp"
            \/ StampKey(p) /\ proc'[p].pc = "store"
         /\ proc'[p].doc = proc[p].doc /\ proc'[p].cmd = proc[p].cmd
         /\ proc'[p].quiet = proc[p].quiet
<1> USE DEF At, Goto, Created
<1>1. /\ UNCHANGED <<files, db>> /\ \A q \in Processes \ {p} : proc'[q] = proc[q]
      /\ proc[p].pc \in Created
  BY DEF Shape, Between, KeyManifest, KeyArtifact, KeyProfile, Lookup, HashArtifact,
         ProbeArtifact, HashProfile, StampKey
<1>2. proc[p] \in Command /\ p \in DOMAIN proc
  BY <1>1, Busy DEF Shape
<1>3. ASSUME NEW c, proc' = [proc EXCEPT ![p] = c], c.pc \in Created,
             \/ c.pc \notin {"stamp", "store", "activate"}
             \/ HashProfile(p) /\ c.pc = "stamp"
             \/ StampKey(p) /\ c.pc = "store",
             c.doc = proc[p].doc, c.cmd = proc[p].cmd, c.quiet = proc[p].quiet
      PROVE  /\ \/ proc'[p].pc \in Created \ {"stamp", "store", "activate"}
                \/ HashProfile(p) /\ proc'[p].pc = "stamp"
                \/ StampKey(p) /\ proc'[p].pc = "store"
             /\ proc'[p].doc = proc[p].doc /\ proc'[p].cmd = proc[p].cmd
             /\ proc'[p].quiet = proc[p].quiet
  BY <1>2, <1>3
<1>4. CASE KeyManifest(p)
  <2> DEFINE c == [proc[p] EXCEPT !.key = [proc[p].key EXCEPT !.manifest = manifest],
                                  !.pc = "key_artifact"]
  <2>1. proc' = [proc EXCEPT ![p] = c]
    BY <1>4 DEF KeyManifest
  <2>2. c.pc \in Created \ {"stamp", "store", "activate"} /\ c.doc = proc[p].doc /\ c.cmd = proc[p].cmd
        /\ c.quiet = proc[p].quiet
    BY <1>2 DEF Command
  <2> HIDE DEF c
  <2> QED BY <1>1, <1>2, <1>3, <2>1, <2>2
<1>5. CASE KeyArtifact(p)
  <2> DEFINE c == [proc[p] EXCEPT
                    !.key = [proc[p].key EXCEPT
                               !.artifact = Digest(artifact, Declares[proc[p].doc].artifact)],
                    !.pc = IF Digest(artifact, Declares[proc[p].doc].artifact) = Absent
                           THEN "hash_artifact" ELSE "key_profile"]
  <2>1. proc' = [proc EXCEPT ![p] = c]
    BY <1>5 DEF KeyArtifact
  <2>2. c.pc \in Created \ {"stamp", "store", "activate"} /\ c.doc = proc[p].doc /\ c.cmd = proc[p].cmd
        /\ c.quiet = proc[p].quiet
    BY <1>2 DEF Command
  <2> HIDE DEF c
  <2> QED BY <1>1, <1>2, <1>3, <2>1, <2>2
<1>6. CASE KeyProfile(p)
  <2> DEFINE c == [proc[p] EXCEPT
                    !.key = [proc[p].key EXCEPT
                               !.profile = Digest(profile, Declares[proc[p].doc].profile)],
                    !.pc = "lookup"]
  <2>1. proc' = [proc EXCEPT ![p] = c]
    BY <1>6 DEF KeyProfile
  <2>2. c.pc \in Created \ {"stamp", "store", "activate"} /\ c.doc = proc[p].doc /\ c.cmd = proc[p].cmd
        /\ c.quiet = proc[p].quiet
    BY <1>2 DEF Command
  <2> HIDE DEF c
  <2> QED BY <1>1, <1>2, <1>3, <2>1, <2>2
<1>7. CASE HashArtifact(p)
  <2> DEFINE c == [proc[p] EXCEPT
                    !.report = [proc[p].report EXCEPT
                                  !.artifact = Digest(artifact, Declares[proc[p].doc].artifact)],
                    !.pc = "probe"]
  <2>1. proc' = [proc EXCEPT ![p] = c]
    BY <1>7 DEF HashArtifact
  <2>2. c.pc \in Created \ {"stamp", "store", "activate"} /\ c.doc = proc[p].doc /\ c.cmd = proc[p].cmd
        /\ c.quiet = proc[p].quiet
    BY <1>2 DEF Command
  <2> HIDE DEF c
  <2> QED BY <1>1, <1>2, <1>3, <2>1, <2>2
<1>8. CASE ProbeArtifact(p)
  <2> DEFINE c == [proc[p] EXCEPT
                    !.probed = IF artifact = Absent THEN FALSE
                               ELSE artifact.meta = Declares[proc[p].doc].artifact.meta,
                    !.pc = "hash_profile"]
  <2>1. proc' = [proc EXCEPT ![p] = c]
    BY <1>8 DEF ProbeArtifact
  <2>2. c.pc \in Created \ {"stamp", "store", "activate"} /\ c.doc = proc[p].doc /\ c.cmd = proc[p].cmd
        /\ c.quiet = proc[p].quiet
    BY <1>2 DEF Command
  <2> HIDE DEF c
  <2> QED BY <1>1, <1>2, <1>3, <2>1, <2>2
<1>9. CASE Lookup(p)
  <2>1. PICK c : /\ proc' = [proc EXCEPT ![p] = c]
                 /\ c.pc \in Created \ {"stamp", "store", "activate"} /\ c.doc = proc[p].doc
                 /\ c.cmd = proc[p].cmd /\ c.quiet = proc[p].quiet
    <3> DEFINE newest == CHOOSE i \in Matches(proc[p].key) :
                           \A j \in Matches(proc[p].key) : j <= i
               c == [proc[p] EXCEPT !.pc = "hash_artifact"]
               d == [proc[p] EXCEPT !.report = reports.rows[newest].report, !.pc = "hit"]
    <3>1. proc' = [proc EXCEPT ![p] = c] \/ proc' = [proc EXCEPT ![p] = d]
      BY <1>9 DEF Lookup
    <3>2. c.pc = "hash_artifact" /\ c.doc = proc[p].doc /\ c.cmd = proc[p].cmd
          /\ c.quiet = proc[p].quiet
      BY <1>2 DEF Command
    <3>3. d.pc = "hit" /\ d.doc = proc[p].doc /\ d.cmd = proc[p].cmd /\ d.quiet = proc[p].quiet
      BY <1>2 DEF Command
    <3> HIDE DEF c, d
    <3> QED BY <3>1, <3>2, <3>3
  <2> QED BY <1>1, <1>2, <1>3, <2>1
<1>10. CASE HashProfile(p)
  <2>1. PICK report : proc' = [proc EXCEPT ![p] = [proc[p] EXCEPT !.report = report, !.pc = "stamp"]]
    BY <1>10 DEF HashProfile
  <2> DEFINE c == [proc[p] EXCEPT !.report = report, !.pc = "stamp"]
  <2>2. c.pc = "stamp" /\ c.doc = proc[p].doc /\ c.cmd = proc[p].cmd /\ c.quiet = proc[p].quiet
    BY <1>2 DEF Command
  <2> HIDE DEF c
  <2> QED BY <1>1, <1>2, <1>3, <1>10, <2>1, <2>2 DEF c
<1>11. CASE StampKey(p)
  <2>1. PICK key : proc' = [proc EXCEPT ![p] = [proc[p] EXCEPT !.key = key, !.pc = "store"]]
    BY <1>11 DEF StampKey
  <2> DEFINE c == [proc[p] EXCEPT !.key = key, !.pc = "store"]
  <2>2. c.pc = "store" /\ c.doc = proc[p].doc /\ c.cmd = proc[p].cmd /\ c.quiet = proc[p].quiet
    BY <1>2 DEF Command
  <2>3. proc' = [proc EXCEPT ![p] = c]
    BY <2>1
  <2> HIDE DEF c
  <2> QED BY <1>1, <1>2, <1>3, <1>11, <2>2, <2>3
<1> QED
  BY <1>4, <1>5, <1>6, <1>7, <1>8, <1>9, <1>10, <1>11 DEF Between

\* Going on to another step changes nothing else of a command.
LEMMA Went ==
  ASSUME Shape, NEW p \in Processes, proc[p].pc # "idle", NEW pc, Goto(p, pc)
  PROVE  /\ \A q \in Processes \ {p} : proc'[q] = proc[q]
         /\ proc'[p].pc = pc /\ proc'[p].cmd = proc[p].cmd /\ proc'[p].doc = proc[p].doc
         /\ proc'[p].quiet = proc[p].quiet /\ proc'[p].key = proc[p].key
         /\ proc'[p].report = proc[p].report
<1> DEFINE c == [proc[p] EXCEPT !.pc = pc]
<1>1. proc[p] \in Command /\ p \in DOMAIN proc
  BY Busy DEF Shape
<1>2. proc' = [proc EXCEPT ![p] = c]
  BY DEF Goto
<1>3. c.pc = pc /\ c.cmd = proc[p].cmd /\ c.doc = proc[p].doc /\ c.quiet = proc[p].quiet
      /\ c.key = proc[p].key /\ c.report = proc[p].report
  BY <1>1 DEF Command
<1> HIDE DEF c
<1> QED BY <1>1, <1>2, <1>3

\* So does a replacement, save that the command is no longer quiet.
LEMMA Disturbed ==
  ASSUME Shape, Replace
  PROVE  /\ UNCHANGED db
         /\ \A p \in Processes :
              /\ proc'[p].pc = proc[p].pc
              /\ proc[p].pc # "idle" =>
                   /\ proc'[p].cmd = proc[p].cmd /\ proc'[p].doc = proc[p].doc
                   /\ proc'[p].key = proc[p].key /\ proc'[p].report = proc[p].report
                   /\ ~ proc'[p].quiet
<1>1. /\ proc' = [p \in Processes |-> IF proc[p].pc = "idle" THEN Idle
                                      ELSE [proc[p] EXCEPT !.quiet = FALSE]]
      /\ UNCHANGED db
  BY DEF Replace, ReplaceManifest, ReplaceArtifact, ReplaceProfile, Edited, At
<1>2. ASSUME NEW p \in Processes, proc[p].pc # "idle"
      PROVE  /\ proc'[p].pc = proc[p].pc
             /\ proc'[p].cmd = proc[p].cmd /\ proc'[p].doc = proc[p].doc
             /\ proc'[p].key = proc[p].key /\ proc'[p].report = proc[p].report
             /\ ~ proc'[p].quiet
  <2> DEFINE c == [proc[p] EXCEPT !.quiet = FALSE]
  <2>1. proc[p] \in Command
    BY <1>2, Busy
  <2>2. proc'[p] = c
    BY <1>1, <1>2
  <2>3. c.pc = proc[p].pc /\ c.cmd = proc[p].cmd /\ c.doc = proc[p].doc /\ c.key = proc[p].key
        /\ c.report = proc[p].report /\ c.quiet = FALSE
    BY <2>1 DEF Command
  <2> HIDE DEF c
  <2> QED BY <2>2, <2>3
<1>3. \A p \in Processes : proc[p].pc = "idle" => proc'[p].pc = "idle"
  BY <1>1 DEF Idle
<1> QED BY <1>1, <1>2, <1>3

\* Every step keeps what the tables hold in line with their schemas.
LEMMA TablesStep == ASSUME IInv, [Next]_vars PROVE Tables'
<1> USE DEF IInv, At, Migrated, Created, db
<1>1. ASSUME NEW p \in Processes, UNCHANGED db, \A q \in Processes \ {p} : proc'[q] = proc[q],
             proc'[p].pc \notin Migrated \cup Created
             \/ (proc[p].pc \in Migrated /\ proc'[p].pc \in Migrated)
             \/ proc[p].pc \in Created
      PROVE  Tables'
  BY <1>1 DEF Tables
<1>2. ASSUME NEW p \in Processes, UNCHANGED db, proc' = [proc EXCEPT ![p] = Idle] PROVE Tables'
  BY <1>1, <1>2 DEF Idle, Shape
<1>3. ASSUME NEW p \in Processes, NEW cmd \in Commands, Start(p, cmd) PROVE Tables'
  BY <1>1, <1>3 DEF Start, Shape
<1>4. ASSUME NEW p \in Processes, CheckReports(p) PROVE Tables'
  <2>1. PICK pc : /\ Goto(p, pc) /\ UNCHANGED db /\ proc[p].pc = "open"
                  /\ pc \in {"migrate", "check_active"}
                  /\ pc = "check_active" => reports.schema # "legacy"
    BY <1>4 DEF CheckReports
  <2> QED BY <2>1, Went DEF Tables
<1>5. ASSUME NEW p \in Processes, Migrate(p) PROVE Tables'
  <2>1. /\ Goto(p, "check_active") /\ UNCHANGED active /\ proc[p].pc = "migrate"
        /\ reports'.schema # "legacy"
        /\ reports.schema = "current" => reports'.schema = "current"
    BY <1>5 DEF Migrate
  <2> QED BY <2>1, Went DEF Tables
<1>6. ASSUME NEW p \in Processes, CheckActive(p) PROVE Tables'
  <2>1. PICK pc \in {"drop_active", "create_reports"} : Goto(p, pc)
    BY <1>6 DEF CheckActive
  <2> QED BY <1>1, <1>6, <2>1, Went DEF CheckActive
<1>7. ASSUME NEW p \in Processes, DropActive(p) PROVE Tables'
  <2>1. /\ UNCHANGED reports /\ active'.row = Absent /\ proc[p].pc = "drop_active"
        /\ Goto(p, "create_reports") \/ proc' = [proc EXCEPT ![p] = Idle]
    BY <1>7 DEF DropActive
  <2> QED BY <2>1, Went DEF Tables, Shape, Idle
<1>8. ASSUME NEW p \in Processes, CreateReports(p) PROVE Tables'
  <2>1. /\ Goto(p, "create_active") /\ UNCHANGED active /\ proc[p].pc = "create_reports"
        /\ reports'.schema = "current"
    BY <1>8 DEF CreateReports, Tables, Shape, Schemas
  <2> QED BY <2>1, Went DEF Tables
<1>9. ASSUME NEW p \in Processes, CreateActive(p) PROVE Tables'
  <2>1. PICK pc \in {"key_manifest", "hash_artifact"} : Goto(p, pc)
    BY <1>9 DEF CreateActive
  <2>2. /\ proc[p].pc = "create_active" /\ UNCHANGED reports
        /\ active'.row = active.row
        /\ active.schema = "current" => active'.schema = "current"
    BY <1>9 DEF CreateActive, Shape
  <2> QED BY <2>1, <2>2, Went DEF Tables
<1>10. ASSUME NEW p \in Processes, Between(p) PROVE Tables'
  BY <1>1, <1>10, BetweenMoves
<1>11. ASSUME NEW p \in Processes, StoreReport(p) PROVE Tables'
  <2>1. /\ proc[p].pc = "store" /\ UNCHANGED active /\ reports'.schema = reports.schema
        /\ Goto(p, "activate") \/ proc' = [proc EXCEPT ![p] = Idle]
    BY <1>11 DEF StoreReport, Shape
  <2> QED BY <2>1, Went DEF Tables, Shape, Idle
<1>12. ASSUME NEW p \in Processes, Activate(p) PROVE Tables'
  <2>1. /\ UNCHANGED reports /\ proc' = [proc EXCEPT ![p] = Idle]
        /\ (active.schema = "current" /\ active'.schema = "current") \/ UNCHANGED active
    BY <1>12 DEF Activate, Shape
  <2> QED BY <2>1 DEF Tables, Shape, Idle
<1>13. ASSUME NEW p \in Processes, End(p) PROVE Tables'
  BY <1>2, <1>13 DEF End
<1>14. CASE Replace
  BY <1>14, Disturbed DEF Tables
<1>15. CASE UNCHANGED vars
  BY <1>15 DEF vars, Tables
<1> QED
  BY <1>3, <1>4, <1>5, <1>6, <1>7, <1>8, <1>9, <1>10, <1>11, <1>12, <1>13, <1>14, <1>15,
     NextStep DEF Step, Between

\* No row of the log is lost, nor its report or its key.
Kept ==
  \A i \in DOMAIN reports.rows :
    /\ i \in DOMAIN reports'.rows
    /\ reports'.rows[i].report = reports.rows[i].report
    /\ reports'.rows[i].key = reports.rows[i].key

\* Every step keeps the log: the migration drops no key that a lookup could use,
\* as there is none in a table of the old schema.
LEMMA LogStep == ASSUME IInv, [Next]_vars PROVE Kept
<1> USE DEF IInv
<1>0. reports.rows \in Seq(Row)
  BY DEF Shape
<1>1. ASSUME reports'.rows = reports.rows PROVE Kept
  BY <1>1 DEF Kept
<1>2. ASSUME NEW p \in Processes, Migrate(p) PROVE Kept
  <2>1. CASE reports.schema # "legacy"
    BY <1>1, <1>2, <2>1 DEF Migrate
  <2>2. CASE reports.schema = "legacy"
    <3>1. reports'.rows = Unkeyed(reports.rows)
      BY <1>2, <2>2 DEF Migrate
    <3>2. ASSUME NEW i \in DOMAIN reports.rows
          PROVE  /\ i \in DOMAIN reports'.rows
                 /\ reports'.rows[i].report = reports.rows[i].report
                 /\ reports'.rows[i].key = reports.rows[i].key
      <4>1. reports.rows[i] \in Row /\ reports.rows[i].key = Absent
        BY <1>0, <2>2, LogType DEF Tables
      <4>2. i \in DOMAIN reports'.rows /\ reports'.rows[i] = [reports.rows[i] EXCEPT !.key = Absent]
        BY <3>1 DEF Unkeyed
      <4> QED BY <4>1, <4>2 DEF Row
    <3> QED BY <3>2 DEF Kept
  <2> QED BY <2>1, <2>2
<1>3. ASSUME NEW p \in Processes, CreateReports(p) PROVE Kept
  BY <1>1, <1>3 DEF CreateReports, Shape
<1>4. ASSUME NEW p \in Processes, StoreReport(p) PROVE Kept
  <2>1. PICK row \in Row : reports'.rows = Append(reports.rows, row)
    <3>1. proc[p] \in Command
      BY <1>4, Busy DEF StoreReport, At
    <3>2. [key |-> proc[p].key, report |-> proc[p].report] \in Row
      BY <3>1 DEF Command, Row
    <3> QED BY <1>4, <3>2 DEF StoreReport, Shape
  <2> QED BY <1>0, <2>1, LogType DEF Kept
<1>5. CASE UNCHANGED vars
  BY <1>1, <1>5 DEF vars, db
<1>6. ASSUME UNCHANGED reports PROVE Kept
  BY <1>1, <1>6
<1> QED
  BY <1>2, <1>3, <1>4, <1>5, <1>6, NextStep, BetweenMoves, Disturbed
  DEF Step, Between, Start, CheckReports, CheckActive, DropActive, CreateActive, Activate, End, db

\* What was backed stays backed.
LEMMA BackedKept == ASSUME Kept, NEW m, Backed(reports.rows, m) PROVE Backed(reports'.rows, m)
  BY DEF Backed, Kept

\* Every step keeps the evidence of the pointer and of those about to move it.
LEMMA EvidenceStep == ASSUME IInv, [Next]_vars PROVE Evidence'
<1> USE DEF IInv, At
<1>0. Kept
  BY LogStep
<1>1. ASSUME NEW p \in Processes, \A q \in Processes \ {p} : proc'[q] = proc[q],
             active'.row # Absent => active'.row = active.row
                                     \/ active'.row.forced \/ Backed(reports.rows, active'.row.doc),
             proc'[p].pc \in {"stamp", "store"} => proc'[p].report.doc = proc'[p].doc,
             proc'[p].pc = "activate" =>
               proc'[p].cmd.force \/ Backed(reports'.rows, proc'[p].doc)
      PROVE  Evidence'
  BY <1>0, <1>1, BackedKept DEF Evidence
<1>2. ASSUME NEW p \in Processes, proc' = [proc EXCEPT ![p] = Idle],
             active'.row # Absent => active'.row = active.row
                                     \/ active'.row.forced \/ Backed(reports.rows, active'.row.doc)
      PROVE  Evidence'
  BY <1>1, <1>2 DEF Idle, Shape
<1>3. ASSUME NEW p \in Processes, NEW pc \in Phases \ {"stamp", "store", "activate"},
             proc[p].pc # "idle", Goto(p, pc),
             active'.row # Absent => active'.row = active.row
                                     \/ active'.row.forced \/ Backed(reports.rows, active'.row.doc)
      PROVE  Evidence'
  BY <1>1, <1>3, Went
<1>4. ASSUME NEW p \in Processes, NEW cmd \in Commands, Start(p, cmd) PROVE Evidence'
  BY <1>1, <1>4 DEF Start, Shape, db
<1>5. ASSUME NEW p \in Processes,
             \/ CheckReports(p) \/ Migrate(p) \/ CheckActive(p)
             \/ CreateReports(p) \/ CreateActive(p)
      PROVE Evidence'
  <2>1. PICK pc \in Phases \ {"stamp", "store", "activate"} : Goto(p, pc)
    BY <1>5 DEF CheckReports, Migrate, CheckActive, CreateReports, CreateActive,
                Phases, Migrated, Created
  <2>2. proc[p].pc # "idle" /\ active'.row = active.row
    BY <1>5 DEF CheckReports, Migrate, CheckActive, CreateReports, CreateActive, Shape, db
  <2> QED BY <1>3, <2>1, <2>2
<1>6. ASSUME NEW p \in Processes, DropActive(p) PROVE Evidence'
  BY <1>2, <1>3, <1>6 DEF DropActive, Phases, Migrated, Created
<1>7. ASSUME NEW p \in Processes, Between(p) PROVE Evidence'
  <2>1. /\ UNCHANGED db /\ \A q \in Processes \ {p} : proc'[q] = proc[q]
        /\ proc[p] \in Command /\ p \in DOMAIN proc
    BY <1>7, BetweenMoves DEF Shape
  <2>2. CASE HashProfile(p)
    <3> DEFINE ok == /\ proc[p].report.artifact = Declares[proc[p].doc].artifact
                     /\ proc[p].probed
                     /\ Digest(profile, Declares[proc[p].doc].profile)
                          = Declares[proc[p].doc].profile
               report == [ok |-> ok, doc |-> proc[p].doc, artifact |-> proc[p].report.artifact,
                          profile |-> Digest(profile, Declares[proc[p].doc].profile)]
               c == [proc[p] EXCEPT !.report = report, !.pc = "stamp"]
    <3>1. proc' = [proc EXCEPT ![p] = c]
      BY <2>2 DEF HashProfile
    <3>2. report.doc = proc[p].doc
      OBVIOUS
    <3> HIDE DEF report
    <3>3. c.report = report /\ c.doc = proc[p].doc /\ c.pc = "stamp"
      BY <2>1 DEF Command
    <3> HIDE DEF c
    <3> QED BY <1>1, <2>1, <3>1, <3>2, <3>3 DEF db
  <2>3. CASE StampKey(p)
    <3>1. PICK key : proc' = [proc EXCEPT ![p] = [proc[p] EXCEPT !.key = key, !.pc = "store"]]
      BY <2>3 DEF StampKey
    <3> DEFINE c == [proc[p] EXCEPT !.key = key, !.pc = "store"]
    <3>2. c.report = proc[p].report /\ c.doc = proc[p].doc /\ c.pc = "store"
      BY <2>1 DEF Command
    <3>3. proc' = [proc EXCEPT ![p] = c]
      BY <3>1
    <3>4. proc[p].report.doc = proc[p].doc
      BY <2>3 DEF StampKey, Evidence
    <3> HIDE DEF c
    <3> QED BY <1>1, <2>1, <3>2, <3>3, <3>4 DEF db
  <2>4. CASE ~ HashProfile(p) /\ ~ StampKey(p)
    <3>1. proc'[p].pc \notin {"stamp", "store", "activate"}
      BY <1>7, <2>4, BetweenMoves DEF Created
    <3> QED BY <1>1, <2>1, <3>1 DEF db
  <2> QED BY <2>2, <2>3, <2>4
<1>8. ASSUME NEW p \in Processes, StoreReport(p) PROVE Evidence'
  <2>1. CASE proc' = [proc EXCEPT ![p] = Idle]
    BY <1>2, <1>8, <2>1 DEF StoreReport
  <2>2. CASE Goto(p, "activate") /\ (proc[p].report.ok \/ proc[p].cmd.force)
    <3> DEFINE row == [key |-> proc[p].key, report |-> proc[p].report]
    <3>1. reports'.rows = Append(reports.rows, row) /\ reports.rows \in Seq(Row)
      BY <1>8 DEF StoreReport, Shape
    <3>2. proc[p] \in Command /\ proc[p].report.doc = proc[p].doc
      BY <1>8, Busy DEF StoreReport, Evidence
    <3>3. row \in Row
      BY <3>2 DEF Command, Row
    <3> DEFINE n == Len(reports.rows) + 1
    <3>4. n \in DOMAIN reports'.rows /\ reports'.rows[n] = row
      BY <3>1, <3>3, LogType
    <3>5. proc[p].report.ok => Backed(reports'.rows, proc[p].doc)
      BY <3>2, <3>4 DEF Backed
    <3>6. /\ proc'[p].pc = "activate" /\ proc'[p].cmd = proc[p].cmd /\ proc'[p].doc = proc[p].doc
          /\ \A q \in Processes \ {p} : proc'[q] = proc[q]
      BY <1>8, <2>2, Went DEF StoreReport
    <3>7. UNCHANGED active
      BY <1>8 DEF StoreReport
    <3> QED BY <1>1, <2>2, <3>5, <3>6, <3>7
  <2> QED BY <1>8, <2>1, <2>2 DEF StoreReport
<1>9. ASSUME NEW p \in Processes, Activate(p) PROVE Evidence'
  <2>1. proc[p].cmd.force \/ Backed(reports.rows, proc[p].doc)
    BY <1>9 DEF Activate, Evidence
  <2>2. \/ active'.row.doc = proc[p].doc /\ active'.row.forced = proc[p].cmd.force
        \/ UNCHANGED active
    BY <1>9 DEF Activate, Shape
  <2>3. proc' = [proc EXCEPT ![p] = Idle]
    BY <1>9 DEF Activate
  <2> QED BY <1>2, <2>1, <2>2, <2>3
<1>10. ASSUME NEW p \in Processes, End(p) PROVE Evidence'
  BY <1>2, <1>10 DEF End, db
<1>11. CASE Replace
  BY <1>0, <1>11, Disturbed, BackedKept DEF Evidence, db
<1>12. CASE UNCHANGED vars
  BY <1>12 DEF vars, files, db, Evidence, Backed
<1> QED
  BY <1>4, <1>5, <1>6, <1>7, <1>8, <1>9, <1>10, <1>11, <1>12, NextStep DEF Step, Between

-----------------------------------------------------------------------------
(* What a lookup finds, where no manifest is replaced while it is used.      *)

\* An ok report has what its document declares, and a key names what the report
\* under it is about.
Filed(key, report) ==
  /\ report.ok => /\ report.doc \in Manifests
                  /\ report.artifact = Declares[report.doc].artifact
                  /\ report.profile = Declares[report.doc].profile
  /\ key # Absent => /\ report.doc = key.manifest /\ report.artifact = key.artifact
                     /\ report.profile = key.profile

\* The key of a lookup names the files as they are, as long as none is replaced.
KeyFits(p) ==
  /\ proc[p].pc \in {"key_artifact", "key_profile", "lookup", "hit"} =>
       proc[p].key.manifest = manifest
  /\ proc[p].quiet /\ proc[p].pc \in {"key_profile", "lookup", "hit"} =>
       /\ proc[p].key.artifact = Digest(artifact, Declares[proc[p].doc].artifact)
       /\ proc[p].key.artifact # Absent
  /\ proc[p].quiet /\ proc[p].pc \in {"lookup", "hit"} =>
       proc[p].key.profile = Digest(profile, Declares[proc[p].doc].profile)

ReportFits(p) ==
  /\ proc[p].pc = "stamp" => Filed(Absent, proc[p].report)
  /\ proc[p].pc \in {"store", "hit"} => Filed(proc[p].key, proc[p].report)

Cached ==
  /\ \A i \in DOMAIN reports.rows : Filed(reports.rows[i].key, reports.rows[i].report)
  /\ \A p \in Processes : proc[p].pc # "idle" => /\ proc[p].doc = manifest
                                                 /\ KeyFits(p) /\ ReportFits(p)

CInv == IInv /\ Cached

LEMMA InitCached == ASSUME Init PROVE Cached
<1>1. PICK old \in OldTables :
        reports.rows = IF old.reports = "absent" THEN <<>>
                       ELSE <<[key |-> Absent, report |-> NoReport]>>
  BY DEF Init
<1>2. \A i \in DOMAIN reports.rows : reports.rows[i] = [key |-> Absent, report |-> NoReport]
  BY <1>1
<1>3. Filed(Absent, NoReport)
  BY DEF Filed, NoReport
<1>4. \A p \in Processes : proc[p].pc = "idle"
  BY DEF Init, Idle
<1> QED BY <1>2, <1>3, <1>4 DEF Cached

\* A step within a command keeps the cache, if it adds no row and leaves the
\* command in order.
LEMMA CachedKept ==
  ASSUME IInv, Kept, Cached, NEW p \in Processes, UNCHANGED files,
         DOMAIN reports'.rows = DOMAIN reports.rows,
         \A q \in Processes \ {p} : proc'[q] = proc[q],
         proc'[p].pc # "idle" => proc'[p].doc = manifest /\ KeyFits(p)' /\ ReportFits(p)'
  PROVE  Cached'
<1>1. \A q \in Processes \ {p} : KeyFits(q) => KeyFits(q)'
  BY DEF KeyFits, files
<1>2. \A q \in Processes \ {p} : ReportFits(q) => ReportFits(q)'
  BY DEF ReportFits
<1>3. \A i \in DOMAIN reports'.rows : Filed(reports'.rows[i].key, reports'.rows[i].report)
  BY DEF Cached, Kept
<1> QED BY <1>1, <1>2, <1>3 DEF Cached, files

\* Every step keeps it, where no manifest is replaced while it is used.
LEMMA CachedStep == ASSUME ~ EditDuringCalls, CInv, [Next]_vars PROVE Cached'
<1> USE DEF CInv, IInv, At
<1>0. Kept
  BY LogStep
<1>1. ASSUME NEW p \in Processes, NEW pc, proc[p].pc # "idle", Goto(p, pc), UNCHANGED files,
             pc \notin {"key_artifact", "key_profile", "lookup", "hit", "stamp", "store"},
             DOMAIN reports'.rows = DOMAIN reports.rows
      PROVE  Cached'
  <2>1. KeyFits(p)' /\ ReportFits(p)'
    BY <1>1, Went DEF KeyFits, ReportFits
  <2>2. proc'[p].doc = manifest
    BY <1>1, Went DEF Cached
  <2> QED BY <1>0, <1>1, <2>1, <2>2, Went, CachedKept
<1>2. ASSUME NEW p \in Processes, proc' = [proc EXCEPT ![p] = Idle], UNCHANGED files,
             DOMAIN reports'.rows = DOMAIN reports.rows
      PROVE  Cached'
  BY <1>0, <1>2, CachedKept DEF Idle, Shape
<1>3. ASSUME NEW p \in Processes, NEW cmd \in Commands, Start(p, cmd) PROVE Cached'
  <2>1. /\ \A q \in Processes \ {p} : proc'[q] = proc[q]
        /\ proc'[p].pc = "open" /\ proc'[p].doc = manifest /\ UNCHANGED <<files, db>>
    BY <1>3 DEF Start, Shape
  <2>2. KeyFits(p)' /\ ReportFits(p)'
    BY <2>1 DEF KeyFits, ReportFits
  <2> QED BY <1>0, <2>1, <2>2, CachedKept DEF db
<1>4. ASSUME NEW p \in Processes,
             \/ CheckReports(p) \/ Migrate(p) \/ CheckActive(p)
             \/ CreateReports(p) \/ CreateActive(p)
      PROVE Cached'
  <2>1. PICK pc \in {"migrate", "check_active", "drop_active", "create_reports",
                     "create_active", "key_manifest", "hash_artifact"} : Goto(p, pc)
    BY <1>4 DEF CheckReports, Migrate, CheckActive, CreateReports, CreateActive
  <2>2. proc[p].pc # "idle" /\ UNCHANGED files /\ DOMAIN reports'.rows = DOMAIN reports.rows
    BY <1>4 DEF CheckReports, Migrate, CheckActive, CreateReports, CreateActive, Shape, db, Unkeyed
  <2> QED BY <1>1, <2>1, <2>2
<1>5. ASSUME NEW p \in Processes, DropActive(p) PROVE Cached'
  BY <1>1, <1>2, <1>5 DEF DropActive
<1>6. ASSUME NEW p \in Processes, Between(p), KeyFits(p)' /\ ReportFits(p)' PROVE Cached'
  BY <1>0, <1>6, BetweenMoves, CachedKept DEF Cached, Created, db
<1>7. ASSUME NEW p \in Processes, Between(p) PROVE KeyFits(p)' /\ ReportFits(p)'
  <2>1. /\ proc[p] \in Command /\ p \in DOMAIN proc /\ proc'[p].doc = proc[p].doc
        /\ proc[p].doc = manifest /\ KeyFits(p) /\ ReportFits(p)
        /\ UNCHANGED <<files, db>> /\ proc'[p].quiet = proc[p].quiet
        /\ proc[p].pc \notin {"store", "activate"} => proc[p].key \in Key
    BY <1>7, BetweenMoves DEF Cached, Created, Shape, Phases
  <2> USE DEF files
  <2>2. CASE KeyManifest(p)
    <3> DEFINE key == [proc[p].key EXCEPT !.manifest = manifest]
               c == [proc[p] EXCEPT !.key = key, !.pc = "key_artifact"]
    <3>1. proc' = [proc EXCEPT ![p] = c] /\ proc[p].key \in Key
      BY <2>1, <2>2 DEF KeyManifest
    <3>2. key.manifest = manifest
      BY <3>1 DEF Key
    <3> HIDE DEF key
    <3>3. c.key = key /\ c.pc = "key_artifact"
      BY <2>1 DEF Command
    <3> HIDE DEF c
    <3> QED BY <2>1, <3>1, <3>2, <3>3 DEF KeyFits, ReportFits
  <2>3. CASE KeyArtifact(p)
    <3> DEFINE digest == Digest(artifact, Declares[proc[p].doc].artifact)
               key == [proc[p].key EXCEPT !.artifact = digest]
               c == [proc[p] EXCEPT !.key = key,
                       !.pc = IF digest = Absent THEN "hash_artifact" ELSE "key_profile"]
    <3>1. proc' = [proc EXCEPT ![p] = c] /\ proc[p].key \in Key
      BY <2>1, <2>3 DEF KeyArtifact
    <3>2. key.artifact = digest /\ key.manifest = proc[p].key.manifest
      BY <3>1 DEF Key
    <3>3. proc[p].key.manifest = manifest
      BY <2>1, <2>3 DEF KeyArtifact, KeyFits
    <3> HIDE DEF key, digest
    <3>4. c.key = key /\ c.pc = IF digest = Absent THEN "hash_artifact" ELSE "key_profile"
      BY <2>1 DEF Command
    <3> HIDE DEF c
    <3>5. digest = Digest(artifact, Declares[proc[p].doc].artifact)
      BY DEF digest
    <3> QED BY <2>1, <3>1, <3>2, <3>3, <3>4, <3>5 DEF KeyFits, ReportFits
  <2>4. CASE KeyProfile(p)
    <3> DEFINE digest == Digest(profile, Declares[proc[p].doc].profile)
               key == [proc[p].key EXCEPT !.profile = digest]
               c == [proc[p] EXCEPT !.key = key, !.pc = "lookup"]
    <3>1. proc' = [proc EXCEPT ![p] = c] /\ proc[p].key \in Key
      BY <2>1, <2>4 DEF KeyProfile
    <3>2. /\ key.profile = digest /\ key.manifest = proc[p].key.manifest
          /\ key.artifact = proc[p].key.artifact
      BY <3>1 DEF Key
    <3> HIDE DEF key, digest
    <3>3. c.key = key /\ c.pc = "lookup"
      BY <2>1 DEF Command
    <3> HIDE DEF c
    <3>4. digest = Digest(profile, Declares[proc[p].doc].profile)
      BY DEF digest
    <3>5. proc[p].pc = "key_profile"
      BY <2>4 DEF KeyProfile
    <3> QED BY <2>1, <3>1, <3>2, <3>3, <3>4, <3>5 DEF KeyFits, ReportFits
  <2>5. CASE Lookup(p) /\ Matches(proc[p].key) = {}
    <3>1. proc'[p].pc = "hash_artifact"
      BY <2>5, Went DEF Lookup
    <3> QED BY <3>1 DEF KeyFits, ReportFits
  <2>6. CASE Lookup(p) /\ Matches(proc[p].key) # {}
    <3> DEFINE newest == CHOOSE i \in Matches(proc[p].key) :
                           \A j \in Matches(proc[p].key) : j <= i
               c == [proc[p] EXCEPT !.report = reports.rows[newest].report, !.pc = "hit"]
    <3>1. newest \in DOMAIN reports.rows /\ reports.rows[newest].key = proc[p].key
      BY <2>6, Newest DEF Shape
    <3>2. proc' = [proc EXCEPT ![p] = c] /\ proc[p].pc = "lookup"
      BY <2>6 DEF Lookup
    <3> HIDE DEF newest
    <3>3. c.pc = "hit" /\ c.key = proc[p].key /\ c.report = reports.rows[newest].report
      BY <2>1 DEF Command
    <3> HIDE DEF c
    <3>4. Filed(proc[p].key, reports.rows[newest].report)
      BY <3>1 DEF Cached
    <3> QED BY <2>1, <3>2, <3>3, <3>4 DEF KeyFits, ReportFits
  <2>7. CASE HashProfile(p)
    <3> DEFINE declared == Declares[proc[p].doc]
               digest == Digest(profile, declared.profile)
               seen == proc[p].report.artifact
               ok == /\ seen = declared.artifact /\ proc[p].probed /\ digest = declared.profile
               report == [ok |-> ok, doc |-> proc[p].doc, artifact |-> seen, profile |-> digest]
               c == [proc[p] EXCEPT !.report = report, !.pc = "stamp"]
    <3>1. proc' = [proc EXCEPT ![p] = c]
      BY <2>7 DEF HashProfile
    <3>2. Filed(Absent, report)
      BY <2>1 DEF Filed, Command
    <3> HIDE DEF report
    <3>3. c.pc = "stamp" /\ c.report = report
      BY <2>1 DEF Command
    <3> HIDE DEF c
    <3> QED BY <2>1, <3>1, <3>2, <3>3 DEF KeyFits, ReportFits
  <2>8. CASE StampKey(p)
    <3> DEFINE report == proc[p].report
               unkeyed == \/ ~ report.ok /\ proc[p].cmd.activate /\ proc[p].cmd.force
                          \/ report.artifact = Absent
                          \/ Declares[proc[p].doc].profile # Absent /\ report.profile = Absent
               key == IF unkeyed THEN Absent
                      ELSE [manifest |-> manifest, artifact |-> report.artifact,
                            profile |-> report.profile]
               c == [proc[p] EXCEPT !.key = key, !.pc = "store"]
    <3>1. proc' = [proc EXCEPT ![p] = c] /\ Filed(Absent, report) /\ report.doc = proc[p].doc
      BY <2>1, <2>8 DEF StampKey, ReportFits, Evidence
    <3>2. Filed(key, report)
      BY <2>1, <3>1 DEF Filed
    <3> HIDE DEF key
    <3>3. c.pc = "store" /\ c.key = key /\ c.report = report
      BY <2>1 DEF Command
    <3> HIDE DEF c
    <3> QED BY <2>1, <3>1, <3>2, <3>3 DEF KeyFits, ReportFits
  <2>9. CASE HashArtifact(p)
    <3> DEFINE c == [proc[p] EXCEPT
                       !.report = [proc[p].report EXCEPT
                                     !.artifact = Digest(artifact, Declares[proc[p].doc].artifact)],
                       !.pc = "probe"]
    <3>1. proc' = [proc EXCEPT ![p] = c]
      BY <2>9 DEF HashArtifact
    <3>2. c.pc = "probe"
      BY <2>1 DEF Command
    <3> HIDE DEF c
    <3> QED BY <2>1, <3>1, <3>2 DEF KeyFits, ReportFits
  <2>10. CASE ProbeArtifact(p)
    <3> DEFINE c == [proc[p] EXCEPT
                       !.probed = IF artifact = Absent THEN FALSE
                                  ELSE artifact.meta = Declares[proc[p].doc].artifact.meta,
                       !.pc = "hash_profile"]
    <3>1. proc' = [proc EXCEPT ![p] = c]
      BY <2>10 DEF ProbeArtifact
    <3>2. c.pc = "hash_profile"
      BY <2>1 DEF Command
    <3> HIDE DEF c
    <3> QED BY <2>1, <3>1, <3>2 DEF KeyFits, ReportFits
  <2> QED
    BY <1>7, <2>2, <2>3, <2>4, <2>5, <2>6, <2>7, <2>8, <2>9, <2>10 DEF Between
<1>8. ASSUME NEW p \in Processes, StoreReport(p) PROVE Cached'
  <2> DEFINE row == [key |-> proc[p].key, report |-> proc[p].report]
             n == Len(reports.rows) + 1
  <2>1. /\ reports'.rows = Append(reports.rows, row) /\ reports.rows \in Seq(Row)
        /\ UNCHANGED files /\ proc[p].pc = "store"
    BY <1>8 DEF StoreReport, Shape
  <2>2. proc[p] \in Command /\ Filed(row.key, row.report)
    BY <2>1, Busy DEF Cached, ReportFits
  <2>3. row \in Row
    BY <2>2 DEF Command, Row
  <2> HIDE DEF row
  <2>4. /\ DOMAIN reports'.rows = DOMAIN reports.rows \cup {n}
        /\ \A i \in DOMAIN reports.rows : reports'.rows[i] = reports.rows[i]
        /\ reports'.rows[n] = row
    <3>1. reports'.rows \in Seq(Row) /\ Len(reports'.rows) = n
      BY <2>1, <2>3, LogType
    <3>2. DOMAIN reports'.rows = 1 .. n /\ DOMAIN reports.rows = 1 .. Len(reports.rows)
          /\ Len(reports.rows) \in Nat
      BY <2>1, <3>1, LogType
    <3> QED BY <2>1, <2>3, <3>2, LogType
  <2>5. \A i \in DOMAIN reports'.rows : Filed(reports'.rows[i].key, reports'.rows[i].report)
    BY <2>2, <2>4 DEF Cached
  <2>6. /\ \A q \in Processes \ {p} : proc'[q] = proc[q]
        /\ proc'[p].pc = "idle" \/ (proc'[p].pc = "activate" /\ proc'[p].doc = proc[p].doc)
    <3>1. CASE proc' = [proc EXCEPT ![p] = Idle]
      BY <3>1 DEF Shape, Idle
    <3>2. CASE Goto(p, "activate")
      BY <2>1, <3>2, Went
    <3> QED BY <1>8, <3>1, <3>2 DEF StoreReport
  <2>7. proc'[p].pc # "idle" => proc'[p].doc = manifest /\ KeyFits(p)' /\ ReportFits(p)'
    BY <2>1, <2>6 DEF Cached, KeyFits, ReportFits
  <2>8. \A q \in Processes \ {p} : (KeyFits(q) => KeyFits(q)') /\ (ReportFits(q) => ReportFits(q)')
    BY <2>1, <2>6 DEF KeyFits, ReportFits, files
  <2> QED BY <2>1, <2>5, <2>6, <2>7, <2>8 DEF Cached, files
<1>9. ASSUME NEW p \in Processes, Activate(p) \/ End(p) PROVE Cached'
  BY <1>2, <1>9 DEF Activate, End, db
<1>10. CASE ReplaceManifest
  <2>1. \A p \in Processes : proc'[p].pc = "idle"
    BY <1>10, Disturbed DEF ReplaceManifest, Replace
  <2>2. UNCHANGED db
    BY <1>10, Disturbed DEF Replace
  <2> QED BY <2>1, <2>2 DEF Cached, db
<1>11. CASE ReplaceArtifact \/ ReplaceProfile
  <2>1. /\ UNCHANGED db /\ manifest' = manifest
        /\ \A p \in Processes :
             /\ proc'[p].pc = proc[p].pc
             /\ proc[p].pc # "idle" =>
                  /\ proc'[p].cmd = proc[p].cmd /\ proc'[p].doc = proc[p].doc
                  /\ proc'[p].key = proc[p].key /\ proc'[p].report = proc[p].report
                  /\ ~ proc'[p].quiet
    BY <1>11, Disturbed DEF Replace, ReplaceArtifact, ReplaceProfile
  <2>2. \A p \in Processes : proc[p].pc # "idle" =>
          (KeyFits(p) => KeyFits(p)') /\ (ReportFits(p) => ReportFits(p)')
    BY <2>1 DEF KeyFits, ReportFits
  <2> QED BY <2>1, <2>2 DEF Cached, db
<1>12. CASE UNCHANGED vars
  BY <1>12 DEF vars, files, db, Cached, KeyFits, ReportFits
<1> QED
  BY <1>3, <1>4, <1>5, <1>6, <1>7, <1>8, <1>9, <1>10, <1>11, <1>12, NextStep
  DEF Step, Between, Replace

-----------------------------------------------------------------------------
LEMMA Inductive == Spec => []IInv
<1>1. IInv /\ [Next]_vars => IInv'
  BY ShapeStep, TablesStep, EvidenceStep DEF IInv
<1> QED BY InitIInv, <1>1, PTL DEF Spec

LEMMA CacheInductive == ASSUME ~ EditDuringCalls PROVE Spec => []CInv
<1>1. Init => CInv
  BY InitIInv, InitCached DEF CInv
<1>2. CInv /\ [Next]_vars => CInv'
  BY ShapeStep, TablesStep, EvidenceStep, CachedStep DEF CInv, IInv
<1> QED BY <1>1, <1>2, PTL DEF Spec

\* The files, the tables and the reports are of their types, and a command that
\* looks a report up, stores one or activates finds the current schema.
THEOREM TypeCorrect == Spec => []TypeOK
<1>1. IInv => TypeOK
  <2> SUFFICES ASSUME IInv PROVE TypeOK
    OBVIOUS
  <2>1. \A i \in DOMAIN reports.rows : reports.rows[i].report \in Report
    BY LogType DEF IInv, Shape
  <2> QED BY <2>1 DEF IInv, Shape, Tables, TypeOK, Schemas, Created
<1> QED BY <1>1, Inductive, PTL

\* An active manifest that was not forced has an ok report of itself in the
\* log, however commands, migrations and replacements of files interleave.
THEOREM ActivationIsBacked == Spec => []ActivationBacked
<1>1. IInv => ActivationBacked
  BY DEF IInv, Evidence, Backed, ActivationBacked
<1> QED BY <1>1, Inductive, PTL

\* No step loses a stored report or the key it was stored under.
THEOREM LogIsKept == Spec => LogKept
<1>1. IInv /\ [Next]_vars => [Kept]_vars
  BY LogStep
<1> QED BY <1>1, Inductive, PTL DEF Spec, LogKept, Kept

\* A hit is about its document and its artifact.
LEMMA HitMatches == ASSUME CInv PROVE ReusedReportMatches
<1> SUFFICES ASSUME NEW p \in Processes, proc[p].pc = "hit", proc[p].quiet
             PROVE  proc[p].report.doc = proc[p].doc /\ proc[p].report.artifact = artifact
  BY DEF ReusedReportMatches, At
<1>1. /\ proc[p].doc = manifest /\ KeyFits(p) /\ Filed(proc[p].key, proc[p].report)
      /\ proc[p].key \in Key /\ proc[p].key # Absent
  BY RegistryAssumption DEF CInv, Cached, ReportFits, IInv, Shape, Phases, Created
<1> QED BY <1>1 DEF KeyFits, Filed, Digest

\* Where a manifest is not replaced while a command uses it, any report from the
\* cache was made for the document and the bytes of the artifact it is reused for.
THEOREM ReusedReportsMatch == ASSUME ~ EditDuringCalls PROVE Spec => []ReusedReportMatches
<1>1. CInv => ReusedReportMatches
  BY HitMatches
<1> QED BY <1>1, CacheInductive, PTL

\* There, an ok report from the cache is also what a fresh verification would say.
THEOREM HitsAreSound == ASSUME ~ EditDuringCalls PROVE Spec => []HitSound
<1>1. CInv => HitSound
  <2> SUFFICES ASSUME CInv, NEW p \in Processes, proc[p].pc = "hit", proc[p].quiet,
                      proc[p].report.ok
               PROVE  Verifies(proc[p].doc)
    BY HitMatches DEF HitSound, At
  <2> DEFINE declared == Declares[proc[p].doc]
  <2>1. /\ proc[p].doc = manifest /\ KeyFits(p) /\ Filed(proc[p].key, proc[p].report)
        /\ proc[p].key \in Key /\ proc[p].key # Absent
    BY RegistryAssumption DEF CInv, Cached, ReportFits, IInv, Shape, Phases, Created
  <2>2. proc[p].report.doc = proc[p].doc
    BY <2>1 DEF KeyFits, Filed
  <2>3. artifact = declared.artifact
    BY <2>1, <2>2 DEF KeyFits, Filed, Digest
  <2>4. declared.profile \in {Absent, profile}
    BY <2>1, <2>2 DEF KeyFits, Filed, Digest
  <2> QED BY <2>3, <2>4 DEF Verifies
<1> QED BY <1>1, CacheInductive, PTL
=============================================================================
