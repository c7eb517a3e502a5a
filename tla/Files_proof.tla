----------------------------- MODULE Files_proof ----------------------------
(***************************************************************************)
(* The two kinds of file on disk.  A manifest is replaced by a rename: for *)
(* every set of writers, manifests and inodes and any number of calls,     *)
(* interferences and crashes the destination is always whole, an           *)
(* acknowledged write is kept, and the check before the rename notices a   *)
(* replacement where inode numbers are not given out again.  An index is   *)
(* overwritten in place: for every format, dimension, rows, processes,     *)
(* saves and crashes a load returns the last index saved, or fails.        *)
(***************************************************************************)
EXTENDS ManifestWrite, IndexFile, FiniteSetTheorems, SequenceTheorems, TLAPS

Entries  == [file : Inodes \cup {NoFile, Special}, version : Nat]
Contents == [data : Manifests \cup {Torn}, synced : BOOLEAN]
Phases   == {"snapshot", "create", "write", "sync", "check", "rename", "sync_dir"}
Write    == [pc : Phases, m : Manifests, seen : Entries, tmp : Inodes \cup {NoFile}]

HasTemp(w) == writer[w].pc \in {"write", "sync", "check", "rename"}

Shape ==
  /\ reuse \in BOOLEAN /\ acked \in Nat
  /\ inode \in [Inodes -> Contents] /\ free \subseteq Inodes
  /\ dest \in Entries /\ diskDest \in Entries
  /\ writer \in [Writers -> Write \cup {Idle}]

\* Entries and temporary files name distinct files that are in use.
Apart ==
  /\ dest.file \notin free /\ diskDest.file \notin free
  /\ \A w \in Writers :
       /\ writer[w].pc \in {"snapshot", "create"} => writer[w].tmp = NoFile
       /\ HasTemp(w) =>
            /\ writer[w].tmp \in Inodes \ free
            /\ writer[w].tmp # dest.file /\ writer[w].tmp # diskDest.file
  /\ \A v, w \in Writers :
       HasTemp(v) /\ HasTemp(w) /\ v # w => writer[v].tmp # writer[w].tmp

\* What a temporary file holds on its way to the rename.
Wrote ==
  \A w \in Writers :
    /\ writer[w].pc \in {"sync", "check", "rename"} => inode[writer[w].tmp].data \in Manifests
    /\ writer[w].pc \in {"check", "rename"} => inode[writer[w].tmp].synced

\* The disk is never ahead of the directory, nor an acknowledgement of either.
Versions ==
  /\ acked <= diskDest.version /\ diskDest.version <= dest.version
  /\ \A w \in Writers :
       writer[w].pc = "sync_dir" => writer[w].seen.version <= dest.version

\* Where numbers are not given out again, the file a write saw is the
\* destination only as long as it has not been replaced.
Unmoved ==
  ~ reuse =>
    \A w \in Writers :
      writer[w].pc \notin {"idle", "sync_dir"} /\ writer[w].seen.file \in Inodes =>
        /\ writer[w].seen.file \notin free
        /\ dest.file = writer[w].seen.file => dest.version = writer[w].seen.version
        /\ \A v \in Writers : HasTemp(v) => writer[v].tmp # writer[w].seen.file

IInv == Shape /\ Apart /\ Wrote /\ DestinationWhole /\ Versions /\ Unmoved

\* The first state: nobody writes, and the destination is a whole file or none.
LEMMA InitIInv == ASSUME Init PROVE IInv
<1> USE WriteAssumption DEF Init, Entries, Contents, Idle, Blank
<1>1. Shape
  BY DEF Shape
<1>2. Apart
  BY DEF Apart, HasTemp
<1>3. DestinationWhole
  BY DEF DestinationWhole
<1>4. Wrote /\ Versions /\ Unmoved
  BY DEF Wrote, Versions, Unmoved
<1> QED BY <1>1, <1>2, <1>3, <1>4 DEF IInv

\* A writer that is not idle is in a write.
LEMMA Busy == ASSUME Shape, NEW w \in Writers, writer[w].pc # "idle"
              PROVE  writer[w] \in Write
  BY DEF Shape, Idle

\* A file that is synced keeps what it holds.
LEMMA SyncedContent == ASSUME NEW c \in Contents PROVE [c EXCEPT !.synced = TRUE] \in Contents
  BY DEF Contents

\* Every step keeps the shapes.
LEMMA ShapeStep == ASSUME IInv, [Next]_vars PROVE Shape'
<1> USE WriteAssumption DEF IInv, Shape, Entries, Contents, Write, Phases, Idle, Blank, At, Goto, fs
<1>1. ASSUME NEW w \in Writers, NEW m \in Manifests \cup Refused, UNCHANGED reuse, Begin(w, m)
      PROVE Shape'
  <2>1. CASE m \in Refused
    BY <1>1, <2>1 DEF Begin
  <2>2. CASE m \in Manifests \ Refused
    <3>1. [pc |-> "snapshot", m |-> m, seen |-> dest, tmp |-> NoFile] \in Write
      BY <2>2
    <3> QED BY <1>1, <2>2, <3>1 DEF Begin
  <2> QED BY <2>1, <2>2
<1>2. ASSUME NEW w \in Writers, UNCHANGED reuse, Snapshot(w) PROVE Shape'
  <2>1. writer[w] \in Write
    BY <1>2, Busy DEF Snapshot
  <2>2. [writer[w] EXCEPT !.seen = dest, !.pc = "create"] \in Write
    BY <2>1
  <2> QED BY <1>2, <2>2 DEF Snapshot
<1>3. ASSUME NEW w \in Writers, UNCHANGED reuse, CreateTemp(w) PROVE Shape'
  <2>1. PICK i \in free : /\ inode' = [inode EXCEPT ![i] = Blank]
                          /\ free' = free \ {i}
                          /\ writer' = [writer EXCEPT ![w].tmp = i, ![w].pc = "write"]
    BY <1>3 DEF CreateTemp
  <2>2. writer[w] \in Write
    BY <1>3, Busy DEF CreateTemp
  <2>3. [writer[w] EXCEPT !.tmp = i, !.pc = "write"] \in Write
    BY <2>2
  <2>4. writer' \in [Writers -> Write \cup {Idle}]
    BY <2>1, <2>3
  <2>5. inode' \in [Inodes -> Contents]
    BY <2>1
  <2> QED BY <1>3, <2>1, <2>4, <2>5 DEF CreateTemp
<1>4. ASSUME NEW w \in Writers, UNCHANGED reuse, WriteTemp(w) PROVE Shape'
  <2>1. writer[w] \in Write /\ writer[w].tmp \in Inodes
    BY <1>4, Busy DEF WriteTemp, Apart, HasTemp
  <2>2. inode' \in [Inodes -> Contents]
    BY <1>4, <2>1 DEF WriteTemp
  <2>3. writer' \in [Writers -> Write \cup {Idle}]
    BY <1>4, <2>1 DEF WriteTemp
  <2> QED BY <1>4, <2>2, <2>3 DEF WriteTemp
<1>5. ASSUME NEW w \in Writers, UNCHANGED reuse, SyncTemp(w) PROVE Shape'
  <2>1. writer[w] \in Write /\ writer[w].tmp \in Inodes
    BY <1>5, Busy DEF SyncTemp, Apart, HasTemp
  <2>2. [inode[writer[w].tmp] EXCEPT !.synced = TRUE] \in Contents
    BY <2>1, SyncedContent
  <2>3. inode' \in [Inodes -> Contents]
    BY <1>5, <2>1, <2>2 DEF SyncTemp
  <2>4. writer' \in [Writers -> Write \cup {Idle}]
    BY <1>5, <2>1 DEF SyncTemp
  <2> QED BY <1>5, <2>3, <2>4 DEF SyncTemp
<1>6. ASSUME NEW w \in Writers, UNCHANGED reuse, Check(w) PROVE Shape'
  BY <1>6 DEF Check
<1>7. ASSUME NEW w \in Writers, UNCHANGED reuse, Rename(w) PROVE Shape'
  BY <1>7 DEF Rename, Released, Apart, HasTemp
<1>8. ASSUME NEW w \in Writers, UNCHANGED reuse, SyncDir(w) PROVE Shape'
  BY <1>8 DEF SyncDir, EntryWritten, Released
<1>9. ASSUME NEW w \in Writers, UNCHANGED reuse, Fail(w) PROVE Shape'
  BY <1>9 DEF Fail, Released
<1>10. CASE UNCHANGED reuse /\ Interfere
  BY <1>10 DEF Interfere, Released
<1>11. CASE UNCHANGED reuse /\ WriteBackEntry
  BY <1>11 DEF WriteBackEntry, EntryWritten, Released
<1>12. CASE UNCHANGED reuse /\ Crash
  <2>1. PICK torn \in SUBSET {i \in Inodes : ~ inode[i].synced} :
          inode' = [i \in Inodes |-> IF i \in torn THEN Blank
                                     ELSE [inode[i] EXCEPT !.synced = TRUE]]
    BY <1>12 DEF Crash
  <2>2. \A i \in Inodes : [inode[i] EXCEPT !.synced = TRUE] \in Contents /\ Blank \in Contents
    BY SyncedContent
  <2>3. inode' \in [Inodes -> Contents]
    BY <2>1, <2>2
  <2>4. writer' \in [Writers -> Write \cup {Idle}]
    BY <1>12 DEF Crash
  <2> QED BY <1>12, <2>3, <2>4 DEF Crash
<1>13. CASE UNCHANGED vars
  BY <1>13 DEF vars
<1> QED
  BY <1>1, <1>2, <1>3, <1>4, <1>5, <1>6, <1>7, <1>8, <1>9, <1>10, <1>11, <1>12, <1>13 DEF Next

\* Every step keeps entries and temporary files apart.
LEMMA ApartStep == ASSUME IInv, [Next]_vars PROVE Apart'
<1> USE WriteAssumption DEF IInv, Apart, HasTemp, At, Goto, fs, Idle
<1>0. \A w \in Writers : writer[w].pc # "idle" => writer[w] \in Write
  BY Busy
<1>1. ASSUME NEW w \in Writers, NEW m \in Manifests \cup Refused, UNCHANGED reuse, Begin(w, m)
      PROVE Apart'
  BY <1>1 DEF Begin, Shape
<1>2. ASSUME NEW w \in Writers, UNCHANGED reuse, Snapshot(w) PROVE Apart'
  BY <1>0, <1>2 DEF Snapshot, Shape, Write
<1>3. ASSUME NEW w \in Writers, UNCHANGED reuse, CreateTemp(w) PROVE Apart'
  <2>1. PICK i \in free : /\ free' = free \ {i}
                          /\ writer' = [writer EXCEPT ![w].tmp = i, ![w].pc = "write"]
    BY <1>3 DEF CreateTemp
  <2>2. /\ writer'[w].tmp = i /\ writer'[w].pc = "write"
        /\ \A v \in Writers \ {w} : writer'[v] = writer[v]
    BY <1>0, <1>3, <2>1 DEF CreateTemp, Shape, Write
  <2> QED BY <1>3, <2>1, <2>2 DEF CreateTemp, Shape
<1>4. ASSUME NEW w \in Writers, UNCHANGED reuse, WriteTemp(w) PROVE Apart'
  BY <1>0, <1>4 DEF WriteTemp, Shape, Write
<1>5. ASSUME NEW w \in Writers, UNCHANGED reuse, SyncTemp(w) PROVE Apart'
  BY <1>0, <1>5 DEF SyncTemp, Shape, Write
<1>6. ASSUME NEW w \in Writers, UNCHANGED reuse, Check(w) PROVE Apart'
  BY <1>0, <1>6 DEF Check, Shape, Write
<1>7. ASSUME NEW w \in Writers, UNCHANGED reuse, Rename(w) PROVE Apart'
  <2>1. /\ writer'[w].pc = "sync_dir" /\ dest'.file = writer[w].tmp
        /\ \A v \in Writers \ {w} : writer'[v] = writer[v]
        /\ free' \subseteq free \cup ({dest.file} \ {diskDest.file})
        /\ UNCHANGED diskDest
    BY <1>0, <1>7 DEF Rename, Released, Shape, Write
  <2>3. HasTemp(w) /\ \A v \in Writers : HasTemp(v)' => v # w /\ HasTemp(v)
    BY <1>7, <2>1 DEF Rename
  <2>4. dest'.file \notin free' /\ diskDest'.file \notin free'
    BY <2>1, <2>3
  <2>5. ASSUME NEW v \in Writers, HasTemp(v)'
        PROVE  /\ writer'[v].tmp \in Inodes \ free'
               /\ writer'[v].tmp # dest'.file /\ writer'[v].tmp # diskDest'.file
    BY <2>1, <2>3, <2>5
  <2>6. ASSUME NEW u \in Writers, NEW v \in Writers, HasTemp(u)', HasTemp(v)', u # v
        PROVE  writer'[u].tmp # writer'[v].tmp
    BY <2>1, <2>3, <2>6
  <2>7. ASSUME NEW v \in Writers, writer'[v].pc \in {"snapshot", "create"}
        PROVE  writer'[v].tmp = NoFile
    BY <2>1, <2>7
  <2> QED BY <2>4, <2>5, <2>6, <2>7
<1>8. ASSUME NEW w \in Writers, UNCHANGED reuse, SyncDir(w) PROVE Apart'
  <2>1. /\ writer'[w].pc = "idle" /\ UNCHANGED dest /\ diskDest' = dest
        /\ \A v \in Writers \ {w} : writer'[v] = writer[v]
        /\ free' \subseteq free \cup ({diskDest.file} \ {dest.file})
    BY <1>8 DEF SyncDir, EntryWritten, Released, Shape
  <2> QED BY <2>1
<1>9. ASSUME NEW w \in Writers, UNCHANGED reuse, Fail(w) PROVE Apart'
  <2>1. /\ writer'[w].pc = "idle" /\ UNCHANGED <<dest, diskDest>>
        /\ \A v \in Writers \ {w} : writer'[v] = writer[v]
    BY <1>9 DEF Fail, Shape
  <2>2. free' = free \/ (HasTemp(w) /\ free' \subseteq free \cup {writer[w].tmp})
    BY <1>0, <1>9 DEF Fail, Released, Write, Phases
  <2> QED BY <2>1, <2>2
<1>10. CASE UNCHANGED reuse /\ Interfere
  <2>1. /\ dest'.file \in {NoFile, Special} /\ UNCHANGED <<diskDest, writer>>
        /\ free' \subseteq free \cup ({dest.file} \ {diskDest.file})
    BY <1>10 DEF Interfere, Released
  <2>2. free' \subseteq Inodes
    BY ShapeStep DEF Shape
  <2> QED BY <2>1, <2>2
<1>11. CASE UNCHANGED reuse /\ WriteBackEntry
  <2>1. /\ UNCHANGED <<dest, writer>> /\ diskDest' = dest
        /\ free' \subseteq free \cup ({diskDest.file} \ {dest.file})
    BY <1>11 DEF WriteBackEntry, EntryWritten, Released
  <2> QED BY <2>1
<1>12. CASE UNCHANGED reuse /\ Crash
  BY <1>12 DEF Crash
<1>13. CASE UNCHANGED vars
  BY <1>13 DEF vars
<1> QED
  BY <1>1, <1>2, <1>3, <1>4, <1>5, <1>6, <1>7, <1>8, <1>9, <1>10, <1>11, <1>12, <1>13 DEF Next

\* Every step leaves on its way to the rename what the write has put there.
LEMMA WroteStep == ASSUME IInv, [Next]_vars PROVE Wrote'
<1> USE WriteAssumption DEF IInv, Wrote, At, Goto, fs, Idle
<1>0. \A w \in Writers : writer[w].pc # "idle" => writer[w] \in Write
  BY Busy
<1>1. ASSUME NEW w \in Writers, NEW m \in Manifests \cup Refused, UNCHANGED reuse, Begin(w, m)
      PROVE Wrote'
  BY <1>1 DEF Begin, Shape
<1>2. ASSUME NEW w \in Writers, UNCHANGED reuse, Snapshot(w) PROVE Wrote'
  BY <1>0, <1>2 DEF Snapshot, Shape, Write
<1>3. ASSUME NEW w \in Writers, UNCHANGED reuse, CreateTemp(w) PROVE Wrote'
  <2>1. PICK i \in free : /\ inode' = [inode EXCEPT ![i] = Blank]
                          /\ writer' = [writer EXCEPT ![w].tmp = i, ![w].pc = "write"]
    BY <1>3 DEF CreateTemp
  <2>2. /\ writer'[w].pc = "write"
        /\ \A v \in Writers \ {w} : writer'[v] = writer[v]
    BY <1>0, <1>3, <2>1 DEF CreateTemp, Shape, Write
  <2>3. \A v \in Writers : HasTemp(v) => writer[v].tmp \in Inodes /\ writer[v].tmp # i
    BY DEF Apart
  <2> QED BY <2>1, <2>2, <2>3 DEF Shape, HasTemp
<1>4. ASSUME NEW w \in Writers, UNCHANGED reuse, WriteTemp(w) PROVE Wrote'
  <2>1. /\ writer'[w].pc = "sync" /\ writer'[w].tmp = writer[w].tmp
        /\ \A v \in Writers \ {w} : writer'[v] = writer[v]
        /\ writer[w].m \in Manifests
    BY <1>0, <1>4 DEF WriteTemp, Shape, Write
  <2>2. /\ inode'[writer[w].tmp].data = writer[w].m
        /\ \A i \in Inodes \ {writer[w].tmp} : inode'[i] = inode[i]
    BY <1>4 DEF WriteTemp, Shape, Apart, HasTemp, Contents
  <2>3. \A v \in Writers \ {w} : HasTemp(v) => writer[v].tmp \in Inodes \ {writer[w].tmp}
    BY <1>4 DEF WriteTemp, Apart, HasTemp
  <2> QED BY <2>1, <2>2, <2>3 DEF HasTemp
<1>5. ASSUME NEW w \in Writers, UNCHANGED reuse, SyncTemp(w) PROVE Wrote'
  <2>1. /\ writer'[w].pc = "check" /\ writer'[w].tmp = writer[w].tmp
        /\ \A v \in Writers \ {w} : writer'[v] = writer[v]
    BY <1>0, <1>5 DEF SyncTemp, Shape, Write
  <2>2. /\ inode'[writer[w].tmp].data = inode[writer[w].tmp].data
        /\ inode'[writer[w].tmp].synced
        /\ \A i \in Inodes \ {writer[w].tmp} : inode'[i] = inode[i]
    BY <1>5 DEF SyncTemp, Shape, Apart, HasTemp, Contents
  <2>3. \A v \in Writers \ {w} : HasTemp(v) => writer[v].tmp \in Inodes \ {writer[w].tmp}
    BY <1>5 DEF SyncTemp, Apart, HasTemp
  <2> QED BY <1>5, <2>1, <2>2, <2>3 DEF HasTemp, SyncTemp
<1>6. ASSUME NEW w \in Writers, UNCHANGED reuse, Check(w) PROVE Wrote'
  BY <1>0, <1>6 DEF Check, Shape, Write
<1>7. ASSUME NEW w \in Writers, UNCHANGED reuse, Rename(w) PROVE Wrote'
  BY <1>0, <1>7 DEF Rename, Shape, Write
<1>8. ASSUME NEW w \in Writers, UNCHANGED reuse, SyncDir(w) PROVE Wrote'
  BY <1>8 DEF SyncDir, Shape
<1>9. ASSUME NEW w \in Writers, UNCHANGED reuse, Fail(w) PROVE Wrote'
  BY <1>9 DEF Fail, Shape
<1>10. CASE UNCHANGED reuse /\ (Interfere \/ WriteBackEntry)
  BY <1>10 DEF Interfere, WriteBackEntry
<1>11. CASE UNCHANGED reuse /\ Crash
  BY <1>11 DEF Crash
<1>12. CASE UNCHANGED vars
  BY <1>12 DEF vars
<1> QED
  BY <1>1, <1>2, <1>3, <1>4, <1>5, <1>6, <1>7, <1>8, <1>9, <1>10, <1>11, <1>12 DEF Next

\* Every step leaves a whole manifest at the destination and on the disk.
LEMMA WholeStep == ASSUME IInv, [Next]_vars PROVE DestinationWhole'
<1> USE WriteAssumption DEF IInv, DestinationWhole, At, Goto, fs
<1>1. ASSUME NEW w \in Writers, NEW m \in Manifests \cup Refused, UNCHANGED reuse, Begin(w, m)
      PROVE DestinationWhole'
  BY <1>1 DEF Begin
<1>2. ASSUME NEW w \in Writers, Snapshot(w) \/ Check(w) \/ Fail(w) PROVE DestinationWhole'
  BY <1>2 DEF Snapshot, Check, Fail
<1>3. ASSUME NEW w \in Writers, CreateTemp(w) PROVE DestinationWhole'
  <2>1. PICK i \in free : inode' = [inode EXCEPT ![i] = Blank]
    BY <1>3 DEF CreateTemp
  <2>2. \A entry \in {dest, diskDest} : entry.file # i
    BY DEF Apart
  <2> QED BY <1>3, <2>1, <2>2 DEF CreateTemp, Shape
<1>4. ASSUME NEW w \in Writers, WriteTemp(w) \/ SyncTemp(w) PROVE DestinationWhole'
  <2>1. \A entry \in {dest, diskDest} : entry.file # writer[w].tmp
    BY <1>4 DEF WriteTemp, SyncTemp, Apart, HasTemp
  <2>2. \A i \in Inodes \ {writer[w].tmp} : inode'[i] = inode[i]
    BY <1>4 DEF WriteTemp, SyncTemp, Shape
  <2> QED BY <1>4, <2>1, <2>2 DEF WriteTemp, SyncTemp
<1>5. ASSUME NEW w \in Writers, Rename(w) PROVE DestinationWhole'
  <2>1. /\ inode[writer[w].tmp].data \in Manifests /\ inode[writer[w].tmp].synced
        /\ dest'.file = writer[w].tmp /\ UNCHANGED <<inode, diskDest>>
    BY <1>5 DEF Rename, Wrote
  <2> QED BY <2>1
<1>6. ASSUME NEW w \in Writers, SyncDir(w) PROVE DestinationWhole'
  BY <1>6 DEF SyncDir, EntryWritten
<1>7. CASE Interfere
  BY <1>7 DEF Interfere
<1>8. CASE WriteBackEntry
  BY <1>8 DEF WriteBackEntry, EntryWritten
<1>9. CASE Crash
  <2>1. \A i \in Inodes : inode[i].synced => inode'[i] = [inode[i] EXCEPT !.synced = TRUE]
    BY <1>9 DEF Crash
  <2>2. \A i \in Inodes : inode[i].synced => inode'[i].data = inode[i].data /\ inode'[i].synced
    BY <2>1 DEF Shape, Contents
  <2>3. dest' \in {dest, diskDest} /\ diskDest' = dest'
    BY <1>9 DEF Crash
  <2> QED BY <2>2, <2>3
<1>10. CASE UNCHANGED vars
  BY <1>10 DEF vars
<1> QED
  BY <1>1, <1>2, <1>3, <1>4, <1>5, <1>6, <1>7, <1>8, <1>9, <1>10 DEF Next

\* Every step keeps the versions in their order.
LEMMA VersionsStep == ASSUME IInv, [Next]_vars PROVE Versions'
<1> USE WriteAssumption DEF IInv, Versions, At, Goto, fs, Idle
<1>0. /\ \A w \in Writers : writer[w].pc # "idle" => writer[w] \in Write
      /\ acked \in Nat /\ dest.version \in Nat /\ diskDest.version \in Nat
      /\ \A w \in Writers : writer[w].pc # "idle" => writer[w].seen.version \in Nat
  BY Busy DEF Shape, Entries, Write
<1>1. ASSUME NEW w \in Writers, NEW m \in Manifests \cup Refused, UNCHANGED reuse, Begin(w, m)
      PROVE Versions'
  <2>1. /\ writer'[w].pc # "sync_dir"
        /\ \A v \in Writers \ {w} : writer'[v] = writer[v]
    BY <1>1 DEF Begin, Shape
  <2> QED BY <1>1, <2>1 DEF Begin
<1>2. ASSUME NEW w \in Writers,
             Snapshot(w) \/ CreateTemp(w) \/ WriteTemp(w) \/ SyncTemp(w) \/ Check(w) \/ Fail(w)
      PROVE Versions'
  <2>1. writer'[w].pc # "sync_dir"
    <3>1. CASE Snapshot(w)
      BY <1>0, <3>1 DEF Snapshot, Shape, Write
    <3>2. CASE CreateTemp(w)
      BY <1>0, <3>2 DEF CreateTemp, Shape, Write
    <3>3. CASE WriteTemp(w) \/ SyncTemp(w)
      BY <1>0, <3>3 DEF WriteTemp, SyncTemp, Shape, Write
    <3>4. CASE Check(w) \/ Fail(w)
      BY <1>0, <3>4 DEF Check, Fail, Shape, Write
    <3> QED BY <1>2, <3>1, <3>2, <3>3, <3>4
  <2>2. \A v \in Writers \ {w} : writer'[v] = writer[v]
    BY <1>2 DEF Snapshot, CreateTemp, WriteTemp, SyncTemp, Check, Fail, Shape
  <2>3. UNCHANGED <<dest, diskDest, acked>>
    BY <1>2 DEF Snapshot, CreateTemp, WriteTemp, SyncTemp, Check, Fail
  <2> QED BY <2>1, <2>2, <2>3
<1>3. ASSUME NEW w \in Writers, Rename(w) PROVE Versions'
  <2>1. /\ dest'.version = dest.version + 1 /\ writer'[w].seen = dest'
        /\ \A v \in Writers \ {w} : writer'[v] = writer[v]
        /\ UNCHANGED <<diskDest, acked>>
    BY <1>0, <1>3 DEF Rename, Shape, Write
  <2> QED BY <1>0, <2>1
<1>4. ASSUME NEW w \in Writers, SyncDir(w) PROVE Versions'
  <2>1. /\ UNCHANGED dest /\ diskDest' = dest
        /\ acked' \in {acked, writer[w].seen.version} /\ writer[w].pc = "sync_dir"
        /\ writer'[w].pc = "idle"
        /\ \A v \in Writers \ {w} : writer'[v] = writer[v]
    BY <1>4 DEF SyncDir, EntryWritten, Shape
  <2> QED BY <1>0, <2>1
<1>5. CASE Interfere
  <2>1. dest'.version = dest.version + 1 /\ UNCHANGED <<diskDest, acked, writer>>
    BY <1>5 DEF Interfere
  <2> QED BY <1>0, <2>1
<1>6. CASE WriteBackEntry
  BY <1>0, <1>6 DEF WriteBackEntry, EntryWritten
<1>7. CASE Crash
  BY <1>0, <1>7 DEF Crash
<1>8. CASE UNCHANGED vars
  BY <1>8 DEF vars
<1> QED
  BY <1>1, <1>2, <1>3, <1>4, <1>5, <1>6, <1>7, <1>8 DEF Next

\* A step that gives no number out again, makes no temporary file and leaves the
\* destination and the other writes alone keeps what a write saw.
LEMMA UnmovedElsewhere ==
  ASSUME IInv, NEW w \in Writers, UNCHANGED reuse,
         reuse \/ free' \subseteq free,
         UNCHANGED dest,
         \A v \in Writers \ {w} : writer'[v] = writer[v],
         HasTemp(w)' => HasTemp(w) /\ writer'[w].tmp = writer[w].tmp,
         writer'[w].pc \in {"idle", "sync_dir"} \/
           (writer[w].pc \notin {"idle", "sync_dir"} /\ writer'[w].seen = writer[w].seen)
  PROVE  Unmoved'
<1> USE DEF IInv, Unmoved
<1> SUFFICES ASSUME ~ reuse, NEW u \in Writers,
                    writer'[u].pc \notin {"idle", "sync_dir"}, writer'[u].seen.file \in Inodes
             PROVE  /\ writer'[u].seen.file \notin free'
                    /\ dest.file = writer'[u].seen.file => dest.version = writer'[u].seen.version
                    /\ \A v \in Writers : HasTemp(v)' => writer'[v].tmp # writer'[u].seen.file
  OBVIOUS
<1>1. writer[u].pc \notin {"idle", "sync_dir"} /\ writer'[u].seen = writer[u].seen
  OBVIOUS
<1>2. \A v \in Writers : HasTemp(v)' => HasTemp(v) /\ writer'[v].tmp = writer[v].tmp
  BY DEF HasTemp
<1> QED BY <1>1, <1>2

\* A write that looks at the destination sees what it is.
LEMMA UnmovedSeen ==
  ASSUME IInv, NEW w \in Writers,
         UNCHANGED <<reuse, free, dest>>,
         \A v \in Writers \ {w} : writer'[v] = writer[v],
         writer'[w].pc \in {"snapshot", "create"}, writer'[w].seen = dest
  PROVE  Unmoved'
<1> USE DEF IInv, Unmoved
<1>1. \A v \in Writers : HasTemp(v)' => HasTemp(v) /\ v # w /\ writer'[v].tmp = writer[v].tmp
  BY DEF HasTemp
<1>2. dest.file \notin free /\ \A v \in Writers : HasTemp(v) => writer[v].tmp # dest.file
  BY DEF Apart
<1> QED BY <1>1, <1>2

\* Every step keeps what a write saw, where numbers are not given out again.
LEMMA UnmovedStep == ASSUME IInv, [Next]_vars PROVE Unmoved'
<1> USE WriteAssumption DEF IInv, At, Goto, fs, Idle
<1>0. \A w \in Writers : writer[w].pc # "idle" => writer[w] \in Write
  BY Busy
<1>1. ASSUME NEW w \in Writers, NEW m \in Manifests \cup Refused, UNCHANGED reuse, Begin(w, m)
      PROVE Unmoved'
  <2>1. /\ UNCHANGED <<free, dest>>
        /\ \A v \in Writers \ {w} : writer'[v] = writer[v]
    BY <1>1 DEF Begin, Shape
  <2>2. CASE m \in Refused
    <3>1. writer'[w].pc = "idle"
      BY <1>1, <2>2 DEF Begin, Shape
    <3> QED BY <1>1, <2>1, <3>1, UnmovedElsewhere DEF HasTemp
  <2>3. CASE m \notin Refused
    <3>1. writer'[w].pc = "snapshot" /\ writer'[w].seen = dest
      BY <1>1, <2>3 DEF Begin, Shape
    <3> QED BY <1>1, <2>1, <3>1, UnmovedSeen
  <2> QED BY <2>2, <2>3
<1>2. ASSUME NEW w \in Writers, UNCHANGED reuse, Snapshot(w) PROVE Unmoved'
  <2>1. /\ UNCHANGED <<free, dest>>
        /\ \A v \in Writers \ {w} : writer'[v] = writer[v]
    BY <1>2 DEF Snapshot, Shape
  <2>2. CASE dest.file = Special
    <3>1. writer'[w].pc = "idle"
      BY <1>2, <2>2 DEF Snapshot, Shape
    <3> QED BY <1>2, <2>1, <3>1, UnmovedElsewhere DEF HasTemp
  <2>3. CASE dest.file # Special
    <3>1. writer'[w].pc = "create" /\ writer'[w].seen = dest
      BY <1>0, <1>2, <2>3 DEF Snapshot, Shape, Write
    <3> QED BY <1>2, <2>1, <3>1, UnmovedSeen
  <2> QED BY <2>2, <2>3
<1>3. ASSUME NEW w \in Writers, UNCHANGED reuse, CreateTemp(w) PROVE Unmoved'
  <2>1. PICK i \in free : /\ free' = free \ {i}
                          /\ writer' = [writer EXCEPT ![w].tmp = i, ![w].pc = "write"]
    BY <1>3 DEF CreateTemp
  <2>2. /\ writer'[w].tmp = i /\ writer'[w].seen = writer[w].seen
        /\ writer[w].pc = "create"
        /\ \A v \in Writers \ {w} : writer'[v] = writer[v]
        /\ UNCHANGED dest
    BY <1>0, <1>3, <2>1 DEF CreateTemp, Shape, Write
  <2>3. \A v \in Writers : HasTemp(v)' => v = w \/ (HasTemp(v) /\ writer'[v].tmp = writer[v].tmp)
    BY <2>2 DEF HasTemp
  <2>4. \A u \in Writers : writer'[u].pc \notin {"idle", "sync_dir"} =>
          writer[u].pc \notin {"idle", "sync_dir"} /\ writer'[u].seen = writer[u].seen
    BY <2>2
  <2> SUFFICES ASSUME ~ reuse, NEW u \in Writers,
                      writer'[u].pc \notin {"idle", "sync_dir"}, writer'[u].seen.file \in Inodes
               PROVE  /\ writer'[u].seen.file \notin free'
                      /\ dest.file = writer'[u].seen.file => dest.version = writer'[u].seen.version
                      /\ \A v \in Writers : HasTemp(v)' => writer'[v].tmp # writer'[u].seen.file
    BY <1>3, <2>2 DEF Unmoved
  <2>5. /\ writer[u].seen.file \notin free
        /\ dest.file = writer[u].seen.file => dest.version = writer[u].seen.version
        /\ \A v \in Writers : HasTemp(v) => writer[v].tmp # writer[u].seen.file
    BY <1>3, <2>4 DEF Unmoved
  <2>6. writer'[u].seen = writer[u].seen
    BY <2>4
  <2>7. free' = free \ {i} /\ writer'[u].seen.file \notin free
    BY <2>1, <2>5, <2>6
  <2>8. dest.file = writer'[u].seen.file => dest.version = writer'[u].seen.version
    BY <2>5, <2>6
  <2>9. ASSUME NEW v \in Writers, HasTemp(v)' PROVE writer'[v].tmp # writer'[u].seen.file
    <3>1. CASE v = w
      BY <2>1, <2>2, <2>7, <3>1
    <3>2. CASE HasTemp(v) /\ writer'[v].tmp = writer[v].tmp
      BY <2>5, <2>6, <3>2
    <3> QED BY <2>3, <2>9, <3>1, <3>2
  <2> QED BY <2>7, <2>8, <2>9
<1>4. ASSUME NEW w \in Writers, UNCHANGED reuse, WriteTemp(w) \/ SyncTemp(w) \/ Check(w)
      PROVE Unmoved'
  <2>1. /\ UNCHANGED <<free, dest>>
        /\ \A v \in Writers \ {w} : writer'[v] = writer[v]
        /\ writer'[w].tmp = writer[w].tmp /\ writer'[w].seen = writer[w].seen
        /\ HasTemp(w)
    BY <1>0, <1>4 DEF WriteTemp, SyncTemp, Check, HasTemp, Shape, Write
  <2> QED BY <1>4, <2>1, UnmovedElsewhere DEF HasTemp
<1>5. ASSUME NEW w \in Writers, UNCHANGED reuse, Rename(w) PROVE Unmoved'
  <2>1. /\ dest'.file = writer[w].tmp /\ HasTemp(w) /\ writer'[w].pc = "sync_dir"
        /\ \A v \in Writers \ {w} : writer'[v] = writer[v]
        /\ reuse \/ free' = free
    BY <1>0, <1>5 DEF Rename, Released, HasTemp, Shape, Write
  <2>2. \A v \in Writers : HasTemp(v)' => HasTemp(v) /\ writer'[v].tmp = writer[v].tmp
    BY <2>1 DEF HasTemp
  <2>3. \A u \in Writers : writer'[u].pc \notin {"idle", "sync_dir"} =>
          writer[u].pc \notin {"idle", "sync_dir"} /\ writer'[u] = writer[u]
    BY <2>1
  <2> QED BY <1>5, <2>1, <2>2, <2>3 DEF Unmoved
<1>6. ASSUME NEW w \in Writers, UNCHANGED reuse, SyncDir(w) \/ Fail(w) PROVE Unmoved'
  <2>1. /\ UNCHANGED dest /\ writer'[w].pc = "idle"
        /\ \A v \in Writers \ {w} : writer'[v] = writer[v]
        /\ reuse \/ free' = free
    BY <1>6 DEF SyncDir, Fail, EntryWritten, Released, Shape
  <2> QED BY <1>6, <2>1, UnmovedElsewhere DEF HasTemp
<1>7. CASE UNCHANGED reuse /\ Interfere
  <2>1. /\ dest'.file \notin Inodes /\ UNCHANGED writer
        /\ reuse \/ free' = free
    BY <1>7 DEF Interfere, Released
  <2> QED BY <1>7, <2>1 DEF Unmoved, HasTemp
<1>8. CASE UNCHANGED reuse /\ WriteBackEntry
  <2>1. UNCHANGED <<dest, writer>> /\ (reuse \/ free' = free)
    BY <1>8 DEF WriteBackEntry, EntryWritten, Released
  <2> QED BY <1>8, <2>1 DEF Unmoved, HasTemp
<1>9. CASE UNCHANGED reuse /\ Crash
  BY <1>9 DEF Crash, Unmoved
<1>10. CASE UNCHANGED vars
  BY <1>10 DEF vars, Unmoved, HasTemp
<1> QED
  BY <1>1, <1>2, <1>3, <1>4, <1>5, <1>6, <1>7, <1>8, <1>9, <1>10 DEF Next

\* The invariant holds throughout every run.
LEMMA Inductive == Spec => []IInv
<1>1. IInv /\ [Next]_vars => IInv'
  BY ShapeStep, ApartStep, WroteStep, WholeStep, VersionsStep, UnmovedStep DEF IInv
<1> QED BY <1>1, InitIInv, PTL DEF Spec

\* Entries and temporary files name distinct files that are in use, for every set
\* of writers and inodes.
THEOREM TypeCorrect == Spec => []TypeOK
<1>1. IInv => TypeOK
  BY DEF IInv, Shape, Apart, HasTemp, TypeOK, Entries, Contents
<1> QED BY <1>1, Inductive, PTL

\* No reader finds a torn manifest at the destination, now or after a crash, for
\* any number of writers, crashes and interferences (write_manifest_file).
THEOREM DestinationIsWhole == Spec => []DestinationWhole
<1>1. IInv => DestinationWhole
  BY DEF IInv
<1> QED BY <1>1, Inductive, PTL

\* No crash takes back a write that returned Ok (persist_manifest_temporary).
THEOREM AcknowledgedSurvives == Spec => []AckedSurvives
<1>1. IInv => AckedSurvives
  BY DEF IInv, Shape, Versions, AckedSurvives, Entries
<1> QED BY <1>1, Inductive, PTL

\* Where inode numbers are not given out again, a write that goes on to its
\* rename has looked at the file it saw at its snapshot, and nobody has replaced
\* it since (persist_manifest_temporary).
THEOREM CheckFindsChanges == Spec => CheckedUnchanged
<1>1. ASSUME IInv, [Next]_vars
      PROVE  [\A w \in Writers :
                /\ ~ reuse
                /\ At(w, "check") /\ writer'[w].pc = "rename" /\ writer[w].seen.file \in Inodes
                => dest.version = writer[w].seen.version]_vars
  <2> SUFFICES ASSUME NEW w \in Writers, ~ reuse, At(w, "check"), writer'[w].pc = "rename",
                      writer[w].seen.file \in Inodes, Next
               PROVE  dest.version = writer[w].seen.version
    BY <1>1
  <2>1. dest.file = writer[w].seen.file
    <3>1. ASSUME NEW v \in Writers, v # w,
                 \/ \E m \in Manifests \cup Refused : Begin(v, m)
                 \/ Snapshot(v) \/ CreateTemp(v) \/ WriteTemp(v) \/ SyncTemp(v)
                 \/ Check(v) \/ Rename(v) \/ SyncDir(v) \/ Fail(v)
          PROVE  FALSE
      BY <1>1, <3>1 DEF IInv, Shape, Goto, At,
         Begin, Snapshot, CreateTemp, WriteTemp, SyncTemp, Check, Rename, SyncDir, Fail
    <3>2. ~ (\E m \in Manifests \cup Refused : Begin(w, m))
      BY DEF Begin, At
    <3>3. ~ (Snapshot(w) \/ CreateTemp(w) \/ WriteTemp(w) \/ SyncTemp(w) \/ Rename(w) \/ SyncDir(w))
      BY DEF Snapshot, CreateTemp, WriteTemp, SyncTemp, Rename, SyncDir, At
    <3>4. ~ (Fail(w) \/ Interfere \/ WriteBackEntry \/ Crash)
      BY <1>1 DEF Fail, Interfere, WriteBackEntry, Crash, At, Idle, IInv, Shape
    <3> QED BY <3>1, <3>2, <3>3, <3>4 DEF Next, Check
  <2> QED BY <1>1, <2>1 DEF IInv, Unmoved, At
<1> QED BY <1>1, Inductive, PTL DEF Spec, CheckedUnchanged

-----------------------------------------------------------------------------
(* Index files.                                                            *)

\* A function on 1 .. k is a sequence of k elements.
LEMMA LenOfFunction ==
  ASSUME NEW k \in Nat, NEW f, f = [x \in 1 .. k |-> f[x]]
  PROVE  Len(f) = k
<1> DEFINE S == {f[x] : x \in 1 .. k}
<1>1. f \in [1 .. k -> S]
  OBVIOUS
<1>2. f \in Seq(S)
  BY <1>1
<1>3. DOMAIN f = 1 .. k /\ DOMAIN f = 1 .. Len(f) /\ Len(f) \in Nat
  BY <1>1, <1>2, LenProperties
<1> QED BY <1>3

\* More rows take more cells.
LEMMA Monotone ==
  ASSUME NEW i \in Nat, NEW j \in Nat, NEW w \in Nat, i <= j
  PROVE  i * w <= j * w
<1>1. PICK e \in Nat : j = i + e
  BY j - i \in Nat
<1>2. j * w = i * w + e * w /\ e * w \in Nat
  BY <1>1
<1> QED BY <1>2

\* Quotient and remainder.
LEMMA Divided ==
  ASSUME NEW x \in Nat, NEW w \in Nat \ {0}
  PROVE  x \div w \in Nat /\ x % w \in 0 .. w - 1 /\ x = (x \div w) * w + (x % w)
OBVIOUS

\* A cell has one row of width w and one place in it.
LEMMA OneCell ==
  ASSUME NEW w \in Nat, NEW b \in Nat, NEW c \in Nat,
         NEW x \in 0 .. w - 1, NEW y \in 0 .. w - 1, b * w + x = c * w + y
  PROVE  b = c /\ x = y
<1>1. ~ b < c
  <2> SUFFICES ASSUME b < c PROVE FALSE
    OBVIOUS
  <2>1. (b + 1) * w <= c * w /\ (b + 1) * w = b * w + w
    BY Monotone, b + 1 \in Nat, b + 1 <= c
  <2>2. b * w \in Nat /\ c * w \in Nat
    OBVIOUS
  <2> QED BY <2>1, <2>2
<1>2. ~ c < b
  <2> SUFFICES ASSUME c < b PROVE FALSE
    OBVIOUS
  <2>1. (c + 1) * w <= b * w /\ (c + 1) * w = c * w + w
    BY Monotone, c + 1 \in Nat, c + 1 <= b
  <2>2. b * w \in Nat /\ c * w \in Nat
    OBVIOUS
  <2> QED BY <2>1, <2>2
<1>3. b = c
  BY <1>1, <1>2
<1>4. b * w \in Nat
  OBVIOUS
<1> QED BY <1>3, <1>4

\* A cell of row b is within n rows when b is one of them.
LEMMA CellWithin ==
  ASSUME NEW w \in Nat, NEW n \in Nat, NEW b \in 0 .. n - 1, NEW x \in 0 .. w - 1
  PROVE  b * w + x \in 0 .. n * w - 1
<1>1. (b + 1) * w <= n * w /\ (b + 1) * w = b * w + w
  BY Monotone, b + 1 \in Nat, b + 1 <= n
<1>2. b * w \in Nat /\ n * w \in Nat
  OBVIOUS
<1> QED BY <1>1, <1>2

\* What the parameters are.
LEMMA Sizes ==
  ASSUME Parameters
  PROVE  /\ Dim \in Nat \ {0} /\ Buckets \in Nat \ {0} /\ Lanes \in Nat \ {0}
         /\ NTop \in Nat /\ MaxRows \in Nat
         /\ Coords = 1 .. Dim /\ IsFiniteSet(Coords) /\ Cardinality(Coords) = Dim
<1>1. Dim \in Nat \ {0} /\ Buckets \in Nat \ {0} /\ Lanes \in Nat \ {0}
      /\ NTop \in Nat /\ MaxRows \in Nat
  BY DEF Parameters
<1> QED BY <1>1, FS_Interval DEF Coords

\* The room a block format has: whole blocks, and for every row.
LEMMA SlotsFit ==
  ASSUME Parameters, NEW f, NEW n \in Nat
  PROVE  /\ Slots(f, n) \in Nat /\ n <= Slots(f, n)
         /\ f = "RankQuantFastscan" =>
              \E blocks \in Nat : Slots(f, n) = blocks * Lanes
<1> DEFINE x == n + Lanes - 1
           q == x \div Lanes
           r == x % Lanes
           p == q * Lanes
<1>1. Lanes \in Nat \ {0}
  BY Sizes
<1>2. x \in Nat
  BY <1>1
<1> HIDE DEF x
<1>3. q \in Nat /\ r \in 0 .. Lanes - 1 /\ x = q * Lanes + r
  BY <1>1, <1>2, Divided
<1>4. p \in Nat /\ x = p + r
  <2> HIDE DEF q, r
  <2> QED BY <1>1, <1>3
<1>5. n <= p
  <2> HIDE DEF p, r
  <2> QED BY <1>1, <1>3, <1>4 DEF x
<1>6. CASE f = "RankQuantFastscan"
  <2>1. Slots(f, n) = p
    BY <1>6 DEF Slots, x
  <2> QED BY <1>3, <1>4, <1>5, <2>1
<1>7. CASE f # "RankQuantFastscan"
  BY <1>7 DEF Slots
<1> QED BY <1>6, <1>7

\* Where a coordinate is: its number in the order of the file, from 0.
LEMMA PlaceNumber ==
  ASSUME Parameters, NEW f, NEW i \in Nat \ {0}, NEW c \in Coords
  PROVE  /\ f # "RankQuantFastscan" => Place(f, i, c) = 2 + ((i - 1) * Dim + (c - 1))
         /\ f = "RankQuantFastscan" =>
              Place(f, i, c) =
                2 + ((((i - 1) \div Lanes) * Dim + (c - 1)) * Lanes + ((i - 1) % Lanes))
<1>1. Dim \in Nat \ {0} /\ Lanes \in Nat \ {0} /\ c \in 1 .. Dim /\ i - 1 \in Nat
  BY Sizes
<1>2. CASE f = "RankQuantFastscan"
  <2> DEFINE b == (i - 1) \div Lanes
             l == (i - 1) % Lanes
  <2>1. b \in Nat /\ l \in Nat
    <3>1. (i - 1) \div Lanes \in Nat /\ (i - 1) % Lanes \in 0 .. Lanes - 1
      BY <1>1, Divided
    <3> QED BY <1>1, <3>1
  <2>2. Place(f, i, c) = 1 + b * Lanes * Dim + (c - 1) * Lanes + l + 1
    BY <1>2 DEF Place
  <2> HIDE DEF b, l
  <2>3. (b * Dim + (c - 1)) * Lanes = b * Lanes * Dim + (c - 1) * Lanes
    BY <1>1, <2>1
  <2>4. b * Lanes * Dim \in Nat /\ (c - 1) * Lanes \in Nat
    BY <1>1, <2>1
  <2>5. Place(f, i, c) = 2 + ((b * Dim + (c - 1)) * Lanes + l)
    BY <2>1, <2>2, <2>3, <2>4
  <2> QED BY <1>2, <2>5 DEF b, l
<1>3. CASE f # "RankQuantFastscan"
  <2>1. Place(f, i, c) = 1 + (i - 1) * Dim + c
    BY <1>3 DEF Place
  <2>2. (i - 1) * Dim \in Nat
    BY <1>1
  <2> QED BY <1>1, <1>3, <2>1, <2>2
<1> QED BY <1>2, <1>3

\* Every coordinate of every row the payload has room for is within it, and no two
\* share a cell.
LEMMA PlacesApart ==
  ASSUME Parameters, NEW f, NEW n \in Nat
  PROVE  /\ PayloadLen(f, n) \in Nat
         /\ \A i \in 1 .. Slots(f, n), c \in Coords :
              Place(f, i, c) \in 2 .. 1 + PayloadLen(f, n)
         /\ \A i, k \in 1 .. Slots(f, n), c, d \in Coords :
              Place(f, i, c) = Place(f, k, d) => i = k /\ c = d
<1> DEFINE s == Slots(f, n)
<1>1. Dim \in Nat \ {0} /\ Lanes \in Nat \ {0} /\ s \in Nat /\ Coords = 1 .. Dim
  BY Sizes, SlotsFit
<1>2. PayloadLen(f, n) = s * Dim /\ s * Dim \in Nat
  BY <1>1 DEF PayloadLen
<1> HIDE DEF s
<1>3. CASE f # "RankQuantFastscan"
  <2>1. ASSUME NEW i \in 1 .. s, NEW c \in Coords
        PROVE  /\ i - 1 \in 0 .. s - 1 /\ c - 1 \in 0 .. Dim - 1
               /\ Place(f, i, c) = 2 + ((i - 1) * Dim + (c - 1))
    BY <1>1, <1>3, PlaceNumber
  <2>2. ASSUME NEW i \in 1 .. s, NEW c \in Coords
        PROVE  (i - 1) * Dim + (c - 1) \in 0 .. s * Dim - 1
    BY <1>1, <2>1, CellWithin
  <2>3. ASSUME NEW i \in 1 .. s, NEW c \in Coords
        PROVE  Place(f, i, c) \in 2 .. 1 + s * Dim
    BY <1>2, <2>1, <2>2
  <2>4. ASSUME NEW i \in 1 .. s, NEW k \in 1 .. s, NEW c \in Coords, NEW d \in Coords,
               Place(f, i, c) = Place(f, k, d)
        PROVE  i = k /\ c = d
    <3>1. (i - 1) * Dim + (c - 1) = (k - 1) * Dim + (d - 1)
      BY <1>2, <2>1, <2>2, <2>4
    <3>2. Dim \in Nat /\ i - 1 \in Nat /\ k - 1 \in Nat
      BY <1>1
    <3>3. c - 1 \in 0 .. Dim - 1 /\ d - 1 \in 0 .. Dim - 1
      BY <2>1
    <3>4. i - 1 = k - 1 /\ c - 1 = d - 1
      <4>1. PICK w, p, x, q, y : w = Dim /\ p = i - 1 /\ x = c - 1 /\ q = k - 1 /\ y = d - 1
        OBVIOUS
      <4>2. /\ w \in Nat /\ p \in Nat /\ q \in Nat
            /\ x \in 0 .. w - 1 /\ y \in 0 .. w - 1 /\ p * w + x = q * w + y
        BY <3>1, <3>2, <3>3, <4>1
      <4>3. p = q /\ x = y
        BY <4>2, OneCell
      <4> QED BY <4>1, <4>3
    <3> QED BY <1>1, <3>4
  <2> QED BY <1>2, <2>3, <2>4 DEF s
<1>4. CASE f = "RankQuantFastscan"
  <2> DEFINE b(i) == (i - 1) \div Lanes
             l(i) == (i - 1) % Lanes
             m(i, c) == b(i) * Dim + (c - 1)
  <2>1. PICK blocks \in Nat : s = blocks * Lanes
    BY <1>4, SlotsFit DEF s
  <2>2. ASSUME NEW i \in 1 .. s
        PROVE  /\ i - 1 \in 0 .. s - 1 /\ b(i) \in Nat /\ l(i) \in 0 .. Lanes - 1
               /\ i - 1 = b(i) * Lanes + l(i) /\ b(i) \in 0 .. blocks - 1
    <3>1. i - 1 \in 0 .. s - 1 /\ i - 1 \in Nat
      BY <1>1
    <3>2. b(i) \in Nat /\ l(i) \in 0 .. Lanes - 1 /\ i - 1 = b(i) * Lanes + l(i)
      BY <1>1, <3>1, Divided
    <3> HIDE DEF b, l
    <3>3. ~ blocks <= b(i)
      <4> SUFFICES ASSUME blocks <= b(i) PROVE FALSE
        OBVIOUS
      <4>1. Lanes \in Nat /\ b(i) \in Nat
        BY <1>1, <3>2
      <4>2. blocks * Lanes <= b(i) * Lanes
        BY <4>1, Monotone, ZenonT(30)
      <4>3. blocks * Lanes \in Nat /\ b(i) * Lanes \in Nat
        BY <4>1
      <4> QED BY <1>1, <2>1, <3>1, <3>2, <4>2, <4>3
    <3> QED BY <3>1, <3>2, <3>3
  <2>3. ASSUME NEW i \in 1 .. s, NEW c \in Coords
        PROVE  /\ c - 1 \in 0 .. Dim - 1 /\ m(i, c) \in 0 .. blocks * Dim - 1
               /\ Place(f, i, c) = 2 + (m(i, c) * Lanes + l(i))
               /\ m(i, c) * Lanes + l(i) \in 0 .. (blocks * Dim) * Lanes - 1
    <3>1. c - 1 \in 0 .. Dim - 1
      BY <1>1
    <3>2. m(i, c) \in 0 .. blocks * Dim - 1
      <4> HIDE DEF b
      <4> QED BY <1>1, <2>2, <3>1, CellWithin
    <3>3. Place(f, i, c) = 2 + (m(i, c) * Lanes + l(i))
      BY <1>1, <1>4, PlaceNumber
    <3>4. blocks * Dim \in Nat
      BY <1>1
    <3>5. m(i, c) * Lanes + l(i) \in 0 .. (blocks * Dim) * Lanes - 1
      <4> HIDE DEF m, l
      <4> QED BY <1>1, <2>2, <3>2, <3>4, CellWithin
    <3> QED BY <3>1, <3>2, <3>3, <3>5
  <2>4. (blocks * Dim) * Lanes = s * Dim
    BY <1>1, <2>1
  <2> HIDE DEF m, b, l
  <2>5. ASSUME NEW i \in 1 .. s, NEW c \in Coords
        PROVE  Place(f, i, c) \in 2 .. 1 + s * Dim
    BY <1>2, <2>3, <2>4
  <2>6. ASSUME NEW i \in 1 .. s, NEW k \in 1 .. s, NEW c \in Coords, NEW d \in Coords,
               Place(f, i, c) = Place(f, k, d)
        PROVE  i = k /\ c = d
    <3>1. /\ m(i, c) \in Nat /\ m(k, d) \in Nat
          /\ m(i, c) * Lanes + l(i) = m(k, d) * Lanes + l(k)
      <4>1. /\ m(i, c) * Lanes + l(i) \in Nat /\ m(k, d) * Lanes + l(k) \in Nat
            /\ 2 + (m(i, c) * Lanes + l(i)) = 2 + (m(k, d) * Lanes + l(k))
        BY <2>3, <2>6
      <4> QED BY <2>3, <4>1
    <3>2. /\ Lanes \in Nat /\ Dim \in Nat /\ b(i) \in Nat /\ b(k) \in Nat
          /\ l(i) \in 0 .. Lanes - 1 /\ l(k) \in 0 .. Lanes - 1
          /\ c - 1 \in 0 .. Dim - 1 /\ d - 1 \in 0 .. Dim - 1
      BY <1>1, <2>2, <2>3
    <3>3. m(i, c) = m(k, d) /\ l(i) = l(k)
      <4>1. PICK w, p, x, q, y : w = Lanes /\ p = m(i, c) /\ x = l(i) /\ q = m(k, d) /\ y = l(k)
        OBVIOUS
      <4>2. /\ w \in Nat /\ p \in Nat /\ q \in Nat
            /\ x \in 0 .. w - 1 /\ y \in 0 .. w - 1 /\ p * w + x = q * w + y
        BY <3>1, <3>2, <4>1
      <4>3. p = q /\ x = y
        BY <4>2, OneCell
      <4> QED BY <4>1, <4>3
    <3>4. b(i) * Dim + (c - 1) = b(k) * Dim + (d - 1)
      BY <3>3 DEF m
    <3>5. b(i) = b(k) /\ c - 1 = d - 1
      <4>1. PICK w, p, x, q, y : w = Dim /\ p = b(i) /\ x = c - 1 /\ q = b(k) /\ y = d - 1
        OBVIOUS
      <4>2. /\ w \in Nat /\ p \in Nat /\ q \in Nat
            /\ x \in 0 .. w - 1 /\ y \in 0 .. w - 1 /\ p * w + x = q * w + y
        BY <3>2, <3>4, <4>1
      <4>3. p = q /\ x = y
        BY <4>2, OneCell
      <4> QED BY <4>1, <4>3
    <3>6. i - 1 = k - 1
      BY <2>2, <3>3, <3>5
    <3> QED BY <1>1, <3>5, <3>6
  <2> QED BY <1>2, <2>5, <2>6 DEF s
<1> QED BY <1>3, <1>4

-----------------------------------------------------------------------------
(* The bytes of an index and the rows in them.                             *)

Rows == Seq([Coords -> Nat])

\* What a save emits: its header, each coordinate at its place, and padding.
LEMMA ImageIs ==
  ASSUME Parameters, NEW f, NEW rows \in Rows
  PROVE  /\ Len(rows) \in Nat /\ Image(f, rows) \in Seq(Nat)
         /\ Len(Image(f, rows)) = 1 + PayloadLen(f, Len(rows))
         /\ Image(f, rows)[1] = Header(Len(rows))
         /\ \A i \in 1 .. Len(rows), c \in Coords :
              Image(f, rows)[Place(f, i, c)] = rows[i][c]
         /\ \A i \in Len(rows) + 1 .. Slots(f, Len(rows)), c \in Coords :
              Image(f, rows)[Place(f, i, c)] = 0
<1> DEFINE n == Len(rows)
           size == 1 + PayloadLen(f, n)
           Fits(ic, p) == Place(f, ic[1], ic[2]) = p
           Cell(p) == IF \E i \in 1 .. n, c \in Coords : Place(f, i, c) = p
                      THEN LET ic == CHOOSE ic \in (1 .. n) \X Coords : Fits(ic, p)
                           IN  rows[ic[1]][ic[2]]
                      ELSE 0
           image == [p \in 1 .. size |-> IF p = 1 THEN Header(n) ELSE Cell(p)]
<1>1. n \in Nat /\ DOMAIN rows = 1 .. n /\ \A i \in 1 .. n : rows[i] \in [Coords -> Nat]
  BY LenProperties, ElementOfSeq DEF Rows
<1>2. Image(f, rows) = image
  BY DEF Image
<1> HIDE DEF n
<1>3. /\ PayloadLen(f, n) \in Nat /\ Slots(f, n) \in Nat /\ n <= Slots(f, n)
      /\ \A i \in 1 .. Slots(f, n), c \in Coords :
           Place(f, i, c) \in 2 .. 1 + PayloadLen(f, n)
      /\ \A i, k \in 1 .. Slots(f, n), c, d \in Coords :
           Place(f, i, c) = Place(f, k, d) => i = k /\ c = d
  BY <1>1, PlacesApart, SlotsFit
<1>4. ASSUME NEW i \in 1 .. n, NEW c \in Coords PROVE Cell(Place(f, i, c)) = rows[i][c]
  <2>1. PICK p : p = Place(f, i, c)
    OBVIOUS
  <2>2. PICK at : at = CHOOSE ic \in (1 .. n) \X Coords : Fits(ic, p)
    OBVIOUS
  <2>3. at \in (1 .. n) \X Coords /\ Fits(at, p)
    <3>1. <<i, c>> \in (1 .. n) \X Coords /\ Fits(<<i, c>>, p)
      BY <2>1
    <3> HIDE DEF Fits
    <3> QED BY <2>2, <3>1
  <2>4. at[1] = i /\ at[2] = c
    <3>1. at[1] \in 1 .. n /\ at[2] \in Coords
          /\ Place(f, at[1], at[2]) = Place(f, i, c)
      BY <2>1, <2>3
    <3>2. \A k \in 1 .. n : k \in 1 .. Slots(f, n)
      BY <1>1, <1>3
    <3> QED BY <1>3, <3>1, <3>2
  <2>5. \E k \in 1 .. n, d \in Coords : Place(f, k, d) = p
    BY <2>1
  <2>6. Cell(p) = rows[at[1]][at[2]]
    BY <2>2, <2>5
  <2> QED BY <2>1, <2>4, <2>6
<1>5. ASSUME NEW i \in n + 1 .. Slots(f, n), NEW c \in Coords
      PROVE Cell(Place(f, i, c)) = 0
  <2>1. ASSUME NEW k \in 1 .. n, NEW d \in Coords, Place(f, k, d) = Place(f, i, c)
        PROVE  FALSE
    <3>1. k \in 1 .. Slots(f, n) /\ i \in 1 .. Slots(f, n) /\ k # i
      BY <1>1, <1>3
    <3> QED BY <1>3, <2>1, <3>1
  <2>2. ~ \E k \in 1 .. n, d \in Coords : Place(f, k, d) = Place(f, i, c)
    BY <2>1
  <2> QED BY <2>2
<1>6. ASSUME NEW p PROVE Cell(p) \in Nat
  <2>1. CASE \E i \in 1 .. n, c \in Coords : Place(f, i, c) = p
    <3>1. PICK i \in 1 .. n, c \in Coords : Place(f, i, c) = p
      BY <2>1
    <3>2. Cell(p) = rows[i][c]
      BY <1>4, <3>1
    <3> HIDE DEF Cell
    <3> QED BY <1>1, <3>2
  <2>2. CASE ~ \E i \in 1 .. n, c \in Coords : Place(f, i, c) = p
    BY <2>2
  <2> QED BY <2>1, <2>2
<1> HIDE DEF Cell
<1>7. Header(n) \in Nat /\ size \in Nat /\ 1 \in 1 .. size
  BY <1>1, <1>3 DEF Header, Magic
<1> HIDE DEF size
<1>8. image \in Seq(Nat) /\ Len(image) = size
  <2>1. image \in [1 .. size -> Nat]
    BY <1>6, <1>7
  <2>2. image = [p \in 1 .. size |-> image[p]]
    OBVIOUS
  <2> HIDE DEF image
  <2> QED BY <1>7, <2>1, <2>2, LenOfFunction
<1>9. image[1] = Header(n)
  BY <1>7
<1>10. \A i \in 1 .. Slots(f, n), c \in Coords :
         image[Place(f, i, c)] = Cell(Place(f, i, c))
  <2> SUFFICES ASSUME NEW i \in 1 .. Slots(f, n), NEW c \in Coords
               PROVE  image[Place(f, i, c)] = Cell(Place(f, i, c))
    OBVIOUS
  <2>1. Place(f, i, c) \in 1 .. size /\ Place(f, i, c) # 1
    BY <1>3 DEF size
  <2> QED BY <2>1
<1> HIDE DEF image
<1>11. \A i \in 1 .. n, c \in Coords : image[Place(f, i, c)] = rows[i][c]
  <2>1. \A k \in 1 .. n : k \in 1 .. Slots(f, n)
    BY <1>1, <1>3
  <2> QED BY <1>4, <1>10, <2>1
<1>12. \A i \in n + 1 .. Slots(f, n), c \in Coords : image[Place(f, i, c)] = 0
  <2>1. \A k \in n + 1 .. Slots(f, n) : k \in 1 .. Slots(f, n)
    BY <1>1, <1>3
  <2> QED BY <1>5, <1>10, <2>1
<1> QED BY <1>1, <1>2, <1>8, <1>9, <1>11, <1>12 DEF n, size

\* A row of a checked format from which values were lost is noticed.
LEMMA LossIsNoticed ==
  ASSUME Parameters, NEW f \in AllFormats \ {"SignBitmap"},
         NEW row \in [Coords -> Nat], NEW seen \in [Coords -> Nat],
         \A c \in Coords : seen[c] \in {0, row[c]},
         RowInvariant(f, row), RowInvariant(f, seen),
         f = "Bitmap" => \A c \in Coords : row[c] \in {0, 1}
  PROVE  seen = row
<1>1. IsFiniteSet(Coords) /\ Cardinality(Coords) = Dim
      /\ Dim \in Nat \ {0} /\ Buckets \in Nat \ {0}
  BY Sizes
<1>2. SUFFICES \A c \in Coords : seen[c] = row[c]
  OBVIOUS
<1> DEFINE With(r, v) == {c \in Coords : r[c] = v}
<1>3. ASSUME NEW r, NEW v
      PROVE  /\ Occurs(r, v) = Cardinality(With(r, v)) /\ IsFiniteSet(With(r, v))
             /\ Cardinality(With(r, v)) \in Nat
  <2>1. With(r, v) \in SUBSET Coords
    OBVIOUS
  <2>2. Occurs(r, v) = Cardinality(With(r, v))
    BY DEF Occurs
  <2> HIDE DEF With
  <2> QED BY <1>1, <2>1, <2>2, FS_Subset, FS_CardinalityType
<1>4. CASE f = "Rank"
  <2>1. Permutation(row) /\ Permutation(seen)
    BY <1>4 DEF RowInvariant
  <2> DEFINE T == 0 .. Dim - 1
  <2>2. Cardinality(T) = Dim
    BY <1>1, FS_Interval
  <2>3. row \in Surjection(Coords, T)
    BY <2>1 DEF Permutation, Surjection
  <2> HIDE DEF T
  <2>4. row \in Injection(Coords, T)
    BY <1>1, <2>2, <2>3, FS_SurjSameCardinalityImpliesInj
  <2>5. \A c, d \in Coords : row[c] = row[d] => c = d
    BY <2>4 DEF Injection, IsInjective
  <2>6. ASSUME NEW c \in Coords, seen[c] # row[c] PROVE FALSE
    <3>1. seen[c] = 0 /\ row[c] # 0
      BY <2>6
    <3>2. row[c] \in T
      BY <2>1 DEF Permutation, T
    <3>3. PICK d \in Coords : seen[d] = row[c]
      BY <2>1, <3>2 DEF Permutation, T
    <3>4. seen[d] = row[d]
      BY <3>1, <3>3
    <3>5. c = d
      BY <2>5, <3>3, <3>4
    <3> QED BY <3>1, <3>3, <3>5
  <2> QED BY <2>6
<1>5. CASE f \in {"RankQuant", "RankQuantFastscan"}
  <2>1. ConstantComposition(row) /\ ConstantComposition(seen)
    BY <1>5 DEF RowInvariant
  <2>2. Occurs(row, 0) * Buckets = Dim /\ Occurs(seen, 0) * Buckets = Dim
    BY <1>1, <2>1, 0 \in 0 .. Buckets - 1 DEF ConstantComposition
  <2>3. Occurs(row, 0) = Occurs(seen, 0)
    <3>1. PICK a \in Nat, b \in Nat : a = Occurs(row, 0) /\ b = Occurs(seen, 0)
      BY <1>3
    <3>2. a * Buckets + 0 = b * Buckets + 0 /\ 0 \in 0 .. Buckets - 1
      BY <1>1, <2>2, <3>1
    <3>3. a = b
      BY <1>1, <3>2, OneCell
    <3> QED BY <3>1, <3>3
  <2>4. With(row, 0) \subseteq With(seen, 0)
    OBVIOUS
  <2>5. With(row, 0) = With(seen, 0)
    <3>1. PICK A, B : A = With(row, 0) /\ B = With(seen, 0)
      OBVIOUS
    <3>2. A \in SUBSET B /\ IsFiniteSet(B) /\ Cardinality(B) = Cardinality(A)
      BY <1>3, <2>3, <2>4, <3>1
    <3>3. A = B
      BY <3>2, FS_Subset
    <3> QED BY <3>1, <3>3
  <2>6. ASSUME NEW c \in Coords PROVE seen[c] = row[c]
    <3>1. c \in With(row, 0) <=> c \in With(seen, 0)
      BY <2>5
    <3>2. row[c] = 0 <=> seen[c] = 0
      BY <3>1
    <3> QED BY <3>2
  <2> QED BY <2>6
<1>6. CASE f = "Bitmap"
  <2>1. Occurs(row, 1) = Occurs(seen, 1)
    BY <1>6 DEF RowInvariant, ConstantWeight
  <2>2. With(seen, 1) \subseteq With(row, 1)
    OBVIOUS
  <2>3. With(seen, 1) = With(row, 1)
    <3>1. PICK A, B : A = With(seen, 1) /\ B = With(row, 1)
      OBVIOUS
    <3>2. A \in SUBSET B /\ IsFiniteSet(B) /\ Cardinality(B) = Cardinality(A)
      BY <1>3, <2>1, <2>2, <3>1
    <3>3. A = B
      BY <3>2, FS_Subset
    <3> QED BY <3>1, <3>3
  <2>4. ASSUME NEW c \in Coords PROVE seen[c] = row[c]
    <3>1. c \in With(row, 1) <=> c \in With(seen, 1)
      BY <2>3
    <3>2. row[c] = 1 <=> seen[c] = 1
      BY <3>1
    <3> QED BY <1>6, <3>2
  <2> QED BY <2>4
<1> QED BY <1>4, <1>5, <1>6 DEF AllFormats

-----------------------------------------------------------------------------
(* What a file can hold after a save, and what a load makes of it.         *)

Accepted(f) == {rows \in Holdings[f] : Len(rows) <= MaxRows}

\* Some cells of an image were lost, or its end was.
Lossy(cells, image) ==
  /\ Len(cells) <= Len(image)
  /\ \A p \in 1 .. Len(cells) : cells[p] \in {0, image[p]}

\* Not all of an image was written yet.
Begun(cells, image) ==
  /\ Len(cells) < Len(image)
  /\ \A p \in 1 .. Len(cells) : cells[p] = image[p]

\* A file and the history that goes with it.
Told(f, cells, history) ==
  /\ history = [rows |-> history.rows, fate |-> history.fate]
  /\ history.fate \in {"none", "saving", "partial", "saved", "lost", "mixed"}
  /\ cells \in Seq(Int)
  /\ history.fate = "none" => cells = Absent
  /\ history.fate # "none" => cells \in Seq(Nat) /\ history.rows \in Accepted(f)
  /\ history.fate \in {"saving", "partial"} => Begun(cells, Image(f, history.rows))
  /\ history.fate = "saved" => cells = Image(f, history.rows)
  /\ history.fate = "lost" => Lossy(cells, Image(f, history.rows))

\* The header of a file, which declares its length.
Declares(f, cells, n) ==
  /\ cells # <<>> /\ n = cells[1] - Magic /\ n \in 0 .. MaxRows
  /\ PayloadLen(f, n) = Len(cells) - 1

\* What an accepted save was given.
LEMMA AcceptedRows ==
  ASSUME Parameters, NEW f \in Formats, NEW rows \in Accepted(f)
  PROVE  /\ rows \in Rows /\ Len(rows) \in 0 .. MaxRows /\ DOMAIN rows = 1 .. Len(rows)
         /\ \A i \in 1 .. Len(rows) :
              /\ rows[i] \in [Coords -> Nat] /\ RowInvariant(f, rows[i])
              /\ f = "Bitmap" => \A c \in Coords : rows[i][c] \in {0, 1}
<1>1. rows \in Holdings[f] /\ Len(rows) <= MaxRows
  BY DEF Accepted
<1>2. rows \in Seq([Coords -> Nat])
  BY <1>1 DEF Parameters
<1>3. DOMAIN rows = 1 .. Len(rows) /\ Len(rows) \in Nat
  BY <1>2, LenProperties
<1>4. \A i \in 1 .. Len(rows) : rows[i] \in [Coords -> Nat]
  BY <1>2, ElementOfSeq
<1>5. \A i \in DOMAIN rows : RowInvariant(f, rows[i])
                             /\ (f = "Bitmap" => \A c \in Coords : rows[i][c] \in {0, 1})
  BY <1>1 DEF Parameters
<1>6. Len(rows) \in 0 .. MaxRows
  BY <1>1, <1>3, Sizes
<1> QED BY <1>2, <1>3, <1>4, <1>5, <1>6 DEF Rows

\* No header is read where nothing was saved, and any other is the last save's.
LEMMA HeaderTells ==
  ASSUME Parameters, NEW f \in Formats, NEW cells, NEW history, Told(f, cells, history),
         history.fate # "mixed", cells # <<>>,
         NEW n, n = cells[1] - Magic, n \in 0 .. MaxRows
  PROVE  history.fate # "none" /\ n = Len(history.rows)
<1>1. history.fate # "none"
  <2> SUFFICES ASSUME history.fate = "none" PROVE FALSE
    OBVIOUS
  <2>1. cells = <<-1>>
    BY DEF Told, Absent
  <2>2. n = -1001
    BY <2>1 DEF Magic
  <2>3. MaxRows \in Nat
    BY Sizes
  <2> QED BY <2>2, <2>3
<1>2. history.rows \in Accepted(f) /\ cells \in Seq(Nat)
  BY <1>1 DEF Told
<1> DEFINE image == Image(f, history.rows)
<1>3. Len(history.rows) \in Nat /\ image[1] = Magic + Len(history.rows) /\ Len(image) \in Nat
  BY <1>2, AcceptedRows, ImageIs, LenProperties DEF Header
<1>4. 1 \in 1 .. Len(cells)
  BY <1>2, LenProperties, EmptySeq
<1>5. cells[1] \in {0, image[1]}
  BY <1>1, <1>4 DEF Told, Begun, Lossy
<1>6. cells[1] # 0
  BY Sizes DEF Magic
<1> QED BY <1>1, <1>3, <1>5, <1>6 DEF Magic

\* The rows in the cells of a file.
LEMMA RowsAre ==
  ASSUME NEW f, NEW cells, NEW n \in Nat, NEW rows \in Rows, Len(rows) = n,
         \A i \in 1 .. n : RowsIn(f, cells, n)[i] = rows[i]
  PROVE  RowsIn(f, cells, n) = rows
<1>1. DOMAIN rows = 1 .. n /\ rows = [i \in 1 .. n |-> rows[i]]
  BY LenProperties DEF Rows
<1>2. RowsIn(f, cells, n) = [i \in 1 .. n |-> RowsIn(f, cells, n)[i]]
  BY DEF RowsIn
<1> QED BY <1>1, <1>2

\* A file of the length it declares was written to its end.  If nothing of it was
\* lost its checks pass and its rows are those that were saved; if something was
\* and its checks pass all the same, so are they.
LEMMA ReadsBack ==
  ASSUME Parameters, NEW f \in Formats, NEW cells, NEW history, Told(f, cells, history),
         history.fate # "mixed", NEW n, Declares(f, cells, n)
  PROVE  /\ history.fate \in {"saved", "lost"} /\ n = Len(history.rows)
         /\ history.fate = "saved" =>
              PayloadValid(f, cells, n) /\ RowsIn(f, cells, n) = history.rows
         /\ PayloadValid(f, cells, n) /\ f # "SignBitmap" =>
              RowsIn(f, cells, n) = history.rows
<1> DEFINE rows == history.rows
           image == Image(f, rows)
<1>1. history.fate # "none" /\ n = Len(rows) /\ cells \in Seq(Nat) /\ rows \in Accepted(f)
  BY HeaderTells DEF Declares, Told
<1>2. /\ rows \in Rows /\ n \in Nat /\ DOMAIN rows = 1 .. n
      /\ \A i \in 1 .. n : /\ rows[i] \in [Coords -> Nat] /\ RowInvariant(f, rows[i])
                           /\ f = "Bitmap" => \A c \in Coords : rows[i][c] \in {0, 1}
  BY <1>1, AcceptedRows
<1>3. /\ image \in Seq(Nat) /\ Len(image) = 1 + PayloadLen(f, n)
      /\ \A i \in 1 .. n, c \in Coords : image[Place(f, i, c)] = rows[i][c]
      /\ \A i \in n + 1 .. Slots(f, n), c \in Coords : image[Place(f, i, c)] = 0
  BY <1>1, <1>2, ImageIs
<1>4. Len(cells) = Len(image)
  <2>1. Len(cells) \in Nat /\ PayloadLen(f, n) \in Nat
        /\ PayloadLen(f, n) = Len(cells) - 1
    BY <1>1, <1>2, LenProperties, PlacesApart DEF Declares
  <2> QED BY <1>3, <2>1
<1>5. history.fate \in {"saved", "lost"}
  <2>1. history.fate \notin {"saving", "partial"}
    BY <1>3, <1>4, LenProperties DEF Told, Begun
  <2> QED BY <1>1, <2>1 DEF Told
<1>6. \A i \in 1 .. n, c \in Coords : /\ Place(f, i, c) \in 1 .. Len(cells)
                                      /\ RowsIn(f, cells, n)[i][c] = cells[Place(f, i, c)]
  <2>1. \A i \in 1 .. n : i \in 1 .. Slots(f, n)
    BY <1>2, SlotsFit
  <2>2. \A i \in 1 .. Slots(f, n), c \in Coords :
          Place(f, i, c) \in 2 .. 1 + PayloadLen(f, n)
    BY <1>2, PlacesApart
  <2>3. \A i \in 1 .. n, c \in Coords : Place(f, i, c) \in 1 .. Len(cells)
    BY <1>3, <1>4, <2>1, <2>2
  <2> QED BY <2>3 DEF RowsIn
<1>7. ASSUME NEW i \in 1 .. n
      PROVE  /\ RowsIn(f, cells, n)[i] = [c \in Coords |-> cells[Place(f, i, c)]]
             /\ RowsIn(f, cells, n)[i] \in [Coords -> Nat]
  <2>1. RowsIn(f, cells, n)[i] = [c \in Coords |-> cells[Place(f, i, c)]]
    BY DEF RowsIn
  <2>2. \A c \in Coords : cells[Place(f, i, c)] \in Nat
    BY <1>1, <1>6, ElementOfSeq
  <2> QED BY <2>1, <2>2
<1>8. ASSUME \A i \in 1 .. n : RowsIn(f, cells, n)[i] = rows[i]
      PROVE  RowsIn(f, cells, n) = rows
  <2>1. PICK xs \in Rows : xs = rows
    BY <1>2
  <2>2. Len(xs) = n /\ \A i \in 1 .. n : RowsIn(f, cells, n)[i] = xs[i]
    BY <1>1, <1>8, <2>1
  <2>3. n \in Nat
    BY <1>2
  <2> HIDE DEF rows
  <2>4. RowsIn(f, cells, n) = xs
    BY <2>2, <2>3, RowsAre
  <2> QED BY <2>1, <2>4
<1>9. ASSUME history.fate = "saved"
      PROVE  PayloadValid(f, cells, n) /\ RowsIn(f, cells, n) = rows
  <2>1. cells = image
    BY <1>9 DEF Told
  <2>2. ASSUME NEW i \in 1 .. n PROVE RowsIn(f, cells, n)[i] = rows[i]
    <3>1. \A c \in Coords : RowsIn(f, cells, n)[i][c] = rows[i][c]
      BY <1>3, <1>6, <2>1
    <3>2. PICK seen, row : seen = RowsIn(f, cells, n)[i] /\ row = rows[i]
      OBVIOUS
    <3>3. seen \in [Coords -> Nat] /\ row \in [Coords -> Nat]
      BY <1>2, <1>7, <3>2
    <3>4. \A c \in Coords : seen[c] = row[c]
      BY <3>1, <3>2
    <3>5. seen = row
      BY <3>3, <3>4
    <3> QED BY <3>2, <3>5
  <2>3. RowsIn(f, cells, n) = rows
    BY <1>8, <2>2
  <2>4. \A i \in n + 1 .. Slots(f, n), c \in Coords : cells[Place(f, i, c)] = 0
    BY <1>3, <2>1
  <2>5. \A i \in 1 .. n : RowInvariant(f, RowsIn(f, cells, n)[i])
    BY <1>2, <2>2
  <2> HIDE DEF rows, image
  <2>6. PayloadValid(f, cells, n)
    BY <2>4, <2>5 DEF PayloadValid
  <2> QED BY <2>3, <2>6
<1>10. ASSUME PayloadValid(f, cells, n), f # "SignBitmap"
       PROVE  RowsIn(f, cells, n) = rows
  <2>1. CASE history.fate = "saved"
    BY <1>9, <2>1
  <2>2. CASE history.fate = "lost"
    <3>1. \A p \in 1 .. Len(cells) : cells[p] \in {0, image[p]}
      BY <2>2 DEF Told, Lossy
    <3>2. ASSUME NEW i \in 1 .. n PROVE RowsIn(f, cells, n)[i] = rows[i]
      <4> DEFINE seen == RowsIn(f, cells, n)[i]
      <4>1. \A c \in Coords : seen[c] \in {0, rows[i][c]}
        BY <1>3, <1>6, <3>1
      <4>2. RowInvariant(f, seen) /\ seen \in [Coords -> Nat]
        BY <1>7, <1>10 DEF PayloadValid
      <4>3. f \in AllFormats \ {"SignBitmap"}
        BY <1>10 DEF Parameters
      <4> HIDE DEF seen
      <4>4. PICK row : row = rows[i]
        OBVIOUS
      <4>5. /\ row \in [Coords -> Nat] /\ RowInvariant(f, row)
            /\ f = "Bitmap" => \A c \in Coords : row[c] \in {0, 1}
            /\ \A c \in Coords : seen[c] \in {0, row[c]}
        BY <1>2, <4>1, <4>4
      <4>6. seen = row
        BY <4>2, <4>3, <4>5, LossIsNoticed
      <4> QED BY <4>4, <4>6 DEF seen
    <3> QED BY <1>8, <3>2
  <2> QED BY <1>5, <2>1, <2>2
<1> QED BY <1>1, <1>5, <1>9, <1>10

\* What was saved declares itself.
LEMMA SavedDeclares ==
  ASSUME Parameters, NEW f \in Formats, NEW cells, NEW history, Told(f, cells, history),
         history.fate = "saved"
  PROVE  Declares(f, cells, Len(history.rows))
<1> DEFINE n == Len(history.rows)
<1>1. cells = Image(f, history.rows) /\ history.rows \in Accepted(f) /\ cells \in Seq(Nat)
  BY DEF Told
<1>2. history.rows \in Rows /\ n \in 0 .. MaxRows /\ n \in Nat
  BY <1>1, AcceptedRows
<1>3. Len(cells) = 1 + PayloadLen(f, n) /\ cells[1] = Magic + n
      /\ PayloadLen(f, n) \in Nat
  BY <1>1, <1>2, ImageIs, PlacesApart DEF Header
<1>4. cells # <<>>
  BY <1>3, EmptySeq
<1>5. n = cells[1] - Magic
  BY <1>2, <1>3 DEF Magic
<1> QED BY <1>2, <1>3, <1>4, <1>5 DEF Declares

-----------------------------------------------------------------------------
(* The invariant of the file.                                              *)

Saving(w) == saver[w].pc = "saving"

\* A file, what was written back of it, and the histories of both.
FileOK ==
  /\ Parameters /\ format \in Formats
  /\ Told(format, file, last)
  /\ disk = [cells |-> disk.cells, last |-> disk.last]
  /\ Told(format, disk.cells, disk.last)

\* A save emits an image of its rows.  Unless saves overlap, it is alone and the
\* file holds what it has emitted.
SaversOK ==
  /\ saver = [w \in Savers |-> saver[w]]
  /\ \A w \in Savers : Saving(w) =>
       /\ saver[w] = [pc |-> "saving", image |-> saver[w].image, done |-> saver[w].done]
       /\ \E rows \in Accepted(format) : saver[w].image = Image(format, rows)
       /\ saver[w].done \in 0 .. Len(saver[w].image) - 1
       /\ last.fate \in {"saving", "mixed"}
       /\ last.fate = "saving" =>
            /\ saver[w].image = Image(format, last.rows) /\ saver[w].done = Len(file)
            /\ \A v \in Savers : Saving(v) => v = w

\* What LoadExact says of a call that has ended.
Judged(f, call) ==
  LET save == call.against
      rows == IF call.kind = "probe" THEN Len(save.rows) ELSE save.rows
  IN  call.quiet /\ save.fate # "mixed" =>
        /\ save.fate = "saved" => call.ok = (call.kind = "load" \/ ProbeCovered(f))
        /\ call.ok /\ (save.fate = "lost" => f # "SignBitmap" \/ call.kind = "probe")
             => call.rows = rows

Opened(cells, x) ==
  /\ x \in [pc : {"opened"}, kind : {"load", "probe"}, len : {x.len}, quiet : BOOLEAN]
  /\ x.quiet => x.len = Len(cells)

Reading(f, cells, x) ==
  /\ x \in [pc : {"reading"}, kind : {"load"}, quiet : BOOLEAN, n : {x.n}, cells : {x.cells}]
  /\ x.quiet =>
       /\ Declares(f, cells, x.n) /\ Len(x.cells) \in 1 .. Len(cells)
       /\ x.cells = SubSeq(cells, 1, Len(x.cells))

\* As long as no save overtook it, a load has taken the length and the first cells of
\* the file as it is.
ReaderOK(f, cells, x) ==
  \/ x = AtRest
  \/ Opened(cells, x)
  \/ Reading(f, cells, x)
  \/ x.pc = "returned" /\ Judged(f, x)

ReadersOK ==
  /\ reader = [r \in Readers |-> reader[r]]
  /\ \A r \in Readers : ReaderOK(format, file, reader[r])

FileIInv == FileOK /\ SaversOK /\ ReadersOK

\* The readers that a save overtakes no longer know anything of the file.
LEMMA DisturbedOK ==
  ASSUME ReadersOK, format' = format, reader' = Disturbed
  PROVE  ReadersOK'
<1>1. reader' = [r \in Readers |-> reader'[r]]
  BY DEF Disturbed
<1>2. ASSUME NEW r \in Readers PROVE ReaderOK(format, file', reader'[r])
  <2>1. PICK x : x = reader[r]
    OBVIOUS
  <2>2. reader'[r] = IF x.pc \in {"opened", "reading"} THEN [x EXCEPT !.quiet = FALSE] ELSE x
    BY <2>1 DEF Disturbed
  <2>3. ReaderOK(format, file, x)
    BY <2>1 DEF ReadersOK
  <2>4. CASE x = AtRest
    BY <2>2, <2>4 DEF ReaderOK, AtRest
  <2>5. CASE Opened(file, x)
    <3>1. x.pc = "opened"
      BY <2>5 DEF Opened
    <3>2. PICK l : l = x.len
      OBVIOUS
    <3>3. x \in [pc : {"opened"}, kind : {"load", "probe"}, len : {l}, quiet : BOOLEAN]
      BY <2>5, <3>2 DEF Opened
    <3>4. [x EXCEPT !.quiet = FALSE] \in
            [pc : {"opened"}, kind : {"load", "probe"}, len : {l}, quiet : {FALSE}]
      BY <3>3
    <3>5. PICK y : y = [x EXCEPT !.quiet = FALSE]
      OBVIOUS
    <3>6. y \in [pc : {"opened"}, kind : {"load", "probe"}, len : {l}, quiet : BOOLEAN]
          /\ ~ y.quiet /\ y.len = l
      BY <3>4, <3>5
    <3>7. Opened(file', y)
      BY <3>6 DEF Opened
    <3> QED BY <2>2, <3>1, <3>5, <3>7 DEF ReaderOK
  <2>6. CASE Reading(format, file, x)
    <3>1. x.pc = "reading"
      BY <2>6 DEF Reading
    <3>2. PICK n, c : n = x.n /\ c = x.cells
      OBVIOUS
    <3>3. x \in [pc : {"reading"}, kind : {"load"}, quiet : BOOLEAN, n : {n}, cells : {c}]
      BY <2>6, <3>2 DEF Reading
    <3>4. [x EXCEPT !.quiet = FALSE] \in
            [pc : {"reading"}, kind : {"load"}, quiet : {FALSE}, n : {n}, cells : {c}]
      BY <3>3
    <3>5. PICK y : y = [x EXCEPT !.quiet = FALSE]
      OBVIOUS
    <3>6. y \in [pc : {"reading"}, kind : {"load"}, quiet : BOOLEAN, n : {n}, cells : {c}]
          /\ ~ y.quiet /\ y.n = n /\ y.cells = c
      BY <3>4, <3>5
    <3>7. Reading(format, file', y)
      BY <3>6 DEF Reading
    <3> QED BY <2>2, <3>1, <3>5, <3>7 DEF ReaderOK
  <2>7. CASE x.pc = "returned" /\ Judged(format, x)
    BY <2>2, <2>7 DEF ReaderOK
  <2> QED BY <2>3, <2>4, <2>5, <2>6, <2>7 DEF ReaderOK
<1> QED BY <1>1, <1>2 DEF ReadersOK

\* At first there is no file and nobody saves or reads.
LEMMA InitFile == FileInit => FileIInv
<1> SUFFICES ASSUME FileInit PROVE FileIInv
  OBVIOUS
<1>1. Told(format, Absent, [rows |-> <<>>, fate |-> "none"])
  BY DEF Told, Absent
<1>2. FileOK
  BY <1>1, IndexFileAssumption DEF FileInit, FileOK
<1>3. SaversOK
  BY DEF FileInit, SaversOK, Saving, AtRest
<1>4. ReadersOK
  BY DEF FileInit, ReadersOK, ReaderOK
<1> QED BY <1>2, <1>3, <1>4 DEF FileIInv

\* A refused save leaves the file as it was.
LEMMA RejectSaveFile ==
  ASSUME FileIInv, NEW w \in Savers, NEW rows, RejectSave(w, rows)
  PROVE  FileIInv'
<1>1. /\ UNCHANGED <<format, file, disk, reader, last>>
      /\ saver' = [saver EXCEPT ![w] = [pc |-> "rejected"]]
  BY DEF RejectSave
<1>2. FileOK' /\ ReadersOK'
  BY <1>1 DEF FileIInv, FileOK, ReadersOK
<1>3. SaversOK'
  <2>1. \A v \in Savers : Saving(v)' => Saving(v) /\ saver'[v] = saver[v]
    BY <1>1 DEF FileIInv, SaversOK, Saving
  <2> QED BY <1>1, <2>1 DEF FileIInv, SaversOK
<1> QED BY <1>2, <1>3 DEF FileIInv

\* A save that begins is alone with its empty file, or overlaps another.
LEMMA BeginSaveFile ==
  ASSUME FileIInv, NEW w \in Savers, NEW rows \in Holdings[format], BeginSave(w, rows)
  PROVE  FileIInv'
<1>1. /\ UNCHANGED <<format, disk>> /\ reader' = Disturbed /\ file' = <<>>
      /\ rows \in Accepted(format)
      /\ saver' = [saver EXCEPT ![w] =
                     [pc |-> "saving", image |-> Image(format, rows), done |-> 0]]
      /\ last' = [rows |-> rows, fate |-> IF \E o \in Savers : Saving(o)
                                          THEN "mixed" ELSE "saving"]
      /\ ~ Saving(w)
  BY DEF BeginSave, Saving, Accepted
<1>2. /\ Image(format, rows) \in Seq(Nat) /\ Len(Image(format, rows)) \in Nat
      /\ Len(Image(format, rows)) > 0
  <2>1. rows \in Rows
    BY <1>1, AcceptedRows DEF FileIInv, FileOK
  <2>2. PayloadLen(format, Len(rows)) \in Nat
    BY <2>1, ImageIs, PlacesApart DEF FileIInv, FileOK
  <2> QED BY <2>1, <2>2, ImageIs DEF FileIInv, FileOK
<1>3. Told(format, <<>>, last')
  BY <1>1, <1>2 DEF Told, Begun
<1>4. FileOK'
  BY <1>1, <1>3 DEF FileIInv, FileOK
<1>5. SaversOK'
  <2>1. saver' = [v \in Savers |-> saver'[v]] /\ Accepted(format)' = Accepted(format)
    BY <1>1 DEF FileIInv, SaversOK, Accepted
  <2> SUFFICES ASSUME NEW v \in Savers, Saving(v)'
               PROVE  /\ saver'[v] = [pc |-> "saving", image |-> saver'[v].image,
                                      done |-> saver'[v].done]
                      /\ \E xs \in Accepted(format) : saver'[v].image = Image(format, xs)
                      /\ saver'[v].done \in 0 .. Len(saver'[v].image) - 1
                      /\ last'.fate \in {"saving", "mixed"}
                      /\ last'.fate = "saving" =>
                           /\ saver'[v].image = Image(format, last'.rows)
                           /\ saver'[v].done = Len(file')
                           /\ \A o \in Savers : Saving(o)' => o = v
    BY <1>1, <2>1 DEF SaversOK
  <2>2. saver' = [o \in Savers |-> IF o = w THEN [pc |-> "saving", image |-> Image(format, rows),
                                                  done |-> 0] ELSE saver[o]]
    BY <1>1 DEF FileIInv, SaversOK
  <2>3. CASE v = w
    <3>1. saver'[v] = [pc |-> "saving", image |-> Image(format, rows), done |-> 0]
      BY <2>2, <2>3
    <3>2. last'.fate = "saving" => \A o \in Savers : Saving(o)' => o = v
      BY <1>1, <2>2, <2>3 DEF Saving
    <3>3. last'.rows = rows /\ last'.fate \in {"saving", "mixed"} /\ Len(file') = 0
      BY <1>1
    <3> QED BY <1>1, <1>2, <3>1, <3>2, <3>3
  <2>4. CASE v # w
    <3>1. saver'[v] = saver[v] /\ Saving(v)
      BY <2>2, <2>4 DEF Saving
    <3>2. last'.fate = "mixed"
      BY <1>1, <3>1
    <3> QED BY <3>1, <3>2 DEF FileIInv, SaversOK
  <2> QED BY <2>3, <2>4
<1>6. ReadersOK'
  BY <1>1, DisturbedOK DEF FileIInv
<1> QED BY <1>4, <1>5, <1>6 DEF FileIInv

\* Some more cells of an image, behind those that are there.
LEMMA MoreWritten ==
  ASSUME NEW image \in Seq(Nat), NEW from \in Nat, NEW upto \in from + 1 .. Len(image),
         file \in Seq(Int)
  PROVE  /\ file \in Seq(Nat) => Overwritten(image, from + 1, upto) \in Seq(Nat)
         /\ Len(file) = from /\ (\A p \in 1 .. from : file[p] = image[p]) =>
              /\ Len(Overwritten(image, from + 1, upto)) = upto
              /\ \A p \in 1 .. upto : Overwritten(image, from + 1, upto)[p] = image[p]
<1> DEFINE l == Len(file)
           size == IF upto > l THEN upto ELSE l
           next == [p \in 1 .. size |->
                      IF p \in from + 1 .. upto THEN image[p]
                      ELSE IF p <= l THEN file[p] ELSE 0]
<1>1. Overwritten(image, from + 1, upto) = next
  BY DEF Overwritten
<1>2. l \in Nat /\ size \in Nat /\ upto \in Nat /\ Len(image) \in Nat
  BY LenProperties
<1>3. Len(next) = size
  <2>1. next = [p \in 1 .. size |-> next[p]]
    OBVIOUS
  <2> HIDE DEF next, size
  <2> QED BY <1>2, <2>1, LenOfFunction
<1>4. ASSUME file \in Seq(Nat) PROVE next \in Seq(Nat)
  <2>1. ASSUME NEW p \in 1 .. size
        PROVE  (IF p \in from + 1 .. upto THEN image[p]
                ELSE IF p <= l THEN file[p] ELSE 0) \in Nat
    <3>1. CASE p \in from + 1 .. upto
      <4>1. p \in 1 .. Len(image)
        BY <1>2, <3>1
      <4>2. image[p] \in Nat
        BY <4>1, ElementOfSeq
      <4> QED BY <3>1, <4>2
    <3>2. CASE p \notin from + 1 .. upto /\ p <= l
      <4>1. p \in 1 .. Len(file)
        BY <1>2, <3>2
      <4>2. file[p] \in Nat
        BY <1>4, <4>1, ElementOfSeq
      <4> QED BY <3>2, <4>2
    <3>3. CASE p \notin from + 1 .. upto /\ ~ p <= l
      BY <3>3
    <3> QED BY <3>1, <3>2, <3>3
  <2>2. next \in [1 .. size -> Nat]
    BY <2>1
  <2> HIDE DEF next, size
  <2> QED BY <1>2, <2>2
<1>5. ASSUME l = from, \A p \in 1 .. from : file[p] = image[p]
      PROVE  size = upto /\ \A p \in 1 .. upto : next[p] = image[p]
  <2>1. size = upto
    BY <1>2, <1>5
  <2>2. ASSUME NEW p \in 1 .. upto PROVE next[p] = image[p]
    <3>1. p \in 1 .. size /\ (p \in from + 1 .. upto \/ (p \in 1 .. from /\ p <= l))
      BY <1>2, <1>5, <2>1
    <3>2. p \in 1 .. from => p \notin from + 1 .. upto
      OBVIOUS
    <3> QED BY <1>5, <3>1, <3>2
  <2> QED BY <2>1, <2>2
<1> HIDE DEF next, size
<1> QED BY <1>1, <1>3, <1>4, <1>5

\* More cells of the image are behind those that are there; the last one completes
\* the save.
LEMMA WriteMoreFile ==
  ASSUME FileIInv, NEW w \in Savers, WriteMore(w)
  PROVE  FileIInv'
<1> DEFINE image == saver[w].image
           from == saver[w].done
<1>1. /\ Saving(w) /\ UNCHANGED <<format, disk>> /\ reader' = Disturbed
      /\ \E upto \in from + 1 .. Len(image) :
           /\ file' = Overwritten(image, from + 1, upto)
           /\ IF upto = Len(image)
              THEN /\ saver' = [saver EXCEPT ![w] = AtRest]
                   /\ last' = IF last.fate = "saving" THEN [last EXCEPT !.fate = "saved"] ELSE last
              ELSE /\ saver' = [saver EXCEPT ![w].done = upto]
                   /\ UNCHANGED last
  BY DEF WriteMore, Saving
<1>2. PICK upto \in from + 1 .. Len(image) :
           /\ file' = Overwritten(image, from + 1, upto)
           /\ IF upto = Len(image)
              THEN /\ saver' = [saver EXCEPT ![w] = AtRest]
                   /\ last' = IF last.fate = "saving" THEN [last EXCEPT !.fate = "saved"] ELSE last
              ELSE /\ saver' = [saver EXCEPT ![w].done = upto]
                   /\ UNCHANGED last
  BY <1>1
<1>3. /\ saver = [v \in Savers |-> saver[v]]
      /\ saver[w] = [pc |-> "saving", image |-> image, done |-> from]
      /\ last.fate \in {"saving", "mixed"} /\ from \in 0 .. Len(image) - 1
      /\ last.fate = "saving" =>
           /\ image = Image(format, last.rows) /\ from = Len(file)
           /\ \A v \in Savers : Saving(v) => v = w
  BY <1>1 DEF FileIInv, SaversOK
<1>4. PICK rows \in Accepted(format) : image = Image(format, rows)
  BY <1>1 DEF FileIInv, SaversOK
<1>5. Parameters /\ format \in Formats /\ Told(format, file, last)
  BY DEF FileIInv, FileOK
<1>6. image \in Seq(Nat) /\ Len(image) \in Nat /\ file \in Seq(Nat) /\ file \in Seq(Int)
  <2>1. image \in Seq(Nat)
    BY <1>4, <1>5, AcceptedRows, ImageIs
  <2> QED BY <1>3, <1>5, <2>1, LenProperties DEF Told
<1> HIDE DEF image, from
<1>7. from \in Nat /\ upto \in Nat
  BY <1>3, <1>6
<1>8. /\ file' \in Seq(Nat) /\ file' \in Seq(Int)
      /\ last.fate = "saving" =>
           /\ Len(file') = upto
           /\ \A p \in 1 .. upto : file'[p] = image[p]
  <2>1. file' \in Seq(Nat)
    BY <1>2, <1>6, <1>7, MoreWritten
  <2>2. file' \in Seq(Int)
    <3>1. Seq(Nat) \subseteq Seq(Int)
      OBVIOUS
    <3> QED BY <2>1, <3>1
  <2>3. ASSUME last.fate = "saving"
        PROVE  Len(file') = upto /\ \A p \in 1 .. upto : file'[p] = image[p]
    <3>1. Len(file) = from /\ \A p \in 1 .. from : file[p] = image[p]
      BY <1>3, <1>5, <2>3 DEF Told, Begun
    <3> QED BY <1>2, <1>6, <1>7, <3>1, MoreWritten
  <2> QED BY <2>1, <2>2, <2>3
<1>9. /\ last' = [rows |-> last.rows, fate |-> last'.fate] /\ last'.rows = last.rows
      /\ last'.fate = IF upto = Len(image) /\ last.fate = "saving" THEN "saved" ELSE last.fate
  <2>1. last = [rows |-> last.rows, fate |-> last.fate]
    BY <1>5 DEF Told
  <2> QED BY <1>2, <2>1
<1>10. FileOK'
  <2>1. CASE last.fate = "mixed"
    BY <1>1, <1>5, <1>8, <1>9, <2>1 DEF FileIInv, FileOK, Told
  <2>2. CASE last.fate = "saving" /\ upto # Len(image)
    <3>1. Begun(file', image)
      BY <1>2, <1>6, <1>7, <1>8, <2>2 DEF Begun
    <3> QED BY <1>1, <1>3, <1>5, <1>8, <1>9, <2>2, <3>1 DEF FileIInv, FileOK, Told
  <2>3. CASE last.fate = "saving" /\ upto = Len(image)
    <3>1. file' = image
      <4>1. /\ DOMAIN file' = 1 .. upto /\ DOMAIN image = 1 .. upto
            /\ file' = [p \in 1 .. upto |-> file'[p]] /\ image = [p \in 1 .. upto |-> image[p]]
        BY <1>6, <1>8, <2>3, LenProperties
      <4> QED BY <1>8, <2>3, <4>1
    <3> QED BY <1>1, <1>3, <1>5, <1>8, <1>9, <2>3, <3>1 DEF FileIInv, FileOK, Told
  <2> QED BY <1>3, <2>1, <2>2, <2>3
<1>11. SaversOK'
  <2>1. saver' = [v \in Savers |-> saver'[v]] /\ \A v \in Savers \ {w} : saver'[v] = saver[v]
    BY <1>2, <1>3
  <2>2. ASSUME NEW v \in Savers, Saving(v)'
        PROVE  /\ saver'[v] = [pc |-> "saving", image |-> saver'[v].image,
                                      done |-> saver'[v].done]
               /\ \E xs \in Accepted(format) : saver'[v].image = Image(format, xs)
               /\ saver'[v].done \in 0 .. Len(saver'[v].image) - 1
               /\ last'.fate \in {"saving", "mixed"}
               /\ last'.fate = "saving" =>
                    /\ saver'[v].image = Image(format, last'.rows)
                    /\ saver'[v].done = Len(file')
                    /\ \A o \in Savers : Saving(o)' => o = v
    <3>1. CASE v = w
      <4>1. upto # Len(image)
        BY <1>2, <1>3, <2>2, <3>1 DEF Saving, AtRest
      <4>2. saver'[w] = [saver[w] EXCEPT !.done = upto]
        BY <1>2, <1>3, <4>1
      <4>3. saver'[w] = [pc |-> "saving", image |-> image, done |-> upto]
        BY <1>3, <4>2
      <4>4. last'.fate = last.fate
        BY <1>9, <4>1
      <4>5. last.fate = "saving" => \A o \in Savers : Saving(o)' => o = w
        BY <1>3, <2>1 DEF Saving
      <4>6. upto \in 0 .. Len(image) - 1
        BY <1>6, <1>7, <4>1
      <4> QED BY <1>3, <1>4, <1>8, <1>9, <3>1, <4>3, <4>4, <4>5, <4>6
    <3>2. CASE v # w
      <4>1. saver'[v] = saver[v] /\ Saving(v)
        BY <2>1, <2>2, <3>2 DEF Saving
      <4>2. last.fate = "mixed" /\ last'.fate = "mixed"
        BY <1>3, <1>9, <3>2, <4>1
      <4> QED BY <4>1, <4>2 DEF FileIInv, SaversOK
    <3> QED BY <3>1, <3>2
  <2>3. format' = format
    BY <1>1
  <2> QED BY <2>1, <2>2, <2>3 DEF SaversOK, Accepted
<1>12. ReadersOK'
  BY <1>1, DisturbedOK DEF FileIInv
<1> QED BY <1>10, <1>11, <1>12 DEF FileIInv

\* What was written stays.
LEMMA InterruptedOK ==
  ASSUME NEW f, NEW cells, NEW history, Told(f, cells, history)
  PROVE  Told(f, cells, Interrupted(history)) /\ Interrupted(history).fate # "saving"
<1>1. history = [rows |-> history.rows, fate |-> history.fate]
  BY DEF Told
<1>2. PICK next : next = Interrupted(history)
  OBVIOUS
<1>3. CASE history.fate = "saving"
  <2>1. next = [rows |-> history.rows, fate |-> "partial"]
    BY <1>1, <1>2, <1>3 DEF Interrupted
  <2>2. next.rows = history.rows /\ next.fate = "partial"
    BY <2>1
  <2>3. Told(f, cells, next)
    BY <1>3, <2>1, <2>2 DEF Told
  <2> QED BY <1>2, <2>2, <2>3
<1>4. CASE history.fate # "saving"
  BY <1>4 DEF Interrupted
<1> QED BY <1>3, <1>4

\* A save that is cut short leaves the beginning of its image.
LEMMA AbandonSaveFile ==
  ASSUME FileIInv, NEW w \in Savers, AbandonSave(w)
  PROVE  FileIInv'
<1>1. /\ Saving(w) /\ UNCHANGED <<format, file, disk, reader>>
      /\ saver' = [saver EXCEPT ![w] = AtRest] /\ last' = Interrupted(last)
  BY DEF AbandonSave, Saving
<1>2. FileOK'
  <2>1. Told(format, file, last')
    BY <1>1, InterruptedOK DEF FileIInv, FileOK
  <2> QED BY <1>1, <2>1 DEF FileIInv, FileOK
<1>3. SaversOK'
  <2>1. saver' = [v \in Savers |-> IF v = w THEN AtRest ELSE saver[v]]
    BY <1>1 DEF FileIInv, SaversOK
  <2>2. \A v \in Savers : Saving(v)' => v # w /\ Saving(v) /\ saver'[v] = saver[v]
    BY <2>1 DEF Saving, AtRest
  <2>3. \A v \in Savers : Saving(v)' => last.fate = "mixed"
    BY <1>1, <2>2 DEF FileIInv, SaversOK
  <2>4. last.fate = "mixed" => last' = last
    BY <1>1 DEF Interrupted
  <2>5. saver' = [v \in Savers |-> saver'[v]]
    BY <2>1
  <2>6. ASSUME NEW v \in Savers, Saving(v)'
        PROVE  /\ saver'[v] = saver[v] /\ Saving(v) /\ last' = last /\ last'.fate = "mixed"
    BY <2>2, <2>3, <2>4, <2>6
  <2> QED BY <1>1, <2>5, <2>6 DEF FileIInv, SaversOK, Accepted
<1>4. ReadersOK'
  BY <1>1 DEF FileIInv, ReadersOK
<1> QED BY <1>2, <1>3, <1>4 DEF FileIInv

\* The kernel writes the file back.
LEMMA WriteBackFile ==
  ASSUME FileIInv, WriteBack
  PROVE  FileIInv'
<1>1. UNCHANGED <<format, file, saver, reader, last>> /\ disk' = [cells |-> file, last |-> last]
  BY DEF WriteBack
<1>2. FileOK'
  BY <1>1 DEF FileIInv, FileOK
<1>3. SaversOK' /\ ReadersOK'
  BY <1>1 DEF FileIInv, SaversOK, ReadersOK, Saving
<1> QED BY <1>2, <1>3 DEF FileIInv

\* A machine that stops leaves what was written back, or some of what was not.
LEMMA StopFile ==
  ASSUME FileIInv, Stop
  PROVE  FileIInv'
<1>1. /\ UNCHANGED format /\ (CrashToDisk \/ CrashLosing)
      /\ disk' = [cells |-> file', last |-> last']
      /\ saver' = [w \in Savers |-> AtRest] /\ reader' = [r \in Readers |-> AtRest]
  BY DEF Stop
<1>2. Told(format, file', last')
  <2>1. CASE CrashToDisk
    BY <2>1, InterruptedOK DEF CrashToDisk, FileIInv, FileOK
  <2>2. CASE CrashLosing
    <3>1. Told(format, file, last) /\ Parameters /\ format \in Formats
      BY DEF FileIInv, FileOK
    <3>2. last.fate # "none"
      BY <2>2, <3>1 DEF CrashLosing, Told
    <3>3. PICK len \in 0 .. Len(file) : \E lost \in SUBSET (1 .. len) :
            file' = [p \in 1 .. len |-> IF p \in lost THEN 0 ELSE file[p]]
      BY <2>2 DEF CrashLosing
    <3>4. file \in Seq(Nat) /\ Len(file) \in Nat /\ len \in Nat
      BY <3>1, <3>2, <3>3, LenProperties DEF Told
    <3>5. /\ file' \in Seq(Nat) /\ file' \in Seq(Int) /\ Len(file') = len
          /\ \A p \in 1 .. len : file'[p] \in {0, file[p]}
      <4>1. \A p \in 1 .. len : p \in 1 .. Len(file)
        BY <3>4
      <4>2. \A p \in 1 .. len : file[p] \in Nat
        BY <3>4, <4>1, ElementOfSeq
      <4> PICK lost \in SUBSET (1 .. len) :
                 file' = [p \in 1 .. len |-> IF p \in lost THEN 0 ELSE file[p]]
        BY <3>3
      <4>3. file' \in [1 .. len -> Nat] /\ file' = [p \in 1 .. len |-> file'[p]]
        BY <4>2
      <4>4. file' \in Seq(Nat) /\ file' \in Seq(Int)
        BY <3>4, <4>3
      <4>5. Len(file') = len
        <5>1. PICK g : g = file'
          OBVIOUS
        <5>2. g = [p \in 1 .. len |-> g[p]]
          BY <4>3, <5>1
        <5> QED BY <3>4, <5>1, <5>2, LenOfFunction
      <4>6. \A p \in 1 .. len : file'[p] \in {0, file[p]}
        OBVIOUS
      <4> QED BY <4>4, <4>5, <4>6
    <3>6. CASE last.fate = "mixed"
      <4>1. last' = last
        BY <2>2, <3>6 DEF CrashLosing
      <4> QED BY <3>1, <3>5, <3>6, <4>1 DEF Told
    <3>7. CASE last.fate # "mixed"
      <4>1. last' = [rows |-> last.rows, fate |-> "lost"]
        BY <2>2, <3>1, <3>7 DEF CrashLosing, Told
      <4> DEFINE image == Image(format, last.rows)
      <4>2. image \in Seq(Nat) /\ Len(image) \in Nat /\ last.rows \in Accepted(format)
        <5>1. last.rows \in Accepted(format)
          BY <3>1, <3>2 DEF Told
        <5> QED BY <3>1, <5>1, AcceptedRows, ImageIs, LenProperties
      <4>3. Len(file) <= Len(image) /\ \A p \in 1 .. Len(file) : file[p] \in {0, image[p]}
        BY <3>1, <3>2, <3>4, <3>7, <4>2 DEF Told, Begun, Lossy
      <4> HIDE DEF image
      <4>4. Lossy(file', image)
        <5>1. \A p \in 1 .. len : p \in 1 .. Len(file)
          BY <3>4
        <5>2. \A p \in 1 .. len : file'[p] \in {0, image[p]}
          BY <3>5, <4>3, <5>1
        <5>3. len <= Len(image)
          BY <3>3, <3>4, <4>2, <4>3
        <5> QED BY <3>5, <5>2, <5>3 DEF Lossy
      <4>5. last'.rows = last.rows /\ last'.fate = "lost"
        BY <4>1
      <4> QED BY <3>5, <4>1, <4>2, <4>4, <4>5 DEF Told, image
    <3> QED BY <3>6, <3>7
  <2> QED BY <1>1, <2>1, <2>2
<1>3. FileOK'
  BY <1>1, <1>2 DEF FileIInv, FileOK
<1>4. SaversOK'
  BY <1>1 DEF SaversOK, Saving, AtRest
<1>5. ReadersOK'
  BY <1>1 DEF ReadersOK, ReaderOK
<1> QED BY <1>3, <1>4, <1>5 DEF FileIInv

\* A step of one reader is judged by what it makes of that reader.
LEMMA ReaderStep ==
  ASSUME FileIInv, UNCHANGED <<format, file, disk, saver, last>>,
         NEW r \in Readers, NEW x, reader' = [reader EXCEPT ![r] = x],
         ReaderOK(format, file, x)
  PROVE  FileIInv'
<1>1. FileOK' /\ SaversOK'
  BY DEF FileIInv, FileOK, SaversOK, Saving
<1>2. reader' = [o \in Readers |-> IF o = r THEN x ELSE reader[o]]
  BY DEF FileIInv, ReadersOK
<1>3. ASSUME NEW o \in Readers PROVE ReaderOK(format, file, reader'[o])
  BY <1>2 DEF FileIInv, ReadersOK
<1>4. ReadersOK'
  BY <1>2, <1>3 DEF ReadersOK
<1> QED BY <1>1, <1>4 DEF FileIInv

\* A result, and what there is to say of it.
Result(kind, ok, rows, quiet, save) ==
  [pc |-> "returned", kind |-> kind, ok |-> ok, rows |-> rows, quiet |-> quiet, against |-> save]

\* A failure is right unless the last save completed and is covered.
LEMMA FailureOK ==
  ASSUME NEW f, NEW cells, NEW kind, NEW quiet, NEW save,
         quiet /\ save.fate = "saved" => kind # "load" /\ ~ ProbeCovered(f)
  PROVE  ReaderOK(f, cells, Result(kind, FALSE, <<>>, quiet, save))
<1> DEFINE x == Result(kind, FALSE, <<>>, quiet, save)
<1>1. /\ x.pc = "returned" /\ x.kind = kind /\ x.ok = FALSE /\ (x.quiet <=> quiet)
      /\ x.against = save
  BY DEF Result
<1>2. quiet /\ save.fate = "saved" => x.ok = (x.kind = "load" \/ ProbeCovered(f))
  BY <1>1
<1> HIDE DEF x
<1>3. Judged(f, x)
  BY <1>1, <1>2 DEF Judged
<1>4. ReaderOK(f, cells, x)
  BY <1>1, <1>3 DEF ReaderOK
<1> QED BY <1>4 DEF x

\* A success is right with the rows of the last save, or their number.
LEMMA SuccessOK ==
  ASSUME NEW f, NEW cells, NEW kind \in {"load", "probe"}, NEW quiet, NEW save, NEW rows,
         kind = "probe" => ProbeCovered(f),
         /\ quiet /\ save.fate # "mixed"
         /\ save.fate = "lost" => f # "SignBitmap" \/ kind = "probe"
         => rows = IF kind = "probe" THEN Len(save.rows) ELSE save.rows
  PROVE  ReaderOK(f, cells, Result(kind, TRUE, rows, quiet, save))
<1> DEFINE x == Result(kind, TRUE, rows, quiet, save)
<1>1. /\ x.pc = "returned" /\ x.kind = kind /\ x.ok /\ (x.quiet <=> quiet) /\ x.against = save
      /\ x.rows = rows
  BY DEF Result
<1>2. x.ok = (x.kind = "load" \/ ProbeCovered(f))
  BY <1>1
<1> HIDE DEF x
<1>3. Judged(f, x)
  BY <1>1, <1>2 DEF Judged
<1>4. ReaderOK(f, cells, x)
  BY <1>1, <1>3 DEF ReaderOK
<1> QED BY <1>4 DEF x

\* A call that has opened the file knows its length.
LEMMA OpenFile ==
  ASSUME FileIInv, NEW r \in Readers, NEW kind \in {"load", "probe"}, Open(r, kind)
  PROVE  FileIInv'
<1> DEFINE x == [pc |-> "opened", kind |-> kind, len |-> Len(file), quiet |-> TRUE]
<1>1. UNCHANGED <<format, file, disk, saver, last>> /\ reader' = [reader EXCEPT ![r] = x]
  BY DEF Open
<1>2. x.len = Len(file) /\ x \in [pc : {"opened"}, kind : {"load", "probe"}, len : {Len(file)},
                                  quiet : BOOLEAN]
  OBVIOUS
<1> HIDE DEF x
<1>3. ReaderOK(format, file, x)
  BY <1>2 DEF ReaderOK, Opened
<1> QED BY <1>1, <1>3, ReaderStep

\* A call that has returned is over.
LEMMA ForgetFile ==
  ASSUME FileIInv, NEW r \in Readers, Forget(r)
  PROVE  FileIInv'
<1>1. UNCHANGED <<format, file, disk, saver, last>> /\ reader' = [reader EXCEPT ![r] = AtRest]
  BY DEF Forget
<1>2. ReaderOK(format, file, AtRest)
  BY DEF ReaderOK
<1> QED BY <1>1, <1>2, ReaderStep

\* A header is accepted when it declares the file that is there.
LEMMA ReadHeaderFile ==
  ASSUME FileIInv, NEW r \in Readers, ReadHeader(r)
  PROVE  FileIInv'
<1> DEFINE x == reader[r]
           n == file[1] - Magic
<1>1. /\ x.pc = "opened" /\ UNCHANGED <<format, file, disk, saver, last>>
      /\ reader' = [reader EXCEPT ![r] =
           IF ~ HeaderAccepted(r) \/ (x.kind = "probe" /\ ~ ProbeCovered(format))
           THEN Failed(r)
           ELSE IF x.kind = "probe" THEN Returned(r, n)
           ELSE [pc |-> "reading", kind |-> "load", quiet |-> x.quiet,
                 n |-> n, cells |-> <<file[1]>>]]
  BY DEF ReadHeader
<1>2. Opened(file, x)
  BY <1>1 DEF FileIInv, ReadersOK, ReaderOK, AtRest, Reading
<1>3. x.kind \in {"load", "probe"} /\ x.quiet \in BOOLEAN /\ (x.quiet => x.len = Len(file))
  BY <1>2 DEF Opened
<1>4. HeaderAccepted(r) <=> /\ file # <<>> /\ n \in 0 .. MaxRows
                            /\ PayloadLen(format, n) = x.len - 1
  BY DEF HeaderAccepted
<1>5. Parameters /\ format \in Formats /\ Told(format, file, last)
  BY DEF FileIInv, FileOK
<1>6. Failed(r) = Result(x.kind, FALSE, <<>>, x.quiet, last)
      /\ Returned(r, n) = Result(x.kind, TRUE, n, x.quiet, last)
  BY DEF Failed, Returned, Result
<1> HIDE DEF x
<1>7. x.quiet => (HeaderAccepted(r) <=> Declares(format, file, n))
  BY <1>3, <1>4 DEF Declares
<1> HIDE DEF n
<1>8. CASE ~ HeaderAccepted(r) \/ (x.kind = "probe" /\ ~ ProbeCovered(format))
  <2>1. reader' = [reader EXCEPT ![r] = Result(x.kind, FALSE, <<>>, x.quiet, last)]
    BY <1>1, <1>6, <1>8
  <2>2. ASSUME x.quiet, last.fate = "saved"
        PROVE  x.kind # "load" /\ ~ ProbeCovered(format)
    <3>1. Declares(format, file, Len(last.rows))
      BY <1>5, <2>2, SavedDeclares
    <3>2. Declares(format, file, n)
      BY <3>1 DEF Declares, n
    <3> QED BY <1>3, <1>7, <1>8, <2>2, <3>2
  <2>3. ReaderOK(format, file, Result(x.kind, FALSE, <<>>, x.quiet, last))
    BY <2>2, FailureOK
  <2> QED BY <1>1, <2>1, <2>3, ReaderStep
<1>9. CASE HeaderAccepted(r) /\ x.kind = "probe" /\ ProbeCovered(format)
  <2>1. reader' = [reader EXCEPT ![r] = Result(x.kind, TRUE, n, x.quiet, last)]
    BY <1>1, <1>6, <1>9
  <2>2. ASSUME x.quiet, last.fate # "mixed" PROVE n = Len(last.rows)
    <3>1. file # <<>> /\ n = file[1] - Magic /\ n \in 0 .. MaxRows
      BY <1>4, <1>9 DEF n
    <3> QED BY <1>5, <2>2, <3>1, HeaderTells
  <2>3. ReaderOK(format, file, Result(x.kind, TRUE, n, x.quiet, last))
    BY <1>3, <1>9, <2>2, SuccessOK
  <2> QED BY <1>1, <2>1, <2>3, ReaderStep
<1>10. CASE HeaderAccepted(r) /\ x.kind = "load"
  <2> DEFINE y == [pc |-> "reading", kind |-> "load", quiet |-> x.quiet,
                   n |-> n, cells |-> <<file[1]>>]
  <2>1. reader' = [reader EXCEPT ![r] = y]
    BY <1>1, <1>10
  <2>2. /\ (y.quiet <=> x.quiet) /\ y.n = n /\ y.cells = <<file[1]>>
        /\ y \in [pc : {"reading"}, kind : {"load"}, quiet : BOOLEAN, n : {n},
                  cells : {<<file[1]>>}]
    <3>1. PICK q : q = x.quiet
      OBVIOUS
    <3> QED BY <1>3
  <2> HIDE DEF y
  <2>3. ASSUME x.quiet
        PROVE  /\ Declares(format, file, n) /\ Len(<<file[1]>>) \in 1 .. Len(file)
               /\ <<file[1]>> = SubSeq(file, 1, Len(<<file[1]>>))
    <3>1. Declares(format, file, n)
      BY <1>7, <1>10, <2>3
    <3>2. file \in Seq(Int) /\ file # <<>> /\ Len(file) \in Nat
      BY <1>5, <3>1, LenProperties DEF Told, Declares
    <3>3. 1 \in 1 .. Len(file) /\ Len(<<file[1]>>) = 1
      BY <3>2, EmptySeq
    <3>4. SubSeq(file, 1, 1) = <<file[1]>>
      <4>1. PICK v \in Int : v = file[1]
        BY <3>2, <3>3, ElementOfSeq
      <4>2. /\ SubSeq(file, 1, 1) \in Seq(Int) /\ Len(SubSeq(file, 1, 1)) = 1
            /\ SubSeq(file, 1, 1)[1] = v
        <5>1. \A i \in 1 .. 1 : file[i] \in Int
          BY <4>1
        <5> QED BY <4>1, <5>1, SubSeqProperties
      <4>3. <<v>> \in Seq(Int) /\ Len(<<v>>) = 1 /\ <<v>>[1] = v
        OBVIOUS
      <4>4. SubSeq(file, 1, 1) = <<v>>
        <5>1. PICK s \in Seq(Int), t \in Seq(Int) : s = SubSeq(file, 1, 1) /\ t = <<v>>
          BY <4>2, <4>3
        <5>2. Len(s) = 1 /\ Len(t) = 1 /\ \A i \in 1 .. Len(s) : s[i] = t[i]
          BY <4>2, <4>3, <5>1
        <5>3. s = t
          BY <5>2, SeqEqual
        <5> QED BY <5>1, <5>3
      <4> QED BY <4>1, <4>4
    <3> QED BY <3>1, <3>3, <3>4
  <2>4. Reading(format, file, y)
    BY <2>2, <2>3 DEF Reading
  <2>5. ReaderOK(format, file, y)
    BY <2>4 DEF ReaderOK
  <2> QED BY <1>1, <2>1, <2>5, ReaderStep
<1> QED BY <1>3, <1>8, <1>9, <1>10

\* A load that no save overtook has read a file of the length its header declares.
LEMMA ReadMoreFile ==
  ASSUME FileIInv, NEW r \in Readers, ReadMore(r)
  PROVE  FileIInv'
<1> DEFINE x == reader[r]
           n == x.n
           have == Len(x.cells)
           want == 1 + PayloadLen(format, n)
           Joined(upto) == x.cells \o SubSeq(file, have + 1, upto)
<1>1. x.pc = "reading" /\ UNCHANGED <<format, file, disk, saver, last>>
  BY DEF ReadMore
<1>2. PICK upto \in (IF have = want THEN {want} ELSE have + 1 .. want) :
        reader' = [reader EXCEPT ![r] =
          IF upto > have /\ upto > Len(file) THEN Failed(r)
          ELSE IF upto < want THEN [x EXCEPT !.cells = Joined(upto)]
          ELSE IF PayloadValid(format, Joined(upto), n)
          THEN Returned(r, RowsIn(format, Joined(upto), n)) ELSE Failed(r)]
  BY DEF ReadMore
<1> DEFINE cells == Joined(upto)
<1>3. Reading(format, file, x)
  BY <1>1 DEF FileIInv, ReadersOK, ReaderOK, AtRest, Opened
<1>4. PICK quiet \in BOOLEAN : quiet = x.quiet
  BY <1>3 DEF Reading
<1>5. /\ x \in [pc : {"reading"}, kind : {"load"}, quiet : {quiet}, n : {n}, cells : {x.cells}]
      /\ x.kind = "load"
  <2>1. x \in [pc : {"reading"}, kind : {"load"}, quiet : BOOLEAN, n : {x.n}, cells : {x.cells}]
    BY <1>3 DEF Reading
  <2>2. PICK y, c : y = x /\ c = y.cells
    OBVIOUS
  <2> QED BY <1>4, <2>1
<1>6. Parameters /\ format \in Formats /\ Told(format, file, last)
  BY DEF FileIInv, FileOK
<1>7. Failed(r) = Result("load", FALSE, <<>>, quiet, last)
      /\ \A rows : Returned(r, rows) = Result("load", TRUE, rows, quiet, last)
  BY <1>4, <1>5 DEF Failed, Returned, Result
<1>8. ASSUME quiet
      PROVE  /\ Declares(format, file, n) /\ want = Len(file) /\ upto \in 1 .. Len(file)
             /\ upto >= have /\ cells = SubSeq(file, 1, upto)
  <2>1. /\ Declares(format, file, n) /\ have \in 1 .. Len(file)
        /\ x.cells = SubSeq(file, 1, have)
    BY <1>3, <1>4, <1>8 DEF Reading
  <2>2. file \in Seq(Int) /\ Len(file) \in Nat
    BY <1>6, LenProperties DEF Told
  <2>3. want = Len(file)
    <3>1. n \in Nat /\ PayloadLen(format, n) = Len(file) - 1
      BY <2>1 DEF Declares
    <3> HIDE DEF n
    <3> QED BY <2>2, <3>1
  <2> HIDE DEF want, have, n
  <2>4. upto \in 1 .. Len(file) /\ upto >= have /\ upto \in have .. Len(file)
    BY <2>1, <2>2, <2>3
  <2>5. cells = SubSeq(file, 1, have) \o SubSeq(file, have + 1, upto)
    BY <2>1
  <2>6. SubSeq(file, 1, have) \o SubSeq(file, have + 1, upto) = SubSeq(file, 1, upto)
    BY <2>1, <2>2, <2>4
  <2> QED BY <2>1, <2>3, <2>4, <2>5, <2>6
<1> HIDE DEF want
<1>9. ASSUME quiet, upto = Len(file) PROVE cells = file
  <2>1. file \in Seq(Int) /\ SubSeq(file, 1, Len(file)) = file
    BY <1>6 DEF Told
  <2> QED BY <1>8, <1>9, <2>1
<1>10. ASSUME NEW y, reader' = [reader EXCEPT ![r] = y], ReaderOK(format, file, y)
       PROVE  FileIInv'
  BY <1>1, <1>10, ReaderStep
<1> HIDE DEF cells, have, x, n
<1>11. CASE upto > have /\ upto > Len(file)
  <2>1. ~ quiet
    <3> SUFFICES ASSUME quiet PROVE FALSE
      OBVIOUS
    <3>1. upto \in 1 .. Len(file) /\ Len(file) \in Nat
      BY <1>6, <1>8, LenProperties DEF Told
    <3> QED BY <1>11, <3>1
  <2>2. ReaderOK(format, file, Failed(r))
    BY <1>7, <2>1, FailureOK
  <2> QED BY <1>2, <1>10, <1>11, <2>2 DEF cells
<1>12. CASE ~ (upto > have /\ upto > Len(file)) /\ upto < want
  <2>1. PICK y, c : c = cells /\ y = [x EXCEPT !.cells = c]
    OBVIOUS
  <2>2. y \in [pc : {"reading"}, kind : {"load"}, quiet : {quiet}, n : {n}, cells : {c}]
    BY <1>5, <2>1
  <2>3. /\ y.quiet = quiet /\ y.n = n /\ y.cells = c
        /\ y \in [pc : {"reading"}, kind : {"load"}, quiet : BOOLEAN, n : {n}, cells : {c}]
    BY <2>2
  <2>4. ASSUME quiet
        PROVE  /\ Declares(format, file, n) /\ Len(c) \in 1 .. Len(file)
               /\ c = SubSeq(file, 1, Len(c))
    <3>1. c = SubSeq(file, 1, upto) /\ upto \in 1 .. Len(file) /\ file \in Seq(Int)
      BY <1>6, <1>8, <2>1, <2>4 DEF Told
    <3>2. Len(c) = upto
      BY <3>1
    <3> QED BY <1>8, <2>4, <3>1, <3>2
  <2>5. Reading(format, file, y)
    BY <2>3, <2>4 DEF Reading
  <2>6. ReaderOK(format, file, y)
    BY <2>5 DEF ReaderOK
  <2> QED BY <1>2, <1>10, <1>12, <2>1, <2>6 DEF cells
<1>13. CASE ~ (upto > have /\ upto > Len(file)) /\ ~ upto < want
  <2>1. ASSUME quiet PROVE cells = file /\ Declares(format, file, n)
    <3>1. want = Len(file) /\ upto \in 1 .. Len(file) /\ Len(file) \in Nat
      BY <1>6, <1>8, <2>1, LenProperties DEF Told
    <3>2. upto = Len(file)
      BY <1>13, <3>1
    <3> QED BY <1>8, <1>9, <2>1, <3>2
  <2>2. CASE PayloadValid(format, cells, n)
    <3>1. ASSUME quiet, last.fate # "mixed", last.fate = "lost" => format # "SignBitmap"
          PROVE  RowsIn(format, cells, n) = last.rows
      <4>1. cells = file /\ Declares(format, file, n)
        BY <2>1, <3>1
      <4>2. last.fate \in {"saved", "lost"}
        BY <1>6, <3>1, <4>1, ReadsBack
      <4>3. CASE last.fate = "saved"
        BY <1>6, <3>1, <4>1, <4>3, ReadsBack
      <4>4. CASE last.fate = "lost"
        BY <1>6, <2>2, <3>1, <4>1, <4>4, ReadsBack
      <4> QED BY <4>2, <4>3, <4>4
    <3>2. ReaderOK(format, file, Result("load", TRUE, RowsIn(format, cells, n), quiet, last))
      BY <3>1, SuccessOK
    <3> QED BY <1>2, <1>7, <1>10, <1>13, <2>2, <3>2 DEF cells
  <2>3. CASE ~ PayloadValid(format, cells, n)
    <3>1. ASSUME quiet PROVE last.fate # "saved"
      BY <1>6, <2>1, <2>3, <3>1, ReadsBack
    <3>2. ReaderOK(format, file, Failed(r))
      BY <1>7, <3>1, FailureOK
    <3> QED BY <1>2, <1>10, <1>13, <2>3, <3>2 DEF cells
  <2> QED BY <2>2, <2>3
<1> QED BY <1>11, <1>12, <1>13

\* Every step keeps the invariant.
LEMMA FileStep == FileIInv /\ [FileNext]_fileVars => FileIInv'
<1> SUFFICES ASSUME FileIInv, [FileNext]_fileVars PROVE FileIInv'
  OBVIOUS
<1>1. ASSUME NEW w \in Savers, NEW rows \in Holdings[format],
             RejectSave(w, rows) \/ BeginSave(w, rows)
      PROVE  FileIInv'
  BY <1>1, RejectSaveFile, BeginSaveFile
<1>2. ASSUME NEW w \in Savers, WriteMore(w) \/ AbandonSave(w) PROVE FileIInv'
  BY <1>2, WriteMoreFile, AbandonSaveFile
<1>3. ASSUME NEW r \in Readers, NEW kind \in {"load", "probe"}, Open(r, kind) PROVE FileIInv'
  BY <1>3, OpenFile
<1>4. ASSUME NEW r \in Readers, ReadHeader(r) \/ ReadMore(r) \/ Forget(r)
      PROVE FileIInv'
  BY <1>4, ReadHeaderFile, ReadMoreFile, ForgetFile
<1>5. ASSUME WriteBack \/ Stop PROVE FileIInv'
  BY <1>5, WriteBackFile, StopFile
<1>6. CASE UNCHANGED fileVars
  BY <1>6 DEF fileVars, FileIInv, FileOK, SaversOK, Saving, ReadersOK
<1> QED BY <1>1, <1>2, <1>3, <1>4, <1>5, <1>6 DEF FileNext

\* For every format, dimension, block, list of rows, process and crash, a load that
\* no save overtook returns what the last accepted save was given, or fails, and
\* does not fail when that save has completed.
THEOREM LoadsAreExact == FileSpec => []LoadExact
<1>1. FileInit => FileIInv
  BY InitFile
<1>2. FileIInv /\ [FileNext]_fileVars => FileIInv'
  BY FileStep
<1>3. FileIInv => LoadExact
  <2> SUFFICES ASSUME FileIInv, NEW r \in Readers, reader[r].pc = "returned"
               PROVE  Judged(format, reader[r])
    BY DEF LoadExact, Judged
  <2> QED BY DEF FileIInv, ReadersOK, ReaderOK, AtRest, Opened, Reading
<1> QED BY <1>1, <1>2, <1>3, PTL DEF FileSpec
=============================================================================
