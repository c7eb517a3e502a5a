---------------------------- MODULE ManifestWrite ----------------------------
(***************************************************************************)
(* write_manifest_file of src/ordvec-manifest/src/lib.rs: a manifest is    *)
(* written to a temporary file in the directory of its destination, synced *)
(* and renamed over it, after a check that the destination is still the    *)
(* file seen at the start; on Unix the directory is then synced.  Several  *)
(* processes write one destination, others remove it, any write may fail,  *)
(* and the machine may stop.                                               *)
(*                                                                         *)
(* The file system: an inode holds the manifest written to it, or Torn,    *)
(* and is safe once synced; a directory entry names an inode.  The number  *)
(* of an inode that nothing names may be given out again.                  *)
(***************************************************************************)
EXTENDS Naturals, FiniteSets

CONSTANTS
  Writers,
  Manifests,   \* manifests that canonical_manifest_for_write accepts
  Refused,     \* manifests that it refuses
  Inodes,      \* inode numbers
  Torn,        \* the content of a file that is not a whole manifest
  NoFile,      \* no directory entry
  Special,     \* an entry that is not a regular file
  MaxCalls, MaxRemovals, MaxCrashes  \* bounds

ASSUME WriteAssumption ==
  /\ {NoFile, Special} \cap Inodes = {} /\ NoFile # Special
  /\ Torn \notin Manifests /\ Refused \cap Manifests = {}
  /\ {MaxCalls, MaxRemovals, MaxCrashes} \subseteq Nat

VARIABLES
  reuse,     \* does this file system give inode numbers out again? (fixed)
  inode,     \* inode[i]: the content of file i and whether it is synced
  free,      \* the inode numbers that may be given out
  dest,      \* the destination's entry and how often it has been replaced
  diskDest,  \* the entry the disk is sure to hold
  writer,    \* writer[w]: the write w is in, or Idle
  acked,     \* history: the newest version whose write returned Ok
  calls, removals, crashes

fs   == <<inode, free, dest, diskDest>>
vars == <<reuse, fs, writer, acked, calls, removals, crashes>>

Idle  == [pc |-> "idle"]
Blank == [data |-> Torn, synced |-> FALSE]

Init ==
  /\ reuse \in BOOLEAN
  /\ \E i \in Inodes \cup {NoFile, Special}, m \in Manifests :
       /\ inode = [j \in Inodes |-> IF j = i THEN [data |-> m, synced |-> TRUE] ELSE Blank]
       /\ free = Inodes \ {i}
       /\ dest = [file |-> i, version |-> 0]
  /\ diskDest = dest
  /\ writer = [w \in Writers |-> Idle]
  /\ acked = 0 /\ calls = 0 /\ removals = 0 /\ crashes = 0

At(w, pc) == writer[w].pc = pc
Goto(w, pc) == writer' = [writer EXCEPT ![w].pc = pc]

\* An inode that no entry names any more.
Released(i) == IF reuse /\ i \in Inodes THEN {i} ELSE {}

-----------------------------------------------------------------------------
(* A write.                                                                *)

\* canonical_manifest_for_write, before anything is touched.
Begin(w, m) ==
  /\ At(w, "idle") /\ calls < MaxCalls /\ calls' = calls + 1
  /\ writer' = [writer EXCEPT ![w] =
       IF m \in Refused THEN Idle
       ELSE [pc |-> "snapshot", m |-> m, seen |-> dest, tmp |-> NoFile]]
  /\ UNCHANGED <<fs, acked, removals, crashes>>

\* snapshot_manifest_destination refuses anything but a regular file.
Snapshot(w) ==
  /\ At(w, "snapshot")
  /\ writer' = [writer EXCEPT ![w] =
       IF dest.file = Special THEN Idle
       ELSE [writer[w] EXCEPT !.seen = dest, !.pc = "create"]]
  /\ UNCHANGED <<fs, acked, calls, removals, crashes>>

\* Mutant: the temporary file may be an existing one.
CreateTempAnywhere(w) ==
  /\ At(w, "create")
  /\ \E i \in Inodes :
       /\ inode' = [inode EXCEPT ![i] = Blank]
       /\ free' = free \ {i}
       /\ writer' = [writer EXCEPT ![w].tmp = i, ![w].pc = "write"]
  /\ UNCHANGED <<dest, diskDest, acked, calls, removals, crashes>>

CreateTemp(w) ==
  /\ At(w, "create")
  /\ \E i \in free :
       /\ inode' = [inode EXCEPT ![i] = Blank]
       /\ free' = free \ {i}
       /\ writer' = [writer EXCEPT ![w].tmp = i, ![w].pc = "write"]
  /\ UNCHANGED <<dest, diskDest, acked, calls, removals, crashes>>

WriteTemp(w) ==
  /\ At(w, "write")
  /\ inode' = [inode EXCEPT ![writer[w].tmp].data = writer[w].m]
  /\ Goto(w, "sync")
  /\ UNCHANGED <<free, dest, diskDest, acked, calls, removals, crashes>>

\* Mutant: the temporary file is not synced.
SyncTempSkipped(w) ==
  /\ At(w, "sync")
  /\ Goto(w, "check")
  /\ UNCHANGED <<fs, acked, calls, removals, crashes>>

SyncTemp(w) ==
  /\ At(w, "sync")
  /\ inode' = [inode EXCEPT ![writer[w].tmp].synced = TRUE]
  /\ Goto(w, "check")
  /\ UNCHANGED <<free, dest, diskDest, acked, calls, removals, crashes>>

\* Mutant: only the presence of a destination is compared.
CheckPresenceOnly(w) ==
  /\ At(w, "check") /\ dest.file # Special
  /\ (dest.file = NoFile) = (writer[w].seen.file = NoFile)
  /\ writer' = [writer EXCEPT ![w].pc = "rename"]
  /\ UNCHANGED <<fs, acked, calls, removals, crashes>>

\* The first half of persist_manifest_temporary: the destination is looked at
\* again, and the write fails (see Fail) unless it is the same file.
Check(w) ==
  /\ At(w, "check") /\ dest.file = writer[w].seen.file
  /\ writer' = [writer EXCEPT ![w].pc = "rename"]
  /\ UNCHANGED <<fs, acked, calls, removals, crashes>>

\* The rename; the number of the file it replaces is free once the disk no
\* longer needs it.
Rename(w) ==
  /\ At(w, "rename")
  /\ dest' = [file |-> writer[w].tmp, version |-> dest.version + 1]
  /\ free' = free \cup (Released(dest.file) \ {diskDest.file})
  /\ writer' = [writer EXCEPT ![w].seen = dest', ![w].pc = "sync_dir"]
  /\ UNCHANGED <<inode, diskDest, acked, calls, removals, crashes>>

\* The disk takes the current entry.
EntryWritten ==
  /\ diskDest' = dest
  /\ free' = free \cup (Released(diskDest.file) \ {dest.file})

\* Mutant: Ok is returned before the directory is synced.
SyncDirSkipped(w) ==
  /\ At(w, "sync_dir")
  /\ acked' = IF writer[w].seen.version > acked THEN writer[w].seen.version ELSE acked
  /\ writer' = [writer EXCEPT ![w] = Idle]
  /\ UNCHANGED <<fs, calls, removals, crashes>>

\* The directory is synced and the write returns Ok.
SyncDir(w) ==
  /\ At(w, "sync_dir")
  /\ EntryWritten
  /\ acked' = IF writer[w].seen.version > acked THEN writer[w].seen.version ELSE acked
  /\ writer' = [writer EXCEPT ![w] = Idle]
  /\ UNCHANGED <<inode, dest, calls, removals, crashes>>

\* An error return, at any step; the temporary file is deleted when it has not
\* become the destination.
Fail(w) ==
  /\ ~ At(w, "idle")
  /\ free' = IF At(w, "sync_dir") THEN free ELSE free \cup Released(writer[w].tmp)
  /\ writer' = [writer EXCEPT ![w] = Idle]
  /\ UNCHANGED <<inode, dest, diskDest, acked, calls, removals, crashes>>

-----------------------------------------------------------------------------
(* The rest of the world.                                                  *)

\* Another program removes the destination, or puts a symlink in its place.
Interfere ==
  /\ dest.file \in Inodes
  /\ removals < MaxRemovals /\ removals' = removals + 1
  /\ \E entry \in {NoFile, Special} :
       dest' = [file |-> entry, version |-> dest.version + 1]
  /\ free' = free \cup (Released(dest.file) \ {diskDest.file})
  /\ UNCHANGED <<inode, diskDest, writer, acked, calls, crashes>>

WriteBackEntry ==
  /\ diskDest # dest
  /\ EntryWritten
  /\ UNCHANGED <<inode, dest, writer, acked, calls, removals, crashes>>

\* The machine stops: the entry is the one on disk or the current one, and a
\* file that was not synced may be torn.  Temporary files stay where they are.
Crash ==
  /\ crashes < MaxCrashes /\ crashes' = crashes + 1
  /\ dest' \in {dest, diskDest} /\ diskDest' = dest'
  /\ \E torn \in SUBSET {i \in Inodes : ~ inode[i].synced} :
       inode' = [i \in Inodes |-> IF i \in torn THEN Blank
                                  ELSE [inode[i] EXCEPT !.synced = TRUE]]
  /\ writer' = [w \in Writers |-> Idle]
  /\ UNCHANGED <<free, acked, calls, removals>>

Next ==
  /\ UNCHANGED reuse
  /\ \/ \E w \in Writers :
          \/ \E m \in Manifests \cup Refused : Begin(w, m)
          \/ Snapshot(w) \/ CreateTemp(w) \/ WriteTemp(w) \/ SyncTemp(w)
          \/ Check(w) \/ Rename(w) \/ SyncDir(w) \/ Fail(w)
     \/ Interfere \/ WriteBackEntry \/ Crash

Spec == Init /\ [][Next]_vars

-----------------------------------------------------------------------------
(* Properties.                                                             *)

\* Type correctness: entries and temporary files name distinct files that are
\* in use.
TypeOK ==
  /\ \A i \in Inodes : inode[i].data \in Manifests \cup {Torn}
  /\ {dest.file, diskDest.file} \subseteq (Inodes \ free) \cup {NoFile, Special}
  /\ acked \in Nat /\ dest.version \in Nat
  /\ \A w \in Writers : writer[w].pc \in {"write", "sync", "check", "rename"} =>
       /\ writer[w].tmp \in Inodes \ (free \cup {dest.file, diskDest.file})
       /\ \A o \in Writers \ {w} :
            writer[o].pc \in {"write", "sync", "check", "rename"} =>
              writer[o].tmp # writer[w].tmp

\* The destination is at every moment, and would be after a crash, either
\* absent or a whole manifest that some writer was given: no reader ever loads
\* a torn one (lib.rs, "The destination is replaced atomically from a temporary
\* file in the same directory after the bytes ... are synced").
DestinationWhole ==
  \A entry \in {dest, diskDest} :
    entry.file \in Inodes =>
      inode[entry.file].data \in Manifests /\ inode[entry.file].synced

\* No crash takes back a write that returned Ok (the directory handle "is
\* synced after the rename").
AckedSurvives == acked <= dest.version /\ acked <= diskDest.version

\* A write that saw a regular file at its snapshot and goes on to rename has
\* checked that nobody replaced that file in between, on a file system that
\* does not give inode numbers out again (lib.rs, "was replaced during the
\* write; coordinate concurrent writers and retry").  An absent destination
\* may have come and gone unnoticed.
CheckedUnchanged ==
  [][\A w \in Writers :
       /\ ~ reuse
       /\ At(w, "check") /\ writer'[w].pc = "rename" /\ writer[w].seen.file \in Inodes
       =>
         dest.version = writer[w].seen.version]_vars
=============================================================================
