------------------------------ MODULE IndexFile ------------------------------
(***************************************************************************)
(* Persistence of an index at one path (src/src/rank_io.rs).  write()      *)
(* checks what it is about to emit, then truncates the file and writes it  *)
(* in place through a BufWriter, without fsync or rename; load() and       *)
(* probe_index_metadata() take the file length once, then read.  Several   *)
(* processes do so at one path, any of them may die, and the machine may   *)
(* lose what the kernel had not written back.                              *)
(*                                                                         *)
(* A file is a sequence of cells: one for the header (magic, version, type *)
(* parameters and n_vectors, a few bytes of one sector), then one per      *)
(* coordinate.  A cell that was never written, or whose write was lost,    *)
(* reads 0.                                                                *)
(*                                                                         *)
(* Files_proof extends this module beside ManifestWrite, so that its names *)
(* are others.                                                             *)
(***************************************************************************)
EXTENDS Integers, Sequences, FiniteSets

CONSTANTS
  Formats,    \* the on-disk formats considered
  Dim,        \* coordinates of a document
  Buckets,    \* 2^bits of RankQuant and FastScan
  NTop,       \* n_top of Bitmap
  Lanes,      \* documents of a FastScan block (32)
  MaxRows,    \* most rows that MAX_VECTORS and MAX_PAYLOAD let through
  Holdings,   \* Holdings[f]: the sequences of rows an index of format f may hold
  Savers,     \* processes that save
  Readers     \* processes that load or probe

VARIABLES
  format,     \* the format of the path (fixed)
  file,       \* the cells of the file, or Absent
  disk,       \* what the kernel wrote back last: cells, and history then
  saver,      \* saver[w]: the save w is in, or AtRest
  reader,     \* reader[r]: the load or probe r is in, or its result
  last,       \* history: the last save that passed its check, and its fate
  saves,      \* how many saves have begun
  stops       \* how many times the machine has stopped

fileVars == <<format, file, disk, saver, reader, last, saves, stops>>

CONSTANTS MaxSaves, MaxStops   \* bounds on saves and stops

AllFormats == {"Rank", "RankQuant", "Bitmap", "SignBitmap", "RankQuantFastscan"}
Coords == 1 .. Dim

Absent == <<-1>>
AtRest == [pc |-> "idle"]

-----------------------------------------------------------------------------
(* The bytes of an index.                                                  *)

\* The header cell: its magic tells it from any coordinate.
Magic == 1000
Header(n) == Magic + n

\* How often value v occurs in a row.
Occurs(row, v) == Cardinality({c \in Coords : row[c] = v})

\* A Rank row: a permutation of 0 .. Dim - 1.
Permutation(row) == {row[c] : c \in Coords} = 0 .. Dim - 1

\* A RankQuant row: every bucket holds as many coordinates as any other.
ConstantComposition(row) ==
  \A b \in 0 .. Buckets - 1 : Occurs(row, b) * Buckets = Dim

\* A Bitmap row: n_top bits are set.
ConstantWeight(row) == Occurs(row, 1) = NTop

\* What every row of a format satisfies, and its loader checks.
RowInvariant(f, row) ==
  CASE f = "Rank" -> Permutation(row)
    [] f \in {"RankQuant", "RankQuantFastscan"} -> ConstantComposition(row)
    [] f = "Bitmap" -> ConstantWeight(row)
    [] f = "SignBitmap" -> TRUE

\* An index holds rows of its format, and bits where these are bits.
Parameters ==
  /\ Formats \subseteq AllFormats
  /\ {Dim, Buckets, Lanes} \subseteq Nat \ {0} /\ {NTop, MaxRows, MaxSaves, MaxStops} \subseteq Nat
  /\ \A f \in Formats :
       /\ Holdings[f] \subseteq Seq([Coords -> Nat])
       /\ \A rows \in Holdings[f] : \A i \in DOMAIN rows :
            /\ RowInvariant(f, rows[i])
            /\ f = "Bitmap" => \A c \in Coords : rows[i][c] \in {0, 1}

ASSUME IndexFileAssumption == Parameters

\* Rows the payload has room for: FastScan pads its last block.
Slots(f, n) ==
  IF f = "RankQuantFastscan" THEN ((n + Lanes - 1) \div Lanes) * Lanes ELSE n

\* The place in the file of coordinate c of row i: rows one after the other,
\* or, in a FastScan block, its lanes side by side.
Place(f, i, c) ==
  IF f = "RankQuantFastscan"
  THEN 1 + ((i - 1) \div Lanes) * Lanes * Dim + (c - 1) * Lanes + ((i - 1) % Lanes) + 1
  ELSE 1 + (i - 1) * Dim + c

PayloadLen(f, n) == Slots(f, n) * Dim

\* What write_*_to_checked emits for an index.
Image(f, rows) ==
  LET n == Len(rows)
      At(p) == IF \E i \in 1 .. n, c \in Coords : Place(f, i, c) = p
               THEN LET ic == CHOOSE ic \in (1 .. n) \X Coords : Place(f, ic[1], ic[2]) = p
                    IN  rows[ic[1]][ic[2]]
               ELSE 0
  IN  [p \in 1 .. 1 + PayloadLen(f, n) |-> IF p = 1 THEN Header(n) ELSE At(p)]

\* The rows a reader finds in the cells it has read.
RowsIn(f, cells, n) == [i \in 1 .. n |-> [c \in Coords |-> cells[Place(f, i, c)]]]

\* Mutant: only the FastScan padding is checked.
PayloadValidPaddingOnly(f, cells, n) ==
  f = "RankQuantFastscan" =>
    \A i \in n + 1 .. Slots(f, n), c \in Coords : cells[Place(f, i, c)] = 0

\* The loader's checks on the payload: every row, and the FastScan padding.
PayloadValid(f, cells, n) ==
  /\ \A i \in 1 .. n : RowInvariant(f, RowsIn(f, cells, n)[i])
  /\ f = "RankQuantFastscan" =>
       \A i \in n + 1 .. Slots(f, n), c \in Coords : cells[Place(f, i, c)] = 0

-----------------------------------------------------------------------------
(* Saving.                                                                 *)

FileInit ==
  /\ format \in Formats
  /\ file = Absent
  /\ saver = [w \in Savers |-> AtRest]
  /\ reader = [r \in Readers |-> AtRest]
  /\ last = [rows |-> <<>>, fate |-> "none"]
  /\ disk = [cells |-> file, last |-> last]
  /\ saves = 0 /\ stops = 0

\* Every reader that is under way sees the file change under it.
Disturbed ==
  [r \in Readers |-> IF reader[r].pc \in {"opened", "reading"}
                     THEN [reader[r] EXCEPT !.quiet = FALSE] ELSE reader[r]]

\* check_*_write refuses before File::create: the file is left as it was.
RejectSave(w, rows) ==
  /\ saver[w].pc \in {"idle", "rejected"} /\ Len(rows) > MaxRows
  /\ saver' = [saver EXCEPT ![w] = [pc |-> "rejected"]]
  /\ UNCHANGED <<format, file, disk, reader, last, saves, stops>>

\* File::create truncates in place.
BeginSave(w, rows) ==
  /\ saver[w].pc \in {"idle", "rejected"} /\ Len(rows) <= MaxRows
  /\ saves < MaxSaves /\ saves' = saves + 1
  /\ file' = <<>>
  /\ saver' = [saver EXCEPT ![w] = [pc |-> "saving", image |-> Image(format, rows), done |-> 0]]
  /\ reader' = Disturbed
  /\ last' = [rows |-> rows,
              fate |-> IF \E o \in Savers : saver[o].pc = "saving"
                       THEN "mixed" ELSE "saving"]
  /\ UNCHANGED <<format, disk, stops>>

\* The file with cells from..upto of an image written at their place; a gap
\* left by another save's truncation reads 0.
Overwritten(image, from, upto) ==
  [p \in 1 .. (IF upto > Len(file) THEN upto ELSE Len(file)) |->
     IF p \in from .. upto THEN image[p]
     ELSE IF p <= Len(file) THEN file[p] ELSE 0]

\* The BufWriter hands some more of the image to the kernel.
WriteMore(w) ==
  /\ saver[w].pc = "saving"
  /\ \E upto \in saver[w].done + 1 .. Len(saver[w].image) :
       /\ file' = Overwritten(saver[w].image, saver[w].done + 1, upto)
       /\ IF upto = Len(saver[w].image)
          THEN /\ saver' = [saver EXCEPT ![w] = AtRest]
               /\ last' = IF last.fate = "saving" THEN [last EXCEPT !.fate = "saved"] ELSE last
          ELSE /\ saver' = [saver EXCEPT ![w].done = upto]
               /\ UNCHANGED last
  /\ reader' = Disturbed
  /\ UNCHANGED <<format, disk, saves, stops>>

\* The history when the save it tells of is cut short.
Interrupted(history) ==
  IF history.fate = "saving" THEN [history EXCEPT !.fate = "partial"] ELSE history

\* A write error, or the death of the process: what was written stays.
AbandonSave(w) ==
  /\ saver[w].pc = "saving"
  /\ saver' = [saver EXCEPT ![w] = AtRest]
  /\ last' = Interrupted(last)
  /\ UNCHANGED <<format, file, disk, reader, saves, stops>>

-----------------------------------------------------------------------------
(* Loading.                                                                *)

\* The length is taken once, on the open file.
Open(r, kind) ==
  /\ reader[r].pc = "idle" /\ file # Absent
  /\ reader' = [reader EXCEPT ![r] =
       [pc |-> "opened", kind |-> kind, len |-> Len(file), quiet |-> TRUE]]
  /\ UNCHANGED <<format, file, disk, saver, last, saves, stops>>

\* A call that has ended, with the rows it returns (or their number) and the
\* history to judge it by.
Returned(r, rows) == [pc |-> "returned", kind |-> reader[r].kind, ok |-> TRUE,
                      rows |-> rows, quiet |-> reader[r].quiet, against |-> last]
Failed(r) == [pc |-> "returned", kind |-> reader[r].kind, ok |-> FALSE,
              rows |-> <<>>, quiet |-> reader[r].quiet, against |-> last]

\* The header, and the check that the payload it declares is exactly the rest
\* of the file: a probe stops here.
HeaderAccepted(r) ==
  LET n == file[1] - Magic
  IN  /\ file # <<>> /\ n \in 0 .. MaxRows
      /\ PayloadLen(format, n) = reader[r].len - 1

\* probe_index_metadata answers for every format but FastScan.
ProbeCovered(f) == f # "RankQuantFastscan"

ReadHeader(r) ==
  /\ reader[r].pc = "opened"
  /\ reader' = [reader EXCEPT ![r] =
       IF ~ HeaderAccepted(r) \/ (reader[r].kind = "probe" /\ ~ ProbeCovered(format))
       THEN Failed(r)
       ELSE IF reader[r].kind = "probe" THEN Returned(r, file[1] - Magic)
       ELSE [pc |-> "reading", kind |-> "load", quiet |-> reader[r].quiet,
             n |-> file[1] - Magic, cells |-> <<file[1]>>]]
  /\ UNCHANGED <<format, file, disk, saver, last, saves, stops>>

\* read_exact takes some more of the payload, or runs into the end of a file
\* that became shorter; the last read is followed by the checks on the rows.
ReadMore(r) ==
  /\ reader[r].pc = "reading"
  /\ LET n == reader[r].n
         have == Len(reader[r].cells)
         want == 1 + PayloadLen(format, n)
     IN  \E upto \in (IF have = want THEN {want} ELSE have + 1 .. want) :
           LET cells == reader[r].cells \o SubSeq(file, have + 1, upto)
           IN  reader' = [reader EXCEPT ![r] =
                 IF upto > have /\ upto > Len(file) THEN Failed(r)
                 ELSE IF upto < want THEN [reader[r] EXCEPT !.cells = cells]
                 ELSE IF PayloadValid(format, cells, n)
                 THEN Returned(r, RowsIn(format, cells, n)) ELSE Failed(r)]
  /\ UNCHANGED <<format, file, disk, saver, last, saves, stops>>

Forget(r) ==
  /\ reader[r].pc = "returned"
  /\ reader' = [reader EXCEPT ![r] = AtRest]
  /\ UNCHANGED <<format, file, disk, saver, last, saves, stops>>

-----------------------------------------------------------------------------
(* The machine.                                                            *)

WriteBack ==
  /\ disk # [cells |-> file, last |-> last]
  /\ disk' = [cells |-> file, last |-> last]
  /\ UNCHANGED <<format, file, saver, reader, last, saves, stops>>

\* Everything running stops, and the file comes back as it was written back
\* last...
CrashToDisk ==
  /\ file' = disk.cells
  /\ last' = Interrupted(disk.last)

\* ... or with what was new at some length, any of its cells reading 0.
CrashLosing ==
  /\ file # disk.cells /\ file # Absent
  /\ \E len \in 0 .. Len(file) : \E lost \in SUBSET (1 .. len) :
       file' = [p \in 1 .. len |-> IF p \in lost THEN 0 ELSE file[p]]
  /\ last' = IF last.fate = "mixed" THEN last ELSE [last EXCEPT !.fate = "lost"]

Stop ==
  /\ stops < MaxStops /\ stops' = stops + 1
  /\ CrashToDisk \/ CrashLosing
  /\ disk' = [cells |-> file', last |-> last']
  /\ saver' = [w \in Savers |-> AtRest] /\ reader' = [r \in Readers |-> AtRest]
  /\ UNCHANGED <<format, saves>>

FileNext ==
  \/ \E w \in Savers : \/ \E rows \in Holdings[format] : RejectSave(w, rows) \/ BeginSave(w, rows)
                        \/ WriteMore(w) \/ AbandonSave(w)
  \/ \E r \in Readers : \/ \E kind \in {"load", "probe"} : Open(r, kind)
                        \/ ReadHeader(r) \/ ReadMore(r) \/ Forget(r)
  \/ WriteBack \/ Stop

FileSpec == FileInit /\ [][FileNext]_fileVars

-----------------------------------------------------------------------------
(* Properties.                                                             *)

\* A load or a probe that no save overtook returns what the last accepted save
\* was given, or fails; it succeeds if that save completed.  A save that was
\* refused, one cut short, a process that died and, for the formats whose rows
\* are checked, a machine that lost unwritten sectors are never taken for
\* another index (rank_io.rs, "anything T::write produces, T::load reloads",
\* "a rejected write never truncates an existing file", "fails loud instead of
\* returning a wrong-but-not-crashing result").
LoadExact ==
  \A r \in Readers : reader[r].pc = "returned" =>
    LET done == reader[r]
        save == done.against
        rows == IF done.kind = "probe" THEN Len(save.rows) ELSE save.rows
    IN  done.quiet /\ save.fate # "mixed" =>
          /\ save.fate = "saved" => done.ok = (done.kind = "load" \/ ProbeCovered(format))
          /\ done.ok /\ (save.fate = "lost" => format # "SignBitmap" \/ done.kind = "probe")
               => done.rows = rows
=============================================================================
