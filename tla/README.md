# ordvec: a TLA+ verification project

This directory holds TLA+ models of the ordvec crates, the TLC configurations
that check them on small instances, and TLAPS proofs of what matters most for
every value of the parameters.  Paths such as `src/src/quant.rs` are relative to
the root of the repository's checkout (`src/` is that checkout).  Definitions
keep the names of the code where TLA+ allows it; `PROJECT.json` maps each one to
the lines it stands for.

To repeat a check: `tlc -workers 2 -config MCTwoStage.cfg MCTwoStage.tla`; to
repeat a proof: `tlapm SignScan_proof.tla`.

## 1. The system

ordvec is a training-free vector index.  A document is turned into the ranks of
its coordinates and stored as ranks, as a few bits per rank, or as bitmaps.
Searches score a corpus with integer or table-driven kernels and keep the top k.
Around the library stand a manifest crate (what an index file must be before it
is loaded), a C interface and bindings for Go and Python.

| part | files | state it keeps | operations | interacts with |
|---|---|---|---|---|
| top-k collector | `src/src/util.rs` | kept entries, cached worst entry, tie keys, score offset | reset, insert, finalise | every ranked search |
| Rank | `src/src/rank.rs` | rank rows, `n_vectors` | add, swap_remove, search, save, load | util, rank_io |
| RankQuant | `src/src/quant.rs` | packed rows, `n_vectors` | add, swap_remove, search, subset rerank (single, batched, serial with scratch) | util, kernels, SignBitmap / Bitmap candidates, rank_io |
| kernels | `src/src/quant_kernels.rs` | none | SIMD and scalar scoring | quant, fastscan |
| Bitmap | `src/src/bitmap.rs` | top-n membership bitmaps | add, swap_remove, search, batched candidates | util, rank_io |
| SignBitmap | `src/src/sign_bitmap.rs` | sign bitmaps | add, swap_remove, candidates single and batched (CSR) | RankQuant rerank, rank_io |
| FastScan | `src/src/fastscan.rs` | blocks of 32 documents | add (once), search, save, load | kernels, rank_io |
| experimental encodings | `multi_bucket.rs`, `bucket_code.rs`, `const_weight_bitmap.rs`, `contingency.rs` | bitmaps, code tables, counts | encode, decode, count | none of the above |
| index files | `src/src/rank_io.rs` | one file per index | write, load, probe | all containers, manifest |
| manifest verification | `ordvec-manifest/src/lib.rs` | none (files) | create, verify (with profiles and attestations), load plan | rank_io probe, file system |
| manifest writer | `ordvec-manifest/src/lib.rs` | one file | write | file system, other writers |
| registry | `ordvec-manifest/src/sqlite.rs` | `verification_reports`, `active_manifest` | init/migrate, verify with cache, activate | verification, sqlite, other processes |
| command line | `ordvec-manifest/src/main.rs` | none | calls the two above | |
| C interface | `ordvec-ffi/src/lib.rs` | index handles, a last error per thread | load, info, search, free | library |
| Go binding | `ordvec-go/ordvec.go` | one C handle, a lock, `closed` | Load, Info, Search, Close, finaliser | C interface, Go runtime |
| Python bindings | `ordvec-python/src/lib.rs`, `ordvec-manifest-python/src/lib.rs` | wrapped indexes, borrow flags | methods with the GIL released | library |

### What is hard

* **State carried along a loop.**  The collector trusts a cached worst entry; the
  sign scan trusts a cached bound per query; the rerank re-uses a scratch across
  rows and calls.  An error shows only for particular orders of insertion.
* **Hand-advanced nested loops** with short last blocks and tiles, CSR offsets,
  sentinels for missing results, `k` or `m` of 0 or above the corpus size.
* **Kernels that must agree**: the scan of a row is picked by CPU, width and
  dimension; some subtract the centres at the end, some quantise the query to 8
  bits, some count in 16 bits.  An index saved on one machine is searched on another.
* **Two indexes of one corpus**, which only their lengths tell apart.
* **Output buffers that belong to the caller**: everything must be refused before
  the first write.
* **Files**: a save truncates and rewrites in place; a manifest is replaced by a
  rename and two syncs; a file may change between being probed, hashed and loaded.
* **Processes**: several of them open, migrate and use one sqlite registry, or
  write one manifest.
* **Bindings**: a handle shared by goroutines, a finaliser, an error kept per
  OS thread; a GIL released while a method runs.

`PROJECT.json` lists the hazards with their lines under `hazards`.

### What makes each part correct

| part | correctness |
|---|---|
| collector | at every moment it holds the best entries offered so far, under (score descending, tie key ascending) |
| subset rerank | each row is the top k of its own candidates; no row depends on an earlier one, an earlier call or the order of candidates; no accepted call panics half way |
| rank indexes | whatever the kernel, the width and the history, a search gives the documents of the best score their codes have by definition, ties to the lower number |
| evidence | scores, contingency tables, bitmaps and projections of the same codes say the same |
| two stages | a call made while both indexes hold the caller's documents gives the best of the nearest; one made while they do not names documents that exist |
| sign candidates | the blocked, tiled scan gives each query what the single-query path gives it |
| bitmap index | rows survive additions and removals of others, and all its calls agree on the answer |
| index files | a load returns what was saved last, or fails; a rejected save leaves the file alone |
| manifest writer | the destination is always absent or a whole manifest; an acknowledged write survives a crash |
| registry | a cached success is reused only while a fresh verification would succeed; a migration loses nothing; the active pointer has its evidence |
| verification and creation | a manifest created from a file that nobody changes verifies; a plan names bytes that were verified |
| bindings | no call uses a freed handle; a call reads its own error; no method runs on data that another mutates |

## 2. The modules

### TopK, SubsetRerank (`util.rs`, `quant.rs`)

`TopK` is the collector as a record and its operations as operators.  A score is
a natural number that stands for its position in `f32::total_cmp`; adding the
query-constant offset of the SIMD kernels is a function on scores that may map
two scores to one, as rounding does.  `RecomputeWorst` picks the first slot that
no other slot is worse than (the loop moves only to a strictly worse slot), and
`FinalizeInto` is the sort by (score descending, tie key ascending).

`SubsetRerank` is `search_asymmetric_subset_batched_serial_into`: the caller's
arguments (`call`), its output buffers (`out`), its scratch (`scratch`, which
outlives the call), and the loop's row and scan position.

| action | code |
|---|---|
| `BeginCall` | the asserts and `validate_csr_batch`: `Reject` leaves everything, `Accept` enters the row loop or returns when there is nothing to do |
| `BeginRow` | load the query, gather the row, reset the collector with the row's ids as tie keys, set the SIMD offset |
| `ScanDoc` | one `maybe_insert` |
| `FinishRow`, `PadEmptyRow` | finalise, map scan positions to ids, write the row (or sentinels) |
| `ClearScratch` | `SubsetScratch::clear` by the caller |

### SignScan (`sign_bitmap.rs`)

A `SignBitmap` that grows (`Add`) and shrinks (`SwapRemove`), and
`top_m_candidates_batched_serial_csr` over `top_m_candidates_streamed`:
`ScoreTile` is `sign_scan_collect_batched` into the reused score buffer (rows of
stride `BlockLen`), `CollectDoc` one iteration of the innermost loop with its
bounded heap and cached bound, `EmitRow` the sort and the CSR append.
`TopMCandidates` is the single-query path, the reference the batch is compared
with.  Block and tile sizes are constants.

### Ranks, Kernels, MultiBucket, Evidence (`rank.rs`, `quant_kernels.rs`, `fastscan.rs`, `multi_bucket.rs`, `bucket_code.rs`, `const_weight_bitmap.rs`, `contingency.rs`)

Pure operators.  `Ranks` is the rank transform (ties by coordinate), the bucket
codes and their packing into bytes; `Kernels` the scans of a packed row: the
lookup tables, the AVX2 and AVX-512 scans with their lanes and their dispatch
(`SimdTier`), the byte tables, and FastScan's blocks, its 8-bit query table and
its 16-bit sums.  A query holds integers, centres are doubled, and the constant
norm is left out, so that a score is an exact integer; rounding of `f32` sums is
not modelled.  Lanes, words, blocks and the wrap of the 16-bit sum are constants,
small in the instance so that every kernel has whole groups and a rest.
`MultiBucket` has the bucket bitmaps, contingency rows and bilinear scores,
`Evidence` the checked codes, constant-weight bitmaps with the tail of their
hypergeometric null (a pair of integers), both histogram kernels and the
projections of a table.

### RankIndexes (`rank.rs`, `quant.rs`, `fastscan.rs`, `multi_bucket.rs`, `ordvec-ffi`)

One index of one kind, dimension, width and CPU (`config`), its flat buffer
(`buf`) and count, and the answer of the call that has not been taken yet.

| action | code |
|---|---|
| `Add` (`AddRows`, `AddFastscan`) | `add`: limits checked, rows encoded and appended; a FastScan index is packed once |
| `SwapRemove` | the last row copied over the removed one |
| `Restart` | `write`, and `load` in another process with its checks of every row |
| `Search`, `SearchAsymmetric`, `SearchFastscan` | the scan of every row into the collector of `TopK`, with the kernel `SimdTier` picks |
| `SearchSubset`, `SearchByteLut` | the rerank of a list of candidates; the byte-table scan kept for benchmarks |
| `SearchAbi` | `ordvec_index_search`, with the checks and the final order of `Abi` |
| `TopMBilinear` | the bilinear scan of a `MultiBucketBitmap`, ties in any order |

`IndexLikeStore` maps the buffer to a list of codes and each call to a call of
`DocStore`, with the score the codes have by definition (`Affinity`).

### TwoStage (`quant.rs`, `sign_bitmap.rs`)

Composes `SignScan` and `RankIndexes`.  A behaviour is about a sign index alone,
a rank index alone, or a pair.  The caller of a pair changes the sign index first
and the rank index later (`PairAdd`, `PairRemove`, `CatchUp` over `backlog`), asks
for one query (`Probe`, `try_search_with_sign_probe_with_policy`), or carries a
`CandidateBatch` (`Scan`, the steps of `SignScan`, `Take`, `RerankHeld`) which may
be stale when it is reranked.

### DocStore, BitmapIndex (`bitmap.rs`)

`DocStore` is what a `Bitmap` promises, without words and kernels: a list of
documents, a removal that gives the last one the free number, and answers by
(overlap descending, number ascending).  `BitmapIndex` is the code: one flat
buffer of words (`bitmaps`, rows of `Qpv` words) and its count.  `Add` and
`SwapRemove` rewrite the buffer; `Search` folds the collector of `TopK` over the
rows; `TopMCandidates` and `SearchSubset` cut (`Selected`, the order `Ahead`); the chunked call runs
`BeginChunked`, then for each chunk, in any order, `BeginChunk`, the kernel
(`HotPass` for full groups, `TailPass` for the rest, `ScalarPass` without
AVX-512) and `Select`, and ends with `Collect`.  `top_m_candidates_batched` is a
chunked call with one chunk.  Chunks share nothing and the index is borrowed
meanwhile, so they are scored one after the other, in any order.  `Return` hands
an answer to the caller.  Ranks and sorted places are counted (how many
coordinates come before) instead of sorted.  `AnswersLikeStore` maps row `i` of
the buffer to document `i` of `DocStore`.  Of coordinates that tie at the cutoff a
query keeps the lower ones (`QueryBitmap`) and a document the higher ones
(`RowOf`), as the code does: a vector with such ties need not match its own row.

### IndexFile (`rank_io.rs`)

One path, one format.  A file is a sequence of cells: the header, then one cell
per coordinate at the `Place` the layout gives it (row-major, or lane by lane in
a FastScan block, padding included).  A save checks, truncates in place
(`BeginSave`) and hands over any number of cells at a time (`WriteMore`); a load
takes the length once (`Open`), accepts or refuses the header (`ReadHeader`),
reads any number of cells at a time and checks the rows (`ReadMore`).  A process
may die and the machine may stop: `Stop` brings back what was written back last,
or a prefix of the new file in which any cells read 0.  `last` records what the
last accepted save was given and its fate, for the property.  `Parameters` says
what an index may hold: rows that satisfy what their loader checks (`RowInvariant`),
as every row the other modules build does; `IndexFileAssumption` makes it an
assumption, and `MCIndexFile` satisfies it.

### ManifestWrite (`lib.rs`, `write_manifest_file`)

`Begin`, `Snapshot`, `CreateTemp`, `WriteTemp`, `SyncTemp`, `Check`, `Rename`,
`SyncDir` are the calls of the function in their order, `Fail` an error return
from any of them.  Inodes hold contents that are torn by a crash until synced; a
directory entry is on disk once written back.  `Interfere` is another program
that removes the destination or puts something else in its place.

### Registry (`sqlite.rs`)

Each process runs `verify_with_registry` or `activate`, one action per sqlite
statement or file read: `CheckReports` / `Migrate` (one IMMEDIATE transaction),
`CheckActive` / `DropActive` (two statements, no transaction), `CreateReports`,
`CreateActive`, `KeyManifest`, `KeyArtifact`, `KeyProfile`, `Lookup`,
`HashArtifact`, `ProbeArtifact`, `HashProfile`, `StampKey`, `StoreReport`,
`Activate`.  Files are replaced between any two of them.  One profile stands for
every other file a manifest may declare, because each enters the verdict and the
cache key in the same way.


### ManifestPaths, Profiles, LoadPlan (`lib.rs`: creation, verification, load plans)

`ManifestPaths` has the rules for embedded paths: what creation writes for a file
(relative, canonical, escaping, absolute), what verification demands of the text
and where it lets the text lead.  `Profiles` has the checks of the
encoder-distortion profile and of the calibration profile, each a list of issues
in the order the code makes them.

`LoadPlan` is the life of one manifest.  `CreateProbe`, `CreateHash`,
`CreateRows`, `CreateAux` and `CreateManifest` are
`create_manifest_for_index_with_options`; `LoadManifest`, `VerifyShape`,
`ResolveArtifact`, `HashArtifact`, `ProbeArtifact`, `ResolveAux`, `HashAux`,
`ResolveRows`, `ReadRows`, `VerifyDistortion`, `HashDistortion`,
`VerifyCalibration`, `HashCalibration`, `VerifyAttestations` and `Finish` are
`verify_manifest_with_path_capture` and `VerifiedLoadPlan::from_report`, one
action for each opening of a file.  `ValidateJsonlRows` folds `NextLine`, one
iteration of the row loop, over the lines of a row map; `PushBounded` and
`EnforceLimit` are the two ways an issue list is kept below its limit.  `Replace`
puts another file in the place of any of them between two steps (by a rename: a
file that is rewritten while it is read is not modelled).  `raised`, `read` and
`calm` are history variables.  Simplifications: the paths of the index and of the
row map are not empty; a created manifest is verified as the document it is,
without writing and parsing it (the size limit of a manifest applies to those that
come from elsewhere); one byte ceiling stands for those of all file kinds; the
tolerance for rounding of estimated distortions is zero.

### HandleLife, GoIndex (`ordvec-ffi`, `ordvec-go`)

`HandleLife` is what the "Safety" sections of the C interface demand of a
handle's users.  `GoIndex` is the binding: `Probe`, `Load` and `Call` begin an
operation; `RLock`, `ClaimLock`, `Lock` and `Unlock` are `sync.RWMutex` (a writer
keeps new readers out and lets those that waited in when it leaves); `CheckOpen`
is the beginning of `Search` and `Info`; `EnterC`, `LeaveC`, `LastError` and
`CopyError` are `callStatus` and `statusError` around a C function, which sets or
clears the last error of its thread; `Loaded` and `Described` are the rest of
`Load`; `Free` is `Close`.  `Finalize` is the garbage collector, `Drop` a
goroutine's last use.  A goroutine that is not locked to a thread may run its next
step on any thread that is not taken, which is what the scheduler may do.  Freeing
a handle twice makes it "undefined".

### PyIndex (`ordvec-python`)

One index object and the Python threads that call its methods.  `Begin` takes the
interpreter lock and the borrow (`flag`, PyO3's), `Coerce`, `Cast` and `Reacquire`
are the conversion of an array of another type, `Reject` and `Detach` the checks
and the copy, `ScanCell`, `Grow` and `Fill` the work without the lock, `Return`
the way back under it.  `SwapRemove` keeps the lock.  `AssignFloat` and
`AssignIds` are other Python code that writes into the arrays.

## 3. The runs

Every run is one line of `runs` in `PROJECT.json`.  TLC explores the instance
completely.

| run | question | bounds, and why they are enough |
|---|---|---|
| `subset_rerank` | is every row of every call its own top k? | 3 documents and 2 queries with 4 score tables (ties at the top, at the bottom, everywhere, nowhere); k below, at and above the row and the corpus; an offset that makes two scores equal; rows that repeat, are empty or short; every offset sequence of three values up to 2 and some beyond.  Calls follow each other for ever over one scratch, so that every kind of row comes after every other. |
| `two_stage` | does the blocked scan agree with the plain one, does every rank index answer as the store does, and what does a pair of indexes answer? | Sign index: 4 coordinates, up to 3 documents in blocks of 2, 3 queries in tiles of 2: a full block and a short one, a full tile and a short one, m of 0, 1, 2 and above the corpus.  Rank index: every kind and width, in dimensions that are whole and partial for each kernel's lanes, up to 3 documents (4 where nothing is checked); candidates out of order, repeated and out of range; k of 0, below and above the corpus; FastScan with a flush in the middle of a row, a padded block and a 16-bit sum scaled down to 512.  Pair: 3 vectors of which two have equal signs, the rank index up to two changes behind, three policies. |
| `bitmap_index` | do the rows survive additions and removals, and do all calls agree? | 4 coordinates in 2 words a row, up to 4 documents, vectors that tie at the cutoff, everywhere or nowhere; queries in chunks of 1, 2 and 9 and kernel groups of 2, so that there are full groups, a rest and no rest; k and m of 0, below, at and above the corpus; subsets out of order, repeated, out of range. |
| `index_file` | what does a load return after a crash? | each of the 5 formats, 2 coordinates, saves of 1, 2 and 3 rows (3 is refused), 2 saves and 1 crash: a crash during a first save, during a second over a first, and during a load.  FastScan has a full block and a padded one.  For Bitmap also 3 saves by 2 processes, overlapping or not, without a crash (the constraint `Explored`): two that overlap, and a third that must clear what they left. |
| `manifest_write` | is the destination whole, is an acknowledged write kept, does the check before the rename see a replacement? | 2 writers, 3 calls, a refused manifest, 1 interference, 1 power loss, 4 inodes; a behaviour decides at its start whether inode numbers are given out again. |
| `registry` | are hits, activations and migrations sound? | 2 processes, 2 commands in all, old or absent tables, 2 replacements, 2 manifests of which one has a profile, files that differ in digest, metadata or size.  Two commands are the shortest race, and a command that finds the cache another has filled.  Replacements fall between commands (`EditDuringCalls`); the next run puts them inside. |
| `registry_stale` (violated) | is a reused report about the manifest it answers for? | 1 process, 2 commands, 2 replacements at any moment. |
| `registry_drop` (violated) | does opening leave a current table alone? | as `registry`. |
| `load_plan` | is a plan what was verified? | 2 replacements at any moment (one to break, one to restore); indexes that differ in digest, size, metadata, kind or place, or cannot be read; row maps that are short, long, repeated, misnumbered, malformed, too long in a line; 2 auxiliary artifacts, required or optional; files inside, outside and under a directory named like a drive; limits on issues of 0, 1, 2 and 9, on rows and on tracked ids that bite.  Manifests that come from elsewhere are a good one, one with both profiles, and variants of these with a single defect each, whose files stay as they are. |
| `load_plan_create` (violated) | do a created manifest's metadata and digest describe one file? | the same. |
| `go_index` | is the handle safe, is the error the caller's own, does every call return? | 2 goroutines and the finalizer, each on a thread of its own if it likes; operations for ever.  Two goroutines and the finalizer make a reader, a writer and a waiting reader; a third goroutine adds no new kind of holder. |
| `py_index` | does a call return what it checked, and does every call return? | 2 threads, an index of up to 2 documents, an array of one row with finite and other values, two lists of ids; calls for ever.  Two threads make a reader with a reader, a reader with a refused writer, and an assignment into an array in use. |

`CHECK_DEADLOCK FALSE` is set where the calls are bounded and the system really
stops: the manifest writer, the registry and the load plan.

### The properties

* `CollectorExact`, `RowsExact`, `SlicesInBounds`: the collector at every step;
  the rows written so far against a definition from the arguments alone; no slice
  out of range once the first output is written.
* `HeapExact`, `CsrExact`: each heap at every step; each row of the batch equals
  `TopMCandidates`, and the batch is one the rerank accepts.
* `Persistable`, `ConstantWeight`, `ScoresExact`, `AnswersLikeStore`: the buffer
  fits its count and the loader's limits; every row has `n_top` bits; the score
  buffer between two kernel passes; the refinement of `DocStore`, by which
  search, candidates and subset search agree after any history.
* `IndexLikeStore`, `FastscanNear`, `ScalesExact`: the refinement of `DocStore`
  by the other indexes; FastScan's sum within half a level per pair of the exact
  score; the norm a score is divided by is the one the stored codes have.
* `EvidenceAgrees`, `NullExact`: every route to the same count or score agrees;
  the tail of the null counts bitmaps.
* `TwoStageExact`: a fresh call gives the best of the nearest; a stale one names
  documents that exist, once, in the order of their scores.
* `ReturnsExact` (Python): the result is that of the index and the arguments the
  call checked, whatever other threads did meanwhile.
* `LoadExact`: what a load returns, against the last accepted save and its fate.
  A load that a save overtook is left out: the code has nothing to detect it.
  After a power loss SignBitmap and Bitmap are judged as far as their rows can be
  checked: a sign row of zeros is a legal row.
* `DestinationWhole`, `AckedSurvives`, `CheckedUnchanged`.  The last one holds
  only where inode numbers are not given out again, and for a destination that
  was a regular file at the snapshot: an absent one may come and go unnoticed.
  The code's documentation asks callers to serialize writers.
* `HitSound`, `ActivationBacked`, `LogKept`: a cached report is reused only for the
  document and the artifact it was made for (`ReusedReportMatches`, by itself in
  `registry_stale`), and one that is ok is what a fresh verification would say; an active manifest that was not
  forced has an ok report of itself; nothing stored is lost, migrations included.
* `VerdictKept`, `PlanSound`, `PlanComplete`, `CreatedVerifies`: no limit makes a
  failed check pass; a plan names what was read and matched; a report that is ok
  always makes a plan (`IncompletePlan` is never returned); what creation writes
  verification accepts, with three exceptions (below) and no other.
* `HandleSafe` (the refinement of `HandleLife`), `ErrorIsOwn`, `NotLeaked`.

### Liveness and fairness

`CallReturns` (rerank, bitmap index) and `ScanReturns` (sign scan, in `two_stage`) assume that a call that has
begun goes on: `WF_vars(Step)` (`Work` in `BitmapIndex`), where `Step` is the straight-line code of one
thread, which the operating system schedules.  Beginning a call is not fair.
`CallsReturn` (Go) assumes weak fairness of each goroutine's steps (the scheduler
is preemptive, and the C functions end) and strong fairness of `ClaimLock`:
several goroutines may want to be the next writer, and the mutex that
`sync.RWMutex` keeps for writers hands itself to the longest waiter in its
starvation mode.  That a finalizer runs at all is not assumed: Go does not
promise it.

`CallsReturn` (Python) assumes weak fairness of the steps of a thread that runs,
with or without the lock, and strong fairness of the steps that take the
interpreter lock: CPython makes its holder drop it when another thread asks, so a
thread that waits finds it free again and again.

### Findings

| run | the code | what its text says |
|---|---|---|
| `registry_stale` | the manifest is hashed for the cache key after the document that was verified was loaded: a manifest replaced in between gives the new manifest the old one's report | `ordvec-manifest/README.md:472`, "reuses only reports whose manifest, ... still match" |
| `registry_drop` | the schema of `active_manifest` is read in one statement and the table dropped in another: a slow opener drops a table that is already current, with its activation | `sqlite.rs:753`, "once the table matches the current schema this is a no-op" |
| `load_plan_create` | the index is probed and hashed in two opens, and only sizes are compared: an index replaced by one of the same size gives a manifest that describes neither | `lib.rs:4286`, "any change between the metadata probe and the hash (concurrent writer) fails loudly" |

Met while modelling, and stated in the models as what the code does, without a
run that is violated by them:

* `CreatedVerifies` holds only with the exceptions `Refusable` names: creation
  accepts a blank model name, a required auxiliary artifact without content, and a
  path whose first name reads as absolute on another platform (`C:`); verification
  refuses all three.  The comment at `ordvec-manifest/src/lib.rs:5105` says "what
  create writes, verify (under the same policy flags) must accept".
* A candidate list longer than the index panics in `search_asymmetric_subset`
  (`quant.rs:1056-1061`).  The Python method (`ordvec-python/src/lib.rs:773-800`)
  checks only that ids are in range, so repeated ids give a `PanicException` where
  `lib.rs:18-24` promises typed errors; and `ordvec_index_search` returns the panic
  status for duplicated candidates that its documentation (`ordvec-ffi/src/lib.rs:897-900`) allows.
  `ReturnsExact` and `SearchAbi` say so.

## 4. The proofs

| module | theorem | holds for |
|---|---|---|
| `SubsetRerank_proof` | `TypeCorrect`, `CollectorIsExact`, `RowsAreExact`, `NoPanicAfterWrite` | every index, score table, offset and call |
| `BitmapIndex_proof` | `StaysPersistable`, `RowsAreWeighted`, `ScoresAreExact` | every word size, dimension, capacity, kernel group and list of vectors |
| `BitmapIndex_proof` | `ImplementsStore` (the refinement of `DocStore`) | the same, and every k, batch size, list of queries and list of document numbers |
| `SignScan_proof` | `TypeCorrect`, `HeapsAreExact`, `BatchIsExact` | every corpus, batch, block and tile size |
| `GoIndex_proof` | `TypeCorrect`, `ErrorsAreOwn`, `NothingLeaks`, `HandleIsSafe` | every set of goroutines, threads and messages |
| `Files_proof` | `TypeCorrect`, `DestinationIsWhole`, `AcknowledgedSurvives`, `CheckFindsChanges` | every set of writers, manifests and inodes, any number of calls, removals and crashes |
| `Files_proof` | `LoadsAreExact` | every format, dimension, number of buckets, block size, list of rows and set of processes, any number of saves and crashes |
| `Registry_proof` | `TypeCorrect`, `ActivationIsBacked`, `LogIsKept` | every set of processes, manifests and files, any number of commands and replacements |
| `Registry_proof` | `HitsAreSound`, `ReusedReportsMatch` | the same, where no manifest is replaced while a command uses it |
| `LoadPlan_proof` | `PlanIsSound`, `VerdictIsKept`, `PlanIsComplete` | every manifest, file, row map, profile, policy and limit, any number of replacements |
| `LoadPlan_proof` | `CreatedIsAccepted` | every index, row map, artifact, location, policy and limit, as long as no file is replaced |
| `PyIndex_proof` | `PyCallsAreExact` | every finite set of threads, every scoring, any number of calls and assignments |

They rest on the named assumptions on the constants (`ScoresAssumption`,
`RerankAssumption`, `SignScanAssumption`, `BitmapAssumption`,
`GoIndexAssumption`, `WriteAssumption`, `RegistryAssumption`,
`ProfilesAssumption`, `LoadPlanAssumption`, `IndexFileAssumption`, `Limits` of
`PyIndex`), which TLC
evaluates for the instances, and on the library's facts about finite sets and
sequences.  Those of the registry, the
profiles and the load plan say of what kind the constants are, that the model
value for nothing is nothing else, and of a file what its reader guarantees: a digest
is well formed, and an index whose metadata can be read has content and a dimension.
`Limits` says that the threads are finitely many, as the borrow flag counts them, and
that array lengths and document numbers are natural numbers.

**SubsetRerank.**  `CollectorExact` is not inductive: the insertion trusts
`worst_pos`, `worst_val` and `worst_tie_key`, and a slice of a row trusts the
offsets.  `IInv` adds to the types the shape of the scratch (`Records`), that in a
row the call is an accepted one and the row within the batch (`InRows`) and that, while a row is scanned, the
collector holds the best entries of what was scanned *and* its cached worst slot
is a slot that no other is worse than (`InScan`).  The lemmas at its head
show once that `MaybeInsert` keeps both; `NoPanicAfterWrite` follows from offsets that never fall
and end at the number of candidates.  For `RowsExact` the invariant adds `RowsExact` itself: a
row is written to its own cells (`CellOf`), so the others stay.  That the row just
written is the expected one has two halves.  The final sort gives each kept entry a
rank (`PlacedRank`, from `Ranked`: under a strict order the number of better elements is a rank of each one's own), and since the kept entries are the best ones, an
entry's rank among them is its place among all candidates (`PlacedBest`); and
positions that share a place have equal score and id (`OnePlace`), so that
what `Expected` chooses does not matter.

**SignScan.**  A document whose distance reaches the cached bound is skipped
unread.  That is sound because ids reach each heap in ascending order, so the
invariant ties each heap to the set of keys `Offered` so far, block by block and
tile by tile (`HeapOf`), the score buffer to the tile that is being collected, and
the bound to the heap's greatest key once it is full.  For `CsrExact`, `Emitted`
says that the rows emitted so far are those of the single-query path, each within
its offsets.  A heap that was offered every document has each key at the rank the
key has among all documents (`SortedHeap`), and a row appended at the end moves no
other (`RowAppended`).

**BitmapIndex.**  `Persistable` is inductive once the count is a natural number
(`Layout`): an addition appends `Len(vs)` rows and a removal cuts one.  For
`ScoresExact` the invariant adds that the buffer is as long as the chunk times
the corpus and that `chunkStart` stays within the chunk (`Shape`).  The argument
is about places: the cell `b * n + di` belongs to row `b` at place `di` (`CellOf`)
and lies in a pass's range of cells iff `b` lies in its range of queries
(`CellIn`), so that no pass touches another's rows.
For `ConstantWeight` the invariant is stronger than the property: every row *is* the
row of some vector (`Stored`), which survives the copy of the last row over the
removed one, while a weight alone would have to be moved word by word.  That a
vector's row has `n_top` bits is a fact about `RowOf` alone (`PackedWeight`): the
ranks of `Ranked` make the top coordinates exactly `n_top` (`TopSize`), each
coordinate is one bit of one word (`Divided`), and a sum of the words' sizes counts
those pairs (`SumOfSizes`, by the first length at which the two differ).

`ImplementsStore` maps every step of the code to a step of `DocStore` or to none
(`StepMaps`); the invariant is `Stored`, `IInv` and `Answering`, which says that
no answer is held while a call is in progress, that the job's chunks are the
chunks of some queries, and that a finished chunk has the rows its queries should
get (`ChunkRows`).  The proof has five parts.  *Overlaps*: the ranks and the sorted
places of a row pick the greatest coordinates, ties upwards for a document and
downwards for a query (`BodyIsKept`, `TopIsForemost`), and the popcounts of the words
in common count the coordinates in common (`PopcountCounts`, `ScoreIsOverlap`).  *Selections*: a
cut of the hits in the order `Ahead` is the store's `Best`, because both orders
are strict and the r-th of a strict order has r - 1 before it (`BestIsSelected`).
*The collector*: after n offers it holds the best min(k, n) of the first n
documents and its cached worst is a place of the worst (`KeepsBest`, `Collects`);
an offer keeps that (`CollectsNext`), so the scan does (`ScanKeepsBest`), and
sorting what is left gives the row of a selection (`PlaceOfHit`, `SearchRowIs`).
*The buffer*: an addition joins rows at the end and a removal moves the last one
(`AddIs`, `SwapRemoveIs`).  *Chunks*: no chunk is empty, each starts where the one
before ended, and the last ends with the queries (`ChunkFacts`), so that the rows
of the chunks, one behind the other, are the rows of the queries in their order
(`CollectMaps`); which chunk was scored first, and by which kernel, does not matter.

**GoIndex.**  `IInv` is five parts: `Places` (which operation is where), `Locks`
(the lock's state is what the places say, and a writer inside is alone),
`Handles` (the handle through Load and Close: a search inside C has a live one
because a Close that would free it needs the readers gone), `Closers` (who will
free a live handle) and `Errors` (no two goroutines on one thread, and the last
error of a locked thread stays what its goroutine's call left).  `HandleIsSafe`
maps each step to a step of `HandleLife` or to a stutter, with `using` the set of
goroutines inside a C function that takes the handle.

**ManifestWrite.**  Renaming a temporary file is only safe while nobody else names
it.  `IInv` therefore says first that the directory's entry, the entry on the disk
and every temporary file are distinct files that are in use (`Apart`), next that
from the sync on a temporary file holds a manifest and is synced (`Wrote`).  Those
give `DestinationWhole`.  `Versions` orders the acknowledged version, the one on
the disk and the one in the directory, which gives `AckedSurvives`.  For
`CheckedUnchanged`, `Unmoved` says that where inode numbers are not given out
again the file a writer saw at its snapshot is neither free nor anybody's temporary
file, and is the destination only as long as nobody has replaced it.  The file
system that does give numbers out again is the other value of `reuse`, where the
theorem claims nothing.

**IndexFile.**  An index is overwritten in place, so `LoadExact` cannot rest on the
file being whole.  `FileIInv` says what a file can be, given what became of the
last save (`Told`): the image of its rows if it was saved, a proper beginning of
that image if it was cut short, and if a machine stopped, some beginning of it in
which any cells read 0 (`Lossy`); the file on the disk is told the same way, since
a crash brings it back.  `SaversOK` says that a save whose fate is open is alone and
the file is what it has handed over; `ReadersOK`, that as long as nothing was
written since it opened the file, a load has the file's length and its first
cells.  Two facts carry the rest.  Places are distinct and within the payload
(`PlacesApart`, the arithmetic of rows and of the lanes of a block), so an image
has every coordinate at its place and padding behind (`ImageIs`) and a file of the
length its header declares was written to its end (`ReadsBack`).  And a row that
satisfies the check of its format and still does with some of its values turned
into 0 has lost none (`LossIsNoticed`): a permutation would miss the value, a
constant composition would count one zero too many, a constant weight one bit too
few.  `SignBitmap` checks nothing, and of a load that follows such a loss the
property says nothing there.  `Files_proof` is about both kinds of file: it extends
`ManifestWrite` and `IndexFile`, which is why the names of the latter (`FileSpec`,
`saver`, `AtRest`) are its own.

**Registry.**  `IInv` has three parts.  `Shape` types the state.  `Tables` says that
a table gets its first row once its schema is current and keeps that schema while
it has rows, whichever processes migrate at the same time: a log of the old schema
has no keys, so that what the migration leaves NULL no lookup could have used, which is
`LogKept`.  `Evidence` says that the ok report is in the log before the pointer
moves; as the log only grows, it is there for as long as the pointer names it.  For
the cache, `Cached` adds that the key of every row names what the report under it
is about (`Filed`), that an ok report is about what its document declares, and
that the key of a lookup during which nothing was replaced names the files as they
are (`KeyFits`).  The two theorems assume `~ EditDuringCalls`.  That is what the run
`registry` sets, and without it the statement is false: `registry_stale` shows a key
stamped from a manifest that was replaced after the document was loaded, so that
`Filed` does not survive the store.

**LoadPlan.**  `PlanSound` speaks of a plan that exists and of everything the
verification has read, so nothing in it is kept by the steps in between; the
invariant carries the evidence from the first step to the last.  `Setup` and `Seen`
type the state and what a creation has seen.  `Ledger` ties the report to the
history variable `raised`: there are issues in the report iff a check failed, a
fact that `PushBounded` keeps while it drops issues and `EnforceLimit` while it cuts
them, down to the limit of 0; with the verdict it gives `VerdictKept`.  `Entries`
says that the report has one entry, and one captured path, for each declared
artifact processed so far.  `Passed` says, part by part, what each check has left
behind if nothing has failed: the shape, the artifact's bytes, its metadata, the
entries, the rows, the two profiles and the attestations.  At the last step its
parts together are `PlanSound`, and with `Entries` they say that nothing
`from_report` looks for is missing, which is `PlanComplete`; a plan is then left alone
(`Planned`).  Files may be replaced between any two steps: the invariant says what
was read, nothing of the files as they are.  The loops over the lines of a row map and over the
declared artifacts are recursive functions over a length.  Induction is out of
reach, so the proofs take the first place where a loop departs from what is
claimed (`LeastNumber`: a set of numbers has a least one), and contradict it.  A manifest that
is found is of the kind `LoadPlanAssumption` says and one that was created is made
of what `Seen` says creation has seen, so `Known` holds for both.

`CreatedVerifies` claims the opposite of soundness: that nothing is refused without
a reason.  What a check that passed has shown does not help; every check of a
verification has to be shown to pass.  A second invariant, `Undisturbed`, holds
while no file has been replaced.  `Gathered` says that what creation has seen is what
the files hold, and `Copied` that so is what the manifest says, with paths that
`MayEmbed` let through.  `Judged` says that the verification has failed so far iff
one of the exceptions it has come across is there (`FaultsSoFar`); after the last
step these are `Refusable`.  It rests on `EmbeddedPath`: a path that
`RelativeTo` makes and `MayEmbed` lets through has a fine shape and resolves
to its file unless it reads as absolute, because without steps up it cannot leave
the base (`NoEscape`).  The other half is `RowsJudged`: the rows that creation accepts
without repetition are rows that verification accepts, duplicates allowed or not.

**PyIndex.**  `ReturnsExact` is about a call that is on its way back, and compares its
result with the index and the arguments it *saw*; between the two the lock was
free.  The invariant has one part for each thing that could have changed meanwhile.
`BorrowOK`: the flag counts the calls under way, or one call is alone and is an
addition; so the documents a reader saw are still the documents
(`ScanOK`), and no reader overlaps an addition's growth.  `CopiesOK`: from the
detachment on a call owns what it checked, whatever is assigned to the arrays, and
an addition that got so far had only finite rows.  `ScanOK` also says
that the scores written are those of the first cells of the scan, and `AddOK` that an
addition has its own rows, and then blanks, behind the documents it saw.  A step of one
thread leaves the others' parts alone because it either changes no document
or is an addition's, and then there is no other user.

Model-checked only: the liveness properties (fairness is beyond the prover) and everything
about `RankIndexes` and `TwoStage`.  What the pure modules compute is defined by recursion
over data, which the prover cannot follow: it is compared with definitions over
bounded inputs.

## 5. Not modelled

* Floating point: queries and scores are integers; normalisation, rounding of
  sums, Spearman and Kendall coefficients of the evaluation helpers are left out.
* The rayon variants of the searches: each query, or chunk, is worked on by itself
  over a borrowed index, and its result has its own place.
* `SignBitmap::score_all` (in `PyIndex` as the method "dense"), the popcount
  kernels, the scratch pool.
* Legacy magics and in-memory variants of the loader, which share the path that is
  modelled.
* The text of a manifest: JSON parsing, the canonical form of its numbers, bounded
  reading of lines, and the wording of issues and reports.
* Of the C interface: struct sizes, reserved fields, statistics, and the search of
  a `Bitmap` handle, which is a call of `BitmapIndex`.  Of the Python bindings: the
  constructors and getters, which hold the lock throughout, and the manifest
  binding, which converts arguments.
* The crate root (types, errors, constants), the command line, benchmarks,
  examples, experiments and fuzz targets.
* A verified load plan is a snapshot: the paths it names may hold other bytes when
  the caller loads them.  This is documented; the plan pins nothing.

## 6. Plan

Done, in this order: `TopK` and `SubsetRerank`; `SignScan`; `IndexFile`;
`Registry`; `ManifestWrite`; `LoadPlan`; `HandleLife` and `GoIndex`; `DocStore`
and `BitmapIndex`; the proofs of section 4; `Ranks`, `Kernels`, `MultiBucket`,
`Evidence` and `RankIndexes`; `TwoStage`; `PyIndex`; `ManifestPaths`, `Profiles`
and the rest of `LoadPlan`; `Abi`; the proofs
of `Registry`, `LoadPlan` and `PyIndex`; the refinement of `DocStore` by
`BitmapIndex`; the proof of `IndexFile`.

What is left is beyond the prover (section 4).
