------------------------------- MODULE PyIndex -------------------------------
(***************************************************************************)
(* One index object of the Python bindings (ordvec-python/src/lib.rs) that *)
(* several Python threads use.  A method runs under the interpreter lock   *)
(* (GIL): it borrows the object, checks its NumPy arguments, copies them,  *)
(* gives the lock up for the scan and takes it back to build the result.   *)
(* While the lock is free any other Python code may run: other methods of  *)
(* the same object, and assignments into the arrays that are being used.   *)
(* The four classes have these methods in common; where only one has a     *)
(* method, its operator says which.                                        *)
(***************************************************************************)
EXTENDS Integers, Sequences, FiniteSets, SequencesExt

CONSTANTS
  Threads,     \* the Python threads that call methods of the object
  Rows,        \* what a row of a float array may hold: finite vectors
  Score,       \* Score[q][d]: how the core scores document d for query or word q
  Unfit,       \* a row with a NaN or an infinity
  Blank,       \* a row of the index that is allocated and not yet written
  RowCounts,   \* how many rows the shared float array may have
  IdLists,     \* what the shared array of document numbers may hold
  MaxVectors,  \* rank_io::MAX_VECTORS, and the bound of this model's index
  Ks,          \* the k or m of a call
  Casting,     \* the methods that are also given arrays of another float type
  Nobody

ASSUME Limits ==
  /\ MaxVectors \in Nat \ {0} /\ Ks \subseteq Nat
  /\ RowCounts \subseteq Nat /\ IdLists \subseteq Seq(Nat)
  /\ IsFiniteSet(Threads) /\ Nobody \notin Threads
  /\ Casting \subseteq {"add", "search", "dense", "batched", "subset"}

VARIABLES
  gil,      \* the thread that holds the interpreter lock, or Nobody
  flag,     \* PyO3's borrow flag of the object: -1 for &mut self, or its readers
  docs,     \* the documents of the index (inner)
  floats,   \* the shared NumPy array of vectors, of queries, or for body of words
  ids,      \* the shared NumPy array of document numbers
  pc,       \* where each thread is in its call
  call,     \* the call: method, k, chunk, and whether its array is float32
  owned,    \* what the call holds in memory of its own: rows, ids and a length n
  scores,   \* the scores the detached scan has written
  seen      \* history: the index and the arguments when the call checked them

vars == <<gil, flag, docs, floats, ids, pc, call, owned, scores, seen>>

Exclusive == -1
Methods == {"add", "search", "dense", "batched", "chunked", "subset", "body"}
ByIds == {"subset", "body"}
Idle == "idle"
NoCall == [method |-> "none", k |-> 0, chunk |-> 1, f32 |-> TRUE]
NothingOwned == [rows |-> <<>>, ids |-> <<>>, n |-> 0]
NothingSeen == [docs |-> <<>>, rows |-> <<>>, ids |-> <<>>]

Lesser(a, b) == IF a < b THEN a ELSE b

Init ==
  /\ gil = Nobody /\ flag = 0
  /\ docs \in UNION {[1 .. c -> Rows] : c \in 0 .. 1}
  /\ floats \in UNION {[1 .. c -> Rows \cup {Unfit}] : c \in RowCounts}
  /\ ids \in IdLists
  /\ pc = [t \in Threads |-> Idle]
  /\ call = [t \in Threads |-> NoCall]
  /\ owned = [t \in Threads |-> NothingOwned]
  /\ scores = [t \in Threads |-> <<>>]
  /\ seen = [t \in Threads |-> NothingSeen]

-----------------------------------------------------------------------------
(* Borrowing the object and the arrays. *)

Mutates(method) == method \in {"add", "swap_remove"}

\* &self needs that nobody writes, &mut self that nobody uses the object.
CanBorrow(method) == IF Mutates(method) THEN flag = 0 ELSE flag # Exclusive

Borrowed(method) == IF Mutates(method) THEN Exclusive ELSE flag + 1
Unborrowed == IF flag = Exclusive THEN 0 ELSE flag - 1

\* The end of a call of t: the borrow is given back, then the lock.
Leave(t) ==
  /\ flag' = Unborrowed
  /\ gil' = Nobody
  /\ pc' = [pc EXCEPT ![t] = Idle]
  /\ call' = [call EXCEPT ![t] = NoCall]
  /\ owned' = [owned EXCEPT ![t] = NothingOwned]
  /\ scores' = [scores EXCEPT ![t] = <<>>]
  /\ seen' = [seen EXCEPT ![t] = NothingSeen]

\* A thread that has the lock calls a method whose borrow can be had.  Any
\* other call raises "Already borrowed" or "Already mutably borrowed" and has
\* changed nothing.
Begin(t, method, k, chunk, f32) ==
  /\ pc[t] = Idle /\ gil = Nobody /\ CanBorrow(method)
  /\ gil' = t
  /\ flag' = Borrowed(method)
  /\ call' = [call EXCEPT ![t] = [method |-> method, k |-> k, chunk |-> chunk, f32 |-> f32]]
  /\ pc' = [pc EXCEPT ![t] = IF f32 THEN "check" ELSE "coerce"]
  /\ UNCHANGED <<docs, floats, ids, owned, scores, seen>>

\* An array of another float type is given to numpy.ascontiguousarray, which
\* runs Python code and drops the lock while it converts.
Coerce(t) ==
  /\ pc[t] = "coerce" /\ gil = t
  /\ gil' = Nobody
  /\ pc' = [pc EXCEPT ![t] = "cast"]
  /\ UNCHANGED <<flag, docs, floats, ids, call, owned, scores, seen>>

Cast(t) ==
  /\ pc[t] = "cast"
  /\ owned' = [owned EXCEPT ![t].rows = floats]
  /\ pc' = [pc EXCEPT ![t] = "wait"]
  /\ UNCHANGED <<gil, flag, docs, floats, ids, call, scores, seen>>

Reacquire(t) ==
  /\ pc[t] = "wait" /\ gil = Nobody
  /\ gil' = t
  /\ pc' = [pc EXCEPT ![t] = "check"]
  /\ UNCHANGED <<flag, docs, floats, ids, call, owned, scores, seen>>

-----------------------------------------------------------------------------
(* The checks at the boundary: the error a call raises, or NoError. *)

NoError == "none"
Finite(rows) == \A i \in DOMAIN rows : rows[i] # Unfit
InRange(list) == \A i \in DOMAIN list : list[i] < Len(docs)

AddError(rows) ==
  IF Finite(rows) /\ Len(docs) + Len(rows) <= MaxVectors THEN NoError ELSE "ValueError"

QueryError(rows) == IF Finite(rows) THEN NoError ELSE "ValueError"

\* Bitmap::top_m_candidates_batched_chunked
ChunkedError(chunk, rows) ==
  IF chunk > 0 /\ Finite(rows) THEN NoError ELSE "ValueError"

\* RankQuant::search_asymmetric_subset, which takes one query
SubsetError(rows, list) ==
  IF ~Finite(<<rows[1]>>) THEN "ValueError" ELSE IF InRange(list) THEN NoError ELSE "IndexError"

\* Bitmap::body_overlap_scores_subset, which wants its ids in ascending order
BodyError(list) ==
  IF ~InRange(list) THEN "IndexError"
  ELSE IF \A i \in 2 .. Len(list) : list[i - 1] <= list[i] THEN NoError ELSE "ValueError"

ErrorOf(c, rows, list) ==
  CASE c.method = "add"     -> AddError(rows)
    [] c.method = "chunked" -> ChunkedError(c.chunk, rows)
    [] c.method = "subset"  -> SubsetError(rows, list)
    [] c.method = "body"    -> BodyError(list)
    [] OTHER                -> QueryError(rows)

\* A float32 array is borrowed where it is; the copy of any other is the call's.
RowsAt(t) == IF call[t].f32 THEN floats ELSE owned[t].rows

IdsOf(t) == IF call[t].method \in ByIds THEN ids ELSE <<>>

Reject(t) ==
  /\ pc[t] = "check" /\ gil = t
  /\ ErrorOf(call[t], RowsAt(t), ids) # NoError
  /\ Leave(t)
  /\ UNCHANGED <<docs, floats, ids>>

\* Checked and copied without a release of the lock, which py.detach then drops.
Detach(t) ==
  /\ pc[t] = "check" /\ gil = t
  /\ ErrorOf(call[t], RowsAt(t), ids) = NoError
  /\ owned' = [owned EXCEPT ![t] = [rows |-> RowsAt(t), ids |-> IdsOf(t), n |-> Len(docs)]]
  /\ seen' = [seen EXCEPT ![t] = [docs |-> docs, rows |-> RowsAt(t), ids |-> IdsOf(t)]]
  /\ gil' = Nobody
  /\ pc' = [pc EXCEPT ![t] = "scan"]
  /\ UNCHANGED <<flag, docs, floats, ids, call, scores>>

-----------------------------------------------------------------------------
(* The detached part: nothing but the borrow protects the index, and nothing *)
(* but the copy the arguments.                                               *)

\* (mutant) the scan reads the array where it is
RowForBorrowed(t, q) == IF call[t].f32 THEN floats[q] ELSE owned[t].rows[q]

RowFor(t, q) == owned[t].rows[q]
IdFor(t, i) == owned[t].ids[i]

\* The core's limit on a candidate list, asserted where Python does not look.
Overlong(t) == call[t].method = "subset" /\ Len(owned[t].ids) > Len(docs)

\* How many cells a scan computes, and the query and document of the next one.
Cells(t) ==
  IF call[t].method \in ByIds THEN Len(owned[t].ids) ELSE Len(owned[t].rows) * Len(docs)

Cell(t, at) ==
  IF call[t].method \in ByIds
    THEN [query |-> 1, doc |-> IdFor(t, at + 1) + 1]
    ELSE [query |-> (at \div Len(docs)) + 1, doc |-> (at % Len(docs)) + 1]

ScanCell(t) ==
  /\ pc[t] = "scan" /\ call[t].method # "add" /\ ~Overlong(t)
  /\ Len(scores[t]) < Cells(t)
  /\ LET c == Cell(t, Len(scores[t]))
     IN  scores' = [scores EXCEPT ![t] = Append(@, Score[RowFor(t, c.query)][docs[c.doc]])]
  /\ UNCHANGED <<gil, flag, docs, floats, ids, pc, call, owned, seen>>

Scanned(t) ==
  /\ pc[t] = "scan" /\ call[t].method # "add"
  /\ Overlong(t) \/ Len(scores[t]) = Cells(t)
  /\ pc' = [pc EXCEPT ![t] = "back"]
  /\ UNCHANGED <<gil, flag, docs, floats, ids, call, owned, scores, seen>>

\* add first makes the room, then transforms the rows into it.
Grow(t) ==
  /\ pc[t] = "scan" /\ call[t].method = "add"
  /\ docs' = docs \o [i \in DOMAIN owned[t].rows |-> Blank]
  /\ pc' = [pc EXCEPT ![t] = "fill"]
  /\ UNCHANGED <<gil, flag, floats, ids, call, owned, scores, seen>>

Fill(t) ==
  /\ pc[t] = "fill"
  /\ LET start == owned[t].n
         unwritten == {q \in DOMAIN owned[t].rows : docs[start + q] = Blank}
     IN  IF unwritten = {}
           THEN pc' = [pc EXCEPT ![t] = "back"] /\ UNCHANGED docs
           ELSE /\ \E q \in unwritten : docs' = [docs EXCEPT ![start + q] = RowFor(t, q)]
                /\ UNCHANGED pc
  /\ UNCHANGED <<gil, flag, floats, ids, call, owned, scores, seen>>

-----------------------------------------------------------------------------
(* Back under the lock: the result. *)

\* The k best positions of a row of scores: the greater score, then the lower
\* document number, then the earlier position.
BestOf(row, names, k) ==
  LET before(a, b) == \/ row[a] > row[b]
                      \/ row[a] = row[b] /\ names[a] < names[b]
                      \/ row[a] = row[b] /\ names[a] = names[b] /\ a < b
      rank(a) == Cardinality({b \in DOMAIN row : before(b, a)})
  IN  [i \in 1 .. Lesser(k, Len(row)) |-> names[CHOOSE a \in DOMAIN row : rank(a) = i - 1]]

Numbers(count) == [i \in 1 .. count |-> i - 1]

\* The scores of the q-th query, from a matrix of count rows.
RowOfScores(t, q, count) ==
  LET width == Len(scores[t]) \div count
  IN  SubSeq(scores[t], (q - 1) * width + 1, q * width)

Ranked(t) ==
  LET count == Len(owned[t].rows)
  IN  [q \in 1 .. count |->
         LET row == RowOfScores(t, q, count) IN BestOf(row, Numbers(Len(row)), call[t].k)]

Returned(result) == [kind |-> "ok", result |-> result]
Panic == [kind |-> "PanicException", result |-> <<>>]

\* The candidate calls give every row the width min(m, n) by the length the
\* index had before the lock was dropped, and panic at rows of another length.
Shaped(t) ==
  LET width == Lesser(call[t].k, owned[t].n)
  IN  IF \A q \in DOMAIN Ranked(t) : Len(Ranked(t)[q]) = width
        THEN Returned(Ranked(t)) ELSE Panic

\* SignBitmap::score_all_batched panics where the matrix is not queries by n.
Dense(t) ==
  LET count == Len(owned[t].rows)
  IN  IF Len(scores[t]) = count * owned[t].n
        THEN Returned([q \in 1 .. count |-> RowOfScores(t, q, count)]) ELSE Panic

Result(t) ==
  IF Overlong(t) THEN Panic ELSE
  CASE call[t].method = "add"    -> Returned(<<>>)
    [] call[t].method = "search" -> Returned(Ranked(t))
    [] call[t].method = "dense"  -> Dense(t)
    [] call[t].method = "subset" -> Returned(<<BestOf(scores[t], owned[t].ids, call[t].k)>>)
    [] call[t].method = "body"   -> Returned(<<scores[t]>>)
    [] OTHER                     -> Shaped(t)

\* (mutant) a call gives its borrow back only when it is the last one
ReturnAlone(t) ==
  /\ pc[t] = "back" /\ gil = Nobody /\ flag \in {1, Exclusive}
  /\ Leave(t)
  /\ UNCHANGED <<docs, floats, ids>>

Return(t) ==
  /\ pc[t] = "back" /\ gil = Nobody
  /\ Leave(t)
  /\ UNCHANGED <<docs, floats, ids>>

\* swap_remove keeps the lock: one step.  A number the index does not have
\* raises IndexError.
SwapRemove(t, idx) ==
  /\ pc[t] = Idle /\ gil = Nobody /\ CanBorrow("swap_remove")
  /\ idx < Len(docs)
  /\ docs' = Front([docs EXCEPT ![idx + 1] = docs[Len(docs)]])
  /\ UNCHANGED <<gil, flag, floats, ids, pc, call, owned, scores, seen>>

\* Any Python code assigns into an array in place, whoever is using it.
AssignFloat(q, row) ==
  /\ gil = Nobody /\ floats[q] # row
  /\ floats' = [floats EXCEPT ![q] = row]
  /\ UNCHANGED <<gil, flag, docs, ids, pc, call, owned, scores, seen>>

AssignIds(list) ==
  /\ gil = Nobody /\ ids # list /\ Len(list) = Len(ids)
  /\ ids' = list
  /\ UNCHANGED <<gil, flag, docs, floats, pc, call, owned, scores, seen>>

-----------------------------------------------------------------------------
Calls(t) ==
  \/ \E m \in {"add", "dense", "body"} : Begin(t, m, 0, 1, TRUE)
  \/ \E m \in {"search", "batched", "subset"}, k \in Ks : Begin(t, m, k, 1, TRUE)
  \/ \E k \in Ks, chunk \in 0 .. 1 : Begin(t, "chunked", k, chunk, TRUE)
  \/ \E m \in Casting, k \in Ks : Begin(t, m, k, 1, FALSE)
  \/ \E idx \in 0 .. MaxVectors - 1 : SwapRemove(t, idx)

Detached(t) == Cast(t) \/ ScanCell(t) \/ Scanned(t) \/ Grow(t) \/ Fill(t)
Locked(t) == Coerce(t) \/ Reject(t) \/ Detach(t)
Locking(t) == Reacquire(t) \/ Return(t)

Assign ==
  \/ \E q \in DOMAIN floats, row \in Rows \cup {Unfit} : AssignFloat(q, row)
  \/ \E list \in IdLists : AssignIds(list)

Next ==
  \/ \E t \in Threads : Calls(t) \/ Detached(t) \/ Locked(t) \/ Locking(t)
  \/ Assign

(***************************************************************************)
(* A thread that runs goes on, and a thread that waits for the interpreter *)
(* lock gets it again and again: CPython makes its holder drop it when     *)
(* another thread asks.  Nobody has to call or to assign.                  *)
(***************************************************************************)
Fairness ==
  \A t \in Threads : /\ WF_vars(Detached(t)) /\ WF_vars(Locked(t))
                     /\ SF_vars(Locking(t))

Spec == Init /\ [][Next]_vars /\ Fairness

-----------------------------------------------------------------------------
\* What a call that was checked with these arguments has to give.
Expected(c, s) ==
  LET all == [q \in DOMAIN s.rows |-> [d \in DOMAIN s.docs |-> Score[s.rows[q]][s.docs[d]]]]
      some == [i \in DOMAIN s.ids |-> Score[s.rows[1]][s.docs[s.ids[i] + 1]]]
  IN  CASE c.method = "dense"  -> all
        [] c.method = "subset" -> <<BestOf(some, s.ids, c.k)>>
        [] c.method = "body"   -> <<some>>
        [] c.method = "add"    -> <<>>
        [] OTHER -> [q \in DOMAIN all |-> BestOf(all[q], Numbers(Len(s.docs)), c.k)]

\* A call that is about to return gives the result of the index and the
\* arguments it checked, whatever other threads did to both while the lock was
\* free, and an addition has added the rows it checked; no call panics, save a
\* candidate list longer than the index, which no check at the boundary looks for.
ReturnsExact ==
  \A t \in Threads :
    pc[t] = "back" =>
      IF Len(seen[t].ids) > Len(seen[t].docs) /\ call[t].method = "subset"
        THEN Result(t) = Panic
        ELSE /\ Result(t) = Returned(Expected(call[t], seen[t]))
             /\ docs = seen[t].docs \o
                  (IF call[t].method = "add" THEN seen[t].rows ELSE <<>>)

\* Every call returns to its caller and gives the object and the lock back:
\* the waits for the lock, the borrow kept without it and the error paths never
\* leave a thread inside.
CallsReturn == \A t \in Threads : pc[t] # Idle ~> pc[t] = Idle

=============================================================================
