------------------------------ MODULE DocStore ------------------------------
(***************************************************************************)
(* What a bitmap index of ordvec promises its caller, without words, rows  *)
(* or kernels: a list of documents numbered from 0, and for every query    *)
(* the documents of greatest overlap, ties to the lower number.            *)
(***************************************************************************)
EXTENDS Integers, Sequences, FiniteSets

CONSTANTS
  Overlap(_, _), \* how much a query and a document have in common
  MaxVectors,    \* how many documents an index may hold
  Additions,     \* the lists of documents add may be given
  QueryLists,    \* the lists of queries a call may be given
  IdLists,       \* the lists of document numbers search_subset may be given
  Ks             \* how many results may be asked for

VARIABLES docs, answer

vars == <<docs, answer>>

n == Len(docs)
NoAnswer == <<>>
NoScore  == -1     \* a candidate call reports no scores

Fewer(a, b) == IF a < b THEN a ELSE b

\* One entry of a list of document numbers is reported before another.
Precedes(a, b) ==
  \/ a.score > b.score
  \/ a.score = b.score /\ a.id < b.id
  \/ a.score = b.score /\ a.id = b.id /\ a.at < b.at

\* The k entries of ids that precede all others, in that order.
Best(q, ids, k) ==
  LET entries == {[at |-> p, id |-> ids[p], score |-> Overlap(q, docs[ids[p] + 1])] :
                    p \in DOMAIN ids}
      ranked(i) == CHOOSE e \in entries :
                     Cardinality({o \in entries : Precedes(o, e)}) = i - 1
  IN  [i \in 1 .. Fewer(k, Len(ids)) |-> [id |-> ranked(i).id, score |-> ranked(i).score]]

AllIds == [i \in 1 .. n |-> i - 1]

WithoutScores(row) == [i \in DOMAIN row |-> [row[i] EXCEPT !.score = NoScore]]

Init == docs = <<>> /\ answer = NoAnswer

Add(bodies) ==
  /\ answer = NoAnswer /\ n + Len(bodies) <= MaxVectors
  /\ docs' = docs \o bodies
  /\ UNCHANGED answer

\* Every document keeps its number, save the last, which takes the free one.
SwapRemove(idx) ==
  /\ answer = NoAnswer
  /\ docs' = [i \in 1 .. n - 1 |-> IF i = idx + 1 THEN docs[n] ELSE docs[i]]
  /\ UNCHANGED answer

Search(qs, k) ==
  /\ answer = NoAnswer
  /\ answer' = [i \in DOMAIN qs |-> Best(qs[i], AllIds, k)]
  /\ UNCHANGED docs

Candidates(qs, m) ==
  /\ answer = NoAnswer
  /\ answer' = [i \in DOMAIN qs |-> WithoutScores(Best(qs[i], AllIds, m))]
  /\ UNCHANGED docs

Subset(q, ids, k) ==
  /\ answer = NoAnswer
  /\ Fewer(k, Len(ids)) > 0 => \A i \in DOMAIN ids : ids[i] < n
  /\ answer' = <<Best(q, ids, k)>>
  /\ UNCHANGED docs

\* The caller takes the answer.
Return ==
  /\ answer # NoAnswer
  /\ answer' = NoAnswer
  /\ UNCHANGED docs

Next ==
  \/ Return
  \/ \E idx \in 0 .. n - 1 : SwapRemove(idx)
  \/ \E qs \in QueryLists, k \in Ks : Search(qs, k) \/ Candidates(qs, k)
  \/ \E qs \in QueryLists, ids \in IdLists, k \in Ks :
       qs # <<>> /\ Subset(qs[1], ids, k)
  \/ \E bodies \in Additions : Add(bodies)

Spec == Init /\ [][Next]_vars
=============================================================================
