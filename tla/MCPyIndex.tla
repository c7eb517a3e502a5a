------------------------------ MODULE MCPyIndex ------------------------------
(***************************************************************************)
(* Two threads on one index of at most two documents, with a float array   *)
(* of one row and an array of two document numbers, repeated or out of     *)
(* order, and out of range while the index has one document or none.       *)
(***************************************************************************)
EXTENDS PyIndex, TLC

CONSTANTS r1, r2, t1, t2

MCRows == {r1, r2}
MCThreads == {t1, t2}
MCScore == [q \in MCRows \cup {Unfit} |-> [d \in MCRows |-> IF q = d THEN 1 ELSE 0]]
MCIdLists == {<<0, 0>>, <<1, 0>>}
MCRowCounts == {1}
MCKs == {1}
MCCasting == {"add", "search"}

Alike == Permutations(MCThreads)
=============================================================================
