----------------------------- MODULE MCRegistry -----------------------------
(***************************************************************************)
(* A small instance of Registry: two manifests, one with a profile, two    *)
(* index files of different metadata, and a file too large for either.     *)
(***************************************************************************)
EXTENDS Registry, TLC

CONSTANTS m1, m2, p1, p2

Index1 == [id |-> 1, size |-> 1, meta |-> 1]
Index2 == [id |-> 2, size |-> 1, meta |-> 2]
Large  == [id |-> 3, size |-> 2, meta |-> 1]

MCContents == {Index1, Index2, Large}
MCDeclares == [m \in {m1, m2} |->
                 IF m = m1 THEN [artifact |-> Index1, profile |-> Index2]
                           ELSE [artifact |-> Index2, profile |-> Absent]]

Verify   == [activate |-> FALSE, cache |-> TRUE, force |-> FALSE]
Activation(force) == [activate |-> TRUE, cache |-> FALSE, force |-> force]
MCCommands == {Verify, Activation(TRUE), Activation(FALSE)}

MCOldTables == {[reports |-> t, active |-> t] : t \in {"absent", "legacy"}}

Interchangeable == Permutations(Processes)
=============================================================================
