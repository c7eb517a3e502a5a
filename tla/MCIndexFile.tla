---------------------------- MODULE MCIndexFile ----------------------------
(***************************************************************************)
(* A small instance of IndexFile: 2 coordinates of 2 values, at most 2     *)
(* rows (a save of 3 is refused), FastScan blocks of 2 documents.  Every   *)
(* format is saved twice, one save after the other, with a crash anywhere; *)
(* Bitmap is also saved three times, by two processes whose saves overlap, *)
(* without a crash.                                                        *)
(***************************************************************************)
EXTENDS IndexFile, TLC

CONSTANTS r1, w1, w2

A == <<0, 1>>
B == <<1, 0>>

MCHoldings ==
  [f \in Formats |->
     IF f = "SignBitmap" THEN {<<<<1, 1>>>>, <<A, <<0, 0>>>>, <<A, B, A>>}
     ELSE {<<B>>, <<A, B>>, <<A, B, A>>}]

\* The states explored further: overlapping saves, and third ones, are left to
\* Bitmap and to executions without a crash, where what was written back makes
\* no difference.
Explored ==
  saves = 3 \/ last.fate = "mixed" =>
    format = "Bitmap" /\ stops = 0 /\ disk.cells = Absent

Interchangeable == Permutations(Savers)
=============================================================================
