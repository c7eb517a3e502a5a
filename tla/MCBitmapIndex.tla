--------------------------- MODULE MCBitmapIndex ----------------------------
(***************************************************************************)
(* A small instance of BitmapIndex: 4 coordinates in rows of 2 words, up   *)
(* to 4 documents; vectors with and without equal values, two of which     *)
(* tie at the cutoff; up to 3 queries in chunks of 1, 2 or 9 and kernel    *)
(* passes of 2; k below, at and above the number of documents; subsets out *)
(* of order, with repetitions and out of range.                            *)
(***************************************************************************)
EXTENDS BitmapIndex

a == <<2, 1, 0, -1>>
b == <<0, 5, 1, 1>>
c == <<1, 1, 1, 1>>
d == <<-1, 3, 0, 2>>

MCAdditions == {<<a>>, <<b, c>>, <<c, a, d>>}
MCQueryLists == {<<>>, <<a>>, <<b, c>>, <<c, a, b>>}
MCIdLists == {<<>>, <<0>>, <<2, 0, 1>>, <<1, 1, 0>>, <<0, 7>>}
MCKs == {0, 1, 2, 9}
MCBatchSizes == {1, 2, 9}
=============================================================================
