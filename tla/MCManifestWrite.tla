--------------------------- MODULE MCManifestWrite ---------------------------
(***************************************************************************)
(* A small instance of ManifestWrite: two writers, one accepted and one    *)
(* refused manifest besides the one in place, and an inode to spare.       *)
(***************************************************************************)
EXTENDS ManifestWrite, TLC

CONSTANTS w1, w2, i1, i2, i3, i4, m1, bad

Interchangeable == Permutations(Writers) \cup Permutations(Inodes)
=============================================================================
