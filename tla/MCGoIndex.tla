----------------------------- MODULE MCGoIndex ------------------------------
(***************************************************************************)
(* Two goroutines and the finalizer, a thread for each, and one message    *)
(* beside the empty one.                                                   *)
(***************************************************************************)
EXTENDS GoIndex
=============================================================================
