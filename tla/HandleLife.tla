----------------------------- MODULE HandleLife -----------------------------
(***************************************************************************)
(* What the C interface demands of the callers of an index handle          *)
(* (src/ordvec-ffi/src/lib.rs, "Safety"): a handle is used between its load *)
(* and its one release, and the release races with no other call.          *)
(***************************************************************************)
CONSTANT Users

VARIABLES
  handle,   \* "none", "live" or "freed"
  using     \* the users that are inside a call with the handle

vars == <<handle, using>>

Init == handle = "none" /\ using = {}

Load == handle = "none" /\ handle' = "live" /\ UNCHANGED using

Enter(u) == handle = "live" /\ u \notin using /\ using' = using \cup {u} /\ UNCHANGED handle

Leave(u) == u \in using /\ using' = using \ {u} /\ UNCHANGED handle

Free == handle = "live" /\ using = {} /\ handle' = "freed" /\ UNCHANGED using

Next == Load \/ Free \/ \E u \in Users : Enter(u) \/ Leave(u)

Spec == Init /\ [][Next]_vars
=============================================================================
