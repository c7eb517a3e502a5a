-------------------------------- MODULE TopK --------------------------------
(***************************************************************************)
(* The running top-k collector of src/src/util.rs, used by every ranked    *)
(* search path of the crate.  A collector is a record                      *)
(*                                                                         *)
(*   k       capacity                                                      *)
(*   slots   the kept entries in slot order; Len(slots) is `filled`        *)
(*   worst   the cached slot, score and tie key of the worst kept entry    *)
(*   keyed   TRUE when ties are broken by caller-supplied keys             *)
(*           (`tie_key_by_index` is Some), and keys, those keys            *)
(*   offset  what adding `score_offset` does to a score                    *)
(*                                                                         *)
(* A score is a natural number standing for the position of an f32 in the  *)
(* total order f32::total_cmp; Infinity is above every score and every     *)
(* tie key (f32::INFINITY and i64::MAX).  Adding the query-constant offset *)
(* is a function on scores: rounding may map two scores to one.            *)
(***************************************************************************)
EXTENDS Integers, Sequences, FiniteSets

CONSTANTS
  RawScores,  \* the scores a scan kernel can produce
  Infinity    \* above every score (with or without offset) and every tie key

ASSUME ScoresAssumption ==
  /\ Infinity \in Nat
  /\ RawScores \subseteq 0 .. Infinity - 1

NoOffset == [s \in RawScores |-> s]

\* What `worst_pos`, `worst_val` and `worst_tie_key` hold before k entries
\* are kept.
NoWorst == [pos |-> 0, score |-> Infinity, tie |-> Infinity]

\* The composite key order (score descending, tie key ascending).
Better(a, b) == \/ a.score > b.score
                \/ a.score = b.score /\ a.tie < b.tie

New(k) ==
  [k |-> k, slots |-> <<>>, worst |-> NoWorst,
   keyed |-> FALSE, keys |-> <<>>, offset |-> NoOffset]

\* Every field of top is overwritten.
ResetWithTieKeys(top, k, tieKeys) ==
  [k |-> k, slots |-> <<>>, worst |-> NoWorst,
   keyed |-> TRUE, keys |-> tieKeys, offset |-> NoOffset]

SetScoreOffset(top, offset) == [top EXCEPT !.offset = offset]

\* Slot i holds a worst entry, and no earlier slot holds one as bad: the loop
\* of recompute_worst moves only to a strictly worse slot.
IsWorstSlot(slots, i) ==
  \A j \in DOMAIN slots : /\ ~ Better(slots[i], slots[j])
                          /\ j < i => Better(slots[j], slots[i])

RecomputeWorst(slots) ==
  LET i == CHOOSE i \in DOMAIN slots : IsWorstSlot(slots, i)
  IN  [pos |-> i, score |-> slots[i].score, tie |-> slots[i].tie]

\* The entry maybe_insert builds for scan position idx.
EntryFor(top, raw, idx) ==
  [score |-> top.offset[raw], idx |-> idx,
   tie   |-> IF top.keyed THEN top.keys[idx] ELSE idx]

\* Mutant: a replacement keeps the old cached worst entry.
MaybeInsertStaleWorst(top, raw, idx) ==
  LET e == EntryFor(top, raw, idx)
      appended == Append(top.slots, e)
  IN  IF Len(top.slots) < top.k
      THEN [top EXCEPT !.slots = appended,
                       !.worst = IF Len(appended) = top.k
                                 THEN RecomputeWorst(appended) ELSE @]
      ELSE IF Better(e, top.worst)
           THEN [top EXCEPT !.slots = [@ EXCEPT ![top.worst.pos] = e]]
           ELSE top

\* While a slot is free the entry takes it, and the worst slot is computed
\* when the last one fills; from then on it replaces the worst entry iff it
\* is strictly better.
MaybeInsert(top, raw, idx) ==
  LET e == EntryFor(top, raw, idx)
      appended == Append(top.slots, e)
      replaced == [top.slots EXCEPT ![top.worst.pos] = e]
  IN  IF Len(top.slots) < top.k
      THEN [top EXCEPT !.slots = appended,
                       !.worst = IF Len(appended) = top.k
                                 THEN RecomputeWorst(appended) ELSE @]
      ELSE IF Better(e, top.worst)
           THEN [top EXCEPT !.slots = replaced,
                            !.worst = RecomputeWorst(replaced)]
           ELSE top

\* The order of the final sort: score descending, tie key ascending, and the
\* slot number between entries that are otherwise equal.
SortsBefore(slots, i, j) ==
  \/ Better(slots[i], slots[j])
  \/ ~ Better(slots[j], slots[i]) /\ i < j

\* The entry that the sort puts in place r.
Placed(slots, r) ==
  slots[CHOOSE i \in DOMAIN slots :
          Cardinality({j \in DOMAIN slots : SortsBefore(slots, j, i)}) = r - 1]

\* finalize_into: the first len kept entries in sorted order, then sentinels.
FinalizeInto(top, len, sentinel) ==
  [r \in 1 .. len |-> IF r <= Len(top.slots) THEN Placed(top.slots, r)
                                             ELSE sentinel]
=============================================================================
