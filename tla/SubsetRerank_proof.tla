------------------------- MODULE SubsetRerank_proof -------------------------
(***************************************************************************)
(* For every index size, every set of calls and every table of scores: the *)
(* rerank never slices out of range once it has begun to write, its        *)
(* collector always holds the best of what it has scanned, and every row   *)
(* it writes is the best k of its candidates in their order.               *)
(***************************************************************************)
EXTENDS SubsetRerank, FiniteSetTheorems, SequenceTheorems, TLAPS

-----------------------------------------------------------------------------
(* Ranks in finite ordered sets. *)

\* R, a set of pairs, orders S totally and strictly.
IsStrictOrder(R, S) ==
  /\ \A x \in S : <<x, x>> \notin R
  /\ \A x, y \in S : x = y \/ <<x, y>> \in R \/ <<y, x>> \in R
  /\ \A x, y, z \in S : <<x, y>> \in R /\ <<y, z>> \in R => <<x, z>> \in R

Below(x, R, S) == {y \in S : <<y, x>> \in R}

\* The elements of a finite set have the ranks 0 to its size less one, each of
\* them once: a sort is described by the places of the sorted, and the first of
\* them is the least.
LEMMA Ranked ==
  ASSUME NEW S, IsFiniteSet(S), NEW R, IsStrictOrder(R, S),
         NEW r \in 0 .. Cardinality(S) - 1
  PROVE  /\ \E x \in S : Cardinality(Below(x, R, S)) = r
         /\ \A x, y \in S : Cardinality(Below(x, R, S)) = Cardinality(Below(y, R, S)) => x = y
<1> DEFINE places == 0 .. Cardinality(S) - 1
           f == [x \in S |-> Cardinality(Below(x, R, S))]
<1>1. Cardinality(S) \in Nat
  BY FS_CardinalityType
<1>2. IsFiniteSet(places) /\ Cardinality(places) = Cardinality(S)
  BY <1>1, FS_Interval
<1>3. ASSUME NEW x \in S
      PROVE  /\ IsFiniteSet(Below(x, R, S)) /\ Cardinality(Below(x, R, S)) \in Nat
             /\ x \notin Below(x, R, S)
             /\ IsFiniteSet(Below(x, R, S) \cup {x})
             /\ Cardinality(Below(x, R, S) \cup {x}) = Cardinality(Below(x, R, S)) + 1
             /\ Below(x, R, S) \cup {x} \subseteq S
  <2>1. Below(x, R, S) \cup {x} \subseteq S /\ x \notin Below(x, R, S)
    BY DEF Below, IsStrictOrder
  <2>2. IsFiniteSet(Below(x, R, S))
    BY <2>1, FS_Subset
  <2> QED BY <2>1, <2>2, FS_CardinalityType, FS_AddElement
<1>4. f \in [S -> places]
  <2>1. ASSUME NEW x \in S PROVE Cardinality(Below(x, R, S)) \in places
    <3>1. Cardinality(Below(x, R, S) \cup {x}) <= Cardinality(S)
      BY <1>3, FS_Subset
    <3>2. /\ Cardinality(Below(x, R, S)) \in Nat
          /\ Cardinality(Below(x, R, S) \cup {x}) = Cardinality(Below(x, R, S)) + 1
      BY <1>3
    <3> QED BY <1>1, <3>1, <3>2
  <2> QED BY <2>1
<1>5. ASSUME NEW x \in S, NEW y \in S, <<x, y>> \in R
      PROVE  Cardinality(Below(x, R, S)) < Cardinality(Below(y, R, S))
  <2>1. Below(x, R, S) \cup {x} \subseteq Below(y, R, S)
    BY <1>5 DEF Below, IsStrictOrder
  <2>2. IsFiniteSet(Below(y, R, S)) /\ Cardinality(Below(y, R, S)) \in Nat
    BY <1>3
  <2>3. Cardinality(Below(x, R, S) \cup {x}) <= Cardinality(Below(y, R, S))
    BY <2>1, <2>2, FS_Subset
  <2>4. /\ Cardinality(Below(x, R, S)) \in Nat
        /\ Cardinality(Below(x, R, S) \cup {x}) = Cardinality(Below(x, R, S)) + 1
    BY <1>3
  <2> QED BY <2>2, <2>3, <2>4
<1>6. ASSUME NEW x \in S, NEW y \in S,
             Cardinality(Below(x, R, S)) = Cardinality(Below(y, R, S))
      PROVE  x = y
  <2>1. Cardinality(Below(x, R, S)) \in Nat /\ Cardinality(Below(y, R, S)) \in Nat
    BY <1>3
  <2>2. <<x, y>> \notin R /\ <<y, x>> \notin R
    BY <1>5, <1>6, <2>1
  <2> QED BY <2>2 DEF IsStrictOrder
<1>7. f \in Injection(S, places)
  BY <1>4, <1>6 DEF Injection, IsInjective
<1> HIDE DEF f
<1>8. f \in Surjection(S, places)
  BY <1>2, <1>7, FS_Injection
<1>9. \E x \in S : f[x] = r
  <2>1. r \in places
    OBVIOUS
  <2> HIDE DEF places
  <2> QED BY <1>8, <2>1 DEF Surjection
<1> QED BY <1>6, <1>9 DEF f

\* A nonempty finite set has a first element under a strict order.
LEMMA FirstElement ==
  ASSUME NEW S, IsFiniteSet(S), S # {}, NEW R, IsStrictOrder(R, S)
  PROVE  \E x \in S : \A y \in S : y = x \/ <<x, y>> \in R
<1>1. Cardinality(S) \in Nat /\ Cardinality(S) # 0
  BY FS_CardinalityType, FS_EmptySet
<1>2. PICK x \in S : Cardinality(Below(x, R, S)) = 0
  <2>1. 0 \in 0 .. Cardinality(S) - 1
    BY <1>1
  <2> QED BY <2>1, Ranked
<1>3. Below(x, R, S) = {}
  <2>1. IsFiniteSet(Below(x, R, S))
    BY FS_Subset DEF Below
  <2> QED BY <1>2, <2>1, FS_EmptySet
<1> QED BY <1>3 DEF Below, IsStrictOrder

-----------------------------------------------------------------------------
(* What the collector of TopK keeps, for every capacity, every scan and     *)
(* every assignment of scores and tie keys.                                 *)

Entry == [score : 0 .. Infinity - 1, idx : Nat \ {0}, tie : 0 .. Infinity - 1]

\* slots holds min(k, n) different positions of 1..n with the entries key
\* gives them, in scan order until the collector is full, and no position
\* left out is better than one kept.
KeepsBest(slots, k, key, n) ==
  /\ Len(slots) = IF n < k THEN n ELSE k
  /\ n <= k => \A p \in 1 .. n : slots[p].idx = p
  /\ \A i \in DOMAIN slots : slots[i].idx \in 1 .. n /\ slots[i] = key[slots[i].idx]
  /\ \A i, j \in DOMAIN slots : slots[i].idx = slots[j].idx => i = j
  /\ \A p \in (1 .. n) \ {slots[i].idx : i \in DOMAIN slots} :
        \A i \in DOMAIN slots : ~ Better(key[p], slots[i])

\* Once the collector is full its cached worst entry is the worst it keeps.
WorstCached(top) ==
  Len(top.slots) = top.k =>
    /\ top.worst.pos \in DOMAIN top.slots
    /\ top.worst.score = top.slots[top.worst.pos].score
    /\ top.worst.tie = top.slots[top.worst.pos].tie
    /\ IsWorstSlot(top.slots, top.worst.pos)

\* recompute_worst finds a slot: the loop's choice exists and is unique.
LEMMA WorstSlotExists ==
  ASSUME NEW slots \in Seq(Entry), slots # <<>>
  PROVE  \E i \in DOMAIN slots : IsWorstSlot(slots, i)
<1> DEFINE S == DOMAIN slots
           Before(i, j) == \/ Better(slots[j], slots[i])
                           \/ ~ Better(slots[i], slots[j]) /\ i < j
           R == {p \in S \X S : Before(p[1], p[2])}
<1>1. S = 1 .. Len(slots) /\ Len(slots) \in Nat /\ S # {} /\ S \subseteq Nat
  OBVIOUS
<1>2. IsFiniteSet(S)
  BY <1>1, FS_Interval
<1>3. \A i \in S : slots[i].score \in Int /\ slots[i].tie \in Int
  <2>1. \A x \in Entry : x.score \in Int /\ x.tie \in Int
    BY ScoresAssumption DEF Entry
  <2>2. \A i \in S : slots[i] \in Entry
    OBVIOUS
  <2> QED BY <2>1, <2>2
<1>4. \A i, j \in S : <<i, j>> \in R <=> Before(i, j)
  OBVIOUS
<1> HIDE DEF R, S
<1>5. IsStrictOrder(R, S)
  <2>1. \A i, j \in S : i = j \/ Before(i, j) \/ Before(j, i)
    BY <1>1, <1>3 DEF Better
  <2>2. \A i, j, l \in S : Before(i, j) /\ Before(j, l) => Before(i, l)
    BY <1>1, <1>3 DEF Better
  <2>3. \A i \in S : ~ Before(i, i)
    BY <1>1, <1>3 DEF Better
  <2> QED BY <1>4, <2>1, <2>2, <2>3 DEF IsStrictOrder
<1>6. PICK i \in S : \A j \in S : j = i \/ <<i, j>> \in R
  <2>1. S # {}
    BY <1>1
  <2> QED BY <1>2, <1>5, <2>1, FirstElement
<1>7. \A j \in S : j = i \/ Before(i, j)
  BY <1>4, <1>6
<1>8. IsWorstSlot(slots, i)
  BY <1>1, <1>3, <1>7 DEF IsWorstSlot, Better, S
<1> QED BY <1>8 DEF S

\* recompute_worst returns the slot, score and tie key of a worst kept entry.
LEMMA RecomputeWorstCorrect ==
  ASSUME NEW slots \in Seq(Entry), slots # <<>>
  PROVE  LET w == RecomputeWorst(slots)
         IN  /\ w.pos \in DOMAIN slots
             /\ w.score = slots[w.pos].score
             /\ w.tie = slots[w.pos].tie
             /\ IsWorstSlot(slots, w.pos)
BY WorstSlotExists DEF RecomputeWorst

\* One maybe_insert extends "the best k seen so far" by one position.
LEMMA MaybeInsertKeepsBest ==
  ASSUME NEW top, NEW raw, NEW n \in Nat, NEW m \in Nat, n < m,
         NEW key \in [1 .. m -> Entry],
         top = [k |-> top.k, slots |-> top.slots, worst |-> top.worst,
                keyed |-> top.keyed, keys |-> top.keys, offset |-> top.offset],
         top.k \in Nat \ {0}, top.slots \in Seq(Entry),
         EntryFor(top, raw, n + 1) = key[n + 1],
         KeepsBest(top.slots, top.k, key, n), WorstCached(top)
  PROVE  LET new == MaybeInsert(top, raw, n + 1)
         IN  /\ new = [top EXCEPT !.slots = new.slots, !.worst = new.worst]
             /\ new.slots \in Seq(Entry)
             /\ KeepsBest(new.slots, top.k, key, n + 1)
             /\ WorstCached(new)
<1> DEFINE e == EntryFor(top, raw, n + 1)
           slots == top.slots
           new == MaybeInsert(top, raw, n + 1)
           app == Append(slots, e)
           rep == [slots EXCEPT ![top.worst.pos] = e]
<1>0. e \in Entry /\ e = key[n + 1]
  OBVIOUS
<1>a. \A s \in Entry : s.score \in Int /\ s.tie \in Int /\ s.idx \in Nat
  BY ScoresAssumption DEF Entry
<1>b. \A i \in DOMAIN slots : slots[i] \in Entry /\ slots[i].idx \in 1 .. n
  BY DEF KeepsBest
<1>f. \A i \in DOMAIN slots : slots[i] = key[slots[i].idx]
  BY DEF KeepsBest
<1>g. n + 1 \in 1 .. n + 1 /\ e = key[e.idx]
  BY <1>0 DEF EntryFor
<1>c. \A p \in 1 .. n + 1 : p \in 1 .. m /\ key[p] \in Entry
  OBVIOUS
<1>d. Len(slots) \in Nat /\ DOMAIN slots = 1 .. Len(slots)
  OBVIOUS
<1>e. \A q \in 1 .. n : q # n + 1 /\ q \in 1 .. n + 1
  OBVIOUS
<1>1. CASE Len(slots) < top.k
  <2>1. new.slots = app
    BY <1>1 DEF MaybeInsert
  <2>2. new = [top EXCEPT !.slots = new.slots, !.worst = new.worst]
    BY <1>1 DEF MaybeInsert
  <2>3. /\ app \in Seq(Entry) /\ Len(app) = Len(slots) + 1
        /\ DOMAIN app = 1 .. Len(slots) + 1
        /\ \A i \in DOMAIN slots : app[i] = slots[i]
        /\ app[Len(slots) + 1] = e
    BY <1>0
  <2>4. Len(slots) = n
    BY <1>1 DEF KeepsBest
  <2>5. e.idx = n + 1
    BY DEF EntryFor
  <2>6. KeepsBest(app, top.k, key, n + 1)
    <3>1. Len(app) = IF n + 1 < top.k THEN n + 1 ELSE top.k
      BY <1>1, <2>3, <2>4
    <3>2. \A i \in DOMAIN app : app[i].idx \in 1 .. n + 1 /\ app[i] = key[app[i].idx]
      <4>1. \A i \in DOMAIN app : i \in DOMAIN slots \/ app[i] = e
        BY <1>d, <2>3
      <4> HIDE DEF app, e, slots
      <4> QED BY <1>b, <1>e, <1>f, <1>g, <2>3, <2>5, <4>1
    <3>3. \A i, j \in DOMAIN app : app[i].idx = app[j].idx => i = j
      <4>1. \A i \in DOMAIN slots : app[i].idx # n + 1
        BY <1>b, <2>3
      <4> QED BY <1>d, <2>3, <2>5, <4>1 DEF KeepsBest
    <3>4. (1 .. n + 1) \subseteq {app[i].idx : i \in DOMAIN app}
      <4>1. \A p \in 1 .. n : p \in DOMAIN app /\ app[p].idx = p
        BY <1>1, <1>d, <2>3, <2>4 DEF KeepsBest
      <4>2. n + 1 \in DOMAIN app /\ app[n + 1].idx = n + 1
        BY <2>3, <2>4, <2>5
      <4>3. \A p \in 1 .. n + 1 : p \in 1 .. n \/ p = n + 1
        OBVIOUS
      <4> QED BY <4>1, <4>2, <4>3
    <3>5. n + 1 <= top.k => \A p \in 1 .. n + 1 : app[p].idx = p
      BY <1>1, <1>d, <2>3, <2>4, <2>5 DEF KeepsBest
    <3> QED BY <3>1, <3>2, <3>3, <3>4, <3>5 DEF KeepsBest
  <2>7. WorstCached(new)
    <3>1. CASE Len(app) = top.k
      <4>1. new.worst = RecomputeWorst(app) /\ new.k = top.k
        BY <1>1, <3>1 DEF MaybeInsert
      <4>2. app # <<>>
        BY <2>3
      <4> HIDE DEF new, app
      <4> QED BY <2>1, <2>3, <4>1, <4>2, RecomputeWorstCorrect DEF WorstCached
    <3>2. CASE Len(app) # top.k
      BY <2>1, <2>2, <3>2 DEF WorstCached
    <3> QED BY <3>1, <3>2
  <2> QED BY <2>1, <2>2, <2>3, <2>6, <2>7
<1>4. ASSUME Len(slots) >= top.k
      PROVE  /\ Len(slots) = top.k /\ n >= top.k
             /\ top.worst.pos \in DOMAIN slots
             /\ \A i \in DOMAIN slots : ~ Better(slots[top.worst.pos], slots[i])
             /\ \A x : Better(x, top.worst) <=> Better(x, slots[top.worst.pos])
  BY <1>4, <1>d DEF KeepsBest, WorstCached, IsWorstSlot, Better
<1>5. \A x, y, z \in Entry : /\ Better(x, y) /\ Better(y, z) => Better(x, z)
                             /\ ~ Better(x, y) /\ ~ Better(y, z) => ~ Better(x, z)
                             /\ ~ Better(x, x)
                             /\ Better(x, y) => ~ Better(y, x)
  BY <1>a DEF Better
<1>2. CASE Len(slots) >= top.k /\ Better(e, top.worst)
  <2> DEFINE w == top.worst.pos
  <2>1. new.slots = rep /\ new.worst = RecomputeWorst(rep) /\ new.k = top.k
    BY <1>2, <1>d DEF MaybeInsert
  <2>2. new = [top EXCEPT !.slots = new.slots, !.worst = new.worst]
    BY <1>2, <1>d DEF MaybeInsert
  <2>3. /\ w \in DOMAIN slots /\ rep \in Seq(Entry) /\ Len(rep) = Len(slots)
        /\ DOMAIN rep = DOMAIN slots
        /\ \A i \in DOMAIN slots : rep[i] = IF i = w THEN e ELSE slots[i]
    BY <1>0, <1>2, <1>4
  <2>4. e.idx = n + 1
    BY DEF EntryFor
  <2> HIDE DEF new, rep, w
  <2>5. KeepsBest(rep, top.k, key, n + 1)
    <3>1. Len(rep) = IF n + 1 < top.k THEN n + 1 ELSE top.k
      BY <1>2, <1>4, <2>3
    <3>2. \A i \in DOMAIN rep : rep[i].idx \in 1 .. n + 1 /\ rep[i] = key[rep[i].idx]
      BY <1>b, <1>e, <1>f, <1>g, <2>3, <2>4
    <3>3. \A i, j \in DOMAIN rep : rep[i].idx = rep[j].idx => i = j
      <4>1. \A i \in DOMAIN slots : slots[i].idx # n + 1
        BY <1>b
      <4> QED BY <2>3, <2>4, <4>1 DEF KeepsBest
    <3>4. ASSUME NEW p \in (1 .. n + 1) \ {rep[i].idx : i \in DOMAIN rep},
                 NEW i \in DOMAIN rep
          PROVE  ~ Better(key[p], rep[i])
      <4>1. p \in 1 .. n
        BY <2>3, <2>4
      <4>2. ~ Better(key[p], slots[w])
        <5>1. CASE p \in {slots[j].idx : j \in DOMAIN slots}
          <6>1. PICK j \in DOMAIN slots : p = slots[j].idx
            BY <5>1
          <6>2. j = w
            BY <2>3, <6>1
          <6>3. key[p] = slots[w]
            BY <6>1, <6>2 DEF KeepsBest
          <6> QED BY <1>5, <6>3, <2>3, <1>b
        <5>2. CASE p \notin {slots[j].idx : j \in DOMAIN slots}
          BY <4>1, <5>2, <2>3 DEF KeepsBest
        <5> QED BY <5>1, <5>2
      <4>3. ~ Better(slots[w], rep[i])
        <5>1. Better(e, slots[w])
          BY <1>2, <1>4 DEF w
        <5>2. i # w => ~ Better(slots[w], slots[i])
          BY <1>2, <1>4, <2>3 DEF w
        <5> QED BY <1>0, <1>5, <1>b, <2>3, <5>1, <5>2
      <4>4. key[p] \in Entry /\ slots[w] \in Entry /\ rep[i] \in Entry
        BY <1>0, <1>b, <1>c, <2>3
      <4> QED BY <1>5, <4>2, <4>3, <4>4
    <3>5. ~ (n + 1 <= top.k)
      BY <1>2, <1>4
    <3> QED BY <3>1, <3>2, <3>3, <3>4, <3>5 DEF KeepsBest
  <2>6. WorstCached(new)
    <3>1. rep # <<>>
      BY <2>3
    <3> QED BY <2>1, <2>3, <3>1, RecomputeWorstCorrect DEF WorstCached
  <2> QED BY <2>1, <2>2, <2>3, <2>5, <2>6 DEF new
<1>3. CASE Len(slots) >= top.k /\ ~ Better(e, top.worst)
  <2>1. new = top
    BY <1>3, <1>d DEF MaybeInsert
  <2>2. KeepsBest(slots, top.k, key, n + 1)
    <3>1. ~ (n + 1 <= top.k) /\ Len(slots) = top.k
      BY <1>3, <1>4
    <3>2. ASSUME NEW p \in (1 .. n + 1) \ {slots[i].idx : i \in DOMAIN slots},
                 NEW i \in DOMAIN slots
          PROVE  ~ Better(key[p], slots[i])
      <4>1. CASE p \in 1 .. n
        BY <4>1 DEF KeepsBest
      <4>2. CASE p = n + 1
        <5>1. ~ Better(e, slots[top.worst.pos])
          BY <1>3, <1>4
        <5>2. ~ Better(slots[top.worst.pos], slots[i])
          BY <1>3, <1>4
        <5> QED BY <1>0, <1>3, <1>4, <1>5, <1>b, <4>2, <5>1, <5>2
      <4> QED BY <4>1, <4>2
    <3> QED BY <1>e, <3>1, <3>2 DEF KeepsBest
  <2> QED BY <2>1, <2>2
<1> QED BY <1>d, <1>1, <1>2, <1>3

\* The order of the keys is total up to ties.
LEMMA KeyOrder ==
  /\ \A x \in Entry : x.score \in Nat /\ x.tie \in Nat /\ x.idx \in Nat \ {0}
  /\ \A x, y \in Entry :
       /\ Better(x, y) => ~ Better(y, x)
       /\ ~ Better(x, y) /\ ~ Better(y, x) => x.score = y.score /\ x.tie = y.tie
  /\ \A x, y, z \in Entry :
       /\ Better(x, y) /\ ~ Better(z, y) => Better(x, z)
       /\ ~ Better(y, x) /\ Better(y, z) => Better(x, z)
<1>1. \A x \in Entry : x.score \in Nat /\ x.tie \in Nat /\ x.idx \in Nat \ {0}
  BY ScoresAssumption DEF Entry
<1> QED BY <1>1 DEF Better

\* The final sort has exactly one entry for each place.
LEMMA PlacedRank ==
  ASSUME NEW slots \in Seq(Entry), NEW r \in 1 .. Len(slots)
  PROVE  \E i \in DOMAIN slots :
           /\ Placed(slots, r) = slots[i]
           /\ Cardinality({j \in DOMAIN slots : SortsBefore(slots, j, i)}) = r - 1
<1> DEFINE S == DOMAIN slots
           R == {p \in S \X S : SortsBefore(slots, p[1], p[2])}
           Before(i) == {j \in S : SortsBefore(slots, j, i)}
<1>1. S = 1 .. Len(slots) /\ Len(slots) \in Nat /\ S \subseteq Nat
  OBVIOUS
<1>2. IsFiniteSet(S) /\ Cardinality(S) = Len(slots)
  BY <1>1, FS_Interval
<1>3. \A i \in S : slots[i] \in Entry
  OBVIOUS
<1>4. \A i, j \in S : <<i, j>> \in R <=> SortsBefore(slots, i, j)
  OBVIOUS
<1>5. IsStrictOrder(R, S)
  <2>1. \A i \in S : ~ SortsBefore(slots, i, i)
    BY <1>1, <1>3, KeyOrder DEF SortsBefore
  <2>2. \A i, j \in S : i = j \/ SortsBefore(slots, i, j) \/ SortsBefore(slots, j, i)
    BY <1>1 DEF SortsBefore
  <2>3. \A i, j, k \in S : SortsBefore(slots, i, j) /\ SortsBefore(slots, j, k)
                             => SortsBefore(slots, i, k)
    <3> SUFFICES ASSUME NEW i \in S, NEW j \in S, NEW k \in S,
                        SortsBefore(slots, i, j), SortsBefore(slots, j, k)
                 PROVE  SortsBefore(slots, i, k)
      OBVIOUS
    <3>1. slots[i] \in Entry /\ slots[j] \in Entry /\ slots[k] \in Entry
      BY <1>3
    <3>2. i \in Nat /\ j \in Nat /\ k \in Nat
      BY <1>1
    <3>3. i < j /\ j < k => i < k
      BY <3>2
    <3> HIDE DEF S
    <3> QED BY <3>1, <3>3, KeyOrder DEF SortsBefore
  <2> HIDE DEF R, S
  <2> QED BY <1>4, <2>1, <2>2, <2>3 DEF IsStrictOrder
<1>6. \A i \in S : Below(i, R, S) = Before(i)
  BY <1>4 DEF Below
<1> HIDE DEF R
<1>7. r - 1 \in 0 .. Cardinality(S) - 1
  BY <1>2
<1>8. PICK i \in S : Cardinality(Before(i)) = r - 1
  <2> HIDE DEF S, Before
  <2> QED BY <1>2, <1>5, <1>6, <1>7, Ranked
<1>9. \A j \in S : Cardinality(Before(j)) = r - 1 => j = i
  <2> HIDE DEF S, Before
  <2> QED BY <1>2, <1>5, <1>6, <1>7, <1>8, Ranked
<1>10. Placed(slots, r) = slots[i]
  BY <1>8, <1>9 DEF Placed
<1> QED BY <1>8, <1>10

\* Place r of the first m keys is that of p, up to ties.
HasPlace(key, m, p, r) ==
  /\ Cardinality({o \in 1 .. m : Better(key[o], key[p])}) < r
  /\ r <= Cardinality({o \in 1 .. m : ~ Better(key[p], key[o])})

\* Positions of one place have the same key.
LEMMA OnePlace ==
  ASSUME NEW m \in Nat, NEW key \in [1 .. m -> Entry], NEW r \in Nat,
         NEW p \in 1 .. m, NEW q \in 1 .. m, HasPlace(key, m, p, r), HasPlace(key, m, q, r)
  PROVE  key[p].score = key[q].score /\ key[p].tie = key[q].tie
<1>1. IsFiniteSet(1 .. m)
  BY FS_Interval
<1>2. ASSUME NEW x \in 1 .. m, NEW y \in 1 .. m, Better(key[x], key[y]),
             HasPlace(key, m, x, r), HasPlace(key, m, y, r)
      PROVE  FALSE
  <2> DEFINE A == {o \in 1 .. m : ~ Better(key[x], key[o])}
             B == {o \in 1 .. m : Better(key[o], key[y])}
  <2>1. A \subseteq B
    BY <1>2, KeyOrder
  <2>2. B \subseteq 1 .. m
    OBVIOUS
  <2>3. Cardinality(B) < r /\ r <= Cardinality(A)
    BY <1>2 DEF HasPlace
  <2> HIDE DEF A, B
  <2>4. IsFiniteSet(B)
    BY <1>1, <2>2, FS_Subset
  <2>5. IsFiniteSet(A) /\ Cardinality(A) <= Cardinality(B)
    BY <2>1, <2>4, FS_Subset
  <2>6. Cardinality(A) \in Nat /\ Cardinality(B) \in Nat
    BY <2>4, <2>5, FS_CardinalityType
  <2> QED BY <2>3, <2>5, <2>6
<1>3. ~ Better(key[p], key[q]) /\ ~ Better(key[q], key[p])
  BY <1>2
<1> QED BY <1>3, KeyOrder

\* The sorted collector has the best positions at their places.
LEMMA PlacedBest ==
  ASSUME NEW m \in Nat, NEW key \in [1 .. m -> Entry], NEW k \in Nat,
         NEW slots \in Seq(Entry), KeepsBest(slots, k, key, m),
         NEW r \in 1 .. Len(slots)
  PROVE  LET e == Placed(slots, r)
         IN  e.idx \in 1 .. m /\ e = key[e.idx] /\ HasPlace(key, m, e.idx, r)
<1>1. PICK i \in DOMAIN slots :
        /\ Placed(slots, r) = slots[i]
        /\ Cardinality({j \in DOMAIN slots : SortsBefore(slots, j, i)}) = r - 1
  BY PlacedRank
<1> DEFINE S == DOMAIN slots
           f == [j \in S |-> slots[j].idx]
           p == slots[i].idx
           B == {j \in S : SortsBefore(slots, j, i)}
           C == B \cup {i}
           Ahead == {o \in 1 .. m : Better(key[o], key[p])}
           NotBehind == {o \in 1 .. m : ~ Better(key[p], key[o])}
<1>2. \A j \in S : slots[j] \in Entry /\ f[j] \in 1 .. m /\ slots[j] = key[f[j]]
  BY DEF KeepsBest
<1>3. \A j, l \in S : f[j] = f[l] => j = l
  BY DEF KeepsBest
<1>4. IsFiniteSet(S) /\ IsFiniteSet(1 .. m) /\ S \subseteq Nat
  BY FS_Interval
<1>5. B \subseteq S /\ i \notin B /\ i \in S
  BY <1>2, <1>4, KeyOrder DEF SortsBefore
<1>6. Cardinality(B) = r - 1 /\ IsFiniteSet(B)
  BY <1>1, <1>4, <1>5, FS_Subset
<1>7. IsFiniteSet(C) /\ Cardinality(C) = r
  <2>1. r \in Nat
    OBVIOUS
  <2> HIDE DEF B
  <2>2. i \notin B /\ Cardinality(B) = r - 1 /\ IsFiniteSet(B)
    BY <1>5, <1>6
  <2>3. IsFiniteSet(C) /\ Cardinality(C) = Cardinality(B) + 1
    BY <2>2, FS_AddElement
  <2> QED BY <2>1, <2>2, <2>3
<1>8. \A o \in Ahead : \E j \in B : f[j] = o
  <2> SUFFICES ASSUME NEW o \in 1 .. m, Better(key[o], key[p])
               PROVE  \E j \in B : f[j] = o
    OBVIOUS
  <2>1. p \in 1 .. m /\ key[p] = slots[i]
    BY <1>2, <1>5
  <2>2. o \in {slots[j].idx : j \in S}
    BY <1>1, <2>1 DEF KeepsBest
  <2>3. PICK j \in S : f[j] = o
    BY <2>2
  <2>4. Better(slots[j], slots[i])
    BY <1>2, <2>1, <2>3
  <2> QED BY <2>3, <2>4 DEF SortsBefore
<1>9. \A j \in C : f[j] \in NotBehind
  <2> SUFFICES ASSUME NEW j \in C PROVE ~ Better(key[p], key[f[j]])
    BY <1>2, <1>5
  <2>1. j \in S /\ (j = i \/ SortsBefore(slots, j, i))
    BY <1>5
  <2>2. ~ Better(slots[i], slots[j])
    BY <1>2, <1>5, <2>1, KeyOrder DEF SortsBefore
  <2> QED BY <1>2, <1>5, <2>1, <2>2
<1>10. Ahead \subseteq 1 .. m /\ NotBehind \subseteq 1 .. m
  OBVIOUS
<1>11. IsFiniteSet(Ahead) /\ IsFiniteSet(NotBehind)
       /\ Cardinality(Ahead) \in Nat /\ Cardinality(NotBehind) \in Nat
  <2> HIDE DEF Ahead, NotBehind
  <2> QED BY <1>4, <1>10, FS_Subset, FS_CardinalityType
<1>12. Cardinality(Ahead) <= Cardinality(B)
  <2> DEFINE g == [o \in Ahead |-> CHOOSE j \in B : f[j] = o]
  <2> HIDE DEF f, B, Ahead
  <2>1. \A o \in Ahead : g[o] \in B /\ f[g[o]] = o
    BY <1>8
  <2>2. g \in [Ahead -> B] /\ DOMAIN g = Ahead
    BY <2>1
  <2> HIDE DEF g
  <2>3. g \in Injection(Ahead, B)
    BY <2>1, <2>2 DEF Injection, IsInjective
  <2> QED BY <1>6, <2>3, FS_Injection
<1>13. Cardinality(C) <= Cardinality(NotBehind)
  <2> DEFINE g == [j \in C |-> f[j]]
  <2>1. C \subseteq S
    BY <1>5
  <2> HIDE DEF f, C, NotBehind, S
  <2>2. g \in [C -> NotBehind]
    BY <1>9
  <2>3. \A j, l \in C : g[j] = g[l] => j = l
    BY <1>3, <2>1
  <2>4. DOMAIN g = C
    OBVIOUS
  <2> HIDE DEF g
  <2>5. g \in Injection(C, NotBehind)
    BY <2>2, <2>3, <2>4 DEF Injection, IsInjective
  <2> QED BY <1>11, <2>5, FS_Injection
<1>14. HasPlace(key, m, p, r)
  <2> HIDE DEF B, C
  <2>1. Cardinality(Ahead) < r
    <3>1. r \in Nat
      OBVIOUS
    <3> HIDE DEF Ahead
    <3> QED BY <1>6, <1>11, <1>12, <3>1
  <2>2. r <= Cardinality(NotBehind)
    BY <1>7, <1>13
  <2> QED BY <2>1, <2>2 DEF HasPlace
<1>15. p \in 1 .. m /\ slots[i] = key[p]
  BY <1>2, <1>5
<1> QED BY <1>1, <1>14, <1>15

-----------------------------------------------------------------------------
(* The rerank.                                                              *)

Records ==
  /\ scratch = [q |-> scratch.q, sub |-> scratch.sub, top |-> scratch.top]
  /\ scratch.top = [k |-> scratch.top.k, slots |-> scratch.top.slots,
                    worst |-> scratch.top.worst, keyed |-> scratch.top.keyed,
                    keys |-> scratch.top.keys, offset |-> scratch.top.offset]

InRows == /\ call \in Call /\ Accepted(call)
          /\ qi \in 1 .. NumRows(call) /\ OutK(call) > 0

Keys == [p \in DOMAIN Row(call, qi) |-> KeyOf(call, qi, p)]

\* The scratch is loaded for row qi, and its collector is exact.
InScan ==
  /\ InRows
  /\ Row(call, qi) # <<>>
  /\ pos \in 1 .. Len(Row(call, qi)) + 1
  /\ scratch.q = call.queries[qi] /\ scratch.sub = Row(call, qi)
  /\ scratch.top.k = OutK(call)
  /\ scratch.top.keyed /\ scratch.top.keys = Row(call, qi)
  /\ scratch.top.offset = IF call.simd THEN CentreOf[call.queries[qi]] ELSE NoOffset
  /\ scratch.top.slots \in Seq(Entry)
  /\ KeepsBest(scratch.top.slots, OutK(call), Keys, pos - 1)
  /\ WorstCached(scratch.top)

\* The inductive invariant: CollectorExact alone is not inductive, because the
\* next insertion trusts the cached worst entry and the scratch of the row.
IInv ==
  /\ TypeOK
  /\ Records
  /\ pc = "row" => InRows
  /\ pc = "scan" => InScan

\* The fields of a call, typed.
LEMMA CallType ==
  ASSUME NEW c \in Call
  PROVE  /\ c.queries \in Seq(Queries) /\ c.offsets \in Seq(Nat)
         /\ c.cands \in Seq(Nat) /\ c.k \in Nat /\ c.scoreLen \in Nat
         /\ NumRows(c) \in Nat
BY DEF Call, NumRows

\* Offsets that never fall end at their largest: with the asserts of
\* validate_csr_batch every row slice is in range.
LEMMA RowsInBounds ==
  ASSUME NEW c \in Call, ValidCsrBatch(c), NEW i \in 1 .. NumRows(c)
  PROVE  RowInBounds(c, i)
<1> DEFINE m == NumRows(c) + 1
           off == c.offsets
<1>1. /\ m \in Nat /\ Len(off) = m /\ DOMAIN off = 1 .. m
      /\ \A j \in 1 .. m : off[j] \in Nat
      /\ off[m] = Len(c.cands)
      /\ \A j \in 1 .. m - 1 : off[j + 1] >= off[j]
  <2>0. off \in Seq(Nat) /\ NumRows(c) \in Nat
    BY CallType
  <2>1. m \in Nat /\ Len(off) = m /\ off \in Seq(Nat)
    <3>1. Len(off) = NumRows(c) + 1 BY DEF ValidCsrBatch
    <3> QED BY <2>0, <3>1
  <2>2. DOMAIN off = 1 .. m /\ \A j \in 1 .. m : off[j] \in Nat
    BY <2>1
  <2>3. off[m] = Len(c.cands)
    BY <2>1 DEF ValidCsrBatch
  <2>4. 1 .. m - 1 = 1 .. NumRows(c)
    BY CallType
  <2>5. \A j \in 1 .. m - 1 : off[j + 1] >= off[j]
    BY <2>4 DEF ValidCsrBatch
  <2> QED BY <2>1, <2>2, <2>3, <2>5
<1> DEFINE Over == {j \in 1 .. m : off[j] > off[m]}
           R == {p \in Over \X Over : p[1] > p[2]}
<1>2. Over = {}
  <2>1. SUFFICES ASSUME Over # {} PROVE FALSE
    OBVIOUS
  <2>2. Over \subseteq 1 .. m /\ IsFiniteSet(Over)
    <3>1. IsFiniteSet(1 .. m)
      BY <1>1, FS_Interval
    <3> QED BY <3>1, FS_Subset
  <2>3. IsStrictOrder(R, Over)
    <3>1. \A j \in Over : j \in Int
      <4> HIDE DEF Over
      <4> QED BY <1>1, <2>2
    <3>2. \A j, o \in Over : <<j, o>> \in R <=> j > o
      <4> HIDE DEF Over
      <4> QED OBVIOUS
    <3> HIDE DEF Over, R
    <3> QED BY <3>1, <3>2 DEF IsStrictOrder
  <2>4. PICK j \in Over : \A o \in Over : j >= o
    <3>1. PICK j \in Over : \A o \in Over : o = j \/ <<j, o>> \in R
      <4> HIDE DEF R, Over
      <4> QED BY <2>1, <2>2, <2>3, FirstElement
    <3>2. \A o \in Over : <<j, o>> \in R => j > o
      <4> HIDE DEF Over
      <4> QED OBVIOUS
    <3>3. \A o \in Over : o \in Int
      <4> HIDE DEF Over
      <4> QED BY <1>1, <2>2
    <3>4. j \in Over /\ j \in Int
      BY <3>1, <3>3
    <3> HIDE DEF Over, R
    <3>5. ASSUME NEW o \in Over PROVE j >= o
      <4>1. o \in Int /\ (o = j \/ j > o)
        BY <3>1, <3>2, <3>3
      <4> QED BY <3>4, <4>1
    <3> QED BY <3>4, <3>5
  <2>5. j # m /\ j \in 1 .. m - 1 /\ j + 1 \in 1 .. m
    BY <1>1
  <2>6. off[j + 1] > off[m]
    BY <1>1, <2>5
  <2>7. j + 1 \in Over
    BY <2>5, <2>6
  <2> QED BY <2>2, <2>4, <2>7, <1>1
<1>3. i \in 1 .. m /\ i + 1 \in 1 .. m /\ off[i] <= off[i + 1]
  BY <1>1 DEF NumRows
<1>4. off[i + 1] <= Len(c.cands)
  <2>1. ~ (off[i + 1] > off[m])
    BY <1>2, <1>3
  <2>2. off[i + 1] \in Nat /\ off[m] \in Nat
    BY <1>1, <1>3
  <2> QED BY <1>1, <2>1, <2>2
<1>5. \A p \in off[i] + 1 .. off[i + 1] : p \in DOMAIN c.cands
  <2>1. DOMAIN c.cands = 1 .. Len(c.cands) /\ Len(c.cands) \in Nat
    BY CallType
  <2>2. off[i] \in Nat /\ off[i + 1] \in Nat
    BY <1>1, <1>3
  <2> QED BY <1>4, <2>1, <2>2
<1> QED BY <1>1, <1>3, <1>4, <1>5 DEF RowInBounds, ValidCsrBatch

\* The slice of a row holds ids of documents.
LEMMA RowType ==
  ASSUME NEW c \in Call, Accepted(c), NEW i \in 1 .. NumRows(c)
  PROVE  /\ Row(c, i) \in Seq(Ids)
         /\ c.queries[i] \in Queries
         /\ OutK(c) \in Nat
<1>1. RowInBounds(c, i)
  BY RowsInBounds DEF Accepted
<1>2. c.offsets[i] \in Nat /\ c.offsets[i + 1] \in Nat /\ c.cands \in Seq(Nat)
  <2>1. {i, i + 1} \subseteq DOMAIN c.offsets
    BY <1>1 DEF RowInBounds
  <2> QED BY <2>1, CallType
<1> DEFINE a == c.offsets[i] + 1
           b == c.offsets[i + 1]
<1>3. b <= Len(c.cands) /\ c.cands \in [1 .. Len(c.cands) -> Nat]
      /\ Len(c.cands) \in Nat /\ a \in Nat \ {0} /\ a <= b + 1
  BY <1>1, <1>2 DEF RowInBounds
<1>4. \A p \in a .. b : c.cands[p] \in Ids
  <2>1. \A p \in a .. b : c.cands[p] < N /\ c.cands[p] \in Nat
    <3> TAKE p \in a .. b
    <3>1. c.cands[p] < N BY <1>1 DEF RowInBounds
    <3>2. p \in 1 .. Len(c.cands) BY <1>2, <1>3
    <3>3. c.cands[p] \in Nat BY <3>2, <1>3
    <3> QED BY <3>1, <3>3
  <2> QED BY <2>1, RerankAssumption DEF Ids
<1>8. Row(c, i) \in Seq(Ids)
  BY <1>2, <1>4, SubSeqProperties DEF Row
<1>9. c.queries[i] \in Queries
  BY CallType DEF NumRows
<1> QED BY <1>8, <1>9, CallType, RerankAssumption DEF OutK

\* Every position of the current row has a key that the collector can hold.
LEMMA KeysType ==
  ASSUME InRows, table \in ScoreTables
  PROVE  Keys \in [1 .. Len(Row(call, qi)) -> Entry]
<1>1. Row(call, qi) \in Seq(Ids) /\ call.queries[qi] \in Queries
  BY RowType DEF InRows
<1>2. ASSUME NEW p \in DOMAIN Row(call, qi)
      PROVE  KeyOf(call, qi, p) \in Entry
  <2> DEFINE q == call.queries[qi]
             d == Row(call, qi)[p]
             raw == table[q][d]
  <2>1. d \in Ids /\ p \in Nat \ {0}
    BY <1>1
  <2>2. raw \in RawScores
    BY <1>1, <2>1, RerankAssumption
  <2>3. raw \in 0 .. Infinity - 1 /\ CentreOf[q][raw] \in 0 .. Infinity - 1
    BY <1>1, <2>2, RerankAssumption, ScoresAssumption
  <2>4. d \in 0 .. Infinity - 1
    BY <2>1, RerankAssumption, ScoresAssumption DEF Ids
  <2> QED BY <2>1, <2>3, <2>4 DEF KeyOf, Entry
<1> QED BY <1>1, <1>2 DEF Keys

-----------------------------------------------------------------------------

\* The invariant holds before the first call.
LEMMA InitIInv == Init => IInv
BY RerankAssumption DEF Init, IInv, TypeOK, Records, New, NoCall

\* A call that is accepted starts at its first row.
LEMMA BeginCallIInv ==
  ASSUME IInv, NEW c \in Calls, BeginCall(c)
  PROVE  IInv'
<1>1. c \in Call /\ c.scoreLen \in Nat /\ NumRows(c) \in Nat /\ OutK(c) \in Nat
  BY RerankAssumption, CallType DEF OutK
<1>2. Records'
  BY DEF BeginCall, IInv, Records
<1>3. DOMAIN out' = 1 .. call'.scoreLen
  BY DEF BeginCall
<1>4. CASE Reject(c)
  BY <1>1, <1>2, <1>3, <1>4 DEF BeginCall, Reject, IInv, TypeOK
<1>5. CASE Accept(c)
  <2>1. pc' = "row" => InRows'
    BY <1>1, <1>5 DEF BeginCall, Accept, InRows, NumRows, OutK, Accepted, ValidCsrBatch, RowLen
  <2> QED BY <1>1, <1>2, <1>3, <1>5, <2>1 DEF BeginCall, Accept, IInv, TypeOK
<1> QED BY <1>4, <1>5 DEF BeginCall

\* Leaving a row keeps the position of the next one inside the batch.
LEMMA NextRowInRows ==
  ASSUME InRows, NextRow, UNCHANGED call
  PROVE  /\ qi' \in Nat \ {0}
         /\ pc' \in {"idle", "row"}
         /\ outcome' \in {outcome, "ok"}
         /\ pc' = "row" => InRows'
<1>1. NumRows(call) \in Nat
  BY CallType DEF InRows
<1>2. NumRows(call)' = NumRows(call) /\ OutK(call)' = OutK(call)
  BY DEF NumRows, OutK
<1>3. Accepted(call)' <=> Accepted(call)
  BY DEF Accepted, ValidCsrBatch, NumRows, OutK, RowLen
<1> QED BY <1>1, <1>2, <1>3 DEF InRows, NextRow

\* Offering one more position keeps the collector the best of those scanned.
LEMMA ScanDocExact ==
  ASSUME IInv, ScanDoc
  PROVE  IInv'
<1> DEFINE row == Row(call, qi)
           n == pos - 1
           m == Len(row)
           raw == table[scratch.q][scratch.sub[pos]]
           top == scratch.top
           new == MaybeInsert(top, raw, pos)
<1>1. InScan /\ TypeOK /\ Records /\ pc = "scan"
  BY DEF IInv, ScanDoc
<1>2. row \in Seq(Ids) /\ m \in Nat /\ OutK(call) \in Nat /\ pos \in 1 .. m
  BY <1>1, RowType DEF InScan, InRows, ScanDoc
<1>3. Keys \in [1 .. m -> Entry]
  BY <1>1, KeysType DEF InScan, TypeOK
<1>4. n \in Nat /\ n < m /\ n + 1 = pos
  BY <1>2
<1>5. EntryFor(top, raw, pos) = Keys[pos]
  <2>1. Keys[pos] = KeyOf(call, qi, pos)
    BY <1>2 DEF Keys
  <2>2. /\ top.keyed /\ top.keys = row /\ scratch.sub = row
        /\ scratch.q = call.queries[qi]
        /\ top.offset = IF call.simd THEN CentreOf[call.queries[qi]] ELSE NoOffset
    BY <1>1 DEF InScan
  <2>3. raw \in RawScores
    <3>1. scratch.q \in Queries /\ scratch.sub[pos] \in Ids
      BY <1>1, <1>2, <2>2, RowType DEF InScan, InRows
    <3> QED BY <1>1, <3>1, RerankAssumption DEF TypeOK
  <2>4. top.offset[raw] = IF call.simd THEN CentreOf[call.queries[qi]][raw] ELSE raw
    BY <2>2, <2>3 DEF NoOffset
  <2> QED BY <2>1, <2>2, <2>4 DEF EntryFor, KeyOf
<1>6. /\ new = [top EXCEPT !.slots = new.slots, !.worst = new.worst]
      /\ new.slots \in Seq(Entry)
      /\ KeepsBest(new.slots, OutK(call), Keys, n + 1)
      /\ WorstCached(new)
  <2>1. /\ top = [k |-> top.k, slots |-> top.slots, worst |-> top.worst,
                  keyed |-> top.keyed, keys |-> top.keys, offset |-> top.offset]
        /\ top.k \in Nat \ {0} /\ top.k = OutK(call) /\ top.slots \in Seq(Entry)
        /\ KeepsBest(top.slots, top.k, Keys, n) /\ WorstCached(top)
    BY <1>1, <1>2 DEF InScan, InRows, Records
  <2>2. EntryFor(top, raw, n + 1) = Keys[n + 1] /\ new = MaybeInsert(top, raw, n + 1)
    BY <1>4, <1>5
  <2> HIDE DEF top, n, m, raw, new
  <2>3. LET x == MaybeInsert(top, raw, n + 1)
        IN  /\ x = [top EXCEPT !.slots = x.slots, !.worst = x.worst]
            /\ x.slots \in Seq(Entry)
            /\ KeepsBest(x.slots, top.k, Keys, n + 1)
            /\ WorstCached(x)
    BY <1>2, <1>3, <1>4, <2>1, <2>2, MaybeInsertKeepsBest DEF m
  <2> QED BY <2>1, <2>2, <2>3
<1>7. /\ scratch' = [scratch EXCEPT !.top = new] /\ scratch'.top = new
      /\ scratch'.q = scratch.q /\ scratch'.sub = scratch.sub
  BY <1>1 DEF ScanDoc, Records
<1>8. /\ call' = call /\ qi' = qi /\ table' = table /\ pc' = pc /\ out' = out
      /\ outcome' = outcome /\ pos' = pos + 1
  BY DEF ScanDoc
<1>9. /\ new.k = top.k /\ new.keyed = top.keyed /\ new.keys = top.keys
      /\ new.offset = top.offset
  <2> HIDE DEF new, top
  <2> QED BY <1>1, <1>6 DEF Records, top
<1>10. Records'
  <2>1. new = [k |-> new.k, slots |-> new.slots, worst |-> new.worst,
               keyed |-> new.keyed, keys |-> new.keys, offset |-> new.offset]
    <3> HIDE DEF new
    <3> QED BY <1>1, <1>6 DEF Records
  <2> HIDE DEF new
  <2> QED BY <1>1, <1>7, <2>1 DEF Records
<1>11. InScan'
  <2>1. /\ Row(call, qi)' = Row(call, qi) /\ OutK(call)' = OutK(call)
        /\ NumRows(call)' = NumRows(call) /\ Accepted(call)' = Accepted(call)
        /\ Keys' = Keys
    BY <1>8 DEF Row, OutK, NumRows, Accepted, ValidCsrBatch, RowLen, Keys, KeyOf
  <2>2. InRows'
    BY <1>1, <1>8, <2>1 DEF InRows, InScan
  <2>3. pos' \in 1 .. m + 1 /\ pos' - 1 = n + 1
    BY <1>2, <1>8
  <2> HIDE DEF new, n, m, top
  <2>4. WorstCached(scratch'.top)
    BY <1>6, <1>7
  <2>5. KeepsBest(scratch'.top.slots, OutK(call), Keys, pos' - 1)
    BY <1>6, <1>7, <2>3
  <2>6. WorstCached(scratch.top)'
    BY <2>4 DEF WorstCached, IsWorstSlot, Better
  <2>7. KeepsBest(scratch.top.slots, OutK(call), Keys, pos - 1)'
    BY <2>1, <2>5 DEF KeepsBest, Better
  <2>8. (scratch.top.offset = IF call.simd THEN CentreOf[call.queries[qi]] ELSE NoOffset)'
    BY <1>1, <1>7, <1>8, <1>9 DEF InScan, NoOffset, top
  <2>9. /\ Row(call, qi)' # <<>> /\ pos' \in 1 .. Len(Row(call, qi)') + 1
        /\ scratch'.q = call'.queries[qi'] /\ scratch'.sub = Row(call, qi)'
        /\ scratch'.top.k = OutK(call)'
        /\ scratch'.top.keyed /\ scratch'.top.keys = Row(call, qi)'
        /\ scratch'.top.slots \in Seq(Entry)
    BY <1>1, <1>6, <1>7, <1>8, <1>9, <2>1, <2>3 DEF InScan, top, m
  <2>10. Entry' = Entry /\ Seq(Entry)' = Seq(Entry)
    BY DEF Entry
  <2> QED BY <2>2, <2>6, <2>7, <2>8, <2>9, <2>10 DEF InScan
<1>12. TypeOK'
  BY <1>1, <1>2, <1>7, <1>8, <1>9 DEF TypeOK
<1> QED BY <1>1, <1>8, <1>10, <1>11, <1>12 DEF IInv

\* An empty row, or the last scan position of one, is written and left.
LEMMA WriteIIinv ==
  ASSUME IInv, InRows, NextRow, UNCHANGED <<table, scratch, call, pos>>,
         DOMAIN out' = DOMAIN out
  PROVE  IInv'
<1>1. /\ qi' \in Nat \ {0} /\ pc' \in {"idle", "row"}
      /\ outcome' \in {outcome, "ok"}
      /\ pc' = "row" => InRows'
  BY NextRowInRows
<1>2. TypeOK'
  BY <1>1 DEF IInv, TypeOK
<1>3. Records'
  BY DEF IInv, Records
<1> QED BY <1>1, <1>2, <1>3 DEF IInv

\* A row without candidates is padded and left.
LEMMA PadEmptyRowIInv ==
  ASSUME IInv, PadEmptyRow
  PROVE  IInv'
BY WriteIIinv DEF IInv, PadEmptyRow, WriteRow

\* A scanned row is written and left.
LEMMA FinishRowIInv ==
  ASSUME IInv, FinishRow
  PROVE  IInv'
BY WriteIIinv DEF IInv, FinishRow, WriteRow, InScan

\* The reset at the head of a row empties the collector whatever an earlier
\* row or call left in it: an empty collector is exact for no document.
LEMMA BeginRowIInv ==
  ASSUME IInv, BeginRow
  PROVE  IInv'
<1> DEFINE row == Row(call, qi)
           q == call.queries[qi]
           reset == ResetWithTieKeys(scratch.top, OutK(call), row)
           new == IF call.simd THEN SetScoreOffset(reset, CentreOf[q]) ELSE reset
<1>1. InRows /\ TypeOK /\ Records /\ pc = "row" /\ row # <<>>
  BY DEF IInv, BeginRow
<1>2. row \in Seq(Ids) /\ q \in Queries /\ OutK(call) \in Nat
  BY <1>1, RowType DEF InRows
<1>3. /\ scratch' = [q |-> q, sub |-> row, top |-> new]
      /\ pos' = 1 /\ pc' = "scan"
      /\ table' = table /\ call' = call /\ out' = out /\ qi' = qi
      /\ outcome' = outcome
  BY DEF BeginRow
<1>4. /\ new.k = OutK(call) /\ new.slots = <<>> /\ new.keyed /\ new.keys = row
      /\ new.offset = IF call.simd THEN CentreOf[q] ELSE NoOffset
      /\ new = [k |-> new.k, slots |-> new.slots, worst |-> new.worst,
                keyed |-> new.keyed, keys |-> new.keys, offset |-> new.offset]
  BY DEF ResetWithTieKeys, SetScoreOffset
<1> HIDE DEF new, reset
<1>5. scratch'.q = q /\ scratch'.sub = row /\ scratch'.top = new
  BY <1>3
<1>6. Records'
  BY <1>3, <1>4, <1>5 DEF Records
<1>7. /\ Row(call, qi)' = row /\ OutK(call)' = OutK(call)
      /\ NumRows(call)' = NumRows(call) /\ Accepted(call)' = Accepted(call)
      /\ Entry' = Entry /\ NoOffset' = NoOffset
  BY <1>3 DEF Row, OutK, NumRows, Accepted, ValidCsrBatch, RowLen, Entry, NoOffset
<1>8. KeepsBest(scratch.top.slots, OutK(call), Keys, pos - 1)'
  <2>1. scratch'.top.slots = <<>> /\ OutK(call)' \in Nat /\ OutK(call)' > 0 /\ pos' - 1 = 0
    BY <1>1, <1>2, <1>3, <1>4, <1>5, <1>7 DEF InRows
  <2> QED BY <2>1 DEF KeepsBest
<1>9. WorstCached(scratch.top)'
  BY <1>1, <1>2, <1>4, <1>5 DEF WorstCached, InRows
<1>10. InRows'
  BY <1>1, <1>3, <1>7 DEF InRows
<1>11. InScan'
  <2>1. Len(row) \in Nat /\ pos' \in 1 .. Len(row) + 1
    BY <1>2, <1>3
  <2>2. <<>> \in Seq(Entry)
    OBVIOUS
  <2> QED BY <1>1, <1>3, <1>4, <1>5, <1>7, <1>8, <1>9, <1>10, <2>1, <2>2 DEF InScan
<1>12. TypeOK'
  BY <1>1, <1>2, <1>3, <1>4, <1>5 DEF TypeOK
<1> QED BY <1>3, <1>6, <1>11, <1>12 DEF IInv

\* Clearing the scratch between two calls.
LEMMA ClearScratchIInv ==
  ASSUME IInv, ClearScratch
  PROVE  IInv'
BY DEF IInv, ClearScratch, TypeOK, Records, New

\* The invariant speaks only of the variables of the module.
LEMMA StutterIInv ==
  ASSUME IInv, UNCHANGED vars
  PROVE  IInv'
<1>1. TypeOK'
  BY DEF IInv, vars, TypeOK
<1>2. Records'
  BY DEF IInv, vars, Records
<1>3. /\ table' = table /\ scratch' = scratch /\ call' = call /\ qi' = qi
      /\ pos' = pos /\ pc' = pc
  BY DEF vars
<1>4. InRows' = InRows
  BY <1>3 DEF InRows, OutK, NumRows, Accepted, ValidCsrBatch, RowLen
<1>5. InScan' = InScan
  BY <1>3, <1>4 DEF InScan, Row, OutK, Keys, KeyOf, WorstCached, KeepsBest,
                    IsWorstSlot, Better, Entry, NoOffset
<1> QED BY <1>1, <1>2, <1>3, <1>4, <1>5 DEF IInv

\* The inductive invariant holds in every reachable state.
THEOREM InductiveInvariant == Spec => []IInv
<1>1. Init => IInv
  BY InitIInv
<1>2. IInv /\ [Next]_vars => IInv'
  <2> SUFFICES ASSUME IInv, [Next]_vars PROVE IInv'
    OBVIOUS
  <2>1. ASSUME NEW c \in Calls, BeginCall(c) PROVE IInv'
    BY <2>1, BeginCallIInv
  <2>2. CASE PadEmptyRow BY <2>2, PadEmptyRowIInv
  <2>3. CASE BeginRow BY <2>3, BeginRowIInv
  <2>4. CASE ScanDoc BY <2>4, ScanDocExact
  <2>5. CASE FinishRow BY <2>5, FinishRowIInv
  <2>6. CASE ClearScratch BY <2>6, ClearScratchIInv
  <2>7. CASE UNCHANGED vars BY <2>7, StutterIInv
  <2> QED BY <2>1, <2>2, <2>3, <2>4, <2>5, <2>6, <2>7 DEF Next
<1> QED BY <1>1, <1>2, PTL DEF Spec

\* What Expected chooses is what has the place.
LEMMA ExpectedCell ==
  ASSUME InRows, table \in ScoreTables, NEW r \in Nat \ {0}
  PROVE  LET m == Len(Row(call, qi))
         IN  /\ r > m => Expected(call, qi, r) = Sentinel
             /\ \A p \in 1 .. m : r <= m /\ HasPlace(Keys, m, p, r) =>
                  Expected(call, qi, r) = [score |-> Keys[p].score, id |-> Keys[p].tie]
<1> DEFINE m == Len(Row(call, qi))
           P == DOMAIN Row(call, qi)
           Fits(p) ==
             /\ Cardinality({o \in P : Better(KeyOf(call, qi, o), KeyOf(call, qi, p))}) < r
             /\ r <= Cardinality({o \in P : ~ Better(KeyOf(call, qi, p), KeyOf(call, qi, o))})
           c == CHOOSE p \in P : Fits(p)
<1>1. Row(call, qi) \in Seq(Ids)
  BY RowType DEF InRows
<1>2. P = 1 .. m /\ m \in Nat /\ Cardinality(P) = m
  <2>1. P = 1 .. m /\ m \in Nat
    BY <1>1
  <2> HIDE DEF P, m
  <2> QED BY <2>1, FS_Interval
<1>3. Keys \in [1 .. m -> Entry] /\ \A p \in P : Keys[p] = KeyOf(call, qi, p)
  BY KeysType DEF Keys
<1>4. \A p \in P : HasPlace(Keys, m, p, r) <=> Fits(p)
  <2> SUFFICES ASSUME NEW p \in P PROVE HasPlace(Keys, m, p, r) <=> Fits(p)
    OBVIOUS
  <2>1. {o \in P : Better(KeyOf(call, qi, o), KeyOf(call, qi, p))}
          = {o \in 1 .. m : Better(Keys[o], Keys[p])}
    <3> HIDE DEF P, m
    <3> QED BY <1>2, <1>3
  <2>2. {o \in P : ~ Better(KeyOf(call, qi, p), KeyOf(call, qi, o))}
          = {o \in 1 .. m : ~ Better(Keys[p], Keys[o])}
    <3> HIDE DEF P, m
    <3> QED BY <1>2, <1>3
  <2> QED BY <2>1, <2>2 DEF HasPlace
<1>5. Expected(call, qi, r) =
        IF r > Cardinality(P) THEN Sentinel
        ELSE [score |-> KeyOf(call, qi, c).score, id |-> KeyOf(call, qi, c).tie]
  BY DEF Expected
<1> HIDE DEF P, m, Fits
<1>6. ASSUME NEW p \in 1 .. m, r <= m, HasPlace(Keys, m, p, r)
      PROVE  Expected(call, qi, r) = [score |-> Keys[p].score, id |-> Keys[p].tie]
  <2>1. c \in P /\ Fits(c)
    BY <1>2, <1>4, <1>6
  <2> HIDE DEF c
  <2>2. c \in 1 .. m /\ HasPlace(Keys, m, c, r) /\ r \in Nat
    BY <1>2, <1>4, <2>1
  <2>3. Keys[c].score = Keys[p].score /\ Keys[c].tie = Keys[p].tie
    BY <1>2, <1>3, <1>6, <2>2, OnePlace
  <2>4. ~ r > Cardinality(P)
    BY <1>2, <1>6
  <2> QED BY <1>3, <1>5, <2>1, <2>3, <2>4
<1>7. r > m => Expected(call, qi, r) = Sentinel
  BY <1>2, <1>5
<1> QED BY <1>6, <1>7 DEF m

\* What finalize_into returns is, mapped to ids, the row as it is expected.
LEMMA FinalExact ==
  ASSUME IInv, pc = "scan", pos > Len(scratch.sub), NEW r \in 1 .. OutK(call)
  PROVE  LET local == FinalizeInto(scratch.top, OutK(call), NoEntry)
         IN  Expected(call, qi, r) =
               IF local[r].idx = 0 THEN Sentinel
               ELSE [score |-> local[r].score, id |-> scratch.sub[local[r].idx]]
<1> DEFINE m == Len(Row(call, qi))
           k == OutK(call)
           slots == scratch.top.slots
           local == FinalizeInto(scratch.top, k, NoEntry)
<1>1. InScan /\ InRows /\ table \in ScoreTables
  BY DEF IInv, InScan, TypeOK
<1>2. Row(call, qi) \in Seq(Ids) /\ k \in Nat /\ m \in Nat
  BY <1>1, RowType DEF InRows
<1>3. /\ scratch.sub = Row(call, qi) /\ pos - 1 = m
      /\ slots \in Seq(Entry) /\ KeepsBest(slots, k, Keys, m)
  BY <1>1, <1>2 DEF InScan
<1>4. Keys \in [1 .. m -> Entry] /\ \A p \in 1 .. m : Keys[p] = KeyOf(call, qi, p)
  BY <1>1, <1>2, KeysType DEF Keys
<1>5. local[r] = IF r <= Len(slots) THEN Placed(slots, r) ELSE NoEntry
  BY DEF FinalizeInto
<1>6. Len(slots) = IF m < k THEN m ELSE k
  BY <1>3 DEF KeepsBest
<1>7. r \in Nat \ {0} /\ r <= k
  BY <1>2
<1> HIDE DEF m, k, slots, local
<1>8. CASE r <= Len(slots)
  <2> DEFINE e == Placed(slots, r)
  <2>1. r \in 1 .. Len(slots)
    BY <1>7, <1>8, <1>6, <1>2
  <2>2. e.idx \in 1 .. m /\ e = Keys[e.idx] /\ HasPlace(Keys, m, e.idx, r)
    BY <1>2, <1>3, <1>4, <2>1, PlacedBest
  <2> HIDE DEF e
  <2>3. r <= m
    BY <1>2, <1>6, <1>7, <1>8
  <2>4. Expected(call, qi, r) = [score |-> Keys[e.idx].score, id |-> Keys[e.idx].tie]
    BY <1>1, <1>7, <2>2, <2>3, ExpectedCell DEF m
  <2>5. Keys[e.idx].tie = scratch.sub[e.idx]
    BY <1>3, <1>4, <2>2 DEF KeyOf
  <2>6. local[r] = e /\ local[r].idx # 0
    BY <1>2, <1>5, <1>8, <2>2 DEF e
  <2> QED BY <2>2, <2>4, <2>5, <2>6 DEF local, k
<1>9. CASE ~ r <= Len(slots)
  <2>1. r > m
    BY <1>2, <1>6, <1>7, <1>9
  <2>2. Expected(call, qi, r) = Sentinel
    BY <1>1, <1>7, <2>1, ExpectedCell DEF m
  <2>3. local[r].idx = 0
    BY <1>5, <1>9 DEF NoEntry
  <2> QED BY <2>2, <2>3 DEF local, k
<1> QED BY <1>8, <1>9

\* Where a row lies in the outputs.
LEMMA CellOf ==
  ASSUME NEW k \in Nat, NEW n \in Nat, NEW i \in 1 .. n, NEW q \in 1 .. n, NEW r \in 1 .. k
  PROVE  /\ (i - 1) * k + r \in 1 .. n * k
         /\ (i - 1) * k + r \in (q - 1) * k + 1 .. (q - 1) * k + k <=> i = q
<1>1. \A a, b \in Nat : a <= b => a * k <= b * k
  OBVIOUS
<1>2. /\ i - 1 \in Nat /\ q - 1 \in Nat /\ i \in Nat /\ q \in Nat
      /\ (i - 1) * k \in Nat /\ (q - 1) * k \in Nat /\ n * k \in Nat
      /\ i * k = (i - 1) * k + k /\ q * k = (q - 1) * k + k
  OBVIOUS
<1>3. i * k <= n * k
  BY <1>1, <1>2
<1>4. i < q => i * k <= (q - 1) * k
  BY <1>1, <1>2
<1>5. q < i => q * k <= (i - 1) * k
  BY <1>1, <1>2
<1> QED BY <1>2, <1>3, <1>4, <1>5

\* What a row is expected to be depends on the call alone.
LEMMA ExpectedStays ==
  ASSUME UNCHANGED <<table, call>>
  PROVE  /\ \A i, r : Expected(call, i, r)' = Expected(call, i, r)
         /\ NumRows(call)' = NumRows(call) /\ OutK(call)' = OutK(call)
BY DEF Expected, KeyOf, Row, NumRows, OutK, Sentinel

\* A row that is written as expected leaves the others alone.
LEMMA WriteExact ==
  ASSUME IInv, RowsExact, pc \in {"row", "scan"}, InRows, NEW cells,
         \A r \in 1 .. OutK(call) : cells[r] = Expected(call, qi, r),
         out' = WriteRow(cells), NextRow, UNCHANGED <<table, call>>
  PROVE  RowsExact'
<1> DEFINE n == NumRows(call)
           k == OutK(call)
<1>1. n \in Nat /\ k \in Nat /\ qi \in 1 .. n
  BY CallType, RerankAssumption DEF InRows, OutK
<1>2. DOMAIN out = 1 .. n * k
  BY DEF IInv, TypeOK, InRows, Accepted
<1>3. /\ NumRows(call)' = n /\ OutK(call)' = k /\ qi' = qi + 1
      /\ \A i, r : Expected(call, i, r)' = Expected(call, i, r)
  BY ExpectedStays DEF NextRow
<1>4. ASSUME NEW i \in 1 .. n, NEW r \in 1 .. k
      PROVE  out'[(i - 1) * k + r] = IF i < qi + 1 THEN Expected(call, i, r) ELSE Stale
  <2> DEFINE x == (i - 1) * k + r
             base == (qi - 1) * k
  <2>1. x \in DOMAIN out /\ (x \in base + 1 .. base + k <=> i = qi)
    BY <1>1, <1>2, CellOf
  <2>2. out'[x] = IF x \in base + 1 .. base + k THEN cells[x - base] ELSE out[x]
    BY <2>1 DEF WriteRow
  <2>3. CASE i = qi
    <3>1. x - base = r /\ i < qi + 1
      BY <1>1, <2>3
    <3> QED BY <2>1, <2>2, <2>3, <3>1
  <2>4. CASE i # qi
    <3>1. out[x] = IF i < qi THEN Expected(call, i, r) ELSE Stale
      BY DEF RowsExact
    <3>2. i < qi + 1 <=> i < qi
      BY <1>1, <2>4
    <3> QED BY <2>1, <2>2, <2>4, <3>1, <3>2
  <2> QED BY <2>3, <2>4
<1> HIDE DEF n, k
<1> QED BY <1>3, <1>4 DEF RowsExact

\* Every step keeps the rows exact.
LEMMA RowsStep == ASSUME IInv, RowsExact, [Next]_vars PROVE RowsExact'
<1>1. ASSUME NEW c \in Calls, BeginCall(c) PROVE RowsExact'
  <2>1. CASE pc' = "idle" /\ outcome' # "ok"
    BY <2>1 DEF RowsExact
  <2>2. CASE pc' = "idle" /\ outcome' = "ok"
    <3>1. OutK(c) = 0 \/ NumRows(c) = 0
      BY <1>1, <2>2 DEF BeginCall, Reject, Accept
    <3>2. call' = c
      BY <1>1 DEF BeginCall
    <3> QED BY <3>1, <3>2 DEF RowsExact, OutK, NumRows
  <2>3. CASE pc' # "idle"
    <3>1. /\ Accepted(c) /\ call' = c /\ qi' = 1 /\ c \in Call
          /\ out' = [i \in 1 .. c.scoreLen |-> Stale]
      BY <1>1, <2>3, RerankAssumption DEF BeginCall, Reject, Accept
    <3>2. NumRows(c) \in Nat /\ OutK(c) \in Nat /\ c.scoreLen = NumRows(c) * OutK(c)
      BY <3>1, CallType, RerankAssumption DEF OutK, Accepted
    <3>3. NumRows(call)' = NumRows(c) /\ OutK(call)' = OutK(c)
      BY <3>1 DEF NumRows, OutK
    <3>4. ASSUME NEW i \in 1 .. NumRows(c), NEW r \in 1 .. OutK(c)
          PROVE  out'[(i - 1) * OutK(c) + r] = Stale /\ ~ i < qi'
      <4>1. (i - 1) * OutK(c) + r \in 1 .. c.scoreLen
        BY <3>2, CellOf
      <4> QED BY <3>1, <3>2, <4>1
    <3> QED BY <3>3, <3>4 DEF RowsExact
  <2> QED BY <2>1, <2>2, <2>3
<1>2. CASE PadEmptyRow
  <2>1. InRows /\ pc = "row" /\ table \in ScoreTables /\ Row(call, qi) = <<>>
    BY <1>2 DEF PadEmptyRow, IInv, TypeOK
  <2>2. ASSUME NEW r \in 1 .. OutK(call) PROVE Expected(call, qi, r) = Sentinel
    <3>1. OutK(call) \in Nat /\ Len(Row(call, qi)) = 0
      BY <2>1, RowType DEF InRows
    <3> QED BY <2>1, <3>1, ExpectedCell
  <2> DEFINE cells == [r \in 1 .. OutK(call) |-> Sentinel]
  <2>3. /\ out' = WriteRow(cells) /\ NextRow /\ UNCHANGED <<table, call>>
        /\ \A r \in 1 .. OutK(call) : cells[r] = Expected(call, qi, r)
    BY <1>2, <2>2 DEF PadEmptyRow
  <2> HIDE DEF cells
  <2> QED BY <2>1, <2>3, WriteExact
<1>3. CASE FinishRow
  <2> DEFINE local == FinalizeInto(scratch.top, OutK(call), NoEntry)
             cells == [r \in 1 .. OutK(call) |->
                         IF local[r].idx = 0 THEN Sentinel
                         ELSE [score |-> local[r].score, id |-> scratch.sub[local[r].idx]]]
  <2>1. InRows /\ pc = "scan" /\ pos > Len(scratch.sub)
    BY <1>3 DEF FinishRow, IInv, InScan
  <2>2. \A r \in 1 .. OutK(call) : cells[r] = Expected(call, qi, r)
    BY <2>1, FinalExact
  <2>3. out' = WriteRow(cells) /\ NextRow /\ UNCHANGED <<table, call>>
    BY <1>3 DEF FinishRow
  <2> HIDE DEF cells
  <2> QED BY <2>1, <2>2, <2>3, WriteExact
<1>4. ASSUME UNCHANGED <<table, call, out, qi, outcome>>, pc # "idle" \/ pc' = pc
      PROVE  RowsExact'
  <2>1. /\ \A i, r : Expected(call, i, r)' = Expected(call, i, r)
        /\ NumRows(call)' = NumRows(call) /\ OutK(call)' = OutK(call)
    BY <1>4, ExpectedStays
  <2>2. pc' # "idle" \/ outcome' = "ok" => pc # "idle" \/ outcome = "ok"
    BY <1>4
  <2> QED BY <1>4, <2>1, <2>2 DEF RowsExact
<1>5. CASE BeginRow \/ ScanDoc \/ ClearScratch \/ UNCHANGED vars
  BY <1>4, <1>5 DEF BeginRow, ScanDoc, ClearScratch, vars
<1> QED BY <1>1, <1>2, <1>3, <1>5 DEF Next

\* Type correctness of the scratch, the call and the outputs.
THEOREM TypeCorrect == Spec => []TypeOK
<1>1. IInv => TypeOK
  BY DEF IInv
<1> QED BY <1>1, InductiveInvariant, PTL

\* The asserts of the call are enough: from its first write to its return, no
\* row slice and no gather is out of range, for every batch that validates.
THEOREM NoPanicAfterWrite == Spec => []SlicesInBounds
<1>1. IInv => SlicesInBounds
  <2> SUFFICES ASSUME IInv, pc = "row" PROVE RowInBounds(call, qi)
    BY DEF SlicesInBounds
  <2>1. InRows
    BY DEF IInv
  <2> QED BY <2>1, RowsInBounds DEF InRows, Accepted
<1> QED BY <1>1, InductiveInvariant, PTL

\* At every position of every row of every call the collector holds the best
\* min(k, scanned) candidates of that row, keyed by this call's arguments.
THEOREM CollectorIsExact == Spec => []CollectorExact
<1>1. IInv => CollectorExact
  <2> SUFFICES ASSUME IInv, pc = "scan" PROVE CollectorExact
    BY DEF CollectorExact
  <2> DEFINE slots == scratch.top.slots
             n == pos - 1
  <2>1. /\ InRows /\ KeepsBest(slots, OutK(call), Keys, n)
        /\ pos \in 1 .. Len(Row(call, qi)) + 1
    BY DEF IInv, InScan
  <2>2. Row(call, qi) \in Seq(Ids) /\ OutK(call) \in Nat
    BY <2>1, RowType DEF InRows
  <2>3. n \in Nat /\ \A p \in 1 .. n : Keys[p] = KeyOf(call, qi, p)
    BY <2>1, <2>2 DEF Keys
  <2> HIDE DEF slots, n
  <2>4. Len(slots) = IF n < OutK(call) THEN n ELSE OutK(call)
    BY <2>1 DEF KeepsBest
  <2>5. \A i \in DOMAIN slots :
           slots[i].idx \in 1 .. n /\ slots[i] = KeyOf(call, qi, slots[i].idx)
    BY <2>1, <2>3 DEF KeepsBest
  <2>6. \A i, j \in DOMAIN slots : slots[i].idx = slots[j].idx => i = j
    BY <2>1 DEF KeepsBest
  <2>7. \A p \in (1 .. n) \ {slots[i].idx : i \in DOMAIN slots} : \A i \in DOMAIN slots :
           ~ Better(KeyOf(call, qi, p), slots[i])
    BY <2>1, <2>3 DEF KeepsBest
  <2> QED BY <2>4, <2>5, <2>6, <2>7 DEF CollectorExact, slots, n
<1> QED BY <1>1, InductiveInvariant, PTL

\* Every row of every call is its own best k, in order, whatever the rows and calls
\* before it left in the scratch and whatever the order of its candidates.
THEOREM RowsAreExact == Spec => []RowsExact
<1>1. Init => RowsExact
  BY DEF Init, RowsExact
<1>2. IInv /\ RowsExact /\ [Next]_vars => RowsExact'
  BY RowsStep
<1> QED BY <1>1, <1>2, InductiveInvariant, PTL DEF Spec
=============================================================================
