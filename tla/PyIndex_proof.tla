---------------------------- MODULE PyIndex_proof ----------------------------
(***************************************************************************)
(* For every set of threads and every scoring: the borrow flag and the     *)
(* copies make every call of the Python bindings give the result of the    *)
(* index and the arguments it checked.                                     *)
(***************************************************************************)
EXTENDS PyIndex, FiniteSetTheorems, TLAPS

Places == {Idle, "coerce", "cast", "wait", "check", "scan", "fill", "back"}

Calling == [method : Methods \cup {"none"}, k : Nat, chunk : Nat, f32 : BOOLEAN]
Owning == [rows : Seq(Rows \cup {Unfit}), ids : Seq(Nat), n : Nat]
Seeing == [docs : Seq(Rows \cup {Blank}), rows : Seq(Rows \cup {Unfit}), ids : Seq(Nat)]

TypeOK ==
  /\ flag \in Int
  /\ docs \in Seq(Rows \cup {Blank})
  /\ floats \in Seq(Rows \cup {Unfit}) /\ ids \in Seq(Nat)
  /\ pc \in [Threads -> Places]
  /\ call \in [Threads -> Calling]
  /\ owned \in [Threads -> Owning]
  /\ seen \in [Threads -> Seeing]
  /\ scores = [t \in Threads |-> scores[t]]

Users == {t \in Threads : pc[t] # Idle}

\* The flag counts the calls under way, or says that one alone may write.
BorrowOK ==
  IF flag = Exclusive
    THEN \E t \in Threads : Users = {t} /\ call[t].method = "add"
    ELSE flag = Cardinality(Users) /\ \A t \in Users : call[t].method # "add"

\* The score of the j-th cell of a scan of what the call saw, and the cells.
ScoreAt(m, s, j) ==
  IF m \in ByIds
    THEN Score[s.rows[1]][s.docs[s.ids[j] + 1]]
    ELSE Score[s.rows[((j - 1) \div Len(s.docs)) + 1]][s.docs[((j - 1) % Len(s.docs)) + 1]]

Total(m, s) == IF m \in ByIds THEN Len(s.ids) ELSE Len(s.rows) * Len(s.docs)

\* A call that was detached works on copies of what it checked.
CopiesOK(t) ==
  pc[t] \in {"scan", "fill", "back"} =>
    /\ owned[t] = [rows |-> seen[t].rows, ids |-> seen[t].ids, n |-> Len(seen[t].docs)]
    /\ call[t].method \notin ByIds => seen[t].ids = <<>>
    /\ call[t].method = "add" => \A i \in DOMAIN seen[t].rows : seen[t].rows[i] \in Rows

\* A scan has written the scores of its first cells, of the index it saw.
ScanOK(t) ==
  /\ pc[t] \notin {"scan", "fill", "back"} => scores[t] = <<>>
  /\ pc[t] \in {"scan", "back"} /\ call[t].method # "add" =>
       /\ docs = seen[t].docs
       /\ \E n \in 0 .. Total(call[t].method, seen[t]) :
            scores[t] = [j \in 1 .. n |-> ScoreAt(call[t].method, seen[t], j)]
       /\ pc[t] = "back" =>
            Overlong(t) \/ Len(scores[t]) = Total(call[t].method, seen[t])

\* An addition has its own rows, or blanks, behind the documents it saw.
AddOK(t) ==
  LET old == Len(seen[t].docs)
      new == Len(seen[t].rows)
  IN  /\ pc[t] = "fill" => call[t].method = "add"
      /\ call[t].method = "add" /\ pc[t] = "scan" => docs = seen[t].docs
      /\ call[t].method = "add" /\ pc[t] \in {"fill", "back"} =>
           /\ Len(docs) = old + new
           /\ \A i \in 1 .. old : docs[i] = seen[t].docs[i]
           /\ \A q \in 1 .. new :
                \/ docs[old + q] = seen[t].rows[q]
                \/ docs[old + q] = Blank /\ pc[t] = "fill"

CallOK(t) == CopiesOK(t) /\ ScanOK(t) /\ AddOK(t)

IInv == TypeOK /\ BorrowOK /\ \A t \in Threads : CallOK(t)

-----------------------------------------------------------------------------
(* Sequences. *)

\* A function on the numbers to n is a sequence of length n.
LEMMA LenOfFunction ==
  ASSUME NEW n \in Nat, NEW f, f = [i \in 1 .. n |-> f[i]]
  PROVE  f \in Seq({f[i] : i \in 1 .. n}) /\ Len(f) = n /\ DOMAIN f = 1 .. n
<1>1. f \in [1 .. n -> {f[i] : i \in 1 .. n}]
  OBVIOUS
<1> QED BY <1>1

\* One cell more.
LEMMA Appended ==
  ASSUME NEW n \in Nat, NEW f, f = [i \in 1 .. n |-> f[i]], NEW e
  PROVE  Append(f, e) = [i \in 1 .. n + 1 |-> IF i = n + 1 THEN e ELSE f[i]]
<1> DEFINE S == {f[i] : i \in 1 .. n} \cup {e}
<1>1. f \in [1 .. n -> S]
  OBVIOUS
<1> HIDE DEF S
<1>2. f \in Seq(S) /\ Len(f) = n
  BY <1>1
<1>3. e \in S
  BY DEF S
<1>4. Append(f, e) = [i \in 1 .. Len(f) + 1 |-> IF i <= Len(f) THEN f[i] ELSE e]
  BY <1>2, <1>3
<1>5. \A i \in 1 .. n + 1 : (i <= n) <=> (i # n + 1)
  OBVIOUS
<1> QED BY <1>2, <1>4, <1>5

\* One sequence after another, by its places.
LEMMA Joined ==
  ASSUME NEW S, NEW a \in Seq(S), NEW b \in Seq(S)
  PROVE  /\ Len(a \o b) = Len(a) + Len(b)
         /\ \A i \in 1 .. Len(a) : (a \o b)[i] = a[i]
         /\ \A i \in 1 .. Len(b) : (a \o b)[Len(a) + i] = b[i]
OBVIOUS

LEMMA IsJoined ==
  ASSUME NEW S, NEW a \in Seq(S), NEW b \in Seq(S), NEW c \in Seq(S),
         Len(c) = Len(a) + Len(b),
         \A i \in 1 .. Len(a) : c[i] = a[i],
         \A i \in 1 .. Len(b) : c[Len(a) + i] = b[i]
  PROVE  c = a \o b
<1> DEFINE both == a \o b
           m == Len(a)
           n == Len(b)
<1>1. m \in Nat /\ n \in Nat /\ both \in Seq(S) /\ Len(both) = m + n
  OBVIOUS
<1>2. /\ \A i \in 1 .. m : both[i] = a[i] /\ c[i] = a[i]
      /\ \A i \in 1 .. n : both[m + i] = b[i] /\ c[m + i] = b[i]
  BY Joined
<1>3. c = [i \in 1 .. m + n |-> c[i]] /\ both = [i \in 1 .. m + n |-> both[i]]
  <2>1. Len(c) = m + n /\ Len(both) = m + n /\ c \in Seq(S) /\ both \in Seq(S)
    BY <1>1
  <2> HIDE DEF both, m, n
  <2> QED BY <2>1
<1> HIDE DEF m, n, both
<1>4. ASSUME NEW i \in 1 .. m + n PROVE c[i] = both[i]
  <2>1. CASE i \in 1 .. m
    BY <1>2, <2>1
  <2>2. CASE i \notin 1 .. m
    <3>1. i - m \in 1 .. n /\ m + (i - m) = i
      BY <1>1, <2>2
    <3> QED BY <1>2, <3>1
  <2> QED BY <2>1, <2>2
<1>5. c = both
  BY <1>3, <1>4
<1> QED BY <1>5 DEF both

LEMMA Product == ASSUME NEW a \in Nat, NEW b \in Nat PROVE a * b \in Nat
OBVIOUS

-----------------------------------------------------------------------------
(* The steps keep the types. *)

LEMMA TypeInit == ASSUME Init PROVE TypeOK
<1> USE Limits
<1>1. docs \in Seq(Rows \cup {Blank})
  <2>1. PICK c \in 0 .. 1 : docs \in [1 .. c -> Rows]
    BY DEF Init
  <2>2. docs \in [1 .. c -> Rows \cup {Blank}] /\ c \in Nat
    BY <2>1
  <2> QED BY <2>2
<1>2. floats \in Seq(Rows \cup {Unfit})
  <2>1. PICK c \in RowCounts : floats \in [1 .. c -> Rows \cup {Unfit}]
    BY DEF Init
  <2>2. c \in Nat
    BY <2>1
  <2> QED BY <2>1, <2>2
<1>3. ids \in Seq(Nat)
  BY DEF Init
<1>4. <<>> \in Seq(Nat) /\ <<>> \in Seq(Rows \cup {Unfit}) /\ <<>> \in Seq(Rows \cup {Blank})
  OBVIOUS
<1>5. NoCall \in Calling /\ NothingOwned \in Owning /\ NothingSeen \in Seeing
  BY <1>4 DEF NoCall, NothingOwned, NothingSeen, Calling, Owning, Seeing
<1>6. Idle \in Places
  BY DEF Places
<1>7. flag = 0 /\ pc = [t \in Threads |-> Idle] /\ call = [t \in Threads |-> NoCall]
  BY DEF Init
<1>8. owned = [t \in Threads |-> NothingOwned] /\ scores = [t \in Threads |-> <<>>]
      /\ seen = [t \in Threads |-> NothingSeen]
  BY DEF Init
<1> QED BY <1>1, <1>2, <1>3, <1>5, <1>6, <1>7, <1>8 DEF TypeOK

\* The end of a call puts its records back.
LEMMA TypeLeave ==
  ASSUME TypeOK, NEW t \in Threads, Leave(t), UNCHANGED <<docs, floats, ids>>
  PROVE  TypeOK'
<1>1. <<>> \in Seq(Nat) /\ <<>> \in Seq(Rows \cup {Unfit}) /\ <<>> \in Seq(Rows \cup {Blank})
  OBVIOUS
<1>2. NoCall \in Calling /\ NothingOwned \in Owning /\ NothingSeen \in Seeing
  BY <1>1 DEF NoCall, NothingOwned, NothingSeen, Calling, Owning, Seeing
<1>3. Idle \in Places /\ Unborrowed \in Int
  BY DEF Places, Unborrowed, TypeOK, Exclusive
<1>4. /\ pc' \in [Threads -> Places] /\ call' \in [Threads -> Calling]
      /\ owned' \in [Threads -> Owning] /\ seen' \in [Threads -> Seeing]
  BY <1>2, <1>3 DEF Leave, TypeOK
<1>5. flag' \in Int /\ scores' = [u \in Threads |-> scores'[u]]
  BY <1>3 DEF Leave, TypeOK
<1> QED BY <1>4, <1>5 DEF TypeOK

LEMMA TypeStep == ASSUME IInv, [Next]_vars PROVE TypeOK'
<1> USE Limits
<1>0. TypeOK /\ \A t \in Threads : CallOK(t)
  BY DEF IInv
<1>t. ASSUME NEW t \in Threads
      PROVE  /\ pc[t] \in Places /\ call[t] \in Calling /\ owned[t] \in Owning
             /\ seen[t] \in Seeing
             /\ owned[t].rows \in Seq(Rows \cup {Unfit}) /\ owned[t].ids \in Seq(Nat)
             /\ owned[t].n \in Nat
  BY <1>0 DEF TypeOK, Owning
<1>1. ASSUME NEW t \in Threads, NEW m \in Methods, NEW k \in Nat, NEW c \in Nat,
             NEW f \in BOOLEAN, Begin(t, m, k, c, f)
      PROVE  TypeOK'
  <2>1. [method |-> m, k |-> k, chunk |-> c, f32 |-> f] \in Calling
    BY DEF Calling
  <2>2. (IF f THEN "check" ELSE "coerce") \in Places /\ Borrowed(m) \in Int
    BY <1>0 DEF Places, Borrowed, TypeOK, Exclusive
  <2> QED BY <1>0, <1>1, <2>1, <2>2 DEF Begin, TypeOK
<1>2. ASSUME NEW t \in Threads, NEW idx \in Nat, SwapRemove(t, idx) PROVE TypeOK'
  <2>1. docs \in Seq(Rows \cup {Blank}) /\ Len(docs) \in Nat /\ idx < Len(docs)
    BY <1>0, <1>2 DEF SwapRemove, TypeOK
  <2> DEFINE d == [docs EXCEPT ![idx + 1] = docs[Len(docs)]]
  <2>2. d \in Seq(Rows \cup {Blank}) /\ Len(d) = Len(docs)
    BY <2>1
  <2>3. docs' = SubSeq(d, 1, Len(d) - 1)
    BY <1>2 DEF SwapRemove, Front
  <2> HIDE DEF d
  <2>4. docs' \in Seq(Rows \cup {Blank})
    BY <2>1, <2>2, <2>3
  <2> QED BY <1>0, <1>2, <2>4 DEF SwapRemove, TypeOK
<1>3. ASSUME NEW t \in Threads, Calls(t) PROVE TypeOK'
  <2>1. \A m \in {"add", "dense", "body", "search", "batched", "subset", "chunked"} : m \in Methods
    BY DEF Methods
  <2>2. Casting \subseteq Methods /\ Ks \subseteq Nat /\ 0 .. 1 \subseteq Nat
        /\ 0 \in Nat /\ 1 \in Nat /\ TRUE \in BOOLEAN /\ FALSE \in BOOLEAN
        /\ 0 .. MaxVectors - 1 \subseteq Nat
    BY <2>1
  <2>3. CASE \E m \in {"add", "dense", "body"} : Begin(t, m, 0, 1, TRUE)
    BY <1>1, <2>1, <2>2, <2>3
  <2>4. CASE \E m \in {"search", "batched", "subset"}, k \in Ks : Begin(t, m, k, 1, TRUE)
    BY <1>1, <2>1, <2>2, <2>4
  <2>5. CASE \E k \in Ks, chunk \in 0 .. 1 : Begin(t, "chunked", k, chunk, TRUE)
    BY <1>1, <2>1, <2>2, <2>5
  <2>6. CASE \E m \in Casting, k \in Ks : Begin(t, m, k, 1, FALSE)
    BY <1>1, <2>2, <2>6
  <2>7. CASE \E idx \in 0 .. MaxVectors - 1 : SwapRemove(t, idx)
    BY <1>2, <2>2, <2>7
  <2> QED BY <1>3, <2>3, <2>4, <2>5, <2>6, <2>7 DEF Calls
<1>4. ASSUME NEW t \in Threads, Cast(t) PROVE TypeOK'
  <2>1. [owned[t] EXCEPT !.rows = floats] \in Owning
    BY <1>0, <1>t DEF Owning, TypeOK
  <2>2. owned' = [owned EXCEPT ![t] = [owned[t] EXCEPT !.rows = floats]]
    BY <1>4 DEF Cast
  <2>3. "wait" \in Places
    BY DEF Places
  <2> QED BY <1>0, <1>4, <2>1, <2>2, <2>3 DEF Cast, TypeOK
<1>5. ASSUME NEW t \in Threads, ScanCell(t) PROVE TypeOK'
  BY <1>0, <1>5 DEF ScanCell, TypeOK
<1>6. ASSUME NEW t \in Threads, Scanned(t) \/ Coerce(t) \/ Reacquire(t) PROVE TypeOK'
  <2>1. "back" \in Places /\ "wait" \in Places /\ "check" \in Places /\ "cast" \in Places
    BY DEF Places
  <2> QED BY <1>0, <1>6, <2>1, SMTT(40) DEF Scanned, Coerce, Reacquire, TypeOK
<1>7. ASSUME NEW t \in Threads, Grow(t) PROVE TypeOK'
  <2>1. "fill" \in Places
    BY DEF Places
  <2>2. [i \in DOMAIN owned[t].rows |-> Blank] \in Seq(Rows \cup {Blank})
    <3>1. DOMAIN owned[t].rows = 1 .. Len(owned[t].rows) /\ Len(owned[t].rows) \in Nat
      BY <1>t
    <3> QED BY <3>1
  <2>3. docs' \in Seq(Rows \cup {Blank})
    BY <1>0, <1>7, <2>2 DEF Grow, TypeOK
  <2> QED BY <1>0, <1>7, <2>1, <2>3 DEF Grow, TypeOK
<1>8. ASSUME NEW t \in Threads, Fill(t) PROVE TypeOK'
  <2>1. "back" \in Places /\ pc[t] = "fill"
    BY <1>8 DEF Places, Fill
  <2>2. CASE docs' = docs
    BY <1>0, <1>8, <2>1, <2>2 DEF Fill, TypeOK
  <2>3. CASE docs' # docs
    <3>1. PICK q \in DOMAIN owned[t].rows :
            docs' = [docs EXCEPT ![owned[t].n + q] = owned[t].rows[q]]
      BY <1>8, <2>3 DEF Fill, RowFor
    <3>2. owned[t].rows[q] \in Rows
      <4>1. CopiesOK(t) /\ AddOK(t)
        BY <1>0 DEF CallOK
      <4>2. call[t].method = "add"
        BY <2>1, <4>1 DEF AddOK
      <4>3. owned[t] = [rows |-> seen[t].rows, ids |-> seen[t].ids, n |-> Len(seen[t].docs)]
        BY <2>1, <4>1 DEF CopiesOK
      <4>4. owned[t].rows = seen[t].rows
        BY <4>3
      <4> QED BY <2>1, <3>1, <4>1, <4>2, <4>4 DEF CopiesOK
    <3>3. docs' \in Seq(Rows \cup {Blank})
      <4>1. docs \in Seq(Rows \cup {Blank}) /\ owned[t].rows[q] \in Rows \cup {Blank}
        BY <1>0, <3>2 DEF TypeOK
      <4>2. docs \in [1 .. Len(docs) -> Rows \cup {Blank}] /\ Len(docs) \in Nat
        BY <4>1
      <4>3. docs' \in [1 .. Len(docs) -> Rows \cup {Blank}]
        BY <3>1, <4>1, <4>2
      <4> QED BY <4>2, <4>3
    <3> QED BY <1>0, <1>8, <2>1, <3>3 DEF Fill, TypeOK
  <2> QED BY <2>2, <2>3
<1>9. ASSUME NEW t \in Threads, Reject(t) \/ Return(t) PROVE TypeOK'
  BY <1>0, <1>9, TypeLeave DEF Reject, Return
<1>10. ASSUME NEW t \in Threads, Detach(t) PROVE TypeOK'
  <2>1. RowsAt(t) \in Seq(Rows \cup {Unfit}) /\ IdsOf(t) \in Seq(Nat)
    BY <1>0, <1>t DEF RowsAt, IdsOf, TypeOK
  <2>2. docs \in Seq(Rows \cup {Blank}) /\ Len(docs) \in Nat
    BY <1>0 DEF TypeOK
  <2>3. /\ [rows |-> RowsAt(t), ids |-> IdsOf(t), n |-> Len(docs)] \in Owning
        /\ [docs |-> docs, rows |-> RowsAt(t), ids |-> IdsOf(t)] \in Seeing
    BY <2>1, <2>2 DEF Owning, Seeing
  <2>4. "scan" \in Places
    BY DEF Places
  <2> QED BY <1>0, <1>10, <2>3, <2>4 DEF Detach, TypeOK
<1>11. ASSUME NEW q \in DOMAIN floats, NEW row \in Rows \cup {Unfit}, AssignFloat(q, row)
       PROVE  TypeOK'
  BY <1>0, <1>11 DEF AssignFloat, TypeOK
<1>12. ASSUME NEW list \in IdLists, AssignIds(list) PROVE TypeOK'
  BY <1>0, <1>12 DEF AssignIds, TypeOK
<1>13. CASE UNCHANGED vars
  BY <1>0, <1>13 DEF vars, TypeOK
<1> QED BY <1>3, <1>4, <1>5, <1>6, <1>7, <1>8, <1>9, <1>10, <1>11, <1>12, <1>13
        DEF Next, Detached, Locked, Locking, Assign

-----------------------------------------------------------------------------
(* The steps keep the borrow. *)

\* A thread that comes in and one that goes out count for one.
LEMMA UserCount ==
  ASSUME NEW t \in Threads
  PROVE  /\ IsFiniteSet(Users) /\ Cardinality(Users) \in Nat
         /\ t \notin Users => Cardinality(Users \cup {t}) = Cardinality(Users) + 1
         /\ t \in Users => Cardinality(Users \ {t}) = Cardinality(Users) - 1
<1>1. IsFiniteSet(Users)
  BY Limits, FS_Subset DEF Users
<1> QED BY <1>1, FS_CardinalityType, FS_AddElement, FS_RemoveElement

LEMMA BorrowInit == ASSUME Init PROVE BorrowOK
<1>1. flag = 0 /\ Users = {}
  BY DEF Init, Users
<1> QED BY <1>1, FS_EmptySet DEF BorrowOK, Exclusive

LEMMA BorrowLeave ==
  ASSUME TypeOK, BorrowOK, NEW t \in Threads, pc[t] # Idle, Leave(t)
  PROVE  BorrowOK'
<1>1. pc' = [pc EXCEPT ![t] = Idle] /\ t \in Users /\ Users' = Users \ {t}
  BY DEF Leave, Users, TypeOK
<1>2. \A u \in Users \ {t} : call'[u] = call[u]
  BY DEF Leave, Users, TypeOK
<1>3. CASE flag = Exclusive
  <2>1. Users' = {} /\ flag' = 0
    BY <1>1, <1>3 DEF BorrowOK, Leave, Unborrowed
  <2> QED BY <2>1, FS_EmptySet DEF BorrowOK, Exclusive
<1>4. CASE flag # Exclusive
  <2>1. flag = Cardinality(Users) /\ flag' = flag - 1
    BY <1>4 DEF BorrowOK, Leave, Unborrowed
  <2>2. Cardinality(Users) \in Nat /\ Cardinality(Users') = Cardinality(Users) - 1
    BY <1>1, UserCount
  <2>3. Cardinality(Users') \in Nat
    <3>1. IsFiniteSet(Users')
      BY <1>1, UserCount, FS_RemoveElement
    <3> QED BY <3>1, FS_CardinalityType
  <2>4. \A u \in Users' : call'[u].method # "add"
    BY <1>1, <1>2, <1>4 DEF BorrowOK
  <2> QED BY <2>1, <2>2, <2>3, <2>4 DEF BorrowOK, Exclusive
<1> QED BY <1>3, <1>4

\* A step that leaves the flag alone and keeps every thread in or out.
LEMMA BorrowKept ==
  ASSUME TypeOK, BorrowOK, flag' = flag, call' = call,
         \A t \in Threads : (pc'[t] = Idle) <=> (pc[t] = Idle)
  PROVE  BorrowOK'
<1>1. Users' = Users
  BY DEF Users
<1> QED BY <1>1 DEF BorrowOK

LEMMA BorrowStep == ASSUME IInv, [Next]_vars PROVE BorrowOK'
<1>0. TypeOK /\ BorrowOK
  BY DEF IInv
<1>1. ASSUME NEW t \in Threads, NEW m, NEW k, NEW c, NEW f, m # "swap_remove",
             Begin(t, m, k, c, f)
      PROVE  BorrowOK'
  <2>1. /\ pc[t] = Idle /\ CanBorrow(m) /\ flag' = Borrowed(m)
        /\ pc' = [pc EXCEPT ![t] = IF f THEN "check" ELSE "coerce"]
        /\ call' = [call EXCEPT ![t] = [method |-> m, k |-> k, chunk |-> c, f32 |-> f]]
    BY <1>1 DEF Begin
  <2>2. t \notin Users /\ Users' = Users \cup {t}
    BY <1>0, <2>1 DEF Users, TypeOK, Idle
  <2>3. call'[t].method = m /\ \A u \in Threads \ {t} : call'[u] = call[u]
    BY <1>0, <2>1 DEF TypeOK
  <2>4. Cardinality(Users) \in Nat /\ Cardinality(Users') = Cardinality(Users) + 1
    BY <2>2, UserCount
  <2>5. CASE m = "add"
    <3>1. flag = 0 /\ flag' = Exclusive
      BY <2>1, <2>5 DEF CanBorrow, Borrowed, Mutates
    <3>2. Users = {}
      <4>1. Cardinality(Users) = 0
        BY <1>0, <3>1 DEF BorrowOK, Exclusive
      <4>2. IsFiniteSet(Users)
        BY UserCount
      <4> QED BY <4>1, <4>2, FS_EmptySet
    <3> QED BY <2>2, <2>3, <2>5, <3>1, <3>2 DEF BorrowOK
  <2>6. CASE m # "add"
    <3>1. flag # Exclusive /\ flag' = flag + 1
      BY <1>1, <2>1, <2>6 DEF CanBorrow, Borrowed, Mutates
    <3>2. flag = Cardinality(Users) /\ \A u \in Users : call[u].method # "add"
      BY <1>0, <3>1 DEF BorrowOK
    <3>3. \A u \in Users' : call'[u].method # "add"
      BY <2>2, <2>3, <2>6, <3>2 DEF Users
    <3> QED BY <2>4, <3>1, <3>2, <3>3 DEF BorrowOK, Exclusive
  <2> QED BY <2>5, <2>6
<1>2. ASSUME NEW t \in Threads, Calls(t) PROVE BorrowOK'
  <2>1. CASE \E idx \in 0 .. MaxVectors - 1 : SwapRemove(t, idx)
    BY <1>0, <2>1, BorrowKept DEF SwapRemove
  <2>2. "swap_remove" \notin Casting \cup {"add", "dense", "body", "search", "batched", "subset", "chunked"}
    BY Limits
  <2> QED BY <1>1, <1>2, <2>1, <2>2 DEF Calls
<1>3. ASSUME NEW t \in Threads, Detached(t) PROVE BorrowOK'
  <2>1. flag' = flag /\ call' = call
    BY <1>3 DEF Detached, Cast, ScanCell, Scanned, Grow, Fill
  <2>2. \A u \in Threads : (pc'[u] = Idle) <=> (pc[u] = Idle)
    BY <1>0, <1>3 DEF Detached, Cast, ScanCell, Scanned, Grow, Fill, TypeOK, Idle
  <2> QED BY <1>0, <2>1, <2>2, BorrowKept
<1>4. ASSUME NEW t \in Threads, Coerce(t) \/ Detach(t) \/ Reacquire(t) PROVE BorrowOK'
  <2>1. flag' = flag /\ call' = call
    BY <1>4 DEF Coerce, Detach, Reacquire
  <2>2. \A u \in Threads : (pc'[u] = Idle) <=> (pc[u] = Idle)
    BY <1>0, <1>4 DEF Coerce, Detach, Reacquire, TypeOK, Idle
  <2> QED BY <1>0, <2>1, <2>2, BorrowKept
<1>5. ASSUME NEW t \in Threads, Reject(t) \/ Return(t) PROVE BorrowOK'
  BY <1>0, <1>5, BorrowLeave DEF Reject, Return, Idle
<1>6. CASE Assign \/ UNCHANGED vars
  BY <1>0, <1>6, BorrowKept DEF Assign, AssignFloat, AssignIds, vars
<1> QED BY <1>2, <1>3, <1>4, <1>5, <1>6 DEF Next, Locked, Locking

-----------------------------------------------------------------------------
(* The steps keep what every call holds. *)

\* A call under way that may write is the only one.
LEMMA Alone ==
  ASSUME BorrowOK, NEW t \in Threads, pc[t] # Idle, call[t].method = "add",
         NEW u \in Threads \ {t}
  PROVE  pc[u] = Idle
BY DEF BorrowOK, Users

\* A call that has not checked its arguments holds nothing.
LEMMA Resting ==
  ASSUME NEW t \in Threads, pc'[t] \notin {"scan", "fill", "back"}, scores'[t] = <<>>
  PROVE  CallOK(t)'
BY DEF CallOK, CopiesOK, ScanOK, AddOK

\* What other calls do, and the assignments into the arrays, leave a call what
\* it holds: they may change the index only while nobody else is in.
LEMMA Untouched ==
  ASSUME NEW t \in Threads, CallOK(t), docs' = docs \/ pc[t] = Idle,
         pc'[t] = pc[t], call'[t] = call[t], owned'[t] = owned[t],
         scores'[t] = scores[t], seen'[t] = seen[t]
  PROVE  CallOK(t)'
<1>1. CASE pc[t] = Idle
  BY <1>1, Resting DEF CallOK, ScanOK, Idle
<1>2. CASE docs' = docs
  <2>1. CopiesOK(t)'
    BY DEF CallOK, CopiesOK
  <2>2. ScanOK(t)'
    BY <1>2 DEF CallOK, ScanOK, Overlong
  <2>3. AddOK(t)'
    BY <1>2 DEF CallOK, AddOK
  <2> QED BY <2>1, <2>2, <2>3 DEF CallOK
<1> QED BY <1>1, <1>2

\* The arguments are copied, and the scan has not begun.
LEMMA DetachCall ==
  ASSUME TypeOK, NEW t \in Threads, CallOK(t), Detach(t)
  PROVE  CallOK(t)'
<1>1. /\ pc[t] = "check" /\ pc'[t] = "scan" /\ call'[t] = call[t] /\ docs' = docs
      /\ scores'[t] = scores[t]
      /\ owned'[t] = [rows |-> RowsAt(t), ids |-> IdsOf(t), n |-> Len(docs)]
      /\ seen'[t] = [docs |-> docs, rows |-> RowsAt(t), ids |-> IdsOf(t)]
  BY DEF Detach, TypeOK
<1>2. /\ seen'[t].docs = docs /\ seen'[t].rows = RowsAt(t) /\ seen'[t].ids = IdsOf(t)
      /\ owned'[t] = [rows |-> seen'[t].rows, ids |-> seen'[t].ids, n |-> Len(seen'[t].docs)]
  BY <1>1
<1>3. RowsAt(t) \in Seq(Rows \cup {Unfit}) /\ IdsOf(t) \in Seq(Nat)
      /\ docs \in Seq(Rows \cup {Blank})
  BY DEF RowsAt, IdsOf, TypeOK, Owning
<1>4. CopiesOK(t)'
  <2>1. call[t].method \notin ByIds => IdsOf(t) = <<>>
    BY DEF IdsOf
  <2>2. ASSUME call[t].method = "add" PROVE \A i \in DOMAIN RowsAt(t) : RowsAt(t)[i] \in Rows
    <3>1. AddError(RowsAt(t)) = NoError
      BY <2>2 DEF Detach, ErrorOf
    <3>2. Finite(RowsAt(t))
      BY <3>1 DEF AddError, NoError
    <3> QED BY <1>3, <3>2 DEF Finite
  <2> QED BY <1>1, <1>2, <2>1, <2>2 DEF CopiesOK
<1>5. ScanOK(t)'
  <2>1. scores'[t] = <<>>
    BY <1>1 DEF CallOK, ScanOK
  <2>2. Total(call[t].method, seen'[t]) \in Nat
    BY <1>2, <1>3 DEF Total
  <2>3. scores'[t] = [j \in 1 .. 0 |-> ScoreAt(call[t].method, seen'[t], j)]
    BY <2>1
  <2>4. 0 \in 0 .. Total(call[t].method, seen'[t])
    BY <2>2
  <2> QED BY <1>1, <1>2, <2>3, <2>4 DEF ScanOK
<1>6. AddOK(t)'
  BY <1>1, <1>2 DEF AddOK
<1> QED BY <1>4, <1>5, <1>6 DEF CallOK

\* A scan goes cell by cell over its copies and an index that stands still.
LEMMA ScanCellCall ==
  ASSUME TypeOK, NEW t \in Threads, CallOK(t), ScanCell(t)
  PROVE  CallOK(t)'
<1> DEFINE m == call[t].method
           s == seen[t]
<1>1. /\ pc[t] = "scan" /\ pc' = pc /\ m # "add" /\ call' = call /\ docs' = docs
      /\ owned' = owned /\ seen' = seen /\ ~ Overlong(t) /\ Len(scores[t]) < Cells(t)
  BY DEF ScanCell
<1>2. CopiesOK(t) /\ ScanOK(t) /\ AddOK(t)
  BY DEF CallOK
<1>3. owned[t].rows = s.rows /\ owned[t].ids = s.ids /\ docs = s.docs
  <2>1. owned[t] = [rows |-> s.rows, ids |-> s.ids, n |-> Len(s.docs)]
    BY <1>1, <1>2 DEF CopiesOK
  <2> QED BY <1>1, <1>2, <2>1 DEF ScanOK
<1>4. PICK n \in 0 .. Total(m, s) : scores[t] = [j \in 1 .. n |-> ScoreAt(m, s, j)]
  BY <1>1, <1>2 DEF ScanOK
<1>5. Total(m, s) \in Nat /\ Total(m, s) = Cells(t)
  <2>1. s \in Seeing
    BY DEF TypeOK
  <2>2. Len(s.ids) \in Nat /\ Len(s.rows) \in Nat /\ Len(s.docs) \in Nat
    BY <2>1 DEF Seeing
  <2>3. Total(m, s) = Cells(t)
    BY <1>3 DEF Total, Cells
  <2>4. Len(s.rows) * Len(s.docs) \in Nat
    BY <2>2, Product
  <2> QED BY <2>2, <2>3, <2>4 DEF Total
<1>6. n \in Nat /\ scores[t] = [j \in 1 .. n |-> scores[t][j]] /\ Len(scores[t]) = n
  <2>1. n \in Nat /\ scores[t] = [j \in 1 .. n |-> scores[t][j]]
    BY <1>4, <1>5
  <2> QED BY <2>1, LenOfFunction
<1> DEFINE c == Cell(t, n)
           e == Score[RowFor(t, c.query)][docs[c.doc]]
<1>7. e = ScoreAt(m, s, n + 1)
  <2>1. n + 1 - 1 = n
    BY <1>6
  <2>2. CASE m \in ByIds
    <3>1. c = [query |-> 1, doc |-> s.ids[n + 1] + 1]
      BY <1>3, <2>2 DEF Cell, IdFor
    <3>2. c.query = 1 /\ c.doc = s.ids[n + 1] + 1
      BY <3>1
    <3> QED BY <1>3, <2>2, <3>2 DEF ScoreAt, RowFor
  <2>3. CASE m \notin ByIds
    <3>1. c = [query |-> (n \div Len(s.docs)) + 1, doc |-> (n % Len(s.docs)) + 1]
      BY <1>3, <2>3 DEF Cell
    <3>2. c.query = (n \div Len(s.docs)) + 1 /\ c.doc = (n % Len(s.docs)) + 1
      BY <3>1
    <3> QED BY <1>3, <2>1, <2>3, <3>2 DEF ScoreAt, RowFor
  <2> QED BY <2>2, <2>3
<1>8. scores'[t] = Append(scores[t], e)
  BY <1>6 DEF ScanCell, TypeOK
<1> HIDE DEF e, c
<1>9. scores'[t] = [j \in 1 .. n + 1 |-> ScoreAt(m, s, j)]
  <2>1. scores'[t] = [j \in 1 .. n + 1 |-> IF j = n + 1 THEN e ELSE scores[t][j]]
    BY <1>6, <1>8, Appended
  <2>2. \A j \in 1 .. n + 1 : (IF j = n + 1 THEN e ELSE scores[t][j]) = ScoreAt(m, s, j)
    <3>1. TAKE j \in 1 .. n + 1
    <3>2. j # n + 1 => j \in 1 .. n
      BY <1>6
    <3> QED BY <1>4, <1>7, <3>2
  <2> QED BY <2>1, <2>2
<1>10. n + 1 \in 0 .. Total(m, s)
  BY <1>1, <1>5, <1>6
<1>11. ScanOK(t)'
  <2>1. \E k \in 0 .. Total(m, s) : scores'[t] = [j \in 1 .. k |-> ScoreAt(m, s, j)]
    BY <1>9, <1>10
  <2> QED BY <1>1, <1>3, <2>1 DEF ScanOK
<1>12. CopiesOK(t)' /\ AddOK(t)'
  BY <1>1, <1>2 DEF CopiesOK, AddOK
<1> QED BY <1>11, <1>12 DEF CallOK

\* A scan ends when it has all its cells.
LEMMA ScannedCall ==
  ASSUME TypeOK, NEW t \in Threads, CallOK(t), Scanned(t)
  PROVE  CallOK(t)'
<1>1. /\ pc[t] = "scan" /\ pc'[t] = "back" /\ call[t].method # "add" /\ call' = call
      /\ docs' = docs /\ owned' = owned /\ seen' = seen /\ scores' = scores
      /\ Overlong(t) \/ Len(scores[t]) = Cells(t)
  BY DEF Scanned, TypeOK
<1>2. CopiesOK(t) /\ ScanOK(t) /\ AddOK(t)
  BY DEF CallOK
<1>3. Overlong(t)' <=> Overlong(t)
  BY <1>1 DEF Overlong
<1>4. docs = seen[t].docs
  BY <1>1, <1>2 DEF ScanOK
<1>5. owned[t].rows = seen[t].rows /\ owned[t].ids = seen[t].ids
  <2>1. owned[t] = [rows |-> seen[t].rows, ids |-> seen[t].ids, n |-> Len(seen[t].docs)]
    BY <1>1, <1>2 DEF CopiesOK
  <2> QED BY <2>1
<1>6. Cells(t) = Total(call[t].method, seen[t])
  BY <1>4, <1>5 DEF Cells, Total
<1>7. ScanOK(t)'
  BY <1>1, <1>2, <1>3, <1>6 DEF ScanOK
<1> QED BY <1>1, <1>2, <1>7 DEF CallOK, CopiesOK, AddOK

\* The rows of an addition come after the documents, blank.
LEMMA GrowCall ==
  ASSUME TypeOK, NEW t \in Threads, CallOK(t), Grow(t)
  PROVE  CallOK(t)'
<1> DEFINE s == seen[t]
           new == [i \in DOMAIN owned[t].rows |-> Blank]
<1>1. /\ pc[t] = "scan" /\ pc'[t] = "fill" /\ call[t].method = "add" /\ call' = call
      /\ docs' = docs \o new /\ owned' = owned /\ seen' = seen /\ scores' = scores
  BY DEF Grow, TypeOK
<1>2. CopiesOK(t) /\ AddOK(t)
  BY DEF CallOK
<1>3. owned[t].rows = s.rows
  <2>1. owned[t] = [rows |-> s.rows, ids |-> s.ids, n |-> Len(s.docs)]
    BY <1>1, <1>2 DEF CopiesOK
  <2> QED BY <2>1
<1>4. docs = s.docs
  BY <1>1, <1>2 DEF AddOK
<1>5. /\ s.docs \in Seq(Rows \cup {Blank}) /\ Len(s.docs) \in Nat
      /\ Len(s.rows) \in Nat /\ DOMAIN s.rows = 1 .. Len(s.rows)
  <2>1. s \in Seeing
    BY DEF TypeOK
  <2>2. s.docs \in Seq(Rows \cup {Blank}) /\ s.rows \in Seq(Rows \cup {Unfit})
    BY <2>1 DEF Seeing
  <2> QED BY <2>2
<1>6. new \in Seq({Blank}) /\ Len(new) = Len(s.rows) /\ \A q \in 1 .. Len(s.rows) : new[q] = Blank
  BY <1>3, <1>5
<1> HIDE DEF new
<1>7. /\ Len(docs') = Len(s.docs) + Len(s.rows)
      /\ \A i \in 1 .. Len(s.docs) : docs'[i] = s.docs[i]
      /\ \A q \in 1 .. Len(s.rows) : docs'[Len(s.docs) + q] = Blank
  <2>1. new \in Seq(Rows \cup {Blank})
    BY <1>6
  <2>2. /\ Len(s.docs \o new) = Len(s.docs) + Len(new)
        /\ \A i \in 1 .. Len(s.docs) : (s.docs \o new)[i] = s.docs[i]
        /\ \A i \in 1 .. Len(new) : (s.docs \o new)[Len(s.docs) + i] = new[i]
    <3> DEFINE first == s.docs
    <3>1. first \in Seq(Rows \cup {Blank})
      BY <1>5
    <3> HIDE DEF first
    <3>2. /\ Len(first \o new) = Len(first) + Len(new)
          /\ \A i \in 1 .. Len(first) : (first \o new)[i] = first[i]
          /\ \A i \in 1 .. Len(new) : (first \o new)[Len(first) + i] = new[i]
      BY <2>1, <3>1, Joined
    <3> QED BY <3>2 DEF first
  <2>3. docs' = s.docs \o new
    BY <1>1, <1>4
  <2> QED BY <1>6, <2>2, <2>3
<1>8. AddOK(t)'
  BY <1>1, <1>7 DEF AddOK
<1>9. CopiesOK(t)' /\ ScanOK(t)'
  BY <1>1, <1>2 DEF CopiesOK, ScanOK
<1> QED BY <1>8, <1>9 DEF CallOK

\* A row is written over its blank; the call goes on when none is left.
LEMMA FillCall ==
  ASSUME TypeOK, NEW t \in Threads, CallOK(t), Fill(t)
  PROVE  CallOK(t)'
<1> DEFINE s == seen[t]
           old == Len(s.docs)
           new == Len(s.rows)
<1>1. /\ pc[t] = "fill" /\ call' = call /\ owned' = owned /\ seen' = seen /\ scores' = scores
  BY DEF Fill
<1>2. CopiesOK(t) /\ ScanOK(t) /\ AddOK(t)
  BY DEF CallOK
<1>3. owned[t].rows = s.rows /\ owned[t].n = old
  <2>1. owned[t] = [rows |-> s.rows, ids |-> s.ids, n |-> Len(s.docs)]
    BY <1>1, <1>2 DEF CopiesOK
  <2> QED BY <2>1
<1>4. /\ call[t].method = "add" /\ Len(docs) = old + new
      /\ \A i \in 1 .. old : docs[i] = s.docs[i]
      /\ \A q \in 1 .. new : docs[old + q] = s.rows[q] \/ docs[old + q] = Blank
  BY <1>1, <1>2 DEF AddOK
<1>5. old \in Nat /\ new \in Nat /\ DOMAIN s.rows = 1 .. new
      /\ docs \in Seq(Rows \cup {Blank})
  <2>1. s \in Seeing
    BY DEF TypeOK
  <2>2. s.docs \in Seq(Rows \cup {Blank}) /\ s.rows \in Seq(Rows \cup {Unfit})
    BY <2>1 DEF Seeing
  <2> QED BY <2>2 DEF TypeOK
<1> HIDE DEF old, new
<1>6. CASE pc'[t] = "back" /\ docs' = docs /\ \A q \in 1 .. new : docs[old + q] # Blank
  <2>1. \A q \in 1 .. new : docs[old + q] = s.rows[q]
    BY <1>4, <1>6
  <2>2. AddOK(t)'
    BY <1>1, <1>4, <1>6, <2>1 DEF AddOK, old, new
  <2>3. CopiesOK(t)'
    BY <1>1, <1>2, <1>6 DEF CopiesOK
  <2>4. ScanOK(t)'
    BY <1>1, <1>4, <1>6 DEF ScanOK
  <2> QED BY <2>2, <2>3, <2>4 DEF CallOK
<1>7. CASE pc' = pc /\ \E q \in 1 .. new : docs' = [docs EXCEPT ![old + q] = s.rows[q]]
  <2>1. PICK q \in 1 .. new : docs' = [docs EXCEPT ![old + q] = s.rows[q]]
    BY <1>7
  <2>2. DOMAIN docs = 1 .. old + new /\ docs = [i \in 1 .. old + new |-> docs[i]]
    BY <1>4, <1>5
  <2>3. Len(docs') = old + new
    <3>1. old + new \in Nat /\ DOMAIN docs' = 1 .. old + new
      BY <1>5, <2>1, <2>2
    <3>2. docs' = [i \in 1 .. old + new |-> docs'[i]]
      BY <2>1, <2>2
    <3> QED BY <3>1, <3>2, LenOfFunction
  <2>4. \A i \in 1 .. old : docs'[i] = s.docs[i]
    <3>1. TAKE i \in 1 .. old
    <3>2. i \in 1 .. old + new /\ i # old + q
      BY <1>5
    <3>3. docs'[i] = docs[i]
      BY <2>1, <2>2, <3>2
    <3> QED BY <1>4, <3>3
  <2>5. \A p \in 1 .. new : docs'[old + p] = s.rows[p] \/ docs'[old + p] = Blank
    <3>1. TAKE p \in 1 .. new
    <3>2. old + p \in 1 .. old + new /\ (p # q => old + p # old + q)
      BY <1>5
    <3>3. CASE p = q
      BY <2>1, <2>2, <3>2, <3>3
    <3>4. CASE p # q
      BY <1>4, <2>1, <2>2, <3>2, <3>4
    <3> QED BY <3>3, <3>4
  <2>6. AddOK(t)'
    BY <1>1, <1>4, <1>7, <2>3, <2>4, <2>5 DEF AddOK, old, new
  <2>7. CopiesOK(t)' /\ ScanOK(t)'
    BY <1>1, <1>2, <1>7 DEF CopiesOK, ScanOK
  <2> QED BY <2>6, <2>7 DEF CallOK
<1>8. \/ pc'[t] = "back" /\ docs' = docs /\ \A q \in 1 .. new : docs[old + q] # Blank
      \/ pc' = pc /\ \E q \in 1 .. new : docs' = [docs EXCEPT ![old + q] = s.rows[q]]
  <2> DEFINE unwritten == {q \in 1 .. new : docs[old + q] = Blank}
  <2>1. \/ unwritten = {} /\ pc' = [pc EXCEPT ![t] = "back"] /\ docs' = docs
        \/ pc' = pc /\ \E q \in unwritten : docs' = [docs EXCEPT ![old + q] = s.rows[q]]
    BY <1>3, <1>5 DEF Fill, RowFor
  <2> QED BY <2>1 DEF TypeOK
<1> QED BY <1>6, <1>7, <1>8

LEMMA CallInit == ASSUME Init PROVE \A t \in Threads : CallOK(t)
BY DEF Init, CallOK, CopiesOK, ScanOK, AddOK, Idle

LEMMA CallStep == ASSUME IInv, [Next]_vars, NEW u \in Threads PROVE CallOK(u)'
<1>0. TypeOK /\ BorrowOK /\ CallOK(u)
  BY DEF IInv
<1>1. ASSUME NEW t \in Threads, NEW m, NEW k, NEW c, NEW f, Begin(t, m, k, c, f)
      PROVE  CallOK(u)'
  <2>1. CASE u = t
    <3>1. scores'[t] = <<>>
      BY <1>0, <1>1, <2>1 DEF Begin, CallOK, ScanOK, Idle
    <3>2. pc'[t] \in {"check", "coerce"}
      BY <1>0, <1>1 DEF Begin, TypeOK
    <3> QED BY <2>1, <3>1, <3>2, Resting
  <2>2. CASE u # t
    BY <1>0, <1>1, <2>2, Untouched DEF Begin, TypeOK
  <2> QED BY <2>1, <2>2
<1>2. ASSUME NEW t \in Threads, NEW idx, SwapRemove(t, idx) PROVE CallOK(u)'
  <2>1. Users = {}
    <3>1. Cardinality(Users) = 0
      BY <1>0, <1>2 DEF SwapRemove, CanBorrow, Mutates, BorrowOK, Exclusive
    <3>2. IsFiniteSet(Users)
      BY UserCount
    <3> QED BY <3>1, <3>2, FS_EmptySet
  <2>2. pc[u] = Idle
    BY <2>1 DEF Users
  <2> QED BY <1>0, <1>2, <2>2, Untouched DEF SwapRemove
<1>3. ASSUME NEW t \in Threads, Calls(t) PROVE CallOK(u)'
  BY <1>1, <1>2, <1>3 DEF Calls
<1>4. ASSUME NEW t \in Threads, Cast(t) \/ Coerce(t) \/ Reacquire(t) PROVE CallOK(u)'
  <2>1. CASE u = t
    <3>1. scores'[t] = <<>>
      BY <1>0, <1>4, <2>1 DEF Cast, Coerce, Reacquire, CallOK, ScanOK
    <3>2. pc'[t] \in {"check", "cast", "wait"}
      BY <1>0, <1>4 DEF Cast, Coerce, Reacquire, TypeOK
    <3> QED BY <2>1, <3>1, <3>2, Resting
  <2>2. CASE u # t
    BY <1>0, <1>4, <2>2, Untouched DEF Cast, Coerce, Reacquire, TypeOK
  <2> QED BY <2>1, <2>2
<1>5. ASSUME NEW t \in Threads, ScanCell(t) PROVE CallOK(u)'
  <2>1. CASE u = t
    BY <1>0, <1>5, <2>1, ScanCellCall
  <2>2. CASE u # t
    BY <1>0, <1>5, <2>2, Untouched DEF ScanCell, TypeOK
  <2> QED BY <2>1, <2>2
<1>6. ASSUME NEW t \in Threads, Scanned(t) PROVE CallOK(u)'
  <2>1. CASE u = t
    BY <1>0, <1>6, <2>1, ScannedCall
  <2>2. CASE u # t
    BY <1>0, <1>6, <2>2, Untouched DEF Scanned, TypeOK
  <2> QED BY <2>1, <2>2
<1>7. ASSUME NEW t \in Threads, Grow(t) PROVE CallOK(u)'
  <2>1. CASE u = t
    BY <1>0, <1>7, <2>1, GrowCall
  <2>2. CASE u # t
    <3>1. pc[u] = Idle
      BY <1>0, <1>7, <2>2, Alone DEF Grow, Idle
    <3> QED BY <1>0, <1>7, <2>2, <3>1, Untouched DEF Grow, TypeOK
  <2> QED BY <2>1, <2>2
<1>8. ASSUME NEW t \in Threads, Fill(t) PROVE CallOK(u)'
  <2>1. CASE u = t
    BY <1>0, <1>8, <2>1, FillCall
  <2>2. CASE u # t
    <3>1. CallOK(t) /\ pc[t] = "fill"
      BY <1>8 DEF IInv, Fill
    <3>2. call[t].method = "add"
      BY <3>1 DEF CallOK, AddOK
    <3>3. pc[u] = Idle
      BY <1>0, <2>2, <3>1, <3>2, Alone DEF Idle
    <3>4. pc'[u] = pc[u]
      BY <1>0, <1>8, <2>2 DEF Fill, TypeOK
    <3> QED BY <1>0, <1>8, <3>3, <3>4, Untouched DEF Fill
  <2> QED BY <2>1, <2>2
<1>9. ASSUME NEW t \in Threads, Reject(t) \/ Return(t) PROVE CallOK(u)'
  <2>1. Leave(t) /\ docs' = docs
    BY <1>9 DEF Reject, Return
  <2>2. CASE u = t
    BY <1>0, <2>1, <2>2, Resting DEF Leave, TypeOK, Idle
  <2>3. CASE u # t
    BY <1>0, <2>1, <2>3, Untouched DEF Leave, TypeOK
  <2> QED BY <2>2, <2>3
<1>10. ASSUME NEW t \in Threads, Detach(t) PROVE CallOK(u)'
  <2>1. CASE u = t
    BY <1>0, <1>10, <2>1, DetachCall
  <2>2. CASE u # t
    BY <1>0, <1>10, <2>2, Untouched DEF Detach, TypeOK
  <2> QED BY <2>1, <2>2
<1>11. CASE Assign \/ UNCHANGED vars
  BY <1>0, <1>11, Untouched DEF Assign, AssignFloat, AssignIds, vars
<1> QED BY <1>3, <1>4, <1>5, <1>6, <1>7, <1>8, <1>9, <1>10, <1>11
        DEF Next, Detached, Locked, Locking

-----------------------------------------------------------------------------
(* What a call returns. *)

\* A matrix of a rows of b cells, cell by cell.
LEMMA CellNumber ==
  ASSUME NEW a \in Nat, NEW b \in Nat \ {0}, NEW r \in 0 .. b - 1
  PROVE  (a * b + r) \div b = a /\ (a * b + r) % b = r
<1>1. a * b \in Nat
  OBVIOUS
<1>2. a * b + r \in Nat
  BY <1>1
<1> DEFINE x == a * b + r
           d == x \div b
           e == x % b
<1>3. d \in Nat /\ e \in 0 .. b - 1 /\ x = d * b + e
  BY <1>2
<1>4. d * b + e = a * b + r
  BY <1>3
<1> HIDE DEF d, e, x
<1>5. ~ d <= a - 1
  <2>1. ASSUME d <= a - 1 PROVE FALSE
    <3>1. d * b <= (a - 1) * b
      BY <1>3, <2>1
    <3>2. (a - 1) * b = a * b - b
      OBVIOUS
    <3>3. d * b \in Nat
      BY <1>3
    <3> QED BY <1>1, <1>3, <1>4, <3>1, <3>2, <3>3
  <2> QED BY <2>1
<1>6. ~ d >= a + 1
  <2>1. ASSUME d >= a + 1 PROVE FALSE
    <3>1. d * b >= (a + 1) * b
      BY <1>3, <2>1
    <3>2. (a + 1) * b = a * b + b
      OBVIOUS
    <3>3. d * b \in Nat
      BY <1>3
    <3> QED BY <1>1, <1>3, <1>4, <3>1, <3>2, <3>3
  <2> QED BY <2>1
<1>7. d = a
  BY <1>3, <1>5, <1>6
<1>8. e = r
  BY <1>1, <1>3, <1>4, <1>7
<1> QED BY <1>7, <1>8 DEF d, e, x

LEMMA MatrixCell ==
  ASSUME NEW m, m \notin ByIds, NEW s, NEW j, NEW q, NEW d,
         ((j - 1) \div Len(s.docs)) + 1 = q, ((j - 1) % Len(s.docs)) + 1 = d
  PROVE  ScoreAt(m, s, j) = Score[s.rows[q]][s.docs[d]]
BY DEF ScoreAt

\* Where a row of the matrix begins and ends.
LEMMA RowPlace ==
  ASSUME NEW count \in Nat \ {0}, NEW n \in Nat, NEW q \in 1 .. count
  PROVE  /\ (count * n) \div count = n
         /\ (q - 1) * n \in Nat /\ q * n = (q - 1) * n + n
         /\ (q - 1) * n + n <= count * n
<1>1. n * count = count * n /\ n * count + 0 = n * count
  OBVIOUS
<1>2. (n * count + 0) \div count = n
  <2>1. 0 \in 0 .. count - 1
    OBVIOUS
  <2> QED BY <2>1, CellNumber
<1>3. q - 1 \in Nat /\ q \in Nat /\ count - q \in Nat
  OBVIOUS
<1>4. (q - 1) * n \in Nat /\ (count - q) * n \in Nat /\ q * n \in Nat
  BY <1>3, Product
<1>5. (q - 1) * n = q * n - n /\ (count - q) * n = count * n - q * n
  BY <1>3
<1>6. count * n \in Nat
  BY Product
<1> QED BY <1>1, <1>2, <1>4, <1>5, <1>6

\* A row of a full matrix: the scores of one query for every document.
LEMMA RowExact ==
  ASSUME NEW t \in Threads, NEW s \in Seeing, NEW m, m \notin ByIds,
         scores[t] = [j \in 1 .. Total(m, s) |-> ScoreAt(m, s, j)],
         NEW q \in 1 .. Len(s.rows)
  PROVE  /\ RowOfScores(t, q, Len(s.rows)) =
              [d \in 1 .. Len(s.docs) |-> Score[s.rows[q]][s.docs[d]]]
         /\ Len(RowOfScores(t, q, Len(s.rows))) = Len(s.docs)
<1> DEFINE count == Len(s.rows)
           n == Len(s.docs)
           f == scores[t]
<1>1. count \in Nat \ {0} /\ n \in Nat /\ q \in 1 .. count
  BY DEF Seeing
<1>2. count * n \in Nat /\ Total(m, s) = count * n
  BY <1>1, Product DEF Total
<1>3. f = [j \in 1 .. count * n |-> f[j]]
  BY <1>2
<1> HIDE DEF f, count, n
<1>4. f \in Seq({f[j] : j \in 1 .. count * n}) /\ Len(f) = count * n
  BY <1>2, <1>3, LenOfFunction
<1>5. (count * n) \div count = n
  BY <1>1, RowPlace
<1> DEFINE a == (q - 1) * n
           row == SubSeq(f, a + 1, q * n)
<1>6. RowOfScores(t, q, count) = row
  BY <1>4, <1>5 DEF RowOfScores, f
<1>7. a \in Nat /\ q * n = a + n /\ a + n <= count * n
  BY <1>1, RowPlace
<1> HIDE DEF a
<1>8. row = [d \in 1 .. n |-> f[a + d]]
  <2>1. row = [d \in 1 .. (a + n) - (a + 1) + 1 |-> f[d + (a + 1) - 1]]
    BY <1>1, <1>4, <1>7
  <2>2. (a + n) - (a + 1) + 1 = n /\ \A d \in 1 .. n : d + (a + 1) - 1 = a + d
    BY <1>1, <1>7
  <2> QED BY <2>1, <2>2
<1>9. ASSUME NEW d \in 1 .. n PROVE f[a + d] = Score[s.rows[q]][s.docs[d]]
  <2> DEFINE x == a + d
  <2>1. x \in 1 .. count * n
    BY <1>1, <1>2, <1>7
  <2>2. f[x] = ScoreAt(m, s, x)
    BY <1>2, <2>1 DEF f, count, n
  <2>3. x - 1 = a + (d - 1) /\ d - 1 \in 0 .. n - 1 /\ n \in Nat \ {0} /\ q - 1 \in Nat
    BY <1>1, <1>7
  <2>4. (x - 1) \div n = q - 1 /\ (x - 1) % n = d - 1
    <3>1. /\ ((q - 1) * n + (d - 1)) \div n = q - 1
          /\ ((q - 1) * n + (d - 1)) % n = d - 1
      BY <2>3, CellNumber
    <3>2. (q - 1) * n + (d - 1) = x - 1
      BY <2>3 DEF a
    <3> QED BY <3>1, <3>2
  <2>5. ((x - 1) \div n) + 1 = q /\ ((x - 1) % n) + 1 = d
    BY <1>1, <2>4
  <2> HIDE DEF x
  <2>6. ((x - 1) \div Len(s.docs)) + 1 = q /\ ((x - 1) % Len(s.docs)) + 1 = d
    BY <2>5 DEF n
  <2>7. ScoreAt(m, s, x) = Score[s.rows[q]][s.docs[d]]
    BY <2>6, MatrixCell
  <2>8. f[x] = Score[s.rows[q]][s.docs[d]]
    BY <2>2, <2>7
  <2> QED BY <2>8 DEF x
<1>10. row = [d \in 1 .. n |-> Score[s.rows[q]][s.docs[d]]]
  BY <1>8, <1>9
<1>11. Len(row) = n
  <2> HIDE DEF row
  <2>1. row = [d \in 1 .. n |-> row[d]]
    BY <1>8
  <2> QED BY <1>1, <2>1, LenOfFunction
<1> QED BY <1>6, <1>10, <1>11 DEF count, n

\* A ranking is as long as its row, and no longer than k.
LEMMA BestLength ==
  ASSUME NEW row, NEW names, NEW k \in Nat, Len(row) \in Nat
  PROVE  Len(BestOf(row, names, k)) = Lesser(k, Len(row))
<1>1. Lesser(k, Len(row)) \in Nat
  BY DEF Lesser
<1>2. BestOf(row, names, k) = [i \in 1 .. Lesser(k, Len(row)) |-> BestOf(row, names, k)[i]]
  BY DEF BestOf
<1> QED BY <1>1, <1>2, LenOfFunction

LEMMA Exact == ASSUME IInv PROVE ReturnsExact
<1> SUFFICES ASSUME NEW t \in Threads, pc[t] = "back"
             PROVE  IF Len(seen[t].ids) > Len(seen[t].docs) /\ call[t].method = "subset"
                      THEN Result(t) = Panic
                      ELSE /\ Result(t) = Returned(Expected(call[t], seen[t]))
                           /\ docs = seen[t].docs \o
                                (IF call[t].method = "add" THEN seen[t].rows ELSE <<>>)
  BY DEF ReturnsExact
<1> DEFINE s == seen[t]
           m == call[t].method
           k == call[t].k
<1>1. TypeOK /\ CopiesOK(t) /\ ScanOK(t) /\ AddOK(t)
  BY DEF IInv, CallOK
<1>2. owned[t].rows = s.rows /\ owned[t].ids = s.ids /\ owned[t].n = Len(s.docs)
  <2>1. owned[t] = [rows |-> s.rows, ids |-> s.ids, n |-> Len(s.docs)]
    BY <1>1 DEF CopiesOK
  <2> QED BY <2>1
<1>3. /\ s \in Seeing /\ k \in Nat
      /\ s.docs \in Seq(Rows \cup {Blank}) /\ s.rows \in Seq(Rows \cup {Unfit})
      /\ s.ids \in Seq(Nat) /\ docs \in Seq(Rows \cup {Blank})
  BY <1>1 DEF TypeOK, Seeing, Calling
<1>4. /\ Len(s.docs) \in Nat /\ Len(s.rows) \in Nat /\ Len(s.ids) \in Nat
      /\ DOMAIN s.docs = 1 .. Len(s.docs) /\ DOMAIN s.rows = 1 .. Len(s.rows)
      /\ DOMAIN s.ids = 1 .. Len(s.ids)
  BY <1>3
<1>5. CASE m = "add"
  <2>1. Result(t) = Returned(<<>>) /\ Expected(call[t], s) = <<>>
    BY <1>5 DEF Result, Overlong, Expected
  <2>2. docs = s.docs \o s.rows
    <3>1. /\ Len(docs) = Len(s.docs) + Len(s.rows)
          /\ \A i \in 1 .. Len(s.docs) : docs[i] = s.docs[i]
          /\ \A q \in 1 .. Len(s.rows) : docs[Len(s.docs) + q] = s.rows[q]
      BY <1>1, <1>5 DEF AddOK
    <3> DEFINE S == Rows \cup {Blank, Unfit}
    <3>2. s.docs \in Seq(S) /\ s.rows \in Seq(S) /\ docs \in Seq(S)
      BY <1>3
    <3> HIDE DEF S, s
    <3> QED BY <3>1, <3>2, IsJoined
  <2> QED BY <1>5, <2>1, <2>2
<1>6. CASE m # "add"
  <2>1. docs = s.docs /\ (Overlong(t) \/ Len(scores[t]) = Total(m, s))
    BY <1>1, <1>6 DEF ScanOK
  <2>2. Overlong(t) <=> (m = "subset" /\ Len(s.ids) > Len(s.docs))
    BY <1>2, <2>1 DEF Overlong
  <2>3. CASE Overlong(t)
    BY <2>2, <2>3 DEF Result
  <2>4. CASE ~ Overlong(t)
    <3>1. docs = s.docs \o <<>>
      BY <1>3, <2>1
    <3>2. Total(m, s) \in Nat /\ scores[t] = [j \in 1 .. Total(m, s) |-> ScoreAt(m, s, j)]
      <4>1. Total(m, s) \in Nat
        <5>1. Len(s.rows) * Len(s.docs) \in Nat
          BY <1>4, Product
        <5> QED BY <1>4, <5>1 DEF Total
      <4>2. PICK n \in 0 .. Total(m, s) : scores[t] = [j \in 1 .. n |-> ScoreAt(m, s, j)]
        BY <1>1, <1>6 DEF ScanOK
      <4>3. n \in Nat /\ scores[t] = [j \in 1 .. n |-> scores[t][j]]
        BY <4>1, <4>2
      <4>4. Len(scores[t]) = n
        BY <4>3, LenOfFunction
      <4> QED BY <2>1, <2>4, <4>1, <4>2, <4>4
    <3>3. Result(t) = Returned(Expected(call[t], s))
      <4> DEFINE all == [q \in DOMAIN s.rows |-> [d \in DOMAIN s.docs |-> Score[s.rows[q]][s.docs[d]]]]
                 some == [i \in DOMAIN s.ids |-> Score[s.rows[1]][s.docs[s.ids[i] + 1]]]
                 count == Len(s.rows)
                 best == [q \in DOMAIN all |-> BestOf(all[q], Numbers(Len(s.docs)), k)]
      <4>1. CASE m \in ByIds
        <5>1. Total(m, s) = Len(s.ids)
          BY <4>1 DEF Total
        <5>2. \A j \in 1 .. Len(s.ids) : ScoreAt(m, s, j) = Score[s.rows[1]][s.docs[s.ids[j] + 1]]
          BY <4>1 DEF ScoreAt
        <5>3. scores[t] = some
          BY <1>4, <3>2, <5>1, <5>2
        <5>4. m \in {"subset", "body"}
          BY <4>1 DEF ByIds
        <5>5. CASE m = "subset"
          <6>1. Result(t) = Returned(<<BestOf(scores[t], owned[t].ids, k)>>)
            BY <2>4, <5>5 DEF Result
          <6>2. Expected(call[t], s) = <<BestOf(some, s.ids, k)>>
            BY <5>5 DEF Expected
          <6> QED BY <1>2, <5>3, <6>1, <6>2
        <5>6. CASE m = "body"
          <6>1. Result(t) = Returned(<<scores[t]>>)
            BY <2>4, <5>6 DEF Result
          <6>2. Expected(call[t], s) = <<some>>
            BY <5>6 DEF Expected
          <6> QED BY <5>3, <6>1, <6>2
        <5> QED BY <5>4, <5>5, <5>6
      <4>2. CASE m \notin ByIds
        <5>1. ASSUME NEW q \in 1 .. count
              PROVE  RowOfScores(t, q, count) = all[q] /\ Len(RowOfScores(t, q, count)) = Len(s.docs)
          <6>1. /\ RowOfScores(t, q, Len(s.rows)) =
                     [d \in 1 .. Len(s.docs) |-> Score[s.rows[q]][s.docs[d]]]
                /\ Len(RowOfScores(t, q, Len(s.rows))) = Len(s.docs)
            <7> HIDE DEF s, m
            <7> QED BY <1>3, <3>2, <4>2, RowExact
          <6>2. all[q] = [d \in 1 .. Len(s.docs) |-> Score[s.rows[q]][s.docs[d]]]
            BY <1>4
          <6> QED BY <6>1, <6>2
        <5>2. DOMAIN all = 1 .. count
          BY <1>4
        <5> HIDE DEF all
        <5>3. CASE m = "dense"
          <6>1. Len(scores[t]) = count * owned[t].n
            <7>1. scores[t] = [j \in 1 .. Total(m, s) |-> scores[t][j]]
              BY <3>2
            <7>2. Len(scores[t]) = Total(m, s)
              BY <3>2, <7>1, LenOfFunction
            <7> QED BY <1>2, <4>2, <7>2 DEF Total
          <6>2. Dense(t) = Returned([q \in 1 .. count |-> RowOfScores(t, q, count)])
            BY <1>2, <6>1 DEF Dense
          <6>3. [q \in 1 .. count |-> RowOfScores(t, q, count)] = all
            <7>1. all = [q \in 1 .. count |-> all[q]]
              BY <1>4 DEF all
            <7> QED BY <5>1, <7>1
          <6>4. Result(t) = Dense(t)
            BY <2>4, <5>3 DEF Result
          <6>5. Expected(call[t], s) = all
            BY <5>3 DEF Expected, all
          <6> QED BY <6>2, <6>3, <6>4, <6>5
        <5>4. CASE m # "dense"
          <6>1. Expected(call[t], s) = best
            BY <1>6, <4>2, <5>4 DEF Expected, ByIds, all
          <6>2. Ranked(t) = [q \in 1 .. count |->
                               BestOf(RowOfScores(t, q, count),
                                      Numbers(Len(RowOfScores(t, q, count))), k)]
            BY <1>2 DEF Ranked
          <6>3. Ranked(t) = best
            BY <5>1, <5>2, <6>2
          <6>4. CASE m = "search"
            <7>1. Result(t) = Returned(Ranked(t))
              BY <2>4, <6>4 DEF Result
            <7> QED BY <6>1, <6>3, <7>1
          <6>5. CASE m # "search"
            <7>1. Result(t) = Shaped(t)
              BY <1>6, <2>4, <4>2, <5>4, <6>5 DEF Result, ByIds
            <7>2. \A q \in 1 .. count : Len(Ranked(t)[q]) = Lesser(k, Len(s.docs))
              <8>1. TAKE q \in 1 .. count
              <8>2. Len(RowOfScores(t, q, count)) = Len(s.docs)
                BY <5>1
              <8>3. Ranked(t)[q] = BestOf(RowOfScores(t, q, count), Numbers(Len(s.docs)), k)
                BY <6>2, <8>2
              <8> QED BY <1>3, <1>4, <8>2, <8>3, BestLength
            <7>3. DOMAIN Ranked(t) = 1 .. count
              BY <6>2
            <7>4. Shaped(t) = Returned(Ranked(t))
              BY <1>2, <7>2, <7>3 DEF Shaped
            <7> QED BY <6>1, <6>3, <7>1, <7>4
          <6> QED BY <6>4, <6>5
        <5> QED BY <5>3, <5>4
      <4> QED BY <4>1, <4>2
    <3> QED BY <1>6, <2>2, <2>4, <3>1, <3>3
  <2> QED BY <2>3, <2>4
<1> QED BY <1>5, <1>6

\* The inductive invariant: the types, the borrow flag, and what each call
\* holds between the release of the interpreter lock and its return.
LEMMA Inductive == Spec => []IInv
<1>1. Init => IInv
  BY TypeInit, BorrowInit, CallInit DEF IInv
<1>2. IInv /\ [Next]_vars => IInv'
  BY TypeStep, BorrowStep, CallStep DEF IInv
<1> QED BY <1>1, <1>2, PTL DEF Spec

\* A call of the Python bindings that was detached from the interpreter lock
\* returns the result of the index and of the arguments it checked, whatever
\* other threads call and assign meanwhile; an addition has added just its rows.
THEOREM PyCallsAreExact == Spec => []ReturnsExact
<1>1. IInv => ReturnsExact
  BY Exact
<1> QED BY <1>1, Inductive, PTL
=============================================================================
