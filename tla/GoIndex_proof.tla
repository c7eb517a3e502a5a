---------------------------- MODULE GoIndex_proof ----------------------------
(***************************************************************************)
(* For every set of goroutines, threads and messages: the Go binding uses  *)
(* its handle as the C interface demands, and every caller gets its own    *)
(* error.                                                                  *)
(***************************************************************************)
EXTENDS GoIndex, TLAPS

InC == {"calling", "in_c", "failed", "copying", "returned"}

Reading(g) == op[g] \in {"search", "info"} /\ pc[g] \in {"inside", "leaving"} \cup InC
Writing(g) == op[g] = "close" /\ pc[g] \in {"draining", "inside", "leaving"}
Loading(g) == op[g] \in {"load", "describe"} /\ pc[g] \in InC

\* Which operations may be at which place.
Places ==
  \A g \in Procs :
    /\ pc[g] \in {"waiting", "inside", "leaving"} => op[g] \in {"search", "info", "close"}
    /\ pc[g] = "parked" => op[g] \in {"search", "info"}
    /\ pc[g] = "draining" => op[g] = "close"
    /\ pc[g] \in InC => op[g] \in {"probe", "load", "describe", "search"}
    /\ pc[g] # "idle" /\ op[g] \in {"search", "info", "close"} => shared

\* The lock is held by those whose place says so, and a writer that is inside
\* is alone.
Locks ==
  /\ \A g \in Procs : g \in readers <=> Reading(g)
  /\ \A g \in Procs : g \in parked <=> pc[g] = "parked"
  /\ \A g \in Procs : writer = g <=> Writing(g)
  /\ \A g \in Procs : Writing(g) /\ pc[g] # "draining" => readers = {}

\* The handle through Load and Close.
Handles ==
  /\ \A g \in Procs : loader = g <=> Loading(g)
  /\ loader # None \/ handle = "none" => ~ shared
  /\ ~ shared => holds = {} /\ ~ finalizer
  /\ ptr <=> handle = "live"
  /\ handle # "undefined"
  /\ \A g \in Procs : Loading(g) =>
       handle = IF op[g] = "describe" \/ (pc[g] = "returned" /\ ~ Failed(g))
                THEN "live" ELSE "none"
  /\ \A g \in Procs : op[g] = "search" /\ pc[g] \in InC => ptr
  /\ \A g \in Procs : Writing(g) /\ pc[g] = "leaving" => ~ ptr

\* Who frees a live handle.
Closers ==
  handle = "live" /\ loader = None =>
    finalizer \/ (holds = {} /\ pc[Finalizer] # "idle" /\ op[Finalizer] = "close")

\* A goroutine keeps its thread from the call to the copy of the message.
Errors ==
  /\ \A g, h \in Procs : thread[g] = thread[h] /\ thread[g] # None => g = h
  /\ \A g \in Procs :
       /\ pc[g] \in InC \ {"calling"} => thread[g] # None
       /\ pc[g] \in {"waiting", "parked", "draining", "inside", "calling", "in_c"} => said[g] = None
       /\ pc[g] \in {"failed", "copying"} =>
            said[g] # None /\ lastError[thread[g]] = said[g]
       /\ pc[g] = "copying" => buffer[g] = thread[g]
       /\ pc[g] = "returned" => answer[g] = IF Failed(g) THEN Told(said[g]) ELSE "ok"

IInv == TypeOK /\ Places /\ Locks /\ Handles /\ Closers /\ Errors

\* Every step keeps the types.
LEMMA TypeOKStep == ASSUME IInv, [Next]_vars PROVE TypeOK'
<1> USE GoIndexAssumption DEF TypeOK, IInv, Procs, Goto, index, mutex, calls
<1>1. ASSUME NEW g \in Goroutines, Probe(g) PROVE TypeOK'
  BY <1>1 DEF Probe, Begin
<1>2. ASSUME NEW g \in Goroutines, Load(g) PROVE TypeOK'
  BY <1>2 DEF Load, Begin
<1>3. ASSUME NEW g \in Goroutines, Call(g) PROVE TypeOK'
  BY <1>3 DEF Call, Begin
<1>4. ASSUME NEW g \in Goroutines, Drop(g) PROVE TypeOK'
  BY <1>4 DEF Drop
<1>5. CASE Finalize
  BY <1>5 DEF Finalize, Begin
<1>6. ASSUME NEW g \in Procs, RLock(g) PROVE TypeOK'
  BY <1>6 DEF RLock
<1>7. ASSUME NEW g \in Procs, ClaimLock(g) PROVE TypeOK'
  BY <1>7 DEF ClaimLock
<1>8. ASSUME NEW g \in Procs, Lock(g) PROVE TypeOK'
  BY <1>8 DEF Lock
<1>9. ASSUME NEW g \in Procs, Unlock(g) PROVE TypeOK'
  BY <1>9 DEF Unlock
<1>10. ASSUME NEW g \in Procs, CheckOpen(g) PROVE TypeOK'
  BY <1>10 DEF CheckOpen, Answer
<1>11. ASSUME NEW g \in Procs, Free(g) PROVE TypeOK'
  BY <1>11 DEF Free, Answer, FreeC
<1>12. ASSUME NEW g \in Procs, EnterC(g) PROVE TypeOK'
  BY <1>12 DEF EnterC, Unused
<1>13. ASSUME NEW g \in Procs, LeaveC(g) PROVE TypeOK'
  <2>1. pc[g] = "in_c" /\ thread[g] \in Threads \cup {None}
    BY <1>13 DEF LeaveC
  <2>2. CASE ReturnsOk(g)
    BY <1>13, <2>1, <2>2 DEF LeaveC, ReturnsOk, Answer, Texts
  <2>3. CASE ReturnsError(g)
    <3>1. PICK m \in Texts : /\ lastError' = [lastError EXCEPT ![thread[g]] = m]
                            /\ said' = [said EXCEPT ![g] = m]
      BY <2>3 DEF ReturnsError
    <3>2. lastError' \in [Threads -> Texts] /\ said' \in [Procs -> Texts \cup {None}]
      BY <3>1
    <3> QED BY <1>13, <2>1, <2>3, <3>2 DEF LeaveC, ReturnsError
  <2> QED BY <1>13, <2>2, <2>3 DEF LeaveC
<1>14. ASSUME NEW g \in Procs, LastError(g) PROVE TypeOK'
  BY <1>14 DEF LastError
<1>15. ASSUME NEW g \in Procs, CopyError(g) PROVE TypeOK'
  <2>1. buffer[g] \in Threads
    BY <1>15 DEF CopyError, Errors, InC
  <2>2. Told(lastError[buffer[g]]) \in Messages \cup {"status"}
    BY <2>1 DEF Told, Texts
  <2>3. answer' \in [Procs -> Messages \cup {"none", "ok", "closed", "overflow", "status"}]
    BY <1>15, <2>2 DEF CopyError, Answer
  <2> QED BY <1>15, <2>3 DEF CopyError, Answer
<1>16. ASSUME NEW g \in Procs, Returned(g) PROVE TypeOK'
  BY <1>16 DEF Returned, Return
<1>17. ASSUME NEW g \in Procs, Loaded(g) PROVE TypeOK'
  BY <1>17 DEF Loaded, Return, Failed
<1>18. ASSUME NEW g \in Procs, Described(g) PROVE TypeOK'
  BY <1>18 DEF Described, Return, FreeC, Failed
<1>19. CASE UNCHANGED vars
  BY <1>19 DEF vars
<1> QED
  BY <1>1, <1>2, <1>3, <1>4, <1>5, <1>6, <1>7, <1>8, <1>9, <1>10, <1>11, <1>12, <1>13, <1>14, <1>15, <1>16, <1>17, <1>18, <1>19 DEF Next, Step

\* Every step leaves each operation at one of its places.
LEMMA PlacesStep == ASSUME IInv, [Next]_vars PROVE Places'
<1> USE GoIndexAssumption DEF IInv, TypeOK, Places, InC, Procs, Goto, index, mutex, calls
<1>1. ASSUME NEW g \in Goroutines, Probe(g) PROVE Places'
  BY <1>1 DEF Probe, Begin
<1>2. ASSUME NEW g \in Goroutines, Load(g) PROVE Places'
  BY <1>2 DEF Load, Begin
<1>3. ASSUME NEW g \in Goroutines, Call(g) PROVE Places'
  BY <1>3 DEF Call, Begin, Handles
<1>4. ASSUME NEW g \in Goroutines, Drop(g) PROVE Places'
  BY <1>4 DEF Drop
<1>5. CASE Finalize
  BY <1>5 DEF Finalize, Begin, Handles
<1>6. ASSUME NEW g \in Procs, RLock(g) PROVE Places'
  BY <1>6 DEF RLock
<1>7. ASSUME NEW g \in Procs, ClaimLock(g) PROVE Places'
  BY <1>7 DEF ClaimLock
<1>8. ASSUME NEW g \in Procs, Lock(g) PROVE Places'
  BY <1>8 DEF Lock
<1>9. ASSUME NEW g \in Procs, Unlock(g) PROVE Places'
  BY <1>9 DEF Unlock, Locks
<1>10. ASSUME NEW g \in Procs, CheckOpen(g) PROVE Places'
  BY <1>10 DEF CheckOpen, Answer
<1>11. ASSUME NEW g \in Procs, Free(g) PROVE Places'
  BY <1>11 DEF Free, Answer, FreeC
<1>12. ASSUME NEW g \in Procs, EnterC(g) PROVE Places'
  BY <1>12 DEF EnterC, Unused
<1>13. ASSUME NEW g \in Procs, LeaveC(g) PROVE Places'
  BY <1>13 DEF LeaveC, ReturnsOk, ReturnsError, Answer, Texts
<1>14. ASSUME NEW g \in Procs, LastError(g) PROVE Places'
  BY <1>14 DEF LastError
<1>15. ASSUME NEW g \in Procs, CopyError(g) PROVE Places'
  BY <1>15 DEF CopyError, Answer, Told, Texts
<1>16. ASSUME NEW g \in Procs, Returned(g) PROVE Places'
  BY <1>16 DEF Returned, Return
<1>17. ASSUME NEW g \in Procs, Loaded(g) PROVE Places'
  BY <1>17 DEF Loaded, Return, Failed
<1>18. ASSUME NEW g \in Procs, Described(g) PROVE Places'
  BY <1>18 DEF Described, Return, FreeC, Failed
<1>19. CASE UNCHANGED vars
  BY <1>19 DEF vars
<1> QED
  BY <1>1, <1>2, <1>3, <1>4, <1>5, <1>6, <1>7, <1>8, <1>9, <1>10, <1>11, <1>12, <1>13, <1>14, <1>15, <1>16, <1>17, <1>18, <1>19 DEF Next, Step

\* Every step keeps the lock what the places say.
LEMMA LocksStep == ASSUME IInv, [Next]_vars PROVE Locks'
<1> USE GoIndexAssumption DEF IInv, TypeOK, Places, Locks, Reading, Writing, InC, Procs, Goto, index, mutex, calls
<1>1. ASSUME NEW g \in Goroutines, Probe(g) PROVE Locks'
  BY <1>1 DEF Probe, Begin
<1>2. ASSUME NEW g \in Goroutines, Load(g) PROVE Locks'
  BY <1>2 DEF Load, Begin
<1>3. ASSUME NEW g \in Goroutines, Call(g) PROVE Locks'
  BY <1>3 DEF Call, Begin
<1>4. ASSUME NEW g \in Goroutines, Drop(g) PROVE Locks'
  BY <1>4 DEF Drop
<1>5. CASE Finalize
  BY <1>5 DEF Finalize, Begin
<1>6. ASSUME NEW g \in Procs, RLock(g) PROVE Locks'
  BY <1>6 DEF RLock
<1>7. ASSUME NEW g \in Procs, ClaimLock(g) PROVE Locks'
  BY <1>7 DEF ClaimLock
<1>8. ASSUME NEW g \in Procs, Lock(g) PROVE Locks'
  BY <1>8 DEF Lock
<1>9. ASSUME NEW g \in Procs, Unlock(g) PROVE Locks'
  BY <1>9 DEF Unlock
<1>10. ASSUME NEW g \in Procs, CheckOpen(g) PROVE Locks'
  BY <1>10 DEF CheckOpen, Answer
<1>11. ASSUME NEW g \in Procs, Free(g) PROVE Locks'
  BY <1>11 DEF Free, Answer, FreeC
<1>12. ASSUME NEW g \in Procs, EnterC(g) PROVE Locks'
  BY <1>12 DEF EnterC, Unused
<1>13. ASSUME NEW g \in Procs, LeaveC(g) PROVE Locks'
  BY <1>13 DEF LeaveC, ReturnsOk, ReturnsError, Answer, Texts
<1>14. ASSUME NEW g \in Procs, LastError(g) PROVE Locks'
  BY <1>14 DEF LastError
<1>15. ASSUME NEW g \in Procs, CopyError(g) PROVE Locks'
  BY <1>15 DEF CopyError, Answer, Told, Texts
<1>16. ASSUME NEW g \in Procs, Returned(g) PROVE Locks'
  BY <1>16 DEF Returned, Return
<1>17. ASSUME NEW g \in Procs, Loaded(g) PROVE Locks'
  BY <1>17 DEF Loaded, Return, Failed
<1>18. ASSUME NEW g \in Procs, Described(g) PROVE Locks'
  BY <1>18 DEF Described, Return, FreeC, Failed
<1>19. CASE UNCHANGED vars
  BY <1>19 DEF vars
<1> QED
  BY <1>1, <1>2, <1>3, <1>4, <1>5, <1>6, <1>7, <1>8, <1>9, <1>10, <1>11, <1>12, <1>13, <1>14, <1>15, <1>16, <1>17, <1>18, <1>19 DEF Next, Step

\* Every step keeps the handle what Load, Close and the searches need.
LEMMA HandlesStep == ASSUME IInv, [Next]_vars PROVE Handles'
<1> USE GoIndexAssumption DEF IInv, TypeOK, Places, Locks, Handles, Reading, Writing, Loading, InC, Failed, Procs, Goto, index, mutex, calls
<1>1. ASSUME NEW g \in Goroutines, Probe(g) PROVE Handles'
  BY <1>1 DEF Probe, Begin
<1>2. ASSUME NEW g \in Goroutines, Load(g) PROVE Handles'
  BY <1>2 DEF Load, Begin
<1>3. ASSUME NEW g \in Goroutines, Call(g) PROVE Handles'
  BY <1>3 DEF Call, Begin
<1>4. ASSUME NEW g \in Goroutines, Drop(g) PROVE Handles'
  BY <1>4 DEF Drop
<1>5. CASE Finalize
  BY <1>5 DEF Finalize, Begin
<1>6. ASSUME NEW g \in Procs, RLock(g) PROVE Handles'
  BY <1>6 DEF RLock
<1>7. ASSUME NEW g \in Procs, ClaimLock(g) PROVE Handles'
  BY <1>7 DEF ClaimLock
<1>8. ASSUME NEW g \in Procs, Lock(g) PROVE Handles'
  BY <1>8 DEF Lock
<1>9. ASSUME NEW g \in Procs, Unlock(g) PROVE Handles'
  BY <1>9 DEF Unlock
<1>10. ASSUME NEW g \in Procs, CheckOpen(g) PROVE Handles'
  BY <1>10 DEF CheckOpen, Answer
<1>11. ASSUME NEW g \in Procs, Free(g) PROVE Handles'
  BY <1>11 DEF Free, Answer, FreeC
<1>12. ASSUME NEW g \in Procs, EnterC(g) PROVE Handles'
  BY <1>12 DEF EnterC, Unused
<1>13. ASSUME NEW g \in Procs, LeaveC(g) PROVE Handles'
  <2>1. CASE ReturnsOk(g)
    <3>1. /\ pc' = [pc EXCEPT ![g] = "returned"] /\ pc[g] = "in_c" /\ said[g] = None
          /\ UNCHANGED <<shared, loader, holds, finalizer, readers, writer, op, said>>
      BY <1>13, <2>1 DEF LeaveC, ReturnsOk, Answer, Errors
    <3>2. CASE op[g] = "load"
      <4>1. handle = "none" /\ loader = g /\ handle' = "live" /\ ptr' = TRUE
        BY <2>1, <3>1, <3>2 DEF ReturnsOk
      <4> QED BY <3>1, <3>2, <4>1
    <3>3. CASE op[g] # "load"
      <4>1. handle' = handle /\ ptr' = ptr
        BY <2>1, <3>3 DEF ReturnsOk
      <4> QED BY <3>1, <3>3, <4>1
    <3> QED BY <3>2, <3>3
  <2>2. CASE ReturnsError(g)
    BY <1>13, <2>2 DEF LeaveC, ReturnsError, Errors
  <2> QED BY <1>13, <2>1, <2>2 DEF LeaveC
<1>14. ASSUME NEW g \in Procs, LastError(g) PROVE Handles'
  BY <1>14 DEF LastError
<1>15. ASSUME NEW g \in Procs, CopyError(g) PROVE Handles'
  BY <1>15 DEF CopyError, Answer, Errors
<1>16. ASSUME NEW g \in Procs, Returned(g) PROVE Handles'
  BY <1>16 DEF Returned, Return
<1>17. ASSUME NEW g \in Procs, Loaded(g) PROVE Handles'
  BY <1>17 DEF Loaded, Return, Failed
<1>18. ASSUME NEW g \in Procs, Described(g) PROVE Handles'
  BY <1>18 DEF Described, Return, FreeC, Failed
<1>19. CASE UNCHANGED vars
  BY <1>19 DEF vars
<1> QED
  BY <1>1, <1>2, <1>3, <1>4, <1>5, <1>6, <1>7, <1>8, <1>9, <1>10, <1>11, <1>12, <1>13, <1>14, <1>15, <1>16, <1>17, <1>18, <1>19 DEF Next, Step

\* Every step leaves a live handle somebody who frees it.
LEMMA ClosersStep == ASSUME IInv, [Next]_vars PROVE Closers'
<1> USE GoIndexAssumption DEF IInv, TypeOK, Places, Handles, Closers, Loading, Writing, InC, Procs, Goto, index, mutex, calls
<1>1. ASSUME NEW g \in Goroutines, Probe(g) PROVE Closers'
  BY <1>1 DEF Probe, Begin
<1>2. ASSUME NEW g \in Goroutines, Load(g) PROVE Closers'
  BY <1>2 DEF Load, Begin
<1>3. ASSUME NEW g \in Goroutines, Call(g) PROVE Closers'
  BY <1>3 DEF Call, Begin
<1>4. ASSUME NEW g \in Goroutines, Drop(g) PROVE Closers'
  BY <1>4 DEF Drop
<1>5. CASE Finalize
  BY <1>5 DEF Finalize, Begin
<1>6. ASSUME NEW g \in Procs, RLock(g) PROVE Closers'
  BY <1>6 DEF RLock
<1>7. ASSUME NEW g \in Procs, ClaimLock(g) PROVE Closers'
  BY <1>7 DEF ClaimLock
<1>8. ASSUME NEW g \in Procs, Lock(g) PROVE Closers'
  BY <1>8 DEF Lock
<1>9. ASSUME NEW g \in Procs, Unlock(g) PROVE Closers'
  BY <1>9 DEF Unlock
<1>10. ASSUME NEW g \in Procs, CheckOpen(g) PROVE Closers'
  BY <1>10 DEF CheckOpen, Answer
<1>11. ASSUME NEW g \in Procs, Free(g) PROVE Closers'
  BY <1>11 DEF Free, Answer, FreeC
<1>12. ASSUME NEW g \in Procs, EnterC(g) PROVE Closers'
  BY <1>12 DEF EnterC, Unused
<1>13. ASSUME NEW g \in Procs, LeaveC(g) PROVE Closers'
  BY <1>13 DEF LeaveC, ReturnsOk, ReturnsError, Answer, Texts
<1>14. ASSUME NEW g \in Procs, LastError(g) PROVE Closers'
  BY <1>14 DEF LastError
<1>15. ASSUME NEW g \in Procs, CopyError(g) PROVE Closers'
  BY <1>15 DEF CopyError, Answer, Told, Texts
<1>16. ASSUME NEW g \in Procs, Returned(g) PROVE Closers'
  BY <1>16 DEF Returned, Return
<1>17. ASSUME NEW g \in Procs, Loaded(g) PROVE Closers'
  BY <1>17 DEF Loaded, Return, Failed
<1>18. ASSUME NEW g \in Procs, Described(g) PROVE Closers'
  BY <1>18 DEF Described, Return, FreeC, Failed
<1>19. CASE UNCHANGED vars
  BY <1>19 DEF vars
<1> QED
  BY <1>1, <1>2, <1>3, <1>4, <1>5, <1>6, <1>7, <1>8, <1>9, <1>10, <1>11, <1>12, <1>13, <1>14, <1>15, <1>16, <1>17, <1>18, <1>19 DEF Next, Step

\* Every step leaves each goroutine its own message.
LEMMA ErrorsStep == ASSUME IInv, [Next]_vars PROVE Errors'
<1> USE GoIndexAssumption DEF IInv, TypeOK, Errors, InC, Failed, Procs, Goto, Told, Texts, index, mutex, calls
<1>1. ASSUME NEW g \in Goroutines, Probe(g) PROVE Errors'
  BY <1>1 DEF Probe, Begin
<1>2. ASSUME NEW g \in Goroutines, Load(g) PROVE Errors'
  BY <1>2 DEF Load, Begin
<1>3. ASSUME NEW g \in Goroutines, Call(g) PROVE Errors'
  BY <1>3 DEF Call, Begin
<1>4. ASSUME NEW g \in Goroutines, Drop(g) PROVE Errors'
  BY <1>4 DEF Drop
<1>5. CASE Finalize
  BY <1>5 DEF Finalize, Begin
<1>6. ASSUME NEW g \in Procs, RLock(g) PROVE Errors'
  BY <1>6 DEF RLock
<1>7. ASSUME NEW g \in Procs, ClaimLock(g) PROVE Errors'
  BY <1>7 DEF ClaimLock
<1>8. ASSUME NEW g \in Procs, Lock(g) PROVE Errors'
  BY <1>8 DEF Lock
<1>9. ASSUME NEW g \in Procs, Unlock(g) PROVE Errors'
  BY <1>9 DEF Unlock, Locks
<1>10. ASSUME NEW g \in Procs, CheckOpen(g) PROVE Errors'
  BY <1>10 DEF CheckOpen, Answer
<1>11. ASSUME NEW g \in Procs, Free(g) PROVE Errors'
  BY <1>11 DEF Free, Answer, FreeC
<1>12. ASSUME NEW g \in Procs, EnterC(g) PROVE Errors'
  BY <1>12 DEF EnterC, Unused
<1>13. ASSUME NEW g \in Procs, LeaveC(g) PROVE Errors'
  BY <1>13 DEF LeaveC, ReturnsOk, ReturnsError, Answer, Texts
<1>14. ASSUME NEW g \in Procs, LastError(g) PROVE Errors'
  BY <1>14 DEF LastError
<1>15. ASSUME NEW g \in Procs, CopyError(g) PROVE Errors'
  BY <1>15 DEF CopyError, Answer, Told, Texts
<1>16. ASSUME NEW g \in Procs, Returned(g) PROVE Errors'
  BY <1>16 DEF Returned, Return
<1>17. ASSUME NEW g \in Procs, Loaded(g) PROVE Errors'
  BY <1>17 DEF Loaded, Return, Failed
<1>18. ASSUME NEW g \in Procs, Described(g) PROVE Errors'
  BY <1>18 DEF Described, Return, FreeC, Failed
<1>19. CASE UNCHANGED vars
  BY <1>19 DEF vars
<1> QED
  BY <1>1, <1>2, <1>3, <1>4, <1>5, <1>6, <1>7, <1>8, <1>9, <1>10, <1>11, <1>12, <1>13, <1>14, <1>15, <1>16, <1>17, <1>18, <1>19 DEF Next, Step

\* The inductive invariant holds in every reachable state.
THEOREM InductiveInvariant == Spec => []IInv
<1>1. Init => IInv
  <2> SUFFICES ASSUME Init PROVE IInv
    OBVIOUS
  <2> USE GoIndexAssumption DEF Init, InC, Procs
  <2>1. TypeOK BY DEF TypeOK, Texts
  <2>2. Places BY DEF Places
  <2>3. Locks BY DEF Locks, Reading, Writing
  <2>4. Handles BY DEF Handles, Loading, Writing
  <2>5. Closers BY DEF Closers
  <2>6. Errors BY DEF Errors
  <2> QED BY <2>1, <2>2, <2>3, <2>4, <2>5, <2>6 DEF IInv
<1>2. IInv /\ [Next]_vars => IInv'
  BY TypeOKStep, PlacesStep, LocksStep, HandlesStep, ClosersStep, ErrorsStep DEF IInv
<1> QED BY <1>1, <1>2, PTL DEF Spec

\* Type correctness of the Index, its lock and its callers.
THEOREM TypeCorrect == Spec => []TypeOK
<1>1. IInv => TypeOK
  BY DEF IInv
<1> QED BY <1>1, InductiveInvariant, PTL

\* Every step of the binding is a step of HandleLife or leaves it alone.
LEMMA StepRefines ==
  ASSUME IInv, [Next]_vars
  PROVE  [Life!Next]_(Life!vars)
<1> USE GoIndexAssumption DEF IInv, TypeOK, using, Procs, Goto, index, mutex, calls
<1> DEFINE Quiet == UNCHANGED <<handle, using>>
<1>1. ASSUME NEW g \in Goroutines, Probe(g) \/ Load(g) \/ Call(g) \/ Drop(g) PROVE Quiet
  BY <1>1 DEF Probe, Load, Call, Drop, Begin
<1>2. ASSUME Finalize PROVE Quiet
  BY <1>2 DEF Finalize, Begin
<1>3. ASSUME NEW g \in Procs, RLock(g) \/ ClaimLock(g) \/ Lock(g) PROVE Quiet
  BY <1>3 DEF RLock, ClaimLock, Lock
<1>4. ASSUME NEW g \in Procs, Unlock(g) PROVE Quiet
  BY <1>4 DEF Unlock, Locks
<1>5. ASSUME NEW g \in Procs, CheckOpen(g) PROVE Quiet
  BY <1>5 DEF CheckOpen, Answer
<1>6. ASSUME NEW g \in Procs, LastError(g) \/ CopyError(g) \/ Returned(g) \/ Loaded(g) PROVE Quiet
  BY <1>6 DEF LastError, CopyError, Returned, Loaded, Return, Answer
<1>7. ASSUME NEW g \in Procs, EnterC(g) PROVE Quiet \/ Life!Enter(g)
  <2>1. CASE op[g] \in {"search", "describe"}
    <3>1. handle = "live"
      BY <1>7, <2>1 DEF EnterC, Handles, Loading, InC
    <3>2. g \notin using /\ using' = using \cup {g} /\ UNCHANGED handle
      BY <1>7, <2>1 DEF EnterC
    <3> QED BY <3>1, <3>2 DEF Life!Enter
  <2>2. CASE op[g] \notin {"search", "describe"}
    BY <1>7, <2>2 DEF EnterC
  <2> QED BY <2>1, <2>2
<1>8. ASSUME NEW g \in Procs, LeaveC(g) PROVE Quiet \/ Life!Leave(g) \/ Life!Load
  <2>1. /\ pc[g] = "in_c" /\ UNCHANGED op
        /\ pc' = [pc EXCEPT ![g] = "returned"] \/ pc' = [pc EXCEPT ![g] = "failed"]
    BY <1>8 DEF LeaveC, ReturnsOk, ReturnsError, Answer
  <2>2. CASE op[g] \in {"search", "describe"}
    <3>1. g \in using /\ using' = using \ {g}
      BY <2>1, <2>2
    <3>2. UNCHANGED handle
      BY <1>8, <2>2 DEF LeaveC, ReturnsOk, ReturnsError
    <3> QED BY <3>1, <3>2 DEF Life!Leave
  <2>3. CASE op[g] \notin {"search", "describe"}
    <3>1. UNCHANGED using
      BY <2>1, <2>3
    <3>2. UNCHANGED handle \/ (op[g] = "load" /\ handle' = "live")
      BY <1>8 DEF LeaveC, ReturnsOk, ReturnsError
    <3>3. op[g] = "load" => handle = "none"
      BY <2>1 DEF Handles, Loading, InC
    <3> QED BY <3>1, <3>2, <3>3 DEF Life!Load
  <2> QED BY <2>2, <2>3
<1>9. ASSUME NEW g \in Procs, Free(g) PROVE Quiet \/ Life!Free
  <2>1. UNCHANGED using
    BY <1>9 DEF Free, Answer
  <2>2. readers = {} /\ shared
    BY <1>9 DEF Free, Locks, Writing, Places
  <2>3. using = {}
    <3> SUFFICES ASSUME NEW h \in Procs, h \in using PROVE FALSE
      OBVIOUS
    <3>1. op[h] # "search"
      BY <2>2 DEF Locks, Reading, InC
    <3>2. op[h] # "describe"
      BY <2>2 DEF Handles, Loading, InC
    <3> QED BY <3>1, <3>2
  <2>4. UNCHANGED handle \/ (ptr /\ handle' = IF handle = "live" THEN "freed" ELSE "undefined")
    BY <1>9 DEF Free, FreeC
  <2>5. ptr => handle = "live"
    BY DEF Handles
  <2> QED BY <2>1, <2>3, <2>4, <2>5 DEF Life!Free
<1>10. ASSUME NEW g \in Procs, Described(g) PROVE Quiet \/ Life!Free
  <2>1. UNCHANGED using /\ pc[g] = "returned" /\ op[g] = "describe"
    BY <1>10 DEF Described, Return
  <2>2. loader = g /\ ~ shared /\ handle = "live"
    BY <2>1 DEF Handles, Loading, InC
  <2>3. using = {}
    <3> SUFFICES ASSUME NEW h \in Procs, h \in using PROVE FALSE
      OBVIOUS
    <3>1. op[h] # "search"
      BY <2>2 DEF Places
    <3>2. op[h] # "describe"
      BY <2>1, <2>2 DEF Handles, Loading, InC
    <3> QED BY <3>1, <3>2
  <2>4. UNCHANGED handle \/ handle' = "freed"
    BY <1>10, <2>2 DEF Described, FreeC
  <2> QED BY <2>1, <2>2, <2>3, <2>4 DEF Life!Free
<1>11. ASSUME UNCHANGED vars PROVE Quiet
  BY <1>11 DEF vars
<1>12. Quiet => UNCHANGED Life!vars
  BY DEF Life!vars
<1> HIDE DEF Quiet, using
<1>13. Quiet \/ Life!Next
  BY <1>1, <1>2, <1>3, <1>4, <1>5, <1>6, <1>7, <1>8, <1>9, <1>10, <1>11
     DEF Next, Step, Life!Next
<1> QED BY <1>12, <1>13

\* The binding is a client the C interface allows: the handle is used only
\* while it is live, and freed once, with no call under way.
THEOREM HandleIsSafe == Spec => HandleSafe
<1>1. Init => Life!Init
  BY DEF Init, Life!Init, using
<1>2. IInv /\ [Next]_vars => [Life!Next]_(Life!vars)
  BY StepRefines
<1> QED BY <1>1, <1>2, InductiveInvariant, PTL DEF Spec, HandleSafe, Life!Spec

\* Every caller gets the error of its own call, whatever runs on which thread.
THEOREM ErrorsAreOwn == Spec => []ErrorIsOwn
<1>1. IInv => ErrorIsOwn
  BY DEF IInv, Errors, ErrorIsOwn
<1> QED BY <1>1, InductiveInvariant, PTL

\* No live handle is left without somebody that will free it.
THEOREM NothingLeaks == Spec => []NotLeaked
<1>1. IInv => NotLeaked
  BY DEF IInv, Handles, Closers, NotLeaked
<1> QED BY <1>1, InductiveInvariant, PTL
=============================================================================
