------------------------------ MODULE GoIndex -------------------------------
(***************************************************************************)
(* The Go binding (src/ordvec-go/ordvec.go): goroutines share an Index, an *)
(* RWMutex around one C handle.  The C library keeps the message of its    *)
(* last error for each OS thread (src/ordvec-ffi/src/lib.rs), while the Go *)
(* scheduler moves a goroutine from one thread to another unless it is     *)
(* locked to it.  The garbage collector closes an Index that nobody can    *)
(* reach any more.                                                         *)
(***************************************************************************)
EXTENDS Naturals

CONSTANTS
  Goroutines,
  Finalizer,   \* the goroutine that runs finalizers
  Threads,     \* OS threads
  Messages,    \* messages of errors
  NoMessage,   \* the empty message
  None         \* no goroutine, no thread

Procs == Goroutines \cup {Finalizer}

ASSUME GoIndexAssumption ==
  /\ Finalizer \notin Goroutines /\ None \notin Procs /\ None \notin Threads
  /\ NoMessage \notin Messages /\ None \notin Messages \cup {NoMessage}

VARIABLES
  handle,      \* the C handle: "none", "live", "freed", or "undefined" behaviour
  ptr,         \* is Index.ptr other than nil?
  shared,      \* has Load returned the Index?
  loader,      \* the goroutine that loads it, or None
  holds,       \* the goroutines that can reach the Index
  finalizer,   \* is a finalizer set?
  readers, parked, writer,   \* RWMutex: readers inside, readers waiting, the writer
  pc, op,      \* where each goroutine is, in which operation
  thread,      \* the thread it is locked to
  said,        \* history: the message its last C call ended with, or None
  buffer,      \* the thread whose last error it holds a pointer to
  answer,      \* what its operation returns
  lastError    \* LAST_ERROR of each thread

index == <<handle, ptr, shared, loader, holds, finalizer>>
mutex == <<readers, parked, writer>>
calls == <<thread, said, buffer, answer>>
vars  == <<index, mutex, pc, op, calls, lastError>>

Texts == Messages \cup {NoMessage}
Told(message) == IF message = NoMessage THEN "status" ELSE message

Init ==
  /\ handle = "none" /\ ptr = FALSE /\ shared = FALSE /\ loader = None
  /\ holds = {} /\ finalizer = FALSE
  /\ readers = {} /\ parked = {} /\ writer = None
  /\ pc = [g \in Procs |-> "idle"] /\ op = [g \in Procs |-> "none"]
  /\ thread = [g \in Procs |-> None] /\ said = [g \in Procs |-> None]
  /\ buffer = [g \in Procs |-> None] /\ answer = [g \in Procs |-> "none"]
  /\ lastError = [t \in Threads |-> NoMessage]

Goto(g, to) == pc' = [pc EXCEPT ![g] = to]

-----------------------------------------------------------------------------
(* The operations begin.                                                   *)

Begin(g, o, at) ==
  /\ pc[g] = "idle"
  /\ op' = [op EXCEPT ![g] = o] /\ Goto(g, at)
  /\ said' = [said EXCEPT ![g] = None] /\ answer' = [answer EXCEPT ![g] = "none"]
  /\ UNCHANGED <<handle, ptr, shared, mutex, thread, buffer, lastError>>

\* Probe needs no Index.
Probe(g) ==
  /\ Begin(g, "probe", "calling")
  /\ UNCHANGED <<loader, holds, finalizer>>

Load(g) ==
  /\ handle = "none" /\ loader = None
  /\ Begin(g, "load", "calling") /\ loader' = g
  /\ UNCHANGED <<holds, finalizer>>

Call(g) ==
  /\ g \in holds
  /\ \E o \in {"search", "info", "close"} : Begin(g, o, "waiting")
  /\ UNCHANGED <<loader, holds, finalizer>>

\* The garbage collector finds that nobody can reach the Index, which the
\* KeepAlive of a method and its deferred unlock rule out while one runs.
Finalize ==
  /\ finalizer /\ holds = {} /\ finalizer' = FALSE
  /\ Begin(Finalizer, "close", "waiting")
  /\ UNCHANGED <<loader, holds>>

\* A goroutine forgets the Index.
Drop(g) ==
  /\ g \in holds /\ pc[g] = "idle" /\ holds' = holds \ {g}
  /\ UNCHANGED <<handle, ptr, shared, loader, finalizer, mutex, pc, op, calls, lastError>>

-----------------------------------------------------------------------------
(* sync.RWMutex: a writer keeps new readers out, and when it leaves lets   *)
(* those in that have waited for it.                                       *)

RLock(g) ==
  /\ pc[g] = "waiting" /\ op[g] \in {"search", "info"}
  /\ IF writer = None
     THEN readers' = readers \cup {g} /\ Goto(g, "inside") /\ UNCHANGED parked
     ELSE parked' = parked \cup {g} /\ Goto(g, "parked") /\ UNCHANGED readers
  /\ UNCHANGED <<index, writer, op, calls, lastError>>

ClaimLock(g) ==
  /\ pc[g] = "waiting" /\ op[g] = "close" /\ writer = None
  /\ writer' = g /\ Goto(g, "draining")
  /\ UNCHANGED <<index, readers, parked, op, calls, lastError>>

\* Mutant: the readers are not waited for.
LockUndrained(g) ==
  /\ pc[g] = "draining"
  /\ Goto(g, "inside")
  /\ UNCHANGED <<index, mutex, op, calls, lastError>>

Lock(g) ==
  /\ pc[g] = "draining" /\ readers = {}
  /\ Goto(g, "inside")
  /\ UNCHANGED <<index, mutex, op, calls, lastError>>

\* The deferred unlocks.
Unlock(g) ==
  /\ pc[g] = "leaving"
  /\ IF op[g] = "close"
     THEN /\ writer' = None /\ readers' = parked /\ parked' = {}
          /\ pc' = [h \in Procs |-> IF h = g THEN "idle"
                                    ELSE IF h \in parked THEN "inside" ELSE pc[h]]
     ELSE /\ readers' = readers \ {g}
          /\ Goto(g, "idle") /\ UNCHANGED <<parked, writer>>
  /\ UNCHANGED <<index, op, calls, lastError>>

-----------------------------------------------------------------------------
(* Inside the lock.                                                        *)

Answer(g, a, to) == answer' = [answer EXCEPT ![g] = a] /\ Goto(g, to)

\* Mutant: a method that finds the Index closed tries again.
CheckOpenRetrying(g) ==
  /\ pc[g] = "inside" /\ op[g] \in {"search", "info"}
  /\ IF ptr THEN Answer(g, "ok", IF op[g] = "info" THEN "leaving" ELSE "calling") /\ UNCHANGED readers
     ELSE readers' = readers \ {g} /\ Goto(g, "waiting") /\ UNCHANGED answer
  /\ UNCHANGED <<index, parked, writer, op, thread, said, buffer, lastError>>

\* Search and Info; a search may also find that it asks for too many hits.
CheckOpen(g) ==
  /\ pc[g] = "inside" /\ op[g] \in {"search", "info"}
  /\ \/ ~ ptr /\ Answer(g, "closed", "leaving")
     \/ ptr /\ op[g] = "info" /\ Answer(g, "ok", "leaving")
     \/ ptr /\ op[g] = "search" /\ Answer(g, "overflow", "leaving")
     \/ ptr /\ op[g] = "search" /\ Goto(g, "calling") /\ UNCHANGED answer
  /\ UNCHANGED <<index, mutex, op, thread, said, buffer, lastError>>

\* ordvec_index_free; to free a handle twice is undefined.
FreeC == handle' = IF handle = "live" THEN "freed" ELSE "undefined"

\* Close.
Free(g) ==
  /\ pc[g] = "inside" /\ op[g] = "close"
  /\ IF ptr
     THEN FreeC /\ ptr' = FALSE /\ finalizer' = FALSE
     ELSE UNCHANGED <<handle, ptr, finalizer>>
  /\ Answer(g, "ok", "leaving")
  /\ UNCHANGED <<shared, loader, holds, mutex, op, thread, said, buffer, lastError>>

-----------------------------------------------------------------------------
(* callStatus.                                                             *)

Unused(t) == \A h \in Procs : thread[h] # t

\* LockOSThread, and the C function is entered.
EnterC(g) ==
  /\ pc[g] = "calling"
  /\ \E t \in Threads : Unused(t) /\ thread' = [thread EXCEPT ![g] = t]
  /\ Goto(g, "in_c")
  /\ UNCHANGED <<index, mutex, op, said, buffer, answer, lastError>>

\* The C function returns through ffi_boundary.
ReturnsOk(g) ==
  /\ lastError' = [lastError EXCEPT ![thread[g]] = NoMessage]
  /\ Answer(g, "ok", "returned")
  /\ handle' = IF op[g] = "load" THEN "live" ELSE handle
  /\ ptr' = (ptr \/ op[g] = "load")
  /\ UNCHANGED said

ReturnsError(g) ==
  /\ \E m \in Texts : /\ lastError' = [lastError EXCEPT ![thread[g]] = m]
                      /\ said' = [said EXCEPT ![g] = m]
  /\ Goto(g, "failed")
  /\ UNCHANGED <<handle, ptr, answer>>

LeaveC(g) ==
  /\ pc[g] = "in_c"
  /\ ReturnsOk(g) \/ ReturnsError(g)
  /\ UNCHANGED <<shared, loader, holds, finalizer, mutex, op, thread, buffer>>

\* Mutant: the goroutine may have moved to another thread.
LastErrorAnywhere(g) ==
  /\ pc[g] = "failed"
  /\ \E t \in Threads : /\ \A h \in Procs \ {g} : thread[h] # t
                        /\ buffer' = [buffer EXCEPT ![g] = t]
  /\ Goto(g, "copying")
  /\ UNCHANGED <<index, mutex, op, thread, said, answer, lastError>>

\* ordvec_last_error returns a pointer to what its thread has.
LastError(g) ==
  /\ pc[g] = "failed"
  /\ buffer' = [buffer EXCEPT ![g] = thread[g]]
  /\ Goto(g, "copying")
  /\ UNCHANGED <<index, mutex, op, thread, said, answer, lastError>>

\* C.GoString copies it, and an empty text is replaced by the status's name.
CopyError(g) ==
  /\ pc[g] = "copying"
  /\ Answer(g, Told(lastError[buffer[g]]), "returned")
  /\ UNCHANGED <<index, mutex, op, thread, said, buffer, lastError>>

Failed(g) == said[g] # None

\* UnlockOSThread, and what the caller of callStatus does next.
Return(g, o) ==
  /\ pc[g] = "returned" /\ op[g] = o
  /\ thread' = [thread EXCEPT ![g] = None] /\ buffer' = [buffer EXCEPT ![g] = None]
  /\ UNCHANGED <<mutex, said, answer, lastError>>

Returned(g) ==
  /\ \/ Return(g, "search") /\ Goto(g, "leaving")
     \/ Return(g, "probe") /\ Goto(g, "idle")
  /\ UNCHANGED <<index, op>>

\* Load goes on with infoLocked.
Loaded(g) ==
  /\ Return(g, "load")
  /\ IF Failed(g) THEN loader' = None /\ Goto(g, "idle") /\ UNCHANGED op
     ELSE op' = [op EXCEPT ![g] = "describe"] /\ Goto(g, "calling") /\ UNCHANGED loader
  /\ UNCHANGED <<handle, ptr, shared, holds, finalizer>>

\* Mutant: Load forgets the handle of an Index it cannot describe.
DescribedLeaking(g) ==
  /\ Return(g, "describe") /\ Goto(g, "idle") /\ loader' = None
  /\ IF Failed(g)
     THEN ptr' = FALSE /\ UNCHANGED <<handle, shared, finalizer, holds>>
     ELSE shared' = TRUE /\ finalizer' = TRUE /\ holds' = Goroutines /\ UNCHANGED <<handle, ptr>>
  /\ UNCHANGED op

\* Mutant: what the finalizer refers to keeps the Index reachable.
DescribedPinned(g) ==
  /\ Return(g, "describe") /\ Goto(g, "idle") /\ loader' = None
  /\ IF Failed(g)
     THEN FreeC /\ ptr' = FALSE /\ UNCHANGED <<shared, finalizer, holds>>
     ELSE shared' = TRUE /\ finalizer' = TRUE /\ holds' = Procs /\ UNCHANGED <<handle, ptr>>
  /\ UNCHANGED op

\* Load frees the handle again, or returns the Index, which is then shared.
Described(g) ==
  /\ Return(g, "describe") /\ Goto(g, "idle") /\ loader' = None
  /\ IF Failed(g)
     THEN FreeC /\ ptr' = FALSE /\ UNCHANGED <<shared, finalizer, holds>>
     ELSE shared' = TRUE /\ finalizer' = TRUE /\ holds' = Goroutines /\ UNCHANGED <<handle, ptr>>
  /\ UNCHANGED op

-----------------------------------------------------------------------------

Step(g) ==
  \/ RLock(g) \/ ClaimLock(g) \/ Lock(g) \/ Unlock(g) \/ CheckOpen(g) \/ Free(g)
  \/ EnterC(g) \/ LeaveC(g) \/ LastError(g) \/ CopyError(g)
  \/ Returned(g) \/ Loaded(g) \/ Described(g)

Next ==
  \/ \E g \in Goroutines : Probe(g) \/ Load(g) \/ Call(g) \/ Drop(g)
  \/ Finalize
  \/ \E g \in Procs : Step(g)

Spec == Init /\ [][Next]_vars

\* Goroutines are scheduled, the C functions return, and a goroutine that
\* waits for the writers' mutex gets it (its starvation mode is a queue).
Fairness == \A g \in Procs : WF_vars(Step(g)) /\ SF_vars(ClaimLock(g))

FairSpec == Spec /\ Fairness

-----------------------------------------------------------------------------
(* Properties.                                                             *)

TypeOK ==
  /\ handle \in {"none", "live", "freed", "undefined"} /\ ptr \in BOOLEAN /\ shared \in BOOLEAN
  /\ loader \in Goroutines \cup {None} /\ holds \subseteq Goroutines /\ finalizer \in BOOLEAN
  /\ readers \subseteq Procs /\ parked \subseteq Procs /\ writer \in Procs \cup {None}
  /\ pc \in [Procs -> {"idle", "waiting", "parked", "draining", "inside", "leaving",
                       "calling", "in_c", "failed", "copying", "returned"}]
  /\ op \in [Procs -> {"none", "probe", "load", "describe", "search", "info", "close"}]
  /\ thread \in [Procs -> Threads \cup {None}]
  /\ said \in [Procs -> Texts \cup {None}]
  /\ buffer \in [Procs -> Threads \cup {None}]
  /\ answer \in [Procs -> Messages \cup {"none", "ok", "closed", "overflow", "status"}]
  /\ lastError \in [Threads -> Texts]

\* The goroutines inside a C function that uses the handle.
using == {g \in Procs : pc[g] = "in_c" /\ op[g] \in {"search", "describe"}}

\* The binding keeps what the C interface demands: no call uses the handle
\* before it is loaded or after it is freed, and it is freed once, with no call
\* under way, however searches, Close and the finalizer interleave.
Life == INSTANCE HandleLife WITH Users <- Procs, handle <- handle, using <- using
HandleSafe == Life!Spec

\* The error a caller gets is that of its own call, never one of another
\* goroutine's, of an earlier call or of freed storage (callStatus locks the
\* thread between the call and the copy).
ErrorIsOwn ==
  \A g \in Procs : pc[g] = "returned" =>
    answer[g] = IF Failed(g) THEN Told(said[g]) ELSE "ok"

\* A live handle always has somebody that will free it: its loader, a Close
\* under way, a goroutine that can still call Close, or the finalizer.
NotLeaked ==
  handle = "live" =>
    \/ loader # None
    \/ ptr /\ (holds # {} => finalizer) /\ (holds = {} => finalizer \/ pc[Finalizer] # "idle")

\* Every operation returns, a Close among searches and a search among Closes.
CallsReturn == \A g \in Procs : pc[g] # "idle" ~> pc[g] = "idle"
=============================================================================
