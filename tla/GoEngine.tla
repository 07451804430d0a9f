------------------------------ MODULE GoEngine ------------------------------
(***************************************************************************)
(* The Go binding (go/cpex/engine.go) over the C interface                 *)
(* (crates/cpex-ffi/src/lib.rs): who owns the boxes that cross the         *)
(* boundary.  Goroutines share one PolicyEngine.  Operations hold the read *)
(* half of its RWMutex across the cgo call; Shutdown and the finalizer     *)
(* hold the write half while they free the engine.  An invoke consumes the *)
(* context table it is given and hands back a fresh table and a box of     *)
(* background tasks, which Wait consumes and Close frees.                  *)
(*                                                                         *)
(* A box is named by the number of the invoke that returned it and the     *)
(* name is never reused, so a handle to a freed box stays recognisable.    *)
(* 0 is the null handle.                                                   *)
(***************************************************************************)
EXTENDS Naturals, FiniteSets

CONSTANTS
  Goroutines,     \* the goroutines that share the engine
  MaxBoxes        \* bound: invokes that return a context table

ASSUME GoAssumption ==
  /\ MaxBoxes \in Nat
  /\ 0 \notin Goroutines

VARIABLES
  handle,      \* PolicyEngine.handle is non-nil
  engine,      \* the CpexEngineInner box: "live" or "freed"
  frees,       \* how often cpex_shutdown consumed the engine box
  finalizer,       \* the engine's finalizer is set
  refs,        \* goroutines that still reference the PolicyEngine
  readers,     \* RWMutex: goroutines that hold the read half
  writer,      \* RWMutex: the announced or holding writer, 0 if none
  pc,          \* where each goroutine is in its call
  ct, bg,      \* ContextTable.handle and BackgroundTasks.handle of each one
  ctOut, bgOut, \* the out parameters of the invoke under way
  tables,      \* context tables that are allocated
  tasks,       \* background-task boxes that are allocated
  made,        \* how many context tables and task boxes were allocated
  dropped,     \* history: boxes of results that did not decode
  abandoned    \* history: task boxes that Wait gave up after Shutdown

lockVars == <<readers, writer>>
engineVars == <<handle, engine, frees, finalizer, refs>>
boxVars == <<ct, bg, ctOut, bgOut, tables, tasks, made>>
lost == <<dropped, abandoned>>
vars == <<engineVars, lockVars, pc, boxVars, lost>>

\* NewPolicyEngine has returned: a live box, its finalizer set.
Init ==
  /\ handle = "open" /\ engine = "live" /\ frees = 0 /\ finalizer = "set"
  /\ refs = Goroutines
  /\ readers = {} /\ writer = 0
  /\ pc = [g \in Goroutines |-> "idle"]
  /\ ct = [g \in Goroutines |-> 0]
  /\ bg = [g \in Goroutines |-> 0]
  /\ ctOut = [g \in Goroutines |-> 0]
  /\ bgOut = [g \in Goroutines |-> 0]
  /\ tables = {} /\ tasks = {}
  /\ made = 0 /\ dropped = {} /\ abandoned = {}

Goto(g, point) == pc' = [pc EXCEPT ![g] = point]

-----------------------------------------------------------------------------
(* The RWMutex of package sync: an announced writer keeps new readers out, *)
(* and holds the lock once the readers it found have left.                 *)

RLock(g) == writer = 0 /\ readers' = readers \union {g} /\ UNCHANGED writer

RUnlock(g) == readers' = readers \ {g} /\ UNCHANGED writer

-----------------------------------------------------------------------------
(* Every operation starts by asking for the lock.                          *)

\* A caller settles the background tasks of one invoke before the next.
InvokeStart(g) ==
  /\ pc[g] = "idle" /\ g \in refs /\ bg[g] = 0 /\ made < MaxBoxes
  /\ Goto(g, "invoke_lock")
  /\ UNCHANGED <<engineVars, lockVars, boxVars, lost>>

QueryStart(g) ==
  /\ pc[g] = "idle" /\ g \in refs
  /\ Goto(g, "query_lock")
  /\ UNCHANGED <<engineVars, lockVars, boxVars, lost>>

\* bg.handle == nil returns at once.
WaitStart(g) ==
  /\ pc[g] = "idle" /\ g \in refs /\ bg[g] # 0
  /\ Goto(g, "wait_lock")
  /\ UNCHANGED <<engineVars, lockVars, boxVars, lost>>

ShutdownStart(g) ==
  /\ pc[g] = "idle" /\ g \in refs
  /\ Goto(g, "shut_lock")
  /\ UNCHANGED <<engineVars, lockVars, boxVars, lost>>

-----------------------------------------------------------------------------
(* Queries and setup: RegisterFactories, LoadConfig, Initialize,           *)
(* HasHooksFor, PluginCount, IsInitialized, PluginNames, EnableAPL.        *)

QueryEnters(g) ==
  /\ pc[g] = "query_lock" /\ RLock(g) /\ handle = "open"
  /\ Goto(g, "query_rust")
  /\ UNCHANGED <<engineVars, boxVars, lost>>

QueryRefused(g) ==
  /\ pc[g] = "query_lock" /\ writer = 0 /\ handle = "nil"
  /\ Goto(g, "idle")
  /\ UNCHANGED <<engineVars, lockVars, boxVars, lost>>

QueryReturns(g) ==
  /\ pc[g] = "query_rust" /\ RUnlock(g)
  /\ Goto(g, "idle")
  /\ UNCHANGED <<engineVars, boxVars, lost>>

-----------------------------------------------------------------------------
(* InvokeByName and InvokeResolved.                                        *)

InvokeEnters(g) ==
  /\ pc[g] = "invoke_lock" /\ RLock(g) /\ handle = "open"
  /\ Goto(g, "invoke_go")
  /\ UNCHANGED <<engineVars, boxVars, lost>>

InvokeRefused(g) ==
  /\ pc[g] = "invoke_lock" /\ writer = 0 /\ handle = "nil"
  /\ Goto(g, "idle")
  /\ UNCHANGED <<engineVars, lockVars, boxVars, lost>>

\* The payload or the extensions do not marshal: the table is untouched.
InvokeMarshalFails(g) ==
  /\ pc[g] = "invoke_go" /\ RUnlock(g)
  /\ Goto(g, "idle")
  /\ UNCHANGED <<engineVars, boxVars, lost>>

\* Mutant: a validation error returns before Rust takes the table over.
InvokeCallsConsumesLate(g) ==
  /\ pc[g] = "invoke_go"
  /\ ct' = [ct EXCEPT ![g] = 0]
  /\ tables' \in {tables, tables \ {ct[g]}}
  /\ Goto(g, "invoke_rust")
  /\ UNCHANGED <<engineVars, lockVars, bg, ctOut, bgOut, tasks, made, lost>>

\* Go clears the caller's handle, Rust clears the out parameters and takes
\* the table over before any check that can fail.
InvokeCalls(g) ==
  /\ pc[g] = "invoke_go"
  /\ ct' = [ct EXCEPT ![g] = 0]
  /\ tables' = tables \ {ct[g]}
  /\ Goto(g, "invoke_rust")
  /\ UNCHANGED <<engineVars, lockVars, bg, ctOut, bgOut, tasks, made, lost>>

\* Mutant: the error path returns without the deferred RUnlock.
InvokeErrorsLocked(g) ==
  /\ pc[g] = "invoke_rust"
  /\ Goto(g, "idle")
  /\ UNCHANGED <<engineVars, lockVars, boxVars, lost>>

\* Any non-zero code: rejected input, timeout, panic, serialization.
InvokeErrors(g) ==
  /\ pc[g] = "invoke_rust" /\ RUnlock(g)
  /\ Goto(g, "idle")
  /\ UNCHANGED <<engineVars, boxVars, lost>>

\* The pipeline ran: a fresh table and a box of background tasks.
InvokeSucceeds(g) ==
  /\ pc[g] = "invoke_rust" /\ made < MaxBoxes
  /\ made' = made + 1
  /\ ctOut' = [ctOut EXCEPT ![g] = made']
  /\ bgOut' = [bgOut EXCEPT ![g] = made']
  /\ tables' = tables \union {made'}
  /\ tasks' = tasks \union {made'}
  /\ Goto(g, "invoke_ok")
  /\ UNCHANGED <<engineVars, lockVars, ct, bg, lost>>

\* identity.resolve denied: a fresh table and no background tasks.
InvokeDenied(g) ==
  /\ pc[g] = "invoke_rust" /\ made < MaxBoxes
  /\ made' = made + 1
  /\ ctOut' = [ctOut EXCEPT ![g] = made']
  /\ tables' = tables \union {made'}
  /\ Goto(g, "invoke_ok")
  /\ UNCHANGED <<engineVars, lockVars, ct, bg, bgOut, tasks, lost>>

InvokeWraps(g) ==
  /\ pc[g] = "invoke_ok" /\ RUnlock(g)
  /\ ct' = [ct EXCEPT ![g] = ctOut[g]]
  /\ bg' = [bg EXCEPT ![g] = bgOut[g]]
  /\ ctOut' = [ctOut EXCEPT ![g] = 0]
  /\ bgOut' = [bgOut EXCEPT ![g] = 0]
  /\ Goto(g, "idle")
  /\ UNCHANGED <<engineVars, tables, tasks, made, lost>>

\* The result does not decode: the out handles are dropped, not freed.
InvokeDecodeFails(g) ==
  /\ pc[g] = "invoke_ok" /\ RUnlock(g)
  /\ dropped' = dropped \union {ctOut[g]}
  /\ ctOut' = [ctOut EXCEPT ![g] = 0]
  /\ bgOut' = [bgOut EXCEPT ![g] = 0]
  /\ Goto(g, "idle")
  /\ UNCHANGED <<engineVars, ct, bg, tables, tasks, made, abandoned>>

-----------------------------------------------------------------------------
(* BackgroundTasks.Wait and the two Close methods.                         *)

\* Mutant: Wait checks the engine without holding the lock.
WaitCallsUnlocked(g) ==
  /\ pc[g] = "wait_lock" /\ handle = "open"
  /\ tasks' = tasks \ {bg[g]}
  /\ Goto(g, "wait_rust")
  /\ UNCHANGED <<engineVars, lockVars, ct, bg, ctOut, bgOut, tables, made, lost>>

\* Rust takes the box over; the Go handle is cleared when the call returns.
WaitCalls(g) ==
  /\ pc[g] = "wait_lock" /\ RLock(g) /\ handle = "open"
  /\ tasks' = tasks \ {bg[g]}
  /\ Goto(g, "wait_rust")
  /\ UNCHANGED <<engineVars, ct, bg, ctOut, bgOut, tables, made, lost>>

\* The engine is gone: the handle is cleared and Rust is not called.
WaitRefused(g) ==
  /\ pc[g] = "wait_lock" /\ writer = 0 /\ handle = "nil"
  /\ abandoned' = abandoned \union {bg[g]}
  /\ bg' = [bg EXCEPT ![g] = 0]
  /\ Goto(g, "idle")
  /\ UNCHANGED <<engineVars, lockVars, ct, ctOut, bgOut, tables, tasks, made, dropped>>

WaitReturns(g) ==
  /\ pc[g] = "wait_rust" /\ RUnlock(g)
  /\ bg' = [bg EXCEPT ![g] = 0]
  /\ Goto(g, "idle")
  /\ UNCHANGED <<engineVars, ct, ctOut, bgOut, tables, tasks, made, lost>>

CloseBackground(g) ==
  /\ pc[g] = "idle" /\ bg[g] # 0
  /\ tasks' = tasks \ {bg[g]}
  /\ bg' = [bg EXCEPT ![g] = 0]
  /\ UNCHANGED <<engineVars, lockVars, pc, ct, ctOut, bgOut, tables, made, lost>>

\* Called by the owner, or by the table's finalizer once it is unreachable.
CloseContext(g) ==
  /\ pc[g] = "idle" /\ ct[g] # 0
  /\ tables' = tables \ {ct[g]}
  /\ ct' = [ct EXCEPT ![g] = 0]
  /\ UNCHANGED <<engineVars, lockVars, pc, bg, ctOut, bgOut, tasks, made, lost>>

-----------------------------------------------------------------------------
(* Shutdown and the finalizer.                                             *)

ShutdownAnnounces(g) ==
  /\ pc[g] = "shut_lock" /\ writer = 0
  /\ writer' = g
  /\ Goto(g, "shut_wait")
  /\ UNCHANGED <<engineVars, readers, boxVars, lost>>

\* The finalizer is cleared first; cpex_shutdown then owns the box.
ShutdownCalls(g) ==
  /\ pc[g] = "shut_wait" /\ readers = {} /\ handle = "open"
  /\ finalizer' = "none" /\ frees' = frees + 1 /\ engine' = "freed"
  /\ Goto(g, "shut_rust")
  /\ UNCHANGED <<handle, refs, lockVars, boxVars, lost>>

ShutdownNoop(g) ==
  /\ pc[g] = "shut_wait" /\ readers = {} /\ handle = "nil"
  /\ writer' = 0
  /\ Goto(g, "idle")
  /\ UNCHANGED <<engineVars, readers, boxVars, lost>>

\* cpex_shutdown returns, also after a timeout or a plugin's panic.
ShutdownReturns(g) ==
  /\ pc[g] = "shut_rust"
  /\ handle' = "nil"
  /\ writer' = 0
  /\ Goto(g, "idle")
  /\ UNCHANGED <<engine, frees, finalizer, refs, readers, boxVars, lost>>

\* A goroutine lets go of the engine, its background tasks settled.
Drop(g) ==
  /\ pc[g] = "idle" /\ g \in refs /\ bg[g] = 0
  /\ refs' = refs \ {g}
  /\ UNCHANGED <<handle, engine, frees, finalizer, lockVars, pc, boxVars, lost>>

\* finalizeEngine, once nothing references the engine.
FinalizeEngine ==
  /\ refs = {} /\ finalizer = "set" /\ handle = "open"
  /\ handle' = "nil" /\ finalizer' = "none"
  /\ frees' = frees + 1 /\ engine' = "freed"
  /\ UNCHANGED <<refs, lockVars, pc, boxVars, lost>>

-----------------------------------------------------------------------------

Start(g) ==
  \/ InvokeStart(g) \/ QueryStart(g) \/ WaitStart(g) \/ ShutdownStart(g)
  \/ CloseBackground(g) \/ CloseContext(g) \/ Drop(g)

InCall(g) ==
  \/ QueryEnters(g) \/ QueryRefused(g) \/ QueryReturns(g)
  \/ InvokeEnters(g) \/ InvokeRefused(g) \/ InvokeMarshalFails(g)
  \/ InvokeCalls(g) \/ InvokeErrors(g) \/ InvokeSucceeds(g)
  \/ InvokeDenied(g) \/ InvokeWraps(g) \/ InvokeDecodeFails(g)
  \/ WaitCalls(g) \/ WaitRefused(g) \/ WaitReturns(g)
  \/ ShutdownAnnounces(g) \/ ShutdownCalls(g) \/ ShutdownNoop(g)
  \/ ShutdownReturns(g)

Next == FinalizeEngine \/ \E g \in Goroutines : Start(g) \/ InCall(g)

Spec == Init /\ [][Next]_vars

\* A call that is under way goes on: run_safely bounds what Rust waits for,
\* and sync.RWMutex lets a blocked reader in between two writers.
Fairness == \A g \in Goroutines : SF_vars(InCall(g))

FairSpec == Spec /\ Fairness

-----------------------------------------------------------------------------

Points == {"idle", "query_lock", "query_rust", "invoke_lock", "invoke_go",
           "invoke_rust", "invoke_ok", "wait_lock", "wait_rust",
           "shut_lock", "shut_wait", "shut_rust"}

TypeOK ==
  /\ handle \in {"open", "nil"} /\ finalizer \in {"set", "none"}
  /\ engine \in {"live", "freed"}
  /\ frees \in Nat
  /\ refs \subseteq Goroutines
  /\ readers \subseteq Goroutines
  /\ writer \in Goroutines \union {0}
  /\ pc \in [Goroutines -> Points]
  /\ ct \in [Goroutines -> Nat] /\ bg \in [Goroutines -> Nat]
  /\ ctOut \in [Goroutines -> Nat] /\ bgOut \in [Goroutines -> Nat]
  /\ tables \subseteq Nat /\ tasks \subseteq Nat
  /\ made \in Nat /\ dropped \subseteq Nat /\ abandoned \subseteq Nat

\* Points at which a goroutine is inside a call that uses the engine box.
InEngine == {"query_rust", "invoke_go", "invoke_rust", "invoke_ok",
             "wait_rust"}

\* No call is inside the engine box once Shutdown or the finalizer has
\* handed it to cpex_shutdown ("the C handle can't be freed while a cgo call
\* is mid-flight").
NoUseAfterFree == \A g \in Goroutines : pc[g] \in InEngine => engine = "live"

\* However Shutdown calls and the finalizer race, the engine box is consumed
\* at most once, and never while the binding would still hand it out.
FreedOnce ==
  /\ frees <= 1
  /\ (frees = 1 /\ \A g \in Goroutines : pc[g] # "shut_rust") => handle = "nil"

\* A Go handle that is not nil names a box that is allocated, which no other
\* handle names: no error path of an invoke leaves a handle to a consumed
\* table.  Only inside Wait is the handle cleared after Rust took the box.
HandlesAreOwned ==
  /\ \A g \in Goroutines :
       /\ ct[g] # 0 => ct[g] \in tables
       /\ bg[g] # 0 /\ pc[g] # "wait_rust" => bg[g] \in tasks
  /\ \A g, h \in Goroutines : g # h =>
       /\ ct[g] # 0 => ct[g] # ct[h]
       /\ bg[g] # 0 => bg[g] # bg[h]

\* An allocated context table or task box is always somebody's, a handle of
\* the binding or an out parameter of a call under way, on every path but
\* two: the handles of a result that does not decode are dropped, and a Wait
\* that finds the engine shut down abandons its box.
BoxesNeverLeak ==
  /\ \A t \in tables \ dropped : \E g \in Goroutines : t = ct[g] \/ t = ctOut[g]
  /\ \A t \in tasks \ (dropped \union abandoned) :
       \E g \in Goroutines : t = bg[g] \/ t = bgOut[g]
  /\ abandoned # {} => handle = "nil"

\* Every call on the engine returns, Shutdown behind a slow invoke and an
\* invoke behind a Shutdown included.
EveryCallReturns == \A g \in Goroutines : pc[g] # "idle" ~> pc[g] = "idle"

(***************************************************************************)
(* "so we must not call into Rust without a live engine -- the box would   *)
(* leak" (BackgroundTasks.Wait): by not calling, no box leaks; a task box  *)
(* of a result that decoded is always somebody's.                          *)
(***************************************************************************)
TasksNeverLeak ==
  \A t \in tasks \ dropped : \E g \in Goroutines : t = bg[g] \/ t = bgOut[g]
=============================================================================
