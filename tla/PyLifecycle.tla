----------------------------- MODULE PyLifecycle -----------------------------
(***************************************************************************)
(* The ordering of initialize and shutdown in the Python binding           *)
(* (bindings/python/src/manager.rs, Lifecycle): calls that time out or     *)
(* whose awaitable is cancelled, the tasks they leave running, the lock    *)
(* guard those tasks carry, and the two flags.                             *)
(*                                                                         *)
(* The policy engine is external.  Its initialize starts the plugins, and  *)
(* stops what it started when it fails; its shutdown stops them.  Either   *)
(* may take any time, and may panic with plugins left running.             *)
(***************************************************************************)
EXTENDS Naturals, FiniteSets

CONSTANTS
    Inits,      \* calls of initialize()
    Stops,      \* calls of shutdown()
    Nobody,     \* the lock is free
    MaxPanics   \* bound on the panics of the engine

ASSUME CallsAssumption == Inits \cap Stops = {} /\ Nobody \notin Inits \cup Stops
ASSUME PanicsAssumption == MaxPanics \in Nat

Calls == Inits \cup Stops

VARIABLES
    call,       \* control point of each call, as the Python caller sees it
    result,     \* what a returned call reported
    task,       \* the spawned task that drives the engine for a call
    rollback,   \* the task that undoes an initialize that timed out
    lock,       \* the call whose task, or whose task's output, has the guard
    started,    \* shutdown_started
    down,       \* shut_down
    plugins,    \* plugins the engine has running
    panics

callVars == <<call, result>>
flagVars == <<started, down>>
vars == <<callVars, task, rollback, lock, flagVars, plugins, panics>>

Init ==
    /\ call = [c \in Calls |-> "idle"]
    /\ result = [c \in Calls |-> "none"]
    /\ task = [c \in Calls |-> "none"]
    /\ rollback = [i \in Inits |-> "none"]
    /\ lock = Nobody
    /\ started = FALSE /\ down = FALSE
    /\ plugins = "none"
    /\ panics = 0

Return(c, outcome) ==
    /\ call' = [call EXCEPT ![c] = "returned"]
    /\ result' = [result EXCEPT ![c] = outcome]

-----------------------------------------------------------------------------
(* initialize *)

\* ensure_live, on the caller's thread.
InitRefused(i) ==
    /\ call[i] = "idle"
    /\ started
    /\ Return(i, "refused")
    /\ UNCHANGED <<task, rollback, lock, flagVars, plugins, panics>>

InitCalled(i) ==
    /\ call[i] = "idle"
    /\ ~started
    /\ call' = [call EXCEPT ![i] = "locking"]
    /\ UNCHANGED <<result, task, rollback, lock, flagVars, plugins, panics>>

\* timeout() polls the lock first, so one that is free wins.
InitLockTimeout(i) ==
    /\ call[i] = "locking"
    /\ lock # Nobody
    /\ Return(i, "timeout")
    /\ UNCHANGED <<task, rollback, lock, flagVars, plugins, panics>>

\* The flag is read again under the lock.
InitLateRefusal(i) ==
    /\ call[i] = "locking"
    /\ lock = Nobody
    /\ started
    /\ Return(i, "refused")
    /\ UNCHANGED <<task, rollback, lock, flagVars, plugins, panics>>

\* Mutated form: the flag is not read again under the lock.
InitStartsUnchecked(i) ==
    /\ call[i] = "locking"
    /\ lock = Nobody
    /\ lock' = i
    /\ task' = [task EXCEPT ![i] = "running"]
    /\ call' = [call EXCEPT ![i] = "awaiting"]
    /\ UNCHANGED <<result, rollback, flagVars, plugins, panics>>

InitStarts(i) ==
    /\ call[i] = "locking"
    /\ lock = Nobody
    /\ ~started
    /\ lock' = i
    /\ task' = [task EXCEPT ![i] = "running"]
    /\ call' = [call EXCEPT ![i] = "awaiting"]
    /\ UNCHANGED <<result, rollback, flagVars, plugins, panics>>

\* The task's output holds the guard until somebody takes it; with the
\* awaitable gone nobody will, and the guard is dropped with it.
Keeps(i) == call[i] = "awaiting" \/ rollback[i] = "joining"

InitTaskEnds(i) ==
    /\ i \in Inits /\ task[i] = "running"
    /\ \/ task' = [task EXCEPT ![i] = "ok"] /\ plugins' = "running"
       \/ task' = [task EXCEPT ![i] = "error"] /\ plugins' = "none"
    /\ lock' = IF Keeps(i) THEN lock ELSE Nobody
    /\ UNCHANGED <<callVars, rollback, flagVars, panics>>

InitTaskPanics(i) ==
    /\ i \in Inits /\ task[i] = "running"
    /\ panics < MaxPanics
    /\ panics' = panics + 1
    /\ task' = [task EXCEPT ![i] = "panicked"]
    /\ plugins' \in {plugins, "running"}
    /\ lock' = Nobody
    /\ UNCHANGED <<callVars, rollback, flagVars>>

InitReturns(i) ==
    /\ i \in Inits /\ call[i] = "awaiting"
    /\ task[i] \in {"ok", "error", "panicked"}
    /\ Return(i, task[i])
    /\ lock' = IF task[i] = "panicked" THEN lock ELSE Nobody
    /\ UNCHANGED <<task, rollback, flagVars, plugins, panics>>

\* Mutated form: the timed-out call takes the guard along.
InitTimesOutUnlocks(i) ==
    /\ i \in Inits /\ call[i] = "awaiting"
    /\ task[i] = "running"
    /\ Return(i, "timeout")
    /\ started' = TRUE
    /\ rollback' = [rollback EXCEPT ![i] = "joining"]
    /\ lock' = Nobody
    /\ UNCHANGED <<task, down, plugins, panics>>

\* The engine is terminal from here on; the task keeps running.
InitTimesOut(i) ==
    /\ i \in Inits /\ call[i] = "awaiting"
    /\ task[i] = "running"
    /\ Return(i, "timeout")
    /\ started' = TRUE
    /\ rollback' = [rollback EXCEPT ![i] = "joining"]
    /\ UNCHANGED <<task, lock, down, plugins, panics>>

\* The awaitable is dropped; a finished task's output goes with it.
InitCancelled(i) ==
    /\ i \in Inits /\ call[i] \in {"locking", "awaiting"}
    /\ call' = [call EXCEPT ![i] = "cancelled"]
    /\ lock' = IF task[i] \in {"ok", "error"} THEN Nobody ELSE lock
    /\ UNCHANGED <<result, task, rollback, flagVars, plugins, panics>>

RollbackStarts(i) ==
    /\ rollback[i] = "joining"
    /\ task[i] \in {"ok", "error"}
    /\ rollback' = [rollback EXCEPT ![i] = "stopping"]
    /\ UNCHANGED <<callVars, task, lock, flagVars, plugins, panics>>

\* The joined task panicked: nothing is rolled back.
RollbackSkipped(i) ==
    /\ rollback[i] = "joining"
    /\ task[i] = "panicked"
    /\ rollback' = [rollback EXCEPT ![i] = "over"]
    /\ UNCHANGED <<callVars, task, lock, flagVars, plugins, panics>>

RollbackEnds(i) ==
    /\ rollback[i] = "stopping"
    /\ rollback' = [rollback EXCEPT ![i] = "over"]
    /\ plugins' = "none"
    /\ down' = TRUE
    /\ lock' = Nobody
    /\ UNCHANGED <<callVars, task, started, panics>>

RollbackPanics(i) ==
    /\ rollback[i] = "stopping"
    /\ panics < MaxPanics
    /\ panics' = panics + 1
    /\ rollback' = [rollback EXCEPT ![i] = "over"]
    /\ lock' = Nobody
    /\ UNCHANGED <<callVars, task, flagVars, plugins>>

-----------------------------------------------------------------------------
(* shutdown *)

\* Mutated form: the shutdown runs in the awaitable and is dropped with it.
ShutdownCancelledDropsTask(s) ==
    /\ s \in Stops /\ call[s] = "awaiting"
    /\ call' = [call EXCEPT ![s] = "cancelled"]
    /\ task' = [task EXCEPT ![s] = IF @ = "queued" THEN "none" ELSE @]
    /\ UNCHANGED <<result, rollback, lock, flagVars, plugins, panics>>

\* start_shutdown: the flag and the task come before the awaitable.
ShutdownCalled(s) ==
    /\ s \in Stops /\ call[s] = "idle"
    /\ started' = TRUE
    /\ task' = [task EXCEPT ![s] = "queued"]
    /\ call' = [call EXCEPT ![s] = "awaiting"]
    /\ UNCHANGED <<result, rollback, lock, down, plugins, panics>>

ShutdownNoop(s) ==
    /\ s \in Stops /\ task[s] = "queued"
    /\ lock = Nobody
    /\ down
    /\ task' = [task EXCEPT ![s] = "ok"]
    /\ UNCHANGED <<callVars, rollback, lock, flagVars, plugins, panics>>

ShutdownStarts(s) ==
    /\ s \in Stops /\ task[s] = "queued"
    /\ lock = Nobody
    /\ ~down
    /\ lock' = s
    /\ task' = [task EXCEPT ![s] = "running"]
    /\ UNCHANGED <<callVars, rollback, flagVars, plugins, panics>>

ShutdownTaskEnds(s) ==
    /\ s \in Stops /\ task[s] = "running"
    /\ task' = [task EXCEPT ![s] = "ok"]
    /\ plugins' = "none"
    /\ down' = TRUE
    /\ lock' = Nobody
    /\ UNCHANGED <<callVars, rollback, started, panics>>

ShutdownTaskPanics(s) ==
    /\ s \in Stops /\ task[s] = "running"
    /\ panics < MaxPanics
    /\ panics' = panics + 1
    /\ task' = [task EXCEPT ![s] = "panicked"]
    /\ lock' = Nobody
    /\ UNCHANGED <<callVars, rollback, flagVars, plugins>>

\* await_shutdown
ShutdownReturns(s) ==
    /\ s \in Stops /\ call[s] = "awaiting"
    /\ task[s] \in {"ok", "panicked"}
    /\ Return(s, task[s])
    /\ UNCHANGED <<task, rollback, lock, flagVars, plugins, panics>>

\* Mutated form: only a shutdown that has the lock is timed.
ShutdownTimesOutRunning(s) ==
    /\ s \in Stops /\ call[s] = "awaiting"
    /\ task[s] = "running"
    /\ Return(s, "timeout")
    /\ UNCHANGED <<task, rollback, lock, flagVars, plugins, panics>>

ShutdownTimesOut(s) ==
    /\ s \in Stops /\ call[s] = "awaiting"
    /\ task[s] \in {"queued", "running"}
    /\ Return(s, "timeout")
    /\ UNCHANGED <<task, rollback, lock, flagVars, plugins, panics>>

ShutdownCancelled(s) ==
    /\ s \in Stops /\ call[s] = "awaiting"
    /\ call' = [call EXCEPT ![s] = "cancelled"]
    /\ UNCHANGED <<result, task, rollback, lock, flagVars, plugins, panics>>

-----------------------------------------------------------------------------

\* What the runtime goes on with by itself: timers, wake-ups, joined tasks.
InitStep(i) ==
    \/ InitLockTimeout(i) \/ InitLateRefusal(i) \/ InitStarts(i)
    \/ InitReturns(i) \/ InitTimesOut(i)

RollbackStep(i) == RollbackStarts(i) \/ RollbackSkipped(i)

ShutdownStep(s) == ShutdownNoop(s) \/ ShutdownStarts(s)

ShutdownWait(s) == ShutdownReturns(s) \/ ShutdownTimesOut(s)

Next ==
    \/ \E i \in Inits :
          \/ InitRefused(i) \/ InitCalled(i) \/ InitStep(i) \/ InitCancelled(i)
          \/ InitTaskEnds(i) \/ InitTaskPanics(i)
          \/ RollbackStep(i) \/ RollbackEnds(i) \/ RollbackPanics(i)
    \/ \E s \in Stops :
          \/ ShutdownCalled(s) \/ ShutdownStep(s)
          \/ ShutdownTaskEnds(s) \/ ShutdownTaskPanics(s)
          \/ ShutdownWait(s) \/ ShutdownCancelled(s)

Spec == Init /\ [][Next]_vars

\* tokio polls ready tasks, fires timers and grants its mutex in turn.  Nothing
\* is assumed of the engine: a call into it may hang.
Fairness ==
    /\ \A i \in Inits : WF_vars(InitStep(i)) /\ WF_vars(RollbackStep(i))
    /\ \A s \in Stops : SF_vars(ShutdownStep(s)) /\ WF_vars(ShutdownWait(s))

FairSpec == Spec /\ Fairness

-----------------------------------------------------------------------------
(* Properties *)

\* Types of the calls, the tasks and the flags.
TypeOK ==
    /\ call \in [Calls -> {"idle", "locking", "awaiting", "returned", "cancelled"}]
    /\ result \in [Calls -> {"none", "ok", "error", "panicked", "refused", "timeout"}]
    /\ task \in [Calls -> {"none", "queued", "running", "ok", "error", "panicked"}]
    /\ rollback \in [Inits -> {"none", "joining", "stopping", "over"}]
    /\ lock \in Calls \cup {Nobody}
    /\ started \in BOOLEAN /\ down \in BOOLEAN
    /\ plugins \in {"none", "running"}
    /\ panics \in 0..MaxPanics

\* The calls into the engine that have not come back.
InEngine == {c \in Calls : task[c] = "running"} \cup {i \in Inits : rollback[i] = "stopping"}

\* "so a concurrent shutdown() waits for it rather than running beside it":
\* initialize, its rollback and shutdown never run in the engine together,
\* whoever timed out or was cancelled in between.
OneEngineCall == Cardinality(InEngine) <= 1

\* Terminal: once shut_down is set no plugin runs, and none is started again,
\* not even by an initialize that was waiting for the lock meanwhile.
DownMeansStopped == down => plugins = "none" /\ InEngine = {}

\* A shutdown() that reports success left nothing running.
OkMeansStopped == \A s \in Stops : result[s] = "ok" => down

\* A guard is never lost with a call that gave up: the lock is held only while
\* a task runs, or while its output or a rollback has an owner to take it.
GuardHasOwner ==
    lock # Nobody =>
        \/ task[lock] = "running"
        \/ lock \in Inits /\ task[lock] \in {"ok", "error"}
             /\ (call[lock] = "awaiting" \/ rollback[lock] \in {"joining", "stopping"})

\* Every initialize() and shutdown() whose awaitable is kept comes back, even
\* when the engine hangs.
EveryCallReturns ==
    \A c \in Calls : call[c] \in {"locking", "awaiting"} ~> call[c] \in {"returned", "cancelled"}

EngineAnswers ==
    \A c \in Calls : []<>(c \notin InEngine)

\* Once shutdown() was called an engine that answers is stopped, though the
\* caller timed out or dropped the awaitable; unless the engine panics.
ShutdownHappens ==
    EngineAnswers => \A s \in Stops : call[s] = "awaiting" ~> down \/ panics > 0

-----------------------------------------------------------------------------
(* What the engine sees of the binding, for SerialEngine. *)

Starting == {i \in Inits : task[i] = "running"}

Stopping ==
    {s \in Stops : task[s] = "running"} \cup {i \in Inits : rollback[i] = "stopping"}

Contract == INSTANCE SerialEngine WITH
    Callers <- Calls,
    starters <- Starting,
    stoppers <- Stopping,
    closing <- started,
    over <- down,
    running <- plugins = "running"

\* "waits for it rather than running beside it", "the engine is terminal from
\* the moment the timeout fires": initialize, its rollback and shutdown enter
\* the engine one at a time, whoever timed out or was cancelled in between;
\* nothing is started once its end was asked for, nothing is stopped before,
\* and after a stop that came back nobody enters it again.
ImplementsEngine == Contract!Engine
=============================================================================
