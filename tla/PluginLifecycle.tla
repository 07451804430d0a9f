--------------------------- MODULE PluginLifecycle ---------------------------
(***************************************************************************)
(* One isolated Python plugin (cpex-hosts-python, plugin.rs): initialize   *)
(* and shutdown called by the engine, hook invocations that find the       *)
(* worker dead and replace it, and the bounded respawn budget.             *)
(*                                                                         *)
(* Callers run concurrently with the lifecycle calls, which the engine     *)
(* serializes among themselves.  Workers are numbered in launch order; one *)
(* is running while its process has not exited and somebody holds its Arc  *)
(* (the child is spawned with kill_on_drop).                               *)
(***************************************************************************)
EXTENDS Naturals, FiniteSets

CONSTANTS
    Callers,      \* concurrent hook invocations, each repeated forever
    Features,     \* wire features a worker.py may implement
    Required,     \* required_worker_features() of this plugin
    CmfHook,      \* the plugin declares a cmf.* hook, and is invoked on it
    NoCaller,     \* nobody holds the respawn mutex
    MaxAttempts,  \* MAX_RESPAWN_ATTEMPTS
    Window,       \* RESPAWN_BUDGET_RESET_SECS, in clock ticks
    MaxWorkers,   \* bound: workers launched
    MaxInits,     \* bound: initialize() calls
    MaxAnswers,   \* bound: completed round trips noted before a further one
    MaxClock      \* bound: clock ticks

ASSUME CallersAssumption == NoCaller \notin Callers
ASSUME FeaturesAssumption == Required \subseteq Features /\ CmfHook \in BOOLEAN
ASSUME BudgetAssumption == MaxAttempts \in Nat /\ Window \in Nat \ {0}
ASSUME BoundsAssumption ==
    MaxWorkers \in Nat /\ MaxInits \in Nat /\ MaxAnswers \in Nat /\ MaxClock \in Nat

VARIABLES
    slot,        \* the worker slot: a worker, or NoWorker
    shutDown,    \* the shut_down flag
    engine,      \* control point of the engine's lifecycle call
    fresh,       \* the worker that call holds
    inits,       \* initialize() calls made
    pc,          \* control point of each caller
    held,        \* the worker each caller holds
    mutex,       \* holder of the respawn mutex
    attempts,    \* RespawnState.attempts
    windowStart, \* RespawnState.window_started; 0 for None
    clock,       \* time, from 1
    born,        \* workers launched so far
    exited,      \* workers whose process exited
    dead,        \* workers whose is_alive() is FALSE
    taken,       \* workers whose child a WorkerClient::shutdown took
    feat,        \* what each worker's worker.py implements
    reported,    \* the handshake report: {} while unset, {features} once set
    retried,     \* workers whose probe retry was claimed
    descent,     \* history: the initialize() each worker goes back to
    reserved,    \* history: respawn attempts reserved
    answered,    \* history: completed round trips that were noted
    expiries     \* history: budget windows that elapsed

engineVars == <<slot, shutDown, engine, fresh, inits>>
callerVars == <<pc, held, mutex>>
budgetVars == <<attempts, windowStart, reserved, expiries>>
workerVars == <<born, exited, dead, taken, feat, reported, retried, descent>>
vars == <<engineVars, callerVars, budgetVars, workerVars, clock, answered>>

NoWorker == 0
Workers == 1..MaxWorkers

\* Who still has an Arc of a worker.
Referenced == ({slot, fresh} \cup {held[i] : i \in Callers}) \ {NoWorker}

Running(w) == w \in Referenced /\ w \notin exited

Init ==
    /\ slot = NoWorker /\ shutDown = FALSE
    /\ engine = "off" /\ fresh = NoWorker /\ inits = 0
    /\ pc = [i \in Callers |-> "idle"]
    /\ held = [i \in Callers |-> NoWorker]
    /\ mutex = NoCaller
    /\ attempts = 0 /\ windowStart = 0 /\ clock = 1
    /\ born = 0 /\ exited = {} /\ dead = {} /\ taken = {} /\ retried = {}
    /\ feat = [w \in Workers |-> {}]
    /\ reported = [w \in Workers |-> {}]
    /\ descent = [w \in Workers |-> 0]
    /\ reserved = 0 /\ answered = 0 /\ expiries = 0

-----------------------------------------------------------------------------
(* launch_worker and the capability handshake *)

\* A process was spawned, for initialize() number d or to replace a worker
\* that goes back to it: from a venv that may hold any worker.py.
Launch(d) ==
    /\ born < MaxWorkers
    /\ born' = born + 1
    /\ \E fs \in SUBSET Features : feat' = [feat EXCEPT ![born + 1] = fs]
    /\ descent' = [descent EXCEPT ![born + 1] = d]
    /\ UNCHANGED <<exited, dead, taken, reported, retried>>

\* capabilities(): a worker that answered is recorded with its features, one
\* that answered with an error with none; OnceLock keeps the first report.
\* A probe that got no answer records nothing.
ProbeAnswers(w) ==
    /\ w \notin exited /\ w \notin dead
    /\ \E fs \in {feat[w], {}} :
          reported' = [reported EXCEPT ![w] = IF @ = {} THEN {fs} ELSE @]
    /\ UNCHANGED <<born, exited, dead, taken, feat, retried, descent>>

\* Whether verify_worker_understands goes on to ask the worker at all.
NeedsProbe == Required # {} \/ CmfHook

\* Every feature the declaration commits the host to is in the answer just
\* received; with nothing required an inconclusive probe is tolerated.
Understood(w) == Required = {} \/ \E fs \in reported'[w] : Required \subseteq fs

VerifyPasses(w) ==
    \/ /\ NeedsProbe
       /\ ProbeAnswers(w)
       /\ Understood(w)
    \/ /\ Required = {}
       /\ UNCHANGED workerVars

VerifyFails(w) ==
    /\ Required # {}
    /\ \/ ProbeAnswers(w) /\ ~Understood(w)
       \/ UNCHANGED workerVars

-----------------------------------------------------------------------------
(* WorkerClient::shutdown: whoever takes the child out of its mutex asks the *)
(* process to exit and waits out the grace window, then kills it.  A second *)
(* shutdown finds no child and returns at once, exited or not.              *)

TakeChild(w) ==
    /\ w \notin taken
    /\ taken' = taken \cup {w}
    /\ UNCHANGED <<born, exited, dead, feat, reported, retried, descent>>

ChildExits(w) ==
    /\ exited' = exited \cup {w}
    /\ UNCHANGED <<born, dead, taken, feat, reported, retried, descent>>

-----------------------------------------------------------------------------
(* Plugin::initialize and Plugin::shutdown *)

InitializeStart ==
    /\ engine = "off"
    /\ inits < MaxInits
    /\ inits' = inits + 1
    /\ shutDown' = FALSE
    /\ engine' = "launching"
    /\ UNCHANGED <<slot, fresh, callerVars, budgetVars, workerVars, clock, answered>>

InitializeLaunches ==
    /\ engine = "launching"
    /\ Launch(inits)
    /\ fresh' = born + 1
    /\ engine' = "verifying"
    /\ UNCHANGED <<slot, shutDown, inits, callerVars, budgetVars, clock, answered>>

InitializeVerifies ==
    /\ engine = "verifying"
    /\ VerifyPasses(fresh)
    /\ engine' = "installing"
    /\ UNCHANGED <<slot, shutDown, fresh, inits, callerVars, budgetVars, clock, answered>>

\* The slot is written without another look at the flag.
InitializeInstalls ==
    /\ engine = "installing"
    /\ slot' = fresh
    /\ fresh' = NoWorker
    /\ engine' = "up"
    /\ UNCHANGED <<shutDown, inits, callerVars, budgetVars, workerVars, clock, answered>>

\* The launch or the handshake failed, or the future was dropped: the worker
\* goes with it.
InitializeFails ==
    /\ \/ engine = "verifying" /\ VerifyFails(fresh)
       \/ engine \in {"launching", "verifying", "installing"} /\ UNCHANGED workerVars
    /\ fresh' = NoWorker
    /\ engine' = "off"
    /\ UNCHANGED <<slot, shutDown, inits, callerVars, budgetVars, clock, answered>>

ShutdownStart ==
    /\ engine \in {"up", "off"}
    /\ shutDown' = TRUE
    /\ engine' = "flagged"
    /\ UNCHANGED <<slot, fresh, inits, callerVars, budgetVars, workerVars, clock, answered>>

ShutdownTakesSlot ==
    /\ engine = "flagged"
    /\ fresh' = slot
    /\ slot' = NoWorker
    /\ engine' = "stopping"
    /\ UNCHANGED <<shutDown, inits, callerVars, budgetVars, workerVars, clock, answered>>

\* Shutting the worker down: the child is the engine's to stop ...
ShutdownTakesChild ==
    /\ engine = "stopping"
    /\ fresh # NoWorker
    /\ TakeChild(fresh)
    /\ engine' = "waiting"
    /\ UNCHANGED <<slot, shutDown, fresh, inits, callerVars, budgetVars, clock, answered>>

\* ... or the slot was empty, or a respawn is reaping the worker already.
ShutdownFindsNoChild ==
    /\ engine = "stopping"
    /\ fresh = NoWorker \/ fresh \in taken
    /\ fresh' = NoWorker
    /\ engine' = "off"
    /\ UNCHANGED <<slot, shutDown, inits, callerVars, budgetVars, workerVars, clock, answered>>

ShutdownStops ==
    /\ engine = "waiting"
    /\ ChildExits(fresh)
    /\ fresh' = NoWorker
    /\ engine' = "off"
    /\ UNCHANGED <<slot, shutDown, inits, callerVars, budgetVars, clock, answered>>

-----------------------------------------------------------------------------
(* worker() and respawn_worker() *)

Goto(i, point) == pc' = [pc EXCEPT ![i] = point]

\* The invocation is over, on an error path unless it says otherwise: its Arc
\* and, if it has it, the respawn mutex go.
Leave(i) ==
    /\ Goto(i, "idle")
    /\ held' = [held EXCEPT ![i] = NoWorker]
    /\ mutex' = IF mutex = i THEN NoCaller ELSE mutex

\* A live worker is in the slot: use it.
LookupFinds(i) ==
    /\ pc[i] = "idle"
    /\ slot # NoWorker /\ slot \notin dead
    /\ held' = [held EXCEPT ![i] = slot]
    /\ Goto(i, "probe")
    /\ UNCHANGED <<mutex, engineVars, budgetVars, workerVars, clock, answered>>

\* The worker in the slot is dead: queue for the respawn mutex.  (An empty
\* slot is an error at once and leaves everything as it is.)
LookupFindsDead(i) ==
    /\ pc[i] = "idle"
    /\ slot \in dead
    /\ Goto(i, "locking")
    /\ UNCHANGED <<held, mutex, engineVars, budgetVars, workerVars, clock, answered>>

\* Under the mutex the slot is read again: somebody may have respawned ...
RecheckFinds(i) ==
    /\ pc[i] = "locking"
    /\ mutex = NoCaller
    /\ slot # NoWorker /\ slot \notin dead
    /\ held' = [held EXCEPT ![i] = slot]
    /\ Goto(i, "probe")
    /\ UNCHANGED <<mutex, engineVars, budgetVars, workerVars, clock, answered>>

\* Mutated form: the emptied slot is forgotten.
RecheckShutDownDead(i) ==
    /\ pc[i] = "locking"
    /\ mutex = NoCaller
    /\ slot \in dead /\ shutDown
    /\ Leave(i)
    /\ UNCHANGED <<engineVars, budgetVars, workerVars, clock, answered>>

\* ... or the plugin may have shut down.
RecheckShutDown(i) ==
    /\ pc[i] = "locking"
    /\ mutex = NoCaller
    /\ slot = NoWorker \/ (slot \in dead /\ shutDown)
    /\ Leave(i)
    /\ UNCHANGED <<engineVars, budgetVars, workerVars, clock, answered>>

\* RespawnState::try_reserve.
WindowExpired == windowStart # 0 /\ clock - windowStart >= Window

EffectiveAttempts == IF WindowExpired THEN 0 ELSE attempts

TryReserve ==
    /\ EffectiveAttempts < MaxAttempts
    /\ attempts' = EffectiveAttempts + 1
    /\ windowStart' = IF WindowExpired \/ windowStart = 0 THEN clock ELSE windowStart
    /\ expiries' = IF WindowExpired THEN expiries + 1 ELSE expiries
    /\ reserved' = reserved + 1

RespawnReserves(i) ==
    /\ pc[i] = "locking"
    /\ mutex = NoCaller
    /\ slot \in dead /\ ~shutDown
    /\ TryReserve
    /\ mutex' = i
    /\ held' = [held EXCEPT ![i] = slot]
    /\ Goto(i, "backoff")
    /\ UNCHANGED <<engineVars, workerVars, clock, answered>>

\* The budget is spent: an error, and the counters as try_reserve left them.
RespawnRefused(i) ==
    /\ pc[i] = "locking"
    /\ mutex = NoCaller
    /\ slot \in dead /\ ~shutDown
    /\ EffectiveAttempts >= MaxAttempts
    /\ attempts' = EffectiveAttempts
    /\ windowStart' = IF WindowExpired THEN 0 ELSE windowStart
    /\ expiries' = IF WindowExpired THEN expiries + 1 ELSE expiries
    /\ Leave(i)
    /\ UNCHANGED <<engineVars, workerVars, clock, answered, reserved>>

\* After the sleep: give up if the plugin shut down meanwhile ...
BackoffShutDown(i) ==
    /\ pc[i] = "backoff"
    /\ shutDown
    /\ Leave(i)
    /\ UNCHANGED <<engineVars, budgetVars, workerVars, clock, answered>>

\* Mutated form: the dead worker is replaced without being stopped.
BackoffEndsNoReap(i) ==
    /\ pc[i] = "backoff"
    /\ ~shutDown
    /\ Goto(i, "launching")
    /\ UNCHANGED <<held, mutex, engineVars, budgetVars, workerVars, clock, answered>>

\* ... else go on to reap the corpse, which stays in the slot.
BackoffEnds(i) ==
    /\ pc[i] = "backoff"
    /\ ~shutDown
    /\ Goto(i, "reaping")
    /\ UNCHANGED <<held, mutex, engineVars, budgetVars, workerVars, clock, answered>>

ReapTakesChild(i) ==
    /\ pc[i] = "reaping"
    /\ TakeChild(held[i])
    /\ Goto(i, "waiting")
    /\ UNCHANGED <<held, mutex, engineVars, budgetVars, clock, answered>>

\* The plugin's shutdown got to the child first: nothing is waited for.
ReapFindsNoChild(i) ==
    /\ pc[i] = "reaping"
    /\ held[i] \in taken
    /\ Goto(i, "launching")
    /\ UNCHANGED <<held, mutex, engineVars, budgetVars, workerVars, clock, answered>>

ReapEnds(i) ==
    /\ pc[i] = "waiting"
    /\ ChildExits(held[i])
    /\ Goto(i, "launching")
    /\ UNCHANGED <<held, mutex, engineVars, budgetVars, clock, answered>>

RespawnLaunches(i) ==
    /\ pc[i] = "launching"
    /\ Launch(descent[held[i]])
    /\ held' = [held EXCEPT ![i] = born + 1]
    /\ Goto(i, "verifying")
    /\ UNCHANGED <<mutex, engineVars, budgetVars, clock, answered>>

\* Mutated form: a replacement is assumed to be what it replaces.
RespawnVerifiesNothing(i) ==
    /\ pc[i] = "verifying"
    /\ Goto(i, "installing")
    /\ UNCHANGED <<held, mutex, engineVars, budgetVars, workerVars, clock, answered>>

RespawnVerifies(i) ==
    /\ pc[i] = "verifying"
    /\ VerifyPasses(held[i])
    /\ Goto(i, "installing")
    /\ UNCHANGED <<held, mutex, engineVars, budgetVars, clock, answered>>

\* The launch failed.
RespawnFails(i) ==
    /\ pc[i] = "launching"
    /\ Leave(i)
    /\ UNCHANGED <<engineVars, budgetVars, workerVars, clock, answered>>

\* The handshake failed: the worker is stopped before the error is returned.
RespawnRejects(i) ==
    /\ pc[i] = "verifying"
    /\ VerifyFails(held[i])
    /\ Goto(i, "discarding")
    /\ UNCHANGED <<held, mutex, engineVars, budgetVars, clock, answered>>

\* Mutated form: the flag is not looked at again under the write lock.
RespawnInstallsBlind(i) ==
    /\ pc[i] = "installing"
    /\ slot' = held[i]
    /\ mutex' = NoCaller
    /\ Goto(i, "probe")
    /\ UNCHANGED <<held, shutDown, engine, fresh, inits, budgetVars, workerVars, clock, answered>>

\* Mutated form: a launch counts as a success and refills the budget.
RespawnInstallsRefills(i) ==
    /\ pc[i] = "installing"
    /\ ~shutDown
    /\ slot' = held[i]
    /\ mutex' = NoCaller
    /\ attempts' = 0
    /\ windowStart' = 0
    /\ Goto(i, "probe")
    /\ UNCHANGED <<held, shutDown, engine, fresh, inits, reserved, expiries, workerVars, clock, answered>>

\* Under the slot's write lock: install, unless the flag was set meanwhile.
RespawnInstalls(i) ==
    /\ pc[i] = "installing"
    /\ ~shutDown
    /\ slot' = held[i]
    /\ mutex' = NoCaller
    /\ Goto(i, "probe")
    /\ UNCHANGED <<held, shutDown, engine, fresh, inits, budgetVars, workerVars, clock, answered>>

InstallShutDown(i) ==
    /\ pc[i] = "installing"
    /\ shutDown
    /\ Goto(i, "discarding")
    /\ UNCHANGED <<held, mutex, engineVars, budgetVars, workerVars, clock, answered>>

\* stop_unused_worker: nobody else has this worker.
Discards(i) ==
    /\ pc[i] = "discarding"
    /\ ChildExits(held[i])
    /\ Leave(i)
    /\ UNCHANGED <<engineVars, budgetVars, clock, answered>>

-----------------------------------------------------------------------------
(* PythonHookAdapter::invoke *)

\* A cmf.* hook of a worker with no report claims its one probe retry.
WantsRetry(i) == CmfHook /\ reported[held[i]] = {} /\ held[i] \notin retried

InvokeClaimsRetry(i) ==
    /\ pc[i] = "probe"
    /\ WantsRetry(i)
    /\ retried' = retried \cup {held[i]}
    /\ Goto(i, "retrying")
    /\ UNCHANGED <<held, mutex, engineVars, budgetVars,
                   born, exited, dead, taken, feat, reported, descent, clock, answered>>

InvokeRetries(i) ==
    /\ pc[i] = "retrying"
    /\ ProbeAnswers(held[i]) \/ UNCHANGED workerVars
    /\ Goto(i, "sending")
    /\ UNCHANGED <<held, mutex, engineVars, budgetVars, clock, answered>>

InvokeSkipsRetry(i) ==
    /\ pc[i] = "probe"
    /\ ~WantsRetry(i)
    /\ Goto(i, "sending")
    /\ UNCHANGED <<held, mutex, engineVars, budgetVars, workerVars, clock, answered>>

\* send_task came back with an answer ...
InvokeAnswered(i) ==
    /\ pc[i] = "sending"
    /\ held[i] \notin exited /\ held[i] \notin dead
    /\ answered < MaxAnswers
    /\ Goto(i, "noting")
    /\ UNCHANGED <<held, mutex, engineVars, budgetVars, workerVars, clock, answered>>

\* ... or failed, or the payload could not be built.
InvokeFails(i) ==
    /\ pc[i] = "sending"
    /\ Leave(i)
    /\ UNCHANGED <<engineVars, budgetVars, workerVars, clock, answered>>

\* note_worker_healthy: under the respawn mutex, refill a budget in use.
InvokeNotesHealthy(i) ==
    /\ pc[i] = "noting"
    /\ mutex = NoCaller
    /\ attempts' = 0
    /\ windowStart' = IF attempts > 0 THEN 0 ELSE windowStart
    /\ answered' = answered + 1
    /\ Leave(i)
    /\ UNCHANGED <<reserved, expiries, engineVars, workerVars, clock>>

\* The caller's own deadline drops the invocation, wherever it is; a child it
\* was waiting for is dropped with it, and killed.
InvokeCancelled(i) ==
    /\ pc[i] # "idle"
    /\ IF pc[i] = "waiting" THEN ChildExits(held[i]) ELSE UNCHANGED workerVars
    /\ Leave(i)
    /\ UNCHANGED <<engineVars, budgetVars, clock, answered>>

-----------------------------------------------------------------------------
(* The worker processes, and time. *)

WorkerCrashes(w) ==
    /\ Running(w)
    /\ ChildExits(w)
    /\ UNCHANGED <<engineVars, callerVars, budgetVars, clock, answered>>

\* The reader task sees stdout close: after an exit, or with the process alive.
DeathObserved(w) ==
    /\ w \in Referenced
    /\ w \notin dead
    /\ dead' = dead \cup {w}
    /\ UNCHANGED <<born, exited, taken, feat, reported, retried, descent,
                   engineVars, callerVars, budgetVars, clock, answered>>

Tick ==
    /\ clock < MaxClock
    /\ clock' = clock + 1
    /\ UNCHANGED <<engineVars, callerVars, budgetVars, workerVars, answered>>

-----------------------------------------------------------------------------

EngineStep ==
    \/ InitializeLaunches \/ InitializeVerifies \/ InitializeInstalls \/ InitializeFails
    \/ ShutdownTakesSlot \/ ShutdownTakesChild \/ ShutdownFindsNoChild \/ ShutdownStops

\* What a caller does once it noticed a death or has a worker.
CallerStep(i) ==
    \/ RecheckFinds(i) \/ RecheckShutDown(i) \/ RespawnReserves(i) \/ RespawnRefused(i)
    \/ BackoffShutDown(i) \/ BackoffEnds(i)
    \/ ReapTakesChild(i) \/ ReapFindsNoChild(i) \/ ReapEnds(i)
    \/ RespawnLaunches(i) \/ RespawnFails(i) \/ RespawnVerifies(i) \/ RespawnRejects(i)
    \/ RespawnInstalls(i) \/ InstallShutDown(i) \/ Discards(i)
    \/ InvokeClaimsRetry(i) \/ InvokeRetries(i) \/ InvokeSkipsRetry(i)
    \/ InvokeAnswered(i) \/ InvokeFails(i) \/ InvokeNotesHealthy(i)

Next ==
    \/ InitializeStart \/ ShutdownStart \/ EngineStep
    \/ \E i \in Callers :
          LookupFinds(i) \/ LookupFindsDead(i) \/ CallerStep(i) \/ InvokeCancelled(i)
    \/ \E w \in Workers : WorkerCrashes(w) \/ DeathObserved(w)
    \/ Tick

Spec == Init /\ [][Next]_vars

\* Ready tasks are polled; launches, handshakes, sends and sleeps all have a
\* deadline; the tokio mutex is fair to its waiters.
Fairness ==
    /\ WF_vars(EngineStep)
    /\ \A i \in Callers : SF_vars(CallerStep(i))

FairSpec == Spec /\ Fairness

-----------------------------------------------------------------------------
(* Properties *)

Points == {"idle", "locking", "backoff", "reaping", "waiting", "launching",
           "verifying", "installing", "discarding", "probe", "retrying", "sending", "noting"}

\* Control points reached with a worker that passed the handshake.
Serving == {"installing", "probe", "retrying", "sending", "noting"}

\* Types of the plugin's state.
TypeOK ==
    /\ slot \in 0..born /\ fresh \in 0..born /\ born \in 0..MaxWorkers
    /\ shutDown \in BOOLEAN
    /\ engine \in {"off", "launching", "verifying", "installing", "up",
                 "flagged", "stopping", "waiting"}
    /\ inits \in 0..MaxInits
    /\ pc \in [Callers -> Points]
    /\ held \in [Callers -> 0..born]
    /\ mutex \in Callers \cup {NoCaller}
    /\ attempts \in 0..MaxAttempts
    /\ clock \in 1..(MaxClock + 1) /\ windowStart \in 0..clock
    /\ exited \subseteq 1..born /\ dead \subseteq 1..born
    /\ taken \subseteq 1..born /\ retried \subseteq 1..born
    /\ feat \in [Workers -> SUBSET Features]
    /\ reported \in [Workers -> SUBSET SUBSET Features]
    /\ descent \in [Workers -> 0..inits]
    /\ reserved \in Nat /\ answered \in Nat /\ expiries \in Nat

\* A shutdown that has emptied the slot is final: no respawn that was in
\* flight, at whatever point, puts a worker nothing will stop into it.
NothingInstalledAfterShutdown ==
    shutDown /\ engine \in {"stopping", "waiting", "off"} => slot = NoWorker

\* Only shutdown() empties the slot: a respawn that fails, at any step, leaves
\* the dead worker there for the next invocation to replace, so one bad launch
\* does not disable the plugin.
InitializedHasSlot == engine = "up" => slot # NoWorker

\* No task, and so no credential or extension, is sent to a worker that does
\* not implement what the plugin's declaration requires, whichever path
\* launched it and whatever the venv held by then.
ServedOnlyIfUnderstood ==
    \A i \in Callers : pc[i] \in Serving => Required \subseteq feat[held[i]]

\* A crash loop is bounded: respawns are paid for by the initial budget, by a
\* round trip that completed, or by a full window of time, and no two of the
\* windows that refilled the budget overlap.
RespawnsArePaidFor ==
    /\ reserved <= MaxAttempts * (1 + answered + expiries)
    /\ expiries * Window <= clock - 1

\* The process a shutdown() under way took out of its client and waits for.
Stopping == IF engine = "waiting" THEN {fresh} ELSE {}

\* Each initialize() accounts for at most one running process: a respawn only
\* ever replaces a worker, one at a time, even when the plugin was shut down
\* and initialized again under it.  Not counted is the process a shutdown under
\* way is stopping: a respawn that passed its look at the flag finds that child
\* gone from the client and launches while it still runs.
OneProcess ==
    Cardinality({w \in 1..born \ Stopping : Running(w)}) <= inits

\* Every invocation comes to an end, and none keeps the others from it.
EveryCallerLeaves == \A i \in Callers : pc[i] # "idle" ~> pc[i] = "idle"

\* A shutdown leaves nothing behind: once it returned, which may be before the
\* worker exited and with a replacement on its way, every process of the plugin
\* comes to its end unless the plugin is initialized again.
ShutdownLeavesNothing ==
    shutDown /\ engine = "off" ~> ~shutDown \/ \A w \in 1..born : ~Running(w)
=============================================================================
