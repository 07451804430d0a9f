----------------------- MODULE PluginLifecycleProofs -----------------------
(***************************************************************************)
(* Safety of PluginLifecycle for any number of callers, workers, lifecycle *)
(* calls and clock ticks, any budget and any feature set.                  *)
(***************************************************************************)
EXTENDS PluginLifecycle, FiniteSetTheorems, TLAPS

(***************************************************************************)
(* The budget on its own.  Attempts still in the counter are paid for by   *)
(* it; every reset was paid for by an answer or by a window, and a window  *)
(* can only be counted once the clock went past it.                        *)
(***************************************************************************)
BudgetType ==
    /\ attempts \in 0..MaxAttempts
    /\ clock \in Nat \ {0} /\ windowStart \in 0..clock
    /\ reserved \in Nat /\ answered \in Nat /\ expiries \in Nat

Paid == reserved <= MaxAttempts * (answered + expiries) + attempts

Elapsed == expiries * Window <= IF windowStart # 0 THEN windowStart - 1 ELSE clock - 1

BudgetInv == BudgetType /\ Paid /\ Elapsed

\* What one more unit of a factor adds to a product of naturals.
LEMMA OneMore ==
    ASSUME NEW a \in Nat, NEW b \in Nat
    PROVE  a * (b + 1) = a * b + a /\ (b + 1) * a = b * a + a /\ a * b \in Nat /\ b * a \in Nat
  OBVIOUS

\* Every step either leaves the budget alone or is one of these.
BudgetStep ==
    \/ TryReserve /\ UNCHANGED <<clock, answered>>
    \/ \E i \in Callers : RespawnRefused(i)
    \/ \E i \in Callers : InvokeNotesHealthy(i)
    \/ Tick
    \/ UNCHANGED <<budgetVars, clock, answered>>

LEMMA StepsOnBudget == [Next]_vars => BudgetStep
<1> SUFFICES ASSUME [Next]_vars PROVE BudgetStep
  OBVIOUS
<1>1. CASE InitializeStart \/ ShutdownStart \/ EngineStep
  BY <1>1 DEF InitializeStart, ShutdownStart, EngineStep, InitializeLaunches, InitializeVerifies,
     InitializeInstalls, InitializeFails, ShutdownTakesSlot, ShutdownTakesChild,
     ShutdownFindsNoChild, ShutdownStops, BudgetStep
<1>2. ASSUME NEW i \in Callers, LookupFinds(i) \/ LookupFindsDead(i) \/ CallerStep(i) \/ InvokeCancelled(i)
      PROVE  BudgetStep
  <2>1. CASE RespawnReserves(i)
    BY <2>1 DEF RespawnReserves, BudgetStep
  <2>2. CASE RespawnRefused(i) \/ InvokeNotesHealthy(i)
    BY <2>2 DEF BudgetStep
  <2>3. CASE LookupFinds(i) \/ LookupFindsDead(i) \/ RecheckFinds(i) \/ RecheckShutDown(i)
             \/ BackoffShutDown(i) \/ BackoffEnds(i) \/ ReapTakesChild(i) \/ ReapFindsNoChild(i)
             \/ ReapEnds(i)
    BY <2>3 DEF LookupFinds, LookupFindsDead, RecheckFinds, RecheckShutDown, BackoffShutDown,
       BackoffEnds, ReapTakesChild, ReapFindsNoChild, ReapEnds, BudgetStep
  <2>3a. CASE \/ RespawnLaunches(i) \/ RespawnFails(i) \/ RespawnVerifies(i) \/ RespawnRejects(i)
              \/ RespawnInstalls(i) \/ InstallShutDown(i) \/ Discards(i)
    BY <2>3a DEF RespawnLaunches, RespawnFails, RespawnVerifies, RespawnRejects, RespawnInstalls,
       InstallShutDown, Discards, BudgetStep
  <2>4. CASE InvokeClaimsRetry(i) \/ InvokeRetries(i) \/ InvokeSkipsRetry(i)
             \/ InvokeAnswered(i) \/ InvokeFails(i) \/ InvokeCancelled(i)
    BY <2>4 DEF InvokeClaimsRetry, InvokeRetries, InvokeSkipsRetry, InvokeAnswered, InvokeFails,
       InvokeCancelled, BudgetStep
  <2>5. QED
    BY <1>2, <2>1, <2>2, <2>3, <2>3a, <2>4 DEF CallerStep
<1>3. ASSUME NEW w \in Workers, WorkerCrashes(w) \/ DeathObserved(w) PROVE BudgetStep
  BY <1>3 DEF WorkerCrashes, DeathObserved, BudgetStep
<1>4. CASE Tick \/ UNCHANGED vars
  BY <1>4 DEF vars, BudgetStep
<1>5. QED
  BY <1>1, <1>2, <1>3, <1>4 DEF Next

\* The budget's invariant holds in every reachable state.
THEOREM BudgetInvariant == Spec => []BudgetInv
<1> USE BudgetAssumption
<1>1. Init => BudgetInv
  BY DEF Init, BudgetInv, BudgetType, Paid, Elapsed
<1>2. BudgetInv /\ BudgetStep => BudgetInv'
  <2> SUFFICES ASSUME BudgetInv, BudgetStep PROVE BudgetInv'
    OBVIOUS
  <2> USE DEF BudgetInv, BudgetType
  <2>1. CASE TryReserve /\ UNCHANGED <<clock, answered>>
    <3>1. CASE ~WindowExpired
      <4>1. BudgetType'
        BY <2>1, <3>1 DEF TryReserve, EffectiveAttempts
      <4>2. Paid'
        BY <2>1, <3>1 DEF TryReserve, EffectiveAttempts, Paid
      <4>3. Elapsed'
        BY <2>1, <3>1 DEF TryReserve, Elapsed
      <4>4. QED
        BY <4>1, <4>2, <4>3
    <3>2. CASE WindowExpired
      <4>1. BudgetType'
        BY <2>1, <3>2 DEF TryReserve, EffectiveAttempts
      <4>2. MaxAttempts * (answered + (expiries + 1)) = MaxAttempts * (answered + expiries) + MaxAttempts
        BY OneMore
      <4>3. Paid'
        BY <2>1, <3>2, <4>2 DEF TryReserve, EffectiveAttempts, Paid
      <4>4. (expiries + 1) * Window = expiries * Window + Window
        BY OneMore
      <4>5. Elapsed'
        BY <2>1, <3>2, <4>4 DEF TryReserve, Elapsed, WindowExpired
      <4>6. QED
        BY <4>1, <4>3, <4>5
    <3>3. QED
      BY <3>1, <3>2
  <2>2. ASSUME NEW i \in Callers, RespawnRefused(i) PROVE BudgetInv'
    <3>1. CASE ~WindowExpired
      BY <2>2, <3>1 DEF RespawnRefused, EffectiveAttempts, Paid, Elapsed
    <3>2. CASE WindowExpired
      <4>1. MaxAttempts * (answered + (expiries + 1)) = MaxAttempts * (answered + expiries) + MaxAttempts
        BY OneMore
      <4>2. (expiries + 1) * Window = expiries * Window + Window
        BY OneMore
      <4>3. QED
        BY <2>2, <3>2, <4>1, <4>2 DEF RespawnRefused, EffectiveAttempts, Paid, Elapsed, WindowExpired
    <3>3. QED
      BY <3>1, <3>2
  <2>3. ASSUME NEW i \in Callers, InvokeNotesHealthy(i) PROVE BudgetInv'
    <3>1. MaxAttempts * ((answered + 1) + expiries) = MaxAttempts * (answered + expiries) + MaxAttempts
      <4>1. (answered + 1) + expiries = (answered + expiries) + 1
        OBVIOUS
      <4>2. QED
        BY <4>1, OneMore
    <3>2. QED
      BY <2>3, <3>1 DEF InvokeNotesHealthy, Paid, Elapsed
  <2>4. CASE Tick
    BY <2>4 DEF Tick, budgetVars, Paid, Elapsed
  <2>5. CASE UNCHANGED <<budgetVars, clock, answered>>
    BY <2>5 DEF budgetVars, Paid, Elapsed
  <2>6. QED
    BY <2>1, <2>2, <2>3, <2>4, <2>5 DEF BudgetStep
<1>3. QED
  BY <1>1, <1>2, StepsOnBudget, PTL DEF Spec

\* However the callers interleave, respawns are bounded by the budget, the
\* round trips that completed and the disjoint windows that elapsed.
THEOREM CrashLoopBounded == Spec => []RespawnsArePaidFor
<1>1. BudgetInv => RespawnsArePaidFor
  <2> SUFFICES ASSUME BudgetInv PROVE RespawnsArePaidFor
    OBVIOUS
  <2>1. MaxAttempts * ((answered + expiries) + 1) = MaxAttempts * (answered + expiries) + MaxAttempts
    BY OneMore, BudgetAssumption DEF BudgetInv, BudgetType
  <2>2. 1 + answered + expiries = (answered + expiries) + 1
    BY DEF BudgetInv, BudgetType
  <2>3. QED
    <3>1. reserved <= MaxAttempts * (1 + answered + expiries)
      BY <2>1, <2>2, BudgetAssumption DEF BudgetInv, BudgetType, Paid
    <3>2. expiries * Window <= clock - 1
      BY BudgetAssumption DEF BudgetInv, BudgetType, Elapsed
    <3>3. QED
      BY <3>1, <3>2 DEF RespawnsArePaidFor
<1>2. QED
  BY <1>1, BudgetInvariant, PTL

-----------------------------------------------------------------------------
(***************************************************************************)
(* Lifecycle and handshake.  That the slot stays empty after a shutdown    *)
(* needs the flag to agree with the engine's control point; that only a    *)
(* worker which understands the plugin is served needs every place a       *)
(* worker can be taken from (the slot, the engine's and the callers'       *)
(* hands) to hold verified ones, and reports to be true.                   *)
(***************************************************************************)

\* Everybody holds only workers that were launched.
HoldsType ==
    /\ born \in 0..MaxWorkers
    /\ slot \in 0..born /\ fresh \in 0..born
    /\ held \in [Callers -> 0..born]
    /\ pc \in [Callers -> Points]
    /\ shutDown \in BOOLEAN
    /\ mutex \in Callers \cup {NoCaller}
    /\ feat \in [Workers -> SUBSET Features]
    /\ reported \in [Workers -> SUBSET SUBSET Features]
    /\ dead \subseteq 1..born

\* Control points inside the respawn mutex.
Respawning == {"backoff", "reaping", "waiting", "launching", "verifying", "installing", "discarding"}

\* Respawning is serialized: one caller at a time is between reserving an
\* attempt and installing, and it is the one that holds the mutex.
OneRespawner ==
    \A i \in Callers : pc[i] \in Respawning <=> mutex = i

\* The flag follows the engine's lifecycle call.
FlagFollowsEngine ==
    /\ engine \in {"launching", "verifying", "installing", "up"} => ~shutDown
    /\ engine \in {"flagged", "stopping", "waiting"} => shutDown
    /\ engine \in {"off", "launching", "verifying", "installing", "up",
                   "flagged", "stopping", "waiting"}

\* A report is of a launched worker, and never claims what that worker does
\* not implement.
ReportsAreTrue ==
    \A w \in Workers :
        /\ reported[w] # {} => w <= born
        /\ \A fs \in reported[w] : fs \subseteq feat[w]

\* A worker is in a place from which it is served only after its handshake.
Verified(w) == w # NoWorker /\ Required \subseteq feat[w]

VerifiedPlaces ==
    /\ slot # NoWorker => Verified(slot)
    /\ engine = "installing" => Verified(fresh)
    /\ engine = "verifying" => fresh # NoWorker
    /\ \A i \in Callers : pc[i] \in Serving => Verified(held[i])
    /\ \A i \in Callers : pc[i] = "verifying" => held[i] # NoWorker

LifecycleInv ==
    /\ HoldsType
    /\ FlagFollowsEngine
    /\ ReportsAreTrue
    /\ VerifiedPlaces
    /\ OneRespawner
    /\ NothingInstalledAfterShutdown
    /\ InitializedHasSlot

\* A launch leaves the workers already known as they are.
LEMMA LaunchKeeps ==
    ASSUME LifecycleInv, NEW d, Launch(d)
    PROVE  /\ born' = born + 1 /\ born' \in 0..MaxWorkers /\ born \in Nat
           /\ \A w \in 1..born : feat'[w] = feat[w]
           /\ feat' \in [Workers -> SUBSET Features]
           /\ UNCHANGED <<reported, dead>>
           /\ ReportsAreTrue'
<1>1. /\ born' = born + 1 /\ born' \in 0..MaxWorkers /\ born \in Nat
      /\ UNCHANGED <<reported, dead>>
  BY BoundsAssumption DEF LifecycleInv, HoldsType, Launch
<1>2. /\ \A w \in Workers \ {born + 1} : feat'[w] = feat[w]
      /\ feat' \in [Workers -> SUBSET Features]
  BY DEF LifecycleInv, HoldsType, Launch, Workers
<1>3. born + 1 \in Workers /\ \A w \in 1..born : w \in Workers \ {born + 1}
  BY <1>1, BoundsAssumption DEF Workers
<1>4. reported[born + 1] = {}
  BY <1>1, <1>3 DEF LifecycleInv, ReportsAreTrue
<1>5. ReportsAreTrue'
  BY <1>1, <1>2, <1>3, <1>4 DEF LifecycleInv, ReportsAreTrue, Workers
<1>6. QED
  BY <1>1, <1>2, <1>3, <1>5

\* A probe that answered changes the report of that worker, truthfully.
LEMMA ProbeKeeps ==
    ASSUME LifecycleInv, NEW w \in 1..born, ProbeAnswers(w)
    PROVE  /\ UNCHANGED <<born, feat, dead>>
           /\ reported' \in [Workers -> SUBSET SUBSET Features]
           /\ ReportsAreTrue'
           /\ \A fs \in reported'[w] : fs \subseteq feat[w]
<1>1. UNCHANGED <<born, feat, dead>> /\ w \in Workers
  BY BoundsAssumption DEF LifecycleInv, HoldsType, ProbeAnswers, Workers
<1>2. PICK fs \in {feat[w], {}} : reported' = [reported EXCEPT ![w] = IF @ = {} THEN {fs} ELSE @]
  BY DEF ProbeAnswers
<1>3. fs \in SUBSET Features /\ fs \subseteq feat[w]
  BY <1>1 DEF LifecycleInv, HoldsType
<1>4. reported' \in [Workers -> SUBSET SUBSET Features]
  BY <1>1, <1>2, <1>3 DEF LifecycleInv, HoldsType
<1>5. /\ \A v \in Workers \ {w} : reported'[v] = reported[v]
      /\ \A gs \in reported'[w] : gs \subseteq feat[w]
  BY <1>1, <1>2, <1>3 DEF LifecycleInv, HoldsType, ReportsAreTrue
<1>6. ReportsAreTrue'
  BY <1>1, <1>5 DEF LifecycleInv, HoldsType, ReportsAreTrue, Workers
<1>7. QED
  BY <1>1, <1>4, <1>5, <1>6

\* A handshake that passed proves the worker implements what is required.
LEMMA VerifyKeeps ==
    ASSUME LifecycleInv, NEW w \in 1..born, VerifyPasses(w) \/ VerifyFails(w)
    PROVE  /\ UNCHANGED <<born, feat, dead>>
           /\ reported' \in [Workers -> SUBSET SUBSET Features]
           /\ ReportsAreTrue'
           /\ VerifyPasses(w) => Required \subseteq feat[w]
<1>1. CASE ProbeAnswers(w)
  BY <1>1, ProbeKeeps DEF VerifyPasses, Understood, workerVars
<1>2. CASE UNCHANGED workerVars
  <2>1. UNCHANGED <<born, feat, dead, reported>>
    BY <1>2 DEF workerVars
  <2>2. ReportsAreTrue'
    BY <2>1 DEF LifecycleInv, ReportsAreTrue
  <2>3. VerifyPasses(w) => Required \subseteq feat[w]
    <3>1. ASSUME ProbeAnswers(w), Understood(w) PROVE Required \subseteq feat[w]
      BY <3>1, ProbeKeeps DEF Understood
    <3>2. QED
      BY <3>1 DEF VerifyPasses
  <2>4. QED
    BY <2>1, <2>2, <2>3 DEF LifecycleInv, HoldsType
<1>3. QED
  BY <1>1, <1>2 DEF VerifyPasses, VerifyFails

\* The engine's lifecycle calls keep the invariant.
LEMMA LifecycleInvEngine ==
    ASSUME LifecycleInv, InitializeStart \/ ShutdownStart \/ EngineStep
    PROVE  LifecycleInv'
<1> USE DEF LifecycleInv, HoldsType, FlagFollowsEngine, VerifiedPlaces, OneRespawner,
        NothingInstalledAfterShutdown, InitializedHasSlot, Verified, NoWorker, callerVars
<1>1. CASE InitializeStart \/ ShutdownStart
  BY <1>1 DEF InitializeStart, ShutdownStart, workerVars, ReportsAreTrue
<1>2. CASE InitializeLaunches
  <2>1. /\ born' = born + 1 /\ born' \in 0..MaxWorkers /\ born \in Nat
        /\ \A w \in 1..born : feat'[w] = feat[w]
        /\ feat' \in [Workers -> SUBSET Features]
        /\ UNCHANGED <<reported, dead>>
        /\ ReportsAreTrue'
    BY <1>2, LaunchKeeps DEF InitializeLaunches
  <2>2. QED
    BY <1>2, <2>1 DEF InitializeLaunches, Serving
<1>3. CASE InitializeVerifies
  <2>1. fresh \in 1..born
    BY <1>3 DEF InitializeVerifies
  <2>2. /\ UNCHANGED <<born, feat, dead>>
        /\ reported' \in [Workers -> SUBSET SUBSET Features]
        /\ ReportsAreTrue'
        /\ Required \subseteq feat[fresh]
    BY <1>3, <2>1, VerifyKeeps DEF InitializeVerifies
  <2>3. QED
    BY <1>3, <2>1, <2>2 DEF InitializeVerifies
<1>4. CASE InitializeInstalls
  BY <1>4 DEF InitializeInstalls, workerVars, ReportsAreTrue
<1>5. CASE InitializeFails
  <2>1. /\ UNCHANGED <<born, feat, dead>>
        /\ reported' \in [Workers -> SUBSET SUBSET Features]
        /\ ReportsAreTrue'
    <3>1. CASE UNCHANGED workerVars
      BY <3>1 DEF workerVars, ReportsAreTrue
    <3>2. CASE engine = "verifying" /\ VerifyFails(fresh)
      <4>1. fresh \in 1..born
        BY <3>2
      <4>2. QED
        BY <3>2, <4>1, VerifyKeeps
    <3>3. QED
      BY <1>5, <3>1, <3>2 DEF InitializeFails
  <2>2. QED
    BY <1>5, <2>1 DEF InitializeFails
<1>6. CASE ShutdownTakesSlot
  BY <1>6 DEF ShutdownTakesSlot, workerVars, ReportsAreTrue
<1>7. CASE ShutdownTakesChild \/ ShutdownFindsNoChild \/ ShutdownStops
  BY <1>7 DEF ShutdownTakesChild, ShutdownFindsNoChild, ShutdownStops, TakeChild, ChildExits,
     workerVars, ReportsAreTrue
<1>8. QED
  BY <1>1, <1>2, <1>3, <1>4, <1>5, <1>6, <1>7 DEF EngineStep

\* The steps of a caller keep it.
LEMMA LifecycleInvCaller ==
    ASSUME LifecycleInv, NEW i \in Callers,
           LookupFinds(i) \/ LookupFindsDead(i) \/ CallerStep(i) \/ InvokeCancelled(i)
    PROVE  LifecycleInv'
<1> USE CallersAssumption
    DEF LifecycleInv, HoldsType, FlagFollowsEngine, VerifiedPlaces, OneRespawner,
        NothingInstalledAfterShutdown, InitializedHasSlot, Verified, NoWorker,
        Points, Serving, Respawning, Goto, Leave, engineVars
<1>1. CASE LookupFinds(i) \/ LookupFindsDead(i) \/ RecheckFinds(i)
  <2>1. UNCHANGED <<engineVars, workerVars, mutex>>
    BY <1>1 DEF LookupFinds, LookupFindsDead, RecheckFinds
  <2>2. \/ slot # NoWorker /\ pc' = [pc EXCEPT ![i] = "probe"] /\ held' = [held EXCEPT ![i] = slot]
        \/ pc' = [pc EXCEPT ![i] = "locking"] /\ UNCHANGED held
    BY <1>1 DEF LookupFinds, LookupFindsDead, RecheckFinds
  <2>3. pc[i] \in {"idle", "locking"}
    BY <1>1 DEF LookupFinds, LookupFindsDead, RecheckFinds
  <2>4. HoldsType' /\ FlagFollowsEngine' /\ ReportsAreTrue'
    BY <2>1, <2>2 DEF workerVars, ReportsAreTrue
  <2>5. VerifiedPlaces' /\ NothingInstalledAfterShutdown' /\ InitializedHasSlot'
    BY <2>1, <2>2 DEF workerVars
  <2>6. OneRespawner'
    BY <2>1, <2>2, <2>3
  <2>7. QED
    BY <2>4, <2>5, <2>6
<1>2. CASE \/ RecheckShutDown(i) \/ RespawnRefused(i) \/ BackoffShutDown(i) \/ RespawnFails(i)
           \/ Discards(i) \/ InvokeFails(i) \/ InvokeNotesHealthy(i) \/ InvokeCancelled(i)
  <2>1. Leave(i) /\ UNCHANGED <<engineVars, born, dead, feat, reported>>
    BY <1>2 DEF RecheckShutDown, RespawnRefused, BackoffShutDown, RespawnFails, Discards, InvokeFails,
       InvokeNotesHealthy, InvokeCancelled, ChildExits, workerVars
  <2>2. HoldsType' /\ FlagFollowsEngine' /\ ReportsAreTrue'
    BY <2>1 DEF ReportsAreTrue
  <2>3. VerifiedPlaces' /\ NothingInstalledAfterShutdown' /\ InitializedHasSlot'
    BY <2>1
  <2>4. OneRespawner'
    BY <2>1
  <2>5. QED
    BY <2>2, <2>3, <2>4
<1>3. CASE RespawnReserves(i)
  <2>1. HoldsType' /\ FlagFollowsEngine' /\ ReportsAreTrue'
    BY <1>3 DEF RespawnReserves, workerVars, ReportsAreTrue
  <2>2. VerifiedPlaces' /\ NothingInstalledAfterShutdown' /\ InitializedHasSlot'
    BY <1>3 DEF RespawnReserves, workerVars
  <2>3. OneRespawner'
    BY <1>3 DEF RespawnReserves
  <2>4. QED
    BY <2>1, <2>2, <2>3
<1>4. CASE \/ BackoffEnds(i) \/ ReapTakesChild(i) \/ ReapFindsNoChild(i) \/ ReapEnds(i)
           \/ InstallShutDown(i)
  <2>1. /\ UNCHANGED <<engineVars, held, mutex, born, dead, feat, reported>>
        /\ pc[i] \in Respawning
        /\ \E p \in {"reaping", "waiting", "launching", "discarding"} : pc' = [pc EXCEPT ![i] = p]
    BY <1>4 DEF BackoffEnds, ReapTakesChild, ReapFindsNoChild, ReapEnds, InstallShutDown, TakeChild,
       ChildExits, workerVars
  <2>2. HoldsType' /\ FlagFollowsEngine' /\ ReportsAreTrue'
    BY <2>1 DEF ReportsAreTrue
  <2>3. VerifiedPlaces' /\ NothingInstalledAfterShutdown' /\ InitializedHasSlot'
    BY <2>1
  <2>4. OneRespawner'
    BY <2>1
  <2>5. QED
    BY <2>2, <2>3, <2>4
<1>5. CASE RespawnLaunches(i)
  <2>1. /\ born' = born + 1 /\ born' \in 0..MaxWorkers /\ born \in Nat
        /\ \A w \in 1..born : feat'[w] = feat[w]
        /\ feat' \in [Workers -> SUBSET Features]
        /\ UNCHANGED <<reported, dead>>
        /\ ReportsAreTrue'
    BY <1>5, LaunchKeeps DEF RespawnLaunches
  <2>2. QED
    BY <1>5, <2>1 DEF RespawnLaunches
<1>6. CASE RespawnVerifies(i)
  <2>1. held[i] \in 1..born
    BY <1>6 DEF RespawnVerifies
  <2>2. /\ UNCHANGED <<born, feat, dead>>
        /\ reported' \in [Workers -> SUBSET SUBSET Features]
        /\ ReportsAreTrue'
        /\ Required \subseteq feat[held[i]]
    BY <1>6, <2>1, VerifyKeeps DEF RespawnVerifies
  <2>3. QED
    BY <1>6, <2>1, <2>2 DEF RespawnVerifies
<1>7. CASE RespawnRejects(i)
  <2>1. held[i] \in 1..born
    BY <1>7 DEF RespawnRejects
  <2>2. /\ UNCHANGED <<born, feat, dead>>
        /\ reported' \in [Workers -> SUBSET SUBSET Features]
        /\ ReportsAreTrue'
    BY <1>7, <2>1, VerifyKeeps DEF RespawnRejects
  <2>3. QED
    BY <1>7, <2>1, <2>2 DEF RespawnRejects
<1>8. CASE RespawnInstalls(i)
  BY <1>8 DEF RespawnInstalls, workerVars, ReportsAreTrue
<1>9. CASE InvokeClaimsRetry(i) \/ InvokeSkipsRetry(i) \/ InvokeAnswered(i)
  <2>1. UNCHANGED <<engineVars, held, mutex, born, dead, feat, reported>>
    BY <1>9 DEF InvokeClaimsRetry, InvokeSkipsRetry, InvokeAnswered, workerVars
  <2>2. \E p \in {"retrying", "sending", "noting"} : pc' = [pc EXCEPT ![i] = p]
    BY <1>9 DEF InvokeClaimsRetry, InvokeSkipsRetry, InvokeAnswered
  <2>3. pc[i] \in {"probe", "sending"}
    BY <1>9 DEF InvokeClaimsRetry, InvokeSkipsRetry, InvokeAnswered
  <2>4. HoldsType' /\ FlagFollowsEngine' /\ ReportsAreTrue'
    BY <2>1, <2>2 DEF ReportsAreTrue
  <2>5. VerifiedPlaces' /\ NothingInstalledAfterShutdown' /\ InitializedHasSlot'
    BY <2>1, <2>2, <2>3
  <2>6. OneRespawner'
    BY <2>1, <2>2, <2>3
  <2>7. QED
    BY <2>4, <2>5, <2>6
<1>10. CASE InvokeRetries(i)
  <2>1. held[i] \in 1..born
    BY <1>10 DEF InvokeRetries
  <2>2. /\ UNCHANGED <<born, feat, dead>>
        /\ reported' \in [Workers -> SUBSET SUBSET Features]
        /\ ReportsAreTrue'
    <3>1. CASE UNCHANGED workerVars
      BY <3>1 DEF workerVars, ReportsAreTrue
    <3>2. CASE ProbeAnswers(held[i])
      BY <2>1, <3>2, ProbeKeeps
    <3>3. QED
      BY <1>10, <3>1, <3>2 DEF InvokeRetries
  <2>3. QED
    BY <1>10, <2>1, <2>2 DEF InvokeRetries
<1>11. QED
  BY <1>1, <1>2, <1>3, <1>4, <1>5, <1>6, <1>7, <1>8, <1>9, <1>10 DEF CallerStep

\* The invariant holds in every reachable state.
THEOREM LifecycleInvariant == Spec => []LifecycleInv
<1>1. Init => LifecycleInv
  <2> SUFFICES ASSUME Init PROVE LifecycleInv
    OBVIOUS
  <2>1. HoldsType
    <3>1. mutex \in Callers \cup {NoCaller} /\ shutDown \in BOOLEAN
      BY DEF Init
    <3>2. feat \in [Workers -> SUBSET Features] /\ reported \in [Workers -> SUBSET SUBSET Features]
      BY DEF Init
    <3>3. /\ born \in 0..MaxWorkers /\ slot \in 0..born /\ fresh \in 0..born
          /\ held \in [Callers -> 0..born] /\ pc \in [Callers -> Points] /\ dead \subseteq 1..born
      BY BoundsAssumption DEF Init, NoWorker, Points
    <3>4. QED
      BY <3>1, <3>2, <3>3 DEF HoldsType
  <2>2. FlagFollowsEngine /\ ReportsAreTrue /\ NothingInstalledAfterShutdown /\ InitializedHasSlot
    BY DEF Init, FlagFollowsEngine, ReportsAreTrue, NothingInstalledAfterShutdown, InitializedHasSlot
  <2>3. VerifiedPlaces /\ OneRespawner
    BY CallersAssumption DEF Init, VerifiedPlaces, OneRespawner, Serving, Respawning
  <2>4. QED
    BY <2>1, <2>2, <2>3 DEF LifecycleInv
<1>2. LifecycleInv /\ [Next]_vars => LifecycleInv'
  <2> SUFFICES ASSUME LifecycleInv, [Next]_vars PROVE LifecycleInv'
    OBVIOUS
  <2>1. CASE InitializeStart \/ ShutdownStart \/ EngineStep
    BY <2>1, LifecycleInvEngine
  <2>2. ASSUME NEW i \in Callers,
               LookupFinds(i) \/ LookupFindsDead(i) \/ CallerStep(i) \/ InvokeCancelled(i)
        PROVE  LifecycleInv'
    BY <2>2, LifecycleInvCaller
  <2>3. ASSUME UNCHANGED <<engineVars, callerVars, born, feat, reported>>,
               dead' \subseteq 1..born
        PROVE  LifecycleInv'
    BY <2>3 DEF LifecycleInv, HoldsType, FlagFollowsEngine, ReportsAreTrue, VerifiedPlaces,
       OneRespawner, NothingInstalledAfterShutdown, InitializedHasSlot, Verified, engineVars, callerVars
  <2>4. ASSUME NEW w \in Workers, WorkerCrashes(w) \/ DeathObserved(w) PROVE LifecycleInv'
    <3>1. Referenced \subseteq 1..born
      BY DEF LifecycleInv, HoldsType, Referenced, NoWorker
    <3>2. dead' \subseteq 1..born
      <4>1. dead \subseteq 1..born
        BY DEF LifecycleInv, HoldsType
      <4>2. CASE WorkerCrashes(w)
        BY <4>1, <4>2 DEF WorkerCrashes, ChildExits
      <4>3. CASE DeathObserved(w)
        BY <3>1, <4>1, <4>3 DEF DeathObserved
      <4>4. QED
        BY <2>4, <4>2, <4>3
    <3>3. UNCHANGED <<engineVars, callerVars, born, feat, reported>>
      BY <2>4 DEF WorkerCrashes, ChildExits, DeathObserved
    <3>4. QED
      BY <2>3, <3>2, <3>3
  <2>5. CASE Tick \/ UNCHANGED vars
    BY <2>3, <2>5 DEF Tick, vars, workerVars, LifecycleInv, HoldsType
  <2>6. QED
    BY <2>1, <2>2, <2>4, <2>5 DEF Next
<1>3. QED
  BY <1>1, <1>2, PTL DEF Spec

\* After a shutdown has emptied the slot nothing is installed into it.
THEOREM ShutdownIsFinal == Spec => []NothingInstalledAfterShutdown
  BY LifecycleInvariant, PTL DEF LifecycleInv

\* A failed respawn never empties the slot of an initialized plugin.
THEOREM SlotIsKept == Spec => []InitializedHasSlot
  BY LifecycleInvariant, PTL DEF LifecycleInv

\* Respawns are serialized by the mutex.
THEOREM RespawnsAreSerialized == Spec => []OneRespawner
  BY LifecycleInvariant, PTL DEF LifecycleInv

\* No task goes to a worker that lacks a required feature.
THEOREM FailsClosed == Spec => []ServedOnlyIfUnderstood
<1>1. LifecycleInv => ServedOnlyIfUnderstood
  BY DEF LifecycleInv, VerifiedPlaces, Verified, ServedOnlyIfUnderstood
<1>2. QED
  BY <1>1, LifecycleInvariant, PTL

-----------------------------------------------------------------------------
(***************************************************************************)
(* Whoever takes a child stops it.  A process taken out of its client has  *)
(* exited, or the shutdown or the reaping that took it is waiting for it.  *)
(***************************************************************************)
TakenStops ==
    \A w \in taken :
        w \in exited \/ w \in Stopping \/ \E i \in Callers : pc[i] = "waiting" /\ held[i] = w

\* Steps that take no child.
LEMMA TakenKeeps ==
    ASSUME TakenStops, UNCHANGED taken, exited \subseteq exited',
           Stopping \subseteq exited' \cup Stopping',
           \A i \in Callers : pc[i] = "waiting" =>
              held[i] \in exited' \/ (pc'[i] = "waiting" /\ held'[i] = held[i])
    PROVE  TakenStops'
<1> SUFFICES ASSUME NEW w \in taken
             PROVE  \/ w \in exited' \/ w \in Stopping'
                    \/ \E i \in Callers : pc'[i] = "waiting" /\ held'[i] = w
  BY DEF TakenStops
<1>1. w \in exited \/ w \in Stopping \/ \E i \in Callers : pc[i] = "waiting" /\ held[i] = w
  BY DEF TakenStops
<1>2. QED
  BY <1>1

\* Nobody abandons a child it took, at whatever point shutdown, respawn and
\* cancellation meet.
THEOREM TakenInvariant == Spec => []TakenStops
<1>1. Init => TakenStops
  BY DEF Init, TakenStops
<1>2. LifecycleInv /\ TakenStops /\ [Next]_vars => TakenStops'
  <2> SUFFICES ASSUME LifecycleInv, TakenStops, [Next]_vars PROVE TakenStops'
    OBVIOUS
  <2>0. HoldsType
    BY DEF LifecycleInv
  <2>1. CASE InitializeStart \/ ShutdownStart \/ EngineStep
    <3>1. UNCHANGED <<pc, held>> /\ exited \subseteq exited'
      BY <2>1 DEF InitializeStart, ShutdownStart, EngineStep, InitializeLaunches, InitializeVerifies,
         InitializeInstalls, InitializeFails, ShutdownTakesSlot, ShutdownTakesChild,
         ShutdownFindsNoChild, ShutdownStops, TakeChild, ChildExits, Launch, VerifyPasses,
         VerifyFails, ProbeAnswers, callerVars, workerVars
    <3>2. CASE ShutdownTakesChild
      <4>1. taken' = taken \cup {fresh} /\ fresh' = fresh /\ engine = "stopping" /\ engine' = "waiting"
        BY <3>2 DEF ShutdownTakesChild, TakeChild
      <4>2. Stopping = {} /\ fresh \in Stopping'
        BY <4>1 DEF Stopping
      <4>3. QED
        BY <3>1, <4>1, <4>2 DEF TakenStops
    <3>3. CASE ~ShutdownTakesChild
      <4>1. UNCHANGED taken
        BY <2>1, <3>3 DEF InitializeStart, ShutdownStart, EngineStep, InitializeLaunches,
           InitializeVerifies, InitializeInstalls, InitializeFails, ShutdownTakesSlot,
           ShutdownFindsNoChild, ShutdownStops, ChildExits, Launch, VerifyPasses,
           VerifyFails, ProbeAnswers, workerVars
      <4>2. Stopping \subseteq exited'
        BY <2>1, <3>3 DEF InitializeStart, ShutdownStart, EngineStep, InitializeLaunches,
           InitializeVerifies, InitializeInstalls, InitializeFails, ShutdownTakesSlot,
           ShutdownFindsNoChild, ShutdownStops, ChildExits, Stopping
      <4>3. QED
        BY <3>1, <4>1, <4>2, TakenKeeps
    <3>4. QED
      BY <3>2, <3>3
  <2>2. ASSUME NEW i \in Callers,
               LookupFinds(i) \/ LookupFindsDead(i) \/ CallerStep(i) \/ InvokeCancelled(i)
        PROVE  TakenStops'
    <3>1. UNCHANGED <<engine, fresh>> /\ exited \subseteq exited'
      BY <2>2 DEF LookupFinds, LookupFindsDead, InvokeCancelled, CallerStep, RecheckFinds, RecheckShutDown,
         RespawnReserves, RespawnRefused, BackoffShutDown, BackoffEnds, ReapTakesChild,
         ReapFindsNoChild, ReapEnds, RespawnLaunches, RespawnFails, RespawnVerifies, RespawnRejects,
         RespawnInstalls, InstallShutDown, Discards, InvokeClaimsRetry, InvokeRetries,
         InvokeSkipsRetry, InvokeAnswered, InvokeFails, InvokeNotesHealthy, TakeChild, ChildExits,
         Launch, VerifyPasses, VerifyFails, ProbeAnswers, engineVars, workerVars
    <3>2. Stopping' = Stopping
      BY <3>1 DEF Stopping
    <3>3. \A j \in Callers \ {i} : pc'[j] = pc[j] /\ held'[j] = held[j]
      BY <2>0, <2>2 DEF HoldsType, LookupFinds, LookupFindsDead, InvokeCancelled, CallerStep, RecheckFinds,
         RecheckShutDown, RespawnReserves, RespawnRefused, BackoffShutDown, BackoffEnds, ReapTakesChild,
         ReapFindsNoChild, ReapEnds, RespawnLaunches, RespawnFails, RespawnVerifies, RespawnRejects,
         RespawnInstalls, InstallShutDown, Discards, InvokeClaimsRetry, InvokeRetries,
         InvokeSkipsRetry, InvokeAnswered, InvokeFails, InvokeNotesHealthy, Goto, Leave
    <3>4. CASE ReapTakesChild(i)
      <4>1. taken' = taken \cup {held[i]} /\ held' = held /\ pc[i] = "reaping" /\ pc'[i] = "waiting"
        BY <2>0, <3>4 DEF ReapTakesChild, TakeChild, Goto, HoldsType
      <4>2. QED
        BY <3>1, <3>2, <3>3, <4>1 DEF TakenStops
    <3>5. CASE ReapEnds(i) \/ (InvokeCancelled(i) /\ pc[i] = "waiting")
      <4>1. UNCHANGED taken /\ held[i] \in exited'
        BY <3>5 DEF ReapEnds, InvokeCancelled, ChildExits
      <4>2. QED
        BY <3>1, <3>2, <3>3, <4>1, TakenKeeps
    <3>6. CASE ~(ReapTakesChild(i) \/ ReapEnds(i)) /\ ~(InvokeCancelled(i) /\ pc[i] = "waiting")
      <4>1. UNCHANGED taken
        BY <2>2, <3>6 DEF LookupFinds, LookupFindsDead, InvokeCancelled, CallerStep, RecheckFinds,
           RecheckShutDown, RespawnReserves, RespawnRefused, BackoffShutDown, BackoffEnds,
           ReapFindsNoChild, RespawnLaunches, RespawnFails, RespawnVerifies, RespawnRejects,
           RespawnInstalls, InstallShutDown, Discards, InvokeClaimsRetry, InvokeRetries,
           InvokeSkipsRetry, InvokeAnswered, InvokeFails, InvokeNotesHealthy, ChildExits,
           Launch, VerifyPasses, VerifyFails, ProbeAnswers, workerVars
      <4>2. pc[i] # "waiting"
        BY <2>2, <3>6 DEF LookupFinds, LookupFindsDead, InvokeCancelled, CallerStep, RecheckFinds,
           RecheckShutDown, RespawnReserves, RespawnRefused, BackoffShutDown, BackoffEnds,
           ReapFindsNoChild, RespawnLaunches, RespawnFails, RespawnVerifies, RespawnRejects,
           RespawnInstalls, InstallShutDown, Discards, InvokeClaimsRetry, InvokeRetries,
           InvokeSkipsRetry, InvokeAnswered, InvokeFails, InvokeNotesHealthy
      <4>3. QED
        BY <3>1, <3>2, <3>3, <4>1, <4>2, TakenKeeps
    <3>7. QED
      BY <3>4, <3>5, <3>6
  <2>3. ASSUME NEW w \in Workers, WorkerCrashes(w) \/ DeathObserved(w) PROVE TakenStops'
    <3>1. UNCHANGED <<taken, engine, fresh, pc, held>> /\ exited \subseteq exited'
      BY <2>3 DEF WorkerCrashes, DeathObserved, ChildExits, engineVars, callerVars
    <3>2. QED
      BY <3>1, TakenKeeps DEF Stopping
  <2>4. CASE Tick \/ UNCHANGED vars
    <3>1. UNCHANGED <<taken, engine, fresh, pc, held, exited>>
      BY <2>4 DEF Tick, vars, engineVars, callerVars, workerVars
    <3>2. QED
      BY <3>1, TakenKeeps DEF Stopping
  <2>5. QED
    BY <2>1, <2>2, <2>3, <2>4 DEF Next
<1>3. QED
  BY <1>1, <1>2, LifecycleInvariant, PTL DEF Spec

-----------------------------------------------------------------------------
(***************************************************************************)
(* One process for each initialize.  A worker goes back to the initialize  *)
(* that launched it or the first of the workers it replaces.  Of one       *)
(* descent at most one worker runs beside the one a shutdown is stopping:  *)
(* a respawn replaces the worker in the slot, launches only when that has  *)
(* exited or is the shutdown's to stop, and what it launched is in nobody  *)
(* else's hands until it is installed.  That holds across a shutdown and a *)
(* further initialize under a respawn's feet, whose workers then are of    *)
(* another descent.                                                        *)
(***************************************************************************)
Live == Referenced \ (exited \cup Stopping)

DescentType ==
    /\ inits \in Nat
    /\ descent \in [Workers -> Nat]
    /\ \A w \in 1..born : descent[w] \in 1..inits

\* The worker of an initialize under way is the first of its descent, and
\* nobody else has it.
FreshIsNew ==
    /\ engine \notin {"verifying", "installing", "stopping", "waiting"} => fresh = NoWorker
    /\ engine = "launching" => inits # 0 /\ \A w \in 1..born : descent[w] # inits
    /\ engine \in {"verifying", "installing"} =>
          /\ \A w \in 1..born : descent[w] = inits <=> w = fresh
          /\ fresh # slot /\ \A i \in Callers : held[i] # fresh

OnePerDescent == \A v, w \in Live : descent[v] = descent[w] => v = w

\* A respawner that has launched its replacement.
Launched(i) == pc[i] \in {"verifying", "installing", "discarding"}

\* What runs of the slot's descent is the worker in the slot or the one about
\* to replace it.
SlotDescent ==
    slot # NoWorker =>
        \A v \in Live : descent[v] = descent[slot] =>
            v = slot \/ \E i \in Callers : Launched(i) /\ held[i] = v

RespawnerDescent ==
    \A i \in Callers :
        /\ pc[i] \in Respawning =>
              held[i] # NoWorker /\ \A v \in Live : descent[v] = descent[held[i]] => v = held[i]
        /\ pc[i] = "launching" => held[i] \notin Live
        /\ Launched(i) =>
              held[i] \notin {slot, fresh} /\ \A j \in Callers \ {i} : held[j] # held[i]

DescentInv == DescentType /\ FreshIsNew /\ OnePerDescent /\ SlotDescent /\ RespawnerDescent

\* Only launched workers are referenced.
LEMMA LiveIsBorn ==
    ASSUME HoldsType
    PROVE  /\ born \in Nat /\ Live \subseteq 1..born /\ 1..born \subseteq Workers
           /\ \A i \in Callers : held[i] # NoWorker => held[i] \in 1..born
           /\ slot # NoWorker => slot \in 1..born
           /\ fresh # NoWorker => fresh \in 1..born
  BY BoundsAssumption DEF HoldsType, Live, Referenced, NoWorker, Workers

\* Fewer references and more exits leave fewer processes.
LEMMA LiveShrinks ==
    ASSUME slot' \in {slot, fresh, NoWorker}, fresh' \in {slot, fresh, NoWorker},
           \A i \in Callers : held'[i] \in {held[i], slot, NoWorker},
           exited \subseteq exited', Stopping \subseteq exited' \cup Stopping'
    PROVE  Live' \subseteq Live
<1>1. Referenced' \subseteq Referenced
  BY DEF Referenced
<1>2. QED
  BY <1>1 DEF Live

\* Steps that no respawn is concerned in: of a process, of the clock, or of a
\* caller i that looks a worker up, uses it or leaves.
LEMMA BystanderKeeps ==
    ASSUME LifecycleInv, DescentInv, UNCHANGED <<engineVars, born, descent>>,
           exited \subseteq exited',
           \A i \in Callers :
              \/ pc'[i] = pc[i] /\ held'[i] = held[i]
              \/ /\ pc[i] \notin Respawning /\ pc'[i] \notin Respawning
                 /\ held'[i] \in {held[i], slot, NoWorker}
    PROVE  DescentInv'
<1>0. HoldsType
  BY DEF LifecycleInv
<1>1. Live' \subseteq Live
  BY LiveShrinks DEF engineVars, Stopping
<1>2. UNCHANGED <<slot, engine, fresh, inits>>
  BY DEF engineVars
<1>3. DescentType' /\ OnePerDescent'
  BY <1>1, <1>2 DEF DescentInv, DescentType, OnePerDescent
<1>4. ASSUME NEW i \in Callers, Launched(i) \/ Launched(i)' PROVE pc'[i] = pc[i] /\ held'[i] = held[i]
  BY <1>4 DEF Launched, Respawning
<1>5. FreshIsNew'
  <2>1. ASSUME engine \in {"verifying", "installing"} PROVE fresh # NoWorker
    BY <2>1 DEF LifecycleInv, VerifiedPlaces, Verified
  <2>2. QED
    BY <1>2, <2>1 DEF DescentInv, FreshIsNew
<1>6. SlotDescent'
  BY <1>1, <1>2, <1>4 DEF DescentInv, SlotDescent, Launched
<1>7. ASSUME NEW i \in Callers, pc'[i] \in Respawning
      PROVE  /\ held'[i] # NoWorker /\ \A v \in Live' : descent'[v] = descent'[held'[i]] => v = held'[i]
             /\ pc'[i] = "launching" => held'[i] \notin Live'
             /\ Launched(i)' =>
                   held'[i] \notin {slot', fresh'} /\ \A j \in Callers \ {i} : held'[j] # held'[i]
  <2>1. pc'[i] = pc[i] /\ held'[i] = held[i]
    BY <1>7
  <2>2. /\ held[i] # NoWorker /\ \A v \in Live : descent[v] = descent[held[i]] => v = held[i]
        /\ pc[i] = "launching" => held[i] \notin Live
        /\ Launched(i) =>
              held[i] \notin {slot, fresh} /\ \A j \in Callers \ {i} : held[j] # held[i]
    BY <1>7, <2>1 DEF DescentInv, RespawnerDescent
  <2>3. Launched(i)' => Launched(i)
    BY <2>1 DEF Launched
  <2>4. ASSUME Launched(i), NEW j \in Callers \ {i} PROVE held'[j] # held[i]
    <3>1. held'[j] \in {held[j], slot, NoWorker}
      OBVIOUS
    <3>2. QED
      BY <2>2, <2>4, <3>1
  <2>5. QED
    BY <1>1, <1>2, <2>1, <2>2, <2>3, <2>4
<1>8. RespawnerDescent'
  BY <1>7 DEF RespawnerDescent, Launched, Respawning
<1>9. QED
  BY <1>3, <1>5, <1>6, <1>8 DEF DescentInv

\* A respawner gives up, at any point: what it launched goes with it.
LEMMA GivesUpKeeps ==
    ASSUME LifecycleInv, DescentInv, NEW i \in Callers, pc[i] \in Respawning,
           Leave(i), UNCHANGED <<engineVars, born, descent>>, exited \subseteq exited'
    PROVE  DescentInv'
<1>1. /\ UNCHANGED <<slot, engine, fresh, inits>>
      /\ pc'[i] = "idle" /\ held'[i] = NoWorker
      /\ \A j \in Callers \ {i} :
            pc'[j] = pc[j] /\ held'[j] = held[j] /\ pc[j] \notin Respawning
  BY CallersAssumption DEF engineVars, LifecycleInv, HoldsType, OneRespawner, Leave, Goto
<1>2. Live' \subseteq Live
  BY <1>1, LiveShrinks DEF Stopping
<1>3. DescentType' /\ OnePerDescent'
  BY <1>1, <1>2 DEF DescentInv, DescentType, OnePerDescent
<1>4. FreshIsNew'
  <2>1. ASSUME engine \in {"verifying", "installing"} PROVE fresh # NoWorker
    BY <2>1 DEF LifecycleInv, VerifiedPlaces, Verified
  <2>2. QED
    BY <1>1, <2>1 DEF DescentInv, FreshIsNew
<1>5. RespawnerDescent'
  BY <1>1 DEF RespawnerDescent, Launched, Respawning
<1>6. ASSUME slot # NoWorker, NEW v \in Live', descent[v] = descent[slot] PROVE v = slot
  <2>1. v = slot \/ \E j \in Callers : Launched(j) /\ held[j] = v
    BY <1>2, <1>6 DEF DescentInv, SlotDescent
  <2>2. ASSUME NEW j \in Callers, Launched(j), held[j] = v PROVE FALSE
    <3>1. j = i
      BY <1>1, <2>2 DEF Launched, Respawning
    <3>2. held[i] \notin {slot, fresh} /\ \A k \in Callers \ {i} : held[k] # held[i]
      BY <2>2, <3>1 DEF DescentInv, RespawnerDescent
    <3>3. held[i] \notin Referenced'
      BY <1>1, <3>2 DEF Referenced
    <3>4. QED
      BY <1>6, <2>2, <3>1, <3>3 DEF Live
  <2>3. QED
    BY <2>1, <2>2
<1>7. SlotDescent'
  BY <1>1, <1>6 DEF SlotDescent
<1>8. QED
  BY <1>3, <1>4, <1>5, <1>7 DEF DescentInv

\* The steps of a respawn.
LEMMA RespawnKeeps ==
    ASSUME LifecycleInv, DescentInv, TakenStops, NEW i \in Callers,
           \/ RespawnReserves(i) \/ BackoffEnds(i) \/ ReapTakesChild(i) \/ ReapFindsNoChild(i)
           \/ ReapEnds(i) \/ RespawnLaunches(i) \/ RespawnVerifies(i) \/ RespawnRejects(i)
           \/ InstallShutDown(i)
    PROVE  DescentInv'
<1>0. HoldsType /\ DescentType
  BY DEF LifecycleInv, DescentInv
<1>1. UNCHANGED <<slot, engine, fresh, inits, Stopping>>
  BY DEF RespawnReserves, BackoffEnds, ReapTakesChild, ReapFindsNoChild, ReapEnds, RespawnLaunches,
     RespawnVerifies, RespawnRejects, InstallShutDown, engineVars, Stopping
<1>f. ASSUME engine \in {"verifying", "installing"} PROVE fresh # NoWorker /\ fresh \in 1..born
  BY <1>0, <1>f, LiveIsBorn DEF LifecycleInv, VerifiedPlaces, Verified
<1>2. CASE RespawnReserves(i)
  <2>1. /\ mutex = NoCaller /\ pc'[i] = "backoff" /\ held'[i] = slot
        /\ slot # NoWorker /\ UNCHANGED <<exited, born, descent>>
        /\ \A j \in Callers \ {i} : pc'[j] = pc[j] /\ held'[j] = held[j]
    BY <1>0, <1>2 DEF RespawnReserves, Goto, workerVars, NoWorker, HoldsType
  <2>2. \A j \in Callers : pc[j] \notin Respawning
    BY <2>1, CallersAssumption DEF LifecycleInv, OneRespawner
  <2>3. Live' \subseteq Live
    BY <1>1, <2>1, LiveShrinks
  <2>4. \A v \in Live : descent[v] = descent[slot] => v = slot
    BY <2>1, <2>2 DEF DescentInv, SlotDescent, Launched, Respawning
  <2>5. DescentType' /\ OnePerDescent' /\ FreshIsNew'
    BY <1>1, <1>f, <2>1, <2>3 DEF DescentInv, DescentType, OnePerDescent, FreshIsNew
  <2>6. SlotDescent'
    BY <1>1, <2>1, <2>3, <2>4 DEF SlotDescent
  <2>7. RespawnerDescent'
    BY <1>1, <2>1, <2>2, <2>3, <2>4 DEF RespawnerDescent, Launched, Respawning
  <2>8. QED
    BY <2>5, <2>6, <2>7 DEF DescentInv
<1>3. ASSUME pc[i] \in Respawning PROVE \A j \in Callers \ {i} : pc[j] \notin Respawning
  BY <1>3, CallersAssumption DEF LifecycleInv, OneRespawner
<1>4. CASE BackoffEnds(i) \/ ReapTakesChild(i) \/ ReapFindsNoChild(i) \/ ReapEnds(i)
  <2>1. /\ pc[i] \in {"backoff", "reaping", "waiting"} /\ pc'[i] \in {"reaping", "waiting", "launching"}
        /\ UNCHANGED <<held, born, descent>> /\ exited \subseteq exited'
        /\ \A j \in Callers \ {i} : pc'[j] = pc[j]
    BY <1>0, <1>4 DEF BackoffEnds, ReapTakesChild, ReapFindsNoChild, ReapEnds, TakeChild, ChildExits,
       Goto, HoldsType, workerVars
  <2>1a. ASSUME pc'[i] = "launching" PROVE held[i] \notin Live'
    <3>1. CASE ReapEnds(i)
      BY <3>1 DEF ReapEnds, ChildExits, Live
    <3>2. CASE ReapFindsNoChild(i)
      <4>1. held[i] \in taken /\ pc[i] = "reaping"
        BY <3>2 DEF ReapFindsNoChild
      <4>2. \A j \in Callers : pc[j] # "waiting"
        BY <1>3, <4>1 DEF Respawning
      <4>3. held[i] \in exited \/ held[i] \in Stopping
        BY <4>1, <4>2 DEF TakenStops
      <4>4. QED
        BY <1>1, <2>1, <4>3 DEF Live
    <3>3. CASE BackoffEnds(i) \/ ReapTakesChild(i)
      BY <1>0, <2>1a, <3>3 DEF BackoffEnds, ReapTakesChild, Goto, HoldsType
    <3>4. QED
      BY <1>4, <3>1, <3>2, <3>3
  <2>2. \A j \in Callers \ {i} : pc[j] \notin Respawning
    BY <1>3, <2>1 DEF Respawning
  <2>3. Live' \subseteq Live
    BY <1>1, <2>1, LiveShrinks
  <2>4. DescentType' /\ OnePerDescent' /\ FreshIsNew'
    BY <1>1, <2>1, <2>3 DEF DescentInv, DescentType, OnePerDescent, FreshIsNew
  <2>5. SlotDescent'
    <3>1. \A j \in Callers : ~Launched(j)
      BY <2>1, <2>2 DEF Launched, Respawning
    <3>2. QED
      BY <1>1, <2>1, <2>3, <3>1 DEF DescentInv, SlotDescent
  <2>6. held[i] # NoWorker /\ \A v \in Live : descent[v] = descent[held[i]] => v = held[i]
    BY <2>1 DEF DescentInv, RespawnerDescent, Respawning
  <2>7. RespawnerDescent'
    BY <1>1, <2>1, <2>1a, <2>2, <2>3, <2>6 DEF RespawnerDescent, Launched, Respawning
  <2>8. QED
    BY <2>4, <2>5, <2>7 DEF DescentInv
<1>5. CASE RespawnLaunches(i)
  <2> DEFINE new == born + 1
             line == descent[held[i]]
  <2>1. /\ pc[i] = "launching" /\ pc'[i] = "verifying" /\ held'[i] = new
        /\ born' = new /\ born < MaxWorkers /\ descent' = [descent EXCEPT ![new] = line]
        /\ UNCHANGED exited
        /\ \A j \in Callers \ {i} : pc'[j] = pc[j] /\ held'[j] = held[j]
    BY <1>0, <1>5 DEF RespawnLaunches, Goto, Launch, HoldsType
  <2>2. \A j \in Callers \ {i} : pc[j] \notin Respawning
    BY <1>3, <2>1 DEF Respawning
  <2>3. /\ held[i] # NoWorker /\ \A v \in Live : descent[v] = line => v = held[i]
        /\ held[i] \notin Live
    BY <2>1 DEF DescentInv, RespawnerDescent, Respawning
  <2>4. /\ born \in Nat /\ Live \subseteq 1..born /\ held[i] \in 1..born /\ 1..born \subseteq Workers
        /\ slot # NoWorker => slot \in 1..born
    BY <1>0, <2>3, LiveIsBorn
  <2>5. new \in Workers /\ new # NoWorker /\ new \notin 1..born /\ 1..new = 1..born \cup {new}
    BY <2>1, <2>4, BoundsAssumption DEF Workers, NoWorker
  <2>6. /\ line \in 1..inits /\ line \in Nat
        /\ descent'[new] = line /\ \A w \in 1..born : descent'[w] = descent[w]
        /\ descent' \in [Workers -> Nat]
    BY <1>0, <2>1, <2>4, <2>5 DEF DescentType
  <2> HIDE DEF new, line
  <2>7. Live' \subseteq Live \cup {new}
    BY <1>1, <2>1 DEF Live, Referenced
  <2>8. \A v \in Live : descent[v] # line
    BY <2>3 DEF Live
  <2>9. DescentType'
    BY <1>0, <1>1, <2>1, <2>5, <2>6 DEF DescentType
  <2>10. OnePerDescent'
    BY <2>4, <2>6, <2>7, <2>8 DEF DescentInv, OnePerDescent
  <2>11. FreshIsNew'
    <3>1. engine \notin {"verifying", "installing", "stopping", "waiting"} => fresh = NoWorker
      BY DEF DescentInv, FreshIsNew
    <3>2. ASSUME engine = "launching" PROVE inits # 0 /\ \A w \in 1..new : descent'[w] # inits
      BY <2>4, <2>5, <2>6, <3>2 DEF DescentInv, FreshIsNew, line
    <3>3. ASSUME engine \in {"verifying", "installing"}
          PROVE  /\ \A w \in 1..new : descent'[w] = inits <=> w = fresh
                 /\ fresh # slot /\ \A j \in Callers : held'[j] # fresh
      <4>1. /\ \A w \in 1..born : descent[w] = inits <=> w = fresh
            /\ fresh # slot /\ \A j \in Callers : held[j] # fresh
        BY <3>3 DEF DescentInv, FreshIsNew
      <4>2. line # inits /\ fresh # new
        BY <1>f, <2>4, <2>5, <3>3, <4>1 DEF line
      <4>3. QED
        BY <2>1, <2>5, <2>6, <4>1, <4>2
    <3>4. QED
      BY <1>1, <2>1, <3>1, <3>2, <3>3 DEF FreshIsNew
  <2>12. SlotDescent'
    <3>1. \A j \in Callers : ~Launched(j)
      BY <2>1, <2>2 DEF Launched, Respawning
    <3>2. ASSUME slot # NoWorker, NEW v \in Live', descent'[v] = descent'[slot]
          PROVE  v = slot \/ v = new
      <4>1. CASE v \in Live
        BY <2>4, <2>6, <3>1, <3>2, <4>1 DEF DescentInv, SlotDescent
      <4>2. QED
        BY <2>7, <4>1
    <3>3. Launched(i)' /\ held'[i] = new
      BY <2>1 DEF Launched
    <3>4. QED
      BY <1>1, <3>2, <3>3 DEF SlotDescent
  <2>13. RespawnerDescent'
    <3>1. ASSUME NEW v \in Live', descent'[v] = descent'[held'[i]]
          PROVE  v = held'[i]
      <4>1. CASE v \in Live
        <5>1. descent'[v] = descent[v] /\ descent[v] # line
          BY <2>4, <2>6, <2>8, <4>1
        <5>2. QED
          BY <2>1, <2>6, <3>1, <5>1
      <4>2. QED
        BY <2>1, <2>7, <4>1
    <3>2. held'[i] # NoWorker /\ held'[i] \notin {slot, fresh} /\ \A j \in Callers \ {i} : held'[j] # held'[i]
      <4>1. slot # new /\ fresh # new /\ \A j \in Callers : held[j] # new
        BY <1>0, <2>5, LiveIsBorn
      <4>2. QED
        BY <2>1, <2>5, <4>1
    <3>3. QED
      BY <1>1, <2>1, <2>2, <3>1, <3>2 DEF RespawnerDescent, Launched, Respawning
  <2>14. QED
    BY <2>9, <2>10, <2>11, <2>12, <2>13 DEF DescentInv
<1>6. CASE RespawnVerifies(i) \/ RespawnRejects(i) \/ InstallShutDown(i)
  <2>1. /\ pc[i] \in {"verifying", "installing"} /\ pc'[i] \in {"installing", "discarding"}
        /\ UNCHANGED <<held, exited, born, descent>>
        /\ \A j \in Callers \ {i} : pc'[j] = pc[j]
    BY <1>0, <1>6 DEF RespawnVerifies, RespawnRejects, InstallShutDown, Goto, VerifyPasses, VerifyFails,
       ProbeAnswers, workerVars, HoldsType
  <2>2. Live' = Live
    BY <1>1, <2>1 DEF Live, Referenced
  <2>3. \A j \in Callers : Launched(j)' <=> Launched(j)
    BY <2>1 DEF Launched
  <2>4. DescentType' /\ OnePerDescent' /\ FreshIsNew' /\ SlotDescent'
    BY <1>1, <2>1, <2>2, <2>3 DEF DescentInv, DescentType, OnePerDescent, FreshIsNew, SlotDescent
  <2>5. RespawnerDescent'
    BY <1>1, <2>1, <2>2, <2>3 DEF DescentInv, RespawnerDescent, Respawning
  <2>6. QED
    BY <2>4, <2>5 DEF DescentInv
<1>7. QED
  BY <1>2, <1>4, <1>5, <1>6

\* The replacement becomes everybody's worker.
LEMMA InstallKeeps ==
    ASSUME LifecycleInv, DescentInv, NEW i \in Callers, RespawnInstalls(i)
    PROVE  DescentInv'
<1>1. /\ pc[i] = "installing" /\ pc'[i] = "probe" /\ slot' = held[i]
      /\ UNCHANGED <<held, engine, fresh, inits, exited, born, descent>>
      /\ \A j \in Callers \ {i} : pc'[j] = pc[j] /\ pc[j] \notin Respawning
  BY CallersAssumption
     DEF LifecycleInv, HoldsType, RespawnInstalls, Goto, OneRespawner, Respawning, workerVars
<1>2. Live' \subseteq Live
  BY <1>1 DEF Live, Referenced, Stopping
<1>3. /\ \A v \in Live : descent[v] = descent[held[i]] => v = held[i]
      /\ held[i] \notin {slot, fresh}
  BY <1>1 DEF DescentInv, RespawnerDescent, Respawning, Launched
<1>4. DescentType' /\ OnePerDescent' /\ FreshIsNew'
  BY <1>1, <1>2, <1>3 DEF DescentInv, DescentType, OnePerDescent, FreshIsNew
<1>5. SlotDescent'
  BY <1>1, <1>2, <1>3 DEF SlotDescent
<1>6. RespawnerDescent'
  BY <1>1 DEF RespawnerDescent, Respawning, Launched
<1>7. QED
  BY <1>4, <1>5, <1>6 DEF DescentInv

\* initialize: its worker is of a descent of its own, whatever respawn of an
\* earlier one is still under way.
LEMMA InitializeKeeps ==
    ASSUME LifecycleInv, DescentInv,
           \/ InitializeStart \/ InitializeLaunches \/ InitializeVerifies
           \/ InitializeInstalls \/ InitializeFails
    PROVE  DescentInv'
<1>0. HoldsType /\ DescentType /\ FreshIsNew
  BY DEF LifecycleInv, DescentInv
<1>1. UNCHANGED <<pc, held, exited>> /\ \A i \in Callers : Launched(i)' <=> Launched(i)
  BY DEF InitializeStart, InitializeLaunches, InitializeVerifies, InitializeInstalls, InitializeFails,
     callerVars, workerVars, Launch, VerifyPasses, VerifyFails, ProbeAnswers, Launched
<1>s. Stopping = {} /\ Stopping' = {}
  BY DEF InitializeStart, InitializeLaunches, InitializeVerifies, InitializeInstalls, InitializeFails, Stopping
<1>b. /\ born \in Nat /\ Live \subseteq 1..born /\ 1..born \subseteq Workers
      /\ \A i \in Callers : held[i] # NoWorker => held[i] \in 1..born
      /\ slot # NoWorker => slot \in 1..born
  BY <1>0, LiveIsBorn
<1>2. CASE InitializeStart
  <2>1. /\ UNCHANGED <<slot, fresh, born, descent>> /\ inits' = inits + 1 /\ engine' = "launching"
        /\ fresh = NoWorker
    BY <1>0, <1>2 DEF InitializeStart, workerVars, FreshIsNew
  <2>2. Live' = Live
    BY <1>1, <1>s, <2>1 DEF Live, Referenced
  <2>3. DescentType' /\ FreshIsNew'
    BY <1>0, <2>1 DEF DescentType, FreshIsNew
  <2>4. OnePerDescent' /\ SlotDescent' /\ RespawnerDescent'
    BY <1>1, <2>1, <2>2 DEF DescentInv, OnePerDescent, SlotDescent, RespawnerDescent
  <2>5. QED
    BY <2>3, <2>4 DEF DescentInv
<1>3. CASE InitializeLaunches
  <2> DEFINE new == born + 1
  <2>1. /\ engine = "launching" /\ engine' = "verifying" /\ fresh' = new /\ fresh = NoWorker
        /\ born' = new /\ born < MaxWorkers /\ descent' = [descent EXCEPT ![new] = inits]
        /\ UNCHANGED <<slot, inits>>
    BY <1>0, <1>3 DEF InitializeLaunches, Launch, FreshIsNew
  <2>2. new \in Workers /\ new # NoWorker /\ new \notin 1..born /\ 1..new = 1..born \cup {new}
    BY <1>b, <2>1, BoundsAssumption DEF Workers, NoWorker
  <2>3. /\ descent'[new] = inits /\ \A w \in 1..born : descent'[w] = descent[w] /\ descent[w] # inits
        /\ descent' \in [Workers -> Nat]
    BY <1>0, <1>b, <2>1, <2>2 DEF DescentType, FreshIsNew
  <2>i. inits \in 1..inits
    <3>1. inits \in Nat /\ inits # 0
      BY <1>0, <2>1 DEF DescentType, FreshIsNew
    <3>2. QED
      BY <3>1
  <2> HIDE DEF new
  <2>4. Live' \subseteq Live \cup {new}
    BY <1>1, <1>s, <2>1 DEF Live, Referenced
  <2>5. DescentType'
    BY <1>0, <2>1, <2>2, <2>3, <2>i DEF DescentType
  <2>6. slot # new /\ \A j \in Callers : held[j] # new
    BY <1>b, <2>2
  <2>7. FreshIsNew'
    BY <1>1, <2>1, <2>2, <2>3, <2>6 DEF FreshIsNew
  <2>8. OnePerDescent'
    BY <1>b, <2>3, <2>4 DEF DescentInv, OnePerDescent
  <2>9. SlotDescent'
    BY <1>1, <1>b, <2>1, <2>3, <2>4 DEF DescentInv, SlotDescent
  <2>10. RespawnerDescent'
    <3>1. ASSUME NEW i \in Callers, held[i] # NoWorker,
                 \A v \in Live : descent[v] = descent[held[i]] => v = held[i]
          PROVE  \A v \in Live' : descent'[v] = descent'[held[i]] => v = held[i]
      BY <1>b, <2>3, <2>4, <3>1
    <3>2. QED
      BY <1>1, <2>1, <2>4, <2>6, <3>1 DEF DescentInv, RespawnerDescent
  <2>11. QED
    BY <2>5, <2>7, <2>8, <2>9, <2>10 DEF DescentInv
<1>4. CASE InitializeVerifies
  <2>1. /\ UNCHANGED <<slot, fresh, inits, born, descent>>
        /\ engine = "verifying" /\ engine' = "installing"
    BY <1>4 DEF InitializeVerifies, VerifyPasses, ProbeAnswers, workerVars
  <2>2. Live' = Live
    BY <1>1, <1>s, <2>1 DEF Live, Referenced
  <2>3. DescentType' /\ FreshIsNew'
    BY <1>0, <1>1, <2>1 DEF DescentType, FreshIsNew
  <2>4. OnePerDescent' /\ SlotDescent' /\ RespawnerDescent'
    BY <1>1, <2>1, <2>2 DEF DescentInv, OnePerDescent, SlotDescent, RespawnerDescent
  <2>5. QED
    BY <2>3, <2>4 DEF DescentInv
<1>5. CASE InitializeInstalls
  <2>1. /\ UNCHANGED <<inits, born, descent>> /\ engine = "installing" /\ engine' = "up"
        /\ slot' = fresh /\ fresh' = NoWorker /\ fresh # NoWorker /\ fresh \in 1..born
    BY <1>0, <1>5, LiveIsBorn DEF InitializeInstalls, workerVars, LifecycleInv, VerifiedPlaces, Verified
  <2>2. Live' \subseteq Live
    BY <1>1, <1>s, <2>1 DEF Live, Referenced
  <2>3. \A w \in Live : descent[w] = descent[fresh] => w = fresh
    BY <1>0, <1>b, <2>1 DEF FreshIsNew
  <2>4. DescentType' /\ FreshIsNew' /\ OnePerDescent'
    BY <1>0, <2>1, <2>2 DEF DescentType, FreshIsNew, DescentInv, OnePerDescent
  <2>5. SlotDescent'
    BY <2>1, <2>2, <2>3 DEF SlotDescent
  <2>6. \A i \in Callers : held[i] # fresh
    BY <1>0, <2>1 DEF FreshIsNew
  <2>7. RespawnerDescent'
    <3>1. ASSUME NEW i \in Callers, Launched(i) PROVE held[i] # NoWorker
      BY <3>1 DEF DescentInv, RespawnerDescent, Launched, Respawning
    <3>2. QED
      BY <1>1, <2>1, <2>2, <2>6, <3>1 DEF DescentInv, RespawnerDescent
  <2>8. QED
    BY <2>4, <2>5, <2>7 DEF DescentInv
<1>6. CASE InitializeFails
  <2>1. /\ UNCHANGED <<slot, inits, born, descent>> /\ engine' = "off" /\ fresh' = NoWorker
    BY <1>6 DEF InitializeFails, VerifyFails, ProbeAnswers, workerVars
  <2>2. Live' \subseteq Live
    BY <1>1, <1>s, <2>1 DEF Live, Referenced
  <2>3. DescentType' /\ FreshIsNew' /\ OnePerDescent'
    BY <1>0, <2>1, <2>2 DEF DescentType, FreshIsNew, DescentInv, OnePerDescent
  <2>4. SlotDescent'
    BY <1>1, <2>1, <2>2 DEF DescentInv, SlotDescent
  <2>5. RespawnerDescent'
    <3>1. ASSUME NEW i \in Callers, Launched(i) PROVE held[i] # NoWorker
      BY <3>1 DEF DescentInv, RespawnerDescent, Launched, Respawning
    <3>2. QED
      BY <1>1, <2>1, <2>2, <3>1 DEF DescentInv, RespawnerDescent
  <2>6. QED
    BY <2>3, <2>4, <2>5 DEF DescentInv
<1>7. QED
  BY <1>2, <1>3, <1>4, <1>5, <1>6

\* shutdown: the worker goes from the slot to the engine's hand, and exits
\* unless a respawn is reaping it.
LEMMA ShutdownKeeps ==
    ASSUME LifecycleInv, DescentInv,
           \/ ShutdownStart \/ ShutdownTakesSlot \/ ShutdownTakesChild
           \/ ShutdownFindsNoChild \/ ShutdownStops
    PROVE  DescentInv'
<1>1. /\ UNCHANGED <<pc, held, inits, born, descent>> /\ exited \subseteq exited'
      /\ \A i \in Callers : Launched(i)' <=> Launched(i)
  BY DEF ShutdownStart, ShutdownTakesSlot, ShutdownTakesChild, ShutdownFindsNoChild, ShutdownStops,
     TakeChild, ChildExits, callerVars, workerVars, Launched
<1>2. /\ slot' \in {slot, NoWorker} /\ fresh' \in {slot, fresh, NoWorker}
      /\ engine' \in {"flagged", "stopping", "waiting", "off"}
      /\ engine' \notin {"stopping", "waiting"} => fresh' = NoWorker
      /\ Stopping \subseteq exited'
  BY DEF ShutdownStart, ShutdownTakesSlot, ShutdownTakesChild, ShutdownFindsNoChild, ShutdownStops,
     TakeChild, ChildExits, Stopping, DescentInv, FreshIsNew
<1>3. Live' \subseteq Live
  BY <1>1, <1>2, LiveShrinks
<1>4. DescentType' /\ FreshIsNew' /\ OnePerDescent'
  BY <1>1, <1>2, <1>3 DEF DescentInv, DescentType, FreshIsNew, OnePerDescent
<1>5. SlotDescent'
  BY <1>1, <1>2, <1>3 DEF DescentInv, SlotDescent
<1>6. RespawnerDescent'
  <2>1. ASSUME NEW i \in Callers, Launched(i) PROVE held[i] \notin {slot, fresh, NoWorker}
    BY <2>1 DEF DescentInv, RespawnerDescent, Launched, Respawning
  <2>2. QED
    BY <1>1, <1>2, <1>3, <2>1 DEF DescentInv, RespawnerDescent
<1>7. QED
  BY <1>4, <1>5, <1>6 DEF DescentInv

\* The steps of a caller.
LEMMA CallerKeeps ==
    ASSUME LifecycleInv, DescentInv, TakenStops, NEW i \in Callers,
           LookupFinds(i) \/ LookupFindsDead(i) \/ CallerStep(i) \/ InvokeCancelled(i)
    PROVE  DescentInv'
<1>1. CASE \/ RespawnReserves(i) \/ BackoffEnds(i) \/ ReapTakesChild(i) \/ ReapFindsNoChild(i)
           \/ ReapEnds(i) \/ RespawnLaunches(i) \/ RespawnVerifies(i) \/ RespawnRejects(i)
           \/ InstallShutDown(i)
  BY <1>1, RespawnKeeps
<1>2. CASE RespawnInstalls(i)
  BY <1>2, InstallKeeps
<1>3. ASSUME Leave(i), UNCHANGED <<engineVars, born, descent>>, exited \subseteq exited'
      PROVE  DescentInv'
  <2>1. CASE pc[i] \in Respawning
    BY <1>3, <2>1, GivesUpKeeps
  <2>2. CASE pc[i] \notin Respawning
    <3>1. /\ pc'[i] = "idle" /\ held'[i] = NoWorker
          /\ \A j \in Callers \ {i} : pc'[j] = pc[j] /\ held'[j] = held[j]
      BY <1>3 DEF Leave, Goto, LifecycleInv, HoldsType
    <3>2. QED
      BY <1>3, <2>2, <3>1, BystanderKeeps DEF Respawning
  <2>3. QED
    BY <2>1, <2>2
<1>4. CASE \/ RecheckShutDown(i) \/ RespawnRefused(i) \/ BackoffShutDown(i) \/ RespawnFails(i)
           \/ Discards(i) \/ InvokeFails(i) \/ InvokeNotesHealthy(i) \/ InvokeCancelled(i)
  <2>1. Leave(i) /\ UNCHANGED engineVars
    BY <1>4 DEF RecheckShutDown, RespawnRefused, BackoffShutDown, RespawnFails, Discards,
       InvokeFails, InvokeNotesHealthy, InvokeCancelled
  <2>2. UNCHANGED <<born, descent>> /\ exited \subseteq exited'
    BY <1>4 DEF RecheckShutDown, RespawnRefused, BackoffShutDown, RespawnFails, Discards,
       InvokeFails, InvokeNotesHealthy, InvokeCancelled, workerVars, ChildExits
  <2>3. QED
    BY <1>3, <2>1, <2>2
<1>5. CASE \/ LookupFinds(i) \/ LookupFindsDead(i) \/ RecheckFinds(i) \/ InvokeClaimsRetry(i)
           \/ InvokeRetries(i) \/ InvokeSkipsRetry(i) \/ InvokeAnswered(i)
  <2>1. UNCHANGED engineVars
    BY <1>5 DEF LookupFinds, LookupFindsDead, RecheckFinds, InvokeClaimsRetry, InvokeRetries,
       InvokeSkipsRetry, InvokeAnswered
  <2>2. UNCHANGED <<exited, born, descent>>
    BY <1>5 DEF LookupFinds, LookupFindsDead, RecheckFinds, InvokeClaimsRetry, InvokeRetries,
       InvokeSkipsRetry, InvokeAnswered, workerVars, ProbeAnswers
  <2>3. pc[i] \notin Respawning
    BY <1>5 DEF LookupFinds, LookupFindsDead, RecheckFinds, InvokeClaimsRetry, InvokeRetries,
       InvokeSkipsRetry, InvokeAnswered, Respawning
  <2>4. /\ \E p \in Points \ Respawning : Goto(i, p)
        /\ held' = held \/ held' = [held EXCEPT ![i] = slot]
    BY <1>5 DEF LookupFinds, LookupFindsDead, RecheckFinds, InvokeClaimsRetry, InvokeRetries,
       InvokeSkipsRetry, InvokeAnswered, Points, Respawning
  <2>5. /\ pc'[i] \notin Respawning /\ held'[i] \in {held[i], slot}
        /\ \A j \in Callers \ {i} : pc'[j] = pc[j] /\ held'[j] = held[j]
    BY <2>4 DEF Goto, LifecycleInv, HoldsType
  <2>6. QED
    BY <2>1, <2>2, <2>3, <2>5, BystanderKeeps
<1>6. QED
  BY <1>1, <1>2, <1>4, <1>5 DEF CallerStep

\* The account of who runs holds in every reachable state.
THEOREM DescentInvariant == Spec => []DescentInv
<1>1. Init => DescentInv
  <2> SUFFICES ASSUME Init PROVE DescentInv
    OBVIOUS
  <2>1. DescentType /\ FreshIsNew
    BY DEF Init, DescentType, FreshIsNew
  <2>2. Live = {}
    BY DEF Init, Live, Referenced
  <2>3. QED
    BY <2>1, <2>2 DEF Init, DescentInv, OnePerDescent, SlotDescent, RespawnerDescent, Launched, Respawning
<1>2. LifecycleInv /\ TakenStops /\ DescentInv /\ [Next]_vars => DescentInv'
  <2> SUFFICES ASSUME LifecycleInv, TakenStops, DescentInv, [Next]_vars PROVE DescentInv'
    OBVIOUS
  <2>1. CASE InitializeStart \/ ShutdownStart \/ EngineStep
    BY <2>1, InitializeKeeps, ShutdownKeeps DEF EngineStep
  <2>2. ASSUME NEW i \in Callers,
               LookupFinds(i) \/ LookupFindsDead(i) \/ CallerStep(i) \/ InvokeCancelled(i)
        PROVE  DescentInv'
    BY <2>2, CallerKeeps
  <2>3. ASSUME UNCHANGED <<engineVars, callerVars, born, descent>>, exited \subseteq exited'
        PROVE  DescentInv'
    BY <2>3, BystanderKeeps DEF callerVars
  <2>4. ASSUME NEW w \in Workers, WorkerCrashes(w) \/ DeathObserved(w) PROVE DescentInv'
    BY <2>3, <2>4 DEF WorkerCrashes, ChildExits, DeathObserved
  <2>5. CASE Tick \/ UNCHANGED vars
    BY <2>3, <2>5 DEF Tick, vars, workerVars
  <2>6. QED
    BY <2>1, <2>2, <2>4, <2>5 DEF Next
<1>3. QED
  BY <1>1, <1>2, LifecycleInvariant, TakenInvariant, PTL DEF Spec

\* Each initialize() accounts for at most one process beside the one a shutdown
\* under way is stopping, however deaths, respawns, cancellations, shutdowns and
\* further initializes interleave.
THEOREM AtMostOneProcess == Spec => []OneProcess
<1>1. LifecycleInv /\ DescentInv => OneProcess
  <2> SUFFICES ASSUME LifecycleInv, DescentInv PROVE OneProcess
    OBVIOUS
  <2> DEFINE R == {w \in 1..born \ Stopping : Running(w)}
             T == 1..inits
             f == [w \in R |-> descent[w]]
  <2>1. R \subseteq Live /\ R \subseteq 1..born
    BY DEF Running, Live
  <2>2. inits \in Nat /\ born \in Nat /\ \A w \in 1..born : descent[w] \in T
    BY LiveIsBorn DEF LifecycleInv, DescentInv, DescentType
  <2>3. IsFiniteSet(T) /\ Cardinality(T) = inits
    <3>1. 1 \in Int /\ inits \in Int
      BY <2>2
    <3>2. IsFiniteSet(1..inits) /\ Cardinality(1..inits) = IF 1 > inits THEN 0 ELSE inits - 1 + 1
      BY <3>1, FS_Interval
    <3>3. QED
      BY <2>2, <3>2
  <2>4. IsFiniteSet(R) /\ Cardinality(R) \in Nat
    <3>1. 1 \in Int /\ born \in Int
      BY <2>2
    <3>2. IsFiniteSet(1..born)
      BY <3>1, FS_Interval
    <3>3. R \in SUBSET (1..born)
      BY <2>1
    <3> HIDE DEF R
    <3>4. QED
      BY <3>2, <3>3, FS_Subset, FS_CardinalityType
  <2>5. f \in [R -> T]
    BY <2>1, <2>2
  <2>6. \A v, w \in R : f[v] = f[w] => v = w
    <3> HIDE DEF R
    <3> QED
      BY <2>1 DEF DescentInv, OnePerDescent
  <2> HIDE DEF R, T, f
  <2>7. ~(Cardinality(T) < Cardinality(R))
    <3> SUFFICES ASSUME Cardinality(T) < Cardinality(R) PROVE FALSE
      OBVIOUS
    <3>1. \E v, w \in R : v # w /\ f[v] = f[w]
      BY <2>3, <2>4, <2>5, FS_PigeonHole
    <3>2. QED
      BY <2>6, <3>1
  <2>8. Cardinality(R) <= inits
    BY <2>2, <2>3, <2>4, <2>7
  <2>9. QED
    BY <2>8 DEF OneProcess, R
<1>2. QED
  BY <1>1, LifecycleInvariant, DescentInvariant, PTL

-----------------------------------------------------------------------------
(* Types.  What the three invariants leave open of TypeOK.                 *)

CountsType ==
    /\ inits \in 0..MaxInits
    /\ clock \in 1..(MaxClock + 1)
    /\ exited \subseteq 1..born /\ taken \subseteq 1..born /\ retried \subseteq 1..born
    /\ descent \in [Workers -> 0..inits]

\* A shutdown waits for a process only with a worker in its hand.
ShutdownHasWorker == engine = "waiting" => fresh # NoWorker

\* The steps that change one of these, and what they do to it.
CountsStep ==
    \/ Launch(inits) /\ UNCHANGED <<inits, clock>>
    \/ \E i \in Callers :
          pc[i] = "launching" /\ Launch(descent[held[i]]) /\ UNCHANGED <<inits, clock>>
    \/ /\ \E w \in Referenced : exited' \subseteq exited \cup {w} /\ taken' \subseteq taken \cup {w}
       /\ UNCHANGED <<inits, clock, born, retried, descent>>
    \/ \E i \in Callers :
          /\ pc[i] = "probe" /\ retried' = retried \cup {held[i]}
          /\ UNCHANGED <<inits, clock, born, exited, taken, descent>>
    \/ InitializeStart
    \/ Tick
    \/ UNCHANGED <<inits, clock, born, exited, taken, retried, descent>>

\* Every step is one of those.
LEMMA StepsOnCounts ==
    ASSUME LifecycleInv, DescentInv, ShutdownHasWorker, [Next]_vars
    PROVE  CountsStep
<1> USE DEF CountsStep, engineVars, callerVars, budgetVars, workerVars
<1>1. ASSUME NEW w \in 0..born, VerifyPasses(w) \/ VerifyFails(w)
      PROVE  UNCHANGED <<born, exited, taken, retried, descent>>
  BY <1>1 DEF VerifyPasses, VerifyFails, ProbeAnswers
<1>2. CASE InitializeStart \/ ShutdownStart \/ Tick \/ UNCHANGED vars
  BY <1>2 DEF ShutdownStart, vars
<1>3. CASE EngineStep
  <2>1. CASE InitializeLaunches
    BY <2>1 DEF InitializeLaunches
  <2>2. CASE InitializeVerifies \/ InitializeFails
    <3>1. fresh \in 0..born
      BY DEF LifecycleInv, HoldsType
    <3>2. UNCHANGED <<born, exited, taken, retried, descent>>
      BY <1>1, <2>2, <3>1 DEF InitializeVerifies, InitializeFails
    <3>3. UNCHANGED <<inits, clock>>
      BY <2>2 DEF InitializeVerifies, InitializeFails
    <3>4. QED
      BY <3>2, <3>3
  <2>3. CASE InitializeInstalls \/ ShutdownTakesSlot \/ ShutdownFindsNoChild
    BY <2>3 DEF InitializeInstalls, ShutdownTakesSlot, ShutdownFindsNoChild
  <2>4. CASE ShutdownTakesChild \/ ShutdownStops
    <3>1. fresh # NoWorker
      BY <2>4 DEF ShutdownTakesChild, ShutdownStops, ShutdownHasWorker
    <3>2. fresh \in Referenced
      BY <3>1 DEF Referenced
    <3>3. QED
      BY <2>4, <3>2 DEF ShutdownTakesChild, ShutdownStops, TakeChild, ChildExits
  <2>5. QED
    BY <1>3, <2>1, <2>2, <2>3, <2>4 DEF EngineStep
<1>4. ASSUME NEW i \in Callers, CallerStep(i)
      PROVE  CountsStep
  <2>1. held[i] \in 0..born
    BY DEF LifecycleInv, HoldsType
  <2>2. CASE ReapTakesChild(i) \/ ReapEnds(i) \/ Discards(i)
    <3>1. pc[i] \in Respawning
      BY <2>2 DEF ReapTakesChild, ReapEnds, Discards, Respawning
    <3>2. held[i] \in Referenced
      BY <3>1 DEF DescentInv, RespawnerDescent, Referenced
    <3>3. QED
      BY <2>2, <3>2 DEF ReapTakesChild, ReapEnds, Discards, TakeChild, ChildExits
  <2>3. CASE RespawnLaunches(i)
    BY <2>3 DEF RespawnLaunches
  <2>4. CASE RespawnVerifies(i) \/ RespawnRejects(i)
    <3>1. UNCHANGED <<born, exited, taken, retried, descent>>
      BY <1>1, <2>1, <2>4 DEF RespawnVerifies, RespawnRejects
    <3>2. UNCHANGED <<inits, clock>>
      BY <2>4 DEF RespawnVerifies, RespawnRejects
    <3>3. QED
      BY <3>1, <3>2
  <2>5. CASE InvokeClaimsRetry(i)
    BY <2>5 DEF InvokeClaimsRetry
  <2>6. CASE InvokeRetries(i)
    BY <2>6 DEF InvokeRetries, ProbeAnswers
  <2>7. CASE \/ RecheckFinds(i) \/ RecheckShutDown(i) \/ RespawnReserves(i) \/ RespawnRefused(i)
             \/ BackoffShutDown(i) \/ BackoffEnds(i) \/ ReapFindsNoChild(i) \/ RespawnFails(i)
             \/ RespawnInstalls(i) \/ InstallShutDown(i)
             \/ InvokeSkipsRetry(i) \/ InvokeAnswered(i) \/ InvokeFails(i)
             \/ InvokeNotesHealthy(i)
    BY <2>7 DEF RecheckFinds, RecheckShutDown, RespawnReserves, RespawnRefused,
       BackoffShutDown, BackoffEnds, ReapFindsNoChild, RespawnFails, RespawnInstalls,
       InstallShutDown, InvokeSkipsRetry,
       InvokeAnswered, InvokeFails, InvokeNotesHealthy
  <2>8. QED
    BY <1>4, <2>2, <2>3, <2>4, <2>5, <2>6, <2>7 DEF CallerStep
<1>5. ASSUME NEW i \in Callers, LookupFinds(i) \/ LookupFindsDead(i) \/ InvokeCancelled(i)
      PROVE  CountsStep
  <2>1. CASE InvokeCancelled(i) /\ pc[i] = "waiting"
    <3>1. held[i] \in Referenced
      BY <2>1 DEF DescentInv, RespawnerDescent, Respawning, Referenced
    <3>2. QED
      BY <2>1, <3>1 DEF InvokeCancelled, ChildExits
  <2>2. CASE ~(InvokeCancelled(i) /\ pc[i] = "waiting")
    BY <1>5, <2>2 DEF LookupFinds, LookupFindsDead, InvokeCancelled
  <2>3. QED
    BY <2>1, <2>2
<1>6. ASSUME NEW w \in Workers, WorkerCrashes(w) \/ DeathObserved(w)
      PROVE  CountsStep
  BY <1>6 DEF WorkerCrashes, DeathObserved, ChildExits, Running
<1>7. QED
  BY <1>2, <1>3, <1>4, <1>5, <1>6 DEF Next

\* A launch keeps the counts, if it goes back to an initialize() made.
LEMMA LaunchCounts ==
    ASSUME LifecycleInv, CountsType, NEW d \in 0..inits, Launch(d), UNCHANGED <<inits, clock>>
    PROVE  CountsType'
<1>1. /\ born \in Nat /\ born' = born + 1 /\ UNCHANGED <<exited, taken, retried>>
      /\ descent' = [descent EXCEPT ![born + 1] = d]
  BY LaunchKeeps DEF Launch
<1>2. 1..born \subseteq 1..born'
  BY <1>1
<1>3. QED
  BY <1>1, <1>2 DEF CountsType

\* A worker somebody holds was launched.
LEMMA HeldIsBorn == LifecycleInv => Referenced \subseteq 1..born
  BY DEF LifecycleInv, HoldsType, Referenced, NoWorker

\* The plugin's state keeps its type: counters stay in their bounds, and every
\* worker that was reaped, retried or is held has been launched, for one of
\* the initialize() calls so far.
THEOREM TypeCorrect == Spec => []TypeOK
<1>1. Init => CountsType /\ ShutdownHasWorker
  BY BoundsAssumption DEF Init, CountsType, ShutdownHasWorker
<1>1a. ShutdownHasWorker /\ [Next]_vars => ShutdownHasWorker'
  <2> SUFFICES ASSUME ShutdownHasWorker, [Next]_vars PROVE ShutdownHasWorker'
    OBVIOUS
  <2>1. CASE InitializeStart \/ ShutdownStart \/ EngineStep
    BY <2>1 DEF InitializeStart, ShutdownStart, EngineStep, InitializeLaunches, InitializeVerifies,
       InitializeInstalls, InitializeFails, ShutdownTakesSlot, ShutdownTakesChild,
       ShutdownFindsNoChild, ShutdownStops, ShutdownHasWorker
  <2>2. CASE ~(InitializeStart \/ ShutdownStart \/ EngineStep)
    <3>1. UNCHANGED <<engine, fresh>>
      BY <2>2 DEF Next, vars, Tick, WorkerCrashes, DeathObserved, LookupFinds, LookupFindsDead,
         InvokeCancelled, CallerStep, RecheckFinds, RecheckShutDown, RespawnReserves, RespawnRefused,
         BackoffShutDown, BackoffEnds, ReapTakesChild, ReapFindsNoChild, ReapEnds, RespawnLaunches,
         RespawnFails, RespawnVerifies, RespawnRejects, RespawnInstalls, InstallShutDown, Discards,
         InvokeClaimsRetry, InvokeRetries, InvokeSkipsRetry, InvokeAnswered, InvokeFails,
         InvokeNotesHealthy, engineVars
    <3>2. QED
      BY <3>1 DEF ShutdownHasWorker
  <2>3. QED
    BY <2>1, <2>2
<1>2. LifecycleInv /\ DescentInv /\ ShutdownHasWorker /\ CountsType /\ [Next]_vars => CountsType'
  <2> SUFFICES ASSUME LifecycleInv, DescentInv, ShutdownHasWorker, CountsType, [Next]_vars
               PROVE  CountsType'
    OBVIOUS
  <2>1. CASE Launch(inits) /\ UNCHANGED <<inits, clock>>
    BY <2>1, LaunchCounts, BoundsAssumption DEF CountsType
  <2>2. ASSUME NEW i \in Callers, pc[i] = "launching", Launch(descent[held[i]]), UNCHANGED <<inits, clock>>
        PROVE  CountsType'
    <3>1. held[i] \in 1..born /\ 1..born \subseteq Workers
      BY <2>2, BoundsAssumption
         DEF DescentInv, RespawnerDescent, Respawning, LifecycleInv, HoldsType, NoWorker, Workers
    <3>2. descent[held[i]] \in 0..inits
      BY <3>1 DEF CountsType
    <3>3. QED
      BY <2>2, <3>2, LaunchCounts
  <2>3. CASE /\ \E w \in Referenced :
                   exited' \subseteq exited \cup {w} /\ taken' \subseteq taken \cup {w}
             /\ UNCHANGED <<inits, clock, born, retried, descent>>
    BY <2>3, HeldIsBorn DEF CountsType
  <2>4. ASSUME NEW i \in Callers, pc[i] = "probe", retried' = retried \cup {held[i]},
               UNCHANGED <<inits, clock, born, exited, taken, descent>>
        PROVE  CountsType'
    <3>1. held[i] \in 1..born
      BY <2>4 DEF LifecycleInv, HoldsType, VerifiedPlaces, Verified, Serving, NoWorker
    <3>2. QED
      BY <2>4, <3>1 DEF CountsType
  <2>5. CASE InitializeStart
    <3>1. 0..inits \subseteq 0..inits' /\ inits' \in 0..MaxInits
      BY <2>5, BoundsAssumption DEF InitializeStart, CountsType
    <3>2. QED
      BY <2>5, <3>1 DEF InitializeStart, CountsType, workerVars
  <2>6. CASE Tick
    BY <2>6, BoundsAssumption DEF Tick, CountsType, engineVars, workerVars
  <2>7. CASE UNCHANGED <<inits, clock, born, exited, taken, retried, descent>>
    BY <2>7 DEF CountsType
  <2>8. QED
    BY <2>1, <2>2, <2>3, <2>4, <2>5, <2>6, <2>7, StepsOnCounts DEF CountsStep
<1>3. BudgetInv /\ LifecycleInv /\ CountsType => TypeOK
  BY DEF BudgetInv, BudgetType, LifecycleInv, HoldsType, FlagFollowsEngine, CountsType, TypeOK
<1>4. QED
  BY <1>1, <1>1a, <1>2, <1>3, BudgetInvariant, LifecycleInvariant, DescentInvariant, PTL DEF Spec
=============================================================================
