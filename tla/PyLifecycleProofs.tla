-------------------------- MODULE PyLifecycleProofs --------------------------
(***************************************************************************)
(* The Python binding's lifecycle, for any number of initialize() and      *)
(* shutdown() calls, timed out or cancelled in any way.                    *)
(*                                                                         *)
(* The inductive invariant ties the lock to the tasks: whoever is inside   *)
(* the engine holds it, and a shut_down engine has nobody left who could   *)
(* start plugins, because shutdown_started was set first.                  *)
(***************************************************************************)
EXTENDS PyLifecycle, FiniteSetTheorems, TLAPS

USE CallsAssumption, PanicsAssumption

\* Whoever runs in the engine, or will once its task is joined, has the lock.
HolderRuns ==
    /\ \A c \in Calls : task[c] = "running" => lock = c
    /\ \A i \in Inits :
          /\ rollback[i] = "stopping" => lock = i /\ task[i] \in {"ok", "error"}
          /\ rollback[i] = "joining" /\ task[i] # "panicked" => lock = i
          /\ call[i] = "awaiting" /\ task[i] # "panicked" => lock = i
    /\ \A i \in Inits : rollback[i] \in {"joining", "stopping"} => call[i] = "returned"

\* A call that is still to be granted the lock has no task.
Sequenced ==
    /\ \A i \in Inits : task[i] \in {"none", "running", "ok", "error", "panicked"}
    /\ \A i \in Inits : call[i] \in {"idle", "locking"} => task[i] = "none" /\ rollback[i] = "none"
    /\ \A i \in Inits : call[i] = "awaiting" => task[i] # "none" /\ rollback[i] = "none"
    /\ \A i \in Inits : rollback[i] # "none" => task[i] # "none"
    /\ \A s \in Stops : call[s] = "idle" => task[s] = "none"
    /\ \A s \in Stops : task[s] \in {"queued", "running", "ok"} => started
    /\ \A s \in Stops : task[s] \in {"none", "queued", "running", "ok", "panicked"}
    /\ \A s \in Stops : call[s] # "locking"

\* The flags only ever go up in this order, and the last is the end.
Terminal ==
    /\ \A i \in Inits : rollback[i] # "none" => started
    /\ down => started /\ plugins = "none"
    /\ down => \A c \in Calls : task[c] # "running"
    /\ down => \A i \in Inits : rollback[i] # "stopping"
    /\ down => \A i \in Inits : rollback[i] = "joining" => task[i] = "panicked"
    /\ \A s \in Stops : task[s] = "ok" \/ result[s] = "ok" => down
    /\ \A c \in Calls : result[c] = "ok" => call[c] = "returned"

LifecycleInv == TypeOK /\ HolderRuns /\ Sequenced /\ Terminal /\ GuardHasOwner

\* The initial states satisfy the invariant.
LEMMA LifecycleInvInit == Init => LifecycleInv
<1> SUFFICES ASSUME Init PROVE LifecycleInv
  OBVIOUS
<1>1. TypeOK
  <2>1. started \in BOOLEAN /\ down \in BOOLEAN
    BY DEF Init
  <2>2. panics \in 0..MaxPanics
    BY DEF Init
  <2>3. QED
    BY <2>1, <2>2 DEF Init, TypeOK
<1>2. QED
  BY <1>1 DEF Init, LifecycleInv, HolderRuns, Sequenced, Terminal, GuardHasOwner, Calls

\* Every step of an initialize() call, its task and its rollback keeps it.
LEMMA InitKeepsInv ==
    ASSUME LifecycleInv, NEW i \in Inits,
           \/ InitRefused(i) \/ InitCalled(i) \/ InitLockTimeout(i)
           \/ InitLateRefusal(i) \/ InitStarts(i) \/ InitTaskEnds(i)
           \/ InitTaskPanics(i) \/ InitReturns(i) \/ InitTimesOut(i)
           \/ InitCancelled(i) \/ RollbackStarts(i) \/ RollbackSkipped(i)
           \/ RollbackEnds(i) \/ RollbackPanics(i)
    PROVE  LifecycleInv'
<1> USE DEF LifecycleInv, Calls, Return, Keeps, callVars, flagVars
<1>1. CASE InitRefused(i)
  <2>1. TypeOK'
    BY <1>1 DEF InitRefused, TypeOK
  <2>2. HolderRuns'
    BY <1>1 DEF InitRefused, TypeOK, HolderRuns, Sequenced, GuardHasOwner
  <2>3. Sequenced'
    BY <1>1 DEF InitRefused, TypeOK, Sequenced
  <2>4. Terminal'
    BY <1>1 DEF InitRefused, TypeOK, Terminal, Sequenced, HolderRuns
  <2>5. GuardHasOwner'
    BY <1>1 DEF InitRefused, TypeOK, GuardHasOwner, HolderRuns, Sequenced
  <2>6. QED
    BY <2>1, <2>2, <2>3, <2>4, <2>5
<1>2. CASE InitCalled(i)
  <2>1. TypeOK'
    BY <1>2 DEF InitCalled, TypeOK
  <2>2. HolderRuns'
    BY <1>2 DEF InitCalled, TypeOK, HolderRuns, Sequenced, GuardHasOwner
  <2>3. Sequenced'
    BY <1>2 DEF InitCalled, TypeOK, Sequenced
  <2>4. Terminal'
    BY <1>2 DEF InitCalled, TypeOK, Terminal, Sequenced, HolderRuns
  <2>5. GuardHasOwner'
    BY <1>2 DEF InitCalled, TypeOK, GuardHasOwner, HolderRuns, Sequenced
  <2>6. QED
    BY <2>1, <2>2, <2>3, <2>4, <2>5
<1>3. CASE InitLockTimeout(i)
  <2>1. TypeOK'
    BY <1>3 DEF InitLockTimeout, TypeOK
  <2>2. HolderRuns'
    BY <1>3 DEF InitLockTimeout, TypeOK, HolderRuns, Sequenced, GuardHasOwner
  <2>3. Sequenced'
    BY <1>3 DEF InitLockTimeout, TypeOK, Sequenced
  <2>4. Terminal'
    BY <1>3 DEF InitLockTimeout, TypeOK, Terminal, Sequenced, HolderRuns
  <2>5. GuardHasOwner'
    BY <1>3 DEF InitLockTimeout, TypeOK, GuardHasOwner, HolderRuns, Sequenced
  <2>6. QED
    BY <2>1, <2>2, <2>3, <2>4, <2>5
<1>4. CASE InitLateRefusal(i)
  <2>1. TypeOK'
    BY <1>4 DEF InitLateRefusal, TypeOK
  <2>2. HolderRuns'
    BY <1>4 DEF InitLateRefusal, TypeOK, HolderRuns, Sequenced, GuardHasOwner
  <2>3. Sequenced'
    BY <1>4 DEF InitLateRefusal, TypeOK, Sequenced
  <2>4. Terminal'
    BY <1>4 DEF InitLateRefusal, TypeOK, Terminal, Sequenced, HolderRuns
  <2>5. GuardHasOwner'
    BY <1>4 DEF InitLateRefusal, TypeOK, GuardHasOwner, HolderRuns, Sequenced
  <2>6. QED
    BY <2>1, <2>2, <2>3, <2>4, <2>5
<1>5. CASE InitStarts(i)
  <2>1. TypeOK'
    BY <1>5 DEF InitStarts, TypeOK
  <2>2. HolderRuns'
    BY <1>5 DEF InitStarts, TypeOK, HolderRuns, Sequenced, GuardHasOwner
  <2>3. Sequenced'
    BY <1>5 DEF InitStarts, TypeOK, Sequenced
  <2>4. Terminal'
    BY <1>5 DEF InitStarts, TypeOK, Terminal, Sequenced, HolderRuns
  <2>5. GuardHasOwner'
    BY <1>5 DEF InitStarts, TypeOK, GuardHasOwner, HolderRuns, Sequenced
  <2>6. QED
    BY <2>1, <2>2, <2>3, <2>4, <2>5
<1>6. CASE InitTaskEnds(i)
  <2>1. TypeOK'
    BY <1>6 DEF InitTaskEnds, TypeOK
  <2>2. HolderRuns'
    BY <1>6 DEF InitTaskEnds, TypeOK, HolderRuns, Sequenced, GuardHasOwner
  <2>3. Sequenced'
    BY <1>6 DEF InitTaskEnds, TypeOK, Sequenced
  <2>4. Terminal'
    BY <1>6 DEF InitTaskEnds, TypeOK, Terminal, Sequenced, HolderRuns
  <2>5. GuardHasOwner'
    BY <1>6 DEF InitTaskEnds, TypeOK, GuardHasOwner, HolderRuns, Sequenced
  <2>6. QED
    BY <2>1, <2>2, <2>3, <2>4, <2>5
<1>7. CASE InitTaskPanics(i)
  <2>1. TypeOK'
    BY <1>7 DEF InitTaskPanics, TypeOK
  <2>2. HolderRuns'
    BY <1>7 DEF InitTaskPanics, TypeOK, HolderRuns, Sequenced, GuardHasOwner
  <2>3. Sequenced'
    BY <1>7 DEF InitTaskPanics, TypeOK, Sequenced
  <2>4. Terminal'
    BY <1>7 DEF InitTaskPanics, TypeOK, Terminal, Sequenced, HolderRuns
  <2>5. GuardHasOwner'
    BY <1>7 DEF InitTaskPanics, TypeOK, GuardHasOwner, HolderRuns, Sequenced
  <2>6. QED
    BY <2>1, <2>2, <2>3, <2>4, <2>5
<1>8. CASE InitReturns(i)
  <2>1. TypeOK'
    BY <1>8 DEF InitReturns, TypeOK
  <2>2. HolderRuns'
    BY <1>8 DEF InitReturns, TypeOK, HolderRuns, Sequenced, GuardHasOwner
  <2>3. Sequenced'
    BY <1>8 DEF InitReturns, TypeOK, Sequenced
  <2>4. Terminal'
    BY <1>8 DEF InitReturns, TypeOK, Terminal, Sequenced, HolderRuns
  <2>5. GuardHasOwner'
    BY <1>8 DEF InitReturns, TypeOK, GuardHasOwner, HolderRuns, Sequenced
  <2>6. QED
    BY <2>1, <2>2, <2>3, <2>4, <2>5
<1>9. CASE InitTimesOut(i)
  <2>1. TypeOK'
    BY <1>9 DEF InitTimesOut, TypeOK
  <2>2. HolderRuns'
    BY <1>9 DEF InitTimesOut, TypeOK, HolderRuns, Sequenced, GuardHasOwner
  <2>3. Sequenced'
    BY <1>9 DEF InitTimesOut, TypeOK, Sequenced
  <2>4. Terminal'
    BY <1>9 DEF InitTimesOut, TypeOK, Terminal, Sequenced, HolderRuns
  <2>5. GuardHasOwner'
    BY <1>9 DEF InitTimesOut, TypeOK, GuardHasOwner, HolderRuns, Sequenced
  <2>6. QED
    BY <2>1, <2>2, <2>3, <2>4, <2>5
<1>10. CASE InitCancelled(i)
  <2>1. TypeOK'
    BY <1>10 DEF InitCancelled, TypeOK
  <2>2. HolderRuns'
    BY <1>10 DEF InitCancelled, TypeOK, HolderRuns, Sequenced, GuardHasOwner
  <2>3. Sequenced'
    BY <1>10 DEF InitCancelled, TypeOK, Sequenced
  <2>4. Terminal'
    BY <1>10 DEF InitCancelled, TypeOK, Terminal, Sequenced, HolderRuns
  <2>5. GuardHasOwner'
    BY <1>10 DEF InitCancelled, TypeOK, GuardHasOwner, HolderRuns, Sequenced
  <2>6. QED
    BY <2>1, <2>2, <2>3, <2>4, <2>5
<1>11. CASE RollbackStarts(i)
  <2>1. TypeOK'
    BY <1>11 DEF RollbackStarts, TypeOK
  <2>2. HolderRuns'
    BY <1>11 DEF RollbackStarts, TypeOK, HolderRuns, Sequenced, GuardHasOwner
  <2>3. Sequenced'
    BY <1>11 DEF RollbackStarts, TypeOK, Sequenced
  <2>4. Terminal'
    BY <1>11 DEF RollbackStarts, TypeOK, Terminal, Sequenced, HolderRuns
  <2>5. GuardHasOwner'
    BY <1>11 DEF RollbackStarts, TypeOK, GuardHasOwner, HolderRuns, Sequenced
  <2>6. QED
    BY <2>1, <2>2, <2>3, <2>4, <2>5
<1>12. CASE RollbackSkipped(i)
  <2>1. TypeOK'
    BY <1>12 DEF RollbackSkipped, TypeOK
  <2>2. HolderRuns'
    BY <1>12 DEF RollbackSkipped, TypeOK, HolderRuns, Sequenced, GuardHasOwner
  <2>3. Sequenced'
    BY <1>12 DEF RollbackSkipped, TypeOK, Sequenced
  <2>4. Terminal'
    BY <1>12 DEF RollbackSkipped, TypeOK, Terminal, Sequenced, HolderRuns
  <2>5. GuardHasOwner'
    BY <1>12 DEF RollbackSkipped, TypeOK, GuardHasOwner, HolderRuns, Sequenced
  <2>6. QED
    BY <2>1, <2>2, <2>3, <2>4, <2>5
<1>13. CASE RollbackEnds(i)
  <2>1. TypeOK'
    BY <1>13 DEF RollbackEnds, TypeOK
  <2>2. HolderRuns'
    BY <1>13 DEF RollbackEnds, TypeOK, HolderRuns, Sequenced, GuardHasOwner
  <2>3. Sequenced'
    BY <1>13 DEF RollbackEnds, TypeOK, Sequenced
  <2>4. Terminal'
    BY <1>13 DEF RollbackEnds, TypeOK, Terminal, Sequenced, HolderRuns
  <2>5. GuardHasOwner'
    BY <1>13 DEF RollbackEnds, TypeOK, GuardHasOwner, HolderRuns, Sequenced
  <2>6. QED
    BY <2>1, <2>2, <2>3, <2>4, <2>5
<1>14. CASE RollbackPanics(i)
  <2>1. TypeOK'
    BY <1>14 DEF RollbackPanics, TypeOK
  <2>2. HolderRuns'
    BY <1>14 DEF RollbackPanics, TypeOK, HolderRuns, Sequenced, GuardHasOwner
  <2>3. Sequenced'
    BY <1>14 DEF RollbackPanics, TypeOK, Sequenced
  <2>4. Terminal'
    BY <1>14 DEF RollbackPanics, TypeOK, Terminal, Sequenced, HolderRuns
  <2>5. GuardHasOwner'
    BY <1>14 DEF RollbackPanics, TypeOK, GuardHasOwner, HolderRuns, Sequenced
  <2>6. QED
    BY <2>1, <2>2, <2>3, <2>4, <2>5
<1>15. QED
  BY <1>1, <1>2, <1>3, <1>4, <1>5, <1>6, <1>7, <1>8, <1>9, <1>10, <1>11, <1>12, <1>13, <1>14

\* Every step of a shutdown() call and its task keeps it.
LEMMA ShutdownKeepsInv ==
    ASSUME LifecycleInv, NEW s \in Stops,
           \/ ShutdownCalled(s) \/ ShutdownNoop(s) \/ ShutdownStarts(s)
           \/ ShutdownTaskEnds(s) \/ ShutdownTaskPanics(s) \/ ShutdownReturns(s)
           \/ ShutdownTimesOut(s) \/ ShutdownCancelled(s)
    PROVE  LifecycleInv'
<1> USE DEF LifecycleInv, Calls, Return, Keeps, callVars, flagVars
<1>1. CASE ShutdownCalled(s)
  <2>1. TypeOK'
    BY <1>1 DEF ShutdownCalled, TypeOK
  <2>2. HolderRuns'
    BY <1>1 DEF ShutdownCalled, TypeOK, HolderRuns, Sequenced, GuardHasOwner
  <2>3. Sequenced'
    BY <1>1 DEF ShutdownCalled, TypeOK, Sequenced
  <2>4. Terminal'
    BY <1>1 DEF ShutdownCalled, TypeOK, Terminal, Sequenced, HolderRuns
  <2>5. GuardHasOwner'
    BY <1>1 DEF ShutdownCalled, TypeOK, GuardHasOwner, HolderRuns, Sequenced
  <2>6. QED
    BY <2>1, <2>2, <2>3, <2>4, <2>5
<1>2. CASE ShutdownNoop(s)
  <2>1. TypeOK'
    BY <1>2 DEF ShutdownNoop, TypeOK
  <2>2. HolderRuns'
    BY <1>2 DEF ShutdownNoop, TypeOK, HolderRuns, Sequenced, GuardHasOwner
  <2>3. Sequenced'
    BY <1>2 DEF ShutdownNoop, TypeOK, Sequenced
  <2>4. Terminal'
    BY <1>2 DEF ShutdownNoop, TypeOK, Terminal, Sequenced, HolderRuns
  <2>5. GuardHasOwner'
    BY <1>2 DEF ShutdownNoop, TypeOK, GuardHasOwner, HolderRuns, Sequenced
  <2>6. QED
    BY <2>1, <2>2, <2>3, <2>4, <2>5
<1>3. CASE ShutdownStarts(s)
  <2>1. TypeOK'
    BY <1>3 DEF ShutdownStarts, TypeOK
  <2>2. HolderRuns'
    BY <1>3 DEF ShutdownStarts, TypeOK, HolderRuns, Sequenced, GuardHasOwner
  <2>3. Sequenced'
    BY <1>3 DEF ShutdownStarts, TypeOK, Sequenced
  <2>4. Terminal'
    BY <1>3 DEF ShutdownStarts, TypeOK, Terminal, Sequenced, HolderRuns
  <2>5. GuardHasOwner'
    BY <1>3 DEF ShutdownStarts, TypeOK, GuardHasOwner, HolderRuns, Sequenced
  <2>6. QED
    BY <2>1, <2>2, <2>3, <2>4, <2>5
<1>4. CASE ShutdownTaskEnds(s)
  <2>1. TypeOK'
    BY <1>4 DEF ShutdownTaskEnds, TypeOK
  <2>2. HolderRuns'
    BY <1>4 DEF ShutdownTaskEnds, TypeOK, HolderRuns, Sequenced, GuardHasOwner
  <2>3. Sequenced'
    BY <1>4 DEF ShutdownTaskEnds, TypeOK, Sequenced
  <2>4. Terminal'
    BY <1>4 DEF ShutdownTaskEnds, TypeOK, Terminal, Sequenced, HolderRuns
  <2>5. GuardHasOwner'
    BY <1>4 DEF ShutdownTaskEnds, TypeOK, GuardHasOwner, HolderRuns, Sequenced
  <2>6. QED
    BY <2>1, <2>2, <2>3, <2>4, <2>5
<1>5. CASE ShutdownTaskPanics(s)
  <2>1. TypeOK'
    BY <1>5 DEF ShutdownTaskPanics, TypeOK
  <2>2. HolderRuns'
    BY <1>5 DEF ShutdownTaskPanics, TypeOK, HolderRuns, Sequenced, GuardHasOwner
  <2>3. Sequenced'
    BY <1>5 DEF ShutdownTaskPanics, TypeOK, Sequenced
  <2>4. Terminal'
    BY <1>5 DEF ShutdownTaskPanics, TypeOK, Terminal, Sequenced, HolderRuns
  <2>5. GuardHasOwner'
    BY <1>5 DEF ShutdownTaskPanics, TypeOK, GuardHasOwner, HolderRuns, Sequenced
  <2>6. QED
    BY <2>1, <2>2, <2>3, <2>4, <2>5
<1>6. CASE ShutdownReturns(s)
  <2>1. TypeOK'
    BY <1>6 DEF ShutdownReturns, TypeOK
  <2>2. HolderRuns'
    BY <1>6 DEF ShutdownReturns, TypeOK, HolderRuns, Sequenced, GuardHasOwner
  <2>3. Sequenced'
    BY <1>6 DEF ShutdownReturns, TypeOK, Sequenced
  <2>4. Terminal'
    BY <1>6 DEF ShutdownReturns, TypeOK, Terminal, Sequenced, HolderRuns
  <2>5. GuardHasOwner'
    BY <1>6 DEF ShutdownReturns, TypeOK, GuardHasOwner, HolderRuns, Sequenced
  <2>6. QED
    BY <2>1, <2>2, <2>3, <2>4, <2>5
<1>7. CASE ShutdownTimesOut(s)
  <2>1. TypeOK'
    BY <1>7 DEF ShutdownTimesOut, TypeOK
  <2>2. HolderRuns'
    BY <1>7 DEF ShutdownTimesOut, TypeOK, HolderRuns, Sequenced, GuardHasOwner
  <2>3. Sequenced'
    BY <1>7 DEF ShutdownTimesOut, TypeOK, Sequenced
  <2>4. Terminal'
    BY <1>7 DEF ShutdownTimesOut, TypeOK, Terminal, Sequenced, HolderRuns
  <2>5. GuardHasOwner'
    BY <1>7 DEF ShutdownTimesOut, TypeOK, GuardHasOwner, HolderRuns, Sequenced
  <2>6. QED
    BY <2>1, <2>2, <2>3, <2>4, <2>5
<1>8. CASE ShutdownCancelled(s)
  <2>1. TypeOK'
    BY <1>8 DEF ShutdownCancelled, TypeOK
  <2>2. HolderRuns'
    BY <1>8 DEF ShutdownCancelled, TypeOK, HolderRuns, Sequenced, GuardHasOwner
  <2>3. Sequenced'
    BY <1>8 DEF ShutdownCancelled, TypeOK, Sequenced
  <2>4. Terminal'
    BY <1>8 DEF ShutdownCancelled, TypeOK, Terminal, Sequenced, HolderRuns
  <2>5. GuardHasOwner'
    BY <1>8 DEF ShutdownCancelled, TypeOK, GuardHasOwner, HolderRuns, Sequenced
  <2>6. QED
    BY <2>1, <2>2, <2>3, <2>4, <2>5
<1>9. QED
  BY <1>1, <1>2, <1>3, <1>4, <1>5, <1>6, <1>7, <1>8

\* The lifecycle invariant holds of every behaviour.
THEOREM LifecycleInvariant == Spec => []LifecycleInv
<1>1. LifecycleInv /\ [Next]_vars => LifecycleInv'
  <2> SUFFICES ASSUME LifecycleInv, [Next]_vars PROVE LifecycleInv'
    OBVIOUS
  <2>1. ASSUME NEW i \in Inits,
               \/ InitRefused(i) \/ InitCalled(i) \/ InitStep(i) \/ InitCancelled(i)
               \/ InitTaskEnds(i) \/ InitTaskPanics(i)
               \/ RollbackStep(i) \/ RollbackEnds(i) \/ RollbackPanics(i)
        PROVE  LifecycleInv'
    BY <2>1, InitKeepsInv DEF InitStep, RollbackStep
  <2>2. ASSUME NEW s \in Stops,
               \/ ShutdownCalled(s) \/ ShutdownStep(s)
               \/ ShutdownTaskEnds(s) \/ ShutdownTaskPanics(s)
               \/ ShutdownWait(s) \/ ShutdownCancelled(s)
        PROVE  LifecycleInv'
    BY <2>2, ShutdownKeepsInv DEF ShutdownStep, ShutdownWait
  <2>3. CASE UNCHANGED vars
    BY <2>3 DEF vars, callVars, flagVars, LifecycleInv, TypeOK, HolderRuns, Sequenced, Terminal, GuardHasOwner
  <2>4. QED
    BY <2>1, <2>2, <2>3 DEF Next
<1>2. QED
  BY <1>1, LifecycleInvInit, PTL DEF Spec

\* Type correctness of the lifecycle, for any number of calls.
THEOREM TypeCorrect == Spec => []TypeOK
  BY LifecycleInvariant, PTL DEF LifecycleInv

\* The lock guard always has somebody who will drop it.
THEOREM GuardIsNeverLost == Spec => []GuardHasOwner
  BY LifecycleInvariant, PTL DEF LifecycleInv

\* At most one call is inside the engine.
THEOREM EngineCallsAreSerialized == Spec => []OneEngineCall
<1>1. LifecycleInv => OneEngineCall
  <2> SUFFICES ASSUME LifecycleInv PROVE OneEngineCall
    OBVIOUS
  <2>1. InEngine \subseteq {lock}
    BY DEF LifecycleInv, HolderRuns, InEngine
  <2>2. IsFiniteSet({lock}) /\ Cardinality({lock}) = 1
    BY FS_Singleton
  <2>3. Cardinality(InEngine) <= Cardinality({lock})
    BY <2>1, <2>2, FS_Subset
  <2>4. QED
    BY <2>2, <2>3 DEF OneEngineCall
<1>2. QED
  BY <1>1, LifecycleInvariant, PTL

\* A shut down engine has no plugin running and nobody left to start one.
THEOREM ShutdownIsTerminal == Spec => []DownMeansStopped
<1>1. LifecycleInv => DownMeansStopped
  BY DEF LifecycleInv, Terminal, DownMeansStopped, InEngine
<1>2. QED
  BY <1>1, LifecycleInvariant, PTL

\* shutdown() reports success only when the engine was shut down.
THEOREM SuccessIsHonest == Spec => []OkMeansStopped
<1>1. LifecycleInv => OkMeansStopped
  BY DEF LifecycleInv, Terminal, OkMeansStopped
<1>2. QED
  BY <1>1, LifecycleInvariant, PTL

-----------------------------------------------------------------------------
(***************************************************************************)
(* Refinement.  The binding implements SerialEngine: the lock makes the    *)
(* engine vacant for whoever takes it, and shutdown_started, read under    *)
(* the lock, orders the starts before the stops.                           *)
(***************************************************************************)

\* Whoever is inside the engine holds the lock, so a free lock is a vacant
\* engine, and a holder whose task came back is alone.
LEMMA LockMeansVacant ==
    ASSUME LifecycleInv,
           \/ lock = Nobody
           \/ lock \in Inits /\ task[lock] # "running" /\ rollback[lock] # "stopping"
    PROVE  Starting = {} /\ Stopping = {}
  BY DEF LifecycleInv, HolderRuns, Starting, Stopping, Calls

\* The one call inside the engine is the only one.
LEMMA StarterIsAlone ==
    ASSUME LifecycleInv, NEW i \in Inits, task[i] = "running"
    PROVE  Starting = {i} /\ Stopping = {}
<1>1. lock = i
  BY DEF LifecycleInv, HolderRuns, Calls
<1>2. \A j \in Inits : task[j] = "running" <=> j = i
  BY <1>1 DEF LifecycleInv, HolderRuns, Calls
<1>3. \A s \in Stops : task[s] # "running"
  BY <1>1 DEF LifecycleInv, HolderRuns, Calls
<1>4. \A j \in Inits : rollback[j] # "stopping"
  BY <1>1 DEF LifecycleInv, HolderRuns, Calls
<1>5. QED
  BY <1>2, <1>3, <1>4 DEF Starting, Stopping

\* So is the one that stops it, whether for shutdown() or for a rollback.
LEMMA StopperIsAlone ==
    ASSUME LifecycleInv, NEW c \in Calls,
           \/ c \in Stops /\ task[c] = "running"
           \/ c \in Inits /\ rollback[c] = "stopping"
    PROVE  Stopping = {c} /\ Starting = {}
<1>1. lock = c /\ (c \in Inits => task[c] # "running")
  BY DEF LifecycleInv, HolderRuns, Calls
<1>2. \A j \in Inits : task[j] # "running"
  BY <1>1 DEF LifecycleInv, HolderRuns, Calls
<1>3. \A s \in Stops : task[s] = "running" => s = c
  BY <1>1 DEF LifecycleInv, HolderRuns, Calls
<1>4. \A j \in Inits : rollback[j] = "stopping" => j = c
  BY <1>1 DEF LifecycleInv, HolderRuns, Calls
<1>5. QED
  BY <1>2, <1>3, <1>4 DEF Starting, Stopping, Calls

\* A step that moves no task into or out of the engine, no flag and no plugin
\* is no step of the engine.
LEMMA UnseenByEngine ==
    ASSUME UNCHANGED <<Starting, Stopping, started, down, plugins>>
    PROVE  UNCHANGED Contract!engineVars
  BY DEF Contract!engineVars

\* Every step of an initialize() call, its task and its rollback maps to a
\* step of the engine, or to none.
LEMMA InitRefines ==
    ASSUME LifecycleInv, NEW i \in Inits,
           \/ InitRefused(i) \/ InitCalled(i) \/ InitLockTimeout(i)
           \/ InitLateRefusal(i) \/ InitStarts(i) \/ InitTaskEnds(i)
           \/ InitTaskPanics(i) \/ InitReturns(i) \/ InitTimesOut(i)
           \/ InitCancelled(i) \/ RollbackStarts(i) \/ RollbackSkipped(i)
           \/ RollbackEnds(i) \/ RollbackPanics(i)
    PROVE  Contract!EngineNext \/ UNCHANGED Contract!engineVars
<1> USE DEF callVars, flagVars
<1>0. i \in Calls /\ TypeOK /\ i \notin Stops
  BY DEF LifecycleInv, Calls
<1>1. CASE \/ InitRefused(i) \/ InitCalled(i) \/ InitLockTimeout(i) \/ InitLateRefusal(i)
           \/ InitReturns(i) \/ InitCancelled(i)
  <2>1. UNCHANGED <<task, rollback, started, down, plugins>>
    BY <1>1 DEF InitRefused, InitCalled, InitLockTimeout, InitLateRefusal, InitReturns, InitCancelled
  <2>2. QED
    BY <2>1, UnseenByEngine DEF Starting, Stopping
<1>2. CASE InitStarts(i)
  <2>1. Starting = {} /\ Stopping = {}
    BY <1>2, LockMeansVacant DEF InitStarts
  <2>2. Starting' = {i} /\ Stopping' = {}
    BY <1>0, <1>2, <2>1 DEF InitStarts, TypeOK, Starting, Stopping
  <2>3. Contract!Start(i)
    BY <1>2, <2>1, <2>2 DEF InitStarts, Contract!Start, Contract!Vacant
  <2>4. QED
    BY <1>0, <2>3 DEF Contract!EngineNext
<1>3. CASE InitTaskEnds(i) \/ InitTaskPanics(i)
  <2>1. Starting = {i} /\ Stopping = {}
    BY <1>3, StarterIsAlone DEF InitTaskEnds, InitTaskPanics
  <2>2. task'[i] # "running" /\ (\A c \in Calls \ {i} : task'[c] = task[c])
    BY <1>0, <1>3 DEF InitTaskEnds, InitTaskPanics, TypeOK
  <2>3. Starting' = {} /\ Stopping' = {}
    <3>1. UNCHANGED rollback
      BY <1>3 DEF InitTaskEnds, InitTaskPanics
    <3>2. QED
      BY <1>0, <2>1, <2>2, <3>1 DEF Starting, Stopping, Calls
  <2>4. UNCHANGED <<started, down>>
    BY <1>3 DEF InitTaskEnds, InitTaskPanics
  <2>5. Contract!StartEnds(i)
    BY <2>1, <2>3, <2>4 DEF Contract!StartEnds
  <2>6. QED
    BY <1>0, <2>5 DEF Contract!EngineNext
<1>4. CASE InitTimesOut(i)
  <2>1. UNCHANGED <<task, down, plugins>> /\ started' = TRUE
    BY <1>4 DEF InitTimesOut
  <2>2. rollback[i] # "stopping" /\ rollback' = [rollback EXCEPT ![i] = "joining"]
    BY <1>4 DEF InitTimesOut, LifecycleInv, Sequenced
  <2>3. UNCHANGED <<Starting, Stopping>>
    BY <1>0, <2>1, <2>2 DEF Starting, Stopping, TypeOK
  <2>4. Contract!Close
    BY <2>1, <2>3 DEF Contract!Close
  <2>5. QED
    BY <2>4 DEF Contract!EngineNext
<1>5. CASE RollbackStarts(i)
  <2>1. lock = i /\ started /\ ~down
    BY <1>5 DEF RollbackStarts, LifecycleInv, HolderRuns, Terminal
  <2>2. Starting = {} /\ Stopping = {}
    BY <1>5, <2>1, LockMeansVacant DEF RollbackStarts
  <2>3. Starting' = {} /\ Stopping' = {i}
    BY <1>0, <1>5, <2>2 DEF RollbackStarts, TypeOK, Starting, Stopping
  <2>4. Contract!Stop(i)
    BY <1>5, <2>1, <2>2, <2>3 DEF RollbackStarts, Contract!Stop, Contract!Vacant
  <2>5. QED
    BY <1>0, <2>4 DEF Contract!EngineNext
<1>6. CASE RollbackSkipped(i)
  <2>1. UNCHANGED <<task, started, down, plugins>>
    BY <1>6 DEF RollbackSkipped
  <2>2. UNCHANGED <<Starting, Stopping>>
    BY <1>0, <1>6 DEF RollbackSkipped, Starting, Stopping, TypeOK
  <2>3. QED
    BY <2>1, <2>2, UnseenByEngine
<1>7. CASE RollbackEnds(i) \/ RollbackPanics(i)
  <2>1. Stopping = {i} /\ Starting = {}
    BY <1>0, <1>7, StopperIsAlone DEF RollbackEnds, RollbackPanics
  <2>2. UNCHANGED <<task, started>> /\ rollback' = [rollback EXCEPT ![i] = "over"]
    BY <1>7 DEF RollbackEnds, RollbackPanics
  <2>3. Stopping' = {} /\ Starting' = {}
    BY <1>0, <2>1, <2>2 DEF Starting, Stopping, TypeOK
  <2>4. Contract!StopEnds(i) \/ Contract!StopFails(i)
    BY <1>7, <2>1, <2>2, <2>3 DEF RollbackEnds, RollbackPanics, Contract!StopEnds, Contract!StopFails
  <2>5. QED
    BY <1>0, <2>4 DEF Contract!EngineNext
<1>8. QED
  BY <1>1, <1>2, <1>3, <1>4, <1>5, <1>6, <1>7

\* So does every step of a shutdown() call and its task.
LEMMA ShutdownRefines ==
    ASSUME LifecycleInv, NEW s \in Stops,
           \/ ShutdownCalled(s) \/ ShutdownNoop(s) \/ ShutdownStarts(s)
           \/ ShutdownTaskEnds(s) \/ ShutdownTaskPanics(s) \/ ShutdownReturns(s)
           \/ ShutdownTimesOut(s) \/ ShutdownCancelled(s)
    PROVE  Contract!EngineNext \/ UNCHANGED Contract!engineVars
<1> USE DEF callVars, flagVars
<1>0. s \in Calls /\ TypeOK /\ s \notin Inits
  BY DEF LifecycleInv, Calls
<1>1. CASE ShutdownReturns(s) \/ ShutdownTimesOut(s) \/ ShutdownCancelled(s)
  <2>1. UNCHANGED <<task, rollback, started, down, plugins>>
    BY <1>1 DEF ShutdownReturns, ShutdownTimesOut, ShutdownCancelled
  <2>2. QED
    BY <2>1, UnseenByEngine DEF Starting, Stopping
<1>2. CASE ShutdownCalled(s)
  <2>1. UNCHANGED <<rollback, down, plugins>> /\ started' = TRUE
    BY <1>2 DEF ShutdownCalled
  <2>2. task[s] # "running" /\ task' = [task EXCEPT ![s] = "queued"]
    BY <1>2 DEF ShutdownCalled, LifecycleInv, Sequenced
  <2>3. UNCHANGED <<Starting, Stopping>>
    BY <1>0, <2>1, <2>2 DEF Starting, Stopping, TypeOK, Calls
  <2>4. Contract!Close
    BY <2>1, <2>3 DEF Contract!Close
  <2>5. QED
    BY <2>4 DEF Contract!EngineNext
<1>3. CASE ShutdownNoop(s)
  <2>1. UNCHANGED <<rollback, started, down, plugins>>
    BY <1>3 DEF ShutdownNoop
  <2>2. UNCHANGED <<Starting, Stopping>>
    BY <1>0, <1>3 DEF ShutdownNoop, Starting, Stopping, TypeOK, Calls
  <2>3. QED
    BY <2>1, <2>2, UnseenByEngine
<1>4. CASE ShutdownStarts(s)
  <2>1. Starting = {} /\ Stopping = {}
    BY <1>4, LockMeansVacant DEF ShutdownStarts
  <2>2. started /\ ~down
    BY <1>4 DEF ShutdownStarts, LifecycleInv, Sequenced
  <2>3. Starting' = {} /\ Stopping' = {s}
    BY <1>0, <1>4, <2>1 DEF ShutdownStarts, TypeOK, Starting, Stopping, Calls
  <2>4. Contract!Stop(s)
    BY <1>4, <2>1, <2>2, <2>3 DEF ShutdownStarts, Contract!Stop, Contract!Vacant
  <2>5. QED
    BY <1>0, <2>4 DEF Contract!EngineNext
<1>5. CASE ShutdownTaskEnds(s) \/ ShutdownTaskPanics(s)
  <2>1. Stopping = {s} /\ Starting = {}
    BY <1>0, <1>5, StopperIsAlone DEF ShutdownTaskEnds, ShutdownTaskPanics
  <2>2. /\ UNCHANGED <<rollback, started>>
        /\ task'[s] # "running" /\ \A c \in Calls \ {s} : task'[c] = task[c]
    BY <1>0, <1>5 DEF ShutdownTaskEnds, ShutdownTaskPanics, TypeOK
  <2>3. Stopping' = {} /\ Starting' = {}
    BY <1>0, <2>1, <2>2 DEF Starting, Stopping, Calls
  <2>4. Contract!StopEnds(s) \/ Contract!StopFails(s)
    BY <1>5, <2>1, <2>2, <2>3 DEF ShutdownTaskEnds, ShutdownTaskPanics, Contract!StopEnds, Contract!StopFails
  <2>5. QED
    BY <1>0, <2>4 DEF Contract!EngineNext
<1>6. QED
  BY <1>1, <1>2, <1>3, <1>4, <1>5

\* For any number of initialize() and shutdown() calls, timed out, cancelled or
\* panicking in any way, the binding drives the engine as SerialEngine says:
\* one call at a time, starts before the end is asked for and stops after it,
\* and nothing behind a stop that came back.
THEOREM BindingImplementsEngine == Spec => ImplementsEngine
<1>1. Init => Contract!EngineInit
  <2> SUFFICES ASSUME Init PROVE Contract!EngineInit
    OBVIOUS
  <2>1. Starting = {} /\ Stopping = {}
    BY DEF Init, Starting, Stopping, Calls
  <2>2. (plugins = "running") = FALSE
    BY DEF Init
  <2>3. QED
    BY <2>1, <2>2 DEF Init, Contract!EngineInit
<1>2. LifecycleInv /\ [Next]_vars => [Contract!EngineNext]_(Contract!engineVars)
  <2> SUFFICES ASSUME LifecycleInv, [Next]_vars
               PROVE  Contract!EngineNext \/ UNCHANGED Contract!engineVars
    OBVIOUS
  <2>1. ASSUME NEW i \in Inits,
               \/ InitRefused(i) \/ InitCalled(i) \/ InitStep(i) \/ InitCancelled(i)
               \/ InitTaskEnds(i) \/ InitTaskPanics(i)
               \/ RollbackStep(i) \/ RollbackEnds(i) \/ RollbackPanics(i)
        PROVE  Contract!EngineNext \/ UNCHANGED Contract!engineVars
    BY <2>1, InitRefines DEF InitStep, RollbackStep
  <2>2. ASSUME NEW s \in Stops,
               \/ ShutdownCalled(s) \/ ShutdownStep(s)
               \/ ShutdownTaskEnds(s) \/ ShutdownTaskPanics(s)
               \/ ShutdownWait(s) \/ ShutdownCancelled(s)
        PROVE  Contract!EngineNext \/ UNCHANGED Contract!engineVars
    BY <2>2, ShutdownRefines DEF ShutdownStep, ShutdownWait
  <2>3. CASE UNCHANGED vars
    BY <2>3, UnseenByEngine DEF vars, callVars, flagVars, Starting, Stopping
  <2>4. QED
    BY <2>1, <2>2, <2>3 DEF Next
<1>3. QED
  BY <1>1, <1>2, LifecycleInvariant, PTL DEF Spec, ImplementsEngine, Contract!Engine
=============================================================================
