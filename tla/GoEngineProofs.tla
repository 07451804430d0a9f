--------------------------- MODULE GoEngineProofs ---------------------------
(***************************************************************************)
(* Proofs about GoEngine: the read-write lock keeps calls out of a freed   *)
(* engine, and every handle of the binding names a box of its own.         *)
(***************************************************************************)
EXTENDS GoEngine, TLAPS

\* The lock is held by exactly the goroutines whose program point says so.
LockInv ==
  /\ \A g \in Goroutines : g \in readers <=> pc[g] \in InEngine
  /\ \A g \in Goroutines : pc[g] \in {"shut_wait", "shut_rust"} <=> writer = g
  /\ \A g \in Goroutines : pc[g] = "shut_rust" => readers = {}
  /\ \A g \in Goroutines : pc[g] # "idle" => g \in refs

\* The engine box follows the handle, except inside cpex_shutdown.
EngineInv ==
  /\ engine = "live" <=> frees = 0
  /\ frees <= 1
  /\ \A g \in Goroutines : pc[g] \in InEngine => handle = "open"
  /\ \A g \in Goroutines : pc[g] = "shut_rust" => handle = "open" /\ frees = 1
  /\ handle = "open" /\ frees = 1 => \E g \in Goroutines : pc[g] = "shut_rust"
  /\ finalizer = "set" => frees = 0

\* Handles and out parameters name distinct allocated tables.
TableInv ==
  /\ \A t \in tables : 0 < t /\ t <= made
  /\ \A g \in Goroutines : ct[g] # 0 => ct[g] \in tables
  /\ \A g \in Goroutines : ctOut[g] # 0 => ctOut[g] \in tables
  /\ \A g, h \in Goroutines : g # h /\ ct[g] # 0 => ct[g] # ct[h]
  /\ \A g, h \in Goroutines : g # h /\ ctOut[g] # 0 => ctOut[g] # ctOut[h]
  /\ \A g, h \in Goroutines : ct[g] # 0 => ct[g] # ctOut[h]
  /\ \A g \in Goroutines : pc[g] \in {"invoke_rust", "invoke_ok"} => ct[g] = 0
  /\ \A g \in Goroutines : pc[g] # "invoke_ok" => ctOut[g] = 0

\* The same of task boxes, whose handle outlives the box inside Wait.
TaskInv ==
  /\ \A t \in tasks : 0 < t /\ t <= made
  /\ \A g \in Goroutines : bg[g] <= made
  /\ \A g \in Goroutines :
       bg[g] # 0 /\ pc[g] # "wait_rust" => bg[g] \in tasks
  /\ \A g \in Goroutines : pc[g] = "wait_rust" => bg[g] \notin tasks
  /\ \A g \in Goroutines : bgOut[g] # 0 => bgOut[g] \in tasks
  /\ \A g, h \in Goroutines : g # h /\ bg[g] # 0 => bg[g] # bg[h]
  /\ \A g, h \in Goroutines : g # h /\ bgOut[g] # 0 => bgOut[g] # bgOut[h]
  /\ \A g, h \in Goroutines : bg[g] # 0 => bg[g] # bgOut[h]
  /\ \A g \in Goroutines :
       pc[g] \in {"invoke_lock", "invoke_go", "invoke_rust", "invoke_ok"}
         => bg[g] = 0
  /\ \A g \in Goroutines : pc[g] # "invoke_ok" => bgOut[g] = 0

\* The inductive invariant of the binding.
GoInv == TypeOK /\ LockInv /\ EngineInv /\ TableInv /\ TaskInv

USE GoAssumption

-----------------------------------------------------------------------------

\* The state NewPolicyEngine leaves satisfies the invariant.
LEMMA InitGood == Init => GoInv
BY DEF Init, GoInv, TypeOK, LockInv, EngineInv, TableInv, TaskInv,
       Points, InEngine

\* Every step of every goroutine keeps the types.
LEMMA StepTypes == GoInv /\ [Next]_vars => TypeOK'
<1> SUFFICES ASSUME GoInv, [Next]_vars PROVE TypeOK'
  OBVIOUS
<1>0. TypeOK
  BY DEF GoInv
<1>1. CASE FinalizeEngine
  BY <1>0, <1>1 DEF TypeOK, FinalizeEngine, lockVars, boxVars, lost
<1>2. ASSUME NEW g \in Goroutines, Start(g) PROVE TypeOK'
  <2>1. CASE InvokeStart(g)
    BY <1>0, <2>1 DEF InvokeStart, TypeOK, Goto, Points, lockVars, engineVars, boxVars, lost
  <2>2. CASE QueryStart(g)
    BY <1>0, <2>2 DEF QueryStart, TypeOK, Goto, Points, lockVars, engineVars, boxVars, lost
  <2>3. CASE WaitStart(g)
    BY <1>0, <2>3 DEF WaitStart, TypeOK, Goto, Points, lockVars, engineVars, boxVars, lost
  <2>4. CASE ShutdownStart(g)
    BY <1>0, <2>4 DEF ShutdownStart, TypeOK, Goto, Points, lockVars, engineVars, boxVars, lost
  <2>5. CASE CloseBackground(g)
    BY <1>0, <2>5 DEF CloseBackground, TypeOK, Goto, Points, lockVars, engineVars, boxVars, lost
  <2>6. CASE CloseContext(g)
    BY <1>0, <2>6 DEF CloseContext, TypeOK, Goto, Points, lockVars, engineVars, boxVars, lost
  <2>7. CASE Drop(g)
    BY <1>0, <2>7 DEF Drop, TypeOK, Goto, Points, lockVars, engineVars, boxVars, lost
  <2> QED
    BY <1>2, <2>1, <2>2, <2>3, <2>4, <2>5, <2>6, <2>7 DEF Start
<1>3. ASSUME NEW g \in Goroutines, InCall(g) PROVE TypeOK'
  <2>1. CASE QueryEnters(g)
    BY <1>0, <2>1 DEF QueryEnters, RLock, TypeOK, Goto, Points, lockVars, engineVars, boxVars, lost
  <2>2. CASE QueryRefused(g)
    BY <1>0, <2>2 DEF QueryRefused, TypeOK, Goto, Points, lockVars, engineVars, boxVars, lost
  <2>3. CASE QueryReturns(g)
    BY <1>0, <2>3 DEF QueryReturns, RUnlock, TypeOK, Goto, Points, lockVars, engineVars, boxVars, lost
  <2>4. CASE InvokeEnters(g)
    BY <1>0, <2>4 DEF InvokeEnters, RLock, TypeOK, Goto, Points, lockVars, engineVars, boxVars, lost
  <2>5. CASE InvokeRefused(g)
    BY <1>0, <2>5 DEF InvokeRefused, TypeOK, Goto, Points, lockVars, engineVars, boxVars, lost
  <2>6. CASE InvokeMarshalFails(g)
    BY <1>0, <2>6 DEF InvokeMarshalFails, RUnlock, TypeOK, Goto, Points, lockVars, engineVars, boxVars, lost
  <2>7. CASE InvokeCalls(g)
    BY <1>0, <2>7 DEF InvokeCalls, TypeOK, Goto, Points, lockVars, engineVars, boxVars, lost
  <2>8. CASE InvokeErrors(g)
    BY <1>0, <2>8 DEF InvokeErrors, RUnlock, TypeOK, Goto, Points, lockVars, engineVars, boxVars, lost
  <2>9. CASE InvokeSucceeds(g)
    BY <1>0, <2>9 DEF InvokeSucceeds, TypeOK, Goto, Points, lockVars, engineVars, boxVars, lost
  <2>10. CASE InvokeDenied(g)
    BY <1>0, <2>10 DEF InvokeDenied, TypeOK, Goto, Points, lockVars, engineVars, boxVars, lost
  <2>11. CASE InvokeWraps(g)
    BY <1>0, <2>11 DEF InvokeWraps, RUnlock, TypeOK, Goto, Points, lockVars, engineVars, boxVars, lost
  <2>12. CASE InvokeDecodeFails(g)
    BY <1>0, <2>12 DEF InvokeDecodeFails, RUnlock, TypeOK, Goto, Points, lockVars, engineVars, boxVars, lost
  <2>13. CASE WaitCalls(g)
    BY <1>0, <2>13 DEF WaitCalls, RLock, TypeOK, Goto, Points, lockVars, engineVars, boxVars, lost
  <2>14. CASE WaitRefused(g)
    BY <1>0, <2>14 DEF WaitRefused, TypeOK, Goto, Points, lockVars, engineVars, boxVars, lost
  <2>15. CASE WaitReturns(g)
    BY <1>0, <2>15 DEF WaitReturns, RUnlock, TypeOK, Goto, Points, lockVars, engineVars, boxVars, lost
  <2>16. CASE ShutdownAnnounces(g)
    BY <1>0, <2>16 DEF ShutdownAnnounces, TypeOK, Goto, Points, lockVars, engineVars, boxVars, lost
  <2>17. CASE ShutdownCalls(g)
    BY <1>0, <2>17 DEF ShutdownCalls, TypeOK, Goto, Points, lockVars, engineVars, boxVars, lost
  <2>18. CASE ShutdownNoop(g)
    BY <1>0, <2>18 DEF ShutdownNoop, TypeOK, Goto, Points, lockVars, engineVars, boxVars, lost
  <2>19. CASE ShutdownReturns(g)
    BY <1>0, <2>19 DEF ShutdownReturns, TypeOK, Goto, Points, lockVars, engineVars, boxVars, lost
  <2> QED
    BY <1>3, <2>1, <2>2, <2>3, <2>4, <2>5, <2>6, <2>7, <2>8, <2>9, <2>10,
       <2>11, <2>12, <2>13, <2>14, <2>15, <2>16, <2>17, <2>18,
       <2>19 DEF InCall
<1>4. CASE UNCHANGED vars
  BY <1>0, <1>4 DEF TypeOK, vars, lockVars, engineVars, boxVars, lost
<1> QED
  BY <1>1, <1>2, <1>3, <1>4 DEF Next

\* Every step keeps the lock, the references and the engine in agreement.
LEMMA StepEngine == GoInv /\ [Next]_vars => LockInv' /\ EngineInv'
<1> SUFFICES ASSUME GoInv, [Next]_vars PROVE LockInv' /\ EngineInv'
  OBVIOUS
<1>0. TypeOK /\ LockInv /\ EngineInv
  BY DEF GoInv
<1>1. CASE FinalizeEngine
  <2>1. \A g \in Goroutines : pc[g] = "idle"
    BY <1>0, <1>1 DEF FinalizeEngine, LockInv
  <2> QED
    BY <1>0, <1>1, <2>1 DEF TypeOK, LockInv, EngineInv, InEngine,
       FinalizeEngine, lockVars, boxVars
<1>2. ASSUME NEW g \in Goroutines, Start(g) PROVE LockInv' /\ EngineInv'
  BY <1>0, <1>2 DEF TypeOK, LockInv, EngineInv, InEngine, Start, InvokeStart,
     QueryStart, WaitStart, ShutdownStart, CloseBackground, CloseContext,
     Drop, Goto, Points, lockVars, engineVars, boxVars
<1>3. ASSUME NEW g \in Goroutines, InCall(g) PROVE LockInv' /\ EngineInv'
  <2>1. CASE QueryEnters(g) \/ InvokeEnters(g) \/ WaitCalls(g)
    BY <1>0, <2>1 DEF TypeOK, LockInv, EngineInv, InEngine, QueryEnters,
       InvokeEnters, WaitCalls, RLock, Goto, Points, engineVars, boxVars
  <2>2. CASE QueryRefused(g) \/ InvokeRefused(g) \/ WaitRefused(g)
             \/ InvokeCalls(g) \/ InvokeSucceeds(g) \/ InvokeDenied(g)
    BY <1>0, <2>2 DEF TypeOK, LockInv, EngineInv, InEngine, QueryRefused,
       InvokeRefused, WaitRefused, InvokeCalls, InvokeSucceeds, InvokeDenied,
       Goto, Points, lockVars, engineVars, boxVars
  <2>3. CASE QueryReturns(g) \/ InvokeMarshalFails(g) \/ InvokeErrors(g)
             \/ InvokeWraps(g) \/ InvokeDecodeFails(g) \/ WaitReturns(g)
    BY <1>0, <2>3 DEF TypeOK, LockInv, EngineInv, InEngine, QueryReturns,
       InvokeMarshalFails, InvokeErrors, InvokeWraps, InvokeDecodeFails,
       WaitReturns, RUnlock, Goto, Points, engineVars, boxVars
  <2>4. CASE ShutdownAnnounces(g) \/ ShutdownNoop(g)
    BY <1>0, <2>4 DEF TypeOK, LockInv, EngineInv, InEngine,
       ShutdownAnnounces, ShutdownNoop, Goto, Points, engineVars, boxVars
  <2>5. CASE ShutdownCalls(g)
    <3>1. \A h \in Goroutines : pc[h] \notin InEngine /\ (pc[h] = "shut_rust" => h = g)
      BY <1>0, <2>5 DEF LockInv, ShutdownCalls
    <3>2. frees = 0
      BY <1>0, <2>5, <3>1 DEF TypeOK, EngineInv, ShutdownCalls
    <3> QED
      BY <1>0, <2>5, <3>1, <3>2 DEF TypeOK, LockInv, EngineInv, InEngine,
         ShutdownCalls, Goto, Points, lockVars, boxVars
  <2>6. CASE ShutdownReturns(g)
    <3>1. \A h \in Goroutines : pc[h] \notin InEngine /\ (pc[h] = "shut_rust" => h = g)
      BY <1>0, <2>6 DEF LockInv, ShutdownReturns
    <3> QED
      BY <1>0, <2>6, <3>1 DEF TypeOK, LockInv, EngineInv, InEngine,
         ShutdownReturns, Goto, Points, boxVars
  <2> QED
    BY <1>3, <2>1, <2>2, <2>3, <2>4, <2>5, <2>6 DEF InCall
<1>4. CASE UNCHANGED vars
  BY <1>0, <1>4 DEF LockInv, EngineInv, vars, lockVars, engineVars, boxVars
<1> QED
  BY <1>1, <1>2, <1>3, <1>4 DEF Next

\* Every step keeps the ownership of context tables.
LEMMA StepTables == GoInv /\ [Next]_vars => TableInv'
<1> SUFFICES ASSUME GoInv, [Next]_vars PROVE TableInv'
  OBVIOUS
<1>0. TypeOK /\ TableInv
  BY DEF GoInv
<1>1. CASE FinalizeEngine
  BY <1>0, <1>1 DEF TableInv, FinalizeEngine, lockVars, boxVars
<1>2. ASSUME NEW g \in Goroutines, Start(g) PROVE TableInv'
  <2>1. CASE InvokeStart(g)
    BY <1>0, <2>1 DEF InvokeStart, TypeOK, TableInv, Goto, boxVars
  <2>2. CASE QueryStart(g)
    BY <1>0, <2>2 DEF QueryStart, TypeOK, TableInv, Goto, boxVars
  <2>3. CASE WaitStart(g)
    BY <1>0, <2>3 DEF WaitStart, TypeOK, TableInv, Goto, boxVars
  <2>4. CASE ShutdownStart(g)
    BY <1>0, <2>4 DEF ShutdownStart, TypeOK, TableInv, Goto, boxVars
  <2>5. CASE CloseBackground(g)
    BY <1>0, <2>5 DEF CloseBackground, TypeOK, TableInv, Goto, boxVars
  <2>6. CASE CloseContext(g)
    BY <1>0, <2>6 DEF CloseContext, TypeOK, TableInv, Goto, boxVars
  <2>7. CASE Drop(g)
    BY <1>0, <2>7 DEF Drop, TypeOK, TableInv, Goto, boxVars
  <2> QED
    BY <1>2, <2>1, <2>2, <2>3, <2>4, <2>5, <2>6, <2>7 DEF Start
<1>3. ASSUME NEW g \in Goroutines, InCall(g) PROVE TableInv'
  <2>1. CASE QueryEnters(g)
    BY <1>0, <2>1 DEF QueryEnters, RLock, TypeOK, TableInv, Goto, boxVars
  <2>2. CASE QueryRefused(g)
    BY <1>0, <2>2 DEF QueryRefused, TypeOK, TableInv, Goto, boxVars
  <2>3. CASE QueryReturns(g)
    BY <1>0, <2>3 DEF QueryReturns, RUnlock, TypeOK, TableInv, Goto, boxVars
  <2>4. CASE InvokeEnters(g)
    BY <1>0, <2>4 DEF InvokeEnters, RLock, TypeOK, TableInv, Goto, boxVars
  <2>5. CASE InvokeRefused(g)
    BY <1>0, <2>5 DEF InvokeRefused, TypeOK, TableInv, Goto, boxVars
  <2>6. CASE InvokeMarshalFails(g)
    BY <1>0, <2>6 DEF InvokeMarshalFails, RUnlock, TypeOK, TableInv, Goto, boxVars
  <2>7. CASE InvokeCalls(g)
    BY <1>0, <2>7 DEF InvokeCalls, TypeOK, TableInv, Goto, boxVars
  <2>8. CASE InvokeErrors(g)
    BY <1>0, <2>8 DEF InvokeErrors, RUnlock, TypeOK, TableInv, Goto, boxVars
  <2>9. CASE InvokeSucceeds(g)
    BY <1>0, <2>9 DEF InvokeSucceeds, TypeOK, TableInv, Goto, boxVars
  <2>10. CASE InvokeDenied(g)
    BY <1>0, <2>10 DEF InvokeDenied, TypeOK, TableInv, Goto, boxVars
  <2>11. CASE InvokeWraps(g)
    BY <1>0, <2>11 DEF InvokeWraps, RUnlock, TypeOK, TableInv, Goto, boxVars
  <2>12. CASE InvokeDecodeFails(g)
    BY <1>0, <2>12 DEF InvokeDecodeFails, RUnlock, TypeOK, TableInv, Goto, boxVars
  <2>13. CASE WaitCalls(g)
    BY <1>0, <2>13 DEF WaitCalls, RLock, TypeOK, TableInv, Goto, boxVars
  <2>14. CASE WaitRefused(g)
    BY <1>0, <2>14 DEF WaitRefused, TypeOK, TableInv, Goto, boxVars
  <2>15. CASE WaitReturns(g)
    BY <1>0, <2>15 DEF WaitReturns, RUnlock, TypeOK, TableInv, Goto, boxVars
  <2>16. CASE ShutdownAnnounces(g)
    BY <1>0, <2>16 DEF ShutdownAnnounces, TypeOK, TableInv, Goto, boxVars
  <2>17. CASE ShutdownCalls(g)
    BY <1>0, <2>17 DEF ShutdownCalls, TypeOK, TableInv, Goto, boxVars
  <2>18. CASE ShutdownNoop(g)
    BY <1>0, <2>18 DEF ShutdownNoop, TypeOK, TableInv, Goto, boxVars
  <2>19. CASE ShutdownReturns(g)
    BY <1>0, <2>19 DEF ShutdownReturns, TypeOK, TableInv, Goto, boxVars
  <2> QED
    BY <1>3, <2>1, <2>2, <2>3, <2>4, <2>5, <2>6, <2>7, <2>8, <2>9, <2>10,
       <2>11, <2>12, <2>13, <2>14, <2>15, <2>16, <2>17, <2>18,
       <2>19 DEF InCall
<1>4. CASE UNCHANGED vars
  BY <1>0, <1>4 DEF TableInv, vars, boxVars
<1> QED
  BY <1>1, <1>2, <1>3, <1>4 DEF Next

\* Every step keeps the ownership of background-task boxes.
LEMMA StepTasks == GoInv /\ [Next]_vars => TaskInv'
<1> SUFFICES ASSUME GoInv, [Next]_vars PROVE TaskInv'
  OBVIOUS
<1>0. TypeOK /\ TaskInv
  BY DEF GoInv
<1>1. CASE FinalizeEngine
  BY <1>0, <1>1 DEF TaskInv, FinalizeEngine, lockVars, boxVars
<1>2. ASSUME NEW g \in Goroutines, Start(g) PROVE TaskInv'
  <2>1. CASE InvokeStart(g)
    BY <1>0, <2>1 DEF InvokeStart, TypeOK, TaskInv, Goto, boxVars
  <2>2. CASE QueryStart(g)
    BY <1>0, <2>2 DEF QueryStart, TypeOK, TaskInv, Goto, boxVars
  <2>3. CASE WaitStart(g)
    BY <1>0, <2>3 DEF WaitStart, TypeOK, TaskInv, Goto, boxVars
  <2>4. CASE ShutdownStart(g)
    BY <1>0, <2>4 DEF ShutdownStart, TypeOK, TaskInv, Goto, boxVars
  <2>5. CASE CloseBackground(g)
    BY <1>0, <2>5 DEF CloseBackground, TypeOK, TaskInv, Goto, boxVars
  <2>6. CASE CloseContext(g)
    BY <1>0, <2>6 DEF CloseContext, TypeOK, TaskInv, Goto, boxVars
  <2>7. CASE Drop(g)
    BY <1>0, <2>7 DEF Drop, TypeOK, TaskInv, Goto, boxVars
  <2> QED
    BY <1>2, <2>1, <2>2, <2>3, <2>4, <2>5, <2>6, <2>7 DEF Start
<1>3. ASSUME NEW g \in Goroutines, InCall(g) PROVE TaskInv'
  <2>1. CASE QueryEnters(g)
    BY <1>0, <2>1 DEF QueryEnters, RLock, TypeOK, TaskInv, Goto, boxVars
  <2>2. CASE QueryRefused(g)
    BY <1>0, <2>2 DEF QueryRefused, TypeOK, TaskInv, Goto, boxVars
  <2>3. CASE QueryReturns(g)
    BY <1>0, <2>3 DEF QueryReturns, RUnlock, TypeOK, TaskInv, Goto, boxVars
  <2>4. CASE InvokeEnters(g)
    BY <1>0, <2>4 DEF InvokeEnters, RLock, TypeOK, TaskInv, Goto, boxVars
  <2>5. CASE InvokeRefused(g)
    BY <1>0, <2>5 DEF InvokeRefused, TypeOK, TaskInv, Goto, boxVars
  <2>6. CASE InvokeMarshalFails(g)
    BY <1>0, <2>6 DEF InvokeMarshalFails, RUnlock, TypeOK, TaskInv, Goto, boxVars
  <2>7. CASE InvokeCalls(g)
    BY <1>0, <2>7 DEF InvokeCalls, TypeOK, TaskInv, Goto, boxVars
  <2>8. CASE InvokeErrors(g)
    BY <1>0, <2>8 DEF InvokeErrors, RUnlock, TypeOK, TaskInv, Goto, boxVars
  <2>9. CASE InvokeSucceeds(g)
    BY <1>0, <2>9 DEF InvokeSucceeds, TypeOK, TaskInv, Goto, boxVars
  <2>10. CASE InvokeDenied(g)
    BY <1>0, <2>10 DEF InvokeDenied, TypeOK, TaskInv, Goto, boxVars
  <2>11. CASE InvokeWraps(g)
    BY <1>0, <2>11 DEF InvokeWraps, RUnlock, TypeOK, TaskInv, Goto, boxVars
  <2>12. CASE InvokeDecodeFails(g)
    BY <1>0, <2>12 DEF InvokeDecodeFails, RUnlock, TypeOK, TaskInv, Goto, boxVars
  <2>13. CASE WaitCalls(g)
    BY <1>0, <2>13 DEF WaitCalls, RLock, TypeOK, TaskInv, Goto, boxVars
  <2>14. CASE WaitRefused(g)
    BY <1>0, <2>14 DEF WaitRefused, TypeOK, TaskInv, Goto, boxVars
  <2>15. CASE WaitReturns(g)
    BY <1>0, <2>15 DEF WaitReturns, RUnlock, TypeOK, TaskInv, Goto, boxVars
  <2>16. CASE ShutdownAnnounces(g)
    BY <1>0, <2>16 DEF ShutdownAnnounces, TypeOK, TaskInv, Goto, boxVars
  <2>17. CASE ShutdownCalls(g)
    BY <1>0, <2>17 DEF ShutdownCalls, TypeOK, TaskInv, Goto, boxVars
  <2>18. CASE ShutdownNoop(g)
    BY <1>0, <2>18 DEF ShutdownNoop, TypeOK, TaskInv, Goto, boxVars
  <2>19. CASE ShutdownReturns(g)
    BY <1>0, <2>19 DEF ShutdownReturns, TypeOK, TaskInv, Goto, boxVars
  <2> QED
    BY <1>3, <2>1, <2>2, <2>3, <2>4, <2>5, <2>6, <2>7, <2>8, <2>9, <2>10,
       <2>11, <2>12, <2>13, <2>14, <2>15, <2>16, <2>17, <2>18,
       <2>19 DEF InCall
<1>4. CASE UNCHANGED vars
  BY <1>0, <1>4 DEF TaskInv, vars, boxVars
<1> QED
  BY <1>1, <1>2, <1>3, <1>4 DEF Next

-----------------------------------------------------------------------------

\* The inductive invariant holds for any number of goroutines and boxes.
THEOREM HandleInvariant == Spec => []GoInv
<1>1. GoInv /\ [Next]_vars => GoInv'
  BY StepTypes, StepEngine, StepTables, StepTasks DEF GoInv
<1> QED
  BY InitGood, <1>1, PTL DEF Spec

\* No cgo call is inside an engine that Shutdown or the finalizer freed.
THEOREM EngineOutlivesCalls == Spec => []NoUseAfterFree
<1>1. GoInv => NoUseAfterFree
  <2> SUFFICES ASSUME GoInv, NEW g \in Goroutines, pc[g] \in InEngine
               PROVE  engine = "live"
    BY DEF NoUseAfterFree
  <2>1. handle = "open" /\ \A h \in Goroutines : pc[h] # "shut_rust"
    BY DEF GoInv, LockInv, EngineInv
  <2> QED
    BY <2>1 DEF GoInv, TypeOK, EngineInv
<1> QED
  BY <1>1, HandleInvariant, PTL

\* Shutdown calls and the finalizer consume the engine box at most once.
THEOREM EngineIsFreedOnce == Spec => []FreedOnce
<1>1. GoInv => FreedOnce
  BY DEF GoInv, TypeOK, EngineInv, FreedOnce
<1> QED
  BY <1>1, HandleInvariant, PTL

\* Every handle of the binding names an allocated box of its own.
THEOREM HandlesAreSound == Spec => []HandlesAreOwned
<1>1. GoInv => HandlesAreOwned
  BY DEF GoInv, TableInv, TaskInv, HandlesAreOwned
<1> QED
  BY <1>1, HandleInvariant, PTL

\* The parts of the leak property: who owns the tables, who owns the task
\* boxes, and when a task box may be abandoned.
TablesOwned ==
  \A t \in tables \ dropped : \E g \in Goroutines : t = ct[g] \/ t = ctOut[g]

TasksOwned ==
  \A t \in tasks \ (dropped \union abandoned) :
    \E g \in Goroutines : t = bg[g] \/ t = bgOut[g]

AbandonedAfterShutdown == abandoned # {} => handle = "nil"

\* A result that did not decode gives up both its boxes: they have one name.
OutsAgree == \A g \in Goroutines : bgOut[g] \in {0, ctOut[g]}

\* Every step keeps an owner for each table that was not dropped.
LEMMA StepTablesOwned == GoInv /\ TablesOwned /\ [Next]_vars => TablesOwned'
<1> SUFFICES ASSUME GoInv, TablesOwned, [Next]_vars
             PROVE  TablesOwned'
  OBVIOUS
<1>0. TypeOK /\ TableInv
  BY DEF GoInv
<1>1. CASE UNCHANGED <<ct, ctOut, tables, dropped>>
  BY <1>1 DEF TablesOwned
<1>2. ASSUME NEW g \in Goroutines, CloseContext(g) \/ InvokeCalls(g)
      PROVE  TablesOwned'
  <2>1. /\ tables' = tables \ {ct[g]} /\ ctOut' = ctOut /\ dropped' = dropped
        /\ \A h \in Goroutines : h # g => ct'[h] = ct[h]
    BY <1>0, <1>2 DEF TypeOK, CloseContext, InvokeCalls, lost
  <2> QED
    BY <2>1 DEF TablesOwned
<1>3. ASSUME NEW g \in Goroutines, InvokeSucceeds(g) \/ InvokeDenied(g)
      PROVE  TablesOwned'
  <2>1. ctOut[g] = 0 /\ 0 \notin tables
    BY <1>0, <1>3 DEF TypeOK, TableInv, InvokeSucceeds, InvokeDenied
  <2>2. /\ ct' = ct /\ tables' = tables \union {made'} /\ dropped' = dropped
        /\ ctOut'[g] = made'
        /\ \A h \in Goroutines : h # g => ctOut'[h] = ctOut[h]
    BY <1>0, <1>3 DEF TypeOK, InvokeSucceeds, InvokeDenied, lost
  <2> QED
    BY <2>1, <2>2 DEF TablesOwned
<1>4. ASSUME NEW g \in Goroutines, InvokeWraps(g)
      PROVE  TablesOwned'
  <2>1. ct[g] = 0 /\ 0 \notin tables
    BY <1>0, <1>4 DEF TypeOK, TableInv, InvokeWraps
  <2>2. /\ tables' = tables /\ ct'[g] = ctOut[g] /\ dropped' = dropped
        /\ \A h \in Goroutines : h # g => ctOut'[h] = ctOut[h] /\ ct'[h] = ct[h]
    BY <1>0, <1>4 DEF TypeOK, InvokeWraps, lost
  <2> QED
    BY <2>1, <2>2 DEF TablesOwned
<1>5. ASSUME NEW g \in Goroutines, InvokeDecodeFails(g)
      PROVE  TablesOwned'
  <2>1. /\ tables' = tables /\ ct' = ct
        /\ dropped' = dropped \union {ctOut[g]}
        /\ \A h \in Goroutines : h # g => ctOut'[h] = ctOut[h]
    BY <1>0, <1>5 DEF TypeOK, InvokeDecodeFails
  <2> QED
    BY <2>1 DEF TablesOwned
<1>6. \/ UNCHANGED <<ct, ctOut, tables, dropped>>
      \/ \E g \in Goroutines :
           \/ CloseContext(g) \/ InvokeCalls(g) \/ InvokeSucceeds(g)
           \/ InvokeDenied(g) \/ InvokeWraps(g) \/ InvokeDecodeFails(g)
  BY DEF Next, FinalizeEngine, Start, InCall, InvokeStart, QueryStart,
     WaitStart, ShutdownStart, CloseBackground, Drop, QueryEnters,
     QueryRefused, QueryReturns, InvokeEnters, InvokeRefused,
     InvokeMarshalFails, InvokeErrors, WaitCalls,
     WaitRefused, WaitReturns, ShutdownAnnounces, ShutdownCalls,
     ShutdownNoop, ShutdownReturns, vars, boxVars, lost
<1> QED
  BY <1>1, <1>2, <1>3, <1>4, <1>5, <1>6

\* Every step keeps an owner for each task box that was neither dropped nor
\* abandoned.
LEMMA StepTasksOwned ==
  GoInv /\ TasksOwned /\ OutsAgree /\ [Next]_vars => TasksOwned' /\ OutsAgree'
<1> SUFFICES ASSUME GoInv, TasksOwned, OutsAgree, [Next]_vars
             PROVE  TasksOwned' /\ OutsAgree'
  OBVIOUS
<1>0. TypeOK /\ TaskInv /\ TableInv
  BY DEF GoInv
<1>1. CASE UNCHANGED <<bg, bgOut, ctOut, tasks, lost>>
  BY <1>1 DEF TasksOwned, OutsAgree, lost
<1>2. ASSUME NEW g \in Goroutines, CloseBackground(g)
      PROVE  TasksOwned' /\ OutsAgree'
  <2>1. /\ tasks' = tasks \ {bg[g]} /\ UNCHANGED <<bgOut, ctOut, dropped, abandoned>>
        /\ \A h \in Goroutines : h # g => bg'[h] = bg[h]
    BY <1>0, <1>2 DEF TypeOK, CloseBackground, lost
  <2> QED
    BY <2>1 DEF TasksOwned, OutsAgree
<1>3. ASSUME NEW g \in Goroutines, WaitCalls(g)
      PROVE  TasksOwned' /\ OutsAgree'
  <2>1. tasks' \subseteq tasks /\ UNCHANGED <<bg, bgOut, ctOut, dropped, abandoned>>
    BY <1>3 DEF WaitCalls, lost
  <2> QED
    BY <2>1 DEF TasksOwned, OutsAgree
<1>4. ASSUME NEW g \in Goroutines, WaitRefused(g)
      PROVE  TasksOwned' /\ OutsAgree'
  <2>1. /\ abandoned' = abandoned \union {bg[g]}
        /\ UNCHANGED <<bgOut, ctOut, tasks, dropped>>
        /\ \A h \in Goroutines : h # g => bg'[h] = bg[h]
    BY <1>0, <1>4 DEF TypeOK, WaitRefused
  <2> QED
    BY <2>1 DEF TasksOwned, OutsAgree
<1>5. ASSUME NEW g \in Goroutines, WaitReturns(g)
      PROVE  TasksOwned' /\ OutsAgree'
  <2>1. bg[g] \notin tasks
    BY <1>0, <1>5 DEF TaskInv, WaitReturns
  <2>2. /\ UNCHANGED <<bgOut, ctOut, tasks, dropped, abandoned>>
        /\ \A h \in Goroutines : h # g => bg'[h] = bg[h]
    BY <1>0, <1>5 DEF TypeOK, WaitReturns, lost
  <2> QED
    BY <2>1, <2>2 DEF TasksOwned, OutsAgree
<1>6. ASSUME NEW g \in Goroutines, InvokeSucceeds(g)
      PROVE  TasksOwned' /\ OutsAgree'
  <2>1. bgOut[g] = 0 /\ 0 \notin tasks
    BY <1>0, <1>6 DEF TypeOK, TaskInv, InvokeSucceeds
  <2>2. /\ bg' = bg /\ tasks' = tasks \union {made'}
        /\ UNCHANGED <<dropped, abandoned>>
        /\ bgOut'[g] = made' /\ ctOut'[g] = made'
        /\ \A h \in Goroutines : h # g => bgOut'[h] = bgOut[h] /\ ctOut'[h] = ctOut[h]
    BY <1>0, <1>6 DEF TypeOK, InvokeSucceeds, lost
  <2> QED
    BY <2>1, <2>2 DEF TasksOwned, OutsAgree
<1>7. ASSUME NEW g \in Goroutines, InvokeDenied(g)
      PROVE  TasksOwned' /\ OutsAgree'
  <2>1. bgOut[g] = 0
    BY <1>0, <1>7 DEF TaskInv, InvokeDenied
  <2>2. /\ UNCHANGED <<bg, bgOut, tasks, dropped, abandoned>>
        /\ \A h \in Goroutines : h # g => ctOut'[h] = ctOut[h]
    BY <1>0, <1>7 DEF TypeOK, InvokeDenied, lost
  <2> QED
    BY <2>1, <2>2 DEF TasksOwned, OutsAgree
<1>8. ASSUME NEW g \in Goroutines, InvokeWraps(g)
      PROVE  TasksOwned' /\ OutsAgree'
  <2>1. bg[g] = 0 /\ 0 \notin tasks
    BY <1>0, <1>8 DEF TypeOK, TaskInv, InvokeWraps
  <2>2. /\ UNCHANGED <<tasks, dropped, abandoned>>
        /\ bg'[g] = bgOut[g] /\ bgOut'[g] = 0
        /\ \A h \in Goroutines : h # g =>
             bg'[h] = bg[h] /\ bgOut'[h] = bgOut[h] /\ ctOut'[h] = ctOut[h]
    BY <1>0, <1>8 DEF TypeOK, InvokeWraps, lost
  <2> QED
    BY <2>1, <2>2 DEF TasksOwned, OutsAgree
<1>9. ASSUME NEW g \in Goroutines, InvokeDecodeFails(g)
      PROVE  TasksOwned' /\ OutsAgree'
  <2>1. 0 \notin tasks
    BY <1>0 DEF TypeOK, TaskInv
  <2>2. /\ UNCHANGED <<bg, tasks, abandoned>>
        /\ dropped' = dropped \union {ctOut[g]} /\ bgOut'[g] = 0
        /\ \A h \in Goroutines : h # g => bgOut'[h] = bgOut[h] /\ ctOut'[h] = ctOut[h]
    BY <1>0, <1>9 DEF TypeOK, InvokeDecodeFails
  <2> QED
    BY <2>1, <2>2 DEF TasksOwned, OutsAgree
<1>10. \/ UNCHANGED <<bg, bgOut, ctOut, tasks, lost>>
       \/ \E g \in Goroutines :
            \/ CloseBackground(g) \/ WaitCalls(g) \/ WaitRefused(g)
            \/ WaitReturns(g) \/ InvokeSucceeds(g) \/ InvokeDenied(g)
            \/ InvokeWraps(g) \/ InvokeDecodeFails(g)
  BY DEF Next, FinalizeEngine, Start, InCall, InvokeStart, QueryStart,
     WaitStart, ShutdownStart, CloseContext, Drop, QueryEnters,
     QueryRefused, QueryReturns, InvokeEnters, InvokeRefused,
     InvokeMarshalFails, InvokeCalls, InvokeErrors, ShutdownAnnounces,
     ShutdownCalls, ShutdownNoop, ShutdownReturns, vars, boxVars
<1> QED
  BY <1>1, <1>2, <1>3, <1>4, <1>5, <1>6, <1>7, <1>8, <1>9, <1>10

\* Only a Wait that finds the engine shut down abandons a box, and a shut
\* engine does not come back.
LEMMA StepAbandoned ==
  AbandonedAfterShutdown /\ [Next]_vars => AbandonedAfterShutdown'
<1> SUFFICES ASSUME AbandonedAfterShutdown, [Next]_vars
             PROVE  AbandonedAfterShutdown'
  OBVIOUS
<1>1. handle' = handle \/ handle' = "nil"
  BY DEF Next, FinalizeEngine, Start, InCall, InvokeStart, QueryStart,
     WaitStart, ShutdownStart, CloseBackground, CloseContext, Drop,
     QueryEnters, QueryRefused, QueryReturns, InvokeEnters, InvokeRefused,
     InvokeMarshalFails, InvokeCalls, InvokeErrors, InvokeSucceeds,
     InvokeDenied, InvokeWraps, InvokeDecodeFails, WaitCalls, WaitRefused,
     WaitReturns, ShutdownAnnounces, ShutdownCalls, ShutdownNoop,
     ShutdownReturns, vars, engineVars
<1>2. abandoned' = abandoned \/ handle = "nil"
  BY DEF Next, FinalizeEngine, Start, InCall, InvokeStart, QueryStart,
     WaitStart, ShutdownStart, CloseBackground, CloseContext, Drop,
     QueryEnters, QueryRefused, QueryReturns, InvokeEnters, InvokeRefused,
     InvokeMarshalFails, InvokeCalls, InvokeErrors, InvokeSucceeds,
     InvokeDenied, InvokeWraps, InvokeDecodeFails, WaitCalls, WaitRefused,
     WaitReturns, ShutdownAnnounces, ShutdownCalls, ShutdownNoop,
     ShutdownReturns, vars, lost
<1> QED
  BY <1>1, <1>2 DEF AbandonedAfterShutdown

\* An allocated table or task box has an owner, unless its result did not
\* decode or a Wait after Shutdown abandoned it.
THEOREM NoBoxLeaks == Spec => []BoxesNeverLeak
<1> DEFINE LeakInv == TablesOwned /\ TasksOwned /\ OutsAgree /\ AbandonedAfterShutdown
<1>1. Init => LeakInv
  BY DEF Init, TablesOwned, TasksOwned, OutsAgree, AbandonedAfterShutdown
<1>2. GoInv /\ LeakInv /\ [Next]_vars => LeakInv'
  BY StepTablesOwned, StepTasksOwned, StepAbandoned
<1>3. LeakInv => BoxesNeverLeak
  BY DEF TablesOwned, TasksOwned, AbandonedAfterShutdown, BoxesNeverLeak
<1> QED
  BY <1>1, <1>2, <1>3, HandleInvariant, PTL DEF Spec
=============================================================================
