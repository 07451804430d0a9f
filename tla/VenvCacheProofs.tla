--------------------------- MODULE VenvCacheProofs ---------------------------
(***************************************************************************)
(* The shared venv, for any number of classes, versions, edits and faults. *)
(*                                                                         *)
(* The types and the absence of thrashing hold in every mode.  That nobody *)
(* loses the venv it runs out of rests on one engine whose lifecycle calls *)
(* overlap neither each other nor an invocation, and on a registry whose   *)
(* writes do not tear (Quiet); respawns overlap each other freely.         *)
(***************************************************************************)
EXTENDS VenvCache, TLAPS

\* Threads are the lifecycle call and the respawn of each class.
LEMMA ThreadFacts ==
    /\ \A c \in Classes :
          /\ Life(c) \in Threads /\ Respawn(c) \in Threads
          /\ Life(c)[1] = c /\ Life(c)[2] = "life" /\ Respawn(c)[1] = c /\ Respawn(c)[2] = "respawn"
    /\ \A c, d \in Classes : Life(c) # Respawn(d) /\ (Life(c) = Life(d) => c = d)
    /\ \A t \in Threads :
          t[1] \in Classes /\ (t = Life(t[1]) \/ t = Respawn(t[1]))
  BY DEF Threads, Life, Respawn

-----------------------------------------------------------------------------
(* Types *)

\* What a thread's step may do to the thread's own state.
LEMMA GotoType ==
    ASSUME TypeOK, NEW t \in Threads, NEW p \in Ensuring \cup {"off", "on", "releasing"}, Goto(t, p)
    PROVE  pc' \in [Threads -> Ensuring \cup {"off", "on", "releasing"}]
  BY DEF TypeOK, Goto

\* Locals that go out of scope get their initial values.
LEMMA ForgetFacts ==
    ASSUME TypeOK, NEW ended, Forget(ended)
    PROVE  /\ inPlace' \in [Threads -> BOOLEAN] /\ reused' \in [Threads -> BOOLEAN]
           /\ got' \in [Threads -> Versions \cup {NoVersion}] /\ seen' \in [Threads -> SUBSET Classes]
           /\ \A t \in Threads \ ended :
                 /\ inPlace'[t] = inPlace[t] /\ reused'[t] = reused[t]
                 /\ got'[t] = got[t] /\ seen'[t] = seen[t]
<1>1. \A t \in Threads : (t \notin ended /\ inPlace[t]) \in BOOLEAN /\ (t \notin ended /\ reused[t]) \in BOOLEAN
  OBVIOUS
<1>2. inPlace' \in [Threads -> BOOLEAN] /\ reused' \in [Threads -> BOOLEAN]
  BY <1>1, Zenon DEF Forget
<1>3. /\ got' \in [Threads -> Versions \cup {NoVersion}] /\ seen' \in [Threads -> SUBSET Classes]
      /\ \A t \in Threads \ ended : got'[t] = got[t] /\ seen'[t] = seen[t]
  BY DEF Forget, TypeOK
<1>4. ASSUME NEW t \in Threads \ ended PROVE inPlace'[t] = inPlace[t] /\ reused'[t] = reused[t]
  <2>1. inPlace'[t] = (t \notin ended /\ inPlace[t]) /\ reused'[t] = (t \notin ended /\ reused[t])
    BY Zenon DEF Forget
  <2>2. inPlace[t] \in BOOLEAN /\ reused[t] \in BOOLEAN
    BY DEF TypeOK
  <2>3. QED
    BY <2>1, <2>2
<1>5. QED
  BY <1>2, <1>3, <1>4

\* The types hold in every reachable state, whatever the mode.
LEMMA TypeStep == TypeOK /\ [Next]_vars => TypeOK'
<1> SUFFICES ASSUME TypeOK, [Next]_vars PROVE TypeOK'
  OBVIOUS
<1> USE BoundsAssumption, VersionsAssumption
<1>1. ASSUME NEW t \in Threads, EnsureHit(t) PROVE TypeOK'
  <2>1. pc' \in [Threads -> Ensuring \cup {"off", "on", "releasing"}]
    BY <1>1, GotoType DEF EnsureHit, Ensuring
  <2>2. reused' \in [Threads -> BOOLEAN] /\ current' \in [Classes -> BOOLEAN] /\ running' \subseteq Classes
    BY <1>1, ThreadFacts DEF EnsureHit, TypeOK, AfterStart
  <2>3. QED
    BY <1>1, <2>1, <2>2 DEF EnsureHit, TypeOK, diskVars
<1>2. ASSUME NEW t \in Threads, EnsureMiss(t) PROVE TypeOK'
  <2>1. pc' \in [Threads -> Ensuring \cup {"off", "on", "releasing"}]
    BY <1>2, GotoType DEF EnsureMiss, Ensuring
  <2>2. reused' \in [Threads -> BOOLEAN] /\ current' \in [Classes -> BOOLEAN] /\ running' \subseteq Classes
    BY <1>2, ThreadFacts DEF EnsureMiss, TypeOK, AfterStart
  <2>3. inPlace' \in [Threads -> BOOLEAN]
    <3>1. (HasOtherOwner(t[1]) /\ venv # "absent") \in BOOLEAN
      OBVIOUS
    <3>2. QED
      BY <1>2, <3>1, Zenon DEF EnsureMiss, TypeOK
  <2>4. QED
    BY <1>2, <2>1, <2>2, <2>3 DEF EnsureMiss, TypeOK, diskVars
<1>3. ASSUME NEW t \in Threads, EnsureStep(t) PROVE TypeOK'
  <2>1. t[1] \in Classes
    BY ThreadFacts
  <2>2. CASE PrepareWipes(t)
    BY <2>2, GotoType DEF PrepareWipes, TypeOK, Ensuring, NoVersion
  <2>3. CASE PrepareKeeps(t)
    BY <2>3, GotoType DEF PrepareKeeps, TypeOK, Ensuring, diskVars
  <2>13. CASE PipSkipped(t)
    BY <2>13, GotoType DEF PipSkipped, TypeOK, Ensuring, diskVars
  <2>4. CASE CreateVenv(t)
    BY <2>4, GotoType DEF CreateVenv, TypeOK, Ensuring
  <2>5. CASE PipStarts(t)
    BY <2>1, <2>5, GotoType DEF PipStarts, TypeOK, Ensuring, diskVars
  <2>6. CASE PipSucceeds(t)
    BY <2>1, <2>6, GotoType DEF PipSucceeds, TypeOK, Ensuring, Worn
  <2>7. AfterClaim(t) \in Ensuring
    BY DEF AfterClaim, Ensuring
  <2>8. CASE ClaimReads(t)
    BY <2>7, <2>8, GotoType DEF ClaimReads, TypeOK, Ensuring, diskVars
  <2>9. CASE ClaimWrites(t)
    BY <2>1, <2>7, <2>9, GotoType DEF ClaimWrites, TypeOK
  <2>10. CASE SaveMetadata(t)
    BY <2>1, <2>10, GotoType DEF SaveMetadata, TypeOK, Ensuring
  <2>11. CASE Launch(t)
    BY <2>1, <2>11, GotoType, ForgetFacts DEF Launch, TypeOK, diskVars
  <2>12. QED
    BY <1>3, <2>2, <2>3, <2>4, <2>5, <2>6, <2>8, <2>9, <2>10, <2>11, <2>13 DEF EnsureStep
<1>4. ASSUME NEW t \in Threads, EnsureFails(t) PROVE TypeOK'
  <2>1. t[1] \in Classes
    BY ThreadFacts
  <2>2. pc' \in [Threads -> Ensuring \cup {"off", "on", "releasing"}]
    BY <1>4, GotoType DEF EnsureFails
  <2>3. /\ faults' \in 0..MaxFaults /\ venv' \in {"absent", "partial", "ready"}
        /\ owners' \subseteq Classes
    BY <1>4 DEF EnsureFails, TypeOK
  <2>4. installed' \in [Classes -> Versions \cup {NoVersion}]
    BY <1>4, <2>1 DEF EnsureFails, TypeOK, Worn
  <2>5. metadata' \in [Classes -> Versions \cup {NoVersion}]
    BY <1>4, <2>1 DEF EnsureFails, TypeOK
  <2>6. QED
    BY <1>4, <2>2, <2>3, <2>4, <2>5, ForgetFacts DEF EnsureFails, TypeOK
<1>5. ASSUME NEW c \in Classes, ReleaseReads(c) PROVE TypeOK'
  <2>1. pc' \in [Threads -> Ensuring \cup {"off", "on", "releasing"}]
    BY <1>5, ThreadFacts, GotoType DEF ReleaseReads
  <2>2. QED
    BY <1>5, <2>1 DEF ReleaseReads, TypeOK, diskVars
<1>6. ASSUME NEW c \in Classes, ReleaseWrites(c) \/ ReleaseFails(c) PROVE TypeOK'
  <2>1. pc' \in [Threads -> Ensuring \cup {"off", "on", "releasing"}]
    BY <1>6, ThreadFacts, GotoType DEF ReleaseWrites, ReleaseFails
  <2>2. seen[Life(c)] \subseteq Classes
    BY ThreadFacts DEF TypeOK
  <2>3. owners' \subseteq Classes /\ faults' \in 0..MaxFaults
    BY <1>6, <2>2 DEF ReleaseWrites, ReleaseFails, TypeOK
  <2>4. QED
    BY <1>6, <2>1, <2>3, ForgetFacts DEF ReleaseWrites, ReleaseFails, TypeOK
<1>7. ASSUME NEW c \in Classes, HostCrashes(c) PROVE TypeOK'
  <2>1. pc' \in [Threads -> Ensuring \cup {"off", "on", "releasing"}]
    BY <1>7 DEF HostCrashes, TypeOK
  <2>2. /\ metadata' \in [Classes -> Versions \cup {NoVersion}]
        /\ installed' \in [Classes -> Versions \cup {NoVersion}]
    BY <1>7 DEF HostCrashes, TypeOK, Worn
  <2>3. /\ owners' \subseteq Classes /\ faults' \in 0..MaxFaults /\ running' \subseteq Classes
        /\ venv' \in {"absent", "partial", "ready"}
    BY <1>7 DEF HostCrashes, TypeOK
  <2>4. PICK hit : Forget(hit)
    BY <1>7 DEF HostCrashes
  <2>5. QED
    BY <1>7, <2>1, <2>2, <2>3, <2>4, ForgetFacts DEF HostCrashes, TypeOK
<1>8. ASSUME NEW c \in Classes, Edit(c) PROVE TypeOK'
  BY <1>8 DEF Edit, TypeOK, diskVars, threadVars
<1>9. CASE RemoveVenv
  BY <1>9 DEF RemoveVenv, TypeOK, threadVars, NoVersion
<1>10. CASE UNCHANGED vars
  BY <1>10 DEF vars, diskVars, threadVars, TypeOK
<1>11. QED
  BY <1>1, <1>2, <1>3, <1>4, <1>5, <1>6, <1>7, <1>8, <1>9, <1>10 DEF Next

\* Every file, flag and counter keeps its type.
THEOREM VenvTypes == Spec => []TypeOK
<1>1. Init => TypeOK
  BY BoundsAssumption DEF Init, TypeOK, NoVersion
<1>2. QED
  BY <1>1, TypeStep, PTL DEF Spec

-----------------------------------------------------------------------------
(* No thrash: the inductive invariant                                      *)

\* What the metadata of c may read while its own call is past the verdict and
\* nobody has edited what it declares.
Building == {"prepare", "create", "pip", "installing", "save"}
Vouched(c) == current[c] => metadata[c] \in {want[c], NoVersion}
ThrashInv ==
    /\ TypeOK
    /\ \A t \in Threads : pc[t] \in Building => ~reused[t]
    /\ \A c \in Classes :
          \/ pc[Life(c)] \in {"launch", "on"}
          \/ reused[Life(c)] /\ pc[Life(c)] \in {"claim", "claiming"}
          => Vouched(c)

\* A step that leaves the metadata and the declarations alone, and brings no
\* class to a point where it has to be vouched for.
LEMMA ThrashFrame ==
    ASSUME ThrashInv, TypeOK',
           \A c \in Classes :
              /\ current'[c] => current[c] /\ want'[c] = want[c]
              /\ metadata'[c] \in {metadata[c], NoVersion}
              /\ \/ pc'[Life(c)] \in {"launch", "on"}
                 \/ reused'[Life(c)] /\ pc'[Life(c)] \in {"claim", "claiming"}
                 => \/ pc[Life(c)] \in {"launch", "on"}
                    \/ reused[Life(c)] /\ pc[Life(c)] \in {"claim", "claiming"},
           \A t \in Threads : pc'[t] \in Building => ~reused'[t]
    PROVE  ThrashInv'
  BY DEF ThrashInv, Vouched

\* The verdict that starts a call.
LEMMA ThrashStart ==
    ASSUME ThrashInv, TypeOK', NEW t \in Threads, EnsureHit(t) \/ EnsureMiss(t)
    PROVE  ThrashInv'
<1>1. /\ \A u \in Threads \ {t} : pc'[u] = pc[u] /\ reused'[u] = reused[u]
      /\ UNCHANGED <<want, metadata>>
      /\ \A c \in Classes \ {t[1]} : current'[c] = current[c]
      /\ t # Life(t[1]) => current' = current
  <2>1. \A u \in Threads \ {t} : pc'[u] = pc[u] /\ reused'[u] = reused[u]
    BY DEF EnsureHit, EnsureMiss, Goto, ThrashInv, TypeOK
  <2>2. UNCHANGED <<want, metadata>>
    BY DEF EnsureHit, EnsureMiss, diskVars
  <2>3. t # Life(t[1]) => t[2] = "respawn"
    BY ThreadFacts
  <2>4. /\ t[2] = "life" => current' = [current EXCEPT ![t[1]] = TRUE]
        /\ t[2] # "life" => current' = current
    BY DEF EnsureHit, EnsureMiss
  <2>5. QED
    BY <2>1, <2>2, <2>3, <2>4 DEF ThrashInv, TypeOK
<1>2. \/ EnsureHit(t) /\ pc'[t] = "claim" /\ reused'[t] = TRUE /\ metadata[t[1]] = want[t[1]]
      \/ EnsureMiss(t) /\ pc'[t] = "prepare" /\ reused'[t] = FALSE
  BY DEF EnsureHit, EnsureMiss, Goto, ThrashInv, TypeOK, Valid
<1>3. ASSUME NEW u \in Threads, pc'[u] \in Building PROVE ~reused'[u]
  BY <1>1, <1>2, <1>3 DEF ThrashInv, Building
<1>4. ASSUME NEW c \in Classes,
             \/ pc'[Life(c)] \in {"launch", "on"}
             \/ reused'[Life(c)] /\ pc'[Life(c)] \in {"claim", "claiming"}
      PROVE  Vouched(c)'
  <2>1. CASE t = Life(c)
    BY <1>1, <1>2, <1>4, <2>1, ThreadFacts DEF Vouched
  <2>2. CASE t # Life(c)
    <3>1. current'[c] = current[c]
      BY <1>1, <2>2, ThreadFacts
    <3>2. QED
      BY <1>1, <1>4, <2>2, <3>1, ThreadFacts DEF Vouched, ThrashInv
  <2>3. QED
    BY <2>1, <2>2
<1>5. QED
  BY <1>3, <1>4 DEF ThrashInv

\* A step of an ensure moves its own thread.
LEMMA OthersStay ==
    ASSUME TypeOK, NEW t \in Threads, NEW p, Goto(t, p)
    PROVE  pc'[t] = p /\ \A u \in Threads \ {t} : pc'[u] = pc[u]
  BY DEF Goto, TypeOK

\* The steps of an ensure: only the save writes metadata, its own.
LEMMA ThrashStep ==
    ASSUME ThrashInv, TypeOK', NEW t \in Threads, EnsureStep(t)
    PROVE  ThrashInv'
<1>1. TypeOK /\ t[1] \in Classes
  BY ThreadFacts DEF ThrashInv
<1>2. UNCHANGED <<want, current>>
  BY DEF EnsureStep, PrepareWipes, PrepareKeeps, CreateVenv, PipSkipped, PipStarts, PipSucceeds,
     ClaimReads, ClaimWrites, SaveMetadata, Launch
<1>3. CASE PrepareWipes(t) \/ PrepareKeeps(t) \/ CreateVenv(t) \/ PipSkipped(t) \/ PipStarts(t)
             \/ PipSucceeds(t) \/ ClaimReads(t) \/ ClaimWrites(t)
  <2>1. UNCHANGED <<metadata, reused>>
    BY <1>3 DEF PrepareWipes, PrepareKeeps, CreateVenv, PipSkipped, PipStarts, PipSucceeds,
       ClaimReads, ClaimWrites, diskVars
  <2>2. \E p \in {"create", "pip", "installing", "claim", "claiming", "save", "launch"} :
           /\ Goto(t, p)
           /\ p \in {"save", "launch"} => pc[t] \in {"claim", "claiming"} /\ (p = "launch" <=> reused[t])
           /\ p = "claiming" => pc[t] = "claim"
           /\ p \in {"create", "pip", "installing"} => pc[t] \in {"prepare", "create", "pip"}
           /\ p = "claim" => pc[t] \in {"pip", "installing"}
    BY <1>3 DEF PrepareWipes, PrepareKeeps, CreateVenv, PipSkipped, PipStarts, PipSucceeds,
       ClaimReads, ClaimWrites, AfterClaim
  <2>3. \A u \in Threads : pc'[u] \in Building => ~reused'[u]
    <3>1. pc'[t] \in Building => ~reused[t]
      BY <1>1, <2>2, OthersStay DEF ThrashInv, Building
    <3>2. QED
      BY <1>1, <2>1, <2>2, <3>1, OthersStay DEF ThrashInv
  <2>4. ASSUME NEW c \in Classes,
               \/ pc'[Life(c)] \in {"launch", "on"}
               \/ reused'[Life(c)] /\ pc'[Life(c)] \in {"claim", "claiming"}
        PROVE  \/ pc[Life(c)] \in {"launch", "on"}
               \/ reused[Life(c)] /\ pc[Life(c)] \in {"claim", "claiming"}
    BY <1>1, <2>1, <2>2, <2>4, OthersStay, ThreadFacts DEF ThrashInv, Building
  <2>5. QED
    BY <1>2, <2>1, <2>3, <2>4, ThrashFrame
<1>4. CASE SaveMetadata(t)
  <2>1. /\ pc'[t] = "launch" /\ (\A u \in Threads \ {t} : pc'[u] = pc[u])
        /\ reused' = reused /\ metadata' = [metadata EXCEPT ![t[1]] = want[t[1]]]
    BY <1>1, <1>4, OthersStay DEF SaveMetadata
  <2>2. metadata'[t[1]] = want[t[1]] /\ \A c \in Classes \ {t[1]} : metadata'[c] = metadata[c]
    BY <1>1, <2>1 DEF TypeOK
  <2>3. \A u \in Threads : pc'[u] \in Building => ~reused'[u]
    BY <2>1 DEF ThrashInv, Building
  <2>4. ASSUME NEW c \in Classes,
               \/ pc'[Life(c)] \in {"launch", "on"}
               \/ reused'[Life(c)] /\ pc'[Life(c)] \in {"claim", "claiming"}
        PROVE  Vouched(c)'
    BY <1>2, <2>1, <2>2, <2>4, ThreadFacts DEF ThrashInv, Vouched
  <2>5. QED
    BY <2>3, <2>4 DEF ThrashInv
<1>5. CASE Launch(t)
  <2>1. /\ (\A u \in Threads \ {t} : pc'[u] = pc[u] /\ reused'[u] = reused[u])
        /\ pc'[t] \in {"on", "off"} /\ pc[t] = "launch" /\ metadata' = metadata
    BY <1>1, <1>5, OthersStay, ForgetFacts DEF Launch, diskVars
  <2>2. \A u \in Threads : pc'[u] \in Building => ~reused'[u]
    BY <2>1 DEF ThrashInv, Building
  <2>3. ASSUME NEW c \in Classes,
               \/ pc'[Life(c)] \in {"launch", "on"}
               \/ reused'[Life(c)] /\ pc'[Life(c)] \in {"claim", "claiming"}
        PROVE  \/ pc[Life(c)] \in {"launch", "on"}
               \/ reused[Life(c)] /\ pc[Life(c)] \in {"claim", "claiming"}
    BY <2>1, <2>3, ThreadFacts
  <2>4. QED
    BY <1>2, <2>1, <2>2, <2>3, ThrashFrame
<1>6. QED
  BY <1>3, <1>4, <1>5 DEF EnsureStep

\* Calls that end, whatever they leave on disk.
LEMMA ThrashEnds ==
    ASSUME ThrashInv, TypeOK', NEW ended \in SUBSET Threads, Forget(ended),
           pc' = [t \in Threads |-> IF t \in ended THEN "off" ELSE pc[t]],
           UNCHANGED <<want, current>>,
           \A c \in Classes : metadata'[c] \in {metadata[c], NoVersion}
    PROVE  ThrashInv'
<1>1. \A t \in Threads \ ended : pc'[t] = pc[t] /\ reused'[t] = reused[t]
  BY ForgetFacts DEF ThrashInv
<1>2. \A t \in ended : pc'[t] = "off"
  OBVIOUS
<1>3. \A t \in Threads : pc'[t] \in Building => ~reused'[t]
  BY <1>1, <1>2 DEF ThrashInv, Building
<1>4. ASSUME NEW c \in Classes,
             \/ pc'[Life(c)] \in {"launch", "on"}
             \/ reused'[Life(c)] /\ pc'[Life(c)] \in {"claim", "claiming"}
      PROVE  \/ pc[Life(c)] \in {"launch", "on"}
             \/ reused[Life(c)] /\ pc[Life(c)] \in {"claim", "claiming"}
  BY <1>1, <1>2, <1>4, ThreadFacts
<1>5. QED
  BY <1>3, <1>4, ThrashFrame

\* A class that is on and up to date is not read as changed: the invariant
\* holds in every mode, under every overlap, fault and edit.
THEOREM CacheNeverThrashes == Spec => []NoThrash
<1>1. Init => ThrashInv
  BY BoundsAssumption, ThreadFacts DEF Init, TypeOK, NoVersion, ThrashInv, Building
<1>2. ThrashInv /\ [Next]_vars => ThrashInv'
  <2> SUFFICES ASSUME ThrashInv, [Next]_vars PROVE ThrashInv'
    OBVIOUS
  <2>1. TypeOK /\ TypeOK'
    BY TypeStep DEF ThrashInv
  <2>2. ASSUME NEW t \in Threads, EnsureHit(t) \/ EnsureMiss(t) \/ EnsureStep(t)
        PROVE  ThrashInv'
    BY <2>1, <2>2, ThrashStart, ThrashStep
  <2>3. ASSUME NEW t \in Threads, EnsureFails(t) PROVE ThrashInv'
    <3>1. /\ pc' = [u \in Threads |-> IF u \in {t} THEN "off" ELSE pc[u]]
          /\ Forget({t}) /\ UNCHANGED <<want, current>>
      BY <2>1, <2>3 DEF EnsureFails, Goto, TypeOK
    <3>2. \A c \in Classes : metadata'[c] \in {metadata[c], NoVersion}
      BY <2>1, <2>3 DEF EnsureFails, TypeOK
    <3>3. QED
      BY <2>1, <3>1, <3>2, ThrashEnds
  <2>4. ASSUME NEW c \in Classes, HostCrashes(c) PROVE ThrashInv'
    <3> DEFINE hit == {t \in Threads : t[1] \in HostOf(c)}
    <3>1. /\ pc' = [u \in Threads |-> IF u \in hit THEN "off" ELSE pc[u]]
          /\ Forget(hit) /\ UNCHANGED <<want, current>>
      BY <2>4 DEF HostCrashes
    <3>2. \A d \in Classes : metadata'[d] \in {metadata[d], NoVersion}
      BY <2>4 DEF HostCrashes
    <3> HIDE DEF hit
    <3>3. QED
      BY <2>1, <3>1, <3>2, ThrashEnds DEF hit
  <2>5. ASSUME NEW c \in Classes, ReleaseReads(c) PROVE ThrashInv'
    <3>1. \A u \in Threads \ {Life(c)} : pc'[u] = pc[u]
      BY <2>1, <2>5, ThreadFacts, OthersStay DEF ReleaseReads
    <3>2. pc'[Life(c)] \in {"off", "releasing"} /\ UNCHANGED <<want, metadata, reused, current>>
      BY <2>1, <2>5, ThreadFacts, OthersStay DEF ReleaseReads, diskVars
    <3>3. QED
      BY <2>1, <3>1, <3>2, ThreadFacts, ThrashFrame DEF ThrashInv, Building
  <2>6. ASSUME NEW c \in Classes, ReleaseWrites(c) \/ ReleaseFails(c) PROVE ThrashInv'
    <3>1. /\ pc' = [u \in Threads |-> IF u \in {Life(c)} THEN "off" ELSE pc[u]]
          /\ Forget({Life(c)}) /\ UNCHANGED <<want, current, metadata>>
      BY <2>1, <2>6 DEF ReleaseWrites, ReleaseFails, Goto, TypeOK
    <3>2. QED
      BY <2>1, <3>1, ThreadFacts, ThrashEnds
  <2>7. ASSUME NEW c \in Classes, Edit(c) PROVE ThrashInv'
    <3>1. /\ UNCHANGED <<metadata, pc, reused>> /\ current'[c] = FALSE
          /\ \A d \in Classes \ {c} : want'[d] = want[d] /\ current'[d] = current[d]
      BY <2>1, <2>7 DEF Edit, diskVars, threadVars, TypeOK
    <3>2. QED
      BY <2>1, <3>1, ThrashFrame DEF ThrashInv
  <2>8. CASE RemoveVenv \/ UNCHANGED vars
    <3>1. UNCHANGED <<want, metadata, pc, reused, current>>
      BY <2>8 DEF RemoveVenv, vars, diskVars, threadVars
    <3>2. QED
      BY <2>1, <3>1, ThrashFrame DEF ThrashInv
  <2>9. QED
    BY <2>2, <2>3, <2>4, <2>5, <2>6, <2>7, <2>8 DEF Next
<1>3. ThrashInv => NoThrash
  BY DEF ThrashInv, Vouched, NoThrash, On
<1>4. QED
  BY <1>1, <1>2, <1>3, PTL DEF Spec

-----------------------------------------------------------------------------
(* Neighbours of one engine: the inductive invariant                       *)

\* The mode the theorems are about.
Quiet == InOneHost /\ ~Overlap /\ ~TornWrites

\* A lifecycle call is alone; a respawn runs while its plugin is on.
OneBusy ==
    /\ \A c \in Classes, t \in Threads : Busy(Life(c)) /\ Busy(t) => t = Life(c)
    /\ \A c \in Classes :
          /\ pc[Respawn(c)] \in (Ensuring \ {"claiming"}) \cup {"off"}
          /\ Busy(Respawn(c)) => On(c)

\* A plugin that is on has its claim in the registry, and the registry is what
\* the call that rewrites it has read.
ClaimsKept ==
    /\ \A c \in running : On(c)
    /\ \A c \in Classes : pc[Life(c)] \in {"save", "launch", "on"} => c \in owners
    /\ \A c \in Classes : pc[Life(c)] \in {"claiming", "releasing"} => seen[Life(c)] = owners

\* At most one plugin is on; two that are on have a venv.
OneOn == \A c, d \in Classes : On(c) /\ On(d) => c = d
NeighboursReady == OneOn \/ venv = "ready"

\* Nobody runs out of a venv that is about to be wiped or is being created.
WipesAlone == \A t \in Threads : Breaking(t) => running = {} /\ OneOn

QuietInv ==
    TypeOK /\ OneBusy /\ ClaimsKept /\ NeighboursReady /\ WipesAlone /\ RunningKeepsVenv

\* A step of a running ensure that starts and ends no plugin.
LEMMA QuietFrame ==
    ASSUME QuietInv, TypeOK', NEW t \in Threads,
           pc[t] \in Ensuring, pc'[t] \in Ensuring \cup {"off"},
           \A u \in Threads \ {t} : /\ pc'[u] = pc[u] /\ inPlace'[u] = inPlace[u]
                                    /\ seen'[u] = seen[u],
           running' = running, owners \subseteq owners',
           t # Life(t[1]) => owners' = owners /\ pc'[t] # "claiming",
           t = Life(t[1]) /\ pc'[t] = "claiming" => seen'[t] = owners',
           t = Life(t[1]) /\ pc'[t] \in {"save", "launch"} => t[1] \in owners',
           Breaking(t)' => Breaking(t),
           venv' = venv \/ venv' = "ready" \/ Breaking(t)
    PROVE  QuietInv'
<1> USE DEF QuietInv
<1>1. Busy(t) /\ \A u \in Threads \ {t} : Busy(u)' <=> Busy(u)
  BY DEF Busy, Ensuring
<1>2. \A c \in Classes : On(c)' <=> On(c)
  BY ThreadFacts DEF On, Ensuring
<1>3. OneBusy'
  <2>1. ASSUME NEW c \in Classes, NEW u \in Threads, Busy(Life(c))', Busy(u)' PROVE u = Life(c)
    BY <1>1, <2>1, ThreadFacts DEF OneBusy
  <2>2. ASSUME NEW c \in Classes
        PROVE  /\ pc'[Respawn(c)] \in (Ensuring \ {"claiming"}) \cup {"off"}
               /\ Busy(Respawn(c))' => On(c)'
    BY <1>1, <1>2, ThreadFacts DEF OneBusy
  <2>3. QED
    BY <2>1, <2>2 DEF OneBusy
<1>4. ClaimsKept'
  <2>1. ASSUME NEW c \in Classes, pc'[Life(c)] \in {"save", "launch", "on"} PROVE c \in owners'
    BY <2>1, ThreadFacts DEF ClaimsKept, Ensuring
  <2>2. ASSUME NEW c \in Classes, pc'[Life(c)] \in {"claiming", "releasing"}
        PROVE  seen'[Life(c)] = owners'
    <3>1. CASE t = Life(c)
      BY <2>2, <3>1, ThreadFacts DEF Ensuring
    <3>2. CASE t # Life(c)
      <4>1. Busy(Life(c)) /\ Life(c) \in Threads
        BY <2>2, <3>2, ThreadFacts DEF Busy
      <4>2. QED
        BY <1>1, <3>2, <4>1 DEF OneBusy
    <3>3. QED
      BY <3>1, <3>2
  <2>3. QED
    BY <1>2, <2>1, <2>2 DEF ClaimsKept, TypeOK
<1>5. OneOn' <=> OneOn
  BY <1>2 DEF OneOn
<1>6. \A u \in Threads : Breaking(u)' => Breaking(u)
  BY DEF Breaking
<1>7. QED
  BY <1>3, <1>4, <1>5, <1>6 DEF NeighboursReady, WipesAlone, RunningKeepsVenv

\* The verdict that starts a call; only a sole owner decides to wipe.
LEMMA QuietStart ==
    ASSUME Quiet, QuietInv, TypeOK', NEW t \in Threads, EnsureHit(t) \/ EnsureMiss(t)
    PROVE  QuietInv'
<1> USE DEF QuietInv
<1>1. /\ pc[t] = "off" /\ pc'[t] \in {"claim", "prepare"}
      /\ \A u \in Threads \ {t} : pc'[u] = pc[u] /\ inPlace'[u] = inPlace[u]
      /\ UNCHANGED <<venv, owners, seen>>
  BY DEF EnsureHit, EnsureMiss, Goto, TypeOK, diskVars
<1>2. running' \subseteq running
  BY DEF EnsureHit, EnsureMiss, AfterStart
<1>3. \A c \in Classes : On(c)' <=> On(c)
  BY <1>1, ThreadFacts DEF On
<1>4. t[1] \in Classes /\ (t = Life(t[1]) \/ t = Respawn(t[1]))
  BY ThreadFacts
<1>5. CASE t = Life(t[1])
  <2>1. \A u \in Threads : ~Busy(u)
    BY <1>5, ThreadFacts DEF EnsureHit, EnsureMiss, MayStart, MayCall, Quiet
  <2>2. \A u \in Threads : Busy(u)' => u = t
    BY <1>1, <2>1 DEF Busy
  <2>3. OneBusy'
    BY <1>1, <1>4, <1>5, <2>2, ThreadFacts DEF OneBusy, Busy
  <2>4. ClaimsKept'
    BY <1>1, <1>2, <1>3, ThreadFacts DEF ClaimsKept, TypeOK
  <2>5. ASSUME NEW u \in Threads, Breaking(u)' PROVE running = {} /\ OneOn
    <3>1. u = t
      BY <2>2, <2>5 DEF Breaking, Busy
    <3>2. EnsureMiss(t) /\ ~inPlace'[t]
      BY <1>1, <2>5, <3>1 DEF Breaking, EnsureHit, Goto, TypeOK
    <3>3. inPlace'[t] = (HasOtherOwner(t[1]) /\ venv # "absent")
      BY <3>2 DEF EnsureMiss, TypeOK
    <3>4. CASE venv = "absent"
      BY <3>4 DEF NeighboursReady, RunningKeepsVenv
    <3>5. CASE owners \subseteq {t[1]}
      BY <1>1, <1>5, <3>5, ThreadFacts DEF ClaimsKept, OneOn, On, TypeOK
    <3>6. QED
      BY <3>2, <3>3, <3>4, <3>5 DEF HasOtherOwner
  <2>6. QED
    BY <1>1, <1>2, <1>3, <2>3, <2>4, <2>5 DEF NeighboursReady, WipesAlone, RunningKeepsVenv, OneOn
<1>6. CASE t = Respawn(t[1])
  <2>1. On(t[1]) /\ \A c \in Classes : ~Busy(Life(c))
    BY <1>6, ThreadFacts DEF EnsureHit, EnsureMiss, MayStart, MayRespawn, Quiet, Calls, On
  <2>2. OneBusy'
    BY <1>1, <1>3, <1>4, <1>6, <2>1, ThreadFacts DEF OneBusy, Busy, Ensuring
  <2>3. ClaimsKept'
    BY <1>1, <1>2, <1>3, <1>6, ThreadFacts DEF ClaimsKept, TypeOK
  <2>4. running' \subseteq running \ {t[1]}
    BY <1>6, ThreadFacts DEF EnsureHit, EnsureMiss, AfterStart
  <2>5. ASSUME NEW u \in Threads, Breaking(u)' PROVE running' = {} /\ OneOn
    <3>1. CASE u # t
      BY <1>1, <1>2, <2>5, <3>1 DEF Breaking, WipesAlone
    <3>2. CASE u = t
      <4>1. EnsureMiss(t) /\ ~inPlace'[t]
        BY <1>1, <2>5, <3>2 DEF Breaking, EnsureHit, Goto, TypeOK
      <4>2. inPlace'[t] = (HasOtherOwner(t[1]) /\ venv # "absent")
        BY <4>1 DEF EnsureMiss, TypeOK
      <4>3. CASE venv = "absent"
        BY <1>2, <4>3 DEF NeighboursReady, RunningKeepsVenv
      <4>4. CASE owners \subseteq {t[1]}
        BY <2>4, <4>4 DEF ClaimsKept, OneOn, On, TypeOK
      <4>5. QED
        BY <4>1, <4>2, <4>3, <4>4 DEF HasOtherOwner
    <3>3. QED
      BY <3>1, <3>2
  <2>6. QED
    BY <1>1, <1>2, <1>3, <2>2, <2>3, <2>5 DEF NeighboursReady, WipesAlone, RunningKeepsVenv, OneOn
<1>7. QED
  BY <1>4, <1>5, <1>6

\* A worker starts: of a plugin that just came on, or of one that is on.
LEMMA QuietLaunch ==
    ASSUME QuietInv, TypeOK', NEW t \in Threads, Launch(t)
    PROVE  QuietInv'
<1> USE DEF QuietInv
<1>1. /\ pc[t] = "launch" /\ venv = "ready" /\ venv' = "ready" /\ owners' = owners
      /\ \A u \in Threads \ {t} : /\ pc'[u] = pc[u] /\ inPlace'[u] = inPlace[u]
                                  /\ seen'[u] = seen[u]
  BY ForgetFacts DEF Launch, Goto, TypeOK, diskVars
<1>2. t[1] \in Classes /\ (t = Life(t[1]) \/ t = Respawn(t[1])) /\ Busy(t)
  BY <1>1, ThreadFacts DEF Busy
<1>3. /\ pc'[t] = IF t = Life(t[1]) THEN "on" ELSE "off"
      /\ running \subseteq running' /\ running' \subseteq running \cup {t[1]}
  BY <1>2, ThreadFacts DEF Launch, Goto, TypeOK
<1>4. /\ On(t[1])'
      /\ \A c \in Classes \ {t[1]} : On(c)' <=> On(c)
  BY <1>1, <1>2, <1>3, ThreadFacts DEF On, OneBusy
<1>5. OneBusy'
  BY <1>1, <1>2, <1>3, <1>4, ThreadFacts DEF OneBusy, Busy
<1>6. ClaimsKept'
  <2>1. ASSUME NEW c \in Classes, pc'[Life(c)] \in {"claiming", "releasing"}
        PROVE  seen'[Life(c)] = owners'
    BY <1>1, <1>3, <2>1, ThreadFacts DEF ClaimsKept
  <2>2. ASSUME NEW c \in Classes, pc'[Life(c)] \in {"save", "launch", "on"} PROVE c \in owners'
    BY <1>1, <1>2, <1>3, <2>2, ThreadFacts DEF ClaimsKept
  <2>3. ASSUME NEW c \in running' PROVE On(c)'
    BY <1>3, <1>4, <2>3 DEF ClaimsKept, TypeOK
  <2>4. QED
    BY <2>1, <2>2, <2>3 DEF ClaimsKept
<1>7. \A u \in Threads : ~Breaking(u)'
  <2>1. SUFFICES ASSUME NEW u \in Threads, Breaking(u)' PROVE FALSE
    OBVIOUS
  <2>2. u # t /\ Breaking(u) /\ Busy(u)
    BY <1>1, <1>3, <2>1 DEF Breaking, Busy
  <2>3. t = Respawn(t[1]) /\ On(t[1])
    BY <1>2, <2>2, ThreadFacts DEF OneBusy
  <2>4. u = Respawn(u[1]) /\ u[1] \in Classes /\ On(u[1])
    BY <1>2, <2>2, ThreadFacts DEF OneBusy
  <2>5. QED
    BY <1>2, <2>2, <2>3, <2>4 DEF WipesAlone, OneOn
<1>8. QED
  BY <1>1, <1>5, <1>6, <1>7 DEF NeighboursReady, WipesAlone, RunningKeepsVenv

\* Every other step of an ensure.
LEMMA QuietStep ==
    ASSUME QuietInv, TypeOK', NEW t \in Threads, EnsureStep(t), ~Launch(t)
    PROVE  QuietInv'
<1>1. TypeOK /\ t[1] \in Classes /\ (t = Life(t[1]) \/ t = Respawn(t[1]))
  BY ThreadFacts DEF QuietInv
<1>2. /\ running' = running /\ pc[t] \in Ensuring
      /\ \E p \in Ensuring : Goto(t, p)
  BY DEF EnsureStep, PrepareWipes, PrepareKeeps, CreateVenv, PipSkipped, PipStarts, PipSucceeds,
     ClaimReads, ClaimWrites, SaveMetadata, AfterClaim, Ensuring
<1>3. pc'[t] \in Ensuring /\ \A u \in Threads \ {t} : pc'[u] = pc[u]
  BY <1>1, <1>2, OthersStay
<1>4. inPlace' = inPlace /\ \A u \in Threads \ {t} : seen'[u] = seen[u]
  BY <1>1 DEF EnsureStep, PrepareWipes, PrepareKeeps, CreateVenv, PipSkipped, PipStarts, PipSucceeds,
     ClaimReads, ClaimWrites, SaveMetadata, TypeOK
<1>5. CASE PrepareWipes(t) \/ PrepareKeeps(t) \/ CreateVenv(t) \/ PipSkipped(t) \/ PipStarts(t)
             \/ PipSucceeds(t)
  <2>1. owners' = owners /\ pc'[t] \in {"create", "pip", "installing", "claim"}
    BY <1>1, <1>5, OthersStay DEF PrepareWipes, PrepareKeeps, CreateVenv, PipSkipped, PipStarts,
       PipSucceeds, diskVars
  <2>2. (Breaking(t)' => Breaking(t)) /\ (venv' = venv \/ venv' = "ready" \/ Breaking(t))
    BY <1>1, <1>5, <2>1, OthersStay
       DEF PrepareWipes, PrepareKeeps, CreateVenv, PipSkipped, PipStarts, PipSucceeds, diskVars,
           Breaking
  <2>3. QED
    BY <1>1, <1>2, <1>3, <1>4, <2>1, <2>2, QuietFrame
<1>6. CASE ClaimReads(t)
  <2>1. /\ UNCHANGED <<venv, owners>> /\ pc[t] = "claim"
        /\ t[1] \in owners => pc'[t] \in {"save", "launch"}
        /\ t[1] \notin owners => pc'[t] = "claiming" /\ seen'[t] = owners
    BY <1>1, <1>6, OthersStay DEF ClaimReads, AfterClaim, diskVars, TypeOK
  <2>2. t # Life(t[1]) => t[1] \in owners
    BY <1>1, <2>1 DEF QuietInv, OneBusy, ClaimsKept, Busy, On
  <2>3. ~Breaking(t)'
    BY <2>1 DEF Breaking
  <2>4. QED
    BY <1>1, <1>2, <1>3, <1>4, <2>1, <2>2, <2>3, QuietFrame
<1>7. CASE ClaimWrites(t)
  <2>1. t = Life(t[1])
    BY <1>1, <1>7 DEF ClaimWrites, QuietInv, OneBusy
  <2>2. /\ venv' = venv /\ owners' = owners \cup {t[1]}
        /\ pc'[t] \in {"save", "launch"}
    BY <1>1, <1>7, <2>1, OthersStay DEF ClaimWrites, AfterClaim, QuietInv, ClaimsKept
  <2>3. ~Breaking(t)'
    BY <2>2 DEF Breaking
  <2>4. QED
    BY <1>1, <1>2, <1>3, <1>4, <2>1, <2>2, <2>3, QuietFrame
<1>8. CASE SaveMetadata(t)
  <2>1. UNCHANGED <<venv, owners>> /\ pc[t] = "save" /\ pc'[t] = "launch"
    BY <1>1, <1>8, OthersStay DEF SaveMetadata
  <2>2. t = Life(t[1]) => t[1] \in owners
    BY <1>1, <2>1 DEF QuietInv, ClaimsKept
  <2>3. ~Breaking(t)'
    BY <2>1 DEF Breaking
  <2>4. QED
    BY <1>1, <1>2, <1>3, <1>4, <2>1, <2>2, <2>3, QuietFrame
<1>9. QED
  BY <1>5, <1>6, <1>7, <1>8 DEF EnsureStep

\* A step of an ensure that fails may break the tree it was removing or creating.
LEMMA QuietFails ==
    ASSUME Quiet, QuietInv, TypeOK', NEW t \in Threads, EnsureFails(t)
    PROVE  QuietInv'
<1>1. /\ TypeOK /\ running' = running /\ owners' = owners /\ pc[t] \in Ensuring
      /\ Goto(t, "off") /\ Forget({t}) /\ (venv' = venv \/ Breaking(t))
  BY DEF EnsureFails, Quiet, QuietInv
<1>2. /\ pc'[t] = "off"
      /\ \A u \in Threads \ {t} : /\ pc'[u] = pc[u] /\ inPlace'[u] = inPlace[u]
                                  /\ seen'[u] = seen[u]
  BY <1>1, OthersStay, ForgetFacts
<1>3. ~Breaking(t)'
  BY <1>2 DEF Breaking
<1>4. QED
  BY <1>1, <1>2, <1>3, QuietFrame

\* Shutdown, which stops the worker before it gives the claim up.
LEMMA QuietRelease ==
    ASSUME Quiet, QuietInv, TypeOK', NEW c \in Classes,
           ReleaseReads(c) \/ ReleaseWrites(c) \/ ReleaseFails(c)
    PROVE  QuietInv'
<1> USE DEF QuietInv
<1> DEFINE t == Life(c)
<1>1. t \in Threads /\ pc[t] \in {"on", "releasing"} /\ venv' = venv
  BY ThreadFacts DEF ReleaseReads, ReleaseWrites, ReleaseFails, diskVars
<1>2. \A u \in Threads \ {t} : ~Busy(u)
  <2>1. CASE ReleaseReads(c)
    BY <2>1 DEF ReleaseReads, MayCall, Quiet
  <2>2. CASE ReleaseWrites(c) \/ ReleaseFails(c)
    BY <1>1, <2>2 DEF ReleaseWrites, ReleaseFails, OneBusy, Busy
  <2>3. QED
    BY <2>1, <2>2
<1>3. /\ pc'[t] \in {"off", "releasing"} /\ \A u \in Threads \ {t} : pc'[u] = pc[u]
      /\ pc'[t] = "releasing" => seen'[t] = owners'
      /\ owners \ {c} \subseteq owners'
  <2>1. CASE ReleaseReads(c)
    BY <1>1, <2>1, OthersStay DEF ReleaseReads, diskVars, TypeOK
  <2>2. CASE ReleaseWrites(c)
    BY <1>1, <2>2, OthersStay DEF ReleaseWrites, ClaimsKept
  <2>3. CASE ReleaseFails(c)
    BY <1>1, <2>3, OthersStay DEF ReleaseFails, Quiet
  <2>4. QED
    BY <2>1, <2>2, <2>3
<1>4. running' \subseteq running /\ c \notin running'
  BY <1>1 DEF ReleaseReads, ReleaseWrites, ReleaseFails, ClaimsKept, On
<1>5. \A u \in Threads \ {t} : ~Busy(u)'
  BY <1>2, <1>3 DEF Busy
<1>6. ~On(c)' /\ \A d \in Classes \ {c} : On(d)' <=> On(d)
  BY <1>3, ThreadFacts DEF On
<1>7. OneBusy'
  BY <1>2, <1>3, <1>5, ThreadFacts DEF OneBusy, Busy
<1>8. ClaimsKept'
  <2>1. ASSUME NEW d \in Classes \ {c}
        PROVE  /\ pc'[Life(d)] \in {"save", "launch", "on"} => d \in owners'
               /\ pc'[Life(d)] \notin {"claiming", "releasing"}
    BY <1>2, <1>3, ThreadFacts DEF ClaimsKept, Busy
  <2>2. QED
    BY <1>3, <1>4, <1>6, <2>1 DEF ClaimsKept, TypeOK
<1>9. \A u \in Threads : ~Breaking(u)'
  BY <1>3, <1>5 DEF Breaking, Busy
<1>10. OneOn => OneOn'
  BY <1>6 DEF OneOn
<1>11. QED
  BY <1>1, <1>4, <1>7, <1>8, <1>9, <1>10 DEF NeighboursReady, WipesAlone, RunningKeepsVenv

\* Nothing is on, and nothing runs.
LEMMA QuietRest ==
    ASSUME TypeOK', \A t \in Threads : pc'[t] = "off", running' = {}
    PROVE  QuietInv'
  BY ThreadFacts
     DEF QuietInv, OneBusy, ClaimsKept, NeighboursReady, OneOn, WipesAlone, RunningKeepsVenv,
         Busy, On, Breaking, Ensuring

\* The invariant holds in every reachable state of one quiet engine.
THEOREM VenvInvariant ==
    ASSUME Quiet
    PROVE  Spec => []QuietInv
<1>1. Init => QuietInv
  BY BoundsAssumption, ThreadFacts
     DEF Init, TypeOK, NoVersion, QuietInv, OneBusy, ClaimsKept, NeighboursReady, OneOn, WipesAlone,
         RunningKeepsVenv, Busy, On, Breaking, Ensuring
<1>2. QuietInv /\ [Next]_vars => QuietInv'
  <2> SUFFICES ASSUME QuietInv, [Next]_vars PROVE QuietInv'
    OBVIOUS
  <2>1. TypeOK /\ TypeOK'
    BY TypeStep DEF QuietInv
  <2>2. ASSUME NEW t \in Threads,
               EnsureHit(t) \/ EnsureMiss(t) \/ EnsureStep(t) \/ EnsureFails(t)
        PROVE  QuietInv'
    BY <2>1, <2>2, QuietStart, QuietLaunch, QuietStep, QuietFails
  <2>3. ASSUME NEW c \in Classes, ReleaseReads(c) \/ ReleaseWrites(c) \/ ReleaseFails(c)
        PROVE  QuietInv'
    BY <2>1, <2>3, QuietRelease
  <2>4. ASSUME NEW c \in Classes, HostCrashes(c) PROVE QuietInv'
    <3>1. HostOf(c) = Classes
      BY DEF HostOf, Quiet
    <3>2. \A t \in Threads : pc'[t] = "off"
      BY <2>4, <3>1, ThreadFacts DEF HostCrashes
    <3>3. running' = {}
      BY <2>1, <2>4, <3>1 DEF HostCrashes, TypeOK
    <3>4. QED
      BY <2>1, <3>2, <3>3, QuietRest
  <2>5. CASE RemoveVenv
    <3>1. \A t \in Threads : pc'[t] = "off"
      BY <2>5 DEF RemoveVenv, threadVars
    <3>2. running' = {}
      BY <2>1, <2>5, ThreadFacts DEF RemoveVenv, QuietInv, TypeOK, ClaimsKept, On
    <3>3. QED
      BY <2>1, <3>1, <3>2, QuietRest
  <2>6. ASSUME UNCHANGED <<venv, owners, pc, inPlace, seen, running>> PROVE QuietInv'
    BY <2>1, <2>6
       DEF QuietInv, OneBusy, ClaimsKept, NeighboursReady, OneOn, WipesAlone, RunningKeepsVenv,
           Busy, On, Breaking
  <2>7. ASSUME NEW c \in Classes, Edit(c) PROVE QuietInv'
    BY <2>6, <2>7 DEF Edit, diskVars, threadVars
  <2>8. CASE UNCHANGED vars
    BY <2>6, <2>8 DEF vars, diskVars, threadVars
  <2>9. QED
    BY <2>2, <2>3, <2>4, <2>5, <2>7, <2>8 DEF Next
<1>3. QED
  BY <1>1, <1>2, PTL DEF Spec

\* In a quiet engine no neighbour's start, respawn or shutdown deletes the venv
\* a worker runs out of.
THEOREM NeighboursKeepVenv ==
    ASSUME Quiet
    PROVE  Spec => []RunningKeepsVenv
<1>1. QuietInv => RunningKeepsVenv
  BY DEF QuietInv
<1>2. QED
  BY <1>1, VenvInvariant, PTL
=============================================================================
