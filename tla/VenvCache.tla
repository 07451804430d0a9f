------------------------------ MODULE VenvCache ------------------------------
(***************************************************************************)
(* The virtualenv shared by the plugins of one package and the files that  *)
(* describe it (cpex-hosts-python, venv.rs): per-class cache metadata, the *)
(* owner registry, and VenvManager::ensure / release_owner, run by the     *)
(* plugins' initialize, respawn and shutdown.                              *)
(*                                                                         *)
(* State on disk outlives the hosts.  A version stands for the content of  *)
(* what a class declares (requirements file, manifest, manifest version),  *)
(* which the metadata records as hashes.  site-packages is shared: what is *)
(* kept of it is, for each class, the version whose requirements it meets. *)
(* A "partial" venv has no interpreter that starts.                        *)
(***************************************************************************)
EXTENDS Naturals, FiniteSets

CONSTANTS
    Classes,    \* full class names under one class root
    Versions,   \* contents of a class's requirements and manifest
    Bare,       \* those of them that declare no requirements file
    InOneHost,  \* one engine: it initializes and shuts down one plugin at a time
    Overlap,    \* invocations, which respawn workers, overlap lifecycle calls
    TornWrites, \* a write of a file that fails may leave it truncated
    MaxEdits,   \* bound: changes of what a class declares
    MaxFaults   \* bound: steps that fail, hosts that crash, deletions

ASSUME VersionsAssumption == Versions \subseteq Nat \ {0} /\ Bare \subseteq Versions
ASSUME ModeAssumption == {InOneHost, Overlap, TornWrites} \subseteq BOOLEAN
ASSUME BoundsAssumption == MaxEdits \in Nat /\ MaxFaults \in Nat

VARIABLES
    want,       \* what each class declares now
    venv,       \* the .venv directory: "absent", "partial" or "ready"
    installed,  \* the version of each class's requirements that site-packages meets
    metadata,   \* the version each class's metadata file records
    owners,     \* owners.json
    pc,         \* control point of each thread
    inPlace,    \* update_in_place of each running ensure
    reused,     \* whether the thread's ensure took the cache hit
    got,        \* the requirements its pip read
    seen,       \* owners.json as the thread read it
    running,    \* classes with a worker process running out of the venv
    current,    \* history: nothing was edited since the class's ensure began
    edits, faults

diskVars == <<venv, installed, metadata, owners>>
threadVars == <<pc, inPlace, reused, got, seen>>
vars == <<want, diskVars, threadVars, running, current, edits, faults>>

NoVersion == 0

\* A class's lifecycle call, and the invocation that respawns its worker.
Threads == Classes \X {"life", "respawn"}
Life(c) == <<c, "life">>
Respawn(c) == <<c, "respawn">>

Init ==
    /\ want \in [Classes -> Versions]
    /\ venv = "absent"
    /\ installed = [c \in Classes |-> NoVersion]
    /\ metadata = [c \in Classes |-> NoVersion]
    /\ owners = {}
    /\ pc = [t \in Threads |-> "off"]
    /\ inPlace = [t \in Threads |-> FALSE]
    /\ reused = [t \in Threads |-> FALSE]
    /\ got = [t \in Threads |-> NoVersion]
    /\ seen = [t \in Threads |-> {}]
    /\ running = {}
    /\ current = [c \in Classes |-> FALSE]
    /\ edits = 0 /\ faults = 0

\* evaluate_cache: the directory exists, the metadata is there and readable,
\* and every signal in it is the one declared now.
Valid(c) == venv # "absent" /\ metadata[c] = want[c]

HasOtherOwner(c) == owners \ {c} # {}

Goto(t, point) == pc' = [pc EXCEPT ![t] = point]

\* The locals of calls that have ended go out of scope.
Forget(ended) ==
    /\ inPlace' = [t \in Threads |-> t \notin ended /\ inPlace[t]]
    /\ reused' = [t \in Threads |-> t \notin ended /\ reused[t]]
    /\ got' = [t \in Threads |-> IF t \in ended THEN NoVersion ELSE got[t]]
    /\ seen' = [t \in Threads |-> IF t \in ended THEN {} ELSE seen[t]]

Busy(t) == pc[t] \notin {"off", "on"}

Calls(kind) == {t \in Threads : t[2] = kind}

\* When the host makes a lifecycle call: one at a time in one engine, and with
\* no invocation in flight where the host keeps them apart.
MayCall ==
    /\ InOneHost => \A t \in Calls("life") : ~Busy(t)
    /\ Overlap \/ \A t \in Threads : ~Busy(t)

\* When an invocation finds the worker of c dead and respawns it.
MayRespawn(c) ==
    /\ pc[Life(c)] = "on"
    /\ Overlap \/ \A t \in Calls("life") : ~Busy(t)

MayStart(t) == IF t[2] = "life" THEN MayCall ELSE MayRespawn(t[1])

\* A respawn starts from a worker that died.
AfterStart(t) == IF t[2] = "respawn" THEN running \ {t[1]} ELSE running

-----------------------------------------------------------------------------
(* VenvManager::ensure *)

\* Mutant: the cache hit forgets to register the claim.
EnsureHitUnclaimed(t) ==
    /\ pc[t] = "off" /\ MayStart(t)
    /\ Valid(t[1])
    /\ reused' = [reused EXCEPT ![t] = TRUE]
    /\ current' = IF t[2] = "life" THEN [current EXCEPT ![t[1]] = TRUE] ELSE current
    /\ running' = AfterStart(t)
    /\ Goto(t, "launch")
    /\ UNCHANGED <<want, diskVars, inPlace, got, seen, edits, faults>>

EnsureHit(t) ==
    /\ pc[t] = "off" /\ MayStart(t)
    /\ Valid(t[1])
    /\ reused' = [reused EXCEPT ![t] = TRUE]
    /\ current' = IF t[2] = "life" THEN [current EXCEPT ![t[1]] = TRUE] ELSE current
    /\ running' = AfterStart(t)
    /\ Goto(t, "claim")
    /\ UNCHANGED <<want, diskVars, inPlace, got, seen, edits, faults>>

\* Only a sole owner may destroy the venv; decided here, once.
EnsureMiss(t) ==
    /\ pc[t] = "off" /\ MayStart(t)
    /\ ~Valid(t[1])
    /\ reused' = [reused EXCEPT ![t] = FALSE]
    /\ inPlace' = [inPlace EXCEPT ![t] = HasOtherOwner(t[1]) /\ venv # "absent"]
    /\ current' = IF t[2] = "life" THEN [current EXCEPT ![t[1]] = TRUE] ELSE current
    /\ running' = AfterStart(t)
    /\ Goto(t, "prepare")
    /\ UNCHANGED <<want, diskVars, got, seen, edits, faults>>

\* prepare_directories: the stale venv goes, the metadata files stay.
PrepareWipes(t) ==
    /\ pc[t] = "prepare"
    /\ ~inPlace[t]
    /\ venv' = "absent"
    /\ installed' = [c \in Classes |-> NoVersion]
    /\ Goto(t, "create")
    /\ UNCHANGED <<want, metadata, owners, inPlace, reused, got, seen, running, current, edits, faults>>

PrepareKeeps(t) ==
    /\ pc[t] = "prepare"
    /\ inPlace[t]
    /\ Goto(t, "pip")
    /\ UNCHANGED <<want, diskVars, inPlace, reused, got, seen, running, current, edits, faults>>

CreateVenv(t) ==
    /\ pc[t] = "create"
    /\ venv' = "ready"
    /\ Goto(t, "pip")
    /\ UNCHANGED <<want, installed, metadata, owners, inPlace, reused, got, seen, running, current, edits, faults>>

\* install_requirements without a requirements file.
PipSkipped(t) ==
    /\ pc[t] = "pip"
    /\ want[t[1]] \in Bare
    /\ Goto(t, "claim")
    /\ UNCHANGED <<want, diskVars, inPlace, reused, got, seen, running, current, edits, faults>>

\* pip is started with the venv's interpreter and reads the requirements.
PipStarts(t) ==
    /\ pc[t] = "pip"
    /\ want[t[1]] \notin Bare
    /\ venv = "ready"
    /\ got' = [got EXCEPT ![t] = want[t[1]]]
    /\ Goto(t, "installing")
    /\ UNCHANGED <<want, diskVars, inPlace, reused, seen, running, current, edits, faults>>

\* What may be left of the requirements met, when packages are replaced or lost.
Worn == {f \in [Classes -> Versions \cup {NoVersion}] :
            \A c \in Classes : f[c] \in {installed[c], NoVersion}}

\* pip meets its own requirements, and may replace what a neighbour pinned.
PipSucceeds(t) ==
    /\ pc[t] = "installing"
    /\ venv = "ready"
    /\ \E left \in Worn : installed' = [left EXCEPT ![t[1]] = got[t]]
    /\ Goto(t, "claim")
    /\ UNCHANGED <<want, venv, metadata, owners, inPlace, reused, got, seen, running, current, edits, faults>>

\* register_owner: read, and write only if the claim is new.
AfterClaim(t) == IF reused[t] THEN "launch" ELSE "save"

ClaimReads(t) ==
    /\ pc[t] = "claim"
    /\ seen' = IF t[1] \in owners THEN seen ELSE [seen EXCEPT ![t] = owners]
    /\ Goto(t, IF t[1] \in owners THEN AfterClaim(t) ELSE "claiming")
    /\ UNCHANGED <<want, diskVars, inPlace, reused, got, running, current, edits, faults>>

ClaimWrites(t) ==
    /\ pc[t] = "claiming"
    /\ owners' = seen[t] \cup {t[1]}
    /\ Goto(t, AfterClaim(t))
    /\ UNCHANGED <<want, venv, installed, metadata, inPlace, reused, got, seen, running, current, edits, faults>>

\* Mutant: one metadata file per venv, as client.py keys it.
SaveMetadataShared(t) ==
    /\ pc[t] = "save"
    /\ metadata' = [c \in Classes |-> want[t[1]]]
    /\ Goto(t, "launch")
    /\ UNCHANGED <<want, venv, installed, owners, inPlace, reused, got, seen, running, current, edits, faults>>

\* save_metadata: hashes of the files as they are now.
SaveMetadata(t) ==
    /\ pc[t] = "save"
    /\ metadata' = [metadata EXCEPT ![t[1]] = want[t[1]]]
    /\ Goto(t, "launch")
    /\ UNCHANGED <<want, venv, installed, owners, inPlace, reused, got, seen, running, current, edits, faults>>

\* launch_worker after the ensure: the venv's interpreter starts the worker.
\* A respawn that finds the plugin shut down stops the worker it launched.
Launch(t) ==
    /\ pc[t] = "launch"
    /\ venv = "ready"
    /\ running' = IF t[2] = "life" \/ pc[Life(t[1])] = "on" THEN running \cup {t[1]} ELSE running
    /\ Goto(t, IF t[2] = "life" THEN "on" ELSE "off")
    /\ Forget({t})
    /\ UNCHANGED <<want, diskVars, current, edits, faults>>

EnsureStep(t) ==
    \/ PrepareWipes(t) \/ PrepareKeeps(t) \/ CreateVenv(t)
    \/ PipSkipped(t) \/ PipStarts(t) \/ PipSucceeds(t)
    \/ ClaimReads(t) \/ ClaimWrites(t) \/ SaveMetadata(t) \/ Launch(t)

-----------------------------------------------------------------------------
(* Failures.  None of them undoes what the ensure did before. *)

Ensuring == {"prepare", "create", "pip", "installing", "claim", "claiming", "save", "launch"}

\* Breaking off while the tree is removed or created leaves a part of it.
Breaking(t) == pc[t] = "create" \/ (pc[t] = "prepare" /\ ~inPlace[t])

\* The ensure or the launch returns an error, or its invocation is cancelled.
\* What it was writing is left half done: the tree, site-packages, a file.
EnsureFails(t) ==
    /\ pc[t] \in Ensuring
    /\ \/ faults < MaxFaults /\ faults' = faults + 1
       \/ /\ pc[t] \in {"pip", "installing", "launch"} /\ venv # "ready"
          /\ UNCHANGED faults
    /\ venv' \in IF Breaking(t) THEN {venv, "partial"} ELSE {venv}
    /\ installed' \in IF Breaking(t) \/ pc[t] = "installing" THEN Worn ELSE {installed}
    /\ owners' \in IF pc[t] = "claiming" /\ TornWrites THEN {owners, {}} ELSE {owners}
    /\ metadata' \in IF pc[t] = "save" /\ TornWrites
                     THEN {metadata, [metadata EXCEPT ![t[1]] = NoVersion]} ELSE {metadata}
    /\ Goto(t, "off")
    /\ Forget({t})
    /\ UNCHANGED <<want, running, current, edits>>

\* The host of a class dies: claims stay, and what it was writing is left half
\* done.
HostOf(c) == IF InOneHost THEN Classes ELSE {c}

HostCrashes(c) ==
    LET hit == {t \in Threads : t[1] \in HostOf(c)}
        At(points) == {t[1] : t \in {u \in hit : pc[u] \in points}}
    IN  /\ faults < MaxFaults
        /\ \E t \in hit : pc[t] # "off"
        /\ faults' = faults + 1
        /\ pc' = [t \in Threads |-> IF t \in hit THEN "off" ELSE pc[t]]
        /\ venv' \in IF \E t \in hit : Breaking(t) THEN {venv, "partial"} ELSE {venv}
        /\ installed' \in IF \E t \in hit : Breaking(t) \/ pc[t] = "installing"
                         THEN Worn ELSE {installed}
        /\ metadata' \in {metadata, [d \in Classes |-> IF d \in At({"save"})
                                                     THEN NoVersion ELSE metadata[d]]}
        /\ owners' \in IF At({"claiming", "releasing"}) # {} THEN {owners, {}} ELSE {owners}
        /\ running' = running \ HostOf(c)
        /\ Forget(hit)
        /\ UNCHANGED <<want, current, edits>>

-----------------------------------------------------------------------------
(* Plugin::shutdown and release_owner *)

ReleaseReads(c) ==
    /\ pc[Life(c)] = "on"
    /\ MayCall
    /\ seen' = IF c \in owners THEN [seen EXCEPT ![Life(c)] = owners] ELSE seen
    /\ running' = running \ {c}
    /\ Goto(Life(c), IF c \in owners THEN "releasing" ELSE "off")
    /\ UNCHANGED <<want, diskVars, inPlace, reused, got, current, edits, faults>>

ReleaseWrites(c) ==
    /\ pc[Life(c)] = "releasing"
    /\ owners' = seen[Life(c)] \ {c}
    /\ Goto(Life(c), "off")
    /\ Forget({Life(c)})
    /\ UNCHANGED <<want, venv, installed, metadata, running, current, edits, faults>>

\* Best effort: the failure is only logged.
ReleaseFails(c) ==
    /\ pc[Life(c)] = "releasing"
    /\ faults < MaxFaults
    /\ faults' = faults + 1
    /\ owners' \in IF TornWrites THEN {owners, {}} ELSE {owners}
    /\ Goto(Life(c), "off")
    /\ Forget({Life(c)})
    /\ UNCHANGED <<want, venv, installed, metadata, running, current, edits>>

-----------------------------------------------------------------------------
(* The operator (external). *)

Edit(c) ==
    /\ edits < MaxEdits
    /\ edits' = edits + 1
    /\ \E v \in Versions \ {want[c]} : want' = [want EXCEPT ![c] = v]
    /\ current' = [current EXCEPT ![c] = FALSE]
    /\ UNCHANGED <<diskVars, threadVars, running, faults>>

\* The venv is deleted while nothing uses it.
RemoveVenv ==
    /\ faults < MaxFaults
    /\ venv # "absent"
    /\ \A t \in Threads : pc[t] = "off"
    /\ faults' = faults + 1
    /\ venv' = "absent"
    /\ installed' = [c \in Classes |-> NoVersion]
    /\ UNCHANGED <<want, metadata, owners, threadVars, running, current, edits>>

-----------------------------------------------------------------------------

Next ==
    \/ \E t \in Threads : EnsureHit(t) \/ EnsureMiss(t) \/ EnsureStep(t) \/ EnsureFails(t)
    \/ \E c \in Classes : ReleaseReads(c) \/ ReleaseWrites(c) \/ ReleaseFails(c)
                              \/ HostCrashes(c) \/ Edit(c)
    \/ RemoveVenv

Spec == Init /\ [][Next]_vars

-----------------------------------------------------------------------------
(* Properties *)

\* Types of the state on disk and of the threads.
TypeOK ==
    /\ want \in [Classes -> Versions]
    /\ venv \in {"absent", "partial", "ready"}
    /\ installed \in [Classes -> Versions \cup {NoVersion}]
    /\ metadata \in [Classes -> Versions \cup {NoVersion}]
    /\ owners \subseteq Classes
    /\ pc \in [Threads -> Ensuring \cup {"off", "on", "releasing"}]
    /\ inPlace \in [Threads -> BOOLEAN]
    /\ reused \in [Threads -> BOOLEAN]
    /\ got \in [Threads -> Versions \cup {NoVersion}]
    /\ seen \in [Threads -> SUBSET Classes]
    /\ running \subseteq Classes
    /\ current \in [Classes -> BOOLEAN]
    /\ edits \in 0..MaxEdits /\ faults \in 0..MaxFaults

On(c) == pc[Life(c)] = "on"

(***************************************************************************)
(* "A rebuild is only allowed to delete the directory when the set holds   *)
(* nobody but the caller", which removes "the mutual-destruction window"   *)
(* (ensure, prepare_directories): while a worker runs out of the venv, the *)
(* interpreter and the tree are there, whatever its neighbours' starts and *)
(* respawns do.                                                            *)
(***************************************************************************)
RunningKeepsVenv == running # {} => venv = "ready"

\* No thrash: the ensure of one class never makes the metadata of another that
\* is up to date read as a change of its requirements or manifest; the file
\* has what the class declares, or is lost to its own failed write.
NoThrash ==
    \A c \in Classes : On(c) /\ current[c] => metadata[c] \in {want[c], NoVersion}

\* What a class needs is in site-packages.
Met(c) == want[c] \in Bare \/ installed[c] = want[c]

(***************************************************************************)
(* "The cache is usable as-is." (CacheVerdict::Valid): once every call has *)
(* returned, a class whose cache is a hit, and whose files nobody edited   *)
(* since it last asked, has its requirements in the venv.                  *)
(***************************************************************************)
ValidMeansUsable ==
    (\A t \in Threads : ~Busy(t)) =>
        \A c \in Classes : Valid(c) /\ current[c] => venv = "ready" /\ Met(c)

(***************************************************************************)
(* "so a later rebuild is not permanently downgraded to an in-place update *)
(* by a stale owner entry" (Plugin::shutdown): the registry names no class *)
(* with nothing running.                                                   *)
(***************************************************************************)
NoStaleClaim ==
    \A c \in owners : \E t \in {Life(c), Respawn(c)} : pc[t] # "off"
=============================================================================
