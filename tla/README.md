# TLA+ models of cpex

This directory holds a formal model of cpex: the host side of isolated Python
plugins, from the pipes of a worker process to what a chain of plugins may see
and change of a request; the way a host brings an engine up and calls it, from
Go over the C interface and from Python; and the biscuit delegator. TLC checks
each model on a small instance; TLAPS proves every safety property that the passing
runs check, the two refinements included, for every value of the constants.
Liveness is model-checked.

Paths below are relative to the repository root. Line numbers are in
`PROJECT.json` (`map`), which ties every definition to the code it models.

## 1. The system

| component | code | state it keeps | operations |
|---|---|---|---|
| worker client | `crates/cpex-hosts-python/src/worker.rs` | `pending` map, `alive` flag, outbound channel, child handle | `send_task`, `capabilities`, `shutdown`, reader, writer and stderr tasks |
| bounded line reader | same file | line buffer, bytes scanned, over flag, stderr ring | `read_bounded_line`, `stderr_loop` |
| isolated plugin | `.../plugin.rs` | worker slot, `shut_down` flag, respawn budget under a mutex | `initialize`, `shutdown`, `worker`, `respawn_worker` |
| hook invocation | `.../plugin.rs`, `conversion.rs`, `error.rs` | one request: payload, extensions, context, the turn of each plugin | `PythonHookAdapter::invoke` |
| extensions | `.../extensions.rs` | none | what is sent to a worker, what of its answer is taken |
| credentials | `.../credentials.rs`, `credential_payloads.rs` | none | selection and attachment of a token, identity and delegation payloads out and back |
| legacy shim | `.../legacy/cmf_shim.rs`, `payloads.rs` | none | the legacy form of a CMF message, and back |
| venv cache | `.../venv.rs` | on disk: the venv, one metadata file per class, the owner registry | `ensure`, `register_owner`, `release_owner` |
| Python binding | `bindings/python/src/` | lifecycle lock, `shutdown_started`, `shut_down`, detached tasks | constructor, `initialize`, `shutdown`, `invoke_hook`, `refresh_secrets`, conversions |
| Go binding and C interface | `go/cpex/engine.go`, `crates/cpex-ffi/src/lib.rs` | RWMutex, engine box, context-table and background-task boxes, finalizers | queries, invokes, `Wait`, `Close`, `Shutdown` |
| runtime and APL install | `crates/cpex-ffi/src/lib.rs`, `apl.rs` | `SHARED_RUNTIME`, `install_state`, the exposure flag | `cpex_configure_runtime`, `cpex_apl_install`, `cpex_load_config`, constructors |
| host facade | `crates/cpex/src/host.rs` | none | host defaults, removed hook names, refusal of resolved identities |
| secrets | `crates/cpex-ffi/src/secrets.rs`, `go/cpex/secrets.go`, `bindings/python/src/secrets.rs` | none (the engine's) | refresh and its report, time of the last success |
| biscuit delegator | `builtins/plugins/delegator-biscuit/src/` | the root key | key resolution, `handle` |

**How they interact.** A hook invocation reaches `PythonHookAdapter::invoke`
with the view of the extensions that the plugin's capabilities allow. It asks
the plugin for a worker, which returns the one in its slot or, when the client
reports it dead, replaces it: `respawn_worker` reaps the corpse, runs the venv
cache's `ensure` again, spawns a process, probes what it understands and
installs it. The adapter then serializes the payload (through the legacy shim
for a worker that predates the CMF hooks), attaches a credential and the
extensions, and makes one `send_task` on the client, which shares one pair of
pipes with every other invocation; the reader task reads the worker's output
through `read_bounded_line`. The answer is converted back, and the executor of
the policy engine (an external dependency) merges it, or applies the plugin's
`on_error` policy, before the next plugin's turn. The engine calls `initialize`
and `shutdown` of each plugin, one at a time; it is itself driven by the Python
binding or by a Go host through the C interface, which install the builtins,
load a config and invoke hooks from several threads.

**What is hard about it.** Every `await` is a point where another caller, the
reader, a timer, a cancellation or a shutdown may run. Liveness of a worker is
an observation, not a fact. Plugins of one package share a virtualenv on disk,
which outlives the hosts. Timeouts return to the caller while the work goes on.
Boxes cross a language boundary with an owner that changes on every call. A
worker's answer is arbitrary JSON that is merged into a request's security
context, and what one plugin leaves there the next one reads. `PROJECT.json`
lists 40 hazards, each at the line where it bites, with the properties that
would catch it.

## 2. Modules

Components with state have a module, an `MC…` module that instantiates it for
TLC and a `…Proofs` module (`HostProofs` for the three modules a host process
is composed of). Pure parts are operator modules that a
stateful one extends.

| module | models | variables and actions |
|---|---|---|
| `WorkerClient` | `WorkerClient` of `worker.rs` | One control point per `await` of `send_task` (`checked`, `registered`, `waiting`, `expiring`…), the key set of `pending`, the one-shot of each call, the mpsc channel, both pipes, the child `Option`. The worker is external: it may answer a task it received, answer twice, print noise, overflow the limit, close a pipe or die. |
| `TaskExchange` | what `send_task` promises | A request is opened and closed once, with an outcome that something the worker did accounts for. `WorkerClient` implements it under the mapping `Contract` (phase from the control point, replies from the lines read, broken from the flag and the writer). |
| `BoundedLine` | `read_bounded_line`, `stderr_loop` | A byte stream (LF, CR, another ASCII byte, the two bytes of a two-byte character) and every way it can be cut into fill buffers. What is kept is decoded as `from_utf8_lossy` does, U+FFFD for each byte that is part of no character, and a cut stderr line gets the truncation marker. The reference it is held against (`LineEnds`, `IsLine`, `Expected`) sees the whole stream: where its lines end, and what each should come back as. |
| `PluginLifecycle` | `plugin.rs` | The slot, the flag, the budget with a clock, the engine's lifecycle call, invocations from lookup to answer. `WorkerClient::shutdown` is two steps, taking the child and its exit, and a second one finds no child (`taken`): `Plugin::shutdown` and a respawn's reap may each be the second. Workers are numbered in launch order; each comes from a venv that may hold any version of `worker.py`. The history variable `descent` notes the `initialize` a worker goes back to, as the one it launched or as a replacement. |
| `HookInvocation` | `PythonHookAdapter::invoke`, `conversion.rs`, `error.rs` | One request and a chain of plugins: `Dispatch` (view, shim) or no worker, `Send` or one of the failures on the way to it, `Answer` with any reply, then the executor's `Stop`, `Ignore` or `MergeAllowed`. |
| `Extensions`, `Credentials`, `CmfShim`, `JsonValues` | `extensions.rs`; `credentials.rs` and `credential_payloads.rs`; `legacy/`; the shared absent, bad, refused and rejected values | Operators that `HookInvocation` is built from. Where the code picks in `HashMap` order, the operator returns the set of values it may pick. |
| `VenvCache` | `venv.rs` with its callers in `plugin.rs` | The directory (absent, partial or ready), the classes' requirements that the shared site-packages meets, metadata, owner registry, one lifecycle and one respawn thread per class; edits, steps that fail and crashes of the host, which leave the tree, site-packages or a file half done. A pip run meets its own requirements and may unmeet a neighbour's; some versions declare none and skip pip (`Bare`). A content hash is equality of version numbers. |
| `PyLifecycle` | `Lifecycle` of `manager.rs` | Calls, the tasks they spawn, the rollback task, the guard, two flags. The engine is external: it may take any time, fail, or panic with plugins left running. |
| `SerialEngine` | what `Lifecycle` promises | An engine that one call at a time is inside, that is started only while nobody has asked for its end, stopped only once somebody has, and over when a stop came back. `PyLifecycle` implements it under the mapping `Contract` (who is inside from the tasks and rollbacks under way). |
| `GoEngine` | `engine.go` over `cpex-ffi` | RWMutex with an announced writer, engine box, finalizer, one handle of each kind per goroutine, out parameters, allocated boxes. A box's name is never reused, so a stale handle stays recognisable. `dropped` and `abandoned` are history: the boxes of a result that did not decode, and those a `Wait` gave up after `Shutdown`. |
| `BiscuitDelegator` | `delegator-biscuit` | Key sources, the handler with its early returns and its three readings of the clock. A token is its root key and the checks of its blocks. |
| `EngineSetup` | runtime, install, loads, constructors | The `OnceLock`, the install mutex with the three steps it covers, panics, what the engine has been given and the config it dispatches by. |
| `Secrets` | `RefreshSummary` of `host.rs` | Operators: the report both bindings hand over, with the engine's error classes as kinds. |
| `HostEntry` | `cpex_invoke`, `cpex_invoke_resolved`, `invoke_hook`, Python conversions, secrets of both bindings | Composes `EngineSetup` and `BiscuitDelegator`: threads validate and convert a payload, resolve an identity with any outcome (denied, allowed, allowed with nobody resolved), run a hook that may delegate, and get a result, while other threads install, load and refresh secrets. |

Operators whose comment begins with "Mutant" or "Mutated form" are plausible
bugs, used to show that each property can fail (`PROJECT.json`, `mutants`); no
specification uses them.

**Abstractions.** Texts, logging and layout are left out. In `WorkerClient` and
`GoEngine` a serialization succeeds or fails; in `HookInvocation` and `HostEntry`,
which are about the data, a JSON value is absent, of the wrong shape, or well
formed with the fields the code treats differently. A token is a model value;
an absent, an empty and a blank one are `NoToken`, as the code treats them
alike. A message part's fields are grouped by what the shim does with them: shown
(`name`, `body`), kept (`kept`), refused when set (`barred`). Timeouts are steps
that may happen whenever the code is waiting. Durations matter in two places,
the respawn budget's window and a delegated token's lifetime, and there is a
clock for each.

## 3. Runs

| run | bounds | shows |
|---|---|---|
| `WorkerClientSafety` | 2 sends, 1 shutdown, 2 frames | A call returns an answer only if the worker printed it under that call's id (`OwnAnswerOnly`); a caller with nothing yet stays reachable (`NoLostSender`); no returned call leaves an entry (`NoEntryAfterReturn`); an over-limit frame fails its owner alone while the owner waits (`OversizedSparesOthers`); every step is a step of `TaskExchange` or a stutter (`ImplementsExchange`). |
| `WorkerClientShutdown` | 1 send, 2 shutdowns, 1 frame | Every kept send returns (`EveryCallReturns`), an exit is noticed (`DeathIsNoticed`), a shutdown that took the child leaves no process (`ShutdownReaches`). |
| `BoundedLine` | every stream of up to 6 bytes, limit 2, fill buffer 3 | The kept bytes are exactly the prefix and the over flag is exact (`KeepsThePrefix`); the buffer, the decoded text and the stderr ring are bounded (`MemoryBounded`); the reads return the stream's lines, each once, in order, against a reference that sees the whole stream (`StaysFramed`). |
| `PluginLifecycle` | 2 callers, 3 workers, 2 initialize calls, budget 1, window 1, clock 2, one required feature | Nothing installed after shutdown, an unverified worker never serves, respawns are paid for, and beside the process a shutdown is waiting for no more run than there were initialize calls (`OneProcess`). |
| `PluginLifecycleLiveness` | 2 callers, 2 workers, budget 1, a `cmf.*` hook | Every invocation leaves, the probe retry included (`EveryCallerLeaves`); a shutdown that has returned leaves no process behind, although it may return early and with a replacement on its way (`ShutdownLeavesNothing`). |
| `VenvCache` | 2 classes, 2 versions of which one is bare, 2 edits, 3 faults, one host that keeps lifecycle calls and invocations apart | A running worker keeps its venv whatever its neighbours' starts and simultaneous respawns do (`RunningKeepsVenv`), no class's build makes another's current cache a miss (`NoThrash`). |
| `PyLifecycle` | 2 initialize, 2 shutdown calls, 2 panics | Every step is a step of `SerialEngine` or a stutter (`ImplementsEngine`), terminal means stopped, every call returns, a requested shutdown happens. |
| `GoEngine` | 2 goroutines, 3 boxes | No use after free, no leaked table or task box but on the two paths it names (`BoxesNeverLeak`), every call returns. |
| `HookInvocation` | 3 chains of 2 plugins, 211 requests of every hook and payload kind, replies that carry a modified payload, an edit of the extensions or parts that do not parse | A token reaches a worker only as the credential of a credential hook, under a declared capability, or in a legacy identity or delegation payload, which are sent as they are and hold only tokens the host, a plugin that minted them or one allowed to read them put there (`TokenStaysGated`); a declared capability gets the right token or the dispatch fails (`RightCredential`); a legacy worker that passes a result has seen all of it (`NothingUnseenPasses`); a deny or rejection is a deny, or an error when its violation, extensions, payload, fields or reason cannot be represented, and never an allow (`RejectionIsFinal`); answers keep the request's identity (`AuthorityKept`) and the parts of a message they were not about (`ShimKeepsTheRest`). |
| `Host` | 2 threads, 4 calls between them, clock 1, 5 configs, 11 Go and 12 Python requests, 2 refresh reports | The runtime configured is the one used (`ConfiguredMeansUsed`); an install is whole and happens once (`InstalledOnceAndWhole`); the hook runs with what its own resolution produced, the caller's claim of a subject only where that produced none, and no token but its own (`IdentityReachesHook`); token bytes leave only by the opt-in (`TokensStayInside`); the payload the pipeline ended with comes back, changed or not, or an error or exception says why not (`PayloadReturns`); a minted token is narrower than its parent and dead past its expiry (`OnlyNarrows`, `UnusablePastExpiry`). |
| `VenvNeighbourRebuild`, `VenvNeighbourWipe` | 2 classes; no faults and no edits, or one edit with `Overlap` | Two disagreements of a comment with the code, section 5. |

Configurations that are no runs of their own are kept beside them: `VenvOverlap`,
in which `NoThrash` holds with `Overlap` and `TornWrites` as well (the theorem
says so of every mode), and the seven of section 5 that give a trace.

**Why the bounds are enough.** The hazards are races of two parties and a third
event: two sends and a frame, two callers and a shutdown, two classes and an
edit, an install and a load. Each bound admits that pattern plus one repetition
(a second frame, a second initialize, a second fault), and the proofs remove the
bounds for the invariants they cover. For the data path the pattern is a plugin
that leaves something in the request and a later one, with other capabilities,
that reads it: two plugins, one answer each. `modified_payload` and
`modified_extensions` are converted independently, so a reply that modifies both
adds nothing; one that modifies the payload may still carry extensions that do not
parse. Two
delegated tokens that differ in one of mode, subject, key and audience cover
what the selection compares. Deadlock is checked where the modelled calls have
an explicit end (`HookInvocation`); elsewhere it is off, as a system may rightly
come to rest when its bounded calls are over. Symmetry is used only in runs
without liveness properties.

**When the venv's callers overlap.** `ensure` runs in `initialize` and in every
respawn, `release_owner` in `shutdown`. Respawns of different plugins always run
at the same time as each other. Whether they overlap the lifecycle calls is up
to the host: a Go host initializes "before invoking any hooks" (`engine.go`), and
its `Shutdown` takes the write lock that invokes hold for reading, so there they
do not (`Overlap = FALSE`); the Python binding lets `invoke_hook` run during both
(`Overlap = TRUE`). `RunningKeepsVenv` needs the former and `VenvNeighbourWipe`
shows what happens in the latter.

**Fairness.** `WorkerClient`: ready tasks are polled and timers fire (weak
fairness on calls, reader and shutdown); nothing is assumed of the worker, nor
of the writer, which may block on a full pipe. `PluginLifecycle`: weak fairness
for the engine's call, whose every wait has a deadline; strong for callers,
because tokio's mutex is handed over in queue order. `PyLifecycle`: the same,
and nothing of the engine; `ShutdownHappens` states as its hypothesis that
calls into the engine come back. `GoEngine`: strong, because `sync.RWMutex`
lets waiting readers in between two writers and `run_safely` bounds what Rust
waits for. That bound does not hold for a plugin that blocks its thread; the
liveness result is relative to plugins that yield. `HookInvocation` and `Host`
make no liveness claim.

## 4. Proofs

All for arbitrary constants, by inductive invariants that TLC confirmed on the
runs' instances before they were proved.

* **`WorkerClientProofs`.** `ClientInv` ties each control point to the map and
  the one-shot: a registered call with an empty one-shot is in `pending`, an
  entry belongs to a call in flight or cancelled, a one-shot holds only what
  the reader has consumed under that id, and dropped one-shots exist only once
  the flag is down. None of the four safety properties is inductive without it.
  `ClientImplementsExchange` is the refinement: initial states map to initial
  states, and under `ClientInv` every action maps to one step of `TaskExchange`
  or to a stutter. The invariant is what justifies the outcome of a `Close`.
* **`BoundedLineProofs`.** `LineInv` is types, prefix and bound together. The
  work is in lemmas on what `Keep` returns for a chunk, how long its decoding can
  be (three times, by counting the replaced places) and what `Push` leaves.
  `StreamStaysFramed` is about the whole stream: `FrameInv` adds that a line is
  being read from just behind the last end, and that the results so far are as
  many as the line ends so far, the i-th being what the reference expects of the
  i-th line. Lines are found by the number of ends up to a place (`EndsUpTo`), a
  cardinality, and not by recursion, so a step is one more end (`NextLine`) or the
  fragment at the end of the stream (`LastLine`), and no induction over data is
  needed; `KeepIsExpected` turns the reader's prefix into the reference's.
* **`PluginLifecycleProofs`.** Four invariants. `BudgetInv` counts: attempts of
  the current window plus what earlier windows and answers paid for, and the
  start of the window against the clock. `LifecycleInv` says that the flag
  follows the engine's control point, that every place a worker can be taken
  from (slot, engine's hand, callers' hands) holds a verified one, that reports
  are true, and that the callers inside the respawn section are exactly the
  holder of the mutex. `TakenStops` says that a process whose child was taken has
  exited or is being waited for by whoever took it. `DescentInv` counts processes. It cannot say that one
  process lives: a respawn from before a shutdown may still launch after the next
  `initialize` has cleared the flag (section 5). It says that of the workers that
  go back to one `initialize` at most one lives; that the one `initialize` is
  about to install is the first of its line; that what lives of the slot's line is
  the worker in the slot or the one about to replace it; and that a respawner past
  the reaping holds what is left of the line it continues. A launch joins a line
  only when everything before it is reaped, or is the one process that a shutdown
  took and waits for, which `OneProcess` does not count. Lines are numbered by `initialize`
  calls, so the map from running processes to lines is an injection and
  `AtMostOneProcess` follows: beside the process being stopped, never more than
  `initialize` calls, one for a plugin initialized once. `TypeCorrect` puts the
  types together.
* **`HookInvocationProofs`.** `HookInv` says that a turn holds the view its
  plugin's capabilities give of the request *as it still is* when the answer is
  merged, and that an allow carries what some answer gave under that view. With
  it and `GateInv` (a legacy payload still in the request holds only tokens known
  by now), `TokensAreGated` follows from three lemmas on what is sent (the
  payload's JSON, the extensions, the credential), and `AuthorityIsKept` from one on what
  a merge of a converted answer may change. `TurnInv` adds the other half of a
  turn: the payload is well typed, the legacy form is the one made of the payload
  still held, and an answer is the conversion of one reply. From it follow that
  the credential sent is the right one (`CredentialIsTheRightOne`, by lemmas on
  what `BuildInbound` and `BuildDelegated` may pick), that a legacy worker which
  passes a result has seen all of it (`LegacyWorkerSawIt`), that its answer
  touches only what it was shown (`ShimIsFaithful`, an action property), and that
  a deny or rejection stays one or becomes an error, and when (`RejectionsAreFinal`). All hold for any requests,
  chains, capabilities and answers; the credential-header list is a parameter.
* **`VenvCacheProofs`.** `VenvTypes` and `CacheNeverThrashes` hold in every mode:
  several hosts, overlapping respawns, torn writes. `ThrashInv` is what the latter
  needs, that a build which nobody edited under records what its own class
  declares. `VenvInvariant` and `NeighboursKeepVenv` hold under `Quiet`, the
  hypothesis that the theorems state and the `VenvCache` run has: one host, which
  keeps invocations and lifecycle calls apart, and registry writes that do not
  tear unless the host dies with them. Each is needed: section 5 says what breaks
  without it. Respawns, at the same time as each other, crashes, steps that break
  off and edits are in. `QuietInv`: a lifecycle call has the disk to itself; the
  claim of a class that is up is on disk, so that its respawns only read the
  registry; two classes that are up have a ready venv; and while one wipes or
  creates it nothing runs and no other is up.
* **`PyLifecycleProofs`.** `LifecycleInv` names the owner of the guard at each
  control point; serialization of engine calls and finality follow.
  `BindingImplementsEngine` is the refinement: initial states map to initial
  states, and under the invariant every action maps to one step of `SerialEngine`
  or to a stutter. Holding the guard is what makes the engine vacant for a call
  that enters it (`LockMeansVacant`); an initialize task whose caller timed out,
  its rollback and a shutdown whose awaitable was dropped are still inside.
* **`GoEngineProofs`.** `GoInv`: the read half is held by exactly those whose
  control point is inside the engine, the engine box follows the handle except
  inside `cpex_shutdown`, and handles and out parameters name distinct
  allocated boxes. `NoBoxLeaks` is the converse, an owner for every allocated
  table and task box, and that nothing is abandoned while the engine is up; it
  needs besides that the two boxes of one result have one name, or a result that
  does not decode would lose a task box that nothing accounts for.
* **`HostProofs`.** About a whole host process, any number of threads. `SetupInv`
  says that a runtime once set stays, that the install steps belong to the holder
  of the lock, how far each has brought the engine, and that credentials are
  exposed only by an install that finished. `CallInv` says of each call that its
  extensions are the caller's with what its own resolution came to laid over them,
  nobody resolved included, that they hold a token only from there, that a
  delegated token with bytes is the one its own handler minted from it, and
  that the payload is the conversion of what was sent until a plugin replaces it
  (`ReadsBack`, `ReturnsPayload`: what converts in comes back out). The two are one
  induction. `BiscuitInv` relates what each stage of a delegator's handler has
  signed, advertised and stamped to the clock; it is proved of the delegator on
  its own (`BiscuitSpec`) and again of the host around it, where any call may
  lose its handler half way. `HandedOutCredentialsNarrow` joins them: a token a
  host gets back is accepted for nothing that the token it came with is not.

Assumptions on the constants are the named `ASSUME`s of the modules, which TLC
evaluates on every run: ids that differ from the null value, positive window and
buffer sizes, worker counts that are integers, requests and answers of the shapes
the code parses (`RequestsAssumption`, `DtoAssumption`, `HeaderAssumption`), and
markers (absent, bad, refused, rejected) that are no value of any message
(`MarkersAssumption`, `RefusedAssumption`).

Model-checked only: the liveness properties (under fairness; the prover has no
rule for it), which are `EveryCallReturns` of three runs, `DeathIsNoticed`,
`ShutdownReaches`, `EveryCallerLeaves`, `ShutdownLeavesNothing` and `ShutdownHappens`.

## 5. Where comments and code disagree

Kept as runs, each with the trace TLC finds:

1. **A Valid verdict over a venv without the requirements**
   (`VenvNeighbourRebuild`; `venv.rs`, `CacheVerdict::Valid`, "usable as-is"). A
   neighbour's pip in place replaces what this class pinned; or the class releases
   its claim and the neighbour rebuilds as sole owner. Either way the metadata
   still matches.
2. **A neighbour's venv is wiped under its worker** (`VenvNeighbourWipe`; `venv.rs`,
   header: ownership removes "the mutual-destruction window"). The owners are read
   before the neighbour claims and the wipe comes after it started.

Kept as configurations, of which TLC gives the trace:

3. **A Valid verdict over half a venv** (`VenvFailedBuild.cfg`; the comment of
   item 1). One class is enough: the directory is deleted, its metadata is not,
   the rebuild fails in `create_venv`, and what it left is a directory that exists.
4. **A stale claim after shutdown** (`VenvStaleClaim.cfg`; `plugin.rs`, `shutdown`,
   "so a later rebuild is not permanently downgraded"). A respawn in flight
   registers the claim again after shutdown has released it.
5. **Retained stderr can be three times its ceiling** (`StderrCeiling.cfg`;
   `worker.rs`, `stderr_loop`, "a hard ceiling of roughly `STDERR_RETAIN_LINES *
   STDERR_MAX_LINE_BYTES`", and its tests). The cap is on the bytes read, and
   decoding replaces each byte that is no UTF-8 by three. `MemoryBounded` is the
   bound that holds.
6. **A deny can become an error** (`HookDenyLost.cfg`; `conversion.rs`,
   `parse_violation`, a deny "must not be downgraded into an error"). A deny whose
   `modified_extensions` does not parse, or whose `modified_payload` does not where
   the hook's payload is not translated, is one, and `on_error: ignore` lets the
   request go on. `RejectionIsFinal` lists the cases.
7. **A token travels in the payload's JSON** (`HookPlainToken.cfg`;
   `legacy/payloads.rs`, "a placeholder, never the real token").
   `IdentityResolvePayload` and `TokenDelegatePayload` serialize their token field
   as it is. `TokenStaysGated` says which tokens that can be.
8. **An unresolved caller is served as if there were no resolver**
   (`HostUnresolved.cfg`; `lib.rs`, `cpex_invoke_resolved`, which degrades "when
   `identity_len <= 0` or no `identity.resolve` hook is registered"). Resolvers are
   registered, the pipeline allows with nothing filled in, and the hook runs on the
   caller's own extensions.
9. **A payload that is not a dict raises without an error record**
   (`HostNotADict.cfg`; `result.rs`, "appends a synthetic `PluginErrorRecord`").

Stated as definitions, for which adding the name to the module's `.cfg` gives
the trace:

10. `WorkerClient!NoTimeoutAfterTeardown`: **a send can wait out its timeout on a
   worker known to be dead** (end of `reader_loop`). The liveness flag is read
   before registering; the reader may lower it and clear the map in between.
11. `GoEngine!TasksNeverLeak`: **`Wait` after `Shutdown` leaks the task box**
   (`engine.go`, `Wait`). The comment fears that the call would leak the box;
   the C function frees it on that path, and skipping the call is what leaks.
   `BoxesNeverLeak`, which is proved, names this exception and no wider one.
12. `HookInvocation!UnseenHeadersSurvive`: **a plugin that may write headers and
   answers with an `http` slot drops the headers it was not shown**
   (`extensions.rs`, `returned_http`, against the comment that what is not
   covered is kept). No header value is ever shown, so the answer replaces all.

Observed while modelling and kept as prose.

Host side of isolated plugins:

* An over-limit answer to a request that has already timed out names no pending
  owner, and every in-flight request fails (`worker.rs`, `request_id_from_prefix`
  says exactly one does). `OversizedSparesOthers` states this exception.
* A cancelled send leaves its entry in the map until the worker answers or dies.
* A worker that keeps failing is relaunched `MAX_RESPAWN_ATTEMPTS` times per
  window, not once per minute (`plugin.rs`, `RESPAWN_BUDGET_RESET_SECS`); the
  bound that does hold is `RespawnsArePaidFor`.
* `initialize` clears the flag that a respawn under way since before the
  shutdown is about to check; if that `initialize` fails, the respawn still
  installs its worker. Otherwise the two run side by side for a while, or one
  replaces the other in the slot: `OneProcess` allows one process per
  `initialize`, and no more.
* A respawn looks at the flag (`plugin.rs:597`), then reaps. If the plugin's
  shutdown takes the child in between, the reap returns at once and the
  replacement is launched while the old process is in its grace window: for a
  while two processes after one `initialize`. `OneProcess` leaves the process
  being stopped out of its count; counted, TLC gives this trace. The replacement
  is never installed, and `ShutdownLeavesNothing` says that both end.
* Requirements are hashed after pip has read them: an edit during the install is
  recorded as installed.
* `RunningKeepsVenv` also fails with `InOneHost = FALSE`, where two hosts rewrite
  the registry from what they read before, and with `TornWrites = TRUE`, where a
  truncated registry reads as no owners.
* A rejection that `credential_payloads.rs` cannot represent (an unknown field, a
  reason or status of the wrong type) is an error, and `on_error: ignore` lets the
  request go on.
* `build_delegated` promises a stable choice; two tokens for different audiences
  tie when no audience is asked for, and the map's order decides.
* Of the `delegation` slot the whole object is taken, its origin included; only
  the chain is compared. A plugin with `read_delegated_tokens` alone gets no
  token with the engine's own delegation payload.
* Context deltas are applied before the conversion of the answer, which may
  still fail: an ignored error leaves them.

Entry points:

* `cpex_invoke_resolved` reads the engine's snapshot three times; a load in
  between may remove the resolvers that the first read found, a second way to
  item 8. On an identity
  denial the caller's context table is replaced.
* A failed `cpex_apl_install` leaves a partly installed engine that
  `cpex_load_config` still accepts.
* A result that does not decode in Go drops its context table and task box
  unfreed; a failed `alloc_bytes` returns success with a null buffer; modified
  extensions that do not serialize are dropped silently in C and raise in Python.
* An `initialize` of the Python binding that times out waiting for the lock
  raises `TimeoutError` but leaves the engine usable, and one whose task panics
  after its timeout is not rolled back. A timed-out `invoke_hook` leaves its
  pipeline running, while the C interface drops it.
* A Python integer beyond 64 bits raises `OverflowError` where the documentation
  promises `ValueError`, in the extensions and the context too; NaN in a Go payload
  arrives as null; a JSON integer above `i64` comes back as a float.
* `RegisterFactories` runs the caller's callback under the read lock.
* `manager.rs` documents `None` of `secrets_last_success` as "the provider's most
  recent refresh failed", the C and Go comments say that a failed refresh retains
  the last time; the engine, which decides, is not in this repository.

Biscuit delegator: the audience is a fact of the block, not a check; a route
without required permissions adds no operation check; capabilities are
advertised as scopes and are no caveats; an expired inbound token is attenuated
again. The signed bound may be earlier than the advertised one, never later.

## 6. What is not modelled

* The praxis-policy engine: a dependency. Its lifecycle calls, its capability
  filter, merge and error policy, and its config loading appear as external
  definitions.
* The engine's store of secrets: only what its refresh reports is modelled.
* The plugin factory and the Go wire structs: no state and no decisions.
* The contents of a frame: `WorkerClient` has no bytes but `BoundedLine`'s.
* What outlives its caller in the venv cache: the blocking closures and the
  `python3 -m venv` child of a cancelled respawn or `initialize`, the pip of a host
  that crashed. And the relation between the 60 s cap of the C interface and the
  600 s pip timeout.
* Tokens that a plugin writes into a generic payload or into its context state: a
  plugin that may read a token may pass it on, and no code looks there.
* A chain of delegations inside one run: the parents a handler is given include a
  token narrowed before, and minted tokens are not fed back.
* Arithmetic of a lifetime beyond `i64` in the delegator.
* Examples, test harnesses, build scripts.

## 7. What is left

1. A composition of `PluginLifecycle` with `VenvCache`: respawn, shutdown and
   claim in one state, to state the claim's lifetime across both and to replace
   `Quiet` by a condition on the overlap itself. A respawn that overlaps its own
   plugin's shutdown rewrites the registry from what it read before, so the
   condition has to rule that out as well.
2. What of a plugin's context writes should survive an answer that does not
   convert: the model has the state (`ctx`), the code has no statement to check.
3. A liveness argument by proof, with a prover that has the rules for it.
