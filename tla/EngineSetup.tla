----------------------------- MODULE EngineSetup -----------------------------
(***************************************************************************)
(* How a host brings one engine up: the process-wide tokio runtime of the  *)
(* C interface (cpex-ffi/src/lib.rs), the installation of the builtins     *)
(* (cpex-ffi/src/apl.rs, cpex/src/host.rs), the config loads, and the      *)
(* one-step constructor of the Python wheel (bindings/python).             *)
(*                                                                         *)
(* A process uses one binding.  The threads of a Go host share the handle  *)
(* and call in any order; the read lock they hold only keeps the handle    *)
(* alive (GoEngine) and orders nothing between them.                       *)
(*                                                                         *)
(* The engine behind the handle is the praxis policy engine, an external   *)
(* library: what is kept of it is what the code above relies on.           *)
(***************************************************************************)
EXTENDS BiscuitDelegator

CONSTANTS
    NoThread,    \* nobody holds the install lock
    Configs,     \* the YAML documents a host may load
    NoConfig,    \* nothing loaded
    WorkerCounts, \* the arguments of ConfigureRuntime
    EnvThreads,  \* CPEX_FFI_WORKER_THREADS: a number, or a word when malformed
    MaxCalls     \* bound: calls the threads make between them

\* A document is described by what the load looks at.
ASSUME ConfigsAssumption ==
    \A c \in Configs :
       c \in [wellFormed : BOOLEAN,  \* parse_config accepts it
              apl        : BOOLEAN,  \* it has keys the APL visitor owns
              builtin    : BOOLEAN,  \* it names a bundled plugin kind
              identity   : BOOLEAN,  \* it registers an identity.resolve hook
              delegators : SUBSET Sources]  \* the biscuit delegators it names

ASSUME BoundsAssumption ==
    MaxCalls \in Nat /\ NoThread \notin Threads /\ WorkerCounts \subseteq Int

VARIABLES
    binding,   \* "go" or "python": which binding this process uses
    runtime,   \* SHARED_RUNTIME: Unset, or its number of worker threads
    handle,    \* the host holds an engine
    install,   \* CpexEngineInner::install_state
    lock,      \* the thread inside install_state.lock(), or NoThread
    expose,    \* CpexEngineInner::expose_delegated_credentials
    engine,    \* what the engine has been given
    snapshot,  \* the config the engine dispatches by
    pc,        \* where each thread is
    arg,       \* the argument of the call a thread is in
    calls,     \* how many calls were made
    got        \* what the last call of each thread returned

setupVars == <<binding, runtime, handle, install, lock, expose, engine, snapshot,
               pc, arg, calls, got>>

Unset == 0
DefaultThreads == 8   \* tokio's num_cpus
Flags == {"private", "expose", "unknown"}
KnownFlags == {"private", "expose"}

\* errorFromRC: the sentinel a Go caller tests for, one per return code.
ErrorFromRC(rc) ==
    [RC_OK |-> "nil", RC_INVALID_HANDLE |-> "ErrCpexInvalidHandle",
     RC_INVALID_INPUT |-> "ErrCpexInvalidInput",
     RC_PARSE_ERROR |-> "ErrCpexParse", RC_PIPELINE_ERROR |-> "ErrCpexPipeline",
     RC_SERIALIZE_ERROR |-> "ErrCpexSerialize", RC_TIMEOUT |-> "ErrCpexTimeout",
     RC_PANIC |-> "ErrCpexPanic"][rc]

-----------------------------------------------------------------------------
(* Calls and returns *)

NoArg == [workers |-> 0, flags |-> {}]
Returned(op, err, workers) == [op |-> op, err |-> err, workers |-> workers]
Nothing == Returned("none", "nil", 0)

Calls(t, next, a) ==
    /\ pc[t] = "idle" /\ calls < MaxCalls
    /\ pc' = [pc EXCEPT ![t] = next]
    /\ arg' = [arg EXCEPT ![t] = a]
    /\ calls' = calls + 1
    /\ got' = [got EXCEPT ![t] = Nothing]
    /\ UNCHANGED binding

\* A call that returns in the step that made it.
CallReturns(t, op, err) ==
    /\ pc[t] = "idle" /\ calls < MaxCalls
    /\ calls' = calls + 1
    /\ got' = [got EXCEPT ![t] = Returned(op, err, 0)]
    /\ UNCHANGED <<binding, pc, arg>>

Goto(t, next) ==
    /\ pc' = [pc EXCEPT ![t] = next]
    /\ UNCHANGED <<binding, arg, calls, got>>

Return(t, op, rc) ==
    /\ pc' = [pc EXCEPT ![t] = "idle"]
    /\ got' = [got EXCEPT ![t] = Returned(op, ErrorFromRC(rc), arg[t].workers)]
    /\ arg' = [arg EXCEPT ![t] = NoArg]
    /\ UNCHANGED <<binding, calls>>

-----------------------------------------------------------------------------
(* The shared runtime *)

\* Zero, a negative number or a word is warned about and ignored.
ParseWorkerThreads(raw) ==
    IF raw \in Nat \ {0} THEN raw ELSE DefaultThreads

\* shared_runtime(): get_or_init, which reads the environment once.
SharedRuntime ==
    runtime' = IF runtime = Unset THEN ParseWorkerThreads(EnvThreads) ELSE runtime

ConfigureRejects(t) ==
    /\ binding = "go"
    /\ \E n \in WorkerCounts : n <= 0
    /\ CallReturns(t, "configure", ErrorFromRC("RC_INVALID_INPUT"))
    /\ UNCHANGED <<runtime, handle, install, lock, expose, engine, snapshot>>

\* The runtime is built before the OnceLock is looked at.
ConfigureBuilds(t) ==
    /\ binding = "go"
    /\ \E n \in WorkerCounts : n > 0 /\ Calls(t, "configuring", [NoArg EXCEPT !.workers = n])
    /\ UNCHANGED <<runtime, handle, install, lock, expose, engine, snapshot>>

ConfigureFails(t) ==
    /\ pc[t] = "configuring"
    /\ Return(t, "configure", "RC_PIPELINE_ERROR")
    /\ UNCHANGED <<runtime, handle, install, lock, expose, engine, snapshot>>

\* Mutated form: the call reports success whether or not its runtime is kept.
ConfigureSetsQuietly(t) ==
    /\ pc[t] = "configuring"
    /\ runtime' = IF runtime = Unset THEN arg[t].workers ELSE runtime
    /\ Return(t, "configure", "RC_OK")
    /\ UNCHANGED <<handle, install, lock, expose, engine, snapshot>>

\* SHARED_RUNTIME.set(rt): the first set or get_or_init wins.
ConfigureSets(t) ==
    /\ pc[t] = "configuring"
    /\ runtime' = IF runtime = Unset THEN arg[t].workers ELSE runtime
    /\ Return(t, "configure",
              IF runtime = Unset THEN "RC_OK" ELSE "RC_INVALID_INPUT")
    /\ UNCHANGED <<handle, install, lock, expose, engine, snapshot>>

-----------------------------------------------------------------------------
(* The engine (external): PolicyEngine of the praxis policy engine *)

FreshEngine == [visitors |-> 0, factories |-> FALSE, host |-> FALSE, transport |-> "none", secrets |-> "none"]

\* install_builtins appends another visitor at every call.
AppendVisitor(e) == [e EXCEPT !.visitors = @ + 1]
InstallBuiltins(e) == [AppendVisitor(e) EXCEPT !.factories = TRUE]

\* The transport and the secret providers are set once.
SetHttpTransport(e, kind) == IF e.transport = "none" THEN [e EXCEPT !.transport = kind] ELSE e
SetSecretProviders(e, kind) == IF e.secrets = "none" THEN [e EXCEPT !.secrets = kind] ELSE e

\* load_config_yaml refuses APL-owned keys without a visitor, kinds without a
\* factory and plugins that cannot be built; every visitor walks the policy
\* sections.
Loadable(e, c) ==
    /\ c.wellFormed /\ (c.apl => e.visitors > 0) /\ (c.builtin => e.factories)
    /\ c.identity => e.factories \/ e.host
    /\ c.delegators # {} => e.host
    /\ \A source \in c.delegators : New(source) # NoKey
Loaded(e, c) == [config |-> c, walks |-> IF c.apl THEN e.visitors ELSE 0]

TransportKind(private) == IF private THEN "private" ELSE "public"

-----------------------------------------------------------------------------
(* Constructors *)

\* cpex_engine_new_default, and the host registers its own factories, the
\* biscuit delegator's among them, before it shares the handle (GoEngine has
\* RegisterFactories at any time).
EngineNewDefault(t) ==
    /\ binding = "go" /\ ~handle
    /\ SharedRuntime
    /\ handle' = TRUE
    /\ engine' = [engine EXCEPT !.host = TRUE]
    /\ CallReturns(t, "new", "nil")
    /\ UNCHANGED <<install, lock, expose, snapshot>>

\* cpex_engine_new: the runtime is fixed even when the load fails and the
\* caller gets NULL.
EngineNew(t) ==
    /\ binding = "go" /\ ~handle
    /\ SharedRuntime
    /\ \E c \in Configs :
         IF Loadable(engine, c)
         THEN /\ handle' = TRUE /\ snapshot' = Loaded(engine, c)
              /\ CallReturns(t, "new", "nil")
         ELSE /\ CallReturns(t, "new", "failed to create policy engine")
              /\ UNCHANGED <<handle, snapshot>>
    /\ UNCHANGED <<install, lock, expose, engine>>

\* install_host_defaults(engine, allow_private_destinations), in one piece.
InstallHostDefaults(e, private) ==
    SetSecretProviders(
        SetHttpTransport(InstallBuiltins(e), TransportKind(private)),
        TransportKind(private))

\* PolicyEngine(config_path, allow_private_destinations=...) of the wheel:
\* nobody else has the engine yet, so the three steps are one.
PyNew(t) ==
    /\ binding = "python" /\ ~handle
    /\ \E c \in Configs, private \in BOOLEAN :
         LET e == InstallHostDefaults(engine, private) IN
         IF Loadable(e, c)
         THEN /\ handle' = TRUE /\ engine' = e /\ snapshot' = Loaded(e, c)
              /\ CallReturns(t, "new", "nil")
         ELSE /\ CallReturns(t, "new", "ValueError")
              /\ UNCHANGED <<handle, engine, snapshot>>
    /\ UNCHANGED <<runtime, install, lock, expose>>

-----------------------------------------------------------------------------
(* cpex_apl_install *)

InstallRejects(t) ==
    /\ binding = "go" /\ handle
    /\ \E flags \in SUBSET Flags : ~(flags \subseteq KnownFlags)
    /\ CallReturns(t, "install", ErrorFromRC("RC_INVALID_INPUT"))
    /\ UNCHANGED <<runtime, handle, install, lock, expose, engine, snapshot>>

InstallCalled(t) ==
    /\ binding = "go" /\ handle
    /\ \E flags \in SUBSET KnownFlags : Calls(t, "locking", [NoArg EXCEPT !.flags = flags])
    /\ UNCHANGED <<runtime, handle, install, lock, expose, engine, snapshot>>

\* Mutated form: a flag instead of the mutex; a second caller that finds the
\* install begun takes it for done.
InstallLocksFlagOnly(t) ==
    /\ pc[t] = "locking"
    /\ \/ /\ install = "NotInstalled" /\ lock = NoThread
          /\ lock' = t /\ Goto(t, "builtins")
       \/ /\ install = "Installed" \/ lock # NoThread
          /\ UNCHANGED lock /\ Return(t, "install", "RC_OK")
       \/ /\ install = "Failed" /\ lock = NoThread
          /\ UNCHANGED lock /\ Return(t, "install", "RC_PANIC")
    /\ UNCHANGED <<runtime, handle, install, expose, engine, snapshot>>

\* The lock is held for the whole install; a later caller sees the outcome.
InstallLocks(t) ==
    /\ pc[t] = "locking" /\ lock = NoThread
    /\ \/ /\ install = "NotInstalled"
          /\ lock' = t /\ Goto(t, "builtins")
       \/ /\ install = "Installed"
          /\ UNCHANGED lock /\ Return(t, "install", "RC_OK")
       \/ /\ install = "Failed"
          /\ UNCHANGED lock /\ Return(t, "install", "RC_PANIC")
    /\ UNCHANGED <<runtime, handle, install, expose, engine, snapshot>>

\* install_host_defaults, step by step: another thread may load a config or
\* invoke a hook between two of them.
InstallSteps(t) ==
    /\ \/ /\ pc[t] = "builtins" /\ Goto(t, "transport")
          /\ engine' = InstallBuiltins(engine)
       \/ /\ pc[t] = "transport" /\ Goto(t, "providers")
          /\ engine' = SetHttpTransport(engine, TransportKind("private" \in arg[t].flags))
       \/ /\ pc[t] = "providers" /\ Goto(t, "installed")
          /\ engine' = SetSecretProviders(engine, TransportKind("private" \in arg[t].flags))
    /\ UNCHANGED <<runtime, handle, install, lock, expose, snapshot>>

\* A panic anywhere in it is caught; what it left behind stays.
InstallPanics(t) ==
    /\ pc[t] \in {"builtins", "transport", "providers"}
    /\ install' = "Failed" /\ lock' = NoThread
    /\ Return(t, "install", "RC_PANIC")
    /\ UNCHANGED <<runtime, handle, expose, engine, snapshot>>

InstallFinishes(t) ==
    /\ pc[t] = "installed"
    /\ expose' = ("expose" \in arg[t].flags)
    /\ install' = "Installed" /\ lock' = NoThread
    /\ Return(t, "install", "RC_OK")
    /\ UNCHANGED <<runtime, handle, engine, snapshot>>

-----------------------------------------------------------------------------
(* cpex_load_config *)

LoadConfig(t) ==
    /\ binding = "go" /\ handle
    /\ \E c \in Configs :
         \/ /\ ~c.wellFormed
            /\ CallReturns(t, "load", ErrorFromRC("RC_PARSE_ERROR"))
            /\ UNCHANGED snapshot
         \/ /\ c.wellFormed /\ ~Loadable(engine, c)
            /\ CallReturns(t, "load", ErrorFromRC("RC_PIPELINE_ERROR"))
            /\ UNCHANGED snapshot
         \/ /\ Loadable(engine, c)
            /\ CallReturns(t, "load", ErrorFromRC("RC_OK"))
            /\ snapshot' = Loaded(engine, c)
         \/ /\ c.wellFormed
            /\ CallReturns(t, "load", ErrorFromRC("RC_PANIC"))
            /\ UNCHANGED snapshot
    /\ UNCHANGED <<runtime, handle, install, lock, expose, engine>>

-----------------------------------------------------------------------------

SetupInit ==
    /\ binding \in {"go", "python"}
    /\ runtime = Unset
    /\ handle = FALSE
    /\ install = "NotInstalled"
    /\ lock = NoThread
    /\ expose = FALSE
    /\ engine = FreshEngine
    /\ snapshot = [config |-> NoConfig, walks |-> 0]
    /\ pc = [t \in Threads |-> "idle"]
    /\ arg = [t \in Threads |-> NoArg]
    /\ calls = 0
    /\ got = [t \in Threads |-> Nothing]

SetupStep(t) ==
    \/ ConfigureRejects(t) \/ ConfigureBuilds(t) \/ ConfigureFails(t) \/ ConfigureSets(t)
    \/ EngineNewDefault(t) \/ EngineNew(t) \/ PyNew(t)
    \/ InstallRejects(t) \/ InstallCalled(t) \/ InstallLocks(t)
    \/ InstallSteps(t) \/ InstallPanics(t) \/ InstallFinishes(t)
    \/ LoadConfig(t)

-----------------------------------------------------------------------------
(* Properties *)

\* ConfigureRuntime that returned no error is the one whose worker count the
\* process runs with, whatever other threads configured or created meanwhile.
ConfiguredMeansUsed ==
    \A t \in Threads :
       got[t].op = "configure" /\ got[t].err = "nil" => runtime = got[t].workers

\* EnableAPL that returned no error leaves an engine on which everything is
\* installed, exactly once and by one set of flags, so that the next LoadConfig
\* finds the factories and no policy section is walked twice.
InstalledOnceAndWhole ==
    /\ engine.visitors <= 1
    /\ \A t \in Threads :
          got[t].op = "install" /\ got[t].err = "nil" =>
             /\ engine.factories /\ engine.visitors = 1
             /\ engine.transport # "none" /\ engine.secrets = engine.transport
=============================================================================
