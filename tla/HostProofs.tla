----------------------------- MODULE HostProofs -----------------------------
(***************************************************************************)
(* What a host process promises, for any number of threads, any requests,  *)
(* configs, keys, tokens and lifetimes: setting up (EngineSetup), hook     *)
(* calls (HostEntry) and the biscuit delegator that runs inside them.      *)
(*                                                                         *)
(* SetupInv and CallInv are one inductive argument: a call relies on the   *)
(* install to expose credentials once and for all, and setting up relies   *)
(* on calls to stay away from the install lock.  The delegator's own       *)
(* invariant needs neither.                                                *)
(***************************************************************************)
EXTENDS HostEntry, TLAPS

-----------------------------------------------------------------------------
(* Setting up: the inductive invariants                                    *)

\* Where a thread is inside install_state.lock(), and inside a setup call.
Inside == {"builtins", "transport", "providers", "installed"}
SetupPoints == Inside \cup {"configuring", "locking"}

Kinds == {"none", "private", "public"}
Engines == [visitors : Nat, factories : BOOLEAN, host : BOOLEAN, transport : Kinds, secrets : Kinds]

SetupTypes ==
    /\ binding \in {"go", "python"}
    /\ handle \in BOOLEAN /\ expose \in BOOLEAN
    /\ install \in {"NotInstalled", "Installed", "Failed"}
    /\ lock \in Threads \cup {NoThread}
    /\ engine \in Engines
    /\ DOMAIN pc = Threads /\ DOMAIN arg = Threads /\ DOMAIN got = Threads

\* The runtime a successful ConfigureRuntime set is a real one, which the
\* OnceLock never lets go of.
RuntimeKept ==
    \A t \in Threads :
       /\ pc[t] = "configuring" => arg[t].workers # Unset
       /\ got[t].op = "configure" /\ got[t].err = "nil" =>
             runtime = got[t].workers /\ runtime # Unset

Bare(e) == e.visitors = 0 /\ e.transport = "none" /\ e.secrets = "none"
Whole(e) ==
    e.factories /\ e.visitors = 1 /\ e.transport # "none" /\ e.secrets = e.transport

\* How far the install of the thread at this point has come.
InstalledSoFar(t) ==
    /\ pc[t] = "builtins" => Bare(engine)
    /\ pc[t] = "transport" =>
          engine.factories /\ engine.visitors = 1
          /\ engine.transport = "none" /\ engine.secrets = "none"
    /\ pc[t] = "providers" =>
          engine.factories /\ engine.visitors = 1 /\ engine.secrets = "none"
          /\ engine.transport = TransportKind("private" \in arg[t].flags)
    /\ pc[t] = "installed" => Whole(engine)

\* One thread at a time installs, and nobody once an install was tried.
InstallLocked ==
    /\ \A t \in Threads : pc[t] \in Inside <=> lock = t
    /\ lock # NoThread => install = "NotInstalled"
    /\ install # "Installed" => ~expose
    /\ install = "Installed" => Whole(engine)
    /\ engine.visitors <= 1
    /\ binding = "go" /\ install = "NotInstalled" /\ lock = NoThread => Bare(engine)
    /\ binding = "python" /\ ~handle => Bare(engine)
    /\ binding = "python" => \A t \in Threads : pc[t] \notin SetupPoints
    /\ \A t \in Threads : InstalledSoFar(t)
    /\ \A t \in Threads :
          got[t].op = "install" /\ got[t].err = "nil" => install = "Installed"

SetupInv == SetupTypes /\ RuntimeKept /\ InstallLocked

-----------------------------------------------------------------------------
(* One hook call: the inductive invariant                                  *)

CallPoints == {"checking", "resolving"} \cup InPipeline

IsPayload(p) == p = Payload(p.type, p.dict, p.leaf, p.headers)

\* The leaves of a JSON value, as pyobj_to_json_value makes them.
JsonLeaves == {"null", "bool", "i64", "f64", "string"}

\* A payload no plugin has changed gives the host back the leaf it sent.
GivesBack(t) ==
    LET i == inv[t] IN
    /\ i.payload.type \in PayloadTypes
    /\ binding = "go" => ComesBackAs(i.payload.leaf, i.sent)
    /\ binding = "python" =>
          i.payload.leaf \in JsonLeaves /\ JsonValueToPyobj(i.payload.leaf) = i.sent

\* The token in the extensions is the resolved one, and a delegated token
\* with bytes is the one this call's handler minted from it.
TokensTraced(t) ==
    LET i == inv[t]  e == i.ext  j == job[t] IN
    /\ e.token \in {NoToken, i.bearer}
    /\ e.modified \in BOOLEAN
    /\ ~e.modified => e.delegated \subseteq {Blank}
    /\ e.modified =>
          /\ pc[t] \in {"delegated", "finishing"}
          /\ j.stage = "minted" /\ j.bearer = e.token /\ e.token # NoToken
          /\ e.delegated \subseteq {Blank, [bytes |-> j.token]}
    /\ pc[t] = "delegating" =>
          j.stage \in {"handling", "minting"} /\ j.bearer = e.token /\ e.token # NoToken

\* The extensions hold what the call's own identity.resolve filled in, over
\* what the caller passed.  This is IdentityReachesHook of one call.
IdentityOver(i) ==
    /\ i.identity.allowed
    /\ i.ext.token = i.identity.token /\ i.ext.token \in {NoToken, i.bearer}
    /\ i.ext.subject = IF i.identity.subject = "none" THEN i.claims ELSE i.identity.subject

CallOK(t) ==
    pc[t] \in CallPoints =>
       /\ result[t].stage = "none"
       /\ IsPayload(inv[t].payload)
       /\ binding = "python" => inv[t].payload.leaf \in JsonLeaves \cup {"u64"}
       /\ TokensTraced(t)
       /\ IdentityOver(inv[t])
       /\ pc[t] \in {"checking", "resolving"} => inv[t].identity = Unresolved
       /\ pc[t] = "finishing" => inv[t].modified \in BOOLEAN /\ inv[t].continue \in BOOLEAN
       /\ pc[t] # "finishing" \/ ~inv[t].modified => GivesBack(t)

\* What PayloadReturns says of one allowed result.
ReturnsOK(r) ==
    LET q == r.payload  e == r.ended IN
    /\ q = NoResult <=> r.errors # {}
    /\ q = NoResult <=> e.type \notin PayloadTypes
    /\ q = Raises <=> binding = "python" /\ e.type \in PayloadTypes /\ ~e.dict
    /\ q \notin {NoResult, Raises} =>
          /\ q.type = e.type /\ ReadsAs(q.leaf, e.leaf)
          /\ ~r.modified => ComesBackAs(q.leaf, r.sent)
    /\ ~r.modified => q # NoResult

\* What TokensStayInside and PayloadReturns say of one thread's result.
ResultOK(t) ==
    result[t].stage = "result" =>
       /\ \A tok \in result[t].credentials :
             /\ result[t].continue /\ expose
             /\ job[t].stage = "minted" /\ tok.bytes = job[t].token
             /\ job[t].bearer = result[t].bearer
       /\ result[t].payload \notin {NoResult, Raises} /\ result[t].payload.type = "identity" =>
             ~result[t].payload.headers
       /\ result[t].continue => ReturnsOK(result[t])

CallInv ==
    /\ DOMAIN inv = Threads /\ DOMAIN result = Threads /\ DOMAIN job = Threads
    /\ \A t \in Threads : CallOK(t) /\ ResultOK(t)

-----------------------------------------------------------------------------
(* The biscuit delegator                                                   *)

\* The block the handler appended is in the token, on top of everything the
\* bearer carried, and its bound is no later than limit.
Narrowed(j, limit) ==
    /\ j.payload \in Payloads
    /\ j.bearer.checks \subseteq j.token.checks
    /\ \E c \in j.token.checks :
          c.ops = j.payload.perms /\ c.bound \in Nat /\ c.bound <= limit

\* What each stage of a handler has established; the properties speak of the
\* last stage only, and hold because of what the clock read at the others.
StageOK(j) ==
    /\ j.stage = "handling" => Narrowed(j, clock + EffectiveTtlSeconds(j.payload))
    /\ j.stage = "minting" =>
          /\ Narrowed(j, j.expires_at)
          /\ j.expires_at \in Nat
          /\ j.expires_at <= clock + EffectiveTtlSeconds(j.payload)
    /\ j.stage = "minted" =>
          /\ Narrowed(j, j.expires_at)
          /\ j.expires_at \in Nat
          /\ j.expires_at <= j.minted_at + EffectiveTtlSeconds(j.payload)

BiscuitInv ==
    /\ clock \in Nat
    /\ DOMAIN job = Threads
    /\ \A h \in Threads : StageOK(job[h])

\* The lifetime of a block is a number of seconds.
LEMMA TtlType == \A p \in Payloads : EffectiveTtlSeconds(p) \in Nat
  BY TtlAssumption, PayloadsAssumption DEF EffectiveTtlSeconds

\* Time passing keeps what a handler has established.
LEMMA LaterIsFine ==
    ASSUME clock \in Nat, clock' = clock + 1, NEW j, StageOK(j)
    PROVE  StageOK(j)'
<1>1. ASSUME j.payload \in Payloads
      PROVE  /\ EffectiveTtlSeconds(j.payload) \in Nat
             /\ EffectiveTtlSeconds(j.payload)' = EffectiveTtlSeconds(j.payload)
  BY <1>1, TtlType DEF EffectiveTtlSeconds
<1>2. CASE j.stage = "handling"
  BY <1>1, <1>2 DEF StageOK, Narrowed
<1>3. CASE j.stage = "minting"
  BY <1>1, <1>3 DEF StageOK, Narrowed
<1>4. CASE j.stage = "minted"
  BY <1>1, <1>4 DEF StageOK, Narrowed
<1>5. QED
  BY <1>2, <1>3, <1>4 DEF StageOK

\* A step of one handler concerns that handler alone.
LEMMA OneHandler ==
    ASSUME BiscuitInv, NEW h \in Threads, NEW j, UNCHANGED clock,
           job' = [job EXCEPT ![h] = j], StageOK(j)
    PROVE  BiscuitInv'
  BY DEF BiscuitInv, StageOK, Narrowed, EffectiveTtlSeconds

\* Each step of a handler, whoever runs it, keeps the invariant.
LEMMA DenyKeeps ==
    ASSUME BiscuitInv, NEW h \in Threads, NEW bearer, NEW p, NEW key,
           HandleDenies(h, bearer, p, key)
    PROVE  BiscuitInv'
<1>1. PICK code : job' = [job EXCEPT ![h] = [stage |-> "denied", code |-> code]]
  BY DEF HandleDenies, Deny
<1>2. StageOK([stage |-> "denied", code |-> code])
  BY DEF StageOK
<1>3. QED
  BY <1>1, <1>2, OneHandler DEF HandleDenies

\* The appended block is bounded by the first reading of the clock.
LEMMA AppendKeeps ==
    ASSUME BiscuitInv, NEW h \in Threads, NEW bearer, NEW p \in Payloads, NEW key,
           HandleAppends(h, bearer, p, key)
    PROVE  BiscuitInv'
<1> DEFINE j == [stage |-> "handling", bearer |-> bearer, payload |-> p,
                 token |-> AppendBlock(bearer, DelegationBlock(p))]
<1>1. clock + EffectiveTtlSeconds(p) \in Nat
  BY TtlType DEF BiscuitInv
<1>2. Narrowed(j, clock + EffectiveTtlSeconds(p))
  <2> DEFINE c == [ops |-> p.perms, bound |-> clock + EffectiveTtlSeconds(p)]
  <2>1. j.token.checks = bearer.checks \cup {c}
    BY DEF AppendBlock, DelegationBlock, ExpiresAtUnix
  <2>2. c.ops = p.perms /\ c.bound \in Nat /\ c.bound <= clock + EffectiveTtlSeconds(p)
    BY <1>1
  <2>3. j.payload = p /\ j.bearer = bearer
    OBVIOUS
  <2>4. QED
    BY <2>1, <2>2, <2>3, Zenon DEF Narrowed
<1>3. StageOK(j)
  BY <1>2 DEF StageOK
<1>4. QED
  BY <1>3, OneHandler DEF HandleAppends

\* The advertised expiry is read no earlier than the bound was.
LEMMA MintKeeps ==
    ASSUME BiscuitInv, NEW h \in Threads, HandleMints(h)
    PROVE  BiscuitInv'
<1> DEFINE i == job[h]
           j == [stage |-> "minting", bearer |-> i.bearer, payload |-> i.payload,
                 token |-> i.token, scopes |-> Scopes(i.payload),
                 expires_at |-> clock + EffectiveTtlSeconds(i.payload)]
<1>1. Narrowed(i, clock + EffectiveTtlSeconds(i.payload)) /\ clock \in Nat
  BY DEF HandleMints, BiscuitInv, StageOK
<1>2. EffectiveTtlSeconds(i.payload) \in Nat
  BY <1>1, TtlType DEF Narrowed
<1>3. StageOK(j)
  BY <1>1, <1>2 DEF StageOK, Narrowed
<1>4. job' = [job EXCEPT ![h] = j]
  BY DEF HandleMints, BiscuitInv
<1>5. QED
  BY <1>3, <1>4, OneHandler DEF HandleMints

\* minted_at is read last.
LEMMA StampKeeps ==
    ASSUME BiscuitInv, NEW h \in Threads, HandleStamps(h)
    PROVE  BiscuitInv'
<1> DEFINE i == job[h]
           j == [stage |-> "minted", bearer |-> i.bearer, payload |-> i.payload,
                 token |-> i.token, scopes |-> i.scopes,
                 expires_at |-> i.expires_at, minted_at |-> clock]
<1>1. StageOK(i) /\ i.stage = "minting"
  BY DEF HandleStamps, BiscuitInv
<1>2. StageOK(j)
  BY <1>1 DEF StageOK, Narrowed
<1>3. job' = [job EXCEPT ![h] = j]
  BY DEF HandleStamps, BiscuitInv
<1>4. QED
  BY <1>2, <1>3, OneHandler DEF HandleStamps

\* A dropped handler leaves nothing.
LEMMA DropKeeps ==
    ASSUME BiscuitInv, NEW h \in Threads, HandleIsDropped(h)
    PROVE  BiscuitInv'
<1>1. StageOK(Idle)
  BY DEF StageOK, Idle
<1>2. QED
  BY <1>1, OneHandler DEF HandleIsDropped

\* Time passes.
LEMMA TickKeeps ==
    ASSUME BiscuitInv, Tick
    PROVE  BiscuitInv'
  BY LaterIsFine DEF Tick, BiscuitInv

\* Steps of the host that run no handler.
LEMMA NoHandlerKeeps ==
    ASSUME BiscuitInv, UNCHANGED <<clock, job>>
    PROVE  BiscuitInv'
  BY DEF BiscuitInv, StageOK, Narrowed, EffectiveTtlSeconds

\* No handler has run at first.
LEMMA BiscuitStarts ==
    ASSUME BiscuitInit
    PROVE  BiscuitInv
  BY DEF BiscuitInit, BiscuitInv, StageOK, Idle

\* What a minted token promises follows.
LEMMA MintedIsBounded ==
    ASSUME BiscuitInv
    PROVE  UnusablePastExpiry
<1> SUFFICES ASSUME NEW h \in Minted
             PROVE  /\ \A ops \in SUBSET Perms, t \in Times :
                          Accepts(job[h].token, ops, t) => t <= job[h].expires_at
                    /\ job[h].expires_at <= job[h].minted_at + EffectiveTtlSeconds(job[h].payload)
  BY DEF UnusablePastExpiry
<1>1. /\ Narrowed(job[h], job[h].expires_at) /\ job[h].expires_at \in Nat
      /\ job[h].expires_at <= job[h].minted_at + EffectiveTtlSeconds(job[h].payload)
  BY DEF Minted, BiscuitInv, StageOK
<1>2. ASSUME NEW ops \in SUBSET Perms, NEW t \in Times, Accepts(job[h].token, ops, t)
      PROVE  t <= job[h].expires_at
  BY <1>1, <1>2, TtlAssumption DEF Narrowed, Accepts
<1>3. QED
  BY <1>1, <1>2

\* A minted token carries every check of its bearer, and the route's own.
LEMMA MintedIsNarrower ==
    ASSUME BiscuitInv
    PROVE  OnlyNarrows
<1> SUFFICES ASSUME NEW h \in Minted, NEW ops \in SUBSET Perms, NEW t \in Times,
                    Accepts(job[h].token, ops, t)
             PROVE  Accepts(job[h].bearer, ops, t) /\ job[h].payload.perms \subseteq ops
  BY DEF OnlyNarrows
<1>1. Narrowed(job[h], job[h].expires_at)
  BY DEF Minted, BiscuitInv, StageOK
<1>2. QED
  BY <1>1 DEF Narrowed, Accepts

\* The delegator by itself: the invariant holds in every reachable state.
THEOREM BiscuitInvariant == BiscuitSpec => []BiscuitInv
<1>1. BiscuitInv /\ [BiscuitNext]_biscuitVars => BiscuitInv'
  BY DenyKeeps, AppendKeeps, MintKeeps, StampKeeps, DropKeeps, TickKeeps, NoHandlerKeeps
     DEF BiscuitNext, biscuitVars
<1>2. QED
  BY <1>1, BiscuitStarts, PTL DEF BiscuitSpec

\* Whatever time passes inside the handler, no service accepts a minted token
\* after its advertised expiry, which keeps to the route's lifetime.
THEOREM NoUsePastExpiry == BiscuitSpec => []UnusablePastExpiry
  BY BiscuitInvariant, MintedIsBounded, PTL

\* A chain of delegations of any length only ever narrows what its first
\* token was good for.
THEOREM DelegationNarrows == BiscuitSpec => []OnlyNarrows
  BY BiscuitInvariant, MintedIsNarrower, PTL

\* The same inside a host process, where the handler runs in the pipeline of a
\* hook call that may time out, and gets its bearer from a resolved identity.
THEOREM HostBiscuitInvariant == HostSpec => []BiscuitInv
<1>1. BiscuitInv /\ [HostNext]_hostVars => BiscuitInv'
  <2> SUFFICES ASSUME BiscuitInv, [HostNext]_hostVars PROVE BiscuitInv'
    OBVIOUS
  <2>1. ASSUME NEW t \in Threads, Delegates(t) PROVE BiscuitInv'
    BY <2>1, DenyKeeps, AppendKeeps DEF Delegates
  <2>2. ASSUME NEW t \in Threads, DelegateSteps(t) PROVE BiscuitInv'
    BY <2>2, MintKeeps, StampKeeps DEF DelegateSteps
  <2>3. ASSUME NEW t \in Threads, HookIsLost(t) PROVE BiscuitInv'
    BY <2>3, DropKeeps, NoHandlerKeeps DEF HookIsLost, biscuitVars
  <2>4. CASE Tick /\ UNCHANGED <<setupVars, inv, result>>
    BY <2>4, TickKeeps
  <2>5. ASSUME NEW t \in Threads,
               \/ SetupStep(t) /\ UNCHANGED <<biscuitVars, inv, result>>
               \/ InvokeRejects(t) \/ InvokeStarts(t) \/ IdentityChecks(t) \/ IdentityRuns(t)
               \/ PyInvokeRaises(t) \/ PyInvokeStarts(t) \/ HookEnds(t)
               \/ InvokeFinishes(t) \/ PyInvokeFinishes(t) \/ PyInvokeIsLost(t)
               \/ PyDetachedEnds(t) \/ SecretsStep(t)
        PROVE  UNCHANGED <<clock, job>>
    BY <2>5 DEF biscuitVars, InvokeRejects, InvokeStarts, IdentityChecks, IdentityRuns,
       InvokeFails, PyInvokeRaises, PyInvokeStarts, HookEnds, InvokeFinishes, PyInvokeFinishes,
       PyInvokeIsLost, PyDetachedEnds, SecretsStep, RefreshSecrets, SecretsLastSuccess,
       PyRefreshSecrets, PySecretsLastSuccess
  <2>6. CASE UNCHANGED hostVars
    BY <2>6, NoHandlerKeeps DEF hostVars, biscuitVars
  <2>7. QED
    BY <2>1, <2>2, <2>3, <2>4, <2>5, <2>6, NoHandlerKeeps DEF HostNext
<1>2. QED
  BY <1>1, BiscuitStarts, PTL DEF HostSpec, HostInit

\* A credential a host was handed is unusable past the expiry it was told.
THEOREM HostNoUsePastExpiry == HostSpec => []UnusablePastExpiry
  BY HostBiscuitInvariant, MintedIsBounded, PTL

\* A credential a host was handed is narrower than the token the call resolved.
THEOREM HostDelegationNarrows == HostSpec => []OnlyNarrows
  BY HostBiscuitInvariant, MintedIsNarrower, PTL

-----------------------------------------------------------------------------
(* Setting up: the proofs                                                  *)

\* Only RC_OK tells a Go caller that there was no error.
LEMMA Codes ==
    /\ ErrorFromRC("RC_OK") = "nil"
    /\ ErrorFromRC("RC_INVALID_INPUT") # "nil"
    /\ ErrorFromRC("RC_PIPELINE_ERROR") # "nil"
    /\ ErrorFromRC("RC_PANIC") # "nil"
  BY DEF ErrorFromRC

\* A number of worker threads is never zero, and the first one stays.
LEMMA RuntimeIsReal ==
    ASSUME SharedRuntime
    PROVE  runtime' # Unset /\ (runtime # Unset => runtime' = runtime)
  BY DEF SharedRuntime, ParseWorkerThreads, DefaultThreads, Unset

\* install_builtins adds one visitor and touches no transport.
LEMMA BuiltinsInstalled ==
    ASSUME NEW e \in Engines
    PROVE  LET f == InstallBuiltins(e) IN
           /\ f \in Engines /\ f.visitors = e.visitors + 1 /\ f.factories
           /\ f.transport = e.transport /\ f.secrets = e.secrets
<1> DEFINE g == AppendVisitor(e)
<1>1. /\ g \in Engines /\ g.visitors = e.visitors + 1
      /\ g.transport = e.transport /\ g.secrets = e.secrets
  BY DEF AppendVisitor, Engines
<1> HIDE DEF g
<1>2. LET f == [g EXCEPT !.factories = TRUE] IN
      /\ f \in Engines /\ f.visitors = g.visitors /\ f.factories
      /\ f.transport = g.transport /\ f.secrets = g.secrets
  BY <1>1 DEF Engines
<1>3. QED
  BY <1>1, <1>2 DEF InstallBuiltins, g

\* install_host_defaults on a bare engine adds one visitor.
LEMMA DefaultsInstalled ==
    ASSUME NEW e \in Engines, NEW private \in BOOLEAN
    PROVE  LET f == InstallHostDefaults(e, private) IN
           f \in Engines /\ f.visitors = e.visitors + 1
<1> DEFINE k == TransportKind(private)
           e1 == InstallBuiltins(e)
           e2 == SetHttpTransport(e1, k)
<1>1. k \in Kinds
  BY DEF TransportKind, Kinds
<1>2. e1 \in Engines /\ e1.visitors = e.visitors + 1
  BY BuiltinsInstalled
<1> HIDE DEF k, e1
<1>3. e2 \in Engines /\ e2.visitors = e1.visitors
  BY <1>1, <1>2 DEF SetHttpTransport, Engines
<1> HIDE DEF e2
<1>4. /\ SetSecretProviders(e2, k) \in Engines
      /\ SetSecretProviders(e2, k).visitors = e2.visitors
  BY <1>1, <1>3 DEF SetSecretProviders, Engines
<1>5. InstallHostDefaults(e, private) = SetSecretProviders(e2, k)
  BY DEF InstallHostDefaults, e1, e2, k
<1>6. QED
  BY <1>2, <1>3, <1>4, <1>5

\* What a step of thread t does to the bookkeeping of calls: the other threads
\* are where they were, and t got the answer of an op, or nothing yet.
Moves(t, op) ==
    /\ binding' = binding
    /\ DOMAIN pc' = Threads /\ DOMAIN arg' = Threads /\ DOMAIN got' = Threads
    /\ \A u \in Threads \ {t} : pc'[u] = pc[u] /\ arg'[u] = arg[u] /\ got'[u] = got[u]
    /\ got'[t] = got[t] \/ got'[t].op \in {op, "none"}

\* The four ways a step moves a thread: a call begins,
LEMMA CallsMoves ==
    ASSUME SetupTypes, NEW t \in Threads, NEW next, NEW a, NEW op, Calls(t, next, a)
    PROVE  /\ Moves(t, op) /\ pc[t] = "idle"
           /\ pc'[t] = next /\ arg'[t] = a /\ got'[t].op = "none"
  BY DEF SetupTypes, Calls, Moves, Nothing, Returned

\* a call returns at once,
LEMMA CallReturnsMoves ==
    ASSUME SetupTypes, NEW t \in Threads, NEW op, NEW err, CallReturns(t, op, err)
    PROVE  /\ Moves(t, op) /\ pc[t] = "idle"
           /\ pc'[t] = "idle" /\ arg'[t] = arg[t] /\ got'[t].op = op /\ got'[t].err = err
  BY DEF SetupTypes, CallReturns, Moves, Returned

\* a call goes on,
LEMMA GotoMoves ==
    ASSUME SetupTypes, NEW t \in Threads, NEW next, NEW op, Goto(t, next)
    PROVE  Moves(t, op) /\ pc'[t] = next /\ arg'[t] = arg[t] /\ got'[t] = got[t]
  BY DEF SetupTypes, Goto, Moves

\* and a call returns its code.
LEMMA ReturnMoves ==
    ASSUME SetupTypes, NEW t \in Threads, NEW op, NEW rc, Return(t, op, rc)
    PROVE  /\ Moves(t, op) /\ pc'[t] = "idle" /\ arg'[t] = NoArg
           /\ got'[t].op = op /\ got'[t].err = ErrorFromRC(rc)
           /\ got'[t].workers = arg[t].workers
  BY DEF SetupTypes, Return, Moves, Returned

\* A step that installs nothing and configures nothing.
Apart(t) ==
    /\ UNCHANGED <<install, lock, expose>>
    /\ pc[t] \notin SetupPoints /\ pc'[t] \notin SetupPoints

\* A step that leaves the runtime and the engine alone as well is no concern of
\* setting up: every step of a hook call is one.
LEMMA ApartKeeps ==
    ASSUME SetupInv, NEW t \in Threads, NEW op, op \notin {"configure", "install"},
           Moves(t, op), Apart(t), UNCHANGED <<runtime, engine, handle>>
    PROVE  SetupInv'
<1>1. SetupTypes'
  BY DEF SetupInv, SetupTypes, Moves, Apart
<1>2. RuntimeKept'
  BY DEF SetupInv, RuntimeKept, Moves, Apart, SetupPoints
<1>3. InstallLocked'
  BY DEF SetupInv, SetupTypes, InstallLocked, InstalledSoFar, Bare, Whole, Moves, Apart, SetupPoints, Inside
<1>4. QED
  BY <1>1, <1>2, <1>3 DEF SetupInv


\* Every step of setting up keeps the invariant.
LEMMA SetupStepKeeps ==
    ASSUME SetupInv, NEW t \in Threads, SetupStep(t)
    PROVE  SetupInv'
<1> USE DEF SetupInv
<1>1. ASSUME ConfigureRejects(t) PROVE SetupInv'
  <2>1. CallReturns(t, "configure", ErrorFromRC("RC_INVALID_INPUT"))
        /\ UNCHANGED <<runtime, handle, install, lock, expose, engine>>
    BY <1>1 DEF ConfigureRejects
  <2>2. /\ Moves(t, "configure") /\ pc[t] = "idle" /\ pc'[t] = "idle"
        /\ got'[t].op = "configure" /\ got'[t].err # "nil"
    BY <2>1, CallReturnsMoves, Codes
  <2>3. SetupTypes'
    BY <2>1, <2>2 DEF SetupTypes, Moves
  <2>4. RuntimeKept'
    BY <2>1, <2>2 DEF RuntimeKept, Moves
  <2>5. InstallLocked'
    BY <2>1, <2>2 DEF SetupTypes, InstallLocked, InstalledSoFar, Moves, SetupPoints, Inside
  <2>6. QED
    BY <2>3, <2>4, <2>5
<1>2. ASSUME ConfigureBuilds(t) PROVE SetupInv'
  <2>1. PICK n \in WorkerCounts : n > 0 /\ Calls(t, "configuring", [NoArg EXCEPT !.workers = n])
    BY <1>2 DEF ConfigureBuilds
  <2>2. UNCHANGED <<runtime, handle, install, lock, expose, engine>> /\ binding = "go"
    BY <1>2 DEF ConfigureBuilds
  <2> DEFINE a == [NoArg EXCEPT !.workers = n]
  <2>3. n # Unset /\ a.workers = n /\ Calls(t, "configuring", a)
    BY <2>1, BoundsAssumption DEF Unset, NoArg
  <2> HIDE DEF a
  <2>4. /\ Moves(t, "configure") /\ pc[t] = "idle" /\ pc'[t] = "configuring"
        /\ arg'[t].workers # Unset /\ got'[t].op = "none"
    BY <2>3, CallsMoves
  <2>5. SetupTypes'
    BY <2>2, <2>4 DEF SetupTypes, Moves
  <2>6. RuntimeKept'
    BY <2>2, <2>4 DEF RuntimeKept, Moves
  <2>7. InstallLocked'
    BY <2>2, <2>4 DEF SetupTypes, InstallLocked, InstalledSoFar, Moves, SetupPoints, Inside
  <2>8. QED
    BY <2>5, <2>6, <2>7
<1>3. ASSUME ConfigureFails(t) \/ ConfigureSets(t) PROVE SetupInv'
  <2>1. /\ UNCHANGED <<handle, install, lock, expose, engine>>
        /\ pc[t] = "configuring" /\ pc'[t] = "idle" /\ Moves(t, "configure")
        /\ got'[t].op = "configure" /\ got'[t].workers = arg[t].workers
        /\ got'[t].err = "nil" => runtime = Unset /\ runtime' = arg[t].workers
        /\ runtime # Unset => runtime' = runtime
    <3>1. CASE ConfigureFails(t)
      BY <3>1, ReturnMoves, Codes DEF ConfigureFails
    <3>2. CASE ConfigureSets(t)
      BY <3>2, ReturnMoves, Codes DEF ConfigureSets
    <3>3. QED
      BY <1>3, <3>1, <3>2
  <2>2. SetupTypes'
    BY <2>1 DEF SetupTypes, Moves
  <2>3. RuntimeKept'
    BY <2>1 DEF RuntimeKept, Moves
  <2>4. InstallLocked'
    BY <2>1 DEF SetupTypes, InstallLocked, InstalledSoFar, Moves, SetupPoints, Inside
  <2>5. QED
    BY <2>2, <2>3, <2>4
<1>4. ASSUME EngineNewDefault(t) \/ EngineNew(t) \/ PyNew(t) PROVE SetupInv'
  <2>1. /\ UNCHANGED <<install, lock, expose>> /\ ~handle /\ handle' \in BOOLEAN
        /\ pc[t] = "idle" /\ pc'[t] = "idle" /\ Moves(t, "new")
        /\ runtime # Unset => runtime' = runtime
    <3>1. CASE EngineNewDefault(t)
      BY <3>1, CallReturnsMoves, RuntimeIsReal DEF EngineNewDefault
    <3>2. CASE EngineNew(t)
      <4>1. \E err : CallReturns(t, "new", err)
        BY <3>2 DEF EngineNew
      <4>2. QED
        BY <3>2, <4>1, CallReturnsMoves, RuntimeIsReal DEF EngineNew, SetupTypes
    <3>3. CASE PyNew(t)
      <4>1. \E err : CallReturns(t, "new", err)
        BY <3>3 DEF PyNew
      <4>2. QED
        BY <3>3, <4>1, CallReturnsMoves DEF PyNew, SetupTypes
    <3>4. QED
      BY <1>4, <3>1, <3>2, <3>3
  <2>2. \/ engine' = engine /\ binding = "go"
        \/ engine' = [engine EXCEPT !.host = TRUE] /\ binding = "go"
        \/ binding = "python" /\ UNCHANGED <<handle, engine>>
        \/ /\ binding = "python" /\ handle' = TRUE
           /\ \E private \in BOOLEAN : engine' = InstallHostDefaults(engine, private)
    BY <1>4 DEF EngineNewDefault, EngineNew, PyNew
  <2>3. /\ engine' \in Engines
        /\ engine'.visitors <= 1
        /\ binding = "go" =>
             /\ engine'.visitors = engine.visitors /\ engine'.factories = engine.factories
             /\ engine'.transport = engine.transport /\ engine'.secrets = engine.secrets
        /\ binding = "python" /\ ~handle' => engine' = engine
    <3>1. CASE engine' = engine
      BY <3>1 DEF SetupTypes, InstallLocked
    <3>2. CASE engine' = [engine EXCEPT !.host = TRUE] /\ binding = "go"
      BY <3>2 DEF SetupTypes, Engines, InstallLocked
    <3>3. ASSUME NEW private \in BOOLEAN, engine' = InstallHostDefaults(engine, private),
                 binding = "python", handle' = TRUE
          PROVE <2>3!1 /\ <2>3!2
      BY <3>3, <2>1, DefaultsInstalled DEF SetupTypes, InstallLocked, Bare, Engines
    <3>4. QED
      BY <2>2, <3>1, <3>2, <3>3
  <2>4. SetupTypes'
    BY <2>1, <2>3 DEF SetupTypes, Moves
  <2>5. RuntimeKept'
    BY <2>1 DEF RuntimeKept, Moves
  <2>6. InstallLocked'
    BY <2>1, <2>3 DEF SetupTypes, InstallLocked, InstalledSoFar, Bare, Whole, Moves, SetupPoints, Inside
  <2>7. QED
    BY <2>4, <2>5, <2>6
<1>5. ASSUME InstallRejects(t) PROVE SetupInv'
  <2>1. /\ CallReturns(t, "install", ErrorFromRC("RC_INVALID_INPUT"))
        /\ UNCHANGED <<runtime, handle, install, lock, expose, engine>>
    BY <1>5 DEF InstallRejects
  <2>2. /\ Moves(t, "install") /\ pc[t] = "idle" /\ pc'[t] = "idle"
        /\ got'[t].op = "install" /\ got'[t].err # "nil"
    BY <2>1, CallReturnsMoves, Codes
  <2>3. SetupTypes' /\ RuntimeKept'
    BY <2>1, <2>2 DEF SetupTypes, RuntimeKept, Moves
  <2>4. InstallLocked'
    BY <2>1, <2>2 DEF SetupTypes, InstallLocked, InstalledSoFar, Moves, SetupPoints, Inside
  <2>5. QED
    BY <2>3, <2>4
<1>6. ASSUME InstallCalled(t) PROVE SetupInv'
  <2>1. PICK flags \in SUBSET KnownFlags : Calls(t, "locking", [NoArg EXCEPT !.flags = flags])
    BY <1>6 DEF InstallCalled
  <2>2. UNCHANGED <<runtime, handle, install, lock, expose, engine>> /\ binding = "go"
    BY <1>6 DEF InstallCalled
  <2>3. /\ Moves(t, "install") /\ pc[t] = "idle" /\ pc'[t] = "locking" /\ got'[t].op = "none"
    BY <2>1, CallsMoves
  <2>4. SetupTypes' /\ RuntimeKept'
    BY <2>2, <2>3 DEF SetupTypes, RuntimeKept, Moves
  <2>5. InstallLocked'
    BY <2>2, <2>3 DEF SetupTypes, InstallLocked, InstalledSoFar, Moves, SetupPoints, Inside
  <2>6. QED
    BY <2>4, <2>5
<1>7. ASSUME InstallLocks(t) PROVE SetupInv'
  <2>1. /\ UNCHANGED <<runtime, handle, install, expose, engine>> /\ lock = NoThread
        /\ pc[t] = "locking" /\ Moves(t, "install") /\ binding = "go"
    BY <1>7, GotoMoves, ReturnMoves DEF InstallLocks, InstallLocked, SetupPoints, SetupTypes
  <2>2. \/ /\ install = "NotInstalled" /\ lock' = t /\ pc'[t] = "builtins" /\ got'[t] = got[t]
        \/ /\ install # "NotInstalled" /\ lock' = NoThread /\ pc'[t] = "idle"
           /\ got'[t].op = "install" /\ (got'[t].err = "nil" => install = "Installed")
    <3>1. CASE install = "NotInstalled"
      BY <1>7, <3>1, GotoMoves DEF InstallLocks
    <3>2. CASE install = "Installed"
      BY <1>7, <3>2, ReturnMoves DEF InstallLocks
    <3>3. CASE install = "Failed"
      BY <1>7, <3>3, ReturnMoves, Codes DEF InstallLocks
    <3>4. QED
      BY <3>1, <3>2, <3>3 DEF SetupTypes
  <2>3. SetupTypes' /\ RuntimeKept'
    BY <2>1, <2>2 DEF SetupTypes, RuntimeKept, Moves
  <2>4. InstallLocked'
    BY <2>1, <2>2, BoundsAssumption
       DEF SetupTypes, InstallLocked, InstalledSoFar, Bare, Whole, Moves, SetupPoints, Inside
  <2>5. QED
    BY <2>3, <2>4
<1>8. ASSUME InstallSteps(t) PROVE SetupInv'
  <2>1. /\ UNCHANGED <<runtime, handle, install, lock, expose>> /\ lock = t
        /\ pc[t] \in Inside /\ binding = "go" /\ install = "NotInstalled"
        /\ Moves(t, "install") /\ arg'[t] = arg[t] /\ got'[t] = got[t]
    <3>1. pc[t] \in {"builtins", "transport", "providers"} /\ \E next : Goto(t, next)
      BY <1>8 DEF InstallSteps
    <3>2. lock = t /\ binding = "go" /\ install = "NotInstalled"
      BY <3>1, BoundsAssumption DEF InstallLocked, Inside, SetupPoints, SetupTypes
    <3>3. QED
      BY <1>8, <3>1, <3>2, GotoMoves DEF InstallSteps, Inside
  <2>2. /\ engine' \in Engines
        /\ engine'.visitors <= 1
        /\ pc'[t] \in Inside
        /\ InstalledSoFar(t)'
    <3>1. CASE pc[t] = "builtins"
      <4>1. pc'[t] = "transport" /\ engine' = InstallBuiltins(engine) /\ Bare(engine)
        BY <1>8, <3>1, GotoMoves DEF InstallSteps, InstallLocked, InstalledSoFar
      <4>2. QED
        BY <4>1, BuiltinsInstalled DEF SetupTypes, Bare, InstalledSoFar, Inside
    <3>2. CASE pc[t] = "transport"
      <4>1. /\ pc'[t] = "providers"
            /\ engine' = SetHttpTransport(engine, TransportKind("private" \in arg[t].flags))
            /\ engine.factories /\ engine.visitors = 1
            /\ engine.transport = "none" /\ engine.secrets = "none"
        BY <1>8, <3>2, GotoMoves DEF InstallSteps, InstallLocked, InstalledSoFar
      <4>2. TransportKind("private" \in arg[t].flags) \in Kinds
        BY DEF TransportKind, Kinds
      <4>3. arg'[t] = arg[t]
        BY <2>1
      <4>4. QED
        BY <4>1, <4>2, <4>3 DEF SetupTypes, Engines, SetHttpTransport, InstalledSoFar, Inside
    <3>3. CASE pc[t] = "providers"
      <4>1. /\ pc'[t] = "installed"
            /\ engine' = SetSecretProviders(engine, TransportKind("private" \in arg[t].flags))
            /\ engine.factories /\ engine.visitors = 1 /\ engine.secrets = "none"
            /\ engine.transport = TransportKind("private" \in arg[t].flags)
        BY <1>8, <3>3, GotoMoves DEF InstallSteps, InstallLocked, InstalledSoFar
      <4>2. TransportKind("private" \in arg[t].flags) \in Kinds \ {"none"}
        BY DEF TransportKind, Kinds
      <4>3. QED
        BY <4>1, <4>2 DEF SetupTypes, Engines, SetSecretProviders, InstalledSoFar, Inside, Whole
    <3>4. QED
      BY <1>8, <3>1, <3>2, <3>3 DEF InstallSteps
  <2>3. SetupTypes' /\ RuntimeKept'
    BY <2>1, <2>2 DEF SetupTypes, RuntimeKept, Moves, Inside
  <2>4. \A u \in Threads : InstalledSoFar(u)'
    BY <2>1, <2>2 DEF InstallLocked, InstalledSoFar, Moves, Inside
  <2>5. InstallLocked'
    BY <2>1, <2>2, <2>4, BoundsAssumption DEF SetupTypes, InstallLocked, Moves, SetupPoints, Inside
  <2>6. QED
    BY <2>3, <2>5
<1>9. ASSUME InstallPanics(t) \/ InstallFinishes(t) PROVE SetupInv'
  <2>1. /\ pc[t] \in Inside /\ lock = t /\ binding = "go" /\ ~expose
        /\ UNCHANGED <<runtime, handle, engine>> /\ lock' = NoThread
        /\ Moves(t, "install") /\ pc'[t] = "idle" /\ got'[t].op = "install"
    <3>1. pc[t] \in Inside
      BY <1>9 DEF InstallPanics, InstallFinishes, Inside
    <3>2. lock = t /\ binding = "go" /\ ~expose
      BY <3>1, BoundsAssumption DEF InstallLocked, SetupPoints, SetupTypes
    <3>3. QED
      BY <1>9, <3>1, <3>2, ReturnMoves DEF InstallPanics, InstallFinishes
  <2>2. \/ install' = "Failed" /\ expose' = expose /\ got'[t].err # "nil"
        \/ install' = "Installed" /\ expose' \in BOOLEAN /\ pc[t] = "installed"
    <3>1. CASE InstallPanics(t)
      BY <3>1, ReturnMoves, Codes DEF InstallPanics
    <3>2. CASE InstallFinishes(t)
      <4>1. ("expose" \in arg[t].flags) \in BOOLEAN
        OBVIOUS
      <4>2. QED
        BY <3>2, <4>1, Zenon DEF InstallFinishes
    <3>3. QED
      BY <1>9, <3>1, <3>2
  <2>3. SetupTypes' /\ RuntimeKept'
    BY <2>1, <2>2 DEF SetupTypes, RuntimeKept, Moves
  <2>4. InstallLocked'
    BY <2>1, <2>2, BoundsAssumption
       DEF SetupTypes, InstallLocked, InstalledSoFar, Bare, Whole, Moves, SetupPoints, Inside
  <2>5. QED
    BY <2>3, <2>4
<1>10. ASSUME LoadConfig(t) PROVE SetupInv'
  <2>1. \E err : CallReturns(t, "load", err)
    BY <1>10 DEF LoadConfig
  <2>2. /\ Moves(t, "load") /\ pc[t] = "idle" /\ pc'[t] = "idle"
    BY <2>1, CallReturnsMoves
  <2>3. UNCHANGED <<runtime, handle, install, lock, expose, engine>>
    BY <1>10 DEF LoadConfig
  <2>4. QED
    BY <2>2, <2>3, ApartKeeps DEF Apart, SetupPoints, Inside
<1>11. QED
  BY <1>1, <1>2, <1>3, <1>4, <1>5, <1>6, <1>7, <1>8, <1>9, <1>10 DEF SetupStep

-----------------------------------------------------------------------------
(* One hook call: the proofs                                               *)

\* A step that no call in the pipeline notices.
Unnoticed ==
    /\ UNCHANGED <<binding, job, inv, result>>
    /\ expose => expose'
    /\ \A u \in Threads :
          pc'[u] = pc[u] \/ (pc[u] \notin CallPoints /\ pc'[u] \notin CallPoints)

\* Such a step breaks no promise of a call.
LEMMA UnnoticedKeeps == ASSUME CallInv, Unnoticed PROVE CallInv'
<1> SUFFICES ASSUME NEW u \in Threads PROVE CallOK(u)' /\ ResultOK(u)'
  BY DEF CallInv, Unnoticed
<1>1. CallOK(u) /\ ResultOK(u)
  BY DEF CallInv
<1>2. CallOK(u)'
  <2>1. CASE pc'[u] = pc[u]
    BY <1>1, <2>1 DEF Unnoticed, CallOK, TokensTraced, GivesBack, IsPayload, ComesBackAs
  <2>2. CASE pc'[u] \notin CallPoints
    BY <2>2 DEF CallOK
  <2>3. QED
    BY <2>1, <2>2 DEF Unnoticed
<1>3. ResultOK(u)'
  BY <1>1 DEF Unnoticed, ResultOK, ReturnsOK, ReadsAs, ComesBackAs
<1>4. QED
  BY <1>2, <1>3

\* The steps of setting up are such steps: the credentials a host once opted
\* in to stay exposed, since nothing is installed twice.
LEMMA SetupIsUnnoticed ==
    ASSUME SetupInv, NEW t \in Threads, SetupStep(t), UNCHANGED <<biscuitVars, inv, result>>
    PROVE  Unnoticed
<1> USE DEF SetupInv
<1>1. expose => expose'
  <2>1. ASSUME InstallFinishes(t) PROVE ~expose
    BY <2>1, BoundsAssumption DEF InstallFinishes, InstallLocked, Inside, SetupTypes
  <2>2. CASE InstallFinishes(t)
    BY <2>1, <2>2
  <2>3. ASSUME ~InstallFinishes(t) PROVE expose' = expose
    BY <2>3 DEF SetupStep, ConfigureRejects, ConfigureBuilds, ConfigureFails, ConfigureSets,
         EngineNewDefault, EngineNew, PyNew, InstallRejects, InstallCalled, InstallLocks,
         InstallSteps, InstallPanics, LoadConfig
  <2>4. QED
    BY <2>2, <2>3
<1>2. pc[t] \notin CallPoints
  BY DEF SetupStep, ConfigureRejects, ConfigureBuilds, ConfigureFails, ConfigureSets,
         EngineNewDefault, EngineNew, PyNew, InstallRejects, InstallCalled, InstallLocks,
         InstallSteps, InstallPanics, InstallFinishes, LoadConfig, Calls, CallReturns,
         CallPoints, InPipeline
<1>3. binding' = binding
  BY DEF SetupStep, ConfigureRejects, ConfigureBuilds, ConfigureFails, ConfigureSets,
         EngineNewDefault, EngineNew, PyNew, InstallRejects, InstallCalled, InstallLocks,
         InstallSteps, InstallPanics, InstallFinishes, LoadConfig, Calls, CallReturns,
         Goto, Return
<1>4. pc' = pc \/ \E next \in {"idle", "configuring", "locking", "builtins", "transport",
                             "providers", "installed"} : pc' = [pc EXCEPT ![t] = next]
  BY DEF SetupStep, ConfigureRejects, ConfigureBuilds, ConfigureFails, ConfigureSets,
         EngineNewDefault, EngineNew, PyNew, InstallRejects, InstallCalled, InstallLocks,
         InstallSteps, InstallPanics, InstallFinishes, LoadConfig, Calls, CallReturns,
         Goto, Return
<1>5. \A u \in Threads :
         pc'[u] = pc[u] \/ (pc[u] \notin CallPoints /\ pc'[u] \notin CallPoints)
  BY <1>2, <1>4 DEF SetupTypes, CallPoints, InPipeline
<1>6. QED
  BY <1>1, <1>3, <1>5 DEF Unnoticed, biscuitVars


\* What every step of a call by t leaves alone.
Others(t) ==
    /\ UNCHANGED <<binding, runtime, handle, install, lock, expose, engine>>
    /\ DOMAIN inv' = Threads /\ DOMAIN result' = Threads /\ DOMAIN job' = Threads
    /\ \A u \in Threads \ {t} : inv'[u] = inv[u] /\ result'[u] = result[u] /\ job'[u] = job[u]

\* So only t's own part of the invariants is to be looked at.
LEMMA OneCall ==
    ASSUME SetupInv, CallInv, NEW t \in Threads, NEW op, op \notin {"configure", "install"},
           Moves(t, op), pc[t] \notin SetupPoints, pc'[t] \notin SetupPoints, Others(t),
           CallOK(t)', ResultOK(t)'
    PROVE  SetupInv' /\ CallInv'
<1>1. SetupInv'
  BY ApartKeeps DEF Apart, Others
<1>2. ASSUME NEW u \in Threads \ {t} PROVE CallOK(u)' /\ ResultOK(u)'
  <2>1. CallOK(u) /\ ResultOK(u)
    BY DEF CallInv
  <2>2. /\ pc'[u] = pc[u] /\ inv'[u] = inv[u] /\ result'[u] = result[u] /\ job'[u] = job[u]
        /\ binding' = binding /\ expose' = expose
    BY DEF Moves, Others
  <2>3. CallOK(u)'
    BY <2>1, <2>2 DEF CallOK, TokensTraced, GivesBack, IsPayload, ComesBackAs
  <2>4. ResultOK(u)'
    BY <2>1, <2>2 DEF ResultOK, ReturnsOK, ReadsAs, ComesBackAs
  <2>5. QED
    BY <2>3, <2>4
<1>3. CallInv'
  BY <1>2 DEF CallInv, Others
<1>4. QED
  BY <1>1, <1>3

\* A call that is over, or that never entered the pipeline, promises nothing
\* but its result.
LEMMA NoCallOK ==
    ASSUME NEW t \in Threads, pc'[t] \notin CallPoints, result'[t].stage # "result"
    PROVE  CallOK(t)' /\ ResultOK(t)'
  BY DEF CallOK, ResultOK

\* An answer goes to the thread that called.
LEMMA AnswersOne ==
    ASSUME CallInv, NEW t \in Threads, NEW r, Answers(t, r), UNCHANGED <<inv, job>>,
           UNCHANGED <<runtime, handle, install, lock, expose, engine>>, UNCHANGED binding
    PROVE  Others(t) /\ result'[t] = r
  BY DEF CallInv, Answers, Others

\* The calls that answer in one step: refused invokes, and the two queries of
\* secrets in either binding.
LEMMA QuickCallsKeep ==
    ASSUME SetupInv, CallInv, NEW t \in Threads,
           InvokeRejects(t) \/ PyInvokeRaises(t) \/ SecretsStep(t)
    PROVE  SetupInv' /\ CallInv'
<1>1. ASSUME NEW op \in {"invoke", "refresh", "last_success"}, NEW r, r.stage # "result",
             Moves(t, op), pc[t] = "idle", pc'[t] \in {"idle", "detached"}, Answers(t, r),
             UNCHANGED <<runtime, handle, install, lock, expose, engine, inv, job>>
      PROVE  SetupInv' /\ CallInv'
  <2>1. Others(t) /\ result'[t] = r
    BY <1>1, AnswersOne DEF Moves
  <2>2. CallOK(t)' /\ ResultOK(t)'
    BY <1>1, <2>1, NoCallOK DEF CallPoints, InPipeline
  <2>3. QED
    BY <1>1, <2>1, <2>2, OneCall DEF SetupPoints, Inside
<1>2. SetupTypes /\ NoResult.stage # "result"
  BY DEF SetupInv, NoResult
<1>3. ASSUME NEW report PROVE Reported(report).stage # "result"
  BY DEF Reported
<1>4. ASSUME NEW last PROVE Stamped(last).stage # "result"
  BY DEF Stamped
<1>5. CASE InvokeRejects(t)
  BY <1>1, <1>2, <1>5, CallReturnsMoves DEF InvokeRejects
<1>6. CASE PyInvokeRaises(t)
  BY <1>1, <1>2, <1>6, CallReturnsMoves DEF PyInvokeRaises
<1>7. CASE RefreshSecrets(t)
  BY <1>1, <1>2, <1>3, <1>7, CallReturnsMoves DEF RefreshSecrets
<1>8. CASE SecretsLastSuccess(t)
  BY <1>1, <1>2, <1>4, <1>8, CallReturnsMoves DEF SecretsLastSuccess
<1>9. CASE PySecretsLastSuccess(t)
  BY <1>1, <1>2, <1>4, <1>9, CallReturnsMoves DEF PySecretsLastSuccess
<1>10. CASE PyRefreshSecrets(t)
  <2>1. CASE \E err : CallReturns(t, "refresh", err)
    BY <1>1, <1>2, <1>3, <1>10, <2>1, CallReturnsMoves DEF PyRefreshSecrets
  <2>2. CASE ~\E err : CallReturns(t, "refresh", err)
    <3>1. /\ pc[t] = "idle" /\ pc' = [pc EXCEPT ![t] = "detached"]
          /\ got' = [got EXCEPT ![t] = Returned("refresh", "TimeoutError", 0)]
          /\ Answers(t, NoResult) /\ UNCHANGED <<binding, arg>>
          /\ UNCHANGED <<runtime, handle, install, lock, expose, engine, inv, job>>
      BY <1>10, <2>2 DEF PyRefreshSecrets
    <3>2. Moves(t, "refresh") /\ pc'[t] = "detached"
      BY <3>1, <1>2 DEF SetupTypes, Moves, Returned
    <3>3. QED
      BY <1>1, <1>2, <3>1, <3>2
  <2>3. QED
    BY <2>1, <2>2
<1>11. QED
  BY <1>5, <1>6, <1>7, <1>8, <1>9, <1>10 DEF SecretsStep


\* What a payload record holds; it is never taken for the absence of one.
LEMMA PayloadFields ==
    ASSUME NEW type, NEW dict, NEW leaf, NEW headers
    PROVE  LET p == Payload(type, dict, leaf, headers) IN
           /\ p.type = type /\ p.dict = dict /\ p.leaf = leaf /\ p.headers = headers
           /\ IsPayload(p) /\ p # NoResult /\ p # Raises
<1> DEFINE p == Payload(type, dict, leaf, headers)
<1>1. p.type = type /\ p.dict = dict /\ p.leaf = leaf /\ p.headers = headers
  BY DEF Payload
<1>2. IsPayload(p)
  BY <1>1 DEF Payload, IsPayload
<1>3. DOMAIN p # DOMAIN NoResult /\ DOMAIN p # DOMAIN Raises
  BY DEF Payload, NoResult, Raises
<1>4. QED
  BY <1>1, <1>2, <1>3

\* The token bytes of a host's own extensions are blank.
LEMMA CallerExtensionsBlank ==
    ASSUME NEW x
    PROVE  LET e == CallerExtensions(x) IN
           e.token = NoToken /\ ~e.modified /\ e.modified \in BOOLEAN /\ e.delegated \subseteq {Blank}
<1> DEFINE s == IF x = "absent" THEN "none" ELSE "claimed"
           d == IF x = "echoed" THEN {Blank} ELSE {}
<1>1. d \subseteq {Blank}
  OBVIOUS
<1> HIDE DEF d
<1>2. CallerExtensions(x) = Ext(s, NoToken, d, FALSE)
  BY DEF CallerExtensions, d
<1>3. QED
  BY <1>1, <1>2 DEF Ext

\* json_value_to_pyobj undoes pyobj_to_json_value on what the latter accepts.
LEMMA RoundTrip ==
    ASSUME NEW leaf \in Leaves, LeafToJson(leaf) \notin Exceptions
    PROVE  /\ LeafToJson(leaf) \in JsonLeaves
           /\ JsonValueToPyobj(LeafToJson(leaf)) = leaf
<1>1. CASE leaf = "none"
  BY <1>1 DEF LeafToJson, JsonValueToPyobj, JsonLeaves
<1>2. CASE leaf = "bool"
  BY <1>2 DEF LeafToJson, JsonValueToPyobj, JsonLeaves
<1>3. CASE leaf = "int"
  BY <1>3 DEF LeafToJson, JsonValueToPyobj, JsonLeaves
<1>4. CASE leaf = "float"
  BY <1>4 DEF LeafToJson, JsonValueToPyobj, JsonLeaves
<1>5. CASE leaf = "str"
  BY <1>5 DEF LeafToJson, JsonValueToPyobj, JsonLeaves
<1>6. CASE leaf \in {"bigint", "nan", "object"}
  BY <1>6 DEF LeafToJson, Exceptions
<1>7. QED
  BY <1>1, <1>2, <1>3, <1>4, <1>5, <1>6 DEF Leaves

\* And pyobj_to_json_value undoes it on what a plugin may leave, but for the
\* integers above i64, which come back as floats.
LEMMA ReadsBack ==
    ASSUME NEW json \in JsonLeaves \cup {"u64"}
    PROVE  /\ JsonValueToPyobj(json) \in Leaves
           /\ LeafToJson(JsonValueToPyobj(json)) = IF json = "u64" THEN "f64" ELSE json
<1>1. CASE json = "null"
  BY <1>1 DEF LeafToJson, JsonValueToPyobj, Leaves
<1>2. CASE json = "bool"
  BY <1>2 DEF LeafToJson, JsonValueToPyobj, Leaves
<1>3. CASE json = "i64"
  BY <1>3 DEF LeafToJson, JsonValueToPyobj, Leaves
<1>4. CASE json = "f64"
  BY <1>4 DEF LeafToJson, JsonValueToPyobj, Leaves
<1>5. CASE json = "string"
  BY <1>5 DEF LeafToJson, JsonValueToPyobj, Leaves
<1>6. CASE json = "u64"
  BY <1>6 DEF LeafToJson, JsonValueToPyobj, Leaves
<1>7. QED
  BY <1>1, <1>2, <1>3, <1>4, <1>5, <1>6 DEF JsonLeaves

\* A fresh call holds no token, and its payload is the host's own.
LEMMA FreshCall ==
    ASSUME NEW t \in Threads, NEW r, NEW p, NEW sent, NEW x,
           inv'[t] = Call(r, p, sent, CallerExtensions(x)),
           pc'[t] \in {"running", "checking"}, result'[t] = NoResult,
           binding' = "python" => p.leaf \in JsonLeaves \cup {"u64"},
           IsPayload(p), GivesBack(t)'
    PROVE  CallOK(t)' /\ ResultOK(t)'
<1>1. result'[t].stage = "none"
  BY DEF NoResult
<1> DEFINE e == CallerExtensions(x)
<1>2. /\ inv'[t].ext = e /\ inv'[t].payload = p /\ inv'[t].claims = e.subject
      /\ inv'[t].identity = Unresolved /\ inv'[t].bearer = r.bearer
  BY DEF Call
<1>3. e.token = NoToken /\ ~e.modified /\ e.modified \in BOOLEAN /\ e.delegated \subseteq {Blank}
  BY CallerExtensionsBlank
<1> HIDE DEF e
<1>4. Unresolved.allowed /\ Unresolved.token = NoToken /\ Unresolved.subject = "none"
  BY DEF Unresolved, Identity
<1>5. TokensTraced(t)'
  BY <1>2, <1>3 DEF TokensTraced, Blank
<1>6. IdentityOver(inv'[t])
  BY <1>2, <1>3, <1>4 DEF IdentityOver
<1>7. CallOK(t)'
  BY <1>1, <1>2, <1>5, <1>6 DEF CallOK, IsPayload
<1>8. QED
  BY <1>1, <1>7 DEF ResultOK

\* cpex_invoke and cpex_invoke_resolved begin.
LEMMA InvokeStartsKeeps ==
    ASSUME SetupInv, CallInv, NEW t \in Threads, InvokeStarts(t)
    PROVE  SetupInv' /\ CallInv'
<1>1. PICK r \in GoRequests :
        /\ GoValidate(r) = "RC_OK"
        /\ Calls(t, IF r.ident = "absent" THEN "running" ELSE "checking", NoArg)
        /\ inv' = [inv EXCEPT ![t] =
              Call(r, Payload(r.type, TRUE, RmpToValue(r.body), r.type = "identity"), r.body,
                   CallerExtensions(r.ext))]
  BY DEF InvokeStarts
<1>2. /\ binding = "go" /\ Answers(t, NoResult)
      /\ UNCHANGED <<runtime, handle, install, lock, expose, engine, job>>
  BY DEF InvokeStarts
<1> DEFINE next == IF r.ident = "absent" THEN "running" ELSE "checking"
           p == Payload(r.type, TRUE, RmpToValue(r.body), r.type = "identity")
<1>3. /\ Moves(t, "invoke") /\ pc[t] = "idle" /\ pc'[t] = next
  BY <1>1, CallsMoves DEF SetupInv
<1>4. r.type \in PayloadTypes
  BY <1>1 DEF GoValidate
<1>5. IsPayload(p) /\ p.type \in PayloadTypes /\ p.leaf = RmpToValue(r.body)
  <2>1. p.type = r.type /\ p.leaf = RmpToValue(r.body)
    BY DEF Payload
  <2>2. IsPayload(p)
    BY PayloadFields
  <2>3. QED
    BY <1>4, <2>1, <2>2
<1>6. /\ inv'[t] = Call(r, p, r.body, CallerExtensions(r.ext))
      /\ result'[t] = NoResult /\ Others(t)
  BY <1>1, <1>2, <1>3 DEF CallInv, Answers, Others, Moves
<1> HIDE DEF p
<1>7. inv'[t].payload = p /\ inv'[t].sent = r.body
  BY <1>6 DEF Call
<1>8. pc'[t] \in {"running", "checking"} /\ binding' = "go"
  BY <1>2, <1>3 DEF Moves
<1>9. GivesBack(t)'
  BY <1>5, <1>7, <1>8 DEF GivesBack, ComesBackAs, RmpToValue, PayloadTypes
<1>10. CallOK(t)' /\ ResultOK(t)'
  BY <1>5, <1>6, <1>8, <1>9, FreshCall
<1>11. QED
  BY <1>3, <1>6, <1>8, <1>10, OneCall DEF SetupPoints, Inside

\* invoke_hook of the wheel begins.
LEMMA PyInvokeStartsKeeps ==
    ASSUME SetupInv, CallInv, NEW t \in Threads, PyInvokeStarts(t)
    PROVE  SetupInv' /\ CallInv'
<1>1. PICK r \in PyRequests :
        /\ PyValidate(r) = "nil" /\ Calls(t, "running", NoArg)
        /\ inv' = [inv EXCEPT ![t] =
              Call(NoIdentity,
                   Payload(TypeOfHook(r.hook),
                           r.value.dict \/ TypeOfHook(r.hook) # "generic",
                           PyobjToJsonValue(r.value), r.hook = "identity.resolve"),
                   r.value.leaf, CallerExtensions(r.ext))]
  BY DEF PyInvokeStarts
<1>2. /\ binding = "python" /\ Answers(t, NoResult)
      /\ UNCHANGED <<runtime, handle, install, lock, expose, engine, job>>
  BY DEF PyInvokeStarts
<1> DEFINE dict == r.value.dict \/ TypeOfHook(r.hook) # "generic"
           p == Payload(TypeOfHook(r.hook), dict, PyobjToJsonValue(r.value),
                        r.hook = "identity.resolve")
<1>3. Moves(t, "invoke") /\ pc[t] = "idle" /\ pc'[t] = "running"
  BY <1>1, CallsMoves DEF SetupInv
<1>4. PyobjToJsonValue(r.value) \notin Exceptions
  BY <1>1 DEF PyValidate, Exceptions
<1>5. PyobjToJsonValue(r.value) = LeafToJson(r.value.leaf)
  BY <1>4 DEF PyobjToJsonValue, Exceptions
<1>6. /\ PyobjToJsonValue(r.value) \in JsonLeaves
      /\ JsonValueToPyobj(PyobjToJsonValue(r.value)) = r.value.leaf
  BY <1>4, <1>5, RoundTrip, RequestsAssumption
<1>7. TypeOfHook(r.hook) \in PayloadTypes
  BY DEF TypeOfHook, PayloadTypes
<1>8. IsPayload(p) /\ p.type \in PayloadTypes /\ p.leaf = PyobjToJsonValue(r.value)
  BY <1>7, PayloadFields
<1>9. /\ inv'[t] = Call(NoIdentity, p, r.value.leaf, CallerExtensions(r.ext))
      /\ result'[t] = NoResult /\ Others(t)
  BY <1>1, <1>2, <1>3 DEF CallInv, Answers, Others, Moves
<1> HIDE DEF p
<1>10. inv'[t].payload = p /\ inv'[t].sent = r.value.leaf /\ binding' = "python"
  BY <1>2, <1>3, <1>9 DEF Call, Moves
<1>11. GivesBack(t)'
  BY <1>6, <1>8, <1>10 DEF GivesBack, JsonValueToPyobj
<1>12. CallOK(t)' /\ ResultOK(t)'
  BY <1>3, <1>6, <1>8, <1>9, <1>11, FreshCall
<1>13. QED
  BY <1>3, <1>9, <1>12, OneCall DEF SetupPoints, Inside


\* A call that ends without a result leaves none behind.
LEMMA LeavesKeeps ==
    ASSUME SetupInv, CallInv, NEW t \in Threads, pc[t] \in CallPoints, Moves(t, "invoke"),
           pc'[t] \in {"idle", "detached"}, Others(t), result'[t] = result[t]
    PROVE  SetupInv' /\ CallInv'
<1>1. result'[t].stage # "result" /\ pc'[t] \notin CallPoints
  BY DEF CallInv, CallOK, CallPoints, InPipeline
<1>2. CallOK(t)' /\ ResultOK(t)'
  BY <1>1, NoCallOK
<1>3. pc[t] \notin SetupPoints /\ pc'[t] \notin SetupPoints
  BY DEF SetupPoints, Inside, CallPoints, InPipeline
<1>4. QED
  BY <1>2, <1>3, OneCall

\* A call that fails with a return code.
LEMMA InvokeFailsKeeps ==
    ASSUME SetupInv, CallInv, NEW t \in Threads, NEW rc, pc[t] \in CallPoints, InvokeFails(t, rc)
    PROVE  SetupInv' /\ CallInv'
<1>1. Moves(t, "invoke") /\ pc'[t] = "idle"
  BY ReturnMoves DEF InvokeFails, SetupInv
<1>2. Others(t) /\ result'[t] = result[t]
  BY <1>1 DEF InvokeFails, Others, CallInv, Moves
<1>3. QED
  BY <1>1, <1>2, LeavesKeeps

\* Where the payload, the leaf sent and the bearer of a call stay as they were.
SameCall(t) ==
    /\ inv'[t].payload = inv[t].payload /\ inv'[t].sent = inv[t].sent
    /\ inv'[t].bearer = inv[t].bearer

\* The identity is resolved, or the call goes on without one.
LEMMA ResolvesKeeps ==
    ASSUME SetupInv, CallInv, NEW t \in Threads, pc[t] \in {"checking", "resolving"},
           pc'[t] \in {"resolving", "running"}, Moves(t, "invoke"), Others(t),
           result'[t] = result[t], job'[t] = job[t], SameCall(t),
           inv'[t].ext.delegated = inv[t].ext.delegated,
           inv'[t].ext.modified = inv[t].ext.modified,
           IdentityOver(inv'[t]),
           pc'[t] = "resolving" => inv'[t].identity = Unresolved
    PROVE  SetupInv' /\ CallInv'
<1> DEFINE e == inv[t].ext  f == inv'[t].ext
<1>1. CallOK(t) /\ ResultOK(t)
  BY DEF CallInv
<1>2. e.modified \in BOOLEAN /\ ~e.modified /\ e.delegated \subseteq {Blank}
  BY <1>1 DEF CallOK, CallPoints, TokensTraced
<1>3. /\ f.token \in {NoToken, inv'[t].bearer}
      /\ f.modified \in BOOLEAN /\ ~f.modified /\ f.delegated \subseteq {Blank}
  BY <1>2 DEF IdentityOver
<1>4. TokensTraced(t)'
  BY <1>3 DEF TokensTraced
<1>5. /\ IsPayload(inv'[t].payload) /\ result'[t].stage = "none"
      /\ binding' = "python" => inv'[t].payload.leaf \in JsonLeaves \cup {"u64"}
  BY <1>1 DEF CallOK, CallPoints, SameCall, Others
<1>6. GivesBack(t)'
  BY <1>1 DEF CallOK, CallPoints, SameCall, GivesBack, Others, ComesBackAs
<1>7. CallOK(t)'
  BY <1>4, <1>5, <1>6 DEF CallOK, InPipeline, IsPayload
<1>8. ResultOK(t)'
  BY <1>5 DEF ResultOK
<1>9. QED
  BY <1>7, <1>8, OneCall DEF SetupPoints, Inside

\* has_hooks_for, and the validation of the identity payload.
LEMMA IdentityChecksKeeps ==
    ASSUME SetupInv, CallInv, NEW t \in Threads, IdentityChecks(t)
    PROVE  SetupInv' /\ CallInv'
<1>1. pc[t] = "checking"
  BY DEF IdentityChecks
<1>2. IdentityOver(inv[t]) /\ inv[t].identity = Unresolved
  BY <1>1 DEF CallInv, CallOK, CallPoints
<1>3. CASE /\ Goto(t, "running")
           /\ UNCHANGED <<runtime, handle, install, lock, expose, engine, job, inv, result>>
  <2>1. Moves(t, "invoke") /\ pc'[t] = "running"
    BY <1>3, GotoMoves DEF SetupInv
  <2>2. Others(t) /\ SameCall(t) /\ inv'[t] = inv[t]
    BY <1>3, <2>1 DEF Others, CallInv, Moves, SameCall
  <2>3. QED
    BY <1>1, <1>2, <1>3, <2>1, <2>2, ResolvesKeeps
<1>4. CASE /\ Goto(t, "resolving") /\ inv' = [inv EXCEPT ![t] = OnWith(inv[t], TRUE, Unresolved, inv[t].ext)]
           /\ UNCHANGED <<runtime, handle, install, lock, expose, engine, job, result>>
  <2>1. Moves(t, "invoke") /\ pc'[t] = "resolving"
    BY <1>4, GotoMoves DEF SetupInv
  <2>2. inv'[t] = OnWith(inv[t], TRUE, Unresolved, inv[t].ext)
    BY <1>4 DEF CallInv
  <2>3. /\ inv'[t].payload = inv[t].payload /\ inv'[t].sent = inv[t].sent
        /\ inv'[t].bearer = inv[t].bearer /\ inv'[t].ext = inv[t].ext
        /\ inv'[t].identity = inv[t].identity /\ inv'[t].claims = inv[t].claims
    BY <1>2, <2>2 DEF OnWith
  <2>4. Others(t) /\ SameCall(t)
    BY <1>4, <2>1, <2>3 DEF Others, CallInv, Moves, SameCall
  <2>5. IdentityOver(inv'[t])
    BY <1>2, <2>3 DEF IdentityOver
  <2>6. QED
    BY <1>1, <1>2, <1>4, <2>1, <2>3, <2>4, <2>5, ResolvesKeeps
<1>5. ASSUME NEW rc, InvokeFails(t, rc) PROVE SetupInv' /\ CallInv'
  BY <1>1, <1>5, InvokeFailsKeeps DEF CallPoints
<1>6. QED
  BY <1>3, <1>4, <1>5 DEF IdentityChecks

\* A denial carries no credentials and no payload.
LEMMA DeniedOK ==
    ASSUME NEW t \in Threads, pc'[t] \notin CallPoints, result'[t] = Denied
    PROVE  CallOK(t)' /\ ResultOK(t)'
<1>1. /\ result'[t].credentials = {} /\ ~result'[t].continue /\ result'[t].payload = NoResult
  BY DEF Denied
<1>2. QED
  BY <1>1 DEF CallOK, ResultOK

\* identity.resolve runs, denies, times out or is gone.
LEMMA IdentityRunsKeeps ==
    ASSUME SetupInv, CallInv, NEW t \in Threads, IdentityRuns(t)
    PROVE  SetupInv' /\ CallInv'
<1> DEFINE i == inv[t]
<1>1. pc[t] = "resolving"
  BY DEF IdentityRuns
<1>2. /\ IdentityOver(i) /\ i.identity = Unresolved
  BY <1>1 DEF CallInv, CallOK, CallPoints
<1>3. ASSUME NEW identity \in Identities(i.bearer) \cup {Unresolved}, identity.allowed,
             Goto(t, "running"),
             inv' = [inv EXCEPT ![t] =
                 OnWith(inv[t], TRUE, identity, ApplyToExtensions(identity, inv[t].ext))],
             UNCHANGED <<runtime, handle, install, lock, expose, engine, job, result>>
      PROVE  SetupInv' /\ CallInv'
  <2> DEFINE f == ApplyToExtensions(identity, i.ext)
  <2>1. Moves(t, "invoke") /\ pc'[t] = "running"
    BY <1>3, GotoMoves DEF SetupInv
  <2>2. inv'[t] = OnWith(i, TRUE, identity, f)
    BY <1>3 DEF CallInv
  <2>3. /\ inv'[t].payload = i.payload /\ inv'[t].sent = i.sent /\ inv'[t].bearer = i.bearer
        /\ inv'[t].ext = f /\ inv'[t].identity = identity /\ inv'[t].claims = i.claims
    BY <2>2 DEF OnWith
  <2>4. identity.token \in {NoToken, i.bearer}
    BY <1>3 DEF Identities, Unresolved, Identity
  <2>5. i.ext.subject = i.claims
    BY <1>2 DEF IdentityOver, Unresolved, Identity
  <2>6. /\ f.token = identity.token
        /\ f.subject = IF identity.subject = "none" THEN i.claims ELSE identity.subject
        /\ f.delegated = i.ext.delegated /\ f.modified = i.ext.modified
    BY <2>5 DEF ApplyToExtensions, Ext
  <2>7. IdentityOver(inv'[t])
    BY <1>3, <2>3, <2>4, <2>6 DEF IdentityOver
  <2>8. Others(t) /\ SameCall(t)
    BY <1>3, <2>1, <2>3 DEF Others, CallInv, Moves, SameCall
  <2>9. QED
    BY <1>1, <1>3, <2>1, <2>3, <2>6, <2>7, <2>8, ResolvesKeeps
<1>4. CASE /\ Return(t, "invoke", "RC_OK") /\ Answers(t, Denied)
           /\ inv' = [inv EXCEPT ![t] = NoCall]
           /\ UNCHANGED <<runtime, handle, install, lock, expose, engine, job>>
  <2>1. Moves(t, "invoke") /\ pc'[t] = "idle"
    BY <1>4, ReturnMoves DEF SetupInv
  <2>2. Others(t) /\ result'[t] = Denied
    BY <1>4, <2>1 DEF Others, CallInv, Moves, Answers
  <2>3. CallOK(t)' /\ ResultOK(t)'
    BY <2>1, <2>2, DeniedOK DEF CallPoints, InPipeline
  <2>4. QED
    BY <1>1, <2>1, <2>2, <2>3, OneCall DEF SetupPoints, Inside
<1>5. ASSUME NEW rc, InvokeFails(t, rc) PROVE SetupInv' /\ CallInv'
  BY <1>1, <1>5, InvokeFailsKeeps DEF CallPoints
<1>6. QED
  BY <1>3, <1>4, <1>5 DEF IdentityRuns

\* A step inside the pipeline that leaves the payload and the identity alone.
LEMMA PipelineKeeps ==
    ASSUME SetupInv, CallInv, NEW t \in Threads, pc[t] \in InPipeline \ {"finishing"},
           pc'[t] \in InPipeline \ {"finishing"}, Moves(t, "invoke"), Others(t),
           result'[t] = result[t], SameCall(t), inv'[t].identity = inv[t].identity,
           inv'[t].claims = inv[t].claims,
           inv'[t].ext.subject = inv[t].ext.subject, inv'[t].ext.token = inv[t].ext.token,
           TokensTraced(t)'
    PROVE  SetupInv' /\ CallInv'
<1>1. CallOK(t) /\ pc[t] \in CallPoints
  BY DEF CallInv, CallPoints
<1>2. /\ IsPayload(inv'[t].payload) /\ result'[t].stage = "none"
      /\ binding' = "python" => inv'[t].payload.leaf \in JsonLeaves \cup {"u64"}
  BY <1>1 DEF CallOK, SameCall, Others
<1>3. GivesBack(t)'
  BY <1>1 DEF CallOK, SameCall, GivesBack, Others, ComesBackAs
<1>4. IdentityOver(inv'[t])
  BY <1>1 DEF CallOK, SameCall, IdentityOver
<1>5. CallOK(t)'
  BY <1>2, <1>3, <1>4 DEF CallOK, IsPayload, InPipeline
<1>6. ResultOK(t)'
  BY <1>2 DEF ResultOK
<1>7. QED
  BY <1>5, <1>6, OneCall DEF SetupPoints, Inside, InPipeline

\* The handler is given the token of the extensions.
LEMMA DelegatesKeeps ==
    ASSUME SetupInv, CallInv, NEW t \in Threads, Delegates(t)
    PROVE  SetupInv' /\ CallInv'
<1>1. /\ pc[t] = "running"
      /\ UNCHANGED <<runtime, handle, install, lock, expose, engine, inv, result>>
  BY DEF Delegates
<1> DEFINE e == inv[t].ext
<1>2. /\ e.token \in {NoToken, inv[t].bearer}
      /\ e.modified \in BOOLEAN /\ ~e.modified /\ e.delegated \subseteq {Blank}
  BY <1>1 DEF CallInv, CallOK, CallPoints, InPipeline, TokensTraced
<1>3. ASSUME NEW p, NEW key, HandleDenies(t, inv[t].ext.token, p, key), Goto(t, "denying")
      PROVE  SetupInv' /\ CallInv'
  <2>1. PICK code : job' = [job EXCEPT ![t] = [stage |-> "denied", code |-> code]]
    BY <1>3 DEF HandleDenies, Deny
  <2>2. Moves(t, "invoke") /\ pc'[t] = "denying"
    BY <1>3, GotoMoves DEF SetupInv
  <2>3. Others(t) /\ SameCall(t) /\ inv'[t] = inv[t] /\ result'[t] = result[t]
    BY <1>1, <2>1, <2>2 DEF Others, CallInv, Moves, SameCall
  <2>4. TokensTraced(t)'
    BY <1>2, <2>2, <2>3 DEF TokensTraced
  <2>5. QED
    BY <1>1, <2>2, <2>3, <2>4, PipelineKeeps DEF InPipeline
<1>4. ASSUME NEW p, NEW key, HandleAppends(t, inv[t].ext.token, p, key), Goto(t, "delegating")
      PROVE  SetupInv' /\ CallInv'
  <2> DEFINE j == [stage |-> "handling", bearer |-> e.token, payload |-> p,
                   token |-> AppendBlock(e.token, DelegationBlock(p))]
  <2>1. job' = [job EXCEPT ![t] = j] /\ e.token # NoToken
    BY <1>4 DEF HandleAppends
  <2>2. Moves(t, "invoke") /\ pc'[t] = "delegating"
    BY <1>4, GotoMoves DEF SetupInv
  <2>3. j.stage = "handling" /\ j.bearer = e.token
    OBVIOUS
  <2> HIDE DEF j
  <2>4. /\ Others(t) /\ SameCall(t) /\ inv'[t] = inv[t] /\ result'[t] = result[t]
        /\ job'[t] = j
    BY <1>1, <2>1, <2>2 DEF Others, CallInv, Moves, SameCall
  <2>5. TokensTraced(t)'
    BY <1>2, <2>1, <2>2, <2>3, <2>4 DEF TokensTraced
  <2>6. QED
    BY <1>1, <2>2, <2>4, <2>5, PipelineKeeps DEF InPipeline
<1>5. QED
  BY <1>3, <1>4 DEF Delegates

\* The minted token joins the extensions, and is the only one with bytes.
LEMMA DelegateStepsKeeps ==
    ASSUME SetupInv, CallInv, NEW t \in Threads, DelegateSteps(t)
    PROVE  SetupInv' /\ CallInv'
<1>1. /\ pc[t] = "delegating"
      /\ UNCHANGED <<runtime, handle, install, lock, expose, engine, result>>
  BY DEF DelegateSteps
<1> DEFINE e == inv[t].ext  i == job[t]
<1>2. /\ e.token # NoToken /\ e.token = inv[t].bearer
      /\ e.modified \in BOOLEAN /\ ~e.modified /\ e.delegated \subseteq {Blank}
      /\ i.bearer = e.token
  BY <1>1 DEF CallInv, CallOK, CallPoints, InPipeline, TokensTraced
<1>3. CASE HandleMints(t) /\ Goto(t, "delegating") /\ UNCHANGED inv
  <2> DEFINE j == [stage |-> "minting", bearer |-> i.bearer, payload |-> i.payload,
                   token |-> i.token, scopes |-> Scopes(i.payload),
                   expires_at |-> clock + EffectiveTtlSeconds(i.payload)]
  <2>1. job' = [job EXCEPT ![t] = j]
    BY <1>3 DEF HandleMints, CallInv
  <2>2. Moves(t, "invoke") /\ pc'[t] = "delegating"
    BY <1>3, GotoMoves DEF SetupInv
  <2>3. j.stage = "minting" /\ j.bearer = i.bearer
    OBVIOUS
  <2> HIDE DEF j
  <2>4. /\ Others(t) /\ SameCall(t) /\ inv'[t] = inv[t] /\ result'[t] = result[t]
        /\ job'[t] = j
    BY <1>1, <1>3, <2>1, <2>2 DEF Others, CallInv, Moves, SameCall
  <2>5. TokensTraced(t)'
    BY <1>2, <2>2, <2>3, <2>4 DEF TokensTraced
  <2>6. QED
    BY <1>1, <2>2, <2>4, <2>5, PipelineKeeps DEF InPipeline
<1>4. CASE /\ HandleStamps(t) /\ Goto(t, "delegated")
           /\ inv' = [inv EXCEPT ![t] =
                 OnWith(inv[t], inv[t].asked, inv[t].identity,
                        WithDelegated(inv[t].ext, job[t].token))]
  <2> DEFINE j == [stage |-> "minted", bearer |-> i.bearer, payload |-> i.payload,
                   token |-> i.token, scopes |-> i.scopes,
                   expires_at |-> i.expires_at, minted_at |-> clock]
             f == WithDelegated(e, i.token)
  <2>1. job' = [job EXCEPT ![t] = j]
    BY <1>4 DEF HandleStamps, CallInv
  <2>2. Moves(t, "invoke") /\ pc'[t] = "delegated"
    BY <1>4, GotoMoves DEF SetupInv
  <2>3. j.stage = "minted" /\ j.bearer = i.bearer /\ j.token = i.token
    OBVIOUS
  <2>4. /\ f.subject = e.subject /\ f.token = e.token /\ f.modified = TRUE
        /\ f.delegated = e.delegated \cup {[bytes |-> i.token]}
    BY DEF WithDelegated, Ext
  <2>5. Others(t) /\ result'[t] = result[t] /\ job'[t] = j
    BY <1>1, <1>4, <2>1, <2>2 DEF Others, CallInv, Moves
  <2>6. inv'[t] = OnWith(inv[t], inv[t].asked, inv[t].identity, f)
    BY <1>4 DEF CallInv
  <2> HIDE DEF j, f
  <2>7. /\ SameCall(t) /\ inv'[t].ext = f /\ inv'[t].identity = inv[t].identity
        /\ inv'[t].claims = inv[t].claims
    BY <2>6 DEF SameCall, OnWith
  <2>8. TokensTraced(t)'
    BY <1>2, <2>2, <2>3, <2>4, <2>5, <2>7 DEF TokensTraced, SameCall
  <2>9. QED
    BY <1>1, <2>2, <2>4, <2>5, <2>7, <2>8, PipelineKeeps DEF InPipeline
<1>5. QED
  BY <1>3, <1>4 DEF DelegateSteps

\* The pipeline's last payload is a payload, whatever a plugin made of it.
LEMMA HookEndsKeeps ==
    ASSUME SetupInv, CallInv, NEW t \in Threads, HookEnds(t)
    PROVE  SetupInv' /\ CallInv'
<1>1. /\ pc[t] \in {"running", "delegated", "denying"} /\ Goto(t, "finishing")
      /\ UNCHANGED <<runtime, handle, install, lock, expose, engine, job, result>>
  BY DEF HookEnds
<1>2. PICK allow \in BOOLEAN, p \in Rewrites(inv[t].payload) :
        inv' = [inv EXCEPT ![t] = Ended(inv[t], allow, p)]
  BY DEF HookEnds
<1>3. CallOK(t)
  BY DEF CallInv
<1>4. /\ IsPayload(p)
      /\ binding = "python" => p.leaf \in JsonLeaves \cup {"u64"}
  <2> DEFINE o == inv[t].payload
  <2>1. /\ IsPayload(o)
        /\ binding = "python" => o.leaf \in JsonLeaves \cup {"u64"}
    BY <1>1, <1>3 DEF CallOK, CallPoints, InPipeline
  <2>2. p = o \/ \E type, dict, headers :
                   \E leaf \in {o.leaf, "u64"} : p = Payload(type, dict, leaf, headers)
    BY DEF Rewrites
  <2>3. CASE p = o
    BY <2>1, <2>3
  <2>4. ASSUME NEW type, NEW dict, NEW headers, NEW leaf \in {o.leaf, "u64"},
               p = Payload(type, dict, leaf, headers)
        PROVE  IsPayload(p) /\ p.leaf = leaf
    <3>1. p.leaf = leaf
      BY <2>4 DEF Payload
    <3>2. IsPayload(p)
      BY <2>4, PayloadFields
    <3>3. QED
      BY <3>1, <3>2
  <2>5. QED
    BY <2>1, <2>2, <2>3, <2>4
<1>5. Moves(t, "invoke") /\ pc'[t] = "finishing"
  BY <1>1, GotoMoves DEF SetupInv
<1>6. /\ Others(t) /\ result'[t] = result[t] /\ job'[t] = job[t]
      /\ inv'[t] = Ended(inv[t], allow, p)
  BY <1>1, <1>2, <1>5 DEF Others, CallInv, Moves
<1>7. /\ inv'[t].continue = allow /\ inv'[t].payload = p
      /\ inv'[t].sent = inv[t].sent /\ inv'[t].bearer = inv[t].bearer
      /\ inv'[t].identity = inv[t].identity /\ inv'[t].claims = inv[t].claims
      /\ inv'[t].ext = inv[t].ext
  BY <1>6 DEF Ended
<1>8. inv'[t].modified = (p # inv[t].payload)
  BY <1>6 DEF Ended
<1>9. inv'[t].modified \in BOOLEAN /\ (~inv'[t].modified => p = inv[t].payload)
  BY <1>8
<1>10. ~inv'[t].modified => GivesBack(t)'
  BY <1>1, <1>3, <1>6, <1>7, <1>9
     DEF CallOK, CallPoints, InPipeline, GivesBack, Others, ComesBackAs
<1>11. TokensTraced(t)'
  BY <1>1, <1>3, <1>5, <1>6, <1>7 DEF CallOK, CallPoints, InPipeline, TokensTraced
<1>12. result'[t].stage = "none" /\ IdentityOver(inv'[t])
  BY <1>1, <1>3, <1>6, <1>7 DEF CallOK, CallPoints, InPipeline, IdentityOver
<1>13. CallOK(t)'
  BY <1>4, <1>5, <1>6, <1>7, <1>9, <1>10, <1>11, <1>12 DEF CallOK, IsPayload, Others
<1>14. ResultOK(t)'
  BY <1>12 DEF ResultOK
<1>15. QED
  BY <1>1, <1>5, <1>6, <1>13, <1>14, OneCall DEF SetupPoints, Inside

\* A call that times out or panics takes its handler with it.
LEMMA HookIsLostKeeps ==
    ASSUME SetupInv, CallInv, NEW t \in Threads, HookIsLost(t)
    PROVE  SetupInv' /\ CallInv'
<1>1. /\ pc[t] \in {"running", "delegating"} /\ inv' = [inv EXCEPT ![t] = NoCall]
      /\ UNCHANGED <<runtime, handle, install, lock, expose, engine, result>>
  BY DEF HookIsLost
<1>2. job' = job \/ job' = [job EXCEPT ![t] = Idle]
  BY DEF HookIsLost, HandleIsDropped, biscuitVars
<1>3. PICK rc : Return(t, "invoke", rc)
  BY DEF HookIsLost
<1>4. Moves(t, "invoke") /\ pc'[t] = "idle"
  BY <1>3, ReturnMoves DEF SetupInv
<1>5. Others(t) /\ result'[t] = result[t]
  BY <1>1, <1>2, <1>4 DEF Others, CallInv, Moves
<1>6. QED
  BY <1>1, <1>4, <1>5, LeavesKeeps DEF CallPoints, InPipeline


\* What the boundary makes of the pipeline's payload: an allowed payload of a
\* known type comes back, without headers when it is an identity.
LEMMA FinishPayloadFields ==
    ASSUME NEW i, IsPayload(i.payload)
    PROVE  LET q == FinishPayload(i) IN
           /\ q = NoResult <=> ~(i.continue /\ Serializable(i.payload))
           /\ q # NoResult =>
                 /\ q # Raises
                 /\ q.type = i.payload.type /\ q.dict = i.payload.dict
                 /\ q.leaf = i.payload.leaf
                 /\ q.type = "identity" => ~q.headers
<1> DEFINE p == i.payload
           q == FinishPayload(i)
<1>1. CASE ~(i.continue /\ Serializable(p))
  BY <1>1 DEF FinishPayload
<1>2. CASE i.continue /\ Serializable(p) /\ p.type = "identity"
  <2>1. q = Payload(p.type, p.dict, p.leaf, FALSE)
    BY <1>2 DEF FinishPayload, SerializePayload, IdentityResultValue
  <2>2. q.type = p.type /\ q.dict = p.dict /\ q.leaf = p.leaf /\ ~q.headers
    BY <2>1 DEF Payload
  <2>3. DOMAIN q # DOMAIN NoResult /\ DOMAIN q # DOMAIN Raises
    BY <2>1 DEF Payload, NoResult, Raises
  <2>4. QED
    BY <1>2, <2>2, <2>3
<1>3. CASE i.continue /\ Serializable(p) /\ p.type # "identity"
  <2>1. q = p
    BY <1>3 DEF FinishPayload, SerializePayload
  <2>2. p = Payload(p.type, p.dict, p.leaf, p.headers)
    BY DEF IsPayload
  <2>3. p # NoResult /\ p # Raises
    BY <2>2, PayloadFields
  <2>4. QED
    BY <1>3, <2>1, <2>3
<1>4. QED
  BY <1>1, <1>2, <1>3

\* What the host is told of an allowed pipeline's payload is what it ended with.
LEMMA ReturnsPayload ==
    ASSUME CallInv, NEW t \in Threads, pc[t] = "finishing", NEW q, NEW r,
           inv[t].continue, binding \in {"go", "python"},
           binding = "go" => q = FinishPayload(inv[t]),
           binding = "python" => q = PyModifiedPayload(FinishPayload(inv[t])),
           r.payload = q, r.ended = inv[t].payload, r.modified = inv[t].modified,
           r.errors = FinishErrors(inv[t].payload), r.sent = inv[t].sent
    PROVE  /\ ReturnsOK(r)
           /\ q \notin {NoResult, Raises} /\ q.type = "identity" => ~q.headers
<1> DEFINE i == inv[t]  e == inv[t].payload  c == FinishPayload(inv[t])
<1>1. /\ IsPayload(e) /\ i.modified \in BOOLEAN
      /\ binding = "python" => e.leaf \in JsonLeaves \cup {"u64"}
      /\ ~i.modified => GivesBack(t)
  BY DEF CallInv, CallOK, CallPoints, InPipeline
<1>2. /\ c = NoResult <=> e.type \notin PayloadTypes
      /\ c # NoResult =>
            /\ c # Raises /\ c.type = e.type /\ c.dict = e.dict /\ c.leaf = e.leaf
            /\ c.type = "identity" => ~c.headers
  BY <1>1, FinishPayloadFields DEF Serializable
<1>3. FinishErrors(e) # {} <=> e.type \notin PayloadTypes
  BY DEF FinishErrors, Serializable
<1>4. ~i.modified => e.type \in PayloadTypes
  BY <1>1 DEF GivesBack
<1> HIDE DEF c
<1>5. CASE binding = "go"
  <2>1. q = c
    BY <1>5 DEF c
  <2>2. ~i.modified => ComesBackAs(e.leaf, i.sent)
    BY <1>1, <1>5 DEF GivesBack
  <2>3. NoResult # Raises /\ q # Raises
    BY <1>2, <2>1 DEF NoResult, Raises
  <2>4. q # NoResult => q.type = e.type /\ ReadsAs(q.leaf, e.leaf)
    BY <1>2, <1>5, <2>1 DEF ReadsAs
  <2>5. q # NoResult /\ ~i.modified => ComesBackAs(q.leaf, i.sent)
    BY <1>2, <2>1, <2>2
  <2>6. QED
    BY <1>2, <1>3, <1>4, <1>5, <2>1, <2>3, <2>4, <2>5 DEF ReturnsOK
<1>6. CASE binding = "python"
  <2>1. q = PyModifiedPayload(c)
    BY <1>6 DEF c
  <2>2. CASE c = NoResult
    <3>1. q = NoResult /\ NoResult # Raises
      BY <2>1, <2>2 DEF PyModifiedPayload, NoResult, Raises
    <3>2. QED
      BY <1>2, <1>3, <1>4, <2>2, <3>1 DEF ReturnsOK
  <2>3. CASE c # NoResult /\ ~c.dict
    <3>1. q = Raises /\ NoResult # Raises
      BY <2>1, <2>3 DEF PyModifiedPayload, NoResult, Raises
    <3>2. QED
      BY <1>2, <1>3, <1>4, <1>6, <2>3, <3>1 DEF ReturnsOK
  <2>4. CASE c # NoResult /\ c.dict
    <3>1. q = Payload(c.type, c.dict, JsonValueToPyobj(c.leaf), c.headers)
      BY <2>1, <2>4 DEF PyModifiedPayload
    <3>2. /\ q.type = e.type /\ q.leaf = JsonValueToPyobj(e.leaf) /\ q.headers = c.headers
          /\ q # NoResult /\ q # Raises
      <4>1. q.type = c.type /\ q.leaf = JsonValueToPyobj(c.leaf) /\ q.headers = c.headers
        BY <3>1 DEF Payload
      <4>2. q # NoResult /\ q # Raises
        BY <3>1, PayloadFields
      <4>3. QED
        BY <1>2, <2>4, <4>1, <4>2
    <3>3. ReadsAs(q.leaf, e.leaf)
      BY <1>1, <1>6, <3>2, ReadsBack DEF ReadsAs
    <3>4. ~i.modified => ComesBackAs(q.leaf, i.sent)
      BY <1>1, <1>6, <3>2 DEF GivesBack, ComesBackAs
    <3>5. QED
      BY <1>2, <1>3, <1>4, <1>6, <2>4, <3>2, <3>3, <3>4 DEF ReturnsOK, ReadsAs, ComesBackAs
  <2>5. QED
    BY <2>2, <2>3, <2>4
<1>7. QED
  BY <1>5, <1>6

\* A result reads the same as long as the binding does not change.
LEMMA Unread ==
    ASSUME NEW r, ReturnsOK(r), binding' = binding
    PROVE  ReturnsOK(r)'
  BY DEF ReturnsOK, ReadsAs, ComesBackAs

\* The answer of a finished pipeline keeps the promises.
LEMMA FinishedOK ==
    ASSUME CallInv, NEW t \in Threads, pc[t] = "finishing", pc'[t] \notin CallPoints,
           job'[t] = job[t], expose' = expose, binding \in {"go", "python"}, binding' = binding,
           NEW q, NEW credentials, NEW r, r = Result(inv[t], q, credentials), result'[t] = r,
           binding = "go" => q = FinishPayload(inv[t]),
           binding = "python" => q = PyModifiedPayload(FinishPayload(inv[t])),
           credentials \subseteq HostDelegatedCredentials(inv[t].ext, inv[t].continue)
    PROVE  CallOK(t)' /\ ResultOK(t)'
<1> DEFINE i == inv[t]
<1>1. /\ IsPayload(i.payload) /\ TokensTraced(t) /\ i.continue \in BOOLEAN
  BY DEF CallInv, CallOK, CallPoints, InPipeline
<1>2. /\ r.continue = i.continue /\ r.payload = q /\ r.ended = i.payload
      /\ r.modified = i.modified /\ r.sent = i.sent /\ r.bearer = i.bearer
      /\ r.errors = (IF i.continue THEN FinishErrors(i.payload) ELSE {})
      /\ r.credentials = credentials
  BY DEF Result
<1>3. ASSUME NEW tok \in credentials
      PROVE  /\ i.continue /\ expose
             /\ job[t].stage = "minted" /\ tok.bytes = job[t].token /\ job[t].bearer = i.bearer
  <2>1. /\ expose /\ i.continue /\ i.ext.modified /\ tok \in i.ext.delegated /\ tok # Blank
    BY DEF HostDelegatedCredentials
  <2>2. /\ job[t].stage = "minted" /\ job[t].bearer = i.ext.token /\ i.ext.token # NoToken
        /\ tok = [bytes |-> job[t].token] /\ i.ext.token \in {NoToken, i.bearer}
    BY <1>1, <2>1 DEF TokensTraced
  <2>3. QED
    BY <2>1, <2>2
<1>4. CASE i.continue
  <2>1. /\ ReturnsOK(r)
        /\ q \notin {NoResult, Raises} /\ q.type = "identity" => ~q.headers
    BY <1>2, <1>4, ReturnsPayload
  <2>2. ReturnsOK(r)'
    BY <2>1, Unread
  <2>3. QED
    BY <1>2, <1>3, <2>1, <2>2 DEF CallOK, ResultOK
<1>5. CASE ~i.continue
  <2>1. FinishPayload(i) = NoResult
    BY <1>5 DEF FinishPayload
  <2>2. q = NoResult
    BY <2>1 DEF PyModifiedPayload
  <2>3. QED
    BY <1>2, <1>3, <1>5, <2>2 DEF CallOK, ResultOK
<1>6. QED
  BY <1>1, <1>4, <1>5

\* finish_pipeline_result of the C interface.
LEMMA InvokeFinishesKeeps ==
    ASSUME SetupInv, CallInv, NEW t \in Threads, InvokeFinishes(t)
    PROVE  SetupInv' /\ CallInv'
<1>1. /\ binding = "go" /\ pc[t] = "finishing" /\ inv' = [inv EXCEPT ![t] = NoCall]
      /\ UNCHANGED <<runtime, handle, install, lock, expose, engine, job>>
  BY DEF InvokeFinishes
<1> DEFINE q == FinishPayload(inv[t])
           tokens == HostDelegatedCredentials(inv[t].ext, inv[t].continue)
<1>2. CASE Return(t, "invoke", "RC_OK") /\ Answers(t, Result(inv[t], q, tokens))
  <2>1. Moves(t, "invoke") /\ pc'[t] = "idle"
    BY <1>2, ReturnMoves DEF SetupInv
  <2>2. /\ Others(t) /\ result'[t] = Result(inv[t], q, tokens)
        /\ job'[t] = job[t] /\ expose' = expose /\ binding' = binding
    BY <1>1, <1>2, <2>1 DEF Others, CallInv, Moves, Answers
  <2>3. q = FinishPayload(inv[t])
        /\ tokens \subseteq HostDelegatedCredentials(inv[t].ext, inv[t].continue)
    OBVIOUS
  <2> HIDE DEF q, tokens
  <2>4. CallOK(t)' /\ ResultOK(t)'
    BY <1>1, <2>1, <2>2, <2>3, FinishedOK DEF CallPoints, InPipeline
  <2>5. QED
    BY <1>1, <2>1, <2>2, <2>4, OneCall DEF SetupPoints, Inside
<1>3. CASE Return(t, "invoke", "RC_SERIALIZE_ERROR") /\ UNCHANGED result
  <2>1. Moves(t, "invoke") /\ pc'[t] = "idle"
    BY <1>3, ReturnMoves DEF SetupInv
  <2>2. Others(t) /\ result'[t] = result[t]
    BY <1>1, <1>3, <2>1 DEF Others, CallInv, Moves
  <2>3. QED
    BY <1>1, <2>1, <2>2, LeavesKeeps DEF CallPoints, InPipeline
<1>4. QED
  BY <1>2, <1>3 DEF InvokeFinishes

\* A step of the wheel that returns to Python.
LEMMA PyReturnMoves ==
    ASSUME SetupTypes, NEW t \in Threads, NEW next, NEW err,
           pc' = [pc EXCEPT ![t] = next], got' = [got EXCEPT ![t] = Returned("invoke", err, 0)],
           UNCHANGED <<binding, arg>>
    PROVE  Moves(t, "invoke") /\ pc'[t] = next
  BY DEF SetupTypes, Moves, Returned

\* pipeline_result_to_py of the wheel.
LEMMA PyInvokeFinishesKeeps ==
    ASSUME SetupInv, CallInv, NEW t \in Threads, PyInvokeFinishes(t)
    PROVE  SetupInv' /\ CallInv'
<1>1. /\ binding = "python" /\ pc[t] = "finishing" /\ inv' = [inv EXCEPT ![t] = NoCall]
      /\ UNCHANGED <<binding, arg, runtime, handle, install, lock, expose, engine, job>>
  BY DEF PyInvokeFinishes
<1> DEFINE q == PyModifiedPayload(FinishPayload(inv[t]))
<1>2. CASE /\ pc' = [pc EXCEPT ![t] = "idle"]
           /\ got' = [got EXCEPT ![t] = Returned("invoke", "nil", 0)]
           /\ Answers(t, Result(inv[t], q, {}))
  <2>1. Moves(t, "invoke") /\ pc'[t] = "idle"
    BY <1>1, <1>2, PyReturnMoves DEF SetupInv
  <2>2. /\ Others(t) /\ result'[t] = Result(inv[t], q, {})
        /\ job'[t] = job[t] /\ expose' = expose
    BY <1>1, <1>2, <2>1 DEF Others, CallInv, Moves, Answers
  <2>3. q = PyModifiedPayload(FinishPayload(inv[t]))
    OBVIOUS
  <2> HIDE DEF q
  <2>4. CallOK(t)' /\ ResultOK(t)'
    BY <1>1, <2>1, <2>2, <2>3, FinishedOK DEF CallPoints, InPipeline
  <2>5. QED
    BY <1>1, <2>1, <2>2, <2>4, OneCall DEF SetupPoints, Inside
<1>3. CASE /\ pc' = [pc EXCEPT ![t] = "idle"]
           /\ got' = [got EXCEPT ![t] = Returned("invoke", "RuntimeError", 0)]
           /\ UNCHANGED result
  <2>1. Moves(t, "invoke") /\ pc'[t] = "idle"
    BY <1>1, <1>3, PyReturnMoves DEF SetupInv
  <2>2. Others(t) /\ result'[t] = result[t]
    BY <1>1, <1>3, <2>1 DEF Others, CallInv, Moves
  <2>3. QED
    BY <1>1, <2>1, <2>2, LeavesKeeps DEF CallPoints, InPipeline
<1>4. QED
  BY <1>2, <1>3 DEF PyInvokeFinishes

\* invoke_with_timeout gives up.
LEMMA PyInvokeIsLostKeeps ==
    ASSUME SetupInv, CallInv, NEW t \in Threads, PyInvokeIsLost(t)
    PROVE  SetupInv' /\ CallInv'
<1>1. /\ pc[t] = "running" /\ inv' = [inv EXCEPT ![t] = NoCall]
      /\ UNCHANGED <<binding, arg, runtime, handle, install, lock, expose, engine, job, result>>
  BY DEF PyInvokeIsLost
<1>2. Moves(t, "invoke") /\ pc'[t] \in {"idle", "detached"}
  BY <1>1, PyReturnMoves DEF PyInvokeIsLost, SetupInv
<1>3. Others(t) /\ result'[t] = result[t]
  BY <1>1, <1>2 DEF Others, CallInv, Moves
<1>4. QED
  BY <1>1, <1>2, <1>3, LeavesKeeps DEF CallPoints, InPipeline

\* A pipeline whose caller has gone ends without a trace.
LEMMA PyDetachedEndsKeeps ==
    ASSUME SetupInv, CallInv, NEW t \in Threads, PyDetachedEnds(t)
    PROVE  SetupInv' /\ CallInv'
<1>1. /\ pc[t] = "detached" /\ Goto(t, "idle")
      /\ UNCHANGED <<runtime, handle, install, lock, expose, engine, job, inv, result>>
  BY DEF PyDetachedEnds
<1>2. Moves(t, "invoke") /\ pc'[t] = "idle"
  BY <1>1, GotoMoves DEF SetupInv
<1>3. SetupInv'
  BY <1>1, <1>2, ApartKeeps DEF Apart, SetupPoints, Inside
<1>4. Unnoticed
  BY <1>1, <1>2 DEF Unnoticed, Moves, CallPoints, InPipeline
<1>5. QED
  BY <1>3, <1>4, UnnoticedKeeps

\* The inductive invariants hold in every reachable state of a host process,
\* whatever its threads do at the same time.
THEOREM HostInvariant == HostSpec => [](SetupInv /\ CallInv)
<1>1. HostInit => SetupInv /\ CallInv
  <2> SUFFICES ASSUME HostInit PROVE SetupInv /\ CallInv
    OBVIOUS
  <2> USE DEF HostInit, SetupInit
  <2>1. SetupTypes
    BY DEF SetupTypes, FreshEngine, Engines, Kinds
  <2>2. \A t \in Threads : pc[t] = "idle" /\ got[t] = Nothing
    OBVIOUS
  <2>3. Nothing.op = "none" /\ NoResult.stage = "none"
    BY DEF Nothing, Returned, NoResult
  <2>4. RuntimeKept
    BY <2>2, <2>3 DEF RuntimeKept
  <2>5. Bare(engine) /\ engine.visitors = 0
    BY DEF Bare, FreshEngine
  <2>6. InstallLocked
    BY <2>2, <2>3, <2>5, BoundsAssumption DEF InstallLocked, InstalledSoFar, Inside, SetupPoints
  <2>7. CallInv
    BY <2>2, <2>3 DEF CallInv, CallOK, ResultOK, CallPoints, InPipeline, BiscuitInit
  <2>8. QED
    BY <2>1, <2>4, <2>6, <2>7 DEF SetupInv
<1>2. SetupInv /\ CallInv /\ [HostNext]_hostVars => (SetupInv /\ CallInv)'
  <2> SUFFICES ASSUME SetupInv, CallInv, [HostNext]_hostVars PROVE SetupInv' /\ CallInv'
    OBVIOUS
  <2>1. CASE Tick /\ UNCHANGED <<setupVars, inv, result>>
    BY <2>1, UnnoticedKeeps DEF Tick, setupVars, Unnoticed, SetupInv, SetupTypes, RuntimeKept,
       InstallLocked, InstalledSoFar, Bare, Whole
  <2>2. CASE UNCHANGED hostVars
    BY <2>2, UnnoticedKeeps DEF hostVars, biscuitVars, setupVars, Unnoticed, SetupInv,
       SetupTypes, RuntimeKept, InstallLocked, InstalledSoFar, Bare, Whole
  <2>3. ASSUME NEW t \in Threads, SetupStep(t) /\ UNCHANGED <<biscuitVars, inv, result>>
        PROVE  SetupInv' /\ CallInv'
    BY <2>3, SetupStepKeeps, SetupIsUnnoticed, UnnoticedKeeps
  <2>4. ASSUME NEW t \in Threads,
               \/ InvokeRejects(t) \/ InvokeStarts(t) \/ IdentityChecks(t) \/ IdentityRuns(t)
               \/ PyInvokeRaises(t) \/ PyInvokeStarts(t) \/ SecretsStep(t)
        PROVE  SetupInv' /\ CallInv'
    BY <2>4, QuickCallsKeep, InvokeStartsKeeps, IdentityChecksKeeps, IdentityRunsKeeps,
       PyInvokeStartsKeeps
  <2>5. ASSUME NEW t \in Threads,
               \/ Delegates(t) \/ DelegateSteps(t) \/ HookEnds(t) \/ HookIsLost(t)
               \/ InvokeFinishes(t) \/ PyInvokeFinishes(t) \/ PyInvokeIsLost(t)
               \/ PyDetachedEnds(t)
        PROVE  SetupInv' /\ CallInv'
    BY <2>5, DelegatesKeeps, DelegateStepsKeeps, HookEndsKeeps, HookIsLostKeeps,
       InvokeFinishesKeeps, PyInvokeFinishesKeeps, PyInvokeIsLostKeeps, PyDetachedEndsKeeps
  <2>6. QED
    BY <2>1, <2>2, <2>3, <2>4, <2>5 DEF HostNext
<1>3. QED
  BY <1>1, <1>2, PTL DEF HostSpec

\* ConfigureRuntime that returned no error is the one the process runs with,
\* for any number of threads and any worker counts.
THEOREM ConfiguredRuntimeIsUsed == HostSpec => []ConfiguredMeansUsed
<1>1. SetupInv => ConfiguredMeansUsed
  BY DEF SetupInv, RuntimeKept, ConfiguredMeansUsed
<1>2. QED
  BY <1>1, HostInvariant, PTL

\* EnableAPL that returned no error has installed everything, once.
THEOREM InstallIsWhole == HostSpec => []InstalledOnceAndWhole
<1>1. SetupInv => InstalledOnceAndWhole
  BY DEF SetupInv, InstallLocked, Whole, InstalledOnceAndWhole
<1>2. QED
  BY <1>1, HostInvariant, PTL

\* A hook runs with what its own identity.resolve filled in over the caller's
\* extensions, whether or not the resolvers are still there when it runs, and
\* never after a denial.
THEOREM ResolvedIdentityReachesHook == HostSpec => []IdentityReachesHook
<1>1. CallInv => IdentityReachesHook
  BY DEF CallInv, CallOK, CallPoints, IdentityOver, IdentityReachesHook
<1>2. QED
  BY <1>1, HostInvariant, PTL

\* Token bytes leave Rust only as the credentials a call minted itself, on an
\* allowed result, for a host that opted in.
THEOREM TokensNeverLeak == HostSpec => []TokensStayInside
<1>1. CallInv => TokensStayInside
  BY DEF CallInv, ResultOK, TokensStayInside
<1>2. QED
  BY <1>1, HostInvariant, PTL

\* An allowed result carries its payload, changed or not, unless an error
\* record or an exception says that it does not.
THEOREM PayloadComesBack == HostSpec => []PayloadReturns
<1>1. CallInv => PayloadReturns
  BY DEF CallInv, ResultOK, ReturnsOK, PayloadReturns
<1>2. QED
  BY <1>1, HostInvariant, PTL


\* Delegation and the boundary together: what a credential in a result is
\* accepted for, the token its call resolved was accepted for, and never after
\* the expiry the host was told.
CredentialsNarrow ==
    \A t \in Threads : result[t].stage = "result" =>
       \A tok \in result[t].credentials, ops \in SUBSET Perms, s \in Times :
          Accepts(tok.bytes, ops, s) =>
             Accepts(result[t].bearer, ops, s) /\ s <= job[t].expires_at

\* It holds of every result of every host process.
THEOREM HandedOutCredentialsNarrow == HostSpec => []CredentialsNarrow
<1>1. TokensStayInside /\ UnusablePastExpiry /\ OnlyNarrows => CredentialsNarrow
  <2> SUFFICES ASSUME TokensStayInside, UnusablePastExpiry, OnlyNarrows,
                      NEW t \in Threads, result[t].stage = "result",
                      NEW tok \in result[t].credentials, NEW ops \in SUBSET Perms,
                      NEW s \in Times, Accepts(tok.bytes, ops, s)
               PROVE  Accepts(result[t].bearer, ops, s) /\ s <= job[t].expires_at
    BY DEF CredentialsNarrow
  <2>1. /\ job[t].stage = "minted" /\ tok.bytes = job[t].token
        /\ job[t].bearer = result[t].bearer
    BY DEF TokensStayInside
  <2>2. t \in Minted /\ Accepts(job[t].token, ops, s)
    BY <2>1 DEF Minted
  <2>3. Accepts(job[t].bearer, ops, s)
    BY <2>2 DEF OnlyNarrows
  <2>4. s <= job[t].expires_at
    BY <2>2 DEF UnusablePastExpiry
  <2>5. QED
    BY <2>1, <2>3, <2>4
<1>2. QED
  BY <1>1, TokensNeverLeak, HostNoUsePastExpiry, HostDelegationNarrows, PTL
=============================================================================
