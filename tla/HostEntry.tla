------------------------------ MODULE HostEntry ------------------------------
(***************************************************************************)
(* One hook call as a host makes it: cpex_invoke and cpex_invoke_resolved  *)
(* of the C interface, invoke_hook of the Python wheel, and what the host  *)
(* gets back.  Composed with EngineSetup, whose loads and installs run     *)
(* beside the call, and with the biscuit delegator a hook may run.         *)
(*                                                                         *)
(* The ownership of handles and tables is GoEngine's; the terminal check   *)
(* of the wheel and its shutdown are PyLifecycle's.  The engine's pipeline *)
(* is external: it may allow, deny, replace the payload, and run delegate. *)
(***************************************************************************)
EXTENDS EngineSetup, Secrets

CONSTANTS
    GoRequests,  \* the calls a Go host makes
    PyRequests,  \* the calls a Python host makes
    MaxDepth,    \* nesting pyobj_to_json_value accepts: 128
    Reports      \* what the engine's refresh_secrets may report

\* The Python types a payload's leaf may have, as pyobj_to_json_value tells
\* them apart.
Leaves == {"none", "bool", "int", "float", "str", "bigint", "nan", "object"}
ASSUME RequestsAssumption == \A r \in PyRequests : r.value.leaf \in Leaves

VARIABLES
    inv,     \* the call each thread is in, and what it has seen
    result   \* what its last call returned

hostVars == <<setupVars, biscuitVars, inv, result>>

\* cpex::host::REMOVED_HOOKS: a name removed in 0.3 and its replacement.
RemovedHooks ==
    {<<"tool_pre_invoke", "cmf.tool_pre_invoke">>, <<"tool_post_invoke", "cmf.tool_post_invoke">>,
     <<"prompt_pre_fetch", "cmf.prompt_pre_invoke">>,
     <<"cmf.prompt_pre_fetch", "cmf.prompt_pre_invoke">>,
     <<"prompt_post_fetch", "cmf.prompt_post_invoke">>,
     <<"cmf.prompt_post_fetch", "cmf.prompt_post_invoke">>,
     <<"resource_pre_fetch", "cmf.resource_pre_fetch">>,
     <<"resource_post_fetch", "cmf.resource_post_fetch">>,
     <<"identity_resolve", "identity.resolve">>, <<"token_delegate", "token.delegate">>,
     <<"cmf.http_request", "http.request">>, <<"cmf.http_response", "http.response">>}

IsRemoved(hook) == \E entry \in RemovedHooks : entry[1] = hook

\* Extensions as the engine holds them.  Token bytes are never serialized, so
\* what a host sends has none, and a delegated token it echoes comes blank.
Blank == [bytes |-> NoToken]
Ext(subject, token, delegated, modified) ==
    [subject |-> subject, token |-> token, delegated |-> delegated, modified |-> modified]
CallerExtensions(ext) ==
    Ext(IF ext = "absent" THEN "none" ELSE "claimed", NoToken,
        IF ext = "echoed" THEN {Blank} ELSE {}, FALSE)

\* A payload is told apart by its type, whether it is a map, one leaf of it,
\* and whether it holds the headers of the request.
Payload(type, dict, leaf, headers) ==
    [type |-> type, dict |-> dict, leaf |-> leaf, headers |-> headers]

\* What identity.resolve came back with: whether it allowed, and what its
\* resolvers filled in.  A route whose list of resolvers is empty, one whose
\* errors are ignored, and an engine that has lost its resolvers since
\* fill in nothing.
Identity(allowed, subject, token) == [allowed |-> allowed, subject |-> subject, token |-> token]
Unresolved == Identity(TRUE, "none", NoToken)
Identities(bearer) ==
    {Identity(allowed, subject, token) :
         allowed \in BOOLEAN, subject \in {"none", "resolved"}, token \in {NoToken, bearer}}

\* A call on its way through the pipeline.  `sent` is the leaf and `claims` the
\* subject the host passed; `asked` is set once identity.resolve is to run.
Call(r, payload, sent, ext) ==
    [stage |-> "called", ident |-> r.ident, bearer |-> r.bearer, sent |-> sent,
     payload |-> payload, ext |-> ext, claims |-> ext.subject, asked |-> FALSE,
     identity |-> Unresolved]

\* The same call, further on.
OnWith(i, asked, identity, ext) ==
    [stage |-> "called", ident |-> i.ident, bearer |-> i.bearer, sent |-> i.sent,
     payload |-> i.payload, ext |-> ext, claims |-> i.claims, asked |-> asked,
     identity |-> identity]

NoCall == [stage |-> "none"]
NoResult == [stage |-> "none"]

Answers(t, r) == result' = [result EXCEPT ![t] = r]

-----------------------------------------------------------------------------
(* cpex_invoke and cpex_invoke_resolved: the input *)

PayloadTypes == {"generic", "message", "identity"}

\* resolved_identity_fields: a payload that fills in what resolvers fill in.
Forges(type, body) == type = "identity" /\ body = "forged"

\* The checks before anything runs, in their order.
GoValidate(r) ==
    IF IsRemoved(r.hook) THEN "RC_INVALID_INPUT"
    ELSE IF r.type \notin PayloadTypes \/ r.body = "bad" THEN "RC_PARSE_ERROR"
    ELSE IF r.hook = "identity.resolve" /\ Forges(r.type, r.body) THEN "RC_INVALID_INPUT"
    ELSE IF r.ext = "bad" THEN "RC_PARSE_ERROR"
    ELSE "RC_OK"

InvokeRejects(t) ==
    /\ binding = "go" /\ handle
    /\ \E r \in GoRequests :
         /\ GoValidate(r) # "RC_OK"
         /\ CallReturns(t, "invoke", ErrorFromRC(GoValidate(r)))
    /\ Answers(t, NoResult)
    /\ UNCHANGED <<runtime, handle, install, lock, expose, engine, snapshot, clock, job, inv>>

\* serde_json::Value has no NaN and no infinities: from_slice reads them as null.
RmpToValue(leaf) == IF leaf = "nan" THEN "null" ELSE leaf

InvokeStarts(t) ==
    /\ binding = "go" /\ handle
    /\ \E r \in GoRequests :
         /\ GoValidate(r) = "RC_OK"
         /\ Calls(t, IF r.ident = "absent" THEN "running" ELSE "checking", NoArg)
         /\ inv' = [inv EXCEPT ![t] =
                Call(r, Payload(r.type, TRUE, RmpToValue(r.body), r.type = "identity"), r.body,
                     CallerExtensions(r.ext))]
    /\ Answers(t, NoResult)
    /\ UNCHANGED <<runtime, handle, install, lock, expose, engine, snapshot, clock, job>>

\* A call that ends with a return code hands nothing back.
InvokeFails(t, rc) ==
    /\ Return(t, "invoke", rc)
    /\ inv' = [inv EXCEPT ![t] = NoCall]
    /\ UNCHANGED <<runtime, handle, install, lock, expose, engine, snapshot, clock, job, result>>

HasIdentityHook == snapshot.config # NoConfig /\ snapshot.config.identity

\* has_hooks_for(identity.resolve), and only then the identity payload is read.
IdentityChecks(t) ==
    /\ pc[t] = "checking"
    /\ \/ /\ ~HasIdentityHook
          /\ Goto(t, "running")
          /\ UNCHANGED <<runtime, handle, install, lock, expose, engine, snapshot, clock, job, inv, result>>
       \/ /\ HasIdentityHook /\ inv[t].ident = "ok"
          /\ Goto(t, "resolving")
          /\ inv' = [inv EXCEPT ![t] = OnWith(inv[t], TRUE, Unresolved, inv[t].ext)]
          /\ UNCHANGED <<runtime, handle, install, lock, expose, engine, snapshot, clock, job, result>>
       \/ HasIdentityHook /\ inv[t].ident = "bad" /\ InvokeFails(t, "RC_PARSE_ERROR")
       \/ HasIdentityHook /\ inv[t].ident = "forged" /\ InvokeFails(t, "RC_INVALID_INPUT")

\* Mutated form: what the caller claims wins over what was resolved.
ApplyUnderClaims(identity, ext) ==
    Ext(IF ext.subject = "none" THEN identity.subject ELSE ext.subject, identity.token,
        ext.delegated, ext.modified)

\* IdentityPayload::apply_to_extensions: what the resolvers filled in replaces
\* what the caller claimed, and brings the inbound token in Rust memory.  A
\* payload with nothing filled in, or none, leaves the caller's extensions.
ApplyToExtensions(identity, ext) ==
    Ext(IF identity.subject = "none" THEN ext.subject ELSE identity.subject, identity.token,
        ext.delegated, ext.modified)

\* A denial of identity.resolve is the result; the hook does not run.
Denied == [stage |-> "result", continue |-> FALSE, payload |-> NoResult, ended |-> NoResult,
           modified |-> FALSE, errors |-> {}, sent |-> "none", bearer |-> NoToken,
           credentials |-> {}]

\* The identity invoke reads the snapshot again: a load in between may have
\* taken the resolvers away, and then nothing is filled in.
IdentityRuns(t) ==
    /\ pc[t] = "resolving"
    /\ \/ \E identity \in IF HasIdentityHook THEN Identities(inv[t].bearer) ELSE {Unresolved} :
            \/ /\ identity.allowed
               /\ Goto(t, "running")
               /\ inv' = [inv EXCEPT ![t] =
                     OnWith(inv[t], TRUE, identity, ApplyToExtensions(identity, inv[t].ext))]
               /\ UNCHANGED <<runtime, handle, install, lock, expose, engine, snapshot, clock, job, result>>
            \/ /\ ~identity.allowed
               /\ Return(t, "invoke", "RC_OK") /\ Answers(t, Denied)
               /\ inv' = [inv EXCEPT ![t] = NoCall]
               /\ UNCHANGED <<runtime, handle, install, lock, expose, engine, snapshot, clock, job>>
       \/ \E rc \in {"RC_TIMEOUT", "RC_PANIC"} : InvokeFails(t, rc)

-----------------------------------------------------------------------------
(* invoke_hook of the wheel: the input *)

\* Mutated form: int is tried before bool, which is a subclass of it.
LeafToJsonIntFirst(leaf) ==
    [none |-> "null", bool |-> "i64", int |-> "i64", float |-> "f64", str |-> "string",
     bigint |-> "OverflowError", nan |-> "ValueError", object |-> "ValueError"][leaf]

\* pyobj_to_json_value on a scalar: the JSON value, or the exception.
LeafToJson(leaf) ==
    [none |-> "null", bool |-> "bool", int |-> "i64", float |-> "f64", str |-> "string",
     bigint |-> "OverflowError", nan |-> "ValueError", object |-> "ValueError"][leaf]

Exceptions == {"ValueError", "OverflowError"}

\* A dict or list is converted member by member, down to MaxDepth.
PyobjToJsonValue(v) ==
    IF v.depth > MaxDepth \/ v.keys # "str" THEN "ValueError" ELSE LeafToJson(v.leaf)

\* json_value_to_pyobj on a scalar: a number above i64 comes back as a float.
JsonValueToPyobj(json) ==
    [null |-> "none", bool |-> "bool", i64 |-> "int", u64 |-> "float", f64 |-> "float",
     string |-> "str"][json]

\* The hooks that are left whose name starts with "cmf.".
CmfHooks ==
    ({entry[2] : entry \in RemovedHooks}
        \ {"identity.resolve", "token.delegate", "http.request", "http.response"})
        \cup {"cmf.llm_input", "cmf.llm_output"}

\* resolve_payload: the hook decides the type of the payload.
TypeOfHook(hook) ==
    IF hook = "identity.resolve" THEN "identity"
    ELSE IF hook \in CmfHooks THEN "message"
    ELSE "generic"

ResolvePayload(r) ==
    IF \/ TypeOfHook(r.hook) # "generic" /\ r.body = "bad"
       \/ Forges(TypeOfHook(r.hook), r.body)
    THEN "ValueError" ELSE "nil"

\* Extensions or a context table: converted like a payload, then parsed.
Converted(part) ==
    IF part = "overflow" THEN "OverflowError" ELSE IF part = "bad" THEN "ValueError" ELSE "nil"

PyValidate(r) ==
    IF IsRemoved(r.hook) THEN "ValueError"
    ELSE IF PyobjToJsonValue(r.value) \in Exceptions THEN PyobjToJsonValue(r.value)
    ELSE IF ResolvePayload(r) # "nil" THEN ResolvePayload(r)
    ELSE IF Converted(r.ext) # "nil" THEN Converted(r.ext)
    ELSE Converted(r.ctx)

PyInvokeRaises(t) ==
    /\ binding = "python" /\ handle
    /\ \E r \in PyRequests :
         /\ PyValidate(r) # "nil"
         /\ CallReturns(t, "invoke", PyValidate(r))
    /\ Answers(t, NoResult)
    /\ UNCHANGED <<runtime, handle, install, lock, expose, engine, snapshot, clock, job, inv>>

\* The wheel has no identity of its own to resolve first.
NoIdentity == [ident |-> "absent", bearer |-> NoToken]

PyInvokeStarts(t) ==
    /\ binding = "python" /\ handle
    /\ \E r \in PyRequests :
         /\ PyValidate(r) = "nil"
         /\ Calls(t, "running", NoArg)
         /\ inv' = [inv EXCEPT ![t] =
                Call(NoIdentity,
                     Payload(TypeOfHook(r.hook),
                             r.value.dict \/ TypeOfHook(r.hook) # "generic",
                             PyobjToJsonValue(r.value), r.hook = "identity.resolve"),
                     r.value.leaf, CallerExtensions(r.ext))]
    /\ Answers(t, NoResult)
    /\ UNCHANGED <<runtime, handle, install, lock, expose, engine, snapshot, clock, job>>

-----------------------------------------------------------------------------
(* The pipeline (external) *)

\* A delegate() step hands the inbound token to a delegator of the config.
Delegates(t) ==
    /\ pc[t] = "running" /\ snapshot.config # NoConfig
    /\ \E p \in Payloads, source \in snapshot.config.delegators :
         \/ /\ HandleDenies(t, inv[t].ext.token, p, New(source)) /\ Goto(t, "denying")
         \/ /\ HandleAppends(t, inv[t].ext.token, p, New(source)) /\ Goto(t, "delegating")
    /\ UNCHANGED <<runtime, handle, install, lock, expose, engine, snapshot, inv, result>>

\* The minted token joins the extensions.
WithDelegated(ext, token) ==
    Ext(ext.subject, ext.token, ext.delegated \cup {[bytes |-> token]}, TRUE)

DelegateSteps(t) ==
    /\ pc[t] = "delegating"
    /\ \/ HandleMints(t) /\ Goto(t, "delegating") /\ UNCHANGED inv
       \/ /\ HandleStamps(t) /\ Goto(t, "delegated")
          /\ inv' = [inv EXCEPT ![t] =
                OnWith(inv[t], inv[t].asked, inv[t].identity,
                       WithDelegated(inv[t].ext, job[t].token))]
    /\ UNCHANGED <<runtime, handle, install, lock, expose, engine, snapshot, result>>

\* What the plugins may leave in the payload: itself, a number no i64
\* holds, a value that is no map, or a type neither binding knows.
Rewrites(p) ==
    {p, Payload(p.type, p.dict, "u64", p.headers), Payload("foreign", p.dict, p.leaf, p.headers)}
        \cup (IF p.type = "generic" THEN {Payload(p.type, FALSE, p.leaf, p.headers)} ELSE {})

Ended(i, allow, p) ==
    [stage |-> "ended", continue |-> allow, sent |-> i.sent, bearer |-> i.bearer,
     ident |-> i.ident, ext |-> i.ext, claims |-> i.claims, asked |-> i.asked,
     identity |-> i.identity, payload |-> p, modified |-> p # i.payload]

\* The pipeline ends; a plugin may have denied after the delegation as well.
HookEnds(t) ==
    /\ pc[t] \in {"running", "delegated", "denying"}
    /\ \E allow \in BOOLEAN, p \in Rewrites(inv[t].payload) :
         /\ pc[t] = "denying" => ~allow
         /\ ~allow => p = inv[t].payload
         /\ inv' = [inv EXCEPT ![t] = Ended(inv[t], allow, p)]
    /\ Goto(t, "finishing")
    /\ UNCHANGED <<runtime, handle, install, lock, expose, engine, snapshot, clock, job, result>>

\* run_safely: the future is dropped, and the handler it was in with it.
HookIsLost(t) ==
    /\ binding = "go"
    /\ \/ pc[t] = "running" /\ UNCHANGED biscuitVars
       \/ pc[t] = "delegating" /\ HandleIsDropped(t)
    /\ \E rc \in {"RC_TIMEOUT", "RC_PANIC"} : Return(t, "invoke", rc)
    /\ inv' = [inv EXCEPT ![t] = NoCall]
    /\ UNCHANGED <<runtime, handle, install, lock, expose, engine, snapshot, result>>

-----------------------------------------------------------------------------
(* The result *)

\* identity_result_value: the request headers never come back.
IdentityResultValue(p) == Payload(p.type, p.dict, p.leaf, FALSE)

\* Mutated form: a denied result carries the credentials too.
HostDelegatedCredentialsAlways(ext, continue) ==
    IF expose /\ ext.modified THEN {tok \in ext.delegated : tok # Blank} ELSE {}

\* host_delegated_credentials: only for a host that opted in, only when the
\* pipeline allowed, and never a token with no bytes.
HostDelegatedCredentials(ext, continue) ==
    IF expose /\ continue /\ ext.modified THEN {tok \in ext.delegated : tok # Blank} ELSE {}

\* serialize_payload of either binding.
Serializable(p) == p.type \in PayloadTypes
SerializePayload(p) == IF p.type = "identity" THEN IdentityResultValue(p) ELSE p

\* The synthetic record that stands for a payload the boundary cannot carry.
FinishErrors(p) == IF Serializable(p) THEN {} ELSE {"serialize_error"}

\* A denied pipeline carries no payload.
FinishPayload(i) ==
    IF i.continue /\ Serializable(i.payload) THEN SerializePayload(i.payload) ELSE NoResult

\* What the host reads; `ended` is the payload the pipeline ended with.
Result(i, payload, credentials) ==
    [stage |-> "result", continue |-> i.continue, payload |-> payload, ended |-> i.payload,
     modified |-> i.modified, errors |-> IF i.continue THEN FinishErrors(i.payload) ELSE {},
     sent |-> i.sent, bearer |-> i.bearer, credentials |-> credentials]

\* finish_pipeline_result; the tail of cpex_invoke is the same.
InvokeFinishes(t) ==
    /\ binding = "go" /\ pc[t] = "finishing"
    /\ \/ /\ Return(t, "invoke", "RC_OK")
          /\ Answers(t, Result(inv[t], FinishPayload(inv[t]),
                               HostDelegatedCredentials(inv[t].ext, inv[t].continue)))
       \/ /\ Return(t, "invoke", "RC_SERIALIZE_ERROR")
          /\ UNCHANGED result
    /\ inv' = [inv EXCEPT ![t] = NoCall]
    /\ UNCHANGED <<runtime, handle, install, lock, expose, engine, snapshot, clock, job>>

\* PyPipelineResult's getters convert the JSON they hold to Python objects, and
\* raise for a payload that is not a dict.
Raises == [stage |-> "raises"]
PyModifiedPayload(q) ==
    IF q = NoResult THEN q
    ELSE IF ~q.dict THEN Raises
    ELSE Payload(q.type, q.dict, JsonValueToPyobj(q.leaf), q.headers)

\* pipeline_result_to_py: token bytes are never serialized, and there is no
\* delegated_credentials field.
PyInvokeFinishes(t) ==
    /\ binding = "python" /\ pc[t] = "finishing"
    /\ \/ /\ pc' = [pc EXCEPT ![t] = "idle"]
          /\ got' = [got EXCEPT ![t] = Returned("invoke", "nil", 0)]
          /\ Answers(t, Result(inv[t], PyModifiedPayload(FinishPayload(inv[t])), {}))
       \/ /\ pc' = [pc EXCEPT ![t] = "idle"]
          /\ got' = [got EXCEPT ![t] = Returned("invoke", "RuntimeError", 0)]
          /\ UNCHANGED result
    /\ inv' = [inv EXCEPT ![t] = NoCall]
    /\ UNCHANGED <<binding, arg, calls, runtime, handle, install, lock, expose, engine, snapshot,
                   clock, job>>

\* invoke_with_timeout: a panic is caught at the join; past the timeout the
\* handle is dropped, which leaves the spawned pipeline running.
PyInvokeIsLost(t) ==
    /\ binding = "python" /\ pc[t] = "running"
    /\ \/ /\ pc' = [pc EXCEPT ![t] = "idle"]
          /\ got' = [got EXCEPT ![t] = Returned("invoke", "RuntimeError", 0)]
       \/ /\ pc' = [pc EXCEPT ![t] = "detached"]
          /\ got' = [got EXCEPT ![t] = Returned("invoke", "TimeoutError", 0)]
    /\ inv' = [inv EXCEPT ![t] = NoCall]
    /\ UNCHANGED <<binding, arg, calls, runtime, handle, install, lock, expose, engine, snapshot,
                   clock, job, result>>

\* A detached pipeline ends some time and its result is dropped.
PyDetachedEnds(t) ==
    /\ pc[t] = "detached" /\ Goto(t, "idle")
    /\ UNCHANGED <<runtime, handle, install, lock, expose, engine, snapshot, clock, job, inv, result>>

-----------------------------------------------------------------------------
(* Secrets: refresh_secrets and secrets_last_success of either binding *)

\* The engine (external) re-reads what the loaded config declares from the
\* providers it was given, keeps the last good value of what fails, and
\* reports nothing before.
SecretsResolved == engine.secrets # "none" /\ snapshot.config # NoConfig
RefreshReports == IF SecretsResolved THEN Reports ELSE {EmptyReport}
Never == [ok |-> FALSE, at |-> 0]
LastSuccesses == {Never} \cup [ok : {SecretsResolved} \ {FALSE}, at : 1..clock + 1]

Reported(report) == [stage |-> "report", summary |-> RefreshSummary(report)]
Stamped(last) == [stage |-> "stamp", last |-> last]

\* cpex_refresh_secrets: a secret that fails is listed, not an error; the
\* future of a call that times out is dropped.
RefreshSecrets(t) ==
    /\ binding = "go" /\ handle
    /\ \/ \E report \in RefreshReports :
            CallReturns(t, "refresh", ErrorFromRC("RC_OK")) /\ Answers(t, Reported(report))
       \/ \E rc \in {"RC_TIMEOUT", "RC_PANIC", "RC_SERIALIZE_ERROR"} :
            CallReturns(t, "refresh", ErrorFromRC(rc)) /\ Answers(t, NoResult)
    /\ UNCHANGED <<runtime, handle, install, lock, expose, engine, snapshot, clock, job, inv>>

\* cpex_secrets_last_success: 0 where there is none.
SecretsLastSuccess(t) ==
    /\ binding = "go" /\ handle
    /\ \/ \E last \in LastSuccesses :
            /\ CallReturns(t, "last_success", ErrorFromRC("RC_OK"))
            /\ Answers(t, Stamped(IF last.ok THEN 1000 * last.at ELSE 0))
       \/ /\ CallReturns(t, "last_success", ErrorFromRC("RC_INVALID_INPUT"))
          /\ Answers(t, NoResult)
    /\ UNCHANGED <<runtime, handle, install, lock, expose, engine, snapshot, clock, job, inv>>

\* The wheel re-reads in a task of its own: a panic is caught at the join, and
\* a task that outlasts the timeout goes on.
PyRefreshSecrets(t) ==
    /\ binding = "python" /\ handle
    /\ \/ \E report \in RefreshReports :
            CallReturns(t, "refresh", "nil") /\ Answers(t, Reported(report))
       \/ CallReturns(t, "refresh", "RuntimeError") /\ Answers(t, NoResult)
       \/ /\ pc[t] = "idle" /\ calls < MaxCalls
          /\ pc' = [pc EXCEPT ![t] = "detached"]
          /\ calls' = calls + 1
          /\ got' = [got EXCEPT ![t] = Returned("refresh", "TimeoutError", 0)]
          /\ Answers(t, NoResult)
          /\ UNCHANGED <<binding, arg>>
    /\ UNCHANGED <<runtime, handle, install, lock, expose, engine, snapshot, clock, job, inv>>

PySecretsLastSuccess(t) ==
    /\ binding = "python" /\ handle
    /\ CallReturns(t, "last_success", "nil")
    /\ \E last \in LastSuccesses : Answers(t, Stamped(last))
    /\ UNCHANGED <<runtime, handle, install, lock, expose, engine, snapshot, clock, job, inv>>

SecretsStep(t) ==
    \/ RefreshSecrets(t) \/ SecretsLastSuccess(t)
    \/ PyRefreshSecrets(t) \/ PySecretsLastSuccess(t)

-----------------------------------------------------------------------------

HostInit ==
    /\ SetupInit /\ BiscuitInit
    /\ inv = [t \in Threads |-> NoCall]
    /\ result = [t \in Threads |-> NoResult]

HostNext ==
    \/ \E t \in Threads :
         \/ SetupStep(t) /\ UNCHANGED <<biscuitVars, inv, result>>
         \/ InvokeRejects(t) \/ InvokeStarts(t) \/ IdentityChecks(t) \/ IdentityRuns(t)
         \/ PyInvokeRaises(t) \/ PyInvokeStarts(t)
         \/ Delegates(t) \/ DelegateSteps(t) \/ HookEnds(t) \/ HookIsLost(t)
         \/ InvokeFinishes(t) \/ PyInvokeFinishes(t) \/ PyInvokeIsLost(t) \/ PyDetachedEnds(t)
         \/ SecretsStep(t)
    \/ Tick /\ UNCHANGED <<setupVars, inv, result>>

HostSpec == HostInit /\ [][HostNext]_hostVars

-----------------------------------------------------------------------------
(* Properties *)

InPipeline == {"running", "delegating", "delegated", "denying", "finishing"}

\* A hook never runs after its own identity.resolve denied.  It runs with the
\* inbound token that resolve put in Rust memory or with none, and with the
\* subject it resolved; where it resolved none, or was never asked to,
\* with the subject the caller passed: the plain invoke it degrades to.
IdentityReachesHook ==
    \A t \in Threads : pc[t] \in InPipeline =>
       LET i == inv[t] IN
       /\ i.identity.allowed
       /\ i.ext.token = i.identity.token /\ i.ext.token \in {NoToken, i.bearer}
       /\ i.ext.subject = IF i.identity.subject = "none" THEN i.claims ELSE i.identity.subject

\* cpex_invoke_resolved "degrades to a plain hook invoke" when no identity is
\* supplied "or no identity.resolve hook is registered": once the call has
\* found the resolvers, it runs the hook with what they resolved.
OnlyUnregisteredDegrades ==
    \A t \in Threads : pc[t] \in InPipeline /\ inv[t].asked => inv[t].identity # Unresolved

\* Token bytes leave Rust in one way only: as a credential this very call
\* minted from the token it resolved, on an allowed result, for a host that
\* opted in.  The request headers never come back.
TokensStayInside ==
    \A t \in Threads : result[t].stage = "result" =>
       /\ \A tok \in result[t].credentials :
             /\ result[t].continue /\ expose
             /\ job[t].stage = "minted" /\ tok.bytes = job[t].token
             /\ job[t].bearer = result[t].bearer
       /\ result[t].payload \notin {NoResult, Raises} /\ result[t].payload.type = "identity" =>
             ~result[t].payload.headers

\* A leaf as the host reads it is the one the pipeline ended with: it would
\* convert to the same JSON again, except that Python reads an integer above
\* i64 as a float.
ReadsAs(leaf, ended) ==
    IF binding = "go" THEN leaf = ended
    ELSE leaf \in Leaves /\ LeafToJson(leaf) = (IF ended = "u64" THEN "f64" ELSE ended)

\* And it is the very leaf the host sent when no plugin changed the payload,
\* except that Go's NaN became null on its way in.
ComesBackAs(leaf, sent) ==
    leaf = IF binding = "go" /\ sent = "nan" THEN "null" ELSE sent

\* An allowed result carries the payload the pipeline ended with, changed or
\* not, or exactly one of two things says that it does not: an error record
\* where the type is unknown, or the exception a Python host gets when it
\* reads a payload that is not a dict.
PayloadReturns ==
    \A t \in Threads : result[t].stage = "result" /\ result[t].continue =>
       LET q == result[t].payload  e == result[t].ended IN
       /\ q = NoResult <=> result[t].errors # {}
       /\ q = NoResult <=> e.type \notin PayloadTypes
       /\ q = Raises <=> binding = "python" /\ e.type \in PayloadTypes /\ ~e.dict
       /\ q \notin {NoResult, Raises} =>
             /\ q.type = e.type /\ ReadsAs(q.leaf, e.leaf)
             /\ ~result[t].modified => ComesBackAs(q.leaf, result[t].sent)
       /\ ~result[t].modified => q # NoResult

\* "If the modified_payload could not be serialised back to a Python dict the
\* caller appends a synthetic PluginErrorRecord to errors; modified_payload is
\* exposed as None in that case."
NotADictIsReported ==
    \A t \in Threads : result[t].stage = "result" /\ result[t].payload = Raises =>
       result[t].errors # {}
=============================================================================
