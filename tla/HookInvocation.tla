---------------------------- MODULE HookInvocation ----------------------------
(***************************************************************************)
(* One request passing a chain of isolated Python plugins: conversion.rs,  *)
(* PythonHookAdapter::invoke and what it calls.  For each plugin in turn   *)
(* the executor issues a filtered view, the adapter builds a task and      *)
(* sends it, the worker answers whatever it likes, the adapter converts    *)
(* the answer and the executor merges it or applies the plugin's error     *)
(* policy.                                                                 *)
(***************************************************************************)
EXTENDS Extensions, CmfShim

CONSTANTS
    Requests,        \* [hook, payload, canon]: what a host may ask
    Chains,          \* sequences of [caps, onError], one element per plugin
    HostErrors,      \* codes of the HostErrors worker() and send_task return
    Subjects, Minted, Names, Bodies,  \* what a modified payload may hold
    ExtensionEdits   \* what modified_extensions may hold

ASSUME ChainsAssumption ==
    \A c \in Chains : c \in Seq([caps : SUBSET STRING, onError : {"fail", "ignore"}])

PartOK(part) ==
    /\ DOMAIN part = {"kind", "name", "body", "kept", "barred", "isError", "size"}
    /\ part.barred \in BOOLEAN /\ part.isError \in BOOLEAN
    /\ part.isError => part.kind = "tool_result"

(* The payloads a host dispatches: PPE's two, a CMF message, a JSON value, *)
(* an IdentityResolvePayload or a TokenDelegatePayload (plain, with the    *)
(* raw_token or bearer_token and the headers their fields hold), and one   *)
(* of a type this host does not know.                                      *)
PayloadOK(p) ==
    /\ p.type \in {"identity", "delegation", "cmf", "plain", "generic", "foreign"}
    /\ p.type = "identity" =>
          /\ DOMAIN p = {"type", "raw", "source", "headers", "resolved"}
          /\ p.raw \in Tokens \cup {NoToken} /\ p.headers \in HeaderMap
          /\ p.source \in HeaderNames \cup {None}
    /\ p.type = "delegation" =>
          /\ DOMAIN p = {"type", "bearer", "audience", "target", "actor", "subject",
                         "minted", "update"}
          /\ p.bearer \in Tokens \cup {NoToken}
    /\ p.type = "cmf" =>
          DOMAIN p = {"type", "message"} /\ \A i \in DOMAIN p.message : PartOK(p.message[i])

ASSUME RequestsAssumption == \A r \in Requests : CanonOK(r.canon) /\ PayloadOK(r.payload)

ASSUME EditsAssumption ==
    \A e \in ExtensionEdits :
       \/ e = None \/ e = Bad
       \/ /\ e.http \in {None, Bad} \/ e.http \in HttpSlot
          /\ e.security \in {None, Bad} \/ e.security \in SecuritySlot
          /\ e.delegation \in {None, Bad} \/ e.delegation \in DelegationSlot

VARIABLES
    chain,        \* the plugins that serve the hook
    hook,         \* the dispatched hook name
    asked,        \* the payload the host dispatched
    payload,      \* the payload as the pipeline holds it
    canon,        \* the request's canonical extensions
    ctx,          \* PluginContext.global_state: the plugins whose writes it holds
    turn,         \* the plugin being served
    pc,           \* "idle", "build", "sent", "answered", "done"
    view,         \* the filtered extensions of this turn
    shim,         \* the legacy payload of this turn, or None
    task,         \* what was sent to the worker
    reply,        \* what the worker answered
    out           \* what invoke returned: [kind, ...]

turnVars == <<view, shim, task, reply, out>>
vars == <<chain, hook, asked, payload, canon, ctx, turn, pc, turnVars>>

Init ==
    /\ chain \in Chains
    /\ \E r \in Requests : hook = r.hook /\ asked = r.payload /\ canon = r.canon
    /\ payload = asked /\ ctx = {} /\ turn = 1 /\ pc = "idle"
    /\ view = None /\ shim = None /\ task = None /\ reply = None /\ out = None

Caps == chain[turn].caps

-----------------------------------------------------------------------------
(* conversion.rs *)

LegacyHooks ==
    {"tool_pre_invoke", "tool_post_invoke", "prompt_pre_fetch", "prompt_post_fetch",
     "resource_pre_fetch", "resource_post_fetch"}

PayloadKindForHook(h) ==
    IF IsCmfHook(h) THEN "CmfMessage"
    ELSE IF h = "identity.resolve" THEN "IdentityResolve"
    ELSE IF h = "token.delegate" THEN "TokenDelegate"
    ELSE IF h \in LegacyHooks THEN "Legacy"
    ELSE "Generic"

WorkerHookName(h) ==
    CASE h = "identity.resolve" -> "identity_resolve"
      [] h = "token.delegate" -> "token_delegate"
      [] h = "cmf.prompt_pre_invoke" -> "cmf.prompt_pre_fetch"
      [] h = "cmf.prompt_post_invoke" -> "cmf.prompt_post_fetch"
      [] OTHER -> h

(* A type this host cannot forward is an error, never a null.  The plain   *)
(* ones are serialized with every field they hold.                         *)
SerializePayload(p) ==
    IF p.type = "identity" THEN IdentityToWorker(p)
    ELSE IF p.type = "delegation" THEN DelegationToWorker(p)
    ELSE IF p.type = "plain" THEN Wire(p.audience, p.headers, p.token)
    ELSE IF p.type = "cmf" THEN Wire(None, EmptyMap, NoToken)
    ELSE IF p.type = "generic" THEN Wire(p.audience, EmptyMap, NoToken)
    ELSE Refused

(* A modified payload must parse as the hook's own type; a hook with no    *)
(* typed payload takes any JSON.                                           *)
DeserializePayload(h, modified) ==
    IF modified = Bad /\ PayloadKindForHook(h) # "Generic" THEN Refused ELSE modified

(* A missing or malformed flag means allow; a violation that is not an     *)
(* object is an error.                                                     *)
ContinueProcessing(r) == r.cont # FALSE

ModifiedPayload(h, r) == IF r.modified = None THEN None ELSE DeserializePayload(h, r.modified)

ResponseFails(h, r, v) ==
    \/ r.violation = Bad
    \/ ModifiedPayload(h, r) = Refused
    \/ OwnedFromReturnedSlot(r.exts, v) = Refused

ResponseToResult(h, r, v) ==
    [cont |-> ContinueProcessing(r), modified |-> ModifiedPayload(h, r),
     exts |-> OwnedFromReturnedSlot(r.exts, v)]

-----------------------------------------------------------------------------
(* error.rs: the framework error a HostError becomes                       *)
IntoPluginError(code) ==
    [kind |-> "error", code |-> code,
     class |-> CASE code = "timeout" -> "Timeout"
                 [] code = "config" -> "Config"
                 [] OTHER -> "Execution"]

Fails(code) == pc' = "answered" /\ out' = IntoPluginError(code)

-----------------------------------------------------------------------------
(* plugin.rs: PythonHookAdapter::invoke                                    *)

(* No worker to serve the plugin, and none that could be started.          *)
WorkerFails ==
    /\ pc = "idle" /\ turn <= Len(chain)
    /\ view' = View(canon, Caps)
    /\ \E code \in HostErrors : Fails(code)
    /\ UNCHANGED <<chain, hook, asked, payload, canon, ctx, turn, shim, task, reply>>

(* The executor calls the next plugin with its view; the worker the        *)
(* adapter gets claims cmf_hooks, or does not and is given the legacy      *)
(* payload.                                                                *)
Dispatch(legacy) ==
    /\ pc = "idle" /\ turn <= Len(chain)
    /\ view' = View(canon, Caps)
    /\ shim' = IF ~(legacy /\ IsCmfHook(hook)) THEN None
               ELSE IF payload.type = "cmf" THEN ToLegacy(hook, payload.message)
               ELSE Refused
    /\ pc' = "build"
    /\ UNCHANGED <<chain, hook, asked, payload, canon, ctx, turn, task, reply, out>>

BuildTask(wire, cred) ==
    [hookType |-> IF shim = None THEN WorkerHookName(hook) ELSE shim.hook,
     payload |-> wire, credential |-> cred,
     extensions |-> AttachExtensions(view), state |-> ctx]

(* Serialize, attach the credential, attach the extensions, send.          *)
Send ==
    /\ pc = "build" /\ shim # Refused
    /\ LET wire == IF shim = None THEN SerializePayload(payload)
                   ELSE Wire(None, EmptyMap, NoToken)
       IN  /\ wire # Refused
           /\ \E cred \in AttachCredentialForPayload(
                            PayloadKindForHook(hook), payload, view.raw, Caps) :
                /\ cred # Refused
                /\ task' = BuildTask(wire, cred)
    /\ pc' = "sent"
    /\ UNCHANGED <<chain, hook, asked, payload, canon, ctx, turn, view, shim, reply, out>>

ShimRefuses ==
    /\ pc = "build" /\ shim = Refused
    /\ Fails("legacy_shim_unsupported")
    /\ UNCHANGED <<chain, hook, asked, payload, canon, ctx, turn, view, shim, task, reply>>

SerializeFails ==
    /\ pc = "build" /\ shim = None
    /\ SerializePayload(payload) = Refused
    /\ Fails("protocol_error")
    /\ UNCHANGED <<chain, hook, asked, payload, canon, ctx, turn, view, shim, task, reply>>

(* The configuration, the task or an extension slot is no JSON.            *)
TaskFails ==
    /\ pc = "build" /\ shim # Refused
    /\ shim = None => SerializePayload(payload) # Refused
    /\ Fails("protocol_error")
    /\ UNCHANGED <<chain, hook, asked, payload, canon, ctx, turn, view, shim, task, reply>>

CredentialFails ==
    /\ pc = "build" /\ shim # Refused
    /\ shim = None => SerializePayload(payload) # Refused
    /\ Refused \in AttachCredentialForPayload(
                     PayloadKindForHook(hook), payload, view.raw, Caps)
    /\ Fails("credential_error")
    /\ UNCHANGED <<chain, hook, asked, payload, canon, ctx, turn, view, shim, task, reply>>

SendFails ==
    /\ pc = "sent"
    /\ \E code \in HostErrors : Fails(code)
    /\ UNCHANGED <<chain, hook, asked, payload, canon, ctx, turn, view, shim, task, reply>>

(* PPE's payloads and shimmed messages are mapped back from the worker's   *)
(* own models; others were parsed by ResponseToResult.                     *)
Translated == shim # None \/ payload.type \in {"identity", "delegation"}

FromWorker(modified) ==
    IF shim # None
    THEN LET m == ApplyModified(hook, payload.message, shim, modified)
         IN  IF m = Refused THEN Refused ELSE [payload EXCEPT !.message = m]
    ELSE IF payload.type = "identity" THEN IdentityFromWorker(payload, modified)
    ELSE DelegationFromWorker(payload, modified)

Result(cont, modified, exts) ==
    IF cont THEN [kind |-> "allow", modified |-> modified, exts |-> exts]
    ELSE [kind |-> "deny", modified |-> modified, exts |-> exts]

(* Mutant: what a deny attached is translated, and may fail it.            *)
ApplyTranslatedAlways(fields, modified) ==
    LET new == IF modified = None THEN None ELSE FromWorker(modified)
    IN  IF new = Refused THEN IntoPluginError("protocol_error")
        ELSE IF new = Rejected THEN Result(FALSE, None, fields.exts)
        ELSE Result(fields.cont, new, fields.exts)

(* What does not parse is the protocol's error; what parses but has no     *)
(* place in the message, the shim's.  Prompt arguments are checked by the  *)
(* parse.                                                                  *)
RefusalCode(modified) ==
    IF shim # None /\ modified # Bad /\ hook # "cmf.prompt_pre_invoke"
    THEN "legacy_shim_unsupported" ELSE "protocol_error"

(* A deny modifies nothing; a rejection is a deny.                         *)
ApplyTranslatedModification(fields, modified) ==
    LET new == FromWorker(modified)
    IN  IF modified = None \/ ~fields.cont THEN Result(fields.cont, None, fields.exts)
        ELSE IF new = Refused THEN IntoPluginError(RefusalCode(modified))
        ELSE IF new = Rejected THEN Result(FALSE, None, fields.exts)
        ELSE Result(TRUE, new, fields.exts)

Convert(r) ==
    LET rest == IF Translated THEN [r EXCEPT !.modified = None] ELSE r
        fields == ResponseToResult(hook, rest, view)
    IN  IF ResponseFails(hook, rest, view) THEN IntoPluginError("protocol_error")
        ELSE IF Translated THEN ApplyTranslatedModification(fields, r.modified)
        ELSE Result(fields.cont, fields.modified, fields.exts)

(* The tokens a worker can write: its own, and those of its task.          *)
Seen ==
    Minted \cup {NoToken, task.payload.token} \cup Values(task.payload.headers)
    \cup IF task.credential = None THEN {} ELSE {task.credential.token}

(* On the two credential hooks a modified payload parses as the hook's own *)
(* plain type, whatever was dispatched.                                    *)
PlainPayloads ==
    [type : {"plain"}, audience : {task.payload.audience}, token : Seen,
     headers : {EmptyMap} \cup
               IF PayloadKindForHook(hook) = "IdentityResolve"
               THEN [{"authorization"} -> Seen] ELSE {}]

(* Worker answers: a modified payload in the model the worker was sent,    *)
(* well formed or not, or edited extensions; the two are converted         *)
(* independently.                                                          *)
Modifications ==
    {None, Bad} \cup
    IF shim # None THEN ModifiedLegacy(Names, Bodies)
    ELSE IF payload.type = "identity" THEN IdentityResults(Subjects)
    ELSE IF payload.type = "delegation" THEN DelegationResults(Minted)
    ELSE IF PayloadKindForHook(hook) \in {"IdentityResolve", "TokenDelegate"}
    THEN PlainPayloads
    ELSE IF payload.type = "cmf" THEN {[payload EXCEPT !.message[1].body = b] : b \in Bodies}
    ELSE {[type |-> "generic", audience |-> task.payload.audience]}

Replies ==
    [cont : {None, TRUE, FALSE}, violation : {None, Bad}, modified : Modifications,
     exts : {None, Bad}, writes : {FALSE}]
    \cup [cont : {Bad, FALSE}, violation : {None}, modified : {None},
          exts : ExtensionEdits, writes : {FALSE}]
    \cup [cont : {TRUE}, violation : {None, Bad}, modified : {None},
          exts : {None}, writes : {TRUE}]

ApplyContextDeltas(r) == IF r.writes THEN ctx \cup {turn} ELSE ctx

(* The context is written before the conversion, which may still fail.     *)
Answer(r) ==
    /\ pc = "sent"
    /\ reply' = r
    /\ ctx' = ApplyContextDeltas(r)
    /\ out' = Convert(r)
    /\ pc' = "answered"
    /\ UNCHANGED <<chain, hook, asked, payload, canon, turn, view, shim, task>>

-----------------------------------------------------------------------------
(* The executor, external: it stops on a deny and on an error whose policy *)
(* is fail, goes on unchanged after an ignored error, and merges an allow. *)

EndTurn(next) ==
    /\ pc' = next
    /\ turn' = IF next = "idle" THEN turn + 1 ELSE turn
    /\ view' = None /\ shim' = None /\ task' = None /\ reply' = None /\ out' = None

Stop ==
    /\ pc = "answered"
    /\ out.kind = "deny" \/ (out.kind = "error" /\ chain[turn].onError = "fail")
    /\ EndTurn("done")
    /\ UNCHANGED <<chain, hook, asked, payload, canon, ctx>>

Ignore ==
    /\ pc = "answered"
    /\ out.kind = "error" /\ chain[turn].onError = "ignore"
    /\ EndTurn("idle")
    /\ UNCHANGED <<chain, hook, asked, payload, canon, ctx>>

MergeAllowed ==
    /\ pc = "answered" /\ out.kind = "allow"
    /\ payload' = IF out.modified = None \/ out.modified = Bad THEN payload
                  ELSE out.modified
    /\ canon' = Merge(canon, out.exts)
    /\ EndTurn("idle")
    /\ UNCHANGED <<chain, hook, asked, ctx>>

Finish ==
    /\ pc = "idle" /\ turn > Len(chain)
    /\ pc' = "done"
    /\ UNCHANGED <<chain, hook, asked, payload, canon, ctx, turn, turnVars>>

Done == pc = "done" /\ UNCHANGED vars

Next ==
    \/ \E legacy \in BOOLEAN : Dispatch(legacy)
    \/ WorkerFails \/ Send \/ ShimRefuses \/ SerializeFails \/ TaskFails
    \/ CredentialFails \/ SendFails
    \/ pc = "sent" /\ \E r \in Replies : Answer(r)
    \/ Stop \/ Ignore \/ MergeAllowed \/ Finish \/ Done

Spec == Init /\ [][Next]_vars

-----------------------------------------------------------------------------
(* Properties *)

TypeOK ==
    /\ pc \in {"idle", "build", "sent", "answered", "done"}
    /\ turn \in 1..Len(chain) + 1
    /\ ctx \subseteq 1..Len(chain)
    /\ pc \in {"build", "sent", "answered"} => turn <= Len(chain)
    /\ pc \in {"idle", "done"} => task = None /\ reply = None /\ out = None
    /\ pc = "answered" => out.kind \in {"allow", "deny", "error"}

(* The secrets of a request, by the capability that opens them: the        *)
(* inbound tokens and what PPE's payloads carry; the delegated tokens.     *)
TokensBehind(cap) ==
    LET held == IF canon.raw = None THEN {}
                ELSE IF cap = Inbound THEN Values(canon.raw.inbound)
                ELSE {d.token : d \in canon.raw.delegated}
        own == IF cap # Inbound THEN {}
               ELSE IF payload.type = "identity"
               THEN {payload.raw} \cup Values(payload.headers)
               ELSE IF payload.type = "delegation" THEN {payload.bearer}
               ELSE {}
    IN  held \cup own

PlainTokens(p) == {p.token} \cup Values(p.headers)

(* Where a token in a plain payload can have come from: the host put it    *)
(* there, a plugin minted it, or an earlier one had been handed it.        *)
Known ==
    (IF asked.type = "plain" THEN PlainTokens(asked) ELSE {}) \cup Minted
    \cup UNION {TokensBehind(cap) : cap \in {Inbound, Delegated}
                                         \cap UNION {chain[i].caps : i \in 1..turn - 1}}

(* No token reaches a worker but in the credential object of a credential  *)
(* hook, and there only one that a capability its plugin declared opens:   *)
(* not through the payload's JSON, the public headers or the extensions,   *)
(* not one that an earlier plugin minted or planted in a header.  A plain  *)
(* payload is the exception: its JSON is its fields, and says what the     *)
(* host or an earlier plugin wrote there, never a token of the request     *)
(* that no plugin so far had the capability for.                           *)
TokenStaysGated ==
    task # None =>
        /\ Tokens \cap PlainTokens(task.payload) \subseteq
              IF payload.type = "plain" THEN Known ELSE {}
        /\ task.extensions # None /\ task.extensions.http # None =>
              Tokens \cap Values(task.extensions.http.headers) = {}
        /\ task.credential # None =>
              /\ hook \in {"identity.resolve", "token.delegate"}
              /\ \E cap \in Caps \cap {Inbound, Delegated} :
                    task.credential.token \in TokensBehind(cap)

(* The field a token travels in holds a placeholder, never the token.      *)
TokenStaysOffTheJson == task # None => task.payload.token \notin Tokens

(* A plugin that declared the capability its hook's credential is behind   *)
(* is never sent a task without it, and a delegated token is one minted    *)
(* for the audience asked for, with no token of a better mode passed over. *)
RightCredential ==
    LET cap == IF hook = "identity.resolve" \/ payload.type = "delegation"
               THEN Inbound ELSE Delegated
        raw == canon.raw
        best(t) == \E d \in raw.delegated :
                      /\ d.token = t
                      /\ payload.audience # None =>
                            d.audience = payload.audience /\ d.key = payload.audience
                      /\ \A e \in Matching(raw, payload.audience) :
                            ModeRank(d.mode) <= ModeRank(e.mode)
    IN  task # None /\ hook \in {"identity.resolve", "token.delegate"} /\ cap \in Caps =>
            /\ task.credential # None /\ task.credential.token \in Tokens
            /\ cap = Delegated => best(task.credential.token)
            /\ hook = "identity.resolve" /\ payload.type # "identity"
                  /\ "user" \in DOMAIN raw.inbound =>
                  task.credential.token = raw.inbound["user"]

(* Whatever the workers answer, the request keeps its identity: the        *)
(* immutable slots, the request line and the authenticated subject stay,   *)
(* labels are only added, the delegation chain is only extended, and no    *)
(* credential header appears that the request did not carry.               *)
AuthorityKept ==
    [][ /\ canon'.agent = canon.agent /\ canon'.raw = canon.raw
        /\ canon'.http.host = canon.http.host
        /\ canon'.security.subject = canon.security.subject
        /\ canon.security.labels \subseteq canon'.security.labels
        /\ ChainExtends(canon.delegation.chain, canon'.delegation.chain)
        /\ \A h \in DOMAIN canon'.http.headers :
              Lower[h] \in CredentialHeaders =>
                 h \in DOMAIN canon.http.headers
                 /\ canon'.http.headers[h] = canon.http.headers[h] ]_vars

(* A legacy worker that lets a result through has been shown all of it: on *)
(* a post hook no other part of the message carries content, and the flag  *)
(* that marks a tool result as an error is one it could read.              *)
NothingUnseenPasses ==
    task # None /\ shim # None /\ hook \in {"cmf.tool_post_invoke",
                    "cmf.prompt_post_invoke", "cmf.resource_post_fetch"} =>
        /\ \A i \in DOMAIN payload.message \ {shim.index} :
              payload.message[i].kind \in {"text", "thinking"}
              /\ payload.message[i].body = "none"
        /\ ~payload.message[shim.index].barred
        /\ payload.message[shim.index].isError => shim.body = "error"

(* Mapping an answer back changes the part the worker was shown and in it  *)
(* only what it was shown: ids, labels and the other parts stay, an error  *)
(* stays an error, and a resource's size is that of its text.              *)
ShimKeepsTheRest ==
    [][ payload # payload' /\ shim # None =>
          LET old == payload.message
              new == payload'.message
              i == shim.index
          IN  /\ DOMAIN new = DOMAIN old
              /\ \A j \in DOMAIN old \ {i} : new[j] = old[j]
              /\ new[i].kind = old[i].kind /\ new[i].kept = old[i].kept
              /\ new[i].barred = old[i].barred
              /\ old[i].isError => new[i].isError
              /\ new[i].body = "error" /\ hook = "cmf.tool_post_invoke" => new[i].isError
              /\ hook \in {"cmf.resource_pre_fetch", "cmf.resource_post_fetch"}
                    /\ old[i].kind = "resource" /\ old[i].size = old[i].body =>
                    new[i].size \in {None, new[i].body}
                    /\ (new[i].name # old[i].name /\ hook = "cmf.resource_pre_fetch" =>
                           new[i].size = None) ]_vars

(* A deny and a rejection by an identity plugin are final: never an allow, *)
(* and nothing translated is modified.  What is attached turns one into an *)
(* error, which a policy may ignore, only in these cases: a violation or   *)
(* extensions that do not parse, beside a deny a payload that does not     *)
(* parse as the hook's own type, beside a rejection a set field with no    *)
(* slot in PPE's payload or a reason or status that does not parse.        *)
RejectionIsFinal ==
    LET denies == reply.cont = FALSE
        rejects == /\ payload.type = "identity" /\ reply.modified \notin {None, Bad}
                   /\ reply.modified.rejected = TRUE
        spoilt == \/ reply.violation = Bad
                  \/ OwnedFromReturnedSlot(reply.exts, view) = Refused
                  \/ denies /\ ~Translated /\ ModifiedPayload(hook, reply) = Refused
                  \/ ~denies /\ (reply.modified.unknown \/ reply.modified.reason = Bad)
    IN  pc = "answered" /\ reply # None /\ (denies \/ rejects) =>
            IF spoilt THEN out.kind = "error"
            ELSE out.kind = "deny" /\ (Translated => out.modified = None)

(* A deny is never downgraded into an error: a plugin that answers with    *)
(* continue_processing false denies the request.                           *)
DenyStaysDeny ==
    pc = "answered" /\ reply # None /\ reply.cont = FALSE /\ reply.violation = None =>
        out.kind = "deny"

(* A header that a plugin was not shown is not changed by what it returns. *)
UnseenHeadersSurvive ==
    [][ canon # canon' =>
          \A h \in DOMAIN canon.http.headers :
             \/ task.extensions # None /\ task.extensions.http # None
                /\ h \in DOMAIN task.extensions.http.headers
             \/ h \in DOMAIN canon'.http.headers
                /\ canon'.http.headers[h] = canon.http.headers[h] ]_vars
=============================================================================
