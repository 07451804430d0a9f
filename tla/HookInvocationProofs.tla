------------------------ MODULE HookInvocationProofs ------------------------
(***************************************************************************)
(* What a chain of isolated plugins can see of a request's tokens and what *)
(* it can change of a request's authority and content; which credential a  *)
(* turn carries, what a legacy worker has seen, and that a rejection ends  *)
(* the request: for any requests, chains, capabilities and answers.        *)
(*                                                                         *)
(* HookInv relates a turn's view to the request; TurnInv relates what was  *)
(* sent and answered to the payload the turn still holds.                  *)
(***************************************************************************)
EXTENDS HookInvocation, FiniteSetTheorems, TLAPS

\* The view of a turn is the one its plugin's capabilities give of the
\* request as it still is when the answer is merged, and what an allow
\* carries was taken from an answer under that view.
ViewInv ==
    /\ CanonOK(canon)
    /\ pc \in {"build", "sent", "answered"} => view = View(canon, Caps)
    /\ pc = "answered" /\ out.kind = "allow" =>
          \/ out.exts = None
          \/ /\ out.exts # Refused
             /\ \E e \in ExtensionEdits : out.exts = OwnedFromReturnedSlot(e, view)

-----------------------------------------------------------------------------
(* What crosses to the worker *)

\* No header name is approved, so no header of the request is sent.
LEMMA NoPublicHeaders ==
    /\ \A p : PublicHeaders(p) = {}
    /\ \A headers : PublicHttpHeaders(headers) = {}
  BY DEF PublicHeaders, PublicHttpHeaders, IsPublicHeader, PublicHeaderValidators

\* The payload's JSON holds no token, a plain payload's the tokens it holds.
LEMMA WireIsClean ==
    ASSUME NEW p, NEW wire,
           wire = SerializePayload(p) \/ (p.type = "cmf" /\ wire = Wire(None, EmptyMap, NoToken)),
           wire # Refused
    PROVE  /\ p.type # "plain" => PlainTokens(wire) = {NoToken}
           /\ p.type = "plain" => PlainTokens(wire) = PlainTokens(p)
<1>1. ASSUME NEW a, NEW hs, Values(hs) = {}, wire = Wire(a, hs, NoToken)
      PROVE  PlainTokens(wire) = {NoToken}
  BY <1>1 DEF Wire, PlainTokens
<1>2. Values(EmptyMap) = {}
  BY DEF Values, EmptyMap
<1>3. Values([h \in PublicHeaders(p) |-> p.headers[h]]) = {}
  BY NoPublicHeaders DEF Values
<1>4. CASE p.type = "cmf" /\ wire = Wire(None, EmptyMap, NoToken)
  BY <1>1, <1>2, <1>4
<1>5. CASE wire = SerializePayload(p)
  <2>1. CASE p.type = "identity"
    BY <1>1, <1>3, <1>5, <2>1 DEF SerializePayload, IdentityToWorker
  <2>2. CASE p.type = "delegation"
    BY <1>1, <1>2, <1>5, <2>2 DEF SerializePayload, DelegationToWorker
  <2>3. CASE p.type = "cmf"
    BY <1>1, <1>2, <1>5, <2>3 DEF SerializePayload
  <2>4. CASE p.type = "generic"
    BY <1>1, <1>2, <1>5, <2>4 DEF SerializePayload
  <2>5. CASE p.type = "plain"
    BY <1>5, <2>5 DEF SerializePayload, Wire, PlainTokens
  <2>6. CASE p.type \notin {"identity", "delegation", "cmf", "plain", "generic"}
    BY <1>5, <2>6 DEF SerializePayload
  <2>7. QED
    BY <2>1, <2>2, <2>3, <2>4, <2>5, <2>6
<1>6. QED
  BY <1>4, <1>5

\* Nor do the extensions a worker is shown.
LEMMA ExtensionsAreClean ==
    ASSUME NEW c, CanonOK(c), NEW caps, NEW ext, ext = AttachExtensions(View(c, caps)),
           ext # None, ext.http # None
    PROVE  Values(ext.http.headers) = {}
<1> DEFINE v == View(c, caps)
<1>1. ext = ToWire(v)
  BY DEF AttachExtensions
<1>2. v.http = c.http \/ v.http = None
  BY DEF View
<1>3. v.http # None /\ ext.http = SanitizeHttp(v.http)
  BY <1>1 DEF ToWire
<1>4. ext.http.headers = [h \in PublicHttpHeaders(v.http.headers) |-> v.http.headers[h]]
  BY <1>2, <1>3 DEF SanitizeHttp, CanonOK, HttpSlot
<1>5. QED
  BY <1>4, NoPublicHeaders DEF Values

\* The token of a credential that is attached is one its capability opens.
LEMMA CredentialIsOpened ==
    ASSUME CanonOK(canon),
           NEW cred \in AttachCredentialForPayload(
                           PayloadKindForHook(hook), payload, View(canon, Caps).raw, Caps),
           cred # Refused, cred # None
    PROVE  /\ hook \in {"identity.resolve", "token.delegate"}
           /\ \E cap \in Caps \cap {Inbound, Delegated} : cred.token \in TokensBehind(cap)
<1> DEFINE kind == PayloadKindForHook(hook)
           raw == View(canon, Caps).raw
           ppe == \/ kind = "IdentityResolve" /\ payload.type = "identity"
                  \/ kind = "TokenDelegate" /\ payload.type = "delegation"
<1>1. /\ kind = "IdentityResolve" => hook = "identity.resolve"
      /\ kind = "TokenDelegate" => hook = "token.delegate"
  BY DEF PayloadKindForHook
<1>2. Caps \cap {Inbound, Delegated} # {} => raw = canon.raw
  BY DEF View
<1>3. CASE ppe
  <2>1. Inbound \in Caps
    BY <1>3 DEF AttachCredentialForPayload
  <2>2. CASE payload.type = "identity"
    <3>1. /\ cred \in InboundFromIdentity(payload)
          /\ cred.token # NoToken
      BY <1>3, <2>1, <2>2 DEF AttachCredentialForPayload
    <3>2. cred.token \in InboundToken(payload)
      BY <3>1 DEF InboundFromIdentity, Dto
    <3>3. cred.token \in {payload.raw} \cup Values(payload.headers)
      BY <3>1, <3>2 DEF InboundToken, HeaderEntry, Values
    <3>4. QED
      BY <1>1, <1>3, <2>1, <2>2, <3>3 DEF TokensBehind
  <2>3. CASE payload.type = "delegation"
    <3>1. cred \in DelegatedFromPayload(payload)
      BY <1>3, <2>1, <2>3 DEF AttachCredentialForPayload
    <3>2. cred.token = payload.bearer
      BY <3>1 DEF DelegatedFromPayload, DelegatedFrom, Dto
    <3>3. QED
      BY <1>1, <1>3, <2>1, <2>3, <3>2 DEF TokensBehind
  <2>4. QED
    BY <1>3, <2>2, <2>3
<1>4. CASE ~ppe
  <2>1. /\ cred \in AttachCredential(kind, payload.audience, raw, Caps)
        /\ cred.token # NoToken
    BY <1>4 DEF AttachCredentialForPayload
  <2>2. CASE kind = "IdentityResolve" /\ Inbound \in Caps
    <3>0. PICK t \in BuildInbound(raw) :
             \E name \in HeaderNames : cred = Dto("inbound", t, [h \in {name} |-> t])
      BY <2>1, <2>2 DEF AttachCredential, InboundFrom
    <3>1. cred.token \in BuildInbound(raw)
      BY <3>0 DEF Dto
    <3>2. raw # None /\ cred.token \in Values(raw.inbound)
      BY <2>1, <3>1 DEF BuildInbound, Values
    <3>3. QED
      BY <1>1, <1>2, <2>2, <3>2 DEF TokensBehind
  <2>3. CASE kind = "TokenDelegate" /\ Delegated \in Caps
    <3>1. cred.token \in BuildDelegated(raw, payload.audience)
      BY <2>1, <2>3 DEF AttachCredential, DelegatedFrom, Dto
    <3>2. raw # None /\ cred.token \in {d.token : d \in raw.delegated}
      BY <2>1, <3>1 DEF BuildDelegated, Least, Matching
    <3>3. QED
      BY <1>1, <1>2, <2>3, <3>2 DEF TokensBehind, Inbound, Delegated
  <2>4. QED
    BY <2>1, <2>2, <2>3 DEF AttachCredential
<1>5. QED
  BY <1>3, <1>4

-----------------------------------------------------------------------------
(* What a merge may change *)

\* What the worker sets in place of a header is never a credential header.
LEMMA StripKeepsType ==
    ASSUME NEW hs \in HeaderMap
    PROVE  /\ StripSensitive(hs) \in HeaderMap
           /\ \A h \in DOMAIN StripSensitive(hs) : Lower[h] \notin CredentialHeaders
<1>1. PICK S \in SUBSET HeaderNames : hs \in [S -> Tokens \cup {NoToken}]
  BY DEF HeaderMap
<1> DEFINE K == {n \in DOMAIN hs : Lower[n] \notin CredentialHeaders}
<1>2. K \in SUBSET HeaderNames /\ StripSensitive(hs) \in [K -> Tokens \cup {NoToken}]
  BY <1>1 DEF StripSensitive
<1>3. StripSensitive(hs) \in HeaderMap
  BY <1>2 DEF HeaderMap
<1>4. QED
  BY <1>3 DEF StripSensitive

\* A chain extends itself.
LEMMA ChainExtendsItself ==
    ASSUME NEW c \in Seq(STRING)
    PROVE  ChainExtends(c, c)
  BY DEF ChainExtends

\* A merge of what an answer returned under a request's own view keeps the
\* request's identity.
LEMMA MergeKeepsAuthority ==
    ASSUME NEW c, CanonOK(c), NEW caps, NEW o,
           \/ o = None
           \/ /\ o # Refused
              /\ \E e \in ExtensionEdits : o = OwnedFromReturnedSlot(e, View(c, caps))
    PROVE  /\ CanonOK(Merge(c, o))
           /\ Merge(c, o).agent = c.agent /\ Merge(c, o).raw = c.raw
           /\ Merge(c, o).http.host = c.http.host
           /\ Merge(c, o).security.subject = c.security.subject
           /\ c.security.labels \subseteq Merge(c, o).security.labels
           /\ ChainExtends(c.delegation.chain, Merge(c, o).delegation.chain)
           /\ \A h \in DOMAIN Merge(c, o).http.headers :
                 Lower[h] \in CredentialHeaders =>
                    h \in DOMAIN c.http.headers
                    /\ Merge(c, o).http.headers[h] = c.http.headers[h]
<1> DEFINE v == View(c, caps)
           m == Merge(c, o)
<1>1. CASE o = None
  BY <1>1, ChainExtendsItself DEF Merge, CanonOK, DelegationSlot
<1>2. CASE o # None
  <2>0. PICK e \in ExtensionEdits : o = OwnedFromReturnedSlot(e, v)
    BY <1>2
  <2>1. /\ o = OwnedFromReturnedSlot(e, v) /\ e # None /\ e # Bad
        /\ \A s \in Slots : e[s] # Bad
    BY <1>2, <2>0 DEF OwnedFromReturnedSlot
  <2>2. /\ e.http = None \/ e.http \in HttpSlot
        /\ e.security = None \/ e.security \in SecuritySlot
        /\ e.delegation = None \/ e.delegation \in DelegationSlot
    BY <2>1, EditsAssumption DEF Slots
  <2>3. /\ o.writes = v.writes
        /\ o.http = IF e.http # None /\ "write_headers" \in v.writes
                    THEN ReturnedHttp(e.http, v.http) ELSE v.http
        /\ o.security = IF e.security # None /\ "append_labels" \in v.writes
                        THEN AppendLabels(e.security, v.security) ELSE v.security
        /\ o.delegation = IF TakesDelegation(e, v) THEN e.delegation ELSE v.delegation
    BY <1>2, <2>1 DEF OwnedFromReturnedSlot, View
  <2>4. /\ m.agent = c.agent /\ m.raw = c.raw
        /\ DOMAIN m = DOMAIN c
        /\ m.http = IF "write_headers" \in o.writes THEN o.http ELSE c.http
        /\ m.security = IF "append_labels" \in o.writes
                           /\ c.security.labels \subseteq o.security.labels
                        THEN o.security ELSE c.security
        /\ m.delegation = IF "append_delegation" \in o.writes THEN o.delegation
                          ELSE c.delegation
    BY <1>2 DEF Merge, CanonOK
  <2>5. /\ "write_headers" \in v.writes => v.http = c.http
        /\ "append_labels" \in v.writes => v.security = c.security
        /\ "append_delegation" \in v.writes => v.delegation = c.delegation
    BY DEF View
  <2>6. /\ c.http \in HttpSlot /\ c.security \in SecuritySlot
        /\ c.delegation \in DelegationSlot
        /\ c.http # None /\ c.security # None /\ c.delegation # None
    BY NoneAssumption DEF CanonOK
  <2>7. /\ m.http \in HttpSlot /\ m.http.host = c.http.host
        /\ \A h \in DOMAIN m.http.headers :
              Lower[h] \in CredentialHeaders =>
                 h \in DOMAIN c.http.headers
                 /\ m.http.headers[h] = c.http.headers[h]
    <3>1. CASE m.http = c.http
      BY <2>6, <3>1
    <3>2. CASE m.http # c.http
      <4>1. e.http \in HttpSlot /\ m.http = ReturnedHttp(e.http, c.http)
        BY <2>2, <2>3, <2>4, <2>5, <3>2
      <4>2. m.http = [headers |-> StripSensitive(e.http.headers), host |-> c.http.host]
        BY <2>6, <4>1 DEF ReturnedHttp
      <4>3. e.http.headers \in HeaderMap
        BY <4>1 DEF HttpSlot
      <4>4. QED
        BY <2>6, <4>2, <4>3, StripKeepsType DEF HttpSlot
    <3>3. QED
      BY <3>1, <3>2
  <2>8. /\ m.security \in SecuritySlot /\ m.security.subject = c.security.subject
        /\ c.security.labels \subseteq m.security.labels
    <3>1. CASE m.security = c.security
      BY <2>6, <3>1
    <3>2. CASE m.security # c.security
      <4>1. e.security \in SecuritySlot /\ m.security = AppendLabels(e.security, c.security)
        BY <2>2, <2>3, <2>4, <2>5, <3>2
      <4>2. QED
        BY <2>6, <4>1 DEF AppendLabels, SecuritySlot
    <3>3. QED
      BY <3>1, <3>2
  <2>9. /\ m.delegation \in DelegationSlot
        /\ ChainExtends(c.delegation.chain, m.delegation.chain)
    <3>1. CASE m.delegation = c.delegation
      BY <2>6, <3>1, ChainExtendsItself DEF DelegationSlot
    <3>2. CASE m.delegation # c.delegation
      <4>1. /\ "append_delegation" \in v.writes /\ TakesDelegation(e, v)
            /\ m.delegation = e.delegation
        BY <2>3, <2>4, <2>5, <3>2
      <4>2. QED
        BY <2>2, <2>5, <2>6, <4>1 DEF TakesDelegation, InboundChain
    <3>3. QED
      BY <3>1, <3>2
  <2>10. QED
    BY <2>4, <2>7, <2>8, <2>9 DEF CanonOK
<1>3. QED
  BY <1>1, <1>2

\* No merge touches the raw credentials.
LEMMA MergeKeepsRaw == \A c, o : CanonOK(c) => Merge(c, o).raw = c.raw
  BY DEF Merge, CanonOK

-----------------------------------------------------------------------------
(* The inductive invariant *)

HookInv == TypeOK /\ chain \in Chains /\ ViewInv

LEMMA InitHookInv == Init => HookInv
<1> SUFFICES ASSUME Init PROVE HookInv
  OBVIOUS
<1>1. Len(chain) \in Nat /\ chain \in Chains
  BY ChainsAssumption DEF Init
<1>2. TypeOK
  BY <1>1 DEF Init, TypeOK
<1>3. ViewInv
  BY RequestsAssumption DEF Init, ViewInv
<1>4. QED
  BY <1>1, <1>2, <1>3 DEF HookInv

\* What Answer returns is an allow, a deny or an error, and an allow carries
\* what the answer's extensions gave under the turn's view.
LEMMA ConvertShape ==
    ASSUME NEW r \in Replies
    PROVE  /\ Convert(r).kind \in {"allow", "deny", "error"}
           /\ Convert(r).kind = "allow" =>
                 \/ Convert(r).exts = None
                 \/ /\ Convert(r).exts # Refused
                    /\ \E e \in ExtensionEdits :
                          Convert(r).exts = OwnedFromReturnedSlot(e, view)
<1>1. /\ r.exts \in {None, Bad} \/ r.exts \in ExtensionEdits
      /\ [r EXCEPT !.modified = None].exts = r.exts
  BY DEF Replies
<1> DEFINE rest == IF Translated THEN [r EXCEPT !.modified = None] ELSE r
           fields == ResponseToResult(hook, rest, view)
<1>2. rest.exts = r.exts
  BY <1>1
<1> DEFINE fails == ResponseFails(hook, rest, view)
<1>3. CASE fails
  BY <1>3 DEF Convert, IntoPluginError
<1>4. CASE ~fails
  <2>1. fields.exts = OwnedFromReturnedSlot(r.exts, view) /\ fields.exts # Refused
    BY <1>2, <1>4 DEF ResponseToResult, ResponseFails
  <2>2. fields.exts = None \/ r.exts \in ExtensionEdits
    BY <1>1, <2>1 DEF OwnedFromReturnedSlot
  <2>3. \/ Convert(r).kind = "error"
        \/ \E cont, mod : Convert(r) = Result(cont, mod, fields.exts)
    BY <1>4 DEF Convert, ApplyTranslatedModification, IntoPluginError
  <2>4. \A cont, mod : /\ Result(cont, mod, fields.exts).kind \in {"allow", "deny"}
                       /\ Result(cont, mod, fields.exts).exts = fields.exts
    BY DEF Result
  <2>5. QED
    BY <2>1, <2>2, <2>3, <2>4
<1>5. QED
  BY <1>3, <1>4

\* Every step keeps the invariant, and only a merge touches the request's
\* extensions.
LEMMA StepHookInv ==
    ASSUME HookInv, [Next]_vars
    PROVE  HookInv' /\ (canon' = canon \/ MergeAllowed)
<1>0. Len(chain) \in Nat
  BY ChainsAssumption DEF HookInv
<1> USE DEF HookInv, ViewInv, TypeOK
<1>1. ASSUME NEW legacy \in BOOLEAN, Dispatch(legacy)
      PROVE  HookInv' /\ (canon' = canon \/ MergeAllowed)
  BY <1>0, <1>1 DEF Dispatch, Caps
<1>2. ASSUME Send
      PROVE  HookInv' /\ (canon' = canon \/ MergeAllowed)
  BY <1>0, <1>2 DEF Send, Caps
<1>3. ASSUME WorkerFails \/ ShimRefuses \/ SerializeFails \/ TaskFails \/ CredentialFails \/ SendFails
      PROVE  HookInv' /\ (canon' = canon \/ MergeAllowed)
  <2>1. /\ pc \in {"idle", "build", "sent"} /\ pc' = "answered" /\ out'.kind = "error"
        /\ turn <= Len(chain) /\ view' = View(canon, Caps)
        /\ UNCHANGED <<chain, hook, asked, payload, canon, ctx, turn, task, reply>>
    BY <1>3 DEF WorkerFails, ShimRefuses, SerializeFails, TaskFails, CredentialFails, SendFails,
                Fails, IntoPluginError
  <2>2. QED
    BY <1>0, <2>1 DEF Caps
<1>4. ASSUME NEW r \in Replies, Answer(r)
      PROVE  HookInv' /\ (canon' = canon \/ MergeAllowed)
  <2>1. /\ pc = "sent" /\ pc' = "answered" /\ out' = Convert(r)
        /\ UNCHANGED <<chain, hook, asked, payload, canon, turn, view, shim, task>>
        /\ ctx' \subseteq ctx \cup {turn}
    BY <1>4 DEF Answer, ApplyContextDeltas
  <2>2. TypeOK' /\ chain' \in Chains
    BY <1>0, <2>1, ConvertShape
  <2>3. ViewInv'
    BY <2>1, ConvertShape DEF Caps
  <2>4. QED
    BY <2>1, <2>2, <2>3
<1>5. ASSUME Stop \/ Ignore
      PROVE  HookInv' /\ (canon' = canon \/ MergeAllowed)
  <2>1. /\ pc = "answered" /\ pc' \in {"idle", "done"}
        /\ turn' = IF pc' = "idle" THEN turn + 1 ELSE turn
        /\ task' = None /\ reply' = None /\ out' = None
        /\ UNCHANGED <<chain, hook, asked, payload, canon, ctx>>
    BY <1>5 DEF Stop, Ignore, EndTurn
  <2>2. TypeOK' /\ chain' \in Chains
    BY <1>0, <2>1
  <2>3. ViewInv'
    BY <2>1
  <2>4. QED
    BY <2>1, <2>2, <2>3
<1>6. ASSUME MergeAllowed
      PROVE  HookInv' /\ (canon' = canon \/ MergeAllowed)
  <2>1. CanonOK(canon')
    <3>1. canon' = Merge(canon, out.exts) /\ pc = "answered" /\ out.kind = "allow"
      BY <1>6 DEF MergeAllowed
    <3>2. \/ out.exts = None
          \/ /\ out.exts # Refused
             /\ \E e \in ExtensionEdits :
                   out.exts = OwnedFromReturnedSlot(e, View(canon, Caps))
      BY <3>1
    <3>3. QED
      BY <3>1, <3>2, MergeKeepsAuthority
  <2>2. /\ pc = "answered" /\ pc' = "idle" /\ turn' = turn + 1
        /\ task' = None /\ reply' = None /\ out' = None
        /\ UNCHANGED <<chain, hook, asked, ctx>>
    BY <1>6 DEF MergeAllowed, EndTurn
  <2>3. TypeOK' /\ chain' \in Chains
    BY <1>0, <2>2
  <2>4. ViewInv'
    BY <2>1, <2>2
  <2>5. QED
    BY <1>6, <2>3, <2>4
<1>7. ASSUME Finish \/ Done \/ UNCHANGED vars
      PROVE  HookInv' /\ (canon' = canon \/ MergeAllowed)
  BY <1>0, <1>7 DEF Finish, Done, vars, turnVars, Caps
<1>8. QED
  BY <1>1, <1>2, <1>3, <1>4, <1>5, <1>6, <1>7 DEF Next

-----------------------------------------------------------------------------
(* Theorems *)

\* The variables keep their types, and a turn of invoke holds the view its
\* plugin's capabilities gave it until its answer is merged.
THEOREM HookInvariant == Spec => []HookInv
<1>1. HookInv /\ [Next]_vars => HookInv'
  BY StepHookInv
<1>2. QED
  BY <1>1, InitHookInv, PTL DEF Spec

\* Whatever the workers answer, a merge keeps the immutable slots, the
\* request line and the subject, only adds labels, only extends the
\* delegation chain and lets no credential header in.
THEOREM AuthorityIsKept == Spec => AuthorityKept
<1> DEFINE Keeps ==
        /\ canon'.agent = canon.agent /\ canon'.raw = canon.raw
        /\ canon'.http.host = canon.http.host
        /\ canon'.security.subject = canon.security.subject
        /\ canon.security.labels \subseteq canon'.security.labels
        /\ ChainExtends(canon.delegation.chain, canon'.delegation.chain)
        /\ \A h \in DOMAIN canon'.http.headers :
              Lower[h] \in CredentialHeaders =>
                 h \in DOMAIN canon.http.headers
                 /\ canon'.http.headers[h] = canon.http.headers[h]
<1>1. ASSUME HookInv, [Next]_vars
      PROVE  [Keeps]_vars
  <2>1. CanonOK(canon)
    BY <1>1 DEF HookInv, ViewInv
  <2>2. CASE MergeAllowed
    <3>1. canon' = Merge(canon, out.exts) /\ pc = "answered" /\ out.kind = "allow"
      BY <2>2 DEF MergeAllowed
    <3>2. \/ out.exts = None
          \/ /\ out.exts # Refused
             /\ \E e \in ExtensionEdits :
                   out.exts = OwnedFromReturnedSlot(e, View(canon, Caps))
      BY <1>1, <3>1 DEF HookInv, ViewInv
    <3>3. QED
      BY <2>1, <3>1, <3>2, MergeKeepsAuthority
  <2>3. CASE canon' = canon
    BY <2>1, <2>3, ChainExtendsItself DEF CanonOK, DelegationSlot
  <2>4. QED
    BY <1>1, <2>2, <2>3, StepHookInv
<1>2. QED
  BY <1>1, HookInvariant, PTL DEF Spec, AuthorityKept

-----------------------------------------------------------------------------
(***************************************************************************)
(* What passes through one turn: the credential is the right one, a legacy *)
(* worker saw what it lets through, a rejection ends the request.  It      *)
(* takes that the payload is one a host dispatches, that what a worker was *)
(* shown is still what the pipeline holds, and that what invoke returned   *)
(* is the conversion of the answer it got.                                 *)
(***************************************************************************)
ShimOfTurn ==
    shim # None =>
        shim = Refused \/ (payload.type = "cmf" /\ shim = ToLegacy(hook, payload.message))

TurnInv ==
    /\ PayloadOK(payload)
    /\ pc \in {"idle", "done"} => shim = None
    /\ pc = "build" => task = None /\ reply = None
    /\ pc = "sent" => reply = None /\ shim # Refused
    /\ ShimOfTurn
    /\ task # None => pc \in {"sent", "answered"} /\ shim # Refused
    /\ pc = "answered" =>
          \/ out.kind = "error" /\ reply = None
          \/ shim # Refused /\ reply \in Replies /\ out = Convert(reply)

\* The three ranks of a delegation mode.
LEMMA RankIsNat == \A mode : ModeRank(mode) \in Nat
  BY DEF ModeRank

\* The kinds a post hook looks for.
LEMMA PostKinds ==
    ASSUME NEW h, IsPost(h)
    PROVE  /\ h = "cmf.tool_post_invoke" => PartKinds(h) = {"tool_result"}
           /\ h = "cmf.prompt_post_invoke" => PartKinds(h) = {"prompt_result"}
           /\ h = "cmf.resource_post_fetch" => PartKinds(h) = {"resource", "resource_ref"}
<1>1. h = "cmf.tool_post_invoke" => PartKinds(h) = {"tool_result"}
  BY Zenon DEF PartKinds
<1>2. h = "cmf.prompt_post_invoke" => PartKinds(h) = {"prompt_result"}
  BY Zenon DEF PartKinds
<1>3. h = "cmf.resource_post_fetch" => PartKinds(h) = {"resource", "resource_ref"}
  BY Zenon DEF PartKinds
<1> QED
  BY <1>1, <1>2, <1>3

\* What a legacy worker is sent is the one part of the hook's kind.
LEMMA ShimShows ==
    ASSUME NEW h, NEW message, NEW s, s = ToLegacy(h, message), s # Refused
    PROVE  /\ h \in ShimmedHooks
           /\ s.index \in DOMAIN message
           /\ message[s.index].kind \in PartKinds(h)
           /\ ~Unrepresentable(h, message[s.index])
           /\ h # "cmf.resource_pre_fetch" => s.body = message[s.index].body
           /\ IsPost(h) => \A i \in DOMAIN message \ {s.index} : ~CarriesContent(message[i])
<1> DEFINE candidates == Candidates(h, message)
           index == CHOOSE i \in candidates : TRUE
           unseen == {i \in DOMAIN message \ {index} : CarriesContent(message[i])}
<1>1. /\ h \in ShimmedHooks /\ Cardinality(candidates) = 1 /\ (IsPost(h) => unseen = {})
      /\ ~Unrepresentable(h, message[index])
      /\ s = LegacyPayload(h, index, message[index])
  BY DEF ToLegacy
<1>2. candidates # {}
  BY <1>1, FS_EmptySet
<1>3. index \in candidates
  BY <1>2
<1>4. s.index = index /\ (h # "cmf.resource_pre_fetch" => s.body = message[index].body)
  BY <1>1 DEF LegacyPayload
<1>5. QED
  BY <1>1, <1>3, <1>4 DEF Candidates

\* A part and what a modified legacy payload may make of it.
PartKept(h, part, new) ==
    /\ new.kind = part.kind /\ new.kept = part.kept /\ new.barred = part.barred
    /\ part.isError => new.isError
    /\ new.body = "error" /\ h = "cmf.tool_post_invoke" => new.isError
    /\ h \in {"cmf.resource_pre_fetch", "cmf.resource_post_fetch"}
          /\ part.kind = "resource" /\ part.size = part.body =>
          new.size \in {None, new.body}
          /\ (new.name # part.name /\ h = "cmf.resource_pre_fetch" => new.size = None)

\* Mapping a modified legacy payload back onto a part.
LEMMA PartIsKept ==
    ASSUME NEW h \in ShimmedHooks, NEW part, PartOK(part), part.kind \in PartKinds(h),
           NEW mod, NEW new, new = ApplyToPart(h, part, mod), new # Refused
    PROVE  PartOK(new) /\ PartKept(h, part, new)
<1> USE DEF PartKept
<1>1. CASE h = "cmf.tool_pre_invoke"
  <2>1. new = [part EXCEPT !.name = mod.name, !.body = mod.body]
    BY <1>1, Zenon DEF ApplyToPart
  <2>2. QED
    BY <1>1, <2>1 DEF PartOK
<1>2. CASE h = "cmf.tool_post_invoke"
  <2>1. new = [part EXCEPT !.name = mod.name, !.body = mod.body,
                           !.isError = @ \/ SaysError(mod.body)]
    BY <1>2, Zenon DEF ApplyToPart
  <2>2. part.kind = "tool_result"
    BY <1>2, PostKinds DEF IsPost
  <2>3. QED
    BY <1>2, <2>1, <2>2 DEF PartOK, SaysError
<1>3. CASE h \in {"cmf.prompt_pre_invoke", "cmf.prompt_post_invoke"}
  <2>1. new = [part EXCEPT !.name = mod.name, !.body = mod.body]
    BY <1>3, Zenon DEF ApplyToPart
  <2>2. QED
    BY <1>3, <2>1 DEF PartOK
<1>4. CASE h = "cmf.resource_pre_fetch"
  <2>1. /\ new = [part EXCEPT !.name = mod.name]
        /\ ~(/\ part.kind = "resource" /\ mod.name # part.name
             /\ (part.body # "none" \/ part.size # None))
    BY <1>4, Zenon DEF ApplyToPart
  <2>2. QED
    BY <1>4, <2>1 DEF PartOK
<1>5. CASE h = "cmf.resource_post_fetch"
  <2>1. new = [part EXCEPT !.name = mod.name, !.body = mod.body,
                           !.size = Remeasured(part, mod.body)]
    BY <1>5, Zenon DEF ApplyToPart
  <2>2. QED
    BY <1>5, <2>1 DEF PartOK, Remeasured
<1>6. QED
  BY <1>1, <1>2, <1>3, <1>4, <1>5 DEF ShimmedHooks

\* What an allow hands the executor in place of the payload: a payload again,
\* and on the shim's path the message with the part the worker was shown
\* replaced.
LEMMA ModifiedIsPayload ==
    ASSUME PayloadOK(payload), ShimOfTurn, shim # Refused, NEW r \in Replies,
           Convert(r).kind = "allow", Convert(r).modified \notin {None, Bad}
    PROVE  /\ PayloadOK(Convert(r).modified)
           /\ shim # None =>
                 /\ ApplyModified(hook, payload.message, shim, r.modified) # Refused
                 /\ Convert(r).modified =
                       [payload EXCEPT !.message = ApplyModified(hook, payload.message, shim, r.modified)]
           /\ Convert(r).modified.type = "plain" =>
                 /\ Convert(r).modified \in PlainPayloads
                 /\ payload.type \notin {"identity", "delegation"}
<1> DEFINE rest == IF Translated THEN [r EXCEPT !.modified = None] ELSE r
           fields == ResponseToResult(hook, rest, view)
<1>1. ~ResponseFails(hook, rest, view)
  BY DEF Convert, IntoPluginError
<1>2. CASE ~Translated
  <2>1. shim = None /\ payload.type \notin {"identity", "delegation"}
    BY <1>2 DEF Translated
  <2>2. Convert(r) = Result(fields.cont, fields.modified, fields.exts)
    BY <1>1, <1>2 DEF Convert
  <2>3. Convert(r).modified = fields.modified
    BY <2>2 DEF Result
  <2>4. fields.modified \in {None, r.modified}
    BY <1>1, <1>2 DEF ResponseToResult, ResponseFails, ModifiedPayload, DeserializePayload
  <2>5. r.modified \in Modifications \cup {None}
    BY DEF Replies
  <2> DEFINE plain == PayloadKindForHook(hook) \in {"IdentityResolve", "TokenDelegate"}
  <2>6. CASE plain
    <3>1. Modifications = {None, Bad} \cup PlainPayloads
      BY <2>1, <2>6 DEF Modifications
    <3>2. r.modified \in PlainPayloads
      BY <2>3, <2>4, <2>5, <3>1
    <3>3. r.modified.type = "plain"
      BY <3>2 DEF PlainPayloads
    <3>4. QED
      BY <2>1, <2>3, <2>4, <3>2, <3>3 DEF PayloadOK
  <2>7. CASE ~plain /\ payload.type = "cmf"
    <3>1. Modifications = {None, Bad} \cup {[payload EXCEPT !.message[1].body = b] : b \in Bodies}
      BY <2>1, <2>7 DEF Modifications
    <3>2. PICK b \in Bodies : r.modified = [payload EXCEPT !.message[1].body = b]
      BY <2>3, <2>4, <2>5, <3>1
    <3>3. PayloadOK(r.modified) /\ r.modified.type # "plain"
      BY <2>7, <3>2 DEF PayloadOK, PartOK
    <3>4. QED
      BY <2>1, <2>3, <2>4, <3>3
  <2>8. CASE ~plain /\ payload.type # "cmf"
    <3> DEFINE g == [type |-> "generic", audience |-> task.payload.audience]
    <3>1. Modifications = {None, Bad} \cup {g}
      BY <2>1, <2>8 DEF Modifications
    <3>2. r.modified = g
      BY <2>3, <2>4, <2>5, <3>1
    <3>3. PayloadOK(g) /\ g.type # "plain"
      BY DEF PayloadOK
    <3>4. QED
      BY <2>1, <2>3, <2>4, <3>2, <3>3
  <2>9. QED
    BY <2>6, <2>7, <2>8
<1>3. CASE Translated
  <2> DEFINE new == FromWorker(r.modified)
  <2>1. Convert(r) = ApplyTranslatedModification(fields, r.modified)
    BY <1>1, <1>3 DEF Convert
  <2>2. /\ \A c : Result(c, None, fields.exts).modified = None
        /\ Result(TRUE, new, fields.exts).modified = new
    BY DEF Result
  <2>3. new \notin {Refused, Rejected} /\ Convert(r).modified = new
    <3>1. r.modified # None /\ fields.cont
      BY <2>1, <2>2 DEF ApplyTranslatedModification
    <3>2. new # Refused
      <4>1. IntoPluginError(RefusalCode(r.modified)).kind = "error"
        BY DEF IntoPluginError
      <4>2. QED
        BY <2>1, <3>1, <4>1 DEF ApplyTranslatedModification
    <3>3. new # Rejected
      BY <2>1, <2>2, <3>1, <3>2 DEF ApplyTranslatedModification
    <3>4. QED
      BY <2>1, <2>2, <3>1, <3>2, <3>3 DEF ApplyTranslatedModification
  <2>4. CASE shim # None
    <3> DEFINE i == shim.index
               m == ApplyModified(hook, payload.message, shim, r.modified)
               part == ApplyToPart(hook, payload.message[i], r.modified)
    <3>1. payload.type = "cmf" /\ shim = ToLegacy(hook, payload.message)
      BY <2>4 DEF ShimOfTurn
    <3>2. m # Refused /\ new = [payload EXCEPT !.message = m]
      BY <2>3, <2>4 DEF FromWorker
    <3>3. part # Refused /\ m = [payload.message EXCEPT ![i] = part]
      BY <3>2 DEF ApplyModified
    <3>4. /\ hook \in ShimmedHooks /\ i \in DOMAIN payload.message
          /\ payload.message[i].kind \in PartKinds(hook)
      BY <3>1, ShimShows
    <3>5. PartOK(part)
      BY <3>1, <3>3, <3>4, PartIsKept DEF PayloadOK
    <3>6. PayloadOK(new) /\ new.type # "plain"
      BY <3>1, <3>2, <3>3, <3>5 DEF PayloadOK
    <3>7. QED
      BY <2>3, <3>2, <3>6
  <2>5. CASE shim = None /\ payload.type = "identity"
    <3>1. new = payload \/ \E o : new = [payload EXCEPT !.resolved = o]
      BY <2>3, <2>5, MarkersAssumption DEF FromWorker, IdentityFromWorker
    <3>2. QED
      BY <2>3, <2>5, <3>1 DEF PayloadOK
  <2>6. CASE shim = None /\ payload.type = "delegation"
    <3>1. \E p : /\ p = payload \/ \E o : p = [payload EXCEPT !.minted = o]
                 /\ new = p \/ \E u : new = [p EXCEPT !.update = u]
      BY <2>3, <2>6 DEF FromWorker, DelegationFromWorker
    <3>2. PICK p : /\ p = payload \/ \E o : p = [payload EXCEPT !.minted = o]
                   /\ new = p \/ \E u : new = [p EXCEPT !.update = u]
      BY <3>1
    <3>3. DOMAIN p = DOMAIN payload /\ p.type = payload.type /\ p.bearer = payload.bearer
      BY <2>6, <3>2 DEF PayloadOK
    <3>4. DOMAIN new = DOMAIN p /\ new.type = p.type /\ new.bearer = p.bearer
      BY <2>6, <3>2, <3>3 DEF PayloadOK
    <3>5. QED
      BY <2>3, <2>6, <3>3, <3>4 DEF PayloadOK
  <2>7. QED
    BY <1>3, <2>4, <2>5, <2>6 DEF Translated
<1>4. QED
  BY <1>2, <1>3

\* A credential object is never the absent one.
LEMMA DtoIsSome ==
    ASSUME NEW slot \in {"inbound", "delegated"}, NEW t \in Tokens \cup {NoToken},
           NEW hs \in HeaderMap
    PROVE  Dto(slot, t, hs) # None /\ Dto(slot, t, hs).token = t
  BY DtoAssumption DEF Dto

\* The tokens the inbound tier picks from.
LEMMA InboundPicks ==
    ASSUME NEW raw, raw # None => RawOK(raw), NEW t \in BuildInbound(raw)
    PROVE  /\ t \in Tokens \cup {NoToken}
           /\ raw # None /\ "user" \in DOMAIN raw.inbound => t = raw.inbound["user"]
<1> DEFINE held == IF raw = None THEN {} ELSE DOMAIN raw.inbound
           ranked == {i \in 1..3 : RankedRoles[i] \in held}
           first == {i \in ranked : \A j \in ranked : i <= j}
<1>1. CASE held = {}
  BY <1>1 DEF BuildInbound
<1>2. CASE held # {} /\ ranked # {}
  <2>1. PICK i \in first : t = raw.inbound[RankedRoles[i]]
    BY <1>2 DEF BuildInbound
  <2>2. t \in Values(raw.inbound) /\ raw # None
    BY <1>2, <2>1 DEF Values
  <2>3. "user" \in DOMAIN raw.inbound => i = 1
    <3>1. RankedRoles[1] = "user"
      BY DEF RankedRoles
    <3>2. "user" \in DOMAIN raw.inbound => 1 \in ranked
      BY <2>2, <3>1
    <3>3. QED
      BY <3>2
  <2>4. RankedRoles[1] = "user"
    BY DEF RankedRoles
  <2>5. QED
    BY <2>1, <2>2, <2>3, <2>4 DEF RawOK
<1>3. CASE held # {} /\ ranked = {}
  <2>1. t \in Values(raw.inbound) /\ raw # None
    BY <1>3 DEF BuildInbound, Values
  <2>2. RankedRoles[1] = "user"
    BY DEF RankedRoles
  <2>3. "user" \notin DOMAIN raw.inbound
    BY <1>3, <2>1, <2>2
  <2>4. QED
    BY <2>1, <2>3 DEF RawOK
<1>4. QED
  BY <1>1, <1>2, <1>3

\* The token the delegated tier picks: of the audience, of the best mode.
LEMMA DelegatedPicks ==
    ASSUME NEW raw, raw # None => RawOK(raw), NEW audience, NEW t \in BuildDelegated(raw, audience)
    PROVE  /\ t \in Tokens \cup {NoToken}
           /\ t # NoToken =>
                 \E d \in raw.delegated :
                    /\ d.token = t
                    /\ audience # None => d.audience = audience /\ d.key = audience
                    /\ \A e \in Matching(raw, audience) : ModeRank(d.mode) <= ModeRank(e.mode)
<1> DEFINE C == Matching(raw, audience)
<1>1. CASE C = {}
  BY <1>1 DEF BuildDelegated, Least
<1>2. CASE C # {}
  <2>1. PICK d \in C : d.token = t /\ ~\E e \in C : Before(e, d)
    BY <1>2 DEF BuildDelegated, Least
  <2>2. raw # None /\ d \in raw.delegated
        /\ (audience # None => d.audience = audience /\ d.key = audience)
    BY <2>1 DEF Matching
  <2>3. ASSUME NEW e \in C PROVE ModeRank(d.mode) <= ModeRank(e.mode)
    BY <2>1, RankIsNat DEF Before
  <2>4. QED
    BY <2>1, <2>2, <2>3 DEF RawOK
<1>3. QED
  BY <1>1, <1>2

\* The credential of a task that was sent is the one its hook asks for.
LEMMA CredentialIsRight ==
    ASSUME PayloadOK(payload), CanonOK(canon),
           NEW cred \in AttachCredentialForPayload(
                           PayloadKindForHook(hook), payload, View(canon, Caps).raw, Caps),
           cred # Refused, task' # None => task'.credential = cred,
           UNCHANGED <<hook, payload, canon, chain, turn>>
    PROVE  RightCredential'
<1> DEFINE kind == PayloadKindForHook(hook)
           raw == View(canon, Caps).raw
           cap == IF hook = "identity.resolve" \/ payload.type = "delegation"
                  THEN Inbound ELSE Delegated
           ppe == \/ kind = "IdentityResolve" /\ payload.type = "identity"
                  \/ kind = "TokenDelegate" /\ payload.type = "delegation"
<1> SUFFICES ASSUME hook \in {"identity.resolve", "token.delegate"}, cap \in Caps
             PROVE  /\ cred # None /\ cred.token \in Tokens
                    /\ cap = Delegated =>
                          \E d \in canon.raw.delegated :
                             /\ d.token = cred.token
                             /\ payload.audience # None =>
                                   d.audience = payload.audience /\ d.key = payload.audience
                             /\ \A e \in Matching(canon.raw, payload.audience) :
                                   ModeRank(d.mode) <= ModeRank(e.mode)
                    /\ hook = "identity.resolve" /\ payload.type # "identity"
                          /\ "user" \in DOMAIN canon.raw.inbound =>
                          cred.token = canon.raw.inbound["user"]
  <2>1. Caps' = Caps
    BY DEF Caps
  <2>2. QED
    BY <2>1 DEF RightCredential
<1>1. raw = canon.raw /\ (raw # None => RawOK(raw))
  BY DEF View, CanonOK
<1>2. /\ hook = "identity.resolve" => kind = "IdentityResolve"
      /\ hook = "token.delegate" => kind = "TokenDelegate"
  BY DEF PayloadKindForHook, IsCmfHook, ShimmedHooks, LlmHooks
<1>3. Inbound # Delegated /\ EmptyMap \in HeaderMap
  <2>1. EmptyMap \in [{} -> Tokens \cup {NoToken}]
    BY DEF EmptyMap
  <2>2. QED
    BY <2>1 DEF Inbound, Delegated, HeaderMap
<1>4. CASE ppe /\ payload.type = "identity"
  <2>1. hook = "identity.resolve" /\ cap = Inbound
    BY <1>2, <1>4
  <2> DEFINE name == SourceHeader(payload)
             headers(t) == IF HeaderEntry(payload.headers, name) # {} THEN payload.headers
                           ELSE [h \in DOMAIN payload.headers \cup {name} |->
                                   IF h = name THEN t ELSE payload.headers[h]]
  <2>2. PICK S \in SUBSET HeaderNames : payload.headers \in [S -> Tokens \cup {NoToken}]
    BY <1>4 DEF PayloadOK, HeaderMap
  <2>3. name \in HeaderNames
    BY <1>4, HeaderAssumption DEF PayloadOK, SourceHeader
  <2>4. InboundToken(payload) \subseteq Tokens \cup {NoToken}
    BY <1>4, <2>2 DEF PayloadOK, InboundToken, HeaderEntry
  <2>5. ASSUME NEW t \in Tokens \cup {NoToken} PROVE headers(t) \in HeaderMap
    <3>1. [h \in S \cup {name} |-> IF h = name THEN t ELSE payload.headers[h]]
             \in [S \cup {name} -> Tokens \cup {NoToken}]
      BY <2>2, <2>5
    <3>2. S \cup {name} \in SUBSET HeaderNames
      BY <2>2, <2>3
    <3>3. QED
      BY <2>2, <3>1, <3>2 DEF HeaderMap
  <2>6. PICK t \in InboundToken(payload) :
           cred = IF Dto("inbound", t, headers(t)) # None
                     /\ Dto("inbound", t, headers(t)).token = NoToken
                  THEN Refused ELSE Dto("inbound", t, headers(t))
    BY <1>4, <2>1 DEF AttachCredentialForPayload, InboundFromIdentity
  <2>7. Dto("inbound", t, headers(t)) # None /\ Dto("inbound", t, headers(t)).token = t
    <3>1. t \in Tokens \cup {NoToken} /\ headers(t) \in HeaderMap
      BY <2>4, <2>5
    <3>2. QED
      BY <3>1, DtoIsSome
  <2>8. cred # None /\ cred.token \in Tokens
    BY <2>4, <2>6, <2>7
  <2>9. QED
    BY <1>3, <1>4, <2>1, <2>8
<1>5. CASE ppe /\ payload.type = "delegation"
  <2>1. hook = "token.delegate" /\ cap = Inbound
    BY <1>2, <1>5
  <2>2. cred = IF Dto("delegated", payload.bearer, EmptyMap) # None
                  /\ Dto("delegated", payload.bearer, EmptyMap).token = NoToken
               THEN Refused ELSE Dto("delegated", payload.bearer, EmptyMap)
    BY <1>5, <2>1 DEF AttachCredentialForPayload, DelegatedFromPayload, DelegatedFrom
  <2>3. payload.bearer \in Tokens \cup {NoToken}
    BY <1>5 DEF PayloadOK
  <2>4. QED
    BY <1>3, <2>1, <2>2, <2>3, DtoIsSome
<1>6. CASE ~ppe /\ hook = "identity.resolve"
  <2>1. cap = Inbound /\ kind = "IdentityResolve"
    BY <1>2, <1>6
  <2> DEFINE hs(t, name) == [h \in {name} |-> t]
  <2>2. PICK t \in BuildInbound(raw), name \in HeaderNames :
           cred = IF Dto("inbound", t, hs(t, name)) # None
                     /\ Dto("inbound", t, hs(t, name)).token = NoToken
                  THEN Refused ELSE Dto("inbound", t, hs(t, name))
    BY <1>6, <2>1 DEF AttachCredentialForPayload, AttachCredential, InboundFrom
  <2>3. /\ t \in Tokens \cup {NoToken}
        /\ raw # None /\ "user" \in DOMAIN raw.inbound => t = raw.inbound["user"]
    BY <1>1, InboundPicks
  <2>4. t # NoToken /\ cred # None /\ cred.token = t
    <3>1. hs(t, name) \in [{name} -> Tokens \cup {NoToken}] /\ {name} \in SUBSET HeaderNames
      BY <2>3
    <3>2. hs(t, name) \in HeaderMap
      BY <3>1 DEF HeaderMap
    <3>3. Dto("inbound", t, hs(t, name)) # None /\ Dto("inbound", t, hs(t, name)).token = t
      BY <2>3, <3>2, DtoIsSome
    <3>4. QED
      BY <2>2, <3>3
  <2>5. raw # None
    BY <2>4 DEF BuildInbound
  <2>6. QED
    BY <1>1, <1>3, <2>1, <2>3, <2>4, <2>5
<1>7. CASE ~ppe /\ hook = "token.delegate"
  <2>1. cap = Delegated /\ kind = "TokenDelegate" /\ payload.type # "delegation"
    BY <1>2, <1>7
  <2>2. PICK t \in BuildDelegated(raw, payload.audience) :
           cred = IF Dto("delegated", t, EmptyMap) # None /\ Dto("delegated", t, EmptyMap).token = NoToken
                  THEN Refused ELSE Dto("delegated", t, EmptyMap)
    BY <1>7, <2>1 DEF AttachCredentialForPayload, AttachCredential, DelegatedFrom
  <2>3. /\ t \in Tokens \cup {NoToken}
        /\ t # NoToken =>
              \E d \in raw.delegated :
                 /\ d.token = t
                 /\ payload.audience # None => d.audience = payload.audience /\ d.key = payload.audience
                 /\ \A e \in Matching(raw, payload.audience) : ModeRank(d.mode) <= ModeRank(e.mode)
    BY <1>1, DelegatedPicks
  <2>4. t # NoToken /\ cred = Dto("delegated", t, EmptyMap) /\ cred # None /\ cred.token = t
    BY <1>3, <2>2, <2>3, DtoIsSome
  <2>5. QED
    BY <1>1, <1>7, <2>1, <2>3, <2>4
<1>8. QED
  BY <1>4, <1>5, <1>6, <1>7

\* A turn's answer keeps its meaning while the turn lasts.
LEMMA AnswerLasts ==
    ASSUME UNCHANGED <<hook, payload, shim, view, task>>
    PROVE  Replies' = Replies /\ \A r : Convert(r)' = Convert(r)
<1>1. Replies' = Replies
  BY DEF Replies, Modifications, PlainPayloads, Seen
<1>2. Translated' = Translated
  BY DEF Translated
<1>3. \A m : FromWorker(m)' = FromWorker(m)
  BY DEF FromWorker
<1>4. \A f, m : ApplyTranslatedModification(f, m)' = ApplyTranslatedModification(f, m)
  BY <1>3 DEF ApplyTranslatedModification, RefusalCode
<1>5. \A r : Convert(r)' = Convert(r)
  BY <1>2, <1>4 DEF Convert
<1>6. QED
  BY <1>1, <1>5

\* Every step keeps the account of the turn, and the credential right.
LEMMA StepTurnInv ==
    ASSUME HookInv, TurnInv, RightCredential, [Next]_vars
    PROVE  TurnInv' /\ RightCredential'
<1> USE DEF TurnInv
<1>1. ASSUME NEW legacy \in BOOLEAN, Dispatch(legacy) PROVE TurnInv' /\ RightCredential'
  <2>1. /\ pc = "idle" /\ pc' = "build" /\ task = None /\ task' = None /\ reply' = None
        /\ UNCHANGED <<hook, payload>>
    BY <1>1 DEF Dispatch, HookInv, TypeOK
  <2>2. ShimOfTurn'
    BY <1>1, <2>1 DEF Dispatch, ShimOfTurn
  <2>3. QED
    BY <2>1, <2>2 DEF RightCredential
<1>2. ASSUME Send PROVE TurnInv' /\ RightCredential'
  <2>1. /\ pc = "build" /\ pc' = "sent" /\ shim # Refused /\ reply = None
        /\ UNCHANGED <<chain, hook, payload, canon, turn, view, shim, reply>>
    BY <1>2 DEF Send
  <2>2. PICK wire, cred : /\ cred # Refused
                          /\ cred \in AttachCredentialForPayload(
                                PayloadKindForHook(hook), payload, view.raw, Caps)
                          /\ task' = BuildTask(wire, cred)
    BY <1>2 DEF Send
  <2>3. task'.credential = cred
    BY <2>2 DEF BuildTask
  <2>4. view = View(canon, Caps) /\ CanonOK(canon)
    BY <2>1 DEF HookInv, ViewInv
  <2>5. RightCredential'
    BY <2>1, <2>2, <2>3, <2>4, CredentialIsRight
  <2>6. TurnInv'
    BY <2>1 DEF ShimOfTurn
  <2>7. QED
    BY <2>5, <2>6
<1>3. ASSUME WorkerFails \/ ShimRefuses \/ SerializeFails \/ TaskFails \/ CredentialFails \/ SendFails
      PROVE  TurnInv' /\ RightCredential'
  <2>1. /\ pc \in {"idle", "build", "sent"} /\ pc' = "answered" /\ out'.kind = "error"
        /\ UNCHANGED <<chain, hook, payload, canon, turn, shim, task, reply>>
    BY <1>3 DEF WorkerFails, ShimRefuses, SerializeFails, TaskFails, CredentialFails, SendFails,
                Fails, IntoPluginError
  <2>2. pc = "idle" => task = None /\ reply = None
    BY DEF HookInv, TypeOK
  <2>3. TurnInv'
    BY <2>1, <2>2 DEF ShimOfTurn
  <2>4. RightCredential'
    BY <2>1 DEF RightCredential, Caps
  <2>5. QED
    BY <2>3, <2>4
<1>4. ASSUME NEW r \in Replies, Answer(r) PROVE TurnInv' /\ RightCredential'
  <2>1. /\ pc = "sent" /\ pc' = "answered" /\ out' = Convert(r) /\ reply' = r
        /\ UNCHANGED <<chain, hook, payload, canon, turn, view, shim, task>>
    BY <1>4 DEF Answer
  <2>2. reply' \in Replies' /\ out' = Convert(reply)'
    <3>1. Replies' = Replies /\ Convert(r)' = Convert(r)
      BY <2>1, AnswerLasts
    <3>2. QED
      BY <2>1, <3>1
  <2>3. TurnInv'
    BY <2>1, <2>2 DEF ShimOfTurn
  <2>4. RightCredential'
    BY <2>1 DEF RightCredential, Caps
  <2>5. QED
    BY <2>3, <2>4
<1>5. ASSUME Stop \/ Ignore PROVE TurnInv' /\ RightCredential'
  <2>1. /\ pc' \in {"idle", "done"} /\ UNCHANGED payload
        /\ task' = None /\ shim' = None
    BY <1>5 DEF Stop, Ignore, EndTurn
  <2>2. QED
    BY <2>1 DEF ShimOfTurn, RightCredential
<1>6. ASSUME MergeAllowed PROVE TurnInv' /\ RightCredential'
  <2>1. /\ pc = "answered" /\ pc' = "idle" /\ task' = None /\ shim' = None
        /\ out.kind = "allow"
        /\ payload' = payload \/ (payload' = out.modified /\ out.modified \notin {None, Bad})
    BY <1>6 DEF MergeAllowed, EndTurn
  <2>2. PayloadOK(payload')
    BY <2>1, ModifiedIsPayload
  <2>3. QED
    BY <2>1, <2>2 DEF ShimOfTurn, RightCredential
<1>7. ASSUME Finish \/ Done \/ UNCHANGED vars PROVE TurnInv' /\ RightCredential'
  <2>1. CASE Finish
    BY <2>1 DEF Finish, turnVars, ShimOfTurn, RightCredential, Caps, HookInv, TypeOK
  <2>2. CASE UNCHANGED vars
    <3>1. UNCHANGED <<chain, hook, payload, canon, turn, pc, view, shim, task, reply, out>>
      BY <2>2 DEF vars, turnVars
    <3>2. reply \in Replies /\ out = Convert(reply) => reply' \in Replies' /\ out' = Convert(reply)'
      <4>1. Replies' = Replies /\ \A r : Convert(r)' = Convert(r)
        BY <3>1, AnswerLasts
      <4>2. QED
        BY <3>1, <4>1
    <3>3. TurnInv'
      BY <3>1, <3>2 DEF ShimOfTurn
    <3>4. RightCredential'
      BY <3>1 DEF RightCredential, Caps
    <3>5. QED
      BY <3>3, <3>4
  <2>3. QED
    BY <1>7, <2>1, <2>2 DEF Done
<1>8. QED
  BY <1>1, <1>2, <1>3, <1>4, <1>5, <1>6, <1>7 DEF Next

\* The account of the turn, and the choice of the credential, in every
\* reachable state.
THEOREM TurnInvariant == Spec => [](TurnInv /\ RightCredential)
<1>1. Init => TurnInv /\ RightCredential
  BY RequestsAssumption DEF Init, TurnInv, ShimOfTurn, RightCredential
<1>2. HookInv /\ TurnInv /\ RightCredential /\ [Next]_vars => TurnInv' /\ RightCredential'
  BY StepTurnInv
<1>3. QED
  BY <1>1, <1>2, HookInvariant, PTL DEF Spec

\* A plugin that declared the capability of its hook's credential is never
\* sent a task without it, and a delegated token is of the audience asked for
\* with none of a better mode passed over.
THEOREM CredentialIsTheRightOne == Spec => []RightCredential
  BY TurnInvariant, PTL

\* A legacy worker that lets a result through has been shown all of it.
THEOREM LegacyWorkerSawIt == Spec => []NothingUnseenPasses
<1>1. TurnInv => NothingUnseenPasses
  <2> SUFFICES ASSUME TurnInv, task # None, shim # None, IsPost(hook)
               PROVE  /\ \A i \in DOMAIN payload.message \ {shim.index} :
                            payload.message[i].kind \in {"text", "thinking"}
                            /\ payload.message[i].body = "none"
                      /\ ~payload.message[shim.index].barred
                      /\ payload.message[shim.index].isError => shim.body = "error"
    BY DEF NothingUnseenPasses, IsPost
  <2> DEFINE part == payload.message[shim.index]
  <2>1. payload.type = "cmf" /\ shim = ToLegacy(hook, payload.message) /\ shim # Refused
    BY DEF TurnInv, ShimOfTurn
  <2>2. /\ shim.index \in DOMAIN payload.message
        /\ part.kind \in PartKinds(hook) /\ ~Unrepresentable(hook, part)
        /\ hook # "cmf.resource_pre_fetch" => shim.body = part.body
        /\ IsPost(hook) =>
              \A i \in DOMAIN payload.message \ {shim.index} : ~CarriesContent(payload.message[i])
    BY <2>1, ShimShows
  <2>3. PartOK(part)
    BY <2>1, <2>2 DEF TurnInv, PayloadOK
  <2>4. ~part.barred
    BY <2>2, <2>3, PostKinds DEF Unrepresentable, PartOK, IsPost
  <2>5. part.isError => shim.body = "error"
    BY <2>2, <2>3 DEF Unrepresentable, SaysError, PartOK, IsPost
  <2>6. QED
    BY <2>2, <2>4, <2>5 DEF CarriesContent
<1>2. QED
  BY <1>1, TurnInvariant, PTL

\* A deny and a rejection by an identity plugin are final: a deny, which
\* modifies nothing translated, unless the violation, the extensions, the
\* payload of a deny or the rejection itself cannot be represented, which is an
\* error and never an allow.
THEOREM RejectionsAreFinal == Spec => []RejectionIsFinal
<1>1. HookInv /\ TurnInv => RejectionIsFinal
  <2> DEFINE denies == reply.cont = FALSE
             rejects == /\ payload.type = "identity" /\ reply.modified \notin {None, Bad}
                        /\ reply.modified.rejected = TRUE
             spoilt == \/ reply.violation = Bad
                       \/ OwnedFromReturnedSlot(reply.exts, view) = Refused
                       \/ denies /\ ~Translated /\ ModifiedPayload(hook, reply) = Refused
                       \/ ~denies /\ (reply.modified.unknown \/ reply.modified.reason = Bad)
             Final == IF spoilt THEN out.kind = "error"
                      ELSE out.kind = "deny" /\ (Translated => out.modified = None)
  <2> SUFFICES ASSUME HookInv, TurnInv, pc = "answered", reply # None, denies \/ rejects
               PROVE  Final
    BY DEF RejectionIsFinal
  <2> DEFINE rest == [reply EXCEPT !.modified = None]
             exts == OwnedFromReturnedSlot(reply.exts, view)
             fields == ResponseToResult(hook, rest, view)
  <2>1. reply \in Replies /\ out = Convert(reply) /\ shim # Refused
    BY DEF TurnInv
  <2>2. /\ rest.exts = reply.exts /\ rest.violation = reply.violation /\ rest.modified = None
        /\ rest.cont = reply.cont
    BY <2>1 DEF Replies
  <2>3. /\ ResponseFails(hook, rest, view) <=> reply.violation = Bad \/ exts = Refused
        /\ fields.cont = ContinueProcessing(rest) /\ fields.exts = exts
    BY <2>2, MarkersAssumption DEF ResponseFails, ModifiedPayload, ResponseToResult
  <2>4. ContinueProcessing(rest) \in BOOLEAN /\ (denies <=> ~ContinueProcessing(rest))
    BY <2>2 DEF ContinueProcessing
  <2>5. \A code : IntoPluginError(code).kind = "error"
    BY DEF IntoPluginError
  <2>6. CASE Translated /\ (reply.violation = Bad \/ exts = Refused)
    BY <2>1, <2>3, <2>5, <2>6 DEF Convert
  <2>7. CASE Translated /\ ~(reply.violation = Bad \/ exts = Refused)
    <3>1. out = ApplyTranslatedModification(fields, reply.modified)
      BY <2>1, <2>3, <2>7 DEF Convert
    <3>2. Result(FALSE, None, exts).kind = "deny" /\ Result(FALSE, None, exts).modified = None
      BY DEF Result
    <3>3. CASE denies
      <4>1. out = Result(fields.cont, None, exts) /\ fields.cont = FALSE
        BY <2>3, <2>4, <3>1, <3>3 DEF ApplyTranslatedModification
      <4>2. QED
        BY <2>7, <3>2, <3>3, <4>1
    <3>4. CASE ~denies
      <4>1. shim = None
        BY <2>1, <3>4 DEF TurnInv, ShimOfTurn
      <4>2. FromWorker(reply.modified) = IdentityFromWorker(payload, reply.modified)
        BY <3>4, <4>1 DEF FromWorker
      <4>3. fields.cont /\ reply.modified # None
        BY <2>3, <2>4, <3>4
      <4>4. CASE reply.modified.unknown \/ reply.modified.reason = Bad
        <5>1. FromWorker(reply.modified) = Refused
          BY <3>4, <4>2, <4>4 DEF IdentityFromWorker
        <5>2. QED
          BY <2>5, <3>1, <3>4, <4>3, <4>4, <5>1 DEF ApplyTranslatedModification
      <4>5. CASE ~(reply.modified.unknown \/ reply.modified.reason = Bad)
        <5>1. FromWorker(reply.modified) = Rejected
          BY <3>4, <4>2, <4>5 DEF IdentityFromWorker
        <5>2. out = Result(FALSE, None, exts)
          BY <2>3, <3>1, <4>3, <5>1, MarkersAssumption DEF ApplyTranslatedModification
        <5>3. QED
          BY <2>7, <3>2, <3>4, <4>5, <5>2
      <4>6. QED
        BY <4>4, <4>5
    <3>5. QED
      BY <3>3, <3>4
  <2>8. CASE ~Translated
    <3>1. denies
      BY <2>8 DEF Translated
    <3>2. out = IF ResponseFails(hook, reply, view) THEN IntoPluginError("protocol_error")
                ELSE Result(ContinueProcessing(reply), ModifiedPayload(hook, reply), exts)
      BY <2>1, <2>8 DEF Convert, ResponseToResult
    <3>3. ResponseFails(hook, reply, view) <=> spoilt
      BY <2>8, <3>1 DEF ResponseFails
    <3>4. \A new : Result(FALSE, new, exts).kind = "deny"
      BY DEF Result
    <3>5. QED
      BY <2>5, <2>8, <3>1, <3>2, <3>3, <3>4 DEF ContinueProcessing
  <2>9. QED
    BY <2>6, <2>7, <2>8
<1>2. QED
  BY <1>1, HookInvariant, TurnInvariant, PTL

\* Mapping an answer back changes the part the worker was shown, and in it
\* only what it was shown.
THEOREM ShimIsFaithful == Spec => ShimKeepsTheRest
<1> DEFINE Keeps ==
        payload # payload' /\ shim # None =>
          LET old == payload.message
              new == payload'.message
              i == shim.index
          IN  /\ DOMAIN new = DOMAIN old
              /\ \A j \in DOMAIN old \ {i} : new[j] = old[j]
              /\ new[i].kind = old[i].kind /\ new[i].kept = old[i].kept
              /\ new[i].barred = old[i].barred
              /\ old[i].isError => new[i].isError
              /\ new[i].body = "error" /\ hook = "cmf.tool_post_invoke" => new[i].isError
              /\ hook \in {"cmf.resource_pre_fetch", "cmf.resource_post_fetch"}
                    /\ old[i].kind = "resource" /\ old[i].size = old[i].body =>
                    new[i].size \in {None, new[i].body}
                    /\ (new[i].name # old[i].name /\ hook = "cmf.resource_pre_fetch" =>
                           new[i].size = None)
<1>1. ASSUME TurnInv, [Next]_vars, payload # payload', shim # None PROVE Keeps
  <2>1. MergeAllowed
    BY <1>1 DEF Next, WorkerFails, Dispatch, Send, ShimRefuses, SerializeFails, TaskFails,
       CredentialFails, SendFails,
       Answer, Stop, Ignore, Finish, Done, vars, turnVars
  <2>2. /\ pc = "answered" /\ out.kind = "allow" /\ payload' = out.modified
        /\ out.modified \notin {None, Bad}
    BY <1>1, <2>1 DEF MergeAllowed
  <2>3. reply \in Replies /\ out = Convert(reply) /\ shim # Refused
    BY <1>1, <2>2 DEF TurnInv
  <2> DEFINE i == shim.index
             old == payload.message
             m == ApplyModified(hook, old, shim, reply.modified)
             part == ApplyToPart(hook, old[i], reply.modified)
  <2>4. m # Refused /\ payload' = [payload EXCEPT !.message = m]
    BY <1>1, <2>2, <2>3, ModifiedIsPayload DEF TurnInv
  <2>5. payload.type = "cmf" /\ shim = ToLegacy(hook, old)
    BY <1>1, <2>3 DEF TurnInv, ShimOfTurn
  <2>6. payload'.message = m
    BY <1>1, <2>4, <2>5 DEF TurnInv, PayloadOK
  <2>7. part # Refused /\ m = [old EXCEPT ![i] = part]
    BY <2>4 DEF ApplyModified
  <2>8. hook \in ShimmedHooks /\ i \in DOMAIN old /\ old[i].kind \in PartKinds(hook)
    BY <2>3, <2>5, ShimShows
  <2>9. PartOK(old[i])
    BY <1>1, <2>5, <2>8 DEF TurnInv, PayloadOK
  <2>10. DOMAIN m = DOMAIN old /\ m[i] = part /\ \A j \in DOMAIN old \ {i} : m[j] = old[j]
    BY <2>7, <2>8
  <2>11. PartKept(hook, old[i], part)
    BY <2>7, <2>8, <2>9, PartIsKept
  <2>12. QED
    BY <2>6, <2>10, <2>11 DEF PartKept
<1>2. TurnInv /\ [Next]_vars => [Keeps]_vars
  BY <1>1
<1>3. QED
  BY <1>2, TurnInvariant, PTL DEF Spec, ShimKeepsTheRest

-----------------------------------------------------------------------------
(***************************************************************************)
(* The tokens.  GateInv says what a task holds as soon as it is sent, and  *)
(* where the tokens of a plain payload can have come from.                 *)
(***************************************************************************)
Sent == task # None \/ pc = "sent" \/ (pc = "answered" /\ out.kind = "allow")

TaskGated ==
    /\ Tokens \cap PlainTokens(task.payload) \subseteq
          IF payload.type = "plain" THEN Known ELSE {}
    /\ task.extensions # None /\ task.extensions.http # None =>
          Tokens \cap Values(task.extensions.http.headers) = {}
    /\ task.credential # None =>
          /\ hook \in {"identity.resolve", "token.delegate"}
          /\ \E cap \in Caps \cap {Inbound, Delegated} :
                task.credential.token \in TokensBehind(cap)

GateInv ==
    /\ payload.type = "plain" => Tokens \cap PlainTokens(payload) \subseteq Known
    /\ Sent => TaskGated

\* While a turn keeps its payload and its task, what the task holds stays
\* gated.
LEMMA GateLasts ==
    ASSUME GateInv, UNCHANGED <<chain, hook, asked, payload, canon, turn, task>>, Sent' => Sent
    PROVE  GateInv'
<1>1. (\A cap : TokensBehind(cap)' = TokensBehind(cap)) /\ Caps' = Caps
  BY DEF TokensBehind, Caps
<1>2. Known' = Known
  BY <1>1 DEF Known
<1>3. TaskGated => TaskGated'
  BY <1>1, <1>2 DEF TaskGated
<1>4. QED
  BY <1>2, <1>3 DEF GateInv

\* The next turn knows what the last one knew, and what its plugin's
\* capabilities opened.
LEMMA KnownGrows ==
    ASSUME turn \in Nat \ {0}, turn' = turn + 1, UNCHANGED <<chain, asked>>, canon'.raw = canon.raw,
           \/ UNCHANGED payload
           \/ /\ payload.type \notin {"identity", "delegation"}
              /\ payload'.type = "plain"
    PROVE  /\ Known \subseteq Known'
           /\ \A cap \in Caps \cap {Inbound, Delegated} : TokensBehind(cap) \subseteq Known'
<1>1. \A cap : TokensBehind(cap)' = TokensBehind(cap)
  BY DEF TokensBehind
<1>2. turn \in 1..turn' - 1 /\ \A i \in 1..turn - 1 : i \in 1..turn' - 1
  OBVIOUS
<1> DEFINE opened(n) == {Inbound, Delegated} \cap UNION {chain[i].caps : i \in 1..n - 1}
<1>3. opened(turn) \subseteq opened(turn')
  BY <1>2
<1>4. Known \subseteq Known'
  BY <1>1, <1>3 DEF Known
<1>5. ASSUME NEW cap \in Caps \cap {Inbound, Delegated} PROVE TokensBehind(cap) \subseteq Known'
  <2>1. cap \in opened(turn')
    BY <1>2, <1>5 DEF Caps
  <2>2. QED
    BY <1>1, <2>1 DEF Known
<1>6. QED
  BY <1>4, <1>5

\* Every step keeps the gate.
LEMMA StepGate ==
    ASSUME HookInv, TurnInv, GateInv, [Next]_vars
    PROVE  GateInv'
<1>0. turn \in Nat \ {0}
  BY ChainsAssumption DEF HookInv, TypeOK
<1>1. ASSUME NEW legacy \in BOOLEAN, Dispatch(legacy) PROVE GateInv'
  BY <1>1, GateLasts DEF Dispatch, Sent
<1>2. ASSUME Send PROVE GateInv'
  <2>1. /\ view = View(canon, Caps) /\ CanonOK(canon)
        /\ UNCHANGED <<chain, hook, asked, payload, canon, turn>>
    BY <1>2 DEF Send, HookInv, ViewInv
  <2>2. PICK wire, cred : /\ \/ wire = SerializePayload(payload)
                             \/ payload.type = "cmf" /\ wire = Wire(None, EmptyMap, NoToken)
                          /\ wire # Refused /\ cred # Refused
                          /\ cred \in AttachCredentialForPayload(
                                PayloadKindForHook(hook), payload, view.raw, Caps)
                          /\ task' = BuildTask(wire, cred)
    BY <1>2 DEF Send, TurnInv, ShimOfTurn
  <2>3. /\ task'.payload = wire /\ task'.credential = cred
        /\ task'.extensions = AttachExtensions(view)
    BY <2>2 DEF BuildTask
  <2>4. (\A cap : TokensBehind(cap)' = TokensBehind(cap)) /\ Caps' = Caps
    BY <2>1 DEF TokensBehind, Caps
  <2>5. Known' = Known
    BY <2>1, <2>4 DEF Known
  <2>6. Tokens \cap PlainTokens(task'.payload) \subseteq
           IF payload.type = "plain" THEN Known ELSE {}
    <3>1. CASE payload.type = "plain"
      BY <2>2, <2>3, <3>1, WireIsClean DEF GateInv
    <3>2. CASE payload.type # "plain"
      <4>1. PlainTokens(wire) = {NoToken}
        BY <2>2, <3>2, WireIsClean
      <4>2. QED
        BY <2>3, <3>2, <4>1, TokenAssumption
    <3>3. QED
      BY <3>1, <3>2
  <2>7. task'.extensions # None /\ task'.extensions.http # None =>
           Values(task'.extensions.http.headers) = {}
    BY <2>1, <2>3, ExtensionsAreClean
  <2>8. task'.credential # None =>
           /\ hook \in {"identity.resolve", "token.delegate"}
           /\ \E cap \in Caps \cap {Inbound, Delegated} :
                 task'.credential.token \in TokensBehind(cap)
    BY <2>1, <2>2, <2>3, CredentialIsOpened
  <2>9. TaskGated'
    BY <2>1, <2>4, <2>5, <2>6, <2>7, <2>8 DEF TaskGated
  <2>10. QED
    BY <2>1, <2>5, <2>9 DEF GateInv
<1>3. ASSUME WorkerFails \/ ShimRefuses \/ SerializeFails \/ TaskFails \/ CredentialFails \/ SendFails
      PROVE  GateInv'
  <2>1. /\ pc' = "answered" /\ out'.kind = "error"
        /\ UNCHANGED <<chain, hook, asked, payload, canon, turn, task>>
    BY <1>3 DEF WorkerFails, ShimRefuses, SerializeFails, TaskFails, CredentialFails, SendFails,
                Fails, IntoPluginError
  <2>2. QED
    BY <2>1, GateLasts DEF Sent
<1>4. ASSUME NEW r \in Replies, Answer(r) PROVE GateInv'
  BY <1>4, GateLasts DEF Answer, Sent
<1>5. ASSUME Stop \/ Ignore PROVE GateInv'
  <2>1. /\ pc' \in {"idle", "done"} /\ task' = None
        /\ turn' = turn \/ turn' = turn + 1
        /\ UNCHANGED <<chain, hook, asked, payload, canon>>
    BY <1>5 DEF Stop, Ignore, EndTurn
  <2>2. ~Sent'
    BY <2>1 DEF Sent
  <2>3. CASE turn' = turn
    <3>1. Known' = Known
      BY <2>1, <2>3 DEF Known, TokensBehind
    <3>2. QED
      BY <2>1, <2>2, <3>1 DEF GateInv
  <2>4. CASE turn' = turn + 1
    BY <1>0, <2>1, <2>2, <2>4, KnownGrows DEF GateInv
  <2>5. QED
    BY <2>1, <2>3, <2>4
<1>6. ASSUME MergeAllowed PROVE GateInv'
  <2>1. /\ pc = "answered" /\ out.kind = "allow" /\ pc' = "idle" /\ task' = None
        /\ turn' = turn + 1
        /\ payload' = IF out.modified = None \/ out.modified = Bad THEN payload ELSE out.modified
        /\ UNCHANGED <<chain, hook, asked>>
    BY <1>6 DEF MergeAllowed, EndTurn
  <2>2. canon'.raw = canon.raw
    BY <1>6, MergeKeepsRaw DEF MergeAllowed, HookInv, ViewInv
  <2>3. ~Sent' /\ TaskGated
    BY <2>1 DEF Sent, GateInv
  <2>4. CASE payload' = payload
    BY <1>0, <2>1, <2>2, <2>3, <2>4, KnownGrows DEF GateInv
  <2>5. CASE payload' = out.modified /\ out.modified \notin {None, Bad} /\ payload'.type = "plain"
    <3>1. /\ shim # Refused /\ reply \in Replies /\ out = Convert(reply)
          /\ PayloadOK(payload) /\ ShimOfTurn
      BY <2>1 DEF TurnInv
    <3>2. payload' \in PlainPayloads /\ payload.type \notin {"identity", "delegation"}
      BY <2>1, <2>5, <3>1, ModifiedIsPayload
    <3>3. PlainTokens(payload') \subseteq Seen
      BY <3>2 DEF PlainPayloads, PlainTokens, Values, EmptyMap
    <3>4. /\ Known \subseteq Known'
          /\ \A cap \in Caps \cap {Inbound, Delegated} : TokensBehind(cap) \subseteq Known'
      BY <1>0, <2>1, <2>2, <2>5, <3>2, KnownGrows
    <3>5. Tokens \cap PlainTokens(task.payload) \subseteq Known'
      BY <2>3, <3>4 DEF TaskGated
    <3>6. task.credential # None => task.credential.token \in Known'
      BY <2>3, <3>4 DEF TaskGated
    <3>7. Minted \subseteq Known'
      BY DEF Known
    <3>8. Tokens \cap Seen \subseteq Known'
      BY <3>5, <3>6, <3>7, TokenAssumption DEF Seen, PlainTokens
    <3>9. QED
      BY <2>3, <3>3, <3>8 DEF GateInv
  <2>6. CASE payload'.type # "plain"
    BY <2>3, <2>6 DEF GateInv
  <2>7. QED
    BY <2>1, <2>4, <2>5, <2>6
<1>7. ASSUME Finish \/ Done \/ UNCHANGED vars PROVE GateInv'
  BY <1>7, GateLasts DEF Finish, Done, vars, turnVars, Sent
<1>8. QED
  BY <1>1, <1>2, <1>3, <1>4, <1>5, <1>6, <1>7 DEF Next

\* Whatever the request, the chain of plugins and their answers: no token
\* reaches a worker but in the credential object of a credential hook, and
\* there one that a capability its plugin declared opens; and the JSON of a
\* plain payload holds only tokens that the host put in it, that a plugin
\* minted, or that a plugin before this one had the capability for.
THEOREM TokensAreGated == Spec => []TokenStaysGated
<1>1. Init => GateInv
  <2> SUFFICES ASSUME Init PROVE GateInv
    OBVIOUS
  <2>1. payload = asked /\ pc = "idle" /\ task = None
    BY DEF Init
  <2>2. payload.type = "plain" => PlainTokens(payload) \subseteq Known
    BY <2>1 DEF Known
  <2>3. QED
    BY <2>1, <2>2 DEF GateInv, Sent
<1>2. HookInv /\ TurnInv /\ GateInv /\ [Next]_vars => GateInv'
  BY StepGate
<1>3. GateInv => TokenStaysGated
  BY DEF GateInv, Sent, TaskGated, TokenStaysGated
<1>4. QED
  BY <1>1, <1>2, <1>3, HookInvariant, TurnInvariant, PTL DEF Spec
=============================================================================
