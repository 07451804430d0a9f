----------------------------- MODULE Credentials -----------------------------
(***************************************************************************)
(* The two channels a secret could take to a Python worker: the gated      *)
(* `credential` object (credentials.rs) and the translated identity and    *)
(* delegation payloads (credential_payloads.rs), and the way the worker's  *)
(* answer is mapped back onto the payload PPE dispatched.                  *)
(*                                                                         *)
(* A token is a model value; NoToken stands for an absent, an empty and a  *)
(* white-space-only one, which the code treats alike.  Where the code      *)
(* picks in HashMap order, the operator returns the set of the values it   *)
(* may pick.                                                               *)
(***************************************************************************)
EXTENDS JsonValues, FiniteSets, Integers

CONSTANTS
    Tokens, NoToken,
    HeaderNames,       \* header names as they are spelled in a request
    Lower,             \* Lower[h]: h in lower case
    CredentialHeaders  \* CREDENTIAL_HEADERS, in lower case

ASSUME HeaderAssumption ==
    /\ Lower \in [HeaderNames -> HeaderNames]
    /\ \A h \in HeaderNames : Lower[Lower[h]] = Lower[h]
    /\ CredentialHeaders \subseteq {Lower[h] : h \in HeaderNames}
    /\ "authorization" \in HeaderNames

ASSUME TokenAssumption == NoToken \notin Tokens

(* A header value is the token it embeds, bare or after "Bearer ", or      *)
(* NoToken; StripBearer leaves the same token.                             *)
HeaderMap == UNION {[S -> Tokens \cup {NoToken}] : S \in SUBSET HeaderNames}

Values(f) == {f[x] : x \in DOMAIN f}

EmptyMap == [h \in {} |-> NoToken]

-----------------------------------------------------------------------------
(* credentials.rs: the gated channel                                       *)

Inbound == "read_inbound_credentials"
Delegated == "read_delegated_tokens"

RankedRoles == <<"user", "client", "caller_workload">>

(* The inbound tokens to choose from: the first ranked role that is        *)
(* present, else any token in map order.  An empty pick refuses, even when *)
(* another role holds a token.                                             *)
BuildInbound(raw) ==
    LET held == IF raw = None THEN {} ELSE DOMAIN raw.inbound
        ranked == {i \in 1..3 : RankedRoles[i] \in held}
        first == {i \in ranked : \A j \in ranked : i <= j}
    IN  IF held = {} THEN {NoToken}
        ELSE IF ranked # {} THEN {raw.inbound[RankedRoles[i]] : i \in first}
        ELSE {raw.inbound[r] : r \in held}

ModeRank(mode) ==
    CASE mode = "on_behalf_of_user" -> 0
      [] mode = "as_this_workload" -> 1
      [] OTHER -> 2

(* Keep the tokens both of whose audience fields are the requested one,    *)
(* then take the least by (mode rank, subject), where a token's `subject`  *)
(* ranks its key's subject_id and then its scopes.  Tokens that compare    *)
(* equal keep the order of the map they came from.                         *)
Matching(raw, audience) ==
    IF raw = None THEN {}
    ELSE {d \in raw.delegated :
            audience = None \/ (d.key = audience /\ d.audience = audience)}

Before(d, e) ==
    \/ ModeRank(d.mode) < ModeRank(e.mode)
    \/ ModeRank(d.mode) = ModeRank(e.mode) /\ d.subject < e.subject

Least(candidates) ==
    IF candidates = {} THEN {NoToken}
    ELSE {d.token : d \in {c \in candidates : ~\E e \in candidates : Before(e, c)}}

(* Mutant: the key's audience alone decides.                               *)
BuildDelegatedKeyOnly(raw, audience) ==
    Least(IF raw = None THEN {}
          ELSE {d \in raw.delegated : audience = None \/ d.key = audience})

BuildDelegated(raw, audience) == Least(Matching(raw, audience))

(* The header entries an identity payload's credential may arrive in:      *)
(* several spellings of one name are picked from in map order.             *)
SourceHeader(payload) ==
    IF payload.source = None THEN "authorization" ELSE Lower[payload.source]

HeaderEntry(headers, name) == {h \in DOMAIN headers : Lower[h] = name}

InboundToken(payload) ==
    LET entries == HeaderEntry(payload.headers, SourceHeader(payload))
    IN  IF payload.raw # NoToken THEN {payload.raw}
        ELSE IF entries # {} THEN {payload.headers[h] : h \in entries}
        ELSE {NoToken}

Dto(slot, token, headers) == [slot |-> slot, token |-> token, headers |-> headers]

ASSUME DtoAssumption ==
    None \notin [slot : {"inbound", "delegated"}, token : Tokens \cup {NoToken},
                headers : HeaderMap]

(* The whole header map travels on this channel, with the source header    *)
(* added when the map lacks it.                                            *)
InboundFromIdentity(payload) ==
    LET name == SourceHeader(payload)
        headers(t) == IF HeaderEntry(payload.headers, name) # {} THEN payload.headers
                      ELSE [h \in DOMAIN payload.headers \cup {name} |->
                              IF h = name THEN t ELSE payload.headers[h]]
    IN  {Dto("inbound", t, headers(t)) : t \in InboundToken(payload)}

DelegatedFrom(picks) == {Dto("delegated", t, EmptyMap) : t \in picks}

DelegatedFromPayload(payload) == DelegatedFrom({payload.bearer})

(* A token of the extensions comes with the header it arrived in, which    *)
(* may be any.                                                             *)
InboundFrom(picks) ==
    UNION {{Dto("inbound", t, [h \in {name} |-> t]) : name \in HeaderNames} : t \in picks}

(* attach_credential: a payload that is not PPE's takes its token from the *)
(* extensions view, under the capability that names the token.             *)
AttachCredential(kind, audience, raw, caps) ==
    IF kind = "IdentityResolve" /\ Inbound \in caps
    THEN InboundFrom(BuildInbound(raw))
    ELSE IF kind = "TokenDelegate" /\ Delegated \in caps
    THEN DelegatedFrom(BuildDelegated(raw, audience))
    ELSE {None}

(* PPE's own payloads carry the credential themselves, and both are gated  *)
(* by read_inbound_credentials.  The result is None when nothing is        *)
(* attached, Refused when the declared capability cannot be honoured.      *)
AttachCredentialForPayload(kind, payload, raw, caps) ==
    LET ppe == \/ kind = "IdentityResolve" /\ payload.type = "identity"
               \/ kind = "TokenDelegate" /\ payload.type = "delegation"
        dtos == IF ~ppe THEN AttachCredential(kind, payload.audience, raw, caps)
                ELSE IF Inbound \notin caps THEN {None}
                ELSE IF payload.type = "identity" THEN InboundFromIdentity(payload)
                ELSE DelegatedFromPayload(payload)
    IN  {IF d # None /\ d.token = NoToken THEN Refused ELSE d : d \in dtos}

-----------------------------------------------------------------------------
(* credential_payloads.rs, outbound                                        *)

(* PUBLIC_HEADER_VALIDATORS approves no name.                              *)
PublicHeaderValidators == {}

IsPublicHeader(h, value, source, token) ==
    /\ Lower[h] \notin CredentialHeaders \cup {source}
    /\ token = NoToken \/ value # token
    /\ Lower[h] \in PublicHeaderValidators

PublicHeaders(payload) ==
    {h \in DOMAIN payload.headers :
        \E t \in InboundToken(payload) :
            IsPublicHeader(h, payload.headers[h], SourceHeader(payload), t)}

(* The worker's JSON is [audience, headers, token]: token is the plaintext *)
(* the JSON itself holds.                                                  *)
Wire(audience, headers, token) ==
    [audience |-> audience, headers |-> headers, token |-> token]

(* Mutant: the header map is sent as the request holds it.                 *)
IdentityToWorkerWhole(payload) == Wire(None, payload.headers, NoToken)

IdentityToWorker(payload) ==
    Wire(None, [h \in PublicHeaders(payload) |-> payload.headers[h]], NoToken)

(* An exchange with an actor, or for another subject than the user, is     *)
(* refused before anything is sent; a minted token on the payload, and the *)
(* bearer, stay behind.                                                    *)
DelegationToWorker(payload) ==
    IF payload.actor \/ payload.subject # "user" THEN Refused
    ELSE Wire(payload.audience, EmptyMap, NoToken)

-----------------------------------------------------------------------------
(* credential_payloads.rs, inbound.  A result's `unknown` says that a set  *)
(* field has no slot in the PPE payload; a value of a mapped field is Bad  *)
(* when it does not parse, and `extra` is what it holds in a field that    *)
(* PPE's type lacks.                                                       *)

(* What Pydantic dumps for an unset field carries nothing.                 *)
IsEmpty(leaf) == leaf \in {"null", "false"}

(* Deserializing would drop the field: only a set one counts.              *)
FirstDropped(extra) == ~IsEmpty(extra)

ParseLossless(value, extra) ==
    IF value = Bad \/ FirstDropped(extra) THEN Refused ELSE value

IdentityResults(subjects) ==
    [unknown : BOOLEAN, rejected : {None, FALSE, TRUE, Bad},
     reason : {None, Bad}, outputs : subjects \cup {None, Bad}, extra : {"null", "text"}]

(* `outputs` stands for subject, delegation and raw_claims.                *)
(* The rejection is read before the outputs: a rejecting result with       *)
(* outputs that do not parse is still a rejection.                         *)
IdentityFromWorker(payload, result) ==
    IF result = Bad THEN Refused
    ELSE IF result.unknown THEN Refused
    ELSE IF result.rejected = TRUE THEN (IF result.reason = Bad THEN Refused ELSE Rejected)
    ELSE IF result.rejected = Bad THEN Refused
    ELSE IF result.outputs = None THEN payload
    ELSE IF ParseLossless(result.outputs, result.extra) = Refused THEN Refused
    ELSE [payload EXCEPT !.resolved = result.outputs]

(* A delegation_update is the default one, or tells of hops.               *)
DelegationResults(tokens) ==
    [unknown : BOOLEAN, token : tokens \cup {None, NoToken, Bad},
     forwarded : UNION {[S -> tokens] : S \in SUBSET HeaderNames},
     ttl : {None, 0, 1}, update : {None}, extra : {"null"}]
    \cup [unknown : {FALSE}, token : tokens \cup {None}, forwarded : {EmptyMap},
          ttl : {None}, update : {"default", "hops", Bad}, extra : {"false", "text"}]

(* One header whose value is the token names the outbound header.          *)
OutboundHeader(token, forwarded) ==
    CASE DOMAIN forwarded = {} -> "authorization"
      [] Cardinality(DOMAIN forwarded) = 1 /\ Values(forwarded) = {token} ->
            CHOOSE h \in DOMAIN forwarded : TRUE
      [] OTHER -> Refused

(* The minted token is recorded for the audience the hook was invoked for  *)
(* (the target's name when it named none), never for one the worker says;  *)
(* a cache_ttl that is present must be positive.                           *)
DelegationFromWorker(payload, result) ==
    LET header == OutboundHeader(result.token, result.forwarded)
        audience == IF payload.audience = None THEN payload.target ELSE payload.audience
        minted == IF result.token = None THEN payload
                  ELSE [payload EXCEPT !.minted =
                          [token |-> result.token, header |-> header, audience |-> audience]]
    IN  IF result = Bad THEN Refused
        ELSE IF result.unknown \/ result.token \in {Bad, NoToken} THEN Refused
        ELSE IF result.token = None /\ DOMAIN result.forwarded # {} THEN Refused
        ELSE IF result.token # None /\ (header = Refused \/ result.ttl = 0) THEN Refused
        ELSE IF result.update = None THEN minted
        ELSE IF ParseLossless(result.update, result.extra) = Refused THEN Refused
        ELSE IF result.update = "default" THEN minted
        ELSE [minted EXCEPT !.update = result.update]
=============================================================================
