-------------------------- MODULE BiscuitDelegator --------------------------
(***************************************************************************)
(* The biscuit delegator (builtins/plugins/delegator-biscuit): a           *)
(* token.delegate handler that verifies the caller's biscuit and appends a *)
(* block that narrows it to the route's permissions and lifetime.          *)
(*                                                                         *)
(* The handler reads the clock three times, for the bound it signs, for    *)
(* the expiry it advertises and for minted_at, and time passes between the *)
(* readings.  The clock counts whole seconds, as the signed bound does.    *)
(***************************************************************************)
EXTENDS Integers

CONSTANTS
    Threads,     \* the requests that run a handler at the same time
    Perms,       \* operations a route may ask for
    DefaultTtl,  \* default_ttl_seconds
    NoHint,      \* the route gives no ttl_seconds
    NoKey,       \* a key source that does not resolve
    NoToken,     \* the empty bearer
    Sources,     \* the root_public_key entries a config may hold
    Inbound,     \* the tokens clients hold
    Payloads,    \* what a route asks for, without the bearer
    Times,       \* the seconds at which a service may look at a token
    MaxClock     \* bound: the last second a handler runs in

\* A token is the key its first block is signed with and the checks its
\* blocks carry; bytes that are no biscuit are signed with no key.
Check == [ops : SUBSET Perms, bound : Nat]

ASSUME TtlAssumption == DefaultTtl \in Nat /\ MaxClock \in Nat /\ Times \subseteq Nat
ASSUME InboundAssumption ==
    /\ \A tok \in Inbound : tok.checks \in SUBSET Check /\ tok # NoToken
    /\ NoHint \notin Nat
ASSUME PayloadsAssumption ==
    \A p \in Payloads :
       /\ p.perms \in SUBSET Perms /\ p.capabilities \in SUBSET Perms
       /\ p.audience \in BOOLEAN         \* a target_audience is given
       /\ p.hint \in Nat \cup {NoHint}   \* route_attenuation.ttl_seconds

VARIABLES
    clock,  \* Utc::now()
    job     \* the handler each thread is in, and what it produced

biscuitVars == <<clock, job>>

-----------------------------------------------------------------------------
(* Configuration *)

\* bytes_to_public_key: 32 bytes that are a point of the curve.
BytesToPublicKey(bytes) ==
    IF bytes.len = 32 /\ bytes.valid THEN bytes.key ELSE NoKey

\* PublicKeySource::resolve.  A file of 32 bytes is the raw key, whatever its
\* bytes spell; any other file is read as hex.
Resolve(source) ==
    CASE source.kind = "hex" -> IF source.isHex THEN BytesToPublicKey(source.decoded) ELSE NoKey
      [] source.kind = "bytes" -> BytesToPublicKey(source.raw)
      [] source.kind = "file" ->
           IF ~source.readable THEN NoKey
           ELSE IF source.raw.len = 32 THEN BytesToPublicKey(source.raw)
           ELSE IF source.isHex THEN BytesToPublicKey(source.decoded) ELSE NoKey

\* BiscuitDelegator::new: without a key there is no plugin and no config.
New(source) == Resolve(source)

-----------------------------------------------------------------------------
(* Biscuits (external): every block's checks must hold *)

\* A service that performs ops at time t accepts the token.
Accepts(tok, ops, t) == \A c \in tok.checks : c.ops \subseteq ops /\ t <= c.bound

\* Biscuit::from_base64 against the configured root key.
Verifies(tok, key) == tok.key = key

-----------------------------------------------------------------------------
(* The handler *)

Idle == [stage |-> "idle"]

\* effective_ttl_seconds: the route may only shorten the configured lifetime.
EffectiveTtlSeconds(p) ==
    IF p.hint = NoHint THEN DefaultTtl
    ELSE IF p.hint < DefaultTtl THEN p.hint ELSE DefaultTtl

\* Mutated form: the block is bounded by the configured lifetime only.
ExpiresAtDefault(p) == clock + DefaultTtl

\* The bound of the time check, from the first reading of the clock.
ExpiresAtUnix(p) == clock + EffectiveTtlSeconds(p)

\* The appended block: one check for each required permission (so all of
\* them) and the time check.  Audience and target are facts, not checks.
DelegationBlock(p) == [ops |-> p.perms, bound |-> ExpiresAtUnix(p)]

\* Mutated form: the delegated biscuit is built anew, without the caller's blocks.
Reissue(tok, block) == [key |-> tok.key, checks |-> {block}]

\* biscuit.append
AppendBlock(tok, block) == [key |-> tok.key, checks |-> tok.checks \cup {block}]

Scopes(p) == p.perms \cup p.capabilities

Deny(h, code) == job' = [job EXCEPT ![h] = [stage |-> "denied", code |-> code]]

\* The early returns of handle(), in their order.
HandleDenies(h, bearer, p, key) ==
    /\ job[h].stage \notin {"handling", "minting"}
    /\ \/ bearer = NoToken /\ Deny(h, "delegation.bad_request")
       \/ bearer # NoToken /\ ~p.audience /\ Deny(h, "delegation.bad_request")
       \/ /\ bearer # NoToken /\ p.audience /\ ~Verifies(bearer, key)
          /\ Deny(h, "delegation.token_invalid")
       \/ /\ bearer # NoToken /\ p.audience /\ Verifies(bearer, key)
          /\ Deny(h, "delegation.attenuation_failed")  \* parse, append or encode fails
    /\ UNCHANGED clock

HandleAppends(h, bearer, p, key) ==
    /\ job[h].stage \notin {"handling", "minting"}
    /\ bearer # NoToken /\ p.audience /\ Verifies(bearer, key)
    /\ job' = [job EXCEPT ![h] =
                 [stage |-> "handling", bearer |-> bearer, payload |-> p,
                  token |-> AppendBlock(bearer, DelegationBlock(p))]]
    /\ UNCHANGED clock

\* RawDelegatedToken::new: the clock is read again.
HandleMints(h) ==
    /\ job[h].stage = "handling"
    /\ job' = [job EXCEPT ![h] =
                 [stage |-> "minting", bearer |-> @.bearer, payload |-> @.payload,
                  token |-> @.token, scopes |-> Scopes(@.payload),
                  expires_at |-> clock + EffectiveTtlSeconds(@.payload)]]
    /\ UNCHANGED clock

\* updated.minted_at, and the updated payload is returned.
HandleStamps(h) ==
    /\ job[h].stage = "minting"
    /\ job' = [job EXCEPT ![h] =
                 [stage |-> "minted", bearer |-> @.bearer, payload |-> @.payload,
                  token |-> @.token, scopes |-> @.scopes,
                  expires_at |-> @.expires_at, minted_at |-> clock]]
    /\ UNCHANGED clock

\* The call that runs the handler times out, and its future is dropped.
HandleIsDropped(h) ==
    /\ job[h].stage \in {"handling", "minting"}
    /\ job' = [job EXCEPT ![h] = Idle]
    /\ UNCHANGED clock

Tick == clock < MaxClock /\ clock' = clock + 1 /\ UNCHANGED job

-----------------------------------------------------------------------------

BiscuitInit ==
    /\ clock = 0
    /\ job = [h \in Threads |-> Idle]

\* The tokens a request may carry: a client's own, or one an earlier hop of
\* the chain was handed.
Bearers ==
    {NoToken} \cup Inbound \cup {job[h].token : h \in {g \in Threads : job[g].stage = "minted"}}

BiscuitNext ==
    \/ Tick
    \/ \E h \in Threads :
         \/ \E bearer \in Bearers, p \in Payloads, source \in Sources :
              /\ New(source) # NoKey
              /\ \/ HandleDenies(h, bearer, p, New(source))
                 \/ HandleAppends(h, bearer, p, New(source))
         \/ HandleMints(h) \/ HandleStamps(h) \/ HandleIsDropped(h)

BiscuitSpec == BiscuitInit /\ [][BiscuitNext]_biscuitVars

-----------------------------------------------------------------------------
(* Properties *)

Minted == {h \in Threads : job[h].stage = "minted"}

\* A minted token is refused by every service after the expires_at the host
\* is told, and that is no later than minted_at plus the route's lifetime:
\* the three readings of the clock are in the order that makes this so.
UnusablePastExpiry ==
    \A h \in Minted :
       /\ \A ops \in SUBSET Perms, t \in Times :
             Accepts(job[h].token, ops, t) => t <= job[h].expires_at
       /\ job[h].expires_at <= job[h].minted_at + EffectiveTtlSeconds(job[h].payload)

\* Whatever a minted token is accepted for, the token it was made from was
\* accepted for, and it covers every permission of the route.
OnlyNarrows ==
    \A h \in Minted : \A ops \in SUBSET Perms, t \in Times :
       Accepts(job[h].token, ops, t) =>
          Accepts(job[h].bearer, ops, t) /\ job[h].payload.perms \subseteq ops
=============================================================================
