------------------------------ MODULE Extensions ------------------------------
(***************************************************************************)
(* extensions.rs: what of the request's extensions a Python worker is      *)
(* shown, and what of its answer is handed to the executor's merge.        *)
(*                                                                         *)
(* A view is the capability-filtered copy the executor issues for one      *)
(* plugin.  `writes` holds the write tokens it issued; a slot is None when *)
(* the plugin may not see it.  `agent` stands for the immutable slots and  *)
(* `host` for the request line (status, method, path, host, scheme).       *)
(***************************************************************************)
EXTENDS Credentials, Sequences

HttpSlot == [headers : HeaderMap, host : STRING]
SecuritySlot == [labels : SUBSET STRING, subject : STRING]
DelegationSlot == [chain : Seq(STRING), origin : STRING]

ASSUME NoneAssumption ==
    None \notin HttpSlot /\ None \notin SecuritySlot /\ None \notin DelegationSlot

RawOK(raw) ==
    /\ Values(raw.inbound) \subseteq Tokens \cup {NoToken}
    /\ \A d \in raw.delegated : d.token \in Tokens \cup {NoToken}

(* The canonical extensions of a request, whose three writable slots are   *)
(* present; agent and custom are opaque.                                   *)
CanonOK(canon) ==
    /\ DOMAIN canon = {"agent", "raw", "custom", "security", "delegation", "http"}
    /\ canon.http \in HttpSlot
    /\ canon.security \in SecuritySlot
    /\ canon.delegation \in DelegationSlot
    /\ canon.raw # None => RawOK(canon.raw)

(* chain_extends: every hop the plugin was shown is still there.           *)
ChainExtends(before, after) ==
    /\ Len(before) <= Len(after)
    /\ SubSeq(after, 1, Len(before)) = before

(* The executor's filter and its write tokens.                             *)
View(canon, caps) ==
    [agent |-> IF "read_agent" \in caps THEN canon.agent ELSE None,
     security |-> IF {"read_labels", "append_labels"} \cap caps # {}
                  THEN canon.security ELSE None,
     delegation |-> IF {"read_delegation", "append_delegation"} \cap caps # {}
                    THEN canon.delegation ELSE None,
     http |-> IF {"read_headers", "write_headers"} \cap caps # {}
              THEN canon.http ELSE None,
     custom |-> canon.custom,
     raw |-> IF {Inbound, Delegated} \cap caps # {} THEN canon.raw ELSE None,
     writes |-> {"append_labels", "append_delegation", "write_headers"} \cap caps]

-----------------------------------------------------------------------------
(* Outbound *)

(* No raw header value crosses: the filter is the one of the identity      *)
(* payload's headers, with no source header and no token to compare with.  *)
PublicHttpHeaders(headers) ==
    {h \in DOMAIN headers : IsPublicHeader(h, headers[h], None, NoToken)}

SanitizeHttp(http) ==
    [http EXCEPT !.headers = [h \in PublicHttpHeaders(http.headers) |-> http.headers[h]]]

(* Every visible slot but raw_credentials.                                 *)
ToWire(view) ==
    [agent |-> view.agent, security |-> view.security, delegation |-> view.delegation,
     custom |-> view.custom,
     http |-> IF view.http = None THEN None ELSE SanitizeHttp(view.http)]

(* An object with no slot is not attached.                                 *)
AttachExtensions(view) ==
    LET wire == ToWire(view)
    IN  IF \A s \in DOMAIN wire : wire[s] = None THEN None ELSE wire

-----------------------------------------------------------------------------
(* Inbound *)

StripSensitive(headers) ==
    [h \in {n \in DOMAIN headers : Lower[n] \notin CredentialHeaders} |-> headers[h]]

(* Worker headers, canonical request line.                                 *)
ReturnedHttp(returned, inbound) ==
    [headers |-> StripSensitive(returned.headers),
     host |-> IF inbound = None THEN None ELSE inbound.host]

AppendLabels(returned, inbound) ==
    IF inbound = None THEN [labels |-> returned.labels, subject |-> None]
    ELSE [inbound EXCEPT !.labels = @ \cup returned.labels]

InboundChain(view) == IF view.delegation = None THEN <<>> ELSE view.delegation.chain

(* Mutant: the chain is accepted blind.                                    *)
TakesDelegationBlind(returned, view) ==
    returned.delegation # None /\ "append_delegation" \in view.writes

TakesDelegation(returned, view) ==
    /\ returned.delegation # None
    /\ "append_delegation" \in view.writes
    /\ ChainExtends(InboundChain(view), returned.delegation.chain)

Slots == {"http", "security", "delegation", "custom"}

(* The view with the slots the worker may write taken from its answer:     *)
(* None when there is nothing to merge, Refused when a slot it sent does   *)
(* not parse, whether or not the plugin could have written it.             *)
OwnedFromReturnedSlot(returned, view) ==
    LET http == returned.http # None /\ "write_headers" \in view.writes
        labels == returned.security # None /\ "append_labels" \in view.writes
        chain == TakesDelegation(returned, view)
        owned == [view EXCEPT
                    !.http = IF http THEN ReturnedHttp(returned.http, @) ELSE @,
                    !.security = IF labels THEN AppendLabels(returned.security, @) ELSE @,
                    !.delegation = IF chain THEN returned.delegation ELSE @,
                    !.custom = IF returned.custom # None THEN returned.custom ELSE @]
    IN  IF returned = None THEN None
        ELSE IF returned = Bad \/ \E s \in Slots : returned[s] = Bad THEN Refused
        ELSE IF ~(http \/ labels \/ chain \/ returned.custom # None) THEN None
        ELSE owned

(* The executor's merge of what the adapter returns: each writable field   *)
(* the plugin holds a token for, and custom.  It recomputes a chain's      *)
(* depth and rejects a label set that shrank; the rest it takes.           *)
Merge(canon, owned) ==
    IF owned = None THEN canon
    ELSE [canon EXCEPT
            !.http = IF "write_headers" \in owned.writes THEN owned.http ELSE @,
            !.security = IF "append_labels" \in owned.writes
                            /\ canon.security.labels \subseteq owned.security.labels
                         THEN owned.security ELSE @,
            !.delegation = IF "append_delegation" \in owned.writes
                           THEN owned.delegation ELSE @,
            !.custom = owned.custom]
=============================================================================
