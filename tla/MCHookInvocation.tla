--------------------------- MODULE MCHookInvocation ---------------------------
(* HookInvocation on small instances: two plugins, one request of each kind  *)
(* a host can make, and answers that set one slot at a time.                 *)
EXTENDS HookInvocation, TLC

CONSTANTS tUser, tClient, tA, tB, tNew

MCTokens == {tUser, tClient, tA, tB, tNew}

MCHeaderNames == {"authorization", "Authorization", "x-trace"}
MCLower == [h \in MCHeaderNames |-> IF h = "Authorization" THEN "authorization" ELSE h]

Del(key, audience, mode, subject, token) ==
    [key |-> key, audience |-> audience, mode |-> mode, subject |-> subject,
     token |-> token]

RawSets ==
    {None,
     [inbound |-> "client" :> tClient,
      delegated |-> {Del("a", "a", "as_this_workload", 1, tA),
                     Del("a", "b", "on_behalf_of_user", 1, tB)}],
     [inbound |-> "client" :> tClient @@ "user" :> tUser,
      delegated |-> {Del("a", "a", "other", 1, tA), Del("a", "a", "as_this_workload", 2, tB),
                     Del("b", "b", "on_behalf_of_user", 1, tUser)}],
     [inbound |-> "other" :> tClient @@ "spare" :> NoToken, delegated |-> {}]}

Canon(raw) ==
    [agent |-> "agent", raw |-> raw, custom |-> None,
     security |-> [labels |-> {"pii"}, subject |-> "alice"],
     delegation |-> [chain |-> <<"h1">>, origin |-> "alice"],
     http |-> [headers |-> "authorization" :> tUser @@ "x-trace" :> NoToken,
               host |-> "bank"]]

HeaderMaps ==
    {EmptyMap, "x-trace" :> tUser, "Authorization" :> tUser,
     "authorization" :> tUser @@ "Authorization" :> NoToken}

Identity == [type : {"identity"}, raw : {NoToken, tUser}, source : {None, "x-trace"},
             headers : HeaderMaps, resolved : {None}]

Delegation == [type : {"delegation"}, bearer : {NoToken, tUser}, audience : {None, "a"},
               target : {"tool"}, actor : {FALSE}, subject : {"user", "workload"},
               minted : {None}, update : {None}]

Generic == [type : {"generic"}, audience : {None, "a"}]

Plain == [type : {"plain"}, audience : {None}, token : {NoToken, tUser},
          headers : {EmptyMap, "x-trace" :> tUser}]

Part(kind, body, barred, isError, size) ==
    [kind |-> kind, name |-> "n1", body |-> body, kept |-> "id", barred |-> barred,
     isError |-> isError, size |-> size]

Text(body) == Part("text", body, FALSE, FALSE, None)

Tool(kind) == {Part(kind, "b1", b, FALSE, None) : b \in BOOLEAN}
ToolResult == {Part("tool_result", b, FALSE, e, None) : b \in {"b1", "error"}, e \in BOOLEAN}
Prompt(kind) == {Part(kind, b, r, FALSE, None) : b \in {"b1", "loose"}, r \in BOOLEAN}
Resource == {Part("resource", b, FALSE, FALSE, s) :
                b \in {"none", "blob"}, s \in {None}}
            \cup {Part("resource", "b1", r, FALSE, s) : r \in BOOLEAN, s \in {None, "b1"}}
            \cup {Part("resource_ref", "none", FALSE, FALSE, None)}

Messages(parts) ==
    {<<p>> : p \in parts} \cup {<<Text(b), p>> : b \in {"none", "b1"}, p \in parts}
    \cup {<<p, p>> : p \in parts} \cup {<<Text("b1")>>}

Request(hooks, payloads, raws) ==
    [hook : hooks, payload : payloads, canon : {Canon(r) : r \in raws}]

Cmf(h, parts) ==
    Request({h}, [type : {"cmf"}, message : Messages(parts)], {None})

MCRequests ==
    Request({"identity.resolve"}, Identity, {None})
    \cup Request({"token.delegate"}, Delegation, {None})
    \cup Request({"identity.resolve", "token.delegate"}, Generic, RawSets)
    \cup Request({"identity.resolve", "token.delegate"}, Plain, RawSets)
    \cup Request({"custom.hook", "tool_pre_invoke"}, Generic, RawSets)
    \cup Request({"custom.hook", "cmf.tool_pre_invoke"}, [type : {"foreign"}], {None})
    \cup Cmf("cmf.tool_pre_invoke", Tool("tool_call"))
    \cup Cmf("cmf.tool_post_invoke", ToolResult)
    \cup Cmf("cmf.prompt_pre_invoke", Prompt("prompt_request"))
    \cup Cmf("cmf.prompt_post_invoke", Prompt("prompt_result"))
    \cup Cmf("cmf.resource_pre_fetch", Resource)
    \cup Cmf("cmf.resource_post_fetch", Resource)
    \cup Cmf("cmf.llm_input", {Text("b1")})

Writer == {"read_agent", "append_labels", "append_delegation", "write_headers"}

Plugin(caps, onError) == [caps |-> caps, onError |-> onError]

MCChains ==
    {<<Plugin({Inbound} \cup Writer, "ignore"), Plugin(d, "fail")>> :
        d \in {{}, {Inbound, Delegated}}}
    \cup {<<Plugin({Delegated}, "fail"), Plugin({Inbound}, "ignore")>>}

NoEdit == [http |-> None, security |-> None, delegation |-> None, custom |-> None]

MCExtensionEdits ==
    {None, Bad, NoEdit, [NoEdit EXCEPT !.security = Bad], [NoEdit EXCEPT !.custom = "c"]}
    \cup {[NoEdit EXCEPT !.http = [headers |-> h, host |-> "elsewhere"]] :
            h \in {EmptyMap, "Authorization" :> tNew, "x-trace" :> tUser}}
    \cup {[NoEdit EXCEPT !.security = [labels |-> l, subject |-> "carol"]] :
            l \in {{}, {"vip"}}}
    \cup {[NoEdit EXCEPT !.delegation = [chain |-> c, origin |-> "carol"]] :
            c \in {<<>>, <<"h2">>, <<"h1", "h2">>}}
=============================================================================
