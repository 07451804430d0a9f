------------------------------- MODULE MCHost -------------------------------
(* A small instance of HostEntry for TLC. *)
EXTENDS HostEntry, TLC

MCSymmetry == Permutations(Threads)

Raw(len) == [len |-> len, valid |-> TRUE, key |-> "root"]
MCSources ==
    {[kind |-> "hex", isHex |-> TRUE, decoded |-> Raw(32)],
     [kind |-> "file", readable |-> TRUE, raw |-> Raw(64), isHex |-> FALSE, decoded |-> Raw(32)]}

GoodKey == {s \in MCSources : s.kind = "hex"}
BadKey == {s \in MCSources : s.kind = "file"}

MCInbound ==
    {[key |-> "root", checks |-> {[ops |-> {"read"}, bound |-> 2]}],
     [key |-> "other", checks |-> {}]}

MCPayloads ==
    {[perms |-> {"write"}, capabilities |-> {}, audience |-> TRUE, hint |-> 1],
     [perms |-> {}, capabilities |-> {"read"}, audience |-> FALSE, hint |-> NoHint]}

Plain == [wellFormed |-> TRUE, apl |-> FALSE, builtin |-> FALSE, identity |-> FALSE,
          delegators |-> {}]
MCConfigs ==
    {Plain, [Plain EXCEPT !.wellFormed = FALSE],
     [Plain EXCEPT !.delegators = BadKey],
     [Plain EXCEPT !.apl = TRUE, !.builtin = TRUE],
     [Plain EXCEPT !.identity = TRUE, !.delegators = GoodKey]}

Bearer == CHOOSE tok \in MCInbound : tok.key = "root"
Invoke(hook, type, body, ext) ==
    [hook |-> hook, type |-> type, body |-> body, ext |-> ext, ident |-> "absent",
     bearer |-> NoToken]
Resolved(hook, ext, ident, bearer) ==
    [hook |-> hook, type |-> "message", body |-> "ok", ext |-> ext, ident |-> ident,
     bearer |-> bearer]

MCGoRequests ==
    {Invoke("tool_pre_invoke", "message", "ok", "absent"),
     Invoke("cmf.tool_pre_invoke", "unknown", "ok", "absent"),
     Invoke("identity.resolve", "identity", "forged", "absent"),
     Invoke("cmf.tool_pre_invoke", "message", "ok", "bad"),
     Invoke("identity.resolve", "identity", "ok", "absent"),
     Invoke("cmf.tool_pre_invoke", "message", "ok", "echoed"),
     Invoke("custom", "generic", "nan", "absent"),
     Resolved("cmf.tool_pre_invoke", "echoed", "ok", Bearer),
     Resolved("cmf.tool_pre_invoke", "absent", "ok", CHOOSE tok \in MCInbound : tok.key = "other"),
     Resolved("cmf.tool_pre_invoke", "absent", "bad", Bearer),
     Resolved("cmf.tool_pre_invoke", "absent", "forged", Bearer)}

MCReports ==
    {[updated |-> {"client"}, unchanged |-> 0,
      failed |-> {[secret |-> "signing", provider |-> "vault", source |-> src]}] :
         src \in {"Backend", "Unheard"}}

Value(leaf) == [depth |-> 1, keys |-> "str", dict |-> TRUE, leaf |-> leaf]
Hook(name, value, body, ext, ctx) ==
    [hook |-> name, value |-> value, body |-> body, ext |-> ext, ctx |-> ctx]
MCPyRequests ==
    {Hook("custom", Value(leaf), "ok", "absent", "absent") :
         leaf \in {"bool", "int", "bigint"}}
    \cup {Hook("token_delegate", Value("str"), "ok", "absent", "absent"),
          Hook("custom", [Value("str") EXCEPT !.depth = MaxDepth + 1], "ok", "absent", "absent"),
          Hook("custom", [Value("str") EXCEPT !.keys = "int"], "ok", "absent", "absent"),
          Hook("cmf.tool_pre_invoke", Value("str"), "bad", "absent", "absent"),
          Hook("identity.resolve", Value("str"), "forged", "absent", "absent"),
          Hook("identity.resolve", Value("str"), "ok", "absent", "absent"),
          Hook("custom", [Value("str") EXCEPT !.dict = FALSE], "ok", "absent", "absent"),
          Hook("custom", Value("str"), "ok", "ok", "bad"),
          Hook("custom", Value("str"), "ok", "overflow", "absent")}
=============================================================================
