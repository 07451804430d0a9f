------------------------------- MODULE CmfShim -------------------------------
(***************************************************************************)
(* legacy/cmf_shim.rs: a cmf.* message translated to the one legacy        *)
(* payload a worker without `cmf_hooks` understands, and a modified legacy *)
(* payload mapped back onto the message.                                   *)
(*                                                                         *)
(* A part is [kind, name, body, kept, barred, isError, size]:              *)
(*   name     what is sent as the tool's name, the prompt's or the URI     *)
(*   body     what is sent as arguments, result, messages or text:         *)
(*            "none" carries nothing, "error" says isError, "loose" is a   *)
(*            value the legacy type cannot hold (a prompt argument that is *)
(*            not a string, a prompt message that is not one text), "blob" *)
(*            a resource's binary content                                  *)
(*   kept     ids, labels, channels: not sent, not changed                 *)
(*   barred   a field is set that qualifies what is authorized or hides    *)
(*            content: namespace, server_id, version, a prompt result's    *)
(*            content, error_message or is_error                           *)
(*   isError  a tool result's flag                                         *)
(*   size     the body a resource's size_bytes was measured from, or None; *)
(*            it stands for mime_type too where a rewrite is refused       *)
(***************************************************************************)
EXTENDS JsonValues, Integers, Sequences, FiniteSets

ShimmedHooks ==
    {"cmf.tool_pre_invoke", "cmf.tool_post_invoke", "cmf.prompt_pre_invoke",
     "cmf.prompt_post_invoke", "cmf.resource_pre_fetch", "cmf.resource_post_fetch"}

LlmHooks == {"cmf.llm_input", "cmf.llm_output"}

IsCmfHook(hook) == hook \in ShimmedHooks \cup LlmHooks

LegacyHook(hook) ==
    CASE hook = "cmf.tool_pre_invoke" -> "tool_pre_invoke"
      [] hook = "cmf.tool_post_invoke" -> "tool_post_invoke"
      [] hook = "cmf.prompt_pre_invoke" -> "prompt_pre_fetch"
      [] hook = "cmf.prompt_post_invoke" -> "prompt_post_fetch"
      [] hook = "cmf.resource_pre_fetch" -> "resource_pre_fetch"
      [] hook = "cmf.resource_post_fetch" -> "resource_post_fetch"

(* Mutant: the prompt result hook counts as a pre hook.                    *)
IsPostResults(hook) == hook \in {"cmf.tool_post_invoke", "cmf.resource_post_fetch"}

IsPost(hook) ==
    hook \in {"cmf.tool_post_invoke", "cmf.prompt_post_invoke", "cmf.resource_post_fetch"}

PartKinds(hook) ==
    CASE hook = "cmf.tool_pre_invoke" -> {"tool_call"}
      [] hook = "cmf.tool_post_invoke" -> {"tool_result"}
      [] hook = "cmf.prompt_pre_invoke" -> {"prompt_request"}
      [] hook = "cmf.prompt_post_invoke" -> {"prompt_result"}
      [] OTHER -> {"resource", "resource_ref"}

CarriesContent(part) == part.kind \notin {"text", "thinking"} \/ part.body # "none"

SaysError(body) == body = "error"

Candidates(hook, message) == {i \in DOMAIN message : message[i].kind \in PartKinds(hook)}

(* A part that no legacy payload can represent.                            *)
Unrepresentable(hook, part) ==
    \/ part.barred /\ part.kind # "resource_ref"
    \/ part.kind = "tool_result" /\ part.isError /\ ~SaysError(part.body)
    \/ part.kind \in {"prompt_request", "prompt_result"} /\ part.body = "loose"
    \/ hook = "cmf.resource_post_fetch" /\ (part.kind = "resource_ref" \/ part.body = "blob")

(* A pre-fetch sends the URI alone.                                        *)
LegacyPayload(hook, index, part) ==
    [hook |-> LegacyHook(hook), index |-> index, name |-> part.name,
     body |-> IF hook = "cmf.resource_pre_fetch" THEN "none" ELSE part.body]

(* Exactly one part of the hook's kind; on a post hook nothing beside it   *)
(* that a plugin would have to see.  The LLM hooks have no legacy form.    *)
ToLegacy(hook, message) ==
    LET candidates == Candidates(hook, message)
        index == CHOOSE i \in candidates : TRUE
        unseen == {i \in DOMAIN message \ {index} : CarriesContent(message[i])}
    IN  IF \/ hook \notin ShimmedHooks
           \/ Cardinality(candidates) # 1
           \/ IsPost(hook) /\ unseen # {}
           \/ Unrepresentable(hook, message[index])
        THEN Refused
        ELSE LegacyPayload(hook, index, message[index])

-----------------------------------------------------------------------------
(* A modified legacy payload is Bad or [name, body, extra]: extra says it  *)
(* carries something the part has no slot for (headers, metadata, a prompt *)
(* description, a blob, another content.id or content.uri).                *)

ModifiedLegacy(names, bodies) ==
    [name : names, body : bodies, extra : BOOLEAN] \cup {Bad}

RefusesExtra(hook) ==
    hook \in {"cmf.tool_pre_invoke", "cmf.prompt_post_invoke",
              "cmf.resource_pre_fetch", "cmf.resource_post_fetch"}

(* Mutant: the size is never measured again.                               *)
RemeasuredNever(part, body) == part.size

(* A size describes the text it was measured from.                         *)
Remeasured(part, body) ==
    IF body = part.body \/ part.size = None THEN part.size
    ELSE IF body = "none" THEN None ELSE body

(* The part with the fields the legacy payload carries replaced, or        *)
(* Refused.                                                                *)
ApplyToPart(hook, part, mod) ==
    IF mod = Bad THEN Refused
    ELSE IF mod.extra /\ RefusesExtra(hook) THEN Refused
    ELSE
    CASE hook = "cmf.tool_pre_invoke" ->
            [part EXCEPT !.name = mod.name, !.body = mod.body]
      [] hook = "cmf.tool_post_invoke" ->
            IF part.isError /\ ~SaysError(mod.body) THEN Refused
            ELSE [part EXCEPT !.name = mod.name, !.body = mod.body,
                              !.isError = @ \/ SaysError(mod.body)]
      [] hook \in {"cmf.prompt_pre_invoke", "cmf.prompt_post_invoke"} ->
            IF mod.body = "loose" THEN Refused
            ELSE [part EXCEPT !.name = mod.name, !.body = mod.body]
      [] hook = "cmf.resource_pre_fetch" ->
            IF /\ part.kind = "resource" /\ mod.name # part.name
               /\ (part.body # "none" \/ part.size # None)
            THEN Refused
            ELSE [part EXCEPT !.name = mod.name]
      [] hook = "cmf.resource_post_fetch" ->
            IF mod.body = "loose" THEN Refused
            ELSE [part EXCEPT !.name = mod.name, !.body = mod.body,
                              !.size = Remeasured(part, mod.body)]

ApplyModified(hook, message, legacy, mod) ==
    LET new == ApplyToPart(hook, message[legacy.index], mod)
    IN  IF new = Refused THEN Refused ELSE [message EXCEPT ![legacy.index] = new]
=============================================================================
