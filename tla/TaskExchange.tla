---------------------------- MODULE TaskExchange ----------------------------
(***************************************************************************)
(* What WorkerClient::send_task promises its callers, without the pipes,   *)
(* the map and the tasks behind it (the contract in the comments of        *)
(* cpex-hosts-python/src/worker.rs).  A request is opened, and closed once *)
(* with an outcome that something the worker did accounts for.             *)
(***************************************************************************)
CONSTANTS
    Requests,  \* the send_task calls
    NoId       \* the id of a line that names no request

VARIABLES
    phase,    \* where each request stands
    outcome,  \* what its caller was told
    replies,  \* the lines read from the worker
    broken    \* the worker can no longer be talked to

exchangeVars == <<phase, outcome, replies, broken>>

Replies == [kind : {"ok", "error", "big"}, id : Requests \cup {NoId}]

ExchangeInit ==
    /\ phase = [r \in Requests |-> "idle"]
    /\ outcome = [r \in Requests |-> "none"]
    /\ replies = {}
    /\ broken = FALSE

\* The outcomes of a request that was never sent, and of one that was.
Refusal(o) == o = "task_too_large" \/ (o = "died" /\ broken)

Justified(r, o) ==
    \/ o \in {"ok", "error"} /\ [kind |-> o, id |-> r] \in replies
    \/ o = "response_too_large" /\ \E f \in replies : f.kind = "big"
    \/ o = "died" /\ broken
    \/ o = "timeout"

Open(r) ==
    /\ phase[r] = "idle"
    /\ phase' = [phase EXCEPT ![r] = "open"]
    /\ UNCHANGED <<outcome, replies, broken>>

Close(r, o) ==
    /\ outcome' = [outcome EXCEPT ![r] = o]
    /\ \/ phase[r] = "idle" /\ Refusal(o)
       \/ phase[r] = "open" /\ Justified(r, o)
    /\ phase' = [phase EXCEPT ![r] = "closed"]
    /\ UNCHANGED <<replies, broken>>

\* The caller drops its future.
Abandon(r) ==
    /\ phase[r] = "open"
    /\ phase' = [phase EXCEPT ![r] = "abandoned"]
    /\ UNCHANGED <<outcome, replies, broken>>

Reply ==
    /\ UNCHANGED <<phase, outcome, broken>>
    /\ \E f \in Replies : replies' = replies \cup {f}

Break ==
    /\ broken' = TRUE
    /\ UNCHANGED <<phase, outcome, replies>>

ExchangeNext ==
    \/ \E r \in Requests :
         \/ Open(r) \/ Abandon(r)
         \/ \E o \in {"ok", "error", "task_too_large", "response_too_large", "died", "timeout"} :
               Close(r, o)
    \/ Reply \/ Break

Exchange == ExchangeInit /\ [][ExchangeNext]_exchangeVars
=============================================================================
