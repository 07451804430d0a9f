---------------------------- MODULE WorkerClient ----------------------------
(***************************************************************************)
(* The host side of one worker.py subprocess (cpex-hosts-python,           *)
(* worker.rs): concurrent send_task calls multiplexed over one stdin and   *)
(* one stdout pipe, the writer and reader tasks that own the pipes, and    *)
(* the shutdown calls that reap the child.                                 *)
(*                                                                         *)
(* Every await point of send_task is a step of its own, because the reader *)
(* task, the timer, other callers and cancellation interleave there.  The  *)
(* worker process is external: it may answer a task it received, answer it *)
(* twice, print noise, emit a frame over max_content_size, close a pipe or *)
(* exit, at any time and in any order.                                     *)
(***************************************************************************)
EXTENDS Naturals, Sequences, FiniteSets

CONSTANTS
    Requests,   \* one element per send_task call: the uuid it generates
    Closers,    \* one element per call of WorkerClient::shutdown
    NoId,       \* an id nobody waits for: a missing one, or the fixed "shutdown"
    MaxFrames   \* bound on the lines the worker writes to stdout

ASSUME NoIdAssumption == NoId \notin Requests
ASSUME MaxFramesAssumption == MaxFrames \in Nat

VARIABLES
    call,       \* control point of each send_task call
    result,     \* what a returned call handed to its caller
    pending,    \* keys of the map from request id to one-shot sender
    slot,       \* state of each call's one-shot channel
    alive,      \* the flag is_alive() loads
    outbound,   \* the mpsc channel to the writer task
    writer,     \* the writer task
    received,   \* tasks written to the worker's stdin
    stdout,     \* every line the worker has written, oldest first
    cursor,     \* how many of them the reader task has consumed
    open,       \* pipe ends the worker process still holds
    process,    \* the child process
    reader,     \* the reader task
    child,      \* the Option<Child> behind its mutex
    closer      \* control point of each shutdown call

callVars == <<call, result, pending, slot>>
pipeVars == <<outbound, writer, received, stdout, cursor>>
procVars == <<open, process, reader, alive>>
shutVars == <<child, closer>>
vars == <<callVars, pipeVars, procVars, shutVars>>

(***************************************************************************)
(* A stdout line by what the reader can tell of it: an answer, an answer   *)
(* with status "error", or a line over the size limit, and the request id  *)
(* it could read off it.  A blank, non-JSON or id-less line is an answer   *)
(* with no id.                                                             *)
(***************************************************************************)
Frames == [kind : {"ok", "error", "big"}, id : Requests \cup {NoId}]

Outcomes == {"ok", "error", "task_too_large", "response_too_large", "died", "timeout"}

\* Control points of a send_task that holds, or may hold, a map entry.
Registered == {"registered", "unsent", "waiting", "expiring"}

InFlight == {"checked"} \cup Registered

Init ==
    /\ call = [r \in Requests |-> "idle"]
    /\ result = [r \in Requests |-> "none"]
    /\ pending = {}
    /\ slot = [r \in Requests |-> "empty"]
    /\ alive = TRUE
    /\ outbound = <<>>
    /\ writer = "running"
    /\ received = {}
    /\ stdout = <<>>
    /\ cursor = 0
    /\ open = {"stdin", "stdout"}
    /\ process = "running"
    /\ reader = "reading"
    /\ child = "held"
    /\ closer = [c \in Closers |-> "idle"]

-----------------------------------------------------------------------------
(* send_task *)

Return(r, outcome) ==
    /\ call' = [call EXCEPT ![r] = "returned"]
    /\ result' = [result EXCEPT ![r] = outcome]

\* is_alive() is FALSE: fail at once, nothing registered.
FailFast(r) ==
    /\ call[r] = "idle"
    /\ ~alive
    /\ Return(r, "died")
    /\ UNCHANGED <<pending, slot, pipeVars, procVars, shutVars>>

\* The serialized line is over max_content_size: rejected before registering.
RejectOversizedTask(r) ==
    /\ call[r] = "idle"
    /\ alive
    /\ Return(r, "task_too_large")
    /\ UNCHANGED <<pending, slot, pipeVars, procVars, shutVars>>

\* The flag was set and the line fits; pending.lock().await comes next.
PassChecks(r) ==
    /\ call[r] = "idle"
    /\ alive
    /\ call' = [call EXCEPT ![r] = "checked"]
    /\ UNCHANGED <<result, pending, slot, pipeVars, procVars, shutVars>>

Register(r) ==
    /\ call[r] = "checked"
    /\ pending' = pending \cup {r}
    /\ call' = [call EXCEPT ![r] = "registered"]
    /\ UNCHANGED <<result, slot, pipeVars, procVars, shutVars>>

\* outbound.send fails only when the writer task dropped its receiver.
SendOutbound(r) ==
    /\ call[r] = "registered"
    /\ \/ /\ writer = "running"
          /\ outbound' = Append(outbound, r)
          /\ call' = [call EXCEPT ![r] = "waiting"]
       \/ /\ writer = "stopped"
          /\ call' = [call EXCEPT ![r] = "unsent"]
          /\ UNCHANGED outbound
    /\ UNCHANGED <<result, pending, slot, writer, received, stdout, cursor, procVars, shutVars>>

AbandonUnsent(r) ==
    /\ call[r] = "unsent"
    /\ pending' = pending \ {r}
    /\ Return(r, "died")
    /\ UNCHANGED <<slot, pipeVars, procVars, shutVars>>

\* The one-shot resolved: with a response, with an error, or by being dropped.
ReceivedOutcome ==
    [ok |-> "ok", error |-> "error", big |-> "response_too_large", dropped |-> "died"]

TakeResponse(r) ==
    /\ call[r] = "waiting"
    /\ slot[r] # "empty"
    /\ Return(r, ReceivedOutcome[slot[r]])
    /\ UNCHANGED <<pending, slot, pipeVars, procVars, shutVars>>

\* Mutated form: the timer is trusted to the reader once the worker is dead.
TimerFiresWhileAlive(r) ==
    /\ call[r] = "waiting"
    /\ slot[r] = "empty"
    /\ alive
    /\ call' = [call EXCEPT ![r] = "expiring"]
    /\ UNCHANGED <<result, pending, slot, pipeVars, procVars, shutVars>>

\* timeout() polls the receiver before the deadline, so a ready value wins.
TimerFires(r) ==
    /\ call[r] = "waiting"
    /\ slot[r] = "empty"
    /\ call' = [call EXCEPT ![r] = "expiring"]
    /\ UNCHANGED <<result, pending, slot, pipeVars, procVars, shutVars>>

\* Mutated form: the timeout path forgets to unregister.
ExpireKeepsEntry(r) ==
    /\ call[r] = "expiring"
    /\ Return(r, "timeout")
    /\ UNCHANGED <<pending, slot, pipeVars, procVars, shutVars>>

Expire(r) ==
    /\ call[r] = "expiring"
    /\ pending' = pending \ {r}
    /\ Return(r, "timeout")
    /\ UNCHANGED <<slot, pipeVars, procVars, shutVars>>

\* The caller drops the future at an await point; a map entry stays behind.
Cancel(r) ==
    /\ call[r] \in InFlight
    /\ call' = [call EXCEPT ![r] = "cancelled"]
    /\ UNCHANGED <<result, pending, slot, pipeVars, procVars, shutVars>>

-----------------------------------------------------------------------------
(* writer_loop *)

WriterWrites ==
    /\ writer = "running"
    /\ outbound # <<>>
    /\ "stdin" \in open
    /\ received' = received \cup {Head(outbound)}
    /\ outbound' = Tail(outbound)
    /\ UNCHANGED <<writer, stdout, cursor, callVars, procVars, shutVars>>

\* A broken pipe ends the task, which drops the channel and what is queued.
WriterStops ==
    /\ writer = "running"
    /\ outbound # <<>>
    /\ "stdin" \notin open
    /\ writer' = "stopped"
    /\ outbound' = <<>>
    /\ UNCHANGED <<received, stdout, cursor, callVars, procVars, shutVars>>

-----------------------------------------------------------------------------
(* reader_loop *)

NextFrame == stdout[cursor + 1]

\* Send value v on the one-shots of the callers in R and forget them.
Resolve(R, v) ==
    /\ slot' = [r \in Requests |-> IF r \in R THEN v ELSE slot[r]]
    /\ pending' = pending \ R

\* Mutated form: a line with an unknown id is given to whoever waits.
ReaderRoutesToAnyone ==
    /\ reader = "reading"
    /\ cursor < Len(stdout)
    /\ NextFrame.kind # "big"
    /\ cursor' = cursor + 1
    /\ Resolve(IF NextFrame.id \in pending THEN {NextFrame.id} ELSE pending, NextFrame.kind)
    /\ UNCHANGED <<call, result, outbound, writer, received, stdout, procVars, shutVars>>

\* An in-limit line goes to the sender registered under its id, if any.
ReaderRoutes ==
    /\ reader = "reading"
    /\ cursor < Len(stdout)
    /\ NextFrame.kind # "big"
    /\ cursor' = cursor + 1
    /\ Resolve(pending \cap {NextFrame.id}, NextFrame.kind)
    /\ UNCHANGED <<call, result, outbound, writer, received, stdout, procVars, shutVars>>

\* Mutated form: every in-flight request fails, whatever id the line has.
OversizedVictimsAll == pending

\* An over-limit line fails the caller whose id could be read off the prefix
\* if that caller is still in the map, and otherwise everyone in the map.
OversizedVictims ==
    IF NextFrame.id \in pending THEN {NextFrame.id} ELSE pending

\* Mutated form: the whole map is drained, the owner alone is told.
ReaderDiscardsDrainsAll ==
    /\ reader = "reading"
    /\ cursor < Len(stdout)
    /\ NextFrame.kind = "big"
    /\ cursor' = cursor + 1
    /\ slot' = [r \in Requests |-> IF r \in OversizedVictims THEN "big" ELSE slot[r]]
    /\ pending' = {}
    /\ UNCHANGED <<call, result, outbound, writer, received, stdout, procVars, shutVars>>

ReaderDiscards ==
    /\ reader = "reading"
    /\ cursor < Len(stdout)
    /\ NextFrame.kind = "big"
    /\ cursor' = cursor + 1
    /\ Resolve(OversizedVictims, "big")
    /\ UNCHANGED <<call, result, outbound, writer, received, stdout, procVars, shutVars>>

\* Mutated form: the map is cleared without marking the worker dead first.
ReaderMarksNothing ==
    /\ reader = "reading"
    /\ "stdout" \notin open
    /\ cursor = Len(stdout)
    /\ reader' = "draining"
    /\ UNCHANGED <<alive, open, process, callVars, pipeVars, shutVars>>

\* EOF: the flag first, the map in a later step.
ReaderMarksDead ==
    /\ reader = "reading"
    /\ "stdout" \notin open
    /\ cursor = Len(stdout)
    /\ alive' = FALSE
    /\ reader' = "draining"
    /\ UNCHANGED <<open, process, callVars, pipeVars, shutVars>>

\* A read error ends the loop the same way, with lines left unread.
ReaderFails ==
    /\ reader = "reading"
    /\ alive' = FALSE
    /\ reader' = "draining"
    /\ UNCHANGED <<open, process, callVars, pipeVars, shutVars>>

ReaderClears ==
    /\ reader = "draining"
    /\ Resolve(pending, "dropped")
    /\ reader' = "stopped"
    /\ UNCHANGED <<call, result, alive, open, process, pipeVars, shutVars>>

-----------------------------------------------------------------------------
(* shutdown *)

\* Only the call that finds the child in its Option does anything.
ShutdownTakes(c) ==
    /\ closer[c] = "idle"
    /\ child = "held"
    /\ child' = "taken"
    /\ closer' = [closer EXCEPT ![c] = "grace"]
    /\ outbound' = IF writer = "running" THEN Append(outbound, NoId) ELSE outbound
    /\ UNCHANGED <<writer, received, stdout, cursor, callVars, procVars>>

ShutdownNoop(c) ==
    /\ closer[c] = "idle"
    /\ child # "held"
    /\ closer' = [closer EXCEPT ![c] = "returned"]
    /\ UNCHANGED <<child, callVars, pipeVars, procVars>>

ShutdownReaps(c) ==
    /\ closer[c] = "grace"
    /\ process = "exited"
    /\ child' = "reaped"
    /\ closer' = [closer EXCEPT ![c] = "returned"]
    /\ UNCHANGED <<callVars, pipeVars, procVars>>

\* Mutated form: the grace window closes and nobody kills.
ShutdownGivesUp(c) ==
    /\ closer[c] = "grace"
    /\ process = "running"
    /\ closer' = [closer EXCEPT ![c] = "returned"]
    /\ UNCHANGED <<child, callVars, pipeVars, procVars>>

\* The grace window closed with the worker running: kill() and wait.
ShutdownKills(c) ==
    /\ closer[c] = "grace"
    /\ process = "running"
    /\ process' = "exited"
    /\ open' = {}
    /\ child' = "reaped"
    /\ closer' = [closer EXCEPT ![c] = "returned"]
    /\ UNCHANGED <<reader, alive, callVars, pipeVars>>

\* The future is dropped inside the grace window: kill_on_drop.
ShutdownCancelled(c) ==
    /\ closer[c] = "grace"
    /\ process' = "exited"
    /\ open' = {}
    /\ child' = "reaped"
    /\ closer' = [closer EXCEPT ![c] = "returned"]
    /\ UNCHANGED <<reader, alive, callVars, pipeVars>>

-----------------------------------------------------------------------------
(* The worker process (external). *)

\* Answer a task that was received, possibly again, or print anything else.
WorkerPrints ==
    /\ "stdout" \in open
    /\ Len(stdout) < MaxFrames
    /\ \E f \in Frames :
          /\ f.id \in received \cup {NoId}
          /\ stdout' = Append(stdout, f)
    /\ UNCHANGED <<outbound, writer, received, cursor, callVars, procVars, shutVars>>

WorkerClosesPipe ==
    /\ \E p \in open : open' = open \ {p}
    /\ UNCHANGED <<process, reader, alive, callVars, pipeVars, shutVars>>

WorkerExits ==
    /\ process = "running"
    /\ process' = "exited"
    /\ open' = {}
    /\ UNCHANGED <<reader, alive, callVars, pipeVars, shutVars>>

-----------------------------------------------------------------------------

\* Everything a send_task call does once it was made, but being cancelled.
CallStep(r) ==
    \/ Register(r) \/ SendOutbound(r) \/ AbandonUnsent(r)
    \/ TakeResponse(r) \/ TimerFires(r) \/ Expire(r)

ReaderStep ==
    ReaderRoutes \/ ReaderDiscards \/ ReaderMarksDead \/ ReaderClears

ShutdownStep(c) ==
    ShutdownReaps(c) \/ ShutdownKills(c)

Next ==
    \/ \E r \in Requests :
          FailFast(r) \/ RejectOversizedTask(r) \/ PassChecks(r) \/ CallStep(r) \/ Cancel(r)
    \/ WriterWrites
    \/ WriterStops
    \/ ReaderStep
    \/ ReaderFails
    \/ \E c \in Closers :
          ShutdownTakes(c) \/ ShutdownNoop(c) \/ ShutdownStep(c) \/ ShutdownCancelled(c)
    \/ WorkerPrints
    \/ WorkerClosesPipe
    \/ WorkerExits

Spec == Init /\ [][Next]_vars

\* tokio polls every task that is ready and fires every timer; nothing is
\* assumed of the worker, nor of the writer, which may block on a full pipe.
Fairness ==
    /\ \A r \in Requests : WF_vars(CallStep(r))
    /\ \A c \in Closers : WF_vars(ShutdownStep(c))
    /\ WF_vars(ReaderStep)

FairSpec == Spec /\ Fairness

-----------------------------------------------------------------------------
(* Properties *)

\* Types of the client's state.
TypeOK ==
    /\ call \in [Requests -> InFlight \cup {"idle", "returned", "cancelled"}]
    /\ result \in [Requests -> Outcomes \cup {"none"}]
    /\ pending \subseteq Requests
    /\ slot \in [Requests -> {"empty", "ok", "error", "big", "dropped"}]
    /\ alive \in BOOLEAN
    /\ outbound \in Seq(Requests \cup {NoId})
    /\ writer \in {"running", "stopped"}
    /\ received \subseteq Requests \cup {NoId}
    /\ stdout \in Seq(Frames)
    /\ cursor \in 0..Len(stdout)
    /\ open \subseteq {"stdin", "stdout"}
    /\ process \in {"running", "exited"}
    /\ reader \in {"reading", "draining", "stopped"}
    /\ child \in {"held", "taken", "reaped"}
    /\ closer \in [Closers -> {"idle", "grace", "returned"}]

Printed(kind, id) ==
    \E i \in 1..cursor : stdout[i] = [kind |-> kind, id |-> id]

\* Demultiplexing: whatever the interleaving of callers, duplicates, late and
\* oversized frames, a call returns a response only if the worker printed one
\* of that status under that call's own id.
OwnAnswerOnly ==
    \A r \in Requests :
        result[r] \in {"ok", "error"} => Printed(result[r], r)

\* The reader task can always reach a caller that has nothing yet: while the
\* one-shot of a registered call is unresolved its sender is in the map, so no
\* caller is lost by another's timeout, drain or late frame.
NoLostSender ==
    \A r \in Requests :
        call[r] \in {"registered", "waiting"} /\ slot[r] = "empty" => r \in pending

\* A call that returned, on whichever path, left no entry in the map; only a
\* call in flight or dropped by its caller can be in it.
NoEntryAfterReturn ==
    \A r \in pending : call[r] \in Registered \cup {"cancelled"}

(* What a caller can see of the client, for TaskExchange. *)

Phase == [r \in Requests |->
             CASE call[r] = "idle" -> "idle"
               [] call[r] = "returned" -> "closed"
               [] call[r] = "cancelled" -> "abandoned"
               [] OTHER -> "open"]
Consumed == {stdout[i] : i \in 1..cursor}
Broken == ~alive \/ writer = "stopped"

\* The exchange that a caller of this client can rely on.
Contract == INSTANCE TaskExchange WITH
    phase <- Phase, outcome <- result, replies <- Consumed, broken <- Broken

\* The client implements the exchange: every step of a caller, of the writer
\* and reader tasks, of shutdown or of the worker is a step of it or none at
\* all, so that every call is closed once, with its own answer, a death that
\* is_alive() confirms, an oversized line that was read, or a timeout.
ImplementsExchange == Contract!Exchange

\* A caller told that the worker died finds is_alive() FALSE when it looks, so
\* the next invocation respawns; the writer's broken pipe is the one exception.
DiedMeansMarkedDead ==
    \A r \in Requests : result[r] = "died" => ~alive \/ writer = "stopped"

PrintedTwice(kind, id) ==
    \E i, j \in 1..cursor :
        i # j /\ stdout[i] = [kind |-> kind, id |-> id] /\ stdout[j] = stdout[i]

\* Call s was over before, or without, a frame over the limit of its own.
SettledOtherwise(s) ==
    \/ call[s] = "cancelled"
    \/ call[s] = "returned" /\ result[s] # "response_too_large"
    \/ slot[s] \in {"ok", "error", "dropped"}
    \/ PrintedTwice("big", s)

\* A frame over the limit fails its own caller alone as long as that caller
\* waits: another call is failed by one only if a frame carried no readable
\* id, or belonged to a call that something else had already settled.
OversizedSparesOthers ==
    \A r \in Requests :
        result[r] = "response_too_large" =>
            \/ \E id \in {r, NoId} : Printed("big", id)
            \/ \E s \in Requests : Printed("big", s) /\ SettledOtherwise(s)

\* Every send_task whose future is kept returns, whatever the worker does.
EveryCallReturns ==
    \A r \in Requests : call[r] \in InFlight ~> call[r] \in {"returned", "cancelled"}

\* A worker that exits is eventually reported dead by is_alive().
DeathIsNoticed == process = "exited" ~> ~alive

\* A shutdown that took the child returns, and leaves no process behind.
ShutdownReaches ==
    child = "taken" ~> child = "reaped" /\ process = "exited"

(***************************************************************************)
(* "a send that races this teardown either sees the flag and fails fast,   *)
(* or finds its sender dropped. Either way it does not wait out the        *)
(* timeout." (end of reader_loop): no call whose timer fires is still      *)
(* registered in the map of a reader that has stopped.                     *)
(***************************************************************************)
NoTimeoutAfterTeardown ==
    \A r \in Requests :
        call[r] = "expiring" /\ r \in pending => reader # "stopped"
=============================================================================
