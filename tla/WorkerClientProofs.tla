------------------------- MODULE WorkerClientProofs -------------------------
(***************************************************************************)
(* Safety of WorkerClient for any number of calls, of shutdown calls and   *)
(* of stdout lines.                                                        *)
(***************************************************************************)
EXTENDS WorkerClient, SequenceTheorems, TLAPS

\* TypeOK is inductive: every step keeps the types of the client's state.
THEOREM TypeCorrect == Spec => []TypeOK
<1>1. Init => TypeOK
  BY DEF Init, TypeOK, InFlight, Registered, Outcomes, Frames
<1>2. TypeOK /\ [Next]_vars => TypeOK'
  <2> SUFFICES ASSUME TypeOK, [Next]_vars PROVE TypeOK'
    OBVIOUS
  <2> USE DEF TypeOK, InFlight, Registered, Outcomes, Return
  <2>1. ASSUME NEW r \in Requests, FailFast(r) \/ RejectOversizedTask(r) \/ PassChecks(r)
        PROVE TypeOK'
    BY <2>1 DEF FailFast, RejectOversizedTask, PassChecks, pipeVars, procVars, shutVars
  <2>2. ASSUME NEW r \in Requests, Register(r) PROVE TypeOK'
    BY <2>2 DEF Register, pipeVars, procVars, shutVars
  <2>3. ASSUME NEW r \in Requests, SendOutbound(r) PROVE TypeOK'
    <3>1. outbound' \in Seq(Requests \cup {NoId})
      <4>1. CASE outbound' = Append(outbound, r)
        BY <4>1
      <4>2. CASE UNCHANGED outbound
        BY <4>2
      <4>3. QED
        BY <2>3, <4>1, <4>2, Zenon DEF SendOutbound
    <3>2. call' \in [Requests -> InFlight \cup {"idle", "returned", "cancelled"}]
      BY <2>3 DEF SendOutbound
    <3>3. QED
      BY <2>3, <3>1, <3>2 DEF SendOutbound, procVars, shutVars
  <2>4. ASSUME NEW r \in Requests, AbandonUnsent(r) \/ Expire(r) PROVE TypeOK'
    BY <2>4 DEF AbandonUnsent, Expire, pipeVars, procVars, shutVars
  <2>5. ASSUME NEW r \in Requests, TakeResponse(r) PROVE TypeOK'
    <3>1. ReceivedOutcome[slot[r]] \in Outcomes
      BY <2>5 DEF TakeResponse, ReceivedOutcome
    <3>2. QED
      BY <2>5, <3>1 DEF TakeResponse, pipeVars, procVars, shutVars
  <2>6. ASSUME NEW r \in Requests, TimerFires(r) \/ Cancel(r) PROVE TypeOK'
    BY <2>6 DEF TimerFires, Cancel, pipeVars, procVars, shutVars
  <2>7. CASE WriterWrites
    BY <2>7 DEF WriterWrites, callVars, procVars, shutVars
  <2>8. CASE WriterStops
    BY <2>8 DEF WriterStops, callVars, procVars, shutVars
  <2>9. CASE ReaderRoutes
    <3>1. NextFrame \in Frames
      BY <2>9 DEF ReaderRoutes, NextFrame
    <3>2. NextFrame.kind \in {"ok", "error", "big"}
      BY <3>1 DEF Frames
    <3>3. QED
      BY <2>9, <3>2 DEF ReaderRoutes, Resolve, procVars, shutVars
  <2>10. CASE ReaderDiscards
    BY <2>10 DEF ReaderDiscards, Resolve, procVars, shutVars
  <2>11. CASE ReaderMarksDead \/ ReaderFails
    BY <2>11 DEF ReaderMarksDead, ReaderFails, callVars, pipeVars, shutVars
  <2>12. CASE ReaderClears
    BY <2>12 DEF ReaderClears, Resolve, pipeVars, shutVars
  <2>13. ASSUME NEW c \in Closers, ShutdownTakes(c) PROVE TypeOK'
    BY <2>13 DEF ShutdownTakes, callVars, procVars
  <2>14. ASSUME NEW c \in Closers, ShutdownNoop(c) \/ ShutdownReaps(c) PROVE TypeOK'
    BY <2>14 DEF ShutdownNoop, ShutdownReaps, callVars, pipeVars, procVars
  <2>15. ASSUME NEW c \in Closers, ShutdownKills(c) \/ ShutdownCancelled(c) PROVE TypeOK'
    BY <2>15 DEF ShutdownKills, ShutdownCancelled, callVars, pipeVars
  <2>16. CASE WorkerPrints
    BY <2>16 DEF WorkerPrints, callVars, procVars, shutVars
  <2>17. CASE WorkerClosesPipe \/ WorkerExits
    BY <2>17 DEF WorkerClosesPipe, WorkerExits, callVars, pipeVars, shutVars
  <2>18. CASE UNCHANGED vars
    BY <2>18 DEF vars, callVars, pipeVars, procVars, shutVars
  <2>19. QED
    BY <2>1, <2>2, <2>3, <2>4, <2>5, <2>6, <2>7, <2>8, <2>9, <2>10, <2>11, <2>12,
       <2>13, <2>14, <2>15, <2>16, <2>17, <2>18
       DEF Next, CallStep, ReaderStep, ShutdownStep
<1>3. QED
  BY <1>1, <1>2, PTL DEF Spec

-----------------------------------------------------------------------------
(***************************************************************************)
(* The inductive invariant.  None of the properties is inductive alone:    *)
(* what a call returns depends on what its one-shot holds, which depends   *)
(* on what the reader consumed, on who was in the map at that moment, and  *)
(* on the worker answering only what was sent.                             *)
(***************************************************************************)

\* A one-shot that is unresolved has its sender in the map until the call
\* returns or is dropped; a sender in the map has sent nothing.
SendersInMap ==
    \A r \in Requests :
        /\ call[r] \in Registered /\ slot[r] = "empty" => r \in pending
        /\ r \in pending => slot[r] = "empty"
        /\ call[r] \in {"idle", "checked"} => slot[r] = "empty"

\* Only calls that were sent are queued, received or answered.
Sent(id) == id = NoId \/ call[id] \in {"waiting", "expiring", "returned", "cancelled"}

OnlySentTravels ==
    /\ \A i \in 1..Len(outbound) : Sent(outbound[i])
    /\ \A id \in received : Sent(id)
    /\ \A i \in 1..Len(stdout) : Sent(stdout[i].id)

\* Where an over-limit failure of r came from.
OversizedCause(r) ==
    \/ \E id \in {r, NoId} : Printed("big", id)
    \/ \E s \in Requests : Printed("big", s) /\ SettledOtherwise(s)

\* What a one-shot holds has the cause its kind claims.
SlotsHaveCause ==
    \A r \in Requests :
        /\ slot[r] \in {"ok", "error"} => Printed(slot[r], r)
        /\ slot[r] = "big" => OversizedCause(r)
        /\ slot[r] = "dropped" => ~alive

\* The reader stores the flag before it leaves the loop, and a send fails
\* only once the writer is gone.
FlagsAreHonest ==
    /\ reader # "reading" => ~alive
    /\ \A r \in Requests : call[r] = "unsent" => writer = "stopped"

ClientInv ==
    /\ TypeOK
    /\ NoEntryAfterReturn
    /\ SendersInMap
    /\ OnlySentTravels
    /\ SlotsHaveCause
    /\ FlagsAreHonest
    /\ OwnAnswerOnly
    /\ OversizedSparesOthers
    /\ DiedMeansMarkedDead

\* The initial states satisfy the invariant.
LEMMA ClientInvInit == Init => ClientInv
<1> SUFFICES ASSUME Init PROVE ClientInv
  OBVIOUS
<1>1. TypeOK
  BY DEF Init, TypeOK, InFlight, Registered, Outcomes, Frames
<1>2. QED
  BY <1>1 DEF Init, ClientInv, NoEntryAfterReturn, SendersInMap, OnlySentTravels, SlotsHaveCause,
     FlagsAreHonest, OwnAnswerOnly, OversizedSparesOthers, DiedMeansMarkedDead, Registered

\* A step of one send_task call keeps it.
LEMMA ClientInvCall ==
    ASSUME ClientInv, TypeOK', NEW r \in Requests,
           FailFast(r) \/ RejectOversizedTask(r) \/ PassChecks(r) \/ CallStep(r) \/ Cancel(r)
    PROVE  ClientInv'
<1> USE DEF TypeOK, InFlight, Registered
<1>1. UNCHANGED <<stdout, cursor, reader, alive, slot, received, writer>>
  BY DEF FailFast, RejectOversizedTask, PassChecks, CallStep, Cancel, Register, SendOutbound,
     AbandonUnsent, TakeResponse, TimerFires, Expire, pipeVars, procVars
<1>2. \A s \in Requests \ {r} : call'[s] = call[s] /\ result'[s] = result[s]
  BY DEF ClientInv, FailFast, RejectOversizedTask, PassChecks, CallStep, Cancel, Register, SendOutbound,
     AbandonUnsent, TakeResponse, TimerFires, Expire, Return
<1>3. NoEntryAfterReturn'
  BY <1>2 DEF ClientInv, NoEntryAfterReturn, FailFast, RejectOversizedTask, PassChecks, CallStep,
     Cancel, Register, SendOutbound, AbandonUnsent, TakeResponse, TimerFires, Expire, Return, SendersInMap
<1>4. SendersInMap'
  BY <1>1, <1>2 DEF ClientInv, SendersInMap, FailFast, RejectOversizedTask, PassChecks, CallStep,
     Cancel, Register, SendOutbound, AbandonUnsent, TakeResponse, TimerFires, Expire, Return
<1>5. OnlySentTravels'
  <2> USE DEF Sent
  <2>1. \A id \in Requests : call[id] \in {"waiting", "expiring", "returned", "cancelled"}
                           => call'[id] \in {"waiting", "expiring", "returned", "cancelled"}
    BY <1>2 DEF ClientInv, FailFast, RejectOversizedTask, PassChecks, CallStep,
       Cancel, Register, SendOutbound, AbandonUnsent, TakeResponse, TimerFires, Expire, Return
  <2>2. (\A id \in received : Sent(id))'
    BY <1>1, <2>1 DEF ClientInv, OnlySentTravels
  <2>3. (\A i \in 1..Len(stdout) : Sent(stdout[i].id))'
    <3>1. \A i \in 1..Len(stdout) : stdout[i].id \in Requests \cup {NoId}
      <4>1. \A i \in 1..Len(stdout) : stdout[i] \in Frames
        BY DEF ClientInv
      <4>2. QED
        BY <4>1 DEF Frames
    <3>2. QED
      BY <1>1, <2>1, <3>1 DEF ClientInv, OnlySentTravels
  <2>4. (\A i \in 1..Len(outbound) : Sent(outbound[i]))'
    <3>1. \A i \in 1..Len(outbound) : outbound[i] \in Requests \cup {NoId}
      BY DEF ClientInv
    <3>2. CASE UNCHANGED outbound
      BY <3>1, <3>2, <2>1 DEF ClientInv, OnlySentTravels
    <3>3. CASE outbound' = Append(outbound, r) /\ call'[r] = "waiting"
      <4>1. \A i \in 1..Len(outbound) : outbound'[i] = outbound[i]
        BY <3>3 DEF ClientInv
      <4>2. Len(outbound') = Len(outbound) + 1 /\ outbound'[Len(outbound) + 1] = r
        BY <3>3 DEF ClientInv
      <4>3. Len(outbound) \in Nat
        BY DEF ClientInv
      <4>4. \A i \in 1..(Len(outbound) + 1) : i \in 1..Len(outbound) \/ i = Len(outbound) + 1
        BY <4>3
      <4>5. QED
        BY <3>1, <3>3, <4>1, <4>2, <4>4, <2>1 DEF ClientInv, OnlySentTravels
    <3>4. QED
      BY <3>2, <3>3 DEF ClientInv, FailFast, RejectOversizedTask, PassChecks, CallStep, Cancel, Register,
         SendOutbound, AbandonUnsent, TakeResponse, TimerFires, Expire, Return, pipeVars
  <2>5. QED
    BY <2>2, <2>3, <2>4 DEF OnlySentTravels
<1>6. \A k \in {"ok", "error", "big"}, id \in Requests \cup {NoId} : Printed(k, id)' <=> Printed(k, id)
  BY <1>1 DEF Printed
<1>7. \A s \in Requests : OversizedCause(s) => OversizedCause(s)'
  <2>1. \A s \in Requests : call[s] \in {"returned", "cancelled"}
                          => call'[s] = call[s] /\ result'[s] = result[s]
    BY <1>2 DEF ClientInv, FailFast, RejectOversizedTask, PassChecks, CallStep, Cancel, Register,
       SendOutbound, AbandonUnsent, TakeResponse, TimerFires, Expire, Return
  <2>2. \A s \in Requests : SettledOtherwise(s) => SettledOtherwise(s)'
    BY <1>1, <2>1 DEF SettledOtherwise, PrintedTwice
  <2>3. QED
    BY <1>6, <2>2 DEF OversizedCause
<1>8. SlotsHaveCause'
  BY <1>1, <1>6, <1>7 DEF ClientInv, SlotsHaveCause
<1>9. FlagsAreHonest'
  BY <1>1, <1>2 DEF ClientInv, FlagsAreHonest, FailFast, RejectOversizedTask, PassChecks, CallStep,
     Cancel, Register, SendOutbound, AbandonUnsent, TakeResponse, TimerFires, Expire, Return
<1>10. /\ result'[r] \in {"ok", "error"} => Printed(result'[r], r)
       /\ result'[r] = "response_too_large" => OversizedCause(r)
       /\ result'[r] = "died" => ~alive \/ writer = "stopped"
  <2>1. CASE TakeResponse(r)
    BY <2>1 DEF ClientInv, TakeResponse, Return, ReceivedOutcome, SlotsHaveCause
  <2>2. CASE FailFast(r) \/ RejectOversizedTask(r) \/ AbandonUnsent(r) \/ Expire(r)
    BY <2>2 DEF ClientInv, FailFast, RejectOversizedTask, AbandonUnsent, Expire, Return, FlagsAreHonest
  <2>3. CASE UNCHANGED result
    BY <2>3 DEF ClientInv, OwnAnswerOnly, OversizedSparesOthers, DiedMeansMarkedDead, OversizedCause
  <2>4. QED
    BY <2>1, <2>2, <2>3 DEF CallStep, PassChecks, Cancel, Register, SendOutbound, TimerFires
<1>11. OwnAnswerOnly'
  BY <1>2, <1>6, <1>10 DEF ClientInv, OwnAnswerOnly
<1>12. OversizedSparesOthers'
  <2>1. \A s \in Requests : result'[s] = "response_too_large" => OversizedCause(s)'
    BY <1>2, <1>7, <1>10 DEF ClientInv, OversizedSparesOthers, OversizedCause
  <2>2. QED
    BY <2>1 DEF OversizedSparesOthers, OversizedCause
<1>13. DiedMeansMarkedDead'
  BY <1>1, <1>2, <1>10 DEF ClientInv, DiedMeansMarkedDead
<1>14. QED
  BY <1>3, <1>4, <1>5, <1>8, <1>9, <1>11, <1>12, <1>13 DEF ClientInv

\* A step of the reader task keeps it.
LEMMA ClientInvReader ==
    ASSUME ClientInv, TypeOK', ReaderStep \/ ReaderFails
    PROVE  ClientInv'
<1> USE DEF TypeOK, InFlight, Registered
<1>0. cursor < Len(stdout) => NextFrame \in Frames
  BY DEF ClientInv, NextFrame
<1>1. UNCHANGED <<call, result, stdout, outbound, received, writer>>
  BY DEF ReaderStep, ReaderRoutes, ReaderDiscards, ReaderMarksDead, ReaderFails, ReaderClears,
     callVars, pipeVars
<1>2. cursor' \in cursor..Len(stdout)
  BY DEF ClientInv, ReaderStep, ReaderRoutes, ReaderDiscards, ReaderMarksDead, ReaderFails, ReaderClears,
     pipeVars
<1>3. \A k \in {"ok", "error", "big"}, id \in Requests \cup {NoId} : Printed(k, id) => Printed(k, id)'
  BY <1>1, <1>2 DEF ClientInv, Printed
<1>4. \A s \in Requests : slot[s] # "empty" => slot'[s] = slot[s]
  BY DEF ClientInv, SendersInMap, ReaderStep, ReaderRoutes, ReaderDiscards, OversizedVictims,
     ReaderMarksDead, ReaderFails, ReaderClears, Resolve, callVars
<1>5. \/ UNCHANGED <<pending, slot>>
      \/ \E R \in SUBSET pending, v \in {"ok", "error", "big", "dropped"} : Resolve(R, v)
  <2>1. CASE ReaderRoutes
    <3>1. NextFrame.kind \in {"ok", "error"}
      BY <2>1, <1>0 DEF ReaderRoutes, Frames
    <3>2. QED
      BY <2>1, <3>1 DEF ReaderRoutes
  <2>2. CASE ReaderDiscards
    BY <2>2 DEF ReaderDiscards, OversizedVictims
  <2>3. CASE ReaderClears
    BY <2>3 DEF ReaderClears
  <2>4. CASE ReaderMarksDead \/ ReaderFails
    BY <2>4 DEF ReaderMarksDead, ReaderFails, callVars
  <2>5. QED
    BY <2>1, <2>2, <2>3, <2>4 DEF ReaderStep
<1>6. /\ pending' \subseteq pending
      /\ \A s \in pending \ pending' : slot'[s] # "empty"
      /\ \A s \in Requests : s \notin pending \/ s \in pending' => slot'[s] = slot[s]
  BY <1>5 DEF ClientInv, Resolve
<1>7. NoEntryAfterReturn' /\ SendersInMap'
  BY <1>1, <1>6 DEF ClientInv, NoEntryAfterReturn, SendersInMap
<1>8. OnlySentTravels'
  BY <1>1 DEF ClientInv, OnlySentTravels, Sent
<1>9. FlagsAreHonest' /\ (~alive => ~alive')
  BY <1>1 DEF ClientInv, FlagsAreHonest, ReaderStep, ReaderRoutes, ReaderDiscards, ReaderMarksDead,
     ReaderFails, ReaderClears, procVars
<1>10. \A s \in Requests : OversizedCause(s) => OversizedCause(s)'
  <2>1. \A s \in Requests : PrintedTwice("big", s) => PrintedTwice("big", s)'
    BY <1>1, <1>2 DEF ClientInv, PrintedTwice
  <2>2. \A s \in Requests : SettledOtherwise(s) => SettledOtherwise(s)'
    BY <1>1, <1>4, <2>1 DEF SettledOtherwise
  <2>3. QED
    BY <1>3, <2>2 DEF OversizedCause
<1>11. SlotsHaveCause'
  <2> SUFFICES ASSUME NEW s \in Requests
               PROVE  /\ slot'[s] \in {"ok", "error"} => Printed(slot[s], s)'
                      /\ slot'[s] = "big" => OversizedCause(s)'
                      /\ slot'[s] = "dropped" => ~alive'
    BY DEF SlotsHaveCause
  <2>1. CASE slot'[s] = slot[s]
    BY <2>1, <1>3, <1>9, <1>10 DEF ClientInv, SlotsHaveCause
  <2>2. CASE slot'[s] # slot[s] /\ ReaderRoutes
    <3>1. s = NextFrame.id /\ slot'[s] = NextFrame.kind /\ NextFrame.kind \in {"ok", "error"}
      BY <2>2, <1>0 DEF ClientInv, ReaderRoutes, Resolve, Frames
    <3>2. NextFrame = [kind |-> slot'[s], id |-> s]
      BY <2>2, <3>1, <1>0 DEF ReaderRoutes, Frames
    <3>3. Printed(slot[s], s)'
      BY <2>2, <3>2, <1>1 DEF ClientInv, ReaderRoutes, NextFrame, Printed
    <3>4. QED
      BY <3>1, <3>3
  <2>3. CASE slot'[s] # slot[s] /\ ReaderDiscards
    <3>1. s \in OversizedVictims /\ slot'[s] = "big" /\ s \in pending
      BY <2>3 DEF ClientInv, ReaderDiscards, Resolve, OversizedVictims
    <3>2. PICK id \in Requests \cup {NoId} : NextFrame = [kind |-> "big", id |-> id]
      BY <2>3, <1>0 DEF ReaderDiscards, Frames
    <3>3. Printed("big", id)'
      BY <2>3, <3>2, <1>1 DEF ClientInv, ReaderDiscards, NextFrame, Printed
    <3>4. CASE id \in {s, NoId}
      BY <3>1, <3>3, <3>4 DEF OversizedCause
    <3>5. CASE id \notin {s, NoId}
      <4>1. id \in Requests /\ id \notin pending
        BY <3>1, <3>2, <3>5 DEF OversizedVictims
      <4>2. Sent(id)
        BY <2>3, <3>2 DEF ClientInv, OnlySentTravels, ReaderDiscards, NextFrame
      <4>3. \/ call[id] = "cancelled"
            \/ call[id] = "returned" /\ result[id] # "response_too_large"
            \/ slot[id] \in {"ok", "error", "dropped"}
            \/ slot[id] = "big" \/ result[id] = "response_too_large"
        BY <4>1, <4>2, <3>5 DEF ClientInv, Sent, SendersInMap
      <4>4. CASE slot[id] = "big" \/ result[id] = "response_too_large"
        <5>1. OversizedCause(id)
          BY <4>1, <4>4 DEF ClientInv, SlotsHaveCause, OversizedSparesOthers, OversizedCause
        <5>2. CASE Printed("big", id)
          <6>1. PICK i \in 1..cursor : stdout[i] = [kind |-> "big", id |-> id]
            BY <5>2 DEF Printed
          <6>2. /\ cursor' = cursor + 1
                /\ stdout'[i] = [kind |-> "big", id |-> id]
                /\ stdout'[cursor + 1] = [kind |-> "big", id |-> id]
            BY <2>3, <3>2, <6>1, <1>1 DEF ReaderDiscards, NextFrame
          <6>3. cursor \in Nat
            BY DEF ClientInv
          <6>4. PrintedTwice("big", id)'
            BY <6>1, <6>2, <6>3 DEF PrintedTwice
          <6>5. QED
            BY <3>1, <3>3, <4>1, <6>4 DEF OversizedCause, SettledOtherwise
        <5>3. CASE Printed("big", NoId) \/ \E u \in Requests : Printed("big", u) /\ SettledOtherwise(u)
          BY <3>1, <5>3, <1>10 DEF OversizedCause
        <5>4. QED
          BY <5>1, <5>2, <5>3 DEF OversizedCause
      <4>5. CASE ~(slot[id] = "big" \/ result[id] = "response_too_large")
        <5>1. SettledOtherwise(id)'
          BY <4>1, <4>3, <4>5, <1>1, <1>4 DEF SettledOtherwise
        <5>2. QED
          BY <3>1, <3>3, <4>1, <5>1 DEF OversizedCause
      <4>6. QED
        BY <4>4, <4>5
    <3>6. QED
      BY <3>4, <3>5
  <2>4. CASE slot'[s] # slot[s] /\ ReaderClears
    BY <2>4 DEF ClientInv, ReaderClears, Resolve, FlagsAreHonest
  <2>5. QED
    BY <2>1, <2>2, <2>3, <2>4 DEF ReaderStep, ReaderMarksDead, ReaderFails, callVars
<1>12. OwnAnswerOnly' /\ DiedMeansMarkedDead'
  BY <1>1, <1>3, <1>9 DEF ClientInv, OwnAnswerOnly, DiedMeansMarkedDead
<1>13. OversizedSparesOthers'
  <2>1. \A s \in Requests : result'[s] = "response_too_large" => OversizedCause(s)'
    BY <1>1, <1>10 DEF ClientInv, OversizedSparesOthers, OversizedCause
  <2>2. QED
    BY <2>1 DEF OversizedSparesOthers, OversizedCause
<1>14. QED
  BY <1>7, <1>8, <1>9, <1>11, <1>12, <1>13 DEF ClientInv

\* A step of the writer, of a shutdown call or of the worker keeps it: none
\* touches a call, the map or a one-shot.
LEMMA ClientInvPipes ==
    ASSUME ClientInv, TypeOK', UNCHANGED <<callVars, reader, alive, cursor>>,
           \/ UNCHANGED <<outbound, received, stdout, writer>>
           \/ WriterWrites \/ WriterStops \/ WorkerPrints
           \/ \E c \in Closers : ShutdownTakes(c)
    PROVE  ClientInv'
<1> USE DEF TypeOK, Sent
<1>1. (\A i \in 1..Len(outbound) : Sent(outbound[i]))'
  <2>1. CASE UNCHANGED outbound \/ outbound' = <<>>
    BY <2>1 DEF ClientInv, OnlySentTravels, callVars
  <2>2. CASE WriterWrites
    <3>1. /\ Len(outbound') = Len(outbound) - 1
          /\ \A i \in 1..Len(outbound') : outbound'[i] = outbound[i + 1]
      BY <2>2 DEF ClientInv, WriterWrites
    <3>2. Len(outbound) \in Nat
      BY DEF ClientInv
    <3>3. \A i \in 1..(Len(outbound) - 1) : i + 1 \in 1..Len(outbound)
      BY <3>2
    <3>4. QED
      BY <3>1, <3>3 DEF ClientInv, OnlySentTravels, callVars
  <2>3. CASE outbound' = Append(outbound, NoId)
    <3>1. \A i \in 1..Len(outbound) : outbound'[i] = outbound[i]
      BY <2>3 DEF ClientInv
    <3>2. Len(outbound') = Len(outbound) + 1 /\ outbound'[Len(outbound) + 1] = NoId
      BY <2>3 DEF ClientInv
    <3>3. Len(outbound) \in Nat
      BY DEF ClientInv
    <3>4. \A i \in 1..(Len(outbound) + 1) : i \in 1..Len(outbound) \/ i = Len(outbound) + 1
      BY <3>3
    <3>5. QED
      BY <3>1, <3>2, <3>4 DEF ClientInv, OnlySentTravels, callVars
  <2>4. QED
    BY <2>1, <2>2, <2>3 DEF WriterStops, WorkerPrints, ShutdownTakes
<1>2. (\A id \in received : Sent(id))'
  <2>1. CASE UNCHANGED received
    BY <2>1 DEF ClientInv, OnlySentTravels, callVars
  <2>2. CASE WriterWrites
    <3>1. Head(outbound) = outbound[1] /\ 1 \in 1..Len(outbound)
      BY <2>2 DEF ClientInv, WriterWrites
    <3>2. QED
      BY <2>2, <3>1 DEF ClientInv, WriterWrites, OnlySentTravels, callVars
  <2>3. QED
    BY <2>1, <2>2 DEF WriterStops, WorkerPrints, ShutdownTakes
<1>3. /\ (\A i \in 1..Len(stdout) : Sent(stdout[i].id))'
      /\ \A i \in 1..cursor : stdout'[i] = stdout[i]
  <2>1. CASE UNCHANGED stdout
    BY <2>1 DEF ClientInv, OnlySentTravels, callVars
  <2>2. CASE WorkerPrints
    <3>1. PICK f \in Frames : f.id \in received \cup {NoId} /\ stdout' = Append(stdout, f)
      BY <2>2 DEF WorkerPrints
    <3>2. Sent(f.id)'
      BY <3>1 DEF ClientInv, OnlySentTravels, callVars
    <3>3. \A i \in 1..Len(stdout) : stdout'[i] = stdout[i]
      BY <3>1 DEF ClientInv
    <3>4. Len(stdout') = Len(stdout) + 1 /\ stdout'[Len(stdout) + 1] = f
      BY <3>1 DEF ClientInv
    <3>5. Len(stdout) \in Nat /\ cursor \in 0..Len(stdout)
      BY DEF ClientInv
    <3>6. \A i \in 1..(Len(stdout) + 1) : i \in 1..Len(stdout) \/ i = Len(stdout) + 1
      BY <3>5
    <3>7. \A i \in 1..cursor : i \in 1..Len(stdout)
      BY <3>5
    <3>8. QED
      <4>1. \A i \in 1..Len(stdout) : Sent(stdout[i].id)'
        BY <3>3 DEF ClientInv, OnlySentTravels, callVars
      <4>2. QED
        BY <4>1, <3>2, <3>3, <3>4, <3>6, <3>7
  <2>3. QED
    BY <2>1, <2>2 DEF WriterWrites, WriterStops, ShutdownTakes
<1>4. OnlySentTravels'
  BY <1>1, <1>2, <1>3 DEF OnlySentTravels
<1>5. \A k \in {"ok", "error", "big"}, id \in Requests \cup {NoId} : Printed(k, id)' <=> Printed(k, id)
  BY <1>3 DEF Printed
<1>6. \A s \in Requests : OversizedCause(s)' <=> OversizedCause(s)
  <2>1. \A s \in Requests : PrintedTwice("big", s)' <=> PrintedTwice("big", s)
    BY <1>3 DEF PrintedTwice
  <2>2. QED
    BY <1>5, <2>1 DEF OversizedCause, SettledOtherwise, callVars
<1>7. SlotsHaveCause' /\ OwnAnswerOnly'
  BY <1>5, <1>6 DEF ClientInv, SlotsHaveCause, OwnAnswerOnly, callVars
<1>8. OversizedSparesOthers'
  BY <1>6 DEF ClientInv, OversizedSparesOthers, OversizedCause, callVars
<1>9. writer = "stopped" => writer' = "stopped"
  BY DEF WriterWrites, WriterStops, WorkerPrints, ShutdownTakes
<1>10. FlagsAreHonest' /\ DiedMeansMarkedDead' /\ NoEntryAfterReturn' /\ SendersInMap'
  BY <1>9 DEF ClientInv, FlagsAreHonest, DiedMeansMarkedDead, NoEntryAfterReturn, SendersInMap, callVars
<1>11. QED
  BY <1>4, <1>7, <1>8, <1>10 DEF ClientInv

\* The invariant holds in every reachable state.
THEOREM ClientInvariant == Spec => []ClientInv
<1>1. ClientInv /\ TypeOK' /\ [Next]_vars => ClientInv'
  <2> SUFFICES ASSUME ClientInv, TypeOK', [Next]_vars PROVE ClientInv'
    OBVIOUS
  <2>1. ASSUME NEW r \in Requests,
               FailFast(r) \/ RejectOversizedTask(r) \/ PassChecks(r) \/ CallStep(r) \/ Cancel(r)
        PROVE  ClientInv'
    BY <2>1, ClientInvCall
  <2>2. CASE ReaderStep \/ ReaderFails
    BY <2>2, ClientInvReader
  <2>3. CASE WriterWrites \/ WriterStops \/ WorkerPrints \/ WorkerClosesPipe \/ WorkerExits
    BY <2>3, ClientInvPipes DEF WriterWrites, WriterStops, WorkerPrints, WorkerClosesPipe, WorkerExits,
       procVars, pipeVars
  <2>4. ASSUME NEW c \in Closers,
               ShutdownTakes(c) \/ ShutdownNoop(c) \/ ShutdownStep(c) \/ ShutdownCancelled(c)
        PROVE  ClientInv'
    BY <2>4, ClientInvPipes DEF ShutdownTakes, ShutdownNoop, ShutdownStep, ShutdownReaps, ShutdownKills,
       ShutdownCancelled, procVars, pipeVars
  <2>5. CASE UNCHANGED vars
    BY <2>5, ClientInvPipes DEF vars, pipeVars, procVars
  <2>6. QED
    BY <2>1, <2>2, <2>3, <2>4, <2>5 DEF Next
<1>2. QED
  BY <1>1, ClientInvInit, TypeCorrect, PTL DEF Spec

\* For any number of concurrent calls, a response reaches only the call whose
\* id the worker printed it under.
THEOREM Demultiplexing == Spec => []OwnAnswerOnly
  BY ClientInvariant, PTL DEF ClientInv

\* The reader can reach every caller that still has nothing.
THEOREM SendersAreKept == Spec => []NoLostSender
<1>1. ClientInv => NoLostSender
  BY DEF ClientInv, SendersInMap, NoLostSender, Registered
<1>2. QED
  BY <1>1, ClientInvariant, PTL

\* No returned call leaves an entry in the map.
THEOREM EntriesAreRemoved == Spec => []NoEntryAfterReturn
  BY ClientInvariant, PTL DEF ClientInv

\* WorkerDied is reported only with the flag cleared, or the writer gone.
THEOREM DeathIsHonest == Spec => []DiedMeansMarkedDead
  BY ClientInvariant, PTL DEF ClientInv

\* An over-limit frame fails a bystander only if its owner is unknown or settled.
THEOREM BystandersAreSpared == Spec => []OversizedSparesOthers
  BY ClientInvariant, PTL DEF ClientInv

-----------------------------------------------------------------------------
(***************************************************************************)
(* Refinement.  The client implements TaskExchange under the mapping of    *)
(* WorkerClient: only calls move phases and outcomes, only the reader      *)
(* consumes lines, and the flag and the writer only ever go down.          *)
(***************************************************************************)

\* A step that moves only call r moves only the phase of r.
LEMMA PhaseOfOne ==
    ASSUME TypeOK, NEW r \in Requests, NEW c, call' = [call EXCEPT ![r] = c]
    PROVE  Phase' = [Phase EXCEPT ![r] =
               CASE c = "idle" -> "idle" [] c = "returned" -> "closed"
                 [] c = "cancelled" -> "abandoned" [] OTHER -> "open"]
  BY DEF Phase, TypeOK

\* A step that leaves what callers see alone is no step of the exchange.
LEMMA Unseen ==
    ASSUME UNCHANGED <<call, result, stdout, cursor, alive, writer>>
    PROVE  UNCHANGED Contract!exchangeVars
<1>1. UNCHANGED Phase
  BY DEF Phase
<1>2. UNCHANGED Consumed
  BY DEF Consumed
<1>3. UNCHANGED Broken
  BY DEF Broken
<1>4. QED
  BY <1>1, <1>2, <1>3 DEF Contract!exchangeVars

\* A call that returns closes its request, and the invariant accounts for the
\* outcome.
LEMMA ReturnCloses ==
    ASSUME ClientInv, NEW r \in Requests, NEW o \in Outcomes, Return(r, o),
           UNCHANGED <<stdout, cursor, alive, writer>>,
           \/ call[r] = "idle" /\ (o = "task_too_large" \/ (o = "died" /\ ~alive))
           \/ call[r] \in InFlight /\ Contract!Justified(r, o)
    PROVE  Contract!ExchangeNext
<1>1. UNCHANGED Consumed
  BY DEF Consumed
<1>2. UNCHANGED Broken
  BY DEF Broken
<1>3. Phase' = [Phase EXCEPT ![r] = "closed"]
  BY PhaseOfOne DEF Return, ClientInv
<1>4. result' = [result EXCEPT ![r] = o]
  BY DEF Return
<1>5. CASE call[r] = "idle"
  <2>1. Phase[r] = "idle"
    BY <1>5 DEF Phase
  <2>2. Contract!Refusal(o)
    BY <1>5 DEF Contract!Refusal, Broken, InFlight, Registered
  <2>3. Contract!Close(r, o)
    BY <1>1, <1>2, <1>3, <1>4, <2>1, <2>2 DEF Contract!Close
  <2>4. QED
    BY <2>3 DEF Contract!ExchangeNext, Outcomes
<1>6. CASE call[r] \in InFlight /\ Contract!Justified(r, o)
  <2>1. Phase[r] = "open"
    BY <1>6 DEF Phase, InFlight, Registered
  <2>2. Contract!Close(r, o)
    BY <1>1, <1>2, <1>3, <1>4, <1>6, <2>1 DEF Contract!Close
  <2>3. QED
    BY <2>2 DEF Contract!ExchangeNext, Outcomes
<1>7. QED
  BY <1>5, <1>6

\* A call that moves between its await points stays open.
LEMMA MovesInFlight ==
    ASSUME TypeOK, NEW r \in Requests, NEW c \in InFlight, call[r] \in InFlight,
           call' = [call EXCEPT ![r] = c],
           UNCHANGED <<result, stdout, cursor, alive, writer>>
    PROVE  UNCHANGED Contract!exchangeVars
<1>1. UNCHANGED Phase
  BY DEF Phase, TypeOK, InFlight, Registered
<1>2. UNCHANGED <<Consumed, Broken>>
  BY DEF Consumed, Broken
<1>3. QED
  BY <1>1, <1>2 DEF Contract!exchangeVars

\* Every step of a send_task call maps to a step of its request, or to none.
LEMMA CallRefines ==
    ASSUME ClientInv, NEW r \in Requests,
           FailFast(r) \/ RejectOversizedTask(r) \/ PassChecks(r) \/ CallStep(r) \/ Cancel(r)
    PROVE  Contract!ExchangeNext \/ UNCHANGED Contract!exchangeVars
<1> USE DEF pipeVars, procVars, shutVars
<1>1. TypeOK
  BY DEF ClientInv
<1>2. CASE FailFast(r)
  BY <1>2, ReturnCloses DEF FailFast, Outcomes
<1>3. CASE RejectOversizedTask(r)
  BY <1>3, ReturnCloses DEF RejectOversizedTask, Outcomes
<1>4. CASE PassChecks(r)
  <2>1. Phase[r] = "idle"
    BY <1>4 DEF PassChecks, Phase
  <2>2. Phase' = [Phase EXCEPT ![r] = "open"]
    BY <1>1, <1>4 DEF PassChecks, Phase, TypeOK
  <2>3. UNCHANGED <<Consumed, Broken>>
    BY <1>4 DEF PassChecks, Consumed, Broken
  <2>4. Contract!Open(r)
    BY <1>4, <2>1, <2>2, <2>3 DEF PassChecks, Contract!Open
  <2>5. QED
    BY <2>4 DEF Contract!ExchangeNext
<1>5. CASE Register(r) \/ SendOutbound(r) \/ TimerFires(r)
  <2>1. call[r] \in InFlight
    BY <1>5 DEF Register, SendOutbound, TimerFires, InFlight, Registered
  <2>2. \E c \in InFlight : call' = [call EXCEPT ![r] = c]
    BY <1>5 DEF Register, SendOutbound, TimerFires, InFlight, Registered
  <2>3. UNCHANGED <<result, stdout, cursor, alive, writer>>
    BY <1>5 DEF Register, SendOutbound, TimerFires
  <2>4. QED
    BY <1>1, <2>1, <2>2, <2>3, MovesInFlight
<1>6. CASE AbandonUnsent(r)
  <2>1. Broken
    BY <1>6 DEF AbandonUnsent, ClientInv, FlagsAreHonest, Broken
  <2>2. Contract!Justified(r, "died")
    BY <2>1 DEF Contract!Justified
  <2>3. QED
    BY <1>6, <2>2, ReturnCloses DEF AbandonUnsent, Outcomes, InFlight, Registered
<1>7. CASE TakeResponse(r)
  <2> DEFINE o == ReceivedOutcome[slot[r]]
  <2>1. slot[r] \in {"ok", "error", "big", "dropped"}
    BY <1>1, <1>7 DEF TakeResponse, TypeOK
  <2>2. ASSUME slot[r] \in {"ok", "error"} PROVE Contract!Justified(r, o)
    <3>1. Printed(slot[r], r)
      BY <2>2 DEF ClientInv, SlotsHaveCause
    <3>2. [kind |-> slot[r], id |-> r] \in Consumed
      BY <3>1 DEF Printed, Consumed
    <3>3. o = slot[r]
      BY <2>2 DEF ReceivedOutcome
    <3>4. QED
      BY <2>2, <3>2, <3>3 DEF Contract!Justified
  <2>3. ASSUME slot[r] = "big" PROVE Contract!Justified(r, o)
    <3>1. \E id \in Requests \cup {NoId} : Printed("big", id)
      BY <2>3 DEF ClientInv, SlotsHaveCause, OversizedCause
    <3>2. \E f \in Consumed : f.kind = "big"
      BY <3>1 DEF Printed, Consumed
    <3>3. o = "response_too_large"
      BY <2>3 DEF ReceivedOutcome
    <3>4. QED
      BY <3>2, <3>3 DEF Contract!Justified
  <2>4. ASSUME slot[r] = "dropped" PROVE Contract!Justified(r, o)
    <3>1. Broken
      BY <2>4 DEF ClientInv, SlotsHaveCause, Broken
    <3>2. o = "died"
      BY <2>4 DEF ReceivedOutcome
    <3>3. QED
      BY <3>1, <3>2 DEF Contract!Justified
  <2>5. Contract!Justified(r, o)
    BY <2>1, <2>2, <2>3, <2>4
  <2>6. o \in Outcomes
    BY <2>1 DEF ReceivedOutcome, Outcomes
  <2>7. QED
    BY <1>7, <2>5, <2>6, ReturnCloses DEF TakeResponse, InFlight, Registered
<1>8. CASE Expire(r)
  <2>1. Contract!Justified(r, "timeout")
    BY DEF Contract!Justified
  <2>2. QED
    BY <1>8, <2>1, ReturnCloses DEF Expire, Outcomes, InFlight, Registered
<1>9. CASE Cancel(r)
  <2>1. Phase[r] = "open"
    BY <1>9 DEF Cancel, Phase, InFlight, Registered
  <2>2. Phase' = [Phase EXCEPT ![r] = "abandoned"]
    BY <1>1, <1>9, PhaseOfOne DEF Cancel
  <2>3. UNCHANGED <<Consumed, Broken>>
    BY <1>9 DEF Cancel, Consumed, Broken
  <2>4. Contract!Abandon(r)
    BY <1>9, <2>1, <2>2, <2>3 DEF Cancel, Contract!Abandon
  <2>5. QED
    BY <2>4 DEF Contract!ExchangeNext
<1>10. QED
  BY <1>2, <1>3, <1>4, <1>5, <1>6, <1>7, <1>8, <1>9 DEF CallStep

\* A line the reader takes off the pipe is a reply; the flag and the writer
\* going down are a break.
LEMMA TasksRefine ==
    ASSUME ClientInv,
           ReaderStep \/ ReaderFails \/ WriterWrites \/ WriterStops \/ WorkerPrints
    PROVE  Contract!ExchangeNext \/ UNCHANGED Contract!exchangeVars
<1>1. TypeOK
  BY DEF ClientInv
<1>2. CASE ReaderRoutes \/ ReaderDiscards
  <2>1. NextFrame \in Frames /\ cursor' = cursor + 1 /\ UNCHANGED <<call, result, stdout, alive, writer>>
    BY <1>1, <1>2 DEF ReaderRoutes, ReaderDiscards, NextFrame, TypeOK, procVars
  <2>2. Consumed' = Consumed \cup {NextFrame}
    BY <1>1, <2>1 DEF Consumed, NextFrame, TypeOK
  <2>3. UNCHANGED <<Phase, Broken>>
    BY <2>1 DEF Phase, Broken
  <2>4. Contract!Reply
    BY <2>1, <2>2, <2>3 DEF Contract!Reply, Contract!Replies, Frames
  <2>5. QED
    BY <2>4 DEF Contract!ExchangeNext
<1>3. CASE ReaderMarksDead \/ ReaderFails \/ WriterStops
  <2>1. UNCHANGED <<call, result, stdout, cursor>>
    BY <1>3 DEF ReaderMarksDead, ReaderFails, WriterStops, callVars, pipeVars
  <2>2. Broken' = TRUE
    BY <1>3 DEF ReaderMarksDead, ReaderFails, WriterStops, Broken
  <2>3. UNCHANGED <<Phase, Consumed>>
    BY <2>1 DEF Phase, Consumed
  <2>4. Contract!Break
    BY <2>1, <2>2, <2>3 DEF Contract!Break
  <2>5. QED
    BY <2>4 DEF Contract!ExchangeNext
<1>4. CASE ReaderClears \/ WriterWrites
  BY <1>4, Unseen DEF ReaderClears, WriterWrites, callVars, pipeVars, procVars
<1>5. CASE WorkerPrints
  <2>1. PICK f \in Frames : stdout' = Append(stdout, f)
    BY <1>5 DEF WorkerPrints
  <2>2. UNCHANGED <<call, result, cursor, alive, writer>>
    BY <1>5 DEF WorkerPrints, callVars, procVars
  <2>3. \A i \in 1..cursor : stdout'[i] = stdout[i]
    BY <1>1, <2>1 DEF TypeOK
  <2>4. UNCHANGED Consumed
    BY <2>2, <2>3 DEF Consumed
  <2>5. UNCHANGED <<Phase, Broken>>
    BY <2>2 DEF Phase, Broken
  <2>6. QED
    BY <2>2, <2>4, <2>5 DEF Contract!exchangeVars
<1>6. QED
  BY <1>2, <1>3, <1>4, <1>5 DEF ReaderStep

\* For any number of calls, lines and shutdowns, the client implements the
\* exchange its callers rely on.
THEOREM ClientImplementsExchange == Spec => ImplementsExchange
<1>1. Init => Contract!ExchangeInit
  <2> SUFFICES ASSUME Init PROVE Contract!ExchangeInit
    OBVIOUS
  <2>1. Phase = [r \in Requests |-> "idle"]
    BY DEF Init, Phase
  <2>2. Consumed = {}
    BY DEF Init, Consumed
  <2>3. Broken = FALSE
    BY DEF Init, Broken
  <2>4. QED
    BY <2>1, <2>2, <2>3 DEF Init, Contract!ExchangeInit
<1>2. ClientInv /\ [Next]_vars => [Contract!ExchangeNext]_(Contract!exchangeVars)
  <2> SUFFICES ASSUME ClientInv, [Next]_vars
               PROVE  Contract!ExchangeNext \/ UNCHANGED Contract!exchangeVars
    OBVIOUS
  <2>1. CASE UNCHANGED vars
    BY <2>1, Unseen DEF vars, callVars, pipeVars, procVars
  <2>2. CASE WorkerClosesPipe \/ WorkerExits
    BY <2>2, Unseen DEF WorkerClosesPipe, WorkerExits, callVars, pipeVars
  <2>3. ASSUME NEW c \in Closers,
               ShutdownTakes(c) \/ ShutdownNoop(c) \/ ShutdownStep(c) \/ ShutdownCancelled(c)
        PROVE  UNCHANGED Contract!exchangeVars
    BY <2>3, Unseen DEF ShutdownTakes, ShutdownNoop, ShutdownStep, ShutdownReaps, ShutdownKills,
       ShutdownCancelled, callVars, pipeVars, procVars
  <2>4. QED
    BY <2>1, <2>2, <2>3, CallRefines, TasksRefine DEF Next
<1>3. QED
  BY <1>1, <1>2, ClientInvariant, PTL DEF Spec, ImplementsExchange, Contract!Exchange
=============================================================================
