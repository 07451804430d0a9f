---------------------------- MODULE SerialEngine ----------------------------
(***************************************************************************)
(* What Lifecycle (bindings/python/src/manager.rs) promises whoever drives *)
(* the policy engine through it, without the calls, their timeouts and the *)
(* tasks behind them: the engine is entered by one call at a time, is only *)
(* started while nobody has asked for its end, is only stopped once        *)
(* somebody has, and is over when a stop came back.                        *)
(***************************************************************************)
CONSTANT Callers    \* the calls that enter the engine

VARIABLES
    starters,   \* the calls inside the engine's initialize
    stoppers,   \* the calls inside the engine's shutdown
    closing,    \* its end was asked for
    over,       \* it came
    running     \* whether plugins run

engineVars == <<starters, stoppers, closing, over, running>>

EngineInit ==
    /\ starters = {} /\ stoppers = {}
    /\ closing = FALSE /\ over = FALSE
    /\ running = FALSE

Vacant == starters = {} /\ stoppers = {}

Close ==
    /\ closing' = TRUE
    /\ UNCHANGED <<starters, stoppers, over, running>>

Start(c) ==
    /\ Vacant
    /\ ~closing
    /\ starters' = {c}
    /\ UNCHANGED <<stoppers, closing, over, running>>

\* It started the plugins, undid what it had started, or panicked.
StartEnds(c) ==
    /\ starters = {c}
    /\ starters' = {}
    /\ running' \in BOOLEAN
    /\ UNCHANGED <<stoppers, closing, over>>

Stop(c) ==
    /\ Vacant
    /\ closing /\ ~over
    /\ stoppers' = {c}
    /\ UNCHANGED <<starters, closing, over, running>>

StopEnds(c) ==
    /\ stoppers = {c}
    /\ stoppers' = {}
    /\ over' = TRUE
    /\ running' = FALSE
    /\ UNCHANGED <<starters, closing>>

\* It panicked: what it did not stop still runs, and it may be tried again.
StopFails(c) ==
    /\ stoppers = {c}
    /\ stoppers' = {}
    /\ UNCHANGED <<starters, closing, over, running>>

EngineNext ==
    \/ Close
    \/ \E c \in Callers :
         Start(c) \/ StartEnds(c) \/ Stop(c) \/ StopEnds(c) \/ StopFails(c)

Engine == EngineInit /\ [][EngineNext]_engineVars
=============================================================================
