------------------------------- MODULE StartGate -------------------------------
(***************************************************************************)
(* What the multi-hart start-up and the terminal lock promise, without     *)
(* saying how: the workers arrive at a gate that opens for them only after *)
(* the memory is ready; a worker starts only when all have arrived; and    *)
(* started workers take turns, one inside at a time.                       *)
(***************************************************************************)
CONSTANT Workers

VARIABLES
    ready,      \* the memory has been prepared
    arrived,    \* workers that reached the gate after that
    started,    \* workers that passed the gate
    inside      \* the worker whose turn it is, if any

gateVars == <<ready, arrived, started, inside>>

GateInit ==
    /\ ready = FALSE
    /\ arrived = {}
    /\ started = {}
    /\ inside = {}

Prepare ==
    /\ ready' = TRUE
    /\ UNCHANGED <<arrived, started, inside>>

Arrive(w) ==
    /\ ready
    /\ arrived' = arrived \cup {w}
    /\ UNCHANGED <<ready, started, inside>>

Start(w) ==
    /\ arrived = Workers
    /\ started' = started \cup {w}
    /\ UNCHANGED <<ready, arrived, inside>>

TakeTurn(w) ==
    /\ w \in started
    /\ inside = {}
    /\ inside' = {w}
    /\ UNCHANGED <<ready, arrived, started>>

EndTurn(w) ==
    /\ inside = {w}
    /\ inside' = {}
    /\ UNCHANGED <<ready, arrived, started>>

GateNext ==
    \/ Prepare
    \/ \E w \in Workers :
          Arrive(w) \/ Start(w) \/ TakeTurn(w) \/ EndTurn(w)

(***************************************************************************)
(* Everybody arrives and starts, and turns are taken and ended; whose turn *)
(* comes is not promised.                                                  *)
(***************************************************************************)
GateLiveness ==
    /\ WF_gateVars(Prepare)
    /\ \A w \in Workers : WF_gateVars(Arrive(w)) /\ WF_gateVars(Start(w))
    /\ WF_gateVars(\E w \in Workers : TakeTurn(w))
    /\ WF_gateVars(\E w \in Workers : EndTurn(w))

GateSafety == GateInit /\ [][GateNext]_gateVars

GateSpec == GateSafety /\ GateLiveness
=============================================================================
