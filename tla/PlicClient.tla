----------------------------- MODULE PlicClient -----------------------------
(***************************************************************************)
(* Any program over the whole PLIC driver: it calls the functions in any   *)
(* order, a claim is completed before the next, and the program may start  *)
(* again without a reset of the controller, which keeps its registers and  *)
(* its requests.                                                           *)
(***************************************************************************)
EXTENDS Plic

VARIABLES
    client_at,   \* "reset" before PLIC_init, then "ready"
    got,         \* what the last claim returned, until it is completed
    asked,       \* history: the sources enabled since PLIC_init
    wanted       \* history: the priorities set since PLIC_init

own_vars == <<client_at, got, asked, wanted>>
client_vars == <<plicVars, own_vars>>

NoPriorities == [s \in Sources |-> 0]

ClientInit ==
    /\ PlicInit
    /\ client_at = "reset" /\ got = NoSource
    /\ asked = {} /\ wanted = NoPriorities

ClientStarts ==
    /\ client_at = "reset" /\ client_at' = "ready"
    /\ PLIC_init
    /\ UNCHANGED <<got, asked, wanted>>

StartsAgain ==
    /\ client_at = "ready" /\ client_at' = "reset"
    /\ got' = NoSource /\ asked' = {} /\ wanted' = NoPriorities
    /\ UNCHANGED plicVars

ClientEnables(s) ==
    /\ client_at = "ready"
    /\ PLIC_enable_interrupt(s) /\ asked' = asked \cup {s}
    /\ UNCHANGED <<client_at, got, wanted>>

ClientDisables(s) ==
    /\ client_at = "ready"
    /\ PLIC_disable_interrupt(s) /\ asked' = asked \ {s}
    /\ UNCHANGED <<client_at, got, wanted>>

ClientSetsPriority(s) ==
    /\ client_at = "ready"
    /\ \E p \in 0..MaxPriority :
          /\ PLIC_set_priorities([t \in {s} |-> p])
          /\ wanted' = [wanted EXCEPT ![s] = p]
    /\ UNCHANGED <<client_at, got, asked>>

ClientSetsThreshold ==
    /\ client_at = "ready"
    /\ \E t \in {0, MaxPriority} : PLIC_set_threshold(t)
    /\ UNCHANGED <<client_at, got, asked, wanted>>

ClientClaims ==
    /\ client_at = "ready" /\ got = NoSource
    /\ PLIC_claim_interrupt /\ got' = Winner
    /\ UNCHANGED <<client_at, asked, wanted>>

ClientCompletes ==
    /\ client_at = "ready" /\ got # NoSource
    /\ PLIC_complete_interrupt(got) /\ got' = NoSource
    /\ UNCHANGED <<client_at, asked, wanted>>

LineIsHigh(s) == Forward(s) /\ UNCHANGED own_vars

ClientNext ==
    \/ ClientStarts \/ StartsAgain \/ ClientSetsThreshold
    \/ ClientClaims \/ ClientCompletes
    \/ \E s \in Sources : \/ ClientEnables(s) \/ ClientDisables(s)
                          \/ ClientSetsPriority(s) \/ LineIsHigh(s)

(***************************************************************************)
(* A claim returns what the program asked for since PLIC_init: an enabled  *)
(* source with a priority, none of the enabled ones that are pending       *)
(* before it, and nothing only if there is none.  Neither the registers at *)
(* reset nor what an earlier start of the program left in them show, and   *)
(* no source is delivered again before it is completed.                    *)
(***************************************************************************)
Deliverable == {s \in pending \cap asked : wanted[s] > 0}

ClaimsAsAsked ==
    [][ClientClaims =>
          IF Deliverable = {} THEN got' = NoSource
          ELSE /\ got' \in Deliverable \ inService
               /\ \A s \in Deliverable : wanted[s] <= wanted[got']]_client_vars
=============================================================================
