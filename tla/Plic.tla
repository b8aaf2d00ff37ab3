-------------------------------- MODULE Plic --------------------------------
(***************************************************************************)
(* The interrupt controller as the driver sees it: the registers it writes *)
(* (plic_driver.c) and the hardware behind them, for one hart.  Every      *)
(* operation says what becomes of all the registers; the modules that use  *)
(* the controller compose them with their own state.                       *)
(***************************************************************************)
EXTENDS Integers, FiniteSets

CONSTANTS
    Sources,       \* interrupt sources that are wired
    NumSources,    \* what PLIC_init is told: the highest source
    MaxPriority    \* PLIC_NUM_PRIORITIES

ASSUME PlicAssumption ==
    /\ NumSources \in Nat \ {0} /\ Sources \subseteq 1..NumSources
    /\ MaxPriority \in Nat \ {0}

VARIABLES
    enabled,     \* sources whose enable bit is set
    priority,    \* of every source
    threshold,   \* of the hart
    pending,     \* sources whose gateway has forwarded a request
    inService    \* sources claimed and not completed

registers == <<enabled, priority, threshold>>
requests  == <<pending, inService>>
plicVars  == <<enabled, priority, threshold, pending, inService>>

NoSource == 0

(***************************************************************************)
(* Reset leaves the registers undefined ("don't assume that these          *)
(* registers are reset").                                                  *)
(***************************************************************************)
PlicInit ==
    /\ enabled \in SUBSET Sources
    /\ priority \in {[s \in Sources |-> p] : p \in {0, MaxPriority}}
    /\ threshold \in {0, MaxPriority}
    /\ pending = {} /\ inService = {}

(***************************************************************************)
(* The enable bits are cleared by bytes: (num_sources + 8) / 8 of them.    *)
(***************************************************************************)
BytesOfSources(n) == (n + 7) \div 8

BytesOf(n) == (n + 8) \div 8

PLIC_init ==
    /\ enabled' = {s \in enabled : s \div 8 >= BytesOf(NumSources)}
    /\ priority' = [s \in Sources |-> IF s <= NumSources THEN 0 ELSE priority[s]]
    /\ threshold' = 0
    /\ UNCHANGED requests

PLIC_set_threshold(t) ==
    /\ threshold' = t
    /\ UNCHANGED <<enabled, priority, requests>>

PLIC_enable_interrupts(set) ==
    /\ enabled' = enabled \cup set
    /\ UNCHANGED <<priority, threshold, requests>>

(***************************************************************************)
(* One source: its byte is loaded, one bit of it changed, and stored.      *)
(***************************************************************************)
ByteOf(s) == {t \in enabled : t \div 8 = s \div 8}

StoreByte(s, bits) ==
    /\ enabled' = {t \in enabled : t \div 8 # s \div 8} \cup bits
    /\ UNCHANGED <<priority, threshold, requests>>

PLIC_enable_interrupt(s)  == StoreByte(s, ByteOf(s) \cup {s})
PLIC_disable_interrupt(s) == StoreByte(s, ByteOf(s) \ {s})

PLIC_set_priorities(values) ==
    /\ priority' = [s \in Sources |-> IF s \in DOMAIN values THEN values[s]
                                                             ELSE priority[s]]
    /\ UNCHANGED <<enabled, threshold, requests>>

(***************************************************************************)
(* The hardware: the external interrupt is raised by a source above the    *)
(* threshold; a claim looks at the priorities only, the lowest source      *)
(* first among equals.                                                     *)
(***************************************************************************)
Candidates == {s \in pending \cap enabled : priority[s] > 0}

Raised == \E s \in Candidates : priority[s] > threshold

Beats(s, t) == priority[s] > priority[t] \/ (priority[s] = priority[t] /\ s <= t)

Winner == IF Candidates = {} THEN NoSource
          ELSE CHOOSE s \in Candidates : \A t \in Candidates : Beats(s, t)

(***************************************************************************)
(* PLIC_claim_interrupt reads the winner and clears its request.           *)
(***************************************************************************)
PLIC_claim_interrupt ==
    /\ pending' = pending \ {Winner}
    /\ inService' = inService \cup ({Winner} \ {NoSource})
    /\ UNCHANGED registers

PLIC_complete_interrupt(s) ==
    /\ inService' = inService \ {s}
    /\ UNCHANGED <<pending, registers>>

(***************************************************************************)
(* A gateway forwards the request of a line that is high, once until it is *)
(* completed; a line that goes low takes no request back.                  *)
(***************************************************************************)
Forward(s) ==
    /\ s \notin pending \cup inService
    /\ pending' = pending \cup {s}
    /\ UNCHANGED <<registers, inService>>

PlicTypeOK ==
    /\ enabled \subseteq Sources
    /\ priority \in [Sources -> 0..MaxPriority]
    /\ threshold \in 0..MaxPriority
    /\ pending \subseteq Sources /\ inService \subseteq Sources
=============================================================================
