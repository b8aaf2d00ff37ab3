-------------------------- MODULE LocalInterrupts --------------------------
(***************************************************************************)
(* The local_interrupts demo: handlers of buttons and of a switch that set *)
(* a flag main polls, a machine timer that ends their debouncing, and the  *)
(* software interrupt by which main announces it.  A handler may run       *)
(* between any two accesses of main; handlers do not nest.                 *)
(***************************************************************************)
EXTENDS Integers

CONSTANT Locals    \* the buttons and the switch

ASSUME LocalsAssumption == Locals \cap {"soft", "timer"} = {}

VARIABLES
    local_at,      \* what main does next
    local_mie,     \* the interrupts enabled in mie
    pressed,       \* buttons that are down: their lines are levels
    debounce_timer,  \* mtimecmp: "ahead" of mtime, or "due"
    msip,          \* CLINT_MSIP
    g_debouncing

local_vars ==
    <<local_at, local_mie, pressed, debounce_timer, msip, g_debouncing>>

Interrupts == Locals \cup {"soft", "timer"}

(***************************************************************************)
(* Neither mie nor mtimecmp is reset.                                      *)
(***************************************************************************)
LocalInit ==
    /\ local_at = "setup"
    /\ local_mie \in SUBSET Interrupts
    /\ pressed = {}
    /\ debounce_timer \in {"ahead", "due"}
    /\ msip = FALSE /\ g_debouncing = FALSE

(***************************************************************************)
(* main, up to the setting of MIE: no interrupt is taken before.           *)
(***************************************************************************)
LocalSetup ==
    /\ local_at = "setup"
    /\ local_mie' = Locals \cup {"soft"}
    /\ g_debouncing' = FALSE
    /\ local_at' = "test"
    /\ UNCHANGED <<pressed, debounce_timer, msip>>

(***************************************************************************)
(* The loop of main: test the flag, raise the software interrupt, clear    *)
(* the flag.                                                               *)
(***************************************************************************)
TestFlag ==
    /\ local_at = "test" /\ g_debouncing
    /\ local_at' = "raise"
    /\ UNCHANGED <<local_mie, pressed, debounce_timer, msip, g_debouncing>>

RaiseSoft ==
    /\ local_at = "raise"
    /\ msip' = TRUE
    /\ local_at' = "clear"
    /\ UNCHANGED <<local_mie, pressed, debounce_timer, g_debouncing>>

ClearFlag ==
    /\ local_at = "clear"
    /\ g_debouncing' = FALSE
    /\ local_at' = "test"
    /\ UNCHANGED <<local_mie, pressed, debounce_timer, msip>>

Taken(i) == local_at # "setup" /\ i \in local_mie

button_isr_not_disabling(l) ==
    /\ Taken(l) /\ l \in pressed
    /\ debounce_timer' = "ahead"
    /\ local_mie' = local_mie \cup {"timer"}
    /\ g_debouncing' = TRUE
    /\ UNCHANGED <<local_at, pressed, msip>>

(***************************************************************************)
(* The handler of a button or of the switch: its message, its LED, and     *)
(* debounce: half a second without local interrupts.                       *)
(***************************************************************************)
button_isr(l) ==
    /\ Taken(l) /\ l \in pressed
    /\ debounce_timer' = "ahead"
    /\ local_mie' = (local_mie \ Locals) \cup {"timer"}
    /\ g_debouncing' = TRUE
    /\ UNCHANGED <<local_at, pressed, msip>>

msi_isr ==
    /\ Taken("soft") /\ msip
    /\ msip' = FALSE
    /\ UNCHANGED <<local_at, local_mie, pressed, debounce_timer, g_debouncing>>

mti_isr_forgetful ==
    /\ Taken("timer") /\ debounce_timer = "due"
    /\ local_mie' = local_mie \ {"timer"}
    /\ UNCHANGED <<local_at, pressed, debounce_timer, msip, g_debouncing>>

(***************************************************************************)
(* mti_isr: the debouncing is over.                                        *)
(***************************************************************************)
mti_isr ==
    /\ Taken("timer") /\ debounce_timer = "due"
    /\ local_mie' = (local_mie \ {"timer"}) \cup Locals
    /\ UNCHANGED <<local_at, pressed, debounce_timer, msip, g_debouncing>>

(***************************************************************************)
(* The world: a button goes down or up; half a second passes, in which     *)
(* main goes round its loop and the software interrupt is taken.           *)
(***************************************************************************)
PressOrRelease(l) ==
    /\ pressed' = IF l \in pressed THEN pressed \ {l} ELSE pressed \cup {l}
    /\ UNCHANGED <<local_at, local_mie, debounce_timer, msip, g_debouncing>>

HalfASecondPasses ==
    /\ debounce_timer = "ahead"
    /\ local_at = "test" /\ ~g_debouncing /\ ~msip
    /\ debounce_timer' = "due"
    /\ UNCHANGED <<local_at, local_mie, pressed, msip, g_debouncing>>

LocalMain == LocalSetup \/ TestFlag \/ RaiseSoft \/ ClearFlag
LocalTrap == msi_isr \/ mti_isr \/ \E l \in Locals : button_isr(l)

LocalNext ==
    \/ LocalMain \/ LocalTrap \/ HalfASecondPasses
    \/ \E l \in Locals : PressOrRelease(l)

(***************************************************************************)
(* Every press that is taken is announced by a message of its own: no      *)
(* handler sets the flag while main still has the last press to announce   *)
(* or the software interrupt is still to come, whatever mie and mtimecmp   *)
(* were at reset.                                                          *)
(***************************************************************************)
EveryPressAnnounced ==
    [][\A l \in Locals : button_isr(l) => ~g_debouncing /\ ~msip]_local_vars

(***************************************************************************)
(* A debounce ends: the buttons are enabled again.                         *)
(***************************************************************************)
LocalsComeBack == (local_at # "setup") ~> (Locals \subseteq local_mie)
=============================================================================
