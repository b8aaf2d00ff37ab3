-------------------------- MODULE GlobalInterrupts --------------------------
(***************************************************************************)
(* The global_interrupts demo: two switches and the PWM through the        *)
(* controller of module Plic, and the machine timer that inverts the       *)
(* switches' priorities.  A switch's handler raises the threshold above    *)
(* the switches and starts the PWM, whose handler lowers it again after    *)
(* g_debounce more periods.                                                *)
(*                                                                         *)
(* Traps do not nest.  Devices act between any two steps of the hart.      *)
(***************************************************************************)
EXTENDS Plic

CONSTANTS
    SW_1, SW_2, PWM_0,   \* the sources of the two switches and of the PWM
    DebouncePeriods      \* 600

ASSUME GlobalAssumption ==
    /\ {SW_1, SW_2, PWM_0} \subseteq Sources \ {NumSources}
    /\ SW_1 < SW_2 /\ PWM_0 \notin {SW_1, SW_2}
    /\ MaxPriority >= 5 /\ DebouncePeriods \in Nat

Switches == {SW_1, SW_2}
Used     == Switches \cup {PWM_0}

VARIABLES
    pc,          \* what the hart does next
    claimed,     \* int_num of mei_isr
    handlers,    \* g_ext_interrupt_handlers: sources with a handler
    on,          \* lines that are high: switches that are on, other devices
    pwm,         \* "off", "running" or "fired": PWM_CFG and its interrupt
    debounceLeft,  \* g_debounce
    switch1Wins,   \* g_switch1Wins
    timer,       \* the machine timer interrupt is pending
    green        \* the LED: green, or red

ownVars == <<pc, claimed, handlers, on, pwm, debounceLeft, switch1Wins, timer,
             green>>
vars == <<plicVars, ownVars>>

Init ==
    /\ PlicInit
    /\ pc = "setup" /\ claimed = NoSource
    /\ handlers = {}
    /\ on = {} /\ pwm = "off"
    /\ debounceLeft = 0 /\ switch1Wins = FALSE
    /\ timer = FALSE /\ green = TRUE

(***************************************************************************)
(* main, with the interrupts off: the handlers and the controller, the     *)
(* enable bits, the priorities, and then the interrupts.  The loop that is *)
(* to fill the table writes past its end and leaves it empty.              *)
(***************************************************************************)
SetUpWithoutPwm ==
    /\ pc = "setup"
    /\ handlers' = Switches
    /\ PLIC_init
    /\ pc' = "enable"
    /\ UNCHANGED <<claimed, on, pwm, debounceLeft, switch1Wins, timer, green>>

SetUpController ==
    /\ pc = "setup"
    /\ handlers' = Used
    /\ PLIC_init
    /\ pc' = "enable"
    /\ UNCHANGED <<claimed, on, pwm, debounceLeft, switch1Wins, timer, green>>

EnableSources ==
    /\ pc = "enable"
    /\ PLIC_enable_interrupts(Used)
    /\ pwm' = "off"
    /\ pc' = "priorities"
    /\ UNCHANGED <<claimed, handlers, on, debounceLeft, switch1Wins, timer,
                   green>>

SetPriorities ==
    /\ pc = "priorities"
    /\ PLIC_set_priorities([s \in Used |-> IF s = PWM_0 THEN 5 ELSE 2])
    /\ switch1Wins' = TRUE
    /\ timer' = FALSE
    /\ pc' = "idle"
    /\ UNCHANGED <<claimed, handlers, on, pwm, debounceLeft, green>>

(***************************************************************************)
(* mti_isr: the external interrupt goes first when both are pending.       *)
(***************************************************************************)
mti_isr ==
    /\ pc = "idle" /\ timer /\ ~Raised
    /\ PLIC_set_priorities([s \in {SW_2} |-> IF switch1Wins THEN 2 ELSE 3])
    /\ switch1Wins' = ~switch1Wins
    /\ timer' = FALSE
    /\ UNCHANGED <<pc, claimed, handlers, on, pwm, debounceLeft, green>>

(***************************************************************************)
(* mei_isr: claim, call the handler, complete.                             *)
(***************************************************************************)
Claim ==
    /\ pc = "idle" /\ Raised
    /\ PLIC_claim_interrupt
    /\ claimed' = Winner
    /\ pc' = IF Winner \in 1..(NumSources - 1) THEN "handler" ELSE "exit"
    /\ UNCHANGED <<handlers, on, pwm, debounceLeft, switch1Wins, timer, green>>

switch_handler_threshold_too_high ==
    /\ pc = "handler" /\ claimed \in Switches
    /\ green' = (claimed = SW_1)
    /\ debounceLeft' = DebouncePeriods
    /\ pwm' = "running"
    /\ PLIC_set_threshold(5)
    /\ pc' = "complete"
    /\ UNCHANGED <<claimed, handlers, on, switch1Wins, timer>>

(***************************************************************************)
(* The switches' handlers: the LED, and debounce.                          *)
(***************************************************************************)
switch_handler ==
    /\ pc = "handler" /\ claimed \in Switches
    /\ green' = (claimed = SW_1)
    /\ debounceLeft' = DebouncePeriods
    /\ pwm' = "running"
    /\ PLIC_set_threshold(4)
    /\ pc' = "complete"
    /\ UNCHANGED <<claimed, handlers, on, switch1Wins, timer>>

pwm_handler_early_threshold ==
    /\ pc = "handler" /\ claimed = PWM_0
    /\ PLIC_set_threshold(1)
    /\ debounceLeft' = IF debounceLeft = 0 THEN 0 ELSE debounceLeft - 1
    /\ pwm' = IF debounceLeft = 0 THEN "off" ELSE "running"
    /\ pc' = "complete"
    /\ UNCHANGED <<claimed, handlers, on, switch1Wins, timer, green>>

pwm_0_handler ==
    /\ pc = "handler" /\ claimed = PWM_0
    /\ \/ /\ debounceLeft = 0
          /\ PLIC_set_threshold(1)
          /\ pwm' = "off"
          /\ UNCHANGED debounceLeft
       \/ /\ debounceLeft > 0
          /\ debounceLeft' = debounceLeft - 1
          /\ pwm' = "running"
          /\ UNCHANGED plicVars
    /\ pc' = "complete"
    /\ UNCHANGED <<claimed, handlers, on, switch1Wins, timer, green>>

Complete ==
    /\ pc = "complete"
    /\ PLIC_complete_interrupt(claimed)
    /\ claimed' = NoSource
    /\ pc' = "idle"
    /\ UNCHANGED <<handlers, on, pwm, debounceLeft, switch1Wins, timer, green>>

(***************************************************************************)
(* The devices: a switch or another line changes, the PWM's period ends,   *)
(* the timer comes due, and a gateway sees a line that is high.            *)
(***************************************************************************)
Toggle(s) ==
    /\ on' = IF s \in on THEN on \ {s} ELSE on \cup {s}
    /\ UNCHANGED <<plicVars, pc, claimed, handlers, pwm, debounceLeft,
                   switch1Wins, timer, green>>

PeriodEnds ==
    /\ pwm = "running"
    /\ pwm' = "fired"
    /\ UNCHANGED <<plicVars, pc, claimed, handlers, on, debounceLeft,
                   switch1Wins, timer, green>>

TimerComesDue ==
    /\ pc \notin {"setup", "enable", "priorities"}
    /\ timer' = TRUE
    /\ UNCHANGED <<plicVars, pc, claimed, handlers, on, pwm, debounceLeft,
                   switch1Wins, green>>

High == on \cup (IF pwm = "fired" THEN {PWM_0} ELSE {})

Gateway(s) == s \in High /\ Forward(s) /\ UNCHANGED ownVars

Hart == SetUpController \/ EnableSources \/ SetPriorities
        \/ mti_isr \/ Claim \/ switch_handler \/ pwm_0_handler \/ Complete

Next == \/ Hart
        \/ \E s \in Sources \ {PWM_0} : Toggle(s)
        \/ PeriodEnds \/ TimerComesDue
        \/ \E s \in Sources : Gateway(s)

(***************************************************************************)
(* The hart, the PWM and its gateway go on; nobody need touch a switch.    *)
(***************************************************************************)
Spec == Init /\ [][Next]_vars
FairSpec == /\ Spec
            /\ WF_vars(Hart) /\ WF_vars(PeriodEnds) /\ WF_vars(Gateway(PWM_0))

TypeOK ==
    /\ PlicTypeOK
    /\ pc \in {"setup", "enable", "priorities", "idle", "handler", "complete",
               "exit"}
    /\ claimed \in Sources \cup {NoSource} /\ handlers \subseteq Sources
    /\ on \subseteq Sources \ {PWM_0} /\ pwm \in {"off", "running", "fired"}
    /\ debounceLeft \in 0..DebouncePeriods
    /\ switch1Wins \in BOOLEAN /\ timer \in BOOLEAN /\ green \in BOOLEAN

(***************************************************************************)
(* Whatever the enable bits were at reset, and whatever other lines do,    *)
(* main leaves exactly the sources enabled that it registers handlers for. *)
(***************************************************************************)
OnlyUsedEnabled == pc \notin {"setup", "enable"} => enabled = Used

(***************************************************************************)
(* A trap never finds an empty slot of g_ext_interrupt_handlers, although  *)
(* most are, and never ends in exit because the claim came back empty.     *)
(***************************************************************************)
ClaimHasAHandler == pc # "exit" /\ (pc = "handler" => claimed \in handlers)

(***************************************************************************)
(* No switch is handled while one is being debounced: the claim register   *)
(* knows nothing of the threshold, the PWM's priority has to keep the      *)
(* switches behind ("only the PWM or timer interrupts").                   *)
(***************************************************************************)
NoSwitchWhileDebouncing ==
    pc = "handler" /\ claimed \in Switches => pwm = "off"

(***************************************************************************)
(* A debounce ends, however the switches and the timer behave.             *)
(***************************************************************************)
DebounceEnds == (pwm # "off") ~> (pwm = "off")
=============================================================================
