------------------------------ MODULE DemoGpio ------------------------------
(***************************************************************************)
(* The demo_gpio program on a board with buttons: main toggles one bit of  *)
(* GPIO_OUTPUT_VAL for ever, by an atomic operation; a button's handler    *)
(* lights the button's LED and clears its edge; the timer inverts all      *)
(* LEDs.  Handlers do not nest; buttons may be pressed at any time, also   *)
(* between two steps of a handler.                                         *)
(***************************************************************************)
EXTENDS Plic

CONSTANT Buttons    \* sources of the buttons, which name the LEDs too

ASSUME ButtonsAssumption == Buttons \subseteq Sources

VARIABLES
    demo_at,       \* what main, or the handler it is interrupted by, does next
    int_num,       \* handle_m_ext_interrupt: the source that was claimed
    rise,          \* GPIO_RISE_IP: edges of the buttons
    output_val,    \* GPIO_OUTPUT_VAL: the bits that are set
    invert_timer   \* mtimecmp: "ahead" of mtime, or "due"

gpio_vars == <<demo_at, int_num, rise, output_val, invert_timer>>
demo_vars == <<gpio_vars, plicVars>>

Pin == NoSource    \* the bit main toggles

DemoInit ==
    /\ PlicInit
    /\ demo_at = "setup" /\ int_num = NoSource
    /\ rise = {} /\ output_val = {} /\ invert_timer = "ahead"

(***************************************************************************)
(* main and reset_demo.  The blue LED, of the last button, is on at first. *)
(* The last step is also the one that lets interrupts in.                  *)
(***************************************************************************)
Blue == {b \in Buttons : \A c \in Buttons : c <= b}

InitDemo ==
    /\ demo_at = "setup" /\ demo_at' = "enable"
    /\ PLIC_init
    /\ output_val' = (output_val \cup Blue) \ (Buttons \ Blue)
    /\ UNCHANGED <<int_num, rise, invert_timer>>

EnableButtons ==
    /\ demo_at = "enable" /\ demo_at' = "prioritise"
    /\ PLIC_enable_interrupts(Buttons)
    /\ UNCHANGED <<int_num, rise, output_val, invert_timer>>

PrioritiseButtons ==
    /\ demo_at = "prioritise" /\ demo_at' = "main"
    /\ PLIC_set_priorities([b \in Buttons |-> 1])
    /\ UNCHANGED <<int_num, rise, output_val, invert_timer>>

Toggled(bits) == (output_val \ bits) \cup (bits \ output_val)

BitBang ==
    /\ demo_at = "main"
    /\ output_val' = Toggled({Pin})
    /\ UNCHANGED <<demo_at, int_num, rise, invert_timer, plicVars>>

(***************************************************************************)
(* handle_m_ext_interrupt: the claim, the handler, the completion.  A      *)
(* source without a button has no_interrupt_handler.                       *)
(***************************************************************************)
ClaimButton ==
    /\ demo_at = "main" /\ Raised
    /\ PLIC_claim_interrupt
    /\ int_num' = Winner
    /\ demo_at' = CASE Winner \in Buttons  -> "light"
                    [] Winner = NoSource   -> "exit"
                    [] OTHER               -> "complete"
    /\ UNCHANGED <<rise, output_val, invert_timer>>

Light ==
    /\ demo_at = "light" /\ demo_at' = "clear"
    /\ output_val' = output_val \cup {int_num}
    /\ UNCHANGED <<int_num, rise, invert_timer, plicVars>>

ClearAllEdges ==
    /\ demo_at = "clear" /\ demo_at' = "complete"
    /\ rise' = {}
    /\ UNCHANGED <<int_num, output_val, invert_timer, plicVars>>

(***************************************************************************)
(* Writing 1 clears the handler's own edge and no other.                   *)
(***************************************************************************)
ClearEdge ==
    /\ demo_at = "clear" /\ demo_at' = "complete"
    /\ rise' = rise \ {int_num}
    /\ UNCHANGED <<int_num, output_val, invert_timer, plicVars>>

CompleteNothing ==
    /\ demo_at = "complete" /\ demo_at' = "main"
    /\ UNCHANGED <<int_num, rise, output_val, invert_timer, plicVars>>

CompleteButton ==
    /\ demo_at = "complete" /\ demo_at' = "main"
    /\ PLIC_complete_interrupt(int_num)
    /\ UNCHANGED <<int_num, rise, output_val, invert_timer>>

(***************************************************************************)
(* handle_m_time_interrupt; an external interrupt goes first.              *)
(***************************************************************************)
InvertLEDs ==
    /\ demo_at = "main" /\ invert_timer = "due" /\ ~Raised
    /\ output_val' = Toggled(Buttons)
    /\ invert_timer' = "ahead"
    /\ UNCHANGED <<demo_at, int_num, rise, plicVars>>

(***************************************************************************)
(* The world: presses, the gateways of the buttons (once GPIO_RISE_IE is   *)
(* set) and of the other sources, and time.                                *)
(***************************************************************************)
PressButton ==
    /\ \E b \in Buttons : rise' = rise \cup {b}
    /\ UNCHANGED <<demo_at, int_num, output_val, invert_timer, plicVars>>

ForwardEdge(b) ==
    /\ demo_at \notin {"setup", "enable", "prioritise"} /\ b \in rise
    /\ Forward(b)
    /\ UNCHANGED gpio_vars

ForwardOther ==
    /\ \E s \in Sources \ Buttons : Forward(s)
    /\ UNCHANGED gpio_vars

TwoSecondsPass ==
    /\ invert_timer = "ahead" /\ invert_timer' = "due"
    /\ UNCHANGED <<demo_at, int_num, rise, output_val, plicVars>>

DemoSetup   == InitDemo \/ EnableButtons \/ PrioritiseButtons
DemoHandler == ClaimButton \/ Light \/ ClearEdge \/ CompleteButton

DemoNext ==
    \/ DemoSetup \/ BitBang \/ DemoHandler \/ InvertLEDs
    \/ PressButton \/ (\E b \in Buttons : ForwardEdge(b)) \/ ForwardOther
    \/ TwoSecondsPass

(***************************************************************************)
(* No press is forgotten: an edge is only cleared when the LED of its      *)
(* button is on, whichever buttons are pressed while a handler runs and    *)
(* whenever the timer inverts the LEDs.                                    *)
(***************************************************************************)
ClearedWhenLit == [][rise \ rise' \subseteq output_val]_demo_vars

(***************************************************************************)
(* A press is served, unless buttons the controller prefers (at the same   *)
(* priority, the lower source) keep being pressed.                         *)
(***************************************************************************)
PressesAreServed ==
    \A b \in Buttons :
        <>[](\A c \in Buttons : c < b => c \notin rise)
            => (b \in rise ~> b \notin rise)
=============================================================================
