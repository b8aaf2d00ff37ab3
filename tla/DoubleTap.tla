----------------------------- MODULE DoubleTap -----------------------------
(***************************************************************************)
(* The double-tap boot loader of the HiFive1.  It has no memory but the    *)
(* register BACKUP15, which survives a reset: it arms the register with a  *)
(* magic value for half a second and puts the old value back; a reset in   *)
(* between makes the next boot stop in a "safe" mode.  The button may be   *)
(* pressed between any two accesses to a register.                         *)
(*                                                                         *)
(* The user program is anything that leaves the magic value alone: it may  *)
(* write BACKUP15 and the GPIO registers, and put the chip to sleep; waking *)
(* up runs the boot loader from the start, with another PMUCAUSE.          *)
(***************************************************************************)
EXTENDS Integers

CONSTANTS
    Values,   \* what user programs keep in BACKUP15
    Zero,     \* 0
    Magic,    \* BACKUP15_MAGIC
    PwmMax,   \* the brightest the red LED gets: 255
    Window,   \* the half second, in ticks
    MaxTaps   \* bound: presses of the button

ASSUME BootAssumption ==
    /\ Zero \in Values /\ Magic \notin Values
    /\ Window \in Nat \ {0} /\ MaxTaps \in Nat /\ PwmMax \in Nat

GPIO == {"val", "xor", "en"}

VARIABLES
    pc,        \* the next access of the boot loader; "user" in the program
    cause,     \* PMUCAUSE: "reset" or "wakeup"
    backup15,  \* the register
    save,      \* main's local
    gpio,      \* the registers the green LED's bit is set in
    pwm,       \* pwm_val of the fading loop
    elapsed,   \* ticks since "now" was read
    taps,      \* bound: presses so far
    asked,     \* history: the button asked for the safe mode
    kept       \* history: what the user program last had in BACKUP15

vars == <<pc, cause, backup15, save, gpio, pwm, elapsed, taps, asked, kept>>

Labels == {"cause", "magic", "rearm", "red", "safe",
           "green_val", "green_xor", "green_en", "save", "arm", "wait", "disarm",
           "clear_val", "clear_xor", "clear_en", "jump", "user"}

(***************************************************************************)
(* Between the store of the magic value and the store that takes it back.  *)
(***************************************************************************)
Armed == {"wait", "disarm"}

(***************************************************************************)
(* Before a boot has looked at the register and cleared it.                *)
(***************************************************************************)
Undecided == {"cause", "magic", "rearm"}

Init ==
    /\ pc = "cause" /\ cause = "reset"
    /\ backup15 \in Values /\ save \in Values
    /\ gpio = {} /\ pwm = PwmMax /\ elapsed = 0
    /\ taps = 0 /\ asked = FALSE /\ kept = backup15

CheckCauseInverted ==
    /\ pc = "cause"
    /\ pc' = IF cause = "wakeup" THEN "magic" ELSE "clear_val"
    /\ UNCHANGED <<cause, backup15, save, gpio, pwm, elapsed, taps, asked, kept>>

(***************************************************************************)
(* Only a reset, not a wake-up, looks at the register.                     *)
(***************************************************************************)
CheckCause ==
    /\ pc = "cause"
    /\ pc' = IF cause = "reset" THEN "magic" ELSE "clear_val"
    /\ UNCHANGED <<cause, backup15, save, gpio, pwm, elapsed, taps, asked, kept>>

CheckMagic ==
    /\ pc = "magic"
    /\ pc' = IF backup15 = Magic THEN "rearm" ELSE "green_val"
    /\ UNCHANGED <<cause, backup15, save, gpio, pwm, elapsed, taps, asked, kept>>

RearmForgotten ==
    /\ pc = "rearm"
    /\ kept' = Zero
    /\ pc' = "red"
    /\ UNCHANGED <<cause, backup15, save, gpio, pwm, elapsed, taps, asked>>

Rearm ==
    /\ pc = "rearm"
    /\ backup15' = Zero
    /\ kept' = Zero
    /\ pc' = "red"
    /\ UNCHANGED <<cause, save, gpio, pwm, elapsed, taps, asked>>

(***************************************************************************)
(* The red LED goes to the PWM, the green LED off; then the fading loop.   *)
(***************************************************************************)
RedLED ==
    /\ pc = "red"
    /\ pc' = "safe"
    /\ gpio' = {}
    /\ pwm' = PwmMax
    /\ UNCHANGED <<cause, backup15, save, elapsed, taps, asked, kept>>

Fade ==
    /\ pc = "safe"
    /\ pwm' = IF pwm = 0 THEN PwmMax ELSE pwm - 1
    /\ UNCHANGED <<pc, cause, backup15, save, gpio, elapsed, taps, asked, kept>>

SetGreen(label, register, next) ==
    /\ pc = label
    /\ gpio' = gpio \cup {register}
    /\ pc' = next
    /\ UNCHANGED <<cause, backup15, save, pwm, elapsed, taps, asked, kept>>

GreenLED ==
    \/ SetGreen("green_val", "val", "green_xor")
    \/ SetGreen("green_xor", "xor", "green_en")
    \/ SetGreen("green_en", "en", "save")

ArmAndSave ==
    /\ pc = "save"
    /\ backup15' = Magic
    /\ save' = Magic
    /\ pc' = "arm"
    /\ UNCHANGED <<cause, gpio, pwm, elapsed, taps, asked, kept>>

Save ==
    /\ pc = "save"
    /\ save' = backup15
    /\ pc' = "arm"
    /\ UNCHANGED <<cause, backup15, gpio, pwm, elapsed, taps, asked, kept>>

Arm ==
    /\ pc = "arm"
    /\ backup15' = Magic
    /\ elapsed' = 0
    /\ pc' = "wait"
    /\ UNCHANGED <<cause, save, gpio, pwm, taps, asked, kept>>

(***************************************************************************)
(* The busy wait on mtime: a tick, or its end.                             *)
(***************************************************************************)
Tick ==
    /\ pc = "wait" /\ elapsed < Window
    /\ elapsed' = elapsed + 1
    /\ UNCHANGED <<pc, cause, backup15, save, gpio, pwm, taps, asked, kept>>

WaitIsOver ==
    /\ pc = "wait" /\ elapsed >= Window
    /\ pc' = "disarm"
    /\ UNCHANGED <<cause, backup15, save, gpio, pwm, elapsed, taps, asked, kept>>

DisarmWithZero ==
    /\ pc = "disarm"
    /\ backup15' = Zero
    /\ pc' = "clear_val"
    /\ UNCHANGED <<cause, save, gpio, pwm, elapsed, taps, asked, kept>>

Disarm ==
    /\ pc = "disarm"
    /\ backup15' = save
    /\ pc' = "clear_val"
    /\ UNCHANGED <<cause, save, gpio, pwm, elapsed, taps, asked, kept>>

ClearGPIO(label, register, next) ==
    /\ pc = label
    /\ gpio' = gpio \ {register}
    /\ pc' = next
    /\ UNCHANGED <<cause, backup15, save, pwm, elapsed, taps, asked, kept>>

RestoreTwoRegisters ==
    \/ ClearGPIO("clear_val", "val", "clear_xor")
    \/ ClearGPIO("clear_xor", "xor", "jump")

RestoreGPIO ==
    \/ ClearGPIO("clear_val", "val", "clear_xor")
    \/ ClearGPIO("clear_xor", "xor", "clear_en")
    \/ ClearGPIO("clear_en", "en", "jump")

Jump ==
    /\ pc = "jump"
    /\ pc' = "user"
    /\ UNCHANGED <<cause, backup15, save, gpio, pwm, elapsed, taps, asked, kept>>

(***************************************************************************)
(* The user program.                                                       *)
(***************************************************************************)
UserWrites ==
    /\ pc = "user"
    /\ backup15' \in Values
    /\ kept' = backup15'
    /\ gpio' \in SUBSET GPIO
    /\ UNCHANGED <<pc, cause, save, pwm, elapsed, taps, asked>>

SleepAndWakeUp ==
    /\ pc = "user"
    /\ pc' = "cause" /\ cause' = "wakeup"
    /\ gpio' = {}
    /\ UNCHANGED <<backup15, save, pwm, elapsed, taps, asked, kept>>

(***************************************************************************)
(* The button: everything but the register starts from reset.  What it     *)
(* asks for depends on when it is pressed: the safe mode while the         *)
(* register is armed, again what it asked for in a boot that has not       *)
(* looked yet, and a normal boot at any other time.                        *)
(***************************************************************************)
Tap ==
    /\ taps < MaxTaps
    /\ taps' = taps + 1
    /\ pc' = "cause" /\ cause' = "reset"
    /\ gpio' = {} /\ elapsed' = 0
    /\ asked' = (pc \in Armed \/ (pc \in Undecided /\ asked))
    /\ UNCHANGED <<backup15, save, pwm, kept>>

Boot == \/ CheckCause \/ CheckMagic \/ Rearm \/ RedLED \/ Fade \/ GreenLED
        \/ Save \/ Arm \/ Tick \/ WaitIsOver \/ Disarm \/ RestoreGPIO \/ Jump

Next == Boot \/ UserWrites \/ SleepAndWakeUp \/ Tap

(***************************************************************************)
(* The processor and the clock run; nobody has to press a button.          *)
(***************************************************************************)
Spec == Init /\ [][Next]_vars
FairSpec == Spec /\ WF_vars(Boot)

TypeOK ==
    /\ pc \in Labels /\ cause \in {"reset", "wakeup"}
    /\ backup15 \in Values \cup {Magic} /\ save \in Values
    /\ gpio \subseteq GPIO /\ pwm \in 0..PwmMax
    /\ elapsed \in 0..Window /\ taps \in 0..MaxTaps
    /\ asked \in BOOLEAN /\ kept \in Values

Safe == {"red", "safe"}

(***************************************************************************)
(* The safe mode is entered when the button was pressed in the window, and *)
(* only then: a single tap, a tap while the boot looks at the register, or *)
(* a wake-up never leads there, and a double tap never to the user         *)
(* program ("To activate safe boot mode ...", double_tap_dontboot.c).      *)
(***************************************************************************)
SafeModeIffAsked ==
    /\ pc \in Safe => asked
    /\ pc \notin Safe \cup Undecided => ~asked

(***************************************************************************)
(* The user program starts with what it had in BACKUP15, through any       *)
(* number of taps and wake-ups, or with 0 after the safe mode: the magic   *)
(* value never leaks into it ("attempting to leave the machine state as    *)
(* close to its reset state as possible").                                 *)
(***************************************************************************)
UserKeepsItsValue == pc \in {"jump", "user"} => backup15 = kept

(***************************************************************************)
(* ... and with the GPIO registers of a reset.                             *)
(***************************************************************************)
GPIOAsAtReset == pc = "jump" => gpio = {}

(***************************************************************************)
(* A boot that is not to be safe ends in the user program, one that is in  *)
(* the safe mode, unless the button is pressed again.                      *)
(***************************************************************************)
EveryBootEnds ==
    \A n \in 0..MaxTaps :
        /\ (taps = n /\ ~asked) ~> (pc = "user" \/ taps > n)
        /\ (taps = n /\ asked)  ~> (pc = "safe" \/ taps > n)
=============================================================================
