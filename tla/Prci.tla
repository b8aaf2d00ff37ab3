-------------------------------- MODULE Prci --------------------------------
(***************************************************************************)
(* The clock driver (fe300prci_driver.c): which oscillator the CPU runs    *)
(* off, and the order in which the driver enables, waits for, selects and  *)
(* turns off oscillators and the PLL.  A program calls its functions one   *)
(* after the other with any arguments; the CPU runs off the very clocks    *)
(* the functions change, at every one of their register accesses.          *)
(***************************************************************************)
EXTENDS Integers

CONSTANTS
    Trims,      \* settings of the HFROSC (divider and trim)
    DefaultTrim,  \* the setting (4, 16)
    FinalDivs,  \* final dividers a program may ask for, 1 among them
    Parts,      \* parts a tick of the RTC is divided into
    Settle      \* parts after which the PLL's lock can be relied on

ASSUME PrciAssumption ==
    /\ Trims \subseteq Nat /\ DefaultTrim \in Trims
    /\ FinalDivs \subseteq Nat \ {0} /\ 1 \in FinalDivs
    /\ Parts \in Nat \ {0} /\ Settle \in Nat

(***************************************************************************)
(* The driver counts on four edges of the RTC, hence on three whole ticks, *)
(* to be enough.                                                           *)
(***************************************************************************)
ASSUME SettleAssumption == Settle <= Parts + Parts + Parts

NoTrim == -1     \* leave the HFROSC alone
WaitThreeTicks == 3
WaitTicks == 4       \* ticks of the RTC the driver waits for the lock

VARIABLES
    \* the registers
    trim,        \* the HFROSC's setting
    hfrosc,      \* "off", "starting" or "ready" (ROSC_EN, ROSC_RDY)
    sel,         \* PLL_SEL: the CPU runs off the PLL's output
    refsel,      \* PLL_REFSEL: the PLL's reference is the HFXOSC
    bypass,      \* PLL_BYPASS
    finaldiv,    \* PLLDIV
    \* the hardware
    phase,       \* parts since the last tick
    age,         \* parts since the PLL was last disturbed, up to Settle
    \* the driver
    pc, back,    \* what is next, and where PRCI_use_hfrosc returns to
    args,        \* the call's arguments
    ticks        \* CLINT_MTIME - now, up to WaitTicks

hw   == <<trim, hfrosc, sel, refsel, bypass, finaldiv>>
time == <<phase, age>>
sw   == <<pc, back, args, ticks>>
vars == <<hw, time, sw>>

Calls == [refsel : BOOLEAN, bypass : BOOLEAN, trim : Trims \cup {NoTrim},
          finaldiv : FinalDivs]

HfroscCall(t) == [refsel |-> FALSE, bypass |-> FALSE, trim |-> t,
                  finaldiv |-> 1]

NoCall == HfroscCall(DefaultTrim)

(***************************************************************************)
(* After reset: the HFROSC at its default, the PLL bypassed and not used.  *)
(***************************************************************************)
Init ==
    /\ trim = DefaultTrim /\ hfrosc = "ready"
    /\ sel = FALSE /\ refsel = TRUE /\ bypass = TRUE /\ finaldiv = 1
    /\ phase \in 0..(Parts - 1) /\ age = 0
    /\ pc = "idle" /\ back = "idle" /\ args = NoCall /\ ticks = 0

At(label) == pc = label
Goto(label) == pc' = label

(***************************************************************************)
(* The entries of PRCI_use_hfrosc and of PRCI_use_pll.                     *)
(***************************************************************************)
UseHfrosc(t) ==
    /\ At("idle")
    /\ args' = HfroscCall(t)
    /\ Goto("enable_hfrosc") /\ back' = "idle"
    /\ UNCHANGED <<hw, time, ticks>>

UsePll(call) ==
    /\ At("idle")
    /\ args' = call
    /\ Goto("leave_pll") /\ back' = "idle"
    /\ UNCHANGED <<hw, time, ticks>>

(***************************************************************************)
(* What a program may call.  PRCI_use_default_clocks also turns off the    *)
(* LFROSC, of no use to the CPU.                                           *)
(***************************************************************************)
CallUseDefaultClocks == UseHfrosc(DefaultTrim)

CallUseHfrosc == \E t \in Trims : UseHfrosc(t)

CallUsePll == \E call \in Calls : UsePll(call)

CallUseHfxosc ==
    \E d \in FinalDivs :
        UsePll([refsel |-> TRUE, bypass |-> TRUE, trim |-> NoTrim,
                finaldiv |-> d])

Call == CallUseDefaultClocks \/ CallUseHfrosc \/ CallUsePll \/ CallUseHfxosc

(***************************************************************************)
(* PRCI_use_hfrosc: set and enable the oscillator, wait until it is ready, *)
(* switch to it.  The setting is the default one when PRCI_use_pll leaves  *)
(* the PLL.                                                                *)
(***************************************************************************)
EnableHfroscWithoutEn ==
    /\ At("enable_hfrosc")
    /\ trim' = IF back = "settings" THEN DefaultTrim ELSE args.trim
    /\ Goto("wait_for_hfrosc")
    /\ age' = IF refsel \/ trim' = trim THEN age ELSE 0
    /\ UNCHANGED <<hfrosc, sel, refsel, bypass, finaldiv, phase, back, args,
                   ticks>>

EnableHfrosc ==
    /\ At("enable_hfrosc")
    /\ trim' = IF back = "settings" THEN DefaultTrim ELSE args.trim
    /\ hfrosc' = IF hfrosc = "off" THEN "starting" ELSE hfrosc
    /\ Goto("wait_for_hfrosc")
    /\ age' = IF refsel \/ trim' = trim THEN age ELSE 0
    /\ UNCHANGED <<sel, refsel, bypass, finaldiv, phase, back, args, ticks>>

WaitForHfrosc ==
    /\ At("wait_for_hfrosc") /\ hfrosc = "ready"
    /\ Goto("select_hfrosc")
    /\ UNCHANGED <<hw, time, back, args, ticks>>

SelectHfrosc ==
    /\ At("select_hfrosc")
    /\ sel' = FALSE
    /\ Goto(back)
    /\ UNCHANGED <<trim, hfrosc, refsel, bypass, finaldiv, time, back, args,
                   ticks>>

(***************************************************************************)
(* PRCI_use_pll.                                                           *)
(***************************************************************************)
LeavePll ==
    /\ At("leave_pll")
    /\ IF sel THEN Goto("enable_hfrosc") /\ back' = "settings"
              ELSE Goto("settings") /\ UNCHANGED back
    /\ UNCHANGED <<hw, time, args, ticks>>

(***************************************************************************)
(* To bypass the PLL, two registers are written; the divider becomes 1.    *)
(***************************************************************************)
SettingsWithoutTrim ==
    /\ At("settings")
    /\ Goto(IF args.bypass THEN "bypass" ELSE "divider")
    /\ UNCHANGED <<hw, time, back, args, ticks>>

Settings ==
    /\ At("settings")
    /\ IF args.bypass THEN Goto("bypass") /\ UNCHANGED back
       ELSE IF args.trim >= 0 THEN Goto("enable_hfrosc") /\ back' = "divider"
       ELSE Goto("divider") /\ UNCHANGED back
    /\ UNCHANGED <<hw, time, args, ticks>>

Bypass ==
    /\ At("bypass")
    /\ sel' = FALSE /\ refsel' = args.refsel /\ bypass' = TRUE
    /\ age' = 0
    /\ Goto("bypass_divider")
    /\ UNCHANGED <<trim, hfrosc, finaldiv, phase, back, args, ticks>>

BypassDivider ==
    /\ At("bypass_divider")
    /\ finaldiv' = 1
    /\ Goto("select_pll")
    /\ UNCHANGED <<trim, hfrosc, sel, refsel, bypass, time, back, args, ticks>>

(***************************************************************************)
(* To use it, its settings are written while it is bypassed.               *)
(***************************************************************************)
Divider ==
    /\ At("divider")
    /\ finaldiv' = args.finaldiv
    /\ Goto("configure")
    /\ UNCHANGED <<trim, hfrosc, sel, refsel, bypass, time, back, args, ticks>>

Configure ==
    /\ At("configure")
    /\ sel' = FALSE /\ refsel' = args.refsel /\ bypass' = TRUE
    /\ age' = 0
    /\ Goto("unbypass")
    /\ UNCHANGED <<trim, hfrosc, finaldiv, phase, back, args, ticks>>

Unbypass ==
    /\ At("unbypass")
    /\ bypass' = FALSE
    /\ age' = 0
    /\ Goto("now")
    /\ UNCHANGED <<trim, hfrosc, sel, refsel, finaldiv, phase, back, args,
                   ticks>>

ReadNow ==
    /\ At("now")
    /\ ticks' = 0
    /\ Goto("wait")
    /\ UNCHANGED <<hw, time, back, args>>

WaitIsOver ==
    /\ At("wait") /\ ticks >= WaitTicks
    /\ Goto("lock")
    /\ UNCHANGED <<hw, time, back, args, ticks>>

(***************************************************************************)
(* PLL_LOCK is glitchy: until the PLL has settled it may read as anything. *)
(***************************************************************************)
LockIsSet ==
    /\ At("lock")
    /\ Goto("select_pll")
    /\ UNCHANGED <<hw, time, back, args, ticks>>

SelectPll ==
    /\ At("select_pll")
    /\ sel' = TRUE
    /\ Goto("turn_off_hfrosc")
    /\ UNCHANGED <<trim, hfrosc, refsel, bypass, finaldiv, time, back, args,
                   ticks>>

TurnOffHfroscAlways ==
    /\ At("turn_off_hfrosc")
    /\ hfrosc' = "off"
    /\ Goto("idle")
    /\ UNCHANGED <<trim, sel, refsel, bypass, finaldiv, time, back, args, ticks>>

TurnOffHfrosc ==
    /\ At("turn_off_hfrosc")
    /\ hfrosc' = IF args.refsel THEN "off" ELSE hfrosc
    /\ Goto("idle")
    /\ UNCHANGED <<trim, sel, refsel, bypass, finaldiv, time, back, args, ticks>>

(***************************************************************************)
(* The hardware: the HFROSC starts up, the time passes.                    *)
(***************************************************************************)
HfroscStarts ==
    /\ hfrosc = "starting"
    /\ hfrosc' = "ready"
    /\ UNCHANGED <<trim, sel, refsel, bypass, finaldiv, time, sw>>

TimePasses ==
    /\ phase' = (phase + 1) % Parts
    /\ age' = IF age < Settle THEN age + 1 ELSE age
    /\ ticks' = IF pc = "wait" /\ phase' = 0 /\ ticks < WaitTicks
                THEN ticks + 1 ELSE ticks
    /\ UNCHANGED <<hw, pc, back, args>>

Driver ==
    \/ EnableHfrosc \/ WaitForHfrosc \/ SelectHfrosc
    \/ LeavePll \/ Settings \/ Bypass \/ BypassDivider
    \/ Divider \/ Configure \/ Unbypass \/ ReadNow \/ WaitIsOver \/ LockIsSet
    \/ SelectPll \/ TurnOffHfrosc

Next == Call \/ Driver \/ HfroscStarts \/ TimePasses

Spec == Init /\ [][Next]_vars
TypeOK ==
    /\ trim \in Trims /\ hfrosc \in {"off", "starting", "ready"}
    /\ sel \in BOOLEAN /\ refsel \in BOOLEAN /\ bypass \in BOOLEAN
    /\ finaldiv \in FinalDivs
    /\ phase \in 0..(Parts - 1) /\ age \in 0..Settle
    /\ args \in Calls /\ ticks \in 0..WaitTicks
    /\ back \in {"idle", "settings", "divider"}
    /\ pc \in {"idle", "enable_hfrosc", "wait_for_hfrosc", "select_hfrosc",
               "leave_pll", "settings", "bypass", "bypass_divider", "divider",
               "configure", "unbypass", "now", "wait", "lock", "select_pll",
               "turn_off_hfrosc"}

(***************************************************************************)
(* The CPU runs off the HFROSC, directly or as the PLL's reference, or off *)
(* the HFXOSC, which nothing turns off.                                    *)
(***************************************************************************)
RunsOffHfrosc == ~sel \/ ~refsel

(***************************************************************************)
(* No sequence of calls turns off the oscillator the CPU runs off, or      *)
(* switches to one that has not started ("this function won't turn off ... *)
(* the clock the CPU is actually running off").                            *)
(***************************************************************************)
ClockNeverStops == RunsOffHfrosc => hfrosc = "ready"

(***************************************************************************)
(* The CPU is switched to the PLL's output when that has settled, however  *)
(* the lock signal glitches before.                                        *)
(***************************************************************************)
SettledWhenSelected == [][sel' /\ ~sel => bypass \/ age >= Settle]_vars

(***************************************************************************)
(* Every function returns: it waits for no oscillator that nobody starts.  *)
(***************************************************************************)
CallsReturn == (pc # "idle") ~> (pc = "idle")

(***************************************************************************)
(* "Ensure that we aren't running off the PLL before we mess with it": a   *)
(* PLL the CPU runs off is not disturbed.                                  *)
(***************************************************************************)
PllUndisturbedInUse == sel /\ ~bypass => age >= Settle
=============================================================================
