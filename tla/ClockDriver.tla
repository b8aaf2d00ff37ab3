---------------------------- MODULE ClockDriver ----------------------------
(***************************************************************************)
(* The clocks at work for their clients: a program that calls the driver's *)
(* functions in any order, after _init of the board or without it;         *)
(* PRCI_set_hfrosctrim_for_f_cpu, whose search calls PRCI_use_hfrosc for   *)
(* every trim it measures and PRCI_use_pll for the one it chooses; and     *)
(* led_fade, which writes the registers itself.                            *)
(***************************************************************************)
EXTENDS Prci, TrimSearch

ASSUME ClientAssumption == Trims = AllTrims

VARIABLE client    \* who uses the clocks, and, of some, what is next

driver_vars == <<vars, search_vars, client>>

ClockInit ==
    /\ Init /\ SearchInit
    /\ client \in {"program", "search", "default_clocks", "fade_enable"}
    /\ client # "search" =>
          /\ table = [t \in AllTrims |-> 0]
          /\ desired = 0 /\ target = "closest"

(***************************************************************************)
(* _init of the HiFive1: its own use_default_clocks and use_pll, older     *)
(* copies that do the same for these arguments.                            *)
(***************************************************************************)
InitDefaultClocks ==
    /\ client = "default_clocks" /\ client' = "pll"
    /\ CallUseDefaultClocks
    /\ UNCHANGED search_vars

InitPll ==
    /\ client = "pll" /\ client' = "program"
    /\ UsePll([refsel |-> FALSE, bypass |-> FALSE, trim |-> NoTrim,
               finaldiv |-> 1])
    /\ UNCHANGED search_vars

ProgramCalls ==
    /\ client = "program" /\ Call
    /\ UNCHANGED <<search_vars, client>>

(***************************************************************************)
(* The search measures when PRCI_use_hfrosc has returned.                  *)
(***************************************************************************)
Measure ==
    /\ client = "search" /\ (Begin \/ Raise)
    /\ UseHfrosc(hfrosctrim')
    /\ UNCHANGED client

Deliver ==
    /\ client = "search" /\ Decide
    /\ UsePll([refsel |-> FALSE, bypass |-> FALSE, trim |-> chosen',
               finaldiv |-> 1])
    /\ UNCHANGED client

(***************************************************************************)
(* main of led_fade: over to the crystal, register by register, without a  *)
(* wait.  It is built without _init.                                       *)
(***************************************************************************)
FadeEnable ==
    /\ client = "fade_enable" /\ client' = "fade_bypass"
    /\ hfrosc' = IF hfrosc = "off" THEN "starting" ELSE hfrosc
    /\ UNCHANGED <<trim, sel, refsel, bypass, finaldiv, time, sw, search_vars>>

FadeBypass ==
    /\ client = "fade_bypass" /\ client' = "fade_select"
    /\ sel' = FALSE /\ refsel' = TRUE /\ bypass' = TRUE
    /\ age' = 0
    /\ UNCHANGED <<trim, hfrosc, finaldiv, phase, sw, search_vars>>

FadeSelect ==
    /\ client = "fade_select" /\ client' = "fade_off"
    /\ sel' = TRUE
    /\ UNCHANGED <<trim, hfrosc, refsel, bypass, finaldiv, time, sw, search_vars>>

FadeOff ==
    /\ client = "fade_off" /\ client' = "fade"
    /\ hfrosc' = "off"
    /\ UNCHANGED <<trim, sel, refsel, bypass, finaldiv, time, sw, search_vars>>

LedFade == FadeEnable \/ FadeBypass \/ FadeSelect \/ FadeOff

DriverRuns  == Driver /\ UNCHANGED <<search_vars, client>>
Starts      == HfroscStarts /\ UNCHANGED <<search_vars, client>>
ClockTicks  == TimePasses /\ UNCHANGED <<search_vars, client>>

ClockNext ==
    \/ InitDefaultClocks \/ InitPll \/ ProgramCalls
    \/ Measure \/ Deliver \/ LedFade
    \/ DriverRuns \/ Starts \/ ClockTicks

ClockSpec ==
    /\ ClockInit /\ [][ClockNext]_driver_vars
    /\ WF_driver_vars(DriverRuns) /\ WF_driver_vars(Starts)
    /\ WF_driver_vars(ClockTicks)

(***************************************************************************)
(* The types of the variables of the driver and of the search.             *)
(***************************************************************************)
ClockTypeOK == TypeOK /\ SearchTypeOK

(***************************************************************************)
(* The clock that is measured is that of the trim the search has set, and  *)
(* when it is over the CPU runs off the PLL with the chosen trim as its    *)
(* reference ("measure the resulting frequency, then use it as the PLL     *)
(* clock source").                                                         *)
(***************************************************************************)
SearchUsesItsTrim ==
    client = "search" /\ pc = "idle" =>
        /\ stage = "search" => ~sel /\ trim = hfrosctrim
        /\ stage = "done" => sel /\ ~bypass /\ ~refsel /\ trim = chosen
=============================================================================
