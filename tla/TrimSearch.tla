----------------------------- MODULE TrimSearch -----------------------------
(***************************************************************************)
(* PRCI_set_hfrosctrim_for_f_cpu: look for the trim of the HFROSC whose    *)
(* frequency is under, over, or closest to the desired one, by raising the *)
(* trim and measuring.  A board is its table of measured frequencies, one  *)
(* of every trim, which do not decrease; every board, every desired        *)
(* frequency and every target is an initial state.                         *)
(***************************************************************************)
EXTENDS Integers

CONSTANTS
    MaxTrim,    \* 0x1F
    MaxFreq     \* bound: frequencies, in some unit

ASSUME SearchAssumption == MaxTrim \in Nat /\ MaxFreq \in Nat

AllTrims == 0..MaxTrim
Freqs    == 0..MaxFreq
Targets  == {"overshoot", "closest", "undershoot"}

VARIABLES
    table,      \* the board
    desired,    \* desired_hfrosc_freq
    target,     \* the caller's choice
    hfrosctrim, prev_trim,  \* the trims; their frequencies are the table's
    stage,      \* of the search: "called", "search" or "done"
    chosen      \* the trim PRCI_use_pll is called with

search_vars ==
    <<table, desired, target, hfrosctrim, prev_trim, stage, chosen>>

SearchInit ==
    /\ table \in {f \in [AllTrims -> Freqs] :
                    \A s, t \in AllTrims : s <= t => f[s] <= f[t]}
    /\ desired \in Freqs /\ target \in Targets
    /\ hfrosctrim = 0 /\ prev_trim = 0
    /\ stage = "called" /\ chosen = 0

cpu_freq  == table[hfrosctrim]
prev_freq == table[prev_trim]

(***************************************************************************)
(* Measure the lowest trim.                                                *)
(***************************************************************************)
Begin ==
    /\ stage = "called"
    /\ stage' = "search"
    /\ UNCHANGED <<table, desired, target, hfrosctrim, prev_trim, chosen>>

(***************************************************************************)
(* One round of the loop: raise the trim and measure.                      *)
(***************************************************************************)
Raise ==
    /\ stage = "search" /\ cpu_freq < desired /\ hfrosctrim < MaxTrim
    /\ prev_trim' = hfrosctrim
    /\ hfrosctrim' = hfrosctrim + 1
    /\ UNCHANGED <<table, desired, target, stage, chosen>>

Choose(t) ==
    /\ stage = "search" /\ ~(cpu_freq < desired /\ hfrosctrim < MaxTrim)
    /\ chosen' = t
    /\ stage' = "done"
    /\ UNCHANGED <<table, desired, target, hfrosctrim, prev_trim>>

TooHigh == prev_freq > desired
TooLow  == cpu_freq < desired
InRange == ~TooHigh /\ ~TooLow

(***************************************************************************)
(* Neither low nor high enough: the trim before the last one.              *)
(***************************************************************************)
OutOfRange == (TooHigh \/ TooLow) /\ Choose(prev_trim)

Closest ==
    /\ InRange /\ target = "closest"
    /\ Choose(IF desired - prev_freq < cpu_freq - desired
              THEN prev_trim ELSE hfrosctrim)

Undershoot == InRange /\ target = "undershoot" /\ Choose(prev_trim)

OvershootWithPrev == InRange /\ target = "overshoot" /\ Choose(prev_trim)

Overshoot == InRange /\ target = "overshoot" /\ Choose(hfrosctrim)

Decide == OutOfRange \/ Closest \/ Undershoot \/ Overshoot

SearchNext == Begin \/ Raise \/ Decide

SearchSpec == SearchInit /\ [][SearchNext]_search_vars

SearchTypeOK ==
    /\ {hfrosctrim, prev_trim, chosen} \subseteq AllTrims
    /\ table \in [AllTrims -> Freqs] /\ desired \in Freqs /\ target \in Targets
    /\ stage \in {"called", "search", "done"}

Distance(t) == IF table[t] > desired THEN table[t] - desired
                                     ELSE desired - table[t]

(***************************************************************************)
(* "under": never above the desired frequency, unless the board cannot go  *)
(* that low.                                                               *)
(***************************************************************************)
NeverAbove ==
    stage = "done" /\ target = "undershoot" /\ table[0] <= desired
        => table[chosen] <= desired

(***************************************************************************)
(* "over": never below it, unless the board cannot go that high.           *)
(***************************************************************************)
NeverBelow ==
    stage = "done" /\ target = "overshoot" /\ table[MaxTrim] >= desired
        => table[chosen] >= desired

(***************************************************************************)
(* "close to": no trim is closer, when the frequency is in the board's     *)
(* range.                                                                  *)
(***************************************************************************)
ClosestInRange ==
    stage = "done" /\ target = "closest" /\ desired <= table[MaxTrim]
        => \A t \in AllTrims : Distance(chosen) <= Distance(t)

(***************************************************************************)
(* Whatever the board and the frequency, the search chooses a trim that is *)
(* what the caller asked for.                                              *)
(***************************************************************************)
RightTrim == NeverAbove /\ NeverBelow /\ ClosestInRange
=============================================================================
