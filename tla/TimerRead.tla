----------------------------- MODULE TimerRead -----------------------------
(***************************************************************************)
(* get_timer_value of the board packages (and the rdmcycle and rdminstret  *)
(* loops of the clock driver and of performance_counters): read the high   *)
(* word, the low word, the high word again, and start over when the high   *)
(* word has changed.  The counter ticks, any number of times, between any  *)
(* two reads: a trap handler may run there.                                *)
(***************************************************************************)
EXTENDS Mtime

VARIABLES
    pc,        \* the next read: "idle" outside the function
    hi, lo,    \* the function's locals
    called,    \* history: the counter when the call began
    result     \* the value the last finished call returned

vars == <<high, low, pc, hi, lo, called, result>>

Init ==
    /\ CounterInit
    /\ pc = "idle"
    /\ hi = 0 /\ lo = 0
    /\ called = Now
    /\ result = <<0, 0>>

Call ==
    /\ pc = "idle"
    /\ pc' = "high"
    /\ called' = Now
    /\ UNCHANGED <<high, low, hi, lo, result>>

ReadHigh ==
    /\ pc = "high"
    /\ hi' = high
    /\ pc' = "low"
    /\ UNCHANGED <<high, low, lo, called, result>>

ReadLow ==
    /\ pc = "low"
    /\ lo' = low
    /\ pc' = "again"
    /\ UNCHANGED <<high, low, hi, called, result>>

CompareUnchecked ==
    /\ pc = "again"
    /\ result' = <<hi, lo>>
    /\ pc' = "idle"
    /\ UNCHANGED <<high, low, hi, lo, called>>

(***************************************************************************)
(* The second read of the high word: return, or go round the loop again.   *)
(***************************************************************************)
Compare ==
    /\ pc = "again"
    /\ \/ /\ hi = high
          /\ result' = <<hi, lo>>
          /\ pc' = "idle"
       \/ /\ hi # high
          /\ pc' = "high"
          /\ UNCHANGED result
    /\ UNCHANGED <<high, low, hi, lo, called>>

Time == Tick /\ UNCHANGED <<pc, hi, lo, called, result>>

Next == Call \/ ReadHigh \/ ReadLow \/ Compare \/ Time

Spec == Init /\ [][Next]_vars

(***************************************************************************)
(* The types of the variables.                                             *)
(***************************************************************************)
TypeOK ==
    /\ high \in Highs /\ low \in Lows
    /\ pc \in {"idle", "high", "low", "again"}
    /\ hi \in Highs /\ lo \in Lows
    /\ called \in Times
    /\ result \in Times

Return == pc = "again" /\ pc' = "idle"

WithinTheCall ==
    Return => NoLater(called, result') /\ NoLater(result', Now)

(***************************************************************************)
(* What get_timer_value returns is a value the counter had while the call  *)
(* was running, however the carry falls between its three reads: no        *)
(* earlier than the counter at the call, no later than at the return.      *)
(***************************************************************************)
ReadsAreCurrent == [][WithinTheCall]_vars

(***************************************************************************)
(* Two calls one after the other never see time go backwards (the sleeps   *)
(* of the boards and the measurements of performance_counters subtract an  *)
(* earlier result from a later one).                                       *)
(***************************************************************************)
TimeNeverGoesBack == [][NoLater(result, result')]_vars
=============================================================================
