------------------------- MODULE ClockDriverProofs -------------------------
(***************************************************************************)
(* The clock driver is right for every number of trims and of final        *)
(* dividers, every fineness of the time within a tick, and every client:   *)
(* the CPU never loses its clock, is never given a PLL that has not        *)
(* settled, and the trim search inside it is the search of TrimSearch.     *)
(***************************************************************************)
EXTENDS ClockDriver, TLAPS

(***************************************************************************)
(* The search alone, for any number of trims and any board whose frequency *)
(* does not decrease with the trim.                                        *)
(***************************************************************************)
Monotone == \A s, t \in AllTrims : s <= t => table[s] <= table[t]

(***************************************************************************)
(* While the search goes on, prev_trim is the trim before, and everything  *)
(* up to it is too slow.                                                   *)
(***************************************************************************)
Below ==
    \/ hfrosctrim = 0 /\ prev_trim = 0
    \/ hfrosctrim = prev_trim + 1 /\ table[prev_trim] < desired

SearchInvariant == SearchTypeOK /\ Monotone /\ Below /\ RightTrim

(***************************************************************************)
(* The invariant of the search holds before it begins.                     *)
(***************************************************************************)
LEMMA SearchInitially == SearchInit => SearchInvariant
  BY SearchAssumption
  DEF SearchInit, SearchInvariant, SearchTypeOK, Monotone, Below, RightTrim,
      NeverAbove, NeverBelow, ClosestInRange, AllTrims, Freqs, Targets

(***************************************************************************)
(* The frequencies a step looks at are numbers.                            *)
(***************************************************************************)
LEMMA Numbers ==
    ASSUME SearchTypeOK
    PROVE  /\ cpu_freq \in Int /\ prev_freq \in Int /\ desired \in Int
           /\ \A t \in AllTrims : table[t] \in Int
  BY DEF SearchTypeOK, cpu_freq, prev_freq, AllTrims, Freqs

(***************************************************************************)
(* Beginning at trim 0 keeps it.                                           *)
(***************************************************************************)
LEMMA BeginKeeps == SearchInvariant /\ Begin => SearchInvariant'
  BY DEF Begin, SearchInvariant, SearchTypeOK, Monotone, Below, RightTrim,
         NeverAbove, NeverBelow, ClosestInRange

(***************************************************************************)
(* Raising the trim, because the frequency was still below the target,     *)
(* keeps it.                                                               *)
(***************************************************************************)
LEMMA RaiseKeeps == SearchInvariant /\ Raise => SearchInvariant'
<1> SUFFICES ASSUME SearchInvariant, Raise PROVE SearchInvariant'
  OBVIOUS
<1>1. SearchTypeOK'
  BY SearchAssumption DEF SearchInvariant, Raise, SearchTypeOK, AllTrims
<1>2. Monotone'
  BY DEF SearchInvariant, Raise, Monotone
<1>3. Below'
  BY DEF SearchInvariant, Raise, Below, cpu_freq
<1>4. RightTrim'
  BY DEF SearchInvariant, Raise, SearchTypeOK, RightTrim, NeverAbove, NeverBelow,
         ClosestInRange
<1> QED
  BY <1>1, <1>2, <1>3, <1>4 DEF SearchInvariant

(***************************************************************************)
(* Within the range, one of the two last trims is the closest: the trims   *)
(* below are slower still, those above faster.                             *)
(***************************************************************************)
LEMMA ClosestOfTwo ==
    ASSUME SearchInvariant, InRange, NEW c \in AllTrims,
           c = IF desired - prev_freq < cpu_freq - desired
               THEN prev_trim ELSE hfrosctrim
    PROVE  \A t \in AllTrims : Distance(c) <= Distance(t)
<1> TAKE t \in AllTrims
<1>1. prev_freq <= desired /\ desired <= cpu_freq
  BY Numbers DEF SearchInvariant, InRange, TooHigh, TooLow
<1>2. prev_trim \in AllTrims /\ hfrosctrim \in AllTrims
  BY DEF SearchInvariant, SearchTypeOK
<1>3. table[t] <= prev_freq \/ cpu_freq <= table[t]
  <2>1. t <= prev_trim \/ hfrosctrim <= t
    BY <1>2 DEF SearchInvariant, Below, AllTrims
  <2> QED
    BY <1>2, <2>1 DEF SearchInvariant, Monotone, cpu_freq, prev_freq
<1>4. CASE c = prev_trim /\ desired - prev_freq < cpu_freq - desired
  BY <1>1, <1>2, <1>3, <1>4, Numbers
  DEF SearchInvariant, Distance, cpu_freq, prev_freq
<1>5. CASE c = hfrosctrim /\ ~(desired - prev_freq < cpu_freq - desired)
  BY <1>1, <1>2, <1>3, <1>5, Numbers
  DEF SearchInvariant, Distance, cpu_freq, prev_freq
<1> QED
  BY <1>4, <1>5

(***************************************************************************)
(* Choosing between the last two trims keeps it.                           *)
(***************************************************************************)
LEMMA ChooseKeeps ==
    SearchInvariant /\ Decide => SearchInvariant'
<1> SUFFICES ASSUME SearchInvariant,
                    OutOfRange \/ Closest \/ Undershoot \/ Overshoot
             PROVE  SearchInvariant'
  BY DEF Decide
<1>1. PICK c \in AllTrims : Choose(c)
  BY DEF SearchInvariant, SearchTypeOK, OutOfRange, Closest, Undershoot,
         Overshoot
<1>2. /\ UNCHANGED <<table, desired, target, hfrosctrim, prev_trim>>
      /\ chosen' = c /\ stage = "search" /\ stage' = "done"
      /\ ~(cpu_freq < desired /\ hfrosctrim < MaxTrim)
  BY <1>1 DEF Choose
<1>3. SearchTypeOK' /\ Monotone' /\ Below'
  BY <1>2 DEF SearchInvariant, SearchTypeOK, Monotone, Below
<1>4. /\ prev_trim \in AllTrims /\ hfrosctrim \in AllTrims /\ 0 \in AllTrims
      /\ MaxTrim \in AllTrims /\ table[prev_trim] <= table[hfrosctrim]
      /\ TooHigh => prev_trim = 0
  BY SearchAssumption, Numbers
  DEF SearchInvariant, SearchTypeOK, Monotone, Below, AllTrims, TooHigh,
      prev_freq
<1>5. TooLow => hfrosctrim = MaxTrim
  BY <1>2, <1>4, SearchAssumption DEF TooLow, AllTrims
<1>6. NeverAbove'
  <2> SUFFICES ASSUME target = "undershoot", table[0] <= desired
               PROVE  table[c] <= desired
    BY <1>2 DEF NeverAbove
  <2>1. c = prev_trim
    BY <1>2 DEF OutOfRange, Closest, Undershoot, Overshoot, Choose
  <2>2. ~TooHigh
    BY <1>4, Numbers DEF SearchInvariant, TooHigh, prev_freq
  <2> QED
    BY <2>1, <2>2, <1>4, Numbers DEF SearchInvariant, TooHigh, prev_freq
<1>7. NeverBelow'
  <2> SUFFICES ASSUME target = "overshoot", table[MaxTrim] >= desired
               PROVE  table[c] >= desired
    BY <1>2 DEF NeverBelow
  <2>1. ~TooLow
    BY <1>4, <1>5, Numbers DEF SearchInvariant, TooLow, cpu_freq
  <2>2. CASE InRange
    <3>1. c = hfrosctrim
      BY <1>2, <2>2
      DEF InRange, OutOfRange, Closest, Undershoot, Overshoot, Choose
    <3> QED
      BY <3>1, <2>1, <1>4, Numbers DEF SearchInvariant, TooLow, cpu_freq
  <2>3. CASE TooHigh
    <3>1. c = prev_trim
      BY <1>2, <2>3
      DEF InRange, OutOfRange, Closest, Undershoot, Overshoot, Choose
    <3> QED
      BY <3>1, <2>3, <1>4, Numbers DEF SearchInvariant, TooHigh, prev_freq
  <2> QED
    BY <2>1, <2>2, <2>3 DEF InRange
<1>8. ClosestInRange'
  <2> SUFFICES ASSUME target = "closest", desired <= table[MaxTrim]
               PROVE  \A t \in AllTrims : Distance(c) <= Distance(t)
    BY <1>2 DEF ClosestInRange, Distance
  <2>1. ~TooLow
    BY <1>4, <1>5, Numbers DEF SearchInvariant, TooLow, cpu_freq
  <2>2. CASE InRange
    <3>1. c = IF desired - prev_freq < cpu_freq - desired
              THEN prev_trim ELSE hfrosctrim
      BY <1>2, <2>2
      DEF InRange, OutOfRange, Closest, Undershoot, Overshoot, Choose
    <3> QED
      BY <3>1, <2>2, ClosestOfTwo
  <2>3. CASE TooHigh
    <3>1. c = 0
      BY <1>2, <1>4, <2>3
      DEF InRange, OutOfRange, Closest, Undershoot, Overshoot, Choose
    <3>2. \A t \in AllTrims : table[0] <= table[t]
      BY <1>4 DEF SearchInvariant, Monotone, AllTrims
    <3> QED
      BY <3>1, <3>2, <2>3, <1>4, Numbers
      DEF SearchInvariant, TooHigh, prev_freq, Distance
  <2> QED
    BY <2>1, <2>2, <2>3 DEF InRange
<1> QED
  BY <1>3, <1>6, <1>7, <1>8 DEF SearchInvariant, RightTrim

(***************************************************************************)
(* Whatever the board: an undershoot is not above, an overshoot not below, *)
(* and the closest trim the closest one there is.                          *)
(***************************************************************************)
THEOREM SearchIsRight == SearchSpec => []RightTrim
<1>1. SearchInvariant /\ [SearchNext]_search_vars => SearchInvariant'
  <2> SUFFICES ASSUME SearchInvariant, [SearchNext]_search_vars PROVE SearchInvariant'
    OBVIOUS
  <2>1. CASE UNCHANGED search_vars
    BY <2>1
    DEF search_vars, SearchInvariant, SearchTypeOK, Monotone, Below, RightTrim,
        NeverAbove, NeverBelow, ClosestInRange, Distance
  <2> QED
    BY <2>1, BeginKeeps, RaiseKeeps, ChooseKeeps DEF SearchNext
<1>2. SearchInvariant => RightTrim
  BY DEF SearchInvariant
<1> QED
  BY <1>1, <1>2, SearchInitially, PTL DEF SearchSpec

-----------------------------------------------------------------------------

(***************************************************************************)
(* Where the driver is: inside PRCI_use_hfrosc; inside PRCI_use_pll once   *)
(* the PLL has been left; where pllrefsel is the one asked for; where the  *)
(* PLL is no longer bypassed.                                              *)
(***************************************************************************)
InUseHfrosc == {"enable_hfrosc", "wait_for_hfrosc", "select_hfrosc"}

PllLeft == {"settings", "bypass", "bypass_divider", "divider", "configure",
            "unbypass", "now", "wait", "lock", "select_pll"}

Unbypassed == {"now", "wait", "lock", "select_pll", "turn_off_hfrosc"}

Configured == Unbypassed \cup {"bypass_divider", "unbypass"}

(***************************************************************************)
(* What the driver knows of the clocks, by the place it has reached.       *)
(***************************************************************************)
DriverKnows ==
    /\ pc = "enable_hfrosc" => back = "settings" \/ args.trim # NoTrim
    /\ pc = "select_hfrosc" => hfrosc = "ready"
    /\ pc \in PllLeft => ~sel
    /\ pc \in Configured => refsel = args.refsel
    /\ pc = "turn_off_hfrosc" => sel

(***************************************************************************)
(* And led_fade, which calls no function.                                  *)
(***************************************************************************)
FadeKnows ==
    /\ client \in {"program", "search", "default_clocks", "pll", "fade_enable",
                   "fade_bypass", "fade_select", "fade_off", "fade"}
    /\ client \in {"fade_enable", "fade_bypass", "fade_select", "fade_off",
                   "fade"} => pc = "idle"
    /\ client \in {"fade_enable", "fade_bypass", "fade_select"}
          => hfrosc = "ready"
    /\ client \in {"fade_select", "fade_off"} => refsel /\ bypass
    /\ client = "fade_off" => sel

(***************************************************************************)
(* How long the PLL has been left alone, while the driver waits for it: as *)
(* many whole ticks as it has counted, but for the first one.              *)
(***************************************************************************)
Waited ==
    /\ pc = "wait" =>
          \/ age = Settle
          \/ ticks = 0
          \/ ticks = 1 /\ age >= phase
          \/ ticks = 2 /\ age >= Parts + phase
          \/ ticks = 3 /\ age >= Parts + Parts + phase
          \/ ticks = 4 /\ age >= Parts + Parts + Parts
    /\ pc = "lock" => age >= Settle
    /\ pc = "bypass_divider" => bypass
    /\ pc = "select_pll" => bypass \/ age >= Settle

ClockInvariant ==
    ClockTypeOK /\ ClockNeverStops /\ DriverKnows /\ FadeKnows /\ Waited

(***************************************************************************)
(* The search's calls: what the driver has been asked, and how far it is.  *)
(***************************************************************************)
SearchCalls ==
    client = "search" =>
        /\ stage = "called" => pc = "idle"
        /\ stage = "search" =>
              /\ pc \in InUseHfrosc \cup {"idle"}
              /\ pc # "idle" => back = "idle" /\ args.trim = hfrosctrim
              /\ pc # "enable_hfrosc" => trim = hfrosctrim
              /\ pc = "idle" => ~sel
        /\ stage = "done" =>
              /\ pc \notin {"bypass", "bypass_divider"}
              /\ args = [refsel |-> FALSE, bypass |-> FALSE, trim |-> chosen,
                         finaldiv |-> 1]
              /\ pc = "leave_pll" => ~sel
              /\ pc \in InUseHfrosc => back = "divider"
              /\ pc \in {"leave_pll", "settings", "enable_hfrosc"}
                    \/ trim = chosen
              /\ pc \in Unbypassed \cup {"idle"} => ~bypass
              /\ pc = "idle" => sel /\ ~refsel

(***************************************************************************)
(* A call of a client: it only asks, with arguments of the right types.    *)
(***************************************************************************)
Asks ==
    /\ pc = "idle" /\ pc' \in {"enable_hfrosc", "leave_pll"} /\ back' = "idle"
    /\ args' \in Calls /\ UNCHANGED <<hw, time, ticks>>
    /\ pc' = "enable_hfrosc" => args'.trim # NoTrim
    /\ client \in {"program", "search", "default_clocks", "pll"}
    /\ client' \in {"program", "search", "pll"}

ClientStep == InitDefaultClocks \/ InitPll \/ ProgramCalls \/ Measure \/ Deliver

(***************************************************************************)
(* The arguments the clients call PRCI_use_pll with are arguments it may   *)
(* have.                                                                   *)
(***************************************************************************)
LEMMA CallsOfClients ==
    /\ \A t \in Trims \cup {NoTrim} :
          [refsel |-> FALSE, bypass |-> FALSE, trim |-> t, finaldiv |-> 1]
             \in Calls
    /\ \A d \in FinalDivs :
          [refsel |-> TRUE, bypass |-> TRUE, trim |-> NoTrim, finaldiv |-> d]
             \in Calls
  BY PrciAssumption DEF Calls

(***************************************************************************)
(* Every client's call is one of those two entries.                        *)
(***************************************************************************)
LEMMA ClientsAsk == ClockTypeOK /\ ClientStep => Asks /\ SearchTypeOK'
<1> SUFFICES ASSUME ClockTypeOK, ClientStep PROVE Asks /\ SearchTypeOK'
  OBVIOUS
<1> USE PrciAssumption
<1>1. \A t \in Trims : UseHfrosc(t) =>
          pc = "idle" /\ pc' = "enable_hfrosc" /\ back' = "idle"
          /\ args' \in Calls /\ UNCHANGED <<hw, time, ticks>>
          /\ args'.trim # NoTrim
  BY DEF UseHfrosc, HfroscCall, At, Goto, NoTrim, Calls
<1>2. \A call \in Calls : UsePll(call) =>
          pc = "idle" /\ pc' = "leave_pll" /\ back' = "idle"
          /\ args' \in Calls /\ UNCHANGED <<hw, time, ticks>>
  BY DEF UsePll, At, Goto
<1>3. CASE InitDefaultClocks
  BY <1>1, <1>3
  DEF InitDefaultClocks, CallUseDefaultClocks, Asks, ClockTypeOK, SearchTypeOK,
      search_vars
<1>4. CASE InitPll
  <2> QED
    BY <1>2, <1>4, CallsOfClients DEF InitPll, Asks, ClockTypeOK,
       SearchTypeOK, search_vars
<1>5. CASE ProgramCalls
  <2>1. SearchTypeOK' /\ client = "program" /\ client' = "program"
    BY <1>5 DEF ProgramCalls, ClockTypeOK, SearchTypeOK, search_vars
  <2>2. (\E t \in Trims : UseHfrosc(t)) \/ (\E call \in Calls : UsePll(call))
    BY <1>5, CallsOfClients
    DEF ProgramCalls, Call, CallUseDefaultClocks, CallUseHfrosc, CallUsePll,
        CallUseHfxosc
  <2> QED
    BY <1>1, <1>2, <2>1, <2>2 DEF Asks
<1>6. CASE Measure
  <2>1. SearchTypeOK' /\ hfrosctrim' \in Trims
    BY <1>6, ClientAssumption, SearchAssumption
    DEF Measure, Begin, Raise, ClockTypeOK, SearchTypeOK, AllTrims
  <2> QED
    BY <1>1, <1>6, <2>1 DEF Measure, Asks
<1>7. CASE Deliver
  <2>1. SearchTypeOK' /\ chosen' \in Trims
    BY <1>7, ClientAssumption
    DEF Deliver, Decide, OutOfRange, Closest, Undershoot, Overshoot, Choose,
        ClockTypeOK, SearchTypeOK
  <2> QED
    BY <1>2, <1>7, <2>1, CallsOfClients DEF Deliver, Asks
<1> QED
  BY <1>3, <1>4, <1>5, <1>6, <1>7 DEF ClientStep

(***************************************************************************)
(* The phase starts again at every tick.                                   *)
(***************************************************************************)
LEMMA NextPhase ==
    ASSUME NEW p \in 0..(Parts - 1)
    PROVE  (p + 1) % Parts = IF p + 1 = Parts THEN 0 ELSE p + 1
  BY PrciAssumption

(***************************************************************************)
(* A call keeps the invariant: the driver has not touched the clocks yet.  *)
(***************************************************************************)
LEMMA ClientKeeps == ClockInvariant /\ ClientStep => ClockInvariant'
<1> SUFFICES ASSUME ClockInvariant, ClientStep PROVE ClockInvariant'
  OBVIOUS
<1>1. Asks /\ SearchTypeOK'
  BY ClientsAsk DEF ClockInvariant
<1>2. ClockTypeOK'
  BY <1>1 DEF Asks, ClockInvariant, ClockTypeOK, TypeOK, hw, time
<1>3. ClockNeverStops'
  BY <1>1
  DEF Asks, ClockInvariant, ClockNeverStops, RunsOffHfrosc, hw
<1>4. DriverKnows' /\ FadeKnows' /\ Waited'
  BY <1>1
  DEF Asks, DriverKnows, FadeKnows, Waited, PllLeft, Configured, Unbypassed
<1> QED
  BY <1>2, <1>3, <1>4 DEF ClockInvariant

(***************************************************************************)
(* Every step of the driver keeps the invariant.                           *)
(***************************************************************************)
LEMMA DriverKeeps == ClockInvariant /\ DriverRuns => ClockInvariant'
<1> SUFFICES ASSUME ClockInvariant, Driver, UNCHANGED <<search_vars, client>>
             PROVE  ClockInvariant'
  BY DEF DriverRuns
<1> USE DEF At, Goto, hw, time
<1>1. SearchTypeOK'
  BY DEF ClockInvariant, ClockTypeOK, SearchTypeOK, search_vars
<1>2. FadeKnows'
  <2>1. pc # "idle"
    BY DEF Driver, EnableHfrosc, WaitForHfrosc, SelectHfrosc, LeavePll,
           Settings, Bypass, BypassDivider, Divider, Configure, Unbypass,
           ReadNow, WaitIsOver, LockIsSet, SelectPll, TurnOffHfrosc
  <2> QED
    BY <2>1 DEF ClockInvariant, FadeKnows
<1>3. TypeOK'
  <2> USE PrciAssumption DEF ClockInvariant, ClockTypeOK, TypeOK, Calls,
  WaitTicks
  <2>1. CASE EnableHfrosc
    <3>1. trim' \in Trims
      BY <2>1 DEF EnableHfrosc, DriverKnows
    <3>2. age' \in 0..Settle
      BY <2>1 DEF EnableHfrosc
    <3> QED
      BY <2>1, <3>1, <3>2 DEF EnableHfrosc
  <2>2. CASE WaitForHfrosc
    BY <2>2 DEF WaitForHfrosc
  <2>3. CASE SelectHfrosc
    BY <2>3 DEF SelectHfrosc
  <2>4. CASE LeavePll
    BY <2>4 DEF LeavePll
  <2>5. CASE Settings
    BY <2>5 DEF Settings
  <2>6. CASE Bypass
    <3>1. refsel' \in BOOLEAN /\ age' \in 0..Settle
      BY <2>6 DEF Bypass
    <3> QED
      BY <2>6, <3>1 DEF Bypass
  <2>7. CASE BypassDivider
    BY <2>7 DEF BypassDivider
  <2>8. CASE Divider
    BY <2>8 DEF Divider
  <2>9. CASE Configure
    <3>1. refsel' \in BOOLEAN /\ age' \in 0..Settle
      BY <2>9 DEF Configure
    <3> QED
      BY <2>9, <3>1 DEF Configure
  <2>10. CASE Unbypass
    <3>1. age' \in 0..Settle
      BY <2>10 DEF Unbypass
    <3> QED
      BY <2>10, <3>1 DEF Unbypass
  <2>11. CASE ReadNow
    BY <2>11 DEF ReadNow
  <2>12. CASE WaitIsOver
    BY <2>12 DEF WaitIsOver
  <2>13. CASE LockIsSet
    BY <2>13 DEF LockIsSet
  <2>14. CASE SelectPll
    BY <2>14 DEF SelectPll
  <2>15. CASE TurnOffHfrosc
    BY <2>15 DEF TurnOffHfrosc
  <2> QED
    BY <2>1, <2>2, <2>3, <2>4, <2>5, <2>6, <2>7, <2>8, <2>9, <2>10, <2>11,
       <2>12, <2>13, <2>14, <2>15
    DEF Driver
<1>4. ClockNeverStops'
  <2> USE DEF ClockInvariant, ClockNeverStops, RunsOffHfrosc, DriverKnows,
          PllLeft, Configured, Unbypassed
  <2>1. CASE EnableHfrosc
    BY <2>1 DEF EnableHfrosc
  <2>2. CASE WaitForHfrosc
    BY <2>2 DEF WaitForHfrosc
  <2>3. CASE SelectHfrosc
    BY <2>3 DEF SelectHfrosc
  <2>4. CASE LeavePll
    BY <2>4 DEF LeavePll
  <2>5. CASE Settings
    BY <2>5 DEF Settings
  <2>6. CASE Bypass
    BY <2>6 DEF Bypass
  <2>7. CASE BypassDivider
    BY <2>7 DEF BypassDivider
  <2>8. CASE Divider
    BY <2>8 DEF Divider
  <2>9. CASE Configure
    BY <2>9 DEF Configure
  <2>10. CASE Unbypass
    BY <2>10 DEF Unbypass
  <2>11. CASE ReadNow
    BY <2>11 DEF ReadNow
  <2>12. CASE WaitIsOver
    BY <2>12 DEF WaitIsOver
  <2>13. CASE LockIsSet
    BY <2>13 DEF LockIsSet
  <2>14. CASE SelectPll
    BY <2>14 DEF SelectPll
  <2>15. CASE TurnOffHfrosc
    BY <2>15 DEF TurnOffHfrosc
  <2> QED
    BY <2>1, <2>2, <2>3, <2>4, <2>5, <2>6, <2>7, <2>8, <2>9, <2>10, <2>11,
       <2>12, <2>13, <2>14, <2>15
    DEF Driver
<1>5. DriverKnows'
  <2> USE DEF ClockInvariant, ClockTypeOK, TypeOK, NoTrim, ClockNeverStops,
  RunsOffHfrosc, DriverKnows,
          PllLeft, Configured, Unbypassed
  <2>1. CASE EnableHfrosc
    BY <2>1 DEF EnableHfrosc
  <2>2. CASE WaitForHfrosc
    BY <2>2 DEF WaitForHfrosc
  <2>3. CASE SelectHfrosc
    BY <2>3 DEF SelectHfrosc
  <2>4. CASE LeavePll
    BY <2>4 DEF LeavePll
  <2>5. CASE Settings
    BY <2>5 DEF Settings
  <2>6. CASE Bypass
    BY <2>6 DEF Bypass
  <2>7. CASE BypassDivider
    BY <2>7 DEF BypassDivider
  <2>8. CASE Divider
    BY <2>8 DEF Divider
  <2>9. CASE Configure
    BY <2>9 DEF Configure
  <2>10. CASE Unbypass
    BY <2>10 DEF Unbypass
  <2>11. CASE ReadNow
    BY <2>11 DEF ReadNow
  <2>12. CASE WaitIsOver
    BY <2>12 DEF WaitIsOver
  <2>13. CASE LockIsSet
    BY <2>13 DEF LockIsSet
  <2>14. CASE SelectPll
    BY <2>14 DEF SelectPll
  <2>15. CASE TurnOffHfrosc
    BY <2>15 DEF TurnOffHfrosc
  <2> QED
    BY <2>1, <2>2, <2>3, <2>4, <2>5, <2>6, <2>7, <2>8, <2>9, <2>10, <2>11,
       <2>12, <2>13, <2>14, <2>15
    DEF Driver
<1>6. Waited'
  <2> USE SettleAssumption, PrciAssumption
      DEF ClockInvariant, ClockTypeOK, TypeOK, Waited, WaitTicks
  <2>1. CASE EnableHfrosc
    BY <2>1 DEF EnableHfrosc
  <2>2. CASE WaitForHfrosc
    BY <2>2 DEF WaitForHfrosc
  <2>3. CASE SelectHfrosc
    BY <2>3 DEF SelectHfrosc
  <2>4. CASE LeavePll
    BY <2>4 DEF LeavePll
  <2>5. CASE Settings
    BY <2>5 DEF Settings
  <2>6. CASE Bypass
    BY <2>6 DEF Bypass
  <2>7. CASE BypassDivider
    BY <2>7 DEF BypassDivider
  <2>8. CASE Divider
    BY <2>8 DEF Divider
  <2>9. CASE Configure
    BY <2>9 DEF Configure
  <2>10. CASE Unbypass
    BY <2>10 DEF Unbypass
  <2>11. CASE ReadNow
    BY <2>11 DEF ReadNow
  <2>12. CASE WaitIsOver
    BY <2>12 DEF WaitIsOver
  <2>13. CASE LockIsSet
    BY <2>13 DEF LockIsSet
  <2>14. CASE SelectPll
    BY <2>14 DEF SelectPll
  <2>15. CASE TurnOffHfrosc
    BY <2>15 DEF TurnOffHfrosc
  <2> QED
    BY <2>1, <2>2, <2>3, <2>4, <2>5, <2>6, <2>7, <2>8, <2>9, <2>10, <2>11,
       <2>12, <2>13, <2>14, <2>15
    DEF Driver
<1> QED
  BY <1>1, <1>2, <1>3, <1>4, <1>5, <1>6 DEF ClockInvariant, ClockTypeOK

(***************************************************************************)
(* led_fade keeps the invariant: it turns the oscillator off last.         *)
(***************************************************************************)
LEMMA FadeKeeps ==
    ClockInvariant /\ LedFade => ClockInvariant'
<1> SUFFICES ASSUME ClockInvariant, LedFade PROVE ClockInvariant'
  OBVIOUS
<1> USE DEF LedFade, FadeEnable, FadeBypass, FadeSelect, FadeOff, sw, time,
            search_vars
<1>1. SearchTypeOK'
  BY DEF ClockInvariant, ClockTypeOK, SearchTypeOK
<1>2. pc = "idle" /\ pc' = pc /\ UNCHANGED <<args, back, ticks, phase>>
  BY DEF ClockInvariant, FadeKnows
<1>3. FadeKnows' /\ ClockNeverStops'
  BY <1>2
  DEF ClockInvariant, ClockTypeOK, TypeOK, FadeKnows, ClockNeverStops,
      RunsOffHfrosc
<1>4. DriverKnows' /\ Waited'
  BY <1>2 DEF DriverKnows, Waited, PllLeft, Configured, Unbypassed
<1>5. age' \in 0..Settle
  BY PrciAssumption DEF ClockInvariant, ClockTypeOK, TypeOK
<1>6. TypeOK'
  BY <1>2, <1>5 DEF ClockInvariant, ClockTypeOK, TypeOK
<1> QED
  BY <1>1, <1>3, <1>4, <1>6 DEF ClockInvariant, ClockTypeOK

(***************************************************************************)
(* The hardware keeps it: between two ticks that the driver counts the PLL *)
(* has had a whole tick to settle.                                         *)
(***************************************************************************)
LEMMA HardwareKeeps == ClockInvariant /\ (Starts \/ ClockTicks) => ClockInvariant'
<1> SUFFICES ASSUME ClockInvariant, Starts \/ ClockTicks PROVE ClockInvariant'
  OBVIOUS
<1> USE DEF Starts, ClockTicks, HfroscStarts, TimePasses, hw, sw, time
<1>1. SearchTypeOK'
  BY DEF ClockInvariant, ClockTypeOK, SearchTypeOK, search_vars
<1>2. FadeKnows' /\ ClockNeverStops' /\ DriverKnows'
  BY DEF ClockInvariant, FadeKnows, ClockNeverStops, RunsOffHfrosc, DriverKnows
<1>3. CASE Starts
  BY <1>1, <1>2, <1>3 DEF ClockInvariant, ClockTypeOK, TypeOK, Waited
<1>4. CASE ClockTicks
  <2> USE DEF ClockInvariant, ClockTypeOK, TypeOK
  <2>1. phase' = IF phase + 1 = Parts THEN 0 ELSE phase + 1
    BY <1>4, NextPhase
  <2>2. phase' \in 0..(Parts - 1) /\ age' \in 0..Settle /\ age <= age'
    BY <1>4, <2>1, PrciAssumption
  <2>3. ticks' \in 0..WaitTicks
    BY <1>4 DEF WaitTicks
  <2>4. TypeOK'
    BY <1>4, <2>2, <2>3
  <2>5. Waited'
    BY <1>4, <2>1, <2>2, <2>3, PrciAssumption DEF Waited, WaitTicks
  <2> QED
    BY <1>1, <1>2, <2>4, <2>5
<1> QED
  BY <1>3, <1>4

(***************************************************************************)
(* The invariant holds from reset on.                                      *)
(***************************************************************************)
LEMMA ClockInvariantHolds == ClockSpec => []ClockInvariant
<1>1. ClockInit => ClockInvariant
  <2> SUFFICES ASSUME ClockInit PROVE ClockInvariant
    OBVIOUS
  <2>1. SearchTypeOK
    BY SearchInitially DEF ClockInit, SearchInvariant
  <2>2. NoCall \in Calls
    BY PrciAssumption, CallsOfClients DEF NoCall, HfroscCall
  <2>3. age \in 0..Settle /\ ticks \in 0..WaitTicks
    BY PrciAssumption DEF ClockInit, Init, WaitTicks
  <2>4. TypeOK
    BY <2>2, <2>3, PrciAssumption DEF ClockInit, Init, TypeOK
  <2> QED
    BY <2>1, <2>4
    DEF ClockInit, Init, ClockInvariant, ClockTypeOK, ClockNeverStops,
        DriverKnows, FadeKnows, Waited, PllLeft, Configured, Unbypassed
<1>2. ClockInvariant /\ UNCHANGED driver_vars => ClockInvariant'
  BY DEF driver_vars, vars, hw, time, sw, search_vars, ClockInvariant,
         ClockTypeOK, TypeOK, SearchTypeOK, ClockNeverStops, RunsOffHfrosc,
         DriverKnows, FadeKnows, Waited
<1>3. ClockInvariant /\ [ClockNext]_driver_vars => ClockInvariant'
  BY <1>2, ClientKeeps, DriverKeeps, FadeKeeps, HardwareKeeps
  DEF ClockNext, ClientStep
<1> QED
  BY <1>1, <1>3, PTL DEF ClockSpec

(***************************************************************************)
(* The types of every variable of the driver and of the search.            *)
(***************************************************************************)
THEOREM ClockTypes == ClockSpec => []ClockTypeOK
<1>1. ClockInvariant => ClockTypeOK
  BY DEF ClockInvariant
<1> QED
  BY <1>1, ClockInvariantHolds, PTL

(***************************************************************************)
(* No sequence of calls, and not led_fade, stops the clock the CPU runs    *)
(* off.                                                                    *)
(***************************************************************************)
THEOREM ClockRuns == ClockSpec => []ClockNeverStops
<1>1. ClockInvariant => ClockNeverStops
  BY DEF ClockInvariant
<1> QED
  BY <1>1, ClockInvariantHolds, PTL

(***************************************************************************)
(* The CPU is switched to a PLL that has settled, or to a bypassed one:    *)
(* only two actions switch to the PLL.                                     *)
(***************************************************************************)
THEOREM PllSettled == ClockSpec => SettledWhenSelected
<1>1. ClockInvariant /\ [ClockNext]_driver_vars
         => [sel' /\ ~sel => bypass \/ age >= Settle]_vars
  <2> SUFFICES ASSUME ClockInvariant, ClockNext, sel', ~sel
               PROVE  bypass \/ age >= Settle
    BY DEF driver_vars
  <2>1. CASE ClientStep
    BY <2>1, ClientsAsk DEF ClockInvariant, Asks, hw
  <2>2. CASE LedFade
    BY <2>2
    DEF ClockInvariant, FadeKnows, LedFade, FadeEnable, FadeBypass, FadeSelect,
        FadeOff
  <2>3. CASE Starts \/ ClockTicks
    BY <2>3 DEF Starts, ClockTicks, HfroscStarts, TimePasses, hw
  <2>4. CASE DriverRuns
    <3>1. SelectPll
      BY <2>4
      DEF DriverRuns, Driver, EnableHfrosc, WaitForHfrosc, SelectHfrosc,
          LeavePll, Settings, Bypass, BypassDivider, Divider, Configure,
          Unbypass, ReadNow, WaitIsOver, LockIsSet, SelectPll, TurnOffHfrosc,
          hw
    <3> QED
      BY <3>1 DEF SelectPll, At, ClockInvariant, Waited
  <2> QED
    BY <2>1, <2>2, <2>3, <2>4 DEF ClockNext, ClientStep
<1> QED
  BY <1>1, ClockInvariantHolds, PTL DEF ClockSpec, SettledWhenSelected

(***************************************************************************)
(* What the clients do to the search: each step is one of the search's own *)
(* or leaves it alone.                                                     *)
(***************************************************************************)
LEMMA SearchSteps == [ClockNext]_driver_vars => [SearchNext]_search_vars
  BY DEF ClockNext, driver_vars, SearchNext, InitDefaultClocks, InitPll,
         ProgramCalls, Measure, Deliver, LedFade, FadeEnable, FadeBypass,
         FadeSelect, FadeOff, DriverRuns, Starts, ClockTicks, search_vars

(***************************************************************************)
(* The search that runs on the driver, interrupted by its waits, is the    *)
(* search of TrimSearch.                                                   *)
(***************************************************************************)
THEOREM SearchImplemented == ClockSpec => SearchSpec
<1>1. ClockInit => SearchInit
  BY DEF ClockInit
<1> QED
  BY <1>1, SearchSteps, PTL DEF ClockSpec, SearchSpec

(***************************************************************************)
(* So the trim it hands to PRCI_use_pll is right on every board.           *)
(***************************************************************************)
THEOREM DriverSearchIsRight == ClockSpec => []RightTrim
  BY SearchImplemented, SearchIsRight, PTL

(***************************************************************************)
(* The driver's steps, as the search sees them.                            *)
(***************************************************************************)
LEMMA SearchCallsKept ==
    ClockInvariant /\ SearchCalls /\ [ClockNext]_driver_vars => SearchCalls'
<1> SUFFICES ASSUME ClockInvariant, SearchCalls, ClockNext, client' = "search"
             PROVE  SearchCalls'
  BY DEF driver_vars, vars, hw, sw, search_vars, SearchCalls
<1> USE DEF SearchCalls, InUseHfrosc, Unbypassed, At, Goto, hw, search_vars
<1>1. client = "search"
  BY DEF ClockNext, InitDefaultClocks, InitPll, ProgramCalls, Measure, Deliver,
         LedFade, FadeEnable, FadeBypass, FadeSelect, FadeOff, DriverRuns,
         Starts, ClockTicks
<1>2. CASE Measure
  BY <1>1, <1>2 DEF Measure, Begin, Raise, UseHfrosc, HfroscCall
<1>3. CASE Deliver
  BY <1>1, <1>3
  DEF Deliver, Decide, OutOfRange, Closest, Undershoot, Overshoot, Choose,
      UsePll
<1>4. CASE Starts \/ ClockTicks
  BY <1>1, <1>4 DEF Starts, ClockTicks, HfroscStarts, TimePasses, sw
<1>5. CASE DriverRuns
  <2> USE <1>1 DEF ClockInvariant, ClockTypeOK, TypeOK, SearchTypeOK,
  DriverKnows,
                   PllLeft, Configured
  <2>1. UNCHANGED <<stage, chosen, hfrosctrim>>
    BY <1>5 DEF DriverRuns
  <2>2. CASE EnableHfrosc
    BY <2>1, <2>2 DEF EnableHfrosc
  <2>3. CASE WaitForHfrosc
    BY <2>1, <2>3 DEF WaitForHfrosc
  <2>4. CASE SelectHfrosc
    BY <2>1, <2>4 DEF SelectHfrosc
  <2>5. CASE LeavePll
    BY <2>1, <2>5 DEF LeavePll
  <2>6. CASE Settings
    BY <2>1, <2>6, SearchAssumption DEF Settings, AllTrims
  <2>7. CASE Bypass
    BY <2>1, <2>7 DEF Bypass
  <2>8. CASE BypassDivider
    BY <2>1, <2>8 DEF BypassDivider
  <2>9. CASE Divider
    BY <2>1, <2>9 DEF Divider
  <2>10. CASE Configure
    BY <2>1, <2>10 DEF Configure
  <2>11. CASE Unbypass
    BY <2>1, <2>11 DEF Unbypass
  <2>12. CASE ReadNow
    BY <2>1, <2>12 DEF ReadNow
  <2>13. CASE WaitIsOver
    BY <2>1, <2>13 DEF WaitIsOver
  <2>14. CASE LockIsSet
    BY <2>1, <2>14 DEF LockIsSet
  <2>15. CASE SelectPll
    BY <2>1, <2>15 DEF SelectPll
  <2>16. CASE TurnOffHfrosc
    BY <2>1, <2>16 DEF TurnOffHfrosc
  <2> QED
    BY <1>5, <2>2, <2>3, <2>4, <2>5, <2>6, <2>7, <2>8, <2>9, <2>10, <2>11,
       <2>12, <2>13, <2>14, <2>15, <2>16
    DEF DriverRuns, Driver
<1> QED
  BY <1>1, <1>2, <1>3, <1>4, <1>5
  DEF ClockNext, InitDefaultClocks, InitPll, ProgramCalls, LedFade, FadeEnable,
      FadeBypass, FadeSelect, FadeOff

(***************************************************************************)
(* The frequency that is measured is that of the trim the search has set,  *)
(* and the CPU is left on the PLL with the chosen one.                     *)
(***************************************************************************)
THEOREM SearchMeasuresItsTrim == ClockSpec => []SearchUsesItsTrim
<1>1. ClockInit => SearchCalls
  BY DEF ClockInit, SearchInit, Init, SearchCalls
<1>2. SearchCalls => SearchUsesItsTrim
  BY DEF SearchCalls, SearchUsesItsTrim
<1> QED
  BY <1>1, <1>2, SearchCallsKept, ClockInvariantHolds, PTL DEF ClockSpec

============================================================================
