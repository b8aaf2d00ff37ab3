----------------------- MODULE GlobalInterruptsProofs -----------------------
(***************************************************************************)
(* The global_interrupts demo is right for every set of sources, wherever  *)
(* the two switches and the PWM are among them, whatever the controller's  *)
(* registers hold at reset and however many periods a debounce takes.      *)
(***************************************************************************)
EXTENDS GlobalInterrupts, TLAPS

SettingUp == {"setup", "enable", "priorities"}

(***************************************************************************)
(* main's set-up: the controller is clear once PLIC_init has run, and the  *)
(* PWM does not run before the first switch is handled.                    *)
(***************************************************************************)
SetUp ==
    /\ pc # "setup" => handlers = Used
    /\ pc = "enable" => enabled = {}
    /\ pc \in {"enable", "priorities"} =>
          threshold = 0 /\ priority = [s \in Sources |-> 0]
    /\ pc \in SettingUp => pwm = "off"

(***************************************************************************)
(* The priorities, and the threshold, between the switches' priorities and *)
(* the PWM's while a switch is debounced and below both otherwise.         *)
(***************************************************************************)
PwmKeepsAhead ==
    pc \notin SettingUp =>
        /\ priority[SW_1] = 2 /\ priority[SW_2] \in {2, 3}
        /\ priority[PWM_0] = 5
        /\ pwm = "off" => threshold \in {0, 1}
        /\ pwm # "off" => threshold = 4

(***************************************************************************)
(* The PWM's request is pending or being handled only while its period is  *)
(* over, and never both.                                                   *)
(***************************************************************************)
PwmRequests ==
    /\ pending \cap inService = {}
    /\ PWM_0 \in pending => pwm = "fired"
    /\ pc = "handler" => claimed \in Used \cap inService
    /\ pc = "handler" /\ claimed = PWM_0 => pwm = "fired"

GlobalInvariant ==
    /\ TypeOK /\ OnlyUsedEnabled /\ ClaimHasAHandler /\ NoSwitchWhileDebouncing
    /\ SetUp /\ PwmKeepsAhead /\ PwmRequests

(***************************************************************************)
(* PLIC_init reaches the byte of every source, the highest included.       *)
(***************************************************************************)
LEMMA EveryByteCleared == \A s \in Sources : ~(s \div 8 >= BytesOf(NumSources))
  BY PlicAssumption DEF BytesOf

(***************************************************************************)
(* The demo's three sources, two of them switches.                         *)
(***************************************************************************)
LEMMA SourcesOfTheDemo ==
    /\ \A s \in Used : s \in Sources /\ s \in 1..(NumSources - 1) /\ s # NoSource
    /\ PWM_0 \in Int /\ SW_1 \in Int /\ SW_2 \in Int
    /\ SW_1 < SW_2 /\ PWM_0 \notin Switches
<1>1. /\ SW_1 \in Sources /\ SW_2 \in Sources /\ PWM_0 \in Sources
      /\ SW_1 # NumSources /\ SW_2 # NumSources /\ PWM_0 # NumSources
  BY GlobalAssumption
<1>2. Sources \subseteq Int /\ \A s \in Sources : 1 <= s /\ s <= NumSources
  BY PlicAssumption
<1> QED
  BY <1>1, <1>2, PlicAssumption, GlobalAssumption DEF Used, Switches, NoSource

(***************************************************************************)
(* A claim returns the source that beats all candidates, if there is one.  *)
(***************************************************************************)
LEMMA WinnerBeats ==
    ASSUME PlicTypeOK, NEW w \in Candidates, \A t \in Candidates : Beats(w, t)
    PROVE  Winner = w
<1>1. \A s \in Candidates : s \in Int /\ priority[s] \in Int
  BY PlicAssumption DEF PlicTypeOK, Candidates
<1>2. \A v \in Candidates : (\A t \in Candidates : Beats(v, t)) => v = w
  BY <1>1 DEF Beats
<1> QED
  BY <1>2 DEF Winner

(***************************************************************************)
(* The winner in the demo: one of the sources it uses, and the PWM as long *)
(* as a switch is being debounced, although the claim does not know of the *)
(* threshold.                                                              *)
(***************************************************************************)
LEMMA WinnerOfTheDemo ==
    ASSUME TypeOK, OnlyUsedEnabled, PwmKeepsAhead, pc = "idle", Raised
    PROVE  /\ Winner \in Candidates \cap Used
           /\ pwm # "off" => Winner = PWM_0
<1>1. Candidates \subseteq Used /\ Candidates # {}
  BY DEF OnlyUsedEnabled, Candidates, Raised
<1>2. /\ PWM_0 \in Int /\ SW_1 \in Int /\ SW_2 \in Int
      /\ SW_1 < SW_2 /\ PWM_0 \notin Switches
  BY SourcesOfTheDemo
<1>3. /\ priority[SW_1] = 2 /\ priority[SW_2] \in {2, 3} /\ priority[PWM_0] = 5
      /\ pwm # "off" => threshold = 4
  BY DEF PwmKeepsAhead, SettingUp
<1>4. CASE PWM_0 \in Candidates
  <2>1. \A t \in Candidates : Beats(PWM_0, t)
    BY <1>1, <1>2, <1>3 DEF Used, Switches, Beats
  <2> QED
    BY <1>4, <2>1, WinnerBeats DEF TypeOK, Used
<1>5. CASE PWM_0 \notin Candidates
  <2>1. Candidates \subseteq Switches
    BY <1>1, <1>5 DEF Used
  <2>2. pwm = "off"
    BY <1>3, <2>1 DEF Raised, Switches
  <2>3. \E w \in Candidates : \A t \in Candidates : Beats(w, t)
    <3>1. CASE SW_2 \in Candidates /\ (SW_1 \in Candidates => priority[SW_2] = 3)
      BY <1>2, <1>3, <2>1, <3>1 DEF Switches, Beats
    <3>2. CASE SW_1 \in Candidates /\ (SW_2 \in Candidates => priority[SW_2] = 2)
      BY <1>2, <1>3, <2>1, <3>2 DEF Switches, Beats
    <3> QED
      BY <1>1, <1>3, <2>1, <3>1, <3>2 DEF Switches
  <2> QED
    BY <1>1, <2>2, <2>3, WinnerBeats DEF TypeOK
<1> QED
  BY <1>4, <1>5

(***************************************************************************)
(* The set-up keeps the invariant, step by step, ...                       *)
(***************************************************************************)
LEMMA SetUpKeeps ==
    /\ GlobalInvariant
    /\ SetUpController \/ EnableSources \/ SetPriorities
    => GlobalInvariant'
<1> SUFFICES ASSUME GlobalInvariant,
                    SetUpController \/ EnableSources \/ SetPriorities
             PROVE  GlobalInvariant'
  OBVIOUS
<1> USE DEF GlobalInvariant, TypeOK, PlicTypeOK, OnlyUsedEnabled,
            ClaimHasAHandler, NoSwitchWhileDebouncing, SetUp, SettingUp,
            PwmKeepsAhead, PwmRequests, requests
<1>1. CASE SetUpController
  <2>1. enabled' = {}
    BY <1>1, EveryByteCleared DEF SetUpController, PLIC_init
  <2>2. priority' = [s \in Sources |-> 0] /\ threshold' = 0
    BY <1>1, PlicAssumption DEF SetUpController, PLIC_init
  <2>3. priority' \in [Sources -> 0..MaxPriority] /\ 0 \in 0..MaxPriority
    BY <2>2, PlicAssumption
  <2> QED
    BY <1>1, <2>1, <2>2, <2>3, SourcesOfTheDemo DEF SetUpController, PLIC_init
<1>2. CASE EnableSources
  BY <1>2, SourcesOfTheDemo DEF EnableSources, PLIC_enable_interrupts
<1>3. CASE SetPriorities
  <2>1. priority' = [s \in Sources |-> IF s = PWM_0 THEN 5
                                       ELSE IF s \in Switches THEN 2 ELSE 0]
    BY <1>3 DEF SetPriorities, PLIC_set_priorities, Used
  <2>2. priority' \in [Sources -> 0..MaxPriority]
    BY <2>1, PlicAssumption, GlobalAssumption
  <2>3. priority'[SW_1] = 2 /\ priority'[SW_2] = 2 /\ priority'[PWM_0] = 5
    BY <2>1, SourcesOfTheDemo DEF Used, Switches
  <2> QED
    BY <1>3, <2>2, <2>3 DEF SetPriorities, PLIC_set_priorities
<1> QED
  BY <1>1, <1>2, <1>3

(***************************************************************************)
(* ... so do the timer, which only touches the second switch's priority,   *)
(* and a trap, ...                                                         *)
(***************************************************************************)
LEMMA TrapsKeep ==
    /\ GlobalInvariant
    /\ mti_isr \/ Claim \/ switch_handler \/ pwm_0_handler \/ Complete
    => GlobalInvariant'
<1> SUFFICES ASSUME GlobalInvariant,
                    mti_isr \/ Claim \/ switch_handler \/ pwm_0_handler
                       \/ Complete
             PROVE  GlobalInvariant'
  OBVIOUS
<1> USE DEF GlobalInvariant, TypeOK, PlicTypeOK, OnlyUsedEnabled,
            ClaimHasAHandler, NoSwitchWhileDebouncing, SetUp, SettingUp,
            PwmKeepsAhead, PwmRequests, requests, registers, plicVars
<1>1. CASE mti_isr
  <2>1. priority' = [s \in Sources |->
                       IF s = SW_2 THEN IF switch1Wins THEN 2 ELSE 3
                                   ELSE priority[s]]
    BY <1>1 DEF mti_isr, PLIC_set_priorities
  <2>2. priority' \in [Sources -> 0..MaxPriority]
    BY <2>1, PlicAssumption, GlobalAssumption
  <2>3. /\ priority'[SW_1] = 2 /\ priority'[SW_2] \in {2, 3}
        /\ priority'[PWM_0] = 5
    BY <1>1, <2>1, SourcesOfTheDemo DEF mti_isr, Used, Switches
  <2> QED
    BY <1>1, <2>2, <2>3 DEF mti_isr, PLIC_set_priorities
<1>2. CASE Claim
  <2>1. /\ Winner \in Candidates \cap Used
        /\ pwm # "off" => Winner = PWM_0
    BY <1>2, WinnerOfTheDemo DEF Claim
  <2>2. /\ Winner \in Sources /\ Winner \in 1..(NumSources - 1)
        /\ Winner # NoSource
    BY <2>1, SourcesOfTheDemo
  <2>3. /\ pc' = "handler" /\ claimed' = Winner /\ Winner \in pending
        /\ pending' = pending \ {Winner} /\ inService' = inService \cup {Winner}
    BY <1>2, <2>1, <2>2 DEF Claim, PLIC_claim_interrupt, Candidates
  <2> QED
    BY <1>2, <2>1, <2>2, <2>3, SourcesOfTheDemo
    DEF Claim, PLIC_claim_interrupt, Used
<1>3. CASE switch_handler
  <2>1. threshold' = 4 /\ 4 \in 0..MaxPriority
    BY <1>3, GlobalAssumption, PlicAssumption
    DEF switch_handler, PLIC_set_threshold
  <2> QED
    BY <1>3, <2>1, GlobalAssumption DEF switch_handler, PLIC_set_threshold
<1>4. CASE pwm_0_handler
  <2>1. PWM_0 \notin pending /\ 1 \in 0..MaxPriority
    BY <1>4, PlicAssumption DEF pwm_0_handler
  <2>2. debounceLeft' \in 0..DebouncePeriods
    BY <1>4, GlobalAssumption DEF pwm_0_handler
  <2> QED
    BY <1>4, <2>1, <2>2 DEF pwm_0_handler, PLIC_set_threshold
<1>5. CASE Complete
  BY <1>5 DEF Complete, PLIC_complete_interrupt, NoSource
<1> QED
  BY <1>1, <1>2, <1>3, <1>4, <1>5

(***************************************************************************)
(* ... and so does whatever the devices do.                                *)
(***************************************************************************)
LEMMA DevicesKeep ==
    /\ GlobalInvariant
    /\ \/ \E s \in Sources \ {PWM_0} : Toggle(s)
       \/ PeriodEnds \/ TimerComesDue
       \/ \E s \in Sources : Gateway(s)
    => GlobalInvariant'
<1> SUFFICES ASSUME GlobalInvariant,
                    \/ \E s \in Sources \ {PWM_0} : Toggle(s)
                    \/ PeriodEnds \/ TimerComesDue
                    \/ \E s \in Sources : Gateway(s)
             PROVE  GlobalInvariant'
  OBVIOUS
<1> USE DEF GlobalInvariant, TypeOK, PlicTypeOK, OnlyUsedEnabled,
            ClaimHasAHandler, NoSwitchWhileDebouncing, SetUp, SettingUp,
            PwmKeepsAhead, PwmRequests, registers, plicVars, ownVars
<1>1. CASE \E s \in Sources \ {PWM_0} : Toggle(s)
  BY <1>1 DEF Toggle
<1>2. CASE PeriodEnds
  BY <1>2 DEF PeriodEnds
<1>3. CASE TimerComesDue
  BY <1>3 DEF TimerComesDue
<1>4. CASE \E s \in Sources : Gateway(s)
  BY <1>4 DEF Gateway, Forward, High
<1> QED
  BY <1>1, <1>2, <1>3, <1>4

(***************************************************************************)
(* The invariant holds from reset on, whatever the controller holds then.  *)
(***************************************************************************)
LEMMA GlobalInvariantHolds == Spec => []GlobalInvariant
<1>1. Init => GlobalInvariant
  <2> SUFFICES ASSUME Init PROVE GlobalInvariant
    OBVIOUS
  <2>1. PlicTypeOK
    BY PlicAssumption DEF Init, PlicInit, PlicTypeOK
  <2>2. 0 \in 0..DebouncePeriods
    BY GlobalAssumption
  <2> QED
    BY <2>1, <2>2
    DEF Init, PlicInit, GlobalInvariant, TypeOK, OnlyUsedEnabled, NoSource,
        ClaimHasAHandler, NoSwitchWhileDebouncing, SetUp, SettingUp,
        PwmKeepsAhead, PwmRequests
<1>2. GlobalInvariant /\ UNCHANGED vars => GlobalInvariant'
  BY DEF vars, plicVars, ownVars, GlobalInvariant, TypeOK, PlicTypeOK,
         OnlyUsedEnabled, ClaimHasAHandler, NoSwitchWhileDebouncing, SetUp,
         SettingUp, PwmKeepsAhead, PwmRequests
<1>3. GlobalInvariant /\ [Next]_vars => GlobalInvariant'
  BY <1>2, SetUpKeeps, TrapsKeep, DevicesKeep DEF Next, Hart
<1> QED
  BY <1>1, <1>3, PTL DEF Spec

(***************************************************************************)
(* The types of the controller's and of the demo's variables.              *)
(***************************************************************************)
THEOREM GlobalTypes == Spec => []TypeOK
<1>1. GlobalInvariant => TypeOK
  BY DEF GlobalInvariant
<1> QED
  BY <1>1, GlobalInvariantHolds, PTL

(***************************************************************************)
(* main leaves exactly the sources enabled that have a handler.            *)
(***************************************************************************)
THEOREM UsedEnabled == Spec => []OnlyUsedEnabled
<1>1. GlobalInvariant => OnlyUsedEnabled
  BY DEF GlobalInvariant
<1> QED
  BY <1>1, GlobalInvariantHolds, PTL

(***************************************************************************)
(* A trap finds a handler, and never ends in exit.                         *)
(***************************************************************************)
THEOREM TrapHasAHandler == Spec => []ClaimHasAHandler
<1>1. GlobalInvariant => ClaimHasAHandler
  BY DEF GlobalInvariant
<1> QED
  BY <1>1, GlobalInvariantHolds, PTL

(***************************************************************************)
(* No switch is handled while one is being debounced.                      *)
(***************************************************************************)
THEOREM DebounceIsAlone == Spec => []NoSwitchWhileDebouncing
<1>1. GlobalInvariant => NoSwitchWhileDebouncing
  BY DEF GlobalInvariant
<1> QED
  BY <1>1, GlobalInvariantHolds, PTL

============================================================================
