-------------------------- MODULE DoubleTapProofs --------------------------
(***************************************************************************)
(* For every set of values, every length of the window and any number of   *)
(* taps: the safe mode is entered exactly when it was asked for, and the   *)
(* user program finds its own value in BACKUP15.                           *)
(***************************************************************************)
EXTENDS DoubleTap, TLAPS

(***************************************************************************)
(* The register holds the magic value exactly when it says that the safe   *)
(* mode was, or may be, asked for.                                         *)
(***************************************************************************)
MagicIsARequest ==
    backup15 = Magic <=> \/ pc \in Armed
                         \/ pc \in Undecided /\ asked

(***************************************************************************)
(* A boot that goes on to the safe mode was asked to, and none that skips  *)
(* the look at the register was.                                           *)
(***************************************************************************)
RequestIsSeen ==
    /\ pc = "rearm" => asked
    /\ cause = "wakeup" => ~asked /\ pc # "magic"

(***************************************************************************)
(* The user program's value is in the register or, while that is armed,    *)
(* in main's local.                                                        *)
(***************************************************************************)
ValueIsSomewhere ==
    /\ backup15 # Magic => backup15 = kept
    /\ pc \in {"arm"} \cup Armed => save = kept

BootInvariant ==
    /\ TypeOK
    /\ SafeModeIffAsked
    /\ MagicIsARequest
    /\ RequestIsSeen
    /\ ValueIsSomewhere

(***************************************************************************)
(* At power-on, whatever the register holds, nobody has asked for the safe *)
(* mode and the boot has not yet looked.                                   *)
(***************************************************************************)
LEMMA BootInvariantInitially == Init => BootInvariant
<1> SUFFICES ASSUME Init PROVE BootInvariant
  OBVIOUS
<1>1. pc = "cause" /\ cause = "reset" /\ ~asked
  BY DEF Init
<1>2. TypeOK
  <2>1. /\ backup15 \in Values \cup {Magic} /\ save \in Values
        /\ kept \in Values /\ gpio \subseteq GPIO
    BY DEF Init
  <2>2. pwm \in 0..PwmMax /\ elapsed \in 0..Window /\ taps \in 0..MaxTaps
    BY BootAssumption DEF Init
  <2>3. asked \in BOOLEAN /\ pc \in Labels /\ cause \in {"reset", "wakeup"}
    BY DEF Init, Labels
  <2> QED
    BY <2>1, <2>2, <2>3 DEF TypeOK
<1>3. SafeModeIffAsked /\ RequestIsSeen
  BY <1>1 DEF SafeModeIffAsked, Safe, RequestIsSeen
<1>4. backup15 # Magic /\ backup15 = kept
  BY BootAssumption DEF Init
<1>5. MagicIsARequest /\ ValueIsSomewhere
  BY <1>1, <1>4 DEF MagicIsARequest, ValueIsSomewhere, Armed
<1> QED
  BY <1>2, <1>3, <1>5 DEF BootInvariant

(***************************************************************************)
(* A tap on the reset button, at any place, keeps the invariant.           *)
(***************************************************************************)
LEMMA TapKeepsInvariant == BootInvariant /\ Tap => BootInvariant'
<1> SUFFICES ASSUME BootInvariant, Tap PROVE BootInvariant'
  OBVIOUS
<1>1. asked' = (pc \in Armed \/ (pc \in Undecided /\ asked))
  BY DEF Tap
<1>2. asked' \in BOOLEAN
  BY <1>1
<1>3. asked' <=> backup15 = Magic
  BY <1>1, Zenon DEF BootInvariant, MagicIsARequest
<1>4. /\ pc' = "cause" /\ cause' = "reset"
      /\ taps' \in 0..MaxTaps /\ gpio' = {} /\ elapsed' = 0
      /\ UNCHANGED <<backup15, save, pwm, kept>>
  BY BootAssumption DEF Tap, BootInvariant, TypeOK
<1>5. TypeOK'
  <2>1. /\ backup15' \in Values \cup {Magic} /\ save' \in Values
        /\ kept' \in Values /\ pwm' \in 0..PwmMax
    BY <1>4 DEF BootInvariant, TypeOK
  <2>2. /\ gpio' \subseteq GPIO /\ elapsed' \in 0..Window
        /\ taps' \in 0..MaxTaps
    BY <1>4, BootAssumption
  <2>3. pc' \in Labels /\ cause' \in {"reset", "wakeup"}
    BY <1>4 DEF Labels
  <2> QED
    BY <1>2, <2>1, <2>2, <2>3, Zenon DEF TypeOK
<1>6. SafeModeIffAsked' /\ RequestIsSeen'
  <2>1. pc' \in Undecided /\ pc' \notin Safe /\ pc' # "rearm"
        /\ cause' # "wakeup"
    BY <1>4 DEF Undecided, Safe
  <2> QED
    BY <2>1, Zenon DEF SafeModeIffAsked, RequestIsSeen
<1>7. MagicIsARequest'
  <2>1. pc' \in Undecided /\ pc' \notin Armed /\ backup15' = backup15
    BY <1>4 DEF Undecided, Armed
  <2> QED
    BY <2>1, <1>3, Zenon DEF MagicIsARequest
<1>8. ValueIsSomewhere'
  BY <1>4 DEF BootInvariant, ValueIsSomewhere, Armed
<1> QED
  BY <1>5, <1>6, <1>7, <1>8 DEF BootInvariant

(***************************************************************************)
(* Every step of the boot loader keeps it.                                 *)
(***************************************************************************)
LEMMA BootInvariantInductive ==
    BootInvariant /\ [Next]_vars => BootInvariant'
<1> SUFFICES ASSUME BootInvariant, [Next]_vars
             PROVE  BootInvariant'
  OBVIOUS
<1> USE BootAssumption
    DEF BootInvariant, TypeOK, Labels, SafeModeIffAsked, Safe, Undecided,
        MagicIsARequest, Armed, RequestIsSeen, ValueIsSomewhere
<1>1. CASE CheckCause
  BY <1>1 DEF CheckCause
<1>2. CASE CheckMagic
  BY <1>2 DEF CheckMagic
<1>3. CASE Rearm
  BY <1>3 DEF Rearm
<1>4. CASE RedLED
  BY <1>4 DEF RedLED
<1>5. CASE Fade
  BY <1>5 DEF Fade
<1>6. CASE GreenLED
  <2>1. gpio' \subseteq GPIO
    BY <1>6 DEF GreenLED, SetGreen, GPIO
  <2>2. /\ pc \in {"green_val", "green_xor", "green_en"}
        /\ pc' \in {"green_xor", "green_en", "save"}
        /\ UNCHANGED <<cause, backup15, save, pwm, elapsed, taps, asked, kept>>
    BY <1>6 DEF GreenLED, SetGreen
  <2> QED
    BY <2>1, <2>2
<1>7. CASE Save
  BY <1>7 DEF Save
<1>8. CASE Arm
  BY <1>8 DEF Arm
<1>9. CASE Tick
  BY <1>9 DEF Tick
<1>10. CASE WaitIsOver
  BY <1>10 DEF WaitIsOver
<1>11. CASE Disarm
  BY <1>11 DEF Disarm
<1>12. CASE RestoreGPIO
  <2>1. gpio' \subseteq GPIO
    BY <1>12 DEF RestoreGPIO, ClearGPIO
  <2>2. /\ pc \in {"clear_val", "clear_xor", "clear_en"}
        /\ pc' \in {"clear_xor", "clear_en", "jump"}
        /\ UNCHANGED <<cause, backup15, save, pwm, elapsed, taps, asked, kept>>
    BY <1>12 DEF RestoreGPIO, ClearGPIO
  <2> QED
    BY <2>1, <2>2
<1>13. CASE Jump
  BY <1>13 DEF Jump
<1>14. CASE UserWrites
  BY <1>14 DEF UserWrites
<1>15. CASE SleepAndWakeUp
  BY <1>15 DEF SleepAndWakeUp
<1>16. CASE Tap
  BY <1>16, TapKeepsInvariant DEF BootInvariant
<1>17. CASE UNCHANGED vars
  BY <1>17 DEF vars
<1> QED
  BY <1>1, <1>2, <1>3, <1>4, <1>5, <1>6, <1>7, <1>8, <1>9, <1>10, <1>11,
     <1>12, <1>13, <1>14, <1>15, <1>16, <1>17 DEF Next, Boot

(***************************************************************************)
(* The invariant holds in every reachable state.                           *)
(***************************************************************************)
LEMMA BootInvariantHolds == Spec => []BootInvariant
  BY BootInvariantInitially, BootInvariantInductive, PTL DEF Spec

(***************************************************************************)
(* The types hold; in particular the magic value never becomes what the    *)
(* boot loader saved.                                                      *)
(***************************************************************************)
THEOREM DoubleTapTypes == Spec => []TypeOK
<1>1. BootInvariant => TypeOK
  BY DEF BootInvariant
<1> QED
  BY <1>1, BootInvariantHolds, PTL

(***************************************************************************)
(* The safe mode is entered when the button asked for it, and only then.   *)
(***************************************************************************)
THEOREM SafeModeOnRequest == Spec => []SafeModeIffAsked
<1>1. BootInvariant => SafeModeIffAsked
  BY DEF BootInvariant
<1> QED
  BY <1>1, BootInvariantHolds, PTL

(***************************************************************************)
(* Whatever the user program keeps in BACKUP15 is there when it starts.    *)
(***************************************************************************)
THEOREM UserValueKept == Spec => []UserKeepsItsValue
<1>1. BootInvariant => UserKeepsItsValue
  BY DEF BootInvariant, UserKeepsItsValue, MagicIsARequest, Armed, Undecided,
         ValueIsSomewhere
<1> QED
  BY <1>1, BootInvariantHolds, PTL

(***************************************************************************)
(* The GPIO registers are as at reset when the user program is entered:    *)
(* each is cleared on the way, whatever set it.                            *)
(***************************************************************************)
Cleared ==
    /\ pc \in {"clear_xor", "clear_en", "jump"} => "val" \notin gpio
    /\ pc \in {"clear_en", "jump"} => "xor" \notin gpio
    /\ pc = "jump" => "en" \notin gpio

(***************************************************************************)
(* The user program is entered with the GPIO registers of a reset.         *)
(***************************************************************************)
THEOREM GPIORestored == Spec => []GPIOAsAtReset
<1>1. Init => Cleared
  BY DEF Init, Cleared
<1>2. Cleared /\ [Next]_vars => Cleared'
  <2> SUFFICES ASSUME Cleared, [Next]_vars
               PROVE  Cleared'
    OBVIOUS
  <2>1. CASE RestoreGPIO
    BY <2>1 DEF RestoreGPIO, ClearGPIO, Cleared
  <2>2. CASE CheckCause \/ CheckMagic \/ Rearm \/ RedLED \/ Fade
    BY <2>2 DEF CheckCause, CheckMagic, Rearm, RedLED, Fade, Cleared
  <2>3. CASE GreenLED \/ Save \/ Arm \/ Tick \/ WaitIsOver \/ Disarm
    BY <2>3 DEF GreenLED, SetGreen, Save, Arm, Tick, WaitIsOver, Disarm,
                Cleared
  <2>4. CASE Jump \/ UserWrites \/ SleepAndWakeUp \/ Tap
    BY <2>4 DEF Jump, UserWrites, SleepAndWakeUp, Tap, Cleared
  <2>5. CASE UNCHANGED vars
    BY <2>5 DEF vars, Cleared
  <2> QED
    BY <2>1, <2>2, <2>3, <2>4, <2>5 DEF Next, Boot
<1>3. TypeOK /\ Cleared => GPIOAsAtReset
  BY DEF TypeOK, GPIO, Cleared, GPIOAsAtReset
<1> QED
  BY <1>1, <1>2, <1>3, DoubleTapTypes, PTL DEF Spec
=============================================================================
