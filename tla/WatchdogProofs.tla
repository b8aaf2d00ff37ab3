--------------------------- MODULE WatchdogProofs ---------------------------
(***************************************************************************)
(* The watchdog demo is right for every width of the timer's words, every  *)
(* length of the second, of the flash and of the watchdog's time, and      *)
(* wherever in the main loop the handler strikes.                          *)
(***************************************************************************)
EXTENDS Watchdog, TLAPS

Waiting == {"now", "now2", "poll", "poll2"}

(***************************************************************************)
(* Which of mtime_wait's callers each of main and the handler is in: the   *)
(* asynchronous ones ask for one second.                                   *)
(***************************************************************************)
Callers ==
    /\ \A c \in Code : frame[c].async => frame[c].ticks = Second
    /\ at["main"] \in Waiting =>
          frame["main"].back \in {"red_off", "loop", "dark"}
    /\ at["isr"] \in Waiting => frame["isr"].back = "blue" /\ frame["isr"].async

(***************************************************************************)
(* The word of mtime that has been read is not ahead of the register it    *)
(* was read from, as long as the low word has not carried.                 *)
(***************************************************************************)
HalvesAreOfThePast ==
    \A c \in Code :
        /\ half[c][1] = "high" => half[c][2] <= high
        /\ half[c][1] = "low" =>
              half[c][2] < Word /\ (high = 0 => half[c][2] <= low)

(***************************************************************************)
(* The comparator is never set too far ahead, wherever main or the handler *)
(* is.                                                                     *)
(***************************************************************************)
ComparatorInReach ==
    mtie => cmp <= Value(high, low) + Second + (IF high = 0 THEN 0 ELSE Word)

(***************************************************************************)
(* The green LED and main's copy of the output register, over the whole    *)
(* loop: what the handler writes in between is not green.                  *)
(***************************************************************************)
GreenInCopy ==
    /\ at["main"] = "green2" => "green" \in copy
    /\ at["main"] = "dark2" => "green" \notin copy
    /\ at["main"] \in {"setup", "red_off", "watchdog"} => "green" \notin lit
    /\ at["main"] \in Waiting /\ frame["main"].back \in {"red_off", "loop"}
          => "green" \notin lit

WatchdogInvariant ==
    /\ TypeOK /\ Callers /\ HalvesAreOfThePast /\ ComparatorInReach
    /\ GreenInCopy /\ GreenWhileFeeding

(***************************************************************************)
(* Numbers: what has been read of mtime is a time.                         *)
(***************************************************************************)
LEMMA LimitIsNat == Limit \in Nat
  BY WatchdogAssumption DEF Limit

(***************************************************************************)
(* Two words of a counter are a natural number.                            *)
(***************************************************************************)
LEMMA ValueIsNat == \A h, l \in Nat : Value(h, l) \in Nat
  BY CounterAssumption DEF Value

(***************************************************************************)
(* What a caller puts together from the halves it read, and the counter    *)
(* itself, are natural numbers.                                            *)
(***************************************************************************)
LEMMA LoadedIsNat ==
    ASSUME TypeOK, NEW c \in Code
    PROVE  Loaded(c) \in Nat /\ Value(high, low) \in Nat
<1>1. half[c][2] \in Nat /\ high \in Nat /\ low \in Nat
  BY CounterAssumption DEF TypeOK, Highs, Lows
<1> QED
  BY <1>1, ValueIsNat DEF Loaded

(***************************************************************************)
(* The frames mtime_wait is called with.                                   *)
(***************************************************************************)
LEMMA FramesOfCallers ==
    /\ NoFrame \in Frames
    /\ \A back \in {"red_off", "dark"}, ticks \in {Second, Flash} :
          [ticks |-> ticks, async |-> FALSE, back |-> back] \in Frames
    /\ \A back \in {"loop", "blue"} :
          [ticks |-> Second, async |-> TRUE, back |-> back] \in Frames
  BY WatchdogAssumption DEF NoFrame, Frames

(***************************************************************************)
(* Every step keeps the types and the frames.                              *)
(***************************************************************************)
LEMMA TypesKept ==
    TypeOK /\ Callers /\ [Next]_vars => TypeOK' /\ Callers'
<1> SUFFICES ASSUME TypeOK, Callers, [Next]_vars PROVE TypeOK' /\ Callers'
  OBVIOUS
<1> USE CounterAssumption, WatchdogAssumption, LimitIsNat, FramesOfCallers
    DEF TypeOK, Callers, Waiting, Words, MainPlaces, HandlerPlaces, Code,
        LEDs, Highs, Lows, At, Goto, CallWait, Forget, Return, NoFrame, NoHalf,
        clock, timer
<1>1. CASE LedInit
  BY <1>1 DEF LedInit
<1>2. CASE RedOff
  BY <1>2 DEF RedOff
<1>3. CASE WatchdogInit
  <2>1. dog' \in Off..Limit
    BY <1>3 DEF WatchdogInit, Off
  <2> QED
    BY <1>3, <2>1 DEF WatchdogInit
<1>4. CASE \E c \in Code : LoadHalf(c, "now", "now2")
  BY <1>4 DEF LoadHalf
<1>5. CASE \E c \in Code : Schedule(c)
  <2>1. PICK c \in Code : Schedule(c)
    BY <1>5
  <2>2. cmp' \in Nat
    BY <2>1, LoadedIsNat DEF Schedule, Frames
  <2>3. frame[c].back \in {"red_off", "loop", "dark", "blue"}
    BY <2>1 DEF Schedule
  <2>4. c = "main" => frame[c].back \in MainPlaces
    BY <2>1 DEF Schedule
  <2>5. c = "isr" => frame[c].back \in HandlerPlaces
    BY <2>1 DEF Schedule
  <2> QED
    BY <2>1, <2>2, <2>3, <2>4, <2>5 DEF Schedule
<1>6. CASE StartWait
  <2>1. until' \in Nat
    BY <1>6, LoadedIsNat DEF StartWait, Frames
  <2> QED
    BY <1>6, <2>1 DEF StartWait
<1>7. CASE LoadHalf("main", "poll", "poll2")
  BY <1>7 DEF LoadHalf
<1>8. CASE Poll
  <2>1. frame["main"].back \in MainPlaces /\ until' \in Nat
    BY <1>8 DEF Poll
  <2>2. CASE at' = [at EXCEPT !["main"] = "poll"] /\ UNCHANGED frame
    BY <1>8, <2>1, <2>2 DEF Poll
  <2>3. CASE Return("main")
    BY <1>8, <2>1, <2>3 DEF Poll
  <2> QED
    BY <1>8, <2>2, <2>3 DEF Poll
<1>9. CASE ReadKey
  BY <1>9 DEF ReadKey
<1>10. CASE GreenOn
  BY <1>10 DEF GreenOn, LoadLEDs, StoreLEDs
<1>11. CASE RestartCount
  BY <1>11 DEF RestartCount
<1>12. CASE Feed
  <2>1. dog' \in Off..Limit
    BY <1>12 DEF Feed, Off
  <2> QED
    BY <1>12, <2>1 DEF Feed
<1>13. CASE GreenOff
  BY <1>13 DEF GreenOff, LoadLEDs, StoreLEDs
<1>14. CASE Trap
  BY <1>14 DEF Trap
<1>15. CASE FlashBlue
  BY <1>15 DEF FlashBlue
<1>16. CASE PrintCount
  BY <1>16 DEF PrintCount
<1>17. CASE Time
  <2>1. dog' \in Off..Limit
    BY <1>17 DEF Time, Off
  <2>2. high' \in Highs /\ low' \in Lows
    BY <1>17 DEF Time, Tick, Increment, Carry
  <2> QED
    BY <1>17, <2>1, <2>2 DEF Time
<1>18. CASE PressKey
  BY <1>18 DEF PressKey
<1>19. CASE Bite
  <2>1. dog' \in Off..Limit /\ high' \in Highs /\ low' \in Lows
    BY <1>19 DEF Bite, Off
  <2>2. at'["main"] = "setup" /\ at'["isr"] = "off"
    BY <1>19 DEF Bite, AtReset
  <2>3. at' \in [Code -> MainPlaces \cup HandlerPlaces]
    BY <1>19 DEF Bite, AtReset
  <2>4. frame' \in [Code -> Frames] /\ \A c \in Code : ~frame'[c].async
    BY <1>19 DEF Bite
  <2>5. half' \in [Code -> Words \X Nat] /\ countdown' \in 0..(CountSize - 1)
    BY <1>19 DEF Bite
  <2> QED
    BY <1>19, <2>1, <2>2, <2>3, <2>4, <2>5 DEF Bite
<1>20. CASE UNCHANGED vars
  BY <1>20 DEF vars
<1> QED
  BY <1>1, <1>2, <1>3, <1>4, <1>5, <1>6, <1>7, <1>8, <1>9, <1>10, <1>11,
     <1>12, <1>13, <1>14, <1>15, <1>16, <1>17, <1>18, <1>19, <1>20
  DEF Next, Setup, MtimeWait, Loop, Handler

(***************************************************************************)
(* How mtime moves: by one, except at the reset; the high word stays 0     *)
(* only as long as the low one does not carry.                             *)
(***************************************************************************)
LEMMA TickMovesValue ==
    ASSUME TypeOK, Tick
    PROVE  /\ Value(high, low)' = Value(high, low) + 1
           /\ high <= high' /\ (high' = high => low <= low') /\ low' < Word
<1>1. high \in Nat /\ low \in Nat /\ Word \in Nat /\ low < Word
  BY CounterAssumption DEF TypeOK, Highs, Lows
<1>2. (high + 1) * Word = high * Word + Word
  BY <1>1
<1> QED
  BY <1>1, <1>2 DEF Tick, Increment, Carry, Value

(***************************************************************************)
(* What two loads make of mtime: at most one value of the high word ahead. *)
(***************************************************************************)
LEMMA LoadedInReach ==
    ASSUME TypeOK, HalvesAreOfThePast, NEW c \in Code
    PROVE  Loaded(c) <= Value(high, low) + (IF high = 0 THEN 0 ELSE Word)
<1>1. /\ high \in Nat /\ low \in Nat /\ Word \in Nat
      /\ half[c][1] \in Words /\ half[c][2] \in Nat
  BY CounterAssumption DEF TypeOK, Highs, Lows
<1>2. CASE half[c][1] = "high"
  <2>1. half[c][2] <= high
    BY <1>2 DEF HalvesAreOfThePast
  <2>2. \A a, b, w \in Nat : a <= b => a * w <= b * w
    OBVIOUS
  <2>3. half[c][2] * Word <= high * Word
    BY <1>1, <2>1, <2>2
  <2>4. half[c][2] * Word \in Nat /\ high * Word \in Nat
    BY <1>1
  <2> QED
    BY <1>1, <1>2, <2>3, <2>4 DEF Loaded, Value
<1>3. CASE half[c][1] = "low"
  <2>1. half[c][2] < Word /\ (high = 0 => half[c][2] <= low)
    BY <1>3 DEF HalvesAreOfThePast
  <2>2. high * Word \in Nat
    BY <1>1
  <2> QED
    BY <1>1, <1>3, <2>1, <2>2 DEF Loaded, Value
<1> QED
  BY <1>1, <1>2, <1>3 DEF Words

(***************************************************************************)
(* Only three actions touch the comparator, only five the halves.          *)
(***************************************************************************)
LEMMA TimeKept ==
    /\ TypeOK /\ Callers /\ HalvesAreOfThePast /\ ComparatorInReach
    /\ [Next]_vars
    => HalvesAreOfThePast' /\ ComparatorInReach'
<1> SUFFICES ASSUME TypeOK, Callers, HalvesAreOfThePast, ComparatorInReach,
                    [Next]_vars
             PROVE  HalvesAreOfThePast' /\ ComparatorInReach'
  OBVIOUS
<1>1. CASE UNCHANGED <<clock, half, cmp, mtie>>
  BY <1>1 DEF clock, HalvesAreOfThePast, ComparatorInReach
<1>2. ASSUME UNCHANGED <<clock, cmp, mtie>>, NEW c \in Code, Forget(c)
      PROVE  HalvesAreOfThePast' /\ ComparatorInReach'
  BY <1>2, CounterAssumption
  DEF clock, Forget, NoHalf, TypeOK, Highs, Lows, HalvesAreOfThePast,
      ComparatorInReach
<1>3. ASSUME NEW c \in Code, NEW l, NEW n, LoadHalf(c, l, n)
      PROVE  HalvesAreOfThePast' /\ ComparatorInReach'
  <2>1. UNCHANGED <<clock, cmp, mtie>>
    BY <1>3 DEF LoadHalf, timer
  <2>2. high \in Nat /\ low \in Nat /\ low < Word
    BY CounterAssumption DEF TypeOK, Highs, Lows
  <2> QED
    BY <1>3, <2>1, <2>2
    DEF LoadHalf, clock, TypeOK, Words, HalvesAreOfThePast, ComparatorInReach
<1>4. ASSUME NEW c \in Code, Schedule(c)
      PROVE  HalvesAreOfThePast' /\ ComparatorInReach'
  <2>1. cmp' <= Value(high, low) + Second + (IF high = 0 THEN 0 ELSE Word)
    BY <1>4, LoadedInReach, LoadedIsNat, CounterAssumption, WatchdogAssumption
    DEF Schedule, Callers
  <2> QED
    BY <1>4, <2>1, CounterAssumption
    DEF Schedule, Return, Forget, NoHalf, clock, TypeOK, Highs, Lows,
        HalvesAreOfThePast, ComparatorInReach
<1>5. CASE Time
  <2>1. UNCHANGED <<half, cmp, mtie>> /\ Tick
    BY <1>5 DEF Time, timer
  <2>2. /\ high \in Nat /\ low \in Nat /\ high' \in Nat
        /\ low' \in Nat /\ Word \in Nat \ {0} /\ Value(high, low) \in Nat
        /\ \A c \in Code : half[c][2] \in Nat
    BY <2>1, LoadedIsNat, CounterAssumption
    DEF TypeOK, Highs, Lows, Code, Tick, Increment, Carry
  <2>3. HalvesAreOfThePast'
    <3>1. high <= high' /\ (high' = 0 => high = 0 /\ low <= low')
      BY <2>1, <2>2, TickMovesValue
    <3> QED
      BY <2>1, <2>2, <3>1 DEF HalvesAreOfThePast
  <2>4. ComparatorInReach'
    BY <2>1, <2>2, TickMovesValue, WatchdogAssumption
    DEF TypeOK, ComparatorInReach
  <2> QED
    BY <2>3, <2>4
<1>6. CASE Trap
  BY <1>6 DEF Trap, CallWait, clock, HalvesAreOfThePast, ComparatorInReach
<1>7. CASE Bite
  BY <1>7, CounterAssumption
  DEF Bite, NoHalf, HalvesAreOfThePast, ComparatorInReach
<1>8. CASE Setup \/ ReadKey \/ RestartCount \/ Feed \/ FlashBlue \/ PrintCount
           \/ PressKey \/ UNCHANGED vars
  <2>1. UNCHANGED <<clock, half, cmp, mtie>>
    BY <1>8
    DEF Setup, LedInit, RedOff, WatchdogInit, ReadKey, RestartCount, Feed,
        FlashBlue, PrintCount, PressKey, vars, clock, timer
  <2> QED
    BY <1>1, <2>1
<1>9. CASE GreenOn \/ GreenOff
  BY <1>1, <1>9 DEF GreenOn, GreenOff, LoadLEDs, StoreLEDs, timer
<1>10. CASE StartWait
  BY <1>2, <1>10 DEF StartWait, timer, Code
<1>11. CASE Poll
  BY <1>1, <1>2, <1>11 DEF Poll, Return, timer, Code
<1> QED
  BY <1>3, <1>4, <1>5, <1>6, <1>7, <1>8, <1>9, <1>10, <1>11
  DEF Next, MtimeWait, Loop, Handler, Code

(***************************************************************************)
(* The output register: main's stores write its copy, the handler only     *)
(* changes the blue bit, and no step of the handler falls between the two  *)
(* accesses of main with anything but blue changed.                        *)
(***************************************************************************)
LEMMA GreenKept ==
    TypeOK /\ Callers /\ GreenInCopy /\ GreenWhileFeeding /\ [Next]_vars
    => GreenInCopy' /\ GreenWhileFeeding'
<1> SUFFICES ASSUME TypeOK, Callers, GreenInCopy, GreenWhileFeeding,
[Next]_vars
             PROVE  GreenInCopy' /\ GreenWhileFeeding'
  OBVIOUS
<1> USE DEF TypeOK, Callers, GreenInCopy, GreenWhileFeeding, InFlash, Waiting,
            Code, At, Goto, CallWait, Return
<1>1. CASE LedInit
  BY <1>1 DEF LedInit
<1>2. CASE RedOff
  BY <1>2 DEF RedOff
<1>3. CASE WatchdogInit
  BY <1>3 DEF WatchdogInit
<1>4. CASE \E c \in Code : LoadHalf(c, "now", "now2")
  BY <1>4 DEF LoadHalf
<1>5. CASE \E c \in Code : Schedule(c)
  BY <1>5 DEF Schedule
<1>6. CASE StartWait
  BY <1>6 DEF StartWait
<1>7. CASE LoadHalf("main", "poll", "poll2")
  BY <1>7 DEF LoadHalf
<1>8. CASE Poll
  BY <1>8 DEF Poll
<1>9. CASE ReadKey
  BY <1>9 DEF ReadKey
<1>10. CASE GreenOn
  BY <1>10 DEF GreenOn, LoadLEDs, StoreLEDs
<1>11. CASE RestartCount
  BY <1>11 DEF RestartCount
<1>12. CASE Feed
  BY <1>12 DEF Feed
<1>13. CASE GreenOff
  BY <1>13 DEF GreenOff, LoadLEDs, StoreLEDs
<1>14. CASE Trap
  BY <1>14 DEF Trap
<1>15. CASE FlashBlue
  BY <1>15 DEF FlashBlue
<1>16. CASE PrintCount
  BY <1>16 DEF PrintCount
<1>17. CASE Time
  BY <1>17 DEF Time
<1>18. CASE PressKey
  BY <1>18 DEF PressKey
<1>19. CASE Bite
  BY <1>19 DEF Bite, AtReset, NoFrame
<1>20. CASE UNCHANGED vars
  BY <1>20 DEF vars
<1> QED
  BY <1>1, <1>2, <1>3, <1>4, <1>5, <1>6, <1>7, <1>8, <1>9, <1>10, <1>11,
     <1>12, <1>13, <1>14, <1>15, <1>16, <1>17, <1>18, <1>19, <1>20
  DEF Next, Setup, MtimeWait, Loop, Handler

(***************************************************************************)
(* The invariant holds from power-on and through every reset.              *)
(***************************************************************************)
LEMMA WatchdogInvariantHolds == Spec => []WatchdogInvariant
<1>1. Init => WatchdogInvariant
  <2> SUFFICES ASSUME Init PROVE WatchdogInvariant
    OBVIOUS
  <2>1. at["main"] = "setup" /\ at["isr"] = "off"
    BY DEF Init, AtReset, Code
  <2>2. at \in [Code -> MainPlaces \cup HandlerPlaces]
    BY DEF Init, AtReset, Code, MainPlaces, HandlerPlaces
  <2>3. frame \in [Code -> Frames] /\ half \in [Code -> Words \X Nat]
    BY FramesOfCallers DEF Init, NoHalf, Words
  <2>4. /\ high \in Highs /\ low \in Lows /\ dog \in Off..Limit
        /\ countdown \in 0..(CountSize - 1)
    BY CounterAssumption, WatchdogAssumption, LimitIsNat
    DEF Init, Off, Highs, Lows
  <2>5. TypeOK
    BY <2>1, <2>2, <2>3, <2>4 DEF Init, TypeOK, MainPlaces, HandlerPlaces
  <2> QED
    BY <2>1, <2>5, CounterAssumption
    DEF Init, WatchdogInvariant, Callers, HalvesAreOfThePast,
        ComparatorInReach, GreenInCopy, GreenWhileFeeding, InFlash, Waiting,
        NoFrame, NoHalf
<1>2. WatchdogInvariant /\ [Next]_vars => WatchdogInvariant'
  BY TypesKept, TimeKept, GreenKept DEF WatchdogInvariant
<1> QED
  BY <1>1, <1>2, PTL DEF Spec

(***************************************************************************)
(* The types of every variable of the demo.                                *)
(***************************************************************************)
THEOREM WatchdogTypes == Spec => []TypeOK
<1>1. WatchdogInvariant => TypeOK
  BY DEF WatchdogInvariant
<1> QED
  BY <1>1, WatchdogInvariantHolds, PTL

(***************************************************************************)
(* The next interrupt is a second away, and at most one value of the high  *)
(* word more.                                                              *)
(***************************************************************************)
THEOREM InterruptOnTime == Spec => []NextInterruptOnTime
<1>1. WatchdogInvariant => NextInterruptOnTime
  BY DEF WatchdogInvariant, ComparatorInReach, NextInterruptOnTime
<1> QED
  BY <1>1, WatchdogInvariantHolds, PTL

(***************************************************************************)
(* The green LED is lit exactly while main flashes it.                     *)
(***************************************************************************)
THEOREM GreenIsMains == Spec => []GreenWhileFeeding
<1>1. WatchdogInvariant => GreenWhileFeeding
  BY DEF WatchdogInvariant
<1> QED
  BY <1>1, WatchdogInvariantHolds, PTL

============================================================================
