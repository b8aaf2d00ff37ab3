------------------------------ MODULE Watchdog ------------------------------
(***************************************************************************)
(* The watchdog demo.  The main loop and the machine timer handler share   *)
(* one hart: the handler may run between any two accesses of the main loop *)
(* and itself runs to its end, because a trap clears MIE.  They share the  *)
(* GPIO output register, the countdown and the timer.                      *)
(*                                                                         *)
(* mtime is read as a plain 64-bit object, which RV32 does with two loads  *)
(* in an order of the compiler's choice; the counter may carry in between. *)
(* mtimecmp is only written while MTIP is cleared in mie, so that its two  *)
(* stores count as one.                                                    *)
(***************************************************************************)
EXTENDS Mtime

CONSTANTS
    Second,      \* RTC_FREQ, in ticks of mtime
    Flash,       \* the 5000 ticks of the green LED
    WdogCmp,     \* the value of WDOGCMP: 11
    CountFrom,   \* where the countdown starts: 10
    CountSize    \* values of the countdown: 2^32

ASSUME WatchdogAssumption ==
    /\ {Second, Flash, WdogCmp, CountFrom} \subseteq Nat \ {0}
    /\ CountSize \in Nat /\ CountFrom < CountSize

Code == {"main", "isr"}
LEDs == {"red", "green", "blue"}
Words == {"high", "low"}

MainPlaces == {"setup", "red_off", "watchdog", "loop", "green", "green2",
               "count", "feed", "dark", "dark2", "now", "now2", "poll", "poll2"}
HandlerPlaces == {"off", "now", "now2", "blue", "print"}

Frames == [ticks : Nat, async : BOOLEAN,
           back : {"none", "red_off", "loop", "dark", "blue"}]

VARIABLES
    at,          \* what each of main and the handler executes next
    frame,       \* the mtime_wait each is in: ticks, async, where it returns
    half,        \* the first word of mtime it has read, and which word it is
    until,       \* "then" of main's busy wait
    cmp, mtie,   \* mtimecmp, and the MTIP bit of mie
    lit,         \* the LEDs the GPIO output register lights
    copy,        \* main's copy of them in a read-modify-write
    countdown,   \* the global counter of the messages
    key,         \* the receive register: "none", "nul" or "char"
    dog          \* the watchdog's counter, in ticks; Off until it is started

clock == <<high, low>>
timer == <<cmp, mtie>>
vars == <<high, low, at, frame, half, until, cmp, mtie, lit, copy, countdown,
          key, dog>>

Value(h, l) == h * Word + l

Limit == WdogCmp * Second

Off == -1

NoHalf == <<"low", 0>>

AtReset == [c \in Code |-> IF c = "main" THEN "setup" ELSE "off"]

NoFrame == [ticks |-> 0, async |-> FALSE, back |-> "none"]

Init ==
    /\ high = 0 /\ low = 0
    /\ at = AtReset
    /\ frame = [c \in Code |-> NoFrame]
    /\ half = [c \in Code |-> NoHalf]
    /\ until = 0 /\ cmp = 0 /\ mtie = FALSE
    /\ lit = {} /\ copy = {}
    /\ countdown = CountFrom
    /\ key = "none" /\ dog = Off

(***************************************************************************)
(* Main runs when no handler does.                                         *)
(***************************************************************************)
At(c, label) == at[c] = label /\ (c = "main" => at["isr"] = "off")
Goto(c, label) == at' = [at EXCEPT ![c] = label]

CallWait(c, ticks, async, back) ==
    /\ frame' = [frame EXCEPT
                    ![c] = [ticks |-> ticks, async |-> async, back |-> back]]
    /\ Goto(c, "now")

(***************************************************************************)
(* Locals that are dead are forgotten.                                     *)
(***************************************************************************)
Forget(c) == half' = [half EXCEPT ![c] = NoHalf]

Return(c) ==
    /\ Goto(c, frame[c].back)
    /\ frame' = [frame EXCEPT ![c] = NoFrame]
    /\ Forget(c)

(***************************************************************************)
(* mtime_wait: the two loads of one read of *mtime, from label to next.    *)
(***************************************************************************)
LoadHalf(c, label, next) ==
    /\ At(c, label)
    /\ \E word \in Words :
          half' = [half EXCEPT
                     ![c] = <<word, IF word = "high" THEN high ELSE low>>]
    /\ Goto(c, next)
    /\ UNCHANGED <<clock, frame, until, timer, lit, copy, countdown,
                   key, dog>>

LoadedSwapped(c) ==
    IF half[c][1] = "high" THEN Value(low, half[c][2])
                           ELSE Value(half[c][2], high)

Loaded(c) ==
    IF half[c][1] = "high" THEN Value(half[c][2], low)
                           ELSE Value(high, half[c][2])

(***************************************************************************)
(* mtime_wait, asynchronous: set the comparator and enable the interrupt.  *)
(***************************************************************************)
Schedule(c) ==
    /\ At(c, "now2") /\ frame[c].async
    /\ cmp' = Loaded(c) + frame[c].ticks
    /\ mtie' = TRUE
    /\ Return(c)
    /\ UNCHANGED <<clock, until, lit, copy, countdown,
                   key, dog>>

(***************************************************************************)
(* mtime_wait, synchronous: busy waiting until the time has come.          *)
(***************************************************************************)
StartWait ==
    /\ At("main", "now2") /\ ~frame["main"].async
    /\ until' = Loaded("main") + frame["main"].ticks
    /\ Goto("main", "poll")
    /\ Forget("main")
    /\ UNCHANGED <<clock, frame, timer, lit, copy, countdown,
                   key, dog>>

Poll ==
    /\ At("main", "poll2")
    /\ \/ /\ Loaded("main") < until
          /\ Goto("main", "poll")
          /\ Forget("main")
          /\ UNCHANGED <<frame, until>>
       \/ /\ Loaded("main") >= until
          /\ Return("main")
          /\ until' = 0
    /\ UNCHANGED <<clock, timer, lit, copy, countdown, key, dog>>

(***************************************************************************)
(* reset_demo, with the interrupts off: flash the red LED for a second,    *)
(* start the watchdog; then main schedules the first interrupt.            *)
(***************************************************************************)
LedInit ==
    /\ At("main", "setup")
    /\ lit' = {"red"}
    /\ CallWait("main", Second, FALSE, "red_off")
    /\ UNCHANGED <<clock, half, until, timer, copy, countdown, key,
                   dog>>

RedOff ==
    /\ At("main", "red_off")
    /\ lit' = lit \ {"red"}
    /\ Goto("main", "watchdog")
    /\ UNCHANGED <<clock, frame, half, until, timer, copy, countdown,
                   key, dog>>

WatchdogInit ==
    /\ At("main", "watchdog")
    /\ dog' = 0
    /\ CallWait("main", Second, TRUE, "loop")
    /\ UNCHANGED <<clock, half, until, timer, lit, copy, countdown,
                   key>>

(***************************************************************************)
(* The main loop takes a key; NUL is read from the register and ignored.   *)
(***************************************************************************)
ReadKey ==
    /\ At("main", "loop") /\ key # "none"
    /\ key' = "none"
    /\ Goto("main", IF key = "char" THEN "green" ELSE "loop")
    /\ UNCHANGED <<clock, frame, half, until, timer, lit, copy, countdown, dog>>

(***************************************************************************)
(* A read-modify-write of the output register: two instructions.           *)
(***************************************************************************)
LoadLEDs(label, leds, next) ==
    /\ At("main", label)
    /\ copy' = leds
    /\ Goto("main", next)
    /\ UNCHANGED <<clock, frame, half, until, timer, lit, countdown,
                   key, dog>>

StoreLEDs(label, next) ==
    /\ At("main", label)
    /\ lit' = copy
    /\ copy' = {}
    /\ Goto("main", next)
    /\ UNCHANGED <<clock, frame, half, until, timer, countdown,
                   key, dog>>

GreenOn  == LoadLEDs("green", lit \cup {"green"}, "green2")
            \/ StoreLEDs("green2", "count")
GreenOff == LoadLEDs("dark", lit \ {"green"}, "dark2")
            \/ StoreLEDs("dark2", "loop")

RestartCount ==
    /\ At("main", "count")
    /\ countdown' = CountFrom
    /\ Goto("main", "feed")
    /\ UNCHANGED <<clock, frame, half, until, timer, lit, copy, key,
                   dog>>

Feed ==
    /\ At("main", "feed")
    /\ dog' = 0
    /\ CallWait("main", Flash, FALSE, "dark")
    /\ UNCHANGED <<clock, half, until, timer, lit, copy, countdown,
                   key>>

(***************************************************************************)
(* handle_m_time_interrupt.                                                *)
(***************************************************************************)
Trap ==
    /\ at["isr"] = "off" /\ mtie /\ cmp <= Value(high, low)
    /\ mtie' = FALSE
    /\ CallWait("isr", Second, TRUE, "blue")
    /\ UNCHANGED <<clock, half, until, cmp, lit, copy, countdown,
                   key, dog>>

FlashBlueOverwriting ==
    /\ At("isr", "blue")
    /\ lit' = {"blue"} \ lit
    /\ Goto("isr", "print")
    /\ UNCHANGED <<clock, frame, half, until, timer, copy, countdown, key,
                   dog>>

FlashBlue ==
    /\ At("isr", "blue")
    /\ lit' = IF "blue" \in lit THEN lit \ {"blue"} ELSE lit \cup {"blue"}
    /\ Goto("isr", "print")
    /\ UNCHANGED <<clock, frame, half, until, timer, copy, countdown,
                   key, dog>>

PrintCount ==
    /\ At("isr", "print")
    /\ countdown' = (countdown + CountSize - 1) % CountSize
    /\ Goto("isr", "off")
    /\ UNCHANGED <<clock, frame, half, until, timer, lit, copy, key, dog>>

(***************************************************************************)
(* The hardware: time, keys, and the reset by the watchdog, after which    *)
(* everything is as at power-on.  A key that finds the register full is    *)
(* lost.                                                                   *)
(***************************************************************************)
Time ==
    /\ dog < Limit
    /\ Tick
    /\ dog' = IF dog = Off THEN Off ELSE dog + 1
    /\ UNCHANGED <<at, frame, half, until, timer, lit, copy, countdown, key>>

PressKey ==
    /\ key' \in IF key = "none" THEN {"nul", "char"} ELSE {key}
    /\ UNCHANGED <<clock, at, frame, half, until, timer, lit, copy, countdown, dog>>

Bite ==
    /\ dog = Limit
    /\ high' = 0 /\ low' = 0
    /\ at' = AtReset
    /\ frame' = [c \in Code |-> NoFrame]
    /\ half' = [c \in Code |-> NoHalf]
    /\ until' = 0 /\ cmp' = 0 /\ mtie' = FALSE
    /\ lit' = {} /\ copy' = {}
    /\ countdown' = CountFrom
    /\ key' = "none" /\ dog' = Off

Setup == LedInit \/ RedOff \/ WatchdogInit
MtimeWait ==
    \/ \E c \in Code : LoadHalf(c, "now", "now2") \/ Schedule(c)
    \/ StartWait \/ LoadHalf("main", "poll", "poll2") \/ Poll
Loop == ReadKey \/ GreenOn \/ RestartCount \/ Feed \/ GreenOff
Handler == Trap \/ FlashBlue \/ PrintCount

Next == Setup \/ MtimeWait \/ Loop \/ Handler \/ Time \/ PressKey \/ Bite

Spec == Init /\ [][Next]_vars

TypeOK ==
    /\ high \in Highs /\ low \in Lows
    /\ at \in [Code -> MainPlaces \cup HandlerPlaces]
    /\ at["main"] \in MainPlaces /\ at["isr"] \in HandlerPlaces
    /\ frame \in [Code -> Frames] /\ half \in [Code -> Words \X Nat]
    /\ until \in Nat /\ cmp \in Nat /\ mtie \in BOOLEAN
    /\ lit \subseteq LEDs /\ copy \subseteq LEDs
    /\ countdown \in 0..(CountSize - 1)
    /\ key \in {"none", "nul", "char"} /\ dog \in Off..Limit

(***************************************************************************)
(* Whatever main was doing, after the handler the next interrupt is at     *)
(* most a second away ("schedule next timer irq for 1 second"), until the  *)
(* low word first carries, 36 hours after a reset: a carry between the two *)
(* loads of mtime moves it into the past or by one value of the high word  *)
(* into the future, never further.                                         *)
(***************************************************************************)
NextInterruptOnTime ==
    at["isr"] = "off" /\ mtie =>
        cmp <= Value(high, low) + Second + (IF high = 0 THEN 0 ELSE Word)

InFlash == at["main"] \in {"count", "feed", "dark"}
           \/ (/\ at["main"] \in {"now", "now2", "poll", "poll2"}
               /\ frame["main"].back = "dark")

(***************************************************************************)
(* The green LED is lit exactly while main flashes it, although the        *)
(* handler rewrites the register main reads and writes.                    *)
(***************************************************************************)
GreenWhileFeeding ==
    /\ InFlash => "green" \in lit
    /\ at["main"] = "loop" => "green" \notin lit

(***************************************************************************)
(* The blue LED blinks with the handler and with nothing else ("set up     *)
(* blue for blinking during mtime irq").                                   *)
(***************************************************************************)
BlueBlinksWithHandler ==
    [][("blue" \in lit) # ("blue" \in lit') => FlashBlue \/ Bite]_vars

=============================================================================
