------------------------- MODULE VectoredInterrupts -------------------------
(***************************************************************************)
(* The vectored_interrupts demo: main sleeps in wfi and, every time an     *)
(* interrupt wakes it, looks whether the timer handler has counted to ten; *)
(* then it makes an ECALL, whose handler starts the count again.           *)
(*                                                                         *)
(* A handler may run between any two instructions of main.  An interrupt   *)
(* that finds main asleep returns behind the wfi, one that comes just      *)
(* before returns to the wfi.  ecall_countdown is not volatile and the wfi *)
(* has no memory clobber: the compiler may keep it in a register from one  *)
(* ECALL to the next.                                                      *)
(***************************************************************************)
EXTENDS Integers

CONSTANTS
    EcallAt,     \* 10
    MaxCount     \* bound: the timer stops when the count is there

ASSUME VectoredAssumption ==
    EcallAt \in Nat \ {0} /\ MaxCount \in Nat /\ MaxCount > EcallAt

VARIABLES
    build,       \* "volatile", or "cached": main tests a register
    vec_at,      \* main: "setup", "wfi", "asleep", "test", "ecall"; "stuck"
    ecall_countdown,
    vec_mie,     \* the interrupts enabled in mie
    second,      \* the timer is due: a second has passed since it last was
    slept,       \* main has gone to sleep since it last was
    fall,        \* GPIO_FALL_IP: button 0 was pressed
    down,        \* button 1 is down
    window       \* history: the timer counted to ten between test and wfi

vec_vars == <<build, vec_at, ecall_countdown, vec_mie, second, slept,
              fall, down, window>>

VecInit ==
    /\ build \in {"volatile", "cached"}
    /\ vec_at = "setup"
    /\ ecall_countdown = 0
    /\ vec_mie \in SUBSET {"button_1", "timer", "external", "other"}
    /\ second = FALSE /\ slept = FALSE
    /\ fall = FALSE /\ down = FALSE /\ window = FALSE

(***************************************************************************)
(* main: set everything up; the first interrupt is a second away.  mie is  *)
(* not reset and main only adds to it.                                     *)
(***************************************************************************)
VecSetup ==
    /\ vec_at = "setup"
    /\ ecall_countdown' = 0
    /\ vec_mie' = vec_mie \cup {"button_1", "timer", "external"}
    /\ vec_at' = "wfi"
    /\ UNCHANGED <<build, second, slept, fall, down, window>>

Sleep ==
    /\ vec_at = "wfi"
    /\ vec_at' = "asleep" /\ slept' = TRUE
    /\ UNCHANGED <<build, ecall_countdown, vec_mie, second, fall, down,
                   window>>

(***************************************************************************)
(* What main tests; the register holds what the set-up or the last ECALL   *)
(* left.                                                                   *)
(***************************************************************************)
Seen == IF build = "cached" THEN 0 ELSE ecall_countdown

TestLate ==
    /\ vec_at = "test"
    /\ vec_at' = IF Seen > EcallAt THEN "ecall" ELSE "wfi"
    /\ UNCHANGED <<build, ecall_countdown, vec_mie, second, slept, fall, down,
                   window>>

Test ==
    /\ vec_at = "test"
    /\ vec_at' = IF Seen = EcallAt THEN "ecall" ELSE "wfi"
    /\ UNCHANGED <<build, ecall_countdown, vec_mie, second, slept, fall, down,
                   window>>

(***************************************************************************)
(* The ECALL and handle_sync_trap.                                         *)
(***************************************************************************)
Ecall ==
    /\ vec_at = "ecall"
    /\ ecall_countdown' = 0
    /\ vec_at' = "wfi"
    /\ window' = FALSE
    /\ UNCHANGED <<build, vec_mie, second, slept, fall, down>>

(***************************************************************************)
(* Where a handler returns to.                                             *)
(***************************************************************************)
Interrupted(i) ==
    /\ vec_at \notin {"setup", "stuck"} /\ i \in vec_mie
    /\ vec_at' = IF vec_at = "asleep" THEN "test" ELSE vec_at

(***************************************************************************)
(* handle_m_time_interrupt: count, set the timer a second ahead of when it *)
(* was due, and enable button 1 again.                                     *)
(***************************************************************************)
handle_timer ==
    /\ Interrupted("timer") /\ second
    /\ ecall_countdown' = ecall_countdown + 1
    /\ window' = (window \/ (ecall_countdown' = EcallAt /\ vec_at = "wfi"))
    /\ second' = FALSE /\ slept' = FALSE
    /\ vec_mie' = vec_mie \cup {"timer", "button_1"}
    /\ UNCHANGED <<build, fall, down>>

(***************************************************************************)
(* handle_m_external_interrupt and button_0_handler: the claim finds       *)
(* button 0, the only source that is enabled, and the edge is cleared.     *)
(***************************************************************************)
handle_button_0 ==
    /\ Interrupted("external") /\ fall
    /\ fall' = FALSE
    /\ UNCHANGED <<build, ecall_countdown, vec_mie, second, slept, down,
                   window>>

(***************************************************************************)
(* handle_local_interrupt5: button 1 is a level, off until the next tick.  *)
(***************************************************************************)
handle_button_1 ==
    /\ Interrupted("button_1") /\ down
    /\ vec_mie' = vec_mie \ {"button_1"}
    /\ UNCHANGED <<build, ecall_countdown, second, slept, fall, down,
                   window>>

(***************************************************************************)
(* Any other interrupt that reset left enabled ends in an endless loop.    *)
(***************************************************************************)
reserved ==
    /\ vec_at \notin {"setup", "stuck"} /\ "other" \in vec_mie
    /\ vec_at' = "stuck"
    /\ UNCHANGED <<build, ecall_countdown, vec_mie, second, slept, fall, down,
                   window>>

(***************************************************************************)
(* The world: buttons, and seconds that are longer than main's way from a  *)
(* tick back to sleep.                                                     *)
(***************************************************************************)
Button0 == fall' = TRUE /\ UNCHANGED
    <<build, vec_at, ecall_countdown, vec_mie, second, slept, down, window>>

Button1 == down' = ~down /\ UNCHANGED
    <<build, vec_at, ecall_countdown, vec_mie, second, slept, fall, window>>

SecondPasses ==
    /\ vec_at # "setup" /\ ~second /\ ecall_countdown < MaxCount
    /\ slept
    /\ second' = TRUE
    /\ UNCHANGED <<build, vec_at, ecall_countdown, vec_mie, slept, fall,
                   down, window>>

VecMain == VecSetup \/ Sleep \/ Test \/ Ecall
VecTrap == handle_timer \/ handle_button_0 \/ handle_button_1 \/ reserved

VecNext == VecMain \/ VecTrap \/ Button0 \/ Button1 \/ SecondPasses

VecSpec == VecInit /\ [][VecNext]_vec_vars

(***************************************************************************)
(* When the countdown is read from memory, an ECALL is only missed when    *)
(* the interrupt that counts to ten comes between main's test and its wfi; *)
(* buttons that wake main in between, or interrupts on the way from the    *)
(* test to the ECALL, do no harm.                                          *)
(***************************************************************************)
OnlyTheWindowLosesACall ==
    build = "volatile" /\ ecall_countdown > EcallAt => window

(***************************************************************************)
(* "Every 10 seconds, an ECALL is made": the count never goes past ten.    *)
(***************************************************************************)
EcallEveryTen == build = "volatile" => ecall_countdown <= EcallAt
=============================================================================
