---------------------------- MODULE MeasureFreq ----------------------------
(***************************************************************************)
(* The two functions that measure the CPU's frequency against mtime:       *)
(* measure_cpu_freq of hifive1/init.c, behind the cache of get_cpu_freq,   *)
(* and PRCI_measure_mcycle_freq of the clock driver.  mtime and mcycle are *)
(* read one after the other while both run and wrap, and an interrupt may  *)
(* come between any two reads, once.                                       *)
(***************************************************************************)
EXTENDS Integers

CONSTANTS
    MtimeWord,       \* 2^32
    McycleWord,      \* 2^32
    CyclesPerTick,   \* the frequency to find is CyclesPerTick * mtime_freq
    mtime_freq,
    MeasuredTicks,   \* 10 in get_cpu_freq, mtime_ticks of the driver
    Poll,            \* cycles from one read to the next
    Delay            \* cycles an interrupt takes, at most

ASSUME MeasureAssumption ==
    /\ {CyclesPerTick, mtime_freq, MeasuredTicks, Poll} \subseteq Nat \ {0}
    /\ Delay \in Nat
    /\ MtimeWord \in Nat /\ MtimeWord > MeasuredTicks + (Poll + Delay) \div CyclesPerTick + 2
    /\ McycleWord \in Nat /\ McycleWord > CyclesPerTick * (MeasuredTicks + 2) + Poll + Delay

(***************************************************************************)
(* The CPU is faster than the timer: between two edges it reads mtime at   *)
(* least twice. And the frequency, with the cycles an interrupt adds, is a *)
(* number of 32 bits.                                                      *)
(***************************************************************************)
ASSUME PollAssumption == Poll + Poll <= CyclesPerTick

ASSUME FreqAssumption ==
    /\ mtime_freq * (CyclesPerTick * MeasuredTicks + Poll + Delay) < McycleWord * MeasuredTicks
    /\ mtime_freq * (MeasuredTicks + (Poll + Delay) \div CyclesPerTick) <= McycleWord

VARIABLES
    mf_at,         \* the next read, or "idle"
    mf_fn,         \* "init.c" or "driver"
    mf_ticks,      \* n, mtime_ticks
    elapsed,       \* cycles since the call
    phase,         \* mtime at the call, counted in cycles
    mcycle0,       \* mcycle at the call
    interrupted,   \* whether the interrupt has come
    start_mtime, end_mtime, delta_mtime, start_mcycle,
    cpu_freq       \* the static of get_cpu_freq, or what the driver returns

mf_vars == <<mf_at, mf_fn, mf_ticks, elapsed, phase, mcycle0, interrupted,
             start_mtime, end_mtime, delta_mtime, start_mcycle, cpu_freq>>
mf_call == <<mf_fn, mf_ticks, phase, mcycle0>>

mtime  == ((phase + elapsed) \div CyclesPerTick) % MtimeWord
mcycle == (mcycle0 + elapsed) % McycleWord

(***************************************************************************)
(* The counters at a call: mtime anywhere, mcycle at 0 or about to wrap.   *)
(***************************************************************************)
MfInit ==
    /\ mf_fn \in {"init.c", "driver"}
    /\ mf_at = "first" /\ elapsed = 0 /\ interrupted = FALSE
    /\ mf_ticks = IF mf_fn = "driver" THEN MeasuredTicks ELSE 1
    /\ phase \in 0..(CyclesPerTick * MtimeWord - 1)
    /\ mcycle0 \in {0, McycleWord - CyclesPerTick - 1}
    /\ start_mtime = 0 /\ end_mtime = 0 /\ delta_mtime = 0 /\ start_mcycle = 0
    /\ cpu_freq = 0

(***************************************************************************)
(* From one read to the next, with the interrupt if it comes here.         *)
(***************************************************************************)
ToNextRead ==
    \/ elapsed' = elapsed + Poll /\ UNCHANGED interrupted
    \/ /\ ~interrupted /\ interrupted' = TRUE
       /\ \E d \in 1..Delay : elapsed' = elapsed + Poll + d

(***************************************************************************)
(* The edge of mtime both wait for; end_mtime is the driver's.             *)
(***************************************************************************)
FirstRead ==
    /\ mf_at = "first"
    /\ start_mtime' = mtime
    /\ LET end == (mtime + mf_ticks + 1) % MtimeWord
       IN  /\ end_mtime' = IF mf_fn = "driver" THEN end ELSE 0
           /\ mf_at' = IF mf_fn = "driver" /\ end < mtime THEN "first" ELSE "edge"
    /\ ToNextRead /\ UNCHANGED <<mf_call, delta_mtime, start_mcycle, cpu_freq>>

Edge ==
    /\ mf_at = "edge"
    /\ start_mtime' = mtime
    /\ mf_at' = IF mtime = start_mtime THEN "edge" ELSE "start"
    /\ ToNextRead /\ UNCHANGED <<mf_call, end_mtime, delta_mtime, start_mcycle, cpu_freq>>

StartCycles ==
    /\ mf_at = "start"
    /\ start_mcycle' = mcycle
    /\ mf_at' = "wait"
    /\ ToNextRead
    /\ UNCHANGED <<mf_call, start_mtime, end_mtime, delta_mtime, cpu_freq>>

WaitTicksPass ==
    /\ mf_at = "wait"
    /\ IF mf_fn = "driver"
       THEN /\ mf_at' = IF mtime < end_mtime THEN "wait" ELSE "end"
            /\ UNCHANGED delta_mtime
       ELSE /\ delta_mtime' = (mtime - start_mtime) % MtimeWord
            /\ mf_at' = IF delta_mtime' < mf_ticks THEN "wait" ELSE "end"
    /\ ToNextRead
    /\ UNCHANGED <<mf_call, start_mtime, end_mtime, start_mcycle, cpu_freq>>

(***************************************************************************)
(* The result.  init.c divides first, so that nothing overflows 32 bits;   *)
(* the driver multiplies in 64.                                            *)
(***************************************************************************)
\* Mistake: the product first.
FreqOverflowing(cycles, ticks) == ((cycles * mtime_freq) % McycleWord) \div ticks

Freq(cycles, ticks) ==
    LET whole == ((cycles \div ticks) * mtime_freq) % McycleWord
        part  == ((cycles % ticks) * mtime_freq) % McycleWord
    IN  (whole + (part \div ticks)) % McycleWord

DriverFreq(cycles) == ((cycles * mtime_freq) \div mf_ticks) % McycleWord

(***************************************************************************)
(* get_cpu_freq throws its first, short measurement away.                  *)
(***************************************************************************)
EndCycles ==
    /\ mf_at = "end"
    /\ LET cycles == (mcycle - start_mcycle) % McycleWord
       IN  cpu_freq' = IF mf_fn = "driver" THEN DriverFreq(cycles)
                      ELSE IF mf_ticks = MeasuredTicks THEN Freq(cycles, delta_mtime)
                      ELSE cpu_freq
    /\ mf_at' = IF mf_ticks = MeasuredTicks THEN "idle" ELSE "first"
    /\ mf_ticks' = MeasuredTicks
    /\ ToNextRead
    /\ UNCHANGED <<mf_fn, phase, mcycle0, start_mtime, end_mtime, delta_mtime,
                   start_mcycle>>

(***************************************************************************)
(* Later calls of get_cpu_freq return what the first has found.            *)
(***************************************************************************)
CachedFreq == mf_at = "idle" /\ UNCHANGED mf_vars

MfNext == FirstRead \/ Edge \/ StartCycles \/ WaitTicksPass \/ EndCycles \/ CachedFreq

(***************************************************************************)
(* The frequency found is off by no more cycles, over the whole            *)
(* measurement, than the interrupt took and one poll: neither a wrap of    *)
(* mtime nor one of mcycle nor the arithmetic shows.  The driver guards    *)
(* against a rollover of end_mtime only: where an interrupt can hide the   *)
(* last ticks before mtime wraps, it waits for mtime to come round again,  *)
(* and init.c does not.                                                    *)
(***************************************************************************)
CyclesLost == Poll - 1 + (IF interrupted THEN Delay ELSE 0)

WrapHidden ==
    mf_fn = "driver" /\ interrupted /\ end_mtime + (Poll + Delay) \div CyclesPerTick >= MtimeWord

MeasuredRight ==
    mf_at = "idle" /\ ~WrapHidden =>
        LET off == cpu_freq - CyclesPerTick * mtime_freq
        IN  (IF off < 0 THEN -off ELSE off) * MeasuredTicks
              <= CyclesLost * mtime_freq + MeasuredTicks
=============================================================================
