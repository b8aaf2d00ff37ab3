# Verification of the Freedom E SDK

TLA+ models of the parts of this repository that have logic of their own, checked
with TLC on small instances, with theorems that TLAPS proves for every value of the
constants. The repository is the board support package (`bsp/`) and the example
programs (`software/`) for SiFive's E31, E51 and FE310 chips. Nearly all of it is
code that shares something: harts that share memory, handlers that share registers
with the code they interrupt, a boot loader that shares one register with its own
next run, a driver that changes the clock it runs off.

Paths below are relative to the repository's root; `bsp/...` and `software/...`
are as in the source. `PROJECT.json` gives, for every definition, the lines it models.

## 1. The system

| Component | State | Operations | Interacts with | What is hard |
|---|---|---|---|---|
| Multi-hart start-up (`bsp/env/start.S`, `bsp/include/sifive/smp.h`) and terminal lock (`software/smp/smp.c`) | program counter of each hart, CLINT `msip` words, copied and cleared words, `tty_lock` | `smp_pause`, `smp_resume`, `.data` copy, `.bss` clear, `get_lock`, `put_lock`, two `write`s per line | every hart with every hart through `msip` and memory | interleaving; a lock word that is garbage until it is cleared; barrier without a counter |
| Heap (`bsp/libwrap/stdlib/malloc.c`) | free list ordered by size, block sizes, free bytes, colour counter, tag of every word | `malloc` (first use, failure, whole block, split), `free` | the programs; the tags constrain loads and stores of the processor | long histories, split limit, `size_t` overflow, stale tags |
| 64-bit counters (`get_timer_value` of the boards, `software/performance_counters`) | `mtime`, `mcycle`, `minstret` in two words | read high, low, high again | sleeps, measurements, baud rate | a carry between two reads |
| Watchdog demo (`software/watchdog`) | `mtime`, `mtimecmp`, `mie.MTIP`, output register, countdown, watchdog counter | main loop, timer handler, `mtime_wait` | main and handler share the output register, the timer and the countdown | load/store of main split by the handler; 64-bit load on RV32 |
| Double-tap boot loader (`software/double_tap_dontboot`) | `BACKUP15`, `PMUCAUSE`, GPIO registers | look, arm, wait, disarm, show, jump | its own earlier run, through a reset at any instruction; the user program | crash and restart between any two accesses |
| PLIC driver (`bsp/drivers/plic`) | enable bits, priorities, threshold | init, threshold, enable, disable, priority, claim, complete | the demos, the interrupt controller | garbage at reset, byte rounding, claim ignores the threshold |
| Global interrupts demo (`software/global_interrupts`) | handler table, PWM, debounce counter, mapping of priorities | set-up, switch, PWM and timer handlers | PLIC driver | debouncing by threshold and priority in two handlers |
| Clock driver (`bsp/drivers/fe300prci`) | HFROSC, PLL, selection, trim | `PRCI_use_hfrosc`, `_pll`, `_hfxosc`, `_default_clocks`, `PRCI_set_hfrosctrim_for_f_cpu`, `PRCI_measure_mcycle_freq` | the clock the CPU runs off while it executes the driver | ordering, waiting, a search with a special first and last step |
| Local interrupts demo (`software/local_interrupts`) | `g_debouncing`, `mie`, `mtimecmp`, `msip` | polling loop, button, timer and software handlers | main and handlers share the flag | test, act and clear of a flag that handlers set |
| Vectored interrupts demo (`software/vectored_interrupts`, `bsp/env/ventry.S`) | `ecall_countdown`, `mie`, GPIO edges | `wfi` loop, `ECALL`, timer and button handlers | main and handlers share the countdown | lost wake-up between test and `wfi`; a variable that is not volatile |
| GPIO demo (`software/demo_gpio`) | output register, rising edges, PLIC | bit-banging main, button and timer handlers | PLIC driver; edges arrive while handlers run | losing an edge; serving the second of two buttons |
| Terminal I/O (`bsp/libwrap/sys/{read,write,puts}.c`) | receive ring, UART FIFOs | `read`, `write`, `puts` | handlers that print | ring at its limit; test and store of the transmit register |
| LED colour loops (`software/led_fade`, `software/coreplexip_welcome`) | three counters | colour wheel; `led_fade` switches to the crystal itself | the clock it runs off | unsigned counters at zero; order of the switch |
| Board initialisation (`bsp/env/freedom-e300-hifive1/init.c`) | the clocks, `mtvec`, the cached `cpu_freq` | `_init`: default clocks, PLL, UART; `handle_trap`; `get_cpu_freq` | the clock driver's registers, every program built without `NO_INIT` | what the driver finds when the program calls it; measuring with two counters that wrap, through interrupts |
| Dhrystone (`software/dhrystone`) | globals, locals of `main`, two records that point to each other | eight procedures and three functions per run, the report of the final values | its own `printf` | aliases: one record under three names; each run starts from what the last left |
| Dhrystone's `printf` (`dhry_printf.c`) | what has been read of a directive: padding, width, precision | one `case` per character of the format | its callers' formats and arguments | state of one directive seen by the next; digits read before it is known what they are |
| CoreMark port, C library stubs, headers, build files | - | - | - | straight-line code, constants, third-party code |

What makes each component correct is stated in section 3 by the properties of its
run. What is exposed to which hazard, line by line, is in `PROJECT.json`.

## 2. The modules

```
SmpBarrier <- SmpBoot --implements--> StartGate        SmpBootProofs
Heap --implements--> Allocator                         HeapProofs <- ProofBase
Mtime <- TimerRead
Mtime <- Watchdog                                      WatchdogProofs
DoubleTap                                              DoubleTapProofs
Plic <- GlobalInterrupts                               GlobalInterruptsProofs
Plic <- DemoGpio
Plic <- PlicClient
Prci, TrimSearch <- ClockDriver                        ClockDriverProofs
LocalInterrupts, VectoredInterrupts, UartIo, Fade, MeasureFreq, Dhrystone, VPrintf
TimerRead, LocalInterrupts, VectoredInterrupts, DemoGpio, PlicClient, UartIo, Fade,
    MeasureFreq, Dhrystone, VPrintf <- Programs        ProgramsProofs <- ProofBase
```

In the first column an arrow `A <- B` says that B extends A; in the second stand the
modules with the theorems about what is left of them, and `P <- ProofBase` says
that P uses the lemmas of that module.

**SmpBarrier** models the macros `smp_pause` and `smp_resume`, one action per CLINT
access or branch: hart 0 kicks the slots one by one (`Kick`), a hart is woken by its
own slot (`Wake`), clears it (`Acknowledge`) and scans all slots (`Scan`). Slots
without a hart read as zero. `round` counts how often the pair is used; `Rounds`
bounds it. **SmpBoot** puts hart 0's copying and clearing between the two macros and
`secondary_main` after them. The content of RAM at reset is arbitrary within
`RamContent`, so the lock's word may look taken or free or neither until it is
cleared. `WriteText` and `WriteDigit` are the two `write` calls; nothing but the
lock keeps another hart from writing in between. **StartGate** is the abstract
specification: workers arrive at a gate, it opens when memory is ready and all have
arrived, then one at a time is inside.

**Heap** models `malloc.c` word by word of the heap. The list chained through the
blocks is a sequence of addresses; `InsertFree` is `prvInsertBlockIntoFreeList`,
`Found` the first-fit walk, `MallocWhole`, `MallocSplit` and `MallocFails` the paths
of `pvPortMalloc` with the tagging of `dover_tag`, `Free` is `pvPortFree` with
`dover_untag`. `prvHeapInit` is part of the first call, as in the code. Size
arithmetic is modulo `SizeMax + 1`: a request may wrap to nothing, which fails, or to a
block that is at least a header. One that wraps to fewer bytes is not modelled
(`HeaderAssumption`, section 3). **Allocator** is the abstract specification: a
set of disjoint regions.

**Mtime** is a counter of two words. Times are pairs and are compared word by word.
**TimerRead** is the loop high, low, high, with the counter ticking in between. The
same loop reads `mcycle` (`coreplexip-*/init.c`), `mtime` (`freedom-e300-*/init.c`)
and `minstret` (`performance_counters.c`). **Watchdog** is the demo with every shared
access of main an action, and the handler allowed in between; `LoadHalf` is one half
of a plain 64-bit load, in either order; a key press, time and the watchdog's reset
are the environment.

**DoubleTap** is the path of the boot loader's `main`, one action for each access of
a register that outlives a reset. `Tap` is the reset button, possible in every state,
up to `MaxTaps` times. `SleepAndWakeUp` and `UserWrites` are the user program, which
may write any value except the magic one. `asked` and `kept` are history variables:
whether the button was pressed in the window, and what the user left in `BACKUP15`.

**Plic** has one operation per driver function and the hardware's rule for pending,
claim and gateway. **GlobalInterrupts** is main's set-up and its three handlers, from
arbitrary enable bits, priorities and threshold. **DemoGpio** uses the same
controller for the buttons' edges: claim, light, clear, complete are separate
actions, because edges arrive in between. **PlicClient** is any program over the whole
driver: it enables, disables, sets priorities and thresholds, claims and completes in
any order, and may start again (`StartsAgain`) over registers and requests that it left
in the controller, with a claim that it never completed. `asked` and `wanted` are
history: what it has enabled and which priorities it has set since `PLIC_init`. The
enable bits are loaded and stored by bytes (`ByteOf`, `StoreByte`).

**Prci** has one action per register access or wait of the clock driver whose order
matters. A program calls its functions in any order with any arguments. `age` is the
time since the PLL was last disturbed, `phase` the part of an RTC tick that has
passed, so that a wait of four ticks is modelled with the fraction of the first tick
that is already over. **TrimSearch** is the search alone, over every monotone table of
frequencies. **ClockDriver** puts the two together: the search really calls
`PRCI_use_hfrosc` for each trim and `PRCI_use_pll` at the end. It has two more clients:
`_init` of the HiFive1, which sets the default clocks and then the PLL before the
program runs (its `use_hfrosc` and `use_pll` are older copies that do the same for the
arguments they get, so the model calls the driver's), and `led_fade`, built without
`_init`, which goes over to the crystal with four register writes and no wait.

**LocalInterrupts** interleaves main's test, raise and clear of the flag with the
handlers. **VectoredInterrupts** interleaves main's test, `wfi` and `ECALL` with the
handlers; `build` chooses between code that reads the countdown from memory and code
that keeps it in a register, which the declaration allows. A local interrupt that
reset left enabled, and that no handler serves, ends in the endless loop of
`ventry.S`.

**UartIo** is `read`, `write` and `puts` (through which `printf` writes, too) over the
FIFOs of the UART. Each test of the transmit FIFO and each store is an action; handlers
that print run in between, by the same loop. `uart_probe_rx` moves one character from the
receive FIFO to the ring. Received characters are numbered, number 0 is the terminator;
`expected` is the number the next character taken must have, `printed` says whether a
handler has printed since main's last test. **Fade** is the colour wheel: three `if`s,
each of which sees what the one before has done, on unsigned counters that wrap.

**MeasureFreq** is `measure_cpu_freq(n)`, called twice by `get_cpu_freq` (a short
measurement whose result is thrown away, then the real one, which is kept), and
`PRCI_measure_mcycle_freq` of the driver (`mf_fn` says which). One action per read of a
counter: `FirstRead`, `Edge`, `StartCycles`, `WaitTicksPass`, `EndCycles`. `elapsed`
counts cycles; `mtime` and `mcycle` are words computed from it, from any phase of the
timer. Between two reads pass `Poll` cycles, and once, anywhere, an interrupt of up to
`Delay` cycles. `Freq` is the division of `init.c:162-163` with its 32-bit products,
`DriverFreq` the driver's in 64 bits.

**Dhrystone** is `main` of `dhry_1.c`, an action for each group of statements between
two of its comments. The procedures are operators on the state of the program: one that
stores through a reference is the value it stores, one that changes globals or records
gives the state afterwards. The records are addressed by name (`Rec`), so that
`Ptr_Val_Par`, `Next_Record` and `Ptr_Glob` can be the same one. Locals and what `malloc`
returns are arbitrary at first, and the local of `Proc_2` that may be read uninitialised
is a choice. A string is one of the four the program has, in `strcmp`'s order. `report`
is the list of values printed and the list of what each "should be".

**VPrintf** is `vprintfmt` with `printnum` and `print_double`. The caller's format is one
directive of any form (flag, width, precision, either as `*`, `l`, any conversion, an
unknown letter) and a plain one after it. Each `case` of the switch is an action on the
rest of the format (`rest`), the arguments left (`ap`), `padc`, `width` and
`precision`. A character is a string of one letter. A double is a whole number of
`Unit`-ths, a power of two, with as many binary digits as `Significand` allows: each
multiplication of `print_double` is rounded to them, to even in the middle (`Rounded`), and
what is left of a unit is dropped, as the conversion to `unsigned long` does.
`Supported` names the directives for which the code means what C means, `InC` is what
the C standard says they print.

**Programs** is the board with one of ten uploaded: the reader of the time
(`TimerRead`), `local_interrupts`, `vectored_interrupts`, `demo_gpio`, any client of the
PLIC driver, a program that reads from and writes to the terminal, the colour wheel,
Dhrystone, a program that prints, and one that measures the frequency. A step is a step
of that program and the others' variables stand still.

Common to all: handlers do not nest (a trap clears MIE and no handler sets it); a
handler can run between any two steps of main; memory is sequentially consistent;
registers that the hardware does not reset are arbitrary at the start.

## 3. What is checked

Thousands to millions of states, each run well under five minutes (`programs` has
131 161, `heap` 4 399, `watchdog` two million). A type invariant is checked where
the run asks for nothing deeper (`smp_boot`, `double_tap`); the other modules state theirs
for the proofs, which rest on them.

| Run | Shows |
|---|---|
| `smp_boot` | Nobody runs C code on unprepared memory (`MemoryReadyBeforeMain`); `smp_resume` is a barrier (`NobodyLeavesEarly`); lines stay whole (`WholeLines`); start-up and lock implement `StartGate`, liveness included (`ImplementsGate`): every hart starts, and turns at the terminal keep coming. |
| `heap` | Blocks tile the heap, each with room for its link (`BlocksTile`); the list holds the free blocks, in order, once, and the byte count is right (`FreeListExact`); a block has room for its request and header (`RequestFits`); a word is tagged exactly while it is payload in use (`TagsFollowOwnership`); first fit is best fit and a refusal is justified (`BestFit`); live payloads never overlap (`ImplementsAllocator`). |
| `watchdog` | Through a carry of the low word of `mtime` the next interrupt is at most one value of the high word off, and before the carry at most a second (`NextInterruptOnTime`); the green LED is right though the handler rewrites the register (`GreenWhileFeeding`). |
| `double_tap` | Safe mode exactly when asked for (`SafeModeIffAsked`); the user's value survives (`UserKeepsItsValue`); GPIO as after a reset (`GPIOAsAtReset`); every boot ends (`EveryBootEnds`). |
| `global_interrupts` | Only the sources with handlers are enabled, from any garbage (`OnlyUsedEnabled`); no claim finds an empty slot of the table or nothing (`ClaimHasAHandler`); no switch is served while one is debounced, though a claim ignores the threshold (`NoSwitchWhileDebouncing`); debouncing ends (`DebounceEnds`). |
| `clock_driver` | For `_init`, `led_fade`, the search, and a program that calls the driver in any order: the oscillator in use is never off (`ClockNeverStops`); the PLL is settled when it is selected (`SettledWhenSelected`); every call returns (`CallsReturn`); the search measures the trim it has set and ends on the one it chose (`SearchUsesItsTrim`), which is the right one (`RightTrim`). |
| `programs` | `get_timer_value` returns a value the counter had during the call (`ReadsAreCurrent`); every press of `local_interrupts` gets its own announcement (`EveryPressAnnounced`) and debouncing ends (`LocalsComeBack`); an ECALL of `vectored_interrupts` is lost only through the window between test and `wfi` (`OnlyTheWindowLosesACall`); no edge of `demo_gpio` is cleared while its LED is dark (`ClearedWhenLit`), and presses are served unless buttons with a lower source keep being pressed (`PressesAreServed`); no store meets a full transmit FIFO unless a handler has printed since main's test (`StoresFit`); `read` delivers every character once and in order (`ReadsInOrder`); the colour wheel goes round (`WheelGoesRound`); a claim returns the highest source the program has enabled and given a priority since `PLIC_init`, and never one whose claim is not completed, whatever reset or an earlier start left in the registers (`ClaimsAsAsked`); every run of Dhrystone goes as its comments say and the report prints what it says the values should be (`RunsAsCommented`); each directive for which `vprintfmt` means what C means (`Supported`) prints what it prints in C, whatever the one before it left behind (`PrintsAsC`); the frequency found is off by no more than an interrupt and one poll, over wraps of either counter and with no overflow (`MeasuredRight`). |

### Where the code disagrees with what it says

| Run | Property | |
|---|---|---|
| `smp_reuse_alone` | `AloneMeansAlone` | `smp.h:27-32` offers the pair `smp_pause .. smp_resume` for temporary single-threading. In a second use nobody waits for the other harts to arrive: hart 0 works "alone" while others are still in multi-threaded work. |
| `heap_size_wrap` | `RequestFits` | `malloc.c:212-218` adds header and padding without a check for overflow. In the run `size_t` ends at 255 and a header has four bytes: 255 + 4 wraps to 3, rounded up to 4, so the request for 255 bytes gets a block that is all header, and the next block's link begins where the program's 255 bytes do. |
| `watchdog_blue` | `BlueBlinksWithHandler` | `watchdog.c:205, 214`: the handler's toggle of the blue LED between main's load and store is undone. |
| `prci_reference` | `PllUndisturbedInUse` | `fe300prci_driver.c:58`: the HFROSC's settings are written before the CPU leaves the PLL whose reference it is. |
| `vectored_ecall` | `EcallEveryTen` | `vectored_interrupts.c:262`: a button wakes main shortly before the tenth tick, the tick comes after the test and before the `wfi`; the count passes ten and no ECALL is ever made again (short of the 32-bit counter's wrap). |

Observed while reading, with no run of their own:

- `malloc.c:212-218, 251`: a request that wraps to fewer bytes than a header (SIZE_MAX-6, say) is
  worse than the one of `heap_size_wrap`. The link of the split's rest is laid over the link of the
  block: line 91 overwrites `pxBlock->xBlockSize` with a pointer, line 262 subtracts that from the
  free bytes, and line 269 has `dover_tag` clear memory far beyond the heap.
- `smp.h:58-62`: when the pair is used again at once, a hart that scans slowly can
  meet the next round's interrupts and wait for a slot whose hart waits for it.
- `watchdog.c:34`: the 64-bit read of `mtime` is two loads on RV32. The statement of
  `NextInterruptOnTime` therefore differs before and after the first carry (36 hours
  after reset at 32768 Hz).
- `global_interrupts.c:107, 118`: a switch's handler says that its switch must have the
  higher priority right now, also when the other switch was off and the mapping favours
  that one.
- `puts.c:15-16`, `write.c:18-19`: when a handler prints between main's test and its
  store, the FIFO may be full again and main's character is dropped. This is the
  exception `StoresFit` makes. (In `watchdog`, main prints at line 207 and the timer
  handler at line 79.)
- `read.c:60-64`: the count that `read` returns does not include the terminator, though
  the terminator is stored in the buffer.
- `global_interrupts.c:171-173`, `vectored_interrupts.c:236-238`: the loops that fill
  the handler table write the slot one past its end every time; the table stays empty
  where no handler is set afterwards. `ClaimHasAHandler` shows that this is not met.
- `fe300prci_driver.c:87`: `PRCI_use_hfxosc` ignores its `finaldiv` (the divider is always
  1, as the call bypasses the PLL), though `fe300prci_driver.h:29-32` says it is applied.
- `fe300prci_driver.c:130-134`: four ticks of the RTC are at least three whole
  ones, 92 us, not the 100 us of the comment. `Settle` is what three whole ticks cover.
- `fe300prci_driver.c:226`: when even the highest trim is too slow the search uses
  `prev_trim`, the trim before it, whatever the target.
- the comments at `demo_gpio.c:46, 178` say three seconds where the code sets two; `watchdog.c:144`
  says five seconds for a compare value with another duration.
- `fe300prci_driver.c:26` says of the loop at the start "Make sure we won't get rollover",
  and it compares `mtime` with the end unsigned. When an interrupt hides the last ticks
  before `mtime` wraps, the comparison is true again and the function waits for `mtime` to
  come round, 36 hours at 32768 Hz. `MeasuredRight` excepts this (`WrapHidden`);
  `measure_cpu_freq` compares a difference and does not have it.
- `plic_driver.c:21`: a claim that an earlier start left open keeps its source silent
  until a completion is written for it, which `PLIC_init` does not do. `ClaimsAsAsked`
  says that such a source is not delivered, not that it comes back.
- `dhry_1.c:317` says that the parameter of `Proc_2` becomes 4; it becomes 5, as the
  comment at line 181 says. `dhry_2.c:112` says that the first call of `Func_1` gets 'H' and
  'R'; it gets 'R' and 'Y'.
- `dhry_1.c:57` says that a measurement should last at least two seconds. It is taken from
  two readings of whole seconds (`dhry_stubs.c:8`), so one of little more than a second
  passes.
- `dhry_printf.c` differs from C, as its first lines announce: '-' pads a number on its left with
  '-' characters (line 120 says on the right); the sign of a negative number is not counted in its
  width; a precision neither pads a number nor limits it; "%.0s" reads the 0 as a flag and prints
  the whole string; '#' does nothing; "%f" ignores the width, prints no 0 before the point, and
  moves characters from before its buffer when there are fewer digits than the precision. It
  multiplies by ten in binary and truncates (`dhry_printf.c:75-79`), where C rounds the exact
  value: 1.13 is no binary fraction, and "%.2f" prints it as 1.12. `Supported` excludes all these.
  Of doubles it leaves those whose scaled value has no more binary digits than a significand, 53,
  and a fraction below a half; the first holds of every `float` that is printed with a few
  decimals, as a `float` has 24.
- `vectored_interrupts.c` only adds to `mie`, which is not reset, as
  `local_interrupts.c:175-178` says.

### Bounds, and why they are enough

- `smp_boot`: three harts, four slots (one without a hart, as in the code, where
  `MAX_HARTS` may exceed the chip), one word of data, two of bss with the lock the last
  one, RAM content 0, 1 or another value. Two workers are enough to race each other and
  hart 0; a third makes the scan overlap with a wake-up. `smp_reuse_alone` has two rounds.
- `heap`: 14 words of two bytes, three colours so that the colour counter wraps, and
  requests of zero, less than a word, a size that needs padding, and sizes at the limits
  of splitting and of the heap. The histories are unbounded. `heap_size_wrap` has, besides small
  ones, a request that wraps to nothing and one that wraps to a header.
- `watchdog`: a second of 2 ticks, words of 7 values, one value of the high word more
  than zero, so that a carry falls between any two loads. A countdown byte is 0..7.
- `double_tap`: four presses, two user values, a window of two ticks and a fade of two
  steps: two presses can fall in one boot, and two boots can follow each other.
- `global_interrupts`: two switches, the PWM, and source 8: the last one, and the
  first bit of the next byte of the enable registers. Two periods of debouncing.
- `clock_driver`: three trims and four frequencies (the first, a middle and the last
  trim are treated differently by the search), dividers 1 and 2, three parts of a tick.
- `programs`: words of three values; two local interrupts; ten counted as three; two buttons and a
  source without a handler. The terminal has FIFOs of two characters, a ring of four (a power of
  two, as `UART_RXBUF_SIZE`), texts and buffers of up to two characters, and characters numbered
  modulo five, which is more than can be on their way at once. The wheel starts with six, and its
  counters wrap at sixteen. The PLIC's sources are 1, 2 and 8, so that two share a byte of enable
  bits and the third has the last one. Dhrystone makes three runs: the first starts from arbitrary
  memory, the second and the third from what a run leaves, and the third cannot differ from a
  fourth, as the second leaves what it found but for the two counters. Directives have widths and
  precisions of one and two digits, on both sides of the length of what they print, and a small
  number and both ends of the signed range, of 16 bits for 32. Doubles are sixteenths with 15
  binary digits: 0.5, 1.0625, 1.5, 12.25, of which two decimals are exact or cut off, and 82.1875,
  whose product is rounded. The frequency is measured with a timer of 8 values, so that each phase
  and each wrap is met, a cycle counter that starts at zero or about to wrap and is too small for
  the undivided product, four cycles to a tick, four ticks, and an interrupt of up to five cycles.

### Assumptions on the constants, and why the code justifies them

Each constant's assumption stands by name in the module that declares it; TLC evaluates
them in every run, and the proofs cite them. Most say that a size is a number. The others:

| Assumption | Says | Why |
|---|---|---|
| `SettleAssumption` (`Prci`) | the PLL settles within three ticks of the RTC | The driver counts four edges, of which the first comes at once (`fe300prci_driver.c:130-134`). `PllSettled` rests on it. |
| `GlobalAssumption` | the switches and the PWM are three different sources, the last source is none of them, priorities go up to 5 | The board's numbers and the priorities that `global_interrupts.c` sets. |
| `WatchdogAssumption` | the countdown starts below the size of its type | `countdown` is 32 bits and starts at ten (`watchdog.c:65`). |
| `LocalsAssumption` | the buttons' interrupts are neither the timer's nor the software interrupt | Three different bits of `mie`. |
| `UartAssumption` | the ring has more than one place | In a ring of one, head and tail always agree and no character would ever be taken. |
| `PollAssumption` (`MeasureFreq`) | two reads of `mtime` in a row are at most half a tick apart | A handful of instructions against 488 cycles of a tick at 16 MHz. With longer polls TLC finds `MeasuredRight` violated. |
| `FreqAssumption` (`MeasureFreq`) | the result still has 32 bits, with the interrupt that may fall into it | `init.c:162` multiplies in 32 bits. TLC finds `MeasuredRight` violated without it: an interrupt that hides enough ticks makes the product wrap. At 32768 Hz that takes more than 131 000 ticks, four seconds. |
| `HeapSizeAssumption` | the heap is whole words and holds at least a header | `malloc.c` reserves kilobytes. |
| `HeaderAssumption` | no request wraps to fewer bytes than a header | It leaves out requests, fewer than eight of the 2^32, for which the code's blocks overlap and memory outside the heap is cleared (see above). What the heap's theorems say, they say of programs that make none of these. |
| `DoublesAssumption` | a double has no more digits than its significand | The representation. |
| `PrintfAssumption` | an `int` holds more than three values, and an even number of them | 32 bits. `%p` is given the third value from the top. |
| `ClientAssumption` | the driver's trims are the search's | Both are the five bits of the trim. |

One condition is no assumption of the model but a hypothesis of four theorems:
`RequestsKeptSmall`, that no request with its header exceeds `size_t`. The run
`heap_size_wrap` shows what happens without it. `HeapTiled` and `FreeListIsExact` do not
need it, but only the weaker `HeaderAssumption`: a request that wraps to a header or to nothing
leaves the heap in order, and it is the program's own stores that then go beyond its block.

### Fairness, and why the code justifies it

Weak fairness only. A hart keeps executing (`WF` of each hart's step, of main, of the driver's
steps, of the boot). An interrupt that stays pending and enabled is taken (`WF` of the handlers;
no priority among them is assumed beyond the controller's). A gateway forwards a line that stays
high. Time passes, and an oscillator that was started starts. Nothing is assumed of people: no
button, switch or key has to be pressed, and a boot may be reset at any time up to the bound.
Nothing is assumed of the interconnect between harts that spin on the lock: hence `StartGate`
promises that some hart's turn keeps coming, not each hart's. The loop of the colour wheel is
fair, as it waits only for the time to pass. `UartIo` claims nothing that needs fairness: a `read`
waits for a character as long as none is typed.

`LocalInterrupts` and `VectoredInterrupts` assume that half a second, or a second, is
longer than main's way round its loop when no handler is running.

## 4. What is proved

TLAPS checks these theorems for every value of the constants that the assumptions of
section 3 allow. TLC found each of them, and each inductive invariant named here, true on
an instance first. The theorems a run also checks have the property's name in brackets.

**SmpBootProofs** (any number of harts, slots and words): `BootTypeCorrect` [`BootTypeOK`],
`BarrierHolds` [`NobodyLeavesEarly`], `MemoryIsReady` [`MemoryReadyBeforeMain`],
`LockExcludes`, `LinesStayWhole` [`WholeLines`], and `BootImplementsGate`, the safety part of
the refinement to `StartGate`. `NobodyLeavesEarly` is not inductive: a hart that scans has
seen some slots clear, and a clear slot means "woken and acknowledged" only if its hart had
been kicked before. `BarrierInv` says so: a slot is set exactly from hart 0's store to the
hart's own (`PendingMeansKicked`), nobody goes on without a kick (`WokenMeansKicked`), and
what a scanning hart has behind it is awake (`ScannedMeansAwake`). `SetupInv` adds that C code
runs only behind the barrier, `LockInv` that the lock is set while it is held and that the
terminal shows an unfinished line exactly while its writer holds it.

**HeapProofs** (any heap, word, `size_t`, number of colours, and requests that wrap to nothing or
a header at least, if at all):

- `HeapTypes`, `HeapTiled` [`BlocksTile`] and `FreeListIsExact` [`FreeListExact`] from
  `HeapInvariant`, that the heap is sound (`Sound`) once it is initialised. Neither property is
  inductive alone: a split keeps the list exact because its rest is a new block, as the tiling
  says, and keeps the tiling because the list names no live block. That each block has room for
  its link (`Headers`) is where `HeaderAssumption` and the limit of splitting come in. Under it
  lie lemmas about the list (`Inserted`, `Removed`, `FoundFirst`: the insertion keeps it sorted, a
  removal takes one block, the walk stops at the first that is large enough) and about the sum of
  sizes, which the community modules compute by a fold (`SumWith`, `SumWithout`).
- `RequestsFit` [`RequestFits`], `TagsAreTheOwners` [`TagsFollowOwnership`], `ServesTheBest`
  [`BestFit`] and `MallocIsAnAllocator` [`ImplementsAllocator`], the refinement step by step,
  all under `RequestsKeptSmall`. `TagInvariant` says word by word whose colour a word has
  (`Tagged`); it needs `RequestFits`, since what `dover_tag` colours behind a header is the
  block's own only if the block is no smaller than a header.

**DoubleTapProofs** (any values, length of the window, number of taps): `SafeModeOnRequest`
[`SafeModeIffAsked`], `UserValueKept` [`UserKeepsItsValue`], `GPIORestored` [`GPIOAsAtReset`],
`DoubleTapTypes`. The invariant ties the register to the history: it holds the magic value
exactly when the safe mode was or may be asked for, and the user's value is in the register
or, while that is armed, in main's local. The one assumption about the user program is that
it does not write the magic value itself.

**ClockDriverProofs** (any trims, targets, dividers, parts of a tick, and any board whose
frequency does not decrease with the trim):

- `ClockTypes`, `ClockRuns` [`ClockNeverStops`] and `PllSettled` [`SettledWhenSelected`] from
  `ClockInvariant`: what the driver knows of the clocks at each place (`DriverKnows`), what
  `led_fade` knows in its own four writes (`FadeKnows`), and how long the PLL has been left
  alone after so many ticks counted (`Waited`), which is a whole tick less than it looks.
- `SearchIsRight` of the search alone, `SearchImplemented`, that the search that calls the
  driver for each trim implements it, `DriverSearchIsRight` [`RightTrim`] by that refinement,
  and `SearchMeasuresItsTrim` [`SearchUsesItsTrim`] from `SearchCalls`, how far the driver is
  with the search's last call. The search's invariant says that everything before the
  current trim is too slow, which is why the last two measurements decide.

**GlobalInterruptsProofs** (any sources with the two switches and the PWM among them, any
number of periods): `GlobalTypes`, `UsedEnabled` [`OnlyUsedEnabled`], `TrapHasAHandler`
[`ClaimHasAHandler`], `DebounceIsAlone` [`NoSwitchWhileDebouncing`]. `GlobalInvariant` adds how
far the set-up is (`SetUp`), that the PWM's priority stays ahead of the switches' and the
threshold between them (`PwmKeepsAhead`), and that the PWM asks only when its period is over
(`PwmRequests`). The three together give the reason for `NoSwitchWhileDebouncing`, which the
threshold alone does not: while a switch is debounced a trap is taken only for the PWM, and
then the claim, blind to the threshold, returns the PWM because its priority is highest.

**WatchdogProofs** (any words of the timer, second, flash, watchdog's time): `WatchdogTypes`,
`InterruptOnTime` [`NextInterruptOnTime`], `GreenIsMains` [`GreenWhileFeeding`].
`WatchdogInvariant` says which of `mtime_wait`'s callers main and the handler are in
(`Callers`), that the half of the time already read is not ahead of the register
(`HalvesAreOfThePast`), that the comparator is never too far ahead (`ComparatorInReach`), and
what main's copy of the output register has for green (`GreenInCopy`).

**ProgramsProofs** (`StepOfAProgram`: a step of the composition is a step or a stutter of each
of its programs, so that an invariant of one is an invariant of all):

- `ReadsCurrent` and `TimeForwards` of `get_timer_value` alone, `ProgramsReadCurrent`
  [`ReadsAreCurrent`] in the composition. The high word read is not newer than the register,
  and as long as the register has not moved past it, the low word read lies between the
  counter at the call and now.
- `CallsLostInTheWindow` [`OnlyTheWindowLosesACall`], any number of seconds to an ECALL: a
  countdown that is ten is seen by the next test unless it became ten in the window.
- `PressesAnnounced` [`EveryPressAnnounced`], any buttons: while a press is to be announced
  the locals are disabled and the half second is not over (`LocalInvariant`).
- `ClearsWhatIsLit` [`ClearedWhenLit`], any buttons.
- `CharactersFit` [`StoresFit`] and `ReadsDeliverInOrder` [`ReadsInOrder`], any ring and FIFO:
  the ring is empty but for the one character between probe and take, and the numbers in the
  FIFO run from the next one awaited to the next one to arrive (`ReadInvariantOfRx`).
- `ClaimsAnswerAsked` [`ClaimsAsAsked`], any sources and priorities: once the program has
  called `PLIC_init` the registers are what it asked for (`AsAsked`), as the clearing reaches
  the last byte and the store of a byte keeps its other bits; and the controller's winner
  exists and is before all others.
- `FrequencyFound` [`MeasuredRight`], any phase, wrap, poll and interrupt: at each read there
  are a tick (of a counter that would not wrap) and a time at which `mcycle` was read for which what the
  code holds is theirs, and the cycles between lie around the ticks by no more than was lost
  (`MfInvariant`). The arithmetic, differences of counters that wrap and the rounding of two
  divisions in words, is in `ProofBase`.
- `WheelKeepsItsLight` (`ColoursAddUp`, which holds by itself; that the wheel turns is
  liveness), any full strength that a counter can hold: what one of the three counters gives up
  the next one gets, none wraps, and one is dark.
- `PrintfPrintsAsC` [`PrintsAsC`], any widths, precisions, numbers, any size of an `int` and of a
  significand, and doubles from 1 on that are scaled exactly and need no rounding up.
  `PfInvariant` says that in the text a directive is untouched (`Fresh`), or being printed
  literally (`Literal`), or finished with no argument left (`Printed`); and that inside one, at
  each of its parts, what is left of the characters and of the arguments are those of the parts to
  come, and `padc`, `width` and `precision` are what the parts passed mean (`AtFlag` to
  `AtConversion`, `PadRead`, `WidthRead`, `PrecisionRead`): so nothing of the directive before is
  left. One character tells the part (`HeadsInDirective`). Below it, by induction on the number:
  `printnum`'s digits, found by dividing, are the numeral whose places are powers
  (`DigitsBackwards`), the loop over a width's digits adds up the number they were written for
  (`NumberAddsUp`), no multiplication of `print_double` is rounded as long as the last product
  fits the significand (`ProductExact`), and its point falls between the whole part and the digits
  of the fraction (`WholePart`).
- `DhrystoneAsCommented` [`RunsAsCommented`], any number of runs, any memory: what holds at each
  of main's places (`DhryInvariant`). A run sets its letters, arrays and records before it needs
  them (`RecordsChained` is `Proc_1` with its three names for two records), the second array
  counts the runs (`RunsCounted`), and what a run leaves (`RunsLeave`) is what the report shows.

**ProofBase** has the principles that stand for induction, which the provers cannot
instantiate: what does not hold of every natural number fails for a least one
(`LeastNatural`, and from it `StrongInduction` and `Induction`, with the numbers that have the
property as a set), and what does not hold of every subset of a finite set fails for a smallest
one (`SmallestSubset`). They are used for the sum over the free list, whose fold takes the
blocks in an order nobody knows, for the PLIC's winner, and for numerals. `Iterated` shows that
a step can be taken any number of times, that is, that a function defined by recursion over
Nat exists.

### Only model-checked

- All liveness, whose fairness needs `ENABLED`: `CallsReturn`, `DebounceEnds`, `LocalsComeBack`,
  `PressesAreServed`, `WheelGoesRound`, `EveryBootEnds`, and the part of `ImplementsGate` that
  is liveness.

Every safety property that a passing run checks is proved.

## 5. What is not modelled

Of Dhrystone, the time it takes and the speed computed from it in floating point; the CoreMark
port is a handful of definitions around a benchmark that is not in the tree. `get_cpu_freq` keeps
its value when the clocks change: the programs of the repository change them before the first call
or never make one, so nothing they do shows it. `read` and `write` answer an error for a
descriptor that is no terminal, and `uart_init` computes one divisor: straight-line code. So are
trap entry and exit (`entry.S`, `ventry.S`), which save and load a fixed list of registers with
interrupts off. Of `sprintf`, the buffer is the caller's and taken to be large enough. Weak memory
order, a clock that stops while the model's functions wait for it, allocation from several harts
or handlers, merging of free blocks (there is none) and the reuse of pointer colours after as many
allocations as there are colours are outside the models. So are requests that wrap to fewer bytes
than a header. `LocalInterrupts` reads `mtime` at once where `local_interrupts.c:145` makes two
loads, which a carry between them can tear once in 36 hours; `Watchdog` and `TimerRead` model the
loads. A lock signal that never comes would keep the loop at `fe300prci_driver.c:137` waiting for
ever: the model's always comes in the end (`LockIsSet`), so that of waits without an end
`CallsReturn` covers only those for an oscillator nobody turned on. C library stubs, vendored
headers and build files have no logic of the program's own.

## 6. Plan

Extend, if a program comes to need it: a change of clocks after the first `get_cpu_freq`, and
allocation from a handler.
