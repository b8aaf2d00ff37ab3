--------------------------- MODULE ProgramsProofs ---------------------------
(***************************************************************************)
(* The smaller programs are right for every value of their constants: the  *)
(* sizes of the FIFO and of the ring, the number of seconds to an ECALL,   *)
(* the sources and their priorities, the local interrupts, the width of    *)
(* the timer's words.                                                      *)
(***************************************************************************)
EXTENDS Programs, ProofBase

-----------------------------------------------------------------------------
(***************************************************************************)
(* get_timer_value, for every size of the words and every value of the     *)
(* counter: what it returns lies between the counter at its call and the   *)
(* counter at its return.                                                  *)
(***************************************************************************)

(***************************************************************************)
(* The inductive invariant.  Between the reads it says what is known of    *)
(* the locals: the high word read is not newer than the register, and, as  *)
(* long as the register has not moved past it, the low word read lies      *)
(* between the counter at the call and now.                                *)
(***************************************************************************)
HighIsOfTheCall == called[1] <= hi /\ hi <= high

LowIsOfTheCall == hi = high =>
    /\ called[1] = hi => called[2] <= lo
    /\ lo <= low

ReadInvariant ==
    /\ TypeOK
    /\ NoLater(called, Now)
    /\ NoLater(result, called)  \/ pc = "idle"
    /\ NoLater(result, Now)
    /\ pc \in {"low", "again"} => HighIsOfTheCall
    /\ pc = "again" => LowIsOfTheCall

(***************************************************************************)
(* The types hold in every reachable state.                                *)
(***************************************************************************)
THEOREM ReadTypes == Spec => []TypeOK
<1> USE CounterAssumption DEF TypeOK, Highs, Lows, Times, Now
<1>1. Init => TypeOK
  BY DEF Init, CounterInit
<1>2. TypeOK /\ [Next]_vars => TypeOK'
  <2> SUFFICES ASSUME TypeOK, [Next]_vars PROVE TypeOK'
    OBVIOUS
  <2>1. CASE Call
    BY <2>1 DEF Call
  <2>2. CASE ReadHigh
    BY <2>2 DEF ReadHigh
  <2>3. CASE ReadLow
    BY <2>3 DEF ReadLow
  <2>4. CASE Compare
    BY <2>4 DEF Compare
  <2>5. CASE Time
    BY <2>5 DEF Time, Tick, Increment, Carry
  <2>6. CASE UNCHANGED vars
    BY <2>6 DEF vars
  <2> QED
    BY <2>1, <2>2, <2>3, <2>4, <2>5, <2>6 DEF Next
<1> QED
  BY <1>1, <1>2, PTL DEF Spec

(***************************************************************************)
(* One step of the function, or one tick, keeps the invariant.             *)
(***************************************************************************)
LEMMA ReadInvariantInductive ==
    ReadInvariant /\ TypeOK' /\ [Next]_vars => ReadInvariant'
<1> USE CounterAssumption DEF Highs, Lows, Times, Now, NoLater
<1> SUFFICES ASSUME ReadInvariant, TypeOK', [Next]_vars
             PROVE  ReadInvariant'
  OBVIOUS
<1> USE DEF ReadInvariant, TypeOK, HighIsOfTheCall, LowIsOfTheCall
<1>1. CASE Call
  BY <1>1 DEF Call
<1>2. CASE ReadHigh
  BY <1>2 DEF ReadHigh
<1>3. CASE ReadLow
  BY <1>3 DEF ReadLow
<1>4. CASE Compare
  BY <1>4 DEF Compare
<1>5. CASE Time
  BY <1>5 DEF Time, Tick, Increment, Carry
<1>6. CASE UNCHANGED vars
  BY <1>6 DEF vars
<1> QED
  BY <1>1, <1>2, <1>3, <1>4, <1>5, <1>6 DEF Next

(***************************************************************************)
(* The invariant of the read holds in every reachable state.               *)
(***************************************************************************)
LEMMA ReadInvariantHolds == Spec => []ReadInvariant
<1>1. Init => ReadInvariant
  BY CounterAssumption
  DEF Init, CounterInit, ReadInvariant, TypeOK, Highs, Lows, Times, Now,
      NoLater, HighIsOfTheCall, LowIsOfTheCall
<1> QED
  BY <1>1, ReadTypes, ReadInvariantInductive, PTL DEF Spec

(***************************************************************************)
(* get_timer_value returns a value the counter had during the call.        *)
(***************************************************************************)
THEOREM ReadsCurrent == Spec => ReadsAreCurrent
<1>1. ReadInvariant /\ [Next]_vars => [WithinTheCall]_vars
  <2> SUFFICES ASSUME ReadInvariant, Next, Return
               PROVE  NoLater(called, result') /\ NoLater(result', Now)
    BY DEF WithinTheCall, Return, vars
  <2>1. Compare
    BY DEF Next, Return, Call, ReadHigh, ReadLow, Time
  <2>2. result' = <<hi, lo>> /\ hi = high
    BY <2>1 DEF Return, Compare
  <2> QED
    BY <2>2, CounterAssumption
    DEF Return, ReadInvariant, TypeOK, HighIsOfTheCall, LowIsOfTheCall,
        Highs, Lows, Times, Now, NoLater
<1> QED
  BY <1>1, ReadInvariantHolds, PTL DEF Spec, ReadsAreCurrent

(***************************************************************************)
(* Calls one after the other see time go forwards.                         *)
(***************************************************************************)
THEOREM TimeForwards == Spec => TimeNeverGoesBack
<1>1. ReadInvariant /\ [Next]_vars => [NoLater(result, result')]_vars
  <2> SUFFICES ASSUME ReadInvariant, Next
               PROVE  NoLater(result, result')
    OBVIOUS
  <2> USE CounterAssumption
      DEF ReadInvariant, TypeOK, Highs, Lows, Times, NoLater
  <2>1. CASE result' = result
    BY <2>1
  <2>2. CASE result' # result
    <3>1. Compare /\ Return
      BY <2>2 DEF Next, Call, ReadHigh, ReadLow, Compare, Time, Return
    <3>2. result' = <<hi, lo>> /\ hi = high /\ pc = "again"
      BY <3>1 DEF Return, Compare
    <3> QED
      BY <3>2 DEF HighIsOfTheCall, LowIsOfTheCall, Now
  <2> QED
    BY <2>1, <2>2
<1> QED
  BY <1>1, ReadInvariantHolds, PTL DEF Spec, TimeNeverGoesBack

-----------------------------------------------------------------------------

(***************************************************************************)
(* A step of the board is a step of each program, or leaves its variables  *)
(* alone.                                                                  *)
(***************************************************************************)
LEMMA StepOfAProgram ==
    [ProgramsNext]_all_vars =>
        /\ [Next]_vars /\ [LocalNext]_local_vars /\ [VecNext]_vec_vars
        /\ [DemoNext]_gpio_vars /\ [UartNext]_io_vars /\ [MfNext]_mf_vars
        /\ [DhryNext]_dhry_vars /\ [PfNext]_pf_vars
<1> USE DEF Timer, Local, Vectored, Demo, Client, Terminal, Wheel, Benchmark,
            Printing, Measuring
<1> SUFFICES ASSUME ProgramsNext
             PROVE  /\ [Next]_vars /\ [LocalNext]_local_vars
                    /\ [VecNext]_vec_vars /\ [DemoNext]_gpio_vars
                    /\ [UartNext]_io_vars /\ [MfNext]_mf_vars
                    /\ [DhryNext]_dhry_vars /\ [PfNext]_pf_vars
  BY DEF all_vars
<1> QED
  BY DEF ProgramsNext

(***************************************************************************)
(* The board's timer is the one that is proved about above,                *)
(* whichever program runs: get_timer_value returns a value the counter had *)
(* during the call.                                                        *)
(***************************************************************************)
THEOREM ProgramsReadCurrent == ProgramsSpec => ReadsAreCurrent
<1>1. ProgramsInit => Init
  BY CounterAssumption
  DEF ProgramsInit, NoTimerRead, Init, CounterInit, Highs, Lows, Now
<1>2. ProgramsSpec => Spec
  BY <1>1, StepOfAProgram, PTL DEF ProgramsSpec, Spec
<1> QED
  BY <1>2, ReadsCurrent

(***************************************************************************)
(* vectored_interrupts.  When the count has come to ten in time, the timer *)
(* is not due again before main has looked: it has not slept since.        *)
(***************************************************************************)
VecTypeOK ==
    /\ vec_at \in {"setup", "wfi", "asleep", "test", "ecall", "stuck"}
    /\ ecall_countdown \in Nat

TenIsSeen ==
    build = "volatile" /\ ecall_countdown = EcallAt /\ ~window =>
        ~second /\ ~slept /\ vec_at \in {"test", "ecall", "stuck"}

VecInvariant == VecTypeOK /\ OnlyTheWindowLosesACall /\ TenIsSeen

(***************************************************************************)
(* The invariant of the vectored demo holds, whichever program runs.       *)
(***************************************************************************)
LEMMA VecInvariantHolds == ProgramsSpec => []VecInvariant
<1> USE VectoredAssumption
    DEF VecInvariant, VecTypeOK, OnlyTheWindowLosesACall, TenIsSeen
<1>1. ProgramsInit => VecInvariant
  <2> SUFFICES ASSUME ProgramsInit PROVE VecInvariant
    OBVIOUS
  <2>1. ecall_countdown = 0 /\ ~second /\ ~slept /\ ~window
    BY DEF ProgramsInit, VecInit, NoVectored
  <2>2. VecTypeOK
    BY DEF ProgramsInit, VecInit, NoVectored
  <2> QED
    BY <2>1, <2>2
<1>2. VecInvariant /\ [VecNext]_vec_vars => VecInvariant'
  <2> SUFFICES ASSUME VecInvariant, [VecNext]_vec_vars
               PROVE  VecInvariant'
    OBVIOUS
  <2>1. CASE VecSetup
    BY <2>1 DEF VecSetup
  <2>2. CASE Sleep
    BY <2>2 DEF Sleep
  <2>3. CASE Test
    BY <2>3 DEF Test, Seen
  <2>4. CASE Ecall
    <3>1. ecall_countdown' = 0 /\ ~window' /\ second' = second /\ slept' = slept
      BY <2>4 DEF Ecall
    <3> QED
      BY <3>1, <2>4 DEF Ecall
  <2>5. CASE handle_timer
    <3>1. /\ second /\ ecall_countdown' = ecall_countdown + 1 /\ build' = build
          /\ ~second' /\ ~slept'
          /\ vec_at' = IF vec_at = "asleep" THEN "test" ELSE vec_at
      BY <2>5 DEF handle_timer, Interrupted
    <3>2. window' <=> window \/ (ecall_countdown' = EcallAt /\ vec_at = "wfi")
      BY <2>5 DEF handle_timer
    <3>3. vec_at \in {"wfi", "asleep", "test", "ecall"}
      BY <2>5 DEF handle_timer, Interrupted
    <3>4. VecTypeOK'
      BY <3>1, <3>3
    <3> QED
      BY <3>1, <3>2, <3>3, <3>4
  <2>6. CASE handle_button_0 \/ handle_button_1
    BY <2>6 DEF handle_button_0, handle_button_1, Interrupted
  <2>7. CASE reserved
    BY <2>7 DEF reserved
  <2>8. CASE Button0 \/ Button1
    BY <2>8 DEF Button0, Button1
  <2>9. CASE SecondPasses
    BY <2>9 DEF SecondPasses
  <2>10. CASE UNCHANGED vec_vars
    BY <2>10 DEF vec_vars
  <2> QED
    BY <2>1, <2>2, <2>3, <2>4, <2>5, <2>6, <2>7, <2>8, <2>9, <2>10
    DEF VecNext, VecMain, VecTrap
<1> QED
  BY <1>1, <1>2, StepOfAProgram, PTL DEF ProgramsSpec

(***************************************************************************)
(* An ECALL is only missed when the interrupt that counts to ten comes     *)
(* between main's test and its wfi.                                        *)
(***************************************************************************)
THEOREM CallsLostInTheWindow == ProgramsSpec => []OnlyTheWindowLosesACall
<1>1. VecInvariant => OnlyTheWindowLosesACall
  BY DEF VecInvariant
<1> QED
  BY <1>1, VecInvariantHolds, PTL

(***************************************************************************)
(* local_interrupts.  As long as a press is not announced, the locals are  *)
(* disabled and half a second has not passed.                              *)
(***************************************************************************)
Unannounced == g_debouncing \/ msip

LocalInvariant ==
    /\ g_debouncing \in BOOLEAN /\ msip \in BOOLEAN
    /\ local_at = "setup" => ~Unannounced
    /\ local_at \in {"raise", "clear"} => g_debouncing
    /\ Unannounced => Locals \cap local_mie = {} /\ debounce_timer = "ahead"

(***************************************************************************)
(* The invariant of the local interrupts demo holds, whichever program     *)
(* runs.                                                                   *)
(***************************************************************************)
LEMMA LocalInvariantHolds == ProgramsSpec => []LocalInvariant
<1> USE LocalsAssumption DEF LocalInvariant, Unannounced, Taken
<1>1. ProgramsInit => LocalInvariant
  BY DEF ProgramsInit, LocalInit, NoLocal
<1>2. LocalInvariant /\ [LocalNext]_local_vars => LocalInvariant'
  <2> SUFFICES ASSUME LocalInvariant, [LocalNext]_local_vars
               PROVE  LocalInvariant'
    OBVIOUS
  <2>1. CASE LocalSetup
    BY <2>1 DEF LocalSetup
  <2>2. CASE TestFlag \/ RaiseSoft \/ ClearFlag
    BY <2>2 DEF TestFlag, RaiseSoft, ClearFlag
  <2>3. ASSUME NEW l \in Locals, button_isr(l) PROVE LocalInvariant'
    BY <2>3 DEF button_isr
  <2>4. CASE msi_isr
    <3>1. ~msip' /\ msip' \in BOOLEAN /\ g_debouncing' = g_debouncing
      BY <2>4 DEF msi_isr
    <3> QED
      BY <2>4, <3>1 DEF msi_isr
  <2>5. CASE mti_isr
    BY <2>5 DEF mti_isr
  <2>6. CASE HalfASecondPasses
    BY <2>6 DEF HalfASecondPasses
  <2>7. ASSUME NEW l \in Locals, PressOrRelease(l) PROVE LocalInvariant'
    BY <2>7 DEF PressOrRelease
  <2>8. CASE UNCHANGED local_vars
    BY <2>8 DEF local_vars
  <2> QED
    BY <2>1, <2>2, <2>3, <2>4, <2>5, <2>6, <2>7, <2>8
    DEF LocalNext, LocalMain, LocalTrap
<1> QED
  BY <1>1, <1>2, StepOfAProgram, PTL DEF ProgramsSpec

(***************************************************************************)
(* Every press that is taken has a message of its own: its handler finds   *)
(* no earlier press that main has still to announce.                       *)
(***************************************************************************)
THEOREM PressesAnnounced == ProgramsSpec => EveryPressAnnounced
<1>1. LocalInvariant =>
          [\A l \in Locals : button_isr(l) => ~g_debouncing /\ ~msip]_local_vars
  BY DEF LocalInvariant, Unannounced, button_isr, Taken
<1> QED
  BY <1>1, LocalInvariantHolds, PTL DEF EveryPressAnnounced

(***************************************************************************)
(* demo_gpio.  When a handler comes to clear its edge, its LED is on: only *)
(* main and the timer put LEDs out, and neither runs during a handler.     *)
(***************************************************************************)
LitAtClear == demo_at = "clear" => int_num \in output_val

(***************************************************************************)
(* The invariant of the GPIO demo holds, whichever program runs.           *)
(***************************************************************************)
LEMMA LitAtClearHolds == ProgramsSpec => []LitAtClear
<1> USE DEF LitAtClear
<1>1. ProgramsInit => LitAtClear
  BY DEF ProgramsInit, DemoInit, NoDemo
<1>2. LitAtClear /\ [DemoNext]_gpio_vars => LitAtClear'
  <2> SUFFICES ASSUME LitAtClear, [DemoNext]_gpio_vars
               PROVE  LitAtClear'
    OBVIOUS
  <2>1. CASE DemoSetup
    BY <2>1 DEF DemoSetup, InitDemo, EnableButtons, PrioritiseButtons
  <2>2. CASE DemoHandler
    BY <2>2 DEF DemoHandler, ClaimButton, Light, ClearEdge, CompleteButton
  <2>3. CASE BitBang \/ InvertLEDs
    BY <2>3 DEF BitBang, InvertLEDs
  <2>4. CASE PressButton \/ ForwardOther \/ TwoSecondsPass
    BY <2>4 DEF PressButton, ForwardOther, TwoSecondsPass, gpio_vars
  <2>5. CASE \E button \in Buttons : ForwardEdge(button)
    BY <2>5 DEF ForwardEdge, gpio_vars
  <2>6. CASE UNCHANGED gpio_vars
    BY <2>6 DEF gpio_vars
  <2> QED
    BY <2>1, <2>2, <2>3, <2>4, <2>5, <2>6 DEF DemoNext
<1> QED
  BY <1>1, <1>2, StepOfAProgram, PTL DEF ProgramsSpec

(***************************************************************************)
(* No press of a button is forgotten: an edge is only cleared when the LED *)
(* of its button is on.                                                    *)
(***************************************************************************)
THEOREM ClearsWhatIsLit == ProgramsSpec => ClearedWhenLit
<1>1. LitAtClear /\ [DemoNext]_gpio_vars =>
          [rise \ rise' \subseteq output_val]_demo_vars
  <2> SUFFICES ASSUME LitAtClear, [DemoNext]_gpio_vars
               PROVE  rise \ rise' \subseteq output_val
    OBVIOUS
  <2>1. CASE ClearEdge
    BY <2>1 DEF ClearEdge, LitAtClear
  <2>2. CASE PressButton
    BY <2>2 DEF PressButton
  <2>3. CASE DemoSetup
    <3>1. CASE InitDemo
      BY <3>1 DEF InitDemo
    <3>2. CASE EnableButtons
      BY <3>2 DEF EnableButtons
    <3>3. CASE PrioritiseButtons
      BY <3>3 DEF PrioritiseButtons
    <3> QED
      BY <2>3, <3>1, <3>2, <3>3 DEF DemoSetup
  <2>4. rise' = rise \/ ClearEdge \/ PressButton \/ DemoSetup
    BY DEF DemoNext, DemoHandler, ClaimButton, Light, CompleteButton, BitBang,
           InvertLEDs, ForwardEdge, ForwardOther, TwoSecondsPass, gpio_vars
  <2> QED
    BY <2>1, <2>2, <2>3, <2>4
<1> QED
  BY <1>1, LitAtClearHolds, StepOfAProgram, PTL
  DEF ProgramsSpec, ClearedWhenLit

(***************************************************************************)
(* The UART.  A character fits between a poll and the store that follows.  *)
(***************************************************************************)
StoresInvariant == tx \in 0..Depth /\ StoresFit

(***************************************************************************)
(* The invariant of the ring buffer holds, whichever program runs.         *)
(***************************************************************************)
LEMMA StoresInvariantHolds == ProgramsSpec => []StoresInvariant
<1> USE UartAssumption
    DEF StoresInvariant, StoresFit, At_io, StoreChar, NextChar, tx_vars
<1>1. ProgramsInit => StoresInvariant
  BY DEF ProgramsInit, UartInit, NoUart
<1>2. StoresInvariant /\ [UartNext]_io_vars => StoresInvariant'
  <2> SUFFICES ASSUME StoresInvariant, [UartNext]_io_vars
               PROVE  StoresInvariant'
    OBVIOUS
  <2>1. CASE CallWrite \/ PollFifo \/ PollAgain
    BY <2>1 DEF CallWrite, PollFifo, PollAgain
  <2>2. CASE Store \/ StoreNewline \/ StoreReturn
    BY <2>2 DEF Store, StoreNewline, StoreReturn
  <2>3. CASE UartRead
    BY <2>3 DEF UartRead, CallRead, Probe, Take
  <2>4. CASE TrapAndPrint \/ IsrPoll
    BY <2>4 DEF TrapAndPrint, IsrPoll
  <2>5. CASE IsrStore
    BY <2>5 DEF IsrStore
  <2>6. CASE Send \/ Receive
    BY <2>6 DEF Send, Receive
  <2>7. CASE UNCHANGED io_vars
    BY <2>7 DEF io_vars
  <2> QED
    BY <2>1, <2>2, <2>3, <2>4, <2>5, <2>6, <2>7 DEF UartNext, UartWrite, UartIsr
<1> QED
  BY <1>1, <1>2, StepOfAProgram, PTL DEF ProgramsSpec

(***************************************************************************)
(* No store meets a full FIFO unless a handler printed after main's poll.  *)
(***************************************************************************)
THEOREM CharactersFit == ProgramsSpec => []StoresFit
<1>1. StoresInvariant => StoresFit
  BY DEF StoresInvariant
<1> QED
  BY <1>1, StoresInvariantHolds, PTL

(***************************************************************************)
(* read.  The ring is empty, but holds one character between the probe     *)
(* that filled it and the take that empties it; the numbers in the FIFO    *)
(* run from the next one read awaits to the next one that arrives.         *)
(***************************************************************************)
Following(n) == (n + 1) % Numbers

FirstInFifo == IF io_at = "take" THEN Following(expected) ELSE expected

RxTypeOK ==
    /\ rx \in Seq(Nat) /\ arriving \in Nat /\ expected \in Nat
    /\ rxbuf \in [Ring -> Nat]
    /\ rxbuf_head \in Ring /\ rxbuf_tail \in Ring

RingHoldsOne ==
    IF io_at = "take" THEN /\ rxbuf_head = (rxbuf_tail + 1) % RingSize
                           /\ rxbuf[rxbuf_tail] = expected
                      ELSE rxbuf_head = rxbuf_tail

FifoInOrder ==
    IF rx = <<>> THEN arriving = FirstInFifo
    ELSE /\ rx[1] = FirstInFifo /\ arriving = Following(rx[Len(rx)])
         /\ \A i \in 1..(Len(rx) - 1) : rx[i + 1] = Following(rx[i])

ReadInvariantOfRx == RxTypeOK /\ RingHoldsOne /\ FifoInOrder

(***************************************************************************)
(* The ring's indices and the numbers go round.                            *)
(***************************************************************************)
LEMMA GoesRound ==
    /\ \A n \in Nat : Following(n) \in Nat
    /\ 0 \in Ring /\ \A i \in Ring : (i + 1) % RingSize \in Ring
    /\ \A i \in Ring : (i + 1) % RingSize # i
  BY UartAssumption DEF Ring, Following

(***************************************************************************)
(* The length of a FIFO that is empty.                                     *)
(***************************************************************************)
LEMMA EmptyHasNone == Len(<<>>) = 0
  OBVIOUS

(***************************************************************************)
(* A probe takes the first of the FIFO, an arrival adds a last one.        *)
(***************************************************************************)
LEMMA FifoTaken ==
    ASSUME RxTypeOK, FifoInOrder, rx # <<>>, io_at # "take", NEW tail,
           tail = Tail(rx)
    PROVE  /\ tail \in Seq(Nat) /\ Head(rx) = expected
           /\ IF tail = <<>> THEN arriving = Following(expected)
              ELSE /\ tail[1] = Following(expected)
                   /\ arriving = Following(tail[Len(tail)])
                   /\ \A i \in 1..(Len(tail) - 1) :
                          tail[i + 1] = Following(tail[i])
<1>1. rx \in Seq(Nat) /\ Len(rx) \in Nat /\ Len(rx) >= 1
  BY DEF RxTypeOK
<1>2. /\ tail \in Seq(Nat) /\ Len(tail) = Len(rx) - 1
      /\ \A i \in 1..Len(tail) : tail[i] = rx[i + 1]
  BY <1>1
<1>3. /\ rx[1] = expected /\ arriving = Following(rx[Len(rx)])
      /\ \A i \in 1..(Len(rx) - 1) : rx[i + 1] = Following(rx[i])
  BY DEF FifoInOrder, FirstInFifo
<1>4. Head(rx) = rx[1]
  BY <1>1
<1>5. CASE Len(rx) = 1
  BY <1>1, <1>2, <1>3, <1>4, <1>5
<1>6. CASE Len(rx) # 1
  <2>1. Len(tail) >= 1 /\ 1 \in 1..Len(tail) /\ Len(tail) \in 1..Len(tail)
    <3> HIDE DEF RxTypeOK, FifoInOrder
    <3> QED
      BY <1>1, <1>2, <1>6
  <2>2. tail[1] = Following(expected)
    BY <1>1, <1>2, <1>3, <2>1
  <2>3. arriving = Following(tail[Len(tail)])
    BY <1>1, <1>2, <1>3, <2>1
  <2>4. \A i \in 1..(Len(tail) - 1) : tail[i + 1] = Following(tail[i])
    BY <1>1, <1>2, <1>3
  <2>5. tail # <<>>
    <3>1. Len(tail) # 0
      BY <2>1
    <3> QED
      BY <3>1, EmptyHasNone, Zenon
  <2> QED
    BY <1>2, <1>3, <1>4, <2>2, <2>3, <2>4, <2>5
<1> QED
  BY <1>1, <1>5, <1>6

(***************************************************************************)
(* The character that arrives goes behind those in the FIFO, and their     *)
(* numbers stay in order.                                                  *)
(***************************************************************************)
LEMMA FifoGrows ==
    ASSUME RxTypeOK, FifoInOrder, NEW more, more = Append(rx, arriving)
    PROVE  /\ more \in Seq(Nat) /\ more # <<>>
           /\ more[1] = FirstInFifo /\ more[Len(more)] = arriving
           /\ \A i \in 1..(Len(more) - 1) : more[i + 1] = Following(more[i])
<1>1. rx \in Seq(Nat) /\ Len(rx) \in Nat /\ arriving \in Nat
  BY DEF RxTypeOK
<1>2. /\ more \in Seq(Nat) /\ Len(more) = Len(rx) + 1
      /\ more[Len(rx) + 1] = arriving
      /\ \A i \in 1..Len(rx) : more[i] = rx[i]
  BY <1>1
<1>3. more # <<>>
  BY <1>1, <1>2
<1>4. CASE rx = <<>>
  BY <1>1, <1>2, <1>3, <1>4 DEF FifoInOrder
<1>5. CASE rx # <<>>
  <2>1. /\ rx[1] = FirstInFifo /\ arriving = Following(rx[Len(rx)])
        /\ \A i \in 1..(Len(rx) - 1) : rx[i + 1] = Following(rx[i])
    BY <1>5 DEF FifoInOrder
  <2>2. Len(rx) >= 1
    BY <1>1, <1>5
  <2>3. more[1] = FirstInFifo /\ more[Len(more)] = arriving
    BY <1>1, <1>2, <2>1, <2>2
  <2>4. ASSUME NEW i \in 1..(Len(more) - 1)
        PROVE  more[i + 1] = Following(more[i])
    <3>1. CASE i = Len(rx)
      BY <1>1, <1>2, <2>1, <2>2, <3>1
    <3>2. CASE i # Len(rx)
      BY <1>1, <1>2, <2>1, <2>2, <3>2
    <3> QED
      BY <3>1, <3>2
  <2> QED
    BY <1>2, <1>3, <2>3, <2>4
<1> QED
  BY <1>4, <1>5

(***************************************************************************)
(* The steps that receive and read keep the order; the others do not touch *)
(* what it depends on.                                                     *)
(***************************************************************************)
LEMMA ReadKeepsOrder ==
    ReadInvariantOfRx /\ (Probe \/ Take \/ Receive) => ReadInvariantOfRx'
<1> SUFFICES ASSUME ReadInvariantOfRx, Probe \/ Take \/ Receive
             PROVE  ReadInvariantOfRx'
  OBVIOUS
<1> USE DEF ReadInvariantOfRx, At_io
<1>1. CASE Probe /\ rx = <<>>
  <2>1. UNCHANGED rx_vars /\ io_at # "take" /\ io_at' # "take"
    BY <1>1 DEF Probe, uart_probe_rx, RingHoldsOne, rx_vars
  <2> QED
    BY <2>1 DEF RxTypeOK, RingHoldsOne, FifoInOrder, FirstInFifo, rx_vars
<1>2. CASE Probe /\ rx # <<>>
  <2>1. /\ io_at # "take" /\ rxbuf_head = rxbuf_tail
        /\ rx' = Tail(rx) /\ rxbuf' = [rxbuf EXCEPT ![rxbuf_head] = Head(rx)]
        /\ rxbuf_head' = (rxbuf_head + 1) % RingSize
        /\ UNCHANGED <<arriving, rxbuf_tail, expected>>
        /\ io_at' = IF rxbuf_head' = rxbuf_tail THEN "probe" ELSE "take"
    BY <1>2 DEF Probe, uart_probe_rx, RingHoldsOne
  <2>2. /\ rx' \in Seq(Nat) /\ Head(rx) = expected
        /\ IF rx' = <<>> THEN arriving = Following(expected)
           ELSE /\ rx'[1] = Following(expected)
                /\ arriving = Following(rx'[Len(rx')])
                /\ \A i \in 1..(Len(rx') - 1) : rx'[i + 1] = Following(rx'[i])
    BY <1>2, <2>1, FifoTaken
  <2>3. rxbuf_tail \in Ring /\ rxbuf_head' \in Ring /\ rxbuf_head' # rxbuf_tail
    BY <2>1, GoesRound DEF RxTypeOK
  <2>4. io_at' = "take"
    BY <2>1, <2>3
  <2>5. rxbuf' \in [Ring -> Nat] /\ rxbuf'[rxbuf_tail] = expected
    BY <2>1, <2>2, <2>3 DEF RxTypeOK
  <2>6. RxTypeOK'
    BY <2>1, <2>2, <2>3, <2>5 DEF RxTypeOK
  <2>7. RingHoldsOne'
    BY <2>1, <2>4, <2>5 DEF RingHoldsOne
  <2>8. FifoInOrder'
    BY <2>1, <2>2, <2>4 DEF FifoInOrder, FirstInFifo
  <2> QED
    BY <2>6, <2>7, <2>8
<1>3. CASE Take
  <2>1. /\ io_at = "take" /\ io_at' \in {"idle", "probe"}
        /\ rxbuf_tail' = (rxbuf_tail + 1) % RingSize
        /\ expected' = Following(expected)
        /\ UNCHANGED <<rx, arriving, rxbuf, rxbuf_head>>
    BY <1>3 DEF Take, Following
  <2>2. RxTypeOK'
    BY <2>1, GoesRound DEF RxTypeOK
  <2>3. RingHoldsOne'
    BY <2>1 DEF RingHoldsOne
  <2>4. FifoInOrder'
    BY <2>1 DEF FifoInOrder, FirstInFifo
  <2> QED
    BY <2>2, <2>3, <2>4
<1>4. CASE Receive
  <2>1. /\ rx' = Append(rx, arriving) /\ arriving' = Following(arriving)
        /\ UNCHANGED <<io_at, rxbuf, rxbuf_head, rxbuf_tail, expected>>
    BY <1>4 DEF Receive, Following
  <2>2. /\ rx' \in Seq(Nat) /\ rx' # <<>>
        /\ rx'[1] = FirstInFifo /\ rx'[Len(rx')] = arriving
        /\ \A i \in 1..(Len(rx') - 1) : rx'[i + 1] = Following(rx'[i])
    BY <2>1, FifoGrows
  <2>3. RxTypeOK'
    BY <2>1, <2>2, GoesRound DEF RxTypeOK
  <2>4. RingHoldsOne'
    BY <2>1 DEF RingHoldsOne
  <2>5. FifoInOrder'
    BY <2>1, <2>2 DEF FifoInOrder, FirstInFifo
  <2> QED
    BY <2>3, <2>4, <2>5
<1> QED
  BY <1>1, <1>2, <1>3, <1>4

(***************************************************************************)
(* Characters go from the wire to the FIFO and to the reader in the order  *)
(* in which they were sent.                                                *)
(***************************************************************************)
LEMMA OrderKept == ProgramsSpec => []ReadInvariantOfRx
<1>1. ProgramsInit => ReadInvariantOfRx
  BY GoesRound
  DEF ProgramsInit, UartInit, NoUart, ReadInvariantOfRx, RxTypeOK,
      RingHoldsOne, FifoInOrder, FirstInFifo
<1>2. ReadInvariantOfRx /\ [UartNext]_io_vars => ReadInvariantOfRx'
  <2> SUFFICES ASSUME ReadInvariantOfRx, [UartNext]_io_vars
               PROVE  ReadInvariantOfRx'
    OBVIOUS
  <2>1. CASE Probe \/ Take \/ Receive
    BY <2>1, ReadKeepsOrder
  <2>2. CASE UNCHANGED rx_vars /\ (io_at = "take" <=> io_at' = "take")
    BY <2>2
    DEF ReadInvariantOfRx, RxTypeOK, RingHoldsOne, FifoInOrder, FirstInFifo,
        rx_vars
  <2>3. \/ Probe \/ Take \/ Receive
        \/ UNCHANGED rx_vars /\ (io_at = "take" <=> io_at' = "take")
    BY DEF UartNext, UartWrite, UartRead, UartIsr, CallWrite, PollFifo, Store,
           StoreNewline, PollAgain, StoreReturn, CallRead, TrapAndPrint,
           IsrPoll, IsrStore, Send, NextChar, At_io, io_vars
  <2> QED
    BY <2>1, <2>2, <2>3
<1> QED
  BY <1>1, <1>2, StepOfAProgram, PTL DEF ProgramsSpec

(***************************************************************************)
(* read delivers what the FIFO accepted, each character once and in order. *)
(***************************************************************************)
THEOREM ReadsDeliverInOrder == ProgramsSpec => []ReadsInOrder
<1>1. ReadInvariantOfRx => ReadsInOrder
  BY DEF ReadInvariantOfRx, RingHoldsOne, ReadsInOrder
<1> QED
  BY <1>1, OrderKept, PTL

(***************************************************************************)
(* The controller.  Of the sources that are pending and enabled, and have  *)
(* a priority, one comes before all others, and a claim returns it.        *)
(***************************************************************************)
LEMMA WinnerIsFirst ==
    ASSUME PlicTypeOK, Candidates # {}
    PROVE  Winner \in Candidates /\ \A t \in Candidates : Beats(Winner, t)
<1> DEFINE Below(s) == MaxPriority - priority[s]
<1>1. Candidates \subseteq Nat /\ \A s \in Candidates : Below(s) \in Nat
  <2>1. \A s \in Sources : s \in Nat /\ priority[s] \in 0..MaxPriority
    BY PlicAssumption DEF PlicTypeOK
  <2>2. Candidates \subseteq Sources
    BY DEF PlicTypeOK, Candidates
  <2> QED
    BY <2>1, <2>2, PlicAssumption
<1>2. PICK d \in {Below(s) : s \in Candidates} :
          \A m \in {Below(s) : s \in Candidates} : d <= m
  <2>1. {Below(s) : s \in Candidates} \in SUBSET Nat
    BY <1>1
  <2>2. {Below(s) : s \in Candidates} # {}
    OBVIOUS
  <2> QED
    BY <2>1, <2>2, LeastNatural
<1>3. PICK w \in {s \in Candidates : Below(s) = d} :
          \A m \in {s \in Candidates : Below(s) = d} : w <= m
  <2>1. {s \in Candidates : Below(s) = d} \in SUBSET Nat
    BY <1>1
  <2>2. {s \in Candidates : Below(s) = d} # {}
    BY <1>2
  <2> QED
    BY <2>1, <2>2, LeastNatural
<1>4. \A t \in Candidates : Beats(w, t)
  <2> SUFFICES ASSUME NEW t \in Candidates PROVE Beats(w, t)
    OBVIOUS
  <2>1. Below(w) = d /\ d <= Below(t)
    BY <1>2, <1>3
  <2>2. priority[w] \in Int /\ priority[t] \in Int
    BY <1>3 DEF PlicTypeOK, Candidates
  <2>3. CASE priority[w] > priority[t]
    BY <2>3 DEF Beats
  <2>4. CASE priority[w] <= priority[t]
    <3>1. priority[w] = priority[t] /\ Below(t) = d
      BY <2>1, <2>2, <2>4, PlicAssumption
    <3> QED
      BY <1>3, <3>1 DEF Beats
  <2> QED
    BY <2>2, <2>3, <2>4
<1> QED
  BY <1>3, <1>4 DEF Winner

(***************************************************************************)
(* The client's registers are what it asked for, whatever reset or an      *)
(* earlier start of the program has left.                                  *)
(***************************************************************************)
AsAsked ==
    /\ client_at \in {"reset", "ready"}
    /\ client_at = "reset" => asked = {} /\ wanted = NoPriorities
    /\ client_at = "ready" =>
          program = "plic" /\ enabled = asked /\ priority = wanted

Requests == PlicTypeOK /\ pending \cap inService = {}

ClientInvariant == AsAsked /\ (program = "plic" => Requests)

(***************************************************************************)
(* PLIC_init reaches the byte of every source, the highest included; to    *)
(* enable or disable one of a byte changes none of the others.             *)
(***************************************************************************)
LEMMA InitClearsAll ==
    PLIC_init => enabled' \cap Sources = {} /\ priority' = NoPriorities
<1>1. \A s \in Sources : ~(s \div 8 >= BytesOf(NumSources))
  BY PlicAssumption DEF BytesOf
<1>2. \A s \in Sources : s <= NumSources
  BY PlicAssumption
<1>3. PLIC_init => enabled' \cap Sources = {}
  BY <1>1 DEF PLIC_init
<1>4. PLIC_init => priority' = NoPriorities
  BY <1>2 DEF PLIC_init, NoPriorities
<1> QED
  BY <1>3, <1>4

(***************************************************************************)
(* The PLIC driver reads a byte of the enable word, changes one bit and    *)
(* stores it: only the source itself is enabled or disabled.               *)
(***************************************************************************)
LEMMA OneBitChanges ==
    ASSUME NEW s
    PROVE  /\ PLIC_enable_interrupt(s) => enabled' = enabled \cup {s}
           /\ PLIC_disable_interrupt(s) => enabled' = enabled \ {s}
  BY DEF PLIC_enable_interrupt, PLIC_disable_interrupt, StoreByte, ByteOf

(***************************************************************************)
(* Every step of the client and of the controller keeps its invariant.     *)
(***************************************************************************)
LEMMA ClientKeeps ==
    ClientInvariant /\ program = "plic" /\ program' = "plic" /\ ClientNext =>
        ClientInvariant'
<1> SUFFICES ASSUME ClientInvariant, program = "plic", program' = "plic",
                    ClientNext
             PROVE  ClientInvariant'
  OBVIOUS
<1> USE DEF ClientInvariant, AsAsked, Requests
<1>0. /\ enabled \subseteq Sources /\ priority \in [Sources -> 0..MaxPriority]
      /\ threshold \in 0..MaxPriority
      /\ pending \subseteq Sources /\ inService \subseteq Sources
  BY DEF PlicTypeOK
<1>1. CASE ClientStarts
  <2>1. enabled' = {} /\ priority' = NoPriorities
    BY <1>0, <1>1, InitClearsAll DEF ClientStarts, PLIC_init
  <2>2. NoPriorities \in [Sources -> 0..MaxPriority] /\ 0 \in 0..MaxPriority
    BY PlicAssumption DEF NoPriorities
  <2> QED
    BY <1>0, <1>1, <2>1, <2>2
    DEF ClientStarts, PLIC_init, PlicTypeOK, requests
<1>2. CASE StartsAgain
  BY <1>2 DEF StartsAgain, plicVars, PlicTypeOK
<1>3. CASE ClientSetsThreshold
  <2>1. threshold' \in 0..MaxPriority
    BY <1>3, PlicAssumption DEF ClientSetsThreshold, PLIC_set_threshold
  <2> QED
    BY <1>0, <1>3, <2>1
    DEF ClientSetsThreshold, PLIC_set_threshold, PlicTypeOK, requests
<1>4. CASE ClientClaims
  <2>1. Winner = NoSource \/ Winner \in pending
    BY WinnerIsFirst DEF Winner, Candidates
  <2> QED
    BY <1>0, <1>4, <2>1
    DEF ClientClaims, PLIC_claim_interrupt, PlicTypeOK, registers
<1>5. CASE ClientCompletes
  BY <1>0, <1>5
  DEF ClientCompletes, PLIC_complete_interrupt, PlicTypeOK, registers
<1>6. ASSUME NEW s \in Sources, ClientEnables(s) \/ ClientDisables(s)
      PROVE  ClientInvariant'
  <2>1. /\ UNCHANGED <<priority, threshold, pending, inService>>
        /\ UNCHANGED <<client_at, wanted>> /\ client_at = "ready"
    BY <1>6 DEF ClientEnables, ClientDisables, PLIC_enable_interrupt,
                PLIC_disable_interrupt, StoreByte, requests
  <2>2. enabled' = asked' /\ enabled' \subseteq Sources
    BY <1>0, <1>6, OneBitChanges DEF ClientEnables, ClientDisables
  <2> QED
    BY <1>0, <2>1, <2>2 DEF PlicTypeOK
<1>7. ASSUME NEW s \in Sources, ClientSetsPriority(s) PROVE ClientInvariant'
  <2>1. PICK p \in 0..MaxPriority :
            /\ PLIC_set_priorities([t \in {s} |-> p])
            /\ wanted' = [wanted EXCEPT ![s] = p]
    BY <1>7 DEF ClientSetsPriority
  <2>2. /\ UNCHANGED <<enabled, threshold, pending, inService>>
        /\ UNCHANGED <<client_at, asked>> /\ client_at = "ready"
    BY <1>7, <2>1 DEF ClientSetsPriority, PLIC_set_priorities, requests
  <2>3. priority' = [priority EXCEPT ![s] = p]
    BY <1>0, <2>1 DEF PLIC_set_priorities
  <2>4. priority' \in [Sources -> 0..MaxPriority] /\ priority' = wanted'
    BY <1>0, <2>1, <2>2, <2>3
  <2> QED
    BY <1>0, <2>2, <2>4 DEF PlicTypeOK
<1>8. ASSUME NEW s \in Sources, LineIsHigh(s) PROVE ClientInvariant'
  BY <1>0, <1>8 DEF LineIsHigh, Forward, PlicTypeOK, registers, own_vars
<1> QED
  BY <1>1, <1>2, <1>3, <1>4, <1>5, <1>6, <1>7, <1>8 DEF ClientNext

(***************************************************************************)
(* The invariant of the client holds, whichever program runs.              *)
(***************************************************************************)
LEMMA ClientInvariantHolds == ProgramsSpec => []ClientInvariant
<1>1. ProgramsInit => ClientInvariant
  <2> SUFFICES ASSUME ProgramsInit PROVE ClientInvariant
    OBVIOUS
  <2>1. AsAsked
    BY DEF AsAsked, ProgramsInit, ClientInit, NoClient
  <2>2. ASSUME program = "plic" PROVE Requests
    <3>1. PlicInit
      BY <2>2 DEF ProgramsInit
    <3>2. {0, MaxPriority} \subseteq 0..MaxPriority
      BY PlicAssumption
    <3>3. priority \in [Sources -> 0..MaxPriority]
      BY <3>1, <3>2 DEF PlicInit
    <3> QED
      BY <3>1, <3>2, <3>3 DEF PlicInit, Requests, PlicTypeOK
  <2> QED
    BY <2>1, <2>2 DEF ClientInvariant
<1>2. ClientInvariant /\ [ProgramsNext]_all_vars => ClientInvariant'
  <2> SUFFICES ASSUME ClientInvariant, [ProgramsNext]_all_vars
               PROVE  ClientInvariant'
    OBVIOUS
  <2>1. CASE Client(ClientNext)
    BY <2>1, ClientKeeps DEF Client
  <2>2. CASE UNCHANGED <<program, own_vars, plicVars>>
    BY <2>2
    DEF ClientInvariant, AsAsked, Requests, PlicTypeOK, own_vars, plicVars
  <2>3. CASE program # "plic" /\ UNCHANGED <<program, own_vars>>
    BY <2>3 DEF ClientInvariant, AsAsked, own_vars
  <2>4. \/ Client(ClientNext) \/ UNCHANGED <<program, own_vars, plicVars>>
        \/ program # "plic" /\ UNCHANGED <<program, own_vars>>
    BY DEF ProgramsNext, all_vars, Timer, Local, Vectored, Demo, Terminal,
           Wheel, Benchmark, Printing, Measuring
  <2> QED
    BY <2>1, <2>2, <2>3, <2>4
<1> QED
  BY <1>1, <1>2, PTL DEF ProgramsSpec

(***************************************************************************)
(* A claim returns what the program asked for: of the pending sources it   *)
(* enabled and gave a priority the one with the highest, never one that is *)
(* in service, and nothing only if there is none.                          *)
(***************************************************************************)
THEOREM ClaimsAnswerAsked == ProgramsSpec => ClaimsAsAsked
<1>1. ClientInvariant =>
          [ClientClaims =>
             IF Deliverable = {} THEN got' = NoSource
             ELSE /\ got' \in Deliverable \ inService
                  /\ \A s \in Deliverable :
                        wanted[s] <= wanted[got']]_client_vars
  <2> SUFFICES ASSUME ClientInvariant, ClientClaims
               PROVE  IF Deliverable = {} THEN got' = NoSource
                      ELSE /\ got' \in Deliverable \ inService
                           /\ \A s \in Deliverable : wanted[s] <= wanted[got']
    OBVIOUS
  <2>1. client_at = "ready" /\ got' = Winner
    BY DEF ClientClaims
  <2>2. Requests /\ enabled = asked /\ priority = wanted
    BY <2>1 DEF ClientInvariant, AsAsked
  <2>3. Deliverable = Candidates
    BY <2>2 DEF Deliverable, Candidates
  <2>4. CASE Candidates = {}
    BY <2>1, <2>3, <2>4 DEF Winner
  <2>5. CASE Candidates # {}
    <3>1. Winner \in Candidates /\ \A t \in Candidates : Beats(Winner, t)
      BY <2>2, <2>5, WinnerIsFirst DEF Requests
    <3>2. \A s \in Candidates : priority[s] \in Int /\ s \notin inService
      BY <2>2 DEF Requests, PlicTypeOK, Candidates
    <3>3. \A t \in Candidates : priority[t] <= priority[Winner]
      BY <3>1, <3>2 DEF Beats
    <3> QED
      BY <2>1, <2>2, <2>3, <2>5, <3>1, <3>2, <3>3
  <2> QED
    BY <2>4, <2>5
<1> QED
  BY <1>1, ClientInvariantHolds, PTL DEF ClaimsAsAsked

-----------------------------------------------------------------------------
(***************************************************************************)
(* measure_cpu_freq and the driver's measurement. If mtime did not wrap it *)
(* would be Ticks now, and it would become k when its phase and the cycles *)
(* elapsed make EdgeOf(k).                                                 *)
(***************************************************************************)
EdgeOf(k) == CyclesPerTick * k

Ticks == (phase + elapsed) \div CyclesPerTick

Extra == IF interrupted THEN Delay ELSE 0

TicksMissed == (Poll + Delay) \div CyclesPerTick

MfTypeOK ==
    /\ mf_at \in {"first", "edge", "start", "wait", "end", "idle"}
    /\ mf_fn \in {"init.c", "driver"}
    /\ mf_ticks \in {1, MeasuredTicks}
    /\ mf_fn = "driver" => mf_ticks = MeasuredTicks
    /\ {elapsed, phase, mcycle0} \subseteq Nat /\ interrupted \in BOOLEAN
    /\ {start_mtime, end_mtime, delta_mtime, start_mcycle, cpu_freq} \subseteq Nat
    /\ mf_at = "end" /\ mf_fn = "init.c" => delta_mtime > 0

(***************************************************************************)
(* Before the edge: the last mtime read was t. The driver measures up to a *)
(* tick that is reached without a wrap.                                    *)
(***************************************************************************)
LastRead(t) ==
    /\ start_mtime = t % MtimeWord
    /\ mf_fn = "driver" =>
          end_mtime = start_mtime + mf_ticks + 1 /\ end_mtime < MtimeWord
    /\ EdgeOf(t) + Poll <= phase + elapsed
    /\ phase + elapsed < EdgeOf(t + 1) + Poll + Extra

(***************************************************************************)
(* Behind the edge, where the mtime that is measured from is t.            *)
(***************************************************************************)
Counts(t) ==
    IF mf_fn = "driver"
    THEN /\ end_mtime > mf_ticks /\ end_mtime < MtimeWord
         /\ (t + mf_ticks) - end_mtime \in Nat
         /\ ((t + mf_ticks) - end_mtime) % MtimeWord = 0
    ELSE start_mtime = t % MtimeWord

OffTheEdge(t, time) ==
    /\ EdgeOf(t) + Poll <= phase + time
    /\ phase + time < EdgeOf(t) + Poll + Poll + Extra

(***************************************************************************)
(* mcycle was read at the time s.                                          *)
(***************************************************************************)
StartedAt(s) == s <= elapsed /\ start_mcycle = (mcycle0 + s) % McycleWord

NotPast(t) == phase + elapsed < EdgeOf(t + mf_ticks) + Poll + Extra

(***************************************************************************)
(* The cycles from s until now belong to the ticks measured, but for what  *)
(* is lost.                                                                *)
(***************************************************************************)
Measured == IF mf_fn = "driver" THEN mf_ticks ELSE delta_mtime

Counted(s) ==
    /\ Measured \in mf_ticks .. mf_ticks + TicksMissed
    /\ EdgeOf(Measured) - CyclesLost <= elapsed - s
    /\ elapsed - s <= EdgeOf(mf_ticks) + CyclesLost

MfInvariant ==
    /\ MfTypeOK
    /\ mf_at = "edge" => \E t \in Nat : LastRead(t)
    /\ mf_at = "start" =>
          \E t, s \in Nat : Counts(t) /\ OffTheEdge(t, s) /\ s = elapsed
    /\ mf_at = "wait" /\ ~WrapHidden =>
          \E t, s \in Nat : /\ Counts(t) /\ OffTheEdge(t, s)
                            /\ StartedAt(s) /\ NotPast(t)
    /\ mf_at = "end" /\ ~WrapHidden => \E s \in Nat : StartedAt(s) /\ Counted(s)
    /\ MeasuredRight

(***************************************************************************)
(* The edges are numbers of cycles.                                        *)
(***************************************************************************)
LEMMA EdgeIsNat == \A k \in Nat : EdgeOf(k) \in Nat
  BY MeasureAssumption DEF EdgeOf

(***************************************************************************)
(* So many ticks later there have been so many more cycles.                *)
(***************************************************************************)
LEMMA EdgesLater ==
    ASSUME NEW j \in Nat, NEW k \in Nat
    PROVE  EdgeOf(j + k) = EdgeOf(j) + EdgeOf(k)
  BY MeasureAssumption DEF EdgeOf

(***************************************************************************)
(* The next edge is a tick of cycles later.                                *)
(***************************************************************************)
LEMMA NextEdge ==
    ASSUME NEW j \in Nat
    PROVE  EdgeOf(j + 1) = EdgeOf(j) + CyclesPerTick
  BY MeasureAssumption DEF EdgeOf

(***************************************************************************)
(* Later edges come later.                                                 *)
(***************************************************************************)
LEMMA EdgesInOrder ==
    ASSUME NEW j \in Nat, NEW k \in Nat, j <= k
    PROVE  EdgeOf(j) <= EdgeOf(k)
  BY MeasureAssumption, TimesMore DEF EdgeOf

(***************************************************************************)
(* mtime's last edge is not in the future, its next one is.                *)
(***************************************************************************)
LEMMA EdgeNow ==
    ASSUME MfTypeOK
    PROVE  /\ Ticks \in Nat /\ mtime = Ticks % MtimeWord
           /\ EdgeOf(Ticks) <= phase + elapsed
           /\ phase + elapsed < EdgeOf(Ticks + 1)
<1>1. CyclesPerTick \in Nat \ {0} /\ phase + elapsed \in Nat
  BY MeasureAssumption DEF MfTypeOK
<1>2. /\ Ticks \in Nat
      /\ CyclesPerTick * Ticks <= phase + elapsed
      /\ phase + elapsed < CyclesPerTick * Ticks + CyclesPerTick
  BY <1>1, Divided DEF Ticks
<1>3. EdgeOf(Ticks + 1) = EdgeOf(Ticks) + CyclesPerTick
  BY <1>2, NextEdge
<1> QED
  BY <1>2, <1>3 DEF EdgeOf, mtime, Ticks

(***************************************************************************)
(* Between two reads pass no more ticks than TicksMissed and the one that  *)
(* has begun, too few for mtime to come round.                             *)
(***************************************************************************)
LEMMA Missed ==
    /\ TicksMissed \in Nat
    /\ MtimeWord \in Nat /\ MtimeWord > MeasuredTicks + TicksMissed + 2
    /\ \A t, m \in Nat :
          EdgeOf(m) < EdgeOf(t) + Poll + Delay => m - t <= TicksMissed
<1>1. /\ CyclesPerTick \in Nat \ {0} /\ Poll + Delay \in Nat
      /\ Poll \in Nat /\ Delay \in Nat
  BY MeasureAssumption
<1>2. TicksMissed \in Nat
  BY <1>1 DEF TicksMissed
<1>3. ASSUME NEW t \in Nat, NEW m \in Nat, EdgeOf(m) < EdgeOf(t) + Poll + Delay
      PROVE  m - t <= TicksMissed
  <2>1. CyclesPerTick * (m - t) = EdgeOf(m) - EdgeOf(t)
    BY <1>1 DEF EdgeOf
  <2>2. EdgeOf(m) \in Nat /\ EdgeOf(t) \in Nat
    BY EdgeIsNat
  <2>3. CyclesPerTick * (m - t) <= Poll + Delay
    BY <1>1, <1>3, <2>1, <2>2
  <2>4. m - t \in Int
    OBVIOUS
  <2> HIDE DEF TicksMissed
  <2> QED
    BY <1>1, <2>3, <2>4, QuotientLeast DEF TicksMissed
<1> QED
  BY <1>2, <1>3, MeasureAssumption DEF TicksMissed

(***************************************************************************)
(* The time to the next read, and what the interrupt has taken so far.     *)
(***************************************************************************)
LEMMA NextRead ==
    ASSUME MfTypeOK, ToNextRead
    PROVE  /\ elapsed' \in Nat /\ interrupted' \in BOOLEAN
           /\ (interrupted => interrupted')
           /\ Extra \in 0..Delay /\ Extra' \in 0..Delay /\ Extra <= Extra'
           /\ elapsed + Poll <= elapsed'
           /\ elapsed' <= elapsed + Poll + (Extra' - Extra)
<1>1. /\ Poll \in Nat \ {0} /\ Delay \in Nat /\ elapsed \in Nat
      /\ interrupted \in BOOLEAN
  BY MeasureAssumption DEF MfTypeOK
<1>2. CASE elapsed' = elapsed + Poll /\ UNCHANGED interrupted
  BY <1>1, <1>2 DEF Extra
<1>3. CASE ~interrupted /\ interrupted' = TRUE
           /\ \E d \in 1..Delay : elapsed' = elapsed + Poll + d
  <2>1. PICK d \in 1..Delay : elapsed' = elapsed + Poll + d
    BY <1>3
  <2>2. Extra = 0 /\ Extra' = Delay
    BY <1>3 DEF Extra
  <2> QED
    BY <1>1, <1>3, <2>1, <2>2
<1> QED
  BY <1>2, <1>3 DEF ToNextRead

(***************************************************************************)
(* Every read keeps the types. The results are quotients: init.c divides by *)
(* the ticks it has counted, of which there is one at least.               *)
(***************************************************************************)
LEMMA MfTypesKept ==
    ASSUME MfTypeOK, [MfNext]_mf_vars
    PROVE  MfTypeOK'
<1> USE DEF mf_call
<1>1. CASE UNCHANGED mf_vars
  BY <1>1 DEF mf_vars, MfTypeOK
<1>2. CASE CachedFreq
  BY <1>2 DEF CachedFreq, mf_vars, MfTypeOK
<1> SUFFICES ASSUME FirstRead \/ Edge \/ StartCycles \/ WaitTicksPass \/ EndCycles
             PROVE  MfTypeOK'
  BY <1>1, <1>2 DEF MfNext
<1>3. /\ MtimeWord \in Nat \ {0} /\ McycleWord \in Nat \ {0}
      /\ MeasuredTicks \in Nat \ {0}
      /\ CyclesPerTick \in Nat \ {0} /\ mtime_freq \in Nat \ {0}
  BY MeasureAssumption, Missed
<1>4. elapsed' \in Nat /\ interrupted' \in BOOLEAN
  <2>1. ToNextRead
    BY DEF FirstRead, Edge, StartCycles, WaitTicksPass, EndCycles
  <2> QED
    BY <2>1, NextRead
<1>5. \A n \in Int : n % MtimeWord \in Nat /\ n % McycleWord \in Nat
  BY <1>3
<1>6. mtime \in Nat /\ mcycle \in Nat
  <2>1. mtime = Ticks % MtimeWord /\ Ticks \in Nat
    BY EdgeNow
  <2>2. mcycle0 + elapsed \in Nat
    BY DEF MfTypeOK
  <2> QED
    BY <1>5, <2>1, <2>2 DEF mcycle
<1> HIDE DEF mtime, mcycle
<1>7. CASE FirstRead
  <2>1. (mtime + mf_ticks + 1) % MtimeWord \in Nat
    BY <1>3, <1>5, <1>6 DEF MfTypeOK
  <2> QED
    BY <1>4, <1>6, <1>7, <2>1 DEF FirstRead, MfTypeOK
<1>8. CASE Edge
  BY <1>4, <1>6, <1>8 DEF Edge, MfTypeOK
<1>9. CASE StartCycles
  BY <1>4, <1>6, <1>9 DEF StartCycles, MfTypeOK
<1>10. CASE WaitTicksPass
  <2>1. (mtime - start_mtime) % MtimeWord \in Nat
    BY <1>5, <1>6 DEF MfTypeOK
  <2>2. delta_mtime' \in Nat
    BY <1>10, <2>1 DEF WaitTicksPass, MfTypeOK
  <2>3. mf_at' \in {"wait", "end"}
    BY <1>10 DEF WaitTicksPass
  <2>4. mf_at' = "end" /\ mf_fn = "init.c" => delta_mtime' > 0
    BY <1>10, <2>2, MeasureAssumption DEF WaitTicksPass, MfTypeOK
  <2> QED
    BY <1>4, <1>10, <2>2, <2>3, <2>4 DEF WaitTicksPass, MfTypeOK
<1>11. CASE EndCycles
  <2> DEFINE cycles == (mcycle - start_mcycle) % McycleWord
  <2>1. cycles \in Nat
    BY <1>5, <1>6 DEF MfTypeOK
  <2>3. mf_at' \in {"idle", "first"}
    BY <1>11 DEF EndCycles
  <2> HIDE DEF cycles
  <2>4. DriverFreq(cycles) \in Nat
    <3>1. (cycles * mtime_freq) \div mf_ticks \in Int
      BY <1>3, <2>1 DEF MfTypeOK
    <3> QED
      BY <1>5, <3>1 DEF DriverFreq
  <2>5. ASSUME mf_fn = "init.c" PROVE Freq(cycles, delta_mtime) \in Nat
    <3> DEFINE whole == ((cycles \div delta_mtime) * mtime_freq) % McycleWord
               part  == ((cycles % delta_mtime) * mtime_freq) % McycleWord
    <3>1. delta_mtime \in Nat \ {0}
      BY <1>11, <2>5 DEF EndCycles, MfTypeOK
    <3>2. /\ (cycles \div delta_mtime) * mtime_freq \in Nat
          /\ (cycles % delta_mtime) * mtime_freq \in Nat
      BY <1>3, <2>1, <3>1
    <3>3. whole \in Nat /\ part \in Nat
      BY <1>5, <3>2
    <3> HIDE DEF whole, part
    <3>4. (whole + (part \div delta_mtime)) % McycleWord \in Nat
      BY <1>5, <3>1, <3>3
    <3> QED
      BY <3>4 DEF Freq, whole, part
  <2>6. cpu_freq' \in Nat
    <3>1. mf_fn \in {"init.c", "driver"}
      BY DEF MfTypeOK
    <3>2. CASE mf_fn = "driver"
      BY <1>11, <2>4, <3>2 DEF EndCycles, cycles
    <3>3. CASE mf_fn = "init.c"
      <4>1. cpu_freq' \in {Freq(cycles, delta_mtime), cpu_freq}
        BY <1>11, <3>3 DEF EndCycles, cycles
      <4> QED
        BY <2>5, <3>3, <4>1 DEF MfTypeOK
    <3> QED
      BY <3>1, <3>2, <3>3
  <2> QED
    BY <1>4, <1>11, <2>3, <2>6 DEF EndCycles, MfTypeOK
<1> QED
  BY <1>7, <1>8, <1>9, <1>10, <1>11

(***************************************************************************)
(* What MeasuredRight says of a result f.                                  *)
(***************************************************************************)
Close(f, lost) ==
    LET off == f - CyclesPerTick * mtime_freq
    IN  (IF off < 0 THEN -off ELSE off) * MeasuredTicks
          <= lost * mtime_freq + MeasuredTicks

(***************************************************************************)
(* The product of the cycles and the timer's frequency is within 32 bits   *)
(* when it is divided by the ticks.                                        *)
(***************************************************************************)
LEMMA ProductFits ==
    ASSUME NEW c \in Nat, NEW lost \in Nat, lost <= Poll + Delay,
           c <= CyclesPerTick * MeasuredTicks + lost
    PROVE  c * mtime_freq < McycleWord * MeasuredTicks
<1>1. /\ CyclesPerTick \in Nat /\ MeasuredTicks \in Nat /\ mtime_freq \in Nat
      /\ McycleWord \in Nat /\ Poll \in Nat /\ Delay \in Nat
  BY MeasureAssumption
<1> DEFINE most == CyclesPerTick * MeasuredTicks + Poll + Delay
<1>2. most \in Nat /\ c <= most
  BY <1>1
<1>3. mtime_freq * most < McycleWord * MeasuredTicks
  BY FreqAssumption
<1>4. c * mtime_freq <= most * mtime_freq
  <2> HIDE DEF most
  <2> QED
    BY <1>1, <1>2, TimesMore
<1>5. most * mtime_freq = mtime_freq * most
  <2> HIDE DEF most
  <2> QED
    BY <1>1, <1>2
<1> HIDE DEF most
<1>6. /\ c * mtime_freq \in Nat /\ mtime_freq * most \in Nat
      /\ McycleWord * MeasuredTicks \in Nat
  BY <1>1, <1>2
<1> QED
  BY <1>3, <1>4, <1>5, <1>6

(***************************************************************************)
(* The driver's result, of 64 bits, is as close to the frequency as the    *)
(* cycles counted are to those of the ticks.                               *)
(***************************************************************************)
LEMMA DriverClose ==
    ASSUME MfTypeOK, mf_ticks = MeasuredTicks,
           NEW c \in Nat, NEW lost \in Nat, lost <= Poll + Delay,
           CyclesPerTick * MeasuredTicks - lost <= c,
           c <= CyclesPerTick * MeasuredTicks + lost
    PROVE  Close(DriverFreq(c), lost)
<1> DEFINE p == c * mtime_freq
           f == p \div MeasuredTicks
<1>1. /\ CyclesPerTick \in Nat /\ MeasuredTicks \in Nat \ {0} /\ mtime_freq \in Nat
      /\ McycleWord \in Nat \ {0}
  BY MeasureAssumption, FreqAssumption
<1>2. p \in Nat /\ p < McycleWord * MeasuredTicks
  BY <1>1, ProductFits
<1>3. DriverFreq(c) = f % McycleWord
  BY DEF DriverFreq
<1> HIDE DEF p
<1>4. f \in Nat /\ MeasuredTicks * f <= p /\ p < MeasuredTicks * f + MeasuredTicks
  BY <1>1, <1>2, Divided
<1> HIDE DEF f
<1>5. f < McycleWord
  BY <1>1, <1>2, <1>4, QuotientFits
<1>6. DriverFreq(c) = f
  BY <1>1, <1>3, <1>4, <1>5
<1> QED
  BY <1>1, <1>4, <1>6, QuotientClose DEF Close, p

(***************************************************************************)
(* init.c's result, which is divided before it is multiplied, is the same  *)
(* quotient, and nothing on the way to it exceeds 32 bits.                 *)
(***************************************************************************)
LEMMA InitClose ==
    ASSUME NEW ticks \in MeasuredTicks .. MeasuredTicks + TicksMissed,
           NEW c \in Nat, NEW lost \in Nat, lost <= Poll + Delay,
           CyclesPerTick * ticks - lost <= c,
           c <= CyclesPerTick * MeasuredTicks + lost
    PROVE  Close(Freq(c, ticks), lost)
<1> DEFINE p == c * mtime_freq
           a == c \div ticks
           left_over == c % ticks
           whole == a * mtime_freq
           more == left_over * mtime_freq
           part == more \div ticks
           f == whole + part
<1>1. /\ CyclesPerTick \in Nat /\ MeasuredTicks \in Nat \ {0} /\ mtime_freq \in Nat
      /\ McycleWord \in Nat \ {0} /\ TicksMissed \in Nat
  BY MeasureAssumption, FreqAssumption, Missed
<1>2. p \in Nat /\ p < McycleWord * MeasuredTicks
  BY <1>1, ProductFits
<1>3. ticks \in Nat \ {0} /\ MeasuredTicks <= ticks
  BY <1>1
<1>4. a \in Nat /\ left_over \in 0..(ticks - 1) /\ c = ticks * a + left_over
  <2>1. a \in Nat /\ left_over \in 0..(ticks - 1) /\ left_over = c - ticks * a
    BY <1>3, Divided
  <2> HIDE DEF a, left_over
  <2> QED
    BY <1>3, <2>1
<1>5. whole \in Nat /\ more \in Nat /\ p = ticks * whole + more
  <2> HIDE DEF a, left_over
  <2>1. whole \in Nat /\ more \in Nat
    BY <1>1, <1>3, <1>4
  <2>2. (ticks * a + left_over) * mtime_freq
          = ticks * (a * mtime_freq) + left_over * mtime_freq
    BY <1>1, <1>3, <1>4
  <2> QED
    BY <1>4, <2>1, <2>2
<1>6. more < McycleWord
  <2> HIDE DEF a
  <2>1. left_over <= MeasuredTicks + TicksMissed - 1
    BY <1>1, <1>4
  <2>2. MeasuredTicks + TicksMissed - 1 \in Nat
    BY <1>1
  <2> HIDE DEF left_over
  <2>3. left_over * mtime_freq <= (MeasuredTicks + TicksMissed - 1) * mtime_freq
    BY <1>1, <1>4, <2>1, <2>2, TimesMore
  <2>4. (MeasuredTicks + TicksMissed - 1) * mtime_freq
          = mtime_freq * (MeasuredTicks + TicksMissed) - mtime_freq
    BY <1>1
  <2>5. mtime_freq * (MeasuredTicks + TicksMissed) <= McycleWord
    BY FreqAssumption DEF TicksMissed
  <2>6. mtime_freq > 0
    BY MeasureAssumption
  <2>7. mtime_freq * (MeasuredTicks + TicksMissed) \in Nat
    BY <1>1
  <2> QED
    BY <1>1, <1>5, <2>3, <2>4, <2>5, <2>6, <2>7
<1> HIDE DEF more, whole
<1>7. part \in Nat /\ ticks * part <= more /\ more < ticks * part + ticks
  BY <1>3, <1>5, Divided
<1> HIDE DEF part, p
<1>8. f \in Nat /\ ticks * f <= p /\ p < ticks * f + ticks
  <2>1. ticks * f = ticks * whole + ticks * part
    BY <1>3, <1>5, <1>7
  <2>2. ticks * whole \in Nat /\ ticks * part \in Nat
    BY <1>3, <1>5, <1>7
  <2> QED
    BY <1>5, <1>7, <2>1, <2>2
<1>9. f < McycleWord
  <2> HIDE DEF f
  <2> QED
    BY <1>1, <1>2, <1>3, <1>8, QuotientFits
<1>10. whole < McycleWord
  BY <1>1, <1>5, <1>7, <1>9
<1>11. Freq(c, ticks) = f
  <2>1. whole % McycleWord = whole /\ more % McycleWord = more
    BY <1>1, <1>5, <1>6, <1>10
  <2>2. Freq(c, ticks)
          = ((whole % McycleWord) + ((more % McycleWord) \div ticks)) % McycleWord
    BY DEF Freq, whole, more, a, left_over
  <2>3. Freq(c, ticks) = f % McycleWord
    BY <2>1, <2>2 DEF part
  <2> HIDE DEF f
  <2> QED
    BY <1>1, <1>8, <1>9, <2>3
<1> HIDE DEF f
<1> QED
  BY <1>1, <1>3, <1>8, <1>11, QuotientClose DEF Close, p

(***************************************************************************)
(* The first read finds some tick tick; where the driver goes on, it has as   *)
(* many ticks before it as it measures and one.                            *)
(***************************************************************************)
LEMMA FirstReadKeeps ==
    ASSUME MfInvariant, FirstRead
    PROVE  mf_at' = "edge" => \E t \in Nat : LastRead(t)'
<1> SUFFICES ASSUME mf_at' = "edge" PROVE \E t \in Nat : LastRead(t)'
  OBVIOUS
<1> DEFINE t == Ticks
<1>1. MfTypeOK /\ MfTypeOK'
  BY MfTypesKept DEF MfInvariant, MfNext
<1>2. /\ t \in Nat /\ mtime = t % MtimeWord /\ EdgeOf(t) <= phase + elapsed
      /\ phase + elapsed < EdgeOf(t + 1)
  BY <1>1, EdgeNow
<1>3. /\ Extra \in 0..Delay /\ Extra' \in 0..Delay /\ Extra <= Extra'
      /\ elapsed + Poll <= elapsed'
      /\ elapsed' <= elapsed + Poll + (Extra' - Extra)
  BY <1>1, NextRead DEF FirstRead
<1>4. /\ start_mtime' = mtime /\ phase' = phase /\ mf_fn' = mf_fn
      /\ mf_ticks' = mf_ticks
  BY DEF FirstRead, mf_call
<1>5. /\ EdgeOf(t) \in Nat /\ EdgeOf(t + 1) \in Nat /\ phase \in Nat
      /\ elapsed \in Nat /\ elapsed' \in Nat /\ Poll \in Nat /\ Delay \in Nat
  BY <1>1, <1>2, EdgeIsNat, MeasureAssumption DEF MfTypeOK
<1> HIDE DEF t
<1>6. /\ EdgeOf(t) + Poll <= phase' + elapsed'
      /\ phase' + elapsed' < EdgeOf(t + 1) + Poll + Extra'
  BY <1>2, <1>3, <1>4, <1>5 DEF Extra
<1>7. ASSUME mf_fn = "driver"
      PROVE  end_mtime' = start_mtime' + mf_ticks' + 1 /\ end_mtime' < MtimeWord
  <2> DEFINE sum == mtime + mf_ticks + 1
  <2>1. /\ MtimeWord \in Nat \ {0} /\ MeasuredTicks \in Nat
        /\ mf_ticks = MeasuredTicks
        /\ MeasuredTicks + 1 < MtimeWord
    BY <1>1, <1>7, Missed, MeasureAssumption DEF MfTypeOK
  <2>2. mtime \in 0..(MtimeWord - 1)
    BY <1>2, <2>1
  <2>3. end_mtime' = sum % MtimeWord /\ ~(sum % MtimeWord < mtime)
    BY <1>7 DEF FirstRead
  <2> HIDE DEF mtime
  <2>4. sum < MtimeWord
    <3> SUFFICES ASSUME sum >= MtimeWord PROVE FALSE
      BY <2>1, <2>2
    <3>1. sum - MtimeWord \in 0..(MtimeWord - 1) /\ sum - MtimeWord < mtime
      BY <2>1, <2>2
    <3>2. sum = MtimeWord * 1 + (sum - MtimeWord)
      BY <2>1, <2>2
    <3>3. (MtimeWord * 1 + (sum - MtimeWord)) % MtimeWord = sum - MtimeWord
      <4> HIDE DEF sum
      <4> QED
        BY <2>1, <3>1, RemainderOf
    <3> QED
      BY <2>3, <3>1, <3>2, <3>3
  <2>5. sum % MtimeWord = sum
    BY <2>1, <2>2, <2>4
  <2> QED
    BY <1>4, <2>1, <2>3, <2>4, <2>5
<1> QED
  BY <1>2, <1>4, <1>6, <1>7 DEF LastRead

(***************************************************************************)
(* At the edge: mtime has not come round since the last read, so a value   *)
(* other than that one's is a later tick.                                  *)
(***************************************************************************)
LEMMA EdgeKeeps ==
    ASSUME MfInvariant, Edge
    PROVE  /\ mf_at' = "edge" => \E t \in Nat : LastRead(t)'
           /\ mf_at' = "start" => 
                 \E t, s \in Nat : Counts(t)' /\ OffTheEdge(t, s)' /\ s = elapsed'
<1> DEFINE m == Ticks
<1>1. MfTypeOK /\ MfTypeOK'
  BY MfTypesKept DEF MfInvariant, MfNext
<1>2. /\ m \in Nat /\ mtime = m % MtimeWord /\ EdgeOf(m) <= phase + elapsed
      /\ phase + elapsed < EdgeOf(m + 1)
  BY <1>1, EdgeNow
<1>3. /\ Extra \in 0..Delay /\ Extra' \in 0..Delay /\ Extra <= Extra'
      /\ elapsed + Poll <= elapsed'
      /\ elapsed' <= elapsed + Poll + (Extra' - Extra)
  BY <1>1, NextRead DEF Edge
<1>4. /\ start_mtime' = mtime /\ phase' = phase /\ mf_fn' = mf_fn
      /\ mf_ticks' = mf_ticks /\ end_mtime' = end_mtime
      /\ mf_at' = IF mtime = start_mtime THEN "edge" ELSE "start"
  BY DEF Edge, mf_call
<1>5. /\ phase \in Nat /\ elapsed \in Nat /\ elapsed' \in Nat /\ Poll \in Nat
      /\ Delay \in Nat /\ mf_fn \in {"init.c", "driver"}
      /\ mf_ticks \in Nat /\ mf_ticks <= MeasuredTicks /\ MeasuredTicks \in Nat
  BY <1>1, MeasureAssumption DEF MfTypeOK
<1> HIDE DEF m
<1>6. PICK t \in Nat : LastRead(t)
  BY DEF MfInvariant, Edge
<1>7. /\ start_mtime = t % MtimeWord
      /\ EdgeOf(t) + Poll <= phase + elapsed
      /\ phase + elapsed < EdgeOf(t + 1) + Poll + Extra
      /\ mf_fn = "driver" =>
            end_mtime = start_mtime + mf_ticks + 1 /\ end_mtime < MtimeWord
  BY <1>6 DEF LastRead
<1>8. /\ EdgeOf(t) \in Nat /\ EdgeOf(t + 1) \in Nat /\ EdgeOf(m) \in Nat
      /\ EdgeOf(m + 1) \in Nat
  <2>1. t + 1 \in Nat /\ m + 1 \in Nat
    BY <1>2
  <2> QED
    BY <1>2, <2>1, EdgeIsNat
<1>9. t <= m
  <2> SUFFICES ASSUME m + 1 <= t PROVE FALSE
    BY <1>2
  <2>1. EdgeOf(m + 1) <= EdgeOf(t)
    BY <1>2, EdgesInOrder
  <2> QED
    BY <1>2, <1>5, <1>7, <1>8, <2>1
<1>10. m - t < MtimeWord /\ MtimeWord \in Nat \ {0}
  <2>1. EdgeOf(m) < EdgeOf(t + 1) + Poll + Delay
    BY <1>2, <1>3, <1>5, <1>7, <1>8
  <2>2. m - (t + 1) <= TicksMissed
    BY <1>2, <2>1, Missed
  <2> QED
    BY <1>2, <1>5, <2>2, Missed
<1>11. CASE mtime = start_mtime
  <2>1. m = t
    BY <1>2, <1>7, <1>9, <1>10, <1>11, SameRemainder
  <2>2. /\ EdgeOf(t) + Poll <= phase' + elapsed'
        /\ phase' + elapsed' < EdgeOf(t + 1) + Poll + Extra'
    BY <1>2, <1>3, <1>4, <1>5, <1>7, <1>8, <2>1 DEF Extra
  <2>3. LastRead(t)'
    BY <1>4, <1>7, <1>11, <2>2 DEF LastRead
  <2> QED
    BY <1>4, <1>11, <2>3
<1>12. CASE mtime # start_mtime
  <2>1. t + 1 <= m
    <3>1. m # t
      BY <1>2, <1>7, <1>12
    <3> QED
      BY <1>2, <1>9, <3>1
  <2>2. EdgeOf(t + 1) <= EdgeOf(m)
    BY <1>2, <2>1, EdgesInOrder
  <2>0. PICK e \in Nat : e = IF mf_fn = "driver" THEN t + 1 ELSE m
    BY <1>2
  <2>3. EdgeOf(e) \in Nat /\ EdgeOf(t + 1) <= EdgeOf(e) /\ EdgeOf(e) <= EdgeOf(m)
    BY <1>2, <1>8, <2>0, <2>2
  <2>4. Counts(e)'
    <3>1. CASE mf_fn = "driver"
      <4> DEFINE base == MtimeWord * (t \div MtimeWord)
      <4>1. t \div MtimeWord \in Nat /\ base \in Nat /\ start_mtime = t - base
            /\ start_mtime \in Nat
        <5>1. t \div MtimeWord \in Nat /\ t % MtimeWord \in 0..(MtimeWord - 1)
              /\ t % MtimeWord = t - base
          BY <1>10, Divided
        <5> QED
          BY <1>7, <1>10, <5>1
      <4>2. base % MtimeWord = 0
        <5>1. base = MtimeWord * (t \div MtimeWord) + 0 /\ 0 \in 0..(MtimeWord - 1)
          BY <1>10, <4>1
        <5> QED
          BY <1>10, <4>1, <5>1, RemainderOf
      <4> HIDE DEF base
      <4>3. ((t + 1) + mf_ticks) - end_mtime = base
        BY <1>5, <1>7, <3>1, <4>1
      <4>4. end_mtime > mf_ticks
        BY <1>5, <1>7, <3>1, <4>1
      <4> QED
        BY <1>4, <1>7, <2>0, <3>1, <4>1, <4>2, <4>3, <4>4 DEF Counts
    <3>2. CASE mf_fn # "driver"
      BY <1>2, <1>4, <2>0, <3>2 DEF Counts
    <3> QED
      BY <3>1, <3>2
  <2>5. /\ EdgeOf(e) + Poll <= phase' + elapsed'
        /\ phase' + elapsed' < EdgeOf(e) + Poll + Poll + Extra'
    BY <1>2, <1>3, <1>4, <1>5, <1>7, <1>8, <2>3 DEF Extra
  <2>6. PICK s \in Nat : s = elapsed'
    BY <1>5
  <2>7. OffTheEdge(e, s)'
    BY <2>5, <2>6 DEF OffTheEdge, Extra
  <2> QED
    BY <1>4, <1>12, <2>3, <2>4, <2>6, <2>7
<1> QED
  BY <1>11, <1>12

(***************************************************************************)
(* The last tick measured is more than two polls away when mcycle is read. *)
(***************************************************************************)
LEMMA StartKeeps ==
    ASSUME MfInvariant, StartCycles
    PROVE  \E t, s \in Nat : /\ Counts(t)' /\ OffTheEdge(t, s)' /\ StartedAt(s)'
                             /\ NotPast(t)'
<1>1. MfTypeOK /\ MfTypeOK'
  BY MfTypesKept DEF MfInvariant, MfNext
<1>2. /\ Extra \in 0..Delay /\ Extra' \in 0..Delay /\ Extra <= Extra'
      /\ elapsed + Poll <= elapsed'
      /\ elapsed' <= elapsed + Poll + (Extra' - Extra)
  BY <1>1, NextRead DEF StartCycles
<1>3. /\ start_mtime' = start_mtime /\ phase' = phase /\ mf_fn' = mf_fn
      /\ mf_ticks' = mf_ticks /\ end_mtime' = end_mtime /\ mcycle0' = mcycle0
      /\ start_mcycle' = mcycle
  BY DEF StartCycles, mf_call
<1>4. /\ phase \in Nat /\ elapsed \in Nat /\ elapsed' \in Nat /\ Poll \in Nat
      /\ Delay \in Nat /\ mf_ticks \in Nat \ {0} /\ CyclesPerTick \in Nat
      /\ Poll > 0 /\ Poll + Poll <= CyclesPerTick
  BY <1>1, MeasureAssumption, PollAssumption DEF MfTypeOK
<1>5. PICK t \in Nat, s \in Nat : Counts(t) /\ OffTheEdge(t, s) /\ s = elapsed
  BY DEF MfInvariant, StartCycles
<1>6. /\ EdgeOf(t) + Poll <= phase + s
      /\ phase + s < EdgeOf(t) + Poll + Poll + Extra
  BY <1>5 DEF OffTheEdge
<1>7. Counts(t)'
  BY <1>3, <1>5 DEF Counts
<1>8. EdgeOf(t) \in Nat /\ EdgeOf(t + mf_ticks) \in Nat
      /\ EdgeOf(t) + CyclesPerTick <= EdgeOf(t + mf_ticks)
  <2>1. t + 1 <= t + mf_ticks /\ t + mf_ticks \in Nat /\ t + 1 \in Nat
    BY <1>4
  <2>2. /\ EdgeOf(t + 1) = EdgeOf(t) + CyclesPerTick
        /\ EdgeOf(t + 1) <= EdgeOf(t + mf_ticks)
    BY <2>1, NextEdge, EdgesInOrder
  <2> QED
    BY <2>1, <2>2, EdgeIsNat
<1>9. /\ EdgeOf(t) + Poll <= phase' + s
      /\ phase' + s < EdgeOf(t) + Poll + Poll + Extra'
      /\ phase' + elapsed' < EdgeOf(t + mf_ticks) + Poll + Extra'
  BY <1>2, <1>3, <1>4, <1>5, <1>6, <1>8 DEF Extra
<1>10. OffTheEdge(t, s)'
  BY <1>9 DEF OffTheEdge
<1>11. NotPast(t)'
  BY <1>3, <1>9 DEF NotPast
<1>12. StartedAt(s)'
  BY <1>2, <1>3, <1>4, <1>5 DEF StartedAt, mcycle
<1> QED
  BY <1>7, <1>10, <1>11, <1>12

(***************************************************************************)
(* While the driver waits for a tick it is not past, or only by what an    *)
(* interrupt hid, and mtime does not wrap: it tells whether the tick has   *)
(* come.                                                                   *)
(***************************************************************************)
LEMMA DriverSees ==
    ASSUME MfTypeOK, mf_fn = "driver", ~WrapHidden,
           NEW t \in Nat, Counts(t), NotPast(t), t <= Ticks
    PROVE  mtime < end_mtime <=> Ticks < t + mf_ticks
<1> DEFINE m == Ticks
           last == t + mf_ticks
           base == last - end_mtime
<1>1. /\ m \in Nat /\ mtime = m % MtimeWord /\ EdgeOf(m) <= phase + elapsed
      /\ phase + elapsed < EdgeOf(m + 1)
  BY EdgeNow
<1>2. /\ phase + elapsed \in Nat /\ Poll \in Nat \ {0} /\ Delay \in Nat
      /\ mf_ticks \in Nat /\ end_mtime \in Nat /\ interrupted \in BOOLEAN
      /\ CyclesPerTick \in Nat /\ Poll <= CyclesPerTick
  BY MeasureAssumption, PollAssumption DEF MfTypeOK
<1>3. /\ end_mtime > mf_ticks /\ end_mtime < MtimeWord
      /\ base \in Nat /\ base % MtimeWord = 0
  BY DEF Counts
<1>4. phase + elapsed < EdgeOf(last) + Poll + Extra
  BY DEF NotPast
<1>5. MtimeWord \in Nat \ {0} /\ TicksMissed \in Nat
  BY Missed, MeasureAssumption
<1>6. last \in Nat /\ EdgeOf(last) \in Nat /\ EdgeOf(m) \in Nat
  BY <1>1, <1>2, EdgeIsNat
<1>7. end_mtime + (m - last) < MtimeWord
  <2>1. CASE interrupted
    <3>1. EdgeOf(m) < EdgeOf(last) + Poll + Delay
      BY <1>1, <1>2, <1>4, <1>6, <2>1 DEF Extra
    <3> HIDE DEF m, last
    <3>2. m - last <= TicksMissed
      BY <1>1, <1>6, <3>1, Missed
    <3>3. end_mtime + TicksMissed < MtimeWord
      BY <1>2, <1>5, <2>1 DEF WrapHidden, TicksMissed
    <3> QED
      BY <1>1, <1>2, <1>5, <1>6, <3>2, <3>3
  <2>2. CASE ~interrupted
    <3> HIDE DEF m, last
    <3>1. m <= last
      <4> SUFFICES ASSUME last + 1 <= m PROVE FALSE
        BY <1>1, <1>6
      <4>1. last + 1 \in Nat
        BY <1>6
      <4>2. EdgeOf(last + 1) = EdgeOf(last) + CyclesPerTick
            /\ EdgeOf(last + 1) <= EdgeOf(m)
        BY <1>1, <1>6, <4>1, NextEdge, EdgesInOrder
      <4> QED
        BY <1>1, <1>2, <1>4, <1>6, <2>2, <4>2 DEF Extra
    <3> QED
      BY <1>1, <1>2, <1>3, <1>5, <1>6, <3>1
  <2> QED
    BY <1>2, <2>1, <2>2
<1>8. mtime = m - base
  <2>1. base <= m /\ m - base < MtimeWord
    BY <1>1, <1>2, <1>3, <1>5, <1>7
  <2> HIDE DEF m, base
  <2> QED
    BY <1>1, <1>3, <1>5, <2>1, AboveAWrap
<1> QED
  BY <1>1, <1>2, <1>3, <1>8

(***************************************************************************)
(* init.c counts the ticks since the edge, over a wrap as well.            *)
(***************************************************************************)
LEMMA InitSees ==
    ASSUME MfTypeOK, mf_fn # "driver",
           NEW t \in Nat, Counts(t), NotPast(t), t <= Ticks
    PROVE  /\ (mtime - start_mtime) % MtimeWord = Ticks - t
           /\ Ticks - t <= mf_ticks + TicksMissed
<1> DEFINE m == Ticks
<1>1. /\ m \in Nat /\ mtime = m % MtimeWord /\ EdgeOf(m) <= phase + elapsed
  BY EdgeNow
<1>2. /\ phase + elapsed \in Nat /\ Poll \in Nat /\ Delay \in Nat
      /\ mf_ticks \in Nat /\ mf_ticks <= MeasuredTicks /\ MeasuredTicks \in Nat
  BY MeasureAssumption DEF MfTypeOK
<1>3. start_mtime = t % MtimeWord
  BY DEF Counts
<1>4. t + mf_ticks \in Nat /\ EdgeOf(t + mf_ticks) \in Nat /\ EdgeOf(m) \in Nat
  BY <1>1, <1>2, EdgeIsNat
<1>5. EdgeOf(m) < EdgeOf(t + mf_ticks) + Poll + Delay
  BY <1>1, <1>2, <1>4 DEF NotPast, Extra
<1> HIDE DEF m
<1>6. m - (t + mf_ticks) <= TicksMissed
  BY <1>1, <1>4, <1>5, Missed
<1>7. m - t < MtimeWord /\ MtimeWord \in Nat \ {0} /\ m - t <= mf_ticks + TicksMissed
  BY <1>1, <1>2, <1>6, Missed
<1>8. t <= m
  BY DEF m
<1>9. ((m % MtimeWord) - (t % MtimeWord)) % MtimeWord = m - t
  BY <1>1, <1>7, <1>8, Difference
<1> QED
  BY <1>1, <1>3, <1>7, <1>9 DEF m

(***************************************************************************)
(* A wait for the last tick ends at the first read behind it: what was     *)
(* counted then is the cycles between two edges but for those lost.        *)
(***************************************************************************)
LEMMA WaitKeeps ==
    ASSUME MfInvariant, WaitTicksPass, ~WrapHidden'
    PROVE  /\ mf_at' = "wait" =>
                 \E t, s \in Nat : /\ Counts(t)' /\ OffTheEdge(t, s)' /\ StartedAt(s)'
                                   /\ NotPast(t)'
           /\ mf_at' = "end" => \E s \in Nat : StartedAt(s)' /\ Counted(s)'
<1> DEFINE m == Ticks
<1>1. MfTypeOK /\ MfTypeOK'
  BY MfTypesKept DEF MfInvariant, MfNext
<1>2. /\ m \in Nat /\ mtime = m % MtimeWord /\ EdgeOf(m) <= phase + elapsed
      /\ phase + elapsed < EdgeOf(m + 1)
  BY <1>1, EdgeNow
<1>3. /\ Extra \in 0..Delay /\ Extra' \in 0..Delay /\ Extra <= Extra'
      /\ elapsed + Poll <= elapsed'
      /\ elapsed' <= elapsed + Poll + (Extra' - Extra)
      /\ (interrupted => interrupted')
  BY <1>1, NextRead DEF WaitTicksPass
<1>4. /\ start_mtime' = start_mtime /\ phase' = phase /\ mf_fn' = mf_fn
      /\ mf_ticks' = mf_ticks /\ end_mtime' = end_mtime /\ mcycle0' = mcycle0
      /\ start_mcycle' = start_mcycle
  BY DEF WaitTicksPass, mf_call
<1>5. /\ phase \in Nat /\ elapsed \in Nat /\ elapsed' \in Nat /\ Poll \in Nat \ {0}
      /\ Delay \in Nat /\ mf_ticks \in Nat \ {0}
      /\ interrupted \in BOOLEAN /\ interrupted' \in BOOLEAN
  BY <1>1, MeasureAssumption DEF MfTypeOK
<1>6. ~WrapHidden
  BY <1>3, <1>4 DEF WrapHidden
<1>7. PICK t \in Nat, s \in Nat :
          Counts(t) /\ OffTheEdge(t, s) /\ StartedAt(s) /\ NotPast(t)
  BY <1>6 DEF MfInvariant, WaitTicksPass
<1> DEFINE last == t + mf_ticks
<1>8. /\ EdgeOf(t) + Poll <= phase + s
      /\ phase + s < EdgeOf(t) + Poll + Poll + Extra
      /\ s <= elapsed
      /\ phase + elapsed < EdgeOf(last) + Poll + Extra
  BY <1>7 DEF OffTheEdge, StartedAt, NotPast
<1>9. last \in Nat /\ EdgeOf(last) = EdgeOf(t) + EdgeOf(mf_ticks)
  BY <1>5, EdgesLater
<1>10. /\ EdgeOf(t) \in Nat /\ EdgeOf(last) \in Nat /\ EdgeOf(m) \in Nat
       /\ EdgeOf(m + 1) \in Nat /\ EdgeOf(mf_ticks) \in Nat
  <2>1. m + 1 \in Nat /\ mf_ticks \in Nat
    BY <1>2, <1>5
  <2> QED
    BY <1>2, <1>9, <2>1, EdgeIsNat
<1> HIDE DEF m, last
<1>11. t <= m
  <2> SUFFICES ASSUME m + 1 <= t PROVE FALSE
    BY <1>2
  <2>1. EdgeOf(m + 1) <= EdgeOf(t)
    BY <1>2, EdgesInOrder
  <2> QED
    BY <1>2, <1>5, <1>8, <1>10, <2>1
<1>12. StartedAt(s)'
  BY <1>3, <1>4, <1>5, <1>7 DEF StartedAt
<1>13. OffTheEdge(t, s)'
  BY <1>3, <1>4, <1>5, <1>8, <1>10 DEF OffTheEdge, Extra
<1>14. Counts(t)'
  BY <1>4, <1>7 DEF Counts
<1>15. m < last => NotPast(t)'
  <2> SUFFICES ASSUME m + 1 <= last PROVE NotPast(t)'
    BY <1>2, <1>9
  <2>1. EdgeOf(m + 1) <= EdgeOf(last)
    BY <1>2, <1>9, EdgesInOrder
  <2>2. phase' + elapsed' < EdgeOf(last) + Poll + Extra'
    BY <1>2, <1>3, <1>4, <1>5, <1>10, <2>1 DEF Extra
  <2> QED
    BY <1>4, <2>2 DEF NotPast, last
<1>16. elapsed' - s <= EdgeOf(mf_ticks) + CyclesLost'
  <2>1. phase + elapsed' < EdgeOf(last) + Poll + Poll + Extra'
    BY <1>3, <1>5, <1>8, <1>10 DEF Extra
  <2>2. CyclesLost' = Poll - 1 + Extra'
    BY DEF CyclesLost, Extra
  <2> QED
    BY <1>3, <1>5, <1>8, <1>9, <1>10, <2>1, <2>2 DEF Extra
<1>17. ASSUME NEW k \in Nat, m = t + k, last <= m
       PROVE  EdgeOf(k) - CyclesLost' <= elapsed' - s /\ k >= mf_ticks
  <2>1. EdgeOf(m) = EdgeOf(t) + EdgeOf(k) /\ EdgeOf(k) \in Nat
    BY <1>17, EdgesLater, EdgeIsNat
  <2>2. EdgeOf(k) - (Poll - 1 + Extra) <= elapsed' - s
    BY <1>2, <1>3, <1>5, <1>8, <1>10, <2>1 DEF Extra
  <2>3. CyclesLost' = Poll - 1 + Extra'
    BY DEF CyclesLost, Extra
  <2>4. EdgeOf(k) - CyclesLost' <= elapsed' - s
    BY <1>3, <1>5, <2>1, <2>2, <2>3 DEF Extra
  <2> QED
    BY <1>5, <1>17, <2>4 DEF last
<1>18. CASE mf_fn = "driver"
  <2>1. mtime < end_mtime <=> m < last
    BY <1>1, <1>6, <1>7, <1>11, <1>18, DriverSees DEF m, last
  <2>2. mf_at' = IF mtime < end_mtime THEN "wait" ELSE "end"
    BY <1>18 DEF WaitTicksPass
  <2>3. CASE m < last
    BY <1>12, <1>13, <1>14, <1>15, <2>1, <2>2, <2>3
  <2>4. CASE ~(m < last)
    <3>1. EdgeOf(mf_ticks) - CyclesLost' <= elapsed' - s
      <4>1. EdgeOf(last) <= EdgeOf(m)
        BY <1>2, <1>9, <2>4, EdgesInOrder
      <4>2. EdgeOf(mf_ticks) - (Poll - 1 + Extra) <= elapsed' - s
        BY <1>2, <1>3, <1>5, <1>8, <1>9, <1>10, <4>1 DEF Extra
      <4>3. CyclesLost' = Poll - 1 + Extra'
        BY DEF CyclesLost, Extra
      <4> QED
        BY <1>3, <1>5, <1>10, <4>2, <4>3 DEF Extra
    <3>2. TicksMissed \in Nat
      BY Missed
    <3>3. Measured' = mf_ticks /\ mf_ticks \in mf_ticks .. mf_ticks + TicksMissed
      BY <1>4, <1>5, <1>18, <3>2 DEF Measured
    <3>4. Counted(s)'
      BY <1>4, <1>16, <3>1, <3>3 DEF Counted
    <3> QED
      BY <1>12, <2>1, <2>2, <2>4, <3>4
  <2> QED
    BY <2>3, <2>4
<1>19. CASE mf_fn # "driver"
  <2>1. /\ (mtime - start_mtime) % MtimeWord = m - t
        /\ m - t <= mf_ticks + TicksMissed
    BY <1>1, <1>7, <1>11, <1>19, InitSees DEF m
  <2>2. /\ delta_mtime' = m - t
        /\ mf_at' = IF delta_mtime' < mf_ticks THEN "wait" ELSE "end"
    BY <1>19, <2>1 DEF WaitTicksPass
  <2>3. PICK k \in Nat : k = m - t /\ m = t + k
    BY <1>2, <1>11
  <2>4. CASE m < last
    <3>1. mf_at' = "wait"
      BY <1>2, <1>5, <2>2, <2>4 DEF last
    <3> QED
      BY <1>12, <1>13, <1>14, <1>15, <2>4, <3>1
  <2>5. CASE last <= m
    <3>1. k >= mf_ticks /\ EdgeOf(k) - CyclesLost' <= elapsed' - s
      BY <1>17, <2>3, <2>5
    <3>2. mf_at' = "end"
      BY <1>5, <2>2, <2>3, <3>1
    <3>3. TicksMissed \in Nat
      BY Missed
    <3>4. Measured' = k /\ k \in mf_ticks .. mf_ticks + TicksMissed
      BY <1>4, <1>5, <1>19, <2>1, <2>2, <2>3, <3>1, <3>3 DEF Measured
    <3>5. Counted(s)'
      BY <1>4, <1>16, <3>1, <3>4 DEF Counted
    <3> QED
      BY <1>12, <3>2, <3>5
  <2> QED
    BY <1>2, <1>9, <2>4, <2>5
<1> QED
  BY <1>18, <1>19

(***************************************************************************)
(* The result: the cycles since s, although mcycle may have wrapped.       *)
(***************************************************************************)
LEMMA EndKeeps ==
    ASSUME MfInvariant, EndCycles
    PROVE  MeasuredRight'
<1> DEFINE cycles == (mcycle - start_mcycle) % McycleWord
<1>1. MfTypeOK /\ MfTypeOK'
  BY MfTypesKept DEF MfInvariant, MfNext
<1>2. /\ mf_at = "end" /\ mf_fn' = mf_fn /\ end_mtime' = end_mtime
      /\ mf_at' = IF mf_ticks = MeasuredTicks THEN "idle" ELSE "first"
      /\ cpu_freq' = IF mf_fn = "driver" THEN DriverFreq(cycles)
                     ELSE IF mf_ticks = MeasuredTicks THEN Freq(cycles, delta_mtime)
                     ELSE cpu_freq
  BY DEF EndCycles
<1>3. interrupted => interrupted'
  BY <1>1, NextRead DEF EndCycles
<1>4. /\ Poll \in Nat \ {0} /\ Delay \in Nat /\ mtime_freq \in Nat
      /\ MeasuredTicks \in Nat /\ CyclesPerTick \in Nat
      /\ interrupted \in BOOLEAN /\ interrupted' \in BOOLEAN
      /\ elapsed \in Nat /\ mcycle0 \in Nat
  BY <1>1, MeasureAssumption DEF MfTypeOK
<1>5. McycleWord \in Nat \ {0}
      /\ CyclesPerTick * (MeasuredTicks + 2) + Poll + Delay < McycleWord
  BY MeasureAssumption
<1> SUFFICES ASSUME mf_ticks = MeasuredTicks, ~WrapHidden
             PROVE  Close(cpu_freq, CyclesLost)'
  <2>1. WrapHidden => WrapHidden'
    BY <1>2, <1>3 DEF WrapHidden
  <2> QED
    BY <1>2, <2>1 DEF MeasuredRight, Close
<1>6. PICK s \in Nat : StartedAt(s) /\ Counted(s)
  BY <1>2 DEF MfInvariant
<1>7. PICK lost \in Nat : lost = CyclesLost
  BY <1>4 DEF CyclesLost
<1>8. lost <= Poll + Delay
  BY <1>4, <1>7 DEF CyclesLost
<1>9. /\ s <= elapsed /\ start_mcycle = (mcycle0 + s) % McycleWord
      /\ Measured \in MeasuredTicks .. MeasuredTicks + TicksMissed
      /\ CyclesPerTick * Measured - lost <= elapsed - s
      /\ elapsed - s <= CyclesPerTick * MeasuredTicks + lost
  BY <1>6, <1>7 DEF StartedAt, Counted, EdgeOf
<1>10. cycles = elapsed - s
  <2> DEFINE a == mcycle0 + s
             now == mcycle0 + elapsed
  <2>1. a \in Nat /\ now \in Nat /\ a <= now /\ now - a = elapsed - s
    BY <1>4, <1>9
  <2>2. elapsed - s < McycleWord
    <3>1. CyclesPerTick * (MeasuredTicks + 2)
            = CyclesPerTick * MeasuredTicks + 2 * CyclesPerTick
      BY <1>4
    <3>2. CyclesPerTick * MeasuredTicks \in Nat
      BY <1>4
    <3> QED
      BY <1>4, <1>5, <1>8, <1>9, <3>1, <3>2
  <2>3. mcycle = now % McycleWord /\ start_mcycle = a % McycleWord
    BY <1>9 DEF mcycle
  <2> HIDE DEF a, now
  <2>4. ((now % McycleWord) - (a % McycleWord)) % McycleWord = now - a
    BY <1>5, <2>1, <2>2, Difference
  <2> QED
    BY <2>1, <2>3, <2>4
<1> HIDE DEF cycles
<1>11. cycles \in Nat
  BY <1>4, <1>9, <1>10
<1>12. Close(cpu_freq', lost)
  <2>1. CASE mf_fn = "driver"
    <3>1. Measured = MeasuredTicks
      BY <2>1 DEF Measured
    <3>2. Close(DriverFreq(cycles), lost)
      BY <1>1, <1>8, <1>9, <1>10, <1>11, <3>1, DriverClose
    <3> QED
      BY <1>2, <2>1, <3>2
  <2>2. CASE mf_fn # "driver"
    <3>1. Measured = delta_mtime
      BY <2>2 DEF Measured
    <3>2. Close(Freq(cycles, delta_mtime), lost)
      BY <1>8, <1>9, <1>10, <1>11, <3>1, InitClose
    <3> QED
      BY <1>2, <2>2, <3>2
  <2> QED
    BY <2>1, <2>2
<1>13. PICK more \in Nat : more = CyclesLost' /\ lost <= more
  BY <1>3, <1>4, <1>7 DEF CyclesLost
<1>14. lost * mtime_freq <= more * mtime_freq
  <2>1. lost <= more /\ mtime_freq \in Nat
    BY <1>4, <1>13
  <2> QED
    BY <2>1, TimesMore
<1>15. PICK f \in Nat : f = cpu_freq'
  BY <1>1 DEF MfTypeOK
<1>16. Close(f, more)
  <2> DEFINE off == f - CyclesPerTick * mtime_freq
             far == (IF off < 0 THEN -off ELSE off) * MeasuredTicks
  <2>1. far <= lost * mtime_freq + MeasuredTicks
    BY <1>12, <1>15 DEF Close
  <2>2. far \in Int /\ lost * mtime_freq \in Int /\ more * mtime_freq \in Int
    <3>1. off \in Int
      BY <1>4
    <3> HIDE DEF off
    <3>2. (IF off < 0 THEN -off ELSE off) \in Int
      BY <3>1
    <3> QED
      BY <1>4, <3>2
  <2>3. far <= more * mtime_freq + MeasuredTicks
    <3> HIDE DEF far
    <3> QED
      BY <1>4, <1>14, <2>1, <2>2
  <2> QED
    BY <2>3 DEF Close
<1> QED
  BY <1>13, <1>15, <1>16 DEF Close

(***************************************************************************)
(* Every step keeps what is known about a measurement.                     *)
(***************************************************************************)
LEMMA MfInvariantStep == MfInvariant /\ [MfNext]_mf_vars => MfInvariant'
<1> SUFFICES ASSUME MfInvariant, [MfNext]_mf_vars
             PROVE  MfInvariant'
  OBVIOUS
<1>1. MfTypeOK'
  BY MfTypesKept DEF MfInvariant
<1>2. CASE FirstRead
  <2>1. mf_at' \in {"first", "edge"}
    BY <1>2 DEF FirstRead
  <2> QED
    BY <1>1, <1>2, <2>1, FirstReadKeeps DEF MfInvariant, MeasuredRight
<1>3. CASE Edge
  <2>1. mf_at' \in {"edge", "start"}
    BY <1>3 DEF Edge
  <2> QED
    BY <1>1, <1>3, <2>1, EdgeKeeps DEF MfInvariant, MeasuredRight
<1>4. CASE StartCycles
  <2>1. mf_at' = "wait"
    BY <1>4 DEF StartCycles
  <2> QED
    BY <1>1, <1>4, <2>1, StartKeeps DEF MfInvariant, MeasuredRight
<1>5. CASE WaitTicksPass
  <2>1. mf_at' \in {"wait", "end"}
    BY <1>5 DEF WaitTicksPass
  <2> QED
    BY <1>1, <1>5, <2>1, WaitKeeps DEF MfInvariant, MeasuredRight
<1>6. CASE EndCycles
  <2>1. mf_at' \in {"first", "idle"}
    BY <1>6 DEF EndCycles
  <2> QED
    BY <1>1, <1>6, <2>1, EndKeeps DEF MfInvariant
<1>7. CASE UNCHANGED mf_vars
  BY <1>7 DEF mf_vars, MfInvariant, MfTypeOK, LastRead, Counts, OffTheEdge,
              StartedAt, NotPast, Counted, Measured, CyclesLost, Extra,
              WrapHidden, MeasuredRight
<1> QED
  BY <1>2, <1>3, <1>4, <1>5, <1>6, <1>7 DEF MfNext, CachedFreq

(***************************************************************************)
(* The invariant of the measurements holds, whichever program runs.        *)
(***************************************************************************)
LEMMA MfInvariantHolds == ProgramsSpec => []MfInvariant
<1>1. ProgramsInit => MfInvariant
  <2> SUFFICES ASSUME ProgramsInit PROVE MfInvariant
    OBVIOUS
  <2>1. MfInit \/ NoMeasure
    BY DEF ProgramsInit
  <2>2. /\ CyclesPerTick \in Nat /\ MtimeWord \in Nat /\ McycleWord \in Nat
        /\ McycleWord > CyclesPerTick
    BY MeasureAssumption, Missed
  <2>3. /\ mf_at = "first" /\ elapsed = 0 /\ interrupted = FALSE
        /\ mf_fn \in {"init.c", "driver"} /\ mf_ticks \in {1, MeasuredTicks}
        /\ (mf_fn = "driver" => mf_ticks = MeasuredTicks)
        /\ start_mtime = 0 /\ end_mtime = 0 /\ delta_mtime = 0
        /\ start_mcycle = 0 /\ cpu_freq = 0
    BY <2>1 DEF MfInit, NoMeasure
  <2>4. phase \in Nat
    BY <2>1, <2>2 DEF MfInit, NoMeasure
  <2>5. mcycle0 \in Nat
    BY <2>1, <2>2 DEF MfInit, NoMeasure
  <2>6. MfTypeOK
    <3>0. elapsed \in Nat /\ interrupted \in BOOLEAN
      BY <2>3
    <3>1. {elapsed, phase, mcycle0} \subseteq Nat
      BY <2>4, <2>5, <3>0
    <3>2. {start_mtime, end_mtime, delta_mtime, start_mcycle, cpu_freq} \subseteq Nat
      BY <2>3
    <3> QED
      BY <2>3, <3>0, <3>1, <3>2 DEF MfTypeOK
  <2>7. MeasuredRight
    BY <2>3 DEF MeasuredRight
  <2> QED
    BY <2>3, <2>6, <2>7 DEF MfInvariant
<1> QED
  BY <1>1, MfInvariantStep, StepOfAProgram, PTL DEF ProgramsSpec

(***************************************************************************)
(* The frequency that get_cpu_freq and the clock driver find is right but  *)
(* for what an interrupt and one poll take, over wraps of both counters.   *)
(***************************************************************************)
THEOREM FrequencyFound == ProgramsSpec => []MeasuredRight
<1>1. MfInvariant => MeasuredRight
  BY DEF MfInvariant
<1> QED
  BY <1>1, MfInvariantHolds, PTL

-----------------------------------------------------------------------------
(***************************************************************************)
(* Dhrystone.  The fields of the program's state, and of a record.         *)
(***************************************************************************)
DhryFields ==
    {"Int_Glob", "Bool_Glob", "Ch_1_Glob", "Ch_2_Glob", "Arr_1_Glob",
     "Arr_2_Glob", "Ptr_Glob", "Next_Ptr_Glob", "Rec", "Int_1_Loc",
     "Int_2_Loc", "Int_3_Loc", "Enum_Loc", "Str_1_Loc", "Str_2_Loc",
     "Run_Index", "Ch_Index"}

RecordFields == {"Ptr_Comp", "Discr", "Enum_Comp", "Int_Comp", "Str_Comp"}

(***************************************************************************)
(* What the set-up leaves and no run changes.                              *)
(***************************************************************************)
SetUpOnce ==
    /\ dhry.Ptr_Glob = "glob" /\ dhry.Next_Ptr_Glob = "next"
    /\ dhry.Str_1_Loc = "first"
    /\ dhry.Rec["glob"].Ptr_Comp = "next" /\ dhry.Rec["glob"].Discr = 0
    /\ dhry.Rec["glob"].Enum_Comp = 2 /\ dhry.Rec["glob"].Str_Comp = "some"

(***************************************************************************)
(* What a run sets before it needs it: by its letters and strings, by its  *)
(* arrays, by its records.                                                 *)
(***************************************************************************)
BehindStrings == {"strings", "while", "records", "letters", "proc_2"}

BehindArrays == {"records", "letters", "proc_2"}

BehindRecords == {"letters", "proc_2"}

LettersOfARun ==
    /\ dhry.Bool_Glob = 1 /\ dhry.Ch_1_Glob = 65 /\ dhry.Ch_2_Glob = 66
    /\ dhry.Enum_Loc = 1 /\ dhry.Str_2_Loc = "second"

ArraysOfARun ==
    dhry.Int_Glob = 5 /\ dhry.Int_3_Loc = 7 /\ ReadAt(dhry.Arr_1_Glob, 8) = 7

RecordsOfARun ==
    /\ dhry.Rec["glob"].Int_Comp = 17
    /\ dhry.Rec["next"].Ptr_Comp = "next" /\ dhry.Rec["next"].Discr = 0
    /\ dhry.Rec["next"].Enum_Comp = 1 /\ dhry.Rec["next"].Int_Comp = 18
    /\ dhry.Rec["next"].Str_Comp = "some"

(***************************************************************************)
(* Arr_2_Glob [8][7] counts the runs that have filled the arrays.          *)
(***************************************************************************)
RunsCounted ==
    ReadAt(dhry.Arr_2_Glob, <<8, 7>>) =
        IF dhry_at \in BehindArrays THEN dhry.Run_Index + 10
        ELSE dhry.Run_Index + 9

LocalsOfARun ==
    /\ dhry_at \in {"strings", "while"} => dhry.Int_2_Loc = 3
    /\ dhry_at = "strings" => dhry.Int_1_Loc = 2
    /\ dhry_at = "while" =>
          dhry.Int_1_Loc = 2 \/ (dhry.Int_1_Loc = 3 /\ dhry.Int_3_Loc = 7)
    /\ dhry_at \in {"records", "letters"} => dhry.Int_1_Loc = 3 /\ dhry.Int_2_Loc = 3
    /\ dhry_at = "letters" => dhry.Ch_Index \in 65..67
    /\ dhry_at = "proc_2" => dhry.Int_1_Loc = 1 /\ dhry.Int_2_Loc = 13

DhryTypeOK ==
    /\ dhry_at \in {"setup", "runs", "done"} \cup BehindStrings
    /\ DOMAIN dhry = DhryFields
    /\ DOMAIN dhry.Rec = {"glob", "next"}
    /\ DOMAIN dhry.Rec["glob"] = RecordFields
    /\ dhry_at # "setup" => dhry.Run_Index \in 1..(Number_Of_Runs + 1)

(***************************************************************************)
(* Behind the last run, and between two runs, is all that a run has set.   *)
(***************************************************************************)
RunsLeave ==
    dhry_at \in {"runs", "done"} /\ dhry.Run_Index > 1 =>
        /\ LettersOfARun /\ ArraysOfARun /\ RecordsOfARun
        /\ dhry.Int_1_Loc = 5 /\ dhry.Int_2_Loc = 13

DhryInvariant ==
    /\ DhryTypeOK
    /\ dhry_at # "setup" => SetUpOnce /\ RunsCounted
    /\ dhry_at \in BehindStrings =>
          LettersOfARun /\ dhry.Run_Index <= Number_Of_Runs
    /\ dhry_at \in BehindArrays => ArraysOfARun
    /\ dhry_at \in BehindRecords => RecordsOfARun
    /\ LocalsOfARun /\ RunsLeave
    /\ dhry_at = "done" => report.values = report.shouldBe

(***************************************************************************)
(* An assignment to an array is what is read at its index, and nothing     *)
(* else.                                                                   *)
(***************************************************************************)
LEMMA ReadWritten ==
    \A a, i, j, v :
        ReadAt(WriteAt(a, i, v), j) = IF j = i THEN v ELSE ReadAt(a, j)
  BY DEF ReadAt, WriteAt

(***************************************************************************)
(* The sums that a run makes.                                              *)
(***************************************************************************)
LEMMA SumsOfARun == Proc_7(10, 5) = 17 /\ Proc_7(6, 10) = 18 /\ Proc_7(2, 3) = 7
  BY DEF Proc_7

(***************************************************************************)
(* Proc_1 on the records as the set-up, or the run before, has left them.  *)
(***************************************************************************)
LEMMA RecordsChained ==
    ASSUME NEW s,
           DOMAIN s.Rec = {"glob", "next"}, DOMAIN s.Rec["glob"] = RecordFields,
           s.Rec["glob"].Ptr_Comp = "next", s.Rec["glob"].Discr = 0,
           s.Rec["glob"].Enum_Comp = 2, s.Rec["glob"].Str_Comp = "some",
           s.Ptr_Glob = "glob", s.Int_Glob = 5
    PROVE  \E k :
        /\ Proc_1(s, "glob") = [s EXCEPT !.Rec = k]
        /\ DOMAIN k = {"glob", "next"} /\ DOMAIN k["glob"] = RecordFields
        /\ k["glob"].Ptr_Comp = "next" /\ k["glob"].Discr = 0
        /\ k["glob"].Enum_Comp = 2 /\ k["glob"].Str_Comp = "some"
        /\ k["glob"].Int_Comp = 17
        /\ k["next"].Ptr_Comp = "next" /\ k["next"].Discr = 0
        /\ k["next"].Enum_Comp = 1 /\ k["next"].Str_Comp = "some"
        /\ k["next"].Int_Comp = 18
<1> DEFINE h  == s.Rec
           h1 == [h EXCEPT !["next"] = h["glob"]]
           h2 == [h1 EXCEPT !["glob"].Int_Comp = 5]
           h3 == [h2 EXCEPT !["next"].Int_Comp = h2["glob"].Int_Comp]
           h4 == [h3 EXCEPT !["next"].Ptr_Comp = h3["glob"].Ptr_Comp]
           h5 == [h4 EXCEPT !["next"].Ptr_Comp = h4["glob"].Ptr_Comp]
           h6 == [h5 EXCEPT !["glob"].Int_Comp = 17]
           k1 == [h6 EXCEPT !["next"].Int_Comp = 6]
           k2 == [k1 EXCEPT !["next"].Enum_Comp = Proc_6(s, k1["glob"].Enum_Comp)]
           k3 == [k2 EXCEPT !["next"].Ptr_Comp = k2["glob"].Ptr_Comp]
           k4 == [k3 EXCEPT !["next"].Int_Comp = Proc_7(k3["next"].Int_Comp, 10)]
           Shape(rec) == /\ DOMAIN rec = {"glob", "next"}
                         /\ DOMAIN rec["glob"] = RecordFields
                         /\ DOMAIN rec["next"] = RecordFields
           Glob(rec) ==
               /\ rec["glob"].Ptr_Comp = "next" /\ rec["glob"].Discr = 0
               /\ rec["glob"].Enum_Comp = 2 /\ rec["glob"].Str_Comp = "some"
           Other(rec) ==
               rec["next"].Discr = 0 /\ rec["next"].Str_Comp = "some"
<1>1. Shape(h1) /\ Glob(h1) /\ Other(h1)
  OBVIOUS
<1>2. Shape(h2) /\ Glob(h2) /\ Other(h2)
  <2> HIDE DEF h1
  <2> QED
    BY <1>1 DEF RecordFields
<1>3. Shape(h3) /\ Glob(h3) /\ Other(h3)
  <2> HIDE DEF h2
  <2> QED
    BY <1>2 DEF RecordFields
<1>4. Shape(h4) /\ Glob(h4) /\ Other(h4) /\ h4["next"].Ptr_Comp = "next"
  <2> HIDE DEF h3
  <2> QED
    BY <1>3 DEF RecordFields
<1>5. Shape(h5) /\ Glob(h5) /\ Other(h5) /\ h5["next"].Ptr_Comp = "next"
  <2> HIDE DEF h4
  <2> QED
    BY <1>4 DEF RecordFields
<1>6. Shape(h6) /\ Glob(h6) /\ Other(h6) /\ h6["next"].Ptr_Comp = "next"
      /\ h6["glob"].Int_Comp = 17
  <2> HIDE DEF h5
  <2> QED
    BY <1>5 DEF RecordFields
<1>7. Shape(k1) /\ Glob(k1) /\ Other(k1) /\ k1["next"].Int_Comp = 6
      /\ k1["glob"].Int_Comp = 17
  <2> HIDE DEF h6
  <2> QED
    BY <1>6 DEF RecordFields
<1>8. Shape(k2) /\ Glob(k2) /\ Other(k2) /\ k2["next"].Int_Comp = 6
      /\ k2["glob"].Int_Comp = 17 /\ k2["next"].Enum_Comp = 1
  <2>1. Proc_6(s, k1["glob"].Enum_Comp) = 1
    <3> HIDE DEF k1
    <3> QED
      BY <1>7 DEF Proc_6, Ident_1, Ident_2, Ident_3, Ident_5
  <2> HIDE DEF k1
  <2> QED
    BY <1>7, <2>1 DEF RecordFields
<1>9. Shape(k3) /\ Glob(k3) /\ Other(k3) /\ k3["next"].Int_Comp = 6
      /\ k3["glob"].Int_Comp = 17 /\ k3["next"].Enum_Comp = 1
      /\ k3["next"].Ptr_Comp = "next"
  <2> HIDE DEF k2
  <2> QED
    BY <1>8 DEF RecordFields
<1>10. Shape(k4) /\ Glob(k4) /\ Other(k4) /\ k4["next"].Int_Comp = 18
       /\ k4["glob"].Int_Comp = 17 /\ k4["next"].Enum_Comp = 1
       /\ k4["next"].Ptr_Comp = "next"
  <2>1. Proc_7(k3["next"].Int_Comp, 10) = 18
    <3> HIDE DEF k3
    <3> QED
      BY <1>9, SumsOfARun
  <2> HIDE DEF k3
  <2> QED
    BY <1>9, <2>1 DEF RecordFields
<1>11. Proc_1Start(s, "glob", "next") = h6
  <2>1. Proc_7(10, s.Int_Glob) = 17
    BY SumsOfARun
  <2>2. Proc_3(s, h4, "next") = h6
    <3> HIDE DEF h4
    <3> QED
      BY <2>1 DEF Proc_3
  <2>3. h4 = [h3 EXCEPT !["next"].Ptr_Comp = h3["glob"].Ptr_Comp]
    OBVIOUS
  <2>4. Proc_1Start(s, "glob", "next") =
           Proc_3(s, [h3 EXCEPT !["next"].Ptr_Comp = h3["glob"].Ptr_Comp], "next")
    BY DEF Proc_1Start
  <2> QED
    BY <2>2, <2>4
<1>12. Proc_1(s, "glob") = [s EXCEPT !.Rec = k4]
  <2> HIDE DEF h6
  <2>1. h6["next"].Discr = 0
    BY <1>6
  <2> QED
    BY <1>11, <2>1 DEF Proc_1, Ident_1
<1> HIDE DEF k4
<1> QED
  BY <1>10, <1>12

-----------------------------------------------------------------------------
(***************************************************************************)
(* Memory as it is found has the program's fields, and no more is known.   *)
(***************************************************************************)
LEMMA DhryStarts == DhryInit => DhryInvariant
<1> SUFFICES ASSUME DhryInit PROVE DhryInvariant
  OBVIOUS
<1>1. /\ DOMAIN dhry = DhryFields /\ DOMAIN dhry.Rec = {"glob", "next"}
      /\ DOMAIN dhry.Rec["glob"] = RecordFields /\ dhry_at = "setup"
  BY DEF DhryInit, DhryFields, RecordFields, JunkRecord
<1> QED
  BY <1>1 DEF DhryInvariant, DhryTypeOK, LocalsOfARun, RunsLeave,
     BehindStrings, BehindArrays, BehindRecords

(***************************************************************************)
(* The set-up, whatever memory held.                                       *)
(***************************************************************************)
LEMMA SetUpKeeps == DhryInvariant /\ SetUp => DhryInvariant'
<1> SUFFICES ASSUME DhryInvariant, SetUp PROVE DhryInvariant'
  OBVIOUS
<1>1. dhry_at = "setup" /\ dhry_at' = "runs"
  BY DEF SetUp, Continue
<1>2. /\ DOMAIN dhry = DhryFields
      /\ DOMAIN dhry.Rec = {"glob", "next"}
  BY DEF DhryInvariant, DhryTypeOK
<1>3. /\ DOMAIN dhry' = DhryFields
      /\ dhry'.Ptr_Glob = "glob" /\ dhry'.Next_Ptr_Glob = "next"
      /\ dhry'.Str_1_Loc = "first" /\ dhry'.Run_Index = 1
  BY <1>2 DEF SetUp, Continue, DhryFields
<1>4. dhry'.Arr_2_Glob = WriteAt(dhry.Arr_2_Glob, <<8, 7>>, 10)
  BY <1>2 DEF SetUp, Continue, DhryFields
<1>5. dhry'.Rec = [dhry.Rec EXCEPT !["glob"] =
           [Ptr_Comp |-> "next", Discr |-> Ident_1, Enum_Comp |-> Ident_3,
            Int_Comp |-> 40, Str_Comp |-> "some"]]
  BY <1>2 DEF SetUp, Continue, DhryFields
<1>6. /\ DOMAIN dhry'.Rec = {"glob", "next"}
      /\ DOMAIN dhry'.Rec["glob"] = RecordFields
      /\ dhry'.Rec["glob"].Ptr_Comp = "next" /\ dhry'.Rec["glob"].Discr = 0
      /\ dhry'.Rec["glob"].Enum_Comp = 2 /\ dhry'.Rec["glob"].Str_Comp = "some"
  BY <1>2, <1>5 DEF RecordFields, Ident_1, Ident_3
<1>7. ReadAt(dhry'.Arr_2_Glob, <<8, 7>>) = 10
  BY <1>4, ReadWritten
<1>8. DhryTypeOK' /\ SetUpOnce' /\ RunsCounted'
  BY <1>1, <1>3, <1>6, <1>7, RunsAssumption
  DEF DhryTypeOK, SetUpOnce, RunsCounted, BehindArrays
<1> QED
  BY <1>1, <1>3, <1>8 DEF DhryInvariant, LocalsOfARun, RunsLeave,
     BehindStrings, BehindArrays, BehindRecords

(***************************************************************************)
(* A run starts: Proc_5 and Proc_4 set the letters from one another.       *)
(***************************************************************************)
LEMMA RunStarts == DhryInvariant /\ NextRun => DhryInvariant'
<1> SUFFICES ASSUME DhryInvariant, NextRun PROVE DhryInvariant'
  OBVIOUS
<1>1. /\ dhry_at = "runs" /\ dhry_at' = "strings"
      /\ dhry.Run_Index <= Number_Of_Runs /\ DOMAIN dhry = DhryFields
  BY DEF NextRun, Continue, DhryInvariant, DhryTypeOK
<1> DEFINE s == Proc_5(dhry)
           t == Proc_4(s)
<1>2. dhry' = [t EXCEPT !.Int_1_Loc = 2, !.Int_2_Loc = 3,
                        !.Str_2_Loc = "second", !.Enum_Loc = Ident_2]
  BY DEF NextRun, Continue
<1>3. /\ DOMAIN s = DhryFields /\ s.Ch_1_Glob = 65
      /\ \A f \in DhryFields \ {"Ch_1_Glob", "Bool_Glob"} : s[f] = dhry[f]
  BY <1>1 DEF DhryFields, Letter, Proc_5
<1>4. /\ DOMAIN t = DhryFields
      /\ t.Ch_1_Glob = 65 /\ t.Bool_Glob = 1 /\ t.Ch_2_Glob = 66
      /\ \A f \in DhryFields \ {"Ch_1_Glob", "Bool_Glob", "Ch_2_Glob"} :
            t[f] = dhry[f]
  <2> HIDE DEF s
  <2> QED
    BY <1>3 DEF DhryFields, Letter, Proc_4
<1> HIDE DEF t
<1>5. /\ DOMAIN dhry' = DhryFields /\ LettersOfARun'
      /\ dhry'.Int_1_Loc = 2 /\ dhry'.Int_2_Loc = 3
      /\ \A f \in {"Arr_2_Glob", "Ptr_Glob", "Next_Ptr_Glob", "Rec",
                   "Str_1_Loc", "Run_Index"} : dhry'[f] = dhry[f]
  BY <1>2, <1>4 DEF DhryFields, LettersOfARun, Ident_2
<1>6. DhryTypeOK' /\ SetUpOnce' /\ RunsCounted' /\ LocalsOfARun'
  BY <1>1, <1>5 DEF DhryInvariant, DhryTypeOK, SetUpOnce, RunsCounted,
     LocalsOfARun, BehindStrings, BehindArrays
<1> QED
  BY <1>1, <1>5, <1>6 DEF DhryInvariant, RunsLeave, BehindArrays, BehindRecords

(***************************************************************************)
(* The loop over the letters and Proc_2's do not change what main has: the *)
(* letters are not the ones that are looked for.                           *)
(***************************************************************************)
LEMMA StringsCompared == DhryInvariant /\ CompareStrings => DhryInvariant'
<1> SUFFICES ASSUME DhryInvariant, CompareStrings PROVE DhryInvariant'
  OBVIOUS
<1>1. dhry_at = "strings" /\ dhry_at' = "while"
  BY DEF CompareStrings, Continue
<1>2. /\ DOMAIN dhry = DhryFields
      /\ dhry.Str_1_Loc = "first" /\ dhry.Str_2_Loc = "second"
  BY <1>1 DEF DhryInvariant, DhryTypeOK, SetUpOnce, LettersOfARun, BehindStrings
<1>3. AfterFunc_1(dhry, StringChar(2), StringChar(3)) = dhry
  BY DEF AfterFunc_1, StringChar, Letter
<1>4. ~Func_2(dhry) /\ AfterFunc_2(dhry) = dhry
  BY <1>2 DEF Func_2, AfterFunc_2, Strings
<1>5. dhry' = [dhry EXCEPT !.Bool_Glob = 1]
  BY <1>3, <1>4 DEF CompareStrings, Continue
<1>6. DOMAIN dhry' = DhryFields /\ dhry'.Bool_Glob = 1
  BY <1>2, <1>5 DEF DhryFields
<1>7. \A f \in {"Arr_2_Glob", "Ptr_Glob", "Next_Ptr_Glob", "Rec", "Str_1_Loc",
                "Run_Index", "Ch_1_Glob", "Ch_2_Glob", "Enum_Loc", "Str_2_Loc",
                "Int_1_Loc", "Int_2_Loc"} : dhry'[f] = dhry[f]
  BY <1>2, <1>5 DEF DhryFields
<1>8. DhryTypeOK' /\ SetUpOnce'
  BY <1>1, <1>6, <1>7
  DEF DhryInvariant, DhryTypeOK, SetUpOnce, BehindStrings
<1>9. LettersOfARun' /\ dhry'.Run_Index <= Number_Of_Runs
  BY <1>1, <1>6, <1>7 DEF DhryInvariant, LettersOfARun, BehindStrings
<1>10. LocalsOfARun'
  BY <1>1, <1>7 DEF DhryInvariant, LocalsOfARun
<1>11. RunsCounted'
  BY <1>1, <1>7 DEF DhryInvariant, RunsCounted, BehindArrays
<1> QED
  BY <1>1, <1>8, <1>9, <1>10, <1>11 DEF DhryInvariant, RunsLeave, BehindStrings,
     BehindArrays, BehindRecords

(***************************************************************************)
(* The loop of main is gone round once.                                    *)
(***************************************************************************)
LEMMA BodyKeeps == DhryInvariant /\ WhileBody => DhryInvariant'
<1> SUFFICES ASSUME DhryInvariant, WhileBody PROVE DhryInvariant'
  OBVIOUS
<1>1. /\ dhry_at = "while" /\ dhry_at' = "while"
      /\ DOMAIN dhry = DhryFields /\ dhry.Int_1_Loc = 2 /\ dhry.Int_2_Loc = 3
  BY DEF WhileBody, Continue, DhryInvariant, DhryTypeOK, LocalsOfARun
<1>2. dhry' = [dhry EXCEPT !.Int_3_Loc = 7, !.Int_1_Loc = 3]
  <2>1. dhry' = [dhry EXCEPT !.Int_3_Loc = Proc_7(2, 3), !.Int_1_Loc = 2 + 1]
    BY <1>1 DEF WhileBody, Continue
  <2>2. Proc_7(2, 3) = 7
    BY SumsOfARun
  <2>3. 2 + 1 = 3
    OBVIOUS
  <2> QED
    BY <2>1, <2>2, <2>3
<1>3. /\ DOMAIN dhry' = DhryFields
      /\ dhry'.Int_3_Loc = 7 /\ dhry'.Int_1_Loc = 3
      /\ \A f \in {"Arr_2_Glob", "Ptr_Glob", "Next_Ptr_Glob", "Rec",
                   "Str_1_Loc", "Run_Index", "Ch_1_Glob", "Ch_2_Glob",
                   "Bool_Glob", "Enum_Loc", "Str_2_Loc", "Int_2_Loc"} :
            dhry'[f] = dhry[f]
  BY <1>1, <1>2 DEF DhryFields
<1>4. DhryTypeOK' /\ SetUpOnce' /\ RunsCounted' /\ LocalsOfARun' /\ LettersOfARun'
  BY <1>1, <1>3 DEF DhryInvariant, DhryTypeOK, SetUpOnce, RunsCounted,
     LettersOfARun, LocalsOfARun, BehindStrings, BehindArrays
<1> QED
  BY <1>1, <1>3, <1>4 DEF DhryInvariant, RunsLeave, BehindStrings, BehindArrays,
     BehindRecords

(***************************************************************************)
(* Proc_8 writes [8] of the one array and counts at [8][7] of the other.   *)
(***************************************************************************)
LEMMA ArraysFilled == DhryInvariant /\ FillArrays => DhryInvariant'
<1> SUFFICES ASSUME DhryInvariant, FillArrays PROVE DhryInvariant'
  OBVIOUS
<1>1. /\ dhry_at = "while" /\ dhry_at' = "records" /\ DOMAIN dhry = DhryFields
      /\ dhry.Int_1_Loc = 3 /\ dhry.Int_2_Loc = 3 /\ dhry.Int_3_Loc = 7
  BY DEF FillArrays, Continue, DhryInvariant, DhryTypeOK, LocalsOfARun
<1> DEFINE arr1 == WriteAt(WriteAt(WriteAt(dhry.Arr_1_Glob, 8, 7), 9, 7), 38, 8)
           arr2 == WriteAt(WriteAt(dhry.Arr_2_Glob, <<8, 8>>, 8), <<8, 9>>, 8)
           more == WriteAt(arr2, <<8, 7>>, ReadAt(arr2, <<8, 7>>) + 1)
           filled == WriteAt(more, <<28, 8>>, ReadAt(arr1, 8))
<1>2. dhry' = [dhry EXCEPT !.Arr_1_Glob = arr1, !.Arr_2_Glob = filled, !.Int_Glob = 5]
  <2>1. dhry' = Proc_8(dhry, 3, 7)
    BY <1>1 DEF FillArrays, Continue
  <2>2. /\ 3 + 5 = 8 /\ 8 + 1 = 9 /\ 8 + 30 = 38 /\ 8 - 1 = 7 /\ 8 + 20 = 28
    OBVIOUS
  <2> QED
    BY <2>1, <2>2 DEF Proc_8
<1>3. /\ DOMAIN dhry' = DhryFields
      /\ dhry'.Int_Glob = 5 /\ dhry'.Arr_1_Glob = arr1
      /\ dhry'.Arr_2_Glob = filled
      /\ \A f \in {"Ptr_Glob", "Next_Ptr_Glob", "Rec", "Str_1_Loc", "Run_Index",
                   "Ch_1_Glob", "Ch_2_Glob", "Bool_Glob", "Enum_Loc", "Str_2_Loc",
                   "Int_1_Loc", "Int_2_Loc", "Int_3_Loc"} : dhry'[f] = dhry[f]
  <2> HIDE DEF arr1, filled
  <2> QED
    BY <1>1, <1>2 DEF DhryFields
<1>4. ReadAt(arr1, 8) = 7
  <2>1. /\ ReadAt(arr1, 8) = ReadAt(WriteAt(WriteAt(dhry.Arr_1_Glob, 8, 7), 9, 7), 8)
        /\ ReadAt(WriteAt(WriteAt(dhry.Arr_1_Glob, 8, 7), 9, 7), 8)
              = ReadAt(WriteAt(dhry.Arr_1_Glob, 8, 7), 8)
    BY ReadWritten
  <2> QED
    BY <2>1, ReadWritten
<1>5. ReadAt(dhry'.Arr_2_Glob, <<8, 7>>) = dhry.Run_Index + 10
  <2> DEFINE place == <<8, 7>>
  <2>1. place # <<8, 8>> /\ place # <<8, 9>> /\ place # <<28, 8>>
    OBVIOUS
  <2>2. ReadAt(dhry.Arr_2_Glob, place) = dhry.Run_Index + 9
    BY <1>1 DEF DhryInvariant, RunsCounted, BehindArrays
  <2> HIDE DEF place
  <2>3. ReadAt(arr2, place) = dhry.Run_Index + 9
    BY <1>2, <2>1, <2>2, ReadWritten
  <2>4. ReadAt(dhry'.Arr_2_Glob, place) = ReadAt(more, place)
    BY <1>3, <2>1, ReadWritten
  <2>5. ReadAt(more, place) = ReadAt(arr2, place) + 1
    BY <1>2, ReadWritten DEF place
  <2>6. dhry.Run_Index \in Int
    BY <1>1, RunsAssumption DEF DhryInvariant, DhryTypeOK
  <2> QED
    BY <2>3, <2>4, <2>5, <2>6 DEF place
<1>6. ArraysOfARun'
  BY <1>1, <1>3, <1>4 DEF ArraysOfARun
<1>7. DhryTypeOK' /\ SetUpOnce' /\ RunsCounted' /\ LocalsOfARun' /\ LettersOfARun'
  BY <1>1, <1>3, <1>5 DEF DhryInvariant, DhryTypeOK, SetUpOnce, RunsCounted,
     LettersOfARun, LocalsOfARun, BehindStrings, BehindArrays
<1> QED
  BY <1>1, <1>3, <1>6, <1>7 DEF DhryInvariant, RunsLeave, BehindStrings,
     BehindArrays, BehindRecords

(***************************************************************************)
(* The records, by Proc_1.                                                 *)
(***************************************************************************)
LEMMA ChainKeeps == DhryInvariant /\ ChainRecords => DhryInvariant'
<1> SUFFICES ASSUME DhryInvariant, ChainRecords PROVE DhryInvariant'
  OBVIOUS
<1>1. /\ dhry_at = "records" /\ dhry_at' = "letters" /\ DOMAIN dhry = DhryFields
      /\ DOMAIN dhry.Rec = {"glob", "next"}
      /\ DOMAIN dhry.Rec["glob"] = RecordFields
      /\ SetUpOnce /\ dhry.Int_Glob = 5
  BY DEF ChainRecords, Continue, DhryInvariant, DhryTypeOK, ArraysOfARun,
     BehindArrays
<1>2. PICK k :
        /\ Proc_1(dhry, "glob") = [dhry EXCEPT !.Rec = k]
        /\ DOMAIN k = {"glob", "next"} /\ DOMAIN k["glob"] = RecordFields
        /\ k["glob"].Ptr_Comp = "next" /\ k["glob"].Discr = 0
        /\ k["glob"].Enum_Comp = 2 /\ k["glob"].Str_Comp = "some"
        /\ k["glob"].Int_Comp = 17
        /\ k["next"].Ptr_Comp = "next" /\ k["next"].Discr = 0
        /\ k["next"].Enum_Comp = 1 /\ k["next"].Str_Comp = "some"
        /\ k["next"].Int_Comp = 18
  BY <1>1, RecordsChained DEF SetUpOnce
<1>3. dhry' = [[dhry EXCEPT !.Rec = k] EXCEPT !.Ch_Index = 65]
  BY <1>1, <1>2 DEF ChainRecords, Continue, SetUpOnce, Letter
<1>4. /\ DOMAIN dhry' = DhryFields /\ dhry'.Rec = k /\ dhry'.Ch_Index = 65
  BY <1>1, <1>3 DEF DhryFields
<1>5. \A f \in {"Arr_1_Glob", "Arr_2_Glob", "Ptr_Glob", "Next_Ptr_Glob",
                "Str_1_Loc", "Run_Index", "Ch_1_Glob", "Ch_2_Glob", "Bool_Glob",
                "Enum_Loc", "Str_2_Loc", "Int_1_Loc", "Int_2_Loc", "Int_3_Loc",
                "Int_Glob"} : dhry'[f] = dhry[f]
  BY <1>1, <1>3 DEF DhryFields
<1>6. DhryTypeOK' /\ SetUpOnce' /\ RecordsOfARun'
  BY <1>1, <1>2, <1>4, <1>5
  DEF DhryInvariant, DhryTypeOK, SetUpOnce, RecordsOfARun, BehindStrings
<1>7. RunsCounted' /\ LocalsOfARun'
  BY <1>1, <1>4, <1>5 DEF DhryInvariant, RunsCounted, LocalsOfARun, BehindArrays
<1>8. LettersOfARun' /\ ArraysOfARun' /\ dhry'.Run_Index <= Number_Of_Runs
  BY <1>1, <1>5 DEF DhryInvariant, LettersOfARun, ArraysOfARun, BehindStrings,
     BehindArrays
<1> QED
  BY <1>1, <1>6, <1>7, <1>8 DEF DhryInvariant, RunsLeave

(***************************************************************************)
(* No letter up to Ch_2_Glob is 'C', and Enum_Loc is not what Func_1       *)
(* answers for letters that differ: the loop only counts.                  *)
(***************************************************************************)
LEMMA LetterKeeps == DhryInvariant /\ NextLetter => DhryInvariant'
<1> SUFFICES ASSUME DhryInvariant, NextLetter PROVE DhryInvariant'
  OBVIOUS
<1>1. /\ dhry_at = "letters" /\ dhry_at' = "letters" /\ DOMAIN dhry = DhryFields
      /\ dhry.Ch_Index \in 65..67 /\ dhry.Ch_Index <= 66 /\ dhry.Enum_Loc = 1
  BY DEF NextLetter, Continue, DhryInvariant, DhryTypeOK, LocalsOfARun,
     LettersOfARun, BehindStrings
<1>2. /\ AfterFunc_1(dhry, dhry.Ch_Index, Letter.C) = dhry
      /\ dhry.Enum_Loc # Func_1(dhry.Ch_Index, Letter.C)
  BY <1>1 DEF AfterFunc_1, Func_1, Letter, Ident_1, Ident_2
<1>3. /\ DOMAIN dhry' = DhryFields /\ dhry'.Ch_Index = dhry.Ch_Index + 1
      /\ \A f \in {"Arr_1_Glob", "Arr_2_Glob", "Ptr_Glob", "Next_Ptr_Glob", "Rec",
                   "Str_1_Loc", "Run_Index", "Ch_1_Glob", "Ch_2_Glob",
                   "Bool_Glob", "Enum_Loc", "Str_2_Loc", "Int_1_Loc",
                   "Int_2_Loc", "Int_3_Loc", "Int_Glob"} : dhry'[f] = dhry[f]
  BY <1>1, <1>2 DEF NextLetter, Continue, DhryFields
<1>4. DhryTypeOK' /\ SetUpOnce' /\ RecordsOfARun'
  BY <1>1, <1>3 DEF DhryInvariant, DhryTypeOK, SetUpOnce, RecordsOfARun,
     BehindStrings, BehindRecords
<1>5. RunsCounted' /\ LocalsOfARun'
  BY <1>1, <1>3 DEF DhryInvariant, RunsCounted, LocalsOfARun, BehindArrays
<1>6. LettersOfARun' /\ ArraysOfARun' /\ dhry'.Run_Index <= Number_Of_Runs
  BY <1>1, <1>3 DEF DhryInvariant, LettersOfARun, ArraysOfARun, BehindStrings,
     BehindArrays
<1> QED
  BY <1>1, <1>4, <1>5, <1>6 DEF DhryInvariant, RunsLeave

(***************************************************************************)
(* The numbers that the comments of main give.                             *)
(***************************************************************************)
LEMMA ArithmeticKeeps == DhryInvariant /\ Arithmetic => DhryInvariant'
<1> SUFFICES ASSUME DhryInvariant, Arithmetic PROVE DhryInvariant'
  OBVIOUS
<1>1. /\ dhry_at = "letters" /\ dhry_at' = "proc_2" /\ DOMAIN dhry = DhryFields
      /\ dhry.Int_1_Loc = 3 /\ dhry.Int_2_Loc = 3 /\ dhry.Int_3_Loc = 7
  BY DEF Arithmetic, Continue, DhryInvariant, DhryTypeOK, LocalsOfARun,
     ArraysOfARun, BehindArrays
<1>2. 3 * 3 = 9 /\ 9 \div 7 = 1 /\ 7 * (9 - 7) - 1 = 13
  OBVIOUS
<1>3. dhry' = [dhry EXCEPT !.Int_1_Loc = 1, !.Int_2_Loc = 13]
  BY <1>1, <1>2 DEF Arithmetic, Continue
<1>4. /\ DOMAIN dhry' = DhryFields
      /\ dhry'.Int_1_Loc = 1 /\ dhry'.Int_2_Loc = 13
      /\ \A f \in {"Arr_1_Glob", "Arr_2_Glob", "Ptr_Glob", "Next_Ptr_Glob", "Rec",
                   "Str_1_Loc", "Run_Index", "Ch_1_Glob", "Ch_2_Glob",
                   "Bool_Glob", "Enum_Loc", "Str_2_Loc", "Int_3_Loc",
                   "Int_Glob"} : dhry'[f] = dhry[f]
  BY <1>1, <1>3 DEF DhryFields
<1>5. DhryTypeOK' /\ SetUpOnce' /\ RecordsOfARun'
  BY <1>1, <1>4 DEF DhryInvariant, DhryTypeOK, SetUpOnce, RecordsOfARun,
     BehindStrings, BehindRecords
<1>6. RunsCounted' /\ LocalsOfARun'
  BY <1>1, <1>4 DEF DhryInvariant, RunsCounted, LocalsOfARun, BehindArrays
<1>7. LettersOfARun' /\ ArraysOfARun' /\ dhry'.Run_Index <= Number_Of_Runs
  BY <1>1, <1>4 DEF DhryInvariant, LettersOfARun, ArraysOfARun, BehindStrings,
     BehindArrays
<1> QED
  BY <1>1, <1>5, <1>6, <1>7 DEF DhryInvariant, RunsLeave

(***************************************************************************)
(* The run ends, and counts: Ch_1_Glob is 'A', so that nothing is read     *)
(* that was not set.                                                       *)
(***************************************************************************)
LEMMA RunEnds == DhryInvariant /\ Proc_2 => DhryInvariant'
<1> SUFFICES ASSUME DhryInvariant, Proc_2 PROVE DhryInvariant'
  OBVIOUS
<1>1. /\ dhry_at = "proc_2" /\ DOMAIN dhry = DhryFields
      /\ dhry.Ch_1_Glob = 65 /\ dhry.Int_1_Loc = 1 /\ dhry.Int_2_Loc = 13
      /\ dhry.Int_Glob = 5 /\ dhry.Run_Index \in 1..Number_Of_Runs
  BY RunsAssumption DEF Proc_2, DhryInvariant, DhryTypeOK, LocalsOfARun,
     ArraysOfARun, LettersOfARun, BehindStrings, BehindArrays
<1>2. dhry_at' = "runs"
  BY <1>1 DEF Proc_2, Letter
<1>3. (1 + 10 - 1) - 5 = 5
  OBVIOUS
<1>4. dhry' = [dhry EXCEPT !.Int_1_Loc = 5, !.Run_Index = dhry.Run_Index + 1]
  BY <1>1, <1>2, <1>3 DEF Proc_2, Letter
<1>5. /\ DOMAIN dhry' = DhryFields
      /\ dhry'.Int_1_Loc = 5 /\ dhry'.Run_Index = dhry.Run_Index + 1
      /\ \A f \in {"Arr_1_Glob", "Arr_2_Glob", "Ptr_Glob", "Next_Ptr_Glob", "Rec",
                   "Str_1_Loc", "Ch_1_Glob", "Ch_2_Glob", "Bool_Glob",
                   "Enum_Loc", "Str_2_Loc", "Int_2_Loc", "Int_3_Loc",
                   "Int_Glob"} : dhry'[f] = dhry[f]
  BY <1>1, <1>4 DEF DhryFields
<1>6. DhryTypeOK' /\ SetUpOnce' /\ RecordsOfARun'
  BY <1>1, <1>2, <1>5, RunsAssumption DEF DhryInvariant, DhryTypeOK, SetUpOnce,
     RecordsOfARun, BehindStrings, BehindRecords
<1>7. RunsCounted' /\ LocalsOfARun'
  BY <1>1, <1>2, <1>5, RunsAssumption
  DEF DhryInvariant, RunsCounted, LocalsOfARun, BehindArrays
<1>8. LettersOfARun' /\ ArraysOfARun'
  BY <1>1, <1>5 DEF DhryInvariant, LettersOfARun, ArraysOfARun, BehindStrings,
     BehindArrays
<1>9. RunsLeave'
  BY <1>1, <1>5, <1>6, <1>8 DEF RunsLeave
<1> QED
  BY <1>2, <1>6, <1>7, <1>9 DEF DhryInvariant, BehindStrings, BehindArrays,
     BehindRecords

(***************************************************************************)
(* The report: at least one run was made, so all that it shows was set.    *)
(***************************************************************************)
LEMMA ReportRight == DhryInvariant /\ PrintValues => DhryInvariant'
<1> SUFFICES ASSUME DhryInvariant, PrintValues PROVE DhryInvariant'
  OBVIOUS
<1>1. /\ dhry_at = "runs" /\ dhry_at' = "done" /\ dhry' = dhry
      /\ dhry.Run_Index = Number_Of_Runs + 1 /\ dhry.Run_Index > 1
  BY RunsAssumption DEF PrintValues, DhryInvariant, DhryTypeOK
<1>2. SetUpOnce /\ LettersOfARun /\ ArraysOfARun /\ RecordsOfARun
      /\ dhry.Int_1_Loc = 5 /\ dhry.Int_2_Loc = 13
  BY <1>1 DEF DhryInvariant, RunsLeave
<1>3. ReadAt(dhry.Arr_2_Glob, <<8, 7>>) = Number_Of_Runs + 10
  BY <1>1, RunsAssumption DEF DhryInvariant, RunsCounted, BehindArrays
<1>4. /\ Shown(dhry, dhry.Ptr_Glob) =
            [Ptr_Comp |-> "next", Discr |-> 0, Enum_Comp |-> 2,
             Int_Comp |-> 17, Str_Comp |-> "some"]
      /\ Shown(dhry, dhry.Next_Ptr_Glob) =
            [Ptr_Comp |-> "next", Discr |-> 0, Enum_Comp |-> 1,
             Int_Comp |-> 18, Str_Comp |-> "some"]
      /\ dhry.Rec[dhry.Ptr_Glob].Ptr_Comp = "next"
  BY <1>2 DEF Shown, SetUpOnce, RecordsOfARun
<1>5. report'.values = report'.shouldBe
  <2> HIDE DEF Shown
  <2> QED
    BY <1>2, <1>3, <1>4
    DEF PrintValues, SetUpOnce, LettersOfARun, ArraysOfARun, Letter
<1>6. DhryTypeOK' /\ SetUpOnce' /\ RunsCounted' /\ LocalsOfARun' /\ RunsLeave'
  BY <1>1 DEF DhryInvariant, DhryTypeOK, SetUpOnce, RunsCounted, LocalsOfARun,
     RunsLeave, LettersOfARun, ArraysOfARun, RecordsOfARun, BehindStrings,
     BehindArrays
<1> QED
  BY <1>1, <1>5, <1>6 DEF DhryInvariant, BehindStrings, BehindArrays,
     BehindRecords

(***************************************************************************)
(* Each statement of main keeps the invariant.                             *)
(***************************************************************************)
LEMMA DhryStep == DhryInvariant /\ [DhryNext]_dhry_vars => DhryInvariant'
<1> SUFFICES ASSUME DhryInvariant, UNCHANGED dhry_vars PROVE DhryInvariant'
  BY SetUpKeeps, RunStarts, StringsCompared, BodyKeeps, ArraysFilled, ChainKeeps,
     LetterKeeps, ArithmeticKeeps, RunEnds, ReportRight DEF DhryNext, Exited
<1> QED
  BY DEF dhry_vars, DhryInvariant, DhryTypeOK, SetUpOnce, RunsCounted,
     LocalsOfARun, RunsLeave, LettersOfARun, ArraysOfARun, RecordsOfARun

(***************************************************************************)
(* The invariant has what the comments of dhry_1.c say.                    *)
(***************************************************************************)
LEMMA InvariantSays == DhryInvariant => RunsAsCommented
<1> SUFFICES ASSUME DhryInvariant PROVE RunsAsCommented
  OBVIOUS
<1>1. /\ dhry_at = "strings" =>
            dhry.Ch_1_Glob = Letter.A /\ dhry.Ch_2_Glob = Letter.B
            /\ dhry.Bool_Glob = 1
      /\ dhry_at = "while" =>
            dhry.Bool_Glob = 1 /\ (dhry.Int_1_Loc = 3 => dhry.Int_3_Loc = 7)
  BY DEF DhryInvariant, LettersOfARun, LocalsOfARun, BehindStrings, Letter
<1>2. /\ dhry_at = "records" => IntLocals(3, 3, 7) /\ dhry.Int_Glob = 5
      /\ dhry_at = "letters" => IntLocals(3, 3, 7)
      /\ dhry_at = "proc_2" => IntLocals(1, 13, 7)
  BY DEF DhryInvariant, ArraysOfARun, LocalsOfARun, BehindArrays, IntLocals
<1>3. dhry_at = "letters" =>
         /\ dhry.Rec[dhry.Ptr_Glob].Ptr_Comp = "next"
         /\ dhry.Rec["next"].Ptr_Comp = "next"
  BY DEF DhryInvariant, SetUpOnce, RecordsOfARun, BehindRecords
<1>4. dhry_at = "runs" /\ dhry.Run_Index > 1 => dhry.Int_1_Loc = 5
  BY DEF DhryInvariant, RunsLeave
<1> QED
  BY <1>1, <1>2, <1>3, <1>4 DEF RunsAsCommented, DhryInvariant

(***************************************************************************)
(* Every run of Dhrystone goes as its comments say and the report prints   *)
(* what it says the values should be, however many runs are asked for.     *)
(***************************************************************************)
THEOREM DhrystoneAsCommented == ProgramsSpec => []RunsAsCommented
<1>1. ProgramsInit => DhryInvariant
  BY DhryStarts DEF ProgramsInit, NoDhry
<1>2. DhryInvariant /\ [ProgramsNext]_all_vars => DhryInvariant'
  BY DhryStep, StepOfAProgram
<1> QED
  BY <1>1, <1>2, InvariantSays, PTL DEF ProgramsSpec

-----------------------------------------------------------------------------
(***************************************************************************)
(* led_fade and coreplexip_welcome, for every strength of the colours. The *)
(* three ifs see each other's effect, and yet no counter goes below zero   *)
(* or above the full strength: what one gives up, the next one gets, and   *)
(* one of them is dark.                                                    *)
(***************************************************************************)
ColoursAddUp == program = "fade" =>
    /\ r \in 0..Full /\ g \in 0..Full /\ b \in 0..Full
    /\ r + g + b = Full /\ 0 \in {r, g, b}

(***************************************************************************)
(* A counter that can still grow, or shrink, does not wrap.                *)
(***************************************************************************)
LEMMA CountsPlainly ==
    /\ \A n \in 0..(CounterMax - 1) : Plus(n) = n + 1
    /\ \A n \in 1..CounterMax : Minus(n) = n - 1
<1> USE FadeAssumption
<1>1. ASSUME NEW n \in 0..(CounterMax - 1) PROVE Plus(n) = n + 1
  BY DEF Plus
<1>2. ASSUME NEW n \in 1..CounterMax PROVE Minus(n) = n - 1
  <2>1. n - 1 \in 0..((CounterMax + 1) - 1) /\ CounterMax + 1 \in Nat \ {0}
    OBVIOUS
  <2>2. n + CounterMax = (CounterMax + 1) * 1 + (n - 1)
    OBVIOUS
  <2>3. ((CounterMax + 1) * 1 + (n - 1)) % (CounterMax + 1) = n - 1
    BY <2>1, RemainderOf
  <2> QED
    BY <2>2, <2>3 DEF Minus
<1> QED
  BY <1>1, <1>2

Colour == [r : 0..Full, g : 0..Full, b : 0..Full]

OnTheWheel(c) ==
    c \in Colour /\ c.r + c.g + c.b = Full /\ (c.r = 0 \/ c.g = 0 \/ c.b = 0)

(***************************************************************************)
(* Each of the three ifs keeps a colour on the wheel.                      *)
(***************************************************************************)
LEMMA PassesOn ==
    ASSUME NEW c, OnTheWheel(c)
    PROVE  /\ OnTheWheel(RedToGreen(c)) /\ OnTheWheel(GreenToBlue(c))
           /\ OnTheWheel(BlueToRed(c))
<1> DEFINE x == c.r
           y == c.g
           z == c.b
<1>1. /\ c \in Colour /\ x \in 0..Full /\ y \in 0..Full /\ z \in 0..Full
      /\ x + y + z = Full /\ (x = 0 \/ y = 0 \/ z = 0)
      /\ Full \in Nat /\ CounterMax \in Nat /\ Full <= CounterMax
  BY FadeAssumption DEF OnTheWheel, Colour
<1> HIDE DEF x, y, z
<1>2. /\ \A n \in 0..(Full - 1) : Plus(n) = n + 1
      /\ \A n \in 1..Full : Minus(n) = n - 1
  BY <1>1, CountsPlainly
<1>3. CASE x > 0 /\ z = 0
  <2>1. Minus(x) = x - 1 /\ Plus(y) = y + 1 /\ x - 1 \in 0..Full /\ y + 1 \in 0..Full
        /\ (x - 1) + (y + 1) + z = Full
    BY <1>1, <1>2, <1>3
  <2>2. RedToGreen(c) = [c EXCEPT !.r = x - 1, !.g = y + 1]
    BY <1>3, <2>1 DEF RedToGreen, x, y, z
  <2>3. OnTheWheel([c EXCEPT !.r = x - 1, !.g = y + 1])
    BY <1>1, <1>3, <2>1 DEF OnTheWheel, Colour, x, y, z
  <2> QED
    BY <1>3, <2>2, <2>3 DEF GreenToBlue, BlueToRed, x, z
<1>4. CASE y > 0 /\ x = 0
  <2>1. Minus(y) = y - 1 /\ Plus(z) = z + 1 /\ y - 1 \in 0..Full /\ z + 1 \in 0..Full
        /\ x + (y - 1) + (z + 1) = Full
    BY <1>1, <1>2, <1>4
  <2>2. GreenToBlue(c) = [c EXCEPT !.g = y - 1, !.b = z + 1]
    BY <1>4, <2>1 DEF GreenToBlue, x, y, z
  <2>3. OnTheWheel([c EXCEPT !.g = y - 1, !.b = z + 1])
    BY <1>1, <1>4, <2>1 DEF OnTheWheel, Colour, x, y, z
  <2> QED
    BY <1>4, <2>2, <2>3 DEF RedToGreen, BlueToRed, x, y
<1>5. CASE z > 0 /\ y = 0
  <2>1. Minus(z) = z - 1 /\ Plus(x) = x + 1 /\ z - 1 \in 0..Full /\ x + 1 \in 0..Full
        /\ (x + 1) + y + (z - 1) = Full
    BY <1>1, <1>2, <1>5
  <2>2. BlueToRed(c) = [c EXCEPT !.r = x + 1, !.b = z - 1]
    BY <1>5, <2>1 DEF BlueToRed, x, y, z
  <2>3. OnTheWheel([c EXCEPT !.r = x + 1, !.b = z - 1])
    BY <1>1, <1>5, <2>1 DEF OnTheWheel, Colour, x, y, z
  <2> QED
    BY <1>5, <2>2, <2>3 DEF RedToGreen, GreenToBlue, y, z
<1> QED
  BY <1>1, <1>3, <1>4, <1>5 DEF RedToGreen, GreenToBlue, BlueToRed, x, y, z

(***************************************************************************)
(* The wheel keeps its light and no counter wraps, whatever the full       *)
(* strength, as long as a counter can hold it.                             *)
(***************************************************************************)
THEOREM WheelKeepsItsLight == ProgramsSpec => []ColoursAddUp
<1> DEFINE colour == [r |-> r, g |-> g, b |-> b]
<1>1. ProgramsInit => ColoursAddUp
  BY FadeAssumption DEF ProgramsInit, FadeInit, ColoursAddUp
<1>2. ColoursAddUp /\ [ProgramsNext]_all_vars => ColoursAddUp'
  <2> SUFFICES ASSUME ColoursAddUp, [ProgramsNext]_all_vars, program' = "fade"
               PROVE  ColoursAddUp'
    BY DEF ColoursAddUp
  <2>1. program' = program /\ (fade_vars' = fade_vars \/ FadeStep)
    BY DEF ProgramsNext, all_vars, Timer, Local, Vectored, Demo, Client, Terminal,
       Wheel, Benchmark, Printing, Measuring
  <2>2. OnTheWheel(colour)
    BY <2>1 DEF ColoursAddUp, OnTheWheel, Colour
  <2>3. CASE fade_vars' = fade_vars
    BY <2>1, <2>3 DEF ColoursAddUp, fade_vars
  <2>4. CASE FadeStep
    <3> DEFINE c1 == RedToGreen(colour)
               c2 == GreenToBlue(c1)
               c3 == BlueToRed(c2)
    <3>1. r' = c3.r /\ g' = c3.g /\ b' = c3.b
      BY <2>4 DEF FadeStep
    <3> HIDE DEF colour
    <3>2. OnTheWheel(c1)
      BY <2>2, PassesOn
    <3> HIDE DEF c1
    <3>3. OnTheWheel(c2)
      BY <3>2, PassesOn
    <3> HIDE DEF c2
    <3>4. OnTheWheel(c3)
      BY <3>3, PassesOn
    <3> HIDE DEF c3
    <3> QED
      BY <3>1, <3>4 DEF ColoursAddUp, OnTheWheel, Colour
  <2> QED
    BY <2>1, <2>3, <2>4
<1> QED
  BY <1>1, <1>2, PTL DEF ProgramsSpec

-----------------------------------------------------------------------------
(***************************************************************************)
(* printf, for every width, precision, number and text that callers print. *)
(* First powers and numerals, whatever the base: printnum's loop and the   *)
(* loop that reads a width are recursive over the numbers, and what they   *)
(* give is shown by induction on them. Then the directive, as vprintfmt    *)
(* reads it one part after another; and last the invariant, action by      *)
(* action.                                                                 *)
(***************************************************************************)

(***************************************************************************)
(* Power is what its recursive definition says.                            *)
(***************************************************************************)
LEMMA PowerIsDefined ==
    ASSUME NEW base \in Nat
    PROVE  /\ Power(base, 0) = 1
           /\ \A k \in Nat : Power(base, k) \in Nat
                  /\ Power(base, k + 1) = base * Power(base, k)
<1> DEFINE Is(f) == f = [k \in Nat |-> IF k = 0 THEN 1 ELSE base * f[k - 1]]
           power == CHOOSE f : Is(f)
           times == [v \in Nat |-> base * v]
<1>1. \A n : Power(base, n) = power[n]
  BY DEF Power
<1>2. \E f : Is(f)
  <2> DEFINE V == Nat
             v == 1
  <2>1. v \in V /\ times \in [V -> V]
    OBVIOUS
  <2>2. PICK f \in [Nat -> V] : f[0] = v /\ \A k \in Nat : f[k + 1] = times[f[k]]
    <3> HIDE DEF times, V, v
    <3> QED
      BY <2>1, Iterated
  <2>3. ASSUME NEW k \in Nat PROVE f[k] = IF k = 0 THEN 1 ELSE base * f[k - 1]
    <3>1. CASE k = 0
      BY <2>2, <3>1
    <3>2. CASE k # 0
      <4>1. k - 1 \in Nat /\ (k - 1) + 1 = k
        BY <3>2
      <4>2. f[k] = times[f[k - 1]] /\ f[k - 1] \in Nat
        BY <2>2, <4>1
      <4> QED
        BY <3>2, <4>2
    <3> QED
      BY <3>1, <3>2
  <2>4. f = [k \in Nat |-> IF k = 0 THEN 1 ELSE base * f[k - 1]]
    BY <2>3
  <2> QED
    BY <2>4
<1>3. power = [k \in Nat |-> IF k = 0 THEN 1 ELSE base * power[k - 1]]
  <2>1. Is(power)
    <3> HIDE DEF Is
    <3> QED
      BY <1>2
  <2> QED
    BY <2>1
<1> HIDE DEF power
<1>4. power[0] = 1
  BY <1>3
<1>5. ASSUME NEW k \in Nat PROVE power[k + 1] = base * power[k]
  <2>1. k + 1 \in Nat /\ k + 1 # 0 /\ (k + 1) - 1 = k
    OBVIOUS
  <2> QED
    BY <1>3, <2>1
<1>6. \A k \in Nat : power[k] \in Nat
  <2> DEFINE P == {k \in Nat : power[k] \in Nat}
  <2>1. 0 \in P
    BY <1>4
  <2>2. ASSUME NEW k \in Nat, k \in P PROVE k + 1 \in P
    BY <1>5, <2>2
  <2>3. Nat \subseteq P
    <3> HIDE DEF P
    <3> QED
      BY <2>1, <2>2, Induction
  <2> QED
    BY <2>3
<1> QED
  BY <1>1, <1>4, <1>5, <1>6

(***************************************************************************)
(* The powers of a base above 1 grow, each above its exponent: the CHOOSE  *)
(* of Numeral finds a length.                                              *)
(***************************************************************************)
LEMMA PowersGrow ==
    ASSUME NEW base \in Nat, base > 1
    PROVE  /\ \A k \in Nat : Power(base, k) \in Nat /\ Power(base, k) > k
           /\ \A j, k \in Nat : j <= k => Power(base, j) <= Power(base, k)
<1>1. \A k \in Nat : Power(base, k) \in Nat
  BY PowerIsDefined
<1>2. \A k \in Nat : Power(base, k) > k
  <2> DEFINE P == {k \in Nat : Power(base, k) > k}
  <2>1. 0 \in P
    BY PowerIsDefined
  <2>2. ASSUME NEW k \in Nat, k \in P PROVE k + 1 \in P
    <3>1. Power(base, k + 1) = base * Power(base, k)
      BY PowerIsDefined
    <3> DEFINE p == Power(base, k)
    <3>2. p \in Nat /\ p > k
      BY <1>1, <2>2
    <3> HIDE DEF p
    <3>3. 2 * p <= base * p
      BY <3>2, TimesMore
    <3>4. base * p \in Nat
      BY <3>2
    <3>5. base * p > k + 1
      BY <3>2, <3>3, <3>4
    <3> QED
      BY <3>1, <3>5 DEF p
  <2>3. Nat \subseteq P
    <3> HIDE DEF P
    <3> QED
      BY <2>1, <2>2, Induction
  <2> QED
    BY <2>3
<1>3. ASSUME NEW j \in Nat PROVE \A k \in Nat : j <= k => Power(base, j) <= Power(base, k)
  <2> DEFINE P == {k \in Nat : j <= k => Power(base, j) <= Power(base, k)}
  <2>1. 0 \in P
    <3>1. j <= 0 => j = 0
      OBVIOUS
    <3>2. Power(base, 0) <= Power(base, 0)
      BY PowerIsDefined
    <3> QED
      BY <3>1, <3>2
  <2>2. ASSUME NEW k \in Nat, k \in P PROVE k + 1 \in P
    <3>1. Power(base, k + 1) = base * Power(base, k)
      BY PowerIsDefined
    <3>2. Power(base, k) \in Nat /\ Power(base, k + 1) \in Nat
      BY <1>1
    <3>3. Power(base, k) <= base * Power(base, k)
      <4> DEFINE p == Power(base, k)
      <4>1. p \in Nat
        BY <3>2
      <4> HIDE DEF p
      <4>2. 1 * p <= base * p /\ 1 * p = p
        BY <4>1, TimesMore
      <4> QED
        BY <4>2 DEF p
    <3>4. CASE j = k + 1
      BY <3>2, <3>4
    <3>5. CASE j # k + 1
      <4>1. j <= k + 1 => j <= k
        BY <3>5
      <4>2. Power(base, j) \in Nat
        BY <1>1
      <4> QED
        BY <2>2, <3>1, <3>2, <3>3, <4>1, <4>2
    <3> QED
      BY <3>4, <3>5
  <2>3. Nat \subseteq P
    <3> HIDE DEF P
    <3> QED
      BY <2>1, <2>2, Induction
  <2> QED
    BY <2>3
<1> QED
  BY <1>1, <1>2, <1>3

(***************************************************************************)
(* Exponents add up.                                                       *)
(***************************************************************************)
LEMMA PowersMultiply ==
    ASSUME NEW base \in Nat, NEW j \in Nat, NEW k \in Nat
    PROVE  Power(base, j + k) = Power(base, j) * Power(base, k)
<1> DEFINE P == {i \in Nat : Power(base, j + i) = Power(base, j) * Power(base, i)}
           pj == Power(base, j)
<1>1. pj \in Nat
  BY PowerIsDefined
<1>2. 0 \in P
  <2>1. j + 0 = j /\ Power(base, 0) = 1 /\ pj * 1 = pj
    BY <1>1, PowerIsDefined
  <2> QED
    BY <2>1
<1>3. ASSUME NEW i \in Nat, i \in P PROVE i + 1 \in P
  <2> DEFINE pi == Power(base, i)
  <2>1. pi \in Nat
    BY PowerIsDefined
  <2>2. Power(base, i + 1) = base * pi
    BY PowerIsDefined
  <2>3. Power(base, j + (i + 1)) = base * Power(base, j + i)
    <3>1. j + (i + 1) = (j + i) + 1 /\ j + i \in Nat
      OBVIOUS
    <3> QED
      BY <3>1, PowerIsDefined
  <2>4. Power(base, j + i) = pj * pi
    BY <1>3
  <2>5. base * (pj * pi) = pj * (base * pi)
    <3> HIDE DEF pj, pi
    <3> QED
      BY <1>1, <2>1
  <2> QED
    BY <2>2, <2>3, <2>4, <2>5
<1>4. Nat \subseteq P
  <2> HIDE DEF P
  <2> QED
    BY <1>2, <1>3, Induction
<1> QED
  BY <1>4

(***************************************************************************)
(* The number of digits Numeral gives.                                     *)
(***************************************************************************)
Length(n, base) ==
    CHOOSE j \in 1..(n + 1) : Power(base, j) > n /\ (j = 1 \/ Power(base, j - 1) <= n)

(***************************************************************************)
(* Numeral's length is one for which its condition holds.                  *)
(***************************************************************************)
LEMMA LengthExists ==
    ASSUME NEW base \in Nat, base > 1, NEW n \in Nat
    PROVE  LET k == Length(n, base)
           IN  /\ k \in Nat \ {0} /\ Power(base, k) > n
               /\ k = 1 \/ Power(base, k - 1) <= n
<1> DEFINE Fit == {j \in 1..(n + 1) : Power(base, j) > n}
           Is(j) == Power(base, j) > n /\ (j = 1 \/ Power(base, j - 1) <= n)
<1>1. n + 1 \in Fit
  <2>1. n + 1 \in Nat /\ n + 1 \in 1..(n + 1)
    OBVIOUS
  <2>2. Power(base, n + 1) \in Nat /\ Power(base, n + 1) > n + 1
    BY <2>1, PowersGrow
  <2> QED
    BY <2>1, <2>2
<1>2. PICK k \in Fit : \A j \in Fit : k <= j
  <2>1. Fit \in SUBSET Nat
    OBVIOUS
  <2> HIDE DEF Fit
  <2> QED
    BY <1>1, <2>1, LeastNatural
<1>3. ASSUME k # 1 PROVE Power(base, k - 1) <= n
  <2>1. k - 1 \in 1..(n + 1) /\ ~(k <= k - 1) /\ k - 1 \in Nat
    BY <1>3
  <2>2. k - 1 \notin Fit
    BY <1>2, <2>1
  <2>3. Power(base, k - 1) \in Nat
    BY <2>1, PowerIsDefined
  <2> QED
    BY <2>1, <2>2, <2>3
<1>4. k \in 1..(n + 1) /\ Is(k)
  BY <1>2, <1>3
<1>5. Length(n, base) \in 1..(n + 1) /\ Is(Length(n, base))
  <2>1. Length(n, base) = CHOOSE j \in 1..(n + 1) : Is(j)
    BY DEF Length
  <2> HIDE DEF Is
  <2> QED
    BY <1>4, <2>1
<1> QED
  BY <1>5

(***************************************************************************)
(* And the only one.                                                       *)
(***************************************************************************)
LEMMA LengthUnique ==
    ASSUME NEW base \in Nat, base > 1, NEW n \in Nat, NEW j \in Nat \ {0},
           Power(base, j) > n, j = 1 \/ Power(base, j - 1) <= n
    PROVE  Length(n, base) = j
<1> DEFINE k == Length(n, base)
<1>1. /\ k \in Nat \ {0} /\ Power(base, k) > n
      /\ k = 1 \/ Power(base, k - 1) <= n
  BY LengthExists
<1> HIDE DEF k
<1>2. k - 1 \in Nat /\ j - 1 \in Nat
  BY <1>1
<1>3. /\ Power(base, k) \in Nat /\ Power(base, k - 1) \in Nat
      /\ Power(base, j) \in Nat /\ Power(base, j - 1) \in Nat
  BY <1>1, <1>2, PowersGrow
<1>4. ~(k < j)
  <2>1. SUFFICES ASSUME k < j PROVE FALSE
    OBVIOUS
  <2>2. k <= j - 1 /\ j # 1
    BY <1>1, <2>1
  <2>3. Power(base, k) <= Power(base, j - 1)
    BY <1>1, <1>2, <2>2, PowersGrow
  <2> QED
    BY <1>1, <1>3, <2>2, <2>3
<1>5. ~(j < k)
  <2>1. SUFFICES ASSUME j < k PROVE FALSE
    OBVIOUS
  <2>2. j <= k - 1 /\ k # 1
    BY <1>1, <2>1
  <2>3. Power(base, j) <= Power(base, k - 1)
    BY <1>1, <1>2, <2>2, PowersGrow
  <2> QED
    BY <1>1, <1>3, <2>2, <2>3
<1> QED
  BY <1>1, <1>4, <1>5 DEF k

(***************************************************************************)
(* Numeral with its length named.                                          *)
(***************************************************************************)
LEMMA NumeralIs ==
    ASSUME NEW n, NEW base
    PROVE  Numeral(n, base) =
               [i \in 1..Length(n, base) |->
                   Digit[((n \div Power(base, Length(n, base) - i)) % base) + 1]]
  BY DEF Numeral, Length

(***************************************************************************)
(* The values of the digits, the lowest first, as printnum finds them.     *)
(***************************************************************************)
DigitsOf(n, base) ==
    [i \in 1..Length(n, base) |-> (n \div Power(base, i - 1)) % base]

(***************************************************************************)
(* A number below the base has one digit, another one more than its        *)
(* quotient.                                                               *)
(***************************************************************************)
LEMMA LengthOfQuotient ==
    ASSUME NEW base \in Nat, base > 1, NEW n \in Nat
    PROVE  /\ n < base => Length(n, base) = 1
           /\ n >= base => Length(n, base) = Length(n \div base, base) + 1
<1>0. Power(base, 0) = 1 /\ Power(base, 1) = base
  <2>1. 0 + 1 = 1 /\ base * 1 = base
    OBVIOUS
  <2> QED
    BY <2>1, PowerIsDefined
<1>1. ASSUME n < base PROVE Length(n, base) = 1
  <2>1. Power(base, 1) > n
    BY <1>0, <1>1
  <2> QED
    BY <2>1, LengthUnique
<1>2. ASSUME n >= base PROVE Length(n, base) = Length(n \div base, base) + 1
  <2> DEFINE q == n \div base
             k == Length(q, base)
  <2>1. q \in Nat /\ base * q <= n /\ n < base * q + base
    BY Divided
  <2>2. k \in Nat \ {0} /\ Power(base, k) > q /\ (k = 1 \/ Power(base, k - 1) <= q)
    BY <2>1, LengthExists
  <2>3. q >= 1
    <3>1. base * 1 <= n /\ 1 \in Int
      BY <1>2
    <3> QED
      BY <3>1, QuotientLeast
  <2> HIDE DEF q, k
  <2>4. Power(base, k + 1) > n
    <3>1. Power(base, k) \in Nat /\ Power(base, k + 1) = base * Power(base, k)
      BY <2>2, PowerIsDefined
    <3> DEFINE p == Power(base, k)
    <3>2. base * (q + 1) <= base * p
      <4>1. q + 1 \in Int /\ p \in Int /\ q + 1 <= p
        BY <2>1, <2>2, <3>1
      <4> HIDE DEF p
      <4> QED
        BY <4>1, TimesMore
    <3>3. base * (q + 1) = base * q + base
      BY <2>1
    <3>4. base * p \in Int /\ base * q \in Int
      BY <2>1, <3>1
    <3> HIDE DEF p
    <3>5. base * p > n
      BY <2>1, <3>2, <3>3, <3>4
    <3> QED
      BY <3>1, <3>5 DEF p
  <2>5. Power(base, k) <= n
    <3>1. CASE k = 1
      BY <1>0, <1>2, <3>1
    <3>2. CASE k # 1
      <4>1. k - 1 \in Nat /\ (k - 1) + 1 = k
        BY <2>2
      <4>2. Power(base, k - 1) \in Nat /\ Power(base, k) = base * Power(base, k - 1)
        BY <4>1, PowerIsDefined
      <4> DEFINE p == Power(base, k - 1)
      <4>3. p \in Nat /\ p <= q
        BY <2>2, <3>2, <4>2
      <4> HIDE DEF p
      <4>4. base * p <= base * q
        BY <2>1, <4>3, TimesMore
      <4>5. base * p \in Int /\ base * q \in Int
        BY <2>1, <4>3
      <4>6. base * p <= n
        BY <2>1, <4>4, <4>5
      <4> QED
        BY <4>2, <4>6 DEF p
    <3> QED
      BY <3>1, <3>2
  <2>6. k + 1 \in Nat \ {0} /\ (k + 1) - 1 = k
    BY <2>2
  <2>7. Length(n, base) = k + 1
    BY <2>4, <2>5, <2>6, LengthUnique
  <2> QED
    BY <2>7 DEF k, q
<1> QED
  BY <1>1, <1>2

(***************************************************************************)
(* Dividing once more by the base.                                         *)
(***************************************************************************)
LEMMA QuotientByPower ==
    ASSUME NEW base \in Nat \ {0}, NEW n \in Nat, NEW k \in Nat
    PROVE  /\ (n \div base) \div Power(base, k) = n \div Power(base, k + 1)
           /\ (n \div Power(base, k)) \div base = n \div Power(base, k + 1)
           /\ Power(base, k) \in Nat \ {0}
<1>1. Power(base, k) \in Nat /\ Power(base, k + 1) = base * Power(base, k)
  BY PowerIsDefined
<1>2. Power(base, k) # 0
  <2> DEFINE P == {i \in Nat : Power(base, i) # 0}
  <2>1. 0 \in P
    BY PowerIsDefined
  <2>2. ASSUME NEW i \in Nat, i \in P PROVE i + 1 \in P
    <3> DEFINE p == Power(base, i)
    <3>1. p \in Nat \ {0} /\ Power(base, i + 1) = base * p
      BY <2>2, PowerIsDefined
    <3> HIDE DEF p
    <3>2. base * p # 0
      BY <3>1
    <3> QED
      BY <3>1, <3>2
  <2>3. Nat \subseteq P
    <3> HIDE DEF P
    <3> QED
      BY <2>1, <2>2, Induction
  <2> QED
    BY <2>3
<1> DEFINE p == Power(base, k)
<1>3. p \in Nat \ {0}
  BY <1>1, <1>2
<1>4. (n \div base) \div p = n \div (base * p) /\ (n \div p) \div base = n \div (p * base)
  <2> HIDE DEF p
  <2> QED
    BY <1>3, DividedTwice
<1>5. p * base = base * p
  <2> HIDE DEF p
  <2> QED
    BY <1>3
<1> QED
  BY <1>1, <1>2, <1>4, <1>5

(***************************************************************************)
(* The digits are as printnum's recursion makes them: the remainder, and   *)
(* before it the digits of the quotient.                                   *)
(***************************************************************************)
LEMMA DigitsSplit ==
    ASSUME NEW base \in Nat, base > 1, NEW n \in Nat
    PROVE  DigitsOf(n, base) =
               IF n < base THEN <<n>> ELSE <<n % base>> \o DigitsOf(n \div base, base)
<1> DEFINE k == Length(n, base)
<1>0. k \in Nat \ {0} /\ Power(base, 0) = 1 /\ n \div 1 = n
  BY LengthExists, PowerIsDefined
<1>1. DigitsOf(n, base) = [i \in 1..k |-> (n \div Power(base, i - 1)) % base]
  BY DEF DigitsOf
<1>2. CASE n < base
  <2>1. k = 1
    BY <1>2, LengthOfQuotient
  <2>2. n % base = n
    BY <1>2
  <2>3. 1 - 1 = 0
    OBVIOUS
  <2>4. [i \in 1..k |-> (n \div Power(base, i - 1)) % base] = <<n>>
    BY <1>0, <2>1, <2>2, <2>3
  <2> QED
    BY <1>1, <1>2, <2>4
<1>3. CASE n >= base
  <2> DEFINE q == n \div base
             j == Length(q, base)
             low_digits == [i \in 1..j |-> (q \div Power(base, i - 1)) % base]
             all == [i \in 1..k |-> (n \div Power(base, i - 1)) % base]
  <2>1. q \in Nat /\ j \in Nat \ {0} /\ k = j + 1
    <3>1. q \in Nat
      OBVIOUS
    <3>3. k = j + 1
      BY <1>3, LengthOfQuotient
    <3> HIDE DEF q, k
    <3>2. j \in Nat \ {0}
      BY <3>1, LengthExists
    <3> QED
      BY <3>1, <3>2, <3>3
  <2>2. \A i \in 1..j : low_digits[i] = all[i + 1]
    <3> SUFFICES ASSUME NEW i \in 1..j PROVE low_digits[i] = all[i + 1]
      OBVIOUS
    <3>1. i - 1 \in Nat /\ (i - 1) + 1 = i /\ (i + 1) - 1 = i /\ i + 1 \in 1..k
      BY <2>1
    <3>2. q \div Power(base, i - 1) = n \div Power(base, i)
      BY <3>1, QuotientByPower
    <3> HIDE DEF q, j, k
    <3> QED
      BY <3>1, <3>2
  <2>3. all[1] = n % base
    <3>1. 1 - 1 = 0 /\ 1 \in 1..k
      BY <2>1
    <3> QED
      BY <1>0, <3>1
  <2>4. low_digits \in Seq(Nat) /\ Len(low_digits) = j /\ DOMAIN all = 1..k
    <3>1. \A i \in 1..j : low_digits[i] \in Nat
      <4> SUFFICES ASSUME NEW i \in 1..j PROVE low_digits[i] \in Nat
        OBVIOUS
      <4>1. i - 1 \in Nat
        BY <2>1
      <4>2. q \div Power(base, i - 1) \in Nat
        <5>1. Power(base, i - 1) \in Nat \ {0}
          <6>1. base \in Nat \ {0}
            OBVIOUS
          <6> HIDE DEF q
          <6> QED
            BY <2>1, <4>1, <6>1, QuotientByPower
        <5> HIDE DEF q
        <5> QED
          BY <2>1, <5>1, Divided
      <4> HIDE DEF q
      <4> QED
        BY <4>2
    <3> HIDE DEF q, j, k
    <3> QED
      BY <2>1, <3>1
  <2>5. all = <<n % base>> \o low_digits
    <3>0. n % base \in Nat /\ all = [i \in 1..k |-> all[i]]
      OBVIOUS
    <3>1. k = Len(low_digits) + 1
              /\ \A i \in 1..Len(low_digits) : all[i + 1] = low_digits[i]
      BY <2>1, <2>2, <2>4
    <3> HIDE DEF all, low_digits, q, j, k
    <3> QED
      <4> DEFINE x == n % base
      <4>1. x \in Nat /\ all[1] = x
        BY <2>3, <3>0
      <4>2. all = [i \in 1..(Len(low_digits) + 1) |-> all[i]]
        BY <3>0, <3>1
      <4> HIDE DEF x
      <4>3. all = <<x>> \o low_digits
        BY <2>4, <3>1, <4>1, <4>2, Consed
      <4> QED
        BY <4>3 DEF x
  <2>6. low_digits = DigitsOf(q, base)
    BY DEF DigitsOf
  <2>7. ~(n < base) /\ all = DigitsOf(n, base)
    BY <1>1, <1>3
  <2> HIDE DEF all, low_digits
  <2> QED
    BY <2>5, <2>6, <2>7
<1> QED
  BY <1>2, <1>3

(***************************************************************************)
(* printnum puts out the numeral behind its padding, for every number,     *)
(* base and width.                                                         *)
(***************************************************************************)
LEMMA DigitsBackwards ==
    ASSUME NEW base \in Nat, base > 1, NEW num \in Nat, NEW w \in Int, NEW pad
    PROVE  printnum(num, base, w, pad) =
               Copies(pad, w - Length(num, base)) \o Numeral(num, base)
<1> DEFINE Is(f) == f = [n \in Nat |-> IF n < base THEN <<n>> ELSE <<n % base>> \o f[n \div base]]
           digs == CHOOSE f : Is(f)
           all == [n \in Nat |-> DigitsOf(n, base)]
<1>1. Is(all)
  <2>1. \A n \in Nat : n \div base \in Nat
    OBVIOUS
  <2>2. \A n \in Nat : all[n] = IF n < base THEN <<n>> ELSE <<n % base>> \o all[n \div base]
    BY <2>1, DigitsSplit
  <2>3. all = [n \in Nat |-> IF n < base THEN <<n>> ELSE <<n % base>> \o all[n \div base]]
    <3>1. all = [n \in Nat |-> all[n]]
      OBVIOUS
    <3> HIDE DEF all
    <3> QED
      BY <2>2, <3>1, Zenon
  <2> QED
    BY <2>3
<1>2. Is(digs)
  <2> HIDE DEF Is, all
  <2> QED
    BY <1>1
<1>3. \A n \in Nat : digs[n] = DigitsOf(n, base)
  <2> DEFINE P == {n \in Nat : digs[n] = DigitsOf(n, base)}
  <2>1. ASSUME NEW n \in Nat, \A m \in Nat : m < n => m \in P PROVE n \in P
    <3>1. digs[n] = IF n < base THEN <<n>> ELSE <<n % base>> \o digs[n \div base]
      <4>1. digs = [i \in Nat |-> IF i < base THEN <<i>> ELSE <<i % base>> \o digs[i \div base]]
        BY <1>2
      <4> HIDE DEF digs
      <4> QED
        BY <4>1, Zenon
    <3> HIDE DEF digs
    <3>2. ASSUME n >= base PROVE digs[n \div base] = DigitsOf(n \div base, base)
      <4>1. n \div base \in Nat /\ n \div base < n
        BY <3>2
      <4> QED
        BY <2>1, <4>1
    <3>3. DigitsOf(n, base) =
              IF n < base THEN <<n>> ELSE <<n % base>> \o DigitsOf(n \div base, base)
      BY DigitsSplit
    <3>4. digs[n] = DigitsOf(n, base)
      BY <3>1, <3>2, <3>3
    <3> QED
      BY <3>4
  <2>2. Nat \subseteq P
    <3> HIDE DEF P
    <3> QED
      BY <2>1, StrongInduction
  <2> QED
    BY <2>2
<1> DEFINE k == Length(num, base)
           d == DigitsOf(num, base)
<1>4. k \in Nat /\ Len(d) = k /\ \A i \in 1..k : d[i] = (num \div Power(base, i - 1)) % base
  <2>1. k \in Nat
    BY LengthExists
  <2> QED
    BY <2>1 DEF DigitsOf
<1>5. printnum(num, base, w, pad) =
          Copies(pad, w - k) \o [i \in 1..k |-> Digit[d[k + 1 - i] + 1]]
  <2>1. digs[num] = d
    BY <1>3
  <2>2. printnum(num, base, w, pad) =
            Copies(pad, w - Len(digs[num]))
            \o [i \in 1..Len(digs[num]) |-> Digit[digs[num][Len(digs[num]) + 1 - i] + 1]]
    BY DEF printnum
  <2> HIDE DEF digs, d, k
  <2> QED
    BY <1>4, <2>1, <2>2
<1>6. [i \in 1..k |-> Digit[d[k + 1 - i] + 1]] = Numeral(num, base)
  <2>1. \A i \in 1..k : d[k + 1 - i] = (num \div Power(base, k - i)) % base
    <3> SUFFICES ASSUME NEW i \in 1..k
                 PROVE  d[k + 1 - i] = (num \div Power(base, k - i)) % base
      OBVIOUS
    <3>1. k + 1 - i \in 1..k /\ (k + 1 - i) - 1 = k - i
      BY <1>4
    <3> HIDE DEF d, k
    <3> QED
      BY <1>4, <3>1
  <2>2. Numeral(num, base) = [i \in 1..k |-> Digit[((num \div Power(base, k - i)) % base) + 1]]
    BY NumeralIs
  <2> HIDE DEF d, k
  <2> QED
    BY <2>1, <2>2
<1> QED
  BY <1>5, <1>6

(***************************************************************************)
(* The characters that are printed, all but the %.                         *)
(***************************************************************************)
Letters ==
    {Digit[i] : i \in 1..16}
    \cup {"-", "#", "*", ".", "l", "s", "u", "o", "x", "p", "z", " ", "q", "r", "n", "(", ")"}

Alphabet == Letters \cup {"%"}

(***************************************************************************)
(* The decimal digits differ from each other.                              *)
(***************************************************************************)
LEMMA DigitsDiffer ==
    /\ \A i \in 1..16 : Digit[i] \in Letters
    /\ \A i, j \in 1..10 : Digit[i] = Digit[j] => i = j
<1>1. ASSUME NEW i \in 1..16 PROVE Digit[i] \in Letters
  BY DEF Letters
<1>2. ASSUME NEW i \in 1..10, NEW j \in 1..10, Digit[i] = Digit[j] PROVE i = j
  BY <1>2 DEF Digit
<1> QED
  BY <1>1, <1>2

(***************************************************************************)
(* Reading a digit gives the value it was written for.                     *)
(***************************************************************************)
LEMMA ValueOfDigit ==
    ASSUME NEW d \in 0..9
    PROVE  /\ Digit[d + 1] \in Digits /\ DigitValue(Digit[d + 1]) = d
           /\ d # 0 => Digit[d + 1] # "0"
<1>1. d + 1 \in 1..10
  OBVIOUS
<1>2. DigitValue(Digit[d + 1]) = d
  <2> DEFINE c == CHOOSE i \in 1..10 : Digit[i] = Digit[d + 1]
  <2>1. c \in 1..10 /\ Digit[c] = Digit[d + 1]
    BY <1>1
  <2> HIDE DEF c
  <2>2. c = d + 1
    BY <1>1, <2>1, DigitsDiffer
  <2>3. c - 1 = d
    BY <2>2
  <2> QED
    BY <2>3 DEF DigitValue, c
<1>3. d # 0 => Digit[d + 1] # "0"
  <2>1. Digit[1] = "0" /\ 1 \in 1..10
    BY DEF Digit
  <2> QED
    BY <1>1, <2>1, DigitsDiffer
<1> QED
  BY <1>1, <1>2, <1>3 DEF Digits

(***************************************************************************)
(* A numeral is a text of as many characters as it has digits.             *)
(***************************************************************************)
LEMMA NumeralSeq ==
    ASSUME NEW base \in 2..16, NEW n \in Nat
    PROVE  Numeral(n, base) \in Seq(Letters) /\ Numeral(n, base) \in Seq(Alphabet)
           /\ Len(Numeral(n, base)) = Length(n, base)
<1> DEFINE k == Length(n, base)
           N == Numeral(n, base)
<1>1. base \in Nat /\ base > 1 /\ base \in Nat \ {0}
  OBVIOUS
<1>2. k \in Nat \ {0}
  BY <1>1, LengthExists
<1>3. N = [i \in 1..k |-> Digit[((n \div Power(base, k - i)) % base) + 1]]
  BY NumeralIs
<1> HIDE DEF k, N
<1>4. ASSUME NEW i \in 1..k
      PROVE Digit[((n \div Power(base, k - i)) % base) + 1] \in Letters
  <2> DEFINE q == n \div Power(base, k - i)
  <2>1. k - i \in Nat
    BY <1>2
  <2>2. Power(base, k - i) \in Nat \ {0}
    BY <1>1, <2>1, QuotientByPower
  <2>3. q \in Nat
    BY <2>2, Divided
  <2> HIDE DEF q
  <2>4. (q % base) + 1 \in 1..16
    <3>1. q % base \in 0..(base - 1)
      BY <1>1, <2>3, Divided
    <3> QED
      BY <3>1
  <2>5. Digit[(q % base) + 1] \in Letters
    BY <2>4, DigitsDiffer
  <2> QED
    BY <2>5 DEF q
<1>5. N \in [1..k -> Letters]
  BY <1>3, <1>4
<1>6. N \in Seq(Letters) /\ Len(N) = k
  BY <1>2, <1>5
<1>7. N \in Seq(Alphabet)
  BY <1>6, WiderSeq DEF Alphabet
<1> QED
  BY <1>6, <1>7 DEF N, k

(***************************************************************************)
(* Each character of a decimal numeral is a digit of its value; only that  *)
(* of 0 begins with a 0.                                                   *)
(***************************************************************************)
LEMMA DecimalDigits ==
    ASSUME NEW n \in Nat, NEW i \in 1..Length(n, 10)
    PROVE  LET c == Numeral(n, 10)[i]
           IN  /\ c \in Digits
               /\ DigitValue(c) = (n \div Power(10, Length(n, 10) - i)) % 10
               /\ (n # 0 /\ i = 1) => c # "0"
<1> DEFINE k == Length(n, 10)
           q == n \div Power(10, k - i)
           d == q % 10
<1>1. 10 \in Nat /\ 10 > 1 /\ 10 \in Nat \ {0}
  OBVIOUS
<1>2. k \in Nat \ {0} /\ Power(10, k) > n /\ (k = 1 \/ Power(10, k - 1) <= n)
  BY <1>1, LengthExists
<1>3. Numeral(n, 10)[i] = Digit[d + 1]
  BY NumeralIs
<1>4. k - i \in Nat /\ Power(10, k - i) \in Nat \ {0}
  <2>1. i \in 1..k
    OBVIOUS
  <2> HIDE DEF k
  <2>2. k - i \in Nat
    BY <1>2, <2>1
  <2> QED
    BY <1>1, <2>2, QuotientByPower
<1>5. q \in Nat
  <2> HIDE DEF k
  <2> QED
    BY <1>4, Divided
<1>6. d \in 0..9
  <2> HIDE DEF q
  <2> QED
    BY <1>5
<1>7. ASSUME n # 0, i = 1 PROVE d # 0
  <2> DEFINE p == Power(10, k - 1)
  <2>1. p \in Nat \ {0} /\ p <= n /\ Power(10, k) = 10 * p
    <3>1. k - 1 \in Nat /\ (k - 1) + 1 = k
      BY <1>2
    <3>2. Power(10, k) = 10 * p /\ p \in Nat \ {0}
      <4> HIDE DEF k
      <4> QED
        BY <1>1, <1>4, <1>7, <3>1, PowerIsDefined
    <3>3. p <= n
      <4>1. CASE k = 1
        <5>1. p = 1
          BY <4>1, PowerIsDefined
        <5> QED
          BY <1>7, <5>1
      <4>2. CASE k # 1
        BY <1>2, <4>2
      <4> QED
        BY <4>1, <4>2
    <3> QED
      BY <3>2, <3>3
  <2>2. q = n \div p
    BY <1>7
  <2> HIDE DEF p, q, k
  <2>3. q >= 1
    <3>1. p * 1 <= n /\ 1 \in Int
      BY <2>1
    <3> QED
      BY <2>1, <2>2, <3>1, QuotientLeast
  <2>4. q < 10
    <3> SUFFICES ASSUME q >= 10 PROVE FALSE
      BY <1>5
    <3>1. p * q <= n
      BY <2>1, <2>2, Divided
    <3>2. p * 10 <= p * q
      BY <1>5, <2>1, TimesMore
    <3>3. p * 10 = 10 * p /\ p * q \in Int
      BY <1>5, <2>1
    <3> QED
      BY <1>2, <2>1, <3>1, <3>2, <3>3
  <2> QED
    BY <1>5, <2>3, <2>4
<1> HIDE DEF d
<1>8. Digit[d + 1] \in Digits /\ DigitValue(Digit[d + 1]) = d
          /\ (d # 0 => Digit[d + 1] # "0")
  BY <1>6, ValueOfDigit
<1> QED
  BY <1>3, <1>7, <1>8 DEF d

(***************************************************************************)
(* The numeral of 0.                                                       *)
(***************************************************************************)
LEMMA NumeralOfZero == Numeral(0, 10) = <<"0">> /\ Length(0, 10) = 1
<1>1. Length(0, 10) = 1
  BY LengthOfQuotient
<1>2. (0 \div Power(10, 1 - 1)) % 10 = 0
  <2>1. 1 - 1 = 0 /\ Power(10, 0) = 1
    BY PowerIsDefined
  <2> QED
    BY <2>1
<1>3. Numeral(0, 10) = [i \in 1..1 |-> Digit[((0 \div Power(10, 1 - i)) % 10) + 1]]
  BY <1>1, NumeralIs
<1>4. Numeral(0, 10) = [i \in 1..1 |-> Digit[1]]
  BY <1>2, <1>3
<1>5. Numeral(0, 10) = <<Digit[1]>>
  BY <1>4
<1> QED
  BY <1>1, <1>5 DEF Digit

(***************************************************************************)
(* NumberField's CHOOSE stops at the end of the numeral, and nowhere else. *)
(***************************************************************************)
LEMMA NumberRead ==
    ASSUME NEW n \in Nat \ {0}, NEW t, Len(t) \in Nat, Length(n, 10) < Len(t),
           \A i \in 1..Length(n, 10) : t[i] = Numeral(n, 10)[i],
           t[Length(n, 10) + 1] \notin Digits
    PROVE  /\ Length(n, 10) \in 1..Len(t)
           /\ \A i \in 1..Length(n, 10) : t[i] \in Digits
           /\ \A k \in 1..Len(t) :
                  (\A i \in 1..k : t[i] \in Digits) /\ t[k + 1] \notin Digits
                      => k = Length(n, 10)
           /\ t[1] \in Digits \ {"0"}
<1> DEFINE l == Length(n, 10)
<1>1. l \in Nat \ {0}
  <2>1. 10 \in Nat /\ 10 > 1
    OBVIOUS
  <2> QED
    BY <2>1, LengthExists
<1>2. \A i \in 1..l : t[i] \in Digits /\ (i = 1 => t[i] # "0")
  BY DecimalDigits
<1> HIDE DEF l
<1>3. l \in 1..Len(t) /\ t[l + 1] \notin Digits
  BY <1>1 DEF l
<1>4. ASSUME NEW k \in 1..Len(t), \A i \in 1..k : t[i] \in Digits, t[k + 1] \notin Digits
      PROVE  k = l
  <2>1. ~(k < l)
    <3>1. k < l => k + 1 \in 1..l
      BY <1>1
    <3> QED
      BY <1>2, <1>4, <3>1
  <2>2. ~(l < k)
    <3>1. l < k => l + 1 \in 1..k
      BY <1>1
    <3> QED
      BY <1>3, <1>4, <3>1
  <2> QED
    BY <1>1, <2>1, <2>2
<1>5. t[1] \in Digits \ {"0"}
  BY <1>1, <1>2
<1> QED
  BY <1>2, <1>3, <1>4, <1>5 DEF l

(***************************************************************************)
(* What vprintfmt sees of a text that begins with a numeral.               *)
(***************************************************************************)
LEMMA NumeralFirst ==
    ASSUME NEW n \in Nat \ {0}, NEW s \in Seq(Alphabet), s # <<>>, s[1] \notin Digits
    PROVE  LET t == Numeral(n, 10) \o s
               l == Length(n, 10)
           IN  /\ t \in Seq(Alphabet) /\ l \in Nat \ {0} /\ Len(t) = l + Len(s)
                      /\ l < Len(t)
               /\ \A i \in 1..l : t[i] = Numeral(n, 10)[i]
               /\ \A i \in 1..Len(s) : t[l + i] = s[i]
               /\ t[l + 1] \notin Digits
               /\ Head(t) \in Digits \ {"0"}
<1> DEFINE N == Numeral(n, 10)
           l == Length(n, 10)
           t == N \o s
<1>1. N \in Seq(Alphabet) /\ Len(N) = l /\ l \in Nat \ {0}
  <2>1. 10 \in 2..16 /\ 10 \in Nat /\ 10 > 1
    OBVIOUS
  <2> QED
    BY <2>1, NumeralSeq, LengthExists
<1>2. /\ t \in Seq(Alphabet) /\ Len(t) = l + Len(s)
      /\ \A i \in 1..l : t[i] = N[i]
      /\ \A i \in 1..Len(s) : t[l + i] = s[i]
  <2> HIDE DEF N, l
  <2>1. t \in Seq(Alphabet) /\ Len(t) = Len(N) + Len(s)
    BY <1>1, Concatenated
  <2>2. ASSUME NEW i \in 1..l PROVE t[i] = N[i]
    BY <1>1
  <2>3. ASSUME NEW i \in 1..Len(s) PROVE t[l + i] = s[i]
    BY <1>1
  <2> HIDE DEF t
  <2> QED
    BY <1>1, <2>1, <2>2, <2>3
<1>3. Len(s) \in Nat \ {0}
  OBVIOUS
<1> HIDE DEF t
<1>4. t[l + 1] \notin Digits /\ l < Len(t) /\ Len(t) \in Nat
  <2> HIDE DEF l, N
  <2>1. 1 \in 1..Len(s) /\ l < Len(t) /\ Len(t) \in Nat
    BY <1>1, <1>2, <1>3
  <2> QED
    BY <1>2, <2>1
<1>5. t[1] \in Digits \ {"0"}
  BY <1>2, <1>4, NumberRead
<1>6. Head(t) = t[1]
  BY <1>2, <1>4
<1> QED
  BY <1>1, <1>2, <1>4, <1>5, <1>6 DEF t

(***************************************************************************)
(* What vprintfmt adds up over the digits of a numeral is the number.      *)
(***************************************************************************)
LEMMA NumberAddsUp ==
    ASSUME NEW n \in Nat, NEW t,
           \A i \in 1..Length(n, 10) : t[i] = Numeral(n, 10)[i]
    PROVE  LET l == Length(n, 10)
           IN  /\ \E f \in [0..l -> Nat] : f[0] = 0
                       /\ \A k \in 1..l : f[k] = 10 * f[k - 1] + DigitValue(t[k])
               /\ \A f : f[0] = 0
                       /\ (\A k \in 1..l : f[k] = 10 * f[k - 1] + DigitValue(t[k]))
                              => f[l] = n
<1> DEFINE l == Length(n, 10)
           all == [k \in 0..l |-> n \div Power(10, l - k)]
<1>1. l \in Nat \ {0}
  <2>1. 10 \in Nat /\ 10 > 1
    OBVIOUS
  <2> QED
    BY <2>1, LengthExists
<1>2. \A i \in 1..l : DigitValue(t[i]) = (n \div Power(10, l - i)) % 10
  BY DecimalDigits
<1> HIDE DEF l
<1>3. all[0] = 0
  <2>1. all[0] = n \div Power(10, l) /\ Power(10, l) > n /\ Power(10, l) \in Nat
    <3>1. l - 0 = l /\ 0 \in 0..l
      BY <1>1
    <3>2. Power(10, l) > n /\ Power(10, l) \in Nat
      BY <1>1, LengthExists, PowerIsDefined DEF l
    <3> QED
      BY <3>1, <3>2
  <2> DEFINE p == Power(10, l)
  <2> HIDE DEF p, all
  <2>2. all[0] = n \div p /\ p > n /\ p \in Nat
    BY <2>1 DEF p
  <2>3. n \div p = 0
    <3> DEFINE q == n \div p
    <3>1. q \in Nat /\ p * q <= n
      <4>1. p \in Nat \ {0}
        BY <2>2
      <4> QED
        BY <4>1, Divided
    <3> HIDE DEF q, all
    <3>2. q >= 1 => p * 1 <= p * q
      BY <2>2, <3>1, TimesMore
    <3>3. p * q \in Int /\ p * 1 = p
      BY <2>2, <3>1
    <3>4. q = 0
      <4> DEFINE pq == p * q
      <4> HIDE DEF pq
      <4>1. p \in Nat /\ n < p /\ pq <= n /\ pq \in Int /\ (q >= 1 => p <= pq)
        BY <2>2, <3>1, <3>2, <3>3 DEF pq
      <4> QED
        BY <3>1, <4>1
    <3> QED
      BY <3>4 DEF q
  <2> QED
    BY <2>2, <2>3
<1>4. ASSUME NEW k \in 1..l PROVE all[k] = 10 * all[k - 1] + DigitValue(t[k])
  <2> DEFINE q == n \div Power(10, l - k)
  <2>1. l - k \in Nat /\ k - 1 \in 0..l /\ l - (k - 1) = (l - k) + 1 /\ k \in 1..l
    BY <1>1, <1>2
  <2>2. all[k] = q /\ all[k - 1] = n \div Power(10, (l - k) + 1)
    BY <2>1
  <2>3. q \div 10 = n \div Power(10, (l - k) + 1) /\ Power(10, l - k) \in Nat \ {0}
    <3>1. 10 \in Nat \ {0} /\ l - k \in Nat
      BY <2>1
    <3> HIDE DEF all
    <3> QED
      BY <3>1, QuotientByPower
  <2>4. q \in Nat
    BY <2>3, Divided
  <2>5. DigitValue(t[k]) = q % 10
    BY <1>2, <2>1
  <2> HIDE DEF q, all
  <2>6. q = 10 * (q \div 10) + (q % 10)
    BY <2>4
  <2> QED
    BY <1>2, <2>2, <2>3, <2>5, <2>6
<1>5. all[l] = n
  <2>1. l - l = 0 /\ l \in 0..l /\ Power(10, 0) = 1 /\ n \div 1 = n
    BY <1>1, PowerIsDefined
  <2>2. all[l] = n \div Power(10, 0)
    BY <2>1
  <2> QED
    BY <2>1, <2>2
<1>6. all \in [0..l -> Nat]
  <2> SUFFICES ASSUME NEW k \in 0..l PROVE n \div Power(10, l - k) \in Nat
    OBVIOUS
  <2>1. 10 \in Nat \ {0} /\ l - k \in Nat
    BY <1>1
  <2>2. Power(10, l - k) \in Nat \ {0}
    BY <2>1, QuotientByPower
  <2> QED
    BY <2>2, Divided
<1> HIDE DEF all
<1>7. ASSUME NEW f, f[0] = 0, \A k \in 1..l : f[k] = 10 * f[k - 1] + DigitValue(t[k])
      PROVE  f[l] = n
  <2> DEFINE S == 0..l
             P == {k \in S : f[k] = all[k]}
  <2>1. ASSUME NEW k \in S, \A m \in S : m < k => m \in P PROVE k \in P
    <3>1. CASE k = 0
      BY <1>3, <1>7, <3>1
    <3>2. CASE k # 0
      <4>1. k \in 1..l /\ k - 1 \in S /\ k - 1 < k
        BY <1>1, <2>1, <3>2
      <4>2. f[k - 1] = all[k - 1]
        BY <2>1, <4>1
      <4>3. f[k] = 10 * f[k - 1] + DigitValue(t[k])
        BY <1>7, <4>1
      <4>4. all[k] = 10 * all[k - 1] + DigitValue(t[k])
        BY <1>4, <4>1
      <4> QED
        BY <4>2, <4>3, <4>4
    <3> QED
      BY <3>1, <3>2
  <2>2. S \subseteq P
    <3>1. S \in SUBSET Nat
      OBVIOUS
    <3> HIDE DEF P, S
    <3> QED
      BY <2>1, <3>1, StrongInduction
  <2>3. f[l] = all[l]
    BY <1>1, <2>2
  <2> QED
    BY <1>5, <2>3
<1> QED
  BY <1>3, <1>4, <1>6, <1>7 DEF l

(***************************************************************************)
(* No padding without room for it.                                         *)
(***************************************************************************)
LEMMA NoCopies == ASSUME NEW c, NEW n \in Int, n <= 0 PROVE Copies(c, n) = <<>>
<1>1. 1..n = {}
  OBVIOUS
<1>2. [i \in 1..n |-> c] = <<>>
  BY <1>1
<1> QED
  BY <1>2 DEF Copies

(***************************************************************************)
(* The digits of n before its last p ones are those of the quotient by the *)
(* p-th power of ten.                                                      *)
(***************************************************************************)
LEMMA WholePart ==
    ASSUME NEW n \in Nat, NEW p \in Nat, Power(10, p) <= n
    PROVE  LET l == Length(n, 10)
               q == n \div Power(10, p)
           IN  /\ p < l /\ Length(q, 10) = l - p /\ q \in Nat
               /\ SubSeq(Numeral(n, 10), 1, l - p) = Numeral(q, 10)
               /\ SubSeq(Numeral(n, 10), (l - p) + 1, l) =
                      [i \in 1..p |-> Digit[((n \div Power(10, p - i)) % 10) + 1]]
<1> DEFINE l == Length(n, 10)
           P == Power(10, p)
           q == n \div P
           w == l - p
           N == Numeral(n, 10)
<1>0. 10 \in Nat /\ 10 > 1 /\ 10 \in Nat \ {0} /\ 10 \in 2..16
  OBVIOUS
<1>1. l \in Nat \ {0} /\ Power(10, l) > n /\ (l = 1 \/ Power(10, l - 1) <= n)
  BY <1>0, LengthExists
<1>2. N \in Seq(Alphabet) /\ Len(N) = l
      /\ N = [i \in 1..l |-> Digit[((n \div Power(10, l - i)) % 10) + 1]]
  BY <1>0, NumeralSeq, NumeralIs
<1> HIDE DEF l, N
<1>3. P \in Nat \ {0}
  BY <1>0, QuotientByPower
<1>4. p < l
  <2>1. l <= p => Power(10, l) <= Power(10, p)
    BY <1>0, <1>1, PowersGrow
  <2>2. Power(10, l) \in Nat /\ Power(10, p) \in Nat
    BY <1>0, <1>1, PowerIsDefined
  <2> QED
    BY <1>1, <2>1, <2>2
<1>5. q \in Nat /\ P * q <= n /\ n < P * q + P
  <2> HIDE DEF P
  <2> QED
    BY <1>3, Divided
<1>6. w \in Nat \ {0} /\ w - 1 \in Nat /\ l = p + w /\ l - 1 = p + (w - 1)
  BY <1>1, <1>4
<1> HIDE DEF w, q
<1>7. Length(q, 10) = w
  <2>1. Power(10, l) = P * Power(10, w) /\ Power(10, w) \in Nat
    <3>1. Power(10, p + w) = Power(10, p) * Power(10, w)
      BY <1>0, <1>6, PowersMultiply
    <3>2. Power(10, w) \in Nat
      BY <1>0, <1>6, PowerIsDefined
    <3> QED
      BY <1>6, <3>1, <3>2
  <2>2. Power(10, w) > q
    <3> DEFINE pw == Power(10, w)
    <3> SUFFICES ASSUME pw <= q PROVE FALSE
      BY <1>5, <2>1
    <3>1. pw \in Nat /\ P * pw > n
      BY <1>1, <2>1
    <3> HIDE DEF P, pw
    <3>2. P * pw <= P * q
      BY <1>3, <1>5, <3>1, TimesMore
    <3>3. P * pw \in Int /\ P * q \in Int
      BY <1>3, <1>5, <3>1
    <3> QED
      BY <1>5, <3>1, <3>2, <3>3
  <2>3. w = 1 \/ Power(10, w - 1) <= q
    <3> SUFFICES ASSUME w # 1 PROVE Power(10, w - 1) <= q
      OBVIOUS
    <3> DEFINE pw == Power(10, w - 1)
    <3>1. Power(10, l - 1) = P * pw /\ pw \in Nat
      <4>1. Power(10, p + (w - 1)) = Power(10, p) * Power(10, w - 1)
        BY <1>0, <1>6, PowersMultiply
      <4>2. Power(10, w - 1) \in Nat
        BY <1>0, <1>6, PowerIsDefined
      <4> QED
        BY <1>6, <4>1, <4>2
    <3>2. P * pw <= n
      BY <1>1, <1>6, <3>1
    <3> HIDE DEF P, pw
    <3>3. pw <= q
      BY <1>3, <3>1, <3>2, QuotientLeast DEF q
    <3> QED
      BY <3>3 DEF pw
  <2> QED
    BY <1>0, <1>5, <1>6, <2>2, <2>3, LengthUnique
<1>8. Numeral(q, 10) = [i \in 1..w |-> Digit[((q \div Power(10, w - i)) % 10) + 1]]
  BY <1>7, NumeralIs
<1>9. ASSUME NEW i \in 1..w PROVE q \div Power(10, w - i) = n \div Power(10, l - i)
  <2> DEFINE pw == Power(10, w - i)
  <2>1. w - i \in Nat /\ l - i = p + (w - i)
    BY <1>6
  <2>2. pw \in Nat \ {0} /\ Power(10, l - i) = P * pw
    BY <1>0, <2>1, QuotientByPower, PowersMultiply
  <2> HIDE DEF pw, P
  <2>3. (n \div P) \div pw = n \div (P * pw)
    BY <1>3, <2>2, DividedTwice
  <2>4. q \div pw = n \div Power(10, l - i)
    BY <2>2, <2>3 DEF q
  <2> QED
    BY <2>4 DEF pw
<1>10. SubSeq(N, 1, w) = Numeral(q, 10)
  <2> DEFINE s == SubSeq(N, 1, w)
             t == Numeral(q, 10)
  <2>1. s = [i \in 1..w |-> N[i]]
    BY <1>2, <1>6
  <2>2. ASSUME NEW i \in 1..w PROVE N[i] = t[i]
    <3>1. i \in 1..l
      BY <1>1, <1>6
    <3>2. N[i] = Digit[((n \div Power(10, l - i)) % 10) + 1]
      BY <1>2, <3>1
    <3>3. t[i] = Digit[((q \div Power(10, w - i)) % 10) + 1]
      BY <1>8
    <3> QED
      BY <1>9, <3>2, <3>3
  <2>3. t = [i \in 1..w |-> t[i]]
    BY <1>8
  <2> HIDE DEF s, t
  <2>4. s = t
    BY <2>1, <2>2, <2>3
  <2> QED
    BY <2>4 DEF s, t
<1>11. SubSeq(N, w + 1, l) = [i \in 1..p |-> Digit[((n \div Power(10, p - i)) % 10) + 1]]
  <2>1. SubSeq(N, w + 1, l) = [i \in 1..p |-> N[w + i]]
    <3>1. (1 + l) - (w + 1) = p /\ w + 1 \in Int
      BY <1>6
    <3>2. SubSeq(N, w + 1, l) = [i \in 1..((1 + l) - (w + 1)) |-> N[(i + (w + 1)) - 1]]
      BY <1>1, <1>2, <1>6
    <3>3. \A i \in 1..p : (i + (w + 1)) - 1 = w + i
      BY <1>6
    <3> QED
      BY <3>1, <3>2, <3>3
  <2>2. ASSUME NEW i \in 1..p PROVE N[w + i] = Digit[((n \div Power(10, p - i)) % 10) + 1]
    <3>1. w + i \in 1..l /\ l - (w + i) = p - i
      BY <1>6
    <3> QED
      BY <1>2, <3>1
  <2> QED
    BY <2>1, <2>2
<1> QED
  BY <1>4, <1>5, <1>7, <1>10, <1>11 DEF l, q, w, N

(***************************************************************************)
(* As long as the product has no more digits than the significand, none of *)
(* the multiplications of print_double is rounded.                         *)
(***************************************************************************)
LEMMA ProductExact ==
    ASSUME NEW n \in Int, NEW p \in Nat \ {0}, Magnitude(n) * Power(10, p) <= Significand
    PROVE  Scaled(n, p) = (Magnitude(n) * Power(10, p)) \div Unit
<1> DEFINE m == Magnitude(n)
           places == IF p > 0 THEN p ELSE 0
           Is(f) == f = [i \in 0..places |-> IF i = 0 THEN m ELSE Rounded(f[i - 1] * 10)]
           d == CHOOSE f : Is(f)
           exact == [i \in 0..places |-> m * Power(10, i)]
<1>1. m \in Nat /\ places = p /\ 10 \in Nat /\ 10 > 1 /\ Significand \in Nat
  BY PrintfAssumption DEF Magnitude
<1>2. Scaled(n, p) = d[places] \div Unit
  BY DEF Scaled
<1>3. ASSUME NEW i \in 0..p
      PROVE  Power(10, i) \in Nat /\ m * Power(10, i) \in Nat /\ m * Power(10, i) <= Significand
  <2>1. i \in Nat /\ i <= p
    OBVIOUS
  <2>2. Power(10, i) \in Nat /\ Power(10, p) \in Nat /\ Power(10, i) <= Power(10, p)
    BY <1>1, <2>1, PowersGrow
  <2> DEFINE some == Power(10, i)
             all == Power(10, p)
  <2>3. m * all <= Significand
    OBVIOUS
  <2> HIDE DEF some, all, m
  <2>4. some \in Nat /\ all \in Nat /\ some <= all
    BY <2>2 DEF some, all
  <2>5. m * some <= m * all /\ m * some \in Nat /\ m * all \in Nat
    BY <1>1, <2>4, TimesMore
  <2>6. m * some <= Significand
    BY <1>1, <2>3, <2>5
  <2> QED
    BY <2>4, <2>5, <2>6 DEF some
<1> HIDE DEF m
<1>4. ASSUME NEW i \in 0..p, i # 0
      PROVE  i - 1 \in 0..p /\ Rounded((m * Power(10, i - 1)) * 10) = m * Power(10, i)
  <2>1. i - 1 \in 0..p /\ i - 1 \in Nat /\ (i - 1) + 1 = i
    BY <1>4
  <2>2. Power(10, i) = 10 * Power(10, i - 1)
    BY <1>1, <2>1, PowerIsDefined
  <2>3. Power(10, i - 1) \in Nat
    BY <1>3, <2>1
  <2>4. (m * Power(10, i - 1)) * 10 = m * Power(10, i)
    <3> DEFINE some == Power(10, i - 1)
    <3>1. some \in Nat /\ Power(10, i) = 10 * some
      BY <2>2, <2>3
    <3> HIDE DEF some
    <3>2. (m * some) * 10 = m * (10 * some)
      BY <1>1, <3>1
    <3> QED
      BY <3>1, <3>2 DEF some
  <2>5. m * Power(10, i) <= Significand
    BY <1>3
  <2>6. Rounded(m * Power(10, i)) = m * Power(10, i)
    BY <2>5 DEF Rounded
  <2> QED
    BY <2>1, <2>4, <2>6
<1>5. d = [i \in 0..places |-> IF i = 0 THEN m ELSE Rounded(d[i - 1] * 10)]
  <2>1. ASSUME NEW i \in 0..places
        PROVE  exact[i] = IF i = 0 THEN m ELSE Rounded(exact[i - 1] * 10)
    <3>1. CASE i = 0
      BY <1>1, <3>1, PowerIsDefined
    <3>2. CASE i # 0
      BY <1>1, <1>4, <3>2
    <3> QED
      BY <3>1, <3>2
  <2>2. exact = [i \in 0..places |-> IF i = 0 THEN m ELSE Rounded(exact[i - 1] * 10)]
    BY <2>1
  <2>3. Is(exact)
    BY <2>2
  <2>4. Is(d)
    <3> HIDE DEF Is, exact
    <3> QED
      BY <2>3
  <2> QED
    BY <2>4
<1> HIDE DEF d
<1> DEFINE P == {i \in Nat : i <= p => d[i] = m * Power(10, i)}
<1>6. 0 \in P
  <2>1. 0 \in 0..places /\ Power(10, 0) = 1 /\ m * 1 = m
    BY <1>1, PowerIsDefined
  <2>2. d[0] = m
    BY <1>5, <2>1
  <2> QED
    BY <2>1, <2>2
<1>7. ASSUME NEW i \in Nat, i \in P PROVE i + 1 \in P
  <2> SUFFICES ASSUME i + 1 <= p PROVE d[i + 1] = m * Power(10, i + 1)
    OBVIOUS
  <2> DEFINE j == i + 1
  <2>1. j \in 0..p /\ j # 0 /\ j - 1 = i /\ i <= p
    OBVIOUS
  <2>2. d[i] = m * Power(10, i)
    BY <1>7, <2>1
  <2>3. d[j] = Rounded(d[j - 1] * 10)
    <3> HIDE DEF j
    <3> QED
      BY <1>1, <1>5, <2>1
  <2> HIDE DEF j
  <2>4. Rounded((m * Power(10, j - 1)) * 10) = m * Power(10, j)
    BY <1>4, <2>1
  <2>5. d[j] = m * Power(10, j)
    BY <2>1, <2>2, <2>3, <2>4
  <2> QED
    BY <2>5 DEF j
<1>8. p \in P
  <2> HIDE DEF P
  <2> QED
    BY <1>6, <1>7, Induction
<1>9. d[places] = m * Power(10, p)
  BY <1>1, <1>8
<1> QED
  BY <1>2, <1>9 DEF m

(***************************************************************************)
(* print_double prints the whole part, a point and as many digits as the   *)
(* precision says, for every magnitude from 1 on that it scales exactly.   *)
(***************************************************************************)
LEMMA DoublePrinted ==
    ASSUME NEW n \in Int, NEW p \in Nat \ {0}, Magnitude(n) >= Unit,
           Magnitude(n) * Power(10, p) <= Significand
    PROVE  LET scaled == (Magnitude(n) * Power(10, p)) \div Unit
           IN  /\ print_double(n, p) \in Seq(Alphabet)
               /\ print_double(n, p) =
                   (IF n < 0 THEN <<"-">> ELSE <<>>)
                   \o Numeral(scaled \div Power(10, p), 10) \o <<".">>
                   \o [i \in 1..p |-> Digit[((scaled \div Power(10, p - i)) % 10) + 1]]
<1> DEFINE m == Magnitude(n)
           P == Power(10, p)
           scaled == (m * P) \div Unit
           l == Length(scaled, 10)
           N == Numeral(scaled, 10)
           digits == printnum(scaled, 10, 0, " ")
           sign == IF n < 0 THEN <<"-">> ELSE <<>>
           front == SubSeq(N, 1, l - p)
           behind == SubSeq(N, (l - p) + 1, l)
<1>0. 10 \in Nat /\ 10 > 1 /\ 10 \in Nat \ {0} /\ 10 \in 2..16
  OBVIOUS
<1>1. m \in Nat /\ m >= Unit /\ Unit \in Nat \ {0}
  BY PrintfAssumption DEF Magnitude
<1>2. P \in Nat \ {0}
  BY <1>0, QuotientByPower
<1>3. Scaled(n, p) = scaled
  BY ProductExact
<1>4. scaled \in Nat /\ P <= scaled
  <2> HIDE DEF m, P
  <2>1. m * P \in Nat
    BY <1>1, <1>2
  <2>2. Unit * P <= m * P
    BY <1>1, <1>2, TimesMore
  <2>3. scaled \in Nat
    BY <1>1, <2>1
  <2>4. P <= scaled
    BY <1>1, <1>2, <2>1, <2>2, QuotientLeast
  <2> QED
    BY <2>3, <2>4
<1> HIDE DEF scaled, m
<1>5. l \in Nat \ {0} /\ N \in Seq(Alphabet) /\ Len(N) = l
  BY <1>0, <1>4, LengthExists, NumeralSeq
<1>6. digits = N
  <2>1. digits = Copies(" ", 0 - l) \o N
    <3> DEFINE base == 10
               none == 0
               pad == " "
    <3>1. base \in Nat /\ base > 1 /\ none \in Int
      OBVIOUS
    <3>2. printnum(scaled, base, none, pad) =
              Copies(pad, none - Length(scaled, base)) \o Numeral(scaled, base)
      <4> HIDE DEF base, none, pad
      <4> QED
        BY <1>4, <3>1, DigitsBackwards
    <3> QED
      BY <3>2
  <2>2. Copies(" ", 0 - l) = <<>>
    <3>1. 0 - l \in Int /\ 0 - l <= 0
      BY <1>5
    <3> HIDE DEF l
    <3> QED
      BY <3>1, NoCopies
  <2>3. <<>> \o N = N
    BY <1>5, ConcatAssociates
  <2> HIDE DEF N, l, digits
  <2> QED
    BY <2>1, <2>2, <2>3
<1>7. print_double(n, p) = sign \o (front \o <<".">> \o behind)
  <2>1. print_double(n, p) =
            sign \o (SubSeq(digits, 1, Len(digits) - p) \o <<".">>
                        \o SubSeq(digits, (Len(digits) - p) + 1, Len(digits)))
    <3> DEFINE d == printnum(Scaled(n, p), 10, 0, " ")
    <3>1. p > 0 /\ d = digits
      BY <1>3
    <3>2. print_double(n, p) =
            sign \o (IF p > 0 THEN SubSeq(d, 1, Len(d) - p) \o <<".">>
                                      \o SubSeq(d, (Len(d) - p) + 1, Len(d))
                              ELSE d)
      BY DEF print_double
    <3> HIDE DEF sign, d, digits
    <3> QED
      BY <3>1, <3>2
  <2> HIDE DEF sign, digits, N, l
  <2> QED
    BY <1>5, <1>6, <2>1
<1>8. p < l /\ front = Numeral(scaled \div P, 10)
      /\ behind = [i \in 1..p |-> Digit[((scaled \div Power(10, p - i)) % 10) + 1]]
  BY <1>4, WholePart
<1>9. /\ sign \o (front \o <<".">> \o behind) = sign \o front \o <<".">> \o behind
      /\ sign \o (front \o <<".">> \o behind) \in Seq(Alphabet)
  <2>1. sign \in Seq(Alphabet) /\ <<".">> \in Seq(Alphabet)
    <3>1. "-" \in Alphabet /\ "." \in Alphabet
      BY DEF Alphabet, Letters
    <3> QED
      BY <3>1
  <2>2. front \in Seq(Alphabet) /\ behind \in Seq(Alphabet)
    <3> HIDE DEF N, l
    <3>1. l - p \in 1..l /\ (l - p) + 1 \in 1..l
      BY <1>5, <1>8
    <3>2. front \in Seq(Alphabet)
      BY <1>5, <3>1
    <3>3. behind \in Seq(Alphabet)
      BY <1>5, <3>1
    <3> QED
      BY <3>2, <3>3
  <2> DEFINE dot == <<".">>
  <2> HIDE DEF sign, front, behind, dot
  <2>3. sign \o ((front \o dot) \o behind) = (sign \o (front \o dot)) \o behind
    <3>1. front \o dot \in Seq(Alphabet)
      BY <2>1, <2>2, Concatenated DEF dot
    <3> DEFINE fd == front \o dot
    <3>3. fd \in Seq(Alphabet)
      BY <3>1
    <3> HIDE DEF fd
    <3>2. (sign \o fd) \o behind = sign \o (fd \o behind)
      BY <2>1, <2>2, <3>3, ConcatAssociates
    <3> QED
      BY <3>2 DEF fd
  <2>4. sign \o (front \o dot) = (sign \o front) \o dot
    BY <2>1, <2>2, ConcatAssociates DEF dot
  <2>5. sign \o ((front \o dot) \o behind) \in Seq(Alphabet)
    <3>1. dot \in Seq(Alphabet)
      BY <2>1 DEF dot
    <3>2. (front \o dot) \o behind \in Seq(Alphabet)
      BY <2>2, <3>1, Concatenated
    <3> QED
      BY <2>1, <3>2, Concatenated
  <2> QED
    BY <2>3, <2>4, <2>5 DEF dot
<1>10. print_double(n, p) = sign \o front \o <<".">> \o behind
       /\ print_double(n, p) \in Seq(Alphabet)
  BY <1>7, <1>9
<1> HIDE DEF front, behind, sign
<1> QED
  BY <1>8, <1>10 DEF sign, scaled, m

(***************************************************************************)
(* What is left of a directive's characters, from each of its parts on.    *)
(***************************************************************************)
HasPoint(p) == p.precStar \/ p.prec # Unset

FromLong(p) == p.long \o <<p.conv>>

FromNumber(p) == (IF p.precStar THEN <<"*">> ELSE Numeral(p.prec, 10)) \o FromLong(p)

FromPoint(p) == IF HasPoint(p) THEN <<".">> \o FromNumber(p) ELSE FromLong(p)

FromWidth(p) ==
    IF p.star THEN <<"*">> \o FromPoint(p)
    ELSE IF p.width = Unset THEN FromPoint(p) ELSE Numeral(p.width, 10) \o FromPoint(p)

FromFlag(p) == p.flag \o FromWidth(p)

(***************************************************************************)
(* The arguments from the precision on, and from the conversion on.        *)
(***************************************************************************)
OfConversion(p) ==
    IF p.conv \in {"%", "z"} THEN <<>> ELSE <<[text |-> p.text, number |-> p.number]>>

OfPrecision(p) == (IF p.precStar THEN <<Number(p.prec)>> ELSE <<>>) \o OfConversion(p)

(***************************************************************************)
(* What vprintfmt has made of the parts. A precision of 0 is read as a     *)
(* flag, and a point makes a width that is not there 0.                    *)
(***************************************************************************)
FlagRead(p) == IF p.flag = <<"-">> THEN "-" ELSE IF p.flag = <<"0">> THEN "0" ELSE " "

ZeroPrecision(p) == p.prec = 0 /\ ~p.precStar

PadRead(p) == IF ZeroPrecision(p) THEN "0" ELSE FlagRead(p)

WidthRead(p) == IF HasPoint(p) /\ p.width = Unset THEN 0 ELSE p.width

PrecisionRead(p) == IF ZeroPrecision(p) THEN Unset ELSE p.prec

(***************************************************************************)
(* Where in the directive vprintfmt is.                                    *)
(***************************************************************************)
Reads(chars, args, pad, w, prec) ==
    rest = chars /\ ap = args /\ padc = pad /\ width = w /\ precision = prec

AtFlag(p)  == Reads(FromFlag(p), Arguments(p), " ", Unset, Unset)

AtWidth(p) == Reads(FromWidth(p), Arguments(p), FlagRead(p), Unset, Unset)

AtPoint(p) == Reads(FromPoint(p), OfPrecision(p), FlagRead(p), p.width, Unset)

AtNumber(p) ==
    HasPoint(p) /\ Reads(FromNumber(p), OfPrecision(p), FlagRead(p), WidthRead(p), Unset)

AtLong(p) ==
    Reads(FromLong(p), OfConversion(p), PadRead(p), WidthRead(p), PrecisionRead(p))

AtConversion(p) ==
    Reads(<<p.conv>>, OfConversion(p), PadRead(p), WidthRead(p), PrecisionRead(p))

Somewhere(p) ==
    \/ AtFlag(p) \/ AtWidth(p) \/ AtPoint(p) \/ AtNumber(p) \/ AtLong(p) \/ AtConversion(p)

InEscape == last_fmt = FromFlag(piece) /\ out = <<>> /\ Somewhere(piece)

(***************************************************************************)
(* Outside a directive: it is to be read, or its characters are printed as *)
(* text, or it has been printed.                                           *)
(***************************************************************************)
Fresh == rest = Chars(piece) /\ ap = Arguments(piece) /\ out = <<>>

Literal ==
    /\ piece.conv = "z" /\ ap = <<>>
    /\ rest \in Seq(Alphabet \ {"%"}) /\ out \in Seq(Alphabet) /\ out \o rest = Chars(piece)

Printed == rest = <<>> /\ ap = <<>> /\ (Supported(piece) => out = InC(piece))

PfInvariant ==
    /\ pf_at \in {"caller", "text", "escape"}
    /\ pf_at = "caller" => rest = <<>> /\ ap = <<>>
    /\ pf_at # "caller" => piece \in Pieces
    /\ pf_at = "text" => Fresh \/ Literal \/ Printed
    /\ pf_at = "escape" => InEscape

(***************************************************************************)
(* What a piece holds for its conversion.                                  *)
(***************************************************************************)
Conversion(p) ==
    \/ p.conv = "s" /\ p.text \in Texts \cup {Null} /\ p.number = 0
    \/ p.conv = "d" /\ p.number \in Ints
    \/ p.conv \in {"u", "o", "x"} /\ p.number \in Unsigneds
    \/ p.conv = "f" /\ p.number \in Int
    \/ p.conv = "c" /\ p.text = <<"q">>
    \/ p.conv \in {"p", "%", "z"} /\ p.number = IntMod - 3

(***************************************************************************)
(* The parts of a piece are what the definition of the pieces says.        *)
(***************************************************************************)
LEMMA PieceParts ==
    ASSUME NEW p \in AnyPieces
    PROVE  /\ p.flag \in {<<>>, <<"-">>, <<"0">>, <<"#">>}
           /\ p.star \in BOOLEAN /\ p.precStar \in BOOLEAN
           /\ (p.width = Unset /\ ~p.star) \/ p.width \in Widths
           /\ p.prec \in {Unset, 0} \cup Widths
           /\ p.long \in {<<>>, <<"l">>}
           /\ Conversion(p)
<1>1. /\ p.flag \in {<<>>, <<"-">>, <<"0">>, <<"#">>}
      /\ p.star \in BOOLEAN /\ p.precStar \in BOOLEAN
      /\ p.width \in {Unset} \cup Widths /\ (p.width = Unset => ~p.star)
      /\ p.prec \in {Unset, 0} \cup Widths
      /\ p.long \in {<<>>, <<"l">>}
      /\ <<p.conv, p.text, p.number>> \in Conversions
  BY DEF AnyPieces
<1>2. \A n \in Doubles : n \in Int /\ -n \in Int
  BY PrintfAssumption
<1>3. Conversion(p)
  <2> DEFINE c == p.conv
             t == p.text
             n == p.number
  <2>1. <<c, t, n>> \in Conversions
    BY <1>1
  <2> HIDE DEF c, t, n
  <2>2. \/ c = "s" /\ t \in Texts \cup {Null} /\ n = 0
        \/ c = "d" /\ n \in Ints
        \/ c \in {"u", "o", "x"} /\ n \in Unsigneds
        \/ c = "f" /\ n \in Int
        \/ c = "c" /\ t = <<"q">>
        \/ c \in {"p", "%", "z"} /\ n = IntMod - 3
    BY <1>2, <2>1 DEF Conversions
  <2> QED
    BY <2>2 DEF c, t, n, Conversion
<1> QED
  BY <1>1, <1>3

(***************************************************************************)
(* The characters of the format, other than the %, are letters.            *)
(***************************************************************************)
LEMMA InLetters ==
    /\ {"-", "0", "#", "*", ".", "l"} \subseteq Letters
    /\ {"s", "d", "u", "o", "x", "f", "c", "p", "z"} \subseteq Letters
    /\ "%" \notin Letters /\ Letters \subseteq Alphabet /\ "%" \in Alphabet
<1>1. /\ Digit[1] = "0" /\ Digit[13] = "c" /\ Digit[14] = "d" /\ Digit[16] = "f"
      /\ {1, 13, 14, 16} \subseteq 1..16
  BY DEF Digit
<1>2. {"0", "c", "d", "f"} \subseteq Letters
  BY <1>1 DEF Letters
<1>3. \A i \in 1..16 : Digit[i] # "%"
  BY DEF Digit
<1> QED
  BY <1>2, <1>3 DEF Letters, Alphabet

(***************************************************************************)
(* No other character of a directive is a digit.                           *)
(***************************************************************************)
LEMMA NoDigits ==
    /\ {"-", "#", "*", ".", "l", "%"} \cap Digits = {}
    /\ {"s", "d", "u", "o", "x", "f", "c", "p", "z"} \cap Digits = {}
<1>1. ASSUME NEW i \in 1..10
      PROVE  /\ Digit[i] \notin {"-", "#", "*", ".", "l", "%"}
             /\ Digit[i] \notin {"s", "d", "u", "o", "x", "f", "c", "p", "z"}
  BY DEF Digit
<1> QED
  BY <1>1 DEF Digits

(***************************************************************************)
(* The conversion is one of ten characters.                                *)
(***************************************************************************)
LEMMA ConversionLetter ==
    ASSUME NEW p \in AnyPieces
    PROVE  /\ p.conv \in {"s", "d", "u", "o", "x", "f", "c", "p", "%", "z"}
           /\ p.conv \in Alphabet /\ (p.conv # "%" => p.conv \in Letters)
<1>1. p.conv \in {"s", "d", "u", "o", "x", "f", "c", "p", "%", "z"}
  BY PieceParts DEF Conversion
<1> QED
  BY <1>1, InLetters

(***************************************************************************)
(* A width that is there is a number above 0, a precision one from 0.      *)
(***************************************************************************)
LEMMA NumbersOfAPiece ==
    ASSUME NEW p \in AnyPieces
    PROVE  /\ p.width # Unset => p.width \in Nat \ {0}
           /\ p.prec # Unset => p.prec \in Nat
<1>1. (p.width = Unset /\ ~p.star) \/ p.width \in Widths
  BY PieceParts
<1>2. p.prec \in {Unset, 0} \cup Widths
  BY PieceParts
<1>3. p.prec = Unset \/ p.prec = 0 \/ p.prec \in Widths
  BY <1>2
<1>4. \A w \in Widths : w \in Nat \ {0}
  BY PrintfAssumption
<1> QED
  BY <1>1, <1>3, <1>4

(***************************************************************************)
(* The flag and the l are texts.                                           *)
(***************************************************************************)
LEMMA FlagAndLong ==
    ASSUME NEW p \in AnyPieces, NEW S, Letters \subseteq S
    PROVE  p.flag \in Seq(S) /\ p.long \in Seq(S)
<1>1. {"-", "0", "#", "l"} \subseteq S
  BY InLetters
<1>2. <<>> \in Seq(S) /\ <<"-">> \in Seq(S) /\ <<"0">> \in Seq(S) /\ <<"#">> \in Seq(S)
      /\ <<"l">> \in Seq(S)
  BY <1>1
<1>3. p.flag \in {<<>>, <<"-">>, <<"0">>, <<"#">>} /\ p.long \in {<<>>, <<"l">>}
  BY PieceParts
<1> QED
  BY <1>2, <1>3

(***************************************************************************)
(* So is what is left of the directive from each of its parts on.          *)
(***************************************************************************)
LEMMA PartsAreSequences ==
    ASSUME NEW p \in AnyPieces, NEW S, Letters \subseteq S, p.conv \in S
    PROVE  /\ FromLong(p) \in Seq(S)
           /\ HasPoint(p) => FromNumber(p) \in Seq(S)
           /\ FromPoint(p) \in Seq(S) /\ FromWidth(p) \in Seq(S) /\ FromFlag(p) \in Seq(S)
<1> USE InLetters
<1>0. \A n \in Nat : Numeral(n, 10) \in Seq(S)
  <2> SUFFICES ASSUME NEW n \in Nat PROVE Numeral(n, 10) \in Seq(S)
    OBVIOUS
  <2>1. Numeral(n, 10) \in Seq(Letters)
    <3>1. 10 \in 2..16
      OBVIOUS
    <3> QED
      BY <3>1, NumeralSeq
  <2> QED
    BY <2>1, WiderSeq
<1>1. p.long \in Seq(S) /\ p.flag \in Seq(S)
  BY FlagAndLong
<1>2. FromLong(p) \in Seq(S)
  BY <1>1 DEF FromLong
<1>3. ASSUME HasPoint(p) PROVE FromNumber(p) \in Seq(S)
  <2>1. CASE p.precStar
    BY <1>2, <2>1 DEF FromNumber
  <2>2. CASE ~p.precStar
    <3>1. p.prec \in Nat
      BY <1>3, <2>2, NumbersOfAPiece DEF HasPoint
    <3> QED
      BY <1>0, <1>2, <2>2, <3>1 DEF FromNumber
  <2> QED
    BY <2>1, <2>2
<1>4. FromPoint(p) \in Seq(S)
  BY <1>2, <1>3 DEF FromPoint
<1>5. FromWidth(p) \in Seq(S)
  <2>1. CASE p.star
    BY <1>4, <2>1 DEF FromWidth
  <2>2. CASE ~p.star /\ p.width = Unset
    BY <1>4, <2>2 DEF FromWidth
  <2>3. CASE ~p.star /\ p.width # Unset
    <3>1. p.width \in Nat
      BY <2>3, NumbersOfAPiece
    <3> QED
      BY <1>0, <1>4, <2>3, <3>1 DEF FromWidth
  <2> QED
    BY <2>1, <2>2, <2>3
<1>6. FromFlag(p) \in Seq(S)
  BY <1>1, <1>5 DEF FromFlag
<1> QED
  BY <1>2, <1>3, <1>4, <1>5, <1>6

(***************************************************************************)
(* The directive is a % and what is left from the flag on; its arguments   *)
(* are those of the width and then those from the precision on.            *)
(***************************************************************************)
LEMMA CharsFromFlag ==
    ASSUME NEW p \in AnyPieces
    PROVE  /\ Chars(p) = <<"%">> \o FromFlag(p)
           /\ p.star => Arguments(p) = <<Number(p.width)>> \o OfPrecision(p)
           /\ ~p.star => Arguments(p) = OfPrecision(p)
<1> DEFINE S == Alphabet
           wd == IF p.star THEN <<"*">> ELSE IF p.width = Unset THEN <<>>
               ELSE Numeral(p.width, 10)
           pr == IF p.precStar THEN <<".", "*">>
                 ELSE IF p.prec = Unset THEN <<>> ELSE <<".">> \o Numeral(p.prec, 10)
           f == p.flag
           l == p.long
           c == <<p.conv>>
           h == <<"%">>
<1>1. Chars(p) = ((((h \o f) \o wd) \o pr) \o l) \o c
  BY DEF Chars
<1>2. h \in Seq(S) /\ f \in Seq(S) /\ l \in Seq(S) /\ c \in Seq(S)
  <2>1. f \in Seq(S) /\ l \in Seq(S)
    BY FlagAndLong, InLetters
  <2>2. p.conv \in S /\ "%" \in S
    BY ConversionLetter, InLetters
  <2> QED
    BY <2>1, <2>2
<1>3. \A n \in Nat : Numeral(n, 10) \in Seq(S)
  <2> SUFFICES ASSUME NEW n \in Nat PROVE Numeral(n, 10) \in Seq(S)
    OBVIOUS
  <2>1. 10 \in 2..16
    OBVIOUS
  <2> QED
    BY <2>1, NumeralSeq
<1>4. wd \in Seq(S)
  <2>1. CASE p.star
    BY <2>1, InLetters
  <2>2. CASE ~p.star /\ p.width = Unset
    BY <2>2
  <2>3. CASE ~p.star /\ p.width # Unset
    <3>1. p.width \in Nat
      BY <2>3, NumbersOfAPiece
    <3> QED
      BY <1>3, <2>3, <3>1
  <2> QED
    BY <2>1, <2>2, <2>3
<1>5. pr \in Seq(S) /\ FromPoint(p) = pr \o (l \o c)
  <2>0. FromLong(p) = l \o c /\ l \o c \in Seq(S)
    BY <1>2, Concatenated DEF FromLong
  <2> DEFINE lc == l \o c
             dot == <<".">>
             star == <<"*">>
  <2>1. dot \in Seq(S) /\ star \in Seq(S) /\ <<".", "*">> = dot \o star
    BY InLetters
  <2> HIDE DEF lc, dot, star
  <2>2. CASE p.precStar
    <3>1. pr = dot \o star
      BY <2>1, <2>2
    <3>2. FromPoint(p) = dot \o (star \o lc)
      BY <2>0, <2>2 DEF FromPoint, FromNumber, HasPoint, lc, dot, star
    <3>3. dot \o star \in Seq(S) /\ (dot \o star) \o lc = dot \o (star \o lc)
      <4>1. lc \in Seq(S)
        BY <2>0 DEF lc
      <4> QED
        BY <2>1, <4>1, Concatenated, ConcatAssociates
    <3> QED
      BY <3>1, <3>2, <3>3 DEF lc
  <2>3. CASE ~p.precStar /\ p.prec = Unset
    <3>1. pr = <<>> /\ FromPoint(p) = lc
      BY <2>0, <2>3 DEF FromPoint, HasPoint, lc
    <3>2. <<>> \o lc = lc /\ <<>> \in Seq(S)
      BY <2>0, ConcatAssociates DEF lc
    <3> HIDE DEF pr
    <3> QED
      BY <3>1, <3>2 DEF lc
  <2>4. CASE ~p.precStar /\ p.prec # Unset
    <3> DEFINE N == Numeral(p.prec, 10)
    <3>1. p.prec \in Nat
      BY <2>4, NumbersOfAPiece
    <3>2. N \in Seq(S)
      BY <1>3, <3>1
    <3>3. pr = dot \o N /\ FromPoint(p) = dot \o (N \o lc)
      BY <2>0, <2>4 DEF FromPoint, FromNumber, HasPoint, lc, dot
    <3> HIDE DEF N, pr
    <3>4. dot \o N \in Seq(S) /\ (dot \o N) \o lc = dot \o (N \o lc)
      <4>1. lc \in Seq(S)
        BY <2>0 DEF lc
      <4> QED
        BY <2>1, <3>2, <4>1, Concatenated, ConcatAssociates
    <3> QED
      BY <3>3, <3>4 DEF lc
  <2> QED
    BY <2>2, <2>3, <2>4
<1>6. FromWidth(p) = wd \o FromPoint(p) /\ FromPoint(p) \in Seq(S)
  <2>1. FromPoint(p) \in Seq(S)
    BY PartsAreSequences, ConversionLetter, InLetters
  <2>2. <<>> \o FromPoint(p) = FromPoint(p)
    BY <2>1, ConcatAssociates
  <2> QED
    BY <2>1, <2>2 DEF FromWidth
<1>7. FromFlag(p) = f \o FromWidth(p)
  BY DEF FromFlag
<1> HIDE DEF wd, pr, f, l, c, h
<1>8. Chars(p) = h \o FromFlag(p)
  <2> DEFINE hf == h \o f
             hfw == hf \o wd
             hfwp == hfw \o pr
  <2>1. hf \in Seq(S) /\ hfw \in Seq(S) /\ hfwp \in Seq(S)
    BY <1>2, <1>4, <1>5, Concatenated
  <2>2. Chars(p) = (hfwp \o l) \o c
    BY <1>1
  <2>3. (hfwp \o l) \o c = hfwp \o (l \o c)
    <3>1. hfwp \in Seq(S) /\ l \in Seq(S) /\ c \in Seq(S)
      BY <1>2, <2>1
    <3> HIDE DEF hfwp, S
    <3> QED
      BY <3>1, ConcatAssociates
  <2> DEFINE lc == l \o c
             plc == pr \o lc
             wplc == wd \o plc
  <2>4. lc \in Seq(S) /\ plc \in Seq(S) /\ wplc \in Seq(S)
    BY <1>2, <1>4, <1>5, Concatenated
  <2>5. hfwp \o lc = hfw \o plc
    <3>1. hfw \in Seq(S) /\ pr \in Seq(S) /\ lc \in Seq(S)
      BY <1>5, <2>1, <2>4
    <3> HIDE DEF lc, hfw, S
    <3> QED
      BY <3>1, ConcatAssociates
  <2>6. hfw \o plc = hf \o wplc
    <3>1. hf \in Seq(S) /\ wd \in Seq(S) /\ plc \in Seq(S)
      BY <1>4, <2>1, <2>4
    <3> HIDE DEF plc, hf, S
    <3> QED
      BY <3>1, ConcatAssociates
  <2>7. hf \o wplc = h \o (f \o wplc)
    <3>1. h \in Seq(S) /\ f \in Seq(S) /\ wplc \in Seq(S)
      BY <1>2, <2>4
    <3> HIDE DEF wplc, S
    <3> QED
      BY <3>1, ConcatAssociates
  <2>8. FromFlag(p) = f \o wplc
    BY <1>5, <1>6, <1>7
  <2> HIDE DEF hf, hfw, hfwp, wplc, plc
  <2> QED
    BY <2>2, <2>3, <2>5, <2>6, <2>7, <2>8
<1>9. Arguments(p) = (IF p.star THEN <<Number(p.width)>> ELSE <<>>) \o OfPrecision(p)
  <2> DEFINE x == Number(p.width)
             y == Number(p.prec)
             z == [text |-> p.text, number |-> p.number]
             A == {x, y, z}
             w1 == IF p.star THEN <<x>> ELSE <<>>
             p1 == IF p.precStar THEN <<y>> ELSE <<>>
             c1 == IF p.conv \in {"%", "z"} THEN <<>> ELSE <<z>>
  <2>1. w1 \in Seq(A) /\ p1 \in Seq(A) /\ c1 \in Seq(A)
    <3> HIDE DEF x, y, z
    <3>1. <<>> \in Seq(A) /\ \A v \in A : <<v>> \in Seq(A)
      OBVIOUS
    <3>2. x \in A /\ y \in A /\ z \in A
      OBVIOUS
    <3> HIDE DEF A
    <3> QED
      BY <3>1, <3>2
  <2>2. Arguments(p) = (w1 \o p1) \o c1
    BY DEF Arguments
  <2>3. OfPrecision(p) = p1 \o c1
    BY DEF OfPrecision, OfConversion
  <2> HIDE DEF w1, p1, c1, A
  <2>4. (w1 \o p1) \o c1 = w1 \o (p1 \o c1)
    BY <2>1, ConcatAssociates
  <2>5. Arguments(p) = w1 \o OfPrecision(p)
    BY <2>2, <2>3, <2>4
  <2> QED
    BY <2>5 DEF w1
<1>10. <<>> \o OfPrecision(p) = OfPrecision(p)
  <2> DEFINE y == Number(p.prec)
             z == [text |-> p.text, number |-> p.number]
             A == {y, z}
             p1 == IF p.precStar THEN <<y>> ELSE <<>>
             c1 == IF p.conv \in {"%", "z"} THEN <<>> ELSE <<z>>
  <2>1. p1 \in Seq(A) /\ c1 \in Seq(A)
    <3> HIDE DEF y, z
    <3>1. <<>> \in Seq(A) /\ \A v \in A : <<v>> \in Seq(A)
      OBVIOUS
    <3>2. y \in A /\ z \in A
      OBVIOUS
    <3> HIDE DEF A
    <3> QED
      BY <3>1, <3>2
  <2>2. OfPrecision(p) = p1 \o c1
    BY DEF OfPrecision, OfConversion
  <2> HIDE DEF p1, c1, A
  <2>3. p1 \o c1 \in Seq(A)
    BY <2>1, Concatenated
  <2> DEFINE pc1 == p1 \o c1
  <2> HIDE DEF pc1
  <2>4. <<>> \o pc1 = pc1
    BY <2>3, ConcatAssociates DEF pc1
  <2> QED
    BY <2>2, <2>4 DEF pc1
<1> QED
  BY <1>8, <1>9, <1>10 DEF h

(***************************************************************************)
(* The next character at each part of the directive, and what it leaves.   *)
(***************************************************************************)
LEMMA NextCharacters ==
    ASSUME NEW p \in AnyPieces
    PROVE  /\ p.flag # <<>> =>
                  /\ p.flag \in {<<"-">>, <<"0">>, <<"#">>}
                  /\ p.flag = <<Head(FromFlag(p))>> /\ Tail(FromFlag(p)) = FromWidth(p)
           /\ p.star => Head(FromWidth(p)) = "*" /\ Tail(FromWidth(p)) = FromPoint(p)
           /\ ~p.star /\ p.width # Unset => Head(FromWidth(p)) \in Digits \ {"0"}
           /\ HasPoint(p) => Head(FromPoint(p)) = "." /\ Tail(FromPoint(p)) = FromNumber(p)
           /\ p.precStar => Head(FromNumber(p)) = "*" /\ Tail(FromNumber(p)) = FromLong(p)
           /\ ZeroPrecision(p)
                  => Head(FromNumber(p)) = "0" /\ Tail(FromNumber(p)) = FromLong(p)
           /\ HasPoint(p) /\ ~p.precStar /\ p.prec # 0
                  => Head(FromNumber(p)) \in Digits \ {"0"}
           /\ p.long # <<>> => Head(FromLong(p)) = "l" /\ Tail(FromLong(p)) = <<p.conv>>
           /\ Head(<<p.conv>>) = p.conv /\ Tail(<<p.conv>>) = <<>>
           /\ FromLong(p) # <<>> /\ FromLong(p)[1] \notin Digits
           /\ FromPoint(p) # <<>> /\ FromPoint(p)[1] \notin Digits
<1> DEFINE S == Alphabet
<1>0. p.conv \in S /\ Letters \subseteq S /\ {"-", "0", "#", "*", ".", "l"} \subseteq S
  BY ConversionLetter, InLetters
<1>1. /\ FromLong(p) \in Seq(S)
      /\ HasPoint(p) => FromNumber(p) \in Seq(S)
      /\ FromPoint(p) \in Seq(S) /\ FromWidth(p) \in Seq(S)
  BY <1>0, PartsAreSequences
<1>2. <<p.conv>> \in Seq(S)
  BY <1>0
<1> HIDE DEF S
<1>3. \A s \in Seq(S) : \A c \in {"-", "0", "#", "*", ".", "l"} :
          /\ <<c>> \o s # <<>> /\ (<<c>> \o s)[1] = c
          /\ Head(<<c>> \o s) = c /\ Tail(<<c>> \o s) = s
  BY <1>0, AfterFirst
<1>4. ASSUME p.flag # <<>>
      PROVE  /\ p.flag \in {<<"-">>, <<"0">>, <<"#">>}
             /\ p.flag = <<Head(FromFlag(p))>> /\ Tail(FromFlag(p)) = FromWidth(p)
  <2>1. PICK c \in {"-", "0", "#"} : p.flag = <<c>>
    BY <1>4, PieceParts
  <2>2. FromFlag(p) = <<c>> \o FromWidth(p)
    BY <2>1 DEF FromFlag
  <2>3. Head(FromFlag(p)) = c /\ Tail(FromFlag(p)) = FromWidth(p)
    BY <1>1, <1>3, <2>2
  <2> QED
    BY <2>1, <2>3
<1>5. ASSUME p.star PROVE Head(FromWidth(p)) = "*" /\ Tail(FromWidth(p)) = FromPoint(p)
  <2>1. FromWidth(p) = <<"*">> \o FromPoint(p)
    BY <1>5 DEF FromWidth
  <2> QED
    BY <1>1, <1>3, <2>1
<1>6. ASSUME HasPoint(p)
      PROVE Head(FromPoint(p)) = "." /\ Tail(FromPoint(p)) = FromNumber(p)
                               /\ FromPoint(p)[1] = "." /\ FromPoint(p) # <<>>
  <2>1. FromPoint(p) = <<".">> \o FromNumber(p)
    BY <1>6 DEF FromPoint
  <2> QED
    BY <1>1, <1>3, <1>6, <2>1
<1>7. ASSUME p.precStar PROVE Head(FromNumber(p)) = "*" /\ Tail(FromNumber(p)) = FromLong(p)
  <2>1. FromNumber(p) = <<"*">> \o FromLong(p)
    BY <1>7 DEF FromNumber
  <2> QED
    BY <1>1, <1>3, <2>1
<1>8. ASSUME ZeroPrecision(p)
      PROVE  Head(FromNumber(p)) = "0" /\ Tail(FromNumber(p)) = FromLong(p)
  <2>1. FromNumber(p) = <<"0">> \o FromLong(p)
    BY <1>8, NumeralOfZero DEF FromNumber, ZeroPrecision
  <2> QED
    BY <1>1, <1>3, <2>1
<1>9. ASSUME p.long # <<>> PROVE Head(FromLong(p)) = "l" /\ Tail(FromLong(p)) = <<p.conv>>
                                 /\ FromLong(p)[1] = "l" /\ FromLong(p) # <<>>
  <2>1. FromLong(p) = <<"l">> \o <<p.conv>>
    BY <1>9, PieceParts DEF FromLong
  <2> QED
    BY <1>2, <1>3, <2>1
<1>10. FromLong(p) # <<>> /\ FromLong(p)[1] \notin Digits
  <2>1. CASE p.long = <<>>
    <3>1. FromLong(p) = <<p.conv>>
      BY <1>2, <2>1, ConcatAssociates DEF FromLong
    <3> QED
      BY <3>1, ConversionLetter, NoDigits
  <2>2. CASE p.long # <<>>
    BY <1>9, <2>2, NoDigits
  <2> QED
    BY <2>1, <2>2
<1>11. FromPoint(p) # <<>> /\ FromPoint(p)[1] \notin Digits
  <2>1. CASE HasPoint(p)
    BY <1>6, <2>1, NoDigits
  <2>2. CASE ~HasPoint(p)
    BY <1>10, <2>2 DEF FromPoint
  <2> QED
    BY <2>1, <2>2
<1>12. ASSUME ~p.star, p.width # Unset PROVE Head(FromWidth(p)) \in Digits \ {"0"}
  <2>1. p.width \in Nat \ {0} /\ FromWidth(p) = Numeral(p.width, 10) \o FromPoint(p)
    BY <1>12, NumbersOfAPiece DEF FromWidth
  <2> QED
    BY <1>1, <1>11, <2>1, NumeralFirst DEF S
<1>13. ASSUME HasPoint(p), ~p.precStar, p.prec # 0
       PROVE  Head(FromNumber(p)) \in Digits \ {"0"}
  <2>1. p.prec \in Nat \ {0} /\ FromNumber(p) = Numeral(p.prec, 10) \o FromLong(p)
    BY <1>13, NumbersOfAPiece DEF FromNumber, HasPoint
  <2> QED
    BY <1>1, <1>10, <2>1, NumeralFirst DEF S
<1>14. Head(<<p.conv>>) = p.conv /\ Tail(<<p.conv>>) = <<>>
  OBVIOUS
<1> QED
  BY <1>4, <1>5, <1>6, <1>7, <1>8, <1>9, <1>10, <1>11, <1>12, <1>13, <1>14

(***************************************************************************)
(* A precision that is a * has an argument of its own.                     *)
(***************************************************************************)
LEMMA NoPrecisionArgument ==
    ASSUME NEW p
    PROVE  /\ ~p.precStar => OfPrecision(p) = OfConversion(p)
           /\ p.precStar => OfPrecision(p) = <<Number(p.prec)>> \o OfConversion(p)
<1> DEFINE z == [text |-> p.text, number |-> p.number]
           c1 == IF p.conv \in {"%", "z"} THEN <<>> ELSE <<z>>
<1>1. c1 \in Seq({z})
  <2>1. <<>> \in Seq({z}) /\ <<z>> \in Seq({z})
    OBVIOUS
  <2> HIDE DEF z
  <2> QED
    BY <2>1
<1>2. OfConversion(p) = c1
  BY DEF OfConversion
<1> HIDE DEF c1
<1>3. <<>> \o c1 = c1
  BY <1>1, ConcatAssociates
<1> QED
  BY <1>2, <1>3 DEF OfPrecision

(***************************************************************************)
(* A part that is empty has been passed: vprintfmt is also at the next     *)
(* one.                                                                    *)
(***************************************************************************)
LEMMA FurtherOn ==
    ASSUME NEW p \in AnyPieces, Somewhere(p)
    PROVE  \/ AtFlag(p) /\ p.flag # <<>>
           \/ AtWidth(p) /\ p.width # Unset
           \/ AtPoint(p) /\ HasPoint(p)
           \/ AtNumber(p)
           \/ AtLong(p) /\ p.long # <<>>
           \/ AtConversion(p)
<1>0. p.conv \in Alphabet /\ Letters \subseteq Alphabet
  BY ConversionLetter, InLetters
<1>1. FromWidth(p) \in Seq(Alphabet) /\ <<p.conv>> \in Seq(Alphabet)
  BY <1>0, PartsAreSequences
<1>2. AtFlag(p) => AtWidth(p) \/ p.flag # <<>>
  <2> SUFFICES ASSUME AtFlag(p), p.flag = <<>> PROVE AtWidth(p)
    OBVIOUS
  <2>1. FromFlag(p) = FromWidth(p)
    BY <1>1, ConcatAssociates DEF FromFlag
  <2>2. FlagRead(p) = " "
    BY DEF FlagRead
  <2> QED
    BY <2>1, <2>2 DEF AtFlag, AtWidth, Reads
<1>3. AtWidth(p) => AtPoint(p) \/ p.width # Unset
  <2> SUFFICES ASSUME AtWidth(p), p.width = Unset PROVE AtPoint(p)
    OBVIOUS
  <2>0. ~p.star
    BY PieceParts, NumbersOfAPiece, PrintfAssumption DEF Unset
  <2>1. FromWidth(p) = FromPoint(p)
    BY <2>0 DEF FromWidth
  <2>2. Arguments(p) = OfPrecision(p)
    BY <2>0, CharsFromFlag
  <2> QED
    BY <2>1, <2>2 DEF AtPoint, AtWidth, Reads
<1>4. AtPoint(p) => AtLong(p) \/ HasPoint(p)
  <2> SUFFICES ASSUME AtPoint(p), ~HasPoint(p) PROVE AtLong(p)
    OBVIOUS
  <2>1. ~p.precStar /\ p.prec = Unset /\ Unset # 0
    BY DEF HasPoint, Unset
  <2>2. FromPoint(p) = FromLong(p) /\ WidthRead(p) = p.width
    BY DEF FromPoint, WidthRead
  <2>3. PadRead(p) = FlagRead(p) /\ PrecisionRead(p) = Unset
    BY <2>1 DEF PadRead, PrecisionRead, ZeroPrecision
  <2>4. OfPrecision(p) = OfConversion(p)
    BY <2>1, NoPrecisionArgument
  <2> QED
    BY <2>2, <2>3, <2>4 DEF AtPoint, AtLong, Reads
<1>5. AtLong(p) => AtConversion(p) \/ p.long # <<>>
  <2> SUFFICES ASSUME AtLong(p), p.long = <<>> PROVE AtConversion(p)
    OBVIOUS
  <2>1. FromLong(p) = <<p.conv>>
    BY <1>1, ConcatAssociates DEF FromLong
  <2> QED
    BY <2>1 DEF AtConversion, AtLong, Reads
<1> QED
  BY <1>2, <1>3, <1>4, <1>5 DEF Somewhere

(***************************************************************************)
(* A step that moves within the directive keeps the invariant.             *)
(***************************************************************************)
LEMMA StillInEscape ==
    ASSUME PfInvariant, pf_at = "escape", UNCHANGED <<pf_at, piece, out, last_fmt>>,
           NEW p, p = piece, Somewhere(p)'
    PROVE  PfInvariant'
<1>1. piece' = p /\ pf_at' = "escape" /\ out' = <<>> /\ last_fmt' = FromFlag(p)
          /\ p \in Pieces
  BY DEF PfInvariant, InEscape
<1>2. Somewhere(piece)'
  BY <1>1 DEF Somewhere, AtFlag, AtWidth, AtPoint, AtNumber, AtLong, AtConversion, Reads
<1>3. InEscape'
  BY <1>1, <1>2 DEF InEscape
<1> QED
  BY <1>1, <1>3 DEF PfInvariant

(***************************************************************************)
(* What the invariant says within a directive, with the piece as a         *)
(* constant.                                                               *)
(***************************************************************************)
LEMMA InDirective ==
    ASSUME PfInvariant, pf_at = "escape"
    PROVE  \E p \in AnyPieces :
               /\ p = piece /\ p \in Pieces /\ out = <<>> /\ last_fmt = FromFlag(p)
               /\ Somewhere(p)
<1>1. piece \in Pieces /\ piece \in AnyPieces
  BY DEF PfInvariant, Pieces
<1> QED
  BY <1>1 DEF PfInvariant, InEscape

(***************************************************************************)
(* The next character tells at which part vprintfmt is.                    *)
(***************************************************************************)
LEMMA HeadsInDirective ==
    ASSUME NEW p \in AnyPieces, Somewhere(p), NEW c, c = Head(rest)
    PROVE  \/ AtFlag(p) /\ p.flag = <<c>> /\ c \in {"-", "0", "#"}
                  /\ Tail(rest) = FromWidth(p)
           \/ AtWidth(p) /\ p.star /\ c = "*" /\ Tail(rest) = FromPoint(p)
           \/ AtWidth(p) /\ ~p.star /\ p.width # Unset /\ c \in Digits \ {"0"}
           \/ AtPoint(p) /\ HasPoint(p) /\ c = "." /\ Tail(rest) = FromNumber(p)
           \/ AtNumber(p) /\ p.precStar /\ c = "*" /\ Tail(rest) = FromLong(p)
           \/ AtNumber(p) /\ ZeroPrecision(p) /\ c = "0" /\ Tail(rest) = FromLong(p)
           \/ AtNumber(p) /\ ~p.precStar /\ p.prec # 0 /\ c \in Digits \ {"0"}
           \/ AtLong(p) /\ p.long # <<>> /\ c = "l" /\ Tail(rest) = <<p.conv>>
           \/ AtConversion(p) /\ c = p.conv /\ Tail(rest) = <<>>
<1>1. CASE AtFlag(p) /\ p.flag # <<>>
  <2>1. rest = FromFlag(p)
    BY <1>1 DEF AtFlag, Reads
  <2>2. p.flag = <<c>> /\ Tail(rest) = FromWidth(p)
            /\ p.flag \in {<<"-">>, <<"0">>, <<"#">>}
    BY <1>1, <2>1, NextCharacters
  <2>3. c \in {"-", "0", "#"}
    BY <2>2
  <2> QED
    BY <1>1, <2>2, <2>3
<1>2. CASE AtWidth(p) /\ p.width # Unset
  <2>1. rest = FromWidth(p)
    BY <1>2 DEF AtWidth, Reads
  <2>2. CASE p.star
    BY <1>2, <2>1, <2>2, NextCharacters
  <2>3. CASE ~p.star
    BY <1>2, <2>1, <2>3, NextCharacters
  <2> QED
    BY <2>2, <2>3
<1>3. CASE AtPoint(p) /\ HasPoint(p)
  <2>1. rest = FromPoint(p)
    BY <1>3 DEF AtPoint, Reads
  <2> QED
    BY <1>3, <2>1, NextCharacters
<1>4. CASE AtNumber(p)
  <2>1. rest = FromNumber(p) /\ HasPoint(p)
    BY <1>4 DEF AtNumber, Reads
  <2>2. CASE p.precStar
    BY <1>4, <2>1, <2>2, NextCharacters
  <2>3. CASE ZeroPrecision(p)
    BY <1>4, <2>1, <2>3, NextCharacters
  <2>4. CASE ~p.precStar /\ ~ZeroPrecision(p)
    BY <1>4, <2>1, <2>4, NextCharacters DEF ZeroPrecision
  <2> QED
    BY <2>2, <2>3, <2>4
<1>5. CASE AtLong(p) /\ p.long # <<>>
  <2>1. rest = FromLong(p)
    BY <1>5 DEF AtLong, Reads
  <2> QED
    BY <1>5, <2>1, NextCharacters
<1>6. CASE AtConversion(p)
  <2>1. rest = <<p.conv>>
    BY <1>6 DEF AtConversion, Reads
  <2> QED
    BY <1>6, <2>1, NextCharacters
<1> QED
  BY <1>1, <1>2, <1>3, <1>4, <1>5, <1>6, FurtherOn

(***************************************************************************)
(* The flags are different texts.                                          *)
(***************************************************************************)
LEMMA FlagsDiffer ==
    <<"-">> # <<"0">> /\ <<"-">> # <<"#">> /\ <<"0">> # <<"#">>
    /\ <<>> # <<"-">> /\ <<>> # <<"0">> /\ <<>> # <<"#">>
<1>1. <<"-">>[1] = "-" /\ <<"0">>[1] = "0" /\ <<"#">>[1] = "#"
  OBVIOUS
<1>2. "-" # "0" /\ "-" # "#" /\ "0" # "#"
  OBVIOUS
<1>3. <<>> # <<"-">> /\ <<>> # <<"0">> /\ <<>> # <<"#">>
  OBVIOUS
<1> QED
  BY <1>1, <1>2, <1>3

(***************************************************************************)
(* The case of a - or a 0: a flag, or a precision of 0.                    *)
(***************************************************************************)
LEMMA FlagKeeps == ASSUME PfInvariant, Flag PROVE PfInvariant'
<1>1. PICK c \in {"-", "0"} : Case(c) /\ padc' = c
  BY DEF Flag
<1>2. /\ pf_at = "escape" /\ c = Head(rest) /\ rest' = Tail(rest)
      /\ UNCHANGED <<pf_at, follows, piece, out, last_fmt, ap, width, precision>>
  BY <1>1 DEF Flag, Case, Reswitch
<1>3. PICK p \in AnyPieces : p = piece /\ Somewhere(p)
  BY <1>2, InDirective
<1>4. \/ AtFlag(p) /\ p.flag = <<c>> /\ Tail(rest) = FromWidth(p)
      \/ AtNumber(p) /\ ZeroPrecision(p) /\ c = "0" /\ Tail(rest) = FromLong(p)
  <2>1. c \notin Digits \ {"0"} /\ c \notin {"*", ".", "l"} /\ c # p.conv
    <3>1. p.conv \notin {"-", "0"}
      BY ConversionLetter
    <3> QED
      BY <3>1, <1>1, NoDigits
  <2> QED
    BY <1>2, <1>3, <2>1, HeadsInDirective
<1>5. CASE AtFlag(p) /\ p.flag = <<c>> /\ Tail(rest) = FromWidth(p)
  <2>1. FlagRead(p) = c
    BY <1>1, <1>5, FlagsDiffer DEF FlagRead
  <2>2. AtWidth(p)'
    BY <1>1, <1>2, <1>5, <2>1 DEF AtWidth, AtFlag, Reads
  <2> QED
    BY <1>2, <1>3, <2>2, StillInEscape DEF Somewhere
<1>6. CASE AtNumber(p) /\ ZeroPrecision(p) /\ c = "0" /\ Tail(rest) = FromLong(p)
  <2>1. PadRead(p) = c /\ PrecisionRead(p) = Unset /\ OfPrecision(p) = OfConversion(p)
    BY <1>6, NoPrecisionArgument DEF PadRead, PrecisionRead, ZeroPrecision
  <2>2. AtLong(p)'
    BY <1>1, <1>2, <1>6, <2>1 DEF AtLong, AtNumber, Reads
  <2> QED
    BY <1>2, <1>3, <2>2, StillInEscape DEF Somewhere
<1> QED
  BY <1>4, <1>5, <1>6

(***************************************************************************)
(* The first argument is that of the *, the others are left.               *)
(***************************************************************************)
LEMMA ArgumentsLeft ==
    ASSUME NEW p, NEW v, NEW s,
           s = <<Number(v)>> \o OfConversion(p) \/ s = <<Number(v)>> \o OfPrecision(p)
    PROVE  /\ Head(s).number = v
           /\ s = <<Number(v)>> \o OfConversion(p) => Tail(s) = OfConversion(p)
           /\ s = <<Number(v)>> \o OfPrecision(p) => Tail(s) = OfPrecision(p)
<1> DEFINE x == Number(v)
           y == Number(p.prec)
           z == [text |-> p.text, number |-> p.number]
           A == {x, y, z}
           c1 == OfConversion(p)
           p1 == OfPrecision(p)
<1>1. c1 = <<>> \/ c1 = <<z>>
  BY DEF OfConversion
<1>2. p1 = c1 \/ p1 = <<y>> \o c1
  BY NoPrecisionArgument
<1>3. x \in A /\ y \in A /\ z \in A
  OBVIOUS
<1>4. x.number = v
  BY DEF Number
<1>5. s = <<x>> \o c1 \/ s = <<x>> \o p1
  OBVIOUS
<1> HIDE DEF A, x, y, z, c1, p1
<1>6. c1 \in Seq(A)
  BY <1>1, <1>3, OneOf
<1>7. p1 \in Seq(A)
  <2>1. <<y>> \o c1 \in Seq(A)
    BY <1>3, <1>6, AfterFirst
  <2> QED
    BY <1>2, <1>6, <2>1
<1>8. Head(<<x>> \o c1) = x /\ Tail(<<x>> \o c1) = c1
  BY <1>3, <1>6, AfterFirst
<1>9. Head(<<x>> \o p1) = x /\ Tail(<<x>> \o p1) = p1
  BY <1>3, <1>7, AfterFirst
<1> QED
  BY <1>4, <1>5, <1>8, <1>9 DEF x, c1, p1

(***************************************************************************)
(* At a point the width is a number, if only 0.                            *)
(***************************************************************************)
LEMMA WidthOfPoint ==
    ASSUME NEW p \in AnyPieces, HasPoint(p)
    PROVE  WidthRead(p) \in Nat
  BY NumbersOfAPiece DEF WidthRead

(***************************************************************************)
(* The case of a *: the width, or the precision if there is a width.       *)
(***************************************************************************)
LEMMA StarKeeps == ASSUME PfInvariant, Star PROVE PfInvariant'
<1> DEFINE c == "*"
           arg == Head(ap).number
<1>1. /\ pf_at = "escape" /\ c = Head(rest) /\ rest' = Tail(rest) /\ ap' = Tail(ap)
      /\ UNCHANGED <<pf_at, follows, piece, out, last_fmt, padc>>
      /\ IF width < 0 THEN width' = arg /\ precision' = Unset
                      ELSE precision' = arg /\ width' = width
  BY DEF Star, Case, Reswitch, process_precision
<1> HIDE DEF c
<1>2. PICK p \in AnyPieces : p = piece /\ Somewhere(p)
  BY <1>1, InDirective
<1>3. \/ AtWidth(p) /\ p.star /\ Tail(rest) = FromPoint(p)
      \/ AtNumber(p) /\ p.precStar /\ Tail(rest) = FromLong(p)
  <2>1. c \notin Digits \ {"0"} /\ c \notin {"-", "0", "#", ".", "l"} /\ c # p.conv
    <3>1. p.conv # "*"
      BY ConversionLetter
    <3> QED
      BY <3>1, NoDigits DEF c
  <2> QED
    BY <1>1, <1>2, <2>1, HeadsInDirective
<1>4. \A s : \A v : s = <<Number(v)>> \o OfConversion(p)
          \/ s = <<Number(v)>> \o OfPrecision(p) =>
          /\ Head(s).number = v
          /\ s = <<Number(v)>> \o OfConversion(p) => Tail(s) = OfConversion(p)
          /\ s = <<Number(v)>> \o OfPrecision(p) => Tail(s) = OfPrecision(p)
  BY ArgumentsLeft
<1>5. CASE AtWidth(p) /\ p.star /\ Tail(rest) = FromPoint(p)
  <2>1. ap = <<Number(p.width)>> \o OfPrecision(p) /\ width = Unset /\ width < 0
    <3>1. ap = Arguments(p) /\ width = Unset
      BY <1>5 DEF AtWidth, Reads
    <3>2. Arguments(p) = <<Number(p.width)>> \o OfPrecision(p)
      BY <1>5, CharsFromFlag
    <3>3. Unset < 0
      BY DEF Unset
    <3> QED
      BY <3>1, <3>2, <3>3
  <2>2. arg = p.width /\ Tail(ap) = OfPrecision(p)
    BY <1>4, <2>1
  <2> HIDE DEF arg
  <2>3. AtPoint(p)'
    BY <1>1, <1>5, <2>1, <2>2 DEF AtWidth, AtPoint, Reads
  <2> QED
    BY <1>1, <1>2, <2>3, StillInEscape DEF Somewhere
<1>6. CASE AtNumber(p) /\ p.precStar /\ Tail(rest) = FromLong(p)
  <2>1. ap = <<Number(p.prec)>> \o OfConversion(p)
    BY <1>6, NoPrecisionArgument DEF AtNumber, Reads
  <2>2. arg = p.prec /\ Tail(ap) = OfConversion(p)
    BY <1>4, <2>1
  <2> HIDE DEF arg
  <2>3. width = WidthRead(p) /\ ~(width < 0)
    BY <1>6, WidthOfPoint DEF AtNumber, Reads
  <2>4. PadRead(p) = FlagRead(p) /\ PrecisionRead(p) = p.prec
    BY <1>6 DEF PadRead, PrecisionRead, ZeroPrecision
  <2>5. AtLong(p)'
    BY <1>1, <1>6, <2>2, <2>3, <2>4 DEF AtNumber, AtLong, Reads
  <2> QED
    BY <1>1, <1>2, <2>5, StillInEscape DEF Somewhere
<1> QED
  BY <1>3, <1>5, <1>6

(***************************************************************************)
(* The case of a point.                                                    *)
(***************************************************************************)
LEMMA PointKeeps == ASSUME PfInvariant, Point PROVE PfInvariant'
<1> DEFINE c == "."
<1>1. /\ pf_at = "escape" /\ c = Head(rest) /\ rest' = Tail(rest)
      /\ width' = (IF width < 0 THEN 0 ELSE width)
      /\ UNCHANGED <<pf_at, follows, piece, out, last_fmt, ap, padc, precision>>
  BY DEF Point, Case, Reswitch
<1> HIDE DEF c
<1>2. PICK p \in AnyPieces : p = piece /\ Somewhere(p)
  BY <1>1, InDirective
<1>3. AtPoint(p) /\ HasPoint(p) /\ Tail(rest) = FromNumber(p)
  <2>1. c \notin Digits \ {"0"} /\ c \notin {"-", "0", "#", "*", "l"} /\ c # p.conv
    <3>1. p.conv # "."
      BY ConversionLetter
    <3> QED
      BY <3>1, NoDigits DEF c
  <2> QED
    BY <1>1, <1>2, <2>1, HeadsInDirective
<1>4. width' = WidthRead(p)
  <2>1. width = p.width
    BY <1>3 DEF AtPoint, Reads
  <2>2. p.width = Unset \/ p.width \in Nat
    BY NumbersOfAPiece
  <2> QED
    BY <1>1, <1>3, <2>1, <2>2 DEF WidthRead, Unset
<1>5. AtNumber(p)'
  BY <1>1, <1>3, <1>4 DEF AtNumber, AtPoint, Reads
<1> QED
  BY <1>1, <1>2, <1>5, StillInEscape DEF Somewhere

(***************************************************************************)
(* The cases of l and #.                                                   *)
(***************************************************************************)
LEMMA LongOrAltFlagKeeps == ASSUME PfInvariant, LongOrAltFlag PROVE PfInvariant'
<1>1. PICK c \in {"l", "#"} : Case(c)
  BY DEF LongOrAltFlag
<1>2. /\ pf_at = "escape" /\ c = Head(rest) /\ rest' = Tail(rest)
      /\ UNCHANGED <<pf_at, follows, piece, out, last_fmt, ap, padc, width, precision>>
  BY <1>1 DEF LongOrAltFlag, Case, Reswitch
<1>3. PICK p \in AnyPieces : p = piece /\ Somewhere(p)
  BY <1>2, InDirective
<1>4. \/ AtFlag(p) /\ p.flag = <<c>> /\ c = "#" /\ Tail(rest) = FromWidth(p)
      \/ AtLong(p) /\ Tail(rest) = <<p.conv>>
  <2>1. c \notin Digits \ {"0"} /\ c \notin {"-", "0", "*", "."} /\ c # p.conv
    <3>1. p.conv \notin {"l", "#"}
      BY ConversionLetter
    <3> QED
      BY <3>1, <1>1, NoDigits
  <2> QED
    BY <1>2, <1>3, <2>1, HeadsInDirective
<1>5. CASE AtFlag(p) /\ p.flag = <<c>> /\ c = "#" /\ Tail(rest) = FromWidth(p)
  <2>1. FlagRead(p) = " "
    BY <1>5, FlagsDiffer DEF FlagRead
  <2>2. AtWidth(p)'
    BY <1>2, <1>5, <2>1 DEF AtWidth, AtFlag, Reads
  <2> QED
    BY <1>2, <1>3, <2>2, StillInEscape DEF Somewhere
<1>6. CASE AtLong(p) /\ Tail(rest) = <<p.conv>>
  <2>1. AtConversion(p)'
    BY <1>2, <1>6 DEF AtLong, AtConversion, Reads
  <2> QED
    BY <1>2, <1>3, <2>1, StillInEscape DEF Somewhere
<1> QED
  BY <1>4, <1>5, <1>6

(***************************************************************************)
(* The case of a digit other than 0: what is read is the number of the     *)
(* width or the precision, and it ends at the numeral's end.               *)
(***************************************************************************)
LEMMA NumberKeeps == ASSUME PfInvariant, NumberField PROVE PfInvariant'
<1> DEFINE n == CHOOSE k \in 1..Len(rest) :
                    /\ \A i \in 1..k : rest[i] \in Digits
                    /\ rest[k + 1] \notin Digits
           num == CHOOSE num : num = [k \in 0..n |->
                      IF k = 0 THEN 0 ELSE 10 * num[k - 1] + DigitValue(rest[k])]
           c == Head(rest)
<1>1. /\ pf_at = "escape" /\ c \in Digits \ {"0"}
      /\ rest' = SubSeq(rest, n + 1, Len(rest))
      /\ IF width < 0 THEN width' = num[n] /\ precision' = Unset
                      ELSE precision' = num[n] /\ width' = width
      /\ UNCHANGED <<pf_at, follows, piece, out, last_fmt, ap, padc>>
  BY DEF NumberField, Case, process_precision
<1>2. PICK p \in AnyPieces : p = piece /\ Somewhere(p)
  BY <1>1, InDirective
<1>3. \A v \in Nat \ {0} : \A s \in Seq(Alphabet) :
          /\ s # <<>> /\ s[1] \notin Digits /\ rest = Numeral(v, 10) \o s
          => num[n] = v /\ SubSeq(rest, n + 1, Len(rest)) = s
  <2> SUFFICES ASSUME NEW v \in Nat \ {0}, NEW s \in Seq(Alphabet),
                      s # <<>>, s[1] \notin Digits, rest = Numeral(v, 10) \o s
               PROVE  num[n] = v /\ SubSeq(rest, n + 1, Len(rest)) = s
    OBVIOUS
  <2> QED
    <3> DEFINE l == Length(v, 10)
               Is(k) == (\A i \in 1..k : rest[i] \in Digits) /\ rest[k + 1] \notin Digits
    <3>1. /\ l \in 1..Len(rest) /\ Is(l) /\ \A i \in 1..l : rest[i] = Numeral(v, 10)[i]
          /\ \A k \in 1..Len(rest) : Is(k) => k = l
          /\ rest \in Seq(Alphabet) /\ Len(rest) = l + Len(s)
          /\ \A i \in 1..Len(s) : rest[l + i] = s[i]
      <4> HIDE DEF n, num
      <4>1. /\ rest \in Seq(Alphabet) /\ l \in Nat \ {0} /\ Len(rest) = l + Len(s)
                   /\ l < Len(rest)
            /\ \A i \in 1..l : rest[i] = Numeral(v, 10)[i]
            /\ \A i \in 1..Len(s) : rest[l + i] = s[i]
            /\ rest[l + 1] \notin Digits
        BY NumeralFirst
      <4>2. Len(rest) \in Nat
        BY <4>1
      <4> QED
        BY <4>1, <4>2, NumberRead
    <3>2. n = l
      <4>1. n = CHOOSE k \in 1..Len(rest) : Is(k)
        OBVIOUS
      <4> HIDE DEF Is, l
      <4> QED
        BY <3>1, <4>1
    <3> DEFINE Sum(f) == f = [k \in 0..l |->
                                  IF k = 0 THEN 0 ELSE 10 * f[k - 1] + DigitValue(rest[k])]
    <3>3. /\ \E f \in [0..l -> Nat] : f[0] = 0
                  /\ \A k \in 1..l : f[k] = 10 * f[k - 1] + DigitValue(rest[k])
          /\ \A f : f[0] = 0
                  /\ (\A k \in 1..l : f[k] = 10 * f[k - 1] + DigitValue(rest[k]))
                         => f[l] = v
      <4>1. v \in Nat /\ \A i \in 1..Length(v, 10) : rest[i] = Numeral(v, 10)[i]
        BY <3>1
      <4> HIDE DEF n, num
      <4> QED
        <5>1. PICK t : t = rest
          OBVIOUS
        <5>2. \A i \in 1..Length(v, 10) : t[i] = Numeral(v, 10)[i]
          BY <4>1, <5>1
        <5>3. \E f \in [0..l -> Nat] : f[0] = 0
                  /\ \A k \in 1..l : f[k] = 10 * f[k - 1] + DigitValue(t[k])
          BY <4>1, <5>2, NumberAddsUp
        <5>4. \A f : f[0] = 0
                  /\ (\A k \in 1..l : f[k] = 10 * f[k - 1] + DigitValue(t[k])) => f[l] = v
          BY <4>1, <5>2, NumberAddsUp
        <5> HIDE DEF l
        <5> QED
          BY <5>1, <5>3, <5>4
    <3>9. SubSeq(rest, l + 1, Len(rest)) = s
      <4>1. l \in Nat
        BY <3>1
      <4> HIDE DEF l, n, num
      <4> QED
        BY <3>1, <4>1
    <3>4. l \in Nat \ {0}
      BY <3>1
    <3>5. num = CHOOSE f : Sum(f)
      <4> HIDE DEF l, n
      <4> QED
        BY <3>2
    <3> HIDE DEF n, num, l
    <3>6. \E f : Sum(f)
      <4>1. PICK f \in [0..l -> Nat] : f[0] = 0
                     /\ \A k \in 1..l : f[k] = 10 * f[k - 1] + DigitValue(rest[k])
        BY <3>3
      <4>2. \A k \in 0..l : f[k] = IF k = 0 THEN 0 ELSE 10 * f[k - 1] + DigitValue(rest[k])
        <5> SUFFICES ASSUME NEW k \in 0..l
                     PROVE  f[k] = IF k = 0 THEN 0 ELSE 10 * f[k - 1] + DigitValue(rest[k])
          OBVIOUS
        <5>1. k # 0 => k \in 1..l
          BY <3>4
        <5> QED
          BY <4>1, <5>1
      <4>3. f = [k \in 0..l |-> f[k]]
        BY <4>1
      <4>4. Sum(f)
        BY <4>2, <4>3, Zenon
      <4> QED
        BY <4>4
    <3>7. num[0] = 0 /\ \A k \in 1..l : num[k] = 10 * num[k - 1] + DigitValue(rest[k])
      <4>1. Sum(num)
        <5> HIDE DEF Sum
        <5> QED
          BY <3>5, <3>6
      <4>2. num = [k \in 0..l |-> IF k = 0 THEN 0 ELSE 10 * num[k - 1] + DigitValue(rest[k])]
        BY <4>1
      <4>3. \A k \in 0..l : num[k] = IF k = 0 THEN 0
                ELSE 10 * num[k - 1] + DigitValue(rest[k])
        BY <4>2, Zenon
      <4>4. 0 \in 0..l /\ \A k \in 1..l : k \in 0..l /\ k # 0
        BY <3>4
      <4> QED
        BY <4>3, <4>4
    <3>8. num[l] = v
      BY <3>3, <3>7
    <3> QED
      BY <3>2, <3>8, <3>9
<1>4. \/ AtWidth(p) /\ ~p.star /\ p.width # Unset
      \/ AtNumber(p) /\ ~p.precStar /\ p.prec # 0
  <2> HIDE DEF c
  <2>1. c \notin {"-", "0", "#", "*", ".", "l"} /\ c # p.conv
    <3>1. p.conv \notin Digits
      BY ConversionLetter, NoDigits
    <3> QED
      BY <3>1, <1>1, NoDigits
  <2>2. c = Head(rest)
    BY DEF c
  <2> QED
    BY <1>2, <2>1, <2>2, HeadsInDirective
<1> HIDE DEF n, num, c
<1>5. CASE AtWidth(p) /\ ~p.star /\ p.width # Unset
  <2>1. rest = Numeral(p.width, 10) \o FromPoint(p) /\ width < 0
    BY <1>5 DEF AtWidth, Reads, FromWidth, Unset
  <2>2. FromPoint(p) \in Seq(Alphabet) /\ FromPoint(p) # <<>>
            /\ FromPoint(p)[1] \notin Digits
    BY PartsAreSequences, ConversionLetter, InLetters, NextCharacters
  <2>3. p.width \in Nat \ {0}
    BY <1>5, NumbersOfAPiece
  <2>4. num[n] = p.width /\ SubSeq(rest, n + 1, Len(rest)) = FromPoint(p)
    BY <1>3, <2>1, <2>2, <2>3
  <2>5. ap = OfPrecision(p)
    BY <1>5, CharsFromFlag DEF AtWidth, Reads
  <2>6. AtPoint(p)'
    BY <1>1, <1>5, <2>1, <2>4, <2>5 DEF AtWidth, AtPoint, Reads
  <2> QED
    BY <1>1, <1>2, <2>6, StillInEscape DEF Somewhere
<1>6. CASE AtNumber(p) /\ ~p.precStar /\ p.prec # 0
  <2>0. HasPoint(p) /\ p.prec \in Nat \ {0}
    BY <1>6, NumbersOfAPiece DEF AtNumber, HasPoint
  <2>1. rest = Numeral(p.prec, 10) \o FromLong(p)
    BY <1>6 DEF AtNumber, Reads, FromNumber
  <2>2. FromLong(p) \in Seq(Alphabet) /\ FromLong(p) # <<>> /\ FromLong(p)[1] \notin Digits
    BY PartsAreSequences, ConversionLetter, InLetters, NextCharacters
  <2>3. num[n] = p.prec /\ SubSeq(rest, n + 1, Len(rest)) = FromLong(p)
    BY <1>3, <2>0, <2>1, <2>2
  <2>4. width = WidthRead(p) /\ ~(width < 0)
    BY <1>6, WidthOfPoint DEF AtNumber, Reads
  <2>5. PadRead(p) = FlagRead(p) /\ PrecisionRead(p) = p.prec
            /\ OfPrecision(p) = OfConversion(p)
    BY <1>6, NoPrecisionArgument DEF PadRead, PrecisionRead, ZeroPrecision
  <2>6. AtLong(p)'
    BY <1>1, <1>6, <2>3, <2>4, <2>5 DEF AtNumber, AtLong, Reads
  <2> QED
    BY <1>1, <1>2, <2>6, StillInEscape DEF Somewhere
<1> QED
  BY <1>4, <1>5, <1>6

(***************************************************************************)
(* Padding is text.                                                        *)
(***************************************************************************)
LEMMA CopiesAre ==
    ASSUME NEW S, NEW c \in S, NEW n \in Int
    PROVE  Copies(c, n) \in Seq(S)
<1>1. CASE n <= 0
  <2>1. Copies(c, n) = <<>>
    BY <1>1, NoCopies
  <2> QED
    BY <2>1
<1>2. CASE n > 0
  BY <1>2 DEF Copies
<1> QED
  BY <1>1, <1>2

(***************************************************************************)
(* What printnum prints, for every base, number, width and pad.            *)
(***************************************************************************)
LEMMA NumberPrinted ==
    ASSUME NEW base \in 2..16, NEW n \in Nat, NEW w \in Int, NEW c \in Alphabet
    PROVE  LET N == Numeral(n, base)
           IN  /\ N \in Seq(Alphabet) /\ Len(N) \in Nat \ {0}
               /\ printnum(n, base, w, c) = Copies(c, w - Len(N)) \o N
               /\ w <= 0 => printnum(n, base, w, c) = N
               /\ printnum(n, base, w, c) \in Seq(Alphabet)
<1> DEFINE N == Numeral(n, base)
           l == Length(n, base)
<1>1. N \in Seq(Alphabet) /\ Len(N) = l
  BY NumeralSeq
<1>2. base \in Nat /\ base > 1
  OBVIOUS
<1>3. l \in Nat \ {0}
  BY <1>2, LengthExists
<1>4. printnum(n, base, w, c) = Copies(c, w - l) \o N
  BY <1>2, DigitsBackwards
<1> HIDE DEF N, l
<1>5. w - l \in Int /\ (w <= 0 => w - l <= 0)
  BY <1>3
<1>6. Copies(c, w - l) \in Seq(Alphabet)
  BY <1>5, CopiesAre
<1>7. Copies(c, w - l) \o N \in Seq(Alphabet)
  BY <1>1, <1>6, Concatenated
<1>8. ASSUME w <= 0 PROVE Copies(c, w - l) \o N = N
  <2>1. Copies(c, w - l) = <<>>
    BY <1>5, <1>8, NoCopies
  <2> QED
    BY <1>1, <2>1, ConcatAssociates
<1> QED
  BY <1>1, <1>3, <1>4, <1>7, <1>8 DEF N

(***************************************************************************)
(* What vprintfmt has read of a number's directive that it supports.       *)
(***************************************************************************)
LEMMA PadOfNumber ==
    ASSUME NEW p \in AnyPieces, p.flag # <<"#">>, p.flag # <<"-">>, p.prec = Unset,
               ~p.precStar
    PROVE  /\ PadRead(p) = (IF p.flag = <<"0">> THEN "0" ELSE " ")
                  /\ PadRead(p) \in Alphabet
           /\ WidthRead(p) = p.width /\ p.width \in Int /\ (p.width = Unset => p.width <= 0)
<1>1. ~ZeroPrecision(p) /\ ~HasPoint(p)
  BY DEF ZeroPrecision, HasPoint, Unset
<1>2. PadRead(p) = (IF p.flag = <<"0">> THEN "0" ELSE " ")
  BY <1>1 DEF PadRead, FlagRead
<1>3. "0" \in Alphabet /\ " " \in Alphabet
  BY InLetters DEF Letters
<1>4. p.width \in Int /\ (p.width = Unset => p.width <= 0)
  BY NumbersOfAPiece DEF Unset
<1>5. WidthRead(p) = p.width
  BY <1>1 DEF WidthRead
<1> QED
  BY <1>2, <1>3, <1>4, <1>5

(***************************************************************************)
(* %d prints what it prints in C.                                          *)
(***************************************************************************)
LEMMA SignedPrinted ==
    ASSUME NEW p \in AnyPieces, p.conv = "d", Supported(p)
    PROVE  LET n == p.number
               shown == IF n < 0
                        THEN <<"-">>
                            \o printnum((-n) % IntMod, 10, WidthRead(p), PadRead(p))
                        ELSE printnum(n, 10, WidthRead(p), PadRead(p))
           IN  shown = InC(p) /\ shown \in Seq(Alphabet)
<1> DEFINE n == p.number
           c == PadRead(p)
           w == p.width
<1>1. p.flag # <<"#">> /\ p.flag # <<"-">> /\ p.prec = Unset /\ ~p.precStar
      /\ (p.width = Unset \/ n >= 0)
  BY DEF Supported
<1>2. /\ c = (IF p.flag = <<"0">> THEN "0" ELSE " ") /\ c \in Alphabet
      /\ WidthRead(p) = w /\ w \in Int /\ (w = Unset => w <= 0)
  BY <1>1, PadOfNumber
<1>3. n \in Int /\ -n < IntMod
  <2>1. n \in Ints
    BY PieceParts DEF Conversion
  <2>2. PICK m \in Unsigneds : n = IF m >= IntMod \div 2 THEN m - IntMod ELSE m
    BY <2>1 DEF Ints
  <2>3. m \in 0..(IntMod - 1) /\ IntMod \in Nat /\ IntMod > 3
    BY PrintfAssumption
  <2>4. IntMod \div 2 > 0 /\ IntMod \div 2 \in Nat
    BY <2>3
  <2> QED
    BY <2>2, <2>3, <2>4
<1>4. InC(p) = Justified((IF n < 0 THEN <<"-">> ELSE <<>>) \o Numeral(Magnitude(n), 10), p, c)
  BY <1>2 DEF InC
<1>5. \A text : Justified(text, p, c) = Copies(c, w - Len(text)) \o text
  BY <1>1 DEF Justified
<1>6. 10 \in 2..16
  OBVIOUS
<1> HIDE DEF n, c, w
<1>7. CASE n < 0
  <2> DEFINE N == Numeral(-n, 10)
  <2>1. -n \in Nat /\ (-n) % IntMod = -n /\ Magnitude(n) = -n
    <3>1. IntMod \in Nat
      BY PrintfAssumption
    <3>2. -n \in 0..(IntMod - 1)
      BY <1>3, <1>7, <3>1
    <3> QED
      BY <1>7, <3>1, <3>2 DEF Magnitude
  <2>2. w = Unset /\ w <= 0
    <3>1. ~(n >= 0)
      BY <1>3, <1>7
    <3> QED
      BY <1>1, <1>2, <3>1 DEF w, n
  <2>3. printnum(-n, 10, w, c) = N /\ N \in Seq(Alphabet) /\ Len(N) \in Nat \ {0}
    BY <1>2, <1>6, <2>1, <2>2, NumberPrinted
  <2> DEFINE text == <<"-">> \o N
  <2>4. text \in Seq(Alphabet) /\ Len(text) \in Nat
    <3>1. "-" \in Alphabet
      BY InLetters
    <3> HIDE DEF N
    <3>2. text \in Seq(Alphabet)
      BY <2>3, <3>1, AfterFirst
    <3> HIDE DEF text
    <3> QED
      BY <3>2
  <2>5. Justified(text, p, c) = text
    <3> HIDE DEF text
    <3>1. Copies(c, w - Len(text)) = <<>>
      <4>1. w - Len(text) \in Int /\ w - Len(text) <= 0
        <5> DEFINE l == Len(text)
        <5>1. l \in Nat
          BY <2>4
        <5> HIDE DEF l
        <5>2. w - l \in Int /\ w - l <= 0
          <6>1. w \in Int
            BY <1>2
          <6>2. w <= 0
            BY <2>2
          <6> QED
            BY <5>1, <6>1, <6>2
        <5> QED
          BY <5>2 DEF l
      <4> QED
        BY <4>1, NoCopies
    <3> QED
      BY <1>5, <2>4, <3>1, ConcatAssociates
  <2>6. InC(p) = text
    BY <1>4, <1>7, <2>1, <2>5
  <2> HIDE DEF text
  <2>7. <<"-">> \o printnum((-n) % IntMod, 10, WidthRead(p), PadRead(p)) = text
    BY <1>2, <2>1, <2>3 DEF c, text
  <2> QED
    BY <1>7, <2>4, <2>6, <2>7 DEF n
<1>8. CASE n >= 0
  <2> DEFINE N == Numeral(n, 10)
  <2>1. n \in Nat /\ Magnitude(n) = n /\ ~(n < 0)
    BY <1>3, <1>8 DEF Magnitude
  <2>2. printnum(n, 10, w, c) = Copies(c, w - Len(N)) \o N /\ N \in Seq(Alphabet)
        /\ printnum(n, 10, w, c) \in Seq(Alphabet)
    BY <1>2, <1>6, <2>1, NumberPrinted
  <2>3. <<>> \o N = N
    BY <2>2, ConcatAssociates
  <2>4. InC(p) = Copies(c, w - Len(N)) \o N
    BY <1>4, <1>5, <2>1, <2>3
  <2>5. printnum(n, 10, WidthRead(p), PadRead(p)) = printnum(n, 10, w, c)
    BY <1>2 DEF c
  <2> HIDE DEF N
  <2> QED
    BY <2>1, <2>2, <2>4, <2>5 DEF n
<1> QED
  BY <1>3, <1>7, <1>8

(***************************************************************************)
(* %u, %o, %x and %p print what they print in C.                           *)
(***************************************************************************)
LEMMA UnsignedPrinted ==
    ASSUME NEW p \in AnyPieces, p.conv \in {"u", "o", "x", "p"}, Supported(p)
    PROVE  LET shown == (IF p.conv = "p" THEN <<"0", "x">> ELSE <<>>)
                        \o printnum(p.number, Base[p.conv], WidthRead(p), PadRead(p))
           IN  shown = InC(p) /\ shown \in Seq(Alphabet)
<1> DEFINE n == p.number
           c == PadRead(p)
           base == Base[p.conv]
           N == Numeral(n, base)
<1>1. base \in 2..16
  BY DEF Base
<1>2. n \in Nat
  <2>1. IntMod \in Nat /\ IntMod > 3 /\ \A m \in Unsigneds : m \in Nat
    BY PrintfAssumption
  <2>2. n \in Unsigneds \/ n = IntMod - 3
    BY PieceParts DEF Conversion
  <2> QED
    BY <2>1, <2>2
<1>3. CASE p.conv = "p"
  <2>1. p.flag = <<>> /\ p.width = Unset
    BY <1>3 DEF Supported, Bare
  <2>2. WidthRead(p) \in Int /\ WidthRead(p) <= 0
    BY <2>1 DEF WidthRead, Unset
  <2>3. c \in Alphabet
    <3>1. c = "0" \/ c = " "
      BY <2>1, FlagsDiffer DEF PadRead, FlagRead
    <3> QED
      BY <3>1, InLetters DEF Letters
  <2>4. base = 16
    BY <1>3 DEF Base
  <2>5. InC(p) = <<"0", "x">> \o Numeral(n, 16)
    BY <1>3 DEF InC
  <2> HIDE DEF n, c, base
  <2>6. printnum(n, base, WidthRead(p), c) = N /\ N \in Seq(Alphabet)
    BY <1>1, <1>2, <2>2, <2>3, NumberPrinted
  <2>7. <<"0", "x">> \o N \in Seq(Alphabet)
    <3>1. "0" \in Alphabet /\ "x" \in Alphabet
      BY InLetters
    <3>2. <<"0", "x">> \in Seq(Alphabet)
      BY <3>1
    <3> HIDE DEF N
    <3> QED
      BY <2>6, <3>2, Concatenated
  <2> QED
    BY <1>3, <2>4, <2>5, <2>6, <2>7 DEF n, c, base
<1>4. CASE p.conv # "p"
  <2>1. p.flag # <<"#">> /\ p.flag # <<"-">> /\ p.prec = Unset /\ ~p.precStar
    BY <1>4 DEF Supported
  <2>2. /\ c = (IF p.flag = <<"0">> THEN "0" ELSE " ") /\ c \in Alphabet
        /\ WidthRead(p) = p.width /\ p.width \in Int
    BY <2>1, PadOfNumber
  <2>3. InC(p) = Justified(N, p, c)
    <3>1. p.conv \in {"u", "o", "x"}
      BY <1>4
    <3>2. InC(p) = Justified(Numeral(p.number, Base[p.conv]), p,
                             IF p.flag = <<"0">> THEN "0" ELSE " ")
      BY <3>1 DEF InC
    <3> QED
      BY <2>2, <3>2
  <2>4. Justified(N, p, c) = Copies(c, p.width - Len(N)) \o N
    BY <2>1 DEF Justified
  <2> HIDE DEF n, c, base
  <2>5. printnum(n, base, p.width, c) = Copies(c, p.width - Len(N)) \o N
        /\ printnum(n, base, p.width, c) \in Seq(Alphabet)
    BY <1>1, <1>2, <2>2, NumberPrinted
  <2> DEFINE s == printnum(n, base, p.width, c)
  <2>6. s = InC(p) /\ s \in Seq(Alphabet)
    BY <2>3, <2>4, <2>5
  <2>7. printnum(p.number, Base[p.conv], WidthRead(p), PadRead(p)) = s
    BY <2>2 DEF n, c, base
  <2> HIDE DEF s
  <2>8. <<>> \o s = s
    BY <2>6, ConcatAssociates
  <2> QED
    BY <1>4, <2>6, <2>7, <2>8
<1> QED
  BY <1>3, <1>4

(***************************************************************************)
(* What %s is given is text.                                               *)
(***************************************************************************)
LEMMA TextShown ==
    ASSUME NEW p \in AnyPieces, p.conv = "s"
    PROVE  (IF p.text = Null THEN NullText ELSE p.text) \in Seq(Alphabet)
<1>1. p.text \in Texts \cup {Null}
  BY PieceParts DEF Conversion
<1>2. {"p", "q", "r", "(", "n", "u", "l", ")"} \subseteq Alphabet
  BY InLetters DEF Letters
<1>3. NullText \in Seq(Alphabet)
  BY <1>2 DEF NullText
<1>4. \A t \in Texts : t \in Seq(Alphabet)
  <2>1. <<>> \in Seq(Alphabet) /\ <<"p">> \in Seq(Alphabet)
            /\ <<"p", "q", "r">> \in Seq(Alphabet)
    BY <1>2
  <2> QED
    BY <2>1 DEF Texts
<1>5. p.text # Null => p.text \in Texts
  BY <1>1
<1> QED
  BY <1>3, <1>4, <1>5

(***************************************************************************)
(* %s prints what it prints in C: of its text as much as the precision     *)
(* allows, on the side that the flag says.                                 *)
(***************************************************************************)
LEMMA StringPrinted ==
    ASSUME NEW p \in AnyPieces, p.conv = "s", Supported(p)
    PROVE  LET w == WidthRead(p)
               c == PadRead(p)
               prec == PrecisionRead(p)
               str == IF p.text = Null THEN NullText ELSE p.text
               shown == IF prec < 0 THEN Len(str) ELSE Lesser(prec, Len(str))
               pads == IF w > 0 /\ c # "-" THEN w - shown ELSE 0
               more == IF w > 0 /\ c # "-" THEN Lesser(w - shown, 0) - shown ELSE w - shown
               text == Copies(c, pads) \o SubSeq(str, 1, shown) \o Copies(" ", more)
           IN  text = InC(p) /\ text \in Seq(Alphabet)
<1> DEFINE w == WidthRead(p)
           c == PadRead(p)
           prec == PrecisionRead(p)
           str == IF p.text = Null THEN NullText ELSE p.text
           shown == IF prec < 0 THEN Len(str) ELSE Lesser(prec, Len(str))
           pads == IF w > 0 /\ c # "-" THEN w - shown ELSE 0
           more == IF w > 0 /\ c # "-" THEN Lesser(w - shown, 0) - shown ELSE w - shown
           T == SubSeq(str, 1, shown)
           fill == p.width - Len(T)
<1>1. p.flag \in {<<>>, <<"-">>} /\ ~ZeroPrecision(p)
  <2>1. p.flag # <<"#">> /\ p.flag # <<"0">> /\ (p.prec = 0 => p.precStar)
    BY DEF Supported
  <2> QED
    BY <2>1, PieceParts DEF ZeroPrecision
<1>2. c = (IF p.flag = <<"-">> THEN "-" ELSE " ") /\ prec = p.prec
  BY <1>1, FlagsDiffer DEF PadRead, FlagRead, PrecisionRead
<1>3. Unset \in Int /\ Unset < 0
  BY DEF Unset
<1>4. /\ prec \in Int
      /\ p.width \in Int /\ w \in Int
      /\ p.width = Unset => w <= 0 /\ p.width < 0
      /\ p.width # Unset => w = p.width /\ p.width > 0
  <2>1. prec \in Int
    <3>1. p.prec # Unset => p.prec \in Nat
      BY NumbersOfAPiece
    <3>2. p.prec = Unset => p.prec \in Int
      BY <1>3
    <3>3. p.prec \in Int
      BY <3>1, <3>2
    <3>4. prec = p.prec
      BY <1>2
    <3> QED
      BY <3>3, <3>4
  <2>2. p.width # Unset => p.width \in Nat \ {0}
    BY NumbersOfAPiece
  <2>3. w = IF HasPoint(p) /\ p.width = Unset THEN 0 ELSE p.width
    BY DEF WidthRead
  <2> HIDE DEF w, prec
  <2> QED
    BY <1>3, <2>1, <2>2, <2>3
<1>5. str \in Seq(Alphabet) /\ Len(str) \in Nat
  BY TextShown
<1> HIDE DEF w, c, prec, str
<1>6. shown \in 0..Len(str)
  BY <1>4, <1>5 DEF Lesser
<1>7. InC(p) = Justified(T, p, " ")
  <2>1. InC(p) = Justified(IF prec < 0 THEN str ELSE SubSeq(str, 1, Lesser(prec, Len(str))), p, " ")
    BY <1>2 DEF InC, str
  <2>2. prec < 0 => T = str
    BY <1>5
  <2> QED
    BY <2>1, <2>2
<1> HIDE DEF shown
<1>8. T \in Seq(Alphabet) /\ Len(T) = shown
  BY <1>5, <1>6
<1> HIDE DEF T
<1>9. "-" \in Alphabet /\ " " \in Alphabet /\ c \in Alphabet
  BY <1>2, InLetters DEF Letters
<1>10. <<>> \o T = T /\ T \o <<>> = T
  BY <1>8, ConcatAssociates
<1>11. shown \in Nat
  BY <1>5, <1>6
<1>12. CASE p.flag = <<"-">>
  <2>1. c = "-" /\ pads = 0 /\ more = w - shown
    BY <1>2, <1>12
  <2>2. InC(p) = T \o Copies(" ", fill)
    BY <1>7, <1>12 DEF Justified
  <2>3. Copies(c, pads) = <<>>
    BY <2>1, NoCopies
  <2>4. Copies(" ", more) = Copies(" ", fill) /\ Copies(" ", fill) \in Seq(Alphabet)
    <3>1. CASE p.width = Unset
      <4>1. more \in Int /\ more <= 0
        BY <1>4, <1>11, <2>1, <3>1
      <4>2. fill \in Int /\ fill <= 0
        BY <1>4, <1>8, <1>11, <3>1
      <4> HIDE DEF more, fill
      <4>3. Copies(" ", more) = <<>>
        BY <4>1, NoCopies
      <4>4. Copies(" ", fill) = <<>>
        BY <4>2, NoCopies
      <4>5. <<>> \in Seq(Alphabet)
        OBVIOUS
      <4> QED
        BY <4>3, <4>4, <4>5
    <3>2. CASE p.width # Unset
      <4>1. more = fill /\ fill \in Int
        <5>1. w = p.width /\ p.width \in Int
          BY <1>4, <3>2
        <5> QED
          BY <1>8, <1>11, <2>1, <5>1
      <4> HIDE DEF more, fill
      <4> QED
        BY <1>9, <4>1, CopiesAre
    <3> QED
      BY <3>1, <3>2
  <2> HIDE DEF pads, more, fill
  <2>5. T \o Copies(" ", fill) \in Seq(Alphabet)
    BY <1>8, <2>4, Concatenated
  <2>6. Copies(c, pads) \o T \o Copies(" ", more) = T \o Copies(" ", fill)
    BY <1>10, <2>3, <2>4
  <2> QED
    BY <2>2, <2>5, <2>6 DEF pads, more, T, shown, str, prec, w, c
<1>13. CASE p.flag # <<"-">>
  <2>1. c = " "
    BY <1>2, <1>13
  <2>2. InC(p) = Copies(" ", fill) \o T
    BY <1>7, <1>13 DEF Justified
  <2>3. more \in Int /\ more <= 0
    <3>1. w \in Int /\ shown \in Nat
      BY <1>4, <1>11
    <3> DEFINE d == w - shown
    <3>2. d \in Int
      BY <3>1
    <3>3. CASE w > 0
      <4>1. more = Lesser(d, 0) - shown
        BY <2>1, <3>3
      <4>2. Lesser(d, 0) \in Int /\ Lesser(d, 0) <= 0
        BY <3>2 DEF Lesser
      <4> DEFINE e == Lesser(d, 0)
      <4> HIDE DEF e
      <4> QED
        BY <3>1, <4>1, <4>2 DEF e
    <3>4. CASE ~(w > 0)
      <4>1. more = w - shown
        BY <3>4
      <4> QED
        BY <3>1, <3>4, <4>1
    <3> QED
      BY <3>3, <3>4
  <2>4. Copies(" ", more) = <<>>
    <3> HIDE DEF more
    <3> QED
      BY <2>3, NoCopies
  <2>5. Copies(c, pads) = Copies(" ", fill) /\ Copies(" ", fill) \in Seq(Alphabet)
    <3>1. CASE p.width = Unset
      <4>1. pads = 0
        BY <1>4, <3>1
      <4>2. fill \in Int /\ fill <= 0
        BY <1>4, <1>8, <1>11, <3>1
      <4> HIDE DEF pads, fill
      <4>3. Copies(c, pads) = <<>>
        BY <4>1, NoCopies
      <4>4. Copies(" ", fill) = <<>>
        BY <4>2, NoCopies
      <4>5. <<>> \in Seq(Alphabet)
        OBVIOUS
      <4> QED
        BY <4>3, <4>4, <4>5
    <3>2. CASE p.width # Unset
      <4>1. pads = fill /\ fill \in Int
        <5>1. w = p.width /\ w \in Int /\ w > 0 /\ c # "-"
          BY <1>4, <2>1, <3>2
        <5>2. pads = w - shown
          BY <5>1
        <5>3. fill = w - shown
          BY <1>8, <5>1
        <5> QED
          BY <1>11, <5>1, <5>2, <5>3
      <4> HIDE DEF pads, fill
      <4> QED
        BY <1>9, <2>1, <4>1, CopiesAre
    <3> QED
      BY <3>1, <3>2
  <2> HIDE DEF pads, more, fill
  <2>6. Copies(" ", fill) \o T \in Seq(Alphabet)
    BY <1>8, <2>5, Concatenated
  <2>7. (Copies(" ", fill) \o T) \o <<>> = Copies(" ", fill) \o T
    <3> DEFINE u == Copies(" ", fill) \o T
    <3> HIDE DEF u
    <3>1. u \in Seq(Alphabet)
      BY <2>6 DEF u
    <3>2. u \o <<>> = u
      BY <3>1, ConcatAssociates
    <3> QED
      BY <3>2 DEF u
  <2>8. Copies(c, pads) \o T \o Copies(" ", more) = Copies(" ", fill) \o T
    BY <2>4, <2>5, <2>7
  <2> QED
    BY <2>2, <2>6, <2>8 DEF pads, more, T, shown, str, prec, w, c
<1> QED
  BY <1>12, <1>13

(***************************************************************************)
(* At the conversion's character all other parts have been read.           *)
(***************************************************************************)
LEMMA AtItsConversion ==
    ASSUME NEW p \in AnyPieces, Somewhere(p),
           Head(rest) \in {"s", "d", "u", "o", "x", "f", "c", "p", "%", "z"}
    PROVE  /\ p.conv = Head(rest) /\ Tail(rest) = <<>>
           /\ ap = OfConversion(p) /\ padc = PadRead(p)
           /\ width = WidthRead(p) /\ precision = PrecisionRead(p)
<1> DEFINE c == Head(rest)
<1>1. c \notin Digits \ {"0"} /\ c \notin {"-", "0", "#", "*", ".", "l"}
  BY NoDigits
<1>2. c = Head(rest)
  OBVIOUS
<1> HIDE DEF c
<1>3. AtConversion(p) /\ c = p.conv /\ Tail(rest) = <<>>
  BY <1>1, <1>2, HeadsInDirective
<1> QED
  BY <1>2, <1>3 DEF AtConversion, Reads

(***************************************************************************)
(* The one argument that is left is the conversion's.                      *)
(***************************************************************************)
LEMMA ArgumentOf ==
    ASSUME NEW p, p.conv \notin {"%", "z"}
    PROVE  /\ Head(OfConversion(p)).text = p.text /\ Head(OfConversion(p)).number = p.number
           /\ Tail(OfConversion(p)) = <<>>
<1> DEFINE z == [text |-> p.text, number |-> p.number]
<1>1. OfConversion(p) = <<z>> /\ z.text = p.text /\ z.number = p.number
  BY DEF OfConversion
<1> HIDE DEF z
<1>2. Head(<<z>>) = z /\ Tail(<<z>>) = <<>>
  OBVIOUS
<1> QED
  BY <1>1, <1>2

(***************************************************************************)
(* A conversion ends the directive with its text printed.                  *)
(***************************************************************************)
LEMMA Finished ==
    ASSUME PfInvariant, pf_at = "escape", piece' = piece, pf_at' = "text",
           rest' = <<>>, ap' = <<>>, Supported(piece) => out' = InC(piece)
    PROVE  PfInvariant'
<1>1. piece' \in Pieces
  BY DEF PfInvariant
<1>2. Printed'
  BY DEF Printed
<1> QED
  BY <1>1, <1>2 DEF PfInvariant

(***************************************************************************)
(* The conversions that take an argument.                                  *)
(***************************************************************************)
LEMMA Shows ==
    ASSUME PfInvariant, pf_at = "escape", NEW text, Converted(text),
           Head(rest) \in {"s", "d", "u", "o", "x", "f", "c", "p"},
           Supported(piece) => text = InC(piece) /\ text \in Seq(Alphabet)
    PROVE  PfInvariant'
<1>1. PICK p \in AnyPieces : p = piece /\ Somewhere(p) /\ out = <<>>
  BY InDirective
<1>2. p.conv = Head(rest) /\ Tail(rest) = <<>> /\ ap = OfConversion(p)
  BY <1>1, AtItsConversion
<1>3. Tail(ap) = <<>>
  <2>1. p.conv \notin {"%", "z"}
    BY <1>2
  <2> QED
    BY <1>2, <2>1, ArgumentOf
<1>4. text \in Seq(Alphabet) => <<>> \o text = text
  BY ConcatAssociates
<1>5. rest' = <<>> /\ ap' = <<>> /\ pf_at' = "text" /\ piece' = piece /\ out' = out \o text
  BY <1>2, <1>3 DEF Converted
<1>6. Supported(piece) => out' = InC(piece)
  BY <1>1, <1>4, <1>5
<1> QED
  BY <1>5, <1>6, Finished

(***************************************************************************)
(* The case of s.                                                          *)
(***************************************************************************)
LEMMA StringKeeps == ASSUME PfInvariant, String PROVE PfInvariant'
<1>1. /\ pf_at = "escape" /\ Head(rest) = "s"
      /\ LET str   == IF Head(ap).text = Null THEN NullText ELSE Head(ap).text
             shown == IF precision < 0 THEN Len(str) ELSE Lesser(precision, Len(str))
             pads  == IF width > 0 /\ padc # "-" THEN width - shown ELSE 0
             more  == IF width > 0 /\ padc # "-"
                      THEN Lesser(width - shown, 0) - shown ELSE width - shown
         IN  Converted(Copies(padc, pads) \o SubSeq(str, 1, shown) \o Copies(" ", more))
  BY DEF String, Case
<1>2. PICK p \in AnyPieces : p = piece /\ Somewhere(p)
  BY <1>1, InDirective
<1>3. /\ p.conv = "s" /\ ap = OfConversion(p) /\ padc = PadRead(p)
      /\ width = WidthRead(p) /\ precision = PrecisionRead(p)
  BY <1>1, <1>2, AtItsConversion
<1>4. Head(ap).text = p.text
  BY <1>3, ArgumentOf
<1> DEFINE w == WidthRead(p)
           c == PadRead(p)
           prec == PrecisionRead(p)
           str == IF p.text = Null THEN NullText ELSE p.text
           shown == IF prec < 0 THEN Len(str) ELSE Lesser(prec, Len(str))
           pads == IF w > 0 /\ c # "-" THEN w - shown ELSE 0
           more == IF w > 0 /\ c # "-" THEN Lesser(w - shown, 0) - shown ELSE w - shown
           text == Copies(c, pads) \o SubSeq(str, 1, shown) \o Copies(" ", more)
<1>5. Converted(text)
  BY <1>1, <1>3, <1>4
<1>6. Supported(p) => text = InC(p) /\ text \in Seq(Alphabet)
  BY <1>3, StringPrinted
<1> HIDE DEF text
<1> QED
  BY <1>1, <1>2, <1>5, <1>6, Shows

(***************************************************************************)
(* The case of d.                                                          *)
(***************************************************************************)
LEMMA SignedKeeps == ASSUME PfInvariant, Signed PROVE PfInvariant'
<1>1. /\ pf_at = "escape" /\ Head(rest) = "d"
      /\ LET n == Head(ap).number
         IN  Converted(IF n < 0
                       THEN <<"-">> \o printnum((-n) % IntMod, 10, width, padc)
                       ELSE printnum(n, 10, width, padc))
  BY DEF Signed, Case
<1>2. PICK p \in AnyPieces : p = piece /\ Somewhere(p)
  BY <1>1, InDirective
<1>3. /\ p.conv = "d" /\ ap = OfConversion(p) /\ padc = PadRead(p)
      /\ width = WidthRead(p)
  BY <1>1, <1>2, AtItsConversion
<1>4. Head(ap).number = p.number
  BY <1>3, ArgumentOf
<1> DEFINE n == p.number
           text == IF n < 0
                   THEN <<"-">> \o printnum((-n) % IntMod, 10, WidthRead(p), PadRead(p))
                   ELSE printnum(n, 10, WidthRead(p), PadRead(p))
<1>5. Converted(text)
  BY <1>1, <1>3, <1>4
<1>6. Supported(p) => text = InC(p) /\ text \in Seq(Alphabet)
  BY <1>3, SignedPrinted
<1> HIDE DEF text
<1> QED
  BY <1>1, <1>2, <1>5, <1>6, Shows

(***************************************************************************)
(* The cases of u, o, x and p.                                             *)
(***************************************************************************)
LEMMA UnsignedKeeps == ASSUME PfInvariant, Unsigned PROVE PfInvariant'
<1>1. PICK ch \in {"u", "o", "x", "p"} :
         /\ pf_at = "escape" /\ Head(rest) = ch
         /\ Converted((IF ch = "p" THEN <<"0", "x">> ELSE <<>>)
                      \o printnum(Head(ap).number, Base[ch], width, padc))
  <2>1. DOMAIN Base = {"u", "o", "x", "p"}
    BY DEF Base
  <2> QED
    BY <2>1 DEF Unsigned, Case
<1>2. PICK p \in AnyPieces : p = piece /\ Somewhere(p)
  BY <1>1, InDirective
<1>3. /\ p.conv = ch /\ ap = OfConversion(p) /\ padc = PadRead(p)
      /\ width = WidthRead(p)
  BY <1>1, <1>2, AtItsConversion
<1>4. Head(ap).number = p.number
  BY <1>1, <1>3, ArgumentOf
<1> DEFINE text == (IF p.conv = "p" THEN <<"0", "x">> ELSE <<>>)
                   \o printnum(p.number, Base[p.conv], WidthRead(p), PadRead(p))
<1>5. Converted(text)
  BY <1>1, <1>3, <1>4
<1>6. Supported(p) => text = InC(p) /\ text \in Seq(Alphabet)
  BY <1>1, <1>3, UnsignedPrinted
<1> HIDE DEF text
<1> QED
  BY <1>1, <1>2, <1>5, <1>6, Shows

(***************************************************************************)
(* The case of f.                                                          *)
(***************************************************************************)
LEMMA DoubleKeeps == ASSUME PfInvariant, Double PROVE PfInvariant'
<1>1. /\ pf_at = "escape" /\ Head(rest) = "f"
      /\ Converted(print_double(Head(ap).number, precision))
  BY DEF Double, Case
<1>2. PICK p \in AnyPieces : p = piece /\ Somewhere(p)
  BY <1>1, InDirective
<1>3. p.conv = "f" /\ ap = OfConversion(p) /\ precision = PrecisionRead(p)
  BY <1>1, <1>2, AtItsConversion
<1>4. Head(ap).number = p.number
  BY <1>3, ArgumentOf
<1> DEFINE text == print_double(p.number, PrecisionRead(p))
<1>5. Converted(text)
  BY <1>1, <1>3, <1>4
<1>6. ASSUME Supported(p) PROVE text = InC(p) /\ text \in Seq(Alphabet)
  <2>1. /\ p.prec > 0 /\ Magnitude(p.number) >= Unit
        /\ Magnitude(p.number) * Power(10, p.prec) <= Significand
    BY <1>3, <1>6 DEF Supported, Exact
  <2>2. p.prec \in Nat \ {0}
    <3>1. p.prec # Unset
      BY <2>1 DEF Unset
    <3>2. p.prec \in Nat
      BY <3>1, NumbersOfAPiece
    <3> QED
      BY <2>1, <3>2
  <2>3. PrecisionRead(p) = p.prec
    BY <2>2 DEF PrecisionRead, ZeroPrecision
  <2>4. p.number \in Int
    BY <1>3, PieceParts DEF Conversion
  <2> DEFINE scaled == (Magnitude(p.number) * Power(10, p.prec)) \div Unit
  <2>5. /\ text \in Seq(Alphabet)
        /\ text = (IF p.number < 0 THEN <<"-">> ELSE <<>>)
                  \o Numeral(scaled \div Power(10, p.prec), 10) \o <<".">>
                  \o [i \in 1..p.prec |-> Digit[((scaled \div Power(10, p.prec - i)) % 10) + 1]]
    BY <2>1, <2>2, <2>3, <2>4, DoublePrinted
  <2>6. InC(p) = (IF p.number < 0 THEN <<"-">> ELSE <<>>)
                 \o Numeral(scaled \div Power(10, p.prec), 10) \o <<".">>
                 \o [i \in 1..p.prec |-> Digit[((scaled \div Power(10, p.prec - i)) % 10) + 1]]
    BY <1>3 DEF InC, Exact
  <2> HIDE DEF text
  <2> QED
    BY <2>5, <2>6
<1> HIDE DEF text
<1> QED
  BY <1>1, <1>2, <1>5, <1>6, Shows

(***************************************************************************)
(* The case of c.                                                          *)
(***************************************************************************)
LEMMA CharacterKeeps == ASSUME PfInvariant, Character PROVE PfInvariant'
<1>1. pf_at = "escape" /\ Head(rest) = "c" /\ Converted(Head(ap).text)
  BY DEF Character, Case
<1>2. PICK p \in AnyPieces : p = piece /\ Somewhere(p)
  BY <1>1, InDirective
<1>3. p.conv = "c" /\ ap = OfConversion(p)
  BY <1>1, <1>2, AtItsConversion
<1>4. Head(ap).text = p.text
  BY <1>3, ArgumentOf
<1> DEFINE text == p.text
<1>5. Converted(text)
  BY <1>1, <1>4
<1>6. text = InC(p) /\ text \in Seq(Alphabet)
  <2>1. text = InC(p)
    BY <1>3 DEF InC
  <2>2. text = <<"q">>
    BY <1>3, PieceParts DEF Conversion
  <2>3. "q" \in Alphabet
    BY DEF Alphabet, Letters
  <2>4. <<"q">> \in Seq(Alphabet)
    BY <2>3
  <2> QED
    BY <2>1, <2>2, <2>4
<1> HIDE DEF text
<1> QED
  BY <1>1, <1>2, <1>5, <1>6, Shows

(***************************************************************************)
(* The case of %.                                                          *)
(***************************************************************************)
LEMMA PercentKeeps == ASSUME PfInvariant, Percent PROVE PfInvariant'
<1>1. /\ pf_at = "escape" /\ Head(rest) = "%" /\ pf_at' = "text"
      /\ out' = Append(out, "%") /\ rest' = Tail(rest) /\ piece' = piece /\ ap' = ap
  BY DEF Percent, Case
<1>2. PICK p \in AnyPieces : p = piece /\ Somewhere(p) /\ out = <<>>
  BY <1>1, InDirective
<1>3. p.conv = "%" /\ Tail(rest) = <<>> /\ ap = OfConversion(p)
  BY <1>1, <1>2, AtItsConversion
<1>4. InC(p) = <<"%">>
  BY <1>3 DEF InC
<1>5. ap = <<>>
  BY <1>3 DEF OfConversion
<1>6. Append(<<>>, "%") = <<"%">>
  OBVIOUS
<1> QED
  BY <1>1, <1>2, <1>3, <1>4, <1>5, <1>6, Finished

(***************************************************************************)
(* The default: what is behind the % will be printed as text.              *)
(***************************************************************************)
LEMMA BadKeeps == ASSUME PfInvariant, Bad PROVE PfInvariant'
<1>1. /\ pf_at = "escape" /\ Head(rest) = "z" /\ pf_at' = "text"
      /\ out' = Append(out, "%") /\ rest' = last_fmt /\ piece' = piece /\ ap' = ap
  BY DEF Bad, Case
<1>2. PICK p \in AnyPieces :
         p = piece /\ p \in Pieces /\ out = <<>> /\ last_fmt = FromFlag(p) /\ Somewhere(p)
  BY <1>1, InDirective
<1>3. p.conv = "z" /\ ap = OfConversion(p)
  BY <1>1, <1>2, AtItsConversion
<1>4. ap = <<>>
  BY <1>3 DEF OfConversion
<1>5. Append(<<>>, "%") = <<"%">>
  OBVIOUS
<1> DEFINE S == Alphabet \ {"%"}
<1>6. FromFlag(p) \in Seq(S)
  <2>1. Letters \subseteq S /\ "z" \in S
    BY InLetters
  <2> HIDE DEF S
  <2> QED
    BY <1>3, <2>1, PartsAreSequences
<1>7. out' = <<"%">> /\ <<"%">> \in Seq(Alphabet)
  BY <1>1, <1>2, <1>5, InLetters
<1>8. Chars(p) = <<"%">> \o FromFlag(p)
  BY CharsFromFlag
<1>9. Literal'
  BY <1>1, <1>2, <1>3, <1>4, <1>6, <1>7, <1>8 DEF Literal
<1> QED
  BY <1>1, <1>2, <1>9 DEF PfInvariant

(***************************************************************************)
(* A directive begins with a %.                                            *)
(***************************************************************************)
LEMMA CharsBegin ==
    ASSUME NEW p \in AnyPieces
    PROVE  Chars(p) # <<>> /\ Head(Chars(p)) = "%" /\ Tail(Chars(p)) = FromFlag(p)
<1>1. FromFlag(p) \in Seq(Alphabet) /\ "%" \in Alphabet
  BY PartsAreSequences, ConversionLetter, InLetters
<1>2. Chars(p) = <<"%">> \o FromFlag(p)
  BY CharsFromFlag
<1> QED
  BY <1>1, <1>2, AfterFirst

(***************************************************************************)
(* A character that is text is one of a directive that means nothing.      *)
(***************************************************************************)
LEMMA PutTextKeeps == ASSUME PfInvariant, PutText PROVE PfInvariant'
<1>1. /\ pf_at = "text" /\ rest # <<>> /\ Head(rest) # "%" /\ pf_at' = "text"
      /\ out' = Append(out, Head(rest)) /\ rest' = Tail(rest) /\ piece' = piece /\ ap' = ap
  BY DEF PutText
<1>2. piece \in Pieces /\ piece \in AnyPieces
  BY <1>1 DEF PfInvariant, Pieces
<1>3. ~Fresh /\ ~Printed
  <2>1. Head(Chars(piece)) = "%"
    BY <1>2, CharsBegin
  <2> QED
    BY <1>1, <2>1 DEF Fresh, Printed
<1>4. Literal
  BY <1>1, <1>3 DEF PfInvariant
<1>5. /\ piece.conv = "z" /\ ap = <<>> /\ rest \in Seq(Alphabet \ {"%"})
      /\ out \in Seq(Alphabet) /\ out \o rest = Chars(piece)
  BY <1>4 DEF Literal
<1>6. rest \in Seq(Alphabet)
  BY <1>5, WiderSeq
<1>7. PICK o \in Seq(Alphabet), q \in Seq(Alphabet) : o = out /\ q = rest
  BY <1>5, <1>6
<1>8. q # <<>>
  BY <1>1, <1>7
<1>9. rest' \in Seq(Alphabet \ {"%"})
  BY <1>1, <1>5
<1>10. Append(o, Head(q)) \in Seq(Alphabet) /\ Append(o, Head(q)) \o Tail(q) = o \o q
  BY <1>8, MovedOver
<1>11. out' \in Seq(Alphabet) /\ out' \o rest' = out \o rest
  BY <1>1, <1>7, <1>10
<1>12. Literal'
  BY <1>1, <1>5, <1>9, <1>11 DEF Literal
<1> QED
  BY <1>1, <1>2, <1>12 DEF PfInvariant

(***************************************************************************)
(* A % begins the directive, with nothing left from the one before.        *)
(***************************************************************************)
LEMMA StartEscapeKeeps == ASSUME PfInvariant, StartEscape PROVE PfInvariant'
<1>1. /\ pf_at = "text" /\ rest # <<>> /\ Head(rest) = "%" /\ pf_at' = "escape"
      /\ rest' = Tail(rest) /\ last_fmt' = Tail(rest)
      /\ padc' = " " /\ width' = Unset /\ precision' = Unset
      /\ piece' = piece /\ ap' = ap /\ out' = out
  BY DEF StartEscape
<1>2. piece \in Pieces /\ piece \in AnyPieces
  BY <1>1 DEF PfInvariant, Pieces
<1>3. ~Literal
  <2>1. ASSUME Literal PROVE FALSE
    <3> DEFINE S == Alphabet \ {"%"}
    <3>1. PICK q \in Seq(S) : q = rest
      BY <2>1 DEF Literal
    <3>2. q # <<>> /\ Head(q) = "%" /\ "%" \notin S
      BY <1>1, <3>1
    <3> HIDE DEF S
    <3>3. Head(q) \in S
      BY <3>2
    <3> QED
      BY <3>2, <3>3
  <2> QED
    BY <2>1
<1>4. Fresh
  BY <1>1, <1>3 DEF PfInvariant, Printed
<1>5. Tail(rest) = FromFlag(piece) /\ ap = Arguments(piece) /\ out = <<>>
  BY <1>2, <1>4, CharsBegin DEF Fresh
<1>6. AtFlag(piece)'
  BY <1>1, <1>5 DEF AtFlag, Reads
<1>7. InEscape'
  BY <1>1, <1>5, <1>6 DEF InEscape, Somewhere
<1> QED
  BY <1>1, <1>2, <1>7 DEF PfInvariant

(***************************************************************************)
(* With no arguments left over, the arguments are the directive's.         *)
(***************************************************************************)
LEMMA ArgumentsOfAPiece ==
    ASSUME NEW p PROVE <<>> \o Arguments(p) = Arguments(p)
<1> DEFINE x == Number(p.width)
           y == Number(p.prec)
           z == [text |-> p.text, number |-> p.number]
           A == {x, y, z}
           w1 == IF p.star THEN <<x>> ELSE <<>>
           p1 == IF p.precStar THEN <<y>> ELSE <<>>
           c1 == IF p.conv \in {"%", "z"} THEN <<>> ELSE <<z>>
<1>1. Arguments(p) = (w1 \o p1) \o c1
  BY DEF Arguments
<1>2. x \in A /\ y \in A /\ z \in A
  OBVIOUS
<1> HIDE DEF x, y, z, A
<1>3. w1 \in Seq(A) /\ p1 \in Seq(A) /\ c1 \in Seq(A)
  BY <1>2, OneOf
<1> HIDE DEF w1, p1, c1
<1>4. (w1 \o p1) \in Seq(A)
  BY <1>3, Concatenated
<1>5. (w1 \o p1) \o c1 \in Seq(A)
  BY <1>3, <1>4, Concatenated
<1>6. Arguments(p) \in Seq(A)
  BY <1>1, <1>5
<1> QED
  BY <1>6, ConcatAssociates

(***************************************************************************)
(* A directive that begins with no arguments left over keeps the           *)
(* invariant.                                                              *)
(***************************************************************************)
LEMMA DirectiveKeeps ==
    ASSUME NEW p \in Pieces, Directive(p), ap = <<>> PROVE PfInvariant'
<1>1. /\ pf_at' = "text" /\ piece' = p /\ out' = <<>> /\ rest' = Chars(p)
      /\ ap' = <<>> \o Arguments(p)
  BY DEF Directive
<1>2. ap' = Arguments(p)
  BY <1>1, ArgumentsOfAPiece
<1>3. Fresh'
  BY <1>1, <1>2 DEF Fresh
<1> QED
  BY <1>1, <1>3 DEF PfInvariant

(***************************************************************************)
(* At the end of the format no arguments are left over.                    *)
(***************************************************************************)
LEMMA AtTheEnd ==
    ASSUME PfInvariant, pf_at = "text", rest = <<>> PROVE ap = <<>>
<1>1. piece \in AnyPieces
  BY DEF PfInvariant, Pieces
<1>2. ~Fresh
  BY <1>1, CharsBegin DEF Fresh
<1> QED
  BY <1>2 DEF PfInvariant, Literal, Printed

(***************************************************************************)
(* The plain directives are among those a caller may write.                *)
(***************************************************************************)
LEMMA PlainPiecesAre == PlainPieces \subseteq Pieces
<1> SUFFICES ASSUME NEW p \in PlainPieces PROVE p \in Pieces
  OBVIOUS
<1>1. PICK c \in {"d", "s"}, t \in Texts, n \in Ints \cup {0} :
         p = Plain(c, t, n) /\ (c = "d" => t = <<>> /\ n \in Ints) /\ (c = "s" => n = 0)
  BY DEF PlainPieces, Texts
<1>2. <<c, t, n>> \in Conversions
  BY <1>1 DEF Conversions
<1>3. p \in AnyPieces
  <2>1. /\ c \in {d[1] : d \in Conversions} /\ t \in {d[2] : d \in Conversions}
        /\ n \in {d[3] : d \in Conversions}
    <3>1. <<c, t, n>>[1] = c /\ <<c, t, n>>[2] = t /\ <<c, t, n>>[3] = n
      OBVIOUS
    <3> DEFINE d == <<c, t, n>>
    <3>2. d \in Conversions /\ d[1] = c /\ d[2] = t /\ d[3] = n
      BY <1>2, <3>1
    <3> HIDE DEF d
    <3> QED
      BY <3>2
  <2> QED
    BY <1>1, <1>2, <2>1 DEF AnyPieces, Plain
<1>4. p.long = <<>> /\ p.conv = c
  BY <1>1 DEF Plain
<1> QED
  BY <1>3, <1>4 DEF Pieces

(***************************************************************************)
(* Each step of vprintfmt and of its caller keeps the invariant.           *)
(***************************************************************************)
LEMMA PfInvariantStep ==
    ASSUME PfInvariant, [PfNext]_pf_vars PROVE PfInvariant'
<1>1. CASE CallPrintf
  <2>1. PICK p \in Pieces : Directive(p)
    BY <1>1 DEF CallPrintf
  <2>2. ap = <<>>
    BY <1>1 DEF CallPrintf, PfInvariant
  <2> QED
    BY <2>1, <2>2, DirectiveKeeps
<1>2. CASE SecondDirective
  <2>1. PICK p \in Pieces : Directive(p)
    BY <1>2, PlainPiecesAre DEF SecondDirective
  <2>2. ap = <<>>
    BY <1>2, AtTheEnd DEF SecondDirective
  <2> QED
    BY <2>1, <2>2, DirectiveKeeps
<1>3. CASE ReturnToCaller
  BY <1>3 DEF ReturnToCaller, PfInvariant
<1>4. CASE UNCHANGED pf_vars
  <2>1. /\ pf_at' = pf_at /\ piece' = piece /\ out' = out /\ rest' = rest
        /\ last_fmt' = last_fmt /\ ap' = ap
        /\ padc' = padc /\ width' = width /\ precision' = precision
    BY <1>4 DEF pf_vars
  <2>2. Fresh' = Fresh /\ Literal' = Literal /\ Printed' = Printed
    BY <2>1 DEF Fresh, Literal, Printed
  <2>3. InEscape => InEscape'
    BY <2>1 DEF InEscape, Somewhere, AtFlag, AtWidth, AtPoint, AtNumber, AtLong,
                AtConversion, Reads
  <2> QED
    BY <2>1, <2>2, <2>3 DEF PfInvariant
<1> QED
  BY <1>1, <1>2, <1>3, <1>4, PutTextKeeps, StartEscapeKeeps, FlagKeeps, NumberKeeps,
     StarKeeps,
     PointKeeps, LongOrAltFlagKeeps, CharacterKeeps, DoubleKeeps, StringKeeps, SignedKeeps,
     UnsignedKeeps, PercentKeeps, BadKeeps DEF PfNext

(***************************************************************************)
(* The invariant has the property.                                         *)
(***************************************************************************)
LEMMA PrintedAsC == PfInvariant => PrintsAsC
<1> SUFFICES ASSUME PfInvariant, pf_at = "text", rest = <<>>, Supported(piece)
             PROVE  out = InC(piece)
  BY DEF PrintsAsC
<1>1. piece \in AnyPieces
  BY DEF PfInvariant, Pieces
<1>2. ~Fresh
  BY <1>1, CharsBegin DEF Fresh
<1>3. ASSUME Literal PROVE out = InC(piece)
  <2>1. out \in Seq(Alphabet) /\ out \o <<>> = Chars(piece)
    BY <1>3 DEF Literal
  <2>2. out \o <<>> = out
    BY <2>1, ConcatAssociates
  <2>3. InC(piece) = Chars(piece)
    BY <1>3 DEF Literal, InC
  <2> QED
    BY <2>1, <2>2, <2>3
<1> QED
  BY <1>2, <1>3 DEF PfInvariant, Printed

(***************************************************************************)
(* And it holds at the start.                                              *)
(***************************************************************************)
LEMMA PfInvariantStart == PfInit => PfInvariant
  BY DEF PfInit, PfInvariant

(***************************************************************************)
(* Whatever a caller prints, among the directives of vprintfmt that are    *)
(* those of C, comes out as in C, and nothing of a directive is left in    *)
(* vprintfmt's variables for the next one.                                 *)
(***************************************************************************)
THEOREM PrintfPrintsAsC == ProgramsSpec => []PrintsAsC
<1>1. ProgramsInit => PfInvariant
  BY PfInvariantStart DEF ProgramsInit
<1>2. PfInvariant /\ [ProgramsNext]_all_vars => PfInvariant'
  BY PfInvariantStep, StepOfAProgram
<1> QED
  BY <1>1, <1>2, PrintedAsC, PTL DEF ProgramsSpec
=============================================================================
