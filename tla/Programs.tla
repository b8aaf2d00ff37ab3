------------------------------ MODULE Programs ------------------------------
(***************************************************************************)
(* The smaller programs of software/: the board runs the one that was      *)
(* uploaded, and the variables of the others stand still.                  *)
(***************************************************************************)
EXTENDS TimerRead, LocalInterrupts, VectoredInterrupts, DemoGpio, PlicClient,
        UartIo, Fade, Dhrystone, VPrintf, MeasureFreq

VARIABLE program

all_vars == <<program, vars, local_vars, vec_vars, plicVars, gpio_vars,
              own_vars, io_vars, fade_vars, dhry_vars, pf_vars, mf_vars>>

NoTimerRead ==
    /\ high = 0 /\ low = 0 /\ pc = "idle" /\ hi = 0 /\ lo = 0
    /\ called = <<0, 0>> /\ result = <<0, 0>>

NoLocal ==
    /\ local_at = "setup" /\ local_mie = {} /\ pressed = {}
    /\ debounce_timer = "ahead" /\ msip = FALSE /\ g_debouncing = FALSE

NoVectored ==
    /\ build = "volatile" /\ vec_at = "setup" /\ ecall_countdown = 0
    /\ vec_mie = {} /\ second = FALSE /\ slept = FALSE
    /\ fall = FALSE /\ down = FALSE /\ window = FALSE

NoPlic ==
    /\ enabled = {} /\ priority = [s \in Sources |-> 0] /\ threshold = 0
    /\ pending = {} /\ inService = {}

NoDemo ==
    /\ demo_at = "setup" /\ int_num = NoSource
    /\ rise = {} /\ output_val = {} /\ invert_timer = "ahead"

NoClient ==
    client_at = "reset" /\ got = NoSource /\ asked = {} /\ wanted = NoPriorities

NoUart ==
    /\ io_at = "idle" /\ isr_at = "off" /\ left = 0 /\ tx = 0 /\ printed = FALSE
    /\ rx = <<>> /\ arriving = 0 /\ expected = 0
    /\ rxbuf = [i \in Ring |-> 0] /\ rxbuf_head = 0 /\ rxbuf_tail = 0

NoFade == r = 0 /\ g = 0 /\ b = 0

NoDhry == DhryInit /\ dhry.Run_Index = 0

NoMeasure ==
    /\ mf_fn = "init.c" /\ mf_at = "first" /\ elapsed = 0 /\ interrupted = FALSE
    /\ mf_ticks = 1 /\ phase = 0 /\ mcycle0 = 0
    /\ start_mtime = 0 /\ end_mtime = 0 /\ delta_mtime = 0 /\ start_mcycle = 0
    /\ cpu_freq = 0

ProgramsInit ==
    /\ program \in {"timer", "local", "vectored", "demo", "plic", "terminal",
                    "fade", "dhrystone", "printf", "measure"}
    /\ IF program = "timer"    THEN Init      ELSE NoTimerRead
    /\ IF program = "local"    THEN LocalInit ELSE NoLocal
    /\ IF program = "vectored" THEN VecInit   ELSE NoVectored
    /\ IF program \in {"demo", "plic"} THEN PlicInit ELSE NoPlic
    /\ IF program = "demo"     THEN DemoInit  ELSE NoDemo
    /\ IF program = "plic"     THEN ClientInit ELSE NoClient
    /\ IF program = "terminal" THEN UartInit  ELSE NoUart
    /\ IF program = "fade"     THEN FadeInit  ELSE NoFade
    /\ IF program = "dhrystone" THEN DhryInit ELSE NoDhry
    /\ IF program = "measure"  THEN MfInit    ELSE NoMeasure
    /\ PfInit

(***************************************************************************)
(* A step of a program is one of the program that was uploaded; the demo   *)
(* and the client share the controller.                                    *)
(***************************************************************************)
Timer(A) == program = "timer" /\ A /\ UNCHANGED
    <<program, local_vars, vec_vars, plicVars, gpio_vars, own_vars, io_vars,
      fade_vars, dhry_vars, pf_vars, mf_vars>>

Local(A) == program = "local" /\ A /\ UNCHANGED
    <<program, vars, vec_vars, plicVars, gpio_vars, own_vars, io_vars,
      fade_vars, dhry_vars, pf_vars, mf_vars>>

Vectored(A) == program = "vectored" /\ A /\ UNCHANGED
    <<program, vars, local_vars, plicVars, gpio_vars, own_vars, io_vars,
      fade_vars, dhry_vars, pf_vars, mf_vars>>

Demo(A) == program = "demo" /\ A /\ UNCHANGED
    <<program, vars, local_vars, vec_vars, own_vars, io_vars, fade_vars,
      dhry_vars, pf_vars, mf_vars>>

Client(A) == program = "plic" /\ A /\ UNCHANGED
    <<program, vars, local_vars, vec_vars, gpio_vars, io_vars, fade_vars,
      dhry_vars, pf_vars, mf_vars>>

Terminal(A) == program = "terminal" /\ A /\ UNCHANGED
    <<program, vars, local_vars, vec_vars, plicVars, gpio_vars, own_vars,
      fade_vars, dhry_vars, pf_vars, mf_vars>>

Wheel(A) == program = "fade" /\ A /\ UNCHANGED
    <<program, vars, local_vars, vec_vars, plicVars, gpio_vars, own_vars,
      io_vars, dhry_vars, pf_vars, mf_vars>>

Benchmark(A) == program = "dhrystone" /\ A /\ UNCHANGED
    <<program, vars, local_vars, vec_vars, plicVars, gpio_vars, own_vars,
      io_vars, fade_vars, pf_vars, mf_vars>>

Printing(A) == program = "printf" /\ A /\ UNCHANGED
    <<program, vars, local_vars, vec_vars, plicVars, gpio_vars, own_vars,
      io_vars, fade_vars, dhry_vars, mf_vars>>

Measuring(A) == program = "measure" /\ A /\ UNCHANGED
    <<program, vars, local_vars, vec_vars, plicVars, gpio_vars, own_vars,
      io_vars, fade_vars, dhry_vars, pf_vars>>

ProgramsNext ==
    \/ Timer(Next) \/ Local(LocalNext) \/ Vectored(VecNext) \/ Demo(DemoNext)
    \/ Client(ClientNext) \/ Terminal(UartNext) \/ Wheel(FadeStep)
    \/ Benchmark(DhryNext) \/ Printing(PfNext) \/ Measuring(MfNext)

(***************************************************************************)
(* A hart keeps executing, an interrupt that stays pending and enabled is  *)
(* taken, a gateway forwards a line that stays high, and time passes.      *)
(***************************************************************************)
ProgramsSpec ==
    /\ ProgramsInit /\ [][ProgramsNext]_all_vars
    /\ WF_all_vars(Local(LocalMain)) /\ WF_all_vars(Local(LocalTrap))
    /\ WF_all_vars(Local(HalfASecondPasses))
    /\ WF_all_vars(Demo(DemoSetup)) /\ WF_all_vars(Demo(DemoHandler))
    /\ \A s \in Buttons : WF_all_vars(Demo(ForwardEdge(s)))
    /\ WF_all_vars(Wheel(FadeStep))
=============================================================================
