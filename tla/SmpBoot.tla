-------------------------------- MODULE SmpBoot --------------------------------
(***************************************************************************)
(* The multi-hart start-up of bsp/env/start.S (built with ENABLE_SMP) and  *)
(* the program software/smp/smp.c that it starts.                          *)
(*                                                                         *)
(* Hart 0 copies .data and clears .bss between smp_pause and smp_resume    *)
(* (module SmpBarrier); then hart 0 calls main, which calls                *)
(* secondary_main(0), and every other hart calls secondary_main(hartid).   *)
(* The harts take turns on the terminal under tty_lock, a word of .bss     *)
(* whose content at reset is whatever the RAM holds.                       *)
(***************************************************************************)
EXTENDS SmpBarrier

CONSTANTS
    DataWords,  \* words from _data to _edata
    BssWords,   \* words from __bss_start to _end
    LockWord,   \* the word of .bss that is tty_lock
    RamContent  \* what tty_lock's word may hold before it is cleared

ASSUME OneRoundAssumption == Rounds = 1
ASSUME WordsAssumption    == DataWords \in Nat /\ BssWords \in Nat
ASSUME LockWordAssumption == LockWord \in 0 .. BssWords - 1
ASSUME RamAssumption      == 0 \in RamContent /\ 1 \in RamContent

VARIABLES
    copied,     \* words of .data copied so far (a1 - _data)
    cleared,    \* words of .bss cleared so far (a0 - __bss_start)
    lock,       \* tty_lock.counter
    at,         \* where each hart is in secondary_main
    tty         \* the last write the terminal showed: its hart and its part

appVars  == <<lock, at, tty>>
bootVars == <<pc, slot, msip, round, copied, cleared, lock, at, tty>>

CodePlaces == {"start", "get", "text", "digit", "put", "delay"}

\* The hart holds tty_lock.
Holding == {"text", "digit", "put"}

Fragments == [by : Harts, part : {"text", "digit"}]

At(h, place) == at' = [at EXCEPT ![h] = place]

BootInit ==
    /\ BarrierInit
    /\ copied = 0
    /\ cleared = 0
    /\ lock \in RamContent
    /\ at = [h \in Harts |-> "start"]
    /\ tty = [by |-> 0, part |-> "digit"]

-----------------------------------------------------------------------------
(***************************************************************************)
(* start.S, hart 0 between the two macros.                                 *)
(***************************************************************************)
CopyWord ==
    /\ pc[0] = "alone"
    /\ copied < DataWords
    /\ copied' = copied + 1
    /\ UNCHANGED <<barrierVars, cleared, appVars>>

ClearWord ==
    /\ pc[0] = "alone"
    /\ copied = DataWords
    /\ cleared < BssWords
    /\ cleared' = cleared + 1
    /\ lock' = IF cleared = LockWord THEN 0 ELSE lock
    /\ UNCHANGED <<barrierVars, copied, at, tty>>

MemoryReady == copied = DataWords /\ cleared = BssWords

\* Mistake: the harts are released before the memory is ready.
EndOfSetupEarly ==
    /\ Resume
    /\ UNCHANGED <<copied, cleared, appVars>>

\* Both loops are done: hart 0 reaches smp_resume.
EndOfSetup ==
    /\ MemoryReady
    /\ Resume
    /\ UNCHANGED <<copied, cleared, appVars>>

\* The steps of the macros that start.S takes as they are.
PassBarrier(h) ==
    /\ \/ Pause(h)
       \/ h = 0 /\ Kick
       \/ Wake(h)
       \/ Acknowledge(h)
       \/ Scan(h)
    /\ UNCHANGED <<copied, cleared, appVars>>

\* Past the barrier: hart 0 calls main, the others set mtvec and their own
\* stack and call secondary_main.
EnterMain(h) ==
    /\ pc[h] = "work"
    /\ at[h] = "start"
    /\ At(h, "get")
    /\ UNCHANGED <<barrierVars, copied, cleared, lock, tty>>

-----------------------------------------------------------------------------
(***************************************************************************)
(* smp.c, one turn of secondary_main's loop.                               *)
(***************************************************************************)

\* Mistake: the old value is not compared.
GetLockUnchecked(h) ==
    /\ at[h] = "get"
    /\ lock' = 1
    /\ At(h, "text")
    /\ UNCHANGED <<barrierVars, copied, cleared, tty>>

\* get_lock: one atomic_xchg(lock, 1). Any old value but 1 ends the loop.
GetLock(h) ==
    /\ at[h] = "get"
    /\ lock' = 1
    /\ At(h, IF lock = 1 THEN "get" ELSE "text")
    /\ UNCHANGED <<barrierVars, copied, cleared, tty>>

WriteText(h) ==
    /\ at[h] = "text"
    /\ tty' = [by |-> h, part |-> "text"]
    /\ At(h, "digit")
    /\ UNCHANGED <<barrierVars, copied, cleared, lock>>

WriteDigit(h) ==
    /\ at[h] = "digit"
    /\ tty' = [by |-> h, part |-> "digit"]
    /\ At(h, "put")
    /\ UNCHANGED <<barrierVars, copied, cleared, lock>>

PutLock(h) ==
    /\ at[h] = "put"
    /\ lock' = 0
    /\ At(h, "delay")
    /\ UNCHANGED <<barrierVars, copied, cleared, tty>>

Delay(h) ==
    /\ at[h] = "delay"
    /\ At(h, "get")
    /\ UNCHANGED <<barrierVars, copied, cleared, lock, tty>>

-----------------------------------------------------------------------------
HartStep(h) ==
    \/ h = 0 /\ (CopyWord \/ ClearWord \/ EndOfSetup)
    \/ PassBarrier(h)
    \/ EnterMain(h)
    \/ GetLock(h)
    \/ WriteText(h)
    \/ WriteDigit(h)
    \/ PutLock(h)
    \/ Delay(h)

BootNext == \E h \in Harts : HartStep(h)

(***************************************************************************)
(* Every hart keeps executing. Nothing makes the interconnect fair between *)
(* harts that spin on tty_lock, so no strong fairness is assumed.          *)
(***************************************************************************)
BootSpec ==
    /\ BootInit
    /\ [][BootNext]_bootVars
    /\ \A h \in Harts : WF_bootVars(HartStep(h))

-----------------------------------------------------------------------------
(***************************************************************************)
(* Properties.                                                             *)
(***************************************************************************)

BootTypeOK ==
    /\ BarrierTypeOK
    /\ copied \in 0 .. DataWords
    /\ cleared \in 0 .. BssWords
    /\ lock \in RamContent
    /\ at \in [Harts -> CodePlaces]
    /\ tty \in Fragments

\* No hart runs C code before hart 0 has copied .data and cleared .bss
\* (start.S:32-68): a hart that got past the barrier early would take a lock
\* that is then cleared under it.
MemoryReadyBeforeMain == \A h \in Harts : at[h] # "start" => MemoryReady

\* tty_lock excludes (smp.c:8-18): at most one hart is between get_lock and
\* the exchange of put_lock. It rests on the barrier too, because the lock's
\* word starts with arbitrary content.
MutualExclusion ==
    \A g, h \in Harts : at[g] \in Holding /\ at[h] \in Holding => g = h

LineOrder ==
    tty' # tty => IF tty'.part = "digit"
                  THEN tty = [by |-> tty'.by, part |-> "text"]
                  ELSE tty.part = "digit"

\* The terminal shows whole lines (smp.c:25-30): the digit of a hart directly
\* follows the text of the same hart, and no text starts before the digit of
\* the line before it.
WholeLines == [][LineOrder]_bootVars

-----------------------------------------------------------------------------
(***************************************************************************)
(* What start-up and lock promise together (module StartGate).             *)
(***************************************************************************)
Gate == INSTANCE StartGate WITH
    Workers <- Harts,
    ready   <- pc[0] \notin {"pause", "alone"},
    arrived <- {h \in Harts : Awake(h)},
    started <- {h \in Harts : at[h] # "start"},
    inside  <- {h \in Harts : at[h] \in Holding}

\* start.S and smp.c implement the gate and the turn-taking behind it: among
\* the rest, every hart gets through the barrier into secondary_main, and the
\* harts never lock each other out (turns keep coming, though not each
\* hart's).
ImplementsGate == Gate!GateSpec
=============================================================================
