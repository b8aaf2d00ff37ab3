------------------------------ MODULE SmpBarrier ------------------------------
(***************************************************************************)
(* The multi-hart barrier of bsp/include/sifive/smp.h: the assembly macros *)
(* smp_pause and smp_resume, run by every hart.                            *)
(*                                                                         *)
(*   smp_pause     every hart enables only the software interrupt; harts   *)
(*                 other than 0 jump to the wait loop of smp_resume.       *)
(*   (alone)       the single-threaded work hart 0 does between the two.   *)
(*   smp_resume    hart 0 raises MSIP of all MAX_HARTS slots; every hart   *)
(*                 waits (wfi) for its own MSIP, clears it, then waits     *)
(*                 until it has seen every slot, in order, to be clear.    *)
(*                                                                         *)
(* One action is one access to the CLINT or one branch of the macros.      *)
(* The CLINT (the msip registers) is hardware: slots that belong to no     *)
(* hart read as zero and ignore writes.                                    *)
(***************************************************************************)
EXTENDS Naturals, FiniteSets

CONSTANTS
    NumHarts,   \* harts of the chip
    MaxHarts,   \* MAX_HARTS: msip slots that smp_resume writes and scans
    Rounds      \* times the program goes through smp_pause .. smp_resume

ASSUME NumHartsAssumption == NumHarts \in Nat \ {0}
ASSUME MaxHartsAssumption == MaxHarts \in Nat /\ NumHarts <= MaxHarts
ASSUME RoundsAssumption   == Rounds \in Nat \ {0}

Harts == 0 .. NumHarts - 1
Slots == 0 .. MaxHarts - 1

VARIABLES
    pc,         \* where each hart is in the macros
    slot,       \* reg1 of each hart: the msip slot written or scanned next
    msip,       \* the CLINT's software-interrupt pending bits
    round       \* how many times the hart entered smp_pause

barrierVars == <<pc, slot, msip, round>>

Places == {"pause", "alone", "kick", "sleep", "ack", "scan", "work"}

Goto(h, place) == pc' = [pc EXCEPT ![h] = place]

(***************************************************************************)
(* At reset every hart is at the first instruction and no MSIP is pending. *)
(***************************************************************************)
BarrierInit ==
    /\ pc    = [h \in Harts |-> "pause"]
    /\ slot  = [h \in Harts |-> 0]
    /\ msip  = [s \in Slots |-> 0]
    /\ round = [h \in Harts |-> 1]

\* smp_pause: harts other than 0 take the branch to the wait loop.
Pause(h) ==
    /\ pc[h] = "pause"
    /\ Goto(h, IF h = 0 THEN "alone" ELSE "sleep")
    /\ UNCHANGED <<slot, msip, round>>

\* Hart 0 has done its single-threaded work and enters smp_resume.
Resume ==
    /\ pc[0] = "alone"
    /\ Goto(0, "kick")
    /\ slot' = [slot EXCEPT ![0] = 0]
    /\ UNCHANGED <<msip, round>>

\* Mistake: the loop runs once too often (ble for blt).
KickOnceMore ==
    /\ pc[0] = "kick"
    /\ msip' = IF slot[0] \in Harts THEN [msip EXCEPT ![slot[0]] = 1] ELSE msip
    /\ slot' = [slot EXCEPT ![0] = @ + 1]
    /\ Goto(0, IF slot[0] + 1 <= MaxHarts THEN "kick" ELSE "sleep")
    /\ UNCHANGED round

\* One turn of the loop that stores 1 into every slot; the last turn falls
\* through into the wait loop.
Kick ==
    /\ pc[0] = "kick"
    /\ msip' = IF slot[0] \in Harts THEN [msip EXCEPT ![slot[0]] = 1] ELSE msip
    /\ slot' = [slot EXCEPT ![0] = @ + 1]
    /\ Goto(0, IF slot[0] + 1 < MaxHarts THEN "kick" ELSE "sleep")
    /\ UNCHANGED round

\* Mistake: wfi is taken at its word, without reading mip (no beqz).
WakeUnchecked(h) ==
    /\ pc[h] = "sleep"
    /\ Goto(h, "ack")
    /\ UNCHANGED <<slot, msip, round>>

\* wfi returned and mip.MSIP is set. (A wfi that returns without it goes
\* round the loop again and changes nothing.)
Wake(h) ==
    /\ pc[h] = "sleep"
    /\ msip[h] = 1
    /\ Goto(h, "ack")
    /\ UNCHANGED <<slot, msip, round>>

\* Mistake: the scan leaves out hart 0's slot.
AcknowledgeSkippingZero(h) ==
    /\ pc[h] = "ack"
    /\ msip' = [msip EXCEPT ![h] = 0]
    /\ slot' = [slot EXCEPT ![h] = 1]
    /\ Goto(h, "scan")
    /\ UNCHANGED round

\* The hart clears its own slot and starts the scan at slot 0.
Acknowledge(h) ==
    /\ pc[h] = "ack"
    /\ msip' = [msip EXCEPT ![h] = 0]
    /\ slot' = [slot EXCEPT ![h] = 0]
    /\ Goto(h, "scan")
    /\ UNCHANGED round

\* One turn of the scan that saw its slot clear; while the slot is set the
\* hart reads it again.
Scan(h) ==
    /\ pc[h] = "scan"
    /\ msip[slot[h]] = 0
    /\ slot' = [slot EXCEPT ![h] = @ + 1]
    /\ Goto(h, IF slot[h] + 1 < MaxHarts THEN "scan" ELSE "work")
    /\ UNCHANGED <<msip, round>>

\* The program uses the pair of macros once more, as the header documents.
PauseAgain(h) ==
    /\ pc[h] = "work"
    /\ round[h] < Rounds
    /\ round' = [round EXCEPT ![h] = @ + 1]
    /\ Goto(h, "pause")
    /\ UNCHANGED <<slot, msip>>

BarrierStep(h) ==
    \/ Pause(h)
    \/ h = 0 /\ (Resume \/ Kick)
    \/ Wake(h)
    \/ Acknowledge(h)
    \/ Scan(h)
    \/ PauseAgain(h)

\* Every round done: each hart is in the work that follows the last barrier.
AllThrough == \A h \in Harts : pc[h] = "work" /\ round[h] = Rounds

Finished == AllThrough /\ UNCHANGED barrierVars

BarrierNext == (\E h \in Harts : BarrierStep(h)) \/ Finished

(***************************************************************************)
(* A hart never stops fetching: it takes its next step if it has one.      *)
(***************************************************************************)
BarrierSpec ==
    /\ BarrierInit
    /\ [][BarrierNext]_barrierVars
    /\ \A h \in Harts : WF_barrierVars(BarrierStep(h))

-----------------------------------------------------------------------------
(***************************************************************************)
(* Properties.                                                             *)
(***************************************************************************)

BarrierTypeOK ==
    /\ pc \in [Harts -> Places]
    /\ slot \in [Harts -> 0 .. MaxHarts]
    /\ msip \in [Slots -> {0, 1}]
    /\ round \in [Harts -> 1 .. Rounds]

\* A hart that has acknowledged its interrupt in the current round.
Awake(h) == pc[h] \in {"scan", "work"}

\* smp_resume is a barrier: a hart starts the multi-threaded work only after
\* every hart of the chip was woken and cleared its own slot. It rests on the
\* scan and on hart 0 raising slot 0 first and clearing it last.
NobodyLeavesEarly ==
    \A h \in Harts : pc[h] = "work" => \A g \in Harts : Awake(g)

\* "Temporarily block multiple-threads" (smp.h:27): while hart 0 does the
\* single-threaded work, no other hart is in multi-threaded work.
AloneMeansAlone ==
    pc[0] = "alone" => \A h \in Harts \ {0} : pc[h] # "work"
=============================================================================
