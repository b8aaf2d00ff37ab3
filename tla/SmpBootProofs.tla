----------------------------- MODULE SmpBootProofs -----------------------------
(***************************************************************************)
(* Theorems about SmpBoot, for every number of harts, msip slots and words *)
(* of memory: the barrier holds everybody back until the memory is ready   *)
(* and everybody is awake, and tty_lock excludes and keeps lines whole.    *)
(***************************************************************************)
EXTENDS SmpBoot, TLAPS

USE DEF Harts, Slots

(***************************************************************************)
(* The inductive invariant.                                                *)
(***************************************************************************)

\* Hart 0 has stored 1 into slot s.
Kicked(s) ==
    \/ pc[0] \in {"sleep", "ack", "scan", "work"}
    \/ pc[0] = "kick" /\ s < slot[0]

\* Only hart 0 works alone or kicks, and no loop index is past the end.
Roles ==
    /\ \A h \in Harts : pc[h] \in {"alone", "kick"} => h = 0
    /\ \A h \in Harts : pc[h] \in {"kick", "scan"} => slot[h] < MaxHarts

\* A hart's msip is set exactly from hart 0's store to the hart's own.
PendingMeansKicked ==
    \A h \in Harts : msip[h] = 1 <=> Kicked(h) /\ ~Awake(h)

\* Nobody goes on without having been kicked.
WokenMeansKicked ==
    \A h \in Harts : pc[h] \in {"ack", "scan", "work"} => Kicked(h)

\* What a scanning hart has behind it is awake.
ScannedMeansAwake ==
    \A h, g \in Harts :
        pc[h] = "work" \/ (pc[h] = "scan" /\ g < slot[h]) => Awake(g)

BarrierInv ==
    Roles /\ PendingMeansKicked /\ WokenMeansKicked /\ ScannedMeansAwake

\* Hart 0 leaves the setup only with the memory ready, and C code runs only
\* behind the barrier.
SetupInv ==
    /\ pc[0] \notin {"pause", "alone"} => MemoryReady
    /\ \A h \in Harts : at[h] # "start" => pc[h] = "work"

\* The lock is taken while somebody holds it; the terminal shows an
\* unfinished line exactly while its writer is between the two writes.
LockInv ==
    /\ MutualExclusion
    /\ \A h \in Harts : at[h] \in Holding => lock = 1
    /\ \A h \in Harts : at[h] = "digit" => tty = [by |-> h, part |-> "text"]
    /\ (\A h \in Harts : at[h] # "digit") => tty.part = "digit"

BootInv == BootTypeOK /\ BarrierInv /\ SetupInv /\ LockInv

-----------------------------------------------------------------------------
\* Hart 0 exists and owns slot 0.
LEMMA HartZero == 0 \in Harts /\ Harts \subseteq Slots
BY NumHartsAssumption, MaxHartsAssumption

\* The types, with the loop indices they need, are inductive.
LEMMA TypesAndRolesStep ==
    BootTypeOK /\ Roles /\ [BootNext]_bootVars => BootTypeOK' /\ Roles'
<1> SUFFICES ASSUME BootTypeOK, Roles, [BootNext]_bootVars
             PROVE  BootTypeOK' /\ Roles'
  OBVIOUS
<1> USE HartZero, NumHartsAssumption, MaxHartsAssumption
    DEF BootTypeOK, BarrierTypeOK, Roles, barrierVars, appVars
<1>1. CASE CopyWord
  BY <1>1, WordsAssumption DEF CopyWord
<1>2. CASE ClearWord
  BY <1>2, WordsAssumption, RamAssumption DEF ClearWord
<1>3. CASE EndOfSetup
  BY <1>3 DEF EndOfSetup, Resume, Goto, Places
<1>4. ASSUME NEW h \in Harts, PassBarrier(h)
      PROVE  BootTypeOK' /\ Roles'
  <2> USE DEF Goto, Places
  <2>1. CASE Pause(h)
    BY <1>4, <2>1 DEF PassBarrier, Pause
  <2>2. CASE h = 0 /\ Kick
    <3>1. slot[0] \in Nat /\ slot[0] < MaxHarts
      BY <2>2 DEF Kick
    <3>2. pc' \in [Harts -> Places] /\ slot' \in [Harts -> 0 .. MaxHarts]
      BY <2>2, <3>1 DEF Kick
    <3>3. msip' \in [Slots -> {0, 1}]
      BY <2>2 DEF Kick
    <3>4. Roles'
      BY <2>2, <3>1 DEF Kick
    <3>5. UNCHANGED <<round, copied, cleared, lock, at, tty>>
      BY <1>4, <2>2 DEF PassBarrier, Kick
    <3> QED BY <3>2, <3>3, <3>4, <3>5
  <2>3. CASE Wake(h)
    BY <1>4, <2>3 DEF PassBarrier, Wake
  <2>4. CASE Acknowledge(h)
    BY <1>4, <2>4 DEF PassBarrier, Acknowledge
  <2>5. CASE Scan(h)
    <3>1. slot[h] \in Nat /\ slot[h] < MaxHarts
      BY <2>5 DEF Scan
    <3>2. pc' \in [Harts -> Places] /\ slot' \in [Harts -> 0 .. MaxHarts]
      BY <2>5, <3>1 DEF Scan
    <3>3. Roles'
      BY <2>5, <3>1 DEF Scan
    <3>4. UNCHANGED <<msip, round, copied, cleared, lock, at, tty>>
      BY <1>4, <2>5 DEF PassBarrier, Scan
    <3> QED BY <3>2, <3>3, <3>4
  <2> QED BY <1>4, <2>1, <2>2, <2>3, <2>4, <2>5 DEF PassBarrier
<1>5. ASSUME NEW h \in Harts,
             EnterMain(h) \/ GetLock(h) \/ PutLock(h) \/ Delay(h)
      PROVE  BootTypeOK' /\ Roles'
  BY <1>5, RamAssumption
  DEF EnterMain, GetLock, PutLock, Delay, At, CodePlaces
<1>6. ASSUME NEW h \in Harts, WriteText(h) \/ WriteDigit(h)
      PROVE  BootTypeOK' /\ Roles'
  <2>1. tty' \in Fragments
    BY <1>6 DEF WriteText, WriteDigit, Fragments
  <2>2. at' \in [Harts -> CodePlaces]
    BY <1>6 DEF WriteText, WriteDigit, At, CodePlaces
  <2> QED BY <1>6, <2>1, <2>2 DEF WriteText, WriteDigit
<1>7. CASE UNCHANGED bootVars
  BY <1>7 DEF bootVars
<1> QED BY <1>1, <1>2, <1>3, <1>4, <1>5, <1>6, <1>7 DEF BootNext, HartStep

\* At reset every hart is at the first instruction.
LEMMA TypesAndRolesInit == BootInit => BootTypeOK /\ Roles
BY HartZero, NumHartsAssumption, MaxHartsAssumption, RoundsAssumption,
   WordsAssumption
DEF BootInit, BarrierInit, BootTypeOK, BarrierTypeOK, Roles, Places,
    CodePlaces, Fragments

\* The types hold in every reachable state (SmpBoot's variables).
THEOREM BootTypeCorrect == BootSpec => []BootTypeOK
<1>1. BootSpec => [](BootTypeOK /\ Roles)
  BY TypesAndRolesInit, TypesAndRolesStep, PTL DEF BootSpec
<1> QED BY <1>1, PTL

-----------------------------------------------------------------------------
(***************************************************************************)
(* The barrier.                                                            *)
(***************************************************************************)

\* A slot seen clear by a scanning hart belongs to a hart that is awake: the
\* heart of the barrier's argument. Slot 0 is the first that hart 0 raises,
\* the last it clears and the first that everybody scans.
LEMMA ClearSlotMeansAwake ==
    ASSUME BootTypeOK, BarrierInv, NEW h \in Harts, pc[h] = "scan",
           slot[h] \in Harts, msip[slot[h]] = 0
    PROVE  Awake(slot[h])
<1> USE DEF BootTypeOK, BarrierTypeOK, BarrierInv
<1>1. Kicked(h) /\ slot[h] \in Nat
  BY DEF WokenMeansKicked
<1>2. CASE slot[h] = 0
  <2>1. Kicked(0)
    BY <1>1, HartZero DEF Kicked
  <2> QED BY <2>1, <1>2, HartZero DEF PendingMeansKicked
<1>3. CASE slot[h] > 0
  <2>1. Awake(0)
    BY <1>3, HartZero DEF ScannedMeansAwake
  <2>2. Kicked(slot[h])
    BY <2>1 DEF Awake, Kicked
  <2> QED BY <2>2 DEF PendingMeansKicked
<1> QED BY <1>1, <1>2, <1>3

\* Every step of the barrier keeps its invariant.
LEMMA BarrierStepKeepsInv ==
    ASSUME BootTypeOK, BarrierInv, Roles', NEW h \in Harts,
           \/ Pause(h)
           \/ Resume
           \/ Kick
           \/ Wake(h)
           \/ Acknowledge(h)
           \/ Scan(h)
    PROVE  BarrierInv'
<1> DEFINE Types == /\ pc \in [Harts -> Places]
                    /\ slot \in [Harts -> 0 .. MaxHarts]
                    /\ msip \in [Slots -> {0, 1}]
<1> USE HartZero
<1>1. Types /\ Roles /\ PendingMeansKicked /\ WokenMeansKicked
            /\ ScannedMeansAwake
  BY DEF BootTypeOK, BarrierTypeOK, BarrierInv
<1> HIDE DEF Types
<1>2. CASE Pause(h)
  <2>1. \A g \in Harts : pc'[g] = IF g = h THEN pc'[h] ELSE pc[g]
    BY <1>1, <1>2 DEF Types, Pause, Goto
  <2>2. pc[h] = "pause" /\ pc'[h] = IF h = 0 THEN "alone" ELSE "sleep"
    BY <1>1, <1>2 DEF Types, Pause, Goto
  <2>3. UNCHANGED <<slot, msip>>
    BY <1>2 DEF Pause
  <2>4. \A g \in Harts : Awake(g)' <=> Awake(g)
    BY <2>1, <2>2 DEF Awake
  <2>5. \A g \in Harts : Kicked(g)' <=> Kicked(g)
    BY <2>1, <2>2, <2>3 DEF Kicked
  <2>6. \A g \in Harts : pc'[g] \in {"ack", "scan", "work"} => pc'[g] = pc[g]
    BY <2>1, <2>2
  <2> QED
    BY <1>1, <2>3, <2>4, <2>5, <2>6
    DEF BarrierInv, PendingMeansKicked, WokenMeansKicked, ScannedMeansAwake
<1>3. CASE Resume
  <2>1. \A g \in Harts : pc'[g] = IF g = 0 THEN "kick" ELSE pc[g]
    BY <1>1, <1>3 DEF Types, Resume, Goto
  <2>2. /\ pc[0] = "alone"
        /\ \A g \in Harts : slot'[g] = IF g = 0 THEN 0 ELSE slot[g]
        /\ msip' = msip
    BY <1>1, <1>3 DEF Types, Resume
  <2>3. \A g \in Harts : Awake(g)' <=> Awake(g)
    BY <2>1, <2>2 DEF Awake
  <2>4. \A g \in Harts : Kicked(g)' <=> Kicked(g)
    BY <2>1, <2>2 DEF Kicked
  <2>5. \A g \in Harts : pc'[g] \in {"ack", "scan", "work"}
                         => pc'[g] = pc[g] /\ slot'[g] = slot[g]
    BY <2>1, <2>2
  <2> QED
    BY <1>1, <2>2, <2>3, <2>4, <2>5
    DEF BarrierInv, PendingMeansKicked, WokenMeansKicked, ScannedMeansAwake
<1>4. CASE Kick
  <2>1. slot[0] \in Nat /\ slot[0] < MaxHarts /\ pc[0] = "kick"
    BY <1>1, <1>4, MaxHartsAssumption DEF Types, Kick, Roles
  <2>2. /\ pc'[0] = IF slot[0] + 1 < MaxHarts THEN "kick" ELSE "sleep"
        /\ \A g \in Harts \ {0} : pc'[g] = pc[g] /\ slot'[g] = slot[g]
        /\ slot'[0] = slot[0] + 1
    BY <1>1, <1>4 DEF Types, Kick, Goto
  <2>3. \A g \in Harts : Awake(g)' <=> Awake(g)
    BY <2>1, <2>2 DEF Awake
  <2>4. \A g \in Harts : Kicked(g) <=> g < slot[0]
    BY <2>1 DEF Kicked
  <2>5. \A g \in Harts : Kicked(g)' <=> g < slot[0] + 1
    <3>1. CASE slot[0] + 1 < MaxHarts
      BY <2>2, <3>1 DEF Kicked
    <3>2. CASE ~(slot[0] + 1 < MaxHarts)
      <4>1. \A g \in Harts : Kicked(g)'
        BY <2>2, <3>2 DEF Kicked
      <4>2. \A g \in Harts : g < slot[0] + 1
        BY <2>1, <3>2, NumHartsAssumption, MaxHartsAssumption
      <4> QED BY <4>1, <4>2
    <3> QED BY <3>1, <3>2
  <2>6. \A g \in Harts : msip'[g] = IF g = slot[0] THEN 1 ELSE msip[g]
    BY <1>1, <1>4, <2>1 DEF Types, Kick
  <2>7. slot[0] \in Harts => ~Awake(slot[0])
    BY <1>1, <2>4, <2>1 DEF WokenMeansKicked, Awake
  <2>8. \A g \in Harts : g < slot[0] + 1 <=> g < slot[0] \/ g = slot[0]
    BY <2>1
  <2>9. PendingMeansKicked'
    BY <1>1, <2>3, <2>4, <2>5, <2>6, <2>7, <2>8 DEF PendingMeansKicked
  <2>10. WokenMeansKicked'
    BY <1>1, <2>2, <2>4, <2>5, <2>8 DEF WokenMeansKicked
  <2>11. ScannedMeansAwake'
    BY <1>1, <2>2, <2>3 DEF ScannedMeansAwake
  <2> QED BY <2>9, <2>10, <2>11 DEF BarrierInv
<1>5. CASE Wake(h)
  <2>1. /\ pc[h] = "sleep" /\ pc'[h] = "ack" /\ msip[h] = 1
        /\ \A g \in Harts \ {h} : pc'[g] = pc[g]
    BY <1>1, <1>5 DEF Types, Wake, Goto
  <2>2. UNCHANGED <<slot, msip>>
    BY <1>5 DEF Wake
  <2>3. \A g \in Harts : Awake(g)' <=> Awake(g)
    BY <2>1 DEF Awake
  <2>4. \A g \in Harts : Kicked(g)' <=> Kicked(g)
    BY <2>1, <2>2 DEF Kicked
  <2>5. Kicked(h)
    BY <1>1, <2>1 DEF PendingMeansKicked
  <2> QED
    BY <1>1, <2>1, <2>2, <2>3, <2>4, <2>5
    DEF BarrierInv, PendingMeansKicked, WokenMeansKicked, ScannedMeansAwake
<1>6. CASE Acknowledge(h)
  <2>1. /\ pc[h] = "ack" /\ pc'[h] = "scan" /\ slot'[h] = 0
        /\ \A g \in Harts \ {h} : pc'[g] = pc[g] /\ slot'[g] = slot[g]
    BY <1>1, <1>6 DEF Types, Acknowledge, Goto
  <2>2. \A g \in Harts : msip'[g] = IF g = h THEN 0 ELSE msip[g]
    BY <1>1, <1>6 DEF Types, Acknowledge
  <2>3. \A g \in Harts : Awake(g)' <=> Awake(g) \/ g = h
    BY <2>1 DEF Awake
  <2>4. \A g \in Harts : Kicked(g)' <=> Kicked(g)
    BY <2>1 DEF Kicked
  <2>5. PendingMeansKicked' /\ WokenMeansKicked'
    BY <1>1, <2>1, <2>2, <2>3, <2>4
    DEF PendingMeansKicked, WokenMeansKicked
  <2>6. ScannedMeansAwake'
    BY <1>1, <2>1, <2>3 DEF ScannedMeansAwake
  <2> QED BY <2>5, <2>6 DEF BarrierInv
<1>7. CASE Scan(h)
  <2>1. slot[h] \in Nat /\ slot'[h] = slot[h] + 1 /\ pc[h] = "scan"
    BY <1>1, <1>7 DEF Types, Scan
  <2>2. /\ pc'[h] = IF slot[h] + 1 < MaxHarts THEN "scan" ELSE "work"
        /\ \A g \in Harts \ {h} : pc'[g] = pc[g] /\ slot'[g] = slot[g]
        /\ msip' = msip
    BY <1>1, <1>7 DEF Types, Scan, Goto
  <2>3. \A g \in Harts : Awake(g)' <=> Awake(g)
    BY <2>1, <2>2 DEF Awake
  <2>4. \A g \in Harts : Kicked(g)' <=> Kicked(g)
    BY <2>1, <2>2 DEF Kicked
  <2>5. PendingMeansKicked' /\ WokenMeansKicked'
    BY <1>1, <2>1, <2>2, <2>3, <2>4 DEF PendingMeansKicked, WokenMeansKicked
  <2>6. slot[h] \in Harts => Awake(slot[h])
    BY <1>7, <2>1, ClearSlotMeansAwake DEF Scan
  <2>7. \A g \in Harts : g < slot[h] + 1 => Awake(g)
    BY <1>1, <2>1, <2>6 DEF ScannedMeansAwake
  <2>8. pc'[h] = "work" => \A g \in Harts : g < slot[h] + 1
    BY <2>1, <2>2, NumHartsAssumption, MaxHartsAssumption
  <2>9. ScannedMeansAwake'
    <3> SUFFICES ASSUME NEW k \in Harts, NEW g \in Harts,
                        pc'[k] = "work" \/ (pc'[k] = "scan" /\ g < slot'[k])
                 PROVE  Awake(g)
      BY <2>3 DEF ScannedMeansAwake
    <3>1. CASE k = h
      BY <3>1, <2>1, <2>7, <2>8
    <3>2. CASE k # h
      BY <1>1, <3>2, <2>2 DEF ScannedMeansAwake
    <3> QED BY <3>1, <3>2
  <2> QED BY <2>5, <2>9 DEF BarrierInv
<1> QED BY <1>2, <1>3, <1>4, <1>5, <1>6, <1>7

-----------------------------------------------------------------------------
(***************************************************************************)
(* The whole invariant.                                                    *)
(***************************************************************************)

\* A hart in C code has everybody awake and the memory ready.
LEMMA InCodeMeansReady ==
    ASSUME BarrierInv, SetupInv, NEW h \in Harts, pc[h] = "work"
    PROVE  MemoryReady /\ pc[0] \in {"scan", "work"}
<1>1. pc[0] \in {"scan", "work"}
  BY HartZero DEF BarrierInv, ScannedMeansAwake, Awake
<1> QED BY <1>1 DEF SetupInv

\* What no barrier step touches keeps what is said of it.
LEMMA BarrierStepKeepsCode ==
    ASSUME BootTypeOK, BarrierInv, Roles', SetupInv, LockInv, NEW h \in Harts,
           PassBarrier(h) \/ EndOfSetup
    PROVE  BarrierInv' /\ SetupInv' /\ LockInv'
<1> USE HartZero DEF BootTypeOK, BarrierTypeOK
<1>1. UNCHANGED <<copied, cleared, lock, at, tty>>
  BY DEF PassBarrier, EndOfSetup, appVars
<1>2. LockInv'
  BY <1>1 DEF LockInv, MutualExclusion
<1>3. BarrierInv'
  BY BarrierStepKeepsInv DEF PassBarrier, EndOfSetup
<1>4. \A g \in Harts : pc[g] = "work" => pc'[g] = "work"
  BY DEF PassBarrier, EndOfSetup, Pause, Kick, Wake, Acknowledge, Scan, Resume,
         Goto
<1>5. pc'[0] \notin {"pause", "alone"} => MemoryReady
  BY DEF PassBarrier, EndOfSetup, Pause, Kick, Wake, Acknowledge, Scan, Resume,
         Goto, SetupInv
<1>6. SetupInv'
  BY <1>1, <1>4, <1>5 DEF SetupInv, MemoryReady
<1> QED BY <1>2, <1>3, <1>6

\* Hart 0's setup loops: nobody is in C code yet, so clearing the lock's word
\* takes it from nobody.
LEMMA SetupStepKeepsCode ==
    ASSUME BootTypeOK, BarrierInv, SetupInv, LockInv, CopyWord \/ ClearWord
    PROVE  BarrierInv' /\ SetupInv' /\ LockInv'
<1> USE HartZero DEF BootTypeOK, BarrierTypeOK
<1>1. UNCHANGED <<pc, slot, msip, round, at, tty>> /\ pc[0] = "alone"
  BY DEF CopyWord, ClearWord, barrierVars, appVars
<1>2. \A h \in Harts : at[h] = "start"
  BY <1>1, InCodeMeansReady DEF SetupInv
<1>3. BarrierInv'
  BY <1>1
  DEF BarrierInv, Roles, PendingMeansKicked, WokenMeansKicked,
      ScannedMeansAwake, Kicked, Awake
<1>4. SetupInv' /\ LockInv'
  BY <1>1, <1>2 DEF SetupInv, LockInv, MutualExclusion, Holding
<1> QED BY <1>3, <1>4

\* The steps of secondary_main.
LEMMA CodeStepKeepsCode ==
    ASSUME BootTypeOK, BarrierInv, SetupInv, LockInv, NEW h \in Harts,
           \/ EnterMain(h)
           \/ GetLock(h)
           \/ WriteText(h)
           \/ WriteDigit(h)
           \/ PutLock(h)
           \/ Delay(h)
    PROVE  BarrierInv' /\ SetupInv' /\ LockInv'
<1> USE DEF BootTypeOK
<1>1. UNCHANGED <<pc, slot, msip, round, copied, cleared>>
  BY DEF EnterMain, GetLock, WriteText, WriteDigit, PutLock, Delay, barrierVars
<1>2. BarrierInv'
  BY <1>1
  DEF BarrierInv, Roles, PendingMeansKicked, WokenMeansKicked,
      ScannedMeansAwake, Kicked, Awake
<1>3. SetupInv'
  BY <1>1
  DEF SetupInv, MemoryReady, EnterMain, GetLock, WriteText, WriteDigit, PutLock,
      Delay, At
<1>4. LockInv'
  <2> USE DEF At, Holding, CodePlaces, MutualExclusion
  <2>1. CASE EnterMain(h)
    BY <2>1 DEF LockInv, EnterMain
  <2>2. CASE GetLock(h)
    BY <2>2 DEF LockInv, GetLock
  <2>3. CASE WriteText(h)
    BY <2>3 DEF LockInv, WriteText
  <2>4. CASE WriteDigit(h)
    BY <2>4 DEF LockInv, WriteDigit
  <2>5. CASE PutLock(h)
    BY <2>5 DEF LockInv, PutLock
  <2>6. CASE Delay(h)
    BY <2>6 DEF LockInv, Delay
  <2> QED BY <2>1, <2>2, <2>3, <2>4, <2>5, <2>6
<1> QED BY <1>2, <1>3, <1>4

\* The invariant holds at reset.
LEMMA BootInvInit == BootInit => BootInv
<1> SUFFICES ASSUME BootInit PROVE BootInv
  OBVIOUS
<1>1. BootTypeOK /\ Roles
  BY TypesAndRolesInit
<1>2. PendingMeansKicked /\ WokenMeansKicked /\ ScannedMeansAwake
  BY HartZero
  DEF BootInit, BarrierInit, PendingMeansKicked, WokenMeansKicked,
      ScannedMeansAwake, Kicked, Awake
<1>3. SetupInv /\ LockInv
  BY HartZero
  DEF BootInit, BarrierInit, SetupInv, LockInv, MutualExclusion, Holding
<1> QED BY <1>1, <1>2, <1>3 DEF BootInv, BarrierInv

\* Every step of every hart keeps the invariant.
LEMMA BootInvStep == BootInv /\ [BootNext]_bootVars => BootInv'
<1> SUFFICES ASSUME BootInv, [BootNext]_bootVars PROVE BootInv'
  OBVIOUS
<1> USE DEF BootInv
<1>1. BootTypeOK' /\ Roles'
  BY TypesAndRolesStep DEF BarrierInv
<1>2. CASE BootNext
  BY <1>1, <1>2, BarrierStepKeepsCode, SetupStepKeepsCode, CodeStepKeepsCode
  DEF BootNext, HartStep
<1>3. CASE UNCHANGED bootVars
  BY <1>1, <1>3
  DEF bootVars, BarrierInv, PendingMeansKicked, WokenMeansKicked,
      ScannedMeansAwake, Kicked, Awake, SetupInv, MemoryReady, LockInv,
      MutualExclusion
<1> QED BY <1>2, <1>3

\* BootInv holds in every reachable state.
THEOREM BootInvariant == BootSpec => []BootInv
BY BootInvInit, BootInvStep, PTL DEF BootSpec

-----------------------------------------------------------------------------
(***************************************************************************)
(* The properties the runs check.                                          *)
(***************************************************************************)

\* smp_resume is a barrier, for any number of harts and slots.
THEOREM BarrierHolds == BootSpec => []NobodyLeavesEarly
<1>1. BootInv => NobodyLeavesEarly
  BY DEF BootInv, BarrierInv, ScannedMeansAwake, NobodyLeavesEarly
<1> QED BY <1>1, BootInvariant, PTL

\* C code runs on initialised memory only.
THEOREM MemoryIsReady == BootSpec => []MemoryReadyBeforeMain
<1>1. BootInv => MemoryReadyBeforeMain
  BY InCodeMeansReady DEF BootInv, SetupInv, MemoryReadyBeforeMain
<1> QED BY <1>1, BootInvariant, PTL

\* tty_lock excludes, whatever the RAM held at reset.
THEOREM LockExcludes == BootSpec => []MutualExclusion
<1>1. BootInv => MutualExclusion
  BY DEF BootInv, LockInv
<1> QED BY <1>1, BootInvariant, PTL

\* No line is broken into by another hart.
THEOREM LinesStayWhole == BootSpec => WholeLines
<1>1. ASSUME BootInv, [BootNext]_bootVars, tty' # tty
      PROVE  LineOrder
  <2>1. PICK h \in Harts : WriteText(h) \/ WriteDigit(h)
    BY <1>1
    DEF BootNext, HartStep, CopyWord, ClearWord, EndOfSetup, PassBarrier,
        EnterMain, GetLock, PutLock, Delay, appVars, bootVars
  <2>2. CASE WriteText(h)
    <3>1. \A g \in Harts : at[g] # "digit"
      BY <1>1, <2>2 DEF WriteText, BootInv, LockInv, MutualExclusion, Holding
    <3> QED BY <1>1, <2>2, <3>1 DEF WriteText, BootInv, LockInv, LineOrder
  <2>3. CASE WriteDigit(h)
    BY <1>1, <2>3 DEF WriteDigit, BootInv, LockInv, LineOrder
  <2> QED BY <2>1, <2>2, <2>3
<1>2. BootInv /\ [BootNext]_bootVars => [LineOrder]_bootVars
  BY <1>1 DEF LineOrder
<1> QED BY <1>2, BootInvariant, PTL DEF BootSpec, WholeLines

-----------------------------------------------------------------------------
(***************************************************************************)
(* The refinement (its safety part; the liveness part is model-checked).   *)
(***************************************************************************)

\* Every step of a hart is a step of the gate or leaves the gate as it is.
LEMMA StepIsGateStep ==
    ASSUME BootInv, BootInv', [BootNext]_bootVars
    PROVE  [Gate!GateNext]_(Gate!gateVars)
<1> USE HartZero
    DEF Gate!GateNext, Gate!gateVars, BootInv, BootTypeOK, BarrierTypeOK
<1>1. ASSUME NEW h \in Harts, PassBarrier(h) \/ EndOfSetup
      PROVE  [Gate!GateNext]_(Gate!gateVars)
  <2>1. UNCHANGED at
    BY <1>1 DEF PassBarrier, EndOfSetup, appVars
  <2>2. CASE Pause(h) \/ Kick \/ Wake(h) \/ Scan(h)
    BY <2>1, <2>2 DEF Pause, Kick, Wake, Scan, Goto, Awake, BarrierInv, Roles
  <2>3. CASE Acknowledge(h)
    <3>1. pc[0] \notin {"pause", "alone"} /\ pc'[0] \notin {"pause", "alone"}
      BY <2>3
      DEF Acknowledge, Goto, BarrierInv, WokenMeansKicked, Kicked
    <3>2. {g \in Harts : Awake(g)'} = {g \in Harts : Awake(g)} \cup {h}
      BY <2>3 DEF Acknowledge, Goto, Awake
    <3>3. Gate!Arrive(h)
      BY <2>1, <3>1, <3>2 DEF Gate!Arrive
    <3> QED BY <3>3
  <2>4. CASE Resume
    <3>1. {g \in Harts : Awake(g)'} = {g \in Harts : Awake(g)}
      BY <2>4 DEF Resume, Goto, Awake
    <3>2. Gate!Prepare
      BY <2>1, <2>4, <3>1 DEF Gate!Prepare, Resume, Goto
    <3> QED BY <3>2
  <2> QED BY <1>1, <2>2, <2>3, <2>4 DEF PassBarrier, EndOfSetup
<1>2. ASSUME CopyWord \/ ClearWord \/ UNCHANGED bootVars
      PROVE  UNCHANGED Gate!gateVars
  BY <1>2 DEF CopyWord, ClearWord, bootVars, barrierVars, appVars, Awake
<1>3. ASSUME NEW h \in Harts,
             \/ EnterMain(h)
             \/ GetLock(h)
             \/ WriteText(h)
             \/ WriteDigit(h)
             \/ PutLock(h)
             \/ Delay(h)
      PROVE  [Gate!GateNext]_(Gate!gateVars)
  <2> USE DEF At, Holding, CodePlaces
  <2>1. UNCHANGED <<pc, slot, msip, round>>
    BY <1>3
    DEF EnterMain, GetLock, WriteText, WriteDigit, PutLock, Delay, barrierVars
  <2>2. CASE EnterMain(h)
    <3>1. {g \in Harts : Awake(g)} = Harts
      BY <2>2 DEF EnterMain, BarrierInv, ScannedMeansAwake
    <3>2. Gate!Start(h)
      BY <2>1, <2>2, <3>1 DEF Gate!Start, EnterMain, Awake
    <3> QED BY <3>2
  <2>3. CASE GetLock(h)
    <3>1. CASE lock = 1
      BY <2>1, <2>3, <3>1 DEF GetLock, Awake
    <3>2. CASE lock # 1
      <4>1. \A g \in Harts : at[g] \notin Holding
        BY <3>2 DEF LockInv
      <4>2. Gate!TakeTurn(h)
        BY <2>1, <2>3, <3>2, <4>1 DEF Gate!TakeTurn, GetLock, Awake
      <4> QED BY <4>2
    <3> QED BY <3>1, <3>2
  <2>4. CASE PutLock(h)
    <3>1. {g \in Harts : at[g] \in Holding} = {h}
      BY <2>4 DEF PutLock, LockInv, MutualExclusion
    <3>2. Gate!EndTurn(h)
      BY <2>1, <2>4, <3>1 DEF Gate!EndTurn, PutLock, Awake
    <3> QED BY <3>2
  <2>5. CASE WriteText(h) \/ WriteDigit(h) \/ Delay(h)
    BY <2>1, <2>5 DEF WriteText, WriteDigit, Delay, Awake
  <2> QED BY <1>3, <2>2, <2>3, <2>4, <2>5
<1> QED BY <1>1, <1>2, <1>3 DEF BootNext, HartStep

\* start.S and smp.c never do what the gate forbids.
THEOREM BootImplementsGate == BootSpec => Gate!GateSafety
<1>1. BootInit => Gate!GateInit
  BY HartZero
  DEF BootInit, BarrierInit, Gate!GateInit, Awake, Holding
<1>2. BootInv /\ BootInv' /\ [BootNext]_bootVars
      => [Gate!GateNext]_(Gate!gateVars)
  BY StepIsGateStep
<1> QED BY <1>1, <1>2, BootInvariant, PTL DEF BootSpec, Gate!GateSafety

=============================================================================
