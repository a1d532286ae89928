------------------------- MODULE AmpCallers_proofs --------------------------
(***************************************************************************)
(* What the callers of one amplifier may rely on over several calls, for   *)
(* every container, number of retries and of failing bus accesses: the     *)
(* divided PLL clock is temporary, an ASoC amp plays only while DAPM has   *)
(* its widget powered, and the core driver under the HDA layer implements  *)
(* AmpContract step by step as long as no more than two bus accesses fail. *)
(* (That calls end is liveness, and left to TLC.)                          *)
(***************************************************************************)
EXTENDS Aw88399Amp_proofs

-----------------------------------------------------------------------------
(* The divided clock of the second PLL check.                              *)

\* A step that leaves bit cco as it is, as to its value and as to the driver's
\* knowledge of it.
CcoSame == reg'["cco"] = reg["cco"] /\ ("cco" \in lost' <=> "cco" \in lost)

Divided == reg["cco"] = 0 /\ "cco" \notin lost
CcoKept == Divided => pc \in {"mode2_poll", "mode2_back"}
PllBypassed == ResetRegs["cco"] = 1 /\ \A p \in Profiles : RegData[p]["cco"] = 1

\* A write to another bit leaves it alone.
LEMMA WriteCcoSame ==
    ASSUME TypeOK, NEW f \in Fields \ {"cco"}, NEW v \in Bits, Write(f, v)
    PROVE  CcoSame
  BY WriteEffect DEF CcoSame, Fields

\* The list divides the clock in no container that bypasses the PLL divider.
LEMMA WrittenCco ==
    ASSUME TypeOK, PllBypassed, NEW k \in 0..6
    PROVE  Written(k)["cco"] = (IF k = 6 THEN 1 ELSE reg["cco"])
  <1>1. prof_index \in Profiles BY DEF TypeOK, DataTypeOK
  <1>2. Rank["cco"] = 6 BY DEF Rank, Fields
  <1>3. Listed(prof_index)["cco"] = 1 BY <1>1 DEF Listed, Fields, PllBypassed
  <1> QED BY <1>2, <1>3 DEF Written, Fields

\* The steps of fw_update: the list sets the bit last, the rest is not about it.
LEMMA FwUpdateCco ==
    ASSUME IInv, PllBypassed, CcoKept, FwUpdateStep
    PROVE  CcoKept'
<1> USE DEF CcoKept, Divided
<1> TypeOK
  BY DEF IInv
<1>1. CASE RegUpdate
  <2>1. CASE reg' = Written(6) /\ lost' = {}
    BY <2>1, WrittenCco
  <2>2. ASSUME NEW k \in 0..5, reg' = Written(k), lost' = {f \in lost : Rank[f] > k}
        PROVE  CcoKept'
    <3>1. reg'["cco"] = reg["cco"]
      BY <2>2, WrittenCco
    <3>2. "cco" \in lost => "cco" \in lost'
      BY <2>2 DEF Rank, Fields
    <3> QED
      BY <1>1, <3>1, <3>2 DEF RegUpdate
  <2> QED
    BY <1>1, <2>1, <2>2 DEF RegUpdate
<1>2. CASE RegPwd \/ FwMute \/ FwBypass \/ FwOsc \/ CheckSram \/ UpFw \/ UpCfg \/ FwDone \/ FwError
  <2>1. CcoSame
    BY <1>2, WriteCcoSame DEF RegPwd, FwMute, FwBypass, FwOsc, CheckSram, UpFw, UpCfg, FwDone,
                              FwError, Set, Load, Bits, Fields, CcoSame
  <2>2. pc \notin {"mode2_poll", "mode2_back"}
    BY <1>2 DEF RegPwd, FwMute, FwBypass, FwOsc, CheckSram, UpFw, UpCfg, FwDone, FwError, Set, Load
  <2> QED
    BY <2>1, <2>2 DEF CcoSame
<1> QED
  BY <1>1, <1>2 DEF FwUpdateStep

\* The start: check_mode2_pll divides the clock for one poll.
LEMMA StartCco ==
    ASSUME IInv, CcoKept, StartStep
    PROVE  CcoKept'
<1> USE DEF CcoKept, Divided
<1> TypeOK
  BY DEF IInv
<1>1. CASE PllStep
  <2>1. CASE Mode2
    BY <2>1 DEF Mode2, TrySet, Check
  <2>2. CASE Mode2Poll
    BY <2>2 DEF Mode2Poll, chip
  <2>3. CASE Mode2Back
    BY <2>3, WriteEffect DEF Mode2Back, Set, Bits, Fields
  <2>4. CASE Mode1 \/ Mode2Again
    BY <2>4 DEF Mode1, Mode2Again, Check
  <2> QED
    BY <1>1, <2>1, <2>2, <2>3, <2>4 DEF PllStep
<1>2. CASE CrcStep
  <2>1. pc \notin {"mode2_poll", "mode2_back"}
    BY <1>2 DEF CrcStep, CrcCg, FwCrc, FwCrcOff, CfgCrc, CfgCrcOff, CrcEnd, CrcDone, CrcFail,
                Set, TrySet
  <2>2. CASE CrcFail
    <3>1. CcoSame
      BY <2>2, WriteCcoSame DEF CrcFail, Set, Bits, Fields
    <3> QED
      BY <2>1, <3>1 DEF CcoSame
  <2>3. CASE CrcCg \/ FwCrc \/ FwCrcOff \/ CfgCrc \/ CfgCrcOff \/ CrcEnd \/ CrcDone
    <3>1. CcoSame
      BY <2>3 DEF CrcCg, FwCrc, FwCrcOff, CfgCrc, CfgCrcOff, CrcEnd, CrcDone, TrySet, CcoSame,
                  TypeOK, DataTypeOK, Fields
    <3> QED
      BY <2>1, <3>1 DEF CcoSame
  <2> QED
    BY <1>2, <2>2, <2>3 DEF CrcStep
<1>3. CASE DevStart \/ Amppd \/ DspPrep \/ DspOff \/ DspOn \/ TxOn \/ Unmute
           \/ FailBypass \/ FailAmppd \/ FailPwd
  <2>1. CcoSame
    BY <1>3, WriteCcoSame DEF DevStart, Amppd, DspPrep, DspOff, DspOn, TxOn, Unmute, FailBypass,
                              FailAmppd, FailPwd, Set, Bits, Fields
  <2>2. pc \notin {"mode2_poll", "mode2_back"}
    BY <1>3 DEF DevStart, Amppd, DspPrep, DspOff, DspOn, TxOn, Unmute, FailBypass, FailAmppd,
                FailPwd, Set
  <2> QED
    BY <2>1, <2>2 DEF CcoSame
<1>4. CASE Start \/ Sysst \/ Wdt \/ Started \/ FailInt
  BY <1>4 DEF Start, Sysst, Wdt, Started, FailInt, Check, chip
<1> QED
  BY <1>1, <1>2, <1>3, <1>4 DEF StartStep

\* dev_init, the stop and the calls are not about it; a reset bypasses the PLL.
LEMMA OtherCco ==
    ASSUME IInv, PllBypassed, CcoKept, InitStep \/ StopStep \/ Calls \/ Clock \/ UNCHANGED vars
    PROVE  CcoKept'
<1> USE DEF CcoKept, Divided
<1> TypeOK
  BY DEF IInv
<1>1. CASE InitStep
  <2>1. CcoSame
    BY <1>1, WriteCcoSame DEF InitStep, InitMute, InitTx, InitAmppd, InitBypass, InitPwd, Set,
                              Bits, Fields
  <2>2. pc \notin {"mode2_poll", "mode2_back"}
    BY <1>1 DEF InitStep, InitMute, InitTx, InitAmppd, InitBypass, InitPwd, Set
  <2> QED
    BY <2>1, <2>2 DEF CcoSame
<1>2. CASE StopStep
  <2>1. CASE StMute \/ StTx \/ StBypass \/ StAmppd \/ StOsc \/ StPll \/ StPwd
    <3>1. CcoSame
      BY <2>1, WriteCcoSame DEF StMute, StTx, StBypass, StAmppd, StOsc, StPll, StPwd, Set, Bits,
                                Fields
    <3>2. pc \notin {"mode2_poll", "mode2_back"}
      BY <2>1 DEF StMute, StTx, StBypass, StAmppd, StOsc, StPll, StPwd, Set
    <3> QED
      BY <3>1, <3>2 DEF CcoSame
  <2>2. CASE Stop \/ StInt \/ StFw \/ StCfg
    BY <2>2 DEF Stop, StInt, StFw, StCfg, Load, chip
  <2> QED
    BY <1>2, <2>1, <2>2 DEF StopStep
<1>3. CASE HdaReset
  BY <1>3 DEF HdaReset, PllBypassed
<1>4. CASE Calls /\ ~HdaReset
  BY <1>4 DEF Calls, RequestFirmware, HdaPrepare, HdaCleanup, PlaybackPreUp, PlaybackPostDown,
              ProfileSet, StartupWork, Call, chip
<1>5. CASE Clock \/ UNCHANGED vars
  BY <1>5 DEF Clock, vars, chip
<1> QED
  BY <1>1, <1>2, <1>3, <1>4, <1>5

\* check_mode2_pll: every path out of the poll on the divided clock gives the
\* PLL its bypass back, if that is how the container and the chip have it.
THEOREM CcoCorrect == Spec => []CcoRestored
<1>1. CASE PllBypassed
  <2>1. Init => CcoKept
    BY <1>1 DEF Init, PllBypassed, CcoKept, Divided
  <2>2. IInv /\ CcoKept /\ [Next]_vars => CcoKept'
    BY <1>1, FwUpdateCco, StartCco, OtherCco DEF Next, Step
  <2>3. CcoKept => CcoRestored
    BY DEF CcoKept, Divided, CcoRestored
  <2> QED
    BY <2>1, <2>2, <2>3, InvariantHolds, PTL DEF Spec
<1>2. CASE ~PllBypassed
  <2>1. CcoRestored
    BY <1>2 DEF PllBypassed, CcoRestored
  <2> QED
    BY <2>1, PTL
<1> QED
  BY <1>1, <1>2

-----------------------------------------------------------------------------
(* DAPM.                                                                   *)

\* A start is under way, or pending, or was made, only for a powered widget.
PlayInv ==
    /\ queued => dapm
    /\ restart => dapm /\ pc \in StopSteps
    /\ pc \in StartSteps => dapm
    /\ pc \in UpdateSteps => dapm \/ caller = "init"
    /\ status = "PW_ON" => dapm \/ pc = "stop"

\* What PlayInv speaks of, but for pc and caller.
Players == <<queued, restart, dapm, status>>

\* The firmware update returns to a start, for which the widget was powered,
\* or queues the start work of one.
LEMMA FwUpdatePlay ==
    ASSUME IInv, PlayInv, FwUpdateStep
    PROVE  PlayInv'
<1> USE DEF UpdateSteps, InitSteps, StartSteps, StopSteps, PllSteps, CrcSteps
<1>1. CASE RegUpdate \/ FwDone \/ FwError
  <2>1. /\ pc \in UpdateSteps /\ UNCHANGED status
        /\ \/ pc' \in UpdateSteps /\ UNCHANGED <<frame, clients>>
           \/ \E ok \in BOOLEAN : FwReturn(ok)
    BY <1>1 DEF RegUpdate, FwDone, FwError, dev
  <2>2. CASE pc' \in UpdateSteps /\ UNCHANGED <<frame, clients>>
    BY <2>1, <2>2 DEF PlayInv, frame, clients
  <2>3. ASSUME NEW ok \in BOOLEAN, FwReturn(ok)
        PROVE  PlayInv'
    <3>1. /\ pc' \in {"init_mute", "idle", "dev_start"} /\ caller' = caller
          /\ pc' = "dev_start" => caller # "init"
          /\ queued' => queued \/ caller = "async"
          /\ UNCHANGED <<restart, dapm>>
      <4>1. caller \in {"init", "sync", "async", "retry"}
        BY DEF IInv, TypeOK, DataTypeOK
      <4>2. queued' => queued \/ caller = "async"
        BY <2>3 DEF FwReturn
      <4> QED
        BY <2>1, <2>3, <4>1, <4>2, FwReturnType DEF FwReturn
    <3> QED
      BY <2>1, <3>1 DEF PlayInv
  <2> QED
    BY <2>1, <2>2, <2>3
<1>2. CASE RegPwd \/ FwMute \/ FwBypass \/ FwOsc \/ CheckSram \/ UpFw \/ UpCfg
  <2>1. pc \in UpdateSteps /\ pc' \in UpdateSteps /\ UNCHANGED <<Players, caller>>
    BY <1>2 DEF RegPwd, FwMute, FwBypass, FwOsc, CheckSram, UpFw, UpCfg, Set, Load, Rest, dev,
                frame, clients, Players
  <2> QED
    BY <2>1 DEF PlayInv, Players
<1> QED
  BY <1>1, <1>2 DEF FwUpdateStep

\* A start goes on under the widget that asked for it, its retries included.
LEMMA StartPlay ==
    ASSUME IInv, PlayInv, StartStep
    PROVE  PlayInv'
<1> USE DEF UpdateSteps, InitSteps, StartSteps, StopSteps, PllSteps, CrcSteps
<1>1. /\ pc \in StartSteps
      /\ pc' \in StartSteps \cup UpdateSteps \cup {"idle"}
  <2>1. CASE PllStep
    BY <2>1 DEF PllStep, Mode1, Mode2, Mode2Poll, Mode2Back, Mode2Again, Set, TrySet, Check
  <2>2. CASE CrcStep
    BY <2>2 DEF CrcStep, CrcCg, FwCrc, FwCrcOff, CfgCrc, CfgCrcOff, CrcEnd, CrcDone, CrcFail,
                Set, TrySet
  <2>3. CASE ~PllStep /\ ~CrcStep
    BY <2>3 DEF StartStep, DevStart, Amppd, DspPrep, DspOff, DspOn, TxOn, Unmute, FailBypass,
                FailAmppd, Start, Sysst, Wdt, Started, FailInt, FailPwd, Set, Check
  <2> QED
    BY <2>1, <2>2, <2>3
<1>2. /\ UNCHANGED <<queued, restart, dapm>>
      /\ status' = status \/ pc = "started" \/ (pc = "f_pwd" /\ status' = "PW_OFF")
  <2>1. CASE PllStep
    BY <2>1 DEF PllStep, Mode1, Mode2, Mode2Poll, Mode2Back, Mode2Again, Set, TrySet, Check,
                Rest, dev, chip, frame, clients
  <2>2. CASE CrcStep
    BY <2>2 DEF CrcStep, CrcCg, FwCrc, FwCrcOff, CfgCrc, CfgCrcOff, CrcEnd, CrcDone, CrcFail,
                Set, TrySet, Rest, dev, chip, frame, clients
  <2>3. CASE ~PllStep /\ ~CrcStep
    BY <2>3 DEF StartStep, DevStart, Amppd, DspPrep, DspOff, DspOn, TxOn, Unmute, FailBypass,
                FailAmppd, Start, Sysst, Wdt, Started, FailInt, FailPwd, Set, Check, Rest, dev,
                chip, frame, clients
  <2> QED
    BY <2>1, <2>2, <2>3
<1>3. dapm /\ ~restart
  BY <1>1 DEF PlayInv
<1> QED
  BY <1>1, <1>2, <1>3 DEF PlayInv

\* A stop ends a sound, and starts again only for a profile of a playing amp.
LEMMA StopPlay ==
    ASSUME IInv, PlayInv, StopStep
    PROVE  PlayInv'
<1> USE DEF UpdateSteps, InitSteps, StartSteps, StopSteps, PllSteps, CrcSteps
<1>0. status \in {"PW_OFF", "PW_ON"}
  BY DEF IInv, TypeOK, DataTypeOK
<1>1. CASE Stop
  <2>1. pc = "stop" /\ UNCHANGED <<queued, dapm>> /\ status' = "PW_OFF"
    BY <1>0, <1>1 DEF Stop, StopReturn, clients
  <2>2. \/ pc' = "st_mute" /\ UNCHANGED restart
        \/ restart /\ pc' = "start" /\ ~restart'
        \/ pc' = "idle" /\ ~restart'
    BY <1>1 DEF Stop, StopReturn, clients
  <2> QED
    BY <2>1, <2>2 DEF PlayInv
<1>2. CASE StPwd
  <2>1. pc = "st_pwd" /\ UNCHANGED <<queued, dapm, status>>
    BY <1>2 DEF StPwd, StopReturn, dev
  <2>2. (restart /\ pc' = "start" /\ ~restart') \/ (pc' = "idle" /\ ~restart')
    BY <1>2 DEF StPwd, StopReturn
  <2> QED
    BY <2>1, <2>2 DEF PlayInv
<1>3. CASE StMute \/ StTx \/ StInt \/ StBypass \/ StAmppd \/ StOsc \/ StFw \/ StCfg \/ StPll
  <2>1. pc \in StopSteps \ {"stop"} /\ pc' \in StopSteps /\ UNCHANGED Players
    BY <1>3 DEF StMute, StTx, StInt, StBypass, StAmppd, StOsc, StFw, StCfg, StPll, Set, Load,
                Rest, dev, frame, clients, Players
  <2> QED
    BY <2>1 DEF PlayInv, Players
<1> QED
  BY <1>1, <1>2, <1>3 DEF StopStep

\* Initialisation, the calls of the ASoC layer and the clock.
LEMMA OtherPlay ==
    ASSUME IInv, PlayInv, Client = "asoc", InitStep \/ Calls \/ Clock \/ UNCHANGED vars
    PROVE  PlayInv'
<1> USE DEF UpdateSteps, InitSteps, StartSteps, StopSteps, PllSteps, CrcSteps
<1>1. CASE InitStep
  <2>1. pc \in InitSteps /\ pc' \in InitSteps \cup {"idle"} /\ UNCHANGED Players
    BY <1>1 DEF InitStep, InitMute, InitTx, InitAmppd, InitBypass, InitPwd, Set, Rest, dev,
                frame, clients, Players
  <2> QED
    BY <2>1 DEF PlayInv, Players
<1>2. CASE RequestFirmware
  <2>1. UNCHANGED Players
    BY <1>2 DEF RequestFirmware, Players, dev, chip
  <2>2. pc = "idle" /\ (pc' = "idle" \/ (pc' = "reg" /\ caller' = "init"))
    BY <1>2 DEF RequestFirmware, chip
  <2> QED
    BY <2>1, <2>2 DEF PlayInv, Players
<1>3. CASE PlaybackPreUp
  BY <1>3 DEF PlaybackPreUp, Call, PlayInv
<1>4. CASE PlaybackPostDown
  BY <1>4 DEF PlaybackPostDown, Call, PlayInv
<1>5. CASE ProfileSet
  BY <1>5 DEF ProfileSet, Call, PlayInv
<1>6. CASE StartupWork
  BY <1>6 DEF StartupWork, PlayInv, dev
<1>7. CASE Clock \/ UNCHANGED vars
  BY <1>7 DEF Clock, vars, dev, frame, clients, PlayInv
<1> QED
  BY <1>1, <1>2, <1>3, <1>4, <1>5, <1>6, <1>7
     DEF Calls, HdaPrepare, HdaCleanup, HdaReset

\* playback_event, startup_work, profile_set: between two calls an ASoC amp is
\* on, or has its start work pending, only while DAPM has its widget powered.
THEOREM PlayCorrect == ASSUME Client = "asoc" PROVE Spec => []OnlyWhilePlaying
<1>1. Init => PlayInv
  BY DEF Init, PlayInv, StartSteps, UpdateSteps, PllSteps, CrcSteps
<1>2. IInv /\ PlayInv /\ [Next]_vars => PlayInv'
  BY FwUpdatePlay, StartPlay, StopPlay, OtherPlay DEF Next, Step
<1>3. PlayInv => OnlyWhilePlaying
  BY DEF PlayInv, OnlyWhilePlaying
<1> QED
  BY <1>1, <1>2, <1>3, InvariantHolds, PTL DEF Spec

-----------------------------------------------------------------------------
(* The contract with the HDA layer: why an amp that is off is silent.      *)

Cost(f) == IF f \in lost THEN 1 ELSE 0

\* Each of the three silencing bits the driver is wrong about took a failure.
LostCost == Cost("hmute") + Cost("amppd") + Cost("pwdn") + faults <= MaxFaults

\* The register list has muted the amp, and only the last step of a start that
\* succeeds takes that back.
MutedByList ==
    /\ pc \in (UpdateSteps \ {"reg"}) \cup InitSteps \cup (StartSteps \ {"start", "started"})
       => reg["hmute"] = 1
    /\ pc = "reg" /\ caller = "retry" => reg["hmute"] = 1

\* What the stop has written so far, or lost.
StopProgress ==
    /\ pc \in StopSteps \ {"stop", "st_mute"} => reg["hmute"] = 1 \/ "hmute" \in lost
    /\ pc \in {"st_osc", "st_fw", "st_cfg", "st_pll", "st_pwd"} =>
           reg["amppd"] = 1 \/ "amppd" \in lost

QuietWhenOff == status = "PW_OFF" /\ pc \in {"idle", "start", "stop", "reg"} => ~Audible

\* The HDA layer neither restarts an amp within a stop nor queues a start.
Synchronous == ~restart /\ ~queued

Hush == MutedByList /\ StopProgress /\ QuietWhenOff /\ Synchronous
HushInv == LostCost /\ Hush

\* An unchecked write that fails pays for the bit it loses.
LEMMA WriteCost ==
    ASSUME TypeOK, LostCost, NEW f \in Fields, NEW v \in Bits, Write(f, v)
    PROVE  LostCost'
<1>0. faults \in Nat /\ MaxFaults \in Nat
  BY BoundAssumption DEF TypeOK, DataTypeOK
<1>1. CASE lost' = lost \ {f} /\ UNCHANGED faults
  BY <1>0, <1>1 DEF LostCost, Cost
<1>2. CASE BusFault /\ lost' = lost \ {f}
  BY <1>0, <1>2 DEF LostCost, Cost, BusFault
<1>3. CASE BusFault /\ lost' = lost \cup {f}
  BY <1>0, <1>3 DEF LostCost, Cost, BusFault
<1> QED
  BY <1>1, <1>2, <1>3 DEF Write

\* No other step loses a bit or gains a failure.
LEMMA OtherCost ==
    ASSUME TypeOK, LostCost, lost' \subseteq lost, faults' \in {faults, faults - 1}
    PROVE  LostCost'
<1>0. faults \in Nat /\ MaxFaults \in Nat
  BY BoundAssumption DEF TypeOK, DataTypeOK
<1>1. /\ "hmute" \in lost' => "hmute" \in lost
      /\ "amppd" \in lost' => "amppd" \in lost
      /\ "pwdn" \in lost' => "pwdn" \in lost
  OBVIOUS
<1>2. Cost("hmute")' <= Cost("hmute") /\ Cost("amppd")' <= Cost("amppd")
      /\ Cost("pwdn")' <= Cost("pwdn")
  BY <1>1 DEF Cost
<1>3. \A f \in {"hmute", "amppd", "pwdn"} : Cost(f) \in Nat /\ Cost(f)' \in Nat
  BY DEF Cost
<1> QED
  BY <1>0, <1>2, <1>3 DEF LostCost

\* Every step keeps the account.
LEMMA StepCost ==
    ASSUME IInv, LostCost, [Next]_vars
    PROVE  LostCost'
<1> DEFINE Cheaper == lost' \subseteq lost /\ faults' \in {faults, faults - 1}
<1> TypeOK
  BY DEF IInv
<1>1. CASE FwUpdateStep
  <2>1. CASE RegPwd \/ FwMute \/ FwOsc \/ FwDone \/ FwError \/ Set("fw_bypass", "dspby", 1, "fw_osc")
    BY <2>1, WriteCost DEF RegPwd, FwMute, FwOsc, FwDone, FwError, Set, Fields, Bits
  <2>2. CASE RegUpdate \/ CheckSram \/ UpFw \/ UpCfg
             \/ (FwBypass /\ ~Set("fw_bypass", "dspby", 1, "fw_osc"))
    <3>1. Cheaper
      BY <2>2 DEF RegUpdate, CheckSram, UpFw, UpCfg, FwBypass, Load, BusFault
    <3> QED
      BY <3>1, OtherCost
  <2> QED
    BY <1>1, <2>1, <2>2 DEF FwUpdateStep
<1>2. CASE InitStep
  BY <1>2, WriteCost DEF InitStep, InitMute, InitTx, InitAmppd, InitBypass, InitPwd, Set,
                         Fields, Bits
<1>3. CASE StartStep
  <2>1. CASE DevStart \/ Mode2Back \/ Amppd \/ CrcFail \/ DspPrep \/ DspOff \/ DspOn \/ TxOn
             \/ Unmute \/ FailBypass \/ FailAmppd \/ FailPwd
    BY <2>1, WriteCost DEF DevStart, Mode2Back, Amppd, CrcFail, DspPrep, DspOff, DspOn, TxOn,
                           Unmute, FailBypass, FailAmppd, FailPwd, Set, Fields, Bits
  <2>2. CASE Start \/ Mode1 \/ Mode2 \/ Mode2Poll \/ Mode2Again \/ Sysst \/ Wdt \/ Started \/ FailInt
    <3>1. Cheaper
      BY <2>2 DEF Start, Mode1, Mode2, Mode2Poll, Mode2Again, Sysst, Wdt, Started, FailInt,
                  Check, TrySet, ClearInt, BusFault, chip
    <3> QED
      BY <3>1, OtherCost
  <2>3. CASE CrcStep /\ ~CrcFail
    <3>1. Cheaper
      BY <2>3 DEF CrcStep, CrcCg, FwCrc, FwCrcOff, CfgCrc, CfgCrcOff, CrcEnd, CrcDone, TrySet,
                  BusFault
    <3> QED
      BY <3>1, OtherCost
  <2> QED
    BY <1>3, <2>1, <2>2, <2>3 DEF StartStep, PllStep, CrcStep
<1>4. CASE StopStep
  <2>1. CASE StMute \/ StTx \/ StBypass \/ StAmppd \/ StOsc \/ StPll \/ StPwd
    BY <2>1, WriteCost DEF StMute, StTx, StBypass, StAmppd, StOsc, StPll, StPwd, Set, Fields, Bits
  <2>2. CASE Stop \/ StInt \/ StFw \/ StCfg
    <3>1. Cheaper
      BY <2>2 DEF Stop, StInt, StFw, StCfg, Load, BusFault, chip
    <3> QED
      BY <3>1, OtherCost
  <2> QED
    BY <1>4, <2>1, <2>2 DEF StopStep
<1>5. CASE Calls \/ Clock \/ UNCHANGED vars
  <2>1. Cheaper
    BY <1>5 DEF Calls, RequestFirmware, HdaPrepare, HdaCleanup, HdaReset, PlaybackPreUp,
                PlaybackPostDown, ProfileSet, StartupWork, Call, Clock, vars, chip
  <2> QED
    BY <2>1, OtherCost
<1> QED
  BY <1>1, <1>2, <1>3, <1>4, <1>5 DEF Next, Step

\* The two ways the register list ends.
LEMMA RegUpdateEnds ==
    ASSUME RegUpdate
    PROVE  /\ pc = "reg" /\ UNCHANGED status
           /\ \/ reg' = Written(6) /\ lost' = {} /\ pc' = "reg_pwd" /\ UNCHANGED <<frame, clients>>
              \/ \E k \in 0..5 : FwReturn(FALSE) /\ reg' = Written(k)
  BY DEF RegUpdate

\* fw_update: the list mutes, and only a list that failed at once does not.
LEMMA FwUpdateHush ==
    ASSUME IInv, Hush, Client = "hda", FwUpdateStep
    PROVE  Hush'
<1> USE DEF IInv, Hush, MutedByList, StopProgress, QuietWhenOff, Synchronous, Audible,
         UpdateSteps, InitSteps, StartSteps, StopSteps, PllSteps, CrcSteps,
         Rest, dev, chip, frame, clients
<1> TypeOK
  OBVIOUS
<1>0. caller # "async" /\ ~queued /\ ~restart
  BY DEF OnBetweenCalls
<1>1. CASE RegUpdate
  <2>1. CASE reg' = Written(6) /\ lost' = {} /\ pc' = "reg_pwd" /\ UNCHANGED <<frame, clients>>
    <3>1. Written(6)["hmute"] = 1
      BY WrittenValue
    <3> QED
      BY <1>0, <2>1, <3>1
  <2>2. ASSUME NEW k \in 0..5, FwReturn(FALSE), reg' = Written(k), pc = "reg",
               UNCHANGED status
        PROVE  Hush'
    <3>1. /\ caller' = caller /\ pc' \in {"init_mute", "idle", "dev_start"} /\ ~queued'
          /\ pc' \in {"init_mute", "dev_start"} => caller = "retry" /\ pc' = "dev_start"
      <4>1. caller \in {"init", "sync", "retry"}
        BY <1>0 DEF TypeOK, DataTypeOK
      <4>2. queued' = queued
        BY <2>2, FwReturnEffect
      <4> QED
        BY <1>0, <2>2, <4>1, <4>2, FwReturnType DEF FwReturn
    <3>2. ~restart'
      BY <1>0, <2>2 DEF FwReturn
    <3>3. reg'["hmute"] = 1 \/ \A f \in {"hmute", "pwdn", "amppd"} : reg'[f] = reg[f]
      <4>1. k = 0 => Written(k)["amppd"] = reg["amppd"]
        BY DEF Written, Rank, Fields
      <4> QED
        BY <2>2, <4>1, WrittenValue
    <3>4. reg["hmute"] = 1 => reg'["hmute"] = 1
      BY <3>3
    <3> QED
      BY <2>2, <3>1, <3>2, <3>3, <3>4
  <2> HIDE DEF Hush
  <2> QED
    BY <1>1, <2>1, <2>2, RegUpdateEnds
<1>2. CASE RegPwd
  BY <1>0, <1>2, WriteEffect DEF RegPwd, Set, Fields, Bits
<1>3. CASE FwMute
  BY <1>0, <1>3, WriteEffect DEF FwMute, Set, Write, Fields, Bits
<1>4. CASE FwBypass
  BY <1>0, <1>4, WriteEffect DEF FwBypass, Set, Fields, Bits
<1>5. CASE FwOsc
  BY <1>0, <1>5, WriteEffect DEF FwOsc, Set, Fields, Bits
<1>6. CASE CheckSram
  BY <1>0, <1>6 DEF CheckSram, UpDspFw
<1>7. CASE UpFw \/ UpCfg
  BY <1>0, <1>7 DEF UpFw, UpCfg, Load
<1>8. CASE FwDone \/ FwError
  <2>1. PICK ok \in BOOLEAN : FwReturn(ok)
    BY <1>8 DEF FwDone, FwError
  <2>2. pc \in {"fw_pll", "fw_err"} /\ Write("memclk", 1) /\ UNCHANGED status
    BY <1>8 DEF FwDone, FwError
  <2>3. pc' \in {"init_mute", "idle", "dev_start"} /\ caller' = caller
    BY <2>1, <2>2, FwReturnType
  <2>4. ~restart' /\ ~queued'
    BY <1>0, <2>1 DEF FwReturn
  <2>5. reg'["hmute"] = 1
    BY <2>2, WriteEffect DEF Fields, Bits
  <2> QED
    BY <2>3, <2>4, <2>5
<1> HIDE DEF Hush
<1> QED
  BY <1>1, <1>2, <1>3, <1>4, <1>5, <1>6, <1>7, <1>8 DEF FwUpdateStep

\* dev_start unmutes as its last write; every other step leaves the amp muted.
LEMMA StartHush ==
    ASSUME IInv, Hush, Client = "hda", StartStep
    PROVE  Hush'
<1> USE DEF IInv, Hush, MutedByList, StopProgress, QuietWhenOff, Synchronous, Audible,
         UpdateSteps, InitSteps, StartSteps, StopSteps, PllSteps, CrcSteps,
         Rest, dev, chip, frame, clients
<1> TypeOK
  OBVIOUS
<1>1. CASE PllStep
  <2>1. CASE Mode2Back
    BY <2>1, WriteEffect DEF Mode2Back, Set, Fields, Bits
  <2>2. CASE Mode2
    BY <2>2 DEF Mode2, TrySet, Check, TypeOK, DataTypeOK, Fields
  <2>3. CASE Mode1 \/ Mode2Poll \/ Mode2Again
    BY <2>3 DEF Mode1, Mode2Poll, Mode2Again, Check
  <2> HIDE DEF Hush
  <2> QED
    BY <1>1, <2>1, <2>2, <2>3 DEF PllStep
<1>2. CASE CrcFail
  BY <1>2, WriteEffect DEF CrcFail, Set, Fields, Bits
<1>3. CASE CrcStep /\ ~CrcFail
  <2>1. reg'["hmute"] = reg["hmute"]
    BY <1>3 DEF CrcStep, CrcCg, FwCrc, FwCrcOff, CfgCrc, CfgCrcOff, CrcEnd, CrcDone, TrySet,
                TypeOK, DataTypeOK, Fields
  <2>2. pc \in CrcSteps /\ pc' \in CrcSteps \cup {"dsp_prep", "f_bypass"}
    BY <1>3 DEF CrcStep, CrcCg, FwCrc, FwCrcOff, CfgCrc, CfgCrcOff, CrcEnd, CrcDone, TrySet
  <2>3. ~restart' /\ ~queued'
    BY <1>3 DEF CrcStep, CrcCg, FwCrc, FwCrcOff, CfgCrc, CfgCrcOff, CrcEnd, CrcDone, TrySet
  <2> QED
    BY <2>1, <2>2, <2>3
<1>4. CASE Start
  BY <1>4 DEF Start, OnBetweenCalls
<1>5. CASE Unmute
  <2>1. pc = "unmute" /\ pc' = "started" /\ ~restart' /\ ~queued'
    BY <1>5 DEF Unmute, Set
  <2> QED
    BY <2>1
<1>6. CASE DevStart
  BY <1>6, WriteEffect DEF DevStart, Set, Fields, Bits
<1>7. CASE Amppd \/ DspPrep \/ DspOff \/ DspOn \/ TxOn \/ FailBypass \/ FailAmppd
  BY <1>7, WriteEffect DEF Amppd, DspPrep, DspOff, DspOn, TxOn, FailBypass, FailAmppd, Set,
                           Fields, Bits
<1>8. CASE Sysst \/ Wdt \/ FailInt
  BY <1>8 DEF Sysst, Wdt, FailInt, Check
<1>9. CASE Started
  BY <1>9 DEF Started
<1>10. CASE FailPwd
  BY <1>10, WriteEffect DEF FailPwd, Fields, Bits
<1> HIDE DEF Hush
<1> QED
  BY <1>1, <1>2, <1>3, <1>4, <1>5, <1>6, <1>7, <1>8, <1>9, <1>10 DEF StartStep

\* aw88399_stop mutes, takes the amplifier down and powers off; no two lost
\* writes keep the amp audible to the end.
LEMMA StopHush ==
    ASSUME IInv, HushInv, Client = "hda", MaxFaults <= 2, StopStep
    PROVE  Hush'
<1> USE DEF IInv, HushInv, Hush, MutedByList, StopProgress, QuietWhenOff, Synchronous,
         UpdateSteps, InitSteps, StartSteps, StopSteps, PllSteps, CrcSteps,
         Rest, dev, chip, frame, clients
<1> TypeOK
  OBVIOUS
<1>1. CASE Stop
  BY <1>1 DEF Stop, StopReturn, Audible, TypeOK, DataTypeOK
<1>2. CASE StMute
  BY <1>2, WriteEffect DEF StMute, Set, Fields, Bits
<1>3. CASE StTx \/ StBypass
  BY <1>3, WriteEffect DEF StTx, StBypass, Set, Fields, Bits
<1>4. CASE StAmppd
  BY <1>4, WriteEffect DEF StAmppd, Set, Fields, Bits
<1>5. CASE StOsc \/ StPll
  BY <1>5, WriteEffect DEF StOsc, StPll, Set, Fields, Bits
<1>6. CASE StInt \/ StFw \/ StCfg
  BY <1>6 DEF StInt, StFw, StCfg, Load
<1>7. CASE StPwd
  <2>1. pc = "st_pwd" /\ pc' = "idle" /\ ~restart' /\ ~queued'
    BY <1>7 DEF StPwd, StopReturn
  <2>2. \A f \in {"hmute", "amppd", "pwdn"} : reg'[f] = 1 \/ f \in lost'
    BY <1>7, WriteEffect DEF StPwd, Fields, Bits
  <2>3. TypeOK' /\ LostCost'
    BY StopStepType, StepCost DEF Next, Step
  <2>4. ~("hmute" \in lost' /\ "amppd" \in lost' /\ "pwdn" \in lost')
    <3>1. faults' \in Nat /\ MaxFaults \in Nat
      BY <2>3, BoundAssumption DEF TypeOK, DataTypeOK
    <3>2. \A f \in {"hmute", "amppd", "pwdn"} : f \in lost' => Cost(f)' = 1
      BY DEF Cost
    <3>3. Cost("hmute")' + Cost("amppd")' + Cost("pwdn")' + faults' <= MaxFaults'
      BY <2>3 DEF LostCost
    <3> QED
      BY <3>1, <3>2, <3>3
  <2>5. ~Audible'
    BY <2>2, <2>4 DEF Audible
  <2> QED
    BY <2>1, <2>5
<1> HIDE DEF Hush
<1> QED
  BY <1>1, <1>2, <1>3, <1>4, <1>5, <1>6, <1>7 DEF StopStep

\* dev_init, the calls of the HDA layer, the reset of a silent amp, the clock.
LEMMA OtherHush ==
    ASSUME IInv, Hush, Client = "hda", InitStep \/ Calls \/ Clock \/ UNCHANGED vars
    PROVE  Hush'
<1> USE DEF IInv, Hush, MutedByList, StopProgress, QuietWhenOff, Synchronous, Audible,
         UpdateSteps, InitSteps, StartSteps, StopSteps, PllSteps, CrcSteps,
         Rest, dev, chip, frame, clients
<1> TypeOK
  OBVIOUS
<1>1. CASE InitMute \/ InitTx \/ InitAmppd \/ InitBypass
  BY <1>1, WriteEffect DEF InitMute, InitTx, InitAmppd, InitBypass, Set, Write, Fields, Bits
<1>2. CASE InitPwd
  BY <1>2, WriteEffect DEF InitPwd, Fields, Bits
<1>3. CASE RequestFirmware
  BY <1>3 DEF RequestFirmware, OnBetweenCalls
<1>4. CASE HdaPrepare \/ HdaCleanup
  BY <1>4 DEF HdaPrepare, HdaCleanup, Call
<1>5. CASE HdaReset
  BY <1>5, ResetAssumption DEF HdaReset
<1>6. CASE PlaybackPreUp \/ PlaybackPostDown \/ ProfileSet \/ StartupWork
  BY <1>6 DEF PlaybackPreUp, PlaybackPostDown, ProfileSet, StartupWork
<1>7. CASE Clock \/ UNCHANGED vars
  BY <1>7 DEF Clock, vars
<1> HIDE DEF Hush
<1> QED
  BY <1>1, <1>2, <1>3, <1>4, <1>5, <1>6, <1>7 DEF InitStep, Calls

\* Every step keeps the amp silent when off.
LEMMA StepHush ==
    ASSUME IInv, HushInv, Client = "hda", MaxFaults <= 2, [Next]_vars
    PROVE  HushInv'
<1>1. LostCost'
  BY StepCost DEF HushInv
<1>2. Hush'
  BY FwUpdateHush, StartHush, StopHush, OtherHush DEF HushInv, Next, Step
<1> QED
  BY <1>1, <1>2 DEF HushInv

-----------------------------------------------------------------------------
(* The steps of the contract.                                              *)

\* A step without a sound before or after it.
LEMMA SilentStep ==
    ASSUME ~Audible, ~Audible',
           \/ Power' = Power
           \/ Power = "Off" /\ Power' = "Starting"
           \/ Power = "Starting" /\ Power' = "Off"
    PROVE  [Contract!Next]_(Contract!vars)
<1>1. Audible' = Audible
  BY DEF Audible
<1> QED
  BY <1>1 DEF Contract!Next, Contract!vars, Contract!BeginStart, Contract!StartFails

\* The four phases, by where the call under way is.
LEMMA PowerOf ==
    ASSUME IInv
    PROVE  /\ status = "PW_ON" => Power = "On"
           /\ status = "PW_OFF" /\ pc \in {"idle", "stop"} \cup InitSteps => Power = "Off"
           /\ status = "PW_OFF" /\ pc \in UpdateSteps /\ caller = "init" => Power = "Off"
           /\ status = "PW_OFF" /\ pc \in UpdateSteps /\ caller # "init" => Power = "Starting"
           /\ status = "PW_OFF" /\ pc \in StartSteps => Power = "Starting"
           /\ status = "PW_OFF" /\ pc \in StopSteps \ {"stop"} => Power = "Stopping"
  BY DEF IInv, OnBetweenCalls, Power, InitSteps, UpdateSteps, StartSteps, StopSteps, PllSteps,
         CrcSteps

\* Where the list has muted the amp, and where it is off between calls.
LEMMA SilentAt ==
    ASSUME HushInv,
           \/ pc \in (UpdateSteps \ {"reg"}) \cup InitSteps \cup (StartSteps \ {"start", "started"})
           \/ pc = "reg" /\ caller = "retry"
           \/ status = "PW_OFF" /\ pc \in {"idle", "start", "stop", "reg"}
    PROVE  ~Audible
  BY DEF HushInv, Hush, MutedByList, QuietWhenOff, Audible

\* Only an amp between calls is on.
LEMMA OffInCall ==
    ASSUME IInv, pc \in UpdateSteps \cup InitSteps \cup (StartSteps \ {"start", "dev_start"})
                        \cup (StopSteps \ {"stop"})
    PROVE  status = "PW_OFF"
  BY DEF IInv, TypeOK, DataTypeOK, OnBetweenCalls, UpdateSteps, InitSteps, StartSteps, StopSteps,
         PllSteps, CrcSteps

\* fw_update is part of a start, or of the initialisation.
LEMMA FwUpdateContract ==
    ASSUME IInv, HushInv, IInv', HushInv', FwUpdateStep
    PROVE  [Contract!Next]_(Contract!vars)
<1> USE DEF UpdateSteps, InitSteps, StartSteps, StopSteps, PllSteps, CrcSteps
<1>1. /\ pc \in UpdateSteps /\ status' = status /\ caller' = caller
      /\ \/ pc' \in UpdateSteps \ {"reg"}
         \/ \E ok \in BOOLEAN : FwReturn(ok)
  BY DEF FwUpdateStep, RegUpdate, RegPwd, FwMute, FwBypass, FwOsc, CheckSram, UpFw, UpCfg, FwDone,
         FwError, FwReturn, Set, Load, Rest, dev, frame, clients
<1>2. \/ pc' \in UpdateSteps \ {"reg"}
      \/ pc' = "idle"
      \/ pc' = "init_mute" /\ caller = "init"
      \/ pc' = "dev_start" /\ caller # "init"
  <2>1. ASSUME NEW ok \in BOOLEAN, FwReturn(ok)
        PROVE  pc' = "idle" \/ (pc' = "init_mute" /\ caller = "init")
               \/ (pc' = "dev_start" /\ caller # "init")
    <3>1. caller \in {"init", "sync", "async", "retry"}
      BY DEF IInv, TypeOK, DataTypeOK
    <3> QED
      BY <2>1, <3>1 DEF FwReturn
  <2> QED
    BY <1>1, <2>1
<1>3. status = "PW_OFF" /\ status' = "PW_OFF"
  BY <1>1, OffInCall
<1>4. ~Audible
  BY <1>1, <1>3, SilentAt
<1>5. ~Audible'
  BY <1>2, <1>3 DEF HushInv, Hush, MutedByList, QuietWhenOff, Audible
<1>6. \/ Power' = Power
      \/ Power = "Starting" /\ Power' = "Off"
  <2>1. Power = IF caller = "init" THEN "Off" ELSE "Starting"
    BY <1>1, <1>3, PowerOf
  <2>2. CASE pc' = "idle"
    BY <1>3, <2>1, <2>2 DEF Power
  <2>3. CASE pc' = "init_mute" /\ caller = "init"
    BY <1>3, <2>1, <2>3 DEF Power
  <2>4. CASE pc' \in (UpdateSteps \ {"reg"}) \cup {"dev_start"} /\ ~(pc' = "dev_start" /\ caller = "init")
    BY <1>1, <1>3, <2>1, <2>4 DEF Power, IInv, OnBetweenCalls
  <2> QED
    BY <1>2, <2>2, <2>3, <2>4
<1> QED
  BY <1>4, <1>5, <1>6, SilentStep

\* dev_init of an amp that nobody uses yet.
LEMMA InitContract ==
    ASSUME IInv, HushInv, IInv', HushInv', InitStep
    PROVE  [Contract!Next]_(Contract!vars)
<1> USE DEF UpdateSteps, InitSteps, StartSteps, StopSteps, PllSteps, CrcSteps
<1>1. pc \in InitSteps /\ pc' \in InitSteps \cup {"idle"} /\ status' = status
  BY DEF InitStep, InitMute, InitTx, InitAmppd, InitBypass, InitPwd, Set, Rest, dev, frame,
         clients
<1>2. status = "PW_OFF" /\ status' = "PW_OFF"
  BY <1>1, OffInCall
<1>3. ~Audible
  BY <1>1, SilentAt
<1>4. ~Audible'
  BY <1>1, <1>2 DEF HushInv, Hush, MutedByList, QuietWhenOff, Audible
<1>5. Power = "Off" /\ Power' = "Off"
  BY <1>1, <1>2 DEF Power
<1> QED
  BY <1>3, <1>4, <1>5, SilentStep

\* The calls of the HDA layer begin a start or a stop; the clock is not heard.
LEMMA CallsContract ==
    ASSUME IInv, HushInv, IInv', HushInv', Client = "hda", Calls \/ Clock \/ UNCHANGED vars
    PROVE  [Contract!Next]_(Contract!vars)
<1> USE DEF UpdateSteps, InitSteps, StartSteps, StopSteps, PllSteps, CrcSteps
<1>0. status \in {"PW_OFF", "PW_ON"}
  BY DEF IInv, TypeOK, DataTypeOK
<1>1. CASE Clock \/ UNCHANGED vars
  <2>1. Power' = Power /\ reg' = reg
    BY <1>1 DEF Clock, vars, dev, frame, clients, chip, Power
  <2> QED
    BY <2>1 DEF Contract!vars, Audible
<1>2. CASE HdaPrepare \/ HdaCleanup
  <2>1. /\ pc = "idle" /\ pc' \in {"start", "stop"} /\ UNCHANGED <<status, reg, loaded>>
        /\ loaded = "yes"
    BY <1>2 DEF HdaPrepare, HdaCleanup, Call, chip
  <2>2. CASE status = "PW_ON"
    <3>1. Power' = Power
      BY <2>1, <2>2 DEF Power
    <3> QED
      BY <2>1, <3>1 DEF Contract!vars, Audible
  <2>3. CASE status = "PW_OFF"
    <3>1. ~Audible
      BY <2>1, <2>3, SilentAt
    <3>2. ~Audible'
      BY <2>1, <3>1 DEF Audible
    <3>3. Power = "Off" /\ Power' \in {"Off", "Starting"}
      BY <2>1, <2>3 DEF Power
    <3> QED
      BY <3>1, <3>2, <3>3, SilentStep
  <2> QED
    BY <1>0, <2>2, <2>3
<1>3. CASE HdaReset \/ RequestFirmware
  <2>1. pc = "idle" /\ status = "PW_OFF" /\ status' = status
        /\ (pc' = "idle" \/ (pc' = "reg" /\ caller' = "init"))
    BY <1>0, <1>3 DEF HdaReset, RequestFirmware, IInv, OnBetweenCalls, dev, chip, frame, clients
  <2>2. ~Audible
    BY <2>1, SilentAt
  <2>3. ~Audible'
    BY <2>1 DEF HushInv, Hush, QuietWhenOff, Audible
  <2>4. Power = "Off" /\ Power' = "Off"
    BY <2>1 DEF Power, IInv, OnBetweenCalls
  <2> QED
    BY <2>2, <2>3, <2>4, SilentStep
<1> QED
  BY <1>1, <1>2, <1>3
     DEF Calls, PlaybackPreUp, PlaybackPostDown, ProfileSet, StartupWork, HushInv, Hush,
         Synchronous

\* A start is silent up to its last write, and then succeeds.
LEMMA StartContract ==
    ASSUME IInv, HushInv, IInv', HushInv', StartStep
    PROVE  [Contract!Next]_(Contract!vars)
<1> USE DEF UpdateSteps, InitSteps, StartSteps, StopSteps, PllSteps, CrcSteps
<1>0. /\ status \in {"PW_OFF", "PW_ON"}
      /\ pc \in StartSteps => loaded = "yes"
      /\ pc' \in StartSteps => loaded' = "yes"
      /\ pc' \in UpdateSteps => loaded' = (IF caller' = "init" THEN "no" ELSE "yes")
  BY DEF IInv, TypeOK, DataTypeOK, OnBetweenCalls
<1>1. CASE Start
  <2>1. pc = "start" /\ pc' \in {"idle", "reg"} /\ UNCHANGED <<status, reg, loaded, caller>>
    BY <1>1 DEF Start, dev, chip, frame, clients
  <2>2. CASE status = "PW_ON"
    <3>1. Power' = Power
      BY <2>1, <2>2 DEF Power
    <3> QED
      BY <2>1, <3>1 DEF Contract!vars, Audible
  <2>3. CASE status = "PW_OFF"
    <3>1. ~Audible
      BY <2>1, <2>3, SilentAt
    <3>2. ~Audible'
      BY <2>1, <3>1 DEF Audible
    <3>3. Power = "Starting" /\ Power' \in {"Off", "Starting"}
      BY <1>0, <2>1, <2>3 DEF Power
    <3> QED
      BY <3>1, <3>2, <3>3, SilentStep
  <2> QED
    BY <1>0, <2>2, <2>3
<1>2. CASE Started
  <2>1. pc = "started" /\ status' = "PW_ON" /\ reg' = reg
    BY <1>2 DEF Started
  <2>2. Power = "Starting" /\ Power' = "On"
    BY <1>0, <2>1, OffInCall DEF Power
  <2> QED
    BY <2>1, <2>2 DEF Contract!Next, Contract!StartOk, Audible
<1>3. CASE Unmute
  <2>1. pc = "unmute" /\ pc' = "started" /\ UNCHANGED <<status, loaded>>
    BY <1>3 DEF Unmute, Set, Rest, dev, clients
  <2>2. Power = "Starting" /\ Power' = "Starting"
    BY <1>0, <2>1, OffInCall DEF Power
  <2>3. ~Audible
    BY <2>1, SilentAt
  <2>4. CASE Audible'
    <3>1. Audible' = TRUE
      BY <2>4 DEF Audible
    <3> QED
      BY <2>2, <3>1 DEF Contract!Next, Contract!Unmute
  <2>5. CASE ~Audible'
    BY <2>2, <2>3, <2>5, SilentStep
  <2> QED
    BY <2>4, <2>5
<1>4. CASE ~Start /\ ~Started /\ ~Unmute
  <2>1. /\ pc \in StartSteps \ {"start", "started", "unmute"}
        /\ \/ pc' \in StartSteps \ {"start", "started"}
           \/ pc' = "reg" /\ caller' = "retry"
    <3>1. CASE PllStep
      BY <3>1 DEF PllStep, Mode1, Mode2, Mode2Poll, Mode2Back, Mode2Again, Set, TrySet, Check
    <3>2. CASE CrcStep
      BY <3>2 DEF CrcStep, CrcCg, FwCrc, FwCrcOff, CfgCrc, CfgCrcOff, CrcEnd, CrcDone, CrcFail,
                  Set, TrySet
    <3>3. CASE ~PllStep /\ ~CrcStep
      BY <1>4, <3>3 DEF StartStep, DevStart, Amppd, DspPrep, DspOff, DspOn, TxOn, FailBypass,
                        FailAmppd, Sysst, Wdt, FailInt, FailPwd, Set, Check
    <3> QED
      BY <3>1, <3>2, <3>3
  <2>2. status = "PW_OFF"
    <3>1. CASE pc # "dev_start"
      BY <2>1, <3>1, OffInCall
    <3>2. CASE pc = "dev_start"
      BY <1>4, <3>2 DEF StartStep, DevStart, PllStep, Mode1, Mode2, Mode2Poll, Mode2Back,
           Mode2Again, CrcStep, CrcCg, FwCrc, FwCrcOff, CfgCrc, CfgCrcOff, CrcEnd, CrcDone,
           CrcFail, Amppd, DspPrep, DspOff, DspOn, TxOn, FailBypass, FailAmppd, Sysst, Wdt,
           FailInt, FailPwd, Set, TrySet, Check
    <3> QED
      BY <3>1, <3>2
  <2>3. status' = "PW_OFF"
    <3>1. CASE PllStep
      BY <2>2, <3>1 DEF PllStep, Mode1, Mode2, Mode2Poll, Mode2Back, Mode2Again, Set, TrySet,
                        Check, Rest, dev
    <3>2. CASE CrcStep
      BY <2>2, <3>2 DEF CrcStep, CrcCg, FwCrc, FwCrcOff, CfgCrc, CfgCrcOff, CrcEnd, CrcDone,
                        CrcFail, Set, TrySet, Rest, dev
    <3>3. CASE ~PllStep /\ ~CrcStep
      BY <1>4, <2>2, <3>3 DEF StartStep, DevStart, Amppd, DspPrep, DspOff, DspOn, TxOn,
                  FailBypass, FailAmppd, Sysst, Wdt, FailInt, FailPwd, Set, Check, Rest, dev
    <3> QED
      BY <3>1, <3>2, <3>3
  <2>4. ~Audible
    BY <2>1, SilentAt
  <2>5. ~Audible'
    BY <2>1 DEF HushInv, Hush, MutedByList, Audible
  <2>6. Power = "Starting" /\ Power' = "Starting"
    BY <1>0, <2>1, <2>2, <2>3 DEF Power
  <2> QED
    BY <2>4, <2>5, <2>6, SilentStep
<1> QED
  BY <1>1, <1>2, <1>3, <1>4

\* A stop only ever silences.
LEMMA StopContract ==
    ASSUME IInv, HushInv, IInv', HushInv', StopStep
    PROVE  [Contract!Next]_(Contract!vars)
<1> USE DEF UpdateSteps, InitSteps, StartSteps, StopSteps, PllSteps, CrcSteps
<1>0. status \in {"PW_OFF", "PW_ON"} /\ ~restart /\ TypeOK
  BY DEF IInv, TypeOK, DataTypeOK, HushInv, Hush, Synchronous
<1>1. CASE Stop
  <2>1. /\ pc = "stop" /\ reg' = reg /\ status' = "PW_OFF"
        /\ \/ status = "PW_OFF" /\ pc' = "idle"
           \/ status = "PW_ON" /\ pc' = "st_mute"
    BY <1>0, <1>1 DEF Stop, StopReturn, chip
  <2>2. CASE status = "PW_OFF"
    <3>1. Power' = Power
      BY <2>1, <2>2 DEF Power
    <3> QED
      BY <2>1, <3>1 DEF Contract!vars, Audible
  <2>3. CASE status = "PW_ON"
    <3>1. Power = "On" /\ Power' = "Stopping"
      BY <2>1, <2>3 DEF Power
    <3> QED
      BY <2>1, <3>1 DEF Contract!Next, Contract!BeginStop, Audible
  <2> QED
    BY <1>0, <2>2, <2>3
<1>2. CASE ~Stop
  <2>1. pc \in StopSteps \ {"stop"} /\ pc' \in (StopSteps \ {"stop"}) \cup {"idle"}
        /\ status' = status
    BY <1>0, <1>2 DEF StopStep, StMute, StTx, StInt, StBypass, StAmppd, StOsc, StFw, StCfg, StPll,
                      StPwd, StopReturn, Set, Load, Rest, dev
  <2>2. status = "PW_OFF"
    BY <2>1, OffInCall
  <2>3. \A f \in {"hmute", "amppd", "pwdn"} : reg'[f] \in {reg[f], 1}
    <3>1. CASE StMute \/ StAmppd \/ StPwd
      BY <1>0, <3>1, WriteEffect DEF StMute, StAmppd, StPwd, Set, Write, TypeOK, DataTypeOK,
                                     Fields, Bits
    <3>2. CASE StTx \/ StBypass \/ StOsc \/ StPll
      BY <1>0, <3>2, WriteEffect DEF StTx, StBypass, StOsc, StPll, Set, Fields, Bits
    <3>3. CASE StInt \/ StFw \/ StCfg
      BY <3>3 DEF StInt, StFw, StCfg, Load
    <3> QED
      BY <1>2, <3>1, <3>2, <3>3 DEF StopStep
  <2>4. Power = "Stopping"
    BY <2>1, <2>2 DEF Power
  <2>5. CASE pc' = "idle"
    <3>1. Audible' = FALSE
      BY <2>1, <2>2, <2>5 DEF HushInv, Hush, QuietWhenOff, Audible
    <3>2. Power' = "Off"
      BY <2>1, <2>2, <2>5 DEF Power
    <3> QED
      BY <2>4, <3>1, <3>2 DEF Contract!Next, Contract!StopDone
  <2>6. CASE pc' # "idle"
    <3>1. Power' = "Stopping"
      BY <2>1, <2>2, <2>6 DEF Power
    <3>2. Audible' = FALSE \/ Audible' = Audible
      BY <2>3 DEF Audible
    <3> QED
      BY <2>4, <3>1, <3>2 DEF Contract!Next, Contract!Silence, Contract!vars
  <2> QED
    BY <2>5, <2>6
<1> QED
  BY <1>1, <1>2

\* Every step of the core driver is a step of the contract, or none.
LEMMA StepContract ==
    ASSUME IInv, HushInv, IInv', HushInv', Client = "hda", [Next]_vars
    PROVE  [Contract!Next]_(Contract!vars)
  BY FwUpdateContract, InitContract, CallsContract, StartContract, StopContract DEF Next, Step

\* The initial states are the contract's.
LEMMA InitContractHolds ==
    ASSUME Init, Client = "hda"
    PROVE  HushInv /\ Contract!Init
<1>1. /\ pc = "idle" /\ status = "PW_OFF" /\ lost = {} /\ faults = MaxFaults
      /\ reg["pwdn"] = 1 /\ ~restart /\ ~queued
  BY ResetAssumption DEF Init
<1>2. LostCost
  BY <1>1, BoundAssumption DEF LostCost, Cost
<1>3. Hush
  BY <1>1 DEF Hush, MutedByList, StopProgress, QuietWhenOff, Synchronous, Audible, UpdateSteps,
              InitSteps, StartSteps, StopSteps, PllSteps, CrcSteps
<1>4. Contract!Init
  BY <1>1 DEF Contract!Init, Power, Audible, UpdateSteps, StartSteps, StopSteps, PllSteps,
              CrcSteps
<1> QED
  BY <1>2, <1>3, <1>4 DEF HushInv

-----------------------------------------------------------------------------
(* The theorem.                                                            *)

\* aw88399.c as the HDA layer sees it: with at most two failing accesses a
\* sound begins only as the last act of a start that succeeds, goes on while
\* the amp is on, and has ended when the stop returns.
THEOREM ContractCorrect ==
    ASSUME Client = "hda", MaxFaults <= 2
    PROVE  Spec => Contract!Init /\ [][Contract!Next]_(Contract!vars)
<1>1. Init => IInv /\ HushInv /\ Contract!Init
  BY InitIInv, InitContractHolds
<1>2. IInv /\ HushInv /\ [Next]_vars => IInv' /\ HushInv'
  BY NextIInv, StepHush
<1>3. IInv /\ HushInv /\ IInv' /\ HushInv' /\ [Next]_vars => [Contract!Next]_(Contract!vars)
  BY StepContract
<1> QED
  BY <1>1, <1>2, <1>3, PTL DEF Spec
=============================================================================
