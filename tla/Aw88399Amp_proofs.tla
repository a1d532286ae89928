------------------------- MODULE Aw88399Amp_proofs --------------------------
(***************************************************************************)
(* Proofs about one amplifier, for every set of profiles, every container  *)
(* that satisfies RegDataAssumption, every number of retries and of failing*)
(* bus accesses.  IInv is inductive: its first part is TypeOK, the other   *)
(* conjuncts are gathered in Strength.  Each group of steps of the module  *)
(* has one lemma for the types and one for Strength, with a case per step. *)
(* Lemmas about types prove DataTypeOK and FlagTypeOK apart, as the provers*)
(* handle Boolean variables and data best one at a time.                   *)
(***************************************************************************)
EXTENDS Aw88399Amp, TLAPS

Strength == /\ AttemptBound /\ OnBetweenCalls /\ MutedUnlessOn
            /\ BypassedUnlessOn /\ PllOutsideWindow /\ CrcProgress

-----------------------------------------------------------------------------
(* The building blocks of the steps.                                       *)

\* An unchecked write to f touches no other field, and either reaches the chip
\* or leaves f in `lost': the driver may believe v only of a field not lost.
LEMMA WriteEffect ==
    ASSUME TypeOK, NEW f \in Fields, NEW v \in Bits, Write(f, v)
    PROVE  /\ reg' \in [Fields -> Bits] /\ lost' \in SUBSET Fields
           /\ faults' \in 0..MaxFaults
           /\ \A g \in Fields \ {f} : reg'[g] = reg[g] /\ (g \in lost' <=> g \in lost)
           /\ reg'[f] = v \/ f \in lost'
  BY BoundAssumption DEF TypeOK, DataTypeOK, Write, BusFault, Bits

\* An unchecked write keeps the types.
LEMMA SetType ==
    ASSUME TypeOK, NEW f \in Fields, NEW v \in Bits, NEW from, NEW to \in Labels,
           Set(from, f, v, to)
    PROVE  TypeOK'
  BY WriteEffect DEF Set, Rest, dev, frame, clients, TypeOK, DataTypeOK, FlagTypeOK

\* A write whose failure the caller sees keeps the types.
LEMMA TrySetType ==
    ASSUME TypeOK, NEW f \in Fields, NEW v \in Bits,
           NEW from, NEW ok \in Labels, NEW err \in Labels, TrySet(from, f, v, ok, err)
    PROVE  TypeOK'
  BY BoundAssumption
     DEF TrySet, BusFault, Rest, dev, frame, clients, TypeOK, DataTypeOK, FlagTypeOK

\* A status check keeps the types.
LEMMA CheckType ==
    ASSUME TypeOK, NEW cond, NEW from, NEW ok \in Labels, NEW err \in Labels,
           Check(from, cond, ok, err)
    PROVE  TypeOK'
  BY BoundAssumption
     DEF Check, BusFault, Rest, dev, frame, clients, TypeOK, DataTypeOK, FlagTypeOK

\* An update of a DSP memory keeps the types.
LEMMA LoadType ==
    ASSUME TypeOK, NEW m \in {"fw", "cfg"}, NEW p \in Profiles,
           NEW fails \in SUBSET (Profiles \cup {Torn}),
           NEW from, NEW ok \in Labels, NEW err \in Labels, Load(from, m, p, fails, ok, err)
    PROVE  TypeOK'
  <1>1. Stored(p) \in Profiles \cup {Torn} BY DEF Stored
  <1>2. QED
    BY <1>1, BoundAssumption
       DEF Load, BusFault, dev, frame, clients, TypeOK, DataTypeOK, FlagTypeOK

\* A step that only moves on keeps the types.
LEMMA IdleType ==
    ASSUME TypeOK, NEW to \in Labels, pc' = to, UNCHANGED <<dev, chip, clk, faults, frame, clients>>
    PROVE  TypeOK'
  BY DEF dev, chip, frame, clients, TypeOK, DataTypeOK, FlagTypeOK

\* A register list written up to its k-th register is a register state.
LEMMA WrittenType ==
    ASSUME TypeOK, NEW k \in 0..6
    PROVE  Written(k) \in [Fields -> Bits]
  <1>1. Listed(prof_index) \in [Fields -> Bits]
    BY RegDataAssumption DEF TypeOK, DataTypeOK, Listed, Bits
  <1>2. QED BY <1>1 DEF TypeOK, DataTypeOK, Written

\* The first register of the list mutes, powers down and bypasses the DSP; a
\* list cut before it changes none of the bits the invariant speaks of.
LEMMA WrittenValue ==
    ASSUME TypeOK, NEW k \in 0..6
    PROVE  /\ k >= 1 => /\ Written(k)["hmute"] = 1 /\ Written(k)["pwdn"] = 1
                        /\ Written(k)["dspby"] = 1
           /\ k = 0 => \A f \in {"hmute", "pwdn", "dspby", "memclk"} : Written(k)[f] = reg[f]
           /\ Written(k)["memclk"] = (IF k >= 4 THEN 1 ELSE reg["memclk"])
  <1>1. prof_index \in Profiles BY DEF TypeOK, DataTypeOK
  <1>2. /\ Rank["hmute"] = 1 /\ Rank["pwdn"] = 1 /\ Rank["dspby"] = 1 /\ Rank["memclk"] = 4
    BY DEF Rank, Fields
  <1>3. /\ Listed(prof_index)["hmute"] = 1 /\ Listed(prof_index)["pwdn"] = 1
        /\ Listed(prof_index)["dspby"] = 1 /\ Listed(prof_index)["memclk"] = 1
    BY <1>1, RegDataAssumption DEF Listed, Fields
  <1>4. QED BY <1>2, <1>3 DEF Written, Fields

\* Returning from fw_update keeps the types and grants another attempt only
\* while one is left.
LEMMA FwReturnType ==
    ASSUME IInv, NEW ok \in BOOLEAN, pc \in UpdateSteps, FwReturn(ok)
    PROVE  /\ pc' \in {"init_mute", "idle", "dev_start"} /\ caller' = caller
           /\ attempt' \in 0..Retries /\ loaded' \in {"no", "yes", "failed"}
           /\ pc' = "dev_start" => attempt' < Retries
  <1>1. /\ caller \in {"init", "sync", "async", "retry"} /\ attempt \in 0..Retries
        /\ loaded \in {"no", "yes", "failed"} /\ (caller = "retry" => attempt < Retries)
    BY DEF IInv, TypeOK, DataTypeOK, AttemptBound
  <1>2. CASE ok BY <1>1, <1>2, BoundAssumption DEF FwReturn, Attempted, MayRetry
  <1>3. CASE ~ok BY <1>1, <1>3, BoundAssumption DEF FwReturn, Attempted, MayRetry
  <1>4. QED BY <1>2, <1>3

\* Only a start of an initialised amp goes on to dev_start, and only an
\* asynchronous start of an ASoC amp queues the start work.
LEMMA FwReturnEffect ==
    ASSUME IInv, NEW ok \in BOOLEAN, pc \in UpdateSteps, FwReturn(ok)
    PROVE  /\ caller' = caller /\ pc' \in {"init_mute", "idle", "dev_start"}
           /\ pc' = "dev_start" => loaded' = "yes" /\ attempt' < Retries
           /\ queued' => loaded' = "yes" /\ Client = "asoc"
           /\ ~ok => queued' = queued
           /\ caller # "init" => loaded' = "yes"
  <1>1. /\ caller \in {"init", "sync", "async", "retry"}
        /\ loaded = IF caller = "init" THEN "no" ELSE "yes"
        /\ queued => loaded = "yes" /\ Client = "asoc"
        /\ caller = "async" => Client = "asoc"
        /\ queued \in BOOLEAN
    BY DEF IInv, TypeOK, DataTypeOK, FlagTypeOK, OnBetweenCalls
  <1>2. /\ pc' \in {"init_mute", "idle", "dev_start"} /\ caller' = caller
        /\ pc' = "dev_start" => attempt' < Retries
    BY FwReturnType
  <1>3. loaded' = IF caller = "init" /\ ~ok THEN "failed" ELSE loaded BY DEF FwReturn
  <1>4. queued' <=> queued \/ (caller = "async" /\ ok) BY DEF FwReturn
  <1>5. pc' = "dev_start" => caller # "init" BY <1>1 DEF FwReturn
  <1>6. ~ok => queued' = queued BY <1>1 DEF FwReturn
  <1>7. QED BY <1>1, <1>2, <1>3, <1>4, <1>5, <1>6

\* Returning from fw_update keeps the Boolean variables Boolean.
LEMMA FwReturnFlags ==
    ASSUME FlagTypeOK, NEW ok \in BOOLEAN, FwReturn(ok)
    PROVE  ret' \in BOOLEAN /\ queued' \in BOOLEAN /\ restart' \in BOOLEAN /\ dapm' \in BOOLEAN
  BY DEF FlagTypeOK, FwReturn

-----------------------------------------------------------------------------
(* Types.                                                                  *)

\* Every step of aw88399_dev_fw_update keeps the types.
LEMMA FwUpdateStepType ==
    ASSUME IInv, FwUpdateStep
    PROVE  TypeOK'
  <1> USE DEF Fields, Bits, Labels, UpdateSteps, InitSteps, StartSteps, StopSteps,
              PllSteps, CrcSteps
  <1> TypeOK BY DEF IInv
  <1>1. CASE RegUpdate
    <2> pc \in UpdateSteps BY <1>1 DEF RegUpdate
    <2>1. CASE /\ reg' = Written(6) /\ lost' = {} /\ UNCHANGED faults
               /\ dsp_cfg' = DspCfgOf(prof_index)
               /\ pc' = "reg_pwd" /\ UNCHANGED <<frame, clients>>
      <3>1. DataTypeOK'
        BY <1>1, <2>1, WrittenType DEF RegUpdate, TypeOK, DataTypeOK, DspCfgOf, frame, clients
      <3>2. FlagTypeOK' BY <1>1, <2>1 DEF RegUpdate, TypeOK, FlagTypeOK, frame, clients
      <3>3. QED BY <3>1, <3>2 DEF TypeOK
    <2>2. ASSUME NEW k \in 0..5, BusFault, FwReturn(FALSE), reg' = Written(k),
                 lost' = {f \in lost : Rank[f] > k},
                 dsp_cfg' \in {DspCfgOf(prof_index)} \cup (IF k = 0 THEN {dsp_cfg} ELSE {})
          PROVE  TypeOK'
      <3>1. UNCHANGED <<status, fw_status, prof_cur, prof_index, ram, sysint, clk>>
        BY <1>1 DEF RegUpdate
      <3>2. /\ pc' \in Labels /\ caller' = caller /\ attempt' \in 0..Retries
            /\ loaded' \in {"no", "yes", "failed"}
        BY <2>2, FwReturnType
      <3>3. reg' \in [Fields -> Bits] /\ lost' \in SUBSET Fields
        <4>1. k \in 0..6 /\ lost \in SUBSET Fields BY DEF TypeOK, DataTypeOK
        <4>2. QED BY <2>2, <4>1, WrittenType
      <3>4. dsp_cfg' \in {"WORK", "BYPASS"} /\ faults' \in 0..MaxFaults
        BY <2>2, BoundAssumption DEF TypeOK, DataTypeOK, DspCfgOf, BusFault
      <3>5. DataTypeOK' BY <3>1, <3>2, <3>3, <3>4 DEF TypeOK, DataTypeOK
      <3>6. FlagTypeOK' BY <2>2, <3>1, FwReturnFlags DEF TypeOK, FlagTypeOK
      <3>7. QED BY <3>5, <3>6 DEF TypeOK
    <2>3. QED BY <1>1, <2>1, <2>2 DEF RegUpdate
  <1>2. CASE RegPwd BY <1>2, SetType DEF RegPwd
  <1>3. CASE FwMute BY <1>3, SetType DEF FwMute
  <1>4. CASE FwBypass
    <2>1. CASE Set("fw_bypass", "dspby", 1, "fw_osc") BY <2>1, SetType
    <2>2. CASE pc' = "fw_osc" /\ UNCHANGED <<Rest, reg, lost, faults>>
      BY <2>2, IdleType DEF Rest, chip
    <2>3. QED BY <1>4, <2>1, <2>2 DEF FwBypass
  <1>5. CASE FwOsc BY <1>5, SetType DEF FwOsc
  <1>6. CASE CheckSram
    <2>1. DataTypeOK'
      BY <1>6, BoundAssumption
         DEF CheckSram, BusFault, UpDspFw, TypeOK, DataTypeOK, dev, chip, frame, clients, Rest
    <2>2. FlagTypeOK'
      BY <1>6
         DEF CheckSram, BusFault, UpDspFw, TypeOK, FlagTypeOK, dev, chip, frame, clients, Rest
    <2>3. QED BY <2>1, <2>2 DEF TypeOK
  <1>7. CASE UpFw BY <1>7, LoadType DEF UpFw, TypeOK, DataTypeOK, Stored
  <1>8. CASE UpCfg BY <1>8, LoadType DEF UpCfg, TypeOK, DataTypeOK, Stored
  <1>9. CASE FwDone
    <2>1. pc \in UpdateSteps /\ FwReturn(TRUE) /\ Write("memclk", 1) BY <1>9 DEF FwDone
    <2>2. DataTypeOK' BY <1>9, <2>1, WriteEffect, FwReturnType DEF FwDone, TypeOK, DataTypeOK, dev
    <2>3. FlagTypeOK' BY <1>9, <2>1, FwReturnFlags DEF FwDone, TypeOK, FlagTypeOK
    <2>4. QED BY <2>2, <2>3 DEF TypeOK
  <1>10. CASE FwError
    <2>1. pc \in UpdateSteps /\ FwReturn(FALSE) /\ Write("memclk", 1) BY <1>10 DEF FwError
    <2>2. DataTypeOK' BY <1>10, <2>1, WriteEffect, FwReturnType DEF FwError, TypeOK, DataTypeOK, dev
    <2>3. FlagTypeOK' BY <1>10, <2>1, FwReturnFlags DEF FwError, TypeOK, FlagTypeOK
    <2>4. QED BY <2>2, <2>3 DEF TypeOK
  <1> QED BY <1>1, <1>2, <1>3, <1>4, <1>5, <1>6, <1>7, <1>8, <1>9, <1>10 DEF FwUpdateStep

\* Every step of aw88399_dev_init keeps the types.
LEMMA InitStepType ==
    ASSUME IInv, InitStep
    PROVE  TypeOK'
  <1> USE DEF Fields, Bits, Labels, UpdateSteps, InitSteps, StartSteps, StopSteps,
              PllSteps, CrcSteps
  <1> TypeOK BY DEF IInv
  <1>1. CASE InitMute BY <1>1, SetType DEF InitMute
  <1>2. CASE InitTx BY <1>2, SetType DEF InitTx
  <1>3. CASE InitAmppd BY <1>3, SetType DEF InitAmppd
  <1>4. CASE InitBypass BY <1>4, SetType DEF InitBypass
  <1>5. CASE InitPwd
    <2>1. DataTypeOK'
      BY <1>5, WriteEffect DEF InitPwd, TypeOK, DataTypeOK, dev, chip, frame, clients, Rest
    <2>2. FlagTypeOK' BY <1>5 DEF InitPwd, TypeOK, FlagTypeOK, dev, chip, frame, clients, Rest
    <2>3. QED BY <2>1, <2>2 DEF TypeOK
  <1> QED BY <1>1, <1>2, <1>3, <1>4, <1>5 DEF InitStep

\* Every step of aw_dev_check_syspll keeps the types.
LEMMA PllStepType ==
    ASSUME IInv, PllStep
    PROVE  TypeOK'
  <1> USE DEF Fields, Bits, Labels, UpdateSteps, InitSteps, StartSteps, StopSteps,
              PllSteps, CrcSteps
  <1> TypeOK BY DEF IInv
  <1>1. CASE Mode1 BY <1>1, CheckType DEF Mode1
  <1>2. CASE Mode2
    <2>1. CASE TrySet("mode2", "cco", 0, "mode2_poll", "f_pwd") BY <2>1, TrySetType
    <2>2. CASE Check("mode2", FALSE, "f_pwd", "f_pwd") BY <2>2, CheckType
    <2>3. QED BY <1>2, <2>1, <2>2 DEF Mode2
  <1>3. CASE Mode2Poll
    <2>1. DataTypeOK'
      BY <1>3, BoundAssumption
         DEF Mode2Poll, BusFault, Locked, TypeOK, DataTypeOK, dev, chip, frame, clients, Rest
    <2>2. FlagTypeOK'
      BY <1>3
         DEF Mode2Poll, BusFault, Locked, TypeOK, FlagTypeOK, dev, chip, frame, clients, Rest
    <2>3. QED BY <2>1, <2>2 DEF TypeOK
  <1>4. CASE Mode2Back BY <1>4, SetType DEF Mode2Back
  <1>5. CASE Mode2Again BY <1>5, CheckType DEF Mode2Again
  <1> QED BY <1>1, <1>2, <1>3, <1>4, <1>5 DEF PllStep

\* Every step of the three CRC checks keeps the types.
LEMMA CrcStepType ==
    ASSUME IInv, CrcStep
    PROVE  TypeOK'
  <1> USE DEF Fields, Bits, Labels, UpdateSteps, InitSteps, StartSteps, StopSteps,
              PllSteps, CrcSteps
  <1> TypeOK BY DEF IInv
  <1>1. CASE CrcCg BY <1>1, TrySetType DEF CrcCg
  <1>2. CASE FwCrc BY <1>2, TrySetType DEF FwCrc
  <1>3. CASE FwCrcOff
    <2> DEFINE next == IF ram["fw"] # Torn THEN "cfgcrc" ELSE "crc_fail"
    <2>1. CASE TrySet("fwcrc_off", "crccode", 0, next, "crc_fail") BY <2>1, TrySetType
    <2>2. CASE /\ BusFault /\ pc' = "crc_fail" /\ reg' = [reg EXCEPT !["crccode"] = 0]
               /\ lost' = lost \ {"crccode"} /\ UNCHANGED Rest
      <3>1. DataTypeOK'
        BY <2>2, BoundAssumption DEF BusFault, TypeOK, DataTypeOK, dev, frame, clients, Rest
      <3>2. FlagTypeOK' BY <2>2 DEF TypeOK, FlagTypeOK, frame, clients, Rest
      <3>3. QED BY <3>1, <3>2 DEF TypeOK
    <2>3. QED BY <1>3, <2>1, <2>2 DEF FwCrcOff
  <1>4. CASE CfgCrc BY <1>4, TrySetType DEF CfgCrc
  <1>5. CASE CfgCrcOff BY <1>5, TrySetType DEF CfgCrcOff
  <1>6. CASE CrcEnd
    <2>1. pc' \in Labels /\ faults' \in 0..MaxFaults
      BY <1>6, BoundAssumption DEF CrcEnd, BusFault, TypeOK, DataTypeOK
    <2>2. reg' \in [Fields -> Bits] /\ lost' \in SUBSET Fields
      <3>1. reg \in [Fields -> Bits] /\ lost \in SUBSET Fields BY DEF TypeOK, DataTypeOK
      <3>2. CASE reg' = [reg EXCEPT !["crccode"] = 0, !["crccfg"] = 0]
                 /\ lost' = lost \ {"crccode", "crccfg"}
        <4> DEFINE half == [reg EXCEPT !["crccode"] = 0]
        <4>1. half \in [Fields -> Bits] BY <3>1
        <4>2. reg' = [half EXCEPT !["crccfg"] = 0] BY <3>2
        <4> HIDE DEF half
        <4>3. QED BY <3>1, <3>2, <4>1, <4>2
      <3>3. CASE UNCHANGED <<reg, lost>> BY <3>1, <3>3
      <3>4. QED BY <1>6, <3>2, <3>3 DEF CrcEnd
    <2>3. UNCHANGED Rest BY <1>6 DEF CrcEnd
    <2>4. DataTypeOK' BY <2>1, <2>2, <2>3 DEF Rest, dev, frame, clients, TypeOK, DataTypeOK
    <2>5. FlagTypeOK' BY <2>3 DEF Rest, frame, clients, TypeOK, FlagTypeOK
    <2>6. QED BY <2>4, <2>5 DEF TypeOK
  <1>7. CASE CrcDone BY <1>7, TrySetType DEF CrcDone
  <1>8. CASE CrcFail BY <1>8, SetType DEF CrcFail
  <1> QED BY <1>1, <1>2, <1>3, <1>4, <1>5, <1>6, <1>7, <1>8 DEF CrcStep

\* Every step of aw88399_dev_start keeps the types.
LEMMA StartStepType ==
    ASSUME IInv, StartStep
    PROVE  TypeOK'
  <1> USE DEF Fields, Bits, Labels, UpdateSteps, InitSteps, StartSteps, StopSteps,
              PllSteps, CrcSteps
  <1> TypeOK BY DEF IInv
  <1>1. CASE Start BY <1>1, IdleType DEF Start
  <1>2. CASE DevStart BY <1>2, SetType DEF DevStart
  <1>3. CASE PllStep BY <1>3, PllStepType
  <1>4. CASE Amppd BY <1>4, SetType DEF Amppd
  <1>5. CASE Sysst BY <1>5, CheckType DEF Sysst
  <1>6. CASE CrcStep BY <1>6, CrcStepType
  <1>7. CASE DspPrep BY <1>7, SetType DEF DspPrep
  <1>8. CASE DspOff BY <1>8, SetType DEF DspOff
  <1>9. CASE DspOn BY <1>9, SetType DEF DspOn
  <1>10. CASE Wdt BY <1>10, CheckType DEF Wdt
  <1>11. CASE TxOn BY <1>11, SetType DEF TxOn
  <1>12. CASE Unmute BY <1>12, SetType DEF Unmute
  <1>13. CASE Started
    <2>1. DataTypeOK'
      BY <1>13, BoundAssumption
         DEF Started, ClearInt, BusFault, TypeOK, DataTypeOK, dev, chip, frame, clients, Rest
    <2>2. FlagTypeOK'
      BY <1>13
         DEF Started, ClearInt, BusFault, TypeOK, FlagTypeOK, dev, chip, frame, clients, Rest
    <2>3. QED BY <2>1, <2>2 DEF TypeOK
  <1>14. CASE FailBypass BY <1>14, SetType DEF FailBypass
  <1>15. CASE FailInt
    <2>1. DataTypeOK'
      BY <1>15, BoundAssumption
         DEF FailInt, ClearInt, BusFault, TypeOK, DataTypeOK, dev, chip, frame, clients, Rest
    <2>2. FlagTypeOK'
      BY <1>15
         DEF FailInt, ClearInt, BusFault, TypeOK, FlagTypeOK, dev, chip, frame, clients, Rest
    <2>3. QED BY <2>1, <2>2 DEF TypeOK
  <1>16. CASE FailAmppd BY <1>16, SetType DEF FailAmppd
  <1>17. CASE FailPwd
    <2>1. DataTypeOK'
      BY <1>17, WriteEffect DEF FailPwd, TypeOK, DataTypeOK, dev, chip, frame, clients, Rest
    <2>2. FlagTypeOK' BY <1>17 DEF FailPwd, TypeOK, FlagTypeOK, dev, chip, frame, clients, Rest
    <2>3. QED BY <2>1, <2>2 DEF TypeOK
  <1> QED
    BY <1>1, <1>2, <1>3, <1>4, <1>5, <1>6, <1>7, <1>8, <1>9, <1>10, <1>11,
       <1>12, <1>13, <1>14, <1>15, <1>16, <1>17
       DEF StartStep

\* Every step of aw88399_stop keeps the types.
LEMMA StopStepType ==
    ASSUME IInv, StopStep
    PROVE  TypeOK'
  <1> USE DEF Fields, Bits, Labels, UpdateSteps, InitSteps, StartSteps, StopSteps,
              PllSteps, CrcSteps
  <1> TypeOK BY DEF IInv
  <1>1. CASE Stop
    <2>1. DataTypeOK'
      BY <1>1 DEF Stop, StopReturn, TypeOK, DataTypeOK, dev, chip, frame, clients, Rest
    <2>2. FlagTypeOK'
      BY <1>1 DEF Stop, StopReturn, TypeOK, FlagTypeOK, dev, chip, frame, clients, Rest
    <2>3. QED BY <2>1, <2>2 DEF TypeOK
  <1>2. CASE StMute BY <1>2, SetType DEF StMute
  <1>3. CASE StTx BY <1>3, SetType DEF StTx
  <1>4. CASE StInt
    <2>1. DataTypeOK'
      BY <1>4, BoundAssumption
         DEF StInt, BusFault, TypeOK, DataTypeOK, dev, chip, frame, clients, Rest
    <2>2. FlagTypeOK'
      BY <1>4 DEF StInt, BusFault, TypeOK, FlagTypeOK, dev, chip, frame, clients, Rest
    <2>3. QED BY <2>1, <2>2 DEF TypeOK
  <1>5. CASE StBypass BY <1>5, SetType DEF StBypass
  <1>6. CASE StAmppd BY <1>6, SetType DEF StAmppd
  <1>7. CASE StOsc BY <1>7, SetType DEF StOsc
  <1>8. CASE StFw BY <1>8, LoadType DEF StFw, TypeOK, DataTypeOK, Stored
  <1>9. CASE StCfg BY <1>9, LoadType DEF StCfg, TypeOK, DataTypeOK, Stored
  <1>10. CASE StPll BY <1>10, SetType DEF StPll
  <1>11. CASE StPwd
    <2>1. DataTypeOK'
      BY <1>11, WriteEffect
         DEF StPwd, StopReturn, TypeOK, DataTypeOK, dev, chip, frame, clients, Rest
    <2>2. FlagTypeOK'
      BY <1>11 DEF StPwd, StopReturn, TypeOK, FlagTypeOK, dev, chip, frame, clients, Rest
    <2>3. QED BY <2>1, <2>2 DEF TypeOK
  <1> QED BY <1>1, <1>2, <1>3, <1>4, <1>5, <1>6, <1>7, <1>8, <1>9, <1>10, <1>11 DEF StopStep

\* Every call of a client keeps the types.
LEMMA CallsType ==
    ASSUME IInv, Calls
    PROVE  TypeOK'
  <1> USE DEF Fields, Bits, Labels, UpdateSteps, InitSteps, StartSteps, StopSteps,
              PllSteps, CrcSteps
  <1> TypeOK BY DEF IInv
  <1>1. CASE RequestFirmware
    <2>1. DataTypeOK'
      BY <1>1, ProfileAssumption
         DEF RequestFirmware, TypeOK, DataTypeOK, dev, chip, frame, clients, Rest
    <2>2. FlagTypeOK'
      BY <1>1 DEF RequestFirmware, TypeOK, FlagTypeOK, dev, chip, frame, clients, Rest
    <2>3. QED BY <2>1, <2>2 DEF TypeOK
  <1>2. CASE HdaPrepare
    <2>1. DataTypeOK'
      BY <1>2 DEF HdaPrepare, Call, TypeOK, DataTypeOK, dev, chip, frame, clients, Rest
    <2>2. FlagTypeOK'
      BY <1>2 DEF HdaPrepare, Call, TypeOK, FlagTypeOK, dev, chip, frame, clients, Rest
    <2>3. QED BY <2>1, <2>2 DEF TypeOK
  <1>3. CASE HdaCleanup
    <2>1. DataTypeOK'
      BY <1>3 DEF HdaCleanup, Call, TypeOK, DataTypeOK, dev, chip, frame, clients, Rest
    <2>2. FlagTypeOK'
      BY <1>3 DEF HdaCleanup, Call, TypeOK, FlagTypeOK, dev, chip, frame, clients, Rest
    <2>3. QED BY <2>1, <2>2 DEF TypeOK
  <1>4. CASE HdaReset
    <2>1. DataTypeOK'
      BY <1>4, ResetAssumption DEF HdaReset, TypeOK, DataTypeOK, dev, chip, frame, clients, Rest
    <2>2. FlagTypeOK' BY <1>4 DEF HdaReset, TypeOK, FlagTypeOK, dev, chip, frame, clients, Rest
    <2>3. QED BY <2>1, <2>2 DEF TypeOK
  <1>5. CASE PlaybackPreUp
    <2>1. DataTypeOK'
      BY <1>5 DEF PlaybackPreUp, Call, TypeOK, DataTypeOK, dev, chip, frame, clients, Rest
    <2>2. FlagTypeOK'
      BY <1>5 DEF PlaybackPreUp, Call, TypeOK, FlagTypeOK, dev, chip, frame, clients, Rest
    <2>3. QED BY <2>1, <2>2 DEF TypeOK
  <1>6. CASE PlaybackPostDown
    <2>1. DataTypeOK'
      BY <1>6 DEF PlaybackPostDown, Call, TypeOK, DataTypeOK, dev, chip, frame, clients, Rest
    <2>2. FlagTypeOK'
      BY <1>6 DEF PlaybackPostDown, Call, TypeOK, FlagTypeOK, dev, chip, frame, clients, Rest
    <2>3. QED BY <2>1, <2>2 DEF TypeOK
  <1>7. CASE ProfileSet
    <2>1. DataTypeOK'
      BY <1>7 DEF ProfileSet, Call, TypeOK, DataTypeOK, dev, chip, frame, clients, Rest
    <2>2. FlagTypeOK'
      BY <1>7 DEF ProfileSet, Call, TypeOK, FlagTypeOK, dev, chip, frame, clients, Rest
    <2>3. QED BY <2>1, <2>2 DEF TypeOK
  <1>8. CASE StartupWork
    <2>1. DataTypeOK'
      BY <1>8, BoundAssumption
         DEF StartupWork, TypeOK, DataTypeOK, dev, chip, frame, clients, Rest
    <2>2. FlagTypeOK' BY <1>8 DEF StartupWork, TypeOK, FlagTypeOK, dev, chip, frame, clients, Rest
    <2>3. QED BY <2>1, <2>2 DEF TypeOK
  <1> QED BY <1>1, <1>2, <1>3, <1>4, <1>5, <1>6, <1>7, <1>8 DEF Calls

\* So does the I2S clock.
LEMMA ClockType ==
    ASSUME IInv, Clock
    PROVE  TypeOK'
  <1>1. DataTypeOK' BY DEF Clock, IInv, TypeOK, DataTypeOK, dev, frame, clients
  <1>2. FlagTypeOK' BY DEF Clock, IInv, TypeOK, FlagTypeOK, frame, clients
  <1>3. QED BY <1>1, <1>2 DEF TypeOK

-----------------------------------------------------------------------------
(* The strengthening.                                                      *)

\* aw88399_dev_fw_update mutes and bypasses before it powers up and reloads.
\* A list that fails before its first register leaves a reset chip untouched.
LEMMA FwUpdateStepSafe ==
    ASSUME IInv, TypeOK', FwUpdateStep
    PROVE  Strength'
  <1> USE BoundAssumption
     DEF IInv, AttemptBound, OnBetweenCalls, MutedUnlessOn, BypassedUnlessOn, PllOutsideWindow,
         CrcProgress, Complete, CrcOff, Untouched, Strength,
      Rest, dev, chip, frame, clients, TypeOK, DataTypeOK, FlagTypeOK, Fields,
      Labels, UpdateSteps, InitSteps, StartSteps, StopSteps, PllSteps, CrcSteps
  <1>1. CASE RegUpdate
    <2>1. pc = "reg" /\ UNCHANGED <<status, ram>> BY <1>1 DEF RegUpdate
    <2>2. CASE reg' = Written(6) /\ lost' = {} /\ pc' = "reg_pwd" /\ UNCHANGED <<frame, clients>>
      <3>1. Written(6)["hmute"] = 1 /\ Written(6)["dspby"] = 1 /\ Written(6)["memclk"] = 1
        BY WrittenValue
      <3>2. QED BY <2>1, <2>2, <3>1
    <2>3. ASSUME NEW k \in 0..5, FwReturn(FALSE), reg' = Written(k),
                 lost' = {f \in lost : Rank[f] > k}
          PROVE  Strength'
      <3> HIDE DEF Strength
      <3>1. /\ caller' = caller /\ pc' \in {"init_mute", "idle", "dev_start"}
            /\ pc' = "dev_start" => loaded' = "yes" /\ attempt' < Retries
            /\ queued' => loaded' = "yes" /\ Client = "asoc"
            /\ queued' = queued
        BY <2>1, <2>3, FwReturnEffect
      <3>2. /\ k >= 1 => reg'["hmute"] = 1 /\ reg'["pwdn"] = 1 /\ reg'["dspby"] = 1
            /\ k = 0 => \A f \in {"hmute", "pwdn", "dspby", "memclk"} : reg'[f] = reg[f]
            /\ reg'["memclk"] = (IF k >= 4 THEN 1 ELSE reg["memclk"])
        BY <2>3, WrittenValue
      <3>3. /\ "hmute" \in lost /\ k = 0 => "hmute" \in lost'
            /\ "dspby" \in lost /\ k = 0 => "dspby" \in lost'
            /\ "memclk" \in lost /\ k < 4 => "memclk" \in lost'
        BY <2>3 DEF Rank
      <3>4. Untouched => Untouched'
        BY <2>1, <2>3, <3>1, <3>2 DEF FwReturn
      <3>5. AttemptBound' /\ OnBetweenCalls' /\ CrcProgress' BY <2>1, <3>1
      <3>6. MutedUnlessOn' BY <2>1, <3>1, <3>2, <3>3, <3>4
      <3>7. BypassedUnlessOn' BY <2>1, <3>1, <3>2, <3>3, <3>4
      <3>8. PllOutsideWindow' BY <2>1, <3>1, <3>2, <3>3, <3>4
      <3>9. QED BY <3>5, <3>6, <3>7, <3>8 DEF Strength
    <2>4. QED BY <1>1, <2>2, <2>3 DEF RegUpdate
  <1>2. CASE RegPwd BY <1>2, WriteEffect DEF RegPwd, Set, Bits
  <1>3. CASE FwMute BY <1>3, WriteEffect DEF FwMute, Set, Bits
  <1>4. CASE FwBypass BY <1>4, WriteEffect DEF FwBypass, Set, Bits
  <1>5. CASE FwOsc BY <1>5, WriteEffect DEF FwOsc, Set, Bits
  <1>6. CASE CheckSram BY <1>6 DEF CheckSram, BusFault, UpDspFw
  <1>7. CASE UpFw BY <1>7 DEF UpFw, Load
  <1>8. CASE UpCfg BY <1>8 DEF UpCfg, Load
  <1>9. CASE FwDone
    <2>1. pc \in UpdateSteps /\ FwReturn(TRUE) /\ Write("memclk", 1) /\ UNCHANGED <<status, ram>>
          /\ pc \in {"fw_pll", "fw_err"}
      BY <1>9 DEF FwDone
    <2>2. /\ caller' = caller /\ pc' \in {"init_mute", "idle", "dev_start"}
          /\ pc' = "dev_start" => loaded' = "yes" /\ attempt' < Retries
          /\ queued' => loaded' = "yes" /\ Client = "asoc"
      BY <2>1, FwReturnEffect
    <2>3. QED BY <2>1, <2>2, WriteEffect DEF Bits
  <1>10. CASE FwError
    <2>1. pc \in UpdateSteps /\ FwReturn(FALSE) /\ Write("memclk", 1) /\ UNCHANGED <<status, ram>>
          /\ pc \in {"fw_pll", "fw_err"}
      BY <1>10 DEF FwError
    <2>2. /\ caller' = caller /\ pc' \in {"init_mute", "idle", "dev_start"}
          /\ pc' = "dev_start" => loaded' = "yes" /\ attempt' < Retries
          /\ queued' => loaded' = "yes" /\ Client = "asoc"
      BY <2>1, FwReturnEffect
    <2>3. QED BY <2>1, <2>2, WriteEffect DEF Bits
  <1> HIDE DEF Strength
  <1> QED BY <1>1, <1>2, <1>3, <1>4, <1>5, <1>6, <1>7, <1>8, <1>9, <1>10 DEF FwUpdateStep

\* aw88399_dev_init only mutes, bypasses and powers down.
LEMMA InitStepSafe ==
    ASSUME IInv, TypeOK', InitStep
    PROVE  Strength'
  <1> USE BoundAssumption
     DEF IInv, AttemptBound, OnBetweenCalls, MutedUnlessOn, BypassedUnlessOn, PllOutsideWindow,
         CrcProgress, Complete, CrcOff, Untouched, Strength,
      Rest, dev, chip, frame, clients, TypeOK, DataTypeOK, FlagTypeOK, Fields,
      Labels, UpdateSteps, InitSteps, StartSteps, StopSteps, PllSteps, CrcSteps
  <1>1. CASE InitMute BY <1>1, WriteEffect DEF InitMute, Set, Bits
  <1>2. CASE InitTx BY <1>2, WriteEffect DEF InitTx, Set, Bits
  <1>3. CASE InitAmppd BY <1>3, WriteEffect DEF InitAmppd, Set, Bits
  <1>4. CASE InitBypass BY <1>4, WriteEffect DEF InitBypass, Set, Bits
  <1>5. CASE InitPwd BY <1>5, WriteEffect DEF InitPwd, Bits
  <1> HIDE DEF Strength
  <1> QED BY <1>1, <1>2, <1>3, <1>4, <1>5 DEF InitStep

\* The PLL check leaves mute, bypass, clock and CRC bits alone.
LEMMA PllStepSafe ==
    ASSUME IInv, TypeOK', PllStep
    PROVE  Strength'
  <1> USE BoundAssumption
     DEF IInv, AttemptBound, OnBetweenCalls, MutedUnlessOn, BypassedUnlessOn, PllOutsideWindow,
         CrcProgress, Complete, CrcOff, Untouched, Strength,
      Rest, dev, chip, frame, clients, TypeOK, DataTypeOK, FlagTypeOK, Fields,
      Labels, UpdateSteps, InitSteps, StartSteps, StopSteps, PllSteps, CrcSteps
  <1>1. CASE Mode1 BY <1>1 DEF Mode1, Check
  <1>2. CASE Mode2 BY <1>2 DEF Mode2, Check, TrySet
  <1>3. CASE Mode2Poll BY <1>3 DEF Mode2Poll
  <1>4. CASE Mode2Back BY <1>4, WriteEffect DEF Mode2Back, Set, Bits
  <1>5. CASE Mode2Again BY <1>5 DEF Mode2Again, Check
  <1> HIDE DEF Strength
  <1> QED BY <1>1, <1>2, <1>3, <1>4, <1>5 DEF PllStep

\* The CRC checks record what they established for the steps after them.
LEMMA CrcStepSafe ==
    ASSUME IInv, TypeOK', CrcStep
    PROVE  Strength'
  <1> USE BoundAssumption
     DEF IInv, AttemptBound, OnBetweenCalls, MutedUnlessOn, BypassedUnlessOn, PllOutsideWindow,
         CrcProgress, Complete, CrcOff, Untouched, Strength,
      Rest, dev, chip, frame, clients, TypeOK, DataTypeOK, FlagTypeOK, Fields,
      Labels, UpdateSteps, InitSteps, StartSteps, StopSteps, PllSteps, CrcSteps
  <1>1. CASE CrcCg BY <1>1 DEF CrcCg, TrySet
  <1>2. CASE FwCrc BY <1>2 DEF FwCrc, TrySet
  <1>3. CASE FwCrcOff BY <1>3 DEF FwCrcOff, TrySet
  <1>4. CASE CfgCrc BY <1>4 DEF CfgCrc, TrySet
  <1>5. CASE CfgCrcOff BY <1>5 DEF CfgCrcOff, TrySet
  <1>6. CASE CrcEnd BY <1>6 DEF CrcEnd
  <1>7. CASE CrcDone BY <1>7 DEF CrcDone, TrySet
  <1>8. CASE CrcFail BY <1>8, WriteEffect DEF CrcFail, Set, Bits
  <1> HIDE DEF Strength
  <1> QED BY <1>1, <1>2, <1>3, <1>4, <1>5, <1>6, <1>7, <1>8 DEF CrcStep

\* aw88399_dev_start enables the DSP and unmutes only after the CRC checks;
\* every failure path bypasses the DSP again.
LEMMA StartStepSafe ==
    ASSUME IInv, TypeOK', StartStep
    PROVE  Strength'
  <1> USE BoundAssumption
     DEF IInv, AttemptBound, OnBetweenCalls, MutedUnlessOn, BypassedUnlessOn, PllOutsideWindow,
         CrcProgress, Complete, CrcOff, Untouched, Strength,
      Rest, dev, chip, frame, clients, TypeOK, DataTypeOK, FlagTypeOK, Fields,
      Labels, UpdateSteps, InitSteps, StartSteps, StopSteps, PllSteps, CrcSteps
  <1>1. CASE Start BY <1>1 DEF Start
  <1>2. CASE DevStart BY <1>2, WriteEffect DEF DevStart, Set, Bits
  <1>3. CASE PllStep BY <1>3, PllStepSafe
  <1>4. CASE Amppd BY <1>4, WriteEffect DEF Amppd, Set, Bits
  <1>5. CASE Sysst BY <1>5 DEF Sysst, Check
  <1>6. CASE CrcStep BY <1>6, CrcStepSafe
  <1>7. CASE DspPrep BY <1>7, WriteEffect DEF DspPrep, Set, Bits
  <1>8. CASE DspOff BY <1>8, WriteEffect DEF DspOff, Set, Bits
  <1>9. CASE DspOn BY <1>9, WriteEffect DEF DspOn, Set, Bits
  <1>10. CASE Wdt BY <1>10 DEF Wdt, Check
  <1>11. CASE TxOn BY <1>11, WriteEffect DEF TxOn, Set, Bits
  <1>12. CASE Unmute BY <1>12, WriteEffect DEF Unmute, Set, Bits
  <1>13. CASE Started BY <1>13 DEF Started
  <1>14. CASE FailBypass BY <1>14, WriteEffect DEF FailBypass, Set, Bits
  <1>15. CASE FailInt BY <1>15 DEF FailInt
  <1>16. CASE FailAmppd BY <1>16, WriteEffect DEF FailAmppd, Set, Bits
  <1>17. CASE FailPwd BY <1>17, WriteEffect DEF FailPwd, Bits
  <1> HIDE DEF Strength
  <1> QED
    BY <1>1, <1>2, <1>3, <1>4, <1>5, <1>6, <1>7, <1>8, <1>9, <1>10, <1>11,
       <1>12, <1>13, <1>14, <1>15, <1>16, <1>17
       DEF StartStep

\* aw88399_stop mutes first and bypasses the DSP before it reloads the memories.
LEMMA StopStepSafe ==
    ASSUME IInv, TypeOK', StopStep
    PROVE  Strength'
  <1> USE BoundAssumption
     DEF IInv, AttemptBound, OnBetweenCalls, MutedUnlessOn, BypassedUnlessOn, PllOutsideWindow,
         CrcProgress, Complete, CrcOff, Untouched, Strength,
      Rest, dev, chip, frame, clients, TypeOK, DataTypeOK, FlagTypeOK, Fields,
      Labels, UpdateSteps, InitSteps, StartSteps, StopSteps, PllSteps, CrcSteps
  <1>1. CASE Stop BY <1>1 DEF Stop, StopReturn
  <1>2. CASE StMute BY <1>2, WriteEffect DEF StMute, Set, Bits
  <1>3. CASE StTx BY <1>3, WriteEffect DEF StTx, Set, Bits
  <1>4. CASE StInt BY <1>4 DEF StInt
  <1>5. CASE StBypass BY <1>5, WriteEffect DEF StBypass, Set, Bits
  <1>6. CASE StAmppd BY <1>6, WriteEffect DEF StAmppd, Set, Bits
  <1>7. CASE StOsc BY <1>7, WriteEffect DEF StOsc, Set, Bits
  <1>8. CASE StFw BY <1>8 DEF StFw, Load
  <1>9. CASE StCfg BY <1>9 DEF StCfg, Load
  <1>10. CASE StPll BY <1>10, WriteEffect DEF StPll, Set, Bits
  <1>11. CASE StPwd BY <1>11, WriteEffect DEF StPwd, StopReturn, Bits
  <1> HIDE DEF Strength
  <1> QED BY <1>1, <1>2, <1>3, <1>4, <1>5, <1>6, <1>7, <1>8, <1>9, <1>10, <1>11 DEF StopStep

\* Calls begin only between calls; the reset of a chip leaves it untouched.
LEMMA CallsSafe ==
    ASSUME IInv, TypeOK', Calls
    PROVE  Strength'
  <1> USE BoundAssumption
     DEF IInv, AttemptBound, OnBetweenCalls, MutedUnlessOn, BypassedUnlessOn, PllOutsideWindow,
         CrcProgress, Complete, CrcOff, Untouched, Strength,
      Rest, dev, chip, frame, clients, TypeOK, DataTypeOK, FlagTypeOK, Fields,
      Labels, UpdateSteps, InitSteps, StartSteps, StopSteps, PllSteps, CrcSteps
  <1>1. CASE RequestFirmware BY <1>1 DEF RequestFirmware
  <1>2. CASE HdaPrepare BY <1>2 DEF HdaPrepare, Call
  <1>3. CASE HdaCleanup BY <1>3 DEF HdaCleanup, Call
  <1>4. CASE HdaReset BY <1>4, ResetAssumption DEF HdaReset
  <1>5. CASE PlaybackPreUp BY <1>5 DEF PlaybackPreUp, Call
  <1>6. CASE PlaybackPostDown BY <1>6 DEF PlaybackPostDown, Call
  <1>7. CASE ProfileSet BY <1>7 DEF ProfileSet, Call
  <1>8. CASE StartupWork BY <1>8 DEF StartupWork
  <1> HIDE DEF Strength
  <1> QED BY <1>1, <1>2, <1>3, <1>4, <1>5, <1>6, <1>7, <1>8 DEF Calls

\* The clock is no part of what the driver has established.
LEMMA ClockSafe ==
    ASSUME IInv, TypeOK', Clock
    PROVE  Strength'
  BY
     DEF IInv, AttemptBound, OnBetweenCalls, MutedUnlessOn, BypassedUnlessOn, PllOutsideWindow,
         CrcProgress, Complete, CrcOff, Untouched, Strength,
    dev, frame, clients, TypeOK, DataTypeOK, FlagTypeOK, Fields, Clock,
    Labels, UpdateSteps, InitSteps, StartSteps, StopSteps, PllSteps, CrcSteps

-----------------------------------------------------------------------------
(* Stops on a working bus.                                                 *)

\* A failing access is counted: only a behaviour that had none has MaxFaults
\* left, and then every write of it reached the chip.
LEMMA FaultCounted ==
    ASSUME TypeOK, BusFault
    PROVE  faults' # MaxFaults
  BY BoundAssumption DEF BusFault, TypeOK, DataTypeOK

\* On a working bus a write leaves its value in the chip.
LEMMA WriteReaches ==
    ASSUME TypeOK, NEW f \in Fields, NEW v \in Bits, Write(f, v), faults' = MaxFaults
    PROVE  /\ faults = MaxFaults /\ (lost = {} => lost' = {})
           /\ reg'[f] = v /\ \A g \in Fields \ {f} : reg'[g] = reg[g]
  BY FaultCounted DEF Write, TypeOK, DataTypeOK

\* An update runs on an amp that is off and ends before its power-up.
LEMMA FwUpdateStepImages ==
    ASSUME IInv, TypeOK', FwUpdateStep
    PROVE  ImagesKept'
  <1> USE FaultCounted, BoundAssumption
     DEF IInv, OnBetweenCalls, CrcProgress, ImagesKept, Complete, Powered,
      Rest, dev, chip, frame, clients, TypeOK, DataTypeOK, Fields,
      Labels, UpdateSteps, InitSteps, StartSteps, StopSteps, PllSteps, CrcSteps
  <1>1. CASE RegUpdate BY <1>1 DEF RegUpdate, FwReturn
  <1>2. CASE RegPwd BY <1>2, WriteReaches DEF RegPwd, Set, Bits
  <1>3. CASE FwMute BY <1>3, WriteReaches DEF FwMute, Set, Bits
  <1>4. CASE FwBypass BY <1>4, WriteReaches DEF FwBypass, Set, Bits
  <1>5. CASE FwOsc BY <1>5, WriteReaches DEF FwOsc, Set, Bits
  <1>6. CASE CheckSram BY <1>6 DEF CheckSram, UpDspFw
  <1>7. CASE UpFw BY <1>7 DEF UpFw, Load
  <1>8. CASE UpCfg BY <1>8 DEF UpCfg, Load
  <1>9. CASE FwDone BY <1>9, WriteReaches DEF FwDone, FwReturn, Bits
  <1>10. CASE FwError BY <1>10, WriteReaches DEF FwError, FwReturn, Bits
  <1> HIDE DEF ImagesKept
  <1> QED BY <1>1, <1>2, <1>3, <1>4, <1>5, <1>6, <1>7, <1>8, <1>9, <1>10 DEF FwUpdateStep

\* aw88399_dev_init runs on an amp that is off.
LEMMA InitStepImages ==
    ASSUME IInv, TypeOK', InitStep
    PROVE  ImagesKept'
  <1> USE FaultCounted, BoundAssumption
     DEF IInv, OnBetweenCalls, CrcProgress, ImagesKept, Complete, Powered,
      Rest, dev, chip, frame, clients, TypeOK, DataTypeOK, Fields,
      Labels, UpdateSteps, InitSteps, StartSteps, StopSteps, PllSteps, CrcSteps
  <1>1. CASE InitMute BY <1>1, WriteReaches DEF InitMute, Set, Bits
  <1>2. CASE InitTx BY <1>2, WriteReaches DEF InitTx, Set, Bits
  <1>3. CASE InitAmppd BY <1>3, WriteReaches DEF InitAmppd, Set, Bits
  <1>4. CASE InitBypass BY <1>4, WriteReaches DEF InitBypass, Set, Bits
  <1>5. CASE InitPwd BY <1>5, WriteReaches DEF InitPwd, Bits
  <1> HIDE DEF ImagesKept
  <1> QED BY <1>1, <1>2, <1>3, <1>4, <1>5 DEF InitStep

\* The PLL check leaves power and memories alone.
LEMMA PllStepImages ==
    ASSUME IInv, TypeOK', PllStep
    PROVE  ImagesKept'
  <1> USE FaultCounted, BoundAssumption
     DEF IInv, OnBetweenCalls, CrcProgress, ImagesKept, Complete, Powered,
      Rest, dev, chip, frame, clients, TypeOK, DataTypeOK, Fields,
      Labels, UpdateSteps, InitSteps, StartSteps, StopSteps, PllSteps, CrcSteps
  <1>1. CASE Mode1 BY <1>1 DEF Mode1, Check
  <1>2. CASE Mode2 BY <1>2 DEF Mode2, Check, TrySet
  <1>3. CASE Mode2Poll BY <1>3 DEF Mode2Poll
  <1>4. CASE Mode2Back
    <2>1. /\ pc = "mode2_back" /\ pc' \in {"mode2_again", "f_pwd"} /\ Write("cco", 1)
          /\ UNCHANGED <<status, ram, dsp_cfg>>
      BY <1>4 DEF Mode2Back, Set
    <2>2. QED BY <2>1, WriteReaches DEF Bits
  <1>5. CASE Mode2Again BY <1>5 DEF Mode2Again, Check
  <1> HIDE DEF ImagesKept
  <1> QED BY <1>1, <1>2, <1>3, <1>4, <1>5 DEF PllStep

\* The CRC checks leave power and memories alone.
LEMMA CrcStepImages ==
    ASSUME IInv, TypeOK', CrcStep
    PROVE  ImagesKept'
  <1> USE FaultCounted, BoundAssumption
     DEF IInv, OnBetweenCalls, CrcProgress, ImagesKept, Complete, Powered,
      Rest, dev, chip, frame, clients, TypeOK, DataTypeOK, Fields,
      Labels, UpdateSteps, InitSteps, StartSteps, StopSteps, PllSteps, CrcSteps
  <1>1. CASE CrcCg BY <1>1 DEF CrcCg, TrySet
  <1>2. CASE FwCrc BY <1>2 DEF FwCrc, TrySet
  <1>3. CASE FwCrcOff BY <1>3 DEF FwCrcOff, TrySet
  <1>4. CASE CfgCrc BY <1>4 DEF CfgCrc, TrySet
  <1>5. CASE CfgCrcOff BY <1>5 DEF CfgCrcOff, TrySet
  <1>6. CASE CrcEnd BY <1>6 DEF CrcEnd
  <1>7. CASE CrcDone BY <1>7 DEF CrcDone, TrySet
  <1>8. CASE CrcFail BY <1>8, WriteReaches DEF CrcFail, Set, Bits
  <1> HIDE DEF ImagesKept
  <1> QED BY <1>1, <1>2, <1>3, <1>4, <1>5, <1>6, <1>7, <1>8 DEF CrcStep

\* An amp that dev_start reports on is powered.
LEMMA StartStepImages ==
    ASSUME IInv, TypeOK', StartStep
    PROVE  ImagesKept'
  <1> USE FaultCounted, BoundAssumption
     DEF IInv, OnBetweenCalls, CrcProgress, ImagesKept, Complete, Powered,
      Rest, dev, chip, frame, clients, TypeOK, DataTypeOK, Fields,
      Labels, UpdateSteps, InitSteps, StartSteps, StopSteps, PllSteps, CrcSteps
  <1>1. CASE Start BY <1>1 DEF Start
  <1>2. CASE DevStart BY <1>2, WriteReaches DEF DevStart, Set, Bits
  <1>3. CASE PllStep BY <1>3, PllStepImages
  <1>4. CASE Amppd BY <1>4, WriteReaches DEF Amppd, Set, Bits
  <1>5. CASE Sysst BY <1>5 DEF Sysst, Check
  <1>6. CASE CrcStep BY <1>6, CrcStepImages
  <1>7. CASE DspPrep BY <1>7, WriteReaches DEF DspPrep, Set, Bits
  <1>8. CASE DspOff BY <1>8, WriteReaches DEF DspOff, Set, Bits
  <1>9. CASE DspOn BY <1>9, WriteReaches DEF DspOn, Set, Bits
  <1>10. CASE Wdt BY <1>10 DEF Wdt, Check
  <1>11. CASE TxOn BY <1>11, WriteReaches DEF TxOn, Set, Bits
  <1>12. CASE Unmute BY <1>12, WriteReaches DEF Unmute, Set, Bits
  <1>13. CASE Started BY <1>13 DEF Started, ClearInt
  <1>14. CASE FailBypass BY <1>14, WriteReaches DEF FailBypass, Set, Bits
  <1>15. CASE FailInt BY <1>15 DEF FailInt, ClearInt
  <1>16. CASE FailAmppd BY <1>16, WriteReaches DEF FailAmppd, Set, Bits
  <1>17. CASE FailPwd BY <1>17, WriteReaches DEF FailPwd, Bits
  <1> HIDE DEF ImagesKept
  <1> QED BY <1>1, <1>2, <1>3, <1>4, <1>5, <1>6, <1>7, <1>8, <1>9, <1>10, <1>11, <1>12, <1>13, <1>14, <1>15, <1>16, <1>17 DEF StartStep

\* aw88399_stop reloads on the oscillator of a chip that is still powered.
LEMMA StopStepImages ==
    ASSUME IInv, TypeOK', StopStep
    PROVE  ImagesKept'
  <1> USE FaultCounted, BoundAssumption
     DEF IInv, OnBetweenCalls, CrcProgress, ImagesKept, Complete, Powered,
      Rest, dev, chip, frame, clients, TypeOK, DataTypeOK, Fields,
      Labels, UpdateSteps, InitSteps, StartSteps, StopSteps, PllSteps, CrcSteps
  <1>1. CASE Stop BY <1>1 DEF Stop, StopReturn
  <1>2. CASE StMute BY <1>2, WriteReaches DEF StMute, Set, Bits
  <1>3. CASE StTx BY <1>3, WriteReaches DEF StTx, Set, Bits
  <1>4. CASE StInt BY <1>4 DEF StInt
  <1>5. CASE StBypass BY <1>5, WriteReaches DEF StBypass, Set, Bits
  <1>6. CASE StAmppd BY <1>6, WriteReaches DEF StAmppd, Set, Bits
  <1>7. CASE StOsc BY <1>7, WriteReaches DEF StOsc, Set, Bits
  <1>8. CASE StFw BY <1>8, ProfileAssumption DEF StFw, Load, Stored, RamClocked
  <1>9. CASE StCfg BY <1>9, ProfileAssumption DEF StCfg, Load, Stored, RamClocked
  <1>10. CASE StPll BY <1>10, WriteReaches DEF StPll, Set, Bits
  <1>11. CASE StPwd BY <1>11, WriteReaches DEF StPwd, StopReturn, Bits
  <1> HIDE DEF ImagesKept
  <1> QED BY <1>1, <1>2, <1>3, <1>4, <1>5, <1>6, <1>7, <1>8, <1>9, <1>10, <1>11 DEF StopStep

\* A call begins between calls; only an amp that is off is reset.
LEMMA CallsImages ==
    ASSUME IInv, TypeOK', Calls
    PROVE  ImagesKept'
  <1> USE FaultCounted, BoundAssumption
     DEF IInv, OnBetweenCalls, CrcProgress, ImagesKept, Complete, Powered,
      Rest, dev, chip, frame, clients, TypeOK, DataTypeOK, Fields,
      Labels, UpdateSteps, InitSteps, StartSteps, StopSteps, PllSteps, CrcSteps
  <1>1. CASE RequestFirmware BY <1>1 DEF RequestFirmware
  <1>2. CASE HdaPrepare BY <1>2 DEF HdaPrepare, Call
  <1>3. CASE HdaCleanup BY <1>3 DEF HdaCleanup, Call
  <1>4. CASE HdaReset BY <1>4 DEF HdaReset
  <1>5. CASE PlaybackPreUp BY <1>5 DEF PlaybackPreUp, Call
  <1>6. CASE PlaybackPostDown BY <1>6 DEF PlaybackPostDown, Call
  <1>7. CASE ProfileSet BY <1>7 DEF ProfileSet, Call
  <1>8. CASE StartupWork BY <1>8 DEF StartupWork
  <1> HIDE DEF ImagesKept
  <1> QED BY <1>1, <1>2, <1>3, <1>4, <1>5, <1>6, <1>7, <1>8 DEF Calls

\* The clock is no part of it either: the oscillator is what reloads use.
LEMMA ClockImages ==
    ASSUME IInv, TypeOK', Clock
    PROVE  ImagesKept'
  BY DEF IInv, ImagesKept, Complete, Clock, dev, frame, clients

-----------------------------------------------------------------------------
(* The theorems.                                                           *)

\* The initial states satisfy the invariant.
LEMMA InitIInv ==
    Init => IInv
  <1> SUFFICES ASSUME Init PROVE IInv OBVIOUS
  <1>1. DataTypeOK
    BY ProfileAssumption, ResetAssumption, BoundAssumption DEF Init, DataTypeOK, Labels
  <1>2. FlagTypeOK BY DEF Init, FlagTypeOK
  <1>3. /\ reg["pwdn"] = 1 /\ reg["dspby"] = 1 /\ pc = "idle" /\ status = "PW_OFF"
        /\ caller = "init" /\ queued = FALSE
    BY ResetAssumption DEF Init
  <1>4. AttemptBound /\ OnBetweenCalls /\ CrcProgress
    BY <1>3 DEF AttemptBound, OnBetweenCalls, CrcProgress, UpdateSteps, StartSteps, StopSteps,
                PllSteps, CrcSteps
  <1>5. MutedUnlessOn /\ BypassedUnlessOn /\ PllOutsideWindow
    BY <1>3 DEF MutedUnlessOn, BypassedUnlessOn, PllOutsideWindow, Untouched
  <1>6. ImagesKept
    BY <1>3 DEF Init, ImagesKept, Powered, StopSteps, PllSteps, CrcSteps
  <1>7. QED BY <1>1, <1>2, <1>4, <1>5, <1>6 DEF IInv, TypeOK

\* Every step keeps it.
LEMMA NextIInv ==
    IInv /\ [Next]_vars => IInv'
  <1> SUFFICES ASSUME IInv, [Next]_vars PROVE IInv' OBVIOUS
  <1>1. CASE FwUpdateStep
    BY <1>1, FwUpdateStepType, FwUpdateStepSafe, FwUpdateStepImages DEF IInv, Strength
  <1>2. CASE InitStep BY <1>2, InitStepType, InitStepSafe, InitStepImages DEF IInv, Strength
  <1>3. CASE StartStep BY <1>3, StartStepType, StartStepSafe, StartStepImages DEF IInv, Strength
  <1>4. CASE StopStep BY <1>4, StopStepType, StopStepSafe, StopStepImages DEF IInv, Strength
  <1>5. CASE Calls BY <1>5, CallsType, CallsSafe, CallsImages DEF IInv, Strength
  <1>6. CASE Clock BY <1>6, ClockType, ClockSafe, ClockImages DEF IInv, Strength
  <1>7. CASE UNCHANGED vars
    <2>1. DataTypeOK' /\ FlagTypeOK'
      BY <1>7 DEF IInv, TypeOK, DataTypeOK, FlagTypeOK, vars, dev, chip, frame, clients
    <2>2. AttemptBound' /\ OnBetweenCalls' /\ MutedUnlessOn' /\ BypassedUnlessOn'
      BY <1>7 DEF IInv, AttemptBound, OnBetweenCalls, MutedUnlessOn, BypassedUnlessOn,
                  Untouched, vars, dev, chip, frame, clients
    <2>3. PllOutsideWindow' /\ CrcProgress'
      BY <1>7 DEF IInv, PllOutsideWindow, CrcProgress, Complete, CrcOff, Untouched,
                  vars, dev, chip, frame, clients
    <2>4. ImagesKept'
      BY <1>7 DEF IInv, ImagesKept, Complete, vars, dev, chip, frame, clients
    <2>5. QED BY <2>1, <2>2, <2>3, <2>4 DEF IInv, TypeOK
  <1>8. QED BY <1>1, <1>2, <1>3, <1>4, <1>5, <1>6, <1>7 DEF Next, Step

\* The inductive invariant holds of every behaviour, whatever accesses fail.
THEOREM InvariantHolds == Spec => []IInv
  BY InitIInv, NextIInv, PTL DEF Spec

\* Type correctness: every register bit, memory and step stays in its range,
\* the retries of start_pa included.
THEOREM TypeCorrect == Spec => []TypeOK
  <1>1. IInv => TypeOK BY DEF IInv
  <1>2. QED BY <1>1, InvariantHolds, PTL

\* An amp that the driver reports off is silent, for any number of failing bus
\* accesses as long as the mute write itself was not lost.
THEOREM SilenceCorrect == Spec => []SilentWhenOff
  <1>1. IInv => SilentWhenOff
    BY DEF IInv, MutedUnlessOn, Untouched, SilentWhenOff, Audible
  <1>2. QED BY <1>1, InvariantHolds, PTL

\* aw88399_dev_start reports PW_ON only for DSP memories that passed the CRC
\* checks, with the CRC engines and the RAM clock gate switched back.
THEOREM VerifiedWhenOn == Spec => []OnIsVerified
  <1>1. IInv => OnIsVerified
    BY DEF IInv, CrcProgress, CrcOff, OnIsVerified
  <1>2. QED BY <1>1, InvariantHolds, PTL

\* The DSP never runs on the oscillator that reloads use.
THEOREM PllUnderDsp == Spec => []DspOnPll
  <1>1. IInv => DspOnPll
    BY DEF IInv, OnBetweenCalls, BypassedUnlessOn, PllOutsideWindow, Untouched, DspOnPll
  <1>2. QED BY <1>1, InvariantHolds, PTL

\* An idle amp that is off has its DSP bypassed, whichever way dev_start and
\* its retries failed.
THEOREM BypassedWhenOff == Spec => []DspBypassedWhenOff
  <1>1. IInv => DspBypassedWhenOff
    BY DEF IInv, BypassedUnlessOn, DspBypassedWhenOff
  <1>2. QED BY <1>1, InvariantHolds, PTL

\* A stop on a working bus powers the chip down with complete DSP images, also
\* when the stream's clock failed and it had to reload them.
THEOREM StopsWithImages == Spec => []StopKeepsImages
  <1>1. IInv => StopKeepsImages
    BY DEF IInv, ImagesKept, StopKeepsImages
  <1>2. QED BY <1>1, InvariantHolds, PTL

\* A DSP memory changes under a call only at the five steps that load it or
\* test it; at each of them the DSP is bypassed.
THEOREM LoadsInBypass == Spec => RamWrittenInBypass
  <1> DEFINE Bypassed == reg["dspby"] = 1 \/ "dspby" \in lost
  <1> DEFINE Loads == {"sram", "up_fw", "up_cfg", "st_fw", "st_cfg"}
  <1>1. IInv /\ pc \in Loads => Bypassed
    BY DEF IInv, OnBetweenCalls, BypassedUnlessOn
  <1>2. ASSUME [Next]_vars, pc # "idle", ram' # ram PROVE pc \in Loads
    <2>1. CASE FwUpdateStep
      BY <1>2, <2>1 DEF FwUpdateStep, RegUpdate, RegPwd, FwMute, FwBypass, FwOsc, CheckSram,
                        UpFw, UpCfg, FwDone, FwError, Set, Load, Rest
    <2>2. CASE InitStep
      BY <1>2, <2>2 DEF InitStep, InitMute, InitTx, InitAmppd, InitBypass, InitPwd, Set, Rest
    <2>3. CASE StartStep
      <3>1. CASE PllStep
        BY <1>2, <3>1 DEF PllStep, Mode1, Mode2, Mode2Poll, Mode2Back, Mode2Again,
                          Set, TrySet, Check, Rest, chip
      <3>2. CASE CrcStep
        BY <1>2, <3>2 DEF CrcStep, CrcCg, FwCrc, FwCrcOff, CfgCrc, CfgCrcOff, CrcEnd, CrcDone,
                          CrcFail, Set, TrySet, Rest
      <3>3. QED
        BY <1>2, <2>3, <3>1, <3>2
           DEF StartStep, Start, DevStart, Amppd, Sysst, DspPrep, DspOff, DspOn, Wdt, TxOn,
               Unmute, Started, FailBypass, FailInt, FailAmppd, FailPwd, Set, Check, Rest, chip
    <2>4. CASE StopStep
      BY <1>2, <2>4 DEF StopStep, Stop, StMute, StTx, StInt, StBypass, StAmppd, StOsc, StFw,
                        StCfg, StPll, StPwd, Set, Load, Rest, chip
    <2>5. CASE Calls
      BY <1>2, <2>5 DEF Calls, RequestFirmware, HdaPrepare, HdaCleanup, HdaReset, PlaybackPreUp,
                        PlaybackPostDown, ProfileSet, StartupWork, Call, chip
    <2>6. CASE Clock \/ UNCHANGED vars BY <1>2, <2>6 DEF Clock, vars, chip
    <2>7. QED BY <1>2, <2>1, <2>2, <2>3, <2>4, <2>5, <2>6 DEF Next, Step
  <1>3. IInv /\ [Next]_vars => [pc # "idle" /\ ram' # ram => Bypassed]_vars
    BY <1>1, <1>2
  <1>4. QED BY <1>3, InvariantHolds, PTL DEF Spec, RamWrittenInBypass
=============================================================================
