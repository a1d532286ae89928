----------------------------- MODULE Aw88399Amp -----------------------------
(***************************************************************************)
(* One AW88399 amplifier: the core driver soc-codecs/aw88399.c and the     *)
(* chip behind it.  The driver is one thread of control at a time (the     *)
(* HDA component mutex or aw88399->lock serialises its callers), so the    *)
(* module runs one call at a time, step by step, while the environment     *)
(* starts and stops the I2S clock and the I2C bus loses transfers.         *)
(*                                                                         *)
(* A step is one helper of the source (one register access and what the    *)
(* driver does with its result).  `reg' holds the control bits of the chip *)
(* with the values of aw88399.h: pwdn, amppd, hmute (1 = down / muted),    *)
(* dspby (1 = DSP bypassed), txen (I2S TX feedback), cfg1b9 (bit 9 of      *)
(* I2SCFG1), memclk (1 = PLL, 0 = oscillator), cco (1 = bypass, 0 =        *)
(* divided), ramcg (1 = clock gate bypassed), crccode and crccfg (CRC      *)
(* engines).  `ram' says which profile's image the DSP program and         *)
(* configuration memories hold, Torn when no complete one.                 *)
(* Left out as data: volume and fades, dither, calibration values, modes.  *)
(***************************************************************************)
EXTENDS Naturals

CONSTANTS
    Profiles,      \* the profiles of the ACF container
    FirstProfile,  \* prof_desc[0], loaded by dev_init
    RegData,       \* the register list of each profile, as control bits
    Torn,          \* contents of a memory that holds no complete image
    ResetRegs,     \* the control bits after a hardware reset
    Retries,       \* AW88399_START_RETRIES
    MaxFaults,     \* bound: failing I2C accesses in one behaviour
    Client         \* who drives the amp: "hda" or "asoc"

Fields == {"pwdn", "amppd", "dspby", "hmute", "txen", "cfg1b9", "ramcg",
           "memclk", "crccode", "crccfg", "cco"}
Bits == {0, 1}

ASSUME ProfileAssumption == FirstProfile \in Profiles /\ Torn \notin Profiles

\* Bit values of the containers shipped in firmware/: DBGCTRL selects the PLL
\* as memory clock and CRCCTRL leaves both CRC engines disabled.
ASSUME RegDataAssumption ==
    /\ RegData \in [Profiles -> [Fields -> Bits]]
    /\ \A p \in Profiles : /\ RegData[p]["memclk"] = 1
                           /\ RegData[p]["crccode"] = 0
                           /\ RegData[p]["crccfg"] = 0

\* A chip just reset is powered down and its DSP is bypassed.
ASSUME ResetAssumption ==
    /\ ResetRegs \in [Fields -> Bits]
    /\ ResetRegs["pwdn"] = 1 /\ ResetRegs["dspby"] = 1

ASSUME BoundAssumption ==
    /\ Retries \in Nat \ {0} /\ MaxFaults \in Nat
    /\ Client \in {"hda", "asoc"}

VARIABLES
    status, fw_status, dsp_cfg, prof_cur, prof_index,  \* struct aw_device
    reg, lost, ram, sysint,                            \* the chip
    clk, faults,                                       \* its environment
    pc, caller, attempt, ret,                          \* the call under way
    loaded, queued, restart, dapm                      \* the callers

dev  == <<status, fw_status, dsp_cfg, prof_cur, prof_index>>
chip == <<reg, lost, ram, sysint>>
frame == <<caller, attempt, ret>>
clients == <<loaded, queued, restart, dapm>>
vars == <<dev, chip, clk, faults, pc, frame, clients>>

UpdateSteps == {"reg", "reg_pwd", "fw_mute", "fw_bypass", "fw_osc", "sram",
                "up_fw", "up_cfg", "fw_pll", "fw_err"}
InitSteps   == {"init_mute", "init_tx", "init_amppd", "init_bypass", "init_pwd"}
PllSteps    == {"mode1", "mode2", "mode2_poll", "mode2_back", "mode2_again"}
CrcSteps    == {"crc_cg", "fwcrc", "fwcrc_off", "cfgcrc", "cfgcrc_off",
                "crc_end", "crc_done", "crc_fail"}
StartSteps  == PllSteps \cup CrcSteps \cup
               {"start", "dev_start", "amppd", "sysst", "dsp_prep", "dsp_off",
                "dsp_on", "wdt", "tx_on", "unmute", "started",
                "f_bypass", "f_int", "f_amppd", "f_pwd"}
StopSteps   == {"stop", "st_mute", "st_tx", "st_int", "st_bypass", "st_amppd",
                "st_osc", "st_fw", "st_cfg", "st_pll", "st_pwd"}
Labels == {"idle"} \cup UpdateSteps \cup InitSteps \cup StartSteps \cup StopSteps

DataTypeOK ==
    /\ status \in {"PW_OFF", "PW_ON"}
    /\ fw_status \in {"FW_FAILED", "FW_OK"}
    /\ dsp_cfg \in {"WORK", "BYPASS"}
    /\ prof_cur \in Profiles /\ prof_index \in Profiles
    /\ reg \in [Fields -> Bits] /\ lost \in SUBSET Fields
    /\ ram \in [{"fw", "cfg"} -> Profiles \cup {Torn}]
    /\ faults \in 0..MaxFaults
    /\ pc \in Labels
    /\ caller \in {"init", "sync", "async", "retry"}
    /\ attempt \in 0..Retries
    /\ loaded \in {"no", "yes", "failed"}

FlagTypeOK ==
    /\ sysint \in BOOLEAN /\ clk \in BOOLEAN /\ ret \in BOOLEAN
    /\ queued \in BOOLEAN /\ restart \in BOOLEAN /\ dapm \in BOOLEAN

TypeOK == DataTypeOK /\ FlagTypeOK

Init ==
    /\ status = "PW_OFF" /\ fw_status = "FW_FAILED" /\ dsp_cfg = "WORK"
    /\ prof_cur = FirstProfile /\ prof_index = FirstProfile
    /\ reg = ResetRegs /\ lost = {}
    /\ ram = [m \in {"fw", "cfg"} |-> Torn]
    /\ sysint = FALSE /\ clk \in BOOLEAN /\ faults = MaxFaults
    /\ pc = "idle" /\ caller = "init" /\ attempt = 0 /\ ret = FALSE
    /\ loaded = "no" /\ queued = FALSE /\ restart = FALSE /\ dapm = FALSE

-----------------------------------------------------------------------------
(* Register accesses.                                                      *)

BusFault == faults > 0 /\ faults' = faults - 1

\* A write whose result the driver ignores.  `lost' collects the fields whose
\* last such write did not reach the chip: the driver believes the new value.
Write(f, v) ==
    \/ /\ reg' = [reg EXCEPT ![f] = v]
       /\ lost' = lost \ {f}
       /\ UNCHANGED faults
    \/ /\ BusFault
       /\ lost' = IF reg[f] = v THEN lost \ {f} ELSE lost \cup {f}
       /\ UNCHANGED reg

Rest == <<dev, frame, clients, clk, ram, sysint>>

\* Step `from': write v to f, whatever comes of it, and go on at `to'.
Set(from, f, v, to) ==
    pc = from /\ pc' = to /\ Write(f, v) /\ UNCHANGED Rest

\* Step `from': a write whose failure the caller sees.
TrySet(from, f, v, ok, err) ==
    /\ pc = from
    /\ \/ /\ pc' = ok /\ reg' = [reg EXCEPT ![f] = v]
          /\ lost' = lost \ {f} /\ UNCHANGED faults
       \/ pc' = err /\ BusFault /\ UNCHANGED <<reg, lost>>
    /\ UNCHANGED Rest

\* Step `from': poll a status register for `cond'.
Check(from, cond, ok, err) ==
    /\ pc = from
    /\ \/ cond /\ pc' = ok /\ UNCHANGED faults
       \/ ~cond /\ pc' = err /\ UNCHANGED faults
       \/ BusFault /\ pc' = err
    /\ UNCHANGED <<Rest, reg, lost>>

\* What the chip answers: the PLL locks on a running clock when powered, and
\* the DSP memories need a clock.
Locked == clk /\ reg["pwdn"] = 0
RamClocked == reg["pwdn"] = 0 /\ (reg["memclk"] = 0 \/ clk)
Stored(p) == IF RamClocked THEN p ELSE Torn

-----------------------------------------------------------------------------
(* aw88399_dev_fw_update: register list, firmware and configuration.       *)

\* The register list is written in address order: SYSCTRL, I2SCTRL3, I2SCFG1,
\* DBGCTRL, CRCCTRL, PLLCTRL2.
Rank == [f \in Fields |->
           CASE f \in {"pwdn", "amppd", "dspby", "hmute"} -> 1
             [] f = "txen"                                -> 2
             [] f \in {"cfg1b9", "ramcg"}                 -> 3
             [] f = "memclk"                              -> 4
             [] f \in {"crccode", "crccfg"}               -> 5
             [] f = "cco"                                 -> 6]

\* Mutants: the mute bit, the DSP bypass bit is not forced into the list.
ListedUnmuted(p) == [f \in Fields |-> IF f \in {"pwdn", "dspby"} THEN 1
                                      ELSE IF f = "txen" THEN 0 ELSE RegData[p][f]]
ListedDspOn(p)   == [f \in Fields |-> IF f \in {"hmute", "pwdn"} THEN 1
                                      ELSE IF f = "txen" THEN 0 ELSE RegData[p][f]]

\* The container's value of a field, with the bits the driver forces.
Listed(p) == [f \in Fields |-> IF f \in {"hmute", "pwdn", "dspby"} THEN 1
                               ELSE IF f = "txen" THEN 0 ELSE RegData[p][f]]

Written(k) == [f \in Fields |-> IF Rank[f] <= k THEN Listed(prof_index)[f] ELSE reg[f]]

DspCfgOf(p) == IF RegData[p]["dspby"] = 1 THEN "BYPASS" ELSE "WORK"

\* Mutant: the attempts of start_pa are not counted.
AttemptedNot == attempt

\* The loop of start_pa: the attempts made, and whether another one is left.
Attempted == attempt + 1
MayRetry == Attempted < Retries

\* fw_update returns to dev_init, to aw88399_start or to the loop of start_pa.
FwReturn(ok) ==
    /\ caller' = caller
    /\ pc' = CASE caller = "init"  -> IF ok THEN "init_mute" ELSE "idle"
               [] caller = "sync"  -> IF ok THEN "dev_start" ELSE "idle"
               [] caller = "async" -> "idle"
               [] caller = "retry" -> IF MayRetry THEN "dev_start" ELSE "idle"
    /\ attempt' = IF caller = "retry" THEN Attempted ELSE 0
    /\ queued' = (queued \/ (caller = "async" /\ ok))
    /\ loaded' = IF caller = "init" /\ ~ok THEN "failed" ELSE loaded
    /\ UNCHANGED <<ret, restart, dapm>>

RegUpdate ==
    /\ pc = "reg"
    /\ \/ /\ reg' = Written(6) /\ lost' = {} /\ UNCHANGED faults
          /\ dsp_cfg' = DspCfgOf(prof_index)
          /\ pc' = "reg_pwd" /\ UNCHANGED <<frame, clients>>
       \/ /\ BusFault /\ \E k \in 0..5 :
               /\ reg' = Written(k) /\ lost' = {f \in lost : Rank[f] > k}
               /\ dsp_cfg' \in {DspCfgOf(prof_index)} \cup IF k = 0 THEN {dsp_cfg} ELSE {}
          /\ FwReturn(FALSE)
    /\ UNCHANGED <<status, fw_status, prof_cur, prof_index, ram, sysint, clk>>

RegPwd == Set("reg_pwd", "pwdn", 0, "fw_mute")
FwMute == Set("fw_mute", "hmute", 1, "fw_bypass")

FwBypass ==
    \/ dsp_cfg = "WORK" /\ Set("fw_bypass", "dspby", 1, "fw_osc")
    \/ /\ dsp_cfg = "BYPASS" /\ pc = "fw_bypass" /\ pc' = "fw_osc"
       /\ UNCHANGED <<Rest, reg, lost, faults>>

FwOsc == Set("fw_osc", "memclk", 0, "sram")

\* Mutant: the retries of start_pa do not force the firmware.
UpDspFwInit == caller = "init"

\* dev_init and the retries of start_pa load the firmware too.
UpDspFw == caller \in {"init", "retry"}

\* The check writes a test pattern over the start of the configuration memory.
CheckSram ==
    /\ pc = "sram"
    /\ \/ /\ RamClocked /\ ram' = [ram EXCEPT !["cfg"] = Torn]
          /\ pc' = (IF UpDspFw THEN "up_fw" ELSE "up_cfg") /\ UNCHANGED faults
       \/ ~RamClocked /\ pc' = "fw_err" /\ UNCHANGED <<faults, ram>>
       \/ BusFault /\ pc' = "fw_err" /\ ram' \in {ram, [ram EXCEPT !["cfg"] = Torn]}
    /\ UNCHANGED <<dev, frame, clients, clk, sysint, reg, lost>>

\* Step `from': write an image to memory m; `fails' are the contents a failing
\* update may leave.
Load(from, m, p, fails, ok, err) ==
    /\ pc = from
    /\ \/ ram' = [ram EXCEPT ![m] = Stored(p)] /\ pc' = ok /\ UNCHANGED faults
       \/ \E x \in fails : ram' = [ram EXCEPT ![m] = x] /\ pc' = err /\ BusFault
    /\ UNCHANGED <<dev, frame, clients, clk, sysint, reg, lost>>

UpFw == Load("up_fw", "fw", prof_index, {Torn}, "up_cfg", "fw_err")

\* The configuration may be complete and only the read of RA fail.
UpCfg == Load("up_cfg", "cfg", prof_index, {Torn, Stored(prof_index)}, "fw_pll", "fw_err")

FwDone ==
    /\ pc = "fw_pll" /\ Write("memclk", 1)
    /\ prof_cur' = prof_index /\ FwReturn(TRUE)
    /\ UNCHANGED <<status, fw_status, dsp_cfg, prof_index, ram, sysint, clk>>

\* Mutant: the error path leaves the memories on the oscillator.
FwErrorOnOsc ==
    /\ pc = "fw_err" /\ FwReturn(FALSE)
    /\ UNCHANGED <<dev, chip, clk, faults>>

FwError ==
    /\ pc = "fw_err" /\ Write("memclk", 1) /\ FwReturn(FALSE)
    /\ UNCHANGED <<dev, ram, sysint, clk>>

-----------------------------------------------------------------------------
(* aw88399_request_firmware_file and aw88399_dev_init.                     *)

\* Loading and parsing the container may fail; then nothing uses the amp.
RequestFirmware ==
    /\ pc = "idle" /\ loaded = "no"
    /\ \/ /\ fw_status' = "FW_FAILED" /\ loaded' = "failed"
          /\ UNCHANGED <<prof_cur, prof_index, pc, caller>>
       \/ /\ fw_status' = "FW_OK" /\ loaded' = loaded
          /\ prof_cur' = FirstProfile /\ prof_index' = FirstProfile
          /\ pc' = "reg" /\ caller' = "init"
    /\ UNCHANGED <<status, dsp_cfg, chip, clk, faults, attempt, ret, queued, restart, dapm>>

InitMute   == Set("init_mute", "hmute", 1, "init_tx")
InitTx     == Set("init_tx", "cfg1b9", 0, "init_amppd")
InitAmppd  == Set("init_amppd", "amppd", 1, "init_bypass")
InitBypass == Set("init_bypass", "dspby", 1, "init_pwd")

InitPwd ==
    /\ pc = "init_pwd" /\ pc' = "idle" /\ Write("pwdn", 1) /\ loaded' = "yes"
    /\ UNCHANGED <<dev, frame, ram, sysint, clk, queued, restart, dapm>>

-----------------------------------------------------------------------------
(* aw88399_start, aw88399_start_pa and aw88399_dev_start.                  *)

Start ==
    /\ pc = "start"
    /\ pc' = IF fw_status # "FW_OK" \/ status = "PW_ON" THEN "idle" ELSE "reg"
    /\ UNCHANGED <<dev, chip, clk, faults, frame, clients>>

\* The early return for an amp already on is never taken: no caller gets here
\* with one, or this step would deadlock.
DevStart == status = "PW_OFF" /\ Set("dev_start", "pwdn", 0, "mode1")

Mode1 == Check("mode1", Locked, "amppd", "mode2")

Mode2 ==
    \/ reg["cco"] = 1 /\ TrySet("mode2", "cco", 0, "mode2_poll", "f_pwd")
    \/ reg["cco"] = 0 /\ Check("mode2", FALSE, "f_pwd", "f_pwd")

Mode2Poll ==
    /\ pc = "mode2_poll" /\ pc' = "mode2_back"
    /\ \/ ret' = Locked /\ UNCHANGED faults
       \/ ret' = FALSE /\ BusFault
    /\ UNCHANGED <<dev, chip, clk, caller, attempt, clients>>

\* Mutant: the fallback leaves the PLL clock divided.
Mode2Stays == /\ pc = "mode2_back" /\ pc' = (IF ret THEN "mode2_again" ELSE "f_pwd")
              /\ UNCHANGED <<Rest, reg, lost, faults>>

Mode2Back  == Set("mode2_back", "cco", 1, IF ret THEN "mode2_again" ELSE "f_pwd")
Mode2Again == Check("mode2_again", Locked, "amppd", "f_pwd")
Amppd      == Set("amppd", "amppd", 0, "sysst")

\* With the noise gate off the output stage must be seen switching.
Sysst ==
    \E noise_gate \in BOOLEAN :
        Check("sysst", Locked /\ (noise_gate \/ reg["amppd"] = 0),
              IF dsp_cfg = "WORK" THEN "crc_cg" ELSE "tx_on", "f_int")

CrcCg    == TrySet("crc_cg", "ramcg", 1, "fwcrc", "f_bypass")
FwCrc    == TrySet("fwcrc", "crccode", 1, "fwcrc_off", "crc_fail")

\* A failing read of the result is not noticed and counts as a bad checksum.
FwCrcOff ==
    \/ TrySet("fwcrc_off", "crccode", 0,
              IF ram["fw"] # Torn THEN "cfgcrc" ELSE "crc_fail", "crc_fail")
    \/ /\ pc = "fwcrc_off" /\ BusFault /\ pc' = "crc_fail"
       /\ reg' = [reg EXCEPT !["crccode"] = 0] /\ lost' = lost \ {"crccode"}
       /\ UNCHANGED Rest

\* Mutant: the verdict on the configuration memory is not looked at.
CfgCrcUnread == TrySet("cfgcrc_off", "crccfg", 0, "crc_end", "crc_fail")

CfgCrc    == TrySet("cfgcrc", "crccfg", 1, "cfgcrc_off", "crc_fail")
CfgCrcOff == TrySet("cfgcrc_off", "crccfg", 0,
                    IF ram["cfg"] # Torn THEN "crc_end" ELSE "crc_fail", "crc_fail")

\* CRCCTRL gets its initial value back, in which both engines are disabled.
CrcEnd ==
    /\ pc = "crc_end"
    /\ \/ /\ pc' = "crc_done" /\ UNCHANGED faults
          /\ reg' = [reg EXCEPT !["crccode"] = 0, !["crccfg"] = 0]
          /\ lost' = lost \ {"crccode", "crccfg"}
       \/ pc' = "f_bypass" /\ BusFault /\ UNCHANGED <<reg, lost>>
    /\ UNCHANGED Rest

CrcDone == TrySet("crc_done", "ramcg", 0, "dsp_prep", "f_bypass")
CrcFail == Set("crc_fail", "ramcg", 0, "f_bypass")
DspPrep == Set("dsp_prep", "dspby", 1, "dsp_off")
DspOff  == Set("dsp_off", "dspby", 1, "dsp_on")
DspOn   == Set("dsp_on", "dspby", 0, "wdt")

\* Mutant: a dead DSP is given up without bypassing it.
WdtNoBypass ==
    \E luck \in BOOLEAN :
        Check("wdt", /\ Locked /\ reg["dspby"] = 0
                     /\ luck \/ (ram["fw"] # Torn /\ ram["cfg"] # Torn),
              "tx_on", "f_int")

\* A DSP that runs complete images counts; on torn ones it may or may not.
Wdt ==
    \E luck \in BOOLEAN :
        Check("wdt", /\ Locked /\ reg["dspby"] = 0
                     /\ luck \/ (ram["fw"] # Torn /\ ram["cfg"] # Torn),
              "tx_on", "f_bypass")

TxOn    == Set("tx_on", "txen", 1, "unmute")
Unmute  == Set("unmute", "hmute", 0, "started")

\* Reading SYSINT clears the pending interrupts.
ClearInt ==
    \/ sysint' = FALSE /\ UNCHANGED faults
    \/ sysint' = sysint /\ BusFault

Started ==
    /\ pc = "started" /\ pc' = "idle" /\ ClearInt /\ status' = "PW_ON"
    /\ UNCHANGED <<fw_status, dsp_cfg, prof_cur, prof_index, reg, lost, ram, clk, frame, clients>>

FailBypass == Set("f_bypass", "dspby", 1, "f_int")

FailInt ==
    /\ pc = "f_int" /\ pc' = "f_amppd" /\ ClearInt
    /\ UNCHANGED <<dev, reg, lost, ram, clk, frame, clients>>

FailAmppd == Set("f_amppd", "amppd", 1, "f_pwd")

\* dev_start gives up; start_pa reloads firmware and configuration, by force.
FailPwd ==
    /\ pc = "f_pwd" /\ Write("pwdn", 1) /\ status' = "PW_OFF"
    /\ pc' = "reg" /\ caller' = "retry"
    /\ UNCHANGED <<fw_status, dsp_cfg, prof_cur, prof_index, ram, sysint, clk>>
    /\ UNCHANGED <<attempt, ret, clients>>

-----------------------------------------------------------------------------
(* aw88399_stop.                                                           *)

\* profile_set starts the amp again after it stopped it.
StopReturn ==
    /\ pc' = IF restart THEN "start" ELSE "idle"
    /\ caller' = IF restart THEN "sync" ELSE caller
    /\ restart' = FALSE
    /\ UNCHANGED <<attempt, ret, loaded, queued, dapm>>

Stop ==
    /\ pc = "stop"
    /\ \/ status = "PW_OFF" /\ StopReturn /\ UNCHANGED status
       \/ /\ status = "PW_ON" /\ status' = "PW_OFF" /\ pc' = "st_mute"
          /\ UNCHANGED <<frame, clients>>
    /\ UNCHANGED <<fw_status, dsp_cfg, prof_cur, prof_index, chip, clk, faults>>

StMute   == Set("st_mute", "hmute", 1, "st_tx")
StTx     == Set("st_tx", "cfg1b9", 0, "st_int")

\* check_sysint tests an uninitialised value when the read fails.
StInt ==
    /\ pc = "st_int" /\ pc' = "st_bypass"
    /\ \/ ret' = sysint /\ sysint' = FALSE /\ UNCHANGED faults
       \/ ret' \in BOOLEAN /\ sysint' = sysint /\ BusFault
    /\ UNCHANGED <<dev, reg, lost, ram, clk, caller, attempt, clients>>

\* Mutants: the DSP runs on while its memories are reloaded; the memories are
\* reloaded on the stream's clock; the chip keeps its power.
StBypassSkipped == /\ pc = "st_bypass" /\ pc' = "st_amppd"
                   /\ UNCHANGED <<Rest, reg, lost, faults>>
StOscPll == Set("st_osc", "memclk", 1, "st_fw")
StPwdSkipped == /\ pc = "st_pwd" /\ StopReturn
                /\ UNCHANGED <<dev, chip, clk, faults>>

StBypass == Set("st_bypass", "dspby", 1, "st_amppd")
StAmppd  == Set("st_amppd", "amppd", 1, IF ret THEN "st_osc" ELSE "st_pwd")
StOsc    == Set("st_osc", "memclk", 0, "st_fw")
StFw     == Load("st_fw", "fw", prof_cur, {Torn}, "st_cfg", "st_cfg")
StCfg    == Load("st_cfg", "cfg", prof_cur, {Torn, Stored(prof_cur)}, "st_pll", "st_pll")
StPll    == Set("st_pll", "memclk", 1, "st_pwd")

StPwd ==
    /\ pc = "st_pwd" /\ Write("pwdn", 1) /\ StopReturn
    /\ UNCHANGED <<dev, ram, sysint, clk>>

-----------------------------------------------------------------------------
(* The callers.                                                            *)

Call(entry, how) ==
    /\ pc = "idle" /\ loaded = "yes" /\ pc' = entry /\ caller' = how
    /\ UNCHANGED <<status, fw_status, dsp_cfg, prof_cur, chip, clk, faults,
                   attempt, ret, loaded>>

\* HDA: the PREPARE hook starts the amp; CLEANUP and CLOSE stop it.
HdaPrepare == /\ Client = "hda" /\ Call("start", "sync")
              /\ UNCHANGED <<prof_index, queued, restart, dapm>>
HdaCleanup == /\ Client = "hda" /\ Call("stop", "sync")
              /\ UNCHANGED <<prof_index, queued, restart, dapm>>

\* HDA system resume pulses the reset line of an amp that suspend stopped.
HdaReset ==
    /\ Client = "hda" /\ pc = "idle" /\ loaded = "yes" /\ status = "PW_OFF"
    /\ reg' = ResetRegs /\ lost' = {} /\ sysint' = FALSE
    /\ ram' = [m \in {"fw", "cfg"} |-> Torn]
    /\ UNCHANGED <<dev, clk, faults, pc, frame, clients>>

\* ASoC: DAPM powers the playback widget up and down, in turn.
PlaybackPreUp ==
    /\ Client = "asoc" /\ ~dapm /\ dapm' = TRUE
    /\ queued' = FALSE /\ Call("start", "async") /\ UNCHANGED <<prof_index, restart>>

\* Mutant: powering down does not cancel the start work.
PlaybackPostDownUncancelled ==
    /\ Client = "asoc" /\ dapm /\ dapm' = FALSE
    /\ Call("stop", "async") /\ UNCHANGED <<prof_index, queued, restart>>

PlaybackPostDown ==
    /\ Client = "asoc" /\ dapm /\ dapm' = FALSE
    /\ queued' = FALSE /\ Call("stop", "async") /\ UNCHANGED <<prof_index, restart>>

\* The profile control selects another profile and restarts a running amp.
ProfileSet ==
    /\ Client = "asoc" /\ pc = "idle" /\ loaded = "yes"
    /\ \E p \in Profiles \ {prof_index} : prof_index' = p
    /\ IF status = "PW_ON" THEN Call("stop", "sync") /\ restart' = TRUE
       ELSE UNCHANGED <<status, fw_status, dsp_cfg, prof_cur, chip, clk, faults,
                        pc, frame, loaded, restart>>
    /\ UNCHANGED <<queued, dapm>>

\* The delayed work of an asynchronous start.
StartupWork ==
    /\ queued /\ pc = "idle" /\ pc' = "dev_start"
    /\ queued' = FALSE /\ caller' = "async" /\ attempt' = 0
    /\ UNCHANGED <<dev, chip, clk, faults, ret, loaded, restart, dapm>>

\* The stream's I2S clock comes and goes; a powered chip latches its loss.
Clock ==
    /\ clk' = ~clk /\ sysint' = (sysint \/ (clk /\ reg["pwdn"] = 0))
    /\ UNCHANGED <<dev, reg, lost, ram, faults, pc, frame, clients>>

-----------------------------------------------------------------------------
FwUpdateStep == RegUpdate \/ RegPwd \/ FwMute \/ FwBypass \/ FwOsc \/ CheckSram
                \/ UpFw \/ UpCfg \/ FwDone \/ FwError
InitStep  == InitMute \/ InitTx \/ InitAmppd \/ InitBypass \/ InitPwd
PllStep   == Mode1 \/ Mode2 \/ Mode2Poll \/ Mode2Back \/ Mode2Again
CrcStep   == CrcCg \/ FwCrc \/ FwCrcOff \/ CfgCrc \/ CfgCrcOff \/ CrcEnd \/ CrcDone \/ CrcFail
StartStep == Start \/ DevStart \/ PllStep \/ Amppd \/ Sysst \/ CrcStep \/ DspPrep \/ DspOff
             \/ DspOn \/ Wdt \/ TxOn \/ Unmute \/ Started
             \/ FailBypass \/ FailInt \/ FailAmppd \/ FailPwd
StopStep  == Stop \/ StMute \/ StTx \/ StInt \/ StBypass \/ StAmppd \/ StOsc \/ StFw
             \/ StCfg \/ StPll \/ StPwd
Step == FwUpdateStep \/ InitStep \/ StartStep \/ StopStep
Calls == RequestFirmware \/ HdaPrepare \/ HdaCleanup \/ HdaReset
         \/ PlaybackPreUp \/ PlaybackPostDown \/ ProfileSet \/ StartupWork
Next == Step \/ Calls \/ Clock

\* A call under way keeps running; nothing forces a call or the clock.
Fairness == WF_vars(Step)
Spec == Init /\ [][Next]_vars /\ Fairness

-----------------------------------------------------------------------------
(* Properties.                                                             *)

Audible == reg["pwdn"] = 0 /\ reg["amppd"] = 0 /\ reg["hmute"] = 0
Complete == ram["fw"] # Torn /\ ram["cfg"] # Torn

\* Whatever fails in a start or a retry, an amp that the driver reports off is
\* silent: it is unmuted only between the last steps of a successful dev_start
\* and the first step of aw88399_stop, unless the mute write itself got lost.
SilentWhenOff ==
    Audible /\ "hmute" \notin lost => status = "PW_ON" \/ pc \in {"started", "st_mute"}

\* dev_start reports PW_ON only for memories that passed both CRC checks, and
\* it leaves the CRC engines and the RAM clock gate as they were before.
OnIsVerified ==
    status = "PW_ON" /\ dsp_cfg = "WORK" =>
        Complete /\ reg["ramcg"] = 0 /\ reg["crccode"] = 0 /\ reg["crccfg"] = 0

\* fw_update and stop switch the memory clock to the oscillator: the DSP never
\* runs on it, on any success, error or retry path of either.
DspOnPll ==
    reg["dspby"] = 0 /\ {"dspby", "memclk"} \cap lost = {} => reg["memclk"] = 1

\* An amp that is off and idle has its DSP bypassed, even after dev_start gave
\* up with the DSP enabled and the register list could not be written again.
DspBypassedWhenOff ==
    pc = "idle" /\ status = "PW_OFF" /\ loaded = "yes" /\ "dspby" \notin lost => reg["dspby"] = 1

\* check_mode2_pll gives the PLL its bypass back on every path, when that is
\* how the container (and the reset chip) set it.
CcoRestored ==
    /\ \A p \in Profiles : RegData[p]["cco"] = 1
    /\ ResetRegs["cco"] = 1 /\ reg["cco"] = 0 /\ "cco" \notin lost
    => pc \in {"mode2_poll", "mode2_back"}

\* The stop of an amp whose clock failed reloads the DSP memories; when no
\* access fails they are complete again when the chip is powered down.  A stop
\* that saw no failure leaves what the CRC checks of the start found complete
\* (a profile that bypasses the DSP has none).
StopKeepsImages ==
    pc = "st_pwd" /\ faults = MaxFaults /\ (ret \/ dsp_cfg = "WORK") => Complete

\* DSP memory is rewritten only under a bypassed DSP.
RamWrittenInBypass ==
    [][pc # "idle" /\ ram' # ram => reg["dspby"] = 1 \/ "dspby" \in lost]_vars

\* Every call returns: the retries of start_pa are bounded, whatever fails.
CallsReturn == pc # "idle" ~> pc = "idle"

\* With the clock running and a working bus a start ends with the amp on, also
\* after a chip reset emptied the DSP memories: the comment in system_resume
\* says the next playback reinitialises the chip, and only the retry does.
StartSucceeds ==
    pc = "start" /\ fw_status = "FW_OK" ~> status = "PW_ON" \/ ~clk \/ faults < MaxFaults

\* ASoC: no amp is on, or about to be started by the delayed work, once DAPM
\* has powered the playback widget down, profile changes in between included.
OnlyWhilePlaying == pc = "idle" /\ (queued \/ status = "PW_ON") => dapm

\* aw88399_stop reports "already power off": once it returned the chip is
\* powered down (unless the write got lost).
StopPowersDown ==
    [][(pc \in {"stop", "st_pwd"} /\ pc' \notin StopSteps) =>
          (reg'["pwdn"] = 1 \/ "pwdn" \in lost')]_vars

\* i2s_tx_enable(false) closes the TX feedback, so a stop leaves it closed.
StopClosesTx == [][pc = "st_pwd" /\ pc' = "idle" => reg'["txen"] = 0]_vars

Power == CASE status = "PW_ON" -> "On"
           [] status = "PW_OFF" /\ pc \in StopSteps \ {"stop"} -> "Stopping"
           [] /\ status = "PW_OFF" /\ loaded = "yes"
              /\ pc \in StartSteps \cup UpdateSteps -> "Starting"
           [] OTHER -> "Off"

\* The core keeps the contract with the HDA layer.  Three writes silence a
\* stopping amp (mute, amplifier down, power down), so any two may get lost.
Contract == INSTANCE AmpContract WITH power <- Power, sound <- Audible
KeepsContract == Contract!Spec

-----------------------------------------------------------------------------
(* The inductive invariant behind the safety properties above.             *)

\* No attempt is made beyond the last one.
AttemptBound ==
    (caller = "retry" /\ pc \in UpdateSteps) \/ pc \in StartSteps \ {"start"} => attempt < Retries

\* Only an initialised amp is started or stopped, and it is on between calls.
OnBetweenCalls ==
    /\ pc \in StartSteps \cup StopSteps => loaded = "yes"
    /\ pc \in UpdateSteps => loaded = IF caller = "init" THEN "no" ELSE "yes"
    /\ queued => loaded = "yes"
    /\ pc = "start" => caller \in {"sync", "async"}
    /\ queued \/ caller = "async" => Client = "asoc"
    /\ status = "PW_ON" => loaded = "yes" /\ pc \in {"idle", "start", "stop", "dev_start"}

\* A chip whose register list was never written since its reset.
Untouched ==
    /\ reg["pwdn"] = 1 /\ status = "PW_OFF" /\ ~queued
    /\ pc \in {"idle", "start", "stop", "reg"} /\ (pc = "reg" => caller # "retry")

MutedUnlessOn ==
    \/ reg["hmute"] = 1 \/ "hmute" \in lost \/ Untouched
    \/ status = "PW_ON" \/ pc \in {"started", "st_mute"}

BypassedUnlessOn ==
    \/ reg["dspby"] = 1 \/ "dspby" \in lost \/ status = "PW_ON"
    \/ pc \in {"wdt", "tx_on", "unmute", "started", "f_bypass",
               "st_mute", "st_tx", "st_int", "st_bypass"}

PllOutsideWindow ==
    \/ reg["memclk"] = 1 \/ "memclk" \in lost \/ Untouched
    \/ pc \in {"sram", "up_fw", "up_cfg", "fw_pll", "fw_err", "st_fw", "st_cfg", "st_pll"}

CrcOff == reg["crccode"] = 0 /\ reg["crccfg"] = 0

\* What dev_start has established at each of its later steps.
CrcProgress ==
    /\ pc \in {"cfgcrc", "cfgcrc_off"} => ram["fw"] # Torn
    /\ pc \in {"crc_end", "crc_done"} => Complete
    /\ pc = "crc_done" => CrcOff
    /\ (\/ pc \in {"dsp_prep", "dsp_off", "dsp_on", "wdt", "tx_on", "unmute", "started"}
        \/ status = "PW_ON") /\ dsp_cfg = "WORK"
       => Complete /\ reg["ramcg"] = 0 /\ CrcOff

\* From the power-up of dev_start until aw88399_stop powers down.
Powered == PllSteps \cup CrcSteps \cup (StopSteps \ {"stop"}) \cup
           {"amppd", "sysst", "dsp_prep", "dsp_off", "dsp_on", "wdt", "tx_on", "unmute",
            "started"}

\* While no access has failed the chip is as the driver left it, and a stop
\* carries complete images through its window on the oscillator.
ImagesKept ==
    faults = MaxFaults =>
        /\ lost = {}
        /\ pc \in Powered \/ status = "PW_ON" => reg["pwdn"] = 0
        /\ pc \in {"st_mute", "st_tx", "st_int", "st_bypass", "st_amppd"} /\ dsp_cfg = "WORK"
           => Complete
        /\ pc \in {"st_fw", "st_cfg"} => reg["memclk"] = 0
        /\ pc = "st_cfg" => ram["fw"] # Torn
        /\ pc = "st_pll" => Complete
        /\ pc = "st_pwd" /\ (ret \/ dsp_cfg = "WORK") => Complete

IInv == /\ TypeOK /\ AttemptBound /\ OnBetweenCalls /\ MutedUnlessOn
        /\ BypassedUnlessOn /\ PllOutsideWindow /\ CrcProgress /\ ImagesKept

=============================================================================
