------------------------------ MODULE AsocCodec ------------------------------
(***************************************************************************)
(* The ASoC component of soc-codecs/aw88399.c: three threads of control    *)
(* that drive one amp.                                                     *)
(*   "event"    the DAPM events of AIF_RX, codec_remove, codec_probe       *)
(*   "work"     startup_work, the delayed start                            *)
(*   "control"  the put handlers, which the ALSA core serialises: profile, *)
(*              volume, calibration                                        *)
(* Events, work and profile_set take aw88399->lock, the other controls do  *)
(* not.  A thread is the sequence of steps it still has to run; a step is  *)
(* one helper or one access to shared state, and any other thread may run  *)
(* between two of them.  The steps of the amp core (checks, retries, DSP   *)
(* memories) are those of Aw88399Amp, here in one step each.               *)
(***************************************************************************)
EXTENDS Naturals, Sequences, SequencesExt

CONSTANTS
    Profiles, First,   \* the profiles and prof_desc[0]
    Volumes, Loudest, Silent, \* values of "PCM Playback Volume", 0 and MUTE_VOL
    Settings,          \* noise gate, low power switch, DSP volume, cali_cfg
    Cali,              \* a setting that calibration overrides
    Nobody,            \* no holder of the lock
    Retries            \* AW88399_START_RETRIES

Threads == {"event", "work", "control"}

ASSUME AsocAssumption ==
    /\ First \in Profiles /\ Cali \notin Profiles /\ Nobody \notin Threads
    /\ Settings \subseteq {"ng", "lp", "vol", "cfg"}
    /\ Volumes \subseteq Nat /\ {Loudest, Silent} \subseteq Volumes
    /\ Retries \in Nat \ {0}

VARIABLES
    lock,                  \* the holder of aw88399->lock
    todo,                  \* the steps each thread still has to run
    queued,                \* start_work is on its timer
    widget, present,       \* AIF_RX is powered; the component is probed
    status, prof_index, prof_cur,   \* struct aw_device
    attempt,               \* the loop counter of start_pa in each thread
    ctl_volume, fade,      \* volume_desc, and fade_in_vol of each thread
    volume, hmute, dspby, pwdn,     \* the chip's registers
    set,                   \* the settings of the chip and its DSP
    saved,                 \* backup_info, store_vol and cali_desc.cali_cfg
    cali_running,
    overtaken, harm        \* history: what a control without the lock ran into

sched == <<lock, queued, widget, present>>
amp   == <<status, attempt>>
prof  == <<prof_index, prof_cur>>
vol   == <<ctl_volume, fade, volume, overtaken>>
pins  == <<hmute, dspby, pwdn>>
cali  == <<set, saved, cali_running, harm>>
vars  == <<sched, todo, amp, prof, vol, pins, cali>>

FadeOut == <<"fade_out", "hmute">>
FadeIn  == <<"unmute", "fade_read", "fade_write">>

\* fw_update: registers, mute, bypass, DSP images, prof_cur.
FwUpdate == <<"regs">> \o FadeOut \o <<"dsp_bypass", "images">>

\* dev_start, and the exits of a failed one.
Attempt == <<"pwr_on", "checks", "dsp_on">> \o FadeIn \o <<"started", "failed">>

\* The body of the loop of start_pa: after a failure the reload.
StartPa == Attempt \o FwUpdate \o <<"next">>

Stop == <<"stop">> \o FadeOut \o <<"dsp_bypass", "pwr_off">>

PreUp      == <<"lock", "cancel", "start">> \o FwUpdate \o <<"queue", "end">>
\* Mutant: POST_PMD leaves the queued work alone.
PostDownUncancelled == <<"lock">> \o Stop \o <<"down", "end">>
PostDown   == <<"lock", "cancel">> \o Stop \o <<"down", "end">>
StartWork  == <<"lock">> \o StartPa \o <<"end">>
SetProfile == <<"lock", "choose">> \o Stop \o <<"start">> \o FwUpdate \o StartPa \o <<"end">>
SetVolume  == <<"set_ctl", "set_vol", "end">>

CaliOff == <<"dsp_bypass", "put_cfg", "dsp_on", "cali_end", "end">>
Calibrate ==
    <<"cali_begin">> \o FadeIn
    \o <<"cali_check", "backup", "dsp_bypass", "cali_quiet", "cali_cfg", "dsp_on">>
    \o <<"cali_vol", "measure", "put_vol", "recover">> \o CaliOff

TypeOK ==
    /\ lock \in Threads \cup {Nobody} /\ DOMAIN todo = Threads
    /\ queued \in BOOLEAN /\ widget \in BOOLEAN /\ present \in BOOLEAN
    /\ status \in {"PW_OFF", "PW_ON"} /\ attempt \in [Threads -> 0..Retries]
    /\ prof_index \in Profiles /\ prof_cur \in Profiles
    /\ ctl_volume \in Volumes /\ volume \in Volumes /\ fade \in [Threads -> Volumes]
    /\ hmute \in BOOLEAN /\ dspby \in BOOLEAN /\ pwdn \in BOOLEAN
    /\ set \in [Settings -> Profiles \cup {Cali}]
    /\ saved \in [Settings -> Profiles \cup {Cali}]
    /\ cali_running \in BOOLEAN
    /\ overtaken \in BOOLEAN /\ harm \in {"none", "failed", "interrupted"}

\* After codec_probe: firmware loaded, amp off.
Init ==
    /\ lock = Nobody /\ todo = [t \in Threads |-> <<>>] /\ queued = FALSE
    /\ widget = FALSE /\ present = TRUE
    /\ status = "PW_OFF" /\ attempt = [t \in Threads |-> 0]
    /\ prof_index = First /\ prof_cur = First
    /\ ctl_volume = Loudest /\ volume = Silent /\ fade = [t \in Threads |-> Loudest]
    /\ hmute = TRUE /\ dspby = TRUE /\ pwdn = TRUE
    /\ set = [s \in Settings |-> First] /\ saved = [s \in Settings |-> First]
    /\ cali_running = FALSE
    /\ overtaken = FALSE /\ harm = "none"

Quiet(t) == todo[t] = <<>>
AllQuiet == \A t \in Threads : Quiet(t)
At(t, step) == todo[t] # <<>> /\ Head(todo[t]) = step

-----------------------------------------------------------------------------
(* The threads begin.                                                      *)

Begin(t, steps) ==
    /\ Quiet(t) /\ present /\ todo' = [todo EXCEPT ![t] = steps]
    /\ UNCHANGED <<lock, amp, prof, vol, pins, cali>>

PlaybackUp ==
    /\ ~widget /\ widget' = TRUE
    /\ Begin("event", PreUp) /\ UNCHANGED <<queued, present>>
PlaybackDown ==
    /\ widget /\ Begin("event", PostDown) /\ UNCHANGED <<queued, widget, present>>

\* The timer of the delayed work expires.
WorkBegins ==
    /\ queued /\ queued' = FALSE
    /\ Begin("work", StartWork) /\ UNCHANGED <<widget, present>>

ProfileSet == Begin("control", SetProfile) /\ UNCHANGED <<queued, widget, present>>

VolumeSet == Begin("control", SetVolume) /\ UNCHANGED <<queued, widget, present>>

\* calib_set with "Calib Switch" on.
CalibSet ==
    /\ status = "PW_ON" /\ Begin("control", Calibrate) /\ UNCHANGED <<queued, widget, present>>

\* codec_remove, once the stream is down and the controls are gone.
CodecRemove ==
    /\ ~widget /\ Quiet("event") /\ Quiet("control") /\ Quiet("work")
    /\ present /\ present' = FALSE /\ queued' = FALSE
    /\ UNCHANGED <<lock, todo, widget, amp, prof, vol, pins, cali>>

\* codec_probe again: dev_init loads the first profile and powers down.
CodecProbe ==
    /\ ~present /\ present' = TRUE
    /\ prof_index' = First /\ prof_cur' = First
    /\ volume' = Silent /\ hmute' = TRUE /\ dspby' = TRUE /\ pwdn' = TRUE
    /\ set' = [s \in Settings |-> First] /\ harm' = "none"
    /\ UNCHANGED <<lock, todo, queued, widget, status, attempt, ctl_volume, fade, saved,
                   cali_running, overtaken>>

-----------------------------------------------------------------------------
(* The steps.                                                              *)

Go(t, steps) == todo' = [todo EXCEPT ![t] = steps]
On(t) == Go(t, Tail(todo[t]))

\* The steps of t from the first of the labels on.
From(t, labels) ==
    SubSeq(todo[t], SelectInSeq(todo[t], LAMBDA s : s \in labels), Len(todo[t]))

Lock(t) ==
    /\ At(t, "lock") /\ On(t) /\ lock = Nobody /\ lock' = t
    /\ UNCHANGED <<queued, widget, present, amp, prof, vol, pins, cali>>

End(t) ==
    /\ At(t, "end") /\ On(t) /\ lock' = IF lock = t THEN Nobody ELSE lock
    /\ attempt' = [attempt EXCEPT ![t] = 0]
    /\ UNCHANGED <<queued, widget, present, status, prof, vol, pins, cali>>

\* cancel_delayed_work_sync: off the timer, or wait until it is done.
Cancel(t) ==
    /\ At(t, "cancel") /\ Quiet("work") /\ queued' = FALSE /\ On(t)
    /\ UNCHANGED <<lock, widget, present, amp, prof, vol, pins, cali>>

\* aw88399_start returns at once when the amp is on.
Start(t) ==
    /\ At(t, "start")
    /\ Go(t, IF status = "PW_ON" THEN <<"end">> ELSE Tail(todo[t]))
    /\ UNCHANGED <<sched, amp, prof, vol, pins, cali>>

Queue(t) ==
    /\ At(t, "queue") /\ On(t) /\ queued' = TRUE
    /\ UNCHANGED <<lock, widget, present, amp, prof, vol, pins, cali>>

Down(t) ==
    /\ At(t, "down") /\ On(t) /\ widget' = FALSE
    /\ UNCHANGED <<lock, queued, present, amp, prof, vol, pins, cali>>

\* A step that writes registers and goes on.
Write(t, step, mute, bypass, down) ==
    /\ At(t, step) /\ On(t) /\ hmute' = mute /\ dspby' = bypass /\ pwdn' = down
    /\ UNCHANGED <<sched, amp, prof, vol, cali>>

Pins(t) ==
    \/ Write(t, "hmute", TRUE, dspby, pwdn)
    \/ Write(t, "unmute", FALSE, dspby, pwdn)
    \/ Write(t, "dsp_bypass", hmute, TRUE, pwdn)
    \/ Write(t, "dsp_on", hmute, FALSE, pwdn)
    \/ Write(t, "pwr_off", hmute, dspby, TRUE)
    \/ Write(t, "failed", hmute, TRUE, TRUE)   \* the exits of dev_start

\* History: ctl_volume changes under a fade_in of another thread that has read
\* it and not yet written it; until a fade or a new volume meets no such fade_in.
Overtakes(t) ==
    overtaken' = /\ overtaken \/ ctl_volume' # ctl_volume
                 /\ \E u \in Threads \ {t} : At(u, "fade_write")

\* fade_out ends at MUTE_VOL whatever the fade step.
DoFadeOut(t) ==
    /\ At(t, "fade_out") /\ On(t) /\ volume' = Silent
    /\ UNCHANGED <<sched, amp, prof, ctl_volume, fade, pins, cali>> /\ Overtakes(t)

\* fade_in takes ctl_volume once and ends by writing what it took.
FadeRead(t) ==
    /\ At(t, "fade_read") /\ On(t) /\ fade' = [fade EXCEPT ![t] = ctl_volume]
    /\ UNCHANGED <<sched, amp, prof, ctl_volume, volume, pins, cali>> /\ Overtakes(t)
FadeEnds(t) ==
    /\ At(t, "fade_write") /\ On(t) /\ fade' = [fade EXCEPT ![t] = Loudest]
    /\ UNCHANGED <<sched, amp, prof, ctl_volume, overtaken, pins, cali>>
\* Mutant: the last write of the fade is missing.
FadeWriteShort(t) == FadeEnds(t) /\ volume' \in {v \in Volumes : v >= fade[t]}
FadeWrite(t) == FadeEnds(t) /\ volume' = fade[t]

SetCtl(t) ==
    /\ At(t, "set_ctl") /\ On(t) /\ ctl_volume' \in Volumes \ {ctl_volume}
    /\ Overtakes(t) /\ UNCHANGED <<sched, amp, prof, fade, volume, pins, cali>>
SetVol(t) ==
    /\ At(t, "set_vol") /\ On(t) /\ volume' = ctl_volume
    /\ UNCHANGED <<sched, amp, prof, ctl_volume, fade, overtaken, pins, cali>>

\* set_profile_index refuses the index that is set; profile_set restarts the
\* amp only if it is on.
Choose(t) ==
    /\ At(t, "choose")
    /\ \E p \in Profiles :
          /\ prof_index' = p
          /\ Go(t, IF p = prof_index \/ status = "PW_OFF" THEN <<"end">> ELSE Tail(todo[t]))
    /\ UNCHANGED <<sched, amp, prof_cur, vol, pins, cali>>

\* calib_set is under way.
Calibrating == cali_running \/ At("control", "cali_begin")

\* aw88399_stop clears the status first, and does nothing if it is clear.
DoStop(t) ==
    /\ At(t, "stop") /\ status' = "PW_OFF"
    /\ Go(t, IF status = "PW_OFF" THEN From(t, {"start", "down"}) ELSE Tail(todo[t]))
    /\ harm' = IF Calibrating THEN "interrupted" ELSE harm
    /\ UNCHANGED <<sched, attempt, prof, vol, pins, set, saved, cali_running>>

\* fw_update, k steps before its end: aw88399_start gives up, start_pa makes
\* its next attempt.
Reloads(t, k) == todo[t][k + 1] = "next"
UpdateFails(t, k) == Go(t, IF Reloads(t, k) THEN From(t, {"next"}) ELSE <<"end">>)

\* The settings when some of them get a value, and the backup of some.
Assign(which, value) == [s \in Settings |-> IF s \in which THEN value ELSE set[s]]
Save(which) == [s \in Settings |-> IF s \in which THEN set[s] ELSE saved[s]]

\* The registers of the profile: muted, bypassed, powered; a new profile
\* resets ctl_volume, the running one gets it written back.  The next start
\* begins with what a calibration under way has not touched.
RegsWritten(t) ==
    /\ On(t) /\ hmute' = TRUE /\ dspby' = TRUE /\ pwdn' = FALSE
    /\ ctl_volume' = IF prof_cur # prof_index THEN Loudest ELSE ctl_volume
    /\ volume' = ctl_volume' /\ Overtakes(t)
    /\ set' = Assign({"ng", "vol"}, prof_index)
    /\ harm' = IF Calibrating \/ Reloads(t, 5) THEN harm ELSE "none"

\* A write fails: each register before it has its new value, the others not.
RegsStop(t) ==
    /\ UpdateFails(t, 5)
    /\ \/ hmute' = TRUE /\ dspby' = TRUE /\ pwdn' = TRUE
       \/ UNCHANGED pins
    /\ volume' \in {volume, Loudest}
    /\ \E done \in SUBSET {"ng", "vol"} : set' = Assign(done, prof_index)
    /\ UNCHANGED <<ctl_volume, overtaken, harm>>

Regs(t) ==
    /\ At(t, "regs") /\ (RegsWritten(t) \/ RegsStop(t))
    /\ UNCHANGED <<sched, status, attempt, prof, fade, saved, cali_running>>

\* check_sram and the DSP images may fail, which leaves prof_cur.
Images(t) ==
    /\ At(t, "images")
    /\ \/ /\ On(t) /\ prof_cur' = prof_index
          /\ set' = Assign({"lp", "cfg"}, prof_index)
       \/ UpdateFails(t, 1) /\ UNCHANGED <<prof_cur, set>>
    /\ UNCHANGED <<sched, amp, prof_index, vol, pins, saved, cali_running, harm>>

PowerOn(t) ==
    /\ At(t, "pwr_on")
    /\ IF status = "PW_ON" THEN Go(t, From(t, {"end"})) /\ UNCHANGED pwdn
                           ELSE On(t) /\ pwdn' = FALSE
    /\ UNCHANGED <<sched, amp, prof, vol, hmute, dspby, cali>>

\* PLL, SYSST, CRC and watchdog.
Checks(t) ==
    /\ At(t, "checks") /\ (On(t) \/ Go(t, From(t, {"failed"})))
    /\ UNCHANGED <<sched, amp, prof, vol, pins, cali>>
Started(t) ==
    /\ At(t, "started") /\ status' = "PW_ON" /\ Go(t, From(t, {"end"}))
    /\ UNCHANGED <<sched, attempt, prof, vol, pins, cali>>
\* Mutant: the retries are not counted.
NextAttemptForever(t) ==
    /\ At(t, "next") /\ Go(t, StartPa \o <<"end">>)
    /\ UNCHANGED <<sched, amp, prof, vol, pins, cali>>
NextAttempt(t) ==
    /\ At(t, "next") /\ attempt' = [attempt EXCEPT ![t] = @ + 1]
    /\ Go(t, IF attempt'[t] < Retries THEN StartPa \o <<"end">> ELSE Tail(todo[t]))
    /\ UNCHANGED <<sched, status, prof, vol, pins, cali>>

-----------------------------------------------------------------------------
(* The calibration.                                                        *)

CaliRest == <<sched, amp, prof, vol, pins>>

\* cali_running guards against a second calibration.
CaliBegin(t) ==
    /\ At(t, "cali_begin") /\ cali_running' = TRUE
    /\ Go(t, IF cali_running THEN <<"end">> ELSE Tail(todo[t]))
    /\ UNCHANGED <<CaliRest, set, saved, harm>>

\* PLL or DSP not running.
CaliCheck(t) ==
    /\ At(t, "cali_check") /\ (On(t) \/ Go(t, <<"cali_end", "end">>))
    /\ UNCHANGED <<CaliRest, cali>>
Backup(t) ==
    /\ At(t, "backup") /\ On(t)
    /\ saved' = Save({"ng", "lp"})
    /\ UNCHANGED <<CaliRest, set, cali_running, harm>>
CaliQuiet(t) ==
    /\ At(t, "cali_quiet") /\ On(t)
    /\ set' = Assign({"ng", "lp"}, Cali)
    /\ UNCHANGED <<CaliRest, saved, cali_running, harm>>

\* History: the exits of a failed calibration restore some settings only.
Failing == harm' = IF harm = "none" THEN "failed" ELSE harm

\* get_cali_cfg and set_cali_cfg: either may fail, each its own way out.
CaliCfg(t) ==
    /\ At(t, "cali_cfg")
    /\ \/ /\ On(t) /\ saved' = Save({"cfg"})
          /\ set' = Assign({"cfg"}, Cali) /\ UNCHANGED harm
       \/ /\ Failing /\ Go(t, <<"dsp_on", "cali_end", "end">>)
          /\ UNCHANGED <<set, saved>>
       \/ /\ Failing /\ Go(t, <<"put_cfg", "dsp_on", "cali_end", "end">>)
          /\ saved' = Save({"cfg"})
          /\ set' = Assign({"cfg"}, Cali)
    /\ UNCHANGED <<CaliRest, cali_running>>

\* cali_run_dsp_vol(true).
CaliVol(t) ==
    /\ At(t, "cali_vol")
    /\ \/ /\ On(t) /\ saved' = Save({"vol"})
          /\ set' = Assign({"vol"}, Cali) /\ UNCHANGED harm
       \/ Failing /\ Go(t, CaliOff) /\ UNCHANGED <<set, saved>>
    /\ UNCHANGED <<CaliRest, cali_running>>

\* The smoothed resistance is in range and written under a bypassed DSP, or
\* the amp is muted.
Measure(t) ==
    /\ At(t, "measure")
    /\ \/ Go(t, <<"dsp_bypass", "dsp_on">> \o Tail(todo[t]))
       \/ Go(t, FadeOut \o Tail(todo[t]))
    /\ UNCHANGED <<CaliRest, cali>>

PutBack(t, step, which) ==
    /\ At(t, step) /\ On(t)
    /\ set' = [s \in Settings |-> IF s \in which THEN saved[s] ELSE set[s]]
    /\ UNCHANGED <<CaliRest, saved, cali_running, harm>>
CaliEnd(t) ==
    /\ At(t, "cali_end") /\ On(t) /\ cali_running' = FALSE
    /\ saved' = [s \in Settings |-> First]   \* nothing reads it any more
    /\ UNCHANGED <<CaliRest, set, harm>>

CaliStep(t) ==
    \/ CaliBegin(t) \/ CaliCheck(t) \/ Backup(t) \/ CaliQuiet(t) \/ CaliCfg(t)
    \/ CaliVol(t) \/ Measure(t) \/ CaliEnd(t)
    \/ PutBack(t, "put_vol", {"vol"}) \/ PutBack(t, "recover", {"ng", "lp"})
    \/ PutBack(t, "put_cfg", {"cfg"})

Step(t) ==
    \/ Lock(t) \/ End(t) \/ Cancel(t) \/ Start(t) \/ Queue(t) \/ Down(t) \/ Pins(t)
    \/ DoFadeOut(t) \/ FadeRead(t) \/ FadeWrite(t) \/ SetCtl(t) \/ SetVol(t)
    \/ Choose(t) \/ DoStop(t) \/ Regs(t) \/ Images(t)
    \/ PowerOn(t) \/ Checks(t) \/ Started(t) \/ NextAttempt(t) \/ CaliStep(t)

Next ==
    \/ PlaybackUp \/ PlaybackDown \/ WorkBegins
    \/ ProfileSet \/ VolumeSet \/ CalibSet
    \/ CodecRemove \/ CodecProbe
    \/ \E t \in Threads : Step(t)

\* A thread goes on whenever it can; the mutex lets no waiter starve; the
\* timer expires.
Fairness == WF_vars(WorkBegins) /\ \A t \in Threads : SF_vars(Step(t))
Spec == Init /\ [][Next]_vars /\ Fairness

-----------------------------------------------------------------------------
(* Properties.                                                             *)

\* Every event, work and control returns ...
ThreadsReturn == \A t \in Threads : ~Quiet(t) ~> Quiet(t)

\* ... with one exception: cancel_delayed_work_sync waits under the lock for a
\* work that has begun and waits for the lock.
Stuck == lock = "event" /\ At("event", "cancel") /\ At("work", "lock")
ReturnOrStuck == \A t \in Threads : []<>(Quiet(t) \/ Stuck)

\* The "PCM Playback Volume" that volume_get reports is the one in the chip
\* once the amp plays and nothing is under way, whatever the controls ran
\* beside; the one window is between the read of a fade_in and its last write.
VolumeApplied ==
    (AllQuiet /\ status = "PW_ON" /\ ~hmute /\ ~overtaken) => volume = ctl_volume

\* aw88399_stop mutes and bypasses ("close dsp"): an amp that is off stays so,
\* whatever the other threads were at, unless it was stopped under a
\* calibration, which goes on to unmute and enable it; the next start that
\* loads its profile after the calibration puts that right.
OffStaysQuiet == (AllQuiet /\ status = "PW_OFF" /\ harm # "interrupted") => (hmute /\ dspby)

\* No start completes after POST_PMD: the amp comes on only while AIF_RX is up.
StartsOnlyPlaying == [][(status = "PW_OFF" /\ status' = "PW_ON") => widget]_vars

\* recover_info and the restoring branches of calibration: afterwards low power
\* and thresholds are those of the profile whose images run, noise gate and DSP
\* volume each that profile's or the chosen one's, whose registers a failed
\* retry may have left ahead of the images (the exits of a failed calibration
\* leave some of them overridden, one that the amp was stopped under puts
\* them into what the next start has loaded).
CalibRestores ==
    (AllQuiet /\ status = "PW_ON" /\ harm = "none") =>
        /\ \A s \in Settings \cap {"lp", "cfg"} : set[s] = prof_cur
        /\ \A s \in Settings \cap {"ng", "vol"} : set[s] \in {prof_cur, prof_index}

\* When nothing is under way the amp is as its controls and its status say,
\* whatever threads overlapped before, but for the two races and the failed
\* calibrations that the history variables name.
AsocInv == TypeOK /\ VolumeApplied /\ OffStaysQuiet /\ CalibRestores

=============================================================================
