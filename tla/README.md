# Formal verification of the AW88399 HDA speaker driver

The repository makes the two AW88399 smart amplifiers of some Lenovo Legion
laptops play: a core driver for the chip, a bridge that makes it a side codec
of the HDA audio driver, a helper module that creates the I2C devices, and a
patched Realtek codec driver. This directory holds TLA+ models of that code,
the TLC configurations that check them on small instances, and TLAPS proofs.

    tlc -config AmpHda.cfg MCAmpHda        # model-check one configuration
    tlapm Aw88399Amp_proofs.tla            # check the proofs of one module

## 1. Inventory

| Component | Source | State it keeps | Operations | Talks to |
|---|---|---|---|---|
| Amp core | `soc-codecs/aw88399.c` | `struct aw_device`: status, fw_status, dsp_cfg, prof_cur, prof_index, volume, calibration; the chip's registers and DSP memories | request_firmware_file, dev_init, fw_update, start, start_pa, dev_start, stop, PLL / SYSST / CRC / watchdog checks | chip over I2C |
| ASoC layer | same file, 1411-2385 | lock, start_work, controls | playback_event, startup_work, profile, volume and calibration controls | amp core |
| HDA side codec | `side-codecs/aw88399_hda.c` | playing, suspended, runtime PM usage, index, channel, component slot | PCM hooks, bind / unbind, runtime and system PM, probe / remove | amp core, component master |
| Setup helper | `aw88399_setup.c` | clients, GPIO, references | replace the ACPI client by two, reset, `_DSM`, IRQ | I2C and ACPI core |
| serial-multi-instantiate | `serial-multi-instantiate.c` | array of clients | probe, roll back, remove | I2C, SPI and ACPI core |
| Realtek codec | `realtek/alc269.c` | fixup chain, component array, headset and LED state | probe / remove, suspend / resume, shutup, component bind, fixups | HDA core, side codecs |
| Quirk tables, helpers | `realtek/alc269.c` 1210-7900, `helpers/` | constant data | fixups | - |
| Install and packaging | `*.sh`, `Makefile`, `ucm2/` | files | - | - |

What makes the core hard: every I2C access may fail, and most results are
ignored; the I2S clock the PLL locks on is owned by somebody else and stops at
any time; a start is a long sequence of checks with four failure exits, retried
up to five times, and each retry reloads registers and memories and may itself
fail half way; the same registers carry bits of unrelated functions; a chip
reset behind the driver's back leaves it believing in memories that are gone.
Around it: hooks, delayed work, runtime and system PM and removal all start and
stop the same amp under different locks or none.

What makes the parts correct:

* Amp core: nothing is heard unless the driver says so; the DSP runs verified
  images, on the right clock; memories are written only under a bypassed DSP;
  every start returns, and succeeds when clock and bus work.
* ASoC layer: no deadlock between lock and delayed work; nothing starts the amp
  after power down; controls that take no lock leave the amp as they and its
  status say.
* Side codec: hooks and PM balance; no amp plays after close, suspend, removal.
* Setup, SMI: on every path exactly the clients that should exist do, references
  are put, and amps that are held in reset get no clients.
* Realtek codec: component array and fixup actions agree in every order of
  bind, unbind, suspend, resume and removal.

`PROJECT.json` lists the hazards at their lines, with the property that would
catch each, or why none does.

## 2. How the modules fit together

| Layer | Modules | Models |
|---|---|---|
| amp core | `Aw88399Amp`, `AmpContract` | one amp, step by step, and what it promises |
| | `VolumeFade`, `Vcalb`, `Calibration` | its arithmetic: fades, voltage and impedance calibration |
| ASoC layer | `AsocCodec` | the threads, the lock and the delayed work around one amp |
| HDA side codec | `HdaSideCodec`, `AmpPlacement` | two amps under hooks, PM and removal; which is left and which right |
| I2C devices | `SmiProbe`, `ClientSetup` | who creates the clients; `ClientSetup` EXTENDS `SmiProbe` and runs both |
| Realtek codec | `CodecPower`, `CodecProbe` | power transitions; probe, component manager, keys |
| | `CodecLeds`, `CodecJacks`, `CodecStreams` | code that fixups install |
| | `RealtekFixupTable`, `RealtekFixups` | the table of fixups, and its application |

`Aw88399Amp` refines `AmpContract`. The layers above an amp see of it what that
contract or the properties of `Aw88399Amp` say: `HdaSideCodec` its status and
whether the chip is initialised, `AsocCodec` one step per helper. `HdaSideCodec`
and `CodecProbe` are the two sides of the component aggregate: amps that come
and go under hooks and PM, and a codec that comes and goes. `CodecProbe` picks
one kind of fixup; `RealtekFixups` shows what whole chains of them claim.

Every `MC*` module gives constants their values, every `*_proofs` module EXTENDS
the module it is about. Modules with theorems declare no RECURSIVE operator.

## 3. The modules

### Aw88399Amp

One amplifier. The driver's callers exclude each other (the HDA core calls the
hooks under the component mutex, the ASoC controls and events take
`aw88399->lock`), so one call runs at a time, step by step: `pc` names the next
step, `caller`, `attempt` and `ret` are the locals that steer it. A step is one
helper of the source, that is one register access and what the driver does with
the result; the ways an access can end are disjuncts of the step:

| Combinator | Code it stands for |
|---|---|
| `Set` | a write whose result is ignored (`aw_dev_pwd`, `aw_dev_amppd`, `aw_dev_dsp_enable`, `aw_dev_select_memclk`, `aw88399_dev_mute`) |
| `TrySet` | a write whose failure takes an error exit |
| `Check` | polling a status register, up to the driver's limit of polls |
| `Load` | `aw_dev_dsp_update_fw` / `_cfg`: a DSP memory is written, or torn |

`reg` holds the control bits the control flow depends on, each with the meaning
of its register value; `lost` the bits whose last ignored write failed, so that
a property can tell "the driver forgot" from "the bus lost it"; `ram` which
profile's image each DSP memory holds, or `Torn`. The steps of `fw_update`,
`dev_init`, `dev_start` (with the PLL, SYSST, CRC and watchdog checks) and
`stop` follow the source in order, failure labels included. `aw_dev_i2s_tx_enable(false)`
writes bit 9 of `I2SCFG1` (`cfg1b9`), not `I2SCTRL3`, because the code does.
The register list of the container is one step that either succeeds or stops
after any of its registers (`Written(k)`).

The callers: PREPARE, CLEANUP / CLOSE and the reset of system resume for
`Client = "hda"`; DAPM up and down, the delayed work and the profile control for
`Client = "asoc"`. The external part is `Clock`: the I2S clock toggles freely; a
powered chip latches its loss in SYSINT.

Assumed of the chip (external, from how the driver uses it): the PLL locks
exactly when powered and clocked; a DSP memory needs power and a clock, its own
oscillator or the PLL's; CRC engines accept exactly complete images; a DSP with
complete images and a clock feeds its watchdog, one with torn images may or may
not. Assumed of the container: `RegDataAssumption`, which the shipped
`aw88399_acf.bin` satisfies. A chip out of reset is powered down with its DSP
bypassed (`ResetAssumption`).

Left out as data: volume, fades, dither, VCALB, calibration values, the current
mode bits, delays, and the number of polls. They touch registers no modelled
bit lives in; the modules on arithmetic have the first ones. The lock of the ASoC layer is represented by the atomicity of
calls; what goes wrong with the lock itself is in `AsocCodec`.

### AmpContract

What the layer above may rely on: off, starting, on, stopping; a sound begins
only within a start that will succeed and has ended when a stop returns; calls
end. `Aw88399Amp` refines it with `Power` and `Audible` as mapping.

### MCAmpHda, MCAmpAsoc

Constant values. `MCAmpHda` has one profile with the bits of the shipped
container (its PLL is set to the divided clock, so the fallback of
`check_mode2_pll` is not taken). `MCAmpAsoc` has two profiles, one bypassing the
DSP, with the PLL in bypass mode, so that the fallback and both values of
`dsp_cfg` occur.

### HdaSideCodec

The bridge to the HDA driver with all the amps of the aggregate. Of an amp it
keeps what the bridge can see: the core's belief (`on`, the status) and whether
the chip really is initialised (`live`); a start and a stop are two steps each,
because the status and the chip change apart and only the hooks run under the
component mutex. `hook` is the playback hook under way, with the amps it still
has to visit; its order over the amps is left open. `usage`, `rpm` and `need`
are the runtime PM core's counter, status and needs_force_resume (external,
from its documented behaviour as the driver uses it: a get resumes unless
runtime PM is disabled, a put never takes the counter below zero, force_suspend
and force_resume act on the devices in use, the driver core resumes a device
before it calls remove). `present` is the life of each device (remove is three
steps: stop begins, stop ends, component_del), `bound` the aggregate.

`quiet` is a history variable: it holds as long as amps were probed and removed
only while no stream was open, and streams were opened only on a bound
aggregate (`Open`, `Probe` and `RemoveBegin` set it). The balance of the hooks
is a property of the driver in quiet histories and stated for them; in the
others the driver breaks some of it (finding 3 and the first note of section 5),
and `HooksReachProbed` and `MirrorsPm` hold all the same.

A failing probe leaves nothing behind (devm) and is no step. The reset of
system resume assumes a board with the reset GPIO. One PCM stream is modelled (a
second one exists only with independent headphones, which are off by default);
the stop within a suspend is one step, since the tasks are frozen or the device
is idle then.

`MCHdaSide` has two amps, the number on every supported laptop.

### AmpPlacement

How an amp gets its index (a `dev-index` property, the `_UID`, the I2C address, in
that order) and its channel (`speaker-position` or the index, swapped on boards
wired backwards), and what the component framework does with the index: it
binds the amps one by one in the order of the match list (`Bind`), and when one
is refused takes the bound ones back (`Unwind`) and lets the probe fail that was
the last to arrive. The framework is external: the last of codec and amps to be
added brings the aggregate up; it holds one mutex all the time, so no hook sees
the middle of it. `Firmware` is the set of everything ACPI may say; `Missing` and
a number out of range are different inputs.

### VolumeFade

One write of the volume register per step. 0 is the loudest volume. `pc` tells
whether a fade is under way, `i` is its loop variable, `by` the step it read when
it began. The controls of fade step and time act in the middle of a fade. The
waits are left out; that another thread sets the volume during a fade is in
`AsocCodec`.

### Vcalb

`aw_dev_set_vcalb`: trims that the efuses hold twice are combined by AND or OR,
extended by their sign, scaled, divided and cut to 16 bits. A word is the set of
its bits, so that AND and OR are the intersection and the union. `Garbage` is what an
`int16_t` holds when its register read failed: the quotient is computed before
the result of the read is looked at.

### Calibration

The readings of one calibration, the average without the smallest and the
largest, the verdict, and the two halves of the impedance on their way to the
chip, each of which may get lost. The driver sorts the readings and sums all but
both ends; the model keeps their number, sum, smallest and largest, which is all
that result depends on. `strays` is a history variable for the properties: how
many of the readings were below the range and how many above. Impedances are in ohms;
the conversion from DSP units is left out. A reading may be negative, because
the driver subtracts the cable's resistance and keeps the result unsigned:
`-90` stands for what wraps there.

### AsocCodec

Three threads: DAPM events with component probe and removal, the start work, and
the controls (serialised by ALSA). A thread is the list of steps it has to run
(`todo`), so any other thread may run between two of them; `lock` is
`aw88399->lock`, `queued` the timer of the work. A step is one helper of the amp
core or one access to shared state; a failing check replaces the rest of the
list by the failure's. `cancel_delayed_work_sync` is a step that can be taken
only when the work is not running. `attempt` is the loop counter of `start_pa`
in each thread: after a failed attempt it runs `fw_update` and goes round, while
a `fw_update` that fails in `aw88399_start` ends the call (`UpdateFails`).

A thread begins whenever it may in the code, whatever the others are at: the work
in the middle of an event, the controls that take no lock (`volume_set`,
`calib_set`) in the middle of anything. Every check, register write and setting may
fail without limit. A register update that fails (`RegsStop`) leaves any of its
registers written, and `fw_update` returns there: neither muted nor bypassed
by it, `ctl_volume` and the images as they were. That does no harm because each
caller has muted and bypassed the amp before, which is what the proof shows
(`UpData`, `StartData`), unless a calibration that met a stop has undone it.

Two races are the code's own, and two history variables name exactly them instead
of forbidding them. `overtaken`: `ctl_volume` changed between the read of a
`fade_in` and its last write, and no fade or volume came since; then the chip has
the volume the fade began with. `harm`: the amp was stopped under a calibration,
and no start has written its registers since the calibration ended
(`"interrupted"`), or a calibration failed half way (`"failed"`). `VolumeApplied`,
`OffStaysQuiet` and `CalibRestores` speak of every other behaviour, so they say
where the races end: what the next fade, the next volume or the next start put
right. `CalibRestores` tells the settings that come with the registers (noise
gate, DSP volume) from those that come with the DSP images (low power,
thresholds), since a retry can leave the former ahead. `Stuck` is the wait for each
other of event and work; `ReturnOrStuck` says that it is the only way not to return.

The steps write registers as a helper does, not one by one: a volume or a
calibration that meets the inside of `update_reg_container` or of one `set_volume`
is taken before or after it. Every start fades in after them.

### SmiProbe, ClientSetup

`SmiProbe` is serial-multi-instantiate for one node. The registry of I2C clients
(`clients`) refuses a name or an address that is taken, which is how two creators
meet. `i2c_num` and `spi_num` end at -1, as `while (num--)` leaves them.
`ClientSetup` is the module's load and exit, one step per acquisition, with the
references it holds to adapter and ACPI device and the reset line. Initially
either the ACPI enumerator has made its client and SMI never probes the node
(`probes = 0`: today's kernels), or SMI has the node and no client is there (the
id is in `scan.c`). Next to SMI each step of one may come between two of the
other; both may fail and leave no client, but not half a pair.

A failed load frees the module with its `reset_gpio`, so the model tells the line
the module has (`gpio`) from the line that is requested (`held`): after a failed
create it stays requested, is never asserted again, and a later load cannot have
it. `SetupInv` counts what the code takes and puts on each way: `References` says
that the load that found ACPI's client leaves one adapter referenced, and the
ACPI device where it looked that up by its HID, and that no other load, failed or
ended, leaves any (section 5); `LineAwake` that a line that is requested is not
asserted; `NoneInReset` that a second load makes no clients for amps an unload
left in reset, and what the one exception is.

Assumed of the kernel: an amp answers at 0x35 exactly when it is not in reset; a
reference that was put does not go away under the load. Addresses have the seven
bits of an I2C bus (`AddrAssumption`).

### CodecPower

What boot, suspend and resume of the codec write. A call is the list of its
accesses, built from the machine (variant and flags, `alc_spec`) and from what
the driver has `seen` of the jacks; jacks move between accesses. A switch is a
coefficient bit in `bits`, a pin is off, in or out, muted or not. `Wake` is the
hardware's part: after runtime suspend everything is kept (GPIO data perhaps
not), after S3 and S4 everything may be lost. The PM event a runtime resume sees
may still be that of the last system sleep (`pm_event`, external), which decides
whether the depop procedure runs.

A variant stands for all that share its code: `ALC256` for ALC230, 235, 236, 255
and 256, `ALC257` for those with `en_3kpull_low` cleared (ALC257 and one board
with 0x10ec0236), `ALC225` for ALC215 and 225, whose model also asks for the
depop, `ALC287` and `ALC245` for the rest of the alc225_* kin (285, 289, 295,
299 and others), `ALC280` for every variant with the default shutup. The headset
keys are on for the vendor ids that the key code lists; 0x10ec0245 and
0x10ec0255 are not among them. `PinsKept` is for the variants whose shutup asks
for `no_shutup_pins` (`Honours`).

### CodecProbe

Two probes and removals of the codec on every machine: which entry a quirk table
names, whether the codec is renamed, whether ACPI has Cirrus amps. `pc` is how far
the probe is; each step may fail and goes the driver's error way. The component
manager is made by a fixup or by the search for Cirrus amps, and freed by FREE
and by remove; the input device of the microphone key has a life of its own.
The amps come and go on other threads, so the aggregate is bound at any point.
Assumed: the HDA core disconnects jacks and PCMs of a working codec before
remove, those of a failed probe after it; the installation of ACPI
notifications does not fail.

### CodecLeds, CodecJacks, CodecStreams

Code that fixups leave behind. `CodecLeds`: the pairs of mute and microphone LED
functions that the fixups install, each LED on a pin's reference voltage, a GPIO
or coefficient bits, written in two steps (power up and choose, then write),
with the power filter that keeps a LED's pin through runtime suspend. No machine
has both LEDs on one pin or on the same bits (`Apart`, of the fixups as they are).
`CodecJacks`: eight hooks that make a line follow the headphones, run by two
threads, the event work and codec init, that do not exclude each other; only of
two threads that sleep in the same hook the one that came first stays ahead
(`InTurn`), and jacks move in the middle. Assumed: automute is enabled, jacks are
detectable, the autosuspend delay outlasts a hook's sleeps. `CodecStreams`: the
amps that are switched with the stream, register write by register write, with
registers in any state before the probe.

### RealtekFixupTable, RealtekFixups

`RealtekFixupTable` is `alc269_fixups` as data: for every entry the next one in
its chain and whether it goes first, and what it claims (hooks, LEDs, pins,
GPIOs, coefficients' owners, connection lists) and sets (parser flags).
Pin values and verbs are left out. `RealtekFixups` applies the chain of a root,
one entry per step, at each stage from PRE_PROBE to FREE, the way the HDA core
(external) does: entry, then chain, to a depth of 10, `chained_before` first. The roots
are all entries but those that only other entries name (`OnlyChained` in
`MCCodec`), 273 of them; `Excused` are two whose headset microphone no headset
mode serves (section 5). What an entry claims is an over-approximation where its code
looks at the machine: two entries that would claim the same LED only on
different platforms are told apart by `platform`, others are not.

### MCAsoc, MCBringUp, MCNumbers, MCCodec

`MCAsoc` has two profiles and two or three volumes. The other three compose
components of one layer that share no state in the models: the variable `part`
says which of them moves, and the others rest in one fixed initial state. A
behaviour of the composition is therefore a behaviour of one component, with
every initial state and every step that component has (`InClients(A)`,
`InPower(A)` and so on are its steps), and the fairness is the component's own.

## 4. The runs

Every component states its properties as named parts; a run checks the parts in
groups, and the group's definition lists them. Where a group has parts about
states and about steps, it is one property of steps and says of the state parts
that they hold after every step.

| Run | Instance | Checks |
|---|---|---|
| `amp_hda` | 1 profile, 3 attempts, 2 faults | `SilentWhenOff`, `OnIsVerified`, `DspOnPll`, `DspBypassedWhenOff`, `StopKeepsImages`, `RamWrittenInBypass`; every call returns, a start on a working bus succeeds, and the refinement `KeepsContract` |
| `amp_asoc` | 2 profiles, 2 attempts, 2 faults | `IInv` (types and the proofs' invariant), `CcoRestored`, `OnlyWhilePlaying` |
| `side` | 2 amps, 2 removals at any time | `SideInv` (`HooksReachProbed`, `MirrorsPm`), `Balanced`, `IdleWhenSuspended`, `SilentAfterClose`, `PrepareInitialises`, `AutoSuspends` |
| `asoc` | 2 profiles, 2 volumes, 1 setting, 2 attempts | `AsocInv` (`VolumeApplied`, `OffStaysQuiet`, `CalibRestores`), `StartsOnlyPlaying`, `ReturnOrStuck`: every overlap of the three threads, every failure |
| `bring_up` | up to 3 resources, 2 instances, 4 probes, 2 loads, 2 failures; 2 amps with 40 firmware descriptions each | `SmiInv`, `SetupInv` (`NothingLeft`, `References`, `LineAwake`, `NoneInReset`), `PairInv`, `AmpsAppear`; `PlaceInv`, `BoardRight` |
| `numbers` | volumes 0 to 7; trims at the edges of their fields; 5 readings out of 4 values | `FadeInv`, `FadesRight`, `VcalbInv`, `CalibrationRight`, `LoopsEnd` |
| `codec` | 2 probes, 2 amps, 4 moves; each variant with each flag its code reads, 2 sleeps; all LED pairs, jack and stream hooks; 273 chains | `ProbeInv`, `PowerInv`, `PowerRight`, `LedsRight`, `JackInv`, `SpeakersSafe`, `FixupsRight`, `CodecSettles` |
| `stop_powers_down` | as `amp_hda`, no fault | violated: finding 1 |
| `stop_closes_tx` | as `amp_hda`, no fault | violated: finding 2 |
| `side_prepare_reinit` | 2 amps, 1 removal | violated: finding 3 |
| `asoc_deadlock` | as `asoc`, 3 volumes, 4 settings, 1 attempt | violated: finding 4 |
| `vcalk_sign` | as `numbers` | violated: finding 5 |

### Bounds

* Attempts: 2 or 3 instead of 5 is enough for a first, a middle and a last one,
  the three kinds the loop tells apart. Two faults let the driver's reaction to
  one failure fail as well; the clock fails without limit on top. The safety
  properties are proved for every value of both. `KeepsContract` depends on the
  bound by nature: a stop silences the amp by three independent writes (mute,
  amplifier down, power down), so it withstands the loss of any two and not of
  all three.
* Two removals let both amps of the aggregate go, or one twice.
* `asoc`: two attempts are a first one and a last one, with the `fw_update` between
  them and the one that follows the last; two volumes tell an old one from a new
  one, two profiles the loaded one from the chosen one. Nothing bounds the
  failures. The set of settings is a constant (`Settings`), since no step reads one
  setting to decide about another; the run has the thresholds, whose save and
  write may each fail on a way out of its own (`cali_cfg`), and the theorem
  `AsocCorrect` has them all. `saved` is reset when a calibration ends, since
  nothing reads it any more. `AsocInv` and `StartsOnlyPlaying` are proved for every
  value of the constants.
* SMI: more resources than the two instances, fewer, none and an error of
  counting, for I2C and SPI; probes enough for a failing, a deferred and a
  successful one around a removal. Loads: one after a failed or an ended one.
* Fades: 8 levels with steps from 0 to 7, so every step that divides a
  distance, does not, or exceeds it. Trims: around 0, the sign bit and the ends
  of their ranges, with copies that differ. Readings: below, at and between the
  bounds, and one that wrapped; fewer than the code's, with the same sort and the
  same two ends cut off.
* Codec: the second probe finds what the first one left; the second sleep finds
  what the first one changed. Polls of the depop state: 2 of 20, reported or
  not. The table of fixups has no bound, it is the code's.

### Fairness

* `Aw88399Amp`, `AsocCodec`, `HdaSideCodec`, `CodecPower`, `CodecJacks`: a call, thread,
  hook or removal under way goes on (weak; strong for the threads of
  `AsocCodec`, since the kernel's mutex starves no waiter). It is ordinary kernel
  code with bounded polls and sleeps.
* `AsocCodec`: the timer of the work expires (`WorkBegins`); `HdaSideCodec`: so does
  the autosuspend timer of an unused device; `CodecJacks`: the event work runs.
* `ClientSetup`: the module is loaded and SMI probes, since udev and the driver
  core do, and what began ends. `VolumeFade`, `Calibration`: the loops run on.
* Nobody has to start, stop, open, close, suspend, plug, remove or fail anything,
  nor to deliver a clock.

Deadlock is checked in `amp_hda`, `amp_asoc` and `side`. In the other passing runs
the system may stop: loads, probes and moves are bounded, a computation ends,
and in `asoc` the code deadlocks (finding 4).

## 5. Findings

1. `aw88399_stop` takes status PW_OFF for "already power off"
   (`aw88399.c:1380`). After the last failed attempt `start_pa` has run
   `fw_update` once more, which ends with the chip powered up (`aw88399.c:1161`);
   the stop of CLEANUP and CLOSE then returns at once. The amp stays muted
   and bypassed (`SilentWhenOff`, `DspBypassedWhenOff`) but powered, until the
   next successful start and stop.
2. `aw_dev_i2s_tx_enable(false)` writes `I2SCFG1` (`aw88399.c:715`) where the
   enable branch writes `I2SCTRL3` (`aw88399.c:712`): "close tx feedback"
   (`aw88399.c:2119`) and the same call in stop leave the feedback enabled.
3. Suspend stops an amp only if `playing` is set (`aw88399_hda.c:456`), which
   only OPEN does, while PREPARE starts any amp of the aggregate. An amp bound
   while a stream is open is started, not stopped by the suspend, reset by the
   resume, and then taken for running by `aw88399_start`: the chip is not
   "fully reinitialized on next playback" (`aw88399_hda.c:475`).
4. `playback_event` waits for the start work with
   `cancel_delayed_work_sync` (`aw88399.c:2206`) while it holds the lock that
   `startup_work` takes first (`aw88399.c:1328`). With a delay of 0
   (`aw88399.h:516`) a stop right after a start can meet the work in between: both
   wait for ever. The HDA path does not use this code.
5. `get_vcalk` tests the sign of the voltage trim with the mask of all other bits
   (`aw88399.c:460`, against `aw88399.c:429`): small positive trims become large
   negative ones.

Differences between code and documentation met while modelling, which the models
follow and no run is about:

* `aw88399_hda.c:415`: removing one amp unbinds the whole aggregate, so the other
  one is reached by no CLEANUP or CLOSE (`README.md:98`) and may stay on.
* `aw88399.c:791`: `volume_set` writes the chip without the lock; a fade in under
  way that has read the volume already writes the one it read last. The amp then
  plays at another volume than `volume_get` reports, until the next fade or volume
  (`overtaken`).
* `aw88399.c:1937`: a profile selected between PRE_PMU and the start work is
  reported, but the old one plays.
* `aw88399.c:2083`: `calib_set` tests the status once and runs for over a second
  without the lock; a stop meanwhile is undone by its DSP enable and unmute, and
  what it puts back may be older than what a start meanwhile has loaded. The next
  start after its end puts both right (`harm`).
* `aw88399.c:1311`: a retry goes on when the `fw_update` before it failed. If a
  profile was selected meanwhile, the next attempt may start the amp with the
  registers of the new profile and the images of the old one.
* `aw88399.c:1634`: a calibration that fails on its thresholds leaves noise gate
  and low power mode off until the next start.
* `aw88399.c:560`: a measured impedance equal to a bound is reported as normal and
  not written.
* `aw88399_setup.c:183`: a load that found ACPI's client takes the adapter twice and
  puts it once, on every exit; an ACPI device that it looked up by its HID
  (`aw88399_setup.c:195`) likewise. A load that fails after the reset leaves the
  line requested with nobody to release it (`aw88399_setup.c:243-264`).
  `aw88399_setup.c:151`: the client is used after its reference was dropped.
* `aw88399_setup.c:158`: without a client the module makes both itself, whoever
  the node belongs to (against `README.md:179`).
* `alc269.c:688`: `alc225_shutup` cuts the pins whatever `no_shutup_pins` says.
* `alc269.c:6133`: a pin "use as headset mic" without a headset mode;
  `alc269.c:5033`, `alc269.c:4697`: entries that say something else than their
  comment; `alc269.c:5409` and four more: a `chain_id` without `.chained`.
* `alc269.c:3402`: hibernation with an open stream leaves GPIO3 of an ALC1318 off;
  `alc269.c:3413`: coefficient tables without a terminator.
* `alc269.c:186`: headset keys are not enabled again after a sleep that cut the
  codec's power.
* `aw88399_hda.c:242`: on a board that is wired backwards a `speaker-position` is
  swapped for the bridge and not for the core.

## 6. The proofs

The proofs hold for every value of the constants that satisfies the named
assumptions, which TLC evaluates on each run.

| Module | Theorems | For every |
|---|---|---|
| `Aw88399Amp_proofs` | `InvariantHolds`, `TypeCorrect`, `SilenceCorrect`, `VerifiedWhenOn`, `PllUnderDsp`, `BypassedWhenOff`, `LoadsInBypass`, `StopsWithImages` | set of profiles, container, number of attempts and faults, both clients |
| `AmpCallers_proofs` | `CcoCorrect`, `PlayCorrect`, `ContractCorrect` | the same; the second for the ASoC client, the third for the HDA client and at most two faults |
| `AsocCodec_proofs` | `StepsHold`, `StartsPlaying`, `AsocCorrect` | set of profiles, volumes and settings, number of attempts; every overlap of the threads |
| `HdaSideCodec_proofs` | `SideCorrect`, `BalanceCorrect`, `SuspendedIsOff`, `ClosedIsSilent`, `PrepareCorrect` | set of amps and number of removals |
| `BringUp_proofs` | `SmiCorrect`, `SmiBesideSetup`, `SetupCorrect`, `PairCorrect`; `PlaceCorrect` and its parts, `BoardCorrect` | number of resources, instances, probes, loads and failures; number of amps and firmware description |
| `CodecPower_proofs` | `PowerCorrect`, `PowerOrderCorrect` | set of machines (variant and flags), number of polls and sleeps |
| `CodecDriver_proofs` | `ProbeCorrect`; `LinesFollow`, `AmpsSwitchSafely`, `LedsShowTruth` | set of amps and of fixups, number of probes; set of machines with such a hook, speaker amp or pair of LEDs |
| `Numbers_proofs` | `FadeCorrect`, `FadeStepsCorrect`; `CalibrationCorrect`; `VcalbCorrect` | range, offset and step; number of readings, readings, range; trims of either copy and register default |

`Aw88399Amp_proofs`: none of the properties is inductive. What a step relies on
was established many steps earlier, so `IInv` says it at every step in between:
the muted, bypassed and PLL-clocked bits hold except between named steps
(`MutedUnlessOn`, `BypassedUnlessOn`, `PllOutsideWindow`); what the CRC checks
have shown so far (`CrcProgress`); who may be running which part, and that the
amp is on only between calls (`OnBetweenCalls`); that no attempt follows the last
(`AttemptBound`); and, as long as no access failed, that a stop that reloads the
memories does so on the oscillator and with power (`ImagesKept`). `Untouched`
covers the chip after a reset, whose registers are the chip's and not the
driver's. The proof goes by groups of steps (fw_update, dev_init, PLL, CRC,
start, stop, calls, clock), one case per action, each from the lemma on its
combinator; types and the other conjuncts apart.

`AmpCallers_proofs` adds where the bypass of the PLL clock is away, and that with
the ASoC client a pending or finished start implies a powered widget.
`ContractCorrect` is the refinement's safety part. The abstract step is found
from `pc` and status; that an amp that is off is silent needs an account of
failures (`LostCost`: every silencing bit the driver is wrong about took one
of at most two faults) and of what a stop has written so far (`StopProgress`).

`AsocCodec_proofs` is built in layers. `StepsInv` says where each thread may be: what
it has still to run is a suffix of one of six programs (or of a calibration's
branch), and for every place in it who has the lock, whether the amp is off, the
widget up and the work queued. The core is that work which is queued or waits
for the lock implies an amp that is off and no restart by `profile_set`
(`QueueInv`), so that PRE_PMU, the work and `profile_set` never start an amp that
another one of them is starting; POST_PMD cancels before it clears the widget.
`StartsPlaying` follows from it.

`AsocCorrect` needs four more layers, and no assumption beyond those on the
constants. `AmpInv` says what the amp is like at each place, unless it was stopped
under a calibration: whoever has the lock has registers and silence (`EventHas`,
`StartHas`), and with nobody at the lock the amp is at `Rest`, silent when off and
else with the settings that the rest of a calibration under way will put back
(`Settled`, `Overridden`). What a calibration without the lock may meet is the heart
of it: an amp that is off has no calibration beside it unless `harm` says so, and
`RunInv` (`cali_running` covers a whole calibration) shows that `harm` sees each of
them. `FadeInv` says that what a `fade_in` has read is `ctl_volume` until a control
overtakes it, and `VolInv` that the volume of an audible amp is the chosen one or
about to be written; both rest on which label can follow which (`Follows`,
`StepFlows`). The proof computes once what each program's steps are, what each of
them changes and where it goes (the lemmas on programs, `...Effects`, `...Data` and
`...Advance`), so that the inductive steps speak of places and not of sequences. Its
check takes some ten minutes.

`HdaSideCodec_proofs`: `GInv` holds in every history, `QInv` in quiet ones. The core is
that a bound aggregate, a stream and a usage of one belong together (`HeldOnce`,
also half way through a hook), that a held device is awake (`HeldIsActive`) and
that an initialised amp is held (`LiveWhileHeld`).

`BringUp_proofs`: names below the counter are clients of SMI's own, at every
step of loop and roll back, and no step of the setup module touches them;
conversely a load holds what its step says (`OwnClients`, `References`, `Line`), and
ACPI's client is found at most once (`FoundOnce`). `PairCorrect` adds that the registry holds one client per name,
that ACPI's client is there only on a node SMI never probes (`AcpiFirst`), and that
the clients the module has made stay until it takes them away (`StillThere`). Of the placement: during bind and unwind exactly the amps up to `turn` are
in their slots (`BindInv`, `UnwindInv`), so two amps that are up have different
numbers, hence different channels.

`CodecPower_proofs`: a call is the list `todo` of accesses it still has to make, and
its look at the jacks puts the accesses for the jacks it saw in front of the rest.
`PowerIInv` says what that list contains: which access is still to come before
which other (`Leads`: the mute of a seen pin before a cut, the drive before an
unmute, the poll of the depop procedure before anything opens a pin), which has
the last word on a switch or on the power mode (`Lasts`), and what is not there
(`Lacks`, `Never`: a call looks once, suspend drives nothing). The proof knows how
these combine when lists are put together, computes with that what each variant's
init, boot, resume, suspend and shutup contain (`HookFacts`, `BootFacts`,
`ResumeFacts`, `SuspendFacts`, `SeenFacts`, `ShutFacts`), and shows that an access
takes from the list exactly what it makes true of the registers.

`CodecDriver_proofs`: of the probe, the life of spec, manager, hook and key by `pc`.
For the jacks, which hook is still under way when the line is not what the jacks
say, and in the hooks that sleep, that the thread which came last has read last
(`HooksRight`); for the speaker
amps, that the writes which are queued bring the amp to where the stream wants it
(`QueueRight`, `WritesComing`), the supply before the amp (`SupplyFirst`); for the
LEDs, that the driver's note of a LED is what was asked unless its set function is still
to run, and that the pins carry what is noted (`Noted`, `Driven`).

`Numbers_proofs`: of the fades, where the level is during a fade (`InLevel`, `OutLevel`)
and that the offset is monotone and limited (`RealOrdered`). Of the calibration, what
the sum without both ends can be when few of the readings so far are below a bound,
or above it (`AtLeast`, `AtMost`), taken once for the range and once for its outside;
`QuotientBounds` carries that through C's division. Of the voltage calibration, what
each sign extension makes of a word (`WordOfTen`, `WordOfSix`), that the quotient
for the DAC reference is monotone and at most 26660 (`DacQuotientIs`), and that no
trims reach the divisor's zero: not even the wrongly extended ones (`VcalkIs`).
`DacMonotone` is bounded by `Init0 <= 10068`: above that value of the register list
the product no longer fits 16 bits for every pair of trims.

Only model-checked: all liveness (`CallsReturn`, `StartSucceeds`, `AutoSuspends`,
`ReturnOrStuck`, `AmpsAppear`, `FadesEnd`, `CalibrationEnds`, `Settles`, and the
fairness of the contract), since fairness is out of the prover's reach, and
`FixupsRight`: the table of fixups is concrete and finite, so TLC's evaluation is
already exhaustive.

## 7. Not modelled

* The parser of the firmware container (`aw88395_lib`): only its headers are here.
* Values: pin configurations, verbs and coefficient values of the quirk tables,
  `helpers/ideapad_s740.c` (a table of writes), and most constants of
  `alc269.c` 1210-7900 that no property tells apart.
* The choice of a quirk by SSID, codec SSID and pins (HDA core): every entry is
  a root instead.
* I2C probe and the registration of the ASoC component; the second PCM stream of
  independent headphones; dither; the conversion of readings from DSP units.
* Headers of the HDA core, installation, packaging and UCM profiles: declarations
  and files, nothing that changes state concurrently.
