----------------------------- MODULE CodecPower -----------------------------
(***************************************************************************)
(* Power transitions of the Realtek codec (realtek/alc269.c): what init    *)
(* hook, shutup, suspend and resume of each codec variant write, access by *)
(* access.  A call is the list `todo' of its accesses; the driver sleeps   *)
(* between them, so headphones come and go (`plugged') after the driver    *)
(* has looked (`seen').  `bits' holds the switches of the coefficients     *)
(* that an access sets or clears.  Which code runs is decided by the       *)
(* machine: the variant found by the probe and the flags of its fixups.    *)
(***************************************************************************)
EXTENDS Naturals, Sequences

CONSTANTS
    PowerMachines,  \* the machines to look at
    Polls,          \* bound: reads of the depop state (20 in the code)
    MaxSleeps       \* bound: suspends in one behaviour

OutPins == {"hp", "aux"}   \* headphone pin (0x21 when none is found); 0x16 or 0x14

Is256 == {"ALC256", "ALC257"}              \* alc256_init, alc256_shutup
Is225 == {"ALC225", "ALC245", "ALC287"}    \* alc225_init, alc225_shutup
PowerMachine == [variant : {"ALC269VA", "ALC269VB", "ALC280", "ALC282", "ALC283", "ALC623",
                       "ALC294"} \cup Is256 \cup Is225,
            hp_pin : BOOLEAN, no_shutup_pins : BOOLEAN, ultra_low_power : BOOLEAN,
            has_hs_key : BOOLEAN, en_3kpull_low : BOOLEAN, has_alc5505_dsp : BOOLEAN,
            gpio_data : BOOLEAN, halt : BOOLEAN]

ASSUME CodecAssumption ==
    /\ PowerMachines \subseteq PowerMachine /\ Polls \in Nat \ {0} /\ MaxSleeps \in Nat
    /\ \A m \in PowerMachines :
         /\ m.variant = "ALC257" => ~m.en_3kpull_low
         /\ m.has_alc5505_dsp => m.variant = "ALC280"

VARIABLES
    alc_spec,           \* struct alc_spec, and HALT_REALTEK_ALC5505
    done_hp_init, pm_event, \* of alc_spec; the PM event of the device
    pin, muted,         \* pin control and output amplifier of each pin
    mode, saved, bits,  \* headphone power mode, its saved value, switches
    plugged, seen,      \* jacks, and what the driver saw of them
    call, todo, polls,  \* the call under way
    power, sleeps, fresh, lost

registers == <<alc_spec, pin, muted, mode, saved, bits>>
powerVars == <<registers, done_hp_init, pm_event, plugged, seen, call, todo, polls,
               power, sleeps, fresh, lost>>

Switches == {"pull", "keys", "low", "jdReset", "manual", "pathCut", "vbOutput",
             "dspRuns", "gpio", "eapd", "coefs"}

\* The accesses, each with what it is made to.
Accesses ==
    ({"set", "clear"} \X Switches) \cup ({"mode"} \X {"low", "high", "normal"})
    \cup ({"drive", "cut", "mute", "unmute"} \X ((SUBSET OutPins) \ {{}}))
    \cup {<<"save", "mode">>, <<"restore", "mode">>, <<"shutup_pins", "all">>,
          <<"gen_init", "all">>, <<"sync", "all">>, <<"sense", "jacks">>, <<"poll", "depop">>}

-----------------------------------------------------------------------------
(* The accesses of each function, in order.  `s' are the pins seen.        *)

If(b, ops) == IF b THEN ops ELSE <<>>
Set(b)   == <<<<"set", b>>>>
Clear(b) == <<<<"clear", b>>>>
Mode(m)  == <<<<"mode", m>>>>
Pin(what, s) == If(s # {}, <<<<what, s>>>>)
Sense == <<<<"sense", "jacks">>>>
Cut(s) == If(~alc_spec.no_shutup_pins, Pin("cut", s))

shutup_pins == Clear("eapd") \o <<<<"shutup_pins", "all">>>>
Sensed == IF alc_spec.variant \in Is225 \cup {"ALC623"} THEN OutPins ELSE {"hp"}

IsVB == alc_spec.variant = "ALC269VB"
alc269vb_toggle_power_output(up) == If(IsVB, IF up THEN Set("vbOutput") ELSE Clear("vbOutput"))
alc269_fill_coef == If(IsVB, Set("vbOutput"))
alc269_shutup == alc269vb_toggle_power_output(FALSE) \o shutup_pins

restore_default_value == Set("coefs")
alc282_init == restore_default_value \o If(alc_spec.hp_pin, Sense)
alc282_init_seen == <<<<"save", "mode">>>> \o Mode("high") \o Pin("mute", {"hp"})
                    \o Pin("drive", {"hp"}) \o <<<<"restore", "mode">>>>
alc282_shutup ==
    <<<<"save", "mode">>>> \o Mode("high") \o Pin("mute", {"hp"}) \o Cut({"hp"})
    \o shutup_pins \o <<<<"restore", "mode">>>>

alc283_init == restore_default_value \o If(alc_spec.hp_pin, Sense)
alc283_init_seen == Mode("high") \o Pin("mute", {"hp"}) \o Pin("drive", {"hp"})
                    \o Clear("pull") \o Mode("normal")
alc283_shutup == Mode("high") \o Pin("mute", {"hp"}) \o Cut({"hp"}) \o Set("pull")
                 \o shutup_pins \o Mode("normal")

Drive(s) == Pin("drive", s) \o Pin("unmute", s)

alc256_init_seen(s) == If(s # {}, Mode("low") \o Drive(s) \o Mode("high")) \o Clear("pull")

wake == If(alc_spec.ultra_low_power, Clear("low"))
doze == If(alc_spec.ultra_low_power, Set("low"))
alc256_init == wake \o Sense

alc256_3k == Mode("low") \o If(alc_spec.en_3kpull_low, Set("pull")) \o Sense
alc256_shutup(s) == Pin("mute", s) \o Cut(s) \o shutup_pins \o doze

Depop == <<<<"poll", "depop">>>>
S3orS4 == pm_event \in {"resume", "restore"}
alc285_hp_init ==
    LET hp == IF alc_spec.hp_pin THEN {"hp"} ELSE {} IN
    Set("jdReset") \o Set("pathCut") \o Pin("mute", hp) \o Pin("cut", hp)
    \o Depop \o Clear("pathCut") \o Clear("jdReset")

alc225_init ==
    wake \o If(alc_spec.variant = "ALC225" /\ (~done_hp_init \/ S3orS4), alc285_hp_init) \o Sense
alc225_init_seen(s) ==
    If(s # {}, Mode("low") \o Drive(s) \o Clear("pull") \o Mode("high"))

HasKeys == alc_spec.has_hs_key /\ alc_spec.variant \in Is256 \cup {"ALC225", "ALC287"}
alc_disable_headset_jack_key == If(HasKeys, Clear("keys"))
alc_enable_headset_jack_key  == If(HasKeys, Set("keys"))

\* Mutants: the keys stay off; the pin is cut while it is heard.
alc225_shutup_keyless(s) ==
    If(s # {}, alc_disable_headset_jack_key \o Set("pull") \o Pin("mute", s)
               \o Pin("cut", s) \o Clear("pull"))
    \o shutup_pins \o doze
alc225_shutup_loud(s) ==
    If(s # {}, alc_disable_headset_jack_key \o Set("pull") \o Pin("cut", s)
               \o Pin("mute", s) \o Clear("pull") \o alc_enable_headset_jack_key)
    \o shutup_pins \o doze

alc225_shutup(s) ==
    If(s # {}, alc_disable_headset_jack_key \o Set("pull") \o Pin("mute", s)
               \o Pin("cut", s) \o Clear("pull") \o alc_enable_headset_jack_key)
    \o shutup_pins \o doze

alc222_shutup(s) == Pin("mute", s) \o Pin("cut", s) \o shutup_pins
alc_default_shutup(s) == Pin("mute", s) \o Cut(s) \o shutup_pins

alc294_hp_init ==
    If(alc_spec.hp_pin, Pin("mute", {"hp"}) \o Cut({"hp"}) \o Set("manual")
                        \o Depop \o Clear("manual"))
alc294_init ==
    If(~done_hp_init \/ pm_event = "restore", alc294_hp_init) \o If(alc_spec.hp_pin, Sense)

alc5505_dsp_halt == Clear("dspRuns")
alc5505_dsp_back_from_halt == Set("dspRuns")
alc5505_dsp_init ==
    alc5505_dsp_halt \o alc5505_dsp_back_from_halt \o If(alc_spec.halt, alc5505_dsp_halt)

-----------------------------------------------------------------------------
(* Which of them run: the hooks the probe chose.                           *)

HasDsp == alc_spec.has_alc5505_dsp

\* spec->init_hook up to the first look at the jacks, and from there on.
init_hook ==
    CASE HasDsp                     -> alc5505_dsp_init
      [] alc_spec.variant = "ALC269VB"  -> alc269_fill_coef
      [] alc_spec.variant = "ALC269VA"  -> <<>>
      [] alc_spec.variant = "ALC282"    -> alc282_init
      [] alc_spec.variant = "ALC283"    -> alc283_init
      [] alc_spec.variant \in Is256     -> alc256_init
      [] alc_spec.variant \in Is225     -> alc225_init
      [] alc_spec.variant = "ALC294"    -> alc294_init
      [] OTHER                      -> If(alc_spec.hp_pin, Sense)
InitSeen(s) ==
    CASE alc_spec.variant = "ALC282"    -> alc282_init_seen
      [] alc_spec.variant = "ALC283"    -> alc283_init_seen
      [] alc_spec.variant \in Is256     -> alc256_init_seen(s)
      [] alc_spec.variant \in Is225     -> alc225_init_seen(s)
      [] OTHER                      -> Drive(s)

LooksFirst == \/ alc_spec.variant \in Is225 \cup {"ALC623"}
              \/ alc_spec.hp_pin /\ alc_spec.variant \notin {"ALC269VA", "ALC269VB"}
shutup == IF alc_spec.variant \in Is256 THEN alc256_3k
          ELSE IF LooksFirst THEN Sense ELSE alc269_shutup
ShutupSeen(s) ==
    CASE alc_spec.variant = "ALC282"    -> alc282_shutup
      [] alc_spec.variant = "ALC283"    -> alc283_shutup
      [] alc_spec.variant \in Is256     -> alc256_shutup(s)
      [] alc_spec.variant \in Is225     -> alc225_shutup(s)
      [] alc_spec.variant = "ALC623"    -> alc222_shutup(s)
      [] OTHER                      -> alc_default_shutup(s)

\* The rest of alc_init is the generic parser's; BUILD follows the first one.
gen_init == Set("eapd") \o <<<<"gen_init", "all">>>>
alc_fixup_headset_jack == alc_enable_headset_jack_key
alc_write_gpio_data == If(alc_spec.gpio_data, Set("gpio"))
Boot == init_hook \o gen_init \o alc_write_gpio_data \o alc_fixup_headset_jack

alc269_suspend == If(HasDsp /\ ~alc_spec.halt, alc5505_dsp_halt) \o shutup

alc269_resume ==
    alc269vb_toggle_power_output(FALSE) \o init_hook \o gen_init
    \o alc269vb_toggle_power_output(TRUE) \o <<<<"sync", "all">>>> \o alc_write_gpio_data
    \o If(HasDsp /\ ~alc_spec.halt, alc5505_dsp_back_from_halt)

NeedsDepop == alc_spec.variant = "ALC225" \/ (alc_spec.variant = "ALC294" /\ alc_spec.hp_pin)

PowerInit ==
    /\ alc_spec \in PowerMachines /\ done_hp_init = FALSE /\ pm_event = "on"
    /\ pin = [p \in OutPins |-> "off"] /\ muted = [p \in OutPins |-> TRUE]
    /\ mode = "default" /\ saved = "default" /\ bits = {}
    /\ plugged \in SUBSET OutPins /\ seen = {} /\ polls = 0
    /\ call = "none" /\ todo = <<>>
    /\ power = "off" /\ sleeps = 0 /\ fresh = NeedsDepop /\ lost = FALSE

PowerTypeOK ==
    /\ alc_spec \in PowerMachines /\ done_hp_init \in BOOLEAN
    /\ pm_event \in {"on", "resume", "restore"}
    /\ pin \in [OutPins -> {"off", "out"}] /\ muted \in [OutPins -> BOOLEAN]
    /\ mode \in {"default", "low", "high", "normal"}
    /\ saved \in {"default", "low", "high", "normal"} /\ bits \subseteq Switches
    /\ plugged \subseteq OutPins /\ seen \subseteq Sensed /\ polls \in 0..Polls
    /\ call \in {"none", "boot", "suspend", "resume"} /\ todo \in Seq(Accesses)
    /\ power \in {"off", "active", "runtime", "s3", "s4", "waking"} /\ sleeps \in 0..MaxSleeps
    /\ fresh \in BOOLEAN /\ lost \in BOOLEAN

-----------------------------------------------------------------------------
(* One access.                                                             *)

Op == Head(todo)[1]
Arg == Head(todo)[2]
Does(op) == todo # <<>> /\ Op = op
Rest == todo' = Tail(todo)
env == <<alc_spec, pm_event, plugged, call, power, sleeps, lost>>

Switch ==
    /\ (Does("set") \/ Does("clear")) /\ Rest
    /\ bits' = IF Op = "set" THEN bits \cup {Arg} ELSE bits \ {Arg}
    /\ UNCHANGED <<env, done_hp_init, pin, muted, mode, saved, seen, polls, fresh>>

PowerMode ==
    /\ (Does("mode") \/ Does("save") \/ Does("restore")) /\ Rest
    /\ mode' = CASE Op = "mode" -> Arg [] Op = "restore" -> saved [] OTHER -> mode
    /\ saved' = IF Op = "save" THEN mode ELSE saved
    /\ UNCHANGED <<env, done_hp_init, pin, muted, bits, seen, polls, fresh>>

PinAccess ==
    /\ (Does("drive") \/ Does("cut") \/ Does("mute") \/ Does("unmute")) /\ Rest
    /\ pin' = [p \in OutPins |-> IF p \notin Arg \/ Op \in {"mute", "unmute"} THEN pin[p]
                              ELSE IF Op = "drive" THEN "out" ELSE "off"]
    /\ muted' = [p \in OutPins |-> IF p \notin Arg \/ Op \in {"drive", "cut"} THEN muted[p]
                                ELSE Op = "mute"]
    /\ UNCHANGED <<env, done_hp_init, mode, saved, bits, seen, polls, fresh>>

\* External: the generic code clears every pin at shutup, drives them all at
\* init, and the regmap holds the amplifiers as the user set them.
Generic ==
    /\ (Does("shutup_pins") \/ Does("gen_init") \/ Does("sync")) /\ Rest
    /\ pin' = [p \in OutPins |-> CASE Op = "gen_init" -> "out"
                                [] Op = "shutup_pins" /\ ~alc_spec.no_shutup_pins -> "off"
                                [] OTHER -> pin[p]]
    /\ muted' = IF Op = "sync" THEN [p \in OutPins |-> FALSE] ELSE muted
    /\ UNCHANGED <<env, done_hp_init, mode, saved, bits, seen, polls, fresh>>

\* snd_hda_jack_detect: what follows depends on what is plugged now.
LookAtJacks ==
    /\ Does("sense") /\ seen' = plugged \cap Sensed
    /\ todo' = (IF call = "suspend" THEN ShutupSeen(seen') ELSE InitSeen(seen')) \o Tail(todo)
    /\ UNCHANGED <<env, registers, done_hp_init, polls, fresh>>

\* Mutant: a poll does not count.
DepopPollEndless ==
    /\ Does("poll")
    /\ \/ polls' = 1 - polls /\ UNCHANGED <<todo, fresh, done_hp_init>>
       \/ polls' = 0 /\ Rest /\ fresh' = FALSE /\ done_hp_init' = TRUE
    /\ UNCHANGED <<env, registers, seen>>
\* The depop procedure is polled, but not for ever.
DepopPoll ==
    /\ Does("poll")
    /\ \/ polls < Polls /\ polls' = polls + 1 /\ UNCHANGED <<todo, fresh, done_hp_init>>
       \/ polls' = 0 /\ Rest /\ fresh' = FALSE /\ done_hp_init' = TRUE
    /\ UNCHANGED <<env, registers, seen>>

Returns ==
    /\ call # "none" /\ todo = <<>> /\ call' = "none"
    /\ UNCHANGED <<registers, done_hp_init, pm_event, plugged, seen, todo, polls, power, sleeps,
                   fresh, lost>>

Access == Switch \/ PowerMode \/ PinAccess \/ Generic \/ LookAtJacks \/ DepopPoll \/ Returns

-----------------------------------------------------------------------------
(* The environment: jacks, the user, power management.                     *)

Jack(p) ==
    /\ plugged' = IF p \in plugged THEN plugged \ {p} ELSE plugged \cup {p}
    /\ UNCHANGED <<registers, done_hp_init, pm_event, seen, call, todo, polls, power, sleeps,
                   fresh, lost>>

NoCall == call = "none"

\* The user raises the volume.
Listen ==
    /\ NoCall /\ power = "active" /\ muted' = [p \in OutPins |-> FALSE]
    /\ UNCHANGED <<env, done_hp_init, pin, mode, saved, bits, seen, todo, polls, fresh>>

\* alc_init for the first time, then BUILD.
Start ==
    /\ power = "off" /\ power' = "active" /\ call' = "boot" /\ todo' = Boot
    /\ UNCHANGED <<registers, done_hp_init, pm_event, plugged, seen, polls, sleeps, fresh, lost>>

Suspend(how) ==
    /\ NoCall /\ power = "active" /\ sleeps < MaxSleeps /\ sleeps' = sleeps + 1
    /\ power' = how /\ call' = "suspend" /\ todo' = alc269_suspend /\ seen' = {}
    /\ UNCHANGED <<registers, done_hp_init, pm_event, plugged, polls, fresh, lost>>

\* A system sleep may cut the power of the codec; firmware may clear the GPIO
\* data in any sleep.  The core stores the event before it calls resume.
Wake ==
    /\ NoCall /\ power \in {"runtime", "s3", "s4"} /\ power' = "waking"
    /\ pm_event' \in CASE power = "s3" -> {"resume"} [] power = "s4" -> {"restore"}
                     [] power = "runtime" -> {pm_event, "on"}
    /\ \/ \E kept \in {bits, bits \ {"gpio"}} :
              bits' = kept /\ UNCHANGED <<pin, muted, mode, fresh, lost>>
       \/ /\ power # "runtime" /\ lost' = TRUE /\ bits' = {} /\ mode' = "default"
          /\ pin' = [p \in OutPins |-> "off"] /\ muted' = [p \in OutPins |-> TRUE]
          /\ fresh' = (alc_spec.variant = "ALC225" \/ (NeedsDepop /\ power = "s4"))
    /\ UNCHANGED <<alc_spec, saved, done_hp_init, plugged, seen, call, todo, polls, sleeps>>

Resume ==
    /\ power = "waking" /\ power' = "active"
    /\ call' = "resume" /\ todo' = alc269_resume /\ seen' = {}
    /\ UNCHANGED <<registers, done_hp_init, pm_event, plugged, polls, sleeps, fresh, lost>>

PowerNext == \/ Access \/ Start \/ Listen \/ Wake \/ Resume
             \/ \E p \in OutPins : Jack(p)
             \/ \E how \in {"runtime", "s3", "s4"} : Suspend(how)

\* A call under way goes on; nobody has to suspend, resume or plug anything.
PowerSpec == PowerInit /\ [][PowerNext]_powerVars /\ WF_powerVars(Access)

-----------------------------------------------------------------------------
(* Properties.                                                             *)

Awake == NoCall /\ power = "active"

\* "Headphone capless set to normal mode", "Hight power": a call that found
\* headphones leaves them at the power mode they play at, however often it
\* was done and whatever the jacks do meanwhile.
ModeSettled ==
    Awake /\ seen # {} =>
        mode \in CASE alc_spec.variant = "ALC282" -> {"default"}
                   [] alc_spec.variant = "ALC283" -> {"normal"}
                   [] alc_spec.variant \in Is256 \cup Is225 -> {"high"}
                   [] OTHER -> {"default"}

\* The 3k pull-down of the headset jack is released whenever the codec works:
\* with it the headset microphone is not detected.
PullReleased == Awake => "pull" \notin bits

\* "skip setting it for the codec alc257": never pulled where it must not be.
NoPull == alc_spec.variant \in Is256 /\ ~alc_spec.en_3kpull_low => "pull" \notin bits

\* The headset keys that BUILD enabled are enabled after every suspend and
\* resume that kept the power of the codec.
KeysOn == NoCall /\ power # "off" /\ HasKeys /\ ~lost => "keys" \in bits

\* What init and shutup change for their own duration or for the sleep is
\* back when the codec works: jack detection, paths, depop mode, low power,
\* output power, GPIO data, defaults.
AwakeRegisters ==
    Awake => /\ bits \cap {"jdReset", "pathCut", "manual", "low"} = {}
             /\ IsVB => "vbOutput" \in bits
             /\ alc_spec.gpio_data => "gpio" \in bits
             /\ alc_spec.variant \in {"ALC282", "ALC283"} => "coefs" \in bits

\* The DSP of the ALC5505 is halted at rest, or, built otherwise, runs
\* exactly while the codec does.
DspAtRest ==
    NoCall /\ HasDsp /\ power # "waking" =>
        ("dspRuns" \in bits <=> ~alc_spec.halt /\ power = "active")

\* No click: headphones the call has seen are muted before their pin is cut,
\* and driven before they are unmuted.
NoClick ==
    \A p \in seen : /\ pin[p] = "out" /\ pin'[p] = "off" => muted[p] \/ call = "none"
                    /\ muted[p] /\ ~muted'[p] => pin'[p] = "out" \/ call = "none"

\* "call this before clearing the pin, otherwise codec stalls".
PullBeforeCut ==
    \A p \in seen : call = "suspend" /\ alc_spec.variant \in Is256 /\ alc_spec.en_3kpull_low
                     /\ pin[p] = "out" /\ pin'[p] = "off" => "pull" \in bits

\* "required only at boot or S3 and S4 resume time": a pin that lost its power
\* is driven only after the depop procedure.
DepopFirst ==
    \A p \in OutPins : pin[p] = "off" /\ pin'[p] = "out" => ~fresh

\* Every boot, suspend and resume ends, a depop that never reports included.
CallsReturn == (call # "none") ~> (call = "none")

\* no_shutup_pins: "reduce click noise" leaves the pins alone at suspend, save
\* on ALC225 and its kin and ALC623, whose shutup does not ask.
Honours == alc_spec.no_shutup_pins /\ alc_spec.variant \notin Is225 \cup {"ALC623"}
PinsKept == Honours /\ call = "suspend" => pin' = pin

\* Between calls the registers are those of the power state the codec is in,
\* however often it slept, lost its power or had its jacks moved.
PowerInv == /\ PowerTypeOK /\ ModeSettled /\ PullReleased /\ NoPull
            /\ KeysOn /\ AwakeRegisters /\ DspAtRest

\* Calls write in the order that avoids clicks and stalls.
PowerRight == [][NoClick /\ PullBeforeCut /\ DepopFirst /\ PinsKept]_powerVars

=============================================================================
