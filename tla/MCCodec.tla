------------------------------- MODULE MCCodec -------------------------------
(***************************************************************************)
(* The Realtek codec driver: its probe, its power transitions, the LEDs,   *)
(* jack hooks and stream hooks of its machines and its table of fixups.    *)
(* In the models they share no state, so a behaviour follows one of them   *)
(* while the others rest.                                                  *)
(***************************************************************************)
EXTENDS CodecProbe, CodecPower, CodecLeds, CodecJacks, CodecStreams, RealtekFixups

VARIABLE part
all == <<vars, powerVars, ledVars, jackVars, streamVars, fixupVars, part>>

MCFixups == {"none", "amps", "hotkey", "tx300"}

-----------------------------------------------------------------------------
(* Machines: each codec variant with the flags its code reads, the pairs of *)
(* LED functions that fixups install, and every jack and stream hook.       *)

Plain == [variant |-> "ALC280", hp_pin |-> TRUE, no_shutup_pins |-> FALSE,
          ultra_low_power |-> FALSE, has_hs_key |-> FALSE, en_3kpull_low |-> TRUE,
          has_alc5505_dsp |-> FALSE, gpio_data |-> FALSE, halt |-> TRUE]
With(v) == [Plain EXCEPT !.variant = v]

MCPowerMachines ==
    {[m EXCEPT !.hp_pin = h, !.no_shutup_pins = n] :
        h \in BOOLEAN, n \in BOOLEAN,
        m \in {With(v) : v \in {"ALC280", "ALC282", "ALC283", "ALC294", "ALC623"}}}
    \cup {[With("ALC269VB") EXCEPT !.gpio_data = TRUE], With("ALC269VA")}
    \cup {[Plain EXCEPT !.has_alc5505_dsp = TRUE, !.halt = h] : h \in BOOLEAN}
    \cup {[With("ALC256") EXCEPT !.en_3kpull_low = e, !.no_shutup_pins = n, !.has_hs_key = TRUE] :
              e \in BOOLEAN, n \in BOOLEAN}
    \cup {[With("ALC257") EXCEPT !.en_3kpull_low = FALSE]}
    \cup {[With(v) EXCEPT !.ultra_low_power = u, !.has_hs_key = TRUE, !.hp_pin = h] :
              v \in {"ALC225", "ALC287"}, u \in BOOLEAN, h \in BOOLEAN}
    \cup {With("ALC245")}
Both(f) == [mute |-> f, mic |-> f, inverted |-> FALSE]
Pair(f, g) == [mute |-> f, mic |-> g, inverted |-> FALSE]
MCLedMachines ==
    {Both(f) : f \in (DOMAIN MuteLed \cap DOMAIN MicLed) \ {"none"}}
    \cup {Pair(f, "none") : f \in DOMAIN MuteLed \ {"none"}}
    \cup {[mute |-> "alc269_fixup_hp_mute_led_mic1", mic |-> "none", inverted |-> TRUE]}
    \cup {Pair("alc285_fixup_hp_mute_led_coefbit", "alc285_fixup_hp_coef_micmute_led"),
          Pair("alc285_fixup_hp_mute_led_coefbit", "alc285_fixup_hp_gpio_micmute_led"),
          Pair("alc236_fixup_hp_mute_led_coefbit", "alc236_fixup_hp_coef_micmute_led"),
          Pair("alc236_fixup_hp_mute_led_coefbit", "alc236_fixup_hp_micmute_led_vref"),
          Pair("alc245_fixup_hp_mute_led_coefbit", "alc245_fixup_hp_gpio_led"),
          Pair("alc245_fixup_hp_mute_led_coefbit", "alc285_fixup_hp_coef_micmute_led"),
          Pair("none", "alc285_fixup_hp_gpio_micmute_led")}
MCJackMachines == DOMAIN Hooks
MCStreamMachines == DOMAIN SpeakerAmps

\* Entries that only other entries name.
OnlyChained ==
    {"ALC269_FIXUP_GPIO2", "ALC269_FIXUP_ASUS_N7601ZM_PINS", "ALC269_FIXUP_QUANTA_MUTE",
     "ALC269_FIXUP_PINCFG_NO_HP_TO_LINEOUT", "ALC269_FIXUP_ASUS_X101_FUNC",
     "ALC269_FIXUP_ASUS_X101_VERB", "ALC271_FIXUP_AMIC_MIC2", "ALC290_FIXUP_MONO_SPEAKERS",
     "ALC255_FIXUP_HEADSET_MODE", "ALC255_FIXUP_HEADSET_MODE_NO_HP_MIC",
     "ALC288_FIXUP_DISABLE_AAMIX", "ALC292_FIXUP_DISABLE_AAMIX", "ALC292_FIXUP_DELL_E7X_AAMIX",
     "ALC233_FIXUP_INTEL_NUC8_BOOST", "ALC225_FIXUP_DISABLE_MIC_VREF",
     "ALC298_FIXUP_LENOVO_SPK_VOLUME", "ALC285_FIXUP_ASUS_SPEAKER2_TO_DAC1",
     "ALC285_FIXUP_ASUS_I2C_SPEAKER2_TO_DAC1", "ALC225_FIXUP_S3_POP_NOISE",
     "ALC274_FIXUP_DELL_BIND_DACS", "ALC285_FIXUP_LENOVO_HEADPHONE_NOISE",
     "ALC295_FIXUP_HP_AUTO_MUTE", "ALC294_FIXUP_ASUS_HEADSET_MIC", "ALC225_FIXUP_WYSE_AUTO_MUTE",
     "ALC225_FIXUP_WYSE_DISABLE_MIC_VREF", "ALC289_FIXUP_DELL_SPK1", "ALC289_FIXUP_DELL_SPK2",
     "ALC294_FIXUP_SPK2_TO_DAC1", "ALC294_FIXUP_ASUS_ALLY_PINS", "ALC294_FIXUP_ASUS_ALLY_VERBS",
     "ALC294_FIXUP_ASUS_ALLY_SPEAKER", "ALC285_FIXUP_THINKPAD_X1_GEN7",
     "ALC294_FIXUP_ASUS_GX502_VERBS", "ALC294_FIXUP_ASUS_GX502_HP",
     "ALC294_FIXUP_ASUS_GU502_VERBS", "ALC294_FIXUP_ASUS_GU502_HP",
     "ALC285_FIXUP_LEGION_Y9000X_AUTOMUTE", "ALC287_FIXUP_LEGION_15IMHG05_AUTOMUTE",
     "ALC245_FIXUP_HP_GPIO_LED", "ALC287_FIXUP_YOGA9_14IAP7_BASS_SPK",
     "ALC287_FIXUP_CS35L41_I2C_2_THINKPAD_ACPI", "ALC285_FIXUP_ASUS_GA403U",
     "ALC285_FIXUP_ASUS_GU605_SPI_2_HEADSET_MIC",
     "ALC285_FIXUP_ASUS_GA403U_I2C_SPEAKER2_TO_DAC1",
     "ALC285_FIXUP_ASUS_GA605K_I2C_SPEAKER2_TO_DAC1", "ALC287_FIXUP_AW88399_I2C_2"}
MCRoots == Ids \ OnlyChained
\* Entries whose headset microphone no headset mode serves.
MCExcused == {"ALC269_FIXUP_VAIO_VJFH52_MIC_NO_PRESENCE", "ALC299_FIXUP_PREDATOR_SPK"}

-----------------------------------------------------------------------------
(* One part moves.                                                         *)

Parts == {"probe", "power", "leds", "jacks", "stream", "fixups"}
Rests(p, state) == IF part = p THEN TRUE ELSE state

NoFixup == [table |-> "none", pins |-> "none", alc294 |-> FALSE, cirrus |-> FALSE]
GpioLeds == Both("alc269_fixup_hp_gpio_led")

CodecInit ==
    /\ part \in Parts
    /\ Rests("probe", machine = NoFixup) /\ Init
    /\ Rests("power", alc_spec = Plain /\ plugged = {}) /\ PowerInit
    /\ Rests("leds", led_machine = GpioLeds /\ gpio_data = {} /\ coef = [i \in Coefs |-> {}])
    /\ LedInit
    /\ Rests("jacks", jack_machine = "tx300" /\ jacks_in = {} /\ line = "open") /\ JackInit
    /\ Rests("stream", stream_machine = "envy") /\ StreamInit
    /\ Rests("fixups", /\ root = "ALC269_FIXUP_SKU_IGNORE" /\ codec_kind = "other"
                       /\ platform = "ideapad")
    /\ FixupInit

InProbe(A)  == /\ part = "probe" /\ A
               /\ UNCHANGED <<powerVars, ledVars, jackVars, streamVars, fixupVars, part>>
InPower(A)  == /\ part = "power" /\ A
               /\ UNCHANGED <<vars, ledVars, jackVars, streamVars, fixupVars, part>>
InLeds(A)   == /\ part = "leds" /\ A
               /\ UNCHANGED <<vars, powerVars, jackVars, streamVars, fixupVars, part>>
InJacks(A)  == /\ part = "jacks" /\ A
               /\ UNCHANGED <<vars, powerVars, ledVars, streamVars, fixupVars, part>>
InStream(A) == /\ part = "stream" /\ A
               /\ UNCHANGED <<vars, powerVars, ledVars, jackVars, fixupVars, part>>
InFixups(A) == /\ part = "fixups" /\ A
               /\ UNCHANGED <<vars, powerVars, ledVars, jackVars, streamVars, part>>

CodecNext == \/ InProbe(Next) \/ InPower(PowerNext) \/ InLeds(LedNext)
             \/ InJacks(JackNext) \/ InStream(StreamNext) \/ InFixups(FixupNext)

\* The fairness of CodecPower and CodecJacks.
CodecSpec ==
    /\ CodecInit /\ [][CodecNext]_all
    /\ WF_all(InPower(Access))
    /\ \A t \in Threads : WF_all(InJacks(HookStep(t)))
    /\ WF_all(InJacks(\E j \in Jacks : Event(j)))

\* Power transitions end, a depop that never reports included, and the line of a
\* jack hook comes to rest where the jacks call for.
CodecSettles == CallsReturn /\ Settles
=============================================================================
