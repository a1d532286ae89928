-------------------------- MODULE RealtekFixupTable --------------------------
(***************************************************************************)
(* The table of machine fixups of the Realtek codec driver                 *)
(* (realtek/alc269.c, alc269_fixups): what each entry is, which entry it   *)
(* chains to, and which resources of the codec its function claims.        *)
(***************************************************************************)
EXTENDS TLC

End == "end"
Row(kind, func, pins, headset, headphone, next) ==
    [kind |-> kind, func |-> func, headset |-> headset, headphone |-> headphone,
     pins |-> pins \cup headset \cup headphone, next |-> next, before |-> FALSE]
Func(func, next) == Row("func", func, {}, {}, {}, next)
Pins(pins, next) == Row("pins", "", pins, {}, {}, next)
\* Pins some of which are meant as the microphone of a headset, or of a
\* headphone jack, that has no jack detection of its own.
Mics(headset, headphone, pins, next) == Row("pins", "", pins, headset, headphone, next)
\* Initial verbs or pin controls, which claim nothing.
Verbs(next) == Row("verbs", "", {}, {}, {}, next)
\* chained_before: the chain comes first.
Before(row) == [row EXCEPT !.before = TRUE]

alc269_fixups_1 ==
    [ALC269_FIXUP_GPIO2 |-> Func("alc_fixup_gpio2", End),
     ALC269_FIXUP_SONY_VAIO |-> Verbs(End),
     ALC275_FIXUP_SONY_VAIO_GPIO2 |-> Func("alc275_fixup_gpio4_off", "ALC269_FIXUP_SONY_VAIO"),
     ALC269_FIXUP_DELL_M101Z |-> Verbs(End),
     ALC269_FIXUP_SKU_IGNORE |-> Func("alc_fixup_sku_ignore", End),
     ALC269_FIXUP_ASUS_G73JW |-> Pins({"0x17"}, End),
     ALC269_FIXUP_ASUS_N7601ZM_PINS |-> Pins({"0x19", "0x1a", "0x21"}, End),
     ALC269_FIXUP_ASUS_N7601ZM |-> Verbs("ALC269_FIXUP_ASUS_N7601ZM_PINS"),
     ALC269_FIXUP_LENOVO_EAPD |-> Verbs(End),
     ALC275_FIXUP_SONY_HWEQ |-> Func("alc269_fixup_hweq", "ALC275_FIXUP_SONY_VAIO_GPIO2"),
     ALC275_FIXUP_SONY_DISABLE_AAMIX |->
         Func("alc_fixup_disable_aamix", "ALC269_FIXUP_SONY_VAIO"),
     ALC271_FIXUP_DMIC |-> Func("alc271_fixup_dmic", End),
     ALC269_FIXUP_PCM_44K |-> Func("alc269_fixup_pcm_44k", "ALC269_FIXUP_QUANTA_MUTE"),
     ALC269_FIXUP_STEREO_DMIC |-> Func("alc269_fixup_stereo_dmic", End),
     ALC269_FIXUP_HEADSET_MIC |-> Func("alc_fixup_headset_mic", End),
     ALC269_FIXUP_QUANTA_MUTE |-> Func("alc269_fixup_quanta_mute", End),
     ALC269_FIXUP_LIFEBOOK |-> Pins({"0x1a", "0x1b"}, "ALC269_FIXUP_QUANTA_MUTE"),
     ALC269_FIXUP_LIFEBOOK_EXTMIC |-> Pins({"0x19"}, End),
     ALC269_FIXUP_LIFEBOOK_HP_PIN |-> Pins({"0x21"}, End),
     ALC269_FIXUP_LIFEBOOK_NO_HP_TO_LINEOUT |-> Func("alc269_fixup_pincfg_no_hp_to_lineout", End),
     ALC255_FIXUP_LIFEBOOK_U7x7_HEADSET_MIC |-> Func("alc269_fixup_pincfg_U7x7_headset_mic", End),
     ALC269VB_FIXUP_INFINIX_ZERO_BOOK_13 |->
         Pins({"0x14", "0x1b"}, "ALC269_FIXUP_LIMIT_INT_MIC_BOOST")]
alc269_fixups_2 ==
    [ALC269VC_FIXUP_INFINIX_Y4_MAX |-> Pins({"0x1b"}, "ALC269_FIXUP_LIMIT_INT_MIC_BOOST"),
     ALC269VB_FIXUP_CHUWI_COREBOOK_XPRO |-> Pins({"0x18", "0x1b"}, End),
     ALC269_FIXUP_AMIC |-> Pins({"0x14", "0x15", "0x18", "0x19"}, End),
     ALC269_FIXUP_DMIC |-> Pins({"0x12", "0x14", "0x15", "0x18"}, End),
     ALC269VB_FIXUP_AMIC |-> Pins({"0x14", "0x18", "0x19", "0x21"}, End),
     ALC269VB_FIXUP_DMIC |-> Pins({"0x12", "0x14", "0x18", "0x21"}, End),
     ALC269_FIXUP_HP_MUTE_LED |-> Func("alc269_fixup_hp_mute_led", End),
     ALC269_FIXUP_HP_MUTE_LED_MIC1 |-> Func("alc269_fixup_hp_mute_led_mic1", End),
     ALC269_FIXUP_HP_MUTE_LED_MIC2 |-> Func("alc269_fixup_hp_mute_led_mic2", End),
     ALC269_FIXUP_HP_MUTE_LED_MIC3 |->
         Func("alc269_fixup_hp_mute_led_mic3", "ALC295_FIXUP_HP_AUTO_MUTE"),
     ALC269_FIXUP_HP_GPIO_LED |-> Func("alc269_fixup_hp_gpio_led", End),
     ALC269_FIXUP_HP_GPIO_MIC1_LED |-> Func("alc269_fixup_hp_gpio_mic1_led", End),
     ALC269_FIXUP_HP_LINE1_MIC1_LED |-> Func("alc269_fixup_hp_line1_mic1_led", End),
     ALC269_FIXUP_INV_DMIC |-> Func("alc_fixup_inv_dmic", End),
     ALC269_FIXUP_NO_SHUTUP |-> Func("alc_fixup_no_shutup", End),
     ALC269_FIXUP_LENOVO_DOCK |-> Pins({"0x19", "0x1b"}, "ALC269_FIXUP_PINCFG_NO_HP_TO_LINEOUT"),
     ALC269_FIXUP_LENOVO_DOCK_LIMIT_BOOST |->
         Func("alc269_fixup_limit_int_mic_boost", "ALC269_FIXUP_LENOVO_DOCK"),
     ALC269_FIXUP_PINCFG_NO_HP_TO_LINEOUT |->
         Func("alc269_fixup_pincfg_no_hp_to_lineout", "ALC269_FIXUP_THINKPAD_ACPI"),
     ALC269_FIXUP_DELL1_MIC_NO_PRESENCE |->
         Mics({"0x19"}, {"0x1a"}, {}, "ALC269_FIXUP_HEADSET_MODE"),
     ALC269_FIXUP_DELL1_LIMIT_INT_MIC_BOOST |->
         Func("alc269_fixup_limit_int_mic_boost", "ALC269_FIXUP_DELL1_MIC_NO_PRESENCE"),
     ALC269_FIXUP_DELL2_MIC_NO_PRESENCE |->
         Mics({"0x1a"}, {}, {"0x16", "0x19"}, "ALC269_FIXUP_HEADSET_MODE_NO_HP_MIC")]
alc269_fixups_3 ==
    [ALC269_FIXUP_DELL3_MIC_NO_PRESENCE |->
         Mics({"0x1a"}, {}, {}, "ALC269_FIXUP_HEADSET_MODE_NO_HP_MIC"),
     ALC269_FIXUP_DELL4_MIC_NO_PRESENCE |->
         Mics({"0x19"}, {"0x1b"}, {}, "ALC269_FIXUP_HEADSET_MODE"),
     ALC269_FIXUP_HEADSET_MODE |-> Func("alc_fixup_headset_mode", "ALC255_FIXUP_MIC_MUTE_LED"),
     ALC269_FIXUP_HEADSET_MODE_NO_HP_MIC |-> Func("alc_fixup_headset_mode_no_hp_mic", End),
     ALC269_FIXUP_ASPIRE_HEADSET_MIC |-> Mics({"0x19"}, {}, {}, "ALC269_FIXUP_HEADSET_MODE"),
     ALC286_FIXUP_SONY_MIC_NO_PRESENCE |-> Mics({"0x18"}, {}, {}, "ALC269_FIXUP_HEADSET_MIC"),
     ALC256_FIXUP_HUAWEI_MACH_WX9_PINS |->
         Pins({"0x12", "0x13", "0x14", "0x18", "0x19", "0x1a", "0x1b", "0x1d", "0x1e", "0x21"},
              "ALC255_FIXUP_MIC_MUTE_LED"),
     ALC298_FIXUP_HUAWEI_MBX_STEREO |->
         Func("alc298_fixup_huawei_mbx_stereo", "ALC255_FIXUP_MIC_MUTE_LED"),
     ALC269_FIXUP_ASUS_X101_FUNC |-> Func("alc269_fixup_x101_headset_mic", End),
     ALC269_FIXUP_ASUS_X101_VERB |-> Verbs("ALC269_FIXUP_ASUS_X101_FUNC"),
     ALC269_FIXUP_ASUS_X101 |-> Pins({"0x18"}, "ALC269_FIXUP_ASUS_X101_VERB"),
     ALC271_FIXUP_AMIC_MIC2 |-> Pins({"0x14", "0x19", "0x1b", "0x21"}, End),
     ALC271_FIXUP_HP_GATE_MIC_JACK |-> Func("alc271_hp_gate_mic_jack", "ALC271_FIXUP_AMIC_MIC2"),
     ALC271_FIXUP_HP_GATE_MIC_JACK_E1_572 |->
         Func("alc269_fixup_limit_int_mic_boost", "ALC271_FIXUP_HP_GATE_MIC_JACK"),
     ALC269_FIXUP_ACER_AC700 |->
         Pins({"0x12", "0x14", "0x18", "0x1e", "0x21"}, "ALC271_FIXUP_DMIC"),
     ALC269_FIXUP_LIMIT_INT_MIC_BOOST |->
         Func("alc269_fixup_limit_int_mic_boost", "ALC269_FIXUP_THINKPAD_ACPI"),
     ALC269VB_FIXUP_ASUS_ZENBOOK |->
         Func("alc269_fixup_limit_int_mic_boost", "ALC269VB_FIXUP_DMIC")]
alc269_fixups_4 ==
    [ALC269VB_FIXUP_ASUS_ZENBOOK_UX31A |-> Verbs("ALC269VB_FIXUP_ASUS_ZENBOOK"),
     ALC269VB_FIXUP_ASUS_MIC_NO_PRESENCE |-> Pins({"0x18"}, "ALC269_FIXUP_HEADSET_MIC"),
     ALC269_FIXUP_LIMIT_INT_MIC_BOOST_MUTE_LED |->
         Func("alc269_fixup_limit_int_mic_boost", "ALC269_FIXUP_HP_MUTE_LED_MIC1"),
     ALC269VB_FIXUP_ORDISSIMO_EVE2 |-> Pins({"0x12", "0x18", "0x19"}, End),
     ALC283_FIXUP_CHROME_BOOK |-> Func("alc283_fixup_chromebook", End),
     ALC283_FIXUP_SENSE_COMBO_JACK |->
         Func("alc283_fixup_sense_combo_jack", "ALC283_FIXUP_CHROME_BOOK"),
     ALC282_FIXUP_ASUS_TX300 |-> Func("alc282_fixup_asus_tx300", End),
     ALC283_FIXUP_INT_MIC |-> Verbs("ALC269_FIXUP_LIMIT_INT_MIC_BOOST"),
     ALC290_FIXUP_SUBWOOFER_HSJACK |-> Pins({"0x17"}, "ALC290_FIXUP_MONO_SPEAKERS_HSJACK"),
     ALC290_FIXUP_SUBWOOFER |-> Pins({"0x17"}, "ALC290_FIXUP_MONO_SPEAKERS"),
     ALC290_FIXUP_MONO_SPEAKERS |-> Func("alc290_fixup_mono_speakers", End),
     ALC290_FIXUP_MONO_SPEAKERS_HSJACK |->
         Func("alc290_fixup_mono_speakers", "ALC269_FIXUP_DELL3_MIC_NO_PRESENCE"),
     ALC269_FIXUP_THINKPAD_ACPI |-> Func("alc_fixup_thinkpad_acpi", "ALC269_FIXUP_SKU_IGNORE"),
     ALC269_FIXUP_LENOVO_XPAD_ACPI |->
         Func("alc_fixup_ideapad_acpi", "ALC269_FIXUP_THINKPAD_ACPI"),
     ALC269_FIXUP_DMIC_THINKPAD_ACPI |-> Func("alc_fixup_inv_dmic", "ALC269_FIXUP_THINKPAD_ACPI"),
     ALC255_FIXUP_ACER_MIC_NO_PRESENCE |-> Mics({"0x19"}, {}, {}, "ALC255_FIXUP_HEADSET_MODE"),
     ALC255_FIXUP_ASUS_MIC_NO_PRESENCE |-> Mics({"0x19"}, {}, {}, "ALC255_FIXUP_HEADSET_MODE"),
     ALC255_FIXUP_DELL1_MIC_NO_PRESENCE |->
         Mics({"0x19"}, {"0x1a"}, {}, "ALC255_FIXUP_HEADSET_MODE"),
     ALC255_FIXUP_DELL1_LIMIT_INT_MIC_BOOST |->
         Func("alc269_fixup_limit_int_mic_boost", "ALC255_FIXUP_DELL1_MIC_NO_PRESENCE"),
     ALC255_FIXUP_DELL2_MIC_NO_PRESENCE |->
         Mics({"0x19"}, {}, {}, "ALC255_FIXUP_HEADSET_MODE_NO_HP_MIC")]
alc269_fixups_5 ==
    [ALC255_FIXUP_HEADSET_MODE |->
         Func("alc_fixup_headset_mode_alc255", "ALC255_FIXUP_MIC_MUTE_LED"),
     ALC255_FIXUP_HEADSET_MODE_NO_HP_MIC |-> Func("alc_fixup_headset_mode_alc255_no_hp_mic", End),
     ALC293_FIXUP_DELL1_MIC_NO_PRESENCE |->
         Mics({"0x1a"}, {"0x18"}, {}, "ALC269_FIXUP_HEADSET_MODE"),
     ALC292_FIXUP_TPT440_DOCK |->
         Func("alc_fixup_tpt440_dock", "ALC269_FIXUP_LIMIT_INT_MIC_BOOST"),
     ALC292_FIXUP_TPT440 |-> Func("alc_fixup_disable_aamix", "ALC292_FIXUP_TPT440_DOCK"),
     ALC283_FIXUP_HEADSET_MIC |-> Pins({"0x19"}, End),
     ALC255_FIXUP_MIC_MUTE_LED |-> Func("alc_fixup_micmute_led", End),
     ALC282_FIXUP_ASPIRE_V5_PINS |->
         Pins({"0x12", "0x14", "0x17", "0x18", "0x19", "0x1a", "0x1b", "0x1d", "0x1e", "0x21"}, End),
     ALC269VB_FIXUP_ASPIRE_E1_COEF |-> Func("alc269vb_fixup_aspire_e1_coef", End),
     ALC280_FIXUP_HP_GPIO4 |-> Func("alc280_fixup_hp_gpio4", End),
     ALC286_FIXUP_HP_GPIO_LED |-> Func("alc286_fixup_hp_gpio_led", End),
     ALC280_FIXUP_HP_GPIO2_MIC_HOTKEY |-> Func("alc280_fixup_hp_gpio2_mic_hotkey", End),
     ALC280_FIXUP_HP_DOCK_PINS |-> Pins({"0x18", "0x1a", "0x1b"}, "ALC280_FIXUP_HP_GPIO4"),
     ALC269_FIXUP_HP_DOCK_GPIO_MIC1_LED |->
         Pins({"0x18", "0x1b"}, "ALC269_FIXUP_HP_GPIO_MIC1_LED"),
     ALC280_FIXUP_HP_9480M |-> Func("alc280_fixup_hp_9480m", End),
     ALC245_FIXUP_HP_X360_AMP |-> Func("alc245_fixup_hp_x360_amp", "ALC245_FIXUP_HP_GPIO_LED"),
     ALC288_FIXUP_DELL_HEADSET_MODE |->
         Func("alc_fixup_headset_mode_dell_alc288", "ALC255_FIXUP_MIC_MUTE_LED"),
     ALC288_FIXUP_DELL1_MIC_NO_PRESENCE |->
         Mics({"0x18"}, {"0x1a"}, {}, "ALC288_FIXUP_DELL_HEADSET_MODE"),
     ALC288_FIXUP_DISABLE_AAMIX |->
         Func("alc_fixup_disable_aamix", "ALC288_FIXUP_DELL1_MIC_NO_PRESENCE"),
     ALC288_FIXUP_DELL_XPS_13 |-> Func("alc_fixup_dell_xps13", "ALC288_FIXUP_DISABLE_AAMIX"),
     ALC292_FIXUP_DISABLE_AAMIX |->
         Func("alc_fixup_disable_aamix", "ALC269_FIXUP_DELL2_MIC_NO_PRESENCE"),
     ALC293_FIXUP_DISABLE_AAMIX_MULTIJACK |->
         Func("alc_fixup_disable_aamix", "ALC293_FIXUP_DELL1_MIC_NO_PRESENCE")]
alc269_fixups_6 ==
    [ALC292_FIXUP_DELL_E7X_AAMIX |-> Func("alc_fixup_dell_xps13", "ALC292_FIXUP_DISABLE_AAMIX"),
     ALC292_FIXUP_DELL_E7X |->
         Before(Func("alc_fixup_micmute_led", "ALC292_FIXUP_DELL_E7X_AAMIX")),
     ALC298_FIXUP_ALIENWARE_MIC_NO_PRESENCE |->
         Before(Mics({"0x18"}, {}, {}, "ALC269_FIXUP_HEADSET_MODE")),
     ALC298_FIXUP_DELL1_MIC_NO_PRESENCE |->
         Mics({"0x18"}, {"0x1a"}, {}, "ALC269_FIXUP_HEADSET_MODE"),
     ALC298_FIXUP_DELL_AIO_MIC_NO_PRESENCE |->
         Mics({"0x18"}, {}, {}, "ALC269_FIXUP_HEADSET_MODE"),
     ALC275_FIXUP_DELL_XPS |-> Verbs(End),
     ALC293_FIXUP_LENOVO_SPK_NOISE |->
         Func("alc_fixup_disable_aamix", "ALC269_FIXUP_THINKPAD_ACPI"),
     ALC233_FIXUP_LENOVO_LINE2_MIC_HOTKEY |-> Func("alc233_fixup_lenovo_line2_mic_hotkey", End),
     ALC233_FIXUP_LENOVO_L2MH_LOW_ENLED |-> Func("alc233_fixup_lenovo_low_en_micmute_led", End),
     ALC233_FIXUP_INTEL_NUC8_DMIC |-> Func("alc_fixup_inv_dmic", "ALC233_FIXUP_INTEL_NUC8_BOOST"),
     ALC233_FIXUP_INTEL_NUC8_BOOST |-> Func("alc269_fixup_limit_int_mic_boost", End),
     ALC255_FIXUP_DELL_SPK_NOISE |->
         Func("alc_fixup_disable_aamix", "ALC255_FIXUP_DELL1_MIC_NO_PRESENCE"),
     ALC225_FIXUP_DISABLE_MIC_VREF |->
         Func("alc_fixup_disable_mic_vref", "ALC269_FIXUP_DELL1_MIC_NO_PRESENCE"),
     ALC225_FIXUP_DELL1_MIC_NO_PRESENCE |-> Verbs("ALC225_FIXUP_DISABLE_MIC_VREF"),
     ALC280_FIXUP_HP_HEADSET_MIC |-> Func("alc_fixup_disable_aamix", "ALC269_FIXUP_HEADSET_MIC"),
     ALC221_FIXUP_HP_FRONT_MIC |-> Pins({"0x19"}, End),
     ALC292_FIXUP_TPT460 |-> Func("alc_fixup_tpt440_dock", "ALC293_FIXUP_LENOVO_SPK_NOISE"),
     ALC298_FIXUP_SPK_VOLUME |->
         Func("alc298_fixup_speaker_volume", "ALC298_FIXUP_DELL_AIO_MIC_NO_PRESENCE"),
     ALC298_FIXUP_LENOVO_SPK_VOLUME |-> Func("alc298_fixup_speaker_volume", End),
     ALC295_FIXUP_DISABLE_DAC3 |-> Func("alc295_fixup_disable_dac3", End),
     ALC285_FIXUP_SPEAKER2_TO_DAC1 |->
         Func("alc285_fixup_speaker2_to_dac1", "ALC269_FIXUP_THINKPAD_ACPI"),
     ALC285_FIXUP_ASUS_SPEAKER2_TO_DAC1 |->
         Func("alc285_fixup_speaker2_to_dac1", "ALC245_FIXUP_CS35L41_SPI_2")]
alc269_fixups_7 ==
    [ALC285_FIXUP_ASUS_HEADSET_MIC |->
         Pins({"0x19", "0x1b"}, "ALC285_FIXUP_ASUS_SPEAKER2_TO_DAC1"),
     ALC285_FIXUP_ASUS_SPI_REAR_SPEAKERS |-> Pins({"0x14"}, "ALC285_FIXUP_ASUS_HEADSET_MIC"),
     ALC285_FIXUP_ASUS_I2C_SPEAKER2_TO_DAC1 |->
         Func("alc285_fixup_speaker2_to_dac1", "ALC287_FIXUP_CS35L41_I2C_2"),
     ALC285_FIXUP_ASUS_I2C_HEADSET_MIC |->
         Pins({"0x19", "0x1b"}, "ALC285_FIXUP_ASUS_I2C_SPEAKER2_TO_DAC1"),
     ALC256_FIXUP_DELL_INSPIRON_7559_SUBWOOFER |->
         Pins({"0x1b"}, "ALC255_FIXUP_DELL1_MIC_NO_PRESENCE"),
     ALC269_FIXUP_ATIV_BOOK_8 |-> Func("alc_fixup_auto_mute_via_amp", "ALC269_FIXUP_NO_SHUTUP"),
     ALC221_FIXUP_HP_288PRO_MIC_NO_PRESENCE |->
         Mics({"0x19"}, {"0x1a"}, {}, "ALC269_FIXUP_HEADSET_MODE"),
     ALC221_FIXUP_HP_MIC_NO_PRESENCE |->
         Mics({"0x18"}, {"0x1a"}, {}, "ALC269_FIXUP_HEADSET_MODE"),
     ALC256_FIXUP_ASUS_HEADSET_MODE |-> Func("alc_fixup_headset_mode", End),
     ALC256_FIXUP_ASUS_MIC |-> Mics({"0x19"}, {}, {"0x13"}, "ALC256_FIXUP_ASUS_HEADSET_MODE"),
     ALC256_FIXUP_ASUS_AIO_GPIO2 |-> Func("alc_fixup_gpio4", End),
     ALC233_FIXUP_ASUS_MIC_NO_PRESENCE |-> Mics({"0x19"}, {}, {}, "ALC269_FIXUP_HEADSET_MIC"),
     ALC233_FIXUP_EAPD_COEF_AND_MIC_NO_PRESENCE |-> Verbs("ALC233_FIXUP_ASUS_MIC_NO_PRESENCE"),
     ALC233_FIXUP_LENOVO_MULTI_CODECS |->
         Func("alc233_alc662_fixup_lenovo_dual_codecs", "ALC269_FIXUP_GPIO2"),
     ALC233_FIXUP_ACER_HEADSET_MIC |-> Verbs("ALC233_FIXUP_ASUS_MIC_NO_PRESENCE"),
     ALC294_FIXUP_LENOVO_MIC_LOCATION |-> Pins({"0x1a"}, End),
     ALC225_FIXUP_DELL_WYSE_MIC_NO_PRESENCE |->
         Mics({"0x19"}, {}, {"0x16", "0x1a", "0x1b"}, "ALC225_FIXUP_S3_POP_NOISE")]
alc269_fixups_8 ==
    [ALC225_FIXUP_S3_POP_NOISE |->
         Func("alc225_fixup_s3_pop_noise", "ALC269_FIXUP_HEADSET_MODE_NO_HP_MIC"),
     ALC700_FIXUP_INTEL_REFERENCE |-> Verbs(End),
     ALC274_FIXUP_DELL_BIND_DACS |->
         Func("alc274_fixup_bind_dacs", "ALC269_FIXUP_DELL1_MIC_NO_PRESENCE"),
     ALC274_FIXUP_DELL_AIO_LINEOUT_VERB |-> Pins({"0x1b"}, "ALC274_FIXUP_DELL_BIND_DACS"),
     ALC298_FIXUP_TPT470_DOCK_FIX |->
         Func("alc_fixup_tpt470_dock", "ALC293_FIXUP_LENOVO_SPK_NOISE"),
     ALC298_FIXUP_TPT470_DOCK |-> Func("alc_fixup_tpt470_dacs", "ALC298_FIXUP_TPT470_DOCK_FIX"),
     ALC255_FIXUP_DUMMY_LINEOUT_VERB |-> Pins({"0x14"}, "ALC255_FIXUP_DELL1_MIC_NO_PRESENCE"),
     ALC255_FIXUP_DELL_HEADSET_MIC |-> Mics({"0x19"}, {}, {}, "ALC269_FIXUP_HEADSET_MIC"),
     ALC295_FIXUP_HP_X360 |->
         Func("alc295_fixup_hp_top_speakers", "ALC269_FIXUP_HP_MUTE_LED_MIC3"),
     ALC221_FIXUP_HP_HEADSET_MIC |-> Pins({"0x19"}, "ALC269_FIXUP_HEADSET_MIC"),
     ALC285_FIXUP_LENOVO_HEADPHONE_NOISE |->
         Func("alc285_fixup_invalidate_dacs", "ALC269_FIXUP_THINKPAD_ACPI"),
     ALC295_FIXUP_HP_AUTO_MUTE |-> Func("alc_fixup_auto_mute_via_amp", End),
     ALC286_FIXUP_ACER_AIO_MIC_NO_PRESENCE |-> Mics({"0x18"}, {}, {}, "ALC269_FIXUP_HEADSET_MIC"),
     ALC294_FIXUP_ASUS_MIC |-> Mics({"0x19"}, {}, {"0x13"}, "ALC269_FIXUP_HEADSET_MIC"),
     ALC294_FIXUP_ASUS_HEADSET_MIC |-> Pins({"0x19"}, "ALC269_FIXUP_HEADSET_MIC"),
     ALC294_FIXUP_ASUS_I2C_HEADSET_MIC |-> Pins({"0x19"}, "ALC287_FIXUP_CS35L41_I2C_2"),
     ALC294_FIXUP_ASUS_SPK |-> Verbs("ALC294_FIXUP_ASUS_HEADSET_MIC"),
     ALC295_FIXUP_CHROME_BOOK |-> Func("alc295_fixup_chromebook", "ALC225_FIXUP_HEADSET_JACK")]
alc269_fixups_9 ==
    [ALC225_FIXUP_HEADSET_JACK |-> Func("alc_fixup_headset_jack", End),
     ALC293_FIXUP_SYSTEM76_MIC_NO_PRESENCE |->
         Mics({"0x1a"}, {}, {}, "ALC269_FIXUP_HEADSET_MODE_NO_HP_MIC"),
     ALC285_FIXUP_LENOVO_PC_BEEP_IN_NOISE |-> Verbs("ALC285_FIXUP_LENOVO_HEADPHONE_NOISE"),
     ALC255_FIXUP_ACER_HEADSET_MIC |->
         Pins({"0x19", "0x1a"}, "ALC255_FIXUP_HEADSET_MODE_NO_HP_MIC"),
     ALC225_FIXUP_DELL_WYSE_AIO_MIC_NO_PRESENCE |->
         Mics({"0x19"}, {}, {"0x16"}, "ALC225_FIXUP_WYSE_AUTO_MUTE"),
     ALC225_FIXUP_WYSE_AUTO_MUTE |->
         Func("alc_fixup_auto_mute_via_amp", "ALC225_FIXUP_WYSE_DISABLE_MIC_VREF"),
     ALC225_FIXUP_WYSE_DISABLE_MIC_VREF |->
         Func("alc_fixup_disable_mic_vref", "ALC269_FIXUP_HEADSET_MODE_NO_HP_MIC"),
     ALC286_FIXUP_ACER_AIO_HEADSET_MIC |-> Verbs("ALC286_FIXUP_ACER_AIO_MIC_NO_PRESENCE"),
     ALC256_FIXUP_ASUS_HEADSET_MIC |-> Pins({"0x19"}, "ALC256_FIXUP_ASUS_HEADSET_MODE"),
     ALC256_FIXUP_ASUS_MIC_NO_PRESENCE |->
         Mics({"0x19"}, {}, {}, "ALC256_FIXUP_ASUS_HEADSET_MODE"),
     ALC255_FIXUP_PREDATOR_SUBWOOFER |-> Pins({"0x17", "0x1b"}, End),
     ALC299_FIXUP_PREDATOR_SPK |-> Mics({"0x21"}, {}, {}, End),
     ALC287_FIXUP_PREDATOR_SPK_CS35L41_I2C_2 |->
         Func("cs35l41_fixup_i2c_two", "ALC255_FIXUP_PREDATOR_SUBWOOFER"),
     ALC256_FIXUP_MEDION_HEADSET_NO_PRESENCE |->
         Pins({"0x19", "0x21"}, "ALC256_FIXUP_ASUS_HEADSET_MODE"),
     ALC289_FIXUP_DELL_SPK1 |-> Pins({"0x14"}, "ALC269_FIXUP_DELL4_MIC_NO_PRESENCE"),
     ALC289_FIXUP_DELL_SPK2 |-> Pins({"0x17"}, "ALC269_FIXUP_DELL4_MIC_NO_PRESENCE"),
     ALC289_FIXUP_DUAL_SPK |-> Func("alc285_fixup_speaker2_to_dac1", "ALC289_FIXUP_DELL_SPK2"),
     ALC289_FIXUP_RTK_AMP_DUAL_SPK |->
         Func("alc285_fixup_speaker2_to_dac1", "ALC289_FIXUP_DELL_SPK1"),
     ALC294_FIXUP_SPK2_TO_DAC1 |->
         Func("alc285_fixup_speaker2_to_dac1", "ALC294_FIXUP_ASUS_HEADSET_MIC")]
alc269_fixups_10 ==
    [ALC294_FIXUP_ASUS_DUAL_SPK |-> Func("alc_fixup_gpio4", "ALC294_FIXUP_SPK2_TO_DAC1"),
     ALC294_FIXUP_ASUS_ALLY |-> Func("cs35l41_fixup_i2c_two", "ALC294_FIXUP_ASUS_ALLY_PINS"),
     ALC294_FIXUP_ASUS_ALLY_PINS |->
         Pins({"0x19", "0x1a", "0x21"}, "ALC294_FIXUP_ASUS_ALLY_VERBS"),
     ALC294_FIXUP_ASUS_ALLY_VERBS |-> Verbs("ALC294_FIXUP_ASUS_ALLY_SPEAKER"),
     ALC294_FIXUP_ASUS_ALLY_SPEAKER |-> Func("alc285_fixup_speaker2_to_dac1", End),
     ALC285_FIXUP_THINKPAD_X1_GEN7 |->
         Func("alc285_fixup_thinkpad_x1_gen7", "ALC269_FIXUP_THINKPAD_ACPI"),
     ALC285_FIXUP_THINKPAD_HEADSET_JACK |->
         Func("alc_fixup_headset_jack", "ALC285_FIXUP_THINKPAD_X1_GEN7"),
     ALC294_FIXUP_ASUS_HPE |-> Verbs("ALC294_FIXUP_ASUS_HEADSET_MIC"),
     ALC294_FIXUP_ASUS_GX502_PINS |->
         Pins({"0x19", "0x1a", "0x21"}, "ALC294_FIXUP_ASUS_GX502_VERBS"),
     ALC294_FIXUP_ASUS_GX502_VERBS |-> Verbs("ALC294_FIXUP_ASUS_GX502_HP"),
     ALC294_FIXUP_ASUS_GX502_HP |-> Func("alc294_fixup_gx502_hp", End),
     ALC295_FIXUP_DELL_TAS2781_I2C |-> Func("tas2781_fixup_tias_i2c", "ALC289_FIXUP_DUAL_SPK"),
     ALC294_FIXUP_ASUS_GU502_PINS |->
         Pins({"0x19", "0x1a", "0x21"}, "ALC294_FIXUP_ASUS_GU502_VERBS"),
     ALC294_FIXUP_ASUS_GU502_VERBS |-> Verbs("ALC294_FIXUP_ASUS_GU502_HP"),
     ALC294_FIXUP_ASUS_GU502_HP |-> Func("alc294_fixup_gu502_hp", End),
     ALC294_FIXUP_ASUS_G513_PINS |-> Pins({"0x19", "0x1a", "0x21"}, End)]
alc269_fixups_11 ==
    [ALC285_FIXUP_ASUS_G533Z_PINS |-> Pins({"0x14", "0x19", "0x1a", "0x1e", "0x21"}, End),
     ALC294_FIXUP_ASUS_COEF_1B |-> Verbs("ALC289_FIXUP_ASUS_GA401"),
     ALC285_FIXUP_HP_GPIO_LED |-> Func("alc285_fixup_hp_gpio_led", End),
     ALC285_FIXUP_HP_MUTE_LED |-> Func("alc285_fixup_hp_mute_led", End),
     ALC285_FIXUP_HP_SPECTRE_X360_MUTE_LED |-> Func("alc285_fixup_hp_spectre_x360_mute_led", End),
     ALC285_FIXUP_HP_BEEP_MICMUTE_LED |->
         Func("alc285_fixup_hp_beep", "ALC285_FIXUP_HP_MUTE_LED"),
     ALC236_FIXUP_HP_MUTE_LED_COEFBIT2 |-> Func("alc236_fixup_hp_mute_led_coefbit2", End),
     ALC236_FIXUP_HP_GPIO_LED |-> Func("alc236_fixup_hp_gpio_led", End),
     ALC236_FIXUP_HP_MUTE_LED |-> Func("alc236_fixup_hp_mute_led", End),
     ALC236_FIXUP_HP_MUTE_LED_MICMUTE_VREF |-> Func("alc236_fixup_hp_mute_led_micmute_vref", End),
     ALC236_FIXUP_LENOVO_INV_DMIC |-> Func("alc_fixup_inv_dmic", "ALC283_FIXUP_INT_MIC"),
     ALC295_FIXUP_HP_MUTE_LED_COEFBIT11 |-> Func("alc295_fixup_hp_mute_led_coefbit11", End),
     ALC298_FIXUP_SAMSUNG_AMP |->
         Func("alc298_fixup_samsung_amp", "ALC298_FIXUP_SAMSUNG_HEADPHONE_VERY_QUIET"),
     ALC298_FIXUP_SAMSUNG_AMP_V2_2_AMPS |-> Func("alc298_fixup_samsung_amp_v2_2_amps", End),
     ALC298_FIXUP_SAMSUNG_AMP_V2_4_AMPS |-> Func("alc298_fixup_samsung_amp_v2_4_amps", End),
     ALC298_FIXUP_SAMSUNG_HEADPHONE_VERY_QUIET |-> Verbs(End),
     ALC256_FIXUP_SAMSUNG_HEADPHONE_VERY_QUIET |-> Verbs(End),
     ALC295_FIXUP_ASUS_MIC_NO_PRESENCE |-> Mics({"0x19"}, {}, {}, "ALC269_FIXUP_HEADSET_MODE"),
     ALC269VC_FIXUP_ACER_VCOPPERBOX_PINS |->
         Mics({"0x18"}, {}, {"0x14", "0x1a"}, "ALC269_FIXUP_HEADSET_MIC"),
     ALC269VC_FIXUP_ACER_HEADSET_MIC |-> Pins({"0x18"}, "ALC269_FIXUP_HEADSET_MIC"),
     ALC269VC_FIXUP_ACER_MIC_NO_PRESENCE |-> Mics({"0x18"}, {}, {}, "ALC269_FIXUP_HEADSET_MIC"),
     ALC289_FIXUP_ASUS_GA401 |-> Func("alc289_fixup_asus_ga401", "ALC289_FIXUP_ASUS_GA502"),
     ALC289_FIXUP_ASUS_GA502 |-> Pins({"0x19"}, End)]
alc269_fixups_12 ==
    [ALC256_FIXUP_ACER_MIC_NO_PRESENCE |->
         Mics({"0x19"}, {}, {}, "ALC256_FIXUP_ASUS_HEADSET_MODE"),
     ALC285_FIXUP_HP_GPIO_AMP_INIT |->
         Func("alc285_fixup_hp_gpio_amp_init", "ALC285_FIXUP_HP_GPIO_LED"),
     ALC269_FIXUP_CZC_B20 |->
         Pins({"0x12", "0x14", "0x15", "0x17", "0x18", "0x19", "0x1a", "0x1b", "0x1d", "0x1e"}, End),
     ALC269_FIXUP_CZC_TMI |->
         Pins({"0x12", "0x14", "0x15", "0x17", "0x18", "0x19", "0x1a", "0x1b", "0x1d", "0x1e", "0x20"},
              End),
     ALC269_FIXUP_CZC_L101 |->
         Pins({"0x12", "0x14", "0x15", "0x16", "0x18", "0x19", "0x1a", "0x1b", "0x1c", "0x1d", "0x1e"},
              End),
     ALC269_FIXUP_LEMOTE_A1802 |->
         Pins({"0x12", "0x14", "0x17", "0x18", "0x19", "0x1a", "0x1b", "0x1d", "0x1e", "0x20", "0x21"},
              End),
     ALC269_FIXUP_LEMOTE_A190X |-> Pins({"0x14", "0x15", "0x18", "0x19", "0x1b"}, End),
     ALC256_FIXUP_INTEL_NUC8_RUGGED |-> Mics({"0x1b"}, {}, {}, "ALC269_FIXUP_HEADSET_MODE"),
     ALC256_FIXUP_INTEL_NUC10 |-> Mics({"0x19"}, {}, {}, "ALC269_FIXUP_HEADSET_MODE"),
     ALC255_FIXUP_XIAOMI_HEADSET_MIC |-> Verbs("ALC289_FIXUP_ASUS_GA502"),
     ALC274_FIXUP_HP_MIC |-> Verbs(End),
     ALC274_FIXUP_HP_HEADSET_MIC |-> Func("alc274_fixup_hp_headset_mic", "ALC274_FIXUP_HP_MIC"),
     ALC274_FIXUP_HP_ENVY_GPIO |-> Func("alc274_fixup_hp_envy_gpio", End)]
alc269_fixups_13 ==
    [ALC274_FIXUP_ASUS_ZEN_AIO_27 |-> Verbs("ALC2XX_FIXUP_HEADSET_MIC"),
     ALC256_FIXUP_ASUS_HPE |-> Verbs("ALC294_FIXUP_ASUS_HEADSET_MIC"),
     ALC285_FIXUP_THINKPAD_NO_BASS_SPK_HEADSET_JACK |->
         Func("alc_fixup_headset_jack", "ALC269_FIXUP_THINKPAD_ACPI"),
     ALC287_FIXUP_HP_GPIO_LED |-> Func("alc287_fixup_hp_gpio_led", End),
     ALC256_FIXUP_HP_HEADSET_MIC |-> Func("alc274_fixup_hp_headset_mic", End),
     ALC236_FIXUP_DELL_AIO_HEADSET_MIC |->
         Func("alc_fixup_no_int_mic", "ALC255_FIXUP_DELL1_MIC_NO_PRESENCE"),
     ALC282_FIXUP_ACER_DISABLE_LINEOUT |->
         Mics({"0x18"}, {}, {"0x1b"}, "ALC269_FIXUP_HEADSET_MODE"),
     ALC255_FIXUP_ACER_LIMIT_INT_MIC_BOOST |->
         Func("alc269_fixup_limit_int_mic_boost", "ALC255_FIXUP_ACER_MIC_NO_PRESENCE"),
     ALC256_FIXUP_ACER_HEADSET_MIC |->
         Mics({"0x19"}, {}, {"0x1a"}, "ALC269_FIXUP_HEADSET_MODE_NO_HP_MIC"),
     ALC285_FIXUP_IDEAPAD_S740_COEF |->
         Func("alc285_fixup_ideapad_s740_coef", "ALC269_FIXUP_THINKPAD_ACPI"),
     ALC285_FIXUP_HP_LIMIT_INT_MIC_BOOST |->
         Func("alc269_fixup_limit_int_mic_boost", "ALC285_FIXUP_HP_MUTE_LED"),
     ALC295_FIXUP_ASUS_DACS |-> Func("alc295_fixup_asus_dacs", End),
     ALC295_FIXUP_HP_OMEN |->
         Pins({"0x12", "0x13", "0x14", "0x16", "0x17", "0x18", "0x19", "0x1a", "0x1b", "0x1d", "0x1e", "0x21"},
              "ALC269_FIXUP_HP_LINE1_MIC1_LED"),
     ALC285_FIXUP_HP_SPECTRE_X360 |-> Func("alc285_fixup_hp_spectre_x360", End),
     ALC285_FIXUP_HP_SPECTRE_X360_EB1 |-> Func("alc285_fixup_hp_spectre_x360_eb1", End),
     ALC285_FIXUP_HP_SPECTRE_X360_DF1 |-> Func("alc285_fixup_hp_spectre_x360_df1", End),
     ALC285_FIXUP_HP_ENVY_X360 |->
         Func("alc285_fixup_hp_envy_x360", "ALC285_FIXUP_HP_GPIO_AMP_INIT"),
     ALC287_FIXUP_IDEAPAD_BASS_SPK_AMP |->
         Func("alc285_fixup_ideapad_s740_coef", "ALC285_FIXUP_THINKPAD_HEADSET_JACK"),
     ALC623_FIXUP_LENOVO_THINKSTATION_P340 |->
         Func("alc_fixup_no_shutup", "ALC283_FIXUP_HEADSET_MIC")]
alc269_fixups_14 ==
    [ALC255_FIXUP_ACER_HEADPHONE_AND_MIC |-> Pins({"0x21"}, "ALC255_FIXUP_XIAOMI_HEADSET_MIC"),
     ALC236_FIXUP_HP_LIMIT_INT_MIC_BOOST |->
         Func("alc269_fixup_limit_int_mic_boost", "ALC236_FIXUP_HP_MUTE_LED_MICMUTE_VREF"),
     ALC285_FIXUP_LEGION_Y9000X_SPEAKERS |->
         Func("alc285_fixup_ideapad_s740_coef", "ALC285_FIXUP_LEGION_Y9000X_AUTOMUTE"),
     ALC285_FIXUP_LEGION_Y9000X_AUTOMUTE |->
         Func("alc287_fixup_legion_15imhg05_speakers", "ALC269_FIXUP_THINKPAD_ACPI"),
     ALC287_FIXUP_LEGION_15IMHG05_SPEAKERS |-> Verbs("ALC287_FIXUP_LEGION_15IMHG05_AUTOMUTE"),
     ALC287_FIXUP_LEGION_15IMHG05_AUTOMUTE |->
         Func("alc287_fixup_legion_15imhg05_speakers", "ALC269_FIXUP_HEADSET_MODE"),
     ALC287_FIXUP_YOGA7_14ITL_SPEAKERS |-> Verbs("ALC269_FIXUP_HEADSET_MODE"),
     ALC298_FIXUP_LENOVO_C940_DUET7 |-> Func("alc298_fixup_lenovo_c940_duet7", End),
     ALC287_FIXUP_13S_GEN2_SPEAKERS |-> Verbs("ALC269_FIXUP_HEADSET_MODE"),
     ALC256_FIXUP_SET_COEF_DEFAULTS |-> Func("alc256_fixup_set_coef_defaults", End),
     ALC245_FIXUP_HP_GPIO_LED |-> Func("alc245_fixup_hp_gpio_led", End)]
alc269_fixups_15 ==
    [ALC256_FIXUP_SYSTEM76_MIC_NO_PRESENCE |->
         Mics({"0x19"}, {}, {}, "ALC269_FIXUP_HEADSET_MODE_NO_HP_MIC"),
     ALC233_FIXUP_NO_AUDIO_JACK |-> Func("alc233_fixup_no_audio_jack", End),
     ALC256_FIXUP_MIC_NO_PRESENCE_AND_RESUME |->
         Func("alc256_fixup_mic_no_presence_and_resume", "ALC269_FIXUP_HEADSET_MODE_NO_HP_MIC"),
     ALC287_FIXUP_LEGION_16ACHG6 |-> Func("alc287_fixup_legion_16achg6_speakers", End),
     ALC287_FIXUP_CS35L41_I2C_2 |-> Func("cs35l41_fixup_i2c_two", End),
     ALC287_FIXUP_CS35L41_I2C_2_HP_GPIO_LED |->
         Func("cs35l41_fixup_i2c_two", "ALC285_FIXUP_HP_MUTE_LED"),
     ALC287_FIXUP_CS35L41_I2C_4 |-> Func("cs35l41_fixup_i2c_four", End),
     ALC245_FIXUP_CS35L41_SPI_2 |-> Func("cs35l41_fixup_spi_two", End),
     ALC245_FIXUP_CS35L41_SPI_1 |-> Func("cs35l41_fixup_spi_one", End),
     ALC245_FIXUP_CS35L41_SPI_2_HP_GPIO_LED |->
         Func("cs35l41_fixup_spi_two", "ALC285_FIXUP_HP_GPIO_LED"),
     ALC245_FIXUP_CS35L41_SPI_4 |-> Func("cs35l41_fixup_spi_four", End),
     ALC245_FIXUP_CS35L41_SPI_4_HP_GPIO_LED |->
         Func("cs35l41_fixup_spi_four", "ALC285_FIXUP_HP_GPIO_LED"),
     ALC285_FIXUP_HP_SPEAKERS_MICMUTE_LED |-> Verbs("ALC285_FIXUP_HP_MUTE_LED"),
     ALC269_FIXUP_DELL4_MIC_NO_PRESENCE_QUIET |->
         Func("alc_fixup_dell4_mic_no_presence_quiet", "ALC269_FIXUP_DELL4_MIC_NO_PRESENCE"),
     ALC295_FIXUP_FRAMEWORK_LAPTOP_MIC_NO_PRESENCE |->
         Mics({"0x19"}, {}, {}, "ALC269_FIXUP_HEADSET_MODE_NO_HP_MIC"),
     ALC287_FIXUP_LEGION_16ITHG6 |-> Func("alc287_fixup_legion_16ithg6_speakers", End)]
alc269_fixups_16 ==
    [ALC287_FIXUP_YOGA9_14IAP7_BASS_SPK |-> Verbs(End),
     ALC287_FIXUP_YOGA9_14IAP7_BASS_SPK_PIN |->
         Func("alc287_fixup_yoga9_14iap7_bass_spk_pin", "ALC287_FIXUP_YOGA9_14IAP7_BASS_SPK"),
     ALC287_FIXUP_YOGA9_14IMH9_BASS_SPK_PIN |->
         Func("alc287_fixup_yoga9_14iap7_bass_spk_pin", "ALC287_FIXUP_CS35L41_I2C_2"),
     ALC295_FIXUP_DELL_INSPIRON_TOP_SPEAKERS |->
         Func("alc295_fixup_dell_inspiron_top_speakers", "ALC269_FIXUP_DELL4_MIC_NO_PRESENCE"),
     ALC236_FIXUP_DELL_DUAL_CODECS |-> Pins({}, "ALC255_FIXUP_DELL1_MIC_NO_PRESENCE"),
     ALC287_FIXUP_CS35L41_I2C_2_THINKPAD_ACPI |->
         Func("cs35l41_fixup_i2c_two", "ALC285_FIXUP_THINKPAD_NO_BASS_SPK_HEADSET_JACK"),
     ALC287_FIXUP_TAS2781_I2C |->
         Func("tas2781_fixup_tias_i2c", "ALC285_FIXUP_THINKPAD_HEADSET_JACK"),
     ALC245_FIXUP_TAS2781_SPI_2 |-> Func("tas2781_fixup_spi", "ALC285_FIXUP_HP_GPIO_LED"),
     ALC287_FIXUP_TXNW2781_I2C |->
         Func("tas2781_fixup_txnw_i2c", "ALC285_FIXUP_THINKPAD_HEADSET_JACK"),
     ALC287_FIXUP_YOGA7_14ARB7_I2C |->
         Func("yoga7_14arb7_fixup_i2c", "ALC285_FIXUP_THINKPAD_HEADSET_JACK"),
     ALC245_FIXUP_HP_MUTE_LED_COEFBIT |-> Func("alc245_fixup_hp_mute_led_coefbit", End),
     ALC245_FIXUP_HP_MUTE_LED_V1_COEFBIT |-> Func("alc245_fixup_hp_mute_led_v1_coefbit", End),
     ALC245_FIXUP_HP_X360_MUTE_LEDS |->
         Func("alc245_fixup_hp_mute_led_coefbit", "ALC245_FIXUP_HP_GPIO_LED"),
     ALC287_FIXUP_THINKPAD_I2S_SPK |->
         Func("alc287_fixup_bind_dacs", "ALC285_FIXUP_THINKPAD_NO_BASS_SPK_HEADSET_JACK"),
     ALC287_FIXUP_MG_RTKC_CSAMP_CS35L41_I2C_THINKPAD |->
         Func("alc287_fixup_bind_dacs", "ALC287_FIXUP_CS35L41_I2C_2_THINKPAD_ACPI"),
     ALC2XX_FIXUP_HEADSET_MIC |-> Func("alc2xx_fixup_headset_mic", End)]
alc269_fixups_17 ==
    [ALC289_FIXUP_DELL_CS35L41_SPI_2 |-> Func("cs35l41_fixup_spi_two", "ALC289_FIXUP_DUAL_SPK"),
     ALC294_FIXUP_CS35L41_I2C_2 |-> Func("cs35l41_fixup_i2c_two", End),
     ALC256_FIXUP_ACER_SFG16_MICMUTE_LED |-> Func("alc256_fixup_acer_sfg16_micmute_led", End),
     ALC256_FIXUP_HEADPHONE_AMP_VOL |-> Func("alc256_decrease_headphone_amp_val", End),
     ALC245_FIXUP_HP_SPECTRE_X360_EU0XXX |-> Func("alc245_fixup_hp_spectre_x360_eu0xxx", End),
     ALC245_FIXUP_HP_SPECTRE_X360_16_AA0XXX |->
         Func("alc245_fixup_hp_spectre_x360_16_aa0xxx", End),
     ALC245_FIXUP_HP_ZBOOK_FIREFLY_G12A |-> Func("alc245_fixup_hp_zbook_firefly_g12a", End),
     ALC285_FIXUP_ASUS_GA403U |-> Func("alc285_fixup_asus_ga403u", End),
     ALC285_FIXUP_ASUS_GA403U_HEADSET_MIC |->
         Pins({"0x19", "0x1b"}, "ALC285_FIXUP_ASUS_GA403U_I2C_SPEAKER2_TO_DAC1"),
     ALC285_FIXUP_ASUS_GU605_SPI_SPEAKER2_TO_DAC1 |->
         Func("alc285_fixup_speaker2_to_dac1", "ALC285_FIXUP_ASUS_GU605_SPI_2_HEADSET_MIC"),
     ALC285_FIXUP_ASUS_GU605_SPI_2_HEADSET_MIC |-> Pins({"0x19", "0x1b"}, End),
     ALC285_FIXUP_ASUS_GA403U_I2C_SPEAKER2_TO_DAC1 |->
         Func("alc285_fixup_speaker2_to_dac1", "ALC285_FIXUP_ASUS_GA403U"),
     ALC287_FIXUP_LENOVO_THKPAD_WH_ALC1318 |->
         Func("alc287_fixup_lenovo_thinkpad_with_alc1318", "ALC269_FIXUP_THINKPAD_ACPI"),
     ALC256_FIXUP_CHROME_BOOK |-> Func("alc256_fixup_chromebook", "ALC225_FIXUP_HEADSET_JACK"),
     ALC245_FIXUP_CLEVO_NOISY_MIC |->
         Func("alc269_fixup_limit_int_mic_boost", "ALC256_FIXUP_SYSTEM76_MIC_NO_PRESENCE"),
     ALC269_FIXUP_VAIO_VJFH52_MIC_NO_PRESENCE |->
         Mics({"0x19"}, {}, {"0x1b"}, "ALC269_FIXUP_LIMIT_INT_MIC_BOOST"),
     ALC233_FIXUP_MEDION_MTL_SPK |-> Pins({"0x1b"}, End),
     ALC294_FIXUP_BASS_SPEAKER_15 |-> Func("alc294_fixup_bass_speaker_15", End),
     ALC283_FIXUP_DELL_HP_RESUME |-> Func("alc283_fixup_dell_hp_resume", End),
     ALC294_FIXUP_ASUS_CS35L41_SPI_2 |->
         Func("cs35l41_fixup_spi_two", "ALC294_FIXUP_ASUS_HEADSET_MIC"),
     ALC274_FIXUP_HP_AIO_BIND_DACS |-> Func("alc274_fixup_hp_aio_bind_dacs", End),
     ALC285_FIXUP_ASUS_GA605K_HEADSET_MIC |->
         Pins({"0x19", "0x1b"}, "ALC285_FIXUP_ASUS_GA605K_I2C_SPEAKER2_TO_DAC1"),
     ALC285_FIXUP_ASUS_GA605K_I2C_SPEAKER2_TO_DAC1 |-> Func("alc285_fixup_speaker2_to_dac1", End),
     ALC269_FIXUP_POSITIVO_P15X_HEADSET_MIC |->
         Func("alc269_fixup_limit_int_mic_boost", "ALC269VC_FIXUP_ACER_MIC_NO_PRESENCE"),
     ALC289_FIXUP_ASUS_ZEPHYRUS_DUAL_SPK |-> Pins({"0x17", "0x1e"}, End)]

\* Mutant: it goes on to another vendor's amplifiers.
alc269_fixups_aw88399_two ==
    [ALC287_FIXUP_AW88399_I2C_2 |-> Func("aw88399_fixup_i2c_two", "ALC287_FIXUP_CS35L41_I2C_2"),
     ALC287_FIXUP_LENOVO_LEGION_AW88399 |->
         Func("alc287_fixup_legion_16iax_aw88399", "ALC287_FIXUP_AW88399_I2C_2")]
alc269_fixups_aw88399 ==
    [ALC287_FIXUP_AW88399_I2C_2 |-> Func("aw88399_fixup_i2c_two", End),
     ALC287_FIXUP_LENOVO_LEGION_AW88399 |->
         Func("alc287_fixup_legion_16iax_aw88399", "ALC287_FIXUP_AW88399_I2C_2")]

alc269_fixups ==
    alc269_fixups_1 @@ alc269_fixups_2 @@ alc269_fixups_3 @@ alc269_fixups_4
    @@ alc269_fixups_5 @@ alc269_fixups_6 @@ alc269_fixups_7 @@ alc269_fixups_8
    @@ alc269_fixups_9 @@ alc269_fixups_10 @@ alc269_fixups_11 @@ alc269_fixups_12
    @@ alc269_fixups_13 @@ alc269_fixups_14 @@ alc269_fixups_15 @@ alc269_fixups_16
    @@ alc269_fixups_17 @@ alc269_fixups_aw88399

-----------------------------------------------------------------------------
(* What the fixup functions claim: hooks of the generic parser, LEDs, GPIO *)
(* bits, pins ("0x17"), connection lists, jack callbacks.  A function that *)
(* is in none of these tables claims nothing.                              *)

Leds == {"mute_led", "mic_led"}
Vref == {"power_filter"}
AmpHook == {"comp", "pcm_playback_hook"}
Headset == {"hp_automute_hook", "automute_hook"}
Each(fs, slots) == [f \in fs |-> slots]

\* alc_fixup_headset_mode and friends live in the Realtek library.
LibraryClaims ==
    Each({"alc_fixup_headset_mode", "alc_fixup_headset_mode_no_hp_mic"}, Headset)
    @@ [alc_fixup_micmute_led |-> {"mic_led"}]
PincfgClaims ==
    [alc269_fixup_pincfg_U7x7_headset_mic |-> {"0x19"},
     alc269_fixup_quanta_mute |-> {"automute_hook"}]
X101Claims == [alc269_fixup_x101_headset_mic |-> {"hp_automute_hook"}]
GpioLedClaims ==
    Each({"alc269_fixup_hp_mute_led", "alc269_fixup_hp_mute_led_mic1",
          "alc269_fixup_hp_mute_led_mic2", "alc269_fixup_hp_mute_led_mic3"},
         {"mute_led"} \cup Vref)
    @@ [alc236_fixup_hp_gpio_led |-> Leds \cup {"gpio1", "gpio0"},
        alc269_fixup_hp_gpio_led |-> Leds \cup {"gpio3", "gpio4"},
        alc285_fixup_hp_gpio_led |-> Leds \cup {"gpio2", "gpio0"},
        alc286_fixup_hp_gpio_led |-> Leds \cup {"gpio1", "gpio5"},
        alc287_fixup_hp_gpio_led |-> {"mute_led", "gpio4"},
        alc245_fixup_hp_gpio_led |-> {"mic_led", "gpio2"},
        alc269_fixup_hp_gpio_mic1_led |-> Leds \cup Vref \cup {"gpio3", "gpio4"},
        alc280_fixup_hp_gpio4 |-> Leds \cup Vref \cup {"gpio3"}]
CoefLedClaims ==
    [alc245_fixup_hp_x360_amp |-> {"gpio0"},
     alc274_fixup_hp_envy_gpio |-> {"gpio2", "pcm_playback_hook"}]
    @@ Each({"alc236_fixup_hp_mute_led_coefbit2", "alc245_fixup_hp_mute_led_coefbit",
             "alc245_fixup_hp_mute_led_v1_coefbit"}, {"mute_led"})
BothLedClaims ==
    [alc295_fixup_hp_mute_led_coefbit11 |-> {"mute_led"},
     alc285_fixup_hp_mute_led |-> Leds,
     alc285_fixup_hp_spectre_x360_mute_led |-> Leds \cup {"gpio2"},
     alc236_fixup_hp_mute_led |-> Leds,
     alc236_fixup_hp_mute_led_micmute_vref |-> Leds \cup Vref]
SamsungClaims ==
    Each({"alc298_fixup_samsung_amp_v2_2_amps", "alc298_fixup_samsung_amp_v2_4_amps"},
         {"pcm_playback_hook"})
HotkeyClaims ==
    Each({"alc233_fixup_lenovo_line2_mic_hotkey", "alc233_fixup_lenovo_low_en_micmute_led"},
         {"gpio2", "jack 0x1b", "kb_dev", "mic_led"})
    @@ [alc280_fixup_hp_gpio2_mic_hotkey |->
            Leds \cup {"gpio1", "gpio2", "gpio3", "gpio4", "kb_dev"},
        alc269_fixup_hp_line1_mic1_led |-> Leds \cup Vref]
HeadsetClaims ==
    [alc_fixup_headset_mode_alc255 |-> Headset,
     alc_fixup_headset_mode_alc255_no_hp_mic |-> Headset,
     alc_fixup_headset_mode_dell_alc288 |-> Headset \cup {"gpio6"}]
DockClaims ==
    [alc_fixup_tpt440_dock |-> {"0x16", "0x19"},
     alc_fixup_tpt470_dock |-> {"0x17", "0x19"},
     alc_fixup_tpt470_dacs |-> {"preferred_dacs"},
     alc295_fixup_asus_dacs |-> {"preferred_dacs"}]
AutomuteClaims ==
    [alc283_fixup_sense_combo_jack |-> {"hp_automute_hook"},
     alc282_fixup_asus_tx300 |-> {"automute_hook", "gpio2", "jack 0x1b", "0x1b"},
     alc290_fixup_mono_speakers |-> {"conn 0x14", "conn 0x15"},
     alc294_fixup_bass_speaker_15 |-> {"conn 0x15", "mic_led"}]
    @@ Each({"alc298_fixup_speaker_volume", "alc295_fixup_disable_dac3",
             "alc285_fixup_speaker2_to_dac1"}, {"conn 0x17"})
DacClaims ==
    [alc280_fixup_hp_9480m |-> {"hp_automute_hook", "mute_led", "gpio3", "gpio4"},
     alc275_fixup_gpio4_off |-> {"gpio2"},
     alc274_fixup_bind_dacs |-> {"preferred_dacs"},
     alc289_fixup_asus_ga401 |-> {"preferred_dacs"}]
    @@ Each({"alc285_fixup_thinkpad_x1_gen7", "alc274_fixup_hp_aio_bind_dacs"},
            {"preferred_dacs", "conn 0x17"})
ToggleClaims == Each({"alc294_fixup_gx502_hp", "alc294_fixup_gu502_hp"}, {"jack 0x21"})
X360Claims ==
    [alc285_fixup_hp_spectre_x360_eb1 |->
         {"0x14", "0x17", "conn 0x14", "conn 0x17", "gpio0", "gpio2", "mic_led"},
     alc285_fixup_hp_spectre_x360_df1 |->
         {"0x14", "0x17", "conn 0x14", "conn 0x17", "gpio0", "mute_led"},
     alc285_fixup_hp_spectre_x360 |-> {"0x14", "conn 0x17"},
     alc285_fixup_hp_envy_x360 |-> {"0x12", "0x14", "0x17", "0x19", "conn 0x17"}]
AcpiClaims == Each({"alc_fixup_thinkpad_acpi", "alc_fixup_ideapad_acpi"}, Leds)
ComponentClaims ==
    Each({"aw88399_fixup_i2c_two", "cs35l41_fixup_i2c_two", "cs35l41_fixup_i2c_four",
          "cs35l41_fixup_spi_two", "cs35l41_fixup_spi_one", "cs35l41_fixup_spi_four",
          "alc287_fixup_legion_16achg6_speakers", "alc287_fixup_legion_16ithg6_speakers",
          "tas2781_fixup_tias_i2c", "tas2781_fixup_spi", "tas2781_fixup_txnw_i2c",
          "yoga7_14arb7_fixup_i2c"}, AmpHook)
    @@ [alc256_fixup_acer_sfg16_micmute_led |-> {"gpio2", "mic_led"}]
PresenceClaims == [alc256_fixup_mic_no_presence_and_resume |-> {"0x19", "0x1a"}]
BassClaims ==
    [alc287_fixup_yoga9_14iap7_bass_spk_pin |->
         Leds \cup {"0x17", "conn 0x17", "preferred_dacs"},
     alc295_fixup_dell_inspiron_top_speakers |->
         {"0x14", "0x17", "conn 0x17", "preferred_dacs"},
     alc287_fixup_bind_dacs |-> {"conn 0x17", "preferred_dacs"},
     alc2xx_fixup_headset_mic |-> {"0x19"}]
HpAmpClaims ==
    [alc245_fixup_hp_spectre_x360_eu0xxx |->
         AmpHook \cup Leds \cup {"0x14", "0x17", "conn 0x17", "gpio2"},
     alc245_fixup_hp_spectre_x360_16_aa0xxx |->
         AmpHook \cup Leds \cup {"0x14", "0x17", "conn 0x17", "gpio0", "gpio2"},
     alc245_fixup_hp_zbook_firefly_g12a |-> AmpHook \cup Leds \cup {"conn 0x17"},
     alc287_fixup_lenovo_thinkpad_with_alc1318 |-> {"pcm_playback_hook", "power_hook"}]
TopSpeakerClaims == [alc295_fixup_hp_top_speakers |-> {"0x17", "conn 0x17"}]
HeadsetJackClaims == [alc_fixup_headset_jack |-> {"jack 0x55"}]

Claims ==
    LibraryClaims @@ PincfgClaims @@ X101Claims @@ GpioLedClaims @@ CoefLedClaims
    @@ BothLedClaims @@ SamsungClaims @@ HotkeyClaims @@ HeadsetClaims @@ DockClaims
    @@ AutomuteClaims @@ DacClaims @@ ToggleClaims @@ X360Claims @@ AcpiClaims
    @@ ComponentClaims @@ PresenceClaims @@ BassClaims @@ HpAmpClaims
    @@ TopSpeakerClaims @@ HeadsetJackClaims

=============================================================================
