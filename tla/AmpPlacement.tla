---------------------------- MODULE AmpPlacement ----------------------------
(***************************************************************************)
(* Which amp is left and which is right (side-codecs/aw88399_hda.c): the   *)
(* index that gives each amp its slot in the codec's component array, the  *)
(* channel, and the loop that binds the amps and takes the bound ones back *)
(* when one is refused.  All of it runs under the component mutex.         *)
(***************************************************************************)
EXTENDS Integers, Sequences

CONSTANTS
    Addr,       \* I2C address of each amp, in the order of the match list
    Firmware    \* what the firmware may say of an amp

Amps == DOMAIN Addr
AW88399_HDA_I2C_BASE_ADDR == 52
AW88399_HDA_MAX_AMPS == 2
Slots == 0..3                       \* HDA_MAX_COMPONENTS
Positions == 0..(AW88399_HDA_MAX_AMPS - 1)
None == 0                           \* no amp

\* Firmware: is there an ACPI companion, and its dev-index, _UID and speaker
\* position; Missing if there is no such property.
Missing == -1
ASSUME PlacementAssumption ==
    /\ Addr \in Seq(Nat) /\ Addr # <<>>
    /\ Firmware \subseteq [companion : BOOLEAN, dev_index : Nat \cup {Missing},
                           uid : Nat \cup {Missing}, speaker_pos : Nat \cup {Missing}]

VARIABLES
    fw, swapped,                   \* the machine: firmware, DMI match
    probed, index, channel,        \* struct aw88399_hda
    pa_channel,                    \* core->aw_pa->channel
    codec,                         \* the codec's component master is added
    slot,                          \* comps[]: the amp in each slot
    pc, turn,                      \* "down", "bind", "unwind", "up"; loop variable
    cause                          \* the amp whose probe or removal runs; None: the codec's

machine == <<fw, swapped>>
amp == <<probed, index, channel, pa_channel>>
placeVars == <<machine, amp, codec, slot, pc, turn, cause>>

-----------------------------------------------------------------------------
(* aw88399_hda_acpi_probe.                                                 *)

Known(value) == value \in Positions

Clamp(n) == IF n < 0 THEN 0
            ELSE IF n > AW88399_HDA_MAX_AMPS - 1 THEN AW88399_HDA_MAX_AMPS - 1 ELSE n
IndexFromI2c(k) == Clamp(Addr[k] - AW88399_HDA_I2C_BASE_ADDR)

\* dev-index, else _UID, else the address; what is out of range is ignored.
IndexOf(k) ==
    IF fw[k].companion /\ Known(fw[k].dev_index) THEN fw[k].dev_index
    ELSE IF fw[k].companion /\ Known(fw[k].uid) THEN fw[k].uid
    ELSE IndexFromI2c(k)

\* speaker-position, else the index; some machines are wired backwards.
ChannelOf(k) ==
    LET c == IF Known(fw[k].speaker_pos) THEN fw[k].speaker_pos ELSE IndexOf(k)
    IN  IF swapped THEN 1 - c ELSE c

\* aw88399_hda_init: what the core is told before it parses its container.
\* Mutant: the core is always told the index.
PaChannelOfIndex(k) == IndexOf(k)
PaChannelOf(k) == IF Known(fw[k].speaker_pos) THEN fw[k].speaker_pos ELSE ChannelOf(k)

-----------------------------------------------------------------------------
(* The component aggregate.                                                *)

PlaceInit ==
    /\ fw \in [Amps -> Firmware] /\ swapped \in BOOLEAN
    /\ probed = [k \in Amps |-> FALSE]
    /\ index = [k \in Amps |-> 0] /\ channel = index /\ pa_channel = index
    /\ codec = FALSE /\ slot = [s \in Slots |-> None]
    /\ pc = "down" /\ turn = 0 /\ cause = None

\* The last one to be added brings the aggregate up.
TryBringUp == pc' = (IF codec' /\ (\A k \in Amps : probed'[k]) THEN "bind" ELSE "down")

\* aw88399_hda_probe of amp k.
Probe(k) ==
    /\ pc = "down" /\ ~probed[k]
    /\ probed' = [probed EXCEPT ![k] = TRUE]
    /\ index' = [index EXCEPT ![k] = IndexOf(k)]
    /\ channel' = [channel EXCEPT ![k] = ChannelOf(k)]
    /\ pa_channel' = [pa_channel EXCEPT ![k] = PaChannelOf(k)]
    /\ UNCHANGED <<machine, codec, slot>>
    /\ TryBringUp /\ turn' = 1 /\ cause' = k

\* hda_component_manager_init.
MasterAdd ==
    /\ pc = "down" /\ ~codec /\ codec' = TRUE
    /\ UNCHANGED <<machine, amp, slot>>
    /\ TryBringUp /\ turn' = 1 /\ cause' = None

\* aw88399_hda_bind.
Bind ==
    /\ pc = "bind"
    /\ IF index[turn] \in Slots /\ slot[index[turn]] = None
       THEN /\ slot' = [slot EXCEPT ![index[turn]] = turn]
            /\ turn' = (IF turn = Len(Addr) THEN turn ELSE turn + 1)
            /\ pc' = (IF turn = Len(Addr) THEN "up" ELSE pc)
       ELSE pc' = "unwind" /\ turn' = turn - 1 /\ UNCHANGED slot
    /\ UNCHANGED <<machine, amp, codec, cause>>

\* aw88399_hda_unbind of one amp after the other; then the probe has failed or
\* the removal goes on.
\* Mutant: the slot is looked for by the channel.
UnwindByChannel ==
    /\ pc = "unwind" /\ turn > 0 /\ turn' = turn - 1
    /\ slot' = [s \in Slots |-> IF s = channel[turn] /\ slot[s] = turn THEN None ELSE slot[s]]
    /\ UNCHANGED <<machine, amp, codec, pc, cause>>
Unwind ==
    /\ pc = "unwind" /\ turn > 0 /\ turn' = turn - 1
    /\ slot' = [s \in Slots |-> IF s = index[turn] /\ slot[s] = turn THEN None ELSE slot[s]]
    /\ UNCHANGED <<machine, amp, codec, pc, cause>>
Unwound ==
    /\ pc = "unwind" /\ turn = 0 /\ pc' = "down"
    /\ probed' = [k \in Amps |-> probed[k] /\ k # cause]
    /\ codec' = (codec /\ cause # None)
    /\ UNCHANGED <<machine, index, channel, pa_channel, slot, turn, cause>>

\* aw88399_hda_remove of amp k, or the codec frees its component manager.
Remove(k) ==
    /\ IF k = None THEN codec ELSE probed[k]
    /\ \/ pc = "up" /\ turn' = Len(Addr)
       \/ pc = "down" /\ turn' = 0
    /\ pc' = "unwind" /\ cause' = k
    /\ UNCHANGED <<machine, amp, codec, slot>>

PlaceNext ==
    \/ MasterAdd \/ Bind \/ Unwind \/ Unwound
    \/ \E k \in Amps : Probe(k)
    \/ \E k \in Amps \cup {None} : Remove(k)

PlaceSpec == PlaceInit /\ [][PlaceNext]_placeVars

-----------------------------------------------------------------------------
(* Properties.                                                             *)

PlaceTypeOK ==
    /\ fw \in [Amps -> Firmware] /\ swapped \in BOOLEAN
    /\ probed \in [Amps -> BOOLEAN] /\ codec \in BOOLEAN
    /\ index \in [Amps -> Positions]
    /\ channel \in [Amps -> Positions] /\ pa_channel \in [Amps -> Positions]
    /\ slot \in [Slots -> Amps \cup {None}]
    /\ pc \in {"down", "bind", "unwind", "up"} /\ turn \in 0..Len(Addr)
    /\ cause \in Amps \cup {None}

\* The hooks, which walk the slots, reach every amp of an aggregate that is up,
\* however the firmware numbers the amps.
UpIsComplete == pc = "up" => \A k \in Amps : \E s \in Slots : slot[s] = k

\* A refused bind and a removal leave no amp in the array, whose slots outlive
\* the amps.
DownIsEmpty == pc = "down" => \A s \in Slots : slot[s] = None

\* One amp is left, one is right, unless the firmware gives them one position
\* or a position to one of them only.
LeftAndRight ==
    (/\ pc = "up" /\ Len(Addr) = 2
     /\ Known(fw[1].speaker_pos) <=> Known(fw[2].speaker_pos)
     /\ Known(fw[1].speaker_pos) => fw[1].speaker_pos # fw[2].speaker_pos)
    => channel[1] # channel[2] /\ pa_channel[1] # pa_channel[2]

\* The amps of this board (no companion, 0x34 and 0x35): the bind is refused to
\* none of them, and bridge and core agree on "0x34 (right), 0x35 (left) --
\* wired backwards on Legion, driver swaps".
Silent ==
    /\ \A k \in Amps : Addr[k] \in {52, 53} /\ ~fw[k].companion /\ ~Known(fw[k].speaker_pos)
    /\ \A j, k \in Amps : Addr[j] = Addr[k] => j = k
BoardBinds == Silent /\ pc = "bind" => pc' # "unwind"
BoardPlaced ==
    (Silent /\ pc = "up") =>
        \A k \in Amps : /\ pa_channel[k] = channel[k]
                        /\ channel[k] = (IF (Addr[k] = 52) = swapped THEN 1 ELSE 0)

\* Amps and component array agree: numbers in range, every amp of an aggregate
\* that is up in a slot, none in one that is down, one left and one right.
PlaceInv == PlaceTypeOK /\ UpIsComplete /\ DownIsEmpty /\ LeftAndRight

\* On the supported boards, which tell the driver nothing, both amps bind and
\* bridge and core take them for the sides they are wired to.
BoardRight == [][BoardBinds /\ BoardPlaced']_placeVars

=============================================================================
