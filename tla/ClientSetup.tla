----------------------------- MODULE ClientSetup -----------------------------
(***************************************************************************)
(* aw88399_setup.c: the module that replaces the one I2C client ACPI made  *)
(* for both amps by two, with serial-multi-instantiate (SmiProbe) as the   *)
(* other creator of clients for the same node.  The ACPI enumerator makes  *)
(* its client or leaves the node to SMI.                                   *)
(***************************************************************************)
EXTENDS SmiProbe

CONSTANT MaxLoad     \* bound: loads of the module

ASSUME SetupAssumption == MaxLoad \in Nat

VARIABLES
    spc,          \* "unloaded", "found", "reset", "replace", "right", "left", "loaded", "exit"
    adapters,     \* references to the I2C adapter
    devices,      \* references to the ACPI device
    existing,     \* has this load found ACPI's client?
    adev,         \* where it has the ACPI device from: "none", "companion", "match"
    gpio,         \* reset_gpio of this load
    held,         \* is the line requested, by this load or by none that is left?
    reset,        \* is the line asserted, the amps held in reset?
    loads, found  \* found: has any load found ACPI's client?

set == <<spc, adapters, devices, existing, adev, gpio, held, reset, loads, found>>
vars == <<SmiVars, set>>

\* Names are the numbers behind "aw88399-hda."; ACPI's client is -1.
Client(n, a, o) == [name |-> n, addr |-> a, owner |-> o]
Right == Client(0, 52, "setup")
Left == Client(1, 53, "setup")

TypeOK ==
    /\ SmiTypeOK
    /\ spc \in {"unloaded", "found", "reset", "replace", "right", "left", "loaded", "exit"}
    /\ adapters \in 0..2 /\ devices \in 0..2
    /\ existing \in BOOLEAN /\ adev \in {"none", "companion", "match"}
    /\ gpio \in BOOLEAN /\ held \in BOOLEAN /\ reset \in BOOLEAN
    /\ loads \in 0..MaxLoad /\ found \in BOOLEAN

Init ==
    /\ SmiInit /\ fails = MaxFail
    /\ clients = (IF probes = 0 THEN {Client(-1, 53, "acpi")} ELSE {})
    /\ spc = "unloaded" /\ adapters = 0 /\ devices = 0 /\ existing = FALSE /\ adev = "none"
    /\ gpio = FALSE /\ held = FALSE /\ reset \in BOOLEAN /\ loads = MaxLoad /\ found = FALSE

Fault == fails > 0 /\ fails' = fails - 1
NoFault == UNCHANGED fails

\* The search for ACPI's client holds the adapter it stopped at, the found
\* client's adapter is referenced once more.  Without a client the adapter scan
\* reads a register of the amp at 0x35, which answers when it is not in reset.
Load ==
    /\ spc = "unloaded" /\ loads > 0 /\ loads' = loads - 1 /\ NoFault
    /\ existing' = (\E c \in clients : c.name = -1)
    /\ IF existing' THEN spc' = "found" /\ adapters' = adapters + 2 /\ found' = TRUE
       ELSE IF ~reset THEN spc' = "right" /\ adapters' = adapters + 1 /\ UNCHANGED found
       ELSE UNCHANGED <<spc, adapters, found>>
    /\ UNCHANGED <<smi, clients, devices, adev, gpio, held, reset>>

\* The adapter scan fails for another reason.
ScanFails ==
    /\ spc = "unloaded" /\ loads > 0 /\ loads' = loads - 1 /\ Fault
    /\ ~ \E c \in clients : c.name = -1
    /\ existing' = FALSE
    /\ UNCHANGED <<smi, clients, spc, adapters, devices, adev, gpio, held, reset, found>>

\* The ACPI device: the client's companion, else looked up (a reference of
\* its own), else none.
Companion ==
    /\ spc = "found" /\ NoFault
    /\ \/ adev' = "companion" /\ devices' = devices + 1 /\ spc' = "reset"
       \/ adev' = "match" /\ devices' = devices + 2 /\ spc' = "reset"
       \/ adev' = "none" /\ UNCHANGED devices /\ spc' = "replace"
    /\ UNCHANGED <<smi, clients, adapters, existing, gpio, held, reset, loads, found>>

\* hw_reset: low, high, low.  A line that cannot be had, because it is requested
\* already or for another reason, is not fatal; nor are the calibration data
\* and the interrupt, which are asked for next.
HwReset ==
    /\ spc = "reset" /\ spc' = "replace"
    /\ \/ ~held /\ held' = TRUE /\ gpio' = TRUE /\ reset' = FALSE /\ NoFault
       \/ UNCHANGED <<gpio, held, reset>> /\ IF held THEN NoFault ELSE Fault
    /\ UNCHANGED <<smi, clients, adapters, devices, existing, adev, loads, found>>

Replace ==
    /\ spc = "replace" /\ spc' = "right" /\ NoFault
    /\ clients' = {c \in clients : c.name # -1}
    /\ devices' = devices - (IF adev = "none" THEN 0 ELSE 1)
    /\ UNCHANGED <<smi, adapters, existing, adev, gpio, held, reset, loads, found>>

\* A load that fails puts the adapter once, and the module is freed with its
\* reset_gpio: nobody releases the line any more.
LoadFails == spc' = "unloaded" /\ adapters' = adapters - 1 /\ gpio' = FALSE

\* The client at 0x34.
CreateRight ==
    /\ spc = "right"
    /\ \/ ~Taken(0, 52) /\ clients' = clients \cup {Right} /\ spc' = "left"
          /\ NoFault /\ UNCHANGED <<adapters, gpio>>
       \/ /\ IF Taken(0, 52) THEN NoFault ELSE Fault
          /\ LoadFails /\ UNCHANGED clients
    /\ UNCHANGED <<smi, devices, existing, adev, held, reset, loads, found>>

\* The client at 0x35.  A failure takes the first one away again.
\* Mutant: the adapter is not put.
CreateLeftHolds ==
    /\ spc = "left"
    /\ \/ ~Taken(1, 53) /\ clients' = clients \cup {Left} /\ spc' = "loaded"
          /\ NoFault /\ UNCHANGED <<adapters, gpio>>
       \/ /\ IF Taken(1, 53) THEN NoFault ELSE Fault
          /\ spc' = "unloaded" /\ gpio' = FALSE /\ UNCHANGED adapters
          /\ clients' = clients \ {Right}
    /\ UNCHANGED <<smi, devices, existing, adev, held, reset, loads, found>>
CreateLeft ==
    /\ spc = "left"
    /\ \/ ~Taken(1, 53) /\ clients' = clients \cup {Left} /\ spc' = "loaded"
          /\ NoFault /\ UNCHANGED <<adapters, gpio>>
       \/ /\ IF Taken(1, 53) THEN NoFault ELSE Fault
          /\ LoadFails /\ clients' = clients \ {Right}
    /\ UNCHANGED <<smi, devices, existing, adev, held, reset, loads, found>>

\* setup_exit: the clients, then the line if this load has it (asserted and
\* released), then the adapter.
\* Bound: the module is unloaded only to be loaded again.
Exit ==
    /\ spc = "loaded" /\ loads > 0 /\ spc' = "exit" /\ clients' = clients \ {Right} /\ NoFault
    /\ UNCHANGED <<smi, adapters, devices, existing, adev, gpio, held, reset, loads, found>>
Unload ==
    /\ spc = "exit" /\ spc' = "unloaded" /\ clients' = clients \ {Left} /\ NoFault
    /\ IF gpio THEN reset' = TRUE /\ held' = FALSE ELSE UNCHANGED <<reset, held>>
    /\ gpio' = FALSE /\ adapters' = adapters - 1
    /\ UNCHANGED <<smi, devices, existing, adev, loads, found>>

SetupSteps == Companion \/ HwReset \/ Replace \/ CreateRight \/ CreateLeft \/ Unload
SetupNext == Load \/ ScanFails \/ Exit \/ SetupSteps

SmiActs == SmiNext /\ UNCHANGED set

Next == SetupNext \/ SmiActs

\* The module is loaded at boot and SMI probes; what began runs to its end.
Spec == /\ Init /\ [][Next]_vars /\ WF_vars(SetupSteps) /\ WF_vars(SmiSteps /\ UNCHANGED set)
        /\ WF_vars(Load) /\ WF_vars(SmiStart /\ UNCHANGED set)

-----------------------------------------------------------------------------
(* Properties.                                                             *)

Quiet == spc \in {"unloaded", "loaded"} /\ mpc \in {"unbound", "bound"}

\* When both are done, the two amps have clients of one creator, or none of
\* them has: an HDA component is only ever matched as a pair.
NoHalfPair ==
    Quiet => \/ clients \in {{}, {Client(-1, 53, "acpi")}, {Right, Left}}
             \/ clients = Owned("smi") /\ Cardinality(clients) = count

\* A module that is not loaded has no client on the bus.
NothingLeft == spc = "unloaded" => Owned("setup") = {}

\* Every load that found ACPI's client leaves one adapter referenced, whether it
\* failed, ended or still runs, and the ACPI device as well if it had to look it
\* up; what any other load takes is put on each of its exits.
References ==
    /\ adapters = (IF found THEN 1 ELSE 0) + (IF spc = "unloaded" THEN 0 ELSE 1)
    /\ devices = (IF adev = "match" THEN 1 ELSE 0)
                 + (IF adev # "none" /\ spc \in {"reset", "replace"} THEN 1 ELSE 0)

\* A line that a load requested, or left requested when it failed, keeps the amps
\* out of reset: only the exit that releases it asserts it.
LineAwake == (gpio => held) /\ (held => ~reset)

\* No load makes clients for amps that an unload left in reset: the one that
\* may, found ACPI's client, could not have the line, and they were in reset
\* before.
NoneInReset == (reset /\ Owned("setup") # {}) => existing /\ ~gpio /\ ~held

\* Without a failing call the two amps of the node get their clients for good
\* once the module was loaded, whoever is first and however often SMI probes.
Pair == Quiet /\ Cardinality(clients) = 2
AmpsAppear == \/ <>(count # 2 \/ fails < MaxFail \/ spc = "exit")
              \/ <>[]Pair

\* Whichever step of a load failed, on the way over ACPI's client or over the
\* adapter scan: an unloaded module has no client on the bus, exactly the
\* references named above are left, and a later load is right about the amps.
SetupInv == NothingLeft /\ References /\ LineAwake /\ NoneInReset

\* The two creators leave both amps with clients or none of them.
PairInv == TypeOK /\ NoHalfPair

=============================================================================
