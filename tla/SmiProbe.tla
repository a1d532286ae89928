------------------------------- MODULE SmiProbe -------------------------------
(***************************************************************************)
(* serial-multi-instantiate.c for one ACPI node: clients are created one   *)
(* by one, on I2C or else on SPI, until the node's resources or the        *)
(* driver's instances end; on an error they are taken away again.          *)
(* The I2C clients of the node are kept in the registry of the I2C core,   *)
(* which refuses a name or an address that is taken.                       *)
(***************************************************************************)
EXTENDS Integers, FiniteSets

CONSTANTS
    I2cCounts, SpiCounts,  \* what counting the node's resources may return
    Instances,             \* entries of the node's instance array
    BusType,               \* "SMI_I2C", "SMI_SPI" or "SMI_AUTO_DETECT"
    I2cAddr,               \* address of each I2C resource
    MaxFail,               \* bound: failing calls of the kernel
    MaxProbe               \* bound: probes (a deferred one is tried again)

ASSUME SmiAssumption ==
    /\ I2cCounts \subseteq Int /\ SpiCounts \subseteq Int
    /\ Instances \in Nat \ {0} /\ MaxFail \in Nat /\ MaxProbe \in Nat
    /\ BusType \in {"SMI_I2C", "SMI_SPI", "SMI_AUTO_DETECT"}

\* Addresses of an I2C bus have seven bits.
BusAddr == 0..127
ASSUME AddrAssumption == \A k \in 0..(Instances - 1) : I2cAddr[k] \in BusAddr

VARIABLES
    clients,            \* I2C clients of the node: [name, addr, owner]
    spi,                \* SPI devices of the node
    count, scount,      \* resources of the node
    i2c_num, spi_num,   \* struct smi
    mpc,                \* "unbound", "i2c", "spi", "undo", "bound"
    fails, probes       \* what is left of the bounds

smi == <<spi, count, scount, i2c_num, spi_num, mpc, probes>>

SmiTypeOK ==
    /\ clients \subseteq [name : -1..Instances, addr : BusAddr, owner : {"acpi", "setup", "smi"}]
    /\ spi \subseteq 0..(Instances - 1) /\ count \in I2cCounts /\ scount \in SpiCounts
    /\ i2c_num \in -1..Instances /\ spi_num \in -1..Instances
    /\ mpc \in {"unbound", "i2c", "spi", "undo", "bound"}
    /\ fails \in 0..MaxFail /\ probes \in 0..MaxProbe

\* The driver never probes a node that scan.c did not leave to it.
SmiInit ==
    /\ spi = {} /\ count \in I2cCounts /\ scount \in SpiCounts
    /\ i2c_num = 0 /\ spi_num = 0 /\ mpc = "unbound" /\ probes \in {0, MaxProbe}

Taken(n, a) == \E c \in clients : c.name = n \/ c.addr = a
Owned(o) == {c \in clients : c.owner = o}

\* spi_probe and i2c_probe begin by counting; a node without any I2C resource
\* goes on with SPI when the bus type leaves it open.
SmiStart ==
    /\ mpc = "unbound" /\ probes > 0 /\ probes' = probes - 1
    /\ mpc' = (IF BusType # "SMI_SPI" /\ count > 0 THEN "i2c"
               ELSE IF BusType = "SMI_SPI" \/ (BusType = "SMI_AUTO_DETECT" /\ count = 0)
               THEN (IF scount > 0 THEN "spi" ELSE "unbound")
               ELSE "unbound")
    /\ i2c_num' = 0 /\ spi_num' = 0
    /\ UNCHANGED <<clients, spi, count, scount, fails>>

SmiError == mpc' = "undo"

\* The loop of i2c_probe: an interrupt and a client per turn.
SmiI2c ==
    /\ mpc = "i2c" /\ i2c_num < count /\ i2c_num < Instances
    /\ LET a == I2cAddr[i2c_num]
       IN  IF Taken(i2c_num, a) THEN SmiError /\ UNCHANGED <<clients, i2c_num>>
           ELSE /\ clients' = clients \cup {[name |-> i2c_num, addr |-> a, owner |-> "smi"]}
                /\ i2c_num' = i2c_num + 1 /\ UNCHANGED mpc
    /\ UNCHANGED <<spi, count, scount, spi_num, fails, probes>>

\* The loop of spi_probe.
SmiSpi ==
    /\ mpc = "spi" /\ spi_num < scount /\ spi_num < Instances
    /\ spi' = spi \cup {spi_num} /\ spi_num' = spi_num + 1
    /\ UNCHANGED <<clients, count, scount, i2c_num, mpc, fails, probes>>

\* smi_get_irq or the creation of the client fails.
SmiFails ==
    /\ fails > 0 /\ fails' = fails - 1
    /\ \/ mpc = "i2c" /\ i2c_num < count /\ i2c_num < Instances
       \/ mpc = "spi" /\ spi_num < scount /\ spi_num < Instances
    /\ SmiError
    /\ UNCHANGED <<clients, spi, count, scount, i2c_num, spi_num, probes>>

\* After the loop: more resources than instances are an error.
SmiCounted ==
    /\ \/ /\ mpc = "i2c" /\ ~(i2c_num < count /\ i2c_num < Instances)
          /\ IF i2c_num < count THEN SmiError ELSE mpc' = "bound"
       \/ /\ mpc = "spi" /\ ~(spi_num < scount /\ spi_num < Instances)
          /\ IF spi_num < scount THEN SmiError ELSE mpc' = "bound"
    /\ UNCHANGED <<clients, spi, count, scount, i2c_num, spi_num, fails, probes>>

\* smi_remove takes the same way back as an error.  Bound: the driver is
\* unbound only to be bound again.
SmiRemove ==
    /\ mpc = "bound" /\ probes > 0 /\ mpc' = "undo"
    /\ UNCHANGED <<clients, spi, count, scount, i2c_num, spi_num, fails, probes>>

\* Mutant: the loop counts to one client too few.
SmiUndoShort ==
    /\ mpc = "undo"
    /\ IF i2c_num > 1 THEN
           i2c_num' = i2c_num - 1 /\ clients' = {c \in clients : c.name # i2c_num - 1}
           /\ UNCHANGED <<spi, spi_num, mpc>>
       ELSE spi_num' = -1 /\ i2c_num' = -1 /\ spi' = {} /\ mpc' = "unbound" /\ UNCHANGED clients
    /\ UNCHANGED <<count, scount, fails, probes>>
\* Mutant: the loop begins with the client that could not be made.
SmiUndoOneMore ==
    /\ mpc = "undo"
    /\ IF i2c_num >= 0 THEN
           i2c_num' = i2c_num - 1 /\ clients' = {c \in clients : c.name # i2c_num}
           /\ UNCHANGED <<spi, spi_num, mpc>>
       ELSE spi_num' = -1 /\ spi' = {} /\ mpc' = "unbound" /\ UNCHANGED <<clients, i2c_num>>
    /\ UNCHANGED <<count, scount, fails, probes>>
\* devs_unregister: the counters are tested and decremented, both end at -1.
\* A client is unregistered by its handle, which is the name here.
SmiUndo ==
    /\ mpc = "undo"
    /\ IF i2c_num > 0 THEN
           i2c_num' = i2c_num - 1 /\ clients' = {c \in clients : c.name # i2c_num - 1}
           /\ UNCHANGED <<spi, spi_num, mpc>>
       ELSE IF i2c_num = 0 THEN i2c_num' = -1 /\ UNCHANGED <<clients, spi, spi_num, mpc>>
       ELSE IF spi_num > 0 THEN
           spi_num' = spi_num - 1 /\ spi' = spi \ {spi_num - 1} /\ UNCHANGED <<clients, i2c_num, mpc>>
       ELSE spi_num' = -1 /\ mpc' = "unbound" /\ UNCHANGED <<clients, spi, i2c_num>>
    /\ UNCHANGED <<count, scount, fails, probes>>

SmiNext == SmiStart \/ SmiI2c \/ SmiSpi \/ SmiFails \/ SmiCounted \/ SmiRemove \/ SmiUndo
SmiSteps == SmiI2c \/ SmiSpi \/ SmiFails \/ SmiCounted \/ SmiUndo

\* The driver alone; a probe that began runs to its end.
SmiVars == <<smi, clients, fails>>
SmiSpec == clients = {} /\ fails = MaxFail /\ SmiInit /\ [][SmiNext]_SmiVars /\ WF_SmiVars(SmiSteps)

-----------------------------------------------------------------------------
(* Properties.                                                             *)

\* An instantiated node has a client for every resource, one that is not
\* instantiated has none.
AllOrNothing ==
    /\ mpc = "bound" =>
           \/ {c.name : c \in Owned("smi")} = 0..(count - 1) /\ count > 0 /\ spi = {}
           \/ Owned("smi") = {} /\ spi = 0..(scount - 1) /\ scount > 0
    /\ mpc = "unbound" => (Owned("smi") = {} /\ spi = {})

\* "if such entries are found ONLY I2C devices are created"
I2cFirst == (BusType = "SMI_AUTO_DETECT" /\ count # 0) => spi = {}

\* Every handle that will be unregistered is a client that was made and is
\* still there.
HandlesLive ==
    mpc # "unbound" =>
        /\ \A k \in 0..(i2c_num - 1) : \E c \in Owned("smi") : c.name = k
        /\ 0..(spi_num - 1) \subseteq spi

\* The driver makes all clients of a node or none, on one bus, and unregisters
\* only what it made, whichever call fails.
SmiInv == AllOrNothing /\ I2cFirst /\ HandlesLive

=============================================================================
