--------------------------- MODULE BringUp_proofs ---------------------------
(***************************************************************************)
(* Proofs about bringing the amps up.  The two creators of their clients,  *)
(* serial-multi-instantiate alone and next to the setup module, for any    *)
(* node, any number of instances, of failing calls, of probes and of       *)
(* loads.  The placement of the amps, for any number of amps, any          *)
(* addresses and whatever the firmware says of them.                       *)
(***************************************************************************)
EXTENDS ClientSetup, AmpPlacement, FiniteSetTheorems, TLAPS

-----------------------------------------------------------------------------
(* serial-multi-instantiate.                                               *)

Names == {c.name : c \in Owned("smi")}

\* Which bus the probe may be on, and how far its counters are.
Progress ==
    /\ count \in Int /\ scount \in Int /\ i2c_num \in Int /\ spi_num \in Int
    /\ mpc \in {"unbound", "i2c", "spi", "undo", "bound"}
    /\ mpc \in {"i2c", "spi"} => i2c_num >= 0 /\ spi_num >= 0
    /\ mpc = "i2c" => count > 0 /\ i2c_num <= count /\ spi = {}
    /\ mpc = "spi" => scount > 0 /\ spi_num <= scount /\ Names = {}
    /\ mpc = "bound" => \/ i2c_num = count /\ count > 0 /\ spi = {}
                        \/ spi_num = scount /\ scount > 0 /\ Names = {}
    /\ mpc = "spi" \/ spi # {} => BusType # "SMI_AUTO_DETECT" \/ count = 0

\* The clients on the bus are those that the counters stand for, in every step
\* of the probe and of the way back.
Counted ==
    /\ mpc = "unbound" => Names = {} /\ spi = {}
    /\ mpc # "unbound" => Names = 0..(i2c_num - 1) /\ spi = 0..(spi_num - 1)

SmiIInv == Progress /\ Counted

\* No name without a client.
LEMMA NoNames == Names = {} => Owned("smi") = {}
  BY DEF Names

\* A node without clients.
LEMMA SmiInitInv ==
    ASSUME SmiInit, Owned("smi") = {}
    PROVE  SmiIInv
  BY SmiAssumption DEF SmiInit, SmiIInv, Progress, Counted, Names

\* A step of the probe, of its error path or of the removal.
LEMMA SmiStepInv ==
    ASSUME SmiIInv, SmiNext
    PROVE  SmiIInv'
<1> USE DEF SmiIInv
<1>1. CASE SmiStart
  <2>1. Names' = Names
    BY <1>1 DEF SmiStart, Names, Owned
  <2> QED
    BY <1>1, <2>1, SmiAssumption DEF SmiStart, Progress, Counted
<1>2. CASE SmiI2c
  <2>1. CASE Taken(i2c_num, I2cAddr[i2c_num])
    <3>1. Names' = Names
      BY <1>2, <2>1 DEF SmiI2c, Names, Owned
    <3> QED
      BY <1>2, <2>1, <3>1 DEF SmiI2c, SmiError, Progress, Counted
  <2>2. CASE ~Taken(i2c_num, I2cAddr[i2c_num])
    <3>0. Owned("smi")' = Owned("smi") \cup
              {[name |-> i2c_num, addr |-> I2cAddr[i2c_num], owner |-> "smi"]}
      BY <1>2, <2>2 DEF SmiI2c, Owned
    <3>1. PICK new : /\ new = [name |-> i2c_num, addr |-> I2cAddr[i2c_num], owner |-> "smi"]
                     /\ Owned("smi")' = Owned("smi") \cup {new}
      BY <3>0
    <3>2. Names' = Names \cup {i2c_num}
      <4>1. new.name = i2c_num
        BY <3>1
      <4>2. Names' = {c.name : c \in Owned("smi") \cup {new}}
        BY <3>1 DEF Names
      <4> QED
        BY <4>1, <4>2, Zenon DEF Names
    <3>3. /\ i2c_num' = i2c_num + 1 /\ mpc = "i2c" /\ mpc' = "i2c" /\ i2c_num < count
          /\ UNCHANGED <<spi, count, scount, spi_num>>
      BY <1>2, <2>2 DEF SmiI2c
    <3>4. Names' = 0..(i2c_num' - 1)
      BY <3>2, <3>3 DEF Progress, Counted
    <3> QED
      BY <3>3, <3>4 DEF Progress, Counted
  <2> QED
    BY <2>1, <2>2
<1>3. CASE SmiSpi
  <2>1. Names' = Names
    BY <1>3 DEF SmiSpi, Names, Owned
  <2> QED
    BY <1>3, <2>1 DEF SmiSpi, Progress, Counted
<1>4. CASE SmiFails
  <2>1. Names' = Names
    BY <1>4 DEF SmiFails, Names, Owned
  <2> QED
    BY <1>4, <2>1 DEF SmiFails, SmiError, Progress, Counted
<1>5. CASE SmiCounted
  <2>1. Names' = Names
    BY <1>5 DEF SmiCounted, Names, Owned
  <2> QED
    BY <1>5, <2>1 DEF SmiCounted, SmiError, Progress, Counted
<1>6. CASE SmiRemove
  <2>1. Names' = Names
    BY <1>6 DEF SmiRemove, Names, Owned
  <2> QED
    BY <1>6, <2>1 DEF SmiRemove, Progress, Counted
<1>7. CASE SmiUndo
  <2>1. CASE i2c_num > 0
    <3>1. Owned("smi")' = {c \in Owned("smi") : c.name # i2c_num - 1}
      BY <1>7, <2>1 DEF SmiUndo, Owned
    <3>2. Names' = Names \ {i2c_num - 1}
      BY <3>1 DEF Names
    <3> QED
      BY <1>7, <2>1, <3>2 DEF SmiUndo, Progress, Counted
  <2>2. CASE ~(i2c_num > 0)
    <3>1. Names' = Names
      BY <1>7, <2>2 DEF SmiUndo, Names, Owned
    <3>2. mpc = "undo" /\ Names = {} /\ UNCHANGED <<count, scount>>
      BY <1>7, <2>2 DEF SmiUndo, Progress, Counted
    <3>3. CASE i2c_num = 0
      <4>1. i2c_num' = -1 /\ UNCHANGED <<spi, spi_num, mpc>>
        BY <1>7, <3>3 DEF SmiUndo
      <4> QED
        BY <3>1, <3>2, <3>3, <4>1 DEF Progress, Counted
    <3>4. CASE i2c_num < 0 /\ spi_num > 0
      <4>1. spi_num' = spi_num - 1 /\ spi' = spi \ {spi_num - 1} /\ UNCHANGED <<i2c_num, mpc>>
        BY <1>7, <2>2, <3>4 DEF SmiUndo, Progress
      <4> QED
        BY <3>1, <3>2, <3>4, <4>1 DEF Progress, Counted
    <3>5. CASE i2c_num < 0 /\ ~(spi_num > 0)
      <4>1. spi_num' = -1 /\ mpc' = "unbound" /\ UNCHANGED <<spi, i2c_num>>
        BY <1>7, <2>2, <3>5 DEF SmiUndo, Progress
      <4>2. spi = {}
        BY <3>2, <3>5 DEF Progress, Counted
      <4> QED
        BY <3>1, <3>2, <3>5, <4>1, <4>2 DEF Progress, Counted
    <3> QED
      BY <2>2, <3>3, <3>4, <3>5 DEF Progress
  <2> QED
    BY <2>1, <2>2
<1> QED
  BY <1>1, <1>2, <1>3, <1>4, <1>5, <1>6, <1>7 DEF SmiNext

\* The invariant speaks of the driver's own clients and counters only.
LEMMA SmiFrame ==
    ASSUME SmiIInv, UNCHANGED smi, Owned("smi")' = Owned("smi")
    PROVE  SmiIInv'
  BY DEF smi, SmiIInv, Progress, Counted, Names

\* What the runs check follows.
LEMMA SmiInvImplies == SmiIInv => SmiInv
<1> SUFFICES ASSUME SmiIInv PROVE AllOrNothing /\ I2cFirst /\ HandlesLive
  BY DEF SmiInv
<1>1. AllOrNothing
  BY NoNames DEF SmiIInv, Progress, Counted, Names, AllOrNothing
<1>2. I2cFirst
  BY DEF SmiIInv, Progress, I2cFirst
<1>3. HandlesLive
  BY DEF SmiIInv, Counted, Names, HandlesLive
<1> QED
  BY <1>1, <1>2, <1>3

-----------------------------------------------------------------------------
(* The setup module.                                                       *)

\* What the module has on the bus, at each of its steps.
OwnClients ==
    Owned("setup") \subseteq CASE spc = "left"   -> {Right}
                               [] spc = "loaded" -> {Right, Left}
                               [] spc = "exit"   -> {Left}
                               [] OTHER          -> {}

\* ACPI's client is not made again, so only the first load that looks finds it.
FoundOnce ==
    /\ spc \in {"found", "reset", "replace"} => existing
    /\ existing => found
    /\ found => spc \in {"found", "reset", "replace"} \/ \A c \in clients : c.name # -1
    /\ ~found \/ spc = "found" => adev = "none"

\* The line is requested by this load or by one that failed, and hw_reset has
\* released the amps; amps in reset have clients only as NoneInReset says.
Line ==
    /\ gpio => held
    /\ held => ~reset
    /\ ~found => ~held
    /\ spc \in {"found", "reset"} => ~held
    /\ reset /\ spc \in {"right", "left", "loaded", "exit"} => existing

SetupIInv == OwnClients /\ FoundOnce /\ References /\ Line
IInv == SmiIInv /\ SetupIInv

\* At most ACPI's client is there, and nothing is held.
LEMMA InitIInv == Init => IInv
<1> SUFFICES ASSUME Init PROVE IInv
  OBVIOUS
<1>1. Owned("smi") = {} /\ Owned("setup") = {}
  BY DEF Init, Owned, Client
<1>2. SmiIInv
  BY <1>1, SmiInitInv DEF Init
<1> QED
  BY <1>1, <1>2 DEF Init, IInv, SetupIInv, OwnClients, FoundOnce, References, Line

\* A step of the setup module leaves SMI's clients alone.
LEMMA SetupStepInv ==
    ASSUME SmiIInv, SetupIInv, SetupNext
    PROVE  SetupIInv' /\ Owned("smi")' = Owned("smi") /\ UNCHANGED smi
<1> USE DEF SetupIInv
<1>1. CASE Load \/ ScanFails \/ Companion \/ HwReset
  <2>1. UNCHANGED <<smi, clients>>
    BY <1>1 DEF Load, ScanFails, Companion, HwReset
  <2>2. OwnClients'
    BY <1>1, <2>1 DEF Load, ScanFails, Companion, HwReset, OwnClients, Owned
  <2>3. Line'
    <3>1. CASE Load
      <4>1. spc' = "found" => ~found
        BY <3>1 DEF Load, FoundOnce
      <4> QED
        BY <3>1, <4>1 DEF Load, Line
    <3> QED
      BY <1>1, <3>1 DEF ScanFails, Companion, HwReset, Line, FoundOnce
  <2>4. FoundOnce'
    BY <1>1 DEF Load, ScanFails, Companion, HwReset, FoundOnce
  <2>5. References'
    <3>1. CASE Load
      <4>1. spc' = "found" => ~found
        BY <3>1 DEF Load, FoundOnce
      <4> QED
        BY <3>1, <4>1 DEF Load, References
    <3>2. CASE Companion
      BY <3>2 DEF Companion, References, FoundOnce
    <3> QED
      BY <1>1, <3>1, <3>2 DEF ScanFails, HwReset, References
  <2> QED
    BY <2>1, <2>2, <2>3, <2>4, <2>5 DEF Owned
<1>2. CASE Replace
  <2>1. Owned("smi")' = {c \in Owned("smi") : c.name # -1}
    BY <1>2 DEF Replace, Owned
  <2>2. -1 \notin Names
    BY DEF SmiIInv, Progress, Counted
  <2>3. Owned("smi")' = Owned("smi")
    BY <2>1, <2>2 DEF Names
  <2>4. References'
    BY <1>2 DEF Replace, References
  <2>5. OwnClients' /\ FoundOnce' /\ Line'
    BY <1>2 DEF Replace, Owned, OwnClients, FoundOnce, Line
  <2> QED
    BY <1>2, <2>3, <2>4, <2>5 DEF Replace
<1>3. CASE CreateRight \/ CreateLeft \/ Exit \/ Unload
  <2> USE DEF CreateRight, CreateLeft, Exit, Unload, LoadFails
  <2>1. OwnClients' /\ Owned("smi")' = Owned("smi") /\ UNCHANGED smi
    BY <1>3 DEF Owned, Right, Left, Client, OwnClients
  <2>2. FoundOnce'
    BY <1>3 DEF FoundOnce, Right, Left, Client
  <2>3. References'
    BY <1>3 DEF References
  <2>4. Line'
    BY <1>3 DEF Line
  <2> QED
    BY <2>1, <2>2, <2>3, <2>4
<1> QED
  BY <1>1, <1>2, <1>3 DEF SetupNext, SetupSteps

\* A step of SMI adds no client of the setup module and none that could be
\* taken for ACPI's.
LEMMA SmiKeepsSetup ==
    ASSUME SmiIInv, SetupIInv, SmiNext, UNCHANGED set
    PROVE  SetupIInv'
<1>1. Owned("setup")' \subseteq Owned("setup")
  BY DEF SmiNext, SmiStart, SmiI2c, SmiSpi, SmiFails, SmiCounted, SmiRemove, SmiUndo, Owned
<1>2. \A c \in clients' : c \in clients \/ c.name # -1
  BY DEF SmiNext, SmiStart, SmiI2c, SmiSpi, SmiFails, SmiCounted, SmiRemove, SmiUndo,
         SmiIInv, Progress, Counted
<1> QED
  BY <1>1, <1>2 DEF SetupIInv, OwnClients, FoundOnce, References, Line, set

\* A step of either.
LEMMA StepIInv ==
    ASSUME IInv, [Next]_vars
    PROVE  IInv'
<1> USE DEF IInv
<1>1. CASE SetupNext
  BY <1>1, SetupStepInv, SmiFrame
<1>2. CASE SmiActs
  BY <1>2, SmiStepInv, SmiKeepsSetup DEF SmiActs
<1>3. CASE UNCHANGED vars
  <2>1. UNCHANGED <<smi, clients, set>>
    BY <1>3 DEF vars, SmiVars
  <2>2. SmiIInv'
    BY <2>1, SmiFrame DEF Owned
  <2> QED
    BY <2>1, <2>2 DEF SetupIInv, OwnClients, FoundOnce, References, Line, set, Owned
<1> QED
  BY <1>1, <1>2, <1>3 DEF Next

\* What the runs check follows.
LEMMA IInvImplies == IInv => SetupInv
<1> SUFFICES ASSUME IInv PROVE SetupInv
  OBVIOUS
<1>1. NothingLeft
  BY DEF IInv, SetupIInv, OwnClients, NothingLeft
<1>2. Owned("setup") # {} => spc \in {"left", "loaded", "exit"}
  BY DEF IInv, SetupIInv, OwnClients
<1>3. LineAwake /\ NoneInReset
  BY <1>2 DEF IInv, SetupIInv, Line, LineAwake, NoneInReset
<1> QED
  BY <1>1, <1>3 DEF IInv, SetupIInv, SetupInv

-----------------------------------------------------------------------------
(* Both creators on one bus.                                               *)

\* The registry of the I2C core holds one client per name.
NamesUnique == \A c, d \in clients : c.name = d.name => c = d

\* ACPI's own client is there only on a node that SMI never probes, until the
\* setup module takes it away.
AcpiFirst ==
    /\ Owned("acpi") \subseteq {Client(-1, 53, "acpi")}
    /\ Owned("acpi") # {} => /\ probes = 0 /\ mpc = "unbound"
                             /\ spc \in {"unloaded", "found", "reset", "replace"}

\* The clients that the setup module has made stay until it takes them away.
StillThere ==
    /\ spc \in {"left", "loaded"} => Right \in clients
    /\ spc = "loaded" => Left \in clients

PairIInv == /\ IInv /\ TypeOK
            /\ NamesUnique /\ AcpiFirst /\ StillThere

\* At first only ACPI's client can be there, on a node that is not SMI's.
LEMMA InitPair == Init => PairIInv
<1> SUFFICES ASSUME Init PROVE PairIInv
  OBVIOUS
<1>1. IInv
  BY InitIInv
<1>2. clients \subseteq {Client(-1, 53, "acpi")} /\ (clients # {} => probes = 0)
  BY DEF Init
<1>3. TypeOK
  <2>1. clients \subseteq [name : -1..Instances, addr : BusAddr, owner : {"acpi", "setup", "smi"}]
    BY <1>2, SmiAssumption DEF Client, BusAddr
  <2>2. SmiTypeOK
    BY <2>1, SmiAssumption DEF Init, SmiInit, SmiTypeOK
  <2>3. loads \in 0..MaxLoad
    BY SetupAssumption DEF Init
  <2>4. adapters \in 0..2 /\ devices \in 0..2
    BY DEF Init
  <2>5. /\ spc = "unloaded" /\ existing = FALSE /\ adev = "none"
        /\ gpio = FALSE /\ held = FALSE /\ reset \in BOOLEAN /\ found = FALSE
    BY DEF Init
  <2> QED
    BY <2>2, <2>3, <2>4, <2>5 DEF TypeOK
<1>4. NamesUnique
  BY <1>2 DEF NamesUnique
<1>5. AcpiFirst /\ StillThere
  BY <1>2 DEF Init, SmiInit, AcpiFirst, StillThere, Owned, Client
<1> QED
  BY <1>1, <1>3, <1>4, <1>5 DEF PairIInv

\* A step of SMI adds a client whose name and address are free, removes one it
\* made itself, or leaves the clients alone.
LEMMA SmiClients ==
    ASSUME PairIInv, SmiNext
    PROVE  \/ UNCHANGED clients
           \/ \E c \in [name : 0..(Instances - 1), addr : BusAddr, owner : {"smi"}] :
                 clients' = clients \cup {c} /\ ~Taken(c.name, c.addr)
           \/ \E c \in Owned("smi") : clients' = {d \in clients : d.name # c.name}
<1>1. CASE SmiI2c
  <2>1. CASE Taken(i2c_num, I2cAddr[i2c_num])
    BY <1>1, <2>1 DEF SmiI2c
  <2>2. CASE ~Taken(i2c_num, I2cAddr[i2c_num])
    <3>1. i2c_num \in 0..(Instances - 1)
      BY <1>1, SmiAssumption DEF SmiI2c, PairIInv, IInv, SmiIInv, Progress
    <3> DEFINE c == [name |-> i2c_num, addr |-> I2cAddr[i2c_num], owner |-> "smi"]
    <3>2. c \in [name : 0..(Instances - 1), addr : BusAddr, owner : {"smi"}]
      BY <3>1, AddrAssumption
    <3>3. clients' = clients \cup {c} /\ ~Taken(c.name, c.addr)
      BY <1>1, <2>2 DEF SmiI2c
    <3> HIDE DEF c
    <3> QED
      BY <3>2, <3>3
  <2> QED
    BY <2>1, <2>2
<1>2. CASE SmiUndo
  <2>1. CASE i2c_num > 0
    <3>1. i2c_num - 1 \in Names
      BY <1>2, <2>1 DEF SmiUndo, PairIInv, IInv, SmiIInv, Progress, Counted
    <3>2. clients' = {d \in clients : d.name # i2c_num - 1}
      BY <1>2, <2>1 DEF SmiUndo
    <3> QED
      BY <3>1, <3>2 DEF Names
  <2>2. CASE ~(i2c_num > 0)
    BY <1>2, <2>2 DEF SmiUndo
  <2> QED
    BY <2>1, <2>2
<1>3. CASE SmiStart \/ SmiSpi \/ SmiFails \/ SmiCounted \/ SmiRemove
  BY <1>3 DEF SmiStart, SmiSpi, SmiFails, SmiCounted, SmiRemove
<1> QED
  BY <1>1, <1>2, <1>3 DEF SmiNext

\* The counters of SMI stay between -1 and the instances.
LEMMA SmiNumbers ==
    ASSUME PairIInv, SmiNext
    PROVE  /\ spi' \subseteq 0..(Instances - 1) /\ UNCHANGED <<count, scount>>
           /\ i2c_num' \in -1..Instances /\ spi_num' \in -1..Instances
           /\ mpc' \in {"unbound", "i2c", "spi", "undo", "bound"}
           /\ fails' \in 0..MaxFail /\ probes' \in 0..MaxProbe
<1> USE SmiAssumption DEF PairIInv, TypeOK, SmiTypeOK
<1>1. CASE SmiStart
  BY <1>1 DEF SmiStart
<1>2. CASE SmiI2c
  BY <1>2 DEF SmiI2c, SmiError, IInv, SmiIInv, Progress
<1>3. CASE SmiSpi
  BY <1>3 DEF SmiSpi, SmiError, IInv, SmiIInv, Progress
<1>4. CASE SmiFails
  BY <1>4 DEF SmiFails, SmiError
<1>5. CASE SmiCounted \/ SmiRemove
  BY <1>5 DEF SmiCounted, SmiRemove, SmiError
<1>6. CASE SmiUndo
  <2>1. /\ i2c_num' \in {i2c_num, i2c_num - 1} /\ (i2c_num' = i2c_num - 1 => i2c_num >= 0)
        /\ spi_num' \in {spi_num, spi_num - 1, -1} /\ (spi_num' = spi_num - 1 => spi_num >= 0)
    BY <1>6 DEF SmiUndo
  <2>2. spi' \subseteq spi /\ mpc' \in {mpc, "unbound"} /\ UNCHANGED <<count, scount, fails, probes>>
    BY <1>6 DEF SmiUndo
  <2> QED
    BY <2>1, <2>2
<1> QED
  BY <1>1, <1>2, <1>3, <1>4, <1>5, <1>6 DEF SmiNext

\* A step of SMI next to the setup module.
LEMMA SmiKeepsPair ==
    ASSUME PairIInv, SmiActs
    PROVE  TypeOK' /\ NamesUnique' /\ AcpiFirst' /\ StillThere'
<1>0. SmiNext /\ UNCHANGED set
  BY DEF SmiActs
<1>1. SmiTypeOK'
  <2>1. clients' \subseteq [name : -1..Instances, addr : BusAddr, owner : {"acpi", "setup", "smi"}]
    BY <1>0, SmiClients, SmiAssumption DEF PairIInv, TypeOK, SmiTypeOK, Owned
  <2> QED
    BY <1>0, <2>1, SmiNumbers DEF PairIInv, TypeOK, SmiTypeOK
<1>2. TypeOK'
  BY <1>0, <1>1 DEF PairIInv, TypeOK, set
<1>3. NamesUnique'
  BY <1>0, SmiClients DEF PairIInv, NamesUnique, Taken
<1>4. \A d \in clients : d.owner # "smi" => d \in clients'
  <2>1. CASE \E c \in Owned("smi") : clients' = {d \in clients : d.name # c.name}
    <3>1. PICK c \in Owned("smi") : clients' = {d \in clients : d.name # c.name}
      BY <2>1
    <3>2. ASSUME NEW d \in clients, d.name = c.name PROVE d.owner = "smi"
      BY <3>1, <3>2 DEF PairIInv, NamesUnique, Owned
    <3> QED
      BY <3>1, <3>2
  <2> QED
    BY <1>0, <2>1, SmiClients
<1>5. StillThere'
  BY <1>0, <1>4 DEF PairIInv, StillThere, Right, Left, Client, set
<1>6. Owned("acpi")' \subseteq Owned("acpi")
  BY <1>0, SmiClients DEF Owned
<1>7. Owned("acpi") # {} => FALSE
  BY <1>0 DEF PairIInv, AcpiFirst, SmiNext, SmiStart, SmiI2c, SmiSpi, SmiFails, SmiCounted,
              SmiRemove, SmiUndo, TypeOK, SmiTypeOK
<1> QED
  BY <1>2, <1>3, <1>5, <1>6, <1>7 DEF AcpiFirst

\* A step of the setup module.
LEMMA SetupKeepsPair ==
    ASSUME PairIInv, SetupNext
    PROVE  TypeOK' /\ NamesUnique' /\ AcpiFirst' /\ StillThere'
<1>0. UNCHANGED smi
  BY SetupStepInv DEF PairIInv, IInv
<1>1. fails' \in 0..MaxFail
  <2>1. fails' = fails \/ (fails > 0 /\ fails' = fails - 1)
    BY DEF SetupNext, SetupSteps, Load, ScanFails, Companion, HwReset, Replace, CreateRight,
           CreateLeft, LoadFails, Exit, Unload, Fault, NoFault
  <2>2. fails \in 0..MaxFail
    BY DEF PairIInv, TypeOK, SmiTypeOK
  <2> QED
    BY <2>1, <2>2, SmiAssumption
<1>2. /\ spc' \in {"unloaded", "found", "reset", "replace", "right", "left", "loaded", "exit"}
      /\ gpio' \in BOOLEAN /\ held' \in BOOLEAN /\ reset' \in BOOLEAN
      /\ existing' \in BOOLEAN /\ found' \in BOOLEAN /\ adev' \in {"none", "companion", "match"}
  BY DEF PairIInv, TypeOK, SetupNext, SetupSteps, Load, ScanFails, Companion, HwReset, Replace,
     CreateRight, CreateLeft, LoadFails, Exit, Unload
<1>3. loads' \in 0..MaxLoad
  <2>1. loads' = loads \/ (loads > 0 /\ loads' = loads - 1)
    BY DEF SetupNext, SetupSteps, Load, ScanFails, Companion, HwReset, Replace, CreateRight,
           CreateLeft, LoadFails, Exit, Unload
  <2>2. loads \in 0..MaxLoad
    BY DEF PairIInv, TypeOK
  <2> QED
    BY <2>1, <2>2, SetupAssumption
<1>4. \/ /\ clients' \subseteq clients
         /\ spc' \notin {"left", "loaded"}
      \/ /\ spc = "right" /\ spc' = "left" /\ clients' = clients \cup {Right} /\ ~Taken(0, 52)
      \/ /\ spc = "left" /\ spc' = "loaded" /\ clients' = clients \cup {Left} /\ ~Taken(1, 53)
  BY DEF SetupNext, SetupSteps, Load, ScanFails, Companion, HwReset, Replace,
     CreateRight, CreateLeft, LoadFails, Exit, Unload
<1>5. clients' \subseteq [name : -1..Instances, addr : BusAddr, owner : {"acpi", "setup", "smi"}]
  BY <1>4, SmiAssumption DEF PairIInv, TypeOK, SmiTypeOK, Right, Left, Client, BusAddr
<1>6. TypeOK'
  <2>1. SmiTypeOK'
    BY <1>0, <1>1, <1>5 DEF PairIInv, TypeOK, SmiTypeOK, smi
  <2>2. adapters' \in 0..2 /\ devices' \in 0..2
    BY SetupStepInv DEF PairIInv, IInv, SetupIInv, References
  <2> QED
    BY <1>2, <1>3, <2>1, <2>2 DEF TypeOK
<1>7. NamesUnique'
  BY <1>4 DEF PairIInv, NamesUnique, Taken, Right, Left, Client
<1>8. StillThere'
  <2>1. Right # Left
    BY DEF Right, Left, Client
  <2> QED
    BY <1>4, <2>1 DEF PairIInv, StillThere
<1>9. AcpiFirst'
  <2>1. Owned("acpi")' \subseteq Owned("acpi")
    BY <1>4 DEF Owned, Right, Left, Client
  <2>2. spc \in {"right", "left", "loaded", "exit"} => Owned("acpi") = {}
    BY DEF PairIInv, AcpiFirst
  <2>3. spc' \in {"right", "left", "loaded", "exit"} => Owned("acpi")' = {}
    <3>1. CASE Load \/ Replace
      <4>1. \A c \in Owned("acpi") : c.name = -1
        BY DEF PairIInv, AcpiFirst, Client
      <4> QED
        BY <3>1, <4>1 DEF Load, Replace, Owned
    <3>2. CASE ~(Load \/ Replace)
      <4>1. spc' \in {"right", "left", "loaded", "exit"} => spc \in {"right", "left", "loaded", "exit"}
        BY <3>2 DEF SetupNext, SetupSteps, ScanFails, Companion, HwReset, CreateRight, CreateLeft, LoadFails,
                    Exit, Unload
      <4> QED
        BY <2>1, <2>2, <4>1
    <3> QED
      BY <3>1, <3>2
  <2>4. probes' = probes /\ mpc' = mpc
    BY <1>0 DEF smi
  <2> QED
    BY <1>2, <2>1, <2>3, <2>4 DEF PairIInv, AcpiFirst
<1> QED
  BY <1>6, <1>7, <1>8, <1>9

\* A step of either keeps all of it.
LEMMA StepPair ==
    ASSUME PairIInv, [Next]_vars
    PROVE  PairIInv'
<1>1. IInv'
  BY StepIInv DEF PairIInv
<1>2. CASE SetupNext
  BY <1>1, <1>2, SetupKeepsPair DEF PairIInv
<1>3. CASE SmiActs
  BY <1>1, <1>3, SmiKeepsPair DEF PairIInv
<1>4. CASE UNCHANGED vars
  <2>1. UNCHANGED <<smi, clients, fails, set>>
    BY <1>4 DEF vars, SmiVars
  <2> QED
    BY <1>1, <2>1 DEF PairIInv, TypeOK, SmiTypeOK, NamesUnique, AcpiFirst, StillThere,
                      smi, set, Owned
<1> QED
  BY <1>2, <1>3, <1>4 DEF Next

\* As many clients as names, when no name is used twice.
LEMMA ClientsAndNames ==
    ASSUME NamesUnique, NEW n \in Nat, clients = Owned("smi"), Names = 0..(n - 1)
    PROVE  Cardinality(clients) = n
<1> DEFINE name == [c \in clients |-> c.name]
<1>1. name \in [clients -> 0..(n - 1)]
  BY DEF Names
<1>2. \A c, d \in clients : name[c] = name[d] => c = d
  BY DEF NamesUnique
<1>3. \A k \in 0..(n - 1) : \E c \in clients : name[c] = k
  BY DEF Names
<1> HIDE DEF name
<1>4. name \in Injection(clients, 0..(n - 1))
  BY <1>1, <1>2 DEF Injection, IsInjective
<1>5. name \in Surjection(clients, 0..(n - 1))
  BY <1>1, <1>3 DEF Surjection
<1>6. IsFiniteSet(0..(n - 1)) /\ Cardinality(0..(n - 1)) = n
  BY FS_Interval
<1> QED
  BY <1>4, <1>5, <1>6, FS_Injection

\* Between calls no half of a pair is left.
LEMMA PairIInvImplies == PairIInv => PairInv
<1> SUFFICES ASSUME PairIInv, Quiet
             PROVE  \/ clients \in {{}, {Client(-1, 53, "acpi")}, {Right, Left}}
                    \/ clients = Owned("smi") /\ Cardinality(clients) = count
  BY DEF PairInv, PairIInv, NoHalfPair
<1>1. clients = Owned("acpi") \cup Owned("setup") \cup Owned("smi")
  BY DEF PairIInv, TypeOK, SmiTypeOK, Owned
<1>2. Owned("acpi") \subseteq {Client(-1, 53, "acpi")}
  BY DEF PairIInv, AcpiFirst
<1>3. CASE Names = {}
  <2>1. Owned("smi") = {}
    BY <1>3, NoNames
  <2>2. CASE spc = "loaded"
    <3>1. Owned("acpi") = {} /\ Right \in clients /\ Left \in clients
      BY <2>2 DEF PairIInv, AcpiFirst, StillThere
    <3>2. Owned("setup") \subseteq {Right, Left}
      BY <2>2 DEF PairIInv, IInv, SetupIInv, OwnClients
    <3> QED
      BY <1>1, <2>1, <3>1, <3>2
  <2>3. CASE spc = "unloaded"
    <3>1. Owned("setup") = {}
      BY <2>3 DEF PairIInv, IInv, SetupIInv, OwnClients
    <3> QED
      BY <1>1, <1>2, <2>1, <3>1
  <2> QED
    BY <2>2, <2>3 DEF Quiet
<1>4. CASE Names # {}
  <2>1. mpc = "bound" /\ i2c_num = count /\ count > 0 /\ count \in Int /\ Names = 0..(count - 1)
    BY <1>4 DEF Quiet, PairIInv, IInv, SmiIInv, Progress, Counted
  <2>2. PICK first \in Owned("smi") : first.name = 0
    BY <2>1 DEF Names
  <2>3. spc # "loaded"
    <3>1. Right.name = 0 /\ Right.owner = "setup" /\ first.owner = "smi" /\ first \in clients
      BY <2>2 DEF Right, Client, Owned
    <3> QED
      BY <2>2, <3>1 DEF PairIInv, StillThere, NamesUnique
  <2>4. Owned("setup") = {}
    BY <2>3 DEF Quiet, PairIInv, IInv, SetupIInv, OwnClients
  <2>5. Owned("acpi") = {}
    BY <2>1 DEF PairIInv, AcpiFirst
  <2>6. clients = Owned("smi")
    BY <1>1, <2>4, <2>5
  <2> QED
    BY <2>1, <2>6, ClientsAndNames DEF PairIInv
<1> QED
  BY <1>3, <1>4

-----------------------------------------------------------------------------
(* What the runs check.                                                    *)

\* i2c_probe, spi_probe, devs_unregister: all clients of a node or none, the
\* right bus, and only live handles are unregistered.
THEOREM SmiCorrect == SmiSpec => []SmiInv
<1>1. clients = {} /\ SmiInit => SmiIInv
  BY SmiInitInv DEF Owned
<1>2. SmiIInv /\ [SmiNext]_SmiVars => SmiIInv'
  BY SmiStepInv, SmiFrame DEF SmiVars, Owned
<1> QED
  BY <1>1, <1>2, SmiInvImplies, PTL DEF SmiSpec

\* The same next to the setup module, whichever of them is first.
THEOREM SmiBesideSetup == Spec => []SmiInv
<1>1. Init => IInv
  BY InitIInv
<1>2. IInv /\ [Next]_vars => IInv'
  BY StepIInv
<1>3. IInv => SmiInv
  BY SmiInvImplies DEF IInv
<1> QED
  BY <1>1, <1>2, <1>3, PTL DEF Spec

\* aw88399_setup.c: both invariants hold in every reachable state.
THEOREM InvariantHolds == Spec => []IInv
<1>1. Init => IInv
  BY InitIInv
<1>2. IInv /\ [Next]_vars => IInv'
  BY StepIInv
<1> QED
  BY <1>1, <1>2, PTL DEF Spec

\* setup_init, setup_exit, hw_reset: whichever step of a load failed, a module
\* that is not loaded has no client on the bus; exactly the references that a
\* load over ACPI's client keeps are left, however often the module is loaded;
\* a requested reset line keeps the amps awake, and no load makes clients for
\* amps that an unload left in reset.
THEOREM SetupCorrect == Spec => []SetupInv
  BY InvariantHolds, IInvImplies, PTL

\* setup_init against i2c_probe, whichever is first, fails or is repeated: when
\* both are done, the two amps have the clients of one creator or ACPI's one
\* client is untouched; a node that SMI bound has a client per resource.
THEOREM PairCorrect == Spec => []PairInv
<1>1. Init => PairIInv
  BY InitPair
<1>2. PairIInv /\ [Next]_vars => PairIInv'
  BY StepPair
<1> QED
  BY <1>1, <1>2, PairIInvImplies, PTL DEF Spec

-----------------------------------------------------------------------------
(* The placement of the amps.                                              *)

\* The slots hold only amps up to n, each in the slot of its index.
Within(n) == \A s \in Slots : slot[s] # None => (slot[s] <= n /\ index[slot[s]] = s)

\* The amps up to n have their slots.
Holds(n) == \A j \in Amps : j <= n => slot[index[j]] = j

AllProbed == \A k \in Amps : probed[k]
Told == \A k \in Amps :
            probed[k] => /\ index[k] = IndexOf(k) /\ channel[k] = ChannelOf(k)
                         /\ pa_channel[k] = PaChannelOf(k)

DownInv == pc = "down" => Within(0)
BindInv == pc = "bind" => /\ turn \in 1..Len(Addr) /\ AllProbed
                          /\ Within(turn - 1) /\ Holds(turn - 1)
UnwindInv == pc = "unwind" => Within(turn)
UpInv == pc = "up" => AllProbed /\ Within(Len(Addr)) /\ Holds(Len(Addr))

PlaceIInv == PlaceTypeOK /\ Told /\ DownInv /\ BindInv /\ UnwindInv /\ UpInv

-----------------------------------------------------------------------------
(* Lemmas.                                                                 *)

LEMMA AmpsAre ==
    /\ Amps = 1..Len(Addr) /\ Len(Addr) \in Nat /\ Len(Addr) >= 1
    /\ \A k \in Amps : Addr[k] \in Nat
  BY PlacementAssumption DEF Amps

\* aw88399_hda_acpi_probe: every number it accepts is a position.
LEMMA InPositions ==
    ASSUME NEW k \in Amps, swapped \in BOOLEAN
    PROVE  IndexOf(k) \in Positions /\ ChannelOf(k) \in Positions /\ PaChannelOf(k) \in Positions
<1>1. IndexFromI2c(k) \in Positions
  BY AmpsAre DEF IndexFromI2c, Clamp, Positions, AW88399_HDA_I2C_BASE_ADDR, AW88399_HDA_MAX_AMPS
<1>2. IndexOf(k) \in Positions
  BY <1>1 DEF IndexOf, Known
<1>3. \A c \in Positions : 1 - c \in Positions
  BY DEF Positions, AW88399_HDA_MAX_AMPS
<1>4. ChannelOf(k) \in Positions
  BY <1>2, <1>3 DEF ChannelOf, Known
<1> QED
  BY <1>2, <1>4 DEF PaChannelOf, Known

LEMMA PositionsAreSlots == Positions \subseteq Slots
  BY DEF Positions, Slots, AW88399_HDA_MAX_AMPS

-----------------------------------------------------------------------------
(* The invariant.                                                          *)

LEMMA InitPlaceIInv == PlaceInit => PlaceIInv
<1> SUFFICES ASSUME PlaceInit PROVE PlaceIInv
  OBVIOUS
<1>1. 0 \in Positions
  BY DEF Positions, AW88399_HDA_MAX_AMPS
<1>2. PlaceTypeOK
  <2>1. /\ fw \in [Amps -> Firmware] /\ swapped \in BOOLEAN
        /\ probed \in [Amps -> BOOLEAN] /\ codec \in BOOLEAN
    BY DEF PlaceInit
  <2>2. index \in [Amps -> Positions] /\ channel = index /\ pa_channel = index
    BY <1>1 DEF PlaceInit
  <2>3. slot \in [Slots -> Amps \cup {None}] /\ cause \in Amps \cup {None}
    BY DEF PlaceInit
  <2>4. turn \in 0..Len(Addr) /\ pc \in {"down", "bind", "unwind", "up"}
    BY AmpsAre DEF PlaceInit
  <2> QED
    BY <2>1, <2>2, <2>3, <2>4 DEF PlaceTypeOK
<1>3. Told /\ DownInv /\ BindInv /\ UnwindInv /\ UpInv
  BY DEF PlaceInit, Told, DownInv, BindInv, UnwindInv, UpInv, Within
<1> QED
  BY <1>2, <1>3 DEF PlaceIInv

\* What a probe or the codec's manager adds leaves the array empty, and begins
\* the binding if it was the last.
LEMMA AddInv ==
    ASSUME PlaceIInv, MasterAdd \/ (\E k \in Amps : Probe(k))
    PROVE  PlaceIInv'
<1>1. CASE MasterAdd
  <2>1. PlaceTypeOK'
    BY <1>1, AmpsAre DEF PlaceIInv, PlaceTypeOK, MasterAdd, TryBringUp, machine, amp
  <2>2. Told'
    BY <1>1 DEF PlaceIInv, Told, MasterAdd, machine, amp, IndexOf, ChannelOf, PaChannelOf
  <2>3. pc = "down" /\ UNCHANGED <<slot, index, probed>> /\ turn' = 1
    BY <1>1 DEF MasterAdd, amp
  <2>4. pc' = "down" \/ (pc' = "bind" /\ AllProbed')
    BY <1>1 DEF MasterAdd, TryBringUp, AllProbed
  <2>5. Within(0)'
    BY <2>3 DEF PlaceIInv, DownInv, Within
  <2> QED
    BY <2>1, <2>2, <2>3, <2>4, <2>5, AmpsAre
    DEF PlaceIInv, DownInv, BindInv, UnwindInv, UpInv, Within, Holds
<1>2. CASE \E k \in Amps : Probe(k)
  <2>1. PICK k \in Amps : Probe(k)
    BY <1>2
  <2>2. pc = "down" /\ UNCHANGED <<slot, codec, fw, swapped>> /\ turn' = 1 /\ cause' = k
    BY <2>1 DEF Probe, machine
  <2>3. pc' = "down" \/ (pc' = "bind" /\ AllProbed')
    BY <2>1 DEF Probe, TryBringUp, AllProbed
  <2>4. \A s \in Slots : slot[s] = None
    BY <2>2, AmpsAre DEF PlaceIInv, DownInv, Within, PlaceTypeOK, None
  <2>5. PlaceTypeOK'
    BY <2>1, <2>2, <2>3, AmpsAre, InPositions DEF PlaceIInv, PlaceTypeOK, Probe
  <2>6. Told'
    BY <2>1, <2>2 DEF PlaceIInv, Told, PlaceTypeOK, Probe, IndexOf, ChannelOf, PaChannelOf
  <2> QED
    BY <2>2, <2>3, <2>4, <2>5, <2>6, AmpsAre
    DEF PlaceIInv, DownInv, BindInv, UnwindInv, UpInv, Within, Holds
<1> QED
  BY <1>1, <1>2

\* aw88399_hda_bind: the amp gets the free slot of its index, or the amps bound
\* so far are the ones to take back.
LEMMA BindStep ==
    ASSUME PlaceIInv, Bind
    PROVE  PlaceIInv'
<1>0. /\ pc = "bind" /\ turn \in 1..Len(Addr) /\ AllProbed /\ Within(turn - 1) /\ Holds(turn - 1)
      /\ UNCHANGED <<fw, swapped, probed, index, channel, pa_channel, codec, cause>>
  BY DEF Bind, PlaceIInv, BindInv, machine, amp
<1>1. turn \in Amps /\ turn # None /\ turn \in Nat
  BY <1>0, AmpsAre DEF None
<1>2. Told'
  BY <1>0 DEF PlaceIInv, Told, IndexOf, ChannelOf, PaChannelOf
<1>3. CASE index[turn] \in Slots /\ slot[index[turn]] = None
  <2>1. /\ slot' = [slot EXCEPT ![index[turn]] = turn]
        /\ turn' = (IF turn = Len(Addr) THEN turn ELSE turn + 1)
        /\ pc' = (IF turn = Len(Addr) THEN "up" ELSE "bind")
    BY <1>0, <1>3 DEF Bind
  <2>2. PlaceTypeOK'
    <3>1. slot' \in [Slots -> Amps \cup {None}]
      BY <1>1, <2>1 DEF PlaceIInv, PlaceTypeOK
    <3>2. turn' \in 0..Len(Addr) /\ pc' \in {"down", "bind", "unwind", "up"}
      BY <1>0, <1>1, <2>1, AmpsAre
    <3> QED
      BY <1>0, <3>1, <3>2 DEF PlaceIInv, PlaceTypeOK
  <2>3. slot \in [Slots -> Amps \cup {None}] /\ index \in [Amps -> Positions]
    BY DEF PlaceIInv, PlaceTypeOK
  <2>4. \A s \in Slots : slot'[s] = IF s = index[turn] THEN turn ELSE slot[s]
    BY <2>1, <2>3
  <2>5. \A s \in Slots : slot'[s] # None => slot'[s] <= turn /\ index'[slot'[s]] = s
    BY <1>0, <1>1, <2>3, <2>4, AmpsAre DEF Within, None
  <2>6. \A j \in Amps : j <= turn => slot'[index'[j]] = j
    <3> SUFFICES ASSUME NEW j \in Amps, j <= turn PROVE slot'[index[j]] = j
      BY <1>0
    <3>1. index[j] \in Slots
      BY <2>3, PositionsAreSlots
    <3>2. CASE j = turn
      BY <3>1, <3>2, <2>4
    <3>3. CASE j # turn
      <4>1. j <= turn - 1 /\ j # None
        BY <3>3, <1>1, AmpsAre DEF None
      <4>2. slot[index[j]] = j
        BY <4>1, <1>0 DEF Holds
      <4> QED
        BY <4>1, <4>2, <3>1, <2>4, <1>3
    <3> QED
      BY <3>2, <3>3
  <2>7. CASE turn = Len(Addr)
    BY <1>0, <1>2, <2>1, <2>2, <2>5, <2>6, <2>7
    DEF PlaceIInv, DownInv, BindInv, UnwindInv, UpInv, AllProbed, Within, Holds
  <2>8. CASE turn # Len(Addr)
    <3>1. /\ pc' = "bind" /\ turn' = turn + 1 /\ turn' - 1 = turn /\ turn' \in 1..Len(Addr)
      BY <1>0, <1>1, <2>1, <2>8, AmpsAre
    <3> QED
      BY <1>0, <1>2, <2>2, <2>5, <2>6, <3>1
      DEF PlaceIInv, DownInv, BindInv, UnwindInv, UpInv, AllProbed, Within, Holds
  <2> QED
    BY <2>7, <2>8
<1>4. CASE ~(index[turn] \in Slots /\ slot[index[turn]] = None)
  <2>1. pc' = "unwind" /\ turn' = turn - 1 /\ slot' = slot
    BY <1>0, <1>4 DEF Bind
  <2>2. PlaceTypeOK'
    BY <1>0, <1>1, <2>1, AmpsAre DEF PlaceIInv, PlaceTypeOK
  <2> QED
    BY <1>0, <1>2, <2>1, <2>2 DEF PlaceIInv, DownInv, BindInv, UnwindInv, UpInv, Within
<1> QED
  BY <1>3, <1>4

\* aw88399_hda_unbind: one amp less.
LEMMA UnwindStep ==
    ASSUME PlaceIInv, Unwind
    PROVE  PlaceIInv'
<1>0. /\ pc = "unwind" /\ pc' = "unwind" /\ turn > 0 /\ turn' = turn - 1 /\ Within(turn)
      /\ slot' = [s \in Slots |-> IF s = index[turn] /\ slot[s] = turn THEN None ELSE slot[s]]
      /\ UNCHANGED <<fw, swapped, probed, index, channel, pa_channel, codec, cause>>
  BY DEF Unwind, PlaceIInv, UnwindInv, machine, amp
<1>1. turn \in Nat /\ slot \in [Slots -> Amps \cup {None}]
  BY AmpsAre DEF PlaceIInv, PlaceTypeOK
<1>2. PlaceTypeOK'
  BY <1>0, <1>1, AmpsAre DEF PlaceIInv, PlaceTypeOK
<1>3. Told'
  BY <1>0 DEF PlaceIInv, Told, IndexOf, ChannelOf, PaChannelOf
<1>4. \A s \in Slots : slot'[s] # None => slot'[s] <= turn' /\ index'[slot'[s]] = s
  BY <1>0, <1>1, AmpsAre DEF Within, None
<1> QED
  BY <1>0, <1>2, <1>3, <1>4 DEF PlaceIInv, DownInv, BindInv, UnwindInv, UpInv, Within

\* The end of a failed probe or of a removal, and its begin.
LEMMA RemoveInv ==
    ASSUME PlaceIInv, Unwound \/ (\E k \in Amps \cup {None} : Remove(k)) \/ UNCHANGED placeVars
    PROVE  PlaceIInv'
<1>1. CASE Unwound
  <2>0. /\ pc = "unwind" /\ pc' = "down" /\ turn = 0
        /\ UNCHANGED <<fw, swapped, index, channel, pa_channel, slot, turn, cause>>
        /\ probed' = [k \in Amps |-> probed[k] /\ k # cause] /\ codec' = (codec /\ cause # None)
    BY <1>1 DEF Unwound, machine
  <2>1. PlaceTypeOK'
    BY <2>0, AmpsAre DEF PlaceIInv, PlaceTypeOK
  <2>2. Told'
    BY <2>0 DEF PlaceIInv, Told, IndexOf, ChannelOf, PaChannelOf
  <2> QED
    BY <2>0, <2>1, <2>2 DEF PlaceIInv, DownInv, BindInv, UnwindInv, UpInv, Within
<1>2. CASE \E k \in Amps \cup {None} : Remove(k)
  <2>0. /\ pc' = "unwind" /\ cause' \in Amps \cup {None}
        /\ UNCHANGED <<fw, swapped, probed, index, channel, pa_channel, codec, slot>>
        /\ (pc = "up" /\ turn' = Len(Addr)) \/ (pc = "down" /\ turn' = 0)
    BY <1>2 DEF Remove, machine, amp
  <2>1. PlaceTypeOK'
    BY <2>0, AmpsAre DEF PlaceIInv, PlaceTypeOK
  <2>2. Told'
    BY <2>0 DEF PlaceIInv, Told, IndexOf, ChannelOf, PaChannelOf
  <2>3. Within(turn)'
    BY <2>0 DEF PlaceIInv, UpInv, DownInv, Within
  <2> QED
    BY <2>0, <2>1, <2>2, <2>3 DEF PlaceIInv, DownInv, BindInv, UnwindInv, UpInv
<1>3. CASE UNCHANGED placeVars
  BY <1>3 DEF placeVars, machine, amp, PlaceIInv, PlaceTypeOK, Told, DownInv, BindInv, UnwindInv, UpInv,
              Within, Holds, AllProbed, IndexOf, ChannelOf, PaChannelOf
<1> QED
  BY <1>1, <1>2, <1>3

LEMMA NextIInv == PlaceIInv /\ [PlaceNext]_placeVars => PlaceIInv'
  BY AddInv, BindStep, UnwindStep, RemoveInv DEF PlaceNext

-----------------------------------------------------------------------------
(* The theorems.                                                           *)

\* aw88399_hda.c: the amps' numbers and the codec's array agree in every
\* reachable state.
THEOREM PlaceHolds == PlaceSpec => []PlaceIInv
  BY InitPlaceIInv, NextIInv, PTL DEF PlaceSpec

\* aw88399_hda_acpi_probe: every index and every channel is in range, whatever
\* address, _UID or property an amp has.
THEOREM TypeCorrect == PlaceSpec => []PlaceTypeOK
<1>1. PlaceIInv => PlaceTypeOK
  BY DEF PlaceIInv
<1> QED
  BY <1>1, PlaceHolds, PTL

\* comp_bind: an aggregate that is up has every amp in the array, however the
\* firmware numbers them.
THEOREM CompleteCorrect == PlaceSpec => []UpIsComplete
<1>1. PlaceIInv => UpIsComplete
  <2> SUFFICES ASSUME PlaceIInv, pc = "up", NEW k \in Amps PROVE \E s \in Slots : slot[s] = k
    BY DEF UpIsComplete
  <2>1. index[k] \in Slots
    BY PositionsAreSlots DEF PlaceIInv, PlaceTypeOK
  <2>2. slot[index[k]] = k
    BY AmpsAre DEF PlaceIInv, UpInv, Holds
  <2> QED
    BY <2>1, <2>2
<1> QED
  BY <1>1, PlaceHolds, PTL

\* aw88399_hda_bind, aw88399_hda_unbind: a refused bind or a removal leaves no
\* amp in the array.
THEOREM DownCorrect == PlaceSpec => []DownIsEmpty
<1>1. PlaceIInv => DownIsEmpty
  BY AmpsAre DEF PlaceIInv, DownInv, DownIsEmpty, Within, PlaceTypeOK, None
<1> QED
  BY <1>1, PlaceHolds, PTL

\* aw88399_hda_acpi_probe, aw88399_hda_init: two amps that are up are one left
\* and one right, swapped or not.
THEOREM SidesCorrect == PlaceSpec => []LeftAndRight
<1>1. PlaceIInv => LeftAndRight
  <2> SUFFICES ASSUME PlaceIInv, pc = "up", Len(Addr) = 2,
                      Known(fw[1].speaker_pos) <=> Known(fw[2].speaker_pos),
                      Known(fw[1].speaker_pos) => fw[1].speaker_pos # fw[2].speaker_pos
               PROVE  channel[1] # channel[2] /\ pa_channel[1] # pa_channel[2]
    BY DEF LeftAndRight
  <2>1. 1 \in Amps /\ 2 \in Amps
    BY AmpsAre
  <2>2. \A k \in {1, 2} : /\ index[k] = IndexOf(k) /\ channel[k] = ChannelOf(k)
                          /\ pa_channel[k] = PaChannelOf(k) /\ slot[index[k]] = k
                          /\ index[k] \in Positions
    BY <2>1, AmpsAre DEF PlaceIInv, Told, UpInv, AllProbed, Holds, PlaceTypeOK
  <2>3. IndexOf(1) # IndexOf(2)
    BY <2>2
  <2>4. \A c, d \in Positions : c # d => 1 - c # 1 - d
    BY DEF Positions, AW88399_HDA_MAX_AMPS
  <2>5. CASE Known(fw[1].speaker_pos)
    <3>1. fw[1].speaker_pos \in Positions /\ fw[2].speaker_pos \in Positions
      BY <2>5 DEF Known
    <3>2. ChannelOf(1) # ChannelOf(2)
      BY <2>4, <2>5, <3>1 DEF ChannelOf
    <3> QED
      BY <2>2, <2>5, <3>1, <3>2 DEF PaChannelOf
  <2>6. CASE ~Known(fw[1].speaker_pos)
    <3>1. ChannelOf(1) # ChannelOf(2)
      BY <2>2, <2>3, <2>4, <2>6 DEF ChannelOf
    <3> QED
      BY <2>2, <2>6, <3>1 DEF PaChannelOf
  <2> QED
    BY <2>5, <2>6
<1> QED
  BY <1>1, PlaceHolds, PTL

\* aw88399_hda.c: what the runs check of amps and array.
THEOREM PlaceCorrect == PlaceSpec => []PlaceInv
<1>1. PlaceTypeOK /\ UpIsComplete /\ DownIsEmpty /\ LeftAndRight => PlaceInv
  BY DEF PlaceInv
<1> QED
  BY <1>1, TypeCorrect, CompleteCorrect, DownCorrect, SidesCorrect, PTL

-----------------------------------------------------------------------------
(* The supported boards.                                                   *)

\* aw88399_hda_acpi_probe on a board that tells the driver nothing: the address
\* is the index, and the channel is the index or, on a swapped board, the other.
LEMMA BoardNumbers ==
    ASSUME Silent, swapped \in BOOLEAN, NEW k \in Amps
    PROVE  /\ IndexOf(k) = Addr[k] - AW88399_HDA_I2C_BASE_ADDR
           /\ ChannelOf(k) = (IF (Addr[k] = 52) = swapped THEN 1 ELSE 0)
           /\ PaChannelOf(k) = ChannelOf(k)
<1>1. Addr[k] \in {52, 53} /\ ~fw[k].companion /\ ~Known(fw[k].speaker_pos)
  BY DEF Silent
<1>2. IndexOf(k) = Addr[k] - AW88399_HDA_I2C_BASE_ADDR
  BY <1>1 DEF IndexOf, IndexFromI2c, Clamp, AW88399_HDA_I2C_BASE_ADDR, AW88399_HDA_MAX_AMPS
<1>3. ChannelOf(k) = IF swapped THEN 1 - IndexOf(k) ELSE IndexOf(k)
  BY <1>1 DEF ChannelOf
<1>4. ChannelOf(k) = (IF (Addr[k] = 52) = swapped THEN 1 ELSE 0)
  <2>1. CASE Addr[k] = 52
    BY <1>2, <1>3, <2>1 DEF AW88399_HDA_I2C_BASE_ADDR
  <2>2. CASE Addr[k] = 53
    BY <1>2, <1>3, <2>2 DEF AW88399_HDA_I2C_BASE_ADDR
  <2> QED
    BY <1>1, <2>1, <2>2
<1> QED
  BY <1>1, <1>2, <1>4 DEF PaChannelOf

\* aw88399_hda_bind refuses no amp of such a board: an occupied slot would be
\* that of an amp with the same address.
LEMMA BoardSlotFree ==
    ASSUME PlaceIInv, Silent, Bind
    PROVE  pc' # "unwind"
<1>1. turn \in 1..Len(Addr) /\ AllProbed /\ Within(turn - 1)
  BY DEF Bind, PlaceIInv, BindInv
<1>2. turn \in Amps
  BY <1>1, AmpsAre
<1>3. index[turn] \in Slots
  BY <1>2, PositionsAreSlots DEF PlaceIInv, PlaceTypeOK
<1>4. ASSUME slot[index[turn]] # None PROVE FALSE
  <2> DEFINE j == slot[index[turn]]
  <2>1. j \in Amps /\ j <= turn - 1 /\ index[j] = index[turn]
    BY <1>1, <1>3, <1>4 DEF Within, PlaceIInv, PlaceTypeOK
  <2>2. index[j] = IndexOf(j) /\ index[turn] = IndexOf(turn)
    BY <1>1, <1>2, <2>1 DEF PlaceIInv, Told, AllProbed
  <2> HIDE DEF j
  <2>3. Addr[j] - AW88399_HDA_I2C_BASE_ADDR = Addr[turn] - AW88399_HDA_I2C_BASE_ADDR
    <3>1. swapped \in BOOLEAN
      BY DEF PlaceIInv, PlaceTypeOK
    <3>2. \A k \in Amps : IndexOf(k) = Addr[k] - AW88399_HDA_I2C_BASE_ADDR
      BY <3>1, BoardNumbers
    <3> QED
      BY <1>2, <2>1, <2>2, <3>2
  <2>4. Addr[j] = Addr[turn]
    BY <1>2, <2>1, <2>3, AmpsAre DEF AW88399_HDA_I2C_BASE_ADDR
  <2>5. j = turn
    BY <1>2, <2>1, <2>4 DEF Silent
  <2> QED
    BY <1>1, <2>1, <2>5
<1> QED
  BY <1>3, <1>4 DEF Bind

\* aw88399_hda_acpi_probe, aw88399_hda_bind, aw88399_hda_init: on the supported
\* boards (amps at 0x34 and 0x35, no ACPI companion, no speaker position) every
\* bind goes through, and bridge and core agree on which amp is right, on a
\* swapped board the one at 0x35.
THEOREM BoardCorrect == PlaceSpec => BoardRight
<1>1. ASSUME PlaceIInv, PlaceNext PROVE BoardBinds
  <2> SUFFICES ASSUME Silent, pc = "bind" PROVE pc' # "unwind"
    BY DEF BoardBinds
  <2>1. Bind
    BY <1>1 DEF PlaceNext, MasterAdd, Unwind, Unwound, Probe, Remove
  <2> QED
    BY <1>1, <2>1, BoardSlotFree
<1>2. PlaceIInv => BoardPlaced
  <2> SUFFICES ASSUME PlaceIInv, Silent, pc = "up", NEW k \in Amps
               PROVE  /\ pa_channel[k] = channel[k]
                      /\ channel[k] = (IF (Addr[k] = 52) = swapped THEN 1 ELSE 0)
    BY DEF BoardPlaced
  <2>1. channel[k] = ChannelOf(k) /\ pa_channel[k] = PaChannelOf(k)
    BY DEF PlaceIInv, Told, UpInv, AllProbed
  <2> QED
    BY <2>1, BoardNumbers DEF PlaceIInv, PlaceTypeOK
<1>3. PlaceIInv /\ [PlaceNext]_placeVars => [BoardBinds]_placeVars
  BY <1>1
<1> QED
  BY <1>2, <1>3, PlaceHolds, PTL DEF PlaceSpec, BoardRight

=============================================================================
