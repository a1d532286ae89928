SPECIFICATION BringUpSpec
CONSTANTS
    I2cAddr <- Addresses
    Instances = 2
    BusType = "SMI_AUTO_DETECT"
    MaxProbe = 4
    I2cCounts <- Counts
    SpiCounts <- Counts
    MaxLoad = 2
    MaxFail = 2
    Addr <- MCAddr
    Firmware <- MCFirmware
INVARIANTS SmiInv SetupInv PairInv PlaceInv
PROPERTIES BoardRight AmpsAppear
CHECK_DEADLOCK FALSE
