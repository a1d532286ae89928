SPECIFICATION NumbersSpec
CONSTANTS
    Mute = 7
    Offsets = {0, 2}
    Isn <- IsnValues
    Vsn <- VsnValues
    Tem4 <- Tem4Values
    Garbage <- GarbageValues
    Init0 <- Init0Value
    ReMin = 4
    ReMax = 15
    Count = 5
    Polls = 3
    Readings <- ReadingValues
    Settings <- SettingValues
INVARIANT VcalkExtends
