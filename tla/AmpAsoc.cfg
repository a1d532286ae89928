SPECIFICATION Spec
CONSTANTS
    music = music
    bypass = bypass
    Profiles = {music, bypass}
    FirstProfile = music
    Torn = Torn
    RegData <- MCRegData
    ResetRegs <- MCResetRegs
    Retries = 2
    MaxFaults = 2
    Client = "asoc"
INVARIANTS IInv CcoRestored OnlyWhilePlaying

