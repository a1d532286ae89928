SPECIFICATION Spec
CONSTANTS
    music = music
    Profiles = {music}
    FirstProfile = music
    Torn = Torn
    RegData <- MCRegData
    ResetRegs <- MCResetRegs
    Retries = 3
    MaxFaults = 0
    Client = "hda"
PROPERTY StopPowersDown

