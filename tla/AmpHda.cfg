SPECIFICATION Spec
CONSTANTS
    music = music
    Profiles = {music}
    FirstProfile = music
    Torn = Torn
    RegData <- MCRegData
    ResetRegs <- MCResetRegs
    Retries = 3
    MaxFaults = 2
    Client = "hda"
INVARIANTS SilentWhenOff OnIsVerified DspOnPll DspBypassedWhenOff StopKeepsImages
PROPERTIES RamWrittenInBypass CallsReturn StartSucceeds KeepsContract
