SPECIFICATION Spec
CONSTANTS
    music = music
    speech = speech
    Profiles = {music, speech}
    First = music
    Volumes = {0, 2}
    Loudest = 0
    Silent = 2
    Settings = {"cfg"}
    Cali = Cali
    Nobody = Nobody
    Retries = 2
INVARIANTS AsocInv
PROPERTIES StartsOnlyPlaying ReturnOrStuck
CHECK_DEADLOCK FALSE
