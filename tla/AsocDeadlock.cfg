SPECIFICATION Spec
CONSTANTS
    music = music
    speech = speech
    Profiles = {music, speech}
    First = music
    Volumes = {0, 1, 2}
    Loudest = 0
    Silent = 2
    Settings = {"ng", "lp", "vol", "cfg"}
    Cali = Cali
    Nobody = Nobody
    Retries = 1
PROPERTIES ThreadsReturn
CHECK_DEADLOCK FALSE
