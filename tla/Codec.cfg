SPECIFICATION CodecSpec
CONSTANTS
    Fixups <- MCFixups
    Amps = {left, right}
    MaxProbes = 2
    MaxMoves = 4
    PowerMachines <- MCPowerMachines
    Polls = 2
    MaxSleeps = 2
    LedMachines <- MCLedMachines
    JackMachines <- MCJackMachines
    MaxJackMoves = 2
    StreamMachines <- MCStreamMachines
    Roots <- MCRoots
    Excused <- MCExcused
INVARIANTS ProbeInv PowerInv JackInv SpeakersSafe
PROPERTIES PowerRight LedsRight FixupsRight CodecSettles
CHECK_DEADLOCK FALSE
