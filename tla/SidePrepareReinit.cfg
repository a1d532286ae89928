SPECIFICATION Spec
CONSTANTS
    left = left
    right = right
    Amps = {left, right}
    None = None
    MaxRemovals = 1
PROPERTY ResumeReinitialises
