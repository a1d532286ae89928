SPECIFICATION Spec
CONSTANTS
    left = left
    right = right
    Amps = {left, right}
    None = None
    MaxRemovals = 2
INVARIANTS SideInv Balanced IdleWhenSuspended SilentAfterClose
PROPERTIES PrepareInitialises AutoSuspends
