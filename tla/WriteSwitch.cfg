\* The SDK agent writes while the write switch is off.
SPECIFICATION Spec
CONSTANTS
    Calls = {c1, c2}
    None = None
    CacheSize = 1
    MaxChanges = 2
    Repeats = 1
    Inputs <- MCInputs
    Common <- MCCommon
SYMMETRY Symmetry
INVARIANT WritesNeedTheSwitch

CHECK_DEADLOCK FALSE
