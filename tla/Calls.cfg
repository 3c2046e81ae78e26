\* Every input the tools, the commands and the developer tools can be given,
\* alone, and six common ones two at a time, with two changes of the switches
\* or of the connection and one repeated request.
SPECIFICATION Spec
CONSTANTS
    Calls = {c1, c2}
    None = None
    CacheSize = 1
    MaxChanges = 2
    Repeats = 1
    Inputs <- MCInputs
    Common <- MCCommon
SYMMETRY Symmetry
INVARIANTS
    TypeOK
    OfferedIsTaken
    EffectsAreDeclared
    RanOnce
CHECK_DEADLOCK FALSE
