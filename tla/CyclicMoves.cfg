\* Two moves, each under the other's note.
SPECIFICATION Spec
CONSTANTS
    MaxRems = 8
    MaxCalls = 2
    Words <- MCWords
    Requests <- MoveRequests
    Start <- MCStart
    Switches <- MCSwitches
    Daily = 3
    Editable = {}
    Edits = 0
PROPERTIES
    NoMoveBelowItself
CHECK_DEADLOCK FALSE
