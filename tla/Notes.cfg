\* Any two operations, overlapping each other and one edit of the user.
SPECIFICATION FairSpec
CONSTANTS
    MaxRems = 17
    MaxCalls = 2
    Words <- MCWords
    Requests <- MCRequests
    Start <- MCStart
    Switches <- MCSwitches
    Daily = 3
    Editable = {1, 6}
    Edits = 1
INVARIANTS
    TypeOK
    FailedLeftNothing
PROPERTIES
    DoneAsAsked
    SiblingsKept
    PagesCoverAll
    EveryWalkEnds
CHECK_DEADLOCK FALSE
