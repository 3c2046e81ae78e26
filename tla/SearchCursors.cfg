CONSTANTS
    Calls = {c1, c2}
    Kinds = {"search", "search_by_tag"}
    Queries = {q1}
    Rems = {1, 2, 3}
    Priority <- MCPriority
    Ids = {i1, i2, i3}
    PageSizes = {1, 2}
    Found <- MCFound
    MaxActive = 2
    TTL = 1
    MaxTime = 2
    None = None
SPECIFICATION Spec
SYMMETRY Symmetry
INVARIANTS
    TypeOK
    EachResultOnce
PROPERTIES
    GoneOnlyIfOld
CHECK_DEADLOCK FALSE
