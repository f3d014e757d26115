SPECIFICATION Spec
CONSTANTS
    NULL = NULL
    Requests = {r1}
    Paths = {"p"}
    Options <- ShortContent
    Backends = {"local_fs"}
    Sizes = {1}
    MaxFiles = 1
    MaxRowId = 3
    MaxClock = 2
    MaxCrashes = 0
INVARIANTS
    OneLiveLink
