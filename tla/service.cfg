SPECIFICATION ServiceSpec
CONSTANTS
    NULL = NULL
    Requests = {r1, c1}
    Clients = {c1}
    Visitors = {v1}
    ExpiresHours = {1, NULL}
    Paths = {"p"}
    UrlDecoded <- PlainNames
    Options <- LinksWanted
    Backends = {"local_fs"}
    Sizes = {0, 1}
    MaxFiles = 1
    MaxRowId = 2
    MaxClock = 1
    MaxCrashes = 1
INVARIANTS
    ServiceTypeOK
    VisitorsGetPublished
    PrintedUrlWorks
