SPECIFICATION GenSpec
CONSTANTS
    GenRequests = {a, b}
    ByClient = {b}
    Users = {u}
    Passwords = {p, q}
    Paths = {x}
    ValidHours <- SomeHours
    ContentFields <- SomeContent
    NoneText = NoneText
    Junk = Junk
    Absent = Absent
    HourSeconds = 2
    WordSize = 16
    Base = 2
    Fractions <- SomeFractions
    NULL = NULL
INVARIANTS
    GenTypeOK
    LinksComeFromAdmins
    LifetimesAsAsked
PROPERTIES
    DatesKeptToTheSecond
CHECK_DEADLOCK FALSE
