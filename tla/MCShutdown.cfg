SPECIFICATION Spec
CONSTANTS
    Devices = {d1}
    Threads = {r1, r2}
    None = None
    EventCap = 1
    RawCap = 1
    MaxKeys = 2
    MaxUnplugs = 1
CHECK_DEADLOCK FALSE
INVARIANTS
    ManagerWillHear
    OneReader
PROPERTIES
    EndsOnceHeard
