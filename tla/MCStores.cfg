SPECIFICATION Spec
CONSTANTS
    Pids = {p1, p2}
    Terms = {a, b, c}
    MaxTerms = 2
    Attempts = 2
    Batch = Batch
    Realtime = Realtime
    None = None
    Missing = Missing
    Invalid = Invalid
    MaxCommands = 4
    MaxMishaps = 1
SYMMETRY Symmetry
CHECK_DEADLOCK FALSE
INVARIANTS
    StaysLoadable
    UpdatesKept
    RunningMode
    NoTempLeft
