CONSTANTS
    Contexts = {mail, chat}
    Engines = {e1, e2}
    None = None
    MaxBegins = 2
    MaxMoves = 2
    MaxRequests = 2
SPECIFICATION Spec
INVARIANTS ClientLearns LiveEngine MethodRestored BeginEnds
PROPERTIES ImplementsDictation
CHECK_DEADLOCK FALSE
SYMMETRY Symmetry
