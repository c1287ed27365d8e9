SPECIFICATION Spec
CONSTANTS
    None = None
    s1 = s1
    s2 = s2
    s3 = s3
    h1 = h1
    Sessions = {s1, s2}
    Hosts = {h1}
    HostOf <- SameHost
    ExecIds = {1}
    Pumps = {p1, p2}
    Callers = {}
    MaxOpen = 1
    MaxFrames = 1
    MaxRegistrations = 1
    MaxReplacements = 1
    Serialised = TRUE
    PumpReasons = {"turn-ended"}
CHECK_DEADLOCK FALSE
INVARIANTS TypeOK IndexesAgree LeaseWatched EndedRunsOwned
PROPERTIES OpeningSparesActiveRuns
SYMMETRY Symmetry
