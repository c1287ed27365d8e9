SPECIFICATION SpecAny
CONSTANTS
    c1 = c1
    c2 = c2
    other = other
    FollowUp = FollowUp
    Void = Void
    TurnTools = {tool}
    ServerRetries = 1
    LinkRetries = 0
    MaxNoProgress = 1
    MaxOutages = 1
    MaxHeldLosses = 1
    MaxQueue = 1
    MaxRuns = 3
    MaxRequests = 2
    Setups = {1}
    Native = {"plan"}
    Edits = {"e"}
    Tools = {"t", "u"}
    Bridged = {"b"}
    CursorOwn = {}
    MaxRows = 1
    Gen <- Generations
    Processes = {c1, c2, other}
    Files = {"f1", "f2"}
    MaxFiles = 1
    MaxWrites = 3
    MaxDeaths = 2
    Interrupted = FALSE
SYMMETRY Symmetry
CHECK_DEADLOCK FALSE
INVARIANTS StepsCounted EditKeepsFile SwitchesOnce 
PROPERTIES LoginRenewed 
