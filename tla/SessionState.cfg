SPECIFICATION SpecAny
CONSTANTS
    a = a
    b = b
    m1 = m1
    m2 = m2
    u = u
    v = v
    Void = Nil
    Copies = {m1, m2}
    MaxTurns = 2
    MaxConversations = 2
    MaxSaves = 2
    Helpers = FALSE
    DiscardsFail = TRUE
    Crowded = TRUE
    MaxFaults = 1
    Blobs = {a, b, u, v}
    Elsewhere = {v}
    Refs <- References
    MaxRuns = 2
    Readings = {4, 8, 9, 20}
    MaxBoundary = 3
    Plans = {"p"}
    Switches = {"s"}
    Questions = {"a"}
    MaxMessages = 2
    MaxLosses = 1
    Messages = {a, b}
    MaxSteered = 2
    MaxRewrites = 1
    MaxCopies = 2
    MaxConvs = 3
    MaxLane = 2
    MaxRewriteFaults = 1
    Ruled = {"system"}
    Named = {}
    MaxVersion = 3
    LosesTold = FALSE
    Notes = {"n1", "n2"}
    Spoken = {"n1"}
    MaxNoteRuns = 3
    MaxNoteSaves = 1
CHECK_DEADLOCK FALSE
INVARIANTS TurnsKept CheckpointServed SteersKept  
PROPERTIES JumpHeld PlansReviewedOnce
