CONSTANTS
    Copies = {A, B}
    Void = Void
    MaxTurns = 2
    MaxConversations = 2
    MaxSaves = 1
    Helpers = TRUE
    DiscardsFail = FALSE
    Crowded = TRUE
    MaxFaults = 1
SPECIFICATION Spec
INVARIANTS NeverResumesBehind
CHECK_DEADLOCK FALSE
