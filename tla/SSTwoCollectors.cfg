SPECIFICATION Spec
CONSTANTS
    Procs = {1, 2, 3}
    Conversations = {1, 2}
    MaxInodes = 3
    MaxMoves = 3
    Teams <- TwoCollectors
CHECK_DEADLOCK FALSE
INVARIANTS NewestSurvives
