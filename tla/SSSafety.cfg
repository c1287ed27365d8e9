SPECIFICATION Spec
CONSTANTS
    Procs = {1, 2, 3}
    Conversations = {1, 2}
    MaxInodes = 4
    MaxMoves = 3
    Teams <- OneCollectorTeams
CHECK_DEADLOCK FALSE
INVARIANTS NewestFound 
