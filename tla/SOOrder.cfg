SPECIFICATION FairSpec
CONSTANTS
    None = None
    Calls = {1, 2, 3, 4}
    Execs = {10, 11, 20, 21, 30, 40}
    Plans <- BothPlans
CHECK_DEADLOCK FALSE
INVARIANTS HoldsTruthful
PROPERTIES ModelOrderKept 
