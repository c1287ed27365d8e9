SPECIFICATION SteersSpec
CONSTANTS
    Messages = {a, b}
    MaxSteered = 3
CHECK_DEADLOCK FALSE
INVARIANTS AnsweredCopiesLeftOut
