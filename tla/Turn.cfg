SPECIFICATION SpecAny
CONSTANTS
    tool = tool
    top = top
    below = below
    FollowUp = FollowUp
    Nil = Nil
    Shells = {"a", "b", "c"}
    Commands = {"k", "l"}
    Background = {"a", "b"}
    MaxTracked = 2
    NoCall = "none"
CHECK_DEADLOCK FALSE
INVARIANTS CallsKeptApart
PROPERTIES StepEnds  HandoffEnds TurnsCome StoppedForGood LeftoversLeave LeaseFollowsWork
