SPECIFICATION SpecAny
CONSTANTS
    Runs = {"a", "b"}
    Sessions = {"s1", "s2", "s3"}
    NoSession = "none"
CHECK_DEADLOCK FALSE
PROPERTIES SessionsShared  FramesHandled
