SPECIFICATION SpecAny
CONSTANTS
    None = None
    s1 = s1
    s2 = s2
    s3 = s3
    h1 = h1
    Sessions = {s1}
    Hosts = {h1}
    HostOf <- OneHost
    ExecIds = {1}
    Pumps = {p1}
    Callers = {c1, c2}
    MaxOpen = 1
    MaxFrames = 2
    MaxRegistrations = 2
    MaxReplacements = 1
    Serialised = FALSE
    PumpReasons = {"turn-ended"}
CHECK_DEADLOCK FALSE
INVARIANTS ClaimsExclusive SoleWriter DeliveriesAccounted TurnsAccounted
PROPERTIES CapMet LapsedLeaseEnds
