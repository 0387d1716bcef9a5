SPECIFICATION Spec
CONSTANTS
    Workers = {w1, w2}
    Keys = {k1, k2}
    Events = {}
    None = None
    Grace = 2
    DispatchGrace = 2
    UnsentGrace = 1
    Lease = 1
    EventLease = 1
    MaxBackoff = 1
    IndeterminateAfter = 2
    ReviewAfter = 2
    MaxEventAttempts = 2
    Delays = "bounded"
    SendDelay = 0
    LookupDelay = 1
    MaxRequests = 2
    MaxAdmin = 0
    MaxCrashes = 1
    MaxFaults = 0
    k1 = k1
    k2 = k2
    w1 = w1
    w2 = w2
SYMMETRY Symmetry
INVARIANT SendAtMostOnce
INVARIANT OneAnswer
INVARIANT GraceRespected
PROPERTY ImplementsContract
