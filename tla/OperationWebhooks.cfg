SPECIFICATION Spec
CONSTANTS
    Workers = {w1, w2}
    Keys = {k1}
    Events = {e1}
    None = None
    Grace = 2
    DispatchGrace = 2
    UnsentGrace = 1
    Lease = 1
    EventLease = 1
    MaxBackoff = 1
    IndeterminateAfter = 2
    ReviewAfter = 2
    MaxEventAttempts = 2
    Delays = "bounded"
    SendDelay = 0
    LookupDelay = 1
    MaxRequests = 1
    MaxAdmin = 1
    MaxCrashes = 0
    MaxFaults = 1
    e1 = e1
    k1 = k1
    w1 = w1
    w2 = w2
SYMMETRY WorkerSymmetry
INVARIANT PostedOnce
INVARIANT AlwaysScheduled
INVARIANT AppliedEventAgrees
PROPERTY DecisionStands
