SPECIFICATION Spec
CONSTANTS
    Payouts = {p1}
    Subject = p1
    Workers = {w1, w2}
    None = None
    BankOutcomes = {"SUCCEEDED", "DECLINED", "PENDING"}
    Limit = 1
    NotFoundGrace = 3
    SentGrace = 1
    SentLease = 1
    Delays = "bounded"
    SendDelay = 1
    LookupDelay = 1
    MaxAttempts = 2
    MaxCrashes = 1
    MaxFaults = 1
    p1 = p1
    w1 = w1
    w2 = w2
SYMMETRY Symmetry
INVARIANT OneTransferPerAttempt
INVARIANT LedgerFollowsBank
INVARIANT EndTogether
PROPERTY ImplementsContract
