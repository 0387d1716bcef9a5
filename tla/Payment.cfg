SPECIFICATION FairSpec
CONSTANTS
    Refunds = {r1, r2, r3}
    Amount = 3
    Hold = 2
    None = None
    r1 = r1
    r2 = r2
    r3 = r3
INVARIANT FinalizationNeverRefused
INVARIANT RefundsCovered
INVARIANT NoStatusDrift
INVARIANT EndsExclude
PROPERTY NeverReopens
PROPERTY HoldEnds
CHECK_DEADLOCK FALSE
