SPECIFICATION Spec
CONSTANTS
    Clients = {c1, c2}
    Captures = {k1}
    Refunds = {r1}
    Payouts = {p1, p2}
    None = None
    Amounts = {1, 2}
    Guards = {"ROW_LOCK", "VERSION", "CONSTRAINT"}
    c1 = c1
    c2 = c2
    k1 = k1
    r1 = r1
    p1 = p1
    p2 = p2
SYMMETRY Symmetry
INVARIANT ReservationsCovered
INVARIANT LockHoldersNeverRefused
INVARIANT PayoutsAccounted
INVARIANT NoLockCycle
INVARIANT MerchantIsOwed
INVARIANT PendingBacked
