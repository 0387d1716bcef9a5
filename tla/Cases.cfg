SPECIFICATION PartSpec
CONSTANTS
    Clients = {c1, c2}
    Admins = {c1, c2}
    MaxVersion = 3
    Unset = Unset
    Absent = Unset
    Adapter = "HTTP"
    MaxDrafts = 2
    MaxFaults = 2
    Pollers = {w1}
    Requests = {r1}
    Failures = {f1}
    m1 = m1
    m2 = m2
    p1 = p1
    p2 = p2
    c1 = c1
    c2 = c2
    w1 = w1
    r1 = r1
    f1 = f1
SYMMETRY Symmetry
PROPERTY ResponsePromise
INVARIANT RecoveryPromise
PROPERTY CredentialPromise
