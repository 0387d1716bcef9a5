SPECIFICATION PartSpec
CONSTANTS
    Recipients = {r1}
    Deliveries = {d1, d2}
    Workers = {w1, w2}
    None = None
    Endpoints = {"good", "mismatch", "refused", "unreadable"}
    MaxAttempts = 2
    MaxDeaths = 0
    MaxStalls = 1
    MaxReplays = 1
    Links = {l1, l2}
    BusinessEvents = {e1, e2}
    Nothing = None
    MaxOutboxFaults = 2
    Publishers = {p1, p2}
    Consumers = {c1, c2}
    Steps = {s1, s2}
    l1 = l1
    l2 = l2
    e1 = e1
    e2 = e2
    p1 = p1
    p2 = p2
    c1 = c1
    c2 = c2
    s1 = s1
    s2 = s2
    r1 = r1
    d1 = d1
    d2 = d2
    w1 = w1
    w2 = w2
SYMMETRY Symmetry
PROPERTY DeliveryPromise
PROPERTY InboundPromise
PROPERTY OutboxPromise
INVARIANT EndsAccounted
