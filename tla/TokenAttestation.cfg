SPECIFICATION Spec
CONSTANTS
    s1 = s1  s2 = s2  x1 = x1  x2 = x2  i1 = i1  i2 = i2  q1 = q1  q2 = q2  q3 = q3
    w1 = w1  w2 = w2  none = none  factory = factory  rogue = rogue
    None = none
    Signers = {s1, s2}
    Txs = {x1}
    Ips = {i1}
    Requests = {q1, q2}
    Workers = {w1, w2}
    Emitters = {factory, rogue}
    Allowlist = {factory}
    Truths <- Launches
    MaxPendingPerIp = 1
    MaxPending = 2
    Batch = 2
    MaxFailures = 1
INVARIANTS
    PendingWithinCaps
    VerifiedIsProven
    ShownIsBest
PROPERTIES
    VerdictStands
    EventuallyDecided
CHECK_DEADLOCK FALSE
