SPECIFICATION Spec
CONSTANTS
    a1 = a1  a2 = a2  w1 = w1  w2 = w2  w3 = w3  r1 = r1  r2 = r2  c1 = c1  c2 = c2
    none = none  short = short  long = long
    None = none
    Agents = {a1, a2}
    Wallets = {w1, w2, w3}
    Challenges = {c1, c2}
    Requests = {r1, r2}
    Names = {short, long}
    Candidates <- Collide
    MaxFailures = 1
INVARIANTS
    ChallengeServesOnce
    BindingsSerialise
    NamesIdentify
PROPERTIES
    EventuallyAnswered
CHECK_DEADLOCK FALSE
