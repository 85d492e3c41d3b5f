SPECIFICATION Spec
CONSTANTS
    CoReqs = {r1, r2, r3, r4}
    Parts = {"calls", "coalescer", "keys"}
    r1 = r1  r2 = r2  r3 = r3  r4 = r4  k1 = k1  k2 = k2
    KeyOf <- ThreeEqual
    CoKeys = {k1, k2}
    p1 = p1  p2 = p2  any = any  one = one  NoProvider = NoProvider
    Providers = {p1, p2}
    Models = {any, one}
    CandidatesOf <- Both
    Calls = {q1, q2}
    FailureThreshold = 2
    Limit = 1
    MaxTokens = 1
    MaxActual = 1
    MaxFaults = 3
    MaxPending = 1
    MaxCancels = 2
    NoReq = NoReq
    ApiKeys = {x1, x2}
    Getters = {g1, g2}
    KpThreshold = 2
    MaxEntries = 2
    MaxEdits = 2
    MaxKeyFailures = 3
    NoKey = NoKey
INVARIANTS SharingIsSound OpenSheds BudgetOvershootBounded
PROPERTIES CallersAreServed
CHECK_DEADLOCK FALSE
