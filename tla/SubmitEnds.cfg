SPECIFICATION FairSpec
CONSTANTS
    r1 = r1  r2 = r2  s1 = s1  u1 = u1  u2 = u2  c1 = c1
    NoRun = NoRun  NoSession = NoSession
    Runs = {r1, r2}
    Sessions = {s1}
    Users = {u1}
    SessionOf <- SharedSession
    UserOf <- OneUser
    Events = {"tokens"}
    Cancels = {c1}
    CancelUser <- ByFirst
    MaxConcurrency = 2
    FreeLimit = 1
    UsedToday = {1}
    StartCredits = 1
    MaxFaults = 1
INVARIANTS FreeOvershootBounded
PROPERTIES RunsEnd SessionIsReleased
CHECK_DEADLOCK FALSE
