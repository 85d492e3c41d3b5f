SPECIFICATION Spec
CONSTANTS
    r1 = r1  r2 = r2  s1 = s1  u1 = u1  u2 = u2  c1 = c1
    NoRun = NoRun  NoSession = NoSession
    Runs = {r1, r2}
    Sessions = {s1}
    Users = {u1, u2}
    SessionOf <- SharedSession
    UserOf <- TwoUsers
    Events = {"text", "tokens"}
    Cancels = {c1}
    CancelUser <- ByFirst
    MaxConcurrency = 1
    FreeLimit = 1
    UsedToday = {0, 1}
    StartCredits = 0
    MaxFaults = 1
INVARIANTS TypeOK PermitsMatch CancelledByOwner CutRunsKeepTheirReply
CHECK_DEADLOCK FALSE
