SPECIFICATION TeamsSpec
CONSTANTS
    TeamParts = {"workflows", "traced", "hub", "dispatch"}
    Instances = {i1, i2}
    MaxInstances = 1
    GraphSize = 2
    WfCrashes = 1
    WfTenants = {u1, u2}
    WfEditors = {e1, e2}
    HubJobs = {j1, j2}
    HubTenants = {u1}
    HubQuota = 1
    Waves = 2
    WaveWidth = 2
    SubRuns = {r1, r2}
    MaxResults = 1
    SubTurns = 1
INVARIANTS TeamsAreSound
PROPERTIES TeamsSettle
CHECK_DEADLOCK FALSE
