SPECIFICATION AgentsSpec
CONSTANTS
    AgentParts = {"runs"}
    r1 = r1  r2 = r2  
    CallIds <- ThreeCalls
    HistoryIds <- TwoIds
    NoId = NoId
    HistoryLimit = 4
    MaxHistory = 5
    AgentRuns = {r1, r2}
    AgentSessions = {s1, s2}
    MaxTurns = 2
    CacheSessions = 1
    MaxDisconnects = 1
    NoRun = NoRun
INVARIANTS ExitsSave
CHECK_DEADLOCK FALSE
