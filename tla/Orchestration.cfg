SPECIFICATION Spec
CONSTANTS
    Parts = {"graphs", "chat", "bus", "redisbus", "loop", "engine", "plans"}
    GraphNodes = 3
    MaxEdges = 3
    ChatJobs = {j1, j2}
    ChatEngines = {g1, g2}
    ChatSessions = {s1, s2}
    CacheSize = 1
    ReadLimit = 3
    ChainLength = 1
    DbFailures = 1
    BusMessages = {m1, m2}
    BusTenants = {u1, u2}
    BusProcs = {p1}
    Elsewhere = Elsewhere
    Callbacks = {c1, c2}
    BusLog = 1
    BusLeaves = 1
    MaxCallbacks = 1
    QueryLimit = 2
    AllTenants = AllTenants
    MaxChunks = 2
    EngineRuns = {r1, r2}
    EngineTurns = 2
    TurnCalls = 2
    BusChannels = {u1, AllTenants}
    Caps = {ca, cb}
    GeneralChat = GeneralChat
    PlanTenants = {u1, u2}
    Everyone = Everyone
    MaxSubtasks = 2
    RegistryChanges = 3
INVARIANTS BusDelivers ConversationsKept GraphsAreOrdered RunsAreSound
CHECK_DEADLOCK FALSE
