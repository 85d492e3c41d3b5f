SPECIFICATION Spec
CONSTANTS
    Parts = {"card", "summaries", "store", "manager", "rate", "cache", "vectors", "window", "bases"}
    c1 = c1  c2 = c2  u = u
    CardCalls = {c1, c2}
    CardItems = {a, b, c}
    CardStart = {a, b}
    CardLimit = 0
    CardOps = 2
    CardSeconds = 1
    CardHash <- SameHash
    SumCalls = {c1, c2}
    MaxTurns = 2
    SumOps = 3
    SkillUsers = {c1, c2}
    SkillNames = {m, n}
    OldTenant = {m}
    OldBase = {m}
    SkillOps = 3
    ManagedSkills = {p}
    Servers = {s1, s2}
    SkillCalls = {c1, c2}
    ManagerOps = 4
    Windows = {1, 2}
    WindowLength <- SecondAndMinute
    WindowLimit <- Limits
    RateSlots = {c1, c2}
    MaxRateTime = 3
    MaxAdmissions = 6
    a1 = a1  a2 = a2  b1 = b1
    CacheRequests <- FourRequests
    ClassOf <- TwoClasses
    Chats = {c1, c2}
    L1Capacity = 1
    MaxChats = 2
    NoAnswer = NoAnswer
    Indexers = {c1, c2}
    TextSizes = {4}
    ChunkSize = 3
    ChunkOverlap = 1
    WindowTokens = 8
    WindowThreshold = 6
    MessageKinds <- ThreeKinds
    SummaryTokens = {1, 4}
    MaxMessages = 7
    Users = {u}
    Bases = {b1}
    OwnerOf <- OwnerIsUser
    Requests = {c1, c2}
    Builds = {t1, t2}
    KbRetries = 1
    StartCredits = 2
    CostPerDoc = 1
    MaxDocs = 1
    KbMaxFaults = 1
    NoBase = NoBase
INVARIANTS BuildsAreSafe MemoryIsSound SkillsAreSound IndexIsSound CachesAreSound
PROPERTIES NothingIsTakenBack
SYMMETRY CallSymmetry
CHECK_DEADLOCK FALSE
