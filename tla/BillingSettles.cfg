SPECIFICATION FairSpec
CONSTANTS
    h1 = h1  h2 = h2  h3 = h3  r1 = r1  r2 = r2
    NoPay = NoPay  NoUser = NoUser  NoCache = NoCache
    Users = {u1}
    Payments = {p1}
    Handlers = {h1, h2}
    Replicas = {r1, r2}
    Home <- TwoReplicas
    Channels = {"alipay", "wechat"}
    TopUps = {3, 29}
    TruncatedCents = {29}
    Debits = {2}
    Recharges = {}
    FreeCredits = 2
    ChanCap = 1
    MaxChanges = 2
    MaxFaults = 2
PROPERTIES SettledIsNoticed TrailCompletes
CHECK_DEADLOCK FALSE
