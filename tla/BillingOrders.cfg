SPECIFICATION Spec
CONSTANTS
    h1 = h1  h2 = h2  h3 = h3  r1 = r1  r2 = r2
    NoPay = NoPay  NoUser = NoUser  NoCache = NoCache
    Users = {u1}
    Payments = {p1}
    Handlers = {h1, h2, h3}
    Replicas = {r1, r2}
    Home <- ThreeHandlers
    Channels = {"alipay", "paypal"}
    TopUps = {3}
    TruncatedCents = {29}
    Debits = {2}
    Recharges = {1}
    FreeCredits = 2
    ChanCap = 1
    MaxChanges = 2
    MaxFaults = 1
INVARIANTS TypeOK CreditedOnce FailedOrderNeverCharged PaidMeansSettled NoOverdraft LedgerReconciles
PROPERTIES ImplementsAccounts
CHECK_DEADLOCK FALSE
