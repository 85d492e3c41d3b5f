SPECIFICATION QueueFairSpec
CONSTANTS
    w1 = w1  w2 = w2  s1 = s1  s2 = s2  NoTask = NoTask
    Tasks = {t1, t2}
    Workers = {w1, w2}
    Slots = {s1, s2}
    Owner <- TwoWorkers
    Operators = {o1}
    MaxRetries = 1
    ProducerMaxLen = 2
    RetryMaxLen = 1
    MaxFaults = 2
    MaxOps = 1
INVARIANTS RunsAreBounded LossNeedsACause
PROPERTIES TasksSettle
CHECK_DEADLOCK FALSE
