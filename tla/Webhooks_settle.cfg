SPECIFICATION FairSpec
CONSTANTS
    Hooks = {h1}
    Logs = {l1}
    Jobs = {j1, j2}
    Workers = {w1}
    Requests = {r1}
    RetryChoices = {2}
    DeactivateAfter = 1
    Faults = {"worker", "database", "request"}
    StallLimit = 1
    Nil = Nil
CHECK_DEADLOCK FALSE
INVARIANT UnsettledHasJob
PROPERTY DeliveriesSettle
