SPECIFICATION FairSpec
CONSTANTS
    Mails = {m1, m2}
    NoTemplate = {m1}
    NoPartial = {m2}
    Workers = {w1}
    Attempts = 2
    FirstLimit = 1
    LimitStep = 1
    LastLimit = 2
    Faults <- AllFaults
    StallLimit = 1
    Nil = Nil
CHECK_DEADLOCK FALSE
INVARIANT UnsettledHasJob
INVARIANT PostedWithinLimit
INVARIANT PostedAtMostAttempts
PROPERTY OpenedIsFinal
PROPERTY MailsSettle
