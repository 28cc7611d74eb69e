SPECIFICATION Spec
CONSTANTS
    Hooks = {h1}
    Logs = {l1}
    Jobs = {j1, j2}
    Workers = {w1, w2}
    Requests = {r1}
    RetryChoices = {2}
    DeactivateAfter = 2
    Faults = {"worker"}
    StallLimit = 1
    Nil = Nil
CHECK_DEADLOCK FALSE
SYMMETRY IdSymmetry
INVARIANT FailuresBehindDeactivation
