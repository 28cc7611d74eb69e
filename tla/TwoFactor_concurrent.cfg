SPECIFICATION Spec
CONSTANTS
    Users = {u1}
    RowIds = {k1, k2}
    Secrets = {t1, t2}
    Batches = {b1, b2}
    BatchSize = 1
    Requests = {r1, r2}
    Nil = Nil
CHECK_DEADLOCK FALSE
SYMMETRY IdSymmetry
INVARIANT EnabledSecretsConfirmed
INVARIANT ReuseNeedsOverlap
PROPERTY OffStaysOff
