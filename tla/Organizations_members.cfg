SPECIFICATION Spec
CONSTANTS
    u1 = u1
    Users = {u1, u2}
    Orgs = {o1}
    MemberIds = {m1, m2, m3}
    Invitations = {i1}
    InvitedTo <- MCInvitedTo
    InvitedAs <- MCInvitedAs
    InvitedBy <- MCInvitedBy
    Requests = {r1, r2}
    Nil = Nil
SYMMETRY IdSymmetry
INVARIANT GrantsBounded
PROPERTY RemovalKeepsAnOwner
PROPERTY RemovedStaysRemoved
CHECK_DEADLOCK FALSE
