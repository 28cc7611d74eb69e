SPECIFICATION ServicesSpec
CONSTANTS
    Templates = {welcome}
    Partials = {header}
    Files = {welcome, header}
    FileContent <- MCFileContent
    DefaultPartials = {header}
    DefaultContent = old
    Contents = {old, new}
    Ids = {i1, i2}
    Boots = {}
    Admins = {a1}
    UpdateOnStart = TRUE
    Slots = {s1, s2}
    Users = {u1, u2}
    RowIds = {k1, k2}
    Secrets = {t1, t2}
    Batches = {b1, b2}
    FactorRequests = {q1}
    Grants = {g1}
    EnvGrant = Nil
    MaxRows = 3
    BatchSize = 2
    Mails = {welcome}
    Emitted = {"bounced"}
    Opens = 1
    MailStatuses = {"pending", "sent", "opened"}
    QueuedMails = {welcome, lost}
    TemplateOf <- MCTemplateOf
    StoredTemplates = {welcome}
    WithPartial = {welcome}
    Attempts = 2
    NodeNames = {welcome}
    Defaults = {welcome}
    MailIds = {e1, e2}
    Recipients = 2
    Nil = Nil
INVARIANT TypesOK
INVARIANT CompiledWasCurrent
INVARIANT SyncedMeansActive
PROPERTY DeletedStaysDeleted
 
INVARIANT ServedOneByOne
PROPERTY ImplementsSecondFactor
INVARIANT ActiveBounded
PROPERTY DeactivatedStaysOff
INVARIANT FailedIsLastTry
PROPERTY TimesAreKept
INVARIANT EventBehindStatus
INVARIANT ReportsHold
INVARIANT RenderedWasStored
INVARIANT BatchCounted
CHECK_DEADLOCK FALSE
