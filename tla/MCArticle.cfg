SPECIFICATION MCFairSpec
CONSTANTS
    r1 = r1
    r2 = r2
    q1 = q1
    u1 = u1
    c1 = c1
    c2 = c2
    Runs = {r1, r2}
    Readers = {q1}
    NoRun = NoRun
    Cap = 1
    MaxEvents = 1
    StoreEnabled = TRUE
    MaxRestarts = 1
    Urls = {u1}
    Requests = {c1, c2}
    Sched = Sched
    MaxAttempts = 3
    MaxRows = 2
    NoRow = NoRow
INVARIANTS
    ApiTypeOK
    SlotIsHeldByWorker
    NeverBackToRunning
    PublicationTypeOK
    PublishedIsOnSite
    PendingHasNoId
    OutcomeIsOwn
PROPERTIES
    SlotIsReleased
    SlotSpec
    RequestsReturn
