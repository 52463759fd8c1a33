CONSTANTS
    w1 = w1
    w2 = w2
    s1 = s1
    s2 = s2
    r1 = r1
    r2 = r2
    r3 = r3
    h1 = h1
    h2 = h2
    NoRelay = NoRelay
    NoJob = NoJob
    NoResult = NoResult
    Workers <- TwoWorkers
    Handlers <- OneHandler
    Stores <- TwoStores
    Ordered <- FirstStore
    MaxInFlight <- TwoInFlight
    Switchable <- FirstStore
    Relays <- TwoRelays
    Replayable <- NoRelays
    Outcomes <- EachKind
    FailThreshold = 1
    OpenFor = 1
    Probes = 1
    Base = 1
    Cap = 1
    MaxAttempts = 2
    Unit = 5
    Rate = 2
    Burst = 1
    SkipDelay = 1
    PostTimeout = 1
    DLQMax = 1
    JournalMax = 1
    MaxTime = 2
    Urgent = FALSE
SPECIFICATION Spec
SYMMETRY Symmetry
INVARIANTS
    TypeOK
    Conservation
    InFlightExact
    AttemptsArePosts
PROPERTIES WedgedByDelayForGood PostsPaid
