CONSTANTS
    w1 = w1
    w2 = w2
    s1 = s1
    s2 = s2
    r1 = r1
    r2 = r2
    r3 = r3
    h1 = h1
    h2 = h2
    NoRelay = NoRelay
    NoJob = NoJob
    NoResult = NoResult
    Workers <- TwoWorkers
    Handlers <- TwoHandlers
    Stores <- FirstStore
    Ordered <- NoStores
    MaxInFlight <- TwoInFlight
    Switchable <- NoStores
    Relays <- ThreeRelays
    Replayable <- ThreeRelays
    Outcomes <- EachKind
    FailThreshold = 5
    OpenFor = 1
    Probes = 1
    Base = 1
    Cap = 1
    MaxAttempts = 1
    Unit = 1
    Rate = 1
    Burst = 3
    SkipDelay = 1
    PostTimeout = 1
    DLQMax = 2
    JournalMax = 2
    MaxTime = 0
    Urgent = FALSE
SPECIFICATION Spec
SYMMETRY Symmetry
INVARIANTS
    Conservation
    DeadOnce
    JournalledSuccessIsFinal
PROPERTIES DeadLetterKept RefinesDelivery
