CONSTANTS
    w1 = w1
    w2 = w2
    s1 = s1
    r1 = r1
    r2 = r2
    h1 = h1
    NoRelay = NoRelay
    NoJob = NoJob
    NoResult = NoResult
    Workers <- OneWorker
    Handlers <- OneHandler
    Stores <- OneStore
    Ordered <- NoStores
    MaxInFlight <- TwoInFlight
    Switchable <- NoStores
    Relays <- TwoRelays
    Replayable <- TwoRelays
    Outcomes <- EachOutcome
    FailThreshold = 2
    OpenFor = 1
    Probes = 1
    Base = 1
    Cap = 1
    MaxAttempts = 2
    Unit = 1
    Rate = 1
    Burst = 1
    SkipDelay = 1
    PostTimeout = 1
    DLQMax = 1
    JournalMax = 1
    MaxTime = 0
    MaxRestarts = 1
    Urgent = FALSE
SPECIFICATION RecoverySpec
SYMMETRY Symmetry
INVARIANTS
    Conservation
    AttemptsCarriedOver
    DeadOnce
    JournalledSuccessIsFinal
    FileCoherent
    RecordedIsGone
PROPERTIES RefinesDurable
