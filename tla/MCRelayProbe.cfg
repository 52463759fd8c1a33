CONSTANTS
    w1 = w1
    w2 = w2
    s1 = s1
    s2 = s2
    r1 = r1
    r2 = r2
    r3 = r3
    h1 = h1
    h2 = h2
    NoRelay = NoRelay
    NoJob = NoJob
    NoResult = NoResult
    Workers <- TwoWorkers
    Handlers <- OneHandler
    Stores <- FirstStore
    Ordered <- NoStores
    MaxInFlight <- TwoInFlight
    Switchable <- NoStores
    Relays <- TwoRelays
    Replayable <- NoRelays
    Outcomes <- UpOrBusy
    FailThreshold = 1
    OpenFor = 2
    Probes = 1
    Base = 1
    Cap = 1
    MaxAttempts = 2
    Unit = 4
    Rate = 1
    Burst = 1
    SkipDelay = 1
    PostTimeout = 1
    DLQMax = 1
    JournalMax = 1
    MaxTime = 3
    Urgent = FALSE
SPECIFICATION Spec
INVARIANT ProbeOutstanding
