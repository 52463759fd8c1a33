CONSTANTS
    c1 = c1
    c2 = c2
    c3 = c3
    Callers <- MCCallers
    FailThreshold = 2
    OpenFor = 2
    Probes = 2
    MaxTime = 6
    MaxRestarts = 2
SPECIFICATION Spec
SYMMETRY CallerSymmetry
INVARIANTS
    TypeOK
    ShapeInv
    ClosedIffShortStreak
    ProbeLedger
PROPERTIES
    OpenPeriodServed
    StuckForGood
