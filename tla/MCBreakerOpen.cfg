CONSTANTS
    c1 = c1
    c2 = c2
    c3 = c3
    Callers <- MCCallers
    FailThreshold = 2
    OpenFor = 2
    Probes = 1
    MaxTime = 3
    MaxRestarts = 0
SPECIFICATION Spec
PROPERTY OpenHolds
