CONSTANTS
    h1 = h1  s1 = s1  b1 = b1  n1 = n1  n2 = n2  k1 = k1
    NoRecord = NoRecord
    NoRequest = NoRequest
    Handlers <- OneHandler
    Stores <- OneStore
    Switchable = {}
    Bodies <- OneBody
    Nonces <- TwoNonces
    Keys <- OneKey
    Requests <- TwoRequests
    Matching <- MatchAll
    Second = 1
    Window = 1
    TTL = 4
    MaxLag = 1
    MaxFrames = 2
    MaxTime = 1
    MaxRestarts = 1
SPECIFICATION RecoverySpec
INVARIANT NotEnqueuedAgain
