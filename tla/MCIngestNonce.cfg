CONSTANTS
    h1 = h1  h2 = h2  s1 = s1  s2 = s2  b1 = b1  b2 = b2
    n1 = n1  n2 = n2  k1 = k1  k2 = k2
    NoRecord = NoRecord
    NoRequest = NoRequest
    Handlers <- TwoHandlers
    Stores <- FirstStore
    Switchable <- NoStores
    Bodies <- TwoBodies
    Nonces <- TwoNonces
    Keys <- TwoKeys
    Requests <- OneSignature
    Matching <- MatchFirst
    Second = 2
    Window = 1
    TTL = 7
    MaxLag = 0
    MaxFrames = 2
    MaxTime = 9
SPECIFICATION Spec
SYMMETRY Symmetry
INVARIANT NonceOnceInWindow
