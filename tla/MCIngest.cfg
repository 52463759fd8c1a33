\* Two handlers, two idempotency keys: the original, a retry of the same body with
\* a new nonce, its key reused for another body, its signature under the second
\* key, and a request refused early and one refused late.
CONSTANTS
    h1 = h1  h2 = h2  s1 = s1  s2 = s2  b1 = b1  b2 = b2
    n1 = n1  n2 = n2  k1 = k1  k2 = k2
    NoRecord = NoRecord
    NoRequest = NoRequest
    Handlers <- TwoHandlers
    Stores <- TwoStores
    Switchable <- SecondStore
    Bodies <- TwoBodies
    Nonces <- TwoNonces
    Keys <- TwoKeys
    Requests <- EveryRequest
    Matching <- MatchAll
    Second = 2
    Window = 1
    TTL = 7
    MaxLag = 1
    MaxFrames = 2
    MaxTime = 7
SPECIFICATION Spec
SYMMETRY Symmetry
INVARIANTS TypeOK OneFramePerKey ResentOnce NonceSpaced AnswersTruthful FanOutAccounted
PROPERTIES RefinesAcceptance
