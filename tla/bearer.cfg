SPECIFICATION Spec
CONSTANTS
    Jti = {j1, j2}
    Short = j1
    Long = j2
    Expiry <- ExpiryOf
    CacheTtl = 2
    MaxEntries = 1
    FailOpen = FALSE
    MaxTime = 5
    Worker = {w1, w2}
    NoJti = NoJti
    NoEntry = NoEntry
    Never = Never
SYMMETRY Symmetry
INVARIANTS
    TypeOK
    SignOutBound
    ExpiryBound
    CacheBounded
