SPECIFICATION Spec
CONSTANTS
    User = {u1, u2}
    Tenant = {t1, t2}
    Scope <- TwoScopes
    DefaultScope = "webdav"
    ScopeSets <- ApiOnly
    KeyId = {k1, k2, k3}
    Secret = {s1, s2, s3}
    Max = 1
    Worker = {w1, w2}
    None = None
SYMMETRY Symmetry
INVARIANTS
    TypeOK
    EndedSecretsRefused
    CapExceededOnlyByRaces
PROPERTY
    CopyOutlivesKeyOnlyByRace
