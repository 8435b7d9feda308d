SPECIFICATION Spec
CONSTANTS
    Address = {a1, a2}
    Canonical = {a1}
    Lower = a1
    Upper = a2
    Owner <- OwnerOf
    Token = {t1, t2}
    Worker = {w1, w2}
    None = None
SYMMETRY Symmetry
INVARIANTS
    TypeOK
    LiveTokensIndexed
    ResetsRecorded
    ReplayOnlyByOverlap
PROPERTIES
    AnsweredSetEndsTokens
