SPECIFICATION FairSpec
CONSTANTS
    Person = {ann, bob}
    Nobody = Nobody
    Worker = {w1, w2}
    Cooldown = 2
    Replicated = TRUE
INVARIANTS
    TypeOK
PROPERTIES
    LastAdminLostOnlyByLag
    BreakerCloses
