SPECIFICATION FairSpec
CONSTANTS
    Worker = {w1, w2}
    Codes = 2
    Limit <- Limits
    Window <- Windows
    CodeLife = 1
    Weight = 2
INVARIANTS
    TypeOK
    NewestCodeWorks
PROPERTIES
    ImplementsBudget
    LockoutEnds
