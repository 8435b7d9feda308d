SPECIFICATION Spec
CONSTANTS
    Person = {p1, p2}
    Service = {svc}
    Role = {administrators, editors, file_services}
    Admins = administrators
    SystemRoles = {file_services}
    NewRoles = {editors}
    RoleSets = {{editors}, {file_services}}
    Spelling = {TRUE, FALSE}
    Worker = {w1, w2}
    None = None
SYMMETRY Symmetry
INVARIANTS
    TypeOK
    PurgeFollowsRemoval
PROPERTIES
    LastSeatGuarded
    WriteAheadAudit
    ImplementsLedger
    SetRolesExact
    EditKeepsMembership
\* A request that spells "administrators" otherwise, or two overlapping removals, can leave
\* no administrator: then no request of this model can arrive, and the tenant really stops.
CHECK_DEADLOCK FALSE
