SPECIFICATION Spec
CONSTANTS
    AdmitTtl = 1
    RefuseTtl = 1
    MaxTime = 1
    Worker = {w1, w2}
    NoVerdict = NoVerdict
    Client = {c1}
    Trusted = {}
    Scope = {offline, roles, files}
    offline = offline
    roles = roles
    files = files
    Offline = offline
    Requested <- TwoOfThree
    Grant = {g1, g2, g3}
    NoClient = NoClient
    NoGrant = NoGrant
SYMMETRY Symmetry
INVARIANTS
    TypeOK
    SuspensionBites
    ResumptionBites
    ScopesApproved
    SuspendedGetNothing
PROPERTIES
    ImplementsGrantLedger
    RotationAfterAdmission
