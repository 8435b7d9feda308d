SPECIFICATION KeysSpec
CONSTANTS
    Person = {p1, p2}
    Service = {svc}
    Role = {administrators, editors, file_services}
    Admins = administrators
    SystemRoles = {file_services}
    NewRoles = {editors}
    RoleSets = {{administrators}, {editors}}
    Spelling = {TRUE}
    Worker = {w1}
    None = None
INVARIANT LeftoverKeysFail
