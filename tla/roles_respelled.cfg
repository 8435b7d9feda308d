SPECIFICATION Spec
CONSTANTS
    Person = {p1, p2}
    Service = {svc}
    Role = {administrators, editors, file_services}
    Admins = administrators
    SystemRoles = {file_services}
    NewRoles = {editors}
    RoleSets = {{administrators}, {editors}}
    Spelling = {TRUE, FALSE}
    Worker = {w1}
    None = None
SYMMETRY Symmetry
INVARIANT AdministratorsRemain
