SPECIFICATION CSpec
CONSTANTS
    Users = {u1, u2}
    Emails = {e1, e2}
    Passwords = {pw}
    Statuses = {"ACTIVE", "SUSPENDED"}
    Roles = {g1}
    RoleNames = {n1}
    Permissions = {p1}
    PermissionNames = {q1}
    Jtis = {j1}
    Links = {}
    Requests = {r1, r2}
    Traffic <- IdentityTraffic
    Faults = TRUE
    None = None
    Gone = Gone
SYMMETRY Symmetry
INVARIANTS
    TypeOK
    StaleOnlyAfterRace
