SPECIFICATION CSpec
CONSTANTS
    Users = {u1}
    Emails = {e1}
    Passwords = {pw}
    Statuses = {"ACTIVE", "SUSPENDED"}
    Roles = {g1}
    RoleNames = {n1, n2}
    Permissions = {p1}
    PermissionNames = {q1, q2}
    Jtis = {j1}
    Links = {}
    Requests = {r1, r2}
    Traffic <- RenamingTraffic
    Faults = FALSE
    None = None
    Gone = Gone
SYMMETRY Symmetry
INVARIANT StaleOnlyAfterRace
