SPECIFICATION Spec
CONSTANTS
    Users = {u1}
    Emails = {e1}
    Passwords = {pw}
    Statuses = {"ACTIVE"}
    Roles = {g1, g2}
    RoleNames = {n1, n2}
    Permissions = {p1, p2}
    PermissionNames = {q1, q2}
    Jtis = {}
    Links = {}
    Requests = {r1, r2}
    Traffic <- CatalogueTraffic
    Faults = TRUE
    None = None
    Gone = Gone
SYMMETRY Slots
INVARIANTS
    CatalogueIntegrity
