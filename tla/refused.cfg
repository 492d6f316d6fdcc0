SPECIFICATION CSpec
CONSTANTS
    Users = {u1}
    Emails = {e1}
    Passwords = {pw}
    Statuses = {"ACTIVE", "SUSPENDED"}
    Roles = {}
    RoleNames = {}
    Permissions = {}
    PermissionNames = {}
    Jtis = {j1}
    Links = {}
    Requests = {r1, r2}
    Traffic <- StatusTraffic
    Faults = FALSE
    None = None
    Gone = Gone
SYMMETRY Symmetry
INVARIANT InactiveIsRefused
