SPECIFICATION HSpec
CONSTANTS
    Users = {u1}
    Emails = {e1}
    Passwords = {pw}
    Statuses = {"ACTIVE", "SUSPENDED"}
    Roles = {}
    RoleNames = {}
    Permissions = {}
    PermissionNames = {}
    Jtis = {j1, j2, j3}
    Links = {}
    Requests = {r1, r2}
    Traffic <- RotationTraffic
    Faults = FALSE
    None = None
    Gone = Gone
SYMMETRY Symmetry
PROPERTY EachTokenWorksOnce
