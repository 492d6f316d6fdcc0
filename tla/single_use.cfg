SPECIFICATION Spec
CONSTANTS
    Users = {u1}
    Emails = {e1}
    Passwords = {pw}
    Statuses = {"ACTIVE"}
    Roles = {}
    RoleNames = {}
    Permissions = {}
    PermissionNames = {}
    Jtis = {}
    Links = {t1}
    Requests = {r1, r2}
    Traffic <- RedeemTraffic
    Faults = TRUE
    None = None
    Gone = Gone
SYMMETRY Slots
PROPERTY EachLinkWorksOnce
