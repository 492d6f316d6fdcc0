SPECIFICATION HSpec
CONSTANTS
    Users = {u1}
    Emails = {e1}
    Passwords = {pw1, pw2}
    Statuses = {"ACTIVE", "SUSPENDED"}
    Roles = {}
    RoleNames = {}
    Permissions = {}
    PermissionNames = {}
    Jtis = {j1, j2}
    Links = {t1}
    Requests = {r1, r2, r3}
    Traffic <- SessionTraffic
    Faults = TRUE
    None = None
    Gone = Gone
SYMMETRY Symmetry
INVARIANTS
    HTypeOK
    DeadTokensStayDead
    TokensNeedActiveAccount
PROPERTY KeepsContract
