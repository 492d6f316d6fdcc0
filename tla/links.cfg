SPECIFICATION ASpec
CONSTANTS
    Users = {u1, u2}
    Emails = {e1, e2}
    Passwords = {pw}
    Statuses = {"ACTIVE"}
    Roles = {}
    RoleNames = {}
    Permissions = {}
    PermissionNames = {}
    Jtis = {}
    Links = {t1, t2}
    Requests = {r1, r2}
    Traffic <- LinkTraffic
    Faults = TRUE
    None = None
    Gone = Gone
SYMMETRY Symmetry
INVARIANTS
    LinksAreBacked
    SpentTokensVerify
    SharedOnlyAfterRace
