SPECIFICATION FairSpec
CONSTANTS
    Users = {u1}
    Emails = {e1}
    Passwords = {pw}
    Statuses = {"ACTIVE", "SUSPENDED"}
    Roles = {}
    RoleNames = {}
    Permissions = {}
    PermissionNames = {}
    Jtis = {j1, j2}
    Links = {t1}
    Requests = {r1, r2}
    Traffic <- AccountTraffic
    Faults = TRUE
    None = None
    Gone = Gone
PROPERTIES
    DeletionIsFinal
    DeletedIsForgotten
    CacheCatchesUp
