------------------------------- MODULE Store -------------------------------
(***************************************************************************)
(* The state every worker of the API shares: the Postgres rows that decide *)
(* who a user is and what he may do, the two Redis keys kept per user, the *)
(* refresh tokens clients hold, and the requests being served.             *)
(*                                                                         *)
(* A request is a slot.  Each await on Postgres or Redis is one step of    *)
(* its slot; code between two awaits, and awaits on local work (bcrypt),   *)
(* belong to the step before them.  A $transaction commits in one step.    *)
(* Any number of requests pass through a slot, one after the other.        *)
(***************************************************************************)
EXTENDS FiniteSets

CONSTANTS
    Users,            \* ids of user rows
    Emails,           \* addresses an account may carry
    Passwords,        \* a stored hash is represented by what it verifies
    Statuses,         \* the values of UserStatus in use
    Roles,            \* ids of role rows
    RoleNames,        \* names a role may carry
    Permissions,      \* ids of permission rows
    PermissionNames,  \* names a permission may carry
    Jtis,             \* refresh-token ids, StrUtils.random(32)
    Links,            \* tokens in mailed links, StrUtils.random(255)
    Requests,         \* slots: the bound on requests served at one time
    Traffic,          \* the kinds of request the clients send
    Faults,           \* whether a request may die at an await
    None,             \* no row, no entry, no value
    Gone              \* the name of a role or permission row once deleted

Key == [kind : {"user", "refresh"}, sub : Users]

(* src/libs/common/src/cache/const.ts *)
UserCache(u) == [kind |-> "user", sub |-> u]
RefreshTokenCache(u) == [kind |-> "refresh", sub |-> u]

Account == [state : {"absent", "live", "deleted"}, email : Emails \cup {None},
            password : Passwords \cup {None}, status : Statuses,
            verified : BOOLEAN, roles : SUBSET Roles]

RoleRow == [name : RoleNames \cup {None, Gone}, grants : SUBSET Permissions]

PermissionRow == PermissionNames \cup {None, Gone}

(* A row of email_verifications or of reset_passwords: it is open until    *)
(* its time is up or usedAt is stamped.                                    *)
LinkRow == {row \in [kind : {"verify", "reset", None}, user : Users \cup {None},
                     state : {"absent", "open", "expired", "used"}] :
              row.state = "open" => row.user \in Users}

(* What UserInformation carries that authorization or the profile reads.   *)
Identity == [email : Emails \cup {None},
             roles : SUBSET (RoleNames \cup {None, Gone}),
             permissions : SUBSET PermissionRow]

Token == [sub : Users, jti : Jtis]

(* The requests that act on one account name it in id from their first step.*)
AccountPc == {"login.drop", "login.read", "login.cache", "login.issue",
              "refresh.read", "refresh.issue", "validate.read",
              "validate.cache", "password.write", "update.email",
              "update.roles", "update.write", "status.write", "remove.write",
              "verify.link", "reset.link", "verify.write", "reset.write"}

(* The await of each of these is the write of its account.                 *)
WritePc == {"password.write", "update.write", "status.write", "remove.write",
            "verify.write", "reset.write"}

(* The requests that hold a link.                                          *)
LinkPc == {"mail", "verify.write", "reset.write"}

RolePc == {"role.name", "role.permissions", "role.write", "role.holders",
           "role.collect", "role.delete"}

Pc == {"idle", "drop", "mail", "register.write", "user.roles", "user.write",
       "create.permissions", "create.write"} \cup AccountPc \cup RolePc

Request == [pc : Pc, id : Users \cup Roles \cup {None},
            name : Emails \cup RoleNames \cup {None},
            ids : SUBSET (Roles \cup Permissions), link : Links \cup {None},
            info : Identity \cup {None}, todo : SUBSET Key]

ASSUME NoneAssumption ==
    /\ None \notin Users \cup Emails \cup Passwords \cup Roles \cup RoleNames
    /\ None \notin Permissions \cup PermissionNames \cup Jtis \cup Requests
    /\ None \notin Links \cup Identity
    /\ Gone \notin RoleNames \cup PermissionNames \cup {None}

ASSUME StatusAssumption == "ACTIVE" \in Statuses

ASSUME FaultsAssumption == Faults \in BOOLEAN

VARIABLES
    account,       \* account[u]: the row of user u with its user_roles
    role,          \* role[g]: the row of role g with its role_permissions
    permission,    \* permission[p]: the name of permission p
    userCache,     \* userCache[u]: the identity under user:<u>, or None
    refreshCache,  \* refreshCache[u]: the jti under refresh_token:<u>, or None
    issued,        \* every refresh token ever issued; clients present any
    link,          \* link[t]: the row that holds token t, or NoLink
    mailed,        \* the tokens whose mail is queued; clients present any
    req            \* req[r]: the request slot r is serving

database == <<account, role, permission>>
redis == <<userCache, refreshCache>>
tokens == <<issued, link, mailed>>
vars == <<account, role, permission, userCache, refreshCache,
          issued, link, mailed, req>>

(* A user row, and a token row, not inserted yet.                          *)
Absent == [state |-> "absent", email |-> None, password |-> None,
           status |-> "ACTIVE", verified |-> FALSE, roles |-> {}]

NoLink == [kind |-> None, user |-> None, state |-> "absent"]

Idle == [pc |-> "idle", id |-> None, name |-> None, ids |-> {},
         link |-> None, info |-> None, todo |-> {}]

Existing(ids) == {g \in ids : role[g].name \in RoleNames}
ExistingPermissions == {p \in Permissions : permission[p] \in PermissionNames}
Holders(g) == {u \in Users : g \in account[u].roles}

(* What a slot holds by the time its request reaches an await.             *)
SlotOK(slot) ==
    /\ slot.pc \in AccountPc => slot.id \in Users
    /\ slot.pc \in RolePc => slot.id \in Roles
    /\ slot.pc \in {"login.cache", "validate.cache"} => slot.info \in Identity
    /\ slot.pc \in {"update.roles", "update.write", "register.write",
                    "user.roles", "user.write"} => slot.name \in Emails
    /\ slot.pc \in {"update.write", "user.write"} => slot.ids \subseteq Roles
    /\ slot.pc \in LinkPc => slot.link \in Links
    /\ slot.pc \in {"create.permissions", "role.permissions",
                    "create.write", "role.write"} => slot.name \in RoleNames
    /\ slot.pc \in {"create.write", "role.write"}
            => slot.ids \subseteq Permissions

TypeOK ==
    /\ account \in [Users -> Account]
    /\ role \in [Roles -> RoleRow]
    /\ permission \in [Permissions -> PermissionRow]
    /\ userCache \in [Users -> Identity \cup {None}]
    /\ refreshCache \in [Users -> Jtis \cup {None}]
    /\ issued \in SUBSET Token
    /\ link \in [Links -> LinkRow]
    /\ mailed \in SUBSET Links
    /\ req \in [Requests -> {slot \in Request : SlotOK(slot)}]

---------------------------------------------------------------------------
(* Slots *)

(* A client sends a request of the given kind and slot r takes it.         *)
Takes(r, kind) == kind \in Traffic /\ req[r] = Idle

Serve(r, rec) == req' = [req EXCEPT ![r] = rec]
Answer(r) == Serve(r, Idle)
Goto(r, pc) == Serve(r, [req[r] EXCEPT !.pc = pc])

(* The statement after a write awaits the deletion of keys, if any, and    *)
(* the response follows the last one.                                      *)
Invalidate(r, keys) ==
    Serve(r, IF keys = {} THEN Idle
                          ELSE [Idle EXCEPT !.pc = "drop", !.todo = keys])

---------------------------------------------------------------------------
(* UserRepository *)

IsLive(u) == account[u].state = "live"

IsActive(u) == IsLive(u) /\ account[u].verified /\ account[u].status = "ACTIVE"

(* findFirst on a column without a unique index: any live account with     *)
(* that address.                                                           *)
FindByMail(e) ==
    LET found == {u \in Users : IsLive(u) /\ account[u].email = e}
    IN  IF found = {} THEN {None} ELSE found

IdentityOf(u) ==
    [email |-> account[u].email,
     roles |-> {role[g].name : g \in account[u].roles},
     permissions |-> {permission[p] : p \in UNION {role[g].grants :
                                                    g \in account[u].roles}}]

(* Mutant: the query does not filter deletedAt.                            *)
UserInformationOfDeleted(u) ==
    IF account[u].verified /\ account[u].status = "ACTIVE"
    THEN IdentityOf(u) ELSE None

UserInformation(u) == IF IsActive(u) THEN IdentityOf(u) ELSE None

---------------------------------------------------------------------------
(* CacheService *)

SetUser(u, info) == userCache' = [userCache EXCEPT ![u] = info]
SetRefresh(u, jti) == refreshCache' = [refreshCache EXCEPT ![u] = jti]

Del(key) ==
    IF key.kind = "user"
    THEN SetUser(key.sub, None) /\ UNCHANGED refreshCache
    ELSE SetRefresh(key.sub, None) /\ UNCHANGED userCache

SessionKeys(u) == {UserCache(u), RefreshTokenCache(u)}

(* Promise.all starts the deletions together, so Redis may execute them in *)
(* any order, interleaved with the commands of other requests.             *)
DropKey(r) ==
    /\ req[r].pc = "drop"
    /\ \E key \in req[r].todo :
        /\ Del(key)
        /\ Invalidate(r, req[r].todo \ {key})
    /\ UNCHANGED <<database, tokens>>

---------------------------------------------------------------------------
(* Redis, and what may go wrong *)

(* Every entry is written with a time to live, and Redis drops it then.    *)
ExpireUser(u) ==
    /\ userCache[u] # None
    /\ SetUser(u, None)
    /\ UNCHANGED <<database, refreshCache, tokens, req>>

ExpireRefresh(u) ==
    /\ refreshCache[u] # None
    /\ SetRefresh(u, None)
    /\ UNCHANGED <<database, userCache, tokens, req>>

(* An await rejects, or the worker process dies: what the request has done *)
(* stays done, and the rest of its handler never runs.                     *)
Abort(r) ==
    /\ Faults
    /\ req[r].pc # "idle"
    /\ Answer(r)
    /\ UNCHANGED <<database, redis, tokens>>

=============================================================================
