------------------------------ MODULE Backend ------------------------------
(***************************************************************************)
(* The API as a whole: requests of every kind interleave over the shared   *)
(* store, as they do on the workers PM2 starts, one per core.              *)
(***************************************************************************)
EXTENDS UserAdmin, RoleAdmin, Accounts

(* A seeded database: catalogue rows with distinct names, live accounts    *)
(* with distinct addresses, no entry in Redis, no token and no link.       *)
Init ==
    /\ permission \in [Permissions -> PermissionNames \cup {None}]
    /\ \A p, q \in ExistingPermissions :
            permission[p] = permission[q] => p = q
    /\ role \in [Roles -> {row \in [name : RoleNames \cup {None},
                                    grants : SUBSET ExistingPermissions] :
                              row.name = None => row.grants = {}}]
    /\ \A g, h \in Existing(Roles) : role[g].name = role[h].name => g = h
    /\ account \in [Users -> {Absent} \cup
                             [state : {"live"}, email : Emails,
                              password : Passwords, status : Statuses,
                              verified : BOOLEAN,
                              roles : SUBSET Existing(Roles)]]
    /\ \A u, v \in Users :
            IsLive(u) /\ account[u].email = account[v].email => u = v
    /\ userCache = [u \in Users |-> None]
    /\ refreshCache = [u \in Users |-> None]
    /\ issued = {}
    /\ link = [t \in Links |-> NoLink]
    /\ mailed = {}
    /\ req = [r \in Requests |-> Idle]

Step(r) ==
    \/ AuthStep(r) \/ AccountStep(r) \/ UserAdminStep(r)
    \/ RoleAdminStep(r) \/ DropKey(r)

Expire ==
    \/ \E u \in Users : ExpireUser(u) \/ ExpireRefresh(u)
    \/ \E t \in Links : ExpireLink(t)

Next ==
    \/ \E r \in Requests : Step(r) \/ Abort(r)
    \/ PermissionStep
    \/ Expire

Spec == Init /\ [][Next]_vars

(* A handler that has begun runs on: its awaits settle.  Redis drops every *)
(* entry when its time is up.  Clients need not send anything.             *)
Progress(r) == req[r].pc # "idle" /\ Step(r)

Fairness ==
    /\ \A r \in Requests : WF_vars(Progress(r))
    /\ \A u \in Users : WF_vars(ExpireUser(u)) /\ WF_vars(ExpireRefresh(u))

FairSpec == Spec /\ Fairness

---------------------------------------------------------------------------

(* Every role an account holds and every permission a role grants is a row *)
(* that exists, and no two rows of a kind share a name: an identity never  *)
(* resolves to a deleted or an ambiguous role, though both are checked in  *)
(* one await and written in a later one.                                   *)
CatalogueIntegrity ==
    /\ \A u \in Users : account[u].roles \subseteq Existing(Roles)
    /\ \A g \in Roles : role[g].grants \subseteq ExistingPermissions
    /\ \A g, h \in Existing(Roles) : role[g].name = role[h].name => g = h
    /\ \A p, q \in ExistingPermissions :
            permission[p] = permission[q] => p = q

(* A mail leads somewhere: the row of its token and the account it is for  *)
(* are committed before the job is queued (the comments in register and    *)
(* create), whatever rolls back or dies.                                   *)
LinksAreBacked ==
    \A t \in mailed :
        /\ link[t] # NoLink
        /\ account[link[t].user] # Absent

(* A verification token is not spent for nothing: usedAt is stamped in the *)
(* transaction that verifies the account, and nothing takes that back.     *)
SpentTokensVerify ==
    \A t \in Links :
        link[t].kind = "verify" /\ link[t].state = "used"
            => account[link[t].user].verified

(* Verification and reset tokens are single-use (SECURITY.md): no request  *)
(* redeems a token that has been spent by then.                            *)
EachLinkWorksOnce ==
    [][\A r \in Requests :
         /\ req[r].pc \in {"verify.write", "reset.write"}
         /\ VerifyWrite(r) \/ ResetWrite(r)
         => link[req[r].link].state # "used"]_vars

(* Once an account is deleted, Redis sooner or later holds nothing about   *)
(* it, and never does again: requests that were already past their checks  *)
(* may still write either key, but no new one can.                         *)
DeletedIsForgotten ==
    \A u \in Users :
        (account[u].state = "deleted")
            ~> [](userCache[u] = None /\ refreshCache[u] = None)

(* The requests on u that are past their check of his account, and go on   *)
(* to write his keys.                                                      *)
Past(u) ==
    {r \in Requests :
        /\ req[r].pc \in {"login.cache", "login.issue", "refresh.issue", "validate.cache"}
        /\ req[r].id = u}

(* Deletion is for good: no step takes it back, no request passes its check*)
(* of a deleted account, and once those that had passed it before are gone *)
(* nothing is written to Redis under its keys any more, only dropped.      *)
DeletionIsFinal ==
    [][\A u \in Users : account[u].state = "deleted" =>
         /\ account'[u].state = "deleted"
         /\ Past(u)' \subseteq Past(u)
         /\ Past(u) = {} => /\ userCache'[u] \in {userCache[u], None}
                            /\ refreshCache'[u] \in {refreshCache[u], None}]_vars

(* The cache catches up with the database: once a user's identity changes  *)
(* no more, what is cached of it is in the end up to date and stays so.    *)
(* Requests that read it before the last change may still write the old    *)
(* one, and a deletion may be lost with its worker; but an old entry runs  *)
(* out and no handler writes it anew.                                      *)
CacheCatchesUp ==
    \A u \in Users :
        <>[][UserInformation(u)' = UserInformation(u)]_vars
            => <>[](userCache[u] \in {None, UserInformation(u)})

=============================================================================
