--------------------------- MODULE Records_proofs ---------------------------
(***************************************************************************)
(* What holds of the rows of Backend, for every value of the constants:    *)
(* accounts, roles and permissions refer to rows that exist, a mailed link *)
(* leads to an account, and a spent verification token has verified its    *)
(* account.                                                                *)
(***************************************************************************)
EXTENDS Backend_proofs

(* Accounts and the catalogue *)


(* What an account may be given: the roles it had, or roles that exist.    *)
KeepsRoles(u) ==
    \/ account'[u].roles = account[u].roles
    \/ account'[u].roles \subseteq Existing(Roles)

(* What the requests on accounts, sessions and links do to the catalogue.  *)
AccountsOnly ==
    /\ UNCHANGED <<role, permission>>
    /\ \A u \in Users : KeepsRoles(u)

LEMMA AccountsOnlyKeeps ==
  ASSUME CatalogueIntegrity, AccountsOnly
  PROVE  CatalogueIntegrity'
  BY DEF CatalogueIntegrity, AccountsOnly, KeepsRoles, Existing,
         ExistingPermissions

(* A step that writes no account, role or permission.                      *)
LEMMA DatabaseKept ==
  ASSUME UNCHANGED database
  PROVE  AccountsOnly
  BY DEF AccountsOnly, KeepsRoles, database

(* Writing another field of one account keeps the roles of all.            *)
LEMMA FieldWritten ==
  ASSUME TypeOK, NEW v, NEW x,
         \/ account' = [account EXCEPT ![v].password = x]
         \/ account' = [account EXCEPT ![v].status = x]
         \/ account' = [account EXCEPT ![v].state = x]
         \/ account' = [account EXCEPT ![v].verified = x]
  PROVE  \A u \in Users : KeepsRoles(u)
<1> SUFFICES ASSUME NEW u \in Users PROVE account'[u].roles = account[u].roles
  BY DEF KeepsRoles
<1>1. account[u] \in Account
  BY DEF TypeOK
<1>2. /\ [account[u] EXCEPT !.password = x].roles = account[u].roles
      /\ [account[u] EXCEPT !.status = x].roles = account[u].roles
      /\ [account[u] EXCEPT !.state = x].roles = account[u].roles
      /\ [account[u] EXCEPT !.verified = x].roles = account[u].roles
  BY <1>1 DEF Account
<1>3. CASE u # v
  BY <1>3 DEF TypeOK
<1>4. CASE u = v
  BY <1>2, <1>4 DEF TypeOK
<1> QED
  BY <1>3, <1>4

LEMMA AuthKeepsDatabase ==
  ASSUME NEW r \in Requests, AuthStep(r)
  PROVE  UNCHANGED database
<1>1. CASE LoginBegin(r) \/ LoginDrop(r) \/ LoginRead(r) \/ LoginCache(r)
  BY <1>1 DEF LoginBegin, LoginDrop, LoginRead, ReadIdentity, LoginCache
<1>2. CASE LoginIssue(r) \/ RefreshIssue(r)
  BY <1>2 DEF LoginIssue, RefreshIssue, IssueTokens
<1>3. CASE RefreshBegin(r) \/ RefreshRead(r)
  BY <1>3 DEF RefreshBegin, RefreshRead
<1>4. CASE ValidateBegin(r) \/ ValidateRead(r) \/ ValidateCache(r)
  BY <1>4 DEF ValidateBegin, ValidateRead, ReadIdentity, ValidateCache
<1> QED
  BY <1>1, <1>2, <1>3, <1>4 DEF AuthStep

(* The new account is given roles that exist.                              *)
LEMMA InsertKeepsRoles ==
  ASSUME TypeOK, NEW r \in Requests, NEW status,
         NEW roles \in SUBSET Existing(Roles),
         InsertAccount(r, status, roles)
  PROVE  \A u \in Users : KeepsRoles(u)
<1>1. PICK v \in Users, p \in Passwords :
         account' = [account EXCEPT ![v] =
                       [state |-> "live", email |-> req[r].name,
                        password |-> p, status |-> status,
                        verified |-> FALSE, roles |-> roles]]
  BY DEF InsertAccount
<1> QED
  BY <1>1 DEF TypeOK, KeepsRoles

LEMMA AccountsKeepRoles ==
  ASSUME TypeOK, NEW r \in Requests, AccountStep(r)
  PROVE  AccountsOnly
<1>1. CASE \/ RegisterBegin(r) \/ UserCreateBegin(r) \/ UserCreateRoles(r)
           \/ ResendBegin(r) \/ ResendForBegin(r) \/ VerifyLinkWrite(r)
           \/ ForgotBegin(r) \/ ResetLinkWrite(r) \/ SendMail(r)
           \/ VerifyBegin(r) \/ ResetBegin(r)
  BY <1>1, DatabaseKept
     DEF RegisterBegin, UserCreateBegin, UserCreateRoles, ResendBegin,
         ResendForBegin, VerifyLinkWrite, ForgotBegin, ResetLinkWrite,
         InsertLink, SendMail, VerifyBegin, ResetBegin, Redeem
<1>2. CASE RegisterWrite(r)
  BY <1>2, InsertKeepsRoles DEF RegisterWrite, AccountsOnly
<1>3. CASE UserCreateWrite(r)
  <2>1. UNCHANGED <<role, permission>>
    BY <1>3 DEF UserCreateWrite
  <2>2. CASE UNCHANGED account
    BY <2>1, <2>2 DEF AccountsOnly, KeepsRoles
  <2>3. ASSUME req[r].ids = Existing(req[r].ids),
               NEW status, InsertAccount(r, status, req[r].ids)
        PROVE  AccountsOnly
    <3>1. req[r].pc = "user.write"
      BY <1>3 DEF UserCreateWrite
    <3>2. req[r].ids \in SUBSET Existing(Roles)
      BY <2>3, <3>1 DEF TypeOK, SlotOK, Existing
    <3> QED
      BY <2>1, <2>3, <3>2, InsertKeepsRoles DEF AccountsOnly
  <2> QED
    BY <1>3, <2>2, <2>3 DEF UserCreateWrite
<1>4. CASE VerifyWrite(r) \/ ResetWrite(r)
  BY <1>4, FieldWritten DEF VerifyWrite, ResetWrite, AccountsOnly
<1> QED
  BY <1>1, <1>2, <1>3, <1>4 DEF AccountStep

LEMMA UserAdminKeepsRoles ==
  ASSUME TypeOK, NEW r \in Requests, UserAdminStep(r)
  PROVE  AccountsOnly
<1> DEFINE u == req[r].id
<1>1. CASE \/ ChangePasswordBegin(r) \/ UpdatePasswordBegin(r)
           \/ UpdateStatusBegin(r) \/ RemoveBegin(r) \/ UpdateBegin(r)
           \/ UpdateEmail(r) \/ UpdateRoles(r)
  BY <1>1, DatabaseKept
     DEF ChangePasswordBegin, UpdatePasswordBegin, UpdateStatusBegin,
         RemoveBegin, UpdateBegin, FindsOne, UpdateEmail, UpdateRoles
<1>2. CASE PasswordWrite(r) \/ UpdateStatusWrite(r) \/ RemoveWrite(r)
  BY <1>2, FieldWritten
     DEF PasswordWrite, StorePassword, UpdateStatusWrite, RemoveWrite,
         AccountsOnly
<1>3. CASE UpdateWrite(r)
  <2>1. UNCHANGED <<role, permission>>
    BY <1>3 DEF UpdateWrite
  <2>2. CASE UNCHANGED account
    BY <2>1, <2>2 DEF AccountsOnly, KeepsRoles
  <2>3. ASSUME req[r].ids = Existing(req[r].ids), NEW status,
               account' = [account EXCEPT ![u] =
                             [@ EXCEPT !.email = req[r].name,
                                       !.status = status,
                                       !.roles = req[r].ids]]
        PROVE  AccountsOnly
    <3>1. req[r].pc = "update.write"
      BY <1>3 DEF UpdateWrite
    <3>2. req[r].ids \in SUBSET Existing(Roles) /\ u \in Users
      BY <2>3, <3>1 DEF TypeOK, SlotOK, Existing, AccountPc
    <3>3. [account[u] EXCEPT !.email = req[r].name, !.status = status,
                             !.roles = req[r].ids].roles = req[r].ids
      BY <3>2 DEF TypeOK, Account
    <3>4. \A v \in Users : account'[v] =
            IF v = u THEN [account[u] EXCEPT !.email = req[r].name,
                                             !.status = status,
                                             !.roles = req[r].ids]
                     ELSE account[v]
      BY <2>3, <3>2 DEF TypeOK
    <3> QED
      BY <2>1, <3>2, <3>3, <3>4 DEF AccountsOnly, KeepsRoles
  <2> QED
    BY <1>3, <2>2, <2>3 DEF UpdateWrite
<1> QED
  BY <1>1, <1>2, <1>3 DEF UserAdminStep

---------------------------------------------------------------------------

(* A role row is written with grants that exist, and under a name no other *)
(* row has, or under none when no account holds it.                        *)
LEMMA RoleWritten ==
  ASSUME TypeOK, CatalogueIntegrity, UNCHANGED <<account, permission>>,
         NEW g \in Roles, NEW row,
         role' = [role EXCEPT ![g] = row],
         row.grants \subseteq ExistingPermissions,
         \/ row.name \in RoleNames /\ ~Taken(row.name, Roles \ {g})
         \/ row.name \notin RoleNames /\ Holders(g) = {}
  PROVE  CatalogueIntegrity'
<1>1. \A h \in Roles : role'[h] = IF h = g THEN row ELSE role[h]
  BY DEF TypeOK
<1>2. \A h \in Existing(Roles) \ {g} : h \in Existing(Roles)'
  BY <1>1 DEF Existing
<1>3. \A u \in Users : account'[u].roles \subseteq Existing(Roles)'
  <2>1. CASE row.name \in RoleNames
    <3>1. g \in Existing(Roles)'
      BY <1>1, <2>1 DEF Existing
    <3> QED
      BY <1>2, <3>1 DEF CatalogueIntegrity
  <2>2. CASE Holders(g) = {}
    <3>1. \A u \in Users : g \notin account[u].roles
      BY <2>2 DEF Holders
    <3> QED
      BY <1>2, <3>1 DEF CatalogueIntegrity
  <2> QED
    BY <2>1, <2>2
<1>4. \A h \in Roles : role'[h].grants \subseteq ExistingPermissions'
  BY <1>1 DEF CatalogueIntegrity, ExistingPermissions
<1>5. \A h, k \in Existing(Roles)' : role'[h].name = role'[k].name => h = k
  <2>1. ASSUME NEW h \in Existing(Roles)', h # g, g \in Existing(Roles)'
        PROVE  role'[h].name # role'[g].name
    <3>1. row.name \in RoleNames
      BY <1>1, <2>1 DEF Existing
    <3>2. ~Taken(row.name, Roles \ {g})
      BY <3>1
    <3> QED
      BY <1>1, <2>1, <3>2 DEF Existing, Taken
  <2>2. ASSUME NEW h \in Existing(Roles)', NEW k \in Existing(Roles)',
               h # g, k # g, role'[h].name = role'[k].name
        PROVE  h = k
    BY <1>1, <2>2 DEF CatalogueIntegrity, Existing
  <2> QED
    BY <2>1, <2>2
<1>6. \A p, q \in ExistingPermissions' : permission'[p] = permission'[q] => p = q
  BY DEF CatalogueIntegrity, ExistingPermissions
<1> QED
  BY <1>3, <1>4, <1>5, <1>6 DEF CatalogueIntegrity

LEMMA RoleAdminKeepsIntegrity ==
  ASSUME TypeOK, CatalogueIntegrity, NEW r \in Requests, RoleAdminStep(r)
  PROVE  CatalogueIntegrity'
<1> DEFINE row == [name |-> req[r].name, grants |-> req[r].ids]
<1>1. row.name = req[r].name /\ row.grants = req[r].ids
  OBVIOUS
<1>2. req[r].pc \in {"create.write", "role.write"} => req[r].name \in RoleNames
  BY DEF TypeOK, SlotOK
<1>3. CASE \/ RoleCreateBegin(r) \/ RoleCreatePermissions(r)
           \/ RoleUpdateBegin(r) \/ RoleUpdateName(r) \/ RoleUpdatePermissions(r)
           \/ RoleUpdateHolders(r) \/ RoleRemoveBegin(r) \/ RoleRemoveCollect(r)
  <2>1. UNCHANGED database
    BY <1>3 DEF RoleCreateBegin, RoleCreatePermissions, RoleUpdateBegin,
         RoleUpdateName, RoleUpdatePermissions, RoleUpdateHolders,
         RoleRemoveBegin, RoleRemoveCollect, ChecksPermissions, FindsRole
  <2> QED
    BY <2>1, DatabaseKept, AccountsOnlyKeeps
<1>4. CASE RoleCreateWrite(r)
  <2>1. PICK g \in Roles :
          role' = IF Accepts(g, req[r].name, req[r].ids)
                  THEN [role EXCEPT ![g] = row] ELSE role
    BY <1>4 DEF RoleCreateWrite
  <2>2. UNCHANGED <<account, permission>>
    BY <1>4 DEF RoleCreateWrite
  <2>3. CASE Accepts(g, req[r].name, req[r].ids)
    <3>1. role' = [role EXCEPT ![g] = row]
      BY <2>1, <2>3
    <3>2. req[r].name \in RoleNames
      BY <1>2, <1>4 DEF RoleCreateWrite
    <3> HIDE DEF row
    <3> QED
      BY <1>1, <2>2, <2>3, <3>1, <3>2, RoleWritten DEF Accepts
  <2>4. CASE ~Accepts(g, req[r].name, req[r].ids)
    BY <2>1, <2>2, <2>4, DatabaseKept, AccountsOnlyKeeps DEF database
  <2> QED
    BY <2>3, <2>4
<1>5. CASE RoleUpdateWrite(r)
  <2> DEFINE g == req[r].id
  <2>1. UNCHANGED <<account, permission>>
    BY <1>5 DEF RoleUpdateWrite
  <2>2. CASE UNCHANGED role
    BY <2>1, <2>2, DatabaseKept, AccountsOnlyKeeps DEF database
  <2>3. CASE /\ g \in Existing(Roles)
             /\ Accepts(g, req[r].name, req[r].ids)
             /\ role' = [role EXCEPT ![g] = row]
    <3>1. req[r].name \in RoleNames
      BY <1>2, <1>5 DEF RoleUpdateWrite
    <3>2. g \in Roles
      BY <2>3 DEF Existing
    <3> HIDE DEF row
    <3> QED
      BY <1>1, <2>1, <2>3, <3>1, <3>2, RoleWritten DEF Accepts
  <2> QED
    BY <1>5, <2>2, <2>3 DEF RoleUpdateWrite
<1>6. CASE RoleRemoveDelete(r)
  <2> DEFINE g == req[r].id
             gone == [name |-> Gone, grants |-> {}]
  <2>1. UNCHANGED <<account, permission>>
    BY <1>6 DEF RoleRemoveDelete
  <2>2. CASE UNCHANGED role
    BY <2>1, <2>2, DatabaseKept, AccountsOnlyKeeps DEF database
  <2>3. CASE /\ g \in Existing(Roles) /\ Holders(g) = {}
             /\ role' = [role EXCEPT ![g] = gone]
    <3>1. gone.name \notin RoleNames /\ gone.grants \subseteq ExistingPermissions
      BY NoneAssumption
    <3>2. g \in Roles
      BY <2>3 DEF Existing
    <3> HIDE DEF gone
    <3> QED
      BY <2>1, <2>3, <3>1, <3>2, RoleWritten
  <2> QED
    BY <1>6, <2>2, <2>3 DEF RoleRemoveDelete
<1> QED
  BY <1>3, <1>4, <1>5, <1>6 DEF RoleAdminStep

---------------------------------------------------------------------------

(* The names of the permissions stay distinct, and those granted stay.     *)
PermissionsKept ==
    /\ \A p \in ExistingPermissions :
            p \in ExistingPermissions' \/ \A g \in Roles : p \notin role[g].grants
    /\ \A p, q \in ExistingPermissions' : permission'[p] = permission'[q] => p = q

LEMMA CreateKeepsPermissions ==
  ASSUME TypeOK, CatalogueIntegrity, NEW names \in SUBSET PermissionNames,
         PermissionCreate(names)
  PROVE  PermissionsKept
<1> DEFINE fresh == {n \in names : \A p \in Permissions : permission[p] # n}
           free == {p \in Permissions : permission[p] = None}
<1>1. PICK f \in [fresh -> free] :
        /\ \A m, n \in fresh : f[m] = f[n] => m = n
        /\ permission' = [p \in Permissions |->
                            IF \E n \in fresh : f[n] = p
                            THEN CHOOSE n \in fresh : f[n] = p
                            ELSE permission[p]]
  BY DEF PermissionCreate
<1>2. ASSUME NEW p \in Permissions, NEW n \in fresh, f[n] = p
      PROVE  permission'[p] = n
  <2>1. (CHOOSE m \in fresh : f[m] = p) \in fresh
        /\ f[CHOOSE m \in fresh : f[m] = p] = p
    BY <1>2
  <2> QED
    BY <1>1, <1>2, <2>1
<1>3. ASSUME NEW p \in Permissions, \A n \in fresh : f[n] # p
      PROVE  permission'[p] = permission[p]
  BY <1>1, <1>3
<1>4. \A p \in ExistingPermissions : \A n \in fresh : f[n] # p
  BY <1>1, NoneAssumption DEF ExistingPermissions
<1>5. \A p \in ExistingPermissions : p \in ExistingPermissions'
  BY <1>3, <1>4 DEF ExistingPermissions
<1>6. ASSUME NEW p \in ExistingPermissions', NEW q \in ExistingPermissions',
             permission'[p] = permission'[q]
      PROVE  p = q
  <2>1. p \in Permissions /\ q \in Permissions
    BY DEF ExistingPermissions
  <2>2. CASE (\E n \in fresh : f[n] = p) /\ (\E n \in fresh : f[n] = q)
    BY <1>2, <1>6, <2>1, <2>2
  <2>3. CASE (\E n \in fresh : f[n] = p) /\ ~(\E n \in fresh : f[n] = q)
    BY <1>2, <1>3, <1>6, <2>1, <2>3
  <2>4. CASE ~(\E n \in fresh : f[n] = p) /\ (\E n \in fresh : f[n] = q)
    BY <1>2, <1>3, <1>6, <2>1, <2>4
  <2>5. CASE ~(\E n \in fresh : f[n] = p) /\ ~(\E n \in fresh : f[n] = q)
    <3>1. permission'[p] = permission[p] /\ permission'[q] = permission[q]
      BY <1>3, <2>1, <2>5
    <3>2. p \in ExistingPermissions /\ q \in ExistingPermissions
      BY <2>1, <3>1 DEF ExistingPermissions
    <3> QED
      BY <1>6, <3>1, <3>2 DEF CatalogueIntegrity
  <2> QED
    BY <2>2, <2>3, <2>4, <2>5
<1> QED
  BY <1>5, <1>6 DEF PermissionsKept

LEMMA PermissionKeepsIntegrity ==
  ASSUME TypeOK, CatalogueIntegrity, PermissionStep
  PROVE  CatalogueIntegrity'
<1>1. UNCHANGED <<account, role>>
  BY DEF PermissionStep, PermissionCreate, PermissionUpdate, PermissionRemove
<1>2. PermissionsKept
  <2>1. ASSUME NEW p \in Permissions, NEW name \in PermissionNames,
               PermissionUpdate(p, name)
        PROVE  PermissionsKept
    <3>1. \A q \in Permissions :
            permission'[q] = IF q = p THEN name ELSE permission[q]
      BY <2>1 DEF PermissionUpdate, TypeOK
    <3>2. \A q \in Permissions \ {p} : permission[q] # name
      BY <2>1 DEF PermissionUpdate
    <3> QED
      BY <3>1, <3>2 DEF PermissionsKept, CatalogueIntegrity, ExistingPermissions
  <2>2. ASSUME NEW p \in Permissions, PermissionRemove(p)
        PROVE  PermissionsKept
    <3>1. \A q \in Permissions :
            permission'[q] = IF q = p THEN Gone ELSE permission[q]
      BY <2>2 DEF PermissionRemove, TypeOK
    <3>2. \A g \in Roles : p \notin role[g].grants
      BY <2>2 DEF PermissionRemove
    <3> QED
      BY <3>1, <3>2, NoneAssumption
         DEF PermissionsKept, CatalogueIntegrity, ExistingPermissions
  <2> QED
    BY <2>1, <2>2, CreateKeepsPermissions DEF PermissionStep
<1> QED
  BY <1>1, <1>2
     DEF PermissionsKept, CatalogueIntegrity, Existing

---------------------------------------------------------------------------

LEMMA NextKeepsIntegrity ==
  ASSUME TypeOK, CatalogueIntegrity, [Next]_vars
  PROVE  CatalogueIntegrity'
<1>1. ASSUME NEW r \in Requests, AuthStep(r) \/ DropKey(r) \/ Abort(r)
      PROVE  UNCHANGED database
  BY <1>1, AuthKeepsDatabase DEF DropKey, Abort
<1>2. CASE Expire
  BY <1>2, DatabaseKept, AccountsOnlyKeeps
     DEF Expire, ExpireUser, ExpireRefresh, ExpireLink
<1>3. CASE UNCHANGED vars
  BY <1>3, DatabaseKept, AccountsOnlyKeeps DEF vars, database
<1>4. ASSUME NEW r \in Requests, Step(r) \/ Abort(r)
      PROVE  CatalogueIntegrity'
  BY <1>1, <1>4, DatabaseKept, AccountsKeepRoles, UserAdminKeepsRoles,
     AccountsOnlyKeeps, RoleAdminKeepsIntegrity
     DEF Step
<1> QED
  BY <1>2, <1>3, <1>4, PermissionKeepsIntegrity DEF Next

LEMMA InitIntegrity == Init => CatalogueIntegrity
<1> SUFFICES ASSUME Init PROVE CatalogueIntegrity
  OBVIOUS
<1>1. \A u \in Users : account[u].roles \subseteq Existing(Roles)
  BY DEF Init, Absent
<1>2. \A g \in Roles : role[g].grants \subseteq ExistingPermissions
  BY DEF Init
<1> QED
  BY <1>1, <1>2 DEF Init, CatalogueIntegrity

(* Whatever interleaves, an account never holds a role and a role never    *)
(* grants a permission that is not a row, and names stay unique: what the  *)
(* handlers checked awaits ago is checked again where it is written.       *)
THEOREM RolesStayWhole == Spec => []CatalogueIntegrity
<1>1. Init => CatalogueIntegrity
  BY InitIntegrity
<1>2. TypeOK /\ CatalogueIntegrity /\ [Next]_vars => CatalogueIntegrity'
  BY NextKeepsIntegrity
<1> QED
  BY <1>1, <1>2, TypeCorrect, PTL DEF Spec

---------------------------------------------------------------------------
(* Links *)


(* The awaits at which a request relies on a link or on its account.       *)
LinkedPc == {"mail", "verify.link", "reset.link", "verify.write", "reset.write"}

Inserted(u) == account[u].state # "absent"
Written(t) == link[t].state # "absent"

(* What the checks before those awaits have established.                   *)
Backed(r) ==
    /\ req[r].pc = "mail" => Written(req[r].link)
    /\ req[r].pc \in {"verify.link", "reset.link"} => Inserted(req[r].id)
    /\ req[r].pc = "verify.write" =>
            /\ Written(req[r].link)
            /\ link[req[r].link].kind = "verify"
            /\ link[req[r].link].user = req[r].id
    /\ req[r].pc = "reset.write" =>
            /\ Written(req[r].link)
            /\ link[req[r].link].kind = "reset"

(* The inductive invariant: a link is written for an account that is there,*)
(* queued once it is written, and spent by the step that verifies.         *)
LinksInv ==
    /\ \A t \in Links :
            Written(t) => link[t].user \in Users /\ Inserted(link[t].user)
    /\ \A t \in mailed : Written(t)
    /\ SpentTokensVerify
    /\ \A r \in Requests : Backed(r)

(* No step takes back an account, a verification or a link.                *)
AccountsPersist ==
    \A u \in Users : Inserted(u) =>
        /\ account'[u].state # "absent"
        /\ account[u].verified => account'[u].verified

LinksPersist ==
    \A t \in Links : Written(t) =>
        /\ link'[t].state # "absent"
        /\ link'[t].kind = link[t].kind
        /\ link'[t].user = link[t].user

OthersWait(r) == \A q \in Requests \ {r} : req'[q] = req[q]

(* A step that touches no link and enters none of those awaits.            *)
Apart(r) ==
    /\ UNCHANGED <<link, mailed>>
    /\ AccountsPersist
    /\ OthersWait(r)
    /\ req'[r].pc \notin LinkedPc

(* The awaits at which it relies on a link or on an address it looked up.  *)
ReliantPc == LinkedPc \cup {"register.write", "user.roles", "user.write",
                            "update.roles", "update.write"}

(* A step that has nothing to do with accounts, links or addresses.        *)
Aside(r) ==
    /\ UNCHANGED <<account, link, mailed>>
    /\ OthersWait(r)
    /\ req'[r].pc \notin ReliantPc

(* A slot's fields are in the sets its await calls for.                    *)
LEMMA LinkedSlot ==
  ASSUME TypeOK, NEW r \in Requests
  PROVE  /\ req[r].pc \in LinkPc => req[r].link \in Links
         /\ req[r].pc \in AccountPc => req[r].id \in Users
  BY DEF TypeOK, SlotOK

(* What a request has established outlives the steps of the others.        *)
LEMMA StaysBacked ==
  ASSUME TypeOK, NEW q \in Requests, Backed(q), req'[q] = req[q],
         AccountsPersist, LinksPersist
  PROVE  Backed(q)'
<1>1. req[q].pc \in {"mail", "verify.write", "reset.write"}
        => req[q].link \in Links
  BY LinkedSlot DEF LinkPc
<1>2. req[q].pc \in {"verify.link", "reset.link"} => req[q].id \in Users
  BY LinkedSlot DEF AccountPc
<1> QED
  BY <1>1, <1>2 DEF Backed, AccountsPersist, LinksPersist, Inserted, Written

LEMMA ApartKeeps ==
  ASSUME TypeOK, LinksInv, NEW r \in Requests, Apart(r)
  PROVE  LinksInv'
<1>1. LinksPersist
  BY DEF Apart, LinksPersist, Written
<1>2. \A q \in Requests : Backed(q)'
  <2>1. Backed(r)'
    BY DEF Apart, Backed, LinkedPc
  <2>2. ASSUME NEW q \in Requests \ {r} PROVE Backed(q)'
    BY <1>1, <2>2, StaysBacked DEF Apart, OthersWait, LinksInv
  <2> QED
    BY <2>1, <2>2
<1>3. \A t \in Links :
        Written(t)' => link'[t].user \in Users /\ account'[link'[t].user].state # "absent"
  BY DEF Apart, LinksInv, Written, AccountsPersist, Inserted
<1>4. SpentTokensVerify'
  BY DEF Apart, LinksInv, SpentTokensVerify, AccountsPersist, Written, Inserted
<1>5. \A t \in mailed' : Written(t)'
  BY DEF Apart, LinksInv, Written
<1> QED
  BY <1>2, <1>3, <1>4, <1>5 DEF LinksInv, Inserted

---------------------------------------------------------------------------

LEMMA Kept ==
  ASSUME UNCHANGED account
  PROVE  AccountsPersist
  BY DEF AccountsPersist, Inserted

LEMMA AsideApart ==
  ASSUME NEW r \in Requests, Aside(r)
  PROVE  Apart(r)
  BY Kept DEF Aside, Apart, ReliantPc

(* Writing one field of an account takes neither it nor its verification.  *)
LEMMA RowWritten ==
  ASSUME TypeOK, NEW v, NEW x,
         \/ account' = [account EXCEPT ![v].password = x]
         \/ account' = [account EXCEPT ![v].status = x]
         \/ account' = [account EXCEPT ![v].state = "deleted"]
         \/ account' = [account EXCEPT ![v].verified = TRUE]
  PROVE  AccountsPersist
<1> SUFFICES ASSUME NEW u \in Users, Inserted(u)
             PROVE  /\ account'[u].state # "absent"
                    /\ account[u].verified => account'[u].verified
  BY DEF AccountsPersist
<1>1. account[u] \in Account
  BY DEF TypeOK
<1>2. /\ [account[u] EXCEPT !.password = x].state = account[u].state
      /\ [account[u] EXCEPT !.password = x].verified = account[u].verified
      /\ [account[u] EXCEPT !.status = x].state = account[u].state
      /\ [account[u] EXCEPT !.status = x].verified = account[u].verified
      /\ [account[u] EXCEPT !.state = "deleted"].state = "deleted"
      /\ [account[u] EXCEPT !.state = "deleted"].verified = account[u].verified
      /\ [account[u] EXCEPT !.verified = TRUE].state = account[u].state
      /\ [account[u] EXCEPT !.verified = TRUE].verified
  BY <1>1 DEF Account
<1>3. CASE u # v
  BY <1>3 DEF TypeOK, Inserted
<1>4. CASE u = v
  BY <1>2, <1>4 DEF TypeOK, Inserted
<1> QED
  BY <1>3, <1>4

LEMMA AuthAside ==
  ASSUME TypeOK, NEW r \in Requests, AuthStep(r)
  PROVE  Aside(r)
<1>1. UNCHANGED <<account, link, mailed>>
  BY DEF AuthStep, LoginBegin, LoginDrop, LoginRead, ReadIdentity, LoginCache,
         LoginIssue, RefreshBegin, RefreshRead, RefreshIssue, IssueTokens,
         ValidateBegin, ValidateRead, ValidateCache, database, tokens
<1>2. ASSUME NEW pc \in Pc \ ReliantPc, NEW x,
             \/ Answer(r)
             \/ Serve(r, [Idle EXCEPT !.pc = pc, !.id = x])
             \/ Serve(r, [req[r] EXCEPT !.pc = pc, !.info = x])
             \/ Serve(r, [req[r] EXCEPT !.pc = pc])
      PROVE  OthersWait(r) /\ req'[r].pc \notin ReliantPc
  <2>1. [req[r] EXCEPT !.pc = pc, !.info = x].pc = pc
        /\ [req[r] EXCEPT !.pc = pc].pc = pc
    BY DEF TypeOK, Request
  <2>2. CASE Answer(r)
    BY <2>2, Answered DEF OthersWait, ReliantPc, LinkedPc
  <2>3. CASE Serve(r, [Idle EXCEPT !.pc = pc, !.id = x])
    BY <2>3, Begun DEF OthersWait
  <2> QED
    BY <1>2, <2>1, <2>2, <2>3, Served DEF OthersWait
<1>3. {"login.drop", "login.read", "login.cache", "login.issue", "refresh.read",
       "refresh.issue", "validate.read", "validate.cache"} \subseteq Pc \ ReliantPc
  BY DEF Pc, AccountPc, ReliantPc, LinkedPc
<1>4. OthersWait(r) /\ req'[r].pc \notin ReliantPc
  <2>1. CASE LoginBegin(r)
    BY <1>2, <1>3, <2>1 DEF LoginBegin
  <2>2. CASE LoginDrop(r)
    BY <1>2, <1>3, <2>2 DEF LoginDrop, Goto
  <2>3. CASE LoginRead(r) \/ ValidateRead(r)
    BY <1>2, <1>3, <2>3 DEF LoginRead, ValidateRead, ReadIdentity
  <2>4. CASE LoginCache(r)
    BY <1>2, <1>3, <2>4 DEF LoginCache
  <2>5. CASE LoginIssue(r) \/ RefreshIssue(r)
    BY <1>2, <1>3, <2>5 DEF LoginIssue, RefreshIssue, IssueTokens
  <2>6. CASE RefreshBegin(r)
    BY <1>2, <1>3, <2>6 DEF RefreshBegin
  <2>7. CASE RefreshRead(r)
    <3>1. CASE Invalidate(r, SessionKeys(req[r].id))
      BY <3>1, Invalidated DEF OthersWait, ReliantPc, LinkedPc
    <3> QED
      BY <1>2, <1>3, <2>7, <3>1 DEF RefreshRead, Goto
  <2>8. CASE ValidateBegin(r)
    BY <1>2, <1>3, <2>8 DEF ValidateBegin
  <2>9. CASE ValidateCache(r)
    BY <1>2, <1>3, <2>9 DEF ValidateCache
  <2> QED
    BY <2>1, <2>2, <2>3, <2>4, <2>5, <2>6, <2>7, <2>8, <2>9 DEF AuthStep
<1> QED
  BY <1>1, <1>4 DEF Aside

LEMMA UserAdminApart ==
  ASSUME TypeOK, NEW r \in Requests, UserAdminStep(r)
  PROVE  Apart(r)
<1> USE DEF database, redis, tokens
<1>1. UNCHANGED <<link, mailed>>
  BY DEF UserAdminStep, ChangePasswordBegin, UpdatePasswordBegin, PasswordWrite,
         StorePassword, UpdateStatusBegin, UpdateStatusWrite, RemoveBegin,
         RemoveWrite, UpdateBegin, FindsOne, UpdateEmail, UpdateRoles,
         UpdateWrite
<1>2. ASSUME NEW x
      PROVE  /\ [req[r] EXCEPT !.pc = "update.roles", !.name = x].pc = "update.roles"
             /\ [req[r] EXCEPT !.pc = "update.write", !.ids = x].pc = "update.write"
  BY DEF TypeOK, Request
<1>3. ASSUME NEW keys, Invalidate(r, keys)
      PROVE  OthersWait(r) /\ req'[r].pc \notin LinkedPc
  BY <1>3, Invalidated DEF OthersWait, LinkedPc
<1>5. CASE \/ ChangePasswordBegin(r) \/ UpdatePasswordBegin(r)
           \/ UpdateStatusBegin(r) \/ RemoveBegin(r) \/ UpdateBegin(r)
           \/ UpdateEmail(r) \/ UpdateRoles(r)
  <2>1. UNCHANGED account
    BY <1>5 DEF ChangePasswordBegin, UpdatePasswordBegin, UpdateStatusBegin,
         RemoveBegin, UpdateBegin, FindsOne, UpdateEmail, UpdateRoles
  <2> SUFFICES OthersWait(r) /\ req'[r].pc \notin LinkedPc
    BY <1>1, <2>1, Kept DEF Apart
  <2>2. ASSUME NEW pc, FindsOne(r, pc)
        PROVE  req'[r].pc \in {"idle", pc} /\ OthersWait(r)
    BY <2>2, Answered, Begun DEF FindsOne, OthersWait
  <2>3. CASE ChangePasswordBegin(r)
    <3>1. req'[r].pc \in {"idle", "password.write"} /\ OthersWait(r)
      BY <2>3, Answered, Begun DEF ChangePasswordBegin, OthersWait
    <3> QED
      BY <3>1 DEF LinkedPc
  <2>4. CASE \/ UpdatePasswordBegin(r) \/ UpdateStatusBegin(r)
             \/ RemoveBegin(r) \/ UpdateBegin(r)
    BY <2>2, <2>4 DEF UpdatePasswordBegin, UpdateStatusBegin, RemoveBegin,
                      UpdateBegin, LinkedPc
  <2>5. CASE UpdateEmail(r)
    <3>1. ASSUME NEW e
          PROVE  [req[r] EXCEPT !.pc = "update.roles", !.name = e].pc = "update.roles"
      BY <1>2
    <3>2. req'[r].pc \in {"idle", "update.roles"} /\ OthersWait(r)
      BY <2>5, <3>1, Answered, Served DEF UpdateEmail, OthersWait
    <3> QED
      BY <3>2 DEF LinkedPc
  <2>6. CASE UpdateRoles(r)
    BY <1>2, <2>6, Answered, Served DEF UpdateRoles, OthersWait, LinkedPc
  <2> QED
    BY <1>5, <2>3, <2>4, <2>5, <2>6
<1>6. CASE PasswordWrite(r)
  BY <1>1, <1>3, <1>6, RowWritten DEF PasswordWrite, StorePassword, Apart
<1>7. CASE UpdateStatusWrite(r)
  BY <1>1, <1>3, <1>7, RowWritten DEF UpdateStatusWrite, DropSession, Apart
<1>8. CASE RemoveWrite(r)
  BY <1>1, <1>3, <1>8, RowWritten DEF RemoveWrite, Apart
<1>9. CASE UpdateWrite(r)
  <2>1. OthersWait(r) /\ req'[r].pc \notin LinkedPc
    BY <1>3, <1>9, Answered
       DEF UpdateWrite, DropSession, OthersWait, LinkedPc
  <2>2. ASSUME NEW status,
               account' = [account EXCEPT ![req[r].id] =
                             [@ EXCEPT !.email = req[r].name,
                                       !.status = status,
                                       !.roles = req[r].ids]]
        PROVE  AccountsPersist
    <3> DEFINE u == req[r].id
               row == [account[u] EXCEPT !.email = req[r].name,
                                         !.status = status,
                                         !.roles = req[r].ids]
    <3>1. u \in Users
      BY <1>9, LinkedSlot DEF UpdateWrite, AccountPc
    <3>2. row.state = account[u].state /\ row.verified = account[u].verified
      BY <3>1 DEF TypeOK, Account
    <3>3. \A v \in Users : account'[v] = IF v = u THEN row ELSE account[v]
      BY <2>2, <3>1 DEF TypeOK
    <3> HIDE DEF row
    <3> QED
      BY <3>2, <3>3 DEF AccountsPersist, Inserted
  <2>3. AccountsPersist
    BY <1>9, <2>2, Kept DEF UpdateWrite
  <2> QED
    BY <1>1, <2>1, <2>3 DEF Apart
<1> QED
  BY <1>5, <1>6, <1>7, <1>8, <1>9 DEF UserAdminStep

LEMMA RoleAdminAside ==
  ASSUME TypeOK, NEW r \in Requests, RoleAdminStep(r)
  PROVE  Aside(r)
<1> USE DEF database, redis, tokens
<1>1. UNCHANGED <<account, link, mailed>>
  BY DEF RoleAdminStep, RoleCreateBegin, RoleCreatePermissions, RoleCreateWrite,
         RoleUpdateBegin, RoleUpdateName, RoleUpdatePermissions,
         RoleUpdateWrite, RoleUpdateHolders, RoleRemoveBegin,
         RoleRemoveCollect, RoleRemoveDelete, ChecksPermissions, FindsRole
<1>2. ASSUME NEW pc \in Pc \ ReliantPc, NEW x,
             \/ Answer(r)
             \/ Serve(r, [Idle EXCEPT !.pc = pc, !.id = x])
             \/ Serve(r, [Idle EXCEPT !.pc = pc, !.name = x])
             \/ Serve(r, [req[r] EXCEPT !.pc = pc, !.name = x])
             \/ Serve(r, [req[r] EXCEPT !.pc = pc, !.ids = x])
             \/ Serve(r, [req[r] EXCEPT !.pc = pc, !.todo = x])
             \/ Invalidate(r, x)
      PROVE  OthersWait(r) /\ req'[r].pc \notin ReliantPc
  <2>1. /\ [req[r] EXCEPT !.pc = pc, !.name = x].pc = pc
        /\ [req[r] EXCEPT !.pc = pc, !.ids = x].pc = pc
        /\ [req[r] EXCEPT !.pc = pc, !.todo = x].pc = pc
        /\ [Idle EXCEPT !.pc = pc, !.name = x].pc = pc
    BY DEF TypeOK, Request, Idle
  <2>2. CASE Answer(r) \/ Invalidate(r, x)
    BY <2>2, Answered, Invalidated DEF OthersWait, ReliantPc, LinkedPc
  <2>3. CASE Serve(r, [Idle EXCEPT !.pc = pc, !.id = x])
    BY <2>3, Begun DEF OthersWait
  <2> QED
    BY <1>2, <2>1, <2>2, <2>3, Served DEF OthersWait
<1>3. {"role.name", "role.permissions", "role.write", "role.holders",
       "role.collect", "role.delete", "create.permissions", "create.write"}
        \subseteq Pc \ ReliantPc
  BY DEF Pc, AccountPc, RolePc, ReliantPc, LinkedPc
<1>4. ASSUME NEW pc \in Pc \ ReliantPc, FindsRole(r, pc) \/ ChecksPermissions(r, pc)
      PROVE  OthersWait(r) /\ req'[r].pc \notin ReliantPc
  BY <1>2, <1>4 DEF FindsRole, ChecksPermissions
<1>5. CASE \/ RoleCreatePermissions(r) \/ RoleUpdateBegin(r)
           \/ RoleUpdatePermissions(r) \/ RoleRemoveBegin(r)
  BY <1>1, <1>3, <1>4, <1>5
     DEF RoleCreatePermissions, RoleUpdateBegin, RoleUpdatePermissions,
         RoleRemoveBegin, Aside
<1>6. CASE RoleCreateBegin(r) \/ RoleCreateWrite(r)
  BY <1>1, <1>2, <1>3, <1>6 DEF RoleCreateBegin, RoleCreateWrite, Aside
<1>7. CASE RoleUpdateName(r) \/ RoleUpdateWrite(r) \/ RoleUpdateHolders(r)
  BY <1>1, <1>2, <1>3, <1>7
     DEF RoleUpdateName, RoleUpdateWrite, RoleUpdateHolders, Aside
<1>8. CASE RoleRemoveCollect(r) \/ RoleRemoveDelete(r)
  BY <1>1, <1>2, <1>3, <1>8 DEF RoleRemoveCollect, RoleRemoveDelete, Aside
<1> QED
  BY <1>5, <1>6, <1>7, <1>8 DEF RoleAdminStep

LEMMA OthersAside ==
  ASSUME TypeOK, NEW r \in Requests, DropKey(r) \/ Abort(r)
  PROVE  Aside(r)
<1>1. UNCHANGED <<account, link, mailed>>
  BY DEF DropKey, Abort, database, tokens
<1>2. OthersWait(r) /\ req'[r].pc \notin ReliantPc
  BY Invalidated, Answered DEF DropKey, Abort, OthersWait, ReliantPc,
                              LinkedPc
<1> QED
  BY <1>1, <1>2 DEF Aside

---------------------------------------------------------------------------

(* An account is inserted in a row that was absent, and is unverified.     *)
LEMMA InsertPersists ==
  ASSUME TypeOK, NEW v \in Users, account[v] = Absent, NEW row,
         account' = [account EXCEPT ![v] = row]
  PROVE  AccountsPersist
<1>1. ~Inserted(v)
  BY DEF Inserted, Absent
<1>2. \A u \in Users \ {v} : account'[u] = account[u]
  BY DEF TypeOK
<1>3. ASSUME NEW u \in Users, Inserted(u)
      PROVE  account'[u] = account[u]
  BY <1>1, <1>2, <1>3
<1> QED
  BY <1>3 DEF AccountsPersist, Inserted

(* A step that writes link t and moves r to an await before which t is     *)
(* written, or to none of them.                                            *)
LEMMA LinkWritten ==
  ASSUME TypeOK, LinksInv, NEW r \in Requests, NEW t \in Links, NEW row,
         link' = [link EXCEPT ![t] = row], UNCHANGED mailed,
         AccountsPersist, OthersWait(r),
         Written(t) => row.kind = link[t].kind /\ row.user = link[t].user,
         row.state # "absent", row.user \in Users,
         account'[row.user].state # "absent",
         row.kind = "verify" /\ row.state = "used" => account'[row.user].verified,
         \/ req'[r].pc \notin LinkedPc
         \/ req'[r].pc = "mail" /\ req'[r].link = t
  PROVE  LinksInv'
<1>1. \A s \in Links : link'[s] = IF s = t THEN row ELSE link[s]
  BY DEF TypeOK
<1>2. LinksPersist
  BY <1>1 DEF LinksPersist, Written
<1>3. \A q \in Requests : Backed(q)'
  <2>1. Backed(r)'
    BY <1>1 DEF Backed, LinkedPc, Written
  <2>2. ASSUME NEW q \in Requests \ {r} PROVE Backed(q)'
    BY <1>2, <2>2, StaysBacked DEF OthersWait, LinksInv
  <2> QED
    BY <2>1, <2>2
<1>4. \A s \in Links :
        Written(s)' => link'[s].user \in Users /\ account'[link'[s].user].state # "absent"
  BY <1>1 DEF LinksInv, Written, AccountsPersist, Inserted
<1>5. SpentTokensVerify'
  BY <1>1 DEF LinksInv, SpentTokensVerify, AccountsPersist, Written, Inserted
<1>6. \A s \in mailed' : Written(s)'
  <2>1. mailed \subseteq Links
    BY DEF TypeOK
  <2> QED
    BY <1>1, <2>1 DEF LinksInv, Written
<1> QED
  BY <1>3, <1>4, <1>5, <1>6 DEF LinksInv, Inserted

(* The link that has been written is the one whose mail is next.           *)
LEMMA ToMail ==
  ASSUME TypeOK, NEW r \in Requests, NEW t,
         Serve(r, [Idle EXCEPT !.pc = "mail", !.link = t])
  PROVE  req'[r].pc = "mail" /\ req'[r].link = t /\ OthersWait(r)
<1>1. /\ [Idle EXCEPT !.pc = "mail", !.link = t].pc = "mail"
      /\ [Idle EXCEPT !.pc = "mail", !.link = t].link = t
  BY DEF Idle
<1> QED
  BY <1>1, Served DEF OthersWait

(* The transaction that inserts an account and its link.                   *)
LEMMA InsertKeeps ==
  ASSUME TypeOK, LinksInv, NEW r \in Requests, NEW status, NEW roles,
         InsertAccount(r, status, roles)
  PROVE  LinksInv'
<1>1. PICK u \in Users, t \in Links, p \in Passwords :
        /\ account[u] = Absent
        /\ account' = [account EXCEPT ![u] =
                         [state |-> "live", email |-> req[r].name,
                          password |-> p, status |-> status,
                          verified |-> FALSE, roles |-> roles]]
        /\ NewLink(t, "verify", u)
        /\ Serve(r, [Idle EXCEPT !.pc = "mail", !.link = t])
        /\ UNCHANGED mailed
  BY DEF InsertAccount
<1> DEFINE row == [kind |-> "verify", user |-> u, state |-> "open"]
<1>2. AccountsPersist
  BY <1>1, InsertPersists
<1>3. link' = [link EXCEPT ![t] = row] /\ ~Written(t)
  BY <1>1 DEF NewLink, Written, NoLink
<1>4. row.kind = "verify" /\ row.user = u /\ row.state = "open"
  OBVIOUS
<1>5. account'[u].state = "live"
  BY <1>1 DEF TypeOK
<1>6. req'[r].pc = "mail" /\ req'[r].link = t /\ OthersWait(r)
  BY <1>1, ToMail
<1> HIDE DEF row
<1> QED
  BY <1>1, <1>2, <1>3, <1>4, <1>5, <1>6, LinkWritten

LEMMA InsertLinkKeeps ==
  ASSUME TypeOK, LinksInv, NEW r \in Requests, NEW kind \in {"verify", "reset"},
         req[r].pc \in {"verify.link", "reset.link"}, InsertLink(r, kind)
  PROVE  LinksInv'
<1> DEFINE u == req[r].id
<1>1. PICK t \in Links : /\ NewLink(t, kind, u)
                         /\ Serve(r, [Idle EXCEPT !.pc = "mail", !.link = t])
  BY DEF InsertLink
<1> DEFINE row == [kind |-> kind, user |-> u, state |-> "open"]
<1>2. u \in Users /\ Inserted(u)
  BY LinkedSlot DEF AccountPc, LinksInv, Backed
<1>3. UNCHANGED <<account, mailed>>
  BY DEF InsertLink, database
<1>4. link' = [link EXCEPT ![t] = row] /\ ~Written(t)
  BY <1>1 DEF NewLink, Written, NoLink
<1>5. row.kind = kind /\ row.user = u /\ row.state = "open"
  OBVIOUS
<1>6. req'[r].pc = "mail" /\ req'[r].link = t /\ OthersWait(r)
  BY <1>1, ToMail
<1>7. account'[u].state # "absent"
  BY <1>2, <1>3 DEF Inserted
<1> HIDE DEF row, u
<1> QED
  BY <1>2, <1>3, <1>4, <1>5, <1>6, <1>7, Kept, LinkWritten

(* Both writes stamp the link they hold; the first verifies its account.   *)
LEMMA SpendKeeps ==
  ASSUME TypeOK, LinksInv, NEW r \in Requests, VerifyWrite(r) \/ ResetWrite(r)
  PROVE  LinksInv'
<1> DEFINE t == req[r].link
           row == [link[t] EXCEPT !.state = "used"]
<1>1. t \in Links /\ Written(t) /\ req[r].pc \in {"verify.write", "reset.write"}
  BY LinkedSlot DEF VerifyWrite, ResetWrite, LinkPc, LinksInv, Backed
<1>2. link[t].user \in Users /\ Inserted(link[t].user)
  BY <1>1 DEF LinksInv
<1>3. row.state = "used" /\ row.kind = link[t].kind /\ row.user = link[t].user
  BY <1>1 DEF TypeOK, LinkRow
<1>4. link' = [link EXCEPT ![t] = row] /\ UNCHANGED mailed
  BY DEF VerifyWrite, ResetWrite, Spend
<1>5. AccountsPersist
  BY RowWritten DEF VerifyWrite, ResetWrite
<1>6. OthersWait(r) /\ req'[r].pc \notin LinkedPc
  BY Answered, Invalidated DEF VerifyWrite, ResetWrite, OthersWait, LinkedPc
<1>7. account'[link[t].user].state # "absent"
  BY <1>2, <1>5 DEF AccountsPersist
<1>8. row.kind = "verify" => account'[link[t].user].verified
  <2>1. CASE VerifyWrite(r)
    <3>1. link[t].user = req[r].id
      BY <2>1 DEF VerifyWrite, LinksInv, Backed
    <3>2. account' = [account EXCEPT ![link[t].user].verified = TRUE]
      BY <2>1, <3>1 DEF VerifyWrite
    <3>3. account[link[t].user] \in Account
      BY <1>2 DEF TypeOK
    <3>4. [account[link[t].user] EXCEPT !.verified = TRUE].verified
      BY <3>3 DEF Account
    <3>5. account'[link[t].user]
            = [account[link[t].user] EXCEPT !.verified = TRUE]
      BY <1>2, <3>2 DEF TypeOK
    <3> QED
      BY <3>4, <3>5
  <2>2. CASE ResetWrite(r)
    <3>1. link[t].kind = "reset"
      BY <2>2 DEF ResetWrite, LinksInv, Backed
    <3> QED
      BY <1>3, <3>1
  <2> QED
    BY <2>1, <2>2
<1> HIDE DEF t, row
<1> QED
  BY <1>1, <1>2, <1>3, <1>4, <1>5, <1>6, <1>7, <1>8, LinkWritten

(* What a slot holds when it begins, or goes on, at an await of Accounts.   *)
LEMMA Named ==
  ASSUME TypeOK, NEW r \in Requests, NEW pc, NEW x,
         \/ Serve(r, [Idle EXCEPT !.pc = pc, !.name = x])
         \/ Serve(r, [req[r] EXCEPT !.pc = pc, !.ids = x])
  PROVE  req'[r].pc = pc /\ OthersWait(r)
<1>1. /\ [Idle EXCEPT !.pc = pc, !.name = x].pc = pc
      /\ [req[r] EXCEPT !.pc = pc, !.ids = x].pc = pc
  BY DEF TypeOK, Request, Idle
<1> QED
  BY <1>1, Served DEF OthersWait

LEMMA ForAccount ==
  ASSUME TypeOK, NEW r \in Requests, NEW pc, NEW x,
         Serve(r, [Idle EXCEPT !.pc = pc, !.id = x])
  PROVE  req'[r].pc = pc /\ req'[r].id = x /\ OthersWait(r)
<1>1. /\ [Idle EXCEPT !.pc = pc, !.id = x].pc = pc
      /\ [Idle EXCEPT !.pc = pc, !.id = x].id = x
  BY DEF Idle
<1> QED
  BY <1>1, Served DEF OthersWait

LEMMA ForLink ==
  ASSUME TypeOK, NEW r \in Requests, NEW pc, NEW x, NEW t,
         Serve(r, [Idle EXCEPT !.pc = pc, !.id = x, !.link = t])
  PROVE  req'[r].pc = pc /\ req'[r].id = x /\ req'[r].link = t /\ OthersWait(r)
<1>1. /\ [Idle EXCEPT !.pc = pc, !.id = x, !.link = t].pc = pc
      /\ [Idle EXCEPT !.pc = pc, !.id = x, !.link = t].id = x
      /\ [Idle EXCEPT !.pc = pc, !.id = x, !.link = t].link = t
  BY DEF Idle
<1> QED
  BY <1>1, Served DEF OthersWait

(* A step that writes no account and no link, and ends in an await whose   *)
(* checks have just passed.                                                *)
LEMMA CheckedKeeps ==
  ASSUME TypeOK, LinksInv, NEW r \in Requests,
         UNCHANGED <<account, link>>,
         \A t \in mailed' : Written(t),
         OthersWait(r), Backed(r)'
  PROVE  LinksInv'
<1>1. LinksPersist /\ AccountsPersist
  BY DEF LinksPersist, Written, AccountsPersist, Inserted
<1>2. \A q \in Requests : Backed(q)'
  BY <1>1, StaysBacked DEF OthersWait, LinksInv
<1> QED
  BY <1>2 DEF LinksInv, SpentTokensVerify, Written, Inserted

LEMMA AccountsKeepLinks ==
  ASSUME TypeOK, LinksInv, NEW r \in Requests, AccountStep(r)
  PROVE  LinksInv'
<1> USE DEF database, redis, tokens
<1>1. CASE \/ RegisterBegin(r) \/ UserCreateBegin(r) \/ UserCreateRoles(r)
  <2>1. UNCHANGED <<account, link, mailed>>
    BY <1>1 DEF RegisterBegin, UserCreateBegin, UserCreateRoles
  <2>2. CASE RegisterBegin(r)
    <3>1. req'[r].pc \in {"idle", "register.write"} /\ OthersWait(r)
      BY <2>2, Answered, Named DEF RegisterBegin, OthersWait
    <3> QED
      BY <2>1, <3>1, Kept, ApartKeeps DEF Apart, LinkedPc
  <2>3. CASE UserCreateBegin(r)
    <3>1. req'[r].pc \in {"idle", "user.roles"} /\ OthersWait(r)
      BY <2>3, Answered, Named DEF UserCreateBegin, OthersWait
    <3> QED
      BY <2>1, <3>1, Kept, ApartKeeps DEF Apart, LinkedPc
  <2>4. CASE UserCreateRoles(r)
    <3>1. req'[r].pc \in {"idle", "user.write"} /\ OthersWait(r)
      BY <2>4, Answered, Named DEF UserCreateRoles, OthersWait
    <3> QED
      BY <2>1, <3>1, Kept, ApartKeeps DEF Apart, LinkedPc
  <2> QED
    BY <1>1, <2>2, <2>3, <2>4
<1>2. CASE RegisterWrite(r)
  BY <1>2, InsertKeeps DEF RegisterWrite
<1>3. CASE UserCreateWrite(r)
  <2>1. CASE Answer(r) /\ UNCHANGED <<account, link, mailed>>
    BY <2>1, Answered, Kept, ApartKeeps DEF Apart, OthersWait, LinkedPc
  <2> QED
    BY <1>3, <2>1, InsertKeeps DEF UserCreateWrite
<1>4. ASSUME NEW u \in Users, NEW pc \in {"verify.link", "reset.link"},
             IsLive(u), UNCHANGED <<account, link, mailed>>,
             Serve(r, [Idle EXCEPT !.pc = pc, !.id = u])
      PROVE  LinksInv'
  <2>1. req'[r].pc = pc /\ req'[r].id = u /\ OthersWait(r)
    BY <1>4, ForAccount
  <2>2. Backed(r)'
    BY <1>4, <2>1 DEF Backed, Inserted, IsLive
  <2>3. \A t \in mailed' : Written(t)
    BY <1>4 DEF LinksInv
  <2> QED
    BY <1>4, <2>1, <2>2, <2>3, CheckedKeeps
<1>5. ASSUME Answer(r), UNCHANGED <<account, link, mailed>>
      PROVE  LinksInv'
  BY <1>5, Answered, Kept, ApartKeeps DEF Apart, OthersWait, LinkedPc
<1>6. ASSUME NEW e, NEW u \in FindByMail(e), u # None
      PROVE  u \in Users /\ IsLive(u)
  BY <1>6 DEF FindByMail
<1>7. CASE ResendBegin(r)
  <2>1. UNCHANGED <<account, link, mailed>>
    BY <1>7 DEF ResendBegin
  <2> QED
    BY <1>4, <1>5, <1>6, <1>7, <2>1 DEF ResendBegin
<1>8. CASE ForgotBegin(r)
  <2>1. UNCHANGED <<account, link, mailed>>
    BY <1>8 DEF ForgotBegin
  <2> QED
    BY <1>4, <1>5, <1>6, <1>8, <2>1 DEF ForgotBegin
<1>9. CASE ResendForBegin(r)
  <2>1. UNCHANGED <<account, link, mailed>>
    BY <1>9 DEF ResendForBegin
  <2> QED
    BY <1>4, <1>5, <1>9, <2>1 DEF ResendForBegin
<1>10. CASE VerifyLinkWrite(r) \/ ResetLinkWrite(r)
  BY <1>10, InsertLinkKeeps DEF VerifyLinkWrite, ResetLinkWrite
<1>11. CASE SendMail(r)
  <2>1. Written(req[r].link)
    BY <1>11 DEF SendMail, LinksInv, Backed
  <2>2. \A t \in mailed' : Written(t)
    BY <1>11, <2>1 DEF SendMail, LinksInv
  <2>3. Backed(r)' /\ OthersWait(r)
    BY <1>11, Answered DEF SendMail, Backed, OthersWait
  <2>4. UNCHANGED <<account, link>>
    BY <1>11 DEF SendMail
  <2> QED
    BY <2>2, <2>3, <2>4, CheckedKeeps
<1>12. ASSUME NEW kind, NEW pc,
              \/ kind = "verify" /\ pc = "verify.write"
              \/ kind = "reset" /\ pc = "reset.write",
              Redeem(r, kind, pc)
       PROVE  LinksInv'
  <2>1. UNCHANGED <<account, link, mailed>>
    BY <1>12 DEF Redeem
  <2>2. ASSUME NEW t \in mailed, Usable(t, kind),
               Serve(r, [Idle EXCEPT !.pc = pc, !.id = link[t].user, !.link = t])
        PROVE  LinksInv'
    <3>1. /\ req'[r].pc = pc /\ req'[r].id = link[t].user /\ req'[r].link = t
          /\ OthersWait(r)
      BY <2>2, ForLink
    <3>2. Backed(r)'
      BY <1>12, <2>1, <2>2, <3>1 DEF Backed, Usable, Written
    <3>3. \A s \in mailed' : Written(s)
      BY <2>1 DEF LinksInv
    <3> QED
      BY <2>1, <3>1, <3>2, <3>3, CheckedKeeps
  <2> QED
    BY <1>5, <1>12, <2>1, <2>2 DEF Redeem
<1>13. CASE VerifyBegin(r) \/ ResetBegin(r)
  BY <1>12, <1>13 DEF VerifyBegin, ResetBegin
<1>14. CASE VerifyWrite(r) \/ ResetWrite(r)
  BY <1>14, SpendKeeps
<1> QED
  BY <1>1, <1>2, <1>3, <1>7, <1>8, <1>9, <1>10, <1>11, <1>13, <1>14
     DEF AccountStep

---------------------------------------------------------------------------

(* A step outside the requests moves no slot and writes no account.        *)
LEMMA ElsewhereKeeps ==
  ASSUME TypeOK, LinksInv, UNCHANGED <<account, mailed, req>>, LinksPersist,
         \A t \in Links : /\ link'[t].state # "absent" => Written(t)
                          /\ link'[t].state = "used" => link[t].state = "used"
  PROVE  LinksInv'
<1>1. AccountsPersist
  BY Kept
<1>2. \A q \in Requests : Backed(q)'
  BY <1>1, StaysBacked DEF LinksInv
<1>3. mailed \subseteq Links
  BY DEF TypeOK
<1>4. SpentTokensVerify'
  BY DEF LinksInv, SpentTokensVerify, LinksPersist, Written
<1> QED
  BY <1>2, <1>3, <1>4 DEF LinksInv, LinksPersist, Written, Inserted

LEMMA NextKeepsLinks ==
  ASSUME TypeOK, LinksInv, [Next]_vars
  PROVE  LinksInv'
<1> USE DEF database, redis, tokens
<1>1. ASSUME NEW r \in Requests, Step(r) \/ Abort(r) PROVE LinksInv'
  BY <1>1, AuthAside, UserAdminApart, RoleAdminAside, OthersAside, AsideApart,
     ApartKeeps, AccountsKeepLinks
     DEF Step
<1>2. ASSUME UNCHANGED <<account, link, mailed, req>> PROVE LinksInv'
  BY <1>2, ElsewhereKeeps DEF LinksPersist, Written
<1>3. CASE PermissionStep
  BY <1>2, <1>3
     DEF PermissionStep, PermissionCreate, PermissionUpdate, PermissionRemove
<1>4. CASE Expire
  <2>1. ASSUME NEW u \in Users, ExpireUser(u) \/ ExpireRefresh(u)
        PROVE  LinksInv'
    BY <1>2, <2>1 DEF ExpireUser, ExpireRefresh
  <2>2. ASSUME NEW t \in Links, ExpireLink(t) PROVE LinksInv'
    <3> DEFINE row == [link[t] EXCEPT !.state = "expired"]
    <3>1. /\ row.state = "expired" /\ row.kind = link[t].kind
          /\ row.user = link[t].user
      BY DEF TypeOK, LinkRow
    <3>2. \A s \in Links : link'[s] = IF s = t THEN row ELSE link[s]
      BY <2>2 DEF ExpireLink, TypeOK
    <3>3. link[t].state = "open" /\ UNCHANGED <<account, mailed, req>>
      BY <2>2 DEF ExpireLink
    <3> HIDE DEF row
    <3> QED
      BY <3>1, <3>2, <3>3, ElsewhereKeeps DEF LinksPersist, Written
  <2> QED
    BY <1>4, <2>1, <2>2 DEF Expire
<1>5. CASE UNCHANGED vars
  BY <1>2, <1>5 DEF vars
<1> QED
  BY <1>1, <1>3, <1>4, <1>5 DEF Next

LEMMA InitLinks == Init => LinksInv
<1> SUFFICES ASSUME Init PROVE LinksInv
  OBVIOUS
<1>1. \A t \in Links : link[t].state = "absent"
  BY DEF Init, NoLink
<1>2. \A r \in Requests : req[r].pc = "idle"
  BY DEF Init, Idle
<1>3. mailed = {}
  BY DEF Init
<1> QED
  BY <1>1, <1>2, <1>3 DEF LinksInv, Backed, Written, SpentTokensVerify

LEMMA LinksInvariant == Spec => []LinksInv
<1>1. TypeOK /\ LinksInv /\ [Next]_vars => LinksInv'
  BY NextKeepsLinks
<1> QED
  BY InitLinks, <1>1, TypeCorrect, PTL DEF Spec

(* Every mail on its way leads to a link that is in the table and to an    *)
(* account that is in it, whatever rolled back or died on the way.         *)
THEOREM MailLeadsToAccount == Spec => []LinksAreBacked
<1>1. TypeOK /\ LinksInv => LinksAreBacked
  BY DEF TypeOK, LinksInv, LinksAreBacked, Written, Inserted, NoLink, Absent
<1> QED
  BY <1>1, LinksInvariant, TypeCorrect, PTL

(* No verification token is spent on an account that stays unverified.     *)
THEOREM NoTokenWasted == Spec => []SpentTokensVerify
<1>1. LinksInv => SpentTokensVerify
  BY DEF LinksInv
<1> QED
  BY <1>1, LinksInvariant, PTL

=============================================================================
