------------------------ MODULE CacheHistory_proofs ------------------------
(***************************************************************************)
(* What Redis may keep of a user, for every value of the constants: a      *)
(* cached identity is out of date only while a request is about to delete  *)
(* it, or because of a race or a failure - as long as nobody renames a     *)
(* permission, for that write deletes no key - and what is left of a       *)
(* deleted user is not written again.                                      *)
(***************************************************************************)
EXTENDS CacheHistory, Records_proofs

(* Identities *)

(* What the identity of u is made of is left as it is.                     *)
SameIdentity(u) ==
    /\ account'[u].state = account[u].state
    /\ account'[u].verified = account[u].verified
    /\ account'[u].status = account[u].status
    /\ account'[u].email = account[u].email
    /\ account'[u].roles = account[u].roles
    /\ \A g \in account[u].roles :
          /\ role'[g] = role[g]
          /\ \A p \in role[g].grants : permission'[p] = permission[p]

LEMMA IdentityKept ==
  ASSUME NEW u \in Users, SameIdentity(u)
  PROVE  UserInformation(u)' = UserInformation(u)
<1>1. {role'[g].name : g \in account'[u].roles} = {role[g].name : g \in account[u].roles}
  BY DEF SameIdentity
<1>2. UNION {role'[g].grants : g \in account'[u].roles}
        = UNION {role[g].grants : g \in account[u].roles}
  BY DEF SameIdentity
<1>3. {permission'[p] : p \in UNION {role'[g].grants : g \in account'[u].roles}}
        = {permission[p] : p \in UNION {role[g].grants : g \in account[u].roles}}
  BY <1>2 DEF SameIdentity
<1>4. IdentityOf(u)' = IdentityOf(u)
  BY <1>1, <1>3 DEF IdentityOf, SameIdentity
<1>5. IsActive(u)' = IsActive(u)
  BY DEF IsActive, IsLive, SameIdentity
<1> QED
  BY <1>4, <1>5 DEF UserInformation

(* A step owes for what it changes: somebody is going to delete the key of *)
(* the user, or his identity, if he had one, and his roles are still his.  *)
Owed(u) ==
    \/ Pending(u)'
    \/ /\ UserInformation(u) \in {None, UserInformation(u)'}
       /\ account[u].roles \subseteq account'[u].roles

(* A request that deletes a user's key, and one that has renamed a role.   *)
LEMMA DropIsPending ==
  ASSUME TypeOK, NEW r \in Requests, NEW keys, Invalidate(r, keys),
         NEW u \in Users, UserCache(u) \in keys
  PROVE  Owes(r, u)'
  BY Invalidated DEF Owes, UserCache

LEMMA SameOwesNothing ==
  ASSUME NEW u \in Users, SameIdentity(u)
  PROVE  Owed(u)
  BY IdentityKept DEF SameIdentity, Owed

LEMMA DatabaseOwesNothing ==
  ASSUME UNCHANGED database
  PROVE  \A u \in Users : Owed(u)
  BY SameOwesNothing DEF database, SameIdentity

(* The row is that of u, but for the password.                             *)
SameRow(row, u) ==
    /\ row.state = account[u].state
    /\ row.verified = account[u].verified
    /\ row.status = account[u].status
    /\ row.email = account[u].email
    /\ row.roles = account[u].roles

(* A write to one account, and what it makes of that account's identity.   *)
LEMMA RowOwed ==
  ASSUME TypeOK, UNCHANGED <<role, permission>>,
         NEW v \in Users, NEW row, account' = [account EXCEPT ![v] = row],
         \/ Pending(v)'
         \/ ~IsActive(v) /\ account[v].roles \subseteq row.roles
         \/ SameRow(row, v)
  PROVE  \A u \in Users : Owed(u)
<1> SUFFICES ASSUME NEW u \in Users PROVE Owed(u)
  OBVIOUS
<1>1. account'[u] = IF u = v THEN row ELSE account[u]
  BY DEF TypeOK
<1>2. CASE u # v
  BY <1>1, <1>2, SameOwesNothing DEF SameIdentity
<1>3. CASE /\ u = v
           /\ \/ Pending(v)'
              \/ ~IsActive(v) /\ account[v].roles \subseteq row.roles
  BY <1>1, <1>3 DEF Owed, UserInformation
<1>4. CASE u = v /\ SameRow(row, v)
  BY <1>1, <1>4, SameOwesNothing DEF SameIdentity, SameRow
<1> QED
  BY <1>2, <1>3, <1>4

LEMMA AccountsOwe ==
  ASSUME TypeOK, NEW r \in Requests, AccountStep(r)
  PROVE  \A u \in Users : Owed(u)
<1>1. CASE \/ RegisterBegin(r) \/ UserCreateBegin(r) \/ UserCreateRoles(r)
           \/ ResendBegin(r) \/ ResendForBegin(r) \/ VerifyLinkWrite(r)
           \/ ForgotBegin(r) \/ ResetLinkWrite(r) \/ SendMail(r)
           \/ VerifyBegin(r) \/ ResetBegin(r)
  BY <1>1, DatabaseOwesNothing
     DEF RegisterBegin, UserCreateBegin, UserCreateRoles, ResendBegin,
         ResendForBegin, VerifyLinkWrite, ForgotBegin, ResetLinkWrite,
         InsertLink, SendMail, VerifyBegin, ResetBegin, Redeem
<1>2. ASSUME NEW status, NEW roles, InsertAccount(r, status, roles),
             UNCHANGED <<role, permission>>
      PROVE  \A u \in Users : Owed(u)
  <2>1. PICK v \in Users, p \in Passwords :
          /\ account[v] = Absent
          /\ account' = [account EXCEPT ![v] =
                           [state |-> "live", email |-> req[r].name,
                            password |-> p, status |-> status,
                            verified |-> FALSE, roles |-> roles]]
    BY <1>2 DEF InsertAccount
  <2>2. ~IsActive(v)
    BY <2>1 DEF IsActive, IsLive, Absent
  <2>3. account[v].roles = {}
    BY <2>1 DEF Absent
  <2> QED
    BY <1>2, <2>1, <2>2, <2>3, RowOwed
<1>3. CASE RegisterWrite(r)
  BY <1>2, <1>3 DEF RegisterWrite
<1>4. CASE UserCreateWrite(r)
  BY <1>2, <1>4, DatabaseOwesNothing DEF UserCreateWrite, database
<1>5. CASE VerifyWrite(r)
  <2>1. PICK v \in Users : v = req[r].id
    BY <1>5, LinkedSlot DEF VerifyWrite, AccountPc
  <2> DEFINE row == [account[v] EXCEPT !.verified = TRUE]
  <2>2. account' = [account EXCEPT ![v] = row] /\ UNCHANGED <<role, permission>>
    BY <1>5, <2>1 DEF VerifyWrite
  <2>3. account[v].verified = TRUE \/ ~IsActive(v)
    BY DEF IsActive, TypeOK, Account
  <2>4. row.roles = account[v].roles /\ (account[v].verified = TRUE => SameRow(row, v))
    BY DEF TypeOK, Account, SameRow
  <2> HIDE DEF row
  <2> QED
    BY <2>2, <2>3, <2>4, RowOwed
<1>6. CASE ResetWrite(r)
  <2>1. PICK v \in Users : v = req[r].id
    BY <1>6, LinkedSlot DEF ResetWrite, AccountPc
  <2>2. PICK p \in Passwords : account' = [account EXCEPT ![v].password = p]
    BY <1>6, <2>1 DEF ResetWrite
  <2> DEFINE row == [account[v] EXCEPT !.password = p]
  <2>3. account' = [account EXCEPT ![v] = row] /\ UNCHANGED <<role, permission>>
    BY <1>6, <2>2 DEF ResetWrite
  <2>4. SameRow(row, v)
    BY DEF TypeOK, Account, SameRow
  <2> HIDE DEF row
  <2> QED
    BY <2>3, <2>4, RowOwed
<1> QED
  BY <1>1, <1>3, <1>4, <1>5, <1>6 DEF AccountStep

LEMMA UserAdminOwes ==
  ASSUME TypeOK, NEW r \in Requests, UserAdminStep(r)
  PROVE  \A u \in Users : Owed(u)
<1>1. CASE \/ ChangePasswordBegin(r) \/ UpdatePasswordBegin(r)
           \/ UpdateStatusBegin(r) \/ RemoveBegin(r) \/ UpdateBegin(r)
           \/ UpdateEmail(r) \/ UpdateRoles(r)
  BY <1>1, DatabaseOwesNothing
     DEF ChangePasswordBegin, UpdatePasswordBegin, UpdateStatusBegin,
         RemoveBegin, UpdateBegin, FindsOne, UpdateEmail, UpdateRoles
<1>2. ASSUME NEW v \in Users, v = req[r].id, NEW row,
             account' = [account EXCEPT ![v] = row],
             UNCHANGED <<role, permission>>,
             \/ Invalidate(r, SessionKeys(v))
             \/ \E status \in Statuses : DropSession(r, v, status)
      PROVE  \A u \in Users : Owed(u)
  <2>1. UserCache(v) \in SessionKeys(v) /\ UserCache(v) \in {UserCache(v)}
    BY DEF SessionKeys
  <2>2. Owes(r, v)'
    BY <1>2, <2>1, DropIsPending DEF DropSession
  <2>3. Pending(v)'
    BY <2>2 DEF Pending
  <2> QED
    BY <1>2, <2>3, RowOwed
<1>3. req[r].pc \in AccountPc => req[r].id \in Users
  BY LinkedSlot
<1>4. CASE PasswordWrite(r)
  BY <1>2, <1>3, <1>4 DEF PasswordWrite, StorePassword, AccountPc
<1>5. CASE UpdateStatusWrite(r)
  BY <1>2, <1>3, <1>5 DEF UpdateStatusWrite, AccountPc
<1>6. CASE RemoveWrite(r)
  BY <1>2, <1>3, <1>6 DEF RemoveWrite, AccountPc
<1>7. CASE UpdateWrite(r)
  BY <1>2, <1>3, <1>7, DatabaseOwesNothing
     DEF UpdateWrite, AccountPc, database
<1> QED
  BY <1>1, <1>4, <1>5, <1>6, <1>7 DEF UserAdminStep

(* A write to one role: its holders are owed, or it has none.              *)
LEMMA RoleOwed ==
  ASSUME TypeOK, UNCHANGED <<account, permission>>,
         NEW g \in Roles, NEW row, role' = [role EXCEPT ![g] = row],
         \A u \in Holders(g) : Pending(u)'
  PROVE  \A u \in Users : Owed(u)
<1> SUFFICES ASSUME NEW u \in Users PROVE Owed(u)
  OBVIOUS
<1>1. CASE u \in Holders(g)
  BY <1>1 DEF Owed
<1>2. CASE u \notin Holders(g)
  <2>1. g \notin account[u].roles
    BY <1>2 DEF Holders
  <2>2. \A h \in account[u].roles : h \in Roles
    BY DEF TypeOK, Account
  <2>3. \A h \in account[u].roles : role'[h] = role[h]
    BY <2>1, <2>2 DEF TypeOK
  <2> QED
    BY <2>3, SameOwesNothing DEF SameIdentity
<1> QED
  BY <1>1, <1>2

LEMMA RoleAdminOwes ==
  ASSUME TypeOK, CatalogueIntegrity, NEW r \in Requests, RoleAdminStep(r)
  PROVE  \A u \in Users : Owed(u)
<1> DEFINE row == [name |-> req[r].name, grants |-> req[r].ids]
           gone == [name |-> Gone, grants |-> {}]
<1>1. CASE \/ RoleCreateBegin(r) \/ RoleCreatePermissions(r)
           \/ RoleUpdateBegin(r) \/ RoleUpdateName(r) \/ RoleUpdatePermissions(r)
           \/ RoleUpdateHolders(r) \/ RoleRemoveBegin(r) \/ RoleRemoveCollect(r)
  BY <1>1, DatabaseOwesNothing
     DEF RoleCreateBegin, RoleCreatePermissions, RoleUpdateBegin,
         RoleUpdateName, RoleUpdatePermissions, RoleUpdateHolders,
         RoleRemoveBegin, RoleRemoveCollect, ChecksPermissions, FindsRole
<1>2. CASE UNCHANGED database
  BY <1>2, DatabaseOwesNothing
<1>3. CASE RoleCreateWrite(r)
  <2>1. UNCHANGED <<account, permission>>
    BY <1>3 DEF RoleCreateWrite
  <2>2. PICK g \in Roles :
          /\ role[g].name = None
          /\ role' = [role EXCEPT ![g] = row] \/ role' = role
    BY <1>3 DEF RoleCreateWrite
  <2>3. Holders(g) = {}
    BY <2>2, NoneAssumption DEF CatalogueIntegrity, Holders, Existing
  <2> HIDE DEF row
  <2> QED
    BY <1>2, <2>1, <2>2, <2>3, RoleOwed DEF database
<1>4. CASE RoleUpdateWrite(r)
  <2>1. PICK g \in Roles : g = req[r].id
    BY <1>4 DEF RoleUpdateWrite, TypeOK, SlotOK, RolePc
  <2>2. UNCHANGED <<account, permission>>
    BY <1>4 DEF RoleUpdateWrite
  <2>3. CASE /\ role' = [role EXCEPT ![g] = row]
             /\ Serve(r, [Idle EXCEPT !.pc = "role.holders", !.id = g])
    <3>1. req'[r].pc = "role.holders" /\ req'[r].id = g
      BY <2>3, ForAccount
    <3>2. \A u \in Holders(g) : u \in Holders(g)'
      BY <2>2 DEF Holders
    <3>3. \A u \in Holders(g) : Owes(r, u)'
      BY <3>1, <3>2 DEF Owes, Holders
    <3>4. \A u \in Holders(g) : Pending(u)'
      BY <3>3 DEF Pending
    <3> HIDE DEF row
    <3> QED
      BY <2>2, <2>3, <3>4, RoleOwed
  <2> QED
    BY <1>2, <1>4, <2>1, <2>2, <2>3 DEF RoleUpdateWrite, database
<1>5. CASE RoleRemoveDelete(r)
  <2>1. PICK g \in Roles : g = req[r].id
    BY <1>5 DEF RoleRemoveDelete, TypeOK, SlotOK, RolePc
  <2>2. UNCHANGED <<account, permission>>
    BY <1>5 DEF RoleRemoveDelete
  <2>3. CASE Holders(g) = {} /\ role' = [role EXCEPT ![g] = gone]
    <3> HIDE DEF gone
    <3> QED
      BY <2>2, <2>3, RoleOwed
  <2> QED
    BY <1>2, <1>5, <2>1, <2>2, <2>3 DEF RoleRemoveDelete, database
<1> QED
  BY <1>1, <1>3, <1>4, <1>5 DEF RoleAdminStep

(* Permissions come, or go that no role grants; nobody's identity changes. *)
LEMMA PermissionsOweNothing ==
  ASSUME TypeOK, CatalogueIntegrity, "permission.update" \notin Traffic,
         PermissionStep
  PROVE  \A u \in Users : Owed(u)
<1>1. UNCHANGED <<account, role>>
  BY DEF PermissionStep, PermissionCreate, PermissionUpdate, PermissionRemove
<1>2. \A p \in Permissions :
        \/ permission'[p] = permission[p]
        \/ \A g \in Roles : p \notin role[g].grants
  <2>1. ASSUME NEW names, PermissionCreate(names), NEW p \in Permissions,
               permission'[p] # permission[p]
        PROVE  \A g \in Roles : p \notin role[g].grants
    <3>1. permission[p] = None
      BY <2>1 DEF PermissionCreate
    <3> QED
      BY <3>1, NoneAssumption DEF CatalogueIntegrity, ExistingPermissions
  <2>2. ASSUME NEW q \in Permissions, PermissionRemove(q), NEW p \in Permissions
        PROVE  \/ permission'[p] = permission[p]
               \/ \A g \in Roles : p \notin role[g].grants
    BY <2>2 DEF PermissionRemove, TypeOK
  <2> QED
    BY <2>1, <2>2 DEF PermissionStep
<1>3. \A u \in Users : \A g \in account[u].roles :
        g \in Roles /\ \A p \in role[g].grants : p \in Permissions
  BY DEF TypeOK, Account, RoleRow
<1>4. \A u \in Users : SameIdentity(u)
  BY <1>1, <1>2, <1>3 DEF SameIdentity
<1> QED
  BY <1>4, SameOwesNothing

LEMMA NextOwes ==
  ASSUME TypeOK, CatalogueIntegrity, "permission.update" \notin Traffic, Next
  PROVE  \A u \in Users : Owed(u)
<1>1. CASE UNCHANGED database
  BY <1>1, DatabaseOwesNothing
<1>2. ASSUME NEW r \in Requests, Step(r) \/ Abort(r)
      PROVE  \A u \in Users : Owed(u)
  BY <1>1, <1>2, AuthKeepsDatabase, AccountsOwe, UserAdminOwes, RoleAdminOwes
     DEF Step, DropKey, Abort
<1>3. CASE Expire
  BY <1>1, <1>3 DEF Expire, ExpireUser, ExpireRefresh, ExpireLink
<1> QED
  BY <1>2, <1>3, PermissionsOweNothing DEF Next

---------------------------------------------------------------------------
(* Debts are paid *)

(* Each step of a request serves its own slot.                             *)
LEMMA StepsWait ==
  ASSUME TypeOK, NEW r \in Requests, Step(r) \/ Abort(r)
  PROVE  OthersWait(r)
<1> USE DEF Serve, Answer, Goto, Invalidate, OthersWait, TypeOK
<1>1. CASE AuthStep(r)
  BY <1>1
     DEF AuthStep, LoginBegin, LoginDrop, LoginRead, ReadIdentity, LoginCache,
         LoginIssue, RefreshBegin, RefreshRead, RefreshIssue, IssueTokens,
         ValidateBegin, ValidateRead, ValidateCache
<1>2. CASE AccountStep(r)
  BY <1>2
     DEF AccountStep, RegisterBegin, RegisterWrite, UserCreateBegin,
         UserCreateRoles, UserCreateWrite, InsertAccount, ResendBegin,
         ResendForBegin, VerifyLinkWrite, ForgotBegin, ResetLinkWrite,
         InsertLink, SendMail, VerifyBegin, VerifyWrite, ResetBegin,
         ResetWrite, Redeem
<1>3. CASE UserAdminStep(r)
  BY <1>3
     DEF UserAdminStep, ChangePasswordBegin, UpdatePasswordBegin, PasswordWrite,
         StorePassword, UpdateStatusBegin, UpdateStatusWrite, RemoveBegin,
         RemoveWrite, UpdateBegin, FindsOne, UpdateEmail, UpdateRoles,
         UpdateWrite, DropSession
<1>4. CASE RoleAdminStep(r)
  BY <1>4
     DEF RoleAdminStep, RoleCreateBegin, RoleCreatePermissions, RoleCreateWrite,
         RoleUpdateBegin, RoleUpdateName, RoleUpdatePermissions,
         RoleUpdateWrite, RoleUpdateHolders, RoleRemoveBegin,
         RoleRemoveCollect, RoleRemoveDelete, ChecksPermissions, FindsRole
<1>5. CASE DropKey(r) \/ Abort(r)
  BY <1>5 DEF DropKey, Abort
<1> QED
  BY <1>1, <1>2, <1>3, <1>4, <1>5 DEF Step

(* Who is to delete a key does nothing else first.                         *)
LEMMA DebtorsPay ==
  ASSUME TypeOK, NEW r \in Requests, Step(r)
  PROVE  /\ req[r].pc = "drop" => DropKey(r)
         /\ req[r].pc = "role.holders" => RoleUpdateHolders(r)
<1> USE DEF database, redis, tokens
<1>0. \A kind : Takes(r, kind) => req[r].pc = "idle"
  BY DEF Takes, Idle
<1>1. CASE AuthStep(r)
  BY <1>0, <1>1
     DEF AuthStep, LoginBegin, LoginDrop, LoginRead, LoginCache, LoginIssue,
         RefreshBegin, RefreshRead, RefreshIssue, ValidateBegin, ValidateRead,
         ValidateCache
<1>2. CASE AccountStep(r)
  BY <1>0, <1>2
     DEF AccountStep, RegisterBegin, RegisterWrite, UserCreateBegin,
         UserCreateRoles, UserCreateWrite, ResendBegin, ResendForBegin,
         VerifyLinkWrite, ForgotBegin, ResetLinkWrite, SendMail, VerifyBegin,
         VerifyWrite, ResetBegin, ResetWrite
<1>3. CASE UserAdminStep(r)
  BY <1>0, <1>3
     DEF UserAdminStep, ChangePasswordBegin, UpdatePasswordBegin, PasswordWrite,
         UpdateStatusBegin, UpdateStatusWrite, RemoveBegin, RemoveWrite,
         UpdateBegin, UpdateEmail, UpdateRoles, UpdateWrite
<1>4. CASE RoleAdminStep(r)
  <2>1. CASE RoleCreateBegin(r) \/ RoleCreatePermissions(r) \/ RoleCreateWrite(r)
    BY <1>0, <2>1 DEF RoleCreateBegin, RoleCreatePermissions, RoleCreateWrite
  <2>2. CASE \/ RoleUpdateBegin(r) \/ RoleUpdateName(r)
             \/ RoleUpdatePermissions(r) \/ RoleUpdateWrite(r)
    BY <1>0, <2>2
       DEF RoleUpdateBegin, RoleUpdateName, RoleUpdatePermissions, RoleUpdateWrite
  <2>3. CASE RoleUpdateHolders(r)
    BY <2>3 DEF RoleUpdateHolders
  <2>4. CASE RoleRemoveBegin(r) \/ RoleRemoveCollect(r) \/ RoleRemoveDelete(r)
    BY <1>0, <2>4 DEF RoleRemoveBegin, RoleRemoveCollect, RoleRemoveDelete
  <2> QED
    BY <1>4, <2>1, <2>2, <2>3, <2>4 DEF RoleAdminStep
<1>5. CASE DropKey(r)
  BY <1>5 DEF DropKey
<1> QED
  BY <1>1, <1>2, <1>3, <1>4, <1>5 DEF Step

LEMMA OwnDebt ==
  ASSUME TypeOK, NEW r \in Requests, Step(r), NEW u \in Users, Owes(r, u)
  PROVE  Owes(r, u)' \/ userCache'[u] = None
<1>1. CASE req[r].pc = "drop"
  <2>1. PICK key \in req[r].todo : Del(key) /\ Invalidate(r, req[r].todo \ {key})
    BY <1>1, DebtorsPay DEF DropKey
  <2>2. UserCache(u) \in req[r].todo
    BY <1>1 DEF Owes
  <2>3. CASE key = UserCache(u)
    BY <2>1, <2>3 DEF Del, SetUser, UserCache, TypeOK
  <2>4. CASE key # UserCache(u)
    BY <2>1, <2>2, <2>4, DropIsPending
  <2> QED
    BY <2>3, <2>4
<1>2. CASE req[r].pc = "role.holders"
  <2>1. Invalidate(r, IdentityKeys(Holders(req[r].id)))
    BY <1>2, DebtorsPay DEF RoleUpdateHolders
  <2>2. UserCache(u) \in IdentityKeys(Holders(req[r].id))
    BY <1>2 DEF Owes, IdentityKeys
  <2> QED
    BY <2>1, <2>2, DropIsPending
<1> QED
  BY <1>1, <1>2 DEF Owes

(* The debt of a request that waits stays, for a user who loses the role   *)
(* that has changed is owed the deletion by whoever takes it from him.     *)
LEMMA OthersDebt ==
  ASSUME NEW t \in Requests, req'[t] = req[t], NEW u \in Users, Owes(t, u), Owed(u)
  PROVE  Pending(u)'
<1>1. account[u].roles \subseteq account'[u].roles => Owes(t, u)'
  BY DEF Owes, Holders
<1> QED
  BY <1>1 DEF Owed, Pending

LEMMA DebtsStay ==
  ASSUME TypeOK, Next, NEW u \in Users, Pending(u), Owed(u)
  PROVE  Pending(u)' \/ userCache'[u] = None \/ Strays(u)
<1>1. PICK t \in Requests : Owes(t, u)
  BY DEF Pending
<1>2. CASE \E r \in Requests : Step(r) \/ Abort(r)
  <2>1. PICK r \in Requests : Step(r) \/ Abort(r)
    BY <1>2
  <2>2. CASE t # r
    BY <1>1, <2>1, <2>2, StepsWait, OthersDebt DEF OthersWait
  <2>3. CASE t = r /\ Abort(r)
    BY <1>1, <2>3 DEF Strays
  <2>4. CASE t = r /\ Step(r)
    BY <1>1, <2>4, OwnDebt DEF Pending
  <2> QED
    BY <2>1, <2>2, <2>3, <2>4
<1>3. CASE PermissionStep \/ Expire
  <2>1. UNCHANGED req
    BY <1>3 DEF PermissionStep, PermissionCreate, PermissionUpdate,
         PermissionRemove, Expire, ExpireUser, ExpireRefresh, ExpireLink
  <2> QED
    BY <1>1, <2>1, OthersDebt
<1> QED
  BY <1>2, <1>3 DEF Next

LEMMA CoherenceKept ==
  ASSUME TypeOK, CatalogueIntegrity, "permission.update" \notin Traffic,
         StaleOnlyAfterRace, Next, CRecord
  PROVE  StaleOnlyAfterRace'
<1> SUFFICES ASSUME NEW u \in Users, u \in Stale'
             PROVE  Pending(u)' \/ u \in strayed'
  BY DEF StaleOnlyAfterRace, Stale
<1>1. Owed(u)
  BY NextOwes
<1>2. userCache'[u] \notin {None, UserInformation(u)'}
  BY DEF Stale
<1>3. CASE Strays(u)
  BY <1>3 DEF CRecord
<1>4. CASE ~Strays(u) /\ u \in Stale
  <2>1. Pending(u) \/ u \in strayed
    BY <1>4 DEF StaleOnlyAfterRace
  <2> QED
    BY <1>1, <1>2, <1>4, <2>1, DebtsStay DEF CRecord
<1>5. CASE ~Strays(u) /\ u \notin Stale
  <2>1. userCache'[u] = userCache[u]
    BY <1>5 DEF Strays
  <2>2. UserInformation(u) = userCache[u]
    BY <1>2, <1>5, <2>1 DEF Stale
  <2> QED
    BY <1>1, <1>2, <2>1, <2>2 DEF Owed
<1> QED
  BY <1>3, <1>4, <1>5

(* With any number of users, roles and requests, and whatever dies: as long*)
(* as no permission is renamed, a cached identity that is out of date is   *)
(* about to be deleted, or was written out of date, or outlived a request  *)
(* that died before it deleted it.                                         *)
THEOREM NothingElseGoesStale ==
  ASSUME "permission.update" \notin Traffic
  PROVE  CSpec => []StaleOnlyAfterRace
<1>1. CInit => TypeOK /\ CatalogueIntegrity /\ StaleOnlyAfterRace
  <2>1. CInit => StaleOnlyAfterRace
    BY DEF CInit, Init, StaleOnlyAfterRace, Stale
  <2> QED
    BY <2>1, InitType, InitIntegrity DEF CInit
<1>2. [CNext]_cvars => [Next]_vars
  BY DEF CNext, cvars
<1>3. TypeOK /\ CatalogueIntegrity /\ [CNext]_cvars
        => TypeOK' /\ CatalogueIntegrity'
  BY <1>2, NextType, NextKeepsIntegrity
<1>4. TypeOK /\ CatalogueIntegrity /\ StaleOnlyAfterRace /\ [CNext]_cvars
        => StaleOnlyAfterRace'
  <2> SUFFICES ASSUME TypeOK, CatalogueIntegrity, StaleOnlyAfterRace,
                      [CNext]_cvars
               PROVE  StaleOnlyAfterRace'
    OBVIOUS
  <2>1. CASE UNCHANGED cvars
    BY <2>1 DEF StaleOnlyAfterRace, Stale, Pending, Owes, Holders, UserInformation,
           IsActive, IsLive, IdentityOf, cvars, vars
  <2>2. CASE CNext
    BY <2>2, CoherenceKept DEF CNext
  <2> QED
    BY <2>1, <2>2
<1> QED
  BY <1>1, <1>3, <1>4, PTL DEF CSpec

---------------------------------------------------------------------------
(* Deleted users *)

(* A write to an account does not take its deletion back.                  *)
StaysDeleted ==
    \A u \in Users :
        account[u].state = "deleted" => account'[u].state = "deleted"

LEMMA SameStaysDeleted ==
  ASSUME UNCHANGED account
  PROVE  StaysDeleted
  BY DEF StaysDeleted

LEMMA RowStaysDeleted ==
  ASSUME TypeOK, NEW v \in Users, NEW row,
         account' = [account EXCEPT ![v] = row],
         \/ account[v].state # "deleted"
         \/ row.state \in {account[v].state, "deleted"}
  PROVE  StaysDeleted
<1>1. \A u \in Users : account'[u] = IF u = v THEN row ELSE account[u]
  BY DEF TypeOK
<1> QED
  BY <1>1 DEF StaysDeleted

(* Writing one field of a row deletes it or leaves it as it was.           *)
LEMMA FieldStaysDeleted ==
  ASSUME TypeOK, NEW v \in Users, NEW x,
         \/ account' = [account EXCEPT ![v].password = x]
         \/ account' = [account EXCEPT ![v].status = x]
         \/ account' = [account EXCEPT ![v].verified = x]
         \/ account' = [account EXCEPT ![v].state = "deleted"]
  PROVE  StaysDeleted
<1>1. account[v] \in Account
  BY DEF TypeOK
<1>2. /\ [account[v] EXCEPT !.password = x].state = account[v].state
      /\ [account[v] EXCEPT !.status = x].state = account[v].state
      /\ [account[v] EXCEPT !.verified = x].state = account[v].state
      /\ [account[v] EXCEPT !.state = "deleted"].state = "deleted"
  BY <1>1 DEF Account
<1>3. \E row : /\ account' = [account EXCEPT ![v] = row]
                /\ row.state \in {account[v].state, "deleted"}
  BY <1>2
<1> QED
  BY <1>3, RowStaysDeleted

LEMMA AccountsStayDeleted ==
  ASSUME TypeOK, NEW r \in Requests, AccountStep(r)
  PROVE  StaysDeleted
<1>1. CASE \/ RegisterBegin(r) \/ UserCreateBegin(r) \/ UserCreateRoles(r)
           \/ ResendBegin(r) \/ ResendForBegin(r) \/ VerifyLinkWrite(r)
           \/ ForgotBegin(r) \/ ResetLinkWrite(r) \/ SendMail(r)
           \/ VerifyBegin(r) \/ ResetBegin(r)
  BY <1>1, SameStaysDeleted
     DEF RegisterBegin, UserCreateBegin, UserCreateRoles, ResendBegin,
         ResendForBegin, VerifyLinkWrite, ForgotBegin, ResetLinkWrite,
         InsertLink, SendMail, VerifyBegin, ResetBegin, Redeem, database
<1>2. ASSUME NEW status, NEW roles, InsertAccount(r, status, roles)
      PROVE  StaysDeleted
  <2>1. PICK v \in Users, p \in Passwords :
          /\ account[v] = Absent
          /\ account' = [account EXCEPT ![v] =
                           [state |-> "live", email |-> req[r].name,
                            password |-> p, status |-> status,
                            verified |-> FALSE, roles |-> roles]]
    BY <1>2 DEF InsertAccount
  <2>2. account[v].state # "deleted"
    BY <2>1 DEF Absent
  <2> QED
    BY <2>1, <2>2, RowStaysDeleted
<1>3. CASE RegisterWrite(r)
  BY <1>2, <1>3 DEF RegisterWrite
<1>4. CASE UserCreateWrite(r)
  BY <1>2, <1>4, SameStaysDeleted DEF UserCreateWrite
<1>5. req[r].pc \in AccountPc => req[r].id \in Users
  BY LinkedSlot
<1>6. CASE VerifyWrite(r) \/ ResetWrite(r)
  BY <1>5, <1>6, FieldStaysDeleted DEF VerifyWrite, ResetWrite, AccountPc
<1> QED
  BY <1>1, <1>3, <1>4, <1>6 DEF AccountStep

LEMMA UserAdminStaysDeleted ==
  ASSUME TypeOK, NEW r \in Requests, UserAdminStep(r)
  PROVE  StaysDeleted
<1>1. CASE \/ ChangePasswordBegin(r) \/ UpdatePasswordBegin(r)
           \/ UpdateStatusBegin(r) \/ RemoveBegin(r) \/ UpdateBegin(r)
           \/ UpdateEmail(r) \/ UpdateRoles(r)
  BY <1>1, SameStaysDeleted
     DEF ChangePasswordBegin, UpdatePasswordBegin, UpdateStatusBegin,
         RemoveBegin, UpdateBegin, FindsOne, UpdateEmail, UpdateRoles, database
<1>2. req[r].pc \in AccountPc => req[r].id \in Users
  BY LinkedSlot
<1>3. CASE PasswordWrite(r) \/ UpdateStatusWrite(r) \/ RemoveWrite(r)
  BY <1>2, <1>3, FieldStaysDeleted
     DEF PasswordWrite, StorePassword, UpdateStatusWrite, RemoveWrite, AccountPc
<1>4. CASE UpdateWrite(r)
  <2>1. PICK v \in Users : v = req[r].id
    BY <1>2, <1>4 DEF UpdateWrite, AccountPc
  <2>2. ASSUME NEW status,
               account' = [account EXCEPT ![v] =
                             [@ EXCEPT !.email = req[r].name,
                                       !.status = status,
                                       !.roles = req[r].ids]]
        PROVE  StaysDeleted
    <3> DEFINE row == [account[v] EXCEPT !.email = req[r].name,
                                         !.status = status,
                                         !.roles = req[r].ids]
    <3>1. row.state = account[v].state
      BY DEF TypeOK, Account
    <3>2. account' = [account EXCEPT ![v] = row]
      BY <2>2
    <3> HIDE DEF row
    <3> QED
      BY <3>1, <3>2, RowStaysDeleted
  <2> QED
    BY <1>4, <2>1, <2>2, SameStaysDeleted DEF UpdateWrite
<1> QED
  BY <1>1, <1>3, <1>4 DEF UserAdminStep

LEMMA NextStaysDeleted ==
  ASSUME TypeOK, Next
  PROVE  StaysDeleted
<1>1. ASSUME NEW r \in Requests, Step(r) \/ Abort(r)
      PROVE  StaysDeleted
  BY <1>1, AuthAside, AccountsStayDeleted, UserAdminStaysDeleted,
     RoleAdminAside, OthersAside, SameStaysDeleted DEF Step, Aside
<1>2. CASE PermissionStep \/ Expire
  BY <1>2, SameStaysDeleted
     DEF PermissionStep, PermissionCreate, PermissionUpdate, PermissionRemove,
         Expire, ExpireUser, ExpireRefresh, ExpireLink, database
<1> QED
  BY <1>1, <1>2 DEF Next

PastPc == {"login.cache", "login.issue", "refresh.issue", "validate.cache"}

(* Nothing but a deletion happens to the keys of u.                        *)
KeysKept(u) ==
    /\ userCache'[u] \in {userCache[u], None}
    /\ refreshCache'[u] \in {refreshCache[u], None}

(* A step of r goes past the check of live accounts only, and writes the   *)
(* keys of the account whose check it is past, if it writes any.           *)
Passes(r) ==
    /\ req'[r].pc \in PastPc =>
         \/ req[r].pc \in PastPc /\ req'[r].id = req[r].id
         \/ IsLive(req'[r].id)
    /\ \A u \in Users : r \in Past(u) \/ KeysKept(u)

LEMMA PastIs ==
  ASSUME NEW r \in Requests, NEW u
  PROVE  r \in Past(u) <=> req[r].pc \in PastPc /\ req[r].id = u
  BY DEF Past, PastPc

(* Redis is left alone, and the slot goes to an await that writes no key.  *)
LEMMA AwayPasses ==
  ASSUME NEW r \in Requests, UNCHANGED redis, req'[r].pc \notin PastPc
  PROVE  Passes(r)
  BY DEF Passes, KeysKept, redis

(* What a slot holds after each way a step may leave it.                   *)
LEMMA Reached ==
  ASSUME TypeOK, NEW r \in Requests, NEW pc, NEW x, NEW y,
         \/ Serve(r, [Idle EXCEPT !.pc = pc, !.id = x])
         \/ Serve(r, [Idle EXCEPT !.pc = pc, !.name = x])
         \/ Serve(r, [Idle EXCEPT !.pc = pc, !.link = x])
         \/ Serve(r, [Idle EXCEPT !.pc = pc, !.id = x, !.link = y])
         \/ Serve(r, [req[r] EXCEPT !.pc = pc, !.name = x])
         \/ Serve(r, [req[r] EXCEPT !.pc = pc, !.ids = x])
         \/ Serve(r, [req[r] EXCEPT !.pc = pc, !.todo = x])
  PROVE  req'[r].pc = pc
<1>1. /\ [Idle EXCEPT !.pc = pc, !.id = x].pc = pc
      /\ [Idle EXCEPT !.pc = pc, !.name = x].pc = pc
      /\ [Idle EXCEPT !.pc = pc, !.link = x].pc = pc
      /\ [Idle EXCEPT !.pc = pc, !.id = x, !.link = y].pc = pc
  BY DEF Idle
<1>2. /\ [req[r] EXCEPT !.pc = pc, !.name = x].pc = pc
      /\ [req[r] EXCEPT !.pc = pc, !.ids = x].pc = pc
      /\ [req[r] EXCEPT !.pc = pc, !.todo = x].pc = pc
  BY DEF TypeOK, Request
<1> QED
  BY <1>1, <1>2, Served

LEMMA Continued ==
  ASSUME TypeOK, NEW r \in Requests, NEW pc, NEW x,
         Goto(r, pc) \/ Serve(r, [req[r] EXCEPT !.pc = pc, !.info = x])
  PROVE  req'[r].pc = pc /\ req'[r].id = req[r].id
<1>1. /\ [req[r] EXCEPT !.pc = pc, !.info = x].pc = pc
      /\ [req[r] EXCEPT !.pc = pc, !.info = x].id = req[r].id
      /\ [req[r] EXCEPT !.pc = pc].pc = pc
      /\ [req[r] EXCEPT !.pc = pc].id = req[r].id
  BY DEF TypeOK, Request
<1> QED
  BY <1>1, Served DEF Goto

LEMMA Rests ==
  ASSUME TypeOK, NEW r \in Requests, NEW keys,
         Answer(r) \/ Invalidate(r, keys)
  PROVE  req'[r].pc \in {"idle", "drop"}
  BY Answered, Invalidated

LEMMA AccountsPass ==
  ASSUME TypeOK, NEW r \in Requests, AccountStep(r)
  PROVE  Passes(r)
<1> USE DEF PastPc
<1>1. UNCHANGED redis
  BY DEF AccountStep, RegisterBegin, RegisterWrite, UserCreateBegin,
         UserCreateRoles, UserCreateWrite, ResendBegin, ResendForBegin,
         VerifyLinkWrite, ForgotBegin, ResetLinkWrite, InsertLink, SendMail,
         VerifyBegin, VerifyWrite, ResetBegin, ResetWrite, Redeem
<1>2. ASSUME Answer(r) PROVE req'[r].pc \notin PastPc
  BY <1>2, Rests
<1>3. ASSUME NEW status, NEW roles, InsertAccount(r, status, roles)
      PROVE  req'[r].pc \notin PastPc
  BY <1>3, Reached DEF InsertAccount
<1>4. ASSUME NEW kind, InsertLink(r, kind)
      PROVE  req'[r].pc \notin PastPc
  BY <1>4, Reached DEF InsertLink
<1>5. ASSUME NEW kind, NEW pc \in {"verify.write", "reset.write"},
             Redeem(r, kind, pc)
      PROVE  req'[r].pc \notin PastPc
  <2>1. ASSUME NEW t,
               Serve(r, [Idle EXCEPT !.pc = pc, !.id = link[t].user, !.link = t])
        PROVE  req'[r].pc = pc
    BY <2>1, Reached
  <2> QED
    BY <1>2, <1>5, <2>1 DEF Redeem
<1>6. CASE RegisterBegin(r) \/ UserCreateBegin(r) \/ UserCreateRoles(r)
  <2>1. req'[r].pc \notin PastPc
    BY <1>2, <1>6, Reached DEF RegisterBegin, UserCreateBegin, UserCreateRoles
  <2> QED
    BY <1>1, <2>1, AwayPasses
<1>7. CASE RegisterWrite(r) \/ UserCreateWrite(r)
  BY <1>1, <1>2, <1>3, <1>7, AwayPasses DEF RegisterWrite, UserCreateWrite
<1>8. CASE ResendBegin(r) \/ ResendForBegin(r) \/ ForgotBegin(r)
  <2>1. req'[r].pc \notin PastPc
    BY <1>2, <1>8, Reached DEF ResendBegin, ResendForBegin, ForgotBegin
  <2> QED
    BY <1>1, <2>1, AwayPasses
<1>9. CASE VerifyLinkWrite(r) \/ ResetLinkWrite(r)
  BY <1>1, <1>4, <1>9, AwayPasses DEF VerifyLinkWrite, ResetLinkWrite
<1>10. CASE SendMail(r) \/ VerifyWrite(r) \/ ResetWrite(r)
  <2>1. req'[r].pc \notin PastPc
    BY <1>10, Rests DEF SendMail, VerifyWrite, ResetWrite
  <2> QED
    BY <1>1, <2>1, AwayPasses
<1>11. CASE VerifyBegin(r) \/ ResetBegin(r)
  BY <1>1, <1>5, <1>11, AwayPasses DEF VerifyBegin, ResetBegin
<1> QED
  BY <1>6, <1>7, <1>8, <1>9, <1>10, <1>11 DEF AccountStep

LEMMA UserAdminPasses ==
  ASSUME TypeOK, NEW r \in Requests, UserAdminStep(r)
  PROVE  Passes(r)
<1> USE DEF PastPc
<1>1. UNCHANGED redis
  BY DEF UserAdminStep, ChangePasswordBegin, UpdatePasswordBegin, PasswordWrite,
         StorePassword, UpdateStatusBegin, UpdateStatusWrite, RemoveBegin,
         RemoveWrite, UpdateBegin, FindsOne, UpdateEmail, UpdateRoles,
         UpdateWrite
<1>2. ASSUME NEW keys, Answer(r) \/ Invalidate(r, keys)
      PROVE  req'[r].pc \notin PastPc
  BY <1>2, Rests
<1>3. ASSUME NEW pc, FindsOne(r, pc)
      PROVE  req'[r].pc \in {"idle", pc}
  BY <1>3, Answered, Begun DEF FindsOne
<1>4. CASE \/ UpdatePasswordBegin(r) \/ UpdateStatusBegin(r)
           \/ RemoveBegin(r) \/ UpdateBegin(r)
  BY <1>1, <1>3, <1>4, AwayPasses
     DEF UpdatePasswordBegin, UpdateStatusBegin, RemoveBegin, UpdateBegin
<1>5. CASE ChangePasswordBegin(r) \/ UpdateEmail(r) \/ UpdateRoles(r)
  <2>1. req'[r].pc \notin PastPc
    BY <1>2, <1>5, Reached DEF ChangePasswordBegin, UpdateEmail, UpdateRoles
  <2> QED
    BY <1>1, <2>1, AwayPasses
<1>6. CASE \/ PasswordWrite(r) \/ UpdateStatusWrite(r) \/ RemoveWrite(r)
           \/ UpdateWrite(r)
  <2>1. req'[r].pc \notin PastPc
    BY <1>2, <1>6 DEF PasswordWrite, StorePassword, UpdateStatusWrite,
                      RemoveWrite, UpdateWrite, DropSession
  <2> QED
    BY <1>1, <2>1, AwayPasses
<1> QED
  BY <1>4, <1>5, <1>6 DEF UserAdminStep

LEMMA RoleAdminPasses ==
  ASSUME TypeOK, NEW r \in Requests, RoleAdminStep(r)
  PROVE  Passes(r)
<1> USE DEF PastPc
<1>1. UNCHANGED redis
  BY DEF RoleAdminStep, RoleCreateBegin, RoleCreatePermissions, RoleCreateWrite,
         RoleUpdateBegin, RoleUpdateName, RoleUpdatePermissions,
         RoleUpdateWrite, RoleUpdateHolders, RoleRemoveBegin,
         RoleRemoveCollect, RoleRemoveDelete, ChecksPermissions, FindsRole
<1>2. ASSUME NEW keys, Answer(r) \/ Invalidate(r, keys)
      PROVE  req'[r].pc \notin PastPc
  BY <1>2, Rests
<1>3. ASSUME NEW pc, pc \notin PastPc, FindsRole(r, pc) \/ ChecksPermissions(r, pc)
      PROVE  req'[r].pc \notin PastPc
  BY <1>2, <1>3, Reached DEF FindsRole, ChecksPermissions
<1>4. CASE \/ RoleCreatePermissions(r) \/ RoleUpdateBegin(r)
           \/ RoleUpdatePermissions(r) \/ RoleRemoveBegin(r)
  BY <1>1, <1>3, <1>4, AwayPasses
     DEF RoleCreatePermissions, RoleUpdateBegin, RoleUpdatePermissions,
         RoleRemoveBegin
<1>5. CASE RoleCreateBegin(r) \/ RoleUpdateName(r) \/ RoleRemoveCollect(r)
  <2>1. req'[r].pc \notin PastPc
    BY <1>2, <1>5, Reached
       DEF RoleCreateBegin, RoleUpdateName, RoleRemoveCollect
  <2> QED
    BY <1>1, <2>1, AwayPasses
<1>6. CASE \/ RoleCreateWrite(r) \/ RoleUpdateWrite(r) \/ RoleUpdateHolders(r)
           \/ RoleRemoveDelete(r)
  <2>1. req'[r].pc \notin PastPc
    BY <1>2, <1>6, Reached DEF RoleCreateWrite, RoleUpdateWrite,
                               RoleUpdateHolders, RoleRemoveDelete
  <2> QED
    BY <1>1, <2>1, AwayPasses
<1> QED
  BY <1>4, <1>5, <1>6 DEF RoleAdminStep

(* A login, a refresh and a validation each read the account before they   *)
(* write a key of his, and write no other.                                 *)
LEMMA AuthPasses ==
  ASSUME TypeOK, NEW r \in Requests, AuthStep(r)
  PROVE  Passes(r)
<1> DEFINE v == req[r].id
<1> USE DEF PastPc
<1>1. ASSUME NEW x, UNCHANGED redis,
             \/ Answer(r) \/ Invalidate(r, x)
             \/ \E pc \in {"login.drop", "refresh.read", "validate.read"} :
                    Serve(r, [Idle EXCEPT !.pc = pc, !.id = x])
      PROVE  Passes(r)
  <2>1. req'[r].pc \notin PastPc
    BY <1>1, Rests, Reached
  <2> QED
    BY <1>1, <2>1, AwayPasses
<1>2. UserInformation(v) # None => IsLive(v)
  BY DEF UserInformation, IsActive
<1>3. ASSUME NEW pc, ReadIdentity(r, pc)
      PROVE  Passes(r)
  <2>1. UNCHANGED redis
    BY <1>3 DEF ReadIdentity
  <2>2. CASE IsLive(v) /\ Serve(r, [req[r] EXCEPT !.pc = pc,
                                                 !.info = UserInformation(v)])
    <3>1. req'[r].id = v
      BY <2>2, Continued
    <3> QED
      BY <2>1, <2>2, <3>1 DEF Passes, KeysKept, redis
  <2> QED
    BY <1>1, <1>2, <1>3, <2>1, <2>2 DEF ReadIdentity
<1>4. ASSUME v \in Users, req[r].pc \in PastPc,
             \/ \E x : SetUser(v, x) /\ UNCHANGED refreshCache
             \/ \E x : SetRefresh(v, x) /\ UNCHANGED userCache,
             req'[r].pc \in PastPc => req'[r].id = v
      PROVE  Passes(r)
  <2>1. ASSUME NEW u \in Users, u # v PROVE KeysKept(u)
    BY <1>4, <2>1 DEF SetUser, SetRefresh, KeysKept, TypeOK
  <2>2. r \in Past(v)
    BY <1>4, PastIs
  <2> QED
    BY <1>4, <2>1, <2>2 DEF Passes
<1>5. req[r].pc \in PastPc => v \in Users
  BY LinkedSlot DEF AccountPc
<1>6. CASE LoginBegin(r) \/ RefreshBegin(r) \/ ValidateBegin(r)
  BY <1>1, <1>6 DEF LoginBegin, RefreshBegin, ValidateBegin
<1>7. CASE LoginDrop(r)
  <2>1. req'[r].pc = "login.read"
    BY <1>7, Continued DEF LoginDrop
  <2>2. \A u \in Users : KeysKept(u)
    BY <1>7 DEF LoginDrop, Del, UserCache, SetUser, KeysKept, TypeOK
  <2> QED
    BY <2>1, <2>2 DEF Passes
<1>8. CASE LoginRead(r) \/ ValidateRead(r)
  BY <1>3, <1>8 DEF LoginRead, ValidateRead
<1>9. CASE LoginCache(r)
  <2>1. req'[r].id = v
    BY <1>9, Continued DEF LoginCache
  <2> QED
    BY <1>4, <1>5, <1>9, <2>1 DEF LoginCache
<1>10. CASE LoginIssue(r) \/ RefreshIssue(r)
  <2>1. req'[r].pc = "idle"
    BY <1>10, Answered DEF LoginIssue, RefreshIssue, IssueTokens
  <2> QED
    BY <1>4, <1>5, <1>10, <2>1 DEF LoginIssue, RefreshIssue, IssueTokens
<1>11. CASE RefreshRead(r)
  <2>1. UNCHANGED redis
    BY <1>11 DEF RefreshRead
  <2>2. CASE IsLive(v) /\ Goto(r, "refresh.issue")
    <3>1. req'[r].id = v
      BY <2>2, Continued
    <3> QED
      BY <2>1, <2>2, <3>1 DEF Passes, KeysKept, redis
  <2> QED
    BY <1>1, <1>2, <1>11, <2>1, <2>2 DEF RefreshRead
<1>12. CASE ValidateCache(r)
  <2>1. req'[r].pc = "idle"
    BY <1>12, Answered DEF ValidateCache
  <2> QED
    BY <1>4, <1>5, <1>12, <2>1 DEF ValidateCache
<1> QED
  BY <1>6, <1>7, <1>8, <1>9, <1>10, <1>11, <1>12 DEF AuthStep

LEMMA StepsPass ==
  ASSUME TypeOK, NEW r \in Requests, Step(r) \/ Abort(r)
  PROVE  Passes(r)
<1>1. CASE DropKey(r)
  <2>1. req'[r].pc \notin PastPc
    BY <1>1, Rests DEF DropKey, PastPc
  <2>2. \A u \in Users : KeysKept(u)
    BY <1>1 DEF DropKey, Del, SetUser, SetRefresh, KeysKept, TypeOK
  <2> QED
    BY <2>1, <2>2 DEF Passes
<1>2. CASE Abort(r)
  BY <1>2, Rests, AwayPasses DEF Abort, PastPc
<1> QED
  BY <1>1, <1>2, AuthPasses, AccountsPass, UserAdminPasses, RoleAdminPasses
     DEF Step

LEMMA DeletedKept ==
  ASSUME TypeOK, [Next]_vars, NEW u \in Users, account[u].state = "deleted"
  PROVE  /\ account'[u].state = "deleted"
         /\ Past(u)' \subseteq Past(u)
         /\ Past(u) = {} => KeysKept(u)
<1>1. CASE UNCHANGED vars
  BY <1>1 DEF vars, Past, KeysKept
<1>2. ASSUME NEW r \in Requests, Step(r) \/ Abort(r)
      PROVE  /\ Past(u)' \subseteq Past(u)
             /\ Past(u) = {} => KeysKept(u)
  <2>1. Passes(r) /\ OthersWait(r)
    BY <1>2, StepsPass, StepsWait
  <2>2. ASSUME NEW q \in Past(u)' PROVE q \in Past(u)
    <3>1. q \in Requests /\ req'[q].pc \in PastPc /\ req'[q].id = u
      BY DEF Past, PastPc
    <3>2. CASE q # r
      BY <2>1, <3>1, <3>2, PastIs DEF OthersWait
    <3>3. CASE q = r
      BY <2>1, <3>1, <3>3, PastIs DEF Passes, IsLive
    <3> QED
      BY <3>2, <3>3
  <2> QED
    BY <2>1, <2>2 DEF Passes
<1>3. ASSUME PermissionStep \/ Expire
      PROVE  /\ Past(u)' \subseteq Past(u)
             /\ Past(u) = {} => KeysKept(u)
  <2>1. UNCHANGED req
    BY <1>3 DEF PermissionStep, PermissionCreate, PermissionUpdate,
         PermissionRemove, Expire, ExpireUser, ExpireRefresh, ExpireLink
  <2>2. KeysKept(u)
    BY <1>3
       DEF PermissionStep, PermissionCreate, PermissionUpdate,
           PermissionRemove, Expire, ExpireUser, ExpireRefresh, ExpireLink,
           SetUser, SetRefresh, redis, KeysKept, TypeOK
  <2> QED
    BY <2>1, <2>2 DEF Past
<1>4. Next => account'[u].state = "deleted"
  BY NextStaysDeleted DEF StaysDeleted
<1> QED
  BY <1>1, <1>2, <1>3, <1>4 DEF Next

(* With any number of users and requests, whatever they interleave with    *)
(* and whatever dies: a deleted account stays deleted, the requests past   *)
(* their check of it only become fewer, and without any its keys are       *)
(* never written again.                                                    *)
THEOREM DeletedForGood == Spec => DeletionIsFinal
<1>1. TypeOK /\ [Next]_vars =>
        \A u \in Users : account[u].state = "deleted" =>
          /\ account'[u].state = "deleted"
          /\ Past(u)' \subseteq Past(u)
          /\ Past(u) = {} => /\ userCache'[u] \in {userCache[u], None}
                             /\ refreshCache'[u] \in {refreshCache[u], None}
  BY DeletedKept DEF KeysKept
<1> QED
  BY <1>1, TypeCorrect, PTL DEF Spec, DeletionIsFinal

(* Nothing in Redis, and nobody past the check of the account, who might   *)
(* write to it.                                                            *)
Forgotten(u) ==
    /\ account[u].state = "deleted"
    /\ Past(u) = {}
    /\ userCache[u] = None
    /\ refreshCache[u] = None

(* Once Redis has forgotten a deleted user it never hears of him again,    *)
(* whatever is sent with the tokens he still holds.                        *)
THEOREM ForgottenForGood ==
  ASSUME NEW u \in Users
  PROVE  Spec => [](Forgotten(u) => []Forgotten(u))
<1>1. TypeOK /\ Forgotten(u) /\ [Next]_vars => Forgotten(u)'
  BY DeletedKept DEF Forgotten, KeysKept
<1> QED
  BY <1>1, TypeCorrect, PTL DEF Spec

=============================================================================
