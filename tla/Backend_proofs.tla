--------------------------- MODULE Backend_proofs ---------------------------
(***************************************************************************)
(* The type invariant of Backend, for every value of the constants.        *)
(***************************************************************************)
EXTENDS Backend, TLAPS

Slot == {slot \in Request : SlotOK(slot)}

(* A free slot, and one that has only keys left to delete, are well formed.*)
LEMMA IdleIsSlot == Idle \in Slot
  BY DEF Slot, Idle, Request, SlotOK, Pc, AccountPc, RolePc, LinkPc

LEMMA DroppingIsSlot ==
  ASSUME NEW keys \in SUBSET Key
  PROVE  [Idle EXCEPT !.pc = "drop", !.todo = keys] \in Slot
  BY DEF Slot, Idle, Request, SlotOK, Pc, AccountPc, RolePc, LinkPc

(* Serve, Answer and Invalidate keep the slots well formed.                *)
LEMMA ServeType ==
  ASSUME TypeOK, NEW r \in Requests, NEW slot \in Slot, Serve(r, slot)
  PROVE  req' \in [Requests -> Slot]
  BY DEF TypeOK, Serve, Slot

LEMMA AnswerType ==
  ASSUME TypeOK, NEW r \in Requests, Answer(r)
  PROVE  req' \in [Requests -> Slot]
  BY IdleIsSlot, ServeType DEF Answer

LEMMA InvalidateType ==
  ASSUME TypeOK, NEW r \in Requests, NEW keys \in SUBSET Key,
         Invalidate(r, keys)
  PROVE  req' \in [Requests -> Slot]
  BY IdleIsSlot, DroppingIsSlot, ServeType DEF Invalidate

(* What they make of the slots.                                            *)
LEMMA Served ==
  ASSUME TypeOK, NEW r \in Requests, NEW slot, Serve(r, slot)
  PROVE  req'[r] = slot /\ \A q \in Requests \ {r} : req'[q] = req[q]
  BY DEF TypeOK, Serve

LEMMA Answered ==
  ASSUME TypeOK, NEW r \in Requests, Answer(r)
  PROVE  req'[r].pc = "idle" /\ \A q \in Requests \ {r} : req'[q] = req[q]
  BY Served DEF Answer, Idle

(* A request that begins takes the slot, or is answered at once.           *)
LEMMA Begun ==
  ASSUME TypeOK, NEW r \in Requests, NEW pc, NEW x,
         Serve(r, [Idle EXCEPT !.pc = pc, !.id = x])
  PROVE  req'[r].pc = pc /\ \A q \in Requests \ {r} : req'[q] = req[q]
<1>1. [Idle EXCEPT !.pc = pc, !.id = x].pc = pc
  BY DEF Idle
<1> QED
  BY <1>1, Served

LEMMA Invalidated ==
  ASSUME TypeOK, NEW r \in Requests, NEW keys, Invalidate(r, keys)
  PROVE  /\ req'[r].pc = IF keys = {} THEN "idle" ELSE "drop"
         /\ req'[r].todo = keys
         /\ \A q \in Requests \ {r} : req'[q] = req[q]
<1>1. [Idle EXCEPT !.pc = "drop", !.todo = keys].pc = "drop"
      /\ [Idle EXCEPT !.pc = "drop", !.todo = keys].todo = keys
  BY DEF Idle
<1>2. Idle.pc = "idle" /\ Idle.todo = {}
  BY DEF Idle
<1> QED
  BY <1>1, <1>2, Served DEF Invalidate

(* UserInformation returns an identity or null.                            *)
LEMMA UserInformationType ==
  ASSUME TypeOK, NEW u \in Users
  PROVE  UserInformation(u) \in Identity \cup {None}
<1>1. account[u] \in Account
  BY DEF TypeOK
<1>2. ASSUME NEW g \in account[u].roles
      PROVE  /\ role[g].name \in RoleNames \cup {None, Gone}
             /\ role[g].grants \subseteq Permissions
  BY <1>1, <1>2 DEF TypeOK, Account, RoleRow
<1>3. ASSUME NEW p \in Permissions
      PROVE  permission[p] \in PermissionRow
  BY DEF TypeOK
<1>4. IdentityOf(u).email \in Emails \cup {None}
  BY <1>1 DEF IdentityOf, Account
<1>5. IdentityOf(u) \in Identity
  BY <1>1, <1>2, <1>3 DEF IdentityOf, Identity, Account
<1> QED
  BY <1>5 DEF UserInformation

LEMMA SessionKeysType ==
  ASSUME NEW u \in Users
  PROVE  /\ UserCache(u) \in Key
         /\ SessionKeys(u) \subseteq Key
  BY DEF SessionKeys, UserCache, RefreshTokenCache, Key

(* Deleting a key leaves both caches well typed.                           *)
LEMMA DelType ==
  ASSUME TypeOK, NEW key \in Key, Del(key)
  PROVE  /\ userCache' \in [Users -> Identity \cup {None}]
         /\ refreshCache' \in [Users -> Jtis \cup {None}]
  BY DEF TypeOK, Del, SetUser, SetRefresh, Key

LEMMA InitType == Init => TypeOK
<1> SUFFICES ASSUME Init PROVE TypeOK
  OBVIOUS
<1>1. account \in [Users -> Account]
  <2>1. Absent \in Account
    BY StatusAssumption DEF Account, Absent
  <2>2. [state : {"live"}, email : Emails, password : Passwords,
         status : Statuses, verified : BOOLEAN,
         roles : SUBSET Existing(Roles)] \subseteq Account
    BY DEF Account, Existing
  <2> QED  BY <2>1, <2>2 DEF Init
<1>2. role \in [Roles -> RoleRow]
  BY DEF Init, RoleRow, ExistingPermissions
<1>3. permission \in [Permissions -> PermissionRow]
  BY DEF Init, PermissionRow
<1>4. req \in [Requests -> Slot]
  BY IdleIsSlot DEF Init
<1>5. NoLink \in LinkRow
  BY DEF NoLink, LinkRow
<1> QED
  BY <1>1, <1>2, <1>3, <1>4, <1>5 DEF Init, TypeOK, Slot

---------------------------------------------------------------------------

(* Every step of a request keeps the types, module by module.              *)
LEMMA AuthType ==
  ASSUME TypeOK, NEW r \in Requests, AuthStep(r)
  PROVE  TypeOK'
<1> USE DEF database, redis, tokens
<1>1. req[r] \in Slot
  BY DEF TypeOK, Slot
<1> DEFINE u == req[r].id
<1>2. ASSUME req[r].pc \in AccountPc PROVE u \in Users
  BY <1>1, <1>2 DEF Slot, SlotOK
<1>3. CASE LoginBegin(r)
  <2>1. ASSUME NEW v \in Users
        PROVE  [Idle EXCEPT !.pc = "login.drop", !.id = v] \in Slot
    BY DEF Slot, Idle, Request, SlotOK, Pc, AccountPc, RolePc, LinkPc
  <2>2. req' \in [Requests -> Slot]
    BY <1>3, <2>1, ServeType, AnswerType DEF LoginBegin, FindByMail
  <2> QED  BY <1>3, <2>2 DEF LoginBegin, TypeOK, Slot
<1>4. CASE LoginDrop(r)
  <2>1. u \in Users  BY <1>2, <1>4 DEF LoginDrop, AccountPc
  <2>2. [req[r] EXCEPT !.pc = "login.read"] \in Slot
    BY <1>1, <2>1 DEF Slot, Request, SlotOK, Pc, AccountPc, RolePc, LinkPc
  <2>3. req' \in [Requests -> Slot]
    BY <1>4, <2>2, ServeType DEF LoginDrop, Goto
  <2> QED  BY <1>4, <2>1, <2>3, DelType, SessionKeysType DEF LoginDrop, TypeOK, Slot
<1>5. ASSUME NEW pc \in {"login.cache", "validate.cache"}, u \in Users,
             ReadIdentity(r, pc)
      PROVE  TypeOK'
  <2>1. UserInformation(u) \in Identity \cup {None}
    BY <1>5, UserInformationType
  <2>2. ASSUME NEW info \in Identity
        PROVE  [req[r] EXCEPT !.pc = pc, !.info = info] \in Slot
    BY <1>1, <1>5, <2>2 DEF Slot, Request, SlotOK, Pc, AccountPc, RolePc, LinkPc
  <2>3. req' \in [Requests -> Slot]
    BY <1>5, <2>1, <2>2, ServeType, AnswerType DEF ReadIdentity
  <2> QED  BY <1>5, <2>3 DEF ReadIdentity, TypeOK, Slot
<1>6. CASE LoginRead(r)
  BY <1>2, <1>5, <1>6 DEF LoginRead, AccountPc
<1>7. ASSUME u \in Users, req[r].info \in Identity,
             SetUser(u, req[r].info)
      PROVE  userCache' \in [Users -> Identity \cup {None}]
  BY <1>7 DEF SetUser, TypeOK
<1>8. CASE LoginCache(r)
  <2>1. u \in Users /\ req[r].info \in Identity
    BY <1>1, <1>2, <1>8 DEF LoginCache, AccountPc, Slot, SlotOK
  <2>2. [req[r] EXCEPT !.pc = "login.issue", !.info = None] \in Slot
    <3> DEFINE slot == [req[r] EXCEPT !.pc = "login.issue", !.info = None]
    <3>1. slot \in Request
      BY <1>1, <2>1 DEF Slot, Request, Pc, AccountPc, RolePc
    <3>2. slot.pc = "login.issue" /\ slot.id = u
      BY <1>1 DEF Slot, Request
    <3> HIDE DEF slot
    <3>3. slot \in Slot
      BY <2>1, <3>1, <3>2 DEF Slot, SlotOK, AccountPc, RolePc, LinkPc
    <3> QED  BY <3>3 DEF slot
  <2>3. req' \in [Requests -> Slot]
    BY <1>8, <2>2, ServeType DEF LoginCache
  <2> QED  BY <1>7, <1>8, <2>1, <2>3 DEF LoginCache, TypeOK, Slot
<1>9. ASSUME u \in Users, IssueTokens(r) PROVE TypeOK'
  <2>1. req' \in [Requests -> Slot]
    BY <1>9, AnswerType DEF IssueTokens
  <2>2. refreshCache' \in [Users -> Jtis \cup {None}] /\ issued' \subseteq Token
    BY <1>9 DEF IssueTokens, SetRefresh, TypeOK, Token
  <2> QED  BY <1>9, <2>1, <2>2 DEF IssueTokens, TypeOK, Slot
<1>10. CASE LoginIssue(r) \/ RefreshIssue(r)
  BY <1>2, <1>9, <1>10 DEF LoginIssue, RefreshIssue, AccountPc
<1>11. CASE RefreshBegin(r)
  <2>1. ASSUME NEW v \in Users
        PROVE  [Idle EXCEPT !.pc = "refresh.read", !.id = v] \in Slot
    BY DEF Slot, Idle, Request, SlotOK, Pc, AccountPc, RolePc, LinkPc
  <2>2. req' \in [Requests -> Slot]
    BY <1>11, <2>1, ServeType, AnswerType DEF RefreshBegin, TypeOK, Token
  <2> QED  BY <1>11, <2>2 DEF RefreshBegin, TypeOK, Slot
<1>12. CASE RefreshRead(r)
  <2>1. u \in Users  BY <1>2, <1>12 DEF RefreshRead, AccountPc
  <2>2. [req[r] EXCEPT !.pc = "refresh.issue"] \in Slot
    BY <1>1, <2>1 DEF Slot, Request, SlotOK, Pc, AccountPc, RolePc, LinkPc
  <2>3. req' \in [Requests -> Slot]
    BY <1>12, <2>1, <2>2, ServeType, InvalidateType, SessionKeysType
       DEF RefreshRead, Goto
  <2> QED  BY <1>12, <2>3 DEF RefreshRead, TypeOK, Slot
<1>13. CASE ValidateBegin(r)
  <2>1. ASSUME NEW v \in Users
        PROVE  [Idle EXCEPT !.pc = "validate.read", !.id = v] \in Slot
    BY DEF Slot, Idle, Request, SlotOK, Pc, AccountPc, RolePc, LinkPc
  <2>2. req' \in [Requests -> Slot]
    BY <1>13, <2>1, ServeType, AnswerType
       DEF ValidateBegin, Bearers, TypeOK, Token
  <2> QED  BY <1>13, <2>2 DEF ValidateBegin, TypeOK, Slot
<1>14. CASE ValidateRead(r)
  BY <1>2, <1>5, <1>14 DEF ValidateRead, AccountPc
<1>15. CASE ValidateCache(r)
  <2>1. u \in Users /\ req[r].info \in Identity
    BY <1>1, <1>2, <1>15 DEF ValidateCache, AccountPc, Slot, SlotOK
  <2>2. req' \in [Requests -> Slot]
    BY <1>15, AnswerType DEF ValidateCache
  <2> QED  BY <1>7, <1>15, <2>1, <2>2 DEF ValidateCache, TypeOK, Slot
<1> QED
  BY <1>3, <1>4, <1>6, <1>8, <1>10, <1>11, <1>12, <1>13, <1>14, <1>15
     DEF AuthStep

LEMMA StoredPasswordType ==
  ASSUME TypeOK, NEW u \in Users,
         \E p \in Passwords : account' = [account EXCEPT ![u].password = p]
  PROVE  account' \in [Users -> Account]
<1>1. \A p \in Passwords : [account[u] EXCEPT !.password = p] \in Account
  BY DEF TypeOK, Account
<1> QED
  BY <1>1 DEF TypeOK

(* Links and accounts are inserted and updated as whole rows.              *)
LEMMA AccountsType ==
  ASSUME TypeOK, NEW r \in Requests, AccountStep(r)
  PROVE  TypeOK'
<1> USE DEF database, redis, tokens
<1>1. req[r] \in Slot
  BY DEF TypeOK, Slot
<1> DEFINE u == req[r].id
<1>2. ASSUME req[r].pc \in AccountPc PROVE u \in Users
  BY <1>1, <1>2 DEF Slot, SlotOK
<1>3. ASSUME req[r].pc \in LinkPc PROVE req[r].link \in Links
  BY <1>1, <1>3 DEF Slot, SlotOK
<1>4. ASSUME NEW t \in Links, NEW kind \in {"verify", "reset"},
             NEW v \in Users, NewLink(t, kind, v)
      PROVE  link' \in [Links -> LinkRow]
  BY <1>4 DEF NewLink, LinkRow, TypeOK
<1>5. ASSUME NEW t \in Links
      PROVE  [Idle EXCEPT !.pc = "mail", !.link = t] \in Slot
  BY <1>5 DEF Slot, Idle, Request, SlotOK, Pc, AccountPc, RolePc, LinkPc
<1>6. ASSUME NEW e \in Emails, NEW pc \in {"register.write", "user.roles"}
      PROVE  [Idle EXCEPT !.pc = pc, !.name = e] \in Slot
  BY <1>6 DEF Slot, Idle, Request, SlotOK, Pc, AccountPc, RolePc, LinkPc
<1>7. CASE RegisterBegin(r) \/ UserCreateBegin(r)
  <2>1. req' \in [Requests -> Slot]
    BY <1>6, <1>7, ServeType, AnswerType DEF RegisterBegin, UserCreateBegin
  <2> QED  BY <1>7, <2>1 DEF RegisterBegin, UserCreateBegin, TypeOK, Slot
<1>8. ASSUME NEW status \in Statuses, NEW roles \in SUBSET Roles,
             req[r].name \in Emails, InsertAccount(r, status, roles)
      PROVE  /\ account' \in [Users -> Account]
             /\ link' \in [Links -> LinkRow]
             /\ mailed' = mailed
             /\ req' \in [Requests -> Slot]
  <2>1. PICK v \in Users, t \in Links, p \in Passwords :
           /\ account' = [account EXCEPT ![v] =
                            [state |-> "live", email |-> req[r].name,
                             password |-> p, status |-> status,
                             verified |-> FALSE, roles |-> roles]]
           /\ NewLink(t, "verify", v)
           /\ Serve(r, [Idle EXCEPT !.pc = "mail", !.link = t])
           /\ mailed' = mailed
    BY <1>8 DEF InsertAccount
  <2>2. [state |-> "live", email |-> req[r].name, password |-> p,
         status |-> status, verified |-> FALSE, roles |-> roles] \in Account
    BY <1>8 DEF Account
  <2>3. account' \in [Users -> Account]
    BY <2>1, <2>2 DEF TypeOK
  <2> QED
    BY <1>4, <1>5, <2>1, <2>3, ServeType
<1>9. CASE RegisterWrite(r)
  <2>1. req[r].name \in Emails
    BY <1>1, <1>9 DEF RegisterWrite, Slot, SlotOK
  <2>2. /\ account' \in [Users -> Account]
        /\ link' \in [Links -> LinkRow]
        /\ mailed' = mailed
        /\ req' \in [Requests -> Slot]
    BY <1>8, <1>9, <2>1, StatusAssumption DEF RegisterWrite
  <2> QED  BY <1>9, <2>2 DEF RegisterWrite, TypeOK, Slot
<1>10. CASE UserCreateRoles(r)
  <2>1. ASSUME NEW ids \in SUBSET Roles
        PROVE  [req[r] EXCEPT !.pc = "user.write", !.ids = ids] \in Slot
    BY <1>1, <1>10
       DEF UserCreateRoles, Slot, Request, SlotOK, Pc, AccountPc, RolePc, LinkPc
  <2>2. req' \in [Requests -> Slot]
    BY <1>10, <2>1, ServeType, AnswerType DEF UserCreateRoles
  <2> QED  BY <1>10, <2>2 DEF UserCreateRoles, TypeOK, Slot
<1>11. CASE UserCreateWrite(r)
  <2>1. req[r].name \in Emails /\ req[r].ids \subseteq Roles
    BY <1>1, <1>11 DEF UserCreateWrite, Slot, SlotOK
  <2>2. CASE req[r].ids = Existing(req[r].ids)
    <3>1. PICK status \in Statuses : InsertAccount(r, status, req[r].ids)
      BY <1>11, <2>2 DEF UserCreateWrite
    <3>2. /\ account' \in [Users -> Account]
          /\ link' \in [Links -> LinkRow]
          /\ mailed' = mailed
          /\ req' \in [Requests -> Slot]
      BY <1>8, <2>1, <3>1
    <3> QED  BY <1>11, <3>2 DEF UserCreateWrite, TypeOK, Slot
  <2>3. CASE req[r].ids # Existing(req[r].ids)
    <3>1. req' \in [Requests -> Slot]
      BY <1>11, <2>3, AnswerType DEF UserCreateWrite
    <3> QED  BY <1>11, <2>3, <3>1 DEF UserCreateWrite, TypeOK, Slot
  <2> QED  BY <2>2, <2>3
<1>12. ASSUME NEW v \in Users, NEW pc \in {"verify.link", "reset.link"}
       PROVE  [Idle EXCEPT !.pc = pc, !.id = v] \in Slot
  BY <1>12 DEF Slot, Idle, Request, SlotOK, Pc, AccountPc, RolePc, LinkPc
<1>13. CASE ResendBegin(r) \/ ForgotBegin(r)
  <2>1. \A e \in Emails : FindByMail(e) \subseteq Users \cup {None}
    BY DEF FindByMail
  <2>2. req' \in [Requests -> Slot]
    BY <1>12, <1>13, <2>1, ServeType, AnswerType DEF ResendBegin, ForgotBegin
  <2> QED  BY <1>13, <2>2 DEF ResendBegin, ForgotBegin, TypeOK, Slot
<1>14. CASE ResendForBegin(r)
  <2>1. req' \in [Requests -> Slot]
    BY <1>12, <1>14, ServeType, AnswerType DEF ResendForBegin
  <2> QED  BY <1>14, <2>1 DEF ResendForBegin, TypeOK, Slot
<1>15. CASE VerifyLinkWrite(r) \/ ResetLinkWrite(r)
  <2>1. u \in Users
    BY <1>2, <1>15 DEF VerifyLinkWrite, ResetLinkWrite, AccountPc
  <2>2. PICK kind \in {"verify", "reset"} : InsertLink(r, kind)
    BY <1>15 DEF VerifyLinkWrite, ResetLinkWrite
  <2>3. link' \in [Links -> LinkRow] /\ req' \in [Requests -> Slot]
    BY <1>4, <1>5, <2>1, <2>2, ServeType DEF InsertLink
  <2> QED  BY <2>2, <2>3 DEF InsertLink, TypeOK, Slot
<1>16. CASE SendMail(r)
  <2>1. mailed' \subseteq Links
    BY <1>3, <1>16 DEF SendMail, LinkPc, TypeOK
  <2>2. req' \in [Requests -> Slot]
    BY <1>16, AnswerType DEF SendMail
  <2> QED  BY <1>16, <2>1, <2>2 DEF SendMail, TypeOK, Slot
<1>17. ASSUME NEW kind, NEW pc \in {"verify.write", "reset.write"},
              Redeem(r, kind, pc)
       PROVE  TypeOK'
  <2>1. ASSUME NEW t \in Links, NEW v \in Users
        PROVE  [Idle EXCEPT !.pc = pc, !.id = v, !.link = t] \in Slot
    BY DEF Slot, Idle, Request, SlotOK, Pc, AccountPc, RolePc, LinkPc
  <2>2. PICK t \in mailed :
           IF Usable(t, kind)
           THEN Serve(r, [Idle EXCEPT !.pc = pc, !.id = link[t].user, !.link = t])
           ELSE Answer(r)
    BY <1>17 DEF Redeem
  <2>3. t \in Links /\ (Usable(t, kind) => link[t].user \in Users)
    BY DEF TypeOK, LinkRow, Usable
  <2>4. req' \in [Requests -> Slot]
    BY <2>1, <2>2, <2>3, ServeType, AnswerType
  <2> QED  BY <1>17, <2>4 DEF Redeem, TypeOK, Slot
<1>18. CASE VerifyBegin(r) \/ ResetBegin(r)
  BY <1>17, <1>18 DEF VerifyBegin, ResetBegin
<1>19. ASSUME req[r].pc \in {"verify.write", "reset.write"},
              Spend(req[r].link)
       PROVE  link' \in [Links -> LinkRow]
  <2>1. req[r].link \in Links
    BY <1>3, <1>19 DEF LinkPc
  <2>2. [link[req[r].link] EXCEPT !.state = "used"] \in LinkRow
    BY <2>1 DEF TypeOK, LinkRow
  <2> QED  BY <1>19, <2>2 DEF Spend, TypeOK
<1>20. CASE VerifyWrite(r)
  <2>1. u \in Users  BY <1>2, <1>20 DEF VerifyWrite, AccountPc
  <2>2. [account[u] EXCEPT !.verified = TRUE] \in Account
    <3>1. account[u] \in Account
      BY <2>1 DEF TypeOK
    <3> QED  BY <3>1 DEF Account
  <2>3. account' \in [Users -> Account]
    BY <1>20, <2>1, <2>2 DEF VerifyWrite, TypeOK
  <2>4. link' \in [Links -> LinkRow] /\ req' \in [Requests -> Slot]
    BY <1>19, <1>20, AnswerType DEF VerifyWrite
  <2> QED  BY <1>20, <2>3, <2>4 DEF VerifyWrite, TypeOK, Slot
<1>21. CASE ResetWrite(r)
  <2>1. u \in Users  BY <1>2, <1>21 DEF ResetWrite, AccountPc
  <2>2. account' \in [Users -> Account]
    BY <1>21, <2>1, StoredPasswordType DEF ResetWrite
  <2>3. link' \in [Links -> LinkRow]
    BY <1>19, <1>21 DEF ResetWrite
  <2>4. req' \in [Requests -> Slot]
    BY <1>21, <2>1, InvalidateType, SessionKeysType DEF ResetWrite
  <2> QED  BY <1>21, <2>2, <2>3, <2>4 DEF ResetWrite, TypeOK, Slot
<1> QED
  BY <1>7, <1>9, <1>10, <1>11, <1>13, <1>14, <1>15, <1>16, <1>18, <1>20, <1>21
     DEF AccountStep

(* A write to the fields of an account keeps the row well typed.           *)
LEMMA UserAdminType ==
  ASSUME TypeOK, NEW r \in Requests, UserAdminStep(r)
  PROVE  TypeOK'
<1> USE DEF database, redis, tokens
<1>1. req[r] \in Slot
  BY DEF TypeOK, Slot
<1> DEFINE u == req[r].id
<1>2. ASSUME req[r].pc \in AccountPc PROVE u \in Users
  BY <1>1, <1>2 DEF Slot, SlotOK
<1>3. ASSUME NEW v \in Users,
             NEW pc \in {"password.write", "status.write", "remove.write",
                         "update.email"}
      PROVE  [Idle EXCEPT !.pc = pc, !.id = v] \in Slot
  BY <1>3 DEF Slot, Idle, Request, SlotOK, Pc, AccountPc, RolePc, LinkPc
<1>4. ASSUME NEW pc \in {"password.write", "status.write", "remove.write",
                         "update.email"},
             FindsOne(r, pc)
      PROVE  TypeOK'
  <2>1. req' \in [Requests -> Slot]
    BY <1>3, <1>4, ServeType, AnswerType DEF FindsOne
  <2> QED  BY <1>4, <2>1 DEF FindsOne, TypeOK, Slot
<1>5. ASSUME u \in Users, NEW status, DropSession(r, u, status)
      PROVE  req' \in [Requests -> Slot]
  BY <1>5, InvalidateType, SessionKeysType DEF DropSession
<1>6. CASE ChangePasswordBegin(r)
  <2>1. req' \in [Requests -> Slot]
    BY <1>3, <1>6, ServeType, AnswerType
       DEF ChangePasswordBegin, Bearers, TypeOK, Token
  <2> QED  BY <1>6, <2>1 DEF ChangePasswordBegin, TypeOK, Slot
<1>7. CASE UpdatePasswordBegin(r) \/ UpdateStatusBegin(r) \/ RemoveBegin(r)
             \/ UpdateBegin(r)
  BY <1>4, <1>7
     DEF UpdatePasswordBegin, UpdateStatusBegin, RemoveBegin, UpdateBegin
<1>8. CASE PasswordWrite(r)
  <2>1. u \in Users  BY <1>2, <1>8 DEF PasswordWrite, AccountPc
  <2>2. account' \in [Users -> Account]
    BY <1>8, <2>1, StoredPasswordType DEF PasswordWrite, StorePassword
  <2>3. req' \in [Requests -> Slot]
    BY <1>8, <2>1, InvalidateType, SessionKeysType
       DEF PasswordWrite, StorePassword
  <2> QED  BY <1>8, <2>2, <2>3 DEF PasswordWrite, StorePassword, TypeOK, Slot
<1>9. CASE UpdateStatusWrite(r)
  <2>1. u \in Users  BY <1>2, <1>9 DEF UpdateStatusWrite, AccountPc
  <2>2. PICK status \in Statuses :
           /\ account' = [account EXCEPT ![u].status = status]
           /\ DropSession(r, u, status)
    BY <1>9 DEF UpdateStatusWrite
  <2>3. [account[u] EXCEPT !.status = status] \in Account
    BY <2>1 DEF TypeOK, Account
  <2>4. account' \in [Users -> Account]
    BY <2>1, <2>2, <2>3 DEF TypeOK
  <2>5. req' \in [Requests -> Slot]
    BY <1>5, <2>1, <2>2
  <2> QED  BY <1>9, <2>4, <2>5 DEF UpdateStatusWrite, TypeOK, Slot
<1>10. CASE RemoveWrite(r)
  <2>1. u \in Users  BY <1>2, <1>10 DEF RemoveWrite, AccountPc
  <2>2. [account[u] EXCEPT !.state = "deleted"] \in Account
    BY <2>1 DEF TypeOK, Account
  <2>3. account' \in [Users -> Account]
    BY <1>10, <2>1, <2>2 DEF RemoveWrite, TypeOK
  <2>4. req' \in [Requests -> Slot]
    BY <1>10, <2>1, InvalidateType, SessionKeysType DEF RemoveWrite
  <2> QED  BY <1>10, <2>3, <2>4 DEF RemoveWrite, TypeOK, Slot
<1>11. CASE UpdateEmail(r)
  <2>1. u \in Users  BY <1>2, <1>11 DEF UpdateEmail, AccountPc
  <2>2. ASSUME NEW e \in Emails
        PROVE  [req[r] EXCEPT !.pc = "update.roles", !.name = e] \in Slot
    <3> DEFINE slot == [req[r] EXCEPT !.pc = "update.roles", !.name = e]
    <3>1. slot \in Request
      BY <1>1, <2>1 DEF Slot, Request, Pc, AccountPc, RolePc
    <3>2. slot.pc = "update.roles" /\ slot.id = u /\ slot.name = e
      BY <1>1 DEF Slot, Request
    <3> HIDE DEF slot
    <3>3. slot \in Slot
      BY <2>1, <3>1, <3>2 DEF Slot, SlotOK, AccountPc, RolePc, LinkPc
    <3> QED  BY <3>3 DEF slot
  <2>3. req' \in [Requests -> Slot]
    BY <1>11, <2>2, ServeType, AnswerType DEF UpdateEmail
  <2> QED  BY <1>11, <2>3 DEF UpdateEmail, TypeOK, Slot
<1>12. CASE UpdateRoles(r)
  <2>1. u \in Users  BY <1>2, <1>12 DEF UpdateRoles, AccountPc
  <2>2. ASSUME NEW ids \in SUBSET Roles
        PROVE  [req[r] EXCEPT !.pc = "update.write", !.ids = ids] \in Slot
    BY <1>1, <1>12, <2>1
       DEF UpdateRoles, Slot, Request, SlotOK, Pc, AccountPc, RolePc, LinkPc
  <2>3. req' \in [Requests -> Slot]
    BY <1>12, <2>2, ServeType, AnswerType DEF UpdateRoles
  <2> QED  BY <1>12, <2>3 DEF UpdateRoles, TypeOK, Slot
<1>13. CASE UpdateWrite(r)
  <2>1. u \in Users /\ req[r].name \in Emails /\ req[r].ids \subseteq Roles
    BY <1>1, <1>2, <1>13 DEF UpdateWrite, AccountPc, Slot, SlotOK
  <2>2. ASSUME NEW status \in Statuses
        PROVE  [account[u] EXCEPT !.email = req[r].name, !.status = status,
                                  !.roles = req[r].ids] \in Account
    <3>1. account[u] \in Account
      BY <2>1 DEF TypeOK
    <3> QED  BY <2>1, <2>2, <3>1 DEF Account
  <2>3. account' \in [Users -> Account] /\ req' \in [Requests -> Slot]
    <3>1. CASE req[r].ids = Existing(req[r].ids)
      <4>1. PICK status \in Statuses :
               /\ account' = [account EXCEPT ![u] =
                                [@ EXCEPT !.email = req[r].name,
                                          !.status = status,
                                          !.roles = req[r].ids]]
               /\ DropSession(r, u, status)
        BY <1>13, <3>1 DEF UpdateWrite
      <4> QED  BY <1>5, <2>1, <2>2, <4>1 DEF TypeOK
    <3>2. CASE req[r].ids # Existing(req[r].ids)
      BY <1>13, <3>2, AnswerType DEF UpdateWrite, TypeOK
    <3> QED  BY <3>1, <3>2
  <2> QED  BY <1>13, <2>3 DEF UpdateWrite, TypeOK, Slot
<1> QED
  BY <1>6, <1>7, <1>8, <1>9, <1>10, <1>11, <1>12, <1>13 DEF UserAdminStep

LEMMA RoleAdminType ==
  ASSUME TypeOK, NEW r \in Requests, RoleAdminStep(r)
  PROVE  TypeOK'
<1> USE DEF database, redis, tokens
<1>1. req[r] \in Slot
  BY DEF TypeOK, Slot
<1> DEFINE g == req[r].id
<1>2. ASSUME req[r].pc \in RolePc PROVE g \in Roles
  BY <1>1, <1>2 DEF Slot, SlotOK
<1>3. ASSUME NEW h \in Roles,
             NEW pc \in {"role.name", "role.collect", "role.holders"}
      PROVE  [Idle EXCEPT !.pc = pc, !.id = h] \in Slot
  BY <1>3 DEF Slot, Idle, Request, SlotOK, Pc, AccountPc, RolePc, LinkPc
<1>4. ASSUME NEW pc \in {"role.name", "role.collect"}, FindsRole(r, pc)
      PROVE  TypeOK'
  <2>1. req' \in [Requests -> Slot]
    BY <1>3, <1>4, ServeType, AnswerType DEF FindsRole
  <2> QED  BY <1>4, <2>1 DEF FindsRole, TypeOK, Slot
<1>5. ASSUME NEW pc \in {"create.write", "role.write"},
             req[r].name \in RoleNames, pc = "role.write" => g \in Roles,
             ChecksPermissions(r, pc)
      PROVE  TypeOK'
  <2>1. ASSUME NEW ids \in SUBSET Permissions
        PROVE  [req[r] EXCEPT !.pc = pc, !.ids = ids] \in Slot
    BY <1>1, <1>5 DEF Slot, Request, SlotOK, Pc, AccountPc, RolePc, LinkPc
  <2>2. req' \in [Requests -> Slot]
    BY <1>5, <2>1, ServeType, AnswerType DEF ChecksPermissions
  <2> QED  BY <1>5, <2>2 DEF ChecksPermissions, TypeOK, Slot
<1>6. ASSUME NEW users \in SUBSET Users
      PROVE  IdentityKeys(users) \subseteq Key
  BY DEF IdentityKeys, UserCache, Key
<1>7. Holders(g) \subseteq Users
  BY DEF Holders
<1>8. CASE RoleCreateBegin(r)
  <2>1. ASSUME NEW name \in RoleNames
        PROVE  [Idle EXCEPT !.pc = "create.permissions", !.name = name] \in Slot
    BY DEF Slot, Idle, Request, SlotOK, Pc, AccountPc, RolePc, LinkPc
  <2>2. req' \in [Requests -> Slot]
    BY <1>8, <2>1, ServeType, AnswerType DEF RoleCreateBegin
  <2> QED  BY <1>8, <2>2 DEF RoleCreateBegin, TypeOK, Slot
<1>9. CASE RoleCreatePermissions(r)
  BY <1>1, <1>5, <1>9 DEF RoleCreatePermissions, Slot, SlotOK
<1>10. CASE RoleCreateWrite(r)
  <2>1. req[r].name \in RoleNames /\ req[r].ids \subseteq Permissions
    BY <1>1, <1>10 DEF RoleCreateWrite, Slot, SlotOK
  <2>2. role' \in [Roles -> RoleRow]
    BY <1>10, <2>1 DEF RoleCreateWrite, TypeOK, RoleRow
  <2>3. req' \in [Requests -> Slot]
    BY <1>10, AnswerType DEF RoleCreateWrite
  <2> QED  BY <1>10, <2>2, <2>3 DEF RoleCreateWrite, TypeOK, Slot
<1>11. CASE RoleUpdateBegin(r) \/ RoleRemoveBegin(r)
  BY <1>4, <1>11 DEF RoleUpdateBegin, RoleRemoveBegin
<1>12. CASE RoleUpdateName(r)
  <2>1. g \in Roles  BY <1>2, <1>12 DEF RoleUpdateName, RolePc
  <2>2. ASSUME NEW name \in RoleNames
        PROVE  [req[r] EXCEPT !.pc = "role.permissions", !.name = name] \in Slot
    <3> DEFINE slot == [req[r] EXCEPT !.pc = "role.permissions", !.name = name]
    <3>1. slot \in Request
      BY <1>1, <2>1 DEF Slot, Request, Pc, AccountPc, RolePc
    <3>2. slot.pc = "role.permissions" /\ slot.id = g /\ slot.name = name
      BY <1>1 DEF Slot, Request
    <3> HIDE DEF slot
    <3>3. slot \in Slot
      BY <2>1, <3>1, <3>2 DEF Slot, SlotOK, AccountPc, RolePc, LinkPc
    <3> QED  BY <3>3 DEF slot
  <2>3. req' \in [Requests -> Slot]
    BY <1>12, <2>2, ServeType, AnswerType DEF RoleUpdateName
  <2> QED  BY <1>12, <2>3 DEF RoleUpdateName, TypeOK, Slot
<1>13. CASE RoleUpdatePermissions(r)
  BY <1>1, <1>2, <1>5, <1>13 DEF RoleUpdatePermissions, Slot, SlotOK, RolePc
<1>14. CASE RoleUpdateWrite(r)
  <2>1. /\ g \in Roles
        /\ req[r].name \in RoleNames
        /\ req[r].ids \subseteq Permissions
    BY <1>1, <1>2, <1>14 DEF RoleUpdateWrite, Slot, SlotOK, RolePc
  <2>2. role' \in [Roles -> RoleRow]
    BY <1>14, <2>1 DEF RoleUpdateWrite, TypeOK, RoleRow
  <2>3. req' \in [Requests -> Slot]
    BY <1>3, <1>14, <2>1, ServeType, AnswerType DEF RoleUpdateWrite
  <2> QED  BY <1>14, <2>2, <2>3 DEF RoleUpdateWrite, TypeOK, Slot
<1>15. CASE RoleUpdateHolders(r)
  <2>1. req' \in [Requests -> Slot]
    BY <1>6, <1>7, <1>15, InvalidateType DEF RoleUpdateHolders
  <2> QED  BY <1>15, <2>1 DEF RoleUpdateHolders, TypeOK, Slot
<1>16. CASE RoleRemoveCollect(r)
  <2>1. g \in Roles  BY <1>2, <1>16 DEF RoleRemoveCollect, RolePc
  <2>2. [req[r] EXCEPT !.pc = "role.delete",
                       !.todo = IdentityKeys(Holders(g))] \in Slot
    <3> DEFINE slot == [req[r] EXCEPT !.pc = "role.delete",
                                  !.todo = IdentityKeys(Holders(g))]
    <3>1. slot \in Request
      BY <1>1, <2>1, <1>6, <1>7 DEF Slot, Request, Pc, AccountPc, RolePc
    <3>2. slot.pc = "role.delete" /\ slot.id = g
      BY <1>1 DEF Slot, Request
    <3> HIDE DEF slot
    <3>3. slot \in Slot
      BY <2>1, <3>1, <3>2 DEF Slot, SlotOK, AccountPc, RolePc, LinkPc
    <3> QED  BY <3>3 DEF slot
  <2>3. req' \in [Requests -> Slot]
    BY <1>16, <2>2, ServeType DEF RoleRemoveCollect
  <2> QED  BY <1>16, <2>3 DEF RoleRemoveCollect, TypeOK, Slot
<1>17. CASE RoleRemoveDelete(r)
  <2>1. req[r].todo \subseteq Key
    BY <1>1 DEF Slot, Request
  <2>2. req' \in [Requests -> Slot]
    BY <1>17, <2>1, InvalidateType, AnswerType DEF RoleRemoveDelete
  <2>3. role' \in [Roles -> RoleRow]
    BY <1>17 DEF RoleRemoveDelete, TypeOK, RoleRow
  <2> QED  BY <1>17, <2>2, <2>3 DEF RoleRemoveDelete, TypeOK, Slot
<1> QED
  BY <1>8, <1>9, <1>10, <1>11, <1>12, <1>13, <1>14, <1>15, <1>16, <1>17
     DEF RoleAdminStep

LEMMA PermissionType ==
  ASSUME TypeOK, PermissionStep
  PROVE  TypeOK'
<1>1. /\ permission' \in [Permissions -> PermissionRow]
      /\ UNCHANGED <<account, role, redis, tokens, req>>
  <2>1. ASSUME NEW names \in SUBSET PermissionNames, PermissionCreate(names)
        PROVE  permission' \in [Permissions -> PermissionRow]
    <3> DEFINE fresh == {n \in names : \A p \in Permissions : permission[p] # n}
    <3>1. PICK f : permission' = [p \in Permissions |->
                                    IF \E n \in fresh : f[n] = p
                                    THEN CHOOSE n \in fresh : f[n] = p
                                    ELSE permission[p]]
      BY <2>1 DEF PermissionCreate
    <3>2. ASSUME NEW p \in Permissions, \E n \in fresh : f[n] = p
          PROVE  (CHOOSE n \in fresh : f[n] = p) \in PermissionNames
      BY <3>2
    <3> QED  BY <3>1, <3>2 DEF TypeOK, PermissionRow
  <2>2. ASSUME NEW p \in Permissions, NEW name \in PermissionNames,
               PermissionUpdate(p, name) \/ PermissionRemove(p)
        PROVE  permission' \in [Permissions -> PermissionRow]
    BY <2>2 DEF PermissionUpdate, PermissionRemove, TypeOK, PermissionRow
  <2>3. ASSUME NEW p \in Permissions, PermissionRemove(p)
        PROVE  permission' \in [Permissions -> PermissionRow]
    BY <2>3 DEF PermissionRemove, TypeOK, PermissionRow
  <2> QED
    BY <2>1, <2>2, <2>3
       DEF PermissionStep, PermissionCreate, PermissionUpdate, PermissionRemove
<1> QED
  BY <1>1 DEF TypeOK, redis, tokens

LEMMA DropKeyType ==
  ASSUME TypeOK, NEW r \in Requests, DropKey(r)
  PROVE  TypeOK'
<1>1. req[r].todo \subseteq Key
  BY DEF TypeOK, Request
<1>2. PICK key \in req[r].todo : Del(key) /\ Invalidate(r, req[r].todo \ {key})
  BY DEF DropKey
<1>3. req' \in [Requests -> Slot]
  BY <1>1, <1>2, InvalidateType
<1> QED
  BY <1>1, <1>2, <1>3, DelType DEF DropKey, database, tokens, TypeOK, Slot

LEMMA NextType ==
  ASSUME TypeOK, [Next]_vars
  PROVE  TypeOK'
<1>1. ASSUME NEW r \in Requests, Step(r) PROVE TypeOK'
  BY <1>1, AuthType, AccountsType, UserAdminType, RoleAdminType, DropKeyType
     DEF Step
<1>2. ASSUME NEW r \in Requests, Abort(r) PROVE TypeOK'
  BY <1>2, AnswerType DEF Abort, database, redis, tokens, TypeOK, Slot
<1>3. CASE PermissionStep
  BY <1>3, PermissionType
<1>4. CASE Expire
  <2>1. ASSUME NEW u \in Users, ExpireUser(u) \/ ExpireRefresh(u)
        PROVE  TypeOK'
    BY <2>1 DEF ExpireUser, ExpireRefresh, SetUser, SetRefresh, database,
                tokens, TypeOK
  <2>2. ASSUME NEW t \in Links, ExpireLink(t) PROVE TypeOK'
    <3>1. link' \in [Links -> LinkRow]
      BY <2>2 DEF ExpireLink, TypeOK, LinkRow
    <3> QED
      BY <2>2, <3>1 DEF ExpireLink, database, redis, TypeOK
  <2> QED
    BY <1>4, <2>1, <2>2 DEF Expire
<1>5. CASE UNCHANGED vars
  BY <1>5 DEF vars, TypeOK
<1> QED
  BY <1>1, <1>2, <1>3, <1>4, <1>5 DEF Next

(* Every variable keeps its type, and a request at an await holds what the *)
(* handler has established by then: an account id, an identity that was    *)
(* read and found, a checked address, role ids or permission ids.          *)
THEOREM TypeCorrect == Spec => []TypeOK
<1>1. TypeOK /\ [Next]_vars => TypeOK'
  BY NextType
<1> QED
  BY InitType, <1>1, PTL DEF Spec

=============================================================================
