------------------------ MODULE TokenHistory_proofs ------------------------
(***************************************************************************)
(* That revoked and rotated refresh tokens stay dead, and that tokens need *)
(* an active account, for every value of the constants.                    *)
(***************************************************************************)
EXTENDS TokenHistory, Backend_proofs

IssuedJtis == {t.jti : t \in issued}

RefreshPc == {"refresh.read", "refresh.issue"}

CheckedPc == {"login.cache", "login.issue", "refresh.issue"}

(* A step that issues no token leaves every stored id or drops it.         *)
Quiet ==
    /\ issued' = issued
    /\ \A u \in Users : refreshCache'[u] \in {refreshCache[u], None}

(* A step that issues a token for the account of r stores its fresh id.    *)
Mints(r) ==
    /\ req[r].pc \in {"login.issue", "refresh.issue"}
    /\ req[r].id \in Users
    /\ \E jti \in Jtis \ IssuedJtis :
        /\ refreshCache' = [refreshCache EXCEPT ![req[r].id] = jti]
        /\ issued' = issued \cup {[sub |-> req[r].id, jti |-> jti]}

(* What the proofs use of a step of request r: how it may move its slot.   *)
Transition(r) ==
    /\ \A q \in Requests \ {r} : req'[q] = req[q]
    /\ Quiet \/ Mints(r)
    /\ req[r].pc = "drop" /\ req'[r].pc = "drop" =>
            \A key \in req[r].todo : key \in req'[r].todo \/ Deleted(key)'
    /\ req[r].pc \in WritePc /\ EndsSessions(req[r].id) =>
            /\ req'[r].pc = "drop"
            /\ RefreshTokenCache(req[r].id) \in req'[r].todo
    /\ req'[r].pc \in RefreshPc =>
            \/ req[r].pc = "idle" /\ refreshCache[req'[r].id] \in Jtis
            \/ req[r].pc \in RefreshPc /\ req'[r].id = req[r].id
    /\ req'[r].pc \in CheckedPc =>
            \/ req[r].pc \in CheckedPc
            \/ req'[r].id \in ActiveUsers'

(* A step that moves no request into or out of the awaits above.           *)
LEMMA PlainTransition ==
  ASSUME NEW r \in Requests,
         \A q \in Requests \ {r} : req'[q] = req[q],
         UNCHANGED <<refreshCache, issued>>,
         req[r].pc \notin {"drop"} \cup WritePc,
         req'[r].pc \notin RefreshPc \cup CheckedPc
  PROVE  Transition(r)
<1>1. Quiet
  BY DEF Quiet
<1> QED
  BY <1>1 DEF Transition

(* The steps of AuthService and AuthStrategy.                              *)
LEMMA AuthTransition ==
  ASSUME TypeOK, NEW r \in Requests, AuthStep(r)
  PROVE  Transition(r)
<1> USE DEF database, redis, tokens
<1>1. req[r].pc \in AccountPc => req[r].id \in Users
  BY DEF TypeOK, SlotOK
<1> DEFINE u == req[r].id
<1>2. ASSUME UserInformation(u) # None, UNCHANGED account, u \in Users
      PROVE  u \in ActiveUsers'
  BY <1>2 DEF UserInformation, ActiveUsers, IsActive, IsLive
<1>3. CASE LoginIssue(r) \/ RefreshIssue(r)
  <2>1. u \in Users
    BY <1>1, <1>3 DEF LoginIssue, RefreshIssue, AccountPc
  <2>2. Mints(r)
    BY <1>3, <2>1
       DEF LoginIssue, RefreshIssue, IssueTokens, SetRefresh, Mints, IssuedJtis
  <2>3. req'[r].pc = "idle" /\ \A q \in Requests \ {r} : req'[q] = req[q]
    BY <1>3, Served DEF LoginIssue, RefreshIssue, IssueTokens, Answer, Idle
  <2>4. req[r].pc \notin {"drop"} \cup WritePc
    BY <1>3 DEF LoginIssue, RefreshIssue, WritePc
  <2> QED
    BY <2>2, <2>3, <2>4 DEF Transition, RefreshPc, CheckedPc
<1>4. CASE LoginBegin(r)
  <2>1. /\ req'[r].pc \in {"idle", "login.drop"}
        /\ \A q \in Requests \ {r} : req'[q] = req[q]
    BY <1>4, Answered, Begun DEF LoginBegin
  <2>2. req[r].pc \notin {"drop"} \cup WritePc
    BY <1>4 DEF LoginBegin, Takes, Idle, WritePc
  <2> QED
    BY <1>4, <2>1, <2>2, PlainTransition DEF LoginBegin, RefreshPc, CheckedPc
<1>5. CASE LoginDrop(r)
  <2>1. req'[r].pc = "login.read" /\ \A q \in Requests \ {r} : req'[q] = req[q]
    BY <1>5, Served DEF LoginDrop, Goto, TypeOK, Request
  <2>2. UNCHANGED <<refreshCache, issued>>
    BY <1>5 DEF LoginDrop, Del, UserCache
  <2>3. req[r].pc \notin {"drop"} \cup WritePc
    BY <1>5 DEF LoginDrop, WritePc
  <2> QED
    BY <2>1, <2>2, <2>3, PlainTransition DEF RefreshPc, CheckedPc
<1>6. ASSUME NEW pc \in {"login.cache", "validate.cache"},
             req[r].pc \in {"login.read", "validate.read"}, ReadIdentity(r, pc)
      PROVE  Transition(r)
  <2>1. req[r].pc \notin {"drop"} \cup WritePc
    BY <1>6 DEF WritePc
  <2>2. CASE UserInformation(u) = None
    <3>1. req'[r].pc = "idle" /\ \A q \in Requests \ {r} : req'[q] = req[q]
      BY <1>6, <2>2, Served DEF ReadIdentity, Answer, Idle
    <3> QED
      BY <1>6, <2>1, <3>1, PlainTransition DEF ReadIdentity, RefreshPc, CheckedPc
  <2>3. CASE UserInformation(u) # None
    <3>1. u \in ActiveUsers'
      BY <1>1, <1>2, <1>6, <2>3 DEF ReadIdentity, AccountPc
    <3>2. /\ req'[r] = [req[r] EXCEPT !.pc = pc, !.info = UserInformation(u)]
          /\ \A q \in Requests \ {r} : req'[q] = req[q]
      BY <1>6, <2>3, Served DEF ReadIdentity
    <3>3. req'[r].id = u /\ req'[r].pc = pc
      BY <3>2 DEF TypeOK, Request
    <3>4. Quiet
      BY <1>6 DEF ReadIdentity, Quiet
    <3> QED
      BY <1>6, <2>1, <3>1, <3>2, <3>3, <3>4 DEF Transition, RefreshPc
  <2> QED  BY <2>2, <2>3
<1>7. CASE LoginRead(r) \/ ValidateRead(r)
  BY <1>6, <1>7 DEF LoginRead, ValidateRead
<1>8. CASE LoginCache(r)
  <2>1. req'[r].pc = "login.issue" /\ \A q \in Requests \ {r} : req'[q] = req[q]
    BY <1>8 DEF LoginCache, Serve, TypeOK, Request
  <2>2. Quiet
    BY <1>8 DEF LoginCache, Quiet
  <2>3. req[r].pc \in CheckedPc /\ req[r].pc \notin {"drop"} \cup WritePc
    BY <1>8 DEF LoginCache, WritePc, CheckedPc
  <2> QED
    BY <2>1, <2>2, <2>3 DEF Transition, RefreshPc
<1>9. CASE RefreshBegin(r)
  <2>1. PICK t \in issued :
           IF refreshCache[t.sub] = t.jti
           THEN Serve(r, [Idle EXCEPT !.pc = "refresh.read", !.id = t.sub])
           ELSE Answer(r)
    BY <1>9 DEF RefreshBegin
  <2>2. CASE refreshCache[t.sub] # t.jti
    <3>1. req'[r].pc = "idle" /\ \A q \in Requests \ {r} : req'[q] = req[q]
      BY <2>1, <2>2, Served DEF Answer, Idle
    <3>2. req[r].pc \notin {"drop"} \cup WritePc
      BY <1>9 DEF RefreshBegin, Takes, Idle, WritePc
    <3> QED
      BY <1>9, <3>1, <3>2, PlainTransition DEF RefreshBegin, RefreshPc, CheckedPc
  <2>3. CASE refreshCache[t.sub] = t.jti
    <3>1. req'[r] = [Idle EXCEPT !.pc = "refresh.read", !.id = t.sub]
          /\ \A q \in Requests \ {r} : req'[q] = req[q]
      BY <2>1, <2>3, Served
    <3>2. req'[r].pc = "refresh.read" /\ refreshCache[req'[r].id] \in Jtis
      BY <2>3, <3>1 DEF Idle, TypeOK, Token
    <3>3. Quiet
      BY <1>9 DEF RefreshBegin, Quiet
    <3>4. req[r].pc = "idle" /\ req[r].pc \notin {"drop"} \cup WritePc
      BY <1>9 DEF RefreshBegin, Takes, Idle, WritePc
    <3> QED
      BY <3>1, <3>2, <3>3, <3>4 DEF Transition, RefreshPc, CheckedPc
  <2> QED  BY <2>2, <2>3
<1>10. CASE RefreshRead(r)
  <2>1. req[r].pc \notin {"drop"} \cup WritePc
    BY <1>10 DEF RefreshRead, WritePc
  <2>2. CASE UserInformation(u) = None
    <3>1. /\ req'[r].pc \in {"idle", "drop"}
          /\ \A q \in Requests \ {r} : req'[q] = req[q]
      BY <1>10, <2>2, Invalidated DEF RefreshRead
    <3> QED
      BY <1>10, <2>1, <3>1, PlainTransition DEF RefreshRead, RefreshPc, CheckedPc
  <2>3. CASE UserInformation(u) # None
    <3>1. u \in ActiveUsers'
      BY <1>1, <1>2, <1>10, <2>3 DEF RefreshRead, AccountPc
    <3>2. req'[r] = [req[r] EXCEPT !.pc = "refresh.issue"]
          /\ \A q \in Requests \ {r} : req'[q] = req[q]
      BY <1>10, <2>3, Served DEF RefreshRead, Goto
    <3>3. req'[r].id = u /\ req'[r].pc = "refresh.issue"
      BY <3>2 DEF TypeOK, Request
    <3>4. Quiet
      BY <1>10 DEF RefreshRead, Quiet
    <3> QED
      BY <1>10, <2>1, <3>1, <3>2, <3>3, <3>4
         DEF RefreshRead, Transition, RefreshPc
  <2> QED  BY <2>2, <2>3
<1>11. CASE ValidateBegin(r)
  <2>1. /\ req'[r].pc \in {"idle", "validate.read"}
        /\ \A q \in Requests \ {r} : req'[q] = req[q]
    BY <1>11, Answered, Begun DEF ValidateBegin
  <2>2. req[r].pc \notin {"drop"} \cup WritePc
    BY <1>11 DEF ValidateBegin, Takes, Idle, WritePc
  <2> QED
    BY <1>11, <2>1, <2>2, PlainTransition DEF ValidateBegin, RefreshPc, CheckedPc
<1>12. CASE ValidateCache(r)
  <2>1. req'[r].pc = "idle" /\ \A q \in Requests \ {r} : req'[q] = req[q]
    BY <1>12, Served DEF ValidateCache, Answer, Idle
  <2> QED
    BY <1>12, <2>1, PlainTransition
       DEF ValidateCache, WritePc, RefreshPc, CheckedPc
<1> QED
  BY <1>3, <1>4, <1>5, <1>7, <1>8, <1>9, <1>10, <1>11, <1>12 DEF AuthStep

---------------------------------------------------------------------------

(* The write of an account deletes the refresh key if it ends sessions.    *)
LEMMA WriteTransition ==
  ASSUME TypeOK, NEW r \in Requests, NEW keys, keys # {},
         Invalidate(r, keys),
         UNCHANGED <<refreshCache, issued>>,
         req[r].pc \in WritePc,
         EndsSessions(req[r].id) => RefreshTokenCache(req[r].id) \in keys
  PROVE  Transition(r)
<1>1. /\ req'[r].pc = "drop" /\ req'[r].todo = keys
      /\ \A q \in Requests \ {r} : req'[q] = req[q]
  BY Invalidated
<1>2. Quiet
  BY DEF Quiet
<1>3. req[r].pc # "drop"
  BY DEF WritePc
<1> QED
  BY <1>1, <1>2, <1>3 DEF Transition, RefreshPc, CheckedPc

(* A write that leaves the status ACTIVE and touches neither the password  *)
(* nor what else makes a user active ends no session.                      *)
LEMMA ActiveKeepsSessions ==
  ASSUME TypeOK, NEW u \in Users, NEW row,
         account' = [account EXCEPT ![u] = row],
         row.status = "ACTIVE", row.password = account[u].password,
         row.state = account[u].state, row.verified = account[u].verified
  PROVE  ~EndsSessions(u)
<1>1. account'[u] = row
  BY DEF TypeOK
<1>2. u \in ActiveUsers => u \in ActiveUsers'
  BY <1>1 DEF ActiveUsers, IsActive, IsLive
<1> QED
  BY <1>1, <1>2 DEF EndsSessions

(* dropSession deletes what the new status calls for.                      *)
LEMMA DropSessionTransition ==
  ASSUME TypeOK, NEW r \in Requests, NEW status,
         DropSession(r, req[r].id, status),
         UNCHANGED <<refreshCache, issued>>,
         req[r].pc \in WritePc,
         status = "ACTIVE" => ~EndsSessions(req[r].id)
  PROVE  Transition(r)
<1> DEFINE keys == IF status = "ACTIVE" THEN {UserCache(req[r].id)}
                                        ELSE SessionKeys(req[r].id)
<1>1. Invalidate(r, keys)
  BY DEF DropSession
<1>2. keys # {}
  BY DEF SessionKeys
<1>3. EndsSessions(req[r].id) => RefreshTokenCache(req[r].id) \in keys
  BY DEF SessionKeys
<1> HIDE DEF keys
<1> QED
  BY <1>1, <1>2, <1>3, WriteTransition

LEMMA SessionKeysFact ==
  ASSUME NEW u
  PROVE  SessionKeys(u) # {} /\ RefreshTokenCache(u) \in SessionKeys(u)
  BY DEF SessionKeys

(* The steps of ProfileService and UsersService.                           *)
LEMMA UserAdminTransition ==
  ASSUME TypeOK, NEW r \in Requests, UserAdminStep(r)
  PROVE  Transition(r)
<1> USE DEF database, redis, tokens
<1>1. req[r].pc \in AccountPc => req[r].id \in Users
  BY DEF TypeOK, SlotOK
<1> DEFINE u == req[r].id
<1>2. ASSUME NEW pc \in {"password.write", "status.write", "remove.write",
                         "update.email"},
             req[r] = Idle, FindsOne(r, pc)
      PROVE  Transition(r)
  <2>1. req'[r].pc \in {"idle", pc} /\ \A q \in Requests \ {r} : req'[q] = req[q]
    BY <1>2, Answered, Begun DEF FindsOne
  <2>2. req[r].pc \notin {"drop"} \cup WritePc
    BY <1>2 DEF Idle, WritePc
  <2> QED
    BY <1>2, <2>1, <2>2, PlainTransition DEF FindsOne, RefreshPc, CheckedPc
<1>3. CASE UpdatePasswordBegin(r) \/ UpdateStatusBegin(r) \/ RemoveBegin(r)
             \/ UpdateBegin(r)
  BY <1>2, <1>3 DEF UpdatePasswordBegin, UpdateStatusBegin, RemoveBegin,
                    UpdateBegin, Takes
<1>4. CASE ChangePasswordBegin(r)
  <2>1. /\ req'[r].pc \in {"idle", "password.write"}
        /\ \A q \in Requests \ {r} : req'[q] = req[q]
    BY <1>4, Answered, Begun DEF ChangePasswordBegin
  <2>2. req[r].pc \notin {"drop"} \cup WritePc
    BY <1>4 DEF ChangePasswordBegin, Takes, Idle, WritePc
  <2> QED
    BY <1>4, <2>1, <2>2, PlainTransition
       DEF ChangePasswordBegin, RefreshPc, CheckedPc
<1>5. CASE PasswordWrite(r)
  BY <1>5, SessionKeysFact, WriteTransition
     DEF PasswordWrite, StorePassword, WritePc
<1>6. CASE RemoveWrite(r)
  BY <1>6, SessionKeysFact, WriteTransition DEF RemoveWrite, WritePc
<1>7. CASE UpdateStatusWrite(r)
  <2>1. u \in Users
    BY <1>1, <1>7 DEF UpdateStatusWrite, AccountPc
  <2>2. PICK status \in Statuses :
           /\ account' = [account EXCEPT ![u].status = status]
           /\ DropSession(r, u, status)
    BY <1>7 DEF UpdateStatusWrite
  <2> DEFINE row == [account[u] EXCEPT !.status = status]
  <2>3. /\ row.status = status /\ row.password = account[u].password
        /\ row.state = account[u].state /\ row.verified = account[u].verified
    BY <2>1 DEF TypeOK, Account
  <2>4. account' = [account EXCEPT ![u] = row]
    BY <2>2
  <2> HIDE DEF row
  <2>5. status = "ACTIVE" => ~EndsSessions(u)
    BY <2>1, <2>3, <2>4, ActiveKeepsSessions
  <2> QED
    BY <1>7, <2>2, <2>5, DropSessionTransition DEF UpdateStatusWrite, WritePc
<1>8. CASE UpdateEmail(r) \/ UpdateRoles(r)
  <2>1. /\ req'[r].pc \in {"idle", "update.roles", "update.write"}
        /\ \A q \in Requests \ {r} : req'[q] = req[q]
    <3>1. CASE UpdateEmail(r)
      <4>1. ASSUME NEW e PROVE [req[r] EXCEPT !.pc = "update.roles", !.name = e].pc
                                 = "update.roles"
        BY DEF TypeOK, Request
      <4> QED  BY <3>1, <4>1, Answered, Served DEF UpdateEmail
    <3>2. CASE UpdateRoles(r)
      <4>1. ASSUME NEW ids PROVE [req[r] EXCEPT !.pc = "update.write", !.ids = ids].pc
                                   = "update.write"
        BY DEF TypeOK, Request
      <4> QED  BY <3>2, <4>1, Answered, Served DEF UpdateRoles
    <3> QED  BY <1>8, <3>1, <3>2
  <2>2. req[r].pc \notin {"drop"} \cup WritePc
    BY <1>8 DEF UpdateEmail, UpdateRoles, WritePc
  <2> QED
    BY <1>8, <2>1, <2>2, PlainTransition
       DEF UpdateEmail, UpdateRoles, RefreshPc, CheckedPc
<1>9. CASE UpdateWrite(r)
  <2>1. u \in Users
    BY <1>1, <1>9 DEF UpdateWrite, AccountPc
  <2>2. CASE req[r].ids = Existing(req[r].ids)
    <3>1. PICK status \in Statuses :
             /\ account' = [account EXCEPT ![u] =
                              [@ EXCEPT !.email = req[r].name,
                                        !.status = status,
                                        !.roles = req[r].ids]]
             /\ DropSession(r, u, status)
      BY <1>9, <2>2 DEF UpdateWrite
    <3> DEFINE row == [account[u] EXCEPT !.email = req[r].name,
                                         !.status = status,
                                         !.roles = req[r].ids]
    <3>2. /\ row.status = status /\ row.password = account[u].password
          /\ row.state = account[u].state /\ row.verified = account[u].verified
      BY <2>1 DEF TypeOK, Account
    <3>3. account' = [account EXCEPT ![u] = row]
      BY <3>1
    <3> HIDE DEF row
    <3>4. status = "ACTIVE" => ~EndsSessions(u)
      BY <2>1, <3>2, <3>3, ActiveKeepsSessions
    <3> QED
      BY <1>9, <3>1, <3>4, DropSessionTransition DEF UpdateWrite, WritePc
  <2>3. CASE req[r].ids # Existing(req[r].ids)
    <3>1. Answer(r) /\ UNCHANGED <<account, refreshCache, issued>>
      BY <1>9, <2>3 DEF UpdateWrite
    <3>2. ~EndsSessions(u)
      BY <3>1 DEF EndsSessions, ActiveUsers, IsActive, IsLive
    <3>3. Quiet /\ req[r].pc # "drop"
      BY <1>9, <3>1 DEF Quiet, UpdateWrite
    <3> QED
      BY <3>1, <3>2, <3>3, Answered DEF Transition, RefreshPc, CheckedPc
  <2> QED  BY <2>2, <2>3
<1> QED
  BY <1>3, <1>4, <1>5, <1>6, <1>7, <1>8, <1>9 DEF UserAdminStep

---------------------------------------------------------------------------

(* The steps of Accounts.                                                  *)
LEMMA AccountTransition ==
  ASSUME TypeOK, NEW r \in Requests, AccountStep(r)
  PROVE  Transition(r)
<1> USE DEF database, redis, tokens
<1>1. req[r].pc \in AccountPc => req[r].id \in Users
  BY DEF TypeOK, SlotOK
<1> DEFINE u == req[r].id
           Moves == {"idle", "mail", "register.write", "user.roles",
                     "user.write", "verify.link", "reset.link",
                     "verify.write", "reset.write"}
<1>2. ASSUME NEW slot, slot.pc \in Moves, Serve(r, slot)
      PROVE  req'[r].pc \in Moves /\ \A q \in Requests \ {r} : req'[q] = req[q]
  BY <1>2, Served
<1>3. ASSUME NEW pc \in Moves, NEW x, NEW y
      PROVE  /\ [Idle EXCEPT !.pc = pc, !.id = x].pc \in Moves
             /\ [Idle EXCEPT !.pc = pc, !.name = x].pc \in Moves
             /\ [Idle EXCEPT !.pc = pc, !.link = x].pc \in Moves
             /\ [Idle EXCEPT !.pc = pc, !.id = x, !.link = y].pc \in Moves
             /\ [req[r] EXCEPT !.pc = pc, !.ids = x].pc \in Moves
  BY <1>3 DEF Idle, TypeOK, Request
<1>4. Idle.pc \in Moves
  BY DEF Idle
<1>5. ASSUME req'[r].pc \in Moves, \A q \in Requests \ {r} : req'[q] = req[q],
             UNCHANGED <<refreshCache, issued>>,
             req[r].pc \notin {"drop"} \cup WritePc
      PROVE  Transition(r)
  BY <1>5, PlainTransition DEF RefreshPc, CheckedPc
<1>6. {"idle", "mail", "register.write", "user.roles", "user.write",
       "verify.link", "reset.link", "verify.write", "reset.write"} = Moves
  OBVIOUS
<1> HIDE DEF Moves
<1>7. Idle.pc \notin {"drop"} \cup WritePc
  BY DEF Idle, WritePc
<1>8. {"mail", "register.write", "user.roles", "user.write", "verify.link",
       "reset.link"} \cap ({"drop"} \cup WritePc) = {}
  BY DEF WritePc
<1>9. CASE RegisterBegin(r) \/ UserCreateBegin(r)
  BY <1>2, <1>3, <1>4, <1>5, <1>6, <1>7, <1>9
     DEF RegisterBegin, UserCreateBegin, Takes, Answer
<1>10. ASSUME NEW status, NEW roles, InsertAccount(r, status, roles)
       PROVE  req'[r].pc \in Moves /\ \A q \in Requests \ {r} : req'[q] = req[q]
  BY <1>2, <1>3, <1>6, <1>10 DEF InsertAccount
<1>11. CASE RegisterWrite(r)
  BY <1>5, <1>8, <1>10, <1>11 DEF RegisterWrite
<1>12. CASE UserCreateRoles(r)
  BY <1>2, <1>3, <1>4, <1>5, <1>6, <1>8, <1>12 DEF UserCreateRoles, Answer
<1>13. CASE UserCreateWrite(r)
  BY <1>2, <1>4, <1>5, <1>8, <1>10, <1>13 DEF UserCreateWrite, Answer
<1>14. CASE ResendBegin(r) \/ ResendForBegin(r) \/ ForgotBegin(r)
  BY <1>2, <1>3, <1>4, <1>5, <1>6, <1>7, <1>14
     DEF ResendBegin, ResendForBegin, ForgotBegin, Takes, Answer
<1>15. CASE VerifyLinkWrite(r) \/ ResetLinkWrite(r)
  BY <1>2, <1>3, <1>5, <1>6, <1>8, <1>15
     DEF VerifyLinkWrite, ResetLinkWrite, InsertLink
<1>16. CASE SendMail(r)
  BY <1>2, <1>4, <1>5, <1>8, <1>16 DEF SendMail, Answer
<1>17. CASE VerifyBegin(r) \/ ResetBegin(r)
  BY <1>2, <1>3, <1>4, <1>5, <1>6, <1>7, <1>17
     DEF VerifyBegin, ResetBegin, Redeem, Takes, Answer
<1>18. CASE VerifyWrite(r)
  <2>1. u \in Users
    BY <1>1, <1>18 DEF VerifyWrite, AccountPc
  <2>2. /\ account'[u].password = account[u].password
        /\ account'[u].state = account[u].state
        /\ account'[u].status = account[u].status
        /\ account'[u].verified = TRUE
    BY <1>18, <2>1 DEF VerifyWrite, TypeOK, Account
  <2>3. ~EndsSessions(u)
    BY <2>2 DEF EndsSessions, ActiveUsers, IsActive, IsLive
  <2>4. Quiet /\ req[r].pc # "drop"
    BY <1>18 DEF VerifyWrite, Quiet
  <2>5. req'[r].pc = "idle" /\ \A q \in Requests \ {r} : req'[q] = req[q]
    BY <1>18, Answered DEF VerifyWrite
  <2> QED
    BY <2>3, <2>4, <2>5 DEF Transition, RefreshPc, CheckedPc
<1>19. CASE ResetWrite(r)
  BY <1>19, SessionKeysFact, WriteTransition DEF ResetWrite, WritePc
<1> QED
  BY <1>9, <1>11, <1>12, <1>13, <1>14, <1>15, <1>16, <1>17, <1>18, <1>19
     DEF AccountStep

(* The steps of RolesService.                                              *)
LEMMA RoleAdminTransition ==
  ASSUME TypeOK, NEW r \in Requests, RoleAdminStep(r)
  PROVE  Transition(r)
<1> USE DEF database, redis, tokens
<1> DEFINE Moves == {"idle", "drop", "create.permissions", "create.write",
                     "role.name", "role.permissions", "role.write",
                     "role.holders", "role.collect", "role.delete"}
<1>1. ASSUME NEW slot, slot.pc \in Moves, Serve(r, slot)
      PROVE  req'[r].pc \in Moves /\ \A q \in Requests \ {r} : req'[q] = req[q]
  BY <1>1, Served
<1>2. \A x : \A pc \in Moves : [Idle EXCEPT !.pc = pc, !.id = x].pc \in Moves
                           /\ [Idle EXCEPT !.pc = pc, !.name = x].pc \in Moves
  BY DEF Idle
<1>3. /\ \A x : \A pc \in Moves : [req[r] EXCEPT !.pc = pc, !.name = x].pc \in Moves
      /\ \A x : \A pc \in Moves : [req[r] EXCEPT !.pc = pc, !.ids = x].pc \in Moves
      /\ \A x : \A pc \in Moves : [req[r] EXCEPT !.pc = pc, !.todo = x].pc \in Moves
  BY DEF TypeOK, Request
<1>4. Idle.pc \in Moves
  BY DEF Idle
<1>5. ASSUME req'[r].pc \in Moves, \A q \in Requests \ {r} : req'[q] = req[q],
             UNCHANGED <<refreshCache, issued>>,
             req[r].pc \notin {"drop"} \cup WritePc
      PROVE  Transition(r)
  BY <1>5, PlainTransition DEF RefreshPc, CheckedPc
<1> HIDE DEF Moves
<1>6. Idle.pc \notin {"drop"} \cup WritePc
  BY DEF Idle, WritePc
<1>7. {"create.permissions", "create.write", "role.name", "role.permissions",
       "role.write", "role.holders", "role.collect", "role.delete"}
        \cap ({"drop"} \cup WritePc) = {}
  BY DEF WritePc
<1>8. {"idle", "drop", "create.permissions", "create.write", "role.name",
       "role.permissions", "role.write", "role.holders", "role.collect",
       "role.delete"} = Moves
  BY DEF Moves
<1>9. CASE RoleCreateBegin(r)
  BY <1>1, <1>2, <1>4, <1>5, <1>6, <1>8, <1>9
     DEF RoleCreateBegin, Takes, Answer
<1>10. ASSUME NEW pc \in Moves, ChecksPermissions(r, pc)
       PROVE  /\ req'[r].pc \in Moves
              /\ \A q \in Requests \ {r} : req'[q] = req[q]
              /\ UNCHANGED <<refreshCache, issued>>
  BY <1>1, <1>3, <1>4, <1>10 DEF ChecksPermissions, Answer
<1>11. CASE RoleCreatePermissions(r) \/ RoleUpdatePermissions(r)
  BY <1>5, <1>7, <1>8, <1>10, <1>11
     DEF RoleCreatePermissions, RoleUpdatePermissions
<1>12. CASE RoleCreateWrite(r)
  BY <1>1, <1>4, <1>5, <1>7, <1>12 DEF RoleCreateWrite, Answer
<1>13. CASE RoleUpdateBegin(r) \/ RoleRemoveBegin(r)
  BY <1>1, <1>2, <1>4, <1>5, <1>6, <1>8, <1>13
     DEF RoleUpdateBegin, RoleRemoveBegin, Takes, FindsRole, Answer
<1>14. CASE RoleUpdateName(r)
  BY <1>1, <1>3, <1>4, <1>5, <1>7, <1>8, <1>14 DEF RoleUpdateName, Answer
<1>15. CASE RoleUpdateWrite(r)
  BY <1>1, <1>2, <1>4, <1>5, <1>7, <1>8, <1>15 DEF RoleUpdateWrite, Answer
<1>16. CASE RoleUpdateHolders(r)
  BY <1>5, <1>7, <1>8, <1>16, Invalidated DEF RoleUpdateHolders
<1>17. CASE RoleRemoveCollect(r)
  BY <1>1, <1>3, <1>5, <1>7, <1>8, <1>17 DEF RoleRemoveCollect
<1>18. CASE RoleRemoveDelete(r)
  BY <1>1, <1>4, <1>5, <1>7, <1>8, <1>18, Invalidated
     DEF RoleRemoveDelete, Answer
<1> QED
  BY <1>9, <1>11, <1>12, <1>13, <1>14, <1>15, <1>16, <1>17, <1>18
     DEF RoleAdminStep

(* A deletion of Promise.all: the key that leaves todo is deleted.         *)
LEMMA DropKeyTransition ==
  ASSUME TypeOK, NEW r \in Requests, DropKey(r)
  PROVE  /\ Transition(r)
         /\ \A key \in req[r].todo : key \in req'[r].todo \/ Deleted(key)'
<1> USE DEF database, tokens
<1>1. PICK key \in req[r].todo :
         Del(key) /\ Invalidate(r, req[r].todo \ {key})
  BY DEF DropKey
<1>2. key \in Key
  BY DEF TypeOK, Request
<1>3. key.sub \in Users /\ key.kind \in {"user", "refresh"}
  BY <1>2 DEF Key
<1>4. Quiet
  BY <1>1, <1>3 DEF DropKey, Del, SetUser, SetRefresh, Quiet, TypeOK
<1>5. Deleted(key)'
  BY <1>1, <1>3 DEF Del, SetUser, SetRefresh, Deleted, TypeOK
<1>6. /\ req'[r].pc \in {"idle", "drop"}
      /\ req'[r].todo = req[r].todo \ {key}
      /\ \A q \in Requests \ {r} : req'[q] = req[q]
  BY <1>1, Invalidated
<1>7. req[r].pc \notin WritePc
  BY DEF DropKey, WritePc
<1>8. \A k \in req[r].todo : k \in req'[r].todo \/ Deleted(k)'
  BY <1>5, <1>6
<1> QED
  BY <1>4, <1>6, <1>7, <1>8 DEF Transition, RefreshPc, CheckedPc

(* A request that dies changes no account.                                 *)
LEMMA AbortTransition ==
  ASSUME TypeOK, NEW r \in Requests, Abort(r)
  PROVE  Transition(r)
<1>1. req'[r].pc = "idle" /\ \A q \in Requests \ {r} : req'[q] = req[q]
  BY Answered DEF Abort
<1>2. Quiet
  BY DEF Abort, redis, tokens, Quiet
<1>3. ~EndsSessions(req[r].id)
  BY DEF Abort, database, EndsSessions, ActiveUsers, IsActive, IsLive
<1> QED
  BY <1>1, <1>2, <1>3 DEF Transition, RefreshPc, CheckedPc

(* Expiry and the transactions on permissions serve no slot.               *)
LEMMA SlotlessStep ==
  ASSUME TypeOK, PermissionStep \/ Expire \/ UNCHANGED vars
  PROVE  /\ UNCHANGED <<account, req>>
         /\ Quiet
<1> USE DEF database, redis, tokens, Quiet
<1>1. CASE PermissionStep
  BY <1>1 DEF PermissionStep, PermissionCreate, PermissionUpdate,
              PermissionRemove
<1>2. CASE Expire
  BY <1>2 DEF Expire, ExpireUser, ExpireRefresh, ExpireLink, SetUser,
              SetRefresh, TypeOK
<1>3. CASE UNCHANGED vars
  BY <1>3 DEF vars
<1> QED
  BY <1>1, <1>2, <1>3

---------------------------------------------------------------------------

(* The inductive invariant.                                                *)

OneOwner == \A s, t \in issued : s.jti = t.jti => s.sub = t.sub

StoredIsIssued ==
    \A u \in Users : refreshCache[u] # None =>
        [sub |-> u, jti |-> refreshCache[u]] \in issued

PastIsIssued ==
    /\ revoked \cup exchanged \subseteq IssuedJtis
    /\ \A r \in Requests : condemned[r] \subseteq IssuedJtis

PresentedIsIssued ==
    \A r \in Requests : req[r].pc \in RefreshPc =>
        [sub |-> req[r].id, jti |-> presented[r]] \in issued

(* A key that holds a condemned id is still to be deleted.                 *)
CondemnedIsPending ==
    \A r \in Requests, u \in Users :
        req[r].pc = "drop" /\ refreshCache[u] \in condemned[r] =>
            RefreshTokenCache(u) \in req[r].todo

CheckedSawActive ==
    \A r \in Requests : req[r].pc \in CheckedPc => sawActive[r]

IInv == /\ HTypeOK /\ OneOwner /\ StoredIsIssued /\ PastIsIssued
        /\ PresentedIsIssued /\ CondemnedIsPending /\ CheckedSawActive
        /\ DeadTokensStayDead

(* What any step does to the store and to every slot.                      *)
SlotMoves(q) ==
    /\ req[q].pc = "drop" /\ req'[q].pc = "drop" =>
            \A key \in req[q].todo : key \in req'[q].todo \/ Deleted(key)'
    /\ req[q].pc \in WritePc /\ EndsSessions(req[q].id) =>
            \/ req'[q].pc \in WritePc
            \/ /\ req'[q].pc = "drop"
               /\ RefreshTokenCache(req[q].id) \in req'[q].todo
    /\ req'[q].pc \in RefreshPc =>
            \/ req[q].pc = "idle" /\ refreshCache[req'[q].id] \in Jtis
            \/ req[q].pc \in RefreshPc /\ req'[q].id = req[q].id
    /\ req'[q].pc \in CheckedPc =>
            \/ req[q].pc \in CheckedPc /\ req'[q].pc \in AccountPc
            \/ req'[q].id \in ActiveUsers'
    /\ Exchanges(q) => Mints(q)

LEMMA StepMoves ==
  ASSUME TypeOK, [Next]_vars
  PROVE  /\ Quiet \/ \E r \in Requests : Mints(r)
         /\ \A q \in Requests : SlotMoves(q)
<1>1. ASSUME NEW q \in Requests, req'[q] = req[q]
      PROVE  SlotMoves(q)
  <2>1. CheckedPc \subseteq AccountPc
    BY DEF CheckedPc, AccountPc
  <2>2. RefreshPc \cap {"idle", "drop"} = {}
    BY DEF RefreshPc
  <2> QED
    BY <1>1, <2>1, <2>2 DEF SlotMoves, Exchanges
<1>2. ASSUME NEW r \in Requests, Transition(r)
      PROVE  /\ Quiet \/ Mints(r)
             /\ \A q \in Requests : SlotMoves(q)
  <2>1. CheckedPc \subseteq AccountPc
    BY DEF CheckedPc, AccountPc
  <2>2. Exchanges(r) => Mints(r)
    BY <1>2 DEF Transition, Exchanges, Quiet
  <2>3. SlotMoves(r)
    BY <1>2, <2>1, <2>2 DEF Transition, SlotMoves
  <2>4. Quiet \/ Mints(r)
    BY <1>2 DEF Transition
  <2>5. \A q \in Requests \ {r} : req'[q] = req[q]
    BY <1>2 DEF Transition
  <2> QED
    BY <1>1, <2>3, <2>4, <2>5
<1>3. CASE PermissionStep \/ Expire \/ UNCHANGED vars
  BY <1>1, <1>3, SlotlessStep
<1>4. ASSUME NEW r \in Requests, Step(r) \/ Abort(r)
      PROVE  Transition(r)
  BY <1>4, AuthTransition, AccountTransition, UserAdminTransition,
     RoleAdminTransition, DropKeyTransition, AbortTransition DEF Step
<1> QED
  BY <1>2, <1>3, <1>4 DEF Next

(* An id already issued is never stored anew.                              *)
LEMMA NoneStoredAgain ==
  ASSUME TypeOK, Quiet \/ \E r \in Requests : Mints(r),
         NEW u \in Users, refreshCache'[u] \in IssuedJtis
  PROVE  refreshCache'[u] = refreshCache[u]
<1>1. IssuedJtis \subseteq Jtis /\ None \notin Jtis
  BY NoneAssumption DEF TypeOK, Token, IssuedJtis
<1>2. CASE Quiet
  BY <1>1, <1>2 DEF Quiet
<1>3. ASSUME NEW r \in Requests, Mints(r)
      PROVE  refreshCache'[u] = refreshCache[u]
  BY <1>3 DEF Mints, TypeOK
<1> QED
  BY <1>2, <1>3

LEMMA RefreshKeyDeleted ==
  ASSUME NEW u \in Users, Deleted(RefreshTokenCache(u))'
  PROVE  refreshCache'[u] = None
  BY DEF Deleted, RefreshTokenCache

---------------------------------------------------------------------------

LEMMA InvInit == HInit => IInv
<1> SUFFICES ASSUME HInit PROVE IInv
  OBVIOUS
<1>1. TypeOK
  BY InitType DEF HInit
<1>2. /\ req = [r \in Requests |-> Idle] /\ issued = {}
      /\ refreshCache = [u \in Users |-> None]
  BY DEF HInit, Init
<1>3. \A r \in Requests : req[r].pc = "idle"
  BY <1>2 DEF Idle
<1>4. HTypeOK
  BY <1>1, <1>3 DEF HInit, HTypeOK
<1> QED
  BY <1>2, <1>3, <1>4
     DEF HInit, IInv, OneOwner, StoredIsIssued, PastIsIssued,
         PresentedIsIssued, CondemnedIsPending, CheckedSawActive, RefreshPc,
         CheckedPc, DeadTokensStayDead

(* What Record adds to a step of the store, one conjunct at a time.        *)
LEMMA InvNext ==
  ASSUME IInv, Next, Record
  PROVE  IInv'
<1>1. TypeOK /\ TypeOK'
  BY NextType DEF IInv, HTypeOK
<1>2. Quiet \/ \E r \in Requests : Mints(r)
  BY <1>1, StepMoves
<1>3. ASSUME NEW q \in Requests PROVE SlotMoves(q)
  BY <1>1, <1>3, StepMoves
<1>4. IssuedJtis \subseteq Jtis /\ IssuedJtis' \subseteq Jtis /\ None \notin Jtis
  BY <1>1, NoneAssumption DEF TypeOK, Token, IssuedJtis
<1>5. issued \subseteq issued' /\ IssuedJtis \subseteq IssuedJtis'
  BY <1>2 DEF Quiet, Mints, IssuedJtis
<1>6. ASSUME NEW u \in Users, refreshCache'[u] \in IssuedJtis
      PROVE  refreshCache'[u] = refreshCache[u]
  BY <1>1, <1>2, <1>6, NoneStoredAgain
<1>7. \A u : JtisOf(u) \subseteq IssuedJtis
  BY DEF JtisOf, IssuedJtis
<1>8. ASSUME NEW q \in Requests
      PROVE  Condemned(q) \subseteq IssuedJtis
  BY <1>7 DEF Condemned, IInv, PastIsIssued
<1>9. ASSUME NEW q \in Requests, Exchanges(q)
      PROVE  /\ presented[q] \in IssuedJtis
             /\ [sub |-> req[q].id, jti |-> presented[q]] \in issued
  <2>1. req[q].pc \in RefreshPc
    BY <1>9 DEF Exchanges, RefreshPc
  <2>2. [sub |-> req[q].id, jti |-> presented[q]] \in issued
    BY <2>1 DEF IInv, PresentedIsIssued
  <2>3. [sub |-> req[q].id, jti |-> presented[q]].jti = presented[q]
    OBVIOUS
  <2> QED
    BY <2>2, <2>3 DEF IssuedJtis
<1>10. ASSUME NEW q \in Requests, req'[q].pc \in RefreshPc
       PROVE  \/ /\ req[q].pc = "idle" /\ refreshCache[req'[q].id] \in Jtis
                 /\ presented'[q] = refreshCache[req'[q].id]
              \/ /\ req[q].pc \in RefreshPc /\ req'[q].id = req[q].id
                 /\ presented'[q] = presented[q]
  BY <1>3, <1>10 DEF SlotMoves, Record, RefreshPc
<1>12. ASSUME NEW u \in Users, NEW v, NEW jti, jti = refreshCache[u],
              jti # None, [sub |-> v, jti |-> jti] \in issued
       PROVE  u = v
  <2>1. [sub |-> u, jti |-> jti] \in issued
    BY <1>12 DEF IInv, StoredIsIssued
  <2>2. [sub |-> u, jti |-> jti].jti = [sub |-> v, jti |-> jti].jti
    OBVIOUS
  <2>3. [sub |-> u, jti |-> jti].sub = [sub |-> v, jti |-> jti].sub
    BY <1>12, <2>1, <2>2 DEF IInv, OneOwner
  <2> QED
    BY <2>3
<1>13. ASSUME NEW u \in Users, NEW v, refreshCache[u] \in JtisOf(v)
       PROVE  u = v
  <2>1. PICK t \in issued : t.sub = v /\ t.jti = refreshCache[u]
    BY <1>13 DEF JtisOf
  <2>2. t = [sub |-> v, jti |-> refreshCache[u]]
    BY <1>1, <2>1 DEF TypeOK, Token
  <2>3. refreshCache[u] # None
    BY <1>4, <2>1 DEF IssuedJtis
  <2> QED
    BY <1>12, <2>2, <2>3
<1>14. HTypeOK'
  <2>1. ASSUME NEW q \in Requests, req'[q].pc \in RefreshPc
        PROVE  presented'[q] \in Jtis
    BY <1>10, <2>1 DEF IInv, HTypeOK, RefreshPc
  <2>2. condemned' \in [Requests -> SUBSET Jtis]
    BY <1>4, <1>8 DEF Record
  <2>3. revoked' \in SUBSET Jtis
    BY <1>4, <1>8 DEF Record, IInv, HTypeOK
  <2>4. presented' \in [Requests -> Jtis \cup {None}]
    BY <2>1 DEF Record, RefreshPc
  <2>5. exchanged' \in SUBSET Jtis
    BY <1>4, <1>9 DEF Record, IInv, HTypeOK
  <2>6. sawActive' \in [Requests -> BOOLEAN]
    BY DEF Record, IInv, HTypeOK
  <2> QED
    BY <1>1, <2>1, <2>2, <2>3, <2>4, <2>5, <2>6 DEF HTypeOK, RefreshPc
<1>15. OneOwner'
  <2>1. CASE Quiet
    BY <2>1 DEF Quiet, OneOwner, IInv
  <2>2. ASSUME NEW r \in Requests, Mints(r) PROVE OneOwner'
    <3>1. PICK jti \in Jtis \ IssuedJtis :
             issued' = issued \cup {[sub |-> req[r].id, jti |-> jti]}
      BY <2>2 DEF Mints
    <3>2. \A t \in issued : t.jti # jti
      BY <3>1 DEF IssuedJtis
    <3> QED
      BY <3>1, <3>2 DEF OneOwner, IInv
  <2> QED  BY <1>2, <2>1, <2>2
<1>16. StoredIsIssued'
  <2>1. CASE Quiet
    BY <2>1 DEF Quiet, StoredIsIssued, IInv
  <2>2. ASSUME NEW r \in Requests, Mints(r) PROVE StoredIsIssued'
    BY <1>1, <2>2 DEF Mints, StoredIsIssued, IInv, TypeOK
  <2> QED  BY <1>2, <2>1, <2>2
<1>17. PastIsIssued'
  <2>1. \A q \in Requests : condemned'[q] \subseteq IssuedJtis
    BY <1>8 DEF Record
  <2>2. revoked' \cup exchanged' \subseteq IssuedJtis
    BY <1>8, <1>9 DEF Record, IInv, PastIsIssued
  <2> QED
    BY <1>5, <2>1, <2>2 DEF PastIsIssued
<1>18. PresentedIsIssued'
  <2> SUFFICES ASSUME NEW q \in Requests, req'[q].pc \in RefreshPc
               PROVE  [sub |-> req'[q].id, jti |-> presented'[q]] \in issued'
    BY DEF PresentedIsIssued
  <2>1. CASE req[q].pc \in RefreshPc /\ req'[q].id = req[q].id
             /\ presented'[q] = presented[q]
    BY <1>5, <2>1 DEF IInv, PresentedIsIssued
  <2>2. CASE req[q].pc = "idle" /\ refreshCache[req'[q].id] \in Jtis
             /\ presented'[q] = refreshCache[req'[q].id]
    <3>1. req'[q].id \in Users
      BY <1>1 DEF TypeOK, SlotOK, RefreshPc, AccountPc
    <3> QED
      BY <1>4, <1>5, <2>2, <3>1 DEF IInv, StoredIsIssued
  <2> QED  BY <1>10, <2>1, <2>2
<1>19. CondemnedIsPending'
  <2> SUFFICES ASSUME NEW q \in Requests, NEW u \in Users,
                      req'[q].pc = "drop", refreshCache'[u] \in condemned'[q]
               PROVE  RefreshTokenCache(u) \in req'[q].todo
    BY DEF CondemnedIsPending, RefreshTokenCache
  <2>1. refreshCache'[u] \in Condemned(q)
    BY DEF Record
  <2>2. refreshCache'[u] = refreshCache[u] /\ refreshCache'[u] # None
    BY <1>4, <1>6, <1>8, <2>1
  <2>3. CASE req[q].pc = "drop"
    <3>1. RefreshTokenCache(u) \in req[q].todo
      BY <2>1, <2>2, <2>3 DEF Condemned, IInv, CondemnedIsPending
    <3> QED
      BY <1>3, <2>2, <2>3, <3>1, RefreshKeyDeleted DEF SlotMoves
  <2>4. CASE req[q].pc # "drop"
    <3>1. /\ req[q].pc \in WritePc /\ EndsSessions(req[q].id)
          /\ refreshCache[u] \in JtisOf(req[q].id)
      BY <2>1, <2>2, <2>4 DEF Condemned
    <3>2. u = req[q].id
      BY <1>13, <3>1
    <3>3. req'[q].pc \notin WritePc
      BY DEF WritePc
    <3> QED
      BY <1>3, <3>1, <3>2, <3>3 DEF SlotMoves
  <2> QED  BY <2>3, <2>4
<1>20. CheckedSawActive'
  <2> SUFFICES ASSUME NEW q \in Requests, req'[q].pc \in CheckedPc
               PROVE  sawActive'[q]
    BY DEF CheckedSawActive
  <2>1. req'[q].pc \in AccountPc
    BY DEF CheckedPc, AccountPc
  <2>2. sawActive[q] \/ req'[q].id \in ActiveUsers'
    BY <1>3 DEF SlotMoves, IInv, CheckedSawActive
  <2> QED
    BY <2>1, <2>2 DEF Record
<1>21. DeadTokensStayDead'
  <2> SUFFICES ASSUME NEW u \in Users,
                      refreshCache'[u] \in revoked' \cup exchanged'
               PROVE  FALSE
    BY DEF DeadTokensStayDead
  <2>1. refreshCache'[u] \in IssuedJtis
    BY <1>8, <1>9 DEF Record, IInv, PastIsIssued
  <2>2. refreshCache'[u] = refreshCache[u] /\ refreshCache'[u] # None
    BY <1>4, <1>6, <2>1
  <2>3. refreshCache[u] \notin revoked \cup exchanged
    BY DEF IInv, DeadTokensStayDead
  <2>4. CASE \E q \in Requests : Completes(q) /\ refreshCache'[u] \in Condemned(q)
    <3>1. PICK q \in Requests :
             Completes(q) /\ refreshCache'[u] \in Condemned(q)
      BY <2>4
    <3>2. CASE req[q].pc = "drop"
      <4>1. RefreshTokenCache(u) \in req[q].todo
        BY <2>2, <3>1, <3>2 DEF Condemned, IInv, CondemnedIsPending
      <4> QED
        BY <2>2, <3>1, <4>1, RefreshKeyDeleted DEF Completes
    <3>3. CASE req[q].pc # "drop"
      <4>1. req[q].pc \in WritePc /\ EndsSessions(req[q].id)
        BY <3>1, <3>3 DEF Condemned
      <4> QED
        BY <1>3, <3>1, <4>1 DEF SlotMoves, Completes, WritePc
    <3> QED  BY <3>2, <3>3
  <2>5. CASE \E q \in Requests : Exchanges(q) /\ refreshCache'[u] = presented[q]
    <3>1. PICK q \in Requests : Exchanges(q) /\ refreshCache'[u] = presented[q]
      BY <2>5
    <3>2. u = req[q].id
      BY <1>9, <1>12, <2>2, <3>1
    <3>3. Mints(q)
      BY <1>3, <3>1 DEF SlotMoves
    <3>4. refreshCache'[u] \notin IssuedJtis
      BY <1>1, <3>2, <3>3 DEF Mints, TypeOK
    <3> QED
      BY <2>1, <3>4
  <2> QED
    BY <2>2, <2>3, <2>4, <2>5 DEF Record
<1> QED
  BY <1>14, <1>15, <1>16, <1>17, <1>18, <1>19, <1>20, <1>21 DEF IInv

(* A step that leaves every variable alone preserves the invariant.        *)
LEMMA InvStutter ==
  ASSUME IInv, UNCHANGED hvars
  PROVE  IInv'
BY DEF IInv, hvars, vars, history, HTypeOK, TypeOK, Existing, OneOwner,
       StoredIsIssued, PastIsIssued, IssuedJtis, PresentedIsIssued,
       CondemnedIsPending, CheckedSawActive, DeadTokensStayDead

(* The invariant holds in every state of every behaviour.                  *)
THEOREM Invariance == HSpec => []IInv
<1>1. IInv /\ [HNext]_hvars => IInv'
  BY InvNext, InvStutter DEF HNext
<1> QED
  BY <1>1, InvInit, PTL DEF HSpec

(* The tokens, and what is recorded of them, are what their types say; in  *)
(* particular a request that is refreshing has presented a token.          *)
THEOREM HistoryTypeCorrect == HSpec => []HTypeOK
<1>1. IInv => HTypeOK
  BY DEF IInv
<1> QED
  BY <1>1, Invariance, PTL

(* Whatever the interleaving of logins, refreshes, writes and crashes, no  *)
(* revoked and no rotated refresh token is ever stored, hence accepted,    *)
(* again.                                                                  *)
THEOREM RevocationIsFinal == HSpec => []DeadTokensStayDead
<1>1. IInv => DeadTokensStayDead
  BY DEF IInv
<1> QED
  BY <1>1, Invariance, PTL

(* Tokens are issued only to a request that has seen its account active.   *)
THEOREM IssuingNeedsActive == HSpec => []TokensNeedActiveAccount
<1>1. IInv => TokensNeedActiveAccount
  BY DEF IInv, CheckedSawActive, CheckedPc, TokensNeedActiveAccount
<1> QED
  BY <1>1, Invariance, PTL

---------------------------------------------------------------------------

LEMMA ContractInit ==
  ASSUME HInit
  PROVE  Contract!Init
BY DEF HInit, Init, Contract!Init

(* A step that mints issues; any other lets sessions end.  What the step   *)
(* adds to revoked and exchanged it withdraws, because by the invariant no *)
(* dead token is stored after it.                                          *)
LEMMA ContractNext ==
  ASSUME IInv, IInv', [HNext]_hvars
  PROVE  [Contract!Next]_(Contract!vars)
<1> DEFINE Dead == revoked \cup exchanged
           W == Dead' \ Dead
<1>0. IssuedJtis = {t.jti : t \in issued} /\ IssuedJtis' = {t.jti : t \in issued'}
  BY DEF IssuedJtis
<1>1. CASE UNCHANGED hvars
  <2>1. /\ refreshCache' = refreshCache /\ issued' = issued
        /\ revoked' = revoked /\ exchanged' = exchanged
    BY <1>1 DEF hvars, vars, history
  <2> QED
    BY <2>1 DEF Contract!vars
<1>2. CASE Next /\ Record
  <2>1. TypeOK /\ TypeOK'
    BY DEF IInv, HTypeOK
  <2>2. Quiet \/ \E r \in Requests : Mints(r)
    BY <1>2, <2>1, StepMoves
  <2>3. Contract!Withdraw(W)
    <3>1. Dead' \subseteq IssuedJtis'
      BY DEF IInv, PastIsIssued
    <3>2. \A u \in Users : refreshCache'[u] \notin Dead'
      BY DEF IInv, DeadTokensStayDead
    <3>3. Dead' = Dead \cup W
      BY <1>2 DEF Record
    <3> QED
      BY <1>0, <3>1, <3>2, <3>3 DEF Contract!Withdraw
  <2>4. W \in SUBSET Jtis
    BY DEF IInv, HTypeOK
  <2>5. CASE Quiet
    <3> DEFINE K == {u \in Users : refreshCache'[u] = None}
    <3>1. refreshCache' = [u \in Users |-> IF u \in K THEN None ELSE refreshCache[u]]
      BY <2>1, <2>5 DEF Quiet, TypeOK
    <3>2. {t.jti : t \in issued}' = {t.jti : t \in issued}
      BY <2>5 DEF Quiet
    <3>3. Contract!End(K)
      BY <3>1, <3>2 DEF Contract!End
    <3>4. K \in SUBSET Users
      OBVIOUS
    <3> HIDE DEF K, W
    <3> QED
      BY <2>3, <2>4, <3>3, <3>4 DEF Contract!Next, Contract!End, Contract!Withdraw
  <2>6. ASSUME NEW r \in Requests, Mints(r)
        PROVE  Contract!Next
    <3>1. PICK jti \in Jtis \ IssuedJtis :
             /\ refreshCache' = [refreshCache EXCEPT ![req[r].id] = jti]
             /\ issued' = issued \cup {[sub |-> req[r].id, jti |-> jti]}
      BY <2>6 DEF Mints
    <3>2. IssuedJtis' = IssuedJtis \cup {jti}
      <4>1. [sub |-> req[r].id, jti |-> jti].jti = jti
        OBVIOUS
      <4>2. \A x : x \in IssuedJtis' <=> x \in IssuedJtis \/ x = jti
        BY <3>1, <4>1 DEF IssuedJtis
      <4> QED
        BY <4>2
    <3>3. req[r].id \in Users
      BY <2>6 DEF Mints
    <3>4. Contract!Issue(req[r].id, jti)
      BY <1>0, <3>1, <3>2 DEF Contract!Issue
    <3> HIDE DEF W
    <3> QED
      BY <2>3, <2>4, <3>1, <3>3, <3>4
         DEF Contract!Next, Contract!Issue, Contract!Withdraw
  <2> QED
    BY <2>2, <2>3, <2>5, <2>6
<1> QED
  BY <1>1, <1>2 DEF HNext

(* The stored refresh-token ids implement Sessions: per user one accepted  *)
(* token, always fresh, and none that was withdrawn.                       *)
THEOREM ImplementsSessions == HSpec => KeepsContract
<1>1. HInit => Contract!Init
  BY ContractInit
<1>2. IInv /\ IInv' /\ [HNext]_hvars => [Contract!Next]_(Contract!vars)
  BY ContractNext
<1> QED
  BY <1>1, <1>2, Invariance, PTL DEF HSpec, KeepsContract, Contract!Spec

=============================================================================
