----------------------- MODULE AddressHistory_proofs -----------------------
(***************************************************************************)
(* That two live accounts share an address only after a race, for every    *)
(* value of the constants.                                                 *)
(***************************************************************************)
EXTENDS AddressHistory, Records_proofs

InsertPc == {"register.write", "user.roles", "user.write"}

(* What a request knows between its look-up and its write, unless it has   *)
(* been overtaken: no account but its own has the address.                 *)
Clear(r) ==
    req[r].pc \in LookedUpPc =>
        /\ req[r].pc \in InsertPc => req[r].id = None
        /\ ~overtaken[r] =>
                \A v \in Users \ {req[r].id} : AddressOf(v) # req[r].name

(* The inductive invariant.                                                *)
AddressInv ==
    /\ \A u \in Users : IsLive(u) => AddressOf(u) # None
    /\ \A r \in Requests : Clear(r)
    /\ SharedOnlyAfterRace

(* A step after which every live account was live before, at its address.  *)
KeepsAddresses ==
    \A u \in Users : IsLive(u)' => IsLive(u) /\ AddressOf(u)' = AddressOf(u)

(* A step in which r writes one account, its own or a new one.             *)
Places(r) ==
    /\ req[r].pc \in LookedUpPc
    /\ req'[r].pc \notin LookedUpPc
    /\ \E u \in Users :
        /\ u = req[r].id \/ req[r].pc \in InsertPc
        /\ IsLive(u)' => AddressOf(u)' = req[r].name
        /\ \A v \in Users \ {u} : account'[v] = account[v]

(* The look-up of r has found no account but its own.                      *)
Finds(r) ==
    /\ req[r].pc \notin LookedUpPc
    /\ req'[r].name # None
    /\ req'[r].pc \in InsertPc => req'[r].id = None
    /\ \A v \in Users : AddressOf(v) = req'[r].name =>
            req'[r].id \in Users /\ AddressOf(req'[r].id) = req'[r].name

Retains(r) ==
    /\ req[r].pc \in LookedUpPc
    /\ req'[r].name = req[r].name /\ req'[r].id = req[r].id
    /\ req'[r].pc \in InsertPc => req[r].pc \in InsertPc

(* What the proof uses of a step of request r.                             *)
AddressStep(r) ==
    /\ OthersWait(r)
    /\ KeepsAddresses \/ Places(r)
    /\ req'[r].pc \in LookedUpPc => UNCHANGED account /\ (Finds(r) \/ Retains(r))

LEMMA SameAddress ==
  ASSUME NEW u \in Users, account'[u] = account[u]
  PROVE  AddressOf(u)' = AddressOf(u) /\ (IsLive(u)' <=> IsLive(u))
  BY DEF AddressOf, IsLive

LEMMA AccountsStand ==
  ASSUME UNCHANGED account
  PROVE  KeepsAddresses
  BY SameAddress DEF KeepsAddresses

LEMMA NameIsNotNone ==
  ASSUME TypeOK, NEW r \in Requests, req[r].pc \in LookedUpPc
  PROVE  req[r].name # None
<1>1. req[r].pc \in {"update.roles", "update.write", "register.write",
                     "user.roles", "user.write"} => req[r].name \in Emails
  BY DEF TypeOK, SlotOK
<1> QED
  BY <1>1, NoneAssumption DEF LookedUpPc

(* Another request keeps what it knows, or has been overtaken.             *)
LEMMA OthersStayClear ==
  ASSUME TypeOK, NEW q \in Requests, Clear(q), req'[q] = req[q], Record
  PROVE  Clear(q)'
<1> SUFFICES ASSUME req[q].pc \in LookedUpPc
             PROVE  /\ req[q].pc \in InsertPc => req[q].id = None
                    /\ ~overtaken'[q] =>
                         \A v \in Users \ {req[q].id} : AddressOf(v)' # req[q].name
  BY DEF Clear
<1>1. req[q].pc \in InsertPc => req[q].id = None
  BY DEF Clear
<1>2. ASSUME ~overtaken'[q], NEW v \in Users \ {req[q].id}
      PROVE  AddressOf(v)' # req[q].name
  <2>1. ~Overtakes(q)
    BY <1>2 DEF Record
  <2>2. ~overtaken[q]
    BY <2>1 DEF Overtakes
  <2>3. AddressOf(v) # req[q].name
    BY <1>2, <2>2 DEF Clear
  <2> QED
    BY <1>2, <2>1, <2>3 DEF Overtakes
<1> QED
  BY <1>1, <1>2

(* A step that gives no account an address keeps the three conjuncts.      *)
LEMMA KeptIsKept ==
  ASSUME AddressInv, KeepsAddresses, Record
  PROVE  /\ \A u \in Users : IsLive(u)' => AddressOf(u)' # None
         /\ SharedOnlyAfterRace'
<1>1. \A u \in Users : IsLive(u)' => AddressOf(u)' # None
  BY DEF AddressInv, KeepsAddresses
<1>2. ASSUME NEW u \in Users, NEW v \in Users, u # v, IsLive(u)',
             AddressOf(u)' = AddressOf(v)'
      PROVE  u \in contested' \/ v \in contested'
  <2>1. IsLive(v)'
    BY <1>1, <1>2 DEF AddressOf
  <2>2. /\ IsLive(u) /\ AddressOf(u)' = AddressOf(u)
        /\ AddressOf(v)' = AddressOf(v)
    BY <1>2, <2>1 DEF KeepsAddresses
  <2>3. u \in contested \/ v \in contested
    BY <1>2, <2>2 DEF AddressInv, SharedOnlyAfterRace
  <2> QED
    BY <2>2, <2>3 DEF Record
<1> QED
  BY <1>1, <1>2 DEF SharedOnlyAfterRace

(* The account r writes is alone at its address, or recorded as contested. *)
LEMMA PlacedIsRecorded ==
  ASSUME TypeOK, AddressInv, NEW r \in Requests, Places(r), Record
  PROVE  /\ \A u \in Users : IsLive(u)' => AddressOf(u)' # None
         /\ SharedOnlyAfterRace'
<1>1. PICK u \in Users : /\ u = req[r].id \/ req[r].pc \in InsertPc
                         /\ IsLive(u)' => AddressOf(u)' = req[r].name
                         /\ \A v \in Users \ {u} : account'[v] = account[v]
  BY DEF Places
<1>2. req[r].pc \in LookedUpPc /\ req'[r].pc \notin LookedUpPc
  BY DEF Places
<1>3. \A v \in Users \ {u} :
        AddressOf(v)' = AddressOf(v) /\ (IsLive(v)' <=> IsLive(v))
  BY <1>1, SameAddress
<1>4. \A v \in Users : IsLive(v)' => AddressOf(v)' # None
  BY <1>1, <1>2, <1>3, NameIsNotNone DEF AddressInv
<1>5. ASSUME NEW v \in Users \ {u}, IsLive(u)', IsLive(v)',
             AddressOf(u)' = AddressOf(v)'
      PROVE  u \in contested' \/ v \in contested'
  <2>1. AddressOf(v) = req[r].name
    BY <1>1, <1>3, <1>5
  <2>2. CASE AddressOf(u) = req[r].name
    <3>1. IsLive(u)
      BY <1>2, <2>2, NameIsNotNone DEF AddressOf
    <3>2. u \in contested \/ v \in contested
      BY <1>5, <2>1, <2>2, <3>1 DEF AddressInv, SharedOnlyAfterRace
    <3>3. AddressOf(u)' = AddressOf(u) /\ AddressOf(v)' = AddressOf(v)
      BY <1>1, <1>3, <1>5, <2>2
    <3> QED
      BY <3>2, <3>3 DEF Record
  <2>3. CASE AddressOf(u) # req[r].name
    <3>1. v # req[r].id
      BY <1>1, <1>2, <1>5, NoneAssumption DEF AddressInv, Clear
    <3>2. overtaken[r]
      BY <1>2, <2>1, <3>1 DEF AddressInv, Clear
    <3>3. account'[u] # account[u]
      BY <1>1, <1>5, <2>3, SameAddress
    <3> QED
      BY <1>2, <3>2, <3>3 DEF Record, Addresses
  <2> QED
    BY <2>2, <2>3
<1>6. ASSUME NEW v \in Users \ {u}, NEW w \in Users \ {u}, v # w, IsLive(v)',
             AddressOf(v)' = AddressOf(w)'
      PROVE  v \in contested' \/ w \in contested'
  <2>1. v \in contested \/ w \in contested
    BY <1>3, <1>6 DEF AddressInv, SharedOnlyAfterRace
  <2> QED
    BY <1>3, <2>1 DEF Record
<1>7. ASSUME NEW v \in Users, NEW w \in Users, v # w, IsLive(v)',
             AddressOf(v)' = AddressOf(w)'
      PROVE  v \in contested' \/ w \in contested'
  <2>1. IsLive(w)'
    BY <1>4, <1>7 DEF AddressOf
  <2> QED
    BY <1>5, <1>6, <1>7, <2>1
<1> QED
  BY <1>4, <1>7 DEF SharedOnlyAfterRace

(* A request that goes on after its look-up knows what it says it knows.   *)
LEMMA StepIsClear ==
  ASSUME TypeOK, AddressInv, NEW r \in Requests, AddressStep(r), Record
  PROVE  Clear(r)'
<1> SUFFICES ASSUME req'[r].pc \in LookedUpPc
             PROVE  /\ req'[r].pc \in InsertPc => req'[r].id = None
                    /\ ~overtaken'[r] => \A v \in Users \ {req'[r].id} :
                                            AddressOf(v)' # req'[r].name
  BY DEF Clear
<1>1. \A v \in Users : AddressOf(v)' = AddressOf(v)
  BY SameAddress DEF AddressStep
<1>2. CASE Finds(r)
  <2>1. ASSUME ~overtaken'[r], NEW v \in Users \ {req'[r].id},
               AddressOf(v) = req'[r].name
        PROVE  FALSE
    <3>1. ~Overtakes(r)
      BY <2>1 DEF Record
    <3>2. req'[r].id \in Users /\ AddressOf(req'[r].id) = req'[r].name
      BY <1>2, <2>1 DEF Finds
    <3> QED
      BY <1>2, <2>1, <3>1, <3>2 DEF Overtakes, Finds
  <2> QED
    BY <1>1, <1>2, <2>1 DEF Finds
<1>3. CASE Retains(r)
  <2>1. Clear(r) /\ req[r].pc \in LookedUpPc
    BY <1>3 DEF AddressInv, Retains
  <2>2. ~overtaken'[r] => ~overtaken[r]
    BY <2>1 DEF Record, Overtakes
  <2> QED
    BY <1>1, <1>3, <2>1, <2>2 DEF Clear, Retains
<1> QED
  BY <1>2, <1>3 DEF AddressStep

LEMMA AddressStepKeeps ==
  ASSUME TypeOK, AddressInv, NEW r \in Requests, AddressStep(r), Record
  PROVE  AddressInv'
<1>1. \A q \in Requests : Clear(q)'
  BY StepIsClear, OthersStayClear DEF AddressStep, OthersWait, AddressInv
<1> QED
  BY <1>1, KeptIsKept, PlacedIsRecorded DEF AddressStep, AddressInv

LEMMA NoRequestStepKeeps ==
  ASSUME TypeOK, AddressInv, UNCHANGED <<account, req>>, Record
  PROVE  AddressInv'
<1>1. \A q \in Requests : Clear(q)'
  BY OthersStayClear DEF AddressInv
<1> QED
  BY <1>1, AccountsStand, KeptIsKept DEF AddressInv

---------------------------------------------------------------------------

LEMMA AsideStep ==
  ASSUME NEW r \in Requests, Aside(r)
  PROVE  AddressStep(r)
  BY AccountsStand DEF Aside, AddressStep, ReliantPc, LookedUpPc

(* Writing another field moves no address, and deletes or keeps the row.   *)
LEMMA FieldKeepsAddress ==
  ASSUME TypeOK, NEW v, NEW x,
         \/ account' = [account EXCEPT ![v].password = x]
         \/ account' = [account EXCEPT ![v].status = x]
         \/ account' = [account EXCEPT ![v].state = "deleted"]
         \/ account' = [account EXCEPT ![v].verified = TRUE]
  PROVE  KeepsAddresses
<1> SUFFICES ASSUME NEW u \in Users, account'[u].state = "live"
             PROVE  /\ account[u].state = "live"
                    /\ account'[u].email = account[u].email
  BY DEF KeepsAddresses, AddressOf, IsLive
<1>1. account[u] \in Account
  BY DEF TypeOK
<1>2. /\ [account[u] EXCEPT !.password = x].state = account[u].state
      /\ [account[u] EXCEPT !.password = x].email = account[u].email
      /\ [account[u] EXCEPT !.status = x].state = account[u].state
      /\ [account[u] EXCEPT !.status = x].email = account[u].email
      /\ [account[u] EXCEPT !.state = "deleted"].state = "deleted"
      /\ [account[u] EXCEPT !.verified = TRUE].state = account[u].state
      /\ [account[u] EXCEPT !.verified = TRUE].email = account[u].email
  BY <1>1 DEF Account
<1>3. CASE u # v
  BY <1>3 DEF TypeOK
<1>4. CASE u = v
  BY <1>2, <1>4 DEF TypeOK
<1> QED
  BY <1>3, <1>4

(* A step that moves r out of, or not into, the awaits after a look-up.    *)
LEMMA PlainStep ==
  ASSUME NEW r \in Requests, OthersWait(r), KeepsAddresses,
         req'[r].pc \notin LookedUpPc
  PROVE  AddressStep(r)
  BY DEF AddressStep

LEMMA LookedUp ==
  ASSUME TypeOK, NEW e \in Emails, NEW u \in FindByMail(e)
  PROVE  /\ u = None => \A v \in Users : AddressOf(v) # e
         /\ u # None => u \in Users /\ AddressOf(u) = e
<1>1. e # None
  BY NoneAssumption
<1>2. ASSUME u = None, NEW v \in Users PROVE AddressOf(v) # e
  BY <1>1, <1>2, NoneAssumption DEF FindByMail, AddressOf
<1>3. ASSUME u # None PROVE u \in Users /\ AddressOf(u) = e
  BY <1>3 DEF FindByMail, AddressOf
<1> QED
  BY <1>2, <1>3

(* register and create begin with the look-up.                             *)
LEMMA InsertBegins ==
  ASSUME TypeOK, NEW r \in Requests, NEW pc \in InsertPc,
         req[r] = Idle, UNCHANGED account,
         \E e \in Emails : \E u \in FindByMail(e) :
            IF u = None THEN Serve(r, [Idle EXCEPT !.pc = pc, !.name = e])
                        ELSE Answer(r)
  PROVE  AddressStep(r)
<1>0. PICK e \in Emails : \E u \in FindByMail(e) :
         IF u = None THEN Serve(r, [Idle EXCEPT !.pc = pc, !.name = e])
                     ELSE Answer(r)
  OBVIOUS
<1>1. PICK u \in FindByMail(e) :
         IF u = None THEN Serve(r, [Idle EXCEPT !.pc = pc, !.name = e])
                     ELSE Answer(r)
  BY <1>0
<1>2. CASE u # None
  <2>1. Answer(r)
    BY <1>1, <1>2
  <2>2. req'[r].pc = "idle" /\ OthersWait(r)
    BY <2>1, Answered DEF OthersWait
  <2> QED
    BY <2>2, AccountsStand, PlainStep DEF LookedUpPc
<1>3. CASE u = None
  <2>1. Serve(r, [Idle EXCEPT !.pc = pc, !.name = e])
    BY <1>1, <1>3
  <2>2. /\ [Idle EXCEPT !.pc = pc, !.name = e].pc = pc
        /\ [Idle EXCEPT !.pc = pc, !.name = e].id = None
        /\ [Idle EXCEPT !.pc = pc, !.name = e].name = e
    BY DEF Idle
  <2>3. /\ req'[r].pc = pc /\ req'[r].id = None /\ req'[r].name = e
        /\ OthersWait(r)
    BY <2>1, <2>2, Served DEF OthersWait
  <2>4. req[r].pc \notin LookedUpPc
    BY DEF Idle, LookedUpPc
  <2>5. Finds(r)
    BY <1>3, <2>3, <2>4, LookedUp, NoneAssumption DEF Finds
  <2> QED
    BY <2>3, <2>5, AccountsStand DEF AddressStep
<1> QED
  BY <1>2, <1>3

(* The roles are checked between the look-up and the write.                *)
LEMMA RolesChecked ==
  ASSUME TypeOK, NEW r \in Requests, UNCHANGED account,
         \/ req[r].pc = "user.roles" /\ \E ids \in SUBSET Roles :
               Serve(r, [req[r] EXCEPT !.pc = "user.write", !.ids = ids])
         \/ req[r].pc = "update.roles" /\ \E ids \in SUBSET Roles :
               Serve(r, [req[r] EXCEPT !.pc = "update.write", !.ids = ids])
  PROVE  AddressStep(r)
<1>1. PICK pc, ids :
        /\ Serve(r, [req[r] EXCEPT !.pc = pc, !.ids = ids])
        /\ \/ req[r].pc = "user.roles" /\ pc = "user.write"
           \/ req[r].pc = "update.roles" /\ pc = "update.write"
  OBVIOUS
<1>2. /\ [req[r] EXCEPT !.pc = pc, !.ids = ids].pc = pc
      /\ [req[r] EXCEPT !.pc = pc, !.ids = ids].id = req[r].id
      /\ [req[r] EXCEPT !.pc = pc, !.ids = ids].name = req[r].name
  BY DEF TypeOK, Request
<1>3. /\ req'[r].pc = pc /\ req'[r].id = req[r].id /\ req'[r].name = req[r].name
      /\ OthersWait(r)
  BY <1>1, <1>2, Served DEF OthersWait
<1>4. Retains(r)
  BY <1>1, <1>3 DEF Retains, LookedUpPc, InsertPc
<1> QED
  BY <1>3, <1>4, AccountsStand DEF AddressStep

LEMMA AnswerStep ==
  ASSUME TypeOK, NEW r \in Requests, Answer(r), UNCHANGED account
  PROVE  AddressStep(r)
  BY Answered, AccountsStand, PlainStep DEF OthersWait, LookedUpPc

(* The insertion writes the address that was looked up in a fresh row.     *)
LEMMA InsertPlaces ==
  ASSUME TypeOK, NEW r \in Requests, NEW status, NEW roles,
         req[r].pc \in InsertPc, InsertAccount(r, status, roles)
  PROVE  AddressStep(r)
<1>1. PICK u \in Users, t \in Links, p \in Passwords :
        /\ account' = [account EXCEPT ![u] =
                         [state |-> "live", email |-> req[r].name,
                          password |-> p, status |-> status,
                          verified |-> FALSE, roles |-> roles]]
        /\ Serve(r, [Idle EXCEPT !.pc = "mail", !.link = t])
  BY DEF InsertAccount
<1>2. account'[u].email = req[r].name /\ \A v \in Users \ {u} : account'[v] = account[v]
  BY <1>1 DEF TypeOK
<1>3. req'[r].pc = "mail" /\ OthersWait(r)
  BY <1>1, ToMail
<1>4. req'[r].pc \notin LookedUpPc /\ req[r].pc \in LookedUpPc
  BY <1>3 DEF LookedUpPc, InsertPc
<1>5. IsLive(u)' => AddressOf(u)' = req[r].name
  BY <1>2 DEF AddressOf
<1> QED
  BY <1>2, <1>3, <1>4, <1>5 DEF AddressStep, Places

LEMMA AccountsStep ==
  ASSUME TypeOK, NEW r \in Requests, AccountStep(r)
  PROVE  AddressStep(r)
<1> USE DEF database, redis, tokens
<1>1. CASE RegisterBegin(r)
  BY <1>1, InsertBegins DEF RegisterBegin, Takes, InsertPc
<1>2. CASE UserCreateBegin(r)
  BY <1>2, InsertBegins DEF UserCreateBegin, Takes, InsertPc
<1>3. CASE UserCreateRoles(r)
  <2>1. UNCHANGED account
    BY <1>3 DEF UserCreateRoles
  <2> QED
    BY <1>3, <2>1, RolesChecked, AnswerStep DEF UserCreateRoles
<1>4. CASE RegisterWrite(r)
  BY <1>4, InsertPlaces DEF RegisterWrite, InsertPc
<1>5. CASE UserCreateWrite(r)
  BY <1>5, InsertPlaces, AnswerStep DEF UserCreateWrite, InsertPc
<1>6. ASSUME NEW pc \in {"verify.link", "reset.link"}, NEW x, UNCHANGED account,
             Serve(r, [Idle EXCEPT !.pc = pc, !.id = x])
      PROVE  AddressStep(r)
  BY <1>6, ForAccount, AccountsStand, PlainStep DEF LookedUpPc
<1>7. CASE ResendBegin(r)
  <2>1. UNCHANGED account
    BY <1>7 DEF ResendBegin
  <2> QED
    BY <1>6, <1>7, <2>1, AnswerStep DEF ResendBegin
<1>8. CASE ForgotBegin(r)
  <2>1. UNCHANGED account
    BY <1>8 DEF ForgotBegin
  <2> QED
    BY <1>6, <1>8, <2>1, AnswerStep DEF ForgotBegin
<1>9. CASE ResendForBegin(r)
  <2>1. UNCHANGED account
    BY <1>9 DEF ResendForBegin
  <2> QED
    BY <1>6, <1>9, <2>1, AnswerStep DEF ResendForBegin
<1>10. CASE VerifyLinkWrite(r) \/ ResetLinkWrite(r)
  <2>1. UNCHANGED account
    BY <1>10 DEF VerifyLinkWrite, ResetLinkWrite, InsertLink
  <2>2. PICK t : Serve(r, [Idle EXCEPT !.pc = "mail", !.link = t])
    BY <1>10 DEF VerifyLinkWrite, ResetLinkWrite, InsertLink
  <2> QED
    BY <2>1, <2>2, ToMail, AccountsStand, PlainStep DEF LookedUpPc
<1>11. CASE SendMail(r)
  BY <1>11, AnswerStep DEF SendMail
<1>12. ASSUME NEW kind, NEW pc \in {"verify.write", "reset.write"},
              Redeem(r, kind, pc)
       PROVE  AddressStep(r)
  <2>1. UNCHANGED account
    BY <1>12 DEF Redeem
  <2>2. ASSUME NEW x, NEW t,
               Serve(r, [Idle EXCEPT !.pc = pc, !.id = x, !.link = t])
        PROVE  AddressStep(r)
    BY <2>1, <2>2, ForLink, AccountsStand, PlainStep DEF LookedUpPc
  <2> QED
    BY <1>12, <2>1, <2>2, AnswerStep DEF Redeem
<1>13. CASE VerifyBegin(r) \/ ResetBegin(r)
  BY <1>12, <1>13 DEF VerifyBegin, ResetBegin
<1>14. CASE VerifyWrite(r) \/ ResetWrite(r)
  <2>1. KeepsAddresses
    BY <1>14, FieldKeepsAddress DEF VerifyWrite, ResetWrite
  <2>2. OthersWait(r) /\ req'[r].pc \notin LookedUpPc
    BY <1>14, Answered, Invalidated
       DEF VerifyWrite, ResetWrite, OthersWait, LookedUpPc
  <2> QED
    BY <2>1, <2>2, PlainStep
<1> QED
  BY <1>1, <1>2, <1>3, <1>4, <1>5, <1>7, <1>8, <1>9, <1>10, <1>11, <1>13, <1>14
     DEF AccountStep

LEMMA UserAdminAddressStep ==
  ASSUME TypeOK, NEW r \in Requests, UserAdminStep(r)
  PROVE  AddressStep(r)
<1> USE DEF database, redis, tokens
<1>1. ASSUME NEW pc \in {"password.write", "status.write", "remove.write",
                         "update.email"}, FindsOne(r, pc)
      PROVE  AddressStep(r)
  <2>1. UNCHANGED account
    BY <1>1 DEF FindsOne
  <2>2. req'[r].pc \in {"idle", pc} /\ OthersWait(r)
    BY <1>1, Answered, Begun DEF FindsOne, OthersWait
  <2> QED
    BY <2>1, <2>2, AccountsStand, PlainStep DEF LookedUpPc
<1>2. CASE \/ UpdatePasswordBegin(r) \/ UpdateStatusBegin(r)
           \/ RemoveBegin(r) \/ UpdateBegin(r)
  BY <1>1, <1>2 DEF UpdatePasswordBegin, UpdateStatusBegin, RemoveBegin,
                    UpdateBegin
<1>3. CASE ChangePasswordBegin(r)
  <2>1. UNCHANGED account
    BY <1>3 DEF ChangePasswordBegin
  <2>2. req'[r].pc \in {"idle", "password.write"} /\ OthersWait(r)
    BY <1>3, Answered, Begun DEF ChangePasswordBegin, OthersWait
  <2> QED
    BY <2>1, <2>2, AccountsStand, PlainStep DEF LookedUpPc
<1>4. CASE PasswordWrite(r) \/ UpdateStatusWrite(r) \/ RemoveWrite(r)
  <2>1. KeepsAddresses
    BY <1>4, FieldKeepsAddress
       DEF PasswordWrite, StorePassword, UpdateStatusWrite, RemoveWrite
  <2>2. PICK keys : Invalidate(r, keys)
    BY <1>4 DEF PasswordWrite, StorePassword, UpdateStatusWrite, RemoveWrite,
                DropSession
  <2>3. OthersWait(r) /\ req'[r].pc \notin LookedUpPc
    BY <2>2, Invalidated DEF OthersWait, LookedUpPc
  <2> QED
    BY <2>1, <2>3, PlainStep
<1>5. CASE UpdateEmail(r)
  <2>1. UNCHANGED account /\ req[r].pc = "update.email"
    BY <1>5 DEF UpdateEmail
  <2>0. PICK e \in Emails : \E u \in FindByMail(e) :
           IF u \in {None, req[r].id}
           THEN Serve(r, [req[r] EXCEPT !.pc = "update.roles", !.name = e])
           ELSE Answer(r)
    BY <1>5 DEF UpdateEmail
  <2>2. PICK u \in FindByMail(e) :
           IF u \in {None, req[r].id}
           THEN Serve(r, [req[r] EXCEPT !.pc = "update.roles", !.name = e])
           ELSE Answer(r)
    BY <2>0
  <2>3. CASE u \in {None, req[r].id}
    <3>1. Serve(r, [req[r] EXCEPT !.pc = "update.roles", !.name = e])
      BY <2>2, <2>3
    <3>2. /\ [req[r] EXCEPT !.pc = "update.roles", !.name = e].pc = "update.roles"
          /\ [req[r] EXCEPT !.pc = "update.roles", !.name = e].id = req[r].id
          /\ [req[r] EXCEPT !.pc = "update.roles", !.name = e].name = e
      BY DEF TypeOK, Request
    <3>3. /\ req'[r].pc = "update.roles" /\ req'[r].id = req[r].id
          /\ req'[r].name = e /\ OthersWait(r)
      BY <3>1, <3>2, Served DEF OthersWait
    <3>4. e # None
      BY NoneAssumption
    <3>5. Finds(r)
      BY <2>1, <2>3, <3>3, <3>4, LookedUp DEF Finds, LookedUpPc, InsertPc
    <3> QED
      BY <2>1, <3>3, <3>5, AccountsStand DEF AddressStep
  <2>4. CASE u \notin {None, req[r].id}
    BY <2>1, <2>2, <2>4, AnswerStep
  <2> QED
    BY <2>3, <2>4
<1>6. CASE UpdateRoles(r)
  <2>1. UNCHANGED account
    BY <1>6 DEF UpdateRoles
  <2> QED
    BY <1>6, <2>1, RolesChecked, AnswerStep DEF UpdateRoles
<1>7. CASE UpdateWrite(r)
  <2>1. PICK u \in Users : u = req[r].id
    BY <1>7, LinkedSlot DEF UpdateWrite, AccountPc
  <2>2. CASE Answer(r) /\ UNCHANGED account
    BY <2>2, AnswerStep
  <2>3. ASSUME NEW status, DropSession(r, u, status),
               account' = [account EXCEPT ![u] =
                             [@ EXCEPT !.email = req[r].name,
                                       !.status = status,
                                       !.roles = req[r].ids]]
        PROVE  AddressStep(r)
    <3> DEFINE row == [account[u] EXCEPT !.email = req[r].name,
                                         !.status = status,
                                         !.roles = req[r].ids]
    <3>1. row.email = req[r].name
      BY <2>1 DEF TypeOK, Account
    <3>2. account'[u] = row /\ \A v \in Users \ {u} : account'[v] = account[v]
      BY <2>1, <2>3 DEF TypeOK
    <3> HIDE DEF row
    <3>3. IsLive(u)' => AddressOf(u)' = req[r].name
      BY <3>1, <3>2 DEF AddressOf
    <3>4. OthersWait(r) /\ req'[r].pc \notin LookedUpPc
      BY <2>3, Invalidated DEF DropSession, OthersWait, LookedUpPc
    <3> QED
      BY <1>7, <2>1, <3>2, <3>3, <3>4
         DEF UpdateWrite, AddressStep, Places, LookedUpPc
  <2> QED
    BY <1>7, <2>1, <2>2, <2>3 DEF UpdateWrite
<1> QED
  BY <1>2, <1>3, <1>4, <1>5, <1>6, <1>7 DEF UserAdminStep

---------------------------------------------------------------------------

LEMMA NextKeepsAddresses ==
  ASSUME TypeOK, AddressInv, [ANext]_avars
  PROVE  AddressInv'
<1> USE DEF database, redis, tokens
<1>1. ASSUME NEW r \in Requests, Step(r) \/ Abort(r) PROVE AddressStep(r)
  BY <1>1, AuthAside, RoleAdminAside, OthersAside, AsideStep, AccountsStep,
     UserAdminAddressStep
     DEF Step
<1>2. ASSUME NEW r \in Requests, Step(r) \/ Abort(r), Record PROVE AddressInv'
  BY <1>1, <1>2, AddressStepKeeps
<1>3. CASE PermissionStep /\ Record
  BY <1>3, NoRequestStepKeeps
     DEF PermissionStep, PermissionCreate, PermissionUpdate, PermissionRemove
<1>4. CASE Expire /\ Record
  BY <1>4, NoRequestStepKeeps DEF Expire, ExpireUser, ExpireRefresh, ExpireLink
<1>5. CASE UNCHANGED avars
  <2>1. UNCHANGED <<account, req, overtaken, contested>>
    BY <1>5 DEF avars, vars, ahistory
  <2> QED
    BY <2>1 DEF AddressInv, Clear, SharedOnlyAfterRace, AddressOf, IsLive
<1> QED
  BY <1>2, <1>3, <1>4, <1>5 DEF ANext, Next

LEMMA InitAddresses == AInit => AddressInv
<1> SUFFICES ASSUME AInit PROVE AddressInv
  OBVIOUS
<1>1. \A u \in Users : IsLive(u) => account[u].email \in Emails
  BY DEF AInit, Init, IsLive, Absent
<1>2. \A u \in Users : IsLive(u) => AddressOf(u) # None
  BY <1>1, NoneAssumption DEF AddressOf
<1>3. \A r \in Requests : Clear(r)
  BY DEF AInit, Init, Idle, Clear, LookedUpPc
<1>4. ASSUME NEW u \in Users, NEW v \in Users, u # v, IsLive(u),
             AddressOf(u) = AddressOf(v)
      PROVE  FALSE
  <2>1. IsLive(v)
    BY <1>2, <1>4 DEF AddressOf
  <2>2. account[u].email = account[v].email
    BY <1>4, <2>1 DEF AddressOf
  <2> QED
    BY <1>4, <2>2 DEF AInit, Init
<1> QED
  BY <1>2, <1>3, <1>4 DEF AddressInv, SharedOnlyAfterRace

(* Two live accounts share an address only when one of them was written by *)
(* a request that another write overtook after its look-up: no sequence of *)
(* calls leads there, only a race, with any number of accounts and requests.*)
THEOREM OnlyRacesShare == ASpec => []SharedOnlyAfterRace
<1>1. AInit => TypeOK /\ AddressInv
  BY InitType, InitAddresses DEF AInit
<1>2. TypeOK /\ [ANext]_avars => TypeOK'
  <2>1. [ANext]_avars => [Next]_vars
    BY DEF ANext, avars
  <2> QED
    BY <2>1, NextType
<1>3. TypeOK /\ AddressInv /\ [ANext]_avars => AddressInv'
  BY NextKeepsAddresses
<1>4. AddressInv => SharedOnlyAfterRace
  BY DEF AddressInv
<1> QED
  BY <1>1, <1>2, <1>3, <1>4, PTL DEF ASpec

=============================================================================
