----------------------------- MODULE UserAdmin -----------------------------
(***************************************************************************)
(* The writes to an existing account: ProfileService.changePassword and    *)
(* UsersService update, remove, updateStatus and updatePassword, each with *)
(* the Redis keys it deletes after its commit.                             *)
(*                                                                         *)
(* An administrator names any user id; the payload fields are chosen where *)
(* the handler first uses them.                                            *)
(***************************************************************************)
EXTENDS AuthSessions

StorePassword(r) ==
    /\ \E p \in Passwords :
        account' = [account EXCEPT ![req[r].id].password = p]
    /\ Invalidate(r, SessionKeys(req[r].id))
    /\ UNCHANGED <<role, permission, redis, tokens>>

(* Mutant: every status keeps the stored refresh-token id.                 *)
DropSessionKeepingToken(r, u, status) == Invalidate(r, {UserCache(u)})

(* UsersService.dropSession *)
DropSession(r, u, status) ==
    Invalidate(r, IF status = "ACTIVE" THEN {UserCache(u)} ELSE SessionKeys(u))

(* findOne answers 404 for a user that is absent or deleted.               *)
FindsOne(r, pc) ==
    /\ \E u \in Users : IF IsLive(u)
                        THEN Serve(r, [Idle EXCEPT !.pc = pc, !.id = u])
                        ELSE Answer(r)
    /\ UNCHANGED <<database, redis, tokens>>

---------------------------------------------------------------------------
(* changePassword: the caller's own id, with his current password.         *)

ChangePasswordBegin(r) ==
    /\ Takes(r, "changePassword")
    /\ \E u \in Bearers, current \in Passwords :
        IF IsLive(u) /\ account[u].password = current
        THEN Serve(r, [Idle EXCEPT !.pc = "password.write", !.id = u])
        ELSE Answer(r)
    /\ UNCHANGED <<database, redis, tokens>>

(* updatePassword: a superuser sets the password of any user.              *)
UpdatePasswordBegin(r) ==
    /\ Takes(r, "updatePassword")
    /\ FindsOne(r, "password.write")

(* Both handlers write by id alone: a row soft-deleted since it was read   *)
(* is written all the same.                                                *)
PasswordWrite(r) ==
    /\ req[r].pc = "password.write"
    /\ StorePassword(r)

---------------------------------------------------------------------------
(* updateStatus *)

UpdateStatusBegin(r) ==
    /\ Takes(r, "updateStatus")
    /\ FindsOne(r, "status.write")

UpdateStatusWrite(r) ==
    /\ req[r].pc = "status.write"
    /\ \E status \in Statuses :
        /\ account' = [account EXCEPT ![req[r].id].status = status]
        /\ DropSession(r, req[r].id, status)
    /\ UNCHANGED <<role, permission, redis, tokens>>

---------------------------------------------------------------------------
(* remove *)

RemoveBegin(r) ==
    /\ Takes(r, "remove")
    /\ FindsOne(r, "remove.write")

RemoveWrite(r) ==
    /\ req[r].pc = "remove.write"
    /\ account' = [account EXCEPT ![req[r].id].state = "deleted"]
    /\ Invalidate(r, SessionKeys(req[r].id))
    /\ UNCHANGED <<role, permission, redis, tokens>>

---------------------------------------------------------------------------
(* update *)

UpdateBegin(r) ==
    /\ Takes(r, "update")
    /\ FindsOne(r, "update.email")

(* Mutant: the look-up is left out.                                        *)
UpdateEmailUnchecked(r) ==
    /\ req[r].pc = "update.email"
    /\ \E e \in Emails :
        Serve(r, [req[r] EXCEPT !.pc = "update.roles", !.name = e])
    /\ UNCHANGED <<database, redis, tokens>>

(* 422 when another live account has the address.                          *)
UpdateEmail(r) ==
    /\ req[r].pc = "update.email"
    /\ \E e \in Emails : \E u \in FindByMail(e) :
        IF u \in {None, req[r].id}
        THEN Serve(r, [req[r] EXCEPT !.pc = "update.roles", !.name = e])
        ELSE Answer(r)
    /\ UNCHANGED <<database, redis, tokens>>

(* 422 unless every role id names a row.                                   *)
UpdateRoles(r) ==
    /\ req[r].pc = "update.roles"
    /\ \E ids \in SUBSET Roles :
        IF ids = Existing(ids)
        THEN Serve(r, [req[r] EXCEPT !.pc = "update.write", !.ids = ids])
        ELSE Answer(r)
    /\ UNCHANGED <<database, redis, tokens>>

(* One transaction replaces the row's fields and its user_roles.  It rolls *)
(* back on the foreign key when one of the roles has gone since the check. *)
UpdateWrite(r) ==
    /\ req[r].pc = "update.write"
    /\ \/ /\ req[r].ids = Existing(req[r].ids)
          /\ \E status \in Statuses :
                /\ account' = [account EXCEPT ![req[r].id] =
                                 [@ EXCEPT !.email = req[r].name,
                                           !.status = status,
                                           !.roles = req[r].ids]]
                /\ DropSession(r, req[r].id, status)
       \/ /\ req[r].ids # Existing(req[r].ids)
          /\ Answer(r)
          /\ UNCHANGED account
    /\ UNCHANGED <<role, permission, redis, tokens>>

---------------------------------------------------------------------------

UserAdminStep(r) ==
    \/ ChangePasswordBegin(r) \/ UpdatePasswordBegin(r) \/ PasswordWrite(r)
    \/ UpdateStatusBegin(r) \/ UpdateStatusWrite(r)
    \/ RemoveBegin(r) \/ RemoveWrite(r)
    \/ UpdateBegin(r) \/ UpdateEmail(r) \/ UpdateRoles(r) \/ UpdateWrite(r)

=============================================================================
