------------------------------ MODULE Accounts ------------------------------
(***************************************************************************)
(* How accounts come to be and are recovered: AuthService.register,        *)
(* resendVerificationEmail, verifyEmail, forgotPassword and resetPassword, *)
(* and UsersService.create and resendVerificationEmail.                    *)
(*                                                                         *)
(* A mail is on its way once its job is queued: the worker may deliver it  *)
(* at any later time, so a client may present any token in mailed.  A fresh*)
(* user id is an absent row, a fresh token one that has no row.            *)
(***************************************************************************)
EXTENDS Store

(* The token is in the table, unused and unexpired.                        *)
Usable(t, kind) == link[t].kind = kind /\ link[t].state = "open"

(* The link rows a handler may insert for user u.                          *)
NewLink(t, kind, u) ==
    /\ link[t] = NoLink
    /\ link' = [link EXCEPT ![t] = [kind |-> kind, user |-> u, state |-> "open"]]

---------------------------------------------------------------------------
(* register and create *)

(* 422 for an address in use, with one message or another.                 *)
RegisterBegin(r) ==
    /\ Takes(r, "register")
    /\ \E e \in Emails : \E u \in FindByMail(e) :
        IF u = None
        THEN Serve(r, [Idle EXCEPT !.pc = "register.write", !.name = e])
        ELSE Answer(r)
    /\ UNCHANGED <<database, redis, tokens>>

(* Mutant: the mail is queued first, inside the transaction's callback.    *)
InsertAccountMailed(r, status, roles) ==
    \E u \in Users, t \in Links \ mailed, p \in Passwords :
        /\ account[u] = Absent
        /\ mailed' = mailed \cup {t}
        /\ \/ /\ account' = [account EXCEPT ![u] =
                               [state |-> "live", email |-> req[r].name,
                                password |-> p, status |-> status,
                                verified |-> FALSE, roles |-> roles]]
              /\ NewLink(t, "verify", u)
           \/ UNCHANGED <<account, link>>
        /\ Answer(r)

(* One transaction inserts the user, unverified, and his verification row. *)
InsertAccount(r, status, roles) ==
    \E u \in Users, t \in Links, p \in Passwords :
        /\ account[u] = Absent
        /\ account' = [account EXCEPT ![u] =
                         [state |-> "live", email |-> req[r].name,
                          password |-> p, status |-> status,
                          verified |-> FALSE, roles |-> roles]]
        /\ NewLink(t, "verify", u)
        /\ Serve(r, [Idle EXCEPT !.pc = "mail", !.link = t])
        /\ UNCHANGED mailed

RegisterWrite(r) ==
    /\ req[r].pc = "register.write"
    /\ InsertAccount(r, "ACTIVE", {})
    /\ UNCHANGED <<role, permission, redis, issued>>

(* An administrator creates a user: 422 for an address in use.             *)
UserCreateBegin(r) ==
    /\ Takes(r, "user.create")
    /\ \E e \in Emails : \E u \in FindByMail(e) :
        IF u = None
        THEN Serve(r, [Idle EXCEPT !.pc = "user.roles", !.name = e])
        ELSE Answer(r)
    /\ UNCHANGED <<database, redis, tokens>>

UserCreateRoles(r) ==
    /\ req[r].pc = "user.roles"
    /\ \E ids \in SUBSET Roles :
        IF ids = Existing(ids)
        THEN Serve(r, [req[r] EXCEPT !.pc = "user.write", !.ids = ids])
        ELSE Answer(r)
    /\ UNCHANGED <<database, redis, tokens>>

(* Rolls back on the foreign key when a role has gone since the check.     *)
UserCreateWrite(r) ==
    /\ req[r].pc = "user.write"
    /\ \/ /\ req[r].ids = Existing(req[r].ids)
          /\ \E status \in Statuses : InsertAccount(r, status, req[r].ids)
       \/ /\ req[r].ids # Existing(req[r].ids)
          /\ Answer(r)
          /\ UNCHANGED <<account, link, mailed>>
    /\ UNCHANGED <<role, permission, redis, issued>>

---------------------------------------------------------------------------
(* resend and forgot *)

(* The public handlers find the account by its address; an unknown one, or *)
(* one in the wrong state, is answered as though the mail was sent.        *)
ResendBegin(r) ==
    /\ Takes(r, "resend")
    /\ \E e \in Emails : \E u \in FindByMail(e) :
        IF u # None /\ ~account[u].verified
        THEN Serve(r, [Idle EXCEPT !.pc = "verify.link", !.id = u])
        ELSE Answer(r)
    /\ UNCHANGED <<database, redis, tokens>>

ForgotBegin(r) ==
    /\ Takes(r, "forgot")
    /\ \E e \in Emails : \E u \in FindByMail(e) :
        IF u # None /\ account[u].verified
        THEN Serve(r, [Idle EXCEPT !.pc = "reset.link", !.id = u])
        ELSE Answer(r)
    /\ UNCHANGED <<database, redis, tokens>>

(* The administrator's handler takes an id.                                *)
ResendForBegin(r) ==
    /\ Takes(r, "resendFor")
    /\ \E u \in Users :
        IF IsLive(u) /\ ~account[u].verified
        THEN Serve(r, [Idle EXCEPT !.pc = "verify.link", !.id = u])
        ELSE Answer(r)
    /\ UNCHANGED <<database, redis, tokens>>

InsertLink(r, kind) ==
    /\ \E t \in Links :
        /\ NewLink(t, kind, req[r].id)
        /\ Serve(r, [Idle EXCEPT !.pc = "mail", !.link = t])
    /\ UNCHANGED <<database, redis, issued, mailed>>

VerifyLinkWrite(r) ==
    /\ req[r].pc = "verify.link"
    /\ InsertLink(r, "verify")

ResetLinkWrite(r) ==
    /\ req[r].pc = "reset.link"
    /\ InsertLink(r, "reset")

SendMail(r) ==
    /\ req[r].pc = "mail"
    /\ mailed' = mailed \cup {req[r].link}
    /\ Answer(r)
    /\ UNCHANGED <<database, redis, issued, link>>

---------------------------------------------------------------------------
(* verifyEmail and resetPassword *)

(* Both handlers look the token up and answer 422 unless it is usable.     *)
Redeem(r, kind, pc) ==
    /\ \E t \in mailed :
        IF Usable(t, kind)
        THEN Serve(r, [Idle EXCEPT !.pc = pc, !.id = link[t].user, !.link = t])
        ELSE Answer(r)
    /\ UNCHANGED <<database, redis, tokens>>

VerifyBegin(r) ==
    /\ Takes(r, "verifyEmail")
    /\ Redeem(r, "verify", "verify.write")

ResetBegin(r) ==
    /\ Takes(r, "resetPassword")
    /\ Redeem(r, "reset", "reset.write")

(* Stamps usedAt, whatever the row has become since it was read.           *)
Spend(t) == link' = [link EXCEPT ![t].state = "used"]

(* Mutant: the token is stamped and the account left alone.                *)
VerifyWriteStampOnly(r) ==
    /\ req[r].pc = "verify.write"
    /\ Spend(req[r].link)
    /\ Answer(r)
    /\ UNCHANGED <<database, redis, issued, mailed>>

VerifyWrite(r) ==
    /\ req[r].pc = "verify.write"
    /\ account' = [account EXCEPT ![req[r].id].verified = TRUE]
    /\ Spend(req[r].link)
    /\ Answer(r)
    /\ UNCHANGED <<role, permission, redis, issued, mailed>>

(* Mutant: the stored refresh-token id survives the reset.                 *)
ResetWriteKeepingToken(r) ==
    /\ req[r].pc = "reset.write"
    /\ \E p \in Passwords :
        account' = [account EXCEPT ![req[r].id].password = p]
    /\ Spend(req[r].link)
    /\ Invalidate(r, {UserCache(req[r].id)})
    /\ UNCHANGED <<role, permission, redis, issued, mailed>>

ResetWrite(r) ==
    /\ req[r].pc = "reset.write"
    /\ \E p \in Passwords :
        account' = [account EXCEPT ![req[r].id].password = p]
    /\ Spend(req[r].link)
    /\ Invalidate(r, SessionKeys(req[r].id))
    /\ UNCHANGED <<role, permission, redis, issued, mailed>>

(* Two hours after it was written, a row is no longer accepted.            *)
ExpireLink(t) ==
    /\ link[t].state = "open"
    /\ link' = [link EXCEPT ![t].state = "expired"]
    /\ UNCHANGED <<database, redis, issued, mailed, req>>

---------------------------------------------------------------------------

AccountStep(r) ==
    \/ RegisterBegin(r) \/ RegisterWrite(r)
    \/ UserCreateBegin(r) \/ UserCreateRoles(r) \/ UserCreateWrite(r)
    \/ ResendBegin(r) \/ ResendForBegin(r) \/ VerifyLinkWrite(r)
    \/ ForgotBegin(r) \/ ResetLinkWrite(r)
    \/ SendMail(r)
    \/ VerifyBegin(r) \/ VerifyWrite(r) \/ ResetBegin(r) \/ ResetWrite(r)

=============================================================================
