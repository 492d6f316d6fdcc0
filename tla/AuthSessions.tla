---------------------------- MODULE AuthSessions ----------------------------
(***************************************************************************)
(* AuthService.login and AuthService.refresh, and AuthStrategy.validate,   *)
(* which runs before every route that is not public.                       *)
(***************************************************************************)
EXTENDS Store

(* Users that hold an access token: one is issued with each refresh token, *)
(* and nothing revokes it.                                                 *)
Bearers == {t.sub : t \in issued}

---------------------------------------------------------------------------
(* login *)

(* An unknown address, a wrong password or an unverified account is        *)
(* answered with a 422 before anything is written.                         *)
LoginBegin(r) ==
    /\ Takes(r, "login")
    /\ \E e \in Emails, p \in Passwords : \E u \in FindByMail(e) :
        IF u # None /\ account[u].password = p /\ account[u].verified
        THEN Serve(r, [Idle EXCEPT !.pc = "login.drop", !.id = u])
        ELSE Answer(r)
    /\ UNCHANGED <<database, redis, tokens>>

LoginDrop(r) ==
    /\ req[r].pc = "login.drop"
    /\ Del(UserCache(req[r].id))
    /\ Goto(r, "login.read")
    /\ UNCHANGED <<database, tokens>>

(* Mutant: what was read is not checked.                                   *)
ReadIdentityUnchecked(r, pc) ==
    /\ Serve(r, [req[r] EXCEPT !.pc = pc, !.info = UserInformation(req[r].id)])
    /\ UNCHANGED <<database, redis, tokens>>

(* Reads the identity for the cache: a request whose user is not active is *)
(* rejected, and any other goes on with what was read.                     *)
ReadIdentity(r, pc) ==
    /\ LET info == UserInformation(req[r].id)
       IN  IF info = None THEN Answer(r)
                          ELSE Serve(r, [req[r] EXCEPT !.pc = pc, !.info = info])
    /\ UNCHANGED <<database, redis, tokens>>

LoginRead(r) ==
    /\ req[r].pc = "login.read"
    /\ ReadIdentity(r, "login.cache")

LoginCache(r) ==
    /\ req[r].pc = "login.cache"
    /\ SetUser(req[r].id, req[r].info)
    /\ Serve(r, [req[r] EXCEPT !.pc = "login.issue", !.info = None])
    /\ UNCHANGED <<database, refreshCache, tokens>>

(* jti is 32 random characters: it is taken never to repeat.               *)
IssueTokens(r) ==
    /\ \E jti \in Jtis \ {t.jti : t \in issued} :
        /\ SetRefresh(req[r].id, jti)
        /\ issued' = issued \cup {[sub |-> req[r].id, jti |-> jti]}
    /\ Answer(r)
    /\ UNCHANGED <<database, userCache, link, mailed>>

LoginIssue(r) ==
    /\ req[r].pc = "login.issue"
    /\ IssueTokens(r)

---------------------------------------------------------------------------
(* refresh *)

RefreshBegin(r) ==
    /\ Takes(r, "refresh")
    /\ \E t \in issued :
        IF refreshCache[t.sub] = t.jti
        THEN Serve(r, [Idle EXCEPT !.pc = "refresh.read", !.id = t.sub])
        ELSE Answer(r)
    /\ UNCHANGED <<database, redis, tokens>>

(* Mutant: the account is not read again before the pair is issued.        *)
RefreshReadTrusting(r) ==
    /\ req[r].pc = "refresh.read"
    /\ Goto(r, "refresh.issue")
    /\ UNCHANGED <<database, redis, tokens>>

RefreshRead(r) ==
    /\ req[r].pc = "refresh.read"
    /\ IF UserInformation(req[r].id) = None
       THEN Invalidate(r, SessionKeys(req[r].id))
       ELSE Goto(r, "refresh.issue")
    /\ UNCHANGED <<database, redis, tokens>>

RefreshIssue(r) ==
    /\ req[r].pc = "refresh.issue"
    /\ IssueTokens(r)

---------------------------------------------------------------------------
(* validate *)

(* Mutant: a hit is stored again, for its time to live to start anew.      *)
ValidateBeginSliding(r) ==
    /\ Takes(r, "validate")
    /\ \E u \in Bearers :
        IF userCache[u] # None
        THEN Serve(r, [Idle EXCEPT !.pc = "validate.cache", !.id = u, !.info = userCache[u]])
        ELSE Serve(r, [Idle EXCEPT !.pc = "validate.read", !.id = u])
    /\ UNCHANGED <<database, redis, tokens>>

(* A hit is served from the cache and nothing else is read; the handler    *)
(* behind the guard is a request of its own.                               *)
ValidateBegin(r) ==
    /\ Takes(r, "validate")
    /\ \E u \in Bearers :
        IF userCache[u] # None
        THEN Answer(r)
        ELSE Serve(r, [Idle EXCEPT !.pc = "validate.read", !.id = u])
    /\ UNCHANGED <<database, redis, tokens>>

ValidateRead(r) ==
    /\ req[r].pc = "validate.read"
    /\ ReadIdentity(r, "validate.cache")

ValidateCache(r) ==
    /\ req[r].pc = "validate.cache"
    /\ SetUser(req[r].id, req[r].info)
    /\ Answer(r)
    /\ UNCHANGED <<database, refreshCache, tokens>>

---------------------------------------------------------------------------

AuthStep(r) ==
    \/ LoginBegin(r) \/ LoginDrop(r) \/ LoginRead(r)
    \/ LoginCache(r) \/ LoginIssue(r)
    \/ RefreshBegin(r) \/ RefreshRead(r) \/ RefreshIssue(r)
    \/ ValidateBegin(r) \/ ValidateRead(r) \/ ValidateCache(r)

=============================================================================
