---------------------------- MODULE TokenHistory ----------------------------
(***************************************************************************)
(* Backend with history variables about refresh tokens.  They record what  *)
(* has happened and influence nothing: every behaviour of Backend is one   *)
(* of HSpec with a history added.                                          *)
(***************************************************************************)
EXTENDS Backend

VARIABLES
    condemned,  \* condemned[r]: the jtis issued for an account by the time
                \* the write of r ended its sessions, until r answers
    revoked,    \* the condemned jtis whose request has answered
    presented,  \* presented[r]: the jti r was admitted to refresh with
    exchanged,  \* the jtis a new pair has been issued for
    sawActive   \* sawActive[r]: r's account was active at an instant since
                \* r began

history == <<condemned, revoked, presented, exchanged, sawActive>>
hvars == <<vars, history>>

JtisOf(u) == {t.jti : t \in {t \in issued : t.sub = u}}

ActiveUsers == {u \in Users : IsActive(u)}

(* In this step the password of u changes, or u ceases to be active.       *)
EndsSessions(u) ==
    \/ account'[u].password # account[u].password
    \/ u \in ActiveUsers \ ActiveUsers'

(* What r has condemned once this step is taken.                           *)
Condemned(r) ==
    IF req[r].pc = "drop" THEN condemned[r]
    ELSE IF req[r].pc \in WritePc /\ EndsSessions(req[r].id)
    THEN JtisOf(req[r].id)
    ELSE {}

Deleted(key) == IF key.kind = "user" THEN userCache[key.sub] = None
                                     ELSE refreshCache[key.sub] = None

(* r answers in this step, and no key it was to delete is left.            *)
Completes(r) ==
    /\ req'[r].pc = "idle"
    /\ \A key \in req[r].todo : Deleted(key)'

(* In this step r has a pair issued for the token it presented.            *)
Exchanges(r) ==
    /\ req[r].pc = "refresh.issue"
    /\ req'[r].pc = "idle"
    /\ issued' # issued

HInit ==
    /\ Init
    /\ condemned = [r \in Requests |-> {}]
    /\ revoked = {}
    /\ presented = [r \in Requests |-> None]
    /\ exchanged = {}
    /\ sawActive = [r \in Requests |-> FALSE]

Record ==
    /\ condemned' = [r \in Requests |->
            IF req'[r].pc = "drop" THEN Condemned(r) ELSE {}]
    /\ revoked' = revoked \cup
            UNION {Condemned(r) : r \in {r \in Requests : Completes(r)}}
    /\ presented' = [r \in Requests |->
            IF req'[r].pc \notin {"refresh.read", "refresh.issue"} THEN None
            ELSE IF req[r].pc = "idle" THEN refreshCache[req'[r].id]
            ELSE presented[r]]
    /\ exchanged' = exchanged \cup
            {presented[r] : r \in {r \in Requests : Exchanges(r)}}
    /\ sawActive' = [r \in Requests |->
            /\ req'[r].pc \in AccountPc
            /\ sawActive[r] \/ req'[r].id \in ActiveUsers']

HNext == Next /\ Record

HSpec == HInit /\ [][HNext]_hvars

HTypeOK ==
    /\ TypeOK
    /\ condemned \in [Requests -> SUBSET Jtis]
    /\ revoked \in SUBSET Jtis
    /\ presented \in [Requests -> Jtis \cup {None}]
    /\ exchanged \in SUBSET Jtis
    /\ sawActive \in [Requests -> BOOLEAN]
    /\ \A r \in Requests :
        req[r].pc \in {"refresh.read", "refresh.issue"} => presented[r] \in Jtis

---------------------------------------------------------------------------

(* Once a handler whose write changed the password of an account, or left  *)
(* it no longer active, has answered, no refresh token issued before that  *)
(* write is accepted again; and a token that has been exchanged is rotated *)
(* out for good.  Logins and refreshes already past their checks may still *)
(* write the key, before or after the handler deletes it.  (SECURITY.md:   *)
(* every refresh token issued before the change is rejected; the presented *)
(* refresh token is rotated out.)                                          *)
DeadTokensStayDead ==
    \A u \in Users : refreshCache[u] \notin revoked \cup exchanged

(* A login or a refresh that reaches issueTokens has seen its account      *)
(* active: an account that was suspended or deleted all the time since the *)
(* request began is given no token, whatever Redis holds.                  *)
TokensNeedActiveAccount ==
    \A r \in Requests :
        req[r].pc \in {"login.issue", "refresh.issue"} => sawActive[r]

(* Each refresh token works once (the comment above AuthService.refresh).  *)
EachTokenWorksOnce ==
    [][\A r \in Requests : Exchanges(r) => presented[r] \notin exchanged]_hvars

Contract == INSTANCE Sessions WITH
    accepted <- refreshCache,
    minted <- {t.jti : t \in issued},
    withdrawn <- revoked \cup exchanged

(* Whatever interleaves, the stored ids behave as Sessions promises: what  *)
(* a finished revocation or an exchange withdraws is out from that step on,*)
(* and nothing but a fresh token ever comes in.                            *)
KeepsContract == Contract!Spec

=============================================================================
