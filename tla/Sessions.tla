------------------------------ MODULE Sessions ------------------------------
(***************************************************************************)
(* What the API promises about refresh tokens, whatever its workers do     *)
(* between two awaits: per user at most one is accepted at a time, a token *)
(* is accepted from its issue on and never again once it has ceased to be, *)
(* and to withdraw tokens - by an exchange, or by a change that ends every *)
(* session - is to have none of them accepted from that step on.           *)
(***************************************************************************)
CONSTANTS Users, Jtis, None

VARIABLES
    accepted,  \* accepted[u]: the jti accepted from user u, or None
    minted,    \* every jti issued so far
    withdrawn  \* the jtis withdrawn so far

vars == <<accepted, minted, withdrawn>>

Init ==
    /\ accepted = [u \in Users |-> None]
    /\ minted = {}
    /\ withdrawn = {}

(* A login or a refresh: the new token takes the place of the old.         *)
Issue(u, jti) ==
    /\ jti \notin minted
    /\ accepted' = [accepted EXCEPT ![u] = jti]
    /\ minted' = minted \cup {jti}

(* Sessions end by themselves or are ended.                                *)
End(K) ==
    /\ accepted' = [u \in Users |-> IF u \in K THEN None ELSE accepted[u]]
    /\ UNCHANGED minted

Withdraw(W) ==
    /\ W \subseteq minted'
    /\ \A u \in Users : accepted'[u] \notin W
    /\ withdrawn' = withdrawn \cup W

Next ==
    /\ \/ \E u \in Users, jti \in Jtis : Issue(u, jti)
       \/ \E K \in SUBSET Users : End(K)
    /\ \E W \in SUBSET Jtis : Withdraw(W)

Spec == Init /\ [][Next]_vars

=============================================================================
