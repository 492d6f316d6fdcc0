---------------------------- MODULE CacheHistory ----------------------------
(***************************************************************************)
(* Backend with one history variable about cached identities.              *)
(***************************************************************************)
EXTENDS Backend

VARIABLE
    strayed   \* users whose cached identity is out of date because it was
              \* when it was written, or because a request that was to delete
              \* it died first

cvars == <<vars, strayed>>

Stale == {u \in Users : userCache[u] \notin {None, UserInformation(u)}}

(* Request r has committed a write and will delete the key of u: it holds  *)
(* the key, or has yet to read who holds the role it wrote.                *)
Owes(r, u) ==
    \/ req[r].pc = "drop" /\ UserCache(u) \in req[r].todo
    \/ req[r].pc = "role.holders" /\ u \in Holders(req[r].id)

Pending(u) == \E r \in Requests : Owes(r, u)

CInit == Init /\ strayed = {}

(* In this step an identity is written, or a request dies that owed its    *)
(* deletion.                                                               *)
Strays(u) ==
    \/ userCache'[u] # userCache[u]
    \/ \E r \in Requests : Owes(r, u) /\ Abort(r)

CRecord == strayed' = {u \in Stale' : u \in strayed \/ Strays(u)}

CNext == Next /\ CRecord

CSpec == CInit /\ [][CNext]_cvars

---------------------------------------------------------------------------

(* The cache is invalidated wherever authorization changes (SECURITY.md):  *)
(* a cached identity that differs from the database is about to be deleted *)
(* by the request whose write made it differ, or was out of date already   *)
(* when it was written - its read was overtaken by the write and by the    *)
(* deletion - or outlived the request that owed its deletion.              *)
StaleOnlyAfterRace ==
    \A u \in Stale : Pending(u) \/ u \in strayed

(* The strategy re-reads the user, so a deleted or suspended user is       *)
(* refused on the next request (SECURITY.md): once the handlers that wrote *)
(* to his account have deleted their keys, validate finds no identity of   *)
(* his to serve.                                                           *)
InactiveIsRefused ==
    \A u \in Users : ~IsActive(u) /\ ~Pending(u) => userCache[u] = None

=============================================================================
