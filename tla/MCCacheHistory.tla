--------------------------- MODULE MCCacheHistory ---------------------------
(***************************************************************************)
(* Instances of CacheHistory for TLC.                                      *)
(***************************************************************************)
EXTENDS CacheHistory, TLC

(* Both fills of the cache, the update that can change everything about an *)
(* account but its deletion, and the role update with its fan-out.         *)
IdentityTraffic == {"login", "validate", "update", "role.update"}

RenamingTraffic == {"login", "permission.update"}

StatusTraffic == {"login", "validate", "refresh", "updateStatus", "remove"}

Symmetry == Permutations(Requests) \cup Permutations(Jtis)
                \cup Permutations(Users) \cup Permutations(Emails)

=============================================================================
