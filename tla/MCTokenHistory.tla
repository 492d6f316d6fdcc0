--------------------------- MODULE MCTokenHistory ---------------------------
(***************************************************************************)
(* Instances of TokenHistory for TLC.                                      *)
(***************************************************************************)
EXTENDS TokenHistory, TLC

SessionTraffic == {"login", "refresh", "forgot", "resetPassword",
                   "updateStatus", "remove"}

RotationTraffic == {"login", "refresh"}

Symmetry == Permutations(Requests) \cup Permutations(Jtis)
                \cup Permutations(Passwords)

=============================================================================
