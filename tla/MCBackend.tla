----------------------------- MODULE MCBackend -----------------------------
(***************************************************************************)
(* Instances of Backend for TLC: which requests the clients send, and the  *)
(* symmetric sets.                                                         *)
(***************************************************************************)
EXTENDS Backend, TLC

CatalogueTraffic == {"update", "role.create", "role.update", "role.remove",
                     "permission.create", "permission.update",
                     "permission.remove"}

SessionTraffic == {"login", "refresh", "validate", "updateStatus",
                   "updatePassword", "changePassword", "remove"}

AccountTraffic == SessionTraffic \cup
    {"register", "user.create", "resend", "resendFor", "forgot",
     "verifyEmail", "resetPassword"}

RedeemTraffic == {"forgot", "resetPassword"}

Slots == Permutations(Requests)

=============================================================================
