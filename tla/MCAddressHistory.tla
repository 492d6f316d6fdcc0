-------------------------- MODULE MCAddressHistory --------------------------
(***************************************************************************)
(* Instances of AddressHistory for TLC.                                    *)
(***************************************************************************)
EXTENDS AddressHistory, TLC

LinkTraffic == {"register", "user.create", "update", "remove", "resend",
                "resendFor", "forgot", "verifyEmail", "resetPassword"}

Symmetry == Permutations(Requests) \cup Permutations(Users)
                \cup Permutations(Emails) \cup Permutations(Links)

=============================================================================
