----------------------------- MODULE MCSeeding -----------------------------
(***************************************************************************)
(* Instances of Seeding for TLC.                                           *)
(***************************************************************************)
EXTENDS Seeding, TLC

Hosts == Permutations(Seeders)

=============================================================================
