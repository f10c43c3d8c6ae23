----------------------------- MODULE MCTenancy -----------------------------
(***************************************************************************)
(* Instance of Tenancy.                                                    *)
(***************************************************************************)
EXTENDS Tenancy, TLC

CONSTANTS ann, bob, eve

People == {ann, bob, eve}
Admins == {"admin"}
Alike  == Permutations(User)
=============================================================================
