------------------------------- MODULE MCIdentity -------------------------------
(***************************************************************************)
(* A small instance of Identity for TLC: two ERP users, and an external student *)
(* who registers with the email address of one of them.                        *)
(***************************************************************************)
EXTENDS Identity

CONSTANTS p1, p2, v1, g1

MCMail == (p1 :> "one") @@ (p2 :> "two") @@ (v1 :> "two") @@ (g1 :> "random")

MCOwnMail == (p1 :> "one@erp.local") @@ (p2 :> "two@erp.local")

Symmetry == Permutations(Workers)

=============================================================================
