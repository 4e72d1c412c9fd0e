----------------------------- MODULE MCIdentity -----------------------------
(***************************************************************************)
(* A small instance of Identity.                                           *)
(***************************************************************************)
EXTENDS Identity, TLC

CONSTANTS u1, u2, s1, a1, l1

Symmetry == Permutations(Users)

Grants == {{"user_manage", "credential_manage"}}
Singles == {{"owner"}, {"administrator"}}
Methods == {{"password"}}
=============================================================================
