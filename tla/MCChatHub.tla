----------------------------- MODULE MCChatHub -----------------------------
(* Small instances of ChatHub for TLC: see the .cfg files. *)
EXTENDS ChatHub, TLC

CONSTANTS u1, u2, k1, k2, k3

\* Two connections of one user and one of the other, for safety
ThreeOwners == (k1 :> u1) @@ (k2 :> u1) @@ (k3 :> u2)
Symmetry == Permutations({k1, k2})

\* One connection each, for liveness
TwoOwners == (k1 :> u1) @@ (k2 :> u2)
=============================================================================
