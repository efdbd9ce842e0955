--------------------------- MODULE MCAuthSessions ---------------------------
(* Small instances of AuthSessions for TLC: see the .cfg files. *)
EXTENDS AuthSessions, TLC

CONSTANTS u1, u2, u3, u4

OneOfEach ==
  (u1 :> "dispatcher") @@ (u2 :> "driver") @@ (u3 :> "admin") @@ (u4 :> "user")

\* A behaviour is about one user. The dispatcher can do whatever the others
\* can, so he alone gets as many pairs as there are; where something has
\* failed, the third is not that of one more login.
OneUser ==
  /\ \A s, t \in 1 .. issued : token[s].user = token[t].user
  /\ issued > 2 => /\ token[1].user = u1
                   /\ faults = 0 \/ token[3].how # "login"

Symmetry == Permutations(Request)
=============================================================================
