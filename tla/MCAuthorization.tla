-------------------------- MODULE MCAuthorization --------------------------
(***************************************************************************)
(* Two users; the first one runs two clients.                              *)
(***************************************************************************)
EXTENDS Authorization, TLC

CONSTANTS u1, u2, k1, k2, k3

MCUserOf == (k1 :> u1) @@ (k2 :> u1) @@ (k3 :> u2)

\* Connections are interchangeable.
Alike == Permutations(Connection)
=============================================================================
