----------------------------- MODULE MCFinishing -----------------------------
(* Finishing with two clients that change the default.                     *)
EXTENDS Finishing, TLC

CONSTANTS c1, c2

MCClients == {c1, c2}
ClientSymmetry == Permutations(MCClients)
=============================================================================
