--------------------------- MODULE MCKatanaServer ---------------------------
(* Two serve calls, a plain request and upgrade requests: small enough for  *)
(* TLC, large enough for a restart, a shared queue and racing branches.     *)
EXTENDS KatanaServer
CONSTANTS p1, u1
MCRequests == {p1, u1}
MCUpgrades == {u1}
=============================================================================
