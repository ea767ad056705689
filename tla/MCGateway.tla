----------------------------- MODULE MCGateway -----------------------------
(***************************************************************************)
(* Two calls of tools, with two identifiers that may be the same, each on  *)
(* a connection of its own to one served project.                          *)
(***************************************************************************)
EXTENDS Gateway

CONSTANTS c1, c2

TwoConnections == {c1, c2}
=============================================================================
