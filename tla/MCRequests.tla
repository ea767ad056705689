----------------------------- MODULE MCRequests -----------------------------
(***************************************************************************)
(* Two clients, with one slot for work or two, and room to watch both: the *)
(* requests race for the slot, and one of them is refused, or for the      *)
(* engine, and one of them waits.  The server may stop at any time.        *)
(***************************************************************************)
EXTENDS Requests

CONSTANTS c1, c2

TwoConnections == {c1, c2}
=============================================================================
