-------------------------- MODULE MCSearchStreaming --------------------------
(***************************************************************************)
(* Small instances of SearchStreaming.  Sizes are below and above the      *)
(* limit, so that future results block at the byte barrier.                *)
(***************************************************************************)
EXTENDS SearchStreaming

CONSTANTS w1, w2

TwoWorkers == {w1, w2}
SmallAndLarge == {1, 3}
=============================================================================
