------------------------------ MODULE MCWindow ------------------------------
(***************************************************************************)
(* One class, one file and one Manifest summary, with one jump remembered  *)
(* in each direction; two projects, the second of which may meet one       *)
(* thread that was started for the first.  With WindowJumps.cfg a single   *)
(* project is enough to refute JumpsEnd.                                   *)
(***************************************************************************)
EXTENDS Window
=============================================================================
