----------------------------- MODULE MCDiskIndex -----------------------------
(***************************************************************************)
(* Four classes, of which three can have an entry, and records of one to   *)
(* three positions (four is too large) in a store of five.  The filter of  *)
(* the third entry has to be dropped.                                      *)
(***************************************************************************)
EXTENDS DiskIndex, TLC

CONSTANTS k1, k2, k3, k4

FourKeys == {k1, k2, k3, k4}
Symmetry == Permutations(FourKeys)
=============================================================================
