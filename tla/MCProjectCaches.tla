-------------------------- MODULE MCProjectCaches --------------------------
(***************************************************************************)
(* Two threads render two classes and search identifiers, within a budget  *)
(* of three bytes, which is also the largest number there is: documents    *)
(* and indexes have one to three bytes, and a source cache holds at most   *)
(* two bytes in at most two documents.  A reservation never has more than  *)
(* five owners, so MaxOwners never stops one from being cloned, and there  *)
(* are as many reservations as bytes, so one is free for every charge.     *)
(***************************************************************************)
EXTENDS ProjectCaches

CONSTANTS t1, t2, r1, r2, r3, a, b

TwoThreads == {t1, t2}
ThreeReservations == {r1, r2, r3}
TwoClasses == {a, b}
SmallAndLarge == {1, 2, 3}
Symmetry ==
  Permutations(TwoThreads) \cup Permutations(ThreeReservations) \cup Permutations(TwoClasses)
=============================================================================
