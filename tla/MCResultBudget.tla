--------------------------- MODULE MCResultBudget ---------------------------
(***************************************************************************)
(* A small instance of ResultBudget: four classes, a limit of four bytes,  *)
(* sizes below, at and above the limit.                                    *)
(***************************************************************************)
EXTENDS ResultBudget

MCSizes == {1, 3, 4, 6}
=============================================================================
