---------------------------- MODULE MCExportJobs ----------------------------
(***************************************************************************)
(* Small instances of ExportJobs: fewer jobs are retained than started, so *)
(* that jobs are evicted.                                                  *)
(***************************************************************************)
EXTENDS ExportJobs, TLC

CONSTANTS c1, c2, j1, j2, j3

TwoCallers == {c1, c2}
ThreeJobs == {j1, j2, j3}
Symmetry == Permutations(TwoCallers) \cup Permutations(ThreeJobs)
=============================================================================
