--------------------------- MODULE MCExportSession ---------------------------
(***************************************************************************)
(* Two processes open up to four sessions that export two classes of an    *)
(* input with two versions.                                                *)
(***************************************************************************)
EXTENDS ExportSession, TLC

CONSTANTS s1, s2, v1, v2

TwoSessions == {s1, s2}
TwoVersions == {v1, v2}
Symmetry == Permutations(TwoSessions) \cup Permutations(TwoVersions)
=============================================================================
