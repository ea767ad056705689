--------------------------- MODULE MCLiteralIndex ---------------------------
(***************************************************************************)
(* Two queries that share builds.  A query starts at most one attempt and  *)
(* invalidates at most once, so twice as many attempts as queries never    *)
(* block a query.                                                          *)
(***************************************************************************)
EXTENDS LiteralIndex, TLC

CONSTANTS q1, q2

TwoQueries == {q1, q2}
=============================================================================
