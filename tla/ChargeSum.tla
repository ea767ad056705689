------------------------------ MODULE ChargeSum ------------------------------
(***************************************************************************)
(* The sum of a finite family of natural numbers.  Several parts of the    *)
(* program keep one counter beside many outstanding charges (reserved      *)
(* bytes, retained bytes); what the counter must equal is such a sum.      *)
(*                                                                         *)
(* The sum is the cardinality of a set with f[s] elements for every s, so  *)
(* that facts about it follow from the theorems on finite sets.            *)
(***************************************************************************)
EXTENDS Naturals, FiniteSets

\* f[s] distinct units for every s in the domain of f.
Units(f) == UNION { {s} \X (1 .. f[s]) : s \in DOMAIN f }

\* The sum of f[s] over the domain of f.
Total(f) == Cardinality(Units(f))

\* Rust's saturating_sub on unsigned integers.
SatSub(a, b) == IF a >= b THEN a - b ELSE 0
=============================================================================
