-------------------------- MODULE SequentialSearch --------------------------
(***************************************************************************)
(* What a source search promises to the window that shows it, whatever the *)
(* number of threads behind it: the classes are settled one at a time and  *)
(* in the order given, each exactly once, until the search has covered all *)
(* of them, reaches a result limit or is cancelled; then nothing more is   *)
(* reported.                                                               *)
(***************************************************************************)
EXTENDS Naturals, Sequences

CONSTANTS
  NumClasses,  \* how many classes the search covers
  MaxHits      \* MAX_HITS, the largest number of hits reported

VARIABLES
  outcomes,  \* the settled classes, in the order they were settled
  hits,      \* the hits reported for them
  status     \* "scanning", "complete", "limited" or "cancelled"

vars == <<outcomes, hits, status>>

\* What one class contributes: "rejected" by the stored filter, "skipped"
\* (no source), or "scanned" with so many hits.
Outcome(i) ==
  [class : {i}, kind : {"rejected", "skipped"}, hits : {0}]
    \cup [class : {i}, kind : {"scanned"}, hits : 0 .. MaxHits]

Init ==
  /\ outcomes = <<>>
  /\ hits = 0
  /\ status = "scanning"

Settle ==
  /\ status = "scanning"
  /\ Len(outcomes) < NumClasses
  /\ hits < MaxHits
  /\ \E o \in Outcome(Len(outcomes)) :
       /\ hits + o.hits <= MaxHits
       /\ hits' = hits + o.hits
       /\ outcomes' = Append(outcomes, o)
  /\ UNCHANGED status

Complete ==
  /\ status = "scanning"
  /\ Len(outcomes) = NumClasses
  /\ status' = "complete"
  /\ UNCHANGED <<outcomes, hits>>

\* The hit limit or the limit on retained documents is reached.
ReachLimit ==
  /\ status = "scanning"
  /\ status' = "limited"
  /\ UNCHANGED <<outcomes, hits>>

Cancelled ==
  /\ status = "scanning"
  /\ status' = "cancelled"
  /\ UNCHANGED <<outcomes, hits>>

Next == Settle \/ Complete \/ ReachLimit \/ Cancelled

Spec == Init /\ [][Next]_vars
=============================================================================
