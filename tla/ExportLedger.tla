---------------------------- MODULE ExportLedger ----------------------------
(***************************************************************************)
(* What a resumable export promises about its directory, whatever crashes  *)
(* and resumptions it goes through: an append-only ledger with one entry   *)
(* per class, in order, that is never rolled back, and is declared         *)
(* complete, once and for good, only when every class was exported.        *)
(***************************************************************************)
EXTENDS Naturals, Sequences

CONSTANT NumClasses  \* how many classes are selected

VARIABLES
  entries,  \* "exported" or "failed", for each class settled so far
  status    \* "none", "running", "incomplete", "cancelled" or "complete"

vars == <<entries, status>>

Settled == entries' \in {entries} \cup { Append(entries, e) : e \in {"exported", "failed"} }

Init ==
  /\ entries = <<>>
  /\ status = "none"

Open ==
  /\ status = "none"
  /\ status' = "running"
  /\ UNCHANGED entries

Settle ==
  /\ status = "running"
  /\ Len(entries) < NumClasses
  /\ Settled
  /\ UNCHANGED status

\* A worker stops.  The class it settled last may become visible with that.
Stop ==
  /\ status = "running"
  /\ status' \in {"incomplete", "cancelled"}
  /\ Settled
  /\ Len(entries') <= NumClasses

Resume ==
  /\ status \in {"incomplete", "cancelled"}
  /\ status' = "running"
  /\ UNCHANGED entries

Complete ==
  /\ status = "running"
  /\ Len(entries) = NumClasses
  /\ \A i \in 1 .. NumClasses : entries[i] = "exported"
  /\ status' = "complete"
  /\ UNCHANGED entries

Next == Open \/ Settle \/ Stop \/ Resume \/ Complete

Spec == Init /\ [][Next]_vars
=============================================================================
