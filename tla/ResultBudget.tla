---------------------------- MODULE ResultBudget ----------------------------
(***************************************************************************)
(* The byte budget shared by the render workers of a streaming search      *)
(* (ResultBudget in search/streaming.rs).                                  *)
(*                                                                         *)
(* A class is identified by its position in the search order.  A worker    *)
(* reserves an estimate before it renders the class, replaces the estimate *)
(* by the actual size when the rendering is finished, and the coordinator  *)
(* releases the bytes when it consumes the result.  The class the          *)
(* coordinator needs next, the head, is always admitted; any other class   *)
(* waits until its bytes fit under the limit.                              *)
(*                                                                         *)
(* Every call runs under one mutex, so a call is one action.  A waiting    *)
(* call re-tests its condition every 20 ms whether or not it is notified,  *)
(* so a wait is a guard and no wakeup can be lost.                         *)
(***************************************************************************)
EXTENDS ChargeSum

CONSTANTS
  NumClasses,  \* how many classes the search covers
  Limit,       \* target for the reserved bytes
  Sizes        \* the sizes an estimate or a finished result can have

ASSUME BudgetAssumption ==
  /\ NumClasses \in Nat
  /\ Limit \in Nat
  /\ Sizes \subseteq Nat

Index == 0 .. NumClasses - 1

VARIABLES
  reserved,  \* state.0: the bytes the budget believes are outstanding
  head,      \* state.1: the class the coordinator waits for
  stopped,   \* state.2
  cancel,    \* the search's cancellation flag
  call,      \* where the holder of each class is in its sequence of calls
  charge     \* the bytes each class has outstanding

vars == <<reserved, head, stopped, cancel, call, charge>>

Calls == {"unreserved", "rendering", "finished", "gone"}

TypeOK ==
  /\ reserved \in Nat
  /\ head \in 0 .. NumClasses
  /\ stopped \in BOOLEAN
  /\ cancel \in BOOLEAN
  /\ call \in [Index -> Calls]
  /\ charge \in [Index -> Nat]

Init ==
  /\ reserved = 0
  /\ head = 0
  /\ stopped = FALSE
  /\ cancel = FALSE
  /\ call = [i \in Index |-> "unreserved"]
  /\ charge = [i \in Index |-> 0]

-----------------------------------------------------------------------------
\* A call that finds the budget stopped or the search cancelled gives up.
Refused == stopped \/ cancel

\* Fault: every size is admitted.
AdmitsAnyMutant(i, bytes, others) == TRUE

\* The admission test of reserve and finish: bytes beside `others` outstanding.
Admits(i, bytes, others) == i = head \/ bytes <= SatSub(Limit, others)

\* reserve(index, bytes): the estimate is capped by the limit before the call.
Reserve(i, estimate) ==
  /\ call[i] = "unreserved"
  /\ ~Refused
  /\ estimate <= Limit
  /\ Admits(i, estimate, reserved)
  /\ reserved' = reserved + estimate
  /\ call' = [call EXCEPT ![i] = "rendering"]
  /\ charge' = [charge EXCEPT ![i] = estimate]
  /\ UNCHANGED <<head, stopped, cancel>>

ReserveRefused(i) ==
  /\ call[i] = "unreserved"
  /\ Refused
  /\ call' = [call EXCEPT ![i] = "gone"]
  /\ UNCHANGED <<reserved, head, stopped, cancel, charge>>

\* Fault: the estimate is not taken back.
FinishKeepsEstimateMutant(i, actual) ==
  /\ call[i] = "rendering"
  /\ ~Refused
  /\ Admits(i, actual, SatSub(reserved, charge[i]))
  /\ reserved' = reserved + actual
  /\ call' = [call EXCEPT ![i] = "finished"]
  /\ charge' = [charge EXCEPT ![i] = actual]
  /\ UNCHANGED <<head, stopped, cancel>>

\* finish(index, reserved, actual): the estimate is exchanged for the actual
\* size under one lock.
Finish(i, actual) ==
  /\ call[i] = "rendering"
  /\ ~Refused
  /\ Admits(i, actual, SatSub(reserved, charge[i]))
  /\ reserved' = SatSub(reserved, charge[i]) + actual
  /\ call' = [call EXCEPT ![i] = "finished"]
  /\ charge' = [charge EXCEPT ![i] = actual]
  /\ UNCHANGED <<head, stopped, cancel>>

FinishRefused(i) ==
  /\ call[i] = "rendering"
  /\ Refused
  /\ reserved' = SatSub(reserved, charge[i])
  /\ call' = [call EXCEPT ![i] = "gone"]
  /\ charge' = [charge EXCEPT ![i] = 0]
  /\ UNCHANGED <<head, stopped, cancel>>

\* release(bytes): by the coordinator when it consumes the result, or by a
\* worker whose result nobody will receive.
Release(i) ==
  /\ call[i] = "finished"
  /\ reserved' = SatSub(reserved, charge[i])
  /\ call' = [call EXCEPT ![i] = "gone"]
  /\ charge' = [charge EXCEPT ![i] = 0]
  /\ UNCHANGED <<head, stopped, cancel>>

\* head(index): the coordinator moves on once nothing of the old head is left.
Advance ==
  /\ head + 1 \in Index
  /\ charge[head] = 0
  /\ head' = head + 1
  /\ UNCHANGED <<reserved, stopped, cancel, call, charge>>

\* stop(): at the end of the search.
Stop ==
  /\ stopped' = TRUE
  /\ UNCHANGED <<reserved, head, cancel, call, charge>>

\* The user cancels the search.
Cancel ==
  /\ cancel' = TRUE
  /\ UNCHANGED <<reserved, head, stopped, call, charge>>

Next ==
  \/ \E i \in Index :
       \/ \E bytes \in Sizes : Reserve(i, bytes) \/ Finish(i, bytes)
       \/ ReserveRefused(i)
       \/ FinishRefused(i)
       \/ Release(i)
  \/ Advance
  \/ Stop
  \/ Cancel

Spec == Init /\ [][Next]_vars

-----------------------------------------------------------------------------
\* The counter equals the sum of the charges still outstanding: no path of
\* reserve, finish and release, refused or not, in any order, counts bytes
\* twice or forgets them (and no saturating_sub ever saturates).
Accounted == reserved = Total(charge)

\* A class outside its reserve..release window holds nothing.
Unheld == \A i \in Index : call[i] \in {"unreserved", "gone"} => charge[i] = 0

FutureCharge == [i \in Index |-> IF i = head THEN 0 ELSE charge[i]]

\* The classes other than the head stay under the limit: only the required
\* head may exceed the target, which is what the type's comment promises.
FutureWithinLimit == Total(FutureCharge) <= Limit
=============================================================================
