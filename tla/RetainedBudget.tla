--------------------------- MODULE RetainedBudget ---------------------------
(***************************************************************************)
(* The byte budget shared by the optional caches of a project              *)
(* (retained_budget.rs).                                                   *)
(*                                                                         *)
(* reserve is a loop around a compare-and-exchange on one relaxed atomic   *)
(* counter, so other threads run between its steps.  A reservation is      *)
(* reference counted: whoever clones it keeps its charge alive, and the    *)
(* last owner to drop it gives the bytes back.                             *)
(***************************************************************************)
EXTENDS ChargeSum

CONSTANTS
  Threads,       \* callers of reserve
  Reservations,  \* identities of reservations
  Sizes,         \* how many bytes a caller may ask for
  Limit,         \* the limit of the budget
  MaxUsize,      \* usize::MAX
  MaxOwners      \* bound on the owners of one reservation

ASSUME RetainedAssumption ==
  /\ IsFiniteSet(Reservations)
  /\ MaxUsize \in Nat
  /\ Limit \in 0 .. MaxUsize
  /\ Sizes \subseteq 0 .. MaxUsize
  /\ MaxOwners \in Nat

VARIABLES
  used,    \* the atomic counter
  call,    \* for each thread, its call of reserve: step, bytes, value observed
  state,   \* "free", "held" or "dropping", for each reservation
  owners,  \* the strong count of each reservation
  charge   \* Reservation::bytes, 0 for a reservation that does not exist

vars == <<used, call, state, owners, charge>>

Idle == [step |-> "idle", bytes |-> 0, observed |-> 0]

TypeOK ==
  /\ used \in 0 .. MaxUsize
  /\ call \in [Threads -> [step : {"idle", "comparing"}, bytes : 0 .. MaxUsize,
                           observed : 0 .. MaxUsize]]
  /\ state \in [Reservations -> {"free", "held", "dropping"}]
  /\ owners \in [Reservations -> Nat]
  /\ charge \in [Reservations -> 0 .. MaxUsize]

Init ==
  /\ used = 0
  /\ call = [t \in Threads |-> Idle]
  /\ state = [r \in Reservations |-> "free"]
  /\ owners = [r \in Reservations |-> 0]
  /\ charge = [r \in Reservations |-> 0]

-----------------------------------------------------------------------------
\* Fault: the addition wraps around.
FitsWrappingMutant(observed, bytes) == (observed + bytes) % (MaxUsize + 1) <= Limit

\* checked_add, and the result is within the limit.
Fits(observed, bytes) ==
  /\ observed + bytes <= MaxUsize
  /\ observed + bytes <= Limit

Load(t, bytes) ==
  /\ call[t].step = "idle"
  /\ call' = [call EXCEPT ![t] = [step |-> "comparing", bytes |-> bytes, observed |-> used]]
  /\ UNCHANGED <<used, state, owners, charge>>

\* The value observed leaves no room: None.
Refuse(t) ==
  /\ call[t].step = "comparing"
  /\ ~Fits(call[t].observed, call[t].bytes)
  /\ call' = [call EXCEPT ![t] = Idle]
  /\ UNCHANGED <<used, state, owners, charge>>

\* The exchange fails, because the counter has moved or spuriously, and
\* reports the value it found.
Retry(t) ==
  /\ call[t].step = "comparing"
  /\ Fits(call[t].observed, call[t].bytes)
  /\ call' = [call EXCEPT ![t].observed = used]
  /\ UNCHANGED <<used, state, owners, charge>>

\* Fault: the counter is stored without comparing it.
ExchangeBlindMutant(t, r) ==
  /\ call[t].step = "comparing"
  /\ Fits(call[t].observed, call[t].bytes)
  /\ used' = call[t].observed + call[t].bytes
  /\ call' = [call EXCEPT ![t] = Idle]
  /\ state[r] = "free"
  /\ state' = [state EXCEPT ![r] = "held"]
  /\ owners' = [owners EXCEPT ![r] = 1]
  /\ charge' = [charge EXCEPT ![r] = call[t].bytes]

\* The exchange succeeds: the caller owns a new reservation.
Exchange(t, r) ==
  /\ call[t].step = "comparing"
  /\ Fits(call[t].observed, call[t].bytes)
  /\ used = call[t].observed
  /\ used' = call[t].observed + call[t].bytes
  /\ call' = [call EXCEPT ![t] = Idle]
  /\ state[r] = "free"
  /\ state' = [state EXCEPT ![r] = "held"]
  /\ owners' = [owners EXCEPT ![r] = 1]
  /\ charge' = [charge EXCEPT ![r] = call[t].bytes]

\* Arc::clone, by a cache entry or a reader.
Clone(r) ==
  /\ state[r] = "held"
  /\ owners[r] < MaxOwners
  /\ owners' = [owners EXCEPT ![r] = @ + 1]
  /\ UNCHANGED <<used, call, state, charge>>

\* An owner drops its Arc.  The last one goes on to Reservation::drop.
Disown(r) ==
  /\ state[r] = "held"
  /\ owners' = [owners EXCEPT ![r] = @ - 1]
  /\ state' = [state EXCEPT ![r] = IF owners[r] = 1 THEN "dropping" ELSE "held"]
  /\ UNCHANGED <<used, call, charge>>

\* Reservation::drop, a wrapping fetch_sub.
Drop(r) ==
  /\ state[r] = "dropping"
  /\ used' = IF used >= charge[r] THEN used - charge[r] ELSE used + MaxUsize + 1 - charge[r]
  /\ state' = [state EXCEPT ![r] = "free"]
  /\ charge' = [charge EXCEPT ![r] = 0]
  /\ UNCHANGED <<call, owners>>

Next ==
  \/ \E t \in Threads :
       \/ \E bytes \in Sizes : Load(t, bytes)
       \/ Refuse(t)
       \/ Retry(t)
       \/ \E r \in Reservations : Exchange(t, r)
  \/ \E r \in Reservations : Clone(r) \/ Disown(r) \/ Drop(r)

Spec == Init /\ [][Next]_vars

-----------------------------------------------------------------------------
\* The counter is exactly the sum of the reservations that are not given back
\* yet, whatever calls of reserve, clones and drops interleave: none is counted
\* twice or given back by an owner that is not the last.
Charged == used = Total(charge)

\* The caches together never retain more than the limit: two threads that both
\* saw room for their own bytes cannot both take it, and no request is so large
\* that the addition wraps.
WithinLimit == Total(charge) <= Limit

\* A reservation that does not exist charges nothing.
FreeUncharged == \A r \in Reservations : state[r] = "free" => charge[r] = 0

\* A live reservation has owners, and only a live one has: it is given back by
\* its last owner, and a clone never outlives the charge.
OwnersMatch == \A r \in Reservations : owners[r] > 0 <=> state[r] = "held"
=============================================================================
