------------------------- MODULE ProjectCachesProofs -------------------------
(***************************************************************************)
(* The budget of a project keeps its counter exact and within its limit    *)
(* for any number of threads and reservations.  The caches of a project    *)
(* use it only as RetainedBudget allows, so what is proved of the budget   *)
(* holds of all of them together; an index of identifiers that did not fit *)
(* is never built again; and every source cache keeps within its own two   *)
(* limits, with charged documents only, one of a class.                    *)
(*                                                                         *)
(* The inductive invariant of the budget is IInv.  That of the caches,     *)
(* CInv, adds to the types which steps of a thread have a document in      *)
(* hand, and that exactly the thread that has the lock builds, charges or  *)
(* publishes the index, while there is none.  OInv counts who has which    *)
(* document: it says that the strong count is exact, that a document about *)
(* to be stored is nobody else's and has the charge asked for, and that a  *)
(* cache that is copied rests.                                             *)
(***************************************************************************)
EXTENDS ProjectCaches, ChargeSumProofs, SequenceTheorems

-----------------------------------------------------------------------------
(* The budget *)

\* The inductive invariant.  A new reservation reuses an identity that holds
\* nothing; the counter must be exact for the last owner's subtraction not to
\* wrap, and the bound then carries over to the counter the exchange reads.
IInv == TypeOK /\ FreeUncharged /\ OwnersMatch /\ Charged /\ WithinLimit

\* What a change of one charge does to the sum.
LEMMA ChargeUpdate ==
  ASSUME TypeOK, NEW r \in Reservations, NEW n \in Nat
  PROVE  /\ Total([charge EXCEPT ![r] = n]) = Total(charge) - charge[r] + n
         /\ charge[r] \in Nat
         /\ Total(charge) \in Nat
         /\ charge[r] <= Total(charge)
<1>1. charge \in [Reservations -> Nat] /\ IsFiniteSet(Reservations)
  BY RetainedAssumption DEF TypeOK
<1>2. Total([charge EXCEPT ![r] = n]) = Total(charge) - charge[r] + n
  BY <1>1, TotalUpdate, Zenon
<1>3. Total(charge) \in Nat
  BY <1>1, TotalType, Zenon
<1>4. charge[r] <= Total(charge)
  BY <1>1, EntryWithinTotal, Zenon
<1>. QED
  BY <1>1, <1>2, <1>3, <1>4

LEMMA InitIInv == Init => IInv
<1>. SUFFICES ASSUME Init
              PROVE  IInv
  OBVIOUS
<1>1. TypeOK
  <2>1. used \in 0 .. MaxUsize
    BY RetainedAssumption DEF Init
  <2>2. Idle \in [step : {"idle", "comparing"}, bytes : 0 .. MaxUsize, observed : 0 .. MaxUsize]
    BY RetainedAssumption DEF Idle
  <2>3. charge \in [Reservations -> 0 .. MaxUsize]
    BY RetainedAssumption DEF Init
  <2>. QED
    BY <2>1, <2>2, <2>3 DEF Init, TypeOK
<1>2. FreeUncharged /\ OwnersMatch
  BY DEF Init, FreeUncharged, OwnersMatch
<1>3. Charged /\ WithinLimit
  BY TotalZero, RetainedAssumption DEF Init, Charged, WithinLimit
<1>. QED
  BY <1>1, <1>2, <1>3 DEF IInv

\* A call of reserve that has not succeeded changes nothing but itself.
LEMMA CallStep ==
  ASSUME IInv, NEW t \in Threads,
         (\E bytes \in Sizes : Load(t, bytes)) \/ Refuse(t) \/ Retry(t)
  PROVE  IInv'
<1>1. UNCHANGED <<used, state, owners, charge>>
  BY DEF Load, Refuse, Retry
<1>2. call' \in [Threads -> [step : {"idle", "comparing"}, bytes : 0 .. MaxUsize,
                             observed : 0 .. MaxUsize]]
  BY RetainedAssumption DEF Load, Refuse, Retry, Idle, IInv, TypeOK
<1>. QED
  BY <1>1, <1>2 DEF IInv, TypeOK, FreeUncharged, OwnersMatch, Charged, WithinLimit

\* A successful exchange adds exactly the bytes of the new reservation, and the
\* value it compared with is the current one.
LEMMA ExchangeStep ==
  ASSUME IInv, NEW t \in Threads, NEW r \in Reservations, Exchange(t, r)
  PROVE  IInv'
<1>. DEFINE n == call[t].bytes
<1>. USE RetainedAssumption DEF IInv, TypeOK
<1>1. n \in Nat /\ n <= MaxUsize /\ used' = used + n /\ used' <= Limit /\ used' <= MaxUsize
  BY DEF Exchange, Fits
<1>2. charge[r] = 0
  BY DEF Exchange, FreeUncharged
<1>3. TypeOK'
  BY <1>1 DEF Exchange, Idle
<1>4. FreeUncharged' /\ OwnersMatch'
  BY DEF Exchange, FreeUncharged, OwnersMatch
<1>5. Total(charge') = Total(charge) + n
  <2>1. charge' = [charge EXCEPT ![r] = n]
    BY DEF Exchange
  <2>2. Total([charge EXCEPT ![r] = n]) = Total(charge) - charge[r] + n
    BY <1>1, ChargeUpdate, Zenon
  <2>3. Total(charge) \in Nat
    BY ChargeUpdate
  <2>. HIDE DEF n
  <2>. QED
    BY <1>1, <1>2, <2>1, <2>2, <2>3
<1>6. Charged' /\ WithinLimit'
  BY <1>1, <1>5 DEF Charged, WithinLimit
<1>. QED
  BY <1>3, <1>4, <1>6

\* Owners come and go without touching the charge.
LEMMA OwnersStep ==
  ASSUME IInv, NEW r \in Reservations, Clone(r) \/ Disown(r)
  PROVE  IInv'
<1>1. UNCHANGED <<used, call, charge>>
  BY DEF Clone, Disown
<1>2. TypeOK' /\ FreeUncharged' /\ OwnersMatch'
  BY <1>1 DEF Clone, Disown, IInv, TypeOK, FreeUncharged, OwnersMatch
<1>. QED
  BY <1>1, <1>2 DEF IInv, Charged, WithinLimit

\* The last owner takes back exactly the charge, and the counter does not wrap.
LEMMA DropStep ==
  ASSUME IInv, NEW r \in Reservations, Drop(r)
  PROVE  IInv'
<1>. USE RetainedAssumption DEF IInv, TypeOK
<1>1. charge[r] \in Nat /\ charge[r] <= used
  BY ChargeUpdate DEF Charged
<1>2. used' = used - charge[r] /\ used' \in Nat
  BY <1>1 DEF Drop
<1>3. TypeOK'
  BY <1>1, <1>2 DEF Drop
<1>4. FreeUncharged' /\ OwnersMatch'
  BY DEF Drop, FreeUncharged, OwnersMatch
<1>5. Total(charge') = Total(charge) - charge[r]
  <2>1. charge' = [charge EXCEPT ![r] = 0]
    BY DEF Drop
  <2>2. Total([charge EXCEPT ![r] = 0]) = Total(charge) - charge[r] + 0
    BY ChargeUpdate
  <2>3. Total(charge) \in Nat
    BY ChargeUpdate
  <2>. QED
    BY <1>1, <2>1, <2>2, <2>3
<1>6. Charged' /\ WithinLimit'
  BY <1>1, <1>2, <1>5 DEF Charged, WithinLimit
<1>. QED
  BY <1>3, <1>4, <1>6

\* Every reachable state satisfies the inductive invariant.
LEMMA Invariance == Spec => []IInv
<1>1. IInv /\ [Next]_vars => IInv'
  <2>. SUFFICES ASSUME IInv, [Next]_vars
                PROVE  IInv'
    OBVIOUS
  <2>1. CASE UNCHANGED vars
    BY <2>1 DEF vars, IInv, TypeOK, FreeUncharged, OwnersMatch, Charged, WithinLimit
  <2>. QED
    BY <2>1, CallStep, ExchangeStep, OwnersStep, DropStep DEF Next
<1>. QED
  BY InitIInv, <1>1, PTL DEF Spec

\* The counter and the reservations keep their types: the counter never wraps.
THEOREM TypeCorrect == Spec => []TypeOK
BY Invariance, PTL DEF IInv

\* The counter equals the bytes of the reservations not given back yet
\* (retained_budget.rs, reserve and Reservation::drop).
THEOREM CounterExact == Spec => []Charged
BY Invariance, PTL DEF IInv

\* Threads that race for the remaining room never exceed the limit together.
THEOREM LimitRespected == Spec => []WithinLimit
BY Invariance, PTL DEF IInv

-----------------------------------------------------------------------------
(* The caches on the budget *)

InHand(j) ==
  /\ j.at \in {"storing", "publishing"} => j.code \in Reservations
  /\ j.at \in {"emptying", "recharging", "storing"} => j.class \in Classes
  /\ j.at = "emptying" => j.bytes \in Sizes
  /\ j.at = "charging" /\ j.class # None => j.bytes \in Sizes
  /\ j.at = "copying" => j.from \in Threads
  /\ j.at \in {"idle", "polling", "building", "publishing", "trimming"} => j.class = None

CInv == CachesTypeOK /\ (\A t \in Threads : InHand(job[t])) /\ BuildersTakeTurns

LEMMA RestingJob == Resting \in Job /\ InHand(Resting) /\ ~Builds(Resting)
BY CachesAssumption DEF Resting, Job, Steps, InHand, Builds

LEMMA InitCInv == CachesInit => CInv
<1> SUFFICES ASSUME CachesInit
             PROVE  CInv
  OBVIOUS
<1>1. \A t \in Threads : job[t] = Resting /\ cache[t] = <<>>
  BY DEF CachesInit
<1>2. CachesTypeOK
  <2>1. job \in [Threads -> Job] /\ cache \in [Threads -> Seq(Document)]
    BY RestingJob DEF CachesInit
  <2> QED
    BY <2>1 DEF CachesInit, CachesTypeOK
<1>3. BuildersTakeTurns
  BY <1>1, RestingJob, CachesAssumption DEF CachesInit, BuildersTakeTurns
<1> QED
  BY <1>1, <1>2, <1>3, RestingJob DEF CInv

\* What is left to show of a step that changes no more than a cache and its own job.
LEMMA SourceBecomes ==
  ASSUME CInv, NEW t \in Threads, NEW j \in Job, Become(t, j), InHand(j),
         Builds(j) <=> Builds(job[t]), UNCHANGED <<index, lock, streaming>>,
         cache' \in [Threads -> Seq(Document)]
  PROVE  CInv'
<1>1. job' = [job EXCEPT ![t] = j] /\ job \in [Threads -> Job]
  BY DEF Become, CInv, CachesTypeOK
<1>2. CachesTypeOK'
  BY <1>1 DEF CInv, CachesTypeOK
<1>3. \A u \in Threads : InHand(job'[u]) /\ (Builds(job'[u]) <=> Builds(job[u]))
  BY <1>1 DEF CInv
<1>4. (\A u \in Threads : InHand(job[u]))' /\ BuildersTakeTurns'
  BY <1>3 DEF CInv, BuildersTakeTurns
<1> QED
  BY <1>2, <1>4 DEF CInv

\* What is left to show of a step that changes the index, its lock or the mode too.
LEMMA IndexBecomes ==
  ASSUME CInv, NEW t \in Threads, NEW j \in Job, Become(t, j), InHand(j),
         UNCHANGED cache, index' \in Reservations \cup {None},
         lock' \in Threads \cup {None}, streaming' \in BOOLEAN,
         Builds(j) <=> lock' = t, lock' \in {None, t, lock},
         lock = None \/ lock = t \/ lock' = lock,
         lock' # None => index' = None,
         streaming' => index' = None /\ lock' = None
  PROVE  CInv'
<1>1. job' = [job EXCEPT ![t] = j] /\ job \in [Threads -> Job]
  BY DEF Become, CInv, CachesTypeOK
<1>2. CachesTypeOK'
  BY <1>1 DEF CInv, CachesTypeOK
<1>3. \A u \in Threads : InHand(job'[u]) /\ (u # t => job'[u] = job[u]) /\ job'[t] = j
  BY <1>1 DEF CInv
<1>4. \A u \in Threads : Builds(job'[u]) <=> lock' = u
  BY <1>3, CachesAssumption DEF CInv, BuildersTakeTurns
<1> QED
  BY <1>2, <1>3, <1>4 DEF CInv, BuildersTakeTurns

\* The fields of a job, and what they may become.
LEMMA JobFields ==
  ASSUME CInv, NEW t \in Threads
  PROVE  /\ job[t] \in Job /\ InHand(job[t]) /\ cache[t] \in Seq(Document)
         /\ Builds(job[t]) <=> lock = t
BY DEF CInv, CachesTypeOK, BuildersTakeTurns

LEMMA DocumentCode == \A d \in Document : d.code \in Reservations
BY DEF Document

\* A sequence without its i-th entry, which is appended.
LEMMA Moved ==
  ASSUME NEW S, NEW s \in Seq(S), NEW i \in 1..Len(s)
  PROVE  Append(RemoveAt(s, i), s[i]) \in Seq(S)
<1>1. s[i] \in S
  OBVIOUS
<1>2. SubSeq(s, 1, i - 1) \in Seq(S) /\ SubSeq(s, i + 1, Len(s)) \in Seq(S)
  OBVIOUS
<1>3. RemoveAt(s, i) \in Seq(S)
  BY <1>2 DEF RemoveAt
<1> QED
  BY <1>1, <1>3

\* No thread that builds the index takes a step with its source cache.
LEMMA SourceApart ==
  ASSUME NEW t \in Threads, SourceStep(t)
  PROVE  ~Builds(job[t])
<1> USE DEF At, Builds
<1>1. (\E i \in 1..Len(cache[t]) : Hit(t, i)) => ~Builds(job[t])
  BY DEF Hit
<1>2. (\E class \in Classes, bytes \in Sizes : Render(t, class, bytes)) => ~Builds(job[t])
  BY DEF Render
<1>3. NoRoom(t) \/ ChargeAgain(t) \/ ServeUncharged(t) => ~Builds(job[t])
  BY DEF NoRoom, ChargeAgain, ServeUncharged
<1>4. (\E r \in Reservations : ChargeDocument(t, r)) => ~Builds(job[t])
  BY DEF ChargeDocument
<1>5. Evict(t) \/ Store(t) \/ TooLarge(t) \/ Trim(t) \/ EndTrim(t) => ~Builds(job[t])
  BY DEF Evict, Store, TooLarge, Trim, EndTrim
<1>6. (\E u \in Threads : BeginCopy(t, u)) \/ Copy(t) => ~Builds(job[t])
  BY DEF BeginCopy, Copy
<1> HIDE DEF At, Builds
<1> QED
  BY <1>1, <1>2, <1>3, <1>4, <1>5, <1>6 DEF SourceStep

\* A step of an engine with its source cache leaves the index alone.
LEMMA SourceKeeps ==
  ASSUME CInv, NEW t \in Threads, SourceStep(t)
  PROVE  CInv'
<1>0. /\ job[t] \in Job /\ InHand(job[t]) /\ cache[t] \in Seq(Document)
      /\ cache \in [Threads -> Seq(Document)] /\ ~Builds(job[t])
  BY JobFields, SourceApart DEF CInv, CachesTypeOK
<1>1. ASSUME NEW i \in 1..Len(cache[t]), Hit(t, i)
      PROVE  CInv'
  <2> DEFINE j == [job[t] EXCEPT !.at = "reading", !.code = cache[t][i].code]
  <2>1. cache[t][i].code \in Reservations
    BY <1>0, DocumentCode
  <2>2. j \in Job /\ InHand(j) /\ ~Builds(j)
    BY <1>0, <2>1, ZenonT(30) DEF Job, Steps, InHand, Builds
  <2>3. cache' = [cache EXCEPT ![t] = Append(RemoveAt(cache[t], i), cache[t][i])]
    BY <1>1 DEF Hit
  <2>4. cache' \in [Threads -> Seq(Document)]
    BY <1>0, <2>3, Moved
  <2>5. Become(t, j) /\ UNCHANGED <<index, lock, streaming>>
    BY <1>1 DEF Hit
  <2> HIDE DEF j
  <2> QED
    BY <1>0, <2>2, <2>4, <2>5, SourceBecomes
<1>2. ASSUME NEW class \in Classes, NEW bytes \in Sizes, Render(t, class, bytes)
      PROVE  CInv'
  <2> DEFINE j == [job[t] EXCEPT !.at = "charging", !.class = class, !.bytes = bytes]
  <2>1. j \in Job /\ InHand(j) /\ ~Builds(j)
    BY <1>0, CachesAssumption DEF Job, Steps, InHand, Builds
  <2>2. Become(t, j) /\ UNCHANGED <<cache, index, lock, streaming>>
    BY <1>2 DEF Render
  <2> HIDE DEF j
  <2> QED
    BY <1>0, <2>1, <2>2, SourceBecomes
<1>3. ASSUME NEW step \in {"emptying", "recharging", "reading", "trimming"}, GoTo(t, step),
             step = "trimming" => job[t].at = "idle",
             step \in {"emptying", "recharging"} => job[t].class \in Classes,
             step = "emptying" => job[t].bytes \in Sizes,
             cache' \in [Threads -> Seq(Document)], UNCHANGED <<index, lock, streaming>>
      PROVE  CInv'
  <2> DEFINE j == [job[t] EXCEPT !.at = step]
  <2>1. j \in Job /\ InHand(j) /\ ~Builds(j)
    BY <1>0, <1>3 DEF Job, Steps, InHand, Builds
  <2>2. Become(t, j)
    BY <1>3 DEF GoTo
  <2> HIDE DEF j
  <2> QED
    BY <1>0, <1>3, <2>1, <2>2, SourceBecomes
<1>4. CASE NoRoom(t) \/ ChargeAgain(t) \/ ServeUncharged(t) \/ TooLarge(t) \/ Trim(t)
  BY <1>0, <1>3, <1>4 DEF NoRoom, ChargeAgain, ServeUncharged, TooLarge, Trim, At, InHand, Job
<1>5. ASSUME NEW r \in Reservations, ChargeDocument(t, r)
      PROVE  CInv'
  <2> DEFINE j == [job[t] EXCEPT !.at = "storing", !.code = r]
  <2>0. job[t].class \in Classes
    BY <1>0, <1>5 DEF ChargeDocument, At, InHand, Job
  <2>1. j \in Job /\ InHand(j) /\ ~Builds(j)
    BY <1>0, <2>0 DEF Job, Steps, InHand, Builds
  <2>2. Become(t, j) /\ UNCHANGED <<cache, index, lock, streaming>>
    BY <1>5 DEF ChargeDocument
  <2> HIDE DEF j
  <2> QED
    BY <1>0, <2>1, <2>2, SourceBecomes
<1>6. CASE Evict(t)
  <2> DEFINE r == Head(cache[t]).code
             j == Owning(job[t], r)
  <2>1. cache[t] # <<>>
    BY <1>6 DEF Evict
  <2>2. r \in Reservations /\ Tail(cache[t]) \in Seq(Document)
    BY <1>0, <2>1, DocumentCode
  <2>3. j \in Job /\ InHand(j) /\ (Builds(j) => Builds(job[t]))
    <3> HIDE DEF r
    <3> QED
      BY <1>0, <2>2 DEF Owning, Job, InHand, Builds
  <2>4. cache' \in [Threads -> Seq(Document)]
    BY <1>0, <1>6, <2>2 DEF Evict
  <2>5. Become(t, j) /\ UNCHANGED <<index, lock, streaming>>
    BY <1>6 DEF Evict
  <2> HIDE DEF j
  <2> QED
    BY <1>0, <2>3, <2>4, <2>5, SourceBecomes
<1>7. CASE Store(t)
  <2> DEFINE d == [class |-> job[t].class, code |-> job[t].code]
  <2>1. d \in Document
    BY <1>0, <1>7 DEF Store, At, Document, Job, InHand
  <2>2. cache' = [cache EXCEPT ![t] = Append(cache[t], d)]
    BY <1>7 DEF Store
  <2>3. cache' \in [Threads -> Seq(Document)]
    <3> HIDE DEF d
    <3> QED
      BY <1>0, <2>1, <2>2
  <2> QED
    BY <1>3, <1>7, <2>3 DEF Store
<1>8. CASE EndTrim(t)
  <2> DEFINE j == [job[t] EXCEPT !.at = "idle"]
  <2>1. j \in Job /\ InHand(j) /\ ~Builds(j)
    BY <1>0, <1>8 DEF EndTrim, At, Job, Steps, InHand, Builds
  <2>2. Become(t, j) /\ UNCHANGED <<cache, index, lock, streaming>>
    BY <1>8 DEF EndTrim, GoTo
  <2> HIDE DEF j
  <2> QED
    BY <1>0, <2>1, <2>2, SourceBecomes
<1>9. ASSUME NEW u \in Threads, BeginCopy(t, u)
      PROVE  CInv'
  <2> DEFINE j == [job[t] EXCEPT !.at = "copying", !.from = u]
  <2>1. j \in Job /\ InHand(j) /\ ~Builds(j)
    BY <1>0 DEF Job, Steps, InHand, Builds
  <2>2. Become(t, j) /\ UNCHANGED <<cache, index, lock, streaming>>
    BY <1>9 DEF BeginCopy
  <2> HIDE DEF j
  <2> QED
    BY <1>0, <2>1, <2>2, SourceBecomes
<1>10. CASE Copy(t)
  <2> DEFINE source == cache[job[t].from]
             i == Len(cache[t]) + 1
             j == IF i = Len(source) THEN Resting ELSE job[t]
  <2>1. source \in Seq(Document)
    BY <1>0, <1>10 DEF Copy, At, InHand
  <2>2. i \in 1..Len(source)
    BY <1>0, <1>10, <2>1 DEF Copy
  <2>3. source[i] \in Document
    BY <2>1, <2>2
  <2>4. cache' = [cache EXCEPT ![t] = Append(cache[t], source[i])]
    BY <1>10 DEF Copy
  <2>5. Become(t, j) /\ UNCHANGED <<index, lock, streaming>>
    BY <1>10 DEF Copy
  <2>6. j \in Job /\ InHand(j) /\ (Builds(j) => Builds(job[t]))
    BY <1>0, RestingJob
  <2>7. cache' \in [Threads -> Seq(Document)]
    <3> HIDE DEF source, i
    <3> QED
      BY <1>0, <2>3, <2>4
  <2> HIDE DEF j
  <2> QED
    BY <1>0, <2>5, <2>6, <2>7, SourceBecomes
<1> QED
  BY <1>1, <1>2, <1>4, <1>5, <1>6, <1>7, <1>8, <1>9, <1>10 DEF SourceStep

\* Only the thread that has the lock builds, and only it sets what they all see.
LEMMA IndexKeeps ==
  ASSUME CInv, NEW t \in Threads, IndexStep(t)
  PROVE  CInv'
<1>0. /\ job[t] \in Job /\ InHand(job[t]) /\ (Builds(job[t]) <=> lock = t)
      /\ index \in Reservations \cup {None} /\ lock \in Threads \cup {None}
      /\ streaming \in BOOLEAN
      /\ lock # None => index = None
      /\ streaming => index = None /\ lock = None
  BY JobFields DEF CInv, CachesTypeOK, BuildersTakeTurns
<1>1. CASE Query(t)
  <2> DEFINE j == [job[t] EXCEPT !.at = "polling"]
  <2>1. j \in Job /\ InHand(j) /\ ~Builds(j) /\ ~Builds(job[t])
    BY <1>0, <1>1 DEF Query, At, Job, Steps, InHand, Builds
  <2>2. Become(t, j) /\ UNCHANGED <<cache, index, lock, streaming>>
    BY <1>1 DEF Query, GoTo
  <2> HIDE DEF j
  <2> QED
    BY <1>0, <2>1, <2>2, CachesAssumption, IndexBecomes
<1>2. CASE Cancel(t)
  <2> DEFINE j == [job[t] EXCEPT !.cancelled = TRUE]
  <2>1. j \in Job /\ InHand(j) /\ (Builds(j) <=> Builds(job[t]))
    BY <1>0 DEF Job, InHand, Builds
  <2>2. Become(t, j) /\ UNCHANGED <<cache, index, lock, streaming>>
    BY <1>2 DEF Cancel
  <2> HIDE DEF j
  <2> QED
    BY <1>0, <2>1, <2>2, CachesAssumption, IndexBecomes
<1>3. CASE StopPolling(t)
  <2>1. Become(t, Resting) /\ UNCHANGED <<cache, index, lock, streaming>>
    BY <1>3 DEF StopPolling
  <2>2. ~Builds(job[t])
    BY <1>3 DEF StopPolling, At, Builds
  <2> QED
    BY <1>0, <2>1, <2>2, RestingJob, CachesAssumption, IndexBecomes
<1>4. CASE ShareIndex(t)
  <2> DEFINE j == [job[t] EXCEPT !.at = "reading", !.code = index]
  <2>1. j \in Job /\ InHand(j) /\ ~Builds(j)
    BY <1>0, ZenonT(30) DEF Job, Steps, InHand, Builds
  <2>2. Become(t, j) /\ UNCHANGED <<cache, index, lock, streaming>> /\ lock = None
    BY <1>4 DEF ShareIndex
  <2> HIDE DEF j
  <2> QED
    BY <1>0, <2>1, <2>2, CachesAssumption, IndexBecomes
<1>5. CASE BeginBuild(t)
  <2>1. lock = None /\ index = None /\ UNCHANGED <<cache, index, streaming>>
    BY <1>5 DEF BeginBuild
  <2>2. CASE MayBuild
    <3> DEFINE j == [job[t] EXCEPT !.at = "building"]
    <3>1. j \in Job /\ InHand(j) /\ Builds(j)
      BY <1>0, <1>5 DEF BeginBuild, At, Job, Steps, InHand, Builds
    <3>2. Become(t, j) /\ lock' = t /\ ~streaming
      BY <1>5, <2>2 DEF BeginBuild, MayBuild, GoTo
    <3> HIDE DEF j
    <3> QED
      BY <1>0, <2>1, <3>1, <3>2, CachesAssumption, IndexBecomes
  <2>3. CASE ~MayBuild
    <3>1. Become(t, Resting) /\ UNCHANGED lock
      BY <1>5, <2>3 DEF BeginBuild
    <3> QED
      BY <1>0, <2>1, <3>1, RestingJob, CachesAssumption, IndexBecomes
  <2> QED
    BY <2>2, <2>3
<1>6. ASSUME NEW bytes \in Sizes, Built(t, bytes)
      PROVE  CInv'
  <2> DEFINE j == [job[t] EXCEPT !.at = "charging"]
  <2>1. j \in Job /\ InHand(j) /\ lock = t /\ Builds(j)
    BY <1>0, <1>6 DEF Built, At, Job, Steps, InHand, Builds
  <2>2. Become(t, j) /\ UNCHANGED <<cache, index, lock, streaming>>
    BY <1>6 DEF Built, GoTo
  <2> HIDE DEF j
  <2> QED
    BY <1>0, <2>1, <2>2, CachesAssumption, IndexBecomes
<1>7. CASE NotBuilt(t) \/ Overflow(t)
  <2>1. lock = t
    BY <1>0, <1>7 DEF NotBuilt, Overflow, At, Builds
  <2>2. Become(t, Resting) /\ lock' = None /\ UNCHANGED <<cache, index>>
    BY <1>7 DEF NotBuilt, Overflow
  <2>3. streaming' \in BOOLEAN /\ index = None
    BY <1>0, <1>7, <2>1, CachesAssumption DEF NotBuilt, Overflow
  <2> QED
    BY <1>0, <2>1, <2>2, <2>3, RestingJob, CachesAssumption, IndexBecomes
<1>8. ASSUME NEW r \in Reservations, ChargeIndex(t, r)
      PROVE  CInv'
  <2> DEFINE j == [job[t] EXCEPT !.at = "publishing", !.code = r]
  <2>1. j \in Job /\ InHand(j) /\ lock = t /\ Builds(j)
    BY <1>0, <1>8 DEF ChargeIndex, At, Job, Steps, InHand, Builds
  <2>2. Become(t, j) /\ UNCHANGED <<cache, index, lock, streaming>>
    BY <1>8 DEF ChargeIndex
  <2> HIDE DEF j
  <2> QED
    BY <1>0, <2>1, <2>2, CachesAssumption, IndexBecomes
<1>9. CASE Publish(t)
  <2> DEFINE j == [job[t] EXCEPT !.at = "reading"]
  <2>1. j \in Job /\ InHand(j) /\ ~Builds(j) /\ lock = t /\ job[t].code \in Reservations
    BY <1>0, <1>9 DEF Publish, At, Job, Steps, InHand, Builds
  <2>2. Become(t, j) /\ index' = job[t].code /\ lock' = None /\ UNCHANGED <<cache, streaming>>
    BY <1>9 DEF Publish, GoTo
  <2>3. ~streaming
    BY <1>0, <2>1, CachesAssumption
  <2> HIDE DEF j
  <2> QED
    BY <1>0, <2>1, <2>2, <2>3, CachesAssumption, IndexBecomes
<1> QED
  BY <1>1, <1>2, <1>3, <1>4, <1>5, <1>6, <1>7, <1>8, <1>9 DEF IndexStep

LEMMA OthersKeep ==
  ASSUME CInv, NEW t \in Threads, CompareAgain(t) \/ GiveBack(t) \/ Forget(t)
  PROVE  CInv'
<1>0. job[t] \in Job /\ InHand(job[t]) /\ cache \in [Threads -> Seq(Document)]
  BY JobFields DEF CInv, CachesTypeOK
<1>1. CASE CompareAgain(t)
  BY <1>1 DEF CompareAgain, local, CInv, CachesTypeOK, BuildersTakeTurns
<1>2. CASE GiveBack(t)
  <2> DEFINE j == [job[t] EXCEPT !.drop = None]
  <2>1. j \in Job /\ InHand(j) /\ (Builds(j) <=> Builds(job[t]))
    BY <1>0 DEF Job, InHand, Builds
  <2>2. Become(t, j) /\ UNCHANGED <<cache, index, lock, streaming>>
    BY <1>2 DEF GiveBack
  <2> HIDE DEF j
  <2> QED
    BY <1>0, <2>1, <2>2, SourceBecomes
<1>3. CASE Forget(t)
  <2>0. UNCHANGED <<cache, index, lock, streaming>> /\ ~Builds(job[t])
    BY <1>3 DEF Forget, At, Builds
  <2>1. CASE job[t].code = None
    <3>1. Become(t, Resting)
      BY <1>3, <2>1 DEF Forget
    <3> QED
      BY <1>0, <2>0, <3>1, RestingJob, SourceBecomes
  <2>2. CASE job[t].code # None
    <3> DEFINE r == job[t].code
               j == Owning(Resting, r)
    <3>1. r \in Reservations
      BY <1>0, <2>2 DEF Job
    <3>2. j \in Job /\ InHand(j) /\ ~Builds(j)
      <4> HIDE DEF r
      <4> QED
        BY <3>1, RestingJob DEF Owning, Job, InHand, Builds
    <3>3. Become(t, j)
      BY <1>3, <2>2 DEF Forget
    <3> HIDE DEF j
    <3> QED
      BY <1>0, <2>0, <3>2, <3>3, SourceBecomes
  <2> QED
    BY <2>1, <2>2
<1> QED
  BY <1>1, <1>2, <1>3

\* Every reachable state satisfies the inductive invariant.
LEMMA CachesInvariance == CachesSpec => []CInv
<1>1. CInv /\ [CachesNext]_<<vars, local>> => CInv'
  <2> SUFFICES ASSUME CInv, [CachesNext]_<<vars, local>>
               PROVE  CInv'
    OBVIOUS
  <2>1. CASE UNCHANGED <<vars, local>>
    BY <2>1 DEF local, CInv, CachesTypeOK, BuildersTakeTurns
  <2> QED
    BY <2>1, SourceKeeps, IndexKeeps, OthersKeep DEF CachesNext
<1> QED
  BY InitCInv, <1>1, PTL DEF CachesSpec

\* A step of an engine with its source cache is a step of the budget, or none.
LEMMA SourceUsesBudget ==
  ASSUME CInv, NEW t \in Threads, SourceStep(t)
  PROVE  [Next]_vars
<1>0. job[t] \in Job /\ InHand(job[t]) /\ cache[t] \in Seq(Document)
  BY JobFields
<1>1. ASSUME NEW i \in 1..Len(cache[t]), Hit(t, i)
      PROVE  [Next]_vars
  <2>1. cache[t][i].code \in Reservations
    BY <1>0, DocumentCode
  <2> QED
    BY <1>1, <2>1 DEF Hit, Next
<1>2. ASSUME NEW class \in Classes, NEW bytes \in Sizes, Render(t, class, bytes)
      PROVE  [Next]_vars
  BY <1>2 DEF Render, Next
<1>3. CASE NoRoom(t) \/ ServeUncharged(t)
  BY <1>3 DEF NoRoom, ServeUncharged, Next
<1>4. CASE ChargeAgain(t)
  BY <1>0, <1>4 DEF ChargeAgain, At, InHand, Next
<1>5. ASSUME NEW r \in Reservations, ChargeDocument(t, r)
      PROVE  [Next]_vars
  BY <1>5 DEF ChargeDocument, Next
<1>6. CASE Evict(t)
  <2>1. cache[t] # <<>> /\ Disown(Head(cache[t]).code)
    BY <1>6 DEF Evict
  <2>2. Head(cache[t]).code \in Reservations
    BY <1>0, <2>1, DocumentCode
  <2> QED
    BY <2>1, <2>2 DEF Next
<1>7. CASE Store(t)
  <2>1. job[t].code \in Reservations /\ Clone(job[t].code)
    BY <1>0, <1>7 DEF Store, At, InHand
  <2> QED
    BY <2>1 DEF Next
<1>8. CASE TooLarge(t) \/ Trim(t) \/ EndTrim(t)
  BY <1>8 DEF TooLarge, Trim, EndTrim
<1>9. ASSUME NEW u \in Threads, BeginCopy(t, u)
      PROVE  [Next]_vars
  BY <1>9 DEF BeginCopy
<1>10. CASE Copy(t)
  <2> DEFINE source == cache[job[t].from]
             i == Len(cache[t]) + 1
  <2>1. source \in Seq(Document)
    BY <1>0, <1>10 DEF CInv, CachesTypeOK, Copy, At, InHand
  <2>2. i \in 1..Len(source) /\ Clone(source[i].code)
    BY <1>0, <1>10, <2>1 DEF Copy
  <2>3. source[i].code \in Reservations
    BY <2>1, <2>2, DocumentCode
  <2> QED
    BY <2>2, <2>3 DEF Next
<1> QED
  BY <1>1, <1>2, <1>3, <1>4, <1>5, <1>6, <1>7, <1>8, <1>9, <1>10 DEF SourceStep

\* So is a step on the index.
LEMMA IndexUsesBudget ==
  ASSUME CInv, NEW t \in Threads, IndexStep(t)
  PROVE  [Next]_vars
<1>1. CASE Query(t) \/ Cancel(t) \/ StopPolling(t) \/ BeginBuild(t) \/ NotBuilt(t)
  BY <1>1 DEF Query, Cancel, StopPolling, BeginBuild, NotBuilt
<1>2. CASE ShareIndex(t)
  <2>1. index \in Reservations /\ Clone(index)
    BY <1>2 DEF ShareIndex, CInv, CachesTypeOK
  <2> QED
    BY <2>1 DEF Next
<1>3. ASSUME NEW bytes \in Sizes, Built(t, bytes)
      PROVE  [Next]_vars
  BY <1>3 DEF Built, Next
<1>4. CASE Overflow(t)
  BY <1>4 DEF Overflow, Next
<1>5. ASSUME NEW r \in Reservations, ChargeIndex(t, r)
      PROVE  [Next]_vars
  BY <1>5 DEF ChargeIndex, Next
<1>6. CASE Publish(t)
  <2>1. job[t].code \in Reservations /\ Clone(job[t].code)
    BY <1>6, JobFields DEF Publish, At, InHand
  <2> QED
    BY <2>1 DEF Next
<1> QED
  BY <1>1, <1>2, <1>3, <1>4, <1>5, <1>6 DEF IndexStep

\* Every step of a thread is one of the budget, or none.
LEMMA StepUsesBudget ==
  ASSUME CInv, [CachesNext]_<<vars, local>>
  PROVE  [Next]_vars
<1>1. CASE UNCHANGED <<vars, local>>
  BY <1>1
<1>2. ASSUME NEW t \in Threads, CompareAgain(t) \/ GiveBack(t) \/ Forget(t)
      PROVE  [Next]_vars
  <2>0. job[t] \in Job
    BY JobFields
  <2>1. CASE CompareAgain(t)
    BY <2>1 DEF CompareAgain, Next
  <2>2. CASE GiveBack(t)
    <3>1. job[t].drop \in Reservations /\ Drop(job[t].drop)
      BY <2>0, <2>2 DEF GiveBack, Job
    <3> QED
      BY <3>1 DEF Next
  <2>3. CASE Forget(t)
    <3>1. UNCHANGED vars \/ (job[t].code \in Reservations /\ Disown(job[t].code))
      BY <2>0, <2>3 DEF Forget, Job
    <3> QED
      BY <3>1 DEF Next
  <2> QED
    BY <1>2, <2>1, <2>2, <2>3
<1> QED
  BY <1>1, <1>2, SourceUsesBudget, IndexUsesBudget DEF CachesNext

\* The source caches and the index, with everything that renders, evicts, clones and builds
\* in any order, use the budget as its own specification says (engine.rs decompile_shared,
\* Cache::get_or_build in identifier_search.rs).
THEOREM CachesUseBudget == CachesSpec => Spec
<1>1. CachesInit => Init
  BY DEF CachesInit
<1> QED
  BY <1>1, CachesInvariance, StepUsesBudget, PTL DEF CachesSpec, Spec

\* So all documents and indexes that are kept or read fit into the limit together.
THEOREM CachesWithinLimit == CachesSpec => []WithinLimit
BY CachesUseBudget, LimitRespected, PTL

\* Whoever holds the lock of the index builds it, and an index that did not fit is never
\* there or under construction again (search_with_budget and get_or_build in
\* identifier_search.rs).
THEOREM IndexBuiltInTurns == CachesSpec => []BuildersTakeTurns
BY CachesInvariance, PTL DEF CInv

-----------------------------------------------------------------------------
(* Who owns what, and the bounds of a source cache *)

Codes(s) == {s[i].code : i \in 1..Len(s)}
ClassesOf(s) == {s[i].class : i \in 1..Len(s)}

\* No two entries have the same class or the same document.
Distinct(s) ==
  \A i, k \in 1..Len(s) : i # k => s[i].code # s[k].code /\ s[i].class # s[k].class

\* The bytes of the documents in S, when f gives those of each.
Weighed(f, S) == [r \in Reservations |-> IF r \in S THEN f[r] ELSE 0]
Weight(f, S) == Total(Weighed(f, S))

CacheFits(f, s) ==
  Distinct(s) /\ Len(s) <= CacheEntries /\ Weight(f, Codes(s)) <= CacheBytes

CacheOwners(r) == {t \in Threads : r \in Codes(cache[t])}
JobOwners(r) == {t \in Threads : job[t].code = r}

\* 1 if P, 0 otherwise.
Bit(P) == IF P THEN 1 ELSE 0

\* The strong count of a document or index is the number of those that have it.
CountedAt(r) ==
  /\ IsFiniteSet(CacheOwners(r)) /\ IsFiniteSet(JobOwners(r))
  /\ owners[r] = Cardinality(CacheOwners(r)) + Cardinality(JobOwners(r)) + Bit(index = r)

\* What a job knows of the source cache s of its engine, when its call of reserve is for n bytes.
JobFits(j, s, n) ==
  /\ j.at \notin {"storing", "reading", "publishing"} => j.code = None
  /\ j.at \in {"charging", "emptying", "recharging", "storing"} => j.class \notin ClassesOf(s)
  /\ (j.at = "charging" /\ j.class # None) \/ j.at = "recharging" => n = j.bytes
  /\ j.at # "copying" => j.from = None

\* A document about to be stored is nobody else's, and its charge is what was asked for.
Sole(t) ==
  \A r \in Reservations : job[t].at = "storing" /\ job[t].code = r =>
    charge[r] = job[t].bytes /\ CacheOwners(r) = {} /\ JobOwners(r) = {t} /\ index # r

\* While a cache is copied it rests, and the copy is a part of it from its start.
Copies(t) ==
  job[t].at = "copying" =>
    /\ job[t].from # t /\ At(job[t].from, "idle")
    /\ Len(cache[t]) < Len(cache[job[t].from])
    /\ \A i \in 1..Len(cache[t]) : cache[t][i] = cache[job[t].from][i]

\* The inductive invariant of the owners and the bounds.
OInv ==
  /\ \A r \in Reservations : CountedAt(r)
  /\ \A t \in Threads :
       /\ CacheFits(charge, cache[t]) /\ JobFits(job[t], cache[t], call[t].bytes)
       /\ Sole(t) /\ Copies(t)

\* The sum over the positions of a sequence without duplicates is the one over its codes.
LEMMA WeightOfPositions ==
  ASSUME NEW f \in [Reservations -> Nat], NEW s \in Seq(Document), Distinct(s)
  PROVE  Total([i \in 1..Len(s) |-> f[s[i].code]]) = Weight(f, Codes(s))
<1> DEFINE g == [i \in 1..Len(s) |-> f[s[i].code]]
           w == Weighed(f, Codes(s))
           m == [p \in Units(g) |-> <<s[p[1]].code, p[2]>>]
<1>0. \A i \in 1..Len(s) : s[i].code \in Reservations
  BY DocumentCode
<1>1. g \in [1..Len(s) -> Nat] /\ IsFiniteSet(1..Len(s))
  <2>1. Len(s) \in Nat
    OBVIOUS
  <2>2. IsFiniteSet(1..Len(s))
    BY <2>1, 1 \in Int, Len(s) \in Int, FS_Interval, Zenon
  <2> QED
    BY <1>0, <2>2
<1>2. w \in [Reservations -> Nat]
  BY DEF Weighed
<1>3. IsFiniteSet(Units(g))
  BY <1>1, TotalType, Zenon
<1>4. \A p : p \in Units(g) <=> \E i \in 1..Len(s) : \E k \in 1..f[s[i].code] : p = <<i, k>>
  BY DEF Units
<1>5. \A q : q \in Units(w) <=>
        \E r \in Reservations : r \in Codes(s) /\ \E k \in 1..f[r] : q = <<r, k>>
  BY DEF Units, Weighed
<1>6. m \in [Units(g) -> Units(w)]
  <2> SUFFICES ASSUME NEW i \in 1..Len(s), NEW k \in 1..f[s[i].code]
               PROVE  <<s[i].code, k>> \in Units(w)
    BY <1>4
  <2> QED
    BY <1>0, <1>5 DEF Codes
<1>7. \A p, q \in Units(g) : m[p] = m[q] => p = q
  BY <1>4, SMTT(30) DEF Distinct
<1>8. \A q \in Units(w) : \E p \in Units(g) : m[p] = q
  <2> TAKE q \in Units(w)
  <2>. PICK r \in Reservations : r \in Codes(s) /\ \E k \in 1..f[r] : q = <<r, k>>
    BY <1>5
  <2>. PICK k \in 1..f[r] : q = <<r, k>>
    OBVIOUS
  <2>0. PICK i \in 1..Len(s) : r = s[i].code
    BY DEF Codes
  <2>1. <<i, k>> \in Units(g)
    BY <1>4, <2>0
  <2>2. m[<<i, k>>] = q
    BY <2>0, <2>1
  <2> QED
    BY <2>1, <2>2
<1> HIDE DEF g, w, m
<1>9. m \in Bijection(Units(g), Units(w))
  BY <1>6, <1>7, <1>8 DEF Bijection, Injection, Surjection, IsInjective
<1>10. Cardinality(Units(w)) = Cardinality(Units(g))
  BY <1>3, <1>9, FS_Bijection DEF ExistsBijection
<1> QED
  BY <1>10 DEF Total, Weight, g, w

LEMMA WeightType ==
  ASSUME NEW f \in [Reservations -> Nat], NEW S
  PROVE  /\ Weighed(f, S) \in [Reservations -> Nat]
         /\ IsFiniteSet(Units(Weighed(f, S))) /\ Weight(f, S) \in Nat
<1>1. Weighed(f, S) \in [Reservations -> Nat]
  BY DEF Weighed
<1> QED
  BY <1>1, TotalType, RetainedAssumption DEF Weight

\* A document more.
LEMMA WeightMore ==
  ASSUME NEW f \in [Reservations -> Nat], NEW S, NEW r \in Reservations, r \notin S
  PROVE  Weight(f, S \cup {r}) = Weight(f, S) + f[r]
<1>1. Weighed(f, S) \in [Reservations -> Nat] /\ Weight(f, S) \in Nat
  BY WeightType
<1>2. Weighed(f, S \cup {r}) = [Weighed(f, S) EXCEPT ![r] = f[r]] /\ Weighed(f, S)[r] = 0
  BY DEF Weighed
<1>3. f[r] \in Nat /\ IsFiniteSet(Reservations)
  BY RetainedAssumption
<1>4. Total([Weighed(f, S) EXCEPT ![r] = f[r]])
        = Total(Weighed(f, S)) - Weighed(f, S)[r] + f[r]
  BY <1>1, <1>3, TotalUpdate, Zenon
<1> QED
  BY <1>1, <1>2, <1>3, <1>4 DEF Weight

\* A part of the documents.
LEMMA WeightPart ==
  ASSUME NEW f \in [Reservations -> Nat], NEW S, NEW T \in SUBSET S
  PROVE  Weight(f, T) <= Weight(f, S)
<1>1. Units(Weighed(f, T)) \subseteq Units(Weighed(f, S))
  BY DEF Units, Weighed
<1> QED
  BY <1>1, WeightType, FS_Subset DEF Weight, Total

\* Other bytes elsewhere.
LEMMA WeightSame ==
  ASSUME NEW f, NEW h, NEW S, \A r \in S \cap Reservations : h[r] = f[r]
  PROVE  Weight(h, S) = Weight(f, S)
<1>1. Weighed(h, S) = Weighed(f, S)
  BY DEF Weighed
<1> QED
  BY <1>1 DEF Weight

\* A finite set with one element, and without it.
LEMMA WithElement ==
  ASSUME NEW S, IsFiniteSet(S), NEW x
  PROVE  /\ IsFiniteSet(S \cup {x}) /\ Cardinality(S) \in Nat
         /\ Cardinality(S \cup {x}) = Cardinality(S) - Bit(x \in S) + 1
<1>1. Cardinality(S) \in Nat
  BY FS_CardinalityType, Zenon
<1>2. /\ IsFiniteSet(S \cup {x})
      /\ Cardinality(S \cup {x}) = IF x \in S THEN Cardinality(S) ELSE Cardinality(S) + 1
  BY FS_AddElement, Zenon
<1> QED
  BY <1>1, <1>2 DEF Bit

LEMMA WithoutElement ==
  ASSUME NEW S, IsFiniteSet(S), NEW x
  PROVE  /\ IsFiniteSet(S \ {x}) /\ Cardinality(S) \in Nat
         /\ Cardinality(S \ {x}) = Cardinality(S) - Bit(x \in S)
<1>1. Cardinality(S) \in Nat
  BY FS_CardinalityType, Zenon
<1>2. /\ IsFiniteSet(S \ {x})
      /\ Cardinality(S \ {x}) = IF x \in S THEN Cardinality(S) - 1 ELSE Cardinality(S)
  BY FS_RemoveElement, Zenon
<1> QED
  BY <1>1, <1>2 DEF Bit

\* A document is used: it moves to the end.
LEMMA MovedSame ==
  ASSUME NEW s \in Seq(Document), NEW i \in 1..Len(s),
         NEW m, m = Append(RemoveAt(s, i), s[i])
  PROVE  /\ m \in Seq(Document) /\ Len(m) = Len(s)
         /\ Codes(m) = Codes(s) /\ ClassesOf(m) = ClassesOf(s) /\ (Distinct(s) => Distinct(m))
<1> DEFINE n == Len(s)
           front == SubSeq(s, 1, i - 1)
           back == SubSeq(s, i + 1, n)
           place(k) == IF k < i THEN k ELSE IF k < n THEN k + 1 ELSE i
<1>0. n \in Nat /\ i \in 1..n /\ s[i] \in Document
  OBVIOUS
<1>1. /\ front \in Seq(Document) /\ Len(front) = i - 1
      /\ \A k \in 1..(i - 1) : front[k] = s[k]
  OBVIOUS
<1>2. /\ back \in Seq(Document) /\ Len(back) = n - i
      /\ \A k \in 1..(n - i) : back[k] = s[i + k]
  OBVIOUS
<1>3. m = Append(front \o back, s[i])
  BY DEF RemoveAt
<1> HIDE DEF front, back
<1>4. /\ front \o back \in Seq(Document) /\ Len(front \o back) = n - 1
      /\ \A k \in 1..(n - 1) : (front \o back)[k] = s[place(k)]
  <2>1. front \o back \in Seq(Document) /\ Len(front \o back) = n - 1
    <3>1. /\ front \o back \in Seq(Document)
          /\ Len(front \o back) = Len(front) + Len(back)
      BY <1>1, <1>2, ConcatProperties, Zenon
    <3>2. (i - 1) + (n - i) = n - 1
      BY <1>0
    <3> QED
      BY <1>1, <1>2, <3>1, <3>2, Zenon
  <2>2. ASSUME NEW k \in 1..(n - 1)
        PROVE  (front \o back)[k] = s[place(k)]
    <3>1. CASE k < i
      <4>1. k \in 1..(i - 1) /\ (front \o back)[k] = front[k] /\ place(k) = k
        BY <1>0, <1>1, <1>2, <3>1
      <4> QED
        BY <1>1, <4>1
    <3>2. CASE ~(k < i)
      <4>1. k - (i - 1) \in 1..(n - i) /\ place(k) = k + 1 /\ i + (k - (i - 1)) = k + 1
        BY <1>0, <3>2
      <4>2. (front \o back)[k] = back[k - (i - 1)]
        BY <1>0, <1>1, <1>2, <3>2
      <4> QED
        BY <1>2, <4>1, <4>2
    <3> QED
      BY <3>1, <3>2
  <2> QED
    BY <2>1, <2>2
<1>5. m \in Seq(Document) /\ Len(m) = n /\ \A k \in 1..n : m[k] = s[place(k)]
  <2> DEFINE w == front \o back
  <2>1. w \in Seq(Document) /\ Len(w) = n - 1 /\ m = Append(w, s[i])
    BY <1>3, <1>4
  <2>2. \A k \in 1..(n - 1) : w[k] = s[place(k)]
    BY <1>4
  <2> HIDE DEF w, place
  <2>3. /\ m \in Seq(Document) /\ Len(m) = n /\ m[n] = s[i]
        /\ \A k \in 1..(n - 1) : m[k] = w[k]
    BY <1>0, <2>1
  <2>4. \A k \in 1..n : k \in 1..(n - 1) \/ (k = n /\ place(k) = i)
    BY <1>0 DEF place
  <2> QED
    BY <2>2, <2>3, <2>4, Zenon
<1>6. /\ \A k \in 1..n : place(k) \in 1..n
      /\ \A k, l \in 1..n : k # l => place(k) # place(l)
      /\ \A l \in 1..n : \E k \in 1..n : place(k) = l
  <2>1. \A k \in 1..n : place(k) \in 1..n
    BY <1>0
  <2>2. \A k, l \in 1..n : k # l => place(k) # place(l)
    BY <1>0
  <2>3. ASSUME NEW l \in 1..n
        PROVE  \E k \in 1..n : place(k) = l
    <3>1. CASE l < i
      BY <1>0, <3>1
    <3>2. CASE l = i
      <4>1. n \in 1..n /\ place(n) = l
        BY <1>0, <3>2
      <4> QED
        BY <4>1
    <3>3. CASE l > i
      <4>1. l - 1 \in 1..n /\ place(l - 1) = l
        BY <1>0, <3>3
      <4> QED
        BY <4>1
    <3> QED
      BY <1>0, <3>1, <3>2, <3>3
  <2> QED
    BY <2>1, <2>2, <2>3
<1> HIDE DEF place, n
<1>7. Codes(m) = Codes(s) /\ ClassesOf(m) = ClassesOf(s)
  <2>0. Len(s) = n /\ Len(m) = n
    BY <1>5 DEF n
  <2>1. \A k \in 1..n : m[k] = s[place(k)] /\ place(k) \in 1..n
    BY <1>5, <1>6
  <2>2. \A l \in 1..n : \E k \in 1..n : m[k] = s[l]
    BY <1>6, <2>1
  <2>3. \A k \in 1..n : \E l \in 1..n : m[k] = s[l]
    BY <2>1
  <2>4. Codes(m) = Codes(s)
    <3>1. Codes(s) = {s[k].code : k \in 1..n} /\ Codes(m) = {m[k].code : k \in 1..n}
      BY <2>0, Zenon DEF Codes
    <3>2. \A k \in 1..n : m[k].code \in {s[l].code : l \in 1..n}
      BY <2>3
    <3>3. \A k \in 1..n : s[k].code \in {m[l].code : l \in 1..n}
      BY <2>2
    <3>4. {m[k].code : k \in 1..n} = {s[k].code : k \in 1..n}
      BY <3>2, <3>3, Zenon
    <3> QED
      BY <3>1, <3>4, Zenon
  <2>5. ClassesOf(m) = ClassesOf(s)
    <3>1. ClassesOf(s) = {s[k].class : k \in 1..n} /\ ClassesOf(m) = {m[k].class : k \in 1..n}
      BY <2>0, Zenon DEF ClassesOf
    <3>2. \A k \in 1..n : m[k].class \in {s[l].class : l \in 1..n}
      BY <2>3
    <3>3. \A k \in 1..n : s[k].class \in {m[l].class : l \in 1..n}
      BY <2>2
    <3>4. {m[k].class : k \in 1..n} = {s[k].class : k \in 1..n}
      BY <3>2, <3>3, Zenon
    <3> QED
      BY <3>1, <3>4, Zenon
  <2> QED
    BY <2>4, <2>5
<1>8. Distinct(s) => Distinct(m)
  <2>0. Len(s) = n /\ Len(m) = n
    BY <1>5 DEF n
  <2> SUFFICES ASSUME Distinct(s), NEW k \in 1..n, NEW l \in 1..n, k # l
               PROVE  m[k].code # m[l].code /\ m[k].class # m[l].class
    BY <2>0 DEF Distinct
  <2>1. place(k) \in 1..n /\ place(l) \in 1..n /\ place(k) # place(l)
    BY <1>6
  <2>2. s[place(k)].code # s[place(l)].code /\ s[place(k)].class # s[place(l)].class
    BY <2>0, <2>1 DEF Distinct
  <2> QED
    BY <1>5, <2>2
<1> QED
  BY <1>5, <1>7, <1>8 DEF n

\* The least recently used document goes.
LEMMA TailLess ==
  ASSUME NEW s \in Seq(Document), s # <<>>, Distinct(s)
  PROVE  /\ Tail(s) \in Seq(Document) /\ Len(Tail(s)) = Len(s) - 1 /\ Len(s) \in Nat
         /\ Head(s).code \in Codes(s) /\ Head(s).code \in Reservations
         /\ Codes(Tail(s)) = Codes(s) \ {Head(s).code}
         /\ ClassesOf(Tail(s)) \subseteq ClassesOf(s) /\ Distinct(Tail(s))
<1> DEFINE w == Tail(s)
<1>1. Len(s) \in Nat /\ 1 \in 1..Len(s) /\ Head(s) = s[1] /\ s[1] \in Document
  OBVIOUS
<1>2. w \in Seq(Document) /\ Len(w) = Len(s) - 1 /\ \A k \in 1..Len(w) : w[k] = s[k + 1]
  OBVIOUS
<1>3. \A k \in 2..Len(s) : k - 1 \in 1..Len(w) /\ w[k - 1] = s[k]
  BY <1>1, <1>2
<1>4. \A k \in 1..Len(w) : k + 1 \in 1..Len(s) /\ k + 1 # 1
  BY <1>1, <1>2
<1> HIDE DEF w
<1>5. Codes(w) = Codes(s) \ {s[1].code}
  <2>1. ASSUME NEW k \in 1..Len(w)
        PROVE  w[k].code \in Codes(s) \ {s[1].code}
    BY <1>1, <1>2, <1>4 DEF Codes, Distinct
  <2>2. ASSUME NEW k \in 1..Len(s), s[k].code # s[1].code
        PROVE  s[k].code \in Codes(w)
    <3>1. k \in 2..Len(s)
      BY <1>1, <2>2
    <3> QED
      BY <1>3, <3>1 DEF Codes
  <2> QED
    BY <2>1, <2>2 DEF Codes
<1>6. ClassesOf(w) \subseteq ClassesOf(s)
  BY <1>2, <1>4 DEF ClassesOf
<1>7. Distinct(w)
  <2> SUFFICES ASSUME NEW k \in 1..Len(w), NEW l \in 1..Len(w), k # l
               PROVE  w[k].code # w[l].code /\ w[k].class # w[l].class
    BY DEF Distinct
  <2>1. k + 1 # l + 1
    OBVIOUS
  <2> QED
    BY <1>2, <1>4, <2>1 DEF Distinct
<1>8. s[1].code \in Codes(s) /\ s[1].code \in Reservations
  BY <1>1, DocumentCode DEF Codes
<1> QED
  BY <1>1, <1>2, <1>5, <1>6, <1>7, <1>8 DEF w

\* A document comes.
LEMMA AppendMore ==
  ASSUME NEW s \in Seq(Document), NEW d \in Document, Distinct(s),
         d.code \notin Codes(s), d.class \notin ClassesOf(s)
  PROVE  /\ Append(s, d) \in Seq(Document) /\ Len(Append(s, d)) = Len(s) + 1 /\ Len(s) \in Nat
         /\ Codes(Append(s, d)) = Codes(s) \cup {d.code}
         /\ Distinct(Append(s, d))
<1> DEFINE m == Append(s, d)
           n == Len(s)
<1>1. /\ m \in Seq(Document) /\ Len(m) = n + 1 /\ n \in Nat /\ m[n + 1] = d
      /\ \A k \in 1..n : m[k] = s[k] /\ k \in 1..(n + 1) /\ k # n + 1
      /\ \A k \in 1..(n + 1) : k \in 1..n \/ k = n + 1
      /\ n + 1 \in 1..(n + 1)
  OBVIOUS
<1> HIDE DEF m
<1>2. Codes(m) = Codes(s) \cup {d.code}
  BY <1>1 DEF Codes
<1>3. \A k \in 1..n : m[k].code # d.code /\ m[k].class # d.class
  BY <1>1 DEF Codes, ClassesOf
<1>4. Distinct(m)
  BY <1>1, <1>3 DEF Distinct
<1> QED
  BY <1>1, <1>2, <1>4 DEF m

\* How often q is owned by a source cache, a job and the index.
Share(s, j, x, q) == Bit(q \in Codes(s)) + Bit(j.code = q) + Bit(x = q)

\* What has an owner is held.
LEMMA OwnedHeld ==
  ASSUME IInv, CInv, OInv, NEW r \in Reservations,
         (\E u \in Threads : r \in Codes(cache[u]) \/ job[u].code = r) \/ index = r
  PROVE  state[r] = "held"
<1>1. /\ CountedAt(r) /\ IsFiniteSet(CacheOwners(r)) /\ IsFiniteSet(JobOwners(r))
      /\ Cardinality(CacheOwners(r)) \in Nat /\ Cardinality(JobOwners(r)) \in Nat
  BY FS_CardinalityType DEF OInv, CountedAt
<1>2. CacheOwners(r) # {} \/ JobOwners(r) # {} \/ index = r
  BY DEF CacheOwners, JobOwners
<1>3. owners[r] > 0
  <2>1. CacheOwners(r) # {} => Cardinality(CacheOwners(r)) # 0
    BY <1>1, FS_EmptySet
  <2>2. JobOwners(r) # {} => Cardinality(JobOwners(r)) # 0
    BY <1>1, FS_EmptySet
  <2> QED
    BY <1>1, <1>2, <2>1, <2>2 DEF CountedAt, Bit
<1> QED
  BY <1>3 DEF IInv, OwnersMatch

\* An engine that is cloned by another thread rests.
LEMMA LentRests ==
  ASSUME CInv, OInv, NEW t \in Threads, Lent(t)
  PROVE  At(t, "idle")
<1>1. PICK u \in Threads : job[u].from = t
  BY DEF Lent
<1>2. job[u].at = "copying"
  BY <1>1, CachesAssumption DEF OInv, JobFits
<1> QED
  BY <1>1, <1>2 DEF OInv, Copies

\* The owners after a step of t that changes no more than its own cache and job, and the index.
LEMMA CacheOwnersMove ==
  ASSUME CInv, NEW t \in Threads, NEW s, cache' = [cache EXCEPT ![t] = s],
         NEW r \in Reservations
  PROVE  /\ r \in Codes(s) => CacheOwners(r)' = CacheOwners(r) \cup {t}
         /\ r \notin Codes(s) => CacheOwners(r)' = CacheOwners(r) \ {t}
<1>1. (\A u \in Threads \ {t} : cache'[u] = cache[u]) /\ cache'[t] = s
  BY DEF CInv, CachesTypeOK
<1> QED
  BY <1>1 DEF CacheOwners

LEMMA JobOwnersMove ==
  ASSUME CInv, NEW t \in Threads, NEW j, Become(t, j), NEW r \in Reservations
  PROVE  /\ j.code = r => JobOwners(r)' = JobOwners(r) \cup {t}
         /\ j.code # r => JobOwners(r)' = JobOwners(r) \ {t}
<1>1. (\A u \in Threads \ {t} : job'[u] = job[u]) /\ job'[t] = j
  BY DEF CInv, CachesTypeOK, Become
<1> QED
  BY <1>1 DEF JobOwners

\* What is left to show of such a step.
LEMMA StepKeeps ==
  ASSUME IInv, CInv, OInv, NEW t \in Threads, NEW j \in Job, NEW s \in Seq(Document),
         Become(t, j), cache' = [cache EXCEPT ![t] = s], ~Lent(t),
         \A u \in Threads \ {t} : call'[u] = call[u],
         \A q \in Reservations : state[q] = "held" => charge'[q] = charge[q],
         \A q \in Reservations : owners'[q] =
           owners[q] - Share(cache[t], job[t], index, q) + Share(s, j, index', q),
         \A q \in Reservations : q \in Codes(s) \/ j.code = q \/ index' = q =>
           \/ \E u \in Threads : q \in Codes(cache[u])
           \/ job[t].code = q \/ index = q \/ state[q] # "held",
         CacheFits(charge', s), JobFits(j, s, call'[t].bytes), Sole(t)', Copies(t)'
  PROVE  OInv'
<1>0. /\ \A u \in Threads \ {t} : cache'[u] = cache[u] /\ job'[u] = job[u]
      /\ cache'[t] = s /\ job'[t] = j
  BY DEF CInv, CachesTypeOK, Become
<1>1. ASSUME NEW q \in Reservations
      PROVE  CountedAt(q)'
  <2>1. /\ q \in Codes(s) => CacheOwners(q)' = CacheOwners(q) \cup {t}
        /\ q \notin Codes(s) => CacheOwners(q)' = CacheOwners(q) \ {t}
        /\ j.code = q => JobOwners(q)' = JobOwners(q) \cup {t}
        /\ j.code # q => JobOwners(q)' = JobOwners(q) \ {t}
    <3>1. /\ q \in Codes(s) => CacheOwners(q)' = CacheOwners(q) \cup {t}
          /\ q \notin Codes(s) => CacheOwners(q)' = CacheOwners(q) \ {t}
      BY CacheOwnersMove, Zenon
    <3>2. /\ j.code = q => JobOwners(q)' = JobOwners(q) \cup {t}
          /\ j.code # q => JobOwners(q)' = JobOwners(q) \ {t}
      BY JobOwnersMove, ZenonT(60)
    <3> QED
      BY <3>1, <3>2, Zenon
  <2>2. /\ t \in CacheOwners(q) <=> q \in Codes(cache[t])
        /\ t \in JobOwners(q) <=> job[t].code = q
    BY DEF CacheOwners, JobOwners
  <2>3. /\ IsFiniteSet(CacheOwners(q)) /\ IsFiniteSet(JobOwners(q))
        /\ owners[q] = Cardinality(CacheOwners(q)) + Cardinality(JobOwners(q)) + Bit(index = q)
    BY DEF OInv, CountedAt
  <2>4. /\ IsFiniteSet(CacheOwners(q)') /\ Cardinality(CacheOwners(q)) \in Nat
        /\ Cardinality(CacheOwners(q)')
             = Cardinality(CacheOwners(q)) - Bit(t \in CacheOwners(q)) + Bit(q \in Codes(s))
    <3>0. /\ Cardinality(CacheOwners(q)) \in Nat
          /\ Cardinality(CacheOwners(q)) - Bit(t \in CacheOwners(q)) \in Int
      BY <2>3, FS_CardinalityType DEF Bit
    <3>1. CASE q \in Codes(s)
      <4>1. CacheOwners(q)' = CacheOwners(q) \cup {t} /\ Bit(q \in Codes(s)) = 1
        BY <2>1, <3>1 DEF Bit
      <4>2. /\ IsFiniteSet(CacheOwners(q) \cup {t})
            /\ Cardinality(CacheOwners(q) \cup {t})
                 = Cardinality(CacheOwners(q)) - Bit(t \in CacheOwners(q)) + 1
        BY <2>3, WithElement, Zenon
      <4> QED
        BY <3>0, <4>1, <4>2
    <3>2. CASE q \notin Codes(s)
      <4>1. CacheOwners(q)' = CacheOwners(q) \ {t} /\ Bit(q \in Codes(s)) = 0
        BY <2>1, <3>2 DEF Bit
      <4>2. /\ IsFiniteSet(CacheOwners(q) \ {t})
            /\ Cardinality(CacheOwners(q) \ {t})
                 = Cardinality(CacheOwners(q)) - Bit(t \in CacheOwners(q))
        BY <2>3, WithoutElement, Zenon
      <4> QED
        BY <3>0, <4>1, <4>2
    <3> QED
      BY <3>1, <3>2, Zenon
  <2>5. /\ IsFiniteSet(JobOwners(q)') /\ Cardinality(JobOwners(q)) \in Nat
        /\ Cardinality(JobOwners(q)')
             = Cardinality(JobOwners(q)) - Bit(t \in JobOwners(q)) + Bit(j.code = q)
    <3>0. /\ Cardinality(JobOwners(q)) \in Nat
          /\ Cardinality(JobOwners(q)) - Bit(t \in JobOwners(q)) \in Int
      BY <2>3, FS_CardinalityType DEF Bit
    <3>1. CASE j.code = q
      <4>1. JobOwners(q)' = JobOwners(q) \cup {t} /\ Bit(j.code = q) = 1
        BY <2>1, <3>1 DEF Bit
      <4>2. /\ IsFiniteSet(JobOwners(q) \cup {t})
            /\ Cardinality(JobOwners(q) \cup {t})
                 = Cardinality(JobOwners(q)) - Bit(t \in JobOwners(q)) + 1
        BY <2>3, WithElement, Zenon
      <4> QED
        BY <3>0, <4>1, <4>2
    <3>2. CASE j.code # q
      <4>1. JobOwners(q)' = JobOwners(q) \ {t} /\ Bit(j.code = q) = 0
        BY <2>1, <3>2 DEF Bit
      <4>2. /\ IsFiniteSet(JobOwners(q) \ {t})
            /\ Cardinality(JobOwners(q) \ {t})
                 = Cardinality(JobOwners(q)) - Bit(t \in JobOwners(q))
        BY <2>3, WithoutElement, Zenon
      <4> QED
        BY <3>0, <4>1, <4>2
    <3> QED
      BY <3>1, <3>2, Zenon
  <2>6. /\ Bit(t \in CacheOwners(q)) = Bit(q \in Codes(cache[t]))
        /\ Bit(t \in JobOwners(q)) = Bit(job[t].code = q)
    BY <2>2 DEF Bit
  <2>7. owners'[q] = owners[q] - Share(cache[t], job[t], index, q) + Share(s, j, index', q)
    OBVIOUS
  <2>8. owners'[q]
          = Cardinality(CacheOwners(q)') + Cardinality(JobOwners(q)') + Bit(index' = q)
    <3>1. /\ Bit(q \in Codes(cache[t])) \in Nat /\ Bit(job[t].code = q) \in Nat
          /\ Bit(index = q) \in Nat /\ Bit(q \in Codes(s)) \in Nat
          /\ Bit(j.code = q) \in Nat /\ Bit(index' = q) \in Nat
      BY DEF Bit
    <3> DEFINE c == Cardinality(CacheOwners(q))
               d == Cardinality(JobOwners(q))
               b1 == Bit(q \in Codes(cache[t]))
               b2 == Bit(job[t].code = q)
               b3 == Bit(index = q)
               n1 == Bit(q \in Codes(s))
               n2 == Bit(j.code = q)
               n3 == Bit(index' = q)
    <3>2. owners'[q] = (c + d + b3) - (b1 + b2 + b3) + (n1 + n2 + n3)
      BY <2>3, <2>7, Zenon DEF Share
    <3>3. /\ Cardinality(CacheOwners(q)') = c - b1 + n1
          /\ Cardinality(JobOwners(q)') = d - b2 + n2
      BY <2>4, <2>5, <2>6, Zenon
    <3>4. /\ c \in Nat /\ d \in Nat /\ b1 \in Nat /\ b2 \in Nat /\ b3 \in Nat
          /\ n1 \in Nat /\ n2 \in Nat /\ n3 \in Nat
      BY <2>4, <2>5, <3>1, Zenon
    <3> HIDE DEF c, d, b1, b2, b3, n1, n2, n3
    <3>5. (c + d + b3) - (b1 + b2 + b3) + (n1 + n2 + n3) = (c - b1 + n1) + (d - b2 + n2) + n3
      BY <3>4
    <3> QED
      BY <3>2, <3>3, <3>5, Zenon DEF n3
  <2> QED
    BY <2>4, <2>5, <2>8, Zenon DEF CountedAt
<1>2. ASSUME NEW u \in Threads \ {t}
      PROVE  /\ CacheFits(charge, cache[u])' /\ JobFits(job[u], cache[u], call[u].bytes)'
             /\ Sole(u)' /\ Copies(u)'
  <2>1. charge \in [Reservations -> Nat]
    BY RetainedAssumption DEF IInv, TypeOK
  <2>2. \A q \in Codes(cache[u]) \cap Reservations : charge'[q] = charge[q]
    BY OwnedHeld
  <2>3. Weight(charge', Codes(cache[u])) = Weight(charge, Codes(cache[u]))
    BY <2>2, WeightSame, Zenon
  <2>4. CacheFits(charge', cache'[u])
    BY <1>0, <2>3 DEF CacheFits, OInv
  <2>5. JobFits(job'[u], cache'[u], call'[u].bytes)
    BY <1>0 DEF OInv
  <2>6. Sole(u)'
    <3>0. /\ \A r \in Reservations : r \notin Codes(s) =>
                CacheOwners(r)' = CacheOwners(r) \ {t}
          /\ \A r \in Reservations : j.code # r => JobOwners(r)' = JobOwners(r) \ {t}
      <4>1. \A r \in Reservations : r \notin Codes(s) => CacheOwners(r)' = CacheOwners(r) \ {t}
        BY CacheOwnersMove, Zenon
      <4>2. \A r \in Reservations : j.code # r => JobOwners(r)' = JobOwners(r) \ {t}
        BY JobOwnersMove, ZenonT(60)
      <4> QED
        BY <4>1, <4>2, Zenon
    <3> SUFFICES ASSUME NEW r \in Reservations, job[u].at = "storing", job[u].code = r
                 PROVE  /\ charge'[r] = job[u].bytes /\ CacheOwners(r)' = {}
                        /\ JobOwners(r)' = {u} /\ index' # r
      BY <1>0 DEF Sole
    <3>1. /\ charge[r] = job[u].bytes /\ CacheOwners(r) = {} /\ JobOwners(r) = {u}
          /\ index # r /\ state[r] = "held"
      BY OwnedHeld DEF OInv, Sole
    <3>2. job[t].code # r /\ \A v \in Threads : r \notin Codes(cache[v])
      BY <3>1 DEF CacheOwners, JobOwners
    <3>3. r \notin Codes(s) /\ j.code # r /\ index' # r
      BY <3>1, <3>2
    <3>4. /\ CacheOwners(r)' = CacheOwners(r) \ {t}
          /\ JobOwners(r)' = JobOwners(r) \ {t}
      BY <3>0, <3>3, Zenon
    <3> QED
      BY <3>1, <3>3, <3>4
  <2>7. Copies(u)'
    <3>1. job[u].from # t /\ (job[u].at = "copying" => job[u].from \in Threads)
      BY DEF Lent, CInv, InHand
    <3> QED
      BY <1>0, <3>1 DEF Copies, At, OInv
  <2> QED
    BY <2>4, <2>5, <2>6, <2>7
<1>3. CacheFits(charge, cache[t])' /\ JobFits(job[t], cache[t], call[t].bytes)'
  BY <1>0
<1> QED
  BY <1>1, <1>2, <1>3 DEF OInv
\* What is left to show of a step that changes no owner.
LEMMA QuietKeeps ==
  ASSUME IInv, CInv, OInv, NEW t \in Threads, NEW j \in Job,
         Become(t, j), UNCHANGED <<cache, index, owners>>, ~Lent(t), j.code = job[t].code,
         \A u \in Threads \ {t} : call'[u] = call[u],
         \A q \in Reservations : state[q] = "held" => charge'[q] = charge[q],
         j.at = "storing" => job[t].at = "storing" /\ j.bytes = job[t].bytes,
         JobFits(j, cache[t], call'[t].bytes), Copies(t)'
  PROVE  OInv'
<1> DEFINE s == cache[t]
<1>1. s \in Seq(Document) /\ cache' = [cache EXCEPT ![t] = s]
  BY DEF CInv, CachesTypeOK
<1>2. ASSUME NEW q \in Reservations
      PROVE  /\ owners'[q] = owners[q] - Share(cache[t], job[t], index, q) + Share(s, j, index', q)
             /\ q \in Codes(s) \/ j.code = q \/ index' = q =>
                  \/ \E u \in Threads : q \in Codes(cache[u])
                  \/ job[t].code = q \/ index = q \/ state[q] # "held"
  <2>1. owners[q] \in Nat
    BY DEF IInv, TypeOK
  <2> QED
    BY <2>1 DEF Share, Bit
<1>3. CacheFits(charge', s)
  <2>1. charge \in [Reservations -> Nat]
    BY RetainedAssumption DEF IInv, TypeOK
  <2>2. \A q \in Codes(s) \cap Reservations : charge'[q] = charge[q]
    BY OwnedHeld
  <2>3. Weight(charge', Codes(s)) = Weight(charge, Codes(s))
    BY <2>2, WeightSame, Zenon
  <2> QED
    BY <2>3 DEF CacheFits, OInv
<1>4. Sole(t)'
  <2>1. job'[t] = j
    BY DEF CInv, CachesTypeOK, Become
  <2> SUFFICES ASSUME NEW r \in Reservations, j.at = "storing", j.code = r
               PROVE  /\ charge'[r] = j.bytes /\ CacheOwners(r)' = {}
                      /\ JobOwners(r)' = {t} /\ index' # r
    BY <2>1 DEF Sole
  <2>2. /\ charge[r] = job[t].bytes /\ CacheOwners(r) = {} /\ JobOwners(r) = {t}
        /\ index # r /\ state[r] = "held"
    BY OwnedHeld DEF OInv, Sole
  <2>3. CacheOwners(r)' = {} /\ JobOwners(r)' = {t}
    <3>1. CacheOwners(r)' = CacheOwners(r)
      BY DEF CacheOwners
    <3>2. JobOwners(r)' = JobOwners(r) \cup {t}
      BY <1>1, JobOwnersMove, ZenonT(60)
    <3> QED
      BY <2>2, <3>1, <3>2
  <2> QED
    BY <2>2, <2>3
<1>5. JobFits(j, s, call'[t].bytes)
  OBVIOUS
<1> HIDE DEF s
<1> QED
  BY <1>1, <1>2, <1>3, <1>4, <1>5, StepKeeps, ZenonT(60)

\* What the steps of a thread have in common.
LEMMA StepFields ==
  ASSUME IInv, CInv, OInv, NEW t \in Threads
  PROVE  /\ job[t] \in Job /\ InHand(job[t]) /\ cache[t] \in Seq(Document)
         /\ CacheFits(charge, cache[t]) /\ JobFits(job[t], cache[t], call[t].bytes)
         /\ Sole(t) /\ Copies(t) /\ Cached(t) = ClassesOf(cache[t])
         /\ index \in Reservations \cup {None}
         /\ charge \in [Reservations -> Nat] /\ owners \in [Reservations -> Nat]
         /\ \A q \in Reservations : owners[q] \in Nat
         /\ ~At(t, "idle") => ~Lent(t)
         /\ \A j \in Job : Become(t, j) => job'[t] = j
BY JobFields, LentRests, RetainedAssumption
   DEF IInv, TypeOK, CInv, CachesTypeOK, OInv, Cached, ClassesOf, Become

\* The calls of reserve are those of their threads.
LEMMA CallsApart ==
  ASSUME IInv, NEW t \in Threads
  PROVE  /\ Refuse(t) \/ Retry(t) \/ (\E n \in Sizes : Load(t, n))
              => /\ \A u \in Threads \ {t} : call'[u] = call[u]
                 /\ UNCHANGED <<state, owners, charge>>
         /\ \A n : Load(t, n) => call'[t].bytes = n
         /\ Retry(t) => call'[t].bytes = call[t].bytes
         /\ \A r : Exchange(t, r) => \A u \in Threads \ {t} : call'[u] = call[u]
BY DEF IInv, TypeOK, Refuse, Retry, Load, Exchange

\* A step of an engine with its source cache that changes no owner.
LEMMA QuietSource ==
  ASSUME IInv, CInv, OInv, NEW t \in Threads,
         \/ \E class \in Classes, bytes \in Sizes : Render(t, class, bytes)
         \/ NoRoom(t) \/ ChargeAgain(t) \/ ServeUncharged(t) \/ TooLarge(t) \/ Trim(t)
         \/ EndTrim(t) \/ \E u \in Threads : BeginCopy(t, u)
  PROVE  OInv'
<1>0. /\ job[t] \in Job /\ InHand(job[t]) /\ JobFits(job[t], cache[t], call[t].bytes)
      /\ Cached(t) = ClassesOf(cache[t]) /\ (~At(t, "idle") => ~Lent(t))
      /\ \A j \in Job : Become(t, j) => job'[t] = j
  BY StepFields
<1>1. ASSUME NEW class \in Classes, NEW bytes \in Sizes, Render(t, class, bytes)
      PROVE  OInv'
  <2> DEFINE j == [job[t] EXCEPT !.at = "charging", !.class = class, !.bytes = bytes]
  <2>1. /\ j \in Job /\ j.code = job[t].code /\ j.at = "charging" /\ j.class = class
        /\ j.bytes = bytes /\ j.from = job[t].from
    BY <1>0 DEF Job, Steps
  <2>2. Become(t, j) /\ UNCHANGED <<cache, index>> /\ ~Lent(t) /\ Load(t, bytes)
        /\ job[t].at = "idle" /\ class \notin Cached(t)
    BY <1>1 DEF Render, At
  <2> HIDE DEF j
  <2>3. JobFits(j, cache[t], call'[t].bytes)
    BY <1>0, <2>1, <2>2, CallsApart DEF JobFits
  <2>4. Copies(t)'
    BY <1>0, <2>1, <2>2 DEF Copies
  <2> QED
    BY <2>1, <2>2, <2>3, <2>4, CallsApart, QuietKeeps
<1>2. ASSUME NEW step \in {"emptying", "recharging", "reading", "trimming", "idle"},
             GoTo(t, step), UNCHANGED <<cache, index>>, ~Lent(t),
             \/ step # "recharging" /\ UNCHANGED vars
             \/ step # "recharging" /\ Refuse(t)
             \/ step = "recharging" /\ job[t].bytes \in Sizes /\ Load(t, job[t].bytes),
             step = "recharging" => job[t].at = "emptying",
             step = "emptying" => job[t].at = "charging" /\ job[t].class # None,
             step \in {"idle", "trimming"} => job[t].code = None,
             job[t].at # "copying"
      PROVE  OInv'
  <2> DEFINE j == [job[t] EXCEPT !.at = step]
  <2>1. /\ j \in Job /\ j.code = job[t].code /\ j.at = step /\ j.class = job[t].class
        /\ j.bytes = job[t].bytes /\ j.from = job[t].from /\ Become(t, j)
    BY <1>0, <1>2 DEF Job, Steps, GoTo
  <2> HIDE DEF j
  <2>2. JobFits(j, cache[t], call'[t].bytes)
    <3>1. step = "recharging" => job[t].at = "emptying"
      BY <1>2
    <3>2. step = "recharging" => call'[t].bytes = job[t].bytes
      BY <1>2, <3>1, CallsApart
    <3>3. step \in {"emptying", "recharging"} => job[t].class \notin ClassesOf(cache[t])
      BY <1>0, <1>2 DEF JobFits
    <3>4. job[t].from = None /\ (step # "reading" => job[t].code = None)
      BY <1>0, <1>2 DEF JobFits
    <3> QED
      BY <1>2, <2>1, <3>2, <3>3, <3>4 DEF JobFits
  <2>3. Copies(t)'
    BY <1>0, <1>2, <2>1 DEF Copies
  <2>4. /\ UNCHANGED <<owners, charge>> /\ \A u \in Threads \ {t} : call'[u] = call[u]
    BY <1>2, CallsApart DEF vars
  <2> QED
    BY <1>2, <2>1, <2>2, <2>3, <2>4, QuietKeeps
<1>3. CASE NoRoom(t)
  BY <1>0, <1>2, <1>3 DEF NoRoom, At
<1>4. CASE ChargeAgain(t)
  <2>1. job[t].bytes \in Sizes /\ job[t].at = "emptying"
    BY <1>0, <1>4 DEF ChargeAgain, At, InHand
  <2> QED
    BY <1>0, <1>2, <1>4, <2>1 DEF ChargeAgain, At
<1>5. CASE ServeUncharged(t)
  BY <1>0, <1>2, <1>5 DEF ServeUncharged, At
<1>6. CASE TooLarge(t)
  BY <1>0, <1>2, <1>6 DEF TooLarge, At
<1>7. CASE Trim(t)
  BY <1>0, <1>2, <1>7 DEF Trim, At, JobFits
<1>8. CASE EndTrim(t)
  BY <1>0, <1>2, <1>8 DEF EndTrim, At, JobFits
<1>9. ASSUME NEW u \in Threads, BeginCopy(t, u)
      PROVE  OInv'
  <2> DEFINE j == [job[t] EXCEPT !.at = "copying", !.from = u]
  <2>1. j \in Job /\ j.code = job[t].code /\ j.at = "copying" /\ j.from = u
    BY <1>0 DEF Job, Steps
  <2>2. /\ Become(t, j) /\ UNCHANGED <<cache, index>> /\ ~Lent(t) /\ UNCHANGED vars
        /\ job[t].at = "idle" /\ t # u /\ At(u, "idle") /\ cache[t] = <<>> /\ cache[u] # <<>>
    BY <1>9 DEF BeginCopy, At
  <2> HIDE DEF j
  <2>3. JobFits(j, cache[t], call'[t].bytes)
    BY <1>0, <2>1, <2>2 DEF JobFits
  <2>4. Copies(t)'
    <3>1. job'[t] = j /\ job'[u] = job[u]
      BY <1>0, <2>1, <2>2 DEF Become, CInv, CachesTypeOK
    <3>2. Len(cache[t]) = 0 /\ Len(cache[u]) > 0
      BY <2>2 DEF CInv, CachesTypeOK
    <3> QED
      BY <2>1, <2>2, <3>1, <3>2 DEF Copies, At
  <2>5. /\ UNCHANGED <<owners, charge>> /\ \A v \in Threads \ {t} : call'[v] = call[v]
    BY <2>2 DEF vars
  <2> QED
    BY <2>1, <2>2, <2>3, <2>4, <2>5, QuietKeeps
<1> QED
  BY <1>1, <1>3, <1>4, <1>5, <1>6, <1>7, <1>8, <1>9
\* A step on the index of identifiers that changes no owner.
LEMMA QuietIndex ==
  ASSUME IInv, CInv, OInv, NEW t \in Threads,
         \/ Query(t) \/ Cancel(t) \/ StopPolling(t) \/ BeginBuild(t)
         \/ (\E bytes \in Sizes : Built(t, bytes)) \/ NotBuilt(t) \/ Overflow(t)
  PROVE  OInv'
<1>0. /\ job[t] \in Job /\ InHand(job[t]) /\ JobFits(job[t], cache[t], call[t].bytes)
      /\ None \notin ClassesOf(cache[t])
      /\ (~At(t, "idle") => ~Lent(t)) /\ \A j \in Job : Become(t, j) => job'[t] = j
  <2>0. cache[t] \in Seq(Document)
    BY StepFields
  <2>1. None \notin ClassesOf(cache[t])
    <3>1. \A i \in 1..Len(cache[t]) : cache[t][i] \in Document
      BY <2>0
    <3> QED
      BY <3>1, CachesAssumption DEF ClassesOf, Document
  <2> QED
    BY <2>1, StepFields
<1>1. ASSUME NEW j \in Job, Become(t, j), UNCHANGED <<cache, index>>, ~Lent(t),
             UNCHANGED vars \/ Refuse(t) \/ \E n \in Sizes : Load(t, n),
             j.code = None, job[t].code = None, j.class = None, j.from = None,
             j.at \in {"idle", "polling", "building", "charging"}
      PROVE  OInv'
  <2>1. JobFits(j, cache[t], call'[t].bytes)
    BY <1>0, <1>1 DEF JobFits
  <2>2. Copies(t)'
    BY <1>0, <1>1 DEF Copies
  <2>3. /\ UNCHANGED <<owners, charge>> /\ \A u \in Threads \ {t} : call'[u] = call[u]
    BY <1>1, CallsApart DEF vars
  <2> QED
    BY <1>1, <2>1, <2>2, <2>3, QuietKeeps
<1>2. /\ Resting \in Job /\ Resting.code = None /\ Resting.class = None
      /\ Resting.from = None /\ Resting.at = "idle"
  BY RestingJob DEF Resting
<1>3. ASSUME NEW step \in {"polling", "building", "charging"}
      PROVE  LET j == [job[t] EXCEPT !.at = step]
             IN  /\ j \in Job /\ j.code = job[t].code /\ j.class = job[t].class
                 /\ j.from = job[t].from /\ j.at = step
  BY <1>0 DEF Job, Steps
<1>4. ASSUME \/ job[t].at \in {"idle", "polling", "building"}
             \/ job[t].at = "charging" /\ job[t].class = None
      PROVE  job[t].code = None /\ job[t].class = None /\ job[t].from = None
  BY <1>0, <1>4 DEF JobFits, InHand
<1>5. CASE Query(t)
  <2> DEFINE j == [job[t] EXCEPT !.at = "polling"]
  <2>1. /\ Become(t, j) /\ job[t].at = "idle" /\ ~Lent(t)
        /\ UNCHANGED <<cache, index>> /\ UNCHANGED vars
    BY <1>5 DEF Query, At, GoTo
  <2>2. /\ j \in Job /\ j.code = None /\ j.class = None /\ j.from = None /\ j.at = "polling"
        /\ job[t].code = None
    BY <1>3, <1>4, <2>1
  <2> HIDE DEF j
  <2> QED
    BY <1>1, <2>1, <2>2
<1>6. CASE Cancel(t)
  <2> DEFINE j == [job[t] EXCEPT !.cancelled = TRUE]
  <2>1. /\ Become(t, j) /\ job[t].at \in {"polling", "building"}
        /\ UNCHANGED <<cache, index>> /\ UNCHANGED vars
    BY <1>6 DEF Cancel
  <2>2. /\ j \in Job /\ j.code = job[t].code /\ j.class = job[t].class /\ j.from = job[t].from
        /\ j.at = job[t].at
    BY <1>0 DEF Job
  <2> HIDE DEF j
  <2> QED
    BY <1>0, <1>1, <1>4, <2>1, <2>2 DEF At
<1>7. CASE StopPolling(t) \/ NotBuilt(t) \/ Overflow(t)
  <2>1. /\ Become(t, Resting) /\ UNCHANGED <<cache, index>> /\ (UNCHANGED vars \/ Refuse(t))
        /\ job[t].at \in {"polling", "building"} \/ (job[t].at = "charging" /\ job[t].class = None)
    BY <1>7 DEF StopPolling, NotBuilt, Overflow, At
  <2>2. ~Lent(t) /\ job[t].code = None
    BY <1>0, <1>4, <2>1 DEF At
  <2> QED
    BY <1>1, <1>2, <2>1, <2>2
<1>8. CASE BeginBuild(t)
  <2>1. UNCHANGED <<cache, index>> /\ UNCHANGED vars /\ job[t].at = "polling"
    BY <1>8 DEF BeginBuild, At
  <2>2. ~Lent(t) /\ job[t].code = None /\ job[t].class = None /\ job[t].from = None
    BY <1>0, <1>4, <2>1 DEF At
  <2>3. CASE MayBuild
    <3> DEFINE j == [job[t] EXCEPT !.at = "building"]
    <3>1. Become(t, j)
      BY <1>8, <2>3 DEF BeginBuild, GoTo
    <3>2. /\ j \in Job /\ j.code = None /\ j.class = None /\ j.from = None /\ j.at = "building"
      BY <1>3, <2>2
    <3> HIDE DEF j
    <3> QED
      BY <1>1, <2>1, <2>2, <3>1, <3>2
  <2>4. CASE ~MayBuild
    <3>1. Become(t, Resting)
      BY <1>8, <2>4 DEF BeginBuild
    <3> QED
      BY <1>1, <1>2, <2>1, <2>2, <3>1
  <2> QED
    BY <2>3, <2>4
<1>9. ASSUME NEW bytes \in Sizes, Built(t, bytes)
      PROVE  OInv'
  <2> DEFINE j == [job[t] EXCEPT !.at = "charging"]
  <2>1. Become(t, j) /\ job[t].at = "building" /\ UNCHANGED <<cache, index>> /\ Load(t, bytes)
    BY <1>9 DEF Built, At, GoTo
  <2>2. ~Lent(t)
    BY <1>0, <2>1 DEF At
  <2>3. /\ j \in Job /\ j.code = None /\ j.class = None /\ j.from = None /\ j.at = "charging"
        /\ job[t].code = None
    BY <1>3, <1>4, <2>1
  <2> HIDE DEF j
  <2> QED
    BY <1>1, <2>1, <2>2, <2>3
<1> QED
  BY <1>5, <1>6, <1>7, <1>8, <1>9

\* A comparison that is repeated, and bytes that are given back by the last owner.
LEMMA QuietOthers ==
  ASSUME IInv, CInv, OInv, NEW t \in Threads, CompareAgain(t) \/ GiveBack(t)
  PROVE  OInv'
<1>1. CASE CompareAgain(t)
  <2>1. \A u \in Threads : call'[u].bytes = call[u].bytes
    BY <1>1, CallsApart DEF CompareAgain
  <2>2. UNCHANGED <<cache, job, index, state, owners, charge>>
    BY <1>1, CallsApart DEF CompareAgain, local
  <2>3. \A r \in Reservations : CountedAt(r)'
    BY <2>2 DEF OInv, CountedAt, CacheOwners, JobOwners
  <2>4. \A u \in Threads : /\ CacheFits(charge, cache[u])' /\ Sole(u)' /\ Copies(u)'
                           /\ JobFits(job[u], cache[u], call[u].bytes)'
    BY <2>1, <2>2 DEF OInv, Sole, Copies, CacheOwners, JobOwners, At
  <2> QED
    BY <2>3, <2>4 DEF OInv
<1>2. CASE GiveBack(t)
  <2> DEFINE j == [job[t] EXCEPT !.drop = None]
             r == job[t].drop
  <2>0. job[t] \in Job /\ JobFits(job[t], cache[t], call[t].bytes) /\ Copies(t)
    BY StepFields
  <2>1. /\ j \in Job /\ j.code = job[t].code /\ j.at = job[t].at /\ j.class = job[t].class
        /\ j.bytes = job[t].bytes /\ j.from = job[t].from
    BY <2>0 DEF Job
  <2>2. /\ Become(t, j) /\ UNCHANGED <<cache, index, owners, call>> /\ Drop(r) /\ r # None
    BY <1>2 DEF GiveBack, Drop
  <2>3. ~Lent(t)
    BY <2>2, StepFields DEF At
  <2> HIDE DEF j, r
  <2>4. \A q \in Reservations : state[q] = "held" => charge'[q] = charge[q]
    BY <2>2 DEF Drop, IInv, TypeOK
  <2>5. JobFits(j, cache[t], call'[t].bytes)
    BY <2>0, <2>1, <2>2 DEF JobFits
  <2>6. Copies(t)'
    <3>1. job'[t] = j /\ \A u \in Threads \ {t} : job'[u] = job[u]
      BY <2>1, <2>2 DEF Become, CInv, CachesTypeOK
    <3>2. job[t].at = "copying" => job[t].from \in Threads \ {t}
      BY <2>0, StepFields DEF InHand, Copies
    <3> QED
      BY <2>0, <2>1, <2>2, <3>1, <3>2 DEF Copies, At
  <2> QED
    BY <2>1, <2>2, <2>3, <2>4, <2>5, <2>6, QuietKeeps
<1> QED
  BY <1>1, <1>2
\* A hit, and a request that gets the index: the caller owns one more.
LEMMA ShareKeeps ==
  ASSUME IInv, CInv, OInv, NEW t \in Threads,
         (\E i \in 1..Len(cache[t]) : Hit(t, i)) \/ ShareIndex(t)
  PROVE  OInv'
<1>0. /\ job[t] \in Job /\ cache[t] \in Seq(Document) /\ CacheFits(charge, cache[t])
      /\ JobFits(job[t], cache[t], call[t].bytes)
      /\ (~At(t, "idle") => ~Lent(t)) /\ \A j \in Job : Become(t, j) => job'[t] = j
      /\ \A q \in Reservations : owners[q] \in Nat
  BY StepFields
<1>1. ASSUME NEW r \in Reservations, NEW s \in Seq(Document), Clone(r),
             Become(t, [job[t] EXCEPT !.at = "reading", !.code = r]),
             cache' = [cache EXCEPT ![t] = s], UNCHANGED index, ~Lent(t),
             job[t].code = None, job[t].from = None, r \in Codes(cache[t]) \/ r = index,
             Codes(s) = Codes(cache[t]), Distinct(s), Len(s) = Len(cache[t])
      PROVE  OInv'
  <2> DEFINE j == [job[t] EXCEPT !.at = "reading", !.code = r]
  <2>1. j \in Job /\ j.code = r /\ j.at = "reading" /\ j.from = None /\ Become(t, j)
    BY <1>0, <1>1 DEF Job, Steps
  <2> HIDE DEF j
  <2>2. UNCHANGED <<call, charge>>
    BY <1>1 DEF Clone
  <2>3. ASSUME NEW q \in Reservations
        PROVE  owners'[q] = owners[q] - Share(cache[t], job[t], index, q) + Share(s, j, index', q)
    <3>1. owners'[q] = owners[q] + Bit(q = r)
      BY <1>0, <1>1 DEF Clone, Bit, IInv, TypeOK
    <3>2. Bit(q \in Codes(s)) = Bit(q \in Codes(cache[t])) /\ Bit(index' = q) = Bit(index = q)
      BY <1>1
    <3>3. Bit(j.code = q) = Bit(q = r) /\ Bit(job[t].code = q) = 0
      BY <1>1, <2>1, CachesAssumption DEF Bit
    <3> QED
      BY <1>0, <3>1, <3>2, <3>3 DEF Share, Bit
  <2>4. \A q \in Reservations : q \in Codes(s) \/ j.code = q \/ index' = q =>
          \/ \E u \in Threads : q \in Codes(cache[u])
          \/ job[t].code = q \/ index = q \/ state[q] # "held"
    BY <1>1, <2>1
  <2>5. CacheFits(charge', s)
    BY <1>0, <1>1, <2>2 DEF CacheFits
  <2>6. JobFits(j, s, call'[t].bytes) /\ Sole(t)' /\ Copies(t)'
    BY <1>0, <2>1 DEF JobFits, Sole, Copies
  <2> QED
    BY <1>1, <2>1, <2>2, <2>3, <2>4, <2>5, <2>6, StepKeeps
<1>2. ASSUME NEW i \in 1..Len(cache[t]), Hit(t, i)
      PROVE  OInv'
  <2> DEFINE s == Append(RemoveAt(cache[t], i), cache[t][i])
             r == cache[t][i].code
  <2>1. /\ s \in Seq(Document) /\ Len(s) = Len(cache[t]) /\ Codes(s) = Codes(cache[t])
        /\ Distinct(s)
    BY <1>0, MovedSame DEF CacheFits
  <2>2. /\ Clone(r) /\ cache' = [cache EXCEPT ![t] = s] /\ UNCHANGED index /\ ~Lent(t)
        /\ Become(t, [job[t] EXCEPT !.at = "reading", !.code = r]) /\ job[t].at = "idle"
    BY <1>2 DEF Hit, At
  <2>3. r \in Reservations /\ r \in Codes(cache[t])
    BY <1>0, DocumentCode DEF Codes
  <2>4. job[t].code = None /\ job[t].from = None
    BY <1>0, <2>2 DEF JobFits
  <2> HIDE DEF s, r
  <2> QED
    BY <1>1, <2>1, <2>2, <2>3, <2>4
<1>3. CASE ShareIndex(t)
  <2>1. /\ Clone(index) /\ index \in Reservations /\ UNCHANGED <<cache, index>>
        /\ Become(t, [job[t] EXCEPT !.at = "reading", !.code = index]) /\ job[t].at = "polling"
    BY <1>3, StepFields DEF ShareIndex, At
  <2>2. cache' = [cache EXCEPT ![t] = cache[t]]
    BY <2>1 DEF CInv, CachesTypeOK
  <2>3. job[t].code = None /\ job[t].from = None /\ ~Lent(t)
    BY <1>0, <2>1 DEF JobFits, At
  <2> QED
    BY <1>0, <1>1, <2>1, <2>2, <2>3 DEF CacheFits
<1> QED
  BY <1>2, <1>3

\* A document or an index gets a reservation, which nothing else has.
LEMMA ChargeKeeps ==
  ASSUME IInv, CInv, OInv, NEW t \in Threads, NEW r \in Reservations,
         ChargeDocument(t, r) \/ ChargeIndex(t, r)
  PROVE  OInv'
<1> DEFINE step == IF ChargeDocument(t, r) THEN "storing" ELSE "publishing"
           s == cache[t]
           j == [job[t] EXCEPT !.at = step, !.code = r]
<1>0. /\ job[t] \in Job /\ s \in Seq(Document) /\ CacheFits(charge, s)
      /\ JobFits(job[t], s, call[t].bytes)
      /\ (~At(t, "idle") => ~Lent(t)) /\ \A k \in Job : Become(t, k) => job'[t] = k
      /\ \A q \in Reservations : owners[q] \in Nat
      /\ charge \in [Reservations -> Nat]
  BY StepFields
<1>1. /\ Exchange(t, r) /\ Become(t, j) /\ UNCHANGED <<cache, index>>
      /\ job[t].at \in {"charging", "recharging"}
      /\ step = "storing" => job[t].at = "recharging" \/ job[t].class # None
  BY DEF ChargeDocument, ChargeIndex, At
<1>2. /\ j \in Job /\ j.code = r /\ j.at = step /\ j.class = job[t].class
      /\ j.bytes = job[t].bytes /\ j.from = job[t].from /\ step \in {"storing", "publishing"}
  BY <1>0 DEF Job, Steps
<1> HIDE DEF j, step
<1>3. job[t].code = None /\ job[t].from = None /\ ~Lent(t) /\ job'[t] = j
  BY <1>0, <1>1, <1>2 DEF JobFits, At
<1>4. /\ state[r] = "free" /\ owners' = [owners EXCEPT ![r] = 1] /\ owners[r] = 0
      /\ charge' = [charge EXCEPT ![r] = call[t].bytes]
  BY <1>0, <1>1 DEF Exchange, IInv, OwnersMatch
<1>5. /\ \A u \in Threads : r \notin Codes(cache[u]) /\ job[u].code # r
      /\ index # r
  BY <1>4, OwnedHeld
<1>6. cache' = [cache EXCEPT ![t] = s]
  BY <1>1 DEF CInv, CachesTypeOK
<1>7. ASSUME NEW q \in Reservations
      PROVE  owners'[q] = owners[q] - Share(cache[t], job[t], index, q) + Share(s, j, index', q)
  <2>1. owners'[q] = owners[q] + Bit(q = r)
    BY <1>0, <1>4 DEF Bit, IInv, TypeOK
  <2>2. Bit(q \in Codes(s)) = Bit(q \in Codes(cache[t])) /\ Bit(index' = q) = Bit(index = q)
    BY <1>1
  <2>3. Bit(j.code = q) = Bit(q = r) /\ Bit(job[t].code = q) = 0
    BY <1>2, <1>3, CachesAssumption DEF Bit
  <2> QED
    BY <1>0, <2>1, <2>2, <2>3 DEF Share, Bit
<1>8. \A q \in Reservations : q \in Codes(s) \/ j.code = q \/ index' = q =>
        \/ \E u \in Threads : q \in Codes(cache[u])
        \/ job[t].code = q \/ index = q \/ state[q] # "held"
  BY <1>1, <1>2, <1>4
<1>9. \A q \in Reservations : state[q] = "held" => charge'[q] = charge[q]
  BY <1>0, <1>4
<1>10. CacheFits(charge', s)
  <2>1. \A q \in Codes(s) \cap Reservations : charge'[q] = charge[q]
    BY <1>9, OwnedHeld
  <2>2. Weight(charge', Codes(s)) = Weight(charge, Codes(s))
    BY <2>1, WeightSame, Zenon
  <2> QED
    BY <1>0, <2>2 DEF CacheFits
<1>11. JobFits(j, s, call'[t].bytes) /\ Copies(t)'
  <2>1. step = "storing" => j.class \notin ClassesOf(s)
    BY <1>0, <1>1, <1>2 DEF JobFits
  <2> QED
    BY <1>2, <1>3, <2>1 DEF JobFits, Copies
<1>12. Sole(t)'
  <2> SUFFICES ASSUME step = "storing"
               PROVE  /\ charge'[r] = job[t].bytes /\ CacheOwners(r)' = {}
                      /\ JobOwners(r)' = {t} /\ index' # r
    BY <1>2, <1>3 DEF Sole
  <2>1. charge'[r] = job[t].bytes
    BY <1>0, <1>1, <1>4 DEF JobFits
  <2>2. CacheOwners(r)' = {} /\ JobOwners(r)' = {t}
    <3>1. CacheOwners(r)' = {} /\ JobOwners(r) = {}
      BY <1>1, <1>5 DEF CacheOwners, JobOwners
    <3>2. JobOwners(r)' = JobOwners(r) \cup {t}
      BY <1>1, <1>2, JobOwnersMove, ZenonT(60)
    <3> QED
      BY <3>1, <3>2
  <2> QED
    BY <1>1, <1>5, <2>1, <2>2
<1> HIDE DEF s
<1> QED
  BY <1>0, <1>1, <1>2, <1>3, <1>6, <1>7, <1>8, <1>9, <1>10, <1>11, <1>12, CallsApart, StepKeeps
\* An eviction, and a caller that is done: one owner less.
LEMMA DisownKeeps ==
  ASSUME IInv, CInv, OInv, NEW t \in Threads, Evict(t) \/ Forget(t)
  PROVE  OInv'
<1>0. /\ job[t] \in Job /\ cache[t] \in Seq(Document) /\ CacheFits(charge, cache[t])
      /\ JobFits(job[t], cache[t], call[t].bytes) /\ Sole(t)
      /\ (~At(t, "idle") => ~Lent(t)) /\ (\A j \in Job : Become(t, j) => job'[t] = j)
      /\ \A q \in Reservations : owners[q] \in Nat
      /\ charge \in [Reservations -> Nat]
  BY StepFields
<1>1. ASSUME NEW r \in Reservations, Disown(r)
      PROVE  /\ UNCHANGED <<call, charge>>
             /\ \A q \in Reservations : owners'[q] = owners[q] - Bit(q = r)
  BY <1>0, <1>1 DEF Disown, Bit, IInv, TypeOK
<1>2. CASE Evict(t)
  <2> DEFINE s == Tail(cache[t])
             r == Head(cache[t]).code
             j == Owning(job[t], r)
  <2>1. /\ cache[t] # <<>> /\ Disown(r) /\ Become(t, j) /\ cache' = [cache EXCEPT ![t] = s]
        /\ UNCHANGED index /\ job[t].at \in {"emptying", "trimming", "storing"}
    BY <1>2 DEF Evict, At
  <2>2. /\ s \in Seq(Document) /\ Len(s) = Len(cache[t]) - 1 /\ Len(cache[t]) \in Nat
        /\ r \in Reservations /\ r \in Codes(cache[t]) /\ Codes(s) = Codes(cache[t]) \ {r}
        /\ ClassesOf(s) \subseteq ClassesOf(cache[t]) /\ Distinct(s)
    BY <1>0, <2>1, TailLess DEF CacheFits
  <2> HIDE DEF s, r
  <2>3. /\ j \in Job /\ j.code = job[t].code /\ j.at = job[t].at /\ j.class = job[t].class
        /\ j.bytes = job[t].bytes /\ j.from = job[t].from
    BY <1>0, <2>2 DEF Owning, Job
  <2> HIDE DEF j
  <2>4. ~Lent(t) /\ job'[t] = j
    BY <1>0, <2>1, <2>3 DEF At
  <2>5. ASSUME NEW q \in Reservations
        PROVE  owners'[q] = owners[q] - Share(cache[t], job[t], index, q) + Share(s, j, index', q)
    <3>1. owners'[q] = owners[q] - Bit(q = r)
      BY <1>1, <2>1, <2>2
    <3>2. Bit(q \in Codes(s)) = Bit(q \in Codes(cache[t])) - Bit(q = r)
      BY <2>2 DEF Bit
    <3> QED
      BY <1>0, <2>1, <2>3, <3>1, <3>2 DEF Share, Bit
  <2>6. \A q \in Reservations : q \in Codes(s) \/ j.code = q \/ index' = q =>
          \/ \E u \in Threads : q \in Codes(cache[u])
          \/ job[t].code = q \/ index = q \/ state[q] # "held"
    BY <2>1, <2>2, <2>3
  <2>7. CacheFits(charge', s)
    <3>1. Codes(s) \in SUBSET Codes(cache[t])
      BY <2>2
    <3>2. Weight(charge, Codes(s)) <= Weight(charge, Codes(cache[t]))
      BY <1>0, <3>1, WeightPart, Zenon
    <3>3. Weight(charge, Codes(s)) \in Nat /\ Weight(charge, Codes(cache[t])) \in Nat
      BY <1>0, WeightType, Zenon
    <3> QED
      BY <1>0, <1>1, <2>1, <2>2, <3>2, <3>3, CachesAssumption DEF CacheFits
  <2>8. JobFits(j, s, call'[t].bytes) /\ Copies(t)'
    BY <1>0, <1>1, <2>1, <2>2, <2>3, <2>4 DEF JobFits, Copies
  <2>9. Sole(t)'
    <3> SUFFICES ASSUME NEW q \in Reservations, j.at = "storing", j.code = q
                 PROVE  /\ charge'[q] = j.bytes /\ CacheOwners(q)' = {}
                        /\ JobOwners(q)' = {t} /\ index' # q
      BY <2>4 DEF Sole
    <3>1. charge[q] = job[t].bytes /\ CacheOwners(q) = {} /\ JobOwners(q) = {t} /\ index # q
      BY <1>0, <2>3 DEF Sole
    <3>2. q \notin Codes(s)
      BY <2>2, <3>1 DEF CacheOwners
    <3>3. CacheOwners(q)' = {} /\ JobOwners(q)' = {t}
      <4>1. /\ CacheOwners(q)' = CacheOwners(q) \ {t}
            /\ JobOwners(q)' = JobOwners(q) \cup {t}
        BY <2>1, <2>3, <3>2, CacheOwnersMove, JobOwnersMove, ZenonT(60)
      <4> QED
        BY <3>1, <4>1
    <3> QED
      BY <1>1, <2>1, <2>2, <2>3, <3>1, <3>3
  <2>10. UNCHANGED <<call, charge>>
    BY <1>1, <2>1, <2>2
  <2> QED
    BY <2>1, <2>2, <2>3, <2>4, <2>5, <2>6, <2>7, <2>8, <2>9, <2>10, StepKeeps
<1>3. CASE Forget(t)
  <2> DEFINE s == cache[t]
  <2>1. UNCHANGED <<cache, index>> /\ job[t].at = "reading"
    BY <1>3 DEF Forget, At
  <2>2. ~Lent(t) /\ cache' = [cache EXCEPT ![t] = s]
    BY <1>0, <2>1 DEF At, CInv, CachesTypeOK
  <2>3. CASE job[t].code = None
    <3>1. Become(t, Resting) /\ UNCHANGED vars
      BY <1>3, <2>3 DEF Forget
    <3>2. /\ Resting \in Job /\ Resting.code = None /\ Resting.at = "idle"
          /\ Resting.from = None /\ job'[t] = Resting
      BY <1>0, <3>1, RestingJob DEF Resting
    <3>3. JobFits(Resting, cache[t], call'[t].bytes) /\ Copies(t)'
      BY <3>2 DEF JobFits, Copies
    <3>4. UNCHANGED <<owners, charge, call>>
      BY <3>1 DEF vars
    <3> QED
      BY <2>1, <2>2, <2>3, <3>1, <3>2, <3>3, <3>4, QuietKeeps
  <2>4. CASE job[t].code # None
    <3> DEFINE r == job[t].code
               j == Owning(Resting, r)
    <3>1. r \in Reservations /\ Disown(r) /\ Become(t, j)
      BY <1>0, <1>3, <2>4 DEF Forget, Job
    <3>2. j \in Job /\ j.code = None /\ j.at = "idle" /\ j.from = None
      <4> HIDE DEF r
      <4> QED
        BY <3>1, RestingJob DEF Owning, Job, Resting
    <3> HIDE DEF j
    <3>3. ASSUME NEW q \in Reservations
          PROVE  owners'[q] = owners[q] - Share(cache[t], job[t], index, q) + Share(s, j, index', q)
      <4>1. owners'[q] = owners[q] - Bit(job[t].code = q)
        BY <1>1, <3>1 DEF Bit
      <4>2. Bit(j.code = q) = 0
        BY <3>2, CachesAssumption DEF Bit
      <4> QED
        BY <1>0, <2>1, <4>1, <4>2 DEF Share, Bit
    <3>4. \A q \in Reservations : q \in Codes(s) \/ j.code = q \/ index' = q =>
            \/ \E u \in Threads : q \in Codes(cache[u])
            \/ job[t].code = q \/ index = q \/ state[q] # "held"
      BY <2>1, <3>2, CachesAssumption
    <3>5. UNCHANGED <<call, charge>> /\ job'[t] = j
      BY <1>0, <1>1, <3>1, <3>2
    <3>6. CacheFits(charge', s) /\ JobFits(j, s, call'[t].bytes) /\ Sole(t)' /\ Copies(t)'
      BY <1>0, <3>2, <3>5 DEF JobFits, Sole, Copies
    <3> HIDE DEF s
    <3>7. s \in Seq(Document)
      BY <1>0 DEF s
    <3> QED
      BY <2>1, <2>2, <3>1, <3>2, <3>3, <3>4, <3>5, <3>6, <3>7, StepKeeps
  <2> QED
    BY <2>3, <2>4
<1> QED
  BY <1>2, <1>3

\* The bytes that a source cache counts are the weight of its documents.
LEMMA BytesAreWeight ==
  ASSUME IInv, CInv, OInv, NEW t \in Threads
  PROVE  Bytes(t) = Weight(charge, Codes(cache[t])) /\ Bytes(t) \in Nat
<1>1. charge \in [Reservations -> Nat] /\ cache[t] \in Seq(Document) /\ Distinct(cache[t])
  BY StepFields DEF CacheFits
<1>2. Total([i \in 1..Len(cache[t]) |-> charge[cache[t][i].code]])
        = Weight(charge, Codes(cache[t]))
  BY <1>1, WeightOfPositions, Zenon
<1>3. Weight(charge, Codes(cache[t])) \in Nat
  BY <1>1, WeightType, Zenon
<1> QED
  BY <1>2, <1>3, Zenon DEF Bytes

\* What is left to show of a step that puts a document in a source cache.
LEMMA KeepsOneMore ==
  ASSUME IInv, CInv, OInv, NEW t \in Threads, NEW j \in Job, NEW d \in Document,
         Clone(d.code), Become(t, j), cache' = [cache EXCEPT ![t] = Append(cache[t], d)],
         UNCHANGED index, ~Lent(t), j.code = job[t].code,
         \E u \in Threads : d.code \in Codes(cache[u]) \/ job[t].code = d.code,
         d.code \notin Codes(cache[t]), d.class \notin ClassesOf(cache[t]),
         Len(cache[t]) + 1 <= CacheEntries,
         Weight(charge, Codes(cache[t])) + charge[d.code] <= CacheBytes,
         j.at \in {"idle", "copying", "reading"}, j.at \in {"idle", "copying"} => j.code = None,
         j.at # "copying" => j.from = None, Copies(t)'
  PROVE  OInv'
<1> DEFINE s == Append(cache[t], d)
           r == d.code
<1>0. /\ cache[t] \in Seq(Document) /\ CacheFits(charge, cache[t])
      /\ (\A k \in Job : Become(t, k) => job'[t] = k)
      /\ \A q \in Reservations : owners[q] \in Nat
      /\ charge \in [Reservations -> Nat]
  BY StepFields
<1>1. /\ s \in Seq(Document) /\ Len(s) = Len(cache[t]) + 1
      /\ Codes(s) = Codes(cache[t]) \cup {r} /\ Distinct(s)
  BY <1>0, AppendMore DEF CacheFits
<1>2. r \in Reservations /\ UNCHANGED <<call, charge>> /\ state[r] = "held"
  BY DocumentCode DEF Clone
<1> HIDE DEF s, r
<1>3. ASSUME NEW q \in Reservations
      PROVE  owners'[q] = owners[q] - Share(cache[t], job[t], index, q) + Share(s, j, index', q)
  <2>1. owners'[q] = owners[q] + Bit(q = r)
    BY <1>0, <1>2 DEF Clone, Bit, IInv, TypeOK, r
  <2>2. Bit(q \in Codes(s)) = Bit(q \in Codes(cache[t])) + Bit(q = r)
    BY <1>1 DEF Bit, r
  <2> QED
    BY <1>0, <2>1, <2>2 DEF Share, Bit
<1>4. \A q \in Reservations : q \in Codes(s) \/ j.code = q \/ index' = q =>
        \/ \E u \in Threads : q \in Codes(cache[u])
        \/ job[t].code = q \/ index = q \/ state[q] # "held"
  BY <1>1 DEF r
<1>5. CacheFits(charge', s)
  <2>1. r \notin Codes(cache[t])
    BY DEF r
  <2>2. Weight(charge, Codes(s)) = Weight(charge, Codes(cache[t])) + charge[r]
    <3>1. Weight(charge, Codes(cache[t]) \cup {r}) = Weight(charge, Codes(cache[t])) + charge[r]
      BY <1>0, <1>2, <2>1, WeightMore, Zenon
    <3> QED
      BY <1>1, <3>1, Zenon
  <2> QED
    BY <1>1, <1>2, <2>2 DEF CacheFits, r
<1>6. JobFits(j, s, call'[t].bytes) /\ Sole(t)'
  BY <1>0 DEF JobFits, Sole
<1>7. cache' = [cache EXCEPT ![t] = s]
  BY DEF s
<1> QED
  BY <1>1, <1>2, <1>3, <1>4, <1>5, <1>6, <1>7, StepKeeps
\* A document is stored within the limits, which were looked at in this step.
LEMMA StoreKeeps ==
  ASSUME IInv, CInv, OInv, NEW t \in Threads, Store(t)
  PROVE  OInv'
<1> DEFINE d == [class |-> job[t].class, code |-> job[t].code]
           j == [job[t] EXCEPT !.at = "reading"]
<1>0. /\ job[t] \in Job /\ InHand(job[t]) /\ cache[t] \in Seq(Document)
      /\ JobFits(job[t], cache[t], call[t].bytes) /\ Sole(t)
      /\ (~At(t, "idle") => ~Lent(t)) /\ (\A k \in Job : Become(t, k) => job'[t] = k)
  BY StepFields
<1>1. /\ job[t].at = "storing" /\ Storable(t) /\ ~Crowded(t) /\ Clone(job[t].code)
      /\ Become(t, j) /\ cache' = [cache EXCEPT ![t] = Append(cache[t], d)] /\ UNCHANGED index
  BY DEF Store, At, GoTo
<1>2. d \in Document /\ d.code = job[t].code /\ d.class = job[t].class
  BY <1>0, <1>1 DEF InHand, Document
<1>3. j \in Job /\ j.code = job[t].code /\ j.at = "reading" /\ j.from = None /\ ~Lent(t)
  BY <1>0, <1>1 DEF Job, Steps, JobFits, At
<1> HIDE DEF d, j
<1>4. charge[d.code] = job[t].bytes /\ d.code \notin Codes(cache[t])
  BY <1>0, <1>1, <1>2, DocumentCode DEF Sole, CacheOwners
<1>5. Len(cache[t]) + 1 <= CacheEntries
  BY <1>0, <1>1, CachesAssumption DEF Crowded
<1>6. Weight(charge, Codes(cache[t])) + charge[d.code] <= CacheBytes
  <2>1. charge[d.code] \in Nat
    BY <1>2, DocumentCode, StepFields
  <2> QED
    BY <1>1, <1>4, <2>1, BytesAreWeight, CachesAssumption DEF Crowded
<1>7. d.class \notin ClassesOf(cache[t])
  BY <1>0, <1>1, <1>2 DEF JobFits
<1>8. Copies(t)'
  BY <1>0, <1>1, <1>3 DEF Copies
<1> QED
  BY <1>1, <1>2, <1>3, <1>4, <1>5, <1>6, <1>7, <1>8, KeepsOneMore

\* A copy is a part of a cache that is within the limits.
LEMMA CopyKeeps ==
  ASSUME IInv, CInv, OInv, NEW t \in Threads, Copy(t)
  PROVE  OInv'
<1> DEFINE u == job[t].from
           source == cache[u]
           n == Len(cache[t])
           d == source[n + 1]
           j == IF n + 1 = Len(source) THEN Resting ELSE job[t]
<1>0. /\ job[t] \in Job /\ InHand(job[t]) /\ cache[t] \in Seq(Document)
      /\ JobFits(job[t], cache[t], call[t].bytes) /\ Copies(t)
      /\ (~At(t, "idle") => ~Lent(t)) /\ (\A k \in Job : Become(t, k) => job'[t] = k)
      /\ charge \in [Reservations -> Nat]
  BY StepFields
<1>1. /\ job[t].at = "copying" /\ Clone(d.code) /\ Become(t, j) /\ UNCHANGED index
      /\ cache' = [cache EXCEPT ![t] = Append(cache[t], d)]
  BY DEF Copy, At
<1>2. /\ u \in Threads /\ u # t /\ At(u, "idle") /\ n < Len(source)
      /\ \A i \in 1..n : cache[t][i] = source[i]
  BY <1>0, <1>1 DEF InHand, Copies
<1>3. source \in Seq(Document) /\ CacheFits(charge, source)
  BY <1>2, StepFields
<1>4. n \in Nat /\ Len(source) \in Nat /\ n + 1 \in 1..Len(source) /\ d \in Document
  BY <1>0, <1>2, <1>3
<1>5. d.code \in Codes(source)
  BY <1>4 DEF Codes
<1>6. \A i \in 1..n : i \in 1..Len(source) /\ i # n + 1
  BY <1>4
<1>7. d.code \notin Codes(cache[t]) /\ d.class \notin ClassesOf(cache[t])
  <2>1. \A i \in 1..n : cache[t][i].code # d.code /\ cache[t][i].class # d.class
    BY <1>2, <1>3, <1>4, <1>6, SMTT(30) DEF CacheFits, Distinct
  <2> QED
    BY <2>1 DEF Codes, ClassesOf
<1>8. n + 1 <= CacheEntries
  BY <1>3, <1>4, CachesAssumption DEF CacheFits
<1>9. Weight(charge, Codes(cache[t])) + charge[d.code] <= CacheBytes
  <2>0. \A i \in 1..n : cache[t][i].code \in Codes(source)
    BY <1>2, <1>6 DEF Codes
  <2>1. Codes(cache[t]) \cup {d.code} \in SUBSET Codes(source)
    BY <1>5, <2>0 DEF Codes
  <2>2. d.code \in Reservations
    BY <1>4, DocumentCode
  <2> DEFINE w == Weight(charge, Codes(cache[t]))
             more == Weight(charge, Codes(cache[t]) \cup {d.code})
             all == Weight(charge, Codes(source))
  <2>3. more = w + charge[d.code]
    BY <1>0, <1>7, <2>2, WeightMore, Zenon
  <2>4. more <= all /\ more \in Nat /\ all \in Nat
    BY <1>0, <2>1, WeightPart, WeightType, Zenon
  <2>5. all <= CacheBytes
    BY <1>3 DEF CacheFits
  <2> HIDE DEF more, all, w
  <2>6. w + charge[d.code] <= CacheBytes
    BY <2>3, <2>4, <2>5, CachesAssumption
  <2> QED
    BY <2>6 DEF w
<1>10. /\ j \in Job /\ j.code = None /\ j.code = job[t].code /\ j.at \in {"idle", "copying"}
       /\ (j.at # "copying" => j.from = None) /\ ~Lent(t) /\ job'[t] = j
  <2>1. Resting \in Job /\ Resting.code = None /\ Resting.at = "idle" /\ Resting.from = None
    BY RestingJob DEF Resting
  <2>2. job[t].code = None /\ ~Lent(t)
    BY <1>0, <1>1 DEF JobFits, At
  <2>3. j = Resting \/ j = job[t]
    OBVIOUS
  <2> HIDE DEF j
  <2>4. j \in Job
    BY <1>0, <2>1, <2>3
  <2>5. job'[t] = j
    BY <1>0, <1>1, <2>4
  <2> QED
    BY <1>1, <2>1, <2>2, <2>3, <2>4, <2>5
<1>11. Copies(t)'
  <2>1. CASE n + 1 = Len(source)
    BY <1>10, <2>1 DEF Copies, Resting
  <2>2. CASE n + 1 # Len(source)
    <3>1. job'[t] = job[t] /\ job'[u] = job[u] /\ cache'[u] = source
      BY <1>1, <1>2, <1>10, <2>2 DEF Become, CInv, CachesTypeOK
    <3>2. /\ cache'[t] = Append(cache[t], d) /\ Len(cache'[t]) = n + 1
          /\ \A i \in 1..n : cache'[t][i] = cache[t][i]
          /\ cache'[t][n + 1] = d
      <4>1. cache'[t] = Append(cache[t], d)
        BY <1>1 DEF CInv, CachesTypeOK
      <4> HIDE DEF d
      <4> QED
        BY <1>0, <1>4, <4>1
    <3>3. \A i \in 1..(n + 1) : i \in 1..n \/ i = n + 1
      BY <1>4
    <3>4. \A i \in 1..(n + 1) : cache'[t][i] = source[i]
      BY <1>2, <3>2, <3>3
    <3>5. n + 1 < Len(source)
      BY <1>2, <1>4, <2>2
    <3> QED
      BY <1>1, <1>2, <3>1, <3>2, <3>4, <3>5 DEF Copies, At
  <2> QED
    BY <2>1, <2>2
<1> HIDE DEF j, d, source
<1> QED
  BY <1>1, <1>2, <1>4, <1>5, <1>7, <1>8, <1>9, <1>10, <1>11, KeepsOneMore DEF source

\* The index is published: the thread that built it and the project own it.
LEMMA PublishKeeps ==
  ASSUME IInv, CInv, OInv, NEW t \in Threads, Publish(t)
  PROVE  OInv'
<1> DEFINE j == [job[t] EXCEPT !.at = "reading"]
           r == job[t].code
           s == cache[t]
<1>0. /\ job[t] \in Job /\ InHand(job[t]) /\ cache[t] \in Seq(Document)
      /\ JobFits(job[t], cache[t], call[t].bytes) /\ CacheFits(charge, cache[t])
      /\ (~At(t, "idle") => ~Lent(t)) /\ (\A k \in Job : Become(t, k) => job'[t] = k)
      /\ (Builds(job[t]) => lock = t)
      /\ \A q \in Reservations : owners[q] \in Nat
  BY StepFields, JobFields
<1>1. /\ job[t].at = "publishing" /\ Clone(r) /\ Become(t, j) /\ index' = r /\ UNCHANGED cache
  BY DEF Publish, At, GoTo
<1>2. r \in Reservations /\ index = None /\ ~Lent(t)
  BY <1>0, <1>1, CachesAssumption DEF InHand, Builds, CInv, BuildersTakeTurns, At
<1>3. j \in Job /\ j.code = r /\ j.at = "reading" /\ j.from = None
  BY <1>0, <1>1 DEF Job, Steps, JobFits
<1> HIDE DEF j, r
<1>4. UNCHANGED <<call, charge>> /\ job'[t] = j
  BY <1>0, <1>1, <1>3 DEF Clone
<1>5. ASSUME NEW q \in Reservations
      PROVE  owners'[q] = owners[q] - Share(cache[t], job[t], index, q) + Share(s, j, index', q)
  <2>1. owners'[q] = owners[q] + Bit(r = q)
    BY <1>0, <1>1, <1>2 DEF Clone, Bit, IInv, TypeOK
  <2>2. Bit(index = q) = 0 /\ Bit(index' = q) = Bit(r = q)
    BY <1>1, <1>2, CachesAssumption DEF Bit
  <2> QED
    BY <1>0, <1>3, <2>1, <2>2 DEF Share, Bit, r
<1>6. \A q \in Reservations : q \in Codes(s) \/ j.code = q \/ index' = q =>
        \/ \E u \in Threads : q \in Codes(cache[u])
        \/ job[t].code = q \/ index = q \/ state[q] # "held"
  BY <1>1, <1>3 DEF r
<1>7. CacheFits(charge', s) /\ JobFits(j, s, call'[t].bytes) /\ Sole(t)' /\ Copies(t)'
  BY <1>0, <1>3, <1>4 DEF JobFits, Sole, Copies
<1>8. cache' = [cache EXCEPT ![t] = s]
  BY <1>1 DEF CInv, CachesTypeOK
<1> HIDE DEF s
<1>9. s \in Seq(Document)
  BY <1>0 DEF s
<1> QED
  BY <1>1, <1>2, <1>3, <1>4, <1>5, <1>6, <1>7, <1>8, <1>9, StepKeeps

LEMMA InitOInv == CachesInit => OInv
<1> SUFFICES ASSUME CachesInit
             PROVE  OInv
  OBVIOUS
<1>1. \A t \in Threads : job[t] = Resting /\ cache[t] = <<>> /\ call[t] = Idle
  BY DEF CachesInit, Init
<1>2. Resting.at = "idle" /\ Resting.code = None /\ Resting.from = None
  BY DEF Resting
<1>3. Codes(<<>>) = {} /\ ClassesOf(<<>>) = {} /\ Distinct(<<>>) /\ Len(<<>>) = 0
  BY DEF Codes, ClassesOf, Distinct
<1>4. ASSUME NEW r \in Reservations
      PROVE  CountedAt(r)
  <2>1. CacheOwners(r) = {} /\ JobOwners(r) = {} /\ index # r /\ owners[r] = 0
    BY <1>1, <1>2, <1>3, CachesAssumption DEF CacheOwners, JobOwners, CachesInit, Init
  <2> QED
    BY <2>1, FS_EmptySet DEF CountedAt, Bit
<1>5. Weight(charge, {}) = 0
  <2>1. Weighed(charge, {}) = [r \in Reservations |-> 0]
    BY DEF Weighed
  <2> QED
    BY <2>1, TotalZero DEF Weight
<1>6. ASSUME NEW t \in Threads
      PROVE  /\ CacheFits(charge, cache[t]) /\ JobFits(job[t], cache[t], call[t].bytes)
             /\ Sole(t) /\ Copies(t)
  <2>1. CacheFits(charge, cache[t])
    <3>1. /\ Distinct(cache[t]) /\ Len(cache[t]) = 0
          /\ Weight(charge, Codes(cache[t])) = 0
      BY <1>1, <1>3, <1>5, Zenon
    <3> QED
      BY <3>1, CachesAssumption DEF CacheFits
  <2>2. JobFits(job[t], cache[t], call[t].bytes) /\ Sole(t) /\ Copies(t)
    BY <1>1, <1>2 DEF JobFits, Sole, Copies
  <2> QED
    BY <2>1, <2>2
<1> QED
  BY <1>4, <1>6 DEF OInv

\* Every reachable state satisfies the inductive invariant of the owners.
LEMMA OwnersInvariance == CachesSpec => [](IInv /\ CInv /\ OInv)
<1>1. IInv /\ CInv /\ OInv /\ [CachesNext]_<<vars, local>> => OInv'
  <2> SUFFICES ASSUME IInv, CInv, OInv, [CachesNext]_<<vars, local>>
               PROVE  OInv'
    OBVIOUS
  <2>1. CASE UNCHANGED <<vars, local>>
    BY <2>1 DEF vars, local, OInv, CountedAt, CacheFits, Sole, Copies, At, CacheOwners, JobOwners
  <2>2. ASSUME NEW t \in Threads, SourceStep(t)
        PROVE  OInv'
    BY <2>2, QuietSource, ShareKeeps, ChargeKeeps, DisownKeeps, StoreKeeps, CopyKeeps
       DEF SourceStep
  <2>3. ASSUME NEW t \in Threads, IndexStep(t)
        PROVE  OInv'
    BY <2>3, QuietIndex, ShareKeeps, ChargeKeeps, PublishKeeps DEF IndexStep
  <2>4. ASSUME NEW t \in Threads, CompareAgain(t) \/ GiveBack(t) \/ Forget(t)
        PROVE  OInv'
    BY <2>4, QuietOthers, DisownKeeps
  <2> QED
    BY <2>1, <2>2, <2>3, <2>4 DEF CachesNext
<1> QED
  BY InitOInv, <1>1, CachesInvariance, CachesUseBudget, Invariance, PTL DEF CachesSpec

\* A source cache keeps charged documents only, within its own two limits and one of a class,
\* whatever the engines that share the budget render, clone, evict and drop
\* (SourceCache::insert and get in engine/source_cache.rs, decompile_shared in engine.rs).
THEOREM SourceCachesBounded == CachesSpec => []CacheBounded
<1>1. IInv /\ CInv /\ OInv => CacheBounded
  <2> SUFFICES ASSUME IInv, CInv, OInv, NEW t \in Threads
               PROVE  /\ \A i \in 1..Len(cache[t]) :
                           cache[t][i].code # None /\ state[cache[t][i].code] = "held"
                      /\ Len(cache[t]) <= CacheEntries /\ Bytes(t) <= CacheBytes
                      /\ Cardinality(Cached(t)) = Len(cache[t])
    BY DEF CacheBounded
  <2> DEFINE s == cache[t]
  <2>0. s \in Seq(Document) /\ CacheFits(charge, s) /\ Cached(t) = ClassesOf(s)
    BY StepFields
  <2>1. ASSUME NEW i \in 1..Len(s)
        PROVE  s[i].code # None /\ state[s[i].code] = "held"
    <3>1. s[i].code \in Reservations /\ s[i].code \in Codes(s)
      BY <2>0, DocumentCode DEF Codes
    <3> QED
      BY <3>1, OwnedHeld, CachesAssumption
  <2>2. Len(s) <= CacheEntries /\ Bytes(t) <= CacheBytes
    BY <2>0, BytesAreWeight DEF CacheFits
  <2>3. Cardinality(ClassesOf(s)) = Len(s)
    <3> DEFINE f == [i \in 1..Len(s) |-> s[i].class]
    <3>1. f \in Bijection(1..Len(s), ClassesOf(s))
      BY <2>0 DEF CacheFits, Distinct, ClassesOf, Bijection, Injection, Surjection, IsInjective
    <3>2. Len(s) \in Nat
      BY <2>0
    <3> QED
      BY <3>1, <3>2, FS_CountingElements DEF ExistsBijection
  <2> QED
    BY <2>0, <2>1, <2>2, <2>3
<1> QED
  BY <1>1, OwnersInvariance, PTL

\* The strong count of a document or index is at any time the number of source caches, jobs
\* and indexes that have it, so its bytes are given back by the last of them.
THEOREM OwnersCounted == CachesSpec => [](\A r \in Reservations : CountedAt(r))
BY OwnersInvariance, PTL DEF OInv
=============================================================================
