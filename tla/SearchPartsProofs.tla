-------------------------- MODULE SearchPartsProofs --------------------------
(***************************************************************************)
(* The parts of a search: the budget of its bytes, its packed store, and   *)
(* the service of the index of literals.  For any number of classes,       *)
(* queries and attempts, and any sizes and limits:                         *)
(*  - the counter of the budget is the sum of the charges, and only the    *)
(*    class that is waited for can take it over the limit;                 *)
(*  - the records and the free extents divide the store, its counters are  *)
(*    exact, and what was stored can be loaded until the file is touched   *)
(*    from outside;                                                        *)
(*  - the waiters for the index are counted, one build runs and is told to *)
(*    stop exactly when it is not wanted, an index is the current one, and *)
(*    an invalidated project stays so.                                     *)
(***************************************************************************)
EXTENDS ResultBudget, DiskIndex, LiteralIndex, ChargeSumProofs

-----------------------------------------------------------------------------
(* The budget *)

\* The inductive invariant.  The bound on the future charges needs the exact
\* value of the counter, because the admission test reads the counter only;
\* the exact value needs that a class which reserves holds nothing yet.
IInv == TypeOK /\ Unheld /\ Accounted /\ FutureWithinLimit

LEMMA IndexFinite == IsFiniteSet(Index)
BY BudgetAssumption, FS_Interval DEF Index

\* The future charges are all charges without the head's.
LEMMA FutureTotal ==
  ASSUME TypeOK
  PROVE  /\ head \in Index => Total(FutureCharge) = Total(charge) - charge[head]
         /\ head \notin Index => Total(FutureCharge) = Total(charge)
<1>1. ASSUME head \in Index
      PROVE  Total(FutureCharge) = Total(charge) - charge[head]
  <2>1. FutureCharge = [charge EXCEPT ![head] = 0]
    BY <1>1 DEF FutureCharge, TypeOK
  <2>2. Total([charge EXCEPT ![head] = 0]) = Total(charge) - charge[head] + 0
    <3>1. charge \in [Index -> Nat] /\ 0 \in Nat
      BY DEF TypeOK
    <3>. QED
      BY <1>1, <3>1, IndexFinite, TotalUpdate, Zenon
  <2>3. Total(charge) \in Nat /\ charge[head] \in Nat
    BY <1>1, IndexFinite, TotalType DEF TypeOK
  <2>. QED
    BY <2>1, <2>2, <2>3
<1>2. ASSUME head \notin Index
      PROVE  Total(FutureCharge) = Total(charge)
  <2>1. FutureCharge = charge
    BY <1>2 DEF FutureCharge, TypeOK
  <2>. QED
    BY <2>1
<1>. QED
  BY <1>1, <1>2

\* What a change of one charge does to the sum.
LEMMA ChargeUpdate ==
  ASSUME TypeOK, NEW i \in Index, NEW n \in Nat
  PROVE  /\ Total([charge EXCEPT ![i] = n]) = Total(charge) - charge[i] + n
         /\ charge[i] \in Nat
         /\ Total(charge) \in Nat
         /\ charge[i] <= Total(charge)
<1>1. charge \in [Index -> Nat] /\ IsFiniteSet(Index)
  BY IndexFinite DEF TypeOK
<1>2. Total([charge EXCEPT ![i] = n]) = Total(charge) - charge[i] + n
  BY <1>1, TotalUpdate, Zenon
<1>3. Total(charge) \in Nat
  BY <1>1, TotalType, Zenon
<1>4. charge[i] <= Total(charge)
  BY <1>1, EntryWithinTotal, Zenon
<1>. QED
  BY <1>1, <1>2, <1>3, <1>4

LEMMA InitIInv == Init => IInv
<1>. SUFFICES ASSUME Init
              PROVE  IInv
  OBVIOUS
<1>1. TypeOK
  <2>1. call \in [Index -> Calls] /\ charge \in [Index -> Nat]
    BY DEF Init, Calls
  <2>2. reserved \in Nat /\ head \in 0 .. NumClasses
    BY BudgetAssumption DEF Init
  <2>3. stopped \in BOOLEAN /\ cancel \in BOOLEAN
    BY DEF Init
  <2>. QED
    BY <2>1, <2>2, <2>3 DEF TypeOK
<1>2. Unheld
  BY DEF Init, Unheld
<1>3. Accounted
  BY TotalZero DEF Init, Accounted
<1>4. FutureWithinLimit
  <2>1. FutureCharge = [i \in Index |-> 0]
    BY DEF Init, FutureCharge
  <2>. QED
    BY <2>1, TotalZero, BudgetAssumption DEF FutureWithinLimit
<1>. QED
  BY <1>1, <1>2, <1>3, <1>4 DEF IInv

\* One step keeps the types and the charges of idle classes at zero.
LEMMA TypeStep ==
  ASSUME TypeOK, Unheld, [Next]_vars
  PROVE  TypeOK' /\ Unheld'
<1>. USE BudgetAssumption DEF TypeOK, Unheld, Calls
<1>1. CASE \E i \in Index, size \in Sizes : Reserve(i, size)
  BY <1>1 DEF Reserve
<1>2. CASE \E i \in Index, size \in Sizes : Finish(i, size)
  BY <1>2 DEF Finish, SatSub
<1>3. CASE \E i \in Index : ReserveRefused(i)
  BY <1>3 DEF ReserveRefused
<1>4. CASE \E i \in Index : FinishRefused(i)
  BY <1>4 DEF FinishRefused, SatSub
<1>5. CASE \E i \in Index : Release(i)
  BY <1>5 DEF Release, SatSub
<1>6. CASE Advance
  BY <1>6 DEF Advance, Index
<1>7. CASE Stop \/ Cancel
  BY <1>7 DEF Stop, Cancel
<1>8. CASE UNCHANGED vars
  BY <1>8 DEF vars
<1>. QED
  BY <1>1, <1>2, <1>3, <1>4, <1>5, <1>6, <1>7, <1>8 DEF Next

\* One step keeps the counter equal to the outstanding charges.
LEMMA AccountedStep ==
  ASSUME TypeOK, Unheld, Accounted, [Next]_vars
  PROVE  Accounted'
<1>. USE DEF Accounted
<1>1. ASSUME NEW i \in Index, NEW size \in Sizes, Reserve(i, size)
      PROVE  Accounted'
  <2>1. charge[i] = 0
    BY <1>1 DEF Unheld, Reserve
  <2>2. size \in Nat
    BY BudgetAssumption
  <2>3. Total([charge EXCEPT ![i] = size]) = Total(charge) - charge[i] + size
    BY <2>2, ChargeUpdate, Zenon
  <2>4. Total(charge) \in Nat
    BY ChargeUpdate
  <2>. QED
    BY <1>1, <2>1, <2>2, <2>3, <2>4 DEF Reserve
<1>2. ASSUME NEW i \in Index, NEW size \in Sizes, Finish(i, size)
      PROVE  Accounted'
  BY <1>2, BudgetAssumption, ChargeUpdate DEF Finish, SatSub
<1>3. ASSUME NEW i \in Index, FinishRefused(i) \/ Release(i)
      PROVE  Accounted'
  BY <1>3, ChargeUpdate DEF FinishRefused, Release, SatSub
<1>4. ASSUME UNCHANGED <<reserved, charge>>
      PROVE  Accounted'
  BY <1>4
<1>. QED
  BY <1>1, <1>2, <1>3, <1>4
     DEF Next, vars, ReserveRefused, Advance, Stop, Cancel

\* The bound restated over the counter: all but the head's bytes.
LEMMA FutureAsCounter ==
  ASSUME TypeOK, Accounted
  PROVE  FutureWithinLimit <=>
           reserved - (IF head \in Index THEN charge[head] ELSE 0) <= Limit
BY FutureTotal DEF FutureWithinLimit, Accounted, TypeOK

LEMMA FutureStep ==
  ASSUME IInv, TypeOK', Accounted', [Next]_vars
  PROVE  FutureWithinLimit'
<1>. DEFINE HeadCharge == IF head \in Index THEN charge[head] ELSE 0
<1>1. reserved - HeadCharge <= Limit
  BY FutureAsCounter DEF IInv
<1>2. (FutureWithinLimit <=> reserved - HeadCharge <= Limit)'
  BY FutureAsCounter, PTL
<1>3. (reserved - HeadCharge <= Limit)'
  <2>. USE DEF SatSub, Admits
  <2>1. ASSUME NEW i \in Index, NEW size \in Sizes, Reserve(i, size)
        PROVE  (reserved - HeadCharge <= Limit)'
    BY <1>1, <2>1, BudgetAssumption DEF Reserve, IInv, TypeOK, Unheld
  <2>2. ASSUME NEW i \in Index, NEW size \in Sizes, Finish(i, size)
        PROVE  (reserved - HeadCharge <= Limit)'
    BY <1>1, <2>2, BudgetAssumption, ChargeUpdate DEF Finish, IInv, TypeOK, Accounted
  <2>3. ASSUME NEW i \in Index, FinishRefused(i) \/ Release(i)
        PROVE  (reserved - HeadCharge <= Limit)'
    <3>1. /\ reserved' = reserved - charge[i]
          /\ charge' = [charge EXCEPT ![i] = 0]
          /\ head' = head
      BY <2>3, ChargeUpdate DEF FinishRefused, Release, IInv, TypeOK, Accounted
    <3>2. charge \in [Index -> Nat] /\ reserved \in Nat /\ Limit \in Nat
      BY BudgetAssumption DEF IInv, TypeOK
    <3>. QED
      BY <1>1, <3>1, <3>2
  <2>4. CASE Advance
    BY <1>1, <2>4, BudgetAssumption DEF Advance, IInv, TypeOK, Index
  <2>5. CASE UNCHANGED <<reserved, head, charge>>
    BY <1>1, <2>5
  <2>. QED
    BY <2>1, <2>2, <2>3, <2>4, <2>5 DEF Next, vars, ReserveRefused, Stop, Cancel
<1>. QED
  BY <1>2, <1>3

\* Every reachable state satisfies the inductive invariant.
LEMMA Invariance == Spec => []IInv
<1>1. IInv /\ [Next]_vars => IInv'
  BY TypeStep, AccountedStep, FutureStep DEF IInv
<1>. QED
  BY InitIInv, <1>1, PTL DEF Spec

\* The counter, the head and the calls keep their types.
THEOREM TypeCorrect == Spec => []TypeOK
BY Invariance, PTL DEF IInv

\* The counter always equals the sum of the charges outstanding in reserve,
\* finish and release (streaming.rs, ResultBudget).
THEOREM AccountingCorrect == Spec => []Accounted
BY Invariance, PTL DEF IInv

\* The classes that are not the required head never hold more than the limit.
THEOREM OnlyHeadExceeds == Spec => []FutureWithinLimit
BY Invariance, PTL DEF IInv

-----------------------------------------------------------------------------
(* The packed store.  Tiles says what Tiled says of any set of used positions, so that one
   lemma covers every use of ReleaseExtent, and one every placement.  The inductive
   invariant DInv adds that a class without an entry has no record. *)

Separate(e, f) == End(e) <= f.offset \/ End(f) <= e.offset

\* The positions of U and the extents F divide the first n positions.
Tiles(U, F, n) ==
  /\ F \subseteq Extent /\ n \in 0 .. DiskLimit
  /\ \A e, f \in F : e # f => Separate(e, f)
  /\ \A p \in U : p \in 0 .. n - 1 /\ \A e \in F : p \notin Inside(e)
  /\ \A e \in F : End(e) <= n
  /\ \A p \in 0 .. n - 1 : p \in U \/ \E e \in F : p \in Inside(e)
  /\ \A e \in F : End(e) # n /\ \A f \in F : End(e) # f.offset

-----------------------------------------------------------------------------
(* ReleaseExtent *)

\* The neighbours are the extents that touch, and there is at most one on each side.
LEMMA Neighbours ==
  ASSUME NEW U, NEW F, NEW n, NEW x \in Extent, Tiles(U \cup Inside(x), F, n)
  PROVE  /\ \A f : f \in Left(F, x) <=> f \in F /\ End(f) = x.offset
         /\ \A f : f \in Right(F, x) <=> f \in F /\ f.offset = End(x)
         /\ \A f, g \in Left(F, x) : f = g
         /\ \A f, g \in Right(F, x) : f = g
<1> USE DiskAssumption DEF Extent, End
<1>1. /\ F \subseteq Extent
      /\ \A e, f \in F : e # f => Separate(e, f)
  BY DEF Tiles
<1>2. ASSUME NEW f \in F
      PROVE  End(f) <= x.offset \/ End(x) <= f.offset
  <2>1. \A p \in Inside(x) : p \notin Inside(f)
    BY DEF Tiles
  <2>2. x.offset \in Inside(x) /\ f.offset \in Inside(f)
    BY <1>1 DEF Inside
  <2>3. x.offset \notin Inside(f) /\ f.offset \notin Inside(x)
    BY <2>1, <2>2
  <2> QED
    BY <1>1, <2>3 DEF Inside
<1>3. \A f : f \in Left(F, x) <=> f \in F /\ End(f) = x.offset
  BY <1>1 DEF Left, Below, Separate
<1>4. \A f : f \in Right(F, x) <=> f \in F /\ f.offset = End(x)
  BY <1>1, <1>2 DEF Right, From
<1>5. \A f, g \in F : End(f) = x.offset /\ End(g) = x.offset => f = g
  BY <1>1 DEF Separate
<1>6. \A f, g \in F : f.offset = End(x) /\ g.offset = End(x) => f = g
  BY <1>1 DEF Separate
<1> QED
  BY <1>3, <1>4, <1>5, <1>6

\* An extent merged with its neighbours covers what they covered.
LEMMA MergedExtent ==
  ASSUME NEW U, NEW F, NEW n, NEW x \in Extent, End(x) <= n, Tiles(U \cup Inside(x), F, n)
  PROVE  LET m == Merged(F, x)
             lost == Left(F, x) \cup Right(F, x)
         IN /\ m \in Extent /\ End(m) <= n
            /\ \A p \in Nat : p \in Inside(m) <=>
                 p \in Inside(x) \/ \E f \in lost : p \in Inside(f)
            /\ \A f \in F \ lost : /\ End(f) # m.offset /\ End(m) # f.offset
                                   /\ Separate(f, m)
<1> DEFINE m == Merged(F, x)
           lost == Left(F, x) \cup Right(F, x)
           lo == m.offset
           hi == End(m)
<1>1. /\ F \subseteq Extent /\ n \in 0 .. DiskLimit
      /\ \A e, f \in F : e # f => Separate(e, f)
      /\ \A e \in F : End(e) <= n /\ End(e) # n /\ \A f \in F : End(e) # f.offset
  BY DEF Tiles
<1>2. /\ \A f : f \in Left(F, x) <=> f \in F /\ End(f) = x.offset
      /\ \A f : f \in Right(F, x) <=> f \in F /\ f.offset = End(x)
      /\ \A f, g \in Left(F, x) : f = g
      /\ \A f, g \in Right(F, x) : f = g
  BY Neighbours, ZenonT(60)
<1>3. ASSUME NEW f \in F
      PROVE  End(f) <= x.offset \/ End(x) <= f.offset
  <2>1. \A p \in Inside(x) : p \notin Inside(f)
    BY DEF Tiles
  <2>2. x.offset \in Inside(x) /\ f.offset \in Inside(f)
    BY <1>1, DiskAssumption DEF Inside, Extent, End
  <2>3. x.offset \notin Inside(f) /\ f.offset \notin Inside(x)
    BY <2>1, <2>2
  <2> QED
    BY <1>1, <2>3, DiskAssumption DEF Inside, Extent, End
<1>4. \/ Left(F, x) = {} /\ lo = x.offset
      \/ \E l \in F : Left(F, x) = {l} /\ lo = l.offset /\ End(l) = x.offset
  <2>1. CASE Left(F, x) = {}
    BY <2>1 DEF Merged
  <2>2. CASE Left(F, x) # {}
    <3>1. PICK l \in Left(F, x) : l = CHOOSE f \in Left(F, x) : TRUE
      BY <2>2
    <3>2. Left(F, x) = {l} /\ l \in F /\ End(l) = x.offset
      BY <1>2, <3>1
    <3>3. lo = l.offset
      BY <2>2, <3>1 DEF Merged
    <3> QED
      BY <3>2, <3>3
  <2> QED
    BY <2>1, <2>2
<1>5. \/ Right(F, x) = {} /\ hi = End(x)
      \/ \E r \in F : Right(F, x) = {r} /\ hi = End(r) /\ r.offset = End(x)
  <2>1. m.bytes = x.bytes + (x.offset - lo) + (IF Right(F, x) = {} THEN 0
                              ELSE (CHOOSE f \in Right(F, x) : TRUE).bytes)
    <3>1. CASE Left(F, x) = {}
      BY <3>1, DiskAssumption DEF Merged, Extent
    <3>2. ASSUME NEW l \in F, Left(F, x) = {l}, End(l) = x.offset
          PROVE  x.offset - l.offset = l.bytes /\ (CHOOSE f \in Left(F, x) : TRUE) = l
      BY <1>1, <3>2, DiskAssumption DEF Extent, End
    <3> QED
      BY <1>4, <3>1, <3>2 DEF Merged
  <2>2. lo \in Nat /\ x.offset \in Nat /\ x.bytes \in Nat
    BY <1>1, <1>4, DiskAssumption DEF Extent
  <2>3. CASE Right(F, x) = {}
    BY <2>1, <2>2, <2>3 DEF End
  <2>4. CASE Right(F, x) # {}
    <3>1. PICK r \in Right(F, x) : r = CHOOSE f \in Right(F, x) : TRUE
      BY <2>4
    <3>2. Right(F, x) = {r} /\ r \in F /\ r.offset = End(x)
      BY <1>2, <3>1
    <3>3. m.bytes = x.bytes + (x.offset - lo) + r.bytes
      BY <2>1, <2>4, <3>1
    <3>4. r.bytes \in Nat
      BY <1>1, <3>2, DiskAssumption DEF Extent
    <3>5. hi = End(r)
      BY <2>2, <3>2, <3>3, <3>4 DEF End
    <3> QED
      BY <3>2, <3>5
  <2> QED
    BY <2>3, <2>4
<1>6. lo \in 0 .. DiskLimit /\ hi \in 0 .. n /\ lo <= x.offset /\ End(x) <= hi
  BY <1>1, <1>4, <1>5, DiskAssumption DEF Extent, End
<1>7. m \in Extent
  <2>1. m = [offset |-> lo, bytes |-> m.bytes]
    BY DEF Merged
  <2>2. m.bytes \in Int /\ hi = lo + m.bytes
    <3>1. m.bytes \in Int
      <4>1. \A f \in F : f.bytes \in Int
        BY <1>1, DiskAssumption DEF Extent
      <4>2. x.bytes \in Int
        BY DiskAssumption DEF Extent
      <4>3. Left(F, x) # {} => (CHOOSE f \in Left(F, x) : TRUE).bytes \in Int
        BY <1>2, <4>1
      <4>4. Right(F, x) # {} => (CHOOSE f \in Right(F, x) : TRUE).bytes \in Int
        BY <1>2, <4>1
      <4> QED
        BY <4>2, <4>3, <4>4 DEF Merged
    <3> QED
      BY <3>1 DEF End
  <2>3. m.bytes \in 1 .. DiskLimit
    BY <1>1, <1>6, <2>2, DiskAssumption DEF Extent, End
  <2> QED
    BY <1>6, <2>1, <2>3 DEF Extent
<1> HIDE DEF m, lost
<1>8. ASSUME NEW p \in Nat
      PROVE  p \in Inside(m) <=>
               p \in Inside(x) \/ \E f \in Left(F, x) \cup Right(F, x) : p \in Inside(f)
  BY <1>1, <1>4, <1>5, <1>6, <1>7, DiskAssumption DEF Inside, End, Extent
<1>9. ASSUME NEW f \in F \ (Left(F, x) \cup Right(F, x))
      PROVE  End(f) # lo /\ hi # f.offset /\ Separate(f, m)
  <2>1. End(f) # x.offset /\ f.offset # End(x)
    BY <1>2
  <2>2. End(f) # lo /\ hi # f.offset
    BY <1>1, <1>4, <1>5, <2>1
  <2>3. Separate(f, m)
    <3>1. ASSUME NEW e \in F, e # f
          PROVE  Separate(f, e)
      BY <1>1, <3>1 DEF Separate
    <3>2. CASE End(f) <= x.offset
      <4>1. CASE lo = x.offset
        BY <3>2, <4>1 DEF Separate
      <4>2. ASSUME NEW l \in F, lo = l.offset, End(l) = x.offset
            PROVE  End(f) <= lo
        BY <1>1, <2>1, <3>1, <3>2, <4>2, DiskAssumption DEF Separate, Extent, End
      <4> QED
        BY <1>4, <4>1, <4>2 DEF Separate
    <3>3. CASE End(x) <= f.offset
      <4>1. CASE hi = End(x)
        BY <3>3, <4>1 DEF Separate
      <4>2. ASSUME NEW r \in F, hi = End(r), r.offset = End(x)
            PROVE  hi <= f.offset
        BY <1>1, <2>1, <3>1, <3>3, <4>2, DiskAssumption DEF Separate, Extent, End
      <4> QED
        BY <1>5, <4>1, <4>2 DEF Separate
    <3> QED
      BY <1>3, <3>2, <3>3
  <2> QED
    BY <2>2, <2>3
<1> QED
  BY <1>6, <1>7, <1>8, <1>9 DEF m, lost

\* What is released becomes free, merged with its neighbours, or ends the store.
LEMMA ReleaseTiles ==
  ASSUME NEW U, NEW F, NEW n, NEW x \in Extent, Inside(x) \cap U = {},
         Tiles(U \cup Inside(x), F, n)
  PROVE  LET after == ReleaseExtent(F, n, x) IN Tiles(U, after.free, after.storeLen)
<1> DEFINE m == Merged(F, x)
           O == F \ (Left(F, x) \cup Right(F, x))
<1>1. /\ F \subseteq Extent /\ n \in 0 .. DiskLimit
      /\ \A e, f \in F : e # f => Separate(e, f)
      /\ \A p \in U : p \in 0 .. n - 1 /\ \A e \in F : p \notin Inside(e)
      /\ \A p \in 0 .. n - 1 : p \in U \/ p \in Inside(x) \/ \E e \in F : p \in Inside(e)
      /\ \A e \in F : End(e) <= n /\ End(e) # n /\ \A f \in F : End(e) # f.offset
      /\ \A p \in Inside(x) : p \in 0 .. n - 1
  BY DEF Tiles
<1>2. End(x) <= n
  <2>1. End(x) - 1 \in Inside(x)
    BY DiskAssumption DEF Inside, Extent, End
  <2> QED
    BY <1>1, <2>1, DiskAssumption DEF Extent, End
<1>3. /\ m \in Extent /\ End(m) <= n
      /\ \A p \in Nat : p \in Inside(m) <=>
           p \in Inside(x) \/ \E f \in Left(F, x) \cup Right(F, x) : p \in Inside(f)
      /\ \A f \in O : End(f) # m.offset /\ End(m) # f.offset /\ Separate(f, m)
  BY <1>2, MergedExtent
<1>4. Left(F, x) \subseteq F /\ Right(F, x) \subseteq F /\ O \subseteq F
  BY DEF Left, Right, Below, From
<1>5. \A p \in U : p \notin Inside(m)
  BY <1>1, <1>3, <1>4
<1>6. \A p \in 0 .. n - 1 : p \in U \/ p \in Inside(m) \/ \E e \in O : p \in Inside(e)
  BY <1>1, <1>3, <1>4
<1> HIDE DEF m, O
<1>7. CASE End(m) = n
  <2>1. ReleaseExtent(F, n, x) = [free |-> O, storeLen |-> m.offset]
    BY <1>7 DEF ReleaseExtent, Unmerged, m, O
  <2>2. m.offset \in 0 .. DiskLimit /\ m.offset <= n
    BY <1>1, <1>3, DiskAssumption DEF Extent, End
  <2>3. \A p \in 0 .. n - 1 : p \in Inside(m) <=> p >= m.offset
    BY <1>1, <1>3, <1>7, DiskAssumption DEF Inside, Extent
  <2>4. \A e \in O : End(e) <= m.offset
    BY <1>1, <1>3, <1>4, <1>7, DiskAssumption DEF Separate, Extent, End
  <2>5. Tiles(U, O, m.offset)
    <3>1. \A p \in U : p \in 0 .. m.offset - 1 /\ \A e \in O : p \notin Inside(e)
      BY <1>1, <1>4, <1>5, <2>2, <2>3, DiskAssumption
    <3>2. \A p \in 0 .. m.offset - 1 : p \in U \/ \E e \in O : p \in Inside(e)
      BY <1>1, <1>6, <2>2, <2>3, DiskAssumption
    <3>3. \A e \in O : End(e) # m.offset /\ \A f \in O : End(e) # f.offset
      BY <1>1, <1>3, <1>4
    <3> QED
      BY <1>1, <1>4, <2>2, <2>4, <3>1, <3>2, <3>3 DEF Tiles
  <2> QED
    BY <2>1, <2>5
<1>8. CASE End(m) # n
  <2>1. ReleaseExtent(F, n, x) = [free |-> O \cup {m}, storeLen |-> n]
    BY <1>8 DEF ReleaseExtent, Unmerged, m, O
  <2>2. \A e, f \in O \cup {m} : e # f => Separate(e, f)
    BY <1>1, <1>3, <1>4 DEF Separate
  <2>3. End(m) # m.offset
    BY <1>3, DiskAssumption DEF Extent, End
  <2>4. Tiles(U, O \cup {m}, n)
    <3>1. \A p \in U : p \in 0 .. n - 1 /\ \A e \in O \cup {m} : p \notin Inside(e)
      BY <1>1, <1>4, <1>5
    <3>2. \A p \in 0 .. n - 1 : p \in U \/ \E e \in O \cup {m} : p \in Inside(e)
      BY <1>6
    <3>3. \A e \in O \cup {m} : /\ End(e) <= n /\ End(e) # n
                                /\ \A f \in O \cup {m} : End(e) # f.offset
      BY <1>1, <1>3, <1>4, <1>8, <2>3
    <3> QED
      BY <1>1, <1>3, <1>4, <2>2, <3>1, <3>2, <3>3 DEF Tiles
  <2> QED
    BY <2>1, <2>4
<1> QED
  BY <1>7, <1>8

-----------------------------------------------------------------------------
(* Placement *)

\* A record is placed where nothing is, and the rest stays divided.
LEMMA PlacementTiles ==
  ASSUME NEW U, Tiles(U, free, storeLen), NEW size \in Nat \ {0}, NEW place \in Placements(size)
  PROVE  LET x == [offset |-> place.offset, bytes |-> size]
         IN /\ x \in Extent /\ Inside(x) \cap U = {}
            /\ Tiles(U \cup Inside(x), place.free, place.storeLen)
<1> DEFINE x == [offset |-> place.offset, bytes |-> size]
<1>1. /\ free \subseteq Extent /\ storeLen \in 0 .. DiskLimit
      /\ \A e, f \in free : e # f => Separate(e, f)
      /\ \A p \in U : p \in 0 .. storeLen - 1 /\ \A e \in free : p \notin Inside(e)
      /\ \A e \in free : End(e) <= storeLen
      /\ \A p \in 0 .. storeLen - 1 : p \in U \/ \E e \in free : p \in Inside(e)
      /\ \A e \in free : End(e) # storeLen /\ \A f \in free : End(e) # f.offset
  BY DEF Tiles
<1>2. x.offset = place.offset /\ x.bytes = size
  OBVIOUS
<1>3. ASSUME NEW e \in free, e.bytes >= size, place.offset = e.offset,
             place.free = (free \ {e}) \cup Rest(e, size), place.storeLen = storeLen
      PROVE  /\ x \in Extent /\ Inside(x) \cap U = {}
             /\ Tiles(U \cup Inside(x), place.free, place.storeLen)
  <2> USE DiskAssumption
  <2>0. e.offset \in 0 .. DiskLimit /\ e.bytes \in 1 .. DiskLimit
    BY <1>1 DEF Extent
  <2>1. x \in Extent /\ \A p : p \in Inside(x) <=> p \in e.offset .. e.offset + size - 1
    BY <1>3, <2>0 DEF Extent, Inside, End
  <2>2. \A p \in Inside(x) : p \in Inside(e) /\ p \in 0 .. storeLen - 1
    BY <1>1, <1>3, <2>0, <2>1 DEF Inside, End
  <2>3. Inside(x) \cap U = {}
    BY <1>1, <2>2
  <2> DEFINE r == [offset |-> e.offset + size, bytes |-> e.bytes - size]
  <2>4. CASE e.bytes = size
    <3>1. place.free = free \ {e}
      BY <1>3, <2>0, <2>4 DEF Rest
    <3>2. \A p : p \in Inside(x) <=> p \in Inside(e)
      BY <1>3, <2>0, <2>1, <2>4 DEF Inside, End
    <3>3. \A f \in free \ {e}, p \in Inside(e) : p \notin Inside(f)
      BY <1>1 DEF Separate, Inside, Extent, End
    <3>4. \A p \in U \cup Inside(x) :
            p \in 0 .. storeLen - 1 /\ \A f \in place.free : p \notin Inside(f)
      BY <1>1, <2>2, <3>1, <3>2, <3>3
    <3>5. \A p \in 0 .. storeLen - 1 :
            p \in U \cup Inside(x) \/ \E f \in place.free : p \in Inside(f)
      BY <1>1, <3>1, <3>2
    <3>6. Tiles(U \cup Inside(x), free \ {e}, storeLen)
      BY <1>1, <3>1, <3>4, <3>5 DEF Tiles
    <3> QED
      BY <1>3, <2>1, <2>3, <3>1, <3>6
  <2>5. CASE e.bytes > size
    <3>1. place.free = (free \ {e}) \cup {r}
      BY <1>3, <2>5 DEF Rest
    <3>2. r \in Extent /\ End(r) = End(e) /\ r.offset = e.offset + size
      <4>1. e.offset + size \in 0 .. DiskLimit /\ e.bytes - size \in 1 .. DiskLimit
        BY <1>1, <2>0, <2>5 DEF End
      <4> QED
        BY <2>0, <4>1 DEF Extent, End
    <3> HIDE DEF r
    <3>3. \A p : p \in Inside(e) <=> p \in Inside(x) \/ p \in Inside(r)
      BY <1>3, <2>0, <2>1, <2>5, <3>2 DEF Inside, End
    <3>4. \A p \in Inside(x) : p \notin Inside(r)
      BY <2>0, <2>1, <3>2 DEF Inside, End
    <3>5. \A f \in free \ {e}, p \in Inside(e) : p \notin Inside(f)
      BY <1>1 DEF Separate, Inside, Extent, End
    <3>6. ASSUME NEW p \in U \cup Inside(x)
          PROVE  p \in 0 .. storeLen - 1 /\ \A f \in place.free : p \notin Inside(f)
      <4>1. p \in 0 .. storeLen - 1
        BY <1>1, <2>2
      <4>2. p \notin Inside(r)
        BY <1>1, <3>3, <3>4
      <4>3. \A f \in free \ {e} : p \notin Inside(f)
        BY <1>1, <3>3, <3>5
      <4> QED
        BY <3>1, <4>1, <4>2, <4>3
    <3>7. \A p \in 0 .. storeLen - 1 :
            p \in U \cup Inside(x) \/ \E f \in place.free : p \in Inside(f)
      BY <1>1, <3>1, <3>3
    <3>8. \A f \in free \ {e} : Separate(f, r) /\ Separate(r, f) /\ End(f) # r.offset
      BY <1>1, <1>3, <2>0, <2>5, <3>2 DEF Separate, Extent, End
    <3>9. \A f \in free \ {e} : End(r) # f.offset
      BY <1>1, <3>2
    <3>10. End(r) # storeLen /\ End(r) # r.offset /\ End(r) <= storeLen
      BY <1>1, <2>0, <2>5, <3>2 DEF End
    <3>11. \A f, g \in place.free : f # g => Separate(f, g)
      BY <1>1, <3>1, <3>8
    <3>12. \A f \in place.free : /\ End(f) <= storeLen /\ End(f) # storeLen
                                /\ \A g \in place.free : End(f) # g.offset
      BY <1>1, <3>1, <3>8, <3>9, <3>10
    <3>13. Tiles(U \cup Inside(x), place.free, storeLen)
      BY <1>1, <3>1, <3>2, <3>6, <3>7, <3>11, <3>12 DEF Tiles
    <3> QED
      BY <1>3, <2>1, <2>3, <3>13
  <2> QED
    BY <1>3, <2>0, <2>4, <2>5
<1>4. ASSUME storeLen + size <= DiskLimit, place.offset = storeLen, place.free = free,
             place.storeLen = storeLen + size
      PROVE  /\ x \in Extent /\ Inside(x) \cap U = {}
             /\ Tiles(U \cup Inside(x), place.free, place.storeLen)
  <2> USE DiskAssumption
  <2>1. x \in Extent /\ \A p : p \in Inside(x) <=> p \in storeLen .. storeLen + size - 1
    BY <1>1, <1>4 DEF Extent, Inside, End
  <2>2. Inside(x) \cap U = {}
    BY <1>1, <2>1
  <2>3. \A e \in free, p \in Inside(x) : p \notin Inside(e)
    BY <1>1, <2>1 DEF Inside, Extent, End
  <2>4. \A p \in U \cup Inside(x) :
          p \in 0 .. storeLen + size - 1 /\ \A f \in free : p \notin Inside(f)
    BY <1>1, <2>1, <2>3
  <2>5. \A p \in 0 .. storeLen + size - 1 :
          p \in U \cup Inside(x) \/ \E f \in free : p \in Inside(f)
    BY <1>1, <2>1
  <2>6. \A e \in free : End(e) <= storeLen + size /\ End(e) # storeLen + size
    BY <1>1 DEF Extent, End
  <2>7. storeLen + size \in 0 .. DiskLimit
    BY <1>1, <1>4
  <2>8. Tiles(U \cup Inside(x), free, storeLen + size)
    BY <1>1, <2>4, <2>5, <2>6, <2>7 DEF Tiles
  <2> QED
    BY <1>4, <2>1, <2>2, <2>8
<1>5. CASE Fitting(size) # {}
  <2>1. PICK e \in Fitting(size) :
          place = [offset |-> e.offset, free |-> (free \ {e}) \cup Rest(e, size),
                   storeLen |-> storeLen]
    BY <1>5 DEF Placements
  <2>2. e \in free /\ e.bytes >= size
    BY <2>1 DEF Fitting
  <2> QED
    BY <1>3, <2>1, <2>2
<1>6. CASE Fitting(size) = {}
  BY <1>4, <1>6 DEF Placements
<1> QED
  BY <1>5, <1>6

-----------------------------------------------------------------------------
(* The invariant *)

Bare == \A k \in Keys \ Present : entries[k].bytes = 0

DInv == DiskTypeOK /\ Tiled /\ StoreAccounted /\ RecordsIntact /\ Bare

\* The positions of all records.
Owned == UNION {Inside(entries[k]) : k \in Stored}

RecordsApart ==
  \A k, l \in Stored : k # l => Inside(entries[k]) \cap Inside(entries[l]) = {}

LEMMA TiledAsTiles ==
  ASSUME DiskTypeOK
  PROVE  Tiled <=> RecordsApart /\ Tiles(Owned, free, storeLen)
<1> USE DiskAssumption
<1>1. /\ free \subseteq Extent /\ storeLen \in 0 .. DiskLimit
      /\ \A e \in free : /\ e.offset \in 0 .. DiskLimit /\ e.bytes \in 1 .. DiskLimit
                         /\ End(e) \in Nat /\ End(e) - 1 \in Inside(e) /\ e.offset \in Inside(e)
  BY DEF DiskTypeOK, Extent, End, Inside
<1>2. \A p : p \in Owned <=> \E k \in Stored : p \in Inside(entries[k])
  BY DEF Owned
<1>3. Covered <=> \A p : p \in 0 .. storeLen - 1 <=> p \in Owned \/ \E e \in free : p \in Inside(e)
  <2> DEFINE Gaps == UNION { Inside(e) : e \in free }
  <2>1. \A p : p \in Gaps <=> \E e \in free : p \in Inside(e)
    OBVIOUS
  <2>2. Covered <=> Owned \cup Gaps = 0 .. storeLen - 1
    BY Zenon DEF Covered, Owned
  <2> HIDE DEF Gaps
  <2> QED
    BY <2>1, <2>2
<1>4. \A e, f \in free : Separate(e, f) <=> Inside(e) \cap Inside(f) = {}
  <2> SUFFICES ASSUME NEW e \in free, NEW f \in free
               PROVE  Separate(e, f) <=> Inside(e) \cap Inside(f) = {}
    OBVIOUS
  <2>1. Separate(e, f) => Inside(e) \cap Inside(f) = {}
    BY <1>1 DEF Separate, Inside, End
  <2>2. e.offset \notin Inside(f) /\ f.offset \notin Inside(e) => Separate(e, f)
    BY <1>1 DEF Separate, Inside, End
  <2> QED
    BY <1>1, <2>1, <2>2
<1>5. ASSUME Tiled
      PROVE  RecordsApart /\ Tiles(Owned, free, storeLen)
  <2>1. /\ RecordsApart
        /\ \A p \in Owned : p \in 0 .. storeLen - 1 /\ \A e \in free : p \notin Inside(e)
    BY <1>2, <1>3, <1>5 DEF Tiled, Disjoint, RecordsApart
  <2>2. \A e \in free : End(e) <= storeLen
    BY <1>1, <1>3, <1>5 DEF Tiled
  <2>3. \A e, f \in free : e # f => Separate(e, f)
    BY <1>4, <1>5 DEF Tiled, Disjoint
  <2> QED
    BY <1>1, <1>3, <1>5, <2>1, <2>2, <2>3 DEF Tiled, Coalesced, Tiles
<1>6. ASSUME RecordsApart, Tiles(Owned, free, storeLen)
      PROVE  Tiled
  <2>1. /\ \A e, f \in free : e # f => Separate(e, f)
        /\ \A p \in Owned : p \in 0 .. storeLen - 1 /\ \A e \in free : p \notin Inside(e)
        /\ \A e \in free : End(e) <= storeLen
        /\ \A p \in 0 .. storeLen - 1 : p \in Owned \/ \E e \in free : p \in Inside(e)
        /\ Coalesced
    BY <1>6 DEF Tiles, Coalesced
  <2>2. Disjoint
    <3>1. \A k \in Stored, e \in free : Inside(entries[k]) \cap Inside(e) = {}
      BY <1>2, <2>1
    <3>2. \A e, f \in free : e # f => Inside(e) \cap Inside(f) = {}
      BY <1>4, <2>1
    <3>3. \A k, l \in Stored : k # l => Inside(entries[k]) \cap Inside(entries[l]) = {}
      BY <1>6, Zenon DEF RecordsApart
    <3> QED
      BY <3>1, <3>2, <3>3, Zenon DEF Disjoint
  <2>3. \A e \in free : \A p \in Inside(e) : p \in 0 .. storeLen - 1
    BY <1>1, <2>1 DEF Inside
  <2>4. Covered
    BY <1>3, <2>1, <2>3
  <2> QED
    BY <2>1, <2>2, <2>4 DEF Tiled
<1> QED
  BY <1>5, <1>6

\* The record of a class that had none.
LEMMA RecordAdded ==
  ASSUME DiskTypeOK, NEW k \in Keys, entries[k].bytes = 0, NEW r \in Entry,
         entries' = [entries EXCEPT ![k] = r]
  PROVE  /\ r.bytes = 0 => Owned' = Owned /\ (RecordsApart => RecordsApart')
         /\ r.bytes # 0 => /\ Owned' = Owned \cup Inside(r)
                           /\ RecordsApart /\ Inside(r) \cap Owned = {} => RecordsApart'
         /\ Stored' = IF r.bytes = 0 THEN Stored ELSE Stored \cup {k}
         /\ \A l \in Keys \ {k} : entries'[l] = entries[l]
         /\ entries'[k] = r /\ k \notin Stored
<1>1. \A l \in Keys : entries'[l] = IF l = k THEN r ELSE entries[l]
  BY DEF DiskTypeOK
<1>2. Stored' = IF r.bytes = 0 THEN Stored ELSE Stored \cup {k}
  BY <1>1 DEF Stored
<1>3. k \notin Stored /\ \A l \in Stored : entries'[l] = entries[l]
  BY <1>1 DEF Stored
<1>4. CASE r.bytes = 0
  BY <1>1, <1>2, <1>3, <1>4 DEF Owned, RecordsApart
<1>5. CASE r.bytes # 0
  <2>1. \A p : p \in Owned' <=> p \in Inside(r) \/ \E l \in Stored : p \in Inside(entries[l])
    BY <1>1, <1>2, <1>3, <1>5 DEF Owned, Inside, End
  <2>2. \A p : p \in Owned <=> \E l \in Stored : p \in Inside(entries[l])
    BY DEF Owned
  <2>3. ASSUME RecordsApart, Inside(r) \cap Owned = {}
        PROVE  RecordsApart'
    BY <1>1, <1>2, <1>3, <1>5, <2>2, <2>3 DEF RecordsApart, Inside, End
  <2> QED
    BY <1>1, <1>2, <1>3, <1>5, <2>1, <2>2, <2>3
<1> QED
  BY <1>4, <1>5

\* The record of a class whose entry is removed.
LEMMA RecordGone ==
  ASSUME DiskTypeOK, NEW k \in Keys, entries' = [entries EXCEPT ![k] = Absent], RecordsApart
  PROVE  /\ entries[k].bytes = 0 => Owned' = Owned
         /\ entries[k].bytes # 0 => /\ Owned = Owned' \cup Inside(entries[k])
                                    /\ Owned' \cap Inside(entries[k]) = {}
         /\ RecordsApart'
         /\ Stored' = Stored \ {k} /\ Stored' \subseteq Keys
         /\ \A l \in Keys \ {k} : entries'[l] = entries[l]
         /\ entries'[k] = Absent
<1>1. \A l \in Keys : entries'[l] = IF l = k THEN Absent ELSE entries[l]
  BY DEF DiskTypeOK
<1>2. Stored' = Stored \ {k} /\ Stored' \subseteq Keys
  BY <1>1 DEF Stored, Absent
<1>3. \A l \in Stored' : entries'[l] = entries[l]
  BY <1>1, <1>2
<1>4. RecordsApart'
  BY <1>2, <1>3 DEF RecordsApart, Inside, End
<1>5. \A p : p \in Owned' <=> \E l \in Stored \ {k} : p \in Inside(entries[l])
  BY <1>2, <1>3 DEF Owned, Inside, End
<1>6. \A p : p \in Owned <=> \E l \in Stored : p \in Inside(entries[l])
  BY DEF Owned
<1>7. k \in Stored <=> entries[k].bytes # 0
  BY DEF Stored
<1>8. entries[k].bytes = 0 => Owned' = Owned
  BY <1>5, <1>6, <1>7
<1>9. ASSUME entries[k].bytes # 0
      PROVE  Owned = Owned' \cup Inside(entries[k]) /\ Owned' \cap Inside(entries[k]) = {}
  <2>1. Owned = Owned' \cup Inside(entries[k])
    BY <1>5, <1>6, <1>7, <1>9
  <2>2. \A l \in Stored \ {k} : Inside(entries[l]) \cap Inside(entries[k]) = {}
    BY <1>7, <1>9 DEF RecordsApart
  <2> QED
    BY <1>5, <2>1, <2>2
<1> QED
  BY <1>1, <1>2, <1>4, <1>8, <1>9

BytesOf == [k \in Keys |-> entries[k].bytes]
MetadataOf == [k \in Keys |-> entries[k].metadata]

\* What a new entry of a class does to the sums.
LEMMA SumsUpdate ==
  ASSUME DiskTypeOK, NEW k \in Keys, NEW r \in Entry, entries' = [entries EXCEPT ![k] = r]
  PROVE  /\ Total(BytesOf') = Total(BytesOf) - entries[k].bytes + r.bytes
         /\ Total(MetadataOf') = Total(MetadataOf) - entries[k].metadata + r.metadata
         /\ Total(BytesOf) \in Nat /\ entries[k].bytes \in Nat /\ r.bytes \in Nat
         /\ Total(MetadataOf) \in Nat /\ entries[k].metadata \in Nat /\ r.metadata \in Nat
         /\ entries[k].bytes <= Total(BytesOf) /\ entries[k].metadata <= Total(MetadataOf)
<1>1. /\ BytesOf \in [Keys -> Nat] /\ MetadataOf \in [Keys -> Nat] /\ IsFiniteSet(Keys)
      /\ r.bytes \in Nat /\ r.metadata \in Nat
      /\ BytesOf[k] = entries[k].bytes /\ MetadataOf[k] = entries[k].metadata
  BY DiskAssumption DEF DiskTypeOK, Entry, BytesOf, MetadataOf
<1>2. /\ BytesOf' = [BytesOf EXCEPT ![k] = r.bytes]
      /\ MetadataOf' = [MetadataOf EXCEPT ![k] = r.metadata]
  BY DEF DiskTypeOK, BytesOf, MetadataOf
<1>3. Total([BytesOf EXCEPT ![k] = r.bytes]) = Total(BytesOf) - BytesOf[k] + r.bytes
  BY <1>1, TotalUpdate, Zenon
<1>4. Total([MetadataOf EXCEPT ![k] = r.metadata]) = Total(MetadataOf) - MetadataOf[k] + r.metadata
  BY <1>1, TotalUpdate, Zenon
<1>5. Total(BytesOf) \in Nat /\ Total(MetadataOf) \in Nat
  BY <1>1, TotalType, Zenon
<1>6. BytesOf[k] <= Total(BytesOf) /\ MetadataOf[k] <= Total(MetadataOf)
  BY <1>1, EntryWithinTotal, Zenon
<1>7. BytesOf[k] \in Nat /\ MetadataOf[k] \in Nat
  BY <1>1
<1> HIDE DEF BytesOf, MetadataOf
<1> QED
  BY <1>1, <1>2, <1>3, <1>4, <1>5, <1>6, <1>7

\* Records that stay where they are can be loaded if their positions are not written.
LEMMA StaysIntact ==
  ASSUME RecordsIntact, damaged' = damaged,
         \A l \in Stored' :
           \/ /\ l \in Stored /\ entries'[l] = entries[l]
              /\ \A p \in Inside(entries[l]) : cells'[p] = cells[p]
           \/ Readable(l)'
  PROVE  RecordsIntact'
BY DEF RecordsIntact, Readable, Inside

\* What every insertion does to the entries and their metadata.
LEMMA EntryInserted ==
  ASSUME DInv, NEW k \in Keys, NEW filter \in FilterSizes, Admitted(k, filter),
         NEW r \in Entry, r.metadata = NewEntry(filter).metadata,
         entries' = [entries EXCEPT ![k] = r],
         metadata' = metadata + NewEntry(filter).metadata
  PROVE  /\ entries' \in [Keys -> Entry] /\ Bare'
         /\ entries[k].bytes = 0
         /\ metadata' \in Nat /\ metadata' = Total(MetadataOf') /\ metadata' <= MetaLimit
         /\ Total(BytesOf') = bytes + r.bytes
<1>1. DiskTypeOK /\ bytes = Total(BytesOf) /\ metadata = Total(MetadataOf)
  BY DEF DInv, StoreAccounted, BytesOf, MetadataOf
<1>2. entries[k].bytes = 0 /\ entries[k].metadata = 0
  BY DEF Admitted, Present, DInv, Bare
<1>3. r.metadata = BaseMetadata + Filter(filter) /\ r.metadata # 0 /\ Filter(filter) \in Nat
  <2>1. Filter(filter) \in Nat
    BY DiskAssumption DEF Filter
  <2> QED
    BY <2>1, DiskAssumption DEF NewEntry
<1>4. Bare'
  BY <1>1, <1>3 DEF DInv, Bare, Present, DiskTypeOK
<1>5. entries' \in [Keys -> Entry]
  BY <1>1 DEF DiskTypeOK
<1>6. /\ Total(BytesOf') = Total(BytesOf) - entries[k].bytes + r.bytes
      /\ Total(MetadataOf') = Total(MetadataOf) - entries[k].metadata + r.metadata
      /\ Total(BytesOf) \in Nat /\ Total(MetadataOf) \in Nat
      /\ r.bytes \in Nat /\ r.metadata \in Nat
  BY <1>1, SumsUpdate
<1>7. metadata' <= MetaLimit
  BY <1>1, <1>3, <1>6, DiskAssumption DEF Admitted
<1> QED
  BY <1>1, <1>2, <1>3, <1>4, <1>5, <1>6, <1>7

LEMMA EntryTyped ==
  ASSUME NEW filter \in FilterSizes
  PROVE  NewEntry(filter) \in Entry /\ NewEntry(filter).bytes = 0
<1>1. BaseMetadata + Filter(filter) \in Nat /\ (Filter(filter) > 0) \in BOOLEAN
  <2>1. Filter(filter) \in Nat
    BY DiskAssumption DEF Filter
  <2> QED
    BY <2>1, DiskAssumption
<1>2. 0 \in 0 .. DiskLimit
  BY DiskAssumption
<1> QED
  BY <1>1, <1>2, Zenon DEF NewEntry, Entry

\* What is left to show once the entries are accounted for.
LEMMA Assembled ==
  ASSUME DiskTypeOK', RecordsApart', Tiles(Owned', free', storeLen'),
         bytes' = Total(BytesOf'), bytes' <= DiskLimit,
         metadata' = Total(MetadataOf'), metadata' <= MetaLimit,
         RecordsIntact', Bare'
  PROVE  DInv'
<1>1. (Tiled <=> RecordsApart /\ Tiles(Owned, free, storeLen))'
  BY TiledAsTiles, PTL
<1>0. storeLen' <= DiskLimit
  BY DiskAssumption DEF DiskTypeOK
<1>2. StoreAccounted'
  BY <1>0 DEF StoreAccounted, BytesOf, MetadataOf
<1>3. (Tiles(Owned, free, storeLen))'
  BY DEF Tiles, Separate, Inside, End, Extent
<1> QED
  BY <1>1, <1>2, <1>3 DEF DInv

LEMMA InsertFilterInv ==
  ASSUME DInv, NEW k \in Keys, NEW filter \in FilterSizes, NEW record \in RecordSizes,
         InsertFilter(k, filter, record)
  PROVE  DInv'
<1>1. DiskTypeOK /\ RecordsApart /\ Tiles(Owned, free, storeLen)
  BY TiledAsTiles DEF DInv
<1>2. NewEntry(filter) \in Entry /\ NewEntry(filter).bytes = 0
  BY EntryTyped
<1>3. /\ entries' \in [Keys -> Entry] /\ Bare'
      /\ entries[k].bytes = 0
      /\ metadata' \in Nat /\ metadata' = Total(MetadataOf') /\ metadata' <= MetaLimit
      /\ Total(BytesOf') = bytes + 0
  BY <1>2, EntryInserted DEF InsertFilter
<1>4. /\ Owned' = Owned /\ RecordsApart' /\ Stored' = Stored /\ k \notin Stored
      /\ \A l \in Keys \ {k} : entries'[l] = entries[l]
  BY <1>1, <1>2, <1>3, RecordAdded DEF InsertFilter
<1>5. UNCHANGED <<free, storeLen, bytes, opened, cells, damaged>>
  BY DEF InsertFilter
<1>6. RecordsIntact'
  BY <1>4, <1>5, StaysIntact DEF DInv, Stored
<1>7. bytes' = Total(BytesOf') /\ bytes' <= DiskLimit
  BY <1>1, <1>3, <1>5 DEF DiskTypeOK, DInv, StoreAccounted
<1>8. DiskTypeOK'
  BY <1>1, <1>3, <1>5 DEF DiskTypeOK
<1> QED
  BY <1>1, <1>3, <1>4, <1>5, <1>6, <1>7, <1>8, Assembled

LEMMA InsertInv ==
  ASSUME DInv, NEW k \in Keys, NEW filter \in FilterSizes, NEW record \in RecordSizes,
         Insert(k, filter, record)
  PROVE  DInv'
<1>1. DiskTypeOK /\ RecordsApart /\ Tiles(Owned, free, storeLen)
  BY TiledAsTiles DEF DInv
<1>2. PICK place \in Placements(record) :
        /\ entries' = [entries EXCEPT ![k] =
                         [NewEntry(filter) EXCEPT !.offset = place.offset, !.bytes = record]]
        /\ free' = place.free
        /\ storeLen' = place.storeLen
        /\ cells' = Written(k, place.offset, record)
  BY DEF Insert
<1> DEFINE x == [offset |-> place.offset, bytes |-> record]
           r == [NewEntry(filter) EXCEPT !.offset = place.offset, !.bytes = record]
<1>3. record \in Nat \ {0}
  BY DiskAssumption
<1>4. /\ x \in Extent /\ Inside(x) \cap Owned = {}
      /\ Tiles(Owned \cup Inside(x), place.free, place.storeLen)
  BY <1>1, <1>3, PlacementTiles
<1>5. x.offset = place.offset /\ x.bytes = record
  OBVIOUS
<1>6. place.offset \in 0 .. DiskLimit /\ record \in 0 .. DiskLimit
  BY <1>4, <1>5, DiskAssumption DEF Extent
<1>7. /\ r \in Entry /\ r.offset = place.offset /\ r.bytes = record
      /\ r.metadata = NewEntry(filter).metadata
  BY <1>6, EntryTyped DEF Entry
<1>8. Inside(r) = Inside(x)
  BY <1>5, <1>7 DEF Inside, End
<1>9. entries' = [entries EXCEPT ![k] = r]
  BY <1>2
<1> HIDE DEF x, r
<1>10. /\ Admitted(k, filter) /\ Storable(record) /\ bytes' = bytes + record /\ opened' = TRUE
       /\ UNCHANGED damaged /\ metadata' = metadata + NewEntry(filter).metadata
  BY DEF Insert
<1>11. /\ entries' \in [Keys -> Entry] /\ Bare'
       /\ entries[k].bytes = 0
       /\ metadata' \in Nat /\ metadata' = Total(MetadataOf') /\ metadata' <= MetaLimit
       /\ Total(BytesOf') = bytes + r.bytes
  BY <1>7, <1>9, <1>10, EntryInserted
<1>12. /\ Owned' = Owned \cup Inside(x) /\ RecordsApart' /\ Stored' = Stored \cup {k}
       /\ \A l \in Keys \ {k} : entries'[l] = entries[l]
       /\ entries'[k] = r /\ k \notin Stored
  BY <1>1, <1>3, <1>4, <1>7, <1>8, <1>9, <1>11, RecordAdded
<1>13. Tiles(Owned', free', storeLen')
  BY <1>2, <1>4, <1>12
<1>14. \A p \in Owned' : p \in Position
  BY <1>13, DiskAssumption DEF Tiles, Position
<1>15. \A p \in Position : cells'[p] = IF p \in Inside(x) THEN k ELSE cells[p]
  BY <1>2, <1>5, <1>6, DiskAssumption DEF Written, Inside, End
<1>16. RecordsIntact'
  <2>1. ASSUME NEW l \in Stored
        PROVE  /\ entries'[l] = entries[l]
               /\ \A p \in Inside(entries[l]) : cells'[p] = cells[p]
    <3>1. l \in Keys \ {k}
      BY <1>12 DEF Stored
    <3>2. \A p \in Inside(entries[l]) : p \in Owned
      BY DEF Owned
    <3> QED
      BY <1>4, <1>12, <1>14, <1>15, <3>1, <3>2
  <2>2. Readable(k)'
    <3>1. \A p \in Inside(r) : cells'[p] = k
      BY <1>8, <1>12, <1>14, <1>15
    <3> QED
      BY <1>12, <3>1 DEF Readable, Inside, End
  <2> QED
    BY <1>10, <1>12, <2>1, <2>2, StaysIntact DEF DInv
<1>17. bytes' = Total(BytesOf') /\ bytes' <= DiskLimit /\ bytes' \in Nat
  BY <1>1, <1>3, <1>7, <1>10, <1>11 DEF DiskTypeOK, Storable
<1>18. DiskTypeOK'
  <2>1. cells' \in [Position -> Keys \cup {Nobody}]
    BY <1>1, <1>2 DEF Written, DiskTypeOK
  <2>2. free' \subseteq Extent /\ storeLen' \in 0 .. DiskLimit
    BY <1>13 DEF Tiles
  <2> QED
    BY <1>1, <1>10, <1>11, <1>17, <2>1, <2>2 DEF DiskTypeOK
<1> QED
  BY <1>11, <1>12, <1>13, <1>16, <1>17, <1>18, Assembled

\* Cutting the file off does not reach the positions of the store.
LEMMA CutKeeps ==
  ASSUME NEW contents \in [Position -> Keys \cup {Nobody}], NEW length,
         cells' \in Cut(contents, length)
  PROVE  /\ cells' \in [Position -> Keys \cup {Nobody}]
         /\ \A p \in Position : p < length => cells'[p] = contents[p]
BY DEF Cut

LEMMA InsertFailsInv ==
  ASSUME DInv, NEW k \in Keys, NEW filter \in FilterSizes, NEW record \in RecordSizes,
         InsertFails(k, filter, record)
  PROVE  DInv'
<1>1. DiskTypeOK /\ RecordsApart /\ Tiles(Owned, free, storeLen)
  BY TiledAsTiles DEF DInv
<1>2. NewEntry(filter) \in Entry /\ NewEntry(filter).bytes = 0
  BY EntryTyped
<1>3. /\ entries' \in [Keys -> Entry] /\ Bare'
      /\ entries[k].bytes = 0
      /\ metadata' \in Nat /\ metadata' = Total(MetadataOf') /\ metadata' <= MetaLimit
      /\ Total(BytesOf') = bytes + 0
  BY <1>2, EntryInserted DEF InsertFails
<1>4. /\ Owned' = Owned /\ RecordsApart' /\ Stored' = Stored /\ k \notin Stored
      /\ \A l \in Keys \ {k} : entries'[l] = entries[l]
  BY <1>1, <1>2, <1>3, RecordAdded DEF InsertFails
<1>5. PICK place \in Placements(record), n \in 0 .. record - 1 :
        /\ free' = GivenBack(place, record).free
        /\ storeLen' = GivenBack(place, record).storeLen
        /\ cells' \in Cut(Written(k, place.offset, n), storeLen')
  BY DEF InsertFails
<1> DEFINE x == [offset |-> place.offset, bytes |-> record]
           contents == Written(k, place.offset, n)
<1>6. record \in Nat \ {0}
  BY DiskAssumption
<1>7. /\ x \in Extent /\ Inside(x) \cap Owned = {}
      /\ Tiles(Owned \cup Inside(x), place.free, place.storeLen)
  BY <1>1, <1>6, PlacementTiles
<1>8. Tiles(Owned, ReleaseExtent(place.free, place.storeLen, x).free,
            ReleaseExtent(place.free, place.storeLen, x).storeLen)
  BY <1>7, ReleaseTiles
<1>9. Tiles(Owned', free', storeLen')
  BY <1>4, <1>5, <1>8 DEF GivenBack
<1>10. /\ contents \in [Position -> Keys \cup {Nobody}]
       /\ \A p \in Position : p \notin Inside(x) => contents[p] = cells[p]
  <2>1. place.offset \in Nat /\ n \in Nat /\ n <= record
    BY <1>6, <1>7, DiskAssumption DEF Extent
  <2>2. \A p \in place.offset .. place.offset + n - 1 : p \in Inside(x)
    BY <1>6, <2>1 DEF Inside, End
  <2> QED
    BY <1>1, <2>2 DEF Written, DiskTypeOK
<1> HIDE DEF x, contents
<1>11. /\ cells' \in [Position -> Keys \cup {Nobody}]
       /\ \A p \in Position : p < storeLen' => cells'[p] = contents[p]
  BY <1>5, <1>10, CutKeeps DEF contents
<1>12. \A p \in Owned : p \in Position /\ p < storeLen'
  BY <1>4, <1>9, DiskAssumption DEF Tiles, Position
<1>13. UNCHANGED <<bytes, damaged>> /\ opened' = TRUE
  BY DEF InsertFails
<1>14. RecordsIntact'
  <2>1. ASSUME NEW l \in Stored
        PROVE  /\ entries'[l] = entries[l]
               /\ \A p \in Inside(entries[l]) : cells'[p] = cells[p]
    <3>1. l \in Keys \ {k}
      BY <1>4 DEF Stored
    <3>2. \A p \in Inside(entries[l]) : p \in Owned
      BY DEF Owned
    <3> QED
      BY <1>4, <1>7, <1>10, <1>11, <1>12, <3>1, <3>2
  <2> QED
    BY <1>4, <1>13, <2>1, StaysIntact DEF DInv
<1>15. bytes' = Total(BytesOf') /\ bytes' <= DiskLimit
  BY <1>1, <1>3, <1>13 DEF DiskTypeOK, DInv, StoreAccounted
<1>16. DiskTypeOK'
  <2>1. free' \subseteq Extent /\ storeLen' \in 0 .. DiskLimit
    BY <1>9 DEF Tiles
  <2> QED
    BY <1>1, <1>3, <1>11, <1>13, <2>1 DEF DiskTypeOK
<1> QED
  BY <1>3, <1>4, <1>9, <1>14, <1>15, <1>16, Assembled

LEMMA RemoveInv ==
  ASSUME DInv, NEW k \in Keys, Remove(k)
  PROVE  DInv'
<1>1. DiskTypeOK /\ RecordsApart /\ Tiles(Owned, free, storeLen)
  BY TiledAsTiles DEF DInv
<1>2. /\ entries' = [entries EXCEPT ![k] = Absent]
      /\ bytes' = SatSub(bytes, entries[k].bytes)
      /\ metadata' = SatSub(metadata, entries[k].metadata)
      /\ UNCHANGED <<opened, damaged>>
  BY DEF Remove
<1>3. Absent \in Entry /\ Absent.bytes = 0 /\ Absent.metadata = 0
  BY DiskAssumption DEF Absent, Entry
<1>4. /\ bytes' = Total(BytesOf') /\ bytes' \in Nat /\ bytes' <= DiskLimit
      /\ metadata' = Total(MetadataOf') /\ metadata' \in Nat /\ metadata' <= MetaLimit
  <2>1. /\ Total(BytesOf') = Total(BytesOf) - entries[k].bytes + 0
        /\ Total(MetadataOf') = Total(MetadataOf) - entries[k].metadata + 0
        /\ Total(BytesOf) \in Nat /\ entries[k].bytes \in Nat
        /\ Total(MetadataOf) \in Nat /\ entries[k].metadata \in Nat
        /\ entries[k].bytes <= Total(BytesOf) /\ entries[k].metadata <= Total(MetadataOf)
    BY <1>1, <1>2, <1>3, SumsUpdate
  <2>2. /\ bytes = Total(BytesOf) /\ metadata = Total(MetadataOf)
        /\ bytes <= DiskLimit /\ metadata <= MetaLimit
    BY DEF DInv, StoreAccounted, BytesOf, MetadataOf
  <2> QED
    BY <1>2, <2>1, <2>2, DiskAssumption DEF SatSub
<1>5. /\ entries[k].bytes = 0 => Owned' = Owned
      /\ entries[k].bytes # 0 => /\ Owned = Owned' \cup Inside(entries[k])
                                 /\ Owned' \cap Inside(entries[k]) = {}
      /\ RecordsApart'
      /\ Stored' = Stored \ {k} /\ Stored' \subseteq Keys
      /\ \A l \in Keys \ {k} : entries'[l] = entries[l]
      /\ entries'[k] = Absent
  BY <1>1, <1>2, RecordGone
<1>6. Bare'
  BY <1>3, <1>5 DEF DInv, Bare, Present
<1>7. /\ Tiles(Owned', free', storeLen')
      /\ cells' \in [Position -> Keys \cup {Nobody}]
      /\ \A p \in Owned' : cells'[p] = cells[p]
  <2>1. CASE entries[k].bytes = 0
    BY <1>1, <1>5, <2>1 DEF Remove, DiskTypeOK
  <2>2. CASE entries[k].bytes # 0
    <3> DEFINE x == [offset |-> entries[k].offset, bytes |-> entries[k].bytes]
               after == ReleaseExtent(free, storeLen, x)
    <3>1. x \in Extent
      <4>1. entries[k].offset \in 0 .. DiskLimit /\ entries[k].bytes \in 0 .. DiskLimit
        BY <1>1 DEF DiskTypeOK, Entry
      <4>2. entries[k].bytes \in 1 .. DiskLimit
        BY <2>2, <4>1, DiskAssumption
      <4> QED
        BY <4>1, <4>2 DEF Extent
    <3>2. Inside(x) = Inside(entries[k])
      BY DEF Inside, End
    <3>3. Tiles(Owned' \cup Inside(x), free, storeLen) /\ Inside(x) \cap Owned' = {}
      BY <1>1, <1>5, <2>2, <3>2
    <3>4. Tiles(Owned', after.free, after.storeLen)
      BY <3>1, <3>3, ReleaseTiles
    <3>5. free' = after.free /\ storeLen' = after.storeLen /\ cells' \in Cut(cells, storeLen')
      BY <2>2 DEF Remove
    <3>6. /\ cells' \in [Position -> Keys \cup {Nobody}]
          /\ \A p \in Position : p < storeLen' => cells'[p] = cells[p]
      BY <1>1, <3>5, CutKeeps DEF DiskTypeOK
    <3>7. Tiles(Owned', free', storeLen')
      BY <3>4, <3>5
    <3>8. \A p \in Owned' : p \in Position /\ p < storeLen'
      BY <3>7, DiskAssumption DEF Tiles, Position
    <3> QED
      BY <3>6, <3>7, <3>8
  <2> QED
    BY <2>1, <2>2
<1>8. RecordsIntact'
  <2>1. ASSUME NEW l \in Stored'
        PROVE  /\ l \in Stored /\ entries'[l] = entries[l]
               /\ \A p \in Inside(entries[l]) : cells'[p] = cells[p]
    <3>1. l \in Stored /\ entries'[l] = entries[l]
      BY <1>5
    <3>2. \A p \in Inside(entries[l]) : p \in Owned'
      BY <3>1 DEF Owned, Inside, End
    <3> QED
      BY <1>7, <3>1, <3>2
  <2> QED
    BY <1>2, <2>1, StaysIntact DEF DInv
<1>9. DiskTypeOK'
  <2>1. entries' \in [Keys -> Entry]
    BY <1>1, <1>2, <1>3 DEF DiskTypeOK
  <2>2. free' \subseteq Extent /\ storeLen' \in 0 .. DiskLimit
    BY <1>7 DEF Tiles
  <2> QED
    BY <1>1, <1>2, <1>4, <1>7, <2>1, <2>2 DEF DiskTypeOK
<1> QED
  BY <1>4, <1>5, <1>6, <1>7, <1>8, <1>9, Assembled

\* An empty store, as at the start and when another project is opened.
LEMMA EmptyInv ==
  ASSUME entries = [k \in Keys |-> Absent], free = {}, storeLen = 0, bytes = 0, metadata = 0,
         opened = FALSE, damaged = FALSE, cells = [p \in Position |-> Nobody]
  PROVE  DInv
<1>1. Absent \in Entry /\ Absent.bytes = 0 /\ Absent.metadata = 0
  BY DiskAssumption DEF Absent, Entry
<1>2. Stored = {} /\ Bare
  BY <1>1 DEF Stored, Bare
<1>3. Tiled
  BY <1>2, DiskAssumption DEF Tiled, Disjoint, Covered, Coalesced
<1>4. StoreAccounted
  BY <1>1, TotalZero, DiskAssumption DEF StoreAccounted
<1>5. DiskTypeOK
  <2>1. entries \in [Keys -> Entry]
    BY <1>1
  <2>2. cells \in [Position -> Keys \cup {Nobody}]
    BY DEF Position
  <2>3. opened \in BOOLEAN /\ damaged \in BOOLEAN
    BY Zenon
  <2>4. free \subseteq Extent /\ storeLen \in 0 .. DiskLimit /\ bytes \in Nat /\ metadata \in Nat
    BY DiskAssumption
  <2> QED
    BY <2>1, <2>2, <2>3, <2>4, Zenon DEF DiskTypeOK
<1> QED
  BY <1>2, <1>3, <1>4, <1>5 DEF DInv, RecordsIntact

LEMMA DiskInvariance == DiskSpec => []DInv
<1>1. DiskInit => DInv
  BY EmptyInv DEF DiskInit
<1>2. DInv /\ [DiskNext]_diskVars => DInv'
  <2> SUFFICES ASSUME DInv, [DiskNext]_diskVars
               PROVE  DInv'
    OBVIOUS
  <2>1. ASSUME NEW k \in Keys, Remove(k) \/ LoadFails(k)
        PROVE  DInv'
    BY <2>1, RemoveInv DEF LoadFails
  <2>2. CASE Reset
    <3>1. (/\ entries = [k \in Keys |-> Absent] /\ free = {} /\ storeLen = 0
           /\ bytes = 0 /\ metadata = 0 /\ opened = FALSE /\ damaged = FALSE
           /\ cells = [p \in Position |-> Nobody])'
      BY <2>2 DEF Reset
    <3> QED
      BY <3>1, EmptyInv, PTL
  <2>3. CASE Damage
    <3>1. /\ UNCHANGED <<entries, free, storeLen, bytes, metadata, opened>> /\ damaged' = TRUE
          /\ cells' \in [Position -> Keys \cup {Nobody}]
      BY <2>3 DEF Damage, book, DInv, DiskTypeOK
    <3>2. DiskTypeOK' /\ Tiled' /\ StoreAccounted' /\ Bare' /\ RecordsIntact'
      BY <3>1 DEF DInv, DiskTypeOK, Tiled, Disjoint, Covered, Coalesced, Stored, Inside, End,
         StoreAccounted, Bare, Present, RecordsIntact
    <3> QED
      BY <3>2 DEF DInv
  <2>4. CASE UNCHANGED diskVars
    BY <2>4 DEF diskVars, book, DInv, DiskTypeOK, Tiled, Disjoint, Covered, Coalesced, Stored,
       Inside,
       End, StoreAccounted, Bare, Present, RecordsIntact, Readable
  <2> QED
    BY <2>1, <2>2, <2>3, <2>4, InsertFilterInv, InsertInv, InsertFailsInv DEF DiskNext
<1> QED
  BY <1>1, <1>2, PTL DEF DiskSpec

\* The entries, extents and counters keep their types.
THEOREM DiskTypeCorrect == DiskSpec => []DiskTypeOK
BY DiskInvariance, PTL DEF DInv

\* DiskIndex::insert, remove and release divide the file among the records and the free
\* extents, without overlap, leak or split free space, for any sizes and any order.
THEOREM StoreTiled == DiskSpec => []Tiled
BY DiskInvariance, PTL DEF DInv

\* The bytes of the records and the metadata are counted exactly, and they and the file stay
\* within their limits, whatever pieces the free space is in.
THEOREM CountersExact == DiskSpec => []StoreAccounted
BY DiskInvariance, PTL DEF DInv

\* A stored record stays readable whatever is inserted, removed or fails to be written.
THEOREM RecordsStay == DiskSpec => []RecordsIntact
BY DiskInvariance, PTL DEF DInv

-----------------------------------------------------------------------------
(* The index of literals.  The inductive invariant LInv relates the builds to the phase: the
   only build whose thread has not completed is the one whose flag the state holds, and it
   is the current one while the project is indexing, a late one that was told to stop after
   an invalidation, and none otherwise. *)

QueryState == [at : Places, waiter : 0 .. MaxAttempts, outcome : Outcomes]
Unexplained == {"", "LITERAL_INDEX_LIMIT"}
Unfinished == {"building", "built", "limit", "error"}

\* An attempt is waited for only once it was started, and the state holds the flag of the
\* current attempt, unless that was a mere invalidation.
Numbered ==
  /\ \A q \in Queries : query[q].waiter <= attempt
  /\ phase = "idle" => attempt = 0
  /\ phase # "invalidated" => job = attempt

OneUnfinished ==
  /\ phase = "indexing" => attempt # 0 /\ builder[attempt] \in Unfinished
  /\ \A a \in Attempts :
       builder[a] \in Unfinished => a = job /\ (a = attempt => phase = "indexing")
  /\ phase = "invalidated" => flag[job] /\ job < attempt

\* The error says why there is no index.
Reasons ==
  /\ phase = "indexing" => error \in {"", "INDEX_TIMEOUT"}
  /\ phase = "cancelled" => error \in {"INDEX_CANCELLED", "INDEX_TIMEOUT"}
  /\ phase = "failed" => error \in {"LITERAL_INDEX_LIMIT", "INDEX_BUILD_FAILED"}
  /\ phase = "invalidated" => error = "PROJECT_CHANGED"

\* Only a query that has a waiter drops it.
Dropping == \A q \in Queries : query[q].at = "dropping" => query[q].waiter # None

Builds == Numbered /\ OneUnfinished /\ Reasons /\ IndexCurrent
LInv ==
  /\ LiteralTypeOK /\ Builds /\ Dropping
  /\ WaitersCounted /\ StoppedIffUnwanted /\ FailuresExplained

-----------------------------------------------------------------------------
(* Counting waiters *)

WaitingFor(f, n) == {q \in Queries : f[q].waiter # None /\ f[q].waiter = n}

LEMMA WaitingFinite ==
  ASSUME NEW f, NEW n
  PROVE  IsFiniteSet(WaitingFor(f, n)) /\ Cardinality(WaitingFor(f, n)) \in Nat
<1>1. WaitingFor(f, n) \in SUBSET Queries
  BY DEF WaitingFor
<1> QED
  BY <1>1, LiteralAssumption, FS_Subset, FS_CardinalityType

\* Nothing changes for the count if no query gets or drops a waiter.
LEMMA WaitingSame ==
  ASSUME NEW f, NEW g, NEW n, \A q \in Queries : g[q].waiter = f[q].waiter
  PROVE  WaitingFor(g, n) = WaitingFor(f, n)
BY DEF WaitingFor

\* A query that gets a waiter is counted, one that drops it is not counted any more.
LEMMA WaitingChange ==
  ASSUME NEW f, NEW g, NEW n, NEW q \in Queries,
         \A d \in Queries \ {q} : g[d].waiter = f[d].waiter
  PROVE  /\ q \in WaitingFor(g, n) /\ q \notin WaitingFor(f, n)
              => Cardinality(WaitingFor(g, n)) = Cardinality(WaitingFor(f, n)) + 1
         /\ q \notin WaitingFor(g, n) /\ q \in WaitingFor(f, n)
              => Cardinality(WaitingFor(g, n)) = Cardinality(WaitingFor(f, n)) - 1
         /\ (q \in WaitingFor(g, n) <=> q \in WaitingFor(f, n))
              => Cardinality(WaitingFor(g, n)) = Cardinality(WaitingFor(f, n))
<1> DEFINE F == WaitingFor(f, n)
           G == WaitingFor(g, n)
<1>0. \A d \in Queries \ {q} : d \in G <=> d \in F
  BY DEF WaitingFor
<1>1. F \subseteq Queries /\ G \subseteq Queries
  BY DEF WaitingFor
<1>2. IsFiniteSet(F) /\ IsFiniteSet(G)
  BY WaitingFinite
<1> HIDE DEF F, G
<1>3. CASE q \in G /\ q \notin F
  <2>1. G = F \cup {q}
    BY <1>0, <1>1, <1>3
  <2> QED
    BY <1>2, <1>3, <2>1, FS_AddElement DEF F, G
<1>4. CASE q \notin G /\ q \in F
  <2>1. G = F \ {q}
    BY <1>0, <1>1, <1>4
  <2> QED
    BY <1>2, <1>4, <2>1, FS_RemoveElement DEF F, G
<1>5. CASE q \in G <=> q \in F
  <2>1. G = F
    BY <1>0, <1>1, <1>5
  <2> QED
    BY <1>5, <2>1 DEF F, G
<1> QED
  BY <1>3, <1>4, <1>5 DEF F, G

\* A waiter of the current attempt counts.
LEMMA WaiterCounts ==
  ASSUME WaitersCounted, NEW q \in Queries, query[q].waiter # None, query[q].waiter = attempt
  PROVE  waiters \in Nat /\ waiters # 0
<1>1. q \in WaitingFor(query, attempt) /\ waiters = Cardinality(WaitingFor(query, attempt))
  BY DEF WaitingFor, WaitersCounted
<1> QED
  BY <1>1, WaitingFinite, FS_EmptySet

-----------------------------------------------------------------------------
(* Steps of a query that keep its waiter *)

\* No query gets or drops a waiter, nor fails without a reason.
Keeps ==
  /\ query' \in [Queries -> QueryState]
  /\ \A q \in Queries :
       /\ query'[q].waiter = query[q].waiter
       /\ query'[q].outcome \notin Unexplained
       /\ query'[q].at = "dropping" => query'[q].waiter # None

LEMMA StayKeeps ==
  ASSUME LInv, UNCHANGED query
  PROVE  Keeps
BY DEF LInv, LiteralTypeOK, QueryState, Keeps, Dropping, FailuresExplained, Unexplained

LEMMA GoesKeeps ==
  ASSUME LInv, NEW q \in Queries, NEW place \in Places \ {"dropping"}, Goes(q, place)
  PROVE  Keeps
BY DEF LInv, LiteralTypeOK, QueryState, Keeps, Dropping, FailuresExplained, Unexplained, Goes

LEMMA ReturnsKeeps ==
  ASSUME LInv, NEW q \in Queries, Returns(q)
  PROVE  Keeps /\ withdrawn' \subseteq Queries
BY ZenonT(60)
   DEF LInv, LiteralTypeOK, QueryState, Keeps, Dropping, FailuresExplained, Unexplained, Returns,
       Places, Outcomes

LEMMA LeavesKeeps ==
  ASSUME LInv, NEW q \in Queries, NEW outcome \in Outcomes \ Unexplained, Leaves(q, outcome)
  PROVE  Keeps
BY ZenonT(60)
   DEF LInv, LiteralTypeOK, QueryState, Keeps, Dropping, FailuresExplained, Unexplained, Leaves,
       Places

\* What is left to show of a step that keeps the waiters.
LEMMA KeepsLInv ==
  ASSUME LInv, Keeps, LiteralTypeOK', Builds', UNCHANGED <<attempt, waiters>>, StoppedIffUnwanted'
  PROVE  LInv'
<1>1. waiters = Cardinality(WaitingFor(query, attempt))
  BY DEF LInv, WaitersCounted, WaitingFor
<1>2. WaitingFor(query', attempt) = WaitingFor(query, attempt)
  BY WaitingSame DEF Keeps
<1>3. WaitersCounted'
  BY <1>1, <1>2 DEF WaitersCounted, WaitingFor
<1>4. Dropping' /\ FailuresExplained'
  BY DEF Keeps, Dropping, FailuresExplained, Unexplained
<1> QED
  BY <1>3, <1>4 DEF LInv

\* Nothing is left to show if it leaves the state of the build alone, too.
LEMMA QuietLInv ==
  ASSUME LInv, Keeps, UNCHANGED <<state, builder, asked>>,
         withdrawn' \subseteq Queries, stop' \in BOOLEAN, apk' \in {"loaded", "changed"}
  PROVE  LInv'
<1>1. LiteralTypeOK'
  BY DEF LInv, LiteralTypeOK, state, Keeps, QueryState
<1>2. Builds'
  BY DEF LInv, Builds, Numbered, OneUnfinished, Reasons, IndexCurrent, state, Keeps
<1>3. StoppedIffUnwanted'
  BY DEF LInv, StoppedIffUnwanted, state
<1> QED
  BY <1>1, <1>2, <1>3, KeepsLInv DEF state

-----------------------------------------------------------------------------
(* The steps *)

LEMMA InitLInv == LiteralInit => LInv
<1> SUFFICES ASSUME LiteralInit
             PROVE  LInv
  OBVIOUS
<1>0. /\ 0 \in 0 .. MaxAttempts /\ "away" \in Places /\ "pending" \in Outcomes
      /\ "idle" \in Phases /\ "" \in Errors
  BY LiteralAssumption DEF Places, Outcomes, Phases, Errors
<1>a. /\ \A q \in Queries : query[q] = [at |-> "away", waiter |-> 0, outcome |-> "pending"]
      /\ \A a \in Attempts : builder[a] = "none"
  BY DEF LiteralInit, None
<1>1. LiteralTypeOK
  <2>1. query \in [Queries -> QueryState]
    BY <1>0 DEF LiteralInit, QueryState, None
  <2>2. flag \in [0 .. MaxAttempts -> BOOLEAN]
    BY DEF LiteralInit
  <2>3. /\ phase \in Phases /\ attempt \in 0 .. MaxAttempts /\ waiters \in Nat
        /\ error \in Errors /\ index \in 0 .. MaxAttempts /\ job \in 0 .. MaxAttempts
        /\ builder \in [Attempts -> {"none", "building", "built", "limit", "error", "ended"}]
    BY <1>0 DEF LiteralInit, None
  <2>4. /\ elapsed \in BOOLEAN /\ stop \in BOOLEAN /\ asked \in BOOLEAN
        /\ withdrawn \subseteq Queries /\ apk \in {"loaded", "changed"}
    BY DEF LiteralInit
  <2> QED
    BY <1>0, <2>1, <2>2, <2>3, <2>4 DEF LiteralTypeOK, QueryState
<1>2. Builds
  <2>1. Numbered
    <3>1. \A q \in Queries : query[q].waiter = 0
      BY <1>a
    <3>2. attempt = 0 /\ job = 0
      BY DEF LiteralInit
    <3> QED
      BY <3>1, <3>2 DEF Numbered
  <2>2. OneUnfinished
    BY <1>a DEF LiteralInit, OneUnfinished, Unfinished
  <2> QED
    BY <2>1, <2>2 DEF LiteralInit, Builds, Reasons, IndexCurrent
<1>3. WaitersCounted
  <2>1. WaitingFor(query, attempt) = {}
    BY DEF LiteralInit, WaitingFor, None
  <2> QED
    BY <2>1, FS_EmptySet DEF LiteralInit, WaitersCounted, WaitingFor
<1>4. Dropping /\ StoppedIffUnwanted /\ FailuresExplained
  BY DEF LiteralInit, Dropping, StoppedIffUnwanted, FailuresExplained
<1> QED
  BY <1>1, <1>2, <1>3, <1>4 DEF LInv

\* What a look under the lock finds is never a failure without a reason.
LEMMA LooksExplained ==
  ASSUME LInv, NEW q \in Queries
  PROVE  /\ phase = "invalidated" => error \in Outcomes \ Unexplained
         /\ NoBuild(q) /\ query[q].waiter # None => error \in Outcomes \ Unexplained
BY DEF LInv, LiteralTypeOK, Builds, Numbered, Reasons, NoBuild, Overflowed, WaitsForAnother,
       Unexplained, Outcomes, Errors, None, Phases

\* A query that only looks, serves or checks the package.
LEMMA LookKeepsLInv ==
  ASSUME LInv, NEW q \in Queries,
         \/ Begin(q) \/ Recheck(q) \/ Loop(q) \/ LookStreaming(q) \/ LookInvalidated(q)
         \/ LookRetry(q) \/ LookReady(q) \/ LookFailed(q) \/ Serve(q)
  PROVE  LInv'
<1>0. /\ \A place \in {"looping", "locking", "serving", "invalidating"} : Goes(q, place) => Keeps
      /\ \A outcome \in {"CANCELLED", "INDEX_RETRY", "answered"} : Leaves(q, outcome) => Keeps
  BY GoesKeeps, LeavesKeeps DEF Places, Outcomes, Unexplained
<1>1. Keeps /\ withdrawn' \subseteq Queries
  <2>0. withdrawn \subseteq Queries
    BY DEF LInv, LiteralTypeOK
  <2>1. CASE Begin(q)
    BY <1>0, <2>0, <2>1 DEF Begin, outside
  <2>2. CASE Recheck(q)
    <3>1. CASE apk = "changed"
      BY <1>0, <2>0, <2>2, <3>1 DEF Recheck
    <3>2. CASE apk # "changed"
      BY <2>2, <3>2, ReturnsKeeps DEF Recheck
    <3> QED
      BY <3>1, <3>2
  <2>3. CASE Loop(q)
    BY <1>0, <2>0, <2>3 DEF Loop, outside
  <2>4. CASE LookStreaming(q) \/ LookReady(q)
    BY <1>0, <2>0, <2>4 DEF LookStreaming, LookReady, outside
  <2>5. CASE LookInvalidated(q)
    BY <2>0, <2>5, LeavesKeeps, LooksExplained DEF LookInvalidated, outside
  <2>6. CASE LookRetry(q)
    BY <1>0, <2>0, <2>6 DEF LookRetry, outside
  <2>7. CASE LookFailed(q)
    BY <2>0, <2>7, LeavesKeeps, LooksExplained DEF LookFailed, outside
  <2>8. CASE Serve(q)
    BY <1>0, <2>0, <2>8 DEF Serve, outside
  <2> QED
    BY <2>1, <2>2, <2>3, <2>4, <2>5, <2>6, <2>7, <2>8
<1>2. UNCHANGED <<state, builder, asked, stop, apk>>
  BY DEF Begin, Recheck, Loop, LookStreaming, LookInvalidated, LookRetry, LookReady, LookFailed,
         Serve, outside
<1> QED
  BY <1>1, <1>2, QuietLInv DEF LInv, LiteralTypeOK

\* The client cancels, the server stops, the file is replaced.
LEMMA OutsideLInv ==
  ASSUME LInv, (\E q \in Queries : Withdraw(q)) \/ StopServer \/ Replace
  PROVE  LInv'
<1>1. /\ UNCHANGED <<state, builder, asked, query>>
      /\ withdrawn' \subseteq Queries /\ stop' \in BOOLEAN /\ apk' \in {"loaded", "changed"}
  BY DEF LInv, LiteralTypeOK, Withdraw, StopServer, Replace
<1> QED
  BY <1>1, StayKeeps, QuietLInv

LEMMA InvalidateLInv ==
  ASSUME LInv, NEW q \in Queries, Invalidate(q)
  PROVE  LInv'
<1>1. Keeps /\ withdrawn' \subseteq Queries
  BY ReturnsKeeps DEF Invalidate
<1>0. LiteralTypeOK /\ Builds /\ attempt \in Nat /\ job \in Nat /\ job <= attempt
  BY DEF LInv, LiteralTypeOK, Builds, Numbered, OneUnfinished
<1>2. LiteralTypeOK'
  <2>1. attempt' \in 0 .. MaxAttempts /\ None \in 0 .. MaxAttempts
    BY <1>0, LiteralAssumption DEF Invalidate, LiteralTypeOK, None
  <2>2. flag' \in [0 .. MaxAttempts -> BOOLEAN]
    BY <1>0 DEF Invalidate, LiteralTypeOK
  <2>3. "invalidated" \in Phases /\ "PROJECT_CHANGED" \in Errors
    BY DEF Phases, Errors
  <2> QED
    BY <1>0, <1>1, <2>1, <2>2, <2>3 DEF Invalidate, LiteralTypeOK, Keeps, QueryState
<1>3. Builds'
  <2>1. Numbered'
    BY <1>0, <1>1, LiteralAssumption DEF Invalidate, Builds, Numbered, Keeps, LiteralTypeOK
  <2>2. OneUnfinished'
    BY <1>0 DEF Invalidate, Builds, Numbered, OneUnfinished, LiteralTypeOK, Attempts
  <2> QED
    BY <2>1, <2>2 DEF Builds, Reasons, IndexCurrent, Invalidate
<1>4. WaitersCounted'
  <2>1. WaitingFor(query', attempt + 1) = {}
    BY <1>0, <1>1, LiteralAssumption DEF WaitingFor, Keeps, Builds, Numbered, LiteralTypeOK
  <2> QED
    BY <2>1, FS_EmptySet DEF Invalidate, WaitersCounted, WaitingFor
<1>5. Dropping' /\ FailuresExplained'
  BY <1>1 DEF Keeps, Dropping, FailuresExplained, Unexplained
<1>6. StoppedIffUnwanted'
  BY DEF Invalidate, StoppedIffUnwanted
<1> QED
  BY <1>2, <1>3, <1>4, <1>5, <1>6 DEF LInv

LEMMA LookOverflowedLInv ==
  ASSUME LInv, NEW q \in Queries, LookOverflowed(q)
  PROVE  LInv'
<1>1. Keeps
  BY GoesKeeps DEF LookOverflowed, Places
<1>2. LiteralTypeOK'
  BY <1>1 DEF LInv, LookOverflowed, LiteralTypeOK, Keeps, QueryState, Phases, outside
<1>3. Builds'
  BY <1>1 DEF LInv, LookOverflowed, Overflowed, Builds, Numbered, OneUnfinished, Reasons,
              IndexCurrent, Keeps
<1>4. StoppedIffUnwanted'
  BY DEF LookOverflowed, StoppedIffUnwanted
<1> QED
  BY <1>1, <1>2, <1>3, <1>4, KeepsLInv DEF LookOverflowed

\* What a query that joins or starts a build becomes.
LEMMA TakesWaiter ==
  ASSUME query \in [Queries -> QueryState], NEW q \in Queries, NEW n \in 0 .. MaxAttempts,
         query' = [query EXCEPT ![q].at = "looping", ![q].waiter = n]
  PROVE  /\ query' \in [Queries -> QueryState]
         /\ query'[q].waiter = n /\ query'[q].at = "looping"
         /\ query'[q].outcome = query[q].outcome
         /\ \A d \in Queries \ {q} : query'[d] = query[d]
<1> DEFINE r == [query[q] EXCEPT !.at = "looping", !.waiter = n]
<1>1. "looping" \in Places /\ query[q] \in QueryState
  BY DEF Places
<1>2. /\ r \in QueryState /\ r.waiter = n /\ r.at = "looping"
      /\ r.outcome = query[q].outcome
  BY <1>1 DEF QueryState
<1>3. query' = [query EXCEPT ![q] = r]
  OBVIOUS
<1> HIDE DEF r
<1> QED
  BY <1>2, <1>3

\* What a query that drops its waiter becomes.
LEMMA Released ==
  ASSUME query \in [Queries -> QueryState], NEW q \in Queries,
         query' = [query EXCEPT ![q].at = "rechecking", ![q].waiter = None]
  PROVE  /\ query' \in [Queries -> QueryState]
         /\ query'[q].waiter = None /\ query'[q].at = "rechecking"
         /\ query'[q].outcome = query[q].outcome
         /\ \A d \in Queries \ {q} : query'[d] = query[d]
<1> DEFINE r == [query[q] EXCEPT !.at = "rechecking", !.waiter = None]
<1>1. "rechecking" \in Places /\ None \in 0 .. MaxAttempts /\ query[q] \in QueryState
  BY LiteralAssumption DEF Places, None
<1>2. /\ r \in QueryState /\ r.waiter = None /\ r.at = "rechecking"
      /\ r.outcome = query[q].outcome
  BY <1>1 DEF QueryState
<1>3. query' = [query EXCEPT ![q] = r]
  OBVIOUS
<1> HIDE DEF r
<1> QED
  BY <1>2, <1>3

\* A query that waits gives up or is counted, once.
LEMMA LookIndexingLInv ==
  ASSUME LInv, NEW q \in Queries, LookIndexing(q)
  PROVE  LInv'
<1>0. /\ LiteralTypeOK /\ Builds /\ phase = "indexing" /\ job = attempt /\ attempt # 0
      /\ attempt \in 0 .. MaxAttempts /\ waiters \in Nat
      /\ query[q].waiter = None \/ query[q].waiter = attempt
      /\ error \in {"", "INDEX_TIMEOUT"}
  BY DEF LInv, LiteralTypeOK, Builds, Numbered, OneUnfinished, Reasons, LookIndexing,
         WaitsForAnother
<1>1. error' \in {"", "INDEX_TIMEOUT"}
  BY <1>0 DEF LookIndexing
<1>2. /\ flag' \in [0 .. MaxAttempts -> BOOLEAN] /\ flag'[job] = (flag[job] \/ elapsed)
      /\ elapsed => error' = "INDEX_TIMEOUT"
      /\ ~elapsed => error' = error
  BY <1>0 DEF LookIndexing, LiteralTypeOK, Expired
<1>3. UNCHANGED <<phase, attempt, index, job, elapsed, builder, outside, asked>>
  BY DEF LookIndexing
<1>4. OneUnfinished' /\ Reasons' /\ IndexCurrent'
  BY <1>0, <1>1, <1>3 DEF Builds, OneUnfinished, Reasons, IndexCurrent
<1>5. CASE Stopping
  <2>1. UNCHANGED waiters
    BY <1>5 DEF LookIndexing
  <2>2. Keeps
    <3>1. {"INDEX_CANCELLED", "INDEX_TIMEOUT"} \subseteq Outcomes \ Unexplained
      BY DEF Outcomes, Errors, Unexplained
    <3> QED
      BY <1>1, <1>5, <3>1, LeavesKeeps DEF LookIndexing
  <2>3. LiteralTypeOK'
    BY <1>0, <1>1, <1>2, <1>3, <2>1, <2>2 DEF LiteralTypeOK, Keeps, QueryState, Errors, outside
  <2>4. Builds'
    BY <1>0, <1>3, <1>4, <2>2 DEF Builds, Numbered, Keeps
  <2>5. StoppedIffUnwanted'
    BY <1>0, <1>2, <1>3, <2>1 DEF LInv, StoppedIffUnwanted
  <2> QED
    BY <1>3, <2>1, <2>2, <2>3, <2>4, <2>5, KeepsLInv
<1>6. CASE ~Stopping
  <2>1. /\ query' \in [Queries -> QueryState]
        /\ query'[q].waiter = attempt /\ query'[q].at = "looping"
        /\ query'[q].outcome = query[q].outcome
        /\ \A d \in Queries \ {q} : query'[d] = query[d]
        /\ waiters' = WaitersWith(q)
    BY <1>0, <1>6, TakesWaiter DEF LookIndexing, LiteralTypeOK, QueryState
  <2>2. waiters' \in Nat /\ waiters' # 0
    <3>1. CASE query[q].waiter = None
      <4>1. waiters' = waiters + 1
        BY <2>1, <3>1 DEF WaitersWith
      <4>2. waiters \in Nat
        BY <1>0
      <4> QED
        BY <4>1, <4>2
    <3>2. CASE query[q].waiter # None
      BY <1>0, <2>1, <3>2, WaiterCounts DEF WaitersWith, LInv
    <3> QED
      BY <3>1, <3>2
  <2>3. LiteralTypeOK'
    BY <1>0, <1>1, <1>2, <1>3, <2>1, <2>2 DEF LiteralTypeOK, QueryState, Errors, outside
  <2>4. Numbered'
    <3>1. \A d \in Queries : query[d].waiter <= attempt
      BY <1>0 DEF Builds, Numbered
    <3>2. \A d \in Queries : query'[d].waiter \in {query[d].waiter, attempt}
      BY <2>1
    <3>3. attempt <= attempt
      <4>1. attempt \in 0 .. MaxAttempts
        BY <1>0
      <4> QED
        BY <4>1, LiteralAssumption
    <3> QED
      BY <1>0, <1>3, <3>1, <3>2, <3>3 DEF Numbered
  <2>5. StoppedIffUnwanted'
    BY <1>2, <1>3, <1>6, <2>2 DEF StoppedIffUnwanted, Stopping, Expired
  <2>6. WaitersCounted'
    <3>1. q \in WaitingFor(query', attempt) /\ (q \in WaitingFor(query, attempt)
                                                  <=> query[q].waiter # None)
      BY <1>0, <2>1 DEF WaitingFor, None
    <3>2. waiters = Cardinality(WaitingFor(query, attempt))
      BY DEF LInv, WaitersCounted, WaitingFor
    <3>3. waiters' = Cardinality(WaitingFor(query', attempt))
      BY <2>1, <3>1, <3>2, WaitingChange DEF WaitersWith
    <3> QED
      BY <1>3, <3>3 DEF WaitersCounted, WaitingFor
  <2>7. Dropping' /\ FailuresExplained'
    BY <2>1 DEF LInv, Dropping, FailuresExplained
  <2> QED
    BY <1>4, <2>3, <2>4, <2>5, <2>6, <2>7 DEF LInv, Builds
<1> QED
  BY <1>5, <1>6

\* A new build has one waiter, and no other build is unfinished.
LEMMA LookStartLInv ==
  ASSUME LInv, NEW q \in Queries, LookStart(q)
  PROVE  LInv'
<1>0. /\ LiteralTypeOK /\ Builds /\ attempt \in Nat /\ attempt' = attempt + 1 /\ job' = attempt'
      /\ attempt' \in Attempts /\ attempt' \in 0 .. MaxAttempts
      /\ phase \in {"idle", "failed", "cancelled"} /\ phase' = "indexing"
  <2>1. /\ LiteralTypeOK /\ Builds /\ attempt \in Nat /\ MaxAttempts \in Nat
        /\ attempt < MaxAttempts
    <3>1. LiteralTypeOK /\ Builds /\ attempt < MaxAttempts
      BY DEF LInv, LookStart
    <3>2. attempt \in 0 .. MaxAttempts
      BY <3>1 DEF LiteralTypeOK
    <3> QED
      BY <3>1, <3>2, LiteralAssumption
  <2>2. attempt + 1 \in 1 .. MaxAttempts /\ attempt + 1 \in 0 .. MaxAttempts
    BY <2>1
  <2> QED
    BY <2>1, <2>2 DEF LookStart, NoBuild, Attempts
<1>1. /\ query' \in [Queries -> QueryState]
      /\ query'[q].waiter = attempt' /\ query'[q].at = "looping"
      /\ query'[q].outcome = query[q].outcome
      /\ \A d \in Queries \ {q} : query'[d] = query[d]
  BY <1>0, TakesWaiter DEF LookStart, LiteralTypeOK, QueryState
<1>2. /\ builder' \in [Attempts -> {"none", "building", "built", "limit", "error", "ended"}]
      /\ builder'[attempt'] = "building"
      /\ \A a \in Attempts \ {attempt'} : builder'[a] = builder[a]
  BY <1>0 DEF LookStart, LiteralTypeOK
<1>3. flag' \in [0 .. MaxAttempts -> BOOLEAN] /\ flag'[job'] = FALSE
  BY <1>0 DEF LookStart, LiteralTypeOK
<1>4. LiteralTypeOK'
  BY <1>0, <1>1, <1>2, <1>3 DEF LookStart, LiteralTypeOK, QueryState, Phases, Errors, outside
<1>5. Builds'
  <2>1. Numbered'
    BY <1>0, <1>1 DEF Builds, Numbered, LiteralTypeOK
  <2>2. \A a \in Attempts : builder[a] \notin Unfinished
    BY <1>0 DEF Builds, Numbered, OneUnfinished
  <2>3. OneUnfinished'
    BY <1>0, <1>2, <2>2 DEF OneUnfinished, Unfinished
  <2>4. Reasons' /\ IndexCurrent'
    BY <1>0 DEF LookStart, Builds, Reasons, IndexCurrent
  <2> QED
    BY <2>1, <2>3, <2>4 DEF Builds
<1>6. WaitersCounted'
  <2>1. WaitingFor(query', attempt') = {q}
    BY <1>0, <1>1 DEF WaitingFor, Builds, Numbered, None, LiteralTypeOK
  <2> QED
    BY <2>1, FS_Singleton DEF LookStart, WaitersCounted, WaitingFor
<1>7. Dropping' /\ FailuresExplained'
  BY <1>1 DEF LInv, Dropping, FailuresExplained
<1>8. StoppedIffUnwanted'
  <2>1. waiters' = 1 /\ flag'[job'] = FALSE
    BY <1>3 DEF LookStart
  <2> QED
    BY <2>1 DEF StoppedIffUnwanted
<1> QED
  BY <1>4, <1>5, <1>6, <1>7, <1>8 DEF LInv

\* The last waiter of a running build stops it, another waiter only leaves.
LEMMA DropWaiterLInv ==
  ASSUME LInv, NEW q \in Queries, DropWaiter(q)
  PROVE  LInv'
<1>0. /\ LiteralTypeOK /\ Builds /\ query \in [Queries -> QueryState] /\ query[q].waiter # None
      /\ waiters \in Nat /\ attempt \in 0 .. MaxAttempts
  BY DEF LInv, LiteralTypeOK, Dropping, DropWaiter, QueryState
<1>1. /\ query' \in [Queries -> QueryState]
      /\ query'[q].waiter = None /\ query'[q].at = "rechecking"
      /\ query'[q].outcome = query[q].outcome
      /\ \A d \in Queries \ {q} : query'[d] = query[d]
  BY <1>0, Released DEF DropWaiter
<1>2. UNCHANGED <<phase, attempt, error, index, job, elapsed, builder, outside, asked>>
  BY DEF DropWaiter
<1>3. /\ flag' \in [0 .. MaxAttempts -> BOOLEAN] /\ flag'[job] = (flag[job] \/ Abandons(q))
      /\ \A a \in 0 .. MaxAttempts \ {job} : flag'[a] = flag[a]
  BY <1>0 DEF DropWaiter, LiteralTypeOK, Abandons
<1>4. waiters' \in Nat
  BY <1>0 DEF DropWaiter, WaitersWithout
<1>5. LiteralTypeOK'
  BY <1>0, <1>1, <1>2, <1>3, <1>4 DEF LiteralTypeOK, QueryState, outside
<1>6. Builds'
  <2>1. Numbered'
    <3>1. None <= attempt
      BY <1>0, LiteralAssumption DEF None
    <3> QED
      BY <1>0, <1>1, <1>2, <3>1 DEF Builds, Numbered
  <2>2. OneUnfinished'
    BY <1>0, <1>2, <1>3 DEF Builds, OneUnfinished
  <2>3. Reasons' /\ IndexCurrent'
    BY <1>0, <1>2 DEF Builds, Reasons, IndexCurrent
  <2> QED
    BY <2>1, <2>2, <2>3 DEF Builds
<1>7. Dropping' /\ FailuresExplained'
  BY <1>1 DEF LInv, Dropping, FailuresExplained
<1>8. WaitersCounted'
  <2>1. waiters = Cardinality(WaitingFor(query, attempt))
    BY DEF LInv, WaitersCounted, WaitingFor
  <2>2. /\ q \notin WaitingFor(query', attempt)
        /\ q \in WaitingFor(query, attempt) <=> query[q].waiter = attempt
    BY <1>0, <1>1 DEF WaitingFor
  <2>3. waiters' = Cardinality(WaitingFor(query', attempt))
    <3>1. CASE query[q].waiter = attempt
      <4>1. waiters' = waiters - 1
        <5>1. waiters # 0
          BY <1>0, <3>1, WaiterCounts DEF LInv
        <5> QED
          BY <1>0, <3>1, <5>1 DEF DropWaiter, WaitersWithout
      <4> QED
        BY <1>1, <2>1, <2>2, <3>1, <4>1, WaitingChange
    <3>2. CASE query[q].waiter # attempt
      <4>1. waiters' = waiters
        BY <3>2 DEF DropWaiter, WaitersWithout
      <4> QED
        BY <1>1, <2>1, <2>2, <3>2, <4>1, WaitingChange
    <3> QED
      BY <3>1, <3>2
  <2> QED
    BY <1>2, <2>3 DEF WaitersCounted, WaitingFor
<1>9. StoppedIffUnwanted'
  <2> SUFFICES ASSUME phase = "indexing"
               PROVE  /\ waiters' = 0 => flag'[job]
                      /\ flag'[job] => waiters' = 0 \/ asked \/ error = "INDEX_TIMEOUT"
    BY <1>2 DEF StoppedIffUnwanted
  <2>1. /\ waiters = 0 => flag[job]
        /\ flag[job] => waiters = 0 \/ asked \/ error = "INDEX_TIMEOUT"
    BY DEF LInv, StoppedIffUnwanted
  <2>2. waiters = 0 => waiters' = 0
    BY DEF DropWaiter, WaitersWithout
  <2>3. Abandons(q) => waiters' = 0
    BY DEF DropWaiter, Abandons
  <2>4. waiters' = 0 /\ waiters # 0 => Abandons(q)
    BY DEF DropWaiter, WaitersWithout, Abandons
  <2> QED
    BY <1>3, <2>1, <2>2, <2>3, <2>4
<1> QED
  BY <1>5, <1>6, <1>7, <1>8, <1>9 DEF LInv

\* A build that runs on, is asked to stop, or exceeds its deadline.
LEMMA RunningLInv ==
  ASSUME LInv, (\E a \in Attempts : Build(a)) \/ CancelIndex \/ Elapse
  PROVE  LInv'
<1>0. LiteralTypeOK /\ Builds /\ StoppedIffUnwanted
  BY DEF LInv
<1>1. CASE \E a \in Attempts : Build(a)
  <2>1. PICK a \in Attempts, result \in {"built", "limit", "error"} :
          /\ builder[a] = "building" /\ builder' = [builder EXCEPT ![a] = result]
          /\ UNCHANGED <<state, query, outside, asked>>
    BY <1>1 DEF Build
  <2>2. Keeps
    BY <2>1, StayKeeps
  <2>3. LiteralTypeOK'
    BY <1>0, <2>1 DEF LiteralTypeOK, state, outside
  <2>4. \A b \in Attempts : builder'[b] \in Unfinished <=> builder[b] \in Unfinished
    BY <1>0, <2>1 DEF LiteralTypeOK, Unfinished
  <2>5. OneUnfinished'
    <3>1. attempt # 0 => attempt \in Attempts
      BY <1>0, LiteralAssumption DEF LiteralTypeOK, Attempts
    <3> QED
      BY <1>0, <2>1, <2>4, <3>1 DEF Builds, OneUnfinished, state
  <2>6. Builds' /\ StoppedIffUnwanted' /\ UNCHANGED <<attempt, waiters>>
    BY <1>0, <2>1, <2>5 DEF Builds, Numbered, Reasons, IndexCurrent, StoppedIffUnwanted, state
  <2> QED
    BY <2>2, <2>3, <2>6, KeepsLInv
<1>2. CASE CancelIndex
  <2>1. Keeps
    BY <1>2, StayKeeps DEF CancelIndex
  <2>2. /\ flag' \in [0 .. MaxAttempts -> BOOLEAN] /\ flag'[job] = TRUE
        /\ asked' \in BOOLEAN
    BY <1>0, <1>2 DEF CancelIndex, LiteralTypeOK
  <2>3. LiteralTypeOK'
    BY <1>0, <1>2, <2>2 DEF CancelIndex, LiteralTypeOK, outside
  <2>4. Builds'
    BY <1>0, <1>2, <2>2 DEF CancelIndex, Builds, Numbered, OneUnfinished, Reasons, IndexCurrent
  <2>5. StoppedIffUnwanted'
    BY <1>2, <2>2 DEF CancelIndex, StoppedIffUnwanted
  <2> QED
    BY <1>2, <2>1, <2>3, <2>4, <2>5, KeepsLInv DEF CancelIndex
<1>3. CASE Elapse
  <2>1. Keeps
    BY <1>3, StayKeeps DEF Elapse
  <2>2. LiteralTypeOK'
    BY <1>0, <1>3 DEF Elapse, LiteralTypeOK, outside
  <2>3. Builds' /\ StoppedIffUnwanted'
    BY <1>0, <1>3 DEF Elapse, Builds, Numbered, OneUnfinished, Reasons, IndexCurrent,
                      StoppedIffUnwanted
  <2> QED
    BY <1>3, <2>1, <2>2, <2>3, KeepsLInv DEF Elapse
<1> QED
  BY <1>1, <1>2, <1>3

\* A thread that still belongs to the current attempt finds the project indexing.
LEMMA CurrentIndexing ==
  ASSUME LInv, NEW a \in Attempts, builder[a] \in Unfinished
  PROVE  /\ a = job
         /\ Current(a) => /\ phase = "indexing" /\ attempt = a /\ index = None
                          /\ error \in {"", "INDEX_TIMEOUT"}
BY DEF LInv, Builds, OneUnfinished, Reasons, IndexCurrent, Current

\* What the thread leaves behind: the index of its own attempt, or the reason.
LEMMA CompleteLInv ==
  ASSUME LInv, NEW a \in Attempts, Complete(a)
  PROVE  LInv'
<1>0. /\ LiteralTypeOK /\ Builds /\ builder[a] \in Unfinished /\ a = job
      /\ Current(a) => /\ phase = "indexing" /\ attempt = a /\ index = None
                       /\ error \in {"", "INDEX_TIMEOUT"}
  BY CurrentIndexing DEF LInv, Complete, Unfinished
<1>1. UNCHANGED <<attempt, waiters, job, flag, elapsed, query, outside, asked>>
  BY DEF Complete
<1>2. Keeps
  BY <1>1, StayKeeps
<1>3. /\ builder' \in [Attempts -> {"none", "building", "built", "limit", "error", "ended"}]
      /\ \A b \in Attempts : builder'[b] \notin Unfinished
  BY <1>0 DEF Complete, LiteralTypeOK, Builds, OneUnfinished, Unfinished
<1>4. CASE ~Current(a)
  <2>1. UNCHANGED <<phase, index, error>>
    BY <1>4 DEF Complete
  <2>2. LiteralTypeOK'
    BY <1>0, <1>1, <1>3, <2>1 DEF LiteralTypeOK, outside
  <2>3. phase # "indexing"
    BY <1>0, <1>4 DEF Builds, Numbered, Current
  <2>4. Builds' /\ StoppedIffUnwanted'
    BY <1>0, <1>1, <1>3, <2>1, <2>3
       DEF Builds, Numbered, OneUnfinished, Reasons, IndexCurrent, StoppedIffUnwanted
  <2> QED
    BY <1>1, <1>2, <2>2, <2>4, KeepsLInv
<1>5. CASE Current(a)
  <2>0. /\ phase = "indexing" /\ attempt = a /\ index = None /\ a = job /\ a # None
        /\ error \in {"", "INDEX_TIMEOUT"} /\ a \in 0 .. MaxAttempts
    <3>1. a \in 0 .. MaxAttempts /\ a # 0
      BY LiteralAssumption DEF Attempts
    <3> QED
      BY <1>0, <1>5, <3>1 DEF None
  <2>1. \/ /\ phase' = "cancelled" /\ index' = None
           /\ error' \in {"INDEX_CANCELLED", "INDEX_TIMEOUT"}
        \/ /\ phase' = "ready" /\ index' = a /\ error' = error
        \/ /\ phase' = "failed" /\ index' = None
           /\ error' \in {"LITERAL_INDEX_LIMIT", "INDEX_BUILD_FAILED"}
    <3>1. CASE flag[a] \/ stop
      BY <1>5, <2>0, <3>1 DEF Complete
    <3>2. CASE ~(flag[a] \/ stop)
      <4>1. Publish(a)
        BY <1>5, <3>2 DEF Complete
      <4> QED
        BY <2>0, <4>1 DEF Publish
    <3> QED
      BY <3>1, <3>2
  <2>2. phase' \in Phases /\ index' \in 0 .. MaxAttempts /\ error' \in Errors
    <3>1. None \in 0 .. MaxAttempts
      BY LiteralAssumption DEF None
    <3>2. /\ {"cancelled", "ready", "failed"} \subseteq Phases
          /\ {"", "INDEX_CANCELLED", "INDEX_TIMEOUT", "LITERAL_INDEX_LIMIT",
              "INDEX_BUILD_FAILED"} \subseteq Errors
      BY DEF Phases, Errors
    <3> QED
      BY <2>0, <2>1, <3>1, <3>2
  <2>3. LiteralTypeOK'
    BY <1>0, <1>1, <1>3, <2>2 DEF LiteralTypeOK, outside
  <2>4. Builds'
    <3>1. Numbered'
      BY <1>0, <1>1, <2>0, <2>1 DEF Builds, Numbered
    <3>2. OneUnfinished'
      BY <1>3, <2>1 DEF OneUnfinished
    <3>3. Reasons' /\ IndexCurrent'
      BY <1>1, <2>0, <2>1 DEF Reasons, IndexCurrent
    <3> QED
      BY <3>1, <3>2, <3>3 DEF Builds
  <2>5. StoppedIffUnwanted'
    BY <2>1 DEF StoppedIffUnwanted
  <2> QED
    BY <1>1, <1>2, <2>3, <2>4, <2>5, KeepsLInv
<1> QED
  BY <1>4, <1>5

LEMMA NextLInv ==
  ASSUME LInv, [LiteralNext]_literalVars
  PROVE  LInv'
<1>1. ASSUME NEW q \in Queries, Begin(q) \/ Query(q) \/ Withdraw(q)
      PROVE  LInv'
  <2>1. CASE Withdraw(q)
    BY <2>1, OutsideLInv
  <2>2. CASE \/ Begin(q) \/ Recheck(q) \/ Loop(q) \/ LookStreaming(q) \/ LookInvalidated(q)
             \/ LookRetry(q) \/ LookReady(q) \/ LookFailed(q) \/ Serve(q)
    BY <2>2, LookKeepsLInv
  <2>3. CASE Invalidate(q)
    BY <2>3, InvalidateLInv
  <2>4. CASE LookOverflowed(q)
    BY <2>4, LookOverflowedLInv
  <2>5. CASE LookIndexing(q)
    BY <2>5, LookIndexingLInv
  <2>6. CASE LookStart(q)
    BY <2>6, LookStartLInv
  <2>7. CASE DropWaiter(q)
    BY <2>7, DropWaiterLInv
  <2> QED
    BY <1>1, <2>1, <2>2, <2>3, <2>4, <2>5, <2>6, <2>7 DEF Query
<1>2. ASSUME NEW a \in Attempts, Builder(a)
      PROVE  LInv'
  BY <1>2, RunningLInv, CompleteLInv DEF Builder
<1>3. CASE CancelIndex \/ StopServer \/ Replace \/ Elapse
  BY <1>3, RunningLInv, OutsideLInv
<1>4. CASE UNCHANGED literalVars
  <2>1. Keeps
    BY <1>4, StayKeeps DEF literalVars
  <2>2. withdrawn' \subseteq Queries /\ stop' \in BOOLEAN /\ apk' \in {"loaded", "changed"}
    BY <1>4 DEF literalVars, outside, LInv, LiteralTypeOK
  <2> QED
    BY <1>4, <2>1, <2>2, QuietLInv DEF literalVars
<1> QED
  BY <1>1, <1>2, <1>3, <1>4 DEF LiteralNext

\* LInv holds throughout.
LEMMA LiteralInvariance == LiteralSpec => []LInv
<1> QED
  BY InitLInv, NextLInv, PTL DEF LiteralSpec

-----------------------------------------------------------------------------
(* What follows *)

\* The variables have their types.
THEOREM LiteralTypeCorrect == LiteralSpec => []LiteralTypeOK
<1>1. LInv => LiteralTypeOK
  BY DEF LInv
<1> QED
  BY <1>1, LiteralInvariance, PTL

\* The waiter count of Controller is the number of queries that hold a waiter of the current
\* attempt, however queries join, give up, retry and drop their waiters late.
THEOREM WaitersExact == LiteralSpec => []WaitersCounted
<1>1. LInv => WaitersCounted
  BY DEF LInv
<1> QED
  BY <1>1, LiteralInvariance, PTL

\* The last waiter of a running build tells it to stop, and nothing else does but cancel() and
\* the deadline.
THEOREM StoppedExactly == LiteralSpec => []StoppedIffUnwanted
<1>1. LInv => StoppedIffUnwanted
  BY DEF LInv
<1> QED
  BY <1>1, LiteralInvariance, PTL

\* Two builds never run at once: a query starts one only after the thread of the last one has
\* taken the lock, and a build that an invalidation outdates was told to stop.
THEOREM BuildsExclusive == LiteralSpec => []OneBuild
<1>1. LInv => OneBuild
  <2> SUFFICES ASSUME LInv
               PROVE  OneBuild
    OBVIOUS
  <2> DEFINE B == {a \in Attempts : builder[a] = "building"}
  <2>1. \A a \in B : a = job /\ (a = attempt => phase = "indexing")
    BY DEF LInv, Builds, OneUnfinished, Unfinished
  <2>2. Cardinality(B) <= 1
    <3>1. CASE B = {}
      BY <3>1, FS_EmptySet
    <3>2. CASE B # {}
      <4>1. B = {job}
        BY <2>1, <3>2
      <4> QED
        BY <4>1, FS_Singleton
    <3> QED
      BY <3>1, <3>2
  <2>3. \A a \in B : a # attempt => flag[a]
    BY <2>1 DEF LInv, Builds, Numbered, OneUnfinished
  <2> QED
    BY <2>2, <2>3 DEF OneBuild
<1> QED
  BY <1>1, LiteralInvariance, PTL

\* An index is there exactly while the project is ready, and it is the one that the current
\* attempt built: a thread that completes late publishes nothing.
THEOREM IndexIsCurrent == LiteralSpec => []IndexCurrent
<1>1. LInv => IndexCurrent
  BY DEF LInv, Builds
<1> QED
  BY <1>1, LiteralInvariance, PTL

\* An index too large for memory fails no query, and a query that fails says why.
THEOREM FailuresHaveReasons == LiteralSpec => []FailuresExplained
<1>1. LInv => FailuresExplained
  BY DEF LInv
<1> QED
  BY <1>1, LiteralInvariance, PTL

\* Nothing brings back the index of a project that a query found changed, neither another query,
\* nor a build that completes after the invalidation, nor the original file.
THEOREM InvalidationFinal == LiteralSpec => InvalidatedForGood
<1>1. ASSUME LInv, [LiteralNext]_literalVars, phase = "invalidated"
      PROVE  phase' = phase /\ index' = None
  <2>0. index = None /\ job < attempt /\ attempt \in Nat
    BY <1>1 DEF LInv, Builds, OneUnfinished, IndexCurrent, LiteralTypeOK
  <2>1. ASSUME NEW q \in Queries, Begin(q) \/ Query(q) \/ Withdraw(q)
        PROVE  phase' = phase /\ index' = None
    <3>1. CASE Invalidate(q)
      BY <1>1, <3>1 DEF Invalidate
    <3>2. CASE ~Invalidate(q)
      BY <1>1, <2>0, <2>1, <3>2
         DEF Begin, Query, Withdraw, Recheck, Loop, LookStreaming, LookOverflowed, Overflowed,
             LookInvalidated, LookRetry, LookReady, LookIndexing, LookFailed, LookStart,
             NoBuild, Serve, DropWaiter, state
    <3> QED
      BY <3>1, <3>2
  <2>2. ASSUME NEW a \in Attempts, Builder(a)
        PROVE  phase' = phase /\ index' = None
    <3>1. CASE Build(a)
      BY <2>0, <3>1 DEF Build, state
    <3>2. CASE Complete(a)
      <4>1. ~Current(a)
        BY <1>1, <3>2, CurrentIndexing DEF Complete, Unfinished
      <4> QED
        BY <2>0, <3>2, <4>1 DEF Complete
    <3> QED
      BY <2>2, <3>1, <3>2 DEF Builder
  <2>3. CASE CancelIndex \/ StopServer \/ Replace \/ Elapse
    BY <2>0, <2>3 DEF CancelIndex, StopServer, Replace, Elapse, state
  <2>4. CASE UNCHANGED literalVars
    BY <2>0, <2>4 DEF literalVars, state
  <2> QED
    BY <1>1, <2>1, <2>2, <2>3, <2>4 DEF LiteralNext
<1>2. LInv /\ [LiteralNext]_literalVars => [phase = "invalidated" => phase' = phase
          /\ index' = None]_literalVars
  BY <1>1
<1> QED
  BY <1>2, LiteralInvariance, PTL DEF LiteralSpec, InvalidatedForGood
=============================================================================
