------------------------ MODULE SearchStreamingProofs ------------------------
(***************************************************************************)
(* A streaming search keeps its promises for any number of classes and     *)
(* workers, any window, sizes and limits: no class is lost or rendered     *)
(* twice, one exceptional thread exists at a time, a cancellation stops    *)
(* the scan, the reports are those of a sequential search, and the budget  *)
(* is used only as ResultBudget allows.                                    *)
(*                                                                         *)
(* The inductive invariant SInv says how far the coordinator is (Control), *)
(* and where each class is (Located): in at most one place between the     *)
(* jobs, the threads, the results and the map, only if the coordinator     *)
(* will still ask for it, and, until the threads are told to stop, always  *)
(* if it will.                                                             *)
(***************************************************************************)
EXTENDS SearchStreaming, ChargeSumProofs, SequenceTheorems

Over == {"leaving", "closing", "shutdown", "done"}
Before == {"top", "admitting"}
Idling == {"unspawned", "receiving", "returning", "exited"}

\* The class of the oldest marker in the window.
First == next - Len(pending)

Turn ==
  /\ index <= First /\ First <= index + 1 /\ First <= next
  /\ at \in Before => First = index
  /\ at \notin Before \cup Over => First = index + 1
  /\ at = "admitting" => index < NumClasses

Counted ==
  /\ summary.rejections <= summary.scanned
  /\ at \notin Over =>
       /\ summary.scanned = First /\ Len(outcomes) = index
       /\ summary.skipped <= index
       /\ summary.hits < MaxHits /\ ~summary.limited /\ ~summary.cancelled
  /\ at \in Over =>
       /\ Len(outcomes) <= summary.scanned /\ summary.skipped <= summary.scanned
       /\ summary.limited \/ summary.cancelled \/ Len(outcomes) = NumClasses
  /\ stop <=> at \in Over \ {"leaving"}

\* The head of the budget is the class of the turn, or at its top still the one before.
Required ==
  /\ at = "top" => budget.head = index \/ budget.head + 1 = index
  /\ at \notin {"top"} \cup Over => budget.head = index

\* What was taken is the result of the class whose turn it is.
InTurn ==
  /\ at \in {"joining", "settling"} => taken.index = index
  /\ at = "matching" => taken = NoMessage \/ taken.index = index

\* Threads are refused nothing unless the scan is over.
Closed == budget.stopped \/ ~rxOpen => stop

CancelSeen ==
  cancel => /\ summary.scanned <= cancelledAt + 1
            /\ at = "admitting" => summary.scanned <= cancelledAt

InJobs(i) == \E n \in DOMAIN jobs : jobs[n] = i
InThreads(i) == \E t \in Threads : thread[t].index = i
InResults(i) == \E n \in DOMAIN results : results[n].index = i
InMap(i) == \E m \in completed : m.index = i
Somewhere(i) == InJobs(i) \/ InThreads(i) \/ InResults(i) \/ InMap(i)

OnceJobs == \A m, n \in DOMAIN jobs : jobs[m] = jobs[n] => m = n
OnceThreads ==
  \A t, u \in Threads :
    thread[t].index = thread[u].index /\ thread[t].index # NumClasses => t = u
OnceResults == \A m, n \in DOMAIN results : results[m].index = results[n].index => m = n
OnceMap == \A m, n \in completed : m.index = n.index => m = n

Apart(i) ==
  /\ InJobs(i) => ~InThreads(i) /\ ~InResults(i) /\ ~InMap(i)
  /\ InThreads(i) => ~InResults(i) /\ ~InMap(i)
  /\ InResults(i) => ~InMap(i)

Awaited(i) == \E n \in DOMAIN pending : i = First - 1 + n /\ pending[n] = "rendering"
Due(i) == Awaited(i) \/ (at \in {"waiting", "polling"} /\ i = index)

Placed(i) ==
  /\ Apart(i)
  /\ Somewhere(i) /\ (at \notin Over \/ ~Unwanted) => Due(i)
  /\ Due(i) /\ ~Unwanted => Somewhere(i)

\* A rendering is started only of a class that was asked for and has left the jobs.
Begun(i) ==
  /\ at \notin Over /\ i >= First /\ ~Due(i) => started[i] = 0
  /\ InJobs(i) => started[i] = 0
  /\ InResults(i) \/ InMap(i) => started[i] = 1

Rendering(t) ==
  /\ thread[t].index = NumClasses <=> thread[t].state \in Idling
  /\ thread[t].state \in Idling \cup {"reserving"} => thread[t].bytes = 0
  /\ thread[t].state = "reserving" => started[thread[t].index] = 0
  /\ thread[t].state \notin Idling \cup {"reserving"} => started[thread[t].index] = 1
  /\ thread[t].state = "reserving" => thread[t].size \in Sizes \cup {Limit}
       /\ thread[t].size <= Limit
  /\ thread[t].state = "finishing" => thread[t].size \in Sizes

\* Only the class whose turn it is has an exceptional thread.
Exceptional ==
  \A i \in Index : thread[i].state \notin {"unspawned", "exited"} =>
    /\ i = index
    /\ at \in {"waiting", "polling", "joining"} \cup Over
    /\ at \notin Over => preparedAs = "cached"

Control == Turn /\ Counted /\ Required /\ InTurn /\ Closed /\ CancelSeen

Located ==
  /\ OnceJobs /\ OnceThreads /\ OnceResults /\ OnceMap
  /\ (\A i \in Index : Placed(i) /\ Begun(i))
  /\ (\A t \in Threads : Rendering(t))

SInv == TypeOK /\ IsFiniteSet(completed) /\ Control /\ Located /\ Exceptional

-----------------------------------------------------------------------------
(* How a step changes one thread *)

ThreadState == [state : ThreadStates, index : 0 .. NumClasses, bytes : Nat, size : Nat,
    ok : BOOLEAN]

\* Only the thread t changes.
Alone(t) ==
  /\ thread' \in [Threads -> ThreadState]
  /\ \A u \in Threads \ {t} : thread'[u] = thread[u]

LEMMA Becomes ==
  ASSUME TypeOK, NEW t \in Threads, NEW r \in ThreadState,
         thread' = [thread EXCEPT ![t] = r]
  PROVE  Alone(t) /\ thread'[t] = r
BY DEF TypeOK, ThreadState, Alone

LEMMA IdleState ==
  ASSUME NEW state \in ThreadStates
  PROVE  /\ Idle(state) \in ThreadState
         /\ Idle(state).state = state /\ Idle(state).index = NumClasses /\ Idle(state).bytes = 0
<1>1. NumClasses \in 0 .. NumClasses
  BY StreamingAssumption
<1> QED
  BY <1>1 DEF Idle, ThreadState

LEMMA Least ==
  ASSUME NEW a \in Nat, NEW b \in Nat
  PROVE  Min({a, b}) \in {a, b} /\ Min({a, b}) <= a /\ Min({a, b}) <= b
<1>1. \E x \in {a, b} : \A y \in {a, b} : x <= y
  OBVIOUS
<1>2. Min({a, b}) \in {a, b} /\ \A y \in {a, b} : Min({a, b}) <= y
  BY <1>1 DEF Min
<1> QED
  BY <1>2

\* An estimate is a size or the limit, and within the limit.
LEMMA Estimate ==
  ASSUME NEW s \in Sizes
  PROVE  Min({s, Limit}) \in Sizes \cup {Limit} /\ Min({s, Limit}) \in 0 .. Limit
<1>1. s \in Nat /\ Limit \in Nat
  BY StreamingAssumption
<1>2. Min({s, Limit}) \in {s, Limit} /\ Min({s, Limit}) <= Limit
  BY <1>1, Least
<1> QED
  BY <1>1, <1>2

\* A thread that gets a class waits for its bytes.
LEMMA AskingAlone ==
  ASSUME TypeOK, NEW t \in Threads, NEW i \in Index, NEW s \in Sizes,
         thread' = [thread EXCEPT ![t] = [Idle("reserving") EXCEPT !.index = i,
                                                                !.size = Min({s, Limit})]]
  PROVE  /\ Alone(t)
         /\ thread'[t].state = "reserving" /\ thread'[t].index = i /\ thread'[t].bytes = 0
         /\ thread'[t].size \in Sizes \cup {Limit} /\ thread'[t].size <= Limit
<1> DEFINE m == Min({s, Limit})
           r == [Idle("reserving") EXCEPT !.index = i, !.size = m]
<1>1. m \in Sizes \cup {Limit} /\ m <= Limit /\ m \in Nat
  BY Estimate, StreamingAssumption
<1>2. thread' = [thread EXCEPT ![t] = r]
  OBVIOUS
<1> HIDE DEF m
<1>3. i \in 0 .. NumClasses
  BY StreamingAssumption DEF Index
<1>4. r \in ThreadState /\ r.state = "reserving" /\ r.index = i /\ r.bytes = 0 /\ r.size = m
  BY <1>1, <1>3 DEF Idle, ThreadState, ThreadStates
<1> HIDE DEF r
<1> QED
  BY <1>1, <1>2, <1>4, Becomes

LEMMA ExitAlone ==
  ASSUME TypeOK, NEW t \in Threads, Exit(t)
  PROVE  /\ Alone(t) /\ thread'[t].state = "exited" /\ thread'[t].index = NumClasses
         /\ thread'[t].bytes = 0
BY IdleState, Becomes DEF Exit, ThreadStates

LEMMA ReserveAlone ==
  ASSUME TypeOK, NEW t \in Threads, Reserve(t)
  PROVE  /\ Alone(t) /\ thread'[t].state = "rendering" /\ thread'[t].index = thread[t].index
         /\ thread'[t].bytes = thread[t].size /\ thread'[t].size = thread[t].size
<1> DEFINE r == [thread[t] EXCEPT !.state = "rendering", !.bytes = thread[t].size]
<1>1. /\ r \in ThreadState /\ r.state = "rendering" /\ r.index = thread[t].index
      /\ r.bytes = thread[t].size /\ r.size = thread[t].size
  <2>1. thread[t] \in ThreadState
    BY DEF TypeOK, ThreadState
  <2> QED
    BY <2>1 DEF ThreadState, ThreadStates
<1>2. thread' = [thread EXCEPT ![t] = r]
  BY DEF Reserve, TypeOK
<1> HIDE DEF r
<1> QED
  BY <1>1, <1>2, Becomes

LEMMA RenderAlone ==
  ASSUME TypeOK, NEW t \in Threads, Render(t)
  PROVE  /\ Alone(t) /\ thread'[t].state = "finishing" /\ thread'[t].index = thread[t].index
         /\ thread'[t].bytes = thread[t].bytes /\ thread'[t].size \in Sizes
<1>1. PICK size \in Sizes, ok \in BOOLEAN :
        thread' = [thread EXCEPT ![t].state = "finishing", ![t].size = size, ![t].ok = ok]
  BY DEF Render
<1> DEFINE r == [thread[t] EXCEPT !.state = "finishing", !.size = size, !.ok = ok]
<1>2. /\ r \in ThreadState /\ r.state = "finishing" /\ r.index = thread[t].index
      /\ r.bytes = thread[t].bytes /\ r.size = size
  <2>1. thread[t] \in ThreadState /\ size \in Nat
    BY StreamingAssumption DEF TypeOK, ThreadState
  <2> QED
    BY <2>1 DEF ThreadState, ThreadStates
<1>3. thread' = [thread EXCEPT ![t] = r]
  BY <1>1 DEF TypeOK
<1> HIDE DEF r
<1> QED
  BY <1>2, <1>3, Becomes

LEMMA FinishAlone ==
  ASSUME TypeOK, NEW t \in Threads, Finish(t)
  PROVE  /\ Alone(t) /\ thread'[t].state = "sending" /\ thread'[t].index = thread[t].index
         /\ thread'[t].bytes = thread[t].size
<1> DEFINE r == [thread[t] EXCEPT !.state = "sending", !.bytes = thread[t].size]
<1>1. /\ r \in ThreadState /\ r.state = "sending" /\ r.index = thread[t].index
      /\ r.bytes = thread[t].size
  <2>1. thread[t] \in ThreadState
    BY DEF TypeOK, ThreadState
  <2> QED
    BY <2>1 DEF ThreadState, ThreadStates
<1>2. thread' = [thread EXCEPT ![t] = r]
  BY DEF Finish, TypeOK
<1> HIDE DEF r
<1> QED
  BY <1>1, <1>2, Becomes

LEMMA SendAlone ==
  ASSUME TypeOK, NEW t \in Threads, Send(t)
  PROVE  /\ Alone(t) /\ thread'[t].state \in {"receiving", "returning"}
         /\ t \notin Workers => thread'[t].state = "returning"
         /\ thread'[t].index = NumClasses /\ thread'[t].bytes = 0
BY IdleState, Becomes DEF Send, ThreadStates

\* A class is at work while its thread is not idle.
LEMMA AtWork ==
  ASSUME TypeOK, NEW t \in Threads, Rendering(t), thread[t].state \notin Idling
  PROVE  thread[t].index \in Index
BY StreamingAssumption, SMTT(30) DEF TypeOK, Rendering, Index

-----------------------------------------------------------------------------
(* Types *)

BudgetState == [reserved : Nat, head : 0 .. NumClasses, stopped : BOOLEAN]

LEMMA ReservedBecomes ==
  ASSUME TypeOK, NEW n \in Nat, budget' = [budget EXCEPT !.reserved = n]
  PROVE  /\ budget' \in BudgetState
         /\ budget'.reserved = n /\ budget'.head = budget.head /\ budget'.stopped = budget.stopped
BY DEF TypeOK, BudgetState

LEMMA SatSubType ==
  ASSUME NEW a \in Nat, NEW b \in Nat
  PROVE  SatSub(a, b) \in Nat
BY DEF SatSub

\* The head, the channels, the flags and what the coordinator keeps are not touched by threads,
\* except that they take jobs and add results.
LEMMA ThreadTypes ==
  ASSUME SInv, NEW t \in Threads, RenderThread(t)
  PROVE  TypeOK' /\ budget'.head = budget.head /\ budget'.stopped = budget.stopped
<1> USE DEF flags, channels, scan, report
<1>0. TypeOK /\ Rendering(t) /\ thread \in [Threads -> ThreadState]
  BY DEF SInv, Located, TypeOK, ThreadState
<1>1. CASE ReceiveJob(t)
  <2>1. Head(jobs) \in Index /\ jobs' \in Seq(Index) /\ Len(jobs') <= Window
    <3>1. jobs \in Seq(Index) /\ jobs # <<>> /\ jobs' = Tail(jobs) /\ Len(jobs) <= Window
      BY <1>0, <1>1 DEF ReceiveJob, TypeOK
    <3>2. Head(jobs) \in Index /\ Tail(jobs) \in Seq(Index) /\ Len(Tail(jobs)) = Len(jobs) - 1
      BY <3>1, HeadTailProperties
    <3> QED
      BY <3>1, <3>2, StreamingAssumption
  <2>2. Alone(t)
    <3>1. CASE Unwanted
      BY <1>0, <1>1, <3>1, ExitAlone DEF ReceiveJob
    <3>2. CASE ~Unwanted
      <4>1. PICK s \in Sizes :
              thread' = [thread EXCEPT ![t] =
                           [Idle("reserving") EXCEPT !.index = Head(jobs),
                                                  !.size = Min({s, Limit})]]
        BY <1>1, <3>2 DEF ReceiveJob
      <4> QED
        BY <1>0, <2>1, <4>1, AskingAlone
    <3> QED
      BY <3>1, <3>2
  <2> QED
    BY <1>0, <1>1, <2>1, <2>2 DEF ReceiveJob, TypeOK, Alone, ThreadState
<1>2. CASE ReceiveDisconnected(t)
  BY <1>0, <1>2, ExitAlone DEF ReceiveDisconnected, TypeOK, Alone, ThreadState
<1>3. CASE Reserve(t)
  <2>1. Alone(t)
    BY <1>0, <1>3, ReserveAlone
  <2>2. budget.reserved + thread[t].size \in Nat
    BY <1>0, SMTT(30) DEF TypeOK
  <2>3. /\ budget' \in BudgetState
        /\ budget'.head = budget.head /\ budget'.stopped = budget.stopped
    BY <1>0, <1>3, <2>2, ReservedBecomes DEF Reserve
  <2>4. thread[t].index \in Index /\ started[thread[t].index] = 0
    BY <1>0, <1>3, AtWork DEF Reserve, Rendering, Idling
  <2>5. started' \in [Index -> 0 .. 1]
    BY <1>0, <1>3, <2>4 DEF Reserve, TypeOK
  <2> QED
    BY <1>0, <1>3, <2>1, <2>3, <2>5 DEF Reserve, TypeOK, Alone, ThreadState, BudgetState
<1>4. CASE ReserveRefused(t)
  <2>1. Alone(t)
    BY <1>0, <1>4, ExitAlone DEF ReserveRefused
  <2>2. UNCHANGED <<flags, stop, budget, channels, at, scan, started, report>>
    BY <1>4 DEF ReserveRefused
  <2> QED
    BY <1>0, <2>1, <2>2 DEF TypeOK, Alone, ThreadState, flags, channels, scan, report
<1>5. CASE Render(t)
  <2>1. Alone(t)
    BY <1>0, <1>5, RenderAlone
  <2> QED
    BY <1>0, <1>5, <2>1 DEF Render, TypeOK, Alone, ThreadState
<1>6. CASE Finish(t)
  <2>1. Alone(t)
    BY <1>0, <1>6, FinishAlone
  <2>2. SatSub(budget.reserved, thread[t].bytes) + thread[t].size \in Nat
    <3>1. budget.reserved \in Nat /\ thread[t].bytes \in Nat /\ thread[t].size \in Nat
      BY <1>0 DEF TypeOK
    <3>2. SatSub(budget.reserved, thread[t].bytes) \in Nat
      BY <3>1, SatSubType
    <3> QED
      BY <3>1, <3>2
  <2>3. /\ budget' \in BudgetState
        /\ budget'.head = budget.head /\ budget'.stopped = budget.stopped
    BY <1>0, <1>6, <2>2, ReservedBecomes DEF Finish
  <2> QED
    BY <1>0, <1>6, <2>1, <2>3 DEF Finish, TypeOK, Alone, ThreadState, BudgetState
<1>7. CASE FinishRefused(t) \/ SendFailed(t)
  <2>1. Alone(t)
    BY <1>0, <1>7, ExitAlone DEF FinishRefused, SendFailed
  <2>2. SatSub(budget.reserved, thread[t].bytes) \in Nat
    BY <1>0, SatSubType DEF TypeOK
  <2>3. /\ budget' \in BudgetState
        /\ budget'.head = budget.head /\ budget'.stopped = budget.stopped
    BY <1>0, <1>7, <2>2, ReservedBecomes DEF FinishRefused, SendFailed
  <2>4. UNCHANGED <<flags, stop, channels, at, scan, started, report>>
    BY <1>7 DEF FinishRefused, SendFailed
  <2> QED
    BY <1>0, <2>1, <2>3, <2>4
       DEF TypeOK, Alone, ThreadState, BudgetState, flags, channels, scan, report
<1>8. CASE Send(t)
  <2>1. Alone(t)
    BY <1>0, <1>8, SendAlone
  <2>2. thread[t].index \in Index
    BY <1>0, <1>8, AtWork DEF Send, Idling
  <2>3. [index |-> thread[t].index, bytes |-> thread[t].bytes, ok |-> thread[t].ok] \in Message
    BY <1>0, <2>2 DEF TypeOK, Message
  <2>4. results' \in Seq(Message) /\ Len(results') <= Window
    BY <1>0, <1>8, <2>3, StreamingAssumption DEF Send, TypeOK
  <2> QED
    BY <1>0, <1>8, <2>1, <2>4 DEF Send, TypeOK, Alone, ThreadState
<1>9. CASE Return(t)
  <2>1. Alone(t)
    BY <1>0, <1>9, ExitAlone DEF Return
  <2>2. UNCHANGED <<flags, stop, budget, channels, at, scan, started, report>>
    BY <1>9 DEF Return
  <2> QED
    BY <1>0, <2>1, <2>2 DEF TypeOK, Alone, ThreadState, flags, channels, scan, report
<1> QED
  BY <1>1, <1>2, <1>3, <1>4, <1>5, <1>6, <1>7, <1>8, <1>9 DEF RenderThread

-----------------------------------------------------------------------------
(* The coordinator *)

OutcomeKinds == {"rejected", "skipped", "scanned"}
OutcomeState == [class : Index, kind : OutcomeKinds, hits : 0 .. MaxHits]
SummaryState ==
  [scanned : 0 .. NumClasses, rejections : 0 .. NumClasses, skipped : 0 .. 2 * NumClasses,
   hits : 0 .. MaxHits, limited : BOOLEAN, cancelled : BOOLEAN]

LEMMA SettledAppends ==
  ASSUME TypeOK, NEW i \in Index, NEW kind \in OutcomeKinds, NEW hits \in 0 .. MaxHits,
         Settled(i, kind, hits)
  PROVE  /\ outcomes' \in Seq(OutcomeState) /\ Len(outcomes') = Len(outcomes) + 1
         /\ Len(outcomes) \in Nat
<1>1. [class |-> i, kind |-> kind, hits |-> hits] \in OutcomeState
  BY DEF OutcomeState
<1>2. outcomes \in Seq(OutcomeState)
  BY DEF TypeOK, OutcomeState, OutcomeKinds
<1> HIDE DEF OutcomeState
<1> QED
  BY <1>1, <1>2 DEF Settled

LEMMA LeaveRecorded ==
  ASSUME TypeOK, Leave("cancelled")
  PROVE  /\ at' = "leaving" /\ summary' \in SummaryState
         /\ summary'.scanned = summary.scanned /\ summary'.rejections = summary.rejections
         /\ summary'.skipped = summary.skipped /\ summary'.hits = summary.hits
         /\ summary'.limited = summary.limited /\ summary'.cancelled
BY DEF TypeOK, Leave, SummaryState

LEMMA Numbers ==
  ASSUME TypeOK
  PROVE  /\ NumClasses \in Nat /\ Window \in Nat \ {0} /\ MaxHits \in Nat \ {0}
         /\ index \in Nat /\ index <= NumClasses /\ next \in Nat /\ next <= NumClasses
         /\ Len(pending) \in Nat /\ Len(pending) <= Window
         /\ Len(jobs) \in Nat /\ Len(jobs) <= Window
         /\ Len(outcomes) \in Nat /\ cancelledAt \in Nat
         /\ summary.scanned \in Nat /\ summary.scanned <= NumClasses
         /\ summary.rejections \in Nat /\ summary.skipped \in Nat /\ summary.hits \in Nat
         /\ summary \in SummaryState /\ budget \in BudgetState
         /\ First \in Int /\ First + Len(pending) = next
<1>1. /\ NumClasses \in Nat /\ Window \in Nat \ {0} /\ MaxHits \in Nat \ {0}
  BY StreamingAssumption
<1>2. /\ index \in Nat /\ index <= NumClasses /\ next \in Nat /\ next <= NumClasses
      /\ Len(pending) \in Nat /\ Len(pending) <= Window
      /\ Len(jobs) \in Nat /\ Len(jobs) <= Window
      /\ Len(outcomes) \in Nat /\ cancelledAt \in Nat
  BY <1>1 DEF TypeOK
<1>3. summary \in SummaryState /\ budget \in BudgetState
  BY DEF TypeOK, SummaryState, BudgetState
<1>4. /\ summary.scanned \in Nat /\ summary.scanned <= NumClasses
      /\ summary.rejections \in Nat /\ summary.skipped \in Nat /\ summary.hits \in Nat
  BY <1>1, <1>3 DEF SummaryState
<1>5. First \in Int /\ First + Len(pending) = next
  BY <1>2 DEF First
<1> QED
  BY <1>1, <1>2, <1>3, <1>4, <1>5

\* The class whose turn it is, and its number among those admitted.
LEMMA TurnFacts ==
  ASSUME TypeOK, Turn
  PROVE  /\ index \in 0 .. NumClasses /\ next \in 0 .. NumClasses /\ Len(pending) \in 0 .. Window
         /\ First \in 0 .. NumClasses /\ First + Len(pending) = next
         /\ at \notin Before \cup Over => index \in Index
<1>1. /\ index \in 0 .. NumClasses /\ next \in 0 .. NumClasses /\ NumClasses \in Nat
           /\ Window \in Nat
      /\ Len(pending) \in Nat /\ Len(pending) <= Window
  BY StreamingAssumption DEF TypeOK
<1> QED
  BY <1>1 DEF Turn, First, Index

\* The parts of the invariant about the coordinator keep their values with its variables.
LEMMA ControlSame ==
  ASSUME Control, UNCHANGED <<cancel, cancelledAt, stop, at, index, next, pending, preparedAs,
         taken, summary, outcomes, rxOpen>>,
         budget'.head = budget.head, budget'.stopped = budget.stopped
  PROVE  Control'
BY DEF Control, Turn, Counted, Required, InTurn, Closed, CancelSeen, First

LEMMA BeginClassControl ==
  ASSUME SInv, BeginClass
  PROVE  TypeOK' /\ Control'
<1> USE DEF flags, channels, scan, report
<1>1. TypeOK /\ Control
  BY DEF SInv
<1>2. CASE index = NumClasses
  <2>1. TypeOK'
    BY <1>1, <1>2 DEF BeginClass, TypeOK, Places
  <2>2. Control'
    BY <1>1, <1>2 DEF BeginClass, Control, Turn, Counted, Required, InTurn, Closed, CancelSeen,
                      First, Before, Over
  <2> QED
    BY <2>1, <2>2
<1>3. CASE index # NumClasses
  <2>1. /\ budget' = [budget EXCEPT !.head = index] /\ index \in 0 .. NumClasses
        /\ UNCHANGED <<flags, stop, channels, thread, scan, started, outcomes>> /\ at = "top"
    BY <1>1, <1>3 DEF BeginClass, TypeOK
  <2>2. /\ budget' \in BudgetState
        /\ budget'.head = index /\ budget'.stopped = budget.stopped
    BY <1>1, <2>1 DEF TypeOK, BudgetState
  <2>3. CASE cancel
    <3>1. Leave("cancelled")
      BY <1>3, <2>3 DEF BeginClass
    <3>2. TypeOK'
      BY <1>1, <2>1, <2>2, <3>1, LeaveRecorded DEF TypeOK, BudgetState, SummaryState, Places
    <3>3. Control'
      BY <1>1, <2>1, <2>2, <3>1, LeaveRecorded
         DEF Control, Turn, Counted, Required, InTurn, Closed, CancelSeen, First, Before, Over
    <3> QED
      BY <3>2, <3>3
  <2>4. CASE ~cancel
    <3>1. at' = "admitting" /\ summary' = summary
      BY <1>3, <2>4 DEF BeginClass
    <3>2. TypeOK'
      BY <1>1, <2>1, <2>2, <3>1 DEF TypeOK, BudgetState, Places
    <3>3. Control'
      BY <1>1, <1>3, <2>1, <2>2, <2>4, <3>1, StreamingAssumption
         DEF Control, Turn, Counted, Required, InTurn, Closed, CancelSeen, First, Before, Over
    <3> QED
      BY <3>2, <3>3
  <2> QED
    BY <2>3, <2>4
<1> QED
  BY <1>2, <1>3

LEMMA AdmitControl ==
  ASSUME SInv, Admit
  PROVE  TypeOK' /\ Control'
<1> USE DEF flags, channels, scan, report
<1>1. TypeOK /\ Control
  BY DEF SInv
<1>2. PICK prepared \in Prepared :
        /\ pending' = Append(pending, prepared)
        /\ \/ Len(jobs) < Window /\ jobs' = Append(jobs, next)
           \/ jobs' = jobs
  BY DEF Admit
<1>3. /\ pending' \in Seq(Prepared) /\ Len(pending') = Len(pending) + 1 /\ Len(pending) < Window
      /\ pending \in Seq(Prepared)
  BY <1>1, <1>2 DEF Admit, MayAdmit, TypeOK
<1>4. next \in Index /\ next' = next + 1 /\ next' \in 0 .. NumClasses
  BY <1>1, StreamingAssumption DEF Admit, MayAdmit, TypeOK, Index
<1>5. jobs' \in Seq(Index) /\ Len(jobs') <= Window
  <2>1. jobs \in Seq(Index) /\ Len(jobs) \in Nat /\ Len(jobs) <= Window /\ Window \in Nat
    BY <1>1, Numbers DEF TypeOK
  <2> QED
    BY <1>2, <1>4, <2>1, SMTT(30)
<1>6. Len(pending') \in Nat /\ Len(pending') <= Window /\ Len(pending) \in Nat
  BY <1>3, StreamingAssumption
<1>7. First' = First
  BY <1>1, <1>3, <1>4, <1>6 DEF First, TypeOK
<1>8. TypeOK'
  BY <1>1, <1>3, <1>4, <1>5, <1>6 DEF Admit, TypeOK
<1>9. Control'
  <2>1. /\ UNCHANGED <<cancel, cancelledAt, stop, budget, rxOpen, at, index, preparedAs, taken,
             summary, outcomes>>
        /\ at = "admitting" /\ First' <= next'
    BY <1>1, <1>4, <1>7, Numbers DEF Admit, Control, Turn
  <2> QED
    BY <1>1, <1>7, <2>1 DEF Control, Turn, Counted, Required, InTurn, Closed, CancelSeen
<1> QED
  BY <1>8, <1>9

\* The steps that leave the scan because it was cancelled.
LEMMA LeaveControl ==
  ASSUME SInv, AdmitCancelled \/ WaitCancelled \/ (at = "settling" /\ cancel /\ Settle)
  PROVE  TypeOK' /\ Control'
<1> USE DEF flags, channels, scan, report
<1>1. TypeOK /\ Control
  BY DEF SInv
<1>2. /\ Leave("cancelled") /\ at \in {"admitting", "waiting", "settling"} /\ cancel
      /\ UNCHANGED <<flags, stop, budget, channels, thread, scan, started, outcomes>>
  BY DEF AdmitCancelled, WaitCancelled, Settle
<1>3. TypeOK'
  BY <1>1, <1>2, LeaveRecorded DEF TypeOK, SummaryState, Places
<1>4. Control'
  <2>1. First' = First /\ at' = "leaving"
    BY <1>1, <1>2, LeaveRecorded DEF First
  <2>2. Turn' /\ Required' /\ InTurn' /\ Closed' /\ CancelSeen'
    BY <1>1, <1>2, <2>1, LeaveRecorded, Numbers
       DEF Control, Turn, Required, InTurn, Closed, CancelSeen, Before, Over
  <2>3. Counted'
    <3>1. summary.scanned = First /\ Len(outcomes) = index /\ summary.skipped <= index
              /\ index <= First
      BY <1>1, <1>2 DEF Control, Counted, Over, Turn
    <3> QED
      BY <1>1, <1>2, <2>1, <3>1, LeaveRecorded, Numbers, SMTT(30) DEF Control, Counted, Over
  <2> QED
    BY <2>2, <2>3 DEF Control
<1> QED
  BY <1>3, <1>4

LEMMA TakeControl ==
  ASSUME SInv, Take
  PROVE  /\ TypeOK' /\ Control'
         /\ index \in Index /\ pending # <<>> /\ First = index
<1> USE DEF flags, channels, scan, report
<1>1. TypeOK /\ Control
  BY DEF SInv
<1>0. at = "admitting" /\ ~MayAdmit
  BY DEF Take
<1>2. at = "admitting" /\ First = index /\ index < NumClasses /\ index \in Index
  BY <1>0, <1>1, Numbers DEF Control, Turn, Before, Index
<1>3. pending # <<>> /\ Len(pending) \in Nat /\ Len(pending) # 0
  <2>1. next = NumClasses \/ Len(pending) = Window
    BY <1>0, <1>1, Numbers DEF MayAdmit
  <2>2. Len(pending) # 0
    BY <1>1, <1>2, <2>1, Numbers
  <2>3. pending # <<>>
    BY <2>2
  <2> QED
    BY <1>1, <2>2, <2>3, Numbers
<1>4. /\ pending' \in Seq(Prepared) /\ Len(pending') = Len(pending) - 1 /\ preparedAs' \in Prepared
  BY <1>1, <1>3, HeadTailProperties DEF Take, TypeOK
<1>5. First' = First + 1 /\ First \in Nat /\ First + 1 <= next
  <2>1. next' = next
    BY DEF Take
  <2> QED
    BY <1>1, <1>2, <1>3, <1>4, <2>1, Numbers, SMTT(30) DEF First
<1>6. /\ UNCHANGED <<flags, stop, budget, channels, next, completed, started>>
      /\ taken' = NoMessage
  BY DEF Take
<1>8. CASE Head(pending) = "rejected"
  <2>1. /\ summary' = [summary EXCEPT !.scanned = @ + 1, !.rejections = @ + 1]
        /\ Settled(index, "rejected", 0) /\ NextClass /\ thread' = thread
    BY <1>8 DEF Take
  <2>2. summary.scanned = index /\ Len(outcomes) = index /\ summary.rejections <= index
    BY <1>1, <1>2 DEF Control, Counted, Over
  <2>3. /\ summary' \in SummaryState /\ summary'.scanned = index + 1
        /\ summary'.rejections = summary.rejections + 1 /\ summary'.skipped = summary.skipped
        /\ summary'.hits = summary.hits /\ summary'.limited = summary.limited
        /\ summary'.cancelled = summary.cancelled /\ summary.rejections \in Nat
    <3>1. /\ summary \in SummaryState /\ index + 1 \in 0 .. NumClasses
          /\ summary.rejections + 1 \in 0 .. NumClasses /\ summary.rejections \in Nat
      BY <1>1, <1>2, <2>2, Numbers, SMTT(30)
    <3> QED
      BY <2>1, <2>2, <3>1 DEF SummaryState
  <2>4. outcomes' \in Seq(OutcomeState) /\ Len(outcomes') = index + 1
    BY <1>1, <1>2, <2>1, <2>2, SettledAppends, StreamingAssumption DEF OutcomeKinds
  <2>5. TypeOK'
    <3>1. /\ Len(pending') <= Window /\ index' \in 0 .. NumClasses /\ at' \in Places
          /\ UNCHANGED thread /\ taken' \in Message \cup {NoMessage}
      BY <1>1, <1>2, <1>3, <1>4, <1>6, <2>1, Numbers, SMTT(30) DEF NextClass, Places
    <3> QED
      BY <1>1, <1>4, <1>6, <2>3, <2>4, <3>1
         DEF TypeOK, SummaryState, OutcomeState, OutcomeKinds
  <2>6. Control'
    <3>1. index' = index + 1 /\ at' = "top"
      BY <2>1 DEF NextClass
    <3>2. Turn' /\ Required' /\ InTurn' /\ Closed'
      BY <1>1, <1>2, <1>5, <1>6, <3>1, Numbers
         DEF Control, Turn, Required, InTurn, Closed, Before, Over
    <3>3. Counted' /\ CancelSeen'
      BY <1>1, <1>2, <1>5, <1>6, <2>2, <2>3, <2>4, <3>1, Numbers, SMTT(30)
         DEF Control, Counted, CancelSeen, Over
    <3> QED
      BY <3>2, <3>3 DEF Control
  <2> QED
    BY <1>2, <1>3, <2>5, <2>6
<1>9. CASE Head(pending) # "rejected"
  <2>1. /\ summary' = [summary EXCEPT !.scanned = @ + 1]
        /\ at' \in {"waiting", "matching"} /\ index' = index /\ outcomes' = outcomes
    BY <1>9 DEF Take
  <2>2. summary.scanned = index
    BY <1>1, <1>2 DEF Control, Counted, Over
  <2>3. /\ summary' \in SummaryState /\ summary'.scanned = index + 1
        /\ summary'.rejections = summary.rejections /\ summary'.skipped = summary.skipped
        /\ summary'.hits = summary.hits /\ summary'.limited = summary.limited
        /\ summary'.cancelled = summary.cancelled
    <3>1. summary \in SummaryState /\ index + 1 \in 0 .. NumClasses
      BY <1>1, <1>2, Numbers, SMTT(30)
    <3> QED
      BY <2>1, <2>2, <3>1 DEF SummaryState
  <2>4. thread' \in [Threads -> ThreadState]
    <3>1. CASE thread' = thread
      BY <1>1, <3>1 DEF TypeOK, ThreadState
    <3>2. CASE thread' # thread
      <4>1. PICK s \in Sizes :
              thread' = [thread EXCEPT ![index] =
                           [Idle("reserving") EXCEPT !.index = index, !.size = Min({s, Limit})]]
        BY <1>9, <3>2 DEF Take
      <4> QED
        BY <1>1, <1>2, <4>1, AskingAlone DEF Threads, Alone
    <3> QED
      BY <3>1, <3>2
  <2>5. TypeOK'
    <3>1. /\ Len(pending') <= Window /\ index' = index /\ at' \in Places /\ outcomes' = outcomes
          /\ taken' \in Message \cup {NoMessage}
      BY <1>1, <1>3, <1>4, <1>6, <2>1, Numbers, SMTT(30) DEF Places
    <3> QED
      BY <1>1, <1>4, <1>6, <2>3, <2>4, <3>1 DEF TypeOK, SummaryState, ThreadState
  <2>6. Control'
    <3>1. Turn' /\ Required' /\ InTurn' /\ Closed'
      BY <1>1, <1>2, <1>5, <1>6, <2>1, Numbers, SMTT(30)
         DEF Control, Turn, Required, InTurn, Closed, Before, Over
    <3>2. Counted' /\ CancelSeen'
      BY <1>1, <1>2, <1>5, <1>6, <2>1, <2>2, <2>3, Numbers
         DEF Control, Counted, CancelSeen, Over
    <3> QED
      BY <3>1, <3>2 DEF Control
  <2> QED
    BY <1>2, <1>3, <2>5, <2>6
<1> QED
  BY <1>8, <1>9

\* The steps that only move on in the wait for a result, or in leaving.
LEMMA WaitControl ==
  ASSUME SInv, Poll \/ ReceiveResult \/ PollTimeout \/ Join
  PROVE  TypeOK' /\ Control'
<1> USE DEF flags, channels, scan, report
<1>1. TypeOK /\ Control
  BY DEF SInv
<1>2. /\ at \in {"waiting", "polling", "joining"} /\ at' \in {"waiting", "polling", "settling"}
      /\ at' = "settling" => at = "joining"
      /\ UNCHANGED <<flags, stop, budget, jobs, jobsOpen, rxOpen, thread, index, next, pending,
                     preparedAs, taken, started, report>>
  BY DEF Poll, ReceiveResult, PollTimeout, Join
<1>3. results' \in Seq(Message) /\ Len(results') <= Window /\ completed' \subseteq Message
  <2>1. CASE ReceiveResult
    <3>1. results \in Seq(Message) /\ results # <<>> /\ results' = Tail(results)
          /\ completed' = completed \cup {Head(results)}
      BY <1>1, <2>1 DEF ReceiveResult, TypeOK
    <3>2. /\ Head(results) \in Message /\ Tail(results) \in Seq(Message)
          /\ Len(Tail(results)) = Len(results) - 1
      BY <3>1, HeadTailProperties
    <3>3. Len(results) \in Nat /\ Len(results) <= Window /\ Window \in Nat
      BY <1>1, <3>1, Numbers, SMTT(30) DEF TypeOK
    <3> QED
      BY <1>1, <3>1, <3>2, <3>3, SMTT(30) DEF TypeOK
  <2>2. CASE ~ReceiveResult
    BY <1>1, <2>2 DEF Poll, PollTimeout, Join, TypeOK
  <2> QED
    BY <2>1, <2>2
<1>4. TypeOK'
  BY <1>1, <1>2, <1>3, SMTT(30) DEF TypeOK, Places
<1>5. Control'
  BY <1>1, <1>2, Numbers
     DEF Control, Turn, Counted, Required, InTurn, Closed, CancelSeen, First, Before, Over
<1> QED
  BY <1>4, <1>5

LEMMA ConsumeControl ==
  ASSUME SInv, Consume
  PROVE  TypeOK' /\ Control'
<1> USE DEF flags, channels, scan, report
<1>1. TypeOK /\ Control
  BY DEF SInv
<1>2. PICK m \in Arrived :
        /\ completed' = completed \ {m} /\ taken' = m
        /\ budget' = [budget EXCEPT !.reserved = SatSub(@, m.bytes)]
  BY DEF Consume
<1>3. m \in Message /\ m.index = index /\ m \in Message \cup {NoMessage} /\ m.bytes \in Nat
  BY <1>1 DEF Arrived, TypeOK, Message
<1>4. /\ at = "waiting" /\ at' \in {"joining", "settling"} /\ completed' \subseteq Message
      /\ UNCHANGED <<flags, stop, channels, thread, index, next, pending, preparedAs, started,
           report>>
  BY <1>1, <1>2 DEF Consume, TypeOK
<1>5. /\ budget' \in BudgetState
      /\ budget'.head = budget.head /\ budget'.stopped = budget.stopped
  <2>1. budget.reserved \in Nat
    BY <1>1 DEF TypeOK
  <2>2. SatSub(budget.reserved, m.bytes) \in Nat
    BY <1>3, <2>1, SatSubType
  <2> QED
    BY <1>1, <1>2, <2>2, ReservedBecomes
<1>6. TypeOK'
  BY <1>1, <1>2, <1>3, <1>4, <1>5 DEF TypeOK, Places, BudgetState
<1>7. Control'
  BY <1>1, <1>2, <1>3, <1>4, <1>5, Numbers
     DEF Control, Turn, Counted, Required, InTurn, Closed, CancelSeen, First, Before, Over
<1> QED
  BY <1>6, <1>7

\* A class that was rendered or loaded is matched, or settled: the coordinator turns to the next
\* one, or the limit is reached.
LEMMA SettleEffect ==
  ASSUME SInv, Settle \/ MatchNothing \/ Match, at = "settling" => ~cancel
  PROVE  /\ Subject = index /\ index \in Index /\ at \in {"settling", "matching"}
         /\ UNCHANGED <<flags, stop, budget, channels, thread, next, pending, preparedAs, completed,
                        taken, started>>
         /\ \/ at = "settling" /\ at' = "matching" /\ UNCHANGED <<index, summary, outcomes>>
            \/ /\ at' \in {"top", "leaving"} /\ summary' \in SummaryState
               /\ summary'.scanned = summary.scanned /\ summary'.rejections = summary.rejections
               /\ summary'.cancelled = summary.cancelled
               /\ summary'.skipped <= summary.skipped + 1
               /\ \/ /\ at' = "top" /\ index' = index + 1
                     /\ summary'.limited = summary.limited /\ summary'.hits < MaxHits
                     /\ \E kind \in {"skipped", "scanned"}, hits \in 0 .. MaxHits :
                          /\ Settled(index, kind, hits)
                          /\ kind = "skipped" => hits = 0
                          /\ summary'.hits = summary.hits + hits
                  \/ /\ at' = "leaving" /\ index' = index /\ summary'.limited
                     /\ \/ outcomes' = outcomes /\ summary'.hits = summary.hits
                        \/ \E hits \in 0 .. MaxHits :
                             /\ Settled(index, "scanned", hits)
                             /\ summary'.hits = summary.hits + hits
<1> DEFINE Turned == at' = "top" /\ index' = index + 1
           Left == at' = "leaving" /\ index' = index /\ summary'.limited
           Kept == /\ summary' \in SummaryState
                   /\ summary'.scanned = summary.scanned /\ summary'.rejections = summary.rejections
                   /\ summary'.cancelled = summary.cancelled
                   /\ summary'.skipped <= summary.skipped + 1
<1>1. TypeOK /\ Control
  BY DEF SInv
<1>2. /\ at \in {"settling", "matching"} /\ index \in Index
      /\ summary.scanned = index + 1 /\ summary.skipped <= index /\ summary.hits < MaxHits
  BY <1>1, TurnFacts DEF Settle, MatchNothing, Match, Control, Turn, Counted, Before, Over
<1>3. Subject = index
  BY <1>1, <1>2, StreamingAssumption DEF Control, InTurn, Subject, NoMessage, Index
<1>4. UNCHANGED <<flags, stop, budget, channels, thread, next, pending, preparedAs, completed,
                  taken, started>>
  BY DEF Settle, MatchNothing, Match
<1>5. /\ summary \in SummaryState /\ summary.hits \in Nat /\ MaxHits \in Nat
      /\ summary.skipped \in Nat /\ summary.skipped + 1 \in 0 .. 2 * NumClasses
  <2>1. /\ summary \in SummaryState /\ summary.hits \in Nat /\ MaxHits \in Nat
        /\ summary.skipped \in Nat /\ index \in Nat /\ NumClasses \in Nat
    BY <1>1, Numbers
  <2>2. index < NumClasses
    BY <1>2, <2>1 DEF Index
  <2> QED
    BY <1>2, <2>1, <2>2
<1>6. CASE (Settle \/ MatchNothing) /\ at' = "matching"
  <2>1. at = "settling" /\ UNCHANGED <<index, summary, outcomes>>
    BY <1>6 DEF Settle, MatchNothing, NextClass, report
  <2> QED
    BY <1>2, <1>3, <1>4, <1>6, <2>1
<1>7. CASE (Settle \/ MatchNothing) /\ at' # "matching"
  <2>1. summary' = [summary EXCEPT !.skipped = @ + 1] /\ Settled(index, "skipped", 0) /\ Turned
    BY <1>3, <1>7 DEF Settle, MatchNothing, NextClass
  <2>2. Kept /\ summary'.limited = summary.limited /\ summary'.hits = summary.hits
    BY <1>5, <2>1 DEF SummaryState
  <2>3. 0 \in 0 .. MaxHits /\ summary'.hits = summary.hits + 0 /\ summary'.hits < MaxHits
    BY <1>2, <1>5, <2>2
  <2> QED
    BY <1>2, <1>3, <1>4, <2>1, <2>2, <2>3
<1>8. CASE Match
  <2>1. PICK note \in {0, 1}, hits \in 0 .. Min({MaxClassHits, MaxHits - summary.hits}) :
          LET counted == [summary EXCEPT !.skipped = @ + note]
          IN \/ /\ hits = 0 \/ summary.hits + hits < MaxHits
                /\ summary' = [counted EXCEPT !.hits = @ + hits]
                /\ Settled(index, "scanned", hits)
                /\ NextClass
             \/ /\ hits > 0 /\ summary.hits + hits >= MaxHits
                /\ summary' = [counted EXCEPT !.hits = @ + hits, !.limited = TRUE]
                /\ Settled(index, "scanned", hits)
                /\ at' = "leaving"
                /\ UNCHANGED index
             \/ /\ hits > 0
                /\ summary' = [counted EXCEPT !.limited = TRUE]
                /\ at' = "leaving"
                /\ UNCHANGED <<index, outcomes>>
    BY <1>3, <1>8 DEF Match
  <2>2. /\ hits \in 0 .. MaxHits /\ summary.hits + hits \in 0 .. MaxHits
        /\ summary.skipped + note \in 0 .. 2 * NumClasses
             /\ summary.skipped + note <= summary.skipped + 1
    <3>1. MaxClassHits \in Nat /\ MaxHits - summary.hits \in Nat
      BY <1>2, <1>5, StreamingAssumption
    <3>2. /\ Min({MaxClassHits, MaxHits - summary.hits}) \in Nat
          /\ Min({MaxClassHits, MaxHits - summary.hits}) <= MaxHits - summary.hits
      BY <3>1, Least
    <3> HIDE DEF Turned, Left, Kept
    <3> DEFINE m == Min({MaxClassHits, MaxHits - summary.hits})
    <3>3. hits \in 0 .. m /\ note \in {0, 1}
      BY <2>1
    <3> HIDE DEF m
    <3>4. hits \in Nat /\ hits <= MaxHits - summary.hits
      BY <1>5, <3>2, <3>3 DEF m
    <3> QED
      BY <1>5, <3>3, <3>4, StreamingAssumption
  <2>3. CASE /\ hits = 0 \/ summary.hits + hits < MaxHits
             /\ summary' = [[summary EXCEPT !.skipped = @ + note] EXCEPT !.hits = @ + hits]
             /\ Settled(index, "scanned", hits) /\ NextClass
    <3>1. Kept /\ summary'.limited = summary.limited /\ summary'.hits = summary.hits + hits
      BY <1>5, <2>2, <2>3 DEF SummaryState
    <3>2. summary'.hits < MaxHits
      BY <1>2, <1>5, <2>2, <2>3, <3>1
    <3> QED
      BY <1>2, <1>3, <1>4, <2>2, <2>3, <3>1, <3>2 DEF NextClass
  <2>4. CASE /\ summary' = [[summary EXCEPT !.skipped = @ + note] EXCEPT !.hits = @ + hits,
                  !.limited = TRUE]
             /\ Settled(index, "scanned", hits) /\ at' = "leaving" /\ UNCHANGED index
    <3>1. Kept /\ summary'.limited /\ summary'.hits = summary.hits + hits
      BY <1>5, <2>2, <2>4 DEF SummaryState
    <3> QED
      BY <1>2, <1>3, <1>4, <2>2, <2>4, <3>1
  <2>5. CASE /\ summary' = [[summary EXCEPT !.skipped = @ + note] EXCEPT !.limited = TRUE]
             /\ at' = "leaving" /\ UNCHANGED <<index, outcomes>>
    <3>1. Kept /\ summary'.limited /\ summary'.hits = summary.hits
      BY <1>5, <2>2, <2>5 DEF SummaryState
    <3> QED
      BY <1>2, <1>3, <1>4, <2>5, <3>1
  <2> QED
    BY <2>1, <2>3, <2>4, <2>5
<1> QED
  BY <1>6, <1>7, <1>8

LEMMA SettleControl ==
  ASSUME SInv, Settle \/ MatchNothing \/ Match, at = "settling" => ~cancel
  PROVE  TypeOK' /\ Control'
<1> USE DEF flags, channels, scan, report
<1>1. TypeOK /\ Control /\ First' = First
  BY DEF SInv, First, Settle, MatchNothing, Match
<1>2. /\ at \in {"settling", "matching"} /\ First = index + 1 /\ index \in Index
      /\ summary.scanned = First /\ Len(outcomes) = index /\ summary.skipped <= index
      /\ summary.hits < MaxHits /\ ~summary.limited /\ ~summary.cancelled
  BY <1>1, SettleEffect, TurnFacts DEF Control, Turn, Counted, Before, Over
<1>3. UNCHANGED <<flags, stop, budget, channels, thread, next, pending, preparedAs, completed,
                  taken, started>>
  BY SettleEffect
<1>4. CASE at' = "matching" /\ UNCHANGED <<index, summary, outcomes>>
  <2>1. at = "settling"
    BY <1>4, SettleEffect
  <2>2. TypeOK'
    BY <1>1, <1>3, <1>4 DEF TypeOK, Places
  <2>3. Control'
    BY <1>1, <1>3, <1>4, <2>1
       DEF Control, Turn, Counted, Required, InTurn, Closed, CancelSeen, Before, Over
  <2> QED
    BY <2>2, <2>3
<1>5. CASE at' # "matching"
  <2>1. /\ summary' \in SummaryState
        /\ summary'.scanned = summary.scanned /\ summary'.rejections = summary.rejections
        /\ summary'.cancelled = summary.cancelled /\ summary'.skipped <= summary.skipped + 1
        /\ \/ at' = "top" /\ index' = index + 1 /\ ~summary'.limited /\ summary'.hits < MaxHits
           \/ at' = "leaving" /\ index' = index /\ summary'.limited
    BY <1>2, <1>5, SettleEffect
  <2>2. /\ outcomes' \in Seq(OutcomeState)
        /\ at' = "top" => Len(outcomes') = index + 1
        /\ at' = "leaving" => Len(outcomes') \in {index, index + 1}
    <3>1. outcomes' = outcomes =>
            outcomes' \in Seq(OutcomeState) /\ Len(outcomes') = index
      BY <1>1, <1>2 DEF TypeOK, OutcomeState, OutcomeKinds
    <3>2. ASSUME NEW kind \in {"skipped", "scanned"}, NEW hits \in 0 .. MaxHits,
                 Settled(index, kind, hits)
          PROVE  outcomes' \in Seq(OutcomeState) /\ Len(outcomes') = index + 1
      BY <1>1, <1>2, <3>2, SettledAppends DEF OutcomeKinds
    <3>3. \/ at' = "leaving" /\ outcomes' = outcomes
          \/ \E kind \in {"skipped", "scanned"}, hits \in 0 .. MaxHits : Settled(index, kind, hits)
      <4>1. CASE at' = "top"
        <5>1. \E kind \in {"skipped", "scanned"}, hits \in 0 .. MaxHits :
                /\ Settled(index, kind, hits)
                /\ kind = "skipped" => hits = 0
                /\ summary'.hits = summary.hits + hits
          BY <4>1, SettleEffect
        <5> QED
          BY <5>1, Zenon
      <4>2. CASE at' = "leaving"
        <5>1. outcomes' = outcomes \/ \E hits \in 0 .. MaxHits : Settled(index, "scanned", hits)
          BY <4>2, SettleEffect
        <5> QED
          BY <4>2, <5>1
      <4> QED
        BY <2>1, <4>1, <4>2
    <3> QED
      BY <2>1, <3>1, <3>2, <3>3
  <2>3. /\ index \in Nat /\ index + 1 <= NumClasses /\ NumClasses \in Nat
        /\ summary.skipped \in Nat /\ cancelledAt \in Nat /\ summary'.skipped \in Nat
        /\ summary.rejections \in Nat
    BY <1>1, <1>2, <2>1, Numbers DEF Index, SummaryState
  <2>4. TypeOK'
    <3>1. index' \in 0 .. NumClasses /\ at' \in Places
      BY <2>1, <2>3 DEF Places
    <3> QED
      BY <1>1, <1>3, <2>1, <2>2, <3>1 DEF TypeOK, SummaryState, OutcomeState, OutcomeKinds
  <2>5. Turn' /\ Required' /\ InTurn' /\ Closed'
    BY <1>1, <1>2, <1>3, <2>1, <2>3 DEF Control, Turn, Required, InTurn, Closed, Before, Over
  <2>6. Counted' /\ CancelSeen'
    BY <1>1, <1>2, <1>3, <2>1, <2>2, <2>3 DEF Control, Counted, CancelSeen, Over
  <2> QED
    BY <2>4, <2>5, <2>6 DEF Control
<1> QED
  BY <1>4, <1>5, SettleEffect

LEMMA EndControl ==
  ASSUME SInv, LeaveScan \/ StopBudget \/ DropChannels \/ Shutdown
  PROVE  TypeOK' /\ Control'
<1> USE DEF flags, channels, scan, report
<1>1. TypeOK /\ Control
  BY DEF SInv
<1>2. CASE LeaveScan
  <2>1. /\ at = "leaving" /\ at' = "closing" /\ stop' = TRUE
        /\ summary' = [summary EXCEPT !.cancelled = @ \/ cancel]
        /\ UNCHANGED <<flags, budget, channels, thread, scan, started, outcomes>>
    BY <1>2 DEF LeaveScan
  <2>2. /\ summary' \in SummaryState
        /\ summary'.scanned = summary.scanned /\ summary'.rejections = summary.rejections
        /\ summary'.skipped = summary.skipped /\ summary'.hits = summary.hits
        /\ summary'.limited = summary.limited /\ (summary.cancelled => summary'.cancelled)
    <3>1. (summary.cancelled \/ cancel) \in BOOLEAN
      BY <1>1 DEF TypeOK
    <3> QED
      BY <1>1, <2>1, <3>1 DEF TypeOK, SummaryState
  <2>3. TypeOK'
    BY <1>1, <2>1, <2>2 DEF TypeOK, SummaryState, Places
  <2>4. Control'
    BY <1>1, <2>1, <2>2
       DEF Control, Turn, Counted, Required, InTurn, Closed, CancelSeen, First, Before, Over
  <2> QED
    BY <2>3, <2>4
<1>3. CASE StopBudget
  <2>1. /\ at = "closing" /\ budget' = [budget EXCEPT !.stopped = TRUE]
        /\ UNCHANGED <<flags, stop, channels, thread, at, scan, started, report>>
    BY <1>3 DEF StopBudget
  <2>2. budget' \in BudgetState /\ budget'.head = budget.head
    BY <1>1, <2>1 DEF TypeOK, BudgetState
  <2>3. TypeOK'
    BY <1>1, <2>1, <2>2 DEF TypeOK, BudgetState
  <2>4. Control'
    BY <1>1, <2>1, <2>2
       DEF Control, Turn, Counted, Required, InTurn, Closed, CancelSeen, First, Before, Over
  <2> QED
    BY <2>3, <2>4
<1>4. CASE DropChannels \/ Shutdown
  <2>1. /\ at \in {"closing", "shutdown"} /\ at' \in {"shutdown", "done"}
        /\ jobsOpen' \in BOOLEAN /\ rxOpen' \in BOOLEAN
        /\ UNCHANGED <<flags, stop, budget, jobs, results, thread, scan, started, report>>
    BY <1>1, <1>4 DEF DropChannels, Shutdown, TypeOK
  <2>2. TypeOK'
    BY <1>1, <2>1 DEF TypeOK, Places
  <2>3. Control'
    BY <1>1, <2>1
       DEF Control, Turn, Counted, Required, InTurn, Closed, CancelSeen, First, Before, Over
  <2> QED
    BY <2>2, <2>3
<1> QED
  BY <1>2, <1>3, <1>4

LEMMA CancelControl ==
  ASSUME SInv, Cancel
  PROVE  TypeOK' /\ Control'
<1> USE DEF flags, channels, scan, report
<1>1. TypeOK /\ Control
  BY DEF SInv
<1>2. /\ cancel' = TRUE /\ cancelledAt' = summary.scanned
      /\ UNCHANGED <<stop, budget, channels, thread, at, scan, started, report>>
  BY DEF Cancel
<1>3. TypeOK'
  <2>1. cancelledAt' \in 0 .. NumClasses
    BY <1>1, <1>2, Numbers
  <2> QED
    BY <1>1, <1>2, <2>1 DEF TypeOK
<1>4. CancelSeen'
  BY <1>1, <1>2, Numbers, SMTT(30) DEF CancelSeen
<1>5. Control'
  BY <1>1, <1>2, <1>4 DEF Control, Turn, Counted, Required, InTurn, Closed, First
<1> QED
  BY <1>3, <1>5

LEMMA ControlStep ==
  ASSUME SInv, [Next]_vars
  PROVE  TypeOK' /\ Control'
<1>1. TypeOK /\ Control
  BY DEF SInv
<1>2. ASSUME NEW t \in Threads, RenderThread(t)
      PROVE  TypeOK' /\ Control'
  <2>1. TypeOK' /\ budget'.head = budget.head /\ budget'.stopped = budget.stopped
    BY <1>2, ThreadTypes
  <2>2. UNCHANGED <<cancel, cancelledAt, stop, at, index, next, pending, preparedAs, taken,
            summary, outcomes, rxOpen>>
    BY <1>2 DEF RenderThread, ReceiveJob, ReceiveDisconnected, Reserve, ReserveRefused, Render,
                Finish, FinishRefused, Send, SendFailed, Return, flags, channels, scan, report
  <2> QED
    BY <1>1, <2>1, <2>2, ControlSame
<1>3. ASSUME Coordinator
      PROVE  TypeOK' /\ Control'
  <2>1. CASE AdmitCancelled \/ WaitCancelled \/ (at = "settling" /\ cancel /\ Settle)
    BY <2>1, LeaveControl
  <2>2. CASE (Settle \/ MatchNothing \/ Match) /\ (at = "settling" => ~cancel)
    BY <2>2, SettleControl
  <2>3. CASE BeginClass \/ Admit \/ Take
    BY <2>3, BeginClassControl, AdmitControl, TakeControl
  <2>4. CASE Poll \/ ReceiveResult \/ PollTimeout \/ Join \/ Consume
    BY <2>4, WaitControl, ConsumeControl
  <2>5. CASE LeaveScan \/ StopBudget \/ DropChannels \/ Shutdown
    BY <2>5, EndControl
  <2>6. MatchNothing \/ Match => at = "matching"
    BY DEF MatchNothing, Match
  <2> QED
    BY <1>3, <2>1, <2>2, <2>3, <2>4, <2>5, <2>6 DEF Coordinator
<1>4. ASSUME UNCHANGED vars
      PROVE  TypeOK' /\ Control'
  <2>1. TypeOK'
    BY <1>1, <1>4 DEF TypeOK, vars, flags, channels, scan, report
  <2>2. Control'
    BY <1>1, <1>4, ControlSame DEF vars, flags, channels, scan, report
  <2> QED
    BY <2>1, <2>2
<1> QED
  BY <1>2, <1>3, <1>4, CancelControl DEF Next, Terminated

-----------------------------------------------------------------------------
(* How a step moves one class *)

LEMMA TailEntries ==
  ASSUME NEW S, NEW s \in Seq(S), s # <<>>
  PROVE  /\ Tail(s) \in Seq(S) /\ 1 \in DOMAIN s /\ Head(s) = s[1] /\ s[1] \in S
         /\ \A n \in DOMAIN Tail(s) : n \in Nat \ {0} /\ n + 1 \in DOMAIN s /\ Tail(s)[n] = s[n + 1]
         /\ \A n \in DOMAIN s : n \in Nat \ {0} /\ (n = 1 \/ (n - 1 \in DOMAIN Tail(s)
              /\ Tail(s)[n - 1] = s[n]))
<1>1. /\ Head(s) \in S /\ Tail(s) \in Seq(S) /\ Len(Tail(s)) = Len(s) - 1
      /\ \A n \in 1 .. Len(Tail(s)) : Tail(s)[n] = s[n + 1]
  BY HeadTailProperties
<1>2. Len(s) \in Nat /\ Len(s) # 0 /\ DOMAIN s = 1 .. Len(s) /\ DOMAIN Tail(s) = 1 .. Len(Tail(s))
  BY <1>1
<1>3. Head(s) = s[1]
  OBVIOUS
<1> QED
  BY <1>1, <1>2, <1>3

LEMMA AppendEntries ==
  ASSUME NEW S, NEW s \in Seq(S), NEW e \in S
  PROVE  /\ Append(s, e) \in Seq(S)
         /\ \A n \in DOMAIN s : n \in DOMAIN Append(s, e) /\ Append(s, e)[n] = s[n]
         /\ \E k \in DOMAIN Append(s, e) :
              /\ k \notin DOMAIN s /\ Append(s, e)[k] = e
              /\ \A n \in DOMAIN Append(s, e) : n \in DOMAIN s \/ n = k
<1>1. /\ Append(s, e) \in Seq(S) /\ Len(Append(s, e)) = Len(s) + 1 /\ Len(s) \in Nat
      /\ DOMAIN s = 1 .. Len(s) /\ DOMAIN Append(s, e) = 1 .. Len(s) + 1
      /\ \A n \in 1 .. Len(s) : Append(s, e)[n] = s[n]
      /\ Append(s, e)[Len(s) + 1] = e
  OBVIOUS
<1>2. Len(s) + 1 \in DOMAIN Append(s, e) /\ Len(s) + 1 \notin DOMAIN s
  BY <1>1
<1> QED
  BY <1>1, <1>2

LEMMA JobTaken ==
  ASSUME TypeOK, OnceJobs, jobs # <<>>, jobs' = Tail(jobs)
  PROVE  /\ Head(jobs) \in Index /\ InJobs(Head(jobs)) /\ OnceJobs'
         /\ \A i : InJobs(i)' <=> InJobs(i) /\ i # Head(jobs)
<1>1. jobs \in Seq(Index)
  BY DEF TypeOK
<1>2. /\ 1 \in DOMAIN jobs /\ Head(jobs) = jobs[1] /\ jobs[1] \in Index
      /\ \A n \in DOMAIN jobs' : n \in Nat \ {0} /\ n + 1 \in DOMAIN jobs /\ jobs'[n] = jobs[n + 1]
      /\ \A n \in DOMAIN jobs : n \in Nat \ {0} /\ (n = 1 \/ (n - 1 \in DOMAIN jobs'
           /\ jobs'[n - 1] = jobs[n]))
  BY <1>1, TailEntries
<1>3. OnceJobs'
  <2>1. ASSUME NEW m \in DOMAIN jobs', NEW n \in DOMAIN jobs', jobs'[m] = jobs'[n]
        PROVE  m = n
    BY <1>2, <2>1 DEF OnceJobs
  <2> QED
    BY <2>1 DEF OnceJobs
<1>4. ASSUME NEW i
      PROVE  InJobs(i)' <=> InJobs(i) /\ i # Head(jobs)
  <2>1. InJobs(i)' => InJobs(i) /\ i # Head(jobs)
    BY <1>2 DEF InJobs, OnceJobs
  <2>2. InJobs(i) /\ i # Head(jobs) => InJobs(i)'
    BY <1>2 DEF InJobs
  <2> QED
    BY <2>1, <2>2
<1> QED
  BY <1>2, <1>3, <1>4 DEF InJobs

LEMMA JobAdded ==
  ASSUME TypeOK, OnceJobs, NEW k \in Index, ~InJobs(k), jobs' = Append(jobs, k)
  PROVE  OnceJobs' /\ \A i : InJobs(i)' <=> InJobs(i) \/ i = k
<1>1. jobs \in Seq(Index)
  BY DEF TypeOK
<1>2. /\ \A n \in DOMAIN jobs : n \in DOMAIN jobs' /\ jobs'[n] = jobs[n]
      /\ \E l \in DOMAIN jobs' : /\ l \notin DOMAIN jobs /\ jobs'[l] = k
                                 /\ \A n \in DOMAIN jobs' : n \in DOMAIN jobs \/ n = l
  BY <1>1, AppendEntries
<1> QED
  BY <1>2 DEF OnceJobs, InJobs

LEMMA ResultTaken ==
  ASSUME TypeOK, OnceResults, results # <<>>, results' = Tail(results)
  PROVE  /\ Head(results) \in Message /\ InResults(Head(results).index) /\ OnceResults'
         /\ \A i : InResults(i)' <=> InResults(i) /\ i # Head(results).index
<1>1. results \in Seq(Message)
  BY DEF TypeOK
<1>2. /\ 1 \in DOMAIN results /\ Head(results) = results[1] /\ results[1] \in Message
      /\ \A n \in DOMAIN results' :
           n \in Nat \ {0} /\ n + 1 \in DOMAIN results /\ results'[n] = results[n + 1]
      /\ \A n \in DOMAIN results :
           n \in Nat \ {0} /\ (n = 1 \/ (n - 1 \in DOMAIN results' /\ results'[n - 1] = results[n]))
  BY <1>1, TailEntries
<1>3. OnceResults'
  <2>1. ASSUME NEW m \in DOMAIN results', NEW n \in DOMAIN results',
               results'[m].index = results'[n].index
        PROVE  m = n
    BY <1>2, <2>1 DEF OnceResults
  <2> QED
    BY <2>1 DEF OnceResults
<1>4. ASSUME NEW i
      PROVE  InResults(i)' <=> InResults(i) /\ i # Head(results).index
  <2>1. InResults(i)' => InResults(i) /\ i # Head(results).index
    BY <1>2 DEF InResults, OnceResults
  <2>2. InResults(i) /\ i # Head(results).index => InResults(i)'
    BY <1>2 DEF InResults
  <2> QED
    BY <2>1, <2>2
<1> QED
  BY <1>2, <1>3, <1>4 DEF InResults

LEMMA ResultAdded ==
  ASSUME TypeOK, OnceResults, NEW m \in Message, ~InResults(m.index), results' = Append(results, m)
  PROVE  OnceResults' /\ \A i : InResults(i)' <=> InResults(i) \/ i = m.index
<1>1. results \in Seq(Message)
  BY DEF TypeOK
<1>2. /\ \A n \in DOMAIN results : n \in DOMAIN results' /\ results'[n] = results[n]
      /\ \E l \in DOMAIN results' : /\ l \notin DOMAIN results /\ results'[l] = m
                                    /\ \A n \in DOMAIN results' : n \in DOMAIN results \/ n = l
  BY <1>1, AppendEntries
<1> QED
  BY <1>2 DEF OnceResults, InResults

\* A thread keeps its class, gives it away, or takes one.
LEMMA ThreadKeepsClass ==
  ASSUME OnceThreads, NEW t \in Threads, Alone(t), thread'[t].index = thread[t].index
  PROVE  OnceThreads' /\ \A i : InThreads(i)' <=> InThreads(i)
<1>1. \A u \in Threads : thread'[u].index = thread[u].index
  BY DEF Alone
<1> QED
  BY <1>1 DEF OnceThreads, InThreads

LEMMA ThreadGivesClass ==
  ASSUME OnceThreads, NEW t \in Threads, Alone(t), thread'[t].index = NumClasses
  PROVE  OnceThreads' /\ \A i \in Index : InThreads(i)' <=> InThreads(i) /\ i # thread[t].index
<1>1. \A i \in Index : i # NumClasses
  BY StreamingAssumption DEF Index
<1> QED
  BY <1>1 DEF OnceThreads, InThreads, Alone

LEMMA ThreadTakesClass ==
  ASSUME OnceThreads, NEW t \in Threads, Alone(t), thread[t].index = NumClasses,
         thread'[t].index \in Index, ~InThreads(thread'[t].index)
  PROVE  OnceThreads' /\ \A i \in Index : InThreads(i)' <=> InThreads(i) \/ i = thread'[t].index
<1>1. \A i \in Index : i # NumClasses
  BY StreamingAssumption DEF Index
<1> QED
  BY <1>1 DEF OnceThreads, InThreads, Alone

LEMMA MapAdded ==
  ASSUME OnceMap, IsFiniteSet(completed), NEW m, ~InMap(m.index), completed' = completed \cup {m}
  PROVE  /\ OnceMap' /\ IsFiniteSet(completed')
         /\ \A i : InMap(i)' <=> InMap(i) \/ i = m.index
<1>1. IsFiniteSet(completed')
  BY FS_AddElement
<1> QED
  BY <1>1 DEF OnceMap, InMap

LEMMA MapTaken ==
  ASSUME OnceMap, IsFiniteSet(completed), NEW m \in completed, completed' = completed \ {m}
  PROVE  /\ InMap(m.index) /\ OnceMap' /\ IsFiniteSet(completed')
         /\ \A i : InMap(i)' <=> InMap(i) /\ i # m.index
<1>1. IsFiniteSet(completed')
  BY FS_RemoveElement
<1> QED
  BY <1>1 DEF OnceMap, InMap

\* What a class is due for depends on the coordinator alone.
LEMMA DueSame ==
  ASSUME UNCHANGED <<at, index, next, pending>>
  PROVE  First' = First /\ \A i : Due(i)' <=> Due(i)
BY DEF First, Due, Awaited

LEMMA JobsSame ==
  ASSUME OnceJobs, jobs' = jobs
  PROVE  OnceJobs' /\ \A i : InJobs(i)' <=> InJobs(i)
BY DEF OnceJobs, InJobs

LEMMA ResultsSame ==
  ASSUME OnceResults, results' = results
  PROVE  OnceResults' /\ \A i : InResults(i)' <=> InResults(i)
BY DEF OnceResults, InResults

LEMMA MapSame ==
  ASSUME OnceMap, completed' = completed
  PROVE  OnceMap' /\ \A i : InMap(i)' <=> InMap(i)
BY DEF OnceMap, InMap

LEMMA ThreadsSame ==
  ASSUME OnceThreads, thread' = thread
  PROVE  OnceThreads' /\ \A i : InThreads(i)' <=> InThreads(i)
BY DEF OnceThreads, InThreads

\* The other threads are as they were, unless the rendering of their class starts.
LEMMA OthersRendering ==
  ASSUME NEW t \in Threads, Alone(t), \A u \in Threads : Rendering(u),
         \A u \in Threads \ {t} : started'[thread[u].index] = started[thread[u].index],
         Rendering(t)'
  PROVE  \A u \in Threads : Rendering(u)'
BY DEF Alone, Rendering

\* A thread moves a class on, or drops one that is no longer wanted.
LEMMA PlacedByThread ==
  ASSUME NEW i, Placed(i), UNCHANGED <<at, index, next, pending, stop, cancel>>, Apart(i)',
         Somewhere(i)' => Somewhere(i), Somewhere(i) /\ ~Unwanted => Somewhere(i)'
  PROVE  Placed(i)'
BY DueSame DEF Placed, Unwanted

LEMMA BegunByThread ==
  ASSUME NEW i, Begun(i), UNCHANGED <<at, index, next, pending, started>>,
         InJobs(i)' => InJobs(i),
         InResults(i)' \/ InMap(i)' => InResults(i) \/ InMap(i) \/ started[i] = 1
  PROVE  Begun(i)'
BY DueSame DEF Begun

LEMMA ReceiveJobLocated ==
  ASSUME SInv, NEW t \in Threads, ReceiveJob(t)
  PROVE  Located'
<1> USE DEF flags, channels, scan, report
<1>1. TypeOK /\ Located /\ Rendering(t)
  BY DEF SInv, Located
<1>2. /\ UNCHANGED <<at, index, next, pending, stop, cancel, started, results, completed>>
      /\ jobs # <<>> /\ jobs' = Tail(jobs) /\ thread[t].index = NumClasses
  BY <1>1 DEF ReceiveJob, Rendering, Idling
<1> DEFINE k == Head(jobs)
<1>3. /\ k \in Index /\ InJobs(k) /\ OnceJobs'
      /\ \A i : InJobs(i)' <=> InJobs(i) /\ i # k
  BY <1>1, <1>2, JobTaken DEF Located
<1> HIDE DEF k
<1>4. /\ OnceResults' /\ OnceMap'
      /\ \A i : (InResults(i)' <=> InResults(i)) /\ (InMap(i)' <=> InMap(i))
  BY <1>1, <1>2, ResultsSame, MapSame DEF Located
<1>5. CASE Unwanted
  <2>1. Alone(t) /\ thread'[t].state = "exited" /\ thread'[t].index = NumClasses
            /\ thread'[t].bytes = 0
    BY <1>1, <1>5, ExitAlone DEF ReceiveJob
  <2>2. OnceThreads' /\ \A i : InThreads(i)' <=> InThreads(i)
    BY <1>1, <1>2, <2>1, ThreadKeepsClass DEF Located
  <2>3. \A u \in Threads : Rendering(u)'
    <3>1. Rendering(t)'
      BY <2>1 DEF Rendering, Idling
    <3> QED
      BY <1>1, <1>2, <2>1, <3>1, OthersRendering DEF Located
  <2>4. ASSUME NEW i \in Index
        PROVE  Placed(i)' /\ Begun(i)'
    <3>1. Placed(i) /\ Begun(i) /\ Apart(i)
      BY <1>1 DEF Located, Placed
    <3>2. Apart(i)' /\ (Somewhere(i)' => Somewhere(i))
      BY <1>3, <1>4, <2>2, <3>1 DEF Apart, Somewhere
    <3> QED
      BY <1>2, <1>3, <1>4, <1>5, <3>1, <3>2, PlacedByThread, BegunByThread
  <2> QED
    BY <1>3, <1>4, <2>2, <2>3, <2>4 DEF Located
<1>6. CASE ~Unwanted
  <2>1. PICK s \in Sizes :
          thread' = [thread EXCEPT ![t] =
                       [Idle("reserving") EXCEPT !.index = k, !.size = Min({s, Limit})]]
    BY <1>6 DEF ReceiveJob, k
  <2>2. /\ Alone(t)
        /\ thread'[t].state = "reserving" /\ thread'[t].index = k /\ thread'[t].bytes = 0
        /\ thread'[t].size \in Sizes \cup {Limit} /\ thread'[t].size <= Limit
    BY <1>1, <1>3, <2>1, AskingAlone
  <2>3. Placed(k) /\ Begun(k) /\ ~InThreads(k) /\ started[k] = 0 /\ k # NumClasses
    BY <1>1, <1>3, StreamingAssumption DEF Located, Placed, Apart, Begun, Index
  <2>4. OnceThreads' /\ \A i \in Index : InThreads(i)' <=> InThreads(i) \/ i = k
    BY <1>1, <1>2, <1>3, <2>2, <2>3, ThreadTakesClass DEF Located
  <2>5. \A u \in Threads : Rendering(u)'
    <3>1. Rendering(t)'
      BY <1>2, <2>2, <2>3 DEF Rendering, Idling
    <3> QED
      BY <1>1, <1>2, <2>2, <3>1, OthersRendering DEF Located
  <2>6. ASSUME NEW i \in Index
        PROVE  Placed(i)' /\ Begun(i)'
    <3>1. Placed(i) /\ Begun(i) /\ Apart(i)
      BY <1>1 DEF Located, Placed
    <3>2. Apart(i)' /\ (Somewhere(i)' <=> Somewhere(i))
      BY <1>3, <1>4, <2>4, <3>1 DEF Apart, Somewhere
    <3> QED
      BY <1>2, <1>3, <1>4, <3>1, <3>2, PlacedByThread, BegunByThread
  <2> QED
    BY <1>3, <1>4, <2>4, <2>5, <2>6 DEF Located
<1> QED
  BY <1>5, <1>6

\* The start of a rendering is counted once.
LEMMA ReserveLocated ==
  ASSUME SInv, NEW t \in Threads, Reserve(t)
  PROVE  Located'
<1> USE DEF flags, channels, scan, report
<1>1. TypeOK /\ Located /\ Rendering(t)
  BY DEF SInv, Located
<1> DEFINE k == thread[t].index
<1>2. /\ UNCHANGED <<at, index, next, pending, stop, cancel, jobs, results, completed>>
      /\ started' = [started EXCEPT ![k] = @ + 1] /\ thread[t].state = "reserving"
  BY DEF Reserve
<1>3. k \in Index /\ started[k] = 0 /\ InThreads(k) /\ k # NumClasses
  <2>1. k \in Index /\ started[k] = 0
    BY <1>1, <1>2, AtWork DEF Rendering, Idling
  <2> QED
    BY <2>1, StreamingAssumption DEF InThreads, Index
<1>4. started'[k] = 1 /\ \A i : i # k => started'[i] = started[i]
  BY <1>1, <1>2, <1>3 DEF TypeOK
<1>5. /\ Alone(t) /\ thread'[t].state = "rendering" /\ thread'[t].index = k
  BY <1>1, ReserveAlone
<1>6. /\ OnceJobs' /\ OnceResults' /\ OnceMap' /\ OnceThreads'
      /\ \A i : /\ (InJobs(i)' <=> InJobs(i)) /\ (InThreads(i)' <=> InThreads(i))
                /\ (InResults(i)' <=> InResults(i)) /\ (InMap(i)' <=> InMap(i))
  BY <1>1, <1>2, <1>5, JobsSame, ResultsSame, MapSame, ThreadKeepsClass DEF Located
<1>7. \A u \in Threads : Rendering(u)'
  <2>1. Rendering(t)'
    BY <1>3, <1>4, <1>5 DEF Rendering, Idling
  <2>2. \A u \in Threads \ {t} : thread[u].index # k
    BY <1>1, <1>3 DEF Located, OnceThreads
  <2>3. \A u \in Threads \ {t} : started'[thread[u].index] = started[thread[u].index]
    BY <1>4, <2>2
  <2> QED
    BY <1>1, <1>5, <2>1, <2>3, OthersRendering DEF Located
<1> HIDE DEF k
<1>8. ASSUME NEW i \in Index
      PROVE  Placed(i)' /\ Begun(i)'
  <2>1. Placed(i) /\ Begun(i) /\ Apart(i)
    BY <1>1 DEF Located, Placed
  <2>2. Apart(i)' /\ (Somewhere(i)' <=> Somewhere(i))
    BY <1>6, <2>1 DEF Apart, Somewhere
  <2>3. Placed(i)'
    BY <1>2, <2>1, <2>2, PlacedByThread
  <2>4. Begun(i)'
    <3>1. CASE i # k
      BY <1>2, <1>4, <1>6, <2>1, <3>1, DueSame DEF Begun
    <3>2. CASE i = k
      <4>1. InThreads(k) /\ ~InJobs(k)
        BY <1>3, <2>1, <3>2 DEF Apart
      <4>2. at \notin Over => Due(k)
        BY <1>3, <2>1, <3>2 DEF Placed, Somewhere
      <4> QED
        BY <1>2, <1>4, <1>6, <3>2, <4>1, <4>2, DueSame DEF Begun
    <3> QED
      BY <3>1, <3>2
  <2> QED
    BY <2>3, <2>4
<1> QED
  BY <1>6, <1>7, <1>8 DEF Located

LEMMA SendLocated ==
  ASSUME SInv, NEW t \in Threads, Send(t)
  PROVE  Located'
<1> USE DEF flags, channels, scan, report
<1>1. TypeOK /\ Located /\ Rendering(t)
  BY DEF SInv, Located
<1> DEFINE k == thread[t].index
           m == [index |-> k, bytes |-> thread[t].bytes, ok |-> thread[t].ok]
<1>2. /\ UNCHANGED <<at, index, next, pending, stop, cancel, started, jobs, completed>>
      /\ results' = Append(results, m) /\ thread[t].state = "sending"
  BY DEF Send
<1>3. k \in Index /\ started[k] = 1 /\ InThreads(k)
  BY <1>1, <1>2, AtWork DEF Rendering, Idling, InThreads
<1>4. m \in Message /\ m.index = k
  BY <1>1, <1>3 DEF TypeOK, Message
<1>5. /\ Alone(t) /\ thread'[t].state \in {"receiving", "returning"}
      /\ thread'[t].index = NumClasses /\ thread'[t].bytes = 0
  BY <1>1, SendAlone
<1>6. \A u \in Threads : Rendering(u)'
  <2>1. Rendering(t)'
    BY <1>5 DEF Rendering, Idling
  <2> QED
    BY <1>1, <1>2, <1>5, <2>1, OthersRendering DEF Located
<1>7. Placed(k) /\ Begun(k) /\ ~InJobs(k) /\ ~InResults(k) /\ ~InMap(k)
  BY <1>1, <1>3 DEF Located, Placed, Apart
<1>8. /\ OnceThreads' /\ OnceJobs' /\ OnceMap'
      /\ \A i : (InJobs(i)' <=> InJobs(i)) /\ (InMap(i)' <=> InMap(i))
      /\ \A i \in Index : InThreads(i)' <=> InThreads(i) /\ i # k
  BY <1>1, <1>2, <1>5, JobsSame, MapSame, ThreadGivesClass DEF Located
<1> HIDE DEF m
<1>9. OnceResults' /\ \A i : InResults(i)' <=> InResults(i) \/ i = k
  BY <1>1, <1>2, <1>4, <1>7, ResultAdded DEF Located
<1> HIDE DEF k
<1>10. ASSUME NEW i \in Index
       PROVE  Placed(i)' /\ Begun(i)'
  <2>1. Placed(i) /\ Begun(i) /\ Apart(i)
    BY <1>1 DEF Located, Placed
  <2>2. Apart(i)' /\ (Somewhere(i)' <=> Somewhere(i))
    BY <1>3, <1>7, <1>8, <1>9, <2>1 DEF Apart, Somewhere
  <2> QED
    BY <1>2, <1>3, <1>8, <1>9, <2>1, <2>2, PlacedByThread, BegunByThread
<1> QED
  BY <1>6, <1>8, <1>9, <1>10 DEF Located

\* A thread that is refused gives its class up: nobody asks for it any more.
LEMMA GiveUpLocated ==
  ASSUME SInv, NEW t \in Threads,
         \/ ReceiveDisconnected(t) \/ ReserveRefused(t) \/ FinishRefused(t) \/ SendFailed(t)
         \/ Return(t)
  PROVE  Located'
<1> USE DEF flags, channels, scan, report
<1>1. TypeOK /\ Located /\ Rendering(t) /\ Closed
  BY DEF SInv, Located, Control
<1>2. /\ UNCHANGED <<at, index, next, pending, stop, cancel, started, jobs, results, completed>>
      /\ Exit(t)
  BY DEF ReceiveDisconnected, ReserveRefused, FinishRefused, SendFailed, Return
<1>3. thread[t].index = NumClasses \/ Unwanted
  <2>1. CASE ReceiveDisconnected(t) \/ Return(t)
    BY <1>1, <2>1 DEF ReceiveDisconnected, Return, Rendering, Idling
  <2>2. CASE ReserveRefused(t) \/ FinishRefused(t) \/ SendFailed(t)
    BY <1>1, <2>2 DEF ReserveRefused, FinishRefused, SendFailed, Refused, Closed, Unwanted
  <2> QED
    BY <2>1, <2>2
<1>4. Alone(t) /\ thread'[t].state = "exited" /\ thread'[t].index = NumClasses
          /\ thread'[t].bytes = 0
  BY <1>1, <1>2, ExitAlone
<1>5. \A u \in Threads : Rendering(u)'
  <2>1. Rendering(t)'
    BY <1>4 DEF Rendering, Idling
  <2> QED
    BY <1>1, <1>2, <1>4, <2>1, OthersRendering DEF Located
<1>6. /\ OnceThreads' /\ OnceJobs' /\ OnceResults' /\ OnceMap'
      /\ \A i : (InJobs(i)' <=> InJobs(i)) /\ (InResults(i)' <=> InResults(i))
                /\ (InMap(i)' <=> InMap(i))
      /\ \A i \in Index : InThreads(i)' <=> InThreads(i) /\ i # thread[t].index
  BY <1>1, <1>2, <1>4, JobsSame, ResultsSame, MapSame, ThreadGivesClass DEF Located
<1>7. ASSUME NEW i \in Index
      PROVE  Placed(i)' /\ Begun(i)'
  <2>1. Placed(i) /\ Begun(i) /\ Apart(i) /\ i # NumClasses
    BY <1>1, StreamingAssumption DEF Located, Placed, Index
  <2>2. /\ Apart(i)' /\ (Somewhere(i)' => Somewhere(i))
        /\ Somewhere(i) /\ ~Unwanted => Somewhere(i)'
    BY <1>3, <1>6, <2>1 DEF Apart, Somewhere
  <2> QED
    BY <1>2, <1>6, <2>1, <2>2, PlacedByThread, BegunByThread
<1> QED
  BY <1>5, <1>6, <1>7 DEF Located

LEMMA WorkLocated ==
  ASSUME SInv, NEW t \in Threads, Render(t) \/ Finish(t)
  PROVE  Located'
<1> USE DEF flags, channels, scan, report
<1>1. TypeOK /\ Located /\ Rendering(t)
  BY DEF SInv, Located
<1>2. UNCHANGED <<at, index, next, pending, stop, cancel, started, jobs, results, completed>>
  BY DEF Render, Finish
<1>3. /\ Alone(t) /\ thread'[t].index = thread[t].index
      /\ thread[t].state \in {"rendering", "finishing"}
      /\ thread'[t].state \in {"finishing", "sending"}
      /\ thread'[t].state = "finishing" => thread'[t].size \in Sizes
  BY <1>1, RenderAlone, FinishAlone DEF Render, Finish
<1>4. \A u \in Threads : Rendering(u)'
  <2>1. Rendering(t)'
    BY <1>1, <1>2, <1>3 DEF Rendering, Idling
  <2> QED
    BY <1>1, <1>2, <1>3, <2>1, OthersRendering DEF Located
<1>5. /\ OnceJobs' /\ OnceResults' /\ OnceMap' /\ OnceThreads'
      /\ \A i : /\ (InJobs(i)' <=> InJobs(i)) /\ (InThreads(i)' <=> InThreads(i))
                /\ (InResults(i)' <=> InResults(i)) /\ (InMap(i)' <=> InMap(i))
  BY <1>1, <1>2, <1>3, JobsSame, ResultsSame, MapSame, ThreadKeepsClass DEF Located
<1>6. ASSUME NEW i \in Index
      PROVE  Placed(i)' /\ Begun(i)'
  <2>1. Placed(i) /\ Begun(i) /\ Apart(i)
    BY <1>1 DEF Located, Placed
  <2>2. Apart(i)' /\ (Somewhere(i)' <=> Somewhere(i))
    BY <1>5, <2>1 DEF Apart, Somewhere
  <2> QED
    BY <1>2, <1>5, <2>1, <2>2, PlacedByThread, BegunByThread
<1> QED
  BY <1>4, <1>5, <1>6 DEF Located

\* The coordinator moves no class: it is due as before, or the scan is left.
LEMMA StayLocated ==
  ASSUME SInv, UNCHANGED <<thread, jobs, results, completed, started, next, pending>>,
         Unwanted => Unwanted',
         at' \notin Over => at \notin Over,
         at \in {"waiting", "polling"} /\ (at' \notin Over \/ ~Unwanted')
             => at' \in {"waiting", "polling"},
         at' \in {"waiting", "polling"} => at \in {"waiting", "polling"} /\ index' = index
  PROVE  Located'
<1>1. Located /\ First' = First
  BY DEF SInv, First
<1>2. /\ OnceJobs' /\ OnceThreads' /\ OnceResults' /\ OnceMap'
      /\ \A i : /\ (InJobs(i)' <=> InJobs(i)) /\ (InThreads(i)' <=> InThreads(i))
                /\ (InResults(i)' <=> InResults(i)) /\ (InMap(i)' <=> InMap(i))
  BY <1>1, JobsSame, ResultsSame, MapSame, ThreadsSame DEF Located
<1>3. \A t \in Threads : Rendering(t)'
  BY <1>1 DEF Located, Rendering
<1>4. ASSUME NEW i \in Index
      PROVE  Placed(i)' /\ Begun(i)'
  <2>1. Placed(i) /\ Begun(i) /\ Apart(i)
    BY <1>1 DEF Located, Placed
  <2>2. Apart(i)' /\ (Somewhere(i)' <=> Somewhere(i))
    BY <1>2, <2>1 DEF Apart, Somewhere
  <2>3. /\ Due(i)' => Due(i)
        /\ at' \notin Over \/ ~Unwanted' => (Due(i) => Due(i)')
    BY <1>1 DEF Due, Awaited
  <2>4. Placed(i)'
    BY <2>1, <2>2, <2>3 DEF Placed
  <2>5. Begun(i)'
    BY <1>1, <1>2, <2>1, <2>3 DEF Begun
  <2> QED
    BY <2>4, <2>5
<1> QED
  BY <1>2, <1>3, <1>4 DEF Located

\* The markers of the window, when one is added or the oldest one is taken.
LEMMA MarkerAdded ==
  ASSUME TypeOK, First <= next, NEW prepared \in Prepared,
         pending' = Append(pending, prepared), next' = next + 1
  PROVE  /\ First' = First /\ ~Awaited(next)
         /\ \A i : Awaited(i)' <=> Awaited(i) \/ (i = next /\ prepared = "rendering")
<1>1. /\ pending \in Seq(Prepared) /\ Len(pending) \in Nat /\ First \in Int /\ next \in Nat
      /\ First + Len(pending) = next
  BY Numbers DEF TypeOK
<1>2. /\ DOMAIN pending = 1 .. Len(pending) /\ DOMAIN pending' = 1 .. Len(pending) + 1
      /\ Len(pending') = Len(pending) + 1
      /\ \A n \in 1 .. Len(pending) : pending'[n] = pending[n]
      /\ pending'[Len(pending) + 1] = prepared
  BY <1>1
<1>3. First' = First
  BY <1>1, <1>2 DEF First
<1>4. ~Awaited(next)
  BY <1>1, <1>2 DEF Awaited
<1>5. ASSUME NEW i
      PROVE  Awaited(i)' <=> Awaited(i) \/ (i = next /\ prepared = "rendering")
  <2>1. Awaited(i) => Awaited(i)'
    BY <1>1, <1>2, <1>3 DEF Awaited
  <2>2. i = next /\ prepared = "rendering" => Awaited(i)'
    <3>1. next = First - 1 + (Len(pending) + 1) /\ Len(pending) + 1 \in DOMAIN pending'
      BY <1>1, <1>2
    <3> QED
      BY <1>2, <1>3, <3>1 DEF Awaited
  <2>3. Awaited(i)' => Awaited(i) \/ (i = next /\ prepared = "rendering")
    <3>1. ASSUME NEW n \in DOMAIN pending', i = First - 1 + n, pending'[n] = "rendering"
          PROVE  Awaited(i) \/ (i = next /\ prepared = "rendering")
      <4>1. CASE n \in DOMAIN pending
        BY <1>2, <3>1, <4>1 DEF Awaited
      <4>2. CASE n = Len(pending) + 1
        BY <1>1, <1>2, <3>1, <4>2
      <4> QED
        BY <1>1, <1>2, <3>1, <4>1, <4>2
    <3> QED
      BY <1>3, <3>1 DEF Awaited
  <2> QED
    BY <2>1, <2>2, <2>3
<1> QED
  BY <1>3, <1>4, <1>5

LEMMA MarkerTaken ==
  ASSUME TypeOK, pending # <<>>, pending' = Tail(pending), next' = next
  PROVE  /\ First' = First + 1 /\ (Awaited(First) <=> Head(pending) = "rendering")
         /\ \A i : Awaited(i)' <=> Awaited(i) /\ i # First
<1>1. /\ pending \in Seq(Prepared) /\ Len(pending) \in Nat /\ First \in Int /\ next \in Nat
      /\ First = next - Len(pending)
  BY Numbers DEF TypeOK, First
<1>2. /\ 1 \in DOMAIN pending /\ Head(pending) = pending[1]
      /\ \A n \in DOMAIN pending' : n \in Nat \ {0} /\ n + 1 \in DOMAIN pending
           /\ pending'[n] = pending[n + 1]
      /\ \A n \in DOMAIN pending : n \in Nat \ {0} /\ (n = 1 \/ (n - 1 \in DOMAIN pending'
           /\ pending'[n - 1] = pending[n]))
  BY <1>1, TailEntries
<1>3. First' = First + 1
  <2>1. Len(pending') = Len(pending) - 1
    BY <1>1, HeadTailProperties
  <2> QED
    BY <1>1, <2>1 DEF First
<1>4. Awaited(First) <=> Head(pending) = "rendering"
  BY <1>1, <1>2 DEF Awaited
<1>5. ASSUME NEW i
      PROVE  Awaited(i)' <=> Awaited(i) /\ i # First
  <2>1. Awaited(i)' => Awaited(i) /\ i # First
    <3>1. ASSUME NEW n \in DOMAIN pending', i = First' - 1 + n, pending'[n] = "rendering"
          PROVE  Awaited(i) /\ i # First
      <4>1. n + 1 \in DOMAIN pending /\ pending[n + 1] = "rendering" /\ n \in Nat \ {0}
        BY <1>2, <3>1
      <4>2. i = First - 1 + (n + 1) /\ i # First
        BY <1>1, <1>3, <3>1, <4>1, SMTT(30)
      <4> QED
        BY <4>1, <4>2 DEF Awaited
    <3> QED
      BY <3>1 DEF Awaited
  <2>2. Awaited(i) /\ i # First => Awaited(i)'
    <3>1. ASSUME NEW n \in DOMAIN pending, i = First - 1 + n, pending[n] = "rendering", i # First
          PROVE  Awaited(i)'
      <4>1. n \in Nat \ {0} /\ n # 1
        BY <1>1, <1>2, <3>1
      <4>2. n - 1 \in DOMAIN pending' /\ pending'[n - 1] = "rendering"
        BY <1>2, <3>1, <4>1
      <4>3. i = First' - 1 + (n - 1)
        BY <1>1, <1>3, <3>1, <4>1
      <4> QED
        BY <4>2, <4>3 DEF Awaited
    <3> QED
      BY <3>1 DEF Awaited
  <2> QED
    BY <2>1, <2>2
<1> QED
  BY <1>3, <1>4, <1>5

\* An awaited class is one that was admitted and whose turn has not come.
LEMMA AwaitedLater ==
  ASSUME TypeOK, NEW i, Awaited(i)
  PROVE  i >= First /\ i < next
<1>1. /\ pending \in Seq(Prepared) /\ Len(pending) \in Nat /\ First \in Int /\ next \in Nat
      /\ First + Len(pending) = next /\ DOMAIN pending = 1 .. Len(pending)
  BY Numbers, SMTT(30) DEF TypeOK
<1> QED
  BY <1>1 DEF Awaited

LEMMA AdmitLocated ==
  ASSUME SInv, Admit
  PROVE  Located'
<1> USE DEF flags, channels, scan, report
<1>1. TypeOK /\ Located /\ First <= next /\ at = "admitting"
  BY DEF SInv, Control, Turn, Admit
<1>2. PICK prepared \in Prepared :
        /\ pending' = Append(pending, prepared)
        /\ IF prepared = "rendering" THEN jobs' = Append(jobs, next) ELSE jobs' = jobs
  BY DEF Admit
<1>3. /\ UNCHANGED <<at, index, stop, cancel, thread, results, completed, started>>
      /\ next' = next + 1 /\ next \in Index
  BY <1>1, Numbers DEF Admit, MayAdmit, Index
<1>4. /\ First' = First /\ ~Awaited(next)
      /\ \A i : Awaited(i)' <=> Awaited(i) \/ (i = next /\ prepared = "rendering")
  BY <1>1, <1>2, <1>3, MarkerAdded
<1>5. /\ \A i : Due(i) <=> Awaited(i)
      /\ \A i : Due(i)' <=> Awaited(i)'
  BY <1>1, <1>3 DEF Due
<1>6. ~Somewhere(next) /\ started[next] = 0
  <2>1. Placed(next) /\ Begun(next) /\ ~Due(next) /\ at \notin Over /\ next >= First
    BY <1>1, <1>3, <1>4, <1>5, Numbers DEF Located, Over
  <2> QED
    BY <2>1 DEF Placed, Begun
<1>7. /\ OnceThreads' /\ OnceResults' /\ OnceMap'
      /\ \A i : /\ (InThreads(i)' <=> InThreads(i)) /\ (InResults(i)' <=> InResults(i))
                /\ (InMap(i)' <=> InMap(i))
  BY <1>1, <1>3, ThreadsSame, ResultsSame, MapSame DEF Located
<1>8. /\ OnceJobs'
      /\ \A i : InJobs(i)' <=> InJobs(i) \/ (i = next /\ prepared = "rendering")
  <2>1. CASE prepared = "rendering"
    BY <1>1, <1>2, <1>3, <1>6, <2>1, JobAdded DEF Located, Somewhere
  <2>2. CASE prepared # "rendering"
    BY <1>1, <1>2, <2>2, JobsSame DEF Located
  <2> QED
    BY <2>1, <2>2
<1>9. \A t \in Threads : Rendering(t)'
  BY <1>1, <1>3 DEF Located, Rendering
<1>10. ASSUME NEW i \in Index
       PROVE  Placed(i)' /\ Begun(i)'
  <2>1. Placed(i) /\ Begun(i) /\ Apart(i)
    BY <1>1 DEF Located, Placed
  <2>2. /\ Apart(i)'
        /\ Somewhere(i)' <=> Somewhere(i) \/ (i = next /\ prepared = "rendering")
    BY <1>6, <1>7, <1>8, <2>1 DEF Apart, Somewhere
  <2>3. Placed(i)'
    BY <1>3, <1>4, <1>5, <2>1, <2>2 DEF Placed, Unwanted
  <2>4. Begun(i)'
    BY <1>3, <1>4, <1>5, <1>6, <1>7, <1>8, <2>1 DEF Begun
  <2> QED
    BY <2>3, <2>4
<1> QED
  BY <1>7, <1>8, <1>9, <1>10 DEF Located

LEMMA TakeLocated ==
  ASSUME SInv, Take
  PROVE  Located'
<1> USE DEF flags, channels, scan, report
<1>1. /\ TypeOK /\ Located /\ index \in Index /\ pending # <<>> /\ First = index /\ at = "admitting"
  BY TakeControl DEF SInv, Take
<1>2. /\ UNCHANGED <<stop, cancel, jobs, results, next, completed, started>>
      /\ pending' = Tail(pending)
  BY DEF Take
<1>3. /\ First' = index + 1 /\ (Awaited(index) <=> Head(pending) = "rendering")
      /\ \A i : Awaited(i)' <=> Awaited(i) /\ i # index
  BY <1>1, <1>2, MarkerTaken
<1>4. /\ \A i : Due(i) <=> Awaited(i)
      /\ at \notin Over /\ index \in Int /\ \A i \in Index : i \in Int
  BY <1>1 DEF Due, Over, Index
<1>5. /\ OnceJobs' /\ OnceResults' /\ OnceMap'
      /\ \A i : /\ (InJobs(i)' <=> InJobs(i)) /\ (InResults(i)' <=> InResults(i))
                /\ (InMap(i)' <=> InMap(i))
  BY <1>1, <1>2, JobsSame, ResultsSame, MapSame DEF Located
<1>6. CASE /\ thread' = thread /\ at' \in {"top", "waiting", "matching"}
           /\ at' = "waiting" <=> Head(pending) = "rendering"
           /\ at' = "waiting" => index' = index
  <2>2. \A i : Due(i)' <=> Due(i)
    BY <1>3, <1>4, <1>6 DEF Due
  <2>3. OnceThreads' /\ \A i : InThreads(i)' <=> InThreads(i)
    BY <1>1, <1>6, ThreadsSame DEF Located
  <2>4. \A t \in Threads : Rendering(t)'
    BY <1>1, <1>2, <1>6 DEF Located, Rendering
  <2>5. ASSUME NEW i \in Index
        PROVE  Placed(i)' /\ Begun(i)'
    <3>1. Placed(i) /\ Begun(i) /\ Apart(i)
      BY <1>1 DEF Located, Placed
    <3>2. Apart(i)' /\ (Somewhere(i)' <=> Somewhere(i))
      BY <1>5, <2>3, <3>1 DEF Apart, Somewhere
    <3>3. Placed(i)'
      BY <1>2, <1>4, <2>2, <3>1, <3>2 DEF Placed, Unwanted
    <3>4. i >= First' => i >= First
      BY <1>1, <1>3, <1>4
    <3>5. Begun(i)'
      BY <1>2, <1>4, <1>5, <2>2, <3>1, <3>4 DEF Begun
    <3> QED
      BY <3>3, <3>5
  <2> QED
    BY <1>5, <2>3, <2>4, <2>5 DEF Located
<1>7. CASE /\ at' = "waiting" /\ index' = index /\ Head(pending) = "cached"
           /\ \E s \in Sizes :
                thread' = [thread EXCEPT ![index] =
                             [Idle("reserving") EXCEPT !.index = index, !.size = Min({s, Limit})]]
  <2>1. PICK s \in Sizes :
          thread' = [thread EXCEPT ![index] =
                       [Idle("reserving") EXCEPT !.index = index, !.size = Min({s, Limit})]]
    BY <1>7
  <2>2. index \in Threads /\ thread[index].state \in {"unspawned", "exited"}
    BY <1>1 DEF Threads, SInv, Exceptional, Over
  <2>3. /\ Alone(index)
        /\ thread'[index].state = "reserving" /\ thread'[index].index = index
             /\ thread'[index].bytes = 0
        /\ thread'[index].size \in Sizes \cup {Limit} /\ thread'[index].size <= Limit
    BY <1>1, <2>1, <2>2, AskingAlone
  <2>4. ~Somewhere(index) /\ started[index] = 0
    <3>1. Placed(index) /\ Begun(index) /\ ~Due(index) /\ index >= First
      BY <1>1, <1>3, <1>4, <1>7 DEF Located
    <3> QED
      BY <1>4, <3>1 DEF Placed, Begun
  <2>5. OnceThreads' /\ \A i \in Index : InThreads(i)' <=> InThreads(i) \/ i = index
    <3>1. thread[index].index = NumClasses
      BY <1>1, <2>2 DEF Located, Rendering, Idling
    <3> QED
      BY <1>1, <2>2, <2>3, <2>4, <3>1, ThreadTakesClass DEF Located, Somewhere
  <2>6. \A t \in Threads : Rendering(t)'
    <3>1. Rendering(index)'
      BY <1>1, <1>2, <1>7, <2>3, <2>4, StreamingAssumption DEF Rendering, Idling, Index
    <3> QED
      BY <1>1, <1>2, <1>7, <2>2, <2>3, <3>1, OthersRendering DEF Located
  <2>7. \A i : Due(i)' <=> Due(i) \/ i = index
    BY <1>3, <1>4, <1>7 DEF Due
  <2>8. ASSUME NEW i \in Index
        PROVE  Placed(i)' /\ Begun(i)'
    <3>1. Placed(i) /\ Begun(i) /\ Apart(i)
      BY <1>1 DEF Located, Placed
    <3>2. Apart(i)' /\ (Somewhere(i)' <=> Somewhere(i) \/ i = index)
      BY <1>5, <2>4, <2>5, <3>1 DEF Apart, Somewhere
    <3>3. Placed(i)'
      BY <1>2, <1>4, <2>7, <3>1, <3>2 DEF Placed, Unwanted
    <3>4. i >= First' => i >= First
      BY <1>1, <1>3, <1>4
    <3>5. Begun(i)'
      BY <1>2, <1>4, <1>5, <2>7, <3>1, <3>4 DEF Begun
    <3> QED
      BY <3>3, <3>5
  <2> QED
    BY <1>5, <2>5, <2>6, <2>8 DEF Located
<1> QED
  BY <1>6, <1>7 DEF Take, NextClass

LEMMA ReceiveResultLocated ==
  ASSUME SInv, ReceiveResult
  PROVE  Located' /\ IsFiniteSet(completed')
<1> USE DEF flags, channels, scan, report
<1>1. TypeOK /\ Located /\ IsFiniteSet(completed)
  BY DEF SInv
<1>2. /\ UNCHANGED <<stop, cancel, jobs, thread, index, next, pending, started>>
      /\ at = "polling" /\ at' = "waiting"
      /\ results # <<>> /\ results' = Tail(results) /\ completed' = completed \cup {Head(results)}
  BY DEF ReceiveResult
<1> DEFINE m == Head(results)
           k == Head(results).index
<1>3. /\ m \in Message /\ k \in Index /\ InResults(k) /\ OnceResults'
      /\ \A i : InResults(i)' <=> InResults(i) /\ i # k
  BY <1>1, <1>2, ResultTaken DEF Located, Message
<1>4. Apart(k) /\ Begun(k) /\ ~InMap(k)
  BY <1>1, <1>3 DEF Located, Placed, Apart
<1>5. /\ OnceMap' /\ IsFiniteSet(completed')
      /\ \A i : InMap(i)' <=> InMap(i) \/ i = k
  BY <1>1, <1>2, <1>4, MapAdded DEF Located
<1> HIDE DEF m, k
<1>6. /\ OnceJobs' /\ OnceThreads'
      /\ \A i : (InJobs(i)' <=> InJobs(i)) /\ (InThreads(i)' <=> InThreads(i))
  BY <1>1, <1>2, JobsSame, ThreadsSame DEF Located
<1>7. First' = First /\ \A i : Due(i)' <=> Due(i)
  BY <1>2 DEF First, Due, Awaited
<1>8. \A t \in Threads : Rendering(t)'
  BY <1>1, <1>2 DEF Located, Rendering
<1>9. ASSUME NEW i \in Index
      PROVE  Placed(i)' /\ Begun(i)'
  <2>1. Placed(i) /\ Begun(i) /\ Apart(i)
    BY <1>1 DEF Located, Placed
  <2>2. Apart(i)' /\ (Somewhere(i)' <=> Somewhere(i))
    BY <1>3, <1>4, <1>5, <1>6, <2>1 DEF Apart, Somewhere
  <2>3. at \notin Over /\ at' \notin Over
    BY <1>2 DEF Over
  <2>4. Placed(i)'
    BY <1>2, <1>7, <2>1, <2>2, <2>3 DEF Placed, Unwanted
  <2>5. Begun(i)'
    BY <1>2, <1>3, <1>5, <1>6, <1>7, <2>1, <2>3 DEF Begun
  <2> QED
    BY <2>4, <2>5
<1> QED
  BY <1>3, <1>5, <1>6, <1>8, <1>9 DEF Located

LEMMA ConsumeLocated ==
  ASSUME SInv, Consume
  PROVE  Located' /\ IsFiniteSet(completed')
<1> USE DEF flags, channels, scan, report
<1>1. TypeOK /\ Located /\ IsFiniteSet(completed) /\ Turn
  BY DEF SInv, Control
<1>2. /\ UNCHANGED <<stop, cancel, jobs, results, thread, index, next, pending, started>>
      /\ at = "waiting" /\ at' \in {"joining", "settling"}
  BY DEF Consume
<1>3. PICK m \in Arrived : completed' = completed \ {m}
  BY DEF Consume
<1>4. m \in completed /\ m.index = index /\ First = index + 1 /\ index \in Index
  BY <1>1, <1>2, TurnFacts DEF Arrived, Turn, Before, Over
<1>5. /\ OnceMap' /\ IsFiniteSet(completed') /\ InMap(index)
      /\ \A i : InMap(i)' <=> InMap(i) /\ i # index
  BY <1>1, <1>3, <1>4, MapTaken DEF Located
<1>6. /\ OnceJobs' /\ OnceThreads' /\ OnceResults'
      /\ \A i : /\ (InJobs(i)' <=> InJobs(i)) /\ (InThreads(i)' <=> InThreads(i))
                /\ (InResults(i)' <=> InResults(i))
  BY <1>1, <1>2, JobsSame, ThreadsSame, ResultsSame DEF Located
<1>7. /\ First' = First /\ \A i : Awaited(i)' <=> Awaited(i)
      /\ at \notin Over /\ at' \notin Over
  BY <1>2 DEF First, Awaited, Over
<1>8. ~Awaited(index)
  BY <1>1, <1>4, AwaitedLater, Numbers
<1>9. \A i : Due(i)' <=> Due(i) /\ i # index
  BY <1>2, <1>7, <1>8 DEF Due
<1>10. \A t \in Threads : Rendering(t)'
  BY <1>1, <1>2 DEF Located, Rendering
<1>11. ASSUME NEW i \in Index
       PROVE  Placed(i)' /\ Begun(i)'
  <2>1. Placed(i) /\ Begun(i) /\ Apart(i) /\ Apart(index)
    BY <1>1, <1>4 DEF Located, Placed
  <2>2. Apart(i)' /\ (Somewhere(i)' <=> Somewhere(i) /\ i # index)
    BY <1>5, <1>6, <2>1 DEF Apart, Somewhere
  <2>3. Placed(i)'
    BY <1>2, <1>7, <1>9, <2>1, <2>2 DEF Placed, Unwanted
  <2>4. i >= First => i # index
    BY <1>1, <1>4, Numbers
  <2>5. Begun(i)'
    BY <1>2, <1>5, <1>6, <1>7, <1>9, <2>1, <2>4 DEF Begun
  <2> QED
    BY <2>3, <2>5
<1> QED
  BY <1>5, <1>6, <1>10, <1>11 DEF Located

LEMMA LocatedStep ==
  ASSUME SInv, [Next]_vars
  PROVE  Located' /\ IsFiniteSet(completed')
<1> USE DEF flags, channels, scan, report
<1>1. IsFiniteSet(completed) /\ TypeOK
  BY DEF SInv
<1>2. ASSUME NEW t \in Threads, RenderThread(t)
      PROVE  Located' /\ IsFiniteSet(completed')
  <2>1. completed' = completed
    BY <1>2 DEF RenderThread, ReceiveJob, ReceiveDisconnected, Reserve, ReserveRefused, Render,
                Finish, FinishRefused, Send, SendFailed, Return
  <2> QED
    BY <1>1, <1>2, <2>1, ReceiveJobLocated, ReserveLocated, WorkLocated, SendLocated, GiveUpLocated
       DEF RenderThread
<1>3. CASE \/ BeginClass \/ AdmitCancelled \/ Poll \/ PollTimeout \/ WaitCancelled \/ Join
           \/ Settle \/ MatchNothing \/ Match
  <2>1. UNCHANGED <<thread, jobs, results, completed, started, next, pending, stop, cancel>>
    BY <1>3 DEF BeginClass, AdmitCancelled, Poll, PollTimeout, WaitCancelled, Join, Settle,
                MatchNothing, Match
  <2>2. \/ /\ at \in Before \cup {"waiting", "joining", "settling", "matching"}
           /\ at' \in {"top", "admitting", "settling", "matching", "leaving"}
           /\ at = "waiting" => at' \in Over /\ cancel
        \/ at \in {"waiting", "polling"} /\ at' \in {"waiting", "polling"} /\ index' = index
    BY <1>3 DEF BeginClass, AdmitCancelled, Poll, PollTimeout, WaitCancelled, Join, Settle,
                MatchNothing, Match, Leave, NextClass, Over, Before
  <2>3. /\ at' \notin Over => at \notin Over
        /\ at \in {"waiting", "polling"} /\ (at' \notin Over \/ ~Unwanted')
             => at' \in {"waiting", "polling"}
        /\ at' \in {"waiting", "polling"} => at \in {"waiting", "polling"} /\ index' = index
    BY <2>1, <2>2 DEF Over, Before, Unwanted
  <2>4. Unwanted => Unwanted'
    BY <2>1 DEF Unwanted
  <2> QED
    BY <1>1, <2>1, <2>3, <2>4, StayLocated
<1>4. CASE LeaveScan \/ StopBudget \/ DropChannels \/ Shutdown
  <2>1. /\ UNCHANGED <<thread, jobs, results, completed, started, next, pending, cancel>>
        /\ stop => stop'
        /\ at \in Over /\ at' \in Over
    BY <1>4 DEF LeaveScan, StopBudget, DropChannels, Shutdown, Over
  <2> QED
    BY <1>1, <2>1, StayLocated DEF Over, Unwanted
<1>5. CASE Cancel \/ UNCHANGED vars
  <2>1. /\ UNCHANGED <<thread, jobs, results, completed, started, next, pending, stop, at, index>>
        /\ cancel => cancel'
    BY <1>5 DEF Cancel, vars
  <2> QED
    BY <1>1, <2>1, StayLocated DEF Unwanted, Over
<1>6. CASE Admit \/ Take
  <2>1. completed' = completed
    BY <1>6 DEF Admit, Take
  <2> QED
    BY <1>1, <1>6, <2>1, AdmitLocated, TakeLocated
<1> QED
  BY <1>2, <1>3, <1>4, <1>5, <1>6, ReceiveResultLocated, ConsumeLocated
     DEF Next, Coordinator, Terminated

\* Every step of a thread changes that thread alone.
LEMMA ThreadsAlone ==
  ASSUME SInv, NEW t \in Threads, RenderThread(t)
  PROVE  Alone(t)
<1>1. TypeOK
  BY DEF SInv
<1>2. ASSUME ReceiveJob(t)
      PROVE  Alone(t)
  <2>1. CASE Unwanted
    BY <1>1, <1>2, <2>1, ExitAlone DEF ReceiveJob
  <2>2. CASE ~Unwanted
    <3>1. Head(jobs) \in Index
      BY <1>1, <1>2, HeadTailProperties DEF ReceiveJob, TypeOK
    <3>2. PICK s \in Sizes :
            thread' = [thread EXCEPT ![t] =
                         [Idle("reserving") EXCEPT !.index = Head(jobs), !.size = Min({s, Limit})]]
      BY <1>2, <2>2 DEF ReceiveJob
    <3> QED
      BY <1>1, <3>1, <3>2, AskingAlone
  <2> QED
    BY <2>1, <2>2
<1> QED
  BY <1>1, <1>2, ReserveAlone, RenderAlone, FinishAlone, SendAlone, ExitAlone
     DEF RenderThread, ReceiveDisconnected, ReserveRefused, FinishRefused, SendFailed, Return

\* The exceptional thread of a class works only while the coordinator waits for it.
LEMMA ExceptionalStep ==
  ASSUME SInv, [Next]_vars
  PROVE  Exceptional'
<1> USE DEF flags, channels, scan, report
<1> DEFINE Active(i) == thread[i].state \notin {"unspawned", "exited"}
<1>1. TypeOK /\ Exceptional
  BY DEF SInv
<1>2. ASSUME NEW t \in Threads, RenderThread(t)
      PROVE  Exceptional'
  <2>1. UNCHANGED <<at, index, preparedAs>>
    BY <1>2 DEF RenderThread, ReceiveJob, ReceiveDisconnected, Reserve, ReserveRefused, Render,
                Finish, FinishRefused, Send, SendFailed, Return
  <2>2. t \in Workers \/ thread[t].state \notin {"unspawned", "exited"}
    BY <1>2 DEF RenderThread, Reserve, ReserveRefused, Render, Finish, FinishRefused, Send,
                SendFailed, Return
  <2>3. Alone(t)
    BY <1>2, ThreadsAlone
  <2>4. \A i \in Index : i \in Threads /\ i \notin Workers
    BY StreamingAssumption DEF Threads
  <2>5. \A i \in Index : Active(i)' => Active(i)
    BY <2>2, <2>3, <2>4 DEF Alone
  <2> QED
    BY <1>1, <2>1, <2>5 DEF Exceptional
<1>3. CASE Take
  <2>1. \A i \in Index : ~Active(i)
    BY <1>1, <1>3 DEF Exceptional, Take, Over
  <2>2. index \in Index /\ index \in Threads
    BY <1>3, TakeControl DEF Threads
  <2>3. CASE thread' = thread
    BY <2>1, <2>3 DEF Exceptional
  <2>4. CASE thread' # thread
    <3>1. PICK s \in Sizes :
            /\ thread' = [thread EXCEPT ![index] =
                            [Idle("reserving") EXCEPT !.index = index, !.size = Min({s, Limit})]]
            /\ at' = "waiting" /\ index' = index /\ preparedAs' = "cached"
      BY <1>3, <2>4 DEF Take
    <3>2. Alone(index)
      BY <1>1, <2>2, <3>1, AskingAlone
    <3>3. \A i \in Index : Active(i)' => i = index
      BY <2>1, <3>2 DEF Alone, Threads
    <3> QED
      BY <3>1, <3>3 DEF Exceptional
  <2> QED
    BY <2>3, <2>4
<1>4. CASE \/ BeginClass \/ Admit \/ AdmitCancelled \/ Poll \/ ReceiveResult \/ PollTimeout
           \/ WaitCancelled \/ Consume \/ Settle \/ MatchNothing \/ Match
           \/ LeaveScan \/ StopBudget \/ DropChannels \/ Shutdown \/ Cancel \/ UNCHANGED vars
  <2>1. thread' = thread /\ preparedAs' = preparedAs
    BY <1>4 DEF BeginClass, Admit, AdmitCancelled, Poll, ReceiveResult, PollTimeout, WaitCancelled,
                Consume, Settle, MatchNothing, Match, LeaveScan, StopBudget, DropChannels, Shutdown,
                Cancel, vars
  <2>2. \/ at \in {"top", "admitting", "settling", "matching"}
        \/ /\ index' = index
           /\ \/ at' \in Over
              \/ /\ at \notin Over
                 /\ preparedAs = "cached" => at' \in {"waiting", "polling", "joining"}
              \/ at' = at
    BY <1>4 DEF BeginClass, Admit, AdmitCancelled, Poll, ReceiveResult, PollTimeout, WaitCancelled,
                Consume, Settle, MatchNothing, Match, LeaveScan, StopBudget, DropChannels, Shutdown,
                Cancel, vars, Leave, Over
  <2>3. CASE at \in {"top", "admitting", "settling", "matching"}
    BY <1>1, <2>1, <2>3 DEF Exceptional, Over
  <2>4. CASE at \notin {"top", "admitting", "settling", "matching"}
    BY <1>1, <2>1, <2>2, <2>4 DEF Exceptional
  <2> QED
    BY <2>3, <2>4
<1>5. CASE Join
  <2>1. /\ thread' = thread /\ at = "joining" /\ thread[index].state = "exited"
    BY <1>5 DEF Join
  <2>2. \A i \in Index : ~Active(i)
    BY <1>1, <2>1 DEF Exceptional
  <2> QED
    BY <2>1, <2>2 DEF Exceptional
<1> QED
  BY <1>2, <1>3, <1>4, <1>5 DEF Next, Coordinator, Terminated

LEMMA Start == Init => SInv
<1> SUFFICES ASSUME Init PROVE SInv
  OBVIOUS
<1>1. /\ jobs = <<>> /\ results = <<>> /\ completed = {} /\ pending = <<>> /\ outcomes = <<>>
      /\ index = 0 /\ next = 0 /\ at = "top" /\ NumClasses \in Nat /\ taken = NoMessage
      /\ cancel = FALSE /\ stop = FALSE /\ cancelledAt = 0 /\ jobsOpen = TRUE /\ rxOpen = TRUE
      /\ budget = [reserved |-> 0, head |-> 0, stopped |-> FALSE] /\ preparedAs = "rejected"
      /\ summary = [scanned |-> 0, rejections |-> 0, skipped |-> 0, hits |-> 0,
                    limited |-> FALSE, cancelled |-> FALSE]
      /\ started = [i \in Index |-> 0]
      /\ MaxHits \in Nat \ {0} /\ Window \in Nat \ {0}
  BY StreamingAssumption DEF Init
<1>2. \A t \in Threads :
        /\ thread[t] \in ThreadState /\ thread[t].index = NumClasses /\ thread[t].bytes = 0
        /\ thread[t].state = IF t \in Workers THEN "receiving" ELSE "unspawned"
  BY IdleState DEF Init, ThreadStates
<1>3. thread \in [Threads -> ThreadState]
  BY <1>2 DEF Init
<1>4. First = 0 /\ Len(jobs) = 0 /\ Len(results) = 0 /\ Len(pending) = 0 /\ Len(outcomes) = 0
  <2>1. Len(pending) = 0 /\ Len(jobs) = 0 /\ Len(results) = 0 /\ Len(outcomes) = 0
    BY <1>1
  <2>2. next = 0
    BY <1>1
  <2> QED
    BY <2>1, <2>2 DEF First
<1>5. TypeOK
  <2>1. jobs \in Seq(Index) /\ results \in Seq(Message) /\ pending \in Seq(Prepared)
        /\ outcomes \in Seq(OutcomeState)
    BY <1>1
  <2>2. summary \in SummaryState /\ budget \in BudgetState
    BY <1>1 DEF SummaryState, BudgetState
  <2>3. started \in [Index -> 0 .. 1] /\ cancelledAt \in 0 .. NumClasses
    BY <1>1
  <2>4. /\ index \in 0 .. NumClasses /\ next \in 0 .. NumClasses /\ 0 <= Window
        /\ at \in Places /\ preparedAs \in Prepared /\ taken \in Message \cup {NoMessage}
    BY <1>1 DEF Places, Prepared
  <2> QED
    BY <1>1, <1>3, <1>4, <2>1, <2>2, <2>3, <2>4
       DEF TypeOK, OutcomeState, OutcomeKinds, SummaryState, BudgetState, ThreadState
<1>6. IsFiniteSet(completed)
  BY <1>1, FS_EmptySet
<1>7. Control
  BY <1>1, <1>4 DEF Control, Turn, Counted, Required, InTurn, Closed, CancelSeen, Before, Over
<1>8. Located
  <2>1. ASSUME NEW i \in Index
        PROVE  ~Somewhere(i) /\ ~Due(i)
    <3>1. i # NumClasses
      BY <1>1 DEF Index
    <3> QED
      BY <1>1, <1>2, <3>1 DEF Somewhere, InJobs, InThreads, InResults, InMap, Due, Awaited
  <2>2. \A i \in Index : Placed(i) /\ Begun(i)
    BY <1>1, <2>1 DEF Placed, Apart, Somewhere, Begun
  <2>3. \A t \in Threads : Rendering(t)
    BY <1>2 DEF Rendering, Idling
  <2> QED
    BY <1>1, <1>2, <2>2, <2>3 DEF Located, OnceJobs, OnceThreads, OnceResults, OnceMap
<1>9. Exceptional
  BY <1>2, StreamingAssumption DEF Exceptional, Threads
<1> QED
  BY <1>5, <1>6, <1>7, <1>8, <1>9 DEF SInv

\* Every reachable state satisfies the inductive invariant.
THEOREM Invariance == Spec => []SInv
<1>1. SInv /\ [Next]_vars => SInv'
  BY ControlStep, LocatedStep, ExceptionalStep DEF SInv
<1> QED
  BY <1>1, Start, PTL DEF Spec

\* Type correctness: every variable keeps its type, and both channels and the window their bound.
THEOREM TypeCorrect == Spec => []TypeOK
<1>1. SInv => TypeOK
  BY DEF SInv
<1> QED
  BY <1>1, Invariance, PTL

-----------------------------------------------------------------------------
(* What is promised *)

\* A cancellation lets at most the class whose turn it is be counted and reported.
THEOREM CancelledScanStops == Spec => []CancelStopsScan
<1>1. SInv => CancelStopsScan
  <2> SUFFICES ASSUME SInv, cancel
               PROVE  summary.scanned <= cancelledAt + 1 /\ Len(outcomes) <= cancelledAt + 1
    BY DEF CancelStopsScan
  <2>1. TypeOK /\ Counted /\ CancelSeen /\ Turn
    BY DEF SInv, Control
  <2>2. Len(outcomes) <= summary.scanned /\ summary.scanned <= cancelledAt + 1
    BY <2>1, Numbers DEF Counted, CancelSeen, Turn, Over
  <2> QED
    BY <2>1, <2>2, Numbers, SMTT(30)
<1> QED
  BY <1>1, Invariance, PTL

\* However many cached documents are damaged in a row, one exceptional thread exists at a time.
THEOREM OneExceptional == Spec => []OneExceptionalThread
<1>1. SInv => OneExceptionalThread
  <2> SUFFICES ASSUME SInv
               PROVE  OneExceptionalThread
    OBVIOUS
  <2> DEFINE S == { i \in Index : thread[i].state \notin {"unspawned", "exited"} }
  <2>1. S \subseteq {index}
    BY DEF SInv, Exceptional
  <2>2. IsFiniteSet({index}) /\ Cardinality({index}) = 1
    BY FS_Singleton
  <2>3. Cardinality(S) <= 1
    BY <2>1, <2>2, FS_Subset
  <2> QED
    BY <2>3 DEF OneExceptionalThread
<1> QED
  BY <1>1, Invariance, PTL

\* Of what is in a set at most once, there is one or nothing.
LEMMA CountOnce ==
  ASSUME NEW S, \A a, b \in S : a = b
  PROVE  Cardinality(S) = IF S = {} THEN 0 ELSE 1
<1>1. CASE S = {}
  BY <1>1, FS_EmptySet
<1>2. CASE S # {}
  <2>1. PICK a \in S : S = {a}
    BY <1>2
  <2> QED
    BY <1>2, <2>1, FS_Singleton
<1> QED
  BY <1>1, <1>2

LEMMA PlacesCount ==
  ASSUME SInv, NEW i \in Index
  PROVE  PlacesOf(i) = IF Somewhere(i) THEN 1 ELSE 0
<1>1. OnceJobs /\ OnceThreads /\ OnceResults /\ OnceMap /\ Apart(i) /\ i # NumClasses
  BY StreamingAssumption DEF SInv, Located, Placed, Index
<1> DEFINE J == { n \in DOMAIN jobs : jobs[n] = i }
           T == { t \in Threads : thread[t].index = i }
           R == { n \in DOMAIN results : results[n].index = i }
           M == { m \in completed : m.index = i }
<1>2. Cardinality(J) = IF InJobs(i) THEN 1 ELSE 0
  <2>1. \A a, b \in J : a = b
    BY <1>1 DEF OnceJobs
  <2> QED
    BY <2>1, CountOnce DEF InJobs
<1>3. Cardinality(T) = IF InThreads(i) THEN 1 ELSE 0
  <2>1. \A a, b \in T : a = b
    BY <1>1 DEF OnceThreads
  <2> QED
    BY <2>1, CountOnce DEF InThreads
<1>4. Cardinality(R) = IF InResults(i) THEN 1 ELSE 0
  <2>1. \A a, b \in R : a = b
    BY <1>1 DEF OnceResults
  <2> QED
    BY <2>1, CountOnce DEF InResults
<1>5. Cardinality(M) = IF InMap(i) THEN 1 ELSE 0
  <2>1. \A a, b \in M : a = b
    BY <1>1 DEF OnceMap
  <2> QED
    BY <2>1, CountOnce DEF InMap
<1>6. PlacesOf(i) = Cardinality(J) + Cardinality(T) + Cardinality(R) + Cardinality(M)
  BY DEF PlacesOf
<1> HIDE DEF J, T, R, M
<1> QED
  BY <1>1, <1>2, <1>3, <1>4, <1>5, <1>6 DEF Apart, Somewhere

\* Every class admitted for rendering is in exactly one place until it is consumed.
THEOREM NothingLost == Spec => []NoClassLost
<1>1. SInv => NoClassLost
  <2> SUFFICES ASSUME SInv, ~Unwanted
               PROVE  /\ \A n \in DOMAIN pending :
                           PlacesOf(next - Len(pending) - 1 + n) =
                             IF pending[n] = "rendering" THEN 1 ELSE 0
                      /\ at \in {"waiting", "polling"} => PlacesOf(index) = 1
    BY DEF NoClassLost
  <2>1. TypeOK /\ Turn /\ \A i \in Index : Placed(i)
    BY DEF SInv, Control, Located
  <2>2. ASSUME NEW n \in DOMAIN pending
        PROVE  PlacesOf(next - Len(pending) - 1 + n) = IF pending[n] = "rendering" THEN 1 ELSE 0
    <3> DEFINE c == First - 1 + n
    <3>1. /\ n \in 1 .. Len(pending) /\ DOMAIN pending = 1 .. Len(pending)
          /\ First \in 0 .. NumClasses /\ First + Len(pending) = next /\ next \in 0 .. NumClasses
          /\ NumClasses \in Nat /\ Len(pending) \in Nat
      <4>1. pending \in Seq(Prepared)
        BY <2>1 DEF TypeOK
      <4>2. DOMAIN pending = 1 .. Len(pending)
        BY <4>1
      <4> QED
        BY <2>1, <2>2, <4>2, TurnFacts, Numbers
    <3>2. c \in Index /\ c >= First
      BY <3>1 DEF Index
    <3>3. Awaited(c) <=> pending[n] = "rendering"
      BY <3>1 DEF Awaited
    <3>4. ~(at \in {"waiting", "polling"} /\ c = index)
      <4>1. at \in {"waiting", "polling"} => First = index + 1 /\ index \in Nat
        BY <2>1, Numbers DEF Turn, Before, Over
      <4> QED
        BY <3>1, <3>2, <4>1
    <3>5. Somewhere(c) <=> pending[n] = "rendering"
      BY <2>1, <3>2, <3>3, <3>4 DEF Placed, Due
    <3>6. next - Len(pending) - 1 + n = c
      BY DEF First
    <3> HIDE DEF c
    <3> QED
      BY <3>2, <3>5, <3>6, PlacesCount
  <2>3. ASSUME at \in {"waiting", "polling"}
        PROVE  PlacesOf(index) = 1
    <3>1. index \in Index
      BY <2>1, <2>3, TurnFacts DEF Before, Over
    <3>2. Somewhere(index)
      BY <2>1, <2>3, <3>1 DEF Placed, Due
    <3> QED
      BY <3>1, <3>2, PlacesCount
  <2> QED
    BY <2>2, <2>3
<1> QED
  BY <1>1, Invariance, PTL

-----------------------------------------------------------------------------
(* The sequential search *)

LEMMA SequentialSettles ==
  ASSUME SInv, NEW kind \in OutcomeKinds, NEW hits \in 0 .. MaxHits, Settled(index, kind, hits),
         at \notin Over, at' \in {"top", "leaving"}, index \in Index,
         kind # "scanned" => hits = 0,
         summary' \in SummaryState, summary'.hits = summary.hits + hits
  PROVE  Sequential!Settle
<1>1. /\ Len(outcomes) = index /\ summary.hits < MaxHits /\ index < NumClasses
      /\ summary'.hits <= MaxHits
  <2>1. Len(outcomes) = index /\ summary.hits < MaxHits
    BY DEF SInv, Control, Counted
  <2>2. index < NumClasses
    BY StreamingAssumption DEF Index
  <2>3. summary'.hits <= MaxHits
    BY StreamingAssumption DEF SummaryState
  <2> QED
    BY <2>1, <2>2, <2>3
<1>2. Status = "scanning" /\ Status' = "scanning"
  BY DEF Status, Over
<1> DEFINE o == [class |-> index, kind |-> kind, hits |-> hits]
<1>3. o \in Sequential!Outcome(Len(outcomes)) /\ o.hits = hits
  <2>1. CASE kind = "scanned"
    BY <1>1, <2>1 DEF Sequential!Outcome
  <2>2. CASE kind \in {"rejected", "skipped"}
    BY <1>1, <2>2 DEF Sequential!Outcome
  <2> QED
    BY <2>1, <2>2 DEF OutcomeKinds
<1>4. outcomes' = Append(outcomes, o)
  BY DEF Settled
<1> HIDE DEF o
<1> QED
  BY <1>1, <1>2, <1>3, <1>4 DEF Sequential!Settle

\* A class that is settled is settled in its turn, and its hits are within the limit.
LEMMA SequentialStep ==
  ASSUME SInv, [Next]_vars
  PROVE  [Sequential!Next]_(Sequential!vars)
<1> USE DEF flags, channels, scan, report
<1>1. TypeOK /\ Control
  BY DEF SInv
<1>2. ASSUME UNCHANGED <<summary, outcomes>>, at \in Over \ {"leaving"}
             <=> at' \in Over \ {"leaving"}
      PROVE  [Sequential!Next]_(Sequential!vars)
  <2>1. Status' = Status
    BY <1>2 DEF Status, Over
  <2> QED
    BY <1>2, <2>1 DEF Sequential!vars
<1>3. ASSUME UNCHANGED outcomes, summary'.hits = summary.hits, at \notin Over,
             at' \notin Over \ {"leaving"}
      PROVE  [Sequential!Next]_(Sequential!vars)
  <2>1. Status' = "scanning" /\ Status = "scanning"
    BY <1>3 DEF Status, Over
  <2> QED
    BY <1>3, <2>1 DEF Sequential!vars
<1>4. ASSUME NEW t \in Threads, RenderThread(t)
      PROVE  [Sequential!Next]_(Sequential!vars)
  <2>1. UNCHANGED <<at, summary, outcomes>>
    BY <1>4 DEF RenderThread, ReceiveJob, ReceiveDisconnected, Reserve, ReserveRefused, Render,
                Finish, FinishRefused, Send, SendFailed, Return
  <2> QED
    BY <1>2, <2>1
<1>5. CASE \/ BeginClass \/ AdmitCancelled \/ WaitCancelled \/ (Settle /\ cancel)
  <2>1. /\ at \in {"top", "admitting", "waiting", "settling"} /\ at' \in {"admitting", "leaving"}
        /\ outcomes' = outcomes /\ (summary' = summary \/ Leave("cancelled"))
    BY <1>5 DEF BeginClass, AdmitCancelled, WaitCancelled, Settle, Leave
  <2>2. summary'.hits = summary.hits
    BY <1>1, <2>1, LeaveRecorded
  <2> QED
    BY <1>3, <2>1, <2>2 DEF Over
<1>6. CASE \/ Admit \/ Poll \/ ReceiveResult \/ PollTimeout \/ Consume \/ Join
           \/ StopBudget \/ DropChannels \/ Shutdown \/ Cancel \/ UNCHANGED vars
  <2>1. /\ UNCHANGED <<summary, outcomes>>
        /\ at \in Over \ {"leaving"} <=> at' \in Over \ {"leaving"}
    BY <1>6 DEF Admit, Poll, ReceiveResult, PollTimeout, Consume, Join, StopBudget, DropChannels,
                Shutdown, Cancel, vars, Over
  <2> QED
    BY <1>2, <2>1
<1>7. CASE Take
  <2>1. index \in Index /\ at = "admitting"
    BY <1>7, TakeControl DEF Take
  <2>2. CASE Head(pending) = "rejected"
    <3>1. /\ summary' = [summary EXCEPT !.scanned = @ + 1, !.rejections = @ + 1]
          /\ Settled(index, "rejected", 0) /\ at' = "top"
      BY <1>7, <2>2 DEF Take, NextClass
    <3>2. summary' \in SummaryState
      <4>1. TypeOK'
        BY <1>7, TakeControl
      <4> QED
        BY <4>1 DEF TypeOK, SummaryState
    <3>3. summary'.hits = summary.hits + 0 /\ 0 \in 0 .. MaxHits
      <4>1. summary'.hits = summary.hits /\ summary.hits \in Nat /\ MaxHits \in Nat
        BY <1>1, <3>1, Numbers DEF SummaryState
      <4> QED
        BY <4>1
    <3>4. Sequential!Settle
      BY <2>1, <3>1, <3>2, <3>3, SequentialSettles DEF Over, OutcomeKinds
    <3> QED
      BY <3>4 DEF Sequential!Next
  <2>3. CASE Head(pending) # "rejected"
    <3>1. /\ summary' = [summary EXCEPT !.scanned = @ + 1] /\ outcomes' = outcomes
          /\ at' \in {"waiting", "matching"}
      BY <1>7, <2>3 DEF Take
    <3>2. summary'.hits = summary.hits
      BY <1>1, <3>1, Numbers DEF SummaryState
    <3> QED
      BY <1>3, <2>1, <3>1, <3>2 DEF Over
  <2> QED
    BY <2>2, <2>3
<1>8. CASE (Settle \/ MatchNothing \/ Match) /\ (at = "settling" => ~cancel)
  <2>1. /\ index \in Index /\ at \notin Over
        /\ \/ at' = "matching" /\ UNCHANGED <<summary, outcomes>>
           \/ /\ at' \in {"top", "leaving"} /\ summary' \in SummaryState
              /\ \/ outcomes' = outcomes /\ summary'.hits = summary.hits
                 \/ \E kind \in {"skipped", "scanned"}, hits \in 0 .. MaxHits :
                      /\ Settled(index, kind, hits)
                      /\ kind = "skipped" => hits = 0
                      /\ summary'.hits = summary.hits + hits
    <3>1. /\ index \in Index /\ at \in {"settling", "matching"}
          /\ \/ at' = "matching" /\ UNCHANGED <<summary, outcomes>>
             \/ at' \in {"top", "leaving"} /\ summary' \in SummaryState
      BY <1>8, SettleEffect
    <3>2. CASE at' = "top"
      <4>1. \E kind \in {"skipped", "scanned"}, hits \in 0 .. MaxHits :
              /\ Settled(index, kind, hits)
              /\ kind = "skipped" => hits = 0
              /\ summary'.hits = summary.hits + hits
        BY <1>8, <3>2, SettleEffect
      <4> HIDE DEF report
      <4> QED
        BY <3>1, <3>2, <4>1, Zenon DEF Over
    <3>3. CASE at' = "leaving"
      <4>1. \/ outcomes' = outcomes /\ summary'.hits = summary.hits
            \/ \E hits \in 0 .. MaxHits :
                 /\ Settled(index, "scanned", hits)
                 /\ summary'.hits = summary.hits + hits
        BY <1>8, <3>3, SettleEffect
      <4> QED
        BY <3>1, <3>3, <4>1 DEF Over
    <3> QED
      BY <3>1, <3>2, <3>3 DEF Over
  <2>2. CASE at' = "matching" /\ UNCHANGED <<summary, outcomes>>
    BY <1>3, <2>1, <2>2 DEF Over
  <2>3. CASE at' \in {"top", "leaving"} /\ outcomes' = outcomes /\ summary'.hits = summary.hits
    BY <1>3, <2>1, <2>3 DEF Over
  <2>4. ASSUME at' \in {"top", "leaving"}, summary' \in SummaryState,
               NEW kind \in {"skipped", "scanned"}, NEW hits \in 0 .. MaxHits,
               Settled(index, kind, hits), kind = "skipped" => hits = 0,
               summary'.hits = summary.hits + hits
        PROVE  [Sequential!Next]_(Sequential!vars)
    <3>1. Sequential!Settle
      BY <2>1, <2>4, SequentialSettles DEF OutcomeKinds
    <3> QED
      BY <3>1 DEF Sequential!Next
  <2> QED
    BY <2>1, <2>2, <2>3, <2>4
<1>9. CASE LeaveScan
  <2>1. /\ at = "leaving" /\ at' = "closing" /\ outcomes' = outcomes
        /\ summary' = [summary EXCEPT !.cancelled = @ \/ cancel]
    BY <1>9 DEF LeaveScan
  <2>2. /\ summary'.hits = summary.hits /\ summary'.limited = summary.limited
        /\ (summary.cancelled => summary'.cancelled)
    BY <1>1, <2>1, Numbers DEF SummaryState
  <2>3. summary.limited \/ summary.cancelled \/ Len(outcomes) = NumClasses
    BY <1>1, <2>1 DEF Control, Counted, Over
  <2>4. Status = "scanning"
    BY <2>1 DEF Status
  <2>5. \/ Status' = "cancelled" \/ Status' = "limited"
        \/ Status' = "complete" /\ Len(outcomes) = NumClasses
    BY <2>1, <2>2, <2>3 DEF Status
  <2> QED
    BY <2>1, <2>2, <2>4, <2>5
       DEF Sequential!Next, Sequential!Cancelled, Sequential!ReachLimit, Sequential!Complete
<1>10. MatchNothing \/ Match => at = "matching"
  BY DEF MatchNothing, Match
<1> QED
  BY <1>4, <1>5, <1>6, <1>7, <1>8, <1>9, <1>10 DEF Next, Coordinator, Terminated

\* The parallel search reports what a sequential one could, whatever its threads do.
THEOREM RefinesSequential == Spec => ImplementsSequential
<1>1. Init => Sequential!Init
  BY DEF Init, Sequential!Init, Status
<1>2. SInv /\ [Next]_vars => [Sequential!Next]_(Sequential!vars)
  BY SequentialStep
<1> QED
  BY <1>1, <1>2, Invariance, PTL DEF Spec, ImplementsSequential, Sequential!Spec

-----------------------------------------------------------------------------
(* The byte budget *)

LEMMA OneCharge ==
  ASSUME NEW S, IsFiniteSet(S), NEW f \in [S -> Nat], NEW s \in S, \A u \in S : u # s => f[u] = 0
  PROVE  Total(f) = f[s]
<1> DEFINE g == [u \in S |-> 0]
<1>1. g \in [S -> Nat] /\ g[s] = 0 /\ Total(g) = 0
  BY TotalZero
<1>2. f = [g EXCEPT ![s] = f[s]]
  OBVIOUS
<1>3. f[s] \in Nat
  OBVIOUS
<1> HIDE DEF g
<1>4. ASSUME NEW n \in Nat
      PROVE  Total([g EXCEPT ![s] = n]) = n
  <2>1. Total([g EXCEPT ![s] = n]) = Total(g) - g[s] + n
    BY <1>1, TotalUpdate
  <2> QED
    BY <1>1, <2>1
<1>5. Total([g EXCEPT ![s] = f[s]]) = f[s]
  BY <1>3, <1>4
<1> QED
  BY <1>2, <1>5

LEMMA NoCharge ==
  ASSUME NEW S, NEW f \in [S -> Nat], \A u \in S : f[u] = 0
  PROVE  Total(f) = 0
<1>1. f = [s \in S |-> 0]
  OBVIOUS
<1> QED
  BY <1>1, TotalZero

\* The bytes b are charged for the class, to whoever has it.
Holds(i, b) ==
  \/ \E t \in Threads : thread[t].index = i /\ thread[t].bytes = b
  \/ \E n \in DOMAIN results : results[n].index = i /\ results[n].bytes = b
  \/ \E m \in completed : m.index = i /\ m.bytes = b

InRendering(i) ==
  \E t \in Threads : thread[t].index = i /\ thread[t].state \in {"rendering", "finishing"}

\* What the mapping to the budget says of a class, by where the class is.
Charges ==
  \A i \in Index :
    /\ \A b : Holds(i, b) => ChargeOf(i) = b
    /\ (\A b : ~Holds(i, b)) => ChargeOf(i) = 0
    /\ CallOf(i) = IF started[i] = 0 THEN "unreserved"
                   ELSE IF InRendering(i) THEN "rendering"
                   ELSE IF Somewhere(i) THEN "finished" ELSE "gone"

LEMMA ThreadsFinite == IsFiniteSet(Threads)
<1>1. IsFiniteSet(0 .. NumClasses - 1)
  BY StreamingAssumption, FS_Interval
<1> QED
  BY <1>1, StreamingAssumption, FS_Union DEF Threads, Index

LEMMA ChargesHold == SInv => Charges
<1> SUFFICES ASSUME SInv, NEW i \in Index
             PROVE  /\ \A b : Holds(i, b) => ChargeOf(i) = b
                    /\ (\A b : ~Holds(i, b)) => ChargeOf(i) = 0
                    /\ CallOf(i) = IF started[i] = 0 THEN "unreserved"
                                   ELSE IF InRendering(i) THEN "rendering"
                                   ELSE IF Somewhere(i) THEN "finished" ELSE "gone"
  BY DEF Charges
<1>1. /\ TypeOK /\ IsFiniteSet(completed) /\ OnceThreads /\ OnceResults /\ OnceMap /\ Apart(i)
      /\ i # NumClasses
  BY StreamingAssumption DEF SInv, Located, Placed, Index
<1> DEFINE T == [t \in Threads |-> IF thread[t].index = i THEN thread[t].bytes ELSE 0]
           R == [n \in DOMAIN results |-> IF results[n].index = i THEN results[n].bytes ELSE 0]
           M == [m \in completed |-> IF m.index = i THEN m.bytes ELSE 0]
<1>2. /\ ~InThreads(i) => Total(T) = 0
      /\ \A t \in Threads : thread[t].index = i => Total(T) = thread[t].bytes
  <2>1. T \in [Threads -> Nat]
    BY <1>1 DEF TypeOK
  <2>2. ~InThreads(i) => \A t \in Threads : T[t] = 0
    BY DEF InThreads
  <2>3. ASSUME NEW t \in Threads, thread[t].index = i
        PROVE  Total(T) = thread[t].bytes
    <3>1. T[t] = thread[t].bytes /\ \A u \in Threads : u # t => T[u] = 0
      BY <1>1, <2>3 DEF OnceThreads
    <3> HIDE DEF T
    <3> QED
      BY <2>1, <3>1, ThreadsFinite, OneCharge
  <2> HIDE DEF T
  <2> QED
    BY <2>1, <2>2, <2>3, NoCharge
<1>3. /\ ~InResults(i) => Total(R) = 0
      /\ \A n \in DOMAIN results : results[n].index = i => Total(R) = results[n].bytes
  <2>1. R \in [DOMAIN results -> Nat] /\ IsFiniteSet(DOMAIN results)
    <3>1. /\ results \in Seq(Message) /\ DOMAIN results = 1 .. Len(results) /\ Len(results) \in Nat
          /\ \A n \in DOMAIN results : results[n] \in Message
      BY <1>1 DEF TypeOK
    <3>2. IsFiniteSet(1 .. Len(results))
      BY <3>1, FS_Interval
    <3>3. \A n \in DOMAIN results : results[n].bytes \in Nat
      BY <3>1 DEF Message
    <3> QED
      BY <3>1, <3>2, <3>3
  <2>2. ~InResults(i) => \A n \in DOMAIN results : R[n] = 0
    BY DEF InResults
  <2>3. ASSUME NEW n \in DOMAIN results, results[n].index = i
        PROVE  Total(R) = results[n].bytes
    <3>1. R[n] = results[n].bytes /\ \A u \in DOMAIN results : u # n => R[u] = 0
      BY <1>1, <2>3 DEF OnceResults
    <3> HIDE DEF R
    <3> QED
      BY <2>1, <3>1, OneCharge
  <2> HIDE DEF R
  <2> QED
    BY <2>1, <2>2, <2>3, NoCharge
<1>4. /\ ~InMap(i) => Total(M) = 0
      /\ \A m \in completed : m.index = i => Total(M) = m.bytes
  <2>1. M \in [completed -> Nat]
    BY <1>1 DEF TypeOK, Message
  <2>2. ~InMap(i) => \A m \in completed : M[m] = 0
    BY DEF InMap
  <2>3. ASSUME NEW m \in completed, m.index = i
        PROVE  Total(M) = m.bytes
    <3>1. M[m] = m.bytes /\ \A u \in completed : u # m => M[u] = 0
      BY <1>1, <2>3 DEF OnceMap
    <3> HIDE DEF M
    <3> QED
      BY <1>1, <2>1, <3>1, OneCharge
  <2> HIDE DEF M
  <2> QED
    BY <2>1, <2>2, <2>3, NoCharge
<1>5. ChargeOf(i) = Total(T) + Total(R) + Total(M)
  BY DEF ChargeOf
<1> HIDE DEF T, R, M
<1>6. /\ \A t \in Threads : thread[t].bytes \in Nat
      /\ \A n \in DOMAIN results : results[n].bytes \in Nat
      /\ \A m \in completed : m.bytes \in Nat
  <2>1. \A n \in DOMAIN results : results[n] \in Message
    BY <1>1 DEF TypeOK
  <2> QED
    BY <1>1, <2>1 DEF TypeOK, Message
<1>7. ASSUME NEW b, Holds(i, b)
      PROVE  ChargeOf(i) = b
  <2>1. CASE \E t \in Threads : thread[t].index = i /\ thread[t].bytes = b
    <3>1. InThreads(i) /\ Total(T) = b /\ b \in Nat
      BY <1>2, <1>6, <2>1 DEF InThreads
    <3>2. Total(R) = 0 /\ Total(M) = 0
      BY <1>1, <1>3, <1>4, <3>1 DEF Apart
    <3> QED
      BY <1>5, <3>1, <3>2
  <2>2. CASE \E n \in DOMAIN results : results[n].index = i /\ results[n].bytes = b
    <3>1. InResults(i) /\ Total(R) = b /\ b \in Nat
      BY <1>3, <1>6, <2>2 DEF InResults
    <3>2. Total(T) = 0 /\ Total(M) = 0
      BY <1>1, <1>2, <1>4, <3>1 DEF Apart
    <3> QED
      BY <1>5, <3>1, <3>2
  <2>3. CASE \E m \in completed : m.index = i /\ m.bytes = b
    <3>1. InMap(i) /\ Total(M) = b /\ b \in Nat
      BY <1>4, <1>6, <2>3 DEF InMap
    <3>2. Total(T) = 0 /\ Total(R) = 0
      BY <1>1, <1>2, <1>3, <3>1 DEF Apart
    <3> QED
      BY <1>5, <3>1, <3>2
  <2> QED
    BY <1>7, <2>1, <2>2, <2>3 DEF Holds
<1>8. ASSUME \A b : ~Holds(i, b)
      PROVE  ChargeOf(i) = 0
  <2>1. ~InThreads(i) /\ ~InResults(i) /\ ~InMap(i)
    BY <1>8 DEF Holds, InThreads, InResults, InMap
  <2> QED
    BY <1>2, <1>3, <1>4, <1>5, <2>1
<1>9. PlacesOf(i) > 0 <=> Somewhere(i)
  BY PlacesCount
<1> QED
  BY <1>7, <1>8, <1>9 DEF CallOf, InRendering

\* For the budget nothing happens to the class: its charge and its calls are what they were.
Kept(i) == ChargeOf(i)' = ChargeOf(i) /\ CallOf(i)' = CallOf(i)

LEMMA KeptWhere ==
  ASSUME Charges, Charges', NEW i \in Index, started'[i] = started[i],
         \A b : (Holds(i, b) => Holds(i, b)' \/ b = 0) /\ (Holds(i, b)' => Holds(i, b) \/ b = 0),
         started[i] = 0 \/ ((InRendering(i)' <=> InRendering(i))
                             /\ (Somewhere(i)' <=> Somewhere(i)))
  PROVE  Kept(i)
<1>1. CallOf(i)' = CallOf(i)
  BY DEF Charges
<1>2. /\ \A b : Holds(i, b) => ChargeOf(i) = b
      /\ \A b : Holds(i, b)' => ChargeOf(i)' = b
      /\ (\A b : ~Holds(i, b)) => ChargeOf(i) = 0
      /\ (\A b : ~Holds(i, b)') => ChargeOf(i)' = 0
  BY DEF Charges
<1>3. ChargeOf(i)' = ChargeOf(i)
  <2>1. CASE \E b : Holds(i, b) /\ b # 0
    BY <1>2, <2>1
  <2>2. CASE \A b : Holds(i, b) => b = 0
    <3>1. ChargeOf(i) = 0 /\ \A b : Holds(i, b)' => b = 0
      BY <1>2, <2>2
    <3>2. ChargeOf(i)' = 0
      BY <1>2, <3>1
    <3> QED
      BY <3>1, <3>2
  <2> QED
    BY <2>1, <2>2
<1> QED
  BY <1>1, <1>3 DEF Kept

\* A step of a thread does not concern the classes it neither had nor gets.
LEMMA HoldsElsewhere ==
  ASSUME NEW t \in Threads, Alone(t), UNCHANGED <<results, completed>>, NEW i,
         thread[t].index # i, thread'[t].index # i
  PROVE  /\ \A b : Holds(i, b)' <=> Holds(i, b)
         /\ InRendering(i)' <=> InRendering(i)
         /\ InThreads(i)' <=> InThreads(i)
         /\ (InJobs(i)' <=> InJobs(i)) => (Somewhere(i)' <=> Somewhere(i))
BY DEF Alone, Holds, InRendering, InThreads, Somewhere, InResults, InMap

LEMMA HoldsNothing ==
  ASSUME NEW t \in Threads, Alone(t), UNCHANGED <<results, completed>>, NEW i,
         thread[t].bytes = 0, thread'[t].bytes = 0
  PROVE  \A b : (Holds(i, b) => Holds(i, b)' \/ b = 0) /\ (Holds(i, b)' => Holds(i, b) \/ b = 0)
BY DEF Alone, Holds

LEMMA HoldsSomewhere ==
  ASSUME NEW i, NEW b, Holds(i, b)
  PROVE  Somewhere(i)
BY DEF Holds, Somewhere, InThreads, InResults, InMap

LEMMA BudgetStutters ==
  ASSUME \A i \in Index : Kept(i), UNCHANGED <<budget, cancel>>
  PROVE  [Budget!Next]_(Budget!vars)
<1>1. [i \in Index |-> CallOf(i)]' = [i \in Index |-> CallOf(i)]
  BY DEF Kept
<1>2. [i \in Index |-> ChargeOf(i)]' = [i \in Index |-> ChargeOf(i)]
  BY DEF Kept
<1> QED
  BY <1>1, <1>2 DEF Budget!vars

LEMMA BudgetCall ==
  ASSUME NEW k \in Index, \A i \in Index \ {k} : Kept(i), NEW c, NEW n,
         CallOf(k)' = c, ChargeOf(k)' = n
  PROVE  /\ [i \in Index |-> CallOf(i)]' = [[i \in Index |-> CallOf(i)] EXCEPT ![k] = c]
         /\ [i \in Index |-> ChargeOf(i)]' = [[i \in Index |-> ChargeOf(i)] EXCEPT ![k] = n]
<1>1. \A i \in Index : CallOf(i)' = [[j \in Index |-> CallOf(j)] EXCEPT ![k] = c][i]
  BY DEF Kept
<1>2. \A i \in Index : ChargeOf(i)' = [[j \in Index |-> ChargeOf(j)] EXCEPT ![k] = n][i]
  BY DEF Kept
<1> QED
  BY <1>1, <1>2

\* A thread step that makes no call: the bytes of its class move with the class.
LEMMA QuietThread ==
  ASSUME SInv, Charges, Charges', NEW t \in Threads,
         \/ ReceiveJob(t) \/ ReceiveDisconnected(t) \/ ReserveRefused(t) \/ Render(t) \/ Send(t)
         \/ Return(t)
  PROVE  [Budget!Next]_(Budget!vars)
<1> USE DEF flags, channels, scan, report
<1>1. TypeOK /\ Located /\ Rendering(t) /\ \A i \in Index : i # NumClasses
  BY StreamingAssumption DEF SInv, Located, Index
<1>2. UNCHANGED <<budget, cancel, started, completed>>
  BY DEF ReceiveJob, ReceiveDisconnected, ReserveRefused, Render, Send, Return
<1>3. CASE ReceiveJob(t) \/ ReceiveDisconnected(t) \/ ReserveRefused(t) \/ Return(t)
  <2>1. /\ UNCHANGED <<results, completed>> /\ thread[t].bytes = 0
    BY <1>1, <1>3 DEF ReceiveJob, ReceiveDisconnected, ReserveRefused, Return, Rendering, Idling
  <2>2. Alone(t) /\ thread'[t].bytes = 0
    <3>1. CASE Exit(t)
      BY <1>1, <3>1, ExitAlone
    <3>2. CASE ReceiveJob(t) /\ ~Exit(t)
      <4>1. Head(jobs) \in Index
        BY <1>1, <3>2, HeadTailProperties DEF ReceiveJob, TypeOK
      <4>2. PICK s \in Sizes :
              thread' = [thread EXCEPT ![t] =
                           [Idle("reserving") EXCEPT !.index = Head(jobs),
                                                  !.size = Min({s, Limit})]]
        BY <3>2 DEF ReceiveJob
      <4> QED
        BY <1>1, <4>1, <4>2, AskingAlone
    <3> QED
      BY <1>3, <3>1, <3>2 DEF ReceiveDisconnected, ReserveRefused, Return
  <2>3. ASSUME NEW i \in Index, started[i] # 0
        PROVE  (InRendering(i)' <=> InRendering(i)) /\ (Somewhere(i)' <=> Somewhere(i))
    <3>1. thread[t].index # i
      BY <1>1, <1>3, <2>3 DEF ReceiveJob, ReceiveDisconnected, ReserveRefused, Return, Rendering,
         Idling
    <3>2. CASE ReceiveJob(t)
      <4>1. /\ Head(jobs) \in Index /\ InJobs(Head(jobs))
            /\ InJobs(i)' <=> InJobs(i) /\ i # Head(jobs)
        BY <1>1, <3>2, JobTaken DEF ReceiveJob, Located
      <4>2. started[Head(jobs)] = 0
        BY <1>1, <4>1 DEF Located, Begun
      <4>3. i # Head(jobs)
        BY <2>3, <4>2
      <4>4. thread'[t].index # i
        <5>1. CASE Exit(t)
          BY <1>1, <5>1, ExitAlone
        <5>2. CASE ~Exit(t)
          <6>1. PICK s \in Sizes :
                  thread' = [thread EXCEPT ![t] =
                               [Idle("reserving") EXCEPT !.index = Head(jobs),
                                                      !.size = Min({s, Limit})]]
            BY <3>2, <5>2 DEF ReceiveJob
          <6> QED
            BY <1>1, <4>1, <4>3, <6>1, AskingAlone
        <5> QED
          BY <5>1, <5>2
      <4> QED
        BY <2>1, <2>2, <3>1, <4>1, <4>3, <4>4, HoldsElsewhere
    <3>3. CASE ReceiveDisconnected(t) \/ ReserveRefused(t) \/ Return(t)
      <4>1. Exit(t) /\ jobs' = jobs
        BY <3>3 DEF ReceiveDisconnected, ReserveRefused, Return
      <4>2. thread'[t].index # i
        BY <1>1, <4>1, ExitAlone
      <4>3. InJobs(i)' <=> InJobs(i)
        BY <4>1 DEF InJobs
      <4> QED
        BY <2>1, <2>2, <3>1, <4>2, <4>3, HoldsElsewhere
    <3> QED
      BY <1>3, <3>2, <3>3
  <2>4. ASSUME NEW i \in Index
        PROVE  Kept(i)
    <3>1. \A b : (Holds(i, b) => Holds(i, b)' \/ b = 0) /\ (Holds(i, b)' => Holds(i, b) \/ b = 0)
      BY <2>1, <2>2, HoldsNothing
    <3> QED
      BY <1>2, <2>3, <3>1, KeptWhere
  <2> QED
    BY <1>2, <2>4, BudgetStutters
<1>4. CASE Render(t)
  <2>1. /\ Alone(t) /\ thread'[t].index = thread[t].index /\ thread'[t].bytes = thread[t].bytes
        /\ thread[t].state = "rendering" /\ thread'[t].state = "finishing"
        /\ UNCHANGED <<jobs, results, completed>>
    BY <1>1, <1>4, RenderAlone DEF Render
  <2>2. ASSUME NEW i \in Index
        PROVE  Kept(i)
    <3>1. /\ \A b : Holds(i, b)' <=> Holds(i, b)
          /\ InRendering(i)' <=> InRendering(i)
          /\ Somewhere(i)' <=> Somewhere(i)
      BY <2>1 DEF Alone, Holds, InRendering, Somewhere, InJobs, InThreads, InResults, InMap
    <3> QED
      BY <1>2, <3>1, KeptWhere
  <2> QED
    BY <1>2, <2>2, BudgetStutters
<1>5. CASE Send(t)
  <2> DEFINE k == thread[t].index
             m == [index |-> k, bytes |-> thread[t].bytes, ok |-> thread[t].ok]
  <2>1. /\ Alone(t) /\ thread'[t].index = NumClasses
        /\ thread'[t].state \in {"receiving", "returning"}
        /\ thread[t].state = "sending" /\ k \in Index /\ InThreads(k)
    BY <1>1, <1>5, SendAlone, AtWork DEF Send, Idling, InThreads
  <2>2. results' = Append(results, m) /\ m \in Message /\ m.index = k /\ m.bytes = thread[t].bytes
    BY <1>1, <1>5, <2>1 DEF Send, TypeOK, Message
  <2>3. UNCHANGED <<jobs, completed>>
    BY <1>5 DEF Send
  <2>4. ~InResults(k) /\ results \in Seq(Message)
    BY <1>1, <2>1 DEF Located, Placed, Apart, TypeOK
  <2> HIDE DEF m
  <2>5. /\ \A n \in DOMAIN results : n \in DOMAIN results' /\ results'[n] = results[n]
        /\ \E l \in DOMAIN results' : /\ l \notin DOMAIN results /\ results'[l] = m
                                      /\ \A n \in DOMAIN results' : n \in DOMAIN results \/ n = l
    BY <2>2, <2>4, AppendEntries
  <2>6. \A i : InResults(i)' <=> InResults(i) \/ i = k
    BY <1>1, <2>2, <2>4, ResultAdded DEF Located
  <2>7. \A i \in Index : InThreads(i)' <=> InThreads(i) /\ i # k
    BY <1>1, <2>1, ThreadGivesClass DEF Located
  <2>8. ASSUME NEW i \in Index
        PROVE  Kept(i)
    <3>1. Somewhere(i)' <=> Somewhere(i)
      BY <2>1, <2>3, <2>6, <2>7 DEF Somewhere, InJobs, InMap
    <3>2. InRendering(i)' <=> InRendering(i)
      BY <2>1 DEF InRendering, Alone
    <3>3. ASSUME NEW b
          PROVE  Holds(i, b)' <=> Holds(i, b)
      <4>1. CASE i = k
        <5>0. PICK c : c = thread[t].bytes
          OBVIOUS
        <5>1. Holds(i, b) => b = c
          <6>1. Apart(i)
            BY <1>1 DEF Located, Placed
          <6>2. ~InResults(i) /\ ~InMap(i)
            BY <2>1, <4>1, <6>1 DEF Apart
          <6>3. \A u \in Threads : thread[u].index = i => u = t
            BY <1>1, <4>1 DEF Located, OnceThreads
          <6> QED
            BY <5>0, <6>2, <6>3 DEF Holds, InResults, InMap
        <5>2. Holds(i, c)
          BY <4>1, <5>0 DEF Holds
        <5>3. Holds(i, c)'
          <6>1. \E l \in DOMAIN results' : results'[l].index = i /\ results'[l].bytes = c
            BY <2>2, <2>5, <4>1, <5>0
          <6> QED
            BY <2>1, <6>1 DEF Holds
        <5>4. Holds(i, b)' => b = c
          <6>1. Charges'
            OBVIOUS
          <6> QED
            BY <5>3, <6>1 DEF Charges
        <5> QED
          BY <5>1, <5>2, <5>3, <5>4
      <4>2. CASE i # k
        BY <1>1, <2>1, <2>2, <2>3, <2>5, <4>2 DEF Holds, Alone
      <4> QED
        BY <4>1, <4>2
    <3> QED
      BY <1>2, <3>1, <3>2, <3>3, KeptWhere
  <2> QED
    BY <1>2, <2>8, BudgetStutters
<1> QED
  BY <1>3, <1>4, <1>5

LEMMA OthersKept ==
  ASSUME Charges, Charges', NEW t \in Threads, Alone(t), UNCHANGED <<jobs, results, completed>>,
         NEW i \in Index, thread[t].index # i, thread'[t].index # i, started'[i] = started[i]
  PROVE  Kept(i)
<1>1. InJobs(i)' <=> InJobs(i)
  BY DEF InJobs
<1>2. /\ \A b : Holds(i, b)' <=> Holds(i, b)
      /\ InRendering(i)' <=> InRendering(i)
      /\ Somewhere(i)' <=> Somewhere(i)
  BY <1>1, HoldsElsewhere
<1> QED
  BY <1>2, KeptWhere

\* A thread that reserves bytes for its class, or exchanges the estimate for the size.
LEMMA ReserveCalls ==
  ASSUME SInv, Charges, Charges', NEW t \in Threads, Reserve(t)
  PROVE  Budget!Next
<1> USE DEF flags, channels, scan, report
<1>1. TypeOK /\ Rendering(t)
  BY DEF SInv, Located
<1>2. PICK k \in Index : thread[t].index = k
  BY <1>1, AtWork DEF Reserve, Idling
<1>3. PICK n \in Sizes \cup {Limit} : n = thread[t].size /\ n <= Limit
  BY <1>1 DEF Reserve, Rendering
<1>4. /\ Alone(t) /\ thread'[t].index = k /\ thread'[t].state = "rendering" /\ thread'[t].bytes = n
  BY <1>1, <1>2, <1>3, ReserveAlone
<1>5. /\ started[k] = 0 /\ started'[k] = 1 /\ \A i \in Index \ {k} : started'[i] = started[i]
      /\ UNCHANGED <<jobs, results, completed, cancel>>
      /\ ~Refused /\ Admits(k, n, budget.reserved)
      /\ budget' = [budget EXCEPT !.reserved = @ + n]
  BY <1>1, <1>2, <1>3 DEF Reserve, Rendering, Idling, TypeOK
<1>6. CallOf(k) = "unreserved"
  BY <1>5 DEF Charges
<1>7. CallOf(k)' = "rendering" /\ ChargeOf(k)' = n
  <2>1. InRendering(k)' /\ Holds(k, n)'
    BY <1>4 DEF InRendering, Holds
  <2> QED
    BY <1>5, <2>1 DEF Charges
<1>8. \A i \in Index \ {k} : Kept(i)
  BY <1>2, <1>4, <1>5, OthersKept
<1>9. /\ budget'.reserved = budget.reserved + n
      /\ budget'.head = budget.head /\ budget'.stopped = budget.stopped
  BY <1>1, <1>5 DEF TypeOK
<1>10. Budget!Reserve(k, n)
  <2>1. /\ [i \in Index |-> CallOf(i)]' = [[i \in Index |-> CallOf(i)] EXCEPT ![k] = "rendering"]
        /\ [i \in Index |-> ChargeOf(i)]' = [[i \in Index |-> ChargeOf(i)] EXCEPT ![k] = n]
    BY <1>7, <1>8, BudgetCall
  <2>2. ~Budget!Refused /\ Budget!Admits(k, n, budget.reserved)
    BY <1>5 DEF Refused, Admits, SatSub, Budget!Refused, Budget!Admits, Budget!SatSub
  <2> QED
    BY <1>3, <1>5, <1>6, <1>9, <2>1, <2>2 DEF Budget!Reserve
<1> QED
  BY <1>10 DEF Budget!Next, Budget!Index, Index

LEMMA FinishCalls ==
  ASSUME SInv, Charges, Charges', NEW t \in Threads, Finish(t)
  PROVE  Budget!Next
<1> USE DEF flags, channels, scan, report
<1>1. TypeOK /\ Rendering(t) /\ OnceThreads
  BY DEF SInv, Located
<1>2. PICK k \in Index : thread[t].index = k /\ k # NumClasses
  BY <1>1, AtWork, StreamingAssumption DEF Finish, Idling, Index
<1>3. PICK n \in Sizes : n = thread[t].size
  BY <1>1 DEF Finish, Rendering
<1>4. PICK b : b = thread[t].bytes
  OBVIOUS
<1>5. /\ Alone(t) /\ thread'[t].index = k /\ thread'[t].state = "sending" /\ thread'[t].bytes = n
  BY <1>1, <1>2, <1>3, FinishAlone
<1>6. /\ started[k] = 1 /\ UNCHANGED <<started, jobs, results, completed, cancel>>
      /\ thread[t].state = "finishing"
      /\ ~Refused /\ Admits(k, n, SatSub(budget.reserved, b))
      /\ budget' = [budget EXCEPT !.reserved = SatSub(@, b) + n]
  BY <1>1, <1>2, <1>3, <1>4 DEF Finish, Rendering, Idling
<1>7. CallOf(k) = "rendering" /\ ChargeOf(k) = b
  <2>1. InRendering(k) /\ Holds(k, b)
    BY <1>2, <1>4, <1>6 DEF InRendering, Holds
  <2> QED
    BY <1>6, <2>1 DEF Charges
<1>8. CallOf(k)' = "finished" /\ ChargeOf(k)' = n
  <2>1. Holds(k, n)' /\ Somewhere(k)'
    BY <1>5 DEF Holds, Somewhere, InThreads
  <2>2. ~InRendering(k)'
    BY <1>1, <1>2, <1>5 DEF InRendering, OnceThreads, Alone
  <2> QED
    BY <1>6, <2>1, <2>2 DEF Charges
<1>9. \A i \in Index \ {k} : Kept(i)
  BY <1>2, <1>5, <1>6, OthersKept
<1>10. /\ budget'.reserved = SatSub(budget.reserved, b) + n
       /\ budget'.head = budget.head /\ budget'.stopped = budget.stopped
  BY <1>1, <1>6 DEF TypeOK
<1>11. Budget!Finish(k, n)
  <2>1. /\ [i \in Index |-> CallOf(i)]' = [[i \in Index |-> CallOf(i)] EXCEPT ![k] = "finished"]
        /\ [i \in Index |-> ChargeOf(i)]' = [[i \in Index |-> ChargeOf(i)] EXCEPT ![k] = n]
    BY <1>8, <1>9, BudgetCall
  <2>2. /\ ~Budget!Refused /\ Budget!SatSub(budget.reserved, b) = SatSub(budget.reserved, b)
        /\ Budget!Admits(k, n, SatSub(budget.reserved, b))
    BY <1>6 DEF Refused, Admits, SatSub, Budget!Refused, Budget!Admits, Budget!SatSub
  <2> QED
    BY <1>6, <1>7, <1>10, <2>1, <2>2 DEF Budget!Finish
<1> QED
  BY <1>11 DEF Budget!Next, Budget!Index, Index

\* A thread that gives its class up, before its result is sent or because nobody receives it.
LEMMA GiveUpCalls ==
  ASSUME SInv, Charges, Charges', NEW t \in Threads, FinishRefused(t) \/ SendFailed(t)
  PROVE  Budget!Next
<1> USE DEF flags, channels, scan, report
<1>1. TypeOK /\ Located /\ Rendering(t)
  BY DEF SInv, Located
<1>2. PICK k \in Index : thread[t].index = k /\ k # NumClasses
  BY <1>1, AtWork, StreamingAssumption DEF FinishRefused, SendFailed, Idling, Index
<1>3. PICK b : b = thread[t].bytes
  OBVIOUS
<1>4. /\ UNCHANGED <<started, jobs, results, completed, cancel>>
      /\ Exit(t) /\ budget' = [budget EXCEPT !.reserved = SatSub(@, b)]
      /\ thread[t].state \in {"finishing", "sending"} /\ started[k] = 1
  BY <1>1, <1>2, <1>3 DEF FinishRefused, SendFailed, Rendering, Idling
<1>5. Alone(t) /\ thread'[t].index = NumClasses
  BY <1>1, <1>4, ExitAlone
<1>6. /\ ChargeOf(k) = b /\ Apart(k) /\ InThreads(k)
      /\ CallOf(k) = IF thread[t].state = "finishing" THEN "rendering" ELSE "finished"
  <2>1. Holds(k, b) /\ InThreads(k) /\ Somewhere(k)
    BY <1>2, <1>3 DEF Holds, InThreads, Somewhere
  <2>2. InRendering(k) <=> thread[t].state = "finishing"
    BY <1>1, <1>2, <1>4 DEF InRendering, Located, OnceThreads
  <2>3. Apart(k)
    BY <1>1 DEF Located, Placed
  <2> QED
    BY <1>4, <2>1, <2>2, <2>3 DEF Charges
<1>7. CallOf(k)' = "gone" /\ ChargeOf(k)' = 0
  <2>1. /\ \A i \in Index : InThreads(i)' <=> InThreads(i) /\ i # k
        /\ ~InJobs(k)' /\ ~InResults(k)' /\ ~InMap(k)'
    BY <1>1, <1>2, <1>4, <1>5, <1>6, ThreadGivesClass DEF Located, Apart, InJobs, InResults, InMap
  <2>2. ~Somewhere(k)'
    BY <2>1 DEF Somewhere
  <2>3. (\A b0 : ~Holds(k, b0)') /\ ~InRendering(k)'
    BY <2>2 DEF Holds, InRendering, Somewhere, InThreads, InResults, InMap
  <2> QED
    BY <1>4, <2>2, <2>3 DEF Charges
<1>8. \A i \in Index \ {k} : Kept(i)
  <2>1. \A i \in Index : i # NumClasses
    BY StreamingAssumption DEF Index
  <2> QED
    BY <1>2, <1>4, <1>5, <2>1, OthersKept
<1>9. /\ budget'.reserved = SatSub(budget.reserved, b)
      /\ budget'.head = budget.head /\ budget'.stopped = budget.stopped
      /\ Budget!SatSub(budget.reserved, b) = SatSub(budget.reserved, b)
  BY <1>1, <1>4 DEF TypeOK, SatSub, Budget!SatSub
<1>10. /\ [i \in Index |-> CallOf(i)]' = [[i \in Index |-> CallOf(i)] EXCEPT ![k] = "gone"]
       /\ [i \in Index |-> ChargeOf(i)]' = [[i \in Index |-> ChargeOf(i)] EXCEPT ![k] = 0]
  BY <1>7, <1>8, BudgetCall
<1>11. CASE FinishRefused(t)
  <2>1. Budget!FinishRefused(k)
    BY <1>4, <1>6, <1>9, <1>10, <1>11 DEF Budget!FinishRefused, FinishRefused, Refused,
       Budget!Refused
  <2> QED
    BY <2>1 DEF Budget!Next, Budget!Index, Index
<1>12. CASE SendFailed(t)
  <2>1. Budget!Release(k)
    BY <1>4, <1>6, <1>9, <1>10, <1>12 DEF Budget!Release, SendFailed
  <2> QED
    BY <2>1 DEF Budget!Next, Budget!Index, Index
<1> QED
  BY <1>11, <1>12

\* The consumed result is released by the coordinator, which alone has it.
LEMMA ConsumeCalls ==
  ASSUME SInv, Charges, Charges', Consume
  PROVE  Budget!Next
<1> USE DEF flags, channels, scan, report
<1>1. TypeOK /\ Located /\ Turn /\ IsFiniteSet(completed)
  BY DEF SInv, Control, Located
<1>2. PICK m \in Arrived : /\ completed' = completed \ {m}
                           /\ budget' = [budget EXCEPT !.reserved = SatSub(@, m.bytes)]
  BY DEF Consume
<1>3. PICK k \in Index : k = index
  BY <1>1, TurnFacts DEF Consume, Before, Over
<1>4. /\ m \in completed /\ m.index = k
      /\ UNCHANGED <<jobs, results, thread, started, cancel>>
  BY <1>2, <1>3 DEF Consume, Arrived
<1>5. /\ OnceMap' /\ InMap(k) /\ \A i : InMap(i)' <=> InMap(i) /\ i # k
  BY <1>1, <1>2, <1>4, MapTaken DEF Located
<1>6. Apart(k) /\ started[k] = 1 /\ ~InThreads(k) /\ ~InJobs(k) /\ ~InResults(k)
  <2>1. Placed(k) /\ Begun(k)
    BY <1>1 DEF Located
  <2> QED
    BY <1>5, <2>1 DEF Placed, Begun, Apart
<1>7. ChargeOf(k) = m.bytes /\ CallOf(k) = "finished"
  <2>1. Holds(k, m.bytes) /\ Somewhere(k) /\ ~InRendering(k)
    BY <1>4, <1>5, <1>6 DEF Holds, Somewhere, InRendering, InThreads
  <2> QED
    BY <1>6, <2>1 DEF Charges
<1>8. ChargeOf(k)' = 0 /\ CallOf(k)' = "gone"
  <2>1. ~Somewhere(k)'
    BY <1>4, <1>5, <1>6 DEF Somewhere, InThreads, InJobs, InResults
  <2>2. (\A b : ~Holds(k, b)') /\ ~InRendering(k)'
    BY <2>1 DEF Holds, InRendering, Somewhere, InThreads, InResults, InMap
  <2> QED
    BY <1>4, <1>6, <2>1, <2>2 DEF Charges
<1>9. ASSUME NEW i \in Index \ {k}
      PROVE  Kept(i)
  <2>1. /\ \A b : Holds(i, b)' <=> Holds(i, b)
        /\ InRendering(i)' <=> InRendering(i)
        /\ Somewhere(i)' <=> Somewhere(i)
    BY <1>2, <1>4, <1>5 DEF Holds, InRendering, Somewhere, InThreads, InJobs, InResults
  <2> QED
    BY <1>4, <2>1, KeptWhere
<1>10. /\ budget'.reserved = SatSub(budget.reserved, m.bytes)
       /\ budget'.head = budget.head /\ budget'.stopped = budget.stopped
       /\ Budget!SatSub(budget.reserved, m.bytes) = SatSub(budget.reserved, m.bytes)
  BY <1>1, <1>2 DEF TypeOK, SatSub, Budget!SatSub
<1>11. /\ [i \in Index |-> CallOf(i)]' = [[i \in Index |-> CallOf(i)] EXCEPT ![k] = "gone"]
       /\ [i \in Index |-> ChargeOf(i)]' = [[i \in Index |-> ChargeOf(i)] EXCEPT ![k] = 0]
  BY <1>8, <1>9, BudgetCall
<1>12. Budget!Release(k)
  BY <1>4, <1>7, <1>10, <1>11 DEF Budget!Release
<1> QED
  BY <1>12 DEF Budget!Next, Budget!Index, Index

LEMMA AllKept ==
  ASSUME Charges, Charges', UNCHANGED <<thread, results, completed, started>>,
         \A i \in Index : (InJobs(i)' <=> InJobs(i)) \/ started[i] = 0
  PROVE  \A i \in Index : Kept(i)
<1> SUFFICES ASSUME NEW i \in Index
             PROVE  Kept(i)
  OBVIOUS
<1>1. /\ \A b : Holds(i, b)' <=> Holds(i, b)
      /\ InRendering(i)' <=> InRendering(i)
      /\ started[i] = 0 \/ (Somewhere(i)' <=> Somewhere(i))
  BY DEF Holds, InRendering, Somewhere, InThreads, InResults, InMap
<1> QED
  BY <1>1, KeptWhere

\* The exceptional thread is spawned for a class nobody has, with nothing charged yet.
LEMMA QuietTake ==
  ASSUME SInv, Charges, Charges', Take
  PROVE  [Budget!Next]_(Budget!vars)
<1> USE DEF flags, channels, scan, report
<1>1. TypeOK /\ Located /\ Exceptional /\ First = index /\ pending # <<>>
  BY TakeControl DEF SInv
<1>2. PICK k \in Index : k = index
  BY TakeControl
<1>3. UNCHANGED <<budget, cancel, jobs, results, completed, started>> /\ at = "admitting"
  BY DEF Take
<1>4. CASE thread' = thread
  <2>1. \A i \in Index : InJobs(i)' <=> InJobs(i)
    BY <1>3 DEF InJobs
  <2>2. \A i \in Index : Kept(i)
    BY <1>3, <1>4, <2>1, AllKept
  <2> QED
    BY <1>3, <2>2, BudgetStutters
<1>5. CASE thread' # thread
  <2>1. PICK s \in Sizes :
          thread' = [thread EXCEPT ![k] =
                       [Idle("reserving") EXCEPT !.index = k, !.size = Min({s, Limit})]]
    BY <1>2, <1>5 DEF Take
  <2>2. k \in Threads /\ thread[k].state \in {"unspawned", "exited"} /\ Head(pending) = "cached"
    BY <1>1, <1>2, <1>3, <1>5 DEF Threads, Exceptional, Over, Take
  <2>3. thread[k].index = NumClasses /\ thread[k].bytes = 0
    BY <1>1, <2>2 DEF Located, Rendering, Idling
  <2>4. Alone(k) /\ thread'[k].index = k /\ thread'[k].bytes = 0
    BY <1>1, <2>1, <2>2, AskingAlone
  <2>5. started[k] = 0
    <3>1. ~Awaited(First)
      <4>1. pending' = Tail(pending) /\ next' = next
        BY DEF Take
      <4> QED
        BY <1>1, <2>2, <4>1, MarkerTaken
    <3>2. ~Due(k) /\ k >= First /\ at \notin Over
      BY <1>1, <1>2, <1>3, <3>1, Numbers DEF Due, Over
    <3> QED
      BY <1>1, <3>2 DEF Located, Begun
  <2>6. ASSUME NEW i \in Index
        PROVE  Kept(i)
    <3>1. CASE i = k
      <4>1. \A b : (Holds(k, b) => Holds(k, b)' \/ b = 0) /\ (Holds(k, b)' => Holds(k, b) \/ b = 0)
        BY <1>3, <2>2, <2>3, <2>4, HoldsNothing
      <4> QED
        BY <1>3, <2>5, <3>1, <4>1, KeptWhere
    <3>2. CASE i # k
      <4>1. thread[k].index # i
        BY <2>3, StreamingAssumption DEF Index
      <4> QED
        BY <1>3, <2>2, <2>4, <3>2, <4>1, OthersKept
    <3> QED
      BY <3>1, <3>2
  <2> QED
    BY <1>3, <2>6, BudgetStutters
<1> QED
  BY <1>4, <1>5

\* A result goes from the channel to the map with its bytes.
LEMMA QuietReceive ==
  ASSUME SInv, Charges, Charges', ReceiveResult
  PROVE  [Budget!Next]_(Budget!vars)
<1> USE DEF flags, channels, scan, report
<1>1. TypeOK /\ Located /\ IsFiniteSet(completed)
  BY DEF SInv
<1>2. /\ UNCHANGED <<budget, cancel, jobs, thread, started>>
      /\ results # <<>> /\ results' = Tail(results) /\ completed' = completed \cup {Head(results)}
  BY DEF ReceiveResult
<1>3. PICK m \in Message : m = Head(results)
  BY <1>1, <1>2, HeadTailProperties DEF TypeOK
<1>4. /\ InResults(m.index) /\ m.index \in Index
      /\ \A i : InResults(i)' <=> InResults(i) /\ i # m.index
  BY <1>1, <1>2, <1>3, ResultTaken DEF Located, Message
<1>5. ~InMap(m.index)
  BY <1>1, <1>4 DEF Located, Placed, Apart
<1>6. /\ 1 \in DOMAIN results /\ m = results[1]
      /\ \A n \in DOMAIN results' : n \in Nat \ {0} /\ n + 1 \in DOMAIN results
           /\ results'[n] = results[n + 1]
      /\ \A n \in DOMAIN results : n \in Nat \ {0} /\ (n = 1 \/ (n - 1 \in DOMAIN results'
           /\ results'[n - 1] = results[n]))
  <2>1. results \in Seq(Message)
    BY <1>1 DEF TypeOK
  <2> QED
    BY <1>2, <1>3, <2>1, TailEntries
<1>7. ASSUME NEW i \in Index
      PROVE  Kept(i)
  <2>1. Somewhere(i)' <=> Somewhere(i)
    <3>1. InMap(i)' <=> InMap(i) \/ i = m.index
      BY <1>2, <1>3 DEF InMap
    <3> QED
      BY <1>2, <1>4, <3>1 DEF Somewhere, InJobs, InThreads
  <2>2. InRendering(i)' <=> InRendering(i)
    BY <1>2 DEF InRendering
  <2>3. ASSUME NEW b
        PROVE  Holds(i, b)' <=> Holds(i, b)
    <3>1. Holds(i, b) => Holds(i, b)'
      <4>1. (\E n \in DOMAIN results : results[n].index = i /\ results[n].bytes = b) =>
              \/ \E n \in DOMAIN results' : results'[n].index = i /\ results'[n].bytes = b
              \/ m.index = i /\ m.bytes = b
        BY <1>6
      <4> QED
        BY <1>2, <1>3, <4>1 DEF Holds
    <3>2. Holds(i, b)' => Holds(i, b)
      <4>1. (\E n \in DOMAIN results' : results'[n].index = i /\ results'[n].bytes = b) =>
              \E n \in DOMAIN results : results[n].index = i /\ results[n].bytes = b
        BY <1>6
      <4>2. m.index = i /\ m.bytes = b =>
              \E n \in DOMAIN results : results[n].index = i /\ results[n].bytes = b
        BY <1>6
      <4> QED
        BY <1>2, <1>3, <4>1, <4>2 DEF Holds
    <3> QED
      BY <3>1, <3>2
  <2> QED
    BY <1>2, <2>1, <2>2, <2>3, KeptWhere
<1> QED
  BY <1>2, <1>7, BudgetStutters

\* The head moves on by one class, when nothing of the class before is charged any more.
LEMMA BeginCalls ==
  ASSUME SInv, Charges, Charges', BeginClass
  PROVE  [Budget!Next]_(Budget!vars)
<1> USE DEF flags, channels, scan, report
<1>1. TypeOK /\ Located /\ Turn /\ Required /\ at = "top"
  BY DEF SInv, Control, BeginClass
<1>2. UNCHANGED <<thread, results, completed, started, jobs, cancel>>
  BY DEF BeginClass
<1>3. \A i \in Index : Kept(i)
  <2>1. \A i \in Index : InJobs(i)' <=> InJobs(i)
    BY <1>2 DEF InJobs
  <2> QED
    BY <1>2, <2>1, AllKept
<1>4. CASE budget' = budget
  BY <1>2, <1>3, <1>4, BudgetStutters
<1>5. CASE budget' # budget
  <2>1. budget' = [budget EXCEPT !.head = index] /\ index # NumClasses
    BY <1>5 DEF BeginClass
  <2>2. /\ budget'.head = index /\ budget'.reserved = budget.reserved
        /\ budget'.stopped = budget.stopped /\ budget.head # index /\ budget.head \in Nat
    <3>1. budget \in BudgetState /\ index \in Nat
      BY <1>1, Numbers
    <3>2. budget.head = index => budget' = budget
      BY <2>1, <3>1 DEF BudgetState
    <3> QED
      BY <1>5, <2>1, <3>1, <3>2, Numbers DEF BudgetState
  <2>3. PICK h : h = budget.head
    OBVIOUS
  <2>4. h + 1 = index /\ h \in Index /\ h + 1 \in Index /\ First = index
    <3>1. h + 1 = index /\ First = index
      BY <1>1, <2>2, <2>3 DEF Required, Turn, Before
    <3>2. h \in Nat /\ index \in Nat /\ index <= NumClasses /\ NumClasses \in Nat
              /\ index # NumClasses
      BY <1>1, <2>1, <2>2, <2>3, Numbers
    <3> QED
      BY <3>1, <3>2 DEF Index
  <2>5. ChargeOf(h) = 0
    <3>1. ~Due(h) /\ at \notin Over
      <4>1. ~Awaited(h)
        BY <1>1, <2>2, <2>3, <2>4, AwaitedLater
      <4> QED
        BY <1>1, <4>1 DEF Due, Over
    <3>2. ~Somewhere(h)
      BY <1>1, <2>4, <3>1 DEF Located, Placed
    <3>3. \A b : ~Holds(h, b)
      BY <3>2, HoldsSomewhere
    <3> QED
      BY <2>4, <3>3 DEF Charges
  <2>6. /\ [i \in Index |-> CallOf(i)]' = [i \in Index |-> CallOf(i)]
        /\ [i \in Index |-> ChargeOf(i)]' = [i \in Index |-> ChargeOf(i)]
    BY <1>3 DEF Kept
  <2>7. Budget!Advance
    BY <1>2, <2>2, <2>3, <2>4, <2>5, <2>6 DEF Budget!Advance, Budget!Index, Index
  <2> QED
    BY <2>7 DEF Budget!Next
<1> QED
  BY <1>4, <1>5

LEMMA BudgetStep ==
  ASSUME SInv, Charges, Charges', [Next]_vars
  PROVE  [Budget!Next]_(Budget!vars)
<1> USE DEF flags, channels, scan, report
<1>1. TypeOK /\ Located
  BY DEF SInv
<1>2. ASSUME NEW t \in Threads, RenderThread(t)
      PROVE  [Budget!Next]_(Budget!vars)
  BY <1>2, QuietThread, ReserveCalls, FinishCalls, GiveUpCalls DEF RenderThread
<1>3. CASE \/ AdmitCancelled \/ Poll \/ PollTimeout \/ WaitCancelled \/ Join \/ Settle
           \/ MatchNothing \/ Match \/ LeaveScan \/ DropChannels \/ Shutdown \/ Admit
                \/ UNCHANGED vars
  <2>1. UNCHANGED <<budget, cancel, thread, results, completed, started>>
    BY <1>3 DEF AdmitCancelled, Poll, PollTimeout, WaitCancelled, Join, Settle, MatchNothing, Match,
                LeaveScan, DropChannels, Shutdown, Admit, vars
  <2>2. ASSUME NEW i \in Index
        PROVE  (InJobs(i)' <=> InJobs(i)) \/ started[i] = 0
    <3>1. CASE Admit
      <4>1. /\ jobs' = jobs \/ jobs' = Append(jobs, next)
            /\ next \in Index /\ at = "admitting" /\ First <= next
        <5>1. /\ jobs' = jobs \/ jobs' = Append(jobs, next)
              /\ next < NumClasses /\ at = "admitting" /\ First <= next
          BY <3>1 DEF Admit, MayAdmit, SInv, Control, Turn
        <5> QED
          BY <1>1, <5>1, Numbers, SMTT(30) DEF Index
      <4>3. started[next] = 0
        <5>1. ~Awaited(next) /\ next >= First
          BY <1>1, <4>1, AwaitedLater, Numbers
        <5>2. ~Due(next) /\ at \notin Over
          BY <4>1, <5>1 DEF Due, Over
        <5> QED
          BY <1>1, <4>1, <5>1, <5>2 DEF Located, Begun
      <4>4. CASE i = next
        BY <4>3, <4>4
      <4>5. CASE i # next
        <5>1. CASE jobs' = jobs
          BY <5>1 DEF InJobs
        <5>2. CASE jobs' = Append(jobs, next)
          <6>0. jobs \in Seq(Index)
            BY <1>1 DEF TypeOK
          <6>1. /\ \A n \in DOMAIN jobs : n \in DOMAIN jobs' /\ jobs'[n] = jobs[n]
                /\ \E k \in DOMAIN jobs' : /\ k \notin DOMAIN jobs /\ jobs'[k] = next
                                           /\ \A n \in DOMAIN jobs' : n \in DOMAIN jobs \/ n = k
            BY <4>1, <5>2, <6>0, AppendEntries
          <6> QED
            BY <4>5, <6>1 DEF InJobs
        <5> QED
          BY <4>1, <5>1, <5>2
      <4> QED
        BY <4>4, <4>5
    <3>2. CASE ~Admit
      <4>1. jobs' = jobs
        BY <1>3, <3>2 DEF AdmitCancelled, Poll, PollTimeout, WaitCancelled, Join, Settle,
                MatchNothing, Match, LeaveScan, DropChannels, Shutdown, vars
      <4> QED
        BY <4>1 DEF InJobs
    <3> QED
      BY <3>1, <3>2
  <2>3. \A i \in Index : Kept(i)
    BY <2>1, <2>2, AllKept
  <2> QED
    BY <2>1, <2>3, BudgetStutters
<1>4. CASE StopBudget \/ Cancel
  <2>1. UNCHANGED <<thread, results, completed, started, jobs>>
    BY <1>4 DEF StopBudget, Cancel
  <2>2. \A i \in Index : InJobs(i)' <=> InJobs(i)
    BY <2>1 DEF InJobs
  <2>3. \A i \in Index : Kept(i)
    BY <2>1, <2>2, AllKept
  <2>4. /\ [i \in Index |-> CallOf(i)]' = [i \in Index |-> CallOf(i)]
        /\ [i \in Index |-> ChargeOf(i)]' = [i \in Index |-> ChargeOf(i)]
    BY <2>3 DEF Kept
  <2>5. CASE StopBudget
    <3>1. /\ budget'.stopped = TRUE /\ budget'.reserved = budget.reserved
          /\ budget'.head = budget.head /\ cancel' = cancel
      BY <1>1, <2>5 DEF StopBudget, TypeOK
    <3>2. Budget!Stop
      BY <2>4, <3>1 DEF Budget!Stop
    <3> QED
      BY <3>2 DEF Budget!Next
  <2>6. CASE Cancel
    <3>1. cancel' = TRUE /\ budget' = budget
      BY <2>6 DEF Cancel
    <3>2. Budget!Cancel
      BY <2>4, <3>1 DEF Budget!Cancel
    <3> QED
      BY <3>2 DEF Budget!Next
  <2> QED
    BY <1>4, <2>5, <2>6
<1> QED
  BY <1>2, <1>3, <1>4, BeginCalls, QuietTake, QuietReceive, ConsumeCalls
     DEF Next, Coordinator, Terminated

\* Every call the search makes to its byte budget is one that the budget's own specification allows.
THEOREM RefinesBudget == Spec => ImplementsBudget
<1>1. Init => Budget!Init
  <2> SUFFICES ASSUME Init
               PROVE  Budget!Init
    OBVIOUS
  <2>1. Charges
    BY Start, ChargesHold
  <2>2. ASSUME NEW i \in Index
        PROVE  CallOf(i) = "unreserved" /\ ChargeOf(i) = 0
    <3>1. started[i] = 0 /\ results = <<>> /\ completed = {}
      BY DEF Init
    <3>2. \A t \in Threads : thread[t].index # i
      BY StreamingAssumption DEF Init, Idle, Index
    <3>3. \A b : ~Holds(i, b)
      BY <3>1, <3>2 DEF Holds
    <3> QED
      BY <2>1, <3>1, <3>3 DEF Charges
  <2> QED
    BY <2>2 DEF Init, Budget!Init, Budget!Index, Index
<1>2. SInv /\ SInv' /\ [Next]_vars => [Budget!Next]_(Budget!vars)
  <2>1. SInv' => Charges'
    BY ChargesHold, PTL
  <2> QED
    BY <2>1, ChargesHold, BudgetStep
<1> QED
  BY <1>1, <1>2, Invariance, PTL DEF Spec, ImplementsBudget, Budget!Spec
=============================================================================
