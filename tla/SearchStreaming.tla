--------------------------- MODULE SearchStreaming ---------------------------
(***************************************************************************)
(* A streaming source search (search/streaming.rs, run_with_workers).      *)
(*                                                                         *)
(* One coordinator admits classes into a window, in order.  A class whose  *)
(* stored filter rejects the query needs nothing more, a class with a      *)
(* cached document is loaded when its turn comes, and every other class is *)
(* sent to the workers.  The workers render in any order under a shared    *)
(* byte budget and send results back; the coordinator consumes them in the *)
(* order of the classes.  A cached document that turns out to be damaged   *)
(* is rendered by one exceptional thread, because the ordinary workers may *)
(* all be waiting for the budget with later classes.                       *)
(*                                                                         *)
(* Classes are identified by their position.  Threads are the workers and, *)
(* for each class, the exceptional thread that may render it.              *)
(***************************************************************************)
EXTENDS Sequences, FiniteSetsExt, ChargeSum

CONSTANTS
  NumClasses,   \* how many classes the search covers
  Workers,      \* the ordinary render workers
  Window,       \* admitted classes, and the capacity of both channels
  Limit,        \* the byte target of the budget
  Sizes,        \* the sizes an estimate or a rendered result can have
  MaxHits,      \* MAX_HITS
  MaxClassHits  \* the most matches one class can have

Index == 0 .. NumClasses - 1
Threads == Workers \cup Index

ASSUME StreamingAssumption ==
  /\ NumClasses \in Nat
  /\ IsFiniteSet(Workers) /\ Workers # {} /\ Workers \cap Index = {}
  /\ Window \in Nat \ {0}
  /\ Limit \in Nat
  /\ Sizes \subseteq Nat
  /\ MaxHits \in Nat \ {0}
  /\ MaxClassHits \in Nat

VARIABLES
  cancel,     \* the search's cancellation flag, set by the user at any time
  cancelledAt,\* how many classes were scanned when it was set (history)
  stop,       \* set by the coordinator when it leaves the scan
  budget,     \* ResultBudget: reserved bytes, required head, stopped
  jobs,       \* channel of admitted classes to render
  jobsOpen,   \* whether its sender still exists
  results,    \* channel of rendered results
  rxOpen,     \* whether its receiver still exists
  thread,     \* what each render thread is doing
  at,         \* where the coordinator is
  index,      \* the class whose turn it is
  next,       \* the next class to admit
  pending,    \* admitted classes that are not consumed: how each was prepared
  preparedAs, \* how the class whose turn it is was prepared
  completed,  \* results received ahead of their turn
  taken,      \* the result consumed for the class whose turn it is
  started,    \* how often a rendering of each class was started
  summary,    \* counters and flags reported at the end
  outcomes    \* what was reported for each class consumed so far

flags == <<cancel, cancelledAt>>
channels == <<jobs, jobsOpen, results, rxOpen>>
scan == <<index, next, pending, preparedAs, completed, taken>>
report == <<summary, outcomes>>
vars == <<flags, stop, budget, channels, thread, at, scan, started, report>>

Message == [index : Index, bytes : Nat, ok : BOOLEAN]
NoMessage == [index |-> NumClasses, bytes |-> 0, ok |-> FALSE]

ThreadStates ==
  {"unspawned", "receiving", "reserving", "rendering", "finishing", "sending",
   "returning", "exited"}

Prepared == {"rejected", "cached", "rendering"}

Places == {"top", "admitting", "waiting", "polling", "joining", "settling",
           "matching", "leaving", "closing", "shutdown", "done"}

TypeOK ==
  /\ cancel \in BOOLEAN /\ stop \in BOOLEAN
  /\ cancelledAt \in 0 .. NumClasses
  /\ budget \in [reserved : Nat, head : 0 .. NumClasses, stopped : BOOLEAN]
  /\ jobs \in Seq(Index) /\ Len(jobs) <= Window
  /\ results \in Seq(Message) /\ Len(results) <= Window
  /\ jobsOpen \in BOOLEAN /\ rxOpen \in BOOLEAN
  /\ thread \in [Threads -> [state : ThreadStates, index : 0 .. NumClasses,
                             bytes : Nat, size : Nat, ok : BOOLEAN]]
  /\ at \in Places
  /\ index \in 0 .. NumClasses
  /\ next \in 0 .. NumClasses
  /\ pending \in Seq(Prepared) /\ Len(pending) <= Window
  /\ preparedAs \in Prepared
  /\ completed \subseteq Message
  /\ taken \in Message \cup {NoMessage}
  /\ started \in [Index -> 0 .. 1]
  /\ summary \in [scanned : 0 .. NumClasses, rejections : 0 .. NumClasses,
                  skipped : 0 .. 2 * NumClasses, hits : 0 .. MaxHits,
                  limited : BOOLEAN, cancelled : BOOLEAN]
  /\ outcomes \in Seq([class : Index, kind : {"rejected", "skipped", "scanned"},
                       hits : 0 .. MaxHits])

Idle(state) == [state |-> state, index |-> NumClasses, bytes |-> 0, size |-> 0, ok |-> FALSE]

Init ==
  /\ cancel = FALSE /\ stop = FALSE
  /\ cancelledAt = 0
  /\ budget = [reserved |-> 0, head |-> 0, stopped |-> FALSE]
  /\ jobs = <<>> /\ jobsOpen = TRUE
  /\ results = <<>> /\ rxOpen = TRUE
  /\ thread = [t \in Threads |-> Idle(IF t \in Workers THEN "receiving" ELSE "unspawned")]
  /\ at = "top"
  /\ index = 0 /\ next = 0
  /\ pending = <<>> /\ preparedAs = "rejected"
  /\ completed = {} /\ taken = NoMessage
  /\ started = [i \in Index |-> 0]
  /\ summary = [scanned |-> 0, rejections |-> 0, skipped |-> 0, hits |-> 0,
                limited |-> FALSE, cancelled |-> FALSE]
  /\ outcomes = <<>>

-----------------------------------------------------------------------------
(* Render threads *)

Unwanted == stop \/ cancel
Refused == budget.stopped \/ cancel

\* Fault: the required head has to fit as well.
AdmitsWithoutHeadMutant(i, bytes, others) == bytes <= SatSub(Limit, others)

\* The admission test of ResultBudget::reserve and ::finish.
Admits(i, bytes, others) == i = budget.head \/ bytes <= SatSub(Limit, others)

Exit(t) == thread' = [thread EXCEPT ![t] = Idle("exited")]

\* jobs_rx.lock().recv(): a buffered class first, an error once it is empty
\* and the sender is gone.  A class received after the end is dropped.
ReceiveJob(w) ==
  /\ thread[w].state = "receiving"
  /\ jobs # <<>>
  /\ jobs' = Tail(jobs)
  /\ IF Unwanted
       THEN Exit(w)
       ELSE \E estimate \in { Min({s, Limit}) : s \in Sizes } :
              thread' = [thread EXCEPT ![w] =
                           [Idle("reserving") EXCEPT !.index = Head(jobs), !.size = estimate]]
  /\ UNCHANGED <<flags, stop, budget, jobsOpen, results, rxOpen, at, scan, started, report>>

ReceiveDisconnected(w) ==
  /\ thread[w].state = "receiving"
  /\ jobs = <<>> /\ ~jobsOpen
  /\ Exit(w)
  /\ UNCHANGED <<flags, stop, budget, channels, at, scan, started, report>>

\* budget.reserve, and the count of started renderings.
Reserve(t) ==
  /\ thread[t].state = "reserving"
  /\ ~Refused
  /\ Admits(thread[t].index, thread[t].size, budget.reserved)
  /\ budget' = [budget EXCEPT !.reserved = @ + thread[t].size]
  /\ thread' = [thread EXCEPT ![t].state = "rendering", ![t].bytes = thread[t].size]
  /\ started' = [started EXCEPT ![thread[t].index] = @ + 1]
  /\ UNCHANGED <<flags, stop, channels, at, scan, report>>

ReserveRefused(t) ==
  /\ thread[t].state = "reserving"
  /\ Refused
  /\ Exit(t)
  /\ UNCHANGED <<flags, stop, budget, channels, at, scan, started, report>>

\* render_job: the source, an error or a caught panic; an unwanted rendering
\* is an error.
Render(t) ==
  /\ thread[t].state = "rendering"
  /\ \E size \in Sizes, ok \in BOOLEAN :
       /\ Unwanted => ~ok
       /\ thread' = [thread EXCEPT ![t].state = "finishing", ![t].size = size, ![t].ok = ok]
  /\ UNCHANGED <<flags, stop, budget, channels, at, scan, started, report>>

\* Fault: the estimate is not taken back.
FinishKeepsEstimateMutant(t) ==
  /\ thread[t].state = "finishing"
  /\ ~Refused
  /\ Admits(thread[t].index, thread[t].size, SatSub(budget.reserved, thread[t].bytes))
  /\ budget' = [budget EXCEPT !.reserved = @ + thread[t].size]
  /\ thread' = [thread EXCEPT ![t].state = "sending", ![t].bytes = thread[t].size]
  /\ UNCHANGED <<flags, stop, channels, at, scan, started, report>>

\* budget.finish: the estimate is replaced by the size of the result.
Finish(t) ==
  /\ thread[t].state = "finishing"
  /\ ~Refused
  /\ LET others == SatSub(budget.reserved, thread[t].bytes)
     IN /\ Admits(thread[t].index, thread[t].size, others)
        /\ budget' = [budget EXCEPT !.reserved = others + thread[t].size]
  /\ thread' = [thread EXCEPT ![t].state = "sending", ![t].bytes = thread[t].size]
  /\ UNCHANGED <<flags, stop, channels, at, scan, started, report>>

FinishRefused(t) ==
  /\ thread[t].state = "finishing"
  /\ Refused
  /\ budget' = [budget EXCEPT !.reserved = SatSub(@, thread[t].bytes)]
  /\ Exit(t)
  /\ UNCHANGED <<flags, stop, channels, at, scan, started, report>>

\* results_tx.send: waits while the channel is full.  A worker goes on to the
\* next class, an exceptional thread returns.
Send(t) ==
  /\ thread[t].state = "sending"
  /\ rxOpen
  /\ Len(results) < Window
  /\ results' = Append(results, [index |-> thread[t].index, bytes |-> thread[t].bytes,
                                 ok |-> thread[t].ok])
  /\ thread' = [thread EXCEPT ![t] = Idle(IF t \in Workers THEN "receiving" ELSE "returning")]
  /\ UNCHANGED <<flags, stop, budget, jobs, jobsOpen, rxOpen, at, scan, started, report>>

\* The exceptional thread ends some time after its result was sent.
Return(t) ==
  /\ thread[t].state = "returning"
  /\ Exit(t)
  /\ UNCHANGED <<flags, stop, budget, channels, at, scan, started, report>>

\* The receiver is gone: the bytes are given back and the thread ends.
SendFailed(t) ==
  /\ thread[t].state = "sending"
  /\ ~rxOpen
  /\ budget' = [budget EXCEPT !.reserved = SatSub(@, thread[t].bytes)]
  /\ Exit(t)
  /\ UNCHANGED <<flags, stop, channels, at, scan, started, report>>

RenderThread(t) ==
  \/ t \in Workers /\ (ReceiveJob(t) \/ ReceiveDisconnected(t))
  \/ Reserve(t) \/ ReserveRefused(t)
  \/ Render(t)
  \/ Finish(t) \/ FinishRefused(t)
  \/ Send(t) \/ SendFailed(t)
  \/ Return(t)

-----------------------------------------------------------------------------
(* The coordinator *)

Leave(reason) ==
  /\ at' = "leaving"
  /\ summary' = [summary EXCEPT ![reason] = TRUE]

\* The class whose source is in hand: the one a consumed result was rendered
\* from, or the one whose turn it is when nothing had to be rendered.
Subject == IF taken = NoMessage THEN index ELSE taken.index

\* A class is settled: report it, turn to the next one.
Settled(class, kind, hits) ==
  outcomes' = Append(outcomes, [class |-> class, kind |-> kind, hits |-> hits])

NextClass ==
  /\ index' = index + 1
  /\ at' = "top"

\* Fault: cancel is only looked at during admission.
BeginClassIgnoringCancelMutant ==
  /\ at = "top"
  /\ IF index = NumClasses
       THEN at' = "leaving" /\ UNCHANGED budget
       ELSE budget' = [budget EXCEPT !.head = index] /\ at' = "admitting"
  /\ UNCHANGED <<flags, stop, channels, thread, scan, started, report>>

\* The head of the scan loop: name the required class, then look at cancel.
BeginClass ==
  /\ at = "top"
  /\ IF index = NumClasses
       THEN /\ at' = "leaving"
            /\ UNCHANGED <<budget, summary>>
       ELSE /\ budget' = [budget EXCEPT !.head = index]
            /\ IF cancel
                 THEN Leave("cancelled")
                 ELSE /\ at' = "admitting"
                      /\ UNCHANGED summary
  /\ UNCHANGED <<flags, stop, channels, thread, scan, started, outcomes>>

MayAdmit == next < NumClasses /\ Len(pending) < Window

\* Admission classifies one class.  Only a class to render goes to the workers.
Admit ==
  /\ at = "admitting"
  /\ MayAdmit
  /\ ~cancel
  /\ \E prepared \in Prepared :
       /\ pending' = Append(pending, prepared)
       /\ IF prepared = "rendering"
            THEN Len(jobs) < Window /\ jobs' = Append(jobs, next)
            ELSE UNCHANGED jobs
  /\ next' = next + 1
  /\ UNCHANGED <<flags, stop, budget, jobsOpen, results, rxOpen, thread, at,
                 index, preparedAs, completed, taken, started, report>>

AdmitCancelled ==
  /\ at = "admitting"
  /\ MayAdmit
  /\ cancel
  /\ Leave("cancelled")
  /\ UNCHANGED <<flags, stop, budget, channels, thread, scan, started, outcomes>>

\* The window is full or everything is admitted: count the class and take the
\* oldest marker.  A cached document is loaded here, and if that fails its
\* exceptional thread is spawned.
Take ==
  /\ at = "admitting"
  /\ ~MayAdmit
  /\ pending' = Tail(pending)
  /\ preparedAs' = Head(pending)
  /\ taken' = NoMessage
  /\ \/ /\ Head(pending) = "rejected"
        /\ summary' = [summary EXCEPT !.scanned = @ + 1, !.rejections = @ + 1]
        /\ Settled(index, "rejected", 0)
        /\ NextClass
        /\ UNCHANGED thread
     \/ /\ Head(pending) = "rendering"
        /\ at' = "waiting"
        /\ summary' = [summary EXCEPT !.scanned = @ + 1]
        /\ UNCHANGED <<thread, index, outcomes>>
     \/ /\ Head(pending) = "cached"
        /\ summary' = [summary EXCEPT !.scanned = @ + 1]
        /\ \/ at' = "matching" /\ UNCHANGED thread
           \/ /\ at' = "waiting"
              /\ \E estimate \in { Min({s, Limit}) : s \in Sizes } :
                   thread' = [thread EXCEPT ![index] =
                                [Idle("reserving") EXCEPT !.index = index, !.size = estimate]]
        /\ UNCHANGED <<index, outcomes>>
  /\ UNCHANGED <<flags, stop, budget, channels, next, completed, started>>

\* Fault: any received result is taken for the required one.
ArrivedAnyMutant == completed

Arrived == { m \in completed : m.index = index }

\* The wait for the required result, in polls of 20 ms.
Poll ==
  /\ at = "waiting"
  /\ Arrived = {} /\ ~cancel
  /\ at' = "polling"
  /\ UNCHANGED <<flags, stop, budget, channels, thread, scan, started, report>>

\* Fault: the map keeps only the last result.
ReceiveResultOverwritesMutant ==
  /\ at = "polling"
  /\ results # <<>>
  /\ results' = Tail(results)
  /\ completed' = {Head(results)}
  /\ at' = "waiting"
  /\ UNCHANGED <<flags, stop, budget, jobs, jobsOpen, rxOpen, thread, index, next,
                 pending, preparedAs, taken, started, report>>

ReceiveResult ==
  /\ at = "polling"
  /\ results # <<>>
  /\ results' = Tail(results)
  /\ completed' = completed \cup {Head(results)}
  /\ at' = "waiting"
  /\ UNCHANGED <<flags, stop, budget, jobs, jobsOpen, rxOpen, thread, index, next,
                 pending, preparedAs, taken, started, report>>

PollTimeout ==
  /\ at = "polling"
  /\ results = <<>>
  /\ at' = "waiting"
  /\ UNCHANGED <<flags, stop, budget, channels, thread, scan, started, report>>

WaitCancelled ==
  /\ at = "waiting"
  /\ cancel
  /\ Leave("cancelled")
  /\ UNCHANGED <<flags, stop, budget, channels, thread, scan, started, outcomes>>

\* The required result is removed from the map and its bytes are released.
Consume ==
  /\ at = "waiting"
  /\ ~cancel
  /\ \E m \in Arrived :
       /\ completed' = completed \ {m}
       /\ taken' = m
       /\ budget' = [budget EXCEPT !.reserved = SatSub(@, m.bytes)]
  /\ at' = IF preparedAs = "cached" THEN "joining" ELSE "settling"
  /\ UNCHANGED <<flags, stop, channels, thread, index, next, pending, preparedAs,
                 started, report>>

\* Fault: the exceptional thread is not waited for.
JoinWithoutWaitingMutant ==
  /\ at = "joining"
  /\ at' = "settling"
  /\ UNCHANGED <<flags, stop, budget, channels, thread, scan, started, report>>

\* The exceptional thread is joined before another one can be spawned.
Join ==
  /\ at = "joining"
  /\ thread[index].state = "exited"
  /\ at' = "settling"
  /\ UNCHANGED <<flags, stop, budget, channels, thread, scan, started, report>>

\* The rendered value goes on to matching, an error counts as skipped.
Settle ==
  /\ at = "settling"
  /\ IF cancel
       THEN Leave("cancelled") /\ UNCHANGED <<index, outcomes>>
       ELSE IF taken.ok
         THEN at' = "matching" /\ UNCHANGED <<index, report>>
         ELSE /\ summary' = [summary EXCEPT !.skipped = @ + 1]
              /\ Settled(Subject, "skipped", 0)
              /\ NextClass
  /\ UNCHANGED <<flags, stop, budget, channels, thread, next, pending, preparedAs,
                 completed, taken, started>>

\* A cached value can record that the class has no source.
MatchNothing ==
  /\ at = "matching"
  /\ preparedAs = "cached" /\ taken = NoMessage
  /\ summary' = [summary EXCEPT !.skipped = @ + 1]
  /\ Settled(Subject, "skipped", 0)
  /\ NextClass
  /\ UNCHANGED <<flags, stop, budget, channels, thread, next, pending, preparedAs,
                 completed, taken, started>>

\* The document is matched and its hits are emitted, unless the documents
\* retained for the hits would exceed their limit.  A cached document can
\* carry a note that counts as skipped as well.
Match ==
  /\ at = "matching"
  /\ \E note \in (IF taken = NoMessage THEN {0, 1} ELSE {0}),
       hits \in 0 .. Min({MaxClassHits, MaxHits - summary.hits}) :
       LET counted == [summary EXCEPT !.skipped = @ + note]
       IN \/ /\ hits = 0 \/ summary.hits + hits < MaxHits
             /\ summary' = [counted EXCEPT !.hits = @ + hits]
             /\ Settled(Subject, "scanned", hits)
             /\ NextClass
          \/ /\ hits > 0 /\ summary.hits + hits >= MaxHits
             /\ summary' = [counted EXCEPT !.hits = @ + hits, !.limited = TRUE]
             /\ Settled(Subject, "scanned", hits)
             /\ at' = "leaving"
             /\ UNCHANGED index
          \/ /\ hits > 0
             /\ summary' = [counted EXCEPT !.limited = TRUE]
             /\ at' = "leaving"
             /\ UNCHANGED <<index, outcomes>>
  /\ UNCHANGED <<flags, stop, budget, channels, thread, next, pending, preparedAs,
                 completed, taken, started>>

\* After the scan loop: the final summary, then the stop flag.
LeaveScan ==
  /\ at = "leaving"
  /\ summary' = [summary EXCEPT !.cancelled = @ \/ cancel]
  /\ stop' = TRUE
  /\ at' = "closing"
  /\ UNCHANGED <<flags, budget, channels, thread, scan, started, outcomes>>

\* budget.stop(), then every channel end the coordinator holds is dropped.
StopBudget ==
  /\ at = "closing"
  /\ ~budget.stopped
  /\ budget' = [budget EXCEPT !.stopped = TRUE]
  /\ UNCHANGED <<flags, stop, channels, thread, at, scan, started, report>>

DropChannels ==
  /\ at = "closing"
  /\ budget.stopped
  /\ jobsOpen' = FALSE
  /\ rxOpen' = FALSE
  /\ at' = "shutdown"
  /\ UNCHANGED <<flags, stop, budget, jobs, results, thread, scan, started, report>>

\* Every spawned thread is joined.
Shutdown ==
  /\ at = "shutdown"
  /\ \A t \in Threads : thread[t].state \in {"unspawned", "exited"}
  /\ at' = "done"
  /\ UNCHANGED <<flags, stop, budget, channels, thread, scan, started, report>>

Coordinator ==
  \/ BeginClass
  \/ Admit \/ AdmitCancelled
  \/ Take
  \/ Poll \/ ReceiveResult \/ PollTimeout \/ WaitCancelled
  \/ Consume \/ Join \/ Settle
  \/ MatchNothing \/ Match
  \/ LeaveScan \/ StopBudget \/ DropChannels \/ Shutdown

\* The user cancels the search.
Cancel ==
  /\ ~cancel
  /\ at # "done"
  /\ cancel' = TRUE
  /\ cancelledAt' = summary.scanned
  /\ UNCHANGED <<stop, budget, channels, thread, at, scan, started, report>>

Terminated == at = "done" /\ UNCHANGED vars

Next ==
  \/ \E t \in Threads : RenderThread(t)
  \/ Coordinator
  \/ Cancel
  \/ Terminated

Spec == Init /\ [][Next]_vars

\* Every thread is scheduled and every rendering ends; nobody has to cancel.
FairSpec ==
  /\ Spec
  /\ WF_vars(Coordinator)
  /\ \A t \in Threads : WF_vars(RenderThread(t))

-----------------------------------------------------------------------------
(* Properties *)

\* Every class admitted for rendering is in exactly one place until it is
\* consumed: no result is lost between the channels, the threads and the map,
\* and none is rendered twice, while nobody has told the threads to stop.
PlacesOf(i) ==
  Cardinality({ n \in DOMAIN jobs : jobs[n] = i })
    + Cardinality({ t \in Threads : thread[t].index = i })
    + Cardinality({ n \in DOMAIN results : results[n].index = i })
    + Cardinality({ m \in completed : m.index = i })

NoClassLost ==
  ~Unwanted =>
    /\ \A n \in DOMAIN pending :
         PlacesOf(next - Len(pending) - 1 + n) = IF pending[n] = "rendering" THEN 1 ELSE 0
    /\ at \in {"waiting", "polling"} => PlacesOf(index) = 1

\* At most one exceptional thread exists at a time, as the comment in the
\* code promises, however many cached documents are damaged in a row.
OneExceptionalThread ==
  Cardinality({ i \in Index : thread[i].state \notin {"unspawned", "exited"} }) <= 1

\* Once the user has cancelled, at most the class whose turn it already was
\* is still counted as scanned and reported.
CancelStopsScan ==
  cancel => summary.scanned <= cancelledAt + 1 /\ Len(outcomes) <= cancelledAt + 1

\* The search ends: no thread waits forever for the budget, a full channel or
\* a result that never comes.
Termination == <>(at = "done")

-----------------------------------------------------------------------------
(* Refinements *)

\* The bytes outstanding for a class, wherever it is.
ChargeOf(i) ==
  Total([t \in Threads |-> IF thread[t].index = i THEN thread[t].bytes ELSE 0])
    + Total([n \in DOMAIN results |-> IF results[n].index = i THEN results[n].bytes ELSE 0])
    + Total([m \in completed |-> IF m.index = i THEN m.bytes ELSE 0])

CallOf(i) ==
  IF started[i] = 0 THEN "unreserved"
  ELSE IF \E t \in Threads : thread[t].index = i /\ thread[t].state \in {"rendering", "finishing"}
    THEN "rendering"
  ELSE IF PlacesOf(i) > 0 THEN "finished"
  ELSE "gone"

Budget == INSTANCE ResultBudget WITH
  Sizes <- Sizes \cup {Limit},
  reserved <- budget.reserved,
  head <- budget.head,
  stopped <- budget.stopped,
  call <- [i \in Index |-> CallOf(i)],
  charge <- [i \in Index |-> ChargeOf(i)]

\* Every step of the search makes at most one call to the budget, and every
\* call is one the budget's own specification allows: a charge is released
\* once, by whoever holds it, and the head moves on only when it is settled.
ImplementsBudget == Budget!Spec

Status ==
  IF at \notin {"closing", "shutdown", "done"} THEN "scanning"
  ELSE IF summary.cancelled THEN "cancelled"
  ELSE IF summary.limited THEN "limited"
  ELSE "complete"

Sequential == INSTANCE SequentialSearch WITH hits <- summary.hits, status <- Status

\* The parallel search reports exactly what a sequential one could: classes in
\* order, each once, complete only when all of them were settled.
ImplementsSequential == Sequential!Spec
=============================================================================
