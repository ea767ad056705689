---------------------------- MODULE LiteralIndex ----------------------------
(***************************************************************************)
(* The literal index of a served project (Controller in mcp_literals.rs,   *)
(* with the checks of the APK around a query in mcp.rs).                   *)
(*                                                                         *)
(* The first query starts a build in the background and waits for it with  *)
(* every query that follows; when the last waiter leaves, the build is     *)
(* told to stop.  An index too large for memory switches the project to    *)
(* complete streaming scans, another failure is retried by the next query, *)
(* and a changed APK invalidates the index for good.                       *)
(*                                                                         *)
(* One mutex protects the state, so what runs under it is one action.  The *)
(* cancellation flags, the stop flag and the file are read outside it.     *)
(***************************************************************************)
EXTENDS Naturals, FiniteSets

CONSTANTS
  Queries,     \* the queries of a run; a client's retry is another query
  MaxAttempts  \* bound on the attempt counter

ASSUME LiteralAssumption ==
  /\ IsFiniteSet(Queries)
  /\ MaxAttempts \in Nat

Attempts == 1 .. MaxAttempts
None == 0

VARIABLES
  phase, attempt, waiters, error,  \* BuildState
  index,      \* BuildState::index: the attempt that built it, or None
  job,        \* the attempt whose cancellation flag BuildState::cancel is
  flag,       \* the cancellation flag of each attempt (0: the initial one)
  elapsed,    \* 120 seconds have passed since the last build was started
  builder,    \* the background thread of each attempt
  query,      \* each query: where it is, the attempt it waits for, its outcome
  withdrawn,  \* the queries cancelled by their client
  stop,       \* the server is stopping
  apk,        \* whether the file on disk is the one that was loaded
  asked       \* history: cancel() was called during the last build

state == <<phase, attempt, waiters, error, index, job, flag, elapsed>>
outside == <<withdrawn, stop, apk>>
literalVars == <<state, builder, query, outside, asked>>

Phases == {"idle", "indexing", "ready", "failed", "cancelled", "streaming", "invalidated"}

Errors == {"", "INDEX_CANCELLED", "INDEX_TIMEOUT", "LITERAL_INDEX_LIMIT",
           "INDEX_BUILD_FAILED", "PROJECT_CHANGED"}

Outcomes == Errors \cup {"pending", "answered", "CANCELLED", "INDEX_RETRY"}

Places == {"away", "looping", "locking", "serving", "dropping",
           "rechecking", "invalidating", "done"}

LiteralTypeOK ==
  /\ phase \in Phases
  /\ attempt \in 0 .. MaxAttempts
  /\ waiters \in Nat
  /\ error \in Errors
  /\ index \in 0 .. MaxAttempts
  /\ job \in 0 .. MaxAttempts
  /\ flag \in [0 .. MaxAttempts -> BOOLEAN]
  /\ elapsed \in BOOLEAN
  /\ builder \in [Attempts -> {"none", "building", "built", "limit", "error", "ended"}]
  /\ query \in [Queries -> [at : Places, waiter : 0 .. MaxAttempts, outcome : Outcomes]]
  /\ withdrawn \subseteq Queries
  /\ stop \in BOOLEAN
  /\ apk \in {"loaded", "changed"}
  /\ asked \in BOOLEAN

LiteralInit ==
  /\ phase = "idle" /\ attempt = 0 /\ waiters = 0 /\ error = ""
  /\ index = None /\ job = 0
  /\ flag = [a \in 0 .. MaxAttempts |-> FALSE]
  /\ elapsed = FALSE
  /\ builder = [a \in Attempts |-> "none"]
  /\ query = [q \in Queries |-> [at |-> "away", waiter |-> None, outcome |-> "pending"]]
  /\ withdrawn = {}
  /\ stop = FALSE
  /\ apk = "loaded"
  /\ asked = FALSE

-----------------------------------------------------------------------------
(* A query *)

Cancelled(q) == q \in withdrawn \/ stop

\* The query goes on, returns (its request is forgotten), or leaves the loop
\* with an outcome: its waiter is dropped after the lock is released.
Goes(q, place) == query' = [query EXCEPT ![q].at = place]

Returns(q) ==
  /\ query' = [query EXCEPT ![q] = [@ EXCEPT !.at = "done", !.outcome = "pending"]]
  /\ withdrawn' = withdrawn \ {q}

Leaves(q, outcome) ==
  query' = [query EXCEPT ![q].at = IF query[q].waiter = None THEN "rechecking" ELSE "dropping",
                         ![q].outcome = outcome]

\* check_project_file before the search and after it; a difference makes the
\* query invalidate the index and fail.
Begin(q) ==
  /\ query[q].at = "away"
  /\ Goes(q, IF apk = "changed" THEN "invalidating" ELSE "looping")
  /\ UNCHANGED <<state, builder, outside, asked>>

Recheck(q) ==
  /\ query[q].at = "rechecking"
  /\ IF apk = "changed"
       THEN Goes(q, "invalidating") /\ UNCHANGED withdrawn
       ELSE Returns(q)
  /\ UNCHANGED <<state, builder, stop, apk, asked>>

\* Fault: the running build is not told to stop.
InvalidateKeepsBuildMutant(q) ==
  /\ query[q].at = "invalidating"
  /\ attempt < MaxAttempts
  /\ attempt' = attempt + 1
  /\ phase' = "invalidated"
  /\ waiters' = 0
  /\ index' = None
  /\ error' = "PROJECT_CHANGED"
  /\ Returns(q)
  /\ UNCHANGED <<job, flag, elapsed, builder, stop, apk, asked>>

\* Fault: the index survives.
InvalidateKeepsIndexMutant(q) ==
  /\ query[q].at = "invalidating"
  /\ attempt < MaxAttempts
  /\ flag' = [flag EXCEPT ![job] = TRUE]
  /\ attempt' = attempt + 1
  /\ phase' = "invalidated"
  /\ waiters' = 0
  /\ error' = "PROJECT_CHANGED"
  /\ Returns(q)
  /\ UNCHANGED <<index, job, elapsed, builder, stop, apk, asked>>

\* Controller::invalidate.
Invalidate(q) ==
  /\ query[q].at = "invalidating"
  /\ attempt < MaxAttempts
  /\ flag' = [flag EXCEPT ![job] = TRUE]
  /\ attempt' = attempt + 1
  /\ phase' = "invalidated"
  /\ waiters' = 0
  /\ index' = None
  /\ error' = "PROJECT_CHANGED"
  /\ Returns(q)
  /\ UNCHANGED <<job, elapsed, builder, stop, apk, asked>>

\* The head of the loop, before the lock is taken.
Loop(q) ==
  /\ query[q].at = "looping"
  /\ IF Cancelled(q) THEN Leaves(q, "CANCELLED") ELSE Goes(q, "locking")
  /\ UNCHANGED <<state, builder, outside, asked>>

\* The checks made under the lock, in their order.  Each of the following
\* actions is one way out of them.
WaitsForAnother(q) == query[q].waiter # None /\ query[q].waiter # attempt

\* Fault: an index over the budget fails like any other build.
OverflowedNeverMutant == FALSE

Overflowed == phase = "failed" /\ error = "LITERAL_INDEX_LIMIT"

\* A project that streams: the complete scan answers, outside the lock.
LookStreaming(q) ==
  /\ query[q].at = "locking"
  /\ phase = "streaming"
  /\ Goes(q, "serving")
  /\ UNCHANGED <<state, builder, outside, asked>>

\* The index did not fit: stream from now on, and go round again.
LookOverflowed(q) ==
  /\ query[q].at = "locking"
  /\ Overflowed
  /\ phase' = "streaming"
  /\ Goes(q, "looping")
  /\ UNCHANGED <<attempt, waiters, error, index, job, flag, elapsed, builder, outside, asked>>

LookInvalidated(q) ==
  /\ query[q].at = "locking"
  /\ phase = "invalidated"
  /\ Leaves(q, error)
  /\ UNCHANGED <<state, builder, outside, asked>>

LookRetry(q) ==
  /\ query[q].at = "locking"
  /\ phase \notin {"streaming", "invalidated"} /\ ~Overflowed
  /\ WaitsForAnother(q)
  /\ Leaves(q, "INDEX_RETRY")
  /\ UNCHANGED <<state, builder, outside, asked>>

\* The index answers, outside the lock.
LookReady(q) ==
  /\ query[q].at = "locking"
  /\ phase \notin {"streaming", "invalidated"} /\ ~Overflowed
  /\ ~WaitsForAnother(q)
  /\ index # None
  /\ Goes(q, "serving")
  /\ UNCHANGED <<state, builder, outside, asked>>

\* Fault: the deadline is not looked at.
ExpiredNeverMutant == FALSE

Expired == elapsed

Stopping == flag[job] \/ Expired

\* Fault: a query is counted each time it looks.
WaitersWithAgainMutant(q) == waiters + 1

WaitersWith(q) == IF query[q].waiter = None THEN waiters + 1 ELSE waiters

\* A build is running: give up after its deadline or when it is stopping,
\* else wait for it, counted once.
LookIndexing(q) ==
  /\ query[q].at = "locking"
  /\ ~WaitsForAnother(q)
  /\ phase = "indexing"
  /\ flag' = [flag EXCEPT ![job] = @ \/ Expired]
  /\ error' = IF Expired THEN "INDEX_TIMEOUT" ELSE error
  /\ IF Stopping
       THEN /\ Leaves(q, IF error' = "" THEN "INDEX_CANCELLED" ELSE error')
            /\ UNCHANGED waiters
       ELSE /\ waiters' = WaitersWith(q)
            /\ query' = [query EXCEPT ![q].at = "looping", ![q].waiter = attempt]
  /\ UNCHANGED <<phase, attempt, index, job, elapsed, builder, outside, asked>>

NoBuild(q) ==
  /\ query[q].at = "locking"
  /\ phase \in {"idle", "failed", "cancelled"} /\ ~Overflowed
  /\ ~WaitsForAnother(q)

\* The build this query waited for has ended without an index.
LookFailed(q) ==
  /\ NoBuild(q)
  /\ query[q].waiter # None
  /\ Leaves(q, error)
  /\ UNCHANGED <<state, builder, outside, asked>>

\* The query starts a build and is its first waiter.
LookStart(q) ==
  /\ NoBuild(q)
  /\ query[q].waiter = None
  /\ attempt < MaxAttempts
  /\ attempt' = attempt + 1
  /\ phase' = "indexing"
  /\ waiters' = 1
  /\ job' = attempt'
  /\ flag' = [flag EXCEPT ![attempt'] = FALSE]
  /\ elapsed' = FALSE
  /\ asked' = FALSE
  /\ error' = ""
  /\ builder' = [builder EXCEPT ![attempt'] = "building"]
  /\ query' = [query EXCEPT ![q].at = "looping", ![q].waiter = attempt']
  /\ UNCHANGED <<index, outside>>

\* The index or the scan returns results, or the query is cancelled in it.
Serve(q) ==
  /\ query[q].at = "serving"
  /\ \/ Leaves(q, "answered")
     \/ q \in withdrawn /\ Leaves(q, "CANCELLED")
  /\ UNCHANGED <<state, builder, outside, asked>>

\* saturating_sub, for a waiter of the current attempt.
WaitersWithout(q) ==
  IF query[q].waiter = attempt /\ waiters > 0 THEN waiters - 1 ELSE waiters

\* Fault: the last waiter does not stop the build.
AbandonsNeverMutant(q) == FALSE

Abandons(q) == query[q].waiter = attempt /\ WaitersWithout(q) = 0 /\ phase = "indexing"

\* Waiter::drop: the last waiter of a running build cancels it.
DropWaiter(q) ==
  /\ query[q].at = "dropping"
  /\ waiters' = WaitersWithout(q)
  /\ flag' = [flag EXCEPT ![job] = @ \/ Abandons(q)]
  /\ query' = [query EXCEPT ![q].at = "rechecking", ![q].waiter = None]
  /\ UNCHANGED <<phase, attempt, error, index, job, elapsed, builder, outside, asked>>

\* The steps of a query that was begun.
Query(q) ==
  \/ Recheck(q) \/ Invalidate(q)
  \/ Loop(q)
  \/ LookStreaming(q) \/ LookOverflowed(q) \/ LookInvalidated(q) \/ LookRetry(q)
  \/ LookReady(q) \/ LookIndexing(q) \/ LookFailed(q) \/ LookStart(q)
  \/ Serve(q)
  \/ DropWaiter(q)

-----------------------------------------------------------------------------
(* The background build *)

\* Index::build returns an index, finds it too large, fails, panics, or notices
\* that it is cancelled.
Build(a) ==
  /\ builder[a] = "building"
  /\ \E result \in {"built", "limit", "error"} : builder' = [builder EXCEPT ![a] = result]
  /\ UNCHANGED <<state, query, outside, asked>>

\* Fault: a build that outlived its attempt publishes.
CurrentAlwaysMutant(a) == TRUE

Current(a) == attempt = a

\* What the thread leaves behind: the index if the project's budget admits it,
\* or the reason why there is none.
Publish(a) ==
  \/ /\ builder[a] = "built"
     /\ phase' = "ready"
     /\ index' = a
     /\ UNCHANGED error
  \/ /\ builder[a] \in {"built", "limit"}
     /\ phase' = "failed"
     /\ error' = "LITERAL_INDEX_LIMIT"
     /\ UNCHANGED index
  \/ /\ builder[a] = "error"
     /\ phase' = "failed"
     /\ error' = "INDEX_BUILD_FAILED"
     /\ UNCHANGED index

\* The thread takes the lock.  It says nothing if the project is no longer at
\* its attempt, and publishes nothing if it was told to stop.
Complete(a) ==
  /\ builder[a] \in {"built", "limit", "error"}
  /\ builder' = [builder EXCEPT ![a] = "ended"]
  /\ IF ~Current(a)
       THEN UNCHANGED <<phase, index, error>>
       ELSE IF flag[a] \/ stop
         THEN /\ phase' = "cancelled"
              /\ error' = IF error = "" THEN "INDEX_CANCELLED" ELSE error
              /\ UNCHANGED index
         ELSE Publish(a)
  /\ UNCHANGED <<attempt, waiters, job, flag, elapsed, query, outside, asked>>

Builder(a) == Build(a) \/ Complete(a)

-----------------------------------------------------------------------------
(* What happens outside *)

Withdraw(q) ==
  /\ query[q].at \notin {"away", "done"}
  /\ q \notin withdrawn
  /\ withdrawn' = withdrawn \cup {q}
  /\ UNCHANGED <<state, builder, query, stop, apk, asked>>

\* Controller::cancel, by cancel_request or by a stopping server.
CancelIndex ==
  /\ flag' = [flag EXCEPT ![job] = TRUE]
  /\ asked' = (asked \/ phase = "indexing")
  /\ UNCHANGED <<phase, attempt, waiters, error, index, job, elapsed, builder, query, outside>>

StopServer ==
  /\ ~stop
  /\ stop' = TRUE
  /\ UNCHANGED <<state, builder, query, withdrawn, apk, asked>>

\* The file is replaced on disk, or put back.
Replace ==
  /\ apk' \in {"loaded", "changed"} \ {apk}
  /\ UNCHANGED <<state, builder, query, withdrawn, stop, asked>>

Elapse ==
  /\ phase = "indexing"
  /\ ~elapsed
  /\ elapsed' = TRUE
  /\ UNCHANGED <<phase, attempt, waiters, error, index, job, flag, builder, query, outside, asked>>

LiteralNext ==
  \/ \E q \in Queries : Begin(q) \/ Query(q) \/ Withdraw(q)
  \/ \E a \in Attempts : Builder(a)
  \/ CancelIndex \/ StopServer \/ Replace \/ Elapse

LiteralSpec == LiteralInit /\ [][LiteralNext]_literalVars

\* Every query that was begun runs on, and time passes.  Nothing is assumed of
\* the background builds: they may hang.
FairSpec ==
  /\ LiteralSpec
  /\ \A q \in Queries : WF_literalVars(Query(q))
  /\ WF_literalVars(Elapse)

-----------------------------------------------------------------------------
(* Properties *)

\* The waiter count is exactly the number of queries that hold a waiter of the
\* current attempt: a late drop never counts against a later build.
WaitersCounted ==
  waiters = Cardinality({ q \in Queries : query[q].waiter # None /\ query[q].waiter = attempt })

\* A running build is told to stop when nobody waits for it any more (docs/mcp.md:
\* "the final departing waiter cancels the build"), and otherwise only by
\* cancel() or the deadline: no query that leaves stops a build another waits for.
StoppedIffUnwanted ==
  phase = "indexing" =>
    /\ waiters = 0 => flag[job]
    /\ flag[job] => waiters = 0 \/ asked \/ error = "INDEX_TIMEOUT"

\* At most one build runs at a time, and one that no longer belongs to the
\* current attempt has been told to stop.
OneBuild ==
  /\ Cardinality({ a \in Attempts : builder[a] = "building" }) <= 1
  /\ \A a \in Attempts : builder[a] = "building" /\ a # attempt => flag[a]

\* An index is there exactly while the project is ready, and the current
\* attempt built it.
IndexCurrent == IF phase = "ready" THEN index = attempt ELSE index = None

\* No query fails for want of memory, and none fails without a reason: an index
\* over the budget is answered by a complete scan, for its waiters as well.
FailuresExplained == \A q \in Queries : query[q].outcome \notin {"", "LITERAL_INDEX_LIMIT"}

\* Once a query has found the APK changed, nothing but a restart brings an
\* index back, not even the original file or a build that finishes late.
InvalidatedForGood == [][phase = "invalidated" => phase' = phase /\ index' = None]_literalVars

\* Every query that is begun returns, even if the build never does: in the end
\* none is under way.
QueriesReturn == <>[](\A q \in Queries : query[q].at \in {"away", "done"})
=============================================================================
