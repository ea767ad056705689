# Specifications of RDX

RDX (`src/`) is an Android decompiler written in Rust. One process shows a
package in a window and can serve it to other programs through MCP; a second,
small process (the gateway) speaks MCP on its standard streams and forwards
calls. Most of the source turns DEX code into Java text and is sequential. What
can go wrong in ways that tests hardly reach is around it: searches that render
in parallel under a memory budget, indexes built in the background while
queries come and go, exports that are cancelled, crash and are resumed, and
caches that have to account for every byte. These TLA+ modules specify those
parts, TLC checks them on small instances, and TLAPS proves the most important
invariants for every instance.

## 1. The system

### Components

| Component | Source | State | Operations |
|---|---|---|---|
| Streaming source search | `src/src/search/streaming.rs` | a window of admitted classes, two bounded channels, results that are ahead of their turn, a byte budget (`ResultBudget`), flags `cancel` and `stop` | `run_with_workers`: admit, render, deliver, consume in order, recover a damaged document, stop |
| Retained budget | `src/src/retained_budget.rs` | one atomic counter, reference-counted reservations | `reserve`, clone and drop of a `Reservation` |
| Literal index service | `src/src/mcp_literals.rs` | `BuildState`: phase, attempt, waiters, index, error, the flag of the build | `search`, `cancel`, `invalidate`, the background build, `Waiter::drop` |
| Exports | `src/src/mcp_exports.rs` | the map of jobs; for each job progress, `cancel`, `done`; on disk the lock, `manifest.jsonl`, `export-status.json`, `completion.json` and the source files | `start`, `status` (poll and cancel), `cancel_all`, `Session::open`, `run`, `finish` |
| Packed source store | `src/src/search_index.rs` | `DiskIndex`: entries, free extents, length of the file, counters; a registry of session directories | `insert_prepared`, `load`, `remove`, `release`, cleanup at exit |
| Search cache and candidates | `src/src/search.rs`, `search/candidates.rs` | a cache of documents in front of the disk index, an index of definitions | `reset`, `get`, `insert`, `run_search_interactive` |
| Source cache | `src/src/engine/source_cache.rs`, `engine.rs` | rendered sources in LRU order, each with a reservation | `decompile_shared`, `insert`, `trim` |
| Project indexes | `identifier_search.rs`, `invoke_index.rs`, `usage_index.rs` | an index that one request builds and others wait for; a builder with a project lease | `get_or_build`, `get`, `start`, `candidates` |
| MCP server | `src/src/mcp.rs` | request watches, eight work slots, status, the loaded project | accept, `poll_requests`, `project_request`, `cancel_request`, drop |
| MCP gateway | `mcp_gateway.rs`, `mcp_registry.rs`, `mcp_socket.rs`, `transport.rs` | up to eight jobs, each with its connection and a cancellation | `Jobs::start`, `RequestControl::attach`, `cancel` |
| User interface | `src/src/ui.rs` and the windows | the generation of the project, pending work, tabs, history | `open`, `stop`, events, navigation |
| Method analyses | `native_dominators.rs`, `native_cfg.rs`, `native_ssa.rs`, ... | none | dominators, SSA, types, call graph queries |
| Java renderer, package parsing, command line | `native_java/`, `native_engine.rs`, `apk.rs`, `cli_export.rs`, ... | none that is shared | text and binary formats |

### How they interact

- The window starts a search on a thread of its own. The thread owns the search
  cache, and with it the disk index, for as long as it runs. It starts render
  workers that share the budget, two channels and the flags, and nothing else.
- A served project is one `LoadedProject`. Every request runs on its own thread
  of the server and reaches the literal index and the exports through it. The
  listener polls the sockets of requests and sets their cancellation flags.
- A literal index, identifier index and cached sources are charged to the one
  retained budget of the project. A reservation is dropped with what it pays
  for.
- An export holds a file lock in its directory while its session exists. Other
  processes can export into the same directory at other times.
- Everything is cancelled by flags that workers read at certain points; threads
  are never interrupted. Waits poll every few milliseconds.

### What is hard

Interleavings of the workers with the coordinator of a search; full channels
and a full budget (deadlock); results out of order; builders and waiters of an
index that come and go, with deadlines and late results; a file replaced under
a server; crashes and failed writes between the steps of an export; a job
service that stops while it starts a job; bookkeeping of free space over long
sequences. `PROJECT.json` lists these hazards one by one with their lines.

### What makes each component correct

- *Search*: the reports are those of a sequential search, whatever the threads
  do; no byte is lost; it ends; after a cancellation nothing new is counted.
- *Budgets*: the counter is the sum of what is outstanding, within the limit.
- *Literal index*: an index is published for the current attempt only; a shared
  build survives the departure of one waiter, an abandoned one does not; every
  query returns; nothing survives a replaced package.
- *Exports*: what the checkpoint commits is on disk and comes from one input;
  files are never overwritten; completion is claimed honestly; one session per
  project; stopping reaches every worker.
- *Packed store*: records never overlap, no space leaks, counters are exact,
  the file keeps within its limit, and what was stored can be loaded.
- *Caches and project indexes*: limits and charges are kept; one builder at a
  time, a failed or cancelled one leaves the next one free, and an index that
  did not fit is not built again.
- *Server*: slots are given back, stopping reaches every request, and what
  nobody waits for ends.
- *Gateway*: a cancellation reaches the connection and the work behind it;
  every call is answered, and a cancelled one as cancelled.
- *Window*: the engine of the open project is never lost; a jump that is
  awaited ends; events of a closed project change nothing.

## 2. The modules

| Module | Models | Relation to the others |
|---|---|---|
| `ChargeSum` | the sum of a function into the naturals, and `saturating_sub` | used by everything that accounts |
| `ResultBudget` | `ResultBudget` of a search: reserve, finish, release, head, stop | the abstract budget of `SearchStreaming` |
| `SequentialSearch` | what a search promises: classes settled one at a time, in order | the abstract specification of `SearchStreaming` |
| `SearchStreaming` | `run_with_workers`: coordinator, workers, exceptional threads, channels | implements `SequentialSearch` and `ResultBudget` |
| `RetainedBudget` | the atomic counter and its reservations | the abstract budget of `ProjectCaches` |
| `ProjectCaches` | the source caches of the engines and the index of identifiers | extends `RetainedBudget`, whose steps it takes, and implements it |
| `LiteralIndex` | `Controller` of the literal index, with the checks of the package in `mcp.rs` | |
| `ExportLedger` | what the directory of an export promises | the abstract specification of `ExportSession` |
| `ExportSession` | one directory: sessions, crashes, failed writes, tampering | implements `ExportLedger` |
| `ExportJobs` | the job service of one project | an open session is one action there, and the subject of `ExportSession` |
| `DiskIndex` | the packed store of a search session | |
| `Exchange` | what a served project promises to a client of its socket | the abstract specification of `Requests`, and the server that `Gateway` asks |
| `Requests` | listener, request threads, watches, slots, engine, stop | implements `Exchange` |
| `Gateway` | the gateway's main thread, its jobs and their cancellation | extends `Exchange`: gateway and server together |
| `Window` | the main window: engine, events, tabs, history of jumps | |

`MC...` modules name the values of small instances. `...Proofs` modules hold
theorems. Definitions whose name ends in `Mutant` stand before the definition
they are a faulty variant of; they are used by nothing and record what a
property is able to detect. Every module states its type invariant as `TypeOK`
(with a prefix in the modules that are extended together with another:
`CachesTypeOK`, `DiskTypeOK`, `LiteralTypeOK`, `WindowTypeOK`). Those of the
modules with proofs are proved; the runs spend their time on the other
properties.

The composition of gateway and server is in two halves that meet in `Exchange`.
`Gateway` is checked with `Exchange` in the place of the server; `Requests` is
checked to implement `Exchange`, its fairness included. Both sides name a
connection, and both see its two ends: `peer` is the client's, `life` the
server's. That the halves fit is a theorem (`GatewayMeetsServer`): the server
and a gateway that share their connections behave as `Gateway` says.

### State and actions

**SearchStreaming.** Classes are positions in the list of targets. `thread` is
what each worker is doing between the statements that other threads can
observe: receiving a job, waiting for the budget, rendering, replacing the
estimate by the actual size, sending, giving bytes back. `at` is the place of
the coordinator: top of a turn, admitting, waiting for or polling a result,
joining the exceptional thread, settling its result, matching, and the three
steps of leaving. Each of its actions is what happens between two accesses to
shared state. `jobs` and `results` are the channels, `completed` the map of
early results. The exceptional thread of a class is named by the class.
Matching is a choice of how many hits a class has; rendering is a choice of a
size, and of success. The wait of a thread in a condition variable is a guard,
because every wait in this code ends after a few milliseconds and looks again.
Two error paths are left out because they cannot happen: while the coordinator
waits, it still holds a sender of results and a receiver of jobs, so neither
the send at lines 247-250 nor the receive at lines 308-311 finds its channel
disconnected.

**ResultBudget.** `reserved`, `head`, `stopped` are the fields of the type;
`charge` is what each class still has to give back, and is what the counter is
compared with.

**RetainedBudget.** A call of `reserve` is split at its load and its
compare-and-exchange. `owners` is the strong count of the `Arc`; the last owner
and the subtraction are two steps.

**ProjectCaches.** A thread renders, or searches identifiers. `cache` holds
each engine's documents in LRU order, `job` what a thread does and which
document it was given; the bytes of a cache are recomputed from the charges of
its documents, where the code keeps a count (and adds the length of the class's
name); every caller of `trim` empties the cache. `index`, `lock` and
`streaming` are the fields of the index of identifiers. A document or index is
named by the reservation that charges it, and every copy or drop of it is one
of the steps of `RetainedBudget`. `decompile_shared` is a chain of steps:
charge; if refused, empty the cache and charge again; if refused again, serve
without keeping; store and evict. `drop` keeps the last drop of a reservation
separate from the subtraction that follows it.

**LiteralIndex.** What runs under the mutex is one action. `flag` keeps the
cancellation flag of every attempt, because late builders hold the flag of
theirs. A query is its loop: enter, look at the phase, wait; then the check of
the package again. `Builder` is the background thread; it looks at its flag
when it is scheduled, and may never be. `Elapse` is the deadline of 120
seconds.

**ExportSession.** Every read, write and rename of the directory is one action
of the session `s`, and may fail where the code has an error path. `Crash` can
happen between any two and frees the lock. Appending to the manifest may leave
nothing, a torn record or a whole one. `Tamper` is somebody else who creates,
changes or deletes a source file, at most `MaxTampers` times. `exhausted` is
fixed in each behaviour: with it, threads cannot be spawned at times. It
separates the consequences of the first finding below from everything else.
`Entries` and `Status` are what `ExportLedger` sees of the directory.

**ExportJobs.** The steps of a start and of a poll under the mutex, of a worker
outside it, and of `cancel_all`. The order of `finish` is kept: publish the
status, write the marker, settle the progress, drop the session, set `done`.

**DiskIndex.** `entries`, `free`, `storeLen`, `bytes`, `metadata` are the
fields of the type, `cells` is the content of the file, position by position:
whose record it belongs to. A record is intact if all its positions are its
own, which is what its digest detects. A failed write leaves any prefix.
`Damage` is somebody else who truncates or changes the file.

**Requests.** `thread` is where the thread of each connection is between two
accesses to shared state: reading the frame, checking the project, admitting
itself with a load (`seen`) and a compare-and-exchange of `slots`, counting
itself in the status, polling for the engine (a look at the flag, then a
`try_lock`), working, and the way back, which a panic takes too. `Poll` is one
pass of the listener over its `watches`: it removes what is done, cancels what
is too old and what has hung up after its frame was parsed. Age is a choice:
any request may have reached 120 seconds. `DropServer` and `FinishDrop` are the
owner's drop: it sets `stop`, and then cancels what is watched, without waiting
for the listener.

**Gateway.** A call is named by the connection it makes. `job` is its stage:
connecting, attaching the connection to its control, sending, awaiting,
closing, deciding. `flagged` and `attached` are the fields of `RequestControl`;
`FlagJob` and `ShutDownJob` are the two steps of `cancel`. A blocking call is a
job that `main` waits for, without a control. `Exit` ends the process in any
state, and after the end of the input only when every job has been cancelled.

**Window.** The window is one thread, so its whole state is one record and its
methods are functions of it. `tasks` are its threads and the events they have
sent; one that carries `engine` took the engine along. An event is handled at
any time and in any order after its task was spawned. This allows more than the
channel does: two events of one thread keep their order in the code. `pending`,
`cancelled`, `deferred` and `queued` are the fields that await a jump, discard
an event, open a target after it, and hold a link during a search. All other
work that borrows the engine and brings it back is `UseEngine`.

## 3. What is checked

| Run | Instance | What it shows |
|---|---|---|
| `result_budget` | 4 classes, limit 4, sizes 1, 3, 4, 6 | exact accounting; only the head exceeds the limit |
| `search` | 3 classes, 2 workers, window 2, limit 2, sizes 1 and 3, limit of 1 hit | no class is lost, one exceptional thread at a time, cancellation, both refinements, and that every search ends |
| `project_caches` | 2 threads, 2 classes, 3 reservations of 1 to 3 under a limit of 3, caches of 2 | exact accounting across caches, copies and an index; builders take turns; overflow is final |
| `literal_index` | 2 queries, 4 attempts, package replaced and put back | waiters, deadlines, late builders, and that queries return |
| `export_session` | 2 processes, 4 sessions, 2 classes, 2 inputs, 1 tampering | durability, one input, `ExportLedger` |
| `export_jobs` | 2 request threads, 3 jobs, 2 retained | exclusion, eviction, stopping |
| `disk_index` | 4 classes of which 3 can have an entry, records of 1 to 4 of which 4 is too large, 5 positions | the free list, leaks, counters, the limit of the file |
| `requests` | 2 connections, 1 or 2 slots, 2 watches | slots, stopping, that abandoned requests end, `Exchange` |
| `gateway` | 2 calls, equal or different ids, 2 jobs | cancellation, honest answers, that calls are answered |
| `window` | a class, a file and a summary; 2 projects; 1 thread of the first outlives it; history of 1 | the engine; jumps to classes and files |
| `window_jumps`, `export_lock` | as `window` with 1 project, and as `export_session` with 2 sessions | the two findings |

Why the bounds are enough to see the interesting cases:

- *Search.* A window of two with three classes lets results wait for the one
  before, fill both channels and block both workers at the byte barrier, since
  sizes are below and above the limit. Two damaged documents in a row need two
  exceptional threads. One hit reaches the limit with the first class or a
  later one.
- *Project caches.* Every size up to the limit occurs: a document that is too
  large for the cache, two that fill it, one that does not fit until the cache
  is emptied, and one that does not fit at all because the other thread reads.
  The limit is also the largest number, so an addition that wraps would be
  seen. There are as many reservations as bytes, so one is always free, and
  `MaxOwners` is more than a reservation can have.
- *Literal index.* Two queries share a build, abandon it, and start the next
  while the first builder still runs. A query starts at most one build and
  invalidates at most once, so four attempts never block a query.
- *Exports.* Four sessions are a first one, its resumption, and two more that
  resume or rival those. Two classes have a committed and an uncommitted one.
  Three jobs with room for two make an eviction.
- *Disk index.* Three records of different sizes in five positions leave free
  extents to the left, to the right and on both sides of a removed one; the
  store fills up although the sum of the records does not reach the limit; the
  third filter exceeds the metadata.
- *Requests.* The run has behaviours with one slot and with two (`capacity`,
  which never changes and is 8 in the code). With one slot, two connections
  race for it from the same value of the counter, and the late one is refused.
  With two, one waits for the engine while the other works, panics or hangs. A
  connection is used once: a third would repeat what the second does after the
  first has ended. A refusal needs no full list of watches, since the code also
  refuses a socket that it cannot clone, so that the second connection may be
  refused at any time. The proofs are for any number of connections and slots.
- *Gateway.* Two calls can have the same id, and both places for jobs can be
  taken; one can block the main thread while the other is a job. Cancelling a
  job and ending the input meet each stage of a call.
- *Window.* One target of each kind is enough to be open, closed, awaited and
  given up, because a jump concerns the target it goes to and the view it comes
  from. A history of one overflows with the second jump. Two projects with one
  thread left over let each kind of event arrive in the wrong project. The
  origin of a link is forgotten when its project is closed, only to have fewer
  states.

Deadlock is checked in `search`, `result_budget`, `export_jobs` and
`disk_index`. The other systems may really stop: all queries have returned, all
sessions are used up, the server or the gateway has ended, every thread of a
project's caches rests with no room for the bytes it would charge, or the
window has nothing to show.

### Fairness

- `SearchStreaming!FairSpec`: weak fairness of the coordinator and of every
  thread. The operating system schedules threads, and rendering one class ends
  (the renderer has work limits). Nobody has to cancel. The channels' and the
  budget's waits poll, so a thread that can go on does, without strong
  fairness.
- `LiteralIndex!FairSpec`: every query that was begun runs on, and time passes.
  Nothing is assumed of a build: `QueriesReturn` holds although it may hang.
- `Requests!ServerFairness`: the listener and the threads run. Work that nobody
  cancels need not end; work that is cancelled ends, because the tools poll
  their flag. A thread that waits for the engine or a slot never blocks: both
  waits poll. Clients need not do anything, and nobody has to drop
  the server; a drop that has begun goes on.
- `Gateway!FairSpec`: a cancellation that has begun goes on, the threads of
  calls run (a read has a deadline), and the process exits after the end of the
  input. Of the server only what `Exchange` promises is assumed: a connection
  that the client has closed ends. `Requests` implements that (see
  `ImplementsExchange`), so the assumption is discharged there.
- The other specifications are about safety and have none.

### Findings

1. **A failed start writes without the lock** (`export_lock`,
   `mcp_exports.rs:90`). When the worker's thread cannot be spawned, its
   closure, which owns the session and the lock, has already been dropped. The
   error path then writes `export-status.json` and `completion.json`. Another
   process can have locked the directory since, and its checkpoint is
   overwritten by an older one. `docs/mcp.md` says that locking excludes
   concurrent writers. `ExportLedger` is therefore claimed for behaviours in
   which threads can be spawned, and so is `CommittedSound`: the checkpoint
   that is written too late may count records which the other session, resuming
   from a smaller count, has discarded. Four sessions are needed for that; it
   was met when the invariant had to be inductive. `OneInput`,
   `CancellationNotRecorded` and `NeverOverwritten` hold in all behaviours.
2. **A jump to a closed summary never ends** (`window_jumps`, `ui.rs:1659`).
   Back or forward to a Manifest summary whose tab was closed sets
   `pending_history` and builds the summary, but neither `push_tab` (which ends
   jumps to files only) nor the event `ManifestSummary` ends or discards the
   jump. Afterwards nothing runs that could, both arrows stay disabled, and
   giving the jump up by choosing another target only defers that target. The
   tests in `ui.rs` assert that no jump stalls, for the views they use.
   `JumpsServed` is therefore claimed for jumps to classes and files.

Observations that no run claims, because no text of the repository promises
otherwise:

- A poll of an export copies the progress before it reads `done`. If the worker
  finishes in between, the answer is "running" with `worker_finished` true.
- The final checkpoint of an export is written before `completion.json`. After
  a crash or a failed write between the two, the marker is absent or says
  "running", and resuming is refused because the export is complete. When
  writing the marker fails, the job reports "incomplete" all the same.
- A crash between the creation of the directory and its first checkpoint leaves
  a directory that is neither fresh nor resumable.
- A link that is followed while a jump back to a file is awaited pushes its own
  origin, and the jump then pops that entry instead of the one it went to.
- `SessionCleanup` can lose a directory to a worker that creates its file
  during the removal.

## 4. What is proved

| Theorem | For every | Says |
|---|---|---|
| `SearchPartsProofs!TypeCorrect`, `AccountingCorrect`, `OnlyHeadExceeds` | number of classes, limit, set of sizes | types; `reserved` is the sum of the charges; only the head exceeds the limit |
| `ProjectCachesProofs!TypeCorrect`, `CounterExact`, `LimitRespected` | number of threads and reservations, sizes, limit up to `MaxUsize` | no overflow; the counter is exact; the limit holds |
| `ProjectCachesProofs!CachesUseBudget`, `CachesWithinLimit`, `IndexBuiltInTurns` | the same, and every number of classes and size of the caches | the caches implement `RetainedBudget`; all they hold is within the limit; who has the lock of the index builds it, and an index that did not fit is not built again |
| `ProjectCachesProofs!SourceCachesBounded`, `OwnersCounted` | the same | a source cache keeps charged documents within its entries and bytes; the strong count of a reservation is the number of its owners |
| `SearchStreamingProofs!TypeCorrect`, `NothingLost`, `OneExceptional`, `CancelledScanStops` | number of classes, workers and sizes, window, limit of bytes and of hits | types; every admitted class is still somewhere until it is settled; one exceptional thread; after a cancellation nothing new is counted |
| `SearchStreamingProofs!RefinesSequential`, `RefinesBudget` | the same | a search implements `SequentialSearch`, and uses the budget as `ResultBudget` allows |
| `SearchPartsProofs!DiskTypeCorrect`, `StoreTiled`, `CountersExact`, `RecordsStay` | number of classes, sizes of records and filters, limits | types; records and free extents divide the file; the counters are exact and bounded, and so is the file; a record keeps its content |
| `SearchPartsProofs!LiteralTypeCorrect`, `WaitersExact`, `StoppedExactly`, `BuildsExclusive`, `IndexIsCurrent`, `FailuresHaveReasons`, `InvalidationFinal` | number of queries and attempts, set of packages | types; waiters are counted exactly; a build is stopped when nobody waits, and only then; one build may publish; what is published belongs to the current attempt; a failure has a reason; an invalidated attempt never becomes ready |
| `ExportSessionProofs!TypeCorrect`, `CheckpointSound`, `InputsNeverMixed`, `CancellationsForgotten`, `FilesKept` | number of processes, sessions, classes, inputs and contents | types; what the checkpoint counts is on disk; one input; a cancellation leaves no record; files are never overwritten |
| `ExportSessionProofs!LedgerImplemented` | the same | an export implements `ExportLedger`, while threads can be spawned |
| `ExportJobsProofs!TypeCorrect`, `SessionsExclusive`, `WorkersListed`, `StopComplete` | number of requests and jobs, room in the map | types; one session; live workers are listed; `cancel_all` reaches all |
| `RequestsProofs!SlotsExact`, `StopReachesRequests` | number of connections, slots and watches | slots and counts are exact and bounded; no request escapes the stop |
| `RequestsProofs!RefinesExchange` | the same | the server implements `Exchange`, without its fairness |
| `FrontEndProofs!TypeCorrect`, `CancellationReaches`, `HonestAnswers` | number of calls and jobs, set of ids | types; a cancelled job has its connection shut down, or never sends on it; only what the server sent on its connection is answered as data, and to no cancelled call |
| `FrontEndProofs!WindowTypeCorrect`, `EngineNeverLost`, `JumpsAreServed` | set of targets, number of projects, threads and jumps | types; the engine is in the window or with one thread of the open project; a jump to a class or file has a thread that ends it |
| `RequestsProofs!GatewayMeetsServer` | number of calls, jobs, connections, slots and watches | a gateway that runs against the server of `Requests` behaves as `Gateway` says |

The assumptions are those that the modules name (`...Assumption`): finiteness
of the set that is summed or counted, sets of numbers, model values that
differ, and kinds of targets that have no target in common. TLC evaluates them
in every run.

*Sums.* `ChargeSum` defines the total of `f` as the cardinality of `{<<s, n>> :
n in 1 .. f[s]}`, so that no recursion is needed. `ChargeSumProofs` derives
from the library's facts about cardinality that a total is a natural number,
changes by the difference when one entry is updated, and is at least each
entry.

*SearchStreaming.* The invariant (`SInv`) has three parts. `Control` says how
far the coordinator is: which classes are admitted, settled, or being settled.
`Located` follows a class through the channels, the threads and the map of
early results: it is in at most one place, only while the coordinator will
still ask for it, and always in one while it will and nobody has told the
threads to stop. `Exceptional` says of whom the coordinator waits outside the
window. `NoClassLost` alone is far from inductive: to see that a result which
arrives is the one that is missing, one has to know that it is nowhere else.

*A search is a sequential search.* A step of the coordinator that settles a
class is a step of `SequentialSearch`, every other step a stutter. The summary
decides both, so the refinement needs of the invariant only where the
coordinator is. `SequentialSearch` keeps the hits that were counted, because
the limit of a search is compared with them.

*A search uses the budget.* The charge of a class is what its holder holds: the
thread that has reserved for it, the result in the channel or in the map, or
the coordinator. At most one of them exists, by `Located`, so each reservation,
correction and release is one step of `ResultBudget`, and the head moves only
when nothing of it is charged. What is proved of `ResultBudget` is therefore
true of a search.

*ResultBudget.* `Accounted` alone is not inductive: a release subtracts what a
class holds, and a reservation must add to nothing. The invariant adds
`Unheld`: a class that has not reserved, or is done, holds nothing.
`FutureWithinLimit` needs `Accounted`, since the code compares with the
counter, and that the head holds nothing when it advances.

*RetainedBudget.* A thread that compares holds a value it has seen, which may
be stale, but a successful exchange proves it current. `FreeUncharged` makes
the charge of a new reservation an addition. `WithinLimit` and `Charged`
together exclude that the wrapping subtraction wraps.

*ProjectCaches.* The refinement mapping is the identity: each step of a cache
is one step of the budget or a stutter. There is a lemma for each kind of step,
and what is proved of the budget follows for everything the caches do.
`BuildersTakeTurns` is inductive with the types and what each job has at hand:
no step with a source cache begins or ends the work on an index
(`SourceApart`), and only the thread that has the lock sets `streaming`.
`CacheBounded` depends on who shares a document: `OInv` counts the owners of
each reservation exactly, a document about to be stored belongs to nobody but
its job and carries the charge that was asked for, and a cache that is being
copied rests, so the copy is a part of it. The bytes of a cache, a sum over its
positions, are then the sum over the distinct documents in it.

*LiteralIndex.* The invariant (`LInv`) relates the builds to the phase. A
builder of an earlier attempt may still run and publishes nothing, because it
compares its attempt with the current one under the mutex; but then it was told
to stop by an invalidation, after which nothing is built (`OneUnfinished`). So
the only build whose thread has not completed is the one whose flag the state
holds. A step that moves a query across the border of those that wait for the
current attempt changes the counter by one (`WaitingChange`), every other
leaves both.

*ExportSession.* The invariant (`EInv`) says who may write (`Exclusive`: what
is under the lock is done by its holder), that a session past its opening works
on the directory of its own input (`Owns`), that what it has in memory is how
far the manifest goes (`Follows`), and that it agrees with the checkpoint
(`Synced`). `Synced` is what fails once a session writes without the lock, so
it is claimed for behaviours in which threads can be spawned, and with it
`CommittedSound`; the others need only the rest. To a reader of the ledger
(`Entries`, `Status`) resuming is a stutter: it truncates the manifest to what
the checkpoint counts.

*ExportJobs.* The invariant (`Control`) says who can be where: a caller inside
a request holds the mutex, so at most one is; a caller that is past its check
of `stopped` read it before `cancel_all` could take the mutex; a job whose
session exists is a live worker's or is being opened by the holder of the
mutex; `done` follows the drop of the session; every other live worker is in
the map. Each action has a lemma, and each lemma a step for each conjunct the
action can disturb. `StopReachesAll` follows since `stopped` is stored before
the mutex is taken.

*DiskIndex.* `Tiles` says what `Tiled` and the bounds of the file say, but of
any set of used positions in place of those of the records. With it, one lemma
(`ReleaseTiles`) covers every use of `release`: of a removed record, of what is
left of a larger extent, and of a failed write; and another (`PlacementTiles`)
both ways to place a record. That merging with the nearest neighbours is enough
is not obvious: it needs that no two free extents touched before.
`RecordsIntact` follows from `Tiled`, since a write, complete or not, changes
only positions that no record had. The invariant (`DInv`) adds `Bare`: a class
without an entry has no record, so that removing it gives nothing back.

*Requests.* Both counters equal the number of threads at certain places, and
each step of a thread moves one thread across the border of that set or not
(`ThreadMoves`). `NoneEscapesStop` needs `DoneEnded`, that only ended threads
are `done`: the listener removes a watch when it sees `done`, and must not
forget a request that runs. That the server implements `Exchange` needs
`Framed`: a request gets a result only after its whole frame was read.

*Gateway.* `CancelReaches` needs to know what the main thread is at
(`MainThread`: whom it waits for was not cancelled, and a connection it is
about to shut down belongs to a flagged job) and that a job which may send is
attached to its connection (`Linked`), so that the shutdown finds it.
`AnswersHonest` needs the other half of `Linked`: data a job has read was
served on its own connection, which it has closed when it decides.
`GatewayMeetsServer` puts `Lives` and `Answers` of `Requests` in the place of
`life` and `served`. Each step of both together is one of `Exchange`, by
`RefinesExchange`; one that leaves the gateway and the client's ends alone must
then be the server's, since connecting and sending change those ends and
hanging up without changing them is a stutter.

*Window.* The state is one record, and the invariant (`WInv`) a predicate of
it, so each method of the code that the actions share (`Borrow`, `GiveUp`,
`Choose`, `Finish`, `Discard`) has a lemma that says what it does to any record
with the invariant. The one thing that such a method may find broken is the
service of a single target: an event has just been taken, or a jump has just
been recorded and its thread not yet started. So the predicate has that target
as a parameter, and each action ends with no exception left. `EngineOnce` needs
what each kind of thread was started with, and that the thread that opens a
project is the only one of it until the engine exists. It also needs that a
window without an archive knows no file and no summary, since to ask for a
summary without one would drop the engine (`open_manifest_summary`).
`JumpsServed` needs that a jump is never awaited while another one is given up.

*Only model-checked.* Liveness under fairness (`Termination`, `QueriesReturn`,
`AbandonedEnds`, `CallsAnswered`, `CancelStopsWork`, and the fairness that
`Requests` owes `Exchange`) is beyond the prover. Every invariant and every
action property of the passing runs is a theorem.

## 5. What is not modelled

- The Java renderer and its rewriting passes: more than half of the
  implementation, sequential translations of texts without shared state. A
  model that says anything of them would be a second renderer. For this reason
  the specifications can cover only a small part of the lines of the program,
  although they cover most of what is concurrent or persistent in it.
- The parsers of packages and resources: binary formats, whose correctness is
  about data.
- Method analyses (dominators, SSA, types): functions of one method's data with
  work limits, which tests against a reference reach as well.
- The invoke and usage indexes. They wait much like the indexes of identifiers
  and literals, which are modelled.
- The registry of session directories and its cleanup at exit.
- The gateway's registry of instances, its handshake, and the framing of
  messages: a frame is there or not. A call makes one connection; that
  `list_instances` asks every instance in turn is not modelled.
- A client of the gateway that does not read its standard output. The check of
  the cancellation and the write of the answer are one step, so an answer that
  has passed the check may still be written after a cancellation.
- An export in the foreground (`background: false`). It opens, runs and
  finishes a session of the same kind in the thread of its request, but it is
  no job: it is not in the map that `ExportJobs` models, its cancellation is
  the request's, and it does not look at the package again between classes.
  What is said of exports is said of the background jobs of `Controller`.
- Widgets, themes, layout, settings, plugins, and the command line.
- Loss of power: a crash is the end of a process, and a completed write is
  kept.
- Progress texts and statistics, and `export_directory` for a caller that does
  not verify its files.
- What an index contains and how filters match; a query is answered.

## 6. Plan

Written, in this order, because a search and its budget are the centre of the
program and exports are the only part that keeps data across crashes: budgets,
search, retained budget, literal index, exports, packed store; then the caches
on the retained budget, the requests of the server and the gateway that sends
them, and the window.

Left to model:

1. `SessionDirectories`: the registry, workers and the cleanup at exit.
2. `BuildOnce`: the abstract specification of an index that one request builds
   while others wait, with the usage index and its project lease as another
   implementation.
3. `SearchCache`: memory and disk together, with the search that uses them.
4. `Registry`: instances that appear, are replaced and leave while the gateway
   looks for one.

Runs stay within a few minutes each; where an instance grows too large the
number of requests or classes is reduced before any action is left out.
