------------------------------- MODULE Window -------------------------------
(***************************************************************************)
(* The main window (App in ui.rs): which project it shows, who has its     *)
(* engine, its tabs, and the history of jumps between them.                *)
(*                                                                         *)
(* The window runs on one thread.  What takes time runs on a thread of its *)
(* own, which may take the engine along, and comes back as an event that   *)
(* carries the generation of the project it was started for.  Events       *)
(* arrive in any order and meet whatever the user has done since.  The     *)
(* whole App is one record here, and its methods are functions of it.      *)
(***************************************************************************)
EXTENDS Naturals, Sequences, FiniteSets

CONSTANTS
  Nothing,
  Classes, Files, Summaries,  \* the targets of tabs
  MaxHistory,                 \* how many jumps are kept: 100
  MaxGeneration,              \* how many projects are opened, a bound of the model
  MaxLate                     \* how many threads of a project outlive it, another bound

Targets == Classes \cup Files \cup Summaries

ASSUME WindowAssumption ==
  /\ Classes \cap Files = {} /\ Classes \cap Summaries = {} /\ Files \cap Summaries = {}
  /\ Nothing \notin Targets
  /\ MaxHistory \in Nat /\ MaxGeneration \in Nat /\ MaxLate \in Nat

VARIABLE app

\* A thread, or the event it has sent.
Tasks == [gen : 1..MaxGeneration,
          kind : {"open", "class", "link", "asset", "raw", "resource", "summary", "search",
                  "ready"},
          target : Targets \cup {Nothing}, origin : Targets \cup {Nothing}, engine : BOOLEAN]

\* The states of a window that shows and remembers nothing but the targets of a set.
Apps(shown) ==
  [generation : 0..MaxGeneration, project : BOOLEAN, archive : BOOLEAN,
   engine : BOOLEAN, busy : BOOLEAN, assetBusy : BOOLEAN, searching : BOOLEAN,
   tabs : SUBSET shown, selected : shown \cup {Nothing},
   history : Seq(shown), future : Seq(shown),
   pending : {Nothing} \cup
     [to : shown, origin : shown \cup {Nothing}, forward : BOOLEAN],
   cancelled : shown \cup {Nothing}, deferred : shown \cup {Nothing},
   queued : {Nothing} \cup [target : Classes, origin : shown],
   tasks : SUBSET Tasks]

WindowTypeOK ==
  /\ app \in Apps(Targets)
  /\ Len(app.history) <= MaxHistory /\ Len(app.future) <= MaxHistory

WindowInit ==
  app = [generation |-> 0, project |-> FALSE, archive |-> FALSE, engine |-> FALSE,
         busy |-> FALSE, assetBusy |-> FALSE, searching |-> FALSE, tabs |-> {},
         selected |-> Nothing, history |-> <<>>, future |-> <<>>, pending |-> Nothing,
         cancelled |-> Nothing, deferred |-> Nothing, queued |-> Nothing, tasks |-> {}]

Current(task) == task.gen = app.generation
Spawn(a, kind, target, origin, engine) ==
  [a EXCEPT !.tasks = @ \cup {[gen |-> a.generation, kind |-> kind, target |-> target,
                               origin |-> origin, engine |-> engine]}]

\* A thread that takes the engine along, and the engine when it comes back.
Borrow(a, kind, target, origin) ==
  Spawn([a EXCEPT !.engine = FALSE, !.busy = TRUE], kind, target, origin, TRUE)
Return(a) == [a EXCEPT !.engine = TRUE, !.busy = FALSE]

-----------------------------------------------------------------------------
(* Tabs and history *)

Show(a, t) == [a EXCEPT !.tabs = @ \cup {t}, !.selected = t]

OpenAsset(a, t) ==
  IF a.archive THEN Spawn([a EXCEPT !.assetBusy = TRUE], "asset", t, Nothing, FALSE) ELSE a

OpenSummary(a, t) ==
  IF t \in a.tabs THEN [a EXCEPT !.selected = t]
  ELSE IF a.archive /\ a.engine THEN Borrow(a, "summary", t, Nothing)
  ELSE [a EXCEPT !.engine = FALSE]

Decompile(a, t) == IF a.engine THEN Borrow(a, "class", t, Nothing) ELSE a

Start(a, t) ==
  CASE t \in Classes -> Decompile(a, t)
    [] t \in Files -> OpenAsset(a, t)
    [] t \in Summaries -> OpenSummary(a, t)

\* A jump that is awaited is given up: its event will be discarded.
GiveUp(a) ==
  IF a.pending = Nothing THEN a ELSE [a EXCEPT !.pending = Nothing, !.cancelled = a.pending.to]

Choose(a, t) ==
  IF a.pending # Nothing /\ a.pending.to = t THEN a
  ELSE LET b == GiveUp(a)
       IN  IF t \in b.tabs
             THEN [b EXCEPT !.selected = t,
                            !.deferred = IF b.cancelled # Nothing THEN Nothing ELSE @]
           ELSE IF b.cancelled # Nothing THEN [b EXCEPT !.deferred = t]
           ELSE Start(b, t)

\* discard_cancelled_history, for the event of a jump that was given up.
Discard(a) ==
  LET b == [a EXCEPT !.cancelled = Nothing, !.deferred = Nothing]
  IN  IF a.deferred = Nothing THEN b ELSE Choose(b, a.deferred)

Pop(s) == SubSeq(s, 1, Len(s) - 1)
Push(s, t) ==
  LET longer == Append(s, t)
  IN  IF t = Nothing THEN s ELSE IF Len(longer) > MaxHistory THEN Tail(longer) ELSE longer

\* finish_history, where the source and position of the location are still right or not.
Finish(a, right) ==
  LET p == a.pending
      b == [a EXCEPT !.pending = Nothing]
  IN  IF ~right \/ a.selected # p.to THEN b
      ELSE IF p.forward THEN [b EXCEPT !.future = Pop(@), !.history = Push(@, p.origin)]
      ELSE [b EXCEPT !.history = Pop(@), !.future = Push(@, p.origin)]

\* push_tab ends the jump to a file, not to another view.
PushTab(a, t, right) ==
  LET b == Show(a, t)
  IN  IF b.pending # Nothing /\ t \in Files /\ b.pending.to = t THEN Finish(b, right) ELSE b

\* Fault: the jump to a view that cannot be built is still awaited.
FailMutant(a) == a

\* A view that cannot be built ends the jump to it.
Fail(a) == [a EXCEPT !.pending = Nothing]

-----------------------------------------------------------------------------
(* The user *)

\* The threads of the project that is closed run on.  The origin of a link is forgotten,
\* only to have fewer states: the event that carries it will be ignored.
Open ==
  /\ app.generation < MaxGeneration /\ Cardinality(app.tasks) <= MaxLate
  /\ LET a == [app EXCEPT !.generation = @ + 1, !.project = FALSE, !.archive = FALSE,
                 !.engine = FALSE, !.busy = TRUE, !.assetBusy = FALSE, !.searching = FALSE,
                 !.tabs = {}, !.selected = Nothing, !.history = <<>>, !.future = <<>>,
                 !.pending = Nothing, !.cancelled = Nothing, !.deferred = Nothing,
                 !.queued = Nothing,
                 !.tasks = {[task EXCEPT !.origin = Nothing] : task \in @}]
     IN  app' = Spawn(a, "open", Nothing, Nothing, FALSE)

\* A click in the tree, which offers what the engine or the archive can be asked for.
ChooseTarget(t) ==
  /\ IF t \in Files THEN app.archive /\ ~app.assetBusy
     ELSE /\ app.project /\ app.engine /\ ~app.busy
          /\ t \in Summaries => app.archive
  /\ app' = Choose(app, t)

ChooseSummary(t) ==
  /\ app.selected \in Files
  /\ app' = OpenSummary(app, t)

\* A link in the view of a class or file, which waits in one place while a search has the
\* engine: navigate and navigate_manifest.
FollowLink(t) ==
  /\ app.selected \in Classes \cup Files
  /\ ~app.busy \/ app.searching
  /\ \/ app.engine /\ app' = Borrow(app, "link", t, app.selected)
     \/ /\ ~app.engine /\ app.searching
        /\ app' = [app EXCEPT !.queued = [target |-> t, origin |-> app.selected]]

\* A method of the call graph, which keeps its window whatever view is selected.
FollowGraph(t) ==
  /\ app.engine
  /\ app' = Borrow(app, "link", t, IF app.selected = Nothing THEN t ELSE app.selected)

CanHistory(forward) ==
  /\ ~app.busy /\ ~app.assetBusy /\ app.pending = Nothing /\ app.cancelled = Nothing
  /\ (IF forward THEN app.future ELSE app.history) # <<>>

\* go_history: a tab that still shows the location's source is used, any other is built.
GoHistory(forward) ==
  /\ CanHistory(forward)
  /\ LET list == IF forward THEN app.future ELSE app.history
         to == list[Len(list)]
         a == [app EXCEPT !.pending =
                 [to |-> to, origin |-> app.selected, forward |-> forward]]
     IN  \/ /\ to \in app.tabs
            /\ \E right \in BOOLEAN : app' = Finish([a EXCEPT !.selected = to], right)
         \/ /\ to \notin app.tabs \/ to \in Classes
            /\ IF to \in Files THEN app.archive ELSE app.engine
            /\ app' = Start(a, to)

SelectTab(t) ==
  /\ t \in app.tabs
  /\ app' = [GiveUp(app) EXCEPT !.selected = t, !.deferred = Nothing]

\* One tab, the others, or all of them but those that are pinned.
CloseTabs(closed) ==
  /\ closed # {} /\ closed \subseteq app.tabs
  /\ \E t \in (app.tabs \ closed) \cup {Nothing} :
       /\ IF app.selected \notin closed THEN t = app.selected
          ELSE t = Nothing <=> app.tabs = closed
       /\ app' = [GiveUp(app) EXCEPT !.tabs = @ \ closed, !.selected = t, !.deferred = Nothing]

\* A result of a search, whose source it brings along.
OpenHit(t) ==
  /\ app.project /\ (t \in Classes \/ (t \in Files /\ app.archive))
  /\ LET a == [GiveUp(app) EXCEPT !.deferred = Nothing]
     IN  app' \in {a, [Show(a, t) EXCEPT !.future = <<>>]}

StartSearch ==
  /\ app.project /\ app.engine /\ ~app.busy
  /\ app' = Borrow([app EXCEPT !.searching = TRUE], "search", Nothing, Nothing)

\* A call graph, an export of a view, or the links of a search result.
UseEngine ==
  /\ app.engine
  /\ app' = Borrow(app, "ready", Nothing, Nothing)

User ==
  \/ Open \/ StartSearch \/ UseEngine
  \/ \E t \in Targets : ChooseTarget(t) \/ SelectTab(t) \/ OpenHit(t)
  \/ \E t \in Classes : FollowLink(t) \/ FollowGraph(t)
  \/ \E t \in Summaries : ChooseSummary(t)
  \/ \E forward \in BOOLEAN : GoHistory(forward)
  \/ \E closed \in SUBSET app.tabs : CloseTabs(closed)

-----------------------------------------------------------------------------
(* The threads and their events *)

Taken(task) == [app EXCEPT !.tasks = @ \ {task}]

\* Fault: an event is handled whatever project it was started for.
HandledMutant(task, kinds) == task \in app.tasks /\ task.kind \in kinds

\* The guard of every event: it is of the project that is open.
Handled(task, kinds) == task \in app.tasks /\ task.kind \in kinds /\ Current(task)

\* An event of another project changes nothing.
Ignored(task) == task \in app.tasks /\ ~Current(task) /\ app' = Taken(task)

\* The archive is there before the classes, unless the project is a single DEX file.
ArchiveReady(task) ==
  /\ Handled(task, {"open"})
  /\ app' = [app EXCEPT !.archive = TRUE]

Opened(task) ==
  /\ Handled(task, {"open"})
  /\ LET a == [Taken(task) EXCEPT !.busy = FALSE]
     IN  app' \in {a, [a EXCEPT !.engine = TRUE, !.project = TRUE]}

SourceReady(task) ==
  /\ Handled(task, {"class"})
  /\ LET a == Return(Taken(task))
         b == Show(a, task.target)
     IN  IF a.cancelled = task.target THEN app' = Discard(a)
         ELSE \/ app' = Fail(a)
              \/ \E right \in BOOLEAN :
                   app' = IF b.pending = Nothing THEN b ELSE Finish(b, right)

Navigated(task) ==
  /\ Handled(task, {"link"})
  /\ LET a == IF task.engine THEN Return(Taken(task)) ELSE Taken(task)
     IN  app' \in {a, [Show(a, task.target) EXCEPT !.future = <<>>,
                                                   !.history = Push(@, task.origin)]}

\* A preview is shown, or decoded first if it is compiled XML and the engine is here.
AssetReady(task) ==
  /\ Handled(task, {"asset", "raw"})
  /\ LET a == [Taken(task) EXCEPT !.assetBusy = FALSE]
     IN  IF a.cancelled = task.target THEN app' = Discard(a)
         ELSE \/ app' = Fail(a)
              \/ \E right \in BOOLEAN : app' = PushTab(a, task.target, right)
              \/ /\ task.kind = "asset" /\ a.engine
                 /\ app' = Borrow(a, "resource", task.target, Nothing)

\* What cannot be decoded is previewed as it is.
ResourceReady(task) ==
  /\ Handled(task, {"resource"})
  /\ LET a == Return(Taken(task))
     IN  IF a.cancelled = task.target THEN app' = Discard(a)
         ELSE \/ app' = Fail(a)
              \/ \E right \in BOOLEAN : app' = PushTab(a, task.target, right)
              \/ app' = Spawn([a EXCEPT !.assetBusy = TRUE], "raw", task.target, Nothing, FALSE)

SummaryReady(task) ==
  /\ Handled(task, {"summary"})
  /\ LET a == Return(Taken(task)) IN app' \in {a, PushTab(a, task.target, TRUE)}

\* The engine comes back with nothing else that matters to the jumps.
EngineReady(task) ==
  /\ Handled(task, {"ready"})
  /\ app' = Return(Taken(task))

SearchDone(task) ==
  /\ Handled(task, {"search"})
  /\ app' = [Return(Taken(task)) EXCEPT !.searching = FALSE]

\* The search serves the link that waits between two batches.
SearchServes(task) ==
  /\ Handled(task, {"search"}) /\ app.queued # Nothing
  /\ app' = Spawn([app EXCEPT !.queued = Nothing], "link", app.queued.target,
                  app.queued.origin, FALSE)

\* After the search, a thread of the window does, and sends the engine back afterwards.
ServeQueued ==
  /\ ~app.busy \/ app.searching
  /\ app.engine /\ app.queued # Nothing
  /\ LET a == Borrow([app EXCEPT !.queued = Nothing], "ready", Nothing, Nothing)
     IN  app' = Spawn(a, "link", app.queued.target, app.queued.origin, FALSE)

\* An XML preview from before the project was loaded is decoded after all.
RefreshPreview(t) ==
  /\ t \in app.tabs \cap Files /\ ~app.busy /\ ~app.assetBusy /\ app.engine
  /\ app' = Borrow(app, "ready", Nothing, Nothing)

Deliver(task) ==
  \/ Ignored(task) \/ Opened(task) \/ SourceReady(task) \/ Navigated(task)
  \/ AssetReady(task) \/ ResourceReady(task) \/ SummaryReady(task) \/ EngineReady(task)
  \/ SearchDone(task)

Events ==
  \/ ServeQueued
  \/ \E t \in Files : RefreshPreview(t)
  \/ \E task \in app.tasks : Deliver(task) \/ ArchiveReady(task) \/ SearchServes(task)

WindowNext == User \/ Events

WindowSpec == WindowInit /\ [][WindowNext]_app

-----------------------------------------------------------------------------
(* Properties *)

Borrowers == {task \in app.tasks : Current(task) /\ task.engine}

(* The engine of the open project is never lost and never there twice: either the window
   has it, or exactly one thread that works for this project, and only then it is busy. *)
EngineOnce ==
  app.project =>
    /\ Cardinality(Borrowers) = IF app.engine THEN 0 ELSE 1
    /\ app.busy <=> ~app.engine

Serving(t) ==
  \E task \in app.tasks :
    Current(task) /\ task.target = t /\ task.kind \in {"class", "asset", "raw", "resource"}

(* A jump to a class or file that is awaited, or that was given up, has a thread whose
   event will end it: the arrows and the tree do not wait for nothing. *)
JumpsServed ==
  \A t \in Classes \cup Files :
    t = app.cancelled \/ (app.pending # Nothing /\ t = app.pending.to) => Serving(t)

(* The assertion "history stalled" of the tests in ui.rs, for every view: when nothing runs
   for the project any more, no jump is awaited. *)
JumpsEnd ==
  (\A task \in app.tasks : ~Current(task)) => app.pending = Nothing /\ app.cancelled = Nothing
=============================================================================
