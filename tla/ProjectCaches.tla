---------------------------- MODULE ProjectCaches ----------------------------
(***************************************************************************)
(* The caches of a project that share one RetainedBudget: a SourceCache of *)
(* rendered classes in every engine (engine/source_cache.rs and            *)
(* decompile_shared in engine.rs), and the one index of identifiers        *)
(* (Cache in identifier_search.rs).                                        *)
(*                                                                         *)
(* A document or index is named by the reservation that charges it.  Each  *)
(* thread has an engine, a clone that shares documents and the budget with *)
(* the others but has a source cache of its own, and searches identifiers  *)
(* without it.  Every step is one operation on the shared state.           *)
(***************************************************************************)
EXTENDS RetainedBudget, SequencesExt

CONSTANTS
  None,
  Classes,
  CacheEntries,  \* SourceCache::limit, 8
  CacheBytes     \* SourceCache::budget, 64 MiB

ASSUME CachesAssumption ==
  /\ None \notin Threads \cup Reservations \cup Classes
  /\ CacheEntries \in Nat /\ CacheBytes \in Nat

VARIABLES
  cache,     \* for each engine, its documents, the least recently used first
  job,       \* for each thread, what it does and which document or index it was given
  index,     \* the index of identifiers, once it is there
  lock,      \* who builds the index
  streaming  \* the index does not fit: identifiers are searched class by class

local == <<cache, job, index, lock, streaming>>

Resting == [at |-> "idle", class |-> None, bytes |-> 0, code |-> None, drop |-> None,
            from |-> None, cancelled |-> FALSE]

Steps == {"idle", "charging", "emptying", "recharging", "storing", "reading", "trimming",
          "copying", "polling", "building", "publishing"}

Document == [class : Classes, code : Reservations]
Job == [at : Steps, class : Classes \cup {None}, bytes : Sizes \cup {0},
        code : Reservations \cup {None}, drop : Reservations \cup {None},
        from : Threads \cup {None}, cancelled : BOOLEAN]

CachesTypeOK ==
  /\ cache \in [Threads -> Seq(Document)]
  /\ job \in [Threads -> Job]
  /\ index \in Reservations \cup {None}
  /\ lock \in Threads \cup {None}
  /\ streaming \in BOOLEAN

CachesInit ==
  /\ Init
  /\ cache = [t \in Threads |-> <<>>]
  /\ job = [t \in Threads |-> Resting]
  /\ index = None /\ lock = None /\ streaming = FALSE

\* A thread whose drop of the last owner has not given back the bytes does nothing else.
At(t, step) == job[t].at = step /\ job[t].drop = None
Become(t, next) == job' = [job EXCEPT ![t] = next]
GoTo(t, step) == Become(t, [job[t] EXCEPT !.at = step])

\* An owner of r is dropped on the way to another step.
Owning(j, r) == [j EXCEPT !.drop = IF owners[r] = 1 THEN r ELSE None]

GiveBack(t) ==
  /\ job[t].drop # None
  /\ Drop(job[t].drop)
  /\ Become(t, [job[t] EXCEPT !.drop = None])
  /\ UNCHANGED <<cache, index, lock, streaming>>

\* The caller is done with what it was given.
Forget(t) ==
  /\ At(t, "reading")
  /\ IF job[t].code = None THEN /\ Become(t, Resting)
                                /\ UNCHANGED vars
     ELSE /\ Disown(job[t].code)
          /\ Become(t, Owning(Resting, job[t].code))
  /\ UNCHANGED <<cache, index, lock, streaming>>

-----------------------------------------------------------------------------
(* The source cache of an engine *)

Cached(t) == {cache[t][i].class : i \in 1..Len(cache[t])}
Bytes(t) == Total([i \in 1..Len(cache[t]) |-> charge[cache[t][i].code]])

\* The engine is cloned by a thread that borrows it, for its copy.
Lent(t) == \E u \in Threads : job[u].from = t

\* get: the document moves to the end, and the caller shares it.
Hit(t, i) ==
  /\ At(t, "idle") /\ ~Lent(t) /\ i \in 1..Len(cache[t])
  /\ Clone(cache[t][i].code)
  /\ cache' = [cache EXCEPT ![t] = Append(RemoveAt(@, i), @[i])]
  /\ Become(t, [job[t] EXCEPT !.at = "reading", !.code = cache[t][i].code])
  /\ UNCHANGED <<index, lock, streaming>>

\* The class is rendered, and its document of so many bytes charged.
Render(t, class, bytes) ==
  /\ At(t, "idle") /\ ~Lent(t) /\ class \notin Cached(t)
  /\ Load(t, bytes)
  /\ Become(t, [job[t] EXCEPT !.at = "charging", !.class = class, !.bytes = bytes])
  /\ UNCHANGED <<cache, index, lock, streaming>>

\* There is no room: the cache of this engine is emptied, and the charge tried once more.
NoRoom(t) ==
  /\ At(t, "charging") /\ job[t].class # None
  /\ Refuse(t) /\ GoTo(t, "emptying")
  /\ UNCHANGED <<cache, index, lock, streaming>>

ChargeAgain(t) ==
  /\ At(t, "emptying") /\ cache[t] = <<>>
  /\ Load(t, job[t].bytes) /\ GoTo(t, "recharging")
  /\ UNCHANGED <<cache, index, lock, streaming>>

\* Fault: the document is kept all the same.
ServeUnchargedMutant(t) ==
  /\ At(t, "recharging")
  /\ Refuse(t) /\ GoTo(t, "reading")
  /\ cache' = [cache EXCEPT ![t] = Append(@, [class |-> job[t].class, code |-> None])]
  /\ UNCHANGED <<index, lock, streaming>>

\* The document is served all the same, without a charge and past the cache.
ServeUncharged(t) ==
  /\ At(t, "recharging")
  /\ Refuse(t) /\ GoTo(t, "reading")
  /\ UNCHANGED <<cache, index, lock, streaming>>

ChargeDocument(t, r) ==
  /\ \/ At(t, "charging") /\ job[t].class # None
     \/ At(t, "recharging")
  /\ Exchange(t, r)
  /\ Become(t, [job[t] EXCEPT !.at = "storing", !.code = r])
  /\ UNCHANGED <<cache, index, lock, streaming>>

Crowded(t) == Len(cache[t]) >= CacheEntries \/ Bytes(t) + job[t].bytes > CacheBytes

Storable(t) == job[t].bytes <= CacheBytes /\ CacheEntries > 0

\* trim(0) and the loop of insert: the least recently used document goes.
Evict(t) ==
  /\ \/ At(t, "emptying") \/ At(t, "trimming")
     \/ At(t, "storing") /\ Storable(t) /\ Crowded(t)
  /\ cache[t] # <<>>
  /\ Disown(Head(cache[t]).code)
  /\ Become(t, Owning(job[t], Head(cache[t]).code))
  /\ cache' = [cache EXCEPT ![t] = Tail(@)]
  /\ UNCHANGED <<index, lock, streaming>>

Store(t) ==
  /\ At(t, "storing") /\ Storable(t) /\ ~Crowded(t)
  /\ Clone(job[t].code) /\ GoTo(t, "reading")
  /\ cache' = [cache EXCEPT ![t] = Append(@, [class |-> job[t].class, code |-> job[t].code])]
  /\ UNCHANGED <<index, lock, streaming>>

TooLarge(t) ==
  /\ At(t, "storing") /\ ~Storable(t)
  /\ GoTo(t, "reading")
  /\ UNCHANGED <<vars, cache, index, lock, streaming>>

\* The window trims the cache to make room for tabs, or the engine is dropped.
Trim(t) ==
  /\ At(t, "idle") /\ ~Lent(t) /\ cache[t] # <<>>
  /\ GoTo(t, "trimming")
  /\ UNCHANGED <<vars, cache, index, lock, streaming>>

\* An engine is cloned with its cache for a search or a request.
BeginCopy(t, u) ==
  /\ At(t, "idle") /\ cache[t] = <<>> /\ ~Lent(t)
  /\ t # u /\ At(u, "idle") /\ cache[u] # <<>>
  /\ Become(t, [job[t] EXCEPT !.at = "copying", !.from = u])
  /\ UNCHANGED <<vars, cache, index, lock, streaming>>

Copy(t) ==
  /\ At(t, "copying")
  /\ LET source == cache[job[t].from]
         i == Len(cache[t]) + 1
     IN  /\ i <= Len(source)
         /\ Clone(source[i].code)
         /\ cache' = [cache EXCEPT ![t] = Append(@, source[i])]
         /\ Become(t, IF i = Len(source) THEN Resting ELSE job[t])
  /\ UNCHANGED <<index, lock, streaming>>

EndTrim(t) ==
  /\ At(t, "trimming") /\ cache[t] = <<>>
  /\ GoTo(t, "idle")
  /\ UNCHANGED <<vars, cache, index, lock, streaming>>

SourceStep(t) ==
  \/ \E i \in 1..Len(cache[t]) : Hit(t, i)
  \/ \E class \in Classes, bytes \in Sizes : Render(t, class, bytes)
  \/ NoRoom(t) \/ ChargeAgain(t) \/ ServeUncharged(t)
  \/ \E r \in Reservations : ChargeDocument(t, r)
  \/ Evict(t) \/ Store(t) \/ TooLarge(t) \/ Trim(t) \/ EndTrim(t)
  \/ \E u \in Threads : BeginCopy(t, u)
  \/ Copy(t)

-----------------------------------------------------------------------------
(* The index of identifiers *)

\* Without an index the request streams, at once or when it gets to build.
Query(t) ==
  /\ At(t, "idle") /\ ~Lent(t) /\ ~streaming
  /\ GoTo(t, "polling")
  /\ UNCHANGED <<vars, cache, index, lock, streaming>>

\* The request is cancelled, by its caller or at its deadline.
Cancel(t) ==
  /\ job[t].at \in {"polling", "building"}
  /\ Become(t, [job[t] EXCEPT !.cancelled = TRUE])
  /\ UNCHANGED <<vars, cache, index, lock, streaming>>

StopPolling(t) ==
  /\ At(t, "polling") /\ job[t].cancelled
  /\ Become(t, Resting)
  /\ UNCHANGED <<vars, cache, index, lock, streaming>>

\* try_lock succeeds, and the index is there.
ShareIndex(t) ==
  /\ At(t, "polling") /\ ~job[t].cancelled /\ lock = None /\ index # None
  /\ Clone(index)
  /\ Become(t, [job[t] EXCEPT !.at = "reading", !.code = index])
  /\ UNCHANGED <<cache, index, lock, streaming>>

\* Fault: whoever gets the lock builds, also after an overflow.
MayBuildMutant == TRUE

\* The closure of search_with_budget looks again whether an overflow was met since.
MayBuild == ~streaming

BeginBuild(t) ==
  /\ At(t, "polling") /\ ~job[t].cancelled /\ lock = None /\ index = None
  /\ IF MayBuild THEN lock' = t /\ GoTo(t, "building")
                 ELSE UNCHANGED lock /\ Become(t, Resting)
  /\ UNCHANGED <<vars, cache, index, streaming>>

\* Index::build returns an index, which is charged if the request still wants it.
Built(t, bytes) ==
  /\ At(t, "building") /\ ~job[t].cancelled
  /\ Load(t, bytes)
  /\ GoTo(t, "charging")
  /\ UNCHANGED <<cache, index, lock, streaming>>

\* It is too large, fails, panics, or was cancelled: the lock is free for the next.
NotBuilt(t) ==
  /\ At(t, "building")
  /\ \/ UNCHANGED streaming
     \/ streaming' = TRUE
  /\ lock' = None /\ Become(t, Resting)
  /\ UNCHANGED <<vars, cache, index>>

Overflow(t) ==
  /\ At(t, "charging") /\ job[t].class = None
  /\ Refuse(t)
  /\ streaming' = TRUE /\ lock' = None /\ Become(t, Resting)
  /\ UNCHANGED <<cache, index>>

ChargeIndex(t, r) ==
  /\ At(t, "charging") /\ job[t].class = None
  /\ Exchange(t, r)
  /\ Become(t, [job[t] EXCEPT !.at = "publishing", !.code = r])
  /\ UNCHANGED <<cache, index, lock, streaming>>

Publish(t) ==
  /\ At(t, "publishing")
  /\ Clone(job[t].code) /\ GoTo(t, "reading")
  /\ index' = job[t].code /\ lock' = None
  /\ UNCHANGED <<cache, streaming>>

IndexStep(t) ==
  \/ Query(t) \/ Cancel(t) \/ StopPolling(t) \/ ShareIndex(t) \/ BeginBuild(t)
  \/ \E bytes \in Sizes : Built(t, bytes)
  \/ NotBuilt(t) \/ Overflow(t) \/ Publish(t)
  \/ \E r \in Reservations : ChargeIndex(t, r)

CompareAgain(t) == Retry(t) /\ UNCHANGED local

CachesNext ==
  \E t \in Threads :
    SourceStep(t) \/ IndexStep(t) \/ CompareAgain(t) \/ GiveBack(t) \/ Forget(t)

CachesSpec == CachesInit /\ [][CachesNext]_<<vars, local>>

-----------------------------------------------------------------------------
(* Properties *)

(* Only charged documents are kept, also when the budget is exhausted and documents are
   served past the cache, while others evict, clone and read; and a source cache keeps
   within both of its own limits and holds a class once. *)
CacheBounded ==
  \A t \in Threads :
    /\ \A i \in 1..Len(cache[t]) :
         cache[t][i].code # None /\ state[cache[t][i].code] = "held"
    /\ Len(cache[t]) <= CacheEntries /\ Bytes(t) <= CacheBytes
    /\ Cardinality(Cached(t)) = Len(cache[t])

\* A job at work on the index.
Builds(j) == j.at \in {"building", "publishing"} \/ (j.at = "charging" /\ j.class = None)

(* The requests that poll for the lock build the index in turns: the lock belongs to the
   one that builds, charges or publishes an index that is not there yet, so one that is
   cancelled, fails or panics has left it free for the next.  And an index that does not
   fit is never built again: once a request has met the overflow, those that wait for the
   lock do not repeat the build, and there is no index after all. *)
BuildersTakeTurns ==
  /\ \A t \in Threads : Builds(job[t]) <=> lock = t
  /\ lock # None => index = None
  /\ streaming => index = None /\ lock = None
=============================================================================
