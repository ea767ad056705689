----------------------------- MODULE ExportJobs -----------------------------
(***************************************************************************)
(* The export jobs of one served project (Controller in mcp_exports.rs).   *)
(*                                                                         *)
(* Request threads start, poll and cancel jobs; a mutex protects the map   *)
(* of jobs, and a start holds it from its checks to the insertion.  Each   *)
(* job has a worker thread, which only shares atomics and its progress     *)
(* with them.  A stopping server cancels every job, outside any request.   *)
(* What a session does with its directory is the subject of ExportSession. *)
(***************************************************************************)
EXTENDS Naturals, FiniteSets

CONSTANTS
  Nobody,      \* the mutex is free, or no job
  Stopper,     \* the server thread that calls cancel_all
  Callers,     \* request threads
  Jobs,        \* the identities jobs can get, one for each start
  MaxRetained  \* how many jobs the map keeps: 8

ASSUME JobsAssumption ==
  /\ IsFiniteSet(Jobs)
  /\ Nobody \notin Jobs \cup Callers \cup {Stopper}
  /\ Stopper \notin Callers
  /\ MaxRetained \in Nat \ {0}

VARIABLES
  stopped,  \* Controller::stopped
  stopper,  \* where cancel_all is
  mutex,    \* who holds the mutex of the map
  jobs,     \* the jobs in the map
  caller,   \* each request thread: where it is, its job, what it has read
  worker,   \* the worker thread of each job
  verdict,  \* the status the worker has decided on, before it is shown
  session,  \* the jobs whose session, and with it the directory lock, exists
  progress, \* Job::progress, its status
  cancel,   \* Job::cancel
  done      \* Job::done

service == <<stopped, stopper, mutex, jobs>>
job == <<worker, verdict, session, progress, cancel, done>>
vars == <<service, caller, job>>

Final == {"complete", "cancelled", "incomplete"}
Statuses == {"running"} \cup Final

Places == {"away", "starting", "allowed", "opening", "spawning", "inserting",
           "cloning", "looking", "answering"}
Steps == {"none", "running", "publishing", "completing", "settling", "dropping",
          "flagging", "ended"}

TypeOK ==
  /\ stopped \in BOOLEAN
  /\ stopper \in {"away", "locking", "done"}
  /\ mutex \in Callers \cup {Stopper, Nobody}
  /\ jobs \subseteq Jobs /\ Cardinality(jobs) <= MaxRetained
  /\ caller \in [Callers -> [at : Places, job : Jobs \cup {Nobody}, status : Statuses,
                             finished : BOOLEAN]]
  /\ worker \in [Jobs -> Steps]
  /\ verdict \in [Jobs -> Statuses]
  /\ session \subseteq Jobs
  /\ progress \in [Jobs -> Statuses]
  /\ cancel \in [Jobs -> BOOLEAN]
  /\ done \in [Jobs -> BOOLEAN]

Away == [at |-> "away", job |-> Nobody, status |-> "running", finished |-> FALSE]

Init ==
  /\ stopped = FALSE
  /\ stopper = "away"
  /\ mutex = Nobody
  /\ jobs = {}
  /\ caller = [c \in Callers |-> Away]
  /\ worker = [j \in Jobs |-> "none"]
  /\ verdict = [j \in Jobs |-> "running"]
  /\ session = {}
  /\ progress = [j \in Jobs |-> "running"]
  /\ cancel = [j \in Jobs |-> FALSE]
  /\ done = [j \in Jobs |-> FALSE]

At(c, place) == caller[c].at = place
Goes(c, place) == caller' = [caller EXCEPT ![c] = [@ EXCEPT !.at = place]]

\* The request ends and releases the mutex.
Returns(c) ==
  /\ mutex' = Nobody
  /\ caller' = [caller EXCEPT ![c] = Away]

-----------------------------------------------------------------------------
(* Controller::start *)

StartLock(c) ==
  /\ At(c, "away")
  /\ mutex = Nobody
  /\ mutex' = c
  /\ Goes(c, "starting")
  /\ UNCHANGED <<stopped, stopper, jobs, job>>

CheckStopped(c) ==
  /\ At(c, "starting")
  /\ IF stopped THEN Returns(c) ELSE Goes(c, "allowed") /\ UNCHANGED mutex
  /\ UNCHANGED <<stopped, stopper, jobs, job>>

\* Fault: one finished job is enough.
IdleAnyMutant == jobs = {} \/ \E j \in jobs : done[j]

Idle == \A j \in jobs : done[j]

CheckBusy(c) ==
  /\ At(c, "allowed")
  /\ IF Idle THEN Goes(c, "opening") /\ UNCHANGED mutex ELSE Returns(c)
  /\ UNCHANGED <<stopped, stopper, jobs, job>>

\* Session::open, which may fail, and the new job's metadata.
OpenSession(c) ==
  /\ At(c, "opening")
  /\ \/ \E j \in Jobs :
          /\ worker[j] = "none" /\ j \notin session
          /\ \A d \in Callers : caller[d].job # j
          /\ session' = session \cup {j}
          /\ caller' = [caller EXCEPT ![c] = [@ EXCEPT !.at = "spawning", !.job = j]]
          /\ UNCHANGED mutex
     \/ Returns(c) /\ UNCHANGED session
  /\ UNCHANGED <<stopped, stopper, jobs, worker, verdict, progress, cancel, done>>

\* while jobs.len() >= 8: entries are removed, in the order of random keys.
Room(kept) == Cardinality(kept) = MaxRetained - 1

Evicted ==
  IF Cardinality(jobs) < MaxRetained THEN {jobs} ELSE { kept \in SUBSET jobs : Room(kept) }

Spawn(c) ==
  /\ At(c, "spawning")
  /\ jobs' \in Evicted
  /\ worker' = [worker EXCEPT ![caller[c].job] = "running"]
  /\ Goes(c, "inserting")
  /\ UNCHANGED <<stopped, stopper, mutex, verdict, session, progress, cancel, done>>

\* The thread does not start: its closure drops the session.  The failure is
\* saved and reported; the identity is not used again.
SpawnFailed(c) ==
  /\ At(c, "spawning")
  /\ jobs' \in Evicted
  /\ session' = session \ {caller[c].job}
  /\ worker' = [worker EXCEPT ![caller[c].job] = "ended"]
  /\ Returns(c)
  /\ UNCHANGED <<stopped, stopper, verdict, progress, cancel, done>>

Insert(c) ==
  /\ At(c, "inserting")
  /\ jobs' = jobs \cup {caller[c].job}
  /\ Returns(c)
  /\ UNCHANGED <<stopped, stopper, job>>

Start(c) ==
  \/ CheckStopped(c) \/ CheckBusy(c)
  \/ OpenSession(c)
  \/ Spawn(c) \/ SpawnFailed(c)
  \/ Insert(c)

-----------------------------------------------------------------------------
(* Controller::status, for get_export_status and cancel_export *)

StatusLock(c) ==
  /\ At(c, "away")
  /\ mutex = Nobody
  /\ \E j \in jobs, request \in BOOLEAN :
       /\ mutex' = c
       /\ caller' = [caller EXCEPT ![c] = [@ EXCEPT !.at = "cloning", !.job = j]]
       /\ cancel' = [cancel EXCEPT ![j] = @ \/ request]
  /\ UNCHANGED <<stopped, stopper, jobs, worker, verdict, session, progress, done>>

\* The progress is cloned under its own mutex.
Clone(c) ==
  /\ At(c, "cloning")
  /\ LET status == progress[caller[c].job]
     IN caller' = [caller EXCEPT ![c] = [@ EXCEPT !.at = "looking", !.status = status]]
  /\ UNCHANGED <<service, job>>

\* worker_finished is read, and the answer is complete.
Look(c) ==
  /\ At(c, "looking")
  /\ LET finished == done[caller[c].job]
     IN caller' = [caller EXCEPT ![c] = [@ EXCEPT !.at = "answering", !.finished = finished]]
  /\ UNCHANGED <<service, job>>

Answer(c) ==
  /\ At(c, "answering")
  /\ Returns(c)
  /\ UNCHANGED <<stopped, stopper, jobs, job>>

Status(c) == Clone(c) \/ Look(c) \/ Answer(c)

-----------------------------------------------------------------------------
(* The worker: Session::run, Session::finish, and what follows them *)

\* run ends with every class written, or it does not.
RunEnds(j) ==
  /\ worker[j] = "running"
  /\ worker' = [worker EXCEPT ![j] = "publishing"]
  /\ verdict' \in { [verdict EXCEPT ![j] = v] :
                     v \in {"complete", IF cancel[j] THEN "cancelled" ELSE "incomplete"} }
  /\ UNCHANGED <<service, caller, session, progress, cancel, done>>

\* A write that fails makes the verdict "incomplete".
WriteFails(j) ==
  /\ worker' = [worker EXCEPT ![j] = "settling"]
  /\ verdict' = [verdict EXCEPT ![j] = "incomplete"]
  /\ UNCHANGED progress

\* publish saves the checkpoint and shows it.
Publish(j) ==
  /\ worker[j] = "publishing"
  /\ \/ /\ progress' = [progress EXCEPT ![j] = verdict[j]]
        /\ worker' = [worker EXCEPT ![j] = "completing"]
        /\ UNCHANGED verdict
     \/ WriteFails(j)
  /\ UNCHANGED <<service, caller, session, cancel, done>>

\* completion.json is written.
Complete(j) ==
  /\ worker[j] = "completing"
  /\ \/ worker' = [worker EXCEPT ![j] = "settling"] /\ UNCHANGED <<verdict, progress>>
     \/ WriteFails(j)
  /\ UNCHANGED <<service, caller, session, cancel, done>>

Settle(j) ==
  /\ worker[j] = "settling"
  /\ progress' = [progress EXCEPT ![j] = verdict[j]]
  /\ worker' = [worker EXCEPT ![j] = "dropping"]
  /\ UNCHANGED <<service, caller, verdict, session, cancel, done>>

\* Fault: the job is done before its session is dropped.
DropSessionLateMutant(j) ==
  /\ worker[j] = "dropping"
  /\ done' = [done EXCEPT ![j] = TRUE]
  /\ worker' = [worker EXCEPT ![j] = "flagging"]
  /\ UNCHANGED <<service, caller, verdict, session, progress, cancel>>

\* drop(session) releases the lock of the directory.
DropSession(j) ==
  /\ worker[j] = "dropping"
  /\ session' = session \ {j}
  /\ worker' = [worker EXCEPT ![j] = "flagging"]
  /\ UNCHANGED <<service, caller, verdict, progress, cancel, done>>

SetDone(j) ==
  /\ worker[j] = "flagging"
  /\ done' = [done EXCEPT ![j] = TRUE]
  /\ worker' = [worker EXCEPT ![j] = "ended"]
  /\ UNCHANGED <<service, caller, verdict, session, progress, cancel>>

Finish(j) == Publish(j) \/ Complete(j) \/ Settle(j) \/ DropSession(j) \/ SetDone(j)

-----------------------------------------------------------------------------
(* Controller::cancel_all, by the stopping server *)

StoreStopped ==
  /\ stopper = "away"
  /\ stopped' = TRUE
  /\ stopper' = "locking"
  /\ UNCHANGED <<mutex, jobs, caller, job>>

\* Fault: the map is not waited for.
CancelEveryUnlockedMutant ==
  /\ stopper = "locking"
  /\ cancel' = [j \in Jobs |-> cancel[j] \/ j \in jobs]
  /\ stopper' = "done"
  /\ UNCHANGED <<stopped, mutex, jobs, caller, worker, verdict, session, progress, done>>

\* Under the lock, so in one step, every job in the map is cancelled.
CancelEvery ==
  /\ stopper = "locking"
  /\ mutex = Nobody
  /\ cancel' = [j \in Jobs |-> cancel[j] \/ j \in jobs]
  /\ stopper' = "done"
  /\ UNCHANGED <<stopped, mutex, jobs, caller, worker, verdict, session, progress, done>>

Stop == StoreStopped \/ CancelEvery

Next ==
  \/ \E c \in Callers : StartLock(c) \/ Start(c) \/ StatusLock(c) \/ Status(c)
  \/ \E j \in Jobs : RunEnds(j) \/ Finish(j)
  \/ Stop

Spec == Init /\ [][Next]_vars

-----------------------------------------------------------------------------
(* Properties *)

Live == { j \in Jobs : worker[j] \notin {"none", "ended"} }

\* One export per project: never two sessions at once, so no start is refused
\* because of a lock that a finished job of the same project still holds.
OneSession == Cardinality(session) <= 1

\* A worker whose start has returned is in the map: it can be polled and
\* cancelled, and it is never evicted to make room for a later job.
LiveListed ==
  \A j \in Live : j \in jobs \/ (mutex \in Callers /\ caller[mutex].job = j)

\* Once cancel_all has returned, every worker has been told to stop and no
\* start is past its checks, whatever request was under way when it began.
StopReachesAll ==
  stopper = "done" =>
    /\ \A j \in Live : cancel[j]
    /\ \A c \in Callers : caller[c].at \notin {"allowed", "opening", "spawning", "inserting"}

=============================================================================
