-------------------------- MODULE ExportJobsProofs --------------------------
(***************************************************************************)
(* Proofs about ExportJobs for any number of requests and jobs: one        *)
(* session at a time, live workers stay in the map, and a stop reaches     *)
(* every worker.                                                           *)
(*                                                                         *)
(* The invariant says who holds the mutex, what the worker of each job     *)
(* still owns, and what a start knows at each of its steps: between its    *)
(* check of the done flags and its insertion no other worker is live,      *)
(* because workers enter the map before the mutex is released.             *)
(***************************************************************************)
EXTENDS ExportJobs, FiniteSetTheorems, TLAPS

CallerState ==
  [at : Places, job : Jobs \cup {Nobody}, status : Statuses, finished : BOOLEAN]

\* TypeOK without the size of the map.
Typed ==
  /\ stopped \in BOOLEAN
  /\ stopper \in {"away", "locking", "done"}
  /\ mutex \in Callers \cup {Stopper, Nobody}
  /\ jobs \subseteq Jobs
  /\ caller \in [Callers -> CallerState]
  /\ worker \in [Jobs -> Steps]
  /\ verdict \in [Jobs -> Statuses]
  /\ session \subseteq Jobs
  /\ progress \in [Jobs -> Statuses]
  /\ cancel \in [Jobs -> BOOLEAN]
  /\ done \in [Jobs -> BOOLEAN]

\* The map has room for the job that is about to be inserted.
Bounded ==
  /\ Cardinality(jobs) <= MaxRetained
  /\ \A c \in Callers : At(c, "inserting") => Cardinality(jobs) <= MaxRetained - 1

\* A request is under way exactly while it holds the mutex.
Exclusive ==
  /\ mutex # Stopper
  /\ \A c \in Callers : At(c, "away") <=> mutex # c

\* Which requests have a job.
JobNamed ==
  \A c \in Callers :
    caller[c].job = Nobody <=> caller[c].at \in {"away", "starting", "allowed", "opening"}

\* What a job owns at each step of its worker.
WorkerOwns ==
  \A j \in Jobs :
    /\ done[j] => worker[j] = "ended"
    /\ worker[j] \in {"flagging", "ended"} => j \notin session
    /\ worker[j] = "none" => j \notin jobs
    /\ j \in session /\ worker[j] = "none" =>
         \E c \in Callers : At(c, "spawning") /\ caller[c].job = j

\* What a start relies on.
Starting ==
  \A c \in Callers :
    /\ At(c, "opening") => \A j \in Jobs : j \notin Live /\ j \notin session
    /\ At(c, "spawning") =>
         /\ worker[caller[c].job] = "none"
         /\ \A j \in Jobs : j \notin Live /\ (j \in session => j = caller[c].job)
    /\ At(c, "inserting") => worker[caller[c].job] # "none"
    /\ At(c, "inserting") => \A j \in Live : j = caller[c].job

OneLive == \A j, k \in Live : j = k

\* A live worker is in the map, or its start is about to insert it.
Listed ==
  \A j \in Live : j \in jobs \/ \E c \in Callers : At(c, "inserting") /\ caller[c].job = j

\* A stop is under way exactly when the flag is set.
StopFlagged == stopped <=> stopper # "away"

Control ==
  /\ Exclusive
  /\ JobNamed
  /\ WorkerOwns
  /\ Starting
  /\ OneLive
  /\ Listed
  /\ StopFlagged
  /\ StopReachesAll

IInv == Typed /\ Bounded /\ Control

-----------------------------------------------------------------------------

LEMMA InitIInv == Init => IInv
<1> SUFFICES ASSUME Init PROVE IInv
  OBVIOUS
<1>1. Typed
  BY JobsAssumption DEF Init, Typed, CallerState, Away, Places, Steps, Statuses, Final
<1>2. Bounded
  BY FS_EmptySet, JobsAssumption DEF Init, Bounded, At, Away
<1>3. Control
  BY JobsAssumption DEF Init, Control, Exclusive, JobNamed, WorkerOwns, Starting, OneLive,
     Listed, StopFlagged, StopReachesAll, Live, At, Away
<1> QED
  BY <1>1, <1>2, <1>3 DEF IInv

-----------------------------------------------------------------------------
(* What a step of a request does to its record *)

LEMMA GoesFacts ==
  ASSUME Typed, NEW c \in Callers, NEW place \in Places, Goes(c, place)
  PROVE  /\ caller' \in [Callers -> CallerState]
         /\ caller'[c].at = place
         /\ caller'[c].job = caller[c].job
         /\ \A d \in Callers \ {c} : caller'[d] = caller[d]
<1>1. caller[c] \in CallerState
  BY DEF Typed
<1>2. [caller[c] EXCEPT !.at = place] \in CallerState
  BY <1>1, Zenon DEF CallerState
<1>3. caller' = [caller EXCEPT ![c] = [caller[c] EXCEPT !.at = place]]
  BY DEF Goes
<1>4. /\ caller' \in [Callers -> CallerState]
      /\ caller'[c] = [caller[c] EXCEPT !.at = place]
      /\ \A d \in Callers \ {c} : caller'[d] = caller[d]
  BY <1>2, <1>3, Zenon DEF Typed
<1>5. /\ [caller[c] EXCEPT !.at = place].at = place
      /\ [caller[c] EXCEPT !.at = place].job = caller[c].job
  BY <1>1 DEF CallerState
<1> QED
  BY <1>4, <1>5

LEMMA ReturnsFacts ==
  ASSUME Typed, NEW c \in Callers, Returns(c)
  PROVE  /\ caller' \in [Callers -> CallerState]
         /\ caller'[c].at = "away"
         /\ caller'[c].job = Nobody
         /\ \A d \in Callers \ {c} : caller'[d] = caller[d]
         /\ mutex' = Nobody
<1>1. Away \in CallerState
  BY DEF Away, CallerState, Places, Statuses
<1> QED
  BY <1>1 DEF Returns, Typed, Away

LEMMA TakesJobFacts ==
  ASSUME Typed, NEW c \in Callers, NEW place \in Places, NEW j \in Jobs,
         caller' = [caller EXCEPT ![c] = [@ EXCEPT !.at = place, !.job = j]]
  PROVE  /\ caller' \in [Callers -> CallerState]
         /\ caller'[c].at = place
         /\ caller'[c].job = j
         /\ \A d \in Callers \ {c} : caller'[d] = caller[d]
<1>1. caller[c] \in CallerState
  BY DEF Typed
<1>2. [caller[c] EXCEPT !.at = place, !.job = j] \in CallerState
  BY <1>1, Zenon DEF CallerState
<1>3. /\ caller' \in [Callers -> CallerState]
      /\ caller'[c] = [caller[c] EXCEPT !.at = place, !.job = j]
      /\ \A d \in Callers \ {c} : caller'[d] = caller[d]
  BY <1>2, Zenon DEF Typed
<1>4. /\ [caller[c] EXCEPT !.at = place, !.job = j].at = place
      /\ [caller[c] EXCEPT !.at = place, !.job = j].job = j
  BY <1>1 DEF CallerState
<1> QED
  BY <1>3, <1>4

LEMMA ReadsFacts ==
  ASSUME Typed, NEW c \in Callers, caller[c].job \in Jobs, Clone(c) \/ Look(c)
  PROVE  /\ caller' \in [Callers -> CallerState]
         /\ caller[c].at \in {"cloning", "looking"}
         /\ caller'[c].at \in {"looking", "answering"}
         /\ caller'[c].job = caller[c].job
         /\ \A d \in Callers \ {c} : caller'[d] = caller[d]
<1>1. caller[c] \in CallerState
  BY DEF Typed
<1>2. CASE Clone(c)
  <2> DEFINE r == [caller[c] EXCEPT !.at = "looking", !.status = progress[caller[c].job]]
  <2>1. progress[caller[c].job] \in Statuses /\ "looking" \in Places
    BY DEF Typed, Places
  <2>2. r \in CallerState
    BY <1>1, <2>1, Zenon DEF CallerState
  <2>3. r.at = "looking" /\ r.job = caller[c].job
    BY <1>1 DEF CallerState
  <2>4. caller' = [caller EXCEPT ![c] = r]
    BY <1>2 DEF Clone
  <2> HIDE DEF r
  <2> QED
    BY <1>2, <2>2, <2>3, <2>4 DEF Clone, At, Typed
<1>3. CASE Look(c)
  <2> DEFINE r == [caller[c] EXCEPT !.at = "answering", !.finished = done[caller[c].job]]
  <2>1. done[caller[c].job] \in BOOLEAN /\ "answering" \in Places
    BY DEF Typed, Places
  <2>2. r \in CallerState
    BY <1>1, <2>1, Zenon DEF CallerState
  <2>3. r.at = "answering" /\ r.job = caller[c].job
    BY <1>1 DEF CallerState
  <2>4. caller' = [caller EXCEPT ![c] = r]
    BY <1>3 DEF Look
  <2> HIDE DEF r
  <2> QED
    BY <1>3, <2>2, <2>3, <2>4 DEF Look, At, Typed
<1> QED
  BY <1>2, <1>3

-----------------------------------------------------------------------------
(* Each action preserves the types and the control state *)

LEMMA StartLockStep ==
  ASSUME IInv, NEW c \in Callers, StartLock(c)
  PROVE  Typed' /\ Control'
<1> USE JobsAssumption DEF IInv
<1>1. /\ caller' \in [Callers -> CallerState]
      /\ caller'[c].at = "starting" /\ caller'[c].job = caller[c].job
      /\ \A d \in Callers \ {c} : caller'[d] = caller[d]
  BY GoesFacts DEF StartLock, Places
<1>2. \A d \in Callers : caller[d].at = "away"
  BY DEF StartLock, Control, Exclusive, At
<1>3. \A j \in Live : j \in jobs
  BY <1>2 DEF Control, Listed, At
<1>4. mutex = Nobody /\ mutex' = c /\ caller[c].job = Nobody
  BY <1>2 DEF StartLock, Control, JobNamed
<1>5. Typed'
  BY <1>1, <1>2, <1>3, <1>4 DEF Typed, StartLock, job, Steps, Statuses, Final
<1>6. Control'
  BY <1>1, <1>2, <1>3, <1>4, SMTT(30) DEF Typed, CallerState, StartLock, job, Control, Exclusive,
     JobNamed, WorkerOwns, Starting, OneLive, Listed, StopFlagged, StopReachesAll, Live,
     At
<1> QED
  BY <1>5, <1>6

LEMMA InsertStep ==
  ASSUME IInv, NEW c \in Callers, Insert(c)
  PROVE  Typed' /\ Control'
<1> USE JobsAssumption DEF IInv
<1>1. /\ caller' \in [Callers -> CallerState]
      /\ caller'[c].at = "away" /\ caller'[c].job = Nobody
      /\ (\A d \in Callers \ {c} : caller'[d] = caller[d]) /\ mutex' = Nobody
  BY ReturnsFacts DEF Insert
<1>2. caller[c].job \in Jobs
  BY DEF Insert, JobNamed, Control, At, Typed, CallerState
<1>3. Typed'
  BY <1>1, <1>2 DEF Typed, Insert, job, Steps, Statuses, Final
<1>4. Control'
  BY <1>1, <1>2, SMTT(30) DEF Typed, CallerState, Insert, job, Control, Exclusive, JobNamed,
     WorkerOwns, Starting, OneLive, Listed, StopFlagged, StopReachesAll, Live, At
<1> QED
  BY <1>3, <1>4

LEMMA CheckStoppedStep ==
  ASSUME IInv, NEW c \in Callers, CheckStopped(c)
  PROVE  Typed' /\ Control'
<1> USE JobsAssumption DEF IInv
<1>1. stopped =>
      /\ caller' \in [Callers -> CallerState]
      /\ caller'[c].at = "away" /\ caller'[c].job = Nobody
      /\ (\A d \in Callers \ {c} : caller'[d] = caller[d]) /\ mutex' = Nobody
  BY ReturnsFacts DEF CheckStopped
<1>2. ~stopped =>
      /\ caller' \in [Callers -> CallerState]
      /\ caller'[c].at = "allowed" /\ caller'[c].job = caller[c].job
      /\ \A d \in Callers \ {c} : caller'[d] = caller[d]
  BY GoesFacts DEF CheckStopped, Places
<1>3. caller[c].job = Nobody /\ caller[c].at = "starting"
  BY DEF CheckStopped, JobNamed, Control, At
<1>4. Typed'
  BY <1>1, <1>2, <1>3 DEF Typed, CheckStopped, job, Steps, Statuses, Final
<1>5. Control'
  BY <1>1, <1>2, <1>3 DEF Typed, CallerState, CheckStopped, job, Control, Exclusive,
     JobNamed, WorkerOwns, Starting, OneLive, Listed, StopFlagged, StopReachesAll, Live,
     At
<1> QED
  BY <1>4, <1>5

LEMMA CheckBusyStep ==
  ASSUME IInv, NEW c \in Callers, CheckBusy(c)
  PROVE  Typed' /\ Control'
<1> USE JobsAssumption DEF IInv
<1>1. ~Idle =>
      /\ caller' \in [Callers -> CallerState]
      /\ caller'[c].at = "away" /\ caller'[c].job = Nobody
      /\ (\A d \in Callers \ {c} : caller'[d] = caller[d]) /\ mutex' = Nobody
  BY ReturnsFacts DEF CheckBusy
<1>2. Idle =>
      /\ caller' \in [Callers -> CallerState]
      /\ caller'[c].at = "opening" /\ caller'[c].job = caller[c].job
      /\ \A d \in Callers \ {c} : caller'[d] = caller[d]
  BY GoesFacts DEF CheckBusy, Places
<1>3. caller[c].job = Nobody /\ caller[c].at = "allowed" /\ mutex = c
  BY DEF CheckBusy, JobNamed, Exclusive, Control, At
<1>4. Idle => \A j \in Jobs : j \notin Live /\ j \notin session
  BY <1>3 DEF Idle, Live, Control, Listed, WorkerOwns, Exclusive, At, Typed, CallerState
<1>5. Typed'
  BY <1>1, <1>2, <1>3, <1>4 DEF Typed, CheckBusy, job, Steps, Statuses, Final
<1>6. Control'
  BY <1>1, <1>2, <1>3, <1>4, SMTT(30) DEF Typed, CallerState, CheckBusy, job, Control, Exclusive,
     JobNamed, WorkerOwns, Starting, OneLive, Listed, StopFlagged, StopReachesAll, Live,
     At
<1> QED
  BY <1>5, <1>6

LEMMA StatusLockStep ==
  ASSUME IInv, NEW c \in Callers, StatusLock(c)
  PROVE  Typed' /\ Control'
<1> USE JobsAssumption DEF IInv
<1>1. \A d \in Callers : caller[d].at = "away"
  BY DEF StatusLock, Control, Exclusive, At
<1>2. \A j \in Live : j \in jobs
  BY <1>1 DEF Control, Listed, At
<1>3. \E j \in jobs :
        /\ caller' \in [Callers -> CallerState]
        /\ caller'[c].at = "cloning" /\ caller'[c].job = j
        /\ \A d \in Callers \ {c} : caller'[d] = caller[d]
  BY TakesJobFacts DEF StatusLock, Places, Typed
<1>4. cancel' \in [Jobs -> BOOLEAN] /\ \A j \in Jobs : cancel[j] => cancel'[j]
  BY DEF StatusLock, Typed
<1>5. Typed'
  BY <1>1, <1>2, <1>3, <1>4 DEF Typed, StatusLock, Steps, Statuses, Final
<1>6. Control'
  BY <1>1, <1>2, <1>3, <1>4 DEF Typed, CallerState, StatusLock, Control, Exclusive,
     JobNamed, WorkerOwns, Starting, OneLive, Listed, StopFlagged, StopReachesAll, Live,
     At
<1> QED
  BY <1>5, <1>6

LEMMA CloneStep ==
  ASSUME IInv, NEW c \in Callers, Clone(c)
  PROVE  Typed' /\ Control'
<1> USE JobsAssumption DEF IInv
<1>1. caller[c].job \in Jobs /\ mutex = c
  BY DEF Clone, Control, Exclusive, JobNamed, At, Typed, CallerState
<1>2. /\ caller' \in [Callers -> CallerState]
      /\ caller[c].at \in {"cloning", "looking"}
      /\ caller'[c].at \in {"looking", "answering"}
      /\ caller'[c].job = caller[c].job
      /\ \A d \in Callers \ {c} : caller'[d] = caller[d]
  BY <1>1, ReadsFacts
<1>3. UNCHANGED <<service, job>>
  BY DEF Clone
<1>4. Typed'
  BY <1>1, <1>2, <1>3 DEF Typed, service, job, Steps, Statuses, Final
<1>5. Control'
  <2>1. Exclusive'
    BY <1>1, <1>2, <1>3 DEF Typed, CallerState, service, job, Control, Exclusive,
       JobNamed, WorkerOwns, Starting, OneLive, Listed, StopFlagged, StopReachesAll, Live,
       At
  <2>2. JobNamed'
    BY <1>1, <1>2, <1>3 DEF Typed, CallerState, service, job, Control, Exclusive,
       JobNamed, WorkerOwns, Starting, OneLive, Listed, StopFlagged, StopReachesAll, Live,
       At
  <2>3. WorkerOwns'
    BY <1>1, <1>2, <1>3 DEF Typed, CallerState, service, job, Control, Exclusive,
       JobNamed, WorkerOwns, Starting, OneLive, Listed, StopFlagged, StopReachesAll, Live,
       At
  <2>4. Starting'
    BY <1>1, <1>2, <1>3 DEF Typed, CallerState, service, job, Control, Exclusive,
       JobNamed, WorkerOwns, Starting, OneLive, Listed, StopFlagged, StopReachesAll, Live,
       At
  <2>5. OneLive'
    BY <1>1, <1>2, <1>3 DEF Typed, CallerState, service, job, Control, Exclusive,
       JobNamed, WorkerOwns, Starting, OneLive, Listed, StopFlagged, StopReachesAll, Live,
       At
  <2>6. Listed'
    BY <1>1, <1>2, <1>3 DEF Typed, CallerState, service, job, Control, Exclusive,
       JobNamed, WorkerOwns, Starting, OneLive, Listed, StopFlagged, StopReachesAll, Live,
       At
  <2>7. StopFlagged'
    BY <1>1, <1>2, <1>3 DEF Typed, CallerState, service, job, Control, Exclusive,
       JobNamed, WorkerOwns, Starting, OneLive, Listed, StopFlagged, StopReachesAll, Live,
       At
  <2>8. StopReachesAll'
    BY <1>1, <1>2, <1>3 DEF Typed, CallerState, service, job, Control, Exclusive,
       JobNamed, WorkerOwns, Starting, OneLive, Listed, StopFlagged, StopReachesAll, Live,
       At
  <2> QED
    BY <2>1, <2>2, <2>3, <2>4, <2>5, <2>6, <2>7, <2>8 DEF Control
<1> QED
  BY <1>4, <1>5

LEMMA LookStep ==
  ASSUME IInv, NEW c \in Callers, Look(c)
  PROVE  Typed' /\ Control'
<1> USE JobsAssumption DEF IInv
<1>1. caller[c].job \in Jobs /\ mutex = c
  BY DEF Look, Control, Exclusive, JobNamed, At, Typed, CallerState
<1>2. /\ caller' \in [Callers -> CallerState]
      /\ caller[c].at \in {"cloning", "looking"}
      /\ caller'[c].at \in {"looking", "answering"}
      /\ caller'[c].job = caller[c].job
      /\ \A d \in Callers \ {c} : caller'[d] = caller[d]
  BY <1>1, ReadsFacts
<1>3. UNCHANGED <<service, job>>
  BY DEF Look
<1>4. Typed'
  BY <1>1, <1>2, <1>3 DEF Typed, service, job, Steps, Statuses, Final
<1>5. Control'
  <2>1. Exclusive'
    BY <1>1, <1>2, <1>3 DEF Typed, CallerState, service, job, Control, Exclusive,
       JobNamed, WorkerOwns, Starting, OneLive, Listed, StopFlagged, StopReachesAll, Live,
       At
  <2>2. JobNamed'
    BY <1>1, <1>2, <1>3 DEF Typed, CallerState, service, job, Control, Exclusive,
       JobNamed, WorkerOwns, Starting, OneLive, Listed, StopFlagged, StopReachesAll, Live,
       At
  <2>3. WorkerOwns'
    BY <1>1, <1>2, <1>3 DEF Typed, CallerState, service, job, Control, Exclusive,
       JobNamed, WorkerOwns, Starting, OneLive, Listed, StopFlagged, StopReachesAll, Live,
       At
  <2>4. Starting'
    BY <1>1, <1>2, <1>3 DEF Typed, CallerState, service, job, Control, Exclusive,
       JobNamed, WorkerOwns, Starting, OneLive, Listed, StopFlagged, StopReachesAll, Live,
       At
  <2>5. OneLive'
    BY <1>1, <1>2, <1>3 DEF Typed, CallerState, service, job, Control, Exclusive,
       JobNamed, WorkerOwns, Starting, OneLive, Listed, StopFlagged, StopReachesAll, Live,
       At
  <2>6. Listed'
    BY <1>1, <1>2, <1>3 DEF Typed, CallerState, service, job, Control, Exclusive,
       JobNamed, WorkerOwns, Starting, OneLive, Listed, StopFlagged, StopReachesAll, Live,
       At
  <2>7. StopFlagged'
    BY <1>1, <1>2, <1>3 DEF Typed, CallerState, service, job, Control, Exclusive,
       JobNamed, WorkerOwns, Starting, OneLive, Listed, StopFlagged, StopReachesAll, Live,
       At
  <2>8. StopReachesAll'
    BY <1>1, <1>2, <1>3 DEF Typed, CallerState, service, job, Control, Exclusive,
       JobNamed, WorkerOwns, Starting, OneLive, Listed, StopFlagged, StopReachesAll, Live,
       At
  <2> QED
    BY <2>1, <2>2, <2>3, <2>4, <2>5, <2>6, <2>7, <2>8 DEF Control
<1> QED
  BY <1>4, <1>5

LEMMA SpawnStep ==
  ASSUME IInv, NEW c \in Callers, Spawn(c)
  PROVE  Typed' /\ Control'
<1> USE JobsAssumption DEF IInv
<1>1. /\ caller' \in [Callers -> CallerState]
      /\ caller'[c].at = "inserting" /\ caller'[c].job = caller[c].job
      /\ \A d \in Callers \ {c} : caller'[d] = caller[d]
  BY GoesFacts DEF Spawn, Places
<1>2. caller[c].job \in Jobs /\ mutex = c /\ caller[c].at = "spawning"
  BY DEF Spawn, Control, Exclusive, JobNamed, At, Typed, CallerState
<1>3. jobs' \subseteq jobs
  BY DEF Spawn, Evicted, Room
<1>4. Typed'
  BY <1>1, <1>2, <1>3 DEF Typed, Spawn, Steps, Statuses, Final
<1>5. Control'
  BY <1>1, <1>2, <1>3, SMTT(30) DEF Typed, CallerState, Spawn, Control, Exclusive, JobNamed,
     WorkerOwns, Starting, OneLive, Listed, StopFlagged, StopReachesAll, Live, At
<1> QED
  BY <1>4, <1>5

LEMMA SpawnFailedStep ==
  ASSUME IInv, NEW c \in Callers, SpawnFailed(c)
  PROVE  Typed' /\ Control'
<1> USE JobsAssumption DEF IInv
<1>1. /\ caller' \in [Callers -> CallerState]
      /\ caller'[c].at = "away" /\ caller'[c].job = Nobody
      /\ (\A d \in Callers \ {c} : caller'[d] = caller[d]) /\ mutex' = Nobody
  BY ReturnsFacts DEF SpawnFailed
<1>2. caller[c].job \in Jobs /\ mutex = c /\ caller[c].at = "spawning"
  BY DEF SpawnFailed, Control, Exclusive, JobNamed, At, Typed, CallerState
<1>3. jobs' \subseteq jobs
  BY DEF SpawnFailed, Evicted, Room
<1>4. Typed'
  BY <1>1, <1>2, <1>3 DEF Typed, SpawnFailed, Steps, Statuses, Final
<1>5. Control'
  <2>1. Exclusive'
    BY <1>1, <1>2, <1>3 DEF Typed, CallerState, SpawnFailed, Control, Exclusive, JobNamed,
       WorkerOwns, Starting, OneLive, Listed, StopFlagged, StopReachesAll, Live, At
  <2>2. JobNamed'
    BY <1>1, <1>2, <1>3 DEF Typed, CallerState, SpawnFailed, Control, Exclusive, JobNamed,
       WorkerOwns, Starting, OneLive, Listed, StopFlagged, StopReachesAll, Live, At
  <2>3. WorkerOwns'
    BY <1>1, <1>2, <1>3 DEF Typed, CallerState, SpawnFailed, Control, Exclusive, JobNamed,
       WorkerOwns, Starting, OneLive, Listed, StopFlagged, StopReachesAll, Live, At
  <2>4. Starting'
    BY <1>1, <1>2, <1>3 DEF Typed, CallerState, SpawnFailed, Control, Exclusive, JobNamed,
       WorkerOwns, Starting, OneLive, Listed, StopFlagged, StopReachesAll, Live, At
  <2>5. OneLive'
    BY <1>1, <1>2, <1>3 DEF Typed, CallerState, SpawnFailed, Control, Exclusive, JobNamed,
       WorkerOwns, Starting, OneLive, Listed, StopFlagged, StopReachesAll, Live, At
  <2>6. Listed'
    BY <1>1, <1>2, <1>3 DEF Typed, CallerState, SpawnFailed, Control, Exclusive, JobNamed,
       WorkerOwns, Starting, OneLive, Listed, StopFlagged, StopReachesAll, Live, At
  <2>7. StopFlagged'
    BY <1>1, <1>2, <1>3 DEF Typed, CallerState, SpawnFailed, Control, Exclusive, JobNamed,
       WorkerOwns, Starting, OneLive, Listed, StopFlagged, StopReachesAll, Live, At
  <2>8. StopReachesAll'
    BY <1>1, <1>2, <1>3 DEF Typed, CallerState, SpawnFailed, Control, Exclusive, JobNamed,
       WorkerOwns, Starting, OneLive, Listed, StopFlagged, StopReachesAll, Live, At
  <2> QED
    BY <2>1, <2>2, <2>3, <2>4, <2>5, <2>6, <2>7, <2>8 DEF Control
<1> QED
  BY <1>4, <1>5

LEMMA OpenSessionStep ==
  ASSUME IInv, NEW c \in Callers, OpenSession(c)
  PROVE  Typed' /\ Control'
<1> USE JobsAssumption DEF IInv
<1>1. caller[c].job = Nobody /\ mutex = c /\ caller[c].at = "opening"
  BY DEF OpenSession, Control, Exclusive, JobNamed, At
<1>2. \/ /\ session' = session /\ mutex' = Nobody
         /\ caller' \in [Callers -> CallerState]
         /\ caller'[c].at = "away" /\ caller'[c].job = Nobody
         /\ \A d \in Callers \ {c} : caller'[d] = caller[d]
      \/ \E j \in Jobs :
           /\ worker[j] = "none" /\ j \notin session
           /\ session' = session \cup {j} /\ mutex' = mutex
           /\ \A d \in Callers : caller[d].job # j
           /\ caller' \in [Callers -> CallerState]
           /\ caller'[c].at = "spawning" /\ caller'[c].job = j
           /\ \A d \in Callers \ {c} : caller'[d] = caller[d]
  BY ReturnsFacts, TakesJobFacts, ZenonT(30) DEF OpenSession, Places
<1>3. UNCHANGED <<stopped, stopper, jobs, worker, verdict, progress, cancel, done>>
  BY DEF OpenSession
<1>4. Typed'
  BY <1>1, <1>2, <1>3 DEF Typed, vars, Steps, Statuses, Final
<1>5. Control'
  BY <1>1, <1>2, <1>3, SMTT(30) DEF Typed, CallerState, vars, Control, Exclusive, JobNamed,
     WorkerOwns, Starting, OneLive, Listed, StopFlagged, StopReachesAll, Live, At
<1> QED
  BY <1>4, <1>5

LEMMA AnswerStep ==
  ASSUME IInv, NEW c \in Callers, Answer(c)
  PROVE  Typed' /\ Control'
<1> USE JobsAssumption DEF IInv
<1>1. /\ caller' \in [Callers -> CallerState]
      /\ caller'[c].at = "away" /\ caller'[c].job = Nobody
      /\ (\A d \in Callers \ {c} : caller'[d] = caller[d]) /\ mutex' = Nobody
  BY ReturnsFacts DEF Answer
<1>2. caller[c].at = "answering" /\ mutex = c
  BY DEF Answer, Exclusive, Control, At
<1>3. Typed'
  BY <1>1, <1>2 DEF Typed, Answer, job, Steps, Statuses, Final
<1>4. UNCHANGED <<stopped, stopper, jobs, worker, session, cancel, done>>
  BY DEF Answer, job
<1>5. Control'
  <2>1. Exclusive'
    BY <1>1, <1>2, <1>4 DEF Typed, Control, Exclusive, At
  <2>2. JobNamed'
    BY <1>1, <1>2, <1>4 DEF Control, JobNamed
  <2>3. WorkerOwns'
    BY <1>1, <1>2, <1>4 DEF Control, WorkerOwns, At
  <2>4. Starting'
    BY <1>1, <1>2, <1>4 DEF Control, Starting, Live, At
  <2>5. OneLive'
    BY <1>1, <1>2, <1>4 DEF Control, OneLive, Live
  <2>6. Listed'
    BY <1>1, <1>2, <1>4 DEF Control, Listed, Live, At
  <2>7. StopFlagged'
    BY <1>1, <1>2, <1>4 DEF Control, StopFlagged
  <2>8. StopReachesAll'
    BY <1>1, <1>2, <1>4 DEF Control, StopReachesAll, Live
  <2> QED
    BY <2>1, <2>2, <2>3, <2>4, <2>5, <2>6, <2>7, <2>8 DEF Control
<1> QED
  BY <1>3, <1>5

LEMMA RunEndsStep ==
  ASSUME IInv, NEW j \in Jobs, RunEnds(j)
  PROVE  Typed' /\ Control'
<1> USE JobsAssumption DEF IInv
<1>1. Typed'
  BY DEF Typed, RunEnds, WriteFails, service, Steps, Statuses, Final
<1>2. Control'
  BY DEF Typed, CallerState, RunEnds, WriteFails, service, Control, Exclusive, JobNamed,
     WorkerOwns, Starting, OneLive, Listed, StopFlagged, StopReachesAll, Live, At
<1> QED
  BY <1>1, <1>2

LEMMA PublishStep ==
  ASSUME IInv, NEW j \in Jobs, Publish(j)
  PROVE  Typed' /\ Control'
<1> USE JobsAssumption DEF IInv
<1>1. Typed'
  BY DEF Typed, Publish, WriteFails, service, Steps, Statuses, Final
<1>2. Control'
  BY DEF Typed, CallerState, Publish, WriteFails, service, Control, Exclusive, JobNamed,
     WorkerOwns, Starting, OneLive, Listed, StopFlagged, StopReachesAll, Live, At
<1> QED
  BY <1>1, <1>2

LEMMA CompleteStep ==
  ASSUME IInv, NEW j \in Jobs, Complete(j)
  PROVE  Typed' /\ Control'
<1> USE JobsAssumption DEF IInv
<1>1. Typed'
  BY DEF Typed, Complete, WriteFails, service, Steps, Statuses, Final
<1>2. Control'
  BY DEF Typed, CallerState, Complete, WriteFails, service, Control, Exclusive, JobNamed,
     WorkerOwns, Starting, OneLive, Listed, StopFlagged, StopReachesAll, Live, At
<1> QED
  BY <1>1, <1>2

LEMMA SettleStep ==
  ASSUME IInv, NEW j \in Jobs, Settle(j)
  PROVE  Typed' /\ Control'
<1> USE JobsAssumption DEF IInv
<1>1. Typed'
  BY DEF Typed, Settle, WriteFails, service, Steps, Statuses, Final
<1>2. Control'
  BY DEF Typed, CallerState, Settle, WriteFails, service, Control, Exclusive, JobNamed,
     WorkerOwns, Starting, OneLive, Listed, StopFlagged, StopReachesAll, Live, At
<1> QED
  BY <1>1, <1>2

LEMMA DropSessionStep ==
  ASSUME IInv, NEW j \in Jobs, DropSession(j)
  PROVE  Typed' /\ Control'
<1> USE JobsAssumption DEF IInv
<1>1. Typed'
  BY DEF Typed, DropSession, WriteFails, service, Steps, Statuses, Final
<1>2. Control'
  BY DEF Typed, CallerState, DropSession, WriteFails, service, Control, Exclusive,
     JobNamed, WorkerOwns, Starting, OneLive, Listed, StopFlagged, StopReachesAll, Live,
     At
<1> QED
  BY <1>1, <1>2

LEMMA SetDoneStep ==
  ASSUME IInv, NEW j \in Jobs, SetDone(j)
  PROVE  Typed' /\ Control'
<1> USE JobsAssumption DEF IInv
<1>1. Typed'
  BY DEF Typed, SetDone, WriteFails, service, Steps, Statuses, Final
<1>2. Control'
  BY DEF Typed, CallerState, SetDone, WriteFails, service, Control, Exclusive, JobNamed,
     WorkerOwns, Starting, OneLive, Listed, StopFlagged, StopReachesAll, Live, At
<1> QED
  BY <1>1, <1>2

LEMMA StoreStoppedStep ==
  ASSUME IInv, StoreStopped
  PROVE  Typed' /\ Control'
<1> USE JobsAssumption DEF IInv
<1>1. Typed'
  BY DEF Typed, StoreStopped, job, Steps, Statuses, Final
<1>2. Control'
  BY DEF Typed, CallerState, StoreStopped, job, Control, Exclusive, JobNamed, WorkerOwns,
     Starting, OneLive, Listed, StopFlagged, StopReachesAll, Live, At
<1> QED
  BY <1>1, <1>2

LEMMA CancelEveryStep ==
  ASSUME IInv, CancelEvery
  PROVE  Typed' /\ Control'
<1> USE JobsAssumption DEF IInv
<1>1. \A d \in Callers : caller[d].at = "away"
  BY DEF CancelEvery, Control, Exclusive, At
<1>2. \A j \in Live : j \in jobs
  BY <1>1 DEF Control, Listed, At
<1>3. Typed'
  BY <1>1, <1>2 DEF Typed, CancelEvery, job, Steps, Statuses, Final
<1>4. Control'
  BY <1>1, <1>2 DEF Typed, CallerState, CancelEvery, job, Control, Exclusive, JobNamed,
     WorkerOwns, Starting, OneLive, Listed, StopFlagged, StopReachesAll, Live, At
<1> QED
  BY <1>3, <1>4

-----------------------------------------------------------------------------
(* The size of the map *)

LEMMA MapFinite == Typed => IsFiniteSet(jobs) /\ Cardinality(jobs) \in Nat
<1> SUFFICES ASSUME Typed PROVE IsFiniteSet(jobs) /\ Cardinality(jobs) \in Nat
  OBVIOUS
<1>1. jobs \subseteq Jobs /\ IsFiniteSet(Jobs)
  BY JobsAssumption DEF Typed
<1>2. IsFiniteSet(jobs)
  BY <1>1, FS_Subset, Zenon
<1> QED
  BY <1>2, FS_CardinalityType, Zenon

\* What is left after an eviction has room for one more.
LEMMA EvictedRoom ==
  ASSUME Typed, NEW kept \in Evicted
  PROVE  /\ Cardinality(kept) \in Nat
         /\ Cardinality(kept) <= MaxRetained - 1
<1>1. /\ IsFiniteSet(jobs) /\ Cardinality(jobs) \in Nat
      /\ MaxRetained \in Nat \ {0}
  BY MapFinite, JobsAssumption
<1>2. kept \subseteq jobs
  BY DEF Evicted
<1>3. Cardinality(kept) \in Nat
  BY <1>1, <1>2, FS_Subset, FS_CardinalityType, Zenon
<1>4. CASE Cardinality(jobs) < MaxRetained
  BY <1>1, <1>3, <1>4 DEF Evicted
<1>5. CASE ~(Cardinality(jobs) < MaxRetained)
  BY <1>1, <1>3, <1>5 DEF Evicted, Room
<1> QED
  BY <1>3, <1>4, <1>5

LEMMA InsertBounded == ASSUME IInv, NEW c \in Callers, Insert(c) PROVE Bounded'
<1> USE JobsAssumption DEF IInv
<1>1. At(c, "inserting") /\ Cardinality(jobs) <= MaxRetained - 1
  BY DEF Insert, Bounded
<1>2. \A d \in Callers : d # c => caller[d].at = "away"
  BY <1>1 DEF Control, Exclusive, At
<1>3. jobs' = jobs \cup {caller[c].job}
  BY DEF Insert
<1>4. IsFiniteSet(jobs) /\ Cardinality(jobs) \in Nat
  BY MapFinite
<1>5. \/ Cardinality(jobs') = Cardinality(jobs)
      \/ Cardinality(jobs') = Cardinality(jobs) + 1
  BY <1>3, <1>4, FS_AddElement, Zenon
<1>6. \A d \in Callers : caller'[d].at = "away"
  BY <1>2, ReturnsFacts DEF Insert
<1> QED
  BY <1>1, <1>4, <1>5, <1>6 DEF Bounded, At

LEMMA StartBounded ==
  ASSUME IInv, NEW c \in Callers, Spawn(c) \/ SpawnFailed(c)
  PROVE  Bounded'
<1>1. jobs' \in Evicted
  BY DEF Spawn, SpawnFailed
<1>2. Cardinality(jobs') \in Nat /\ Cardinality(jobs') <= MaxRetained - 1
  BY <1>1, EvictedRoom DEF IInv
<1> QED
  BY <1>2, JobsAssumption DEF Bounded

\* Every other step leaves the map alone, and leads no request to its insertion.
LEMMA OtherBounded ==
  ASSUME IInv, jobs' = jobs,
         \A d \in Callers : caller'[d].at = "inserting" => caller[d].at = "inserting"
  PROVE  Bounded'
BY DEF IInv, Bounded, At

-----------------------------------------------------------------------------
(* The invariant and its consequences *)

LEMMA RequestStep ==
  ASSUME IInv, NEW c \in Callers, StartLock(c) \/ Start(c) \/ StatusLock(c) \/ Status(c)
  PROVE  IInv'
<1> USE DEF IInv
<1>1. CASE Insert(c)
  BY <1>1, InsertStep, InsertBounded
<1>2. CASE Spawn(c) \/ SpawnFailed(c)
  BY <1>2, SpawnStep, SpawnFailedStep, StartBounded
<1>3. CASE \/ StartLock(c) \/ CheckStopped(c) \/ CheckBusy(c)
           \/ OpenSession(c) \/ StatusLock(c) \/ Status(c)
  <2>1. Typed' /\ Control'
    BY <1>3, StartLockStep, CheckStoppedStep, CheckBusyStep, OpenSessionStep,
       StatusLockStep,
       CloneStep, LookStep, AnswerStep DEF Status
  <2>2. jobs' = jobs
    BY <1>3 DEF StartLock, CheckStopped, CheckBusy, OpenSession, StatusLock, Status,
       Clone, Look,
       Answer, service
  <2>3. \A d \in Callers : caller'[d].at = "inserting" => caller[d].at = "inserting"
    <3>1. CASE StartLock(c)
      BY <3>1, GoesFacts DEF StartLock, Places
    <3>2. CASE CheckStopped(c)
      BY <3>2, GoesFacts, ReturnsFacts DEF CheckStopped, Places
    <3>3. CASE CheckBusy(c)
      BY <3>3, GoesFacts, ReturnsFacts DEF CheckBusy, Places
    <3>4. CASE OpenSession(c)
      BY <3>4, ReturnsFacts, TakesJobFacts, ZenonT(30) DEF OpenSession, Places
    <3>5. CASE StatusLock(c)
      BY <3>5, TakesJobFacts, ZenonT(30) DEF StatusLock, Places, Typed
    <3>6. CASE Clone(c) \/ Look(c)
      <4>1. caller[c].job \in Jobs
        BY <3>6 DEF Clone, Look, Control, JobNamed, At, Typed, CallerState
      <4> QED
        BY <3>6, <4>1, ReadsFacts
    <3>7. CASE Answer(c)
      BY <3>7, ReturnsFacts DEF Answer
    <3> QED
      BY <1>3, <3>1, <3>2, <3>3, <3>4, <3>5, <3>6, <3>7 DEF Status
  <2> QED
    BY <2>1, <2>2, <2>3, OtherBounded
<1> QED
  BY <1>1, <1>2, <1>3 DEF Start

LEMMA WorkerStep ==
  ASSUME IInv, NEW j \in Jobs, RunEnds(j) \/ Finish(j)
  PROVE  IInv'
<1>1. Typed' /\ Control'
  BY RunEndsStep, PublishStep, CompleteStep, SettleStep, DropSessionStep,
     SetDoneStep DEF Finish
<1>2. UNCHANGED <<jobs, caller>>
  BY DEF RunEnds, Finish, Publish, Complete, Settle, DropSession, SetDone, service
<1> QED
  BY <1>1, <1>2, OtherBounded DEF IInv

LEMMA StopStep == ASSUME IInv, Stop PROVE IInv'
<1>1. Typed' /\ Control'
  BY StoreStoppedStep, CancelEveryStep DEF Stop
<1>2. UNCHANGED <<jobs, caller>>
  BY DEF Stop, StoreStopped, CancelEvery, job
<1> QED
  BY <1>1, <1>2, OtherBounded DEF IInv

LEMMA StutterStep == ASSUME IInv, UNCHANGED vars PROVE IInv'
<1> USE DEF IInv, vars, service, job
<1>1. Typed'
  BY DEF Typed
<1>2. Bounded'
  BY DEF Bounded, At
<1>3. Control'
  BY DEF Control, Exclusive, JobNamed, WorkerOwns, Starting, OneLive, Listed, StopFlagged,
     StopReachesAll, Live, At
<1> QED
  BY <1>1, <1>2, <1>3

\* The invariant is inductive.
THEOREM Invariance == Spec => []IInv
<1>1. IInv /\ [Next]_vars => IInv'
  BY RequestStep, WorkerStep, StopStep, StutterStep DEF Next
<1> QED
  BY InitIInv, <1>1, PTL DEF Spec

\* Type correctness: the state is well typed, and the map never keeps more than
\* its bound.
THEOREM TypeCorrect == Spec => []TypeOK
<1>1. IInv => TypeOK
  BY DEF IInv, Typed, Bounded, TypeOK, CallerState
<1> QED
  BY Invariance, <1>1, PTL

\* At most one export session of the project exists at a time, whatever starts,
\* workers and stops interleave.
THEOREM SessionsExclusive == Spec => []OneSession
<1>1. ASSUME IInv PROVE OneSession
  <2>1. \A j, k \in session : j = k
    BY <1>1 DEF IInv, Typed, Control, WorkerOwns, Starting, OneLive, Live, Exclusive, At
  <2>2. CASE session = {}
    BY <2>2, FS_EmptySet DEF OneSession
  <2>3. ASSUME NEW j \in session PROVE OneSession
    <3>1. session = {j}
      BY <2>1, <2>3
    <3>2. Cardinality(session) = 1
      BY <3>1, FS_Singleton
    <3> QED
      BY <3>2 DEF OneSession
  <2> QED
    BY <2>2, <2>3
<1> QED
  BY Invariance, <1>1, PTL

\* A worker whose start has returned stays in the map for as long as it lives,
\* so it can always be polled and cancelled.
THEOREM WorkersListed == Spec => []LiveListed
<1>1. IInv => LiveListed
  BY DEF IInv, Control, Exclusive, Listed, LiveListed, Live, At
<1> QED
  BY Invariance, <1>1, PTL

\* When cancel_all returns, every worker has been told to stop and no start can
\* add another one.
THEOREM StopComplete == Spec => []StopReachesAll
<1>1. IInv => StopReachesAll
  BY DEF IInv, Control
<1> QED
  BY Invariance, <1>1, PTL
=============================================================================
