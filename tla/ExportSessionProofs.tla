------------------------ MODULE ExportSessionProofs ------------------------
(***************************************************************************)
(* The directory of an export keeps its promises for any number of         *)
(* processes, classes, versions of the input, sessions and files that      *)
(* somebody else touches: what the checkpoint counts is there, no export   *)
(* mixes two inputs, no file is overwritten, and a reader sees a ledger    *)
(* that is never rolled back.                                              *)
(*                                                                         *)
(* The inductive invariant EInv says who may write (Exclusive), what the   *)
(* session that holds the lock knows of the manifest (Follows) and of the  *)
(* checkpoint (Synced), and that every session past its opening works on   *)
(* the directory of its own input (Owns).  Synced is what fails when       *)
(* worker threads do not start: their sessions write without the lock.     *)
(***************************************************************************)
EXTENDS ExportSession, SequenceTheorems, TLAPS

SessionState ==
  [at : Places, resume : BOOLEAN, loaded : Versions, state : Checkpoint,
   rendered : Rendered, ok : BOOLEAN, cancel : BOOLEAN]

Opened == {"clearing", "spawning", "validating"}
Working == {"classing", "rendering", "rendered", "publishing", "persisting", "journaling",
            "committing"}
Ending == {"finishing", "completing", "closing"}
Late == {"overwriting", "marking"}
Held == {"reading", "creating", "saving"} \cup Opened \cup Working \cup Ending
Loaded == {"saving"} \cup Opened \cup Working \cup Ending \cup Late

\* Only the sessions whose thread did not start write without the lock.
Exclusive == \A s \in Sessions : session[s].at \in Held <=> lock = s

Consistent(c) == c.bytes = c.next /\ c.exported + c.failed = c.next

\* Nothing is recorded before there is a checkpoint, and then only about its input.
Disk ==
  /\ checkpoint # Absent => manifest # Absent /\ Consistent(checkpoint)
  /\ checkpoint = Absent => manifest \in {Absent, <<>>}
  /\ OneInput
  /\ CancellationNotRecorded

\* A session works on the directory of its own input.
Owns(s) ==
  session[s].at \in Loaded =>
    /\ manifest # Absent
    /\ session[s].state.apk = session[s].loaded
    /\ Consistent(session[s].state)
    /\ checkpoint # Absent => checkpoint.apk = session[s].loaded
    /\ session[s].at # "saving" => checkpoint # Absent
    /\ session[s].at \notin {"completing", "closing"} => session[s].state.status = "running"

\* What it has in memory is how far the manifest goes.
Follows(s) ==
  /\ session[s].at \in Working \ {"committing"} => Len(manifest) = session[s].state.next
  /\ session[s].at \in Working \ {"classing"} => session[s].state.next < NumClasses
  /\ session[s].at \in {"publishing", "persisting"} => session[s].rendered = "source"
  /\ session[s].at \in {"journaling", "committing"} =>
       /\ session[s].rendered \in {"source", "failed"}
       /\ session[s].rendered = "source" /\ tampers = 0 => file[Current(s)] = session[s].loaded
  /\ session[s].at = "committing" =>
       Len(manifest) = Current(s) /\ manifest[Current(s)] = RecordOf(s)
  /\ session[s].at = "rendered" =>
       /\ session[s].rendered # "none"
       /\ session[s].rendered = "interrupted" => session[s].cancel
  /\ session[s].at = "finishing" /\ session[s].ok => session[s].state.next = NumClasses

\* What c counts is there.
Committed(c) ==
  /\ c.next <= Len(manifest)
  /\ \A i \in 1 .. c.next :
       /\ manifest[i].class = i /\ manifest[i].kind # "torn"
       /\ manifest[i].kind = "exported" /\ tampers = 0 => file[i] = manifest[i].content
       /\ c.failed = 0 => manifest[i].kind = "exported"

\* While threads start, the session that holds the lock knows what the checkpoint says.
Synced(s) ==
  /\ session[s].at \notin Late
  /\ session[s].at \in Loaded => Committed(session[s].state)
  /\ session[s].at = "saving" =>
       \/ checkpoint = Absent /\ session[s].state = Fresh(session[s].loaded)
       \/ /\ checkpoint # Absent /\ checkpoint.status # "complete"
          /\ session[s].state = [checkpoint EXCEPT !.status = "running"]
  /\ session[s].at \in Opened \cup Working => checkpoint = session[s].state
  /\ session[s].at = "finishing" =>
       /\ checkpoint.status = "running"
       /\ checkpoint.next = session[s].state.next \/ checkpoint.next + 1 = session[s].state.next
       /\ session[s].ok => checkpoint = session[s].state

Started == ~exhausted =>
  /\ checkpoint # Absent => Committed(checkpoint)
  /\ \A s \in Sessions : Synced(s)

EInv == TypeOK /\ Exclusive /\ Disk /\ (\A s \in Sessions : Owns(s) /\ Follows(s)) /\ Started

-----------------------------------------------------------------------------
(* How a step changes one session *)

\* Only the session s changes.
Alone(s) ==
  /\ session' \in [Sessions -> SessionState]
  /\ \A t \in Sessions \ {s} : session'[t] = session[t]

\* It remembers what it knew.
Remembers(s) ==
  /\ session'[s].resume = session[s].resume
  /\ session'[s].loaded = session[s].loaded
  /\ session'[s].state = session[s].state

LEMMA Becomes ==
  ASSUME TypeOK, NEW s \in Sessions, NEW r \in SessionState,
         session' = [session EXCEPT ![s] = r]
  PROVE  Alone(s) /\ session'[s] = r
BY DEF TypeOK, SessionState, Alone

LEMMA GoesAlone ==
  ASSUME TypeOK, NEW s \in Sessions, NEW place \in Places, Goes(s, place)
  PROVE  /\ Alone(s) /\ Remembers(s) /\ session'[s].at = place
         /\ session'[s].rendered = session[s].rendered
         /\ session'[s].ok = session[s].ok /\ session'[s].cancel = session[s].cancel
<1> DEFINE r == [session[s] EXCEPT !.at = place]
<1>1. /\ r \in SessionState /\ r.at = place
      /\ r.resume = session[s].resume /\ r.loaded = session[s].loaded
      /\ r.state = session[s].state /\ r.rendered = session[s].rendered
      /\ r.ok = session[s].ok /\ r.cancel = session[s].cancel
  BY DEF TypeOK, SessionState
<1>2. session' = [session EXCEPT ![s] = r]
  BY DEF Goes
<1> HIDE DEF r
<1> QED
  BY <1>1, <1>2, Becomes DEF Remembers

LEMMA FailsAlone ==
  ASSUME TypeOK, NEW s \in Sessions, Fails(s)
  PROVE  /\ Alone(s) /\ Remembers(s) /\ session'[s].at = "finishing"
         /\ session'[s].ok = FALSE
<1> DEFINE r == [session[s] EXCEPT !.at = "finishing", !.ok = FALSE]
<1>1. /\ r \in SessionState /\ r.at = "finishing" /\ r.ok = FALSE
      /\ r.resume = session[s].resume /\ r.loaded = session[s].loaded
      /\ r.state = session[s].state /\ r.rendered = session[s].rendered
  BY DEF TypeOK, SessionState, Places
<1>2. session' = [session EXCEPT ![s] = r]
  BY DEF Fails
<1> HIDE DEF r
<1> QED
  BY <1>1, <1>2, Becomes DEF Remembers

\* A session that does not exist is in a state a session can be in.
LEMMA AwayState ==
  ASSUME NEW v \in Versions, NEW place \in Places, NEW resume \in BOOLEAN
  PROVE  /\ Fresh(v) \in Checkpoint
         /\ Away(v) \in SessionState /\ Away(v).at = "away"
         /\ [Away(v) EXCEPT !.at = place, !.resume = resume] \in SessionState
         /\ [Away(v) EXCEPT !.at = place, !.resume = resume].at = place
<1>1. 0 \in 0 .. NumClasses /\ "running" \in Statuses
  BY ExportAssumption DEF Statuses
<1>2. Fresh(v) \in Checkpoint
  BY <1>1 DEF Fresh, Checkpoint
<1>3. "away" \in Places /\ "none" \in Rendered
  BY DEF Places, Rendered
<1> HIDE DEF Fresh
<1> QED
  BY <1>2, <1>3 DEF Away, SessionState

LEMMA GoneAlone ==
  ASSUME TypeOK, NEW s \in Sessions, Gone(s)
  PROVE  Alone(s) /\ session'[s].at = "away"
<1>1. session[s].loaded \in Versions
  BY DEF TypeOK
<1>2. Away(session[s].loaded) \in SessionState /\ Away(session[s].loaded).at = "away"
  BY <1>1, AwayState DEF Places
<1> QED
  BY <1>2, Becomes DEF Gone

-----------------------------------------------------------------------------
(* The lock *)

\* The lock changes hands with the places of the sessions.
LEMMA KeepsLock ==
  ASSUME Exclusive, NEW s \in Sessions, Alone(s), lock' = lock,
         session'[s].at \in Held <=> session[s].at \in Held
  PROVE  Exclusive'
BY DEF Exclusive, Alone

LEMMA GoneLock ==
  ASSUME TypeOK, Exclusive, NEW s \in Sessions, Gone(s)
  PROVE  Exclusive'
<1>1. Alone(s) /\ session'[s].at = "away"
  BY GoneAlone
<1>2. "away" \notin Held
  BY DEF Held, Opened, Working, Ending
<1>3. lock' = IF lock = s THEN Nobody ELSE lock
  BY DEF Gone
<1>4. \A t \in Sessions : t # Nobody
  BY ExportAssumption
<1> QED
  BY <1>1, <1>2, <1>3, <1>4 DEF Exclusive, Alone

LEMMA OneHolder ==
  ASSUME Exclusive, NEW s \in Sessions, session[s].at \in Held, NEW t \in Sessions \ {s}
  PROVE  session[t].at \notin Held
BY DEF Exclusive

-----------------------------------------------------------------------------
(* Steps that leave the records alone *)

LEMMA MoveInv ==
  ASSUME EInv, NEW s \in Sessions, Alone(s),
         UNCHANGED <<manifest, checkpoint, file, tampers, exhausted>>,
         TypeOK', Exclusive', Owns(s)', Follows(s)', ~exhausted => Synced(s)'
  PROVE  EInv'
<1>1. Disk'
  BY DEF EInv, Disk, OneInput, CancellationNotRecorded, Consistent
<1>2. \A t \in Sessions : Owns(t)' /\ Follows(t)'
  <2> SUFFICES ASSUME NEW t \in Sessions \ {s}
               PROVE  Owns(t)' /\ Follows(t)'
    OBVIOUS
  <2>1. session'[t] = session[t] /\ Owns(t) /\ Follows(t)
    BY DEF EInv, Alone
  <2>2. Owns(t)'
    BY <2>1 DEF Owns
  <2>3. Follows(t)'
    BY <2>1 DEF Follows, Current, RecordOf
  <2> QED
    BY <2>2, <2>3
<1>3. Started'
  <2> SUFFICES ASSUME ~exhausted
               PROVE  /\ (checkpoint # Absent => Committed(checkpoint))'
                      /\ \A t \in Sessions : Synced(t)'
    BY DEF Started
  <2>1. (checkpoint # Absent => Committed(checkpoint))'
    BY DEF EInv, Started, Committed
  <2>2. ASSUME NEW t \in Sessions \ {s}
        PROVE  Synced(t)'
    BY <2>2 DEF EInv, Started, Synced, Alone, Committed
  <2> QED
    BY <2>1, <2>2
<1> QED
  BY <1>1, <1>2, <1>3 DEF EInv

\* What a session that is not past its opening needs to know is nothing.
LEMMA NothingKnown ==
  ASSUME NEW s \in Sessions,
         session'[s].at \in {"away", "opening", "locking", "reading", "creating"}
  PROVE  Owns(s)' /\ Follows(s)' /\ Synced(s)'
<1> DEFINE at == session'[s].at
<1>1. /\ at \notin Loaded /\ at \notin Working /\ at \notin Opened /\ at \notin Late
      /\ at \notin {"saving", "publishing", "persisting", "journaling", "committing",
                    "rendered", "finishing"}
  BY DEF Loaded, Working, Opened, Ending, Late
<1> QED
  BY <1>1 DEF Owns, Follows, Synced

LEMMA GoneInv ==
  ASSUME EInv, NEW s \in Sessions, Gone(s), UNCHANGED <<apk, manifest, checkpoint, file, bounds>>,
         dir' \in BOOLEAN, completion' \in Statuses \cup {Absent}
  PROVE  EInv'
<1>1. Alone(s) /\ session'[s].at = "away"
  BY GoneAlone DEF EInv
<1>2. Exclusive'
  BY GoneLock DEF EInv
<1>3. TypeOK'
  BY <1>1 DEF EInv, TypeOK, Gone, bounds, Alone, SessionState
<1> QED
  BY <1>1, <1>2, <1>3, NothingKnown, MoveInv DEF bounds

\* Begin, and the steps before the lock is taken.
LEMMA BeginInv ==
  ASSUME EInv, NEW s \in Sessions, Begin(s)
  PROVE  EInv'
<1>0. apk \in Versions /\ "opening" \in Places
  BY DEF EInv, TypeOK, Places
<1>1. Alone(s) /\ session'[s].at = "opening"
  <2>1. PICK resume \in BOOLEAN :
          session' = [session EXCEPT ![s] = [Away(apk) EXCEPT !.at = "opening", !.resume = resume]]
    BY DEF Begin
  <2> DEFINE r == [Away(apk) EXCEPT !.at = "opening", !.resume = resume]
  <2>2. r \in SessionState /\ r.at = "opening"
    BY <1>0, AwayState
  <2> HIDE DEF r
  <2> QED
    BY <2>1, <2>2, Becomes DEF EInv, r
<1>2. TypeOK'
  <2>1. runs' \in 0 .. MaxRuns
    BY ExportAssumption DEF EInv, TypeOK, Begin
  <2> QED
    BY <1>1, <2>1 DEF EInv, TypeOK, Begin, disk, Alone, SessionState
<1>3. Exclusive'
  BY <1>1, KeepsLock DEF EInv, Begin, At, Held, Opened, Working, Ending
<1> QED
  BY <1>1, <1>2, <1>3, NothingKnown, MoveInv DEF Begin, disk

LEMMA OpenDirectoryInv ==
  ASSUME EInv, NEW s \in Sessions, OpenDirectory(s)
  PROVE  EInv'
<1>1. CASE session[s].resume = dir
  <2>1. Goes(s, "locking") /\ dir' = TRUE /\ lock' = lock
    BY <1>1 DEF OpenDirectory
  <2>2. Alone(s) /\ session'[s].at = "locking"
    BY <2>1, GoesAlone DEF EInv, Places
  <2>3. TypeOK'
    BY <2>1, <2>2 DEF EInv, TypeOK, OpenDirectory, bounds, Alone, SessionState
  <2>4. Exclusive'
    BY <2>1, <2>2, KeepsLock DEF EInv, OpenDirectory, At, Held, Opened, Working, Ending
  <2> QED
    BY <2>2, <2>3, <2>4, NothingKnown, MoveInv DEF OpenDirectory, bounds
<1>2. CASE session[s].resume # dir
  BY <1>2, GoneInv DEF OpenDirectory, EInv, TypeOK
<1> QED
  BY <1>1, <1>2

LEMMA LockInv ==
  ASSUME EInv, NEW s \in Sessions, Lock(s)
  PROVE  EInv'
<1>1. CASE lock = Nobody
  <2>1. /\ lock' = s
        /\ Goes(s, IF session[s].resume THEN "reading" ELSE "creating")
    BY <1>1 DEF Lock
  <2>2. Alone(s) /\ session'[s].at \in {"reading", "creating"}
    BY <2>1, GoesAlone DEF EInv, Places
  <2>3. TypeOK'
    BY <2>1, <2>2 DEF EInv, TypeOK, Lock, disk, bounds, Alone, SessionState
  <2>4. Exclusive'
    <3>1. session'[s].at \in Held
      BY <2>2 DEF Held
    <3>2. \A t \in Sessions : session[t].at \notin Held
      BY <1>1, ExportAssumption DEF EInv, Exclusive
    <3> QED
      BY <2>1, <2>2, <3>1, <3>2 DEF Exclusive, Alone
  <2>5. Owns(s)' /\ Follows(s)' /\ Synced(s)'
    BY <2>2, NothingKnown
  <2> QED
    BY <2>2, <2>3, <2>4, <2>5, MoveInv DEF Lock, disk, bounds
<1>2. CASE lock # Nobody
  BY <1>2, GoneInv DEF Lock, EInv, TypeOK, disk
<1> QED
  BY <1>1, <1>2

-----------------------------------------------------------------------------
(* Steps of a session that holds the lock, in memory *)

LEMMA StepInv ==
  ASSUME EInv, NEW s \in Sessions, Alone(s),
         UNCHANGED <<apk, lock, dir, manifest, checkpoint, file, bounds>>,
         completion' \in Statuses \cup {Absent},
         session'[s].at \in Held <=> session[s].at \in Held,
         Owns(s)', Follows(s)', ~exhausted => Synced(s)'
  PROVE  EInv'
<1>1. TypeOK'
  BY DEF EInv, TypeOK, bounds, Alone, SessionState
<1>2. Exclusive'
  BY KeepsLock DEF EInv
<1> QED
  BY <1>1, <1>2, MoveInv DEF bounds

\* Where a session is once its checkpoint is saved, and what it knows then.
Busy == Opened \cup Working

LEMMA BusyFacts ==
  ASSUME EInv, NEW s \in Sessions, session[s].at \in Busy
  PROVE  /\ manifest # Absent /\ checkpoint # Absent
         /\ manifest \in Seq(Record) /\ checkpoint \in Checkpoint
         /\ session[s].state \in Checkpoint /\ session[s].loaded \in Versions
         /\ session[s].state.apk = session[s].loaded
         /\ checkpoint.apk = session[s].loaded
         /\ Consistent(session[s].state)
         /\ session[s].state.status = "running"
         /\ session[s].at \in Held /\ session[s].at \in Loaded /\ lock = s
         /\ ~exhausted => checkpoint = session[s].state /\ Committed(session[s].state)
<1>1. /\ session[s].at \in Held /\ session[s].at \in Loaded
      /\ session[s].at \notin {"saving", "completing", "closing"}
  BY DEF Busy, Opened, Working, Held, Loaded
<1>2. Owns(s) /\ TypeOK /\ (~exhausted => Synced(s))
  BY DEF EInv, Started
<1>3. /\ manifest # Absent /\ checkpoint # Absent
      /\ session[s].state.apk = session[s].loaded
      /\ checkpoint.apk = session[s].loaded
      /\ Consistent(session[s].state)
      /\ session[s].state.status = "running"
  BY <1>1, <1>2 DEF Owns
<1>4. ~exhausted => checkpoint = session[s].state /\ Committed(session[s].state)
  BY <1>1, <1>2 DEF Synced, Busy
<1>5. lock = s
  BY <1>1 DEF EInv, Exclusive
<1>6. /\ manifest \in Seq(Record) /\ checkpoint \in Checkpoint
      /\ session[s].state \in Checkpoint /\ session[s].loaded \in Versions
  BY <1>2, <1>3 DEF TypeOK
<1> QED
  BY <1>1, <1>3, <1>4, <1>5, <1>6

\* A session that goes on remembers what it knew.
LEMMA GoesOnInv ==
  ASSUME EInv, NEW s \in Sessions, session[s].at \in Busy, Alone(s), Remembers(s),
         UNCHANGED <<apk, lock, dir, manifest, checkpoint, file, bounds>>,
         completion' \in Statuses \cup {Absent},
         session'[s].at \in Busy, Follows(s)'
  PROVE  EInv'
<1>1. /\ session'[s].at \in Held /\ session'[s].at \in Loaded /\ session'[s].at \notin Late
      /\ session'[s].at \notin {"saving", "completing", "closing", "finishing"}
  BY DEF Busy, Opened, Working, Held, Loaded, Late
<1>2. Owns(s)'
  BY <1>1, BusyFacts DEF Owns, Remembers, Consistent
<1>3. ~exhausted => Synced(s)'
  BY <1>1, BusyFacts DEF Synced, Remembers, Committed, Busy, bounds
<1> QED
  BY <1>1, <1>2, <1>3, BusyFacts, StepInv

LEMMA FailsInv ==
  ASSUME EInv, NEW s \in Sessions, session[s].at \in Busy, Fails(s),
         UNCHANGED <<apk, lock, disk, bounds>>
  PROVE  EInv'
<1>1. /\ Alone(s) /\ Remembers(s) /\ session'[s].at = "finishing"
      /\ session'[s].ok = FALSE
  BY FailsAlone DEF EInv
<1>2. /\ "finishing" \in Held /\ "finishing" \in Loaded /\ "finishing" \notin Late
      /\ "finishing" \notin Opened \cup Working
  BY DEF Held, Loaded, Late, Opened, Working, Ending
<1>3. Owns(s)'
  BY <1>1, <1>2, BusyFacts DEF Owns, Remembers, Consistent, disk
<1>4. Follows(s)'
  BY <1>1, <1>2 DEF Follows
<1>5. ~exhausted => Synced(s)'
  BY <1>1, <1>2, BusyFacts DEF Synced, Remembers, Committed, disk, bounds
<1>6. completion' \in Statuses \cup {Absent}
  BY DEF EInv, TypeOK, disk
<1> QED
  BY <1>1, <1>2, <1>3, <1>4, <1>5, <1>6, BusyFacts, StepInv DEF disk

\* The checkpoint is read.
LEMMA ReadCheckpointInv ==
  ASSUME EInv, NEW s \in Sessions, ReadCheckpoint(s)
  PROVE  EInv'
<1>1. CASE Resumable(s)
  <2> DEFINE state == [checkpoint EXCEPT !.status = "running"]
             r == [session[s] EXCEPT !.at = "saving", !.state = state]
  <2>0. checkpoint # Absent /\ checkpoint \in Checkpoint /\ checkpoint.apk = session[s].loaded
        /\ checkpoint.status # "complete" /\ manifest # Absent /\ Consistent(checkpoint)
    BY <1>1 DEF Resumable, EInv, TypeOK, Disk
  <2>1. /\ state \in Checkpoint /\ state.apk = checkpoint.apk /\ state.status = "running"
        /\ state.next = checkpoint.next /\ state.bytes = checkpoint.bytes
        /\ state.exported = checkpoint.exported /\ state.failed = checkpoint.failed
    BY <2>0 DEF Checkpoint, Statuses
  <2>2. session' = [session EXCEPT ![s] = r]
    BY <1>1 DEF ReadCheckpoint
  <2> HIDE DEF state
  <2>3. /\ r \in SessionState /\ r.at = "saving" /\ r.state = state
        /\ r.loaded = session[s].loaded
    BY <2>1, ZenonT(30) DEF EInv, TypeOK, SessionState, Places
  <2> HIDE DEF r
  <2>4. /\ Alone(s) /\ session'[s].at = "saving" /\ session'[s].state = state
        /\ session'[s].loaded = session[s].loaded
    BY <2>2, <2>3, Becomes DEF EInv
  <2>5. UNCHANGED <<apk, lock, dir, manifest, checkpoint, completion, file, bounds>>
    BY <1>1 DEF ReadCheckpoint, disk
  <2>6. /\ "saving" \in Held /\ "saving" \in Loaded /\ "saving" \notin Late
        /\ "saving" \notin Opened \cup Working /\ session[s].at \in Held
    BY DEF Held, Loaded, Late, Opened, Working, Ending, ReadCheckpoint, At
  <2>7. Owns(s)'
    BY <2>0, <2>1, <2>4, <2>5, <2>6 DEF Owns, Consistent
  <2>8. Follows(s)'
    BY <2>4, <2>6 DEF Follows
  <2>9. ~exhausted => Synced(s)'
    <3>1. ~exhausted => Committed(checkpoint)
      BY <2>0 DEF EInv, Started
    <3>2. ~exhausted => Committed(state)
      BY <2>1, <3>1 DEF Committed
    <3>3. state = [checkpoint EXCEPT !.status = "running"]
      BY DEF state
    <3> QED
      BY <2>0, <2>4, <2>5, <2>6, <3>2, <3>3 DEF Synced, Committed, bounds
  <2>10. completion' \in Statuses \cup {Absent}
    BY <2>5 DEF EInv, TypeOK
  <2> QED
    BY <2>4, <2>5, <2>6, <2>7, <2>8, <2>9, <2>10, StepInv
<1>2. CASE ~Resumable(s)
  BY <1>2, GoneInv DEF ReadCheckpoint, EInv, TypeOK, disk
<1> QED
  BY <1>1, <1>2

\* The opening ends, and the worker's thread starts or does not.
LEMMA ClearCompletionInv ==
  ASSUME EInv, NEW s \in Sessions, ClearCompletion(s)
  PROVE  EInv'
<1>1. CASE Goes(s, "spawning")
  <2>1. Alone(s) /\ Remembers(s) /\ session'[s].at = "spawning"
    BY <1>1, GoesAlone DEF EInv, Places
  <2>2. session[s].at \in Busy /\ "spawning" \in Busy /\ "spawning" \notin Working
    BY DEF ClearCompletion, At, Busy, Opened, Working
  <2>3. Follows(s)'
    BY <2>1, <2>2 DEF Follows, Working
  <2>4. /\ UNCHANGED <<apk, lock, dir, manifest, checkpoint, file, bounds>>
        /\ completion' \in Statuses \cup {Absent}
    <3>1. ~Gone(s) \/ lock' = lock
      <4>1. session[s].at = "clearing"
        BY DEF ClearCompletion, At
      <4>2. Gone(s) => session'[s].at = "away"
        BY GoneAlone DEF EInv
      <4> QED
        BY <2>1, <4>2
    <3>2. "running" \in Statuses
      BY DEF Statuses
    <3> QED
      BY <3>1, <3>2 DEF ClearCompletion, EInv, TypeOK
  <2> QED
    BY <2>1, <2>2, <2>3, <2>4, GoesOnInv
<1>2. CASE Gone(s) /\ UNCHANGED completion
  BY <1>2, GoneInv DEF ClearCompletion, EInv, TypeOK
<1> QED
  BY <1>1, <1>2 DEF ClearCompletion

LEMMA SpawnInv ==
  ASSUME EInv, NEW s \in Sessions, Spawn(s)
  PROVE  EInv'
<1>1. Alone(s) /\ Remembers(s) /\ session'[s].at = "validating"
  BY GoesAlone DEF EInv, Places, Spawn
<1>2. session[s].at \in Busy /\ "validating" \in Busy /\ "validating" \notin Working
  BY DEF Spawn, At, Busy, Opened, Working
<1>3. Follows(s)'
  BY <1>1, <1>2 DEF Follows, Working
<1>4. completion' \in Statuses \cup {Absent}
  BY DEF EInv, TypeOK, Spawn, disk
<1> QED
  BY <1>1, <1>2, <1>3, <1>4, GoesOnInv DEF Spawn, disk

\* From here on a session writes without the lock.
LEMMA SpawnFailedInv ==
  ASSUME EInv, NEW s \in Sessions, SpawnFailed(s)
  PROVE  EInv'
<1>1. Alone(s) /\ Remembers(s) /\ session'[s].at = "overwriting"
  BY GoesAlone DEF EInv, Places, SpawnFailed
<1>2. session[s].at \in Busy /\ exhausted /\ lock' = Nobody
  BY DEF SpawnFailed, At, Busy, Opened
<1>3. /\ "overwriting" \notin Held /\ "overwriting" \in Loaded
      /\ "overwriting" \notin Opened \cup Working
  BY DEF Held, Loaded, Late, Opened, Working, Ending
<1>4. Exclusive'
  <2>1. \A t \in Sessions \ {s} : session[t].at \notin Held /\ t # Nobody
    BY <1>2, BusyFacts, OneHolder, ExportAssumption DEF EInv
  <2>2. s # Nobody
    BY ExportAssumption
  <2> QED
    BY <1>1, <1>2, <1>3, <2>1, <2>2 DEF Exclusive, Alone
<1>5. TypeOK'
  BY <1>1, <1>2 DEF EInv, TypeOK, SpawnFailed, disk, bounds, Alone, SessionState
<1>6. Owns(s)'
  BY <1>1, <1>2, <1>3, BusyFacts DEF Owns, Remembers, Consistent, SpawnFailed, disk
<1>7. Follows(s)'
  BY <1>1, <1>3 DEF Follows
<1> QED
  BY <1>1, <1>2, <1>4, <1>5, <1>6, <1>7, MoveInv DEF SpawnFailed, disk, bounds

\* A session that is dropped.
LEMMA DroppedInv ==
  ASSUME EInv, NEW s \in Sessions, MarkSpawnFailure(s) \/ Close(s) \/ Crash(s)
  PROVE  EInv'
<1>1. Gone(s) /\ UNCHANGED <<apk, dir, manifest, checkpoint, file, bounds>>
  BY DEF MarkSpawnFailure, Close, Crash, disk
<1>2. completion' \in Statuses \cup {Absent} /\ dir' \in BOOLEAN
  BY DEF MarkSpawnFailure, Close, Crash, disk, EInv, TypeOK, Statuses
<1> QED
  BY <1>1, <1>2, GoneInv

\* The head of the loop.
LEMMA NextClassInv ==
  ASSUME EInv, NEW s \in Sessions, NextClass(s)
  PROVE  EInv'
<1>1. session[s].at = "classing" /\ session[s].at \in Busy /\ "rendering" \in Busy
  BY DEF NextClass, At, Busy, Working
<1>2. CASE Fails(s)
  BY <1>1, <1>2, FailsInv DEF NextClass
<1>3. CASE Goes(s, "rendering")
  <2>1. Alone(s) /\ Remembers(s) /\ session'[s].at = "rendering"
    BY <1>3, GoesAlone DEF EInv, Places
  <2>2. /\ session[s].state.next < NumClasses
        /\ UNCHANGED <<apk, lock, disk, bounds>>
    BY DEF NextClass
  <2>3. Len(manifest) = session[s].state.next
    BY <1>1 DEF EInv, Follows, Working
  <2>4. Follows(s)'
    BY <2>1, <2>2, <2>3 DEF Follows, Remembers, disk
  <2>5. completion' \in Statuses \cup {Absent}
    BY <2>2 DEF EInv, TypeOK, disk
  <2> QED
    BY <1>1, <2>1, <2>2, <2>4, <2>5, GoesOnInv DEF disk
<1> QED
  BY <1>2, <1>3 DEF NextClass

LEMMA LastClassDoneInv ==
  ASSUME EInv, NEW s \in Sessions, LastClassDone(s)
  PROVE  EInv'
<1>1. /\ session[s].at = "classing" /\ session[s].at \in Busy
      /\ session[s].state.next = NumClasses /\ UNCHANGED <<apk, lock, disk, bounds>>
  BY DEF LastClassDone, At, Busy, Working
<1>2. CASE Fails(s)
  BY <1>1, <1>2, FailsInv
<1>3. CASE session' = [session EXCEPT ![s].at = "finishing", ![s].ok = TRUE]
  <2> DEFINE r == [session[s] EXCEPT !.at = "finishing", !.ok = TRUE]
  <2>1. /\ r \in SessionState /\ r.at = "finishing"
        /\ r.resume = session[s].resume /\ r.loaded = session[s].loaded
        /\ r.state = session[s].state
    BY DEF EInv, TypeOK, SessionState, Places
  <2>2. session' = [session EXCEPT ![s] = r]
    BY <1>3
  <2> HIDE DEF r
  <2>3. Alone(s) /\ Remembers(s) /\ session'[s].at = "finishing"
    BY <2>1, <2>2, Becomes DEF EInv, Remembers
  <2>4. /\ "finishing" \in Held /\ "finishing" \in Loaded /\ "finishing" \notin Late
        /\ "finishing" \notin Opened \cup Working
    BY DEF Held, Loaded, Late, Opened, Working, Ending
  <2>5. Owns(s)'
    BY <1>1, <2>3, <2>4, BusyFacts DEF Owns, Remembers, Consistent, disk
  <2>6. Follows(s)'
    BY <1>1, <2>3, <2>4 DEF Follows, Remembers
  <2>7. ~exhausted => Synced(s)'
    BY <1>1, <2>3, <2>4, BusyFacts DEF Synced, Remembers, Committed, disk, bounds
  <2>8. completion' \in Statuses \cup {Absent}
    BY <1>1 DEF EInv, TypeOK, disk
  <2> QED
    BY <1>1, <2>3, <2>4, <2>5, <2>6, <2>7, <2>8, BusyFacts, StepInv DEF disk
<1> QED
  BY <1>2, <1>3 DEF LastClassDone

\* A class is rendered, and its file is looked at.
LEMMA RenderInv ==
  ASSUME EInv, NEW s \in Sessions, Render(s)
  PROVE  EInv'
<1>1. /\ session[s].at = "rendering" /\ session[s].at \in Busy /\ "rendered" \in Busy
      /\ UNCHANGED <<apk, lock, disk, bounds>>
  BY DEF Render, At, Busy, Working
<1>2. CASE Fails(s)
  BY <1>1, <1>2, FailsInv
<1>3. ASSUME NEW result \in {"source", "failed", "interrupted"},
             result = "interrupted" => session[s].cancel,
             session' = [session EXCEPT ![s].at = "rendered", ![s].rendered = result]
      PROVE  EInv'
  <2> DEFINE r == [session[s] EXCEPT !.at = "rendered", !.rendered = result]
  <2>1. /\ r \in SessionState /\ r.at = "rendered" /\ r.rendered = result
        /\ r.resume = session[s].resume /\ r.loaded = session[s].loaded
        /\ r.state = session[s].state /\ r.cancel = session[s].cancel
    BY DEF EInv, TypeOK, SessionState, Places, Rendered
  <2>2. session' = [session EXCEPT ![s] = r]
    BY <1>3
  <2> HIDE DEF r
  <2>3. /\ Alone(s) /\ Remembers(s) /\ session'[s].at = "rendered"
        /\ session'[s].rendered = result /\ session'[s].cancel = session[s].cancel
    BY <2>1, <2>2, Becomes DEF EInv, Remembers
  <2>4. /\ Len(manifest) = session[s].state.next
        /\ session[s].state.next < NumClasses
    BY <1>1 DEF EInv, Follows, Working
  <2>5. Follows(s)'
    BY <1>1, <1>3, <2>3, <2>4 DEF Follows, Remembers, disk
  <2>6. completion' \in Statuses \cup {Absent}
    BY <1>1 DEF EInv, TypeOK, disk
  <2> QED
    BY <1>1, <2>3, <2>5, <2>6, GoesOnInv DEF disk
<1> QED
  BY <1>1, <1>2, <1>3 DEF Render

\* A cancelled session records nothing: what it goes on with is not an interrupted rendering.
LEMMA AfterRenderInv ==
  ASSUME EInv, NEW s \in Sessions, AfterRender(s)
  PROVE  EInv'
<1>1. /\ session[s].at = "rendered" /\ session[s].at \in Busy
      /\ UNCHANGED <<apk, lock, disk, bounds>>
  BY DEF AfterRender, At, Busy, Working
<1>2. CASE session[s].cancel
  BY <1>1, <1>2, FailsInv DEF AfterRender
<1>3. CASE ~session[s].cancel
  <2> DEFINE place == IF session[s].rendered = "source" THEN "publishing" ELSE "journaling"
  <2>1. Goes(s, place)
    BY <1>3 DEF AfterRender
  <2>2. place \in Places /\ place \in Busy /\ place \in {"publishing", "journaling"}
        /\ (place = "publishing" <=> session[s].rendered = "source")
    BY DEF Places, Busy, Working
  <2> HIDE DEF place
  <2>3. /\ Alone(s) /\ Remembers(s) /\ session'[s].at = place
        /\ session'[s].rendered = session[s].rendered
    BY <2>1, <2>2, GoesAlone DEF EInv
  <2>4. /\ Len(manifest) = session[s].state.next
        /\ session[s].state.next < NumClasses
        /\ session[s].rendered \notin {"none", "interrupted"}
    BY <1>1, <1>3 DEF EInv, Follows, Working
  <2>5. session[s].rendered \in {"source", "failed"}
    BY <2>4 DEF EInv, TypeOK, Rendered
  <2>6. Follows(s)'
    BY <1>1, <2>2, <2>3, <2>4, <2>5 DEF Follows, Remembers, disk
  <2>7. completion' \in Statuses \cup {Absent}
    BY <1>1 DEF EInv, TypeOK, disk
  <2> QED
    BY <1>1, <2>2, <2>3, <2>6, <2>7, GoesOnInv DEF disk
<1> QED
  BY <1>2, <1>3

LEMMA CheckFileInv ==
  ASSUME EInv, NEW s \in Sessions, CheckFile(s)
  PROVE  EInv'
<1>1. /\ session[s].at = "publishing" /\ session[s].at \in Busy
      /\ {"persisting", "journaling"} \subseteq Busy \cap Places
      /\ UNCHANGED <<apk, lock, disk, bounds>>
  BY DEF CheckFile, At, Busy, Working, Places
<1>2. CASE Fails(s)
  BY <1>1, <1>2, FailsInv
<1>3. ASSUME NEW place \in {"persisting", "journaling"}, Goes(s, place),
             place = "journaling" => file[Current(s)] = session[s].loaded
      PROVE  EInv'
  <2>1. /\ Alone(s) /\ Remembers(s) /\ session'[s].at = place
        /\ session'[s].rendered = session[s].rendered
    BY <1>1, <1>3, GoesAlone DEF EInv
  <2>2. /\ Len(manifest) = session[s].state.next
        /\ session[s].state.next < NumClasses
        /\ session[s].rendered = "source"
    BY <1>1 DEF EInv, Follows, Working
  <2>3. Follows(s)'
    BY <1>1, <1>3, <2>1, <2>2 DEF Follows, Remembers, disk, Current
  <2>4. completion' \in Statuses \cup {Absent}
    BY <1>1 DEF EInv, TypeOK, disk
  <2> QED
    BY <1>1, <1>3, <2>1, <2>3, <2>4, GoesOnInv DEF disk
<1>4. \/ Fails(s) \/ Goes(s, "persisting")
      \/ Goes(s, "journaling") /\ file[Current(s)] = session[s].loaded
  BY DEF CheckFile
<1> QED
  BY <1>2, <1>3, <1>4

\* The job is cancelled.
LEMMA CancelInv ==
  ASSUME EInv, NEW s \in Sessions, Cancel(s)
  PROVE  EInv'
<1> DEFINE r == [session[s] EXCEPT !.cancel = TRUE]
<1>0. UNCHANGED <<apk, lock, disk, bounds>>
  BY DEF Cancel
<1>1. /\ r \in SessionState /\ r.at = session[s].at /\ r.rendered = session[s].rendered
      /\ r.resume = session[s].resume /\ r.loaded = session[s].loaded
      /\ r.state = session[s].state /\ r.cancel = TRUE /\ r.ok = session[s].ok
  BY DEF EInv, TypeOK, SessionState
<1>2. session' = [session EXCEPT ![s] = r]
  BY DEF Cancel
<1> HIDE DEF r
<1>3. /\ Alone(s) /\ Remembers(s) /\ session'[s].at = session[s].at
      /\ session'[s].rendered = session[s].rendered /\ session'[s].cancel = TRUE
      /\ session'[s].ok = session[s].ok
  BY <1>1, <1>2, Becomes DEF EInv, Remembers
<1>4. Owns(s) /\ Follows(s) /\ (~exhausted => Synced(s))
  BY DEF EInv, Started
<1>5. Owns(s)'
  BY <1>0, <1>3, <1>4 DEF Owns, Remembers, Consistent, disk
<1>6. Follows(s)'
  <2>1. Current(s)' = Current(s) /\ RecordOf(s)' = RecordOf(s)
    BY <1>3 DEF Current, RecordOf, Remembers
  <2> QED
    BY <1>0, <1>3, <1>4, <2>1 DEF Follows, Remembers, disk, bounds
<1>7. ~exhausted => Synced(s)'
  BY <1>0, <1>3, <1>4 DEF Synced, Remembers, Committed, disk, bounds
<1>8. completion' \in Statuses \cup {Absent}
  BY <1>0 DEF EInv, TypeOK, disk
<1> QED
  BY <1>0, <1>3, <1>5, <1>6, <1>7, <1>8, StepInv DEF disk

\* The session ends without another checkpoint.
LEMMA ClosingInv ==
  ASSUME EInv, NEW s \in Sessions, session[s].at \in {"finishing", "completing"},
         Goes(s, "closing"), UNCHANGED <<apk, lock, dir, manifest, checkpoint, file, bounds>>,
         completion' \in Statuses \cup {Absent}
  PROVE  EInv'
<1>1. Alone(s) /\ Remembers(s) /\ session'[s].at = "closing"
  BY GoesAlone DEF EInv, Places
<1>2. {"closing", "finishing", "completing"} \subseteq Held \cap Loaded
  BY DEF Held, Loaded, Ending
<1>3. "closing" \notin Late /\ "closing" \notin Opened \cup Working
  BY DEF Late, Opened, Working
<1>4. Owns(s) /\ (~exhausted => Synced(s))
  BY DEF EInv, Started
<1>5. Owns(s)'
  BY <1>1, <1>2, <1>4 DEF Owns, Remembers, Consistent
<1>6. Follows(s)'
  BY <1>1, <1>3 DEF Follows
<1>7. ~exhausted => Synced(s)'
  BY <1>1, <1>2, <1>3, <1>4 DEF Synced, Remembers, Committed, bounds
<1> QED
  BY <1>1, <1>2, <1>5, <1>6, <1>7, StepInv

-----------------------------------------------------------------------------
(* Steps that write the checkpoint *)

\* A session is the only one past its opening while it holds the lock, but for those whose
\* thread did not start.
LEMMA OthersIdle ==
  ASSUME EInv, NEW s \in Sessions, session[s].at \in Held, NEW t \in Sessions \ {s}
  PROVE  /\ session[t].at \notin Held
         /\ session[t].at \in Loaded => session[t].at \in Late /\ exhausted
<1>1. session[t].at \notin Held
  BY OneHolder DEF EInv
<1>2. session[t].at \in Loaded => session[t].at \in Late
  BY <1>1 DEF Held, Loaded
<1>3. ~exhausted => session[t].at \notin Late
  BY DEF EInv, Started, Synced
<1> QED
  BY <1>1, <1>2, <1>3

\* What is left to show of a step that writes: what it means for this session and the disk.
LEMMA WriteInv ==
  ASSUME EInv, NEW s \in Sessions, session[s].at \in Held, Alone(s), lock' = lock,
         session'[s].at \in Held, UNCHANGED exhausted, TypeOK', Disk', Owns(s)', Follows(s)',
         ~exhausted => Synced(s)',
         ~exhausted => (checkpoint # Absent => Committed(checkpoint))',
         manifest # Absent => manifest' # Absent,
         checkpoint # Absent => checkpoint' # Absent /\ checkpoint'.apk = checkpoint.apk
  PROVE  EInv'
<1>1. Exclusive'
  BY KeepsLock DEF EInv
<1>2. ASSUME NEW t \in Sessions \ {s}
      PROVE  Owns(t)' /\ Follows(t)' /\ (~exhausted => Synced(t)')
  <2>0. /\ session'[t] = session[t] /\ session[t].at \notin Held
        /\ session[t].at \in Loaded => session[t].at \in Late /\ exhausted
    BY OthersIdle DEF Alone
  <2>1. Owns(t)'
    <3>1. Owns(t)
      BY DEF EInv
    <3>2. session[t].at \in Late => session[t].at # "saving"
      BY DEF Late
    <3> QED
      BY <2>0, <3>1, <3>2 DEF Owns
  <2>2. Follows(t)'
    <3>1. /\ session[t].at \notin Working
          /\ session[t].at \notin {"publishing", "persisting", "journaling", "committing",
                                   "rendered", "finishing"}
      BY <2>0 DEF Held, Working, Ending
    <3> QED
      BY <2>0, <3>1 DEF Follows
  <2>3. ~exhausted => Synced(t)'
    <3>1. Late \subseteq Loaded /\ Opened \cup Working \subseteq Loaded
          /\ "saving" \in Loaded /\ "finishing" \in Loaded
      BY DEF Loaded, Ending
    <3> QED
      BY <2>0, <3>1 DEF Synced
  <2> QED
    BY <2>1, <2>2, <2>3
<1>3. Started'
  BY <1>2 DEF Started
<1> QED
  BY <1>1, <1>2, <1>3 DEF EInv

\* The records stay as they are.
LEMMA SameRecords ==
  ASSUME Disk, manifest' = manifest, checkpoint # Absent,
         checkpoint' # Absent, checkpoint'.apk = checkpoint.apk, Consistent(checkpoint)'
  PROVE  Disk'
BY DEF Disk, OneInput, CancellationNotRecorded

LEMMA NoRecords == <<>> \in Seq(Record) /\ <<>> # Absent /\ Len(<<>>) = 0 /\ DOMAIN <<>> = {}
<1>1. <<>> \in Seq(Record) /\ Len(<<>>) = 0
  BY EmptySeq
<1>2. DOMAIN <<>> = 1 .. 0
  BY <1>1, LenProperties
<1>3. 1 .. 0 = {}
  OBVIOUS
<1>4. <<>> # Absent
  BY <1>1, AbsentAssumption
<1> QED
  BY <1>1, <1>2, <1>3, <1>4

LEMMA CreateManifestInv ==
  ASSUME EInv, NEW s \in Sessions, CreateManifest(s)
  PROVE  EInv'
<1>1. CASE manifest = Absent
  <2> DEFINE r == [session[s] EXCEPT !.at = "saving", !.state = Fresh(session[s].loaded)]
  <2>0. /\ session[s].loaded \in Versions /\ manifest' = <<>> /\ checkpoint = Absent
        /\ UNCHANGED <<apk, lock, dir, checkpoint, completion, file, bounds>>
        /\ Fresh(session[s].loaded) \in Checkpoint
    BY <1>1, AwayState DEF CreateManifest, EInv, TypeOK, Disk, Places
  <2>1. /\ r \in SessionState /\ r.at = "saving" /\ r.state = Fresh(session[s].loaded)
        /\ r.loaded = session[s].loaded
    BY <2>0, ZenonT(30) DEF EInv, TypeOK, SessionState, Places
  <2>2. session' = [session EXCEPT ![s] = r]
    BY <1>1 DEF CreateManifest
  <2> HIDE DEF r
  <2>3. /\ Alone(s) /\ session'[s].at = "saving"
        /\ session'[s].state = Fresh(session[s].loaded)
        /\ session'[s].loaded = session[s].loaded
    BY <2>1, <2>2, Becomes DEF EInv
  <2>4. /\ "saving" \in Held /\ "saving" \notin Late /\ session[s].at \in Held
        /\ "saving" \notin Opened \cup Working
    BY DEF Held, Late, Opened, Working, Ending, CreateManifest, At
  <2>5. <<>> \in Seq(Record) /\ <<>> # Absent /\ Len(<<>>) = 0 /\ DOMAIN <<>> = {}
    BY NoRecords
  <2>6. TypeOK'
    BY <2>0, <2>3, <2>5 DEF EInv, TypeOK, bounds, Alone, SessionState
  <2>7. Disk'
    BY <2>0, <2>5 DEF Disk, OneInput, CancellationNotRecorded
  <2>8. Owns(s)'
    BY <2>0, <2>3, <2>5 DEF Owns, Fresh, Consistent
  <2>9. Follows(s)'
    BY <2>3, <2>4 DEF Follows
  <2>10. Synced(s)'
    <3>1. Committed(Fresh(session[s].loaded))'
      BY <2>0, <2>5 DEF Committed, Fresh
    <3> QED
      BY <2>0, <2>3, <2>4, <3>1 DEF Synced
  <2> QED
    BY <1>1, <2>0, <2>3, <2>4, <2>6, <2>7, <2>8, <2>9, <2>10, WriteInv DEF bounds
<1>2. CASE manifest # Absent
  BY <1>2, GoneInv DEF CreateManifest, EInv, TypeOK
<1> QED
  BY <1>1, <1>2

LEMMA SaveRunningInv ==
  ASSUME EInv, NEW s \in Sessions, SaveRunning(s)
  PROVE  EInv'
<1>0. /\ session[s].at = "saving" /\ "saving" \in Held /\ "saving" \in Loaded
      /\ {"clearing", "spawning"} \subseteq Opened \cap Held \cap Loaded \cap Places
  BY DEF SaveRunning, At, Held, Loaded, Opened, Places
<1>1. CASE checkpoint' = session[s].state
           /\ Goes(s, IF session[s].resume THEN "clearing" ELSE "spawning")
           /\ UNCHANGED lock
  <2> DEFINE place == IF session[s].resume THEN "clearing" ELSE "spawning"
  <2>1. Alone(s) /\ Remembers(s) /\ session'[s].at = place
    BY <1>0, <1>1, GoesAlone DEF EInv
  <2>2. place \in Opened \cap Held \cap Loaded
        /\ place \notin {"saving", "completing", "closing", "finishing"}
    BY <1>0 DEF Opened
  <2>3. place \notin Late /\ place \notin Working
        /\ place \notin {"publishing", "persisting", "journaling", "committing", "rendered"}
    BY DEF Late, Working
  <2> HIDE DEF place
  <2>4. UNCHANGED <<apk, lock, dir, manifest, completion, file, bounds>>
    BY <1>1 DEF SaveRunning
  <2>5. /\ manifest # Absent /\ session[s].state.apk = session[s].loaded
        /\ Consistent(session[s].state)
        /\ checkpoint # Absent => checkpoint.apk = session[s].loaded
        /\ session[s].state.status = "running"
    BY <1>0 DEF EInv, Owns
  <2>6. session[s].state \in Checkpoint /\ session[s].state # Absent
    BY AbsentAssumption DEF EInv, TypeOK
  <2>7. TypeOK'
    BY <1>1, <2>1, <2>4, <2>6 DEF EInv, TypeOK, bounds, Alone, SessionState
  <2>8. Disk'
    <3>1. CASE checkpoint # Absent
      BY <1>1, <2>4, <2>5, <2>6, <3>1, SameRecords DEF EInv, Consistent
    <3>2. CASE checkpoint = Absent
      <4>1. manifest' = <<>>
        BY <2>4, <2>5, <3>2 DEF EInv, Disk
      <4> QED
        BY <1>1, <2>4, <2>5, <2>6, <4>1, NoRecords
           DEF Disk, OneInput, CancellationNotRecorded, Consistent
    <3> QED
      BY <3>1, <3>2
  <2>9. Owns(s)'
    BY <1>1, <2>1, <2>2, <2>4, <2>5, <2>6 DEF Owns, Remembers, Consistent
  <2>10. Follows(s)'
    BY <2>1, <2>2, <2>3 DEF Follows
  <2>11. ~exhausted => Committed(session[s].state)'
    BY <1>0, <2>1, <2>4 DEF EInv, Started, Synced, Committed, Remembers, bounds
  <2>12. ~exhausted => Synced(s)' /\ Committed(checkpoint)'
    BY <1>1, <2>1, <2>2, <2>3, <2>11 DEF Synced, Remembers, Committed
  <2> QED
    BY <1>0, <1>1, <2>1, <2>2, <2>4, <2>5, <2>6, <2>7, <2>8, <2>9, <2>10, <2>12, WriteInv
       DEF bounds
<1>2. CASE Gone(s) /\ UNCHANGED checkpoint
  BY <1>2, GoneInv DEF SaveRunning, EInv, TypeOK
<1> QED
  BY <1>1, <1>2 DEF SaveRunning

\* The write without the lock: it keeps the input and the sums.
LEMMA SaveSpawnFailureInv ==
  ASSUME EInv, NEW s \in Sessions, SaveSpawnFailure(s)
  PROVE  EInv'
<1>0. /\ session[s].at = "overwriting" /\ session[s].at \in Late /\ session[s].at \in Loaded
      /\ session[s].at \notin Held /\ exhausted
  <2>1. session[s].at = "overwriting" /\ session[s].at \in Late /\ session[s].at \in Loaded
        /\ session[s].at \notin Held
    BY DEF SaveSpawnFailure, At, Late, Loaded, Held, Opened, Working, Ending
  <2> QED
    BY <2>1 DEF EInv, Started, Synced
<1>1. CASE checkpoint' = [session[s].state EXCEPT !.status = "incomplete"]
           /\ Goes(s, "marking") /\ UNCHANGED lock
  <2>1. Alone(s) /\ Remembers(s) /\ session'[s].at = "marking"
    BY <1>1, GoesAlone DEF EInv, Places
  <2>2. UNCHANGED <<apk, lock, dir, manifest, completion, file, bounds>>
    BY <1>1 DEF SaveSpawnFailure
  <2>3. /\ manifest # Absent /\ session[s].state.apk = session[s].loaded
        /\ Consistent(session[s].state)
        /\ checkpoint # Absent /\ checkpoint.apk = session[s].loaded
        /\ session[s].state.status = "running"
    BY <1>0 DEF EInv, Owns
  <2>4. session[s].state \in Checkpoint
    BY DEF EInv, TypeOK
  <2>5. /\ checkpoint' \in Checkpoint /\ checkpoint' # Absent
        /\ checkpoint'.apk = session[s].state.apk /\ Consistent(checkpoint')
    <3>1. checkpoint' \in Checkpoint /\ checkpoint'.apk = session[s].state.apk
          /\ checkpoint'.next = session[s].state.next
          /\ checkpoint'.bytes = session[s].state.bytes
          /\ checkpoint'.exported = session[s].state.exported
          /\ checkpoint'.failed = session[s].state.failed
      BY <1>1, <2>4 DEF Checkpoint, Statuses
    <3> QED
      BY <2>3, <3>1, AbsentAssumption DEF Consistent
  <2>6. TypeOK'
    BY <2>1, <2>2, <2>5 DEF EInv, TypeOK, bounds, Alone, SessionState
  <2>7. Exclusive'
    <3>1. "marking" \notin Held
      BY DEF Held, Opened, Working, Ending
    <3> QED
      BY <1>0, <2>1, <2>2, <3>1, KeepsLock DEF EInv
  <2>8. Disk'
    BY <2>2, <2>3, <2>5, SameRecords DEF EInv, Consistent
  <2>9. ASSUME NEW t \in Sessions
        PROVE  Owns(t)' /\ Follows(t)'
    <3>1. CASE t = s
      <4>1. "marking" \notin Working /\ "marking" \in Loaded
        BY DEF Working, Loaded, Late
      <4>2. Owns(s)'
        BY <2>1, <2>2, <2>3, <2>5, <4>1 DEF Owns, Remembers, Consistent
      <4>3. Follows(s)'
        BY <2>1, <4>1 DEF Follows
      <4> QED
        BY <3>1, <4>2, <4>3
    <3>2. CASE t # s
      <4>1. session'[t] = session[t] /\ Owns(t) /\ Follows(t)
        BY <2>1, <3>2 DEF EInv, Alone
      <4>2. Owns(t)'
        BY <2>2, <2>3, <2>5, <4>1 DEF Owns
      <4>3. Follows(t)'
        BY <2>2, <4>1 DEF Follows, Current, RecordOf, bounds
      <4> QED
        BY <4>2, <4>3
    <3> QED
      BY <3>1, <3>2
  <2>10. Started'
    BY <1>0, <2>2 DEF Started, bounds
  <2> QED
    BY <2>6, <2>7, <2>8, <2>9, <2>10 DEF EInv
<1>2. CASE Gone(s) /\ UNCHANGED checkpoint
  BY <1>2, GoneInv DEF SaveSpawnFailure, EInv, TypeOK
<1> QED
  BY <1>1, <1>2 DEF SaveSpawnFailure

-----------------------------------------------------------------------------
(* Steps that write the manifest or a source file *)

LEMMA Truncated ==
  ASSUME NEW m \in Seq(Record), NEW n \in Nat, n <= Len(m)
  PROVE  /\ SubSeq(m, 1, n) \in Seq(Record) /\ Len(SubSeq(m, 1, n)) = n
         /\ SubSeq(m, 1, n) # Absent
         /\ DOMAIN SubSeq(m, 1, n) = 1 .. n
         /\ \A i \in 1 .. n : SubSeq(m, 1, n)[i] = m[i]
<1>1. \A i \in 1 .. n : m[i] \in Record
  BY ElementOfSeq, LenProperties
<1>2. /\ SubSeq(m, 1, n) \in Seq(Record)
      /\ Len(SubSeq(m, 1, n)) = IF 1 <= n THEN n - 1 + 1 ELSE 0
      /\ \A i \in 1 .. n - 1 + 1 : SubSeq(m, 1, n)[i] = m[1 + i - 1]
  BY <1>1, SubSeqProperties, n \in Int, 1 \in Int
<1>3. Len(SubSeq(m, 1, n)) = n
  BY <1>2
<1>4. \A i \in 1 .. n : SubSeq(m, 1, n)[i] = m[i]
  <2> SUFFICES ASSUME NEW i \in 1 .. n
               PROVE  SubSeq(m, 1, n)[i] = m[i]
    OBVIOUS
  <2>1. n - 1 + 1 = n /\ 1 + i - 1 = i
    OBVIOUS
  <2> QED
    BY <1>2, <2>1
<1>5. DOMAIN SubSeq(m, 1, n) = 1 .. n
  BY <1>2, <1>3, LenProperties
<1>6. SubSeq(m, 1, n) # Absent
  BY <1>2, AbsentAssumption
<1> QED
  BY <1>2, <1>3, <1>4, <1>5, <1>6

LEMMA Appended ==
  ASSUME NEW m \in Seq(Record), NEW e \in Record
  PROVE  /\ Append(m, e) \in Seq(Record) /\ Len(Append(m, e)) = Len(m) + 1
         /\ Append(m, e) # Absent
         /\ DOMAIN Append(m, e) = 1 .. Len(m) + 1 /\ DOMAIN m = 1 .. Len(m) /\ Len(m) \in Nat
         /\ \A i \in 1 .. Len(m) : Append(m, e)[i] = m[i]
         /\ Append(m, e)[Len(m) + 1] = e
<1>1. Append(m, e) \in Seq(Record) /\ Len(Append(m, e)) = Len(m) + 1
  BY AppendProperties
<1>2. DOMAIN Append(m, e) = 1 .. Len(m) + 1
  BY <1>1, LenProperties
<1>3. DOMAIN m = 1 .. Len(m) /\ Len(m) \in Nat
  BY LenProperties
<1>4. Append(m, e) # Absent
  BY <1>1, AbsentAssumption
<1>5. \A i \in 1 .. Len(m) : Append(m, e)[i] = m[i]
  BY AppendProperties
<1>6. Append(m, e)[Len(m) + 1] = e
  BY AppendProperties
<1> QED
  BY <1>1, <1>2, <1>3, <1>4, <1>5, <1>6

\* What is checked is discarded no further than the session counts.
LEMMA ValidateInv ==
  ASSUME EInv, NEW s \in Sessions, Validate(s)
  PROVE  EInv'
<1>0. /\ session[s].at = "validating" /\ session[s].at \in Busy /\ "classing" \in Busy
      /\ "classing" \in Working
      /\ UNCHANGED <<apk, lock, dir, checkpoint, completion, file, bounds>>
  BY DEF Validate, At, Busy, Opened, Working
<1>1. CASE Fails(s) /\ UNCHANGED manifest
  BY <1>0, <1>1, FailsInv DEF disk
<1>2. CASE /\ Valid(session[s].state) /\ Goes(s, "classing")
           /\ manifest' = SubSeq(manifest, 1, session[s].state.bytes)
  <2> DEFINE n == session[s].state.next
  <2>1. Alone(s) /\ Remembers(s) /\ session'[s].at = "classing"
    BY <1>2, GoesAlone DEF EInv, Places
  <2>2. /\ manifest \in Seq(Record) /\ n \in Nat /\ n <= Len(manifest)
        /\ session[s].state.bytes = n
    BY <1>0, <1>2, BusyFacts DEF Valid, Checkpoint, Consistent
  <2> HIDE DEF n
  <2>3. manifest' = SubSeq(manifest, 1, n)
    BY <1>2, <2>2
  <2>4. /\ manifest' \in Seq(Record) /\ Len(manifest') = n /\ manifest' # Absent
        /\ DOMAIN manifest' = 1 .. n /\ DOMAIN manifest = 1 .. Len(manifest)
        /\ Len(manifest) \in Nat
        /\ \A i \in 1 .. n : manifest'[i] = manifest[i]
    BY <2>2, <2>3, Truncated, LenProperties
  <2>5. \A i \in DOMAIN manifest' : i \in DOMAIN manifest /\ manifest'[i] = manifest[i]
    BY <2>2, <2>4
  <2>6. TypeOK'
    BY <1>0, <2>1, <2>4 DEF EInv, TypeOK, bounds, Alone, SessionState
  <2>7. Disk'
    BY <1>0, <2>4, <2>5, BusyFacts DEF EInv, Disk, OneInput, CancellationNotRecorded
  <2>8. Owns(s)'
    BY <1>0, <2>1, <2>4, BusyFacts DEF Owns, Remembers, Consistent
  <2>9. Follows(s)'
    BY <2>1, <2>4 DEF Follows, Remembers, n
  <2>10. ~exhausted => checkpoint = session[s].state /\ Committed(session[s].state)'
    <3>1. ~exhausted => checkpoint = session[s].state /\ Committed(session[s].state)
      BY <1>0, BusyFacts
    <3> QED
      BY <1>0, <2>1, <2>4, <3>1 DEF Committed, Remembers, bounds, n
  <2>11. ~exhausted => Synced(s)' /\ Committed(checkpoint)'
    <3>1. /\ "classing" \notin Late
          /\ "classing" \notin {"saving", "finishing"}
      BY DEF Late
    <3> QED
      BY <1>0, <2>1, <2>10, <3>1 DEF Synced, Remembers, Committed
  <2>12. session'[s].at \in Held /\ session[s].at \in Held
    BY <1>0, <2>1 DEF Held, Busy
  <2> QED
    BY <1>0, <2>1, <2>4, <2>6, <2>7, <2>8, <2>9, <2>11, <2>12, WriteInv DEF bounds
<1> QED
  BY <1>1, <1>2 DEF Validate

\* A file is published where there is none, past everything the checkpoint counts.
LEMMA PersistInv ==
  ASSUME EInv, NEW s \in Sessions, Persist(s)
  PROVE  EInv'
<1>0. /\ session[s].at = "persisting" /\ session[s].at \in Busy
      /\ "journaling" \in Busy /\ "journaling" \in Working
      /\ UNCHANGED <<apk, lock, dir, manifest, checkpoint, completion, bounds>>
  BY DEF Persist, At, Busy, Working
<1>1. CASE Fails(s) /\ UNCHANGED file
  BY <1>0, <1>1, FailsInv DEF disk
<1>2. CASE file' = [file EXCEPT ![Current(s)] = session[s].loaded] /\ Goes(s, "journaling")
  <2>1. /\ Alone(s) /\ Remembers(s) /\ session'[s].at = "journaling"
        /\ session'[s].rendered = session[s].rendered
    BY <1>2, GoesAlone DEF EInv, Places
  <2>2. /\ session[s].state.next \in Nat /\ session[s].state.next < NumClasses
        /\ Len(manifest) = session[s].state.next
        /\ session[s].rendered = "source" /\ session[s].loaded \in Versions
    BY <1>0, BusyFacts DEF EInv, Follows, Working, Checkpoint
  <2>3. Current(s) \in Class /\ Current(s) = session[s].state.next + 1
    BY <2>2, ExportAssumption DEF Current, Class
  <2>4. /\ file' \in [Class -> Versions \cup {Foreign, Absent}]
        /\ file'[Current(s)] = session[s].loaded
        /\ \A c \in Class : c # Current(s) => file'[c] = file[c]
    BY <1>2, <2>2, <2>3 DEF EInv, TypeOK
  <2>5. TypeOK'
    BY <1>0, <2>1, <2>4 DEF EInv, TypeOK, bounds, Alone, SessionState
  <2>6. Disk'
    BY <1>0, BusyFacts, SameRecords DEF EInv, Disk, Consistent
  <2>7. Owns(s)'
    BY <1>0, <2>1, BusyFacts DEF Owns, Remembers, Consistent
  <2>8. Follows(s)'
    <3>1. Current(s)' = Current(s)
      BY <2>1 DEF Current, Remembers
    <3> QED
      BY <1>0, <2>1, <2>2, <2>4, <3>1 DEF Follows, Remembers
  <2>9. ~exhausted => checkpoint = session[s].state /\ Committed(session[s].state)'
    <3>1. ~exhausted => checkpoint = session[s].state /\ Committed(session[s].state)
      BY <1>0, BusyFacts
    <3>2. \A i \in 1 .. session[s].state.next : i \in Class /\ i # Current(s)
      BY <2>2, <2>3, ExportAssumption DEF Class
    <3>3. \A i \in 1 .. session[s].state.next : file'[i] = file[i]
      BY <2>4, <3>2
    <3> QED
      BY <1>0, <2>1, <3>1, <3>3 DEF Committed, Remembers, bounds
  <2>10. ~exhausted => Synced(s)' /\ Committed(checkpoint)'
    <3>1. /\ "journaling" \notin Late
          /\ "journaling" \notin {"saving", "finishing"}
      BY DEF Late
    <3> QED
      BY <1>0, <2>1, <2>9, <3>1 DEF Synced, Remembers, Committed
  <2>11. session'[s].at \in Held /\ session[s].at \in Held
    BY <1>0, <2>1 DEF Held, Busy
  <2> QED
    BY <1>0, <2>1, <2>5, <2>6, <2>7, <2>8, <2>10, <2>11, WriteInv DEF bounds
<1> QED
  BY <1>1, <1>2 DEF Persist

\* A record, or a part of it, that says nothing wrong.
Harmless(s, e) ==
  /\ e \in Record
  /\ e.kind = "exported" => e.content = session[s].loaded
  /\ e.why # "interrupted"

LEMMA RecordHarmless ==
  ASSUME EInv, NEW s \in Sessions, session[s].at = "journaling"
  PROVE  Harmless(s, RecordOf(s)) /\ Harmless(s, [RecordOf(s) EXCEPT !.kind = "torn"])
<1>1. session[s].at \in Busy /\ session[s].at \in Working
  BY DEF Busy, Working
<1>2. /\ session[s].state.next \in Nat /\ session[s].state.next < NumClasses
      /\ session[s].rendered \in {"source", "failed"} /\ session[s].loaded \in Versions
  BY <1>1, BusyFacts DEF EInv, Follows, Working, Checkpoint
<1>3. Current(s) \in Class
  BY <1>2, ExportAssumption DEF Current, Class
<1>4. RecordOf(s) \in Record
  BY <1>2, <1>3 DEF RecordOf, Record, Kinds, Rendered
<1>5. [RecordOf(s) EXCEPT !.kind = "torn"] \in Record
  BY <1>4 DEF Record, Kinds
<1> QED
  BY <1>2, <1>4, <1>5 DEF Harmless, RecordOf, Record

\* The manifest grows by a harmless record, and what is committed stays.
LEMMA GrowsDisk ==
  ASSUME EInv, NEW s \in Sessions, session[s].at \in Busy, NEW e, Harmless(s, e),
         manifest' = Append(manifest, e), UNCHANGED <<checkpoint, file, bounds>>
  PROVE  /\ Disk' /\ manifest' \in Seq(Record) /\ manifest' # Absent
         /\ ~exhausted => \A c \in Checkpoint : Committed(c) => Committed(c)'
<1>0. manifest \in Seq(Record) /\ manifest # Absent /\ checkpoint # Absent
      /\ checkpoint.apk = session[s].loaded /\ e \in Record
  BY BusyFacts DEF Harmless
<1>1. /\ manifest' \in Seq(Record) /\ Len(manifest') = Len(manifest) + 1
      /\ manifest' # Absent
      /\ DOMAIN manifest' = 1 .. Len(manifest) + 1 /\ DOMAIN manifest = 1 .. Len(manifest)
      /\ Len(manifest) \in Nat
      /\ \A i \in 1 .. Len(manifest) : manifest'[i] = manifest[i]
      /\ manifest'[Len(manifest) + 1] = e
  BY <1>0, Appended
<1>2. \A i \in DOMAIN manifest' :
        (i \in DOMAIN manifest /\ manifest'[i] = manifest[i]) \/ manifest'[i] = e
  BY <1>1
<1>3. OneInput' /\ CancellationNotRecorded'
  BY <1>0, <1>1, <1>2 DEF EInv, Disk, OneInput, CancellationNotRecorded, Harmless
<1>4. Disk'
  BY <1>0, <1>1, <1>3 DEF EInv, Disk, Consistent
<1>5. ASSUME NEW c \in Checkpoint, Committed(c)
      PROVE  Committed(c)'
  <2>1. c.next \in Nat /\ c.next <= Len(manifest)
    BY <1>5 DEF Checkpoint, Committed
  <2>2. c.next <= Len(manifest') /\ \A i \in 1 .. c.next : manifest'[i] = manifest[i]
    BY <1>1, <2>1
  <2> QED
    BY <1>5, <2>2 DEF Committed, bounds
<1> QED
  BY <1>1, <1>4, <1>5

LEMMA JournalInv ==
  ASSUME EInv, NEW s \in Sessions, Journal(s)
  PROVE  EInv'
<1>0. /\ session[s].at = "journaling" /\ session[s].at \in Busy
      /\ UNCHANGED <<apk, lock, dir, checkpoint, completion, file, bounds>>
  BY DEF Journal, At, Busy, Working
<1>a. /\ session[s].at \in Held /\ {"committing", "finishing"} \subseteq Held \cap Loaded
      /\ "committing" \in Working /\ "committing" \notin Late /\ "finishing" \notin Late
      /\ "finishing" \notin Opened \cup Working
  BY <1>0 DEF Held, Loaded, Working, Ending, Late, Opened
<1>b. /\ manifest \in Seq(Record) /\ checkpoint \in Checkpoint /\ checkpoint # Absent
      /\ session[s].state \in Checkpoint
      /\ ~exhausted => checkpoint = session[s].state /\ Committed(session[s].state)
  BY <1>0, BusyFacts
<1>1. ASSUME NEW e, Harmless(s, e), manifest' = Append(manifest, e), Fails(s)
      PROVE  EInv'
  <2>1. /\ Alone(s) /\ Remembers(s) /\ session'[s].at = "finishing"
        /\ session'[s].ok = FALSE
    BY <1>1, FailsAlone DEF EInv
  <2>2. /\ Disk' /\ manifest' \in Seq(Record) /\ manifest' # Absent
        /\ ~exhausted => \A c \in Checkpoint : Committed(c) => Committed(c)'
    BY <1>0, <1>1, GrowsDisk
  <2>3. TypeOK'
    BY <1>0, <2>1, <2>2 DEF EInv, TypeOK, bounds, Alone, SessionState
  <2>4. Owns(s)'
    BY <1>0, <2>1, <2>2, BusyFacts DEF Owns, Remembers, Consistent
  <2>5. Follows(s)'
    BY <1>a, <2>1 DEF Follows
  <2>6. ~exhausted => checkpoint = session[s].state /\ Committed(session[s].state)'
    BY <1>b, <2>1, <2>2 DEF Remembers, Committed
  <2>7. ~exhausted => Synced(s)' /\ Committed(checkpoint)'
    BY <1>0, <1>a, <2>1, <2>6, BusyFacts DEF Synced, Remembers, Committed
  <2> QED
    BY <1>0, <1>a, <2>1, <2>2, <2>3, <2>4, <2>5, <2>7, WriteInv DEF bounds
<1>2. CASE manifest' = Append(manifest, RecordOf(s)) /\ Goes(s, "committing")
  <2>1. /\ Alone(s) /\ Remembers(s) /\ session'[s].at = "committing"
        /\ session'[s].rendered = session[s].rendered
    BY <1>2, GoesAlone DEF EInv, Places
  <2>2. /\ Disk' /\ manifest' \in Seq(Record) /\ manifest' # Absent
        /\ ~exhausted => \A c \in Checkpoint : Committed(c) => Committed(c)'
    BY <1>0, <1>2, RecordHarmless, GrowsDisk
  <2>3. TypeOK'
    BY <1>0, <2>1, <2>2 DEF EInv, TypeOK, bounds, Alone, SessionState
  <2>4. Owns(s)'
    BY <1>0, <2>1, <2>2, BusyFacts DEF Owns, Remembers, Consistent
  <2>5. Follows(s)'
    <3>1. Current(s)' = Current(s) /\ RecordOf(s)' = RecordOf(s)
      BY <2>1 DEF Current, RecordOf, Remembers
    <3>2. /\ Len(manifest) = session[s].state.next
          /\ session[s].state.next < NumClasses
          /\ session[s].rendered \in {"source", "failed"}
          /\ session[s].rendered = "source" /\ tampers = 0
               => file[Current(s)] = session[s].loaded
      BY <1>0 DEF EInv, Follows, Working
    <3>3. Len(manifest') = Len(manifest) + 1 /\ manifest'[Len(manifest) + 1] = RecordOf(s)
      BY <1>0, <1>b, <1>2, RecordHarmless, Appended DEF Harmless
    <3>4. Len(manifest') = Current(s) /\ manifest'[Current(s)] = RecordOf(s)
      BY <3>2, <3>3 DEF Current
    <3> QED
      BY <1>0, <2>1, <3>1, <3>2, <3>4 DEF Follows, Remembers, bounds
  <2>6. ~exhausted => checkpoint = session[s].state /\ Committed(session[s].state)'
    BY <1>b, <2>1, <2>2 DEF Remembers, Committed
  <2>7. ~exhausted => Synced(s)' /\ Committed(checkpoint)'
    BY <1>0, <1>a, <2>1, <2>6 DEF Synced, Remembers, Committed
  <2> QED
    BY <1>0, <1>a, <2>1, <2>2, <2>3, <2>4, <2>5, <2>7, WriteInv DEF bounds
<1>3. CASE Fails(s) /\ manifest' = manifest
  BY <1>0, <1>3, FailsInv DEF disk
<1>4. \/ manifest' = Append(manifest, RecordOf(s)) /\ Goes(s, "committing")
      \/ Fails(s) /\ manifest' = manifest
      \/ Fails(s) /\ manifest' = Append(manifest, RecordOf(s))
      \/ Fails(s) /\ manifest' = Append(manifest, [RecordOf(s) EXCEPT !.kind = "torn"])
  BY DEF Journal
<1>5. Harmless(s, RecordOf(s)) /\ Harmless(s, [RecordOf(s) EXCEPT !.kind = "torn"])
  BY <1>0, RecordHarmless
<1> QED
  BY <1>1, <1>2, <1>3, <1>4, <1>5

\* A class more counts as exported or as failed.
LEMMA Sums ==
  ASSUME NEW N \in Nat, NEW n \in 0 .. N, NEW e \in 0 .. N, NEW f \in 0 .. N,
         e + f = n, n < N, NEW d \in {0, 1}
  PROVE  /\ n + 1 \in 0 .. N /\ e + 1 - d \in 0 .. N /\ f + d \in 0 .. N
         /\ (e + 1 - d) + (f + d) = n + 1
         /\ f + d = 0 => f = 0 /\ d = 0
OBVIOUS

\* What the session has in memory moves past the class whose record it has written.
LEMMA AdvancedFacts ==
  ASSUME EInv, NEW s \in Sessions, session[s].at = "committing"
  PROVE  /\ Advanced(s) \in Checkpoint /\ Advanced(s) # Absent
         /\ Advanced(s).apk = session[s].loaded /\ Advanced(s).status = "running"
         /\ Advanced(s).next = session[s].state.next + 1
         /\ Advanced(s).next = Len(manifest) /\ Consistent(Advanced(s))
         /\ ~exhausted => Committed(Advanced(s))
<1> DEFINE st == session[s].state
           failed == IF session[s].rendered = "source" THEN 0 ELSE 1
           A == Advanced(s)
<1>0. session[s].at \in Busy /\ session[s].at \in Working
  BY DEF Busy, Working
<1>1. /\ st \in Checkpoint /\ st.next < NumClasses /\ st.apk = session[s].loaded
      /\ st.status = "running" /\ st.bytes = st.next /\ st.exported + st.failed = st.next
      /\ Len(manifest) = st.next + 1 /\ manifest[st.next + 1] = RecordOf(s)
      /\ session[s].rendered \in {"source", "failed"}
      /\ session[s].rendered = "source" /\ tampers = 0
           => file[st.next + 1] = session[s].loaded
      /\ Current(s) = st.next + 1
  BY <1>0, BusyFacts DEF EInv, Follows, Consistent, Current, Working
<1>2. /\ st.next \in 0 .. NumClasses /\ st.exported \in 0 .. NumClasses
      /\ st.failed \in 0 .. NumClasses /\ NumClasses \in Nat
  BY <1>1, ExportAssumption DEF Checkpoint
<1>3. A = [st EXCEPT !.next = st.next + 1, !.bytes = Len(manifest),
                     !.exported = st.exported + 1 - failed, !.failed = st.failed + failed]
  BY <1>1 DEF Advanced, Checkpoint
<1>4. failed \in {0, 1} /\ (failed = 0 <=> session[s].rendered = "source")
  OBVIOUS
<1> HIDE DEF A, failed
<1>a. /\ st.next + 1 \in 0 .. NumClasses
      /\ st.exported + 1 - failed \in 0 .. NumClasses
      /\ st.failed + failed \in 0 .. NumClasses
      /\ (st.exported + 1 - failed) + (st.failed + failed) = st.next + 1
      /\ st.failed + failed = 0 => st.failed = 0 /\ failed = 0
  <2> DEFINE n == st.next
             e == st.exported
             f == st.failed
  <2>1. n \in 0 .. NumClasses /\ e \in 0 .. NumClasses /\ f \in 0 .. NumClasses
        /\ e + f = n /\ n < NumClasses
    BY <1>1, <1>2
  <2> HIDE DEF n, e, f
  <2>2. /\ n + 1 \in 0 .. NumClasses /\ e + 1 - failed \in 0 .. NumClasses
        /\ f + failed \in 0 .. NumClasses
        /\ (e + 1 - failed) + (f + failed) = n + 1
        /\ f + failed = 0 => f = 0 /\ failed = 0
    BY <1>2, <1>4, <2>1, Sums
  <2> QED
    BY <2>2 DEF n, e, f
<1>5. /\ A \in Checkpoint /\ A.apk = st.apk /\ A.status = st.status
      /\ A.next = st.next + 1 /\ A.bytes = st.next + 1
      /\ A.exported = st.exported + 1 - failed /\ A.failed = st.failed + failed
  BY <1>1, <1>3, <1>a DEF Checkpoint
<1>6. Consistent(A)
  BY <1>5, <1>a DEF Consistent
<1>7. ASSUME ~exhausted
      PROVE  Committed(A)
  <2> SUFFICES ASSUME NEW i \in 1 .. st.next + 1
               PROVE  /\ manifest[i].class = i /\ manifest[i].kind # "torn"
                      /\ manifest[i].kind = "exported" /\ tampers = 0
                           => file[i] = manifest[i].content
                      /\ A.failed = 0 => manifest[i].kind = "exported"
    BY <1>1, <1>2, <1>5 DEF Committed
  <2>1. A.failed = 0 => st.failed = 0 /\ session[s].rendered = "source"
    BY <1>4, <1>5, <1>a
  <2>2. CASE i = st.next + 1
    BY <1>1, <2>1, <2>2 DEF RecordOf
  <2>3. CASE i # st.next + 1
    <3>1. i \in 1 .. st.next
      BY <1>2, <2>3
    <3>2. Committed(st)
      BY <1>0, <1>7, BusyFacts
    <3> QED
      BY <2>1, <3>1, <3>2 DEF Committed
  <2> QED
    BY <2>2, <2>3
<1>8. A # Absent
  BY <1>5, AbsentAssumption
<1> QED
  BY <1>1, <1>5, <1>6, <1>7, <1>8 DEF A

LEMMA CommitInv ==
  ASSUME EInv, NEW s \in Sessions, Commit(s)
  PROVE  EInv'
<1> DEFINE A == Advanced(s)
<1>0. /\ session[s].at = "committing" /\ session[s].at \in Busy
      /\ UNCHANGED <<apk, lock, dir, manifest, completion, file, bounds>>
  BY DEF Commit, At, Busy, Working
<1>1. /\ A \in Checkpoint /\ A # Absent /\ A.apk = session[s].loaded /\ A.status = "running"
      /\ A.next = session[s].state.next + 1 /\ A.next = Len(manifest) /\ Consistent(A)
      /\ ~exhausted => Committed(A)
  BY <1>0, AdvancedFacts
<1> HIDE DEF A
<1>2. /\ checkpoint # Absent /\ checkpoint.apk = session[s].loaded /\ manifest # Absent
      /\ session[s].at \in Held /\ session[s].state.status = "running"
      /\ session[s].state \in Checkpoint
      /\ ~exhausted => checkpoint = session[s].state /\ Committed(session[s].state)
  BY <1>0, BusyFacts
<1>3. /\ {"classing", "finishing"} \subseteq Held \cap Loaded /\ "classing" \in Working
      /\ "classing" \notin Late /\ "finishing" \notin Late
      /\ "finishing" \notin Opened \cup Working
  BY DEF Held, Loaded, Working, Ending, Late, Opened
<1>4. UNCHANGED <<manifest, file, tampers, exhausted>>
  BY <1>0 DEF bounds
<1>5. CASE /\ checkpoint' = A
           /\ session' = [session EXCEPT ![s].at = "classing", ![s].state = A,
                                         ![s].rendered = "none"]
  <2> DEFINE r == [session[s] EXCEPT !.at = "classing", !.state = A, !.rendered = "none"]
  <2>1. /\ r \in SessionState /\ r.at = "classing" /\ r.state = A
        /\ r.loaded = session[s].loaded
    BY <1>1, ZenonT(30) DEF EInv, TypeOK, SessionState, Places, Rendered
  <2>2. session' = [session EXCEPT ![s] = r]
    BY <1>5
  <2> HIDE DEF r
  <2>3. /\ Alone(s) /\ session'[s].at = "classing" /\ session'[s].state = A
        /\ session'[s].loaded = session[s].loaded
    BY <2>1, <2>2, Becomes DEF EInv
  <2>4. TypeOK'
    BY <1>0, <1>1, <1>5, <2>3 DEF EInv, TypeOK, bounds, Alone, SessionState
  <2>5. Disk'
    BY <1>0, <1>1, <1>2, <1>5, SameRecords DEF EInv, Consistent
  <2>6. Owns(s)'
    BY <1>0, <1>1, <1>2, <1>5, <2>3 DEF Owns, Consistent
  <2>7. Follows(s)'
    BY <1>0, <1>1, <2>3 DEF Follows
  <2>8. ~exhausted => Synced(s)' /\ Committed(checkpoint)'
    <3>1. ~exhausted => Committed(session[s].state)' /\ Committed(checkpoint)'
      BY <1>1, <1>4, <1>5, <2>3 DEF Committed
    <3> QED
      BY <1>3, <1>4, <1>5, <2>3, <3>1 DEF Synced
  <2> QED
    BY <1>0, <1>1, <1>2, <1>3, <1>5, <2>3, <2>4, <2>5, <2>6, <2>7, <2>8, WriteInv DEF bounds
<1>6. CASE /\ session' = [session EXCEPT ![s].at = "finishing", ![s].ok = FALSE, ![s].state = A]
           /\ UNCHANGED checkpoint
  <2> DEFINE r == [session[s] EXCEPT !.at = "finishing", !.ok = FALSE, !.state = A]
  <2>1. /\ r \in SessionState /\ r.at = "finishing" /\ r.state = A /\ r.ok = FALSE
        /\ r.loaded = session[s].loaded
    BY <1>1, ZenonT(30) DEF EInv, TypeOK, SessionState, Places
  <2>2. session' = [session EXCEPT ![s] = r]
    BY <1>6
  <2> HIDE DEF r
  <2>3. /\ Alone(s) /\ session'[s].at = "finishing" /\ session'[s].state = A
        /\ session'[s].loaded = session[s].loaded /\ session'[s].ok = FALSE
    BY <2>1, <2>2, Becomes DEF EInv
  <2>4. Owns(s)'
    BY <1>0, <1>1, <1>2, <1>6, <2>3 DEF Owns, Consistent
  <2>5. Follows(s)'
    BY <1>3, <2>3 DEF Follows
  <2>6. ~exhausted => Synced(s)'
    <3>1. ~exhausted => Committed(session[s].state)'
      BY <1>1, <1>4, <2>3 DEF Committed
    <3>2. ~exhausted => checkpoint.next + 1 = A.next /\ checkpoint.status = "running"
      BY <1>1, <1>2
    <3> QED
      BY <1>3, <1>4, <1>6, <2>3, <3>1, <3>2 DEF Synced
  <2>7. completion' \in Statuses \cup {Absent}
    BY <1>0 DEF EInv, TypeOK
  <2> QED
    BY <1>0, <1>2, <1>3, <1>6, <2>3, <2>4, <2>5, <2>6, <2>7, StepInv
<1> QED
  BY <1>5, <1>6 DEF Commit, A

\* The final status.
LEMMA FinishStatusInv ==
  ASSUME EInv, NEW s \in Sessions, FinishStatus(s)
  PROVE  EInv'
<1>0. /\ session[s].at = "finishing" /\ session[s].at \in Held \cap Loaded
      /\ UNCHANGED <<apk, lock, dir, manifest, completion, file, bounds>>
  BY DEF FinishStatus, At, Held, Loaded, Ending
<1>1. CASE Goes(s, "closing") /\ UNCHANGED checkpoint
  <2>1. completion' \in Statuses \cup {Absent}
    BY <1>0 DEF EInv, TypeOK
  <2> QED
    BY <1>0, <1>1, <2>1, ClosingInv
<1>2. CASE /\ checkpoint' = [session[s].state EXCEPT !.status = Verdict(s)]
           /\ session' = [session EXCEPT ![s].at = "completing", ![s].state.status = Verdict(s)]
  <2> DEFINE v == Verdict(s)
             A == [session[s].state EXCEPT !.status = v]
             r == [session[s] EXCEPT !.at = "completing", !.state = A]
  <2>1. v \in Statuses
    BY DEF Verdict, Statuses
  <2>2. session[s].state \in Checkpoint
    BY DEF EInv, TypeOK
  <2> HIDE DEF v
  <2>3. /\ A \in Checkpoint /\ A.apk = session[s].state.apk /\ A.next = session[s].state.next
        /\ A.bytes = session[s].state.bytes /\ A.exported = session[s].state.exported
        /\ A.failed = session[s].state.failed
    BY <2>1, <2>2 DEF Checkpoint
  <2>4. checkpoint' = A
    BY <1>2 DEF v
  <2>5. session' = [session EXCEPT ![s] = r]
    BY <1>2 DEF v
  <2> HIDE DEF A
  <2>6. /\ r \in SessionState /\ r.at = "completing" /\ r.state = A
        /\ r.loaded = session[s].loaded
    BY <2>3, ZenonT(30) DEF EInv, TypeOK, SessionState, Places
  <2> HIDE DEF r
  <2>7. /\ Alone(s) /\ session'[s].at = "completing" /\ session'[s].state = A
        /\ session'[s].loaded = session[s].loaded
    BY <2>5, <2>6, Becomes DEF EInv
  <2>8. /\ manifest # Absent /\ session[s].state.apk = session[s].loaded
        /\ Consistent(session[s].state)
        /\ checkpoint # Absent /\ checkpoint.apk = session[s].loaded
    BY <1>0 DEF EInv, Owns
  <2>9. A # Absent /\ Consistent(A)
    BY <2>3, <2>8, AbsentAssumption DEF Consistent
  <2>10. TypeOK'
    BY <1>0, <2>3, <2>4, <2>7 DEF EInv, TypeOK, bounds, Alone, SessionState
  <2>11. Disk'
    BY <1>0, <2>3, <2>4, <2>8, <2>9, SameRecords DEF EInv, Consistent
  <2>12. /\ "completing" \in Held \cap Loaded
         /\ "completing" \notin Late /\ "completing" \notin Opened \cup Working
    BY DEF Held, Loaded, Late, Opened, Working, Ending
  <2>13. Owns(s)'
    BY <1>0, <2>3, <2>4, <2>7, <2>8, <2>9 DEF Owns, Consistent
  <2>14. Follows(s)'
    BY <2>7, <2>12 DEF Follows
  <2>15. ~exhausted => Committed(session[s].state)
    BY <1>0 DEF EInv, Started, Synced
  <2>16. ~exhausted => Committed(session[s].state)' /\ Committed(checkpoint)'
    BY <1>0, <2>3, <2>4, <2>7, <2>15 DEF Committed, bounds
  <2>17. ~exhausted => Synced(s)' /\ Committed(checkpoint)'
    BY <1>0, <2>7, <2>12, <2>16 DEF Synced, bounds
  <2> QED
    BY <1>0, <2>3, <2>4, <2>7, <2>8, <2>9, <2>10, <2>11, <2>12, <2>13, <2>14, <2>17, WriteInv
       DEF bounds
<1> QED
  BY <1>1, <1>2 DEF FinishStatus

-----------------------------------------------------------------------------
(* All steps *)

LEMMA InitEInv == Init => EInv
<1> SUFFICES ASSUME Init
             PROVE  EInv
  OBVIOUS
<1>0. /\ apk \in Versions /\ checkpoint = Absent /\ manifest = Absent /\ lock = Nobody
      /\ session = [s \in Sessions |-> Away(apk)]
  BY DEF Init
<1>1. Away(apk) \in SessionState /\ Away(apk).at = "away"
  BY <1>0, AwayState DEF Places
<1>2. \A s \in Sessions : session[s] \in SessionState /\ session[s].at = "away"
  BY <1>0, <1>1
<1>3. TypeOK
  <2>1. session \in [Sessions -> SessionState]
    BY <1>0, <1>1
  <2>2. 0 \in 0 .. MaxRuns /\ 0 \in 0 .. MaxTampers
    BY ExportAssumption
  <2> QED
    BY <2>1, <2>2 DEF Init, TypeOK, SessionState
<1>4. Exclusive
  <2>1. "away" \notin Held
    BY DEF Held, Opened, Working, Ending
  <2> QED
    BY <1>0, <1>2, <2>1, ExportAssumption DEF Exclusive
<1>5. Disk
  BY <1>0 DEF Disk, OneInput, CancellationNotRecorded
<1>6. ASSUME NEW s \in Sessions
      PROVE  Owns(s) /\ Follows(s) /\ Synced(s)
  <2>1. "away" \notin Loaded /\ "away" \notin Working /\ "away" \notin Opened
        /\ "away" \notin Late
    BY DEF Loaded, Working, Opened, Ending, Late
  <2> QED
    BY <1>2, <2>1 DEF Owns, Follows, Synced
<1>7. Started
  BY <1>0, <1>6 DEF Started
<1> QED
  BY <1>3, <1>4, <1>5, <1>6, <1>7 DEF EInv

\* The input is replaced, or somebody else touches a source file.
LEMMA OutsideInv ==
  ASSUME EInv, ReplaceInput \/ Tamper
  PROVE  EInv'
<1>1. CASE ReplaceInput
  <2>1. UNCHANGED <<lock, dir, manifest, checkpoint, completion, file, session, bounds>>
        /\ apk' \in Versions
    BY <1>1 DEF ReplaceInput, disk
  <2>2. TypeOK' /\ Exclusive'
    BY <2>1 DEF EInv, TypeOK, Exclusive, bounds
  <2>3. Disk'
    BY <2>1 DEF EInv, Disk, OneInput, CancellationNotRecorded, Consistent
  <2>4. ASSUME NEW s \in Sessions
        PROVE  Owns(s)' /\ Follows(s)' /\ (~exhausted => Synced(s)')
    <3>1. Owns(s)'
      BY <2>1 DEF EInv, Owns, Consistent
    <3>2. Follows(s)'
      BY <2>1 DEF EInv, Follows, Current, RecordOf, bounds
    <3>3. ~exhausted => Synced(s)'
      BY <2>1 DEF EInv, Started, Synced, Committed, bounds
    <3> QED
      BY <3>1, <3>2, <3>3
  <2>5. Started'
    BY <2>1, <2>4 DEF EInv, Started, Committed, bounds
  <2> QED
    BY <2>2, <2>3, <2>4, <2>5 DEF EInv
<1>2. CASE Tamper
  <2>1. /\ UNCHANGED <<apk, lock, dir, manifest, checkpoint, completion, session, runs, exhausted>>
        /\ tampers' # 0 /\ tampers' \in 0 .. MaxTampers
        /\ file' \in [Class -> Versions \cup {Foreign, Absent}]
    BY <1>2, ExportAssumption DEF Tamper, EInv, TypeOK
  <2>2. TypeOK' /\ Exclusive'
    BY <2>1 DEF EInv, TypeOK, Exclusive
  <2>3. Disk'
    BY <2>1 DEF EInv, Disk, OneInput, CancellationNotRecorded, Consistent
  <2>4. ASSUME NEW s \in Sessions
        PROVE  Owns(s)' /\ Follows(s)' /\ (~exhausted => Synced(s)')
    <3>1. Owns(s)'
      BY <2>1 DEF EInv, Owns, Consistent
    <3>2. Follows(s)'
      BY <2>1 DEF EInv, Follows, Current, RecordOf
    <3>3. ~exhausted => Synced(s)'
      BY <2>1 DEF EInv, Started, Synced, Committed
    <3> QED
      BY <3>1, <3>2, <3>3
  <2>5. Started'
    BY <2>1, <2>4 DEF EInv, Started, Committed
  <2> QED
    BY <2>2, <2>3, <2>4, <2>5 DEF EInv
<1> QED
  BY <1>1, <1>2

LEMMA NextEInv ==
  ASSUME EInv, [Next]_vars
  PROVE  EInv'
<1>1. ASSUME NEW s \in Sessions, Begin(s) \/ Open(s)
      PROVE  EInv'
  BY <1>1, BeginInv, OpenDirectoryInv, LockInv, ReadCheckpointInv, CreateManifestInv,
     SaveRunningInv, ClearCompletionInv DEF Open
<1>2. ASSUME NEW s \in Sessions, Start(s)
      PROVE  EInv'
  BY <1>2, SpawnInv, SpawnFailedInv, SaveSpawnFailureInv, DroppedInv DEF Start
<1>3. ASSUME NEW s \in Sessions, Run(s)
      PROVE  EInv'
  BY <1>3, ValidateInv, NextClassInv, LastClassDoneInv, RenderInv, AfterRenderInv, CheckFileInv,
     PersistInv, JournalInv, CommitInv DEF Run
<1>4. ASSUME NEW s \in Sessions, Finish(s) \/ Cancel(s) \/ Crash(s)
      PROVE  EInv'
  <2>1. CASE FinishCompletion(s)
    <3>1. session[s].state.status \in Statuses
      BY DEF EInv, TypeOK, Checkpoint
    <3>2. completion' \in Statuses \cup {Absent}
      BY <2>1, <3>1 DEF FinishCompletion, EInv, TypeOK
    <3> QED
      BY <2>1, <3>2, ClosingInv DEF FinishCompletion, At
  <2>2. CASE FinishStatus(s) \/ Cancel(s)
    BY <2>2, FinishStatusInv, CancelInv
  <2>3. CASE Close(s) \/ Crash(s)
    BY <2>3, DroppedInv
  <2> QED
    BY <1>4, <2>1, <2>2, <2>3 DEF Finish
<1>5. CASE UNCHANGED vars
  <2>1. UNCHANGED <<apk, lock, dir, manifest, checkpoint, completion, file, session,
                    runs, tampers, exhausted>>
    BY <1>5 DEF vars, disk, bounds
  <2>2. TypeOK' /\ Exclusive'
    BY <2>1 DEF EInv, TypeOK, Exclusive
  <2>3. Disk'
    BY <2>1 DEF EInv, Disk, OneInput, CancellationNotRecorded, Consistent
  <2>4. ASSUME NEW s \in Sessions
        PROVE  Owns(s)' /\ Follows(s)' /\ (~exhausted => Synced(s)')
    <3>1. Owns(s)'
      BY <2>1 DEF EInv, Owns, Consistent
    <3>2. Follows(s)'
      BY <2>1 DEF EInv, Follows, Current, RecordOf
    <3>3. ~exhausted => Synced(s)'
      BY <2>1 DEF EInv, Started, Synced, Committed
    <3> QED
      BY <3>1, <3>2, <3>3
  <2>5. Started'
    BY <2>1, <2>4 DEF EInv, Started, Committed
  <2> QED
    BY <2>2, <2>3, <2>4, <2>5 DEF EInv
<1> QED
  BY <1>1, <1>2, <1>3, <1>4, <1>5, OutsideInv DEF Next

\* EInv holds throughout.
LEMMA Invariance == Spec => []EInv
<1> QED
  BY InitEInv, NextEInv, PTL DEF Spec

-----------------------------------------------------------------------------
(* What follows *)

\* The variables have their types.
THEOREM TypeCorrect == Spec => []TypeOK
<1>1. EInv => TypeOK
  BY DEF EInv
<1> QED
  BY <1>1, Invariance, PTL

\* What a checkpoint counts as committed is there, after every crash, failed write, torn record
\* and resumption, as long as threads start: the records in order, the sums, and the files that
\* nobody else has touched.
THEOREM CheckpointSound == Spec => []CommittedSound
<1>1. EInv => CommittedSound
  <2> SUFFICES ASSUME EInv, Visible
               PROVE  CommittedSound
    BY DEF CommittedSound
  <2>1. checkpoint # Absent /\ ~exhausted
    BY DEF Visible
  <2>2. Committed(checkpoint) /\ Consistent(checkpoint) /\ manifest # Absent
    BY <2>1 DEF EInv, Started, Disk
  <2> QED
    BY <2>2 DEF CommittedSound, Committed, Consistent
<1> QED
  BY <1>1, Invariance, PTL

\* All records of a directory are of the input its checkpoint names, although the input is
\* replaced at any time and sessions write after they have lost the lock.
THEOREM InputsNeverMixed == Spec => []OneInput
<1>1. EInv => OneInput
  BY DEF EInv, Disk
<1> QED
  BY <1>1, Invariance, PTL

\* No record says that an interrupted rendering failed.
THEOREM CancellationsForgotten == Spec => []CancellationNotRecorded
<1>1. EInv => CancellationNotRecorded
  BY DEF EInv, Disk
<1> QED
  BY <1>1, Invariance, PTL

\* A source file that exists stays as it is, unless somebody else touches it.
THEOREM FilesKept == Spec => NeverOverwritten
<1>1. ASSUME TypeOK, [Next]_vars, tampers' = tampers, NEW c \in Class, file[c] # Absent
      PROVE  file'[c] = file[c]
  <2>1. CASE \E s \in Sessions : Persist(s)
    BY <1>1, <2>1 DEF Persist, TypeOK
  <2>2. CASE Tamper
    BY <1>1, <2>2 DEF Tamper, TypeOK
  <2>3. CASE UNCHANGED file
    BY <2>3
  <2>4. ASSUME NEW s \in Sessions,
               Begin(s) \/ Open(s) \/ Start(s) \/ Run(s) \/ Finish(s) \/ Cancel(s) \/ Crash(s)
        PROVE  Persist(s) \/ UNCHANGED file
    <3>1. CASE Begin(s) \/ Open(s)
      BY <3>1 DEF Begin, Open, OpenDirectory, Lock, ReadCheckpoint, CreateManifest, SaveRunning,
                  ClearCompletion, disk
    <3>2. CASE Start(s)
      BY <3>2 DEF Start, Spawn, SpawnFailed, SaveSpawnFailure, MarkSpawnFailure, disk
    <3>3. CASE Run(s)
      BY <3>3 DEF Run, Validate, NextClass, LastClassDone, Render, AfterRender, CheckFile,
                  Journal, Commit, disk
    <3>4. CASE Finish(s) \/ Cancel(s) \/ Crash(s)
      BY <3>4 DEF Finish, FinishStatus, FinishCompletion, Close, Cancel, Crash, disk
    <3> QED
      BY <2>4, <3>1, <3>2, <3>3, <3>4
  <2> QED
    BY <1>1, <2>1, <2>2, <2>3, <2>4 DEF Next, ReplaceInput, vars, disk
<1>2. TypeOK /\ [Next]_vars
        => [tampers' = tampers => \A c \in Class : file[c] # Absent => file'[c] = file[c]]_vars
  BY <1>1
<1> QED
  BY <1>2, TypeCorrect, PTL DEF Spec, NeverOverwritten

-----------------------------------------------------------------------------
(* The ledger *)

\* One more class settled is one more entry.
LEMMA Grown ==
  ASSUME NEW n \in Nat, NEW m, NEW S, \A i \in 1 .. n + 1 : m[i].kind \in S
  PROVE  /\ Len([i \in 1 .. n |-> m[i].kind]) = n
         /\ [i \in 1 .. n + 1 |-> m[i].kind] = Append([i \in 1 .. n |-> m[i].kind], m[n + 1].kind)
<1> DEFINE f == [i \in 1 .. n |-> m[i].kind]
           g == [i \in 1 .. n + 1 |-> m[i].kind]
           e == m[n + 1].kind
<1>1. f \in [1 .. n -> S] /\ g \in [1 .. n + 1 -> S] /\ e \in S
  OBVIOUS
<1>2. f \in Seq(S) /\ g \in Seq(S)
  BY <1>1
<1>3. Len(f) = n /\ Len(g) = n + 1
  <2>1. DOMAIN f = 1 .. n /\ DOMAIN g = 1 .. n + 1
    OBVIOUS
  <2> HIDE DEF f, g
  <2>2. Len(f) \in Nat /\ DOMAIN f = 1 .. Len(f) /\ Len(g) \in Nat /\ DOMAIN g = 1 .. Len(g)
    BY <1>2, LenProperties
  <2> QED
    BY <2>1, <2>2
<1>4. \A i \in 1 .. n : g[i] = f[i]
  OBVIOUS
<1>5. g[n + 1] = e
  OBVIOUS
<1> HIDE DEF f, g, e
<1>6. /\ Append(f, e) \in Seq(S) /\ Len(Append(f, e)) = n + 1
      /\ \A i \in 1 .. n : Append(f, e)[i] = f[i]
      /\ Append(f, e)[n + 1] = e
  BY <1>1, <1>2, <1>3, AppendProperties
<1>7. \A i \in 1 .. n + 1 : g[i] = Append(f, e)[i]
  <2> SUFFICES ASSUME NEW i \in 1 .. n + 1
               PROVE  g[i] = Append(f, e)[i]
    OBVIOUS
  <2>1. CASE i \in 1 .. n
    BY <1>4, <1>6, <2>1
  <2>2. CASE i = n + 1
    BY <1>5, <1>6, <2>2
  <2>3. i \in 1 .. n \/ i = n + 1
    OBVIOUS
  <2> QED
    BY <2>1, <2>2, <2>3
<1>8. g = Append(f, e)
  BY <1>2, <1>3, <1>6, <1>7, SeqEqual
<1> QED
  BY <1>3, <1>8 DEF f, g, e

\* A step that keeps the checkpoint and what it counts is not seen.
LEMMA Unseen ==
  ASSUME UNCHANGED <<checkpoint, exhausted>>,
         Visible => \A i \in 1 .. checkpoint.next : manifest'[i] = manifest[i]
  PROVE  UNCHANGED <<Entries, Status>>
BY DEF Visible, Entries, Status

\* A session that writes the checkpoint settles at most one class.
LEMMA Settles ==
  ASSUME EInv, ~exhausted, checkpoint # Absent, NEW c \in Checkpoint, c # Absent, Committed(c),
         c.next = checkpoint.next \/ c.next = checkpoint.next + 1,
         checkpoint' = c, UNCHANGED <<manifest, exhausted>>
  PROVE  /\ Entries' \in {Entries} \cup {Append(Entries, e) : e \in {"exported", "failed"}}
         /\ Len(Entries) = checkpoint.next /\ Len(Entries') = c.next
         /\ Status = checkpoint.status /\ Status' = c.status
         /\ \A i \in 1 .. c.next : Entries'[i] = manifest[i].kind
<1> DEFINE K == {"exported", "failed"}
           n == checkpoint.next
<1>1. /\ Entries = [i \in 1 .. n |-> manifest[i].kind]
      /\ Entries' = [i \in 1 .. c.next |-> manifest[i].kind]
      /\ Status = checkpoint.status /\ Status' = c.status
  BY DEF Entries, Status, Visible
<1>2. n \in Nat /\ c.next \in Nat /\ checkpoint \in Checkpoint
  BY ExportAssumption DEF EInv, TypeOK, Checkpoint
<1>3. \A i \in 1 .. c.next : manifest[i].kind \in K
  <2>1. c.next <= Len(manifest) /\ \A i \in 1 .. c.next : manifest[i].kind # "torn"
    BY DEF Committed
  <2>2. manifest \in Seq(Record)
    BY DEF EInv, TypeOK, Disk
  <2>3. \A i \in 1 .. Len(manifest) : manifest[i] \in Record
    BY <2>2, ElementOfSeq
  <2>4. Len(manifest) \in Nat
    BY <2>2, LenProperties
  <2>5. \A i \in 1 .. c.next : manifest[i] \in Record
    BY <1>2, <2>1, <2>3, <2>4
  <2> QED
    BY <2>1, <2>5 DEF Record, Kinds
<1> HIDE DEF n
<1>4. CASE c.next = n
  <2>1. Entries' = Entries
    BY <1>1, <1>4
  <2>2. Len(Entries) = n
    <3>1. Entries \in [1 .. n -> K]
      BY <1>1, <1>3, <1>4
    <3>2. Entries \in Seq(K)
      BY <1>2, <3>1
    <3> QED
      BY <1>2, <3>1, <3>2, LenProperties
  <2> QED
    BY <1>1, <1>4, <2>1, <2>2 DEF n
<1>5. CASE c.next = n + 1
  <2>1. \A i \in 1 .. n + 1 : manifest[i].kind \in K
    BY <1>3, <1>5
  <2>2. Len(Entries) = n /\ Entries' = Append(Entries, manifest[n + 1].kind)
    BY <1>1, <1>2, <1>5, <2>1, Grown
  <2>3. manifest[n + 1].kind \in K
    BY <1>2, <2>1
  <2>4. Len(Entries') = n + 1
    <3>1. Entries \in [1 .. n -> K]
      BY <1>1, <1>2, <2>1
    <3>2. Entries \in Seq(K)
      BY <1>2, <3>1
    <3> QED
      BY <2>2, <2>3, <3>2, AppendProperties
  <2> QED
    BY <1>1, <1>5, <2>2, <2>3, <2>4 DEF n
<1> QED
  BY <1>4, <1>5 DEF n

\* The first checkpoint opens the ledger, the first one of a resumption resumes it.
LEMMA SaveRunningLedger ==
  ASSUME EInv, NEW s \in Sessions, SaveRunning(s), ~exhausted
  PROVE  [Ledger!Next]_<<Entries, Status>>
<1>0. /\ session[s].at = "saving" /\ UNCHANGED <<manifest, exhausted>>
      /\ session[s].state \in Checkpoint /\ session[s].state # Absent
      /\ session[s].state.status = "running" /\ Committed(session[s].state)
  <2>1. session[s].at = "saving" /\ "saving" \in Loaded
    BY DEF SaveRunning, At, Loaded
  <2> QED
    BY <2>1, AbsentAssumption DEF SaveRunning, bounds, EInv, TypeOK, Owns, Started, Synced
<1>1. CASE checkpoint' = checkpoint
  BY <1>0, <1>1, Unseen
<1>2. CASE checkpoint' = session[s].state /\ checkpoint = Absent
  <2>1. Entries = <<>> /\ Status = "none"
    BY <1>2 DEF Entries, Status, Visible
  <2>2. session[s].state = Fresh(session[s].loaded)
    BY <1>0, <1>2 DEF EInv, Started, Synced
  <2>3. checkpoint'.next = 0 /\ Visible'
    BY <1>0, <1>2, <2>2 DEF Fresh, Visible
  <2>4. Entries' = [i \in 1 .. 0 |-> manifest[i].kind] /\ Status' = "running"
    BY <1>0, <1>2, <2>3 DEF Entries, Status
  <2>5. Entries' = <<>>
    BY <2>4
  <2> QED
    BY <2>1, <2>4, <2>5 DEF Ledger!Next, Ledger!Open
<1>3. CASE checkpoint' = session[s].state /\ checkpoint # Absent
  <2>1. /\ session[s].state = [checkpoint EXCEPT !.status = "running"]
        /\ checkpoint.status # "complete" /\ checkpoint \in Checkpoint
    BY <1>0, <1>3 DEF EInv, TypeOK, Started, Synced
  <2>2. session[s].state.next = checkpoint.next
        /\ checkpoint.status \in {"running", "cancelled", "incomplete"}
    BY <2>1 DEF Checkpoint, Statuses
  <2>3. Visible /\ Visible'
    BY <1>0, <1>3 DEF Visible
  <2>4. Entries' = Entries /\ Status = checkpoint.status /\ Status' = "running"
    BY <1>0, <1>3, <2>2, <2>3 DEF Entries, Status
  <2> QED
    BY <2>2, <2>4 DEF Ledger!Next, Ledger!Resume
<1> QED
  BY <1>1, <1>2, <1>3 DEF SaveRunning

LEMMA CommitLedger ==
  ASSUME EInv, NEW s \in Sessions, Commit(s), ~exhausted
  PROVE  [Ledger!Next]_<<Entries, Status>>
<1>0. /\ session[s].at = "committing" /\ session[s].at \in Busy /\ session[s].at \in Working
      /\ UNCHANGED <<manifest, exhausted>>
  BY DEF Commit, At, Busy, Working, bounds
<1>1. CASE checkpoint' = checkpoint
  BY <1>0, <1>1, Unseen
<1>2. CASE checkpoint' = Advanced(s)
  <2>1. /\ checkpoint = session[s].state /\ checkpoint # Absent
        /\ checkpoint.status = "running"
        /\ checkpoint.next < NumClasses
    BY <1>0, BusyFacts DEF EInv, Follows
  <2>2. /\ Advanced(s) \in Checkpoint /\ Advanced(s) # Absent /\ Committed(Advanced(s))
        /\ Advanced(s).status = "running" /\ Advanced(s).next = checkpoint.next + 1
    BY <1>0, <2>1, AdvancedFacts
  <2>3. /\ Entries' \in {Entries} \cup {Append(Entries, e) : e \in {"exported", "failed"}}
        /\ Len(Entries) = checkpoint.next /\ Status = checkpoint.status
        /\ Status' = "running"
    BY <1>0, <1>2, <2>1, <2>2, Settles
  <2> QED
    BY <2>1, <2>3 DEF Ledger!Next, Ledger!Settle, Ledger!Settled
<1> QED
  BY <1>1, <1>2 DEF Commit

\* The last checkpoint stops the ledger, or completes it if every class was exported.
LEMMA FinishLedger ==
  ASSUME EInv, NEW s \in Sessions, FinishStatus(s), ~exhausted
  PROVE  [Ledger!Next]_<<Entries, Status>>
<1> DEFINE st == session[s].state
           v == Verdict(s)
           A == [st EXCEPT !.status = v]
<1>0. /\ session[s].at = "finishing" /\ session[s].at \in Loaded
      /\ UNCHANGED <<manifest, exhausted>>
  BY DEF FinishStatus, At, Loaded, Ending, bounds
<1>1. CASE checkpoint' = checkpoint
  BY <1>0, <1>1, Unseen
<1>2. CASE checkpoint' = A
  <2>1. /\ checkpoint # Absent /\ checkpoint.status = "running" /\ Committed(st)
        /\ st.next = checkpoint.next \/ st.next = checkpoint.next + 1
        /\ session[s].ok => checkpoint = st /\ st.next = NumClasses
        /\ st \in Checkpoint
    BY <1>0 DEF EInv, TypeOK, Owns, Follows, Started, Synced
  <2>2. v \in {"complete", "cancelled", "incomplete"}
        /\ (v = "complete" => session[s].ok /\ st.failed = 0)
    BY DEF Verdict
  <2> HIDE DEF v
  <2>3. /\ A \in Checkpoint /\ A.next = st.next /\ A.failed = st.failed /\ A.status = v
    BY <2>1, <2>2 DEF Checkpoint, Statuses
  <2> HIDE DEF A, st
  <2>4. A # Absent /\ Committed(A)
    BY <2>1, <2>3, AbsentAssumption DEF Committed
  <2>5. /\ Entries' \in {Entries} \cup {Append(Entries, e) : e \in {"exported", "failed"}}
        /\ Len(Entries) = checkpoint.next /\ Len(Entries') = A.next
        /\ Status = "running" /\ Status' = v
        /\ \A i \in 1 .. A.next : Entries'[i] = manifest[i].kind
        /\ A.next = checkpoint.next => Entries' = Entries
    <3>1. A.next = checkpoint.next \/ A.next = checkpoint.next + 1
      BY <2>1, <2>3
    <3>2. A.next = checkpoint.next => Entries' = Entries
      BY <1>0, <1>2, <2>1, <2>4 DEF Entries, Visible
    <3> QED
      BY <1>0, <1>2, <2>1, <2>3, <2>4, <3>1, <3>2, Settles
  <2>6. A.next \in 0 .. NumClasses
    BY <2>3 DEF Checkpoint
  <2>7. CASE v = "complete"
    <3>1. A.next = NumClasses /\ checkpoint.next = NumClasses /\ Entries' = Entries
      BY <2>1, <2>2, <2>3, <2>5, <2>7
    <3>2. \A i \in 1 .. NumClasses : Entries[i] = "exported"
      BY <2>2, <2>3, <2>4, <2>5, <2>7, <3>1 DEF Committed
    <3> QED
      BY <2>5, <2>7, <3>1, <3>2 DEF Ledger!Next, Ledger!Complete
  <2>8. CASE v # "complete"
    <3>1. Len(Entries') <= NumClasses
      BY <2>5, <2>6, ExportAssumption
    <3> QED
      BY <2>2, <2>5, <2>8, <3>1 DEF Ledger!Next, Ledger!Stop, Ledger!Settled
  <2> QED
    BY <2>7, <2>8
<1> QED
  BY <1>1, <1>2 DEF FinishStatus

\* The other steps of a session are not seen.
LEMMA SessionUnseen ==
  ASSUME EInv, NEW s \in Sessions,
         Begin(s) \/ Open(s) \/ Start(s) \/ Run(s) \/ Finish(s) \/ Cancel(s) \/ Crash(s),
         ~SaveRunning(s), ~Commit(s), ~FinishStatus(s), ~exhausted
  PROVE  UNCHANGED <<Entries, Status>>
<1>1. CASE CreateManifest(s)
  <2>1. manifest # Absent \/ checkpoint = Absent
    BY DEF EInv, Disk
  <2>2. UNCHANGED <<checkpoint, exhausted>> /\ (manifest' = manifest \/ checkpoint = Absent)
    BY <1>1, <2>1 DEF CreateManifest, bounds
  <2> QED
    BY <2>2, Unseen DEF Visible
<1>2. CASE Validate(s)
  <2>1. CASE manifest' = manifest
    BY <1>2, <2>1, Unseen DEF Validate, bounds
  <2>2. CASE Valid(session[s].state)
             /\ manifest' = SubSeq(manifest, 1, session[s].state.bytes)
    <3>0. session[s].at \in Busy
      BY <1>2 DEF Validate, At, Busy, Opened
    <3>1. /\ manifest \in Seq(Record) /\ checkpoint = session[s].state
          /\ session[s].state.next \in Nat /\ session[s].state.next <= Len(manifest)
          /\ session[s].state.bytes = session[s].state.next
      BY <2>2, <3>0, BusyFacts DEF Valid, Checkpoint, Consistent
    <3>2. \A i \in 1 .. checkpoint.next : manifest'[i] = manifest[i]
      BY <2>2, <3>1, Truncated
    <3> QED
      BY <1>2, <3>2, Unseen DEF Validate, bounds
  <2> QED
    BY <1>2, <2>1, <2>2 DEF Validate
<1>3. CASE Journal(s)
  <2>0. session[s].at = "journaling" /\ session[s].at \in Busy
        /\ UNCHANGED <<checkpoint, exhausted>>
    BY <1>3 DEF Journal, At, Busy, Working, bounds
  <2>1. /\ manifest \in Seq(Record) /\ checkpoint = session[s].state
        /\ checkpoint \in Checkpoint /\ checkpoint.next <= Len(manifest)
    BY <2>0, BusyFacts DEF Committed
  <2>2. ASSUME NEW e \in Record, manifest' = Append(manifest, e)
        PROVE  \A i \in 1 .. checkpoint.next : manifest'[i] = manifest[i]
    <3>1. Len(manifest) \in Nat /\ \A i \in 1 .. Len(manifest) : manifest'[i] = manifest[i]
      BY <2>1, <2>2, Appended
    <3>2. checkpoint.next \in Nat
      BY <2>1 DEF Checkpoint
    <3> QED
      BY <2>1, <3>1, <3>2
  <2>3. RecordOf(s) \in Record /\ [RecordOf(s) EXCEPT !.kind = "torn"] \in Record
    BY <2>0, RecordHarmless DEF Harmless
  <2>4. \/ manifest' = manifest \/ manifest' = Append(manifest, RecordOf(s))
        \/ manifest' = Append(manifest, [RecordOf(s) EXCEPT !.kind = "torn"])
    BY <1>3 DEF Journal
  <2>5. \A i \in 1 .. checkpoint.next : manifest'[i] = manifest[i]
    BY <2>2, <2>3, <2>4
  <2> QED
    BY <2>0, <2>5, Unseen
<1>4. CASE UNCHANGED <<checkpoint, manifest, exhausted>>
  BY <1>4, Unseen
<1>5. CASE Begin(s) \/ Open(s)
  <2>1. UNCHANGED <<checkpoint, manifest, exhausted>> \/ CreateManifest(s)
    BY <1>5 DEF Begin, Open, OpenDirectory, Lock, ReadCheckpoint, ClearCompletion, disk, bounds
  <2> QED
    BY <1>1, <1>4, <2>1
<1>6. CASE Start(s)
  <2>1. ~SaveSpawnFailure(s)
    <3>1. session[s].at \notin Late
      BY DEF EInv, Started, Synced
    <3> QED
      BY <3>1 DEF SaveSpawnFailure, At, Late
  <2>2. UNCHANGED <<checkpoint, manifest, exhausted>>
    BY <1>6, <2>1 DEF Start, Spawn, SpawnFailed, MarkSpawnFailure, disk, bounds
  <2> QED
    BY <1>4, <2>2
<1>7. CASE Run(s)
  <2>1. UNCHANGED <<checkpoint, manifest, exhausted>> \/ Validate(s) \/ Journal(s)
    BY <1>7 DEF Run, NextClass, LastClassDone, Render, AfterRender, CheckFile, Persist,
                disk, bounds
  <2> QED
    BY <1>2, <1>3, <1>4, <2>1
<1>8. CASE Finish(s) \/ Cancel(s) \/ Crash(s)
  <2>1. UNCHANGED <<checkpoint, manifest, exhausted>>
    BY <1>8 DEF Finish, FinishCompletion, Close, Cancel, Crash, disk, bounds
  <2> QED
    BY <1>4, <2>1
<1> QED
  BY <1>5, <1>6, <1>7, <1>8

\* To a reader the directory is the ledger: nothing it shows as settled is ever rolled back or
\* settled again, and it is complete, once and for good, only with every class exported.
THEOREM LedgerImplemented == Spec => ImplementsLedger
<1>1. Init => Ledger!Init
  BY DEF Init, Ledger!Init, Entries, Status, Visible
<1>2. ASSUME EInv, [Next]_vars
      PROVE  [Ledger!Next]_<<Entries, Status>>
  <2>1. CASE ~exhausted
    <3>1. ASSUME NEW s \in Sessions,
                 Begin(s) \/ Open(s) \/ Start(s) \/ Run(s) \/ Finish(s) \/ Cancel(s) \/ Crash(s)
          PROVE  [Ledger!Next]_<<Entries, Status>>
      BY <1>2, <2>1, <3>1, SaveRunningLedger, CommitLedger, FinishLedger, SessionUnseen
    <3>2. CASE ReplaceInput \/ Tamper \/ UNCHANGED vars
      <4>1. UNCHANGED <<checkpoint, manifest, exhausted>>
        BY <3>2 DEF ReplaceInput, Tamper, vars, disk, bounds
      <4> QED
        BY <4>1, Unseen
    <3> QED
      BY <1>2, <3>1, <3>2 DEF Next
  <2>2. CASE exhausted
    <3>1. exhausted' = exhausted
      <4>1. ASSUME NEW s \in Sessions, Begin(s) \/ Open(s) \/ Start(s)
            PROVE  exhausted' = exhausted
        BY <4>1 DEF Begin, Open, OpenDirectory, Lock, ReadCheckpoint, CreateManifest,
                    SaveRunning, ClearCompletion, Start, Spawn, SpawnFailed, SaveSpawnFailure,
                    MarkSpawnFailure, bounds
      <4>2. ASSUME NEW s \in Sessions, Run(s)
            PROVE  exhausted' = exhausted
        BY <4>2 DEF Run, Validate, NextClass, LastClassDone, Render, AfterRender, CheckFile,
                    Persist, Journal, Commit, bounds
      <4>3. ASSUME NEW s \in Sessions, Finish(s) \/ Cancel(s) \/ Crash(s)
            PROVE  exhausted' = exhausted
        BY <4>3 DEF Finish, FinishStatus, FinishCompletion, Close, Cancel, Crash, bounds
      <4>4. CASE ReplaceInput \/ Tamper \/ UNCHANGED vars
        BY <4>4 DEF ReplaceInput, Tamper, vars, bounds
      <4> QED
        BY <1>2, <4>1, <4>2, <4>3, <4>4 DEF Next
    <3> QED
      BY <2>2, <3>1 DEF Entries, Status, Visible
  <2> QED
    BY <2>1, <2>2
<1>3. Spec => Ledger!Init /\ [][Ledger!Next]_<<Entries, Status>>
  BY <1>1, <1>2, Invariance, PTL DEF Spec
<1> QED
  BY <1>3 DEF ImplementsLedger, Ledger!Spec, Ledger!vars
=============================================================================
