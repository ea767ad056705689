--------------------------- MODULE ExportSession ---------------------------
(***************************************************************************)
(* Resumable source exports into one directory (mcp_exports.rs: Session    *)
(* and the worker that Controller::start spawns).                          *)
(*                                                                         *)
(* A session locks the directory, reads or creates the checkpoint, checks  *)
(* what it has committed, and then, class by class, renders the source,    *)
(* publishes its file, appends a record to the manifest and moves the      *)
(* checkpoint.  A process may crash between any two of these steps, a      *)
(* write may fail, somebody else may touch the files, and the input may be *)
(* replaced.  Files are replaced by renaming, so what the checkpoint and a *)
(* source file hold is old or new, and a crash releases the lock.          *)
(***************************************************************************)
EXTENDS Naturals, FiniteSets, Sequences

CONSTANTS
  Nobody,       \* no session
  Absent,       \* no such file
  Foreign,      \* a file the export did not write
  Sessions,     \* processes that may export into the directory
  NumClasses,   \* how many classes are selected
  Versions,     \* contents the input file can have
  MaxRuns,      \* bound on the sessions opened
  MaxTampers    \* bound on the source files touched by somebody else

ASSUME ExportAssumption ==
  /\ IsFiniteSet(Sessions) /\ Nobody \notin Sessions
  /\ Absent # Foreign /\ Versions \cap {Absent, Foreign} = {}
  /\ NumClasses \in Nat \ {0}
  /\ Versions # {}
  /\ MaxRuns \in Nat /\ MaxTampers \in Nat

Class == 1 .. NumClasses

VARIABLES
  apk,         \* the content of the input file
  dir,         \* whether the output directory exists
  lock,        \* the session that holds .export.lock
  manifest,    \* the records of manifest.jsonl, or Absent
  checkpoint,  \* export-status.json, or Absent
  completion,  \* the status in completion.json, or Absent
  file,        \* the source file of each class: a version's source, Foreign, Absent
  session,     \* each session: where it is and what it keeps in memory
  runs,        \* how many sessions were opened
  tampers,     \* how often a source file was touched by somebody else
  exhausted    \* whether the processes run out of threads at times (fixed)

disk == <<dir, manifest, checkpoint, completion, file>>
bounds == <<runs, tampers, exhausted>>
vars == <<apk, lock, disk, session, bounds>>

Statuses == {"running", "complete", "cancelled", "incomplete"}

Kinds == {"exported", "failed", "torn"}
Rendered == {"none", "source", "failed", "interrupted"}

Record == [class : Class, kind : Kinds, content : Versions \cup {Absent}, why : Rendered]

Checkpoint == [apk : Versions, status : Statuses, next : 0 .. NumClasses,
               bytes : 0 .. NumClasses, exported : 0 .. NumClasses, failed : 0 .. NumClasses]

\* A file that is not there has no content.
ASSUME AbsentAssumption == Absent \notin Seq(Record) \cup Checkpoint

Places == {"away", "opening", "locking", "reading", "creating", "saving", "clearing",
           "spawning", "overwriting", "marking", "validating", "classing", "rendering",
           "rendered", "publishing", "persisting", "journaling", "committing",
           "finishing", "completing", "closing"}

TypeOK ==
  /\ apk \in Versions
  /\ dir \in BOOLEAN
  /\ lock \in Sessions \cup {Nobody}
  /\ manifest = Absent \/ manifest \in Seq(Record)
  /\ checkpoint = Absent \/ checkpoint \in Checkpoint
  /\ completion \in Statuses \cup {Absent}
  /\ file \in [Class -> Versions \cup {Foreign, Absent}]
  /\ session \in [Sessions -> [at : Places, resume : BOOLEAN, loaded : Versions,
                               state : Checkpoint, rendered : Rendered,
                               ok : BOOLEAN, cancel : BOOLEAN]]
  /\ runs \in 0 .. MaxRuns
  /\ tampers \in 0 .. MaxTampers
  /\ exhausted \in BOOLEAN

Fresh(version) ==
  [apk |-> version, status |-> "running", next |-> 0, bytes |-> 0, exported |-> 0, failed |-> 0]

Away(version) ==
  [at |-> "away", resume |-> FALSE, loaded |-> version, state |-> Fresh(version),
   rendered |-> "none", ok |-> FALSE, cancel |-> FALSE]

Init ==
  /\ apk \in Versions
  /\ dir = FALSE
  /\ lock = Nobody
  /\ manifest = Absent /\ checkpoint = Absent /\ completion = Absent
  /\ file = [c \in Class |-> Absent]
  /\ session = [s \in Sessions |-> Away(apk)]
  /\ runs = 0 /\ tampers = 0
  /\ exhausted \in BOOLEAN

At(s, place) == session[s].at = place
Goes(s, place) == session' = [session EXCEPT ![s].at = place]

\* run returns an error, which finish then reports.
Fails(s) == session' = [session EXCEPT ![s].at = "finishing", ![s].ok = FALSE]

\* The session is dropped: its lock is released with its file.
Gone(s) ==
  /\ session' = [session EXCEPT ![s] = Away(session[s].loaded)]
  /\ lock' = IF lock = s THEN Nobody ELSE lock

-----------------------------------------------------------------------------
(* Session::open *)

\* A process loads the input and asks for a fresh export or a resumption.
Begin(s) ==
  /\ At(s, "away")
  /\ runs < MaxRuns
  /\ runs' = runs + 1
  /\ \E resume \in BOOLEAN :
       session' = [session EXCEPT ![s] = [Away(apk) EXCEPT !.at = "opening", !.resume = resume]]
  /\ UNCHANGED <<apk, lock, disk, tampers, exhausted>>

\* A fresh export creates the directory, a resumption needs it.
OpenDirectory(s) ==
  /\ At(s, "opening")
  /\ IF session[s].resume = dir
       THEN /\ dir' = TRUE
            /\ Goes(s, "locking")
            /\ UNCHANGED lock
       ELSE Gone(s) /\ UNCHANGED dir
  /\ UNCHANGED <<apk, manifest, checkpoint, completion, file, bounds>>

Lock(s) ==
  /\ At(s, "locking")
  /\ IF lock = Nobody
       THEN /\ lock' = s
            /\ Goes(s, IF session[s].resume THEN "reading" ELSE "creating")
       ELSE Gone(s)
  /\ UNCHANGED <<apk, disk, bounds>>

\* Fault: the input is not compared.
ResumableAnyInputMutant(s) ==
  /\ checkpoint # Absent
  /\ checkpoint.status # "complete"

\* Fault: a complete export is taken up again.
ResumableCompleteMutant(s) ==
  /\ checkpoint # Absent
  /\ checkpoint.apk = session[s].loaded

\* The checkpoint must be one of this input, and not complete.
Resumable(s) ==
  /\ checkpoint # Absent
  /\ checkpoint.apk = session[s].loaded
  /\ checkpoint.status # "complete"

ReadCheckpoint(s) ==
  /\ At(s, "reading")
  /\ IF Resumable(s)
       THEN /\ session' = [session EXCEPT ![s].at = "saving",
                             ![s].state = [checkpoint EXCEPT !.status = "running"]]
            /\ UNCHANGED lock
       ELSE Gone(s)
  /\ UNCHANGED <<apk, disk, bounds>>

CreateManifest(s) ==
  /\ At(s, "creating")
  /\ IF manifest = Absent
       THEN /\ manifest' = <<>>
            /\ session' = [session EXCEPT ![s].at = "saving",
                             ![s].state = Fresh(session[s].loaded)]
            /\ UNCHANGED lock
       ELSE Gone(s) /\ UNCHANGED manifest
  /\ UNCHANGED <<apk, dir, checkpoint, completion, file, bounds>>

\* The first checkpoint of the session; a resumption also withdraws the
\* previous completion marker.  Each write may fail.
SaveRunning(s) ==
  /\ At(s, "saving")
  /\ \/ /\ checkpoint' = session[s].state
        /\ Goes(s, IF session[s].resume THEN "clearing" ELSE "spawning")
        /\ UNCHANGED lock
     \/ Gone(s) /\ UNCHANGED checkpoint
  /\ UNCHANGED <<apk, dir, manifest, completion, file, bounds>>

ClearCompletion(s) ==
  /\ At(s, "clearing")
  /\ \/ /\ completion' = "running"
        /\ Goes(s, "spawning")
        /\ UNCHANGED lock
     \/ Gone(s) /\ UNCHANGED completion
  /\ UNCHANGED <<apk, dir, manifest, checkpoint, file, bounds>>

Open(s) ==
  \/ OpenDirectory(s) \/ Lock(s)
  \/ ReadCheckpoint(s) \/ CreateManifest(s)
  \/ SaveRunning(s) \/ ClearCompletion(s)

-----------------------------------------------------------------------------
(* Controller::start *)

Spawn(s) ==
  /\ At(s, "spawning")
  /\ Goes(s, "validating")
  /\ UNCHANGED <<apk, lock, disk, bounds>>

\* The thread does not start: the closure is dropped, and the session and its
\* lock with it; then the failure is saved.
SpawnFailed(s) ==
  /\ exhausted
  /\ At(s, "spawning")
  /\ lock' = Nobody
  /\ Goes(s, "overwriting")
  /\ UNCHANGED <<apk, disk, bounds>>

SaveSpawnFailure(s) ==
  /\ At(s, "overwriting")
  /\ \/ /\ checkpoint' = [session[s].state EXCEPT !.status = "incomplete"]
        /\ Goes(s, "marking")
        /\ UNCHANGED lock
     \/ Gone(s) /\ UNCHANGED checkpoint
  /\ UNCHANGED <<apk, dir, manifest, completion, file, bounds>>

MarkSpawnFailure(s) ==
  /\ At(s, "marking")
  /\ completion' \in {completion, "incomplete"}
  /\ Gone(s)
  /\ UNCHANGED <<apk, dir, manifest, checkpoint, file, bounds>>

Start(s) == Spawn(s) \/ SpawnFailed(s) \/ SaveSpawnFailure(s) \/ MarkSpawnFailure(s)

-----------------------------------------------------------------------------
(* Session::run *)

\* The committed records are in the order of the classes, their files are
\* unchanged, and the counts are theirs.
Valid(state) ==
  /\ Len(manifest) >= state.bytes
  /\ state.bytes = state.next
  /\ \A i \in 1 .. state.next :
       /\ manifest[i].class = i /\ manifest[i].kind # "torn"
       /\ manifest[i].kind = "exported" => file[i] = manifest[i].content
  /\ state.exported = Cardinality({ i \in 1 .. state.next : manifest[i].kind = "exported" })
  /\ state.failed = Cardinality({ i \in 1 .. state.next : manifest[i].kind = "failed" })

\* What is committed is checked, then the rest of the manifest is discarded.
Validate(s) ==
  /\ At(s, "validating")
  /\ IF Valid(session[s].state) /\ (session[s].cancel => session[s].state.next = 0)
       THEN /\ manifest' = SubSeq(manifest, 1, session[s].state.bytes)
            /\ Goes(s, "classing")
       ELSE Fails(s) /\ UNCHANGED manifest
  /\ UNCHANGED <<apk, lock, dir, checkpoint, completion, file, bounds>>

\* The head of the loop over the classes: cancel and the input are looked at.
\* After the last class only the input is, and the manifest is read for its
\* digest, which may fail.
NextClass(s) ==
  /\ At(s, "classing")
  /\ session[s].state.next < NumClasses
  /\ IF session[s].cancel \/ apk # session[s].loaded THEN Fails(s) ELSE Goes(s, "rendering")
  /\ UNCHANGED <<apk, lock, disk, bounds>>

LastClassDone(s) ==
  /\ At(s, "classing")
  /\ session[s].state.next = NumClasses
  /\ \/ /\ apk = session[s].loaded
        /\ session' = [session EXCEPT ![s].at = "finishing", ![s].ok = TRUE]
     \/ Fails(s)
  /\ UNCHANGED <<apk, lock, disk, bounds>>

\* decompile_class_source_report gives the source or an error, an error when
\* it notices the cancellation, or panics, which ends the run.
Render(s) ==
  /\ At(s, "rendering")
  /\ \/ \E result \in {"source", "failed", "interrupted"} :
          /\ result = "interrupted" => session[s].cancel
          /\ session' = [session EXCEPT ![s].at = "rendered", ![s].rendered = result]
     \/ Fails(s)
  /\ UNCHANGED <<apk, lock, disk, bounds>>

\* Fault: cancel is looked at only when there is a source.
AfterRenderErrorMutant(s) ==
  /\ At(s, "rendered")
  /\ IF session[s].cancel /\ session[s].rendered = "source" THEN Fails(s)
     ELSE Goes(s, IF session[s].rendered = "source" THEN "publishing" ELSE "journaling")
  /\ UNCHANGED <<apk, lock, disk, bounds>>

\* Either way cancel is looked at before anything is recorded.
AfterRender(s) ==
  /\ At(s, "rendered")
  /\ IF session[s].cancel THEN Fails(s)
     ELSE Goes(s, IF session[s].rendered = "source" THEN "publishing" ELSE "journaling")
  /\ UNCHANGED <<apk, lock, disk, bounds>>

Current(s) == session[s].state.next + 1

\* A file that is there must be what would be written.
CheckFile(s) ==
  /\ At(s, "publishing")
  /\ IF file[Current(s)] = Absent THEN Goes(s, "persisting")
     ELSE IF file[Current(s)] = session[s].loaded THEN Goes(s, "journaling")
     ELSE Fails(s)
  /\ UNCHANGED <<apk, lock, disk, bounds>>

\* Fault: the file is renamed into place whatever is there.
PersistOverwritesMutant(s) ==
  /\ At(s, "persisting")
  /\ \/ /\ file' = [file EXCEPT ![Current(s)] = session[s].loaded]
        /\ Goes(s, "journaling")
     \/ Fails(s) /\ UNCHANGED file
  /\ UNCHANGED <<apk, lock, dir, manifest, checkpoint, completion, bounds>>

\* persist_noclobber: a file that has appeared since is left alone.
Persist(s) ==
  /\ At(s, "persisting")
  /\ \/ /\ file[Current(s)] = Absent
        /\ file' = [file EXCEPT ![Current(s)] = session[s].loaded]
        /\ Goes(s, "journaling")
     \/ Fails(s) /\ UNCHANGED file
  /\ UNCHANGED <<apk, lock, dir, manifest, checkpoint, completion, bounds>>

RecordOf(s) ==
  IF session[s].rendered = "source"
    THEN [class |-> Current(s), kind |-> "exported", content |-> session[s].loaded,
          why |-> session[s].rendered]
    ELSE [class |-> Current(s), kind |-> "failed", content |-> Absent,
          why |-> session[s].rendered]

\* The record is written and synced; if that fails, nothing, a part of it or
\* all of it may be there.
Journal(s) ==
  /\ At(s, "journaling")
  /\ \/ /\ manifest' = Append(manifest, RecordOf(s))
        /\ Goes(s, "committing")
     \/ /\ manifest' \in {manifest, Append(manifest, RecordOf(s)),
                         Append(manifest, [RecordOf(s) EXCEPT !.kind = "torn"])}
        /\ Fails(s)
  /\ UNCHANGED <<apk, lock, dir, checkpoint, completion, file, bounds>>

\* Fault: every class counts as exported.
AdvancedExportedMutant(s) ==
  LET state == session[s].state
      failed == IF session[s].rendered = "source" THEN 0 ELSE 1
  IN [state EXCEPT !.next = @ + 1, !.bytes = Len(manifest),
                   !.exported = @ + 1, !.failed = @ + failed]

Advanced(s) ==
  LET state == session[s].state
      failed == IF session[s].rendered = "source" THEN 0 ELSE 1
  IN [state EXCEPT !.next = @ + 1, !.bytes = Len(manifest),
                   !.exported = @ + 1 - failed, !.failed = @ + failed]

\* The checkpoint moves past the class, in memory and then on disk.
Commit(s) ==
  /\ At(s, "committing")
  /\ \/ /\ checkpoint' = Advanced(s)
        /\ session' = [session EXCEPT ![s].at = "classing", ![s].state = Advanced(s),
                                      ![s].rendered = "none"]
     \/ /\ session' = [session EXCEPT ![s].at = "finishing", ![s].ok = FALSE,
                                      ![s].state = Advanced(s)]
        /\ UNCHANGED checkpoint
  /\ UNCHANGED <<apk, lock, dir, manifest, completion, file, bounds>>

Run(s) ==
  \/ Validate(s)
  \/ NextClass(s) \/ LastClassDone(s)
  \/ Render(s) \/ AfterRender(s)
  \/ CheckFile(s) \/ Persist(s)
  \/ Journal(s) \/ Commit(s)

-----------------------------------------------------------------------------
(* Session::finish, and the end of the worker *)

Verdict(s) ==
  IF session[s].ok /\ session[s].state.failed = 0 THEN "complete"
  ELSE IF session[s].cancel THEN "cancelled"
  ELSE "incomplete"

\* The final status goes to the checkpoint, then to the completion marker,
\* unless the first write fails.
FinishStatus(s) ==
  /\ At(s, "finishing")
  /\ \/ /\ checkpoint' = [session[s].state EXCEPT !.status = Verdict(s)]
        /\ session' = [session EXCEPT ![s].at = "completing", ![s].state.status = Verdict(s)]
     \/ Goes(s, "closing") /\ UNCHANGED checkpoint
  /\ UNCHANGED <<apk, lock, dir, manifest, completion, file, bounds>>

FinishCompletion(s) ==
  /\ At(s, "completing")
  /\ completion' \in {completion, session[s].state.status}
  /\ Goes(s, "closing")
  /\ UNCHANGED <<apk, lock, dir, manifest, checkpoint, file, bounds>>

Close(s) ==
  /\ At(s, "closing")
  /\ Gone(s)
  /\ UNCHANGED <<apk, disk, bounds>>

Finish(s) == FinishStatus(s) \/ FinishCompletion(s) \/ Close(s)

-----------------------------------------------------------------------------
(* What happens outside *)

\* The job is cancelled by its user or by the stopping service.
Cancel(s) ==
  /\ session[s].at \in {"validating", "classing", "rendering", "rendered", "publishing",
                        "persisting", "journaling", "committing", "finishing"}
  /\ ~session[s].cancel
  /\ session' = [session EXCEPT ![s].cancel = TRUE]
  /\ UNCHANGED <<apk, lock, disk, bounds>>

\* The process dies.
Crash(s) ==
  /\ ~At(s, "away")
  /\ Gone(s)
  /\ UNCHANGED <<apk, disk, bounds>>

ReplaceInput ==
  /\ apk' \in Versions \ {apk}
  /\ UNCHANGED <<lock, disk, session, bounds>>

\* Somebody else creates, changes or deletes a source file.
Tamper ==
  /\ dir
  /\ tampers < MaxTampers
  /\ tampers' = tampers + 1
  /\ \E c \in Class, content \in {Foreign, Absent} :
       /\ content # file[c]
       /\ file' = [file EXCEPT ![c] = content]
  /\ UNCHANGED <<apk, lock, dir, manifest, checkpoint, completion, session, runs, exhausted>>

Next ==
  \/ \E s \in Sessions :
       Begin(s) \/ Open(s) \/ Start(s) \/ Run(s) \/ Finish(s) \/ Cancel(s) \/ Crash(s)
  \/ ReplaceInput
  \/ Tamper

Spec == Init /\ [][Next]_vars

-----------------------------------------------------------------------------
(* Properties *)

\* What a reader of the directory sees, as long as worker threads start.  When
\* they do not, SaveSpawnFailure may bring back a checkpoint that counts records
\* another session has discarded since.
Visible == checkpoint # Absent /\ ~exhausted

\* However sessions, crashes and failed writes follow each other, what the
\* checkpoint on disk counts as committed is there: the records, in the order
\* of the classes, with the right counts, and the exact file of every exported
\* class that nobody else has touched.
CommittedSound ==
  Visible =>
    /\ manifest # Absent /\ checkpoint.bytes <= Len(manifest)
    /\ checkpoint.bytes = checkpoint.next
    /\ checkpoint.exported + checkpoint.failed = checkpoint.next
    /\ \A i \in 1 .. checkpoint.next :
         /\ manifest[i].class = i /\ manifest[i].kind # "torn"
         /\ manifest[i].kind = "exported" /\ tampers = 0 => file[i] = manifest[i].content

\* One export never mixes two inputs: every class in the manifest, committed or
\* not, was rendered from the input the checkpoint names, however often the
\* input was replaced between and during the sessions.
OneInput ==
  checkpoint # Absent /\ manifest # Absent =>
    \A i \in DOMAIN manifest :
      manifest[i].kind = "exported" => manifest[i].content = checkpoint.apk

\* A cancellation is never recorded as the failure of a class, which later
\* sessions would not retry.
CancellationNotRecorded ==
  manifest # Absent => \A i \in DOMAIN manifest : manifest[i].why # "interrupted"

\* A session never changes or removes a source file that exists (docs/mcp.md:
\* "Existing source files are never overwritten").
NeverOverwritten ==
  [][tampers' = tampers => \A c \in Class : file[c] # Absent => file'[c] = file[c]]_vars

\* To that reader the directory is a ledger that only grows and is complete only
\* with every class exported.
Entries == IF Visible THEN [i \in 1 .. checkpoint.next |-> manifest[i].kind] ELSE <<>>
Status == IF Visible THEN checkpoint.status ELSE "none"

Ledger == INSTANCE ExportLedger WITH entries <- Entries, status <- Status

ImplementsLedger == Ledger!Spec

\* docs/mcp.md: "File locking excludes concurrent writers": while a session
\* holds the lock, only its own steps change the checkpoint.
LockedWriters ==
  [][checkpoint' # checkpoint /\ lock # Nobody => session'[lock] # session[lock]]_vars

=============================================================================
