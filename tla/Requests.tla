------------------------------ MODULE Requests ------------------------------
(***************************************************************************)
(* The requests of one served project (Server::start_source in mcp.rs).    *)
(*                                                                         *)
(* A listener thread accepts connections, watches those that are being     *)
(* answered, and gives each a thread of its own.  The threads share the    *)
(* eight slots for work, the lock of the interactive engine, and for each  *)
(* request three flags with the listener.  The user interface cancels      *)
(* every request, or drops the server.  A client may hang up at any time;  *)
(* a request is cancelled by that, by its age, by the user interface, or   *)
(* because the server stops.                                               *)
(***************************************************************************)
EXTENDS Naturals, FiniteSets

CONSTANTS
  Nobody,       \* the engine is free
  Poisoned,     \* a thread panicked while it held the engine
  Connections,  \* the connections clients can make
  Capacities,   \* how many requests may work at a time: {8}
  MaxWatches    \* how many requests are watched: 32

ASSUME RequestsAssumption ==
  /\ IsFiniteSet(Connections)
  /\ Nobody \notin Connections /\ Poisoned \notin Connections /\ Nobody # Poisoned
  /\ Capacities \subseteq Nat /\ MaxWatches \in Nat

VARIABLES
  capacity,  \* which of Capacities it is: it never changes, so that one run can check several
  stop,      \* Server::stop
  owner,     \* the owner of the Server: it holds, drops, or has dropped it
  listener,  \* where the listener thread is
  project,   \* what the listener knows of the loading project
  watches,   \* the requests that are watched
  cancel,    \* the requests whose flag cancel is set
  done,      \* those whose flag done is set
  parsed,    \* those whose flag parsed is set
  thread,    \* where the thread of each connection is, and what it has read
  slots,     \* how many slots are taken
  active,    \* Status::active_requests
  engine,    \* who holds LoadedProject::engine
  served,    \* the requests answered with a result, any other gets an error or nothing
  peer,      \* the client's end of each connection
  sent       \* the connections with a whole frame to read

flags == <<cancel, done, parsed>>
service == <<capacity, stop, owner, listener, project, watches>>
work == <<slots, active, engine>>
client == <<peer, sent>>
serverVars == <<service, flags, thread, work, served, client>>

\* Where a thread counts in slots, and where it counts in active.
Holding == {"counting", "starting", "locking", "trying", "working", "leaving"}
Counted == (Holding \ {"counting"}) \cup {"uncounting"}
Running == Holding \cup {"reading", "checking", "admitting", "uncounting", "writing"}
Places == Running \cup {"none", "queued", "refused", "ended"}

ThreadState == [at : Places, loaded : BOOLEAN, seen : Nat]

TypeOK ==
  /\ capacity \in Capacities
  /\ stop \in BOOLEAN
  /\ owner \in {"holding", "dropping", "dropped"}
  /\ listener \in {"polling", "accepting", "ending", "ended"}
  /\ project \in {"loading", "ready"}
  /\ watches \subseteq Connections
  /\ cancel \subseteq Connections /\ done \subseteq Connections /\ parsed \subseteq Connections
  /\ thread \in [Connections -> ThreadState]
  /\ slots \in Nat /\ active \in Nat
  /\ engine \in Connections \cup {Nobody, Poisoned}
  /\ served \subseteq Connections
  /\ peer \in [Connections -> {"none", "open", "closed"}]
  /\ sent \subseteq Connections

ServerInit ==
  /\ capacity \in Capacities
  /\ stop = FALSE
  /\ owner = "holding"
  /\ listener = "polling"
  /\ project = "loading"
  /\ watches = {}
  /\ cancel = {} /\ done = {} /\ parsed = {}
  /\ thread = [c \in Connections |-> [at |-> "none", loaded |-> FALSE, seen |-> 0]]
  /\ slots = 0 /\ active = 0
  /\ engine = Nobody
  /\ served = {}
  /\ peer = [c \in Connections |-> "none"]
  /\ sent = {}

At(c, place) == thread[c].at = place
Threads(places) == {c \in Connections : thread[c].at \in places}
Goes(c, place) == thread' = [thread EXCEPT ![c] = [at |-> place, loaded |-> FALSE, seen |-> 0]]
Unwanted(c) == stop \/ c \in cancel

-----------------------------------------------------------------------------
(* The clients *)

Connect(c) ==
  /\ At(c, "none") /\ listener # "ended"
  /\ Goes(c, "queued")
  /\ peer' = [peer EXCEPT ![c] = "open"]
  /\ UNCHANGED <<service, flags, work, served, sent>>

SendFrame(c) ==
  /\ peer[c] = "open" /\ c \notin sent
  /\ sent' = sent \cup {c}
  /\ UNCHANGED <<service, flags, thread, work, served, peer>>

HangUp(cs) ==
  /\ peer' = [c \in Connections |->
                IF c \in cs /\ peer[c] = "open" THEN "closed" ELSE peer[c]]
  /\ UNCHANGED <<service, flags, thread, work, served, sent>>

-----------------------------------------------------------------------------
(* The user interface *)

CancelRequests ==
  /\ owner = "holding"
  /\ cancel' = cancel \cup watches
  /\ UNCHANGED <<service, done, parsed, thread, work, served, client>>

DropServer ==
  /\ owner = "holding"
  /\ owner' = "dropping"
  /\ stop' = TRUE
  /\ UNCHANGED <<capacity, listener, project, watches, flags, thread, work, served, client>>

FinishDrop ==
  /\ owner = "dropping"
  /\ owner' = "dropped"
  /\ cancel' = cancel \cup watches
  /\ UNCHANGED <<capacity, stop, listener, project, watches, done, parsed, thread, work>>
  /\ UNCHANGED <<served, client>>

-----------------------------------------------------------------------------
(* The listener *)

\* Fault: the socket of a request is not looked at.
HungUpMutant(c) == FALSE

\* A peek at the socket of a request whose frame was read.
HungUp(c) == c \in parsed /\ peer[c] = "closed"

\* One round of the loop up to accept: stop, the loader's message, and poll_requests, which
\* cancels any that are 120 seconds old.  The flags of a watch that is removed are gone.
Poll ==
  /\ listener = "polling" /\ ~stop
  /\ listener' = "accepting"
  /\ project' \in {project, "ready"}
  /\ LET kept == watches \ done
     IN  /\ watches' = kept
         /\ \E old \in SUBSET kept :
              cancel' = (cancel \cap kept) \cup old \cup {c \in kept : HungUp(c)}
         /\ parsed' = parsed \cap kept
         /\ done' = {}
  /\ UNCHANGED <<capacity, stop, owner, thread, work, served, client>>

Accept(c) ==
  /\ listener = "accepting" /\ At(c, "queued")
  /\ Cardinality(watches) < MaxWatches
  /\ watches' = watches \cup {c}
  /\ thread' = [thread EXCEPT ![c] = [@ EXCEPT !.at = "reading", !.loaded = project = "ready"]]
  /\ listener' = "polling"
  /\ UNCHANGED <<capacity, stop, owner, project, flags, work, served, client>>

\* Too many are watched, or the socket cannot be cloned.
Refuse(c) ==
  /\ listener = "accepting" /\ At(c, "queued")
  /\ Goes(c, "refused")
  /\ listener' = "polling"
  /\ UNCHANGED <<capacity, stop, owner, project, watches, flags, work, served, client>>

AcceptNothing ==
  /\ listener = "accepting"
  /\ \/ Threads({"queued"}) = {} /\ listener' = "polling"
     \/ listener' = "ending"
  /\ UNCHANGED <<capacity, stop, owner, project, watches, flags, thread, work, served, client>>

LeaveLoop ==
  /\ listener = "polling" /\ stop
  /\ listener' = "ending"
  /\ UNCHANGED <<capacity, stop, owner, project, watches, flags, thread, work, served, client>>

\* Fault: the listener ends without a look at the requests.
EndListenerMutant ==
  /\ listener = "ending"
  /\ listener' = "ended"
  /\ UNCHANGED <<capacity, stop, owner, project, watches, flags, thread, work, served, client>>

EndListener ==
  /\ listener = "ending"
  /\ listener' = "ended"
  /\ cancel' = cancel \cup watches
  /\ UNCHANGED <<capacity, stop, owner, project, watches, done, parsed, thread, work>>
  /\ UNCHANGED <<served, client>>

-----------------------------------------------------------------------------
(* The thread of a request *)

\* A result or an error is what the thread will write.
Serves(c, place) == served' = served \cup {c} /\ Goes(c, place)
Fails(c, place) == Goes(c, place) /\ UNCHANGED served

ReadFrame(c) ==
  /\ At(c, "reading") /\ c \in sent
  /\ parsed' = parsed \cup {c}
  /\ thread' = [thread EXCEPT ![c] = [@ EXCEPT !.at = "checking"]]
  /\ UNCHANGED <<service, cancel, done, work, served, client>>

\* The peer is gone or slow, or the frame is not valid or not for this server.
RefuseFrame(c) ==
  /\ At(c, "reading")
  /\ Fails(c, "writing")
  /\ UNCHANGED <<service, flags, work, client>>

\* From the first check to validate: get_instance_info is answered, another tool is
\* refused, or goes for a slot.
Dispatch(c) ==
  /\ At(c, "checking")
  /\ \/ Fails(c, "writing")
     \/ ~Unwanted(c) /\ Serves(c, "writing")
     \/ /\ ~Unwanted(c) /\ thread[c].loaded
        /\ thread' = [thread EXCEPT ![c] = [at |-> "admitting", loaded |-> FALSE, seen |-> slots]]
        /\ UNCHANGED served
  /\ UNCHANGED <<service, flags, work, client>>

Busy(c) ==
  /\ At(c, "admitting") /\ thread[c].seen >= capacity
  /\ Fails(c, "writing")
  /\ UNCHANGED <<service, flags, work, client>>

\* Fault: the slot is taken with a plain addition after the check.
TakeSlotMutant(c) ==
  /\ At(c, "admitting") /\ thread[c].seen < capacity
  /\ slots' = slots + 1 /\ Goes(c, "counting")
  /\ UNCHANGED <<service, flags, active, engine, served, client>>

\* compare_exchange_weak, which may also fail on the value it expects.
TakeSlot(c) ==
  /\ At(c, "admitting") /\ thread[c].seen < capacity
  /\ \/ slots = thread[c].seen /\ slots' = slots + 1 /\ Goes(c, "counting")
     \/ /\ thread' = [thread EXCEPT ![c] = [@ EXCEPT !.seen = slots]]
        /\ UNCHANGED slots
  /\ UNCHANGED <<service, flags, active, engine, served, client>>

CountRequest(c) ==
  /\ At(c, "counting")
  /\ active' = active + 1
  /\ Goes(c, "starting")
  /\ UNCHANGED <<service, flags, slots, engine, served, client>>

\* project_request up to its work: it fails, reads the snapshot, or needs the engine.
StartWork(c) ==
  /\ At(c, "starting")
  /\ \/ Fails(c, "leaving")
     \/ (Goes(c, "working") \/ Goes(c, "locking")) /\ UNCHANGED served
  /\ UNCHANGED <<service, flags, work, client>>

\* Fault: a request that waits for the engine does not look at its flag.
PollEngineMutant(c) ==
  /\ At(c, "locking")
  /\ Goes(c, "trying")
  /\ UNCHANGED <<service, flags, work, served, client>>

\* The flag is looked at before each try_lock.
PollEngine(c) ==
  /\ At(c, "locking") /\ c \notin cancel
  /\ Goes(c, "trying")
  /\ UNCHANGED <<service, flags, work, served, client>>

LockEngine(c) ==
  /\ At(c, "trying")
  /\ \/ engine = Nobody /\ engine' = c /\ Goes(c, "working")
     \/ engine \in Connections /\ Goes(c, "locking") /\ UNCHANGED engine
  /\ UNCHANGED <<service, flags, slots, active, served, client>>

GiveUpEngine(c) ==
  /\ \/ At(c, "locking") /\ c \in cancel
     \/ At(c, "trying") /\ engine = Poisoned
  /\ Fails(c, "leaving")
  /\ UNCHANGED <<service, flags, work, client>>

\* project_request returns, which releases the engine, and the flags are looked at again.
EndWork(c) ==
  /\ At(c, "working")
  /\ engine' = IF engine = c THEN Nobody ELSE engine
  /\ \/ Fails(c, "leaving")
     \/ ~Unwanted(c) /\ Serves(c, "leaving")
  /\ UNCHANGED <<service, flags, slots, active, client>>

\* The work panics.  The slot is given back, the engine is poisoned, no answer is written.
Panic(c) ==
  /\ At(c, "working")
  /\ engine' = IF engine = c THEN Poisoned ELSE engine
  /\ Goes(c, "leaving")
  /\ UNCHANGED <<service, flags, slots, active, served, client>>

\* WorkSlot::drop
GiveSlot(c) ==
  /\ At(c, "leaving")
  /\ slots' = slots - 1
  /\ Goes(c, "uncounting")
  /\ UNCHANGED <<service, flags, active, engine, served, client>>

UncountRequest(c) ==
  /\ At(c, "uncounting")
  /\ active' = IF active = 0 THEN 0 ELSE active - 1
  /\ Goes(c, "writing")
  /\ UNCHANGED <<service, flags, slots, engine, served, client>>

\* The answer, if there is one, is written, and CompletedRequest is dropped.
EndRequest(c) ==
  /\ At(c, "writing")
  /\ done' = done \cup {c}
  /\ Goes(c, "ended")
  /\ UNCHANGED <<service, cancel, parsed, work, served, client>>

Thread(c) ==
  \/ ReadFrame(c) \/ RefuseFrame(c) \/ Dispatch(c) \/ Busy(c) \/ TakeSlot(c)
  \/ CountRequest(c) \/ StartWork(c) \/ PollEngine(c) \/ LockEngine(c) \/ GiveUpEngine(c)
  \/ GiveSlot(c) \/ UncountRequest(c) \/ EndRequest(c)
Work(c) == EndWork(c) \/ Panic(c)

Listener ==
  \/ Poll \/ AcceptNothing \/ LeaveLoop \/ EndListener
  \/ \E c \in Connections : Accept(c) \/ Refuse(c)

Server ==
  \/ CancelRequests \/ DropServer \/ FinishDrop \/ Listener
  \/ \E c \in Connections : Thread(c) \/ Work(c)

Client ==
  \/ \E c \in Connections : Connect(c) \/ SendFrame(c)
  \/ \E cs \in SUBSET {c \in Connections : peer[c] = "open"} : HangUp(cs)

ServerSpec == ServerInit /\ [][Server \/ Client]_serverVars

(* The threads run and poll their flag; work that nobody cancels need not end. *)
ServerFairness ==
  /\ WF_serverVars(Listener)
  /\ WF_serverVars(FinishDrop)
  /\ \A c \in Connections :
       /\ WF_serverVars(Thread(c))
       /\ WF_serverVars(Work(c) /\ c \in cancel)

ServerFairSpec == ServerSpec /\ ServerFairness

-----------------------------------------------------------------------------
(* Properties *)

(* A slot is taken by exactly the requests that hold one, at most capacity at a time,
   whatever they read of the counter before, and the status counts exactly the requests
   that were added to it: every path gives back what it took, once. *)
SlotsAccounted ==
  /\ slots = Cardinality(Threads(Holding)) /\ slots <= capacity
  /\ active = Cardinality(Threads(Counted))

(* No request escapes the server that stops: every running request can be reached through
   the watches, and when the listener is gone every one of them has been cancelled. *)
NoneEscapesStop ==
  /\ Threads(Running) \subseteq watches
  /\ listener = "ended" => Threads(Running) \subseteq cancel

(* A request nobody waits for does not go on: when it is cancelled by its age or the user
   interface, its client hangs up after the frame was read, or the server stops, its
   thread ends, even if it waits for the engine or its work would never end by itself. *)
AbandonedEnds ==
  \A c \in Connections :
    c \in Threads(Running) /\ (c \in cancel \/ stop \/ (c \in parsed /\ peer[c] = "closed"))
      ~> c \notin Threads(Running)

(* What the clients see is an Exchange: one answer at most, that says more than an error
   only to a whole frame, and a connection that is hung up does not stay. *)
Life(c) ==
  CASE thread[c].at \in Running -> "running"
    [] thread[c].at \in {"refused", "ended"} -> "ended"
    [] OTHER -> thread[c].at
Exchanged == INSTANCE Exchange WITH
  gone <- listener = "ended",
  life <- [c \in Connections |-> Life(c)],
  served <- {c \in served : At(c, "ended")}
ImplementsExchange == Exchanged!ExchangeSpec
=============================================================================
