--------------------------- MODULE RequestsProofs ---------------------------
(***************************************************************************)
(* The slots of the server are exact, and a server that stops reaches      *)
(* every request, for any number of clients, slots and watches.  The       *)
(* server implements Exchange, and a gateway in front of it behaves as     *)
(* Gateway says.                                                           *)
(*                                                                         *)
(* The inductive invariant RInv adds that only ended requests are done, so *)
(* the listener forgets no request that still runs.  The counters are      *)
(* followed through the cardinality of the sets of threads they count.     *)
(***************************************************************************)
EXTENDS Requests, FiniteSetTheorems, TLAPS

DoneEnded == done \subseteq Threads({"ended"})

RInv == TypeOK /\ SlotsAccounted /\ NoneEscapesStop /\ DoneEnded

\* The connections of f that are at one of the places.
In(f, places) == {c \in Connections : f[c].at \in places}

\* What the move of one thread does to the number of threads at some places.
LEMMA MoveCounts ==
  ASSUME NEW f \in [Connections -> ThreadState], NEW c \in Connections,
         NEW r \in ThreadState, NEW places,
         NEW g \in [Connections -> ThreadState],
         g[c] = r, \A d \in Connections \ {c} : g[d] = f[d]
  PROVE  /\ Cardinality(In(f, places)) \in Nat
         /\ (r.at \in places <=> f[c].at \in places)
              => Cardinality(In(g, places)) = Cardinality(In(f, places))
         /\ r.at \in places /\ f[c].at \notin places
              => Cardinality(In(g, places)) = Cardinality(In(f, places)) + 1
         /\ r.at \notin places /\ f[c].at \in places
              => /\ Cardinality(In(g, places)) = Cardinality(In(f, places)) - 1
                 /\ Cardinality(In(f, places)) > 0
<1>1. IsFiniteSet(In(f, places))
  <2>1. In(f, places) \subseteq Connections
    BY DEF In
  <2> QED
    BY <2>1, FS_Subset, RequestsAssumption
<1>2. Cardinality(In(f, places)) \in Nat
  BY <1>1, FS_CardinalityType
<1>3. ASSUME r.at \in places <=> f[c].at \in places
      PROVE  In(g, places) = In(f, places)
  BY <1>3 DEF In
<1>4. ASSUME r.at \in places, f[c].at \notin places
      PROVE  Cardinality(In(g, places)) = Cardinality(In(f, places)) + 1
  <2>1. In(g, places) = In(f, places) \cup {c} /\ c \notin In(f, places)
    BY <1>4 DEF In
  <2> QED
    BY <1>1, <2>1, FS_AddElement
<1>5. ASSUME r.at \notin places, f[c].at \in places
      PROVE  /\ Cardinality(In(g, places)) = Cardinality(In(f, places)) - 1
             /\ Cardinality(In(f, places)) > 0
  <2>1. In(g, places) = In(f, places) \ {c} /\ c \in In(f, places)
    BY <1>5 DEF In
  <2>2. Cardinality(In(g, places)) = Cardinality(In(f, places)) - 1
    BY <1>1, <2>1, FS_RemoveElement
  <2>3. IsFiniteSet(In(g, places))
    BY <1>1, <2>1, FS_RemoveElement
  <2>4. Cardinality(In(g, places)) \in Nat
    BY <2>3, FS_CardinalityType
  <2> QED
    BY <1>2, <2>2, <2>4
<1> QED
  BY <1>2, <1>3, <1>4, <1>5

\* The counters follow the thread: they are changed by exactly the steps that move it into
\* or out of the places they count.
SlotsFollow(c, r) ==
  \/ /\ r.at \in Holding <=> thread[c].at \in Holding
     /\ slots' = slots
  \/ /\ r.at \in Holding /\ thread[c].at \notin Holding
     /\ slots' = slots + 1 /\ slots < capacity
  \/ /\ r.at \notin Holding /\ thread[c].at \in Holding
     /\ slots' = slots - 1
ActiveFollows(c, r) ==
  \/ /\ r.at \in Counted <=> thread[c].at \in Counted
     /\ active' = active
  \/ /\ r.at \in Counted /\ thread[c].at \notin Counted
     /\ active' = active + 1
  \/ /\ r.at \notin Counted /\ thread[c].at \in Counted
     /\ active' = IF active = 0 THEN 0 ELSE active - 1

\* The thread of c goes to r.
Moved(c, r) ==
  /\ thread \in [Connections -> ThreadState] /\ thread' \in [Connections -> ThreadState]
  /\ thread'[c] = r /\ \A d \in Connections \ {c} : thread'[d] = thread[d]

LEMMA ThreadCounts ==
  ASSUME NEW c \in Connections, NEW r \in ThreadState, Moved(c, r), NEW places
  PROVE  /\ (r.at \in places <=> thread[c].at \in places)
              => Cardinality(In(thread', places)) = Cardinality(In(thread, places))
         /\ r.at \in places /\ thread[c].at \notin places
              => Cardinality(In(thread', places)) = Cardinality(In(thread, places)) + 1
         /\ r.at \notin places /\ thread[c].at \in places
              => /\ Cardinality(In(thread', places)) = Cardinality(In(thread, places)) - 1
                 /\ Cardinality(In(thread, places)) > 0
BY MoveCounts DEF Moved

LEMMA SlotsCount ==
  ASSUME NEW c \in Connections, NEW r \in ThreadState, Moved(c, r), SlotsFollow(c, r),
         slots \in Nat, slots = Cardinality(In(thread, Holding)),
         slots <= capacity, UNCHANGED capacity, capacity \in Nat
  PROVE  slots' = Cardinality(In(thread', Holding)) /\ slots' <= capacity' /\ slots' \in Nat
<1> DEFINE before == Cardinality(In(thread, Holding))
           after == Cardinality(In(thread', Holding))
<1>1. /\ (r.at \in Holding <=> thread[c].at \in Holding) => after = before
      /\ r.at \in Holding /\ thread[c].at \notin Holding => after = before + 1
      /\ r.at \notin Holding /\ thread[c].at \in Holding => after = before - 1 /\ before > 0
  BY ThreadCounts
<1> QED
  BY <1>1 DEF SlotsFollow

LEMMA ActiveCount ==
  ASSUME NEW c \in Connections, NEW r \in ThreadState, Moved(c, r), ActiveFollows(c, r),
         active \in Nat, active = Cardinality(In(thread, Counted))
  PROVE  active' = Cardinality(In(thread', Counted)) /\ active' \in Nat
<1> DEFINE before == Cardinality(In(thread, Counted))
           after == Cardinality(In(thread', Counted))
<1>1. /\ (r.at \in Counted <=> thread[c].at \in Counted) => after = before
      /\ r.at \in Counted /\ thread[c].at \notin Counted => after = before + 1
      /\ r.at \notin Counted /\ thread[c].at \in Counted => after = before - 1 /\ before > 0
  BY ThreadCounts
<1> QED
  BY <1>1 DEF ActiveFollows

\* What is left to show of a step of a running thread: where it goes, and what it does to
\* the counters.
LEMMA ThreadMoves ==
  ASSUME RInv, NEW c \in Connections, NEW r \in ThreadState,
         thread[c].at \in Running, thread' = [thread EXCEPT ![c] = r],
         UNCHANGED service, UNCHANGED cancel, UNCHANGED client,
         parsed' \subseteq Connections, served' \subseteq Connections,
         engine' \in Connections \cup {Nobody, Poisoned},
         done' = done \/ (done' = done \cup {c} /\ r.at = "ended"),
         SlotsFollow(c, r), ActiveFollows(c, r)
  PROVE  RInv'
<1>1. /\ thread \in [Connections -> ThreadState] /\ thread' \in [Connections -> ThreadState]
      /\ Moved(c, r)
  BY DEF RInv, TypeOK, Moved
<1>2. slots = Cardinality(In(thread, Holding)) /\ active = Cardinality(In(thread, Counted))
  BY DEF RInv, SlotsAccounted, Threads, In
<1>3. slots' = Cardinality(In(thread', Holding)) /\ slots' <= capacity' /\ slots' \in Nat
  <2>1. slots \in Nat /\ slots <= capacity /\ capacity \in Nat /\ capacity' = capacity
    BY RequestsAssumption DEF RInv, TypeOK, SlotsAccounted, service
  <2> QED
    BY <1>1, <1>2, <2>1, SlotsCount
<1>4. active' = Cardinality(In(thread', Counted)) /\ active' \in Nat
  <2>1. active \in Nat
    BY DEF RInv, TypeOK
  <2> QED
    BY <1>1, <1>2, <2>1, ActiveCount
<1>5. SlotsAccounted'
  BY <1>3, <1>4 DEF SlotsAccounted, Threads, In
<1>6. TypeOK'
  BY <1>1, <1>3, <1>4 DEF RInv, TypeOK, service, client
<1>7. NoneEscapesStop'
  BY <1>1 DEF RInv, NoneEscapesStop, Threads, service
<1>8. DoneEnded'
  BY <1>1 DEF RInv, DoneEnded, Threads, Running, Holding
<1> QED
  BY <1>5, <1>6, <1>7, <1>8 DEF RInv

LEMMA InitRInv == ServerInit => RInv
<1> SUFFICES ASSUME ServerInit
             PROVE  RInv
  OBVIOUS
<1>1. TypeOK
  BY DEF ServerInit, TypeOK, ThreadState, Places
<1>2. Threads(Holding) = {} /\ Threads(Counted) = {} /\ Threads(Running) = {}
  BY DEF ServerInit, Threads, Holding, Counted, Running
<1>3. SlotsAccounted
  BY <1>2, FS_EmptySet, RequestsAssumption DEF SlotsAccounted, ServerInit
<1>4. NoneEscapesStop /\ DoneEnded
  BY <1>2 DEF NoneEscapesStop, DoneEnded, ServerInit
<1> QED
  BY <1>1, <1>3, <1>4 DEF RInv

\* A thread goes from one place to another as its code says.
LEMMA ThreadKeeps ==
  ASSUME RInv, NEW c \in Connections, Thread(c) \/ Work(c)
  PROVE  RInv'
<1> DEFINE To(place) == [at |-> place, loaded |-> FALSE, seen |-> 0]
<1>0. /\ thread \in [Connections -> ThreadState] /\ thread[c] \in ThreadState
      /\ slots \in Nat /\ active \in Nat
      /\ parsed \subseteq Connections /\ served \subseteq Connections
      /\ engine \in Connections \cup {Nobody, Poisoned}
  BY DEF RInv, TypeOK
<1>p. \A place \in Places : To(place) \in ThreadState
  BY DEF ThreadState
<1> USE DEF At, Goes, Serves, Fails, flags, work
<1> USE DEF Running, Holding, Counted, Places, SlotsFollow, ActiveFollows
<1>1. CASE ReadFrame(c)
  <2>1. [thread[c] EXCEPT !.at = "checking"] \in ThreadState
    BY <1>0 DEF ThreadState
  <2>2. [thread[c] EXCEPT !.at = "checking"].at = "checking"
    BY <1>0 DEF ThreadState
  <2> QED
    BY <1>0, <1>1, <2>1, <2>2, ThreadMoves DEF ReadFrame
<1>2. CASE RefuseFrame(c)
  BY <1>0, <1>2, <1>p, ThreadMoves DEF RefuseFrame
<1>3. CASE Dispatch(c)
  <2>1. [at |-> "admitting", loaded |-> FALSE, seen |-> slots] \in ThreadState
    BY <1>0 DEF ThreadState
  <2> QED
    BY <1>0, <1>3, <1>p, <2>1, ThreadMoves DEF Dispatch
<1>4. CASE Busy(c)
  BY <1>0, <1>4, <1>p, ThreadMoves DEF Busy
<1>5. CASE TakeSlot(c)
  <2>1. [thread[c] EXCEPT !.seen = slots] \in ThreadState
    BY <1>0 DEF ThreadState
  <2>2. [thread[c] EXCEPT !.seen = slots].at = thread[c].at
    BY <1>0 DEF ThreadState
  <2> QED
    BY <1>0, <1>5, <1>p, <2>1, <2>2, ThreadMoves DEF TakeSlot
<1>6. CASE CountRequest(c)
  BY <1>0, <1>6, <1>p, ThreadMoves DEF CountRequest
<1>7. CASE StartWork(c)
  BY <1>0, <1>7, <1>p, ThreadMoves DEF StartWork
<1>8. CASE PollEngine(c) \/ LockEngine(c)
  BY <1>0, <1>8, <1>p, ThreadMoves DEF PollEngine, LockEngine
<1>9. CASE GiveUpEngine(c)
  BY <1>0, <1>9, <1>p, ThreadMoves DEF GiveUpEngine
<1>10. CASE GiveSlot(c)
  BY <1>0, <1>10, <1>p, ThreadMoves DEF GiveSlot
<1>11. CASE UncountRequest(c)
  BY <1>0, <1>11, <1>p, ThreadMoves DEF UncountRequest
<1>12. CASE EndRequest(c)
  BY <1>0, <1>12, <1>p, ThreadMoves DEF EndRequest
<1>13. CASE EndWork(c)
  BY <1>0, <1>13, <1>p, ThreadMoves DEF EndWork
<1>14. CASE Panic(c)
  BY <1>0, <1>14, <1>p, ThreadMoves DEF Panic
<1> QED
  BY <1>1, <1>2, <1>3, <1>4, <1>5, <1>6, <1>7, <1>8, <1>9, <1>10, <1>11, <1>12, <1>13,
    <1>14 DEF Thread, Work

\* A step that leaves the threads and their counters alone keeps the counts.
LEMMA CountsStay ==
  ASSUME RInv, UNCHANGED <<capacity, thread, slots, active>>
  PROVE  /\ SlotsAccounted'
         /\ Threads(Running)' = Threads(Running) /\ Threads({"ended"})' = Threads({"ended"})
BY DEF RInv, SlotsAccounted, Threads

\* A connection that is not answered yet is on its way, before it counts anywhere.
LEMMA ConnectionMoves ==
  ASSUME RInv, NEW c \in Connections, NEW r \in ThreadState,
         thread[c].at \in {"none", "queued"}, r.at \in {"queued", "refused", "reading"},
         thread' = [thread EXCEPT ![c] = r], UNCHANGED <<capacity, slots, active>>
  PROVE  /\ SlotsAccounted'
         /\ thread' \in [Connections -> ThreadState]
         /\ Threads(Running)' = IF r.at = "reading" THEN Threads(Running) \cup {c}
                                ELSE Threads(Running)
         /\ Threads({"ended"})' = Threads({"ended"})
<1>1. thread \in [Connections -> ThreadState]
  BY DEF RInv, TypeOK
<1>2. Threads(Holding)' = Threads(Holding) /\ Threads(Counted)' = Threads(Counted)
  BY <1>1 DEF Threads, Holding, Counted
<1>3. SlotsAccounted'
  BY <1>2 DEF RInv, SlotsAccounted
<1>4. Threads({"ended"})' = Threads({"ended"})
  BY <1>1 DEF Threads
<1>5. Threads(Running)' = IF r.at = "reading" THEN Threads(Running) \cup {c}
                          ELSE Threads(Running)
  BY <1>1 DEF Threads, Running, Holding
<1> QED
  BY <1>1, <1>3, <1>4, <1>5

LEMMA ListenerKeeps ==
  ASSUME RInv, Listener
  PROVE  RInv'
<1> USE DEF At, Goes, flags, work, client
<1>1. CASE Poll
  <2>1. TypeOK'
    BY <1>1 DEF RInv, TypeOK, Poll
  <2>2. SlotsAccounted'
    BY <1>1, CountsStay DEF Poll
  <2>3. Threads(Running) \cap done = {}
    BY DEF RInv, DoneEnded, Threads, Running, Holding
  <2>4. NoneEscapesStop'
    BY <1>1, <2>3, CountsStay DEF RInv, NoneEscapesStop, Poll
  <2>5. DoneEnded'
    BY <1>1, CountsStay DEF RInv, DoneEnded, Poll
  <2> QED
    BY <2>1, <2>2, <2>4, <2>5 DEF RInv
<1>2. CASE AcceptNothing \/ LeaveLoop \/ EndListener
  <2>1. TypeOK'
    BY <1>2 DEF RInv, TypeOK, AcceptNothing, LeaveLoop, EndListener
  <2>2. SlotsAccounted'
    BY <1>2, CountsStay DEF AcceptNothing, LeaveLoop, EndListener
  <2>3. NoneEscapesStop' /\ DoneEnded'
    BY <1>2, CountsStay DEF RInv, NoneEscapesStop, DoneEnded, AcceptNothing, LeaveLoop, EndListener
  <2> QED
    BY <2>1, <2>2, <2>3 DEF RInv
<1>3. ASSUME NEW c \in Connections, Accept(c)
      PROVE  RInv'
  <2> DEFINE r == [thread[c] EXCEPT !.at = "reading", !.loaded = project = "ready"]
  <2>1. r \in ThreadState /\ r.at = "reading"
    BY DEF RInv, TypeOK, ThreadState, Places, Running, Holding
  <2>2. thread' = [thread EXCEPT ![c] = r] /\ thread[c].at = "queued"
    BY <1>3 DEF Accept
  <2> HIDE DEF r
  <2>3. /\ SlotsAccounted' /\ thread' \in [Connections -> ThreadState]
        /\ Threads(Running)' = Threads(Running) \cup {c}
        /\ Threads({"ended"})' = Threads({"ended"})
    BY <1>3, <2>1, <2>2, ConnectionMoves DEF Accept
  <2>4. TypeOK'
    BY <1>3, <2>3 DEF RInv, TypeOK, Accept
  <2>5. NoneEscapesStop' /\ DoneEnded'
    BY <1>3, <2>3 DEF RInv, NoneEscapesStop, DoneEnded, Accept
  <2> QED
    BY <2>3, <2>4, <2>5 DEF RInv
<1>4. ASSUME NEW c \in Connections, Refuse(c)
      PROVE  RInv'
  <2> DEFINE r == [at |-> "refused", loaded |-> FALSE, seen |-> 0]
  <2>1. r \in ThreadState /\ r.at = "refused"
    BY DEF ThreadState, Places
  <2>2. thread' = [thread EXCEPT ![c] = r] /\ thread[c].at = "queued"
    BY <1>4 DEF Refuse
  <2> HIDE DEF r
  <2>3. /\ SlotsAccounted' /\ thread' \in [Connections -> ThreadState]
        /\ Threads(Running)' = Threads(Running)
        /\ Threads({"ended"})' = Threads({"ended"})
    BY <1>4, <2>1, <2>2, ConnectionMoves DEF Refuse
  <2>4. TypeOK'
    BY <1>4, <2>3 DEF RInv, TypeOK, Refuse
  <2>5. NoneEscapesStop' /\ DoneEnded'
    BY <1>4, <2>3 DEF RInv, NoneEscapesStop, DoneEnded, Refuse
  <2> QED
    BY <2>3, <2>4, <2>5 DEF RInv
<1> QED
  BY <1>1, <1>2, <1>3, <1>4 DEF Listener

LEMMA OwnerKeeps ==
  ASSUME RInv, CancelRequests \/ DropServer \/ FinishDrop
  PROVE  RInv'
<1> USE DEF CancelRequests, DropServer, FinishDrop, service, flags, work, client
<1>1. /\ UNCHANGED <<capacity, thread, slots, active, watches, listener, done>>
      /\ cancel \subseteq cancel'
  OBVIOUS
<1>2. TypeOK'
  BY DEF RInv, TypeOK
<1>3. SlotsAccounted'
  BY <1>1, CountsStay
<1>4. NoneEscapesStop' /\ DoneEnded'
  BY <1>1, CountsStay DEF RInv, NoneEscapesStop, DoneEnded
<1> QED
  BY <1>2, <1>3, <1>4 DEF RInv

LEMMA ClientKeeps ==
  ASSUME RInv, Client
  PROVE  RInv'
<1> USE DEF At, Goes, service, flags, work
<1>1. ASSUME NEW c \in Connections, Connect(c)
      PROVE  RInv'
  <2> DEFINE r == [at |-> "queued", loaded |-> FALSE, seen |-> 0]
  <2>1. r \in ThreadState /\ r.at = "queued"
    BY DEF ThreadState, Places
  <2>2. thread' = [thread EXCEPT ![c] = r] /\ thread[c].at = "none"
    BY <1>1 DEF Connect
  <2> HIDE DEF r
  <2>3. /\ SlotsAccounted' /\ thread' \in [Connections -> ThreadState]
        /\ Threads(Running)' = Threads(Running)
        /\ Threads({"ended"})' = Threads({"ended"})
    BY <1>1, <2>1, <2>2, ConnectionMoves DEF Connect
  <2>4. TypeOK'
    BY <1>1, <2>3 DEF RInv, TypeOK, Connect
  <2>5. NoneEscapesStop' /\ DoneEnded'
    BY <1>1, <2>3 DEF RInv, NoneEscapesStop, DoneEnded, Connect
  <2> QED
    BY <2>3, <2>4, <2>5 DEF RInv
<1>2. ASSUME UNCHANGED <<service, flags, thread, work, served>>, TypeOK'
      PROVE  RInv'
  BY <1>2, CountsStay DEF RInv, NoneEscapesStop, DoneEnded
<1>3. ASSUME NEW c \in Connections, SendFrame(c)
      PROVE  RInv'
  <2>1. TypeOK'
    BY <1>3 DEF RInv, TypeOK, SendFrame
  <2> QED
    BY <1>2, <1>3, <2>1 DEF SendFrame
<1>4. ASSUME NEW cs, HangUp(cs)
      PROVE  RInv'
  <2>1. TypeOK'
    BY <1>4 DEF RInv, TypeOK, HangUp
  <2> QED
    BY <1>2, <1>4, <2>1 DEF HangUp
<1> QED
  BY <1>1, <1>3, <1>4 DEF Client

LEMMA Invariance == ServerSpec => []RInv
<1>1. RInv /\ [Server \/ Client]_serverVars => RInv'
  <2> SUFFICES ASSUME RInv, [Server \/ Client]_serverVars
               PROVE  RInv'
    OBVIOUS
  <2>1. CASE Server
    BY <2>1, ThreadKeeps, ListenerKeeps, OwnerKeeps DEF Server
  <2>2. CASE Client
    BY <2>2, ClientKeeps
  <2>3. CASE UNCHANGED serverVars
    BY <2>3 DEF RInv, TypeOK, SlotsAccounted, NoneEscapesStop, DoneEnded, Threads, serverVars,
      service, flags, work, client
  <2> QED
    BY <2>1, <2>2, <2>3
<1> QED
  BY InitRInv, <1>1, PTL DEF ServerSpec

(* The compare-and-exchange of dispatch and WorkSlot::drop keep the slots exact: whatever
   the requests read of the counter, at most capacity of them work, and each path gives
   its slot and its count back once. *)
THEOREM SlotsExact == ServerSpec => []SlotsAccounted
<1>1. RInv => SlotsAccounted
  BY DEF RInv
<1> QED
  BY Invariance, <1>1, PTL

(* Every running request is among those the listener watches, so that the end of the
   listener cancels all of them: poll_requests forgets only requests that are done. *)
THEOREM StopReachesRequests == ServerSpec => []NoneEscapesStop
<1>1. RInv => NoneEscapesStop
  BY DEF RInv
<1> QED
  BY Invariance, <1>1, PTL

-----------------------------------------------------------------------------
(* The exchange *)

\* Only a request whose frame was read gets as far as an answer with a result.
Framed ==
  /\ \A c \in Connections : thread[c].at \in Running \ {"reading", "writing"} => c \in sent
  /\ served \subseteq sent

Lives == [c \in Connections |-> Life(c)]
Answers == {c \in served : At(c, "ended")}

\* A running thread goes to a place where it still runs.
LEMMA StepUnseen ==
  ASSUME RInv, Framed, NEW c \in Connections, NEW r \in ThreadState,
         thread[c].at \in Running, r.at \in Running, thread' = [thread EXCEPT ![c] = r],
         UNCHANGED <<service, client>>,
         r.at \notin {"reading", "writing"} => c \in sent,
         served' = served \/ (served' = served \cup {c} /\ c \in sent)
  PROVE  Framed' /\ UNCHANGED Exchanged!exchangeVars
<1>1. thread \in [Connections -> ThreadState]
  BY DEF RInv, TypeOK
<1>2. /\ thread'[c] = r
      /\ \A d \in Connections \ {c} : thread'[d] = thread[d]
  BY <1>1
<1>3. Framed'
  BY <1>2 DEF Framed, client
<1>4. \A d \in Connections : Life(d)' = Life(d)
  <2>1. Life(c)' = "running" /\ Life(c) = "running"
    BY <1>2 DEF Life, Running, Holding
  <2>2. \A d \in Connections \ {c} : Life(d)' = Life(d)
    BY <1>2 DEF Life
  <2> QED
    BY <2>1, <2>2
<1>5. Lives' = Lives
  BY <1>4 DEF Lives
<1>6. Answers' = Answers
  <2>1. thread[c].at # "ended" /\ r.at # "ended"
    BY DEF Running, Holding
  <2> QED
    BY <1>2, <2>1 DEF Answers, At, RInv, TypeOK
<1> QED
  BY <1>3, <1>5, <1>6 DEF Exchanged!exchangeVars, Lives, Answers, service, client

\* The thread of a request ends, with the result that it has, or without.
LEMMA EndsExchange ==
  ASSUME RInv, Framed, NEW c \in Connections, EndRequest(c)
  PROVE  Framed' /\ Exchanged!End(c)
<1>1. thread \in [Connections -> ThreadState] /\ served \subseteq Connections
  BY DEF RInv, TypeOK
<1>2. /\ thread[c].at = "writing" /\ thread'[c].at = "ended"
      /\ \A d \in Connections \ {c} : thread'[d] = thread[d]
      /\ UNCHANGED <<listener, served, peer, sent>>
  BY <1>1 DEF EndRequest, At, Goes, service, client
<1>3. Framed'
  BY <1>2 DEF Framed, Running, Holding
<1>4. /\ Life(c) = "running" /\ Life(c)' = "ended"
      /\ \A d \in Connections \ {c} : Life(d)' = Life(d)
  BY <1>2 DEF Life, Running, Holding
<1>5. Lives' = [Lives EXCEPT ![c] = "ended"] /\ Lives[c] = "running"
  BY <1>4 DEF Lives
<1>6. Answers' = Answers \/ (c \in sent /\ Answers' = Answers \cup {c})
  <2>1. CASE c \in served
    BY <1>1, <1>2, <2>1 DEF Answers, At, Framed
  <2>2. CASE c \notin served
    BY <1>1, <1>2, <2>2 DEF Answers, At
  <2> QED
    BY <2>1, <2>2
<1> QED
  BY <1>2, <1>3, <1>5, <1>6 DEF Exchanged!End, Lives, Answers

\* A connection that waits is accepted or refused.
LEMMA AcceptsExchange ==
  ASSUME RInv, Framed, NEW c \in Connections, Accept(c) \/ Refuse(c)
  PROVE  Framed' /\ (Exchanged!Serve(c) \/ Exchanged!Refuse(c))
<1>1. thread \in [Connections -> ThreadState] /\ served \subseteq Connections
  BY DEF RInv, TypeOK
<1>2. /\ thread[c].at = "queued" /\ thread'[c].at \in {"reading", "refused"}
      /\ \A d \in Connections \ {c} : thread'[d] = thread[d]
      /\ listener # "ended" /\ listener' # "ended" /\ UNCHANGED <<served, peer, sent>>
  <2>1. CASE Accept(c)
    BY <1>1, <2>1 DEF Accept, At, ThreadState, client
  <2>2. CASE Refuse(c)
    BY <1>1, <2>2 DEF Refuse, At, Goes, client
  <2> QED
    BY <2>1, <2>2
<1>3. Framed'
  BY <1>2 DEF Framed, Running, Holding
<1>4. /\ Life(c) = "queued" /\ Life(c)' \in {"running", "ended"}
      /\ \A d \in Connections \ {c} : Life(d)' = Life(d)
  BY <1>2 DEF Life, Running, Holding
<1>5. /\ Lives' = [Lives EXCEPT ![c] = "running"] \/ Lives' = [Lives EXCEPT ![c] = "ended"]
      /\ Lives[c] = "queued"
  BY <1>4 DEF Lives
<1>6. Answers' = Answers
  BY <1>1, <1>2 DEF Answers, At
<1> QED
  BY <1>2, <1>3, <1>5, <1>6 DEF Exchanged!Serve, Exchanged!Refuse, Lives, Answers

\* No connection moves.
LEMMA NothingMoves ==
  ASSUME Framed, UNCHANGED <<thread, served, sent>>
  PROVE  Framed' /\ UNCHANGED <<Lives, Answers>>
BY DEF Framed, Lives, Life, Answers, At

LEMMA ThreadExchange ==
  ASSUME RInv, Framed, NEW c \in Connections, Thread(c) \/ Work(c)
  PROVE  Framed' /\ (Exchanged!End(c) \/ UNCHANGED Exchanged!exchangeVars)
<1>0. CASE EndRequest(c)
  BY <1>0, EndsExchange
<1>1. ASSUME ~EndRequest(c)
      PROVE  Framed' /\ UNCHANGED Exchanged!exchangeVars
  <2>1. \E r \in ThreadState :
          /\ r.at \in Running /\ thread[c].at \in Running /\ thread' = [thread EXCEPT ![c] = r]
          /\ UNCHANGED <<service, client>>
          /\ r.at \notin {"reading", "writing"} => c \in sent
          /\ served' = served \/ (served' = served \cup {c} /\ c \in sent)
    <3> DEFINE To(place) == [at |-> place, loaded |-> FALSE, seen |-> 0]
    <3>0. /\ thread \in [Connections -> ThreadState] /\ thread[c] \in ThreadState
          /\ slots \in Nat
          /\ thread[c].at \in Running \ {"reading", "writing"} => c \in sent
      BY DEF RInv, TypeOK, Framed
    <3>p. \A place \in Places : To(place) \in ThreadState /\ To(place).at = place
      BY DEF ThreadState
    <3> HIDE DEF To
    <3>q. ASSUME NEW place \in Running, Goes(c, place)
          PROVE  thread' = [thread EXCEPT ![c] = To(place)] /\ place \in Places
      BY <3>q DEF Goes, To, Places
    <3> USE DEF At, Serves, Fails, flags, work
    <3>1. CASE ReadFrame(c) \/ (TakeSlot(c) /\ ~Goes(c, "counting"))
      <4>1. PICK r \in ThreadState :
              /\ r.at \in {"checking", "admitting"}
              /\ thread' = [thread EXCEPT ![c] = r]
        <5>1. CASE ReadFrame(c)
          <6>1. /\ [thread[c] EXCEPT !.at = "checking"] \in ThreadState
                /\ [thread[c] EXCEPT !.at = "checking"].at = "checking"
            BY <3>0 DEF ThreadState, Places, Running, Holding
          <6> QED
            BY <5>1, <6>1 DEF ReadFrame
        <5>2. CASE TakeSlot(c) /\ ~Goes(c, "counting")
          <6>1. /\ [thread[c] EXCEPT !.seen = slots] \in ThreadState
                /\ [thread[c] EXCEPT !.seen = slots].at = thread[c].at
            BY <3>0 DEF ThreadState
          <6> QED
            BY <5>2, <6>1 DEF TakeSlot
        <5> QED
          BY <3>1, <5>1, <5>2
      <4> QED
        BY <3>0, <3>1, <4>1 DEF ReadFrame, TakeSlot, Running, Holding
    <3>2. CASE Dispatch(c) /\ ~Fails(c, "writing") /\ ~Serves(c, "writing")
      <4> DEFINE r == [at |-> "admitting", loaded |-> FALSE, seen |-> slots]
      <4>1. r \in ThreadState /\ r.at = "admitting"
        BY <3>0 DEF ThreadState, Places, Running, Holding
      <4> QED
        BY <3>0, <3>2, <4>1 DEF Dispatch, Running, Holding
    <3>3. CASE Dispatch(c) /\ (Fails(c, "writing") \/ Serves(c, "writing"))
      BY <3>0, <3>3, <3>p, <3>q DEF Dispatch, Running, Holding
    <3>4. CASE RefuseFrame(c) \/ Busy(c)
      BY <3>0, <3>4, <3>p, <3>q DEF RefuseFrame, Busy, Running, Holding
    <3>5. CASE TakeSlot(c) /\ Goes(c, "counting")
      BY <3>0, <3>5, <3>p, <3>q DEF TakeSlot, Running, Holding
    <3>6. CASE CountRequest(c) \/ StartWork(c)
      BY <3>0, <3>6, <3>p, <3>q DEF CountRequest, StartWork, Running, Holding
    <3>7. CASE PollEngine(c) \/ LockEngine(c) \/ GiveUpEngine(c)
      BY <3>0, <3>7, <3>p, <3>q DEF PollEngine, LockEngine, GiveUpEngine, Running, Holding
    <3>8. CASE GiveSlot(c) \/ UncountRequest(c)
      BY <3>0, <3>8, <3>p, <3>q DEF GiveSlot, UncountRequest, Running, Holding
    <3>9. CASE EndWork(c) \/ Panic(c)
      BY <3>0, <3>9, <3>p, <3>q DEF EndWork, Panic, Running, Holding
    <3> HIDE DEF At, Serves, Fails, flags, work
    <3>10. \/ ReadFrame(c) \/ RefuseFrame(c) \/ Dispatch(c) \/ Busy(c) \/ TakeSlot(c)
           \/ CountRequest(c) \/ StartWork(c) \/ PollEngine(c) \/ LockEngine(c)
           \/ GiveUpEngine(c) \/ GiveSlot(c) \/ UncountRequest(c) \/ EndWork(c) \/ Panic(c)
      BY <1>1 DEF Thread, Work
    <3> QED
      BY <3>1, <3>2, <3>3, <3>4, <3>5, <3>6, <3>7, <3>8, <3>9, <3>10, Zenon
  <2> QED
    BY <2>1, StepUnseen
<1> QED
  BY <1>0, <1>1

LEMMA ServerExchange ==
  ASSUME RInv, Framed, Server
  PROVE  Framed' /\ [Exchanged!Server]_Exchanged!exchangeVars
<1>1. ASSUME NEW c \in Connections, Thread(c) \/ Work(c)
      PROVE  Framed' /\ [Exchanged!Server]_Exchanged!exchangeVars
  BY <1>1, ThreadExchange DEF Exchanged!Server
<1>2. ASSUME NEW c \in Connections, Accept(c) \/ Refuse(c)
      PROVE  Framed' /\ [Exchanged!Server]_Exchanged!exchangeVars
  BY <1>2, AcceptsExchange DEF Exchanged!Server
<1>3. CASE CancelRequests \/ DropServer \/ FinishDrop \/ Poll \/ AcceptNothing \/ LeaveLoop
  <2>1. UNCHANGED <<thread, served, client>> /\ (listener = "ended") = (listener' = "ended")
    BY <1>3 DEF CancelRequests, DropServer, FinishDrop, Poll, AcceptNothing, LeaveLoop, service
  <2> QED
    BY <2>1, NothingMoves DEF Exchanged!exchangeVars, Lives, Answers, client
<1>4. CASE EndListener
  <2>1. UNCHANGED <<thread, served, client>> /\ listener' = "ended"
    BY <1>4 DEF EndListener
  <2>2. Framed' /\ Exchanged!Leave
    BY <2>1, NothingMoves DEF Exchanged!Leave, Lives, Answers, client
  <2> QED
    BY <2>2 DEF Exchanged!Server
<1> QED
  BY <1>1, <1>2, <1>3, <1>4 DEF Server, Listener

LEMMA ClientExchange ==
  ASSUME RInv, Framed, Client
  PROVE  Framed' /\ Exchanged!Client
<1>0. thread \in [Connections -> ThreadState] /\ served \subseteq Connections
  BY DEF RInv, TypeOK
<1>1. ASSUME NEW c \in Connections, Connect(c)
      PROVE  Framed' /\ Exchanged!Connect(c)
  <2>1. /\ thread[c].at = "none" /\ thread'[c].at = "queued"
        /\ \A d \in Connections \ {c} : thread'[d] = thread[d]
        /\ listener # "ended" /\ UNCHANGED <<listener, served, sent>>
        /\ peer' = [peer EXCEPT ![c] = "open"]
    BY <1>0, <1>1 DEF Connect, At, Goes, service
  <2>2. Framed'
    BY <2>1 DEF Framed, Running, Holding
  <2>3. /\ Life(c) = "none" /\ Life(c)' = "queued"
        /\ \A d \in Connections \ {c} : Life(d)' = Life(d)
    BY <2>1 DEF Life, Running, Holding
  <2>4. Lives' = [Lives EXCEPT ![c] = "queued"] /\ Lives[c] = "none"
    BY <2>3 DEF Lives
  <2>5. Answers' = Answers
    BY <1>0, <2>1 DEF Answers, At
  <2> QED
    BY <2>1, <2>2, <2>4, <2>5 DEF Exchanged!Connect, Lives, Answers
<1>2. ASSUME NEW c \in Connections, SendFrame(c)
      PROVE  Framed' /\ Exchanged!SendFrame(c)
  <2>1. UNCHANGED <<listener, thread, served>>
    BY <1>2 DEF SendFrame, service
  <2>2. UNCHANGED <<Lives, Answers>>
    BY <2>1 DEF Lives, Life, Answers, At
  <2>3. Framed'
    BY <1>2, <2>1 DEF Framed, SendFrame
  <2> QED
    BY <1>2, <2>1, <2>2, <2>3 DEF SendFrame, Exchanged!SendFrame, Lives, Answers
<1>3. ASSUME NEW cs \in SUBSET Connections, HangUp(cs)
      PROVE  Framed' /\ Exchanged!HangUp(cs)
  <2>1. UNCHANGED <<listener, thread, served, sent>>
    BY <1>3 DEF HangUp, service
  <2> QED
    BY <1>3, <2>1, NothingMoves DEF HangUp, Exchanged!HangUp, Lives, Answers
<1> QED
  BY <1>1, <1>2, <1>3 DEF Client, Exchanged!Client

(* A client sees an exchange: whatever the threads, the listener and the user interface do,
   a connection is served or refused by a server that listens, and is answered with a
   result at most once, at its end and only if its whole frame was sent. *)
THEOREM RefinesExchange == ServerSpec => Exchanged!ExchangeSafety
<1>1. ServerInit => Framed /\ Exchanged!ExchangeInit
  <2> SUFFICES ASSUME ServerInit
               PROVE  Framed /\ Exchanged!ExchangeInit
    OBVIOUS
  <2>1. Framed
    BY DEF ServerInit, Framed, Running, Holding
  <2>2. \A c \in Connections : Life(c) = "none"
    BY DEF ServerInit, Life, Running, Holding
  <2> QED
    BY <2>1, <2>2 DEF ServerInit, Exchanged!ExchangeInit
<1>2. RInv /\ Framed /\ [Server \/ Client]_serverVars
        => Framed' /\ [Exchanged!Client \/ Exchanged!Server]_Exchanged!exchangeVars
  <2> SUFFICES ASSUME RInv, Framed, [Server \/ Client]_serverVars
               PROVE  Framed' /\ [Exchanged!Client \/ Exchanged!Server]_Exchanged!exchangeVars
    OBVIOUS
  <2>1. CASE UNCHANGED serverVars
    <3>1. UNCHANGED <<listener, thread, served, client>>
      BY <2>1 DEF serverVars, service
    <3> QED
      BY <3>1, NothingMoves DEF Exchanged!exchangeVars, Lives, Answers, client
  <2> QED
    BY <2>1, ServerExchange, ClientExchange
<1> QED
  BY <1>1, <1>2, Invariance, PTL DEF ServerSpec, Exchanged!ExchangeSafety

-----------------------------------------------------------------------------
(* The gateway in front of the server *)

CONSTANTS Ids, MaxJobs
VARIABLES main, waits, targets, hanging, job, flagged, attached, answer

\* The gateway sees the exchange of this server.
Gate == INSTANCE Gateway WITH gone <- listener = "ended", life <- Lives, served <- Answers

\* What the gateway does by itself: its steps are the only ones that change its state or the
\* client's ends of the connections.
GatewaySpec == Gate!Init /\ [][Gate!GatewayNext]_<<Gate!gatewayVars, client>>

(* A gateway that runs against this server behaves as Gateway says: its model may put
   Exchange in the place of the server. *)
THEOREM GatewayMeetsServer == ServerSpec /\ GatewaySpec => Gate!Spec
<1> DEFINE Unopened ==
             /\ peer \in [Connections -> {"none", "open", "closed"}]
             /\ \A c \in Connections : Lives[c] = "none" => peer[c] = "none"
           Exchange == [Exchanged!Client \/ Exchanged!Server]_Exchanged!exchangeVars
<1> USE DEF Exchanged!exchangeVars
<1>1. Exchanged!ExchangeInit => Unopened
  BY DEF Exchanged!ExchangeInit, Lives
<1>2. Unopened /\ Exchange => Unopened'
  <2> SUFFICES ASSUME Unopened, Exchange
               PROVE  Unopened'
    OBVIOUS
  <2>1. ASSUME NEW c \in Connections, Exchanged!Connect(c)
        PROVE  Unopened'
    <3>1. Lives' = [Lives EXCEPT ![c] = "queued"] /\ peer' = [peer EXCEPT ![c] = "open"]
      BY <2>1 DEF Exchanged!Connect, Lives
    <3>2. \A d \in Connections : Lives'[d] = IF d = c THEN "queued" ELSE Lives[d]
      BY <3>1 DEF Lives
    <3> QED
      BY <3>1, <3>2
  <2>2. ASSUME NEW c \in Connections,
               Exchanged!Serve(c) \/ Exchanged!Refuse(c) \/ Exchanged!End(c)
        PROVE  Unopened'
    <3>1. PICK place \in {"running", "ended"} : Lives' = [Lives EXCEPT ![c] = place]
      BY <2>2 DEF Exchanged!Serve, Exchanged!Refuse, Exchanged!End, Lives
    <3>2. \A d \in Connections : Lives'[d] = IF d = c THEN place ELSE Lives[d]
      BY <3>1 DEF Lives
    <3>3. UNCHANGED peer
      BY <2>2 DEF Exchanged!Serve, Exchanged!Refuse, Exchanged!End
    <3> QED
      BY <3>2, <3>3
  <2>3. ASSUME NEW cs, Exchanged!HangUp(cs)
        PROVE  Unopened'
    BY <2>3 DEF Exchanged!HangUp, Lives
  <2>4. ASSUME UNCHANGED <<Lives, peer>>
        PROVE  Unopened'
    BY <2>4
  <2>5. ASSUME NEW c \in Connections, Exchanged!SendFrame(c)
        PROVE  Unopened'
    BY <2>4, <2>5 DEF Exchanged!SendFrame, Lives
  <2>6. CASE Exchanged!Leave \/ UNCHANGED Exchanged!exchangeVars
    BY <2>4, <2>6 DEF Exchanged!Leave, Lives
  <2> QED
    BY <2>1, <2>2, <2>3, <2>5, <2>6 DEF Exchanged!Client, Exchanged!Server
<1>3. Unopened /\ Exchange /\ [Gate!GatewayNext]_<<Gate!gatewayVars, client>>
        => [Gate!Next]_Gate!vars
  <2> SUFFICES ASSUME Unopened, Exchange, UNCHANGED <<Gate!gatewayVars, client>>
               PROVE  [Gate!Next]_Gate!vars
    BY DEF Gate!Next
  <2>1. CASE Exchanged!Server
    <3>1. Gate!Server
      BY <2>1 DEF Exchanged!Server, Exchanged!Leave, Exchanged!Serve, Exchanged!Refuse,
         Exchanged!End, Gate!Server, Gate!Leave, Gate!Serve, Gate!Refuse, Gate!End, Lives, Answers
    <3> QED
      BY <3>1 DEF Gate!Next
  <2>2. ASSUME UNCHANGED Exchanged!exchangeVars
        PROVE  UNCHANGED Gate!vars
    BY <2>2 DEF Gate!vars, Gate!exchangeVars, Lives, Answers
  <2>3. ASSUME NEW c \in Connections
        PROVE  ~Exchanged!Connect(c) /\ ~Exchanged!SendFrame(c)
    <3>1. Exchanged!Connect(c) => Lives[c] = "none" /\ peer' = [peer EXCEPT ![c] = "open"]
      BY DEF Exchanged!Connect, Lives
    <3>2. UNCHANGED <<peer, sent>>
      BY DEF client
    <3> QED
      BY <3>1, <3>2 DEF Exchanged!SendFrame
  <2>4. ASSUME NEW cs, Exchanged!HangUp(cs)
        PROVE  UNCHANGED Exchanged!exchangeVars
    BY <2>4 DEF Exchanged!HangUp, client
  <2> QED
    BY <2>1, <2>2, <2>3, <2>4 DEF Exchanged!Client
<1> QED
  BY RefinesExchange, <1>1, <1>2, <1>3, PTL
     DEF GatewaySpec, Gate!Spec, Gate!Init, Exchanged!ExchangeSafety
=============================================================================
