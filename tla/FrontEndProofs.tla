---------------------------- MODULE FrontEndProofs ----------------------------
(***************************************************************************)
(* The two front ends, which serve a client and a user: the gateway, for   *)
(* any number of calls, jobs and ids, and the window, for any number of    *)
(* targets, projects and jumps.  They share nothing, and each has its own  *)
(* inductive invariant.                                                    *)
(*                                                                         *)
(* GInv adds to what the gateway promises what its main thread waits for,  *)
(* and which connection a job that may send is attached to.  WInv adds to  *)
(* the engine and the jumps of the window what each of its threads was     *)
(* started with, and which targets it can show before it has an archive.   *)
(***************************************************************************)
EXTENDS Gateway, Window, FiniteSetTheorems, SequenceTheorems, TLAPS

-----------------------------------------------------------------------------
(* The gateway *)


Results == {"none", "data", "error"}
JobState ==
  [at : Active \cup {"none", "answered"}, id : Ids \cup {NoJob.id}, got : Results]

GTypes ==
  /\ job \in [Connections -> JobState]
  /\ peer \in [Connections -> {"none", "open", "closed"}]
  /\ answer \in [Connections -> Results \cup {"cancelled"}]
  /\ targets \subseteq Connections

\* The main thread cancels jobs, or waits for a call, which is no job that was cancelled.
MainThread ==
  /\ waits # Nobody => main = "calling"
  /\ main \notin {"cancelling", "ending"} => targets = {} /\ hanging = Nobody
  /\ hanging # Nobody => hanging \in flagged
  /\ \A j \in targets \cup flagged : j # waits /\ job[j].at # "none"

\* A job that may use its connection has it, attached; and data is of this connection.
Linked ==
  \A j \in Connections :
    /\ job[j].at \in {"attaching", "sending", "awaiting", "closing"} => peer[j] # "none"
    /\ job[j].at \in {"sending", "awaiting"} /\ j # waits => j \in attached
    /\ job[j].got = "data" =>
         /\ job[j].at \in {"closing", "deciding"} /\ j \in served
         /\ job[j].at = "deciding" => peer[j] = "closed"

GInv == GTypes /\ flagged \subseteq Connections /\ MainThread /\ Linked /\ CancelReaches

\* Only the call j goes on, to r.
JobGoes(j, r) ==
  /\ job' \in [Connections -> JobState]
  /\ job'[j] = r /\ \A k \in Connections \ {j} : job'[k] = job[k]

LEMMA MovesJob ==
  ASSUME GInv, NEW j \in Connections, NEW place \in Active \cup {"answered"},
         Moves(j, place)
  PROVE  \E r \in JobState : JobGoes(j, r) /\ r.at = place /\ r.got = job[j].got
<1> DEFINE r == [job[j] EXCEPT !.at = place]
<1>1. r \in JobState /\ r.at = place /\ r.got = job[j].got
  BY DEF GInv, GTypes, JobState
<1>2. job' = [job EXCEPT ![j] = r]
  BY DEF Moves
<1> HIDE DEF r
<1> QED
  BY <1>1, <1>2 DEF JobGoes, GInv, GTypes

LEMMA GetsJob ==
  ASSUME GInv, NEW j \in Connections, NEW result \in Results, NEW place \in Active,
         Gets(j, result, place)
  PROVE  \E r \in JobState : JobGoes(j, r) /\ r.at = place /\ r.got = result
<1> DEFINE r == [job[j] EXCEPT !.at = place, !.got = result]
<1>1. r \in JobState /\ r.at = place /\ r.got = result
  BY DEF GInv, GTypes, JobState
<1>2. job' = [job EXCEPT ![j] = r]
  BY DEF Gets
<1> HIDE DEF r
<1> QED
  BY <1>1, <1>2 DEF JobGoes, GInv, GTypes

LEMMA NoJobState ==
  /\ NoJob \in JobState /\ NoJob.at = "none" /\ NoJob.got = "none"
  /\ [NoJob EXCEPT !.at = "answered"] \in JobState
  /\ [NoJob EXCEPT !.at = "answered"].at = "answered"
  /\ [NoJob EXCEPT !.at = "answered"].got = "none"
BY DEF NoJob, JobState, Results

\* What is left to show of a step of the call j that does not touch a connection.
LEMMA JobGoesInv ==
  ASSUME GInv, NEW j \in Connections, NEW r \in JobState, JobGoes(j, r),
         UNCHANGED <<peer, served, targets, hanging, flagged>>,
         answer' \in [Connections -> Results \cup {"cancelled"}],
         MainThread',
         attached \subseteq attached',
         \A k \in Connections \ {j} : k = waits <=> k = waits',
         r.at \in {"attaching", "sending", "awaiting", "closing"} => peer[j] # "none",
         r.at \in {"sending", "awaiting"} =>
           /\ j # waits' => j \in attached'
           /\ j \in flagged \ {hanging} => peer[j] = "closed",
         r.got = "data" => /\ r.at \in {"closing", "deciding"} /\ j \in served
                           /\ r.at = "deciding" => peer[j] = "closed"
  PROVE  GInv'
<1>1. GTypes' /\ flagged' \subseteq Connections
  BY DEF GInv, GTypes, JobGoes
<1>2. Linked'
  BY DEF GInv, Linked, JobGoes
<1>3. CancelReaches'
  BY DEF GInv, CancelReaches, JobGoes
<1> QED
  BY <1>1, <1>2, <1>3 DEF GInv

LEMMA MessagesInv ==
  ASSUME GInv, Messages
  PROVE  GInv'
<1> USE DEF exchangeVars, gatewayMain
<1>1. CASE EndInput
  <2>1. MainThread'
    BY <1>1, GatewayAssumption DEF EndInput, Jobs, GInv, MainThread, Active
  <2> QED
    BY <1>1, <2>1 DEF EndInput, Jobs, GInv, GTypes, Linked, CancelReaches
<1>2. ASSUME NEW j \in Connections, CancelNotified(j)
      PROVE  GInv'
  <2>1. MainThread'
    BY <1>2, GatewayAssumption
       DEF CancelNotified, Jobs, GInv, MainThread, Active
  <2> QED
    BY <1>2, <2>1 DEF CancelNotified, Jobs, GInv, GTypes, Linked, CancelReaches
<1>3. ASSUME NEW j \in Connections, StartJob(j)
      PROVE  GInv'
  <2>1. PICK i \in Ids : job' = [job EXCEPT ![j] = [@ EXCEPT !.at = "connecting", !.id = i]]
    BY <1>3 DEF StartJob
  <2> DEFINE r == [job[j] EXCEPT !.at = "connecting", !.id = i]
  <2>2. r \in JobState /\ r.at = "connecting" /\ r.got = job[j].got
    BY DEF GInv, GTypes, JobState, Active
  <2>3. job' = [job EXCEPT ![j] = r]
    BY <2>1
  <2> HIDE DEF r
  <2>4. JobGoes(j, r)
    BY <2>2, <2>3 DEF JobGoes, GInv, GTypes
  <2>5. job[j].got # "data" /\ j \notin flagged /\ j \notin targets
    BY <1>3 DEF StartJob, GInv, Linked, MainThread
  <2>6. MainThread'
    BY <1>3, <2>2, <2>4, <2>5 DEF StartJob, GInv, MainThread, JobGoes, GTypes
  <2> QED
    BY <1>3, <2>2, <2>4, <2>5, <2>6, JobGoesInv DEF StartJob, GInv, GTypes
<1>4. ASSUME NEW j \in Connections, RefuseJob(j)
      PROVE  GInv'
  <2>1. PICK r \in JobState : JobGoes(j, r) /\ r.at = "answered" /\ r.got = job[j].got
    BY <1>4, MovesJob DEF RefuseJob
  <2>2. job[j].got # "data"
    BY <1>4 DEF RefuseJob, GInv, Linked
  <2>3. MainThread'
    BY <1>4, <2>1 DEF RefuseJob, GInv, MainThread, JobGoes, GTypes
  <2>4. answer' \in [Connections -> Results \cup {"cancelled"}]
    BY <1>4 DEF RefuseJob, GInv, GTypes, Results
  <2> QED
    BY <1>4, <2>1, <2>2, <2>3, <2>4, JobGoesInv DEF RefuseJob
<1>5. ASSUME NEW j \in Connections, Call(j)
      PROVE  GInv'
  <2>1. PICK r \in JobState : JobGoes(j, r) /\ r.at = "connecting" /\ r.got = job[j].got
    BY <1>5, MovesJob DEF Call, Active
  <2>2. job[j].got # "data" /\ j \notin flagged /\ j \notin targets
    BY <1>5 DEF Call, GInv, Linked, MainThread
  <2>3. MainThread'
    BY <1>5, <2>1, <2>2 DEF Call, GInv, MainThread, JobGoes, GTypes
  <2>4. waits = Nobody /\ waits' = j
    BY <1>5 DEF Call, GInv, MainThread
  <2>5. \A k \in Connections \ {j} : k = waits <=> k = waits'
    BY <2>4, GatewayAssumption
  <2> QED
    BY <1>5, <2>1, <2>2, <2>3, <2>4, <2>5, JobGoesInv DEF Call, GInv, GTypes
<1> QED
  BY <1>1, <1>2, <1>3, <1>4, <1>5 DEF Messages

LEMMA CancellingInv ==
  ASSUME GInv, Cancelling
  PROVE  GInv'
<1> USE DEF exchangeVars
<1>1. ASSUME NEW j \in Connections, FlagJob(j)
      PROVE  GInv'
  <2>1. MainThread'
    BY <1>1 DEF FlagJob, GInv, MainThread
  <2>2. CancelReaches'
    BY <1>1, GatewayAssumption DEF FlagJob, GInv, CancelReaches
  <2> QED
    BY <1>1, <2>1, <2>2 DEF FlagJob, GInv, GTypes, Linked
<1>2. ASSUME NEW j \in Connections, ShutDownJob(j)
      PROVE  GInv'
  <2>1. /\ \A k \in Connections : peer[k] # "none" <=> peer'[k] # "none"
        /\ \A k \in Connections : peer[k] = "closed" => peer'[k] = "closed"
        /\ j \in attached /\ peer[j] # "none" => peer'[j] = "closed"
        /\ peer' \in [Connections -> {"none", "open", "closed"}]
        /\ served' = served
    BY <1>2 DEF ShutDownJob, HangUp, GInv, GTypes
  <2>2. j \in flagged /\ j # waits
    BY <1>2, GatewayAssumption DEF ShutDownJob, GInv, MainThread
  <2>3. MainThread'
    BY <1>2, GatewayAssumption DEF ShutDownJob, GInv, MainThread
  <2>4. Linked'
    BY <1>2, <2>1 DEF ShutDownJob, GInv, Linked
  <2>5. CancelReaches'
    BY <1>2, <2>1, <2>2 DEF ShutDownJob, GInv, Linked, CancelReaches
  <2> QED
    BY <1>2, <2>1, <2>3, <2>4, <2>5 DEF ShutDownJob, GInv, GTypes
<1> QED
  BY <1>1, <1>2 DEF Cancelling

LEMMA ExitInv ==
  ASSUME GInv, Exit
  PROVE  GInv'
<1>1. /\ job' = [j \in Connections |-> NoJob]
      /\ answer' = [j \in Connections |-> "none"]
      /\ peer' \in [Connections -> {"none", "open", "closed"}]
      /\ targets' = {} /\ flagged' = {} /\ hanging' = Nobody /\ waits' = Nobody
  BY DEF Exit, HangUp, GInv, GTypes
<1>2. \A j \in Connections : job'[j].at = "none" /\ job'[j].got = "none"
  BY <1>1, NoJobState
<1> QED
  BY <1>1, <1>2, NoJobState DEF GInv, GTypes, MainThread, Linked, CancelReaches, Results

\* A step of the call j that leaves the main thread and the flags alone.
LEMMA StepMain ==
  ASSUME GInv, NEW j \in Connections, NEW r \in JobState, JobGoes(j, r), r.at # "none",
         UNCHANGED <<main, waits, targets, hanging, flagged>>
  PROVE  MainThread'
BY DEF GInv, GTypes, MainThread, JobGoes

LEMMA JobStepsInv ==
  ASSUME GInv, NEW j \in Connections, JobSteps(j)
  PROVE  GInv'
<1> USE DEF exchangeVars, gatewayMain
<1>1. CASE OpenConnection(j)
  <2>1. PICK r \in JobState : /\ JobGoes(j, r) /\ r.got = job[j].got
                              /\ r.at = IF j = waits THEN "sending" ELSE "attaching"
    BY <1>1, MovesJob DEF OpenConnection, Active
  <2>2. job[j].got # "data" /\ (j = waits => j \notin flagged)
    BY <1>1 DEF OpenConnection, At, GInv, Linked, MainThread
  <2>3. MainThread'
    BY <1>1, <2>1, StepMain DEF OpenConnection
  <2>4. /\ peer' = [peer EXCEPT ![j] = "open"]
        /\ UNCHANGED <<served, targets, hanging, flagged, attached, waits, answer>>
    BY <1>1 DEF OpenConnection, Connect
  <2>5. GTypes' /\ flagged' \subseteq Connections
    BY <2>1, <2>4 DEF GInv, GTypes, JobGoes
  <2>6. Linked'
    BY <2>1, <2>2, <2>4 DEF GInv, GTypes, Linked, JobGoes
  <2>7. CancelReaches'
    BY <2>1, <2>2, <2>4 DEF GInv, GTypes, CancelReaches, JobGoes
  <2> QED
    BY <2>3, <2>5, <2>6, <2>7 DEF GInv
<1>2. CASE ConnectFails(j)
  <2>1. PICK r \in JobState : JobGoes(j, r) /\ r.at = "deciding" /\ r.got = "error"
    BY <1>2, GetsJob DEF ConnectFails, Active, Results
  <2>2. MainThread'
    BY <1>2, <2>1, StepMain DEF ConnectFails
  <2> QED
    BY <1>2, <2>1, <2>2, JobGoesInv DEF ConnectFails, GInv, GTypes
<1>3. CASE Attach(j)
  <2>1. job[j].got # "data" /\ peer[j] # "none"
    BY <1>3 DEF Attach, At, GInv, Linked
  <2>2. CASE j \in flagged
    <3>1. PICK r \in JobState : JobGoes(j, r) /\ r.at = "closing" /\ r.got = "error"
      BY <1>3, <2>2, GetsJob DEF Attach, Active, Results
    <3>2. MainThread'
      BY <1>3, <3>1, StepMain DEF Attach
    <3> QED
      BY <1>3, <2>1, <2>2, <3>1, <3>2, JobGoesInv DEF Attach, GInv, GTypes
  <2>3. CASE j \notin flagged
    <3>1. PICK r \in JobState : JobGoes(j, r) /\ r.at = "sending" /\ r.got = job[j].got
      BY <1>3, <2>3, MovesJob DEF Attach, Active
    <3>2. MainThread'
      BY <1>3, <3>1, StepMain DEF Attach
    <3>3. j \in attached' /\ attached \subseteq attached'
      BY <1>3, <2>3 DEF Attach
    <3> QED
      BY <1>3, <2>1, <2>3, <3>1, <3>2, <3>3, JobGoesInv DEF Attach, GInv, GTypes
  <2> QED
    BY <2>2, <2>3
<1>4. CASE Send(j)
  <2>1. /\ job[j].got # "data" /\ peer[j] # "none" /\ (j # waits => j \in attached)
        /\ j \in flagged \ {hanging} => peer[j] = "closed"
    BY <1>4 DEF Send, At, GInv, Linked, CancelReaches
  <2>2. PICK r \in JobState :
          /\ JobGoes(j, r) /\ r.got # "data"
          /\ r.at = "closing" \/ (r.at = "awaiting" /\ peer[j] = "open")
    <3>1. CASE peer[j] = "open"
      BY <1>4, <2>1, <3>1, MovesJob DEF Send, Active
    <3>2. CASE peer[j] # "open"
      BY <1>4, <2>1, <3>2, GetsJob DEF Send, Active, Results
    <3> QED
      BY <3>1, <3>2
  <2>3. MainThread'
    BY <1>4, <2>2, StepMain DEF Send
  <2>4. UNCHANGED <<peer, served, targets, hanging, flagged, attached, waits, answer>>
    BY <1>4 DEF Send, SendFrame
  <2> QED
    BY <2>1, <2>2, <2>3, <2>4, JobGoesInv DEF GInv, GTypes
<1>5. CASE ReadReply(j) \/ ReadTimesOut(j)
  <2>1. PICK r \in JobState :
          JobGoes(j, r) /\ r.at = "closing" /\ (r.got = "data" => j \in served)
    <3>1. CASE ReadReply(j)
      BY <3>1, GetsJob DEF ReadReply, Active, Results
    <3>2. CASE ReadTimesOut(j)
      BY <3>2, GetsJob DEF ReadTimesOut, Active, Results
    <3> QED
      BY <1>5, <3>1, <3>2
  <2>2. peer[j] # "none"
    BY <1>5 DEF ReadReply, ReadTimesOut, At, GInv, Linked
  <2>3. UNCHANGED <<peer, served, main, targets, hanging, flagged, attached, waits, answer>>
    BY <1>5 DEF ReadReply, ReadTimesOut
  <2>4. MainThread'
    BY <2>1, <2>3, StepMain
  <2> QED
    BY <2>1, <2>2, <2>3, <2>4, JobGoesInv DEF GInv, GTypes
<1>6. CASE CloseConnection(j)
  <2>1. PICK r \in JobState : JobGoes(j, r) /\ r.at = "deciding" /\ r.got = job[j].got
    BY <1>6, MovesJob DEF CloseConnection, Active
  <2>2. peer[j] # "none" /\ (job[j].got = "data" => j \in served)
    BY <1>6 DEF CloseConnection, At, GInv, Linked
  <2>3. MainThread'
    BY <1>6, <2>1, StepMain DEF CloseConnection
  <2>4. /\ \A k \in Connections : peer[k] # "none" <=> peer'[k] # "none"
        /\ \A k \in Connections : peer[k] = "closed" => peer'[k] = "closed"
        /\ peer'[j] = "closed"
        /\ peer' \in [Connections -> {"none", "open", "closed"}]
        /\ UNCHANGED <<served, targets, hanging, flagged, waits, answer>>
        /\ attached' = attached \ {j}
    BY <1>6, <2>2 DEF CloseConnection, HangUp, GInv, GTypes
  <2>5. GTypes' /\ flagged' \subseteq Connections
    BY <2>1, <2>4 DEF GInv, GTypes, JobGoes
  <2>6. Linked'
    BY <2>1, <2>2, <2>4 DEF GInv, Linked, JobGoes
  <2>7. CancelReaches'
    BY <2>1, <2>4 DEF GInv, CancelReaches, JobGoes
  <2> QED
    BY <2>3, <2>5, <2>6, <2>7 DEF GInv
<1>7. CASE Answer(j)
  <2> DEFINE r == [NoJob EXCEPT !.at = "answered"]
  <2>1. r \in JobState /\ r.at = "answered" /\ r.got = "none"
    BY NoJobState
  <2>2. job' = [job EXCEPT ![j] = r]
    BY <1>7 DEF Answer
  <2> HIDE DEF r
  <2>3. JobGoes(j, r)
    BY <2>1, <2>2 DEF JobGoes, GInv, GTypes
  <2>4. Verdict(j) \in Results \cup {"cancelled"}
    BY DEF Verdict, GInv, GTypes, JobState
  <2>5. answer' \in [Connections -> Results \cup {"cancelled"}]
    BY <1>7, <2>4 DEF Answer, GInv, GTypes
  <2>6. MainThread'
    <3>1. CASE j = waits
      BY <1>7, <2>1, <2>3, <3>1, GatewayAssumption DEF Answer, GInv, MainThread, JobGoes,
         GTypes
    <3>2. CASE j # waits
      BY <1>7, <2>1, <2>3, <3>2, StepMain DEF Answer
    <3> QED
      BY <3>1, <3>2
  <2>7. /\ \A k \in Connections \ {j} : k = waits <=> k = waits'
        /\ UNCHANGED <<peer, served, targets, hanging, flagged, attached>>
    BY <1>7, GatewayAssumption DEF Answer
  <2> QED
    BY <2>1, <2>3, <2>5, <2>6, <2>7, JobGoesInv
<1> QED
  BY <1>1, <1>2, <1>3, <1>4, <1>5, <1>6, <1>7 DEF JobSteps

LEMMA ServerStepInv ==
  ASSUME GInv, Server, UNCHANGED gatewayVars
  PROVE  GInv'
<1>1. UNCHANGED peer /\ served \subseteq served'
  BY DEF Server, Leave, Serve, Refuse, End
<1>2. UNCHANGED <<main, waits, targets, hanging, job, flagged, attached, answer>>
  BY DEF gatewayVars, gatewayMain
<1> QED
  BY <1>1, <1>2 DEF GInv, GTypes, MainThread, Linked, CancelReaches

LEMMA GatewayInvariance == Spec => []GInv
<1>1. Init => GInv
  <2> SUFFICES ASSUME Init
               PROVE  GInv
    OBVIOUS
  <2>1. \A j \in Connections : job[j].at = "none" /\ job[j].got = "none"
    BY NoJobState DEF Init
  <2> QED
    BY <2>1, NoJobState
       DEF Init, ExchangeInit, GInv, GTypes, MainThread, Linked, CancelReaches,
           Results
<1>2. GInv /\ [Next]_vars => GInv'
  <2> SUFFICES ASSUME GInv, [Next]_vars
               PROVE  GInv'
    OBVIOUS
  <2>1. CASE GatewayNext
    BY <2>1, MessagesInv, CancellingInv, ExitInv, JobStepsInv DEF GatewayNext
  <2>2. CASE Server /\ UNCHANGED gatewayVars
    BY <2>2, ServerStepInv
  <2>3. CASE UNCHANGED vars
    BY <2>3 DEF GInv, GTypes, MainThread, Linked, CancelReaches, vars,
       exchangeVars, gatewayVars, gatewayMain
  <2> QED
    BY <2>1, <2>2, <2>3 DEF Next
<1> QED
  BY <1>1, <1>2, PTL DEF Spec

\* The calls of one step keep their types.
LEMMA TypesKept ==
  ASSUME TypeOK, [Next]_vars
  PROVE  TypeOK'
<1> DEFINE State == [at : Active \cup {"none", "answered"}, id : Ids,
                     got : {"none", "data", "error"}]
           Said == {"none", "data", "error", "cancelled"}
<1> USE DEF gatewayMain, gatewayVars
<1>1. /\ job \in [Connections -> State] /\ answer \in [Connections -> Said]
      /\ NoJob \in State /\ [NoJob EXCEPT !.at = "answered"] \in State
  BY GatewayAssumption DEF TypeOK, NoJob
<1>2. ASSUME NEW j \in Connections, NEW place \in Active \cup {"answered"}, Moves(j, place)
      PROVE  job' \in [Connections -> State]
  BY <1>1, <1>2 DEF Moves
<1>3. ASSUME NEW j \in Connections, NEW result \in {"data", "error"}, NEW place \in Active,
             Gets(j, result, place)
      PROVE  job' \in [Connections -> State]
  BY <1>1, <1>3 DEF Gets
<1>4. CASE Messages
  <2>1. ASSUME NEW j \in Connections, StartJob(j)
        PROVE  TypeOK'
    <3>1. PICK i \in Ids :
            job' = [job EXCEPT ![j] = [@ EXCEPT !.at = "connecting", !.id = i]]
      BY <2>1 DEF StartJob
    <3>2. job' \in [Connections -> State]
      BY <1>1, <3>1 DEF Active
    <3> QED
      BY <2>1, <3>2 DEF StartJob, TypeOK
  <2>2. ASSUME NEW j \in Connections, RefuseJob(j) \/ Call(j)
        PROVE  TypeOK'
    <3>1. job' \in [Connections -> State]
      BY <1>2, <2>2 DEF RefuseJob, Call, Active
    <3>2. answer' \in [Connections -> Said]
      BY <1>1, <2>2 DEF RefuseJob, Call
    <3> QED
      BY <2>2, <3>1, <3>2 DEF RefuseJob, Call, TypeOK
  <2>3. ASSUME NEW j \in Connections, CancelNotified(j) \/ EndInput
        PROVE  TypeOK'
    BY <2>3 DEF CancelNotified, EndInput, Jobs, TypeOK
  <2>4. CASE EndInput
    BY <2>4 DEF EndInput, Jobs, TypeOK
  <2> QED
    BY <1>4, <2>1, <2>2, <2>3, <2>4 DEF Messages
<1>5. CASE Cancelling
  BY <1>5 DEF Cancelling, FlagJob, ShutDownJob, TypeOK
<1>6. CASE Exit
  BY <1>1, <1>6 DEF Exit, TypeOK
<1>7. ASSUME NEW j \in Connections, JobSteps(j)
      PROVE  TypeOK'
  <2>1. CASE Answer(j)
    <3>1. Verdict(j) \in Said
      BY <1>1 DEF Verdict
    <3>2. job' \in [Connections -> State] /\ answer' \in [Connections -> Said]
      BY <1>1, <2>1, <3>1 DEF Answer
    <3> QED
      BY <2>1, <3>2 DEF Answer, TypeOK
  <2>2. CASE ~Answer(j)
    <3>1. job' \in [Connections -> State]
      BY <1>2, <1>3, <1>7, <2>2
         DEF JobSteps, OpenConnection, ConnectFails, Attach, Send, ReadReply, ReadTimesOut,
             CloseConnection, Active
    <3>2. /\ UNCHANGED <<main, waits, targets, hanging, flagged, answer>>
          /\ attached' \subseteq attached \cup {j}
      BY <1>7, <2>2
         DEF JobSteps, OpenConnection, ConnectFails, Attach, Send, ReadReply, ReadTimesOut,
             CloseConnection
    <3> QED
      BY <3>1, <3>2 DEF TypeOK
  <2> QED
    BY <2>1, <2>2
<1>8. CASE UNCHANGED gatewayVars
  BY <1>8 DEF TypeOK
<1> QED
  BY <1>4, <1>5, <1>6, <1>7, <1>8 DEF Next, GatewayNext, vars

\* What the gateway keeps of its calls has its types.
THEOREM TypeCorrect == Spec => []TypeOK
<1>1. Init => TypeOK
  <2>1. NoJob \in [at : Active \cup {"none", "answered"}, id : Ids,
                   got : {"none", "data", "error"}]
    BY GatewayAssumption DEF NoJob
  <2> QED
    BY <2>1 DEF Init, TypeOK
<1> QED
  BY <1>1, TypesKept, PTL DEF Spec

(* RequestControl::cancel reaches the connection of its job at any time, for any number of
   calls and jobs: when it has returned, the connection is closed or the job is not sending
   and not awaiting on it. *)
THEOREM CancellationReaches == Spec => []CancelReaches
<1>1. GInv => CancelReaches
  BY DEF GInv
<1> QED
  BY GatewayInvariance, <1>1, PTL

(* Data is answered to a call only if it was not cancelled and the server sent the data on
   the connection of this call. *)
THEOREM HonestAnswers == Spec => AnswersHonest
<1> DEFINE Honest ==
      \A j \in Connections : answer'[j] = "data" /\ answer[j] # "data" =>
        j \notin flagged /\ j \in served /\ peer[j] = "closed"
<1>1. GInv /\ [Next]_vars => [Honest]_vars
  <2> SUFFICES ASSUME GInv, Next
               PROVE  Honest
    OBVIOUS
  <2>1. CASE UNCHANGED answer
    BY <2>1
  <2>2. ASSUME NEW j \in Connections, RefuseJob(j)
        PROVE  Honest
    BY <2>2 DEF RefuseJob, GInv, GTypes
  <2>3. CASE Exit
    BY <2>3 DEF Exit
  <2>4. ASSUME NEW j \in Connections, Answer(j)
        PROVE  Honest
    <3>1. answer' = [answer EXCEPT ![j] = Verdict(j)] /\ job[j].at = "deciding"
      BY <2>4 DEF Answer, At
    <3>2. Verdict(j) = "data" => j \notin flagged /\ job[j].got = "data"
      BY DEF Verdict
    <3>3. Verdict(j) = "data" => j \notin flagged /\ j \in served /\ peer[j] = "closed"
      BY <3>1, <3>2 DEF GInv, Linked
    <3> QED
      BY <3>1, <3>3 DEF GInv, GTypes
  <2>5. \/ UNCHANGED answer \/ Exit
        \/ \E j \in Connections : RefuseJob(j) \/ Answer(j)
    BY DEF Next, GatewayNext, Messages, Cancelling, JobSteps,
       EndInput, StartJob, Call, CancelNotified, FlagJob,
       ShutDownJob, OpenConnection, ConnectFails, Attach, Send,
       ReadReply, ReadTimesOut, CloseConnection, gatewayVars
  <2> QED
    BY <2>1, <2>2, <2>3, <2>4, <2>5
<1> QED
  BY GatewayInvariance, <1>1, PTL DEF Spec, AnswersHonest

-----------------------------------------------------------------------------
(* The window *)

\* What a window may show: views of files and summaries only when it has the archive.
Known(a) == IF a.archive THEN Targets ELSE Classes

\* What is known of a thread x of the project that the window a shows.
OwnTask(a, x) ==
  /\ x.kind \in {"class", "resource", "summary", "search", "ready"} => x.engine
  /\ x.kind \in {"open", "asset", "raw"} => ~x.engine
  /\ x.kind = "open" => ~a.project /\ x.target = Nothing /\ x.origin = Nothing
  /\ x.kind \in {"class", "link"} => x.target \in Classes
  /\ x.kind \in {"asset", "raw", "resource"} => x.target \in Files
  /\ x.kind = "summary" => x.target \in Summaries
  /\ x.target \in Known(a) \cup {Nothing} /\ x.origin \in Known(a) \cup {Nothing}

TasksOK(a) ==
  \A x \in a.tasks : x.gen <= a.generation /\ (x.gen = a.generation => OwnTask(a, x))

\* The threads of the project that have its engine.
Lenders(a) == {x \in a.tasks : x.gen = a.generation /\ x.engine}

EngineOK(a) ==
  /\ a.engine \/ ~a.project => Lenders(a) = {}
  /\ a.project /\ ~a.engine => \E x \in a.tasks : Lenders(a) = {x}
  /\ IF a.project THEN a.busy <=> ~a.engine ELSE ~a.engine
  /\ a.project \/ a.archive => a.generation > 0

ServedIn(a, u) ==
  \E x \in a.tasks :
    x.gen = a.generation /\ x.target = u /\ x.kind \in {"class", "asset", "raw", "resource"}

Awaited(a, u) == u = a.cancelled \/ (a.pending # Nothing /\ u = a.pending.to)

\* Every jump to a class or file is served, but for the target t.
JumpsOK(a, t) ==
  /\ a.pending # Nothing => a.cancelled = Nothing
  /\ \A u \in (Classes \cup Files) \ {t} : Awaited(a, u) => ServedIn(a, u)

Bounded(a) == Len(a.history) <= MaxHistory /\ Len(a.future) <= MaxHistory

\* The invariant, but for a jump to t that need not be served.
Good(a, t) ==
  /\ a \in Apps(Known(a)) /\ Bounded(a)
  /\ TasksOK(a) /\ EngineOK(a) /\ JumpsOK(a, t)

WInv == Good(app, Nothing)

LEMMA KnownTargets ==
  ASSUME NEW a
  PROVE  Known(a) \subseteq Targets /\ Classes \subseteq Known(a) /\ Nothing \notin Known(a)
BY WindowAssumption DEF Known, Targets

\* A step that leaves the engine and the threads alone.
SameEngine(a, b) ==
  /\ b.generation = a.generation /\ b.project = a.project /\ b.archive = a.archive
  /\ b.engine = a.engine /\ b.busy = a.busy /\ b.tasks = a.tasks

\* It keeps the invariant if it keeps the types, the bounds and the jumps.
LEMMA Frame ==
  ASSUME NEW a, NEW t, Good(a, t), NEW b, NEW u, SameEngine(a, b),
         b \in Apps(Known(a)), Bounded(b), JumpsOK(b, u)
  PROVE  Good(b, u)
<1>1. Known(b) = Known(a) BY DEF SameEngine, Known
<1>2. TasksOK(b) BY <1>1 DEF Good, TasksOK, OwnTask, SameEngine
<1>3. Lenders(b) = Lenders(a) BY DEF Lenders, SameEngine
<1>4. EngineOK(b) BY <1>3 DEF Good, EngineOK, SameEngine
<1> QED BY <1>1, <1>2, <1>4 DEF Good

\* What is served does not change with the rest of the window.
LEMMA SameServed ==
  ASSUME NEW a, NEW b, SameEngine(a, b), NEW u
  PROVE  ServedIn(b, u) <=> ServedIn(a, u)
BY DEF SameEngine, ServedIn

\* A jump that is given up is served like one that is awaited.
LEMMA GiveUpGood ==
  ASSUME NEW a, NEW t, Good(a, t)
  PROVE  /\ Good(GiveUp(a), t) /\ GiveUp(a).pending = Nothing
         /\ SameEngine(a, GiveUp(a)) /\ GiveUp(a).tabs = a.tabs
<1>1. CASE a.pending = Nothing BY <1>1 DEF GiveUp, SameEngine
<1>2. CASE a.pending # Nothing
  <2> DEFINE b == GiveUp(a)
  <2>0. b = [a EXCEPT !.pending = Nothing, !.cancelled = a.pending.to] BY <1>2 DEF GiveUp
  <2>1. a \in Apps(Known(a)) BY DEF Good
  <2>2. a.pending.to \in Known(a) BY <2>1, <1>2 DEF Apps
  <2>3. b \in Apps(Known(a)) BY <2>0, <2>1, <2>2 DEF Apps
  <2>4. /\ b.pending = Nothing /\ b.cancelled = a.pending.to
        /\ b.history = a.history /\ b.future = a.future /\ b.tabs = a.tabs
        /\ SameEngine(a, b)
    BY <2>0, <2>1 DEF Apps, SameEngine
  <2>5. Bounded(b) BY <2>4 DEF Good, Bounded
  <2>6. JumpsOK(b, t)
    BY <2>4, <1>2, SameServed DEF Good, JumpsOK, Awaited
  <2> HIDE DEF b
  <2>7. Good(b, t) BY <2>3, <2>4, <2>5, <2>6, Frame
  <2> QED BY <2>4, <2>7 DEF b
<1> QED BY <1>1, <1>2

LEMMA SelectGood ==
  ASSUME NEW a, NEW t, Good(a, t), NEW x \in Known(a) \cup {Nothing},
         NEW d \in Known(a) \cup {Nothing}
  PROVE  Good([a EXCEPT !.selected = x, !.deferred = d], t)
<1> DEFINE b == [a EXCEPT !.selected = x, !.deferred = d]
<1>1. a \in Apps(Known(a)) BY DEF Good
<1>2. b \in Apps(Known(a)) BY <1>1 DEF Apps
<1>3. /\ b.pending = a.pending /\ b.cancelled = a.cancelled
      /\ b.history = a.history /\ b.future = a.future
      /\ SameEngine(a, b)
  BY <1>1 DEF Apps, SameEngine
<1> HIDE DEF b
<1>4. Bounded(b) BY <1>3 DEF Good, Bounded
<1>5. JumpsOK(b, t) BY <1>3, SameServed DEF Good, JumpsOK, Awaited
<1>6. Good(b, t) BY <1>2, <1>3, <1>4, <1>5, Frame
<1> QED BY <1>6 DEF b

LEMMA ShowGood ==
  ASSUME NEW a, NEW t, Good(a, t), NEW x \in Known(a)
  PROVE  /\ Good(Show(a, x), t) /\ SameEngine(a, Show(a, x))
         /\ Show(a, x).pending = a.pending /\ Show(a, x).cancelled = a.cancelled
<1> DEFINE b == Show(a, x)
<1>1. a \in Apps(Known(a)) BY DEF Good
<1>2. b \in Apps(Known(a)) BY <1>1 DEF Apps, Show
<1>3. /\ b.pending = a.pending /\ b.cancelled = a.cancelled
      /\ b.history = a.history /\ b.future = a.future
      /\ SameEngine(a, b)
  BY <1>1 DEF Apps, SameEngine, Show
<1> HIDE DEF b
<1>4. Bounded(b) BY <1>3 DEF Good, Bounded
<1>5. JumpsOK(b, t) BY <1>3, SameServed DEF Good, JumpsOK, Awaited
<1>6. Good(b, t) BY <1>2, <1>3, <1>4, <1>5, Frame
<1> QED BY <1>3, <1>6 DEF b

LEMMA PopPush ==
  ASSUME NEW S, NEW s \in Seq(S), Len(s) <= MaxHistory, NEW t \in S \cup {Nothing}
  PROVE  /\ Pop(s) \in Seq(S) /\ Len(Pop(s)) <= MaxHistory
         /\ Push(s, t) \in Seq(S) /\ Len(Push(s, t)) <= MaxHistory
<1>1. Pop(s) \in Seq(S) /\ Len(Pop(s)) <= MaxHistory
  BY SubSeqProperties, WindowAssumption DEF Pop
<1>2. Push(s, t) \in Seq(S) /\ Len(Push(s, t)) <= MaxHistory
  <2>1. CASE t = Nothing BY <2>1 DEF Push
  <2>2. CASE t # Nothing
    <3> DEFINE longer == Append(s, t)
    <3>1. longer \in Seq(S) /\ Len(longer) = Len(s) + 1 BY <2>2
    <3>2. Len(longer) > MaxHistory => Tail(longer) \in Seq(S) /\ Len(Tail(longer)) = Len(s)
      BY <3>1
    <3> QED BY <2>2, <3>1, <3>2, WindowAssumption DEF Push
  <2> QED BY <2>1, <2>2
<1> QED BY <1>1, <1>2

LEMMA AwaitedFields ==
  ASSUME NEW a, NEW t, Good(a, t), a.pending # Nothing
  PROVE  a.cancelled = Nothing /\ a.pending.origin \in Known(a) \cup {Nothing}
<1>1. a.cancelled = Nothing BY DEF Good, JumpsOK
<1>2. a.pending.origin \in Known(a) \cup {Nothing} BY DEF Good, Apps
<1> QED BY <1>1, <1>2

\* The end of a jump, whatever event was missing for it.
LEMMA FinishGood ==
  ASSUME NEW a, NEW t, Good(a, t), a.cancelled = Nothing,
         a.pending.origin \in Known(a) \cup {Nothing}, NEW right
  PROVE  Good(Finish(a, right), Nothing)
<1> DEFINE b == Finish(a, right)
           p == a.pending
<1>1. a \in Apps(Known(a)) /\ Bounded(a) /\ a.cancelled = Nothing BY DEF Good
<1>2. p.origin \in Known(a) \cup {Nothing} OBVIOUS
<1>3. b.pending = Nothing /\ b.cancelled = a.cancelled /\ SameEngine(a, b)
  BY <1>1 DEF Apps, SameEngine, Finish
<1>4. a.history \in Seq(Known(a)) /\ a.future \in Seq(Known(a)) BY <1>1 DEF Apps
<1>5. /\ Pop(a.history) \in Seq(Known(a)) /\ Len(Pop(a.history)) <= MaxHistory
      /\ Push(a.history, p.origin) \in Seq(Known(a))
      /\ Len(Push(a.history, p.origin)) <= MaxHistory
  BY <1>1, <1>2, <1>4, PopPush DEF Bounded
<1>6. /\ Pop(a.future) \in Seq(Known(a)) /\ Len(Pop(a.future)) <= MaxHistory
      /\ Push(a.future, p.origin) \in Seq(Known(a))
      /\ Len(Push(a.future, p.origin)) <= MaxHistory
  BY <1>1, <1>2, <1>4, PopPush DEF Bounded
<1>7. b \in Apps(Known(a)) /\ Bounded(b)
  <2>1. CASE ~right \/ a.selected # p.to BY <1>1, <2>1 DEF Apps, Bounded, Finish
  <2>2. CASE right /\ a.selected = p.to /\ p.forward
    <3>1. b = [a EXCEPT !.pending = Nothing, !.future = Pop(@), !.history = Push(@, p.origin)]
      BY <1>1, <2>2 DEF Apps, Finish
    <3> QED BY <1>1, <1>5, <1>6, <3>1 DEF Apps, Bounded
  <2>3. CASE right /\ a.selected = p.to /\ ~p.forward
    <3>1. b = [a EXCEPT !.pending = Nothing, !.history = Pop(@), !.future = Push(@, p.origin)]
      BY <1>1, <2>3 DEF Apps, Finish
    <3> QED BY <1>1, <1>5, <1>6, <3>1 DEF Apps, Bounded
  <2> QED BY <2>1, <2>2, <2>3
<1>9. JumpsOK(b, Nothing)
  BY <1>1, <1>3, KnownTargets, WindowAssumption DEF JumpsOK, Awaited, Targets
<1> HIDE DEF b
<1>10. Good(b, Nothing) BY <1>3, <1>7, <1>9, Frame
<1> QED BY <1>10 DEF b

LEMMA Forgiven ==
  ASSUME NEW a, NEW t, Good(a, t), ~Awaited(a, t)
  PROVE  Good(a, Nothing)
BY DEF Good, JumpsOK

LEMMA FailGood ==
  ASSUME NEW a, NEW t, Good(a, t), a.cancelled # t
  PROVE  Good(Fail(a), Nothing)
<1> DEFINE b == Fail(a)
<1>1. a \in Apps(Known(a)) BY DEF Good
<1>2. b \in Apps(Known(a)) BY <1>1 DEF Apps, Fail
<1>3. /\ b.pending = Nothing /\ b.cancelled = a.cancelled
      /\ b.history = a.history /\ b.future = a.future
      /\ SameEngine(a, b)
  BY <1>1 DEF Apps, SameEngine, Fail
<1> HIDE DEF b
<1>4. Bounded(b) BY <1>3 DEF Good, Bounded
<1>5. JumpsOK(b, Nothing) BY <1>3, SameServed DEF Good, JumpsOK, Awaited
<1>6. Good(b, Nothing) BY <1>2, <1>3, <1>4, <1>5, Frame
<1> QED BY <1>6 DEF b

LEMMA PushTabGood ==
  ASSUME NEW a, NEW u, Good(a, u), a.cancelled # u,
         NEW t \in Known(a), u \in {Nothing, t}, u = t => t \in Files, NEW right
  PROVE  Good(PushTab(a, t, right), Nothing)
<1> DEFINE b == Show(a, t)
<1>1. Good(b, u) /\ b.pending = a.pending /\ b.cancelled = a.cancelled BY ShowGood
<1> HIDE DEF b
<1>2. CASE b.pending # Nothing /\ t \in Files /\ b.pending.to = t
  <2>1. b.cancelled = Nothing /\ b.pending.origin \in Known(b) \cup {Nothing}
    BY <1>1, <1>2, AwaitedFields
  <2>2. Good(Finish(b, right), Nothing) BY <1>1, <2>1, FinishGood
  <2> QED BY <1>2, <2>2 DEF PushTab, b
<1>3. CASE ~(b.pending # Nothing /\ t \in Files /\ b.pending.to = t)
  <2>1. Good(b, Nothing) BY <1>1, <1>3, Forgiven DEF Awaited
  <2> QED BY <1>3, <2>1 DEF PushTab, b
<1> QED BY <1>2, <1>3

Work == {"open", "class", "link", "asset", "raw", "resource", "summary", "search", "ready"}
Serves == {"class", "asset", "raw", "resource"}

Task(a, kind, target, origin, engine) ==
  [gen |-> a.generation, kind |-> kind, target |-> target, origin |-> origin, engine |-> engine]

\* What one more thread of the project serves.
LEMMA OneMore ==
  ASSUME NEW a, NEW b, NEW x, x.gen = a.generation,
         b.generation = a.generation, b.tasks = a.tasks \cup {x}
  PROVE  \A u : ServedIn(b, u) <=> ServedIn(a, u) \/ (x.target = u /\ x.kind \in Serves)
BY DEF ServedIn, Serves

\* A thread without the engine may serve the jump that was not served.
LEMMA SpawnGood ==
  ASSUME NEW a, NEW t, Good(a, t), a.generation > 0,
         NEW kind \in Work, NEW target \in Targets \cup {Nothing},
         NEW origin \in Targets \cup {Nothing},
         OwnTask(a, Task(a, kind, target, origin, FALSE)),
         NEW u, u = t \/ (u = Nothing /\ target = t /\ kind \in Serves)
  PROVE  Good(Spawn(a, kind, target, origin, FALSE), u)
<1> DEFINE x == Task(a, kind, target, origin, FALSE)
           b == Spawn(a, kind, target, origin, FALSE)
<1>1. a \in Apps(Known(a)) /\ Bounded(a) BY DEF Good
<1>2. a.generation \in 1..MaxGeneration BY <1>1, WindowAssumption DEF Apps
<1>3. x \in Tasks BY <1>2 DEF Tasks, Task, Work
<1>4. b = [a EXCEPT !.tasks = a.tasks \cup {x}] BY <1>1 DEF Apps, Spawn, Task
<1>5. x.gen = a.generation /\ x.kind = kind /\ x.target = target /\ x.origin = origin
      /\ x.engine = FALSE
  BY DEF Task
<1> HIDE DEF x, b
<1>6. b \in Apps(Known(a)) BY <1>1, <1>3, <1>4 DEF Apps
<1>7. /\ b.generation = a.generation /\ b.project = a.project /\ b.archive = a.archive
      /\ b.engine = a.engine /\ b.busy = a.busy /\ b.tasks = a.tasks \cup {x}
      /\ b.pending = a.pending /\ b.cancelled = a.cancelled
      /\ b.history = a.history /\ b.future = a.future
  BY <1>1, <1>4 DEF Apps
<1>8. Known(b) = Known(a) BY <1>7 DEF Known
<1>9. OwnTask(a, x) BY DEF x
<1>10. TasksOK(b)
  <2> SUFFICES ASSUME NEW y \in b.tasks
               PROVE  y.gen <= b.generation /\ (y.gen = b.generation => OwnTask(b, y))
    BY DEF TasksOK
  <2>1. OwnTask(a, y) => OwnTask(b, y) BY <1>7, <1>8 DEF OwnTask
  <2> QED BY <2>1, <1>2, <1>5, <1>7, <1>9 DEF Good, TasksOK
<1>11. Lenders(b) = Lenders(a) /\ EngineOK(b)
  <2>1. Lenders(b) = Lenders(a) BY <1>5, <1>7 DEF Lenders
  <2> QED BY <2>1, <1>7 DEF Good, EngineOK
<1>12. JumpsOK(b, u)
  <2>1. \A v : ServedIn(b, v) <=> ServedIn(a, v) \/ (target = v /\ kind \in Serves)
    BY <1>5, <1>7, OneMore
  <2> QED BY <2>1, <1>7, WindowAssumption DEF Good, JumpsOK, Awaited, Targets
<1>13. Bounded(b) BY <1>1, <1>7 DEF Bounded
<1>14. Good(b, u) BY <1>6, <1>8, <1>10, <1>11, <1>12, <1>13 DEF Good
<1> QED BY <1>14 DEF b

\* A thread that takes the engine along is the only one that has it.
LEMMA BorrowGood ==
  ASSUME NEW a, NEW t, Good(a, t), a.engine,
         NEW kind \in Work, NEW target \in Targets \cup {Nothing},
         NEW origin \in Targets \cup {Nothing},
         OwnTask(a, Task(a, kind, target, origin, TRUE)),
         NEW u, u = t \/ (u = Nothing /\ target = t /\ kind \in Serves)
  PROVE  Good(Borrow(a, kind, target, origin), u)
<1> DEFINE x == Task(a, kind, target, origin, TRUE)
           b == Borrow(a, kind, target, origin)
<1>1. a \in Apps(Known(a)) /\ Bounded(a) /\ EngineOK(a) BY DEF Good
<1>2. a.project /\ a.generation \in 1..MaxGeneration
  BY <1>1, WindowAssumption DEF Apps, EngineOK
<1>3. x \in Tasks BY <1>2 DEF Tasks, Task, Work
<1>4. b = [a EXCEPT !.engine = FALSE, !.busy = TRUE, !.tasks = a.tasks \cup {x}]
  BY <1>1 DEF Apps, Borrow, Spawn, Task
<1>5. x.gen = a.generation /\ x.kind = kind /\ x.target = target /\ x.origin = origin
      /\ x.engine = TRUE
  BY DEF Task
<1> HIDE DEF x, b
<1>6. b \in Apps(Known(a)) BY <1>1, <1>3, <1>4 DEF Apps
<1>7. /\ b.generation = a.generation /\ b.project = a.project /\ b.archive = a.archive
      /\ b.engine = FALSE /\ b.busy = TRUE /\ b.tasks = a.tasks \cup {x}
      /\ b.pending = a.pending /\ b.cancelled = a.cancelled
      /\ b.history = a.history /\ b.future = a.future
  BY <1>1, <1>4 DEF Apps
<1>8. Known(b) = Known(a) BY <1>7 DEF Known
<1>9. OwnTask(a, x) BY DEF x
<1>10. TasksOK(b)
  <2> SUFFICES ASSUME NEW y \in b.tasks
               PROVE  y.gen <= b.generation /\ (y.gen = b.generation => OwnTask(b, y))
    BY DEF TasksOK
  <2>1. OwnTask(a, y) => OwnTask(b, y) BY <1>7, <1>8 DEF OwnTask
  <2> QED BY <2>1, <1>2, <1>5, <1>7, <1>9 DEF Good, TasksOK
<1>11. EngineOK(b)
  <2>1. Lenders(a) = {} BY <1>1 DEF EngineOK
  <2>2. Lenders(b) = {x} BY <2>1, <1>5, <1>7 DEF Lenders
  <2> QED BY <2>2, <1>2, <1>7 DEF EngineOK
<1>12. JumpsOK(b, u)
  <2>1. \A v : ServedIn(b, v) <=> ServedIn(a, v) \/ (target = v /\ kind \in Serves)
    BY <1>5, <1>7, OneMore
  <2> QED BY <2>1, <1>7, WindowAssumption DEF Good, JumpsOK, Awaited, Targets
<1>13. Bounded(b) BY <1>1, <1>7 DEF Bounded
<1>14. Good(b, u) BY <1>6, <1>8, <1>10, <1>11, <1>12, <1>13 DEF Good
<1> QED BY <1>14 DEF b

\* The event of a thread is taken, and so what the thread served may be served no more.
LEMMA OneLess ==
  ASSUME NEW a, NEW b, NEW x, b.generation = a.generation, b.tasks = a.tasks \ {x},
         NEW u, ServedIn(a, u),
         ~(x.gen = a.generation /\ x.target = u /\ x.kind \in Serves)
  PROVE  ServedIn(b, u)
BY DEF ServedIn, Serves

LEMMA TakenGood ==
  ASSUME WInv, NEW x \in app.tasks, ~(x.gen = app.generation /\ x.engine),
         NEW u, u = Nothing => x.gen # app.generation \/ x.kind \notin Serves,
         u # Nothing => u = x.target
  PROVE  Good(Taken(x), u)
<1> DEFINE b == Taken(x)
<1>1. app \in Apps(Known(app)) /\ Bounded(app) /\ EngineOK(app) /\ TasksOK(app)
  BY DEF Good, WInv
<1>2. b = [app EXCEPT !.tasks = app.tasks \ {x}] BY <1>1 DEF Apps, Taken
<1> HIDE DEF b
<1>3. b \in Apps(Known(app)) BY <1>1, <1>2 DEF Apps
<1>4. /\ b.generation = app.generation /\ b.project = app.project /\ b.archive = app.archive
      /\ b.engine = app.engine /\ b.busy = app.busy /\ b.tasks = app.tasks \ {x}
      /\ b.pending = app.pending /\ b.cancelled = app.cancelled
      /\ b.history = app.history /\ b.future = app.future
  BY <1>1, <1>2 DEF Apps
<1>5. Known(b) = Known(app) BY <1>4 DEF Known
<1>6. TasksOK(b) BY <1>1, <1>4, <1>5 DEF TasksOK, OwnTask
<1>7. EngineOK(b)
  <2>1. Lenders(b) = Lenders(app) BY <1>4 DEF Lenders
  <2> QED BY <2>1, <1>1, <1>4 DEF EngineOK, Lenders
<1>8. JumpsOK(b, u)
  <2> SUFFICES ASSUME NEW v \in (Classes \cup Files) \ {u}, Awaited(b, v)
               PROVE  ServedIn(b, v)
    BY <1>4 DEF WInv, Good, JumpsOK
  <2>1. v \in (Classes \cup Files) \ {Nothing} BY WindowAssumption DEF Targets
  <2>2. Awaited(app, v) BY <1>4 DEF Awaited
  <2>3. ServedIn(app, v) BY <2>1, <2>2 DEF WInv, Good, JumpsOK
  <2>4. ~(x.gen = app.generation /\ x.target = v /\ x.kind \in Serves) OBVIOUS
  <2> QED BY <2>3, <2>4, <1>4, OneLess
<1>9. Bounded(b) BY <1>1, <1>4 DEF Bounded
<1>10. Good(b, u) BY <1>3, <1>5, <1>6, <1>7, <1>8, <1>9 DEF Good
<1> QED BY <1>10 DEF b

\* The engine comes back with the only thread that has it.
LEMMA ReturnGood ==
  ASSUME WInv, NEW x \in app.tasks, x.gen = app.generation, x.engine,
         NEW u, u = Nothing => x.kind \notin Serves, u # Nothing => u = x.target
  PROVE  Good(Return(Taken(x)), u)
<1> DEFINE b == Return(Taken(x))
<1>1. app \in Apps(Known(app)) /\ Bounded(app) /\ EngineOK(app) /\ TasksOK(app)
  BY DEF Good, WInv
<1>2. b = [app EXCEPT !.engine = TRUE, !.busy = FALSE, !.tasks = app.tasks \ {x}]
  BY <1>1 DEF Apps, Return, Taken
<1> HIDE DEF b
<1>3. b \in Apps(Known(app)) BY <1>1, <1>2 DEF Apps
<1>4. /\ b.generation = app.generation /\ b.project = app.project /\ b.archive = app.archive
      /\ b.engine = TRUE /\ b.busy = FALSE /\ b.tasks = app.tasks \ {x}
      /\ b.pending = app.pending /\ b.cancelled = app.cancelled
      /\ b.history = app.history /\ b.future = app.future
  BY <1>1, <1>2 DEF Apps
<1>5. Known(b) = Known(app) BY <1>4 DEF Known
<1>6. TasksOK(b) BY <1>1, <1>4, <1>5 DEF TasksOK, OwnTask
<1>7. EngineOK(b)
  <2>1. x \in Lenders(app) BY DEF Lenders
  <2>2. app.project /\ Lenders(app) = {x} BY <2>1, <1>1 DEF EngineOK
  <2>3. Lenders(b) = {} BY <2>2, <1>4 DEF Lenders
  <2> QED BY <2>2, <2>3, <1>1, <1>4 DEF EngineOK
<1>8. JumpsOK(b, u)
  <2> SUFFICES ASSUME NEW v \in (Classes \cup Files) \ {u}, Awaited(b, v)
               PROVE  ServedIn(b, v)
    BY <1>4 DEF WInv, Good, JumpsOK
  <2>1. v \in (Classes \cup Files) \ {Nothing} BY WindowAssumption DEF Targets
  <2>2. Awaited(app, v) BY <1>4 DEF Awaited
  <2>3. ServedIn(app, v) BY <2>1, <2>2 DEF WInv, Good, JumpsOK
  <2>4. ~(x.gen = app.generation /\ x.target = v /\ x.kind \in Serves) OBVIOUS
  <2> QED BY <2>3, <2>4, <1>4, OneLess
<1>9. Bounded(b) BY <1>1, <1>4 DEF Bounded
<1>10. Good(b, u) BY <1>3, <1>5, <1>6, <1>7, <1>8, <1>9 DEF Good
<1> QED BY <1>10 DEF b

\* A Manifest summary does not lose the engine: it is asked for only with an archive.
LEMMA SummaryGood ==
  ASSUME NEW a, Good(a, Nothing), NEW t \in Summaries, a.archive
  PROVE  Good(OpenSummary(a, t), Nothing)
<1>0. a \in Apps(Known(a)) /\ Known(a) = Targets /\ t \in Targets
  BY DEF Good, Known, Targets
<1>1. CASE t \in a.tabs
  <2>1. [a EXCEPT !.selected = t, !.deferred = a.deferred] = [a EXCEPT !.selected = t]
    BY <1>0 DEF Apps
  <2>2. a.deferred \in Known(a) \cup {Nothing} BY <1>0 DEF Apps
  <2>3. Good([a EXCEPT !.selected = t, !.deferred = a.deferred], Nothing)
    BY <1>0, <2>2, SelectGood
  <2> QED BY <1>1, <2>1, <2>3 DEF OpenSummary
<1>2. CASE t \notin a.tabs /\ a.engine
  <2>1. OwnTask(a, Task(a, "summary", t, Nothing, TRUE)) BY <1>0 DEF OwnTask, Task
  <2>2. Good(Borrow(a, "summary", t, Nothing), Nothing)
    BY <1>0, <1>2, <2>1, BorrowGood DEF Work
  <2> QED BY <1>2, <2>2 DEF OpenSummary
<1>3. CASE t \notin a.tabs /\ ~a.engine
  <2>1. [a EXCEPT !.engine = FALSE] = a BY <1>0, <1>3 DEF Apps
  <2> QED BY <1>3, <2>1 DEF OpenSummary
<1> QED BY <1>1, <1>2, <1>3

\* What starts a view, for the jump to it or for the tree.
LEMMA StartGood ==
  ASSUME NEW a, NEW u, Good(a, u), NEW t \in Known(a), u \in {Nothing, t},
         t \in Summaries => a.archive,
         u = t => IF t \in Files THEN a.archive ELSE a.engine
  PROVE  Good(Start(a, t), Nothing)
<1>0. /\ a \in Apps(Known(a)) /\ EngineOK(a) /\ t \in Targets /\ t # Nothing
      /\ a.project \/ a.archive => a.generation > 0
  BY KnownTargets DEF Good, EngineOK
<1>1. CASE t \in Classes
  <2>1. Start(a, t) = Decompile(a, t) BY <1>1, WindowAssumption DEF Start
  <2>2. CASE a.engine
    <3>1. OwnTask(a, Task(a, "class", t, Nothing, TRUE))
      BY <1>1, KnownTargets DEF OwnTask, Task
    <3>2. Good(Borrow(a, "class", t, Nothing), Nothing)
      BY <3>1, <2>2, <1>0, BorrowGood DEF Work, Serves
    <3> QED BY <2>1, <2>2, <3>2 DEF Decompile
  <2>3. CASE ~a.engine
    <3>1. u = Nothing BY <1>1, <2>3, WindowAssumption
    <3> QED BY <2>1, <2>3, <3>1 DEF Decompile
  <2> QED BY <2>2, <2>3
<1>2. CASE t \in Files
  <2>1. Start(a, t) = OpenAsset(a, t) BY <1>2, WindowAssumption DEF Start
  <2>2. CASE a.archive
    <3> DEFINE b == [a EXCEPT !.assetBusy = TRUE]
    <3>1. b \in Apps(Known(a)) BY <1>0 DEF Apps
    <3>2. /\ SameEngine(a, b) /\ b.pending = a.pending /\ b.cancelled = a.cancelled
          /\ b.history = a.history /\ b.future = a.future
      BY <1>0 DEF Apps, SameEngine
    <3>3. Start(a, t) = Spawn(b, "asset", t, Nothing, FALSE) BY <2>1, <2>2 DEF OpenAsset
    <3> HIDE DEF b
    <3>4. Good(b, u)
      <4>1. JumpsOK(b, u) BY <3>2, SameServed DEF Good, JumpsOK, Awaited
      <4>2. Bounded(b) BY <3>2 DEF Good, Bounded
      <4> QED BY <3>1, <3>2, <4>1, <4>2, Frame
    <3>5. OwnTask(b, Task(b, "asset", t, Nothing, FALSE)) /\ b.generation > 0
      BY <1>0, <1>2, <2>2, <3>2 DEF OwnTask, Task, Known, SameEngine
    <3> QED BY <1>0, <3>3, <3>4, <3>5, SpawnGood DEF Work, Serves
  <2>3. CASE ~a.archive
    <3>1. u = Nothing BY <1>2, <2>3
    <3> QED BY <2>1, <2>3, <3>1 DEF OpenAsset
  <2> QED BY <2>2, <2>3
<1>3. CASE t \in Summaries
  <2>1. Start(a, t) = OpenSummary(a, t) BY <1>3, WindowAssumption DEF Start
  <2>2. Good(a, Nothing) BY <1>3, WindowAssumption DEF Good, JumpsOK
  <2> QED BY <1>3, <2>1, <2>2, SummaryGood
<1> QED BY <1>0, <1>1, <1>2, <1>3 DEF Targets

LEMMA ChooseGood ==
  ASSUME NEW a, Good(a, Nothing), NEW t \in Known(a)
  PROVE  Good(Choose(a, t), Nothing)
<1> DEFINE b == GiveUp(a)
<1>1. Good(b, Nothing) /\ b.pending = Nothing /\ SameEngine(a, b) /\ b.tabs = a.tabs
  BY GiveUpGood
<1> HIDE DEF b
<1>2. Known(b) = Known(a) BY <1>1 DEF SameEngine, Known
<1>3. b \in Apps(Known(b)) /\ b.deferred \in Known(b) \cup {Nothing} BY <1>1 DEF Good, Apps
<1>4. CASE a.pending # Nothing /\ a.pending.to = t BY <1>4 DEF Choose
<1>5. CASE ~(a.pending # Nothing /\ a.pending.to = t)
  <2>1. CASE t \in b.tabs
    <3> DEFINE d == IF b.cancelled # Nothing THEN Nothing ELSE b.deferred
    <3>1. d \in Known(b) \cup {Nothing} BY <1>3
    <3>2. Choose(a, t) = [b EXCEPT !.selected = t, !.deferred = d]
      BY <1>3, <1>5, <2>1 DEF Choose, b, Apps
    <3> HIDE DEF d
    <3>3. t \in Known(b) \cup {Nothing} BY <1>2
    <3>4. Good([b EXCEPT !.selected = t, !.deferred = d], Nothing)
      BY <1>1, <3>1, <3>3, SelectGood
    <3> QED BY <3>2, <3>4
  <2>2. CASE t \notin b.tabs /\ b.cancelled # Nothing
    <3>1. Choose(a, t) = [b EXCEPT !.selected = b.selected, !.deferred = t]
      BY <1>3, <1>5, <2>2 DEF Choose, b, Apps
    <3>2. b.selected \in Known(b) \cup {Nothing} BY <1>3 DEF Apps
    <3>3. t \in Known(b) \cup {Nothing} BY <1>2
    <3>4. Good([b EXCEPT !.selected = b.selected, !.deferred = t], Nothing)
      BY <1>1, <3>2, <3>3, SelectGood
    <3> QED BY <3>1, <3>4
  <2>3. CASE t \notin b.tabs /\ b.cancelled = Nothing
    <3>1. Choose(a, t) = Start(b, t) BY <1>5, <2>3 DEF Choose, b
    <3>2. t \in Summaries => b.archive BY <1>2, WindowAssumption DEF Known
    <3>3. t # Nothing BY KnownTargets
    <3> QED BY <1>1, <1>2, <3>1, <3>2, <3>3, StartGood
  <2> QED BY <2>1, <2>2, <2>3
<1> QED BY <1>4, <1>5

\* Nothing is given up and nothing waits for it.
LEMMA ClearedApp ==
  ASSUME NEW S, NEW a \in Apps(S)
  PROVE  [a EXCEPT !.cancelled = Nothing, !.deferred = Nothing] \in Apps(S)
BY DEF Apps

LEMMA DiscardGood ==
  ASSUME NEW a, NEW u, Good(a, u), a.cancelled = u, u # Nothing
  PROVE  Good(Discard(a), Nothing)
<1> DEFINE b == [a EXCEPT !.cancelled = Nothing, !.deferred = Nothing]
<1>1. a \in Apps(Known(a)) /\ a.pending = Nothing BY DEF Good, JumpsOK
<1>2. b \in Apps(Known(a)) BY <1>1, ClearedApp
<1>3. /\ SameEngine(a, b) /\ b.pending = Nothing /\ b.cancelled = Nothing
      /\ b.history = a.history /\ b.future = a.future
  BY <1>1 DEF Apps, SameEngine
<1>4. Discard(a) = IF a.deferred = Nothing THEN b ELSE Choose(b, a.deferred) BY DEF Discard
<1> HIDE DEF b
<1>5. Good(b, Nothing)
  <2>1. JumpsOK(b, Nothing) BY <1>3, WindowAssumption DEF JumpsOK, Awaited, Targets
  <2>2. Bounded(b) BY <1>3 DEF Good, Bounded
  <2> QED BY <1>2, <1>3, <2>1, <2>2, Frame
<1>6. Known(b) = Known(a) BY <1>3 DEF SameEngine, Known
<1>7. a.deferred # Nothing => a.deferred \in Known(b) BY <1>1, <1>6 DEF Apps
<1> QED BY <1>4, <1>5, <1>7, ChooseGood

LEMMA InitGood == WindowInit => WInv
<1> SUFFICES ASSUME WindowInit PROVE WInv
  OBVIOUS
<1>1. app \in Apps(Known(app)) /\ Bounded(app)
  BY WindowAssumption DEF WindowInit, Apps, Bounded, Known
<1>2. TasksOK(app) /\ EngineOK(app) /\ JumpsOK(app, Nothing)
  BY WindowAssumption DEF WindowInit, TasksOK, EngineOK, Lenders, JumpsOK, Awaited, Targets
<1> QED BY <1>1, <1>2 DEF WInv, Good

\* Every thread there is belongs to an earlier project now.
LEMMA OpenGood == WInv /\ Open => WInv'
<1> SUFFICES ASSUME WInv, Open PROVE WInv'
  OBVIOUS
<1> DEFINE old == {[task EXCEPT !.origin = Nothing] : task \in app.tasks}
           x == [gen |-> app.generation + 1, kind |-> "open", target |-> Nothing,
                 origin |-> Nothing, engine |-> FALSE]
           b == app'
<1>1. app \in Apps(Known(app)) /\ TasksOK(app) BY DEF WInv, Good
<1>2. b = [generation |-> app.generation + 1, project |-> FALSE, archive |-> FALSE,
           engine |-> FALSE, busy |-> TRUE, assetBusy |-> FALSE, searching |-> FALSE,
           tabs |-> {}, selected |-> Nothing, history |-> <<>>, future |-> <<>>,
           pending |-> Nothing, cancelled |-> Nothing, deferred |-> Nothing,
           queued |-> Nothing, tasks |-> old \cup {x}]
  BY <1>1 DEF Open, Spawn, Apps
<1>3. app.generation + 1 \in 1..MaxGeneration
  BY <1>1, WindowAssumption DEF Open, Apps
<1>4. x \in Tasks BY <1>3 DEF Tasks
<1>5. \A y \in old : y \in Tasks /\ y.gen <= app.generation
  BY <1>1 DEF TasksOK, Apps, Tasks
<1>6. app.generation \in Nat /\ x.gen = app.generation + 1 /\ x.kind = "open" /\ ~x.engine
      /\ x.target = Nothing /\ x.origin = Nothing
  BY <1>1 DEF Apps
<1> HIDE DEF old, x
<1>7. b \in Apps(Known(app)')
  <2>1. old \cup {x} \subseteq Tasks BY <1>4, <1>5
  <2> HIDE DEF b
  <2>2. \A S : b \in Apps(S)
    <3> SUFFICES ASSUME NEW S PROVE b \in Apps(S)
      OBVIOUS
    <3> QED BY <1>2, <1>3, <2>1 DEF Apps
  <2> QED BY <2>2
<1>8. b.generation = app.generation + 1 /\ ~b.project /\ b.tasks = old \cup {x} BY <1>2
<1>9. \A y \in b.tasks : y.gen <= b.generation /\ (y.gen = b.generation => y = x)
  BY <1>5, <1>6, <1>8 DEF Tasks
<1>10. TasksOK(b)
  <2>1. OwnTask(b, x) BY <1>6, <1>8 DEF OwnTask
  <2> QED BY <2>1, <1>9 DEF TasksOK
<1>11. Lenders(app)' = {} BY <1>6, <1>9 DEF Lenders
<1>12. EngineOK(app)' BY <1>2, <1>11 DEF EngineOK
<1>13. JumpsOK(app, Nothing)' BY <1>2, WindowAssumption DEF JumpsOK, Awaited, Targets
<1>14. Bounded(app)' BY <1>2, WindowAssumption DEF Bounded
<1> QED BY <1>7, <1>10, <1>12, <1>13, <1>14 DEF WInv, Good

\* What the invariant says of the fields that the actions pass on.
LEMMA Fields ==
  ASSUME WInv
  PROVE  /\ app \in Apps(Known(app)) /\ EngineOK(app) /\ Bounded(app)
         /\ app.selected \in Known(app) \cup {Nothing}
         /\ app.deferred \in Known(app) \cup {Nothing}
         /\ app.tabs \subseteq Known(app)
         /\ app.history \in Seq(Known(app)) /\ app.future \in Seq(Known(app))
         /\ app.queued # Nothing =>
              app.queued.target \in Classes /\ app.queued.origin \in Known(app)
         /\ app.engine => app.project /\ app.generation > 0
BY DEF WInv, Good, Apps, EngineOK

LEMMA ChooseTargetGood ==
  ASSUME WInv, NEW t \in Targets, ChooseTarget(t)
  PROVE  WInv'
<1>1. t \in Known(app) BY DEF ChooseTarget, Known, Targets
<1> QED BY <1>1, ChooseGood DEF WInv, ChooseTarget

LEMMA ChooseSummaryGood ==
  ASSUME WInv, NEW t \in Summaries, ChooseSummary(t)
  PROVE  WInv'
<1>1. app.archive BY Fields, WindowAssumption DEF ChooseSummary, Known, Targets
<1> QED BY <1>1, SummaryGood DEF WInv, ChooseSummary

LEMMA FollowLinkGood ==
  ASSUME WInv, NEW t \in Classes, FollowLink(t)
  PROVE  WInv'
<1>1. /\ app.selected \in Known(app) /\ app.selected \in Targets
      /\ t \in Known(app) /\ t \in Targets
  BY Fields, KnownTargets, WindowAssumption DEF FollowLink, Targets
<1>2. CASE app.engine /\ app' = Borrow(app, "link", t, app.selected)
  <2>1. OwnTask(app, Task(app, "link", t, app.selected, TRUE)) BY <1>1 DEF OwnTask, Task
  <2> QED BY <1>1, <1>2, <2>1, BorrowGood DEF WInv, Work
<1>3. CASE app' = [app EXCEPT !.queued = [target |-> t, origin |-> app.selected]]
  <2> DEFINE b == [app EXCEPT !.queued = [target |-> t, origin |-> app.selected]]
  <2>1. b \in Apps(Known(app)) BY <1>1, Fields DEF Apps
  <2>2. /\ SameEngine(app, b) /\ b.pending = app.pending /\ b.cancelled = app.cancelled
        /\ b.history = app.history /\ b.future = app.future
    BY Fields DEF Apps, SameEngine
  <2> HIDE DEF b
  <2>3. JumpsOK(b, Nothing) BY <2>2, SameServed DEF WInv, Good, JumpsOK, Awaited
  <2>4. Bounded(b) BY <2>2, Fields DEF Bounded
  <2>5. Good(b, Nothing) BY <2>1, <2>2, <2>3, <2>4, Frame DEF WInv
  <2> QED BY <1>3, <2>5 DEF WInv, b
<1> QED BY <1>2, <1>3 DEF FollowLink

LEMMA FollowGraphGood ==
  ASSUME WInv, NEW t \in Classes, FollowGraph(t)
  PROVE  WInv'
<1> DEFINE origin == IF app.selected = Nothing THEN t ELSE app.selected
<1>1. origin \in Known(app) /\ origin \in Targets /\ t \in Known(app) /\ t \in Targets
  BY Fields, KnownTargets
<1>2. app.engine /\ app' = Borrow(app, "link", t, origin) BY DEF FollowGraph
<1> HIDE DEF origin
<1>3. OwnTask(app, Task(app, "link", t, origin, TRUE)) BY <1>1 DEF OwnTask, Task
<1> QED BY <1>1, <1>2, <1>3, BorrowGood DEF WInv, Work

LEMMA SelectTabGood ==
  ASSUME WInv, NEW t \in Targets, SelectTab(t)
  PROVE  WInv'
<1> DEFINE b == GiveUp(app)
<1>1. Good(b, Nothing) /\ SameEngine(app, b) BY GiveUpGood DEF WInv
<1>2. app' = [b EXCEPT !.selected = t, !.deferred = Nothing] BY DEF SelectTab
<1> HIDE DEF b
<1>3. Known(b) = Known(app) BY <1>1 DEF SameEngine, Known
<1>4. t \in Known(b) \cup {Nothing} BY <1>3, Fields DEF SelectTab
<1>5. Good([b EXCEPT !.selected = t, !.deferred = Nothing], Nothing)
  BY <1>1, <1>4, SelectGood
<1> QED BY <1>2, <1>5 DEF WInv

LEMMA CloseTabsGood ==
  ASSUME WInv, NEW closed, CloseTabs(closed)
  PROVE  WInv'
<1> DEFINE b == GiveUp(app)
<1>1. Good(b, Nothing) /\ SameEngine(app, b) /\ b.tabs = app.tabs BY GiveUpGood DEF WInv
<1>2. PICK t \in app.tabs \cup {Nothing} :
        app' = [b EXCEPT !.tabs = @ \ closed, !.selected = t, !.deferred = Nothing]
  BY DEF CloseTabs
<1> HIDE DEF b
<1>3. Known(b) = Known(app) BY <1>1 DEF SameEngine, Known
<1>4. t \in Known(b) \cup {Nothing} /\ b \in Apps(Known(b)) BY <1>1, <1>3, Fields DEF Good
<1> DEFINE c == [b EXCEPT !.selected = t, !.deferred = Nothing]
           d == [c EXCEPT !.tabs = @ \ closed]
<1>5. Good(c, Nothing) BY <1>1, <1>4, SelectGood
<1>6. app' = d BY <1>2, <1>4 DEF Apps
<1> HIDE DEF c
<1>7. c \in Apps(Known(c)) BY <1>5 DEF Good
<1>8. d \in Apps(Known(c)) BY <1>7 DEF Apps
<1>9. /\ SameEngine(c, d) /\ d.pending = c.pending /\ d.cancelled = c.cancelled
      /\ d.history = c.history /\ d.future = c.future
  BY <1>7 DEF Apps, SameEngine
<1> HIDE DEF d
<1>10. JumpsOK(d, Nothing) BY <1>5, <1>9, SameServed DEF Good, JumpsOK, Awaited
<1>11. Bounded(d) BY <1>5, <1>9 DEF Good, Bounded
<1>12. Good(d, Nothing) BY <1>5, <1>8, <1>9, <1>10, <1>11, Frame
<1> QED BY <1>6, <1>12 DEF WInv

\* The jumps forward are forgotten, the jumps back are any.
LEMMA HistoryGood ==
  ASSUME NEW a, NEW t, Good(a, t), NEW h \in Seq(Known(a)), Len(h) <= MaxHistory
  PROVE  Good([a EXCEPT !.future = <<>>, !.history = h], t)
<1> DEFINE b == [a EXCEPT !.future = <<>>, !.history = h]
<1>1. a \in Apps(Known(a)) BY DEF Good
<1>2. b \in Apps(Known(a))
  <2>1. <<>> \in Seq(Known(a)) OBVIOUS
  <2> QED BY <1>1, <2>1 DEF Apps
<1>3. /\ SameEngine(a, b) /\ b.pending = a.pending /\ b.cancelled = a.cancelled
      /\ b.history = h /\ b.future = <<>>
  BY <1>1 DEF Apps, SameEngine
<1> HIDE DEF b
<1>4. JumpsOK(b, t) BY <1>3, SameServed DEF Good, JumpsOK, Awaited
<1>5. Bounded(b) BY <1>3, WindowAssumption DEF Bounded
<1>6. Good(b, t) BY <1>2, <1>3, <1>4, <1>5, Frame
<1> QED BY <1>6 DEF b

LEMMA OpenHitGood ==
  ASSUME WInv, NEW t \in Targets, OpenHit(t)
  PROVE  WInv'
<1> DEFINE b == GiveUp(app)
           c == [b EXCEPT !.deferred = Nothing]
           d == Show(c, t)
<1>1. Good(b, Nothing) /\ SameEngine(app, b) BY GiveUpGood DEF WInv
<1>2. app' \in {c, [d EXCEPT !.future = <<>>]} BY DEF OpenHit
<1>3. t \in Known(app) BY DEF OpenHit, Known, Targets
<1> HIDE DEF b
<1>4. Known(b) = Known(app) /\ b \in Apps(Known(b)) BY <1>1 DEF SameEngine, Known, Good
<1>5. c = [b EXCEPT !.selected = b.selected, !.deferred = Nothing] BY <1>4 DEF Apps
<1>6. b.selected \in Known(b) \cup {Nothing} BY <1>4 DEF Apps
<1>7. Good([b EXCEPT !.selected = b.selected, !.deferred = Nothing], Nothing)
  BY <1>1, <1>6, SelectGood
<1>8. Good(c, Nothing) BY <1>5, <1>7
<1>9. Known(c) = Known(b) BY <1>4 DEF Apps, Known
<1> HIDE DEF c
<1>10. Good(d, Nothing) /\ SameEngine(c, d) BY <1>3, <1>4, <1>8, <1>9, ShowGood
<1> HIDE DEF d
<1>11. d \in Apps(Known(d)) /\ Bounded(d) BY <1>10 DEF Good
<1>12. d.history \in Seq(Known(d)) BY <1>11 DEF Apps
<1>13. [d EXCEPT !.future = <<>>] = [d EXCEPT !.future = <<>>, !.history = d.history]
  BY <1>11 DEF Apps
<1>14. Good([d EXCEPT !.future = <<>>, !.history = d.history], Nothing)
  BY <1>10, <1>11, <1>12, HistoryGood DEF Bounded
<1> QED BY <1>2, <1>8, <1>13, <1>14 DEF WInv

\* Work that has the engine and concerns no target.
LEMMA PlainBorrowGood ==
  ASSUME NEW a, Good(a, Nothing), a.engine, NEW kind \in {"search", "ready"}
  PROVE  Good(Borrow(a, kind, Nothing, Nothing), Nothing)
<1>1. OwnTask(a, Task(a, kind, Nothing, Nothing, TRUE)) BY DEF OwnTask, Task
<1> QED BY <1>1, BorrowGood DEF Work

LEMMA SearchingGood ==
  ASSUME NEW a, Good(a, Nothing), NEW searching \in BOOLEAN
  PROVE  Good([a EXCEPT !.searching = searching], Nothing)
<1> DEFINE b == [a EXCEPT !.searching = searching]
<1>1. a \in Apps(Known(a)) BY DEF Good
<1>2. b \in Apps(Known(a)) BY <1>1 DEF Apps
<1>3. /\ SameEngine(a, b) /\ b.pending = a.pending /\ b.cancelled = a.cancelled
      /\ b.history = a.history /\ b.future = a.future
  BY <1>1 DEF Apps, SameEngine
<1> HIDE DEF b
<1>4. JumpsOK(b, Nothing) BY <1>3, SameServed DEF Good, JumpsOK, Awaited
<1>5. Bounded(b) BY <1>3 DEF Good, Bounded
<1>6. Good(b, Nothing) BY <1>2, <1>3, <1>4, <1>5, Frame
<1> QED BY <1>6 DEF b

LEMMA StartSearchGood == WInv /\ StartSearch => WInv'
<1> SUFFICES ASSUME WInv, StartSearch PROVE WInv'
  OBVIOUS
<1> DEFINE b == [app EXCEPT !.searching = TRUE]
<1>1. Good(b, Nothing) BY SearchingGood DEF WInv
<1>2. b.engine BY Fields DEF StartSearch, Apps
<1>3. app' = Borrow(b, "search", Nothing, Nothing) BY DEF StartSearch
<1> HIDE DEF b
<1> QED BY <1>1, <1>2, <1>3, PlainBorrowGood DEF WInv

LEMMA UseEngineGood ==
  ASSUME WInv, app.engine, app' = Borrow(app, "ready", Nothing, Nothing)
  PROVE  WInv'
BY PlainBorrowGood DEF WInv

\* The link that waits is taken from its place.
LEMMA UnqueueGood ==
  ASSUME WInv
  PROVE  /\ Good([app EXCEPT !.queued = Nothing], Nothing)
         /\ SameEngine(app, [app EXCEPT !.queued = Nothing])
<1> DEFINE b == [app EXCEPT !.queued = Nothing]
<1>1. b \in Apps(Known(app)) BY Fields DEF Apps
<1>2. /\ SameEngine(app, b) /\ b.pending = app.pending /\ b.cancelled = app.cancelled
      /\ b.history = app.history /\ b.future = app.future
  BY Fields DEF Apps, SameEngine
<1> HIDE DEF b
<1>3. JumpsOK(b, Nothing) BY <1>2, SameServed DEF WInv, Good, JumpsOK, Awaited
<1>4. Bounded(b) BY <1>2, Fields DEF Bounded
<1>5. Good(b, Nothing) BY <1>1, <1>2, <1>3, <1>4, Frame DEF WInv
<1> QED BY <1>2, <1>5 DEF b

\* A thread that looks for the target of a link without the engine.
LEMMA LinkGood ==
  ASSUME NEW a, Good(a, Nothing), a.generation > 0,
         NEW t \in Classes, NEW origin \in Known(a)
  PROVE  Good(Spawn(a, "link", t, origin, FALSE), Nothing)
<1>1. t \in Known(a) /\ t \in Targets /\ origin \in Targets BY KnownTargets
<1>2. OwnTask(a, Task(a, "link", t, origin, FALSE)) BY <1>1 DEF OwnTask, Task
<1> QED BY <1>1, <1>2, SpawnGood DEF Work

LEMMA ServeQueuedGood == WInv /\ ServeQueued => WInv'
<1> SUFFICES ASSUME WInv, ServeQueued PROVE WInv'
  OBVIOUS
<1> DEFINE b == [app EXCEPT !.queued = Nothing]
           c == Borrow(b, "ready", Nothing, Nothing)
<1>1. Good(b, Nothing) /\ SameEngine(app, b) BY UnqueueGood
<1>2. app' = Spawn(c, "link", app.queued.target, app.queued.origin, FALSE)
  BY DEF ServeQueued
<1>3. /\ app.engine /\ app.queued.target \in Classes /\ app.queued.origin \in Known(app)
      /\ app.generation > 0
  BY Fields DEF ServeQueued
<1> HIDE DEF b
<1>4. b.engine /\ b \in Apps(Known(b)) BY <1>1, <1>3 DEF SameEngine, Good
<1>5. c.generation = app.generation /\ c.archive = app.archive
  BY <1>1, <1>4 DEF SameEngine, Borrow, Spawn, Apps
<1>6. Good(c, Nothing) BY <1>1, <1>4, PlainBorrowGood
<1> HIDE DEF c
<1>7. Known(c) = Known(app) BY <1>5 DEF Known
<1>8. Good(Spawn(c, "link", app.queued.target, app.queued.origin, FALSE), Nothing)
  BY <1>3, <1>5, <1>6, <1>7, LinkGood
<1> QED BY <1>2, <1>8 DEF WInv

LEMMA GoHistoryGood ==
  ASSUME WInv, NEW forward \in BOOLEAN, GoHistory(forward)
  PROVE  WInv'
<1> DEFINE list == IF forward THEN app.future ELSE app.history
           to == list[Len(list)]
           p == [to |-> to, origin |-> app.selected, forward |-> forward]
           a == [app EXCEPT !.pending = p]
<1>0. app.cancelled = Nothing /\ app.pending = Nothing /\ list # <<>>
  BY DEF GoHistory, CanHistory
<1>1. list \in Seq(Known(app)) BY Fields
<1>2. to \in Known(app) BY <1>0, <1>1
<1> HIDE DEF list
<1>3. p \in [to : Known(app), origin : Known(app) \cup {Nothing}, forward : BOOLEAN]
  BY <1>2, Fields
<1>4. p.to = to OBVIOUS
<1>5. \/ to \in app.tabs /\ \E right \in BOOLEAN : app' = Finish([a EXCEPT !.selected = to], right)
      \/ /\ to \notin app.tabs \/ to \in Classes
         /\ IF to \in Files THEN app.archive ELSE app.engine
         /\ app' = Start(a, to)
  BY DEF GoHistory, list
<1> HIDE DEF p, to
<1>6. a \in Apps(Known(app)) BY <1>3, Fields DEF Apps
<1>7. /\ SameEngine(app, a) /\ a.pending = p /\ a.cancelled = app.cancelled
      /\ a.history = app.history /\ a.future = app.future /\ a.deferred = app.deferred
  BY Fields DEF Apps, SameEngine
<1> HIDE DEF a
<1>8. Good(a, to)
  <2>1. JumpsOK(a, to)
    BY <1>0, <1>4, <1>7, SameServed, WindowAssumption
    DEF WInv, Good, JumpsOK, Awaited, Targets
  <2>2. Bounded(a) BY <1>7, Fields DEF Bounded
  <2> QED BY <1>6, <1>7, <2>1, <2>2, Frame DEF WInv
<1>9. Known(a) = Known(app) BY <1>7 DEF SameEngine, Known
<1>10. ASSUME NEW right \in BOOLEAN, app' = Finish([a EXCEPT !.selected = to], right)
       PROVE  WInv'
  <2> DEFINE b == [a EXCEPT !.selected = to, !.deferred = a.deferred]
  <2>1. b = [a EXCEPT !.selected = to] BY <1>6 DEF Apps
  <2>2. a.deferred \in Known(a) \cup {Nothing} BY <1>6, <1>9 DEF Apps
  <2>3. Good(b, to) BY <1>2, <1>8, <1>9, <2>2, SelectGood
  <2>4. b.cancelled = Nothing /\ b.pending = p /\ b.archive = app.archive
    BY <1>0, <1>6, <1>7 DEF Apps, SameEngine
  <2> HIDE DEF b
  <2>5. Known(b) = Known(app) BY <2>4 DEF Known
  <2>6. b.pending.origin \in Known(b) \cup {Nothing} BY <1>3, <2>4, <2>5
  <2>7. Good(Finish(b, right), Nothing) BY <2>3, <2>4, <2>6, FinishGood
  <2> QED BY <1>10, <2>1, <2>7 DEF WInv
<1>11. CASE /\ IF to \in Files THEN app.archive ELSE app.engine
            /\ app' = Start(a, to)
  <2>1. to \in Summaries => a.archive
    BY <1>2, <1>7, WindowAssumption DEF Known, SameEngine
  <2>2. IF to \in Files THEN a.archive ELSE a.engine BY <1>7, <1>11 DEF SameEngine
  <2>3. Good(Start(a, to), Nothing) BY <1>2, <1>8, <1>9, <2>1, <2>2, StartGood
  <2> QED BY <1>11, <2>3 DEF WInv
<1> QED BY <1>5, <1>10, <1>11

\* A thread of the project that the window shows.
LEMMA HandledTask ==
  ASSUME WInv, NEW task, NEW kinds, Handled(task, kinds)
  PROVE  /\ task \in app.tasks /\ task \in Tasks /\ task.gen = app.generation
         /\ OwnTask(app, task) /\ task.kind \in kinds /\ app.generation > 0
BY WindowAssumption DEF WInv, Good, TasksOK, Apps, Tasks, Handled, Current

LEMMA RestOfTaken ==
  ASSUME WInv, NEW x
  PROVE  /\ Known(Taken(x)) = Known(app) /\ Known(Return(Taken(x))) = Known(app)
         /\ Taken(x).archive = app.archive /\ Return(Taken(x)).archive = app.archive
         /\ Taken(x).generation = app.generation
         /\ Return(Taken(x)).generation = app.generation
BY Fields DEF Taken, Return, Known, Apps

LEMMA IgnoredGood ==
  ASSUME WInv, NEW task \in app.tasks, Ignored(task)
  PROVE  WInv'
<1>1. task.gen # app.generation /\ app' = Taken(task) BY DEF Ignored, Current
<1>2. Good(Taken(task), Nothing) BY <1>1, TakenGood
<1> QED BY <1>1, <1>2 DEF WInv

LEMMA AppsMonotone ==
  ASSUME NEW S, NEW T, S \subseteq T, NEW a \in Apps(S)
  PROVE  a \in Apps(T)
<1>1. /\ a.tabs \in SUBSET T /\ a.selected \in T \cup {Nothing}
      /\ a.cancelled \in T \cup {Nothing} /\ a.deferred \in T \cup {Nothing}
  BY DEF Apps
<1>2. a.history \in Seq(T) /\ a.future \in Seq(T)
  <2>1. a.history \in Seq(S) /\ a.future \in Seq(S) BY DEF Apps
  <2>2. \A s \in Seq(S) : s \in Seq(T) OBVIOUS
  <2> QED BY <2>1, <2>2
<1>3. a.pending \in {Nothing} \cup [to : T, origin : T \cup {Nothing}, forward : BOOLEAN]
  BY DEF Apps
<1>4. a.queued \in {Nothing} \cup [target : Classes, origin : T]
  BY DEF Apps
<1> QED BY <1>1, <1>2, <1>3, <1>4 DEF Apps

LEMMA ArchiveReadyGood ==
  ASSUME WInv, NEW task, ArchiveReady(task)
  PROVE  WInv'
<1> DEFINE b == [app EXCEPT !.archive = TRUE]
<1>1. app.generation > 0 BY HandledTask DEF ArchiveReady
<1>2. app \in Apps(Targets) BY Fields, KnownTargets, AppsMonotone
<1>3. b \in Apps(Targets) BY <1>2 DEF Apps
<1>4. /\ b.generation = app.generation /\ b.project = app.project /\ b.archive
      /\ b.engine = app.engine /\ b.busy = app.busy /\ b.tasks = app.tasks
      /\ b.pending = app.pending /\ b.cancelled = app.cancelled
      /\ b.history = app.history /\ b.future = app.future
  BY <1>2 DEF Apps
<1> HIDE DEF b
<1>5. Known(b) = Targets BY <1>4 DEF Known
<1>6. TasksOK(b)
  <2>1. \A x : OwnTask(app, x) => OwnTask(b, x)
    BY <1>4, <1>5, KnownTargets DEF OwnTask
  <2> QED BY <2>1, <1>4 DEF WInv, Good, TasksOK
<1>7. EngineOK(b)
  <2>1. Lenders(b) = Lenders(app) BY <1>4 DEF Lenders
  <2> QED BY <2>1, <1>1, <1>4 DEF WInv, Good, EngineOK
<1>8. JumpsOK(b, Nothing) BY <1>4 DEF WInv, Good, JumpsOK, Awaited, ServedIn
<1>9. Bounded(b) BY <1>4, Fields DEF Bounded
<1>10. app' = b BY DEF ArchiveReady, b
<1> QED BY <1>3, <1>5, <1>6, <1>7, <1>8, <1>9, <1>10 DEF WInv, Good

\* The project gets its engine once, since it has one thread that opens it.
LEMMA OpenedGood ==
  ASSUME WInv, NEW task, Opened(task)
  PROVE  WInv'
<1> DEFINE c == Taken(task)
           a == [c EXCEPT !.busy = FALSE]
           b == [a EXCEPT !.engine = TRUE, !.project = TRUE]
<1>1. /\ task \in app.tasks /\ task \in Tasks /\ task.gen = app.generation
      /\ OwnTask(app, task) /\ task.kind = "open" /\ app.generation > 0
  BY HandledTask DEF Opened
<1>2. ~app.project /\ ~task.engine BY <1>1 DEF OwnTask
<1>3. Good(c, Nothing) BY <1>1, <1>2, TakenGood DEF Serves
<1>4. /\ c.tasks = app.tasks \ {task} /\ c.generation = app.generation
      /\ c.archive = app.archive /\ ~c.project
  BY <1>2, Fields DEF Taken, Apps
<1>5. \A y \in c.tasks : y.gen = c.generation => y.kind # "open"
  <2> SUFFICES ASSUME NEW y \in app.tasks, y.gen = app.generation, y.kind = "open"
               PROVE  y = task
    BY <1>4
  <2>1. y \in Tasks /\ OwnTask(app, y) BY DEF WInv, Good, TasksOK, Apps
  <2>2. y.target = task.target /\ y.origin = task.origin /\ y.engine = task.engine
    BY <2>1, <1>1 DEF OwnTask, Tasks
  <2> QED BY <2>1, <2>2, <1>1 DEF Tasks
<1>6. app' \in {a, b} BY DEF Opened
<1> HIDE DEF c
<1>7. c \in Apps(Known(c)) /\ Bounded(c) /\ TasksOK(c) /\ EngineOK(c) /\ JumpsOK(c, Nothing)
  BY <1>3 DEF Good
<1>8. Lenders(c) = {} /\ ~c.engine BY <1>4, <1>7 DEF EngineOK
<1>9. a \in Apps(Known(c)) /\ b \in Apps(Known(c))
  <2>1. a \in Apps(Known(c)) BY <1>7 DEF Apps
  <2> HIDE DEF a
  <2>2. b \in Apps(Known(c)) BY <2>1 DEF Apps
  <2> QED BY <2>1, <2>2
<1>10. /\ a.generation = c.generation /\ a.project = c.project /\ a.archive = c.archive
       /\ a.engine = c.engine /\ a.tasks = c.tasks
       /\ a.pending = c.pending /\ a.cancelled = c.cancelled
       /\ a.history = c.history /\ a.future = c.future
  BY <1>7 DEF Apps
<1>11. /\ b.generation = c.generation /\ b.project /\ b.archive = c.archive
       /\ b.engine /\ ~b.busy /\ b.tasks = c.tasks
       /\ b.pending = c.pending /\ b.cancelled = c.cancelled
       /\ b.history = c.history /\ b.future = c.future
  BY <1>7 DEF Apps
<1> HIDE DEF a, b
<1>12. Good(a, Nothing)
  <2>1. Known(a) = Known(c) BY <1>10 DEF Known
  <2>2. TasksOK(a) BY <2>1, <1>7, <1>10 DEF TasksOK, OwnTask
  <2>3. Lenders(a) = {} BY <1>8, <1>10 DEF Lenders
  <2>4. EngineOK(a) BY <2>3, <1>1, <1>4, <1>8, <1>10 DEF EngineOK
  <2>5. JumpsOK(a, Nothing) BY <1>7, <1>10 DEF JumpsOK, Awaited, ServedIn
  <2>6. Bounded(a) BY <1>7, <1>10 DEF Bounded
  <2> QED BY <2>1, <2>2, <2>4, <2>5, <2>6, <1>9 DEF Good
<1>13. Good(b, Nothing)
  <2>1. Known(b) = Known(c) BY <1>11 DEF Known
  <2>2. TasksOK(b)
    <3>1. \A y \in c.tasks : y.gen = c.generation /\ OwnTask(c, y) => OwnTask(b, y)
      BY <2>1, <1>5 DEF OwnTask
    <3> QED BY <3>1, <1>7, <1>11 DEF TasksOK
  <2>3. Lenders(b) = {} BY <1>8, <1>11 DEF Lenders
  <2>4. EngineOK(b) BY <2>3, <1>1, <1>4, <1>11 DEF EngineOK
  <2>5. JumpsOK(b, Nothing) BY <1>7, <1>11 DEF JumpsOK, Awaited, ServedIn
  <2>6. Bounded(b) BY <1>7, <1>11 DEF Bounded
  <2> QED BY <2>1, <2>2, <2>4, <2>5, <2>6, <1>9 DEF Good
<1> QED BY <1>6, <1>12, <1>13 DEF WInv

LEMMA SourceReadyGood ==
  ASSUME WInv, NEW task, SourceReady(task)
  PROVE  WInv'
<1> DEFINE a == Return(Taken(task))
           t == task.target
           b == Show(a, t)
<1>1. /\ task \in app.tasks /\ task.gen = app.generation
      /\ OwnTask(app, task) /\ task.kind = "class"
  BY HandledTask DEF SourceReady
<1>2. task.engine /\ t \in Classes BY <1>1 DEF OwnTask
<1>3. t \in Known(a) /\ t # Nothing BY <1>2, RestOfTaken, KnownTargets
<1>4. Good(a, t) BY <1>1, <1>2, <1>3, ReturnGood
<1>5. IF a.cancelled = t THEN app' = Discard(a)
      ELSE \/ app' = Fail(a)
           \/ \E right \in BOOLEAN : app' = IF b.pending = Nothing THEN b ELSE Finish(b, right)
  BY DEF SourceReady
<1> HIDE DEF a, t
<1>6. Good(b, t) /\ b.pending = a.pending /\ b.cancelled = a.cancelled
  BY <1>3, <1>4, ShowGood
<1> HIDE DEF b
<1>7. CASE a.cancelled = t BY <1>3, <1>4, <1>5, <1>7, DiscardGood DEF WInv
<1>8. CASE a.cancelled # t /\ app' = Fail(a) BY <1>4, <1>8, FailGood DEF WInv
<1>9. ASSUME a.cancelled # t, NEW right \in BOOLEAN,
             app' = IF b.pending = Nothing THEN b ELSE Finish(b, right)
      PROVE  WInv'
  <2>1. CASE b.pending = Nothing
    <3>1. ~Awaited(b, t) BY <1>6, <1>9, <2>1 DEF Awaited
    <3>2. Good(b, Nothing) BY <1>6, <3>1, Forgiven
    <3> QED BY <1>9, <2>1, <3>2 DEF WInv
  <2>2. CASE b.pending # Nothing
    <3>1. b.cancelled = Nothing /\ b.pending.origin \in Known(b) \cup {Nothing}
      BY <1>6, <2>2, AwaitedFields
    <3>2. Good(Finish(b, right), Nothing) BY <1>6, <3>1, FinishGood
    <3> QED BY <1>9, <2>2, <3>2 DEF WInv
  <2> QED BY <2>1, <2>2
<1> QED BY <1>5, <1>7, <1>8, <1>9

LEMMA NavigatedGood ==
  ASSUME WInv, NEW task, Navigated(task)
  PROVE  WInv'
<1> DEFINE a == IF task.engine THEN Return(Taken(task)) ELSE Taken(task)
           b == Show(a, task.target)
           h == Push(b.history, task.origin)
<1>1. /\ task \in app.tasks /\ task.gen = app.generation
      /\ OwnTask(app, task) /\ task.kind = "link"
  BY HandledTask DEF Navigated
<1>2. task.target \in Classes /\ task.origin \in Known(app) \cup {Nothing}
  BY <1>1 DEF OwnTask
<1>3. Good(a, Nothing)
  <2>1. CASE task.engine BY <2>1, <1>1, ReturnGood DEF Serves
  <2>2. CASE ~task.engine BY <2>2, <1>1, TakenGood DEF Serves
  <2> QED BY <2>1, <2>2
<1>4. Known(a) = Known(app) BY RestOfTaken
<1>5. app' \in {a, [b EXCEPT !.future = <<>>, !.history = Push(@, task.origin)]}
  BY DEF Navigated
<1> HIDE DEF a
<1>6. task.target \in Known(a) BY <1>2, KnownTargets
<1>7. Good(b, Nothing) /\ SameEngine(a, b) BY <1>3, <1>6, ShowGood
<1>8. Known(b) = Known(app) BY <1>4, <1>7 DEF SameEngine, Known
<1> HIDE DEF b
<1>9. b \in Apps(Known(b)) /\ b.history \in Seq(Known(b)) /\ Len(b.history) <= MaxHistory
  BY <1>7 DEF Good, Apps, Bounded
<1>10. h \in Seq(Known(b)) /\ Len(h) <= MaxHistory
  BY <1>2, <1>8, <1>9, PopPush
<1>11. [b EXCEPT !.future = <<>>, !.history = Push(@, task.origin)]
         = [b EXCEPT !.future = <<>>, !.history = h]
  BY <1>9 DEF Apps
<1> HIDE DEF h
<1>12. Good([b EXCEPT !.future = <<>>, !.history = h], Nothing)
  BY <1>7, <1>10, HistoryGood
<1> QED BY <1>3, <1>5, <1>11, <1>12 DEF WInv

\* A preview that is there, or not, ends the jump to it.
LEMMA PreviewGood ==
  ASSUME NEW a, NEW t \in Known(a), t \in Files, Good(a, t),
         \/ a.cancelled = t /\ app' = Discard(a)
         \/ a.cancelled # t /\ app' = Fail(a)
         \/ a.cancelled # t /\ \E right \in BOOLEAN : app' = PushTab(a, t, right)
  PROVE  WInv'
<1>1. t # Nothing BY KnownTargets
<1>2. CASE a.cancelled = t /\ app' = Discard(a) BY <1>1, <1>2, DiscardGood DEF WInv
<1>3. CASE a.cancelled # t /\ app' = Fail(a) BY <1>3, FailGood DEF WInv
<1>4. ASSUME a.cancelled # t, NEW right \in BOOLEAN, app' = PushTab(a, t, right)
      PROVE  WInv'
  <2>1. Good(PushTab(a, t, right), Nothing) BY <1>4, PushTabGood
  <2> QED BY <1>4, <2>1 DEF WInv
<1> QED BY <1>2, <1>3, <1>4

LEMMA AssetBusyGood ==
  ASSUME NEW a, NEW t, Good(a, t), NEW assetBusy \in BOOLEAN
  PROVE  /\ Good([a EXCEPT !.assetBusy = assetBusy], t)
         /\ SameEngine(a, [a EXCEPT !.assetBusy = assetBusy])
<1> DEFINE b == [a EXCEPT !.assetBusy = assetBusy]
<1>1. a \in Apps(Known(a)) BY DEF Good
<1>2. b \in Apps(Known(a)) BY <1>1 DEF Apps
<1>3. /\ SameEngine(a, b) /\ b.pending = a.pending /\ b.cancelled = a.cancelled
      /\ b.history = a.history /\ b.future = a.future
  BY <1>1 DEF Apps, SameEngine
<1> HIDE DEF b
<1>4. JumpsOK(b, t) BY <1>3, SameServed DEF Good, JumpsOK, Awaited
<1>5. Bounded(b) BY <1>3 DEF Good, Bounded
<1>6. Good(b, t) BY <1>2, <1>3, <1>4, <1>5, Frame
<1> QED BY <1>3, <1>6 DEF b

LEMMA AssetReadyGood ==
  ASSUME WInv, NEW task, AssetReady(task)
  PROVE  WInv'
<1> DEFINE c == Taken(task)
           a == [c EXCEPT !.assetBusy = FALSE]
           t == task.target
<1>1. /\ task \in app.tasks /\ task.gen = app.generation
      /\ OwnTask(app, task) /\ task.kind \in {"asset", "raw"}
  BY HandledTask DEF AssetReady
<1>2. ~task.engine /\ t \in Files /\ t \in Known(app) BY <1>1, WindowAssumption DEF OwnTask, Targets
<1>3. t # Nothing BY <1>2, KnownTargets
<1>4. Good(c, t) BY <1>1, <1>2, <1>3, TakenGood
<1>5. Known(c) = Known(app) BY RestOfTaken
<1>6. \/ a.cancelled = t /\ app' = Discard(a)
      \/ a.cancelled # t /\ app' = Fail(a)
      \/ a.cancelled # t /\ \E right \in BOOLEAN : app' = PushTab(a, t, right)
      \/ a.cancelled # t /\ a.engine /\ app' = Borrow(a, "resource", t, Nothing)
  BY DEF AssetReady
<1> HIDE DEF c
<1>7. Good(a, t) /\ SameEngine(c, a) BY <1>4, AssetBusyGood
<1>8. Known(a) = Known(app) BY <1>5, <1>7 DEF SameEngine, Known
<1> HIDE DEF a, t
<1>9. CASE a.engine /\ app' = Borrow(a, "resource", t, Nothing)
  <2>1. OwnTask(a, Task(a, "resource", t, Nothing, TRUE))
    BY <1>2, <1>8 DEF OwnTask, Task
  <2>2. Good(Borrow(a, "resource", t, Nothing), Nothing)
    BY <1>2, <1>7, <1>9, <2>1, BorrowGood DEF Work, Serves, Targets
  <2> QED BY <1>9, <2>2 DEF WInv
<1>10. CASE ~(a.engine /\ app' = Borrow(a, "resource", t, Nothing))
  BY <1>2, <1>6, <1>7, <1>8, <1>10, PreviewGood
<1> QED BY <1>9, <1>10

LEMMA ResourceReadyGood ==
  ASSUME WInv, NEW task, ResourceReady(task)
  PROVE  WInv'
<1> DEFINE a == Return(Taken(task))
           t == task.target
           b == [a EXCEPT !.assetBusy = TRUE]
<1>1. /\ task \in app.tasks /\ task.gen = app.generation
      /\ OwnTask(app, task) /\ task.kind = "resource" /\ app.generation > 0
  BY HandledTask DEF ResourceReady
<1>2. task.engine /\ t \in Files /\ t \in Known(app) BY <1>1, WindowAssumption DEF OwnTask, Targets
<1>3. t # Nothing BY <1>2, KnownTargets
<1>4. Good(a, t) BY <1>1, <1>2, <1>3, ReturnGood
<1>5. Known(a) = Known(app) /\ a.generation = app.generation BY RestOfTaken
<1>6. \/ a.cancelled = t /\ app' = Discard(a)
      \/ a.cancelled # t /\ app' = Fail(a)
      \/ a.cancelled # t /\ \E right \in BOOLEAN : app' = PushTab(a, t, right)
      \/ a.cancelled # t /\ app' = Spawn(b, "raw", t, Nothing, FALSE)
  BY DEF ResourceReady
<1> HIDE DEF a
<1>7. Good(b, t) /\ SameEngine(a, b) BY <1>4, AssetBusyGood
<1>8. Known(b) = Known(app) /\ b.generation > 0 BY <1>1, <1>5, <1>7 DEF SameEngine, Known
<1> HIDE DEF b, t
<1>9. CASE app' = Spawn(b, "raw", t, Nothing, FALSE)
  <2>1. OwnTask(b, Task(b, "raw", t, Nothing, FALSE))
    BY <1>2, <1>8 DEF OwnTask, Task
  <2>2. Good(Spawn(b, "raw", t, Nothing, FALSE), Nothing)
    BY <1>2, <1>7, <1>8, <2>1, SpawnGood DEF Work, Serves, Targets
  <2> QED BY <1>9, <2>2 DEF WInv
<1>10. CASE app' # Spawn(b, "raw", t, Nothing, FALSE)
  BY <1>2, <1>4, <1>5, <1>6, <1>10, PreviewGood
<1> QED BY <1>9, <1>10

LEMMA SummaryReadyGood ==
  ASSUME WInv, NEW task, SummaryReady(task)
  PROVE  WInv'
<1> DEFINE a == Return(Taken(task))
           t == task.target
<1>1. /\ task \in app.tasks /\ task.gen = app.generation
      /\ OwnTask(app, task) /\ task.kind = "summary"
  BY HandledTask DEF SummaryReady
<1>2. task.engine /\ t \in Known(app)
  BY <1>1, WindowAssumption DEF OwnTask, Targets
<1>3. Good(a, Nothing) BY <1>1, <1>2, ReturnGood DEF Serves
<1>4. Known(a) = Known(app) BY RestOfTaken
<1>5. app' \in {a, PushTab(a, t, TRUE)} BY DEF SummaryReady
<1> HIDE DEF a, t
<1>6. Good(PushTab(a, t, TRUE), Nothing)
  <2>1. Good(Show(a, t), Nothing) BY <1>2, <1>3, <1>4, ShowGood
  <2> DEFINE b == Show(a, t)
  <2>2. CASE b.pending # Nothing
    <3>1. b.cancelled = Nothing /\ b.pending.origin \in Known(b) \cup {Nothing}
      BY <2>1, <2>2, AwaitedFields
    <3> HIDE DEF b
    <3>2. Good(b, Nothing) BY <2>1 DEF b
    <3>3. Good(Finish(b, TRUE), Nothing) BY <3>1, <3>2, FinishGood
    <3> QED BY <3>2, <3>3 DEF PushTab, b
  <2>3. CASE b.pending = Nothing BY <2>1, <2>3 DEF PushTab
  <2> QED BY <2>2, <2>3
<1> QED BY <1>3, <1>5, <1>6 DEF WInv

LEMMA EngineReadyGood ==
  ASSUME WInv, NEW task, EngineReady(task)
  PROVE  WInv'
<1>1. task \in app.tasks /\ task.gen = app.generation /\ task.engine /\ task.kind = "ready"
  BY HandledTask DEF EngineReady, OwnTask
<1>2. Good(Return(Taken(task)), Nothing) BY <1>1, ReturnGood DEF Serves
<1> QED BY <1>2 DEF EngineReady, WInv

LEMMA SearchDoneGood ==
  ASSUME WInv, NEW task, SearchDone(task)
  PROVE  WInv'
<1> DEFINE a == Return(Taken(task))
<1>1. task \in app.tasks /\ task.gen = app.generation /\ task.engine /\ task.kind = "search"
  BY HandledTask DEF SearchDone, OwnTask
<1>2. Good(a, Nothing) BY <1>1, ReturnGood DEF Serves
<1>3. app' = [a EXCEPT !.searching = FALSE] BY DEF SearchDone
<1> HIDE DEF a
<1> QED BY <1>2, <1>3, SearchingGood DEF WInv

LEMMA SearchServesGood ==
  ASSUME WInv, NEW task, SearchServes(task)
  PROVE  WInv'
<1> DEFINE b == [app EXCEPT !.queued = Nothing]
<1>1. Good(b, Nothing) /\ SameEngine(app, b) BY UnqueueGood
<1>2. app' = Spawn(b, "link", app.queued.target, app.queued.origin, FALSE)
  BY DEF SearchServes
<1>3. app.queued.target \in Classes /\ app.queued.origin \in Known(app)
  BY Fields DEF SearchServes
<1>4. app.generation > 0 BY HandledTask DEF SearchServes
<1> HIDE DEF b
<1>5. Known(b) = Known(app) /\ b.generation > 0 BY <1>1, <1>4 DEF SameEngine, Known
<1>6. Good(Spawn(b, "link", app.queued.target, app.queued.origin, FALSE), Nothing)
  BY <1>1, <1>3, <1>5, LinkGood
<1> QED BY <1>2, <1>6 DEF WInv

\* The invariant of the window, one lemma for each action.
LEMMA WindowInvariance == WindowSpec => []WInv
<1>1. WInv /\ [WindowNext]_app => WInv'
  <2> SUFFICES ASSUME WInv, [WindowNext]_app PROVE WInv'
    OBVIOUS
  <2>1. CASE UNCHANGED app BY <2>1 DEF WInv
  <2>2. CASE User
    <3>1. CASE Open BY <3>1, OpenGood
    <3>2. CASE StartSearch BY <3>2, StartSearchGood
    <3>3. CASE UseEngine BY <3>3, UseEngineGood DEF UseEngine
    <3>4. ASSUME NEW t \in Targets, ChooseTarget(t) PROVE WInv' BY <3>4, ChooseTargetGood
    <3>5. ASSUME NEW t \in Targets, SelectTab(t) PROVE WInv' BY <3>5, SelectTabGood
    <3>6. ASSUME NEW t \in Targets, OpenHit(t) PROVE WInv' BY <3>6, OpenHitGood
    <3>7. ASSUME NEW t \in Classes, FollowLink(t) PROVE WInv' BY <3>7, FollowLinkGood
    <3>8. ASSUME NEW t \in Classes, FollowGraph(t) PROVE WInv' BY <3>8, FollowGraphGood
    <3>9. ASSUME NEW t \in Summaries, ChooseSummary(t) PROVE WInv' BY <3>9, ChooseSummaryGood
    <3>10. ASSUME NEW forward \in BOOLEAN, GoHistory(forward) PROVE WInv'
      BY <3>10, GoHistoryGood
    <3>11. ASSUME NEW closed, CloseTabs(closed) PROVE WInv' BY <3>11, CloseTabsGood
    <3> QED
      BY <2>2, <3>1, <3>2, <3>3, <3>4, <3>5, <3>6, <3>7, <3>8, <3>9, <3>10, <3>11 DEF User
  <2>3. CASE Events
    <3>1. CASE ServeQueued BY <3>1, ServeQueuedGood
    <3>2. ASSUME NEW t \in Files, RefreshPreview(t) PROVE WInv'
      BY <3>2, UseEngineGood DEF RefreshPreview
    <3>3. ASSUME NEW task \in app.tasks, Deliver(task) PROVE WInv'
      <4>1. CASE Ignored(task) BY <4>1, IgnoredGood
      <4>2. CASE Opened(task) BY <4>2, OpenedGood
      <4>3. CASE SourceReady(task) BY <4>3, SourceReadyGood
      <4>4. CASE Navigated(task) BY <4>4, NavigatedGood
      <4>5. CASE AssetReady(task) BY <4>5, AssetReadyGood
      <4>6. CASE ResourceReady(task) BY <4>6, ResourceReadyGood
      <4>7. CASE SummaryReady(task) BY <4>7, SummaryReadyGood
      <4>8. CASE EngineReady(task) BY <4>8, EngineReadyGood
      <4>9. CASE SearchDone(task) BY <4>9, SearchDoneGood
      <4> QED
        BY <3>3, <4>1, <4>2, <4>3, <4>4, <4>5, <4>6, <4>7, <4>8, <4>9 DEF Deliver
    <3>4. ASSUME NEW task \in app.tasks, ArchiveReady(task) PROVE WInv'
      BY <3>4, ArchiveReadyGood
    <3>5. ASSUME NEW task \in app.tasks, SearchServes(task) PROVE WInv'
      BY <3>5, SearchServesGood
    <3> QED BY <2>3, <3>1, <3>2, <3>3, <3>4, <3>5 DEF Events
  <2> QED BY <2>1, <2>2, <2>3 DEF WindowNext
<1> QED BY InitGood, <1>1, PTL DEF WindowSpec

\* The fields of App stay what ui.rs declares them to be, and the jumps that are kept stay
\* within their number (finish_history, the links in events).
THEOREM WindowTypeCorrect == WindowSpec => []WindowTypeOK
<1>1. WInv => WindowTypeOK
  BY Fields, KnownTargets, AppsMonotone DEF WindowTypeOK, Bounded
<1> QED BY <1>1, WindowInvariance, PTL

\* The engine of the open project is in the window or with exactly one of its threads, and
\* the window is busy exactly then, whatever is clicked while events of this and of earlier
\* projects are under way (App::events, decompile, start_search, navigate in ui.rs).
THEOREM EngineNeverLost == WindowSpec => []EngineOnce
<1>1. WInv => EngineOnce
  <2> SUFFICES ASSUME WInv, app.project
               PROVE  /\ Cardinality(Borrowers) = IF app.engine THEN 0 ELSE 1
                      /\ app.busy <=> ~app.engine
    BY DEF EngineOnce
  <2>1. Borrowers = Lenders(app) BY DEF Borrowers, Lenders, Current
  <2>2. EngineOK(app) BY Fields
  <2>3. CASE app.engine
    <3>1. Borrowers = {} BY <2>1, <2>2, <2>3 DEF EngineOK
    <3> QED BY <2>2, <2>3, <3>1, FS_EmptySet DEF EngineOK
  <2>4. CASE ~app.engine
    <3>1. PICK x : Borrowers = {x} BY <2>1, <2>2, <2>4 DEF EngineOK
    <3>2. Cardinality(Borrowers) = 1 BY <3>1, FS_Singleton
    <3> QED BY <2>2, <2>4, <3>2 DEF EngineOK
  <2> QED BY <2>3, <2>4
<1> QED BY <1>1, WindowInvariance, PTL

\* A jump to a class or file that is awaited, or was given up, has a thread of the project
\* whose event ends it (choose_target, go_history, discard_cancelled_history in ui.rs).
THEOREM JumpsAreServed == WindowSpec => []JumpsServed
<1>1. WInv => JumpsServed
  BY WindowAssumption DEF WInv, Good, JumpsOK, Awaited, ServedIn, JumpsServed, Serving,
     Current, Targets
<1> QED BY <1>1, WindowInvariance, PTL
=============================================================================
