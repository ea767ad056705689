------------------------------- MODULE Gateway -------------------------------
(***************************************************************************)
(* The MCP gateway (mcp_gateway.rs) and the server it asks (Exchange).     *)
(*                                                                         *)
(* The main thread of the gateway reads messages of the client: calls and  *)
(* cancellations.  A call of an asynchronous tool becomes a job with a     *)
(* thread and a RequestControl, any other call blocks the main thread.     *)
(* Each makes one connection to the server, which names it here.  A        *)
(* cancellation sets the flag of a job and then, under the lock of the     *)
(* control, shuts its connection down.  At the end of the input every job  *)
(* is cancelled and the process exits; it may also be killed.              *)
(***************************************************************************)
EXTENDS Naturals, FiniteSets, Exchange

CONSTANTS
  Nobody,  \* no call
  Ids,     \* the ids of the client's calls
  MaxJobs  \* how many jobs may be active: 8

ASSUME GatewayAssumption == Nobody \notin Connections /\ Ids # {}

VARIABLES
  main,      \* where the main thread is
  waits,     \* the call that blocks it
  targets,   \* the jobs it has still to cancel
  hanging,   \* the one whose flag is set and whose connection is not yet shut down
  job,       \* where each call is, its id and what it has got
  flagged,   \* the jobs with RequestControl::cancelled
  attached,  \* the jobs with a RequestControl::connection
  answer     \* what the gateway answers to each call

gatewayMain == <<main, waits, targets, hanging>>
gatewayVars == <<gatewayMain, job, flagged, attached, answer>>
vars == <<exchangeVars, gatewayVars>>

\* The stages of a call before its answer.
Active == {"connecting", "attaching", "sending", "awaiting", "closing", "deciding"}

TypeOK ==
  /\ main \in {"reading", "calling", "cancelling", "ending", "exited"}
  /\ waits \in Connections \cup {Nobody} /\ hanging \in Connections \cup {Nobody}
  /\ targets \subseteq Connections
  /\ flagged \subseteq Connections /\ attached \subseteq Connections
  /\ job \in [Connections -> [at : Active \cup {"none", "answered"}, id : Ids,
                              got : {"none", "data", "error"}]]
  /\ answer \in [Connections -> {"none", "data", "error", "cancelled"}]

NoJob == [at |-> "none", id |-> CHOOSE i \in Ids : TRUE, got |-> "none"]

Init ==
  /\ ExchangeInit
  /\ main = "reading" /\ waits = Nobody
  /\ targets = {} /\ hanging = Nobody
  /\ job = [j \in Connections |-> NoJob]
  /\ flagged = {} /\ attached = {}
  /\ answer = [c \in Connections |-> "none"]

At(j, place) == job[j].at = place
Moves(j, place) == job' = [job EXCEPT ![j] = [@ EXCEPT !.at = place]]
Gets(j, result, place) == job' = [job EXCEPT ![j] = [@ EXCEPT !.at = place, !.got = result]]

\* Jobs, without those that have answered: start reaps them before it looks at the others,
\* and to cancel them changes nothing.
Jobs == {j \in Connections : job[j].at \in Active /\ j # waits}

-----------------------------------------------------------------------------
(* The main thread *)

\* Jobs::start accepts the call.
StartJob(j) ==
  /\ main = "reading" /\ job[j].at = "none"
  /\ Cardinality(Jobs) < MaxJobs
  /\ \E i \in Ids :
       /\ \A k \in Jobs : job[k].id # i
       /\ job' = [job EXCEPT ![j] = [@ EXCEPT !.at = "connecting", !.id = i]]
  /\ UNCHANGED <<exchangeVars, gatewayMain, flagged, attached, answer>>

\* It refuses a duplicate id, a job too many, or the arguments.
RefuseJob(j) ==
  /\ main = "reading" /\ job[j].at = "none"
  /\ Moves(j, "answered")
  /\ answer' = [answer EXCEPT ![j] = "error"]
  /\ UNCHANGED <<exchangeVars, gatewayMain, flagged, attached>>

\* gateway_call, which blocks the main thread until its answer.
Call(j) ==
  /\ main = "reading" /\ job[j].at = "none"
  /\ main' = "calling" /\ waits' = j
  /\ Moves(j, "connecting")
  /\ UNCHANGED <<exchangeVars, targets, hanging, flagged, attached, answer>>

\* A cancellation of a job; one of an unknown id changes nothing.
CancelNotified(j) ==
  /\ main = "reading" /\ j \in Jobs
  /\ targets' = {k \in Jobs : job[k].id = job[j].id}
  /\ main' = "cancelling"
  /\ UNCHANGED <<exchangeVars, waits, hanging, job, flagged, attached, answer>>

\* The end of the input: Jobs::drop.
EndInput ==
  /\ main = "reading"
  /\ main' = "ending"
  /\ targets' = Jobs
  /\ UNCHANGED <<exchangeVars, waits, hanging, job, flagged, attached, answer>>

\* RequestControl::cancel, first the flag.
FlagJob(j) ==
  /\ j \in targets /\ hanging = Nobody
  /\ flagged' = flagged \cup {j}
  /\ hanging' = j
  /\ UNCHANGED <<exchangeVars, main, waits, targets, job, attached, answer>>

\* Then the connection, if there is one.
ShutDownJob(j) ==
  /\ hanging = j
  /\ hanging' = Nobody
  /\ targets' = targets \ {j}
  /\ main' = IF main = "cancelling" /\ targets = {j} THEN "reading" ELSE main
  /\ IF j \in attached THEN HangUp({j}) ELSE UNCHANGED exchangeVars
  /\ UNCHANGED <<waits, job, flagged, attached, answer>>

\* The process exits after Jobs::drop, or is killed: its sockets are closed.
Exit ==
  /\ main # "exited"
  /\ main' = "exited"
  /\ HangUp(Connections)
  /\ waits' = Nobody /\ targets' = {} /\ hanging' = Nobody
  /\ job' = [j \in Connections |-> NoJob]
  /\ flagged' = {} /\ attached' = {}
  /\ answer' = [j \in Connections |-> "none"]

-----------------------------------------------------------------------------
(* A call: remote_controlled and what the job does with its result *)

OpenConnection(j) ==
  /\ At(j, "connecting")
  /\ Connect(j)
  /\ Moves(j, IF j = waits THEN "sending" ELSE "attaching")
  /\ UNCHANGED <<gatewayMain, flagged, attached, answer>>

ConnectFails(j) ==
  /\ At(j, "connecting")
  /\ Gets(j, "error", "deciding")
  /\ UNCHANGED <<exchangeVars, gatewayMain, flagged, attached, answer>>

\* Fault: a cancellation before the connection is attached is forgotten.
AttachMutant(j) ==
  /\ At(j, "attaching")
  /\ Moves(j, "sending") /\ attached' = attached \cup {j}
  /\ UNCHANGED <<exchangeVars, gatewayMain, flagged, answer>>

\* RequestControl::attach, under the lock of the control.
Attach(j) ==
  /\ At(j, "attaching")
  /\ IF j \in flagged
       THEN Gets(j, "error", "closing") /\ UNCHANGED attached
       ELSE Moves(j, "sending") /\ attached' = attached \cup {j}
  /\ UNCHANGED <<exchangeVars, gatewayMain, flagged, answer>>

Send(j) ==
  /\ At(j, "sending")
  /\ IF peer[j] = "open" THEN SendFrame(j) /\ Moves(j, "awaiting")
                         ELSE UNCHANGED exchangeVars /\ Gets(j, "error", "closing")
  /\ UNCHANGED <<gatewayMain, flagged, attached, answer>>

ReadReply(j) ==
  /\ At(j, "awaiting")
  /\ Over(j) \/ j \in flagged
  /\ Gets(j, IF j \in served \ flagged THEN "data" ELSE "error", "closing")
  /\ UNCHANGED <<exchangeVars, gatewayMain, flagged, attached, answer>>

\* Fault: a job waits without a deadline.
ReadTimesOutMutant(j) ==
  /\ At(j, "awaiting") /\ j = waits
  /\ Gets(j, "error", "closing")
  /\ UNCHANGED <<exchangeVars, gatewayMain, flagged, attached, answer>>

\* 120 seconds without an answer, or the connection breaks.
ReadTimesOut(j) ==
  /\ At(j, "awaiting")
  /\ Gets(j, "error", "closing")
  /\ UNCHANGED <<exchangeVars, gatewayMain, flagged, attached, answer>>

\* Fault: the job forgets its connection, but does not close it.
CloseConnectionMutant(j) ==
  /\ At(j, "closing")
  /\ attached' = attached \ {j}
  /\ Moves(j, "deciding")
  /\ UNCHANGED <<exchangeVars, gatewayMain, flagged, answer>>

\* Every copy of the socket is dropped.
CloseConnection(j) ==
  /\ At(j, "closing")
  /\ HangUp({j})
  /\ attached' = attached \ {j}
  /\ Moves(j, "deciding")
  /\ UNCHANGED <<gatewayMain, flagged, answer>>

\* Fault: the answer is what the connection gave, cancelled or not.
VerdictMutant(j) == job[j].got

Verdict(j) == IF j \in flagged THEN "cancelled" ELSE job[j].got

\* The result is decided and written; the main thread goes on if it waits for it.
Answer(j) ==
  /\ At(j, "deciding")
  /\ answer' = [answer EXCEPT ![j] = Verdict(j)]
  /\ job' = [job EXCEPT ![j] = [NoJob EXCEPT !.at = "answered"]]
  /\ IF j = waits THEN main' = "reading" /\ waits' = Nobody ELSE UNCHANGED <<main, waits>>
  /\ UNCHANGED <<exchangeVars, targets, hanging, flagged, attached>>

JobSteps(j) ==
  \/ OpenConnection(j) \/ ConnectFails(j) \/ Attach(j) \/ Send(j) \/ ReadReply(j)
  \/ ReadTimesOut(j) \/ CloseConnection(j) \/ Answer(j)

Messages ==
  \/ EndInput
  \/ \E j \in Connections : StartJob(j) \/ RefuseJob(j) \/ Call(j) \/ CancelNotified(j)

Cancelling == \E j \in Connections : FlagJob(j) \/ ShutDownJob(j)

GatewayNext ==
  \/ Messages \/ Cancelling \/ Exit
  \/ \E j \in Connections : JobSteps(j)

Next == GatewayNext \/ (Server /\ UNCHANGED gatewayVars)

Spec == Init /\ [][Next]_vars

(* The client need not send anything, and nobody has to kill the process. *)
FairSpec ==
  /\ Spec
  /\ WF_vars(Cancelling)
  /\ WF_vars(Exit /\ main = "ending" /\ targets = {})
  /\ \A j \in Connections : WF_vars(JobSteps(j))
  /\ \A c \in Connections : WF_vars(End(c) /\ peer[c] = "closed" /\ UNCHANGED gatewayVars)

-----------------------------------------------------------------------------
(* Properties *)

(* RequestControl::cancel reaches the connection whenever it comes: when it has returned,
   the job has not attached a connection and never will, or its connection is closed. *)
CancelReaches ==
  \A j \in flagged \ {hanging} :
    peer[j] = "closed" \/ job[j].at \notin {"sending", "awaiting"}

(* A cancelled call is never answered as if it had succeeded by a job that still could
   tell, and data is answered only when the server sent data on this very connection. *)
AnswersHonest ==
  [][\A j \in Connections : answer'[j] = "data" /\ answer[j] # "data" =>
       j \notin flagged /\ j \in served /\ peer[j] = "closed"]_vars

(* Whatever the server does, every call is answered, unless the process exits first: a
   call that blocks the main thread never blocks the answers of the jobs. *)
CallsAnswered ==
  \A j \in Connections :
    job[j].at \in Active ~> answer[j] # "none" \/ main = "exited"

(* The cancellation of a job reaches the work in the server, over the connection: the
   request does not stay in a slot, the engine's queue or its work. *)
CancelStopsWork ==
  \A j \in Connections : j \in flagged ~> life[j] # "running"
=============================================================================
