------------------------------ MODULE Exchange ------------------------------
(***************************************************************************)
(* What a served project promises to a client of its socket: a connection  *)
(* is served or refused, gets at most one answer, and when the client      *)
(* hangs up the server does not stay with it.  It abstracts Requests, and  *)
(* the gateway is checked against it.                                      *)
(***************************************************************************)
CONSTANT Connections

VARIABLES
  gone,   \* the server does not listen any more
  life,   \* where each connection is
  served, \* the connections the server answered with a result
  peer,   \* the client's end of each connection
  sent    \* the connections with a whole frame to read

exchangeVars == <<gone, life, served, peer, sent>>

ExchangeInit ==
  /\ gone = FALSE
  /\ life = [c \in Connections |-> "none"]
  /\ served = {}
  /\ peer = [c \in Connections |-> "none"]
  /\ sent = {}

Connect(c) ==
  /\ life[c] = "none" /\ ~gone
  /\ life' = [life EXCEPT ![c] = "queued"]
  /\ peer' = [peer EXCEPT ![c] = "open"]
  /\ UNCHANGED <<gone, served, sent>>

SendFrame(c) ==
  /\ peer[c] = "open" /\ c \notin sent
  /\ sent' = sent \cup {c}
  /\ UNCHANGED <<gone, life, served, peer>>

HangUp(cs) ==
  /\ peer' = [c \in Connections |->
                IF c \in cs /\ peer[c] = "open" THEN "closed" ELSE peer[c]]
  /\ UNCHANGED <<gone, life, served, sent>>

Serve(c) ==
  /\ life[c] = "queued" /\ ~gone
  /\ life' = [life EXCEPT ![c] = "running"]
  /\ UNCHANGED <<gone, served, peer, sent>>

Refuse(c) ==
  /\ life[c] = "queued" /\ ~gone
  /\ life' = [life EXCEPT ![c] = "ended"]
  /\ UNCHANGED <<gone, served, peer, sent>>

\* The connection ends with a result, with an error, or after a panic without an answer.
End(c) ==
  /\ life[c] = "running"
  /\ life' = [life EXCEPT ![c] = "ended"]
  /\ \/ UNCHANGED served
     \/ c \in sent /\ served' = served \cup {c}
  /\ UNCHANGED <<gone, peer, sent>>

Leave == gone' = TRUE /\ UNCHANGED <<life, served, peer, sent>>

Client ==
  \/ \E c \in Connections : Connect(c) \/ SendFrame(c)
  \/ \E cs \in SUBSET Connections : HangUp(cs)

Server == Leave \/ \E c \in Connections : Serve(c) \/ Refuse(c) \/ End(c)

ExchangeSafety == ExchangeInit /\ [][Client \/ Server]_exchangeVars

ExchangeSpec ==
  /\ ExchangeSafety
  /\ \A c \in Connections : WF_exchangeVars(End(c) /\ peer[c] = "closed")

(* The client sees the end of the connection. *)
Over(c) == life[c] = "ended" \/ (life[c] = "queued" /\ gone)
=============================================================================
