----------------------------- MODULE RpcService -----------------------------
(***************************************************************************)
(* What a server with a fixed pool of handlers promises to its callers:    *)
(* a connection waits, is served by one handler at a time and is closed    *)
(* once; at most NumHandlers connections are open at a time; a request is  *)
(* answered at most once, and only on an open connection.                  *)
(***************************************************************************)
EXTENDS Naturals, FiniteSets

CONSTANTS Conns, NumHandlers

VARIABLES
    phase,   \* each connection: "away", "queued", "open" or "closed"
    asked    \* the connections with a request that has no answer yet

serviceVars == <<phase, asked>>

Move(c, from, to) ==
    /\ phase[c] = from
    /\ phase' = [phase EXCEPT ![c] = to]

Arrive(c) == Move(c, "away", "queued") /\ UNCHANGED asked

Open(c) ==
    /\ Move(c, "queued", "open")
    /\ Cardinality({x \in Conns : phase[x] = "open"}) < NumHandlers
    /\ UNCHANGED asked

Ask(c) ==
    /\ phase[c] \in {"queued", "open"} /\ c \notin asked
    /\ asked' = asked \cup {c}
    /\ UNCHANGED phase

Answer(c) ==
    /\ phase[c] = "open" /\ c \in asked
    /\ asked' = asked \ {c}
    /\ UNCHANGED phase

\* A request that has no answer yet dies with its connection.  A server of one
\* request per connection closes it with the answer.
Close(c) ==
    /\ Move(c, "open", "closed")
    /\ asked' = asked \ {c}

\* The service goes down: the connections it has not accepted are refused.
Refuse ==
    \E R \in SUBSET {c \in Conns : phase[c] = "queued"} :
      /\ phase' = [c \in Conns |-> IF c \in R THEN "closed" ELSE phase[c]]
      /\ asked' = asked \ R

ServiceInit == phase = [c \in Conns |-> "away"] /\ asked = {}

ServiceNext ==
    \/ \E c \in Conns : Arrive(c) \/ Open(c) \/ Ask(c) \/ Answer(c) \/ Close(c)
    \/ Refuse

ServiceSpec == ServiceInit /\ [][ServiceNext]_serviceVars
=============================================================================
