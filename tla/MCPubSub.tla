------------------------------ MODULE MCPubSub ------------------------------
(***************************************************************************)
(* An instance of PubSub for TLC: a publisher, a subscriber and the         *)
(* subscriber's successor.  The run starts where the first two are serving  *)
(* (their capability probes have failed) and the successor has taken        *)
(* its generation.  Every connection may subscribe and unsubscribe.         *)
(***************************************************************************)
EXTENDS PubSub

CONSTANTS Publisher, First, Second, Source, Sink, Topic, Other, Prefix

ASSUME /\ Conns = {Publisher, First, Second} /\ Services = {Source, Sink}
       /\ Topics = {Topic, Other} /\ Prefixes = {Prefix}

MCStartsWith == {<<Topic, Prefix>>}

\* A reachable state of Sessions.
Serving ==
    LET up == {Publisher, First} IN
    /\ tokens = [s \in Services |-> 0]
    /\ issued = MaxTokens
    /\ owner = [t \in 1..MaxTokens |-> IF t = 1 THEN Source ELSE Sink]
    /\ phase = [c \in Conns |-> IF c \in up THEN "serving" ELSE "numbered"]
    /\ svc = [c \in Conns |-> IF c = Publisher THEN Source ELSE Sink]
    /\ tok = [c \in Conns |-> IF c = Publisher THEN 1 ELSE IF c = First THEN 2 ELSE 3]
    /\ gen = [c \in Conns |-> IF c = Publisher THEN 1 ELSE IF c = First THEN 2 ELSE 3]
    /\ nextGen = 3
    /\ entries = [s \in Services |-> IF s = Source THEN Publisher ELSE First]
    /\ sessions = {<<Source, 1, Publisher>>, <<Sink, 2, First>>}
    /\ writerUp = up
    /\ caps = [s \in Services |-> None]
    /\ probe = [c \in Conns |-> IF c \in up THEN "done" ELSE "none"]
    /\ probeBy = [c \in Conns |-> IF c \in up THEN c ELSE None]
    /\ localMethods = {}
    /\ localHandlers = {}

MCInit == Serving /\ PubSubInit

\* The successor's capability probe touches nothing of publish and subscribe:
\* here it is not scheduled.
ProbesWait == \A c \in Conns : probe[c] = "started" => probe'[c] = "started"

MCSpec == MCInit /\ [][PSNext /\ ProbesWait]_psVars /\ PSFairness

=============================================================================
