------------------------------ MODULE MCCalls -------------------------------
(***************************************************************************)
(* Instances of Calls for TLC: one service, two connections, the second the *)
(* successor of the first.  To leave room for the calls, the runs start     *)
(* where the first is serving (its capability probe has failed) and the     *)
(* second has presented its token and is about to be registered.  The run   *)
(* calls_ended takes Second = First, a single connection.                   *)
(***************************************************************************)
EXTENDS Calls

\* The two connections and their service.
CONSTANTS First, Second, Service

ASSUME Conns = {First, Second} /\ Services = {Service}

\* The successor asks for authentication where its predecessor did not.
MCCatalog == [c \in Conns |-> IF c = First THEN "open" ELSE "auth"]

MCLocalCatalog == [s \in LocalServices |-> "auth"]

\* A reachable state of Sessions.
Replacing ==
    /\ tokens = [s \in Services |-> 0]
    /\ issued = MaxTokens
    /\ owner = [t \in 1..MaxTokens |-> Service]
    /\ phase = [c \in Conns |-> IF c = First THEN "serving" ELSE "admitted"]
    /\ svc = [c \in Conns |-> Service]
    /\ tok = [c \in Conns |-> IF c = First THEN 1 ELSE 2]
    /\ gen = [c \in Conns |-> IF c = First THEN 1 ELSE 0]
    /\ nextGen = 1
    /\ entries = [s \in Services |-> First]
    /\ sessions = {<<Service, 1, First>>}
    /\ writerUp = {First}
    /\ caps = [s \in Services |-> None]
    /\ probe = [c \in Conns |-> IF c = First THEN "done" ELSE "none"]
    /\ probeBy = [c \in Conns |-> IF c = First THEN First ELSE None]
    /\ localMethods = {}
    /\ localHandlers = {}

MCInit == Replacing /\ CallsInit

\* The successor's capability probe only reads the registry and fills the cache,
\* which a call only logs about: here it is not scheduled.
ProbesWait == \A c \in Conns : probe[c] = "started" => probe'[c] = "started"

MCNext ==
    \/ Next /\ ProbesWait /\ UNCHANGED callVars
    \/ CallsNext

MCSpec == MCInit /\ [][MCNext]_vars

MCFairSpec == MCSpec /\ SysFairness

=============================================================================
