---------------------------- MODULE MCAppCalls ------------------------------
(***************************************************************************)
(* An instance of AppCalls for TLC: one service, whose app has just been    *)
(* replaced.  The run starts where the first connection has read a request  *)
(* and is about to stop its writer, and its successor is serving; the host  *)
(* may register a service of the same name in process.                      *)
(***************************************************************************)
EXTENDS AppCalls

CONSTANTS First, Second, Service, Early

ASSUME Conns = {First, Second} /\ Services = {Service} /\ Early \in Apped

MCCatalog == [c \in Conns |-> "open"]

MCLocalCatalog == [s \in LocalServices |-> "auth"]

\* A reachable state.
Replaced ==
    /\ tokens = [s \in Services |-> 0]
    /\ issued = MaxTokens
    /\ owner = [t \in 1..MaxTokens |-> Service]
    /\ phase = [c \in Conns |-> IF c = First THEN "unlisted" ELSE "serving"]
    /\ svc = [c \in Conns |-> Service]
    /\ tok = [c \in Conns |-> IF c = First THEN 1 ELSE 2]
    /\ gen = [c \in Conns |-> IF c = First THEN 1 ELSE 2]
    /\ nextGen = 2
    /\ entries = [s \in Services |-> Second]
    /\ sessions = {<<Service, 2, Second>>}
    /\ writerUp = Conns
    /\ caps = [s \in Services |-> None]
    /\ probe = [c \in Conns |-> "done"]
    /\ probeBy = [c \in Conns |-> c]
    /\ localMethods = {}
    /\ localHandlers = {}
    /\ CallsInit
    /\ stage = [k \in Apped |-> IF k = Early THEN "read" ELSE "none"]
    /\ origin = [k \in Apped |-> IF k = Early THEN <<First, 1>> ELSE None]
    /\ asked = [c \in Conns |-> IF c = First THEN 1 ELSE 0]
    /\ replies = [c \in Conns |-> {}]
    /\ heard = [k \in Apped |-> None]

MCSpec == Replaced /\ [][AppNext]_allVars /\ AppFairness

=============================================================================
