---------------------------- MODULE RpcContract -----------------------------
(***************************************************************************)
(* What Broker::call_with_timeout promises its callers: a call begins once *)
(* and ends once; a handler runs at most once for it, perhaps only after   *)
(* the caller gave up; and the caller is given an answer only if a handler *)
(* ran for this very call.                                                 *)
(***************************************************************************)
CONSTANT Calls

VARIABLES
    status,   \* idle, active or done, for every call
    ran,      \* the calls a handler was started for
    outcome   \* "none" before the end, then "answer" or "failure"

rpcVars == <<status, ran, outcome>>

Init ==
    /\ status = [k \in Calls |-> "idle"]
    /\ ran = {}
    /\ outcome = [k \in Calls |-> "none"]

\* The caller's future is polled for the first time.
Begin(k) ==
    /\ status[k] = "idle"
    /\ status' = [status EXCEPT ![k] = "active"]
    /\ UNCHANGED <<ran, outcome>>

\* A handler is started for the call.
Run(k) ==
    /\ status[k] # "idle"
    /\ k \notin ran
    /\ ran' = ran \union {k}
    /\ UNCHANGED <<status, outcome>>

\* The call returns a handler's answer.
Succeed(k) ==
    /\ status[k] = "active"
    /\ k \in ran
    /\ status' = [status EXCEPT ![k] = "done"]
    /\ outcome' = [outcome EXCEPT ![k] = "answer"]
    /\ UNCHANGED ran

\* The call returns an error or is dropped by its caller.
Fail(k) ==
    /\ status[k] = "active"
    /\ status' = [status EXCEPT ![k] = "done"]
    /\ outcome' = [outcome EXCEPT ![k] = "failure"]
    /\ UNCHANGED ran

Next == \E k \in Calls : Begin(k) \/ Run(k) \/ Succeed(k) \/ Fail(k)

Spec == Init /\ [][Next]_rpcVars

=============================================================================
