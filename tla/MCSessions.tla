----------------------------- MODULE MCSessions -----------------------------
(* Instances of Sessions for TLC: two services and two connections, so that  *)
(* a service can be re-registered by a successor and a connection can ask    *)
(* for the other service's name.                                             *)
EXTENDS Sessions, TLC

\* Only ProbeLocal reads what the host registers, so it may as well be registered
\* right before that: the catalogue first of all, the handler while a probe is about
\* to look for it.
HostWaits ==
    /\ localMethods' = LocalServices
    /\ localHandlers' # localHandlers => \E c \in Conns : probe[c] = "started"

MCFairSpec == Init /\ [][Next /\ HostWaits]_sessionVars /\ Fairness

=============================================================================
