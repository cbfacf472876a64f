---------------------------- MODULE MCBusClient -----------------------------
(* Instances of BusClient for TLC: a job whose handler may make the call    *)
(* Inner while another task of the app makes the call Outer.                *)
EXTENDS BusClient

CONSTANTS Inner, Outer, Caller

ASSUME CallIds = {Inner, Outer} /\ Jobs = {Caller}

MCNested == [j \in Jobs |-> Inner]

=============================================================================
