------------------------------ MODULE AppCalls ------------------------------
(***************************************************************************)
(* Calls that apps make of one another: the Invoke arm of the reader loop  *)
(* in session.rs.  The arm spawns a task that splits `service.method`,     *)
(* calls Broker::call and answers on the originating connection's own      *)
(* channel, whatever has become of that connection.                        *)
(*                                                                         *)
(* The call an app makes is one of CallIds: the broker routes it like any  *)
(* other call, with the default timeout.  Every app numbers its requests   *)
(* from 1 (next_req in client.rs), so the two connections of a service use *)
(* the same ids.  The caller_app_id the arm stamps on the call is read by  *)
(* nobody in the broker and is left out.                                   *)
(***************************************************************************)
EXTENDS Calls

CONSTANT Apped   \* the calls that apps make

ASSUME AppCallsAssumption == Apped \subseteq Timed /\ None \notin Conns \X Nat

VARIABLES
    stage,    \* the task of each call of an app
    origin,   \* the connection and the request id the call came with
    asked,    \* requests each app has made
    replies,  \* Response frames on the channel of each connection
    heard     \* what the app was told of its call

appVars == <<stage, origin, asked, replies, heard>>
allVars == <<vars, appVars>>

AppCallsInit ==
    /\ stage = [k \in Apped |-> "none"]
    /\ origin = [k \in Apped |-> None]
    /\ asked = [c \in Conns |-> 0]
    /\ replies = [c \in Conns |-> {}]
    /\ heard = [k \in Apped |-> None]

-----------------------------------------------------------------------------

\* The app at c sends an Invoke, the reader loop reads it and spawns the task.
ReadInvoke(c, k) ==
    /\ phase[c] = "serving" /\ stage[k] = "none"
    /\ asked' = [asked EXCEPT ![c] = @ + 1]
    /\ origin' = [origin EXCEPT ![k] = <<c, asked[c] + 1>>]
    /\ stage' = [stage EXCEPT ![k] = "read"]
    /\ UNCHANGED <<vars, replies, heard>>

\* Seeded fault: the answer goes to whoever is registered for the service now.
Answered_ByName(k, r) ==
    LET c == entries[svc[origin[k][1]]] IN
    IF c = None \/ ~ChannelOpen(c) THEN replies
    ELSE [replies EXCEPT ![c] = @ \union {[id |-> origin[k][2], call |-> k, outcome |-> r]}]

\* tx.send on the originating connection's channel; a closed one is ignored.
Answered(k, r) ==
    LET c == origin[k][1] IN
    IF ~ChannelOpen(c) THEN replies
    ELSE [replies EXCEPT ![c] = @ \union {[id |-> origin[k][2], call |-> k, outcome |-> r]}]

\* The method has no dot: BadRequest.
RouteMalformed(k) ==
    /\ stage[k] = "read"
    /\ stage' = [stage EXCEPT ![k] = "replied"]
    /\ replies' = Answered(k, "BadRequest")
    /\ UNCHANGED <<vars, origin, asked, heard>>

\* broker.call begins.
RouteInvoke(k, s) ==
    /\ stage[k] = "read"
    /\ LookupLocal(k, s)
    /\ stage' = [stage EXCEPT ![k] = "calling"]
    /\ UNCHANGED <<origin, asked, replies, heard>>

\* Seeded fault: only a call that succeeded is answered.
Reply_OkOnly(k) ==
    /\ stage[k] = "calling" /\ pc[k] = "done" /\ result[k] = "answer"
    /\ stage' = [stage EXCEPT ![k] = "replied"]
    /\ replies' = Answered(k, result[k])
    /\ UNCHANGED <<vars, origin, asked, heard>>

\* broker.call has returned; its result, answer or error, is sent.
Reply(k) ==
    /\ stage[k] = "calling" /\ pc[k] = "done"
    /\ stage' = [stage EXCEPT ![k] = "replied"]
    /\ replies' = Answered(k, result[k])
    /\ UNCHANGED <<vars, origin, asked, heard>>

\* The writer task writes the Response and the app wakes the caller that is
\* pending under its request id.
DeliverReply(c, f) ==
    /\ c \in writerUp /\ f \in replies[c]
    /\ replies' = [replies EXCEPT ![c] = @ \ {f}]
    /\ heard' = [k \in Apped |-> IF origin[k] = <<c, f.id>> /\ heard[k] = None
                                 THEN <<f.call, f.outcome>> ELSE heard[k]]
    /\ UNCHANGED <<vars, stage, origin, asked>>

-----------------------------------------------------------------------------

\* The task spawned for call k.
AppTask(k) == RouteMalformed(k) \/ Reply(k) \/ \E s \in Services : RouteInvoke(k, s)

\* The calls of apps begin with RouteInvoke, and no caller drops their future.
OwnCalls ==
    \A k \in Apped : /\ pc[k] = "idle" => pc'[k] = "idle"
                     /\ result'[k] # "Dropped"

AppNext ==
    \/ SysNext /\ OwnCalls /\ UNCHANGED appVars
    \/ \E k \in Apped : AppTask(k) \/ \E c \in Conns : ReadInvoke(c, k)
    \/ \E c \in Conns : \E f \in replies[c] : DeliverReply(c, f)

AppSpec == SysInit /\ AppCallsInit /\ [][AppNext]_allVars

\* The runtime polls the calls and the spawned tasks that are ready; nothing is
\* assumed of the sessions, the writers or the apps.
AppFairness ==
    /\ \A k \in CallIds : WF_allVars(CallStep(k) /\ UNCHANGED appVars)
    /\ \A k \in Apped : WF_allVars(AppTask(k))

-----------------------------------------------------------------------------

\* What an app is told of a call is the outcome of that very call, also while
\* its connection is being replaced by one that numbers its requests alike, and
\* it is told of an answer only if a handler ran (the tx of the Invoke arm).
AppCorrelation ==
    \A k \in Apped : heard[k] # None =>
        /\ heard[k] \in {<<k, result[k]>>, <<k, "BadRequest">>}
        /\ heard[k][2] = "answer" => k \in ran

\* Call k came on connection c.
From(k, c) == \E i \in 1..asked[c] : origin[k] = <<c, i>>

\* Every request of an app is answered, with an error if need be, as long as the
\* channel of the connection it came on is open.
AppCallsReturn ==
    \A k \in Apped :
        stage[k] = "read" ~> \/ \E c \in Conns : From(k, c) /\ \E f \in replies[c] : f.call = k
                             \/ \E c \in Conns : ~ChannelOpen(c) /\ From(k, c)

=============================================================================
