----------------------------- MODULE BusClient ------------------------------
(***************************************************************************)
(* The app's end of a connection (crates/client/src/client.rs): connecting *)
(* and the handshake, outbound calls (invoke), inbound ones                *)
(* (dispatch_invoke), the reader and writer tasks, shutdown and idle exit; *)
(* with the arm of the broker's reader loop that routes calls of apps      *)
(* (session.rs).  One client, one connection.                              *)
(*                                                                         *)
(* Frames from the broker are handled in the order they arrive, one at a   *)
(* time; frames to the broker are kept as a set, since it answers every    *)
(* Invoke from a task of its own.  A call stands for the payloads of its   *)
(* Invoke and of its answer, and is made once; a job is a method of the    *)
(* app, invoked by the broker again and again (Calls models how the broker *)
(* numbers those Invokes).  Frames the client drops are left out, and so   *)
(* is Ping, which the broker never sends.                                  *)
(***************************************************************************)
EXTENDS Naturals, Sequences, FiniteSets

CONSTANTS
    CallIds,    \* calls the app makes
    Jobs,       \* methods of the app that the broker invokes
    Nested,     \* the call the handler of each job may make, NoCall if none
    NoCall,
    Threshold   \* idle_exit in ticks of the clock

ASSUME ClientAssumption ==
    /\ Nested \in [Jobs -> CallIds \union {NoCall}]
    /\ NoCall \notin CallIds
    /\ \A i, j \in Jobs : Nested[i] = Nested[j] /\ Nested[i] # NoCall => i = j
    /\ Threshold \in Nat \ {0}

VARIABLES
    idle,      \* idle_exit is set
    retry,     \* reconnect_max_backoff is set and its deadline has not passed
    conn,      \* where establish and run_connection stand
    alive,     \* the stream still carries frames
    inbox,     \* frames the broker has sent, in order
    outbox,    \* frames in the client's channel or written to the stream
    writerUp,  \* the writer task is running, its channel open
    nextReq,   \* BusClient.next_req_id
    pending,   \* BusClient.pending: <<request id, call>>
    cpc,       \* where invoke stands for each call
    creq,      \* the request id each call drew
    slot,      \* its oneshot channel: the answer sent, or NoCall
    result,    \* what it returned
    routing,   \* Invokes the broker is routing
    job,       \* where each job stands
    main,      \* the task that calls run_until_shutdown
    fired,     \* BusClient.shutdown_fired
    quiet      \* ticks since last_activity, at most Threshold

clientVars == <<idle, retry, conn, alive, inbox, outbox, writerUp, nextReq, pending, cpc, creq,
                slot, result, routing, job, main, fired, quiet>>

\* Groups that most actions leave alone.
connVars == <<idle, retry, conn>>
callVars == <<nextReq, pending, cpc, creq, slot, result>>
mainVars == <<main, fired, quiet>>

Init ==
    /\ idle \in BOOLEAN /\ retry \in BOOLEAN
    /\ conn = "connecting"
    /\ alive = FALSE /\ inbox = <<>> /\ outbox = {} /\ writerUp = FALSE
    /\ nextReq = 1 /\ pending = {}
    /\ cpc = [k \in CallIds |-> "idle"]
    /\ creq = [k \in CallIds |-> 0]
    /\ slot = [k \in CallIds |-> NoCall]
    /\ result = [k \in CallIds |-> "none"]
    /\ routing = {}
    /\ job = [j \in Jobs |-> "none"]
    /\ main = "busy" /\ fired = FALSE /\ quiet = 0

-----------------------------------------------------------------------------
(* establish.                                                              *)

\* Seeded fault: a transient failure is retried without looking at the clock.
MayRetry_Always == TRUE

\* A transient connect failure is retried until the deadline.
MayRetry == retry

\* The broker cannot be reached: retry after a sleep, or give up; an error that
\* is not transient ends establish at once.
ConnectFails ==
    /\ conn = "connecting"
    /\ \/ MayRetry /\ conn' = "backoff"
       \/ conn' = "failed"
    /\ UNCHANGED <<idle, retry, alive, inbox, outbox, writerUp, callVars, routing, job, mainVars>>

BackoffEnds ==
    /\ conn = "backoff"
    /\ conn' = "connecting"
    /\ UNCHANGED <<idle, retry, alive, inbox, outbox, writerUp, callVars, routing, job, mainVars>>

DeadlinePasses ==
    /\ conn \in {"connecting", "backoff"} /\ retry
    /\ retry' = FALSE
    /\ UNCHANGED <<idle, conn, alive, inbox, outbox, writerUp, callVars, routing, job, mainVars>>

\* Connected; the Hello is written.  There are no more retries.
SendHello ==
    /\ conn = "connecting"
    /\ conn' = "hello"
    /\ retry' = FALSE
    /\ UNCHANGED <<idle, alive, inbox, outbox, writerUp, callVars, routing, job, mainVars>>

\* The Hello could not be written, or the first reply is not a HelloAck.
HelloRefused ==
    /\ conn = "hello"
    /\ conn' = "failed"
    /\ UNCHANGED <<idle, retry, alive, inbox, outbox, writerUp, callVars, routing, job, mainVars>>

\* HelloAck: the client exists and run_connection starts its tasks.
HelloAcked ==
    /\ conn = "hello"
    /\ conn' = "up"
    /\ alive' = TRUE /\ writerUp' = TRUE
    /\ UNCHANGED <<idle, retry, inbox, outbox, callVars, routing, job, mainVars>>

-----------------------------------------------------------------------------
(* invoke.                                                                 *)

\* Seeded fault: the request id is read and not advanced.
StartInvoke_SameId(k) ==
    /\ cpc' = [cpc EXCEPT ![k] = "pended"]
    /\ creq' = [creq EXCEPT ![k] = nextReq]
    /\ pending' = {p \in pending : p[1] # nextReq} \union {<<nextReq, k>>}
    /\ UNCHANGED <<nextReq, slot, result>>

\* fetch_add on next_req_id and pending.insert; the id is private in between.
StartInvoke(k) ==
    /\ cpc' = [cpc EXCEPT ![k] = "pended"]
    /\ creq' = [creq EXCEPT ![k] = nextReq]
    /\ nextReq' = nextReq + 1
    /\ pending' = {p \in pending : p[1] # nextReq} \union {<<nextReq, k>>}
    /\ UNCHANGED <<slot, result>>

\* Some task of the app, not a handler, calls another service.
AppInvokes(k) ==
    /\ conn \in {"up", "lost"}
    /\ cpc[k] = "idle" /\ \A j \in Jobs : Nested[j] # k
    /\ StartInvoke(k)
    /\ UNCHANGED <<connVars, alive, inbox, outbox, writerUp, routing, job, mainVars>>

\* tx.send fails once the writer task has dropped the channel; the pending
\* entry is left behind then.
SendInvoke(k) ==
    /\ cpc[k] = "pended"
    /\ \/ /\ writerUp
          /\ outbox' = outbox \union {<<"invoke", creq[k], k>>}
          /\ cpc' = [cpc EXCEPT ![k] = "waiting"]
          /\ UNCHANGED result
       \/ /\ ~writerUp
          /\ cpc' = [cpc EXCEPT ![k] = "done"]
          /\ result' = [result EXCEPT ![k] = "ConnectionClosed"]
          /\ UNCHANGED outbox
    /\ UNCHANGED <<connVars, alive, inbox, writerUp, nextReq, pending, creq, slot, routing, job,
                   mainVars>>

\* The awaited channel yields: the answer, or an error if its sender was dropped.
\* The client, which the caller borrows, keeps the pending table alive.
ReceiveReply(k) ==
    /\ cpc[k] = "waiting"
    /\ slot[k] # NoCall \/ <<creq[k], k>> \notin pending
    /\ cpc' = [cpc EXCEPT ![k] = "done"]
    /\ result' = [result EXCEPT ![k] = IF slot[k] # NoCall THEN "answer" ELSE "ConnectionClosed"]
    /\ UNCHANGED <<connVars, alive, inbox, outbox, writerUp, nextReq, pending, creq, slot, routing,
                   job, mainVars>>

\* The app's own task drops the future while it waits.
CallerDrops(k) ==
    /\ cpc[k] = "waiting" /\ \A j \in Jobs : Nested[j] # k
    /\ cpc' = [cpc EXCEPT ![k] = "done"]
    /\ result' = [result EXCEPT ![k] = "Dropped"]
    /\ UNCHANGED <<connVars, alive, inbox, outbox, writerUp, nextReq, pending, creq, slot, routing,
                   job, mainVars>>

-----------------------------------------------------------------------------
(* dispatch_invoke, in a task of its own for every job.                    *)

\* The handler of job j calls another service.
HandlerInvokes(j) ==
    /\ job[j] = "running" /\ Nested[j] # NoCall
    /\ StartInvoke(Nested[j])
    /\ job' = [job EXCEPT ![j] = "calling"]
    /\ UNCHANGED <<connVars, alive, inbox, outbox, writerUp, routing, mainVars>>

\* The handler makes no call (or there is no handler of that name), or has its
\* call's outcome: the Response is sent, or lost if the channel is closed.
HandlerReturns(j) ==
    /\ \/ job[j] = "running"
       \/ job[j] = "calling" /\ cpc[Nested[j]] = "done"
    /\ job' = [job EXCEPT ![j] = "answered"]
    /\ outbox' = IF writerUp THEN outbox \union {<<"response", 0, j>>} ELSE outbox
    /\ UNCHANGED <<connVars, alive, inbox, writerUp, callVars, routing, mainVars>>

-----------------------------------------------------------------------------
(* run_connection and handle_inbound.                                      *)

\* Seeded fault: the reader awaits the handler of an Invoke before it goes on.
ReaderReady_Inline == conn = "up" /\ \A j \in Jobs : job[j] \notin {"running", "calling"}

\* The reader takes the next frame: a job never keeps it from doing so.
ReaderReady == conn = "up"

\* BusClient::shutdown: the first call wakes whoever is waiting.
Fire ==
    /\ fired' = TRUE
    /\ main' = IF ~fired /\ main = "waiting" THEN "returned" ELSE main

\* The next frame is f; what it does to the client is in the action.
Reads(kind) ==
    /\ ReaderReady
    /\ inbox # <<>> /\ Head(inbox)[1] = kind
    /\ inbox' = Tail(inbox)

\* Invoke: record_activity, and a task for the job.
ReadInvoke ==
    /\ Reads("invoke")
    /\ quiet' = 0
    /\ job' = [job EXCEPT ![Head(inbox)[3]] = "running"]
    /\ UNCHANGED <<connVars, alive, outbox, writerUp, callVars, routing, main, fired>>

\* Response: whoever is pending under its id gets it; an unknown id is dropped.
ReadResponse ==
    LET f == Head(inbox)
        waker == {p \in pending : p[1] = f[2]}
    IN  /\ Reads("response")
        /\ pending' = pending \ waker
        /\ slot' = [k \in CallIds |-> IF \E p \in waker : p[2] = k THEN f[3] ELSE slot[k]]
        /\ UNCHANGED <<connVars, alive, outbox, writerUp, nextReq, cpc, creq, result, routing, job,
                       mainVars>>

ReadShutdown ==
    /\ Reads("shutdown")
    /\ Fire
    /\ UNCHANGED <<connVars, alive, outbox, writerUp, callVars, routing, job, quiet>>

\* Seeded fault: the end of the connection is not passed on to shutdown.
ReaderEnds_Silent ==
    /\ ReaderReady /\ ~alive /\ inbox = <<>>
    /\ conn' = "lost"
    /\ writerUp' = FALSE
    /\ UNCHANGED <<idle, retry, alive, inbox, outbox, callVars, routing, job, mainVars>>

\* End of stream or a read error: shutdown, and the writer task is aborted.
ReaderEnds ==
    /\ ReaderReady /\ ~alive /\ inbox = <<>>
    /\ conn' = "lost"
    /\ Fire
    /\ writerUp' = FALSE
    /\ UNCHANGED <<idle, retry, alive, inbox, outbox, callVars, routing, job, quiet>>

\* The writer task ends on a write error while the reader goes on.
WriterFails ==
    /\ writerUp
    /\ writerUp' = FALSE
    /\ UNCHANGED <<connVars, alive, inbox, outbox, callVars, routing, job, mainVars>>

-----------------------------------------------------------------------------
(* The app's main task.                                                    *)

\* run_until_shutdown creates the Notified future, which a notify_waiters from
\* now on completes; an earlier one has left no trace.
run_until_shutdown ==
    /\ conn \in {"up", "lost"} /\ main = "busy"
    /\ main' = "waiting"
    /\ UNCHANGED <<connVars, alive, inbox, outbox, writerUp, callVars, routing, job, fired, quiet>>

\* Seeded fault: an app that was never called does not count as idle.
IdlePoll_AfterUse ==
    /\ main = "waiting" /\ idle /\ quiet = Threshold
    /\ \E j \in Jobs : job[j] # "none"
    /\ main' = "returned"
    /\ UNCHANGED <<connVars, alive, inbox, outbox, writerUp, callVars, routing, job, fired, quiet>>

\* The idle poll finds last_activity old enough.
IdlePoll ==
    /\ main = "waiting" /\ idle /\ quiet = Threshold
    /\ main' = "returned"
    /\ UNCHANGED <<connVars, alive, inbox, outbox, writerUp, callVars, routing, job, fired, quiet>>

ClockTick ==
    /\ idle /\ conn \in {"up", "lost"} /\ quiet < Threshold
    /\ quiet' = quiet + 1
    /\ UNCHANGED <<connVars, alive, inbox, outbox, writerUp, callVars, routing, job, main, fired>>

\* The app calls shutdown itself.
shutdown ==
    /\ conn \in {"up", "lost"} /\ ~fired
    /\ Fire
    /\ UNCHANGED <<connVars, alive, inbox, outbox, writerUp, callVars, routing, job, quiet>>

\* The process ends once run_until_shutdown has returned.
AppExits ==
    /\ main = "returned" /\ conn # "exited"
    /\ conn' = "exited"
    /\ alive' = FALSE /\ inbox' = <<>> /\ writerUp' = FALSE
    /\ UNCHANGED <<idle, retry, outbox, callVars, routing, job, mainVars>>

-----------------------------------------------------------------------------
(* The broker's end.                                                       *)

\* The stream breaks or the broker closes it; what is under way may be lost.
StreamEnds ==
    /\ alive
    /\ alive' = FALSE
    /\ inbox' \in {inbox, <<>>}
    /\ UNCHANGED <<connVars, outbox, writerUp, callVars, routing, job, mainVars>>

\* call_with_timeout sends an Invoke: any number of them for a job, one after the
\* other, as long as its handler has not made the one call it can make.
BrokerInvokes(j) ==
    /\ alive
    /\ \/ job[j] = "none"
       \/ job[j] = "answered" /\ (Nested[j] = NoCall \/ cpc[Nested[j]] = "idle")
    /\ job' = [job EXCEPT ![j] = "sent"]
    /\ inbox' = Append(inbox, <<"invoke", 0, j>>)
    /\ UNCHANGED <<connVars, alive, outbox, writerUp, callVars, routing, mainVars>>

\* shutdown_service.  A second Shutdown would do nothing.
BrokerShutdown ==
    /\ alive /\ ~fired /\ \A i \in DOMAIN inbox : inbox[i][1] # "shutdown"
    /\ inbox' = Append(inbox, <<"shutdown", 0, 0>>)
    /\ UNCHANGED <<connVars, alive, outbox, writerUp, callVars, routing, job, mainVars>>

\* The broker reads a frame: it routes an Invoke from a task of its own, and
\* gives a Response to the caller of the job.
BrokerReads(f) ==
    /\ alive /\ writerUp
    /\ outbox' = outbox \ {f}
    /\ routing' = IF f[1] = "invoke" THEN routing \union {<<f[2], f[3]>>} ELSE routing
    /\ UNCHANGED <<connVars, alive, inbox, writerUp, callVars, job, mainVars>>

\* The routed call has returned, by its timeout at the latest, and the Response
\* goes back on the session it came from.
BrokerReplies(r) ==
    /\ routing' = routing \ {r}
    /\ inbox' = IF alive THEN Append(inbox, <<"response", r[1], r[2]>>) ELSE inbox
    /\ UNCHANGED <<connVars, alive, outbox, writerUp, callVars, job, mainVars>>

-----------------------------------------------------------------------------
(* The specification.                                                      *)

Establish == ConnectFails \/ BackoffEnds \/ SendHello

Reader == ReadInvoke \/ ReadResponse \/ ReadShutdown \/ ReaderEnds

CallStep(k) == SendInvoke(k) \/ ReceiveReply(k)

Handler(j) == HandlerInvokes(j) \/ HandlerReturns(j)

\* What the process does by itself, ...
Client ==
    \/ Establish \/ DeadlinePasses \/ Reader \/ IdlePoll \/ ClockTick
    \/ \E k \in CallIds : CallStep(k)
    \/ \E j \in Jobs : Handler(j)

\* ... what the app's code or the stream does to it, ...
Outside ==
    \/ HelloRefused \/ HelloAcked \/ WriterFails \/ StreamEnds
    \/ run_until_shutdown \/ shutdown \/ AppExits
    \/ \E k \in CallIds : AppInvokes(k) \/ CallerDrops(k)

\* ... and the broker.
BrokerStep ==
    \/ BrokerShutdown
    \/ \E j \in Jobs : BrokerInvokes(j)
    \/ \E f \in outbox : BrokerReads(f)
    \/ \E r \in routing : BrokerReplies(r)

\* The frame of p is read, the call k is answered: in its turn on the stream and
\* from a task of its own, so not before other frames and calls for ever.
Read(p) == \E f \in outbox : f[3] = p /\ BrokerReads(f)

Answered(k) == \E r \in routing : r[2] = k /\ BrokerReplies(r)

Next == conn # "exited" /\ (Client \/ Outside \/ BrokerStep)

Spec == Init /\ [][Next]_clientVars

\* The runtime runs what is ready, timers fire, handlers come back once their own
\* calls have, and the broker reads and replies.  Nothing is assumed of who calls,
\* shuts down or cuts the connection.
Fairness ==
    /\ WF_clientVars(conn # "exited" /\ Establish)
    /\ WF_clientVars(conn # "exited" /\ DeadlinePasses)
    /\ WF_clientVars(conn # "exited" /\ Reader)
    /\ WF_clientVars(conn # "exited" /\ IdlePoll)
    /\ WF_clientVars(conn # "exited" /\ ClockTick)
    /\ \A k \in CallIds : WF_clientVars(conn # "exited" /\ CallStep(k))
    /\ \A j \in Jobs : WF_clientVars(conn # "exited" /\ Handler(j))
    /\ \A p \in CallIds \union Jobs : WF_clientVars(conn # "exited" /\ Read(p))
    /\ \A k \in CallIds : WF_clientVars(conn # "exited" /\ Answered(k))

FairSpec == Spec /\ Fairness

-----------------------------------------------------------------------------
(* Properties.                                                             *)

\* The frames of the two directions: kind, request id, call or job.
FromBroker == ({"invoke"} \X {0} \X Jobs) \union ({"response"} \X Nat \X CallIds)
                  \union {<<"shutdown", 0, 0>>}

ToBroker == ({"invoke"} \X Nat \X CallIds) \union ({"response"} \X {0} \X Jobs)

\* Types of the client's state; every drawn request id is below the counter.
ClientTypeOK ==
    /\ idle \in BOOLEAN /\ retry \in BOOLEAN
    /\ conn \in {"connecting", "backoff", "hello", "up", "lost", "failed", "exited"}
    /\ alive \in BOOLEAN /\ writerUp \in BOOLEAN /\ fired \in BOOLEAN
    /\ inbox \in Seq(FromBroker)
    /\ outbox \subseteq ToBroker
    /\ nextReq \in Nat \ {0}
    /\ pending \subseteq (1..(nextReq - 1)) \X CallIds
    /\ cpc \in [CallIds -> {"idle", "pended", "waiting", "done"}]
    /\ creq \in [CallIds -> 0..(nextReq - 1)]
    /\ slot \in [CallIds -> CallIds \union {NoCall}]
    /\ result \in [CallIds -> {"none", "answer", "ConnectionClosed", "Dropped"}]
    /\ routing \subseteq Nat \X CallIds
    /\ job \in [Jobs -> {"none", "sent", "running", "calling", "answered"}]
    /\ main \in {"busy", "waiting", "returned"}
    /\ quiet \in 0..Threshold

\* An app's call is only ever given its own answer, while handlers and other
\* tasks call at the same time and callers give up (BusClient::invoke).
OwnReply ==
    \A k \in CallIds : slot[k] # NoCall => slot[k] = k

\* A call that waits for its answer can still be given it: its sender is in the
\* pending table unless the answer has been sent.
WaitersArePending ==
    \A k \in CallIds : cpc[k] = "waiting" => slot[k] # NoCall \/ <<creq[k], k>> \in pending

\* Every job is answered while the connection holds, also when its handler calls
\* other services over that very connection (the reader never waits for a job).
JobsFinish ==
    \A j \in Jobs : job[j] = "sent" ~> (job[j] = "answered" \/ ~alive \/ ~writerUp)

\* The loss of the connection ends run_until_shutdown, if the app was in it.
LossEndsMain ==
    (main = "waiting" /\ ~fired /\ ~alive) ~> main = "returned"

\* An on-demand app stays in run_until_shutdown for ever only if it is called over
\* and over: once the last Invoke has been read, the idle poll ends it, whatever
\* its handlers, its own calls and the connection are doing.
IdleAppsExit == []<>~(idle /\ main = "waiting") \/ []<><<ReadInvoke>>_clientVars

\* The connect retries end.
ConnectGivesUp == conn \in {"connecting", "backoff"} ~> conn \notin {"connecting", "backoff"}

\* What run_until_shutdown says of itself: it blocks until the broker sends
\* Shutdown or the connection dies, whichever came when.
ShutdownEndsMain == (main = "waiting" /\ fired) ~> main = "returned"

=============================================================================
