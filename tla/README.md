# A TLA+ development of tokimo-bus

tokimo-bus splits a server into processes. A **broker**, embedded in the server, accepts
connections of **apps** over a Unix socket or a named pipe; every app announces a service with
a method catalogue, and the server (or another app) calls `service.method` through the broker.
A **supervisor** spawns the app processes and restarts them. This directory models those parts,
checks them with TLC on small instances and proves their safety with TLAPS.

## 1. The system

| Part | Code | State | Operations |
|---|---|---|---|
| Session layer | `broker/src/session.rs`, `registry.rs`, `broker.rs` | spawn tokens, registry (service → entry with generation), session table ((service, generation) → pending calls), capability cache, one writer task per session | `issue_token`, `accept_loop`, `serve` (handshake, registration, acknowledgement, attach, probe, reader loop, clean-up), `probe_capabilities` |
| Call router | `broker.rs`, `session.rs` | per session: request counter and pending table; in-process services and their catalogues | `call_with_timeout`, `register_local_service`, the Response arm of `serve` |
| Pub/sub | `broker.rs`, `session.rs` | subscriptions per service | `subscribe`, `unsubscribe`, `fanout` |
| App-originated calls | `session.rs`, `client/src/client.rs` | one spawned task per request, the originating channel | the Invoke arm of `serve` |
| Listener, transport | `broker.rs`, `protocol/src/transport.rs`, `axum_listener.rs` | the socket file or pipe instance, the backlog | `listen`, `check_and_cleanup_unix_socket`, `bind`, `bind_for_app`, `accept`, `accept_loop`, `BusStream::connect` |
| Client SDK | `client/src/client.rs` | pending calls, outbound channel, shutdown notification, last activity | `establish`, `invoke`, `dispatch_invoke`, `shutdown`, `run_until_shutdown`, the reader and writer tasks |
| Supervisor | `supervisor/src/lib.rs` | apps by service; per app a child handle behind an async lock, a backoff | `register`, `start_all_resident`, `register_or_replace`, `unregister`, `stop_service`, `ensure_up`, `run_resident`, `spawn_once` |
| Codec, wire types | `protocol/src/codec.rs`, `frame.rs` | the bytes of a frame under way | `read_frame_opt`, `write_frame` |
| Identity, auth, CLI helpers | `protocol/src/task_local.rs`, `auth/`, `cli/` | a task-local user id | see "Not modelled" |

How they meet: the supervisor issues a token and spawns a process; the process connects and
presents the token in its Hello; `serve` consumes the token, registers the service, attaches the
session and probes its capabilities. A call looks the service up by name, takes the session
handle of the entry's generation, files a oneshot sender under a fresh request id, and sends an
Invoke through the session's channel; the reader loop hands the Response to whoever is filed
under its id. An app calls other services by sending an Invoke the other way.

What is hard about it. The tables are concurrent maps and every session runs in its own task on
a multi-threaded runtime, so anything may happen between two accesses. A service is registered
by *name* and may be replaced at any time: by a restart, by a second process, by an in-process
handler. Three parties clean up after a session (its own task, its successor's, a timed-out
caller) and none of them may touch what belongs to another. Connections, writers and processes
end at any point. `PROJECT.json` lists these hazards line by line, with the properties aimed at
them.

What makes each part correct:

* session layer: a token admits once and only to its service; the tables hold nothing of a session
  that is over; clean-up touches only its own; clean-up is completed;
* call router: an answer reaches the call it belongs to; no handler runs that its catalogue does not
  permit for this caller; calls with a timeout return; tables do not fill up;
* client: the same for the app's own calls; handlers may call back; `run_until_shutdown` returns
  when it says it does;
* supervisor: of an app's processes only the newest is kept; a crashed resident app comes back; a
  stopped one stays down;
* apps' calls: an app is told of its own call, and is told, also when connections that number their
  requests alike replace each other;
* pub/sub: an event comes once, in order, to the sessions registered for the subscribed services;
* codec: the frames written are the frames read, wherever the stream is cut;
* listener: whoever starts, the path ends up served; a connect returns; what was queued is accepted.

## 2. The modules

| Module | Models | Composition |
|---|---|---|
| `Sessions` | session layer | |
| `Calls` | call router | `EXTENDS Sessions`: its steps interleave with those of the session layer |
| `RpcContract` | what `call_with_timeout` promises | abstract specification; `Calls` implements it (`Rpc`) |
| `AppCalls` | calls of apps to apps | `EXTENDS Calls`: the spawned task makes one of the router's calls |
| `PubSub` | publish and subscribe | `EXTENDS Sessions`: fanout interleaves with the session layer |
| `BusClient` | client SDK, and the broker's Invoke arm as the client sees it | |
| `Supervisor` | supervisor, for one service | |
| `Wire` | codec between a writer task and a reader loop, byte by byte | |
| `FrameChannel` | what a connection promises its ends | abstract specification; `Wire` implements it (`Channel`) |
| `Listen` | listening, stale sockets, accepting and connecting | |
| `MCSessions`, `MCCalls`, `MCAppCalls`, `MCPubSub`, `MCBusClient`, `MCSupervisor`, `MCWire` | instances for TLC (`Listen` needs none) | |
| `SessionsProofs`, `CallsProofs`, `AppCallsProofs`, `PubSubProofs`, `BusClientProofs`, `SupervisorProofs`, `ListenProofs`, `WireProofs` | theorems, each about the module it extends; those of `AppCalls` and `PubSub` build on those of `Calls` and `Sessions` | |

**Sessions.** One action per operation on shared state, in program order; `phase[c]` is the place of
`serve` for connection `c`: `new → accepted → admitted → numbered → registered → acked → attached →
serving → detached → (dropping) → leaving → unlisted → closed`, or `rejected`. `Registry::insert` is
two actions (`TakeGeneration`, `InsertEntry`), because the code releases the counter's lock before
it touches the map; `detach_session` is three. The probe is four: its call looks among the
in-process services first (`ProbeLocal`) and then in the registry (`ProbeLookup`), and once it is
answered the check and the store are apart. The host registers an in-process service in two maps one
after the other (`RegisterMethods`, `RegisterHandler`), possibly under an app's name. A registry
entry is represented by the connection that made it. The peer is unconstrained: it may present any
token ever issued, or one that never was, for any service.

**Calls.** `pc[k]` is the place of `call_with_timeout` for call `k`, again one action per access to
shared state. All calls are to one method, which a catalogue declares `absent`, `open` or `auth`;
calls differ in whether they carry a user id and a timeout; the in-process services are those of
`Sessions`. A frame is a pair of a request id and the call whose payload it carries, so a mix-up of
ids shows as an answer to another call. `SenderAlive` follows ownership: a oneshot sender lives as
long as somebody holds the session's pending table (the session's task, the session table, or a call
that cloned the handle).

**BusClient.** One client from `connect` to the end of its process. The broker's frames are a
queue handled one by one, as the reader loop does; handlers run in tasks of their own and may
themselves call. The broker may invoke a job again and again, one Invoke at a time, until its handler
has made its one call. `quiet` counts clock ticks since the last Invoke, up to the idle threshold.

**Supervisor.** One service. AppStates are numbered; `apps` is the one in the map and tasks hold
Arcs (`st`) of possibly older ones. The async lock on the child is explicit. `spawn_once` is two steps:
from `Spawn` on the new process runs, and only `StoreChild` replaces the Child of the one before. A
process that is killed, or whose last handle goes (`kill_on_drop`), is likewise first signalled
("dying") and ends in a step of its own (`ProcessDies`). An Arc held by a loop counts as a handle, so a
loop that waits keeps its process. A sleep ends some time (the one after an exit with the next
`LoopTop`); the backoff's value is kept, its cap is a parameter.

**AppCalls.** The Invoke arm spawns a task that splits `service.method`, calls `Broker::call` and
answers on the channel it captured, whatever became of that connection. A call of an app is one of
`CallIds` with a timeout, begun by `RouteInvoke` and otherwise made by the actions of `Calls`. Every
app numbers its requests from 1, so a successor's ids coincide with its predecessor's.

**PubSub.** `fanout` runs inside the publisher's reader loop, so a reader in a fanout reads nothing
else. Its lock is held only while the targets are collected (`Publish`); each target is then looked
up (`FanoutLookup`) and sent to (`FanoutSend`) in steps of their own. `events` records for each event
who had been replaced when it was published; `got[d]` is what was queued on a session's channel,
where the model ends: the client ignores the events it receives.

**Wire.** `write_all` and `read_exact` move one byte per step, so that the end of the connection, a
failed write or an aborted writer cuts a frame anywhere. The length is encoded and decoded in base
`Base` with `HeaderLen` digits, cut off like `as u32` (`shifted` is the length shifted right by so
many bytes). `write_frame` fails on a frame above the limit, and may fail to encode any other; either
error ends the writer. `Written` is what the writer has written to
the last byte; the refinement says that a clean end leaves none of it unread.

**Listen.** Servers and clients that use one path. `kind` chooses the code: a broker on a Unix socket
(looks, probes, unlinks, binds, listens), an app's own socket (unlinks, binds, listens) or a named
pipe (creates the first instance or fails). Crashes leave a socket file behind and take a pipe along.
`began` and `lone` are history: who served the path when a start began, and whether anybody else
started or crashed during it. `bind` and `listen` are two system calls, and a probe between the two
is refused like that of a dead file.

Operators whose name ends in a suffix such as `_Unconditional` and whose comment starts with
*Seeded fault* are variants of the operator that follows them, as a plausible mistake would have
it. They are used by no specification; each shows that a property notices that mistake.

## 3. Runs

| Run | Instance | Shows |
|---|---|---|
| `sessions` | 2 services, 2 connections, 2 tokens, a local service of one of the names | `SingleUseTokens`, `NoDanglingEntry`, `CapsNotFromAnother`, `NoForeignEviction`, `SessionsEnd`, `TypeOK` hold |
| `sessions_successor` | 1 service, 2 connections | `SuccessorKeepsEntry` fails: an older registration replaces a newer one |
| `calls` | 2 calls, a session and its successor, a local service of the same name | `Correlation`, `OnlyPermittedRuns`, `NoPendingLeak`, `ImplementsRpc`, `CallsTypeOK` hold |
| `calls_ended` | 1 untimed call, 1 session | `EndedSessionsRelease` fails: the call never returns |
| `app_calls` | 2 calls of apps, a connection being replaced, a local service of the same name | `AppCorrelation`, `OnlyPermittedRuns`, `AppCallsReturn`, `TimedCallsReturn` hold |
| `pubsub` | a publisher, a subscriber and its successor, 2 events, 2 topics | `OnceInOrder`, `NeverToTheReplaced`, `SubscribersHear`, `PubSubTypeOK` hold |
| `client` | a handler that is invoked until it calls, another task that calls | `OwnReply`, `WaitersArePending`, `JobsFinish`, `LossEndsMain`, `IdleAppsExit`, `ConnectGivesUp`, `ClientTypeOK` hold |
| `client_shutdown` | the same | `ShutdownEndsMain` fails: a shutdown before `run_until_shutdown` is forgotten |
| `supervisor` | 2 loops, 1 caller, 2 AppStates, 2 processes | `OneProcessPerApp`, `ResidentHasLoop`, `CrashesRestart`, `SupTypeOK` hold |
| `supervisor_stop` | 1 AppState, 1 process | `StopsFinish` fails: the loop waits with the lock held |
| `wire` | 3 frames of 4 sizes, one above the limit | `NoRefusal`, `ImplementsChannel`, `FramesArrive`, `LossIsNoticed`, `WireTypeOK` hold |
| `listen` | 2 servers, 2 clients, backlog 1, all three kinds | `PathServed`, `LoneStartsDecide`, `ConnectReturns`, `BacklogIsServed`, `ListenTypeOK` hold |

The four runs that fail state what a comment of the code says and show a behaviour of the code
that contradicts it; `PROJECT.json` ("findings") quotes both.

*What else the models show, without a run of its own.*

* `consume_token` removes the service's token also when the one presented is wrong, so a failed Hello
  uses up the token of the process that was spawned; the comment at `broker.rs:75-76` speaks of
  successful registrations only.
* A restart loop that looked its AppState up (`supervisor/src/lib.rs:241`) before `unregister` removed
  it (line 194) still spawns once. The last handle is then the loop's own, which it keeps for as long
  as it waits: the process of the unregistered service runs on until it exits by itself.
* Two processes of one AppState run side by side when a child is replaced that has not exited: the new
  one from `lib.rs:325` on, the old one until some time after its Child is dropped at line 355.
  `OneProcessPerApp` says that there is no other overlap.
* A probe whose service has an in-process handler of the same name is answered by that handler
  (`broker.rs:331-332`), its entry is still the current one, and the answer is cached as the app's, where
  `broker.rs:249` says "Cached capabilities for a remote service". `CapsNotFromAnother` excludes the
  answer of another session only.
* `record_activity` (`client.rs:314`) begins the idle time anew with every Invoke, whether or not a
  handler still works: an app that is called again and again never exits, and one whose handler
  works longer than the threshold, with no further Invoke, exits under it. `IdleAppsExit` says what
  holds: with a threshold set, `run_until_shutdown` does not wait for ever unless Invokes are read for ever.
* Of two brokers that start together, one may unlink the file after a probe that is no longer true and
  bind again: the path is served (`PathServed`), but the other broker listens on and nobody reaches it.
* The end of the stream inside the length is reported as a clean end, where `codec.rs:45` says "clean
  EOF before any bytes". No complete frame is lost by it (`ImplementsChannel`).
* Subscriptions outlive their session (`broker.rs:451`): a successor inherits them.
* `fanout` compares with `starts_with` (`broker.rs:469`), `frame.rs:234` describes "exact equality or
  dot-separated parent match". `PubSub` keeps the relation of topics and prefixes abstract.

*Bounds.* Two connections of one service are what every conflict in the session layer needs (one
that leaves and one that arrives); two services make tokens cross. In `sessions` the host registers
its service right before a probe looks for it (`HostWaits`), since no other step reads it. Two calls
are enough to mix up answers, one timed and one not. Three runs begin in a reachable state of the
session layer so that the bound is spent on what matters: `calls` where the first session serves and
the second is about to be registered (`Replacing`), `app_calls` where a connection that has read a
request is about to stop its writer while its successor serves (`Replaced`), `pubsub` where
publisher and subscriber serve and the successor has its generation (`Serving`). In `calls` and
`pubsub` the successor's capability probe, which touches nothing of calls and events, is not
scheduled. The proofs begin in `Init` and schedule everything. In `pubsub` one connection publishes,
all three subscribe and unsubscribe, and two events are needed for an order, and more than one
publisher is left to the proof. In `supervisor`, two AppStates let a loop hold an old one, two loops
and two processes let them compete; a process that is signalled but not dead may meet its successor.
The cap of the backoff is 2 instead of 300, which is reached and exceeded all the same. In `wire` a
byte has 4 values, a length 2 bytes and a frame at most 3, one frame has exactly the limit and one
is above it, and payload bytes read as lengths, also as lengths above the limit, when the framing
slips. In `listen` a backlog of 1 is full with one of the two clients. No symmetry is used, since
most runs check liveness. Deadlock is not checked: apps, servers and streams may all have ended,
which ends the bounded behaviours.

*Fairness.* Weak fairness of what the runtime does by itself: tasks that are ready run, timers fire,
frames that have arrived are read. A process that was signalled dies. In `Supervisor` fairness is
strong, because tokio's mutex queues its waiters, so a task that finds the lock free again and again
does get it. Nothing is assumed of peers, callers, apps and processes: they need not connect, answer
or exit. In `BusClient` handlers are assumed to come back once their own call has, and the broker to
reply, to every frame and every call and not just to some while others go on; `AppCallsReturn` is
what justifies the latter. In `AppCalls` only the calls and the spawned tasks are fair, not the
sessions. In `PubSub` a fanout that has begun goes on: it awaits nothing. In `Wire` both tasks run
and the kernel moves the bytes. In `Listen` accepting is strongly fair, that is, accept does not
fail forever; the start of a server is not assumed to finish.

## 4. Proofs

All for any number of services, connections, tokens, calls, events, frames, tasks and processes; the
assumptions are those on the constants (`SessionsAssumption`, `CallsAssumption`,
`AppCallsAssumption`, `PubSubAssumption`, the ones of `BusClient`, `Supervisor` and `Listen`, and
`WireAssumption`, that the limit of a frame fits the bytes of its length). Every invariant of a
passing run is a theorem, and so are both refinements and the action property `NoForeignEviction`.
Of the liveness properties the safety halves are proved: that what must happen cannot become
impossible, because nothing on its way gets lost. What remains to TLC is that it does happen.

*Sessions* (`SessionsProofs`). The properties are not inductive: that `remove_if` evicts nobody
else rests on generations being unique, and that the cache holds no answer of another connection
(each is the connection's own or an in-process handler's) rests on a connection never getting its
entry back. `IndInv` adds four facts:
`OutstandingTokens` (an outstanding token has admitted nobody), `UniqueGenerations`,
`ProbesOfSuccessors` (a probe routed to another connection finds its own entry replaced) and
`CachedByProbed`. `SessionsInvariant` is `Spec => []IndInv`; `SessionsTypeCorrect`,
`TokensAreSingleUse`, `TablesHaveOwners` and `CapabilitiesNotAnothers` follow from it, and
`StaleReadersEvictNobody` is the action property `NoForeignEviction`. `ClosedForGood` is the safety
half of `SessionsEnd`: a connection whose `serve` has returned is `Gone` and stays so. It needs that
writers run only between the acknowledgement and the last step of `serve` (`WritersServe`).

*Calls* (`CallsProofs`). `SysImplementsSessions` shows the composed system refines `Sessions`, so
`IndInv` holds of it. `CallsInv` adds why answers stay apart: a call uses entry, catalogue and
handle of one connection (`OneConnection`), no two calls of a connection drew the same id
(`DistinctRequests`), every frame and pending entry carries the id its call drew there
(`FramesMatch`), handlers run once and for permitted calls (`RunsOnce`), and what is in a channel
is the call's own answer (`OwnAnswer`). From it follow `AnswersAreOwn`, `RunsArePermitted`,
`PendingIsReleased`, and `CallsImplementContract`, the refinement of `RpcContract`.
`NobodyWaitsInVain` says that a call without an answer stays in the pending table of its session
(`Pending`) and that its frame stays on that connection or with its handler (`UnderWay`). Since the
call itself keeps that table alive, its sender is never dropped: `ConnectionClosedUnreachable`, the
finding of `calls_ended` for every instance.

*Apps' calls* (`AppCallsProofs`). `AppsImplementCalls` shows that apps' calls refine the router, so
`CallsInv` holds, and `AppCallsKeepContract` is what the router promises, of the larger system.
`AppInv` adds that no two requests have the same origin (connection and id), that
every Response lies on the connection of its request, under its id, and tells its outcome
(`RepliesTell`), and that what was heard stays true (`HeardTells`, by `ResultsStay`). From it follows
`AppsHearOfTheirCalls`. `RepliesAreNotLost` is the safety half of `AppCallsReturn`; a reply may
vanish only with a channel, and the channel of a connection that has read a request does not open
again (`OriginsRead`, `ReadStays`).

*Publish and subscribe* (`PubSubProofs`). `PubSubImplementsSessions` brings `IndInv` of the sessions.
`OnceInOrder` alone says nothing about a fanout on its way; `PSInv` adds `FanoutsAhead`: a fanout is
about its publisher's last event, that event is in no queue of a service still ahead, and the entry
just looked up was not replaced when the event was published. `EventsStay` carries the latter through
every session step: who has lost its entry never gets it back (`PastStays`). From it follow
`EventsComeOnceInOrder`, `ReplacedHearNothing` and `PubSubTypeCorrect`. `EventsAreNotDropped` is the
safety half of `SubscribersHear`, an action property: an event on its way to a registered session
stays so until the session has it, has lost its entry or has a closed channel.

*Client* (`BusClientProofs`). An answer is the caller's own because ids are drawn once (`OwnIds`)
and everything that carries a call's payload carries its id (`FramesMatch`); that a handler calls
once needs that a job has one Invoke under way at a time and none once its handler has called
(`JobsOnce`). `FiledOrAnswered` is `WaitersArePending` from the moment the call is filed. Theorems:
`RepliesAreOwn`, `WaitersCanBeAnswered`, `ClientTypeCorrect`. `ClientNeverStrands` is the safety
half of `JobsFinish`: while the connection holds, a call that waits has its Invoke, its routing
task, its Response or its answer on the way, and a job that was sent is before the reader.
`WaitersHaveReader` is that of `LossEndsMain`: only a `shutdown` that came before it, the finding of
`client_shutdown`, can leave `run_until_shutdown` without a reader to wake it. Both need that the
connection comes up once and that its reader ends with a `shutdown` (`Connected`).

*Supervisor* (`SupervisorProofs`). A handle stays with its AppState, be it stored, just spawned or
taken out (`HandlesAtHome`), and is that of the AppState's newest process (`Newest`); a process
without a handle has been signalled (`RunningHasHandle`); `spawn_once` keeps the lock until the
handle is stored, and `stop_service`, over an emptied child, until the process has ended
(`LockHolders`). So an older process that still runs is about to be dropped or has been.
`ResidentHasLoop` needs to say which loops go on: `Tended`. Theorems: `AppsRunOnce`,
`ResidentsAreTended`, and `SupervisorTypeCorrect`, which bounds the backoff for every cap.
`WaitingLoopsHoldChild` is an action property: a loop that waits for its child keeps it, and keeps
every stop of that AppState waiting, until the child exits. It is the safety half of
`CrashesRestart` and the reason why `StopsFinish` fails.

*Listen* (`ListenProofs`). `PathServed` rests on `SomebodyBinds` (a path that leads nowhere has a start
on its way to bind it) and `OldIsGone`; `LoneStartsDecide` on `LoneStartSees`, that a lone start finds
the path as it was when it began. Theorems: `StartsLeavePathServed`, `LoneStartsAreSound`,
`ListenTypeCorrect`.

*Codec* (`WireProofs`). What a length decodes to, and how bytes line up with frames, are facts about
every length and every number of frames. The induction they take is done with sets: `UpTo` says that
a set which holds 0 and with each number its successor, up to a bound, holds all of them, which
follows from the least element of what it misses (`LeastNatural`, from the well-foundedness of `<`);
`RecursionExists` gives the recursive functions of `Wire` their equations. `LengthsSurvive` then says
that `from_be_bytes(to_be_bytes(n)) = n` up to the limit. `WireInv` says where the bytes are: there
is a sequence `rest`, `rest[i]` being the bytes that follow the first `i` frames accepted, and what
is in the reader's buffer, in transit and yet to be written is `rest` behind the frames received, or
the payload of the next frame in front of the rest, as the reader stands (`StreamInv`). Without it
neither `NoRefusal` nor the refinement is inductive, since both depend on the reader finding the
length where the writer put it. Theorems: `WireTypeCorrect`, `NothingIsRefused`,
`WireImplementsChannel` (the refinement of `FrameChannel`) and `WorkRunsOut`, an action property:
every step of the two tasks lowers a measure of the work left or ends the reader, which bounds the
steps behind `FramesArrive` and `LossIsNoticed`.

*Only model-checked:* the liveness properties themselves (`SessionsEnd`, `TimedCallsReturn`,
`AppCallsReturn`, `SubscribersHear`, `JobsFinish`, `LossEndsMain`, `IdleAppsExit`, `ConnectGivesUp`,
`CrashesRestart`, `FramesArrive`, `LossIsNoticed`, `ConnectReturns`, `BacklogIsServed`), since fairness
and ENABLED are beyond the prover, and the four violations.

## 5. Plan

Done: every module above. Left:

1. the supervisor with the session layer: a respawn that replaces a token not yet presented, and
   the process that then fails its Hello;
2. re-registration of an in-process service under another catalogue, between a caller's check and
   its run.

## 6. Not modelled, and why

* Task-local identity (`protocol/src/task_local.rs`): one value scoped to one task; nothing is shared,
  so nothing interleaves.
* The `caller_app_id` of a routed call: stamped by the Invoke arm, read by nobody in the broker.
* Re-registration of an in-process service with another catalogue: `Sessions` registers a local
  service at most once.
* Ping/Pong and the stream frames: declared in the protocol; the broker never sends the former
  and nobody handles the latter.
* File permissions, the creation of directories and `cleanup` of `transport.rs`, which nobody calls.
* The texts of connect errors: `is_transient_connect_msg` has no case for a busy pipe although
  `client.rs:92-93` and `363-365` mention one; the connect underneath retries it for five seconds, which
  is what `Listen` models, and in `BusClient` a failed connect may or may not be worth a retry.
* `auth/` (one query with an expiry comparison, one header extractor), `cli/` (argument and help
  text), logging and process output: sequential or text only.
