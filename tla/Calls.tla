------------------------------- MODULE Calls --------------------------------
(***************************************************************************)
(* Unary calls through the broker: Broker::call_with_timeout (broker.rs),  *)
(* the Response arm of the reader loop and the writer task of session.rs,  *)
(* and the app's side of an invocation (dispatch_invoke in client.rs), on  *)
(* top of the session layer.                                               *)
(*                                                                         *)
(* Every call is to one method.  What matters of a method catalogue is how *)
(* it declares that method: not at all, open, or with requires_auth.  A    *)
(* frame is <<request id, call>>: the call stands for the payload of the   *)
(* Invoke and of the answer the app computes from it, so a mix-up of       *)
(* request ids shows as an answer to another call.  Frames on a connection *)
(* are kept as sets: the app starts every handler in a task of its own, so *)
(* the order of the frames decides nothing.  The capability probe's own    *)
(* call stays abstract, as Sessions models it.                             *)
(***************************************************************************)
EXTENDS Sessions

CONSTANTS
    CallIds,      \* calls made through the broker
    Timed,        \* the calls with a timeout; the others pass Duration::ZERO
    Authed,       \* the calls whose CallerCtx carries a user id
    Catalog,      \* how each connection's Hello declares the method
    LocalCatalog  \* how the catalogue of each local service declares it

Decls == {"absent", "open", "auth"}

ASSUME CallsAssumption ==
    /\ Timed \subseteq CallIds
    /\ Authed \subseteq CallIds
    /\ Catalog \in [Conns -> Decls]
    /\ LocalCatalog \in [LocalServices -> Decls]
    /\ None \notin CallIds

VARIABLES
    pc,           \* where call_with_timeout stands for each call
    target,       \* the service the call names
    ent,          \* the registry entry the call fetched
    handle,       \* the connection whose SessionHandle the call holds
    req,          \* the request id the call drew
    slot,         \* the call's oneshot channel: the answer sent, or None
    result,       \* what the call returned, "none" before
    reply,        \* the call whose answer was returned
    nextReq,      \* next_req_id of each session
    pending,      \* pending_out of each session: <<request id, call>>
    invokes,      \* Invoke frames queued for or written by the writer task
    handling,     \* invocations the app's handlers are working on
    answers,      \* Response frames on their way to the broker
    ran           \* history: the calls a handler was started for

wireVars == <<invokes, handling, answers, ran>>
callVars == <<pc, target, ent, handle, req, slot, result, reply, nextReq, pending,
              invokes, handling, answers, ran>>
vars == <<sessionVars, callVars>>

PCs == {"idle", "local", "localRun", "remote", "found", "routed", "pended", "waiting",
        "expired", "done"}

Results == {"none", "answer", "ServiceNotFound", "MethodNotFound", "Unauthorized",
            "Timeout", "ConnectionClosed", "Dropped"}

CallsInit ==
    /\ pc = [k \in CallIds |-> "idle"]
    /\ target = [k \in CallIds |-> None]
    /\ ent = [k \in CallIds |-> None]
    /\ handle = [k \in CallIds |-> None]
    /\ req = [k \in CallIds |-> 0]
    /\ slot = [k \in CallIds |-> None]
    /\ result = [k \in CallIds |-> "none"]
    /\ reply = [k \in CallIds |-> None]
    /\ nextReq = [c \in Conns |-> 1]
    /\ pending = [c \in Conns |-> {}]
    /\ invokes = [c \in Conns |-> {}]
    /\ handling = [c \in Conns |-> {}]
    /\ answers = [c \in Conns |-> {}]
    /\ ran = {}

-----------------------------------------------------------------------------
(* call_with_timeout.                                                      *)

\* Seeded fault: requires_auth is not looked at.
Check_NoAuth(k, d) == IF d = "absent" THEN "MethodNotFound" ELSE "none"

\* The outcome of checking the declaration d of the method for call k.
Check(k, d) ==
    IF d = "absent" THEN "MethodNotFound"
    ELSE IF d = "auth" /\ k \notin Authed THEN "Unauthorized"
    ELSE "none"

\* The call returns r, an error.
Fails(k, r) ==
    /\ pc' = [pc EXCEPT ![k] = "done"]
    /\ result' = [result EXCEPT ![k] = r]

\* local_services.get: a handler of that name takes precedence.
LookupLocal(k, s) ==
    /\ pc[k] = "idle"
    /\ target' = [target EXCEPT ![k] = s]
    /\ pc' = [pc EXCEPT ![k] = IF s \in localHandlers THEN "local" ELSE "remote"]
    /\ UNCHANGED <<sessionVars, ent, handle, req, slot, result, reply, nextReq,
                   pending, wireVars>>

\* The local catalogue is consulted if there is one, and the handler is called.
LocalInvoke(k) ==
    LET verdict == IF target[k] \in localMethods THEN Check(k, LocalCatalog[target[k]])
                   ELSE "none"
    IN  /\ pc[k] = "local"
        /\ \/ /\ verdict = "none"
              /\ pc' = [pc EXCEPT ![k] = "localRun"]
              /\ ran' = ran \union {k}
              /\ UNCHANGED result
           \/ /\ verdict # "none"
              /\ Fails(k, verdict)
              /\ UNCHANGED ran
        /\ UNCHANGED <<sessionVars, target, ent, handle, req, slot, reply, nextReq,
                       pending, invokes, handling, answers>>

\* The local handler's future is ready, ...
LocalReturns(k) ==
    /\ pc[k] = "localRun"
    /\ pc' = [pc EXCEPT ![k] = "done"]
    /\ result' = [result EXCEPT ![k] = "answer"]
    /\ reply' = [reply EXCEPT ![k] = k]
    /\ UNCHANGED <<sessionVars, target, ent, handle, req, slot, nextReq, pending,
                   wireVars>>

\* ... or the timeout drops it.
LocalExpires(k) ==
    /\ pc[k] = "localRun"
    /\ k \in Timed
    /\ Fails(k, "Timeout")
    /\ UNCHANGED <<sessionVars, target, ent, handle, req, slot, reply, nextReq,
                   pending, wireVars>>

\* registry.get, and the check of the method against the entry's catalogue.
LookupEntry(k) ==
    LET e == entries[target[k]]
        verdict == IF e = None THEN "ServiceNotFound" ELSE Check(k, Catalog[e])
    IN  /\ pc[k] = "remote"
        /\ \/ /\ verdict = "none"
              /\ pc' = [pc EXCEPT ![k] = "found"]
              /\ ent' = [ent EXCEPT ![k] = e]
              /\ UNCHANGED result
           \/ /\ verdict # "none"
              /\ Fails(k, verdict)
              /\ UNCHANGED ent
        /\ UNCHANGED <<sessionVars, target, handle, req, slot, reply, nextReq, pending,
                       wireVars>>

\* Seeded fault: any session of the service will do.
HandlesOf_ServiceOnly(k) == {h \in sessions : h[1] = target[k]}

\* sessions.get for the entry's generation.
HandlesOf(k) == {h \in sessions : h[1] = target[k] /\ h[2] = gen[ent[k]]}

LookupSession(k) ==
    /\ pc[k] = "found"
    /\ \/ \E h \in HandlesOf(k) :
            /\ handle' = [handle EXCEPT ![k] = h[3]]
            /\ pc' = [pc EXCEPT ![k] = "routed"]
            /\ UNCHANGED result
       \/ /\ HandlesOf(k) = {}
          /\ Fails(k, "ServiceNotFound")
          /\ UNCHANGED handle
    /\ UNCHANGED <<sessionVars, target, ent, req, slot, reply, nextReq, pending,
                   wireVars>>

\* Seeded fault: the request id is read and not advanced.
InsertPending_SameId(k) ==
    LET c == handle[k] IN
    /\ pc[k] = "routed"
    /\ req' = [req EXCEPT ![k] = nextReq[c]]
    /\ pending' = [pending EXCEPT ![c] =
                      {f \in @ : f[1] # nextReq[c]} \union {<<nextReq[c], k>>}]
    /\ pc' = [pc EXCEPT ![k] = "pended"]
    /\ UNCHANGED <<sessionVars, target, ent, handle, slot, result, reply, nextReq,
                   wireVars>>

\* fetch_add on next_req_id, then pending_out.insert.  The id is private to the
\* call until the insert, so the two make one step.
InsertPending(k) ==
    LET c == handle[k] IN
    /\ pc[k] = "routed"
    /\ req' = [req EXCEPT ![k] = nextReq[c]]
    /\ nextReq' = [nextReq EXCEPT ![c] = @ + 1]
    /\ pending' = [pending EXCEPT ![c] =
                      {f \in @ : f[1] # nextReq[c]} \union {<<nextReq[c], k>>}]
    /\ pc' = [pc EXCEPT ![k] = "pended"]
    /\ UNCHANGED <<sessionVars, target, ent, handle, slot, result, reply, wireVars>>

\* entry.tx.send; if the channel is closed the pending entry is left behind.
SendInvoke(k) ==
    /\ pc[k] = "pended"
    /\ \/ /\ ChannelOpen(ent[k])
          /\ invokes' = [invokes EXCEPT ![ent[k]] = @ \union {<<req[k], k>>}]
          /\ pc' = [pc EXCEPT ![k] = "waiting"]
          /\ UNCHANGED result
       \/ /\ ~ChannelOpen(ent[k])
          /\ Fails(k, "ServiceNotFound")
          /\ UNCHANGED invokes
    /\ UNCHANGED <<sessionVars, target, ent, handle, req, slot, reply, nextReq,
                   pending, handling, answers, ran>>

\* Somebody holds an Arc of the session's pending_out: serve from the start of
\* its main loop to its return, the session table, or a call in flight.
TableAlive(c) ==
    \/ phase[c] \in {"acked", "attached", "serving", "detached", "dropping", "leaving",
                     "unlisted"}
    \/ \E h \in sessions : h[3] = c
    \/ \E j \in CallIds : handle[j] = c /\ pc[j] # "done"

\* The sending half of the call's oneshot channel has not been dropped.
SenderAlive(k) == <<req[k], k>> \in pending[handle[k]] /\ TableAlive(handle[k])

\* The awaited channel yields: the answer, or an error once the sender is gone.
ReceiveAnswer(k) ==
    /\ pc[k] = "waiting"
    /\ slot[k] # None \/ ~SenderAlive(k)
    /\ pc' = [pc EXCEPT ![k] = "done"]
    /\ result' = [result EXCEPT ![k] = IF slot[k] # None THEN "answer" ELSE "ConnectionClosed"]
    /\ reply' = [reply EXCEPT ![k] = slot[k]]
    /\ UNCHANGED <<sessionVars, target, ent, handle, req, slot, nextReq, pending,
                   wireVars>>

\* Seeded fault: every call is taken for one without a timeout.
Expire_Never(k) == FALSE /\ UNCHANGED vars

\* The timer fires while the channel is empty (timeout polls the channel first).
Expire(k) ==
    /\ pc[k] = "waiting"
    /\ k \in Timed
    /\ slot[k] = None /\ SenderAlive(k)
    /\ pc' = [pc EXCEPT ![k] = "expired"]
    /\ UNCHANGED <<sessionVars, target, ent, handle, req, slot, result, reply, nextReq,
                   pending, wireVars>>

\* Seeded fault: the call gives up without clearing its pending entry.
RemovePending_Kept(k) ==
    /\ pc[k] = "expired"
    /\ Fails(k, "Timeout")
    /\ UNCHANGED <<sessionVars, target, ent, handle, req, slot, reply, nextReq,
                   pending, wireVars>>

\* pending_out.remove after the timeout; an answer may just have taken it.
RemovePending(k) ==
    /\ pc[k] = "expired"
    /\ pending' = [pending EXCEPT ![handle[k]] = {f \in @ : f[1] # req[k]}]
    /\ Fails(k, "Timeout")
    /\ UNCHANGED <<sessionVars, target, ent, handle, req, slot, reply, nextReq,
                   wireVars>>

\* The caller drops the future at its await (an HTTP request that is cancelled).
CallerDrops(k) ==
    /\ pc[k] \in {"waiting", "localRun"}
    /\ Fails(k, "Dropped")
    /\ UNCHANGED <<sessionVars, target, ent, handle, req, slot, reply, nextReq,
                   pending, wireVars>>

-----------------------------------------------------------------------------
(* The app and the reader loop.                                            *)

\* The writer task writes the frame; the app's reader spawns dispatch_invoke.
DispatchInvoke(c, f) ==
    /\ c \in writerUp
    /\ f \in invokes[c]
    /\ invokes' = [invokes EXCEPT ![c] = @ \ {f}]
    /\ handling' = [handling EXCEPT ![c] = @ \union {f}]
    /\ ran' = ran \union {f[2]}
    /\ UNCHANGED <<sessionVars, pc, target, ent, handle, req, slot, result, reply,
                   nextReq, pending, answers>>

\* The handler returns and the app sends the Response.
SendResponse(c, f) ==
    /\ f \in handling[c]
    /\ handling' = [handling EXCEPT ![c] = @ \ {f}]
    /\ answers' = [answers EXCEPT ![c] = @ \union {f}]
    /\ UNCHANGED <<sessionVars, pc, target, ent, handle, req, slot, result, reply,
                   nextReq, pending, invokes, ran>>

\* The reader loop's Response arm: whoever is pending under the request id gets
\* the answer; an unknown id is dropped.
ReadResponse(c, f) ==
    LET waker == {p \in pending[c] : p[1] = f[1]} IN
    /\ phase[c] = "serving"
    /\ f \in answers[c]
    /\ answers' = [answers EXCEPT ![c] = @ \ {f}]
    /\ pending' = [pending EXCEPT ![c] = @ \ waker]
    /\ slot' = [k \in CallIds |-> IF \E p \in waker : p[2] = k THEN f[2] ELSE slot[k]]
    /\ UNCHANGED <<sessionVars, pc, target, ent, handle, req, result, reply, nextReq,
                   invokes, handling, ran>>

-----------------------------------------------------------------------------
(* The specification.                                                      *)

\* Steps the future of call k takes by itself.
CallStep(k) ==
    \/ LocalInvoke(k) \/ LocalExpires(k)
    \/ LookupEntry(k) \/ LookupSession(k) \/ InsertPending(k) \/ SendInvoke(k)
    \/ ReceiveAnswer(k) \/ Expire(k) \/ RemovePending(k)

\* Steps of callers, handlers and the broker's host.
HostStep(k) ==
    \/ \E s \in Services : LookupLocal(k, s)
    \/ LocalReturns(k) \/ CallerDrops(k)

CallsNext ==
    \/ \E k \in CallIds : CallStep(k) \/ HostStep(k)
    \/ \E c \in Conns : \E f \in invokes[c] : DispatchInvoke(c, f)
    \/ \E c \in Conns : \E f \in handling[c] : SendResponse(c, f)
    \/ \E c \in Conns : \E f \in answers[c] : ReadResponse(c, f)

SysInit == Init /\ CallsInit

\* Session steps and call steps interleave.
SysNext ==
    \/ Next /\ UNCHANGED callVars
    \/ CallsNext

SysSpec == SysInit /\ [][SysNext]_vars

\* serve reads the next frame of connection c.
ReadsOn(c) == \E f \in answers[c] : ReadResponse(c, f)

\* The runtime polls every future that is ready and fires its timers, and reads
\* the frames that have arrived.  Nothing is assumed of apps, peers or callers.
SysFairness ==
    /\ \A c \in Conns : WF_vars(Serve(c) /\ UNCHANGED callVars) /\ WF_vars(ReadsOn(c))
    /\ \A k \in CallIds : WF_vars(CallStep(k))

FairSysSpec == SysSpec /\ SysFairness

-----------------------------------------------------------------------------
(* Properties.                                                             *)

\* Types of the call layer, and that ids drawn lie below the session's counter.
CallsTypeOK ==
    /\ pc \in [CallIds -> PCs]
    /\ target \in [CallIds -> Services \union {None}]
    /\ ent \in [CallIds -> Conns \union {None}]
    /\ handle \in [CallIds -> Conns \union {None}]
    /\ req \in [CallIds -> Nat]
    /\ slot \in [CallIds -> CallIds \union {None}]
    /\ result \in [CallIds -> Results]
    /\ reply \in [CallIds -> CallIds \union {None}]
    /\ nextReq \in [Conns -> Nat \ {0}]
    /\ pending \in [Conns -> SUBSET (Nat \X CallIds)]
    /\ invokes \in [Conns -> SUBSET (Nat \X CallIds)]
    /\ handling \in [Conns -> SUBSET (Nat \X CallIds)]
    /\ answers \in [Conns -> SUBSET (Nat \X CallIds)]
    /\ ran \subseteq CallIds
    /\ \A k \in CallIds : pc[k] \in {"pended", "waiting", "expired"} =>
          handle[k] \in Conns /\ req[k] < nextReq[handle[k]]

\* A caller is only ever given the answer to its own invocation, and only after
\* a handler ran for it, across re-registrations of the service, late answers
\* after a timeout and sessions that number their requests alike.
Correlation ==
    \A k \in CallIds : result[k] = "answer" => reply[k] = k /\ k \in ran

\* The declaration d lets the caller of k in.
Permits(k, d) == d = "open" \/ (d = "auth" /\ k \in Authed)

\* No handler ever runs for a method its own catalogue does not declare or for
\* an unauthenticated caller where the catalogue asks for one: neither an app
\* that replaced the one whose entry was fetched, nor a local service that is
\* being registered while the call is checked.
OnlyPermittedRuns ==
    /\ \A c \in Conns : \A f \in handling[c] \union answers[c] : Permits(f[2], Catalog[c])
    /\ \A k \in CallIds : pc[k] = "localRun" => Permits(k, LocalCatalog[target[k]])

\* A call that ended with an answer or a timeout has left no sender behind in
\* any pending table, whatever the order of the timer and a late answer.
NoPendingLeak ==
    \A k \in CallIds : result[k] \in {"answer", "Timeout"} =>
        \A c \in Conns : \A f \in pending[c] : f[2] # k

\* call_with_timeout keeps the contract of RpcContract.
Rpc == INSTANCE RpcContract WITH
    Calls <- CallIds,
    status <- [k \in CallIds |-> IF pc[k] \in {"idle", "done"} THEN pc[k] ELSE "active"],
    outcome <- [k \in CallIds |->
                  IF result[k] = "none" THEN "none"
                  ELSE IF result[k] # "answer" THEN "failure"
                  ELSE IF reply[k] = k THEN "answer" ELSE "misdelivered"]

\* Every step of a call is a step of the contract or leaves it alone.
ImplementsRpc == Rpc!Spec

\* A call with a timeout returns, whatever the apps and the sessions do.
TimedCallsReturn ==
    \A k \in Timed : pc[k] # "idle" ~> pc[k] = "done"

\* What the ConnectionClosed arms of call_with_timeout are there for: a call in
\* flight on a session that has ended returns, with or without a timeout.
EndedSessionsRelease ==
    \A k \in CallIds :
        (pc[k] = "waiting" /\ phase[handle[k]] = "closed") ~> pc[k] = "done"

=============================================================================
