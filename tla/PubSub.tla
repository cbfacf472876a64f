------------------------------- MODULE PubSub -------------------------------
(***************************************************************************)
(* Publish and subscribe through the broker: the Publish, Subscribe and    *)
(* Unsubscribe arms of the reader loop (session.rs) and Broker::subscribe, *)
(* unsubscribe and fanout (broker.rs), on top of the session layer.        *)
(*                                                                         *)
(* Subscriptions belong to a service name, not to a session.  fanout runs  *)
(* inside the publisher's reader loop: it collects the subscribed services *)
(* under the lock, then looks up and sends to one after the other, while   *)
(* sessions come and go.  An event is named by its place in `events`; what *)
(* is queued on a session's channel is kept in `got`, in order.  Topics    *)
(* and prefixes are values, related by StartsWith (str::starts_with).      *)
(***************************************************************************)
EXTENDS Sessions, Sequences

CONSTANTS
    Publishers,  \* bound: the connections that publish
    Topics,      \* topics events are published under
    Prefixes,    \* topic prefixes services subscribe to
    StartsWith,  \* <<topic, prefix>>: the topic starts with the prefix
    MaxEvents    \* bound: events that are published

ASSUME PubSubAssumption ==
    /\ Publishers \subseteq Conns
    /\ StartsWith \subseteq Topics \X Prefixes
    /\ MaxEvents \in Nat

VARIABLES
    subs,    \* Broker.subscriptions: the prefixes of each service
    events,  \* history: the events published, with who was replaced by then
    fan,     \* fanouts each connection's reader is in: event, services left,
             \* and the connection of the entry just looked up
    got      \* events queued on the channel of each connection

pubsubVars == <<subs, events, fan, got>>
psVars == <<sessionVars, pubsubVars>>

PubSubInit ==
    /\ subs = [s \in Services |-> {}]
    /\ events = <<>>
    /\ fan = [c \in Conns |-> {}]
    /\ got = [c \in Conns |-> <<>>]

-----------------------------------------------------------------------------
(* The arms of the reader loop.                                            *)

\* Seeded fault: fanout runs in a task of its own and the reader goes on.
ReaderFree_Spawned(c) == phase[c] = "serving"

\* serve is at read_frame_opt: it has returned from the last fanout.
ReaderFree(c) == phase[c] = "serving" /\ fan[c] = {}

subscribe(c, p) ==
    /\ ReaderFree(c)
    /\ subs' = [subs EXCEPT ![svc[c]] = @ \union {p}]
    /\ UNCHANGED <<sessionVars, events, fan, got>>

unsubscribe(c, p) ==
    /\ ReaderFree(c)
    /\ subs' = [subs EXCEPT ![svc[c]] = @ \ {p}]
    /\ UNCHANGED <<sessionVars, events, fan, got>>

\* Seeded fault: the publisher's own service is not left out.
Targets_Echo(s, t) == {r \in Services : \E p \in subs[r] : <<t, p>> \in StartsWith}

\* The services, other than the publisher's, with a matching prefix.
Targets(s, t) == {r \in Services \ {s} : \E p \in subs[r] : <<t, p>> \in StartsWith}

\* Connections that had registered and held their service's entry no more.
Replaced == {d \in Conns : phase[d] \in Numbered \ {"numbered"} /\ entries[svc[d]] # d}

\* A Publish frame is read: fanout collects its targets under the lock.
Publish(c, t) ==
    /\ c \in Publishers /\ ReaderFree(c) /\ Len(events) < MaxEvents
    /\ events' = Append(events, [by |-> c, late |-> Replaced])
    /\ fan' = [fan EXCEPT ![c] = @ \union
                 {[n |-> Len(events) + 1, left |-> Targets(svc[c], t), to |-> None]}]
    /\ UNCHANGED <<sessionVars, subs, got>>

-----------------------------------------------------------------------------
(* fanout, after the lock has been released.                               *)

\* Seeded fault: the event goes to any session of the service.
LookedUp_AnySession(s) == {h[3] : h \in {g \in sessions : g[1] = s}}

\* Seeded fault: a service counts once its session is attached.
LookedUp_Attached(s) ==
    {IF \E h \in sessions : h[3] = entries[s] THEN entries[s] ELSE None}

\* registry.get: the entry the service has now, if any.
LookedUp(s) == {entries[s]}

FanoutLookup(c, f, s) ==
    /\ f.to = None /\ s \in f.left
    /\ \E e \in LookedUp(s) :
          fan' = [fan EXCEPT ![c] = (@ \ {f}) \union
                    {[n |-> f.n, left |-> f.left \ {s}, to |-> e]}]
    /\ UNCHANGED <<sessionVars, subs, events, got>>

\* entry.tx.send; a closed channel is ignored.
FanoutSend(c, f) ==
    /\ f.to # None
    /\ got' = IF ChannelOpen(f.to) THEN [got EXCEPT ![f.to] = Append(@, f.n)] ELSE got
    /\ fan' = [fan EXCEPT ![c] = (@ \ {f}) \union {[f EXCEPT !.to = None]}]
    /\ UNCHANGED <<sessionVars, subs, events>>

FanoutReturns(c, f) ==
    /\ f.to = None /\ f.left = {}
    /\ fan' = [fan EXCEPT ![c] = @ \ {f}]
    /\ UNCHANGED <<sessionVars, subs, events, got>>

-----------------------------------------------------------------------------
(* The specification.                                                      *)

FanoutStep(c) ==
    \E f \in fan[c] :
        FanoutSend(c, f) \/ FanoutReturns(c, f) \/ \E s \in Services : FanoutLookup(c, f, s)

PubSubStep(c) ==
    \/ FanoutStep(c)
    \/ \E t \in Topics : Publish(c, t)
    \/ \E p \in Prefixes : subscribe(c, p) \/ unsubscribe(c, p)

\* Session steps go on, but serve makes none while it is in fanout.
PSNext ==
    \/ Next /\ UNCHANGED pubsubVars
            /\ \A c \in Conns : fan[c] # {} => phase'[c] = phase[c]
    \/ \E c \in Conns : PubSubStep(c)

PSSpec == Init /\ PubSubInit /\ [][PSNext]_psVars

\* fanout awaits nothing, so it goes on once begun.
PSFairness == \A c \in Conns : WF_psVars(FanoutStep(c))

-----------------------------------------------------------------------------
(* Properties.                                                             *)

\* Types; a reader is in at most one fanout, and only while it serves.
PubSubTypeOK ==
    /\ subs \in [Services -> SUBSET Prefixes]
    /\ events \in Seq([by : Publishers, late : SUBSET Conns])
    /\ Len(events) <= MaxEvents
    /\ fan \in [Conns -> SUBSET [n : 1..Len(events), left : SUBSET Services,
                                 to : Conns \union {None}]]
    /\ got \in [Conns -> Seq(1..Len(events))]
    /\ \A c \in Conns : \A f, g \in fan[c] : phase[c] = "serving" /\ f = g

\* A service gets an event at most once over all its sessions, and each session
\* gets the events of one publisher in the order they were published, although
\* fanout looks the sessions up one by one while they replace each other (it
\* runs in the publisher's reader loop).
OnceInOrder ==
    \A d, e \in Conns : svc[d] = svc[e] =>
        \A i \in DOMAIN got[d], j \in DOMAIN got[e] :
            /\ got[d][i] = got[e][j] => d = e /\ i = j
            /\ d = e /\ i < j /\ events[got[d][i]].by = events[got[d][j]].by
                  => got[d][i] < got[d][j]

\* No event reaches a session that had been replaced or unregistered before the
\* event was published, nor any session of the service that published it.
NeverToTheReplaced ==
    \A d \in Conns : \A i \in DOMAIN got[d] :
        LET e == events[got[d][i]] IN d \notin e.late /\ svc[d] # svc[e.by]

\* Event n is yet to be sent to service s.
Due(n, s) == \E c \in Conns : \E f \in fan[c] : f.n = n /\ s \in f.left

\* An event that is due to a service reaches the session that is registered for
\* it, unless that session loses its entry or its channel in the meantime.
SubscribersHear ==
    \A n \in 1..MaxEvents, d \in Conns :
        (\E s \in Services : Due(n, s) /\ entries[s] = d)
            ~> \/ n \in {got[d][i] : i \in DOMAIN got[d]}
               \/ entries[svc[d]] # d
               \/ ~ChannelOpen(d)

=============================================================================
