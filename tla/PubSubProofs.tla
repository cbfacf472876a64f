---------------------------- MODULE PubSubProofs ----------------------------
(***************************************************************************)
(* Proofs about publish and subscribe, on top of those about the session   *)
(* layer: events arrive once and in order and never at a session that was  *)
(* replaced before, for any number of services, connections and events.    *)
(***************************************************************************)
EXTENDS PubSub, SessionsProofs

\* serve past entries.insert: the connection keeps its service from then on.
Past == Numbered \ {"numbered"}

\* The event numbers queued on the channel of d.
Got(d) == {got[d][i] : i \in DOMAIN got[d]}

\* Whoever was replaced when an event was published stays replaced, and its
\* publisher stays registered under its name.
EventsStay ==
    \A n \in DOMAIN events :
        /\ phase[events[n].by] \in Past
        /\ \A d \in events[n].late : phase[d] \in Past /\ entries[svc[d]] # d

\* The services fanout f has yet to send to.
Ahead(f) == f.left \union (IF f.to = None THEN {} ELSE {svc[f.to]})

\* A fanout is about its publisher's last event; it has not sent it yet to the
\* services ahead, none of which is the publisher's, and the entry it looked up
\* is not of a session that was replaced before the event.
FanoutsAhead ==
    \A c \in Conns : \A f \in fan[c] :
        /\ events[f.n].by = c
        /\ \A m \in DOMAIN events : events[m].by = c => m <= f.n
        /\ svc[c] \notin Ahead(f)
        /\ \A d \in Conns : f.n \in Got(d) => svc[d] \notin Ahead(f)
        /\ f.to # None =>
              phase[f.to] \in Past /\ svc[f.to] \notin f.left /\ f.to \notin events[f.n].late

\* Events are queued for registered connections only.
GotByRegistered == \A d \in Conns : got[d] # <<>> => phase[d] \in Past

PSInv ==
    /\ IndInv /\ PubSubTypeOK
    /\ EventsStay /\ FanoutsAhead /\ GotByRegistered
    /\ OnceInOrder /\ NeverToTheReplaced

-----------------------------------------------------------------------------
(* The session layer underneath.                                           *)

\* A step is one of the session layer or leaves it alone.
LEMMA PSStepIsSessionStep == [PSNext]_psVars => [Next]_sessionVars
<1>1. ASSUME NEW c \in Conns, PubSubStep(c) PROVE UNCHANGED sessionVars
  BY <1>1
  DEF PubSubStep, FanoutStep, FanoutSend, FanoutReturns, FanoutLookup, Publish, subscribe,
      unsubscribe
<1> QED
  BY <1>1 DEF PSNext, psVars

\* A registered connection keeps its service, and once it has lost its entry it
\* never gets it back.
LEMMA PastStays ==
    ASSUME IndInv, [Next]_sessionVars, NEW c \in Conns, phase[c] \in Past
    PROVE  /\ phase'[c] \in Past /\ svc'[c] = svc[c]
           /\ entries[svc[c]] # c => entries'[svc[c]] # c
<1>0. TypeOK /\ svc[c] \in Services /\ c # None
  BY SessionsAssumption DEF IndInv, TypeOK, Past, Numbered
<1> USE DEF Past, Numbered, Admitted
<1>1. ASSUME NEW s \in Services, Host(s)
      PROVE  /\ phase'[c] \in Past /\ svc'[c] = svc[c]
             /\ entries[svc[c]] # c => entries'[svc[c]] # c
  BY <1>1 DEF Host, issue_token, RegisterMethods, RegisterHandler
<1>2. ASSUME NEW d \in Conns, Peer(d)
      PROVE  /\ phase'[c] \in Past /\ svc'[c] = svc[c]
             /\ entries[svc[c]] # c => entries'[svc[c]] # c
  BY <1>0, <1>2 DEF TypeOK, Peer, accept_loop, RejectHello, Hello, WriterFails, ReaderEnds
<1>3. ASSUME NEW d \in Conns, Serve(d)
      PROVE  /\ phase'[c] \in Past /\ svc'[c] = svc[c]
             /\ entries[svc[c]] # c => entries'[svc[c]] # c
  BY <1>0, <1>3
  DEF TypeOK, Serve, TakeGeneration, InsertEntry, AckFails, AckWritten, attach_session,
      probe_capabilities, DetachCheck, DropCapabilities, Unlist, AbortWriter, remove_if
<1>4. ASSUME NEW d \in Conns, Probe(d)
      PROVE  /\ phase'[c] \in Past /\ svc'[c] = svc[c]
             /\ entries[svc[c]] # c => entries'[svc[c]] # c
  BY <1>4 DEF Probe, ProbeLocal, ProbeLookup, ProbeReturns, ProbeCheck, ProbeStore
<1>5. CASE UNCHANGED sessionVars
  BY <1>5 DEF sessionVars
<1> QED
  BY <1>1, <1>2, <1>3, <1>4, <1>5 DEF Next

\* The holder of an entry has registered, for that service.
LEMMA HolderIsPast ==
    ASSUME IndInv, NEW s \in Services, entries[s] # None
    PROVE  entries[s] \in Conns /\ phase[entries[s]] \in Past /\ svc[entries[s]] = s
BY DEF IndInv, TypeOK, NoDanglingEntry, Listed, Past, Numbered, Admitted

-----------------------------------------------------------------------------
(* Queues.                                                                 *)

\* What a queue holds.
LEMMA ElementsOfQueue ==
    ASSUME NEW S, NEW q \in Seq(S)
    PROVE  /\ Len(q) \in Nat /\ DOMAIN q = 1..Len(q)
           /\ \A i \in DOMAIN q : q[i] \in S /\ q # <<>>
OBVIOUS

\* Adding an event number at the end.
LEMMA AppendToQueue ==
    ASSUME NEW S, NEW q \in Seq(S), NEW e \in S
    PROVE  /\ Append(q, e) \in Seq(S) /\ Len(q) \in Nat
           /\ \A i \in DOMAIN Append(q, e) :
                 /\ i \in Nat
                 /\ \/ i \in DOMAIN q /\ i <= Len(q) /\ Append(q, e)[i] = q[i]
                    \/ i = Len(q) + 1 /\ Append(q, e)[i] = e
           /\ \A i \in DOMAIN q : i \in DOMAIN Append(q, e) /\ Append(q, e)[i] = q[i]
OBVIOUS

\* A queue of event numbers stays one when there are more events.
LEMMA QueueWidens ==
    ASSUME NEW n \in Nat, NEW q \in Seq(1..n)
    PROVE  q \in Seq(1..(n + 1))
OBVIOUS

-----------------------------------------------------------------------------
(* Steps.                                                                  *)

\* A connection whose reader is in a fanout is registered.
LEMMA FanoutIsPast ==
    ASSUME PubSubTypeOK, NEW c \in Conns, NEW f \in fan[c]
    PROVE  /\ phase[c] \in Past /\ f.n \in 1..Len(events) /\ f.n \in DOMAIN events
           /\ f.left \subseteq Services /\ f.to \in Conns \union {None}
           /\ f = [n |-> f.n, left |-> f.left, to |-> f.to]
           /\ \A g \in fan[c] : g = f
<1>1. f \in [n : 1..Len(events), left : SUBSET Services, to : Conns \union {None}]
  BY DEF PubSubTypeOK
<1>2. events \in Seq([by : Publishers, late : SUBSET Conns])
  BY DEF PubSubTypeOK
<1>3. f.n \in DOMAIN events
  BY <1>1, <1>2
<1> QED
  BY <1>1, <1>3 DEF PubSubTypeOK, Past, Numbered, Admitted

\* Events are records, numbered from 1.
LEMMA EventsAreRecords ==
    ASSUME PubSubTypeOK
    PROVE  /\ Len(events) \in Nat /\ DOMAIN events = 1..Len(events)
           /\ \A n \in DOMAIN events : /\ events[n].by \in Conns /\ events[n].late \subseteq Conns
                                       /\ n \in Nat /\ n <= Len(events)
<1> DEFINE S == [by : Publishers, late : SUBSET Conns]
<1>1. events \in Seq(S)
  BY DEF PubSubTypeOK
<1>2. \A e \in S : e.by \in Conns /\ e.late \subseteq Conns
  BY PubSubAssumption
<1> HIDE DEF S
<1>3. /\ Len(events) \in Nat /\ DOMAIN events = 1..Len(events)
      /\ \A n \in DOMAIN events : events[n] \in S
  BY <1>1, ElementsOfQueue
<1> QED
  BY <1>2, <1>3

\* What is queued on a channel is an event.
LEMMA GotAreEvents ==
    ASSUME PubSubTypeOK, NEW d \in Conns
    PROVE  /\ got[d] \in Seq(1..Len(events))
           /\ \A i \in DOMAIN got[d] :
                 /\ got[d][i] \in DOMAIN events /\ got[d][i] \in 1..Len(events)
                 /\ got[d] # <<>> /\ events[got[d][i]].by \in Conns
<1>1. got[d] \in Seq(1..Len(events))
  BY DEF PubSubTypeOK
<1>2. \A i \in DOMAIN got[d] : got[d][i] \in 1..Len(events) /\ got[d] # <<>>
  BY <1>1, ElementsOfQueue
<1> QED
  BY <1>1, <1>2, EventsAreRecords

\* Sessions come and go: the names behind the events, fanouts and queues stay.
LEMMA SessionStepKeeps ==
    ASSUME PSInv, [Next]_sessionVars, UNCHANGED pubsubVars,
           \A c \in Conns : fan[c] # {} => phase'[c] = phase[c]
    PROVE  PSInv'
<1> USE DEF PSInv
<1>0. UNCHANGED <<subs, events, fan, got>>
  BY DEF pubsubVars
<1>1. IndInv'
  BY IndInvStep
<1>2. \A c \in Conns : phase[c] \in Past =>
         /\ phase'[c] \in Past /\ svc'[c] = svc[c]
         /\ entries[svc[c]] # c => entries'[svc[c]] # c
  BY PastStays
<1>3. PubSubTypeOK'
  BY <1>0 DEF PubSubTypeOK
<1>4. EventsStay'
  BY <1>0, <1>2, EventsAreRecords DEF EventsStay
<1>5. GotByRegistered'
  BY <1>0, <1>2 DEF GotByRegistered
<1>6. \A d \in Conns : Got(d)' = Got(d) /\ (Got(d) # {} => svc'[d] = svc[d])
  <2>1. \A d \in Conns : Got(d) # {} => phase[d] \in Past
    BY GotAreEvents DEF Got, GotByRegistered
  <2> QED
    BY <1>0, <1>2, <2>1 DEF Got
<1>7. FanoutsAhead'
  <2> SUFFICES ASSUME NEW c \in Conns, NEW f \in fan[c]
               PROVE  /\ events[f.n].by = c
                      /\ \A m \in DOMAIN events : events[m].by = c => m <= f.n
                      /\ svc'[c] \notin Ahead(f)'
                      /\ \A d \in Conns : f.n \in Got(d) => svc'[d] \notin Ahead(f)'
                      /\ f.to # None => /\ phase'[f.to] \in Past /\ svc'[f.to] \notin f.left
                                        /\ f.to \notin events[f.n].late
    BY <1>0, <1>6 DEF FanoutsAhead
  <2>1. phase[c] \in Past /\ f.to \in Conns \union {None}
    BY FanoutIsPast
  <2>2. f.to # None => phase[f.to] \in Past /\ phase'[f.to] \in Past /\ svc'[f.to] = svc[f.to]
    BY <1>2, <2>1 DEF FanoutsAhead
  <2>3. Ahead(f)' = Ahead(f) /\ svc'[c] = svc[c]
    BY <1>2, <2>1, <2>2 DEF Ahead
  <2> QED
    BY <1>6, <2>2, <2>3 DEF FanoutsAhead
<1>8. OnceInOrder'
  <2>1. \A d \in Conns : \A i \in DOMAIN got[d] : phase[d] \in Past
    BY GotAreEvents DEF GotByRegistered
  <2> QED
    BY <1>0, <1>2, <2>1 DEF OnceInOrder
<1>9. NeverToTheReplaced'
  <2> SUFFICES ASSUME NEW d \in Conns, NEW i \in DOMAIN got[d]
               PROVE  /\ d \notin events[got[d][i]].late
                      /\ svc'[d] # svc'[events[got[d][i]].by]
    BY <1>0 DEF NeverToTheReplaced
  <2>1. phase[d] \in Past /\ got[d][i] \in DOMAIN events /\ events[got[d][i]].by \in Conns
    BY GotAreEvents DEF GotByRegistered
  <2>2. phase[events[got[d][i]].by] \in Past
    BY <2>1 DEF EventsStay
  <2> QED
    BY <1>2, <2>1, <2>2 DEF NeverToTheReplaced
<1> QED
  BY <1>1, <1>3, <1>4, <1>5, <1>7, <1>8, <1>9

\* Fanout f may become g: g has no more to do and has looked up nobody wrong.
Moves(f, g) ==
    /\ g \in [n : 1..Len(events), left : SUBSET Services, to : Conns \union {None}]
    /\ g.n = f.n /\ Ahead(g) \subseteq Ahead(f)
    /\ g.to # None => /\ phase[g.to] \in Past /\ svc[g.to] \notin g.left
                      /\ g.to \notin events[f.n].late

\* A step within a fanout of c that sends nothing: f becomes g, or goes.
Becomes(c, f, G) ==
    /\ fan' = [fan EXCEPT ![c] = (@ \ {f}) \union G]
    /\ \A g \in G : Moves(f, g)
    /\ \A g, h \in G : g = h
    /\ UNCHANGED <<sessionVars, subs, events, got>>

\* Such a step preserves the invariant.
LEMMA FanoutMoves ==
    ASSUME PSInv, NEW c \in Conns, NEW f \in fan[c], NEW G, Becomes(c, f, G)
    PROVE  PSInv'
<1> USE DEF PSInv, Moves, Becomes
<1>0. \A d \in Conns : /\ d # c => fan'[d] = fan[d]
                       /\ d = c => fan'[d] = G
  BY FanoutIsPast DEF PubSubTypeOK
<1>1. IndInv'
  BY IndInvStep
<1>2. PubSubTypeOK'
  <2>1. phase[c] = "serving"
    BY DEF PubSubTypeOK
  <2>2. fan' \in [Conns -> SUBSET [n : 1..Len(events), left : SUBSET Services,
                                   to : Conns \union {None}]]
    BY <1>0 DEF PubSubTypeOK
  <2>3. \A d \in Conns : \A g, h \in fan'[d] : phase'[d] = "serving" /\ g = h
    BY <1>0, <2>1 DEF PubSubTypeOK, sessionVars
  <2> QED
    BY <2>2, <2>3 DEF PubSubTypeOK
<1>3. EventsStay' /\ GotByRegistered' /\ OnceInOrder' /\ NeverToTheReplaced'
  BY DEF EventsStay, GotByRegistered, OnceInOrder, NeverToTheReplaced, sessionVars
<1>4. FanoutsAhead'
  <2>1. \A g : Ahead(g)' = Ahead(g)
    BY DEF Ahead, sessionVars
  <2>2. \A d \in Conns : Got(d)' = Got(d)
    BY DEF Got
  <2>3. \A d \in Conns : \A g \in fan'[d] :
           \/ g \in fan[d]
           \/ d = c /\ g \in G
    BY <1>0
  <2>4. \A g \in G : /\ events[g.n].by = c
                     /\ \A m \in DOMAIN events : events[m].by = c => m <= g.n
                     /\ svc[c] \notin Ahead(g)
                     /\ \A d \in Conns : g.n \in Got(d) => svc[d] \notin Ahead(g)
    BY DEF FanoutsAhead
  <2> QED
    BY <2>1, <2>2, <2>3, <2>4 DEF FanoutsAhead, sessionVars
<1> QED
  BY <1>1, <1>2, <1>3, <1>4

\* A Subscribe or Unsubscribe frame changes the subscriptions alone.
LEMMA SubscriptionsChange ==
    ASSUME PSInv, subs' \in [Services -> SUBSET Prefixes],
           UNCHANGED <<sessionVars, events, fan, got>>
    PROVE  PSInv'
<1> USE DEF PSInv
<1>1. IndInv'
  BY IndInvStep
<1>2. PubSubTypeOK'
  BY DEF PubSubTypeOK, sessionVars
<1>3. EventsStay' /\ GotByRegistered' /\ OnceInOrder' /\ NeverToTheReplaced'
  BY DEF EventsStay, GotByRegistered, OnceInOrder, NeverToTheReplaced, sessionVars
<1>4. FanoutsAhead'
  <2>1. \A g : Ahead(g)' = Ahead(g)
    BY DEF Ahead, sessionVars
  <2>2. \A d \in Conns : Got(d)' = Got(d)
    BY DEF Got
  <2> QED
    BY <2>1, <2>2 DEF FanoutsAhead, sessionVars
<1> QED
  BY <1>1, <1>2, <1>3, <1>4

\* A new event has a number of its own, and the events before it stay.
LEMMA NewEvent ==
    ASSUME PubSubTypeOK, NEW e \in [by : Publishers, late : SUBSET Conns],
           events' = Append(events, e)
    PROVE  /\ events' \in Seq([by : Publishers, late : SUBSET Conns])
           /\ Len(events') = Len(events) + 1
           /\ DOMAIN events' = DOMAIN events \union {Len(events) + 1}
           /\ Len(events) + 1 \notin DOMAIN events
           /\ events'[Len(events) + 1] = e
           /\ \A n \in DOMAIN events : events'[n] = events[n]
<1> DEFINE S == [by : Publishers, late : SUBSET Conns]
<1>1. events \in Seq(S) /\ e \in S
  BY DEF PubSubTypeOK
<1> HIDE DEF S
<1>2. /\ events' \in Seq(S)
      /\ Len(events') = Len(events) + 1
      /\ DOMAIN events' = DOMAIN events \union {Len(events) + 1}
      /\ Len(events) + 1 \notin DOMAIN events
      /\ events'[Len(events) + 1] = e
      /\ \A n \in DOMAIN events : events'[n] = events[n]
  BY <1>1
<1> QED
  BY <1>2 DEF S

\* The event of a Publish frame is about nobody's past.
LEMMA PublishStep ==
    ASSUME PSInv, NEW c \in Conns, NEW t \in Topics, Publish(c, t)
    PROVE  PSInv'
<1> DEFINE n == Len(events) + 1
           new == [n |-> n, left |-> Targets(svc[c], t), to |-> None]
           e == [by |-> c, late |-> Replaced]
<1> USE DEF PSInv
<1>0. /\ c \in Publishers /\ phase[c] = "serving" /\ fan[c] = {} /\ Len(events) < MaxEvents
      /\ events' = Append(events, e)
      /\ fan' = [fan EXCEPT ![c] = @ \union {new}]
      /\ UNCHANGED <<sessionVars, subs, got>>
  BY DEF Publish, ReaderFree
<1>1. IndInv'
  BY <1>0, IndInvStep
<1>2. e \in [by : Publishers, late : SUBSET Conns] /\ e.by = c /\ e.late = Replaced
  BY <1>0 DEF Replaced
<1>3. /\ events' \in Seq([by : Publishers, late : SUBSET Conns])
      /\ Len(events') = n /\ DOMAIN events' = DOMAIN events \union {n}
      /\ n \notin DOMAIN events /\ events'[n] = e
      /\ \A m \in DOMAIN events : events'[m] = events[m]
  <2> HIDE DEF e
  <2> QED
    BY <1>0, <1>2, NewEvent
<1>4. /\ Len(events) \in Nat /\ DOMAIN events = 1..Len(events)
      /\ \A m \in DOMAIN events : /\ events[m].by \in Conns /\ events[m].late \subseteq Conns
                                  /\ m \in Nat /\ m <= Len(events)
  BY EventsAreRecords
<1>5. n \in 1..n /\ \A m \in DOMAIN events : m \in 1..n /\ m <= n
  BY <1>4
<1>6. Targets(svc[c], t) \subseteq Services /\ svc[c] \notin Targets(svc[c], t)
  BY DEF Targets
<1>7. /\ new.n = n /\ new.left = Targets(svc[c], t) /\ new.to = None
      /\ new \in [n : 1..n, left : SUBSET Services, to : Conns \union {None}]
  BY <1>5, <1>6
<1>8. /\ UNCHANGED <<phase, svc, entries>>
      /\ \A d \in Conns : /\ d # c => fan'[d] = fan[d]
                          /\ d = c => fan'[d] = {new}
  BY <1>0 DEF PubSubTypeOK, sessionVars
<1>9. c \in Conns /\ phase[c] \in Past
  BY <1>0 DEF Past, Numbered, Admitted
<1> HIDE DEF new, e, n
<1>10. PubSubTypeOK'
  <2>1. n <= MaxEvents
    BY <1>0, <1>4, PubSubAssumption DEF n
  <2>2. got' \in [Conns -> Seq(1..n)]
    <3>1. \A d \in Conns : got[d] \in Seq(1..n)
      BY <1>4, QueueWidens DEF PubSubTypeOK, n
    <3> QED
      BY <1>0, <3>1 DEF PubSubTypeOK
  <2>3. fan' \in [Conns -> SUBSET [n : 1..n, left : SUBSET Services, to : Conns \union {None}]]
    <3>1. \A d \in Conns : \A f \in fan[d] :
             f \in [n : 1..n, left : SUBSET Services, to : Conns \union {None}]
      BY <1>4, <1>5, FanoutIsPast
    <3>2. fan \in [Conns -> SUBSET [n : 1..Len(events), left : SUBSET Services,
                                    to : Conns \union {None}]]
      BY DEF PubSubTypeOK
    <3> QED
      BY <1>0, <1>7, <1>8, <3>1, <3>2
  <2>4. \A d \in Conns : \A f, g \in fan'[d] : phase'[d] = "serving" /\ f = g
    BY <1>0, <1>8 DEF PubSubTypeOK
  <2> QED
    BY <1>0, <1>3, <2>1, <2>2, <2>3, <2>4 DEF PubSubTypeOK
<1>11. EventsStay'
  <2>1. \A d \in Replaced : phase[d] \in Past /\ entries[svc[d]] # d
    BY DEF Replaced, Past
  <2> QED
    BY <1>2, <1>3, <1>8, <1>9, <2>1 DEF EventsStay
<1>12. GotByRegistered'
  BY <1>0, <1>8 DEF GotByRegistered
<1>13. \A d \in Conns : /\ Got(d)' = Got(d) /\ n \notin Got(d)
                        /\ \A i \in DOMAIN got[d] : got[d][i] \in DOMAIN events
  BY <1>0, <1>3, GotAreEvents DEF Got
<1>14. FanoutsAhead'
  <2>1. \A g : Ahead(g)' = Ahead(g)
    BY <1>8 DEF Ahead
  <2>2. ASSUME NEW d \in Conns, NEW f \in fan'[d], d # c
        PROVE  /\ events'[f.n].by = d
               /\ \A m \in DOMAIN events' : events'[m].by = d => m <= f.n
               /\ svc[d] \notin Ahead(f)
               /\ \A x \in Conns : f.n \in Got(x) => svc[x] \notin Ahead(f)
               /\ f.to # None => /\ phase[f.to] \in Past /\ svc[f.to] \notin f.left
                                 /\ f.to \notin events'[f.n].late
    <3>1. f \in fan[d] /\ f.n \in DOMAIN events
      BY <1>8, <2>2, FanoutIsPast
    <3> QED
      BY <1>2, <1>3, <2>2, <3>1 DEF FanoutsAhead
  <2>3. /\ events'[new.n].by = c
        /\ \A m \in DOMAIN events' : events'[m].by = c => m <= new.n
        /\ svc[c] \notin Ahead(new)
        /\ \A x \in Conns : new.n \in Got(x) => svc[x] \notin Ahead(new)
        /\ new.to = None
    <3>1. \A m \in DOMAIN events' : m <= n
      BY <1>3, <1>4, <1>5 DEF n
    <3> QED
      BY <1>2, <1>3, <1>6, <1>7, <1>13, <3>1 DEF Ahead
  <2> QED
    BY <1>8, <1>13, <2>1, <2>2, <2>3 DEF FanoutsAhead
<1>15. OnceInOrder'
  BY <1>0, <1>3, <1>8, <1>13 DEF OnceInOrder
<1>16. NeverToTheReplaced'
  BY <1>0, <1>3, <1>8, <1>13 DEF NeverToTheReplaced
<1> QED
  BY <1>1, <1>10, <1>11, <1>12, <1>14, <1>15, <1>16

\* The entry fanout looks up is of a session that was not replaced before.
LEMMA LookupStep ==
    ASSUME PSInv, NEW c \in Conns, NEW f \in fan[c], NEW s \in Services, FanoutLookup(c, f, s)
    PROVE  PSInv'
<1> DEFINE g == [n |-> f.n, left |-> f.left \ {s}, to |-> entries[s]]
<1>0. /\ f.to = None /\ s \in f.left
      /\ fan' = [fan EXCEPT ![c] = (@ \ {f}) \union {g}]
      /\ UNCHANGED <<sessionVars, subs, events, got>>
  BY DEF FanoutLookup, LookedUp
<1>1. /\ f.n \in 1..Len(events) /\ f.n \in DOMAIN events
      /\ f.left \subseteq Services /\ f = [n |-> f.n, left |-> f.left, to |-> f.to]
  BY FanoutIsPast DEF PSInv
<1>2. entries[s] \in Conns \union {None}
  BY DEF PSInv, IndInv, TypeOK
<1>3. /\ g.n = f.n /\ g.left = f.left \ {s} /\ g.to = entries[s]
      /\ g \in [n : 1..Len(events), left : SUBSET Services, to : Conns \union {None}]
  BY <1>1, <1>2
<1> HIDE DEF g
<1>4. g.to # None => /\ phase[g.to] \in Past /\ svc[g.to] = s
                     /\ g.to \notin events[f.n].late
  BY <1>1, <1>3, HolderIsPast DEF PSInv, EventsStay
<1>5. Ahead(g) \subseteq Ahead(f)
  BY <1>0, <1>3, <1>4 DEF Ahead
<1>6. Moves(f, g)
  BY <1>3, <1>4, <1>5 DEF Moves
<1>7. Becomes(c, f, {g})
  BY <1>0, <1>6 DEF Becomes
<1> QED
  BY <1>7, FanoutMoves

\* fanout has served everyone and the reader goes on.
LEMMA ReturnStep ==
    ASSUME PSInv, NEW c \in Conns, NEW f \in fan[c], FanoutReturns(c, f)
    PROVE  PSInv'
<1>1. Becomes(c, f, {})
  BY DEF FanoutReturns, Becomes
<1> QED
  BY <1>1, FanoutMoves

\* The event goes to the session looked up: it had not been sent to the
\* service before, and it is younger than the publisher's events already there.
LEMMA SendStep ==
    ASSUME PSInv, NEW c \in Conns, NEW f \in fan[c], FanoutSend(c, f)
    PROVE  PSInv'
<1> DEFINE d == f.to
           g == [f EXCEPT !.to = None]
<1>0. /\ d # None
      /\ got' = IF ChannelOpen(d) THEN [got EXCEPT ![d] = Append(@, f.n)] ELSE got
      /\ fan' = [fan EXCEPT ![c] = (@ \ {f}) \union {g}]
      /\ UNCHANGED <<sessionVars, subs, events>>
  BY DEF FanoutSend
<1>1. /\ f.n \in 1..Len(events) /\ f.n \in DOMAIN events /\ d \in Conns
      /\ f.left \subseteq Services /\ f = [n |-> f.n, left |-> f.left, to |-> f.to]
      /\ \A h \in fan[c] : h = f
  BY <1>0, FanoutIsPast DEF PSInv
<1>2. g = [n |-> f.n, left |-> f.left, to |-> None]
  BY <1>1
<1>3. /\ g.n = f.n /\ g.left = f.left /\ g.to = None
      /\ g \in [n : 1..Len(events), left : SUBSET Services, to : Conns \union {None}]
  BY <1>1, <1>2
<1>4. /\ phase[d] \in Past /\ svc[d] \notin f.left /\ d \notin events[f.n].late
      /\ svc[c] # svc[d] /\ events[f.n].by = c
      /\ \A m \in DOMAIN events : events[m].by = c => m <= f.n
      /\ \A x \in Conns : f.n \in Got(x) => svc[x] # svc[d]
      /\ Ahead(f) = f.left \union {svc[d]}
  BY <1>0, <1>1 DEF PSInv, FanoutsAhead, Ahead
<1>5. Ahead(g) = f.left /\ Ahead(g) \subseteq Ahead(f)
  BY <1>3, <1>4 DEF Ahead
<1> HIDE DEF g, d
<1>6. CASE ~ChannelOpen(d)
  <2>1. UNCHANGED <<sessionVars, subs, events, got>>
    BY <1>0, <1>6
  <2>2. Moves(f, g)
    BY <1>3, <1>5 DEF Moves
  <2>3. Becomes(c, f, {g})
    BY <1>0, <2>1, <2>2 DEF Becomes
  <2> QED
    BY <2>3, FanoutMoves
<1>7. CASE ChannelOpen(d)
  <2> USE DEF PSInv
  <2>0. /\ got' = [got EXCEPT ![d] = Append(@, f.n)]
        /\ UNCHANGED <<phase, svc, entries, events, subs>>
    BY <1>0, <1>7 DEF sessionVars
  <2>1. got[d] \in Seq(1..Len(events))
    BY <1>1, GotAreEvents
  <2>2. /\ \A x \in Conns \ {d} : got'[x] = got[x]
        /\ got'[d] = Append(got[d], f.n)
    BY <1>1, <2>0 DEF PubSubTypeOK
  <2>3. /\ got'[d] \in Seq(1..Len(events)) /\ Len(got[d]) \in Nat
        /\ \A i \in DOMAIN got'[d] :
              /\ i \in Nat
              /\ \/ i \in DOMAIN got[d] /\ i <= Len(got[d]) /\ got'[d][i] = got[d][i]
                 \/ i = Len(got[d]) + 1 /\ got'[d][i] = f.n
        /\ \A i \in DOMAIN got[d] : i \in DOMAIN got'[d] /\ got'[d][i] = got[d][i]
    BY <1>1, <2>1, <2>2, AppendToQueue
  <2>4. \A x \in Conns : /\ d # x => Got(x)' = Got(x)
                         /\ Got(x)' \subseteq Got(x) \union (IF x = d THEN {f.n} ELSE {})
    <3>1. \A x \in Conns : d # x => Got(x)' = Got(x)
      BY <2>2 DEF Got
    <3>2. Got(d)' \subseteq Got(d) \union {f.n}
      BY <2>3 DEF Got
    <3> QED
      BY <3>1, <3>2
  <2>5. \A x \in Conns : /\ x # c => fan'[x] = fan[x]
                         /\ x = c => fan'[x] = {g}
    BY <1>0, <1>1 DEF PubSubTypeOK
  <2>6. IndInv'
    BY <1>0, IndInvStep
  <2>7. PubSubTypeOK'
    <3>1. got' \in [Conns -> Seq(1..Len(events))]
      BY <1>1, <2>0, <2>2, <2>3 DEF PubSubTypeOK
    <3>2. fan' \in [Conns -> SUBSET [n : 1..Len(events), left : SUBSET Services,
                                     to : Conns \union {None}]]
      BY <1>0, <1>3, <2>5 DEF PubSubTypeOK
    <3>3. \A x \in Conns : \A h, k \in fan'[x] : phase'[x] = "serving" /\ h = k
      BY <2>0, <2>5 DEF PubSubTypeOK
    <3> QED
      BY <2>0, <3>1, <3>2, <3>3 DEF PubSubTypeOK
  <2>8. EventsStay'
    BY <2>0 DEF EventsStay
  <2>9. GotByRegistered'
    BY <1>4, <2>0, <2>2 DEF GotByRegistered
  <2>10. FanoutsAhead'
    <3>1. \A h : Ahead(h)' = Ahead(h)
      BY <2>0 DEF Ahead
    <3>2. ASSUME NEW x \in Conns, NEW h \in fan'[x], x # c
          PROVE  /\ h \in fan[x]
                 /\ \A y \in Conns : h.n \in Got(y)' => svc[y] \notin Ahead(h)
      <4>1. h \in fan[x] /\ events[h.n].by = x
        BY <2>5, <3>2 DEF FanoutsAhead
      <4>2. h.n # f.n
        BY <1>4, <3>2, <4>1
      <4>3. \A y \in Conns : h.n \in Got(y)' => h.n \in Got(y)
        BY <2>4, <4>2
      <4> QED
        BY <4>1, <4>3 DEF FanoutsAhead
    <3>3. \A y \in Conns : g.n \in Got(y)' => svc[y] \notin Ahead(g)
      <4> SUFFICES ASSUME NEW y \in Conns, f.n \in Got(y)'
                   PROVE  svc[y] \notin f.left
        BY <1>3, <1>5
      <4>1. CASE y = d
        BY <1>4, <4>1
      <4>2. CASE y # d
        <5>1. f.n \in Got(y)
          BY <2>4, <4>2
        <5> QED
          BY <1>4, <5>1 DEF FanoutsAhead
      <4> QED
        BY <4>1, <4>2
    <3>4. svc[c] \notin Ahead(g)
      BY <1>5 DEF FanoutsAhead
    <3>5. \A h \in fan'[c] : h = g
      BY <2>5
    <3> QED
      BY <1>3, <1>4, <2>0, <3>1, <3>2, <3>3, <3>4, <3>5 DEF FanoutsAhead
  <2>11. OnceInOrder'
    <3>1. \A x \in Conns : \A i \in DOMAIN got[x] :
             /\ got[x][i] \in DOMAIN events /\ got[x][i] \in Nat
             /\ svc[x] = svc[d] => got[x][i] # f.n
             /\ x = d /\ events[got[x][i]].by = c => got[x][i] < f.n
      <4>1. \A x \in Conns : \A i \in DOMAIN got[x] :
               /\ got[x][i] \in DOMAIN events /\ got[x][i] \in 1..Len(events)
               /\ got[x][i] \in Got(x)
        BY GotAreEvents DEF Got
      <4> QED
        BY <1>1, <1>4, <4>1, EventsAreRecords
    <3> SUFFICES ASSUME NEW x \in Conns, NEW y \in Conns, svc[x] = svc[y],
                        NEW i \in DOMAIN got'[x], NEW j \in DOMAIN got'[y]
                 PROVE  /\ got'[x][i] = got'[y][j] => x = y /\ i = j
                        /\ (x = y /\ i < j /\ events[got'[x][i]].by = events[got'[x][j]].by)
                              => got'[x][i] < got'[x][j]
      BY <2>0 DEF OnceInOrder
    <3>2. \/ i \in DOMAIN got[x] /\ got'[x][i] = got[x][i]
          \/ x = d /\ i = Len(got[d]) + 1 /\ got'[x][i] = f.n
      BY <2>2, <2>3
    <3>3. \/ j \in DOMAIN got[y] /\ got'[y][j] = got[y][j]
          \/ y = d /\ j = Len(got[d]) + 1 /\ got'[y][j] = f.n
      BY <2>2, <2>3
    <3>4. CASE i \in DOMAIN got[x] /\ got'[x][i] = got[x][i]
               /\ j \in DOMAIN got[y] /\ got'[y][j] = got[y][j]
      BY <3>4 DEF OnceInOrder
    <3>5. CASE i \in DOMAIN got[x] /\ got'[x][i] = got[x][i]
               /\ y = d /\ j = Len(got[d]) + 1 /\ got'[y][j] = f.n
      BY <1>4, <3>1, <3>5
    <3>6. CASE x = d /\ i = Len(got[d]) + 1 /\ got'[x][i] = f.n
               /\ j \in DOMAIN got[y] /\ got'[y][j] = got[y][j]
      <4>1. got'[x][i] # got'[y][j]
        BY <3>1, <3>6
      <4>2. x = y => ~(i < j)
        <5>1. x = y => j \in 1..Len(got[d])
          BY <2>1, <3>6
        <5> QED
          BY <2>3, <3>6, <5>1
      <4> QED
        BY <4>1, <4>2
    <3>7. CASE x = d /\ i = Len(got[d]) + 1 /\ y = d /\ j = Len(got[d]) + 1
      BY <2>3, <3>7
    <3> QED
      BY <3>2, <3>3, <3>4, <3>5, <3>6, <3>7
  <2>12. NeverToTheReplaced'
    <3> SUFFICES ASSUME NEW x \in Conns, NEW i \in DOMAIN got'[x]
                 PROVE  /\ x \notin events[got'[x][i]].late
                        /\ svc[x] # svc[events[got'[x][i]].by]
      BY <2>0 DEF NeverToTheReplaced
    <3>1. \/ i \in DOMAIN got[x] /\ got'[x][i] = got[x][i]
          \/ x = d /\ got'[x][i] = f.n
      BY <2>2, <2>3
    <3> QED
      BY <1>4, <3>1 DEF NeverToTheReplaced
  <2> QED
    BY <2>6, <2>7, <2>8, <2>9, <2>10, <2>11, <2>12
<1> QED
  BY <1>6, <1>7

\* Every step preserves the inductive invariant.
LEMMA PSInvStep == PSInv /\ [PSNext]_psVars => PSInv'
<1> SUFFICES ASSUME PSInv, [PSNext]_psVars PROVE PSInv'
  OBVIOUS
<1>0. [Next]_sessionVars
  BY PSStepIsSessionStep
<1>1. CASE UNCHANGED psVars
  BY <1>0, <1>1, SessionStepKeeps DEF psVars, sessionVars
<1>2. CASE /\ Next /\ UNCHANGED pubsubVars
           /\ \A c \in Conns : fan[c] # {} => phase'[c] = phase[c]
  BY <1>0, <1>2, SessionStepKeeps
<1>3. ASSUME NEW c \in Conns, FanoutStep(c) PROVE PSInv'
  BY <1>3, SendStep, ReturnStep, LookupStep DEF FanoutStep
<1>4. ASSUME NEW c \in Conns, NEW t \in Topics, Publish(c, t) PROVE PSInv'
  BY <1>4, PublishStep
<1>5. ASSUME NEW c \in Conns, NEW p \in Prefixes, subscribe(c, p) \/ unsubscribe(c, p)
      PROVE  PSInv'
  <2>1. svc[c] \in Services /\ subs \in [Services -> SUBSET Prefixes]
    BY <1>5 DEF PSInv, IndInv, TypeOK, PubSubTypeOK, subscribe, unsubscribe, ReaderFree, Admitted
  <2>2. subs' \in [Services -> SUBSET Prefixes]
    BY <1>5, <2>1 DEF subscribe, unsubscribe
  <2>3. UNCHANGED <<sessionVars, events, fan, got>>
    BY <1>5 DEF subscribe, unsubscribe
  <2> QED
    BY <2>2, <2>3, SubscriptionsChange
<1> QED
  BY <1>1, <1>2, <1>3, <1>4, <1>5 DEF PSNext, PubSubStep

-----------------------------------------------------------------------------

\* With publish and subscribe on top, the session layer still does nothing but
\* its own steps: all that is proved of Sessions holds of it.
THEOREM PubSubImplementsSessions == PSSpec => Spec
BY PSStepIsSessionStep, PTL DEF PSSpec, Spec

\* The inductive invariant of publish and subscribe, on top of the sessions'.
THEOREM PubSubInvariant == PSSpec => []PSInv
<1>1. Init /\ PubSubInit => PSInv
  <2> SUFFICES ASSUME Init, PubSubInit PROVE PSInv
    OBVIOUS
  <2>1. IndInv
    BY IndInvInit
  <2>2. PubSubTypeOK
    BY PubSubAssumption DEF PubSubInit, PubSubTypeOK
  <2>3. EventsStay /\ FanoutsAhead /\ GotByRegistered /\ OnceInOrder /\ NeverToTheReplaced
    BY DEF PubSubInit, EventsStay, FanoutsAhead, GotByRegistered, OnceInOrder, NeverToTheReplaced
  <2> QED
    BY <2>1, <2>2, <2>3 DEF PSInv
<1> QED
  BY <1>1, PSInvStep, PTL DEF PSSpec

\* The state of publish and subscribe keeps its types, and a reader is in one
\* fanout at most and only while it serves.
THEOREM PubSubTypeCorrect == PSSpec => []PubSubTypeOK
<1>1. PSInv => PubSubTypeOK
  BY DEF PSInv
<1> QED
  BY <1>1, PubSubInvariant, PTL

\* A service gets an event once over all its sessions, and each of them gets a
\* publisher's events in the order they were published.
THEOREM EventsComeOnceInOrder == PSSpec => []OnceInOrder
<1>1. PSInv => OnceInOrder
  BY DEF PSInv
<1> QED
  BY <1>1, PubSubInvariant, PTL

\* No event reaches a session that was replaced before it was published, nor
\* the service that published it.
THEOREM ReplacedHearNothing == PSSpec => []NeverToTheReplaced
<1>1. PSInv => NeverToTheReplaced
  BY DEF PSInv
<1> QED
  BY <1>1, PubSubInvariant, PTL

-----------------------------------------------------------------------------
(* Nothing is dropped on the way.                                          *)

\* Event n is on its way to d: a fanout has looked d up, or has yet to look up
\* service s, whose entry is d's.
OnItsWay(n, s, d) ==
    \E c \in Conns : \E f \in fan[c] :
        f.n = n /\ (f.to = d \/ (s \in f.left /\ entries[s] = d))

\* The safety half of SubscribersHear.  fanout collects the services under the lock
\* and looks their entries up after it, one by one: an event on its way to a
\* session is queued there, unless the session has lost its entry by the time of
\* the lookup or its channel is closed by the time of the send.
NoEventDropped ==
    [][\A n \in 1..Len(events), s \in Services, d \in Conns :
          OnItsWay(n, s, d) =>
              \/ OnItsWay(n, s, d)' \/ n \in Got(d)'
              \/ entries'[s] # d \/ ~ChannelOpen(d)]_psVars

\* What a step of a fanout does to one event and one session.
LEMMA FanoutKeeps ==
    ASSUME PSInv, NEW c \in Conns, FanoutStep(c),
           NEW n, NEW s \in Services, NEW d \in Conns, OnItsWay(n, s, d), ChannelOpen(d)
    PROVE  OnItsWay(n, s, d)' \/ n \in Got(d)'
<1>0. PICK b \in Conns :
         \E f \in fan[b] : f.n = n /\ (f.to = d \/ (s \in f.left /\ entries[s] = d))
  BY DEF OnItsWay
<1>1. PICK f \in fan[b] : f.n = n /\ (f.to = d \/ (s \in f.left /\ entries[s] = d))
  BY <1>0
<1>2. PICK g \in fan[c] :
         FanoutSend(c, g) \/ FanoutReturns(c, g) \/ \E r \in Services : FanoutLookup(c, g, r)
  BY DEF FanoutStep
<1>3. /\ fan \in [Conns -> SUBSET [n : 1..Len(events), left : SUBSET Services,
                                   to : Conns \union {None}]]
      /\ d # None /\ PubSubTypeOK
  BY SessionsAssumption DEF PSInv, PubSubTypeOK
<1>4. UNCHANGED sessionVars
  BY <1>2 DEF FanoutSend, FanoutReturns, FanoutLookup
<1>5. entries' = entries
  BY <1>4 DEF sessionVars
<1>6. CASE b # c
  <2>1. fan'[b] = fan[b]
    BY <1>2, <1>3, <1>6 DEF FanoutSend, FanoutReturns, FanoutLookup, LookedUp
  <2> QED
    BY <1>1, <1>5, <2>1 DEF OnItsWay
<1>7. CASE b = c
  <2>0. g = f
    BY <1>7, <1>3, FanoutIsPast
  <2>1. CASE FanoutSend(c, f)
    <3> DEFINE h == [f EXCEPT !.to = None]
    <3>1. f = [n |-> f.n, left |-> f.left, to |-> f.to] /\ f.n \in 1..Len(events)
      BY <1>3, <1>7, FanoutIsPast
    <3>2. h.n = f.n /\ h.left = f.left
      BY <3>1
    <3>3. h \in fan'[c]
      BY <1>3, <2>1 DEF FanoutSend
    <3> HIDE DEF h
    <3>4. CASE f.to # d
      BY <1>1, <1>5, <3>2, <3>3, <3>4 DEF OnItsWay
    <3>5. CASE f.to = d
      <4>1. got' = [got EXCEPT ![d] = Append(@, n)]
        BY <1>1, <2>1, <3>5 DEF FanoutSend
      <4>2. got[d] \in Seq(1..Len(events)) /\ n \in 1..Len(events)
        BY <1>1, <1>3, <3>1, GotAreEvents
      <4>3. got'[d] = Append(got[d], n)
        BY <1>3, <4>1 DEF PubSubTypeOK
      <4>4. Len(got[d]) + 1 \in DOMAIN got'[d] /\ got'[d][Len(got[d]) + 1] = n
        BY <4>2, <4>3
      <4> QED
        BY <4>4 DEF Got
    <3> QED
      BY <3>4, <3>5
  <2>2. CASE FanoutReturns(c, f)
    BY <1>1, <1>3, <2>2 DEF FanoutReturns
  <2>3. ASSUME NEW r \in Services, FanoutLookup(c, f, r) PROVE OnItsWay(n, s, d)'
    <3> DEFINE h == [n |-> f.n, left |-> f.left \ {r}, to |-> entries[r]]
    <3>1. f.to = None /\ h \in fan'[c]
      BY <1>3, <2>3 DEF FanoutLookup, LookedUp
    <3>2. s \in f.left /\ entries[s] = d
      BY <1>1, <1>3, <3>1
    <3>3. h.n = n /\ (h.to = d \/ s \in h.left)
      BY <1>1, <3>2
    <3> HIDE DEF h
    <3> QED
      BY <1>5, <3>1, <3>2, <3>3 DEF OnItsWay
  <2> QED
    BY <1>2, <2>0, <2>1, <2>2, <2>3
<1> QED
  BY <1>6, <1>7

\* An event that is on its way to a session is never forgotten.
THEOREM EventsAreNotDropped == PSSpec => NoEventDropped
<1> DEFINE A == \A n \in 1..Len(events), s \in Services, d \in Conns :
                   OnItsWay(n, s, d) =>
                      \/ OnItsWay(n, s, d)' \/ n \in Got(d)'
                      \/ entries'[s] # d \/ ~ChannelOpen(d)
<1>1. ASSUME PSInv, [PSNext]_psVars PROVE [A]_psVars
  <2> SUFFICES ASSUME NEW n \in 1..Len(events), NEW s \in Services, NEW d \in Conns,
                      OnItsWay(n, s, d), ChannelOpen(d), entries'[s] = d, ~UNCHANGED psVars
               PROVE  OnItsWay(n, s, d)' \/ n \in Got(d)'
    OBVIOUS
  <2>1. ASSUME NEW c \in Conns, FanoutStep(c) PROVE OnItsWay(n, s, d)' \/ n \in Got(d)'
    BY <1>1, <2>1, FanoutKeeps
  <2>2. CASE UNCHANGED pubsubVars
    BY <2>2 DEF OnItsWay, pubsubVars
  <2>3. ASSUME NEW c \in Conns, NEW t \in Topics, Publish(c, t)
        PROVE  OnItsWay(n, s, d)'
    <3>1. \A b \in Conns : fan[b] \subseteq fan'[b]
      BY <1>1, <2>3 DEF Publish, PSInv, PubSubTypeOK
    <3> QED
      BY <3>1 DEF OnItsWay
  <2>4. ASSUME NEW c \in Conns, NEW p \in Prefixes, subscribe(c, p) \/ unsubscribe(c, p)
        PROVE  OnItsWay(n, s, d)'
    BY <2>4 DEF OnItsWay, subscribe, unsubscribe
  <2> QED
    BY <1>1, <2>1, <2>2, <2>3, <2>4 DEF PSNext, PubSubStep
<1> QED
  BY <1>1, PubSubInvariant, PTL DEF PSSpec, NoEventDropped

=============================================================================
