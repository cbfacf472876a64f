--------------------------- MODULE AppCallsProofs ---------------------------
(***************************************************************************)
(* Proofs about the calls that apps make of one another, on top of those   *)
(* about the call router: an app is told of its own call, for any number   *)
(* of apps, connections and calls.                                         *)
(***************************************************************************)
EXTENDS AppCalls, CallsProofs

\* Where the requests came from: no two from the same place.
Origins ==
    /\ \A k \in Apped : stage[k] = "none" <=> origin[k] = None
    /\ \A k \in Apped : origin[k] # None => origin[k][2] <= asked[origin[k][1]]
    /\ \A k, l \in Apped : origin[k] # None /\ origin[k] = origin[l] => k = l

\* What may be said of call k: that it was malformed, or how it has ended.
Tells(k, o) == o = "BadRequest" \/ (pc[k] = "done" /\ result[k] = o)

\* A Response is on the connection its request came on, under its id, and tells
\* of that request.
RepliesTell ==
    \A c \in Conns : \A f \in replies[c] :
        origin[f.call] = <<c, f.id>> /\ Tells(f.call, f.outcome)

HeardTells ==
    \A k \in Apped : heard[k] # None => \E o : heard[k] = <<k, o>> /\ Tells(k, o)

AppTypes ==
    /\ stage \in [Apped -> {"none", "read", "calling", "replied"}]
    /\ origin \in [Apped -> (Conns \X Nat) \union {None}]
    /\ asked \in [Conns -> Nat]
    /\ replies \in [Conns -> SUBSET [id : Nat, call : Apped, outcome : Results \union {"BadRequest"}]]
    /\ DOMAIN heard = Apped

AppInv == CallsInv /\ AppTypes /\ Origins /\ RepliesTell /\ HeardTells

-----------------------------------------------------------------------------

\* A step of the apps' calls is one of the router, or leaves it alone.
LEMMA AppStepIsSysStep == [AppNext]_allVars => [SysNext]_vars
<1>1. ASSUME NEW k \in Apped, NEW s \in Services, RouteInvoke(k, s) PROVE SysNext
  <2>1. k \in CallIds /\ LookupLocal(k, s)
    BY <1>1, AppCallsAssumption, CallsAssumption DEF RouteInvoke
  <2> QED
    BY <2>1 DEF SysNext, CallsNext, HostStep
<1>2. ASSUME NEW k \in Apped, RouteMalformed(k) \/ Reply(k) PROVE UNCHANGED vars
  BY <1>2 DEF RouteMalformed, Reply
<1>3. ASSUME NEW k \in Apped, NEW c \in Conns, ReadInvoke(c, k) PROVE UNCHANGED vars
  BY <1>3 DEF ReadInvoke
<1>4. ASSUME NEW c \in Conns, NEW f, DeliverReply(c, f) PROVE UNCHANGED vars
  BY <1>4 DEF DeliverReply
<1> QED
  BY <1>1, <1>2, <1>3, <1>4 DEF AppNext, AppTask, allVars

\* A call that has returned keeps what it returned.
LEMMA ResultsStay ==
    ASSUME CallsInv, [SysNext]_vars, NEW k \in CallIds, pc[k] = "done"
    PROVE  pc'[k] = "done" /\ result'[k] = result[k]
<1>0. pc \in [CallIds -> PCs] /\ result \in [CallIds -> Results]
  BY DEF CallsInv, CallsTypeOK
<1>1. CASE (Next /\ UNCHANGED callVars) \/ UNCHANGED vars
  BY <1>1 DEF callVars, vars
<1>2. ASSUME NEW j \in CallIds, CallStep(j)
      PROVE  pc'[k] = "done" /\ result'[k] = result[k]
  <2>1. /\ pc[j] # "done"
        /\ \E p : pc' = [pc EXCEPT ![j] = p]
        /\ result' = result \/ \E r : result' = [result EXCEPT ![j] = r]
    BY <1>2
    DEF CallStep, LocalInvoke, LocalExpires, LookupEntry, LookupSession, InsertPending, SendInvoke,
        ReceiveAnswer, Expire, RemovePending, Fails
  <2> QED
    BY <1>0, <2>1
<1>3. ASSUME NEW j \in CallIds, HostStep(j)
      PROVE  pc'[k] = "done" /\ result'[k] = result[k]
  <2>1. /\ pc[j] # "done"
        /\ \E p : pc' = [pc EXCEPT ![j] = p]
        /\ result' = result \/ \E r : result' = [result EXCEPT ![j] = r]
    BY <1>3 DEF HostStep, LookupLocal, LocalReturns, CallerDrops, Fails
  <2> QED
    BY <1>0, <2>1
<1>4. ASSUME NEW c \in Conns, NEW f,
             DispatchInvoke(c, f) \/ SendResponse(c, f) \/ ReadResponse(c, f)
      PROVE  UNCHANGED <<pc, result>>
  BY <1>4 DEF DispatchInvoke, SendResponse, ReadResponse
<1> QED
  BY <1>1, <1>2, <1>3, <1>4 DEF SysNext, CallsNext

\* What can be told of a call stays true.
LEMMA TellsStays ==
    ASSUME CallsInv, [SysNext]_vars, NEW k \in Apped, NEW o, Tells(k, o)
    PROVE  o = "BadRequest" \/ (pc'[k] = "done" /\ result'[k] = o)
BY ResultsStay, AppCallsAssumption, CallsAssumption DEF Tells

\* A step of the router changes nothing else.
LEMMA RouterStep ==
    ASSUME AppInv, [SysNext]_vars, UNCHANGED <<origin, asked, replies, heard>>,
           stage' \in [Apped -> {"none", "read", "calling", "replied"}],
           \A k \in Apped : stage'[k] = "none" <=> stage[k] = "none"
    PROVE  AppInv'
<1> USE DEF AppInv
<1>1. CallsInv'
  BY CallsInvStep
<1>2. AppTypes'
  BY DEF AppTypes
<1>3. Origins'
  BY DEF Origins
<1>4. RepliesTell'
  <2> SUFFICES ASSUME NEW c \in Conns, NEW f \in replies[c]
               PROVE  origin[f.call] = <<c, f.id>> /\ Tells(f.call, f.outcome)'
    BY DEF RepliesTell
  <2>1. f.call \in Apped
    BY DEF AppTypes
  <2> QED
    BY <2>1, TellsStays DEF RepliesTell, Tells
<1>5. HeardTells'
  <2> SUFFICES ASSUME NEW k \in Apped, heard[k] # None
               PROVE  \E o : heard[k] = <<k, o>> /\ (o = "BadRequest" \/ (pc'[k] = "done" /\ result'[k] = o))
    BY DEF HeardTells, Tells
  <2> QED
    BY TellsStays DEF HeardTells
<1> QED
  BY <1>1, <1>2, <1>3, <1>4, <1>5

\* The Response that the task of call k sends.
LEMMA AnsweredStep ==
    ASSUME AppInv, NEW k \in Apped, stage[k] # "none", NEW r \in Results \union {"BadRequest"},
           Tells(k, r), stage' = [stage EXCEPT ![k] = "replied"], replies' = Answered(k, r),
           UNCHANGED <<vars, origin, asked, heard>>
    PROVE  AppInv'
<1> USE DEF AppInv
<1> DEFINE f0 == [id |-> origin[k][2], call |-> k, outcome |-> r]
           c0 == origin[k][1]
<1>1. CallsInv'
  BY CallsInvStep
<1>2. c0 \in Conns /\ origin[k][2] \in Nat /\ origin[k] = <<c0, f0.id>>
  BY DEF Origins, AppTypes
<1>3. \A c \in Conns : \A f \in replies'[c] : f \in replies[c] \/ (c = c0 /\ f = f0)
  BY <1>2 DEF Answered, AppTypes
<1>4. AppTypes'
  <2>1. replies' \in [Conns -> SUBSET [id : Nat, call : Apped, outcome : Results \union {"BadRequest"}]]
    BY <1>2 DEF Answered, AppTypes
  <2> QED
    BY <2>1 DEF AppTypes
<1>5. Origins'
  BY DEF Origins, AppTypes
<1>6. RepliesTell'
  BY <1>2, <1>3 DEF RepliesTell, Tells, vars, callVars
<1>7. HeardTells'
  BY DEF HeardTells, Tells, vars, callVars
<1> QED
  BY <1>1, <1>4, <1>5, <1>6, <1>7

LEMMA AppInvStep == AppInv /\ [AppNext]_allVars => AppInv'
<1> SUFFICES ASSUME AppInv, [AppNext]_allVars PROVE AppInv'
  OBVIOUS
<1>0. AppTypes
  BY DEF AppInv
<1>1. CASE (SysNext /\ UNCHANGED appVars) \/ UNCHANGED allVars
  BY <1>0, <1>1, RouterStep DEF appVars, allVars, AppTypes
<1>2. ASSUME NEW k \in Apped, NEW s \in Services, RouteInvoke(k, s) PROVE AppInv'
  <2>1. [SysNext]_vars
    BY AppStepIsSysStep
  <2>2. /\ stage[k] = "read" /\ stage' = [stage EXCEPT ![k] = "calling"]
        /\ UNCHANGED <<origin, asked, replies, heard>>
    BY <1>2 DEF RouteInvoke
  <2> QED
    BY <1>0, <2>1, <2>2, RouterStep DEF AppTypes
<1>3. ASSUME NEW k \in Apped, RouteMalformed(k) PROVE AppInv'
  BY <1>3, AnsweredStep DEF RouteMalformed, Tells
<1>4. ASSUME NEW k \in Apped, Reply(k) PROVE AppInv'
  <2>1. result[k] \in Results
    BY AppCallsAssumption, CallsAssumption DEF AppInv, CallsInv, CallsTypeOK
  <2> QED
    BY <1>4, <2>1, AnsweredStep DEF Reply, Tells
<1>5. ASSUME NEW k \in Apped, NEW c \in Conns, ReadInvoke(c, k) PROVE AppInv'
  <2> USE DEF AppInv
  <2>1. /\ stage[k] = "none" /\ asked' = [asked EXCEPT ![c] = @ + 1]
        /\ origin' = [origin EXCEPT ![k] = <<c, asked[c] + 1>>]
        /\ stage' = [stage EXCEPT ![k] = "read"]
        /\ UNCHANGED <<vars, replies, heard>>
    BY <1>5 DEF ReadInvoke
  <2>2. CallsInv'
    BY <2>1, CallsInvStep
  <2>3. /\ asked[c] \in Nat /\ <<c, asked[c] + 1>> \in Conns \X Nat
        /\ <<c, asked[c] + 1>> # None /\ origin[k] = None
    BY <2>1, AppCallsAssumption DEF AppTypes, Origins
  <2>4. AppTypes'
    BY <2>1, <2>3 DEF AppTypes
  <2>5. \A l \in Apped : origin[l] # <<c, asked[c] + 1>>
    BY <2>3 DEF Origins, AppTypes
  <2>6. Origins'
    <3>1. \A l \in Apped : stage'[l] = "none" <=> origin'[l] = None
      BY <2>1, <2>3 DEF Origins, AppTypes
    <3>2. \A l \in Apped : origin'[l] # None => origin'[l][2] <= asked'[origin'[l][1]]
      <4> SUFFICES ASSUME NEW l \in Apped, origin'[l] # None
                   PROVE  origin'[l][2] <= asked'[origin'[l][1]]
        OBVIOUS
      <4>1. CASE l = k
        BY <2>1, <2>3, <4>1 DEF AppTypes
      <4>2. CASE l # k
        <5>1. /\ origin'[l] = origin[l] /\ origin[l] \in Conns \X Nat
              /\ origin[l][2] <= asked[origin[l][1]]
          BY <2>1, <4>2 DEF AppTypes, Origins
        <5> QED
          BY <2>1, <5>1 DEF AppTypes
      <4> QED
        BY <4>1, <4>2
    <3>3. \A l, m \in Apped : origin'[l] # None /\ origin'[l] = origin'[m] => l = m
      BY <2>1, <2>5 DEF Origins, AppTypes
    <3> QED
      BY <3>1, <3>2, <3>3 DEF Origins
  <2>7. RepliesTell'
    <3> SUFFICES ASSUME NEW d \in Conns, NEW f \in replies[d]
                 PROVE  origin'[f.call] = <<d, f.id>> /\ Tells(f.call, f.outcome)
      BY <2>1 DEF RepliesTell, Tells, vars, callVars
    <3>1. f.call \in Apped /\ f.id \in Nat /\ origin[f.call] = <<d, f.id>>
      BY DEF AppTypes, RepliesTell
    <3>2. f.call # k
      BY <2>3, <3>1, AppCallsAssumption
    <3> QED
      BY <2>1, <3>1, <3>2 DEF RepliesTell, AppTypes
  <2>8. HeardTells'
    BY <2>1 DEF HeardTells, Tells, vars, callVars
  <2> QED
    BY <2>2, <2>4, <2>6, <2>7, <2>8
<1>6. ASSUME NEW c \in Conns, NEW f \in replies[c], DeliverReply(c, f) PROVE AppInv'
  <2> USE DEF AppInv
  <2>1. /\ replies' = [replies EXCEPT ![c] = @ \ {f}]
        /\ heard' = [k \in Apped |-> IF origin[k] = <<c, f.id>> /\ heard[k] = None
                                     THEN <<f.call, f.outcome>> ELSE heard[k]]
        /\ UNCHANGED <<vars, stage, origin, asked>>
    BY <1>6 DEF DeliverReply
  <2>2. CallsInv'
    BY <2>1, CallsInvStep
  <2>3. f.call \in Apped /\ origin[f.call] = <<c, f.id>> /\ Tells(f.call, f.outcome)
        /\ f.id \in Nat
    BY DEF AppTypes, RepliesTell
  <2>4. AppTypes'
    BY <2>1 DEF AppTypes
  <2>5. Origins'
    BY <2>1 DEF Origins
  <2>6. RepliesTell'
    BY <2>1 DEF RepliesTell, Tells, AppTypes, vars, callVars
  <2>7. HeardTells'
    <3> SUFFICES ASSUME NEW k \in Apped, heard'[k] # None
                 PROVE  \E o : heard'[k] = <<k, o>> /\ Tells(k, o)
      BY <2>1 DEF HeardTells, Tells, vars, callVars
    <3>1. CASE origin[k] = <<c, f.id>> /\ heard[k] = None
      <4>1. k = f.call
        BY <2>3, <3>1, AppCallsAssumption DEF Origins
      <4> QED
        BY <2>1, <2>3, <3>1, <4>1
    <3>2. CASE ~(origin[k] = <<c, f.id>> /\ heard[k] = None)
      BY <2>1, <3>2 DEF HeardTells
    <3> QED
      BY <3>1, <3>2
  <2> QED
    BY <2>2, <2>4, <2>5, <2>6, <2>7
<1> QED
  BY <1>1, <1>2, <1>3, <1>4, <1>5, <1>6 DEF AppNext, AppTask

-----------------------------------------------------------------------------

\* The system in which apps call each other implements the call router, so all
\* that is proved of Calls holds of it.
THEOREM AppsImplementCalls == AppSpec => SysSpec
BY AppStepIsSysStep, PTL DEF AppSpec, SysSpec

\* The inductive invariant of the apps' calls, on top of the router's.
THEOREM AppCallsInvariant == AppSpec => []AppInv
<1>1. SysInit /\ AppCallsInit => AppInv
  <2> SUFFICES ASSUME SysInit, AppCallsInit PROVE AppInv
    OBVIOUS
  <2>1. CallsInv
    BY CallsInvInit
  <2> QED
    BY <2>1 DEF AppCallsInit, AppInv, AppTypes, Origins, RepliesTell, HeardTells
<1> QED
  BY <1>1, AppInvStep, PTL DEF AppSpec

\* What an app is told of a call is the outcome of that very call, whichever
\* connections come and go and number their requests alike.
THEOREM AppsHearOfTheirCalls == AppSpec => []AppCorrelation
<1>1. AppInv => AppCorrelation
  <2> SUFFICES ASSUME AppInv, NEW k \in Apped, heard[k] # None
               PROVE  /\ heard[k] \in {<<k, result[k]>>, <<k, "BadRequest">>}
                      /\ heard[k][2] = "answer" => k \in ran
    BY DEF AppCorrelation
  <2> PICK o : heard[k] = <<k, o>> /\ Tells(k, o)
    BY DEF AppInv, HeardTells
  <2>1. k \in CallIds
    BY AppCallsAssumption, CallsAssumption
  <2> QED
    BY <2>1 DEF Tells, AppInv, CallsInv, Correlation
<1> QED
  BY <1>1, AppCallsInvariant, PTL

\* What the router promises of a call it promises of apps' calls too: with the
\* Invoke arms, their spawned tasks and replies around it, it implements the
\* contract, lets no handler run that the catalogue does not permit, and releases
\* the pending entries of answered and timed-out calls.
THEOREM AppCallsKeepContract ==
    AppSpec => ImplementsRpc /\ []OnlyPermittedRuns /\ []NoPendingLeak
BY AppsImplementCalls, CallsImplementContract, RunsArePermitted, PendingIsReleased, PTL

-----------------------------------------------------------------------------
(* Replies are not lost.                                                   *)

\* serve of a connection that has read a request: its reader loop, or later.
Read == {"serving", "closed"} \union Leaving

\* Requests came on connections whose reader loop had begun.
OriginsRead == \A k \in Apped : origin[k] # None => phase[origin[k][1]] \in Read

\* The app has been told of call k, its Response is still on the channel of the
\* connection its request came on, or nobody receives from that channel.
Kept(k) ==
    \/ \E o : heard[k] = <<k, o>>
    \/ \E f \in replies[origin[k][1]] : f.call = k
    \/ ~ChannelOpen(origin[k][1])

\* The task of an Invoke that has answered has not answered in vain.
NoReplyLost == \A k \in Apped : stage[k] = "replied" => Kept(k)

\* Once serve has begun to read, it has only the clean-up before it, and its
\* channel does not open again.
LEMMA ReadStays ==
    ASSUME IndInv, [Next]_sessionVars, NEW c \in Conns, phase[c] \in Read
    PROVE  phase'[c] \in Read /\ (~ChannelOpen(c) => ~ChannelOpen(c)')
<1> USE DEF Read, Leaving, ChannelOpen
<1> DEFINE Goal == phase'[c] \in Read /\ (~ChannelOpen(c) => ~ChannelOpen(c)')
<1>0. TypeOK
  BY DEF IndInv
<1>1. ASSUME NEW s \in Services, Host(s) PROVE Goal
  BY <1>1 DEF Host, issue_token, RegisterMethods, RegisterHandler
<1>2. ASSUME NEW d \in Conns, Peer(d) PROVE Goal
  BY <1>0, <1>2 DEF TypeOK, Peer, accept_loop, RejectHello, Hello, WriterFails, ReaderEnds
<1>3. ASSUME NEW d \in Conns, Serve(d) PROVE Goal
  <2>1. CASE TakeGeneration(d) \/ InsertEntry(d) \/ AckFails(d) \/ AckWritten(d)
    BY <1>0, <2>1 DEF TypeOK, TakeGeneration, InsertEntry, AckFails, AckWritten
  <2>2. CASE attach_session(d) \/ probe_capabilities(d)
    BY <1>0, <2>2 DEF TypeOK, attach_session, probe_capabilities
  <2>3. CASE DetachCheck(d) \/ DropCapabilities(d) \/ Unlist(d) \/ AbortWriter(d)
    BY <1>0, <2>3 DEF TypeOK, DetachCheck, DropCapabilities, Unlist, AbortWriter
  <2> QED
    BY <1>3, <2>1, <2>2, <2>3 DEF Serve
<1>4. ASSUME NEW d \in Conns, Probe(d) PROVE Goal
  BY <1>4 DEF Probe, ProbeLocal, ProbeLookup, ProbeReturns, ProbeCheck, ProbeStore
<1>5. CASE UNCHANGED sessionVars
  BY <1>5 DEF sessionVars
<1> QED
  BY <1>1, <1>2, <1>3, <1>4, <1>5 DEF Next

\* The channel of the connection a request came on does not open again.
LEMMA OriginStays ==
    ASSUME AppInv, OriginsRead, [AppNext]_allVars, NEW k \in Apped, origin[k] # None
    PROVE  /\ origin[k][1] \in Conns
           /\ phase'[origin[k][1]] \in Read
           /\ ~ChannelOpen(origin[k][1]) =>
                 ~(phase'[origin[k][1]] \in {"numbered", "registered"} \/ origin[k][1] \in writerUp')
<1> PICK c \in Conns : c = origin[k][1]
  BY DEF AppInv, AppTypes
<1>1. phase[c] \in Read
  BY DEF OriginsRead
<1>2. IndInv
  BY DEF AppInv, CallsInv
<1>3. [Next]_sessionVars
  BY AppStepIsSysStep, SysStepIsSessionStep
<1>4. phase'[c] \in Read /\ (~ChannelOpen(c) => ~ChannelOpen(c)')
  BY <1>1, <1>2, <1>3, ReadStays
<1> QED
  BY <1>4 DEF ChannelOpen

LEMMA OriginsReadStep == AppInv /\ OriginsRead /\ [AppNext]_allVars => OriginsRead'
<1> SUFFICES ASSUME AppInv, OriginsRead, [AppNext]_allVars, NEW k \in Apped, origin'[k] # None
             PROVE  phase'[origin'[k][1]] \in Read
  BY DEF OriginsRead
<1>1. CASE origin' = origin
  BY <1>1, OriginStays
<1>2. ASSUME NEW j \in Apped, NEW c \in Conns, ReadInvoke(c, j)
      PROVE  phase'[origin'[k][1]] \in Read
  <2>1. /\ origin' = [origin EXCEPT ![j] = <<c, asked[c] + 1>>]
        /\ phase' = phase /\ phase[c] = "serving"
    BY <1>2 DEF ReadInvoke, vars, sessionVars
  <2>2. CASE k = j
    BY <2>1, <2>2 DEF AppInv, AppTypes, Read
  <2>3. CASE k # j
    BY <2>1, <2>3, OriginStays
  <2> QED
    BY <2>2, <2>3
<1> QED
  BY <1>1, <1>2
  DEF AppNext, AppTask, allVars, appVars, RouteMalformed, Reply, RouteInvoke, DeliverReply

\* What is kept of a reply is kept by every step.
LEMMA KeptStays ==
    ASSUME AppInv, OriginsRead, [AppNext]_allVars, NEW k \in Apped, origin[k] # None, Kept(k)
    PROVE  Kept(k)'
<1> DEFINE c == origin[k][1]
<1>0. c \in Conns /\ AppTypes /\ RepliesTell /\ HeardTells
  BY OriginStays DEF AppInv
<1>1. origin'[k] = origin[k]
  BY <1>0
  DEF AppNext, AppTask, allVars, appVars, RouteMalformed, Reply, RouteInvoke, DeliverReply,
      ReadInvoke, AppInv, Origins, AppTypes
<1>2. CASE ~ChannelOpen(c)
  <2>1. ~(phase'[origin[k][1]] \in {"numbered", "registered"} \/ origin[k][1] \in writerUp')
    BY <1>2, OriginStays
  <2> QED
    BY <1>1, <2>1 DEF Kept, ChannelOpen
<1>3. CASE UNCHANGED <<replies, heard>> /\ ~(~ChannelOpen(c))
  BY <1>1, <1>3 DEF Kept
<1>4. ASSUME NEW j \in Apped, NEW r, replies' = Answered(j, r), heard' = heard, ChannelOpen(c)
      PROVE  Kept(k)'
  <2>1. \A d \in Conns : replies[d] \subseteq replies'[d]
    BY <1>0, <1>4 DEF Answered, AppTypes
  <2> QED
    BY <1>0, <1>1, <1>4, <2>1 DEF Kept
<1>5. ASSUME NEW d \in Conns, NEW g \in replies[d], DeliverReply(d, g), ChannelOpen(c)
      PROVE  Kept(k)'
  <2>1. /\ replies' = [replies EXCEPT ![d] = @ \ {g}]
        /\ heard' = [l \in Apped |-> IF origin[l] = <<d, g.id>> /\ heard[l] = None
                                     THEN <<g.call, g.outcome>> ELSE heard[l]]
    BY <1>5 DEF DeliverReply
  <2>2. g.call \in Apped /\ origin[g.call] = <<d, g.id>>
    BY <1>0 DEF AppTypes, RepliesTell
  <2>3. CASE \E o : heard[k] = <<k, o>>
    <3>1. CASE origin[k] = <<d, g.id>> /\ heard[k] = None
      <4>1. k = g.call
        BY <2>2, <3>1 DEF AppInv, Origins
      <4> QED
        BY <2>1, <3>1, <4>1 DEF Kept
    <3>2. CASE ~(origin[k] = <<d, g.id>> /\ heard[k] = None)
      BY <2>1, <2>3, <3>2 DEF Kept
    <3> QED
      BY <3>1, <3>2
  <2>4. ASSUME NEW f \in replies[c], f.call = k PROVE Kept(k)'
    <3>1. CASE f = g /\ c = d
      <4>1. origin[k] = <<d, g.id>>
        BY <2>2, <2>4, <3>1
      <4>2. CASE heard[k] = None
        BY <2>1, <2>4, <3>1, <4>1, <4>2 DEF Kept
      <4>3. CASE heard[k] # None
        BY <1>0, <2>1, <4>3 DEF Kept, HeardTells
      <4> QED
        BY <4>2, <4>3
    <3>2. CASE ~(f = g /\ c = d)
      <4>1. f \in replies'[c]
        BY <1>0, <2>1, <2>4, <3>2 DEF AppTypes
      <4> QED
        BY <1>1, <2>4, <4>1 DEF Kept
    <3> QED
      BY <3>1, <3>2
  <2> QED
    BY <1>5, <2>3, <2>4 DEF Kept
<1> QED
  BY <1>2, <1>3, <1>4, <1>5
  DEF AppNext, AppTask, allVars, appVars, RouteMalformed, Reply, RouteInvoke, ReadInvoke

LEMMA NoReplyLostStep ==
    AppInv /\ OriginsRead /\ NoReplyLost /\ [AppNext]_allVars => NoReplyLost'
<1> SUFFICES ASSUME AppInv, OriginsRead, NoReplyLost, [AppNext]_allVars,
                    NEW k \in Apped, stage'[k] = "replied"
             PROVE  Kept(k)'
  BY DEF NoReplyLost
<1>0. AppTypes /\ Origins
  BY DEF AppInv
<1>1. CASE stage[k] = "replied"
  <2>1. origin[k] # None
    BY <1>0, <1>1 DEF Origins
  <2> QED
    BY <1>1, <2>1, KeptStays DEF NoReplyLost
<1>2. ASSUME stage[k] # "replied", NEW r, replies' = Answered(k, r), stage[k] # "none",
             UNCHANGED <<vars, origin, heard>>
      PROVE  Kept(k)'
  <2>1. origin[k][1] \in Conns
    BY <1>0, <1>2 DEF AppTypes, Origins
  <2>2. ChannelOpen(origin[k][1])' <=> ChannelOpen(origin[k][1])
    BY <1>2 DEF ChannelOpen, vars, sessionVars
  <2>3. CASE ~ChannelOpen(origin[k][1])
    BY <1>2, <2>2, <2>3 DEF Kept
  <2>4. CASE ChannelOpen(origin[k][1])
    <3>1. [id |-> origin[k][2], call |-> k, outcome |-> r] \in replies'[origin[k][1]]
      BY <1>0, <1>2, <2>1, <2>4 DEF Answered, AppTypes
    <3> QED
      BY <1>2, <3>1 DEF Kept
  <2> QED
    BY <2>3, <2>4
<1>3. ASSUME NEW j \in Apped, RouteMalformed(j) \/ Reply(j), stage[k] # "replied"
      PROVE  Kept(k)'
  <2>1. k = j
    BY <1>0, <1>3 DEF RouteMalformed, Reply, AppTypes
  <2> QED
    BY <1>2, <1>3, <2>1 DEF RouteMalformed, Reply
<1>4. ASSUME NEW j \in Apped, NEW s \in Services, RouteInvoke(j, s) PROVE stage[k] = "replied"
  BY <1>0, <1>4 DEF RouteInvoke, AppTypes
<1>5. ASSUME NEW j \in Apped, NEW c \in Conns, ReadInvoke(c, j) PROVE stage[k] = "replied"
  BY <1>0, <1>5 DEF ReadInvoke, AppTypes
<1>6. CASE stage' = stage
  BY <1>1, <1>6
<1> QED
  BY <1>1, <1>3, <1>4, <1>5, <1>6 DEF AppNext, AppTask, allVars, appVars, DeliverReply

\* The safety half of AppCallsReturn: once the task of an Invoke has answered, with
\* the outcome or an error, the app has been told, or the Response is on the channel
\* of the very connection the request came on, unless that channel is closed for
\* good; no replacement of the connection and no other reply takes it away.
THEOREM RepliesAreNotLost == AppSpec => []NoReplyLost
<1>1. SysInit /\ AppCallsInit => OriginsRead /\ NoReplyLost
  BY DEF AppCallsInit, OriginsRead, NoReplyLost
<1> QED
  BY <1>1, OriginsReadStep, NoReplyLostStep, AppCallsInvariant, PTL DEF AppSpec

=============================================================================
