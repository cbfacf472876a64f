----------------------------- MODULE CallsProofs ----------------------------
(***************************************************************************)
(* Proofs about calls through the broker, for any number of services,      *)
(* connections and calls: the composed system implements the session layer, *)
(* so its invariants carry over, and CallsInv strengthens them to what     *)
(* keeps the answers apart.                                                *)
(***************************************************************************)
EXTENDS Calls, SessionsProofs

\* The places of call_with_timeout after the request id was drawn.
Sent == {"pended", "waiting", "expired"}

\* The frames of connection c, wherever they are.
FramesOf(c) == invokes[c] \union handling[c] \union answers[c]

\* A call on the remote path holds the entry, the catalogue and the session
\* table of one and the same connection.
OneConnection ==
    \A k \in CallIds :
        /\ pc[k] \in {"found", "routed"} \union Sent =>
              /\ ent[k] \in Conns
              /\ phase[ent[k]] \in Numbered
              /\ Permits(k, Catalog[ent[k]])
        /\ pc[k] \in {"routed"} \union Sent => handle[k] = ent[k]

\* Request ids: drawn once per call, below the session's counter, no two alike.
DistinctRequests ==
    /\ \A k \in CallIds : pc[k] \in Sent => req[k] # 0
    /\ \A k \in CallIds : req[k] # 0 =>
          /\ pc[k] \in Sent \union {"done"}
          /\ ent[k] \in Conns /\ handle[k] = ent[k] /\ req[k] < nextReq[ent[k]]
    /\ \A j, k \in CallIds : req[j] # 0 /\ req[j] = req[k] /\ ent[j] = ent[k] => j = k

\* A pending entry or a frame carries the id its call drew on that connection.
FramesMatch ==
    \A c \in Conns : \A f \in pending[c] \union FramesOf(c) :
        req[f[2]] # 0 /\ f[1] = req[f[2]] /\ ent[f[2]] = c

\* Handlers run for permitted calls only, and once.
RunsOnce ==
    /\ \A c \in Conns : \A f \in FramesOf(c) :
          Permits(f[2], Catalog[c]) /\ pc[f[2]] \in {"waiting", "expired", "done"}
    /\ \A c \in Conns : \A f \in invokes[c] : f[2] \notin ran
    /\ \A c \in Conns : \A f \in handling[c] \union answers[c] : f[2] \in ran
    /\ \A k \in ran : pc[k] \in {"localRun", "waiting", "expired", "done"}
    /\ \A k \in CallIds : pc[k] = "localRun" => k \in ran

\* What a call has in its channel is its own answer; it is then pending no more.
OwnAnswer ==
    /\ \A k \in CallIds : slot[k] # None =>
          /\ req[k] # 0 /\ slot[k] = k /\ k \in ran
          /\ \A c \in Conns : \A f \in pending[c] : f[2] # k
    /\ \A k \in CallIds : result[k] = "none" <=> pc[k] # "done"

\* The local path: a handler is never visible without its catalogue.
LocalChecked ==
    /\ localHandlers \subseteq localMethods
    /\ \A k \in CallIds : pc[k] \in {"local", "localRun"} => target[k] \in localHandlers
    /\ \A k \in CallIds : pc[k] = "remote" => target[k] \in Services

\* The inductive invariant of the call layer, on top of the session layer's.
CallsInv ==
    /\ IndInv
    /\ CallsTypeOK
    /\ OneConnection
    /\ DistinctRequests
    /\ FramesMatch
    /\ RunsOnce
    /\ OwnAnswer
    /\ LocalChecked
    /\ Correlation
    /\ OnlyPermittedRuns
    /\ NoPendingLeak

-----------------------------------------------------------------------------
(* The call layer on top of the session layer.                             *)

\* A call step leaves the session layer alone.
LEMMA CallsKeepSessions == CallsNext => UNCHANGED sessionVars
<1>1. ASSUME NEW k \in CallIds, CallStep(k) PROVE UNCHANGED sessionVars
  BY <1>1 DEF CallStep, LocalInvoke, LocalExpires, LookupEntry, LookupSession, InsertPending,
     SendInvoke, ReceiveAnswer, Expire, RemovePending
<1>2. ASSUME NEW k \in CallIds, HostStep(k) PROVE UNCHANGED sessionVars
  BY <1>2 DEF HostStep, LookupLocal, LocalReturns, CallerDrops
<1>3. ASSUME NEW c \in Conns, NEW f,
             DispatchInvoke(c, f) \/ SendResponse(c, f) \/ ReadResponse(c, f)
      PROVE UNCHANGED sessionVars
  BY <1>3 DEF DispatchInvoke, SendResponse, ReadResponse
<1> QED
  BY <1>1, <1>2, <1>3, CallsAssumption DEF CallsNext

\* A step of the system is a step of the session layer or leaves it alone.
LEMMA SysStepIsSessionStep == [SysNext]_vars => [Next]_sessionVars
BY CallsKeepSessions DEF SysNext, vars

\* The system with calls implements the session layer, so all that is proved of
\* Sessions holds of it.
THEOREM SysImplementsSessions == SysSpec => Spec
<1>1. SysInit => Init
  BY DEF SysInit
<1> QED
  BY <1>1, SysStepIsSessionStep, PTL DEF SysSpec, Spec

\* A connection keeps its service and its generation once it has them.
LEMMA NumberedStable ==
    ASSUME IndInv, [Next]_sessionVars, NEW c \in Conns, phase[c] \in Numbered
    PROVE  phase'[c] \in Numbered /\ gen'[c] = gen[c]
<1>0. TypeOK
  BY DEF IndInv
<1>1. ASSUME NEW s \in Services, Host(s)
      PROVE phase'[c] \in Numbered /\ gen'[c] = gen[c]
  BY <1>1 DEF Host, issue_token, RegisterMethods, RegisterHandler
<1>2. ASSUME NEW d \in Conns, Peer(d) PROVE phase'[c] \in Numbered /\ gen'[c] = gen[c]
  BY <1>0, <1>2 DEF TypeOK, Peer, accept_loop, RejectHello, Hello, WriterFails, ReaderEnds,
     Numbered, Admitted
<1>3. ASSUME NEW d \in Conns, Serve(d) PROVE phase'[c] \in Numbered /\ gen'[c] = gen[c]
  BY <1>0, <1>3 DEF TypeOK, Serve, TakeGeneration, InsertEntry, AckFails, AckWritten,
     attach_session, probe_capabilities, DetachCheck, DropCapabilities, Unlist, AbortWriter,
     Numbered, Admitted
<1>4. ASSUME NEW d \in Conns, Probe(d) PROVE phase'[c] \in Numbered /\ gen'[c] = gen[c]
  BY <1>4 DEF Probe, ProbeLocal, ProbeLookup, ProbeReturns, ProbeCheck, ProbeStore
<1>5. CASE UNCHANGED sessionVars
  BY <1>5 DEF sessionVars
<1> QED
  BY <1>1, <1>2, <1>3, <1>4, <1>5 DEF Next

\* A session found for the entry's generation is the entry's own session.
LEMMA HandleIsOwn ==
    ASSUME IndInv, OneConnection, NEW k \in CallIds, pc[k] = "found", NEW h \in HandlesOf(k)
    PROVE  h[3] = ent[k]
<1>1. ent[k] \in Conns /\ phase[ent[k]] \in Numbered
  BY DEF OneConnection
<1>2. h \in sessions /\ h[2] = gen[ent[k]]
  BY DEF HandlesOf
<1>3. h[3] \in Conns /\ h[2] = gen[h[3]] /\ phase[h[3]] \in Numbered
  BY <1>2 DEF IndInv, TypeOK, NoDanglingEntry, Numbered, Admitted
<1> QED
  BY <1>1, <1>2, <1>3 DEF IndInv, UniqueGenerations

\* A pending entry found under the id of a frame belongs to the frame's call.
LEMMA SameIdSameCall ==
    ASSUME CallsTypeOK, DistinctRequests, FramesMatch, NEW c \in Conns,
           NEW p \in pending[c], NEW f \in FramesOf(c), p[1] = f[1]
    PROVE  p[2] = f[2]
<1>1. p[2] \in CallIds /\ f[2] \in CallIds
  BY DEF CallsTypeOK, FramesOf
<1>2. /\ req[p[2]] # 0 /\ p[1] = req[p[2]] /\ ent[p[2]] = c
      /\ req[f[2]] # 0 /\ f[1] = req[f[2]] /\ ent[f[2]] = c
  BY DEF FramesMatch
<1> QED
  BY <1>1, <1>2 DEF DistinctRequests

-----------------------------------------------------------------------------
(* Every call step preserves the inductive invariant.                      *)

\* The entry a call finds belongs to a connection with a generation.
LEMMA EntryOfCall ==
    ASSUME IndInv, CallsTypeOK, LocalChecked, NEW k \in CallIds, pc[k] = "remote",
           entries[target[k]] # None
    PROVE  entries[target[k]] \in Conns /\ phase[entries[target[k]]] \in Numbered
BY DEF LocalChecked, IndInv, TypeOK, NoDanglingEntry, Listed, Numbered, Admitted

\* LookupLocal preserves the inductive invariant.
LEMMA LookupLocalKeeps == ASSUME CallsInv, NEW k \in CallIds, NEW s \in Services, LookupLocal(k, s)
    PROVE  CallsInv'
<1> USE CallsAssumption, SessionsAssumption DEF CallsInv, Sent, FramesOf, wireVars, localVars,
      LookupLocal
<1>1. IndInv'
  BY IndInvStep
<1>2. CallsTypeOK'
  BY DEF CallsTypeOK, PCs, Results, OneConnection
<1>3. OneConnection'
  BY DEF OneConnection, CallsTypeOK, sessionVars
<1>4. DistinctRequests'
  BY DEF DistinctRequests, CallsTypeOK, OneConnection
<1>5. FramesMatch'
  BY DEF FramesMatch, CallsTypeOK, DistinctRequests, OneConnection
<1>6. RunsOnce'
  BY DEF RunsOnce, CallsTypeOK, DistinctRequests, FramesMatch, OneConnection, Permits
<1>7. OwnAnswer'
  BY DEF OwnAnswer, CallsTypeOK, DistinctRequests, FramesMatch, RunsOnce
<1>8. LocalChecked'
  BY DEF LocalChecked, sessionVars, CallsTypeOK
<1>9. Correlation'
  BY DEF Correlation, CallsTypeOK, OwnAnswer, RunsOnce
<1>10. OnlyPermittedRuns'
  BY DEF OnlyPermittedRuns, sessionVars, CallsTypeOK, RunsOnce, LocalChecked, Permits
<1>11. NoPendingLeak'
  BY DEF NoPendingLeak, CallsTypeOK, OwnAnswer, FramesMatch, DistinctRequests, OneConnection
<1> QED
  BY <1>1, <1>2, <1>3, <1>4, <1>5, <1>6, <1>7, <1>8, <1>9, <1>10, <1>11 DEF CallsInv

\* LocalInvoke preserves the inductive invariant.
LEMMA LocalInvokeKeeps == ASSUME CallsInv, NEW k \in CallIds, LocalInvoke(k)
    PROVE  CallsInv'
<1> USE CallsAssumption, SessionsAssumption DEF CallsInv, Sent, FramesOf, wireVars, localVars,
      LocalInvoke, Fails
<1>1. IndInv'
  BY IndInvStep
<1>2. CallsTypeOK'
  <2>1. pc' \in [CallIds -> PCs] /\ result' \in [CallIds -> Results]
    BY DEF CallsTypeOK, PCs, Results, Check
  <2>2. \A j \in CallIds : pc'[j] \in {"pended", "waiting", "expired"} => pc'[j] = pc[j]
    BY DEF CallsTypeOK
  <2>3. ran' \subseteq CallIds
    BY DEF CallsTypeOK
  <2> QED
    BY <2>1, <2>2, <2>3 DEF CallsTypeOK
<1>3. OneConnection'
  BY DEF OneConnection, CallsTypeOK, sessionVars
<1>4. DistinctRequests'
  BY DEF DistinctRequests, CallsTypeOK, OneConnection
<1>5. FramesMatch'
  BY DEF FramesMatch, CallsTypeOK, DistinctRequests, OneConnection
<1>6. RunsOnce'
  BY DEF RunsOnce, CallsTypeOK, DistinctRequests, FramesMatch, OneConnection, Permits
<1>7. OwnAnswer'
  BY DEF OwnAnswer, CallsTypeOK, DistinctRequests, FramesMatch, RunsOnce, Check
<1>8. LocalChecked'
  BY DEF LocalChecked, sessionVars, CallsTypeOK
<1>9. Correlation'
  BY DEF Correlation, CallsTypeOK, OwnAnswer, RunsOnce, Check
<1>10. OnlyPermittedRuns'
  <2>1. LocalCatalog[target[k]] \in Decls
    BY DEF LocalChecked, IndInv, TypeOK
  <2> QED
    BY <2>1
    DEF OnlyPermittedRuns, sessionVars, CallsTypeOK, RunsOnce, LocalChecked, Permits, Check, Decls
<1>11. NoPendingLeak'
  BY DEF NoPendingLeak, CallsTypeOK, OwnAnswer, FramesMatch, DistinctRequests,
     OneConnection, Check
<1> QED
  BY <1>1, <1>2, <1>3, <1>4, <1>5, <1>6, <1>7, <1>8, <1>9, <1>10, <1>11 DEF CallsInv

\* LocalReturns preserves the inductive invariant.
LEMMA LocalReturnsKeeps == ASSUME CallsInv, NEW k \in CallIds, LocalReturns(k)
    PROVE  CallsInv'
<1> USE CallsAssumption, SessionsAssumption DEF CallsInv, Sent, FramesOf, wireVars, localVars,
      LocalReturns
<1>1. IndInv'
  BY IndInvStep
<1>2. CallsTypeOK'
  BY DEF CallsTypeOK, PCs, Results, OneConnection
<1>3. OneConnection'
  BY DEF OneConnection, CallsTypeOK, sessionVars
<1>4. DistinctRequests'
  BY DEF DistinctRequests, CallsTypeOK, OneConnection
<1>5. FramesMatch'
  BY DEF FramesMatch, CallsTypeOK, DistinctRequests, OneConnection
<1>6. RunsOnce'
  BY DEF RunsOnce, CallsTypeOK, DistinctRequests, FramesMatch, OneConnection, Permits
<1>7. OwnAnswer'
  BY DEF OwnAnswer, CallsTypeOK, DistinctRequests, FramesMatch, RunsOnce
<1>8. LocalChecked'
  BY DEF LocalChecked, sessionVars, CallsTypeOK
<1>9. Correlation'
  BY DEF Correlation, CallsTypeOK, OwnAnswer, RunsOnce
<1>10. OnlyPermittedRuns'
  BY DEF OnlyPermittedRuns, sessionVars, CallsTypeOK, RunsOnce, LocalChecked, Permits
<1>11. NoPendingLeak'
  BY DEF NoPendingLeak, CallsTypeOK, OwnAnswer, FramesMatch, DistinctRequests, OneConnection
<1> QED
  BY <1>1, <1>2, <1>3, <1>4, <1>5, <1>6, <1>7, <1>8, <1>9, <1>10, <1>11 DEF CallsInv

\* LocalExpires preserves the inductive invariant.
LEMMA LocalExpiresKeeps == ASSUME CallsInv, NEW k \in CallIds, LocalExpires(k)
    PROVE  CallsInv'
<1> USE CallsAssumption, SessionsAssumption DEF CallsInv, Sent, FramesOf, wireVars, localVars,
      LocalExpires, Fails
<1>1. IndInv'
  BY IndInvStep
<1>2. CallsTypeOK'
  BY DEF CallsTypeOK, PCs, Results, OneConnection
<1>3. OneConnection'
  BY DEF OneConnection, CallsTypeOK, sessionVars
<1>4. DistinctRequests'
  BY DEF DistinctRequests, CallsTypeOK, OneConnection
<1>5. FramesMatch'
  BY DEF FramesMatch, CallsTypeOK, DistinctRequests, OneConnection
<1>6. RunsOnce'
  BY DEF RunsOnce, CallsTypeOK, DistinctRequests, FramesMatch, OneConnection, Permits
<1>7. OwnAnswer'
  BY DEF OwnAnswer, CallsTypeOK, DistinctRequests, FramesMatch, RunsOnce
<1>8. LocalChecked'
  BY DEF LocalChecked, sessionVars, CallsTypeOK
<1>9. Correlation'
  BY DEF Correlation, CallsTypeOK, OwnAnswer, RunsOnce
<1>10. OnlyPermittedRuns'
  BY DEF OnlyPermittedRuns, sessionVars, CallsTypeOK, RunsOnce, LocalChecked, Permits
<1>11. NoPendingLeak'
  BY DEF NoPendingLeak, CallsTypeOK, OwnAnswer, FramesMatch, DistinctRequests, OneConnection
<1> QED
  BY <1>1, <1>2, <1>3, <1>4, <1>5, <1>6, <1>7, <1>8, <1>9, <1>10, <1>11 DEF CallsInv

\* LookupEntry preserves the inductive invariant.
LEMMA LookupEntryKeeps == ASSUME CallsInv, NEW k \in CallIds, LookupEntry(k)
    PROVE  CallsInv'
<1> USE CallsAssumption, SessionsAssumption DEF CallsInv, Sent, FramesOf, wireVars, localVars,
      LookupEntry, Fails
<1>0. entries[target[k]] # None =>
        entries[target[k]] \in Conns /\ phase[entries[target[k]]] \in Numbered
  BY EntryOfCall DEF CallsInv
<1>1. IndInv'
  BY IndInvStep
<1>2. CallsTypeOK'
  BY <1>0 DEF CallsTypeOK, PCs, Results, OneConnection, Check
<1>3. OneConnection'
  BY <1>0 DEF OneConnection, CallsTypeOK, sessionVars, Check, Permits, Decls
<1>4. DistinctRequests'
  BY DEF DistinctRequests, CallsTypeOK, OneConnection
<1>5. FramesMatch'
  BY DEF FramesMatch, CallsTypeOK, DistinctRequests, OneConnection
<1>6. RunsOnce'
  <2>1. \A c \in Conns : \A f \in FramesOf(c) : f[2] \in CallIds
    BY DEF CallsTypeOK
  <2>2. UNCHANGED <<invokes, handling, answers, ran>> /\ pc[k] = "remote"
    OBVIOUS
  <2>3. \E p \in {"found", "done"} : pc' = [pc EXCEPT ![k] = p]
    OBVIOUS
  <2> QED
    BY <2>1, <2>2, <2>3 DEF RunsOnce, CallsTypeOK, Permits
<1>7. OwnAnswer'
  BY DEF OwnAnswer, CallsTypeOK, DistinctRequests, FramesMatch, RunsOnce, Check
<1>8. LocalChecked'
  BY DEF LocalChecked, sessionVars, CallsTypeOK
<1>9. Correlation'
  BY DEF Correlation, CallsTypeOK, OwnAnswer, RunsOnce, Check
<1>10. OnlyPermittedRuns'
  BY DEF OnlyPermittedRuns, sessionVars, CallsTypeOK, RunsOnce, LocalChecked, Permits
<1>11. NoPendingLeak'
  BY DEF NoPendingLeak, CallsTypeOK, OwnAnswer, FramesMatch, DistinctRequests,
     OneConnection, Check
<1> QED
  BY <1>1, <1>2, <1>3, <1>4, <1>5, <1>6, <1>7, <1>8, <1>9, <1>10, <1>11 DEF CallsInv

\* LookupSession preserves the inductive invariant.
LEMMA LookupSessionKeeps == ASSUME CallsInv, NEW k \in CallIds, LookupSession(k)
    PROVE  CallsInv'
<1> USE CallsAssumption, SessionsAssumption DEF CallsInv, Sent, FramesOf, wireVars, localVars,
      LookupSession, Fails
<1>0. \A h \in HandlesOf(k) : h[3] = ent[k]
  BY HandleIsOwn
<1>1. IndInv'
  BY IndInvStep
<1>2. CallsTypeOK'
  BY <1>0 DEF CallsTypeOK, PCs, Results, OneConnection
<1>3. OneConnection'
  BY <1>0 DEF OneConnection, CallsTypeOK, sessionVars
<1>4. DistinctRequests'
  BY DEF DistinctRequests, CallsTypeOK, OneConnection
<1>5. FramesMatch'
  BY DEF FramesMatch, CallsTypeOK, DistinctRequests, OneConnection
<1>6. RunsOnce'
  <2>1. pc[k] = "found" /\ \A j \in CallIds \ {k} : pc'[j] = pc[j]
    BY DEF CallsTypeOK
  <2>2. pc'[k] \in {"routed", "done"} /\ UNCHANGED <<invokes, handling, answers, ran>>
    BY DEF CallsTypeOK
  <2> QED
    BY <2>1, <2>2 DEF RunsOnce, CallsTypeOK
<1>7. OwnAnswer'
  BY DEF OwnAnswer, CallsTypeOK, DistinctRequests, FramesMatch, RunsOnce
<1>8. LocalChecked'
  BY DEF LocalChecked, sessionVars, CallsTypeOK
<1>9. Correlation'
  BY DEF Correlation, CallsTypeOK, OwnAnswer, RunsOnce
<1>10. OnlyPermittedRuns'
  BY DEF OnlyPermittedRuns, sessionVars, CallsTypeOK, RunsOnce, LocalChecked, Permits
<1>11. NoPendingLeak'
  BY DEF NoPendingLeak, CallsTypeOK, OwnAnswer, FramesMatch, DistinctRequests, OneConnection
<1> QED
  BY <1>1, <1>2, <1>3, <1>4, <1>5, <1>6, <1>7, <1>8, <1>9, <1>10, <1>11 DEF CallsInv

\* InsertPending preserves the inductive invariant.
LEMMA InsertPendingKeeps == ASSUME CallsInv, NEW k \in CallIds, InsertPending(k)
    PROVE  CallsInv'
<1> USE CallsAssumption, SessionsAssumption DEF CallsInv, Sent, FramesOf, wireVars, localVars,
      InsertPending
<1>1. IndInv'
  BY IndInvStep
<1>2. CallsTypeOK'
  BY DEF CallsTypeOK, PCs, Results, OneConnection
<1>3. OneConnection'
  BY DEF OneConnection, CallsTypeOK, sessionVars
<1>4. DistinctRequests'
  BY DEF DistinctRequests, CallsTypeOK, OneConnection
<1>5. FramesMatch'
  BY DEF FramesMatch, CallsTypeOK, DistinctRequests, OneConnection
<1>6. RunsOnce'
  BY DEF RunsOnce, CallsTypeOK, DistinctRequests, FramesMatch, OneConnection, Permits
<1>7. OwnAnswer'
  BY DEF OwnAnswer, CallsTypeOK, DistinctRequests, FramesMatch, RunsOnce
<1>8. LocalChecked'
  BY DEF LocalChecked, sessionVars, CallsTypeOK
<1>9. Correlation'
  BY DEF Correlation, CallsTypeOK, OwnAnswer, RunsOnce
<1>10. OnlyPermittedRuns'
  BY DEF OnlyPermittedRuns, sessionVars, CallsTypeOK, RunsOnce, LocalChecked, Permits
<1>11. NoPendingLeak'
  <2>1. result[k] = "none" /\ result' = result
    BY DEF OwnAnswer
  <2>2. \A d \in Conns : \A g \in pending'[d] : g \in pending[d] \/ g = <<nextReq[handle[k]], k>>
    BY DEF CallsTypeOK
  <2> QED
    BY <2>1, <2>2 DEF NoPendingLeak, CallsTypeOK
<1> QED
  BY <1>1, <1>2, <1>3, <1>4, <1>5, <1>6, <1>7, <1>8, <1>9, <1>10, <1>11 DEF CallsInv

\* SendInvoke preserves the inductive invariant.
LEMMA SendInvokeKeeps == ASSUME CallsInv, NEW k \in CallIds, SendInvoke(k)
    PROVE  CallsInv'
<1> USE CallsAssumption, SessionsAssumption DEF CallsInv, Sent, FramesOf, wireVars, localVars,
      SendInvoke, Fails
<1>1. IndInv'
  BY IndInvStep
<1>2. CallsTypeOK'
  <2>1. ent[k] \in Conns /\ handle[k] \in Conns /\ <<req[k], k>> \in Nat \X CallIds
    BY DEF CallsTypeOK, OneConnection
  <2>2. invokes' \in [Conns -> SUBSET (Nat \X CallIds)]
    BY <2>1 DEF CallsTypeOK
  <2>3. pc' \in [CallIds -> PCs] /\ result' \in [CallIds -> Results]
    BY DEF CallsTypeOK, PCs, Results
  <2> QED
    BY <2>1, <2>2, <2>3 DEF CallsTypeOK
<1>3. OneConnection'
  BY DEF OneConnection, CallsTypeOK, sessionVars
<1>4. DistinctRequests'
  BY DEF DistinctRequests, CallsTypeOK, OneConnection
<1>5. FramesMatch'
  BY DEF FramesMatch, CallsTypeOK, DistinctRequests, OneConnection
<1>6. RunsOnce'
  <2>1. CASE ChannelOpen(ent[k])
    <3>1. ent[k] \in Conns /\ Permits(k, Catalog[ent[k]]) /\ k \notin ran
      BY DEF OneConnection, RunsOnce
    <3>2. \A d \in Conns : \A g \in invokes'[d] :
             g \in invokes[d] \/ (d = ent[k] /\ g = <<req[k], k>>)
      BY <2>1 DEF CallsTypeOK
    <3>3. pc' = [pc EXCEPT ![k] = "waiting"] /\ UNCHANGED <<handling, answers, ran>>
      BY <2>1
    <3> QED
      BY <3>1, <3>2, <3>3 DEF RunsOnce, CallsTypeOK, Permits
  <2>2. CASE ~ChannelOpen(ent[k])
    BY <2>2 DEF RunsOnce, CallsTypeOK, Permits
  <2> QED
    BY <2>1, <2>2
<1>7. OwnAnswer'
  BY DEF OwnAnswer, CallsTypeOK, DistinctRequests, FramesMatch, RunsOnce
<1>8. LocalChecked'
  BY DEF LocalChecked, sessionVars, CallsTypeOK
<1>9. Correlation'
  BY DEF Correlation, CallsTypeOK, OwnAnswer, RunsOnce
<1>10. OnlyPermittedRuns'
  BY DEF OnlyPermittedRuns, sessionVars, CallsTypeOK, RunsOnce, LocalChecked, Permits
<1>11. NoPendingLeak'
  BY DEF NoPendingLeak, CallsTypeOK, OwnAnswer, FramesMatch, DistinctRequests, OneConnection
<1> QED
  BY <1>1, <1>2, <1>3, <1>4, <1>5, <1>6, <1>7, <1>8, <1>9, <1>10, <1>11 DEF CallsInv

\* ReceiveAnswer preserves the inductive invariant.
LEMMA ReceiveAnswerKeeps == ASSUME CallsInv, NEW k \in CallIds, ReceiveAnswer(k)
    PROVE  CallsInv'
<1> USE CallsAssumption, SessionsAssumption DEF CallsInv, Sent, FramesOf, wireVars, localVars,
      ReceiveAnswer
<1>1. IndInv'
  BY IndInvStep
<1>2. CallsTypeOK'
  BY DEF CallsTypeOK, PCs, Results, OneConnection
<1>3. OneConnection'
  BY DEF OneConnection, CallsTypeOK, sessionVars
<1>4. DistinctRequests'
  BY DEF DistinctRequests, CallsTypeOK, OneConnection
<1>5. FramesMatch'
  BY DEF FramesMatch, CallsTypeOK, DistinctRequests, OneConnection
<1>6. RunsOnce'
  BY DEF RunsOnce, CallsTypeOK, DistinctRequests, FramesMatch, OneConnection, Permits
<1>7. OwnAnswer'
  BY DEF OwnAnswer, CallsTypeOK, DistinctRequests, FramesMatch, RunsOnce
<1>8. LocalChecked'
  BY DEF LocalChecked, sessionVars, CallsTypeOK
<1>9. Correlation'
  BY DEF Correlation, CallsTypeOK, OwnAnswer, RunsOnce
<1>10. OnlyPermittedRuns'
  BY DEF OnlyPermittedRuns, sessionVars, CallsTypeOK, RunsOnce, LocalChecked, Permits
<1>11. NoPendingLeak'
  BY DEF NoPendingLeak, CallsTypeOK, OwnAnswer, FramesMatch, DistinctRequests, OneConnection
<1> QED
  BY <1>1, <1>2, <1>3, <1>4, <1>5, <1>6, <1>7, <1>8, <1>9, <1>10, <1>11 DEF CallsInv

\* Expire preserves the inductive invariant.
LEMMA ExpireKeeps == ASSUME CallsInv, NEW k \in CallIds, Expire(k)
    PROVE  CallsInv'
<1> USE CallsAssumption, SessionsAssumption DEF CallsInv, Sent, FramesOf, wireVars, localVars,
      Expire
<1>1. IndInv'
  BY IndInvStep
<1>2. CallsTypeOK'
  BY DEF CallsTypeOK, PCs, Results, OneConnection
<1>3. OneConnection'
  BY DEF OneConnection, CallsTypeOK, sessionVars
<1>4. DistinctRequests'
  BY DEF DistinctRequests, CallsTypeOK, OneConnection
<1>5. FramesMatch'
  BY DEF FramesMatch, CallsTypeOK, DistinctRequests, OneConnection
<1>6. RunsOnce'
  BY DEF RunsOnce, CallsTypeOK, DistinctRequests, FramesMatch, OneConnection, Permits
<1>7. OwnAnswer'
  BY DEF OwnAnswer, CallsTypeOK, DistinctRequests, FramesMatch, RunsOnce
<1>8. LocalChecked'
  BY DEF LocalChecked, sessionVars, CallsTypeOK
<1>9. Correlation'
  BY DEF Correlation, CallsTypeOK, OwnAnswer, RunsOnce
<1>10. OnlyPermittedRuns'
  BY DEF OnlyPermittedRuns, sessionVars, CallsTypeOK, RunsOnce, LocalChecked, Permits
<1>11. NoPendingLeak'
  BY DEF NoPendingLeak, CallsTypeOK, OwnAnswer, FramesMatch, DistinctRequests, OneConnection
<1> QED
  BY <1>1, <1>2, <1>3, <1>4, <1>5, <1>6, <1>7, <1>8, <1>9, <1>10, <1>11 DEF CallsInv

\* RemovePending preserves the inductive invariant.
LEMMA RemovePendingKeeps == ASSUME CallsInv, NEW k \in CallIds, RemovePending(k)
    PROVE  CallsInv'
<1> USE CallsAssumption, SessionsAssumption DEF CallsInv, Sent, FramesOf, wireVars, localVars,
      RemovePending, Fails
<1>1. IndInv'
  BY IndInvStep
<1>2. CallsTypeOK'
  BY DEF CallsTypeOK, PCs, Results, OneConnection
<1>3. OneConnection'
  BY DEF OneConnection, CallsTypeOK, sessionVars
<1>4. DistinctRequests'
  BY DEF DistinctRequests, CallsTypeOK, OneConnection
<1>5. FramesMatch'
  BY DEF FramesMatch, CallsTypeOK, DistinctRequests, OneConnection
<1>6. RunsOnce'
  BY DEF RunsOnce, CallsTypeOK, DistinctRequests, FramesMatch, OneConnection, Permits
<1>7. OwnAnswer'
  BY DEF OwnAnswer, CallsTypeOK, DistinctRequests, FramesMatch, RunsOnce
<1>8. LocalChecked'
  BY DEF LocalChecked, sessionVars, CallsTypeOK
<1>9. Correlation'
  BY DEF Correlation, CallsTypeOK, OwnAnswer, RunsOnce
<1>10. OnlyPermittedRuns'
  BY DEF OnlyPermittedRuns, sessionVars, CallsTypeOK, RunsOnce, LocalChecked, Permits
<1>11. NoPendingLeak'
  BY DEF NoPendingLeak, CallsTypeOK, OwnAnswer, FramesMatch, DistinctRequests, OneConnection
<1> QED
  BY <1>1, <1>2, <1>3, <1>4, <1>5, <1>6, <1>7, <1>8, <1>9, <1>10, <1>11 DEF CallsInv

\* CallerDrops preserves the inductive invariant.
LEMMA CallerDropsKeeps == ASSUME CallsInv, NEW k \in CallIds, CallerDrops(k)
    PROVE  CallsInv'
<1> USE CallsAssumption, SessionsAssumption DEF CallsInv, Sent, FramesOf, wireVars, localVars,
      CallerDrops, Fails
<1>1. IndInv'
  BY IndInvStep
<1>2. CallsTypeOK'
  BY DEF CallsTypeOK, PCs, Results, OneConnection
<1>3. OneConnection'
  BY DEF OneConnection, CallsTypeOK, sessionVars
<1>4. DistinctRequests'
  BY DEF DistinctRequests, CallsTypeOK, OneConnection
<1>5. FramesMatch'
  BY DEF FramesMatch, CallsTypeOK, DistinctRequests, OneConnection
<1>6. RunsOnce'
  BY DEF RunsOnce, CallsTypeOK, DistinctRequests, FramesMatch, OneConnection, Permits
<1>7. OwnAnswer'
  BY DEF OwnAnswer, CallsTypeOK, DistinctRequests, FramesMatch, RunsOnce
<1>8. LocalChecked'
  BY DEF LocalChecked, sessionVars, CallsTypeOK
<1>9. Correlation'
  BY DEF Correlation, CallsTypeOK, OwnAnswer, RunsOnce
<1>10. OnlyPermittedRuns'
  BY DEF OnlyPermittedRuns, sessionVars, CallsTypeOK, RunsOnce, LocalChecked, Permits
<1>11. NoPendingLeak'
  BY DEF NoPendingLeak, CallsTypeOK, OwnAnswer, FramesMatch, DistinctRequests, OneConnection
<1> QED
  BY <1>1, <1>2, <1>3, <1>4, <1>5, <1>6, <1>7, <1>8, <1>9, <1>10, <1>11 DEF CallsInv

\* DispatchInvoke preserves the inductive invariant.
LEMMA DispatchInvokeKeeps == ASSUME CallsInv, NEW c \in Conns, NEW f \in invokes[c], DispatchInvoke(c, f)
    PROVE  CallsInv'
<1> USE CallsAssumption, SessionsAssumption DEF CallsInv, Sent, FramesOf, wireVars, localVars,
      DispatchInvoke
<1>1. IndInv'
  BY IndInvStep
<1>2. CallsTypeOK'
  BY DEF CallsTypeOK, PCs, Results, OneConnection
<1>3. OneConnection'
  BY DEF OneConnection, CallsTypeOK, sessionVars
<1>4. DistinctRequests'
  BY DEF DistinctRequests, CallsTypeOK, OneConnection
<1>5. FramesMatch'
  BY DEF FramesMatch, CallsTypeOK, DistinctRequests, OneConnection
<1>6. RunsOnce'
  <2>1. f \in Nat \X CallIds /\ f[2] \in CallIds /\ Permits(f[2], Catalog[c])
    BY DEF CallsTypeOK, RunsOnce
  <2>2. \A d \in Conns : \A g \in invokes'[d] : g \in invokes[d] /\ (d = c => g # f)
    BY DEF CallsTypeOK
  <2>3. \A d \in Conns : \A g \in invokes'[d] : g[2] # f[2]
    <3> SUFFICES ASSUME NEW d \in Conns, NEW g \in invokes'[d], g[2] = f[2] PROVE FALSE
      OBVIOUS
    <3>1. ent[g[2]] = d /\ ent[f[2]] = c /\ g[1] = req[g[2]] /\ f[1] = req[f[2]]
      BY <2>2 DEF FramesMatch
    <3>2. g \in Nat \X CallIds
      BY <2>2 DEF CallsTypeOK
    <3> QED
      BY <2>1, <2>2, <3>1, <3>2
  <2>4. pc[f[2]] \in {"waiting", "expired", "done"}
    BY DEF RunsOnce
  <2> QED
    BY <2>1, <2>2, <2>3, <2>4 DEF RunsOnce, CallsTypeOK
<1>7. OwnAnswer'
  BY DEF OwnAnswer, CallsTypeOK, DistinctRequests, FramesMatch, RunsOnce
<1>8. LocalChecked'
  BY DEF LocalChecked, sessionVars, CallsTypeOK
<1>9. Correlation'
  BY DEF Correlation, CallsTypeOK, OwnAnswer, RunsOnce
<1>10. OnlyPermittedRuns'
  BY DEF OnlyPermittedRuns, sessionVars, CallsTypeOK, RunsOnce, LocalChecked, Permits
<1>11. NoPendingLeak'
  BY DEF NoPendingLeak, CallsTypeOK, OwnAnswer, FramesMatch, DistinctRequests, OneConnection
<1> QED
  BY <1>1, <1>2, <1>3, <1>4, <1>5, <1>6, <1>7, <1>8, <1>9, <1>10, <1>11 DEF CallsInv

\* SendResponse preserves the inductive invariant.
LEMMA SendResponseKeeps == ASSUME CallsInv, NEW c \in Conns, NEW f \in handling[c], SendResponse(c, f)
    PROVE  CallsInv'
<1> USE CallsAssumption, SessionsAssumption DEF CallsInv, Sent, FramesOf, wireVars, localVars,
      SendResponse
<1>1. IndInv'
  BY IndInvStep
<1>2. CallsTypeOK'
  BY DEF CallsTypeOK, PCs, Results, OneConnection
<1>3. OneConnection'
  BY DEF OneConnection, CallsTypeOK, sessionVars
<1>4. DistinctRequests'
  BY DEF DistinctRequests, CallsTypeOK, OneConnection
<1>5. FramesMatch'
  BY DEF FramesMatch, CallsTypeOK, DistinctRequests, OneConnection
<1>6. RunsOnce'
  BY DEF RunsOnce, CallsTypeOK, DistinctRequests, FramesMatch, OneConnection, Permits
<1>7. OwnAnswer'
  BY DEF OwnAnswer, CallsTypeOK, DistinctRequests, FramesMatch, RunsOnce
<1>8. LocalChecked'
  BY DEF LocalChecked, sessionVars, CallsTypeOK
<1>9. Correlation'
  BY DEF Correlation, CallsTypeOK, OwnAnswer, RunsOnce
<1>10. OnlyPermittedRuns'
  BY DEF OnlyPermittedRuns, sessionVars, CallsTypeOK, RunsOnce, LocalChecked, Permits
<1>11. NoPendingLeak'
  BY DEF NoPendingLeak, CallsTypeOK, OwnAnswer, FramesMatch, DistinctRequests, OneConnection
<1> QED
  BY <1>1, <1>2, <1>3, <1>4, <1>5, <1>6, <1>7, <1>8, <1>9, <1>10, <1>11 DEF CallsInv

\* ReadResponse preserves the inductive invariant.
LEMMA ReadResponseKeeps == ASSUME CallsInv, NEW c \in Conns, NEW f \in answers[c], ReadResponse(c, f)
    PROVE  CallsInv'
<1> USE CallsAssumption, SessionsAssumption DEF CallsInv, Sent, FramesOf, wireVars, localVars,
      ReadResponse
<1>0. \A p \in pending[c] : p[1] = f[1] => p[2] = f[2]
  BY SameIdSameCall
<1>1. IndInv'
  BY IndInvStep
<1>2. CallsTypeOK'
  BY DEF CallsTypeOK, PCs, Results, OneConnection
<1>3. OneConnection'
  BY DEF OneConnection, CallsTypeOK, sessionVars
<1>4. DistinctRequests'
  BY DEF DistinctRequests, CallsTypeOK, OneConnection
<1>5. FramesMatch'
  BY DEF FramesMatch, CallsTypeOK, DistinctRequests, OneConnection
<1>6. RunsOnce'
  BY DEF RunsOnce, CallsTypeOK, DistinctRequests, FramesMatch, OneConnection, Permits
<1>7. OwnAnswer'
  BY <1>0 DEF OwnAnswer, CallsTypeOK, DistinctRequests, FramesMatch, RunsOnce
<1>8. LocalChecked'
  BY DEF LocalChecked, sessionVars, CallsTypeOK
<1>9. Correlation'
  BY DEF Correlation, CallsTypeOK, OwnAnswer, RunsOnce
<1>10. OnlyPermittedRuns'
  BY DEF OnlyPermittedRuns, sessionVars, CallsTypeOK, RunsOnce, LocalChecked, Permits
<1>11. NoPendingLeak'
  BY DEF NoPendingLeak, CallsTypeOK, OwnAnswer, FramesMatch, DistinctRequests, OneConnection
<1> QED
  BY <1>1, <1>2, <1>3, <1>4, <1>5, <1>6, <1>7, <1>8, <1>9, <1>10, <1>11 DEF CallsInv

\* Local services are added, never taken away, and the catalogue comes first.
LEMMA LocalsGrow ==
    ASSUME [Next]_sessionVars, localHandlers \subseteq localMethods
    PROVE  localHandlers \subseteq localHandlers' /\ localHandlers' \subseteq localMethods'
<1>1. ASSUME NEW s \in Services, Host(s)
      PROVE localHandlers \subseteq localHandlers' /\ localHandlers' \subseteq localMethods'
  BY <1>1 DEF Host, issue_token, RegisterMethods, RegisterHandler, localVars
<1>2. ASSUME NEW c \in Conns, Peer(c) PROVE UNCHANGED localVars
  BY <1>2 DEF Peer, accept_loop, RejectHello, Hello, WriterFails, ReaderEnds
<1>3. ASSUME NEW c \in Conns, Serve(c) PROVE UNCHANGED localVars
  BY <1>3 DEF Serve, TakeGeneration, InsertEntry, AckFails, AckWritten, attach_session,
     probe_capabilities, DetachCheck, DropCapabilities, Unlist, AbortWriter
<1>4. ASSUME NEW c \in Conns, Probe(c) PROVE UNCHANGED localVars
  BY <1>4 DEF Probe, ProbeLocal, ProbeLookup, ProbeReturns, ProbeCheck, ProbeStore
<1>5. CASE UNCHANGED sessionVars
  BY <1>5 DEF sessionVars, localVars
<1> QED
  BY <1>1, <1>2, <1>3, <1>4, <1>5 DEF Next, localVars

\* A session step preserves the inductive invariant of the call layer.
LEMMA SessionStepKeeps == ASSUME CallsInv, [Next]_sessionVars, UNCHANGED callVars
    PROVE  CallsInv'
<1>1. IndInv'
  BY IndInvStep DEF CallsInv
<1>2. OneConnection'
  <2>1. \A c \in Conns : phase[c] \in Numbered => phase'[c] \in Numbered
    BY NumberedStable DEF CallsInv
  <2> QED
    BY <2>1 DEF CallsInv, OneConnection, callVars, Permits
<1>3. CallsTypeOK' /\ DistinctRequests' /\ FramesMatch' /\ RunsOnce'
  BY DEF CallsInv, CallsTypeOK, DistinctRequests, FramesMatch, RunsOnce, FramesOf, callVars,
     Permits
<1>4. OwnAnswer' /\ Correlation' /\ OnlyPermittedRuns' /\ NoPendingLeak'
  BY DEF CallsInv, OwnAnswer, Correlation, OnlyPermittedRuns, NoPendingLeak, callVars, Permits
<1>5. LocalChecked'
  BY LocalsGrow DEF CallsInv, LocalChecked, callVars
<1> QED
  BY <1>1, <1>2, <1>3, <1>4, <1>5 DEF CallsInv

\* Every step of the system preserves the inductive invariant.
LEMMA CallsInvStep == CallsInv /\ [SysNext]_vars => CallsInv'
<1> SUFFICES ASSUME CallsInv, [SysNext]_vars PROVE CallsInv'
  OBVIOUS
<1>1. CASE Next /\ UNCHANGED callVars
  BY <1>1, SessionStepKeeps
<1>2. CASE UNCHANGED vars
  BY <1>2, SessionStepKeeps DEF vars
<1>3. ASSUME NEW k \in CallIds, CallStep(k) PROVE CallsInv'
  BY <1>3, LocalInvokeKeeps, LocalExpiresKeeps, LookupEntryKeeps, LookupSessionKeeps,
     InsertPendingKeeps, SendInvokeKeeps, ReceiveAnswerKeeps, ExpireKeeps, RemovePendingKeeps
     DEF CallStep
<1>4. ASSUME NEW k \in CallIds, HostStep(k) PROVE CallsInv'
  BY <1>4, LookupLocalKeeps, LocalReturnsKeeps, CallerDropsKeeps DEF HostStep
<1>5. ASSUME NEW c \in Conns, \/ \E f \in invokes[c] : DispatchInvoke(c, f)
                              \/ \E f \in handling[c] : SendResponse(c, f)
                              \/ \E f \in answers[c] : ReadResponse(c, f)
      PROVE CallsInv'
  BY <1>5, DispatchInvokeKeeps, SendResponseKeeps, ReadResponseKeeps
<1> QED
  BY <1>1, <1>2, <1>3, <1>4, <1>5 DEF SysNext, CallsNext

\* The initial state satisfies the inductive invariant.
LEMMA CallsInvInit == SysInit => CallsInv
<1> SUFFICES ASSUME SysInit PROVE CallsInv
  OBVIOUS
<1>1. IndInv
  BY IndInvInit DEF SysInit
<1> USE CallsAssumption DEF SysInit, CallsInit
<1>2. CallsTypeOK
  BY DEF CallsTypeOK, PCs, Results
<1>3. OneConnection /\ DistinctRequests /\ FramesMatch /\ RunsOnce
  BY DEF OneConnection, DistinctRequests, FramesMatch, RunsOnce, FramesOf, Sent
<1>4. OwnAnswer /\ LocalChecked /\ Correlation /\ OnlyPermittedRuns /\ NoPendingLeak
  BY DEF Init, OwnAnswer, LocalChecked, Correlation, OnlyPermittedRuns, NoPendingLeak
<1> QED
  BY <1>1, <1>2, <1>3, <1>4 DEF CallsInv

-----------------------------------------------------------------------------
(* The theorems.                                                           *)

\* The inductive invariant holds in every reachable state of the system.
THEOREM CallsInvariant == SysSpec => []CallsInv
<1> QED
  BY CallsInvInit, CallsInvStep, PTL DEF SysSpec

\* The call layer's state keeps its types.
THEOREM CallsTypeCorrect == SysSpec => []CallsTypeOK
<1>1. CallsInv => CallsTypeOK
  BY DEF CallsInv
<1> QED
  BY <1>1, CallsInvariant, PTL

\* Callers get the answer to their own invocation only.
THEOREM AnswersAreOwn == SysSpec => []Correlation
<1>1. CallsInv => Correlation
  BY DEF CallsInv
<1> QED
  BY <1>1, CallsInvariant, PTL

\* No handler runs for a caller its catalogue does not let in.
THEOREM RunsArePermitted == SysSpec => []OnlyPermittedRuns
<1>1. CallsInv => OnlyPermittedRuns
  BY DEF CallsInv
<1> QED
  BY <1>1, CallsInvariant, PTL

\* Calls that ended with an answer or a timeout leave nothing in a pending table.
THEOREM PendingIsReleased == SysSpec => []NoPendingLeak
<1>1. CallsInv => NoPendingLeak
  BY DEF CallsInv
<1> QED
  BY <1>1, CallsInvariant, PTL

-----------------------------------------------------------------------------
(* Refinement of the abstract contract.                                    *)

\* A call that goes on without a handler being started is invisible.
LEMMA ActiveStutters ==
    ASSUME CallsTypeOK, NEW k \in CallIds, NEW p \in PCs \ {"idle", "done"},
           pc[k] \notin {"idle", "done"}, pc' = [pc EXCEPT ![k] = p],
           UNCHANGED <<result, reply, ran>>
    PROVE  UNCHANGED Rpc!rpcVars
BY DEF CallsTypeOK, PCs, Rpc!rpcVars

\* A call that returns an error fails, in the contract's terms.
LEMMA FailureMaps ==
    ASSUME CallsTypeOK, NEW k \in CallIds, NEW r \in Results \ {"none", "answer"},
           pc[k] \notin {"idle", "done"}, Fails(k, r), UNCHANGED <<reply, ran>>
    PROVE  Rpc!Fail(k)
BY DEF CallsTypeOK, Fails, Rpc!Fail

\* A call that returns its own answer succeeds, in the contract's terms.
LEMMA SuccessMaps ==
    ASSUME CallsTypeOK, NEW k \in CallIds, k \in ran, pc[k] \notin {"idle", "done"},
           pc' = [pc EXCEPT ![k] = "done"], result' = [result EXCEPT ![k] = "answer"],
           reply' = [reply EXCEPT ![k] = k], UNCHANGED ran
    PROVE  Rpc!Succeed(k)
BY DEF CallsTypeOK, Rpc!Succeed

\* What a call does by itself is a step of the contract or invisible.
LEMMA CallStepMaps ==
    ASSUME CallsInv, NEW k \in CallIds, CallStep(k)
    PROVE  [Rpc!Next]_(Rpc!rpcVars)
<1>0. CallsTypeOK
  BY DEF CallsInv
<1> USE DEF Rpc!Next, wireVars, localVars
<1>1. CASE LocalInvoke(k)
  <2> DEFINE v == IF target[k] \in localMethods THEN Check(k, LocalCatalog[target[k]]) ELSE "none"
  <2>1. CASE v = "none"
    <3>1. k \notin ran
      BY <1>1 DEF LocalInvoke, CallsInv, RunsOnce
    <3>2. /\ pc[k] = "local" /\ pc' = [pc EXCEPT ![k] = "localRun"]
          /\ ran' = ran \union {k} /\ UNCHANGED <<result, reply>>
      BY <1>1, <2>1 DEF LocalInvoke
    <3> QED
      BY <1>0, <3>1, <3>2 DEF CallsTypeOK, Rpc!Run
  <2>2. CASE v # "none"
    <3>1. v \in Results \ {"none", "answer"}
      BY <2>2 DEF Check, Results
    <3>2. pc[k] = "local" /\ Fails(k, v) /\ UNCHANGED <<reply, ran>>
      BY <1>1, <2>2 DEF LocalInvoke
    <3> QED
      BY <1>0, <3>1, <3>2, FailureMaps
  <2> QED
    BY <2>1, <2>2
<1>2. CASE LocalExpires(k)
  BY <1>0, <1>2, FailureMaps DEF LocalExpires, Results
<1>3. CASE LookupEntry(k)
  <2> DEFINE v == IF entries[target[k]] = None THEN "ServiceNotFound"
                  ELSE Check(k, Catalog[entries[target[k]]])
  <2>1. CASE v = "none"
    <3>1. pc[k] = "remote" /\ pc' = [pc EXCEPT ![k] = "found"] /\ UNCHANGED <<result, reply, ran>>
      BY <1>3, <2>1 DEF LookupEntry
    <3> QED
      BY <1>0, <3>1, ActiveStutters DEF PCs
  <2>2. CASE v # "none"
    <3>1. v \in Results \ {"none", "answer"}
      BY <2>2 DEF Check, Results
    <3>2. pc[k] = "remote" /\ Fails(k, v) /\ UNCHANGED <<reply, ran>>
      BY <1>3, <2>2 DEF LookupEntry
    <3> QED
      BY <1>0, <3>1, <3>2, FailureMaps
  <2> QED
    BY <2>1, <2>2
<1>4. CASE LookupSession(k)
  <2>1. CASE HandlesOf(k) = {}
    BY <1>0, <1>4, <2>1, FailureMaps DEF LookupSession, Results
  <2>2. CASE HandlesOf(k) # {}
    BY <1>0, <1>4, <2>2, ActiveStutters DEF LookupSession, PCs
  <2> QED
    BY <2>1, <2>2
<1>5. CASE InsertPending(k)
  BY <1>0, <1>5, ActiveStutters DEF InsertPending, PCs
<1>6. CASE SendInvoke(k)
  <2>1. CASE ChannelOpen(ent[k])
    BY <1>0, <1>6, <2>1, ActiveStutters DEF SendInvoke, PCs
  <2>2. CASE ~ChannelOpen(ent[k])
    BY <1>0, <1>6, <2>2, FailureMaps DEF SendInvoke, Results
  <2> QED
    BY <2>1, <2>2
<1>7. CASE ReceiveAnswer(k)
  <2>1. CASE slot[k] # None
    <3>1. slot[k] = k /\ k \in ran
      BY <2>1 DEF CallsInv, OwnAnswer
    <3> QED
      BY <1>0, <1>7, <2>1, <3>1, SuccessMaps DEF ReceiveAnswer
  <2>2. CASE slot[k] = None
    <3>1. /\ pc[k] = "waiting" /\ pc' = [pc EXCEPT ![k] = "done"] /\ UNCHANGED ran
          /\ result' = [result EXCEPT ![k] = "ConnectionClosed"]
          /\ reply' = [reply EXCEPT ![k] = None]
      BY <1>7, <2>2 DEF ReceiveAnswer
    <3>2. result[k] = "none"
      BY <3>1 DEF CallsInv, OwnAnswer
    <3> QED
      BY <1>0, <3>1, <3>2 DEF CallsTypeOK, Rpc!Fail
  <2> QED
    BY <2>1, <2>2
<1>8. CASE Expire(k)
  BY <1>0, <1>8, ActiveStutters DEF Expire, PCs
<1>9. CASE RemovePending(k)
  BY <1>0, <1>9, FailureMaps DEF RemovePending, Results
<1> QED
  BY <1>1, <1>2, <1>3, <1>4, <1>5, <1>6, <1>7, <1>8, <1>9 DEF CallStep

\* What callers and local handlers do is a step of the contract.
LEMMA HostStepMaps ==
    ASSUME CallsInv, NEW k \in CallIds, HostStep(k)
    PROVE  Rpc!Next
<1>0. CallsTypeOK
  BY DEF CallsInv
<1> USE DEF Rpc!Next, wireVars, localVars
<1>1. ASSUME NEW s \in Services, LookupLocal(k, s) PROVE Rpc!Begin(k)
  BY <1>0, <1>1 DEF LookupLocal, Rpc!Begin, CallsTypeOK
<1>2. CASE LocalReturns(k)
  <2>1. k \in ran
    BY <1>2 DEF LocalReturns, CallsInv, RunsOnce
  <2> QED
    BY <1>0, <1>2, <2>1, SuccessMaps DEF LocalReturns
<1>3. CASE CallerDrops(k)
  BY <1>0, <1>3, FailureMaps DEF CallerDrops, Results
<1> QED
  BY <1>1, <1>2, <1>3 DEF HostStep

\* Every step of the system is a step of the contract or invisible to it.
LEMMA SysStepMaps == CallsInv /\ [SysNext]_vars => [Rpc!Next]_(Rpc!rpcVars)
<1> SUFFICES ASSUME CallsInv, [SysNext]_vars PROVE [Rpc!Next]_(Rpc!rpcVars)
  OBVIOUS
<1>1. ASSUME UNCHANGED <<pc, result, reply, ran>> PROVE UNCHANGED Rpc!rpcVars
  BY <1>1 DEF Rpc!rpcVars
<1>2. CASE (Next /\ UNCHANGED callVars) \/ UNCHANGED vars
  BY <1>1, <1>2 DEF callVars, vars
<1>3. ASSUME NEW c \in Conns, NEW f \in invokes[c], DispatchInvoke(c, f) PROVE Rpc!Next
  <2>1. f[2] \in CallIds /\ f[2] \notin ran /\ pc[f[2]] # "idle"
    BY DEF CallsInv, CallsTypeOK, RunsOnce, FramesOf
  <2> QED
    BY <1>3, <2>1 DEF DispatchInvoke, Rpc!Next, Rpc!Run
<1>4. ASSUME NEW c \in Conns, NEW f, SendResponse(c, f) \/ ReadResponse(c, f)
      PROVE UNCHANGED Rpc!rpcVars
  BY <1>1, <1>4 DEF SendResponse, ReadResponse
<1> QED
  BY <1>2, <1>3, <1>4, CallStepMaps, HostStepMaps DEF SysNext, CallsNext

\* call_with_timeout, with the sessions, apps and callers around it, implements
\* the contract: one beginning and one end per call, at most one run of a
\* handler, and an answer only from the run made for this call.
THEOREM CallsImplementContract == SysSpec => ImplementsRpc
<1>1. SysInit => Rpc!Init
  BY DEF SysInit, CallsInit, Rpc!Init
<1> QED
  BY <1>1, SysStepMaps, CallsInvariant, PTL DEF SysSpec, ImplementsRpc, Rpc!Spec

-----------------------------------------------------------------------------
(* Nobody waits in vain.                                                   *)

\* As long as a call has no answer, its sender is in the pending table of the
\* session it holds, from the insert until it gives up, ...
Pending == \A k \in CallIds :
    pc[k] \in {"pended", "waiting"} /\ slot[k] = None => <<req[k], k>> \in pending[ent[k]]

\* ... and, once sent, its Invoke or the Response is on that connection, or its
\* handler runs there.
UnderWay == \A k \in CallIds :
    pc[k] = "waiting" /\ slot[k] = None => <<req[k], k>> \in FramesOf(ent[k])

\* A step of a call that neither files it nor sends it, nor touches the tables.
LEMMA OtherCallStep ==
    ASSUME CallsTypeOK, Pending, UnderWay, NEW k \in CallIds, NEW p \in PCs,
           p \notin {"pended", "waiting"}, pc' = [pc EXCEPT ![k] = p],
           ent' = ent \/ \E e : ent' = [ent EXCEPT ![k] = e],
           UNCHANGED <<req, slot, pending, invokes, handling, answers>>
    PROVE  Pending' /\ UnderWay'
<1>1. \A j \in CallIds : pc'[j] \in {"pended", "waiting"} => pc'[j] = pc[j] /\ ent'[j] = ent[j]
  BY DEF CallsTypeOK
<1> QED
  BY <1>1 DEF Pending, UnderWay, FramesOf

\* Filing a call drops no other: the request id is new.
LEMMA FilingStep ==
    ASSUME CallsInv, Pending, UnderWay, NEW k \in CallIds, InsertPending(k)
    PROVE  Pending' /\ UnderWay'
<1> USE DEF CallsInv
<1>1. handle[k] = ent[k] /\ ent[k] \in Conns /\ pc[k] = "routed"
  BY DEF InsertPending, OneConnection
<1>2. /\ req' = [req EXCEPT ![k] = nextReq[ent[k]]]
      /\ pending' = [pending EXCEPT ![ent[k]] =
                        {f \in @ : f[1] # nextReq[ent[k]]} \union {<<nextReq[ent[k]], k>>}]
      /\ pc' = [pc EXCEPT ![k] = "pended"]
      /\ UNCHANGED <<ent, slot, invokes, handling, answers>>
  BY <1>1 DEF InsertPending, wireVars
<1>3. Pending'
  <2> SUFFICES ASSUME NEW j \in CallIds, pc'[j] \in {"pended", "waiting"}, slot[j] = None
               PROVE  <<req'[j], j>> \in pending'[ent[j]]
    BY <1>2 DEF Pending
  <2>1. CASE j = k
    BY <1>1, <1>2, <2>1 DEF CallsTypeOK
  <2>2. CASE j # k
    <3>1. pc'[j] = pc[j] /\ req'[j] = req[j]
      BY <1>2, <2>2 DEF CallsTypeOK
    <3>2. <<req[j], j>> \in pending[ent[j]]
      BY <3>1 DEF Pending
    <3>3. ent[j] \in Conns /\ req[j] < nextReq[ent[j]] /\ req[j] \in Nat
      BY <3>1 DEF DistinctRequests, CallsTypeOK, Sent
    <3>4. nextReq[ent[k]] \in Nat
      BY <1>1 DEF CallsTypeOK
    <3>5. ent[j] = ent[k] => req[j] # nextReq[ent[k]]
      BY <3>3, <3>4
    <3> QED
      BY <1>1, <1>2, <3>1, <3>2, <3>3, <3>5 DEF CallsTypeOK
  <2> QED
    BY <2>1, <2>2
<1>4. UnderWay'
  <2>1. \A j \in CallIds : pc'[j] = "waiting" => pc[j] = "waiting" /\ req'[j] = req[j]
    BY <1>1, <1>2 DEF CallsTypeOK
  <2> QED
    BY <1>2, <2>1 DEF UnderWay, FramesOf
<1> QED
  BY <1>3, <1>4

\* The Invoke is on the connection before the call waits.
LEMMA SendingStep ==
    ASSUME CallsInv, Pending, UnderWay, NEW k \in CallIds, SendInvoke(k)
    PROVE  Pending' /\ UnderWay'
<1>0. CallsTypeOK /\ ent[k] \in Conns /\ pc[k] = "pended"
  BY DEF CallsInv, SendInvoke, OneConnection, Sent
<1>1. CASE ChannelOpen(ent[k])
  <2>1. /\ invokes' = [invokes EXCEPT ![ent[k]] = @ \union {<<req[k], k>>}]
        /\ pc' = [pc EXCEPT ![k] = "waiting"]
        /\ UNCHANGED <<ent, req, slot, pending, handling, answers>>
    BY <1>1 DEF SendInvoke
  <2>2. Pending'
    BY <1>0, <2>1 DEF Pending, CallsTypeOK
  <2>3. UnderWay'
    <3>1. \A c \in Conns : invokes[c] \subseteq invokes'[c]
      BY <1>0, <2>1 DEF CallsTypeOK
    <3>2. <<req[k], k>> \in invokes'[ent[k]]
      BY <1>0, <2>1 DEF CallsTypeOK
    <3>3. \A j \in CallIds : j # k /\ pc'[j] = "waiting" => pc[j] = "waiting" /\ ent[j] \in Conns
      BY <1>0, <2>1 DEF CallsTypeOK, CallsInv, OneConnection, Sent
    <3> QED
      BY <2>1, <3>1, <3>2, <3>3 DEF UnderWay, FramesOf
  <2> QED
    BY <2>2, <2>3
<1>2. CASE ~ChannelOpen(ent[k])
  <2>1. pc' = [pc EXCEPT ![k] = "done"] /\ UNCHANGED <<ent, req, slot, pending, invokes, handling, answers>>
    BY <1>2 DEF SendInvoke, Fails
  <2> QED
    BY <1>0, <2>1, OtherCallStep DEF PCs
<1> QED
  BY <1>1, <1>2

\* A call that gives up removes its own entry and no other.
LEMMA GivingUpStep ==
    ASSUME CallsInv, Pending, UnderWay, NEW k \in CallIds, RemovePending(k)
    PROVE  Pending' /\ UnderWay'
<1> USE DEF CallsInv
<1>1. handle[k] = ent[k] /\ ent[k] \in Conns /\ pc[k] = "expired" /\ req[k] # 0
  BY DEF RemovePending, OneConnection, DistinctRequests, Sent
<1>2. /\ pending' = [pending EXCEPT ![ent[k]] = {f \in @ : f[1] # req[k]}]
      /\ pc' = [pc EXCEPT ![k] = "done"]
      /\ UNCHANGED <<ent, req, slot, invokes, handling, answers>>
  BY <1>1 DEF RemovePending, Fails, wireVars
<1>3. ASSUME NEW j \in CallIds, pc'[j] \in {"pended", "waiting"}
      PROVE  pc'[j] = pc[j] /\ (ent[j] = ent[k] => req[j] # req[k]) /\ ent[j] \in Conns
  <2>1. j # k /\ pc'[j] = pc[j]
    BY <1>2, <1>3 DEF CallsTypeOK
  <2> QED
    BY <1>1, <1>3, <2>1 DEF DistinctRequests, Sent
<1>4. Pending'
  <2> SUFFICES ASSUME NEW j \in CallIds, pc'[j] \in {"pended", "waiting"}, slot[j] = None
               PROVE  <<req[j], j>> \in pending'[ent[j]]
    BY <1>2 DEF Pending
  <2>1. <<req[j], j>> \in pending[ent[j]] /\ ent[j] \in Conns
    BY <1>3 DEF Pending
  <2> QED
    BY <1>1, <1>2, <1>3, <2>1 DEF CallsTypeOK
<1>5. UnderWay'
  BY <1>2, <1>3 DEF UnderWay, FramesOf
<1> QED
  BY <1>4, <1>5

\* The app only moves a call's frame on.
LEMMA AppSideStep ==
    ASSUME CallsInv, Pending, UnderWay, NEW c \in Conns, NEW f,
           DispatchInvoke(c, f) \/ SendResponse(c, f)
    PROVE  Pending' /\ UnderWay'
<1>1. UNCHANGED <<pc, ent, req, slot, pending>>
  BY DEF DispatchInvoke, SendResponse
<1>2. \A d \in Conns : FramesOf(d) \subseteq FramesOf(d)'
  BY DEF DispatchInvoke, SendResponse, FramesOf, CallsInv, CallsTypeOK
<1>3. \A k \in CallIds : pc[k] = "waiting" => ent[k] \in Conns
  BY DEF CallsInv, OneConnection, Sent
<1>4. UnderWay'
  <2> SUFFICES ASSUME NEW k \in CallIds, pc[k] = "waiting", slot[k] = None
               PROVE  <<req[k], k>> \in FramesOf(ent[k])'
    BY <1>1 DEF UnderWay
  <2> PICK d \in Conns : d = ent[k]
    BY <1>3
  <2>1. <<req[k], k>> \in FramesOf(d)'
    BY <1>2 DEF UnderWay
  <2> QED
    BY <1>1, <2>1 DEF FramesOf
<1> QED
  BY <1>1, <1>4 DEF Pending

\* A Response that is taken off the connection reaches the call it belongs to.
LEMMA ReadingStep ==
    ASSUME CallsInv, Pending, UnderWay, NEW c \in Conns, NEW f \in answers[c], ReadResponse(c, f)
    PROVE  Pending' /\ UnderWay'
<1> USE DEF CallsInv
<1> DEFINE waker == {p \in pending[c] : p[1] = f[1]}
<1>1. /\ answers' = [answers EXCEPT ![c] = @ \ {f}]
      /\ pending' = [pending EXCEPT ![c] = @ \ waker]
      /\ slot' = [k \in CallIds |-> IF \E p \in waker : p[2] = k THEN f[2] ELSE slot[k]]
      /\ UNCHANGED <<pc, ent, req, invokes, handling>>
  BY DEF ReadResponse
<1>2. f \in Nat \X CallIds /\ f[2] # None
  BY CallsAssumption DEF CallsTypeOK
<1>3. ASSUME NEW k \in CallIds, pc[k] \in {"pended", "waiting"}, slot'[k] = None
      PROVE  /\ slot[k] = None /\ ent[k] \in Conns
             /\ <<req[k], k>> \in pending[ent[k]] /\ ~(ent[k] = c /\ req[k] = f[1])
  <2>1. (\A p \in waker : p[2] # k) /\ slot[k] = None
    BY <1>1, <1>2, <1>3
  <2>2. <<req[k], k>> \in pending[ent[k]]
    BY <1>3, <2>1 DEF Pending
  <2>3. ent[k] \in Conns
    BY <1>3 DEF OneConnection, Sent
  <2> QED
    BY <2>1, <2>2, <2>3
<1>4. Pending'
  <2> SUFFICES ASSUME NEW k \in CallIds, pc[k] \in {"pended", "waiting"}, slot'[k] = None
               PROVE  <<req[k], k>> \in pending'[ent[k]]
    BY <1>1 DEF Pending
  <2>1. /\ ent[k] \in Conns
        /\ <<req[k], k>> \in pending[ent[k]] /\ ~(ent[k] = c /\ req[k] = f[1])
    BY <1>3
  <2> QED
    BY <1>1, <2>1 DEF CallsTypeOK
<1>5. UnderWay'
  <2> SUFFICES ASSUME NEW k \in CallIds, pc[k] = "waiting", slot'[k] = None
               PROVE  <<req[k], k>> \in invokes[ent[k]] \union handling[ent[k]] \union answers'[ent[k]]
    BY <1>1 DEF UnderWay, FramesOf
  <2>1. slot[k] = None /\ ent[k] \in Conns /\ ~(ent[k] = c /\ req[k] = f[1])
    BY <1>3
  <2>2. <<req[k], k>> \in invokes[ent[k]] \union handling[ent[k]] \union answers[ent[k]]
    BY <2>1 DEF UnderWay, FramesOf
  <2>3. ent[k] = c => <<req[k], k>> # f
    BY <1>2, <2>1
  <2> QED
    BY <1>1, <2>1, <2>2, <2>3 DEF CallsTypeOK
<1> QED
  BY <1>4, <1>5

LEMMA UnderWayStep ==
    CallsInv /\ Pending /\ UnderWay /\ [SysNext]_vars => Pending' /\ UnderWay'
<1> SUFFICES ASSUME CallsInv, Pending, UnderWay, [SysNext]_vars PROVE Pending' /\ UnderWay'
  OBVIOUS
<1>0. CallsTypeOK
  BY DEF CallsInv
<1>1. CASE (Next /\ UNCHANGED callVars) \/ UNCHANGED vars
  BY <1>1 DEF callVars, vars, Pending, UnderWay, FramesOf
<1>2. ASSUME NEW k \in CallIds, CallStep(k) PROVE Pending' /\ UnderWay'
  <2>1. CASE LocalInvoke(k) \/ LocalExpires(k) \/ LookupEntry(k) \/ LookupSession(k)
             \/ ReceiveAnswer(k) \/ Expire(k)
    <3>1. \E p \in PCs : /\ p \notin {"pended", "waiting"} /\ pc' = [pc EXCEPT ![k] = p]
                         /\ ent' = ent \/ \E e : ent' = [ent EXCEPT ![k] = e]
      BY <2>1
      DEF LocalInvoke, LocalExpires, LookupEntry, LookupSession, ReceiveAnswer, Expire, Fails, PCs
    <3>2. UNCHANGED <<req, slot, pending, invokes, handling, answers>>
      BY <2>1
      DEF LocalInvoke, LocalExpires, LookupEntry, LookupSession, ReceiveAnswer, Expire, wireVars
    <3> QED
      BY <1>0, <3>1, <3>2, OtherCallStep
  <2> QED
    BY <1>2, <2>1, FilingStep, SendingStep, GivingUpStep DEF CallStep
<1>3. ASSUME NEW k \in CallIds, HostStep(k) PROVE Pending' /\ UnderWay'
  <2>1. /\ \E p \in PCs : p \notin {"pended", "waiting"} /\ pc' = [pc EXCEPT ![k] = p]
        /\ UNCHANGED <<ent, req, slot, pending, invokes, handling, answers>>
    BY <1>3 DEF HostStep, LookupLocal, LocalReturns, CallerDrops, Fails, PCs, wireVars
  <2> QED
    BY <1>0, <2>1, OtherCallStep
<1> QED
  BY <1>1, <1>2, <1>3, AppSideStep, ReadingStep DEF SysNext, CallsNext

\* A call that waits without an answer is still pending in the session it was sent
\* on, and its frame is on that connection or with its handler: no step of another
\* call, of a timer, of a late Response or of a re-registration takes either away.
THEOREM NobodyWaitsInVain == SysSpec => [](Pending /\ UnderWay)
<1>1. SysInit => Pending /\ UnderWay
  BY DEF SysInit, CallsInit, Pending, UnderWay
<1> QED
  BY <1>1, UnderWayStep, CallsInvariant, PTL DEF SysSpec

\* The error that call_with_timeout returns when its oneshot sender was dropped.
NeverClosed == \A k \in CallIds : result[k] # "ConnectionClosed"

\* The call's own clone of the SessionHandle keeps the table, and with it the
\* sender, alive, so only an answer wakes the call.
LEMMA NeverClosedStep ==
    CallsInv /\ Pending /\ NeverClosed /\ [SysNext]_vars => NeverClosed'
<1> SUFFICES ASSUME CallsInv, Pending, NeverClosed, [SysNext]_vars PROVE NeverClosed'
  OBVIOUS
<1>0. result \in [CallIds -> Results]
  BY DEF CallsInv, CallsTypeOK
<1>1. CASE (Next /\ UNCHANGED callVars) \/ UNCHANGED vars
  BY <1>1 DEF callVars, vars, NeverClosed
<1>2. ASSUME NEW k \in CallIds, ReceiveAnswer(k) PROVE NeverClosed'
  <2>1. handle[k] = ent[k] /\ pc[k] = "waiting"
    BY <1>2 DEF ReceiveAnswer, CallsInv, OneConnection, Sent
  <2>2. slot[k] = None => SenderAlive(k)
    BY <2>1 DEF Pending, SenderAlive, TableAlive
  <2>3. slot[k] # None /\ result' = [result EXCEPT ![k] = "answer"]
    BY <1>2, <2>2 DEF ReceiveAnswer
  <2> QED
    BY <1>0, <2>3 DEF NeverClosed
<1>3. ASSUME NEW k \in CallIds, CallStep(k), ~ReceiveAnswer(k) PROVE NeverClosed'
  <2>1. result' = result \/ \E r : r # "ConnectionClosed" /\ result' = [result EXCEPT ![k] = r]
    BY <1>3
    DEF CallStep, LocalInvoke, LocalExpires, LookupEntry, LookupSession, InsertPending, SendInvoke,
        Expire, RemovePending, Fails, Check
  <2> QED
    BY <1>0, <2>1 DEF NeverClosed
<1>4. ASSUME NEW k \in CallIds, HostStep(k) PROVE NeverClosed'
  BY <1>0, <1>4 DEF HostStep, LookupLocal, LocalReturns, CallerDrops, Fails, NeverClosed
<1>5. ASSUME NEW c \in Conns, NEW f,
             DispatchInvoke(c, f) \/ SendResponse(c, f) \/ ReadResponse(c, f)
      PROVE  NeverClosed'
  BY <1>5 DEF DispatchInvoke, SendResponse, ReadResponse, NeverClosed
<1> QED
  BY <1>1, <1>2, <1>3, <1>4, <1>5 DEF SysNext, CallsNext

\* No call ever returns ConnectionClosed, however its session ends: the arms of
\* call_with_timeout that do so are unreachable, which is why a call without a
\* timeout is left waiting (the finding at EndedSessionsRelease).
THEOREM ConnectionClosedUnreachable == SysSpec => []NeverClosed
<1>1. SysInit => NeverClosed
  BY DEF SysInit, CallsInit, NeverClosed
<1> QED
  BY <1>1, NeverClosedStep, NobodyWaitsInVain, CallsInvariant, PTL DEF SysSpec

=============================================================================
