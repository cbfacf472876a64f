--------------------------- MODULE SessionsProofs ---------------------------
(***************************************************************************)
(* Proofs about the session layer, for any number of services, connections *)
(* and tokens.  The argument is one inductive invariant, IndInv: what TLC  *)
(* checks, strengthened by four facts the steps rely on.                   *)
(***************************************************************************)
EXTENDS Sessions, TLAPS

\* An outstanding token was issued for its service and has admitted nobody yet.
OutstandingTokens ==
    \A s \in Services : tokens[s] # 0 =>
        /\ tokens[s] \in 1..issued
        /\ owner[tokens[s]] = s
        /\ \A c \in Conns : phase[c] \in Admitted => tok[c] # tokens[s]

\* Generations identify connections; remove_if and still_current rely on it.
UniqueGenerations ==
    \A c, d \in Conns :
        phase[c] \in Numbered /\ phase[d] \in Numbered /\ gen[c] = gen[d] => c = d

\* serve past its call of probe_capabilities.
Probed == {"serving", "detached", "dropping", "leaving", "unlisted", "closed"}

\* A probe that was routed to another connection finds that its own connection
\* no longer holds the entry, and a connection never gets its entry back.  One
\* that was routed to a local handler had one to go to.
ProbesOfSuccessors ==
    \A c \in Conns :
        /\ probe[c] # "none" => phase[c] \in Probed
        /\ probe[c] \in {"calling", "answered", "checked"} =>
              /\ probeBy[c] \in Answerers
              /\ probeBy[c] \in {c, InProcess} \/ entries[svc[c]] # c
              /\ probeBy[c] = InProcess => svc[c] \in localHandlers
        /\ probe[c] = "checked" => probeBy[c] \in {c, InProcess}

\* Cached capabilities were probed by a connection past its handshake.
CachedByProbed ==
    \A s \in Services : caps[s] # None => phase[caps[s][1]] \in Probed

\* The inductive invariant.
IndInv ==
    /\ TypeOK
    /\ OutstandingTokens
    /\ SingleUseTokens
    /\ UniqueGenerations
    /\ NoDanglingEntry
    /\ ProbesOfSuccessors
    /\ CachedByProbed
    /\ CapsNotFromAnother

-----------------------------------------------------------------------------
(* Type correctness.                                                       *)

\* Every step of the session layer preserves the type invariant.
LEMMA TypeStep == TypeOK /\ ProbesOfSuccessors /\ [Next]_sessionVars => TypeOK'
<1> SUFFICES ASSUME TypeOK, ProbesOfSuccessors, [Next]_sessionVars PROVE TypeOK'
  OBVIOUS
<1> USE SessionsAssumption DEF TypeOK, Phases, Admitted, Numbered
<1>1. ASSUME NEW s \in Services, Host(s) PROVE TypeOK'
  <2>1. CASE issue_token(s)
    BY <2>1 DEF localVars, issue_token
  <2>2. CASE s \in LocalServices /\ RegisterMethods(s)
    BY <2>2 DEF RegisterMethods
  <2>3. CASE s \in LocalServices /\ RegisterHandler(s)
    BY <2>3 DEF RegisterHandler
  <2> QED
    BY <1>1, <2>1, <2>2, <2>3 DEF Host
<1>2. ASSUME NEW c \in Conns, accept_loop(c) \/ RejectHello(c) PROVE TypeOK'
  <2>1. CASE accept_loop(c)
    BY <2>1 DEF localVars, accept_loop
  <2>2. CASE RejectHello(c)
    BY <2>2 DEF localVars, RejectHello
  <2> QED
    BY <1>2, <2>1, <2>2
<1>3. ASSUME NEW c \in Conns, NEW s \in Services, NEW t \in 0..MaxTokens, Hello(c, s, t)
      PROVE TypeOK'
  BY <1>3 DEF localVars, Hello, TokensAfterConsume, consume_token
<1>4. ASSUME NEW c \in Conns, TakeGeneration(c) PROVE TypeOK'
  BY <1>4 DEF localVars, TakeGeneration
<1>5. ASSUME NEW c \in Conns, InsertEntry(c) PROVE TypeOK'
  BY <1>5 DEF localVars, InsertEntry
<1>6. ASSUME NEW c \in Conns, AckFails(c) \/ Unlist(c) PROVE TypeOK'
  <2>1. CASE AckFails(c)
    BY <2>1 DEF localVars, AckFails, remove_if
  <2>2. CASE Unlist(c)
    BY <2>2 DEF localVars, Unlist, remove_if
  <2> QED
    BY <1>6, <2>1, <2>2
<1>7. ASSUME NEW c \in Conns, AckWritten(c) \/ WriterFails(c) \/ AbortWriter(c) PROVE TypeOK'
  <2>1. CASE AckWritten(c)
    BY <2>1 DEF localVars, AckWritten
  <2>2. CASE WriterFails(c)
    BY <2>2 DEF localVars, WriterFails
  <2>3. CASE AbortWriter(c)
    BY <2>3 DEF localVars, AbortWriter
  <2> QED
    BY <1>7, <2>1, <2>2, <2>3
<1>8. ASSUME NEW c \in Conns, attach_session(c) \/ ReaderEnds(c) PROVE TypeOK'
  <2>1. CASE attach_session(c)
    <3>1. sessions' \subseteq Services \X Nat \X Conns
      BY <2>1 DEF localVars, attach_session
    <3> QED
      BY <2>1, <3>1 DEF localVars, attach_session
  <2>2. CASE ReaderEnds(c)
    <3>1. sessions' \subseteq Services \X Nat \X Conns
      BY <2>2 DEF localVars, ReaderEnds
    <3> QED
      BY <2>2, <3>1 DEF localVars, ReaderEnds
  <2> QED
    BY <1>8, <2>1, <2>2
<1>9. ASSUME NEW c \in Conns, probe_capabilities(c) PROVE TypeOK'
  BY <1>9 DEF localVars, probe_capabilities, ProbeStates
<1>10. ASSUME NEW c \in Conns, Probe(c) PROVE TypeOK'
  <2> USE DEF localVars, ProbeStates
  <2>0. probe[c] # "none" => svc[c] \in Services
    BY DEF ProbesOfSuccessors, Probed
  <2>1. CASE ProbeLocal(c)
    BY <2>1 DEF ProbeLocal, Answerers
  <2>2. CASE ProbeLookup(c)
    BY <2>0, <2>2 DEF ProbeLookup, Answerers
  <2>3. CASE ProbeReturns(c)
    <3>1. PICK p \in {"answered", "done"} : probe' = [probe EXCEPT ![c] = p]
      BY <2>3 DEF localVars, ProbeReturns
    <3> QED
      BY <2>3, <3>1 DEF localVars, ProbeReturns
  <2>4. CASE ProbeCheck(c)
    BY <2>4 DEF localVars, ProbeCheck
  <2>5. CASE ProbeStore(c)
    <3>1. probeBy[c] \in Answerers
      BY <2>5 DEF ProbesOfSuccessors, ProbeStore
    <3>2. caps' \in [Services -> (Conns \X Answerers) \union {None}]
      BY <2>5, <3>1 DEF localVars, ProbeStore
    <3> QED
      BY <2>5, <3>2 DEF localVars, ProbeStore
  <2> QED
    BY <1>10, <2>1, <2>2, <2>3, <2>4, <2>5 DEF Probe
<1>11. ASSUME NEW c \in Conns, DetachCheck(c) \/ DropCapabilities(c) PROVE TypeOK'
  <2>1. CASE DetachCheck(c)
    BY <2>1 DEF localVars, DetachCheck
  <2>2. CASE DropCapabilities(c)
    BY <2>2 DEF localVars, DropCapabilities
  <2> QED
    BY <1>11, <2>1, <2>2
<1>12. CASE UNCHANGED sessionVars
  BY <1>12 DEF sessionVars, localVars
<1> QED
  BY <1>1, <1>2, <1>3, <1>4, <1>5, <1>6, <1>7, <1>8, <1>9, <1>10, <1>11, <1>12
     DEF Next, Peer, Serve

-----------------------------------------------------------------------------
(* Spawn tokens.                                                           *)

\* Every step keeps the outstanding tokens unspent and the spent ones apart.
LEMMA TokenStep ==
    TypeOK /\ OutstandingTokens /\ SingleUseTokens /\ [Next]_sessionVars
        => OutstandingTokens' /\ SingleUseTokens'
<1> SUFFICES ASSUME TypeOK, OutstandingTokens, SingleUseTokens, [Next]_sessionVars
             PROVE OutstandingTokens' /\ SingleUseTokens'
  OBVIOUS
<1> USE SessionsAssumption DEF TypeOK, OutstandingTokens, SingleUseTokens
<1>1. ASSUME NEW s \in Services, Host(s)
      PROVE OutstandingTokens' /\ SingleUseTokens'
  BY <1>1 DEF Host, issue_token, RegisterMethods, RegisterHandler
<1>2. ASSUME NEW c \in Conns, NEW s \in Services, NEW t \in 0..MaxTokens, Hello(c, s, t)
      PROVE OutstandingTokens' /\ SingleUseTokens'
  <2>1. CASE consume_token(s, t)
    <3>1. phase' = [phase EXCEPT ![c] = "admitted"]
      BY <1>2, <2>1 DEF Hello
    <3> QED
      BY <1>2, <2>1, <3>1 DEF Hello, TokensAfterConsume, consume_token, Admitted
  <2>2. CASE ~consume_token(s, t)
    <3>1. phase' = [phase EXCEPT ![c] = "rejected"]
      BY <1>2, <2>2 DEF Hello
    <3> QED
      BY <1>2, <3>1 DEF Hello, TokensAfterConsume, Admitted
  <2> QED
    BY <2>1, <2>2
<1>3. ASSUME UNCHANGED <<tokens, issued, owner, tok, svc>>,
             \A c \in Conns : phase'[c] \in Admitted => phase[c] \in Admitted
      PROVE OutstandingTokens' /\ SingleUseTokens'
  BY <1>3
<1>4. ASSUME NEW c \in Conns, accept_loop(c) \/ RejectHello(c) \/ WriterFails(c) \/ ReaderEnds(c)
      PROVE OutstandingTokens' /\ SingleUseTokens'
  BY <1>3, <1>4 DEF accept_loop, RejectHello, WriterFails, ReaderEnds, Admitted
<1>5. ASSUME NEW c \in Conns, Serve(c)
      PROVE OutstandingTokens' /\ SingleUseTokens'
  BY <1>3, <1>5 DEF Serve, TakeGeneration, InsertEntry, AckFails, AckWritten, attach_session,
     probe_capabilities, DetachCheck, DropCapabilities, Unlist, AbortWriter, Admitted
<1>6. ASSUME NEW c \in Conns, Probe(c)
      PROVE OutstandingTokens' /\ SingleUseTokens'
  BY <1>3, <1>6 DEF Probe, ProbeLocal, ProbeLookup, ProbeReturns, ProbeCheck, ProbeStore
<1>7. CASE UNCHANGED sessionVars
  BY <1>3, <1>7 DEF sessionVars, localVars
<1> QED
  BY <1>1, <1>2, <1>4, <1>5, <1>6, <1>7 DEF Next, Peer

-----------------------------------------------------------------------------
(* Generations.                                                            *)

\* Every step keeps the generations of the connections distinct.
LEMMA GenerationStep ==
    TypeOK /\ UniqueGenerations /\ [Next]_sessionVars => UniqueGenerations'
<1> SUFFICES ASSUME TypeOK, UniqueGenerations, [Next]_sessionVars PROVE UniqueGenerations'
  OBVIOUS
<1> USE SessionsAssumption DEF TypeOK, UniqueGenerations
<1>1. ASSUME NEW c \in Conns, TakeGeneration(c) PROVE UniqueGenerations'
  BY <1>1 DEF TakeGeneration, Numbered, Admitted
<1>2. ASSUME UNCHANGED gen, \A c \in Conns : phase'[c] \in Numbered => phase[c] \in Numbered
      PROVE UniqueGenerations'
  BY <1>2
<1>3. ASSUME NEW s \in Services, Host(s) PROVE UniqueGenerations'
  BY <1>2, <1>3 DEF Host, issue_token, RegisterMethods, RegisterHandler
<1>4. ASSUME NEW c \in Conns, Peer(c) PROVE UniqueGenerations'
  BY <1>2, <1>4 DEF Peer, accept_loop, RejectHello, Hello, WriterFails, ReaderEnds, Numbered,
     Admitted
<1>5. ASSUME NEW c \in Conns, Serve(c), ~TakeGeneration(c) PROVE UniqueGenerations'
  BY <1>2, <1>5 DEF Serve, InsertEntry, AckFails, AckWritten, attach_session,
     probe_capabilities, DetachCheck, DropCapabilities, Unlist, AbortWriter, Numbered, Admitted
<1>6. ASSUME NEW c \in Conns, Probe(c) PROVE UniqueGenerations'
  BY <1>2, <1>6 DEF Probe, ProbeLocal, ProbeLookup, ProbeReturns, ProbeCheck, ProbeStore
<1>7. CASE UNCHANGED sessionVars
  BY <1>2, <1>7 DEF sessionVars, localVars
<1> QED
  BY <1>1, <1>3, <1>4, <1>5, <1>6, <1>7 DEF Next

-----------------------------------------------------------------------------
(* The registry and the session table.                                     *)

\* Comparing generations decides whether the entry is the connection's own.
LEMMA EntryIsOwn ==
    ASSUME IndInv, NEW c \in Conns, phase[c] \in Numbered
    PROVE  EntryIs(c) <=> entries[svc[c]] = c
<1> DEFINE e == entries[svc[c]]
<1>1. svc[c] \in Services /\ e \in Conns \union {None}
  BY DEF IndInv, TypeOK, Numbered
<1>2. e # None => e \in Conns /\ phase[e] \in Numbered
  BY <1>1 DEF IndInv, NoDanglingEntry, Listed, Numbered, Admitted
<1>3. e # None /\ gen[e] = gen[c] => e = c
  BY <1>2 DEF IndInv, UniqueGenerations
<1>4. e = c => e # None
  BY SessionsAssumption
<1> QED
  BY <1>3, <1>4 DEF EntryIs

\* remove_if takes out the connection's own entry and nothing else.
LEMMA RemoveOwn ==
    ASSUME IndInv, NEW c \in Conns, phase[c] \in Numbered
    PROVE  /\ remove_if(c) \in [Services -> Conns \union {None}]
           /\ \A s \in Services :
                 remove_if(c)[s] = IF entries[s] = c THEN None ELSE entries[s]
<1>1. EntryIs(c) <=> entries[svc[c]] = c
  BY EntryIsOwn
<1>2. svc[c] \in Services /\ entries \in [Services -> Conns \union {None}]
  BY DEF IndInv, TypeOK, Numbered
<1>3. \A s \in Services : entries[s] = c => s = svc[c]
  BY SessionsAssumption DEF IndInv, NoDanglingEntry
<1> QED
  BY <1>1, <1>2, <1>3 DEF remove_if

\* Every step keeps both tables free of entries nobody will clean up.
LEMMA TableStep == IndInv /\ [Next]_sessionVars => NoDanglingEntry'
<1> SUFFICES ASSUME IndInv, [Next]_sessionVars PROVE NoDanglingEntry'
  OBVIOUS
<1>0. TypeOK /\ UniqueGenerations /\ NoDanglingEntry
  BY DEF IndInv
<1> USE SessionsAssumption
<1>1. ASSUME UNCHANGED <<entries, sessions>>,
             \A c \in Conns : phase[c] \in Listed =>
                 phase'[c] \in Listed /\ svc'[c] = svc[c] /\ gen'[c] = gen[c]
                 /\ (phase[c] \in {"attached", "serving"} => phase'[c] \in {"attached", "serving"})
      PROVE NoDanglingEntry'
  BY <1>0, <1>1 DEF TypeOK, NoDanglingEntry, Listed
<1>2. ASSUME NEW s \in Services, Host(s) PROVE NoDanglingEntry'
  BY <1>1, <1>2 DEF Host, issue_token, RegisterMethods, RegisterHandler, localVars
<1>3. ASSUME NEW c \in Conns, accept_loop(c) \/ RejectHello(c) \/ WriterFails(c)
      PROVE NoDanglingEntry'
  BY <1>0, <1>1, <1>3 DEF TypeOK, accept_loop, RejectHello, WriterFails, Listed
<1>4. ASSUME NEW c \in Conns, NEW s \in Services, NEW t \in 0..MaxTokens, Hello(c, s, t)
      PROVE NoDanglingEntry'
  BY <1>0, <1>1, <1>4 DEF TypeOK, Hello, Listed
<1>5. ASSUME NEW c \in Conns, TakeGeneration(c) PROVE NoDanglingEntry'
  BY <1>0, <1>1, <1>5 DEF TypeOK, TakeGeneration, Listed
<1>6. ASSUME NEW c \in Conns, InsertEntry(c) PROVE NoDanglingEntry'
  BY <1>0, <1>6 DEF TypeOK, NoDanglingEntry, InsertEntry, Listed, Numbered, Admitted
<1>7. ASSUME NEW c \in Conns, AckFails(c) \/ Unlist(c) PROVE NoDanglingEntry'
  <2>1. phase[c] \in Numbered
    BY <1>7 DEF AckFails, Unlist, Numbered, Admitted
  <2>2. \A s \in Services : entries'[s] = IF entries[s] = c THEN None ELSE entries[s]
    BY <1>7, <2>1, RemoveOwn DEF AckFails, Unlist
  <2>3. \A d \in Conns \ {c} : phase'[d] = phase[d]
    BY <1>0, <1>7 DEF TypeOK, AckFails, Unlist
  <2>4. UNCHANGED <<sessions, svc, gen>> /\ phase[c] \notin {"attached", "serving"}
    BY <1>7 DEF AckFails, Unlist
  <2> QED
    <3>1. \A s \in Services : entries'[s] # None =>
             svc'[entries'[s]] = s /\ phase'[entries'[s]] \in Listed
      BY <1>0, <2>2, <2>3, <2>4 DEF TypeOK, NoDanglingEntry
    <3>2. \A h \in sessions' : h[3] \in Conns \ {c}
      BY <1>0, <2>4 DEF TypeOK, NoDanglingEntry
    <3>3. \A h \in sessions' : h[1] = svc'[h[3]] /\ h[2] = gen'[h[3]]
                              /\ phase'[h[3]] \in {"attached", "serving"}
      BY <1>0, <2>3, <2>4, <3>2 DEF NoDanglingEntry
    <3> QED
      BY <3>1, <3>3 DEF NoDanglingEntry
<1>8. ASSUME NEW c \in Conns, attach_session(c) PROVE NoDanglingEntry'
  <2>1. svc[c] \in Services /\ gen[c] \in Nat
    BY <1>0, <1>8 DEF TypeOK, attach_session, Admitted
  <2>2. \A h \in sessions' : h \in sessions \/ h = <<svc[c], gen[c], c>>
    BY <1>8 DEF attach_session
  <2> QED
    BY <1>0, <1>8, <2>1, <2>2 DEF TypeOK, NoDanglingEntry, attach_session, Listed
<1>9. ASSUME NEW c \in Conns, ReaderEnds(c) PROVE NoDanglingEntry'
  <2>1. \A h \in sessions' : h \in sessions /\ h[3] # c
    BY <1>0, <1>9 DEF NoDanglingEntry, ReaderEnds
  <2> QED
    BY <1>0, <1>9, <2>1 DEF TypeOK, NoDanglingEntry, ReaderEnds, Listed
<1>10. ASSUME NEW c \in Conns, \/ AckWritten(c) \/ probe_capabilities(c)
                              \/ DetachCheck(c) \/ DropCapabilities(c)
       PROVE NoDanglingEntry'
  BY <1>0, <1>1, <1>10 DEF TypeOK, AckWritten, probe_capabilities, DetachCheck,
     DropCapabilities, Listed
<1>11. ASSUME NEW c \in Conns, AbortWriter(c) PROVE NoDanglingEntry'
  BY <1>0, <1>1, <1>11 DEF TypeOK, AbortWriter, Listed
<1>12. ASSUME NEW c \in Conns, Probe(c) PROVE NoDanglingEntry'
  BY <1>1, <1>12 DEF Probe, ProbeLocal, ProbeLookup, ProbeReturns, ProbeCheck, ProbeStore
<1>13. CASE UNCHANGED sessionVars
  BY <1>1, <1>13 DEF sessionVars, localVars
<1> QED
  BY <1>2, <1>3, <1>4, <1>5, <1>6, <1>7, <1>8, <1>9, <1>10, <1>11, <1>12, <1>13
     DEF Next, Peer, Serve

-----------------------------------------------------------------------------
(* The capability cache.                                                   *)

\* Every step keeps what is known of a probe that reached a successor.
LEMMA ProbeInvStep == IndInv /\ [Next]_sessionVars => ProbesOfSuccessors'
<1> SUFFICES ASSUME IndInv, [Next]_sessionVars PROVE ProbesOfSuccessors'
  OBVIOUS
<1>0. TypeOK /\ NoDanglingEntry /\ ProbesOfSuccessors
  BY DEF IndInv
<1> USE SessionsAssumption
<1>1. ASSUME UNCHANGED <<probe, probeBy>>,
             \A c \in Conns : phase[c] \in Probed =>
                 /\ phase'[c] \in Probed /\ svc'[c] = svc[c]
                 /\ entries[svc[c]] # c => entries'[svc[c]] # c,
             localHandlers \subseteq localHandlers'
      PROVE ProbesOfSuccessors'
  BY <1>0, <1>1 DEF ProbesOfSuccessors
<1>2. ASSUME NEW s \in Services, Host(s) PROVE ProbesOfSuccessors'
  BY <1>1, <1>2 DEF Host, issue_token, RegisterMethods, RegisterHandler, localVars
<1>3. ASSUME NEW c \in Conns, accept_loop(c) \/ RejectHello(c) \/ WriterFails(c) \/ ReaderEnds(c)
      PROVE ProbesOfSuccessors'
  BY <1>0, <1>1, <1>3
  DEF localVars, TypeOK, accept_loop, RejectHello, WriterFails, ReaderEnds, Probed
<1>4. ASSUME NEW c \in Conns, NEW s \in Services, NEW t \in 0..MaxTokens, Hello(c, s, t)
      PROVE ProbesOfSuccessors'
  BY <1>0, <1>1, <1>4 DEF localVars, TypeOK, Hello, Probed
<1>5. ASSUME NEW c \in Conns, TakeGeneration(c) \/ AckWritten(c) \/ attach_session(c)
      PROVE ProbesOfSuccessors'
  BY <1>0, <1>1, <1>5 DEF localVars, TypeOK, TakeGeneration, AckWritten, attach_session, Probed
<1>6. ASSUME NEW c \in Conns, InsertEntry(c) PROVE ProbesOfSuccessors'
  BY <1>0, <1>1, <1>6 DEF localVars, TypeOK, InsertEntry, Probed, Admitted
<1>7. ASSUME NEW c \in Conns, AckFails(c) \/ Unlist(c) PROVE ProbesOfSuccessors'
  <2>1. phase[c] \in Numbered
    BY <1>7 DEF AckFails, Unlist, Numbered, Admitted
  <2>2. \A s \in Services : entries'[s] = IF entries[s] = c THEN None ELSE entries[s]
    BY <1>7, <2>1, RemoveOwn DEF AckFails, Unlist
  <2>3. \A d \in Conns : phase[d] \in Probed => phase'[d] \in Probed
    BY <1>0, <1>7 DEF localVars, TypeOK, AckFails, Unlist, Probed
  <2>4. UNCHANGED <<svc, probe, probeBy, localHandlers>>
    BY <1>7 DEF localVars, AckFails, Unlist
  <2> QED
    BY <1>0, <1>1, <2>2, <2>3, <2>4 DEF localVars, TypeOK, Probed, Admitted
<1>8. ASSUME NEW c \in Conns, probe_capabilities(c) PROVE ProbesOfSuccessors'
  BY <1>0, <1>8 DEF localVars, TypeOK, ProbesOfSuccessors, probe_capabilities, Probed
<1>9. ASSUME NEW c \in Conns, DetachCheck(c) \/ DropCapabilities(c) \/ AbortWriter(c)
      PROVE ProbesOfSuccessors'
  BY <1>0, <1>1, <1>9 DEF localVars, TypeOK, DetachCheck, DropCapabilities, AbortWriter, Probed
<1>10. ASSUME NEW c \in Conns, ProbeLocal(c) \/ ProbeLookup(c) PROVE ProbesOfSuccessors'
  <2>1. svc[c] \in Services
    BY <1>0, <1>10
    DEF localVars, TypeOK, ProbesOfSuccessors, ProbeLocal, ProbeLookup, Probed, Admitted
  <2> QED
    BY <1>0, <1>10, <2>1
    DEF localVars, TypeOK, ProbesOfSuccessors, ProbeLocal, ProbeLookup, Answerers
<1>11. ASSUME NEW c \in Conns, ProbeReturns(c) PROVE ProbesOfSuccessors'
  BY <1>0, <1>11 DEF localVars, TypeOK, ProbesOfSuccessors, ProbeReturns
<1>12. ASSUME NEW c \in Conns, ProbeCheck(c) PROVE ProbesOfSuccessors'
  <2>1. phase[c] \in Numbered
    BY <1>0, <1>12 DEF ProbesOfSuccessors, ProbeCheck, Probed, Numbered, Admitted
  <2>2. still_current(c) <=> entries[svc[c]] = c
    BY <2>1, EntryIsOwn DEF still_current
  <2> QED
    BY <1>0, <1>12, <2>2 DEF localVars, TypeOK, ProbesOfSuccessors, ProbeCheck
<1>13. ASSUME NEW c \in Conns, ProbeStore(c) PROVE ProbesOfSuccessors'
  BY <1>0, <1>13 DEF localVars, TypeOK, ProbesOfSuccessors, ProbeStore
<1>14. CASE UNCHANGED sessionVars
  BY <1>1, <1>14 DEF sessionVars, localVars
<1> QED
  BY <1>2, <1>3, <1>4, <1>5, <1>6, <1>7, <1>8, <1>9, <1>10, <1>11, <1>12, <1>13, <1>14
     DEF Next, Peer, Serve, Probe

\* Every step keeps the cache free of another session's answer.
LEMMA CapsStep == IndInv /\ [Next]_sessionVars => CapsNotFromAnother' /\ CachedByProbed'
<1> SUFFICES ASSUME IndInv, [Next]_sessionVars PROVE CapsNotFromAnother' /\ CachedByProbed'
  OBVIOUS
<1>0. TypeOK /\ ProbesOfSuccessors /\ CapsNotFromAnother /\ CachedByProbed
  BY DEF IndInv
<1> USE SessionsAssumption
<1>1. ASSUME \A s \in Services : caps'[s] = caps[s] \/ caps'[s] = None,
             \A c \in Conns : phase[c] \in Probed => phase'[c] \in Probed /\ svc'[c] = svc[c],
             localHandlers \subseteq localHandlers'
      PROVE CapsNotFromAnother' /\ CachedByProbed'
  <2>1. \A s \in Services : caps[s] # None => caps[s][1] \in Conns
    BY <1>0 DEF TypeOK
  <2> QED
    BY <1>0, <1>1, <2>1 DEF CapsNotFromAnother, CachedByProbed
<1>2. ASSUME NEW s \in Services, Host(s) PROVE CapsNotFromAnother' /\ CachedByProbed'
  BY <1>1, <1>2 DEF Host, issue_token, RegisterMethods, RegisterHandler, localVars
<1>3. ASSUME NEW c \in Conns, Peer(c) PROVE CapsNotFromAnother' /\ CachedByProbed'
  BY <1>0, <1>1, <1>3 DEF localVars, TypeOK, Peer, accept_loop, RejectHello, Hello, WriterFails,
     ReaderEnds, Probed
<1>4. ASSUME NEW c \in Conns, Serve(c) PROVE CapsNotFromAnother' /\ CachedByProbed'
  BY <1>0, <1>1, <1>4
  DEF localVars, TypeOK, Serve, TakeGeneration, InsertEntry, AckFails, AckWritten,
     attach_session, probe_capabilities, DetachCheck, DropCapabilities, Unlist, AbortWriter,
     Probed
<1>5. ASSUME NEW c \in Conns,
             ProbeLocal(c) \/ ProbeLookup(c) \/ ProbeReturns(c) \/ ProbeCheck(c)
      PROVE CapsNotFromAnother' /\ CachedByProbed'
  BY <1>1, <1>5 DEF localVars, ProbeLocal, ProbeLookup, ProbeReturns, ProbeCheck
<1>6. ASSUME NEW c \in Conns, ProbeStore(c) PROVE CapsNotFromAnother' /\ CachedByProbed'
  <2> DEFINE by == probeBy[c]
  <2>1. /\ by \in {c, InProcess} /\ (by = InProcess => svc[c] \in localHandlers)
        /\ phase[c] \in Probed
    BY <1>0, <1>6 DEF ProbesOfSuccessors, ProbeStore
  <2>2. svc[c] \in Services
    BY <1>0, <2>1 DEF TypeOK, Probed, Admitted
  <2>3. /\ caps' = [caps EXCEPT ![svc[c]] = <<c, by>>]
        /\ UNCHANGED <<phase, svc, localHandlers>>
    BY <1>6 DEF ProbeStore, localVars
  <2>4. \A s \in Services : caps[s] # None => caps[s][1] \in Conns
    BY <1>0 DEF TypeOK
  <2> HIDE DEF by
  <2> QED
    BY <1>0, <2>1, <2>2, <2>3, <2>4 DEF TypeOK, CapsNotFromAnother, CachedByProbed
<1>7. CASE UNCHANGED sessionVars
  BY <1>1, <1>7 DEF sessionVars, localVars
<1> QED
  BY <1>2, <1>3, <1>4, <1>5, <1>6, <1>7 DEF Next, Probe

-----------------------------------------------------------------------------
(* The theorems.                                                           *)

\* The initial state satisfies the inductive invariant.
LEMMA IndInvInit == Init => IndInv
BY SessionsAssumption DEF Init, IndInv, TypeOK, OutstandingTokens, SingleUseTokens,
   UniqueGenerations, NoDanglingEntry, ProbesOfSuccessors, CachedByProbed, CapsNotFromAnother,
   Phases, ProbeStates, Admitted, Numbered

\* Every step preserves the inductive invariant.
LEMMA IndInvStep == IndInv /\ [Next]_sessionVars => IndInv'
BY TypeStep, TokenStep, GenerationStep, TableStep, ProbeInvStep, CapsStep DEF IndInv

\* The inductive invariant holds in every reachable state of the session layer.
THEOREM SessionsInvariant == Spec => []IndInv
<1> QED
  BY IndInvInit, IndInvStep, PTL DEF Spec

\* The session layer's state keeps its types.
THEOREM SessionsTypeCorrect == Spec => []TypeOK
<1>1. IndInv => TypeOK
  BY DEF IndInv
<1> QED
  BY <1>1, SessionsInvariant, PTL

\* A spawn token admits one connection at most, to the service it was issued for.
THEOREM TokensAreSingleUse == Spec => []SingleUseTokens
<1>1. IndInv => SingleUseTokens
  BY DEF IndInv
<1> QED
  BY <1>1, SessionsInvariant, PTL

\* A registry entry or session handle always has a task that will remove it.
THEOREM TablesHaveOwners == Spec => []NoDanglingEntry
<1>1. IndInv => NoDanglingEntry
  BY DEF IndInv
<1> QED
  BY <1>1, SessionsInvariant, PTL

\* Cached capabilities are the probed session's own answer, or that of an in-process
\* handler of the same name: never another connection's.
THEOREM CapabilitiesNotAnothers == Spec => []CapsNotFromAnother
<1>1. IndInv => CapsNotFromAnother
  BY DEF IndInv
<1> QED
  BY <1>1, SessionsInvariant, PTL

\* A service loses its entry only in a clean-up step of the connection holding it.
LEMMA EvictionStep ==
    ASSUME IndInv, [Next]_sessionVars, NEW s \in Services,
           entries[s] # None, entries'[s] = None
    PROVE  /\ phase[entries[s]] \in {"registered", "leaving"}
           /\ phase'[entries[s]] \in {"closed", "unlisted"}
<1>0. TypeOK
  BY DEF IndInv
<1>1. ASSUME NEW c \in Conns, AckFails(c) \/ Unlist(c)
      PROVE /\ phase[entries[s]] \in {"registered", "leaving"}
            /\ phase'[entries[s]] \in {"closed", "unlisted"}
  <2>1. phase[c] \in Numbered
    BY <1>1 DEF AckFails, Unlist, Numbered, Admitted
  <2>2. entries[s] = c
    BY <1>1, <2>1, RemoveOwn DEF AckFails, Unlist
  <2> QED
    BY <1>0, <1>1, <2>2 DEF TypeOK, AckFails, Unlist
<1>2. ASSUME NEW c \in Conns, InsertEntry(c) PROVE FALSE
  BY <1>0, <1>2, SessionsAssumption DEF TypeOK, InsertEntry
<1>3. ASSUME NEW c \in Conns, Peer(c) \/ Probe(c) PROVE FALSE
  BY <1>3 DEF Peer, accept_loop, RejectHello, Hello, WriterFails, ReaderEnds, Probe,
     ProbeLocal, ProbeLookup, ProbeReturns, ProbeCheck, ProbeStore
<1>4. ASSUME NEW c \in Conns, Serve(c), ~AckFails(c), ~Unlist(c), ~InsertEntry(c) PROVE FALSE
  BY <1>4 DEF Serve, TakeGeneration, AckWritten, attach_session, probe_capabilities,
     DetachCheck, DropCapabilities, AbortWriter
<1>5. ASSUME NEW r \in Services, Host(r) PROVE FALSE
  BY <1>5 DEF Host, issue_token, RegisterMethods, RegisterHandler
<1>6. CASE UNCHANGED sessionVars
  BY <1>6 DEF sessionVars, localVars
<1> QED
  BY <1>1, <1>2, <1>3, <1>4, <1>5, <1>6 DEF Next

\* No stale reader evicts a successor: remove_if only ever takes out the entry of
\* the connection that calls it.
THEOREM StaleReadersEvictNobody == Spec => NoForeignEviction
<1>1. IndInv /\ [Next]_sessionVars =>
        [\A s \in Services :
            entries[s] # None /\ entries'[s] = None =>
              /\ phase[entries[s]] \in {"registered", "leaving"}
              /\ phase'[entries[s]] \in {"closed", "unlisted"}]_sessionVars
  BY EvictionStep
<1> QED
  BY <1>1, SessionsInvariant, PTL DEF Spec, NoForeignEviction

-----------------------------------------------------------------------------
(* The end of a session.                                                   *)

\* A writer task runs only between the acknowledgement and serve's last step.
WritersServe ==
    \A c \in writerUp : phase[c] \in {"acked", "attached", "serving"} \union Leaving

\* A step of serve takes it there only where it starts the task or has none.
LEMMA WriterStep == IndInv /\ WritersServe /\ [Next]_sessionVars => WritersServe'
<1> SUFFICES ASSUME IndInv, WritersServe, [Next]_sessionVars PROVE WritersServe'
  OBVIOUS
<1>0. TypeOK
  BY DEF IndInv
<1> USE DEF WritersServe, Leaving
<1>1. ASSUME NEW s \in Services, Host(s) PROVE WritersServe'
  BY <1>1 DEF Host, issue_token, RegisterMethods, RegisterHandler
<1>2. ASSUME NEW c \in Conns, Peer(c) PROVE WritersServe'
  BY <1>0, <1>2 DEF TypeOK, Peer, accept_loop, RejectHello, Hello, WriterFails, ReaderEnds
<1>3. ASSUME NEW c \in Conns, Serve(c) PROVE WritersServe'
  <2>1. CASE TakeGeneration(c) \/ InsertEntry(c) \/ AckFails(c)
    BY <1>0, <2>1 DEF TypeOK, TakeGeneration, InsertEntry, AckFails
  <2>2. CASE AckWritten(c)
    BY <1>0, <2>2 DEF TypeOK, AckWritten
  <2>3. CASE attach_session(c) \/ probe_capabilities(c)
    BY <1>0, <2>3 DEF TypeOK, attach_session, probe_capabilities
  <2>4. CASE DetachCheck(c) \/ DropCapabilities(c) \/ Unlist(c)
    BY <1>0, <2>4 DEF TypeOK, DetachCheck, DropCapabilities, Unlist
  <2>5. CASE AbortWriter(c)
    BY <1>0, <2>5 DEF TypeOK, AbortWriter
  <2> QED
    BY <1>3, <2>1, <2>2, <2>3, <2>4, <2>5 DEF Serve
<1>4. ASSUME NEW c \in Conns, Probe(c) PROVE WritersServe'
  BY <1>4 DEF Probe, ProbeLocal, ProbeLookup, ProbeReturns, ProbeCheck, ProbeStore
<1>5. CASE UNCHANGED sessionVars
  BY <1>5 DEF sessionVars, localVars
<1> QED
  BY <1>1, <1>2, <1>3, <1>4, <1>5 DEF Next

\* serve does not start again once it has returned.
LEMMA ClosedStays ==
    ASSUME TypeOK, [Next]_sessionVars, NEW c \in Conns, phase[c] = "closed"
    PROVE  phase'[c] = "closed"
<1>1. ASSUME NEW s \in Services, Host(s) PROVE phase'[c] = "closed"
  BY <1>1 DEF Host, issue_token, RegisterMethods, RegisterHandler
<1>2. ASSUME NEW d \in Conns, Peer(d) PROVE phase'[c] = "closed"
  BY <1>2 DEF TypeOK, Peer, accept_loop, RejectHello, Hello, WriterFails, ReaderEnds
<1>3. ASSUME NEW d \in Conns, Serve(d) PROVE phase'[c] = "closed"
  BY <1>3
  DEF TypeOK, Serve, TakeGeneration, InsertEntry, AckFails, AckWritten, attach_session,
      probe_capabilities, DetachCheck, DropCapabilities, Unlist, AbortWriter
<1>4. ASSUME NEW d \in Conns, Probe(d) PROVE phase'[c] = "closed"
  BY <1>4 DEF Probe, ProbeLocal, ProbeLookup, ProbeReturns, ProbeCheck, ProbeStore
<1>5. CASE UNCHANGED sessionVars
  BY <1>5 DEF sessionVars, localVars
<1> QED
  BY <1>1, <1>2, <1>3, <1>4, <1>5 DEF Next

\* The safety half of SessionsEnd: when serve has returned, the connection is in no
\* table and has no writer, and neither its probe, still under way, nor a session
\* of the same service ever brings it back.
THEOREM ClosedForGood ==
    ASSUME NEW c \in Conns
    PROVE  Spec => [](phase[c] = "closed" => []Gone(c))
<1>1. Init => WritersServe
  BY DEF Init, WritersServe
<1>2. IndInv /\ WritersServe => (phase[c] = "closed" => Gone(c))
  <2> SUFFICES ASSUME IndInv, WritersServe, phase[c] = "closed" PROVE Gone(c)
    OBVIOUS
  <2>1. c \notin writerUp
    BY DEF WritersServe, Leaving
  <2>2. \A s \in Services : entries[s] # c
    BY SessionsAssumption DEF IndInv, NoDanglingEntry, Listed
  <2>3. \A h \in sessions : h[3] # c
    BY DEF IndInv, NoDanglingEntry
  <2> QED
    BY <2>1, <2>2, <2>3 DEF Gone
<1>3. IndInv /\ phase[c] = "closed" /\ [Next]_sessionVars => phase'[c] = "closed"
  BY ClosedStays DEF IndInv
<1> DEFINE Closed == phase[c] = "closed"
<1>4. IndInv /\ Closed /\ [Next]_sessionVars => Closed'
  BY <1>3
<1>5. IndInv /\ WritersServe /\ Closed => Gone(c)
  BY <1>2
<1> HIDE DEF Closed
<1>6. Spec => [](Closed => []Gone(c))
  BY <1>1, <1>4, <1>5, WriterStep, SessionsInvariant, PTL DEF Spec
<1> QED
  BY <1>6 DEF Closed

=============================================================================
