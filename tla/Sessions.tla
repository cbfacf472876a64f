------------------------------ MODULE Sessions ------------------------------
(***************************************************************************)
(* The broker's session layer (crates/broker/src/session.rs, registry.rs   *)
(* and the token, session-table and capability parts of broker.rs).        *)
(*                                                                         *)
(* Every accepted connection runs `serve` in a task of its own, on a       *)
(* multi-threaded runtime.  The tasks share four concurrent maps: the      *)
(* spawn tokens, the registry of services, the table of session handles    *)
(* and the capability cache.  One map operation is atomic; a task may be   *)
(* suspended between any two of them, so each of serve's operations on     *)
(* shared state is one action here, in the order the code performs them.   *)
(*                                                                         *)
(* What the frames carry is abstracted to the service name and the spawn   *)
(* token of the Hello.  A registry entry is named by the connection that   *)
(* made it: its generation, its outbound channel and its method catalogue  *)
(* never change once inserted.  The client_id of the HelloAck is read by   *)
(* nobody in the broker and is left out.  The broker's host may register   *)
(* services of its own in process (at most once each), also under the name *)
(* of an app; of their handlers only the answer to the probe matters here. *)
(***************************************************************************)
EXTENDS Naturals, FiniteSets

CONSTANTS
    Services,    \* service names an app may announce
    Conns,       \* connections the listener accepts
    LocalServices, \* services the broker's host implements in process
    MaxTokens,   \* bound: how many spawn tokens are issued
    InProcess,   \* an in-process handler, where it stands for a connection
    None         \* absence of a connection or of cached capabilities

\* Who may answer a capability probe.
Answerers == Conns \union {InProcess}

ASSUME SessionsAssumption ==
    /\ MaxTokens \in Nat
    /\ LocalServices \subseteq Services
    /\ None \notin Conns
    /\ InProcess \notin Conns \union {None}
    /\ None \notin Services
    /\ None \notin Conns \X Answerers

VARIABLES
    tokens,      \* Broker.tokens: service -> outstanding token, 0 if none
    issued,      \* tokens handed out so far; random_token never repeats one
    owner,       \* history: the service each token was issued for
    phase,       \* where serve stands for each connection
    svc,         \* Hello.service of each connection
    tok,         \* Hello.auth_token of each connection, 0 if never issued
    gen,         \* generation that Registry::insert returned, 0 before
    nextGen,     \* Registry.next_gen
    entries,     \* Registry.entries: service -> connection of the entry
    sessions,    \* Broker.sessions: <<service, generation, connection>>
    writerUp,    \* connections whose writer task is running
    caps,        \* Broker.capabilities: <<probed for, answered by>>
    probe,       \* the capability-probe task of each connection
    probeBy,     \* whom the probe's call was routed to
    localMethods,  \* services with a catalogue in local_service_methods
    localHandlers  \* services with a handler in local_services

localVars == <<localMethods, localHandlers>>
sessionVars == <<tokens, issued, owner, phase, svc, tok, gen, nextGen, entries,
                 sessions, writerUp, caps, probe, probeBy, localVars>>

-----------------------------------------------------------------------------
(* The points of serve between two operations on shared state.             *)

\* serve past a successful consume_token
Admitted == {"admitted", "numbered", "registered", "acked", "attached", "serving",
             "detached", "dropping", "leaving", "unlisted", "closed"}

\* ... past the allocation of its generation
Numbered == Admitted \ {"admitted"}

\* ... past entries.insert and before its own remove_if
Listed == {"registered", "acked", "attached", "serving", "detached", "dropping",
           "leaving"}

\* ... past the reader loop: the clean-up at the end of serve
Leaving == {"detached", "dropping", "leaving", "unlisted"}

Phases == Admitted \union {"new", "accepted", "rejected"}

ProbeStates == {"none", "started", "remote", "calling", "answered", "checked", "done"}

\* The receiving half of the connection's outbound channel exists: first as a
\* local of serve, then inside the writer task.  `tx.send` fails once it is gone.
ChannelOpen(c) == phase[c] \in {"numbered", "registered"} \/ c \in writerUp

\* The registry entry of c's service carries c's generation.
EntryIs(c) ==
    LET e == entries[svc[c]] IN e # None /\ gen[e] = gen[c]

Init ==
    /\ tokens = [s \in Services |-> 0]
    /\ issued = 0
    /\ owner = [t \in 1..MaxTokens |-> None]
    /\ phase = [c \in Conns |-> "new"]
    /\ svc = [c \in Conns |-> None]
    /\ tok = [c \in Conns |-> 0]
    /\ gen = [c \in Conns |-> 0]
    /\ nextGen = 0
    /\ entries = [s \in Services |-> None]
    /\ sessions = {}
    /\ writerUp = {}
    /\ caps = [s \in Services |-> None]
    /\ probe = [c \in Conns |-> "none"]
    /\ probeBy = [c \in Conns |-> None]
    /\ localMethods = {}
    /\ localHandlers = {}

-----------------------------------------------------------------------------
(* In-process services.                                                    *)

\* Seeded fault: the handler becomes visible first, the catalogue after it.
RegisterMethods_HandlerFirst(s) ==
    /\ \/ /\ s \notin localHandlers
          /\ localHandlers' = localHandlers \union {s}
          /\ UNCHANGED localMethods
       \/ /\ s \in localHandlers \ localMethods
          /\ localMethods' = localMethods \union {s}
          /\ UNCHANGED localHandlers
    /\ UNCHANGED <<tokens, issued, owner, phase, svc, tok, gen, nextGen, entries, sessions,
                   writerUp, caps, probe, probeBy>>

\* register_local_service: first the catalogue ...
RegisterMethods(s) ==
    /\ s \notin localMethods
    /\ localMethods' = localMethods \union {s}
    /\ UNCHANGED <<tokens, issued, owner, phase, svc, tok, gen, nextGen, entries, sessions,
                   writerUp, caps, probe, probeBy, localHandlers>>

\* ... then the handler, which is what makes callers take the local path.
RegisterHandler(s) ==
    /\ s \in localMethods \ localHandlers
    /\ localHandlers' = localHandlers \union {s}
    /\ UNCHANGED <<tokens, issued, owner, phase, svc, tok, gen, nextGen, entries, sessions,
                   writerUp, caps, probe, probeBy, localMethods>>

-----------------------------------------------------------------------------
(* Spawn tokens and the handshake.                                         *)

\* Broker::issue_token, called for a process about to be spawned.  It replaces
\* a token of the same service that is still outstanding.
issue_token(s) ==
    /\ issued < MaxTokens
    /\ issued' = issued + 1
    /\ tokens' = [tokens EXCEPT ![s] = issued + 1]
    /\ owner' = [owner EXCEPT ![issued + 1] = s]
    /\ UNCHANGED <<phase, svc, tok, gen, nextGen, entries, sessions, writerUp, caps,
                   probe, probeBy, localVars>>

\* Broker::accept_loop spawns serve for a new connection.
accept_loop(c) ==
    /\ phase[c] = "new"
    /\ phase' = [phase EXCEPT ![c] = "accepted"]
    /\ UNCHANGED <<tokens, issued, owner, svc, tok, gen, nextGen, entries, sessions,
                   writerUp, caps, probe, probeBy, localVars>>

\* serve returns before it looks at the token: end of stream, an unreadable
\* frame, a frame other than Hello, or another major protocol version.
RejectHello(c) ==
    /\ phase[c] = "accepted"
    /\ phase' = [phase EXCEPT ![c] = "rejected"]
    /\ UNCHANGED <<tokens, issued, owner, svc, tok, gen, nextGen, entries, sessions,
                   writerUp, caps, probe, probeBy, localVars>>

\* Seeded fault: the token is read, not removed.
TokensAfterConsume_Kept(s, t) == tokens

\* Broker::consume_token: remove the service's token, whatever it is, ...
TokensAfterConsume(s, t) == [tokens EXCEPT ![s] = 0]

\* ... and compare it with the token presented.
consume_token(s, t) == tokens[s] # 0 /\ tokens[s] = t

\* serve checks the token of a well-formed Hello of service s.  The peer may
\* present any token it has seen, or (0) one that was never issued.
Hello(c, s, t) ==
    /\ phase[c] = "accepted"
    /\ t <= issued
    /\ svc' = [svc EXCEPT ![c] = s]
    /\ tok' = [tok EXCEPT ![c] = t]
    /\ tokens' = TokensAfterConsume(s, t)
    /\ phase' = [phase EXCEPT ![c] = IF consume_token(s, t) THEN "admitted" ELSE "rejected"]
    /\ UNCHANGED <<issued, owner, gen, nextGen, entries, sessions, writerUp, caps,
                   probe, probeBy, localVars>>

\* Seeded fault: the entry keeps the generation 0 that serve gave it.
TakeGeneration_Unset(c) ==
    /\ phase[c] = "admitted"
    /\ nextGen' = nextGen + 1
    /\ phase' = [phase EXCEPT ![c] = "numbered"]
    /\ UNCHANGED <<tokens, issued, owner, svc, tok, gen, entries, sessions, writerUp,
                   caps, probe, probeBy, localVars>>

\* Registry::insert, first half: allocate the generation under the lock.
TakeGeneration(c) ==
    /\ phase[c] = "admitted"
    /\ nextGen' = nextGen + 1
    /\ gen' = [gen EXCEPT ![c] = nextGen + 1]
    /\ phase' = [phase EXCEPT ![c] = "numbered"]
    /\ UNCHANGED <<tokens, issued, owner, svc, tok, entries, sessions, writerUp, caps,
                   probe, probeBy, localVars>>

\* Registry::insert, second half: the lock is released, the entry replaces
\* whatever the map holds for the service.
InsertEntry(c) ==
    /\ phase[c] = "numbered"
    /\ entries' = [entries EXCEPT ![svc[c]] = c]
    /\ phase' = [phase EXCEPT ![c] = "registered"]
    /\ UNCHANGED <<tokens, issued, owner, svc, tok, gen, nextGen, sessions, writerUp,
                   caps, probe, probeBy, localVars>>

\* Seeded fault: the entry is dropped whatever its generation.
remove_if_Unconditional(c) == [entries EXCEPT ![svc[c]] = None]

\* Registry::remove_if: drop the service's entry if it is of c's generation.
remove_if(c) == [entries EXCEPT ![svc[c]] = IF EntryIs(c) THEN None ELSE @]

\* Seeded fault: a failed acknowledgement leaves the entry in the registry.
AckFails_StaysListed(c) ==
    /\ phase[c] = "registered"
    /\ phase' = [phase EXCEPT ![c] = "closed"]
    /\ UNCHANGED <<tokens, issued, owner, svc, tok, gen, nextGen, entries, sessions,
                   writerUp, caps, probe, probeBy, localVars>>

\* The HelloAck cannot be written: unregister and return.
AckFails(c) ==
    /\ phase[c] = "registered"
    /\ entries' = remove_if(c)
    /\ phase' = [phase EXCEPT ![c] = "closed"]
    /\ UNCHANGED <<tokens, issued, owner, svc, tok, gen, nextGen, sessions, writerUp,
                   caps, probe, probeBy, localVars>>

\* The HelloAck is written; the writer task takes over the channel.
AckWritten(c) ==
    /\ phase[c] = "registered"
    /\ writerUp' = writerUp \union {c}
    /\ phase' = [phase EXCEPT ![c] = "acked"]
    /\ UNCHANGED <<tokens, issued, owner, svc, tok, gen, nextGen, entries, sessions,
                   caps, probe, probeBy, localVars>>

\* Broker::attach_session; the map is keyed by (service, generation).
attach_session(c) ==
    /\ phase[c] = "acked"
    /\ sessions' = {h \in sessions : <<h[1], h[2]>> # <<svc[c], gen[c]>>}
                        \union {<<svc[c], gen[c], c>>}
    /\ phase' = [phase EXCEPT ![c] = "attached"]
    /\ UNCHANGED <<tokens, issued, owner, svc, tok, gen, nextGen, entries, writerUp,
                   caps, probe, probeBy, localVars>>

-----------------------------------------------------------------------------
(* The capability probe.                                                   *)

\* Broker::probe_capabilities: forget the cached capabilities, spawn the probe;
\* serve enters its reader loop.
probe_capabilities(c) ==
    /\ phase[c] = "attached"
    /\ caps' = [caps EXCEPT ![svc[c]] = None]
    /\ probe' = [probe EXCEPT ![c] = "started"]
    /\ phase' = [phase EXCEPT ![c] = "serving"]
    /\ UNCHANGED <<tokens, issued, owner, svc, tok, gen, nextGen, entries, sessions,
                   writerUp, probeBy, localVars>>

\* The probe's call_with_timeout goes by name: a local handler comes first, ...
ProbeLocal(c) ==
    LET local == svc[c] \in localHandlers IN
    /\ probe[c] = "started"
    /\ probe' = [probe EXCEPT ![c] = IF local THEN "calling" ELSE "remote"]
    /\ probeBy' = [probeBy EXCEPT ![c] = IF local THEN InProcess ELSE @]
    /\ UNCHANGED <<tokens, issued, owner, phase, svc, tok, gen, nextGen, entries,
                   sessions, writerUp, caps, localVars>>

\* ... else whoever holds the entry now gets the call.  Without an entry the call
\* fails and the probe gives up.
ProbeLookup(c) ==
    LET e == entries[svc[c]] IN
    /\ probe[c] = "remote"
    /\ probeBy' = [probeBy EXCEPT ![c] = e]
    /\ probe' = [probe EXCEPT ![c] = IF e = None THEN "done" ELSE "calling"]
    /\ UNCHANGED <<tokens, issued, owner, phase, svc, tok, gen, nextGen, entries,
                   sessions, writerUp, caps, localVars>>

\* The call returns: an answer that parses, or an error (any of call's errors,
\* the timeout, or invalid JSON), after which the probe gives up.
ProbeReturns(c) ==
    /\ probe[c] = "calling"
    /\ \E p \in {"answered", "done"} : probe' = [probe EXCEPT ![c] = p]
    /\ UNCHANGED <<tokens, issued, owner, phase, svc, tok, gen, nextGen, entries,
                   sessions, writerUp, caps, probeBy, localVars>>

\* Seeded fault: the answer is cached if the service has an entry at all.
still_current_AnyEntry(c) == entries[svc[c]] # None

\* still_current: is the entry of the service of the probed generation?
still_current(c) == EntryIs(c)

ProbeCheck(c) ==
    /\ probe[c] = "answered"
    /\ probe' = [probe EXCEPT ![c] = IF still_current(c) THEN "checked" ELSE "done"]
    /\ UNCHANGED <<tokens, issued, owner, phase, svc, tok, gen, nextGen, entries,
                   sessions, writerUp, caps, probeBy, localVars>>

\* capabilities.insert, a separate map operation after the check.
ProbeStore(c) ==
    /\ probe[c] = "checked"
    /\ caps' = [caps EXCEPT ![svc[c]] = <<c, probeBy[c]>>]
    /\ probe' = [probe EXCEPT ![c] = "done"]
    /\ UNCHANGED <<tokens, issued, owner, phase, svc, tok, gen, nextGen, entries,
                   sessions, writerUp, probeBy, localVars>>

-----------------------------------------------------------------------------
(* The end of a session.                                                   *)

\* The writer task stops on a write error while the reader goes on.
WriterFails(c) ==
    /\ c \in writerUp
    /\ writerUp' = writerUp \ {c}
    /\ UNCHANGED <<tokens, issued, owner, phase, svc, tok, gen, nextGen, entries,
                   sessions, caps, probe, probeBy, localVars>>

\* The reader loop ends (end of stream or read error) and detach_session
\* removes the session handle.
ReaderEnds(c) ==
    /\ phase[c] = "serving"
    /\ sessions' = {h \in sessions : <<h[1], h[2]>> # <<svc[c], gen[c]>>}
    /\ phase' = [phase EXCEPT ![c] = "detached"]
    /\ UNCHANGED <<tokens, issued, owner, svc, tok, gen, nextGen, entries, writerUp,
                   caps, probe, probeBy, localVars>>

\* Seeded fault: serve returns once a successor owns the entry.
DetachCheck_Returns(c) ==
    /\ phase[c] = "detached"
    /\ phase' = [phase EXCEPT ![c] =
                    IF entries[svc[c]] = None \/ EntryIs(c) THEN "dropping" ELSE "closed"]
    /\ UNCHANGED <<tokens, issued, owner, svc, tok, gen, nextGen, entries, sessions,
                   writerUp, caps, probe, probeBy, localVars>>

\* detach_session decides whether the cached capabilities are its own: yes if
\* the entry is of its generation or there is no entry (unwrap_or(true)).
DetachCheck(c) ==
    /\ phase[c] = "detached"
    /\ phase' = [phase EXCEPT ![c] =
                    IF entries[svc[c]] = None \/ EntryIs(c) THEN "dropping" ELSE "leaving"]
    /\ UNCHANGED <<tokens, issued, owner, svc, tok, gen, nextGen, entries, sessions,
                   writerUp, caps, probe, probeBy, localVars>>

DropCapabilities(c) ==
    /\ phase[c] = "dropping"
    /\ caps' = [caps EXCEPT ![svc[c]] = None]
    /\ phase' = [phase EXCEPT ![c] = "leaving"]
    /\ UNCHANGED <<tokens, issued, owner, svc, tok, gen, nextGen, entries, sessions,
                   writerUp, probe, probeBy, localVars>>

Unlist(c) ==
    /\ phase[c] = "leaving"
    /\ entries' = remove_if(c)
    /\ phase' = [phase EXCEPT ![c] = "unlisted"]
    /\ UNCHANGED <<tokens, issued, owner, svc, tok, gen, nextGen, sessions, writerUp,
                   caps, probe, probeBy, localVars>>

AbortWriter(c) ==
    /\ phase[c] = "unlisted"
    /\ writerUp' = writerUp \ {c}
    /\ phase' = [phase EXCEPT ![c] = "closed"]
    /\ UNCHANGED <<tokens, issued, owner, svc, tok, gen, nextGen, entries, sessions,
                   caps, probe, probeBy, localVars>>

-----------------------------------------------------------------------------
(* The specification.                                                      *)

\* What serve does by itself once a connection is admitted.
Serve(c) ==
    \/ TakeGeneration(c) \/ InsertEntry(c)
    \/ AckFails(c) \/ AckWritten(c)
    \/ attach_session(c) \/ probe_capabilities(c)
    \/ DetachCheck(c) \/ DropCapabilities(c) \/ Unlist(c) \/ AbortWriter(c)

\* The task that probe_capabilities spawns.
Probe(c) ==
    \/ ProbeLocal(c) \/ ProbeLookup(c) \/ ProbeReturns(c)
    \/ ProbeCheck(c) \/ ProbeStore(c)

\* What the peer, the listener and the socket bring about.
Peer(c) ==
    \/ accept_loop(c) \/ RejectHello(c)
    \/ \E s \in Services, t \in 0..MaxTokens : Hello(c, s, t)
    \/ WriterFails(c) \/ ReaderEnds(c)

\* What the broker's host and the supervisor do.
Host(s) ==
    \/ issue_token(s)
    \/ s \in LocalServices /\ (RegisterMethods(s) \/ RegisterHandler(s))

Next ==
    \/ \E s \in Services : Host(s)
    \/ \E c \in Conns : Peer(c) \/ Serve(c) \/ Probe(c)

\* The runtime runs every task that is ready; the probe's call ends at the
\* latest with its timeout.  Nothing is assumed of the peers or the supervisor.
Fairness == \A c \in Conns : WF_sessionVars(Serve(c)) /\ WF_sessionVars(Probe(c))

Spec == Init /\ [][Next]_sessionVars

FairSpec == Spec /\ Fairness

-----------------------------------------------------------------------------
(* Properties.                                                             *)

\* Types, and that every connection past Registry::insert carries a generation
\* the registry's counter has reached.
TypeOK ==
    /\ tokens \in [Services -> 0..MaxTokens]
    /\ issued \in 0..MaxTokens
    /\ owner \in [1..MaxTokens -> Services \union {None}]
    /\ phase \in [Conns -> Phases]
    /\ svc \in [Conns -> Services \union {None}]
    /\ tok \in [Conns -> 0..MaxTokens]
    /\ gen \in [Conns -> Nat]
    /\ nextGen \in Nat
    /\ entries \in [Services -> Conns \union {None}]
    /\ sessions \subseteq Services \X Nat \X Conns
    /\ writerUp \subseteq Conns
    /\ caps \in [Services -> (Conns \X Answerers) \union {None}]
    /\ probe \in [Conns -> ProbeStates]
    /\ probeBy \in [Conns -> Answerers \union {None}]
    /\ localMethods \subseteq LocalServices
    /\ localHandlers \subseteq LocalServices
    /\ \A c \in Conns : phase[c] \in Admitted => svc[c] \in Services
    /\ \A c \in Conns : phase[c] \in Numbered => gen[c] \in 1..nextGen

\* A spawn token admits at most one connection, and only to the service it was
\* issued for, however often the peers present it and however Hellos of several
\* connections and re-issued tokens interleave (consume_token).
SingleUseTokens ==
    \A c \in Conns : phase[c] \in Admitted =>
        /\ tok[c] \in 1..issued
        /\ owner[tok[c]] = svc[c]
        /\ \A d \in Conns \ {c} : phase[d] \in Admitted => tok[d] # tok[c]

\* Neither table outlives the task that has to clean it up: a registry entry or
\* a session handle always belongs to a connection whose serve has yet to run
\* its own remove_if or detach_session.
NoDanglingEntry ==
    /\ \A s \in Services : entries[s] # None =>
          svc[entries[s]] = s /\ phase[entries[s]] \in Listed
    /\ \A h \in sessions : h[1] = svc[h[3]] /\ h[2] = gen[h[3]]
          /\ phase[h[3]] \in {"attached", "serving"}

\* No stale reader evicts a successor: a service loses its entry only in a
\* clean-up step of the very connection that holds it (remove_if).
NoForeignEviction ==
    [][\A s \in Services :
          entries[s] # None /\ entries'[s] = None =>
              /\ phase[entries[s]] \in {"registered", "leaving"}
              /\ phase'[entries[s]] \in {"closed", "unlisted"}]_sessionVars

\* Capabilities are cached for a session from that session's own answer, never
\* from another connection's, although the probe's call is routed by name and may
\* reach a predecessor or a successor.  The one other source is a handler that the
\* broker's host registered in process under the app's name.
CapsNotFromAnother ==
    \A s \in Services : caps[s] # None =>
        /\ svc[caps[s][1]] = s
        /\ caps[s][2] \in {caps[s][1], InProcess}
        /\ caps[s][2] = InProcess => s \in localHandlers

\* The connection is gone from every table and its writer has stopped.
Gone(c) ==
    /\ c \notin writerUp
    /\ \A s \in Services : entries[s] # c
    /\ \A h \in sessions : h[3] # c

\* Once its reader loop has ended a session is eventually gone for good, also
\* when a successor took over its entry in the meantime.
SessionsEnd == \A c \in Conns : phase[c] \in Leaving ~> [](Gone(c))

\* What Registry::remove_if is there for, as its comment puts it: a stale task
\* never takes a freshly registered successor out of the registry.  An entry
\* goes only by its own connection's clean-up or for a later generation.
SuccessorKeepsEntry ==
    [][\A s \in Services :
          entries[s] # None /\ entries'[s] # entries[s] =>
              \/ entries'[s] = None
              \/ gen'[entries'[s]] > gen[entries[s]]]_sessionVars

=============================================================================
