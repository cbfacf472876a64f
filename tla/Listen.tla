------------------------------- MODULE Listen -------------------------------
(***************************************************************************)
(* How a listener comes up and how clients reach it: Broker::listen with    *)
(* check_and_cleanup_unix_socket and accept_loop (broker.rs), BusListener   *)
(* and BusStream (transport.rs), and the axum adapter's accept.             *)
(*                                                                          *)
(* All processes here use one path or pipe name.  `kind` says which code    *)
(* they run: a broker on a Unix socket ("unix"), an app's own socket        *)
(* ("app", bind_for_app) or a broker on a named pipe ("pipe").  Processes   *)
(* start at any time, also together, and crash at any time; every access to *)
(* the file system and every socket call is a step of its own.  A crash     *)
(* leaves the socket file behind, a pipe goes with its process.  A client's *)
(* clock is one flag: whether its deadline has passed.  The permissions of  *)
(* the path and the connection a probe leaves in the backlog are left out.  *)
(***************************************************************************)
EXTENDS Naturals, FiniteSets

CONSTANTS
    Servers,   \* processes that start listening
    Clients,   \* connections that are attempted
    Old,       \* a process that crashed before all this
    Backlog,   \* connections the kernel holds for a Unix listener
    None

ASSUME ListenAssumption ==
    /\ Old \notin Servers /\ None \notin Servers \union {Old}
    /\ Backlog \in Nat \ {0}

VARIABLES
    kind,     \* the code the servers run
    file,     \* whose socket the path or name leads to, None if it is free
    pc,       \* where each server is in listen, bind_for_app or its accept loop
    client,   \* where each client is in BusStream::connect
    late,     \* clients whose deadline has passed
    peer,     \* the server each client is connected to
    began,    \* history: the live server at the path when each start began
    lone      \* history: the starts during which nobody else started or crashed

serverVars == <<kind, file, pc, began, lone>>
clientVars == <<client, late, peer>>
listenVars == <<serverVars, clientVars>>

Live == {b \in Servers : pc[b] \in {"listening", "paused"}}

\* Starting processes.
Starting == {b \in Servers : pc[b] \in {"exists", "probe", "remove", "bind", "bound"}}

\* Clients a server has yet to accept.
Waiting(b) == {x \in Clients : client[x] = "connected" /\ peer[x] = b}

Init ==
    /\ kind \in {"unix", "app", "pipe"}
    /\ file \in IF kind = "pipe" THEN {None} ELSE {None, Old}
    /\ pc = [b \in Servers |-> "idle"]
    /\ client = [x \in Clients |-> "idle"]
    /\ late = {}
    /\ peer = [x \in Clients |-> None]
    /\ began = [b \in Servers |-> None]
    /\ lone = {}

-----------------------------------------------------------------------------
(* A server comes up.                                                      *)

\* The first step of each kind of server.
FirstStep == IF kind = "unix" THEN "exists" ELSE IF kind = "app" THEN "remove" ELSE "bind"

Start(b) ==
    /\ pc[b] = "idle"
    /\ pc' = [pc EXCEPT ![b] = FirstStep]
    /\ began' = [began EXCEPT ![b] = IF file \in Live THEN file ELSE None]
    /\ lone' = IF Starting = {} THEN lone \union {b} ELSE lone \ Starting
    /\ UNCHANGED <<kind, file, clientVars>>

Goes(b, step) ==
    /\ pc' = [pc EXCEPT ![b] = step]
    /\ UNCHANGED <<kind, file, began, lone, clientVars>>

\* listen: p.exists().
Exists(b) ==
    /\ pc[b] = "exists"
    /\ Goes(b, IF file = None THEN "bind" ELSE "probe")

\* Seeded fault: a file nobody listens on is left alone.
AfterRefusal_Keeps == "bind"

\* ConnectionRefused: the file is stale.
AfterRefusal == "remove"

\* check_and_cleanup_unix_socket connects: a listener is there, the file is
\* gone, or nobody listens on it (a bound socket refuses until it listens).
\* With its backlog full the probe fails with another error.
Probe(b) ==
    /\ pc[b] = "probe"
    /\ Goes(b, IF file \in Live THEN "failed" ELSE IF file = None THEN "bind" ELSE AfterRefusal)

\* remove_file: of a broker after its probe, of app_socket in any case.
Remove(b) ==
    /\ pc[b] = "remove"
    /\ file' = None
    /\ pc' = [pc EXCEPT ![b] = "bind"]
    /\ UNCHANGED <<kind, began, lone, clientVars>>

\* Seeded fault: a start that fails cleans the path up behind itself.
FileAfterFailure_Removed == None

\* A failed bind leaves the path as it is.
FileAfterFailure == file

\* BusListener::bind: the address or the first pipe instance is taken, or it
\* is created; a socket listens only with a second system call.
Bind(b) ==
    /\ pc[b] = "bind"
    /\ \/ /\ file = None
          /\ file' = b
          /\ pc' = [pc EXCEPT ![b] = IF kind = "pipe" THEN "listening" ELSE "bound"]
       \/ /\ file # None
          /\ file' = FileAfterFailure
          /\ pc' = [pc EXCEPT ![b] = "failed"]
    /\ UNCHANGED <<kind, began, lone, clientVars>>

ListenCall(b) == pc[b] = "bound" /\ Goes(b, "listening")

\* A process dies; so do the connections it had not accepted.
Crash(b) ==
    /\ b \in Starting \union Live
    /\ pc' = [pc EXCEPT ![b] = "dead"]
    /\ file' = IF kind = "pipe" /\ file = b THEN None ELSE file
    /\ lone' = lone \ Starting
    /\ client' = [x \in Clients |-> IF x \in Waiting(b) THEN "failed" ELSE client[x]]
    /\ UNCHANGED <<kind, began, late, peer>>

-----------------------------------------------------------------------------
(* The accept loop.                                                        *)

\* accept yields a connection: of a socket from its backlog, of a pipe the
\* instance that is connected, which a fresh instance replaces.
Accept(b) ==
    /\ pc[b] = "listening"
    /\ \E x \in Waiting(b) : client' = [client EXCEPT ![x] = "served"]
    /\ UNCHANGED <<serverVars, late, peer>>

\* Seeded fault: an error ends the loop.
AfterError_Ends == "stopped"

\* accept_loop and the axum adapter sleep and try again.
AfterError == "paused"

\* accept fails, for want of descriptors or of a fresh pipe instance; the client
\* stays where it is.
AcceptFails(b) == pc[b] = "listening" /\ Goes(b, AfterError)

Resume(b) == pc[b] = "paused" /\ Goes(b, "listening")

-----------------------------------------------------------------------------
(* BusStream::connect.                                                     *)

\* A system call connects the client to a listener with room for it ...
Reaches(x) ==
    /\ file \in Live
    /\ Cardinality(Waiting(file)) < IF kind = "pipe" THEN 1 ELSE Backlog

\* ... or fails with an error that is worth another try: a refusal or a missing
\* file on Unix, a busy pipe on Windows.
Transient == IF kind = "pipe" THEN file # None ELSE file \notin Live

\* Seeded fault: the deadline is not looked at.
Retries_Always(x) == Transient

\* The error is retried until the deadline.
Retries(x) == Transient /\ x \notin late

Connect(x) ==
    /\ client[x] \in {"idle", "trying"}
    /\ \/ /\ Reaches(x)
          /\ client' = [client EXCEPT ![x] = "connected"]
          /\ peer' = [peer EXCEPT ![x] = file]
       \/ /\ ~Reaches(x)
          /\ client' = [client EXCEPT ![x] = IF Retries(x) THEN "sleeping" ELSE "failed"]
          /\ UNCHANGED peer
    /\ UNCHANGED <<serverVars, late>>

Wake(x) ==
    /\ client[x] = "sleeping"
    /\ client' = [client EXCEPT ![x] = "trying"]
    /\ UNCHANGED <<serverVars, late, peer>>

Deadline(x) ==
    /\ client[x] \in {"trying", "sleeping"} /\ x \notin late
    /\ late' = late \union {x}
    /\ UNCHANGED <<serverVars, client, peer>>

-----------------------------------------------------------------------------

Serve(b) == Accept(b) \/ Resume(b)

Try(x) == client[x] = "trying" /\ Connect(x)

Next ==
    \/ \E b \in Servers :
          \/ Start(b) \/ Exists(b) \/ Probe(b) \/ Remove(b) \/ Bind(b) \/ ListenCall(b)
          \/ Crash(b) \/ Accept(b) \/ AcceptFails(b) \/ Resume(b)
    \/ \E x \in Clients : Connect(x) \/ Wake(x) \/ Deadline(x)

\* Time passes, the tasks are scheduled, and accept does not fail forever.
Fairness ==
    /\ \A b \in Servers : SF_listenVars(Accept(b)) /\ WF_listenVars(Resume(b))
    /\ \A x \in Clients : WF_listenVars(Try(x)) /\ WF_listenVars(Wake(x))
                          /\ WF_listenVars(Deadline(x))

Spec == Init /\ [][Next]_listenVars /\ Fairness

-----------------------------------------------------------------------------

\* Types, and that a client is connected to a server that has listened.
ListenTypeOK ==
    /\ kind \in {"unix", "app", "pipe"}
    /\ file \in Servers \union {Old, None}
    /\ pc \in [Servers -> {"idle", "exists", "probe", "remove", "bind", "bound", "listening",
                           "paused", "failed", "dead"}]
    /\ client \in [Clients -> {"idle", "trying", "sleeping", "connected", "served", "failed"}]
    /\ late \subseteq Clients /\ lone \subseteq Servers
    /\ began \in [Servers -> Servers \union {None}]
    /\ peer \in [Clients -> Servers \union {None}]
    /\ \A x \in Clients : client[x] = "connected" => peer[x] \in Live

\* However starts overlap, and whatever was left at the path: when all of them
\* have ended and nobody crashed, the path leads to a live listener.
PathServed ==
    LET ended == {b \in Servers : pc[b] # "idle"} IN
    (ended # {} /\ \A b \in ended : b \in Live \/ pc[b] = "failed") => file \in Live

\* A start that nothing overlaps takes the path over from a crashed process and
\* never from a live one; an app's start always takes it over.
LoneStartsDecide ==
    \A b \in lone :
        /\ pc[b] = "failed" => kind # "app" /\ began[b] # None
        /\ b \in Live => kind = "app" \/ began[b] = None

\* connect returns: it retries no longer than its deadline.
ConnectReturns ==
    \A x \in Clients : client[x] = "sleeping" ~> client[x] \in {"connected", "served", "failed"}

\* A connection the kernel has taken is accepted although accept may fail, unless
\* the server dies, also by a listener whose path was taken over meanwhile.
BacklogIsServed ==
    \A x \in Clients : client[x] = "connected" ~> client[x] \in {"served", "failed"}

=============================================================================
