---------------------------- MODULE ListenProofs ----------------------------
(***************************************************************************)
(* Proofs about Listen, for any number of servers and clients: types, that  *)
(* overlapping starts leave the path served, and what a lone start decides. *)
(***************************************************************************)
EXTENDS Listen, TLAPS

\* Steps at which a start has yet to bind.
Unbound == {"exists", "probe", "remove", "bind"}

\* The path leads to a server that got as far as binding it; a pipe to a live one.
PathHasOwner ==
    file \in Servers =>
        pc[file] \in {"listening", "paused"} \union IF kind = "pipe" THEN {} ELSE {"bound", "dead"}

\* The steps each kind of server takes.
StepsOfKind ==
    /\ kind = "app" => \A b \in Servers : pc[b] \notin {"exists", "probe"}
    /\ kind = "pipe" => \A b \in Servers : pc[b] \notin {"exists", "probe", "remove", "bound"}

\* Whoever is past the removal of the file has seen the old file gone for good.
OldIsGone ==
    file = Old =>
        /\ kind # "pipe"
        /\ \A b \in Servers : pc[b] \notin {"bind", "bound", "listening", "paused", "failed"}

\* A path that leads nowhere is bound by a start that is still on its way.
SomebodyBinds ==
    (file \notin Servers /\ (\E b \in Servers : pc[b] # "idle")
        /\ \A b \in Servers : pc[b] # "dead") => \E b \in Servers : pc[b] \in Unbound

\* While a lone start is on its way nobody else is, and it sees the path as it
\* was when it began.
LoneStartSees ==
  /\ \A b \in lone : pc[b] # "idle"
  /\ \A b \in lone \intersect Starting :
        /\ \A d \in Starting : d = b
        /\ kind = "unix" /\ pc[b] \in {"exists", "probe"} =>
              began[b] = IF file \in Live THEN file ELSE None
        /\ kind = "unix" /\ pc[b] \in {"remove", "bind", "bound"} => began[b] = None
        /\ kind # "pipe" /\ pc[b] = "bind" => file = None
        /\ kind = "pipe" => (began[b] = None <=> file = None)

\* The inductive invariant.
IndInv ==
    /\ ListenTypeOK
    /\ PathHasOwner
    /\ StepsOfKind
    /\ OldIsGone
    /\ SomebodyBinds
    /\ LoneStartSees
    /\ LoneStartsDecide

-----------------------------------------------------------------------------

\* The steps that change nothing a server decides on: those of the clients.
LEMMA ClientStep ==
    ASSUME NEW x \in Clients, Connect(x) \/ Wake(x) \/ Deadline(x)
    PROVE  UNCHANGED serverVars
BY DEF Connect, Wake, Deadline, serverVars

\* Every step keeps the types.
LEMMA TypeStep == ListenTypeOK /\ [Next]_listenVars => ListenTypeOK'
<1> SUFFICES ASSUME ListenTypeOK, [Next]_listenVars PROVE ListenTypeOK'
  OBVIOUS
<1> USE ListenAssumption DEF ListenTypeOK, Live
<1>1. ASSUME NEW b \in Servers, Start(b) PROVE ListenTypeOK'
  BY <1>1 DEF Start, FirstStep, clientVars, Starting
<1>2. ASSUME NEW b \in Servers, Exists(b) \/ Probe(b) \/ ListenCall(b) PROVE ListenTypeOK'
  BY <1>2 DEF Exists, Probe, ListenCall, Goes, clientVars, AfterRefusal
<1>3. ASSUME NEW b \in Servers, Remove(b) \/ Bind(b) PROVE ListenTypeOK'
  BY <1>3 DEF Remove, Bind, clientVars, FileAfterFailure
<1>4. ASSUME NEW b \in Servers, Crash(b) PROVE ListenTypeOK'
  BY <1>4 DEF Crash, Starting, Waiting
<1>5. ASSUME NEW b \in Servers, Accept(b) PROVE ListenTypeOK'
  BY <1>5 DEF Accept, serverVars, Waiting
<1>6. ASSUME NEW b \in Servers, AcceptFails(b) \/ Resume(b) PROVE ListenTypeOK'
  BY <1>6 DEF AcceptFails, Resume, Goes, clientVars, AfterError
<1>7. ASSUME NEW x \in Clients, Connect(x) PROVE ListenTypeOK'
  BY <1>7 DEF Connect, serverVars, Reaches
<1>8. ASSUME NEW x \in Clients, Wake(x) \/ Deadline(x) PROVE ListenTypeOK'
  BY <1>8 DEF Wake, Deadline, serverVars
<1>9. CASE UNCHANGED listenVars
  BY <1>9 DEF listenVars, serverVars, clientVars
<1> QED
  BY <1>1, <1>2, <1>3, <1>4, <1>5, <1>6, <1>7, <1>8, <1>9 DEF Next

-----------------------------------------------------------------------------
(* The server's side: one step per action, over the facts it disturbs.     *)

\* Who owns the path, and which steps a kind of server takes.
LEMMA PathStep ==
    IndInv /\ [Next]_listenVars => PathHasOwner' /\ StepsOfKind' /\ OldIsGone'
<1> SUFFICES ASSUME IndInv, [Next]_listenVars PROVE PathHasOwner' /\ StepsOfKind' /\ OldIsGone'
  OBVIOUS
<1> USE ListenAssumption DEF IndInv, ListenTypeOK, PathHasOwner, StepsOfKind, OldIsGone
<1>1. ASSUME NEW b \in Servers, Start(b) PROVE PathHasOwner' /\ StepsOfKind' /\ OldIsGone'
  BY <1>1 DEF Start, FirstStep
<1>2. ASSUME NEW b \in Servers, Exists(b) PROVE PathHasOwner' /\ StepsOfKind' /\ OldIsGone'
  BY <1>2 DEF Exists, Goes
<1>3. ASSUME NEW b \in Servers, Probe(b) PROVE PathHasOwner' /\ StepsOfKind' /\ OldIsGone'
  BY <1>3 DEF Probe, Goes, AfterRefusal, Live
<1>4. ASSUME NEW b \in Servers, Remove(b) PROVE PathHasOwner' /\ StepsOfKind' /\ OldIsGone'
  BY <1>4 DEF Remove
<1>5. ASSUME NEW b \in Servers, Bind(b) PROVE PathHasOwner' /\ StepsOfKind' /\ OldIsGone'
  BY <1>5 DEF Bind, FileAfterFailure
<1>6. ASSUME NEW b \in Servers, ListenCall(b) \/ AcceptFails(b) \/ Resume(b)
      PROVE  PathHasOwner' /\ StepsOfKind' /\ OldIsGone'
  BY <1>6 DEF ListenCall, AcceptFails, Resume, Goes, AfterError
<1>7. ASSUME NEW b \in Servers, Crash(b) PROVE PathHasOwner' /\ StepsOfKind' /\ OldIsGone'
  BY <1>7 DEF Crash, Starting, Live
<1>8. CASE UNCHANGED serverVars
  BY <1>8 DEF serverVars
<1> QED
  BY <1>1, <1>2, <1>3, <1>4, <1>5, <1>6, <1>7, <1>8, ClientStep DEF Next, listenVars, Accept

\* A path that leads nowhere is about to be bound.
LEMMA BinderStep == IndInv /\ [Next]_listenVars => SomebodyBinds'
<1> SUFFICES ASSUME IndInv, [Next]_listenVars PROVE SomebodyBinds'
  OBVIOUS
<1> USE ListenAssumption DEF IndInv, ListenTypeOK, SomebodyBinds, Unbound
<1>1. ASSUME NEW b \in Servers, Start(b) PROVE SomebodyBinds'
  BY <1>1 DEF Start, FirstStep
<1>2. ASSUME NEW b \in Servers, Exists(b) PROVE SomebodyBinds'
  BY <1>2 DEF Exists, Goes
<1>3. ASSUME NEW b \in Servers, Probe(b) PROVE SomebodyBinds'
  BY <1>3 DEF Probe, Goes, AfterRefusal, Live
<1>4. ASSUME NEW b \in Servers, Remove(b) PROVE SomebodyBinds'
  BY <1>4 DEF Remove
<1>5. ASSUME NEW b \in Servers, Bind(b) PROVE SomebodyBinds'
  BY <1>5 DEF Bind, FileAfterFailure, OldIsGone
<1>6. ASSUME NEW b \in Servers, ListenCall(b) \/ AcceptFails(b) \/ Resume(b)
      PROVE  SomebodyBinds'
  BY <1>6 DEF ListenCall, AcceptFails, Resume, Goes, AfterError
<1>7. ASSUME NEW b \in Servers, Crash(b) PROVE SomebodyBinds'
  BY <1>7 DEF Crash
<1>8. CASE UNCHANGED serverVars
  BY <1>8 DEF serverVars
<1> QED
  BY <1>1, <1>2, <1>3, <1>4, <1>5, <1>6, <1>7, <1>8, ClientStep DEF Next, listenVars, Accept

\* What a lone start sees, and what it decides.
LEMMA LoneStep == IndInv /\ [Next]_listenVars => LoneStartSees' /\ LoneStartsDecide'
<1> SUFFICES ASSUME IndInv, [Next]_listenVars PROVE LoneStartSees' /\ LoneStartsDecide'
  OBVIOUS
<1> USE ListenAssumption
    DEF IndInv, ListenTypeOK, LoneStartSees, LoneStartsDecide, Starting, Live
<1>1. ASSUME NEW b \in Servers, Start(b) PROVE LoneStartSees' /\ LoneStartsDecide'
  <2>1. LoneStartsDecide'
    BY <1>1 DEF Start, FirstStep
  <2>2. CASE Starting = {}
    <3>1. Starting' = {b}
      BY <1>1, <2>2 DEF Start, FirstStep
    <3>2. Live' = Live /\ file' = file /\ kind' = kind
      BY <1>1 DEF Start, FirstStep
    <3>3. began'[b] = (IF file \in Live THEN file ELSE None)
      BY <1>1 DEF Start
    <3>4. pc'[b] = FirstStep
      BY <1>1 DEF Start
    <3>5. kind = "pipe" => (file \in Live <=> file # None)
      BY DEF PathHasOwner, OldIsGone
    <3> QED
      BY <1>1, <2>1, <3>1, <3>2, <3>3, <3>4, <3>5 DEF Start, FirstStep
  <2>3. CASE Starting # {}
    <3>1. lone' \intersect Starting' = {}
      BY <1>1, <2>3 DEF Start, FirstStep
    <3> QED
      BY <1>1, <2>1, <3>1 DEF Start, FirstStep
  <2> QED
    BY <2>1, <2>2, <2>3
<1>2. ASSUME NEW b \in Servers, Exists(b) PROVE LoneStartSees' /\ LoneStartsDecide'
  BY <1>2 DEF Exists, Goes, StepsOfKind
<1>3. ASSUME NEW b \in Servers, Probe(b) PROVE LoneStartSees' /\ LoneStartsDecide'
  BY <1>3 DEF Probe, Goes, AfterRefusal, StepsOfKind
<1>4. ASSUME NEW b \in Servers, Remove(b) PROVE LoneStartSees' /\ LoneStartsDecide'
  BY <1>4 DEF Remove, StepsOfKind
<1>5. ASSUME NEW b \in Servers, Bind(b) PROVE LoneStartSees' /\ LoneStartsDecide'
  BY <1>5 DEF Bind, FileAfterFailure, StepsOfKind
<1>6. ASSUME NEW b \in Servers, ListenCall(b) \/ AcceptFails(b) \/ Resume(b)
      PROVE  LoneStartSees' /\ LoneStartsDecide'
  BY <1>6 DEF ListenCall, AcceptFails, Resume, Goes, AfterError, StepsOfKind
<1>7. ASSUME NEW b \in Servers, Crash(b) PROVE LoneStartSees' /\ LoneStartsDecide'
  BY <1>7 DEF Crash
<1>8. CASE UNCHANGED serverVars
  BY <1>8 DEF serverVars
<1> QED
  BY <1>1, <1>2, <1>3, <1>4, <1>5, <1>6, <1>7, <1>8, ClientStep DEF Next, listenVars, Accept

-----------------------------------------------------------------------------
(* The theorems.                                                           *)

\* The inductive invariant holds of every behaviour, with or without fairness.
THEOREM ListenInvariant == Spec => []IndInv
<1>1. Init => IndInv
  BY ListenAssumption
  DEF Init, IndInv, ListenTypeOK, PathHasOwner, StepsOfKind, OldIsGone, SomebodyBinds,
      LoneStartSees, LoneStartsDecide, Starting, Live, Unbound
<1>2. IndInv /\ [Next]_listenVars => IndInv'
  BY TypeStep, PathStep, BinderStep, LoneStep DEF IndInv
<1> QED
  BY <1>1, <1>2, PTL DEF Spec

\* Types; a client that is connected has a live server at the other end.
THEOREM ListenTypeCorrect == Spec => []ListenTypeOK
<1>1. IndInv => ListenTypeOK
  BY DEF IndInv
<1> QED
  BY <1>1, ListenInvariant, PTL

\* Any number of overlapping starts leaves the path served (Broker::listen and
\* bind_for_app; nobody crashes).
THEOREM StartsLeavePathServed == Spec => []PathServed
<1>1. IndInv => PathServed
  BY DEF IndInv, ListenTypeOK, PathServed, PathHasOwner, SomebodyBinds, Unbound, Live
<1> QED
  BY <1>1, ListenInvariant, PTL

\* A lone start takes the path over from dead processes only.
THEOREM LoneStartsAreSound == Spec => []LoneStartsDecide
<1>1. IndInv => LoneStartsDecide
  BY DEF IndInv
<1> QED
  BY <1>1, ListenInvariant, PTL

=============================================================================
