-------------------------- MODULE BusClientProofs ---------------------------
(***************************************************************************)
(* Proofs about the client SDK: its calls are given their own answers and  *)
(* can be given them as long as they wait, for any number of calls and     *)
(* jobs.                                                                   *)
(***************************************************************************)
EXTENDS BusClient, TLAPS

-----------------------------------------------------------------------------
(* The inductive invariant.                                                *)

\* A call has drawn a request id once it has begun, and no other call has it.
OwnIds ==
    /\ \A k \in CallIds : cpc[k] = "idle" <=> creq[k] = 0
    /\ \A k, l \in CallIds : creq[k] = creq[l] /\ creq[k] # 0 => k = l

\* What carries a call's payload carries its id: the pending table, the frames
\* on the way to the broker, the calls it routes and its responses.
Matches(r, k) == creq[k] = r /\ r # 0

FramesMatch ==
    /\ \A p \in pending : Matches(p[1], p[2])
    /\ \A f \in outbox : f[1] = "invoke" => Matches(f[2], f[3])
    /\ \A r \in routing : Matches(r[1], r[2])
    /\ \A i \in DOMAIN inbox : inbox[i][1] = "response" => Matches(inbox[i][2], inbox[i][3])

\* A job has one Invoke under way at a time, and no more once its handler has made
\* its call.
JobsOnce ==
    /\ \A i \in DOMAIN inbox : inbox[i][1] = "invoke" => job[inbox[i][3]] = "sent"
    /\ \A i, j \in DOMAIN inbox :
          inbox[i][1] = "invoke" /\ inbox[j][1] = "invoke" /\ inbox[i][3] = inbox[j][3] => i = j
    /\ \A j \in Jobs :
          job[j] \in {"none", "sent", "running"} /\ Nested[j] # NoCall => cpc[Nested[j]] = "idle"

\* WaitersArePending, from the moment the call is filed.
FiledOrAnswered ==
    \A k \in CallIds :
        cpc[k] \in {"pended", "waiting"} => slot[k] # NoCall \/ <<creq[k], k>> \in pending

IndInv ==
    ClientTypeOK /\ OwnIds /\ FramesMatch /\ JobsOnce /\ OwnReply /\ FiledOrAnswered

-----------------------------------------------------------------------------
(* Facts about frames and queues.                                          *)

\* What a frame carries, by its kind.
LEMMA FrameParts ==
    /\ \A f \in FromBroker : /\ f[1] \in {"invoke", "response", "shutdown"}
                             /\ f[1] = "invoke" => f[3] \in Jobs
                             /\ f[1] = "response" => f[2] \in Nat /\ f[3] \in CallIds
    /\ \A f \in ToBroker : /\ f[1] \in {"invoke", "response"}
                           /\ f[1] = "invoke" => f[2] \in Nat /\ f[3] \in CallIds
BY DEF FromBroker, ToBroker

\* Taking the first frame of a queue.
LEMMA TailOfQueue ==
    ASSUME NEW S, NEW q \in Seq(S), q # <<>>
    PROVE  /\ Head(q) = q[1] /\ 1 \in DOMAIN q /\ q[1] \in S
           /\ Tail(q) \in Seq(S)
           /\ \A i \in DOMAIN Tail(q) : i + 1 \in DOMAIN q /\ Tail(q)[i] = q[i + 1] /\ i # 0
OBVIOUS

\* Adding a frame at the end.
LEMMA AppendToQueue ==
    ASSUME NEW S, NEW q \in Seq(S), NEW e \in S
    PROVE  /\ Append(q, e) \in Seq(S)
           /\ \A i \in DOMAIN Append(q, e) :
                 \/ i \in DOMAIN q /\ Append(q, e)[i] = q[i]
                 \/ i = Len(q) + 1 /\ Append(q, e)[i] = e
OBVIOUS

-----------------------------------------------------------------------------
(* Steps.                                                                  *)

LEMMA InitInv == Init => IndInv
<1> SUFFICES ASSUME Init PROVE IndInv
  OBVIOUS
<1>1. idle \in BOOLEAN /\ retry \in BOOLEAN /\ alive \in BOOLEAN /\ writerUp \in BOOLEAN
      /\ fired \in BOOLEAN
  BY Zenon DEF Init
<1>2. /\ inbox \in Seq(FromBroker) /\ outbox \subseteq ToBroker /\ nextReq \in Nat \ {0}
      /\ pending \subseteq (1..(nextReq - 1)) \X CallIds
      /\ creq \in [CallIds -> 0..(nextReq - 1)]
      /\ quiet \in 0..Threshold
  BY ClientAssumption DEF Init
<1>3. ClientTypeOK
  BY <1>1, <1>2 DEF Init, ClientTypeOK
<1>4. OwnIds /\ FramesMatch /\ OwnReply /\ FiledOrAnswered
  BY DEF Init, OwnIds, FramesMatch, OwnReply, FiledOrAnswered
<1>5. JobsOnce
  BY ClientAssumption DEF Init, JobsOnce
<1> QED
  BY <1>3, <1>4, <1>5 DEF IndInv

\* What the invariant's parts other than types are about.
coreVars == <<outbox, nextReq, pending, cpc, creq, slot, routing, job>>

\* Steps of the connection, the clock and the main task disturb types only.
LEMMA QuietStep ==
    ASSUME IndInv, UNCHANGED coreVars, UNCHANGED result, inbox' = inbox \/ inbox' = <<>>,
           idle' \in BOOLEAN, retry' \in BOOLEAN, alive' \in BOOLEAN, writerUp' \in BOOLEAN,
           conn' \in {"connecting", "backoff", "hello", "up", "lost", "failed", "exited"},
           fired' \in BOOLEAN, main' \in {"busy", "waiting", "returned"},
           quiet' \in 0..Threshold
    PROVE  IndInv'
<1>1. ClientTypeOK'
  <2>1. <<>> \in Seq(FromBroker)
    OBVIOUS
  <2>2. inbox' \in Seq(FromBroker)
    BY <2>1, Zenon DEF IndInv, ClientTypeOK
  <2> QED
    BY <2>2, Zenon DEF IndInv, ClientTypeOK, coreVars
<1>2. FramesMatch' /\ JobsOnce'
  BY DEF IndInv, FramesMatch, Matches, JobsOnce, coreVars
<1>3. OwnIds' /\ OwnReply' /\ FiledOrAnswered'
  BY DEF IndInv, OwnIds, OwnReply, FiledOrAnswered, coreVars
<1> QED
  BY <1>1, <1>2, <1>3 DEF IndInv

\* A call that has not begun draws an id and is filed under it.
LEMMA StartInvokeStep ==
    ASSUME IndInv, NEW k \in CallIds, cpc[k] = "idle", StartInvoke(k),
           job' \in [Jobs -> {"none", "sent", "running", "calling", "answered"}],
           \A j \in Jobs : /\ job[j] = "sent" => job'[j] = "sent"
                           /\ job'[j] \in {"none", "sent", "running"} =>
                                 Nested[j] # k /\ job[j] = job'[j],
           UNCHANGED <<connVars, alive, inbox, outbox, writerUp, routing, mainVars>>
    PROVE  IndInv'
<1> USE DEF IndInv
<1>1. ClientTypeOK'
  BY DEF ClientTypeOK, StartInvoke, connVars, mainVars
<1>2. /\ nextReq \in Nat \ {0} /\ creq[k] = 0 /\ creq'[k] = nextReq
      /\ \A l \in CallIds : creq[l] \in 0..(nextReq - 1) /\ (l # k => creq'[l] = creq[l])
      /\ \A l \in CallIds : cpc'[l] = IF l = k THEN "pended" ELSE cpc[l]
      /\ pending' = pending \union {<<nextReq, k>>}
  <2>1. nextReq \in Nat \ {0} /\ \A p \in pending : p[1] # nextReq
    BY DEF ClientTypeOK
  <2> QED
    BY <2>1 DEF ClientTypeOK, StartInvoke, OwnIds
<1>3. OwnIds'
  BY <1>2 DEF OwnIds
<1>4. \A l \in CallIds : creq[l] # 0 => creq'[l] = creq[l]
  BY <1>2
<1>5. FramesMatch'
  <2>1. \A p \in pending' : creq'[p[2]] = p[1] /\ p[1] # 0
    BY <1>2, <1>4 DEF FramesMatch, Matches, ClientTypeOK
  <2>2. \A f \in outbox : f[1] = "invoke" => creq'[f[3]] = f[2] /\ f[2] # 0
    BY <1>4, FrameParts DEF FramesMatch, Matches, ClientTypeOK
  <2>3. \A r \in routing : creq'[r[2]] = r[1] /\ r[1] # 0
    BY <1>4 DEF FramesMatch, Matches, ClientTypeOK
  <2>4. \A i \in DOMAIN inbox :
           inbox[i][1] = "response" => creq'[inbox[i][3]] = inbox[i][2] /\ inbox[i][2] # 0
    <3>1. \A i \in DOMAIN inbox : inbox[i] \in FromBroker
      BY DEF ClientTypeOK
    <3> QED
      BY <1>4, <3>1, FrameParts DEF FramesMatch, Matches
  <2> QED
    BY <2>1, <2>2, <2>3, <2>4 DEF FramesMatch, Matches
<1>6. JobsOnce'
  <2>1. \A i \in DOMAIN inbox : inbox[i][1] = "invoke" => inbox[i][3] \in Jobs
    BY FrameParts DEF ClientTypeOK
  <2>2. \A j \in Jobs : Nested[j] # NoCall => Nested[j] \in CallIds
    BY ClientAssumption
  <2> QED
    BY <1>2, <2>1, <2>2 DEF JobsOnce
<1>7. OwnReply' /\ FiledOrAnswered'
  BY <1>2 DEF OwnReply, FiledOrAnswered, StartInvoke
<1> QED
  BY <1>1, <1>3, <1>5, <1>6, <1>7

\* A frame of the broker joins the inbox.
LEMMA FrameArrives ==
    ASSUME IndInv, NEW f \in FromBroker, inbox' = Append(inbox, f),
           f[1] = "response" => Matches(f[2], f[3]),
           f[1] = "invoke" => /\ job[f[3]] # "sent" /\ job' = [job EXCEPT ![f[3]] = "sent"]
                              /\ Nested[f[3]] # NoCall => cpc[Nested[f[3]]] = "idle",
           f[1] # "invoke" => job' = job,
           UNCHANGED <<outbox, nextReq, pending, cpc, creq, slot, result, connVars, alive,
                       writerUp, mainVars>>,
           routing' \subseteq routing
    PROVE  IndInv'
<1> USE DEF IndInv
<1>1. /\ inbox' \in Seq(FromBroker)
      /\ \A i \in DOMAIN inbox : inbox[i] \in FromBroker
      /\ \A i \in DOMAIN inbox' : \/ i \in DOMAIN inbox /\ inbox'[i] = inbox[i]
                                  \/ i = Len(inbox) + 1 /\ inbox'[i] = f
  BY AppendToQueue DEF ClientTypeOK
<1>2. job' \in [Jobs -> {"none", "sent", "running", "calling", "answered"}]
  BY DEF ClientTypeOK
<1>3. ClientTypeOK'
  <2>1. routing' \subseteq Nat \X CallIds
    BY DEF ClientTypeOK
  <2> QED
    BY <1>1, <1>2, <2>1, Zenon DEF ClientTypeOK, connVars, mainVars
<1>4. FramesMatch'
  BY <1>1 DEF FramesMatch, Matches
<1>5. JobsOnce'
  <2>1. \A i \in DOMAIN inbox : inbox[i][1] = "invoke" => inbox[i][3] \in Jobs
    BY <1>1, FrameParts
  <2>2. f[1] = "invoke" => f[3] \in Jobs
    BY FrameParts
  <2>3. \A j \in Jobs : job[j] = "sent" => job'[j] = "sent"
    BY DEF ClientTypeOK
  <2>4. f[1] = "invoke" => job'[f[3]] = "sent"
    BY <2>2 DEF ClientTypeOK
  <2>5. \A i \in DOMAIN inbox' : inbox'[i][1] = "invoke" => job'[inbox'[i][3]] = "sent"
    BY <1>1, <2>1, <2>3, <2>4 DEF JobsOnce
  <2>6. \A i, j \in DOMAIN inbox' :
           inbox'[i][1] = "invoke" /\ inbox'[j][1] = "invoke" /\ inbox'[i][3] = inbox'[j][3]
             => i = j
    BY <1>1, <2>1 DEF JobsOnce
  <2>7. \A j \in Jobs : job'[j] \in {"none", "sent", "running"} /\ Nested[j] # NoCall =>
                            cpc[Nested[j]] = "idle"
    BY <2>2 DEF ClientTypeOK, JobsOnce
  <2> QED
    BY <2>5, <2>6, <2>7 DEF JobsOnce
<1>6. OwnIds' /\ OwnReply' /\ FiledOrAnswered'
  BY DEF OwnIds, OwnReply, FiledOrAnswered
<1> QED
  BY <1>3, <1>4, <1>5, <1>6

\* The reader takes the first frame of the inbox.
LEMMA FrameLeaves ==
    ASSUME ClientTypeOK, inbox # <<>>, inbox' = Tail(inbox)
    PROVE  /\ inbox' \in Seq(FromBroker)
           /\ Head(inbox) \in FromBroker /\ 1 \in DOMAIN inbox /\ Head(inbox) = inbox[1]
           /\ \A i \in DOMAIN inbox' : /\ i + 1 \in DOMAIN inbox /\ i # 0
                                       /\ inbox'[i] = inbox[i + 1]
                                       /\ inbox'[i] \in FromBroker
<1>1. inbox \in Seq(FromBroker) /\ \A i \in DOMAIN inbox : inbox[i] \in FromBroker
  BY DEF ClientTypeOK
<1> QED
  BY <1>1, TailOfQueue

\* An Invoke is read: the job it names has been sent and is dispatched now.
LEMMA ReadInvokeStep ==
    ASSUME IndInv, ReadInvoke
    PROVE  IndInv'
<1> USE DEF IndInv
<1> DEFINE j0 == Head(inbox)[3]
<1>1. /\ inbox # <<>> /\ inbox' = Tail(inbox) /\ Head(inbox)[1] = "invoke"
      /\ quiet' = 0 /\ job' = [job EXCEPT ![j0] = "running"]
      /\ UNCHANGED <<connVars, alive, outbox, writerUp, callVars, routing, main, fired>>
  BY DEF ReadInvoke, Reads
<1>2. /\ inbox' \in Seq(FromBroker) /\ 1 \in DOMAIN inbox /\ Head(inbox) = inbox[1]
      /\ \A i \in DOMAIN inbox' : /\ i + 1 \in DOMAIN inbox /\ i # 0
                                  /\ inbox'[i] = inbox[i + 1] /\ inbox'[i] \in FromBroker
  BY <1>1, FrameLeaves
<1>3. j0 \in Jobs /\ job[j0] = "sent"
  BY <1>1, <1>2, FrameLeaves, FrameParts DEF JobsOnce
<1>4. /\ job' \in [Jobs -> {"none", "sent", "running", "calling", "answered"}]
      /\ job'[j0] = "running" /\ \A j \in Jobs : j # j0 => job'[j] = job[j]
  BY <1>1, <1>3 DEF ClientTypeOK
<1>5. ClientTypeOK'
  <2>1. quiet' \in 0..Threshold
    BY <1>1, ClientAssumption
  <2> QED
    BY <1>1, <1>2, <1>4, <2>1, Zenon DEF ClientTypeOK, connVars, callVars
<1>6. FramesMatch'
  BY <1>1, <1>2 DEF FramesMatch, Matches, callVars
<1>7. JobsOnce'
  <2>1. \A i \in DOMAIN inbox' : inbox'[i][1] = "invoke" => inbox'[i][3] \in Jobs
    BY <1>2, FrameParts
  <2>2. \A i \in DOMAIN inbox' : inbox'[i][1] = "invoke" => inbox'[i][3] # j0
    <3> SUFFICES ASSUME NEW i \in DOMAIN inbox', inbox'[i][1] = "invoke", inbox'[i][3] = j0
                 PROVE  FALSE
      OBVIOUS
    <3>1. i + 1 \in DOMAIN inbox /\ i # 0 /\ inbox[i + 1] = inbox'[i]
      BY <1>2
    <3>2. i + 1 = 1
      BY <1>1, <1>2, <3>1 DEF JobsOnce
    <3>3. i \in Nat
      BY <1>2
    <3> QED
      BY <3>1, <3>2, <3>3
  <2>3. \A i \in DOMAIN inbox' : inbox'[i][1] = "invoke" => job'[inbox'[i][3]] = "sent"
    BY <1>2, <1>4, <2>1, <2>2 DEF JobsOnce
  <2>4. \A i, j \in DOMAIN inbox' :
           inbox'[i][1] = "invoke" /\ inbox'[j][1] = "invoke" /\ inbox'[i][3] = inbox'[j][3]
             => i = j
    <3> SUFFICES ASSUME NEW i \in DOMAIN inbox', NEW j \in DOMAIN inbox',
                        inbox'[i][1] = "invoke", inbox'[j][1] = "invoke",
                        inbox'[i][3] = inbox'[j][3]
                 PROVE  i = j
      OBVIOUS
    <3>1. i + 1 = j + 1
      BY <1>2 DEF JobsOnce
    <3>2. i \in Nat /\ j \in Nat
      BY <1>2
    <3> QED
      BY <3>1, <3>2
  <2>5. \A j \in Jobs : job'[j] \in {"none", "sent", "running"} =>
                            job[j] \in {"none", "sent", "running"}
    BY <1>3, <1>4
  <2> QED
    BY <1>1, <2>3, <2>4, <2>5 DEF JobsOnce, callVars
<1>8. OwnIds' /\ OwnReply' /\ FiledOrAnswered'
  BY <1>1 DEF OwnIds, OwnReply, FiledOrAnswered, callVars
<1> QED
  BY <1>5, <1>6, <1>7, <1>8

\* A Response is read: the only call that can be filed under its id is the one it
\* answers.
LEMMA ReadResponseStep ==
    ASSUME IndInv, ReadResponse
    PROVE  IndInv'
<1> USE DEF IndInv
<1> DEFINE f == Head(inbox)
           waker == {p \in pending : p[1] = f[2]}
<1>1. /\ inbox # <<>> /\ inbox' = Tail(inbox) /\ f[1] = "response"
      /\ pending' = pending \ waker
      /\ slot' = [k \in CallIds |-> IF \E p \in waker : p[2] = k THEN f[3] ELSE slot[k]]
      /\ UNCHANGED <<connVars, alive, outbox, writerUp, nextReq, cpc, creq, result, routing, job,
                     mainVars>>
  BY DEF ReadResponse, Reads
<1>2. /\ inbox' \in Seq(FromBroker) /\ 1 \in DOMAIN inbox /\ f = inbox[1]
      /\ f \in FromBroker
      /\ \A i \in DOMAIN inbox' : /\ i + 1 \in DOMAIN inbox /\ i # 0
                                  /\ inbox'[i] = inbox[i + 1]
                                  /\ inbox'[i] \in FromBroker
  BY <1>1, FrameLeaves
<1>3. f[3] \in CallIds /\ creq[f[3]] = f[2] /\ f[2] # 0
  BY <1>1, <1>2, FrameParts DEF FramesMatch, Matches
<1>4. \A p \in waker : p[2] = f[3]
  <2>1. \A p \in pending : p[2] \in CallIds /\ creq[p[2]] = p[1]
    BY DEF ClientTypeOK, FramesMatch, Matches
  <2> QED
    BY <1>3, <2>1 DEF OwnIds
<1> HIDE DEF f, waker
<1>5. \A k \in CallIds : slot'[k] \in {slot[k], f[3]} /\ (slot'[k] # slot[k] => k = f[3])
  BY <1>1, <1>4
<1>6. ClientTypeOK'
  <2>1. slot' \in [CallIds -> CallIds \union {NoCall}]
    BY <1>1, <1>3 DEF ClientTypeOK
  <2>2. pending' \subseteq (1..(nextReq - 1)) \X CallIds
    BY <1>1 DEF ClientTypeOK
  <2> QED
    BY <1>1, <1>2, <2>1, <2>2, Zenon DEF ClientTypeOK, connVars, mainVars
<1>7. FramesMatch'
  BY <1>1, <1>2 DEF FramesMatch, Matches
<1>8. JobsOnce'
  <2>1. \A i \in DOMAIN inbox' : inbox'[i][1] = "invoke" => job'[inbox'[i][3]] = "sent"
    BY <1>1, <1>2 DEF JobsOnce
  <2>2. \A i, j \in DOMAIN inbox' :
           inbox'[i][1] = "invoke" /\ inbox'[j][1] = "invoke" /\ inbox'[i][3] = inbox'[j][3]
             => i = j
    <3> SUFFICES ASSUME NEW i \in DOMAIN inbox', NEW j \in DOMAIN inbox',
                        inbox'[i][1] = "invoke", inbox'[j][1] = "invoke",
                        inbox'[i][3] = inbox'[j][3]
                 PROVE  i = j
      OBVIOUS
    <3>1. i + 1 = j + 1
      BY <1>2 DEF JobsOnce
    <3>2. i \in Nat /\ j \in Nat
      BY <1>2
    <3> QED
      BY <3>1, <3>2
  <2> QED
    BY <1>1, <2>1, <2>2 DEF JobsOnce
<1>9. OwnIds' /\ OwnReply'
  BY <1>1, <1>3, <1>5 DEF OwnIds, OwnReply
<1>10. FiledOrAnswered'
  <2> SUFFICES ASSUME NEW k \in CallIds, cpc[k] \in {"pended", "waiting"}
               PROVE  slot'[k] # NoCall \/ <<creq[k], k>> \in pending'
    BY <1>1 DEF FiledOrAnswered
  <2>1. CASE \E p \in waker : p[2] = k
    BY <1>1, <1>3, <2>1, ClientAssumption
  <2>2. CASE ~\E p \in waker : p[2] = k
    <3>1. <<creq[k], k>> \notin waker
      BY <2>2
    <3> QED
      BY <1>1, <2>2, <3>1 DEF FiledOrAnswered
  <2> QED
    BY <2>1, <2>2
<1> QED
  BY <1>6, <1>7, <1>8, <1>9, <1>10

\* A call that has been filed is sent, returns or is given up.
LEMMA CallMoves ==
    ASSUME IndInv, NEW k \in CallIds, SendInvoke(k) \/ ReceiveReply(k) \/ CallerDrops(k)
    PROVE  IndInv'
<1> USE DEF IndInv
<1>1. /\ cpc[k] \in {"pended", "waiting"}
      /\ cpc' \in {[cpc EXCEPT ![k] = "waiting"], [cpc EXCEPT ![k] = "done"]}
      /\ \/ result' = result
         \/ \E a \in {"answer", "ConnectionClosed", "Dropped"} :
               result' = [result EXCEPT ![k] = a]
      /\ outbox' = outbox \/ outbox' = outbox \union {<<"invoke", creq[k], k>>}
      /\ UNCHANGED <<connVars, alive, inbox, writerUp, nextReq, pending, creq, slot, routing, job,
                     mainVars>>
  BY DEF SendInvoke, ReceiveReply, CallerDrops
<1>2. /\ cpc' \in [CallIds -> {"idle", "pended", "waiting", "done"}]
      /\ \A l \in CallIds : cpc'[l] = "idle" <=> cpc[l] = "idle"
      /\ \A l \in CallIds : cpc'[l] \in {"pended", "waiting"} => cpc[l] \in {"pended", "waiting"}
  BY <1>1 DEF ClientTypeOK
<1>3. creq[k] \in Nat /\ creq[k] # 0
  BY <1>1 DEF OwnIds, ClientTypeOK
<1>4. ClientTypeOK'
  <2>1. result' \in [CallIds -> {"none", "answer", "ConnectionClosed", "Dropped"}]
    BY <1>1 DEF ClientTypeOK
  <2>2. outbox' \subseteq ToBroker
    BY <1>1, <1>3 DEF ClientTypeOK, ToBroker
  <2> QED
    BY <1>1, <1>2, <2>1, <2>2, Zenon DEF ClientTypeOK, connVars, mainVars
<1>5. FramesMatch'
  <2>1. \A f \in outbox' : f[1] = "invoke" => Matches(f[2], f[3])
    BY <1>1, <1>3 DEF FramesMatch, Matches
  <2> QED
    BY <1>1, <2>1 DEF FramesMatch, Matches
<1>6. JobsOnce'
  BY <1>1, <1>2, ClientAssumption DEF JobsOnce
<1>7. OwnIds' /\ OwnReply' /\ FiledOrAnswered'
  BY <1>1, <1>2 DEF OwnIds, OwnReply, FiledOrAnswered
<1> QED
  BY <1>4, <1>5, <1>6, <1>7

\* A job's Response is queued.
LEMMA HandlerReturnsStep ==
    ASSUME IndInv, NEW j \in Jobs, HandlerReturns(j)
    PROVE  IndInv'
<1> USE DEF IndInv
<1>1. /\ job[j] \in {"running", "calling"}
      /\ job' = [job EXCEPT ![j] = "answered"]
      /\ outbox' = outbox \/ outbox' = outbox \union {<<"response", 0, j>>}
      /\ UNCHANGED <<connVars, alive, inbox, writerUp, callVars, routing, mainVars>>
  BY DEF HandlerReturns
<1>2. /\ job' \in [Jobs -> {"none", "sent", "running", "calling", "answered"}]
      /\ \A i \in Jobs : (job[i] = "sent" => job'[i] = "sent") /\ job'[i] \in {job[i], "answered"}
  BY <1>1 DEF ClientTypeOK
<1>3. ClientTypeOK'
  <2>1. outbox' \subseteq ToBroker
    BY <1>1 DEF ClientTypeOK, ToBroker
  <2> QED
    BY <1>1, <1>2, <2>1, Zenon DEF ClientTypeOK, connVars, callVars, mainVars
<1>4. FramesMatch'
  BY <1>1 DEF FramesMatch, Matches, callVars
<1>5. JobsOnce'
  <2>1. \A i \in DOMAIN inbox : inbox[i] \in FromBroker
    BY DEF ClientTypeOK
  <2> QED
    BY <1>1, <1>2, <2>1, FrameParts DEF JobsOnce, callVars
<1>6. OwnIds' /\ OwnReply' /\ FiledOrAnswered'
  BY <1>1 DEF OwnIds, OwnReply, FiledOrAnswered, callVars
<1> QED
  BY <1>3, <1>4, <1>5, <1>6

\* The broker takes a frame off the stream.
LEMMA BrokerReadsStep ==
    ASSUME IndInv, NEW f \in outbox, BrokerReads(f)
    PROVE  IndInv'
<1> USE DEF IndInv
<1>1. /\ outbox' = outbox \ {f}
      /\ routing' = IF f[1] = "invoke" THEN routing \union {<<f[2], f[3]>>} ELSE routing
      /\ UNCHANGED <<connVars, alive, inbox, writerUp, callVars, job, mainVars>>
  BY DEF BrokerReads
<1>2. f[1] = "invoke" => f[2] \in Nat /\ f[3] \in CallIds /\ Matches(f[2], f[3])
  BY FrameParts DEF ClientTypeOK, FramesMatch
<1>3. ClientTypeOK'
  <2>1. routing' \subseteq Nat \X CallIds /\ outbox' \subseteq ToBroker
    BY <1>1, <1>2 DEF ClientTypeOK
  <2> QED
    BY <1>1, <2>1, Zenon DEF ClientTypeOK, connVars, callVars, mainVars
<1>4. FramesMatch'
  <2>1. \A r \in routing' : Matches(r[1], r[2])
    BY <1>1, <1>2 DEF FramesMatch
  <2> QED
    BY <1>1, <2>1 DEF FramesMatch, Matches, callVars
<1>5. JobsOnce'
  BY <1>1 DEF JobsOnce, callVars
<1>6. OwnIds' /\ OwnReply' /\ FiledOrAnswered'
  BY <1>1 DEF OwnIds, OwnReply, FiledOrAnswered, callVars
<1> QED
  BY <1>3, <1>4, <1>5, <1>6

\* A Shutdown is read.
LEMMA ReadShutdownStep ==
    ASSUME IndInv, ReadShutdown
    PROVE  IndInv'
<1> USE DEF IndInv
<1>1. /\ inbox # <<>> /\ inbox' = Tail(inbox)
      /\ fired' = TRUE /\ main' \in {main, "returned"}
      /\ UNCHANGED <<connVars, alive, outbox, writerUp, callVars, routing, job, quiet>>
  BY DEF ReadShutdown, Reads, Fire
<1>2. /\ inbox' \in Seq(FromBroker)
      /\ \A i \in DOMAIN inbox' : /\ i + 1 \in DOMAIN inbox /\ i \in Nat
                                  /\ inbox'[i] = inbox[i + 1]
  BY <1>1, FrameLeaves
<1>3. ClientTypeOK'
  <2>1. main' \in {"busy", "waiting", "returned"}
    BY <1>1 DEF ClientTypeOK
  <2> QED
    BY <1>1, <1>2, <2>1, Zenon DEF ClientTypeOK, connVars, callVars
<1>4. FramesMatch'
  BY <1>1, <1>2 DEF FramesMatch, Matches, callVars
<1>5. JobsOnce'
  <2>1. \A i, j \in DOMAIN inbox' :
           inbox'[i][1] = "invoke" /\ inbox'[j][1] = "invoke" /\ inbox'[i][3] = inbox'[j][3]
             => i + 1 = j + 1
    BY <1>2 DEF JobsOnce
  <2>2. \A i, j \in DOMAIN inbox' : i + 1 = j + 1 => i = j
    BY <1>2
  <2> QED
    BY <1>1, <1>2, <2>1, <2>2 DEF JobsOnce, callVars
<1>6. OwnIds' /\ OwnReply' /\ FiledOrAnswered'
  BY <1>1 DEF OwnIds, OwnReply, FiledOrAnswered, callVars
<1> QED
  BY <1>3, <1>4, <1>5, <1>6

\* A handler makes its call, which nobody has made before.
LEMMA HandlerInvokesStep ==
    ASSUME IndInv, NEW j \in Jobs, HandlerInvokes(j)
    PROVE  IndInv'
<1>1. /\ job[j] = "running" /\ Nested[j] # NoCall /\ StartInvoke(Nested[j])
      /\ job' = [job EXCEPT ![j] = "calling"]
      /\ UNCHANGED <<connVars, alive, inbox, outbox, writerUp, routing, mainVars>>
  BY DEF HandlerInvokes
<1>2. Nested[j] \in CallIds /\ cpc[Nested[j]] = "idle"
  BY <1>1, ClientAssumption DEF IndInv, JobsOnce
<1>3. job' \in [Jobs -> {"none", "sent", "running", "calling", "answered"}]
  BY <1>1 DEF IndInv, ClientTypeOK
<1>4. \A i \in Jobs : /\ job[i] = "sent" => job'[i] = "sent"
                      /\ job'[i] \in {"none", "sent", "running"} =>
                            Nested[i] # Nested[j] /\ job[i] = job'[i]
  BY <1>1, ClientAssumption DEF IndInv, ClientTypeOK
<1> QED
  BY <1>1, <1>2, <1>3, <1>4, StartInvokeStep

\* The broker answers a routed call, if the connection is still there.
LEMMA BrokerRepliesStep ==
    ASSUME IndInv, NEW r \in routing, BrokerReplies(r)
    PROVE  IndInv'
<1> DEFINE f == <<"response", r[1], r[2]>>
<1>1. r[1] \in Nat /\ r[2] \in CallIds /\ Matches(r[1], r[2])
  BY DEF IndInv, ClientTypeOK, FramesMatch
<1>2. f \in FromBroker
  BY <1>1 DEF FromBroker
<1>3. /\ routing' \subseteq routing
      /\ UNCHANGED <<connVars, alive, outbox, writerUp, callVars, job, mainVars>>
  BY DEF BrokerReplies
<1>4. CASE inbox' = Append(inbox, f)
  <2>1. f[1] = "response" /\ f[2] = r[1] /\ f[3] = r[2]
    OBVIOUS
  <2> HIDE DEF f
  <2> QED
    BY <1>1, <1>2, <1>3, <1>4, <2>1, FrameArrives DEF callVars
<1>5. CASE inbox' = inbox
  <2>1. ClientTypeOK'
    <3>1. routing' \subseteq Nat \X CallIds
      BY <1>3 DEF IndInv, ClientTypeOK
    <3> QED
      BY <1>3, <1>5, <3>1, Zenon DEF IndInv, ClientTypeOK, connVars, callVars, mainVars
  <2> QED
    BY <1>3, <1>5, <2>1
    DEF IndInv, OwnIds, FramesMatch, Matches, JobsOnce, OwnReply, FiledOrAnswered, callVars
<1> QED
  BY <1>4, <1>5 DEF BrokerReplies

\* Every step preserves the invariant.
LEMMA StepInv == IndInv /\ [Next]_clientVars => IndInv'
<1> SUFFICES ASSUME IndInv, [Next]_clientVars PROVE IndInv'
  OBVIOUS
<1>0. /\ idle \in BOOLEAN /\ retry \in BOOLEAN /\ alive \in BOOLEAN /\ writerUp \in BOOLEAN
      /\ conn \in {"connecting", "backoff", "hello", "up", "lost", "failed", "exited"}
      /\ fired \in BOOLEAN /\ main \in {"busy", "waiting", "returned"} /\ quiet \in 0..Threshold
  BY DEF IndInv, ClientTypeOK
<1>1. CASE UNCHANGED clientVars
  BY <1>0, <1>1, QuietStep, Zenon DEF clientVars, coreVars
<1>2. CASE \/ ConnectFails \/ BackoffEnds \/ DeadlinePasses \/ SendHello \/ HelloRefused
           \/ HelloAcked
  <2>1. /\ conn' \in {"connecting", "backoff", "hello", "up", "lost", "failed", "exited"}
        /\ retry' \in BOOLEAN /\ alive' \in BOOLEAN /\ writerUp' \in BOOLEAN
        /\ UNCHANGED <<idle, inbox, outbox, callVars, routing, job, mainVars>>
    BY <1>0, <1>2, Zenon
    DEF ConnectFails, BackoffEnds, DeadlinePasses, SendHello, HelloRefused, HelloAcked
  <2> QED
    BY <1>0, <2>1, QuietStep, Zenon DEF coreVars, callVars, mainVars
<1>3. CASE ReaderEnds \/ WriterFails \/ StreamEnds \/ AppExits
  <2>1. /\ conn' \in {"connecting", "backoff", "hello", "up", "lost", "failed", "exited"}
        /\ UNCHANGED <<idle, retry, outbox, callVars, routing, job, quiet>>
    BY <1>0, <1>3, Zenon DEF ReaderEnds, WriterFails, StreamEnds, AppExits, connVars, mainVars
  <2>2. inbox' = inbox \/ inbox' = <<>>
    BY <1>3 DEF ReaderEnds, WriterFails, StreamEnds, AppExits
  <2>3. /\ alive' \in BOOLEAN /\ writerUp' \in BOOLEAN /\ fired' \in BOOLEAN
        /\ main' \in {"busy", "waiting", "returned"}
    BY <1>0, <1>3, Zenon DEF ReaderEnds, WriterFails, StreamEnds, AppExits, Fire, mainVars
  <2> QED
    BY <1>0, <2>1, <2>2, <2>3, QuietStep, Zenon DEF coreVars, callVars
<1>4. CASE IdlePoll \/ run_until_shutdown \/ shutdown \/ ClockTick
  <2>1. UNCHANGED <<connVars, alive, inbox, outbox, writerUp, callVars, routing, job>>
    BY <1>4, Zenon DEF IdlePoll, run_until_shutdown, shutdown, ClockTick
  <2>2. main' \in {"busy", "waiting", "returned"} /\ fired' \in BOOLEAN
    BY <1>0, <1>4, Zenon DEF IdlePoll, run_until_shutdown, shutdown, ClockTick, Fire
  <2>3. quiet' \in 0..Threshold
    BY <1>0, <1>4, ClientAssumption DEF IdlePoll, run_until_shutdown, shutdown, ClockTick
  <2> QED
    BY <1>0, <2>1, <2>2, <2>3, QuietStep, Zenon DEF coreVars, callVars, connVars
<1>5. CASE \E k \in CallIds : AppInvokes(k)
  <2> PICK k \in CallIds : AppInvokes(k)
    BY <1>5
  <2>1. /\ cpc[k] = "idle" /\ StartInvoke(k) /\ \A j \in Jobs : Nested[j] # k
        /\ UNCHANGED <<connVars, alive, inbox, outbox, writerUp, routing, job, mainVars>>
    BY DEF AppInvokes
  <2>2. job' \in [Jobs -> {"none", "sent", "running", "calling", "answered"}]
    BY <2>1 DEF IndInv, ClientTypeOK
  <2> QED
    BY <2>1, <2>2, StartInvokeStep
<1>6. CASE \E k \in CallIds : CallStep(k) \/ CallerDrops(k)
  BY <1>6, CallMoves DEF CallStep
<1>7. CASE \E j \in Jobs : Handler(j)
  BY <1>7, HandlerInvokesStep, HandlerReturnsStep DEF Handler
<1>8. CASE \E j \in Jobs : BrokerInvokes(j)
  <2> PICK j \in Jobs : BrokerInvokes(j)
    BY <1>8
  <2> DEFINE f == <<"invoke", 0, j>>
  <2>1. f \in FromBroker /\ f[1] = "invoke" /\ f[3] = j
    BY DEF FromBroker
  <2>2. /\ job[j] # "sent" /\ job' = [job EXCEPT ![j] = "sent"] /\ inbox' = Append(inbox, f)
        /\ Nested[j] # NoCall => cpc[Nested[j]] = "idle"
        /\ UNCHANGED <<connVars, alive, outbox, writerUp, callVars, routing, mainVars>>
    BY DEF BrokerInvokes, IndInv, JobsOnce
  <2> HIDE DEF f
  <2> QED
    BY <2>1, <2>2, FrameArrives DEF callVars
<1>9. CASE BrokerShutdown
  <2> DEFINE f == <<"shutdown", 0, 0>>
  <2>1. f \in FromBroker /\ f[1] = "shutdown"
    BY DEF FromBroker
  <2>2. /\ inbox' = Append(inbox, f)
        /\ UNCHANGED <<connVars, alive, outbox, writerUp, callVars, routing, job, mainVars>>
    BY <1>9 DEF BrokerShutdown
  <2> HIDE DEF f
  <2> QED
    BY <2>1, <2>2, FrameArrives DEF callVars
<1> QED
  BY <1>1, <1>2, <1>3, <1>4, <1>5, <1>6, <1>7, <1>8, <1>9, ReadInvokeStep, ReadResponseStep,
     ReadShutdownStep, BrokerReadsStep, BrokerRepliesStep
  DEF Next, Client, Outside, BrokerStep, Establish, Reader

-----------------------------------------------------------------------------
(* The theorems.                                                           *)

\* The inductive invariant holds of every behaviour of the client.
THEOREM ClientInvariant == Spec => []IndInv
<1>1. Init => IndInv
  BY InitInv
<1>2. IndInv /\ [Next]_clientVars => IndInv'
  BY StepInv
<1> QED
  BY <1>1, <1>2, PTL DEF Spec

\* The client's state has its types, and every id in use lies below next_req_id.
THEOREM ClientTypeCorrect == Spec => []ClientTypeOK
<1>1. IndInv => ClientTypeOK
  BY DEF IndInv
<1> QED
  BY <1>1, ClientInvariant, PTL

\* However handlers, tasks and dropped calls interleave, BusClient::invoke is
\* only given the answer to its own Invoke.
THEOREM RepliesAreOwn == Spec => []OwnReply
<1>1. IndInv => OwnReply
  BY DEF IndInv
<1> QED
  BY <1>1, ClientInvariant, PTL

\* A call that waits is in the pending table or has been answered, so that a
\* Response still to come finds it.
THEOREM WaitersCanBeAnswered == Spec => []WaitersArePending
<1>1. IndInv => WaitersArePending
  BY DEF IndInv, FiledOrAnswered, WaitersArePending
<1> QED
  BY <1>1, ClientInvariant, PTL

-----------------------------------------------------------------------------
(* Nobody waits in vain.                                                   *)

\* The client has not got its connection yet.
Early == {"connecting", "backoff", "hello", "failed"}

\* Frames flow only while the reader runs; before that nothing has happened, and
\* the end of the reader has been passed on to shutdown.
Connected ==
    /\ alive => conn = "up"
    /\ conn = "lost" => fired
    /\ conn = "exited" => main = "returned"
    /\ conn \in Early => /\ main = "busy"
                         /\ \A k \in CallIds : cpc[k] = "idle"
                         /\ \A j \in Jobs : job[j] = "none"

\* Frame f has been sent by the broker and not been read.
Arriving(f) == \E i \in DOMAIN inbox : inbox[i] = f

\* Call k has its answer, or its Invoke, the broker's routing task or the Response
\* is on the way.
Carried(k) ==
    \/ slot[k] # NoCall
    \/ <<"invoke", creq[k], k>> \in outbox
    \/ <<creq[k], k>> \in routing
    \/ Arriving(<<"response", creq[k], k>>)

\* No call waits for an answer that is not on its way, while the connection holds.
CallsUnderWay ==
    \A k \in CallIds : cpc[k] = "waiting" => Carried(k) \/ ~alive \/ ~writerUp

\* No job the broker sent is lost before the reader, while the connection holds.
JobsUnderWay ==
    \A j \in Jobs : job[j] = "sent" => Arriving(<<"invoke", 0, j>>) \/ ~alive

\* A task in run_until_shutdown that shutdown has not reached has a reader that
\* will call it when the connection ends.
MainIsWoken == main = "waiting" /\ ~fired => conn = "up"

\* Reading the first frame of a queue leaves the others in it.
LEMMA TailKeeps ==
    ASSUME NEW S, NEW q \in Seq(S), q # <<>>, NEW i \in DOMAIN q, q[i] # Head(q)
    PROVE  \E j \in DOMAIN Tail(q) : Tail(q)[j] = q[i]
<1>1. i \in 1..Len(q) /\ i # 1 /\ Len(q) \in Nat
  OBVIOUS
<1>2. i - 1 \in DOMAIN Tail(q) /\ Tail(q)[i - 1] = q[i]
  BY <1>1
<1> QED
  BY <1>2

\* A frame that arrives goes behind the ones that are there.
LEMMA AppendKeeps ==
    ASSUME NEW q \in Seq(FromBroker), NEW e
    PROVE  /\ \A i \in DOMAIN q : i \in DOMAIN Append(q, e) /\ Append(q, e)[i] = q[i]
           /\ \E i \in DOMAIN Append(q, e) : Append(q, e)[i] = e
<1>1. Len(q) + 1 \in DOMAIN Append(q, e) /\ Append(q, e)[Len(q) + 1] = e
  OBVIOUS
<1>2. \A i \in DOMAIN q : i \in DOMAIN Append(q, e) /\ Append(q, e)[i] = q[i]
  OBVIOUS
<1> QED
  BY <1>1, <1>2

\* The connection: it comes up once, and its end reaches shutdown.
LEMMA ConnectedStep == IndInv /\ Connected /\ [Next]_clientVars => Connected'
<1> SUFFICES ASSUME IndInv, Connected, [Next]_clientVars PROVE Connected'
  OBVIOUS
<1>0. ClientTypeOK
  BY DEF IndInv
<1>1. CASE UNCHANGED clientVars
  BY <1>1, Zenon DEF clientVars, Connected
<1>2. CASE ConnectFails \/ BackoffEnds \/ SendHello \/ HelloRefused
  <2>1. /\ conn \in Early /\ conn' \in Early
        /\ UNCHANGED <<alive, main, fired, cpc, job>>
    BY <1>2 DEF ConnectFails, BackoffEnds, SendHello, HelloRefused, Early, callVars, mainVars
  <2>2. ~alive
    BY <2>1 DEF Connected, Early
  <2> QED
    BY <2>1, <2>2, Zenon DEF Connected, Early
<1>3. CASE HelloAcked
  BY <1>3 DEF HelloAcked, Connected, Early, mainVars, callVars
<1>4. CASE DeadlinePasses \/ WriterFails \/ ClockTick \/ BrokerShutdown
           \/ (\E f \in outbox : BrokerReads(f)) \/ (\E r \in routing : BrokerReplies(r))
  <2>1. UNCHANGED <<conn, alive, main, fired, cpc, job>>
    BY <1>4
    DEF DeadlinePasses, WriterFails, ClockTick, BrokerShutdown, BrokerReads, BrokerReplies,
        connVars, callVars, mainVars
  <2> QED
    BY <2>1, Zenon DEF Connected
<1>5. CASE ReadInvoke \/ ReadResponse \/ ReadShutdown
  <2>1. conn = "up" /\ UNCHANGED <<conn, alive>>
    BY <1>5 DEF ReadInvoke, ReadResponse, ReadShutdown, Reads, ReaderReady, connVars
  <2> QED
    BY <2>1 DEF Connected, Early
<1>6. CASE ReaderEnds
  <2>1. conn' = "lost" /\ ~alive' /\ fired'
    BY <1>6, Zenon DEF ReaderEnds, Fire
  <2> QED
    BY <2>1 DEF Connected, Early
<1>7. CASE IdlePoll \/ run_until_shutdown \/ shutdown
  <2>1. conn \in {"up", "lost"} /\ UNCHANGED <<conn, alive>> /\ (fired => fired')
    <3>1. CASE IdlePoll
      <4>1. main = "waiting" /\ UNCHANGED <<conn, alive, fired>>
        BY <3>1 DEF IdlePoll, connVars
      <4> QED
        BY <1>0, <4>1 DEF Connected, Early, ClientTypeOK
    <3>2. CASE run_until_shutdown
      BY <3>2 DEF run_until_shutdown, connVars
    <3>3. CASE shutdown
      BY <3>3 DEF shutdown, Fire, connVars
    <3> QED
      BY <1>7, <3>1, <3>2, <3>3
  <2> QED
    BY <2>1 DEF Connected, Early
<1>8. CASE AppExits
  BY <1>8 DEF AppExits, Connected, Early, mainVars
<1>9. CASE StreamEnds
  BY <1>9 DEF StreamEnds, Connected, Early, connVars, mainVars
<1>10. ASSUME NEW k \in CallIds, SendInvoke(k) \/ ReceiveReply(k) \/ CallerDrops(k)
       PROVE  Connected'
  <2>1. conn \notin Early /\ UNCHANGED <<conn, alive, main, fired>>
    BY <1>10 DEF SendInvoke, ReceiveReply, CallerDrops, Connected, connVars, mainVars
  <2> QED
    BY <2>1 DEF Connected
<1>11. ASSUME NEW k \in CallIds, AppInvokes(k) PROVE Connected'
  BY <1>11 DEF AppInvokes, Connected, Early, connVars, mainVars
<1>12. ASSUME NEW j \in Jobs, HandlerInvokes(j) \/ HandlerReturns(j) \/ BrokerInvokes(j)
       PROVE  Connected'
  <2>1. conn \notin Early /\ UNCHANGED <<conn, alive, main, fired>>
    BY <1>12
    DEF HandlerInvokes, HandlerReturns, BrokerInvokes, Connected, Early, connVars, mainVars
  <2> QED
    BY <2>1 DEF Connected
<1> QED
  BY <1>1, <1>2, <1>3, <1>4, <1>5, <1>6, <1>7, <1>8, <1>9, <1>10, <1>11, <1>12
  DEF Next, Client, Outside, BrokerStep, Establish, Reader, CallStep, Handler

\* What a step must leave alone for the calls and jobs to stay under way.
LEMMA KeepsUnderWay ==
    ASSUME CallsUnderWay, JobsUnderWay, alive' => alive, alive' /\ writerUp' => writerUp,
           \A k \in CallIds : cpc'[k] = "waiting" =>
              \/ cpc[k] = "waiting" /\ (alive' /\ Carried(k) => Carried(k)')
              \/ Carried(k)' \/ ~writerUp',
           \A j \in Jobs : job'[j] = "sent" =>
              \/ job[j] = "sent"
                   /\ (alive' /\ Arriving(<<"invoke", 0, j>>) => Arriving(<<"invoke", 0, j>>)')
              \/ Arriving(<<"invoke", 0, j>>)'
    PROVE  CallsUnderWay' /\ JobsUnderWay'
<1>1. CallsUnderWay'
  BY Zenon DEF CallsUnderWay
<1>2. JobsUnderWay'
  BY Zenon DEF JobsUnderWay
<1> QED
  BY <1>1, <1>2

LEMMA UnderWayStep ==
    IndInv /\ Connected /\ CallsUnderWay /\ JobsUnderWay /\ [Next]_clientVars
        => CallsUnderWay' /\ JobsUnderWay'
<1> SUFFICES ASSUME IndInv, Connected, CallsUnderWay, JobsUnderWay, [Next]_clientVars
             PROVE  CallsUnderWay' /\ JobsUnderWay'
  OBVIOUS
<1>0. ClientTypeOK
  BY DEF IndInv
<1> DEFINE Goal == CallsUnderWay' /\ JobsUnderWay'
<1>1. ASSUME UNCHANGED <<inbox, outbox, routing, cpc, creq, slot, job>>,
             alive' => alive, alive' /\ writerUp' => writerUp
      PROVE  Goal
  BY <1>1, KeepsUnderWay, Zenon DEF Carried, Arriving
<1>2. CASE UNCHANGED clientVars \/ ConnectFails \/ BackoffEnds \/ SendHello \/ HelloRefused
           \/ DeadlinePasses \/ WriterFails \/ ClockTick \/ IdlePoll \/ run_until_shutdown
           \/ shutdown \/ ReaderEnds
  <2>1. UNCHANGED <<inbox, outbox, routing, cpc, creq, slot, job, alive>>
    BY <1>2
    DEF clientVars, ConnectFails, BackoffEnds, SendHello, HelloRefused, DeadlinePasses, WriterFails,
        ClockTick, IdlePoll, run_until_shutdown, shutdown, ReaderEnds, callVars
  <2>2. writerUp' => writerUp
    BY <1>2, Zenon
    DEF clientVars, ConnectFails, BackoffEnds, SendHello, HelloRefused, DeadlinePasses, WriterFails,
        ClockTick, IdlePoll, run_until_shutdown, shutdown, ReaderEnds
  <2> QED
    BY <1>1, <2>1, <2>2, Zenon
<1>3. CASE HelloAcked
  <2>1. \A k \in CallIds : cpc'[k] = "idle"
    BY <1>3 DEF HelloAcked, Connected, Early, callVars
  <2>2. \A j \in Jobs : job'[j] = "none"
    BY <1>3 DEF HelloAcked, Connected, Early
  <2> QED
    BY <2>1, <2>2 DEF CallsUnderWay, JobsUnderWay
<1>4. CASE StreamEnds \/ AppExits
  <2>1. ~alive'
    BY <1>4, Zenon DEF StreamEnds, AppExits
  <2> QED
    BY <2>1 DEF CallsUnderWay, JobsUnderWay
<1>5. ASSUME NEW k \in CallIds, AppInvokes(k) \/ SendInvoke(k) \/ ReceiveReply(k) \/ CallerDrops(k)
      PROVE  Goal
  <2>1. UNCHANGED <<alive, writerUp, inbox, routing, slot, job>> /\ outbox \subseteq outbox'
    BY <1>5 DEF AppInvokes, StartInvoke, SendInvoke, ReceiveReply, CallerDrops
  <2>2. ASSUME NEW l \in CallIds, cpc'[l] = "waiting"
        PROVE  \/ cpc[l] = "waiting" /\ (Carried(l) => Carried(l)')
               \/ Carried(l)' \/ ~writerUp'
    <3>1. CASE SendInvoke(k) /\ l = k
      BY <1>0, <2>1, <2>2, <3>1 DEF SendInvoke, Carried, ClientTypeOK
    <3>2. CASE ~(SendInvoke(k) /\ l = k)
      <4>1. cpc[l] = "waiting" /\ creq'[l] = creq[l]
        BY <1>0, <1>5, <2>2, <3>2
        DEF AppInvokes, StartInvoke, SendInvoke, ReceiveReply, CallerDrops, ClientTypeOK
      <4> QED
        BY <2>1, <4>1 DEF Carried, Arriving
    <3> QED
      BY <3>1, <3>2
  <2>3. \A j \in Jobs : Arriving(<<"invoke", 0, j>>) => Arriving(<<"invoke", 0, j>>)'
    BY <2>1 DEF Arriving
  <2> QED
    BY <2>1, <2>2, <2>3, KeepsUnderWay, Zenon
<1>6. ASSUME NEW j \in Jobs, HandlerInvokes(j) \/ HandlerReturns(j) PROVE Goal
  <2>1. UNCHANGED <<alive, writerUp, inbox, routing, slot>> /\ outbox \subseteq outbox'
    BY <1>6 DEF HandlerInvokes, StartInvoke, HandlerReturns, callVars
  <2>2. ASSUME NEW l \in CallIds, cpc'[l] = "waiting"
        PROVE  cpc[l] = "waiting" /\ (Carried(l) => Carried(l)')
    <3>1. cpc[l] = "waiting" /\ creq'[l] = creq[l]
      <4>1. CASE HandlerReturns(j)
        BY <2>2, <4>1 DEF HandlerReturns, callVars
      <4>2. CASE HandlerInvokes(j)
        <5>1. /\ cpc' = [cpc EXCEPT ![Nested[j]] = "pended"]
              /\ creq' = [creq EXCEPT ![Nested[j]] = nextReq]
          BY <4>2 DEF HandlerInvokes, StartInvoke
        <5> QED
          BY <1>0, <2>2, <5>1 DEF ClientTypeOK
      <4> QED
        BY <1>6, <4>1, <4>2
    <3> QED
      BY <2>1, <3>1 DEF Carried, Arriving
  <2>3. \A i \in Jobs : job'[i] = "sent" => job[i] = "sent"
    BY <1>0, <1>6 DEF HandlerInvokes, HandlerReturns, ClientTypeOK
  <2>4. \A i \in Jobs : Arriving(<<"invoke", 0, i>>) => Arriving(<<"invoke", 0, i>>)'
    BY <2>1 DEF Arriving
  <2> QED
    BY <2>1, <2>2, <2>3, <2>4, KeepsUnderWay, Zenon
<1>7. ASSUME NEW g, inbox' = Append(inbox, g)
      PROVE  Arriving(g)' /\ \A f : Arriving(f) => Arriving(f)'
  <2>1. inbox \in Seq(FromBroker)
    BY <1>0 DEF ClientTypeOK
  <2>2. /\ \A i \in DOMAIN inbox : i \in DOMAIN inbox' /\ inbox'[i] = inbox[i]
        /\ \E i \in DOMAIN inbox' : inbox'[i] = g
    BY <1>7, <2>1, AppendKeeps
  <2> QED
    BY <2>2 DEF Arriving
<1>8. ASSUME inbox # <<>>, inbox' = Tail(inbox), NEW f, f # Head(inbox), Arriving(f)
      PROVE  Arriving(f)'
  <2> PICK i \in DOMAIN inbox : inbox[i] = f
    BY <1>8 DEF Arriving
  <2>1. \E m \in DOMAIN Tail(inbox) : Tail(inbox)[m] = inbox[i]
    BY <1>0, <1>8, TailKeeps DEF ClientTypeOK
  <2> QED
    BY <1>8, <2>1 DEF Arriving
<1>9. CASE BrokerShutdown
  <2>1. /\ UNCHANGED <<alive, writerUp, outbox, routing, cpc, creq, slot, job>>
        /\ \E g : inbox' = Append(inbox, g)
    BY <1>9 DEF BrokerShutdown, callVars
  <2>2. \A f : Arriving(f) => Arriving(f)'
    BY <1>7, <2>1
  <2>3. \A k \in CallIds : Carried(k) => Carried(k)'
    BY <2>1, <2>2 DEF Carried
  <2> QED
    BY <2>1, <2>2, <2>3, KeepsUnderWay, Zenon
<1>10. ASSUME NEW j \in Jobs, BrokerInvokes(j) PROVE Goal
  <2>1. /\ UNCHANGED <<alive, writerUp, outbox, routing, cpc, creq, slot>>
        /\ inbox' = Append(inbox, <<"invoke", 0, j>>)
        /\ job' = [job EXCEPT ![j] = "sent"]
    BY <1>10 DEF BrokerInvokes, callVars
  <2>2. \A f : Arriving(f) => Arriving(f)'
    BY <1>7, <2>1
  <2>3. \A k \in CallIds : Carried(k) => Carried(k)'
    BY <2>1, <2>2 DEF Carried
  <2>4. Arriving(<<"invoke", 0, j>>)'
    BY <1>7, <2>1
  <2>5. \A i \in Jobs : i # j => job'[i] = job[i]
    BY <1>0, <2>1 DEF ClientTypeOK
  <2> QED
    BY <2>1, <2>2, <2>3, <2>4, <2>5, KeepsUnderWay, Zenon
<1>11. ASSUME NEW f \in outbox, BrokerReads(f) PROVE Goal
  <2>1. /\ UNCHANGED <<alive, writerUp, inbox, cpc, creq, slot, job>>
        /\ outbox' = outbox \ {f}
        /\ routing' = IF f[1] = "invoke" THEN routing \union {<<f[2], f[3]>>} ELSE routing
    BY <1>11 DEF BrokerReads, callVars
  <2>2. \A k \in CallIds : Carried(k) => Carried(k)'
    BY <2>1 DEF Carried, Arriving
  <2>3. \A i \in Jobs : Arriving(<<"invoke", 0, i>>) => Arriving(<<"invoke", 0, i>>)'
    BY <2>1 DEF Arriving
  <2> QED
    BY <2>1, <2>2, <2>3, KeepsUnderWay, Zenon
<1>12. ASSUME NEW r \in routing, BrokerReplies(r) PROVE Goal
  <2>1. /\ UNCHANGED <<alive, writerUp, outbox, cpc, creq, slot, job>>
        /\ routing' = routing \ {r}
    BY <1>12 DEF BrokerReplies, callVars
  <2>2. CASE ~alive
    BY <2>1, <2>2 DEF CallsUnderWay, JobsUnderWay
  <2>3. CASE alive
    <3>1. inbox' = Append(inbox, <<"response", r[1], r[2]>>)
      BY <1>12, <2>3 DEF BrokerReplies
    <3>2. \A f : Arriving(f) => Arriving(f)'
      BY <1>7, <3>1
    <3>3. Arriving(<<"response", r[1], r[2]>>)'
      BY <1>7, <3>1
    <3>4. \A k \in CallIds : Carried(k) => Carried(k)'
      BY <2>1, <3>2, <3>3 DEF Carried
    <3> QED
      BY <2>1, <3>2, <3>4, KeepsUnderWay, Zenon
  <2> QED
    BY <2>2, <2>3
<1>13. CASE ReadInvoke
  <2>1. /\ UNCHANGED <<alive, writerUp, outbox, routing, cpc, creq, slot>>
        /\ inbox # <<>> /\ Head(inbox)[1] = "invoke" /\ inbox' = Tail(inbox)
        /\ job' = [job EXCEPT ![Head(inbox)[3]] = "running"]
    BY <1>13 DEF ReadInvoke, Reads, callVars
  <2>2. \A k \in CallIds : Carried(k) => Carried(k)'
    <3>1. \A k \in CallIds : <<"response", creq[k], k>> # Head(inbox)
      BY <2>1
    <3> QED
      BY <1>8, <2>1, <3>1 DEF Carried
  <2>3. ASSUME NEW i \in Jobs, job'[i] = "sent"
        PROVE  job[i] = "sent" /\ (Arriving(<<"invoke", 0, i>>) => Arriving(<<"invoke", 0, i>>)')
    <3>1. i # Head(inbox)[3] /\ job[i] = "sent"
      BY <1>0, <2>1, <2>3 DEF ClientTypeOK
    <3>2. <<"invoke", 0, i>> # Head(inbox)
      BY <3>1
    <3> QED
      BY <1>8, <2>1, <3>1, <3>2
  <2> QED
    BY <2>1, <2>2, <2>3, KeepsUnderWay, Zenon
<1>14. CASE ReadShutdown
  <2>1. /\ UNCHANGED <<alive, writerUp, outbox, routing, cpc, creq, slot, job>>
        /\ inbox # <<>> /\ Head(inbox)[1] = "shutdown" /\ inbox' = Tail(inbox)
    BY <1>14 DEF ReadShutdown, Reads, callVars
  <2>2. \A k \in CallIds : Carried(k) => Carried(k)'
    <3>1. \A k \in CallIds : <<"response", creq[k], k>> # Head(inbox)
      BY <2>1
    <3> QED
      BY <1>8, <2>1, <3>1 DEF Carried
  <2>3. \A i \in Jobs : Arriving(<<"invoke", 0, i>>) => Arriving(<<"invoke", 0, i>>)'
    <3>1. \A i \in Jobs : <<"invoke", 0, i>> # Head(inbox)
      BY <2>1
    <3> QED
      BY <1>8, <2>1, <3>1
  <2> QED
    BY <2>1, <2>2, <2>3, KeepsUnderWay, Zenon
<1>15. CASE ReadResponse
  <2> DEFINE waker == {p \in pending : p[1] = Head(inbox)[2]}
  <2>1. /\ UNCHANGED <<alive, writerUp, outbox, routing, cpc, creq, job>>
        /\ inbox # <<>> /\ Head(inbox)[1] = "response" /\ inbox' = Tail(inbox)
        /\ slot' = [k \in CallIds |-> IF \E p \in waker : p[2] = k THEN Head(inbox)[3] ELSE slot[k]]
    BY <1>15 DEF ReadResponse, Reads
  <2>2. Head(inbox) \in FromBroker
    BY <1>0, <2>1 DEF ClientTypeOK
  <2>3. Head(inbox)[3] \in CallIds /\ Head(inbox)[3] # NoCall
    BY <2>1, <2>2, FrameParts, ClientAssumption
  <2>4. ASSUME NEW k \in CallIds, cpc[k] = "waiting", Carried(k) PROVE Carried(k)'
    <3>1. CASE slot[k] # NoCall
      BY <2>1, <2>3, <3>1 DEF Carried
    <3>2. CASE slot[k] = NoCall /\ Head(inbox) = <<"response", creq[k], k>>
      <4>1. <<creq[k], k>> \in waker
        BY <2>4, <3>2 DEF IndInv, FiledOrAnswered
      <4>2. slot'[k] = Head(inbox)[3]
        BY <2>1, <4>1
      <4> QED
        BY <2>3, <4>2 DEF Carried
    <3>3. CASE slot[k] = NoCall /\ Head(inbox) # <<"response", creq[k], k>>
      BY <1>8, <2>1, <2>4, <3>3 DEF Carried
    <3> QED
      BY <3>1, <3>2, <3>3
  <2>5. \A i \in Jobs : Arriving(<<"invoke", 0, i>>) => Arriving(<<"invoke", 0, i>>)'
    <3>1. \A i \in Jobs : <<"invoke", 0, i>> # Head(inbox)
      BY <2>1
    <3> QED
      BY <1>8, <2>1, <3>1
  <2> QED
    BY <2>1, <2>4, <2>5, KeepsUnderWay, Zenon
<1> QED
  BY <1>2, <1>3, <1>4, <1>5, <1>6, <1>9, <1>10, <1>11, <1>12, <1>13, <1>14, <1>15
  DEF Next, Client, Outside, BrokerStep, Establish, Reader, CallStep, Handler

\* The safety half of JobsFinish: as long as the connection holds and its writer
\* runs, no job the broker has sent gets lost before the reader, and no call the
\* app or a handler waits for is without an answer on its way; nothing another
\* handler, a caller that gives up or a late Response does takes one away.
THEOREM ClientNeverStrands == Spec => [](CallsUnderWay /\ JobsUnderWay)
<1>1. Init => Connected /\ CallsUnderWay /\ JobsUnderWay
  <2> SUFFICES ASSUME Init PROVE Connected /\ CallsUnderWay /\ JobsUnderWay
    OBVIOUS
  <2>1. ~alive /\ ~fired
    BY Zenon DEF Init
  <2> QED
    BY <2>1 DEF Init, Connected, CallsUnderWay, JobsUnderWay, Early
<1> QED
  BY <1>1, ConnectedStep, UnderWayStep, ClientInvariant, PTL DEF Spec

\* The safety half of LossEndsMain: a task in run_until_shutdown that no shutdown
\* has reached still has a reader, which ends with a shutdown; only a shutdown that
\* came before it, the finding at ShutdownEndsMain, can leave it alone.
THEOREM WaitersHaveReader == Spec => []MainIsWoken
<1>1. Init => Connected
  <2> SUFFICES ASSUME Init PROVE Connected
    OBVIOUS
  <2>1. ~alive /\ ~fired
    BY Zenon DEF Init
  <2> QED
    BY <2>1 DEF Init, Connected, Early
<1>2. IndInv /\ Connected => MainIsWoken
  BY DEF IndInv, ClientTypeOK, Connected, MainIsWoken, Early
<1> QED
  BY <1>1, <1>2, ConnectedStep, ClientInvariant, PTL DEF Spec

=============================================================================
