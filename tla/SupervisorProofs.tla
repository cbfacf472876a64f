-------------------------- MODULE SupervisorProofs --------------------------
(***************************************************************************)
(* Proofs about the supervisor: which processes of an app run together, a  *)
(* loop for every resident app and the cap of the backoff, for any number  *)
(* of tasks, AppStates and processes and any cap.                          *)
(***************************************************************************)
EXTENDS Supervisor, TLAPS

-----------------------------------------------------------------------------
(* The inductive invariant.                                                *)

\* Numbers in use are at most the counters.
Counted ==
    /\ \A p \in Procs : p > spawned => status[p] = "none" /\ home[p] = 0
    /\ \A i \in looped : i <= made

\* A handle stays with the AppState its process was spawned for, be it stored, just
\* spawned, or taken out, and then its process has been signalled.
HandlesAtHome ==
    /\ \A i \in States : child[i] # 0 => home[child[i]] = i
    /\ \A t \in Tasks : fresh[t] # 0 => pc[t] = "store" /\ home[fresh[t]] = st[t]
    /\ \A t \in Tasks : pc[t] = "store" => fresh[t] # 0
    /\ \A t \in Callers : taken[t] # 0 => /\ pc[t] \in {"killU", "killR"}
                                         /\ home[taken[t]] = st[t]
                                         /\ status[taken[t]] # "up"

\* A process that has not been signalled and runs has a handle.
RunningHasHandle ==
    \A p \in Procs : status[p] = "up" => \/ \E i \in States : child[i] = p
                                         \/ \E t \in Tasks : fresh[t] = p
                                         \/ \E t \in Callers : taken[t] = p

\* Who holds the lock on the child of an AppState: the loop while it waits or sleeps
\* after a failure, spawn_once, and stop_service, which has emptied it.
LockHolders ==
    /\ \A t \in Tasks : pc[t] \in {"failed", "wait", "store"} => lock[st[t]] = t
    /\ \A t \in Callers : pc[t] \in {"killU", "killR"} => lock[st[t]] = t /\ child[st[t]] = 0
    /\ \A t \in Tasks : pc[t] \in {"spawn", "store", "failed", "lock", "wait", "ensure",
                                   "lockU", "lockR", "killU", "killR"} => st[t] \in States

\* No process of the AppState is newer than p.
NewestOf(p) == \A q \in Procs : home[q] = home[p] => q <= p

\* The child of an AppState is its newest process, but for one that is about to
\* replace it; so is the process that stop_service waits for.
Newest ==
    /\ \A i \in States, q \in Procs :
          child[i] # 0 /\ home[q] = i => q <= child[i] \/ \E t \in Tasks : fresh[t] = q
    /\ \A t \in Tasks : fresh[t] # 0 => NewestOf(fresh[t])
    /\ \A t \in Callers : taken[t] # 0 => NewestOf(taken[t])

\* Loop l will come back to the top, or has the current AppState and its child.
Tends(l) ==
    \/ pc[l] \in {"top", "failed"}
    \/ pc[l] \in {"spawn", "store", "wait"} /\ st[l] = apps
    \/ pc[l] = "lock" /\ st[l] = apps /\ child[apps] # 0

\* ResidentHasLoop, with what makes the loop it speaks of go on.
Tended ==
    apps \in resident \intersect looped =>
        \/ \E l \in Loops : Tends(l)
        \/ \E t \in Callers : pc[t] \in {"lockU", "lockR", "killU", "killR", "removeU", "removeR"}

IndInv ==
    /\ SupTypeOK /\ Counted
    /\ HandlesAtHome /\ RunningHasHandle /\ LockHolders /\ Newest
    /\ Tended

-----------------------------------------------------------------------------
(* Helpers.                                                                *)

\* Backoff::bump never goes past the cap.
LEMMA BackoffCapped == \A d \in 1..MaxBackoff : Doubled(d) \in 1..MaxBackoff
BY SupervisorAssumption DEF Doubled

\* The states of a process.
Statuses == {"none", "up", "dying", "clean", "crashed", "gone"}

\* What kill_on_drop leaves: only processes with a handle run on, and it starts none.
LEMMA KillOnDropKeeps ==
    ASSUME NEW s \in [Procs -> Statuses], KillOnDrop(s)
    PROVE  /\ status' \in [Procs -> Statuses]
           /\ \A p \in Procs : s[p] = "none" => status'[p] = "none"
           /\ \A p \in Procs : status'[p] = "up" => s[p] = "up"
           /\ RunningHasHandle'
<1>1. \A p \in Procs : status'[p] = IF Owned(p) THEN s[p]
                                   ELSE IF s[p] = "up" THEN "dying"
                                   ELSE IF s[p] \in {"clean", "crashed"} THEN "gone" ELSE s[p]
  BY DEF KillOnDrop
<1>2. \A p \in Procs : Owned(p) => \/ \E i \in States : child'[i] = p
                                   \/ \E t \in Tasks : fresh'[t] = p
                                   \/ \E t \in Callers : taken'[t] = p
  BY DEF Owned
<1>3. \A p \in Procs : status'[p] = "up" => Owned(p) /\ s[p] = "up"
  BY <1>1
<1>4. RunningHasHandle'
  BY <1>2, <1>3 DEF RunningHasHandle
<1>5. status' \in [Procs -> Statuses]
  BY <1>1 DEF KillOnDrop, Statuses
<1>6. \A p \in Procs : s[p] = "none" => status'[p] = "none"
  BY <1>1
<1> QED
  BY <1>3, <1>4, <1>5, <1>6

\* A step that leaves the handles alone, but for kill_on_drop, and moves no task to or
\* from a place that has one.
LEMMA HandlesKept ==
    ASSUME SupTypeOK, HandlesAtHome, Newest, UNCHANGED <<child, home, fresh, taken>>,
           \A c \in Tasks : \/ pc'[c] = pc[c] /\ st'[c] = st[c]
                            \/ pc[c] \notin {"store", "killU", "killR"} /\ pc'[c] # "store",
           \A p \in Procs : status'[p] = "up" => status[p] = "up"
    PROVE  HandlesAtHome' /\ Newest'
<1>1. Newest'
  BY DEF Newest, NewestOf
<1>2. \A c \in Callers : c \in Tasks /\ taken[c] \in 0..spawned
  BY DEF SupTypeOK, Tasks
<1>3. \A k \in 0..spawned : k # 0 => k \in Procs
  BY SupervisorAssumption DEF SupTypeOK, Procs
<1>4. HandlesAtHome'
  BY <1>2, <1>3 DEF HandlesAtHome
<1> QED
  BY <1>1, <1>4

-----------------------------------------------------------------------------
(* spawn_once.                                                             *)

\* cmd.spawn() and the store of the new handle keep types and counters.
LEMMA SpawnTypes ==
    ASSUME IndInv, NEW t \in Tasks, pc[t] \in {"spawn", "ensure"}, Spawn(t)
    PROVE  SupTypeOK' /\ Counted'
<1> USE DEF IndInv
<1>1. /\ spawned \in 0..MaxProcs /\ spawned < MaxProcs /\ spawned' = spawned + 1
      /\ MaxProcs \in Nat /\ MaxStates \in Nat /\ made \in 0..MaxStates
      /\ st[t] \in 0..made
  BY SupervisorAssumption DEF SupTypeOK, Spawn
<1>2. spawned + 1 \in Procs /\ spawned' \in 0..MaxProcs /\ \A k \in 0..spawned : k \in 0..spawned'
  BY <1>1 DEF Procs
<1>3. child' \in [States -> 0..spawned'] /\ taken' \in [Callers -> 0..spawned']
  BY <1>2 DEF SupTypeOK, Spawn
<1>4. fresh' \in [Tasks -> 0..spawned']
  BY <1>1, <1>2 DEF SupTypeOK, Spawn
<1>5. home' \in [Procs -> 0..made'] /\ status' \in [Procs -> Statuses]
  BY <1>1, <1>2 DEF SupTypeOK, Spawn, Statuses
<1>6. SupTypeOK'
  BY <1>1, <1>2, <1>3, <1>4, <1>5 DEF SupTypeOK, Spawn, Statuses
<1>7. \A p \in Procs : p > spawned' => p > spawned /\ p # spawned + 1
  BY <1>1 DEF Procs
<1>8. Counted'
  BY <1>7 DEF Counted, Spawn, SupTypeOK
<1> QED
  BY <1>6, <1>8

LEMMA StoreTypes ==
    ASSUME IndInv, NEW t \in Tasks, StoreChild(t)
    PROVE  SupTypeOK' /\ Counted'
<1> USE DEF IndInv
<1>1. /\ status' \in [Procs -> Statuses]
      /\ \A p \in Procs : status[p] = "none" => status'[p] = "none"
  BY KillOnDropKeeps DEF StoreChild, SupTypeOK, Statuses
<1>2. SupTypeOK'
  <2>1. /\ t \in Tasks /\ NoTask \notin Tasks /\ fresh[t] \in 0..spawned
        /\ spawned \in 0..MaxProcs /\ MaxProcs \in Nat /\ made \in 0..MaxStates
        /\ MaxStates \in Nat
    BY SupervisorAssumption DEF SupTypeOK, Tasks
  <2>2. /\ child' \in [States -> 0..spawned] /\ fresh' \in [Tasks -> 0..spawned]
        /\ lock' \in [States -> Tasks \union {NoTask}]
    <3>1. child' = [child EXCEPT ![st[t]] = fresh[t]] /\ fresh' = [fresh EXCEPT ![t] = 0]
      BY DEF StoreChild
    <3>2. 0 \in 0..spawned
      BY <2>1
    <3>3. lock' \in [States -> Tasks \union {NoTask}]
      BY DEF SupTypeOK, StoreChild
    <3>4. child' \in [States -> 0..spawned]
      BY <2>1, <3>1 DEF SupTypeOK
    <3>5. fresh' \in [Tasks -> 0..spawned]
      BY <3>1, <3>2 DEF SupTypeOK
    <3> QED
      BY <3>3, <3>4, <3>5
  <2>3. st' \in [Tasks -> 0..made]
    BY <2>1 DEF SupTypeOK, StoreChild
  <2> QED
    BY <1>1, <2>1, <2>2, <2>3 DEF SupTypeOK, StoreChild, Statuses
<1>3. Counted'
  BY <1>1 DEF Counted, StoreChild
<1> QED
  BY <1>2, <1>3

\* The parts about handles and the lock.
Handles == HandlesAtHome /\ RunningHasHandle /\ LockHolders /\ Newest

\* The new process is the newest of its AppState, and nobody else has a hand on that.
LEMMA SpawnHandles ==
    ASSUME IndInv, NEW t \in Tasks, pc[t] \in {"spawn", "ensure"}, lock[st[t]] = NoTask, Spawn(t)
    PROVE  Handles'
<1> USE DEF IndInv
<1> DEFINE n == spawned + 1
<1>1. /\ n \in Procs /\ n # 0 /\ 0 \notin Procs /\ spawned \in Nat /\ Procs \subseteq Nat
      /\ st[t] \in States /\ fresh[t] = 0
      /\ Callers \subseteq Tasks /\ NoTask \notin Tasks
      /\ \A i \in States : child[i] # 0 => child[i] \in Procs /\ child[i] # n
      /\ \A c \in Tasks : fresh[c] # 0 => fresh[c] \in Procs /\ fresh[c] # n
      /\ \A c \in Callers : taken[c] # 0 => taken[c] \in Procs /\ taken[c] # n
  <2>1. /\ spawned \in 0..MaxProcs /\ MaxProcs \in Nat /\ spawned < MaxProcs
        /\ \A i \in States : child[i] \in 0..spawned
        /\ \A c \in Tasks : fresh[c] \in 0..spawned
        /\ \A c \in Callers : taken[c] \in 0..spawned
    BY SupervisorAssumption DEF SupTypeOK, Spawn
  <2>2. /\ n \in Procs /\ n # 0 /\ 0 \notin Procs /\ Procs \subseteq Nat
        /\ \A k \in 0..spawned : k # 0 => k \in Procs /\ k # n
    BY <2>1 DEF Procs
  <2>3. st[t] \in States /\ fresh[t] = 0
    BY DEF LockHolders, HandlesAtHome
  <2> HIDE DEF n
  <2> QED
    BY <2>1, <2>2, <2>3, SupervisorAssumption DEF Tasks
<1>2. /\ \A c \in Tasks : fresh'[c] = IF c = t THEN n ELSE fresh[c]
      /\ \A c \in Tasks : pc'[c] = IF c = t THEN "store" ELSE pc[c]
      /\ \A q \in Procs : home'[q] = IF q = n THEN st[t] ELSE home[q]
      /\ \A q \in Procs : status'[q] = IF q = n THEN "up" ELSE status[q]
      /\ \A i \in States : lock'[i] = IF i = st[t] THEN t ELSE lock[i]
      /\ UNCHANGED <<child, st, taken>>
  BY DEF Spawn, SupTypeOK
<1>3. \A c \in Callers : taken[c] # 0 => c # t /\ st[c] # st[t] /\ home[taken[c]] = st[c]
  BY <1>1 DEF HandlesAtHome, LockHolders
<1>4. \A c \in Tasks : fresh[c] # 0 => c # t /\ st[c] # st[t] /\ home[fresh[c]] = st[c]
  BY <1>1 DEF HandlesAtHome, LockHolders
<1>5. \A q \in Procs : home[q] = st[t] => q <= n
  BY <1>1 DEF Counted, States, Procs
<1> HIDE DEF n
<1>6. HandlesAtHome'
  <2>1. \A i \in States : child'[i] # 0 => home'[child'[i]] = i
    BY <1>1, <1>2 DEF HandlesAtHome
  <2>2. ASSUME NEW c \in Tasks, fresh'[c] # 0 PROVE pc'[c] = "store" /\ home'[fresh'[c]] = st'[c]
    <3>1. CASE c = t
      BY <1>1, <1>2, <3>1
    <3>2. CASE c # t
      <4>1. fresh'[c] = fresh[c] /\ pc'[c] = pc[c] /\ fresh[c] \in Procs /\ fresh[c] # n
        BY <1>1, <1>2, <2>2, <3>2
      <4> QED
        BY <1>2, <2>2, <4>1 DEF HandlesAtHome
    <3> QED
      BY <3>1, <3>2
  <2>3. \A c \in Tasks : pc'[c] = "store" => fresh'[c] # 0
    BY <1>1, <1>2 DEF HandlesAtHome
  <2>4. ASSUME NEW c \in Callers, taken'[c] # 0
        PROVE  /\ pc'[c] \in {"killU", "killR"} /\ home'[taken'[c]] = st'[c]
               /\ status'[taken'[c]] # "up"
    <3>1. /\ taken[c] # 0 /\ taken'[c] = taken[c] /\ c \in Tasks /\ c # t
          /\ taken[c] \in Procs /\ taken[c] # n
      BY <1>1, <1>2, <1>3, <2>4
    <3>2. pc'[c] = pc[c] /\ home'[taken[c]] = home[taken[c]] /\ status'[taken[c]] = status[taken[c]]
      BY <1>2, <3>1
    <3> QED
      BY <1>2, <3>1, <3>2 DEF HandlesAtHome
  <2> QED
    BY <2>1, <2>2, <2>3, <2>4 DEF HandlesAtHome
<1>7. RunningHasHandle'
  BY <1>1, <1>2 DEF RunningHasHandle
<1>8. LockHolders'
  BY <1>1, <1>2 DEF LockHolders
<1>9. Newest'
  <2>1. \A i \in States, q \in Procs :
           child'[i] # 0 /\ home'[q] = i => q <= child'[i] \/ \E c \in Tasks : fresh'[c] = q
    <3> SUFFICES ASSUME NEW i \in States, NEW q \in Procs, child[i] # 0, home'[q] = i
                 PROVE  q <= child[i] \/ \E c \in Tasks : fresh'[c] = q
      BY <1>2
    <3>1. CASE q = n
      BY <1>2, <3>1
    <3>2. CASE q # n
      <4>1. q <= child[i] \/ \E c \in Tasks : fresh[c] = q
        BY <1>2, <3>2 DEF Newest
      <4>2. q # 0
        BY DEF Procs
      <4>3. \A c \in Tasks : fresh[c] = q => fresh'[c] = q
        BY <1>1, <1>2, <4>2
      <4> QED
        BY <4>1, <4>3
    <3> QED
      BY <3>1, <3>2
  <2>2. ASSUME NEW c \in Tasks, fresh'[c] # 0, NEW q \in Procs, home'[q] = home'[fresh'[c]]
        PROVE  q <= fresh'[c]
    <3>1. CASE c = t
      BY <1>1, <1>2, <1>5, <2>2, <3>1
    <3>2. CASE c # t
      <4>1. /\ fresh[c] # 0 /\ fresh'[c] = fresh[c] /\ home[fresh[c]] # st[t]
            /\ fresh[c] \in Procs /\ fresh[c] # n
        BY <1>1, <1>2, <1>4, <2>2, <3>2
      <4>2. home'[fresh[c]] = home[fresh[c]] /\ q # n /\ home'[q] = home[q]
        BY <1>2, <2>2, <4>1
      <4> QED
        BY <2>2, <4>1, <4>2 DEF Newest, NewestOf
    <3> QED
      BY <3>1, <3>2
  <2>3. ASSUME NEW c \in Callers, taken'[c] # 0, NEW q \in Procs, home'[q] = home'[taken'[c]]
        PROVE  q <= taken'[c]
    <3>1. /\ taken[c] # 0 /\ taken'[c] = taken[c] /\ home[taken[c]] # st[t]
          /\ taken[c] \in Procs /\ taken[c] # n
      BY <1>1, <1>2, <1>3, <2>3
    <3>2. home'[taken[c]] = home[taken[c]] /\ q # n /\ home'[q] = home[q]
      BY <1>2, <2>3, <3>1
    <3> QED
      BY <2>3, <3>1, <3>2 DEF Newest, NewestOf
  <2> QED
    BY <2>1, <2>2, <2>3 DEF Newest, NewestOf
<1> QED
  BY <1>6, <1>7, <1>8, <1>9 DEF Handles

\* The stored handle is that of the newest process.
LEMMA StoreHandles ==
    ASSUME IndInv, NEW t \in Tasks, StoreChild(t)
    PROVE  Handles'
<1> USE DEF IndInv
<1> DEFINE n == fresh[t]
<1>1. /\ pc[t] = "store" /\ n # 0 /\ home[n] = st[t] /\ lock[st[t]] = t /\ st[t] \in States
      /\ NewestOf(n)
      /\ Callers \subseteq Tasks /\ NoTask \notin Tasks
      /\ \A c \in Callers : taken[c] # 0 => taken[c] \in Procs
      /\ n \in Procs
  <2>1. /\ \A k \in 0..spawned : k # 0 => k \in Procs
        /\ \A c \in Callers : taken[c] \in 0..spawned
        /\ n \in 0..spawned
    BY SupervisorAssumption DEF SupTypeOK, Procs
  <2> QED
    BY <2>1, SupervisorAssumption
    DEF StoreChild, HandlesAtHome, LockHolders, Newest, Tasks
<1>2. /\ \A c \in Tasks : fresh'[c] = IF c = t THEN 0 ELSE fresh[c]
      /\ \A c \in Tasks : c # t => pc'[c] = pc[c] /\ st'[c] = st[c]
      /\ pc'[t] \in {"lock", "idle"} /\ (pc'[t] = "lock" => st'[t] = st[t])
      /\ \A i \in States : child'[i] = IF i = st[t] THEN n ELSE child[i]
      /\ \A i \in States : lock'[i] = IF i = st[t] THEN NoTask ELSE lock[i]
      /\ UNCHANGED <<home, taken>>
  BY DEF StoreChild, SupTypeOK
<1>3. RunningHasHandle' /\ \A p \in Procs : status'[p] = "up" => status[p] = "up"
  BY KillOnDropKeeps DEF StoreChild, SupTypeOK, Statuses
<1>4. \A c \in Tasks : c # t => /\ fresh[c] # 0 => home[fresh[c]] # st[t]
                                /\ pc[c] \in {"failed", "wait", "store"} => st[c] # st[t]
  BY <1>1 DEF HandlesAtHome, LockHolders
<1>5. \A c \in Callers : pc[c] \in {"killU", "killR"} => c # t /\ st[c] # st[t]
  BY <1>1 DEF LockHolders
<1> HIDE DEF n
<1>6. HandlesAtHome'
  BY <1>1, <1>2, <1>3, <1>5 DEF HandlesAtHome
<1>7. LockHolders'
  BY <1>1, <1>2, <1>4, <1>5 DEF LockHolders
<1>8. Newest'
  <2>1. \A i \in States, q \in Procs :
           child'[i] # 0 /\ home'[q] = i => q <= child'[i] \/ \E c \in Tasks : fresh'[c] = q
    <3> SUFFICES ASSUME NEW i \in States, NEW q \in Procs, child'[i] # 0, home[q] = i
                 PROVE  q <= child'[i] \/ \E c \in Tasks : fresh'[c] = q
      BY <1>2
    <3>1. CASE i = st[t]
      BY <1>1, <1>2, <3>1 DEF NewestOf
    <3>2. CASE i # st[t]
      <4>1. q <= child[i] \/ \E c \in Tasks : fresh[c] = q
        BY <1>2, <3>2 DEF Newest
      <4>2. \A c \in Tasks : fresh[c] = q => fresh'[c] = q
        BY <1>1, <1>2, <3>2 DEF n
      <4> QED
        BY <1>2, <3>2, <4>1, <4>2
    <3> QED
      BY <3>1, <3>2
  <2>2. \A c \in Tasks : fresh'[c] # 0 => NewestOf(fresh[c])'
    BY <1>2 DEF Newest, NewestOf
  <2>3. \A c \in Callers : taken'[c] # 0 => NewestOf(taken[c])'
    BY <1>2 DEF Newest, NewestOf
  <2> QED
    BY <2>1, <2>2, <2>3 DEF Newest
<1> QED
  BY <1>3, <1>6, <1>7, <1>8 DEF Handles

-----------------------------------------------------------------------------
(* Types.                                                                  *)

LEMMA InitInv == Init => IndInv
BY SupervisorAssumption
DEF Init, IndInv, SupTypeOK, Counted, HandlesAtHome, RunningHasHandle, LockHolders, Newest,
    NewestOf, Tended, States, Procs, Tasks

\* The places of a task, as in SupTypeOK.
Places == {"free", "top", "spawn", "store", "failed", "lock", "wait", "ended",
           "idle", "ensure", "stopU", "stopR", "lockU", "lockR", "killU", "killR",
           "removeU", "removeR", "insert"}

\* A fresh AppState becomes the current one, with or without a loop.
LEMMA InsertStateTypes ==
    ASSUME IndInv, NEW r \in BOOLEAN, InsertState(r), KillOnDrop(status),
           looped' \in {looped, looped \union {made + 1}},
           pc' \in [Tasks -> Places],
           UNCHANGED <<lock, child, backoff, spawned, home, fresh, st, taken>>
    PROVE  SupTypeOK' /\ Counted'
<1> USE DEF IndInv
<1>1. /\ made \in Nat /\ made' = made + 1 /\ made' \in 0..MaxStates /\ apps' \in 0..made'
      /\ made + 1 \in States
      /\ \A i \in 0..made : i \in 0..made'
  BY SupervisorAssumption DEF InsertState, SupTypeOK, States
<1>2. resident' \subseteq States /\ looped' \subseteq States
  BY <1>1 DEF InsertState, SupTypeOK
<1>3. home' \in [Procs -> 0..made'] /\ st' \in [Tasks -> 0..made']
  BY <1>1 DEF SupTypeOK
<1>4. /\ status' \in [Procs -> Statuses]
      /\ \A p \in Procs : status[p] = "none" => status'[p] = "none"
  BY KillOnDropKeeps DEF SupTypeOK, Statuses
<1>5. SupTypeOK'
  BY <1>1, <1>2, <1>3, <1>4 DEF SupTypeOK, Places, Statuses
<1>6. \A i \in looped' : i <= made'
  BY <1>1, <1>2 DEF Counted, SupTypeOK, States
<1> QED
  BY <1>4, <1>5, <1>6 DEF Counted

\* The steps of run_resident keep types and counters.
LEMMA LoopTypes ==
    ASSUME IndInv, NEW t \in Loops, LoopStep(t)
    PROVE  SupTypeOK' /\ Counted'
<1> USE DEF IndInv
<1>0. /\ t \in Tasks /\ NoTask \notin Tasks
      /\ MaxStates \in Nat /\ MaxProcs \in Nat
      /\ made \in 0..MaxStates /\ spawned \in 0..MaxProcs
      /\ pc[t] \in {"spawn", "failed", "lock", "wait"} => st[t] \in 1..made /\ st[t] \in States
  BY SupervisorAssumption DEF SupTypeOK, Tasks, States, LockHolders
<1>1. CASE LoopTop(t)
  BY <1>0, <1>1, KillOnDropKeeps DEF Statuses, LoopTop, SupTypeOK, Counted
<1>2. CASE LoopSpawn(t) \/ StoreChild(t)
  <2> HIDE DEF IndInv
  <2> QED
    BY <1>0, <1>2, SpawnTypes, StoreTypes DEF LoopSpawn
<1>3. CASE LoopSpawnFails(t)
  BY <1>0, <1>3, BackoffCapped DEF LoopSpawnFails, SupTypeOK, Counted
<1>4. CASE FailedSleepEnds(t)
  BY <1>0, <1>4 DEF FailedSleepEnds, SupTypeOK, Counted
<1>5. CASE LoopWait(t)
  BY <1>0, <1>5, KillOnDropKeeps DEF Statuses, LoopWait, SupTypeOK, Counted
<1>6. CASE ChildExited(t)
  <2>1. 1 \in 1..MaxBackoff /\ backoff[st[t]] \in 1..MaxBackoff
    BY <1>0, <1>6, SupervisorAssumption DEF ChildExited, SupTypeOK
  <2>2. backoff' \in [States -> 1..MaxBackoff]
    BY <1>0, <1>6, <2>1, BackoffCapped DEF ChildExited, SupTypeOK
  <2> QED
    BY <1>0, <1>6, <2>2 DEF ChildExited, SupTypeOK, Counted
<1> QED
  BY <1>1, <1>2, <1>3, <1>4, <1>5, <1>6 DEF LoopStep

\* So do the calls of the host.
LEMMA CallerTypes ==
    ASSUME IndInv, NEW t \in Callers,
           \/ ensure_up(t) \/ CallerStep(t)
           \/ \E op \in {"unregister", "replace"} : CallStop(t, op)
    PROVE  SupTypeOK' /\ Counted'
<1> USE DEF IndInv
<1>0. /\ t \in Tasks /\ NoTask \notin Tasks
      /\ MaxStates \in Nat /\ MaxProcs \in Nat
      /\ made \in 0..MaxStates /\ spawned \in 0..MaxProcs
      /\ pc[t] \in {"ensure", "lockU", "lockR", "killU", "killR"} =>
            st[t] \in 1..made /\ st[t] \in States
  BY SupervisorAssumption DEF SupTypeOK, Tasks, States, LockHolders
<1>1. CASE ensure_up(t)
  BY <1>0, <1>1 DEF ensure_up, SupTypeOK, Counted
<1>2. CASE EnsureSpawns(t) \/ StoreChild(t)
  <2> HIDE DEF IndInv
  <2> QED
    BY <1>0, <1>2, SpawnTypes, StoreTypes DEF EnsureSpawns
<1>3. CASE \E op \in {"unregister", "replace"} : CallStop(t, op)
  BY <1>0, <1>3 DEF CallStop, SupTypeOK, Counted
<1>4. CASE StopLookup(t)
  BY <1>0, <1>4 DEF StopLookup, Then, SupTypeOK, Counted
<1>5. CASE StopTake(t)
  BY <1>0, <1>5, KillOnDropKeeps DEF Statuses, StopTake, Signalled, Then, SupTypeOK, Counted
<1>6. CASE StopKilled(t)
  BY <1>0, <1>6, KillOnDropKeeps DEF Statuses, StopKilled, Then, SupTypeOK, Counted
<1>7. CASE Remove(t)
  BY <1>0, <1>7, KillOnDropKeeps DEF Statuses, Remove, SupTypeOK, Counted
<1>8. CASE \E r \in BOOLEAN : InsertReplacement(t, r)
  <2> PICK r \in BOOLEAN : InsertReplacement(t, r)
    BY <1>8
  <2>1. /\ InsertState(r) /\ KillOnDrop(status)
        /\ UNCHANGED <<lock, child, backoff, spawned, home, fresh, st, taken>>
    BY DEF InsertReplacement
  <2>2. /\ looped' \in {looped, looped \union {made + 1}}
        /\ \/ pc' = [pc EXCEPT ![t] = "idle"]
           \/ \E l \in Loops : pc' = [pc EXCEPT ![t] = "idle", ![l] = "top"]
    BY DEF InsertReplacement
  <2>3. pc' \in [Tasks -> Places]
    BY <2>2 DEF SupTypeOK, Tasks, Places
  <2> HIDE DEF IndInv
  <2> QED
    BY <2>1, <2>2, <2>3, InsertStateTypes
<1>9. CASE EnsureReturns(t)
  BY <1>0, <1>9, KillOnDropKeeps DEF Statuses, EnsureReturns, SupTypeOK, Counted
<1> QED
  BY <1>1, <1>2, <1>3, <1>4, <1>5, <1>6, <1>7, <1>8, <1>9 DEF CallerStep

-----------------------------------------------------------------------------
(* Handles and the lock.                                                   *)

\* The steps of run_resident.
LEMMA LoopHandles ==
    ASSUME IndInv, NEW t \in Loops, LoopStep(t)
    PROVE  Handles'
<1> USE DEF IndInv
<1>0. /\ t \in Tasks /\ t \notin Callers /\ t # NoTask
      /\ Callers \subseteq Tasks /\ Loops \subseteq Tasks /\ NoTask \notin Tasks
      /\ made \in 0..MaxStates /\ MaxStates \in Nat
      /\ pc[t] \in {"spawn", "failed", "lock", "wait"} => st[t] \in 1..made /\ st[t] \in States
      /\ status \in [Procs -> Statuses]
  BY SupervisorAssumption DEF SupTypeOK, Tasks, States, LockHolders, Statuses
<1>1. CASE LoopSpawn(t) \/ StoreChild(t)
  <2> HIDE DEF IndInv
  <2> QED
    BY <1>0, <1>1, SpawnHandles, StoreHandles DEF LoopSpawn
<1>2. CASE LoopTop(t) \/ LoopSpawnFails(t) \/ FailedSleepEnds(t) \/ LoopWait(t) \/ ChildExited(t)
  <2>1. UNCHANGED <<child, home, fresh, taken>>
    BY <1>2 DEF LoopTop, LoopSpawnFails, FailedSleepEnds, LoopWait, ChildExited
  <2>2. /\ pc[t] \notin {"store", "killU", "killR"} /\ pc'[t] # "store"
        /\ \A c \in Tasks : c # t => pc'[c] = pc[c] /\ st'[c] = st[c]
    BY <1>0, <1>2 DEF LoopTop, LoopSpawnFails, FailedSleepEnds, LoopWait, ChildExited, SupTypeOK
  <2>3. status' = status \/ KillOnDrop(status)
    BY <1>2 DEF LoopTop, LoopSpawnFails, FailedSleepEnds, LoopWait, ChildExited
  <2>4. RunningHasHandle' /\ \A p \in Procs : status'[p] = "up" => status[p] = "up"
    <3>1. CASE status' = status
      BY <2>1, <3>1 DEF RunningHasHandle
    <3>2. CASE KillOnDrop(status)
      BY <1>0, <3>2, KillOnDropKeeps
    <3> QED
      BY <2>3, <3>1, <3>2
  <2>5. HandlesAtHome' /\ Newest'
    BY <2>1, <2>2, <2>4, HandlesKept
  <2>6. LockHolders'
    <3>1. CASE LoopTop(t)
      BY <1>0, <3>1 DEF LoopTop, LockHolders, SupTypeOK, States
    <3>2. CASE LoopSpawnFails(t)
      BY <1>0, <3>2 DEF LoopSpawnFails, LockHolders, SupTypeOK
    <3>3. CASE FailedSleepEnds(t)
      BY <1>0, <3>3 DEF FailedSleepEnds, LockHolders, SupTypeOK
    <3>4. CASE LoopWait(t)
      BY <1>0, <3>4 DEF LoopWait, LockHolders, SupTypeOK
    <3>5. CASE ChildExited(t)
      BY <1>0, <3>5 DEF ChildExited, LockHolders, SupTypeOK
    <3> QED
      BY <1>2, <3>1, <3>2, <3>3, <3>4, <3>5
  <2> QED
    BY <2>4, <2>5, <2>6 DEF Handles
<1> QED
  BY <1>1, <1>2 DEF LoopStep

\* stop_service takes the newest process of the AppState, as nobody is about to
\* replace it while the lock is free.
LEMMA TakeHandles ==
    ASSUME IndInv, NEW t \in Callers, StopTake(t)
    PROVE  Handles'
<1> USE DEF IndInv
<1> DEFINE i == st[t]
           p == child[i]
<1>0. /\ t \in Tasks /\ t \notin Loops /\ t # NoTask
      /\ Callers \subseteq Tasks /\ NoTask \notin Tasks
      /\ i \in States /\ pc[t] \in {"lockU", "lockR"} /\ lock[i] = NoTask
      /\ status \in [Procs -> Statuses]
      /\ \A c \in Callers : taken[c] # 0 => taken[c] \in Procs
      /\ p # 0 => p \in Procs
  <2>1. /\ \A k \in 0..spawned : k # 0 => k \in Procs
        /\ \A c \in Callers : taken[c] \in 0..spawned
        /\ \A k \in States : child[k] \in 0..spawned
    BY SupervisorAssumption DEF SupTypeOK, Procs
  <2> QED
    BY <2>1, SupervisorAssumption DEF StopTake, SupTypeOK, Tasks, LockHolders, Statuses
<1>1. /\ Signalled(i) \in [Procs -> Statuses] /\ KillOnDrop(Signalled(i))
      /\ \A q \in Procs : Signalled(i)[q] = "up" => status[q] = "up" /\ q # p
  BY <1>0 DEF Signalled, StopTake, Statuses
<1>2. RunningHasHandle' /\ \A q \in Procs : status'[q] = "up" => status[q] = "up" /\ q # p
  <2>1. RunningHasHandle' /\ \A q \in Procs : status'[q] = "up" => Signalled(i)[q] = "up"
    <3> HIDE DEF i
    <3> QED
      BY <1>1, KillOnDropKeeps
  <2> QED
    BY <1>1, <2>1
<1>3. LockHolders'
  BY <1>0 DEF StopTake, Then, LockHolders, SupTypeOK
<1>4. CASE p = 0
  <2>1. UNCHANGED <<child, home, fresh, taken>>
    BY <1>4 DEF StopTake
  <2>2. pc'[t] # "store" /\ \A c \in Tasks : c # t => pc'[c] = pc[c] /\ st'[c] = st[c]
    BY <1>0, <1>4 DEF StopTake, Then, SupTypeOK
  <2>3. HandlesAtHome' /\ Newest'
    BY <1>0, <1>2, <2>1, <2>2, HandlesKept
  <2> QED
    BY <1>2, <1>3, <2>3 DEF Handles
<1>5. CASE p # 0
  <2>1. /\ \A k \in States : child'[k] = IF k = i THEN 0 ELSE child[k]
        /\ \A c \in Callers : taken'[c] = IF c = t THEN p ELSE taken[c]
        /\ \A c \in Tasks : c # t => pc'[c] = pc[c]
        /\ pc'[t] \in {"killU", "killR"}
        /\ UNCHANGED <<home, fresh, st>>
    BY <1>0, <1>5 DEF StopTake, Then, SupTypeOK
  <2>2. home[p] = i
    BY <1>0, <1>5 DEF HandlesAtHome
  <2>3. \A q \in Procs, c \in Tasks : fresh[c] = q => home[q] # i
    <3>1. \A q \in Procs : q # 0
      BY DEF Procs
    <3> QED
      BY <1>0, <3>1 DEF HandlesAtHome, LockHolders
  <2>4. NewestOf(p)
    BY <1>0, <1>5, <2>2, <2>3 DEF NewestOf, Newest
  <2>5. fresh[t] = 0
    BY <1>0 DEF HandlesAtHome
  <2>8. i = st[t]
    OBVIOUS
  <2> HIDE DEF i, p
  <2>6. HandlesAtHome'
    BY <1>0, <1>2, <2>1, <2>2, <2>5, <2>8 DEF HandlesAtHome
  <2>7. Newest'
    BY <1>0, <2>1, <2>4 DEF Newest, NewestOf
  <2> QED
    BY <1>2, <1>3, <2>6, <2>7 DEF Handles
<1> QED
  BY <1>4, <1>5

\* stop_service lets go of the process it took, which has ended.
LEMMA KilledHandles ==
    ASSUME IndInv, NEW t \in Callers, StopKilled(t)
    PROVE  Handles'
<1> USE DEF IndInv
<1>0. /\ t \in Tasks /\ t \notin Loops /\ t # NoTask
      /\ Callers \subseteq Tasks /\ NoTask \notin Tasks
      /\ st[t] \in States /\ pc[t] \in {"killU", "killR"} /\ lock[st[t]] = t
      /\ status \in [Procs -> Statuses]
      /\ \A c \in Callers : taken[c] # 0 => taken[c] \in Procs
  <2>1. /\ \A k \in 0..spawned : k # 0 => k \in Procs
        /\ \A c \in Callers : taken[c] \in 0..spawned
    BY SupervisorAssumption DEF SupTypeOK, Procs
  <2> QED
    BY <2>1, SupervisorAssumption DEF StopKilled, SupTypeOK, Tasks, LockHolders, Statuses
<1>1. RunningHasHandle' /\ \A q \in Procs : status'[q] = "up" => status[q] = "up"
  BY <1>0, KillOnDropKeeps DEF StopKilled
<1>2. /\ \A c \in Callers : taken'[c] = IF c = t THEN 0 ELSE taken[c]
      /\ \A c \in Tasks : c # t => pc'[c] = pc[c] /\ st'[c] = st[c]
      /\ pc'[t] \in {"removeU", "removeR"}
      /\ \A k \in States : lock'[k] = IF k = st[t] THEN NoTask ELSE lock[k]
      /\ UNCHANGED <<child, home, fresh>>
  BY <1>0 DEF StopKilled, Then, SupTypeOK
<1>3. HandlesAtHome'
  BY <1>0, <1>1, <1>2 DEF HandlesAtHome
<1>4. LockHolders'
  BY <1>0, <1>2 DEF LockHolders
<1>5. Newest'
  BY <1>2 DEF Newest, NewestOf
<1> QED
  BY <1>1, <1>3, <1>4, <1>5 DEF Handles

\* The calls of the host.
LEMMA CallerHandles ==
    ASSUME IndInv, NEW t \in Callers,
           \/ ensure_up(t) \/ CallerStep(t)
           \/ \E op \in {"unregister", "replace"} : CallStop(t, op)
    PROVE  Handles'
<1> USE DEF IndInv
<1>0. /\ t \in Tasks /\ t \notin Loops /\ t # NoTask
      /\ Callers \subseteq Tasks /\ Loops \subseteq Tasks /\ NoTask \notin Tasks
      /\ status \in [Procs -> Statuses]
      /\ apps \in 0..made /\ (apps # 0 => apps \in States)
  BY SupervisorAssumption DEF SupTypeOK, Tasks, States, Statuses
<1>1. CASE EnsureSpawns(t) \/ StoreChild(t) \/ StopTake(t) \/ StopKilled(t)
  <2> HIDE DEF IndInv
  <2> QED
    BY <1>0, <1>1, SpawnHandles, StoreHandles, TakeHandles, KilledHandles DEF EnsureSpawns
<1>2. CASE \/ ensure_up(t) \/ EnsureReturns(t) \/ StopLookup(t) \/ Remove(t)
           \/ \E op \in {"unregister", "replace"} : CallStop(t, op)
  <2>1. UNCHANGED <<child, home, fresh, taken, lock>>
    BY <1>2 DEF ensure_up, EnsureReturns, StopLookup, Remove, CallStop
  <2>2. /\ pc[t] \notin {"store", "killU", "killR"} /\ pc'[t] # "store"
        /\ \A c \in Tasks : c # t => pc'[c] = pc[c] /\ st'[c] = st[c]
    BY <1>0, <1>2 DEF ensure_up, EnsureReturns, StopLookup, Remove, CallStop, Then, SupTypeOK
  <2>3. status' = status \/ KillOnDrop(status)
    BY <1>2 DEF ensure_up, EnsureReturns, StopLookup, Remove, CallStop
  <2>4. RunningHasHandle' /\ \A p \in Procs : status'[p] = "up" => status[p] = "up"
    <3>1. CASE status' = status
      BY <2>1, <3>1 DEF RunningHasHandle
    <3>2. CASE KillOnDrop(status)
      BY <1>0, <3>2, KillOnDropKeeps
    <3> QED
      BY <2>3, <3>1, <3>2
  <2>5. HandlesAtHome' /\ Newest'
    BY <2>1, <2>2, <2>4, HandlesKept
  <2>6. LockHolders'
    <3>1. CASE ensure_up(t) \/ EnsureReturns(t)
      BY <1>0, <3>1 DEF ensure_up, EnsureReturns, LockHolders, SupTypeOK
    <3>2. CASE StopLookup(t)
      BY <1>0, <3>2 DEF StopLookup, Then, LockHolders, SupTypeOK
    <3>3. CASE Remove(t) \/ \E op \in {"unregister", "replace"} : CallStop(t, op)
      BY <1>0, <3>3 DEF Remove, CallStop, LockHolders, SupTypeOK
    <3> QED
      BY <1>2, <3>1, <3>2, <3>3
  <2> QED
    BY <2>4, <2>5, <2>6 DEF Handles
<1>3. CASE \E r \in BOOLEAN : InsertReplacement(t, r)
  <2>1. RunningHasHandle' /\ \A p \in Procs : status'[p] = "up" => status[p] = "up"
    BY <1>0, <1>3, KillOnDropKeeps DEF InsertReplacement
  <2>2. /\ pc[t] = "insert"
        /\ \/ pc' = [pc EXCEPT ![t] = "idle"]
           \/ \E l \in Loops : pc[l] = "free" /\ pc' = [pc EXCEPT ![t] = "idle", ![l] = "top"]
        /\ UNCHANGED <<lock, child, home, fresh, st, taken>>
    BY <1>3 DEF InsertReplacement, FreeLoop
  <2>3. \A c \in Tasks : \/ pc'[c] = pc[c]
                         \/ pc[c] \in {"insert", "free"} /\ pc'[c] \in {"idle", "top"}
    <3>0. DOMAIN pc = Tasks
      BY DEF SupTypeOK
    <3>1. CASE pc' = [pc EXCEPT ![t] = "idle"]
      BY <1>0, <2>2, <3>0, <3>1
    <3>2. CASE \E l \in Loops : pc[l] = "free" /\ pc' = [pc EXCEPT ![t] = "idle", ![l] = "top"]
      BY <1>0, <2>2, <3>0, <3>2
    <3> QED
      BY <2>2, <3>1, <3>2
  <2>4. HandlesAtHome' /\ Newest'
    BY <2>1, <2>2, <2>3, HandlesKept
  <2>5. LockHolders'
    BY <1>0, <2>2, <2>3 DEF LockHolders
  <2> QED
    BY <2>1, <2>4, <2>5 DEF Handles
<1> QED
  BY <1>1, <1>2, <1>3 DEF CallerStep

-----------------------------------------------------------------------------
(* Loops of resident apps.                                                 *)

\* A loop's step leaves it tending the current AppState, or another does, or a
\* stop is under way.
LEMMA LoopTended ==
    ASSUME IndInv, NEW t \in Loops, LoopStep(t)
    PROVE  Tended'
<1> USE DEF IndInv
<1>0. /\ t \in Tasks /\ t \notin Callers /\ Callers \subseteq Tasks /\ Loops \subseteq Tasks
      /\ pc \in [Tasks -> Places]
      /\ st \in [Tasks -> 0..made]
      /\ pc[t] \in {"spawn", "store", "failed", "lock", "wait"} => st[t] \in States
      /\ pc[t] = "store" => fresh[t] # 0
      /\ child \in [States -> 0..spawned] /\ spawned \in Nat
  BY SupervisorAssumption DEF SupTypeOK, Tasks, LockHolders, HandlesAtHome, Places
<1>1. /\ UNCHANGED <<apps, resident, looped>>
      /\ \A c \in Tasks : c # t => pc'[c] = pc[c] /\ st'[c] = st[c]
  BY <1>0
  DEF LoopStep, LoopTop, LoopSpawn, LoopSpawnFails, FailedSleepEnds, LoopWait, ChildExited,
      Spawn, StoreChild
<1>2. apps \in States => (child[apps] # 0 => child'[apps] # 0)
  BY <1>0
  DEF LoopStep, LoopTop, LoopSpawn, LoopSpawnFails, FailedSleepEnds, LoopWait, ChildExited,
      Spawn, StoreChild
<1>3. \A l \in Loops : l # t /\ Tends(l) /\ apps \in States => Tends(l)'
  BY <1>0, <1>1, <1>2 DEF Tends
<1>4. Tends(t) /\ apps \in States => Tends(t)'
  <2> SUFFICES ASSUME Tends(t), apps \in States PROVE Tends(t)'
    OBVIOUS
  <2>0. apps # 0
    BY DEF States
  <2>1. CASE LoopTop(t)
    BY <1>0, <2>0, <2>1 DEF LoopTop, Tends
  <2>2. CASE LoopSpawn(t)
    BY <1>0, <2>2 DEF LoopSpawn, Spawn, Tends
  <2>3. CASE LoopSpawnFails(t)
    BY <1>0, <2>3 DEF LoopSpawnFails, Tends
  <2>4. CASE FailedSleepEnds(t)
    BY <1>0, <2>4 DEF FailedSleepEnds, Tends
  <2>5. CASE LoopWait(t)
    BY <1>0, <2>5 DEF LoopWait, Tends
  <2>6. CASE ChildExited(t)
    BY <1>0, <2>6 DEF ChildExited, Tends
  <2>7. CASE StoreChild(t)
    BY <1>0, <2>7 DEF StoreChild, Tends
  <2> QED
    BY <2>1, <2>2, <2>3, <2>4, <2>5, <2>6, <2>7 DEF LoopStep
<1>5. apps \in resident => apps \in States
  BY DEF SupTypeOK
<1> QED
  BY <1>0, <1>1, <1>3, <1>4, <1>5 DEF Tended

\* A call of the host takes the child away only from a place that ends in the
\* removal of the AppState.
LEMMA CallerTended ==
    ASSUME IndInv, NEW t \in Callers,
           \/ ensure_up(t) \/ CallerStep(t)
           \/ \E op \in {"unregister", "replace"} : CallStop(t, op)
    PROVE  Tended'
<1> USE DEF IndInv
<1> DEFINE Stopping == {"lockU", "lockR", "killU", "killR", "removeU", "removeR"}
<1>0. /\ t \in Tasks /\ t \notin Loops /\ Callers \subseteq Tasks /\ Loops \subseteq Tasks
      /\ pc \in [Tasks -> Places]
      /\ st \in [Tasks -> 0..made]
      /\ pc[t] \in {"ensure", "store", "lockU", "lockR", "killU", "killR"} => st[t] \in States
      /\ pc[t] = "store" => fresh[t] # 0
      /\ child \in [States -> 0..spawned] /\ spawned \in Nat
      /\ apps \in resident => apps \in States
      /\ 0 \notin States
  <2>1. 0 \notin States /\ t \in Tasks /\ t \notin Loops
    BY SupervisorAssumption DEF States, Tasks
  <2>2. spawned \in Nat
    BY SupervisorAssumption DEF SupTypeOK
  <2> QED
    BY <2>1, <2>2 DEF SupTypeOK, Tasks, LockHolders, HandlesAtHome, Places
<1>1. CASE \/ ensure_up(t) \/ EnsureSpawns(t) \/ StoreChild(t) \/ EnsureReturns(t)
           \/ \E op \in {"unregister", "replace"} : CallStop(t, op)
  <2>1. /\ UNCHANGED <<apps, resident, looped>> /\ pc[t] \notin Stopping
        /\ \A c \in Tasks : c # t => pc'[c] = pc[c] /\ st'[c] = st[c]
    BY <1>0, <1>1 DEF ensure_up, EnsureSpawns, EnsureReturns, CallStop, Spawn, StoreChild
  <2>2. apps \in States => (child[apps] # 0 => child'[apps] # 0)
    BY <1>0, <1>1 DEF ensure_up, EnsureSpawns, EnsureReturns, CallStop, Spawn, StoreChild
  <2>3. \A l \in Loops : Tends(l) /\ apps \in States => Tends(l)'
    BY <1>0, <2>1, <2>2 DEF Tends
  <2> QED
    BY <1>0, <2>1, <2>3 DEF Tended
<1>2. CASE StopLookup(t) \/ StopTake(t) \/ StopKilled(t)
  <2>1. /\ UNCHANGED <<apps, resident, looped>> /\ pc'[t] \in Stopping
    BY <1>0, <1>2 DEF StopLookup, StopTake, StopKilled, Then
  <2> QED
    BY <2>1 DEF Tended
<1>3. CASE Remove(t)
  BY <1>0, <1>3 DEF Remove, Tended, SupTypeOK
<1>4. CASE \E r \in BOOLEAN : InsertReplacement(t, r)
  <2> PICK r \in BOOLEAN : InsertReplacement(t, r)
    BY <1>4
  <2>1. apps' = made + 1 /\ made \in Nat /\ made + 1 \notin looped
    BY SupervisorAssumption DEF InsertReplacement, InsertState, Counted, SupTypeOK
  <2>2. CASE r
    <3> PICK l \in Loops : pc' = [pc EXCEPT ![t] = "idle", ![l] = "top"]
      BY <2>2 DEF InsertReplacement
    <3>1. pc'[l] = "top"
      BY <1>0
    <3> QED
      BY <3>1 DEF Tended, Tends
  <2>3. CASE ~r
    BY <2>1, <2>3 DEF InsertReplacement, Tended
  <2> QED
    BY <2>2, <2>3
<1> QED
  BY <1>1, <1>2, <1>3, <1>4 DEF CallerStep

-----------------------------------------------------------------------------
(* Every step.                                                             *)

\* Registration, the start of loops and the end of processes.
LEMMA OtherSteps ==
    ASSUME IndInv,
           \/ \E r \in BOOLEAN : register(r)
           \/ \E t \in Loops : start_all_resident(t)
           \/ \E p \in Procs : ProcessDies(p)
           \/ \E p \in Procs, how \in {"clean", "crashed"} : ProcessExits(p, how)
    PROVE  IndInv'
<1>1. CASE \E r \in BOOLEAN : register(r)
  <2> PICK r \in BOOLEAN : register(r)
    BY <1>1
  <2>1. /\ InsertState(r) /\ KillOnDrop(status)
        /\ UNCHANGED <<lock, child, backoff, spawned, home, fresh, pc, st, taken, looped>>
    BY DEF register
  <2>2. pc' \in [Tasks -> Places]
    BY <2>1 DEF IndInv, SupTypeOK, Places
  <2>3. SupTypeOK' /\ Counted'
    BY <2>1, <2>2, InsertStateTypes
  <2>4. RunningHasHandle' /\ \A p \in Procs : status'[p] = "up" => status[p] = "up"
    BY <2>1, KillOnDropKeeps DEF IndInv, SupTypeOK, Statuses
  <2>5. HandlesAtHome' /\ Newest'
    BY <2>1, <2>4, HandlesKept DEF IndInv
  <2>7. LockHolders'
    BY <2>1 DEF IndInv, LockHolders
  <2>6. Tended'
    <3>1. apps' = made + 1 /\ made \in Nat /\ \A i \in looped : i <= made
      BY <2>1, SupervisorAssumption DEF InsertState, IndInv, Counted, SupTypeOK
    <3>2. made + 1 \notin looped
      BY <3>1
    <3> QED
      BY <2>1, <3>1, <3>2 DEF Tended
  <2> QED
    BY <2>3, <2>4, <2>5, <2>6, <2>7 DEF IndInv
<1>2. CASE \E t \in Loops : start_all_resident(t)
  <2> PICK t \in Loops : start_all_resident(t)
    BY <1>2
  <2>1. /\ pc[t] = "free" /\ pc' = [pc EXCEPT ![t] = "top"] /\ t \in Tasks /\ t \notin Callers
        /\ apps \in resident /\ looped' = looped \union {apps} /\ Callers \subseteq Tasks
        /\ Loops \subseteq Tasks
        /\ UNCHANGED <<apps, made, resident, lock, child, backoff, spawned, home, status, fresh,
                       st, taken>>
    BY SupervisorAssumption DEF start_all_resident, FreeLoop, Tasks
  <2>2. SupTypeOK' /\ Counted'
    BY <2>1, SupervisorAssumption DEF IndInv, SupTypeOK, Counted
  <2>3. RunningHasHandle' /\ LockHolders'
    BY <2>1 DEF IndInv, SupTypeOK, RunningHasHandle, LockHolders
  <2>5. \A c \in Tasks : pc'[c] = IF c = t THEN "top" ELSE pc[c]
    BY <2>1 DEF IndInv, SupTypeOK
  <2>6. HandlesAtHome' /\ Newest'
    BY <2>1, <2>5, HandlesKept DEF IndInv
  <2>4. Tended'
    BY <2>1 DEF IndInv, SupTypeOK, Tended, Tends
  <2> QED
    BY <2>2, <2>3, <2>4, <2>6 DEF IndInv
<1>3. CASE \/ \E p \in Procs : ProcessDies(p)
           \/ \E p \in Procs, how \in {"clean", "crashed"} : ProcessExits(p, how)
  <2> PICK p \in Procs, how \in {"clean", "crashed", "gone"} :
             /\ status[p] \in {"up", "dying"} /\ status' = [status EXCEPT ![p] = how]
             /\ UNCHANGED <<apps, made, resident, lock, child, backoff, spawned, home, fresh, pc,
                            st, taken, looped>>
    BY <1>3 DEF ProcessDies, ProcessExits
  <2>1. /\ status' \in [Procs -> Statuses]
        /\ \A q \in Procs : (status'[q] = "up" => status[q] = "up")
                          /\ (status[q] = "none" => status'[q] = "none")
    BY DEF IndInv, SupTypeOK, Statuses
  <2>2. SupTypeOK' /\ Counted'
    BY <2>1 DEF IndInv, SupTypeOK, Counted, Statuses
  <2>3. HandlesAtHome' /\ Newest'
    BY <2>1, HandlesKept DEF IndInv
  <2>4. RunningHasHandle' /\ LockHolders' /\ Tended'
    BY <2>1 DEF IndInv, RunningHasHandle, LockHolders, Tended, Tends
  <2> QED
    BY <2>2, <2>3, <2>4 DEF IndInv
<1> QED
  BY <1>1, <1>2, <1>3

LEMMA StepInv == IndInv /\ [Next]_supVars => IndInv'
<1> SUFFICES ASSUME IndInv, [Next]_supVars PROVE IndInv'
  OBVIOUS
<1>1. CASE UNCHANGED supVars
  BY <1>1
  DEF supVars, IndInv, SupTypeOK, Counted, HandlesAtHome, RunningHasHandle, LockHolders, Newest,
      NewestOf, Tended, Tends
<1>2. CASE \E t \in Loops : LoopStep(t)
  BY <1>2, LoopTypes, LoopHandles, LoopTended DEF IndInv, Handles
<1>3. CASE \E t \in Callers : \/ ensure_up(t) \/ CallerStep(t)
                              \/ \E op \in {"unregister", "replace"} : CallStop(t, op)
  BY <1>3, CallerTypes, CallerHandles, CallerTended DEF IndInv, Handles
<1> QED
  BY <1>1, <1>2, <1>3, OtherSteps DEF Next

-----------------------------------------------------------------------------
(* The theorems.                                                           *)

\* The inductive invariant holds of every behaviour of the supervisor.
THEOREM SupervisorInvariant == Spec => []IndInv
<1>1. Init => IndInv
  BY InitInv
<1>2. IndInv /\ [Next]_supVars => IndInv'
  BY StepInv
<1> QED
  BY <1>1, <1>2, PTL DEF Spec

\* The supervisor's state has its types; the backoff never passes its cap,
\* whatever the cap is.
THEOREM SupervisorTypeCorrect == Spec => []SupTypeOK
<1>1. IndInv => SupTypeOK
  BY DEF IndInv
<1> QED
  BY <1>1, SupervisorInvariant, PTL

\* However loops, ensure_up and stops of any number of tasks interleave, an older
\* process of an AppState runs beside a newer one only while spawn_once is about to
\* drop its handle, or once it has been signalled by that drop: never beside a process
\* that was spawned while stop_service waited for the older one.
THEOREM AppsRunOnce == Spec => []OneProcessPerApp
<1>1. IndInv => OneProcessPerApp
  <2> SUFFICES ASSUME IndInv, NEW p \in Procs, NEW q \in Procs,
                      p < q, home[p] = home[q], Running(p), Running(q)
               PROVE  Dropped(p) \/ \E t \in Tasks : Replaces(t, p, q)
    BY DEF OneProcessPerApp
  <2> USE DEF IndInv
  <2>0. p # 0 /\ q # 0 /\ p \in Nat /\ q \in Nat /\ ~(q <= p)
    BY DEF Procs
  <2>1. ~NewestOf(p)
    BY <2>0 DEF NewestOf
  <2>2. CASE status[p] = "dying"
    BY <2>0, <2>1, <2>2 DEF Dropped, Newest
  <2>3. CASE status[p] = "up"
    <3>1. PICK i \in States : child[i] = p
      BY <2>0, <2>1, <2>3 DEF RunningHasHandle, Newest
    <3>2. home[q] = i
      BY <2>0, <3>1 DEF HandlesAtHome
    <3>3. PICK t \in Tasks : fresh[t] = q
      BY <2>0, <3>1, <3>2 DEF Newest
    <3>4. lock[i] = t
      BY <2>0, <3>2, <3>3 DEF HandlesAtHome, LockHolders
    <3> QED
      BY <3>1, <3>2, <3>3, <3>4 DEF Replaces
  <2> QED
    BY <2>2, <2>3 DEF Running
<1> QED
  BY <1>1, SupervisorInvariant, PTL

\* A registered resident app for which a loop was started has one, or is being
\* stopped, through any number of replacements.
THEOREM ResidentsAreTended == Spec => []ResidentHasLoop
<1>1. IndInv => ResidentHasLoop
  BY DEF IndInv, Tended, Tends, ResidentHasLoop
<1> QED
  BY <1>1, SupervisorInvariant, PTL

-----------------------------------------------------------------------------
(* The loop that waits for its child.                                      *)

\* A loop that waits has a child to wait for.
WaitersHaveChild == \A t \in Loops : pc[t] = "wait" => child[st[t]] # 0

\* What a step may do to a loop t that waits: nothing, or see its child's end.
HoldsOn(t) ==
    pc[t] = "wait" =>
        \/ /\ pc'[t] = "wait" /\ st'[t] = st[t]
           /\ child'[st[t]] = child[st[t]] /\ child[st[t]] # 0
        \/ pc'[t] = "top" /\ ~Running(child[st[t]])

\* Nobody takes or replaces the child a loop is waiting for, and no caller that is
\* stopping its AppState gets on, until the child has exited.
LoopsHoldChild ==
    [][/\ \A l \in Loops : HoldsOn(l)
       /\ \A l \in Loops, t \in Callers :
             pc[l] = "wait" /\ pc[t] \in {"lockU", "lockR"} /\ st[t] = st[l] =>
                pc'[t] = pc[t]]_supVars

\* Steps that leave all children and all other tasks alone.
LEMMA HoldsByFrame ==
    ASSUME NEW l \in Loops, WaitersHaveChild,
           pc[l] = "wait" => pc'[l] = "wait" /\ st'[l] = st[l] /\ child'[st[l]] = child[st[l]]
    PROVE  HoldsOn(l)
BY DEF WaitersHaveChild, HoldsOn

\* Every step: the holder of the lock keeps everybody else from the child.
LEMMA HoldStep ==
    ASSUME IndInv, WaitersHaveChild, [Next]_supVars, NEW l \in Loops
    PROVE  HoldsOn(l)
<1> USE DEF IndInv
<1>0. /\ pc[l] = "wait" => lock[st[l]] = l /\ st[l] \in States
      /\ l # NoTask /\ l \notin Callers /\ l \in Tasks
  BY SupervisorAssumption DEF LockHolders, Tasks
<1>1. CASE UNCHANGED supVars
  BY <1>1, HoldsByFrame DEF supVars
<1>2. ASSUME NEW r \in BOOLEAN, register(r) PROVE HoldsOn(l)
  BY <1>2, HoldsByFrame DEF register
<1>3. ASSUME NEW t \in Loops, start_all_resident(t) PROVE HoldsOn(l)
  BY <1>3, HoldsByFrame DEF start_all_resident, FreeLoop, SupTypeOK
<1>4. ASSUME NEW p \in Procs, NEW how, ProcessDies(p) \/ ProcessExits(p, how) PROVE HoldsOn(l)
  BY <1>4, HoldsByFrame DEF ProcessDies, ProcessExits
<1>8. ASSUME NEW t \in Tasks, StoreChild(t) PROVE HoldsOn(l)
  <2>1. pc[l] = "wait" => st[t] # st[l] /\ t # l
    BY <1>0, <1>8 DEF StoreChild, LockHolders
  <2>2. /\ pc[l] = "wait" => pc'[l] = pc[l] /\ st'[l] = st[l]
        /\ child' = [child EXCEPT ![st[t]] = fresh[t]]
    BY <1>0, <1>8, <2>1 DEF StoreChild, SupTypeOK
  <2> QED
    BY <1>0, <2>1, <2>2, HoldsByFrame DEF SupTypeOK
<1>5. ASSUME NEW t \in Loops, LoopStep(t) PROVE HoldsOn(l)
  <2>1. CASE LoopTop(t) \/ FailedSleepEnds(t) \/ LoopSpawnFails(t) \/ LoopSpawn(t)
    BY <1>0, <2>1, HoldsByFrame
    DEF LoopTop, FailedSleepEnds, LoopSpawnFails, LoopSpawn, Spawn, SupTypeOK
  <2>2. CASE StoreChild(t)
    BY <1>8, <2>2 DEF Tasks
  <2>3. CASE LoopWait(t)
    <3>1. /\ \E x : pc' = [pc EXCEPT ![t] = x]
          /\ st' = st \/ st' = [st EXCEPT ![t] = 0]
          /\ pc[t] = "lock" /\ child' = child
      BY <2>3 DEF LoopWait
    <3> QED
      BY <1>0, <3>1, HoldsByFrame DEF SupTypeOK
  <2>4. CASE ChildExited(t) /\ t # l
    BY <2>4, HoldsByFrame DEF ChildExited, SupTypeOK
  <2>5. CASE ChildExited(t) /\ t = l
    BY <1>0, <2>5 DEF ChildExited, SupTypeOK, HoldsOn
  <2> QED
    BY <1>5, <2>1, <2>2, <2>3, <2>4, <2>5 DEF LoopStep
<1>6. ASSUME NEW t \in Callers, NEW op, ensure_up(t) \/ CallStop(t, op) PROVE HoldsOn(l)
  <2>1. t # l /\ t \in Tasks
    BY <1>0 DEF Tasks
  <2>2. /\ \E x : pc' = [pc EXCEPT ![t] = x]
        /\ st' = st \/ st' = [st EXCEPT ![t] = apps]
        /\ child' = child
    BY <1>6 DEF ensure_up, CallStop
  <2> QED
    BY <1>0, <2>1, <2>2, HoldsByFrame DEF SupTypeOK
<1>7. ASSUME NEW t \in Callers, CallerStep(t) PROVE HoldsOn(l)
  <2>0. t # l /\ t \in Tasks
    BY <1>0 DEF Tasks
  <2>1. CASE EnsureSpawns(t) \/ EnsureReturns(t)
    BY <1>0, <2>0, <2>1, HoldsByFrame DEF EnsureSpawns, EnsureReturns, Spawn, SupTypeOK
  <2>7. CASE StoreChild(t)
    BY <1>8, <2>0, <2>7
  <2>2. CASE StopLookup(t)
    BY <1>0, <2>0, <2>2, HoldsByFrame DEF StopLookup, Then, SupTypeOK
  <2>3. CASE StopTake(t)
    <3>1. pc[l] = "wait" => st[t] # st[l]
      BY <1>0, <2>3 DEF StopTake
    <3>2. /\ pc'[l] = pc[l] /\ st'[l] = st[l]
          /\ child' = child \/ child' = [child EXCEPT ![st[t]] = 0]
      BY <1>0, <2>0, <2>3 DEF StopTake, Then, SupTypeOK
    <3> QED
      BY <1>0, <3>1, <3>2, HoldsByFrame DEF SupTypeOK
  <2>4. CASE StopKilled(t)
    BY <1>0, <2>0, <2>4, HoldsByFrame DEF StopKilled, Then, SupTypeOK
  <2>5. CASE Remove(t)
    BY <1>0, <2>0, <2>5, HoldsByFrame DEF Remove, SupTypeOK
  <2>6. ASSUME NEW r \in BOOLEAN, InsertReplacement(t, r) PROVE HoldsOn(l)
    <3>1. UNCHANGED <<child, st>>
      BY <2>6 DEF InsertReplacement
    <3>2. pc[l] = "wait" => pc'[l] = "wait"
      <4>1. CASE r
        <5> PICK m \in Loops : FreeLoop(m) /\ pc' = [pc EXCEPT ![t] = "idle", ![m] = "top"]
          BY <2>6, <4>1 DEF InsertReplacement
        <5>1. pc[l] = "wait" => m # l
          BY DEF FreeLoop
        <5> QED
          BY <1>0, <2>0, <5>1 DEF SupTypeOK
      <4>2. CASE ~r
        BY <1>0, <2>0, <2>6, <4>2 DEF InsertReplacement, SupTypeOK
      <4> QED
        BY <4>1, <4>2
    <3> QED
      BY <3>1, <3>2, HoldsByFrame
  <2> QED
    BY <1>7, <2>1, <2>2, <2>3, <2>4, <2>5, <2>6, <2>7 DEF CallerStep
<1> QED
  BY <1>1, <1>2, <1>3, <1>4, <1>5, <1>6, <1>7 DEF Next

\* A loop starts to wait only for a child that is there.
LEMMA WaitersHaveChildStep ==
    IndInv /\ WaitersHaveChild /\ [Next]_supVars => WaitersHaveChild'
<1> SUFFICES ASSUME IndInv, WaitersHaveChild, [Next]_supVars, NEW l \in Loops, pc'[l] = "wait"
             PROVE  child'[st'[l]] # 0
  BY DEF WaitersHaveChild
<1>0. SupTypeOK /\ l \in Tasks /\ l \notin Callers
  BY SupervisorAssumption DEF IndInv, Tasks
<1>1. CASE pc[l] = "wait"
  BY <1>1, HoldStep DEF HoldsOn
<1>2. CASE pc[l] # "wait"
  <2>1. ASSUME NEW t \in Loops, LoopStep(t) PROVE child'[st'[l]] # 0
    <3>1. t = l /\ LoopWait(t)
      BY <1>0, <1>2, <2>1
      DEF LoopStep, LoopTop, LoopSpawn, LoopSpawnFails, FailedSleepEnds, LoopWait, ChildExited,
          Spawn, StoreChild, SupTypeOK
    <3> QED
      BY <1>0, <3>1 DEF LoopWait, SupTypeOK
  <2>2. ASSUME NEW t \in Callers, \/ ensure_up(t) \/ CallerStep(t)
                                  \/ \E op \in {"unregister", "replace"} : CallStop(t, op)
        PROVE  FALSE
    <3>1. t # l
      BY <1>0
    <3>2. CASE ensure_up(t) \/ \E op \in {"unregister", "replace"} : CallStop(t, op)
      BY <1>0, <1>2, <3>1, <3>2 DEF ensure_up, CallStop, SupTypeOK
    <3>3. CASE \/ EnsureSpawns(t) \/ StoreChild(t) \/ EnsureReturns(t)
               \/ StopLookup(t) \/ StopTake(t) \/ StopKilled(t) \/ Remove(t)
      BY <1>0, <1>2, <3>1, <3>3
      DEF EnsureSpawns, EnsureReturns, Spawn, StoreChild, StopLookup, StopTake, StopKilled,
          Remove, Then, SupTypeOK
    <3>4. CASE \E r \in BOOLEAN : InsertReplacement(t, r)
      BY <1>0, <1>2, <3>1, <3>4 DEF InsertReplacement, SupTypeOK
    <3> QED
      BY <2>2, <3>2, <3>3, <3>4 DEF CallerStep
  <2>3. ASSUME NEW t \in Loops, start_all_resident(t) PROVE FALSE
    BY <1>0, <1>2, <2>3 DEF start_all_resident, SupTypeOK
  <2>4. ASSUME UNCHANGED pc PROVE FALSE
    BY <1>2, <2>4
  <2> QED
    BY <2>1, <2>2, <2>3, <2>4 DEF Next, register, ProcessDies, ProcessExits, supVars
<1> QED
  BY <1>1, <1>2

\* A caller that is about to take the child of AppState i cannot while a loop waits
\* for it.
LEMMA StopsWait ==
    ASSUME IndInv, [Next]_supVars, NEW l \in Loops, NEW t \in Callers,
           pc[l] = "wait", pc[t] \in {"lockU", "lockR"}, st[t] = st[l]
    PROVE  pc'[t] = pc[t]
<1>0. /\ SupTypeOK /\ lock[st[l]] = l /\ l # NoTask
      /\ t \in Tasks /\ t \notin Loops
  BY SupervisorAssumption DEF IndInv, LockHolders, Tasks
<1>1. ASSUME NEW u \in Loops, start_all_resident(u) \/ LoopStep(u) PROVE pc'[t] = pc[t]
  <2>1. \E x : pc' = [pc EXCEPT ![u] = x]
    BY <1>1
    DEF start_all_resident, LoopStep, LoopTop, LoopSpawn, LoopSpawnFails, FailedSleepEnds, LoopWait,
        ChildExited, Spawn, StoreChild
  <2> QED
    BY <1>0, <2>1 DEF SupTypeOK
<1>2. ASSUME NEW u \in Callers, \/ ensure_up(u) \/ CallerStep(u)
                                \/ \E op \in {"unregister", "replace"} : CallStop(u, op)
      PROVE  pc'[t] = pc[t]
  <2>1. u # t
    BY <1>0, <1>2
    DEF ensure_up, CallerStep, CallStop, EnsureSpawns, EnsureReturns, StoreChild, StopLookup,
        StopTake, StopKilled, Remove, InsertReplacement
  <2>2. CASE ensure_up(u) \/ \E op \in {"unregister", "replace"} : CallStop(u, op)
    BY <1>0, <2>1, <2>2 DEF ensure_up, CallStop, SupTypeOK
  <2>3. CASE \/ EnsureSpawns(u) \/ StoreChild(u) \/ EnsureReturns(u)
           \/ StopLookup(u) \/ StopTake(u) \/ StopKilled(u) \/ Remove(u)
    BY <1>0, <2>1, <2>3
    DEF EnsureSpawns, EnsureReturns, Spawn, StoreChild, StopLookup, StopTake, StopKilled,
          Remove, Then, SupTypeOK
  <2>4. ASSUME NEW r \in BOOLEAN, InsertReplacement(u, r) PROVE pc'[t] = pc[t]
    BY <1>0, <2>1, <2>4 DEF InsertReplacement, SupTypeOK
  <2> QED
    BY <1>2, <2>2, <2>3, <2>4 DEF CallerStep
<1>3. ASSUME UNCHANGED pc PROVE pc'[t] = pc[t]
  BY <1>3
<1> QED
  BY <1>1, <1>2, <1>3 DEF Next, register, ProcessDies, ProcessExits, supVars

\* The safety half of CrashesRestart, and why StopsFinish fails: run_resident holds
\* the child lock while it waits, so the child stays its own until it exits, no
\* ensure_up replaces it and no stop_service gets past the lock before that.
THEOREM WaitingLoopsHoldChild == Spec => LoopsHoldChild
<1>1. Init => WaitersHaveChild
  BY DEF Init, WaitersHaveChild, Tasks
<1>2. IndInv /\ WaitersHaveChild /\ [Next]_supVars =>
        [/\ \A l \in Loops : HoldsOn(l)
         /\ \A l \in Loops, t \in Callers :
               pc[l] = "wait" /\ pc[t] \in {"lockU", "lockR"} /\ st[t] = st[l] =>
                  pc'[t] = pc[t]]_supVars
  BY HoldStep, StopsWait
<1> QED
  BY <1>1, <1>2, WaitersHaveChildStep, SupervisorInvariant, PTL DEF Spec, LoopsHoldChild

=============================================================================
