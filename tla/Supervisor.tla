----------------------------- MODULE Supervisor -----------------------------
(***************************************************************************)
(* The process supervisor (crates/supervisor/src/lib.rs) for one service.  *)
(*                                                                         *)
(* AppStates are numbered in the order they are made; `apps` holds the     *)
(* current one, tasks hold clones of the Arc.  A task runs without         *)
(* interruption from one await (a lock, a sleep, the end of a process) to  *)
(* the next, except that the maps may change between two of its accesses,  *)
(* and that a process runs from cmd.spawn() on, before its Child is stored *)
(* in the place of the one before.  Dropping a Child signals its process   *)
(* (kill_on_drop), which ends some time later; a Child goes with the last  *)
(* Arc of its AppState.  Time is abstracted: a sleep ends some time;       *)
(* backoff is the duration of the next one in seconds.  Each spawn also    *)
(* issues a spawn token, which is issue_token of Sessions.                 *)
(***************************************************************************)
EXTENDS Naturals, FiniteSets

CONSTANTS
    Loops,      \* bound: the run_resident tasks there may be
    Callers,    \* tasks of the host that call into the supervisor
    MaxStates,  \* bound: AppStates that are made
    MaxProcs,   \* bound: processes that are spawned
    MaxBackoff, \* the cap of the backoff: 300 seconds in the code
    NoTask      \* the lock is free

ASSUME SupervisorAssumption ==
    /\ MaxStates \in Nat /\ MaxProcs \in Nat /\ MaxBackoff \in Nat \ {0}
    /\ Loops \intersect Callers = {}
    /\ NoTask \notin Loops \union Callers

VARIABLES
    apps,      \* Supervisor.apps: the service's current AppState, 0 if none
    made,      \* AppStates made so far
    resident,  \* the AppStates with Lifecycle::Resident
    lock,      \* who holds AppState.child
    child,     \* AppState.child: the process of the handle, 0 if None
    backoff,   \* AppState.backoff.next
    spawned,   \* processes spawned so far
    home,      \* the AppState each process was spawned for
    status,    \* state of each process; "dying" once it has been signalled
    fresh,     \* the Child spawn_once has yet to store, 0 if none
    pc,        \* where each task stands
    st,        \* the AppState a task holds an Arc of, 0 if none
    taken,     \* the Child that stop_service took out, 0 if none
    looped     \* history: AppStates a run_resident task was started for

supVars == <<apps, made, resident, lock, child, backoff, spawned, home, status, fresh,
             pc, st, taken, looped>>

Tasks == Loops \union Callers
States == 1..MaxStates
Procs == 1..MaxProcs

Init ==
    /\ apps = 0 /\ made = 0 /\ spawned = 0
    /\ resident = {} /\ looped = {}
    /\ lock = [i \in States |-> NoTask]
    /\ child = [i \in States |-> 0]
    /\ backoff = [i \in States |-> 1]
    /\ home = [p \in Procs |-> 0]
    /\ status = [p \in Procs |-> "none"]
    /\ fresh = [t \in Tasks |-> 0]
    /\ pc = [t \in Tasks |-> IF t \in Loops THEN "free" ELSE "idle"]
    /\ st = [t \in Tasks |-> 0]
    /\ taken = [t \in Callers |-> 0]

-----------------------------------------------------------------------------
(* Handles and processes.                                                  *)

\* Process p runs, be it that it has been signalled.
Running(p) == status[p] \in {"up", "dying"}

\* A Child handle of process p is left: in a map or Arc that is still held, in
\* spawn_once or in stop_service.
Owned(p) ==
    \/ \E i \in States : child'[i] = p /\ (apps' = i \/ \E t \in Tasks : st'[t] = i)
    \/ \E t \in Tasks : fresh'[t] = p
    \/ \E t \in Callers : taken'[t] = p

\* kill_on_drop, applied to the process states s after the handles changed: a
\* process that runs is signalled; how one ended is forgotten with its handle.
KillOnDrop(s) ==
    status' = [p \in Procs |-> IF Owned(p) THEN s[p]
                               ELSE IF s[p] = "up" THEN "dying"
                               ELSE IF s[p] \in {"clean", "crashed"} THEN "gone" ELSE s[p]]

\* A process ends by itself.
ProcessExits(p, how) ==
    /\ status[p] = "up"
    /\ status' = [status EXCEPT ![p] = how]
    /\ UNCHANGED <<apps, made, resident, lock, child, backoff, spawned, home, fresh,
                   pc, st, taken, looped>>

\* A process that was signalled has ended.
ProcessDies(p) ==
    /\ status[p] = "dying"
    /\ status' = [status EXCEPT ![p] = "gone"]
    /\ UNCHANGED <<apps, made, resident, lock, child, backoff, spawned, home, fresh,
                   pc, st, taken, looped>>

\* Seeded fault: the backoff doubles without its cap.
Doubled_Uncapped(d) == 2 * d

\* Backoff::bump: what next becomes.
Doubled(d) == IF 2 * d < MaxBackoff THEN 2 * d ELSE MaxBackoff

\* spawn_once up to cmd.spawn(): t holds the lock, and the new process runs.
Spawn(t) ==
    /\ spawned < MaxProcs
    /\ spawned' = spawned + 1
    /\ fresh' = [fresh EXCEPT ![t] = spawned + 1]
    /\ home' = [home EXCEPT ![spawned + 1] = st[t]]
    /\ status' = [status EXCEPT ![spawned + 1] = "up"]
    /\ lock' = [lock EXCEPT ![st[t]] = t]
    /\ pc' = [pc EXCEPT ![t] = "store"]
    /\ UNCHANGED <<apps, made, resident, child, backoff, st, taken, looped>>

\* The end of spawn_once: the new Child replaces, and so drops, whatever the
\* AppState held.  The lock is released; ensure_up returns with it.
StoreChild(t) ==
    /\ pc[t] = "store"
    /\ child' = [child EXCEPT ![st[t]] = fresh[t]]
    /\ fresh' = [fresh EXCEPT ![t] = 0]
    /\ lock' = [lock EXCEPT ![st[t]] = NoTask]
    /\ pc' = [pc EXCEPT ![t] = IF t \in Loops THEN "lock" ELSE "idle"]
    /\ st' = [st EXCEPT ![t] = IF t \in Loops THEN @ ELSE 0]
    /\ UNCHANGED <<apps, made, resident, backoff, spawned, home, taken, looped>>
    /\ KillOnDrop(status)

-----------------------------------------------------------------------------
(* Registration.                                                           *)

\* A fresh AppState becomes the current one.
InsertState(r) ==
    /\ made < MaxStates
    /\ made' = made + 1
    /\ apps' = made + 1
    /\ resident' = IF r THEN resident \union {made + 1} ELSE resident

\* Supervisor::register, which stops nothing.
register(r) ==
    /\ InsertState(r)
    /\ UNCHANGED <<lock, child, backoff, spawned, home, fresh, pc, st, taken, looped>>
    /\ KillOnDrop(status)

\* tokio::spawn(run_resident): the next task not started yet, whichever it is.
FreeLoop(t) == pc[t] = "free" /\ t = CHOOSE l \in Loops : pc[l] = "free"

\* start_all_resident spawns a loop for the service if it is resident.
start_all_resident(t) ==
    /\ FreeLoop(t)
    /\ apps \in resident
    /\ pc' = [pc EXCEPT ![t] = "top"]
    /\ looped' = looped \union {apps}
    /\ UNCHANGED <<apps, made, resident, lock, child, backoff, spawned, home, status,
                   fresh, st, taken>>

-----------------------------------------------------------------------------
(* run_resident.                                                           *)

\* The loop starts, or has slept, and takes the AppState that is current now; it
\* returns if there is none.
LoopTop(t) ==
    /\ pc[t] = "top"
    /\ st' = [st EXCEPT ![t] = apps]
    /\ pc' = [pc EXCEPT ![t] = IF apps = 0 THEN "ended" ELSE "spawn"]
    /\ UNCHANGED <<apps, made, resident, lock, child, backoff, spawned, home, fresh,
                   taken, looped>>
    /\ KillOnDrop(status)

\* It gets the lock and spawns, whatever the handle holds.
LoopSpawn(t) ==
    /\ pc[t] = "spawn" /\ lock[st[t]] = NoTask
    /\ Spawn(t)

\* A failed spawn, which leaves the handle alone, bumps the backoff and sleeps
\* with the lock held.
LoopSpawnFails(t) ==
    /\ pc[t] = "spawn" /\ lock[st[t]] = NoTask
    /\ lock' = [lock EXCEPT ![st[t]] = t]
    /\ backoff' = [backoff EXCEPT ![st[t]] = Doubled(@)]
    /\ pc' = [pc EXCEPT ![t] = "failed"]
    /\ UNCHANGED <<apps, made, resident, child, spawned, home, status, fresh, st,
                   taken, looped>>

FailedSleepEnds(t) ==
    /\ pc[t] = "failed"
    /\ lock' = [lock EXCEPT ![st[t]] = NoTask]
    /\ pc' = [pc EXCEPT ![t] = "top"]
    /\ UNCHANGED <<apps, made, resident, child, backoff, spawned, home, status, fresh,
                   st, taken, looped>>

\* It takes the lock again to wait for the child; a handle that was taken out in
\* the meantime ends the loop.
LoopWait(t) ==
    /\ pc[t] = "lock" /\ lock[st[t]] = NoTask
    /\ \/ /\ child[st[t]] = 0
          /\ pc' = [pc EXCEPT ![t] = "ended"]
          /\ st' = [st EXCEPT ![t] = 0]
          /\ UNCHANGED lock
       \/ /\ child[st[t]] # 0
          /\ lock' = [lock EXCEPT ![st[t]] = t]
          /\ pc' = [pc EXCEPT ![t] = "wait"]
          /\ UNCHANGED st
    /\ UNCHANGED <<apps, made, resident, child, backoff, spawned, home, fresh, taken,
                   looped>>
    /\ KillOnDrop(status)

\* Seeded fault: the loop ends when the child exits with an error.
ChildExited_CrashEnds(t) ==
    LET p == child[st[t]] IN
    /\ pc[t] = "wait" /\ ~Running(p)
    /\ lock' = [lock EXCEPT ![st[t]] = NoTask]
    /\ pc' = [pc EXCEPT ![t] = IF status[p] = "clean" THEN "top" ELSE "stuck"]
    /\ UNCHANGED <<apps, made, resident, child, backoff, spawned, home, status, fresh,
                   st, taken, looped>>

\* The child has exited: release the lock, reset the backoff after a clean exit,
\* bump it in any case.  The loop sleeps and begins again.
ChildExited(t) ==
    LET p == child[st[t]] IN
    /\ pc[t] = "wait" /\ ~Running(p)
    /\ lock' = [lock EXCEPT ![st[t]] = NoTask]
    /\ backoff' = [backoff EXCEPT ![st[t]] = Doubled(IF status[p] = "clean" THEN 1 ELSE @)]
    /\ pc' = [pc EXCEPT ![t] = "top"]
    /\ UNCHANGED <<apps, made, resident, child, spawned, home, status, fresh, st,
                   taken, looped>>

-----------------------------------------------------------------------------
(* ensure_up.                                                              *)

\* ensure_up finds the AppState (without one it returns ServiceNotFound).
ensure_up(t) ==
    /\ pc[t] = "idle" /\ apps # 0
    /\ st' = [st EXCEPT ![t] = apps]
    /\ pc' = [pc EXCEPT ![t] = "ensure"]
    /\ UNCHANGED <<apps, made, resident, lock, child, backoff, spawned, home, status,
                   fresh, taken, looped>>

\* It gets the lock and spawns, if the child is not running.
EnsureSpawns(t) ==
    /\ pc[t] = "ensure" /\ lock[st[t]] = NoTask
    /\ child[st[t]] # 0 => ~Running(child[st[t]])
    /\ Spawn(t)

\* The child is running, or try_wait or the spawn fails: it returns.
EnsureReturns(t) ==
    /\ pc[t] = "ensure" /\ lock[st[t]] = NoTask
    /\ st' = [st EXCEPT ![t] = 0]
    /\ pc' = [pc EXCEPT ![t] = "idle"]
    /\ UNCHANGED <<apps, made, resident, lock, child, backoff, spawned, home, fresh,
                   taken, looped>>
    /\ KillOnDrop(status)

-----------------------------------------------------------------------------
(* unregister and register_or_replace.                                     *)

\* contains_key: unregister fails and register_or_replace inserts if it is false.
CallStop(t, op) ==
    /\ pc[t] = "idle"
    /\ \/ apps # 0 /\ pc' = [pc EXCEPT ![t] = IF op = "unregister" THEN "stopU" ELSE "stopR"]
       \/ apps = 0 /\ op = "replace" /\ pc' = [pc EXCEPT ![t] = "insert"]
    /\ UNCHANGED <<apps, made, resident, lock, child, backoff, spawned, home, status,
                   fresh, st, taken, looped>>

\* The next place of t, after the name of the operation it is in.
Then(t, unregister, replace) ==
    [pc EXCEPT ![t] = IF @ \in {"stopU", "lockU", "killU"} THEN unregister ELSE replace]

\* stop_service looks the AppState up; nothing to stop if it has gone.
StopLookup(t) ==
    /\ pc[t] \in {"stopU", "stopR"}
    /\ st' = [st EXCEPT ![t] = apps]
    /\ pc' = IF apps = 0 THEN Then(t, "removeU", "removeR") ELSE Then(t, "lockU", "lockR")
    /\ UNCHANGED <<apps, made, resident, lock, child, backoff, spawned, home, status,
                   fresh, taken, looped>>

\* The states of the processes once the child of AppState i, if any, is signalled.
Signalled(i) ==
    [p \in Procs |-> IF p = child[i] /\ status[p] = "up" THEN "dying" ELSE status[p]]

\* Seeded fault: the lock is released before the process has ended.
StopTake_Unlocks(t) ==
    LET i == st[t] IN
    /\ pc[t] \in {"lockU", "lockR"} /\ lock[i] = NoTask /\ child[i] # 0
    /\ child' = [child EXCEPT ![i] = 0]
    /\ taken' = [taken EXCEPT ![t] = child[i]]
    /\ pc' = Then(t, "killU", "killR")
    /\ UNCHANGED <<apps, made, resident, lock, backoff, spawned, home, fresh, st,
                   looped>>
    /\ KillOnDrop(Signalled(i))

\* It gets the lock and takes the Child out, if there is one, to kill it.
StopTake(t) ==
    LET i == st[t] IN
    /\ pc[t] \in {"lockU", "lockR"} /\ lock[i] = NoTask
    /\ \/ /\ child[i] = 0
          /\ st' = [st EXCEPT ![t] = 0]
          /\ pc' = Then(t, "removeU", "removeR")
          /\ UNCHANGED <<lock, child, taken>>
       \/ /\ child[i] # 0
          /\ child' = [child EXCEPT ![i] = 0]
          /\ taken' = [taken EXCEPT ![t] = child[i]]
          /\ lock' = [lock EXCEPT ![i] = t]
          /\ pc' = Then(t, "killU", "killR")
          /\ UNCHANGED st
    /\ UNCHANGED <<apps, made, resident, backoff, spawned, home, fresh, looped>>
    /\ KillOnDrop(Signalled(i))

\* kill and wait return when the process has ended (a kill that fails finds that
\* it has); the lock and the Arc are released.
StopKilled(t) ==
    /\ pc[t] \in {"killU", "killR"} /\ ~Running(taken[t])
    /\ lock' = [lock EXCEPT ![st[t]] = IF @ = t THEN NoTask ELSE @]
    /\ taken' = [taken EXCEPT ![t] = 0]
    /\ st' = [st EXCEPT ![t] = 0]
    /\ pc' = Then(t, "removeU", "removeR")
    /\ UNCHANGED <<apps, made, resident, child, backoff, spawned, home, fresh, looped>>
    /\ KillOnDrop(status)

\* apps.remove, of whatever AppState is current by now.
Remove(t) ==
    /\ pc[t] \in {"removeU", "removeR"}
    /\ apps' = 0
    /\ pc' = [pc EXCEPT ![t] = IF @ = "removeU" THEN "idle" ELSE "insert"]
    /\ UNCHANGED <<made, resident, lock, child, backoff, spawned, home, fresh, st,
                   taken, looped>>
    /\ KillOnDrop(status)

\* Seeded fault: the replacement is inserted and no loop is started for it.
InsertReplacement_NoLoop(t, r) ==
    /\ pc[t] = "insert"
    /\ InsertState(r)
    /\ looped' = IF r THEN looped \union {made + 1} ELSE looped
    /\ pc' = [pc EXCEPT ![t] = "idle"]
    /\ UNCHANGED <<lock, child, backoff, spawned, home, fresh, st, taken>>
    /\ KillOnDrop(status)

\* apps.insert of the new AppState and, for a resident app, a loop of its own.
InsertReplacement(t, r) ==
    /\ pc[t] = "insert"
    /\ InsertState(r)
    /\ IF r
       THEN \E l \in Loops :
              /\ FreeLoop(l)
              /\ pc' = [pc EXCEPT ![t] = "idle", ![l] = "top"]
              /\ looped' = looped \union {made + 1}
       ELSE /\ pc' = [pc EXCEPT ![t] = "idle"]
            /\ UNCHANGED looped
    /\ UNCHANGED <<lock, child, backoff, spawned, home, fresh, st, taken>>
    /\ KillOnDrop(status)

-----------------------------------------------------------------------------
(* The specification.                                                      *)

LoopStep(t) ==
    \/ LoopTop(t) \/ LoopSpawn(t) \/ StoreChild(t) \/ LoopSpawnFails(t)
    \/ FailedSleepEnds(t) \/ LoopWait(t) \/ ChildExited(t)

\* A call under way goes on.
CallerStep(t) ==
    \/ EnsureSpawns(t) \/ StoreChild(t) \/ EnsureReturns(t)
    \/ StopLookup(t) \/ StopTake(t) \/ StopKilled(t) \/ Remove(t)
    \/ \E r \in BOOLEAN : InsertReplacement(t, r)

Next ==
    \/ \E r \in BOOLEAN : register(r)
    \/ \E t \in Loops : start_all_resident(t) \/ LoopStep(t)
    \/ \E t \in Callers : \/ ensure_up(t) \/ CallerStep(t)
                          \/ \E op \in {"unregister", "replace"} : CallStop(t, op)
    \/ \E p \in Procs : \/ ProcessDies(p)
                        \/ \E how \in {"clean", "crashed"} : ProcessExits(p, how)

\* Ready tasks run; the lock is fair (tokio's mutex queues its waiters), so a
\* task that can get it again and again gets it.  A process that was signalled
\* ends; others need not.
Fairness ==
    /\ \A t \in Loops : SF_supVars(LoopStep(t))
    /\ \A t \in Callers : SF_supVars(CallerStep(t))
    /\ \A p \in Procs : WF_supVars(ProcessDies(p))

Spec == Init /\ [][Next]_supVars

FairSpec == Spec /\ Fairness

-----------------------------------------------------------------------------
(* Properties.                                                             *)

\* Types; the backoff stays within its cap.
SupTypeOK ==
    /\ apps \in 0..made /\ made \in 0..MaxStates /\ spawned \in 0..MaxProcs
    /\ resident \subseteq States /\ looped \subseteq States
    /\ lock \in [States -> Tasks \union {NoTask}]
    /\ child \in [States -> 0..spawned]
    /\ backoff \in [States -> 1..MaxBackoff]
    /\ home \in [Procs -> 0..made]
    /\ status \in [Procs -> {"none", "up", "dying", "clean", "crashed", "gone"}]
    /\ fresh \in [Tasks -> 0..spawned]
    /\ pc \in [Tasks -> {"free", "top", "spawn", "store", "failed", "lock", "wait",
                         "ended", "idle", "ensure", "stopU", "stopR", "lockU", "lockR",
                         "killU", "killR", "removeU", "removeR", "insert"}]
    /\ st \in [Tasks -> 0..made]
    /\ taken \in [Callers -> 0..spawned]

\* Process p has been signalled by the loss of its last handle.
Dropped(p) == status[p] = "dying" /\ \A t \in Callers : taken[t] # p

\* Task t has spawned q in the place of p and is about to store it.
Replaces(t, p, q) == fresh[t] = q /\ child[home[q]] = p /\ lock[home[q]] = t

\* Of the processes of one AppState only the newest is kept: an older one runs
\* beside it only while spawn_once, with the lock held, is about to drop it, or
\* has dropped it.  stop_service leaves room for another only when the process
\* it took has ended, although the loop, ensure_up and stop_service spawn,
\* replace and take the Child independently.
OneProcessPerApp ==
    \A p, q \in Procs :
        p < q /\ home[p] = home[q] /\ Running(p) /\ Running(q) =>
            Dropped(p) \/ \E t \in Tasks : Replaces(t, p, q)

\* A registered resident app whose loop was started keeps a loop, through any
\* number of concurrent replacements, stops and restarts of older loops.
ResidentHasLoop ==
    apps \in resident \intersect looped =>
        \/ \E l \in Loops : pc[l] \notin {"free", "ended", "stuck"}
        \/ \E t \in Callers : pc[t] \in {"lockU", "lockR", "killU", "killR", "removeU", "removeR"}

\* The loop of a child that crashed comes back to spawn another, unless the
\* service has been unregistered.
CrashesRestart ==
    \A t \in Loops :
        (pc[t] = "wait" /\ status[child[st[t]]] = "crashed") ~> pc[t] \in {"spawn", "ended"}

\* What stop_service says of itself, "Kill the child if running and wait for it
\* to exit": a call that stops a service gets as far as removing it.
StopsFinish ==
    \A t \in Callers : pc[t] \in {"lockU", "lockR"} ~> pc[t] \in {"removeU", "removeR"}

=============================================================================
