------------------------------ MODULE WarmPool ------------------------------
(***************************************************************************)
(* The pool of pre-dialled tunnels of the Rust core,                       *)
(* src/native/mirage-core/src/proxy/pool.rs (struct WarmPool).             *)
(*                                                                         *)
(* Actors: the callers of WarmPool::get (Getters), the Builder task, the   *)
(* dial tasks it spawns, the Manager task, and the callers of shutdown,    *)
(* purge_idle and set_pool_size.  A step is the code between two points    *)
(* where another actor can be scheduled with an effect on this one.        *)
(*                                                                         *)
(* A tunnel is a slot of Tunnels, recycled once its socket is closed; the  *)
(* dial task that creates a tunnel has the name of its slot.  tokio's      *)
(* Mutex, Notify and Semaphore are modelled by their documented behaviour: *)
(* no critical section of the queue's Mutex awaits, so each is one step,   *)
(* and a try_lock may fail exactly when some actor is at such a step.      *)
(***************************************************************************)
EXTENDS Integers, Sequences, FiniteSets

CONSTANTS
  Getters,        \* concurrent callers of get()
  Tunnels,        \* slots for live or dialling sockets (a bound)
  None,           \* no tunnel held
  InitialSize,    \* PoolConfig.pool_size
  Resizes,        \* sizes set_pool_size may be called with
  LargestSize,    \* no size is larger than this
  OnDemandLimit,  \* permits of on_demand_sem (code: clamp(size, 16, 32))
  AuthThreshold,  \* AUTH_FAILURES_THRESHOLD (code: 5)
  BurstCap,       \* most dials one Builder round spawns (code: 8)
  Errors,         \* how a dial may fail: a subset of {"io", "auth"}
  Decays,         \* how an idle tunnel may go bad: a subset of {"aged", "dead"}
  MaxPurges,      \* bound: calls of purge_idle
  MaxResizes,     \* bound: calls of set_pool_size
  MayShutdown     \* whether shutdown() is ever called

ASSUME SlotsAssumption == IsFiniteSet(Getters) /\ IsFiniteSet(Tunnels) /\ None \notin Tunnels
ASSUME SizesAssumption ==
  LargestSize \in Nat \ {0} /\ InitialSize \in 1..LargestSize /\ Resizes \subseteq 0..LargestSize
ASSUME LimitsAssumption ==
  /\ OnDemandLimit \in Nat \ {0} /\ AuthThreshold \in Nat \ {0} /\ BurstCap \in Nat \ {0}
  /\ MaxPurges \in Nat /\ MaxResizes \in Nat
ASSUME KindsAssumption ==
  Errors \subseteq {"io", "auth"} /\ Decays \subseteq {"aged", "dead"} /\ MayShutdown \in BOOLEAN

VARIABLES
  queue,     \* WarmPool.queue: idle tunnels, oldest first
  tun,       \* what each slot's socket is doing
  token,     \* Notify: the single stored permit
  waiters,   \* Notify: parked getters, first come first served
  gpc,       \* where each getter is in get()
  wpc,       \* where its wait_for_queue future is
  held,      \* the tunnel a getter dials or holds
  sem,       \* available permits of on_demand_sem
  bld,       \* the Builder task: its place and its loop's locals
  task,      \* the dial tasks the Builder spawned
  inFlight,  \* in_flight
  stats,     \* PoolStats: consecutive failures, auth failures, pause
  spawnedInPause, \* history: dials spawned since the pause began
  size,      \* target_size and max_size
  mgr,       \* the Manager task: its place and what it has loaded
  shutdown,  \* the shutdown flag
  calls      \* bound: calls of purge_idle and of set_pool_size so far

tunnelVars == <<queue, tun>>
getterVars == <<gpc, held, sem>>
notifyVars == <<token, waiters, wpc>>
builderVars == <<bld, task, inFlight>>
statVars == <<stats, spawnedInPause>>
ctlVars == <<size, mgr, shutdown, calls>>
vars == <<tunnelVars, getterVars, notifyVars, builderVars, statVars, ctlVars>>

MaxOf(a, b) == IF a >= b THEN a ELSE b
MinOf(a, b) == IF a <= b THEN a ELSE b

HealthCap == 3   \* bound on consecutive_failures: is_healthy asks only for < 3

Init ==
  /\ queue = <<>> /\ tun = [t \in Tunnels |-> "free"]
  /\ token = FALSE /\ waiters = <<>> /\ wpc = [g \in Getters |-> "off"]
  /\ gpc = [g \in Getters |-> "idle"] /\ held = [g \in Getters |-> None]
  /\ sem = OnDemandLimit
  /\ bld = [pc |-> "top", idle |-> 0, target |-> 0, max |-> 0, burst |-> 0]
  /\ task = [t \in Tunnels |-> "none"] /\ inFlight = 0
  /\ stats = [fails |-> 0, auth |-> 0, paused |-> FALSE] /\ spawnedInPause = 0
  /\ size = [target |-> InitialSize, max |-> InitialSize]
  /\ mgr = [pc |-> "sleep", target |-> 0, max |-> 0]
  /\ shutdown = FALSE /\ calls = [purge |-> 0, resize |-> 0]

-----------------------------------------------------------------------------
(* The queue's Mutex. *)

\* A getter whose next step takes the queue's lock.
GetterAtLock(g) == gpc[g] \in {"pop", "refill", "push", "repop"} \/ wpc[g] = "check"

\* Some actor may hold the lock just now.
Contended ==
  \/ \E g \in Getters : GetterAtLock(g)
  \/ \E t \in Tunnels : task[t] = "push"
  \/ bld.pc = "idle"
  \/ mgr.pc = "sweep"

Idle == {queue[i] : i \in DOMAIN queue}

Slots == {t \in Tunnels : tun[t] = "free" /\ task[t] = "none"}

\* The sockets of S closed.
Closed(S) == [t \in Tunnels |-> IF t \in S THEN "free" ELSE tun[t]]

(* pop_valid_tunnel: discard bad tunnels from the front, return the first  *)
(* good one.  Found(i): it stops at position i; Exhausted: it returns None. *)
Found(i) == tun[queue[i]] = "good" /\ \A j \in 1..(i - 1) : tun[queue[j]] # "good"
Exhausted == \A i \in DOMAIN queue : tun[queue[i]] # "good"

\* The queue after popping i tunnels; they and the slots of S are closed,
\* except the tunnel kept.
PopTo(i, keep, S) ==
  /\ queue' = SubSeq(queue, i + 1, Len(queue))
  /\ tun' = Closed(({queue[j] : j \in 1..i} \ {keep}) \cup S)

-----------------------------------------------------------------------------
(* tokio::sync::Notify.  wpc[g] is the state of g's wait_for_queue future: *)
(* "check" about to create the Notified and pop; "park" popped nothing,    *)
(* Notified not polled yet; "passed" as "park", and a notify_waiters came  *)
(* since; "parked" in the wait list; "one" and "all" woken.                *)

\* notify_one, where the futures are w and the wait list is ws.
NotifyOneAt(w, ws) ==
  IF ws = <<>>
    THEN token' = TRUE /\ wpc' = w /\ waiters' = ws
    ELSE token' = token /\ wpc' = [w EXCEPT ![Head(ws)] = "one"] /\ waiters' = Tail(ws)

NotifyOne == NotifyOneAt(wpc, waiters)

NotifyWaiters ==
  /\ wpc' = [g \in Getters |-> CASE wpc[g] = "park"   -> "passed"
                                 [] wpc[g] = "parked" -> "all"
                                 [] OTHER             -> wpc[g]]
  /\ waiters' = <<>> /\ token' = token

\* The wait list without g.
Unlisted(g) ==
  IF \E i \in DOMAIN waiters : waiters[i] = g
    THEN LET i == CHOOSE i \in DOMAIN waiters : waiters[i] = g
         IN  SubSeq(waiters, 1, i - 1) \o SubSeq(waiters, i + 1, Len(waiters))
    ELSE waiters

\* g's wait future is dropped and becomes s.  Dropping one that notify_one
\* has woken passes the notification on.
DropWait(g, s) ==
  LET w == [wpc EXCEPT ![g] = s] IN
  IF wpc[g] = "one"
    THEN NotifyOneAt(w, waiters)
    ELSE wpc' = w /\ waiters' = Unlisted(g) /\ token' = token

-----------------------------------------------------------------------------
(* PoolStats and AuthPauseTracker. *)

Forgiven(s) == [s EXCEPT !.auth = 0, !.paused = FALSE]

\* record_latency
RecordSuccess == stats' = Forgiven([stats EXCEPT !.fails = 0]) /\ spawnedInPause' = 0

\* record_failure_typed
RecordFailure(e) ==
  LET a == IF e = "auth" THEN MinOf(stats.auth + 1, AuthThreshold) ELSE 0 IN
  /\ stats' = [fails  |-> MinOf(stats.fails + 1, HealthCap),
               auth   |-> a,
               paused |-> stats.paused \/ a >= AuthThreshold]
  /\ spawnedInPause' = spawnedInPause

\* check_paused finds the five minutes over; the Builder's loop and
\* is_auth_paused both ask.
PauseExpires ==
  /\ stats.paused
  /\ stats' = Forgiven(stats) /\ spawnedInPause' = 0
  /\ UNCHANGED <<tunnelVars, getterVars, notifyVars, builderVars, ctlVars>>

-----------------------------------------------------------------------------
(* The callers of get(). *)

Goto(g, pc) == gpc' = [gpc EXCEPT ![g] = pc]
Hold(g, t) == held' = [held EXCEPT ![g] = t]

\* Mutant: a permit that is not released when the racing dial is dropped.
MutLeakPermit(g) == sem' = sem

\* The permit lives in the on-demand future and goes with it.
DropPermit(g) == sem' = IF gpc[g] = "race" THEN sem + 1 ELSE sem

\* get(): path 1 tries the queue.
Get(g) ==
  /\ gpc[g] = "idle" /\ Goto(g, "pop")
  /\ UNCHANGED <<tunnelVars, held, sem, notifyVars, builderVars, statVars, ctlVars>>

\* pop_valid_tunnel at the start of get() and at the end of refill_or_take,
\* where nothing to pop leads to wait_for_queue.
Pop(g) ==
  /\ gpc[g] \in {"pop", "repop"}
  /\ \/ \E i \in DOMAIN queue :
          /\ Found(i) /\ PopTo(i, queue[i], {})
          /\ Hold(g, queue[i]) /\ Goto(g, "use")
          /\ UNCHANGED notifyVars
     \/ /\ Exhausted /\ PopTo(Len(queue), None, {})
        /\ IF gpc[g] = "pop"
             THEN Goto(g, "acquire") /\ UNCHANGED notifyVars
             ELSE /\ Goto(g, "waitq") /\ wpc' = [wpc EXCEPT ![g] = "check"]
                  /\ UNCHANGED <<token, waiters>>
        /\ UNCHANGED held
  /\ UNCHANGED <<sem, builderVars, statVars, ctlVars>>

\* Path 2: with a permit, dial on demand and race the queue; without one,
\* wait for the queue.  With no descriptor left the dial is bound to fail.
Acquire(g) ==
  /\ gpc[g] = "acquire"
  /\ IF sem > 0
       THEN /\ sem' = sem - 1 /\ Goto(g, "race")
            /\ \/ \E t \in Slots : /\ tun' = [tun EXCEPT ![t] = "dialing"]
                                 /\ Hold(g, t)
               \/ Slots = {} /\ UNCHANGED <<tun, held>>
       ELSE Goto(g, "waitq") /\ UNCHANGED <<tun, held, sem>>
  /\ wpc' = [wpc EXCEPT ![g] = "check"]
  /\ UNCHANGED <<queue, token, waiters, builderVars, statVars, ctlVars>>

\* The wait future is inside one poll: neither the select nor the timeout
\* sees it between the failed pop and the wait list.
Polling(g) == wpc[g] \in {"park", "passed"}

\* The on-demand dial wins the select: its permit is released, the wait
\* future dropped, and refill_or_take begins.
DialOk(g) ==
  /\ gpc[g] = "race" /\ ~Polling(g) /\ held[g] # None
  /\ tun' = [tun EXCEPT ![held[g]] = "good"]
  /\ DropPermit(g) /\ RecordSuccess /\ DropWait(g, "off") /\ Goto(g, "refill")
  /\ UNCHANGED <<queue, held, builderVars, ctlVars>>

\* The on-demand dial fails: a fresh wait_for_queue takes over.  PoolStats is
\* not told.
DialFail(g) ==
  /\ gpc[g] = "race" /\ ~Polling(g) /\ (Errors # {} \/ held[g] = None)
  /\ tun' = Closed({held[g]}) /\ Hold(g, None)
  /\ DropPermit(g) /\ DropWait(g, "check") /\ Goto(g, "waitq")
  /\ UNCHANGED <<queue, builderVars, statVars, ctlVars>>

\* wait_for_queue pops.  In the race this drops the dial and its permit.
WaitPop(g) ==
  /\ wpc[g] = "check"
  /\ \/ \E i \in DOMAIN queue :
          /\ Found(i) /\ PopTo(i, queue[i], {held[g]})
          /\ Hold(g, queue[i]) /\ Goto(g, "use")
          /\ DropPermit(g)
          /\ DropWait(g, "off")
     \/ /\ Exhausted /\ PopTo(Len(queue), None, {})
        /\ wpc' = [wpc EXCEPT ![g] = "park"]
        /\ UNCHANGED <<getterVars, token, waiters>>
  /\ UNCHANGED <<builderVars, statVars, ctlVars>>

\* notified.await is polled first: a stored permit or a notify_waiters since
\* the future was made lets it through, else it joins the wait list.
WaitPark(g) ==
  /\ Polling(g)
  /\ token' = FALSE
  /\ IF token \/ wpc[g] = "passed"
       THEN wpc' = [wpc EXCEPT ![g] = "check"] /\ waiters' = waiters
       ELSE wpc' = [wpc EXCEPT ![g] = "parked"] /\ waiters' = Append(waiters, g)
  /\ UNCHANGED <<tunnelVars, getterVars, builderVars, statVars, ctlVars>>

\* A woken waiter goes round the loop.
WaitWake(g) ==
  /\ wpc[g] \in {"one", "all"}
  /\ wpc' = [wpc EXCEPT ![g] = "check"]
  /\ UNCHANGED <<tunnelVars, getterVars, token, waiters, builderVars, statVars, ctlVars>>

\* refill_or_take: below the target the tunnel goes into the pool.
RefillCheck(g) ==
  /\ gpc[g] = "refill"
  /\ Goto(g, IF Len(queue) < size.target THEN "push" ELSE "use")
  /\ UNCHANGED <<tunnelVars, held, sem, notifyVars, builderVars, statVars, ctlVars>>

\* refill_or_take: push and notify_one; the pop that follows is Pop.
RefillPush(g) ==
  /\ gpc[g] = "push"
  /\ queue' = Append(queue, held[g]) /\ Hold(g, None) /\ NotifyOne /\ Goto(g, "repop")
  /\ UNCHANGED <<tun, sem, builderVars, statVars, ctlVars>>

\* Mutant: the timeout covers the race only, not a getter without a permit.
MutTimeoutRaceOnly(g) == gpc[g] = "race" /\ ~Polling(g)

\* get() can be dropped at its awaits: for a notification, for the dial, and
\* for the lock (held by another actor, or tokio's cooperative budget spent).
MayGiveUp(g) == gpc[g] \in {"race", "waitq", "refill", "push", "repop"} /\ ~Polling(g)

\* The ten seconds are over, or the caller drops get(): every future and
\* whatever it holds is dropped.
GiveUp(g) ==
  /\ MayGiveUp(g)
  /\ tun' = Closed({held[g]}) /\ Hold(g, None) /\ Goto(g, "idle")
  /\ DropPermit(g)
  /\ DropWait(g, "off")
  /\ UNCHANGED <<queue, builderVars, statVars, ctlVars>>

\* The caller is done with its tunnel.
Release(g) ==
  /\ gpc[g] = "use"
  /\ tun' = Closed({held[g]}) /\ Hold(g, None) /\ Goto(g, "idle")
  /\ UNCHANGED <<queue, sem, notifyVars, builderVars, statVars, ctlVars>>

-----------------------------------------------------------------------------
(* The Builder task. *)

\* Mutant: the loop does not ask for the shutdown flag.
MutBlindBuilder == FALSE

SeesShutdown == shutdown

\* Mutant: the loop does not ask for the pause.
MutIgnorePause == TRUE

MayBuild == ~stats.paused

\* One turn of its loop begins: stop on shutdown, idle while paused, else
\* load the sizes.
BuilderTop ==
  /\ bld.pc = "top"
  /\ \/ SeesShutdown /\ bld' = [bld EXCEPT !.pc = "stopped"]
     \/ /\ ~shutdown /\ MayBuild
        /\ bld' = [bld EXCEPT !.pc = "idle", !.target = size.target, !.max = size.max]
  /\ UNCHANGED <<tunnelVars, getterVars, notifyVars, task, inFlight, statVars, ctlVars>>

\* current_idle, read under the lock.
BuilderReadIdle ==
  /\ bld.pc = "idle"
  /\ bld' = [bld EXCEPT !.pc = "inflight", !.idle = Len(queue)]
  /\ UNCHANGED <<tunnelVars, getterVars, notifyVars, task, inFlight, statVars, ctlVars>>

\* needed.clamp(1, 8)
Burst(needed) == MaxOf(1, MinOf(needed, BurstCap))

\* What the Builder believes to have.
Have == bld.idle + inFlight

\* current_in_flight, read after the lock is released, and the decision.
BuilderDecide ==
  /\ bld.pc = "inflight"
  /\ bld' = IF Have >= bld.target \/ Have >= bld.max
              THEN [bld EXCEPT !.pc = "top"]
              ELSE [bld EXCEPT !.pc = "spawn",
                               !.burst = IF stats.fails = 0 /\ bld.idle = 0
                                           THEN Burst(bld.target - Have) ELSE 1]
  /\ UNCHANGED <<tunnelVars, getterVars, notifyVars, task, inFlight, statVars, ctlVars>>

\* After the backoff or the stagger, the dial tasks are spawned.
BuilderSpawn ==
  /\ bld.pc = "spawn"
  /\ \E S \in SUBSET Slots :
       /\ Cardinality(S) = bld.burst
       /\ task' = [t \in Tunnels |-> IF t \in S THEN "start" ELSE task[t]]
  /\ inFlight' = inFlight + bld.burst
  /\ spawnedInPause' = IF stats.paused THEN MinOf(spawnedInPause + bld.burst, BurstCap + 1)
                                       ELSE spawnedInPause
  /\ bld' = [bld EXCEPT !.pc = "top", !.burst = 0]
  /\ UNCHANGED <<tunnelVars, getterVars, notifyVars, stats, ctlVars>>

\* Mutant: a way out of the task forgets in_flight.
MutLeakInFlight(t) == task' = [task EXCEPT ![t] = "none"] /\ inFlight' = inFlight

\* A dial task ends.
TaskEnds(t) == task' = [task EXCEPT ![t] = "none"] /\ inFlight' = inFlight - 1

\* A dial task starts to dial unless the pool is shut down.
TaskStart(t) ==
  /\ task[t] = "start"
  /\ IF shutdown
       THEN TaskEnds(t) /\ UNCHANGED tun
       ELSE /\ task' = [task EXCEPT ![t] = "dial"] /\ inFlight' = inFlight
            /\ tun' = [tun EXCEPT ![t] = "dialing"]
  /\ UNCHANGED <<queue, getterVars, notifyVars, bld, statVars, ctlVars>>

\* connect_upstream succeeds; the shutdown flag is asked once more.
TaskDialOk(t) ==
  /\ task[t] = "dial" /\ RecordSuccess
  /\ IF shutdown
       THEN TaskEnds(t) /\ tun' = Closed({t})
       ELSE /\ task' = [task EXCEPT ![t] = "push"] /\ inFlight' = inFlight
            /\ tun' = [tun EXCEPT ![t] = "good"]
  /\ UNCHANGED <<queue, getterVars, notifyVars, bld, ctlVars>>

\* connect_upstream fails.
TaskDialFail(t) ==
  /\ task[t] = "dial"
  /\ \E e \in Errors : RecordFailure(e)
  /\ TaskEnds(t) /\ tun' = Closed({t})
  /\ UNCHANGED <<queue, getterVars, notifyVars, bld, ctlVars>>

\* q_task.lock().await.push_back(tunnel)
TaskPush(t) ==
  /\ task[t] = "push"
  /\ queue' = Append(queue, t) /\ task' = [task EXCEPT ![t] = "finish"]
  /\ UNCHANGED <<tun, getterVars, notifyVars, bld, inFlight, statVars, ctlVars>>

\* n_task.notify_one() and in_flight.fetch_sub(1)
TaskFinish(t) ==
  /\ task[t] = "finish" /\ NotifyOne /\ TaskEnds(t)
  /\ UNCHANGED <<tunnelVars, getterVars, bld, statVars, ctlVars>>

-----------------------------------------------------------------------------
(* The Manager task. *)

Verdicts == {"pressure", "calm", "steady"}

Floor(max) == MinOf(MaxOf(max \div 2, 2), max)

\* Mutant: the target is not brought down to the maximum.
MutClampLow(cur, max) == MaxOf(cur, Floor(max))

Clamped(cur, max) == MinOf(MaxOf(cur, Floor(max)), max)

\* decide_new_target; the verdict stands for its three counters:
\* "pressure": more than 20% of the gets waited; "calm": none did and at
\* least half as many tunnels expired unused.
DecideNewTarget(cur, verdict, max) ==
  IF verdict = "pressure" /\ cur < max THEN MinOf(cur + MaxOf(cur \div 5, 1), max)
  ELSE IF verdict = "calm" /\ cur > Floor(max) THEN cur - 1
  ELSE Clamped(cur, max)

\* Every 5 seconds: stop on shutdown, else load the sizes.
ManagerWake ==
  /\ mgr.pc = "sleep"
  /\ mgr' = IF shutdown THEN [mgr EXCEPT !.pc = "stopped"]
                        ELSE [pc |-> "sweep", target |-> size.target, max |-> size.max]
  /\ UNCHANGED <<tunnelVars, getterVars, notifyVars, builderVars, statVars, size, shutdown, calls>>

\* q is the queue without the tunnels of S, in the same order.
IsWithout(q, S) ==
  /\ {q[i] : i \in DOMAIN q} = Idle \ S
  /\ Len(q) = Len(queue) - Cardinality({i \in DOMAIN queue : queue[i] \in S})
  /\ \A i, j \in DOMAIN queue : \A k, l \in DOMAIN q :
       (i < j /\ q[k] = queue[i] /\ q[l] = queue[j]) => k < l

\* It drops the tunnels past their max_age and stores a new target if that
\* differs from the one it loaded.
ManagerSweep ==
  /\ mgr.pc = "sweep"
  /\ LET aged == {t \in Idle : tun[t] = "aged"} IN
     /\ \E n \in 0..Len(queue) : \E q \in [1..n -> Idle] : IsWithout(q, aged) /\ queue' = q
     /\ tun' = Closed(aged)
  /\ \E v \in Verdicts :
       LET new == DecideNewTarget(mgr.target, v, mgr.max) IN
       size' = IF new # mgr.target THEN [size EXCEPT !.target = new] ELSE size
  /\ mgr' = [pc |-> "sleep", target |-> 0, max |-> 0]
  /\ UNCHANGED <<getterVars, notifyVars, builderVars, statVars, shutdown, calls>>

-----------------------------------------------------------------------------
(* Calls from the engine and the JNI threads, and the network. *)

\* The lock is free: clear the queue.
ClearQueue == queue' = <<>> /\ tun' = Closed(Idle)

\* shutdown(): its try_lock may fail.
Shutdown ==
  /\ MayShutdown /\ ~shutdown /\ shutdown' = TRUE
  /\ ClearQueue \/ (Contended /\ UNCHANGED <<queue, tun>>)
  /\ NotifyWaiters
  /\ UNCHANGED <<getterVars, builderVars, statVars, size, mgr, calls>>

\* purge_idle(): its try_lock may fail, and then nobody is notified.
PurgeIdle ==
  /\ calls.purge < MaxPurges /\ calls' = [calls EXCEPT !.purge = @ + 1]
  /\ stats' = Forgiven(stats) /\ spawnedInPause' = 0
  /\ \/ ClearQueue /\ NotifyWaiters
     \/ Contended /\ UNCHANGED <<queue, tun, notifyVars>>
  /\ UNCHANGED <<getterVars, builderVars, size, mgr, shutdown>>

\* set_pool_size(n)
SetPoolSize(n) ==
  /\ calls.resize < MaxResizes /\ calls' = [calls EXCEPT !.resize = @ + 1]
  /\ LET new == MaxOf(n, 1)
         raised == IF new > size.max THEN MaxOf(size.target, new \div 2) ELSE size.target
     IN  size' = [target |-> MaxOf(MinOf(raised, new), 1), max |-> new]
  /\ NotifyWaiters
  /\ UNCHANGED <<tunnelVars, getterVars, builderVars, statVars, mgr, shutdown>>

\* An idle tunnel passes its max_age, or the server closes it.
Decay(t) ==
  /\ t \in Idle /\ tun[t] = "good"
  /\ \E d \in Decays : tun' = [tun EXCEPT ![t] = d]
  /\ UNCHANGED <<queue, getterVars, notifyVars, builderVars, statVars, ctlVars>>

-----------------------------------------------------------------------------

GetterStep(g) ==
  \/ Get(g) \/ Pop(g) \/ Acquire(g) \/ DialOk(g) \/ DialFail(g)
  \/ WaitPop(g) \/ WaitPark(g) \/ WaitWake(g)
  \/ RefillCheck(g) \/ RefillPush(g) \/ GiveUp(g) \/ Release(g)

TaskStep(t) ==
  TaskStart(t) \/ TaskDialOk(t) \/ TaskDialFail(t) \/ TaskPush(t) \/ TaskFinish(t)

BuilderStep == BuilderTop \/ BuilderReadIdle \/ BuilderDecide \/ BuilderSpawn

ManagerStep == ManagerWake \/ ManagerSweep

Next ==
  \/ \E g \in Getters : GetterStep(g)
  \/ \E t \in Tunnels : TaskStep(t) \/ Decay(t)
  \/ BuilderStep \/ ManagerStep \/ PauseExpires
  \/ Shutdown \/ PurgeIdle \/ \E n \in Resizes : SetPoolSize(n)

Spec == Init /\ [][Next]_vars

\* The tokio runtime polls every ready task; a dial ends within its connect
\* timeout, and get() within ten seconds.  Nothing makes a caller release its
\* tunnel or a dial succeed.
FairSpec ==
  /\ Spec
  /\ \A g \in Getters :
       /\ WF_vars(Pop(g) \/ Acquire(g) \/ WaitPop(g) \/ WaitPark(g) \/ WaitWake(g)
                  \/ RefillCheck(g) \/ RefillPush(g))
       /\ SF_vars(GiveUp(g))
  /\ \A t \in Tunnels : WF_vars(TaskStep(t))
  /\ WF_vars(BuilderStep) /\ WF_vars(ManagerStep)
-----------------------------------------------------------------------------
(* Properties. *)

TunnelTypes ==
  /\ queue \in Seq(Tunnels)
  /\ tun \in [Tunnels -> {"free", "dialing", "good", "aged", "dead"}]

GetterTypes ==
  /\ gpc \in [Getters -> {"idle", "pop", "acquire", "race", "waitq", "refill", "push", "repop", "use"}]
  /\ held \in [Getters -> Tunnels \cup {None}] /\ sem \in Nat

NotifyTypes ==
  /\ token \in BOOLEAN /\ waiters \in Seq(Getters)
  /\ wpc \in [Getters -> {"off", "check", "park", "passed", "parked", "one", "all"}]

BuilderTypes ==
  /\ bld \in [pc : {"top", "idle", "inflight", "spawn", "stopped"},
              idle : Nat, target : Nat, max : Nat, burst : Nat]
  /\ task \in [Tunnels -> {"none", "start", "dial", "push", "finish"}] /\ inFlight \in Nat

StatTypes ==
  stats \in [fails : Nat, auth : Nat, paused : BOOLEAN] /\ spawnedInPause \in Nat

ControlTypes ==
  /\ size \in [target : Nat \ {0}, max : Nat \ {0}]
  /\ mgr \in [pc : {"sleep", "sweep", "stopped"}, target : Nat, max : Nat]
  /\ shutdown \in BOOLEAN /\ calls \in [purge : Nat, resize : Nat]

\* Every variable has its type; in_flight, an unsigned atomic, never wraps
\* below zero, and neither size ever reaches zero.
TypeOK ==
  TunnelTypes /\ GetterTypes /\ NotifyTypes /\ BuilderTypes /\ StatTypes /\ ControlTypes

\* However get() ends (dial, queue, failure, timeout, cancellation of either
\* branch of the select), the permit it took comes back exactly once.
PermitsConserved == sem + Cardinality({g \in Getters : gpc[g] = "race"}) = OnDemandLimit

\* in_flight counts the dial tasks that have not ended, on every way out of
\* the task.
InFlightExact == inFlight = Cardinality({t \in Tunnels : task[t] # "none"})

\* The Builder never has more dials in flight than the largest size the pool
\* was ever given: max_size caps them even across its racy reads and a resize.
InFlightBounded == inFlight <= LargestSize

\* The Builder reads the idle count and in_flight at two moments and spawns
\* later, and refill_or_take checks and pushes under two locks, so the pool
\* overshoots its size: by one round, one refilled queue and one tunnel per
\* getter, and never by more.
PoolBounded ==
  LET building == {t \in Tunnels : task[t] \in {"start", "dial", "push"}} IN
  Len(queue) + Cardinality(building) <= 3 * LargestSize - 1 + Cardinality(Getters)

\* Once the auth pause has begun, at most the round the Builder had already
\* decided on still dials.
PauseBoundsDials == spawnedInPause <= BurstCap

\* The Builder's racy reads never cost more than these bounds, and in_flight
\* never drifts from the dials it counts.
DialsBounded == InFlightExact /\ InFlightBounded /\ PoolBounded /\ PauseBoundsDials

\* get() returns: its ten-second timeout covers the race, the queue and the
\* refill, whatever the network does.
GetReturns == \A g \in Getters : gpc[g] = "pop" ~> gpc[g] \in {"idle", "use"}

\* After shutdown() both background tasks end and no dial stays in flight,
\* wherever the flag finds them.
ShutdownQuiesces == shutdown ~> [](bld.pc = "stopped" /\ mgr.pc = "stopped" /\ inFlight = 0)

\* Whatever set_pool_size and the Manager overwrite of each other, the target
\* settles between the floor and the maximum.
TargetSettles ==
  <>[](shutdown \/ (Floor(size.max) <= size.target /\ size.target <= size.max))

\* With no caller, the Builder fills the pool to its target again and again,
\* however many dials failed before: in_flight never strands it.
WarmsUp == []<>(shutdown \/ Len(queue) >= size.target)
=============================================================================
