--------------------------- MODULE WarmPoolProofs ---------------------------
(***************************************************************************)
(* Proofs about WarmPool, for every number of getters, tunnels and permits *)
(* and every sequence of sizes: type correctness, the exact count and the  *)
(* bound of the dials in flight, and the conservation of permits.          *)
(***************************************************************************)
EXTENDS WarmPool, FiniteSetTheorems, SequenceTheorems, TLAPS

(* Helpers. *)

\* Closing sockets keeps the slots' type.
LEMMA ClosedType ==
  ASSUME TunnelTypes, NEW S
  PROVE  Closed(S) \in [Tunnels -> {"free", "dialing", "good", "aged", "dead"}]
BY DEF TunnelTypes, Closed

\* Popping a prefix of the queue keeps the tunnels' types.
LEMMA PopToType ==
  ASSUME TunnelTypes, NEW i \in 0..Len(queue), NEW keep, NEW S, PopTo(i, keep, S)
  PROVE  TunnelTypes'
<1>1. queue' \in Seq(Tunnels)
  BY SubSeqProperties DEF PopTo, TunnelTypes
<1>2. tun' \in [Tunnels -> {"free", "dialing", "good", "aged", "dead"}]
  BY ClosedType DEF PopTo
<1>. QED  BY <1>1, <1>2 DEF TunnelTypes

\* An idle tunnel is a tunnel.
LEMMA QueueElement ==
  ASSUME TunnelTypes, NEW i \in DOMAIN queue
  PROVE  queue[i] \in Tunnels /\ i \in 0..Len(queue)
BY DEF TunnelTypes

\* The whole queue is a prefix of itself.
LEMMA WholeQueue ==
  ASSUME TunnelTypes
  PROVE  Len(queue) \in 0..Len(queue) /\ Len(queue) \in Nat
BY DEF TunnelTypes

WaitStates == {"off", "check", "park", "passed", "parked", "one", "all"}

\* notify_one keeps the types of the Notify.
LEMMA NotifyOneType ==
  ASSUME NotifyTypes, NEW w \in [Getters -> WaitStates], NEW ws \in Seq(Getters), NotifyOneAt(w, ws)
  PROVE  NotifyTypes'
<1>1. CASE ws = <<>>
  BY <1>1 DEF NotifyOneAt, NotifyTypes, WaitStates
<1>2. CASE ws # <<>>
  <2>1. Tail(ws) \in Seq(Getters)
    BY <1>2, HeadTailProperties
  <2>. QED  BY <1>2, <2>1 DEF NotifyOneAt, NotifyTypes, WaitStates
<1>. QED  BY <1>1, <1>2

\* Taking a getter out of the wait list leaves a wait list.
LEMMA UnlistedType ==
  ASSUME NotifyTypes, NEW g \in Getters
  PROVE  Unlisted(g) \in Seq(Getters)
<1>1. CASE \E i \in DOMAIN waiters : waiters[i] = g
  <2>. DEFINE i == CHOOSE i \in DOMAIN waiters : waiters[i] = g
  <2>1. i \in 1..Len(waiters)
    BY <1>1 DEF NotifyTypes
  <2>. HIDE DEF i
  <2>2. SubSeq(waiters, 1, i - 1) \in Seq(Getters)
    BY <2>1, SubSeqProperties DEF NotifyTypes
  <2>3. SubSeq(waiters, i + 1, Len(waiters)) \in Seq(Getters)
    BY <2>1, SubSeqProperties DEF NotifyTypes
  <2>4. SubSeq(waiters, 1, i - 1) \o SubSeq(waiters, i + 1, Len(waiters)) \in Seq(Getters)
    BY <2>2, <2>3, ConcatProperties
  <2>. QED  BY <1>1, <2>4 DEF Unlisted, i
<1>2. CASE ~\E i \in DOMAIN waiters : waiters[i] = g
  BY <1>2 DEF Unlisted, NotifyTypes
<1>. QED  BY <1>1, <1>2

\* Dropping a wait future keeps the types of the Notify.
LEMMA DropWaitType ==
  ASSUME NotifyTypes, NEW g \in Getters, NEW s \in WaitStates, DropWait(g, s)
  PROVE  NotifyTypes'
<1>. DEFINE w == [wpc EXCEPT ![g] = s]
<1>1. w \in [Getters -> WaitStates]
  BY DEF NotifyTypes, WaitStates
<1>2. CASE wpc[g] = "one"
  BY <1>1, <1>2, NotifyOneType DEF DropWait, NotifyTypes
<1>3. CASE wpc[g] # "one"
  BY <1>1, <1>3, UnlistedType DEF DropWait, NotifyTypes, WaitStates
<1>. QED  BY <1>2, <1>3

-----------------------------------------------------------------------------
(* The parts of the inductive invariant. *)

\* A getter that refills the pool or uses a tunnel holds one.
HolderHasTunnel ==
  \A g \in Getters : gpc[g] \in {"refill", "push", "use"} => held[g] \in Tunnels

\* No size the pool has or the Manager has loaded exceeds the largest one
\* given, and the Manager never works on a size of zero.
SizesFit ==
  /\ size.target <= LargestSize /\ size.max <= LargestSize
  /\ mgr.target <= LargestSize /\ mgr.max <= LargestSize
  /\ mgr.pc = "sweep" => mgr.target >= 1 /\ mgr.max >= 1

\* The idle tunnels are tunnels.
LEMMA IdleType ==
  ASSUME TunnelTypes
  PROVE  Idle \subseteq Tunnels
BY DEF TunnelTypes, Idle

\* notify_waiters keeps the types of the Notify.
LEMMA NotifyWaitersType ==
  ASSUME NotifyTypes, NotifyWaiters
  PROVE  NotifyTypes'
BY DEF NotifyTypes, NotifyWaiters

\* decide_new_target stays between one and the largest size.
LEMMA NewTargetFits ==
  ASSUME NEW cur \in 1..LargestSize, NEW max \in 1..LargestSize, NEW v \in Verdicts
  PROVE  DecideNewTarget(cur, v, max) \in 1..LargestSize
<1>1. Floor(max) \in 1..max
  BY SizesAssumption DEF Floor, MaxOf, MinOf
<1>2. cur \div 5 \in Nat
  BY SizesAssumption
<1>. QED  BY <1>1, <1>2, SizesAssumption DEF DecideNewTarget, Clamped, MaxOf, MinOf

\* Every step keeps the types of the queue and the sockets.
LEMMA TunnelStep ==
  ASSUME TypeOK, HolderHasTunnel, [Next]_vars
  PROVE  TunnelTypes'
<1>0. CASE UNCHANGED tunnelVars
  BY <1>0 DEF TypeOK, TunnelTypes, tunnelVars
<1>1. ASSUME NEW g \in Getters, GetterStep(g)  PROVE TunnelTypes'
  <2>1. CASE Pop(g)
    BY <2>1, PopToType, WholeQueue, QueueElement DEF Pop, TypeOK
  <2>2. CASE Acquire(g)
    BY <2>2 DEF Acquire, Slots, TypeOK, TunnelTypes
  <2>3. CASE DialOk(g)
    BY <2>3 DEF DialOk, TypeOK, TunnelTypes
  <2>4. CASE DialFail(g)
    BY <2>4, ClosedType DEF DialFail, TypeOK, TunnelTypes
  <2>5. CASE WaitPop(g)
    BY <2>5, PopToType, WholeQueue, QueueElement DEF WaitPop, TypeOK
  <2>6. CASE RefillPush(g)
    BY <2>6 DEF RefillPush, HolderHasTunnel, TypeOK, TunnelTypes
  <2>7. CASE GiveUp(g)
    BY <2>7, ClosedType DEF GiveUp, TypeOK, TunnelTypes
  <2>8. CASE Release(g)
    BY <2>8, ClosedType DEF Release, TypeOK, TunnelTypes
  <2>9. CASE Get(g) \/ WaitPark(g) \/ WaitWake(g) \/ RefillCheck(g)
    BY <2>9, <1>0 DEF Get, WaitPark, WaitWake, RefillCheck, tunnelVars
  <2>. QED  BY <2>1, <2>2, <2>3, <2>4, <2>5, <2>6, <2>7, <2>8, <2>9, <1>1 DEF GetterStep
<1>2. ASSUME NEW t \in Tunnels, TaskStep(t) \/ Decay(t)  PROVE TunnelTypes'
  <2>1. CASE TaskStart(t)
    BY <2>1 DEF TaskStart, TypeOK, TunnelTypes
  <2>2. CASE TaskDialOk(t)
    BY <2>2, ClosedType DEF TaskDialOk, TypeOK, TunnelTypes
  <2>3. CASE TaskDialFail(t)
    BY <2>3, ClosedType DEF TaskDialFail, TypeOK, TunnelTypes
  <2>4. CASE TaskPush(t)
    BY <2>4 DEF TaskPush, TypeOK, TunnelTypes
  <2>5. CASE Decay(t)
    BY <2>5, KindsAssumption DEF Decay, TypeOK, TunnelTypes
  <2>6. CASE TaskFinish(t)
    BY <2>6, <1>0 DEF TaskFinish, tunnelVars
  <2>. QED  BY <2>1, <2>2, <2>3, <2>4, <2>5, <2>6, <1>2 DEF TaskStep
<1>3. CASE BuilderStep
  BY <1>3, <1>0 DEF BuilderStep, BuilderTop, BuilderReadIdle, BuilderDecide, BuilderSpawn, tunnelVars
<1>4. CASE ManagerStep \/ PauseExpires \/ Shutdown \/ PurgeIdle
  <2>1. CASE ManagerSweep
    <3>1. PICK n \in 0..Len(queue) : \E q \in [1..n -> Idle] : queue' = q
      BY <2>1 DEF ManagerSweep
    <3>2. queue' \in Seq(Tunnels)
      BY <3>1, IdleType, IsASeq, WholeQueue DEF TypeOK
    <3>3. tun' = Closed({t \in Idle : tun[t] = "aged"})
      BY <2>1 DEF ManagerSweep
    <3>. QED  BY <3>2, <3>3, ClosedType DEF TypeOK, TunnelTypes
  <2>2. CASE Shutdown
    <3>1. (queue' = <<>> \/ queue' = queue)
      BY <2>2 DEF Shutdown, ClearQueue
    <3>2. tun' = Closed(Idle) \/ tun' = tun
      BY <2>2 DEF Shutdown, ClearQueue
    <3>. QED  BY <3>1, <3>2, ClosedType, EmptySeq DEF TypeOK, TunnelTypes
  <2>3. CASE PurgeIdle
    <3>1. (queue' = <<>> \/ queue' = queue)
      BY <2>3 DEF PurgeIdle, ClearQueue
    <3>2. tun' = Closed(Idle) \/ tun' = tun
      BY <2>3 DEF PurgeIdle, ClearQueue
    <3>. QED  BY <3>1, <3>2, ClosedType, EmptySeq DEF TypeOK, TunnelTypes
  <2>4. CASE ManagerWake \/ PauseExpires
    BY <2>4, <1>0 DEF ManagerWake, PauseExpires, tunnelVars
  <2>. QED  BY <2>1, <2>2, <2>3, <2>4, <1>4 DEF ManagerStep
<1>5. ASSUME NEW n \in Resizes, SetPoolSize(n)  PROVE TunnelTypes'
  BY <1>5, <1>0 DEF SetPoolSize, tunnelVars
<1>. QED  BY <1>0, <1>1, <1>2, <1>3, <1>4, <1>5 DEF Next, vars

\* Every step keeps the types of the getters, and a getter that is to push or
\* use a tunnel holds one.
LEMMA GetterTypeStep ==
  ASSUME TypeOK, HolderHasTunnel, [Next]_vars
  PROVE  GetterTypes' /\ HolderHasTunnel'
<1>0. CASE UNCHANGED getterVars
  BY <1>0 DEF TypeOK, GetterTypes, HolderHasTunnel, getterVars
<1>1. ASSUME NEW g \in Getters, GetterStep(g)  PROVE GetterTypes' /\ HolderHasTunnel'
  <2>1. CASE Get(g)
    BY <2>1, LimitsAssumption, QueueElement
      DEF Get, Goto, Hold, HolderHasTunnel, TypeOK, GetterTypes
  <2>2. CASE Pop(g)
    BY <2>2, LimitsAssumption, QueueElement
      DEF Pop, Goto, Hold, HolderHasTunnel, TypeOK, GetterTypes
  <2>3. CASE Acquire(g)
    BY <2>3, LimitsAssumption, QueueElement
      DEF Acquire, Goto, Hold, Slots, HolderHasTunnel, TypeOK, GetterTypes
  <2>4. CASE DialOk(g)
    BY <2>4, LimitsAssumption, QueueElement
      DEF DialOk, Goto, Hold, DropPermit, HolderHasTunnel, TypeOK, GetterTypes
  <2>5. CASE DialFail(g)
    BY <2>5, LimitsAssumption, QueueElement
      DEF DialFail, Goto, Hold, DropPermit, HolderHasTunnel, TypeOK, GetterTypes
  <2>6. CASE WaitPop(g)
    BY <2>6, LimitsAssumption, QueueElement
      DEF WaitPop, Goto, Hold, DropPermit, getterVars, HolderHasTunnel, TypeOK,
            GetterTypes
  <2>7. CASE RefillCheck(g)
    BY <2>7, LimitsAssumption, QueueElement
      DEF RefillCheck, Goto, Hold, HolderHasTunnel, TypeOK, GetterTypes
  <2>8. CASE RefillPush(g)
    BY <2>8, LimitsAssumption, QueueElement
      DEF RefillPush, Goto, Hold, HolderHasTunnel, TypeOK, GetterTypes
  <2>9. CASE GiveUp(g)
    BY <2>9, LimitsAssumption, QueueElement
      DEF GiveUp, Goto, Hold, DropPermit, HolderHasTunnel, TypeOK, GetterTypes
  <2>10. CASE Release(g)
    BY <2>10, LimitsAssumption, QueueElement
      DEF Release, Goto, Hold, HolderHasTunnel, TypeOK, GetterTypes
  <2>11. CASE WaitPark(g) \/ WaitWake(g)
    BY <2>11, <1>0 DEF WaitPark, WaitWake, getterVars
  <2>. QED  BY <2>1, <2>2, <2>3, <2>4, <2>5, <2>6, <2>7, <2>8, <2>9, <2>10, <2>11, <1>1 DEF GetterStep
<1>2. ASSUME NEW t \in Tunnels, TaskStep(t) \/ Decay(t)  PROVE GetterTypes' /\ HolderHasTunnel'
  BY <1>2, <1>0 DEF TaskStep, TaskStart, TaskDialOk, TaskDialFail, TaskPush, TaskFinish, Decay,
    getterVars
<1>3. CASE BuilderStep
  BY <1>3, <1>0 DEF BuilderStep, BuilderTop, BuilderReadIdle, BuilderDecide, BuilderSpawn, getterVars
<1>4. CASE ManagerStep \/ PauseExpires \/ Shutdown \/ PurgeIdle
  BY <1>4, <1>0 DEF ManagerStep, ManagerWake, ManagerSweep, PauseExpires, Shutdown, PurgeIdle,
    getterVars
<1>5. ASSUME NEW n \in Resizes, SetPoolSize(n)  PROVE GetterTypes' /\ HolderHasTunnel'
  BY <1>5, <1>0 DEF SetPoolSize, getterVars
<1>. QED  BY <1>0, <1>1, <1>2, <1>3, <1>4, <1>5 DEF Next, vars

\* Every step keeps the types of the Notify and of the wait futures.
LEMMA NotifyTypeStep ==
  ASSUME TypeOK, [Next]_vars
  PROVE  NotifyTypes'
<1>0. CASE UNCHANGED notifyVars
  BY <1>0 DEF TypeOK, NotifyTypes, notifyVars
<1>1. ASSUME NEW g \in Getters, GetterStep(g)  PROVE NotifyTypes'
  <2>1. CASE Pop(g)
    BY <2>1 DEF Pop, notifyVars, TypeOK, NotifyTypes
  <2>2. CASE Acquire(g)
    BY <2>2 DEF Acquire, TypeOK, NotifyTypes
  <2>3. CASE DialOk(g)
    BY <2>3, DropWaitType DEF DialOk, TypeOK, WaitStates
  <2>4. CASE DialFail(g)
    BY <2>4, DropWaitType DEF DialFail, TypeOK, WaitStates
  <2>5. CASE WaitPop(g)
    BY <2>5, DropWaitType DEF WaitPop, TypeOK, NotifyTypes, WaitStates
  <2>6. CASE WaitPark(g)
    <3>1. Append(waiters, g) \in Seq(Getters)
      BY AppendProperties DEF TypeOK, NotifyTypes
    <3>. QED  BY <2>6, <3>1 DEF WaitPark, TypeOK, NotifyTypes
  <2>7. CASE WaitWake(g)
    BY <2>7 DEF WaitWake, TypeOK, NotifyTypes
  <2>8. CASE RefillPush(g)
    BY <2>8, NotifyOneType DEF RefillPush, NotifyOne, TypeOK, NotifyTypes, WaitStates
  <2>9. CASE GiveUp(g)
    BY <2>9, DropWaitType DEF GiveUp, TypeOK, WaitStates
  <2>10. CASE Get(g) \/ RefillCheck(g) \/ Release(g)
    BY <2>10, <1>0 DEF Get, RefillCheck, Release, notifyVars
  <2>. QED  BY <2>1, <2>2, <2>3, <2>4, <2>5, <2>6, <2>7, <2>8, <2>9, <2>10, <1>1 DEF GetterStep
<1>2. ASSUME NEW t \in Tunnels, TaskStep(t) \/ Decay(t)  PROVE NotifyTypes'
  <2>1. CASE TaskFinish(t)
    BY <2>1, NotifyOneType DEF TaskFinish, NotifyOne, TypeOK, NotifyTypes, WaitStates
  <2>2. CASE TaskStart(t) \/ TaskDialOk(t) \/ TaskDialFail(t) \/ TaskPush(t)
            \/ Decay(t)
    BY <2>2, <1>0 DEF TaskStart, TaskDialOk, TaskDialFail, TaskPush, Decay, notifyVars
  <2>. QED  BY <2>1, <2>2, <1>2 DEF TaskStep
<1>3. CASE BuilderStep
  BY <1>3, <1>0 DEF BuilderStep, BuilderTop, BuilderReadIdle, BuilderDecide, BuilderSpawn, notifyVars
<1>4. CASE ManagerStep \/ PauseExpires \/ Shutdown \/ PurgeIdle
  <2>1. CASE Shutdown
    BY <2>1, NotifyWaitersType DEF Shutdown, TypeOK
  <2>2. CASE PurgeIdle
    BY <2>2, NotifyWaitersType, <1>0 DEF PurgeIdle, notifyVars, TypeOK
  <2>3. CASE ManagerWake \/ ManagerSweep \/ PauseExpires
    BY <2>3, <1>0 DEF ManagerWake, ManagerSweep, PauseExpires, notifyVars
  <2>. QED  BY <2>1, <2>2, <2>3, <1>4 DEF ManagerStep
<1>5. ASSUME NEW n \in Resizes, SetPoolSize(n)  PROVE NotifyTypes'
  BY <1>5, NotifyWaitersType DEF SetPoolSize, TypeOK
<1>. QED  BY <1>0, <1>1, <1>2, <1>3, <1>4, <1>5 DEF Next, vars

\* Every step keeps the types of PoolStats.
LEMMA StatTypeStep ==
  ASSUME TypeOK, [Next]_vars
  PROVE  StatTypes'
<1>0. CASE UNCHANGED statVars
  BY <1>0 DEF TypeOK, StatTypes, statVars
<1>1. ASSUME NEW g \in Getters, GetterStep(g)  PROVE StatTypes'
  <2>1. CASE DialOk(g)
    BY <2>1, LimitsAssumption DEF DialOk, RecordSuccess, Forgiven, TypeOK, StatTypes
  <2>2. CASE Get(g) \/ Pop(g) \/ Acquire(g) \/ DialFail(g) \/ WaitPop(g)
            \/ WaitPark(g) \/ WaitWake(g) \/ RefillCheck(g) \/ RefillPush(g)
            \/ GiveUp(g) \/ Release(g)
    BY <2>2, <1>0 DEF Get, Pop, Acquire, DialFail, WaitPop, WaitPark, WaitWake, RefillCheck,
      RefillPush, GiveUp, Release, statVars
  <2>. QED  BY <2>1, <2>2, <1>1 DEF GetterStep
<1>2. ASSUME NEW t \in Tunnels, TaskStep(t) \/ Decay(t)  PROVE StatTypes'
  <2>1. CASE TaskDialOk(t)
    BY <2>1, LimitsAssumption DEF TaskDialOk, RecordSuccess, Forgiven, TypeOK, StatTypes
  <2>2. CASE TaskDialFail(t)
    <3>1. PICK e \in Errors : RecordFailure(e)
      BY <2>2 DEF TaskDialFail
    <3>. DEFINE a == IF e = "auth" THEN MinOf(stats.auth + 1, AuthThreshold) ELSE 0
    <3>2. a \in Nat /\ MinOf(stats.fails + 1, HealthCap) \in Nat
      BY LimitsAssumption DEF MinOf, HealthCap, TypeOK, StatTypes
    <3>3. (stats.paused \/ a >= AuthThreshold) \in BOOLEAN
      OBVIOUS
    <3>. HIDE DEF a
    <3>4. stats' = [fails |-> MinOf(stats.fails + 1, HealthCap), auth |-> a,
                    paused |-> (stats.paused \/ a >= AuthThreshold)]
      BY <3>1 DEF RecordFailure, a
    <3>5. spawnedInPause' = spawnedInPause
      BY <3>1 DEF RecordFailure
    <3>. QED  BY <3>2, <3>3, <3>4, <3>5, Zenon DEF TypeOK, StatTypes
  <2>3. CASE TaskStart(t) \/ TaskPush(t) \/ TaskFinish(t) \/ Decay(t)
    BY <2>3, <1>0 DEF TaskStart, TaskPush, TaskFinish, Decay, statVars
  <2>. QED  BY <2>1, <2>2, <2>3, <1>2 DEF TaskStep
<1>3. CASE BuilderStep
  <2>1. CASE BuilderSpawn
    BY <2>1, LimitsAssumption DEF BuilderSpawn, MinOf, TypeOK, BuilderTypes, StatTypes
  <2>2. CASE BuilderTop \/ BuilderReadIdle \/ BuilderDecide
    BY <2>2, <1>0 DEF BuilderTop, BuilderReadIdle, BuilderDecide, statVars
  <2>. QED  BY <2>1, <2>2, <1>3 DEF BuilderStep
<1>4. CASE ManagerStep \/ PauseExpires \/ Shutdown \/ PurgeIdle
  <2>1. CASE PauseExpires
    BY <2>1, LimitsAssumption DEF PauseExpires, RecordSuccess, Forgiven, TypeOK, StatTypes
  <2>2. CASE PurgeIdle
    BY <2>2, LimitsAssumption DEF PurgeIdle, RecordSuccess, Forgiven, TypeOK, StatTypes
  <2>3. CASE ManagerWake \/ ManagerSweep \/ Shutdown
    BY <2>3, <1>0 DEF ManagerWake, ManagerSweep, Shutdown, statVars
  <2>. QED  BY <2>1, <2>2, <2>3, <1>4 DEF ManagerStep
<1>5. ASSUME NEW n \in Resizes, SetPoolSize(n)  PROVE StatTypes'
  BY <1>5, <1>0 DEF SetPoolSize, statVars
<1>. QED  BY <1>0, <1>1, <1>2, <1>3, <1>4, <1>5 DEF Next, vars

\* Every step keeps the types of the sizes and of the Manager, and no size
\* exceeds the largest one given.
LEMMA ControlStep ==
  ASSUME TypeOK, SizesFit, [Next]_vars
  PROVE  ControlTypes' /\ SizesFit'
<1>0. CASE UNCHANGED ctlVars
  BY <1>0 DEF TypeOK, ControlTypes, SizesFit, ctlVars
<1>1. ASSUME NEW g \in Getters, GetterStep(g)  PROVE ControlTypes' /\ SizesFit'
  BY <1>1, <1>0 DEF GetterStep, Get, Pop, Acquire, DialOk, DialFail, WaitPop, WaitPark, WaitWake,
    RefillCheck, RefillPush, GiveUp, Release, ctlVars
<1>2. ASSUME NEW t \in Tunnels, TaskStep(t) \/ Decay(t)  PROVE ControlTypes' /\ SizesFit'
  BY <1>2, <1>0 DEF TaskStep, TaskStart, TaskDialOk, TaskDialFail, TaskPush, TaskFinish, Decay, ctlVars
<1>3. CASE BuilderStep
  BY <1>3, <1>0 DEF BuilderStep, BuilderTop, BuilderReadIdle, BuilderDecide, BuilderSpawn, ctlVars
<1>4. CASE ManagerStep \/ PauseExpires \/ Shutdown \/ PurgeIdle
  <2>1. CASE ManagerWake
    BY <2>1 DEF ManagerWake, TypeOK, ControlTypes, SizesFit
  <2>2. CASE ManagerSweep
    <3>1. mgr.target \in 1..LargestSize /\ mgr.max \in 1..LargestSize
      BY <2>2, SizesAssumption DEF ManagerSweep, TypeOK, ControlTypes, SizesFit
    <3>2. PICK new \in 1..LargestSize :
            size' = IF new # mgr.target THEN [size EXCEPT !.target = new] ELSE size
      BY <2>2, <3>1, NewTargetFits DEF ManagerSweep
    <3>3. mgr' = [pc |-> "sleep", target |-> 0, max |-> 0] /\ UNCHANGED <<shutdown, calls>>
      BY <2>2 DEF ManagerSweep
    <3>. QED  BY <3>2, <3>3, SizesAssumption DEF TypeOK, ControlTypes, SizesFit
  <2>3. CASE Shutdown
    BY <2>3 DEF Shutdown, TypeOK, ControlTypes, SizesFit
  <2>4. CASE PurgeIdle
    BY <2>4 DEF PurgeIdle, TypeOK, ControlTypes, SizesFit
  <2>5. CASE PauseExpires
    BY <2>5, <1>0 DEF PauseExpires, ctlVars
  <2>. QED  BY <2>1, <2>2, <2>3, <2>4, <2>5, <1>4 DEF ManagerStep
<1>5. ASSUME NEW n \in Resizes, SetPoolSize(n)  PROVE ControlTypes' /\ SizesFit'
  BY <1>5, SizesAssumption DEF SetPoolSize, MaxOf, MinOf, TypeOK, ControlTypes, SizesFit
<1>. QED  BY <1>0, <1>1, <1>2, <1>3, <1>4, <1>5 DEF Next, vars

-----------------------------------------------------------------------------
(* The dials in flight. *)

Busy == {t \in Tunnels : task[t] # "none"}

\* Between the Builder's decision and the round it decided on, the round fits.
BuildFits ==
  /\ bld.target <= LargestSize /\ bld.max <= LargestSize
  /\ inFlight <= LargestSize
  /\ bld.pc = "spawn" => bld.burst >= 1 /\ inFlight + bld.burst <= LargestSize

\* The tasks are finitely many.
LEMMA BusyFinite == IsFiniteSet(Busy) /\ Cardinality(Busy) \in Nat /\ IsFiniteSet(Busy') /\ Cardinality(Busy') \in Nat
BY SlotsAssumption, FS_Subset, FS_CardinalityType DEF Busy

\* A task that ends takes one off the count.
LEMMA EndingCounts ==
  ASSUME NEW t \in Tunnels, task[t] # "none", TypeOK, InFlightExact, TaskEnds(t)
  PROVE  InFlightExact' /\ inFlight' \in Nat /\ inFlight' <= inFlight
         /\ task' \in [Tunnels -> {"none", "start", "dial", "push", "finish"}]
<1>1. Busy' = Busy \ {t} /\ t \in Busy
  BY DEF TaskEnds, Busy, TypeOK, BuilderTypes
<1>2. Cardinality(Busy') = Cardinality(Busy) - 1
  BY <1>1, BusyFinite, FS_RemoveElement
<1>. QED  BY <1>2, BusyFinite DEF InFlightExact, Busy, TaskEnds, TypeOK, BuilderTypes

\* A task that moves on without ending leaves the count.
LEMMA MovingCounts ==
  ASSUME NEW t \in Tunnels, task[t] # "none", TypeOK, InFlightExact, NEW s \in {"dial", "push", "finish"},
         task' = [task EXCEPT ![t] = s], inFlight' = inFlight
  PROVE  InFlightExact' /\ task' \in [Tunnels -> {"none", "start", "dial", "push", "finish"}]
<1>1. Busy' = Busy
  BY DEF Busy, TypeOK, BuilderTypes
<1>. QED  BY <1>1 DEF InFlightExact, Busy, TypeOK, BuilderTypes

\* A round of dials adds its size to the count.
LEMMA SpawningCounts ==
  ASSUME TypeOK, InFlightExact, BuilderSpawn
  PROVE  InFlightExact' /\ task' \in [Tunnels -> {"none", "start", "dial", "push", "finish"}]
<1>1. PICK S \in SUBSET Slots :
        /\ Cardinality(S) = bld.burst
        /\ task' = [t \in Tunnels |-> IF t \in S THEN "start" ELSE task[t]]
  BY DEF BuilderSpawn
<1>2. Busy' = Busy \cup S /\ Busy \cap S = {} /\ S \subseteq Tunnels
  BY <1>1 DEF Busy, Slots, TypeOK, BuilderTypes
<1>3. IsFiniteSet(S) /\ Cardinality(S) \in Nat
  BY <1>2, SlotsAssumption, FS_Subset, FS_CardinalityType
<1>4. Cardinality(Busy') = Cardinality(Busy) + Cardinality(S)
  <2>1. Cardinality(Busy \cup S) = Cardinality(Busy) + Cardinality(S) - Cardinality(Busy \cap S)
    BY <1>3, BusyFinite, FS_Union
  <2>2. Cardinality(Busy \cap S) = 0
    BY <1>2, FS_EmptySet
  <2>. QED  BY <1>2, <1>3, <2>1, <2>2, BusyFinite
<1>5. inFlight' = inFlight + bld.burst
  BY DEF BuilderSpawn
<1>. QED  BY <1>1, <1>4, <1>5 DEF InFlightExact, Busy, TypeOK, BuilderTypes

\* Every step keeps the types of the Builder and its tasks, in_flight counts
\* exactly the tasks that run, and never exceeds the largest size.
LEMMA BuilderStepInv ==
  ASSUME TypeOK, SizesFit, InFlightExact, BuildFits, [Next]_vars
  PROVE  BuilderTypes' /\ InFlightExact' /\ BuildFits'
<1>. DEFINE Goal == BuilderTypes' /\ InFlightExact' /\ BuildFits'
<1>0. CASE UNCHANGED builderVars
  BY <1>0 DEF TypeOK, BuilderTypes, InFlightExact, BuildFits, builderVars
<1>1. ASSUME NEW g \in Getters, GetterStep(g)  PROVE UNCHANGED builderVars
  BY <1>1 DEF GetterStep, Get, Pop, Acquire, DialOk, DialFail, WaitPop, WaitPark, WaitWake,
    RefillCheck, RefillPush, GiveUp, Release
<1>2. ASSUME NEW t \in Tunnels, TaskStep(t)  PROVE Goal
  <2>1. ASSUME TaskEnds(t), task[t] # "none", bld' = bld  PROVE Goal
    <3>1. InFlightExact' /\ inFlight' \in Nat /\ inFlight' <= inFlight
          /\ task' \in [Tunnels -> {"none", "start", "dial", "push", "finish"}]
      BY <2>1, EndingCounts
    <3>2. BuilderTypes'
      BY <2>1, <3>1 DEF TypeOK, BuilderTypes
    <3>3. bld.burst \in Nat /\ inFlight \in Nat
      BY DEF TypeOK, BuilderTypes
    <3>4. BuildFits'
      BY <2>1, <3>1, <3>3, SizesAssumption DEF BuildFits
    <3>. QED  BY <3>1, <3>2, <3>4
  <2>2. ASSUME NEW s \in {"dial", "push", "finish"}, task' = [task EXCEPT ![t] = s],
               task[t] # "none", inFlight' = inFlight, bld' = bld
        PROVE  Goal
    BY <2>2, MovingCounts DEF TypeOK, BuilderTypes, BuildFits
  <2>3. CASE TaskStart(t)
    BY <2>1, <2>2, <2>3 DEF TaskStart
  <2>4. CASE TaskDialOk(t)
    BY <2>1, <2>2, <2>4 DEF TaskDialOk
  <2>5. CASE TaskDialFail(t)
    BY <2>1, <2>5 DEF TaskDialFail
  <2>6. CASE TaskPush(t)
    BY <2>2, <2>6 DEF TaskPush
  <2>7. CASE TaskFinish(t)
    BY <2>1, <2>7 DEF TaskFinish
  <2>. QED  BY <1>2, <2>3, <2>4, <2>5, <2>6, <2>7 DEF TaskStep
<1>3. CASE BuilderStep
  <2>1. CASE BuilderTop
    <3>1. task' = task /\ inFlight' = inFlight
      BY <2>1 DEF BuilderTop
    <3>2. CASE bld' = [bld EXCEPT !.pc = "stopped"]
      BY <3>1, <3>2 DEF TypeOK, BuilderTypes, InFlightExact, BuildFits
    <3>3. CASE bld' = [bld EXCEPT !.pc = "idle", !.target = size.target, !.max = size.max]
      <4>1. BuilderTypes'
        BY <3>1, <3>3 DEF TypeOK, BuilderTypes, ControlTypes
      <4>2. BuildFits'
        BY <3>1, <3>3 DEF TypeOK, BuilderTypes, SizesFit, BuildFits
      <4>. QED  BY <3>1, <4>1, <4>2 DEF InFlightExact
    <3>. QED  BY <2>1, <3>2, <3>3 DEF BuilderTop
  <2>2. CASE BuilderReadIdle
    BY <2>2, WholeQueue DEF BuilderReadIdle, TypeOK, BuilderTypes, InFlightExact, BuildFits
  <2>3. CASE BuilderDecide
    <3>1. task' = task /\ inFlight' = inFlight
      BY <2>3 DEF BuilderDecide
    <3>2. CASE Have >= bld.target \/ Have >= bld.max
      BY <2>3, <3>1, <3>2 DEF BuilderDecide, TypeOK, BuilderTypes, InFlightExact, BuildFits
    <3>3. CASE ~(Have >= bld.target \/ Have >= bld.max)
      <4>1. PICK b \in {1, Burst(bld.target - Have)} : bld' = [bld EXCEPT !.pc = "spawn", !.burst = b]
        BY <2>3, <3>3 DEF BuilderDecide
      <4>2. b \in Nat /\ b >= 1 /\ inFlight + b <= bld.target
        BY <3>3, <4>1, LimitsAssumption DEF Burst, Have, MaxOf, MinOf, TypeOK, BuilderTypes
      <4>3. BuilderTypes' /\ InFlightExact'
        BY <3>1, <4>1, <4>2 DEF TypeOK, BuilderTypes, InFlightExact
      <4>4. bld'.pc = "spawn" /\ bld'.burst = b /\ bld'.target = bld.target /\ bld'.max = bld.max
        BY <4>1 DEF TypeOK, BuilderTypes
      <4>5. inFlight \in Nat /\ bld.target \in Nat
        BY DEF TypeOK, BuilderTypes
      <4>6. BuildFits'
        BY <3>1, <4>2, <4>4, <4>5, SizesAssumption DEF BuildFits
      <4>. QED  BY <4>3, <4>6
    <3>. QED  BY <3>2, <3>3
  <2>4. CASE BuilderSpawn
    <3>1. bld' = [bld EXCEPT !.pc = "top", !.burst = 0] /\ inFlight' = inFlight + bld.burst
          /\ bld.pc = "spawn"
      BY <2>4 DEF BuilderSpawn
    <3>2. InFlightExact' /\ task' \in [Tunnels -> {"none", "start", "dial", "push", "finish"}]
      BY <2>4, SpawningCounts
    <3>3. bld.burst \in Nat /\ inFlight \in Nat
      BY DEF TypeOK, BuilderTypes
    <3>4. bld' \in [pc : {"top", "idle", "inflight", "spawn", "stopped"},
                   idle : Nat, target : Nat, max : Nat, burst : Nat]
          /\ bld'.pc = "top" /\ bld'.target = bld.target /\ bld'.max = bld.max
      BY <3>1 DEF TypeOK, BuilderTypes
    <3>5. BuilderTypes'
      BY <3>1, <3>2, <3>3, <3>4 DEF BuilderTypes
    <3>6. BuildFits'
      BY <3>1, <3>3, <3>4, SizesAssumption DEF BuildFits
    <3>. QED  BY <3>2, <3>5, <3>6
  <2>. QED  BY <1>3, <2>1, <2>2, <2>3, <2>4 DEF BuilderStep
<1>4. ASSUME \/ ManagerStep \/ PauseExpires \/ Shutdown \/ PurgeIdle
             \/ (\E n \in Resizes : SetPoolSize(n)) \/ (\E t \in Tunnels : Decay(t))
      PROVE  UNCHANGED builderVars
  BY <1>4 DEF ManagerStep, ManagerWake, ManagerSweep, PauseExpires, Shutdown, PurgeIdle,
    SetPoolSize, Decay
<1>. QED  BY <1>0, <1>1, <1>2, <1>3, <1>4 DEF Next, vars

-----------------------------------------------------------------------------
(* The invariant. *)

IInv == TypeOK /\ HolderHasTunnel /\ SizesFit /\ InFlightExact /\ BuildFits

\* The invariant holds when the pool is made.
LEMMA InitInv == Init => IInv
<1>. SUFFICES ASSUME Init  PROVE IInv
  OBVIOUS
<1>1. TypeOK
  <2>1. TunnelTypes /\ GetterTypes
    BY LimitsAssumption, EmptySeq DEF Init, TunnelTypes, GetterTypes
  <2>2. NotifyTypes /\ BuilderTypes
    BY EmptySeq DEF Init, NotifyTypes, BuilderTypes
  <2>3. StatTypes
    BY DEF Init, StatTypes
  <2>4. ControlTypes
    <3>1. size \in [target : Nat \ {0}, max : Nat \ {0}]
      BY SizesAssumption DEF Init
    <3>2. mgr \in [pc : {"sleep", "sweep", "stopped"}, target : Nat, max : Nat]
      BY DEF Init
    <3>3. shutdown \in BOOLEAN /\ calls \in [purge : Nat, resize : Nat]
      BY DEF Init
    <3>. QED  BY <3>1, <3>2, <3>3 DEF ControlTypes
  <2>. QED  BY <2>1, <2>2, <2>3, <2>4 DEF TypeOK
<1>2. HolderHasTunnel /\ SizesFit /\ BuildFits
  BY SizesAssumption DEF Init, HolderHasTunnel, SizesFit, BuildFits
<1>3. InFlightExact
  <2>1. {t \in Tunnels : task[t] # "none"} = {}
    BY DEF Init
  <2>. QED  BY <2>1, FS_EmptySet DEF Init, InFlightExact
<1>. QED  BY <1>1, <1>2, <1>3 DEF IInv

\* Every step keeps the invariant, part by part.
LEMMA NextInv == IInv /\ [Next]_vars => IInv'
<1>. SUFFICES ASSUME IInv, [Next]_vars  PROVE IInv'
  OBVIOUS
<1>1. TypeOK' /\ HolderHasTunnel' /\ SizesFit' /\ InFlightExact' /\ BuildFits'
  BY TunnelStep, GetterTypeStep, NotifyTypeStep, StatTypeStep, ControlStep, BuilderStepInv
  DEF IInv, TypeOK
<1>. QED  BY <1>1 DEF IInv

\* The inductive invariant holds in every reachable state.
THEOREM InvariantHolds == Spec => []IInv
BY InitInv, NextInv, PTL DEF Spec

\* Every variable keeps its type, for any number of getters, tunnels and
\* calls: in_flight never wraps below zero and no size becomes zero.
THEOREM TypeCorrect == Spec => []TypeOK
<1>1. IInv => TypeOK
  BY DEF IInv
<1>. QED  BY <1>1, InvariantHolds, PTL

\* in_flight is exactly the number of dial tasks that run.
THEOREM InFlightIsExact == Spec => []InFlightExact
<1>1. IInv => InFlightExact
  BY DEF IInv
<1>. QED  BY <1>1, InvariantHolds, PTL

\* However stale the Builder's reads are, and however set_pool_size and the
\* Manager race, no more dials are in flight than the largest size given.
THEOREM InFlightIsBounded == Spec => []InFlightBounded
<1>1. IInv => InFlightBounded
  BY DEF IInv, BuildFits, InFlightBounded
<1>. QED  BY <1>1, InvariantHolds, PTL

-----------------------------------------------------------------------------
(* The permits. *)

Racing == {g \in Getters : gpc[g] = "race"}

\* Finitely many getters race.
LEMMA RacingFinite == IsFiniteSet(Racing) /\ Cardinality(Racing) \in Nat
BY SlotsAssumption, FS_Subset, FS_CardinalityType DEF Racing

\* A getter that takes a permit enters the race.
LEMMA EnterRace ==
  ASSUME GetterTypes, PermitsConserved, NEW g \in Getters, gpc[g] # "race",
         Goto(g, "race"), sem' = sem - 1
  PROVE  PermitsConserved'
<1>1. Racing' = Racing \cup {g} /\ g \notin Racing
  BY DEF Racing, GetterTypes, Goto
<1>2. Cardinality(Racing') = Cardinality(Racing) + 1
  BY <1>1, RacingFinite, FS_AddElement
<1>. QED  BY <1>2, RacingFinite DEF PermitsConserved, Racing, GetterTypes

\* Wherever a getter goes when it stops racing, its permit comes back; one
\* that did not race gives nothing back.
LEMMA LeaveRace ==
  ASSUME GetterTypes, PermitsConserved, NEW g \in Getters, NEW pc, pc # "race",
         Goto(g, pc), DropPermit(g)
  PROVE  PermitsConserved'
<1>1. CASE gpc[g] = "race"
  <2>1. Racing' = Racing \ {g} /\ g \in Racing
    BY <1>1 DEF Racing, GetterTypes, Goto
  <2>2. Cardinality(Racing') = Cardinality(Racing) - 1
    BY <2>1, RacingFinite, FS_RemoveElement
  <2>. QED  BY <1>1, <2>2, RacingFinite DEF PermitsConserved, Racing, GetterTypes, DropPermit
<1>2. CASE gpc[g] # "race"
  <2>1. Racing' = Racing
    BY <1>2 DEF Racing, GetterTypes, Goto
  <2>. QED  BY <1>2, <2>1 DEF PermitsConserved, Racing, DropPermit
<1>. QED  BY <1>1, <1>2

\* Every step conserves the permits; only getters touch them.
LEMMA PermitStep ==
  ASSUME GetterTypes, PermitsConserved, [Next]_vars
  PROVE  PermitsConserved'
<1>0. CASE UNCHANGED getterVars
  BY <1>0 DEF PermitsConserved, getterVars
<1>1. ASSUME NEW g \in Getters, GetterStep(g)  PROVE PermitsConserved'
  <2>1. CASE Acquire(g)
    <3>1. CASE sem > 0
      BY <2>1, <3>1, EnterRace DEF Acquire
    <3>2. CASE ~(sem > 0)
      BY <2>1, <3>2, LeaveRace DEF Acquire, DropPermit
    <3>. QED  BY <3>1, <3>2
  <2>2. CASE DialOk(g) \/ DialFail(g) \/ GiveUp(g)
    BY <2>2, LeaveRace DEF DialOk, DialFail, GiveUp
  <2>3. CASE WaitPop(g)
    BY <2>3, LeaveRace, <1>0 DEF WaitPop
  <2>4. CASE Get(g) \/ Pop(g) \/ RefillCheck(g) \/ RefillPush(g) \/ Release(g)
    <3>1. PICK pc : pc # "race" /\ Goto(g, pc)
      BY <2>4 DEF Get, Pop, RefillCheck, RefillPush, Release
    <3>2. gpc[g] # "race" /\ sem' = sem
      BY <2>4 DEF Get, Pop, RefillCheck, RefillPush, Release
    <3>. QED  BY <3>1, <3>2, LeaveRace DEF DropPermit
  <2>5. CASE WaitPark(g) \/ WaitWake(g)
    BY <2>5, <1>0 DEF WaitPark, WaitWake
  <2>. QED  BY <1>1, <2>1, <2>2, <2>3, <2>4, <2>5 DEF GetterStep
<1>2. ASSUME NEW t \in Tunnels, TaskStep(t) \/ Decay(t)  PROVE UNCHANGED getterVars
  BY <1>2 DEF TaskStep, TaskStart, TaskDialOk, TaskDialFail, TaskPush, TaskFinish, Decay
<1>3. CASE BuilderStep
  BY <1>3, <1>0 DEF BuilderStep, BuilderTop, BuilderReadIdle, BuilderDecide, BuilderSpawn
<1>4. CASE ManagerStep \/ PauseExpires \/ Shutdown \/ PurgeIdle \/ \E n \in Resizes : SetPoolSize(n)
  BY <1>4, <1>0 DEF ManagerStep, ManagerWake, ManagerSweep, PauseExpires, Shutdown, PurgeIdle,
    SetPoolSize
<1>. QED  BY <1>0, <1>1, <1>2, <1>3, <1>4 DEF Next, vars

\* On every way out of get() (dial, queue, failure, timeout, cancellation) a
\* permit taken comes back exactly once, for any number of callers.
THEOREM PermitsAreConserved == Spec => []PermitsConserved
<1>1. Init => PermitsConserved
  <2>. SUFFICES ASSUME Init  PROVE PermitsConserved
    OBVIOUS
  <2>1. {g \in Getters : gpc[g] = "race"} = {} /\ sem = OnDemandLimit
    BY DEF Init
  <2>. QED  BY <2>1, FS_EmptySet, LimitsAssumption DEF PermitsConserved
<1>2. TypeOK /\ PermitsConserved /\ [Next]_vars => PermitsConserved'
  BY PermitStep DEF TypeOK
<1>. QED  BY <1>1, <1>2, TypeCorrect, PTL DEF Spec

-----------------------------------------------------------------------------
(* The pause. *)

\* Without a pause nothing counts; until its round is over the Builder has
\* spawned nothing in the pause, and a round is no larger than the cap.
PauseInv ==
  /\ spawnedInPause <= BurstCap /\ bld.burst <= BurstCap
  /\ ~stats.paused => spawnedInPause = 0
  /\ bld.pc \in {"idle", "inflight", "spawn"} => spawnedInPause = 0

\* Dials that succeed or fail, the end of a pause and a purge.
LEMMA PauseAndStats ==
  ASSUME StatTypes, PauseInv, bld' = bld,
         \/ RecordSuccess
         \/ \E e \in Errors : RecordFailure(e)
         \/ stats' = Forgiven(stats) /\ spawnedInPause' = 0
         \/ UNCHANGED statVars
  PROVE  PauseInv'
<1>1. CASE RecordSuccess \/ (stats' = Forgiven(stats) /\ spawnedInPause' = 0)
  <2>1. spawnedInPause' = 0
    BY <1>1 DEF RecordSuccess
  <2>. QED  BY <2>1, LimitsAssumption DEF PauseInv
<1>2. CASE \E e \in Errors : RecordFailure(e)
  <2>1. PICK e \in Errors : RecordFailure(e)
    BY <1>2
  <2>2. spawnedInPause' = spawnedInPause
    BY <2>1 DEF RecordFailure
  <2>3. PICK a : stats'.paused = (stats.paused \/ a >= AuthThreshold)
    BY <2>1 DEF RecordFailure
  <2>. QED  BY <2>2, <2>3 DEF PauseInv
<1>3. CASE UNCHANGED statVars
  BY <1>3 DEF PauseInv, statVars
<1>. QED  BY <1>1, <1>2, <1>3

\* Every step keeps the bound.
LEMMA PauseStep ==
  ASSUME TypeOK, PauseInv, [Next]_vars
  PROVE  PauseInv'
<1>. USE DEF TypeOK
<1>0. CASE UNCHANGED vars
  BY <1>0, PauseAndStats DEF vars, builderVars
<1>1. ASSUME NEW g \in Getters, GetterStep(g)  PROVE PauseInv'
  <2>1. bld' = bld
    BY <1>1 DEF GetterStep, Get, Pop, Acquire, DialOk, DialFail, WaitPop, WaitPark, WaitWake,
      RefillCheck, RefillPush, GiveUp, Release, builderVars
  <2>2. \/ RecordSuccess
        \/ \E e \in Errors : RecordFailure(e)
        \/ UNCHANGED statVars
    BY <1>1 DEF GetterStep, Get, Pop, Acquire, DialOk, DialFail, WaitPop, WaitPark, WaitWake,
      RefillCheck, RefillPush, GiveUp, Release
  <2>. QED  BY <2>1, <2>2, PauseAndStats
<1>2. ASSUME NEW t \in Tunnels, TaskStep(t) \/ Decay(t)  PROVE PauseInv'
  <2>1. bld' = bld
    BY <1>2 DEF TaskStep, TaskStart, TaskDialOk, TaskDialFail, TaskPush, TaskFinish, Decay,
      builderVars
  <2>2. \/ RecordSuccess
        \/ \E e \in Errors : RecordFailure(e)
        \/ UNCHANGED statVars
    BY <1>2 DEF TaskStep, TaskStart, TaskDialOk, TaskDialFail, TaskPush, TaskFinish, Decay
  <2>. QED  BY <2>1, <2>2, PauseAndStats
<1>3. CASE BuilderStep
  <2>1. CASE BuilderTop
    <3>1. UNCHANGED statVars /\ bld'.burst = bld.burst
      BY <2>1 DEF BuilderTop, BuilderTypes
    <3>2. ~stats.paused \/ bld'.pc = "stopped"
      BY <2>1 DEF BuilderTop, BuilderTypes, MayBuild
    <3>. QED  BY <3>1, <3>2 DEF PauseInv, statVars
  <2>2. CASE BuilderReadIdle
    BY <2>2 DEF BuilderReadIdle, BuilderTypes, PauseInv, statVars
  <2>3. CASE BuilderDecide
    <3>1. UNCHANGED statVars /\ bld.pc = "inflight"
      BY <2>3 DEF BuilderDecide
    <3>2. bld'.burst \in {bld.burst, 1, Burst(bld.target - Have)}
      BY <2>3 DEF BuilderDecide, BuilderTypes
    <3>3. Burst(bld.target - Have) <= BurstCap /\ 1 <= BurstCap
      BY LimitsAssumption DEF Burst, MaxOf, MinOf, Have, BuilderTypes
    <3>4. bld'.burst <= BurstCap
      BY <3>2, <3>3 DEF PauseInv
    <3>. QED  BY <3>1, <3>4 DEF PauseInv, statVars
  <2>4. CASE BuilderSpawn
    <3>1. stats' = stats /\ spawnedInPause = 0 /\ bld'.pc = "top" /\ bld'.burst = 0
      BY <2>4 DEF BuilderSpawn, BuilderTypes, PauseInv
    <3>2. spawnedInPause' = IF stats.paused THEN MinOf(0 + bld.burst, BurstCap + 1) ELSE 0
      BY <2>4, <3>1 DEF BuilderSpawn
    <3>3. spawnedInPause' <= BurstCap
      BY <3>2, LimitsAssumption DEF PauseInv, MinOf, BuilderTypes
    <3>. QED  BY <3>1, <3>2, <3>3, LimitsAssumption DEF PauseInv
  <2>. QED  BY <1>3, <2>1, <2>2, <2>3, <2>4 DEF BuilderStep
<1>4. CASE ManagerStep \/ Shutdown \/ \E n \in Resizes : SetPoolSize(n)
  <2>1. bld' = bld /\ UNCHANGED statVars
    BY <1>4 DEF ManagerStep, ManagerWake, ManagerSweep, Shutdown, SetPoolSize, builderVars
  <2>. QED  BY <2>1, PauseAndStats
<1>5. CASE PauseExpires \/ PurgeIdle
  <2>1. bld' = bld /\ stats' = Forgiven(stats) /\ spawnedInPause' = 0
    BY <1>5 DEF PauseExpires, PurgeIdle, builderVars
  <2>. QED  BY <2>1, PauseAndStats
<1>. QED  BY <1>0, <1>1, <1>2, <1>3, <1>4, <1>5 DEF Next

\* An auth pause lets through no more dials than the one round that was under
\* way when it began, however failures, callers and purges fall in between.
THEOREM PauseHolds == Spec => []PauseBoundsDials
<1>1. Init => PauseInv
  BY LimitsAssumption DEF Init, PauseInv
<1>2. TypeOK /\ PauseInv /\ [Next]_vars => PauseInv'
  BY PauseStep
<1>3. PauseInv => PauseBoundsDials
  BY DEF PauseInv, PauseBoundsDials
<1>. QED  BY <1>1, <1>2, <1>3, TypeCorrect, PTL DEF Spec
-----------------------------------------------------------------------------
(* The size of the pool. *)

Building == {t \in Tunnels : task[t] \in {"start", "dial", "push"}}
Pushing == {g \in Getters : gpc[g] = "push"}

\* What is in the queue or on its way into it.
Weight == Len(queue) + Cardinality(Building) + Cardinality(Pushing)

\* Most tunnels there can be while the Builder holds an idle count, which
\* others may have made stale since.
Reach == MaxOf(bld.idle, LargestSize - 1) + LargestSize + Cardinality(Getters)

PoolInv ==
  /\ Weight <= 3 * LargestSize - 1 + Cardinality(Getters)
  /\ bld.pc \in {"inflight", "spawn"} => Weight <= Reach
  /\ bld.pc = "spawn" => bld.idle + bld.burst <= LargestSize

\* The three parts of the weight are numbers; dials and getters bound two.
Measured ==
  /\ Len(queue) \in Nat
  /\ IsFiniteSet(Building) /\ Cardinality(Building) \in 0..LargestSize
  /\ IsFiniteSet(Pushing) /\ Cardinality(Pushing) \in 0..Cardinality(Getters)
  /\ Cardinality(Getters) \in Nat
  /\ Weight \in Nat /\ Reach \in Int

\* They are in every state of the inductive invariant.
LEMMA Measurable == IInv => Measured
<1>. SUFFICES ASSUME IInv  PROVE Measured
  OBVIOUS
<1>1. Building \subseteq Busy /\ Pushing \subseteq Getters
  BY DEF Building, Busy, Pushing
<1>2. Cardinality(Building) <= Cardinality(Busy) /\ IsFiniteSet(Building)
  BY <1>1, BusyFinite, FS_Subset
<1>3. Cardinality(Busy) <= LargestSize
  BY DEF IInv, InFlightExact, Busy, BuildFits
<1>4. IsFiniteSet(Pushing) /\ Cardinality(Pushing) <= Cardinality(Getters)
  BY <1>1, SlotsAssumption, FS_Subset
<1>5. Cardinality(Building) \in Nat /\ Cardinality(Pushing) \in Nat /\ Cardinality(Getters) \in Nat
  BY <1>2, <1>4, SlotsAssumption, FS_CardinalityType
<1>6. Len(queue) \in Nat
  BY DEF IInv, TypeOK, TunnelTypes
<1>7. Weight \in Nat
  BY <1>5, <1>6 DEF Weight
<1>8. bld.idle \in Nat
  BY DEF IInv, TypeOK, BuilderTypes
<1>9. Reach \in Int
  BY <1>5, <1>8, SizesAssumption DEF Reach, MaxOf
<1>10. Cardinality(Building) <= LargestSize
  BY <1>2, <1>3, <1>5, BusyFinite, SizesAssumption
<1>. QED  BY <1>2, <1>4, <1>5, <1>6, <1>7, <1>9, <1>10, SizesAssumption DEF Measured

\* And after a step that keeps it.
LEMMA MeasurableNext == IInv' => Measured'
BY Measurable, PTL

\* A step that adds nothing and leaves the Builder alone.
LEMMA NothingAdded ==
  ASSUME IInv, IInv', PoolInv, bld' = bld, Len(queue') <= Len(queue),
         Building' \subseteq Building, Pushing' \subseteq Pushing
  PROVE  PoolInv'
<1>0. Measured /\ Measured'
  BY Measurable, MeasurableNext
<1>. USE DEF Measured
<1>1. Cardinality(Building') <= Cardinality(Building)
  BY <1>0, FS_Subset
<1>2. Cardinality(Pushing') <= Cardinality(Pushing)
  BY <1>0, FS_Subset
<1>3. Weight' <= Weight /\ Weight \in Nat /\ Weight' \in Nat
  BY <1>1, <1>2, <1>0 DEF Weight
<1>4. Reach \in Int /\ Reach' = Reach
  BY <1>0, SizesAssumption DEF Reach, MaxOf, IInv, TypeOK, BuilderTypes
<1>5. Weight' <= 3 * LargestSize - 1 + Cardinality(Getters)
  BY <1>3, <1>0, SizesAssumption DEF PoolInv
<1>6. bld.pc \in {"inflight", "spawn"} => Weight' <= Reach'
  BY <1>3, <1>4 DEF PoolInv
<1>. QED  BY <1>5, <1>6 DEF PoolInv

\* The getters: popping shortens the queue, a check that passes adds a tunnel
\* to a queue below its target, and the push moves it.
LEMMA GetterWeight ==
  ASSUME IInv, IInv', PoolInv, NEW g \in Getters, GetterStep(g)
  PROVE  PoolInv'
<1>0. Measured /\ Measured'
  BY Measurable, MeasurableNext
<1>. USE DEF Measured
<1>1. bld' = bld /\ Building' = Building
  BY DEF GetterStep, Get, Pop, Acquire, DialOk, DialFail, WaitPop, WaitPark, WaitWake,
    RefillCheck, RefillPush, GiveUp, Release, builderVars, Building
<1>. USE DEF IInv, TypeOK, GetterTypes
<1>2. CASE Pop(g) \/ WaitPop(g)
  <2>1. Len(queue') <= Len(queue)
    <3>1. PICK i \in 0..Len(queue) : queue' = SubSeq(queue, i + 1, Len(queue))
      BY <1>2, WholeQueue, QueueElement DEF Pop, WaitPop, PopTo
    <3>2. i + 1 \in 1..(Len(queue) + 1) /\ Len(queue) \in Nat /\ queue \in Seq(Tunnels)
      BY <3>1 DEF TunnelTypes
    <3>. QED  BY <3>1, <3>2, SubSeqProperties
  <2>2. Pushing' \subseteq Pushing
    BY <1>2 DEF Pushing, Pop, WaitPop, Goto, getterVars
  <2>. QED  BY <1>1, <2>1, <2>2, NothingAdded
<1>3. CASE Get(g) \/ Acquire(g) \/ DialOk(g) \/ DialFail(g) \/ WaitPark(g) \/ WaitWake(g)
             \/ GiveUp(g) \/ Release(g)
  <2>1. queue' = queue
    BY <1>3 DEF Get, Acquire, DialOk, DialFail, WaitPark, WaitWake, GiveUp, Release, tunnelVars
  <2>2. Pushing' \subseteq Pushing
    BY <1>3 DEF Pushing, Get, Acquire, DialOk, DialFail, WaitPark, WaitWake, GiveUp, Release,
      Goto, getterVars
  <2>. QED  BY <1>1, <2>1, <2>2, <1>0, NothingAdded
<1>4. CASE RefillCheck(g)
  <2>1. queue' = queue
    BY <1>4 DEF RefillCheck, tunnelVars
  <2>2. CASE Len(queue) < size.target
    <3>1. Len(queue) <= LargestSize - 1
      <4>1. size.target \in Nat /\ size.target <= LargestSize
        BY DEF ControlTypes, SizesFit
      <4>2. Len(queue) \in Nat /\ LargestSize \in Nat
        BY <1>0, SizesAssumption
      <4>. QED  BY <2>2, <4>1, <4>2
    <3>2. Weight' <= 2 * LargestSize - 1 + Cardinality(Getters)
      BY SMTT(30), <2>1, <3>1, <1>0, SizesAssumption DEF Weight
    <3>3. Reach' >= 2 * LargestSize - 1 + Cardinality(Getters)
      BY SMTT(30), <1>1, <1>0, SizesAssumption DEF Reach, MaxOf, BuilderTypes
    <3>4. Weight' \in Nat /\ Reach' \in Int
      BY <1>1, <1>0, SizesAssumption DEF Weight, Reach, MaxOf, BuilderTypes
    <3>5. Weight' <= 3 * LargestSize - 1 + Cardinality(Getters)
      BY SMTT(30), <3>2, <3>4, <1>0, SizesAssumption
    <3>6. Weight' <= Reach'
      BY <3>2, <3>3, <3>4, <1>0, SizesAssumption
    <3>. QED  BY <1>1, <3>5, <3>6 DEF PoolInv
  <2>3. CASE ~(Len(queue) < size.target)
    <3>1. Pushing' \subseteq Pushing
      BY <1>4, <2>3 DEF Pushing, RefillCheck, Goto
    <3>. QED  BY <1>1, <2>1, <3>1, <1>0, NothingAdded
  <2>. QED  BY <2>2, <2>3
<1>5. CASE RefillPush(g)
  <2>1. Len(queue') = Len(queue) + 1
    BY <1>5 DEF RefillPush, TunnelTypes, HolderHasTunnel
  <2>2. Pushing' = Pushing \ {g} /\ g \in Pushing
    BY <1>5 DEF Pushing, RefillPush, Goto
  <2>3. Cardinality(Pushing') = Cardinality(Pushing) - 1
    BY <2>2, <1>0, FS_RemoveElement
  <2>4. Weight' = Weight
    BY <1>1, <2>1, <2>3, <1>0 DEF Weight
  <2>. QED  BY <1>1, <2>4 DEF PoolInv, Reach
<1>. QED  BY <1>2, <1>3, <1>4, <1>5 DEF GetterStep

\* The dial tasks: a push moves a tunnel from the building ones to the queue.
LEMMA TaskWeight ==
  ASSUME IInv, IInv', PoolInv, NEW t \in Tunnels, TaskStep(t) \/ Decay(t)
  PROVE  PoolInv'
<1>0. Measured /\ Measured'
  BY Measurable, MeasurableNext
<1>. USE DEF Measured
<1>. USE DEF IInv, TypeOK, BuilderTypes
<1>1. bld' = bld /\ Pushing' = Pushing
  BY DEF TaskStep, TaskStart, TaskDialOk, TaskDialFail, TaskPush, TaskFinish, Decay, builderVars,
    getterVars, Pushing
<1>2. CASE TaskPush(t)
  <2>1. Len(queue') = Len(queue) + 1
    BY <1>2 DEF TaskPush, TunnelTypes
  <2>2. Building' = Building \ {t} /\ t \in Building
    BY <1>2 DEF Building, TaskPush
  <2>3. Cardinality(Building') = Cardinality(Building) - 1
    BY <2>2, <1>0, FS_RemoveElement
  <2>4. Weight' = Weight
    BY <1>1, <2>1, <2>3, <1>0 DEF Weight
  <2>. QED  BY <1>1, <2>4 DEF PoolInv, Reach
<1>3. CASE TaskStart(t) \/ TaskDialOk(t) \/ TaskDialFail(t) \/ TaskFinish(t) \/ Decay(t)
  <2>1. queue' = queue
    BY <1>3 DEF TaskStart, TaskDialOk, TaskDialFail, TaskFinish, Decay, tunnelVars
  <2>2. Building' \subseteq Building
    BY <1>3 DEF Building, TaskStart, TaskDialOk, TaskDialFail, TaskFinish, TaskEnds, Decay,
      builderVars
  <2>. QED  BY <1>1, <2>1, <2>2, <1>0, NothingAdded
<1>. QED  BY <1>2, <1>3 DEF TaskStep

\* The Builder: whatever came since it read its idle count, the round it
\* decided on fits beside that count.
LEMMA BuilderWeight ==
  ASSUME IInv, IInv', PoolInv, BuilderStep
  PROVE  PoolInv'
<1>0. Measured /\ Measured'
  BY Measurable, MeasurableNext
<1>. USE DEF Measured
<1>. USE DEF IInv, TypeOK, BuilderTypes
<1>1. queue' = queue /\ Pushing' = Pushing
  BY DEF BuilderStep, BuilderTop, BuilderReadIdle, BuilderDecide, BuilderSpawn, tunnelVars,
    getterVars, Pushing
<1>2. ASSUME task' = task  PROVE Weight' = Weight
  BY <1>1, <1>2 DEF Weight, Building
<1>3. CASE BuilderTop
  <2>1. task' = task /\ bld'.pc \in {"stopped", "idle"}
    BY <1>3 DEF BuilderTop
  <2>. QED  BY <2>1, <1>2 DEF PoolInv
<1>4. CASE BuilderReadIdle
  <2>1. task' = task /\ bld'.pc = "inflight" /\ bld'.idle = Len(queue)
    BY <1>4 DEF BuilderReadIdle
  <2>2. Reach' >= Len(queue) + LargestSize + Cardinality(Getters)
    <3>1. MaxOf(Len(queue), LargestSize - 1) >= Len(queue)
      BY <1>0, SizesAssumption DEF MaxOf
    <3>2. MaxOf(Len(queue), LargestSize - 1) \in Int
      BY <1>0, SizesAssumption DEF MaxOf
    <3>3. Reach' = MaxOf(Len(queue), LargestSize - 1) + LargestSize + Cardinality(Getters)
      BY <2>1 DEF Reach
    <3>4. LargestSize \in Nat /\ Cardinality(Getters) \in Nat /\ Len(queue) \in Nat
      BY <1>0, SizesAssumption
    <3>. HIDE DEF IInv
    <3>. QED  BY <3>1, <3>2, <3>3, <3>4
  <2>3. Weight <= Len(queue) + LargestSize + Cardinality(Getters)
    <3>. HIDE DEF IInv
    <3>1. /\ Len(queue) \in Nat /\ LargestSize \in Nat /\ Cardinality(Getters) \in Nat
          /\ Cardinality(Building) \in Nat /\ Cardinality(Pushing) \in Nat
          /\ Cardinality(Building) <= LargestSize /\ Cardinality(Pushing) <= Cardinality(Getters)
      BY <1>0, SizesAssumption
    <3>. QED  BY <3>1 DEF Weight
  <2>4. Weight <= Reach'
    <3>. HIDE DEF IInv
    <3>. QED  BY <2>2, <2>3, <1>0, SizesAssumption
  <2>. QED  BY <2>1, <2>4, <1>2 DEF PoolInv
<1>5. CASE BuilderDecide
  <2>1. task' = task /\ bld'.idle = bld.idle /\ bld.pc = "inflight"
    BY <1>5 DEF BuilderDecide
  <2>2. Reach' = Reach
    BY <2>1 DEF Reach
  <2>3. bld'.pc = "top" \/ bld'.pc = "spawn"
    BY <1>5 DEF BuilderDecide
  <2>4. bld'.pc = "spawn" => bld'.idle + bld'.burst <= LargestSize
    <3>1. CASE Have >= bld.target \/ Have >= bld.max
      BY <1>5, <3>1 DEF BuilderDecide
    <3>2. CASE ~(Have >= bld.target \/ Have >= bld.max)
      <4>1. bld'.burst = 1 \/ bld'.burst = Burst(bld.target - Have)
        BY <1>5, <3>2 DEF BuilderDecide
      <4>2. Burst(bld.target - Have) <= bld.target - Have /\ 1 <= bld.target - Have
        BY <3>2, LimitsAssumption DEF Burst, MaxOf, MinOf, Have
      <4>3. bld'.burst <= bld.target - Have /\ Burst(bld.target - Have) \in Int
        BY <4>1, <4>2, LimitsAssumption DEF Burst, MaxOf, MinOf, Have
      <4>. QED  BY <2>1, <4>3, SizesAssumption DEF Have, BuildFits
    <3>. QED  BY <3>1, <3>2
  <2>. QED  BY <2>1, <2>2, <2>3, <2>4, <1>2 DEF PoolInv
<1>6. CASE BuilderSpawn
  <2>1. PICK S \in SUBSET Slots :
          /\ Cardinality(S) = bld.burst
          /\ task' = [t \in Tunnels |-> IF t \in S THEN "start" ELSE task[t]]
    BY <1>6 DEF BuilderSpawn
  <2>2. bld.pc = "spawn" /\ bld'.pc = "top" /\ bld'.idle = bld.idle
    BY <1>6 DEF BuilderSpawn
  <2>3. Building' = Building \cup S /\ IsFiniteSet(S)
    BY <2>1, SlotsAssumption, FS_Subset DEF Building, Slots
  <2>4. Cardinality(Building') <= Cardinality(Building) + bld.burst
    <3>1. Cardinality(Building \cup S) = Cardinality(Building) + Cardinality(S) - Cardinality(Building \cap S)
      BY <2>3, <1>0, FS_Union
    <3>2. Cardinality(Building \cap S) \in Nat
      BY <2>3, FS_Intersection, FS_CardinalityType
    <3>3. Cardinality(Building) \in Nat /\ bld.burst \in Nat
      BY <1>0
    <3>. QED  BY <2>1, <2>3, <3>1, <3>2, <3>3
  <2>5. bld.idle + bld.burst <= LargestSize /\ bld.burst >= 1
    BY <2>2 DEF PoolInv, BuildFits
  <2>6. Weight <= 2 * LargestSize - 1 + Cardinality(Getters)
    <3>1. Reach = LargestSize - 1 + LargestSize + Cardinality(Getters)
      <4>1. bld.idle \in Nat /\ bld.burst \in Nat /\ LargestSize \in Nat
        BY SizesAssumption
      <4>2. bld.idle <= LargestSize - 1
        BY <2>5, <4>1
      <4>3. MaxOf(bld.idle, LargestSize - 1) = LargestSize - 1
        BY <4>1, <4>2 DEF MaxOf
      <4>. QED  BY <4>3 DEF Reach
    <3>. QED  BY <2>2, <3>1, <1>0, SizesAssumption DEF PoolInv
  <2>7. Weight' <= Weight + bld.burst
    <3>1. Cardinality(Building') \in Nat /\ bld.burst \in Nat
      BY <1>0
    <3>2. Weight' = Len(queue) + Cardinality(Building') + Cardinality(Pushing)
      BY <1>1 DEF Weight
    <3>3. Len(queue) \in Nat /\ Cardinality(Building) \in Nat /\ Cardinality(Pushing) \in Nat
      BY <1>0
    <3>. HIDE DEF IInv
    <3>. QED  BY <2>4, <3>1, <3>2, <3>3 DEF Weight
  <2>8. Weight \in Nat /\ Weight' \in Nat
    BY <1>0, <1>1 DEF Weight
  <2>9. Weight' <= 3 * LargestSize - 1 + Cardinality(Getters)
    <3>1. bld.idle \in Nat /\ bld.burst \in Nat /\ LargestSize \in Nat /\ Cardinality(Getters) \in Nat
      BY <1>0, SizesAssumption
    <3>2. bld.burst <= LargestSize
      BY <2>5, <3>1
    <3>. QED  BY <2>6, <2>7, <2>8, <3>1, <3>2
  <2>. QED  BY <2>2, <2>9 DEF PoolInv
<1>. QED  BY <1>3, <1>4, <1>5, <1>6 DEF BuilderStep

\* Every step keeps the bound.
LEMMA PoolStep ==
  ASSUME IInv, IInv', PoolInv, [Next]_vars
  PROVE  PoolInv'
<1>0. Measured /\ Measured'
  BY Measurable, MeasurableNext
<1>. USE DEF Measured
<1>1. CASE UNCHANGED vars
  BY <1>1, <1>0, NothingAdded
     DEF vars, tunnelVars, builderVars, getterVars, Building, Pushing
<1>2. ASSUME ManagerStep \/ PauseExpires \/ Shutdown \/ PurgeIdle \/ \E n \in Resizes : SetPoolSize(n)
      PROVE  PoolInv'
  <2>1. bld' = bld /\ Building' = Building /\ Pushing' = Pushing
    BY <1>2 DEF ManagerStep, ManagerWake, ManagerSweep, PauseExpires, Shutdown, PurgeIdle,
      SetPoolSize, builderVars, getterVars, Building, Pushing
  <2>2. CASE ManagerSweep
    <3>1. PICK n \in 0..Len(queue) : \E q \in [1..n -> Idle] : queue' = q
      BY <2>2 DEF ManagerSweep
    <3>2. PICK q \in [1..n -> Idle] : queue' = q
      BY <3>1
    <3>3. Len(queue') \in Nat /\ DOMAIN queue' = 1..Len(queue')
      BY <1>0 DEF IInv, TypeOK, TunnelTypes
    <3>4. Len(queue') = n
      BY <3>1, <3>2, <3>3, <1>0
    <3>. QED  BY <2>1, <3>1, <3>4, <1>0, NothingAdded
  <2>3. CASE ~ManagerSweep
    <3>1. queue' = queue \/ queue' = <<>>
      BY <1>2, <2>3 DEF ManagerStep, ManagerWake, PauseExpires, Shutdown, PurgeIdle, SetPoolSize,
        ClearQueue, tunnelVars
    <3>2. Len(queue') <= Len(queue)
      BY <3>1, <1>0
    <3>. QED  BY <2>1, <3>2, NothingAdded
  <2>. QED  BY <2>2, <2>3
<1>. QED  BY <1>1, <1>2, GetterWeight, TaskWeight, BuilderWeight DEF Next

\* The pool overshoots its largest size by the stated bound and no more, for
\* every number of getters and every order of reads, pushes and rounds.
THEOREM PoolIsBounded == Spec => []PoolBounded
<1>1. Init => PoolInv
  <2>. SUFFICES ASSUME Init  PROVE PoolInv
    OBVIOUS
  <2>1. Building = {} /\ Pushing = {} /\ Len(queue) = 0 /\ bld.pc = "top"
    BY DEF Init, Building, Pushing
  <2>2. Weight = 0
    BY <2>1, FS_EmptySet DEF Weight
  <2>3. Cardinality(Getters) \in Nat
    BY SlotsAssumption, FS_CardinalityType
  <2>. QED  BY <2>1, <2>2, <2>3, SizesAssumption DEF PoolInv
<1>2. IInv /\ IInv' /\ PoolInv /\ [Next]_vars => PoolInv'
  BY PoolStep
<1>3. IInv /\ PoolInv => PoolBounded
  <2>. SUFFICES ASSUME IInv, PoolInv  PROVE PoolBounded
    OBVIOUS
  <2>. QED  BY Measurable, SizesAssumption DEF Measured, PoolInv, PoolBounded, Weight, Building
<1>. QED  BY <1>1, <1>2, <1>3, InvariantHolds, PTL DEF Spec

\* in_flight is exact and bounded, and so are the pool and what dials in a pause.
THEOREM DialsAreBounded == Spec => []DialsBounded
<1>1. InFlightExact /\ InFlightBounded /\ PoolBounded /\ PauseBoundsDials => DialsBounded
  BY DEF DialsBounded
<1>. QED  BY <1>1, InFlightIsExact, InFlightIsBounded, PoolIsBounded, PauseHolds, PTL
=============================================================================
