------------------------- MODULE CoreServiceProofs -------------------------
(***************************************************************************)
(* Theorems about CoreService, for any number of threads, nodes, sessions  *)
(* and engines: types, the lock of a start, what becomes of engines, and   *)
(* that a service which says Running has a runtime.                        *)
(*                                                                         *)
(* The inductive invariant has three parts.  TypeOK is not inductive alone *)
(* for its last conjunct: LockOwner says which threads own stateLock.      *)
(* EnginesOwned says that an engine has one owner at a time, a stack, the  *)
(* setNode that will install it or the watchdog that tries a node on it,   *)
(* and that whoever is about to touch a stack holds a session that was     *)
(* built.  RunningInv, on top of it, says who sees to it that a service    *)
(* without a runtime stops or starts again.                                *)
(***************************************************************************)
EXTENDS CoreService, TLAPS

\* The places of a start that holds the lock; its cleanup runs stop().
Locked(r) ==
  \/ r.pc \in {"nstart", "build", "install", "spawn", "started", "failed", "unlock"}
  \/ r.cont = "unlock"

Cleaning(r) == r.pc = "unlock" \/ r.cont = "unlock"

\* cont is in use only while somebody stops.
ContOK(r) ==
  /\ r.pc \in {"take", "halt", "end", "clear", "destroy"} \/ r.cont = "idle"
  /\ r.pc \in {"clear", "destroy"} => r.cont = "stopped"

LockOwner ==
  /\ \A t \in Threads : Locked(th[t]) <=> stateLock = t
  /\ \A t \in Threads : ContOK(th[t])
  /\ \A t \in Threads : Cleaning(th[t]) => serviceState # "Starting"

Born(s) == s \in Sessions /\ stacks[s].phase # "unborn"

HandOK(r) ==
  /\ r.held = None \/ Born(r.held)
  /\ r.pc \in {"rebuild", "swap"} => r.held # None
  /\ r.pc = "swap" <=> r.eng # None
  /\ r.eng # None => r.eng \in live /\ \A s \in Sessions : stacks[s].engine # r.eng

WatchOK(w) == (w.held = None \/ Born(w.held)) /\ (w.pc = "pick" => w.held # None)

StacksOK ==
  /\ \A s \in Sessions : stacks[s].phase = "unborn" <=> stacks[s].engine = None
  /\ \A s \in Sessions : stacks[s].engine # None => stacks[s].engine \in 1..built
  /\ \A r, s \in Sessions :
       r # s /\ stacks[r].engine # None => stacks[r].engine # stacks[s].engine

\* The engine a node is tried on is in no stack and in no hand.
ProbesApart ==
  \A q \in Sessions : \A e \in probes[q] :
    (\A s \in Sessions : stacks[s].engine # e) /\ (\A t \in Threads : th[t].eng # e)

HandsApart ==
  \A t, u \in Threads : t # u /\ th[t].eng # None => th[t].eng # th[u].eng

EnginesOwned ==
  /\ StacksOK /\ HandsApart /\ ProbesApart
  /\ RUNTIME = None \/ Born(RUNTIME)
  /\ \A t \in Threads : HandOK(th[t])
  /\ \A s \in Sessions : WatchOK(wd[s])
  /\ CurrentEngineLives
  /\ NoOrphanEngine

IInv == TypeOK /\ LockOwner /\ EnginesOwned

-----------------------------------------------------------------------------
(* Types. *)

\* Facts about the constants that the record sets need.
LEMMA Nobody ==
  /\ None \in MaybeNode /\ None \in MaybeSession /\ None \in MaybeEngine
  /\ \A n \in Nodes : n \in MaybeNode /\ n # None
  /\ \A s \in Sessions : s \in MaybeSession /\ s # None
  /\ \A e \in Engines : e \in MaybeEngine /\ e # None
  /\ \A t \in Threads : t # None
BY NodesAssumption, BoundsAssumption
   DEF MaybeNode, MaybeSession, MaybeEngine, Sessions, Engines

\* A thread that steps gets a record, or only a new place.
LEMMA BecomesTyped ==
  ASSUME TypeOK, NEW t \in Threads, NEW r \in Hands, Becomes(t, r)
  PROVE  /\ th' \in [Threads -> Hands]
         /\ th'[t] = r /\ \A u \in Threads \ {t} : th'[u] = th[u]
BY DEF TypeOK, Becomes

\* Goto is Becomes with the rest of the record as it was.
LEMMA GotoBecomes ==
  ASSUME TypeOK, NEW t \in Threads, NEW p, Goto(t, p)
  PROVE  Becomes(t, At(p, th[t].cont, th[t].held, th[t].eng, th[t].arg))
<1>1. th[t] \in Hands
  BY DEF TypeOK
<1>2. [th[t] EXCEPT !.pc = p] = At(p, th[t].cont, th[t].held, th[t].eng, th[t].arg)
  BY <1>1 DEF Hands, At
<1> QED BY <1>2 DEF Goto, Becomes

\* A thread that changes its place keeps what it holds.
LEMMA GotoTyped ==
  ASSUME TypeOK, NEW t \in Threads, NEW p \in Places, Goto(t, p)
  PROVE  /\ th' \in [Threads -> Hands]
         /\ th'[t] = At(p, th[t].cont, th[t].held, th[t].eng, th[t].arg)
         /\ \A u \in Threads \ {t} : th'[u] = th[u]
<1>1. At(p, th[t].cont, th[t].held, th[t].eng, th[t].arg) \in Hands
  BY DEF TypeOK, Hands, At
<1> QED BY <1>1, GotoBecomes, BecomesTyped

\* Resting is a record of a thread.
LEMMA RestingTyped == Resting \in Hands
BY Nobody DEF Resting, At, Hands, Places

EnginesTyped ==
  /\ stacks \in [Sessions -> Stacks] /\ built \in 0..MaxEngines /\ live \subseteq 1..built
  /\ probes \in [Sessions -> SUBSET (1..built)]

\* Engine::new stays within the bound, and what is live was built.
LEMMA NewEngineTyped ==
  ASSUME TypeOK, NEW l, l \subseteq live, NewEngine(l)
  PROVE  /\ built' = built + 1 /\ built' \in 1..MaxEngines /\ built' \in Engines
         /\ live' \subseteq 1..built'
         /\ probes \in [Sessions -> SUBSET (1..built')]
<1>1. 1..built \subseteq 1..(built + 1)
  BY BoundsAssumption DEF TypeOK
<1>2. built' = built + 1 /\ probes \in [Sessions -> SUBSET (1..built)]
  BY DEF TypeOK, NewEngine
<1> QED BY <1>1, <1>2, BoundsAssumption DEF TypeOK, NewEngine, Engines

\* swap_engine changes one stack, and of it the engine.
LEMMA SwappedTyped ==
  ASSUME stacks \in [Sessions -> Stacks], NEW s \in Sessions, NEW e \in MaybeEngine
  PROVE  /\ SwappedEngine(s, e) \in [Sessions -> Stacks]
         /\ SwappedEngine(s, e)[s] = Stack(stacks[s].phase, e, stacks[s].udp)
         /\ \A r \in Sessions \ {s} : SwappedEngine(s, e)[r] = stacks[r]
<1>1. stacks[s] \in Stacks
  OBVIOUS
<1>2. Stack(stacks[s].phase, e, stacks[s].udp) \in Stacks
  BY <1>1 DEF Stack, Stacks
<1> QED BY <1>2 DEF SwappedEngine

\* TunStack::stop changes one stack, and of it the phase.
LEMMA StoppedTyped ==
  ASSUME stacks \in [Sessions -> Stacks], NEW s \in Sessions
  PROVE  /\ StoppedStack(s) \in [Sessions -> Stacks]
         /\ StoppedStack(s)[s] = Stack("stopped", stacks[s].engine, stacks[s].udp)
         /\ \A r \in Sessions \ {s} : StoppedStack(s)[r] = stacks[r]
<1>1. stacks[s] \in Stacks
  OBVIOUS
<1>2. Stack("stopped", stacks[s].engine, stacks[s].udp) \in Stacks
  BY <1>1 DEF Stack, Stacks
<1> QED BY <1>2 DEF StoppedStack

\* Stopping a stack keeps the types, whether it was up or not.
LEMMA StopTyped ==
  ASSUME TypeOK, NEW s \in Sessions, StopStack(s), UNCHANGED <<built, probes>>
  PROVE  EnginesTyped'
BY StoppedTyped DEF TypeOK, EnginesTyped, StopStack, ShutDown

\* Steps of the library keep the types.
LEMMA NativeTypes ==
  ASSUME TypeOK, NEW t \in Threads, NativeStep(t), UNCHANGED shellVars,
         th[t].pc = "swap" => th[t].held # None
  PROVE  TypeOK'
<1>h. th[t] \in Hands
  BY DEF TypeOK
<1>u. th' \in [Threads -> Hands]
  <2>1. CASE StartCheck(t)
    BY <2>1, GotoTyped DEF StartCheck, Places
  <2>2. CASE StartBuild(t)
    <3>1. PICK s \in Sessions : Becomes(t, At("install", "idle", s, None, None))
      BY <2>2 DEF StartBuild
    <3>2. At("install", "idle", s, None, None) \in Hands
      BY Nobody DEF At, Hands, Places
    <3> QED BY <3>1, <3>2, BecomesTyped
  <2>3. CASE StartBuildFails(t)
    BY <2>3, GotoTyped DEF StartBuildFails, Places
  <2>4. CASE StartInstall(t)
    BY <2>4, GotoTyped DEF StartInstall, Places
  <2>5. CASE StartSpawn(t)
    <3>1. At("started", "idle", None, None, None) \in Hands
      BY <1>h, Nobody DEF TypeOK, At, Hands, Places
    <3> QED BY <2>5, <3>1, BecomesTyped DEF StartSpawn
  <2>6. CASE StopTake(t)
    <3>1. At("halt", th[t].cont, RUNTIME, None, th[t].arg) \in Hands
      BY <1>h, Nobody DEF TypeOK, At, Hands, Places
    <3> QED BY <2>6, <3>1, BecomesTyped DEF StopTake
  <2>7. CASE StopHalt(t)
    <3>1. At("end", th[t].cont, None, None, th[t].arg) \in Hands
      BY <1>h, Nobody DEF TypeOK, At, Hands, Places
    <3> QED BY <2>7, <3>1, BecomesTyped DEF StopHalt
  <2>8. CASE StopEnd(t)
    <3>1. At(th[t].cont, "idle", None, None, th[t].arg) \in Hands
      BY <1>h, Nobody DEF TypeOK, At, Hands, Places
    <3> QED BY <2>8, <3>1, BecomesTyped DEF StopEnd
  <2>9. CASE SetNodeUri(t)
    BY <2>9, GotoTyped DEF SetNodeUri, Places
  <2>10. CASE SetNodeGrab(t)
    <3>1. At("rebuild", "idle", RUNTIME, None, None) \in Hands
      BY <1>h, Nobody DEF TypeOK, At, Hands, Places
    <3> QED BY <2>10, <3>1, BecomesTyped, RestingTyped DEF SetNodeGrab
  <2>11. CASE SetNodeRebuild(t)
    <3>1. built < MaxEngines => built + 1 \in Engines
      BY BoundsAssumption DEF TypeOK, Engines
    <3>2. built < MaxEngines => At("swap", "idle", th[t].held, built + 1, None) \in Hands
      BY <1>h, <3>1, Nobody DEF At, Hands, Places
    <3> QED BY <2>11, <3>2, BecomesTyped, RestingTyped DEF SetNodeRebuild, NewEngine
  <2>12. CASE SetNodeSwap(t)
    BY <2>12, BecomesTyped, RestingTyped DEF SetNodeSwap
  <2> QED BY <2>1, <2>2, <2>3, <2>4, <2>5, <2>6, <2>7, <2>8, <2>9, <2>10, <2>11, <2>12 DEF NativeStep
<1>e. EnginesTyped'
  <2>1. CASE StartCheck(t)
    BY <2>1 DEF StartCheck, TypeOK, EnginesTyped
  <2>2. CASE StartBuild(t)
    <3>1. PICK s \in Sessions : stacks' = [stacks EXCEPT ![s] = Stack("up", built + 1, built + 1)]
      BY <2>2 DEF StartBuild
    <3>2. NewEngine(live)
      BY <2>2 DEF StartBuild
    <3>3. Stack("up", built + 1, built + 1) \in Stacks
      BY <3>2, NewEngineTyped, Nobody DEF Stack, Stacks
    <3>4. stacks' \in [Sessions -> Stacks] /\ probes' = probes
      BY <2>2, <3>1, <3>3 DEF StartBuild, TypeOK
    <3> QED BY <3>2, <3>4, NewEngineTyped DEF EnginesTyped
  <2>3. CASE StartBuildFails(t)
    BY <2>3 DEF StartBuildFails, TypeOK, EnginesTyped
  <2>4. CASE StartInstall(t)
    BY <2>4 DEF StartInstall, TypeOK, EnginesTyped
  <2>5. CASE StartSpawn(t)
    BY <2>5 DEF StartSpawn, TypeOK, EnginesTyped
  <2>6. CASE StopTake(t)
    BY <2>6 DEF StopTake, TypeOK, EnginesTyped
  <2>7. CASE StopHalt(t)
    <3>1. CASE th[t].held = None
      BY <2>7, <3>1 DEF StopHalt, TypeOK, EnginesTyped
    <3>2. CASE th[t].held # None
      <4>1. th[t].held \in Sessions
        BY <1>h, <3>2 DEF Hands, MaybeSession
      <4> QED BY <2>7, <3>2, <4>1, StopTyped DEF StopHalt
    <3> QED BY <3>1, <3>2
  <2>8. CASE StopEnd(t)
    BY <2>8 DEF StopEnd, TypeOK, EnginesTyped
  <2>9. CASE SetNodeUri(t)
    BY <2>9 DEF SetNodeUri, TypeOK, EnginesTyped
  <2>10. CASE SetNodeGrab(t)
    BY <2>10 DEF SetNodeGrab, TypeOK, EnginesTyped, coreVars
  <2>11. CASE SetNodeRebuild(t)
    <3>1. CASE NewEngine(live)
      <4>1. UNCHANGED <<stacks, probes>>
        BY <2>11 DEF SetNodeRebuild
      <4> QED BY <3>1, <4>1, NewEngineTyped DEF EnginesTyped, TypeOK
    <3>2. CASE UNCHANGED <<built, live>>
      BY <2>11, <3>2 DEF SetNodeRebuild, EnginesTyped, TypeOK
    <3> QED BY <2>11, <3>1, <3>2 DEF SetNodeRebuild
  <2>12. CASE SetNodeSwap(t)
    <3>1. th[t].eng \in MaybeEngine
      BY <1>h DEF Hands
    <3>2. th[t].held \in Sessions
      BY <2>12, <1>h DEF SetNodeSwap, Hands, MaybeSession
    <3>3. SwappedEngine(th[t].held, th[t].eng) \in [Sessions -> Stacks]
      BY <3>1, <3>2, SwappedTyped DEF TypeOK
    <3> QED BY <2>12, <3>3 DEF SetNodeSwap, EnginesTyped, TypeOK, ShutDown
  <2> QED BY <2>1, <2>2, <2>3, <2>4, <2>5, <2>6, <2>7, <2>8, <2>9, <2>10, <2>11, <2>12 DEF NativeStep
<1>r. /\ STARTED' \in BOOLEAN /\ RUNTIME' \in MaybeSession
      /\ CURRENT_NODE_URI' \in MaybeNode /\ WATCHDOG_GEN' \in Nat
  <2>1. CASE StartCheck(t)
    BY <2>1, <1>h, Nobody DEF StartCheck, TypeOK, Hands
  <2>2. CASE StartBuild(t)
    BY <2>2, <1>h, Nobody DEF StartBuild, TypeOK
  <2>3. CASE StartBuildFails(t)
    BY <2>3, <1>h, Nobody DEF StartBuildFails, TypeOK
  <2>4. CASE StartInstall(t)
    BY <2>4, <1>h, Nobody DEF StartInstall, TypeOK, Hands
  <2>5. CASE StartSpawn(t)
    BY <2>5, <1>h, Nobody DEF StartSpawn, TypeOK
  <2>6. CASE StopTake(t)
    BY <2>6, <1>h, Nobody DEF StopTake, TypeOK
  <2>7. CASE StopHalt(t)
    BY <2>7, <1>h, Nobody DEF StopHalt, TypeOK
  <2>8. CASE StopEnd(t)
    BY <2>8, <1>h, Nobody DEF StopEnd, TypeOK
  <2>9. CASE SetNodeUri(t)
    BY <2>9, <1>h, Nobody DEF SetNodeUri, TypeOK, Hands
  <2>10. CASE SetNodeGrab(t)
    BY <2>10, <1>h, Nobody DEF SetNodeGrab, TypeOK, coreVars
  <2>11. CASE SetNodeRebuild(t)
    BY <2>11, <1>h, Nobody DEF SetNodeRebuild, TypeOK
  <2>12. CASE SetNodeSwap(t)
    BY <2>12, <1>h, Nobody DEF SetNodeSwap, TypeOK
  <2> QED BY <2>1, <2>2, <2>3, <2>4, <2>5, <2>6, <2>7, <2>8, <2>9, <2>10, <2>11, <2>12 DEF NativeStep
<1>w. wd' \in [Sessions -> Watchdogs]
  <2>1. CASE StartCheck(t)
    BY <2>1 DEF StartCheck, TypeOK
  <2>2. CASE StartBuild(t)
    BY <2>2 DEF StartBuild, TypeOK
  <2>3. CASE StartBuildFails(t)
    BY <2>3 DEF StartBuildFails, TypeOK
  <2>4. CASE StartInstall(t)
    BY <2>4 DEF StartInstall, TypeOK
  <2>5. CASE StartSpawn(t)
    <3>1. Watchdog("sleep", WATCHDOG_GEN + 1, FALSE, None, None) \in Watchdogs
      BY Nobody DEF TypeOK, Watchdog, Watchdogs
    <3> QED BY <2>5, <3>1 DEF StartSpawn, TypeOK, MaybeSession
  <2>6. CASE StopTake(t)
    BY <2>6 DEF StopTake, TypeOK
  <2>7. CASE StopHalt(t)
    BY <2>7 DEF StopHalt, TypeOK
  <2>8. CASE StopEnd(t)
    BY <2>8 DEF StopEnd, TypeOK
  <2>9. CASE SetNodeUri(t)
    BY <2>9 DEF SetNodeUri, TypeOK
  <2>10. CASE SetNodeGrab(t)
    BY <2>10 DEF SetNodeGrab, TypeOK, coreVars
  <2>11. CASE SetNodeRebuild(t)
    BY <2>11 DEF SetNodeRebuild, TypeOK
  <2>12. CASE SetNodeSwap(t)
    BY <2>12 DEF SetNodeSwap, TypeOK
  <2> QED BY <2>1, <2>2, <2>3, <2>4, <2>5, <2>6, <2>7, <2>8, <2>9, <2>10, <2>11, <2>12 DEF NativeStep
<1> QED BY <1>u, <1>e, <1>r, <1>w DEF TypeOK, EnginesTyped, shellVars

\* A step of one watchdog keeps their type.
LEMMA WatchdogMovesTyped ==
  ASSUME TypeOK, NEW s \in Sessions, NEW w \in Watchdogs, WatchdogMoves(s, w)
  PROVE  wd' \in [Sessions -> Watchdogs]
BY DEF TypeOK, WatchdogMoves

\* A step of a watchdog that builds no engine and tells nobody.
LEMMA WatchdogTypes ==
  ASSUME TypeOK, NEW s \in Sessions, WatchdogThinks(s), UNCHANGED shellVars,
         wd[s].pc = "pick" => wd[s].held # None
  PROVE  TypeOK'
<1>s. stacks \in [Sessions -> Stacks] /\ wd[s] \in Watchdogs
  BY DEF TypeOK
<1>1. CASE WatchdogExit(s)
  <2>1. Watchdog("gone", 0, FALSE, None, None) \in Watchdogs
    BY Nobody DEF Watchdog, Watchdogs
  <2> QED BY <1>1, <2>1, WatchdogMovesTyped DEF WatchdogExit, TypeOK, shellVars
<1>2. CASE WatchdogCalm(s)
  <2>1. Watchdog("sleep", wd[s].gen, FALSE, None, None) \in Watchdogs
    BY <1>s, Nobody DEF Watchdog, Watchdogs
  <2> QED BY <1>2, <2>1, WatchdogMovesTyped DEF WatchdogCalm, TypeOK, shellVars
<1>3. CASE WatchdogAlarm(s)
  <2>1. /\ Watchdog("sleep", wd[s].gen, TRUE, None, None) \in Watchdogs
        /\ Watchdog("pick", wd[s].gen, FALSE, RUNTIME, CURRENT_NODE_URI) \in Watchdogs
        /\ Watchdog("restart", wd[s].gen, FALSE, RUNTIME, CURRENT_NODE_URI) \in Watchdogs
    BY <1>s, Nobody DEF Watchdog, Watchdogs, TypeOK
  <2>2. wd' \in [Sessions -> Watchdogs]
    BY <1>3, <2>1, WatchdogMovesTyped DEF WatchdogAlarm
  <2> QED BY <1>3, <2>2 DEF WatchdogAlarm, TypeOK, shellVars
<1>4. CASE WatchdogSwitch(s)
  <2> DEFINE l == ShutDown(live, stacks[wd[s].held].engine)
  <2>1. l \subseteq live /\ NewEngine(l)
    BY <1>4 DEF WatchdogSwitch, ShutDown
  <2>2. wd[s].held \in Sessions
    BY <1>4, <1>s DEF WatchdogSwitch, Picked, Watchdogs, MaybeSession
  <2>3. /\ built' = built + 1 /\ built' \in 1..MaxEngines /\ built' \in Engines
        /\ live' \subseteq 1..built' /\ probes' \in [Sessions -> SUBSET (1..built')]
    BY <1>4, <2>1, NewEngineTyped DEF WatchdogSwitch
  <2>4. stacks' \in [Sessions -> Stacks]
    <3>1. built + 1 \in MaybeEngine
      BY <2>3, Nobody
    <3> QED BY <1>4, <1>s, <2>2, <3>1, SwappedTyped DEF WatchdogSwitch
  <2>5. wd' \in [Sessions -> Watchdogs]
    <3>1. PICK n \in Candidates(wd[s].node) :
            WatchdogMoves(s, Watchdog("switched", wd[s].gen, FALSE, wd[s].held, n))
      BY <1>4 DEF WatchdogSwitch
    <3>2. n \in MaybeNode
      BY Nobody, NodesAssumption DEF Candidates
    <3>3. Watchdog("switched", wd[s].gen, FALSE, wd[s].held, n) \in Watchdogs
      BY <1>s, <3>2 DEF Watchdog, Watchdogs
    <3> QED BY <3>1, <3>3, WatchdogMovesTyped
  <2>6. built' \in 0..MaxEngines
    BY <2>3
  <2> HIDE DEF l
  <2> QED BY <1>4, <2>3, <2>4, <2>5, <2>6 DEF WatchdogSwitch, TypeOK, shellVars
<1>5. CASE WatchdogNoSwitch(s)
  <2>1. Watchdog("restart", wd[s].gen, FALSE, wd[s].held, wd[s].node) \in Watchdogs
    BY <1>s DEF Watchdog, Watchdogs
  <2> QED BY <1>5, <2>1, WatchdogMovesTyped DEF WatchdogNoSwitch, TypeOK, shellVars
<1>6. CASE ProbeStarts(s)
  <2>1. NewEngine(live)
    BY <1>6 DEF ProbeStarts
  <2>2. /\ built' \in 0..MaxEngines /\ built + 1 \in 1..built' /\ live' \subseteq 1..built'
        /\ probes \in [Sessions -> SUBSET (1..built')]
    BY <2>1, NewEngineTyped, BoundsAssumption DEF TypeOK
  <2>3. probes' \in [Sessions -> SUBSET (1..built')]
    BY <1>6, <2>2 DEF ProbeStarts
  <2> QED BY <1>6, <2>2, <2>3 DEF ProbeStarts, TypeOK, shellVars
<1>7. CASE ProbeEnds(s)
  BY <1>7 DEF ProbeEnds, ShutDown, TypeOK, shellVars
<1> QED BY <1>1, <1>2, <1>3, <1>4, <1>5, <1>6, <1>7 DEF WatchdogThinks

\* An event that arrives keeps the types, dropped or launched.
LEMMA EventTypes ==
  ASSUME TypeOK, NEW s \in Sessions, EventArrives(s)
  PROVE  TypeOK'
<1>s. wd[s] \in Watchdogs
  BY DEF TypeOK
<1>1. wd' \in [Sessions -> Watchdogs]
  <2>1. Watchdog("sleep", wd[s].gen, FALSE, None, None) \in Watchdogs
    BY <1>s, Nobody DEF Watchdog, Watchdogs
  <2> QED BY <2>1, WatchdogMovesTyped DEF EventArrives, WatchdogTells
<1>2. th' \in [Threads -> Hands]
  <2>1. CASE active
    <3>1. PICK j \in Jobs, n \in MaybeNode : Becomes(j, At("event", "idle", None, None, n))
      BY <1>s, <2>1, Nobody DEF EventArrives, Watchdogs
    <3>2. At("event", "idle", None, None, n) \in Hands /\ j \in Threads
      BY Nobody, ThreadsAssumption DEF At, Hands, Places
    <3> QED BY <3>1, <3>2, BecomesTyped
  <2>2. CASE ~active
    BY <2>2 DEF EventArrives, TypeOK
  <2> QED BY <2>1, <2>2
<1>3. CURRENT_NODE_URI' \in MaybeNode
  BY <1>s DEF EventArrives, WatchdogTells, Watchdogs, TypeOK
<1>4. UNCHANGED <<STARTED, RUNTIME, WATCHDOG_GEN, stacks, built, live, probes, shellVars>>
  BY DEF EventArrives, WatchdogTells, shellVars
<1> QED BY <1>1, <1>2, <1>3, <1>4 DEF TypeOK, shellVars

-----------------------------------------------------------------------------
(* Types: the service. *)

ShellTyped ==
  /\ serviceState \in {"Stopped", "Starting", "Running", "Stopping"}
  /\ stateLock \in Threads \cup {None} /\ uri \in MaybeNode
  /\ active \in BOOLEAN /\ destroyed \in BOOLEAN /\ calls \in 0..MaxCalls
  /\ serviceState = "Starting" => stateLock # None

\* A step that leaves the library alone has to type only the shell.
LEMMA CoreKept ==
  ASSUME TypeOK, UNCHANGED coreVars, th' \in [Threads -> Hands], ShellTyped'
  PROVE  TypeOK'
BY DEF TypeOK, coreVars, ShellTyped

\* A call counts.
LEMMA CalledTyped ==
  ASSUME TypeOK, NEW t \in Threads, Called(t)
  PROVE  calls' \in 0..MaxCalls
BY ThreadsAssumption DEF Called, TypeOK

\* Entering or going on with a teardown keeps the type of the threads.
LEMMA TearsDownTyped ==
  ASSUME TypeOK, NEW t \in Threads, NEW p \in Places, TearsDown(t, p)
  PROVE  /\ th' \in [Threads -> Hands] /\ th'[t] = At(p, "stopped", None, None, None)
         /\ \A u \in Threads \ {t} : th'[u] = th[u]
<1>1. At(p, "stopped", None, None, None) \in Hands
  BY Nobody DEF At, Hands
<1> QED BY <1>1, BecomesTyped DEF TearsDown

\* What a refused start leaves is a record of a thread.
LEMMA RefusedTyped ==
  ASSUME NEW t \in Threads
  PROVE  Refused(t) \in Hands
<1>1. At("failAndStop", "idle", None, None, None) \in Hands
  BY Nobody DEF At, Hands, Places
<1> QED BY <1>1, RestingTyped DEF Refused

\* A step of the service on a thread of its own.
ServiceStep(t) ==
  \/ StartInternal(t) \/ StartLockedFails(t) \/ StartSucceeds(t) \/ StartFails(t) \/ StartUnlocks(t)
  \/ StopClears(t) \/ StopFinishes(t) \/ HonorEvent(t) \/ OnKernelSwitched(t)
  \/ t = Main /\ (FailAndStop \/ DestroyStops)

\* Steps of the service keep the types.  StartUnlocks needs LockOwner: the
\* state is no longer Starting when the lock goes.
LEMMA ServiceTypes ==
  ASSUME TypeOK, LockOwner, NEW t \in Threads, ServiceStep(t)
  PROVE  TypeOK'
<1>h. th[t] \in Hands
  BY DEF TypeOK
<1>u. th' \in [Threads -> Hands]
  <2>1. CASE StartInternal(t)
    <3> DEFINE n == IF th[t].arg = None THEN uri ELSE th[t].arg
    <3>1. At("nstart", "idle", None, None, n) \in Hands
      BY <1>h, Nobody DEF At, Hands, Places, TypeOK
    <3>2. \/ Becomes(t, Refused(t)) \/ Becomes(t, Resting)
          \/ Becomes(t, At("nstart", "idle", None, None, n))
      BY <2>1 DEF StartInternal
    <3> HIDE DEF n
    <3> QED BY <3>1, <3>2, RefusedTyped, RestingTyped, BecomesTyped
  <2>2. CASE StartLockedFails(t)
    BY <2>2, GotoTyped DEF StartLockedFails, Places
  <2>3. CASE StartSucceeds(t)
    BY <2>3, BecomesTyped, RestingTyped DEF StartSucceeds
  <2>4. CASE StartFails(t)
    <3>1. At("take", "unlock", None, None, None) \in Hands
      BY Nobody DEF At, Hands, Places
    <3> QED BY <2>4, <3>1, BecomesTyped DEF StartFails
  <2>5. CASE StartUnlocks(t)
    BY <2>5, BecomesTyped, RefusedTyped DEF StartUnlocks
  <2>6. CASE StopClears(t)
    BY <2>6, TearsDownTyped DEF StopClears, Places
  <2>7. CASE StopFinishes(t)
    BY <2>7, BecomesTyped, RestingTyped DEF StopFinishes
  <2>8. CASE HonorEvent(t)
    <3>1. /\ At("switched", "idle", None, None, th[t].arg) \in Hands
          /\ At("take", "start", None, None, None) \in Hands
      BY <1>h, Nobody DEF At, Hands, Places
    <3>2. \/ Becomes(t, Resting) \/ Becomes(t, At("switched", "idle", None, None, th[t].arg))
          \/ Becomes(t, At("take", "start", None, None, None))
      BY <2>8 DEF HonorEvent
    <3> QED BY <3>1, <3>2, BecomesTyped, RestingTyped
  <2>9. CASE OnKernelSwitched(t)
    BY <2>9, BecomesTyped, RestingTyped DEF OnKernelSwitched
  <2>10. CASE t = Main /\ FailAndStop
    BY <2>10, BecomesTyped, RestingTyped DEF FailAndStop
  <2>11. CASE t = Main /\ DestroyStops
    BY <2>11, TearsDownTyped DEF DestroyStops, Places
  <2> QED BY <2>1, <2>2, <2>3, <2>4, <2>5, <2>6, <2>7, <2>8, <2>9, <2>10, <2>11 DEF ServiceStep
<1>s. ShellTyped'
  <2>1. CASE StartInternal(t)
    BY <2>1, <1>h, Nobody DEF StartInternal, ShellTyped, TypeOK
  <2>2. CASE StartLockedFails(t)
    BY <2>2, <1>h, Nobody DEF StartLockedFails, ShellTyped, TypeOK, shellVars
  <2>3. CASE StartSucceeds(t)
    BY <2>3, <1>h, Nobody DEF StartSucceeds, ShellTyped, TypeOK, StateAfterStart
  <2>4. CASE StartFails(t)
    BY <2>4, <1>h, Nobody DEF StartFails, ShellTyped, TypeOK, StateAfterStart
  <2>5. CASE StartUnlocks(t)
    BY <2>5, <1>h, Nobody DEF StartUnlocks, ShellTyped, TypeOK, LockOwner, Cleaning, Locked
  <2>6. CASE StopClears(t)
    BY <2>6, <1>h, Nobody DEF StopClears, ShellTyped, TypeOK
  <2>7. CASE StopFinishes(t)
    BY <2>7, <1>h, Nobody DEF StopFinishes, ShellTyped, TypeOK, Finished
  <2>8. CASE HonorEvent(t)
    BY <2>8, <1>h, Nobody DEF HonorEvent, ShellTyped, TypeOK, shellVars
  <2>9. CASE OnKernelSwitched(t)
    BY <2>9, <1>h, Nobody DEF OnKernelSwitched, ShellTyped, TypeOK, Hands
  <2>10. CASE t = Main /\ FailAndStop
    BY <2>10, <1>h, Nobody DEF FailAndStop, ShellTyped, TypeOK
  <2>11. CASE t = Main /\ DestroyStops
    BY <2>11, <1>h, Nobody DEF DestroyStops, ShellTyped, TypeOK
  <2> QED BY <2>1, <2>2, <2>3, <2>4, <2>5, <2>6, <2>7, <2>8, <2>9, <2>10, <2>11 DEF ServiceStep
<1>c. UNCHANGED coreVars
  BY DEF ServiceStep, StartInternal, StartLockedFails, StartSucceeds, StartFails, StartUnlocks, StopClears, StopFinishes, HonorEvent, OnKernelSwitched, FailAndStop, DestroyStops
<1> QED BY <1>u, <1>s, <1>c, CoreKept

\* Calls of the user and of the system keep the types.
LEMMA UserTypes ==
  ASSUME TypeOK, UserStep
  PROVE  TypeOK'
<1>t. Main \in Threads /\ Binders \subseteq Threads
  BY ThreadsAssumption
<1>1. ASSUME NEW n \in Nodes, OnStartCommand(n) PROVE TypeOK'
  <2>1. At("start", "idle", None, None, n) \in Hands
    BY Nobody DEF At, Hands, Places
  <2>2. th' \in [Threads -> Hands]
    BY <1>1, <1>t, <2>1, BecomesTyped DEF OnStartCommand
  <2>3. ShellTyped'
    BY <1>1, <1>t, CalledTyped, Nobody DEF OnStartCommand, ShellTyped, TypeOK
  <2> QED BY <1>1, <2>2, <2>3, CoreKept DEF OnStartCommand
<1>2. CASE OnStartCommandIgnored
  <2>1. ShellTyped'
    BY <1>2, <1>t, CalledTyped DEF OnStartCommandIgnored, ShellTyped, TypeOK
  <2> QED BY <1>2, <2>1, CoreKept DEF OnStartCommandIgnored, TypeOK
<1>3. ASSUME NEW t \in Binders, BinderStart(t) PROVE TypeOK'
  <2>1. ShellTyped' /\ th' \in [Threads -> Hands]
    BY <1>3, <1>t, CalledTyped, GotoTyped DEF BinderStart, ShellTyped, TypeOK, Places
  <2> QED BY <1>3, <2>1, CoreKept DEF BinderStart
<1>4. ASSUME NEW t \in Binders, NEW n \in Nodes, SetNode(t, n) PROVE TypeOK'
  <2>1. At("setUri", "idle", None, None, n) \in Hands
    BY Nobody DEF At, Hands, Places
  <2>2. th' \in [Threads -> Hands]
    BY <1>4, <1>t, <2>1, BecomesTyped, RestingTyped DEF SetNode
  <2>3. ShellTyped'
    BY <1>4, <1>t, CalledTyped, Nobody DEF SetNode, ShellTyped, TypeOK
  <2> QED BY <1>4, <2>2, <2>3, CoreKept DEF SetNode
<1>5. ASSUME NEW t \in {Main} \cup Binders, StopInternal(t) PROVE TypeOK'
  <2>1. t \in Threads
    BY <1>t
  <2>2. th' \in [Threads -> Hands]
    BY <1>5, <2>1, TearsDownTyped DEF StopInternal, Places
  <2>3. ShellTyped'
    BY <1>5, <2>1, CalledTyped DEF StopInternal, ShellTyped, TypeOK
  <2> QED BY <1>5, <2>2, <2>3, CoreKept DEF StopInternal
<1>6. CASE OnDestroy
  <2>1. th' \in [Threads -> Hands]
    BY <1>6, <1>t, TearsDownTyped DEF OnDestroy, Places
  <2>2. ShellTyped'
    BY <1>6, <1>t, CalledTyped DEF OnDestroy, ShellTyped, TypeOK
  <2> QED BY <1>6, <2>1, <2>2, CoreKept DEF OnDestroy
<1> QED BY <1>1, <1>2, <1>3, <1>4, <1>5, <1>6 DEF UserStep

\* The exit of the pump keeps the types.
LEMMA PumpTypes ==
  ASSUME TypeOK, NEW s \in Sessions, PumpExit(s), UNCHANGED shellVars
  PROVE  TypeOK'
<1>1. EnginesTyped'
  BY StopTyped DEF PumpExit
<1> QED BY <1>1 DEF PumpExit, TypeOK, EnginesTyped, shellVars

-----------------------------------------------------------------------------
(* The lock of a start. *)

\* A thread that stays on its side of the lock.
LEMMA LockKept ==
  ASSUME LockOwner, NEW t \in Threads, UNCHANGED stateLock,
         serviceState' = serviceState \/ serviceState' # "Starting",
         \A u \in Threads \ {t} : th'[u] = th[u],
         Locked(th'[t]) <=> Locked(th[t]), ContOK(th'[t]),
         Cleaning(th'[t]) => Cleaning(th[t]) \/ serviceState' # "Starting"
  PROVE  LockOwner'
BY DEF LockOwner

\* Steps of the library neither take nor release the lock of a start.
LEMMA NativeLocks ==
  ASSUME TypeOK, LockOwner, NEW t \in Threads, NativeStep(t), UNCHANGED shellVars
  PROVE  LockOwner'
<1>h. th[t] \in Hands /\ ContOK(th[t])
  BY DEF TypeOK, LockOwner
<1>r. Resting \in Hands
  BY RestingTyped
<1>1. /\ \A u \in Threads \ {t} : th'[u] = th[u]
      /\ Locked(th'[t]) <=> Locked(th[t])
      /\ Cleaning(th'[t]) => Cleaning(th[t])
      /\ ContOK(th'[t])
  <2>1. CASE StartCheck(t)
    BY <2>1, <1>h DEF StartCheck, Goto, Becomes, At, Resting, Locked, Cleaning, ContOK, TypeOK, Hands
  <2>2. CASE StartBuild(t)
    BY <2>2, <1>h DEF StartBuild, Goto, Becomes, At, Resting, Locked, Cleaning, ContOK, TypeOK, Hands
  <2>3. CASE StartBuildFails(t)
    BY <2>3, <1>h DEF StartBuildFails, Goto, Becomes, At, Resting, Locked, Cleaning, ContOK, TypeOK, Hands
  <2>4. CASE StartInstall(t)
    BY <2>4, <1>h DEF StartInstall, Goto, Becomes, At, Resting, Locked, Cleaning, ContOK, TypeOK, Hands
  <2>5. CASE StartSpawn(t)
    BY <2>5, <1>h DEF StartSpawn, Goto, Becomes, At, Resting, Locked, Cleaning, ContOK, TypeOK, Hands
  <2>6. CASE StopTake(t)
    BY <2>6, <1>h DEF StopTake, Goto, Becomes, At, Resting, Locked, Cleaning, ContOK, TypeOK, Hands
  <2>7. CASE StopHalt(t)
    BY <2>7, <1>h DEF StopHalt, Goto, Becomes, At, Resting, Locked, Cleaning, ContOK, TypeOK, Hands
  <2>8. CASE StopEnd(t)
    BY <2>8, <1>h DEF StopEnd, Goto, Becomes, At, Resting, Locked, Cleaning, ContOK, TypeOK, Hands
  <2>9. CASE SetNodeUri(t)
    BY <2>9, <1>h DEF SetNodeUri, Goto, Becomes, At, Resting, Locked, Cleaning, ContOK, TypeOK, Hands
  <2>10. CASE SetNodeGrab(t)
    BY <2>10, <1>h DEF SetNodeGrab, Goto, Becomes, At, Resting, Locked, Cleaning, ContOK, TypeOK, Hands
  <2>11. CASE SetNodeRebuild(t)
    BY <2>11, <1>h DEF SetNodeRebuild, Goto, Becomes, At, Resting, Locked, Cleaning, ContOK, TypeOK, Hands
  <2>12. CASE SetNodeSwap(t)
    BY <2>12, <1>h DEF SetNodeSwap, Goto, Becomes, At, Resting, Locked, Cleaning, ContOK, TypeOK, Hands
  <2> QED BY <2>1, <2>2, <2>3, <2>4, <2>5, <2>6, <2>7, <2>8, <2>9, <2>10, <2>11, <2>12 DEF NativeStep
<1> QED BY <1>1, LockKept DEF shellVars

\* A thread takes the lock, or gives it back.
LEMMA LockTaken ==
  ASSUME LockOwner, NEW t \in Threads, Unlocked, stateLock' = t,
         \A u \in Threads \ {t} : th'[u] = th[u],
         Locked(th'[t]), ContOK(th'[t]), ~Cleaning(th'[t])
  PROVE  LockOwner'
BY Nobody DEF LockOwner, Unlocked, Cleaning, Locked

\* The owner gives the lock back.
LEMMA LockReleased ==
  ASSUME LockOwner, NEW t \in Threads, Locked(th[t]), stateLock' = None,
         serviceState' = serviceState \/ serviceState' # "Starting",
         \A u \in Threads \ {t} : th'[u] = th[u],
         ~Locked(th'[t]), ContOK(th'[t])
  PROVE  LockOwner'
BY Nobody DEF LockOwner, Cleaning, Locked

\* StartInternal takes the lock, StartSucceeds and StartUnlocks release it,
\* the other steps of the service stay on their side.
LEMMA ServiceLocks ==
  ASSUME TypeOK, LockOwner, NEW t \in Threads, ServiceStep(t)
  PROVE  LockOwner'
<1>h. th[t] \in Hands /\ ContOK(th[t])
  BY DEF TypeOK, LockOwner
<1> DEFINE others == \A u \in Threads \ {t} : th'[u] = th[u]
<1>1. CASE StartInternal(t)
  <2>1. CASE stateLock' = t /\ Unlocked /\ th'[t].pc = "nstart" /\ th'[t].cont = "idle" /\ others
    BY <2>1, LockTaken DEF Locked, ContOK, Cleaning
  <2>2. CASE UNCHANGED <<serviceState, stateLock>> /\ others /\ ~Locked(th'[t]) /\ ContOK(th'[t])
    <3>1. ~Locked(th[t])
      BY <1>1, <1>h DEF StartInternal, Locked, ContOK
    <3> QED BY <2>2, <3>1, LockKept DEF Locked, Cleaning
  <2>3. \/ Becomes(t, Refused(t)) /\ UNCHANGED <<serviceState, stateLock>>
        \/ Becomes(t, Resting) /\ UNCHANGED <<serviceState, stateLock>>
        \/ \E n : Becomes(t, At("nstart", "idle", None, None, n)) /\ stateLock' = t
    BY <1>1 DEF StartInternal
  <2>4. Unlocked
    BY <1>1 DEF StartInternal
  <2> QED BY <2>1, <2>2, <2>3, <2>4 DEF Becomes, At, Resting, Refused, Locked, ContOK, TypeOK, Hands
<1>2. CASE StartLockedFails(t)
  <2>1. /\ others /\ UNCHANGED stateLock
        /\ serviceState' = serviceState \/ serviceState' # "Starting"
        /\ Locked(th'[t]) <=> Locked(th[t])
        /\ Cleaning(th'[t]) => Cleaning(th[t]) \/ serviceState' # "Starting"
        /\ ContOK(th'[t])
    BY <1>2, <1>h DEF StartLockedFails, shellVars, Goto, Becomes, At, Resting, Refused, TearsDown, Locked, Cleaning, ContOK, TypeOK, Hands
  <2> QED BY <2>1, LockKept
<1>3. CASE StartSucceeds(t)
  <2>1. /\ others /\ ~Locked(th'[t]) /\ ContOK(th'[t]) /\ Locked(th[t]) /\ stateLock' = None
        /\ serviceState' = serviceState \/ serviceState' # "Starting"
    BY <1>3, <1>h DEF StartSucceeds, StateAfterStart, Goto, Becomes, At, Resting, Refused, TearsDown, Locked, Cleaning, ContOK, TypeOK, Hands
  <2> QED BY <2>1, LockReleased
<1>4. CASE StartFails(t)
  <2>1. /\ others /\ UNCHANGED stateLock
        /\ serviceState' = serviceState \/ serviceState' # "Starting"
        /\ Locked(th'[t]) <=> Locked(th[t])
        /\ Cleaning(th'[t]) => Cleaning(th[t]) \/ serviceState' # "Starting"
        /\ ContOK(th'[t])
    BY <1>4, <1>h DEF StartFails, StateAfterStart, Goto, Becomes, At, Resting, Refused, TearsDown, Locked, Cleaning, ContOK, TypeOK, Hands
  <2> QED BY <2>1, LockKept
<1>5. CASE StartUnlocks(t)
  <2>1. /\ others /\ ~Locked(th'[t]) /\ ContOK(th'[t]) /\ Locked(th[t]) /\ stateLock' = None
        /\ serviceState' = serviceState \/ serviceState' # "Starting"
    BY <1>5, <1>h DEF StartUnlocks, StateAfterStart, Goto, Becomes, At, Resting, Refused, TearsDown, Locked, Cleaning, ContOK, TypeOK, Hands
  <2> QED BY <2>1, LockReleased
<1>6. CASE StopClears(t)
  <2>1. /\ others /\ UNCHANGED stateLock
        /\ serviceState' = serviceState \/ serviceState' # "Starting"
        /\ Locked(th'[t]) <=> Locked(th[t])
        /\ Cleaning(th'[t]) => Cleaning(th[t]) \/ serviceState' # "Starting"
        /\ ContOK(th'[t])
    BY <1>6, <1>h DEF StopClears, Goto, Becomes, At, Resting, Refused, TearsDown, Locked, Cleaning, ContOK, TypeOK, Hands
  <2> QED BY <2>1, LockKept
<1>7. CASE StopFinishes(t)
  <2>1. /\ others /\ UNCHANGED stateLock
        /\ serviceState' = serviceState \/ serviceState' # "Starting"
        /\ Locked(th'[t]) <=> Locked(th[t])
        /\ Cleaning(th'[t]) => Cleaning(th[t]) \/ serviceState' # "Starting"
        /\ ContOK(th'[t])
    BY <1>7, <1>h DEF StopFinishes, Finished, Goto, Becomes, At, Resting, Refused, TearsDown, Locked, Cleaning, ContOK, TypeOK, Hands
  <2> QED BY <2>1, LockKept
<1>8. CASE HonorEvent(t)
  <2>1. /\ others /\ UNCHANGED stateLock
        /\ serviceState' = serviceState \/ serviceState' # "Starting"
        /\ Locked(th'[t]) <=> Locked(th[t])
        /\ Cleaning(th'[t]) => Cleaning(th[t]) \/ serviceState' # "Starting"
        /\ ContOK(th'[t])
    BY <1>8, <1>h DEF HonorEvent, shellVars, Goto, Becomes, At, Resting, Refused, TearsDown, Locked, Cleaning, ContOK, TypeOK, Hands
  <2> QED BY <2>1, LockKept
<1>9. CASE OnKernelSwitched(t)
  <2>1. /\ others /\ UNCHANGED stateLock
        /\ serviceState' = serviceState \/ serviceState' # "Starting"
        /\ Locked(th'[t]) <=> Locked(th[t])
        /\ Cleaning(th'[t]) => Cleaning(th[t]) \/ serviceState' # "Starting"
        /\ ContOK(th'[t])
    BY <1>9, <1>h DEF OnKernelSwitched, Goto, Becomes, At, Resting, Refused, TearsDown, Locked, Cleaning, ContOK, TypeOK, Hands
  <2> QED BY <2>1, LockKept
<1>10. CASE t = Main /\ FailAndStop
  <2>1. /\ others /\ UNCHANGED stateLock
        /\ serviceState' = serviceState \/ serviceState' # "Starting"
        /\ Locked(th'[t]) <=> Locked(th[t])
        /\ Cleaning(th'[t]) => Cleaning(th[t]) \/ serviceState' # "Starting"
        /\ ContOK(th'[t])
    BY <1>10, <1>h DEF FailAndStop, Goto, Becomes, At, Resting, Refused, TearsDown, Locked, Cleaning, ContOK, TypeOK, Hands
  <2> QED BY <2>1, LockKept
<1>11. CASE t = Main /\ DestroyStops
  <2>1. /\ others /\ UNCHANGED stateLock
        /\ serviceState' = serviceState \/ serviceState' # "Starting"
        /\ Locked(th'[t]) <=> Locked(th[t])
        /\ Cleaning(th'[t]) => Cleaning(th[t]) \/ serviceState' # "Starting"
        /\ ContOK(th'[t])
    BY <1>11, <1>h DEF DestroyStops, Goto, Becomes, At, Resting, Refused, TearsDown, Locked, Cleaning, ContOK, TypeOK, Hands
  <2> QED BY <2>1, LockKept
<1> QED BY <1>1, <1>2, <1>3, <1>4, <1>5, <1>6, <1>7, <1>8, <1>9, <1>10, <1>11 DEF ServiceStep

\* Whoever is idle has no lock, and a call does not take it.
LEMMA CallLocks ==
  ASSUME TypeOK, LockOwner, NEW t \in Threads, th[t].pc = "idle", UNCHANGED stateLock,
         serviceState' = serviceState \/ serviceState' # "Starting",
         \A u \in Threads \ {t} : th'[u] = th[u], ~Locked(th'[t]), ContOK(th'[t])
  PROVE  LockOwner'
<1>1. ContOK(th[t])
  BY DEF LockOwner
<1>2. ~Locked(th[t])
  BY <1>1 DEF Locked, ContOK
<1> QED BY <1>2, LockKept DEF Locked, Cleaning

\* Calls start on idle threads, without the lock.
LEMMA UserLocks ==
  ASSUME TypeOK, LockOwner, UserStep
  PROVE  LockOwner'
<1>t. Main \in Threads /\ Binders \subseteq Threads
  BY ThreadsAssumption
<1> USE DEF Called, Goto, Becomes, At, Resting, TearsDown, Locked, ContOK, TypeOK, Hands
<1>1. ASSUME NEW n \in Nodes, OnStartCommand(n) PROVE LockOwner'
  BY <1>1, <1>t, CallLocks DEF OnStartCommand
<1>2. CASE OnStartCommandIgnored
  BY <1>2 DEF OnStartCommandIgnored, LockOwner
<1>3. ASSUME NEW t \in Binders, BinderStart(t) PROVE LockOwner'
  <2>1. /\ \A u \in Threads \ {t} : th'[u] = th[u]
        /\ th'[t].pc = "start" /\ th'[t].cont = th[t].cont
    BY <1>3, <1>t DEF BinderStart
  <2>2. ContOK(th[t])
    BY <1>t DEF LockOwner
  <2> QED BY <1>3, <1>t, <2>1, <2>2, CallLocks DEF BinderStart
<1>4. ASSUME NEW t \in Binders, NEW n \in Nodes, SetNode(t, n) PROVE LockOwner'
  BY <1>4, <1>t, CallLocks DEF SetNode
<1>5. ASSUME NEW t \in {Main} \cup Binders, StopInternal(t) PROVE LockOwner'
  BY <1>5, <1>t, CallLocks DEF StopInternal
<1>6. CASE OnDestroy
  BY <1>6, <1>t, CallLocks DEF OnDestroy
<1> QED BY <1>1, <1>2, <1>3, <1>4, <1>5, <1>6 DEF UserStep

\* A watchdog never touches the lock; the job it launches begins without it.
LEMMA WatchdogLocks ==
  ASSUME TypeOK, LockOwner, NEW s \in Sessions, WatchdogStep(s)
  PROVE  LockOwner'
<1>1. CASE UNCHANGED <<th, shellVars>>
  BY <1>1 DEF LockOwner, shellVars
<1>2. CASE EventArrives(s) /\ active
  <2>1. PICK j \in Jobs, n \in MaybeNode :
           th[j].pc = "idle" /\ Becomes(j, At("event", "idle", None, None, n))
    <3>1. wd[s] \in Watchdogs
      BY DEF TypeOK
    <3> QED BY <1>2, <3>1, Nobody DEF EventArrives, Watchdogs
  <2>2. j \in Threads
    BY ThreadsAssumption
  <2> QED BY <1>2, <2>1, <2>2, CallLocks
          DEF EventArrives, shellVars, Becomes, At, Locked, ContOK, TypeOK, Hands
<1> QED BY <1>1, <1>2 DEF WatchdogStep, WatchdogThinks, EventArrives, WatchdogExit, WatchdogCalm,
           WatchdogAlarm, ProbeStarts, ProbeEnds, WatchdogSwitch, WatchdogNoSwitch, shellVars

-----------------------------------------------------------------------------
(* Engines and their owners. *)

\* A thread that holds no engine and moves to a place where it needs none.
Harmless(r, n) ==
  /\ r.eng = None /\ n.eng = None /\ n.pc # "swap"
  /\ n.pc = "rebuild" => n.held # None
  /\ n.held = None \/ Born(n.held)

\* Steps that build no engine and move none: some stack may stop.
LEMMA EnginesKept ==
  ASSUME TypeOK, EnginesOwned, UNCHANGED <<built, probes>>, live' \subseteq live,
         \A s \in Sessions :
           /\ stacks'[s].engine = stacks[s].engine
           /\ stacks'[s].phase = "unborn" <=> stacks[s].phase = "unborn"
           /\ stacks'[s].phase = "up" => stacks[s].engine \in live',
         \A u \in Threads : th[u].eng # None => th[u].eng \in live',
         \A u \in Threads : th'[u] = th[u] \/ Harmless(th[u], th'[u]),
         RUNTIME' = None \/ Born(RUNTIME'),
         \A s \in Sessions : WatchOK(wd'[s])
  PROVE  EnginesOwned'
<1>b. \A s : Born(s)' <=> Born(s)
  BY DEF Born
<1>1. StacksOK'
  BY DEF EnginesOwned, StacksOK
<1>2. HandsApart'
  <2>1. \A u \in Threads : th'[u].eng = th[u].eng
    BY DEF Harmless
  <2> QED BY <2>1 DEF EnginesOwned, HandsApart
<1>3. ASSUME NEW u \in Threads PROVE HandOK(th[u])'
  <2>1. CASE th'[u] = th[u]
    BY <1>b, <2>1 DEF EnginesOwned, HandOK
  <2>2. CASE Harmless(th[u], th'[u])
    BY <1>b, <2>2 DEF Harmless, HandOK
  <2> QED BY <2>1, <2>2
<1>4. ASSUME NEW s \in Sessions PROVE WatchOK(wd[s])'
  BY <1>b DEF WatchOK
<1>5. RUNTIME' = None \/ Born(RUNTIME)'
  BY <1>b DEF Born
<1>6. CurrentEngineLives'
  BY DEF CurrentEngineLives, Up
<1>7. NoOrphanEngine' /\ ProbesApart'
  <2>1. \A u \in Threads : th'[u].eng = th[u].eng
    BY DEF Harmless
  <2> QED BY <2>1 DEF EnginesOwned, NoOrphanEngine, ProbesApart
<1> QED BY <1>1, <1>2, <1>3, <1>4, <1>5, <1>6, <1>7 DEF EnginesOwned

\* The frequent case: the stacks stay as they are.
LEMMA HandMoves ==
  ASSUME TypeOK, EnginesOwned, UNCHANGED <<stacks, built, live, probes>>, NEW t \in Threads,
         Harmless(th[t], th'[t]), \A u \in Threads \ {t} : th'[u] = th[u],
         RUNTIME' = None \/ Born(RUNTIME'), \A s \in Sessions : WatchOK(wd'[s])
  PROVE  EnginesOwned'
<1>1. \A s \in Sessions : stacks[s].phase = "up" => stacks[s].engine \in live
  BY DEF EnginesOwned, CurrentEngineLives, Up
<1>2. \A u \in Threads : th[u].eng # None => th[u].eng \in live
  BY DEF EnginesOwned, HandOK
<1> QED BY <1>1, <1>2, EnginesKept

\* Stopping a stack shuts down an engine that nobody else owns.
LEMMA StopKeeps ==
  ASSUME TypeOK, EnginesOwned, NEW s \in Sessions, StopStack(s)
  PROVE  /\ live' \subseteq live
         /\ \A r \in Sessions :
              /\ stacks'[r].engine = stacks[r].engine
              /\ stacks'[r].phase = "unborn" <=> stacks[r].phase = "unborn"
              /\ stacks'[r].phase = "up" => stacks[r].engine \in live'
         /\ \A u \in Threads : th[u].eng # None => th[u].eng \in live'
<1>1. CASE ~Up(s)
  BY <1>1 DEF StopStack, EnginesOwned, HandOK, CurrentEngineLives, Up
<1>2. CASE Up(s)
  <2>1. stacks' = StoppedStack(s) /\ live' = live \ {stacks[s].engine}
    BY <1>2 DEF StopStack, ShutDown
  <2>2. /\ stacks'[s].phase = "stopped" /\ stacks'[s].engine = stacks[s].engine
        /\ \A r \in Sessions \ {s} : stacks'[r] = stacks[r]
    <3>1. stacks \in [Sessions -> Stacks]
      BY DEF TypeOK
    <3>2. stacks'[s] = Stack("stopped", stacks[s].engine, stacks[s].udp)
      BY <2>1, <3>1, StoppedTyped
    <3>3. \A r \in Sessions \ {s} : stacks'[r] = stacks[r]
      BY <2>1, <3>1, StoppedTyped
    <3> QED BY <3>2, <3>3 DEF Stack
  <2>3. stacks[s].engine # None /\ stacks[s].phase = "up"
    BY <1>2 DEF EnginesOwned, StacksOK, Up
  <2>4. \A r \in Sessions \ {s} : stacks[r].engine # stacks[s].engine
    BY <2>3 DEF EnginesOwned, StacksOK
  <2>5. \A r \in Sessions : stacks[r].phase = "up" => stacks[r].engine \in live
    BY DEF EnginesOwned, CurrentEngineLives, Up
  <2>6. \A u \in Threads : th[u].eng # None => th[u].eng \in live /\ th[u].eng # stacks[s].engine
    BY DEF EnginesOwned, HandOK
  <2>7. \A r \in Sessions : stacks'[r].phase = "up" => stacks[r].engine \in live'
    BY <2>1, <2>2, <2>4, <2>5
  <2> QED BY <2>1, <2>2, <2>3, <2>6, <2>7
<1> QED BY <1>1, <1>2

\* The number of a new engine is new.
LEMMA Fresh ==
  ASSUME TypeOK, EnginesOwned
  PROVE  /\ built + 1 # None /\ built + 1 \notin live /\ built \in Nat
         /\ \A s \in Sessions : stacks[s].engine # built + 1
         /\ \A u \in Threads : th[u].eng # built + 1
         /\ \A q \in Sessions : built + 1 \notin probes[q]
<1>1. built \in Nat /\ built + 1 # None /\ built + 1 \notin live /\ live \subseteq 1..built
  BY BoundsAssumption DEF TypeOK
<1>2. \A s \in Sessions : stacks[s].engine # built + 1
  BY <1>1 DEF EnginesOwned, StacksOK
<1>3. \A u \in Threads : th[u].eng # built + 1
  BY <1>1 DEF EnginesOwned, HandOK
<1>4. \A q \in Sessions : probes[q] \subseteq 1..built
  BY DEF TypeOK
<1> QED BY <1>1, <1>2, <1>3, <1>4

\* Replacing the engine of stack s by one that no stack has, and shutting the
\* old one down.
LEMMA SwapKeeps ==
  ASSUME TypeOK, EnginesOwned, NEW s \in Sessions, stacks[s].phase # "unborn",
         NEW e \in MaybeEngine, e # None, \A r \in Sessions : stacks[r].engine # e,
         stacks' = SwappedEngine(s, e)
  PROVE  /\ stacks'[s].engine = e /\ stacks'[s].phase = stacks[s].phase
         /\ \A r \in Sessions \ {s} :
              stacks'[r] = stacks[r] /\ stacks[r].engine # stacks[s].engine
         /\ \A r : Born(r)' <=> Born(r)
         /\ \A r \in Sessions : stacks'[r].phase = "unborn" <=> stacks'[r].engine = None
         /\ \A q, r \in Sessions :
              q # r /\ stacks'[q].engine # None => stacks'[q].engine # stacks'[r].engine
<1>1. stacks \in [Sessions -> Stacks]
  BY DEF TypeOK
<1>2. stacks'[s] = Stack(stacks[s].phase, e, stacks[s].udp)
  BY <1>1, SwappedTyped
<1>3. \A r \in Sessions \ {s} : stacks'[r] = stacks[r]
  BY <1>1, SwappedTyped
<1>4. stacks'[s].engine = e /\ stacks'[s].phase = stacks[s].phase
  BY <1>2 DEF Stack
<1>5. \A r \in Sessions \ {s} : stacks[r].engine # stacks[s].engine
  BY DEF EnginesOwned, StacksOK
<1>6. \A r : Born(r)' <=> Born(r)
  BY <1>3, <1>4 DEF Born
<1>7. \A r \in Sessions : stacks'[r].phase = "unborn" <=> stacks'[r].engine = None
  BY <1>3, <1>4 DEF EnginesOwned, StacksOK
<1>8. \A q, r \in Sessions :
        q # r /\ stacks'[q].engine # None => stacks'[q].engine # stacks'[r].engine
  BY <1>3, <1>4 DEF EnginesOwned, StacksOK
<1> QED BY <1>3, <1>4, <1>5, <1>6, <1>7, <1>8

\* Steps of the library keep one owner for each engine: StartBuild gives a
\* new one to a new stack, SetNodeRebuild to the thread, SetNodeSwap moves it
\* to the stack, StopHalt shuts one down with its stack.
LEMMA NativeEngines ==
  ASSUME TypeOK, LockOwner, EnginesOwned, NEW t \in Threads, NativeStep(t)
  PROVE  EnginesOwned'
<1>h. th[t] \in Hands /\ HandOK(th[t])
  BY DEF TypeOK, EnginesOwned
<1>w. \A s \in Sessions : WatchOK(wd[s])
  BY DEF EnginesOwned
<1>r. RUNTIME = None \/ Born(RUNTIME)
  BY DEF EnginesOwned
<1>1. CASE StartCheck(t)
  <2>1. \A u \in Threads \ {t} : th'[u] = th[u]
    BY <1>1 DEF StartCheck, Goto, Becomes, TypeOK
  <2>2. Harmless(th[t], th'[t])
    BY <1>1, <1>h, <1>r DEF StartCheck, Goto, Becomes, At, Resting, Harmless, HandOK, Hands, TypeOK
  <2>3. \A s \in Sessions : WatchOK(wd'[s])
    BY <1>1, <1>w DEF StartCheck
  <2>4. RUNTIME' = None \/ Born(RUNTIME')
    BY <1>1, <1>r, <1>h DEF StartCheck, HandOK
  <2>5. UNCHANGED <<stacks, built, live, probes>>
    BY <1>1 DEF StartCheck
  <2> QED BY <2>1, <2>2, <2>3, <2>4, <2>5, HandMoves
<1>2. CASE StartBuildFails(t)
  <2>1. \A u \in Threads \ {t} : th'[u] = th[u]
    BY <1>2 DEF StartBuildFails, Goto, Becomes, TypeOK
  <2>2. Harmless(th[t], th'[t])
    BY <1>2, <1>h, <1>r DEF StartBuildFails, Goto, Becomes, At, Resting, Harmless, HandOK, Hands, TypeOK
  <2>3. \A s \in Sessions : WatchOK(wd'[s])
    BY <1>2, <1>w DEF StartBuildFails
  <2>4. RUNTIME' = None \/ Born(RUNTIME')
    BY <1>2, <1>r, <1>h DEF StartBuildFails, HandOK
  <2>5. UNCHANGED <<stacks, built, live, probes>>
    BY <1>2 DEF StartBuildFails
  <2> QED BY <2>1, <2>2, <2>3, <2>4, <2>5, HandMoves
<1>3. CASE StartInstall(t)
  <2>1. \A u \in Threads \ {t} : th'[u] = th[u]
    BY <1>3 DEF StartInstall, Goto, Becomes, TypeOK
  <2>2. Harmless(th[t], th'[t])
    BY <1>3, <1>h, <1>r DEF StartInstall, Goto, Becomes, At, Resting, Harmless, HandOK, Hands, TypeOK
  <2>3. \A s \in Sessions : WatchOK(wd'[s])
    BY <1>3, <1>w DEF StartInstall
  <2>4. RUNTIME' = None \/ Born(RUNTIME')
    BY <1>3, <1>r, <1>h DEF StartInstall, HandOK
  <2>5. UNCHANGED <<stacks, built, live, probes>>
    BY <1>3 DEF StartInstall
  <2> QED BY <2>1, <2>2, <2>3, <2>4, <2>5, HandMoves
<1>4. CASE StartSpawn(t)
  <2>1. \A u \in Threads \ {t} : th'[u] = th[u]
    BY <1>4 DEF StartSpawn, Goto, Becomes, TypeOK
  <2>2. Harmless(th[t], th'[t])
    BY <1>4, <1>h, <1>r DEF StartSpawn, Goto, Becomes, At, Resting, Harmless, HandOK, Hands, TypeOK
  <2>3. \A s \in Sessions : WatchOK(wd'[s])
    <3>1. WatchOK(Watchdog("sleep", WATCHDOG_GEN + 1, FALSE, None, None))
      BY DEF WatchOK, Watchdog
    <3> QED BY <1>4, <1>w, <3>1 DEF StartSpawn, TypeOK
  <2>4. RUNTIME' = None \/ Born(RUNTIME')
    BY <1>4, <1>r, <1>h DEF StartSpawn, HandOK
  <2>5. UNCHANGED <<stacks, built, live, probes>>
    BY <1>4 DEF StartSpawn
  <2> QED BY <2>1, <2>2, <2>3, <2>4, <2>5, HandMoves
<1>5. CASE StopTake(t)
  <2>1. \A u \in Threads \ {t} : th'[u] = th[u]
    BY <1>5 DEF StopTake, Goto, Becomes, TypeOK
  <2>2. Harmless(th[t], th'[t])
    BY <1>5, <1>h, <1>r DEF StopTake, Goto, Becomes, At, Resting, Harmless, HandOK, Hands, TypeOK
  <2>3. \A s \in Sessions : WatchOK(wd'[s])
    BY <1>5, <1>w DEF StopTake
  <2>4. RUNTIME' = None \/ Born(RUNTIME')
    BY <1>5, <1>r, <1>h DEF StopTake, HandOK
  <2>5. UNCHANGED <<stacks, built, live, probes>>
    BY <1>5 DEF StopTake
  <2> QED BY <2>1, <2>2, <2>3, <2>4, <2>5, HandMoves
<1>6. CASE StopEnd(t)
  <2>1. \A u \in Threads \ {t} : th'[u] = th[u]
    BY <1>6 DEF StopEnd, Goto, Becomes, TypeOK
  <2>2. Harmless(th[t], th'[t])
    <3>1. th'[t] = At(th[t].cont, "idle", None, None, th[t].arg)
      BY <1>6 DEF StopEnd, Becomes, TypeOK
    <3>2. th[t].cont \notin {"swap", "rebuild"} /\ th[t].eng = None
      BY <1>6, <1>h DEF StopEnd, Hands, HandOK
    <3> QED BY <3>1, <3>2 DEF At, Harmless
  <2>3. \A s \in Sessions : WatchOK(wd'[s])
    BY <1>6, <1>w DEF StopEnd
  <2>4. RUNTIME' = None \/ Born(RUNTIME')
    BY <1>6, <1>r, <1>h DEF StopEnd, HandOK
  <2>5. UNCHANGED <<stacks, built, live, probes>>
    BY <1>6 DEF StopEnd
  <2> QED BY <2>1, <2>2, <2>3, <2>4, <2>5, HandMoves
<1>7. CASE SetNodeUri(t)
  <2>1. \A u \in Threads \ {t} : th'[u] = th[u]
    BY <1>7 DEF SetNodeUri, Goto, Becomes, TypeOK
  <2>2. Harmless(th[t], th'[t])
    BY <1>7, <1>h, <1>r DEF SetNodeUri, Goto, Becomes, At, Resting, Harmless, HandOK, Hands, TypeOK
  <2>3. \A s \in Sessions : WatchOK(wd'[s])
    BY <1>7, <1>w DEF SetNodeUri
  <2>4. RUNTIME' = None \/ Born(RUNTIME')
    BY <1>7, <1>r, <1>h DEF SetNodeUri, HandOK
  <2>5. UNCHANGED <<stacks, built, live, probes>>
    BY <1>7 DEF SetNodeUri
  <2> QED BY <2>1, <2>2, <2>3, <2>4, <2>5, HandMoves
<1>8. CASE SetNodeGrab(t)
  <2>1. \A u \in Threads \ {t} : th'[u] = th[u]
    BY <1>8 DEF SetNodeGrab, Goto, Becomes, TypeOK
  <2>2. Harmless(th[t], th'[t])
    BY <1>8, <1>h, <1>r DEF SetNodeGrab, Goto, Becomes, At, Resting, Harmless, HandOK, Hands, TypeOK
  <2>3. \A s \in Sessions : WatchOK(wd'[s])
    BY <1>8, <1>w DEF SetNodeGrab, coreVars
  <2>4. RUNTIME' = None \/ Born(RUNTIME')
    BY <1>8, <1>r, <1>h DEF SetNodeGrab, HandOK, coreVars
  <2>5. UNCHANGED <<stacks, built, live, probes>>
    BY <1>8 DEF SetNodeGrab, coreVars
  <2> QED BY <2>1, <2>2, <2>3, <2>4, <2>5, HandMoves
<1>9. CASE StopHalt(t)
  <2>1. \A u \in Threads \ {t} : th'[u] = th[u]
    BY <1>9 DEF StopHalt, Becomes, TypeOK
  <2>2. Harmless(th[t], th'[t])
    BY <1>9, <1>h DEF StopHalt, Becomes, At, Harmless, HandOK, Hands, TypeOK
  <2>3. RUNTIME' = RUNTIME /\ wd' = wd /\ UNCHANGED <<built, probes>>
    BY <1>9 DEF StopHalt
  <2>4. CASE th[t].held = None
    <3>1. UNCHANGED <<stacks, live>>
      BY <1>9, <2>4 DEF StopHalt
    <3> QED BY <1>r, <1>w, <2>1, <2>2, <2>3, <3>1, HandMoves
  <2>5. CASE th[t].held # None
    <3>1. th[t].held \in Sessions /\ StopStack(th[t].held)
      BY <1>9, <1>h, <2>5 DEF StopHalt, HandOK, Born
    <3> QED BY <1>r, <1>w, <2>1, <2>2, <2>3, <3>1, StopKeeps, EnginesKept
  <2> QED BY <2>4, <2>5
<1>10. CASE StartBuild(t)
  <2> DEFINE e == built + 1
  <2>0. /\ e # None /\ e \notin live /\ built \in Nat /\ \A u \in Threads : th[u].eng # e
        /\ \A q \in Sessions : e \notin probes[q]
    BY Fresh
  <2>1. PICK s \in Sessions :
          /\ stacks[s].phase = "unborn" /\ stacks' = [stacks EXCEPT ![s] = Stack("up", e, e)]
          /\ Becomes(t, At("install", "idle", s, None, None))
    BY <1>10 DEF StartBuild
  <2>2. built' = e /\ live' = live \cup {e}
    BY <1>10 DEF StartBuild, NewEngine
  <2>3. RUNTIME' = RUNTIME /\ wd' = wd /\ probes' = probes
    BY <1>10 DEF StartBuild
  <2>4. /\ stacks'[s].phase = "up" /\ stacks'[s].engine = e
        /\ \A r \in Sessions \ {s} : stacks'[r] = stacks[r]
    BY <2>1 DEF TypeOK, Stack
  <2>5. \A r \in Sessions : stacks[r].engine # e
    BY Fresh
  <2>6. \A u \in Threads \ {t} : th'[u] = th[u]
    BY <2>1 DEF Becomes, TypeOK
  <2>7. /\ th'[t].eng = None /\ th[t].eng = None /\ th'[t].held = s
        /\ th'[t].pc = "install"
    BY <1>10, <1>h, <2>1 DEF StartBuild, Becomes, At, HandOK, TypeOK
  <2>8. \A r : Born(r) => Born(r)'
    BY <2>1, <2>4 DEF Born
  <2>9. Born(s)'
    BY <2>4 DEF Born
  <2> HIDE DEF e
  <2>10. StacksOK'
    <3>1. \A r \in Sessions : stacks'[r].engine # None => stacks'[r].engine \in 1..built'
      <4>1. e \in 1..e /\ 1..built \subseteq 1..e
        BY <2>0 DEF e
      <4> QED BY <2>2, <2>4, <4>1 DEF EnginesOwned, StacksOK
    <3> QED BY <3>1, <2>0, <2>4, <2>5 DEF EnginesOwned, StacksOK
  <2>11. HandsApart'
    BY <2>6, <2>7 DEF EnginesOwned, HandsApart
  <2>12. ASSUME NEW u \in Threads PROVE HandOK(th[u])'
    <3>1. CASE u = t
      BY <3>1, <2>7, <2>9 DEF HandOK
    <3>2. CASE u # t
      <4>1. HandOK(th[u]) /\ th'[u] = th[u] /\ th[u].eng # e
        BY <3>2, <2>0, <2>6 DEF EnginesOwned
      <4> QED BY <4>1, <2>2, <2>4, <2>8 DEF HandOK
    <3> QED BY <3>1, <3>2
  <2>13. (\A r \in Sessions : WatchOK(wd[r])') /\ (RUNTIME' = None \/ Born(RUNTIME)')
    BY <1>w, <1>r, <2>3, <2>8 DEF WatchOK
  <2>14. CurrentEngineLives'
    BY <2>2, <2>4 DEF EnginesOwned, CurrentEngineLives, Up
  <2>15. NoOrphanEngine'
    <3>1. ASSUME NEW x \in live PROVE (\E r \in Sessions : stacks'[r].engine = x)
                                     \/ (\E u \in Threads : th'[u].eng = x)
                                     \/ (\E q \in Sessions : x \in probes[q])
      <4>1. CASE \E r \in Sessions : stacks[r].engine = x
        <5>1. PICK r \in Sessions : stacks[r].engine = x
          BY <4>1
        <5>2. r # s
          <6>1. x # None
            BY BoundsAssumption DEF TypeOK
          <6> QED BY <2>1, <5>1, <6>1 DEF EnginesOwned, StacksOK
        <5> QED BY <2>4, <5>1, <5>2
      <4>2. CASE \E u \in Threads : th[u].eng = x
        <5>1. PICK u \in Threads : th[u].eng = x
          BY <4>2
        <5>2. th'[u].eng = x
          BY <2>6, <2>7, <5>1
        <5> QED BY <5>2
      <4> QED BY <4>1, <4>2 DEF EnginesOwned, NoOrphanEngine
    <3> QED BY <3>1, <2>2, <2>3, <2>4 DEF NoOrphanEngine
  <2>16. ProbesApart'
    <3>1. \A u \in Threads : th'[u].eng \in {None, th[u].eng}
      BY <2>6, <2>7
    <3>2. \A q \in Sessions : None \notin probes[q]
      BY BoundsAssumption DEF TypeOK
    <3> QED BY <2>0, <2>3, <2>4, <3>1, <3>2 DEF EnginesOwned, ProbesApart
  <2> QED BY <2>10, <2>11, <2>12, <2>13, <2>14, <2>15, <2>16 DEF EnginesOwned
<1>11. CASE SetNodeRebuild(t)
  <2> DEFINE e == built + 1
  <2>0. /\ e # None /\ e \notin live /\ built \in Nat /\ \A u \in Threads : th[u].eng # e
        /\ \A q \in Sessions : e \notin probes[q]
    BY Fresh
  <2>1. stacks' = stacks /\ RUNTIME' = RUNTIME /\ wd' = wd /\ probes' = probes
    BY <1>11 DEF SetNodeRebuild
  <2>2. CASE Becomes(t, Resting) /\ UNCHANGED <<built, live>>
    <3>1. \A u \in Threads \ {t} : th'[u] = th[u]
      BY <2>2 DEF Becomes, TypeOK
    <3>2. Harmless(th[t], th'[t])
      BY <1>11, <1>h, <2>2 DEF SetNodeRebuild, Becomes, At, Resting, Harmless, HandOK, TypeOK
    <3> QED BY <1>r, <1>w, <2>1, <2>2, <3>1, <3>2, HandMoves
  <2>3. CASE NewEngine(live) /\ Becomes(t, At("swap", "idle", th[t].held, e, None))
    <3>1. built' = e /\ live' = live \cup {e}
      BY <2>3 DEF NewEngine
    <3>2. \A u \in Threads \ {t} : th'[u] = th[u]
      BY <2>3 DEF Becomes, TypeOK
    <3>3. /\ th'[t].eng = e /\ th'[t].held = th[t].held /\ th'[t].pc = "swap"
          /\ th[t].eng = None /\ th[t].held # None
      BY <1>11, <1>h, <2>3 DEF SetNodeRebuild, Becomes, At, HandOK, TypeOK
    <3>4. \A r \in Sessions : stacks[r].engine # e
      BY Fresh
    <3>5. \A r : Born(r)' <=> Born(r)
      BY <2>1 DEF Born
    <3>6. StacksOK'
      <4>1. 1..built \subseteq 1..e
        BY <2>0
      <4> QED BY <2>1, <3>1, <4>1 DEF EnginesOwned, StacksOK
    <3> HIDE DEF e
    <3>7. HandsApart'
      BY <2>0, <3>2, <3>3 DEF EnginesOwned, HandsApart
    <3>8. ASSUME NEW u \in Threads PROVE HandOK(th[u])'
      <4>1. CASE u = t
        BY <1>h, <2>0, <2>1, <3>1, <3>3, <3>4, <3>5, <4>1 DEF HandOK
      <4>2. CASE u # t
        <5>1. HandOK(th[u]) /\ th'[u] = th[u]
          BY <3>2, <4>2 DEF EnginesOwned
        <5> QED BY <2>1, <3>1, <3>5, <5>1 DEF HandOK
      <4> QED BY <4>1, <4>2
    <3>9. (\A r \in Sessions : WatchOK(wd[r])') /\ (RUNTIME' = None \/ Born(RUNTIME)')
      BY <1>w, <1>r, <2>1, <3>5 DEF WatchOK
    <3>10. CurrentEngineLives'
      BY <2>1, <3>1 DEF EnginesOwned, CurrentEngineLives, Up
    <3>11. NoOrphanEngine'
      <4>1. \A u \in Threads : th[u].eng # None => th'[u].eng = th[u].eng
        BY <3>2, <3>3
      <4>2. \A x \in live : x # None
        BY BoundsAssumption DEF TypeOK
      <4> QED BY <2>1, <3>1, <3>3, <4>1, <4>2 DEF EnginesOwned, NoOrphanEngine
    <3>12. ProbesApart'
      BY <2>0, <2>1, <3>2, <3>3 DEF EnginesOwned, ProbesApart
    <3> QED BY <3>6, <3>7, <3>8, <3>9, <3>10, <3>11, <3>12 DEF EnginesOwned
  <2> QED BY <1>11, <2>2, <2>3 DEF SetNodeRebuild
<1>12. CASE SetNodeSwap(t)
  <2> DEFINE s == th[t].held
             e == th[t].eng
  <2>1. /\ s \in Sessions /\ stacks[s].phase # "unborn" /\ e # None /\ e \in MaybeEngine
        /\ e \in live /\ \A r \in Sessions : stacks[r].engine # e
    BY <1>12, <1>h DEF SetNodeSwap, HandOK, Born, Hands
  <2>2. /\ stacks' = SwappedEngine(s, e) /\ live' = live \ {stacks[s].engine}
        /\ RUNTIME' = RUNTIME /\ wd' = wd /\ UNCHANGED <<built, probes>>
    BY <1>12 DEF SetNodeSwap, ShutDown
  <2>3. /\ stacks'[s].engine = e /\ stacks'[s].phase = stacks[s].phase
        /\ \A r \in Sessions \ {s} : stacks'[r] = stacks[r] /\ stacks[r].engine # stacks[s].engine
        /\ \A r : Born(r)' <=> Born(r)
        /\ \A r \in Sessions : stacks'[r].phase = "unborn" <=> stacks'[r].engine = None
        /\ \A q, r \in Sessions :
             q # r /\ stacks'[q].engine # None => stacks'[q].engine # stacks'[r].engine
    BY <2>1, <2>2, SwapKeeps
  <2>4. \A u \in Threads \ {t} : th'[u] = th[u] /\ th[u].eng # e
    BY <1>12, <2>1 DEF SetNodeSwap, Becomes, TypeOK, EnginesOwned, HandsApart
  <2>5. th'[t] = Resting
    BY <1>12 DEF SetNodeSwap, Becomes, TypeOK
  <2> HIDE DEF s, e
  <2>6. StacksOK'
    <3>1. \A r \in Sessions : stacks'[r].engine # None => stacks'[r].engine \in 1..built'
      <4>1. e \in 1..built
        BY <2>1 DEF TypeOK
      <4> QED BY <2>2, <2>3, <4>1 DEF EnginesOwned, StacksOK
    <3> QED BY <3>1, <2>3 DEF StacksOK
  <2>7. HandsApart'
    BY <2>4, <2>5 DEF EnginesOwned, HandsApart, Resting, At
  <2>8. ASSUME NEW u \in Threads PROVE HandOK(th[u])'
    <3>1. CASE u = t
      BY <2>5, <3>1 DEF HandOK, Resting, At
    <3>2. CASE u # t
      <4>1. HandOK(th[u]) /\ th'[u] = th[u] /\ th[u].eng # e
        BY <2>4, <3>2 DEF EnginesOwned
      <4> QED BY <2>1, <2>2, <2>3, <4>1 DEF HandOK
    <3> QED BY <3>1, <3>2
  <2>9. (\A r \in Sessions : WatchOK(wd[r])') /\ (RUNTIME' = None \/ Born(RUNTIME)')
    BY <1>w, <1>r, <2>2, <2>3 DEF WatchOK
  <2>10. CurrentEngineLives'
    BY <2>1, <2>2, <2>3 DEF EnginesOwned, CurrentEngineLives, Up
  <2>11. NoOrphanEngine'
    <3>1. ASSUME NEW x \in live, x # stacks[s].engine, x # e
          PROVE  \/ \E r \in Sessions : stacks'[r].engine = x
                 \/ \E u \in Threads : th'[u].eng = x
                 \/ \E r \in Sessions : x \in probes[r]
      <4>1. CASE \E r \in Sessions : stacks[r].engine = x
        BY <2>3, <3>1, <4>1
      <4>2. CASE \E u \in Threads : th[u].eng = x
        BY <2>4, <3>1, <4>2 DEF e
      <4> QED BY <4>1, <4>2 DEF EnginesOwned, NoOrphanEngine
    <3> QED BY <3>1, <2>1, <2>2, <2>3 DEF NoOrphanEngine
  <2>12. ProbesApart'
    <3>1. \A q \in Sessions : e \notin probes[q] /\ None \notin probes[q]
      BY <2>1, BoundsAssumption DEF TypeOK, EnginesOwned, ProbesApart, e
    <3>2. th'[t].eng = None
      BY <2>5 DEF Resting, At
    <3> QED BY <2>2, <2>3, <2>4, <3>1, <3>2 DEF EnginesOwned, ProbesApart
  <2> QED BY <2>6, <2>7, <2>8, <2>9, <2>10, <2>11, <2>12 DEF EnginesOwned
<1> QED BY <1>1, <1>2, <1>3, <1>4, <1>5, <1>6, <1>7, <1>8, <1>9, <1>10, <1>11, <1>12 DEF NativeStep

\* The switch of the watchdog is the one step that builds and installs at once.
LEMMA WatchdogEngines ==
  ASSUME TypeOK, EnginesOwned, NEW s \in Sessions, WatchdogThinks(s)
  PROVE  EnginesOwned'
<1>r. /\ RUNTIME' = RUNTIME /\ UNCHANGED th
      /\ RUNTIME = None \/ Born(RUNTIME)
      /\ \A r \in Sessions : WatchOK(wd[r])
  BY DEF EnginesOwned, WatchdogThinks, WatchdogExit, WatchdogCalm, WatchdogAlarm, ProbeStarts,
         ProbeEnds, WatchdogSwitch, WatchdogNoSwitch
<1>1. ASSUME UNCHANGED <<stacks, built, live, probes>>, \A r \in Sessions : WatchOK(wd'[r])
      PROVE  EnginesOwned'
  <2>1. \A r \in Sessions : stacks[r].phase = "up" => stacks[r].engine \in live
    BY DEF EnginesOwned, CurrentEngineLives, Up
  <2>2. \A u \in Threads : th[u].eng # None => th[u].eng \in live
    BY DEF EnginesOwned, HandOK
  <2> QED BY <1>r, <1>1, <2>1, <2>2, EnginesKept
<1>2. ASSUME NEW w, WatchdogMoves(s, w), WatchOK(w)
      PROVE  \A r \in Sessions : WatchOK(wd'[r])
  BY <1>r, <1>2 DEF WatchdogMoves, TypeOK
<1>3. CASE WatchdogExit(s)
  <2>1. WatchOK(Watchdog("gone", 0, FALSE, None, None))
    BY DEF WatchOK, Watchdog
  <2> QED BY <1>1, <1>2, <1>3, <2>1 DEF WatchdogExit
<1>4. CASE WatchdogCalm(s)
  <2>1. WatchOK(Watchdog("sleep", wd[s].gen, FALSE, None, None))
    BY DEF WatchOK, Watchdog
  <2> QED BY <1>1, <1>2, <1>4, <2>1 DEF WatchdogCalm
<1>5. CASE WatchdogAlarm(s)
  <2>1. /\ WatchOK(Watchdog("sleep", wd[s].gen, TRUE, None, None))
        /\ WatchOK(Watchdog("pick", wd[s].gen, FALSE, RUNTIME, CURRENT_NODE_URI))
        /\ WatchOK(Watchdog("restart", wd[s].gen, FALSE, RUNTIME, CURRENT_NODE_URI))
    BY <1>r, <1>5 DEF WatchdogAlarm, Awake, WatchOK, Watchdog
  <2>2. \A r \in Sessions : WatchOK(wd'[r])
    BY <1>2, <1>5, <2>1 DEF WatchdogAlarm
  <2> QED BY <1>1, <1>5, <2>2 DEF WatchdogAlarm
<1>6. CASE WatchdogNoSwitch(s)
  <2>1. WatchOK(Watchdog("restart", wd[s].gen, FALSE, wd[s].held, wd[s].node))
    BY <1>r DEF WatchOK, Watchdog
  <2> QED BY <1>1, <1>2, <1>6, <2>1 DEF WatchdogNoSwitch
<1>7. CASE WatchdogSwitch(s)
  <2> DEFINE q == wd[s].held
             e == built + 1
  <2>0. /\ e # None /\ e \notin live /\ built \in Nat
        /\ \A r \in Sessions : stacks[r].engine # e
        /\ \A u \in Threads : th[u].eng # e
        /\ \A r \in Sessions : e \notin probes[r]
    BY Fresh
  <2>1. q \in Sessions /\ stacks[q].phase # "unborn"
    BY <1>r, <1>7 DEF WatchdogSwitch, Picked, WatchOK, Born
  <2>2. /\ stacks' = SwappedEngine(q, e) /\ live' = (live \ {stacks[q].engine}) \cup {e}
        /\ built' = e /\ built < MaxEngines /\ probes' = probes
    BY <1>7 DEF WatchdogSwitch, NewEngine, ShutDown
  <2>3. e \in MaybeEngine
    BY <2>0, <2>2, BoundsAssumption DEF MaybeEngine, Engines
  <2>4. e \in 1..e /\ 1..built \subseteq 1..e
    BY <2>0
  <2>5. PICK n : WatchdogMoves(s, Watchdog("switched", wd[s].gen, FALSE, q, n))
    BY <1>7 DEF WatchdogSwitch
  <2>6. WatchOK(Watchdog("switched", wd[s].gen, FALSE, q, n))
    BY <2>1 DEF WatchOK, Watchdog, Born
  <2> HIDE DEF q, e
  <2>7. /\ stacks'[q].engine = e /\ stacks'[q].phase = stacks[q].phase
        /\ \A r \in Sessions \ {q} : stacks'[r] = stacks[r] /\ stacks[r].engine # stacks[q].engine
        /\ \A r : Born(r)' <=> Born(r)
        /\ \A r \in Sessions : stacks'[r].phase = "unborn" <=> stacks'[r].engine = None
        /\ \A o, r \in Sessions :
             o # r /\ stacks'[o].engine # None => stacks'[o].engine # stacks'[r].engine
    BY <2>0, <2>1, <2>2, <2>3, SwapKeeps
  <2>8. StacksOK'
    <3>1. \A r \in Sessions : stacks'[r].engine # None => stacks'[r].engine \in 1..built'
      BY <2>2, <2>4, <2>7 DEF EnginesOwned, StacksOK
    <3> QED BY <3>1, <2>7 DEF StacksOK
  <2>9. HandsApart'
    BY <1>r DEF EnginesOwned, HandsApart
  <2>10. ASSUME NEW u \in Threads PROVE HandOK(th[u])'
    <3>1. HandOK(th[u]) /\ th'[u] = th[u] /\ th[u].eng # e
      BY <1>r, <2>0 DEF EnginesOwned
    <3> QED BY <2>1, <2>2, <2>7, <3>1 DEF HandOK
  <2>11. \A r \in Sessions : WatchOK(wd[r])'
    <3>1. \A r \in Sessions : WatchOK(wd'[r])
      BY <1>2, <2>5, <2>6
    <3> QED BY <2>7, <3>1 DEF WatchOK
  <2>12. RUNTIME' = None \/ Born(RUNTIME)'
    BY <1>r, <2>7
  <2>13. CurrentEngineLives'
    BY <2>2, <2>7 DEF EnginesOwned, CurrentEngineLives, Up
  <2>14. NoOrphanEngine'
    BY <1>r, <2>1, <2>2, <2>7 DEF EnginesOwned, NoOrphanEngine
  <2>15. ProbesApart'
    BY <1>r, <2>0, <2>2, <2>7 DEF EnginesOwned, ProbesApart
  <2> QED BY <2>8, <2>9, <2>10, <2>11, <2>12, <2>13, <2>14, <2>15 DEF EnginesOwned
<1>8. CASE ProbeStarts(s)
  <2> DEFINE e == built + 1
  <2>0. /\ e # None /\ e \notin live /\ built \in Nat
        /\ \A r \in Sessions : stacks[r].engine # e
        /\ \A u \in Threads : th[u].eng # e
    BY Fresh
  <2>1. /\ live' = live \cup {e} /\ built' = e /\ UNCHANGED <<stacks, wd>>
        /\ probes'[s] = probes[s] \cup {e}
        /\ \A q \in Sessions \ {s} : probes'[q] = probes[q]
    BY <1>8 DEF ProbeStarts, NewEngine, TypeOK
  <2>2. 1..built \subseteq 1..e
    BY <2>0
  <2> HIDE DEF e
  <2>3. \A r : Born(r)' <=> Born(r)
    BY <2>1 DEF Born
  <2>4. StacksOK' /\ HandsApart'
    BY <1>r, <2>1, <2>2 DEF EnginesOwned, StacksOK, HandsApart
  <2>5. ASSUME NEW u \in Threads PROVE HandOK(th[u])'
    BY <1>r, <2>1, <2>3 DEF EnginesOwned, HandOK
  <2>6. (\A r \in Sessions : WatchOK(wd[r])') /\ (RUNTIME' = None \/ Born(RUNTIME)')
    BY <1>r, <2>1, <2>3 DEF WatchOK
  <2>7. CurrentEngineLives'
    BY <2>1 DEF EnginesOwned, CurrentEngineLives, Up
  <2>8. NoOrphanEngine'
    BY <1>r, <2>1 DEF EnginesOwned, NoOrphanEngine
  <2>9. ProbesApart'
    BY <1>r, <2>0, <2>1 DEF EnginesOwned, ProbesApart
  <2> QED BY <2>4, <2>5, <2>6, <2>7, <2>8, <2>9 DEF EnginesOwned
<1>9. CASE ProbeEnds(s)
  <2>1. PICK e \in probes[s] : live' = live \ {e} /\ probes' = [probes EXCEPT ![s] = @ \ {e}]
    BY <1>9 DEF ProbeEnds, ShutDown
  <2>2. /\ UNCHANGED <<stacks, built, wd>> /\ probes'[s] = probes[s] \ {e}
        /\ \A q \in Sessions \ {s} : probes'[q] = probes[q]
    BY <1>9, <2>1 DEF ProbeEnds, TypeOK
  <2>3. /\ \A r \in Sessions : stacks[r].engine # e
        /\ \A u \in Threads : th[u].eng # e
    BY <2>1 DEF EnginesOwned, ProbesApart
  <2>4. \A r : Born(r)' <=> Born(r)
    BY <2>2 DEF Born
  <2>5. StacksOK' /\ HandsApart'
    BY <1>r, <2>2 DEF EnginesOwned, StacksOK, HandsApart
  <2>6. ASSUME NEW u \in Threads PROVE HandOK(th[u])'
    BY <1>r, <2>1, <2>2, <2>3, <2>4 DEF EnginesOwned, HandOK
  <2>7. (\A r \in Sessions : WatchOK(wd[r])') /\ (RUNTIME' = None \/ Born(RUNTIME)')
    BY <1>r, <2>2, <2>4 DEF WatchOK
  <2>8. CurrentEngineLives'
    BY <2>1, <2>2, <2>3 DEF EnginesOwned, CurrentEngineLives, Up
  <2>9. NoOrphanEngine'
    BY <1>r, <2>1, <2>2 DEF EnginesOwned, NoOrphanEngine
  <2>10. ProbesApart'
    BY <1>r, <2>2 DEF EnginesOwned, ProbesApart
  <2> QED BY <2>5, <2>6, <2>7, <2>8, <2>9, <2>10 DEF EnginesOwned
<1> QED BY <1>3, <1>4, <1>5, <1>6, <1>7, <1>8, <1>9 DEF WatchdogThinks

\* An event carries a node, never an engine.
LEMMA EventEngines ==
  ASSUME TypeOK, EnginesOwned, NEW s \in Sessions, EventArrives(s)
  PROVE  EnginesOwned'
<1>1. /\ UNCHANGED <<stacks, built, live, probes>> /\ RUNTIME' = RUNTIME
      /\ WatchdogMoves(s, Watchdog("sleep", wd[s].gen, FALSE, None, None))
  BY DEF EventArrives, WatchdogTells
<1>2. \A r \in Sessions : WatchOK(wd'[r])
  <2>1. WatchOK(Watchdog("sleep", wd[s].gen, FALSE, None, None))
    BY DEF WatchOK, Watchdog
  <2> QED BY <1>1, <2>1 DEF EnginesOwned, WatchdogMoves, TypeOK
<1>3. RUNTIME' = None \/ Born(RUNTIME')
  BY <1>1 DEF EnginesOwned
<1>4. Jobs \subseteq Threads
  BY ThreadsAssumption
<1>5. CASE UNCHANGED th
  <2>1. \A r \in Sessions : stacks[r].phase = "up" => stacks[r].engine \in live
    BY DEF EnginesOwned, CurrentEngineLives, Up
  <2>2. \A u \in Threads : th[u].eng # None => th[u].eng \in live
    BY DEF EnginesOwned, HandOK
  <2> QED BY <1>1, <1>2, <1>3, <1>5, <2>1, <2>2, EnginesKept
<1>6. CASE active
  <2>1. PICK j \in Jobs, n \in MaybeNode :
           th[j].pc = "idle" /\ Becomes(j, At("event", "idle", None, None, n))
    <3>1. wd[s] \in Watchdogs
      BY DEF TypeOK
    <3> QED BY <1>6, <3>1, Nobody DEF EventArrives, Watchdogs
  <2>2. j \in Threads /\ HandOK(th[j])
    BY <1>4 DEF EnginesOwned
  <2>3. th'[j] = At("event", "idle", None, None, n) /\ \A u \in Threads \ {j} : th'[u] = th[u]
    BY <2>1, <2>2 DEF Becomes, TypeOK
  <2>4. Harmless(th[j], th'[j])
    BY <2>1, <2>2, <2>3 DEF Harmless, HandOK, At
  <2> QED BY <1>1, <1>2, <1>3, <2>2, <2>3, <2>4, HandMoves
<1> QED BY <1>5, <1>6 DEF EventArrives

\* The service moves no engine: a thread of its own goes to a place of the
\* service with nothing in its hands, or hands over to the library.
LEMMA ServiceMoves ==
  ASSUME TypeOK, EnginesOwned, UNCHANGED coreVars, NEW t \in Threads, th[t].pc # "swap",
         \A u \in Threads \ {t} : th'[u] = th[u],
         th'[t].eng \in {None, th[t].eng}, th'[t].held \in {None, th[t].held},
         th'[t].pc \notin {"swap", "rebuild"}
  PROVE  EnginesOwned'
<1>1. HandOK(th[t])
  BY DEF EnginesOwned
<1>2. Harmless(th[t], th'[t])
  BY <1>1 DEF HandOK, Harmless
<1>3. (RUNTIME' = None \/ Born(RUNTIME')) /\ \A r \in Sessions : WatchOK(wd'[r])
  BY DEF EnginesOwned, coreVars
<1> QED BY <1>2, <1>3, HandMoves DEF coreVars

\* Steps of the service, and calls, move no engine.
LEMMA ServiceEngines ==
  ASSUME TypeOK, EnginesOwned, NEW t \in Threads, ServiceStep(t)
  PROVE  EnginesOwned'
<1>h. th[t] \in Hands
  BY DEF TypeOK
<1>c. UNCHANGED coreVars
  BY DEF ServiceStep, StartInternal, StartLockedFails, StartSucceeds, StartFails, StartUnlocks,
         StopClears, StopFinishes, HonorEvent, OnKernelSwitched, FailAndStop, DestroyStops
<1> DEFINE moves ==
      /\ th[t].pc # "swap" /\ \A u \in Threads \ {t} : th'[u] = th[u]
      /\ th'[t].eng \in {None, th[t].eng} /\ th'[t].held \in {None, th[t].held}
      /\ th'[t].pc \notin {"swap", "rebuild"}
<1>1. CASE StartInternal(t)
  <2>1. \/ Becomes(t, Refused(t)) \/ Becomes(t, Resting)
        \/ \E n : Becomes(t, At("nstart", "idle", None, None, n))
    BY <1>1 DEF StartInternal
  <2>2. moves
    BY <1>1, <2>1 DEF StartInternal, Becomes, Refused, Resting, At, TypeOK
  <2> QED BY <1>c, <2>2, ServiceMoves
<1>2. CASE StartLockedFails(t)
  <2>1. moves
    BY <1>2, <1>h, GotoBecomes DEF StartLockedFails, Becomes, At, TypeOK
  <2> QED BY <1>c, <2>1, ServiceMoves
<1>3. CASE StartSucceeds(t)
  <2>1. moves
    BY <1>3 DEF StartSucceeds, Becomes, Resting, At, TypeOK
  <2> QED BY <1>c, <2>1, ServiceMoves
<1>4. CASE StartFails(t)
  <2>1. moves
    BY <1>4 DEF StartFails, Becomes, At, TypeOK
  <2> QED BY <1>c, <2>1, ServiceMoves
<1>5. CASE StartUnlocks(t)
  <2>1. moves
    BY <1>5 DEF StartUnlocks, Becomes, Refused, Resting, At, TypeOK
  <2> QED BY <1>c, <2>1, ServiceMoves
<1>6. CASE StopClears(t)
  <2>1. moves
    BY <1>6 DEF StopClears, TearsDown, Becomes, At, TypeOK
  <2> QED BY <1>c, <2>1, ServiceMoves
<1>7. CASE StopFinishes(t)
  <2>1. moves
    BY <1>7 DEF StopFinishes, Becomes, Resting, At, TypeOK
  <2> QED BY <1>c, <2>1, ServiceMoves
<1>8. CASE HonorEvent(t)
  <2>1. \/ Becomes(t, Resting) \/ Becomes(t, At("switched", "idle", None, None, th[t].arg))
        \/ Becomes(t, At("take", "start", None, None, None))
    BY <1>8 DEF HonorEvent
  <2>2. moves
    BY <1>8, <2>1 DEF HonorEvent, Becomes, Resting, At, TypeOK
  <2> QED BY <1>c, <2>2, ServiceMoves
<1>9. CASE OnKernelSwitched(t)
  <2>1. moves
    BY <1>9 DEF OnKernelSwitched, Becomes, Resting, At, TypeOK
  <2> QED BY <1>c, <2>1, ServiceMoves
<1>10. CASE t = Main /\ FailAndStop
  <2>1. moves
    BY <1>10 DEF FailAndStop, Becomes, Resting, At, TypeOK
  <2> QED BY <1>c, <2>1, ServiceMoves
<1>11. CASE t = Main /\ DestroyStops
  <2>1. moves
    BY <1>11 DEF DestroyStops, TearsDown, Becomes, At, TypeOK
  <2> QED BY <1>c, <2>1, ServiceMoves
<1> QED BY <1>1, <1>2, <1>3, <1>4, <1>5, <1>6, <1>7, <1>8, <1>9, <1>10, <1>11 DEF ServiceStep

\* Calls move no engine.
LEMMA UserEngines ==
  ASSUME TypeOK, EnginesOwned, UserStep
  PROVE  EnginesOwned'
<1>t. Main \in Threads /\ Binders \subseteq Threads
  BY ThreadsAssumption
<1>c. UNCHANGED coreVars
  BY DEF UserStep, OnStartCommand, OnStartCommandIgnored, BinderStart, SetNode, StopInternal, OnDestroy
<1>1. ASSUME NEW n \in Nodes, OnStartCommand(n) PROVE EnginesOwned'
  BY <1>c, <1>t, <1>1, ServiceMoves DEF OnStartCommand, Called, Becomes, At, TypeOK
<1>2. CASE OnStartCommandIgnored
  <2>1. UNCHANGED th
    BY <1>2 DEF OnStartCommandIgnored
  <2> QED BY <1>c, <2>1 DEF coreVars, EnginesOwned, StacksOK, HandsApart, Born, HandOK, WatchOK,
             CurrentEngineLives, Up, NoOrphanEngine, ProbesApart
<1>3. ASSUME NEW t \in Binders, BinderStart(t) PROVE EnginesOwned'
  <2>1. Becomes(t, At("start", th[t].cont, th[t].held, th[t].eng, th[t].arg))
    BY <1>t, <1>3, GotoBecomes DEF BinderStart
  <2> QED BY <1>c, <1>t, <1>3, <2>1, ServiceMoves DEF BinderStart, Called, Becomes, At, TypeOK
<1>4. ASSUME NEW t \in Binders, NEW n \in Nodes, SetNode(t, n) PROVE EnginesOwned'
  BY <1>c, <1>t, <1>4, ServiceMoves DEF SetNode, Called, Becomes, Resting, At, TypeOK
<1>5. ASSUME NEW t \in {Main} \cup Binders, StopInternal(t) PROVE EnginesOwned'
  BY <1>c, <1>t, <1>5, ServiceMoves DEF StopInternal, TearsDown, Called, Becomes, At, TypeOK
<1>6. CASE OnDestroy
  BY <1>c, <1>t, <1>6, ServiceMoves DEF OnDestroy, TearsDown, Called, Becomes, At, TypeOK
<1> QED BY <1>1, <1>2, <1>3, <1>4, <1>5, <1>6 DEF UserStep

\* The pump stops its stack, and shuts down the engine it has by then.
LEMMA PumpEngines ==
  ASSUME TypeOK, EnginesOwned, NEW s \in Sessions, PumpExit(s)
  PROVE  EnginesOwned'
<1>1. UNCHANGED <<RUNTIME, built, probes, wd, th>> /\ StopStack(s)
  BY DEF PumpExit
<1>2. (RUNTIME' = None \/ Born(RUNTIME')) /\ \A r \in Sessions : WatchOK(wd'[r])
  BY <1>1 DEF EnginesOwned
<1> QED BY <1>1, <1>2, StopKeeps, EnginesKept

-----------------------------------------------------------------------------
(* The invariant. *)

\* Nothing runs in the initial state.
LEMMA InitHolds == Init => IInv
<1> SUFFICES ASSUME Init PROVE IInv
  OBVIOUS
<1> USE DEF Init, CoreInit
<1>1. TypeOK
  <2>1. Stack("unborn", None, None) \in Stacks /\ NoWatchdog \in Watchdogs
    BY Nobody DEF Stack, Stacks, NoWatchdog, Watchdog, Watchdogs
  <2>2. /\ stacks \in [Sessions -> Stacks] /\ wd \in [Sessions -> Watchdogs]
        /\ th \in [Threads -> Hands]
    BY <2>1, RestingTyped
  <2>3. 0 \in 0..MaxEngines /\ 0 \in 0..MaxCalls /\ 0 \in Nat
    BY BoundsAssumption, ThreadsAssumption
  <2>4. live \subseteq 1..built
    OBVIOUS
  <2> QED BY <2>2, <2>3, <2>4, Nobody DEF TypeOK
<1>2. LockOwner
  BY Nobody DEF LockOwner, Locked, Cleaning, ContOK, Resting, At
<1>3. EnginesOwned
  BY DEF EnginesOwned, StacksOK, HandsApart, HandOK, WatchOK, Stack, Resting, At, NoWatchdog,
         Watchdog, CurrentEngineLives, Up, NoOrphanEngine, ProbesApart
<1> QED BY <1>1, <1>2, <1>3 DEF IInv

\* Every step keeps the invariant: one case for each actor of Next.
LEMMA StepKeeps == IInv /\ [Next]_vars => IInv'
<1> SUFFICES ASSUME TypeOK, LockOwner, EnginesOwned, [Next]_vars
             PROVE  TypeOK' /\ LockOwner' /\ EnginesOwned'
  BY DEF IInv
<1>1. ASSUME NEW t \in Threads, NativeStep(t), UNCHANGED shellVars
      PROVE  TypeOK' /\ LockOwner' /\ EnginesOwned'
  <2>1. th[t].pc = "swap" => th[t].held # None
    BY DEF EnginesOwned, HandOK
  <2> QED BY <1>1, <2>1, NativeTypes, NativeLocks, NativeEngines
<1>2. ASSUME NEW t \in Threads, ServiceStep(t)
      PROVE  TypeOK' /\ LockOwner' /\ EnginesOwned'
  BY <1>2, ServiceTypes, ServiceLocks, ServiceEngines
<1>3. ASSUME NEW s \in Sessions, WatchdogThinks(s), UNCHANGED shellVars
      PROVE  TypeOK' /\ LockOwner' /\ EnginesOwned'
  <2>1. wd[s].pc = "pick" => wd[s].held # None
    BY DEF EnginesOwned, WatchOK
  <2>2. LockOwner'
    BY <1>3, WatchdogLocks DEF WatchdogStep
  <2> QED BY <1>3, <2>1, <2>2, WatchdogTypes, WatchdogEngines
<1>4. ASSUME NEW s \in Sessions, EventArrives(s)
      PROVE  TypeOK' /\ LockOwner' /\ EnginesOwned'
  <2>1. LockOwner'
    BY <1>4, WatchdogLocks DEF WatchdogStep
  <2> QED BY <1>4, <2>1, EventTypes, EventEngines
<1>5. CASE UserStep
  BY <1>5, UserTypes, UserLocks, UserEngines
<1>6. ASSUME NEW s \in Sessions, PumpExit(s), UNCHANGED shellVars
      PROVE  TypeOK' /\ LockOwner' /\ EnginesOwned'
  <2>1. LockOwner'
    BY <1>6 DEF PumpExit, LockOwner, shellVars
  <2> QED BY <1>6, <2>1, PumpTypes, PumpEngines
<1>7. CASE UNCHANGED vars
  <2>1. TypeOK'
    BY <1>7 DEF vars, coreVars, shellVars, TypeOK
  <2>2. LockOwner'
    BY <1>7 DEF vars, shellVars, LockOwner
  <2>3. EnginesOwned'
    BY <1>7 DEF vars, coreVars, EnginesOwned, StacksOK, HandsApart, Born, HandOK, WatchOK,
       CurrentEngineLives, Up, NoOrphanEngine, ProbesApart
  <2> QED BY <2>1, <2>2, <2>3
<1>8. ASSUME NEW t \in Threads, ThreadStep(t)
      PROVE  TypeOK' /\ LockOwner' /\ EnginesOwned'
  <2>1. (NativeStep(t) /\ UNCHANGED shellVars) \/ ServiceStep(t)
    BY <1>8 DEF ThreadStep, ServiceStep
  <2> QED BY <1>1, <1>2, <2>1
<1>9. ASSUME NEW s \in Sessions, WatchdogStep(s)
      PROVE  TypeOK' /\ LockOwner' /\ EnginesOwned'
  BY <1>3, <1>4, <1>9 DEF WatchdogStep
<1> QED BY <1>5, <1>6, <1>7, <1>8, <1>9 DEF Next

\* The inductive invariant holds in every reachable state.
THEOREM Invariant == Spec => []IInv
BY InitHolds, StepKeeps, PTL DEF Spec

\* Types of CoreService.kt's fields and of the statics of mirage-jni; and,
\* proved with them, serviceState is Starting only while a thread is in
\* startLocked, so that no failure leaves the service half started.
THEOREM TypeCorrect == Spec => []TypeOK
<1>1. IInv => TypeOK
  BY DEF IInv
<1> QED BY <1>1, Invariant, PTL

\* startLocked runs on one thread at a time (stateLock), from the verdict of
\* startInternal through the native start and the cleanup of a failed one.
THEOREM OneStart == Spec => []LockOwner
<1>1. IInv => LockOwner
  BY DEF IInv
<1> QED BY <1>1, Invariant, PTL

\* However setNode, the watchdog's switch_engine_to and TunStack::stop race,
\* the engine of a stack that runs has not been shut down.
THEOREM EngineLives == Spec => []CurrentEngineLives
<1>1. IInv => CurrentEngineLives
  BY DEF IInv, EnginesOwned
<1> QED BY <1>1, Invariant, PTL

\* Every engine that has not been shut down belongs to a stack or to the
\* setNode call that built it: swap_engine and stop shut down what they
\* replace, and a lost race leaks nothing.
THEOREM NoEngineLost == Spec => []NoOrphanEngine
<1>1. IInv => NoOrphanEngine
  BY DEF IInv, EnginesOwned
<1> QED BY <1>1, Invariant, PTL

-----------------------------------------------------------------------------
(* Running.  A stop takes the runtime first and the state last, or not at  *)
(* all when it is the first half of a restart.  Until then it is pending:  *)
(* between stop() and the end of the teardown, or on its way to start      *)
(* again with STARTED false, which makes startInternal start again.        *)

\* Somebody will see to it that the state is no longer Running, or start again.
Pending ==
  \/ \E t \in Threads : th[t].pc \in {"halt", "end", "stopped"}
  \/ ~STARTED /\ \E t \in Threads : th[t].pc = "start"

\* The service says Running, or a start is about to say so.
Claims == serviceState = "Running" \/ \E t \in Threads : th[t].pc \in {"spawn", "started"}

StopsFor(r) ==
  /\ r.pc \in {"take", "halt", "end"} => r.cont \in {"unlock", "stopped", "start"}
  /\ r.pc = "install" => r.held # None

RunningInv ==
  /\ stateLock # None => serviceState # "Running"
  /\ \A t \in Threads : StopsFor(th[t])
  /\ Claims /\ RUNTIME = None => Pending

\* A thread that is no witness of Pending steps, or becomes one.
LEMMA PendingStays ==
  ASSUME NEW t \in Threads, Pending, STARTED' = STARTED \/ STARTED' = FALSE,
         \A u \in Threads \ {t} : th'[u] = th[u],
         \/ th[t].pc \notin {"halt", "end", "stopped", "start"}
         \/ th'[t].pc \in {"halt", "end", "stopped"}
  PROVE  Pending'
BY DEF Pending

\* Steps that are about neither the runtime nor the state of the service.
LEMMA Aside ==
  ASSUME RunningInv, NEW t \in Threads, STARTED' = STARTED, RUNTIME' = RUNTIME,
         \A u \in Threads \ {t} : th'[u] = th[u],
         th[t].pc \notin {"halt", "end", "stopped", "start"},
         th'[t].pc \notin {"spawn", "started"}, StopsFor(th'[t]),
         stateLock' = stateLock,
         serviceState' \in {serviceState, "Stopped", "Stopping"}
  PROVE  RunningInv'
<1>1. Claims' => Claims
  BY DEF Claims
<1>2. Pending => Pending'
  BY PendingStays
<1>3. \A u \in Threads : StopsFor(th'[u])
  BY DEF RunningInv
<1> QED BY <1>1, <1>2, <1>3 DEF RunningInv, StopsFor

\* While t holds the lock of a start nobody else says, or is about to say, Running.
LEMMA HolderAlone ==
  ASSUME LockOwner, RunningInv, NEW t \in Threads, Locked(th[t])
  PROVE  /\ serviceState # "Running" /\ stateLock = t
         /\ \A u \in Threads \ {t} : th[u].pc \notin {"spawn", "started"}
<1>1. stateLock = t /\ t # None
  BY Nobody DEF LockOwner
<1> QED BY <1>1 DEF LockOwner, RunningInv, Locked

\* A step after which nobody says Running.
LEMMA NoClaim ==
  ASSUME RunningInv, NEW t \in Threads,
         \A u \in Threads \ {t} : th'[u] = th[u] /\ th[u].pc \notin {"spawn", "started"},
         th'[t].pc \notin {"spawn", "started"}, StopsFor(th'[t]), serviceState' # "Running"
  PROVE  RunningInv'
<1>1. ~Claims'
  BY DEF Claims
<1>2. \A u \in Threads : StopsFor(th'[u])
  BY DEF RunningInv
<1> QED BY <1>1, <1>2 DEF RunningInv, StopsFor

\* Steps of the library: a stop that takes the runtime is pending from then on.
LEMMA NativeRunning ==
  ASSUME TypeOK, LockOwner, EnginesOwned, RunningInv,
         NEW t \in Threads, NativeStep(t), UNCHANGED shellVars
  PROVE  RunningInv'
<1>h. th[t] \in Hands /\ StopsFor(th[t])
  BY DEF TypeOK, RunningInv
<1>s. stateLock' = stateLock /\ serviceState' = serviceState
  BY DEF shellVars
<1>o. ASSUME NEW r, Becomes(t, r)
      PROVE  th'[t] = r /\ \A u \in Threads \ {t} : th'[u] = th[u]
  BY <1>o DEF TypeOK, Becomes
<1>g. ASSUME NEW p, p \notin {"take", "halt", "end", "install"}, Goto(t, p)
      PROVE  /\ th'[t].pc = p /\ StopsFor(th'[t])
             /\ \A u \in Threads \ {t} : th'[u] = th[u]
  <2>1. Becomes(t, At(p, th[t].cont, th[t].held, th[t].eng, th[t].arg))
    BY <1>g, GotoBecomes
  <2>2. /\ th'[t] = At(p, th[t].cont, th[t].held, th[t].eng, th[t].arg)
        /\ \A u \in Threads \ {t} : th'[u] = th[u]
    BY <1>o, <2>1
  <2>3. th'[t].pc = p
    BY <2>2 DEF At
  <2>4. StopsFor(th'[t])
    BY <1>g, <2>3 DEF StopsFor
  <2> QED BY <2>2, <2>3, <2>4
<1>1. CASE StartCheck(t)
  <2>1. Locked(th[t]) /\ ContOK(th[t])
    BY <1>1 DEF StartCheck, Locked, LockOwner
  <2>2. CASE Goto(t, "started") /\ RUNTIME # None
    <3>1. RUNTIME' # None
      BY <1>1, <2>2 DEF StartCheck
    <3>2. StopsFor(th'[t])
      BY <1>g, <2>2
    <3>3. \A u \in Threads : StopsFor(th'[u])
      BY <1>g, <2>2, <3>2 DEF RunningInv
    <3> QED BY <1>s, <3>1, <3>3 DEF RunningInv, StopsFor
  <2>3. CASE Goto(t, "failed")
    <3>1. th'[t].pc = "failed" /\ StopsFor(th'[t]) /\ \A u \in Threads \ {t} : th'[u] = th[u]
      BY <1>g, <2>3
    <3> QED BY <1>s, <2>1, <3>1, HolderAlone, NoClaim
  <2>4. CASE Goto(t, "build")
    <3>1. th'[t].pc = "build" /\ StopsFor(th'[t]) /\ \A u \in Threads \ {t} : th'[u] = th[u]
      BY <1>g, <2>4
    <3> QED BY <1>s, <2>1, <3>1, HolderAlone, NoClaim
  <2> QED BY <1>1, <2>2, <2>3, <2>4 DEF StartCheck
<1>2. CASE StartBuild(t)
  <2>1. Locked(th[t])
    BY <1>2 DEF StartBuild, Locked
  <2>2. PICK s \in Sessions : Becomes(t, At("install", "idle", s, None, None))
    BY <1>2 DEF StartBuild
  <2> QED BY <1>o, <1>s, <2>1, <2>2, Nobody, HolderAlone, NoClaim DEF StopsFor, At
<1>3. CASE StartBuildFails(t)
  <2>1. Locked(th[t])
    BY <1>3 DEF StartBuildFails, Locked
  <2> QED BY <1>3, <1>g, <1>s, <2>1, HolderAlone, NoClaim DEF StartBuildFails
<1>4. CASE StartInstall(t)
  <2>1. RUNTIME' # None
    BY <1>4, <1>h DEF StartInstall, StopsFor
  <2>2. StopsFor(th'[t])
    BY <1>g, <1>4 DEF StartInstall
  <2>3. \A u \in Threads : StopsFor(th'[u])
    BY <1>g, <1>4, <2>2 DEF StartInstall, RunningInv
  <2> QED BY <1>s, <2>1, <2>3 DEF RunningInv, StopsFor
<1>5. CASE StartSpawn(t)
  <2>1. Becomes(t, At("started", "idle", None, None, None)) /\ UNCHANGED <<STARTED, RUNTIME>>
    BY <1>5 DEF StartSpawn
  <2>2. Claims /\ th[t].pc = "spawn"
    BY <1>5 DEF StartSpawn, Claims
  <2>3. RUNTIME = None => Pending'
    BY <1>o, <2>1, <2>2, PendingStays DEF RunningInv
  <2>4. \A u \in Threads : StopsFor(th'[u])
    BY <1>o, <2>1 DEF RunningInv, StopsFor, At
  <2> QED BY <1>s, <2>1, <2>3, <2>4 DEF RunningInv, StopsFor
<1>6. CASE StopTake(t)
  <2>1. Becomes(t, At("halt", th[t].cont, RUNTIME, None, th[t].arg)) /\ th[t].pc = "take"
    BY <1>6 DEF StopTake
  <2>2. th'[t].pc = "halt" /\ StopsFor(th'[t])
    BY <1>h, <1>o, <2>1 DEF StopsFor, At
  <2>3. Pending'
    BY <2>2 DEF Pending
  <2>4. \A u \in Threads : StopsFor(th'[u])
    BY <1>o, <2>1, <2>2 DEF RunningInv
  <2> QED BY <1>s, <2>3, <2>4 DEF RunningInv, StopsFor
<1>7. CASE StopHalt(t)
  <2>1. Becomes(t, At("end", th[t].cont, None, None, th[t].arg)) /\ th[t].pc = "halt"
    BY <1>7 DEF StopHalt
  <2>2. th'[t].pc = "end" /\ StopsFor(th'[t])
    BY <1>h, <1>o, <2>1 DEF StopsFor, At
  <2>3. Pending'
    BY <2>2 DEF Pending
  <2>4. \A u \in Threads : StopsFor(th'[u])
    BY <1>o, <2>1, <2>2 DEF RunningInv
  <2> QED BY <1>s, <2>3, <2>4 DEF RunningInv, StopsFor
<1>8. CASE StopEnd(t)
  <2>1. Becomes(t, At(th[t].cont, "idle", None, None, th[t].arg)) /\ th[t].pc = "end" /\ STARTED' = FALSE
    BY <1>8 DEF StopEnd
  <2>2. th'[t].pc = th[t].cont /\ th[t].cont \in {"unlock", "stopped", "start"}
    BY <1>h, <1>o, <2>1 DEF StopsFor, At
  <2>3. StopsFor(th'[t])
    BY <2>2 DEF StopsFor
  <2>4. \A u \in Threads : StopsFor(th'[u])
    BY <1>o, <2>1, <2>3 DEF RunningInv
  <2>5. CASE th[t].cont = "unlock"
    <3>1. Locked(th[t])
      BY <2>5 DEF Locked
    <3> QED BY <1>o, <1>s, <2>1, <2>2, <2>3, <2>5, <3>1, HolderAlone, NoClaim
  <2>6. CASE th[t].cont # "unlock"
    <3>1. Pending'
      BY <2>1, <2>2, <2>6 DEF Pending
    <3> QED BY <1>s, <2>4, <3>1 DEF RunningInv, StopsFor
  <2> QED BY <2>5, <2>6
<1>9. CASE SetNodeUri(t)
  BY <1>9, <1>g, <1>s, Aside DEF SetNodeUri
<1>10. CASE SetNodeGrab(t)
  <2>1. Becomes(t, Resting) \/ Becomes(t, At("rebuild", "idle", RUNTIME, None, None))
    BY <1>10 DEF SetNodeGrab
  <2>2. th'[t].pc \in {"idle", "rebuild"} /\ \A u \in Threads \ {t} : th'[u] = th[u]
    BY <1>o, <2>1 DEF Resting, At
  <2> QED BY <1>10, <2>2, <1>s, Aside DEF SetNodeGrab, StopsFor, coreVars
<1>11. CASE SetNodeRebuild(t)
  <2>1. Becomes(t, Resting) \/ Becomes(t, At("swap", "idle", th[t].held, built + 1, None))
    BY <1>11 DEF SetNodeRebuild
  <2>2. th'[t].pc \in {"idle", "swap"} /\ \A u \in Threads \ {t} : th'[u] = th[u]
    BY <1>o, <2>1 DEF Resting, At
  <2> QED BY <1>11, <2>2, <1>s, Aside DEF SetNodeRebuild, StopsFor
<1>12. CASE SetNodeSwap(t)
  BY <1>12, <1>o, <1>s, Aside DEF SetNodeSwap, Resting, StopsFor, At
<1> QED BY <1>1, <1>2, <1>3, <1>4, <1>5, <1>6, <1>7, <1>8, <1>9, <1>10, <1>11, <1>12 DEF NativeStep

\* Steps of the service: the verdict of startInternal and the ends of starts and stops.
LEMMA ServiceRunning ==
  ASSUME TypeOK, LockOwner, RunningInv, NEW t \in Threads, ServiceStep(t)
  PROVE  RunningInv'
<1>h. th[t] \in Hands /\ StopsFor(th[t])
  BY DEF TypeOK, RunningInv
<1>c. UNCHANGED <<STARTED, RUNTIME>>
  BY DEF ServiceStep, StartInternal, StartLockedFails, StartSucceeds, StartFails, StartUnlocks,
         StopClears, StopFinishes, HonorEvent, OnKernelSwitched, FailAndStop, DestroyStops, coreVars
<1>o. ASSUME NEW r, Becomes(t, r)
      PROVE  th'[t] = r /\ \A u \in Threads \ {t} : th'[u] = th[u]
  BY <1>o DEF TypeOK, Becomes
\* When no start holds the lock, none is about to say Running.
<1>u. ASSUME Unlocked PROVE \A u \in Threads : th[u].pc \notin {"spawn", "started"}
  BY <1>u, Nobody DEF Unlocked, LockOwner, Locked
<1>1. CASE StartInternal(t)
  <2>1. Unlocked /\ th[t].pc = "start"
    BY <1>1 DEF StartInternal
  <2>2. CASE serviceState = "Stopping" /\ Becomes(t, Refused(t)) /\ UNCHANGED serviceState
    <3>1. th'[t].pc \in {"failAndStop", "idle"} /\ StopsFor(th'[t])
      BY <1>o, <2>2 DEF Refused, Resting, At, StopsFor
    <3> QED BY <1>o, <1>u, <2>1, <2>2, <3>1, NoClaim
  <2>3. CASE /\ AlreadyRunning(serviceState, STARTED) /\ Becomes(t, Resting)
             /\ UNCHANGED <<serviceState, stateLock>>
    <3>1. Pending => Pending'
      BY <1>c, <1>o, <2>1, <2>3 DEF Pending, AlreadyRunning
    <3>2. \A u \in Threads : StopsFor(th'[u])
      BY <1>o, <2>3 DEF RunningInv, Resting, At, StopsFor
    <3>3. Claims
      BY <2>3 DEF Claims, AlreadyRunning
    <3> QED BY <1>c, <2>3, <3>1, <3>2, <3>3 DEF RunningInv, StopsFor
  <2>4. CASE serviceState' = "Starting"
    <3>1. PICK n : Becomes(t, At("nstart", "idle", None, None, n))
      BY <1>1, <2>4 DEF StartInternal, AlreadyRunning
    <3>2. th'[t].pc = "nstart" /\ StopsFor(th'[t])
      BY <1>o, <3>1 DEF At, StopsFor
    <3> QED BY <1>o, <1>u, <2>1, <2>4, <3>1, <3>2, NoClaim
  <2> QED BY <1>1, <2>2, <2>3, <2>4 DEF StartInternal
<1>2. CASE StartLockedFails(t)
  <2>1. Becomes(t, At("failed", th[t].cont, th[t].held, th[t].eng, th[t].arg))
    BY <1>2, GotoBecomes DEF StartLockedFails
  <2>2. th'[t].pc = "failed" /\ StopsFor(th'[t])
    BY <1>o, <2>1 DEF At, StopsFor
  <2>3. Locked(th[t]) /\ UNCHANGED serviceState
    BY <1>2 DEF StartLockedFails, Locked, shellVars
  <2> QED BY <1>o, <2>1, <2>2, <2>3, HolderAlone, NoClaim
<1>3. CASE StartSucceeds(t)
  <2>1. Becomes(t, Resting) /\ th[t].pc = "started" /\ stateLock' = None
    BY <1>3 DEF StartSucceeds
  <2>2. Claims
    BY <2>1 DEF Claims
  <2>3. Pending => Pending'
    BY <1>c, <1>o, <2>1, PendingStays
  <2>4. \A u \in Threads : StopsFor(th'[u])
    BY <1>o, <2>1 DEF RunningInv, Resting, At, StopsFor
  <2> QED BY <1>c, <2>1, <2>2, <2>3, <2>4 DEF RunningInv, StopsFor
<1>4. CASE StartFails(t)
  <2>1. Becomes(t, At("take", "unlock", None, None, None)) /\ serviceState' = "Stopped"
    BY <1>4 DEF StartFails, StateAfterStart
  <2>2. th'[t].pc = "take" /\ StopsFor(th'[t])
    BY <1>o, <2>1 DEF At, StopsFor
  <2>3. Locked(th[t])
    BY <1>4 DEF StartFails, Locked
  <2> QED BY <1>o, <2>1, <2>2, <2>3, HolderAlone, NoClaim
<1>5. CASE StartUnlocks(t)
  <2>1. Becomes(t, Refused(t)) /\ UNCHANGED serviceState
    BY <1>5 DEF StartUnlocks
  <2>2. th'[t].pc \in {"failAndStop", "idle"} /\ StopsFor(th'[t])
    BY <1>o, <2>1 DEF Refused, Resting, At, StopsFor
  <2>3. Locked(th[t])
    BY <1>5 DEF StartUnlocks, Locked
  <2> QED BY <1>o, <2>1, <2>2, <2>3, HolderAlone, NoClaim
<1>6. CASE StopClears(t)
  <2>1. /\ Becomes(t, At("take", "stopped", None, None, None)) /\ th[t].pc = "clear"
        /\ UNCHANGED <<serviceState, stateLock>>
    BY <1>6 DEF StopClears, TearsDown
  <2>2. th'[t].pc = "take" /\ StopsFor(th'[t])
    BY <1>o, <2>1 DEF At, StopsFor
  <2> QED BY <1>c, <1>o, <2>1, <2>2, Aside
<1>7. CASE StopFinishes(t)
  <2>1. Becomes(t, Resting) /\ Unlocked /\ serviceState' = "Stopped"
    BY <1>7 DEF StopFinishes, Finished
  <2>2. th'[t].pc = "idle" /\ StopsFor(th'[t])
    BY <1>o, <2>1 DEF Resting, At, StopsFor
  <2> QED BY <1>o, <1>u, <2>1, <2>2, NoClaim
<1>8. CASE HonorEvent(t)
  <2>1. /\ th[t].pc = "event" /\ UNCHANGED <<serviceState, stateLock>>
        /\ \/ Becomes(t, Resting) \/ Becomes(t, At("switched", "idle", None, None, th[t].arg))
           \/ Becomes(t, At("take", "start", None, None, None))
    BY <1>8 DEF HonorEvent, shellVars
  <2>2. th'[t].pc \in {"idle", "switched", "take"} /\ StopsFor(th'[t])
    BY <1>o, <2>1 DEF Resting, At, StopsFor
  <2>3. \A u \in Threads \ {t} : th'[u] = th[u]
    BY <1>o, <2>1
  <2> QED BY <1>c, <2>1, <2>2, <2>3, Aside
<1>9. CASE OnKernelSwitched(t)
  <2>1. Becomes(t, Resting) /\ th[t].pc = "switched" /\ UNCHANGED <<serviceState, stateLock>>
    BY <1>9 DEF OnKernelSwitched
  <2>2. th'[t].pc = "idle" /\ StopsFor(th'[t])
    BY <1>o, <2>1 DEF Resting, At, StopsFor
  <2> QED BY <1>c, <1>o, <2>1, <2>2, Aside
<1>10. CASE t = Main /\ FailAndStop
  <2>1. /\ Becomes(t, Resting) /\ th[t].pc = "failAndStop"
        /\ serviceState' = "Stopped" /\ stateLock' = stateLock
    BY <1>10 DEF FailAndStop
  <2>2. th'[t].pc = "idle" /\ StopsFor(th'[t])
    BY <1>o, <2>1 DEF Resting, At, StopsFor
  <2> QED BY <1>c, <1>o, <2>1, <2>2, Aside
<1>11. CASE t = Main /\ DestroyStops
  <2>1. /\ Becomes(t, At("take", "stopped", None, None, None)) /\ th[t].pc = "destroy"
        /\ serviceState' = "Stopping" /\ stateLock' = stateLock
    BY <1>11 DEF DestroyStops, TearsDown
  <2>2. th'[t].pc = "take" /\ StopsFor(th'[t])
    BY <1>o, <2>1 DEF At, StopsFor
  <2> QED BY <1>c, <1>o, <2>1, <2>2, Aside
<1> QED BY <1>1, <1>2, <1>3, <1>4, <1>5, <1>6, <1>7, <1>8, <1>9, <1>10, <1>11 DEF ServiceStep

\* Calls and events find their thread idle and leave it at its first place.
LEMMA CalledRunning ==
  ASSUME TypeOK, RunningInv, NEW t \in Threads, th[t].pc = "idle",
         NEW p \in {"idle", "start", "clear", "destroy", "setUri", "event"},
         th'[t].pc = p, \A u \in Threads \ {t} : th'[u] = th[u],
         UNCHANGED <<STARTED, RUNTIME, stateLock>>,
         serviceState' \in {serviceState, "Stopping"}
  PROVE  RunningInv'
<1>1. StopsFor(th'[t])
  BY DEF StopsFor
<1> QED BY <1>1, Aside

\* Calls of the user and the system.
LEMMA UserRunning ==
  ASSUME TypeOK, RunningInv, UserStep
  PROVE  RunningInv'
<1>t. Main \in Threads /\ Binders \subseteq Threads
  BY ThreadsAssumption
<1>c. UNCHANGED <<STARTED, RUNTIME, stateLock>> /\ serviceState' \in {serviceState, "Stopping"}
  BY DEF UserStep, OnStartCommand, OnStartCommandIgnored, BinderStart, SetNode, StopInternal,
         OnDestroy, coreVars
<1>o. ASSUME NEW t \in Threads, NEW r, Becomes(t, r)
      PROVE  th'[t] = r /\ \A u \in Threads \ {t} : th'[u] = th[u]
  BY <1>o DEF TypeOK, Becomes
<1>1. ASSUME NEW n \in Nodes, OnStartCommand(n) PROVE RunningInv'
  <2>1. th[Main].pc = "idle" /\ Becomes(Main, At("start", "idle", None, None, n))
    BY <1>1 DEF OnStartCommand, Called
  <2>2. th'[Main].pc = "start"
    BY <1>o, <1>t, <2>1 DEF At
  <2> QED BY <1>c, <1>o, <1>t, <2>1, <2>2, CalledRunning
<1>2. CASE OnStartCommandIgnored
  <2>1. UNCHANGED <<th, serviceState>>
    BY <1>2 DEF OnStartCommandIgnored
  <2> QED BY <1>c, <2>1 DEF RunningInv, Pending, Claims
<1>3. ASSUME NEW t \in Binders, BinderStart(t) PROVE RunningInv'
  <2>1. th[t].pc = "idle" /\ Becomes(t, At("start", th[t].cont, th[t].held, th[t].eng, th[t].arg))
    BY <1>t, <1>3, GotoBecomes DEF BinderStart, Called
  <2>2. th'[t].pc = "start"
    BY <1>o, <1>t, <2>1 DEF At
  <2> QED BY <1>c, <1>o, <1>t, <2>1, <2>2, CalledRunning
<1>4. ASSUME NEW t \in Binders, NEW n \in Nodes, SetNode(t, n) PROVE RunningInv'
  <2>1. Becomes(t, Resting) \/ Becomes(t, At("setUri", "idle", None, None, n))
    BY <1>4 DEF SetNode
  <2>2. th'[t].pc \in {"idle", "setUri"} /\ \A u \in Threads \ {t} : th'[u] = th[u]
    BY <1>o, <1>t, <2>1 DEF Resting, At
  <2>3. th[t].pc = "idle"
    BY <1>4 DEF SetNode, Called
  <2> QED BY <1>c, <1>t, <2>2, <2>3, CalledRunning
<1>5. ASSUME NEW t \in {Main} \cup Binders, StopInternal(t) PROVE RunningInv'
  <2>1. th[t].pc = "idle" /\ Becomes(t, At("clear", "stopped", None, None, None))
    BY <1>5 DEF StopInternal, Called, TearsDown
  <2>2. th'[t].pc = "clear"
    BY <1>o, <1>t, <2>1 DEF At
  <2> QED BY <1>c, <1>o, <1>t, <2>1, <2>2, CalledRunning
<1>6. CASE OnDestroy
  <2>1. th[Main].pc = "idle" /\ Becomes(Main, At("destroy", "stopped", None, None, None))
    BY <1>6 DEF OnDestroy, Called, TearsDown
  <2>2. th'[Main].pc = "destroy"
    BY <1>o, <1>t, <2>1 DEF At
  <2> QED BY <1>c, <1>o, <1>t, <2>1, <2>2, CalledRunning
<1> QED BY <1>1, <1>2, <1>3, <1>4, <1>5, <1>6 DEF UserStep

\* A failover event only occupies an idle coroutine.
LEMMA EventRunning ==
  ASSUME TypeOK, RunningInv, NEW s \in Sessions, EventArrives(s)
  PROVE  RunningInv'
<1>c. UNCHANGED <<STARTED, RUNTIME, stateLock, serviceState>>
  BY DEF EventArrives, WatchdogTells, shellVars
<1>1. CASE UNCHANGED th
  BY <1>c, <1>1 DEF RunningInv, Pending, Claims
<1>2. CASE active
  <2>1. PICK j \in Jobs :
          /\ th[j].pc = "idle"
          /\ Becomes(j, At("event", "idle", None, None,
                           IF wd[s].pc = "switched" THEN wd[s].node ELSE None))
    BY <1>2 DEF EventArrives
  <2>2. j \in Threads
    BY ThreadsAssumption
  <2>3. th'[j].pc = "event" /\ \A u \in Threads \ {j} : th'[u] = th[u]
    BY <2>1, <2>2 DEF Becomes, TypeOK, At
  <2> QED BY <1>c, <2>1, <2>2, <2>3, CalledRunning
<1> QED BY <1>1, <1>2 DEF EventArrives

\* Every step keeps what Running stands for.
LEMMA RunningKept ==
  ASSUME IInv, RunningInv, [Next]_vars
  PROVE  RunningInv'
<1>i. TypeOK /\ LockOwner /\ EnginesOwned
  BY DEF IInv
<1>1. ASSUME NEW t \in Threads, ThreadStep(t) PROVE RunningInv'
  <2>1. (NativeStep(t) /\ UNCHANGED shellVars) \/ ServiceStep(t)
    BY <1>1 DEF ThreadStep, ServiceStep
  <2> QED BY <1>i, <2>1, NativeRunning, ServiceRunning
<1>2. ASSUME NEW s \in Sessions, WatchdogStep(s) PROVE RunningInv'
  <2>1. CASE EventArrives(s)
    BY <1>i, <2>1, EventRunning
  <2>2. CASE WatchdogThinks(s) /\ UNCHANGED shellVars
    <3>1. UNCHANGED <<STARTED, RUNTIME, th, stateLock, serviceState>>
      BY <2>2 DEF WatchdogThinks, WatchdogExit, WatchdogCalm, WatchdogAlarm, ProbeStarts,
                  ProbeEnds, WatchdogSwitch, WatchdogNoSwitch, shellVars
    <3> QED BY <3>1 DEF RunningInv, Pending, Claims
  <2> QED BY <1>2, <2>1, <2>2 DEF WatchdogStep
<1>3. CASE UserStep
  BY <1>i, <1>3, UserRunning
<1>4. ASSUME NEW s \in Sessions, PumpExit(s), UNCHANGED shellVars PROVE RunningInv'
  BY <1>4 DEF PumpExit, shellVars, RunningInv, Pending, Claims
<1>5. CASE UNCHANGED vars
  BY <1>5 DEF vars, coreVars, shellVars, RunningInv, Pending, Claims
<1> QED BY <1>1, <1>2, <1>3, <1>4, <1>5 DEF Next

\* However starts, stops, restarts and failed starts overlap: when every thread
\* is done, a service that says Running (CoreService.kt) has a runtime (lib.rs).
THEOREM RunningIsTrue == Spec => []RunningHasCore
<1>1. Init => RunningInv
  <2> SUFFICES ASSUME Init PROVE RunningInv
    OBVIOUS
  <2>1. ~Claims /\ stateLock = None /\ \A t \in Threads : th[t].pc = "idle"
    BY DEF Init, CoreInit, Claims, Resting, At
  <2> QED BY <2>1 DEF RunningInv, StopsFor
<1>2. IInv /\ RunningInv /\ [Next]_vars => RunningInv'
  BY RunningKept
<1>3. RunningInv => RunningHasCore
  <2> SUFFICES ASSUME RunningInv, Quiet, serviceState = "Running" PROVE RUNTIME # None
    BY DEF RunningHasCore
  <2>1. Claims /\ ~Pending
    BY DEF Claims, Pending, Quiet
  <2> QED BY <2>1 DEF RunningInv
<1> QED BY <1>1, <1>2, <1>3, Invariant, PTL DEF Spec

=============================================================================
