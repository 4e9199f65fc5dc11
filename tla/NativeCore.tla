----------------------------- MODULE NativeCore -----------------------------
(***************************************************************************)
(* The native library behind MirageNative (mirage-jni/src/lib.rs and       *)
(* tun/mod.rs): which runtime is installed, which TUN stacks run, which    *)
(* engine each of them uses, and the failover watchdogs.                   *)
(*                                                                         *)
(* A session is one successful start(): a tokio runtime and its TunStack.  *)
(* An engine is one Engine::new(): it is live until Engine::shutdown().    *)
(* JNI calls run on the threads that make them, one step per access to the *)
(* shared statics; CoreService composes them with the Kotlin service.      *)
(***************************************************************************)
EXTENDS Naturals, FiniteSets

CONSTANTS
  Threads,       \* threads and coroutines that call the library
  Nodes,         \* URIs a node may have
  NodeList,      \* failover::node_list(), the watchdog's choice
  MaxSessions,   \* bound: runtimes built
  MaxEngines,    \* bound: engines built
  None           \* no session, engine, node or thread

ASSUME NodesAssumption == NodeList \subseteq Nodes /\ None \notin Nodes \cup Threads
ASSUME BoundsAssumption ==
  MaxSessions \in Nat \ {0} /\ MaxEngines \in Nat \ {0} /\ None \notin Nat

Sessions == 1..MaxSessions
Engines == 1..MaxEngines

VARIABLES
  STARTED,           \* the flag isRunning() returns
  RUNTIME,           \* the installed session
  CURRENT_NODE_URI,  \* what the watchdog takes for the current node
  WATCHDOG_GEN,      \* generation of the last watchdog
  stacks,            \* the TunStack of each session
  built,             \* engines built so far
  live,              \* engines not shut down
  probes,            \* engines pick_best_node tries candidates on, by the
                     \* session whose watchdog asked for it
  wd,                \* the watchdog task of each session
  th                 \* where each thread is, and what it holds

coreVars == <<STARTED, RUNTIME, CURRENT_NODE_URI, WATCHDOG_GEN, stacks, built, live, probes, wd>>

\* A thread at p: it returns to c from stop(), holds the Arcs of session s,
\* has an engine e to install and was passed (or told) the node n.
At(p, c, s, e, n) == [pc |-> p, cont |-> c, held |-> s, eng |-> e, arg |-> n]
Resting == At("idle", "idle", None, None, None)
Becomes(t, r) == th' = [th EXCEPT ![t] = r]
Goto(t, p) == th' = [th EXCEPT ![t].pc = p]

Stack(p, e, u) == [phase |-> p, engine |-> e, udp |-> u]
Watchdog(p, g, f, s, n) == [pc |-> p, gen |-> g, failed |-> f, held |-> s, node |-> n]
NoWatchdog == Watchdog("none", 0, FALSE, None, None)

CoreInit ==
  /\ STARTED = FALSE /\ RUNTIME = None /\ CURRENT_NODE_URI = None /\ WATCHDOG_GEN = 0
  /\ stacks = [s \in Sessions |-> Stack("unborn", None, None)]
  /\ built = 0 /\ live = {} /\ probes = [s \in Sessions |-> {}]
  /\ wd = [s \in Sessions |-> NoWatchdog]
  /\ th = [t \in Threads |-> Resting]

Up(s) == stacks[s].phase = "up"

-----------------------------------------------------------------------------
(* engine.rs and tun/mod.rs. *)

\* Engine::new, and whatever l says of the other engines.
NewEngine(l) == built < MaxEngines /\ built' = built + 1 /\ live' = l \cup {built + 1}

\* Mutant: the engine swapped out is forgotten.
MutSwapLeaks(l, old) == l

\* old.shutdown()
ShutDown(l, old) == l \ {old}

\* TunStack::swap_engine
SwappedEngine(s, e) == [stacks EXCEPT ![s] = Stack(@.phase, e, @.udp)]

\* Mutant: stop() leaves the flag alone, so that it is not idempotent.
MutStopKeepsFlag(s) == stacks

StoppedStack(s) == [stacks EXCEPT ![s] = Stack("stopped", @.engine, @.udp)]

\* TunStack::stop, idempotent
StopStack(s) ==
  IF Up(s) THEN stacks' = StoppedStack(s) /\ live' = ShutDown(live, stacks[s].engine)
           ELSE UNCHANGED <<stacks, live>>

\* The reader thread meets an error on the TUN fd; the pump stops the stack.
PumpExit(s) ==
  /\ Up(s) /\ StopStack(s)
  /\ UNCHANGED <<STARTED, RUNTIME, CURRENT_NODE_URI, WATCHDOG_GEN, built, probes, wd, th>>

-----------------------------------------------------------------------------
(* start(): a thread at "nstart" with its node in arg.  It ends at         *)
(* "started" or "failed".                                                  *)

StartCheck(t) ==
  /\ th[t].pc = "nstart"
  /\ \/ /\ STARTED /\ RUNTIME # None
        /\ Goto(t, "started") /\ UNCHANGED <<STARTED, CURRENT_NODE_URI>>
     \/ /\ ~(STARTED /\ RUNTIME # None)
        /\ \/ STARTED' = TRUE /\ CURRENT_NODE_URI' = th[t].arg /\ Goto(t, "build")
           \/ STARTED' = FALSE /\ UNCHANGED CURRENT_NODE_URI /\ Goto(t, "failed")
  /\ UNCHANGED <<RUNTIME, WATCHDOG_GEN, stacks, built, live, probes, wd>>

\* A runtime, Engine::new and TunStack::start on it.
StartBuild(t) ==
  /\ th[t].pc = "build"
  /\ \E s \in Sessions :
       /\ stacks[s].phase = "unborn" /\ \A r \in 1..(s - 1) : stacks[r].phase # "unborn"
       /\ NewEngine(live)
       /\ stacks' = [stacks EXCEPT ![s] = Stack("up", built + 1, built + 1)]
       /\ Becomes(t, At("install", "idle", s, None, None))
  /\ UNCHANGED <<STARTED, RUNTIME, CURRENT_NODE_URI, WATCHDOG_GEN, probes, wd>>

\* The runtime, the engine or the dup of the TUN fd fails.
StartBuildFails(t) ==
  /\ th[t].pc = "build" /\ Goto(t, "failed") /\ STARTED' = FALSE
  /\ UNCHANGED <<RUNTIME, CURRENT_NODE_URI, WATCHDOG_GEN, stacks, built, live, probes, wd>>

StartInstall(t) ==
  /\ th[t].pc = "install" /\ RUNTIME' = th[t].held /\ Goto(t, "spawn")
  /\ UNCHANGED <<STARTED, CURRENT_NODE_URI, WATCHDOG_GEN, stacks, built, live, probes, wd>>

\* spawn_failover_watchdog, onto whatever RUNTIME holds by now
StartSpawn(t) ==
  /\ th[t].pc = "spawn"
  /\ WATCHDOG_GEN' = WATCHDOG_GEN + 1
  /\ wd' = IF RUNTIME = None THEN wd
           ELSE [wd EXCEPT ![RUNTIME] = Watchdog("sleep", WATCHDOG_GEN + 1, FALSE, None, None)]
  /\ Becomes(t, At("started", "idle", None, None, None))
  /\ UNCHANGED <<STARTED, RUNTIME, CURRENT_NODE_URI, stacks, built, live, probes>>

-----------------------------------------------------------------------------
(* stop(): a thread at "take"; it ends where cont says. *)

StopTake(t) ==
  /\ th[t].pc = "take" /\ RUNTIME' = None
  /\ Becomes(t, At("halt", th[t].cont, RUNTIME, None, th[t].arg))
  /\ UNCHANGED <<STARTED, CURRENT_NODE_URI, WATCHDOG_GEN, stacks, built, live, probes, wd>>

\* state.stack.stop(), drop(state)
StopHalt(t) ==
  /\ th[t].pc = "halt"
  /\ IF th[t].held = None THEN UNCHANGED <<stacks, live>> ELSE StopStack(th[t].held)
  /\ Becomes(t, At("end", th[t].cont, None, None, th[t].arg))
  /\ UNCHANGED <<STARTED, RUNTIME, CURRENT_NODE_URI, WATCHDOG_GEN, built, probes, wd>>

StopEnd(t) ==
  /\ th[t].pc = "end" /\ STARTED' = FALSE
  /\ Becomes(t, At(th[t].cont, "idle", None, None, th[t].arg))
  /\ UNCHANGED <<RUNTIME, CURRENT_NODE_URI, WATCHDOG_GEN, stacks, built, live, probes, wd>>

-----------------------------------------------------------------------------
(* setNode(): a thread at "setUri" with the node in arg. *)

\* The current node is written before anything is switched.
SetNodeUri(t) ==
  /\ th[t].pc = "setUri" /\ CURRENT_NODE_URI' = th[t].arg /\ Goto(t, "grab")
  /\ UNCHANGED <<STARTED, RUNTIME, WATCHDOG_GEN, stacks, built, live, probes, wd>>

\* The Arcs are cloned under the lock, the lock is released.
SetNodeGrab(t) ==
  /\ th[t].pc = "grab"
  /\ Becomes(t, IF RUNTIME = None THEN Resting ELSE At("rebuild", "idle", RUNTIME, None, None))
  /\ UNCHANGED coreVars

SetNodeRebuild(t) ==
  /\ th[t].pc = "rebuild"
  /\ \/ NewEngine(live) /\ Becomes(t, At("swap", "idle", th[t].held, built + 1, None))
     \/ Becomes(t, Resting) /\ UNCHANGED <<built, live>>
  /\ UNCHANGED <<STARTED, RUNTIME, CURRENT_NODE_URI, WATCHDOG_GEN, stacks, probes, wd>>

SetNodeSwap(t) ==
  /\ th[t].pc = "swap"
  /\ stacks' = SwappedEngine(th[t].held, th[t].eng)
  /\ live' = ShutDown(live, stacks[th[t].held].engine)
  /\ Becomes(t, Resting)
  /\ UNCHANGED <<STARTED, RUNTIME, CURRENT_NODE_URI, WATCHDOG_GEN, built, probes, wd>>

-----------------------------------------------------------------------------
(* The watchdog task of session s.  Its sleeps and its backoff are time,   *)
(* and the health of a node and of the network is the environment's.       *)

WatchdogMoves(s, w) == wd' = [wd EXCEPT ![s] = w]

\* Mutant: a watchdog does not ask whether it has been superseded.
MutOnlyRuntime(s) == FALSE

Superseded(s) == wd[s].gen # WATCHDOG_GEN

\* It wakes for nothing, and the task drops its Arc of the runtime.
WatchdogExit(s) ==
  /\ wd[s].pc = "sleep" /\ (Superseded(s) \/ RUNTIME = None)
  /\ WatchdogMoves(s, Watchdog("gone", 0, FALSE, None, None))
  /\ UNCHANGED <<STARTED, RUNTIME, CURRENT_NODE_URI, WATCHDOG_GEN, stacks, built, live, probes, th>>

Awake(s) == wd[s].pc = "sleep" /\ ~Superseded(s) /\ RUNTIME # None

\* No network, or a healthy engine: the failures are forgotten.
WatchdogCalm(s) ==
  /\ Awake(s)
  /\ WatchdogMoves(s, Watchdog("sleep", wd[s].gen, FALSE, None, None))
  /\ UNCHANGED <<STARTED, RUNTIME, CURRENT_NODE_URI, WATCHDOG_GEN, stacks, built, live, probes, th>>

Candidates(cur) == NodeList \ {cur}

\* An unhealthy engine: the first time it only counts, the second time it
\* looks for another node.
WatchdogAlarm(s) ==
  /\ Awake(s)
  /\ WatchdogMoves(s,
       IF ~wd[s].failed THEN Watchdog("sleep", wd[s].gen, TRUE, None, None)
       ELSE IF Candidates(CURRENT_NODE_URI) # {}
         THEN Watchdog("pick", wd[s].gen, FALSE, RUNTIME, CURRENT_NODE_URI)
         ELSE Watchdog("restart", wd[s].gen, FALSE, RUNTIME, CURRENT_NODE_URI))
  /\ UNCHANGED <<STARTED, RUNTIME, CURRENT_NODE_URI, WATCHDOG_GEN, stacks, built, live, probes, th>>

\* pick_best_node, in mode "best": a task for each candidate tries it on an
\* engine of its own ...
ProbeStarts(s) ==
  /\ wd[s].pc = "pick" /\ Cardinality(probes[s]) < Cardinality(Candidates(wd[s].node))
  /\ NewEngine(live) /\ probes' = [probes EXCEPT ![s] = @ \cup {built + 1}]
  /\ UNCHANGED <<STARTED, RUNTIME, CURRENT_NODE_URI, WATCHDOG_GEN, stacks, wd, th>>

\* ... and shuts it down once the node has answered or 3 s are over.
ProbeEnds(s) ==
  /\ \E e \in probes[s] :
       live' = ShutDown(live, e) /\ probes' = [probes EXCEPT ![s] = @ \ {e}]
  /\ UNCHANGED <<STARTED, RUNTIME, CURRENT_NODE_URI, WATCHDOG_GEN, stacks, built, wd, th>>

\* The watchdog waits for all of them.
Picked(s) == wd[s].pc = "pick" /\ probes[s] = {}

\* switch_engine_to: Engine::new and swap_engine
WatchdogSwitch(s) ==
  /\ Picked(s)
  /\ NewEngine(ShutDown(live, stacks[wd[s].held].engine))
  /\ stacks' = SwappedEngine(wd[s].held, built + 1)
  /\ \E n \in Candidates(wd[s].node) :
       WatchdogMoves(s, Watchdog("switched", wd[s].gen, FALSE, wd[s].held, n))
  /\ UNCHANGED <<STARTED, RUNTIME, CURRENT_NODE_URI, WATCHDOG_GEN, probes, th>>

\* No candidate answers, or Engine::new fails.
WatchdogNoSwitch(s) ==
  /\ Picked(s)
  /\ WatchdogMoves(s, Watchdog("restart", wd[s].gen, FALSE, wd[s].held, wd[s].node))
  /\ UNCHANGED <<STARTED, RUNTIME, CURRENT_NODE_URI, WATCHDOG_GEN, stacks, built, live, probes, th>>

\* The event goes out; th is for the service that receives it.
WatchdogTells(s) ==
  /\ \/ wd[s].pc = "switched" /\ CURRENT_NODE_URI' = wd[s].node
     \/ wd[s].pc = "restart" /\ UNCHANGED CURRENT_NODE_URI
  /\ WatchdogMoves(s, Watchdog("sleep", wd[s].gen, FALSE, None, None))
  /\ UNCHANGED <<STARTED, RUNTIME, WATCHDOG_GEN, stacks, built, live, probes>>

-----------------------------------------------------------------------------
NativeStep(t) ==
  \/ StartCheck(t) \/ StartBuild(t) \/ StartBuildFails(t) \/ StartInstall(t) \/ StartSpawn(t)
  \/ StopTake(t) \/ StopHalt(t) \/ StopEnd(t)
  \/ SetNodeUri(t) \/ SetNodeGrab(t) \/ SetNodeRebuild(t) \/ SetNodeSwap(t)

WatchdogThinks(s) ==
  \/ WatchdogExit(s) \/ WatchdogCalm(s) \/ WatchdogAlarm(s) \/ ProbeStarts(s) \/ ProbeEnds(s)
  \/ WatchdogSwitch(s) \/ WatchdogNoSwitch(s)
=============================================================================
