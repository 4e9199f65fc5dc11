----------------------------- MODULE CoreService -----------------------------
(***************************************************************************)
(* The Android service (CoreService.kt) driving the native library: its    *)
(* state machine under stateLock, its entry points on the main thread and  *)
(* on binder threads, and the coroutines that act on the failover events   *)
(* of the kernel.  Main runs onStartCommand and onDestroy; Binders run the *)
(* AIDL calls; Jobs run dispatchFailoverEvent, in any order.               *)
(*                                                                         *)
(* serviceState is written under stateLock except where the code does not  *)
(* take it: failAndStop, and the reads of onStartCommand.                  *)
(***************************************************************************)
EXTENDS NativeCore

CONSTANTS
  Main,       \* the main thread
  Binders,    \* threads of the binder pool
  Jobs,       \* bound: failover events in flight
  MaxCalls,   \* bound: calls made by the user and the system
  MayDestroy  \* whether the system destroys the service

ASSUME ThreadsAssumption ==
  /\ Threads = {Main} \cup Binders \cup Jobs
  /\ Main \notin Binders \cup Jobs /\ Binders \cap Jobs = {}
  /\ MaxCalls \in Nat /\ MayDestroy \in BOOLEAN

VARIABLES
  serviceState,  \* Stopped, Starting, Running or Stopping
  stateLock,     \* the thread that is in startLocked
  uri,           \* serviceConfig.uri
  active,        \* whether the companion's active instance is this one
  destroyed,     \* onDestroy has begun: nobody calls any more
  calls          \* calls made

shellVars == <<serviceState, stateLock, uri, active, destroyed, calls>>
vars == <<coreVars, th, shellVars>>

\* onCreate has run: the instance is the active one.
Init ==
  /\ CoreInit
  /\ serviceState = "Stopped" /\ stateLock = None /\ uri = None
  /\ active = TRUE /\ destroyed = FALSE /\ calls = 0

Unlocked == stateLock = None

\* A new call on thread t.
Called(t) ==
  /\ th[t].pc = "idle" /\ ~destroyed
  /\ calls < MaxCalls /\ calls' = calls + 1

\* Where a refused or failed start leaves thread t: onStartCommand goes on to
\* failAndStop, a binder or a job just returns.
Refused(t) == IF t = Main THEN At("failAndStop", "idle", None, None, None) ELSE Resting

-----------------------------------------------------------------------------
(* Starting. *)

\* onStartCommand with a start intent: it reads serviceState without the
\* lock, takes the intent's node for its own and starts with it.
OnStartCommand(n) ==
  /\ Called(Main)
  /\ serviceState \in {"Stopped", "Stopping"}
  /\ uri' = n /\ active' = TRUE /\ Becomes(Main, At("start", "idle", None, None, n))
  /\ UNCHANGED <<coreVars, serviceState, stateLock, destroyed>>

\* A start while Starting or Running, a stop that is stale or has nothing to
\* stop, or no intent at all: the instance still becomes the active one.
OnStartCommandIgnored ==
  /\ Called(Main) /\ active' = TRUE
  /\ UNCHANGED <<coreVars, th, serviceState, stateLock, uri, destroyed>>

\* AIDL start()
BinderStart(t) ==
  /\ Called(t) /\ Goto(t, "start")
  /\ UNCHANGED <<coreVars, serviceState, stateLock, uri, active, destroyed>>

\* Mutant: the verdict does not ask the library.
MutTrustState(state, running) == state = "Running"

AlreadyRunning(state, running) == state = "Running" /\ running

\* startInternal up to the verdict
StartInternal(t) ==
  /\ th[t].pc = "start" /\ Unlocked
  /\ \/ /\ serviceState = "Stopping"
        /\ Becomes(t, Refused(t)) /\ UNCHANGED <<serviceState, stateLock, active>>
     \/ /\ AlreadyRunning(serviceState, STARTED)
        /\ Becomes(t, Resting) /\ active' = TRUE /\ UNCHANGED <<serviceState, stateLock>>
     \/ /\ serviceState # "Stopping" /\ ~AlreadyRunning(serviceState, STARTED)
        /\ Becomes(t, At("nstart", "idle", None, None,
                         IF th[t].arg = None THEN uri ELSE th[t].arg))
        /\ serviceState' = "Starting" /\ stateLock' = t /\ active' = TRUE
  /\ UNCHANGED <<coreVars, uri, destroyed, calls>>

\* startLocked gives up before it calls the library (no node, no permission,
\* no TUN), or something it does after the library has started throws; the
\* cleanup stops the library again.
StartLockedFails(t) ==
  /\ th[t].pc \in {"nstart", "started"} /\ Goto(t, "failed")
  /\ UNCHANGED <<coreVars, shellVars>>

StateAfterStart(ok) == IF ok THEN "Running" ELSE "Stopped"

StartSucceeds(t) ==
  /\ th[t].pc = "started" /\ Becomes(t, Resting)
  /\ serviceState' = StateAfterStart(TRUE) /\ stateLock' = None
  /\ UNCHANGED <<coreVars, uri, active, destroyed, calls>>

\* The cleanup calls stop() with the lock still held.
StartFails(t) ==
  /\ th[t].pc = "failed" /\ Becomes(t, At("take", "unlock", None, None, None))
  /\ serviceState' = StateAfterStart(FALSE)
  /\ UNCHANGED <<coreVars, stateLock, uri, active, destroyed, calls>>

StartUnlocks(t) ==
  /\ th[t].pc = "unlock" /\ Becomes(t, Refused(t)) /\ stateLock' = None
  /\ UNCHANGED <<coreVars, serviceState, uri, active, destroyed, calls>>

\* failAndStop writes serviceState without the lock.
FailAndStop ==
  /\ th[Main].pc = "failAndStop" /\ Becomes(Main, Resting)
  /\ serviceState' = "Stopped"
  /\ UNCHANGED <<coreVars, stateLock, uri, active, destroyed, calls>>

-----------------------------------------------------------------------------
(* Stopping. *)

TearsDown(t, p) == Becomes(t, At(p, "stopped", None, None, None))

\* stopInternal (ACTION_STOP, AIDL stop(), onRevoke): Stopping is committed
\* under the lock, the teardown runs outside it.
StopInternal(t) ==
  /\ Called(t) /\ Unlocked /\ serviceState \notin {"Stopping", "Stopped"}
  /\ serviceState' = "Stopping" /\ TearsDown(t, "clear")
  /\ UNCHANGED <<coreVars, stateLock, uri, active, destroyed>>

StopClears(t) ==
  /\ th[t].pc = "clear" /\ active' = FALSE /\ TearsDown(t, "take")
  /\ UNCHANGED <<coreVars, serviceState, stateLock, uri, destroyed, calls>>

\* Mutant: the teardown returns without giving up Stopping.
MutStaysStopping == serviceState

Finished == "Stopped"

StopFinishes(t) ==
  /\ th[t].pc = "stopped" /\ Unlocked
  /\ serviceState' = Finished /\ Becomes(t, Resting)
  /\ UNCHANGED <<coreVars, stateLock, uri, active, destroyed, calls>>

\* onDestroy clears first, and tears down whatever the state is.
OnDestroy ==
  /\ MayDestroy /\ Called(Main)
  /\ destroyed' = TRUE /\ active' = FALSE /\ TearsDown(Main, "destroy")
  /\ UNCHANGED <<coreVars, serviceState, stateLock, uri>>

DestroyStops ==
  /\ th[Main].pc = "destroy" /\ Unlocked
  /\ serviceState' = "Stopping" /\ TearsDown(Main, "take")
  /\ UNCHANGED <<coreVars, stateLock, uri, active, destroyed, calls>>

\* onDestroy ends with scope.cancel(): coroutines not yet running never do.
Cancelled == destroyed /\ th[Main].pc = "idle"

-----------------------------------------------------------------------------
(* Switching. *)

\* AIDL setNode: serviceConfig first, then the library if it runs.
SetNode(t, n) ==
  /\ Called(t) /\ uri' = n
  /\ Becomes(t, IF STARTED THEN At("setUri", "idle", None, None, n) ELSE Resting)
  /\ UNCHANGED <<coreVars, serviceState, stateLock, active, destroyed>>

\* The watchdog's event: dropped without an active instance, else a coroutine
\* that carries the new node, or None for a restart.
EventArrives(s) ==
  /\ WatchdogTells(s)
  /\ IF active
       THEN \E j \in Jobs :
              /\ th[j].pc = "idle"
              /\ Becomes(j, At("event", "idle", None, None,
                               IF wd[s].pc = "switched" THEN wd[s].node ELSE None))
       ELSE UNCHANGED th
  /\ UNCHANGED shellVars

\* The coroutine looks at the state, under the lock, and acts after it.
HonorEvent(j) ==
  /\ th[j].pc = "event" /\ Unlocked
  /\ Becomes(j, CASE serviceState # "Running" \/ Cancelled -> Resting
                  [] th[j].arg # None -> At("switched", "idle", None, None, th[j].arg)
                  [] OTHER -> At("take", "start", None, None, None))
  /\ UNCHANGED <<coreVars, shellVars>>

OnKernelSwitched(j) ==
  /\ th[j].pc = "switched" /\ uri' = th[j].arg /\ Becomes(j, Resting)
  /\ UNCHANGED <<coreVars, serviceState, stateLock, active, destroyed, calls>>

-----------------------------------------------------------------------------
ThreadStep(t) ==
  \/ NativeStep(t) /\ UNCHANGED shellVars
  \/ StartInternal(t) \/ StartLockedFails(t) \/ StartSucceeds(t) \/ StartFails(t) \/ StartUnlocks(t)
  \/ StopClears(t) \/ StopFinishes(t) \/ HonorEvent(t) \/ OnKernelSwitched(t)
  \/ t = Main /\ (FailAndStop \/ DestroyStops)

WatchdogStep(s) == (WatchdogThinks(s) /\ UNCHANGED shellVars) \/ EventArrives(s)

UserStep ==
  \/ OnStartCommandIgnored \/ \E n \in Nodes : OnStartCommand(n)
  \/ \E t \in Binders : BinderStart(t) \/ \E n \in Nodes : SetNode(t, n)
  \/ \E t \in {Main} \cup Binders : StopInternal(t)
  \/ OnDestroy

Next ==
  \/ \E t \in Threads : ThreadStep(t)
  \/ \E s \in Sessions : WatchdogStep(s)
  \/ UserStep
  \/ \E s \in Sessions : PumpExit(s) /\ UNCHANGED shellVars

Spec == Init /\ [][Next]_vars

\* Every thread and every task runs; nobody has to call, and nothing on the
\* TUN has to fail.  A launch never waits: only the bound on Jobs makes it
\* wait here, hence strong fairness for the event.
FairSpec ==
  /\ Spec
  /\ \A t \in Threads : WF_vars(ThreadStep(t))
  /\ \A s \in Sessions : WF_vars(WatchdogStep(s)) /\ SF_vars(EventArrives(s))

-----------------------------------------------------------------------------
(* Properties. *)

MaybeNode == Nodes \cup {None}
MaybeSession == Sessions \cup {None}
MaybeEngine == Engines \cup {None}

Places ==
  {"idle", "start", "nstart", "build", "install", "spawn", "started", "failed", "unlock",
   "failAndStop", "take", "halt", "end", "stopped", "clear", "destroy",
   "setUri", "grab", "rebuild", "swap", "event", "switched"}

Hands == [pc : Places, cont : {"idle", "unlock", "stopped", "start"},
          held : MaybeSession, eng : MaybeEngine, arg : MaybeNode]
Stacks == [phase : {"unborn", "up", "stopped"}, engine : MaybeEngine, udp : MaybeEngine]
Watchdogs == [pc : {"none", "sleep", "pick", "restart", "switched", "gone"},
              gen : Nat, failed : BOOLEAN, held : MaybeSession, node : MaybeNode]

\* Types, and one thing more: Starting lasts no longer than the lock of a start.
TypeOK ==
  /\ STARTED \in BOOLEAN /\ RUNTIME \in MaybeSession
  /\ CURRENT_NODE_URI \in MaybeNode /\ WATCHDOG_GEN \in Nat
  /\ stacks \in [Sessions -> Stacks]
  /\ built \in 0..MaxEngines /\ live \subseteq 1..built
  /\ probes \in [Sessions -> SUBSET (1..built)]
  /\ wd \in [Sessions -> Watchdogs]
  /\ th \in [Threads -> Hands]
  /\ serviceState \in {"Stopped", "Starting", "Running", "Stopping"}
  /\ stateLock \in Threads \cup {None} /\ uri \in MaybeNode
  /\ active \in BOOLEAN /\ destroyed \in BOOLEAN /\ calls \in 0..MaxCalls
  /\ serviceState = "Starting" => stateLock # None

\* setNode, the watchdog's switch and stop() may race on one stack: the engine
\* of a running stack has never been shut down.  (A RunState that kept its own
\* engine once broke this.)
CurrentEngineLives == \A s \in Sessions : Up(s) => stacks[s].engine \in live

\* Whoever wins those races, no engine escapes: one that is live is the engine
\* of some stack, or a setNode is about to install it, or a watchdog tries a
\* node on it.
NoOrphanEngine ==
  \A e \in live :
    \/ \E s \in Sessions : stacks[s].engine = e
    \/ \E t \in Threads : th[t].eng = e
    \/ \E s \in Sessions : e \in probes[s]

Quiet == \A t \in Threads : th[t].pc = "idle"

\* When all calls and coroutines are done, a service that says Running has a
\* core installed, however starts, stops and restarts overlapped.
RunningHasCore == Quiet /\ serviceState = "Running" => RUNTIME # None

\* A stop always ends: Stopping does not last, so starts are not refused for
\* ever.
StopEnds == serviceState = "Stopping" ~> serviceState # "Stopping"

\* Each start() has its own watchdog; one that a later start has superseded
\* goes away, even in the middle of a switch.
WatchdogsRetire ==
  \A s \in Sessions :
    (wd[s].pc \notin {"none", "gone"} /\ wd[s].gen < WATCHDOG_GEN) ~> wd[s].pc = "gone"
=============================================================================
