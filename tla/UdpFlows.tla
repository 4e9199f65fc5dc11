------------------------------ MODULE UdpFlows ------------------------------
(***************************************************************************)
(* UDP through the TUN (tun/udp.rs): the pump thread feeds datagrams to    *)
(* the table of flows, one task per flow relays them over a shared tunnel  *)
(* (UdpMux), over a tunnel of its own, or directly; the command server     *)
(* may cut a connection (monitor.rs).                                      *)
(*                                                                         *)
(* A task is a place of its code (pc); time is a choice, so a timeout may  *)
(* come whenever its wait is on.  A datagram is a unit of its queue.  No   *)
(* send over a tunnel has a timeout: it lasts while the peer reads nothing.*)
(***************************************************************************)
EXTENDS UdpMux

CONSTANTS
  Keys,       \* FlowKey: the two addresses
  MaxFlows,   \* MAX_FLOWS
  QueueCap,   \* capacity of a flow's channel, 256 in the code
  MaxFeeds    \* bound: datagrams fed

ASSUME FlowsAssumption ==
  /\ IsFiniteSet(Keys) /\ None \notin Keys
  /\ MaxFlows \in Nat /\ QueueCap \in Nat \ {0} /\ MaxFeeds \in Nat

VARIABLES
  table,      \* UdpEngine.flows: the flow that has the sender of a key
  flowCount,  \* GLOBAL_FLOW_COUNT
  pc,         \* where a task is; "none": there is no task
  keyOf,      \* the key a task was made for
  queue,      \* datagrams in its channel
  gotDown,    \* got_downlink of its mux registration
  halves,     \* dn and up of an unshared relay that still run
  sending,    \* the flows that are inside a send of their own
  listed,     \* the flows with a record in ACTIVE_CONNECTIONS
  aborted,    \* notify_waiters found it waiting on its Notify
  fed

taskVars == <<pc, keyOf, queue, gotDown, halves, sending, aborted>>
vars == <<muxVars, table, flowCount, taskVars, listed, fed>>

Init ==
  /\ MuxInit
  /\ table = [k \in Keys |-> None] /\ flowCount = 0
  /\ pc = [f \in Flows |-> "none"] /\ keyOf = [f \in Flows |-> None]
  /\ queue = [f \in Flows |-> 0] /\ gotDown = [f \in Flows |-> FALSE]
  /\ halves = [f \in Flows |-> {}] /\ sending = {}
  /\ listed = {} /\ aborted = [f \in Flows |-> FALSE] /\ fed = 0

Entries == {k \in Keys : table[k] # None}
Goes(f, place) == pc' = [pc EXCEPT ![f] = place]
Unlisted(f) == listed' = listed \ {f}

\* The receiver lives until its task returns, or until the half of an unshared
\* relay that owns it ends.
RxOpen(f) == pc[f] \notin {"none", "drop", "leave"} /\ (pc[f] = "relay" => "dn" \in halves[f])

-----------------------------------------------------------------------------
(* UdpEngine::feed, on the pump thread.  A datagram that a rule blocks, or *)
(* that is QUIC to be refused, touches none of this state.                 *)

Counted == flowCount' = Cardinality(Entries)

HasRoom == Cardinality(Entries) < MaxFlows

FeedNew(k, f) ==
  /\ fed < MaxFeeds /\ table[k] = None /\ HasRoom /\ pc[f] = "none"
  /\ Counted /\ fed' = fed + 1
  /\ table' = [table EXCEPT ![k] = f] /\ keyOf' = [keyOf EXCEPT ![f] = k]
  /\ queue' = [queue EXCEPT ![f] = 1] /\ Goes(f, "decide")
  /\ UNCHANGED <<muxVars, gotDown, halves, sending, listed, aborted>>

FeedRefused(k) ==
  /\ fed < MaxFeeds /\ table[k] = None /\ ~HasRoom
  /\ Counted /\ fed' = fed + 1
  /\ UNCHANGED <<muxVars, table, taskVars, listed>>

\* try_send, whose result is dropped.
FeedKnown(k) ==
  LET f == table[k] IN
    /\ fed < MaxFeeds /\ f # None
    /\ Counted /\ fed' = fed + 1
    /\ queue' = IF RxOpen(f) /\ queue[f] < QueueCap THEN [queue EXCEPT ![f] = @ + 1] ELSE queue
    /\ UNCHANGED <<muxVars, table, pc, keyOf, gotDown, halves, sending, listed, aborted>>

-----------------------------------------------------------------------------
(* udp_flow_relay: routing, and the connection record.                     *)

KeepTable == UNCHANGED <<table, flowCount, fed>>
KeepTask == UNCHANGED <<keyOf, queue, gotDown, halves, sending, aborted>>

\* The task goes to its last places with its record closed; what is still in
\* its channel goes with the receiver.
Ends(f, place) ==
  /\ Goes(f, place) /\ Unlisted(f)
  /\ queue' = [queue EXCEPT ![f] = 0] /\ gotDown' = [gotDown EXCEPT ![f] = FALSE]
  /\ halves' = [halves EXCEPT ![f] = {}] /\ sending' = sending \ {f}
  /\ aborted' = [aborted EXCEPT ![f] = FALSE] /\ UNCHANGED keyOf

\* Block is recorded and closed at once; or there is no node; or a direct flow
\* has no address it may use, or no socket.
DecideDrop(f) ==
  /\ pc[f] = "decide" /\ Ends(f, "leave") /\ KeepTable /\ UNCHANGED muxVars

\* The PROXY record; every Engine::new sets UDP_MUX_ENABLED, so either value
\* may be read.  A direct flow that must not go direct comes here as well.
DecideProxy(f) ==
  /\ pc[f] = "decide" /\ listed' = listed \cup {f}
  /\ \E place \in {"slot", "pool"} : Goes(f, place)
  /\ KeepTask /\ KeepTable /\ UNCHANGED muxVars

\* The two halves of an unshared relay start.
Relays(f) ==
  /\ Goes(f, "relay") /\ halves' = [halves EXCEPT ![f] = {"dn", "up"}]
  /\ KeepTable /\ UNCHANGED <<muxVars, keyOf, queue, gotDown, aborted>>

\* udp_flow_direct has an address and a socket; the DIRECT record.
DecideDirect(f) ==
  /\ pc[f] = "decide" /\ Relays(f) /\ listed' = listed \cup {f} /\ UNCHANGED sending

\* pool.get() gave a tunnel, to the flow or to the create() it runs; the sentinel
\* is being sent.
PoolGives(f) ==
  /\ pc[f] \in {"pool", "build"} /\ f \notin sending /\ sending' = sending \cup {f}
  /\ KeepTable /\ UNCHANGED <<muxVars, pc, keyOf, queue, gotDown, halves, aborted, listed>>

\* The sentinel 0 is sent, on a tunnel of the flow's own.
OwnTunnel(f) ==
  /\ pc[f] = "pool" /\ f \in sending /\ Relays(f)
  /\ sending' = sending \ {f} /\ UNCHANGED listed

\* There is no tunnel, or the send fails.
PoolFails(f) ==
  /\ pc[f] = "pool" /\ Ends(f, "leave") /\ KeepTable /\ UNCHANGED muxVars

-----------------------------------------------------------------------------
(* The shared tunnel. *)

GetTunnel(f) ==
  /\ pc[f] = "slot" /\ \E s \in Slots : TakeTunnel(f, s)
  /\ Goes(f, "alloc") /\ KeepTask /\ KeepTable /\ UNCHANGED listed

GetLocks(f) ==
  /\ pc[f] = "slot" /\ \E s \in Slots : LockSlot(f, s)
  /\ Goes(f, "build") /\ KeepTask /\ KeepTable /\ UNCHANGED listed

\* The sentinel 1 is sent; until then the flow held the slot.
GetBuilds(f) ==
  /\ pc[f] = "build" /\ f \in sending /\ \E s \in Slots : BuildTunnel(f, s)
  /\ Goes(f, "alloc") /\ sending' = sending \ {f}
  /\ KeepTable /\ UNCHANGED <<keyOf, queue, gotDown, halves, aborted, listed>>

GetFails(f) ==
  /\ pc[f] = "build" /\ \E s \in Slots : BuildFails(f, s)
  /\ Ends(f, "leave") /\ KeepTable

AllocSid(f) ==
  /\ \/ pc[f] = "alloc" /\ FetchSid(f)
        /\ Goes(f, IF nextSid[tunnelOf[f]] = 0 THEN "alloc2" ELSE "register")
     \/ pc[f] = "alloc2" /\ FetchAgain(f) /\ Goes(f, "register")
  /\ KeepTask /\ KeepTable /\ UNCHANGED listed

TryRegister(f) ==
  /\ pc[f] = "register" /\ Register(f)
  /\ Goes(f, "loop") /\ KeepTask /\ KeepTable /\ UNCHANGED listed

SidLimit(f) ==
  /\ pc[f] = "register" /\ Full(tunnelOf[f]) /\ LetGo(f)
  /\ Ends(f, "leave") /\ KeepTable

\* select!: a datagram is there.  A notification that came as well is lost
\* with the Notified of this round.
LoopTakes(f) ==
  /\ pc[f] = "loop" /\ queue[f] > 0
  /\ queue' = [queue EXCEPT ![f] = @ - 1] /\ aborted' = [aborted EXCEPT ![f] = FALSE]
  /\ Goes(f, "send") /\ KeepTable /\ UNCHANGED <<muxVars, keyOf, gotDown, halves, sending, listed>>

\* Mutant: the wait for the first answer has no end.
MutPatient(f) == gotDown[f] /\ queue[f] = 0

\* A minute without a datagram, or eight seconds without a first answer.
TimedOut(f) == queue[f] = 0 \/ ~gotDown[f]

LoopEnds(f) ==
  /\ pc[f] = "loop" /\ (TimedOut(f) \/ aborted[f])
  /\ Ends(f, "drop") /\ KeepTable /\ UNCHANGED muxVars

\* shared_tx.send: waits for room as long as the writer lives.
SendFrame(f) ==
  /\ pc[f] = "send" /\ "writer" \in pumps[tunnelOf[f]]
  /\ Goes(f, "loop") /\ KeepTask /\ KeepTable /\ UNCHANGED <<muxVars, listed>>

SendFails(f) ==
  /\ pc[f] = "send" /\ "writer" \notin pumps[tunnelOf[f]]
  /\ Ends(f, "drop") /\ KeepTable /\ UNCHANGED muxVars

\* The SidGuard, then the tunnel.
DropSid(f) ==
  /\ pc[f] = "drop" /\ Unregister(f)
  /\ Ends(f, "leave") /\ KeepTable

-----------------------------------------------------------------------------
(* The unshared relay: two halves joined, each with a timeout of its own.  *)

\* dn takes a datagram, with what else is in the channel, and sends it.
DnSends(f) ==
  /\ "dn" \in halves[f] /\ f \notin sending /\ queue[f] > 0
  /\ \E n \in 0..(queue[f] - 1) : queue' = [queue EXCEPT ![f] = n]
  /\ sending' = sending \cup {f}
  /\ KeepTable /\ UNCHANGED <<muxVars, pc, keyOf, gotDown, halves, aborted, listed>>

DnSent(f) ==
  /\ "dn" \in halves[f] /\ f \in sending /\ sending' = sending \ {f}
  /\ KeepTable /\ UNCHANGED <<muxVars, pc, keyOf, queue, gotDown, halves, aborted, listed>>

\* Idle, or an error of the tunnel.
UpEnds(f) ==
  /\ "up" \in halves[f] /\ halves' = [halves EXCEPT ![f] = @ \ {"up"}]
  /\ KeepTable /\ UNCHANGED <<muxVars, pc, keyOf, queue, gotDown, sending, aborted, listed>>

\* Idle, or its send failed.  It owns the receiver.
DnEnds(f) ==
  /\ "dn" \in halves[f] /\ halves' = [halves EXCEPT ![f] = @ \ {"dn"}]
  /\ queue' = [queue EXCEPT ![f] = 0] /\ sending' = sending \ {f}
  /\ KeepTable /\ UNCHANGED <<muxVars, pc, keyOf, gotDown, aborted, listed>>

\* join! is over, or the notification is heard.
RelayEnds(f) ==
  /\ pc[f] = "relay" /\ (halves[f] = {} \/ aborted[f])
  /\ Ends(f, "leave") /\ KeepTable /\ UNCHANGED muxVars

-----------------------------------------------------------------------------

\* remove_flow: by key.
Removed(f) == [table EXCEPT ![keyOf[f]] = None]

\* FlowGuard::drop, and the task's end.
Leave(f) ==
  /\ pc[f] = "leave" /\ Goes(f, "none")
  /\ table' = Removed(f)
  /\ flowCount' = Cardinality({k \in Keys : table'[k] # None})
  /\ keyOf' = [keyOf EXCEPT ![f] = None] /\ queue' = [queue EXCEPT ![f] = 0]
  /\ UNCHANGED <<muxVars, gotDown, aborted, halves, sending, listed, fed>>

\* The demultiplexer hands an answer for id i to the flow it finds there.
Deliver(m, i, f) ==
  /\ Routes(m, i, f) /\ gotDown' = [gotDown EXCEPT ![f] = TRUE]
  /\ KeepTable /\ UNCHANGED <<muxVars, pc, keyOf, queue, halves, sending, aborted, listed>>

PumpDies(m, p) ==
  /\ PumpEnds(m, p) /\ KeepTable /\ UNCHANGED <<taskVars, listed>>

\* monitor::close_connection: notify_waiters reaches only who waits.
CloseConnection(f) ==
  /\ f \in listed /\ pc[f] \in {"loop", "relay"}
  /\ aborted' = [aborted EXCEPT ![f] = TRUE]
  /\ KeepTable /\ UNCHANGED <<muxVars, pc, keyOf, queue, gotDown, halves, sending, listed>>

TaskStep(f) ==
  \/ DecideDrop(f) \/ DecideProxy(f) \/ DecideDirect(f)
  \/ PoolGives(f) \/ OwnTunnel(f) \/ PoolFails(f)
  \/ GetTunnel(f) \/ GetLocks(f) \/ GetBuilds(f) \/ GetFails(f)
  \/ AllocSid(f) \/ TryRegister(f) \/ SidLimit(f)
  \/ LoopTakes(f) \/ LoopEnds(f) \/ SendFrame(f) \/ SendFails(f) \/ DropSid(f)
  \/ DnSends(f) \/ DnSent(f) \/ DnEnds(f) \/ UpEnds(f) \/ RelayEnds(f) \/ Leave(f)

Next ==
  \/ \E k \in Keys : FeedRefused(k) \/ FeedKnown(k) \/ \E f \in Flows : FeedNew(k, f)
  \/ \E f \in Flows : TaskStep(f) \/ CloseConnection(f)
  \/ \E m \in Muxes : \/ \E p \in {"writer", "demux"} : PumpDies(m, p)
                      \/ \E i \in Sids, f \in Flows : Deliver(m, i, f)

Spec == Init /\ [][Next]_vars

\* f waits until bytes are taken: by its own peer, or by the writer of the
\* tunnel it shares, which waits for the peer of that.
Stalled(f) == f \in sending \/ (pc[f] = "send" /\ "writer" \in pumps[tunnelOf[f]])

\* A task is polled until it is gone; the runtime's timers fire; pool.get() ends
\* by its own.  A peer falls silent in the end, or up has no end.  A send is
\* never forced to end, but the other half and a cut do not wait for it.
FairSpec ==
  Spec /\ \A f \in Flows : WF_vars((TaskStep(f) /\ ~Stalled(f)) \/ UpEnds(f) \/ RelayEnds(f))

-----------------------------------------------------------------------------
Tasks == {f \in Flows : pc[f] # "none"}
Places == {"none", "decide", "pool", "slot", "build", "alloc", "alloc2",
           "register", "loop", "send", "drop", "relay", "leave"}
OnStream(f) == pc[f] \in {"loop", "send", "drop"}

\* The types.
TypeOK ==
  /\ built \in 0..MaxMuxes /\ slot \in [Slots -> Muxes \cup {None}]
  /\ slotLock \in [Slots -> Flows \cup {None}] /\ alive \in [Muxes -> BOOLEAN]
  /\ pumps \in [Muxes -> SUBSET {"writer", "demux"}] /\ nextSid \in [Muxes -> 0..(SidSpace - 1)]
  /\ streams \in [Muxes -> [Sids -> Flows \cup {None}]]
  /\ tunnelOf \in [Flows -> Muxes \cup {None}] /\ sidOf \in [Flows -> Sids \cup {None}]
  /\ turn \in [Flows -> Nat] /\ given \in [Muxes -> Nat]
  /\ table \in [Keys -> Flows \cup {None}] /\ flowCount \in Nat /\ pc \in [Flows -> Places]
  /\ keyOf \in [Flows -> Keys \cup {None}] /\ queue \in [Flows -> 0..QueueCap]
  /\ gotDown \in [Flows -> BOOLEAN]
  /\ halves \in [Flows -> SUBSET {"dn", "up"}] /\ sending \subseteq Flows /\ listed \subseteq Flows
  /\ aborted \in [Flows -> BOOLEAN] /\ fed \in 0..MaxFeeds

\* A key has one task, a task holds its key until it ends, and no path through
\* the relay leaves an entry or a record behind; the tasks stay within the
\* limit, and the published count is at most one insert late.
FlowsAccounted ==
  /\ \A k \in Keys, f \in Flows : table[k] = f <=> (f \in Tasks /\ keyOf[f] = k)
  /\ listed \subseteq {f \in Tasks : pc[f] \notin {"decide", "drop", "leave"}}
  /\ Cardinality(Tasks) <= MaxFlows
  /\ flowCount \in {Cardinality(Tasks), Cardinality(Tasks) - 1}

\* Flows that hold the same id of a tunnel were given it a whole round apart,
\* and in the first round a registered flow is found under its id.
SidsApart ==
  \A f \in Flows : sidOf[f] # None =>
    /\ \A g \in Flows \ {f} : tunnelOf[g] = tunnelOf[f] /\ sidOf[g] = sidOf[f] =>
         turn[g] - turn[f] >= SidSpace - 1 \/ turn[f] - turn[g] >= SidSpace - 1
    /\ OnStream(f) /\ given[tunnelOf[f]] < SidSpace => streams[tunnelOf[f]][sidOf[f]] = f

\* No entry outlives its flow, and the sids of a tunnel stay within the limit.
StreamsHeld ==
  \A m \in Muxes :
    /\ \A i \in Sids : streams[m][i] # None =>
         LET f == streams[m][i] IN OnStream(f) /\ tunnelOf[f] = m /\ sidOf[f] = i
    /\ Cardinality(Registered(m)) <= MaxSids[m]

\* No way through the relay leaves anything behind: no entry of the flow table,
\* no record of the monitor, no stream of a tunnel.
NothingLeaks == TypeOK /\ FlowsAccounted /\ StreamsHeld

\* f waits for a send, its own or that of the flow that holds the slot.
Held(f) == Stalled(f) \/ (pc[f] = "slot" /\ \E s \in Slots : slotLock[s] \in sending)

\* When nothing is fed any more every flow times out and leaves, but for one that
\* waits for a send for ever: no other await of the relay holds a flow.
FlowsDrain == \A f \in Flows : <>[](pc[f] = "none") \/ <>[]Held(f)
=============================================================================
