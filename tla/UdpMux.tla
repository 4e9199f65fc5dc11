------------------------------- MODULE UdpMux -------------------------------
(***************************************************************************)
(* The shared UDP tunnels of proxy/udp_mux.rs.  A pool has a few slots;    *)
(* each holds at most one tunnel, built by the first flow that needs it    *)
(* and replaced when it is dead.  A tunnel has two pumps (the writer and   *)
(* the demultiplexer), a table from stream ids to flows and a counter of   *)
(* ids that wraps.                                                         *)
(*                                                                         *)
(* The actions below are the calls a flow makes and the steps of the       *)
(* pumps; UdpFlows says when a flow makes them.                            *)
(***************************************************************************)
EXTENDS Integers, FiniteSets

CONSTANTS
  Flows,      \* flow tasks: a slot is used again when its task is gone
  Slots,      \* slots of the MuxSet
  MaxMuxes,   \* bound: tunnels built
  SidSpace,   \* number of values of the id counter, 2^32 in the code
  MaxSids,    \* MUX_MAX_SIDS_PER_TUNNEL, by tunnel so that a small one fills up
  None        \* no tunnel, flow, key or id

ASSUME MuxAssumption ==
  /\ MaxMuxes \in Nat /\ SidSpace \in Nat /\ SidSpace > 1 /\ MaxSids \in [1..MaxMuxes -> Nat]
  /\ None \notin Flows /\ None \notin Nat

Muxes == 1..MaxMuxes
Sids == 1..(SidSpace - 1)

VARIABLES
  built,      \* tunnels built so far
  slot,       \* MuxSet.slots: the tunnel in each slot
  slotLock,   \* the flow that holds the tokio Mutex of a slot across create()
  alive,      \* MuxTunnel.alive
  pumps,      \* the pumps of each tunnel that still run
  nextSid,    \* MuxTunnel.next_sid
  streams,    \* MuxTunnel.flows: the flow each id is registered for
  tunnelOf,   \* the tunnel a flow has taken
  sidOf,      \* the id a flow was given
  turn,       \* history: how many ids the tunnel had given before that one
  given       \* history: ids given so far by each tunnel

muxVars == <<built, slot, slotLock, alive, pumps, nextSid, streams, tunnelOf, sidOf, turn, given>>
heldVars == <<tunnelOf, sidOf, turn>>

MuxInit ==
  /\ built = 0 /\ slot = [s \in Slots |-> None] /\ slotLock = [s \in Slots |-> None]
  /\ alive = [m \in Muxes |-> FALSE] /\ pumps = [m \in Muxes |-> {}]
  /\ nextSid = [m \in Muxes |-> 1] /\ streams = [m \in Muxes |-> [i \in Sids |-> None]]
  /\ tunnelOf = [f \in Flows |-> None] /\ sidOf = [f \in Flows |-> None]
  /\ turn = [f \in Flows |-> 0] /\ given = [m \in Muxes |-> 0]

-----------------------------------------------------------------------------
(* MuxSet::get, by flow f for slot s. *)

Usable(s) == slot[s] # None /\ alive[slot[s]]

\* The lock is free and the slot holds a live tunnel.
TakeTunnel(f, s) ==
  /\ slotLock[s] = None /\ Usable(s)
  /\ tunnelOf' = [tunnelOf EXCEPT ![f] = slot[s]]
  /\ UNCHANGED <<built, slot, slotLock, alive, pumps, nextSid, streams, sidOf, turn, given>>

\* The lock is free and a tunnel has to be built; create() runs under the lock.
LockSlot(f, s) ==
  /\ slotLock[s] = None /\ ~Usable(s)
  /\ slotLock' = [slotLock EXCEPT ![s] = f]
  /\ UNCHANGED <<built, slot, alive, pumps, nextSid, streams, heldVars, given>>

\* MuxTunnel::create succeeds: the pool gave a tunnel and the sentinel is sent.
BuildTunnel(f, s) ==
  /\ slotLock[s] = f /\ built < MaxMuxes
  /\ built' = built + 1
  /\ slot' = [slot EXCEPT ![s] = built + 1]
  /\ slotLock' = [slotLock EXCEPT ![s] = None]
  /\ alive' = [alive EXCEPT ![built + 1] = TRUE]
  /\ pumps' = [pumps EXCEPT ![built + 1] = {"writer", "demux"}]
  /\ tunnelOf' = [tunnelOf EXCEPT ![f] = built + 1]
  /\ UNCHANGED <<nextSid, streams, sidOf, turn, given>>

\* The pool has none to give, or the sentinel cannot be sent.
BuildFails(f, s) ==
  /\ slotLock[s] = f
  /\ slotLock' = [slotLock EXCEPT ![s] = None]
  /\ UNCHANGED <<built, slot, alive, pumps, nextSid, streams, heldVars, given>>

-----------------------------------------------------------------------------
(* MuxTunnel::alloc_sid, one step per access to the atomic. *)

\* Mutant: the counter saturates.
MutSaturate(n) == IF n = SidSpace - 1 THEN n ELSE n + 1

Successor(n) == (n + 1) % SidSpace

\* f is given id n of tunnel m.
Gives(f, m, n) ==
  /\ sidOf' = [sidOf EXCEPT ![f] = n]
  /\ turn' = [turn EXCEPT ![f] = given[m]]
  /\ given' = [given EXCEPT ![m] = @ + 1]

\* fetch_add; 0 is not an id, so f has to ask again.
FetchSid(f) ==
  LET m == tunnelOf[f] IN
    /\ nextSid' = [nextSid EXCEPT ![m] = Successor(@)]
    /\ IF nextSid[m] # 0 THEN Gives(f, m, nextSid[m]) ELSE UNCHANGED <<sidOf, turn, given>>
    /\ UNCHANGED <<built, slot, slotLock, alive, pumps, streams, tunnelOf>>

\* The fetch_add after a 0.  0 twice: id 1 by decree, and store(2).  The store is
\* taken with that second 0: for a flow to come between the two, all the ids of
\* the counter must first have been given between the two calls of one flow.
FetchAgain(f) ==
  LET m == tunnelOf[f] IN
    /\ IF nextSid[m] # 0
       THEN nextSid' = [nextSid EXCEPT ![m] = Successor(@)] /\ Gives(f, m, nextSid[m])
       ELSE nextSid' = [nextSid EXCEPT ![m] = 2 % SidSpace] /\ Gives(f, m, 1)
    /\ UNCHANGED <<built, slot, slotLock, alive, pumps, streams, tunnelOf>>

-----------------------------------------------------------------------------
(* Registration. *)

Registered(m) == {i \in Sids : streams[m][i] # None}
Full(m) == Cardinality(Registered(m)) >= MaxSids[m]

\* try_register: an insert, whatever the id was registered for.
Register(f) ==
  /\ ~Full(tunnelOf[f])
  /\ streams' = [streams EXCEPT ![tunnelOf[f]][sidOf[f]] = f]
  /\ UNCHANGED <<built, slot, slotLock, alive, pumps, nextSid, heldVars, given>>

\* Mutant: the guard has no Drop.
MutKeepStream(m, i) == streams[m]

Without(m, i) == [streams[m] EXCEPT ![i] = None]

\* The flow's Arc of the tunnel and its uplink sender are dropped.
Forgets(f) ==
  /\ tunnelOf' = [tunnelOf EXCEPT ![f] = None] /\ sidOf' = [sidOf EXCEPT ![f] = None]
  /\ turn' = [turn EXCEPT ![f] = 0]
  /\ UNCHANGED <<built, slot, slotLock, alive, pumps, nextSid, given>>

\* try_register failed.
LetGo(f) == Forgets(f) /\ UNCHANGED streams

\* SidGuard::drop: the entry of the id goes, whoever it is of.
Unregister(f) ==
  Forgets(f) /\ streams' = [streams EXCEPT ![tunnelOf[f]] = Without(tunnelOf[f], sidOf[f])]

-----------------------------------------------------------------------------
(* The pumps. *)

\* The writer meets an error, or its channel has lost its last sender; the
\* demultiplexer meets an error, the end, or a minute of silence.
PumpEnds(m, p) ==
  /\ p \in pumps[m]
  /\ pumps' = [pumps EXCEPT ![m] = @ \ {p}] /\ alive' = [alive EXCEPT ![m] = FALSE]
  /\ UNCHANGED <<built, slot, slotLock, nextSid, streams, heldVars, given>>

\* A frame for id i is handed to the flow the table has for it.
Routes(m, i, f) == "demux" \in pumps[m] /\ streams[m][i] = f
=============================================================================
