------------------------------ MODULE TunStack -----------------------------
(***************************************************************************)
(* The user-space TCP stack of tun/mod.rs: the reader thread, the pump     *)
(* task, the sockets that are made for the SYNs it meets, the sweep that   *)
(* takes old sockets away, and the relay tasks that hold a socket by its   *)
(* handle (TunTcpStream in tun/tcp.rs).                                    *)
(*                                                                         *)
(* smoltcp is external: its sockets are modelled by the states the code    *)
(* asks for, its handles by the slots they are indexes of.  Its clock      *)
(* stands still (smol_now(Instant::now()) is always zero), so it sends     *)
(* nothing twice and no state of its own ends by time.  The clients are    *)
(* the TCP connections of the apps, all to one destination.                *)
(***************************************************************************)
EXTENDS Integers, Sequences, FiniteSets, SequencesExt

CONSTANTS
  Flows,       \* connections of apps: the four-tuples
  MaxRelays,   \* bound: sockets made, and so relays spawned and slots used
  KernelCap,   \* packets the TUN holds
  ChanCap,     \* packets between reader and pump
  TxCap,       \* packets of the stack that wait for the TUN
  Batch,       \* packets handled in one round after the first
  ZombieAge,   \* age at which a closed socket is taken, in ticks
  OrphanAge,   \* age at which a catcher or a half-closed socket is taken
  NoFlow, NoSocket

ASSUME TunStackAssumption ==
  /\ NoFlow \notin Flows /\ MaxRelays \in Nat \ {0} /\ KernelCap \in Nat /\ ChanCap \in Nat \ {0}
  /\ Batch \in Nat /\ TxCap \in Nat \ {0} /\ ZombieAge \in Nat /\ OrphanAge \in Nat /\ ZombieAge <= OrphanAge
  /\ NoSocket \notin [state : {"listen"}, flow : {NoFlow}, data : {0}, age : {0}, number : Nat]

Relays == 1..MaxRelays
Slots == 1..MaxRelays

VARIABLES
  client,     \* by flow: none, syn, open, done or gone
  kernel,     \* packets in the TUN, from the apps
  reader,     \* of the reader thread: poll, send or done
  held,       \* the packet it is sending
  chan,       \* packets on their way to the pump
  pump,       \* of the pump task: select, works or done
  handled,    \* packets of this round
  told,       \* the pump's stop_notify.notified() has fired
  stopped,    \* TunStack.stopped; the fd is closed with it
  sockets,    \* SocketSet: by slot
  tx,         \* device.tx
  relays,     \* relay tasks: phase, slot, and the socket it saw established
  spawned,    \* how many there were
  mixed       \* history: a relay read what was sent to another socket

threadVars == <<reader, held, chan, pump, handled, told, stopped>>
stackVars == <<sockets, tx, relays, spawned>>
vars == <<client, kernel, threadVars, stackVars, mixed>>

Init ==
  /\ client = [f \in Flows |-> "none"] /\ kernel = <<>>
  /\ reader = "poll" /\ held = <<>> /\ chan = <<>>
  /\ pump = "select" /\ handled = 0 /\ told = FALSE /\ stopped = FALSE
  /\ sockets = [s \in Slots |-> NoSocket] /\ tx = <<>>
  /\ relays = [r \in Relays |-> [phase |-> "none", slot |-> 1, saw |-> 0]]
  /\ spawned = 0 /\ mixed = FALSE

Packet(kind, f) == [kind |-> kind, flow |-> f]

-----------------------------------------------------------------------------
(* The apps. *)

Under == kernel \o held \o chan
Syns == Cardinality({i \in DOMAIN Under : Under[i].kind \in {"syn", "badsyn"}})

Sends(f, kind, state) ==
  /\ Len(kernel) < KernelCap /\ kernel' = Append(kernel, Packet(kind, f))
  /\ client' = [client EXCEPT ![f] = state]
  /\ UNCHANGED <<threadVars, stackVars, mixed>>

\* The first SYN or another try; smoltcp drops one with a wrong checksum.
AppSyn(f) ==
  /\ client[f] \in {"none", "syn"} /\ spawned + Syns < MaxRelays
  /\ \E kind \in {"syn", "badsyn"} : Sends(f, kind, "syn")

AppData(f) == client[f] = "open" /\ Sends(f, "data", "open")
AppFin(f) == client[f] = "open" /\ Sends(f, "fin", "done")
AppReset(f) == client[f] \in {"syn", "open", "done"} /\ Sends(f, "rst", "gone")

-----------------------------------------------------------------------------
(* The reader thread. *)

ReaderReads ==
  /\ reader = "poll" /\ ~stopped /\ kernel # <<>>
  /\ held' = <<Head(kernel)>> /\ kernel' = Tail(kernel) /\ reader' = "send"
  /\ UNCHANGED <<client, chan, pump, handled, told, stopped, stackVars, mixed>>

\* blocking_send: waits for room, or fails when the pump is gone.
Sent == reader = "send" /\ (Len(chan) < ChanCap \/ pump = "done")

\* The last of a burst: nothing more to read, an error, or 32 packets.
ReaderSends ==
  /\ Sent /\ reader' = "poll" /\ held' = <<>>
  /\ chan' = IF pump = "done" THEN chan ELSE Append(chan, Head(held))
  /\ UNCHANGED <<client, kernel, pump, handled, told, stopped, stackVars, mixed>>

\* The burst goes on, without a look at stopped.
ReaderBursts ==
  /\ Sent /\ pump # "done" /\ kernel # <<>>
  /\ chan' = Append(chan, Head(held)) /\ held' = <<Head(kernel)>> /\ kernel' = Tail(kernel)
  /\ UNCHANGED <<client, reader, pump, handled, told, stopped, stackVars, mixed>>

\* The pipe, or the 5 s of poll, and stopped is seen.
ReaderStops ==
  /\ reader = "poll" /\ stopped /\ reader' = "done"
  /\ UNCHANGED <<client, kernel, held, chan, pump, handled, told, stopped, stackVars, mixed>>

\* The TUN was taken away.
ReaderFails ==
  /\ reader = "poll" /\ reader' = "done"
  /\ UNCHANGED <<client, kernel, held, chan, pump, handled, told, stopped, stackVars, mixed>>

-----------------------------------------------------------------------------
(* smoltcp. *)

\* TunTxToken: a full queue loses its oldest packet.
Emit(p) == tx' = Append(IF Len(tx) = TxCap THEN Tail(tx) ELSE tx, p)

Bound(f) == {s \in Slots : sockets[s] # NoSocket /\ sockets[s].flow = f}
Least(S) == CHOOSE s \in S : \A t \in S : s <= t
Free == {s \in Slots : sockets[s] = NoSocket}

\* Socket::close
Closed(sock) ==
  CASE sock.state = "listen" -> [sock EXCEPT !.state = "closed"]
    [] sock.state \in {"synrcvd", "open"} -> [sock EXCEPT !.state = "finwait"]
    [] sock.state = "closewait" -> [sock EXCEPT !.state = "lastack"]
    [] OTHER -> sock

\* A segment of a socket's own flow.
Meets(sock, kind) ==
  CASE kind = "rst" -> [sock EXCEPT !.state = IF @ = "synrcvd" THEN "listen" ELSE "closed",
                                    !.flow = NoFlow, !.data = 0]
    [] kind = "ack" /\ sock.state = "synrcvd" -> [sock EXCEPT !.state = "open"]
    [] kind = "ack" /\ sock.state = "lastack" -> [sock EXCEPT !.state = "closed", !.flow = NoFlow]
    [] kind = "data" /\ sock.state \in {"open", "finwait"} -> [sock EXCEPT !.data = 1]
    [] kind = "fin" /\ sock.state = "open" -> [sock EXCEPT !.state = "closewait"]
    [] kind = "fin" /\ sock.state = "finwait" -> [sock EXCEPT !.state = "timewait"]
    [] OTHER -> sock

-----------------------------------------------------------------------------
(* The pump. *)

\* Mutant: no look for the four-tuple.
MutCatchEach(f) == TRUE

\* prescan_tcp makes a socket unless the four-tuple has one.
Catches(f) == Bound(f) = {}

\* The catcher and its relay; the SYN then goes to the first socket that listens.
Catch(f, good) ==
  LET s == Least(Free)
      made == [sockets EXCEPT ![s] = [state |-> "listen", flow |-> NoFlow, data |-> 0,
                                      age |-> 0, number |-> spawned + 1]]
      taker == Least({t \in Slots : made[t] # NoSocket /\ made[t].state = "listen"})
  IN /\ relays' = [relays EXCEPT ![spawned + 1] = [phase |-> "waits", slot |-> s, saw |-> 0]]
     /\ spawned' = spawned + 1
     /\ sockets' = IF good THEN [made EXCEPT ![taker].state = "synrcvd", ![taker].flow = f] ELSE made
     /\ IF good THEN Emit(Packet("synack", f)) ELSE UNCHANGED tx

\* handle_rx_packet for TCP.
Handle(p) ==
  CASE p.kind \in {"syn", "badsyn"} /\ Catches(p.flow) -> Catch(p.flow, p.kind = "syn")
    [] p.kind \notin {"syn", "badsyn"} /\ Bound(p.flow) # {} ->
         /\ sockets' = [s \in Slots |-> IF s \in Bound(p.flow) THEN Meets(sockets[s], p.kind) ELSE sockets[s]]
         /\ UNCHANGED <<tx, relays, spawned>>
    [] p.kind \notin {"syn", "badsyn", "rst"} /\ Bound(p.flow) = {} ->
         /\ Emit(Packet("rst", p.flow)) /\ UNCHANGED <<sockets, relays, spawned>>
    [] OTHER -> UNCHANGED stackVars

\* rx.recv() or try_recv().
PumpTakes ==
  /\ chan # <<>> /\ chan' = Tail(chan) /\ Handle(Head(chan)) /\ told' = FALSE
  /\ \/ pump = "select" /\ handled' = 0
     \/ pump = "works" /\ handled < Batch /\ handled' = handled + 1
  /\ pump' = "works" /\ UNCHANGED <<client, kernel, reader, held, stopped, mixed>>

\* drain_tx: what the TUN takes after at most three tries; the apps answer.
Reached(written, f) ==
  LET is(kind) == \E i \in written : tx[i] = Packet(kind, f) IN
    CASE is("rst") /\ client[f] # "none" -> "gone"
      [] is("synack") /\ client[f] = "syn" -> "open"
      [] OTHER -> client[f]

Answers(written) ==
  LET asked == {i \in written : \/ tx[i].kind = "synack" /\ client[tx[i].flow] = "syn"
                                \/ tx[i].kind = "fin" /\ client[tx[i].flow] \in {"open", "done"}}
  IN [i \in 1..Cardinality(asked) |-> Packet("ack", tx[SetToSortSeq(asked, <)[i]].flow)]

DrainTx ==
  IF stopped THEN UNCHANGED <<client, kernel, tx>>
  ELSE /\ \E written \in SUBSET DOMAIN tx :
            /\ client' = [f \in Flows |-> Reached(written, f)]
            /\ kernel' = kernel \o Answers(written)
       /\ tx' = <<>>

\* Mutant: half-closed sockets stay.
MutKeepHalfClosed(sock) ==
  \/ sock.state = "listen" /\ sock.age >= OrphanAge
  \/ sock.state \in {"closed", "timewait"} /\ sock.age >= ZombieAge

\* The three rules of sweep, by the age of the socket since it was made.
Stale(sock) ==
  \/ sock.state = "listen" /\ sock.age >= OrphanAge
  \/ sock.state \in {"closed", "timewait"} /\ sock.age >= ZombieAge
  \/ sock.state = "finwait" /\ sock.age >= OrphanAge

Sweep ==
  sockets' = [s \in Slots |-> IF sockets[s] # NoSocket /\ Stale(sockets[s]) THEN NoSocket ELSE sockets[s]]

\* The end of a round.
PumpFinishes ==
  /\ pump = "works" /\ (chan = <<>> \/ handled = Batch)
  /\ DrainTx /\ Sweep /\ pump' = "select" /\ handled' = 0
  /\ UNCHANGED <<reader, held, chan, told, stopped, relays, spawned, mixed>>

\* tick.tick()
PumpTick ==
  /\ pump = "select" /\ DrainTx /\ Sweep /\ told' = FALSE
  /\ UNCHANGED <<reader, held, chan, pump, handled, stopped, relays, spawned, mixed>>

\* wake.notified(), of a relay's poll_now.
PumpWakes ==
  /\ pump = "select" /\ tx # <<>> /\ DrainTx /\ told' = FALSE
  /\ UNCHANGED <<reader, held, chan, pump, handled, stopped, sockets, relays, spawned, mixed>>

\* Mutant: the pump waits for its notification only.
MutDeafPump == told

\* The notification, or the end of the channel.
MustStop == told \/ (reader = "done" /\ chan = <<>>)

\* The pump ends, and stops the rest.
PumpStops ==
  /\ pump = "select" /\ MustStop /\ pump' = "done" /\ told' = FALSE /\ stopped' = TRUE
  /\ UNCHANGED <<client, kernel, reader, held, chan, handled, stackVars, mixed>>

\* TunStack::stop: notify_waiters reaches a pump that waits, and nobody else.
Stop ==
  /\ ~stopped /\ stopped' = TRUE /\ told' = (pump = "select")
  /\ UNCHANGED <<client, kernel, reader, held, chan, pump, handled, stackVars, mixed>>

-----------------------------------------------------------------------------
(* The relays. *)

SocketOf(r) == sockets[relays[r].slot]
OnlyRelays == UNCHANGED <<client, kernel, threadVars, spawned>>

\* wait_established
Established(r) ==
  /\ relays[r].phase = "waits" /\ SocketOf(r) # NoSocket /\ SocketOf(r).state = "open"
  /\ relays' = [relays EXCEPT ![r].phase = "works", ![r].saw = SocketOf(r).number]
  /\ UNCHANGED <<sockets, tx, mixed>> /\ OnlyRelays

\* TunTcpStream::close: of whatever socket the slot holds by now.
Close(r) ==
  LET s == relays[r].slot IN
    /\ relays' = [relays EXCEPT ![r].phase = "done", ![r].saw = 0]
    /\ IF sockets[s] = NoSocket THEN UNCHANGED <<sockets, tx>>
       ELSE /\ sockets' = [sockets EXCEPT ![s] = Closed(@)]
            /\ IF Closed(sockets[s]) # sockets[s] /\ sockets[s].flow # NoFlow
               THEN Emit(Packet("fin", sockets[s].flow)) ELSE UNCHANGED tx
    /\ UNCHANGED mixed /\ OnlyRelays

\* Cleaned up, refused, or 15 s without Established.
GivesUp(r) == relays[r].phase = "waits" /\ Close(r)

\* poll_read
RelayReads(r) ==
  /\ relays[r].phase = "works" /\ SocketOf(r) # NoSocket /\ SocketOf(r).data > 0
  /\ sockets' = [sockets EXCEPT ![relays[r].slot].data = 0]
  /\ mixed' = (mixed \/ SocketOf(r).number # relays[r].saw)
  /\ UNCHANGED <<tx, relays>> /\ OnlyRelays

\* The relay ends, for whatever reason, and drops its stream.
RelayEnds(r) == relays[r].phase = "works" /\ Close(r)

-----------------------------------------------------------------------------
\* A second or two pass.
Tick ==
  /\ sockets' = [s \in Slots |-> IF sockets[s] = NoSocket THEN NoSocket
                                 ELSE [sockets[s] EXCEPT !.age = IF @ < OrphanAge THEN @ + 1 ELSE @]]
  /\ sockets' # sockets
  /\ UNCHANGED <<client, kernel, threadVars, tx, relays, spawned, mixed>>

Reader == ReaderReads \/ ReaderSends \/ ReaderBursts \/ ReaderStops
Pump == PumpTakes \/ PumpFinishes \/ PumpStops

Next ==
  \/ \E f \in Flows : AppSyn(f) \/ AppData(f) \/ AppFin(f) \/ AppReset(f)
  \/ Reader \/ ReaderFails \/ Pump \/ PumpTick \/ PumpWakes \/ Stop \/ Tick
  \/ \E r \in Relays : Established(r) \/ GivesUp(r) \/ RelayReads(r) \/ RelayEnds(r)

Spec == Init /\ [][Next]_vars

\* The thread runs and its bursts end, the pump is polled, select draws among
\* what is ready, and time passes; a relay waits for Established 15 s at most.
\* Nothing else is asked of the relays, and nothing of the apps.
FairSpec ==
  /\ Spec /\ SF_vars(ReaderSends \/ ReaderStops) /\ WF_vars(Pump) /\ SF_vars(PumpTick) /\ WF_vars(Tick)
  /\ \A r \in Relays : WF_vars(Established(r) \/ GivesUp(r))

-----------------------------------------------------------------------------
\* No four-tuple has two sockets, though SYNs come again while one is opened,
\* closed or swept.
OneSocketEach == \A f \in Flows : Cardinality(Bound(f)) <= 1

\* A socket that no relay works with goes, whatever its app did and whatever
\* was lost on the way, unless it waits for the ACK of its own FIN: LastAck is
\* not swept, and a stack whose clock stands still sends no FIN again.
Orphaned(s) ==
  /\ sockets[s] # NoSocket /\ sockets[s].state # "lastack"
  /\ \A r \in Relays : relays[r].phase = "works" => relays[r].slot # s

ZombiesGo == \A s \in Slots : Orphaned(s) ~> (~Orphaned(s) \/ stopped)

\* Once the stack is stopped, or its TUN is gone, reader and pump both end, even
\* when stop() notified a pump that was not waiting.
ThreadsEnd == (stopped \/ reader = "done") ~> (reader = "done" /\ pump = "done")

\* A relay reads from the socket it saw established, and from no other that
\* came into its slot.
OwnSocket == ~mixed
=============================================================================
