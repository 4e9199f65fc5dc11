# Mirage-android: a TLA+ verification

Mirage is an Android VPN client. An Android service (Kotlin) owns the TUN
device and drives a native library (Rust) that terminates TCP and UDP in user
space, answers DNS with fake addresses, decides for each connection whether it
goes direct or through a proxy, and carries the proxied traffic over encrypted
tunnels that it dials ahead of time.

This directory models the parts of that system that keep state: the pool of
tunnels, the tunnel itself from its dial to its byte stream, the user-space TCP
stack and its relays, UDP flows and shared tunnels, DNS, fake addresses,
routing, outbounds, the smaller stores and parsers, and the life cycle of
service, library, engines and failover watchdogs. TLC checks each model on small
instances; TLAPS proves, for every value of the constants, the safety of the
pool, the fake-IP table, the life cycle, the UDP flows, the DNS flights, the
relay, the tunnel, the TCP stack's sockets, the learned timeouts and their file,
the handshake cache, the tokens, the guards and the tables of routing, the names
read off a first packet, the packets and frames of UDP with their checksums, the
building of the outbounds, and both refinements. `PROJECT.json` maps each
definition to the lines it stands for, and lists the runs, the hazards of the
code and the theorems.

    tlc -workers 2 -config CoreService.cfg MCCoreService      a run
    tlapm CoreServiceProofs.tla                               a set of proofs

Paths below are relative to `src/native/mirage-core/src/` (Rust core), to
`src/native/mirage-jni/src/` for `lib.rs`, and to
`src/android/app/src/main/java/com/mirage/android/` (Kotlin).


## 1. Inventory

### Components, state and operations

| Component | State | Operations |
|---|---|---|
| Warm pool, `proxy/pool.rs` | queue of idle tunnels (tokio Mutex), `in_flight`, target and max size, on-demand semaphore, Notify, failure counters and auth pause, shutdown flag | `get` (pop; else dial on demand and race the queue; else wait), Builder loop and dial tasks, Manager loop, `set_pool_size`, `purge_idle`, `shutdown` |
| Fake-IP mapper, `dns/fake_ip.rs` | two maps, `next_ip`, dirty flag, flush lock, `.tmp` and cache file | `lookup_or_assign`, reverse look-up, `clear`, `flush`, load |
| JNI library, `lib.rs` | `STARTED`, `RUNTIME` (runtime, stack, engine handles), `CURRENT_NODE_URI` | `start`, `stop`, `setNode`, watchdog, getters and setters |
| TUN stack and engine, `tun/mod.rs`, `engine.rs` | running flag, current engine, sockets, the UDP engine's own engine | `start`, `stop`, `swap_engine`, packet pump, reader thread |
| Failover, `failover.rs` and the watchdog in `lib.rs` | node list and mode, watchdog generation, failure and restart counters | wake, judge, choose, switch, tell the service |
| Android service, `CoreService.kt` | `serviceState` and `stateLock`, config (node URI), active instance, TUN descriptor, stop sequence | `onStartCommand`, AIDL calls, `onRevoke`, `onDestroy`, failover events, periodic jobs, network callback |
| UDP flows, `tun/udp.rs` | flow table (at most 128), abort handles, counters | feed, relay and direct loops, two idle timers, removal by guard |
| UDP over mux, `proxy/udp_mux.rs` | mux slots, alive flags, stream ids and their table | get or build a mux, `alloc_sid`, `try_register`, reader and writer tasks |
| DNS, `tun/dns.rs` | single-flight map, answer cache (4096, 30 min), servers | leader and followers, cancellation guard, cache insert and clear |
| TCP relay, `tun/tcp.rs` | socket handles, wakers, close flags | accept, sniff, connect, two half-duplex copies, close |
| Crypto, `crypto/aead.rs`, `handshake_cache.rs` | nonces, rekey state, padding; hello templates, warm-up and refresh flags | send, receive, rekey; warm-up, refresh, use |
| Tunnel, `proxy/tunnel.rs`, `mirage_stream.rs`, `proxy/pool.rs` | place of the dial, keys and counters of both ends, read and write buffers | dial, camouflage handshake, clock frame, choice of a cipher, read, write, flush, shutdown |
| Outbounds, `proxy/outbound.rs` | tree of nodes and groups, current member, cursor | build, resolve a leaf, connect, shutdown |
| Authentication and clock, `crypto/hello_auth.rs`, `time_sync.rs` | clock offset, replay cache in buckets | make and verify a token, learn the offset |
| Routing, `direct.rs`, `geo.rs` | rule list, mode, learned addresses, hit counters, data tables | decide, match, replace rules, load data |
| Monitor, `monitor.rs` | live connections, recent requests, counters | register, update, close, reset |
| Command server, `command_server.rs`, and `core/CommandBusClient.kt` | active clients, stop notification; socket, reconnect loop | accept, serve, stop; connect, retry, stop |
| Buffer pool, adaptive idle, `tun/buffer_pool.rs`, `tun/adaptive_idle.rs` | free buffers; per-destination statistics | acquire, recycle; classify, penalise, decay |
| UI side, `core/CoreController.kt`, `data/repository/VpnRepository.kt` | binder, pending actions, displayed state, sequence numbers | bind, death, pending calls, arbitration of states |
| Assets, `core/GeoManager.kt`, `core/CoreManager.kt` | staged and live files, hashes, selected core | download, verify, replace, roll back, select |
| Stores, `core/*Store.kt` | SharedPreferences | read, write, import, export |

### How they interact

- The UI process calls the service by intents and AIDL; the service calls the
  library by JNI, from its main thread, binder threads and coroutines.
- The library calls back: a failover event crosses JNI, and the service handles
  it in a coroutine, not on the watchdog's thread (`CoreService.kt:874-890`).
- `start` builds a runtime, an `Engine` (outbounds with one warm pool each) and
  a `TunStack`; `setNode` and the watchdog build another engine and swap it in.
- A TCP connection or UDP flow on the stack takes a tunnel from the pool of the
  engine it sees; DNS on the stack assigns fake addresses that the TCP and UDP
  paths translate back.
- Shared state: the statics of `lib.rs` between JNI threads and watchdogs; the
  stack's current engine between `setNode`, watchdogs, `stop` and the pump; the
  pool's queue, counters and Notify between callers, Builder, dials, Manager.

### What is hard

Interleavings of JNI threads, coroutines and watchdogs over four statics and a
state machine that is not locked everywhere; a `select!` that drops a dial, a
permit and a registered waiter together; counters on several exits of a task;
sizes read at different moments; `try_lock` that may fail; a file replaced in
steps while the process may die; tasks that must end after a shutdown; restarts
requested by an event that is late. `PROJECT.json` lists each of these at its
line, with the properties that would catch it going wrong, or why none does.

### What makes each part correct

- Pool: permits and `in_flight` are conserved on every way out; the racy size
  checks have a bound; a pause stops the
  Builder after one round; `get` returns; the pool fills;
  everything ends after `shutdown`.
- Fake IP: the maps are inverse; an address is stable until its slot is reused;
  reserved addresses are unused; the file is one whole table at any crash point
  and forgets nothing.
- Library and service: a running stack has a live engine; no engine is lost;
  a service that says Running has a core; `Stopping` ends; superseded watchdogs
  go; types and the ownership of the start lock.
- UDP: no way through a relay leaves an entry, a record or a stream behind; live
  flows of a tunnel have ids of their own; every flow ends, but in a send; a reply reaches the
  flow that asked.
- DNS: a caller gets an address learned for its own domain or none; one flight
  per domain and cache generation; every call ends.
- TCP: at most one socket per four-tuple; a socket no relay works with goes,
  unless it waits for the last ACK; the threads end after
  a stop; each connection has one open record and leaves none; bytes arrive in
  order; a relay over a tunnel ends.
- Tunnel: only the server's clock and frames are trusted; both ends change keys
  at the same record; no nonce seals twice under one key; a dial ends, but in a send; the
  stream is a byte pipe.
- Routing: no rule or list sends a known foreign name direct in rule mode, what is
  sent direct on purpose can be resolved, no resolver is asked before a mode or a
  default allows it, and the indexes of the data files answer like their lists.
- Smaller parts: the order of the configuration does not decide whether the
  outbounds are built, and a balanced group shares its turns; a relay holds only
  timeouts its target and domain allow, and a listed push service none that is
  short; a saved file can be read; a sniffed name is the one written, wherever the
  first read ends; an answer fits its hello; a token is accepted once and a
  synchronised clock gets in.


## 2. Modules

| Module | Stands for | Used by |
|---|---|---|
| `WarmPool` | `proxy/pool.rs` | `MCWarmPool`, `WarmPoolProofs` |
| `FakeIp` | `dns/fake_ip.rs` | `MCFakeIp`, `FakeIpProofs` |
| `NativeCore` | `lib.rs`, `tun/mod.rs` (life cycle), `engine.rs` | `CoreService` |
| `CoreService` | `CoreService.kt`, composed with `NativeCore` | `MCCoreService`, `CoreServiceProofs` |
| `UdpMux` | `proxy/udp_mux.rs`: slots, tunnels, stream ids | `UdpFlows` |
| `UdpFlows` | `tun/udp.rs`: table of flows, relay tasks | `MCUdpFlows`, `UdpFlowsProofs` |
| `DnsCall` | what `resolve_upstream` promises its callers | `DnsFlight` (refinement) |
| `DnsFlight` | `tun/dns.rs`: single flight and cache | `MCDnsFlight`, `DnsFlightProofs` |
| `Monitor` | `monitor.rs` under its two locks | `RelayLoop` |
| `RelayLoop` | the two halves of a relay in `tun/tcp.rs` | `Relay` |
| `Relay` | `relay_tcp` from handshake to last record | `MCRelay`, `RelayProofs` |
| `RecordLayer` | `crypto/aead.rs`: keys, counters, rekey | `Tunnel` |
| `BytePipe` | what a byte stream promises | `Tunnel` (refinement) |
| `Tunnel` | `connect_upstream`, `proxy/mirage_stream.rs` | `MCTunnel`, `TunnelProofs` |
| `TunStack` | `tun/mod.rs`, `tun/device.rs`: reader, pump, sockets, sweep | `MCTunStack`, `PartsProofs` |
| `OutboundBuild` | `OutboundManager::new` of `proxy/outbound.rs` | `Outbounds`, `PartsProofs` |
| `Outbounds` | the rest of `proxy/outbound.rs` | `MCParts`, `PartsProofs` |
| `AdaptiveIdle` | `tun/adaptive_idle.rs` in memory | `MCParts`, `PartsProofs` |
| `ProfileFile` | `tun/adaptive_idle.rs` on the disk | `MCParts`, `PartsProofs` |
| `Sniffer` | `tun/sniffer.rs` | `MCParts`, `PartsProofs` |
| `Datagrams` | packets and frames of `tun/udp.rs`, `proxy/udp_mux.rs` | `MCParts`, `UdpFlowsProofs` |
| `HandshakeCache` | `crypto/handshake_cache.rs` | `MCParts`, `PartsProofs` |
| `SessionAuth` | `crypto/hello_auth.rs`, `time_sync.rs` | `MCParts`, `PartsProofs` |
| `GeoTables` | `geo.rs`, the built-in blocks of `direct.rs` | `Routing` |
| `Routing` | `direct.rs`, the gates of `tun/dns.rs` and `tun/tcp.rs` | `MCParts`, `PartsProofs` |

Composition: `CoreService` runs the service's threads over the statics of
`NativeCore`; `UdpFlows` calls the operations of `UdpMux` where a flow makes
them; `Relay` drives `RelayLoop` and records itself in `Monitor`; `Tunnel` seals
and opens with `RecordLayer` on both ends; `Routing` decides over `GeoTables`;
`Outbounds` chooses among the nodes that `OutboundBuild` built.
The other modules meet through values: an outcome of `WarmPool.get` is a choice
in `UdpFlows`, `Relay` and `Outbounds`, a verdict of `Routing` is a choice in
`Relay`. Two abstract specifications are implemented by refinement: `DnsCall` by
`DnsFlight`, `BytePipe` by `Tunnel`. TLC checks both on instances, TLAPS proves
both.

### WarmPool

One action per step between two points where another actor can run with an
effect on this one. Getters walk `gpc` (`idle, pop, acquire, race, waitq,
refill, push, repop, use`); the `wait_for_queue` future of a getter has its own
place `wpc`, because in the race it runs beside the dial. `Notify` is modelled by
its documented behaviour (one stored permit, a FIFO of waiters, `notify_waiters`
that also reaches futures created before it, and a dropped woken waiter passing
its notification on). `DialOk`, `DialFail`, `WaitPop` and `GiveUp` each drop what
the `select!` or the timeout drops: the other future, its permit, its dial.

The Builder is `BuilderTop, BuilderReadIdle, BuilderDecide, BuilderSpawn`, one
step per read of shared state, so its decision is as stale as the code's; dial
tasks are `TaskStart, TaskDialOk, TaskDialFail, TaskPush, TaskFinish`; the Manager
is `ManagerWake` (load) and `ManagerSweep` (sweep and store) with
`decide_new_target` and its clamp as operators.

Abstractions: a tunnel is a slot, reused when its socket is closed; latency
statistics, RTT and backoff are time and only decide when a step is taken;
`consecutive_failures` is capped at 3, past which `is_healthy` does not look;
`verdict` stands for the three counters the Manager compares; `Contended` says
when a `try_lock` may fail: exactly when some actor's next step holds the lock.
Bounds: `Tunnels` (slots), `MaxPurges`, `MaxResizes`. A dial is assumed to end by
itself; `Tunnel` has the dial, and shows the one case in which it does not.

### FakeIp

`FastMiss` and `SlowAssign` are the two looks of `lookup_or_assign`; between them
any thread may run. The slow path is one step because it holds the write lock of
`domain_to_ip` throughout. `flush` is one action per system call and lock, so that
two flushers, failures (`FlushFail`) and the death of the process (`Restart`,
which also loads the file) fall between any two of them. Names and addresses are
model values and host numbers. Bounds: `MaxClears`, `MaxCrashes`.

### NativeCore and CoreService

`NativeCore` has the statics of `lib.rs`, the stack of each session (one
successful `start` is a session), engines by number, the watchdog of each
session, and `th`, where each calling thread is: its place, the place it returns
to from `stop()`, the session whose Arcs it holds, an engine it is about to
install, and the node it was passed. A JNI call is one action per access to a
static: `StartCheck, StartBuild, StartInstall, StartSpawn`; `StopTake, StopHalt,
StopEnd`; `SetNodeUri, SetNodeGrab, SetNodeRebuild, SetNodeSwap`. The watchdog
sleeps, exits, forgives, counts, tries other nodes (`ProbeStarts`, `ProbeEnds`:
`pick_best_node` tries each candidate on an engine of its own, all at the same
time, and waits for all of them), switches or asks for a restart.

`CoreService` adds the Kotlin state machine: the verdict of `startInternal` under
`stateLock`, the locked start with its failures, before the library is called and
after it has started, and its cleanup, `stopInternal` that
commits `Stopping` and tears down outside the lock, `failAndStop` and
`onStartCommand` that do not take it, `onDestroy`, `setNode`, and the coroutines
of failover events, which read the state first and act after.

Abstractions: the health of a node and of the network is chosen freely, sleeps
and backoff are time, the permission, the TUN descriptor and the config
failures are one failure of `startLocked`, a candidate is any other node of the
list. Stop sequence numbers are not modelled: the stale stops they filter change
nothing, as in `OnStartCommandIgnored`. One instance of the service is modelled;
`active` is whether the companion object still points to it. Bounds:
`MaxSessions`, `MaxEngines`, `MaxCalls`, `Jobs`.

### UdpFlows, UdpMux and Datagrams

`UdpFlows` has the pump's `feed` (a new flow if there is room, or a datagram for
the queue of a known one) and the relay task of each flow as places of its code:
decide, get the slot's lock, build a tunnel under it, fetch an id, register, the
loop over the mux, or a tunnel of its own with two halves, or the direct socket.
Whatever ends the task goes through `Leave`, the drop of its guard. `UdpMux` has
slots, tunnels with two pumps, the tables of streams and the counter of ids,
which wraps at `SidSpace`; when an id is 0 the second `fetch_add` is a step of
its own, and the `store(2)` of the case that it is 0 too is one with it. An entry
of the flow table and the record in the
monitor are one step where the code has no await between them. A datagram is a
unit of its queue; a timeout may come whenever its wait is on. A send over a tunnel
has no timeout (`tun/udp.rs:352`, `:384`, `:424`, `proxy/udp_mux.rs:157`, `:179`), so
it has a beginning and an end of its own (`sending`), and the end need not come: a
flow waits for its own peer, or for the writer of the tunnel it shares, or for the
flow that holds the slot's lock while its sentinel is being sent.

`Datagrams` has the bytes: the packet of an app, the frame for a tunnel with or
without a stream id, an echoing peer, the reader that cuts frames out of chunks,
and the reply packet with its addresses and checksums; refused datagrams and pings
of fake addresses are answered on the spot. It is a part of its own, checked in
`MCParts`.

### DnsFlight and DnsCall

A call looks in the cache, leads a flight or follows one, and returns what it
was given. Flights are entries of a map under a mutex, a leader that is cancelled
takes its own entry away (`Mine`), `clear_direct_cache` empties map and cache
between any two steps. `DnsCall` knows only who asks for which domain and which
pairs of domain and address upstream servers gave; the refinement maps a call to
its result.

### Relay, RelayLoop and Monitor

`Relay` walks one connection through `relay_tcp`: sniff or skip, the gates,
resolve, dial, first bytes with their retry on a fresh tunnel, direct with its
fall-back to the proxy, the loops and the last record. `todo` is the list of
places still before the task, so that a path is a sequence. `Monitor` has the map
of live connections and the queue of recent ones, each operation on both in two
steps; the command server cuts connections and `reset_session` clears both lists
at any moment. `RelayLoop` has the two halves: reads, sends, the record that the
activity of the other half extends, and the read of a frame in header and body,
which a timeout of the download drops in the middle.

### Tunnel, RecordLayer and BytePipe

The dial: connect, hello, the server's flight, the tail, the clock frame, the
negotiation of a cipher; every wait for the peer has a timeout, which in the flight
starts anew with each header and body (`proxy/pool.rs:596`, `:602`), while the
look-up of the server's name (`proxy/pool.rs:1099`) and the sends have none; then the wait in the pool (which
may discard it), the header of the target and the stream. The other end is a
Mirage server, one with another password or another setting of forward secrecy,
or the site the server hides behind. `RecordLayer` has keys that are a value of
side, direction and cipher, and counters; a record opens under the pair it was
sealed with only. The tasks of both ends run at the same time, and the
connection breaks at any point. `BytePipe` says that bytes come out once each
and in order.

### TunStack

The reader thread that reads the TUN into a channel, the pump whose `select!`
takes packets, ticks and the notification of a stop, the socket made for each
SYN, the answers drained to the TUN with its bounded retries, the sweep by age,
and relays that hold a handle. A slot is reused by the next socket, as smoltcp's
handles are. smoltcp is external: its sockets have the states the code asks for.
The code passes it a clock that stands still (`smol_now`, `tun/mod.rs:155`), so
it never retransmits and no state of it ends by time; the model does the same. The
reader sends in bursts of at most 32 packets, between which alone it looks at the
stop. A relay waits for its socket to be established for 15 s at most and is
otherwise left to itself.

### The parts

`MCParts` puts modules that share no state side by side: a behaviour chooses one
(`part`), starts it from each of its initial states and leaves the others alone.
Each is a state machine of its own.

- `OutboundBuild`: nodes and groups are built in rounds, or the configuration
  fails. `Outbounds`: a connection looks at the members and takes the group's lock
  in two steps, while pools report.
- `AdaptiveIdle`: profiles with category and learned timeout, two relays that ask
  for a timeout four times and report when they close, penalty, decay, cap, save
  and load.
  `ProfileFile`: two savers, inodes and names, death of the process.
- `Sniffer`: the ClientHello byte by byte; the lines of a request, the values of
  their bytes; both at every prefix. The parser's window of 1024 bytes is a place
  in the request (`window`), past which nothing is seen and where a value is cut;
  the text must begin with a method and be UTF-8 as far as the window goes.
- `HandshakeCache`: the first fetch, the refresh and callers over one cache;
  sites that answer short, wrongly or not at all.
- `SessionAuth`: a client's and a server's clock, offset, tokens in flight, the
  replay cache by buckets.
- `Routing`: a task decides (`Relay`, `HandleDnsQuery`, `RelayTcpDns`), and what it
  decided waits in `decided` for its gate, `ResolveUpstream`, before which mode,
  rules, tables and answers may all be replaced. The mode, an atomic, may be any
  that there has been (`modes`): a task may have read it long ago. Rules, tables and
  cache have locks of their own and are read in one look. Rules with AND and OR,
  tables parsed from files that may be cut. `GeoTables` has the parser,
  the indexes and the binary search.


## 3. Runs

| Run | Question | Instance |
|---|---|---|
| `pool` | Do the racy reads and the auth pause keep their bounds | 1 getter, 4 slots, auth failures, ageing and dying tunnels, 1 purge |
| `pool_returns` | Does `get` return; are permits conserved | 2 getters, 2 slots (descriptors run out), 1 permit |
| `pool_tasks` | Do the background tasks settle, fill and end | no getter, 4 slots, 2 resizes, I/O failures, shutdown |
| `fakeip` | Tables, file, stability | 3 domains, 2 addresses, 2 threads, 2 flushers, failures, 1 clear, 1 crash |
| `core` | Engines, Running against the library, ends of stops and watchdogs | 3 threads, 2 nodes, 2 sessions, 2 engines, 2 calls, `onDestroy` |
| `dns` | Flights, and the promise to callers | 3 calls, 2 domains, 2 addresses, cache of 1, 1 clear |
| `udp` | Does any path leave something behind; ids; do flows end | 2 flows, 3 keys, 1 slot, 2 tunnels (2 streams, then 1), 3 ids, queue of 1, 3 feeds |
| `relay` | Records, bytes, end of a relay | 1 connection, 2 chunks up, 2 frames down, 1 recent record |
| `tunnel` | Trust, nonces, end of a dial, the byte pipe | 3 bytes each way, 2 addresses, 5 flights of a site |
| `tun` | One socket per connection, sweep, end of the threads | 1 connection that opens again, 2 sockets, channel of 1, 2 packets out |
| `tun_slot` | Does a relay keep to its own socket (no) | 2 connections, 2 sockets, ages of 1 |
| `parts` | Each of the smaller parts | see below |

The instance of `parts`: 6 configurations of outbounds, 2 connections, 2
reports; 3 domains with a store of 1 profile, 2 relays, 2 connections, 1 save and 1 reload; 2 savers
and 4 writes; 4 hellos and 8 requests at every prefix; 5 flows in both framings with
2 packets and a junk frame, reads of a byte or of everything there is; 2 callers,
3 calls and 3 fetches of 4 kinds of site; 2 dials, 2 tokens, 4 skews, 3 seconds,
1 setting of a clock; 4-bit addresses, 4 names, 4 addresses, 2 lists of rules, 2
changes, data files with repeated, cut, empty and bad entries. A behaviour works one
part; the others rest in their smallest configuration, routing in the mode that
proxies all; routing itself starts there without rules, or in rule mode with
some. Two bounds of `MCParts` keep the instance small: `ClockOrFile` lets the clock of
`AdaptiveIdle` move or its file be written and loaded, not both, and `OneName` lets
one name at a time be decided, asked or learned and one rule be counted. The theorems have neither.

Why these bounds are enough to be interesting:

- Two addresses and three domains are the least that reuse a slot while another
  is kept; two threads and two flushers are the least that race.
- In `pool`, four slots are one more than the pool can hold with a largest size of
  1 and one getter. With that size a round is one dial; that a
  burst of several keeps the bounds is for the theorems.
  `pool_returns` has fewer slots than actors that want one, which is the case of
  exhausted descriptors. `pool_tasks` resizes twice, so that a resize falls on
  each side of the Manager's stale store.
- In `core`, two sessions are the least with a second start over the first; both
  a `setNode` and a watchdog may build the second engine, which may also be a probe.
  What needs three engines, a switch after a probe among it, is for the theorems,
  which hold for any number of them. Failover events are not counted as calls.
- In `udp`, the second tunnel has room for one stream, so both the limit and a
  rebuilt slot occur, and three ids let the counter wrap. In `dns`, three calls
  are leader, follower and the leader of the next flight.
- In `relay`, two chunks are what the retry of the first one needs to go wrong,
  and two frames are what a dropped header would shift. A recent list of one
  overflows at the second record.
- In `tun`, one client that closes and opens again on the same ports meets its
  own old socket; `tun_slot` has a second one to take the freed slot.
- The real constants (5 auth failures, bursts of 8, 16 permits, 128 flows, 4096
  answers) are parameters.

`pool`, `fakeip` and `parts` use symmetry (`parts` for its two relays), with
invariants and action properties that treat the names alike. `pool_tasks` checks liveness, where
symmetry is unsound; instead it takes free slots in order and steps the lower of
two equal dial tasks first (`LowestSlots`). Each behaviour of the pool is one of
these with slots renamed, and the properties do not name slots. Deadlock is
checked except where the system may stop: after a shutdown, at the end of a
connection, a dial or a stack, or once a bound on calls is used up.

### Fairness

- Pool: weak fairness for the steps of getters, dial tasks, Builder and Manager,
  which the tokio runtime polls whenever they are ready, and because a dial ends
  in its connect timeout. `GiveUp` has strong fairness: the ten-second deadline,
  once past, stays past. Nobody has to call, to release a tunnel or to succeed,
  except in `WarmSpec` (`MCWarmPool`): filling the pool needs a dial that
  succeeds if it is tried for ever.
- Core: weak fairness for each thread and each watchdog. `EventArrives` has
  strong fairness because a launch never waits in the code: only the bound on
  `Jobs` makes it wait in the model. No call, node or TUN failure is ever forced.
- UDP, DNS, relay, tunnel: weak fairness for a task's own steps and for its
  timers. Answers, sends, reads and cancellations are never forced: a silent peer
  or a full buffer stays so. `FlowsDrain` and `DialEnds` therefore name the
  exception: a flow, or a dial, that waits for a send for ever. A connection that
  breaks is found out by the send that waits on it (`SendFails` of `Tunnel`).
- UDP: `UpEnds` is fair, so a peer falls silent in the end; while one sends, its
  flow lives, as it should.
- TUN: strong fairness for the reader's end of a burst, because a burst has 32
  packets at most; weak fairness for the pump and the passing of time, and for a
  relay that waits to be established, because of its 15 s; strong fairness for the
  pump's tick, because `select!` draws at random among the branches that are ready.
  Nothing else is asked of relays, and nothing of apps.
- `parts` checks safety only and assumes none.

### Finding

`tun_slot` is a violation run. The comment at `tun/mod.rs:28` says that a relay
task owns its socket; the sweep (`tun/mod.rs:508`) frees the handle of a socket
that is over while its relay may not have looked yet, smoltcp gives the slot to
the next connection, and the relay reads the bytes of that one.

### What else the models show

The code does the following. A property is stated around it where it says so; where
a comment or a test says otherwise, it is cited.

- `WarmPool`: `purge_idle` clears nothing when its `try_lock` fails
  (`proxy/pool.rs:979`), and a dial begun before lands after it; two `notify_one`
  before the waiters poll collapse into one permit, so a getter may stay parked
  beside a good tunnel until its deadline (`proxy/pool.rs:1335`). The pool may
  hold `3 * LargestSize - 1` tunnels and one per getter: refills that are
  abandoned after their push, and a round, fit between the Builder's two reads.
- `CoreService`: `failAndStop` writes `Stopped` without the lock
  (`CoreService.kt:446`), so a start may run beside a teardown, although the comment
  at `CoreService.kt:945-947` rules that out; the restart of a
  failover event acts on a state it read earlier (`CoreService.kt:883`), so a
  service that was stopped may come back; a `stop()` between `STARTED = true` and
  the installation of `RUNTIME` leaves a core that the next `start` forgets
  (`lib.rs:421`). `NativeCore`: a watchdog may be the last to drop the runtime it
  runs on (`lib.rs:464`).
- `RelayLoop`: a tunnel's download is read and written inside a timeout
  (`tun/tcp.rs:640`) that drops what it has read when the upload was active and
  the loop goes on: after a lost header the next body is taken for a header, does
  not decrypt and the download ends; a timeout in the write loses the rest of the
  frame. `BytesInOrder` therefore says of a tunnel that bytes come in order and
  none twice, and only of a direct socket that none is missing. A direct relay
  whose client does not read has no timeout there and need not end; `RelayEnds`
  is about tunnels.
- `Relay`: a direct connection that fails falls back to the proxy, also for LAN
  destinations (`tun/tcp.rs:1028`, `:1051`), where the test at
  `tun/tcp.rs:1402` says of names that a proxy never gets them. The sends before
  the loop (`tun/tcp.rs:290`, `:487`) have no timeout: `RelayEnds` is about the
  loop.
- `UdpFlows`: a tunnel whose peer reads nothing holds every flow that sends on it,
  and one whose sentinel is not taken holds the lock of its slot
  (`proxy/udp_mux.rs:157`), at which others wait.
- `Tunnel`: a dial whose peer takes nothing stays in its send. One on demand is
  dropped with its permit after the ten seconds of `get`; one of the Builder keeps
  its place in `in_flight`, which `WarmPool` assumes to come back.
- `ProfileFile`: two saves share one temporary name without a lock, so `FileReadable`
  excludes saves that overlap; the next save repairs the file.
- `AdaptiveIdle`: loading profiles does not respect the cap of the store. The
  numbers of the code are not those of its comments: a push service has 900 s and
  not the 180 s of `tun/adaptive_idle.rs:8`, `:11` and `:32`, the penalty stops at
  120 s and not at 300 (`:13`), the decay at 20 s and not at 5 or 10 (`:14`). A
  connection that comes back within 4 s is penalised at each time it asks, up to
  four times (`tun/tcp.rs:538`, `:556`, `:605`, `:618`), where `:13` speaks of half
  as long again. `TimeoutsSound` has the numbers of the code.
- `Sniffer`: an address in brackets comes out wrong, `[::1]` as `:` and `[::1]:80`
  as `::1]:80`, although the comment at `tun/sniffer.rs:217` means to spare it;
  `NameTrue` leaves such requests out, and one of the requests has it. A Host that
  the first read or the window of 1024 bytes cuts (`tun/sniffer.rs:203`; the buffer
  has 2048, `tun/tcp.rs:329`) is taken for a name, which is then a head of the real
  one; both properties say so. One byte that is no text within the window makes the
  answer none, also when it arrives after a name had been found.
- `Outbounds`: a `urltest` group keeps its member while its latency is near the
  best, healthy or not; a latency query moves the cursor of a balanced group.
- `HandshakeCache`: a fetch that ends early may leave a record of zeros in a
  template; `AnswersFit` is about the choice and the fill. A flight that is too short
  to hold its session id is answered unpatched
  (`crypto/handshake_cache.rs:341-348`).
- `SessionAuth`: that a token is accepted once (`TokensSound`) needs that the
  server's clock is not set back by more than one bucket, which makes the cache
  forget. The comment at `crypto/hello_auth.rs:115-119` holds the forgetting to be
  safe, all that was cached being too far ahead to be fresh; the code's condition
  compares the token that arrives with the highest bucket only, and the theorem
  does not go as far as the comment.
- `Routing`: over TCP DNS there is no gate (`tun/dns.rs:656-704`), so names of the
  LAN are asked of a public resolver in every mode, although `direct.rs:1216` and
  `tun/tcp.rs:751` forbid it and the test at `tun/tcp.rs:1393-1395` checks it of the
  gate; and foreign names are, once the mode or the default is direct.
  `ForeignUnasked` and `SilentInProxy` are stated around both. A name under
  `.xn--fiqs8s` is asked (`direct.rs:1224`) though it is routed by the default. A
  direct decision of a rule that was made before the user switched to the proxy is
  still asked afterwards, because the gate believes the rule: `SilentInProxy` is
  about a mode that has always been the proxy.
- `TunStack`: after three full writes the pump drops a packet, and smoltcp, whose
  clock stands still, does not send it again. The sweep (`tun/mod.rs:502-513`) has
  no rule for LastAck: a socket whose FIN, or the ACK of it, was lost stays for
  ever. `ZombiesGo` is about every other state of a socket without a relay.


## 4. Proofs

All proofs are checked by tlapm with Z3, Zenon and LS4. They assume the named
ASSUMEs of each module only: sizes and bounds are natural numbers, absent values
are not members of the sets they complete, the sets of slots and getters are
finite, names, hellos, requests and lists of sites are sequences, an address has 4
or 16 bytes, a packet is no longer than its length can say, a tag of the outbounds
names one entry, the default outbound is among them, a built-in block has an address.
They hold for any number of threads, nodes, domains, tunnels and sizes.
The bounds on calls, sessions, engines, purges, clears and crashes are constants
as well, so they restrict nothing. Two assumptions type what the runs make up:
the sessions and flights of `HandshakeCache` are sequences of records with
lengths, and `NoSocket` of `TunStack` is not a socket. Each component has one
inductive invariant (that it holds at first, that a step keeps it, then the
theorem), and the invariants that would only burden it are proved on top.

**WarmPoolProofs.** `TypeCorrect`, `PermitsAreConserved` and `DialsAreBounded`,
the conjunction of `InFlightIsExact`, `InFlightIsBounded`, `PoolIsBounded` and
`PauseHolds`. `IInv` adds to the types: a getter that refills holds a tunnel; no
size is larger than the largest ever given, the one the Manager has loaded
included; `in_flight` equals the number of dial tasks; and when the Builder is
about to spawn a burst, the burst fits below the maximum it loaded, because the
dials in flight can only have become fewer since. Three invariants are proved on
top of it:

- permits, by the cardinality of the getters that race;
- the pause: what was spawned in one never exceeds one round, and while the
  Builder is between the top of its loop and the spawn, nothing was spawned in
  this pause yet;
- the size of the pool. The length of the queue is not inductive, so the
  invariant weighs the queue, the tunnels being dialled and those in the hands of
  getters about to push (`Weight`) and bounds the weight by what the Builder
  believes (`Reach`): the idle count it read, or one less than the largest size,
  plus a round, plus a tunnel per getter. This gives `3 * LargestSize - 1` and one
  per getter. For `LargestSize = 1` this is the simpler
  `2 * LargestSize`, which does not hold for larger sizes.

**FakeIpProofs.** `TypeCorrect`; `MapsAreInverse`, `ReservedStayUnused` and
`NextStaysFree`, together `TablesAreSound`; `FileIsWhole` and
`NothingIsForgotten`, together `FileIsKept`; and the action property
`AddressesAreStable`. The maps are inverse after a restart only if the file is
injective, so the invariant follows each table on its way: in the hands of a
flusher, in `.tmp`, in the file. `LockHeld` says that only the holder of
`flush_lock` is past the lock and that `.tmp` is that flusher's own snapshot when
it is renamed. `Covered` (a table that nobody must write any more is being
written or in the file) and `Filling` (the slots fill in order) are proved on top.

**CoreServiceProofs.** `TypeCorrect` (with: `Starting` lasts no longer than the
lock of a start), `OneStart`, `EngineLives`, `NoEngineLost`, `RunningIsTrue`. The invariant has
three parts: types; `LockOwner`, a thread owns `stateLock` exactly when it is
between the verdict of `startInternal` and the end of its cleanup, which includes
the `stop()` a failed start calls; and `EnginesOwned`: engines of distinct stacks
differ, an engine in a thread's hands is live and in no stack, no two threads
hold the same one, a probe is neither in a stack nor in a thread's hands
(`ProbesApart`), and whoever is about to touch a stack holds a session that was
built. Without these, shutting down the old engine in a swap could kill the
engine of another stack. It has one lemma per actor (`NativeEngines`,
`WatchdogEngines`, `EventEngines`, `ServiceEngines`, `UserEngines`,
`PumpEngines`) and shared lemmas for the three ways stacks change: none
(`HandMoves`), a stop (`StopKeeps`), a swap (`SwapKeeps`). `RunningInv`, on top,
is about moments that are not quiet: if the service says Running, or a start is
about to say so, and `RUNTIME` is gone, then some thread is between the taking of
`RUNTIME` and the end of its teardown, or `STARTED` is false and some thread will
start again (`Pending`). When all are quiet nobody is, and so there is a core.

**DnsFlightProofs.** `FlightsAreSound` and `PromiseIsKept`, the refinement: every
step of the resolver, the cancellation of a leader and the clearing of the cache
included, is a step or a stutter of `DnsCall`. `IInv` says that a flight belongs
to a leader of its domain, that each leader who asks and began after the last
clear has its flight (`FlightsOwned`), that a caller who does not follow has the
channel it was born with (`LeadersOwn`), and that the cache is finite, which its
cardinality needs.

**TunnelProofs.** `TunnelsAreSound`. The keys and counters of two ends that run
apart are related by where each of them is: `Handshake` gives, for each place of
the dial and of the server, both counters of both directions and the records
between them; with any other peer, that nothing of it is ever opened.
`UsedBelow` says that each pair of key and counter that has sealed lies behind
the writer's counter under the same key, or was under the key before the change.

The same file has `BytesAreKept`: the tunnel implements `BytePipe`. On top of
the handshake, each direction is quiet or has a writer that runs, and then every
byte accepted has its place: delivered, in the rest of the last frame, between
the two marks of a record under way, or in the writer (`Flow`). A broken
connection cuts the records off at a mark.

**RelayProofs.** `NoGhostsLeft` and `BytesStayInOrder`. `GInv` lists the paths a
task may be on, the places at which it has a record and what is left of older
ones. `BInv` follows the bytes: up to the loop, what was read is in `head`, in
the loop it is sent or held; what was read from the server and is not yet written
comes after all that was written.

**UdpFlowsProofs.** `FlowsLeaveNothing` and `SidsStayApart`. `Placed` says at
which places of its code a task has a key, a tunnel and an id. That the counter
of flows is the number of tasks, or one behind a flow that is being entered, is a
matter of cardinality: the entries of the table and the tasks that have not left
are in bijection (`FlowsAccounted`). That the streams of
a tunnel belong to tasks that will unregister them is `StreamsHeld`, with the
tunnel's record and the flow's id on both sides of each step. The ids need more
than that two registered flows differ: `Window` says that going back from the
next id by as many as were given since leads to a flow's own, for the ids of the
last round only, and without division, which the solver lacks. Within that round
no two agree; beyond it the theorem says nothing, and the code is not safe there
either.

**PartsProofs** has the modules that share no state, an invariant for each.

- `ProfileFile`, `FileStaysReadable`. While no two saves have overlapped, the one
  save under way owns the inode with the temporary name, the file is another one
  and whole, and no third inode is in use (`OneSave`).
- `AdaptiveIdle`, `TimeoutsAreSound`. A profile fits its domain wherever it is,
  in memory or saved (`Fits`): the lists fix its category for good, a push or
  media profile keeps its timeout, any other stays within 20 to 120 seconds; and so
  what a call answers is a timeout of `TimeoutsOf`, with a profile or without one. The
  cap holds until the first load, which does not look at it (`Few`).
- `HandshakeCache`, `AnswersAlwaysFit`. Every cached template is a whole flight
  of a site, and a caller who has filled the cache, or is about to draw, finds
  one (`CacheInv`). The fetch reads nine records at most; its recursive function
  is unrolled, nine values being the witness that it exists.
- `SessionAuth`, `TokensAlwaysSound`. `Learning`: while
  no clock was set, an offset is the skew less the age the server's time had, as
  it travels from the reply into the shared cell and the tokens. `TopNear`: the
  highest bucket is no further ahead than the window and the clock's set-backs.
  `Remembered`: a token that was accepted is known, or its bucket is so old that
  its time stamp is refused. `WindowIsKept` is the arithmetic behind it: the
  buckets that are kept cover the tolerance on both sides.
- `TunStack`, `OneSocketOnly`. A SYN whose four-tuple has a socket makes none
  (`OwnTuple`). The model has `MaxRelays` slots for sockets and relays, and the proof
  shows that their number is never what keeps two apart: no more slots are taken
  than relays were started, and these and the SYNs on their way, in kernel, reader
  and channel, are together at most `MaxRelays`, so each SYN finds a slot (`Room`).
- `Routing`, `DirectAlwaysSound` and `TablesAlwaysAgree`. Of the first, the guard of
  foreign names and the agreement of decision and gate hold in whatever state the
  settings are: they rest on the order in which one decision looks at rules, tables and
  learned answers, whatever these have become. What is asked is a matter of history
  (`AskInv`): until all was sent direct, by mode or default, no foreign name has a
  decision that passes its gate or an answer learned, and while the proxy is the
  only mode there has been, only names of the LAN wait for a gate that lets them
  through. The index in use is that of the list it was made from
  (`IndexInv`), and a suffix set that is asked for every parent of a name answers
  like a scan (`IndexFinds`). For the blocks of China the algorithm itself is
  proved: an order exists (`OrderExists`), sorting and merging cover the same
  addresses with blocks that are disjoint and rise (`SortedFits`, `MergedFits`),
  and the binary search finds what a scan finds (`SearchFinds`). The induction is
  done on sets of numbers: a set that has 0 and with each number the next is all
  of them (`Upward`), from the least element of a set, which the library's
  `WFMin` gives for finite sets ordered by inclusion (`LeastOne`). A recursive
  function is used through a witness for its CHOOSE, built by the same induction.
- `Sniffer`, `PrefixesAreSafe`. What has arrived is a prefix of what was sent
  (`SniffInv`), so the theorem is about the parsers on a prefix: what the walk over
  the extensions finds before the cut it finds without it (`WalkSame`), a length
  that is cut leads to the end (`SkipSame`), and lines of which the last is cut, by
  the read or by the window, name the same host, none, or what is left of the Host
  line that is cut (`HttpSame`).
- `OutboundBuild`, `BuildingDecides`. What is built refers to what is built and no
  part of it is a ring (`Rooted`), which a node under a new tag keeps
  (`RootedGrows`); what is left over when a round adds nothing has a reference
  outside, or each of it refers to another of it (`InvDecides`). A round is a
  recursive function over the list, unrolled by induction (`RoundBuilds`).
- `Outbounds`, `TurnsAlwaysShared`. With no reports and no latency read, the cursor
  of the default balance is q rounds and r turns, and a member that is once among
  the healthy ones has had q connections, or q + 1 when it is one of the first r
  (`Counted`, part of `TurnInv`). A choice is one turn (`OneTurn`) because nothing
  below moves that cursor: since the tree has no ring, there is a set of nodes below
  the default outbound that leads only into itself (`NoWayBack`), and by induction
  over the depth an answer from it leaves the cursor alone (`ResolveKeeps`), also
  where a `urltest` asks all its members for a latency (`LookKeeps`). The walk is a
  function of the depth, as long as the list of entries, unrolled like the others
  (`ResolveIs`).

`Datagrams` is proved about in **UdpFlowsProofs**: `RepliesAlways`, for all
addresses of one family, ports, names, options and payloads that fit a packet, and
all junk that carries nothing (the assumption `JunkIsJunk`, which is what junk
means). `GramInv` says that the packets written, followed by the payloads that the
bytes received and on the wire drain into, are the payloads due, and that the
bytes received hold no whole frame. The work is in three places. The reader: bytes
that drain alone leave a rest that drains with the next bytes into what all of
them would have (`ChunksJoin`), and a frame at the end adds its payload, unless the
reader has met a frame with a bare name (`FramedDrains`). The formats: what is read
off a packet is what was written into it (`ReplyReads`, `RefusalRight`,
`EchoRight`), field by field with its place. The checksums: a word written
over zeros at an even place adds that word to the sum (`SumChanges`), the carries
keep the sum modulo 65535 (`CarriedIs`), and so a packet with its checksum adds up
(`SummedIs`), its other fields being what they were (`SummedHolds`).

**Model-checked only.** All liveness, because fairness and ENABLED are out of the
prover's reach. Of the safety, one invariant: `Sniffer.NameTrue`, which compares the
parser with the names the instance gives its hellos and requests, and so is about
these.


## 5. Not modelled

`PROJECT.json` lists every component with its status.

- `crypto/tls_raw.rs`, `crypto/pfs.rs`, the ciphers: byte formats and
  mathematics. Their outcomes (accepted, refused, garbage) are inputs of `Tunnel`
  and `RecordLayer`.
- The wire format of DNS in `tun/dns.rs`: `DnsFlight` starts from a parsed query
  and ends with an answer or none.
- `tun/buffer_pool.rs`: a free list under one lock, whose buffers are cleared
  both ways; one critical section per call.
- `proxy/brutal.rs`, `protect.rs`, `attribution.rs`, `net_util.rs`: socket
  options, cells that are set once, wrappers of system calls.
- `node_uri.rs`, `config.rs`, the text of routing rules: strings parsed into
  records, without state.
- `command_server.rs`, `debug_server.rs` and their client: sockets and JSON. The
  calls that change state (cut, reset) are actions of `Relay` and `UdpFlows`.
- The UI process (`CoreController`, `VpnRepository`, views, tile, receiver):
  its calls are the user's calls in `CoreService`; what it shows is not modelled.
- Custom kernels (`CoreManager` and its checkers) and the installation of geo
  files (`GeoManager`): files, the platform's loader and downloads. `Routing` and
  `GeoTables` take over once the core is handed new files.
- Stores, statistics, logs, build files.
- Inside the modelled parts: latency statistics and the spread of the pool's
  dials, the checksums and MTU of TCP (those of UDP are in `Datagrams`), padding and
  the split into records, the speed samples
  of the monitor, the built-in tables of `direct_cn_ipv4.rs`, which are data.


## 6. Further work

In the order of their worth: the installation of geo files with its roll-back and a
crash at any step; the binding between the two processes; the DNS wire format over
bounded messages.
