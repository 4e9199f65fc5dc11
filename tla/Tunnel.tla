------------------------------- MODULE Tunnel ------------------------------
(***************************************************************************)
(* A tunnel of the pool from its dial to its use: the camouflage           *)
(* handshake, the clock frame and the choice of a cipher                   *)
(* (WarmPool::connect_upstream in proxy/pool.rs), the wait in the pool,    *)
(* and the byte stream over it (proxy/mirage_stream.rs).                   *)
(*                                                                         *)
(* The other end is the Mirage server, a Mirage server with another        *)
(* password or another forward secrecy setting, or the site the server     *)
(* hides behind, which answers in its own way.  It is external, and        *)
(* modelled by what the client waits for.  A dial starts when the name of  *)
(* the server is looked up, and its first flight is of bounded length: each*)
(* record of it starts the timeout anew.                                   *)
(***************************************************************************)
EXTENDS RecordLayer

CONSTANTS
  Bytes,      \* bound: bytes each side writes
  Addresses,  \* bound: addresses the name of the server resolves to
  Flights     \* first records of the site: kinds "hello", "empty" (a hello
              \* too short for a random), "ccs", "enc", "alert"

ASSUME TunnelAssumption == Bytes \in Nat /\ Addresses \in Nat

VARIABLES
  place,      \* of the client
  nested,     \* a chained node: dialled through another outbound, no probe
  addrs,      \* addresses not tried yet
  peer,       \* "server", "stranger" or "site"
  agility,    \* tuning.cipher_agility of the server
  aes,        \* by side: AES is fast there
  serverAt,   \* what the server waits for
  flight,     \* records of the first flight that are still to be read
  seen,       \* kinds of records read of it
  random,     \* server_random was captured
  broken,     \* the connection is gone
  writing,    \* by direction: bytes send_data is busy with, as numbers
  accepted,   \* bytes accepted so far
  reading,    \* the rest of the last frame: read_buf from read_pos
  delivered   \* bytes read, in their order

handshakeVars == <<place, nested, addrs, peer, agility, aes, serverAt, flight, seen, random>>
streamVars == <<writing, accepted, reading, delivered>>
vars == <<recordVars, handshakeVars, streamVars, broken>>

Init ==
  /\ peer \in {"server", "stranger", "site"} /\ agility \in BOOLEAN
  /\ aes \in [{"client", "server"} -> BOOLEAN]
  /\ RecordInit("ours", IF peer = "server" THEN "ours" ELSE "theirs")
  /\ nested \in BOOLEAN /\ addrs \in IF nested THEN {1} ELSE 0..Addresses
  /\ place = "connect" /\ serverAt = "hello" /\ flight = <<>> /\ seen = {} /\ random = FALSE
  /\ broken = FALSE
  /\ writing = [d \in Directions |-> <<>>] /\ accepted = [d \in Directions |-> 0]
  /\ reading = [d \in Directions |-> <<>>] /\ delivered = [d \in Directions |-> <<>>]

Goes(p) == place' = p /\ UNCHANGED <<nested, addrs, peer, agility, aes, serverAt, flight, seen, random>>
ServerGoes(p) == serverAt' = p /\ UNCHANGED <<place, nested, addrs, peer, agility, aes, flight, seen, random>>
Fails == Goes("failed")

-----------------------------------------------------------------------------
(* The connection. *)

\* handshake_over_tcp tries one address after the other.  A chained node has one
\* try, through the outbound under it.
Connected ==
  /\ place = "connect" /\ addrs > 0 /\ Goes("hello")
  /\ UNCHANGED <<recordVars, streamVars, broken>>

\* An error or 8 s (15 s when chained).
ConnectFails ==
  /\ place = "connect" /\ addrs > 0 /\ addrs' = addrs - 1
  /\ UNCHANGED <<place, nested, peer, agility, aes, serverAt, flight, seen, random>>
  /\ UNCHANGED <<recordVars, streamVars, broken>>

NoAddress ==
  /\ place = "connect" /\ addrs = 0 /\ Fails /\ UNCHANGED <<recordVars, streamVars, broken>>

-----------------------------------------------------------------------------
(* The camouflage handshake: do_fake_tls and read_server_handshake. *)

\* The ClientHello goes out and is answered.
Hello ==
  /\ place = "hello" /\ place' = "flight" /\ serverAt' = "tail"
  /\ \E f \in IF peer = "site" THEN Flights ELSE {<<"hello", "ccs", "enc">>} : flight' = f
  /\ UNCHANGED <<nested, addrs, peer, agility, aes, seen, random, recordVars, streamVars, broken>>

\* A record of the flight; the random is that of the first ServerHello.
ReadFlight ==
  /\ place = "flight" /\ flight # <<>> /\ Head(flight) # "alert"
  /\ flight' = Tail(flight)
  /\ seen' = seen \cup {IF Head(flight) = "empty" THEN "hello" ELSE Head(flight)}
  /\ random' = (random \/ (Head(flight) = "hello" /\ "hello" \notin seen))
  /\ place' = IF {"hello", "ccs", "enc"} \subseteq seen'
              THEN IF random' THEN "tail" ELSE "failed" ELSE "flight"
  /\ UNCHANGED <<nested, addrs, peer, agility, aes, serverAt, recordVars, streamVars, broken>>

FlightFails ==
  /\ place = "flight" /\ flight # <<>> /\ Head(flight) = "alert" /\ Fails
  /\ UNCHANGED <<recordVars, streamVars, broken>>

\* The fake Finished.
SendTail ==
  /\ place = "tail" /\ place' = "sync" /\ serverAt' = "clock"
  /\ UNCHANGED <<nested, addrs, peer, agility, aes, flight, seen, random, recordVars, streamVars, broken>>

-----------------------------------------------------------------------------
(* The first frames. *)

\* The server, or whoever it is, sends its first frame: the clock, and whether
\* a cipher may be chosen.  What the site sends is under its own keys.
ServerSendsClock ==
  /\ serverAt = "clock" /\ Seal("s2c", [type |-> "clock", agility |-> agility], ~broken)
  /\ ServerGoes(IF agility THEN "nego" ELSE "target") /\ UNCHANGED <<streamVars, broken>>

\* recv_data does not open it, or it is a record left of the flight.
ReceiveFails ==
  /\ place \in {"sync", "ack"} /\ (flight # <<>> \/ (wire["s2c"] # <<>> /\ ~Opens("s2c")))
  /\ Fails /\ UNCHANGED <<recordVars, streamVars, broken>>

ReceiveClock ==
  /\ place = "sync" /\ flight = <<>> /\ Opens("s2c") /\ Open("s2c")
  /\ Goes(IF Says("s2c").agility THEN "nego" ELSE "ready") /\ UNCHANGED <<streamVars, broken>>

SendNego ==
  /\ place = "nego" /\ Seal("c2s", [type |-> "nego", aes |-> aes["client"]], ~broken)
  /\ Goes("ack") /\ UNCHANGED <<streamVars, broken>>

Negotiated(c, s) == IF c /\ s THEN "aes" ELSE "chacha"

\* The record that brings the choice still counts under the old key.
AfterAck(half, final) == Rekeyed([half EXCEPT !.nonce = @ + 1], final)

\* The server answers under the old keys, and changes both of its own.
ServerSendsAck ==
  LET final == Negotiated(Says("c2s").aes, aes["server"]) IN
    /\ serverAt = "nego" /\ Opens("c2s") /\ ServerGoes("target")
    /\ Uses("s2c")
    /\ wire' = [wire EXCEPT !["c2s"] = Tail(@),
                            !["s2c"] = IF broken THEN @
                                       ELSE Append(@, [pair |-> SealPair("s2c"),
                                                       says |-> [type |-> "ack", cipher |-> final]])]
    /\ sealing' = [sealing EXCEPT !["s2c"] = AfterAck(@, final)]
    /\ opening' = [opening EXCEPT !["c2s"] = AfterAck(@, final)]
    /\ UNCHANGED <<masters, streamVars, broken>>

\* CIPHER_ACK: the writer and the reader change together.
ReceiveAck ==
  LET final == Says("s2c").cipher IN
    /\ place = "ack" /\ flight = <<>> /\ Opens("s2c") /\ Goes("ready")
    /\ wire' = [wire EXCEPT !["s2c"] = Tail(@)]
    /\ sealing' = [sealing EXCEPT !["c2s"] = Rekeyed(@, final)]
    /\ opening' = [opening EXCEPT !["s2c"] = AfterAck(@, final)]
    /\ UNCHANGED <<masters, used, reused, streamVars, broken>>

\* What do_fake_tls and the negotiation send has no timeout; it fails with the
\* connection.
Sends == {"hello", "tail", "nego"}

SendFails ==
  /\ place \in Sends /\ broken /\ Fails /\ UNCHANGED <<recordVars, streamVars, broken>>

\* Mutant: the answer to CIPHER_NEGO may take for ever.
MutPatient == {"flight", "sync"}

\* The waits that have a timeout.
Timed == {"flight", "sync", "ack"}

\* fail-closed
AfterTimeout == "failed"

TimesOut ==
  /\ place \in Timed /\ Goes(AfterTimeout) /\ UNCHANGED <<recordVars, streamVars, broken>>

-----------------------------------------------------------------------------
(* The pool, and the stream. *)

\* The probe of is_stale: bytes, the end, or an error.  A nested tunnel has none.
Stale == ~nested /\ (broken \/ wire["s2c"] # <<>> \/ flight # <<>>)

Discard ==
  /\ place = "ready" /\ Stale /\ Fails /\ UNCHANGED <<recordVars, streamVars, broken>>

\* OutboundNode::connect: the header of the target, then the stream.  A broken
\* connection may take the header, or fail it and the tunnel is dropped.
Use ==
  /\ place = "ready" /\ ~Stale /\ Seal("c2s", [type |-> "target"], ~broken)
  /\ \E p \in {"open"} \cup {q \in {"failed"} : broken} : Goes(p)
  /\ UNCHANGED <<streamVars, broken>>

ServerReadsTarget ==
  /\ serverAt = "target" /\ Opens("c2s") /\ Open("c2s") /\ ServerGoes("relay")
  /\ UNCHANGED <<streamVars, broken>>

Runs(d) == IF d = "c2s" THEN place = "open" ELSE serverAt = "relay"
Listens(d) == IF d = "c2s" THEN serverAt = "relay" ELSE place = "open"

\* poll_write while the writer is idle takes the whole buffer.
PollWrite(d) ==
  /\ Runs(d) /\ writing[d] = <<>>
  /\ \E n \in 1..(Bytes - accepted[d]) :
       /\ accepted' = [accepted EXCEPT ![d] = @ + n]
       /\ writing' = [writing EXCEPT ![d] = [i \in 1..n |-> accepted[d] + i]]
  /\ UNCHANGED <<recordVars, handshakeVars, reading, delivered, broken>>

\* A record of send_data: its size is drawn.  The first one that the connection
\* does not take ends send_data; the stream may be written again.
SendRecord(d) ==
  /\ Runs(d) /\ writing[d] # <<>>
  /\ \E n \in 1..Len(writing[d]) :
       /\ Seal(d, [type |-> "data", bytes |-> SubSeq(writing[d], 1, n)], ~broken)
       /\ writing' = [writing EXCEPT ![d] = IF broken THEN <<>> ELSE SubSeq(@, n + 1, Len(@))]
  /\ UNCHANGED <<handshakeVars, accepted, reading, delivered, broken>>

\* poll_read with nothing left of the last frame: the next one.
ReadRecord(d) ==
  /\ Listens(d) /\ reading[d] = <<>> /\ Opens(d) /\ Open(d)
  /\ reading' = [reading EXCEPT ![d] = Says(d).bytes]
  /\ UNCHANGED <<handshakeVars, writing, accepted, delivered, broken>>

\* Mutant: what does not fit is gone.
MutDropRest(rest, n) == <<>>

Rest(rest, n) == SubSeq(rest, n + 1, Len(rest))

\* poll_read gives what fits into the caller's buffer.
PollRead(d) ==
  /\ reading[d] # <<>>
  /\ \E n \in 1..Len(reading[d]) :
       /\ delivered' = [delivered EXCEPT ![d] = @ \o SubSeq(reading[d], 1, n)]
       /\ reading' = [reading EXCEPT ![d] = Rest(@, n)]
  /\ UNCHANGED <<recordVars, handshakeVars, writing, accepted, broken>>

\* The connection breaks, and with it the end of what is under way.
Break ==
  /\ ~broken /\ broken' = TRUE
  /\ \E k \in [Directions -> 0..Len(wire["c2s"]) + Len(wire["s2c"])] :
       /\ \A d \in Directions : k[d] <= Len(wire[d])
       /\ wire' = [d \in Directions |-> SubSeq(wire[d], 1, k[d])]
  /\ UNCHANGED <<masters, sealing, opening, used, reused, handshakeVars, streamVars>>

Client ==
  \/ Connected \/ ConnectFails \/ NoAddress \/ Hello \/ ReadFlight \/ FlightFails \/ SendTail \/ ReceiveFails \/ ReceiveClock
  \/ SendNego \/ ReceiveAck \/ SendFails \/ TimesOut

Server == ServerSendsClock \/ ServerSendsAck \/ ServerReadsTarget

Next ==
  \/ Client \/ Server \/ Discard \/ Use \/ Break
  \/ \E d \in Directions : PollWrite(d) \/ SendRecord(d) \/ ReadRecord(d) \/ PollRead(d)

Spec == Init /\ [][Next]_vars

\* The dial task is polled and its timers fire, and a break is found out; the
\* peer owes it nothing, not even to take what is sent.
FairSpec ==
  /\ Spec /\ WF_vars(TimesOut) /\ WF_vars(ConnectFails) /\ WF_vars(NoAddress)
  /\ WF_vars(ReadFlight \/ FlightFails \/ ReceiveFails) /\ WF_vars(SendFails)

-----------------------------------------------------------------------------
\* A tunnel gets into the pool only from a server that has the same master key:
\* a site, a stranger or a late clock never does, whatever they send.
Authentic == place \in {"ready", "open"} => peer = "server"

\* On such a tunnel every record under way opens when its turn comes, under the
\* reader's counter and through the change of keys on both sides.
InStep ==
  place \in {"ready", "open"} =>
    \A d \in Directions : \A i \in DOMAIN wire[d] :
      wire[d][i].pair = <<ExpandKey(masters[d].reader, d, opening[d].cipher), opening[d].nonce + i - 1>>

\* No key seals two records with one nonce.
NonceOnce == ~reused

\* What a tunnel that is handed out may be trusted with.
TunnelSound == Authentic /\ InStep /\ NonceOnce

\* A dial ends, whoever is at the other end and however long it is silent, but
\* for one whose connection stays and never takes what it sends.
DialEnds == <>(place \in {"ready", "failed"}) \/ <>[](place \in Sends /\ ~broken)

\* The stream keeps the promise of a byte pipe, in both directions.
Pipe == INSTANCE BytePipe
KeepsBytes == Pipe!Spec
=============================================================================
