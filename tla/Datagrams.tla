----------------------------- MODULE Datagrams -----------------------------
(***************************************************************************)
(* What becomes of the bytes of a UDP flow: the packet an app wrote to the *)
(* TUN is parsed (tun/udp.rs), framed for a tunnel of its own or, with a   *)
(* stream id, for a shared one (proxy/udp_mux.rs); the peer echoes it; the *)
(* reader cuts frames out of whatever chunks arrive and writes each reply  *)
(* to the TUN as a packet from the address the app had asked.  A refused   *)
(* datagram is answered with an ICMP error and a ping of a fake address    *)
(* with its own echo, both on the spot.                                    *)
(*                                                                         *)
(* Packets, frames and addresses are sequences of bytes.  A name is no     *)
(* longer than 255 bytes, as in DNS.                                       *)
(***************************************************************************)
EXTENDS Integers, SequencesExt

CONSTANTS
  Peers,     \* flows tried: [src, sport, dst, dport, host, options, refused]
  NoHost,    \* host of a flow whose target is an address
  Payloads,  \* what apps send
  Sid,       \* the stream id of the flow, 4 bytes
  Junk,      \* frame bodies a peer may send that carry nothing for the flow
  MaxBody,   \* u16::MAX in the code: the longest body of a frame
  Reads,     \* bound: how many bytes a read brings, when not all there are
  MaxAsked,  \* bound: packets of the app
  MaxJunk    \* bound: frames of Junk

Byte == 0..255
Longest == 65535  \* what two bytes hold

\* Both addresses are of one family; the options of an IPv4 header fill words.
IsFlow(p) ==
  /\ p.src \in Seq(Byte) /\ p.dst \in Seq(Byte) /\ p.options \in Seq(Byte)
  /\ Len(p.src) = Len(p.dst) /\ Len(p.src) \in {4, 16}
  /\ Len(p.options) % 4 = 0 /\ Len(p.options) <= 40
  /\ p.sport \in 0..Longest /\ p.dport \in 0..Longest
  /\ p.host # NoHost => p.host \in Seq(Byte) /\ Len(p.host) <= 255

\* A packet with its headers is no longer than its length can say.
ASSUME DatagramsConstants ==
  /\ \A p \in Peers : IsFlow(p)
  /\ \A x \in Payloads : x \in Seq(Byte) /\ Len(x) + 68 <= Longest
  /\ Sid \in Seq(Byte) /\ Len(Sid) = 4
  /\ \A b \in Junk : b \in Seq(Byte) /\ Len(b) <= Longest
  /\ MaxBody \in 0..Longest

VARIABLES
  peer,     \* the flow
  shared,   \* whether its tunnel is a shared one
  wire,     \* bytes of the peer that have not been read
  acc,      \* what the reader holds
  due,      \* the payloads the app is to get back (history)
  written,  \* packets written to the TUN
  local,    \* packets answered on the spot, with the answers (history)
  asked, junk
gramVars == <<peer, shared, wire, acc, due, written, local, asked, junk>>

-----------------------------------------------------------------------------
(* Numbers and checksums. *)

U2(n) == <<(n \div 256) % 256, n % 256>>
Number(b, i) == 256 * b[i] + b[i + 1]

\* The sum of the 16-bit words; an odd last byte is the upper half of one.
WordSum(b) ==
  LET Sum[n \in 0..Len(b)] ==
        IF n = 0 THEN 0 ELSE Sum[n - 1] + (IF n % 2 = 1 THEN 256 * b[n] ELSE b[n])
  IN  Sum[Len(b)]

Carried(s) ==
  LET Fold[n \in 0..s] == IF n < 65536 THEN n ELSE Fold[(n % 65536) + (n \div 65536)]
  IN  Fold[s]

Checksum(b) == 65535 - Carried(WordSum(b))

\* b with the checksum of lead \o b at its place, which holds zeros.
Summed(b, place, lead) ==
  LET c == U2(Checksum(lead \o b)) IN [b EXCEPT ![place] = c[1], ![place + 1] = c[2]]

Zeros(n) == [i \in 1..n |-> 0]
UdpProto == 17

-----------------------------------------------------------------------------
(* Packets. *)

IpHeader(s, d, proto, len) ==
  IF Len(s) = 4
  THEN Summed(<<69, 0>> \o U2(20 + len) \o <<0, 0, 0, 0, 64, proto, 0, 0>> \o s \o d, 11, <<>>)
  ELSE <<96, 0, 0, 0>> \o U2(len) \o <<proto, 64>> \o s \o d

Pseudo(s, d, proto, len) ==
  IF Len(s) = 4 THEN s \o d \o <<0, proto>> \o U2(len)
  ELSE s \o d \o <<0, 0>> \o U2(len) \o <<0, 0, 0, proto>>

\* build_ipv4_udp and build_ipv6_udp.
BuildReply(s, sport, d, dport, payload) ==
  LET len == 8 + Len(payload)
      udp == U2(sport) \o U2(dport) \o U2(len) \o <<0, 0>> \o payload
  IN  IpHeader(s, d, UdpProto, len) \o Summed(udp, 7, Pseudo(s, d, UdpProto, len))

HeaderLen(pkt) == IF pkt[1] \div 16 = 4 THEN (pkt[1] % 16) * 4 ELSE 40
Source(pkt) == IF pkt[1] \div 16 = 4 THEN SubSeq(pkt, 13, 16) ELSE SubSeq(pkt, 9, 24)
Target(pkt) == IF pkt[1] \div 16 = 4 THEN SubSeq(pkt, 17, 20) ELSE SubSeq(pkt, 25, 40)

\* parse_udp_datagram.
Parsed(pkt) ==
  LET udp == SubSeq(pkt, HeaderLen(pkt) + 1, Len(pkt))
  IN  [src |-> Source(pkt), sport |-> Number(udp, 1), dst |-> Target(pkt),
       dport |-> Number(udp, 3), payload |-> SubSeq(udp, 9, Number(udp, 5))]

\* How much of the packet an ICMP error quotes.
Quoted(pkt) ==
  IF pkt[1] \div 16 = 4 THEN HeaderLen(pkt) + 8
  ELSE IF Len(pkt) < 1232 THEN Len(pkt) ELSE 1232

\* build_icmp_port_unreachable.
Unreachable(pkt) ==
  LET v4   == pkt[1] \div 16 = 4
      s    == Target(pkt)  d == Source(pkt)
      icmp == (IF v4 THEN <<3, 3>> ELSE <<1, 4>>) \o Zeros(6) \o SubSeq(pkt, 1, Quoted(pkt))
  IN  IF v4 THEN IpHeader(s, d, 1, Len(icmp)) \o Summed(icmp, 3, <<>>)
      ELSE IpHeader(s, d, 58, Len(icmp)) \o Summed(icmp, 3, Pseudo(s, d, 58, Len(icmp)))

\* handle_fake_ip_icmp_echo: the ping itself, turned round.
EchoReply(pkt) ==
  LET h == HeaderLen(pkt)
  IN  Summed(SubSeq(pkt, 1, 10) \o <<0, 0>> \o Target(pkt) \o Source(pkt) \o SubSeq(pkt, 21, h),
             11, <<>>)
      \o Summed(<<0, pkt[h + 2], 0, 0>> \o SubSeq(pkt, h + 5, Len(pkt)), 3, <<>>)

-----------------------------------------------------------------------------
(* Frames. *)

Framed(body) == U2(Len(body)) \o body

\* The address of the target: its name if the flow has one.
Atyp(p) ==
  IF p.host # NoHost THEN <<3, Len(p.host)>> \o p.host
  ELSE (IF Len(p.dst) = 4 THEN <<1>> ELSE <<4>>) \o p.dst

\* build_frame, frame_mux_domain, frame_mux_ipv4 and frame_mux_ipv6: a body
\* longer than its length can say is not sent.
Body(payload) == (IF shared THEN Sid ELSE <<>>) \o Atyp(peer) \o U2(peer.dport) \o payload

\* Mutant: the port is left before the payload.
MutNoPort(inner) ==
  CASE inner[1] = 1 -> 5 [] inner[1] = 4 -> 17 [] inner[1] = 3 -> 2 + inner[2]
    [] OTHER -> Len(inner) + 1

\* Where the payload starts; past the end when the address is none.
Offset(inner) ==
  CASE inner[1] = 1 -> 7 [] inner[1] = 4 -> 19 [] inner[1] = 3 -> 4 + inner[2]
    [] OTHER -> Len(inner) + 1

\* A name without its length: the parser of a shared tunnel skips the frame,
\* the other one waits for more of it.
Bare(inner) == inner = <<3>>

PayloadOf(inner) ==
  IF inner = <<>> \/ Bare(inner) THEN <<>> ELSE SubSeq(inner, Offset(inner) + 1, Len(inner))

\* parse_udp_frame_payload and parse_mux_frame with the look-up by stream id:
\* what a body carries for the flow of a tunnel, a shared one or its own.
Carries(body, mux) ==
  IF ~mux THEN PayloadOf(body)
  ELSE IF Len(body) < 4 \/ SubSeq(body, 1, 4) # Sid THEN <<>>
  ELSE PayloadOf(SubSeq(body, 5, Len(body)))

ASSUME JunkIsJunk == \A b \in Junk, mux \in BOOLEAN : Carries(b, mux) = <<>>

\* Cuts whole frames off, from place i on: what is left and the payloads.
Drained(b, mux) ==
  LET From[i \in 0..Len(b)] ==
        LET end  == i + 2 + Number(b, i + 1)
            body == SubSeq(b, i + 3, end)
        IN  IF i + 2 > Len(b) \/ end > Len(b) \/ (~mux /\ Bare(body))
            THEN [rest |-> SubSeq(b, i + 1, Len(b)), got |-> <<>>]
            ELSE IF Carries(body, mux) = <<>> THEN From[end]
            ELSE [rest |-> From[end].rest, got |-> <<Carries(body, mux)>> \o From[end].got]
  IN  From[0]

-----------------------------------------------------------------------------
(* The app, the peer and the reader. *)

GramInit ==
  /\ peer \in Peers /\ shared \in BOOLEAN
  /\ wire = <<>> /\ acc = <<>> /\ due = <<>> /\ written = <<>> /\ local = {}
  /\ asked = 0 /\ junk = 0

\* What the kernel of the device makes of a datagram of the app.
AppPacket(payload) ==
  LET len == 8 + Len(payload)
      udp == U2(peer.sport) \o U2(peer.dport) \o U2(len) \o <<0, 0>> \o payload
  IN  IF Len(peer.src) = 4
      THEN <<69 + Len(peer.options) \div 4, 0>> \o U2(20 + Len(peer.options) + len)
           \o <<7, 7, 64, 0, 64, UdpProto, 0, 0>> \o peer.src \o peer.dst \o peer.options \o udp
      ELSE <<96, 0, 0, 0>> \o U2(len) \o <<UdpProto, 64>> \o peer.src \o peer.dst \o udp

\* feed refuses the datagram ...
AppRefused(payload) ==
  /\ peer.refused /\ asked < MaxAsked
  /\ local' = local \cup {[ask |-> AppPacket(payload), answer |-> Unreachable(AppPacket(payload))]}
  /\ asked' = asked + 1
  /\ UNCHANGED <<peer, shared, wire, acc, due, written, junk>>

\* ... or the flow frames it, and the peer sends the same frame back.
AppSends(payload) ==
  /\ ~peer.refused /\ asked < MaxAsked
  /\ LET got == Parsed(AppPacket(payload)).payload
     IN  IF Len(Body(got)) > MaxBody THEN UNCHANGED <<wire, due>>
         ELSE /\ wire' = wire \o Framed(Body(got))
              /\ due' = IF payload = <<>> THEN due ELSE Append(due, payload)
  /\ asked' = asked + 1
  /\ UNCHANGED <<peer, shared, acc, written, local, junk>>

\* A ping of a fake address.
AppPings(payload) ==
  /\ Len(peer.dst) = 4 /\ peer.dst[1] = 198 /\ peer.dst[2] \in {18, 19}
  /\ asked < MaxAsked
  /\ LET icmp == Summed(<<8, 0, 0, 0, 0, 1, 0, 1>> \o payload, 3, <<>>)
         ping == IpHeader(peer.src, peer.dst, 1, Len(icmp)) \o icmp
     IN  local' = local \cup {[ask |-> ping, answer |-> EchoReply(ping)]}
  /\ asked' = asked + 1
  /\ UNCHANGED <<peer, shared, wire, acc, due, written, junk>>

PeerBreaks(body) ==
  /\ junk < MaxJunk /\ ~peer.refused
  /\ wire' = wire \o Framed(body) /\ junk' = junk + 1
  /\ UNCHANGED <<peer, shared, acc, due, written, local, asked>>

\* recv_data brings the next n bytes.
BytesArrive(n) ==
  /\ LET d == Drained(acc \o SubSeq(wire, 1, n), shared)
     IN  /\ acc' = d.rest
         /\ written' = written \o [i \in DOMAIN d.got |->
              BuildReply(peer.dst, peer.dport, peer.src, peer.sport, d.got[i])]
  /\ wire' = SubSeq(wire, n + 1, Len(wire))
  /\ UNCHANGED <<peer, shared, due, local, asked, junk>>

GramNext ==
  \/ \E p \in Payloads : AppRefused(p) \/ AppSends(p) \/ AppPings(p)
  \/ \E b \in Junk : PeerBreaks(b)
  \/ \E n \in {k \in DOMAIN wire : k \in Reads \/ k = Len(wire)} : BytesArrive(n)

-----------------------------------------------------------------------------
(* Properties. *)

\* A checksum is right when the words, it among them, add up to a multiple of
\* 65535, whatever order the carries were taken in.
Adds(b) == WordSum(b) % 65535 = 0

UpperLayer(pkt) == SubSeq(pkt, HeaderLen(pkt) + 1, Len(pkt))
LengthTrue(pkt) ==
  IF pkt[1] \div 16 = 4 THEN Number(pkt, 3) = Len(pkt) /\ Adds(SubSeq(pkt, 1, HeaderLen(pkt)))
  ELSE Number(pkt, 5) = Len(pkt) - 40
WellFormed(pkt, proto) ==
  /\ LengthTrue(pkt)
  /\ Adds((IF proto = 1 THEN <<>>
           ELSE Pseudo(Source(pkt), Target(pkt), proto, Len(UpperLayer(pkt)))) \o UpperLayer(pkt))
TurnedRound(ask, answer) == Source(answer) = Target(ask) /\ Target(answer) = Source(ask)

\* What the app reads is, in order, the payloads it sent, each in a valid packet
\* from the address and port it had asked to its own: whatever the chunks and
\* the broken frames between them.  All of it comes once the bytes have, unless
\* a frame with a bare name has stopped the reader of a tunnel of its own.
EchoReaches ==
  /\ Len(written) <= Len(due)
  /\ \A i \in DOMAIN written :
       /\ Parsed(written[i]) = [src |-> peer.dst, sport |-> peer.dport, dst |-> peer.src,
                                dport |-> peer.sport, payload |-> due[i]]
       /\ WellFormed(written[i], UdpProto)
  /\ (wire = <<>> /\ ~(~shared /\ IsPrefix(<<0, 1, 3>>, acc))) =>
        acc = <<>> /\ Len(written) = Len(due)

\* An answer given on the spot comes from the address that was asked, and lets
\* the app's kernel find the socket: an error quotes the ports, an echo all of
\* the ping.
LocalAnswers ==
  \A l \in local :
    /\ TurnedRound(l.ask, l.answer)
    /\ WellFormed(l.answer, IF Len(Source(l.answer)) = 4 THEN 1 ELSE 58)
    /\ LET upper == UpperLayer(l.answer)
           ports == SubSeq(l.ask, 1, HeaderLen(l.ask) + 8)
       IN  IF peer.refused /\ l.ask[IF Len(Source(l.ask)) = 4 THEN 10 ELSE 7] = UdpProto
           THEN IsPrefix(ports, SubSeq(upper, 9, Len(upper)))
           ELSE upper[1] = 0 /\ SubSeq(upper, 5, Len(upper)) = SubSeq(UpperLayer(l.ask), 5, Len(upper))

\* Whether the tunnel or the stack answers, the app gets its reply.
RepliesReach == EchoReaches /\ LocalAnswers
=============================================================================
