---------------------------- MODULE TunnelProofs ---------------------------
(***************************************************************************)
(* Proofs about Tunnel, for any number of bytes and addresses and for any  *)
(* flight a foreign site may send: what reaches the pool is authentic, its *)
(* records open in their turn through the change of keys, no nonce is used *)
(* twice.                                                                  *)
(***************************************************************************)
EXTENDS Tunnel, SequenceTheorems, TLAPS

Places == {"connect", "hello", "flight", "tail", "sync", "nego", "ack", "ready", "open", "failed"}
ServerPlaces == {"hello", "tail", "clock", "nego", "target", "relay"}

Masters == {"ours", "theirs"}
Pairs == (Masters \X Directions \X Ciphers) \X Nat
Halves == [cipher : Ciphers, nonce : Nat]

Messages ==
  [type : {"clock"}, agility : BOOLEAN] \cup [type : {"nego"}, aes : BOOLEAN]
    \cup [type : {"ack"}, cipher : Ciphers] \cup [type : {"target"}]
    \cup [type : {"data"}, bytes : Seq(Nat)]

Records == [pair : Pairs, says : Messages]

\* The types of the records, and whose key is whose.
RecordTypes ==
  /\ masters \in [Directions -> [writer : Masters, reader : Masters]]
  /\ masters["c2s"].writer = "ours" /\ masters["s2c"].reader = "ours"
  /\ peer = "server" => masters["c2s"].reader = "ours" /\ masters["s2c"].writer = "ours"
  /\ peer # "server" => masters["c2s"].reader = "theirs" /\ masters["s2c"].writer = "theirs"
  /\ sealing \in [Directions -> Halves] /\ opening \in [Directions -> Halves]
  /\ wire \in [Directions -> Seq(Records)]

\* The types of the handshake and of the stream.
StreamTypes ==
  /\ place \in Places /\ serverAt \in ServerPlaces
  /\ peer \in {"server", "stranger", "site"} /\ agility \in BOOLEAN /\ broken \in BOOLEAN
  /\ aes \in [{"client", "server"} -> BOOLEAN]
  /\ writing \in [Directions -> Seq(Nat)] /\ reading \in [Directions -> Seq(Nat)]
  /\ accepted \in [Directions -> Nat] /\ delivered \in [Directions -> Seq(Nat)]

Types == RecordTypes /\ StreamTypes

\* Every pair a direction has used lies behind the counter of its writer, under
\* the same key or the one before.
UsedBelow ==
  /\ ~reused
  /\ \A d \in Directions : \A c \in Ciphers : \A n \in Nat :
       <<ExpandKey(masters[d].writer, d, c), n>> \in used =>
         \/ c = sealing[d].cipher /\ n < sealing[d].nonce
         \/ c = "chacha" /\ sealing[d].cipher = "aes"

-----------------------------------------------------------------------------
(* The course of the handshake with the server. *)

At(half, cipher, nonce) == half.cipher = cipher /\ half.nonce = nonce

\* The records under way open one after the other.
Chained(d) ==
  \A i \in DOMAIN wire[d] :
    wire[d][i].pair = <<ExpandKey(masters[d].reader, d, opening[d].cipher), opening[d].nonce + i - 1>>

\* The writer is ahead of the reader by what is under way.
Ahead(d) ==
  sealing[d].cipher = opening[d].cipher /\ sealing[d].nonce = opening[d].nonce + Len(wire[d])

\* Before the client has read the clock.
Early ==
  /\ place \in {"connect", "hello"} => serverAt = "hello"
  /\ place \in {"flight", "tail"} => serverAt = "tail"
  /\ place = "sync" => serverAt \in {"clock", "nego", "target"}
  /\ wire["c2s"] = <<>> /\ At(sealing["c2s"], "chacha", 0) /\ At(opening["c2s"], "chacha", 0)
  /\ At(opening["s2c"], "chacha", 0) /\ Chained("s2c")
  /\ IF serverAt \in {"nego", "target"}
     THEN /\ At(sealing["s2c"], "chacha", 1) /\ Len(wire["s2c"]) <= 1
          /\ serverAt = "nego" <=> agility
          /\ wire["s2c"] # <<>> => Says("s2c") = [type |-> "clock", agility |-> agility]
     ELSE At(sealing["s2c"], "chacha", 0) /\ wire["s2c"] = <<>>

\* It has read the clock, and the server waits for the client's wish.
Asking ==
  /\ wire["s2c"] = <<>> /\ At(sealing["s2c"], "chacha", 1) /\ At(opening["s2c"], "chacha", 1)
  /\ At(opening["c2s"], "chacha", 0) /\ Chained("c2s")
  /\ IF place = "nego" THEN serverAt = "nego" /\ wire["c2s"] = <<>> /\ At(sealing["c2s"], "chacha", 0)
     ELSE Len(wire["c2s"]) <= 1 /\ At(sealing["c2s"], "chacha", 1)

\* The server has changed its keys and the client has not.
Halfway ==
  /\ wire["c2s"] = <<>> /\ At(sealing["c2s"], "chacha", 1)
  /\ At(opening["s2c"], "chacha", 1) /\ Chained("s2c") /\ Len(wire["s2c"]) <= 1
  /\ \E final \in Ciphers :
       /\ opening["c2s"] = Rekeyed([cipher |-> "chacha", nonce |-> 1], final)
       /\ sealing["s2c"] = Rekeyed([cipher |-> "chacha", nonce |-> 2], final)
       /\ wire["s2c"] # <<>> => Says("s2c") = [type |-> "ack", cipher |-> final]

\* Both ends have the same keys, and nothing is under way.
Settled ==
  /\ serverAt = "target" /\ wire["c2s"] = <<>> /\ wire["s2c"] = <<>>
  /\ sealing["c2s"] = opening["c2s"] /\ sealing["s2c"] = opening["s2c"]

\* The stream.
Streaming ==
  /\ serverAt \in {"target", "relay"} /\ (serverAt = "target" => wire["s2c"] = <<>>)
  /\ \A d \in Directions : Chained(d) /\ (~broken => Ahead(d))
  /\ \A d \in Directions : \A i \in DOMAIN wire[d] :
       wire[d][i].says.type = IF d = "c2s" /\ serverAt = "target" /\ i = 1 THEN "target" ELSE "data"
  /\ serverAt = "target" /\ ~broken => wire["c2s"] # <<>>

\* The client is gone: the server still reads what it had asked.
Over ==
  /\ serverAt # "relay" /\ Len(wire["c2s"]) <= 1 /\ (serverAt # "nego" => wire["c2s"] = <<>>)

\* The place of the client decides.
WithServer ==
  /\ place \in {"connect", "hello", "flight", "tail", "sync"} => Early
  /\ place = "nego" => Asking
  /\ place = "ack" => (serverAt = "nego" /\ Asking) \/ (serverAt = "target" /\ Halfway)
  /\ place = "ready" => Settled
  /\ place = "open" => Streaming
  /\ place = "failed" => Over

\* A stranger or a site has other keys: nothing it sends opens, nothing is sent to it.
WithOthers ==
  /\ place \in {"connect", "hello", "flight", "tail", "sync", "failed"}
  /\ serverAt # "relay" /\ wire["c2s"] = <<>>
  /\ \A i \in DOMAIN wire["s2c"] : wire["s2c"][i].pair[1][1] = "theirs"

Handshake == (peer = "server" => WithServer) /\ (peer # "server" => WithOthers)

IInv == Types /\ UsedBelow /\ Handshake

-----------------------------------------------------------------------------
(* Types. *)

\* A counter moves on.
LEMMA CountedType ==
  ASSUME NEW half \in Halves
  PROVE  /\ [half EXCEPT !.nonce = half.nonce + 1] \in Halves
         /\ [half EXCEPT !.nonce = half.nonce + 1].cipher = half.cipher
         /\ [half EXCEPT !.nonce = half.nonce + 1].nonce = half.nonce + 1
BY DEF Halves

\* What a record that is sealed and arrives does to the queue.
LEMMA SealTypes ==
  ASSUME Types, NEW d \in Directions, NEW says \in Messages, NEW arrives \in BOOLEAN,
         Seal(d, says, arrives), UNCHANGED peer
  PROVE  RecordTypes'
<1>1. SealPair(d) \in Pairs
  BY DEF SealPair, Pairs, ExpandKey, Types, RecordTypes, Halves
<1>2. [pair |-> SealPair(d), says |-> says] \in Records
  BY <1>1 DEF Records
<1>3. wire[d] \in Seq(Records)
  BY DEF Types, RecordTypes
<1>4. Append(wire[d], [pair |-> SealPair(d), says |-> says]) \in Seq(Records)
  BY <1>2, <1>3, AppendProperties
<1>5. wire' \in [Directions -> Seq(Records)]
  BY <1>4 DEF Seal, Types, RecordTypes
<1>6. sealing' \in [Directions -> Halves]
  <2>1. sealing \in [Directions -> Halves] /\ sealing[d] \in Halves
    BY DEF Types, RecordTypes
  <2>2. sealing' = [sealing EXCEPT ![d] = [sealing[d] EXCEPT !.nonce = sealing[d].nonce + 1]]
    BY DEF Seal
  <2>. QED  BY <2>1, <2>2, CountedType
<1>. QED  BY <1>5, <1>6 DEF Seal, Types, RecordTypes

\* The rest of the queue after a record was opened.
LEMMA RestOfWire ==
  ASSUME Types, NEW d \in Directions, wire[d] # <<>>
  PROVE  /\ Tail(wire[d]) \in Seq(Records) /\ Head(wire[d]) \in Records
         /\ Len(Tail(wire[d])) = Len(wire[d]) - 1
         /\ \A i \in 1..Len(Tail(wire[d])) : Tail(wire[d])[i] = wire[d][i + 1]
         /\ Head(wire[d]) = wire[d][1]
<1>1. wire[d] \in Seq(Records)
  BY DEF Types, RecordTypes
<1>. QED  BY <1>1, HeadTailProperties

\* An opened record leaves its queue.
LEMMA OpenTypes ==
  ASSUME Types, NEW d \in Directions, Open(d), UNCHANGED peer
  PROVE  RecordTypes'
<1>1. Tail(wire[d]) \in Seq(Records)
  BY RestOfWire DEF Open
<1>2. opening \in [Directions -> Halves] /\ opening[d] \in Halves
  BY DEF Types, RecordTypes
<1>3. opening' = [opening EXCEPT ![d] = [opening[d] EXCEPT !.nonce = opening[d].nonce + 1]]
  BY DEF Open
<1>4. opening' \in [Directions -> Halves]
  BY <1>2, <1>3, CountedType
<1>. QED  BY <1>1, <1>4 DEF Open, Types, RecordTypes

\* A change of keys gives a key and a counter.
LEMMA RekeyedType ==
  ASSUME NEW half \in Halves, NEW final \in Ciphers
  PROVE  Rekeyed(half, final) \in Halves
BY DEF Rekeyed, Halves

\* A record that the client's stream reads is one of data.
LEMMA StreamData ==
  ASSUME Types, Handshake, NEW d \in Directions, Listens(d), Opens(d)
  PROVE  place = "open" /\ peer = "server" /\ Says(d).type = "data" /\ Says(d).bytes \in Seq(Nat)
<1>1. peer = "server"
  BY DEF Handshake, WithOthers, Listens, Opens, Directions
<1>2. place = "open"
  BY <1>1 DEF Handshake, WithServer, Listens, Early, Asking, Settled, Over, Types, StreamTypes, Places, At
<1>3. wire[d] # <<>> /\ Head(wire[d]) = wire[d][1] /\ 1 \in DOMAIN wire[d] /\ Head(wire[d]) \in Records
  <2>1. wire[d] \in Seq(Records) /\ wire[d] # <<>>
    BY DEF Types, RecordTypes, Opens
  <2>. QED  BY <2>1, HeadTailProperties
<1>4. Says(d).type = "data"
  BY <1>1, <1>2, <1>3 DEF Handshake, WithServer, Streaming, Listens, Says, Directions
<1>5. Says(d) \in Messages
  BY <1>3 DEF Says, Records
<1>6. Says(d).bytes \in Seq(Nat)
  BY <1>4, <1>5 DEF Messages
<1>. QED  BY <1>1, <1>2, <1>4, <1>6

\* A piece of a sequence of numbers is one.
LEMMA PieceType ==
  ASSUME NEW s \in Seq(Nat), NEW m \in 1..(Len(s) + 1), NEW n \in 0..Len(s)
  PROVE  SubSeq(s, m, n) \in Seq(Nat)
<1>1. \A i \in m..n : s[i] \in Nat
  BY ElementOfSeq
<1>. QED  BY <1>1, SubSeqProperties

\* A broken connection loses the end of what is under way.
LEMMA BreakTypes ==
  ASSUME Types, Break
  PROVE  /\ RecordTypes'
         /\ \A d \in Directions : \E n \in 0..Len(wire[d]) :
              /\ wire'[d] = SubSeq(wire[d], 1, n) /\ Len(wire'[d]) = n
              /\ \A i \in 1..n : wire'[d][i] = wire[d][i]
<1>1. PICK k \in [Directions -> 0..Len(wire["c2s"]) + Len(wire["s2c"])] :
        /\ \A d \in Directions : k[d] <= Len(wire[d])
        /\ wire' = [d \in Directions |-> SubSeq(wire[d], 1, k[d])]
  BY DEF Break
<1>2. ASSUME NEW d \in Directions
      PROVE  /\ k[d] \in 0..Len(wire[d]) /\ wire'[d] = SubSeq(wire[d], 1, k[d])
             /\ wire'[d] \in Seq(Records) /\ Len(wire'[d]) = k[d]
             /\ \A i \in 1..k[d] : wire'[d][i] = wire[d][i]
  <2>1. wire[d] \in Seq(Records) /\ Len(wire[d]) \in Nat
    BY DEF Types, RecordTypes
  <2>2. Len(wire["c2s"]) \in Nat /\ Len(wire["s2c"]) \in Nat
    <3>1. wire["c2s"] \in Seq(Records) /\ wire["s2c"] \in Seq(Records)
      BY DEF Types, RecordTypes, Directions
    <3>. QED  BY <3>1, LenProperties
  <2>3. k[d] \in 0..Len(wire[d]) /\ wire'[d] = SubSeq(wire[d], 1, k[d])
    <3>1. k[d] \in 0..(Len(wire["c2s"]) + Len(wire["s2c"])) /\ k[d] <= Len(wire[d])
      BY <1>1
    <3>. QED  BY <1>1, <2>1, <2>2, <3>1
  <2>4. \A i \in 1..k[d] : wire[d][i] \in Records
    BY <2>1, <2>3, ElementOfSeq
  <2>. QED  BY <2>3, <2>4, SubSeqProperties
<1>3. wire' \in [Directions -> Seq(Records)]
  BY <1>1, <1>2
<1>. QED  BY <1>2, <1>3 DEF Break, handshakeVars, Types, RecordTypes

\* The steps that touch no record.
Silent ==
  \/ Connected \/ ConnectFails \/ NoAddress \/ Hello \/ ReadFlight \/ FlightFails \/ SendTail
  \/ ReceiveFails \/ SendFails \/ TimesOut \/ Discard \/ \E d \in Directions : PollWrite(d) \/ PollRead(d)

\* They touch none indeed.
LEMMA SilentKeeps ==
  ASSUME Silent
  PROVE  UNCHANGED recordVars /\ UNCHANGED <<peer, agility, aes, broken>>
BY DEF Silent, Connected, ConnectFails, NoAddress, Hello, ReadFlight, FlightFails, SendTail,
       ReceiveFails, SendFails, TimesOut, Discard, PollWrite, PollRead, Goes, Fails, handshakeVars

\* The types of the records are kept.
LEMMA RecordTypeStep ==
  ASSUME IInv, [Next]_vars
  PROVE  RecordTypes'
<1>. USE DEF IInv
<1>0. CASE UNCHANGED vars
  BY <1>0 DEF vars, recordVars, handshakeVars, Types, RecordTypes
<1>1. CASE Silent
  BY <1>1, SilentKeeps DEF recordVars, Types, RecordTypes
<1>2. CASE ServerSendsClock
  <2>1. [type |-> "clock", agility |-> agility] \in Messages
    BY DEF Messages, Types, StreamTypes
  <2>. QED  BY <2>1, <1>2, SealTypes DEF ServerSendsClock, ServerGoes, Directions, Types, StreamTypes
<1>3. CASE SendNego
  <2>1. [type |-> "nego", aes |-> aes["client"]] \in Messages
    BY DEF Messages, Types, StreamTypes
  <2>. QED  BY <2>1, <1>3, SealTypes DEF SendNego, Goes, Directions, Types, StreamTypes
<1>4. CASE Use
  <2>1. [type |-> "target"] \in Messages
    BY DEF Messages
  <2>. QED  BY <2>1, <1>4, SealTypes DEF Use, Goes, Directions, Types, StreamTypes
<1>5. ASSUME NEW d \in Directions, SendRecord(d)  PROVE RecordTypes'
  <2>1. PICK n \in 1..Len(writing[d]) :
          Seal(d, [type |-> "data", bytes |-> SubSeq(writing[d], 1, n)], ~broken)
    BY <1>5 DEF SendRecord
  <2>2. SubSeq(writing[d], 1, n) \in Seq(Nat)
    BY PieceType DEF Types, StreamTypes
  <2>3. [type |-> "data", bytes |-> SubSeq(writing[d], 1, n)] \in Messages
    BY <2>2 DEF Messages
  <2>. QED  BY <2>1, <2>3, <1>5, SealTypes DEF SendRecord, handshakeVars, Types, StreamTypes
<1>6. ASSUME NEW d \in Directions, Open(d), UNCHANGED peer  PROVE RecordTypes'
  BY <1>6, OpenTypes
<1>7. CASE ReceiveClock \/ ServerReadsTarget \/ \E d \in Directions : ReadRecord(d)
  BY <1>6, <1>7 DEF ReceiveClock, ServerReadsTarget, ReadRecord, Goes, ServerGoes, handshakeVars, Directions
<1>8. CASE ServerSendsAck
  <2>. DEFINE final == Negotiated(Says("c2s").aes, aes["server"])
              ack == [pair |-> SealPair("s2c"), says |-> [type |-> "ack", cipher |-> final]]
  <2>1. final \in Ciphers
    BY DEF Negotiated, Ciphers
  <2>2. SealPair("s2c") \in Pairs
    BY DEF SealPair, Pairs, ExpandKey, Types, RecordTypes, Halves, Directions
  <2>3. ack \in Records
    BY <2>1, <2>2 DEF Records, Messages
  <2>4. wire["s2c"] \in Seq(Records) /\ Tail(wire["c2s"]) \in Seq(Records)
    BY <1>8, RestOfWire DEF ServerSendsAck, Opens, Directions, Types, RecordTypes
  <2>5. wire' \in [Directions -> Seq(Records)]
    <3>. HIDE DEF ack
    <3>1. Append(wire["s2c"], ack) \in Seq(Records)
      BY <2>3, <2>4, AppendProperties
    <3>2. wire' = [wire EXCEPT !["c2s"] = Tail(wire["c2s"]),
                                !["s2c"] = IF broken THEN wire["s2c"] ELSE Append(wire["s2c"], ack)]
      BY <1>8 DEF ServerSendsAck, ack
    <3>. QED  BY <2>4, <3>1, <3>2 DEF Directions, Types, RecordTypes
  <2>6. sealing' \in [Directions -> Halves] /\ opening' \in [Directions -> Halves]
    <3>. DEFINE newSealing == AfterAck(sealing["s2c"], final)
                newOpening == AfterAck(opening["c2s"], final)
    <3>1. sealing["s2c"] \in Halves /\ opening["c2s"] \in Halves
      BY DEF Types, RecordTypes, Directions
    <3>2. newSealing \in Halves /\ newOpening \in Halves
      BY <2>1, <3>1, CountedType, RekeyedType DEF AfterAck
    <3>3. /\ sealing' = [sealing EXCEPT !["s2c"] = newSealing]
          /\ opening' = [opening EXCEPT !["c2s"] = newOpening]
      BY <1>8 DEF ServerSendsAck
    <3>4. sealing \in [Directions -> Halves] /\ opening \in [Directions -> Halves]
      BY DEF Types, RecordTypes
    <3>. HIDE DEF newSealing, newOpening
    <3>. QED  BY <3>2, <3>3, <3>4
  <2>. QED  BY <2>5, <2>6, <1>8 DEF ServerSendsAck, ServerGoes, Types, RecordTypes
<1>9. CASE ReceiveAck
  <2>. DEFINE final == Says("s2c").cipher
  <2>1. final \in Ciphers
    <3>1. peer = "server" /\ wire["s2c"] # <<>> /\ place = "ack"
      BY <1>9 DEF ReceiveAck, Opens, Handshake, WithOthers
    <3>2. Halfway
      BY <3>1 DEF Handshake, WithServer, Asking
    <3>. QED  BY <3>1, <3>2 DEF Halfway
  <2>2. Tail(wire["s2c"]) \in Seq(Records)
    BY <1>9, RestOfWire DEF ReceiveAck, Opens, Directions
  <2>3. sealing["c2s"] \in Halves /\ opening["s2c"] \in Halves
    BY DEF Types, RecordTypes, Directions
  <2>4. Rekeyed(sealing["c2s"], final) \in Halves /\ AfterAck(opening["s2c"], final) \in Halves
    BY <2>1, <2>3, CountedType, RekeyedType DEF AfterAck
  <2>5. /\ sealing' = [sealing EXCEPT !["c2s"] = Rekeyed(sealing["c2s"], final)]
        /\ opening' = [opening EXCEPT !["s2c"] = AfterAck(opening["s2c"], final)]
        /\ wire' = [wire EXCEPT !["s2c"] = Tail(wire["s2c"])] /\ UNCHANGED <<masters, peer>>
    BY <1>9 DEF ReceiveAck, Goes
  <2>. HIDE DEF final
  <2>. QED  BY <2>2, <2>4, <2>5 DEF Types, RecordTypes
<1>10. CASE Break
  BY <1>10, BreakTypes
<1>. QED  BY <1>0, <1>1, <1>2, <1>3, <1>4, <1>5, <1>7, <1>8, <1>9, <1>10 DEF Next, Client, Server, Silent

\* The types of the handshake and of the stream are kept.
LEMMA StreamTypeStep ==
  ASSUME IInv, [Next]_vars
  PROVE  StreamTypes'
<1>. USE DEF IInv, Types, StreamTypes
<1>0. CASE UNCHANGED vars
  BY <1>0 DEF vars, handshakeVars, streamVars
<1>1. CASE Client
  BY <1>1 DEF Client, Connected, ConnectFails, NoAddress, Hello, ReadFlight, FlightFails, SendTail,
              ReceiveFails, ReceiveClock, SendNego, ReceiveAck, SendFails, TimesOut, AfterTimeout, Goes, Fails,
              streamVars, Places, ServerPlaces
<1>2. CASE Server
  BY <1>2 DEF Server, ServerSendsClock, ServerSendsAck, ServerReadsTarget, ServerGoes, streamVars, ServerPlaces
<1>3. CASE Discard \/ Use \/ Break
  BY <1>3 DEF Discard, Use, Break, Goes, Fails, streamVars, handshakeVars, Places
<1>4. ASSUME NEW d \in Directions, PollWrite(d)  PROVE StreamTypes'
  <2>1. PICK n \in 1..(Bytes - accepted[d]) :
          /\ accepted' = [accepted EXCEPT ![d] = accepted[d] + n]
          /\ writing' = [writing EXCEPT ![d] = [i \in 1..n |-> accepted[d] + i]]
    BY <1>4 DEF PollWrite
  <2>2. n \in Nat /\ [i \in 1..n |-> accepted[d] + i] \in Seq(Nat)
    <3>1. n \in Nat
      BY TunnelAssumption
    <3>. QED  BY <3>1, IsASeq
  <2>3. writing' \in [Directions -> Seq(Nat)]
    BY <2>1, <2>2
  <2>4. accepted' \in [Directions -> Nat]
    <3>1. accepted[d] + n \in Nat
      BY <2>2
    <3>. QED  BY <2>1, <3>1
  <2>5. UNCHANGED <<place, serverAt, peer, agility, broken, aes, reading, delivered>>
    BY <1>4 DEF PollWrite, handshakeVars
  <2>. QED  BY <2>3, <2>4, <2>5
<1>5. ASSUME NEW d \in Directions, SendRecord(d)  PROVE StreamTypes'
  <2>1. PICK n \in 1..Len(writing[d]) :
          writing' = [writing EXCEPT ![d] = IF broken THEN <<>> ELSE SubSeq(writing[d], n + 1, Len(writing[d]))]
    BY <1>5 DEF SendRecord
  <2>2. SubSeq(writing[d], n + 1, Len(writing[d])) \in Seq(Nat)
    BY PieceType
  <2>. QED  BY <1>5, <2>1, <2>2 DEF SendRecord, handshakeVars
<1>6. ASSUME NEW d \in Directions, ReadRecord(d)  PROVE StreamTypes'
  <2>1. Says(d).bytes \in Seq(Nat)
    BY <1>6, StreamData DEF ReadRecord
  <2>. QED  BY <2>1, <1>6 DEF ReadRecord, handshakeVars
<1>7. ASSUME NEW d \in Directions, PollRead(d)  PROVE StreamTypes'
  <2>1. PICK n \in 1..Len(reading[d]) :
          /\ delivered' = [delivered EXCEPT ![d] = delivered[d] \o SubSeq(reading[d], 1, n)]
          /\ reading' = [reading EXCEPT ![d] = SubSeq(reading[d], n + 1, Len(reading[d]))]
    BY <1>7 DEF PollRead, Rest
  <2>2. SubSeq(reading[d], 1, n) \in Seq(Nat) /\ SubSeq(reading[d], n + 1, Len(reading[d])) \in Seq(Nat)
    BY SMTT(30), PieceType
  <2>3. delivered[d] \o SubSeq(reading[d], 1, n) \in Seq(Nat)
    BY <2>2, ConcatProperties
  <2>. QED  BY <1>7, <2>1, <2>2, <2>3 DEF PollRead, handshakeVars
<1>. QED  BY <1>0, <1>1, <1>2, <1>3, <1>4, <1>5, <1>6, <1>7 DEF Next

-----------------------------------------------------------------------------
(* No nonce twice. *)

\* The pair a writer is about to use is new.
LEMMA PairIsNew ==
  ASSUME Types, UsedBelow, NEW d \in Directions
  PROVE  SealPair(d) \notin used
<1>1. sealing[d].cipher \in Ciphers /\ sealing[d].nonce \in Nat
  BY DEF Types, RecordTypes, Halves
<1>. QED  BY <1>1 DEF UsedBelow, SealPair

\* A writer that uses its pair, counts on and perhaps changes its key leaves
\* every used pair behind.
LEMMA UseKeeps ==
  ASSUME Types, UsedBelow, NEW d \in Directions, Uses(d), UNCHANGED masters,
         NEW half \in Halves, sealing' = [sealing EXCEPT ![d] = half],
         \/ half.cipher = sealing[d].cipher /\ half.nonce = sealing[d].nonce + 1
         \/ sealing[d].cipher = "chacha" /\ half.cipher = "aes"
  PROVE  UsedBelow'
<1>1. ~reused'
  BY PairIsNew DEF Uses, UsedBelow
<1>2. ASSUME NEW e \in Directions, NEW c \in Ciphers, NEW n \in Nat,
             <<ExpandKey(masters[e].writer, e, c), n>> \in used'
      PROVE  \/ c = sealing'[e].cipher /\ n < sealing'[e].nonce
             \/ c = "chacha" /\ sealing'[e].cipher = "aes"
  <2>0. /\ sealing[d].cipher \in Ciphers /\ sealing[d].nonce \in Nat /\ half.nonce \in Nat
        /\ sealing'[d] = half /\ (e # d => sealing'[e] = sealing[e])
    BY DEF Types, RecordTypes, Halves
  <2>1. CASE <<ExpandKey(masters[e].writer, e, c), n>> \in used
    BY <2>0, <2>1 DEF UsedBelow, Ciphers
  <2>2. CASE <<ExpandKey(masters[e].writer, e, c), n>> = SealPair(d)
    <3>1. e = d /\ c = sealing[d].cipher /\ n = sealing[d].nonce
      BY <2>2 DEF SealPair, ExpandKey
    <3>. QED  BY <3>1, <2>0
  <2>. QED  BY <1>2, <2>1, <2>2 DEF Uses
<1>. QED  BY <1>1, <1>2 DEF UsedBelow

\* No step seals with a used pair.
LEMMA NonceStep ==
  ASSUME IInv, [Next]_vars
  PROVE  UsedBelow'
<1>. USE DEF IInv
<1>1. ASSUME UNCHANGED <<masters, sealing, used, reused>>  PROVE UsedBelow'
  BY <1>1 DEF UsedBelow
<1>2. ASSUME NEW d \in Directions, NEW says, NEW arrives, Seal(d, says, arrives)  PROVE UsedBelow'
  <2>1. sealing[d] \in Halves
    BY DEF Types, RecordTypes
  <2>2. sealing' = [sealing EXCEPT ![d] = [sealing[d] EXCEPT !.nonce = sealing[d].nonce + 1]]
    BY <1>2 DEF Seal
  <2>3. /\ [sealing[d] EXCEPT !.nonce = sealing[d].nonce + 1] \in Halves
        /\ [sealing[d] EXCEPT !.nonce = sealing[d].nonce + 1].cipher = sealing[d].cipher
        /\ [sealing[d] EXCEPT !.nonce = sealing[d].nonce + 1].nonce = sealing[d].nonce + 1
    BY <2>1, CountedType
  <2>. QED  BY <1>2, <2>2, <2>3, UseKeeps DEF Seal
<1>3. CASE UNCHANGED vars \/ Silent \/ Break
  BY <1>1, <1>3, SilentKeeps DEF vars, recordVars, Break
<1>4. CASE ReceiveClock \/ ServerReadsTarget \/ \E d \in Directions : ReadRecord(d)
  BY <1>1, <1>4 DEF ReceiveClock, ServerReadsTarget, ReadRecord, Open
<1>5. CASE ServerSendsClock \/ SendNego \/ Use
  BY <1>2, <1>5 DEF ServerSendsClock, SendNego, Use, Directions
<1>6. CASE \E d \in Directions : SendRecord(d)
  BY <1>2, <1>6 DEF SendRecord
<1>7. CASE ServerSendsAck
  <2>. DEFINE half == AfterAck(sealing["s2c"], Negotiated(Says("c2s").aes, aes["server"]))
              counted == [sealing["s2c"] EXCEPT !.nonce = sealing["s2c"].nonce + 1]
  <2>1. Negotiated(Says("c2s").aes, aes["server"]) \in Ciphers
    BY DEF Negotiated, Ciphers
  <2>2. sealing["s2c"] \in Halves
    BY DEF Types, RecordTypes, Directions
  <2>3. counted \in Halves /\ counted.cipher = sealing["s2c"].cipher /\ counted.nonce = sealing["s2c"].nonce + 1
    BY <2>2, CountedType
  <2>4. half = Rekeyed(counted, Negotiated(Says("c2s").aes, aes["server"]))
    BY DEF AfterAck
  <2>. HIDE DEF counted
  <2>5. half \in Halves
    BY <2>1, <2>3, <2>4, RekeyedType
  <2>6. \/ half.cipher = sealing["s2c"].cipher /\ half.nonce = sealing["s2c"].nonce + 1
        \/ sealing["s2c"].cipher = "chacha" /\ half.cipher = "aes"
    BY <2>1, <2>2, <2>3, <2>4 DEF Rekeyed, Halves, Ciphers
  <2>7. sealing' = [sealing EXCEPT !["s2c"] = half] /\ Uses("s2c") /\ UNCHANGED masters
    BY <1>7 DEF ServerSendsAck
  <2>. HIDE DEF half
  <2>. QED  BY <2>5, <2>6, <2>7, UseKeeps DEF Directions
<1>8. CASE ReceiveAck
  <2>. DEFINE final == Says("s2c").cipher
  <2>1. peer = "server" /\ wire["s2c"] # <<>> /\ place = "ack"
    BY <1>8 DEF ReceiveAck, Opens, Handshake, WithOthers
  <2>2. Halfway
    BY <2>1 DEF Handshake, WithServer, Asking
  <2>3. sealing["c2s"].cipher = "chacha" /\ sealing["c2s"].nonce = 1 /\ final \in Ciphers
    BY <2>1, <2>2 DEF Halfway, At
  <2>4. sealing' = [sealing EXCEPT !["c2s"] = Rekeyed(sealing["c2s"], final)]
        /\ UNCHANGED <<masters, used, reused>>
    BY <1>8 DEF ReceiveAck
  <2>5. CASE final = "chacha"
    <3>1. sealing' = sealing
      BY <2>4, <2>5 DEF Rekeyed, Types, RecordTypes
    <3>. QED  BY <1>1, <2>4, <3>1
  <2>6. CASE final = "aes"
    <3>1. sealing'["c2s"].cipher = "aes" /\ sealing'["s2c"] = sealing["s2c"]
      BY <2>3, <2>4, <2>6 DEF Rekeyed, Types, RecordTypes, Directions
    <3>2. ASSUME NEW e \in Directions, NEW c \in Ciphers, NEW n \in Nat,
                 <<ExpandKey(masters[e].writer, e, c), n>> \in used
          PROVE  \/ c = sealing'[e].cipher /\ n < sealing'[e].nonce
                 \/ c = "chacha" /\ sealing'[e].cipher = "aes"
      BY <2>3, <3>1, <3>2 DEF UsedBelow, Directions
    <3>. QED  BY <2>4, <3>2 DEF UsedBelow
  <2>. QED  BY <2>3, <2>5, <2>6 DEF Ciphers
<1>. QED  BY <1>3, <1>4, <1>5, <1>6, <1>7, <1>8 DEF Next, Client, Server, Silent

-----------------------------------------------------------------------------
(* Records open in their turn. *)

SameKey(d) == masters[d].writer = masters[d].reader

\* With the server, both ends have one master key.
LEMMA ServerKeys ==
  ASSUME Types, peer = "server", NEW d \in Directions
  PROVE  SameKey(d)
BY DEF SameKey, Types, RecordTypes, Directions

\* What sealing a record comes to.
Sealed(d, says, arrives) ==
  /\ Chained(d)' /\ (arrives => Ahead(d)')
  /\ sealing'[d].cipher = sealing[d].cipher /\ sealing'[d].nonce = sealing[d].nonce + 1
  /\ ~arrives => wire'[d] = wire[d]
  /\ arrives => /\ Len(wire'[d]) = Len(wire[d]) + 1 /\ wire'[d] # <<>>
                /\ wire'[d][Len(wire[d]) + 1].says = says
                /\ \A i \in 1..Len(wire[d]) : wire'[d][i] = wire[d][i]
  /\ \A e \in Directions \ {d} : wire'[e] = wire[e] /\ sealing'[e] = sealing[e]
  /\ UNCHANGED <<masters, opening>>

\* What a writer seals opens after what is under way.
LEMMA SealChained ==
  ASSUME Types, NEW d \in Directions, NEW says \in Messages, NEW arrives \in BOOLEAN,
         SameKey(d), Chained(d), arrives => Ahead(d), Seal(d, says, arrives)
  PROVE  Sealed(d, says, arrives)
<1>. DEFINE rec == [pair |-> SealPair(d), says |-> says]
<1>0. SealPair(d) \in Pairs
  BY DEF SealPair, Pairs, ExpandKey, Types, RecordTypes, Halves
<1>1. rec \in Records /\ rec.pair = SealPair(d) /\ rec.says = says
  BY <1>0 DEF Records
<1>2. wire[d] \in Seq(Records) /\ Len(wire[d]) \in Nat /\ wire \in [Directions -> Seq(Records)]
  BY DEF Types, RecordTypes
<1>3. sealing[d] \in Halves /\ opening[d] \in Halves /\ sealing \in [Directions -> Halves]
  BY DEF Types, RecordTypes
<1>4. /\ wire' = IF arrives THEN [wire EXCEPT ![d] = Append(wire[d], rec)] ELSE wire
      /\ sealing' = [sealing EXCEPT ![d] = [sealing[d] EXCEPT !.nonce = sealing[d].nonce + 1]]
      /\ UNCHANGED <<masters, opening>>
  BY DEF Seal
<1>5. sealing'[d].cipher = sealing[d].cipher /\ sealing'[d].nonce = sealing[d].nonce + 1
  BY <1>3, <1>4, CountedType
<1>6. \A e \in Directions \ {d} : wire'[e] = wire[e] /\ sealing'[e] = sealing[e]
  BY <1>2, <1>3, <1>4
<1>7. CASE ~arrives
  BY <1>4, <1>5, <1>6, <1>7 DEF Sealed, Chained
<1>8. CASE arrives
  <2>. HIDE DEF rec
  <2>1. wire'[d] = Append(wire[d], rec)
    BY <1>2, <1>4, <1>8
  <2>2. /\ Len(wire'[d]) = Len(wire[d]) + 1 /\ wire'[d] # <<>> /\ wire'[d] \in Seq(Records)
        /\ wire'[d][Len(wire[d]) + 1] = rec
        /\ \A i \in 1..Len(wire[d]) : wire'[d][i] = wire[d][i]
    BY <1>1, <1>2, <2>1, AppendProperties
  <2>3. rec.pair = <<ExpandKey(masters[d].reader, d, opening[d].cipher), opening[d].nonce + Len(wire[d])>>
    BY <1>1, <1>8 DEF SealPair, SameKey, Ahead
  <2>4. \A i \in DOMAIN wire[d] :
          wire[d][i].pair = <<ExpandKey(masters[d].reader, d, opening[d].cipher), opening[d].nonce + i - 1>>
    BY DEF Chained
  <2>5. ASSUME NEW i \in DOMAIN wire'[d]
        PROVE  wire'[d][i].pair = <<ExpandKey(masters[d].reader, d, opening[d].cipher), opening[d].nonce + i - 1>>
    <3>1. CASE i \in 1..Len(wire[d])
      BY <1>2, <2>2, <2>4, <3>1
    <3>2. CASE i = Len(wire[d]) + 1
      <4>1. opening[d].nonce + i - 1 = opening[d].nonce + Len(wire[d])
        BY <1>2, <1>3, <3>2 DEF Halves
      <4>. QED  BY <4>1, <2>2, <2>3, <3>2
    <3>. QED  BY <1>2, <2>2, <3>1, <3>2
  <2>6. Chained(d)'
    BY <2>5, <1>4 DEF Chained
  <2>7. Ahead(d)'
    BY <1>2, <1>3, <1>4, <1>5, <1>8, <2>2 DEF Ahead, Halves
  <2>. QED  BY <1>1, <1>4, <1>5, <1>6, <1>8, <2>2, <2>6, <2>7 DEF Sealed
<1>. QED  BY <1>7, <1>8

\* Once a record is opened, the next one is due.
LEMMA OpenChained ==
  ASSUME Types, NEW d \in Directions, Chained(d), Open(d)
  PROVE  /\ Chained(d)' /\ (Ahead(d) => Ahead(d)')
         /\ opening'[d].cipher = opening[d].cipher /\ opening'[d].nonce = opening[d].nonce + 1
         /\ Len(wire'[d]) = Len(wire[d]) - 1 /\ Len(wire[d]) \in Nat \ {0}
         /\ \A i \in 1..Len(wire'[d]) : wire'[d][i] = wire[d][i + 1]
         /\ \A e \in Directions \ {d} : wire'[e] = wire[e] /\ opening'[e] = opening[e]
<1>1. wire \in [Directions -> Seq(Records)] /\ opening \in [Directions -> Halves] /\ opening[d] \in Halves
      /\ sealing[d] \in Halves
  BY DEF Types, RecordTypes
<1>2. /\ wire[d] # <<>> /\ wire' = [wire EXCEPT ![d] = Tail(wire[d])]
      /\ opening' = [opening EXCEPT ![d] = [opening[d] EXCEPT !.nonce = opening[d].nonce + 1]]
      /\ UNCHANGED <<masters, sealing>>
  BY DEF Open
<1>3. /\ wire'[d] \in Seq(Records) /\ wire[d] \in Seq(Records) /\ Len(wire'[d]) = Len(wire[d]) - 1
      /\ \A i \in 1..Len(wire'[d]) : wire'[d][i] = wire[d][i + 1]
  BY <1>1, <1>2, RestOfWire
<1>4. opening'[d].cipher = opening[d].cipher /\ opening'[d].nonce = opening[d].nonce + 1
  BY <1>1, <1>2, CountedType
<1>5. Len(wire[d]) \in Nat \ {0} /\ Len(wire'[d]) \in Nat
  BY <1>2, <1>3, EmptySeq, LenProperties
<1>6. Chained(d)'
  <2>1. ASSUME NEW i \in 1..Len(wire'[d])
        PROVE  wire'[d][i].pair = <<ExpandKey(masters[d].reader, d, opening'[d].cipher), opening'[d].nonce + i - 1>>
    <3>1. i + 1 \in DOMAIN wire[d]
      BY <1>3, <1>5
    <3>2. wire[d][i + 1].pair = <<ExpandKey(masters[d].reader, d, opening[d].cipher), opening[d].nonce + (i + 1) - 1>>
      BY <3>1 DEF Chained
    <3>3. opening[d].nonce + (i + 1) - 1 = opening'[d].nonce + i - 1
      BY <1>1, <1>4, <1>5 DEF Halves
    <3>. QED  BY <3>2, <3>3, <1>3, <1>4
  <2>. QED  BY <2>1, <1>2, <1>3 DEF Chained
<1>7. Ahead(d) => Ahead(d)'
  BY <1>1, <1>2, <1>3, <1>4, <1>5 DEF Ahead, Halves
<1>. QED  BY <1>1, <1>2, <1>3, <1>4, <1>5, <1>6, <1>7

\* What is left under way after a break still opens.
LEMMA BreakChained ==
  ASSUME Types, Break, NEW d \in Directions, Chained(d)
  PROVE  Chained(d)'
<1>1. PICK n \in 0..Len(wire[d]) : Len(wire'[d]) = n /\ \A i \in 1..n : wire'[d][i] = wire[d][i]
  BY BreakTypes
<1>2. wire[d] \in Seq(Records) /\ wire'[d] \in Seq(Records)
  BY BreakTypes DEF Types, RecordTypes
<1>. QED  BY SMTT(30), <1>1, <1>2 DEF Break, Chained

\* A half is known by its cipher and its counter.
LEMMA HalfIs ==
  ASSUME NEW half \in Halves, NEW cipher \in Ciphers, NEW nonce \in Nat, At(half, cipher, nonce)
  PROVE  half = [cipher |-> cipher, nonce |-> nonce]
BY DEF Halves, At

\* Steps that touch no record keep the course with the server.
LEMMA SilentWithServer ==
  ASSUME IInv, peer = "server", Silent
  PROVE  WithServer'
<1>. USE DEF IInv
<1>1. WithServer /\ place \in Places /\ serverAt \in ServerPlaces
  BY DEF Handshake, Types, StreamTypes
<1>2. UNCHANGED <<masters, sealing, opening, wire, agility, broken>>
  BY SilentKeeps DEF recordVars
<1>3. CASE UNCHANGED <<place, serverAt>>
  BY <1>1, <1>2, <1>3
     DEF WithServer, Early, Asking, Halfway, Settled, Streaming, Over, Chained, Ahead, Directions, Says
<1>4. CASE UNCHANGED serverAt /\ place' = "failed" /\ place # "open"
  <2>1. Over'
    BY <1>1, <1>2, <1>4, EmptySeq DEF WithServer, Early, Asking, Halfway, Settled, Over, Places
  <2>. QED  BY <2>1, <1>4 DEF WithServer
<1>5. CASE \/ place = "connect" /\ place' = "hello" /\ UNCHANGED serverAt
           \/ place = "hello" /\ place' = "flight" /\ serverAt' = "tail"
           \/ place = "flight" /\ place' = "tail" /\ UNCHANGED serverAt
           \/ place = "tail" /\ place' = "sync" /\ serverAt' = "clock"
  <2>1. Early /\ serverAt \in {"hello", "tail"}
    BY <1>1, <1>5 DEF WithServer, Early
  <2>2. Early'
    BY <1>2, <1>5, <2>1 DEF Early, Chained
  <2>. QED  BY <2>2, <1>5 DEF WithServer
<1>6. \/ UNCHANGED <<place, serverAt>>
      \/ UNCHANGED serverAt /\ place' = "failed" /\ place # "open"
      \/ place = "connect" /\ place' = "hello" /\ UNCHANGED serverAt
      \/ place = "hello" /\ place' = "flight" /\ serverAt' = "tail"
      \/ place = "flight" /\ place' = "tail" /\ UNCHANGED serverAt
      \/ place = "tail" /\ place' = "sync" /\ serverAt' = "clock"
  BY DEF Silent, Connected, ConnectFails, NoAddress, Hello, ReadFlight, FlightFails, SendTail,
         ReceiveFails, SendFails, Sends, TimesOut, Timed, AfterTimeout, Discard, PollWrite, PollRead, Goes, Fails, handshakeVars
<1>. QED  BY <1>3, <1>4, <1>5, <1>6

\* The server's first frame.
LEMMA ClockWithServer ==
  ASSUME IInv, peer = "server", ServerSendsClock
  PROVE  WithServer'
<1>. USE DEF IInv
<1>1. /\ WithServer /\ Types /\ serverAt = "clock" /\ place \in Places
      /\ Seal("s2c", [type |-> "clock", agility |-> agility], ~broken)
      /\ UNCHANGED <<place, agility, broken>> /\ serverAt' = (IF agility THEN "nego" ELSE "target")
  BY DEF Handshake, Types, StreamTypes, ServerSendsClock, ServerGoes
<1>2. place = "sync" \/ place = "failed"
  BY <1>1 DEF WithServer, Early, Asking, Settled, Streaming, Places
<1>3. UNCHANGED <<masters, opening>> /\ wire'["c2s"] = wire["c2s"] /\ sealing'["c2s"] = sealing["c2s"]
  BY <1>1 DEF Seal, RecordTypes, Types, Directions
<1>4. CASE place = "failed"
  <2>1. Over'
    BY <1>1, <1>3, <1>4, EmptySeq DEF WithServer, Over
  <2>. QED  BY <2>1, <1>1, <1>4 DEF WithServer
<1>5. CASE place = "sync"
  <2>1. Early /\ wire["s2c"] = <<>> /\ Len(wire["s2c"]) = 0
    BY <1>1, <1>5 DEF WithServer, Early
  <2>2. [type |-> "clock", agility |-> agility] \in Messages /\ (~broken) \in BOOLEAN /\ "s2c" \in Directions
    BY <1>1 DEF Messages, Types, StreamTypes, Directions
  <2>3. Ahead("s2c") /\ SameKey("s2c")
    BY <2>1, <2>2, <1>1, ServerKeys DEF Early, Ahead, At
  <2>3a. Sealed("s2c", [type |-> "clock", agility |-> agility], ~broken)
    BY <1>1, <2>1, <2>2, <2>3, SealChained DEF Early
  <2>4. /\ Chained("s2c")'
        /\ sealing'["s2c"].cipher = sealing["s2c"].cipher /\ sealing'["s2c"].nonce = sealing["s2c"].nonce + 1
        /\ broken => wire'["s2c"] = wire["s2c"]
        /\ ~broken => Len(wire'["s2c"]) = 1 /\ wire'["s2c"] # <<>>
                      /\ wire'["s2c"][1].says = [type |-> "clock", agility |-> agility]
    BY <2>1, <2>3a DEF Sealed
  <2>5. wire'["s2c"] # <<>> => (Says("s2c"))' = [type |-> "clock", agility |-> agility]
    <3>1. SUFFICES ASSUME wire'["s2c"] # <<>> PROVE (Says("s2c"))' = [type |-> "clock", agility |-> agility]
      OBVIOUS
    <3>2. wire'["s2c"] \in Seq(Records)
      BY RecordTypeStep DEF RecordTypes, Directions, Next, Server
    <3>3. Head(wire'["s2c"]) = wire'["s2c"][1]
      BY <3>1, <3>2
    <3>. QED  BY <3>1, <3>3, <2>1, <2>4 DEF Says
  <2>6. At(sealing'["s2c"], "chacha", 1)
    BY <1>1, <2>1, <2>4 DEF Early, At
  <2>7. Len(wire'["s2c"]) <= 1
    <3>1. CASE broken
      BY <2>1, <2>4, <3>1
    <3>2. CASE ~broken
      <4>1. Len(wire'["s2c"]) = 1
        BY <2>4, <3>2
      <4>. QED  BY <4>1
    <3>. QED  BY <3>1, <3>2
  <2>8. serverAt' \in {"nego", "target"} /\ (serverAt' = "nego" <=> agility)
    BY <1>1 DEF Types, StreamTypes
  <2>9. Early'
    BY <1>1, <1>3, <1>5, <2>1, <2>4, <2>5, <2>6, <2>7, <2>8 DEF Early, At
  <2>. QED  BY <2>9, <1>1, <1>5 DEF WithServer
<1>. QED  BY <1>2, <1>4, <1>5

\* The clock: with a choice of ciphers, or without.
LEMMA ReceiveClockWithServer ==
  ASSUME IInv, peer = "server", ReceiveClock
  PROVE  WithServer'
<1>. USE DEF IInv
<1>1. /\ Early /\ place = "sync" /\ wire["s2c"] # <<>> /\ Open("s2c") /\ UNCHANGED serverAt
      /\ place' = IF Says("s2c").agility THEN "nego" ELSE "ready"
  BY DEF Handshake, WithServer, ReceiveClock, Opens, Goes
<1>2. /\ serverAt \in {"nego", "target"} /\ (serverAt = "nego" <=> agility) /\ Len(wire["s2c"]) <= 1
      /\ Says("s2c").agility = agility /\ At(sealing["s2c"], "chacha", 1)
  BY <1>1 DEF Early
<1>3. /\ opening'["s2c"].cipher = "chacha" /\ opening'["s2c"].nonce = 1 /\ Len(wire'["s2c"]) = 0
      /\ wire'["c2s"] = wire["c2s"] /\ opening'["c2s"] = opening["c2s"]
  BY <1>1, <1>2, OpenChained DEF Early, At, Directions
<1>4. wire'["s2c"] = <<>> /\ UNCHANGED <<masters, sealing>>
  <2>1. wire'["s2c"] \in Seq(Records)
    BY RecordTypeStep DEF RecordTypes, Directions, Next, Client
  <2>. QED  BY <2>1, <1>3, <1>1 DEF Open
<1>5. sealing["c2s"] \in Halves /\ sealing["s2c"] \in Halves /\ opening'["s2c"] \in Halves /\ opening["c2s"] \in Halves
  BY RecordTypeStep DEF Types, RecordTypes, Directions, Next, Client
<1>6. CASE agility
  <2>1. Asking'
    BY <1>1, <1>2, <1>3, <1>4, <1>6 DEF Early, Asking, At, Chained
  <2>. QED  BY <2>1, <1>1, <1>2, <1>6 DEF WithServer
<1>7. CASE ~agility
  <2>1. sealing["s2c"] = opening'["s2c"] /\ sealing["c2s"] = opening["c2s"]
    BY <1>1, <1>2, <1>3, <1>5 DEF Early, At, Halves
  <2>2. Settled'
    BY <1>1, <1>2, <1>3, <1>4, <1>7, <2>1 DEF Early, Settled
  <2>. QED  BY <2>2, <1>1, <1>2, <1>7 DEF WithServer
<1>. QED  BY <1>6, <1>7

\* The client's wish.
LEMMA NegoWithServer ==
  ASSUME IInv, peer = "server", SendNego
  PROVE  WithServer'
<1>. USE DEF IInv
<1>1. /\ Asking /\ place = "nego" /\ serverAt = "nego" /\ place' = "ack" /\ UNCHANGED serverAt
      /\ Seal("c2s", [type |-> "nego", aes |-> aes["client"]], ~broken)
  BY DEF Handshake, WithServer, Asking, SendNego, Goes
<1>2. [type |-> "nego", aes |-> aes["client"]] \in Messages /\ (~broken) \in BOOLEAN /\ "c2s" \in Directions
  BY DEF Messages, Types, StreamTypes, Directions
<1>3. Ahead("c2s") /\ SameKey("c2s") /\ Len(wire["c2s"]) = 0
  BY <1>1, <1>2, ServerKeys DEF Asking, Ahead, At
<1>3a. Sealed("c2s", [type |-> "nego", aes |-> aes["client"]], ~broken)
  BY <1>1, <1>2, <1>3, SealChained DEF Asking
<1>4. Chained("c2s")' /\ UNCHANGED <<masters, opening>>
  BY <1>3a DEF Sealed
<1>5. sealing'["c2s"].cipher = "chacha" /\ sealing'["c2s"].nonce = 1
  BY <1>1, <1>3a DEF Sealed, Asking, At
<1>6. Len(wire'["c2s"]) <= 1
  <2>1. CASE broken
    BY <1>3, <1>3a, <2>1 DEF Sealed
  <2>2. CASE ~broken
    <3>1. Len(wire'["c2s"]) = Len(wire["c2s"]) + 1
      BY <1>3a, <2>2 DEF Sealed
    <3>. QED  BY <1>3, <3>1
  <2>. QED  BY <2>1, <2>2
<1>7. wire'["s2c"] = wire["s2c"] /\ sealing'["s2c"] = sealing["s2c"]
  BY <1>3a DEF Sealed, Directions
<1>8. Asking'
  BY <1>1, <1>4, <1>5, <1>6, <1>7 DEF Asking, At
<1>. QED  BY <1>8, <1>1 DEF WithServer

\* After the only record there is none.
LEMMA OnlyRecord ==
  ASSUME Types, NEW d \in Directions, wire[d] # <<>>, Len(wire[d]) <= 1
  PROVE  Tail(wire[d]) = <<>>
<1>1. ASSUME NEW w \in Seq(Records), w # <<>>, Len(w) <= 1  PROVE Tail(w) = <<>>
  <2>1. Len(w) \in Nat \ {0}
    BY <1>1, EmptySeq
  <2>2. Tail(w) \in Seq(Records) /\ Len(Tail(w)) = Len(w) - 1
    BY <1>1, HeadTailProperties
  <2>3. Len(Tail(w)) = 0
    BY <1>1, <2>1, <2>2
  <2>. QED  BY <2>2, <2>3, EmptySeq
<1>. QED  BY <1>1 DEF Types, RecordTypes

\* The record that changes the keys is counted under the old one.
LEMMA AfterAckIs ==
  ASSUME NEW half \in Halves, NEW nonce \in Nat, At(half, "chacha", nonce), NEW final \in Ciphers
  PROVE  /\ AfterAck(half, final) = Rekeyed([cipher |-> "chacha", nonce |-> nonce + 1], final)
         /\ AfterAck(half, final) \in Halves
<1>1. [half EXCEPT !.nonce = half.nonce + 1] = [cipher |-> "chacha", nonce |-> nonce + 1]
  BY DEF At, Halves
<1>2. [half EXCEPT !.nonce = half.nonce + 1] \in Halves
  BY CountedType
<1>. QED  BY <1>1, <1>2, RekeyedType DEF AfterAck

\* The server's choice.
LEMMA AckWithServer ==
  ASSUME IInv, peer = "server", ServerSendsAck
  PROVE  WithServer'
<1>. USE DEF IInv
<1>. DEFINE final == Negotiated(Says("c2s").aes, aes["server"])
            ack == [pair |-> SealPair("s2c"), says |-> [type |-> "ack", cipher |-> final]]
<1>1. /\ serverAt = "nego" /\ serverAt' = "target" /\ Opens("c2s") /\ wire["c2s"] # <<>>
      /\ wire' = [wire EXCEPT !["c2s"] = Tail(wire["c2s"]),
                              !["s2c"] = IF broken THEN wire["s2c"] ELSE Append(wire["s2c"], ack)]
      /\ sealing' = [sealing EXCEPT !["s2c"] = AfterAck(sealing["s2c"], final)]
      /\ opening' = [opening EXCEPT !["c2s"] = AfterAck(opening["c2s"], final)]
      /\ UNCHANGED <<masters, place, agility, broken>>
  BY DEF ServerSendsAck, ServerGoes, Opens
<1>2. /\ WithServer /\ place \in Places /\ wire \in [Directions -> Seq(Records)]
      /\ sealing \in [Directions -> Halves] /\ opening \in [Directions -> Halves] /\ broken \in BOOLEAN
  BY DEF Handshake, Types, StreamTypes, RecordTypes
<1>3. (place = "ack" /\ Asking) \/ (place = "failed" /\ Over)
  BY <1>1, <1>2 DEF WithServer, Early, Asking, Settled, Streaming, Places
<1>4. Len(wire["c2s"]) <= 1
  BY <1>3, <1>1 DEF Asking, Over
<1>5. wire'["c2s"] = <<>>
  <2>1. wire'["c2s"] = Tail(wire["c2s"])
    BY <1>1, <1>2 DEF Directions
  <2>. QED  BY <1>1, <1>4, <2>1, OnlyRecord DEF Directions
<1>6. CASE place = "failed"
  <2>1. Over'
    BY <1>1, <1>5, EmptySeq DEF Over
  <2>. QED  BY <2>1, <1>1, <1>6 DEF WithServer
<1>7. CASE place = "ack"
  <2>. HIDE DEF final, ack
  <2>1. Asking /\ wire["s2c"] = <<>>
    BY <1>3, <1>7 DEF Asking
  <2>2. final \in Ciphers
    BY DEF final, Negotiated, Ciphers
  <2>3. /\ sealing'["s2c"] = AfterAck(sealing["s2c"], final) /\ sealing'["c2s"] = sealing["c2s"]
        /\ opening'["c2s"] = AfterAck(opening["c2s"], final) /\ opening'["s2c"] = opening["s2c"]
    BY <1>1, <1>2 DEF Directions
  <2>4. /\ sealing'["s2c"] = Rekeyed([cipher |-> "chacha", nonce |-> 2], final)
        /\ opening'["c2s"] = Rekeyed([cipher |-> "chacha", nonce |-> 1], final)
    BY <1>2, <2>1, <2>2, <2>3, AfterAckIs DEF Asking, Directions
  <2>5. /\ At(sealing'["c2s"], "chacha", 1) /\ At(opening'["s2c"], "chacha", 1)
    BY <1>1, <1>7, <2>1, <2>3 DEF Asking
  <2>6. ack.pair = <<ExpandKey(masters["s2c"].reader, "s2c", opening'["s2c"].cipher), opening'["s2c"].nonce + 1 - 1>>
        /\ ack.says = [type |-> "ack", cipher |-> final]
    <3>1. SameKey("s2c")
      BY ServerKeys DEF Directions
    <3>2. sealing["s2c"].cipher = opening'["s2c"].cipher /\ sealing["s2c"].nonce = opening'["s2c"].nonce + 1 - 1
      BY <2>1, <2>3 DEF Asking, At
    <3>. QED  BY <3>1, <3>2 DEF ack, SealPair, SameKey
  <2>7. wire'["s2c"] = IF broken THEN <<>> ELSE <<ack>>
    BY <1>1, <1>2, <2>1 DEF Directions
  <2>8. Chained("s2c")'
    <3>1. \A i \in DOMAIN wire'["s2c"] : i = 1 /\ wire'["s2c"][i] = ack
      BY <1>2, <2>7
    <3>. QED  BY <1>1, <2>6, <3>1 DEF Chained
  <2>9. Len(wire'["s2c"]) <= 1
    BY <1>2, <2>7
  <2>10. wire'["s2c"] # <<>> => (Says("s2c"))' = [type |-> "ack", cipher |-> final]
    BY <1>2, <2>6, <2>7 DEF Says
  <2>11. Halfway'
    BY <1>5, <2>2, <2>4, <2>5, <2>8, <2>9, <2>10 DEF Halfway
  <2>. QED  BY <2>11, <1>1, <1>7 DEF WithServer
<1>. QED  BY <1>3, <1>6, <1>7

\* The client changes its keys too.
LEMMA ReceiveAckWithServer ==
  ASSUME IInv, peer = "server", ReceiveAck
  PROVE  WithServer'
<1>. USE DEF IInv
<1>. DEFINE final == Says("s2c").cipher
<1>1. /\ place = "ack" /\ place' = "ready" /\ UNCHANGED <<serverAt, masters>> /\ wire["s2c"] # <<>>
      /\ wire' = [wire EXCEPT !["s2c"] = Tail(wire["s2c"])]
      /\ sealing' = [sealing EXCEPT !["c2s"] = Rekeyed(sealing["c2s"], final)]
      /\ opening' = [opening EXCEPT !["s2c"] = AfterAck(opening["s2c"], final)]
  BY DEF ReceiveAck, Goes, Opens
<1>2. Halfway /\ serverAt = "target"
  BY <1>1 DEF Handshake, WithServer, Asking
<1>3. /\ final \in Ciphers
      /\ opening["c2s"] = Rekeyed([cipher |-> "chacha", nonce |-> 1], final)
      /\ sealing["s2c"] = Rekeyed([cipher |-> "chacha", nonce |-> 2], final)
  BY <1>1, <1>2 DEF Halfway
<1>4. /\ wire \in [Directions -> Seq(Records)]
      /\ sealing \in [Directions -> Halves] /\ opening \in [Directions -> Halves]
  BY DEF Types, RecordTypes
<1>. HIDE DEF final
<1>5. sealing["c2s"] = [cipher |-> "chacha", nonce |-> 1]
  BY <1>2, <1>4, HalfIs DEF Halfway, Directions, Ciphers
<1>6. AfterAck(opening["s2c"], final) = Rekeyed([cipher |-> "chacha", nonce |-> 2], final)
  <2>1. AfterAck(opening["s2c"], final) = Rekeyed([cipher |-> "chacha", nonce |-> 1 + 1], final)
    BY <1>2, <1>3, <1>4, AfterAckIs DEF Halfway, Directions
  <2>. QED  BY <2>1
<1>7. sealing'["c2s"] = opening'["c2s"] /\ sealing'["s2c"] = opening'["s2c"]
  BY <1>1, <1>3, <1>4, <1>5, <1>6 DEF Directions
<1>8. wire'["c2s"] = <<>> /\ wire'["s2c"] = <<>>
  <2>1. wire'["c2s"] = wire["c2s"] /\ wire'["s2c"] = Tail(wire["s2c"])
    BY <1>1, <1>4 DEF Directions
  <2>2. Tail(wire["s2c"]) = <<>>
    BY <1>1, <1>2, OnlyRecord DEF Halfway, Directions
  <2>. QED  BY <1>2, <2>1, <2>2 DEF Halfway
<1>9. Settled'
  BY <1>1, <1>2, <1>7, <1>8 DEF Settled
<1>. QED  BY <1>9, <1>1 DEF WithServer

\* Halves with the same keys are even, and an empty queue is in turn.
LEMMA SettledStream ==
  ASSUME Types, Settled, NEW d \in Directions
  PROVE  wire[d] = <<>> /\ Len(wire[d]) = 0 /\ Chained(d) /\ Ahead(d)
<1>1. wire[d] = <<>> /\ sealing[d] = opening[d] /\ opening[d] \in Halves
  BY DEF Settled, Directions, Types, RecordTypes
<1>. QED  BY <1>1, EmptySeq DEF Chained, Ahead, Halves

\* The stream begins with the header of the target.
LEMMA UseWithServer ==
  ASSUME IInv, peer = "server", Use
  PROVE  WithServer'
<1>. USE DEF IInv
<1>1. /\ Settled /\ serverAt = "target" /\ UNCHANGED <<serverAt, broken>>
      /\ Seal("c2s", [type |-> "target"], ~broken)
      /\ place' = "open" \/ (place' = "failed" /\ broken)
  BY DEF Handshake, WithServer, Settled, Use, Goes
<1>2. [type |-> "target"] \in Messages /\ (~broken) \in BOOLEAN /\ broken \in BOOLEAN
      /\ "c2s" \in Directions /\ "s2c" \in Directions
  BY DEF Messages, Types, StreamTypes, Directions
<1>3. Sealed("c2s", [type |-> "target"], ~broken)
  BY <1>1, <1>2, SettledStream, ServerKeys, SealChained
<1>4. wire["c2s"] = <<>> /\ Len(wire["c2s"]) = 0 /\ wire'["s2c"] = <<>> /\ Chained("s2c") /\ Ahead("s2c")
  BY <1>1, <1>2, <1>3, SettledStream DEF Sealed, Directions
<1>5. CASE place' = "failed"
  <2>1. wire'["c2s"] = <<>>
    BY <1>1, <1>3, <1>4, <1>5 DEF Sealed
  <2>2. Over'
    BY <1>1, <2>1, EmptySeq DEF Over
  <2>. QED  BY <2>2, <1>5 DEF WithServer
<1>6. CASE place' = "open"
  <2>1. Chained("s2c")' /\ Ahead("s2c")'
    BY <1>3, <1>4, SettledStream, <1>1, <1>2 DEF Sealed, Chained, Ahead, Directions
  <2>2. Chained("c2s")' /\ (~broken' => Ahead("c2s")')
    BY <1>1, <1>2, <1>3 DEF Sealed
  <2>3. wire'["c2s"] \in Seq(Records)
    BY RecordTypeStep DEF RecordTypes, Directions, Next
  <2>4. \A i \in DOMAIN wire'["c2s"] : i = 1 /\ wire'["c2s"][i].says.type = "target"
    <3>1. CASE broken
      BY <1>3, <1>4, <3>1 DEF Sealed
    <3>2. CASE ~broken
      <4>1. Len(wire'["c2s"]) = Len(wire["c2s"]) + 1 /\ wire'["c2s"][Len(wire["c2s"]) + 1].says = [type |-> "target"]
        BY <1>3, <3>2 DEF Sealed
      <4>2. Len(wire'["c2s"]) = 1 /\ wire'["c2s"][1].says = [type |-> "target"]
        BY <1>4, <4>1
      <4>. QED  BY <2>3, <4>2
    <3>. QED  BY <3>1, <3>2
  <2>5. ~broken => wire'["c2s"] # <<>>
    BY <1>3 DEF Sealed
  <2>6. \A d \in Directions : Chained(d)' /\ (~broken' => Ahead(d)')
    BY <2>1, <2>2 DEF Directions
  <2>7. \A d \in Directions : \A i \in DOMAIN wire'[d] :
          wire'[d][i].says.type = IF d = "c2s" /\ serverAt' = "target" /\ i = 1 THEN "target" ELSE "data"
    BY <1>1, <1>4, <2>4 DEF Directions
  <2>8. Streaming'
    BY <1>1, <1>4, <2>5, <2>6, <2>7 DEF Streaming
  <2>. QED  BY <2>8, <1>6 DEF WithServer
<1>. QED  BY <1>1, <1>5, <1>6

\* A record of data.
LEMMA SendWithServer ==
  ASSUME IInv, peer = "server", NEW d \in Directions, SendRecord(d)
  PROVE  WithServer'
<1>. USE DEF IInv
<1>0. WithServer /\ place \in Places /\ broken \in BOOLEAN /\ UNCHANGED <<place, serverAt, broken>>
  BY DEF Handshake, Types, StreamTypes, SendRecord, handshakeVars
<1>1. place = "open" /\ Streaming /\ (d = "s2c" => serverAt = "relay")
  BY <1>0 DEF WithServer, SendRecord, Runs, Early, Asking, Settled, Streaming, Over, Places, Directions
<1>2. PICK n \in 1..Len(writing[d]) :
        Seal(d, [type |-> "data", bytes |-> SubSeq(writing[d], 1, n)], ~broken)
  BY DEF SendRecord
<1>. DEFINE says == [type |-> "data", bytes |-> SubSeq(writing[d], 1, n)]
<1>3. says \in Messages /\ says.type = "data" /\ (~broken) \in BOOLEAN
  <2>1. SubSeq(writing[d], 1, n) \in Seq(Nat)
    BY PieceType DEF Types, StreamTypes
  <2>. QED  BY <2>1, <1>0 DEF Messages
<1>4. Sealed(d, says, ~broken)
  <2>. HIDE DEF says
  <2>1. SameKey(d) /\ Chained(d) /\ (~broken => Ahead(d))
    BY <1>1, ServerKeys DEF Streaming
  <2>2. Seal(d, says, ~broken)
    BY <1>2 DEF says
  <2>. QED  BY <1>3, <2>1, <2>2, SealChained
<1>. HIDE DEF says
<1>5. \A e \in Directions : Chained(e)' /\ (~broken' => Ahead(e)')
  <2>1. ASSUME NEW e \in Directions \ {d}  PROVE Chained(e)' /\ (~broken' => Ahead(e)')
    <3>1. wire'[e] = wire[e] /\ sealing'[e] = sealing[e] /\ UNCHANGED <<masters, opening>>
      BY <1>4, <2>1 DEF Sealed
    <3>. QED  BY <1>0, <1>1, <3>1 DEF Streaming, Chained, Ahead
  <2>2. Chained(d)' /\ (~broken' => Ahead(d)')
    BY <1>0, <1>4 DEF Sealed
  <2>. QED  BY <2>1, <2>2
<1>6. wire[d] \in Seq(Records) /\ wire'[d] \in Seq(Records) /\ Len(wire[d]) \in Nat
  BY RecordTypeStep, LenProperties DEF Types, RecordTypes, Next
<1>7. ASSUME NEW e \in Directions, NEW i \in DOMAIN wire'[e]
      PROVE  wire'[e][i].says.type = IF e = "c2s" /\ serverAt = "target" /\ i = 1 THEN "target" ELSE "data"
  <2>1. CASE wire'[e] = wire[e]
    BY <1>1, <1>7, <2>1 DEF Streaming
  <2>2. CASE e = d /\ ~broken
    <3>1. /\ Len(wire'[d]) = Len(wire[d]) + 1 /\ wire'[d][Len(wire[d]) + 1].says = says
          /\ \A j \in 1..Len(wire[d]) : wire'[d][j] = wire[d][j]
      BY <1>4, <2>2 DEF Sealed
    <3>2. CASE i \in 1..Len(wire[d])
      <4>1. i \in DOMAIN wire[d] /\ wire'[e][i] = wire[e][i]
        BY <1>6, <2>2, <3>1, <3>2
      <4>. QED  BY <1>1, <2>2, <4>1 DEF Streaming
    <3>3. CASE i = Len(wire[d]) + 1
      <4>1. e = "c2s" /\ serverAt = "target" => i # 1
        <5>1. SUFFICES ASSUME e = "c2s", serverAt = "target" PROVE wire[d] # <<>>
          BY <1>6, <3>3, EmptySeq
        <5>. QED  BY <1>1, <2>2, <5>1 DEF Streaming
      <4>. QED  BY <1>3, <2>2, <3>1, <3>3, <4>1
    <3>. QED  BY <1>6, <1>7, <2>2, <3>1, <3>2, <3>3
  <2>. QED  BY <1>0, <1>4, <2>1, <2>2 DEF Sealed
<1>8. serverAt = "target" => wire'["s2c"] = <<>>
  BY <1>1, <1>4 DEF Streaming, Sealed, Directions
<1>9. serverAt = "target" /\ ~broken => wire'["c2s"] # <<>>
  BY <1>1, <1>4 DEF Streaming, Sealed, Directions
<1>10. Streaming'
  BY <1>0, <1>1, <1>5, <1>7, <1>8, <1>9 DEF Streaming
<1>. QED  BY <1>0, <1>1, <1>10 DEF WithServer

\* A record that is read while the stream runs: the header by the server, or data.
LEMMA OpenWithServer ==
  ASSUME IInv, peer = "server", NEW d \in Directions, Open(d), Next, Streaming, place = "open",
         UNCHANGED <<place, broken>>,
         \/ serverAt' = serverAt /\ serverAt = "relay"
         \/ d = "c2s" /\ serverAt = "target" /\ serverAt' = "relay"
  PROVE  WithServer'
<1>. USE DEF IInv
<1>1. /\ Chained(d)' /\ (Ahead(d) => Ahead(d)')
      /\ Len(wire'[d]) = Len(wire[d]) - 1 /\ Len(wire[d]) \in Nat \ {0}
      /\ \A i \in 1..Len(wire'[d]) : wire'[d][i] = wire[d][i + 1]
      /\ \A e \in Directions \ {d} : wire'[e] = wire[e] /\ opening'[e] = opening[e]
      /\ UNCHANGED <<masters, sealing>>
  BY OpenChained DEF Streaming, Open
<1>2. wire[d] \in Seq(Records) /\ wire'[d] \in Seq(Records)
  BY RecordTypeStep DEF Types, RecordTypes
<1>3. \A e \in Directions : Chained(e)' /\ (~broken' => Ahead(e)')
  <2>1. ASSUME NEW e \in Directions \ {d}  PROVE Chained(e)' /\ (~broken' => Ahead(e)')
    BY <1>1 DEF Streaming, Chained, Ahead
  <2>. QED  BY <1>1, <2>1 DEF Streaming
<1>4. ASSUME NEW e \in Directions, NEW i \in DOMAIN wire'[e]
      PROVE  wire'[e][i].says.type = "data"
  <2>1. CASE e # d
    BY <1>1, <1>4, <2>1 DEF Streaming, Directions
  <2>2. CASE e = d
    <3>1. i + 1 \in DOMAIN wire[d] /\ wire'[d][i] = wire[d][i + 1] /\ i + 1 # 1
      BY <1>1, <1>2, <1>4, <2>2
    <3>. QED  BY <2>2, <3>1 DEF Streaming
  <2>. QED  BY <2>1, <2>2
<1>5. Streaming'
  BY <1>3, <1>4 DEF Streaming
<1>. QED  BY <1>5 DEF WithServer

\* A break keeps what is under way in its order.
LEMMA BreakWithServer ==
  ASSUME IInv, peer = "server", Break
  PROVE  WithServer'
<1>. USE DEF IInv
<1>1. /\ WithServer /\ UNCHANGED <<masters, sealing, opening, place, serverAt, agility>>
      /\ broken' = TRUE
  BY DEF Handshake, Break, handshakeVars
<1>2. ASSUME NEW d \in Directions
      PROVE  /\ wire[d] \in Seq(Records) /\ wire'[d] \in Seq(Records) /\ (wire[d] = <<>> => wire'[d] = <<>>)
             /\ (Len(wire[d]) <= 1 => Len(wire'[d]) <= 1)
             /\ \A i \in DOMAIN wire'[d] : i \in DOMAIN wire[d] /\ wire'[d][i] = wire[d][i]
             /\ wire'[d] # <<>> => wire[d] # <<>> /\ Head(wire'[d]) = Head(wire[d])
  <2>1. PICK n \in 0..Len(wire[d]) : Len(wire'[d]) = n /\ \A i \in 1..n : wire'[d][i] = wire[d][i]
    BY BreakTypes
  <2>2. wire[d] \in Seq(Records) /\ wire'[d] \in Seq(Records) /\ Len(wire[d]) \in Nat
    BY BreakTypes, LenProperties DEF Types, RecordTypes
  <2>3. n \in Nat /\ n <= Len(wire[d]) /\ DOMAIN wire'[d] = 1..n /\ DOMAIN wire[d] = 1..Len(wire[d])
    BY <2>1, <2>2, LenProperties
  <2>4. wire[d] = <<>> => wire'[d] = <<>>
    <3>1. SUFFICES ASSUME Len(wire[d]) = 0 PROVE Len(wire'[d]) = 0
      BY <2>2, EmptySeq
    <3>. QED  BY <2>1, <2>3, <3>1
  <2>5. Len(wire[d]) <= 1 => Len(wire'[d]) <= 1
    BY <2>1, <2>2, <2>3
  <2>6. \A i \in DOMAIN wire'[d] : i \in DOMAIN wire[d] /\ wire'[d][i] = wire[d][i]
    BY <2>1, <2>2, <2>3
  <2>7. wire'[d] # <<>> => wire[d] # <<>> /\ Head(wire'[d]) = Head(wire[d])
    <3>1. SUFFICES ASSUME wire'[d] # <<>> PROVE wire[d] # <<>> /\ Head(wire'[d]) = Head(wire[d])
      OBVIOUS
    <3>2. 1 \in DOMAIN wire'[d]
      BY <2>2, <3>1, EmptySeq
    <3>. QED  BY <2>2, <2>4, <2>6, <3>1, <3>2
  <2>. QED  BY <2>2, <2>4, <2>5, <2>6, <2>7
<1>3. \A d \in Directions : Chained(d) => Chained(d)'
  BY <1>1, <1>2 DEF Chained
<1>4. Early => Early'
  BY <1>1, <1>2, <1>3 DEF Early, Says, Directions
<1>5. Asking => Asking'
  BY <1>1, <1>2, <1>3 DEF Asking, Directions
<1>6. Halfway => Halfway'
  BY <1>1, <1>2, <1>3 DEF Halfway, Says, Directions
<1>7. Settled => Settled'
  BY <1>1, <1>2 DEF Settled, Directions
<1>8. Streaming => Streaming'
  BY SMTT(30), <1>1, <1>2, <1>3 DEF Streaming, Directions
<1>9. Over => Over'
  BY <1>1, <1>2 DEF Over, Directions
<1>. QED  BY <1>1, <1>4, <1>5, <1>6, <1>7, <1>8, <1>9 DEF WithServer

\* Every step keeps the course with the server.
LEMMA StepWithServer ==
  ASSUME IInv, peer = "server", [Next]_vars
  PROVE  WithServer'
<1>. USE DEF IInv
<1>0. WithServer /\ place \in Places
  BY DEF Handshake, Types, StreamTypes
<1>1. CASE UNCHANGED vars
  BY ZenonT(40), <1>0, <1>1
     DEF vars, recordVars, handshakeVars, WithServer, Early, Asking, Halfway, Settled, Streaming, Over,
         Chained, Ahead, Says
<1>2. CASE Silent
  BY <1>2, SilentWithServer
<1>3. CASE ServerSendsClock \/ ReceiveClock \/ SendNego \/ ServerSendsAck \/ ReceiveAck \/ Use \/ Break
  BY <1>3, ClockWithServer, ReceiveClockWithServer, NegoWithServer, AckWithServer, ReceiveAckWithServer,
     UseWithServer, BreakWithServer
<1>4. CASE \E d \in Directions : SendRecord(d)
  BY <1>4, SendWithServer
<1>5. CASE ServerReadsTarget
  <2>1. /\ serverAt = "target" /\ serverAt' = "relay" /\ Open("c2s") /\ wire["c2s"] # <<>>
        /\ UNCHANGED <<place, broken>>
    BY <1>5 DEF ServerReadsTarget, ServerGoes, Opens
  <2>2. place = "open" /\ Streaming
    BY <1>0, <2>1 DEF WithServer, Early, Asking, Halfway, Settled, Over, Places
  <2>. QED  BY <1>5, <2>1, <2>2, OpenWithServer DEF Next, Server, Directions
<1>6. ASSUME NEW d \in Directions, ReadRecord(d)  PROVE WithServer'
  <2>1. /\ Open(d) /\ Opens(d) /\ Listens(d) /\ UNCHANGED <<place, serverAt, broken>>
    BY <1>6 DEF ReadRecord, handshakeVars
  <2>2. place = "open" /\ Streaming
    BY <1>0, <2>1, StreamData DEF WithServer
  <2>3. serverAt = "relay"
    BY <2>1, <2>2 DEF Streaming, Listens, Opens, Directions
  <2>. QED  BY <1>6, <2>1, <2>2, <2>3, OpenWithServer DEF Next
<1>. QED  BY <1>1, <1>2, <1>3, <1>4, <1>5, <1>6 DEF Next, Client, Server, Silent

\* Every step with somebody else leaves the client outside the pool.
LEMMA StepWithOthers ==
  ASSUME IInv, peer # "server", [Next]_vars
  PROVE  WithOthers'
<1>. USE DEF IInv
<1>0. /\ WithOthers /\ wire["c2s"] = <<>> /\ wire["s2c"] \in Seq(Records) /\ wire \in [Directions -> Seq(Records)]
  BY DEF Handshake, WithOthers, Types, RecordTypes, Directions
<1>1. ~Opens("s2c") /\ ~Opens("c2s")
  <2>1. wire["s2c"] # <<>> => Head(wire["s2c"]).pair[1][1] = "theirs"
    BY <1>0 DEF WithOthers
  <2>2. OpenPair("s2c")[1][1] = "ours"
    BY DEF OpenPair, ExpandKey, Types, RecordTypes
  <2>. QED  BY <1>0, <2>1, <2>2 DEF Opens
<1>2. CASE UNCHANGED vars \/ Silent
  <2>1. UNCHANGED wire
    BY <1>2, SilentKeeps DEF vars, recordVars
  <2>2. place' \in {"connect", "hello", "flight", "tail", "sync", "failed"} /\ serverAt' # "relay"
    BY <1>0, <1>2
       DEF WithOthers, vars, handshakeVars, Silent, Connected, ConnectFails, NoAddress, Hello, ReadFlight, FlightFails,
           SendTail, ReceiveFails, SendFails, TimesOut, AfterTimeout, Discard, PollWrite, PollRead, Goes, Fails
  <2>. QED  BY <1>0, <2>1, <2>2 DEF WithOthers
<1>3. CASE ServerSendsClock
  <2>. DEFINE rec == [pair |-> SealPair("s2c"), says |-> [type |-> "clock", agility |-> agility]]
  <2>1. place' = place /\ serverAt' # "relay" /\ (wire' = wire \/ wire' = [wire EXCEPT !["s2c"] = Append(wire["s2c"], rec)])
    BY <1>3 DEF ServerSendsClock, ServerGoes, Seal
  <2>2. SealPair("s2c") \in Pairs /\ SealPair("s2c")[1][1] = "theirs"
    BY DEF SealPair, Pairs, ExpandKey, Types, RecordTypes, Halves, Directions
  <2>3. rec \in Records /\ rec.pair[1][1] = "theirs"
    BY <2>2 DEF Records, Messages, Types, StreamTypes
  <2>. HIDE DEF rec
  <2>4. CASE wire' = wire
    BY <1>0, <2>1, <2>4 DEF WithOthers
  <2>5. CASE wire' = [wire EXCEPT !["s2c"] = Append(wire["s2c"], rec)]
    <3>1. wire'["c2s"] = wire["c2s"] /\ wire'["s2c"] = Append(wire["s2c"], rec)
      BY <1>0, <2>5 DEF Directions
    <3>2. \A i \in DOMAIN wire'["s2c"] : (i \in DOMAIN wire["s2c"] /\ wire'["s2c"][i] = wire["s2c"][i]) \/ wire'["s2c"][i] = rec
      BY <1>0, <2>3, <3>1, AppendProperties
    <3>. QED  BY <1>0, <2>1, <2>3, <3>1, <3>2 DEF WithOthers
  <2>. QED  BY <2>1, <2>4, <2>5
<1>4. CASE Break
  <2>1. UNCHANGED <<place, serverAt>>
    BY <1>4 DEF Break, handshakeVars
  <2>2. wire'["c2s"] = <<>>
    <3>1. PICK n \in 0..Len(wire["c2s"]) : wire'["c2s"] = SubSeq(wire["c2s"], 1, n) /\ Len(wire'["c2s"]) = n
      BY <1>4, BreakTypes DEF Directions
    <3>2. Len(wire'["c2s"]) = 0 /\ wire'["c2s"] \in Seq(Records)
      BY <1>0, <1>4, <3>1, BreakTypes, EmptySeq DEF RecordTypes, Directions
    <3>. QED  BY <3>2, EmptySeq
  <2>3. \A i \in DOMAIN wire'["s2c"] : i \in DOMAIN wire["s2c"] /\ wire'["s2c"][i] = wire["s2c"][i]
    <3>1. PICK n \in 0..Len(wire["s2c"]) : Len(wire'["s2c"]) = n /\ \A i \in 1..n : wire'["s2c"][i] = wire["s2c"][i]
      BY <1>4, BreakTypes DEF Directions
    <3>2. wire'["s2c"] \in Seq(Records)
      BY <1>4, BreakTypes DEF RecordTypes, Directions
    <3>. QED  BY <1>0, <3>1, <3>2
  <2>. QED  BY <1>0, <2>1, <2>2, <2>3 DEF WithOthers
<1>5. ~(ReceiveClock \/ SendNego \/ ReceiveAck \/ ServerSendsAck \/ Use \/ ServerReadsTarget)
  BY <1>0, <1>1 DEF WithOthers, ReceiveClock, SendNego, ReceiveAck, ServerSendsAck, Use, ServerReadsTarget
<1>6. ~(\E d \in Directions : SendRecord(d) \/ ReadRecord(d))
  BY <1>0, <1>1 DEF WithOthers, SendRecord, Runs, ReadRecord, Directions
<1>. QED  BY <1>2, <1>3, <1>4, <1>5, <1>6 DEF Next, Client, Server, Silent

-----------------------------------------------------------------------------
(* The theorems. *)

\* The course is kept, whoever is at the other end.
LEMMA HandshakeStep ==
  ASSUME IInv, [Next]_vars
  PROVE  Handshake'
<1>1. UNCHANGED peer
  BY DEF Next, Client, Server, vars, handshakeVars, Connected, ConnectFails, NoAddress, Hello, ReadFlight, FlightFails,
         SendTail, ReceiveFails, ReceiveClock, SendNego, ReceiveAck, SendFails, TimesOut, ServerSendsClock, ServerSendsAck,
         ServerReadsTarget, Discard, Use, Break, PollWrite, SendRecord, ReadRecord, PollRead, Goes, ServerGoes, Fails
<1>. QED  BY <1>1, StepWithServer, StepWithOthers DEF Handshake

\* The invariant holds at first.
LEMMA InitInv == Init => IInv
<1>. SUFFICES ASSUME Init PROVE IInv
  OBVIOUS
<1>1. RecordTypes
  BY EmptySeq DEF Init, RecordInit, RecordTypes, Directions, Masters, Halves, Ciphers
<1>2. StreamTypes
  BY EmptySeq DEF Init, StreamTypes, Directions, Places, ServerPlaces
<1>3. UsedBelow
  BY DEF Init, RecordInit, UsedBelow
<1>4. WithServer
  BY EmptySeq DEF Init, RecordInit, WithServer, Early, At, Chained, Directions
<1>5. WithOthers
  BY EmptySeq DEF Init, RecordInit, WithOthers, Directions
<1>. QED  BY <1>1, <1>2, <1>3, <1>4, <1>5 DEF IInv, Types, Handshake

\* The types, the used pairs and the course of the handshake, in every state.
THEOREM InvariantHolds == Spec => []IInv
<1>1. IInv /\ [Next]_vars => IInv'
  BY RecordTypeStep, StreamTypeStep, NonceStep, HandshakeStep DEF IInv, Types
<1>. QED  BY InitInv, <1>1, PTL DEF Spec

\* In the pool and in use, an invariant tunnel is sound.
LEMMA InvSound == IInv => TunnelSound
<1>. SUFFICES ASSUME IInv PROVE TunnelSound
  OBVIOUS
<1>1. Authentic
  BY DEF IInv, Handshake, WithOthers, Authentic
<1>2. ASSUME place \in {"ready", "open"}, NEW d \in Directions  PROVE Chained(d)
  <2>1. (place = "ready" /\ Settled) \/ (place = "open" /\ Streaming)
    BY <1>1, <1>2 DEF Authentic, IInv, Handshake, WithServer
  <2>. QED  BY <2>1, SettledStream DEF Streaming, IInv
<1>3. InStep
  BY <1>2 DEF InStep, Chained
<1>. QED  BY <1>1, <1>3 DEF TunnelSound, NonceOnce, IInv, UsedBelow

\* Only a server with the same master key gets into the pool, its records open
\* in their turn, and no key seals two records with one nonce, for any number of
\* bytes and addresses and whatever a foreign site answers.
THEOREM TunnelsAreSound == Spec => []TunnelSound
BY InvariantHolds, InvSound, PTL

-----------------------------------------------------------------------------
(* The stream over a tunnel implements BytePipe, for any number of bytes:   *)
(* every byte that was accepted has its place, in what is delivered, in the *)
(* rest of the last frame, in a record under way, or in the writer.         *)

\* No byte has been written in a direction.
Quiet(d) ==
  /\ accepted[d] = 0 /\ writing[d] = <<>> /\ reading[d] = <<>> /\ delivered[d] = <<>>
  /\ \A i \in DOMAIN wire[d] : wire[d][i].says.type # "data"

\* The numbers that come after from, one by one.
Counts(bytes, from) == \A i \in DOMAIN bytes : bytes[i] = from + i

\* What a record under way holds lies between two marks.
Holds(record, low, high) ==
  IF record.says.type = "data"
  THEN high = low + Len(record.says.bytes) /\ Counts(record.says.bytes, low)
  ELSE high = low

\* Where each record under way begins and ends.
Marks(d, mark) ==
  /\ mark \in [0..Len(wire[d]) -> 0..accepted[d]]
  /\ mark[0] = Len(delivered[d]) + Len(reading[d])
  /\ \A i \in DOMAIN wire[d] : Holds(wire[d][i], mark[i - 1], mark[i])
  /\ \A i \in 0..Len(wire[d]) : mark[i] + Len(writing[d]) <= accepted[d]
  /\ ~broken => mark[Len(wire[d])] + Len(writing[d]) = accepted[d]

\* Every byte has its place.
Flowing(d) ==
  /\ Counts(delivered[d], 0) /\ Counts(reading[d], Len(delivered[d]))
  /\ Counts(writing[d], accepted[d] - Len(writing[d]))
  /\ \E mark \in [0..Len(wire[d]) -> 0..accepted[d]] : Marks(d, mark)

\* A direction is quiet until its writer runs.
Flow == \A d \in Directions : Quiet(d) \/ (Runs(d) /\ Flowing(d))

\* The invariant of the stream.
PipeInv == IInv /\ Flow

-----------------------------------------------------------------------------
(* What the steps do to the bytes. *)

\* A quiet direction flows: all its marks are zero.
LEMMA QuietFlows ==
  ASSUME Types, NEW d \in Directions, Quiet(d)
  PROVE  Flowing(d)
<1>. DEFINE zero == [i \in 0..Len(wire[d]) |-> 0]
<1>1. wire[d] \in Seq(Records) /\ Len(wire[d]) \in Nat
  BY LenProperties DEF Types, RecordTypes
<1>2. zero \in [0..Len(wire[d]) -> 0..accepted[d]] /\ \A i \in 0..Len(wire[d]) : zero[i] = 0
  BY <1>1 DEF Quiet
<1>. HIDE DEF zero
<1>3. Len(delivered[d]) = 0 /\ Len(reading[d]) = 0 /\ Len(writing[d]) = 0 /\ accepted[d] = 0
  BY EmptySeq DEF Quiet
<1>4. \A i \in DOMAIN wire[d] : Holds(wire[d][i], zero[i - 1], zero[i])
  BY <1>1, <1>2 DEF Quiet, Holds
<1>5. Marks(d, zero)
  BY <1>1, <1>2, <1>3, <1>4 DEF Marks
<1>6. Counts(delivered[d], 0) /\ Counts(reading[d], Len(delivered[d])) /\ Counts(writing[d], accepted[d] - Len(writing[d]))
  BY EmptySeq DEF Quiet, Counts
<1>. QED  BY <1>2, <1>5, <1>6 DEF Flowing

\* A direction that nothing touches stays as it is.
LEMMA UntouchedFlows ==
  ASSUME NEW d \in Directions, UNCHANGED <<wire[d], accepted[d], writing[d], reading[d], delivered[d]>>,
         broken => broken'
  PROVE  (Quiet(d) => Quiet(d)') /\ (Flowing(d) => Flowing(d)')
BY DEF Quiet, Flowing, Marks

\* Records that are not of data leave a direction quiet.
LEMMA QuietKeeps ==
  ASSUME NEW d \in Directions, Quiet(d), UNCHANGED <<accepted[d], writing[d], reading[d], delivered[d]>>,
         \A i \in DOMAIN wire'[d] :
           wire'[d][i].says.type # "data" \/ \E j \in DOMAIN wire[d] : wire'[d][i] = wire[d][j]
  PROVE  Quiet(d)'
BY DEF Quiet

\* The marks hold on a stretch of the records under way: all of them, or what a
\* break leaves.
LEMMA BreakFlows ==
  ASSUME Types, NEW d \in Directions, Break, Flowing(d)
  PROVE  Flowing(d)'
<1>1. PICK n \in 0..Len(wire[d]) : Len(wire'[d]) = n /\ \A i \in 1..n : wire'[d][i] = wire[d][i]
  BY BreakTypes
<1>2. /\ wire[d] \in Seq(Records) /\ wire'[d] \in Seq(Records) /\ Len(wire[d]) \in Nat
      /\ accepted[d] \in Nat /\ Len(writing[d]) \in Nat
  BY BreakTypes, LenProperties DEF Types, RecordTypes, StreamTypes
<1>3. UNCHANGED <<accepted, writing, reading, delivered>> /\ broken'
  BY DEF Break, streamVars
<1>4. PICK mark \in [0..Len(wire[d]) -> 0..accepted[d]] : Marks(d, mark)
  BY DEF Flowing
<1>. DEFINE left == [i \in 0..n |-> mark[i]]
<1>5. left \in [0..Len(wire'[d]) -> 0..accepted'[d]] /\ \A i \in 0..n : left[i] = mark[i]
  <2>1. \A i \in 0..n : mark[i] \in 0..accepted[d]
    BY <1>2
  <2>2. left \in [0..n -> 0..accepted[d]]
    BY <2>1
  <2>. QED  BY <1>1, <1>3, <2>2
<1>. HIDE DEF left
<1>6. mark[0] = Len(delivered[d]) + Len(reading[d]) /\ left[0] = mark[0]
  <2>1. mark[0] = Len(delivered[d]) + Len(reading[d])
    BY <1>4 DEF Marks
  <2>2. 0 \in 0..n
    BY <1>2
  <2>. QED  BY <1>5, <2>1, <2>2
<1>7. \A i \in DOMAIN wire'[d] : Holds(wire'[d][i], left[i - 1], left[i])
  <2>1. ASSUME NEW i \in 1..n  PROVE Holds(wire'[d][i], left[i - 1], left[i])
    <3>1. i \in DOMAIN wire[d] /\ i \in 0..n /\ i - 1 \in 0..n
      BY <1>1, <1>2
    <3>2. Holds(wire[d][i], mark[i - 1], mark[i])
      BY <1>4, <3>1 DEF Marks
    <3>. QED  BY <1>1, <1>5, <3>1, <3>2
  <2>. QED  BY <1>1, <1>2, <2>1
<1>8. \A i \in 0..n : left[i] + Len(writing[d]) <= accepted[d]
  BY <1>2, <1>4, <1>5 DEF Marks
<1>. QED  BY <1>1, <1>3, <1>5, <1>6, <1>7, <1>8 DEF Flowing, Marks

\* A write puts the new bytes into the writer.
LEMMA WriteFlows ==
  ASSUME Types, NEW d \in Directions, PollWrite(d), Flowing(d)
  PROVE  Flowing(d)'
<1>1. PICK n \in 1..(Bytes - accepted[d]) :
        /\ accepted' = [accepted EXCEPT ![d] = accepted[d] + n]
        /\ writing' = [writing EXCEPT ![d] = [i \in 1..n |-> accepted[d] + i]]
  BY DEF PollWrite
<1>2. /\ writing[d] = <<>> /\ Len(writing[d]) = 0 /\ UNCHANGED <<wire, reading, delivered, broken>>
      /\ accepted[d] \in Nat /\ n \in Nat \ {0}
  BY TunnelAssumption, EmptySeq DEF PollWrite, recordVars, Types, StreamTypes
<1>3. accepted'[d] = accepted[d] + n /\ writing'[d] = [i \in 1..n |-> accepted[d] + i]
  BY <1>1 DEF Types, StreamTypes
<1>4. Len(writing'[d]) = n /\ Counts(writing'[d], accepted[d])
  <2>1. writing'[d] \in Seq(Nat)
    BY <1>2, <1>3, IsASeq
  <2>2. DOMAIN writing'[d] = 1..n
    BY <1>3
  <2>3. Len(writing'[d]) = n
    BY <1>2, <2>1, <2>2, LenProperties
  <2>. QED  BY <2>2, <2>3, <1>3 DEF Counts
<1>5. PICK mark \in [0..Len(wire[d]) -> 0..accepted[d]] : Marks(d, mark)
  BY DEF Flowing
<1>6. Len(wire[d]) \in Nat
  BY LenProperties DEF Types, RecordTypes
<1>7. \A i \in 0..Len(wire[d]) : mark[i] \in Nat /\ mark[i] <= accepted[d]
  BY <1>2
<1>8. mark \in [0..Len(wire[d]) -> 0..accepted'[d]]
  BY <1>2, <1>3, <1>7
<1>9. /\ \A i \in 0..Len(wire[d]) : mark[i] + Len(writing'[d]) <= accepted'[d]
      /\ ~broken => mark[Len(wire[d])] + Len(writing'[d]) = accepted'[d]
  BY <1>2, <1>3, <1>4, <1>5, <1>6, <1>7 DEF Marks
<1>10. accepted'[d] - Len(writing'[d]) = accepted[d]
  BY <1>2, <1>3, <1>4
<1>. QED  BY <1>2, <1>4, <1>5, <1>8, <1>9, <1>10 DEF Flowing, Marks

\* A record takes the first bytes of the writer, or none arrives any more.
LEMMA SendFlows ==
  ASSUME Types, NEW d \in Directions, SendRecord(d), Flowing(d)
  PROVE  Flowing(d)'
<1>1. PICK n \in 1..Len(writing[d]) :
        /\ Seal(d, [type |-> "data", bytes |-> SubSeq(writing[d], 1, n)], ~broken)
        /\ writing' = [writing EXCEPT ![d] = IF broken THEN <<>> ELSE SubSeq(writing[d], n + 1, Len(writing[d]))]
  BY DEF SendRecord
<1>. DEFINE says == [type |-> "data", bytes |-> SubSeq(writing[d], 1, n)]
            rec == [pair |-> SealPair(d), says |-> says]
<1>2. /\ UNCHANGED <<accepted, reading, delivered, broken>> /\ broken \in BOOLEAN
      /\ wire' = IF ~broken THEN [wire EXCEPT ![d] = Append(wire[d], rec)] ELSE wire
  BY <1>1 DEF SendRecord, Seal, Types, StreamTypes
<1>3. /\ accepted[d] \in Nat /\ wire[d] \in Seq(Records) /\ Len(wire[d]) \in Nat /\ writing[d] \in Seq(Nat)
      /\ Len(writing[d]) \in Nat /\ n \in Nat \ {0} /\ n <= Len(writing[d]) /\ wire \in [Directions -> Seq(Records)]
  <2>1. /\ accepted[d] \in Nat /\ wire[d] \in Seq(Records) /\ writing[d] \in Seq(Nat)
        /\ wire \in [Directions -> Seq(Records)]
    BY DEF Types, RecordTypes, StreamTypes
  <2>. QED  BY <2>1, LenProperties
<1>4. PICK mark \in [0..Len(wire[d]) -> 0..accepted[d]] : Marks(d, mark)
  BY DEF Flowing
<1>5. \A i \in DOMAIN writing[d] : writing[d][i] = accepted[d] - Len(writing[d]) + i
  BY DEF Flowing, Counts
<1>6. CASE broken
  <2>1. writing'[d] = <<>> /\ Len(writing'[d]) = 0 /\ wire'[d] = wire[d]
    BY <1>1, <1>2, <1>3, <1>6, EmptySeq DEF Types, StreamTypes
  <2>2. \A i \in 0..Len(wire[d]) : mark[i] + Len(writing'[d]) <= accepted[d]
    BY <1>3, <2>1
  <2>3. Counts(writing'[d], accepted'[d] - Len(writing'[d]))
    BY <2>1, EmptySeq DEF Counts
  <2>. QED  BY <1>2, <1>4, <1>6, <2>1, <2>2, <2>3 DEF Flowing, Marks
<1>7. CASE ~broken
  <2>. DEFINE len == Len(wire[d])
  <2>1. writing'[d] = SubSeq(writing[d], n + 1, Len(writing[d])) /\ wire'[d] = Append(wire[d], rec)
    BY <1>1, <1>2, <1>3, <1>7 DEF Types, StreamTypes
  <2>2. mark[len] \in Nat /\ mark[len] + Len(writing[d]) = accepted[d]
    BY <1>3, <1>4, <1>7 DEF Marks
  <2>3. /\ Len(SubSeq(writing[d], 1, n)) = n
        /\ \A i \in 1..n : SubSeq(writing[d], 1, n)[i] = writing[d][i]
    <3>1. \A i \in 1..n : writing[d][i] \in Nat
      BY <1>3, ElementOfSeq
    <3>. QED  BY <1>3, <3>1, SubSeqProperties
  <2>4. /\ Len(writing'[d]) = Len(writing[d]) - n
        /\ \A i \in 1..(Len(writing[d]) - n) : writing'[d][i] = writing[d][n + i]
    <3>1. \A i \in (n + 1)..Len(writing[d]) : writing[d][i] \in Nat
      BY <1>3, ElementOfSeq
    <3>. QED  BY <1>3, <2>1, <3>1, SubSeqProperties
  <2>5. SubSeq(writing[d], 1, n) \in Seq(Nat)
    BY <1>3, PieceType DEF Types, StreamTypes
  <2>6. /\ Len(wire'[d]) = len + 1 /\ wire'[d][len + 1] = rec
        /\ \A i \in 1..len : wire'[d][i] = wire[d][i]
        /\ DOMAIN wire'[d] = 1..(len + 1)
    <3>1. SealPair(d) \in Pairs
      BY DEF SealPair, Pairs, ExpandKey, Types, RecordTypes, Halves
    <3>2. rec \in Records
      BY <3>1, <2>5 DEF Records, Messages
    <3>. HIDE DEF rec
    <3>. QED  BY <1>3, <2>1, <3>2, AppendProperties, LenProperties
  <2>7. Counts(writing'[d], accepted[d] - Len(writing'[d]))
    <3>1. ASSUME NEW i \in 1..(Len(writing[d]) - n)
          PROVE  writing'[d][i] = accepted[d] - Len(writing'[d]) + i
      <4>1. n + i \in DOMAIN writing[d]
        BY <1>3
      <4>2. writing'[d][i] = accepted[d] - Len(writing[d]) + (n + i)
        BY <1>5, <2>4, <4>1
      <4>. QED  BY <1>3, <2>4, <4>2
    <3>2. DOMAIN writing'[d] = 1..(Len(writing[d]) - n)
      <4>1. writing'[d] \in Seq(Nat)
        <5>1. n + 1 \in 1..(Len(writing[d]) + 1) /\ Len(writing[d]) \in 0..Len(writing[d])
          BY <1>3
        <5>. QED  BY <1>3, <2>1, <5>1, PieceType
      <4>. QED  BY <2>4, <4>1, LenProperties
    <3>. QED  BY <3>1, <3>2 DEF Counts
  <2>8. Holds(rec, mark[len], mark[len] + n)
    <3>1. ASSUME NEW i \in 1..n  PROVE SubSeq(writing[d], 1, n)[i] = mark[len] + i
      <4>1. i \in DOMAIN writing[d]
        BY <1>3
      <4>2. writing[d][i] = accepted[d] - Len(writing[d]) + i
        BY <1>5, <4>1
      <4>. QED  BY <1>3, <2>2, <2>3, <4>2
    <3>2. DOMAIN SubSeq(writing[d], 1, n) = 1..n
      BY <2>3, <2>5, LenProperties
    <3>. QED  BY <2>3, <3>1, <3>2 DEF Holds, Counts
  <2>0. /\ len \in Nat /\ 0 \in 0..len /\ len \in 0..len
        /\ 0..(len + 1) = 0..len \cup {len + 1} /\ 1..(len + 1) = 1..len \cup {len + 1}
    BY <1>3
  <2>. HIDE DEF rec, says
  <2>9. \A i \in 0..len : mark[i] \in Nat /\ mark[i] + Len(writing[d]) <= accepted[d]
    BY <1>3, <1>4 DEF Marks
  <2>10. mark[len] + n \in 0..accepted[d] /\ \A i \in 0..len : mark[i] \in 0..accepted[d]
    <3>1. accepted[d] \in Nat /\ n \in Nat /\ Len(writing[d]) \in Nat /\ n <= Len(writing[d])
      BY <1>3
    <3>2. ASSUME NEW i \in 0..len  PROVE mark[i] \in 0..accepted[d]
      BY <2>9, <3>1
    <3>3. mark[len] + n \in 0..accepted[d]
      BY <2>2, <3>1
    <3>. QED  BY <3>2, <3>3
  <2>11. PICK more \in [0..(len + 1) -> 0..accepted[d]] :
           more[len + 1] = mark[len] + n /\ \A i \in 0..len : more[i] = mark[i]
    <3>. DEFINE new == [i \in 0..(len + 1) |-> IF i = len + 1 THEN mark[len] + n ELSE mark[i]]
    <3>1. new \in [0..(len + 1) -> 0..accepted[d]]
      BY <1>3, <2>10
    <3>2. new[len + 1] = mark[len] + n /\ \A i \in 0..len : new[i] = mark[i]
      BY <1>3
    <3>. QED  BY <3>1, <3>2
  <2>12. \A i \in 0..Len(wire'[d]) : more[i] + Len(writing'[d]) <= accepted[d]
    <3>1. ASSUME NEW i \in 0..len  PROVE more[i] + Len(writing'[d]) <= accepted[d]
      <4>1. more[i] \in Nat /\ more[i] + Len(writing[d]) <= accepted[d]
        BY <2>9, <2>11
      <4>. QED  BY SMTT(30), <1>3, <2>4, <4>1
    <3>2. more[len + 1] + Len(writing'[d]) <= accepted[d]
      BY <1>3, <2>2, <2>4, <2>11
    <3>3. 0..Len(wire'[d]) = 0..len \cup {len + 1}
      BY <2>0, <2>6
    <3>. QED  BY <3>1, <3>2, <3>3
  <2>13. \A i \in DOMAIN wire'[d] : Holds(wire'[d][i], more[i - 1], more[i])
    <3>1. ASSUME NEW i \in 1..len  PROVE Holds(wire'[d][i], more[i - 1], more[i])
      <4>1. i \in DOMAIN wire[d] /\ i \in 0..len /\ i - 1 \in 0..len
        BY <1>3
      <4>2. Holds(wire[d][i], mark[i - 1], mark[i])
        BY <1>4, <4>1 DEF Marks
      <4>3. more[i - 1] = mark[i - 1] /\ more[i] = mark[i] /\ wire'[d][i] = wire[d][i]
        BY <2>6, <2>11, <4>1
      <4>. QED  BY <4>2, <4>3
    <3>2. ASSUME NEW i \in {len + 1}  PROVE Holds(wire'[d][i], more[i - 1], more[i])
      <4>1. i - 1 = len /\ more[len] = mark[len]
        BY <1>3, <2>11
      <4>. QED  BY <2>6, <2>8, <2>11, <4>1
    <3>3. DOMAIN wire'[d] = 1..len \cup {len + 1}
      BY <2>0, <2>6
    <3>. QED  BY <3>1, <3>2, <3>3
  <2>14. more[0] = Len(delivered'[d]) + Len(reading'[d])
    <3>1. mark[0] = Len(delivered[d]) + Len(reading[d])
      BY <1>4 DEF Marks
    <3>2. more[0] = mark[0]
      BY <2>0, <2>11
    <3>. QED  BY <1>2, <3>1, <3>2
  <2>15. more[Len(wire'[d])] + Len(writing'[d]) = accepted'[d]
    BY SMTT(30), <1>2, <1>3, <2>2, <2>4, <2>6, <2>11
  <2>16. Len(wire'[d]) = len + 1 /\ accepted' = accepted
    BY <1>2, <2>6
  <2>17. Marks(d, more)'
    BY <2>12, <2>13, <2>14, <2>15, <2>16 DEF Marks
  <2>18. Counts(delivered[d], 0) /\ Counts(reading[d], Len(delivered[d]))
    BY DEF Flowing
  <2>. QED  BY <1>2, <2>7, <2>16, <2>17, <2>18 DEF Flowing
<1>. QED  BY <1>2, <1>6, <1>7

\* When a record is opened, the marks of the others move up.
LEMMA OpenMarks ==
  ASSUME Types, NEW d \in Directions, Open(d), UNCHANGED <<accepted, writing, delivered, broken>>,
         NEW mark \in [0..Len(wire[d]) -> 0..accepted[d]], Marks(d, mark),
         Len(delivered'[d]) + Len(reading'[d]) = mark[1]
  PROVE  \E more \in [0..Len(wire'[d]) -> 0..accepted'[d]] : Marks(d, more)'
<1>. DEFINE len == Len(wire[d])
<1>1. wire[d] \in Seq(Records) /\ wire \in [Directions -> Seq(Records)] /\ wire[d] # <<>>
  BY DEF Types, RecordTypes, Open
<1>2. len \in Nat \ {0}
  BY <1>1, EmptySeq, LenProperties
<1>3. wire'[d] = Tail(wire[d])
  BY <1>1 DEF Open
<1>4. Len(wire'[d]) = len - 1 /\ DOMAIN wire'[d] = 1..(len - 1) /\ \A i \in 1..(len - 1) : wire'[d][i] = wire[d][i + 1]
  BY <1>1, <1>3, HeadTailProperties, LenProperties
<1>5. DOMAIN wire[d] = 1..len
  BY <1>1, LenProperties
<1>. HIDE DEF len
<1>6. \A i \in 0..(len - 1) : i + 1 \in 0..len
  BY <1>2
<1>7. PICK more \in [0..(len - 1) -> 0..accepted[d]] : \A i \in 0..(len - 1) : more[i] = mark[i + 1]
  <2>. DEFINE new == [i \in 0..(len - 1) |-> mark[i + 1]]
  <2>1. new \in [0..(len - 1) -> 0..accepted[d]]
    <3>1. \A i \in 0..(len - 1) : mark[i + 1] \in 0..accepted[d]
      BY <1>6 DEF len
    <3>. QED  BY <3>1
  <2>. QED  BY <2>1
<1>8. more[0] = mark[1] /\ more[len - 1] = mark[len]
  <2>1. 0 \in 0..(len - 1) /\ len - 1 \in 0..(len - 1) /\ 0 + 1 = 1 /\ len - 1 + 1 = len
    BY <1>2
  <2>. QED  BY <1>7, <2>1
<1>9. ASSUME NEW i \in 1..(len - 1)  PROVE Holds(wire'[d][i], more[i - 1], more[i])
  <2>1. i + 1 \in 1..len /\ i - 1 \in 0..(len - 1) /\ i \in 0..(len - 1) /\ i + 1 - 1 = i /\ i - 1 + 1 = i
    BY <1>2
  <2>2. Holds(wire[d][i + 1], mark[i], mark[i + 1])
    <3>1. \A j \in 1..len : Holds(wire[d][j], mark[j - 1], mark[j])
      BY <1>5 DEF Marks
    <3>2. Holds(wire[d][i + 1], mark[i + 1 - 1], mark[i + 1])
      BY <2>1, <3>1
    <3>. QED  BY <2>1, <3>2
  <2>3. more[i - 1] = mark[i] /\ more[i] = mark[i + 1] /\ wire'[d][i] = wire[d][i + 1]
    BY <1>4, <1>7, <2>1
  <2>. QED  BY <2>1, <2>2, <2>3
<1>10. ASSUME NEW i \in 0..(len - 1)  PROVE more[i] + Len(writing[d]) <= accepted[d]
  <2>1. mark[i + 1] + Len(writing[d]) <= accepted[d]
    BY <1>6 DEF Marks, len
  <2>. QED  BY <1>7, <2>1
<1>11. ~broken => more[len - 1] + Len(writing[d]) = accepted[d]
  BY <1>8 DEF Marks, len
<1>12. Marks(d, more)'
  BY <1>4, <1>7, <1>8, <1>9, <1>10, <1>11 DEF Marks
<1>. QED  BY <1>4, <1>7, <1>12

\* A frame of data becomes what is read next.
LEMMA ReadFlows ==
  ASSUME IInv, NEW d \in Directions, ReadRecord(d), Flowing(d)
  PROVE  Flowing(d)'
<1>1. /\ reading[d] = <<>> /\ Open(d) /\ wire[d] # <<>> /\ UNCHANGED <<writing, accepted, delivered, broken>>
      /\ reading' = [reading EXCEPT ![d] = Says(d).bytes]
  BY DEF ReadRecord, Opens
<1>2. Says(d).type = "data" /\ Says(d).bytes \in Seq(Nat)
  BY StreamData DEF ReadRecord, IInv
<1>3. reading'[d] = Says(d).bytes /\ wire[d] \in Seq(Records) /\ Types
  BY <1>1 DEF IInv, Types, StreamTypes, RecordTypes
<1>4. PICK mark \in [0..Len(wire[d]) -> 0..accepted[d]] : Marks(d, mark)
  BY DEF Flowing
<1>5. 1 \in DOMAIN wire[d] /\ wire[d][1].says = Says(d)
  <2>1. Head(wire[d]) = wire[d][1] /\ 1 \in DOMAIN wire[d]
    BY <1>1, <1>3, HeadTailProperties
  <2>. QED  BY <2>1 DEF Says
<1>6. Holds(wire[d][1], mark[0], mark[1])
  <2>1. Holds(wire[d][1], mark[1 - 1], mark[1])
    BY <1>4, <1>5 DEF Marks
  <2>. QED  BY <2>1
<1>7. mark[1] = mark[0] + Len(reading'[d]) /\ Counts(reading'[d], mark[0])
  BY <1>2, <1>3, <1>5, <1>6 DEF Holds
<1>8. mark[0] = Len(delivered[d])
  <2>1. mark[0] = Len(delivered[d]) + Len(reading[d]) /\ Len(reading[d]) = 0
    BY <1>1, <1>4, EmptySeq DEF Marks
  <2>2. Len(delivered[d]) \in Nat
    BY <1>3, LenProperties DEF Types, StreamTypes
  <2>. QED  BY <2>1, <2>2
<1>9. Len(delivered'[d]) + Len(reading'[d]) = mark[1]
  BY <1>1, <1>7, <1>8
<1>10. \E more \in [0..Len(wire'[d]) -> 0..accepted'[d]] : Marks(d, more)'
  BY <1>1, <1>3, <1>4, <1>9, OpenMarks
<1>. QED  BY <1>1, <1>7, <1>8, <1>10 DEF Flowing

\* The header of the target is no byte of the stream.
LEMMA TargetFlows ==
  ASSUME IInv, ServerReadsTarget, place = "open", peer = "server", Flowing("c2s")
  PROVE  Flowing("c2s")'
<1>. DEFINE d == "c2s"
<1>1. /\ Open(d) /\ wire[d] # <<>> /\ UNCHANGED <<writing, reading, accepted, delivered, broken>>
      /\ serverAt = "target" /\ d \in Directions
  BY DEF ServerReadsTarget, Opens, streamVars, Directions
<1>2. wire[d] \in Seq(Records) /\ Types /\ Streaming
  BY <1>1 DEF IInv, Types, RecordTypes, Handshake, WithServer
<1>3. 1 \in DOMAIN wire[d]
  BY <1>1, <1>2, EmptySeq
<1>4. wire[d][1].says.type = "target"
  BY <1>1, <1>2, <1>3 DEF Streaming
<1>5. PICK mark \in [0..Len(wire[d]) -> 0..accepted[d]] : Marks(d, mark)
  BY DEF Flowing
<1>6. mark[1] = mark[0]
  <2>1. Holds(wire[d][1], mark[1 - 1], mark[1])
    BY <1>3, <1>5 DEF Marks
  <2>. QED  BY <1>4, <2>1 DEF Holds
<1>7. Len(delivered'[d]) + Len(reading'[d]) = mark[1]
  BY <1>1, <1>5, <1>6 DEF Marks
<1>8. \E more \in [0..Len(wire'[d]) -> 0..accepted'[d]] : Marks(d, more)'
  BY <1>1, <1>2, <1>5, <1>7, OpenMarks
<1>. QED  BY <1>1, <1>8 DEF Flowing

\* The first of the bytes that are left join those that were read.
LEMMA Taken ==
  ASSUME NEW old \in Seq(Nat), NEW rest \in Seq(Nat), NEW n \in 1..Len(rest),
         Counts(old, 0), Counts(rest, Len(old))
  PROVE  /\ old \o SubSeq(rest, 1, n) = [i \in 1..(Len(old) + n) |-> i]
         /\ Len(old \o SubSeq(rest, 1, n)) = Len(old) + n
         /\ Len(Rest(rest, n)) = Len(rest) - n /\ Counts(Rest(rest, n), Len(old) + n)
<1>. DEFINE piece == SubSeq(rest, 1, n)
            read == old \o SubSeq(rest, 1, n)
            left == SubSeq(rest, n + 1, Len(rest))
<1>1. Len(old) \in Nat /\ Len(rest) \in Nat /\ n \in Nat \ {0} /\ n <= Len(rest)
  BY LenProperties
<1>2. DOMAIN old = 1..Len(old) /\ DOMAIN rest = 1..Len(rest)
  BY LenProperties
<1>3. (\A i \in 1..Len(old) : old[i] = i) /\ (\A i \in 1..Len(rest) : rest[i] = Len(old) + i)
  <2>1. \A i \in 1..Len(old) : old[i] = 0 + i
    BY <1>2 DEF Counts
  <2>2. \A i \in 1..Len(old) : 0 + i = i
    BY <1>1
  <2>3. \A i \in 1..Len(rest) : rest[i] = Len(old) + i
    BY <1>2 DEF Counts
  <2>. QED  BY <2>1, <2>2, <2>3
<1>4. Len(piece) = n /\ piece \in Seq(Nat) /\ \A i \in 1..n : piece[i] = rest[i]
  <2>1. \A i \in 1..n : rest[i] \in Nat
    BY <1>1, <1>2, ElementOfSeq
  <2>2. piece \in Seq(Nat)
    BY <1>1, PieceType
  <2>. QED  BY <1>1, <2>1, <2>2, SubSeqProperties
<1>5. left \in Seq(Nat) /\ Len(left) = Len(rest) - n /\ \A i \in 1..(Len(rest) - n) : left[i] = rest[n + i]
  <2>1. \A i \in (n + 1)..Len(rest) : rest[i] \in Nat
    <3>1. (n + 1)..Len(rest) \subseteq DOMAIN rest
      BY <1>1, <1>2
    <3>. QED  BY <3>1, ElementOfSeq
  <2>2. left \in Seq(Nat)
    <3>1. n + 1 \in 1..(Len(rest) + 1) /\ Len(rest) \in 0..Len(rest)
      BY <1>1
    <3>. QED  BY <3>1, PieceType
  <2>. QED  BY <1>1, <2>1, <2>2, SubSeqProperties
<1>6. /\ read \in Seq(Nat) /\ Len(read) = Len(old) + n
      /\ \A i \in 1..(Len(old) + n) : read[i] = IF i <= Len(old) THEN old[i] ELSE piece[i - Len(old)]
  BY SMTT(30), <1>1, <1>4, ConcatProperties
<1>. HIDE DEF piece, read, left
<1>7. ASSUME NEW i \in 1..(Len(old) + n)  PROVE read[i] = i
  <2>1. CASE i <= Len(old)
    <3>1. i \in 1..Len(old)
      BY <1>1, <2>1
    <3>. QED  BY <1>3, <1>6, <2>1, <3>1
  <2>2. CASE ~(i <= Len(old))
    <3>1. i - Len(old) \in 1..n /\ i - Len(old) \in 1..Len(rest) /\ Len(old) + (i - Len(old)) = i
      BY <1>1, <2>2
    <3>2. read[i] = piece[i - Len(old)]
      BY <1>6, <2>2
    <3>3. piece[i - Len(old)] = rest[i - Len(old)]
      BY <1>4, <3>1
    <3>4. rest[i - Len(old)] = Len(old) + (i - Len(old))
      BY <1>3, <3>1
    <3>. QED  BY <3>1, <3>2, <3>3, <3>4
  <2>. QED  BY <2>1, <2>2
<1>8. read = [i \in 1..(Len(old) + n) |-> i]
  <2>1. DOMAIN read = 1..(Len(old) + n)
    BY <1>6, LenProperties
  <2>2. read = [i \in 1..(Len(old) + n) |-> read[i]]
    BY <1>6, <2>1
  <2>. QED  BY <1>7, <2>2
<1>9. Counts(left, Len(old) + n)
  <2>1. DOMAIN left = 1..(Len(rest) - n)
    BY <1>5, LenProperties
  <2>2. ASSUME NEW i \in 1..(Len(rest) - n)  PROVE left[i] = Len(old) + n + i
    <3>1. n + i \in 1..Len(rest) /\ Len(old) + (n + i) = Len(old) + n + i
      BY <1>1
    <3>. QED  BY <1>3, <1>5, <3>1
  <2>. QED  BY <2>1, <2>2 DEF Counts
<1>. QED  BY <1>5, <1>6, <1>8, <1>9 DEF read, left, Rest

\* A read takes the first bytes of what is left of the frame.
LEMMA PollReadFlows ==
  ASSUME Types, NEW d \in Directions, PollRead(d), Flowing(d)
  PROVE  /\ Flowing(d)'
         /\ \E n \in Nat \ {0} :
              /\ Len(delivered[d]) + n <= accepted[d]
              /\ delivered' = [delivered EXCEPT ![d] = [i \in 1..(Len(delivered[d]) + n) |-> i]]
<1>1. PICK n \in 1..Len(reading[d]) :
        /\ delivered' = [delivered EXCEPT ![d] = delivered[d] \o SubSeq(reading[d], 1, n)]
        /\ reading' = [reading EXCEPT ![d] = Rest(reading[d], n)]
  BY DEF PollRead
<1>2. /\ delivered[d] \in Seq(Nat) /\ reading[d] \in Seq(Nat) /\ UNCHANGED <<wire, accepted, writing, broken>>
      /\ accepted[d] \in Nat
  BY DEF PollRead, recordVars, Types, StreamTypes
<1>3. /\ delivered'[d] = delivered[d] \o SubSeq(reading[d], 1, n)
      /\ reading'[d] = Rest(reading[d], n)
  BY <1>1 DEF Types, StreamTypes
<1>4. Counts(delivered[d], 0) /\ Counts(reading[d], Len(delivered[d])) /\ Counts(writing[d], accepted[d] - Len(writing[d]))
  BY DEF Flowing
<1>5. /\ delivered'[d] = [i \in 1..(Len(delivered[d]) + n) |-> i]
      /\ Len(delivered'[d]) = Len(delivered[d]) + n
      /\ Len(reading'[d]) = Len(reading[d]) - n /\ Counts(reading'[d], Len(delivered[d]) + n)
  <2>1. /\ delivered[d] \o SubSeq(reading[d], 1, n) = [i \in 1..(Len(delivered[d]) + n) |-> i]
        /\ Len(delivered[d] \o SubSeq(reading[d], 1, n)) = Len(delivered[d]) + n
        /\ Len(Rest(reading[d], n)) = Len(reading[d]) - n /\ Counts(Rest(reading[d], n), Len(delivered[d]) + n)
    BY <1>2, <1>4, Taken
  <2>. QED  BY <1>3, <2>1
<1>6. Len(delivered[d]) \in Nat /\ Len(reading[d]) \in Nat /\ n \in Nat \ {0} /\ n <= Len(reading[d])
  BY <1>2, LenProperties
<1>7. Counts(delivered'[d], 0) /\ Counts(reading'[d], Len(delivered'[d]))
  <2>1. \A i \in 1..(Len(delivered[d]) + n) : i = 0 + i
    BY <1>6
  <2>. QED  BY <1>5, <2>1 DEF Counts
<1>8. PICK mark \in [0..Len(wire[d]) -> 0..accepted[d]] : Marks(d, mark)
  BY DEF Flowing
<1>9. mark[0] = Len(delivered[d]) + Len(reading[d]) /\ mark[0] \in 0..accepted[d]
  <2>1. mark[0] = Len(delivered[d]) + Len(reading[d])
    BY <1>8 DEF Marks
  <2>2. Len(wire[d]) \in Nat
    BY LenProperties DEF Types, RecordTypes
  <2>3. 0 \in 0..Len(wire[d])
    BY <2>2
  <2>. QED  BY <2>1, <2>3
<1>10. Len(delivered'[d]) + Len(reading'[d]) = mark[0]
  <2>1. (Len(delivered[d]) + n) + (Len(reading[d]) - n) = Len(delivered[d]) + Len(reading[d])
    BY SMTT(30), <1>6
  <2>. QED  BY <1>5, <1>9, <2>1
<1>11. Marks(d, mark)'
  BY <1>2, <1>8, <1>10 DEF Marks
<1>12. Len(delivered[d]) + n <= accepted[d]
  <2>1. \A a \in Nat : \A b \in Nat : \A c \in Nat : \A m \in Nat : m <= b /\ a + b \in 0..c => a + m <= c
    OBVIOUS
  <2>2. Len(delivered[d]) + Len(reading[d]) \in 0..accepted[d]
    BY <1>9
  <2>. QED  BY <1>2, <1>6, <2>1, <2>2
<1>13. delivered' = [delivered EXCEPT ![d] = [i \in 1..(Len(delivered[d]) + n) |-> i]]
  BY <1>1, <1>3, <1>5
<1>14. Flowing(d)'
  BY <1>2, <1>4, <1>7, <1>8, <1>11 DEF Flowing
<1>. QED  BY <1>6, <1>12, <1>13, <1>14

-----------------------------------------------------------------------------
(* The invariant. *)

\* The steps that are not of the stream.
Course == Client \/ Server \/ Discard \/ Use

\* A direction whose writer runs is past its handshake.
LEMMA RunsPast ==
  ASSUME IInv
  PROVE  /\ place = "open" => peer = "server" /\ Streaming
         /\ serverAt = "relay" => peer = "server" /\ place = "open"
<1>1. place = "open" => peer = "server" /\ Streaming
  BY DEF IInv, Handshake, WithServer, WithOthers
<1>2. serverAt = "relay" => peer = "server"
  BY DEF IInv, Handshake, WithOthers
<1>3. serverAt = "relay" => place = "open"
  BY <1>2 DEF IInv, Handshake, WithServer, Early, Asking, Settled, Over, Types, StreamTypes, Places
<1>. QED  BY <1>1, <1>2, <1>3

\* A writer that runs goes on.
LEMMA RunsOn ==
  ASSUME IInv, [Next]_vars, NEW d \in Directions, Runs(d)
  PROVE  Runs(d)'
<1>1. place = "open" /\ place' = "open"
  <2>1. place = "open"
    BY RunsPast DEF Runs, Directions
  <2>. QED
    BY <2>1 DEF Next, Client, Server, vars, handshakeVars, Connected, ConnectFails, NoAddress, Hello, ReadFlight,
         FlightFails, SendTail, ReceiveFails, ReceiveClock, SendNego, ReceiveAck, SendFails, Sends, TimesOut, Timed, ServerSendsClock,
         ServerSendsAck, ServerReadsTarget, Discard, Use, Break, PollWrite, SendRecord, ReadRecord, PollRead,
         Goes, ServerGoes, Fails
<1>2. serverAt = "relay" => serverAt' = "relay"
  BY <1>1 DEF Next, Client, Server, vars, handshakeVars, Connected, ConnectFails, NoAddress, Hello, ReadFlight,
         FlightFails, SendTail, ReceiveFails, ReceiveClock, SendNego, ReceiveAck, SendFails, Sends, TimesOut, Timed, ServerSendsClock,
         ServerSendsAck, ServerReadsTarget, Discard, Use, Break, PollWrite, SendRecord, ReadRecord, PollRead,
         Goes, ServerGoes, Fails
<1>. QED  BY <1>1, <1>2 DEF Runs

\* The steps of the course touch no byte, and send no record of data.
LEMMA CourseKeeps ==
  ASSUME IInv, Course
  PROVE  /\ UNCHANGED <<accepted, writing, reading, delivered, broken>>
         /\ \A d \in Directions : \A i \in DOMAIN wire'[d] :
              wire'[d][i].says.type # "data" \/ \E j \in DOMAIN wire[d] : wire'[d][i] = wire[d][j]
<1>1. UNCHANGED <<accepted, writing, reading, delivered, broken>>
  BY DEF Course, Client, Server, streamVars, Connected, ConnectFails, NoAddress, Hello, ReadFlight, FlightFails,
         SendTail, ReceiveFails, ReceiveClock, SendNego, ReceiveAck, SendFails, TimesOut, ServerSendsClock, ServerSendsAck,
         ServerReadsTarget, Discard, Use
<1>. DEFINE Clean(w, old) ==
       \A i \in DOMAIN w : w[i].says.type # "data" \/ \E j \in DOMAIN old : w[i] = old[j]
<1>2. \A d \in Directions : wire[d] \in Seq(Records)
  BY DEF IInv, Types, RecordTypes
<1>3. \A d \in Directions : Clean(wire[d], wire[d])
  OBVIOUS
<1>4. ASSUME NEW d \in Directions, wire[d] # <<>>  PROVE Clean(Tail(wire[d]), wire[d])
  <2>1. wire[d] \in Seq(Records) /\ Tail(wire[d]) \in Seq(Records)
    BY <1>2, <1>4, HeadTailProperties
  <2>2. Len(wire[d]) \in Nat /\ Len(Tail(wire[d])) = Len(wire[d]) - 1
        /\ \A i \in 1..Len(Tail(wire[d])) : Tail(wire[d])[i] = wire[d][i + 1]
    BY <2>1, <1>4, HeadTailProperties, LenProperties
  <2>3. ASSUME NEW i \in 1..Len(Tail(wire[d]))  PROVE \E j \in DOMAIN wire[d] : Tail(wire[d])[i] = wire[d][j]
    <3>1. i + 1 \in DOMAIN wire[d]
      BY <2>1, <2>2
    <3>. QED  BY <2>2, <3>1
  <2>. QED  BY <2>1, <2>3, LenProperties
<1>5. ASSUME NEW d \in Directions, NEW pair \in Pairs, NEW says \in Messages, says.type # "data"
      PROVE  Clean(Append(wire[d], [pair |-> pair, says |-> says]), wire[d])
  <2>. DEFINE rec == [pair |-> pair, says |-> says]
  <2>1. rec \in Records /\ rec.says = says
    BY DEF Records
  <2>. HIDE DEF rec
  <2>2. \A i \in DOMAIN Append(wire[d], rec) :
          (i \in DOMAIN wire[d] /\ Append(wire[d], rec)[i] = wire[d][i]) \/ Append(wire[d], rec)[i] = rec
    BY <1>2, <2>1, AppendProperties
  <2>3. Clean(Append(wire[d], rec), wire[d])
    BY <1>5, <2>1, <2>2
  <2>. QED  BY <2>3 DEF rec
<1>6. \A d \in Directions : SealPair(d) \in Pairs
  BY DEF SealPair, Pairs, ExpandKey, IInv, Types, RecordTypes, Halves
<1>7. wire \in [Directions -> Seq(Records)]
  BY DEF IInv, Types, RecordTypes
<1>. HIDE DEF Clean
<1>8. ASSUME NEW d \in Directions, NEW says \in Messages, says.type # "data", NEW arrives, Seal(d, says, arrives)
      PROVE  \A e \in Directions : Clean(wire'[e], wire[e])
  <2>. DEFINE rec == [pair |-> SealPair(d), says |-> says]
  <2>1. Clean(Append(wire[d], rec), wire[d])
    BY <1>5, <1>6, <1>8
  <2>2. wire' = IF arrives THEN [wire EXCEPT ![d] = Append(wire[d], rec)] ELSE wire
    BY <1>8 DEF Seal
  <2>. HIDE DEF rec
  <2>. QED  BY <1>3, <1>7, <2>1, <2>2
<1>9. ASSUME NEW d \in Directions, wire[d] # <<>>, wire' = [wire EXCEPT ![d] = Tail(wire[d])]
      PROVE  \A e \in Directions : Clean(wire'[e], wire[e])
  BY <1>3, <1>4, <1>7, <1>9
<1>10. \A e \in Directions : Clean(wire'[e], wire[e])
  <2>1. CASE Silent
    BY <1>3, <2>1, SilentKeeps DEF recordVars
  <2>2. CASE ServerSendsClock
    <3>1. [type |-> "clock", agility |-> agility] \in Messages
      BY DEF Messages, IInv, Types, StreamTypes
    <3>. QED  BY <1>8, <2>2, <3>1 DEF ServerSendsClock, Directions
  <2>3. CASE SendNego
    <3>1. [type |-> "nego", aes |-> aes["client"]] \in Messages
      BY DEF Messages, IInv, Types, StreamTypes
    <3>. QED  BY <1>8, <2>3, <3>1 DEF SendNego, Directions
  <2>4. CASE Use
    <3>1. [type |-> "target"] \in Messages
      BY DEF Messages
    <3>. QED  BY <1>8, <2>4, <3>1 DEF Use, Directions
  <2>5. CASE ReceiveClock \/ ServerReadsTarget \/ ReceiveAck
    <3>1. \E d \in Directions : wire[d] # <<>> /\ wire' = [wire EXCEPT ![d] = Tail(wire[d])]
      BY <2>5 DEF ReceiveClock, ServerReadsTarget, ReceiveAck, Open, Opens, Directions
    <3>. QED  BY <1>9, <3>1
  <2>6. CASE ServerSendsAck
    <3>. DEFINE final == Negotiated(Says("c2s").aes, aes["server"])
                says == [type |-> "ack", cipher |-> final]
                rec == [pair |-> SealPair("s2c"), says |-> says]
    <3>1. says \in Messages /\ says.type # "data"
      BY DEF Messages, Negotiated, Ciphers
    <3>2. Clean(Append(wire["s2c"], rec), wire["s2c"]) /\ Clean(Tail(wire["c2s"]), wire["c2s"])
      <4>1. wire["c2s"] # <<>>
        BY <2>6 DEF ServerSendsAck, Opens
      <4>. QED  BY <1>4, <1>5, <1>6, <3>1, <4>1 DEF Directions
    <3>3. wire' = [wire EXCEPT !["c2s"] = Tail(wire["c2s"]),
                               !["s2c"] = IF broken THEN wire["s2c"] ELSE Append(wire["s2c"], rec)]
      BY <2>6 DEF ServerSendsAck
    <3>. HIDE DEF rec
    <3>. QED  BY <1>3, <1>7, <3>2, <3>3 DEF Directions
  <2>. QED  BY <2>1, <2>2, <2>3, <2>4, <2>5, <2>6 DEF Course, Client, Server, Silent
<1>. QED  BY <1>1, <1>10 DEF Clean

\* Of the steps of the course, one touches a direction whose writer runs.
LEMMA CoursePasses ==
  ASSUME IInv, Course, NEW d \in Directions, Runs(d)
  PROVE  wire'[d] = wire[d] \/ (d = "c2s" /\ ServerReadsTarget)
<1>1. place = "open" /\ peer = "server" /\ serverAt \in {"target", "relay"} /\ (d = "s2c" => serverAt = "relay")
  BY RunsPast DEF Runs, Streaming, Directions
<1>2. wire \in [Directions -> Seq(Records)]
  BY DEF IInv, Types, RecordTypes
<1>3. CASE Silent
  BY <1>3, SilentKeeps DEF recordVars
<1>4. CASE ServerReadsTarget
  BY <1>1, <1>4 DEF ServerReadsTarget, Directions
<1>. QED
  BY <1>1, <1>3, <1>4
     DEF Course, Client, Server, Silent, ReceiveClock, SendNego, ReceiveAck, ServerSendsClock, ServerSendsAck, Use

\* Every step leaves every byte its place.
LEMMA FlowStep ==
  ASSUME PipeInv, [Next]_vars
  PROVE  Flow'
<1>. USE DEF PipeInv
<1>1. SUFFICES ASSUME NEW d \in Directions
               PROVE  (Quiet(d) \/ (Runs(d) /\ Flowing(d)))'
  BY DEF Flow
<1>2. Types /\ (Quiet(d) \/ (Runs(d) /\ Flowing(d))) /\ (Runs(d) => Runs(d)')
  BY RunsOn DEF IInv, Flow
<1>3. ASSUME UNCHANGED <<wire[d], accepted[d], writing[d], reading[d], delivered[d]>>, broken => broken'
      PROVE  (Quiet(d) \/ (Runs(d) /\ Flowing(d)))'
  BY <1>2, <1>3, UntouchedFlows
<1>4. CASE UNCHANGED vars
  BY <1>3, <1>4 DEF vars, recordVars, streamVars
<1>5. CASE Course
  <2>1. /\ UNCHANGED <<accepted, writing, reading, delivered, broken>>
        /\ \A i \in DOMAIN wire'[d] :
             wire'[d][i].says.type # "data" \/ \E j \in DOMAIN wire[d] : wire'[d][i] = wire[d][j]
    BY <1>5, CourseKeeps
  <2>2. CASE Quiet(d)
    BY <2>1, <2>2, QuietKeeps
  <2>3. CASE Runs(d) /\ Flowing(d)
    <3>1. CASE wire'[d] = wire[d]
      BY <1>3, <2>1, <3>1
    <3>2. CASE d = "c2s" /\ ServerReadsTarget
      <4>1. place = "open" /\ peer = "server"
        BY <2>3, <3>2, RunsPast DEF Runs
      <4>2. Flowing(d)'
        BY <2>3, <3>2, <4>1, TargetFlows
      <4>. QED  BY <1>2, <2>3, <4>2
    <3>. QED  BY <1>5, <2>3, <3>1, <3>2, CoursePasses
  <2>. QED  BY <1>2, <2>2, <2>3
<1>6. CASE Break
  <2>1. UNCHANGED <<accepted, writing, reading, delivered>>
    BY <1>6 DEF Break, streamVars
  <2>2. CASE Quiet(d)
    <3>1. PICK n \in 0..Len(wire[d]) : Len(wire'[d]) = n /\ \A i \in 1..n : wire'[d][i] = wire[d][i]
      BY <1>2, <1>6, BreakTypes
    <3>2. wire[d] \in Seq(Records) /\ wire'[d] \in Seq(Records)
      BY <1>2, <1>6, BreakTypes DEF Types, RecordTypes
    <3>3. \A i \in DOMAIN wire'[d] : \E j \in DOMAIN wire[d] : wire'[d][i] = wire[d][j]
      BY <3>1, <3>2
    <3>. QED  BY <2>1, <2>2, <3>3, QuietKeeps
  <2>. QED  BY <1>2, <1>6, <2>2, BreakFlows
<1>7. ASSUME NEW e \in Directions, e # d, PollWrite(e) \/ SendRecord(e) \/ ReadRecord(e) \/ PollRead(e)
      PROVE  (Quiet(d) \/ (Runs(d) /\ Flowing(d)))'
  <2>1. UNCHANGED <<wire[d], accepted[d], writing[d], reading[d], delivered[d]>> /\ broken' = broken
    BY ZenonT(40), <1>2, <1>7 DEF PollWrite, SendRecord, ReadRecord, PollRead, Seal, Open, recordVars, Types, RecordTypes, StreamTypes
  <2>. QED  BY <1>3, <2>1
<1>8. Flowing(d)
  BY <1>2, QuietFlows
<1>9. CASE PollWrite(d)
  BY <1>2, <1>8, <1>9, WriteFlows DEF PollWrite
<1>10. CASE SendRecord(d)
  BY <1>2, <1>8, <1>10, SendFlows DEF SendRecord
<1>11. CASE ReadRecord(d)
  <2>1. ~Quiet(d)
    <3>1. wire[d] \in Seq(Records) /\ wire[d] # <<>> /\ Says(d).type = "data"
      BY <1>2, <1>11, StreamData DEF ReadRecord, Opens, IInv, Types, RecordTypes
    <3>2. 1 \in DOMAIN wire[d] /\ wire[d][1].says = Says(d)
      BY <3>1, HeadTailProperties DEF Says
    <3>. QED  BY <3>1, <3>2 DEF Quiet
  <2>. QED  BY <1>2, <1>8, <1>11, <2>1, ReadFlows
<1>12. CASE PollRead(d)
  <2>1. ~Quiet(d)
    BY <1>12 DEF PollRead, Quiet
  <2>. QED  BY <1>2, <1>8, <1>12, <2>1, PollReadFlows
<1>. QED  BY <1>4, <1>5, <1>6, <1>7, <1>9, <1>10, <1>11, <1>12 DEF Next, Course

\* At first both directions are quiet.
LEMMA InitFlow == Init => Flow
<1>. SUFFICES ASSUME Init, NEW d \in Directions PROVE Quiet(d)
  BY DEF Flow
<1>1. /\ accepted[d] = 0 /\ writing[d] = <<>> /\ reading[d] = <<>> /\ delivered[d] = <<>>
      /\ wire[d] = <<>>
  BY DEF Init, RecordInit
<1>. QED  BY <1>1, EmptySeq DEF Quiet

\* Every byte has its place, in every state.
LEMMA PipeInvHolds == Spec => []PipeInv
<1>1. Init => PipeInv
  BY InitInv, InitFlow DEF PipeInv
<1>2. PipeInv /\ [Next]_vars => PipeInv'
  BY RecordTypeStep, StreamTypeStep, NonceStep, HandshakeStep, FlowStep DEF PipeInv, IInv, Types
<1>. QED  BY <1>1, <1>2, PTL DEF Spec

-----------------------------------------------------------------------------
(* The refinement. *)

\* A write accepts bytes, a read returns the next ones, and the rest is unseen.
LEMMA PipeStep ==
  ASSUME PipeInv, [Next]_vars
  PROVE  [Pipe!Next]_<<accepted, delivered>>
<1>. USE DEF PipeInv
<1>1. Types
  BY DEF IInv
<1>2. CASE UNCHANGED vars
  BY <1>2 DEF vars, streamVars
<1>3. CASE Course
  BY <1>3, CourseKeeps
<1>4. CASE Break
  BY <1>4 DEF Break, streamVars
<1>5. ASSUME NEW d \in Directions, PollWrite(d)  PROVE Pipe!Write(d)
  <2>1. PICK n \in 1..(Bytes - accepted[d]) : accepted' = [accepted EXCEPT ![d] = accepted[d] + n]
    BY <1>5 DEF PollWrite
  <2>2. accepted[d] + n \in (accepted[d] + 1)..Bytes
    BY <1>1, TunnelAssumption DEF Types, StreamTypes
  <2>. QED  BY <1>5, <2>1, <2>2 DEF Pipe!Write, PollWrite
<1>6. ASSUME NEW d \in Directions, PollRead(d)  PROVE Pipe!Read(d)
  <2>1. Flowing(d)
    BY <1>1, QuietFlows DEF Flow
  <2>2. PICK n \in Nat \ {0} :
          /\ Len(delivered[d]) + n <= accepted[d]
          /\ delivered' = [delivered EXCEPT ![d] = [i \in 1..(Len(delivered[d]) + n) |-> i]]
    BY <1>1, <1>6, <2>1, PollReadFlows
  <2>3. Len(delivered[d]) + n \in (Len(delivered[d]) + 1)..accepted[d]
    <3>1. Len(delivered[d]) \in Nat /\ accepted[d] \in Nat
      BY <1>1, LenProperties DEF Types, StreamTypes
    <3>. QED  BY <2>2, <3>1
  <2>. QED  BY <1>6, <2>2, <2>3 DEF Pipe!Read, PollRead
<1>7. ASSUME NEW d \in Directions, SendRecord(d) \/ ReadRecord(d)  PROVE UNCHANGED <<accepted, delivered>>
  BY <1>7 DEF SendRecord, ReadRecord
<1>. QED  BY <1>2, <1>3, <1>4, <1>5, <1>6, <1>7 DEF Next, Course, Pipe!Next

\* The stream over a tunnel is a byte pipe: in each direction the bytes that were
\* accepted come out once each and in their order, for any number of bytes and any
\* sizes of writes, records and reads, until the connection is gone.
THEOREM BytesAreKept == Spec => KeepsBytes
<1>1. Init => Pipe!Init
  BY DEF Init, Pipe!Init
<1>2. PipeInv /\ [Next]_vars => [Pipe!Next]_<<accepted, delivered>>
  BY PipeStep
<1>. QED  BY <1>1, <1>2, PipeInvHolds, PTL DEF Spec, KeepsBytes, Pipe!Spec
=============================================================================
