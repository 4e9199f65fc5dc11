--------------------------- MODULE UdpFlowsProofs ---------------------------
(***************************************************************************)
(* Theorems about UdpFlows over UdpMux, for any number of flows, keys,     *)
(* slots and tunnels, any limits, and an id counter of any width.          *)
(*                                                                         *)
(* The counter and the zero it skips give the ids of a tunnel in turn, one *)
(* round of SidSpace - 1 after another.  Window says so without division:  *)
(* it is about the last round of ids only, and tells each from the next.   *)
(*                                                                         *)
(* And about Datagrams, for any addresses, names and payloads that fit a   *)
(* packet: GramInv says that the packets written, followed by the payloads *)
(* that the bytes received and on the wire drain into, are the ones due.   *)
(***************************************************************************)
EXTENDS UdpFlows, Datagrams, FiniteSetTheorems, WellFoundedInduction, TLAPS

Holding == {"alloc", "alloc2", "register", "loop", "send", "drop"}
Numbered == {"register", "loop", "send", "drop"}

\* The steps of a task that stays where it is.
Sends(f) == PoolGives(f) \/ DnSends(f) \/ DnSent(f) \/ DnEnds(f) \/ UpEnds(f)

\* A task has a key; it has a tunnel and an id at the places that need them.
Placed ==
  \A f \in Flows :
    /\ pc[f] # "none" <=> keyOf[f] # None
    /\ pc[f] \in Holding <=> tunnelOf[f] # None
    /\ pc[f] \in Numbered <=> sidOf[f] # None

Round == SidSpace - 1

\* The id the tunnel gives next.
Upcoming(m) == IF nextSid[m] = 0 THEN 1 ELSE nextSid[m]

\* How many ids the tunnel has given since that of f, that one included.
Since(f) == given[tunnelOf[f]] - turn[f]

\* Going back from the next id by as many leads to the id of f.
Window ==
  \A f \in Flows : sidOf[f] # None =>
    /\ Since(f) >= 1
    /\ Since(f) <= Round =>
         sidOf[f] = IF Upcoming(tunnelOf[f]) > Since(f) THEN Upcoming(tunnelOf[f]) - Since(f)
                    ELSE Upcoming(tunnelOf[f]) - Since(f) + Round

MuxInv == StreamsHeld /\ Window /\ SidsApart
IInv == TypeOK /\ Placed /\ FlowsAccounted /\ MuxInv

-----------------------------------------------------------------------------
(* Types. *)

\* The types of the tunnels, of what a flow holds of them, and of the flows.
MuxTypes ==
  /\ built \in 0..MaxMuxes /\ slot \in [Slots -> Muxes \cup {None}]
  /\ slotLock \in [Slots -> Flows \cup {None}] /\ alive \in [Muxes -> BOOLEAN]
  /\ pumps \in [Muxes -> SUBSET {"writer", "demux"}]
HeldTypes ==
  /\ nextSid \in [Muxes -> 0..(SidSpace - 1)] /\ streams \in [Muxes -> [Sids -> Flows \cup {None}]]
  /\ tunnelOf \in [Flows -> Muxes \cup {None}] /\ sidOf \in [Flows -> Sids \cup {None}]
  /\ turn \in [Flows -> Nat] /\ given \in [Muxes -> Nat]
TaskTypes ==
  /\ table \in [Keys -> Flows \cup {None}] /\ flowCount \in Nat /\ pc \in [Flows -> Places]
  /\ keyOf \in [Flows -> Keys \cup {None}] /\ queue \in [Flows -> 0..QueueCap]
  /\ gotDown \in [Flows -> BOOLEAN]
  /\ halves \in [Flows -> SUBSET {"dn", "up"}] /\ sending \subseteq Flows /\ listed \subseteq Flows
  /\ aborted \in [Flows -> BOOLEAN] /\ fed \in 0..MaxFeeds

\* The three parts are the types, before and after a step.
LEMMA TypeParts ==
  /\ TypeOK => MuxTypes /\ HeldTypes /\ TaskTypes
  /\ MuxTypes' /\ HeldTypes' /\ TaskTypes' => TypeOK'
BY DEF TypeOK, MuxTypes, HeldTypes, TaskTypes

\* The counter wraps.
LEMMA SuccessorIs ==
  ASSUME NEW n \in 0..(SidSpace - 1)
  PROVE  Successor(n) = IF n = SidSpace - 1 THEN 0 ELSE n + 1
<1>1. SidSpace \in Nat /\ SidSpace > 1 /\ n \in Nat /\ n < SidSpace
  BY MuxAssumption
<1>2. \A a, b \in Nat : a < b => a % b = a
  OBVIOUS
<1>3. \A b \in Nat : b > 0 => b % b = 0
  OBVIOUS
<1>4. CASE n = SidSpace - 1
  BY <1>1, <1>3, <1>4 DEF Successor
<1>5. CASE n # SidSpace - 1
  <2>1. n + 1 \in Nat /\ n + 1 < SidSpace
    BY <1>1, <1>5
  <2> QED BY <1>1, <1>2, <1>5, <2>1 DEF Successor
<1> QED BY <1>4, <1>5

\* So does the store after a second zero.
LEMMA StoredIs == 2 % SidSpace = IF SidSpace = 2 THEN 0 ELSE 2
BY MuxAssumption

\* Ids are numbers from 1.
LEMMA SidNumbers ==
  /\ SidSpace \in Nat /\ SidSpace >= 2 /\ Round \in Nat /\ Round >= 1
  /\ 1 \in Sids /\ \A n \in 0..(SidSpace - 1) : n # 0 => n \in Sids
  /\ None \notin Sids /\ None \notin Muxes
BY MuxAssumption DEF Round, Sids, Muxes

\* What Gives and the moves of the counter keep.
LEMMA GivesTypes ==
  ASSUME HeldTypes, NEW f \in Flows, NEW m \in Muxes, NEW n \in Sids, Gives(f, m, n)
  PROVE  /\ sidOf' \in [Flows -> Sids \cup {None}] /\ turn' \in [Flows -> Nat]
         /\ given' \in [Muxes -> Nat]
BY DEF HeldTypes, Gives

\* The course of a task in words of its place.
LEMMA EndsTypes ==
  ASSUME TaskTypes, NEW f \in Flows, NEW place \in {"drop", "leave"}, Ends(f, place), KeepTable
  PROVE  TaskTypes'
BY FlowsAssumption DEF TaskTypes, Ends, Goes, Unlisted, KeepTable, Places

\* Steps of the tunnels keep their types.
LEMMA MuxTypesKept ==
  ASSUME TypeOK, NEW f \in Flows, NEW s \in Slots,
         TakeTunnel(f, s) \/ LockSlot(f, s) \/ BuildTunnel(f, s) \/ BuildFails(f, s)
  PROVE  MuxTypes' /\ HeldTypes'
<1>. USE TypeParts DEF MuxTypes, HeldTypes
<1>1. CASE TakeTunnel(f, s)
  BY <1>1 DEF TakeTunnel, Usable
<1>2. CASE LockSlot(f, s)
  BY <1>2 DEF LockSlot, heldVars
<1>3. CASE BuildTunnel(f, s)
  <2>1. built + 1 \in 0..MaxMuxes /\ built + 1 \in Muxes
    BY SMTT(30), <1>3, MuxAssumption DEF BuildTunnel, Muxes
  <2> QED BY <1>3, <2>1 DEF BuildTunnel
<1>4. CASE BuildFails(f, s)
  BY <1>4 DEF BuildFails, heldVars
<1> QED BY <1>1, <1>2, <1>3, <1>4

\* So do those of the ids and of the streams.
LEMMA HeldTypesKept ==
  ASSUME TypeOK, NEW f \in Flows, tunnelOf[f] \in Muxes,
         \/ FetchSid(f) \/ FetchAgain(f) \/ LetGo(f)
         \/ sidOf[f] \in Sids /\ (Register(f) \/ Unregister(f))
  PROVE  MuxTypes' /\ HeldTypes'
<1>. DEFINE m == tunnelOf[f]
<1>0. MuxTypes /\ HeldTypes /\ m \in Muxes
  BY TypeParts
<1>1. CASE FetchSid(f) \/ FetchAgain(f)
  <2>1. MuxTypes' /\ UNCHANGED <<streams, tunnelOf>>
    BY <1>0, <1>1 DEF MuxTypes, FetchSid, FetchAgain
  <2>2. nextSid[m] \in 0..(SidSpace - 1)
    BY <1>0 DEF HeldTypes
  <2>3. Successor(nextSid[m]) \in 0..(SidSpace - 1) /\ 2 % SidSpace \in 0..(SidSpace - 1)
    BY <2>2, SuccessorIs, StoredIs, SidNumbers
  <2>4. nextSid' \in [Muxes -> 0..(SidSpace - 1)]
    BY <1>0, <1>1, <2>3 DEF HeldTypes, FetchSid, FetchAgain
  <2>5. CASE UNCHANGED <<sidOf, turn, given>>
    BY <1>0, <2>1, <2>4, <2>5 DEF HeldTypes
  <2>6. CASE \E n \in Sids : Gives(f, m, n)
    BY <1>0, <2>1, <2>4, <2>6, GivesTypes DEF HeldTypes
  <2> QED BY <1>1, <2>2, <2>5, <2>6, SidNumbers DEF FetchSid, FetchAgain
<1>2. CASE Register(f) /\ sidOf[f] \in Sids
  BY <1>0, <1>2 DEF MuxTypes, HeldTypes, Register, heldVars
<1>3. CASE LetGo(f) \/ (Unregister(f) /\ sidOf[f] \in Sids)
  <2>1. MuxTypes' /\ UNCHANGED <<nextSid, given>>
    BY <1>0, <1>3 DEF MuxTypes, LetGo, Unregister, Forgets
  <2>2. /\ tunnelOf' \in [Flows -> Muxes \cup {None}] /\ sidOf' \in [Flows -> Sids \cup {None}]
        /\ turn' \in [Flows -> Nat]
    <3>1. Forgets(f)
      BY <1>3 DEF LetGo, Unregister
    <3> QED BY <1>0, <3>1 DEF HeldTypes, Forgets
  <2>3. streams' \in [Muxes -> [Sids -> Flows \cup {None}]]
    <3>1. Without(m, sidOf[f]) \in [Sids -> Flows \cup {None}]
      BY <1>0 DEF HeldTypes, Without
    <3> HIDE DEF m
    <3>2. UNCHANGED streams \/ streams' = [streams EXCEPT ![m] = Without(m, sidOf[f])]
      BY <1>3 DEF LetGo, Unregister, m
    <3> QED BY <1>0, <3>1, <3>2 DEF HeldTypes
  <2> QED BY <1>0, <2>1, <2>2, <2>3 DEF HeldTypes
<1> QED BY <1>1, <1>2, <1>3

\* What a flow holds where it steps.
LEMMA WhatIsHeld ==
  ASSUME TypeOK, Placed, NEW f \in Flows
  PROVE  /\ pc[f] \in Holding => tunnelOf[f] \in Muxes
         /\ pc[f] \in Numbered => sidOf[f] \in Sids
         /\ pc[f] # "none" => keyOf[f] \in Keys
BY DEF TypeOK, Placed

\* Every step keeps the types.
LEMMA TypesKept == ASSUME TypeOK, Placed, Next PROVE TypeOK'
<1>0. MuxTypes /\ HeldTypes /\ TaskTypes
  BY TypeParts
<1>a. ASSUME UNCHANGED muxVars PROVE MuxTypes' /\ HeldTypes'
  BY <1>0, <1>a DEF MuxTypes, HeldTypes, muxVars
<1>1. ASSUME NEW k \in Keys, FeedRefused(k) \/ FeedKnown(k) \/ \E f \in Flows : FeedNew(k, f)
      PROVE  TypeOK'
  <2>1. flowCount' \in Nat /\ fed' \in 0..MaxFeeds
    <3>1. IsFiniteSet(Entries)
      BY FlowsAssumption, FS_Subset DEF Entries
    <3>2. flowCount' = Cardinality(Entries) /\ fed < MaxFeeds /\ fed' = fed + 1
      BY <1>1 DEF FeedRefused, FeedKnown, FeedNew, Counted
    <3> QED BY <1>0, <3>1, <3>2, FlowsAssumption, FS_CardinalityType DEF TaskTypes
  <2>2. TaskTypes'
    BY <1>0, <1>1, <2>1, FlowsAssumption
       DEF TaskTypes, FeedRefused, FeedKnown, FeedNew, Goes, taskVars, RxOpen, Places
  <2> QED BY <1>a, <1>1, <2>2, TypeParts DEF FeedRefused, FeedKnown, FeedNew
<1>2. ASSUME NEW f \in Flows,
             \/ DecideDrop(f) \/ PoolFails(f) \/ LoopEnds(f) \/ SendFails(f) \/ RelayEnds(f)
      PROVE  TypeOK'
  <2>1. UNCHANGED muxVars /\ KeepTable /\ \E place \in {"drop", "leave"} : Ends(f, place)
    BY <1>2 DEF DecideDrop, PoolFails, LoopEnds, SendFails, RelayEnds
  <2> QED BY <1>0, <1>a, <2>1, EndsTypes, TypeParts
<1>3. ASSUME NEW f \in Flows, GetFails(f) \/ SidLimit(f) \/ DropSid(f) PROVE TypeOK'
  <2>1. KeepTable /\ Ends(f, "leave")
    BY <1>3 DEF GetFails, SidLimit, DropSid
  <2>2. TaskTypes'
    BY <1>0, <2>1, EndsTypes
  <2>3. CASE GetFails(f)
    BY <2>2, <2>3, MuxTypesKept, TypeParts DEF GetFails
  <2>4. CASE SidLimit(f)
    BY <2>2, <2>4, WhatIsHeld, HeldTypesKept, TypeParts DEF SidLimit, Holding
  <2>5. CASE DropSid(f)
    BY <2>2, <2>5, WhatIsHeld, HeldTypesKept, TypeParts DEF DropSid, Holding, Numbered
  <2> QED BY <1>3, <2>3, <2>4, <2>5
<1>4. ASSUME NEW f \in Flows, GetTunnel(f) \/ GetLocks(f) \/ GetBuilds(f) \/ AllocSid(f) \/ TryRegister(f)
      PROVE  TypeOK'
  <2>1. /\ KeepTable /\ UNCHANGED <<keyOf, queue, gotDown, halves, aborted, listed>>
        /\ sending' \subseteq sending /\ \E place \in Places : Goes(f, place)
    BY <1>4 DEF GetTunnel, GetLocks, GetBuilds, AllocSid, TryRegister, Places, KeepTask
  <2>2. TaskTypes'
    BY <1>0, <2>1 DEF TaskTypes, KeepTable, Goes
  <2>3. CASE GetTunnel(f) \/ GetLocks(f) \/ GetBuilds(f)
    BY <2>2, <2>3, MuxTypesKept, TypeParts DEF GetTunnel, GetLocks, GetBuilds
  <2>4. CASE AllocSid(f) \/ TryRegister(f)
    BY <2>2, <2>4, WhatIsHeld, HeldTypesKept, TypeParts DEF AllocSid, TryRegister, Holding, Numbered
  <2> QED BY <1>4, <2>3, <2>4
<1>5. ASSUME NEW f \in Flows, DecideProxy(f) \/ DecideDirect(f) \/ OwnTunnel(f) \/ SendFrame(f)
      PROVE  TypeOK'
  <2>1. TaskTypes'
    BY <1>0, <1>5
       DEF TaskTypes, DecideProxy, DecideDirect, OwnTunnel, Relays, SendFrame, KeepTable, KeepTask, Goes, Places
  <2> QED BY <1>a, <1>5, <2>1, TypeParts DEF DecideProxy, DecideDirect, OwnTunnel, Relays, SendFrame
<1>6. ASSUME NEW f \in Flows, LoopTakes(f) \/ Sends(f) \/ CloseConnection(f)
      PROVE  TypeOK'
  <2>1. TaskTypes'
    <3>1. queue[f] \in 0..QueueCap /\ 0 \in 0..QueueCap /\ (queue[f] > 0 => queue[f] - 1 \in 0..QueueCap)
      BY <1>0, FlowsAssumption DEF TaskTypes
    <3>2. CASE LoopTakes(f)
      BY <1>0, <3>1, <3>2 DEF TaskTypes, LoopTakes, KeepTable, Goes, Places
    <3>3. CASE CloseConnection(f)
      BY <1>0, <3>3 DEF TaskTypes, CloseConnection, KeepTable
    <3>4. CASE Sends(f)
      <4>1. \A n \in 0..(queue[f] - 1) : queue[f] > 0 => n \in 0..QueueCap
        BY <3>1, FlowsAssumption
      <4>2. CASE DnSends(f)
        BY <1>0, <3>1, <4>1, <4>2 DEF TaskTypes, DnSends, KeepTable
      <4>3. CASE PoolGives(f) \/ DnSent(f) \/ DnEnds(f) \/ UpEnds(f)
        BY <1>0, <3>1, <4>3 DEF TaskTypes, PoolGives, DnSent, DnEnds, UpEnds, KeepTable
      <4> QED BY <3>4, <4>2, <4>3 DEF Sends
    <3> QED BY <1>6, <3>2, <3>3, <3>4
  <2> QED BY <1>a, <1>6, <2>1, TypeParts DEF LoopTakes, Sends, PoolGives, DnSends, DnSent, DnEnds, UpEnds, CloseConnection
<1>7. ASSUME NEW f \in Flows, Leave(f) PROVE TypeOK'
  <2>1. table' \in [Keys -> Flows \cup {None}]
    BY <1>0, <1>7, WhatIsHeld DEF TaskTypes, Leave, Removed
  <2>2. flowCount' \in Nat
    <3>1. IsFiniteSet({k \in Keys : table'[k] # None})
      BY FlowsAssumption, FS_Subset
    <3> QED BY <1>7, <3>1, FS_CardinalityType DEF Leave
  <2>3. TaskTypes'
    BY <1>0, <1>7, <2>1, <2>2, FlowsAssumption DEF TaskTypes, Leave, Goes, Places
  <2> QED BY <1>a, <1>7, <2>3, TypeParts DEF Leave
<1>8. ASSUME NEW m \in Muxes, NEW p \in {"writer", "demux"}, PumpDies(m, p) PROVE TypeOK'
  <2>1. MuxTypes' /\ HeldTypes'
    BY <1>0, <1>8 DEF MuxTypes, HeldTypes, PumpDies, PumpEnds, heldVars
  <2>2. TaskTypes'
    BY <1>0, <1>8 DEF TaskTypes, PumpDies, KeepTable, taskVars
  <2> QED BY <2>1, <2>2, TypeParts
<1>9. ASSUME NEW m \in Muxes, NEW i \in Sids, NEW f \in Flows, Deliver(m, i, f) PROVE TypeOK'
  <2>1. TaskTypes'
    BY <1>0, <1>9 DEF TaskTypes, Deliver, KeepTable
  <2> QED BY <1>a, <1>9, <2>1, TypeParts DEF Deliver
<1> QED
  BY <1>1, <1>2, <1>3, <1>4, <1>5, <1>6, <1>7, <1>8, <1>9 DEF Next, TaskStep, Sends

-----------------------------------------------------------------------------
(* Places, and the table of flows. *)

\* How a task may go from place to place with what it holds unchanged.
LEMMA SamePlaces ==
  ASSUME Placed, NEW f \in Flows, UNCHANGED <<keyOf, tunnelOf, sidOf>>,
         \A g \in Flows \ {f} : pc'[g] = pc[g],
         pc[f] # "none" <=> pc'[f] # "none", pc[f] \in Holding <=> pc'[f] \in Holding,
         pc[f] \in Numbered <=> pc'[f] \in Numbered
  PROVE  Placed'
BY DEF Placed

\* Every step keeps the places.
LEMMA PlacedKept == ASSUME TypeOK, Placed, Next PROVE Placed'
<1>0. /\ pc \in [Flows -> Places] /\ keyOf \in [Flows -> Keys \cup {None}]
      /\ tunnelOf \in [Flows -> Muxes \cup {None}] /\ sidOf \in [Flows -> Sids \cup {None}]
  BY DEF TypeOK
<1>1. ASSUME UNCHANGED <<pc, keyOf, tunnelOf, sidOf>> PROVE Placed'
  BY <1>1 DEF Placed
<1>2. ASSUME NEW k \in Keys, FeedRefused(k) \/ FeedKnown(k) PROVE Placed'
  BY <1>1, <1>2 DEF FeedRefused, FeedKnown, taskVars, muxVars
<1>3. ASSUME NEW k \in Keys, NEW f \in Flows, FeedNew(k, f) PROVE Placed'
  <2>1. UNCHANGED <<tunnelOf, sidOf>> /\ pc[f] = "none" /\ pc' = [pc EXCEPT ![f] = "decide"]
        /\ keyOf' = [keyOf EXCEPT ![f] = k]
    BY <1>3 DEF FeedNew, muxVars, Goes
  <2> QED BY <1>0, <2>1, FlowsAssumption DEF Placed, Holding, Numbered
<1>4. ASSUME NEW f \in Flows,
             \/ DecideDrop(f) \/ DecideProxy(f) \/ DecideDirect(f) \/ OwnTunnel(f) \/ PoolFails(f)
             \/ GetLocks(f) \/ GetFails(f) \/ LoopTakes(f) \/ LoopEnds(f)
             \/ SendFrame(f) \/ SendFails(f) \/ RelayEnds(f)
      PROVE  Placed'
  <2>1. UNCHANGED <<tunnelOf, sidOf, keyOf>>
    BY <1>4 DEF DecideDrop, DecideProxy, DecideDirect, OwnTunnel, Relays, PoolFails, GetLocks, GetFails,
         LoopTakes, LoopEnds, SendFrame, SendFails, RelayEnds, Ends, KeepTask, muxVars, heldVars,
         LockSlot, BuildFails
  <2>2. \/ pc[f] \in {"decide", "pool", "relay", "slot", "build"}
           /\ \E place \in {"leave", "slot", "pool", "relay", "build"} : Goes(f, place)
        \/ pc[f] \in {"loop", "send"} /\ \E place \in {"drop", "send", "loop"} : Goes(f, place)
    BY <1>4 DEF DecideDrop, DecideProxy, DecideDirect, OwnTunnel, Relays, PoolFails, GetLocks, GetFails,
         LoopTakes, LoopEnds, SendFrame, SendFails, RelayEnds, Ends
  <2>3. /\ \A g \in Flows \ {f} : pc'[g] = pc[g]
        /\ pc[f] # "none" <=> pc'[f] # "none"
        /\ pc[f] \in Holding <=> pc'[f] \in Holding
        /\ pc[f] \in Numbered <=> pc'[f] \in Numbered
    BY <1>0, <2>2 DEF Goes, Holding, Numbered
  <2> QED BY <2>1, <2>3, SamePlaces
<1>5. ASSUME NEW f \in Flows, GetTunnel(f) \/ GetBuilds(f) PROVE Placed'
  <2>1. UNCHANGED <<sidOf, keyOf>> /\ pc[f] \in {"slot", "build"} /\ Goes(f, "alloc")
        /\ \E m \in Muxes : tunnelOf' = [tunnelOf EXCEPT ![f] = m]
    <3>1. CASE GetTunnel(f)
      BY <3>1 DEF GetTunnel, TakeTunnel, Usable, KeepTask, TypeOK
    <3>2. CASE GetBuilds(f)
      <4>1. built + 1 \in Muxes
        BY <3>2, MuxAssumption DEF GetBuilds, BuildTunnel, TypeOK, Muxes
      <4> QED BY <3>2, <4>1 DEF GetBuilds, BuildTunnel, KeepTask
    <3> QED BY <1>5, <3>1, <3>2
  <2> QED BY <1>0, <2>1, SidNumbers DEF Placed, Holding, Numbered, Goes
<1>6. ASSUME NEW f \in Flows, AllocSid(f) PROVE Placed'
  <2>1. UNCHANGED <<tunnelOf, keyOf>> /\ pc[f] \in {"alloc", "alloc2"}
    BY <1>6 DEF AllocSid, FetchSid, FetchAgain, KeepTask
  <2>2. \/ sidOf' = sidOf /\ Goes(f, "alloc2")
        \/ Goes(f, "register") /\ \E n \in Sids : sidOf' = [sidOf EXCEPT ![f] = n]
    <3>1. tunnelOf[f] \in Muxes /\ nextSid[tunnelOf[f]] \in 0..(SidSpace - 1)
      BY <2>1, WhatIsHeld DEF Holding, TypeOK
    <3>2. nextSid[tunnelOf[f]] # 0 => nextSid[tunnelOf[f]] \in Sids
      BY <3>1, SidNumbers
    <3> QED BY <1>6, <3>2, SidNumbers DEF AllocSid, FetchSid, FetchAgain, Gives
  <2> QED BY <1>0, <2>1, <2>2, SidNumbers DEF Placed, Holding, Numbered, Goes
<1>7. ASSUME NEW f \in Flows, TryRegister(f) PROVE Placed'
  BY <1>0, <1>7 DEF TryRegister, Register, heldVars, KeepTask, Placed, Goes, Holding, Numbered
<1>8. ASSUME NEW f \in Flows, SidLimit(f) \/ DropSid(f) PROVE Placed'
  <2>1. pc[f] \in {"register", "drop"} /\ Goes(f, "leave") /\ UNCHANGED keyOf /\ Forgets(f)
    BY <1>8 DEF SidLimit, DropSid, LetGo, Unregister, Ends
  <2> QED BY <1>0, <2>1 DEF Forgets, Placed, Goes, Holding, Numbered
<1>9. ASSUME NEW f \in Flows, Leave(f) PROVE Placed'
  BY <1>0, <1>9 DEF Leave, muxVars, Placed, Goes, Holding, Numbered
<1>10. ASSUME NEW f \in Flows, Sends(f) \/ CloseConnection(f)
      PROVE  Placed'
  BY <1>1, <1>10 DEF Sends, PoolGives, DnSends, DnSent, DnEnds, UpEnds, CloseConnection, muxVars
<1>11. ASSUME NEW m \in Muxes, \/ \E p \in {"writer", "demux"} : PumpDies(m, p)
                               \/ \E i \in Sids, f \in Flows : Deliver(m, i, f)
      PROVE  Placed'
  BY <1>1, <1>11 DEF PumpDies, PumpEnds, heldVars, taskVars, Deliver, muxVars
<1> QED
  BY <1>2, <1>3, <1>4, <1>5, <1>6, <1>7, <1>8, <1>9, <1>10, <1>11 DEF Next, TaskStep, Sends

\* A key has one task and a task its own key.
TableExact == \A k \in Keys, f \in Flows : table[k] = f <=> (f \in Tasks /\ keyOf[f] = k)

\* There are as many tasks as entries.
LEMMA TasksCounted ==
  ASSUME TypeOK, Placed, TableExact
  PROVE  IsFiniteSet(Entries) /\ IsFiniteSet(Tasks) /\ Cardinality(Tasks) = Cardinality(Entries)
<1>1. IsFiniteSet(Entries)
  BY FlowsAssumption, FS_Subset DEF Entries
<1>. DEFINE g == [k \in Entries |-> table[k]]
<1>2. ASSUME NEW k \in Entries PROVE table[k] \in Tasks /\ keyOf[table[k]] = k
  BY <1>2, MuxAssumption DEF Entries, TypeOK, TableExact
<1>3. ASSUME NEW f \in Tasks PROVE keyOf[f] \in Entries /\ table[keyOf[f]] = f
  BY <1>3, WhatIsHeld, MuxAssumption DEF Tasks, Entries, TableExact
<1>4. g \in [Entries -> Tasks] /\ \A k \in Entries : g[k] = table[k]
  BY <1>2
<1>. HIDE DEF g
<1>5. g \in Bijection(Entries, Tasks)
  BY <1>2, <1>3, <1>4 DEF Bijection, Injection, Surjection, IsInjective
<1> QED BY <1>1, <1>5, FS_Bijection DEF ExistsBijection

\* The flows stay accounted for where no task begins or ends.
LEMMA AccountStays ==
  ASSUME FlowsAccounted, UNCHANGED <<table, keyOf>>, Tasks' = Tasks,
         flowCount' \in {flowCount, Cardinality(Tasks)},
         listed' \subseteq {f \in Tasks : pc'[f] \notin {"decide", "drop", "leave"}}
  PROVE  FlowsAccounted'
<1>1. listed' \subseteq {f \in Tasks' : pc'[f] \notin {"decide", "drop", "leave"}}
  OBVIOUS
<1> QED BY <1>1 DEF FlowsAccounted

\* Every step keeps the account.
LEMMA AccountKept ==
  ASSUME TypeOK, Placed, FlowsAccounted, Next PROVE FlowsAccounted'
<1>0. /\ pc \in [Flows -> Places] /\ keyOf \in [Flows -> Keys \cup {None}] /\ listed \subseteq Flows
      /\ table \in [Keys -> Flows \cup {None}] /\ TypeOK' /\ Placed'
  BY TypesKept, PlacedKept DEF TypeOK
<1>1. /\ TableExact /\ IsFiniteSet(Tasks) /\ Cardinality(Tasks) = Cardinality(Entries)
      /\ Cardinality(Tasks) \in Nat
      /\ \A f \in listed : pc[f] \notin {"none", "decide", "drop", "leave"}
  <2>1. TableExact
    BY DEF FlowsAccounted, TableExact
  <2> QED BY <2>1, TasksCounted, FS_CardinalityType DEF FlowsAccounted, Tasks
<1>2. ASSUME TableExact', listed' \subseteq {f \in Flows : pc'[f] \notin {"none", "decide", "drop", "leave"}},
             Cardinality(Tasks') <= MaxFlows, flowCount' \in {Cardinality(Tasks'), Cardinality(Tasks') - 1}
      PROVE  FlowsAccounted'
  BY <1>2 DEF FlowsAccounted, TableExact, Tasks
<1>3. ASSUME NEW k \in Keys, FeedRefused(k) \/ FeedKnown(k) PROVE FlowsAccounted'
  <2>1. UNCHANGED <<table, keyOf, pc, listed>> /\ flowCount' = Cardinality(Entries)
    BY <1>3 DEF FeedRefused, FeedKnown, taskVars, Counted
  <2>2. Tasks' = Tasks
    BY <2>1 DEF Tasks
  <2> QED BY <1>0, <1>1, <2>1, <2>2, AccountStays DEF FlowsAccounted
<1>4. ASSUME NEW k \in Keys, NEW f \in Flows, FeedNew(k, f) PROVE FlowsAccounted'
  <2>1. /\ table[k] = None /\ HasRoom /\ pc[f] = "none" /\ flowCount' = Cardinality(Entries)
        /\ table' = [table EXCEPT ![k] = f] /\ keyOf' = [keyOf EXCEPT ![f] = k]
        /\ pc' = [pc EXCEPT ![f] = "decide"] /\ listed' = listed
    BY <1>4 DEF FeedNew, Counted, Goes
  <2>2. Tasks' = Tasks \cup {f} /\ f \notin Tasks
    BY <1>0, <2>1 DEF Tasks
  <2>3. Cardinality(Tasks') = Cardinality(Tasks) + 1
    BY <1>1, <2>2, FS_AddElement
  <2>4. TableExact'
    BY <1>0, <1>1, <2>1, <2>2, MuxAssumption DEF TableExact
  <2>5. listed' \subseteq {g \in Flows : pc'[g] \notin {"none", "decide", "drop", "leave"}}
    BY <1>0, <1>1, <2>1
  <2>6. Cardinality(Tasks') <= MaxFlows
    BY <1>1, <2>1, <2>3, FlowsAssumption DEF HasRoom
  <2>7. flowCount' = Cardinality(Tasks') - 1
    BY <1>1, <2>1, <2>3
  <2> QED BY <1>2, <2>4, <2>5, <2>6, <2>7
<1>5. ASSUME NEW f \in Flows, Leave(f) PROVE FlowsAccounted'
  <2>1. /\ pc[f] = "leave" /\ pc' = [pc EXCEPT ![f] = "none"] /\ table' = [table EXCEPT ![keyOf[f]] = None]
        /\ keyOf' = [keyOf EXCEPT ![f] = None] /\ listed' = listed
        /\ flowCount' = Cardinality(Entries')
    BY <1>5 DEF Leave, Goes, Removed, Entries
  <2>2. Tasks' = Tasks \ {f} /\ f \in Tasks /\ keyOf[f] \in Keys
    BY <1>0, <2>1, WhatIsHeld DEF Tasks
  <2>3. TableExact'
    BY <1>0, <1>1, <2>1, <2>2, MuxAssumption, FlowsAssumption DEF TableExact
  <2>4. Cardinality(Tasks') = Cardinality(Tasks) - 1
    BY <1>1, <2>2, FS_RemoveElement
  <2>5. Cardinality(Tasks') = Cardinality(Entries')
    <3>1. Entries' = Entries \ {keyOf[f]} /\ keyOf[f] \in Entries
      BY <1>0, <1>1, <2>1, <2>2, MuxAssumption DEF Entries, TableExact
    <3>2. IsFiniteSet(Entries)
      BY FlowsAssumption, FS_Subset DEF Entries
    <3> QED BY <1>1, <2>4, <3>1, <3>2, FS_RemoveElement
  <2>6. listed' \subseteq {g \in Flows : pc'[g] \notin {"none", "decide", "drop", "leave"}}
    BY <1>0, <1>1, <2>1
  <2>7. Cardinality(Tasks') <= MaxFlows
    BY <1>1, <2>4, FlowsAssumption DEF FlowsAccounted
  <2> QED BY <1>2, <2>1, <2>3, <2>5, <2>6, <2>7
<1>6. ASSUME UNCHANGED <<table, keyOf, flowCount>>, NEW f \in Tasks,
             \A g \in Flows \ {f} : pc'[g] = pc[g], pc'[f] # "none",
             \/ listed' = listed \ {f}
             \/ listed' \subseteq listed \cup {f} /\ pc'[f] \notin {"decide", "drop", "leave"}
      PROVE  FlowsAccounted'
  <2>1. Tasks' = Tasks
    BY <1>6 DEF Tasks
  <2>2. listed' \subseteq {g \in Tasks : pc'[g] \notin {"decide", "drop", "leave"}}
    BY <1>0, <1>1, <1>6 DEF Tasks
  <2> QED BY <1>6, <2>1, <2>2, AccountStays
<1>7. ASSUME UNCHANGED <<table, keyOf, flowCount, pc, listed>> PROVE FlowsAccounted'
  BY <1>7 DEF FlowsAccounted, Tasks
<1>8. ASSUME NEW f \in Flows,
             \/ DecideDrop(f) \/ PoolFails(f) \/ GetFails(f) \/ SidLimit(f) \/ LoopEnds(f)
             \/ SendFails(f) \/ DropSid(f) \/ RelayEnds(f)
      PROVE  FlowsAccounted'
  <2>1. f \in Tasks /\ KeepTable /\ \E place \in {"drop", "leave"} : Ends(f, place)
    BY <1>8 DEF DecideDrop, PoolFails, GetFails, SidLimit, LoopEnds, SendFails, DropSid, RelayEnds, Tasks
  <2> QED BY <1>0, <1>6, <2>1 DEF Ends, Goes, Unlisted, KeepTable
<1>9. ASSUME NEW f \in Flows,
             \/ DecideProxy(f) \/ DecideDirect(f) \/ OwnTunnel(f) \/ GetTunnel(f) \/ GetLocks(f)
             \/ GetBuilds(f) \/ AllocSid(f) \/ TryRegister(f) \/ LoopTakes(f) \/ SendFrame(f)
      PROVE  FlowsAccounted'
  <2>1. f \in Tasks /\ KeepTable /\ UNCHANGED keyOf /\ listed' \subseteq listed \cup {f}
    BY <1>9 DEF DecideProxy, DecideDirect, OwnTunnel, Relays, GetTunnel, GetLocks, GetBuilds, AllocSid,
         TryRegister, LoopTakes, SendFrame, KeepTask, Tasks
  <2>2. \E place \in {"slot", "pool", "relay", "alloc", "build", "alloc2", "register", "loop", "send"} :
          Goes(f, place)
    BY <1>9 DEF DecideProxy, DecideDirect, OwnTunnel, Relays, GetTunnel, GetLocks, GetBuilds, AllocSid,
         TryRegister, LoopTakes, SendFrame
  <2> QED BY <1>0, <1>6, <2>1, <2>2 DEF Goes, KeepTable
<1>10. ASSUME NEW f \in Flows, Sends(f) \/ CloseConnection(f)
      PROVE  FlowsAccounted'
  BY <1>7, <1>10 DEF Sends, PoolGives, DnSends, DnSent, DnEnds, UpEnds, CloseConnection, KeepTable
<1>11. ASSUME NEW m \in Muxes, \/ \E p \in {"writer", "demux"} : PumpDies(m, p)
                               \/ \E i \in Sids, f \in Flows : Deliver(m, i, f)
      PROVE  FlowsAccounted'
  BY <1>7, <1>11 DEF PumpDies, Deliver, KeepTable, taskVars
<1> QED
  BY <1>3, <1>4, <1>5, <1>8, <1>9, <1>10, <1>11 DEF Next, TaskStep, Sends

-----------------------------------------------------------------------------
(* Streams and ids. *)

\* The streams and ids are as they were for all who stay on their streams.
LEMMA MuxStays ==
  ASSUME TypeOK, Placed, MuxInv, UNCHANGED <<tunnelOf, sidOf, turn, given, streams>>,
         \A m \in Muxes : Upcoming(m)' = Upcoming(m),
         \A f \in Flows : OnStream(f)' <=> OnStream(f)
  PROVE  MuxInv'
<1>1. StreamsHeld'
  <2>1. \A m \in Muxes : Registered(m)' = Registered(m)
    BY DEF Registered
  <2>2. \A m \in Muxes, i \in Sids : streams[m][i] \in Flows \cup {None}
    BY DEF TypeOK
  <2> QED BY <2>1, <2>2 DEF MuxInv, StreamsHeld
<1>2. Window'
  <2>1. ASSUME NEW f \in Flows, sidOf[f] # None PROVE tunnelOf[f] \in Muxes
    BY <2>1, WhatIsHeld DEF Placed, Holding, Numbered
  <2>2. \A f \in Flows : sidOf[f] # None =>
          Upcoming(tunnelOf[f])' = Upcoming(tunnelOf[f]) /\ Since(f)' = Since(f)
    BY <2>1 DEF Since
  <2> QED BY <2>2 DEF MuxInv, Window
<1>3. SidsApart'
  BY DEF MuxInv, SidsApart
<1> QED BY <1>1, <1>2, <1>3 DEF MuxInv

\* A flow that takes a tunnel has no id yet.
LEMMA TakenStays ==
  ASSUME TypeOK, MuxInv, NEW f \in Flows, NEW m \in Muxes, sidOf[f] = None,
         tunnelOf' = [tunnelOf EXCEPT ![f] = m], UNCHANGED <<sidOf, turn, given, nextSid, streams>>,
         ~OnStream(f), \A g \in Flows : OnStream(g)' <=> OnStream(g)
  PROVE  MuxInv'
<1>1. \A g \in Flows \ {f} : tunnelOf'[g] = tunnelOf[g]
  BY DEF TypeOK
<1>2. StreamsHeld'
  <2>1. \A n \in Muxes : Registered(n)' = Registered(n)
    BY DEF Registered
  <2>2. \A n \in Muxes, i \in Sids : streams[n][i] \in Flows \cup {None}
    BY DEF TypeOK
  <2> QED BY <1>1, <2>1, <2>2 DEF MuxInv, StreamsHeld
<1>3. Window'
  BY <1>1 DEF MuxInv, Window, Since, Upcoming
<1>4. SidsApart'
  BY <1>1 DEF MuxInv, SidsApart
<1> QED BY <1>2, <1>3, <1>4 DEF MuxInv

\* Ids in turn: what lies since places back from the next id still does when one
\* more is given, and is not that one unless a whole round lies between.
LEMMA IdsInTurn ==
  ASSUME NEW u \in 1..Round, NEW since \in Nat \ {0}, NEW i,
         since <= Round => i = IF u > since THEN u - since ELSE u - since + Round
  PROVE  LET after == IF u = Round THEN 1 ELSE u + 1
         IN  /\ since + 1 <= Round =>
                  i = IF after > since + 1 THEN after - (since + 1) ELSE after - (since + 1) + Round
             /\ u = IF after > 1 THEN after - 1 ELSE after - 1 + Round
             /\ since < Round => i # u
BY SidNumbers

\* A flow without an id is given the next one.
LEMMA GivenStays ==
  ASSUME TypeOK, Placed, MuxInv, NEW f \in Flows, NEW m \in Muxes, tunnelOf[f] = m, sidOf[f] = None,
         Gives(f, m, Upcoming(m)), UNCHANGED <<tunnelOf, streams>>,
         \A n \in Muxes \ {m} : nextSid'[n] = nextSid[n],
         Upcoming(m)' = IF Upcoming(m) = Round THEN 1 ELSE Upcoming(m) + 1,
         ~OnStream(f), \A g \in Flows : OnStream(g)' <=> OnStream(g)
  PROVE  MuxInv'
<1>. DEFINE u == Upcoming(m)
            later == IF u = Round THEN 1 ELSE u + 1
<1>0. Upcoming(m)' = later
  OBVIOUS
<1>1. u \in 1..Round
  <2>1. nextSid[m] \in 0..(SidSpace - 1)
    BY DEF TypeOK
  <2> QED BY <2>1, SidNumbers DEF Upcoming, Round
<1>2. /\ sidOf' = [sidOf EXCEPT ![f] = u] /\ turn' = [turn EXCEPT ![f] = given[m]]
      /\ given' = [given EXCEPT ![m] = given[m] + 1]
  BY DEF Gives
<1>. HIDE DEF u, later
<1>3. /\ sidOf'[f] = u /\ turn'[f] = given[m] /\ given'[m] = given[m] + 1
      /\ \A g \in Flows \ {f} : sidOf'[g] = sidOf[g] /\ turn'[g] = turn[g]
      /\ \A n \in Muxes \ {m} : given'[n] = given[n]
      /\ given[m] \in Nat /\ \A g \in Flows : turn[g] \in Nat
  BY <1>2 DEF TypeOK
<1>4. ASSUME NEW g \in Flows \ {f}, sidOf[g] # None
      PROVE  /\ tunnelOf[g] \in Muxes /\ Since(g) \in Nat \ {0}
             /\ tunnelOf[g] = m => Since(g) = given[m] - turn[g]
             /\ Since(g) <= Round => sidOf[g] = IF Upcoming(tunnelOf[g]) > Since(g)
                  THEN Upcoming(tunnelOf[g]) - Since(g) ELSE Upcoming(tunnelOf[g]) - Since(g) + Round
  <2>1. pc[g] \in Holding
    BY <1>4 DEF Placed, Holding, Numbered
  <2>2. tunnelOf[g] \in Muxes
    BY <2>1, WhatIsHeld
  <2>3. given[tunnelOf[g]] \in Nat /\ turn[g] \in Nat
    BY <2>2 DEF TypeOK
  <2>4. /\ Since(g) >= 1
        /\ Since(g) <= Round => sidOf[g] = IF Upcoming(tunnelOf[g]) > Since(g)
             THEN Upcoming(tunnelOf[g]) - Since(g) ELSE Upcoming(tunnelOf[g]) - Since(g) + Round
    BY <1>4 DEF MuxInv, Window
  <2>5. Since(g) \in Nat \ {0}
    BY <2>3, <2>4 DEF Since
  <2> QED BY <2>2, <2>4, <2>5 DEF Since
<1>5. ASSUME NEW g \in Flows \ {f}, sidOf[g] # None, tunnelOf[g] = m
      PROVE  /\ Since(g)' = Since(g) + 1
             /\ Since(g) + 1 <= Round => sidOf[g] = IF later > Since(g) + 1 THEN later - (Since(g) + 1)
                                                   ELSE later - (Since(g) + 1) + Round
             /\ sidOf[g] = u => given[m] - turn[g] >= Round
  <2>1. Since(g) = given[m] - turn[g] /\ Since(g)' = given[m] + 1 - turn[g] /\ Since(g) \in Nat \ {0}
    BY <1>3, <1>4, <1>5 DEF Since
  <2>2. Since(g) <= Round => sidOf[g] = IF u > Since(g) THEN u - Since(g) ELSE u - Since(g) + Round
    BY <1>4, <1>5 DEF u
  <2>3. /\ Since(g) + 1 <= Round => sidOf[g] = IF later > Since(g) + 1 THEN later - (Since(g) + 1)
                                               ELSE later - (Since(g) + 1) + Round
        /\ Since(g) < Round => sidOf[g] # u
    BY <1>1, <2>1, <2>2, IdsInTurn DEF later
  <2> QED BY <1>3, <2>1, <2>3, SidNumbers
<1>6. Window'
  <2>1. ASSUME NEW g \in Flows, sidOf'[g] # None
        PROVE  /\ Since(g)' >= 1
               /\ Since(g)' <= Round => sidOf'[g] = IF Upcoming(tunnelOf[g])' > Since(g)'
                    THEN Upcoming(tunnelOf[g])' - Since(g)' ELSE Upcoming(tunnelOf[g])' - Since(g)' + Round
    <3>1. CASE g = f
      <4>1. Since(g)' = 1 /\ Upcoming(tunnelOf[g])' = later
        BY <1>0, <1>3, <3>1 DEF Since
      <4>2. u = IF later > 1 THEN later - 1 ELSE later - 1 + Round
        BY <1>1, SidNumbers DEF later
      <4> QED BY <1>3, <3>1, <4>1, <4>2
    <3>2. CASE g # f /\ tunnelOf[g] = m
      <4>1. Upcoming(tunnelOf[g])' = later /\ sidOf'[g] = sidOf[g] /\ Since(g) \in Nat \ {0}
        BY <1>0, <1>3, <1>4, <2>1, <3>2
      <4> QED BY <1>3, <1>5, <2>1, <3>2, <4>1
    <3>3. CASE g # f /\ tunnelOf[g] # m
      <4>1. tunnelOf[g] \in Muxes \ {m} /\ sidOf'[g] = sidOf[g] /\ Since(g) \in Nat \ {0}
        BY <1>3, <1>4, <2>1, <3>3
      <4>2. Upcoming(tunnelOf[g])' = Upcoming(tunnelOf[g]) /\ Since(g)' = Since(g)
        BY <1>3, <3>3, <4>1 DEF Upcoming, Since
      <4> QED BY <1>3, <1>4, <2>1, <3>3, <4>1, <4>2
    <3> QED BY <3>1, <3>2, <3>3
  <2> QED BY <2>1 DEF Window
<1>7. SidsApart'
  <2>1. ASSUME NEW g \in Flows, NEW h \in Flows \ {g}, sidOf'[g] # None, tunnelOf[h] = tunnelOf[g],
               sidOf'[h] = sidOf'[g]
        PROVE  turn'[h] - turn'[g] >= Round \/ turn'[g] - turn'[h] >= Round
    <3>1. CASE g = f
      BY <1>3, <1>5, <2>1, <3>1
    <3>2. CASE h = f
      BY <1>3, <1>5, <2>1, <3>2
    <3>3. CASE g # f /\ h # f
      BY <1>3, <2>1, <3>3 DEF MuxInv, SidsApart, Round
    <3> QED BY <3>1, <3>2, <3>3
  <2>2. ASSUME NEW g \in Flows, OnStream(g)', sidOf'[g] # None, given'[tunnelOf[g]] < SidSpace
        PROVE  streams[tunnelOf[g]][sidOf'[g]] = g
    <3>1. g # f /\ OnStream(g)
      BY <2>2
    <3>2. sidOf[g] # None /\ given[tunnelOf[g]] < SidSpace
      <4>1. tunnelOf[g] \in Muxes /\ sidOf[g] # None
        BY <1>3, <1>4, <2>2, <3>1
      <4>2. given[tunnelOf[g]] \in Nat /\ given'[tunnelOf[g]] \in {given[tunnelOf[g]], given[tunnelOf[g]] + 1}
        BY <1>3, <4>1 DEF TypeOK
      <4> QED BY <2>2, <4>1, <4>2, SidNumbers
    <3> QED BY <1>3, <3>1, <3>2 DEF MuxInv, SidsApart
  <2> QED BY <2>1, <2>2 DEF SidsApart, Round
<1>8. StreamsHeld'
  <2>1. \A n \in Muxes : Registered(n)' = Registered(n)
    BY DEF Registered
  <2>2. \A n \in Muxes, i \in Sids : streams[n][i] \in Flows \cup {None}
    BY DEF TypeOK
  <2> QED BY <1>3, <2>1, <2>2 DEF MuxInv, StreamsHeld
<1> QED BY <1>6, <1>7, <1>8 DEF MuxInv

\* In the first round two flows of a tunnel have two ids.
LEMMA FirstRound ==
  ASSUME TypeOK, Placed, MuxInv, NEW f \in Flows, NEW g \in Flows \ {f}, sidOf[f] # None, sidOf[g] = sidOf[f],
         tunnelOf[g] = tunnelOf[f], given[tunnelOf[f]] < SidSpace
  PROVE  FALSE
<1>1. tunnelOf[f] \in Muxes
  BY WhatIsHeld DEF Placed, Holding, Numbered
<1>2. given[tunnelOf[f]] \in Nat /\ turn[f] \in Nat /\ turn[g] \in Nat
  BY <1>1 DEF TypeOK
<1>3. given[tunnelOf[f]] - turn[f] >= 1 /\ given[tunnelOf[f]] - turn[g] >= 1
  BY DEF MuxInv, Window, Since
<1>4. turn[g] - turn[f] >= SidSpace - 1 \/ turn[f] - turn[g] >= SidSpace - 1
  BY DEF MuxInv, SidsApart
<1> QED BY <1>2, <1>3, <1>4, SidNumbers

\* A registered flow is found, and hides nobody in the first round.
LEMMA RegisterStays ==
  ASSUME TypeOK, Placed, MuxInv, NEW f \in Flows, pc[f] = "register", Register(f),
         OnStream(f)', \A g \in Flows \ {f} : OnStream(g)' <=> OnStream(g)
  PROVE  MuxInv'
<1>. DEFINE m == tunnelOf[f]
            i == sidOf[f]
<1>0. m \in Muxes /\ i \in Sids /\ ~OnStream(f)
  BY WhatIsHeld DEF Holding, Numbered, OnStream
<1>. HIDE DEF m, i
<1>1. /\ streams' = [streams EXCEPT ![m][i] = f] /\ UNCHANGED <<nextSid, tunnelOf, sidOf, turn, given>>
      /\ Cardinality(Registered(m)) < MaxSids[m]
  <2>1. IsFiniteSet(Registered(m)) /\ MaxSids[m] \in Nat
    <3>1. IsFiniteSet(Sids)
      BY SidNumbers, FS_Interval DEF Sids
    <3> QED BY <1>0, <3>1, MuxAssumption, FS_Subset DEF Registered, Muxes
  <2>2. Cardinality(Registered(m)) \in Nat
    BY <2>1, FS_CardinalityType
  <2>3. ~(Cardinality(Registered(m)) >= MaxSids[m])
    BY DEF Register, Full, m
  <2> QED BY <2>1, <2>2, <2>3 DEF Register, heldVars, m, i
<1>2. /\ streams \in [Muxes -> [Sids -> Flows \cup {None}]]
      /\ \A n \in Muxes, j \in Sids : streams'[n][j] = IF n = m /\ j = i THEN f ELSE streams[n][j]
  <2>1. streams \in [Muxes -> [Sids -> Flows \cup {None}]]
    BY DEF TypeOK
  <2> QED BY <1>0, <1>1, <2>1
<1>3. StreamsHeld'
  <2>1. ASSUME NEW n \in Muxes, NEW j \in Sids, streams'[n][j] # None
        PROVE  OnStream(streams[n][j])' /\ tunnelOf[streams'[n][j]] = n /\ sidOf[streams'[n][j]] = j
    <3>1. CASE n = m /\ j = i
      BY <1>2, <3>1 DEF m, i
    <3>2. CASE ~(n = m /\ j = i)
      <4>1. streams'[n][j] = streams[n][j] /\ streams[n][j] \in Flows
        BY <1>2, <2>1, <3>2
      <4>2. OnStream(streams[n][j]) /\ tunnelOf[streams[n][j]] = n /\ sidOf[streams[n][j]] = j
        BY <2>1, <4>1 DEF MuxInv, StreamsHeld
      <4> QED BY <1>0, <4>1, <4>2
    <3> QED BY <3>1, <3>2
  <2>2. ASSUME NEW n \in Muxes PROVE Cardinality(Registered(n)') <= MaxSids[n]
    <3>1. CASE n = m
      <4>1. Registered(n)' = Registered(n) \cup {i}
        BY <1>0, <1>2, <3>1, MuxAssumption DEF Registered
      <4>2. IsFiniteSet(Registered(n)) /\ MaxSids[n] \in Nat
        <5>1. IsFiniteSet(Sids)
          BY SidNumbers, FS_Interval DEF Sids
        <5> QED BY <5>1, MuxAssumption, FS_Subset DEF Registered, Muxes
      <4>3. Cardinality(Registered(n)) \in Nat
        BY <4>2, FS_CardinalityType
      <4>4. Cardinality(Registered(n) \cup {i}) \in {Cardinality(Registered(n)), Cardinality(Registered(n)) + 1}
        BY <4>2, FS_AddElement
      <4>5. Cardinality(Registered(n) \cup {i}) <= MaxSids[n]
        BY <1>1, <3>1, <4>2, <4>3, <4>4
      <4> QED BY <4>1, <4>5
    <3>2. CASE n # m
      <4>1. Registered(n)' = Registered(n)
        BY <1>2, <3>2 DEF Registered
      <4> QED BY <4>1 DEF MuxInv, StreamsHeld
    <3> QED BY <3>1, <3>2
  <2> QED BY <1>1, <2>1, <2>2 DEF StreamsHeld
<1>4. Window'
  BY <1>1 DEF MuxInv, Window, Since, Upcoming
<1>5. SidsApart'
  <2>1. ASSUME NEW g \in Flows, sidOf[g] # None, OnStream(g)', given[tunnelOf[g]] < SidSpace
        PROVE  streams'[tunnelOf[g]][sidOf[g]] = g
    <3>1. tunnelOf[g] \in Muxes /\ sidOf[g] \in Sids
      BY <2>1, WhatIsHeld DEF Placed, Holding, Numbered
    <3>2. CASE g = f
      BY <1>0, <1>2, <3>2 DEF m, i
    <3>3. CASE g # f
      <4>1. streams[tunnelOf[g]][sidOf[g]] = g
        BY <2>1, <3>3 DEF MuxInv, SidsApart
      <4>2. ~(tunnelOf[g] = m /\ sidOf[g] = i)
        BY <2>1, <3>3, <1>0, FirstRound DEF m, i
      <4> QED BY <1>2, <3>1, <4>1, <4>2
    <3> QED BY <3>2, <3>3
  <2> QED BY <1>1, <2>1 DEF MuxInv, SidsApart
<1> QED BY <1>3, <1>4, <1>5 DEF MuxInv

\* A flow that lets go of its id takes its own entry with it, and no other in
\* the first round.
LEMMA ForgetStays ==
  ASSUME TypeOK, Placed, MuxInv, NEW f \in Flows, pc[f] \in Numbered, Forgets(f), ~OnStream(f)',
         \/ UNCHANGED streams /\ ~OnStream(f)
         \/ streams' = [streams EXCEPT ![tunnelOf[f]] = Without(tunnelOf[f], sidOf[f])],
         \A g \in Flows \ {f} : OnStream(g)' <=> OnStream(g)
  PROVE  MuxInv'
<1>. DEFINE m == tunnelOf[f]
            i == sidOf[f]
<1>0. m \in Muxes /\ i \in Sids
  BY WhatIsHeld DEF Holding, Numbered
<1>1. /\ \A g \in Flows \ {f} : tunnelOf'[g] = tunnelOf[g] /\ sidOf'[g] = sidOf[g] /\ turn'[g] = turn[g]
      /\ sidOf'[f] = None /\ UNCHANGED <<nextSid, given>>
  BY DEF Forgets, TypeOK
<1>2. /\ streams \in [Muxes -> [Sids -> Flows \cup {None}]]
      /\ \A n \in Muxes, j \in Sids :
           \/ streams'[n][j] = streams[n][j] /\ (n = m /\ j = i => ~OnStream(f))
           \/ n = m /\ j = i /\ streams'[n][j] = None
  <2>1. streams \in [Muxes -> [Sids -> Flows \cup {None}]]
    BY DEF TypeOK
  <2>2. \A j \in Sids : Without(m, i)[j] = IF j = i THEN None ELSE streams[m][j]
    BY <1>0, <2>1 DEF Without
  <2> QED BY <1>0, <2>1, <2>2
<1>. HIDE DEF m, i
<1>3. StreamsHeld'
  <2>1. ASSUME NEW n \in Muxes, NEW j \in Sids, streams'[n][j] # None
        PROVE  OnStream(streams[n][j])' /\ tunnelOf'[streams'[n][j]] = n /\ sidOf'[streams'[n][j]] = j
    <3>1. streams'[n][j] = streams[n][j] /\ streams[n][j] \in Flows /\ (n = m /\ j = i => ~OnStream(f))
      BY <1>2, <2>1
    <3>2. OnStream(streams[n][j]) /\ tunnelOf[streams[n][j]] = n /\ sidOf[streams[n][j]] = j
      BY <2>1, <3>1 DEF MuxInv, StreamsHeld
    <3>3. streams[n][j] # f
      BY <3>1, <3>2 DEF m, i
    <3> QED BY <1>1, <3>1, <3>2, <3>3
  <2>2. ASSUME NEW n \in Muxes PROVE Cardinality(Registered(n)') <= MaxSids[n]
    <3>1. Registered(n)' \subseteq Registered(n)
      BY <1>2 DEF Registered
    <3>2. IsFiniteSet(Registered(n)) /\ MaxSids[n] \in Nat
      <4>1. IsFiniteSet(Sids)
        BY SidNumbers, FS_Interval DEF Sids
      <4> QED BY <4>1, MuxAssumption, FS_Subset DEF Registered, Muxes
    <3>3. /\ Cardinality(Registered(n)') <= Cardinality(Registered(n)) /\ Cardinality(Registered(n)) \in Nat
          /\ Cardinality(Registered(n)') \in Nat
      BY <3>1, <3>2, FS_Subset, FS_CardinalityType
    <3>4. Cardinality(Registered(n)) <= MaxSids[n]
      BY DEF MuxInv, StreamsHeld
    <3> QED BY <3>2, <3>3, <3>4
  <2> QED BY <2>1, <2>2 DEF StreamsHeld
<1>4. Window'
  BY <1>1 DEF MuxInv, Window, Since, Upcoming
<1>5. SidsApart'
  <2>1. ASSUME NEW g \in Flows \ {f}, sidOf[g] # None, OnStream(g), given[tunnelOf[g]] < SidSpace
        PROVE  streams'[tunnelOf[g]][sidOf[g]] = g
    <3>1. tunnelOf[g] \in Muxes /\ sidOf[g] \in Sids
      BY <2>1, WhatIsHeld DEF Placed, Holding, Numbered
    <3>2. streams[tunnelOf[g]][sidOf[g]] = g
      BY <2>1 DEF MuxInv, SidsApart
    <3>3. ~(tunnelOf[g] = m /\ sidOf[g] = i)
      BY <1>0, <2>1, SidNumbers, FirstRound DEF m, i
    <3> QED BY <1>2, <3>1, <3>2, <3>3
  <2> QED BY <1>1, <2>1 DEF MuxInv, SidsApart
<1> QED BY <1>3, <1>4, <1>5 DEF MuxInv

\* fetch_add, once or twice: 0 is passed over, else the upcoming id is given.
LEMMA AllocStays ==
  ASSUME TypeOK, Placed, MuxInv, NEW f \in Flows, AllocSid(f)
  PROVE  MuxInv'
<1>. DEFINE m == tunnelOf[f]
<1>0. /\ m \in Muxes /\ nextSid \in [Muxes -> 0..(SidSpace - 1)] /\ nextSid[m] \in 0..(SidSpace - 1)
      /\ sidOf[f] = None /\ pc[f] \in {"alloc", "alloc2"}
  <2>1. pc[f] \in {"alloc", "alloc2"}
    BY DEF AllocSid
  <2>2. m \in Muxes /\ sidOf[f] = None
    BY <2>1, WhatIsHeld DEF Placed, Holding, Numbered
  <2> QED BY <2>1, <2>2 DEF TypeOK
<1>1. UNCHANGED <<streams, tunnelOf>>
  BY DEF AllocSid, FetchSid, FetchAgain
<1>2. ~OnStream(f) /\ \A g \in Flows : OnStream(g)' <=> OnStream(g)
  <2>1. \E place \in {"alloc2", "register"} : pc' = [pc EXCEPT ![f] = place]
    BY DEF AllocSid, Goes
  <2>2. pc \in [Flows -> Places]
    BY DEF TypeOK
  <2> QED BY <1>0, <2>1, <2>2 DEF OnStream
<1>3. CASE nextSid[m] # 0
  <2>1. Gives(f, m, nextSid[m]) /\ nextSid' = [nextSid EXCEPT ![m] = Successor(nextSid[m])]
    BY <1>3 DEF AllocSid, FetchSid, FetchAgain
  <2>2. Gives(f, m, Upcoming(m))
    BY <1>3, <2>1 DEF Upcoming
  <2>3. Upcoming(m)' = IF Upcoming(m) = Round THEN 1 ELSE Upcoming(m) + 1
    <3>1. nextSid'[m] = IF nextSid[m] = SidSpace - 1 THEN 0 ELSE nextSid[m] + 1
      BY <1>0, <2>1, SuccessorIs
    <3>2. Upcoming(m)' = (IF nextSid'[m] = 0 THEN 1 ELSE nextSid'[m])
      BY <1>1 DEF Upcoming
    <3> QED BY <1>0, <1>3, <3>1, <3>2, SidNumbers DEF Upcoming, Round
  <2>4. \A n \in Muxes \ {m} : nextSid'[n] = nextSid[n]
    BY <1>0, <2>1
  <2> QED BY <1>0, <1>1, <1>2, <2>2, <2>3, <2>4, GivenStays
<1>4. CASE nextSid[m] = 0 /\ pc[f] = "alloc"
  <2>1. UNCHANGED <<sidOf, turn, given>> /\ nextSid' = [nextSid EXCEPT ![m] = Successor(0)]
    BY <1>4 DEF AllocSid, FetchSid
  <2>2. nextSid'[m] = 1
    BY <1>0, <1>4, <2>1, SuccessorIs, SidNumbers
  <2>3. \A n \in Muxes : Upcoming(n)' = Upcoming(n)
    BY <1>0, <1>4, <2>1, <2>2 DEF Upcoming
  <2> QED BY <1>1, <1>2, <2>1, <2>3, MuxStays
<1>5. CASE nextSid[m] = 0 /\ pc[f] = "alloc2"
  <2>1. Gives(f, m, 1) /\ nextSid' = [nextSid EXCEPT ![m] = 2 % SidSpace]
    BY <1>5 DEF AllocSid, FetchAgain
  <2>2. Gives(f, m, Upcoming(m))
    BY <1>5, <2>1 DEF Upcoming
  <2>3. Upcoming(m)' = IF Upcoming(m) = Round THEN 1 ELSE Upcoming(m) + 1
    <3>1. nextSid'[m] = IF SidSpace = 2 THEN 0 ELSE 2
      BY <1>0, <2>1, StoredIs
    <3>2. Upcoming(m)' = (IF nextSid'[m] = 0 THEN 1 ELSE nextSid'[m])
      BY <1>1 DEF Upcoming
    <3> QED BY <1>0, <1>5, <3>1, <3>2, SidNumbers DEF Upcoming, Round
  <2>4. \A n \in Muxes \ {m} : nextSid'[n] = nextSid[n]
    BY <1>0, <2>1
  <2> QED BY <1>0, <1>1, <1>2, <2>2, <2>3, <2>4, GivenStays
<1> QED BY <1>0, <1>3, <1>4, <1>5

\* Every step keeps the streams and the ids.
LEMMA MuxKept == ASSUME TypeOK, Placed, MuxInv, Next PROVE MuxInv'
<1>0. pc \in [Flows -> Places]
  BY DEF TypeOK
<1>1. ASSUME UNCHANGED <<tunnelOf, sidOf, turn, given, streams, nextSid>>,
             \A f \in Flows : OnStream(f)' <=> OnStream(f)
      PROVE  MuxInv'
  <2>1. \A m \in Muxes : Upcoming(m)' = Upcoming(m)
    BY <1>1 DEF Upcoming
  <2> QED BY <1>1, <2>1, MuxStays
<1>2. ASSUME UNCHANGED <<tunnelOf, sidOf, turn, given, streams, nextSid>>, NEW f \in Flows,
             \A g \in Flows \ {f} : pc'[g] = pc[g], OnStream(f)' <=> OnStream(f)
      PROVE  MuxInv'
  <2>1. \A g \in Flows : OnStream(g)' <=> OnStream(g)
    BY <1>2 DEF OnStream
  <2> QED BY <1>1, <1>2, <2>1
<1>3. ASSUME UNCHANGED <<tunnelOf, sidOf, turn, given, streams, nextSid, pc>> PROVE MuxInv'
  BY <1>1, <1>3 DEF OnStream
<1>4. ASSUME NEW k \in Keys, FeedRefused(k) \/ FeedKnown(k) \/ \E f \in Flows : FeedNew(k, f)
      PROVE  MuxInv'
  <2>1. UNCHANGED <<tunnelOf, sidOf, turn, given, streams, nextSid>>
    BY <1>4 DEF FeedRefused, FeedKnown, FeedNew, muxVars
  <2>2. CASE FeedRefused(k) \/ FeedKnown(k)
    BY <1>3, <2>1, <2>2 DEF FeedRefused, FeedKnown, taskVars
  <2>3. ASSUME NEW f \in Flows, FeedNew(k, f) PROVE MuxInv'
    <3>1. pc[f] = "none" /\ pc' = [pc EXCEPT ![f] = "decide"]
      BY <2>3 DEF FeedNew, Goes
    <3> QED BY <1>0, <1>2, <2>1, <3>1 DEF OnStream
  <2> QED BY <1>4, <2>2, <2>3
<1>5. ASSUME NEW f \in Flows,
             \/ DecideDrop(f) \/ DecideProxy(f) \/ DecideDirect(f) \/ OwnTunnel(f) \/ PoolFails(f)
             \/ GetLocks(f) \/ GetFails(f) \/ LoopTakes(f) \/ LoopEnds(f)
             \/ SendFrame(f) \/ SendFails(f) \/ RelayEnds(f) \/ Leave(f)
      PROVE  MuxInv'
  <2>1. UNCHANGED <<tunnelOf, sidOf, turn, given, streams, nextSid>>
    BY <1>5 DEF DecideDrop, DecideProxy, DecideDirect, OwnTunnel, Relays, PoolFails, GetLocks, GetFails,
         LoopTakes, LoopEnds, SendFrame, SendFails, RelayEnds, Leave, muxVars, heldVars,
         LockSlot, BuildFails
  <2>2. \/ pc[f] \in {"decide", "pool", "relay", "slot", "build", "leave"}
           /\ \E place \in {"leave", "slot", "pool", "relay", "build", "none"} : Goes(f, place)
        \/ pc[f] \in {"loop", "send"} /\ \E place \in {"drop", "send", "loop"} : Goes(f, place)
    BY <1>5 DEF DecideDrop, DecideProxy, DecideDirect, OwnTunnel, Relays, PoolFails, GetLocks, GetFails,
         LoopTakes, LoopEnds, SendFrame, SendFails, RelayEnds, Leave, Ends
  <2>3. (\A g \in Flows \ {f} : pc'[g] = pc[g]) /\ (OnStream(f)' <=> OnStream(f))
    BY <1>0, <2>2 DEF Goes, OnStream
  <2> QED BY <1>2, <2>1, <2>3
<1>6. ASSUME NEW f \in Flows, GetTunnel(f) \/ GetBuilds(f) PROVE MuxInv'
  <2>1. /\ UNCHANGED <<sidOf, turn, given, nextSid, streams>> /\ pc[f] \in {"slot", "build"}
        /\ pc' = [pc EXCEPT ![f] = "alloc"]
        /\ \E m \in Muxes : tunnelOf' = [tunnelOf EXCEPT ![f] = m]
    <3>1. CASE GetTunnel(f)
      BY <3>1 DEF GetTunnel, TakeTunnel, Usable, Goes, TypeOK
    <3>2. CASE GetBuilds(f)
      <4>1. built + 1 \in Muxes
        BY <3>2, MuxAssumption DEF GetBuilds, BuildTunnel, TypeOK, Muxes
      <4> QED BY <3>2, <4>1 DEF GetBuilds, BuildTunnel, Goes
    <3> QED BY <1>6, <3>1, <3>2
  <2>2. sidOf[f] = None /\ ~OnStream(f)
    BY <2>1 DEF Placed, Numbered, OnStream
  <2>3. \A g \in Flows : OnStream(g)' <=> OnStream(g)
    BY <1>0, <2>1 DEF OnStream
  <2> QED BY <2>1, <2>2, <2>3, TakenStays
<1>7. ASSUME NEW f \in Flows, TryRegister(f) PROVE MuxInv'
  <2>1. pc[f] = "register" /\ pc' = [pc EXCEPT ![f] = "loop"] /\ Register(f)
    BY <1>7 DEF TryRegister, Goes
  <2>2. OnStream(f)' /\ \A g \in Flows \ {f} : OnStream(g)' <=> OnStream(g)
    BY <1>0, <2>1 DEF OnStream
  <2> QED BY <2>1, <2>2, RegisterStays
<1>8. ASSUME NEW f \in Flows, SidLimit(f) \/ DropSid(f) PROVE MuxInv'
  <2>1. /\ pc[f] \in Numbered /\ pc' = [pc EXCEPT ![f] = "leave"] /\ Forgets(f)
        /\ \/ UNCHANGED streams /\ ~OnStream(f)
           \/ streams' = [streams EXCEPT ![tunnelOf[f]] = Without(tunnelOf[f], sidOf[f])]
    BY <1>8 DEF SidLimit, DropSid, LetGo, Unregister, Ends, Goes, Numbered, OnStream
  <2>2. ~OnStream(f)' /\ \A g \in Flows \ {f} : OnStream(g)' <=> OnStream(g)
    BY <1>0, <2>1 DEF OnStream
  <2> QED BY <2>1, <2>2, ForgetStays
<1>9. ASSUME NEW f \in Flows, Sends(f) \/ CloseConnection(f)
      PROVE  MuxInv'
  BY <1>3, <1>9 DEF Sends, PoolGives, DnSends, DnSent, DnEnds, UpEnds, CloseConnection, muxVars
<1>10. ASSUME NEW m \in Muxes, \/ \E p \in {"writer", "demux"} : PumpDies(m, p)
                               \/ \E i \in Sids, f \in Flows : Deliver(m, i, f)
      PROVE  MuxInv'
  BY <1>3, <1>10 DEF PumpDies, PumpEnds, heldVars, taskVars, Deliver, muxVars
<1> QED
  BY <1>4, <1>5, <1>6, <1>7, <1>8, <1>9, <1>10, AllocStays DEF Next, TaskStep, Sends

-----------------------------------------------------------------------------

\* The invariant holds when the engine starts: no tunnel and no flow.
LEMMA InitHolds == ASSUME Init PROVE IInv
<1>1. MuxTypes /\ HeldTypes
  BY MuxAssumption, SidNumbers DEF Init, MuxInit, MuxTypes, HeldTypes
<1>2. TypeOK
  <2>1. TaskTypes
    BY FlowsAssumption DEF Init, TaskTypes, Places
  <2> QED BY <1>1, <2>1 DEF TypeOK, MuxTypes, HeldTypes, TaskTypes
<1>3. Placed
  BY DEF Init, MuxInit, Placed, Holding, Numbered
<1>4. FlowsAccounted
  <2>1. Tasks = {} /\ Cardinality(Tasks) = 0
    BY FS_EmptySet DEF Init, Tasks
  <2>2. \A k \in Keys, f \in Flows : table[k] # f
    BY MuxAssumption DEF Init
  <2> QED BY <2>1, <2>2, FlowsAssumption DEF Init, FlowsAccounted
<1>5. MuxInv
  <2>1. StreamsHeld
    <3>1. \A m \in Muxes : Registered(m) = {} /\ MaxSids[m] \in Nat
      BY MuxAssumption DEF Init, MuxInit, Registered, Muxes
    <3>2. \A m \in Muxes, i \in Sids : streams[m][i] = None
      BY DEF Init, MuxInit
    <3> QED BY <3>1, <3>2, FS_EmptySet DEF StreamsHeld
  <2>2. Window /\ SidsApart
    BY DEF Init, MuxInit, Window, SidsApart
  <2> QED BY <2>1, <2>2 DEF MuxInv
<1> QED BY <1>2, <1>3, <1>4, <1>5 DEF IInv

\* The inductive invariant of the flows and their tunnels.
LEMMA FlowsInvariant == Spec => []IInv
<1>1. Init => IInv
  BY InitHolds
<1>2. IInv /\ [Next]_vars => IInv'
  <2> SUFFICES ASSUME IInv, [Next]_vars PROVE IInv'
    OBVIOUS
  <2>1. CASE Next
    BY <2>1, TypesKept, PlacedKept, AccountKept, MuxKept DEF IInv
  <2>2. CASE UNCHANGED vars
    <3>1. UNCHANGED muxVars /\ UNCHANGED taskVars /\ UNCHANGED <<table, flowCount, listed, fed>>
      BY <2>2 DEF vars
    <3>2. TypeOK' /\ Placed'
      BY <3>1 DEF IInv, TypeOK, Placed, muxVars, taskVars
    <3>3. FlowsAccounted'
      BY <3>1 DEF IInv, FlowsAccounted, Tasks, taskVars
    <3>4. MuxInv'
      <4>1. \A m \in Muxes : Upcoming(m)' = Upcoming(m)
        BY <3>1 DEF Upcoming, muxVars
      <4> QED BY <3>1, <4>1, MuxStays DEF IInv, OnStream, muxVars, taskVars
    <3> QED BY <3>2, <3>3, <3>4 DEF IInv
  <2> QED BY <2>1, <2>2
<1> QED BY <1>1, <1>2, PTL DEF Spec

\* No way through udp_flow_relay leaves an entry of the flow table, a record of
\* the monitor or a stream of a shared tunnel behind, and the flows and streams
\* stay within their limits.
THEOREM FlowsLeaveNothing == Spec => []NothingLeaks
<1>1. IInv => NothingLeaks
  BY DEF IInv, MuxInv, NothingLeaks
<1> QED BY <1>1, FlowsInvariant, PTL

\* Two flows of a tunnel hold the same id of alloc_sid only a whole round of the
\* counter apart; till the counter has come round, a flow on its stream is found
\* under its id.
THEOREM SidsStayApart == Spec => []SidsApart
<1>1. IInv => SidsApart
  BY DEF IInv, MuxInv
<1> QED BY <1>1, FlowsInvariant, PTL

-----------------------------------------------------------------------------
(* Datagrams: what a packet, a frame and a checksum come to. *)

\* Induction: a set with 0 and with the successors of its members has all.
LEMMA Upward ==
  ASSUME NEW T, 0 \in T, \A n \in Nat : n \in T => n + 1 \in T
  PROVE  \A n \in Nat : n \in T
<1>. SUFFICES ASSUME NEW n \in Nat, n \notin T PROVE FALSE
  OBVIOUS
<1>. DEFINE Below(x) == 0..x
            F == {Below(x) : x \in {y \in 0..n : y \notin T}}
<1>1. IsWellFoundedOn(StrictSubsetOrdering(0..n), FiniteSubsetsOf(0..n))
  BY FS_StrictSubsetOrderingWellFounded
<1>2. F \subseteq FiniteSubsetsOf(0..n) /\ F # {}
  <2>1. \A x \in 0..n : IsFiniteSet(0..x)
    BY FS_Interval
  <2> QED BY <2>1 DEF FiniteSubsetsOf
<1>3. PICK B \in F : \A C \in F : ~(<<C, B>> \in StrictSubsetOrdering(0..n))
  <2>. HIDE DEF F
  <2> QED BY <1>1, <1>2, WFMin
<1>4. PICK x \in 0..n : x \notin T /\ B = Below(x)
  BY <1>3
<1>5. x - 1 \in Nat /\ x - 1 \in 0..n /\ (x - 1) + 1 = x
  BY <1>4
<1>6. x - 1 \in T
  <2>1. SUFFICES ASSUME x - 1 \notin T PROVE FALSE
    OBVIOUS
  <2>2. Below(x - 1) \in F
    BY <1>5, <2>1
  <2>3. Below(x - 1) \subseteq Below(x) /\ Below(x - 1) # Below(x) /\ Below(x) \subseteq 0..n
    <3>1. x \in Below(x) /\ x \notin Below(x - 1)
      OBVIOUS
    <3> QED BY <3>1
  <2>4. <<Below(x - 1), B>> \in StrictSubsetOrdering(0..n)
    BY <1>4, <2>3 DEF StrictSubsetOrdering
  <2> QED BY <1>3, <2>2, <2>4
<1> QED BY <1>4, <1>5, <1>6

-----------------------------------------------------------------------------
(* Strings of bytes. *)

Str == Seq(Nat)

\* What b holds at place i: it is there in b, whole.
Holds(b, i, part) == i + Len(part) <= Len(b) /\ \A k \in 1..Len(part) : b[i + k] = part[k]

LEMMA SeqWiden == ASSUME NEW S, NEW T, S \subseteq T, NEW x \in Seq(S) PROVE x \in Seq(T)
<1>1. Len(x) \in Nat /\ DOMAIN x = 1..Len(x) /\ \A k \in 1..Len(x) : x[k] \in S
  OBVIOUS
<1>2. x \in [1..Len(x) -> T]
  BY <1>1
<1> QED BY <1>1, <1>2

LEMMA StrOf == \A x \in Seq(Byte) : x \in Str
<1>1. Byte \subseteq Nat
  BY DEF Byte
<1> QED BY <1>1, SeqWiden DEF Str

LEMMA StrShape ==
  ASSUME NEW x \in Str
  PROVE  Len(x) \in Nat /\ DOMAIN x = 1..Len(x) /\ \A k \in 1..Len(x) : x[k] \in Nat
BY DEF Str

LEMMA StrEqual ==
  ASSUME NEW x \in Str, NEW y \in Str, Len(x) = Len(y), \A k \in 1..Len(x) : x[k] = y[k]
  PROVE  x = y
BY DEF Str

LEMMA CatStr ==
  ASSUME NEW x \in Str, NEW y \in Str
  PROVE  /\ x \o y \in Str /\ Len(x \o y) = Len(x) + Len(y)
         /\ Holds(x \o y, 0, x) /\ Holds(x \o y, Len(x), y)
<1>1. x \o y \in Str /\ Len(x \o y) = Len(x) + Len(y)
  BY DEF Str
<1>2. \A k \in 1..Len(x) : (x \o y)[k] = x[k]
  BY DEF Str
<1>3. \A k \in 1..Len(y) : (x \o y)[Len(x) + k] = y[k]
  BY DEF Str
<1>4. Len(x) \in Nat /\ Len(y) \in Nat
  BY DEF Str
<1> QED BY <1>1, <1>2, <1>3, <1>4 DEF Holds

LEMMA CatAssoc ==
  ASSUME NEW x \in Str, NEW y \in Str, NEW z \in Str
  PROVE  (x \o y) \o z = x \o (y \o z)
BY DEF Str

LEMMA CatEmpty == ASSUME NEW x \in Str PROVE x \o <<>> = x /\ <<>> \o x = x
BY DEF Str

LEMMA SubStr ==
  ASSUME NEW b \in Str, NEW i \in Nat, NEW n \in Nat, i + n <= Len(b)
  PROVE  /\ SubSeq(b, i + 1, i + n) \in Str /\ Len(SubSeq(b, i + 1, i + n)) = n
         /\ Holds(b, i, SubSeq(b, i + 1, i + n))
<1>1. Len(b) \in Nat /\ \A k \in 1..n : i + k \in 1..Len(b) /\ b[i + k] \in Nat
  BY StrShape
<1>. DEFINE p == [k \in 1..n |-> b[i + k]]
<1>2. p \in Str /\ Len(p) = n
  <2>1. p \in [1..n -> Nat]
    BY <1>1
  <2>. HIDE DEF p
  <2> QED BY <2>1 DEF Str
<1>3. SubSeq(b, i + 1, i + n) = p
  <2>1. (i + n) - (i + 1) + 1 = n /\ \A k \in 1..n : (i + 1) + k - 1 = i + k
    OBVIOUS
  <2>2. SubSeq(b, i + 1, i + n) = [k \in 1..((i + n) - (i + 1) + 1) |-> b[(i + 1) + k - 1]]
    OBVIOUS
  <2> QED BY <2>1, <2>2
<1>4. Holds(b, i, p)
  <2>1. \A k \in 1..n : b[i + k] = p[k]
    OBVIOUS
  <2>. HIDE DEF p
  <2> QED BY <1>2, <2>1 DEF Holds
<1> QED BY <1>2, <1>3, <1>4

LEMMA HoldsSub ==
  ASSUME NEW b \in Str, NEW i \in Nat, NEW part \in Str, Holds(b, i, part)
  PROVE  SubSeq(b, i + 1, i + Len(part)) = part
<1>1. Len(part) \in Nat /\ i + Len(part) <= Len(b)
  BY StrShape DEF Holds
<1>. DEFINE s == SubSeq(b, i + 1, i + Len(part))
<1>2. s \in Str /\ Len(s) = Len(part) /\ Holds(b, i, s)
  BY <1>1, SubStr
<1>. HIDE DEF s
<1>3. \A k \in 1..Len(s) : s[k] = part[k]
  BY <1>2 DEF Holds
<1>4. s = part
  BY <1>2, <1>3, StrEqual
<1> QED BY <1>4 DEF s

\* A part of a part is a part, further on.
LEMMA HoldsIn ==
  ASSUME NEW b \in Str, NEW i \in Nat, NEW mid \in Str, Holds(b, i, mid),
         NEW j \in Nat, NEW part \in Str, Holds(mid, j, part)
  PROVE  Holds(b, i + j, part)
<1>1. Len(b) \in Nat /\ Len(mid) \in Nat /\ Len(part) \in Nat
  BY StrShape
<1>2. (i + j) + Len(part) <= Len(b)
  BY <1>1 DEF Holds
<1>3. ASSUME NEW k \in 1..Len(part) PROVE b[(i + j) + k] = part[k]
  <2>1. j + k \in 1..Len(mid) /\ i + (j + k) = (i + j) + k
    BY <1>1 DEF Holds
  <2>2. b[i + (j + k)] = mid[j + k] /\ mid[j + k] = part[k]
    BY <2>1 DEF Holds
  <2> QED BY <2>1, <2>2
<1> QED BY <1>2, <1>3 DEF Holds

LEMMA SplitStr ==
  ASSUME NEW b \in Str, NEW i \in Nat, i <= Len(b)
  PROVE  /\ SubSeq(b, 1, i) \in Str /\ SubSeq(b, i + 1, Len(b)) \in Str
         /\ Len(SubSeq(b, 1, i)) = i /\ Len(SubSeq(b, i + 1, Len(b))) = Len(b) - i
         /\ b = SubSeq(b, 1, i) \o SubSeq(b, i + 1, Len(b))
<1>1. Len(b) \in Nat /\ Len(b) - i \in Nat /\ i + (Len(b) - i) = Len(b) /\ 0 + i = i /\ 0 + 1 = 1
  BY StrShape
<1>. DEFINE x == SubSeq(b, 1, i)
            y == SubSeq(b, i + 1, Len(b))
<1>2. x \in Str /\ Len(x) = i /\ Holds(b, 0, x)
  <2>1. /\ SubSeq(b, 0 + 1, 0 + i) \in Str /\ Len(SubSeq(b, 0 + 1, 0 + i)) = i
        /\ Holds(b, 0, SubSeq(b, 0 + 1, 0 + i))
    BY <1>1, SubStr
  <2> QED BY <1>1, <2>1
<1>3. y \in Str /\ Len(y) = Len(b) - i /\ Holds(b, i, y)
  <2>. DEFINE n == Len(b) - i
  <2>1. n \in Nat /\ i + n = Len(b) /\ i + n <= Len(b)
    BY <1>1
  <2>. HIDE DEF n
  <2>2. /\ SubSeq(b, i + 1, i + n) \in Str /\ Len(SubSeq(b, i + 1, i + n)) = n
        /\ Holds(b, i, SubSeq(b, i + 1, i + n))
    BY <2>1, SubStr
  <2>3. SubSeq(b, i + 1, i + n) = y
    BY <2>1
  <2>4. y \in Str /\ Len(y) = n /\ Holds(b, i, y)
    BY <2>2, <2>3
  <2> QED BY <2>4 DEF n
<1>. HIDE DEF x, y
<1>4. /\ x \o y \in Str /\ Len(x \o y) = Len(b)
      /\ Holds(x \o y, 0, x) /\ Holds(x \o y, i, y)
  BY <1>1, <1>2, <1>3, CatStr
<1>5. ASSUME NEW k \in 1..Len(b) PROVE b[k] = (x \o y)[k]
  <2>1. CASE k <= i
    <3>1. k \in 1..Len(x) /\ 0 + k = k
      BY <1>2, <2>1
    <3> QED BY <1>2, <1>4, <3>1 DEF Holds
  <2>2. CASE ~(k <= i)
    <3>1. k - i \in 1..Len(y) /\ i + (k - i) = k
      BY <1>1, <1>3, <2>2
    <3> QED BY <1>3, <1>4, <3>1 DEF Holds
  <2> QED BY <2>1, <2>2
<1>6. b = x \o y
  BY <1>4, <1>5, StrEqual
<1> QED BY <1>2, <1>3, <1>6 DEF x, y

-----------------------------------------------------------------------------
(* Frames are cut off the same whatever the chunks. *)

FrameEnd(b, i) == i + 2 + Number(b, i + 1)
FrameAt(b, i) == SubSeq(b, i + 3, FrameEnd(b, i))
Stops(b, i, mux) ==
  i + 2 > Len(b) \/ FrameEnd(b, i) > Len(b) \/ (~mux /\ Bare(FrameAt(b, i)))
CutStep(b, mux, f, i) ==
  IF Stops(b, i, mux) THEN [rest |-> SubSeq(b, i + 1, Len(b)), got |-> <<>>]
  ELSE IF Carries(FrameAt(b, i), mux) = <<>> THEN f[FrameEnd(b, i)]
  ELSE [rest |-> f[FrameEnd(b, i)].rest,
        got  |-> <<Carries(FrameAt(b, i), mux)>> \o f[FrameEnd(b, i)].got]
CutFrom(b, mux) == CHOOSE f : f = [i \in 0..Len(b) |-> CutStep(b, mux, f, i)]

Cutting == [rest : Str, got : Seq(Str)]

LEMMA DrainedIs == \A b, mux : Drained(b, mux) = CutFrom(b, mux)[0]
BY DEF Drained, CutFrom, CutStep, Stops, FrameEnd, FrameAt

LEMMA EmptyStr == <<>> \in Str /\ \A x \in Str : Len(x) = 0 <=> x = <<>>
BY DEF Str

LEMMA TailStr ==
  ASSUME NEW x \in Str, NEW i \in Nat
  PROVE  SubSeq(x, i + 1, Len(x)) \in Str
<1>1. CASE i <= Len(x)
  BY <1>1, SplitStr
<1>2. CASE ~(i <= Len(x))
  <2>1. Len(x) \in Nat /\ i + 1 > Len(x)
    BY <1>2, StrShape
  <2>2. SubSeq(x, i + 1, Len(x)) = <<>>
    BY <2>1
  <2> QED BY <2>2, EmptyStr
<1> QED BY <1>1, <1>2

LEMMA PayloadStr == ASSUME NEW inner \in Str PROVE PayloadOf(inner) \in Str
<1>1. CASE inner = <<>> \/ Bare(inner)
  BY <1>1, EmptyStr DEF PayloadOf
<1>2. CASE ~(inner = <<>> \/ Bare(inner))
  <2>1. Len(inner) \in Nat /\ Len(inner) # 0 /\ \A k \in 1..Len(inner) : inner[k] \in Nat
    BY <1>2, StrShape, EmptyStr
  <2>2. inner[1] \in Nat /\ (inner[1] = 3 => inner[2] \in Nat)
    <3>1. 1 \in 1..Len(inner)
      BY <2>1
    <3>2. ASSUME inner[1] = 3, Len(inner) = 1 PROVE FALSE
      <4>1. <<3>> \in Str /\ Len(<<3>>) = 1 /\ <<3>>[1] = 3
        BY DEF Str
      <4>2. \A k \in 1..1 : k = 1
        OBVIOUS
      <4>3. inner = <<3>>
        BY <3>2, <4>1, <4>2, StrEqual
      <4> QED BY <1>2, <4>3 DEF Bare
    <3>3. inner[1] = 3 => 2 \in 1..Len(inner)
      BY <2>1, <3>2
    <3> QED BY <2>1, <3>1, <3>3
  <2>3. Offset(inner) \in Nat
    BY <2>1, <2>2 DEF Offset
  <2>4. PayloadOf(inner) = SubSeq(inner, Offset(inner) + 1, Len(inner))
    BY <1>2 DEF PayloadOf
  <2> QED BY <2>3, <2>4, TailStr
<1> QED BY <1>1, <1>2

LEMMA CarriesStr == ASSUME NEW body \in Str, NEW mux PROVE Carries(body, mux) \in Str
<1>1. SubSeq(body, 4 + 1, Len(body)) \in Str
  BY TailStr
<1>2. 4 + 1 = 5
  OBVIOUS
<1> QED BY <1>1, <1>2, PayloadStr, EmptyStr DEF Carries

LEMMA FrameFits ==
  ASSUME NEW b \in Str, NEW i \in Nat, NEW mux, ~Stops(b, i, mux)
  PROVE  /\ FrameEnd(b, i) \in Nat /\ i + 2 <= FrameEnd(b, i) /\ FrameEnd(b, i) <= Len(b)
         /\ FrameAt(b, i) \in Str /\ Carries(FrameAt(b, i), mux) \in Str
<1>1. Len(b) \in Nat /\ i + 2 <= Len(b)
  BY StrShape DEF Stops
<1>2. Number(b, i + 1) \in Nat
  <2>1. i + 1 \in 1..Len(b) /\ (i + 1) + 1 \in 1..Len(b)
    BY <1>1
  <2>2. b[i + 1] \in Nat /\ b[(i + 1) + 1] \in Nat
    BY <2>1, StrShape
  <2> QED BY <2>2 DEF Number
<1>. DEFINE n == Number(b, i + 1)
<1>. HIDE DEF n
<1>3. FrameEnd(b, i) = i + 2 + n /\ n \in Nat
  BY <1>2 DEF FrameEnd, n
<1>4. FrameEnd(b, i) \in Nat /\ i + 2 <= FrameEnd(b, i) /\ FrameEnd(b, i) <= Len(b)
  BY <1>1, <1>3 DEF Stops
<1>5. FrameAt(b, i) \in Str
  <2>1. (i + 2) + 1 = i + 3 /\ (i + 2) + n = FrameEnd(b, i) /\ i + 2 \in Nat /\ (i + 2) + n <= Len(b)
    BY <1>3, <1>4
  <2>2. SubSeq(b, (i + 2) + 1, (i + 2) + n) \in Str
    BY <1>3, <2>1, SubStr
  <2> QED BY <2>1, <2>2 DEF FrameAt
<1> QED BY <1>4, <1>5, CarriesStr

LEMMA CutTyped ==
  ASSUME NEW b \in Str, NEW i \in 0..Len(b), NEW mux, NEW f,
         ~Stops(b, i, mux) => f[FrameEnd(b, i)] \in Cutting
  PROVE  CutStep(b, mux, f, i) \in Cutting
<1>0. i \in Nat
  BY StrShape
<1>1. CASE Stops(b, i, mux)
  <2>1. SubSeq(b, i + 1, Len(b)) \in Str /\ <<>> \in Seq(Str)
    BY <1>0, TailStr
  <2>2. CutStep(b, mux, f, i) = [rest |-> SubSeq(b, i + 1, Len(b)), got |-> <<>>]
    BY <1>1 DEF CutStep
  <2> QED BY <2>1, <2>2 DEF Cutting
<1>2. CASE ~Stops(b, i, mux)
  <2>. DEFINE r == f[FrameEnd(b, i)]
              c == Carries(FrameAt(b, i), mux)
  <2>1. c \in Str /\ r \in Cutting
    BY <1>0, <1>2, FrameFits
  <2>2. CutStep(b, mux, f, i) = IF c = <<>> THEN r ELSE [rest |-> r.rest, got |-> <<c>> \o r.got]
    BY <1>2 DEF CutStep
  <2>. HIDE DEF r, c
  <2>3. r.rest \in Str /\ <<c>> \o r.got \in Seq(Str)
    BY <2>1 DEF Cutting
  <2> QED BY <2>1, <2>2, <2>3 DEF Cutting
<1> QED BY <1>1, <1>2

LEMMA CutsEnd ==
  ASSUME NEW b \in Str, NEW mux
  PROVE  \A i \in 0..Len(b) : /\ CutFrom(b, mux)[i] = CutStep(b, mux, CutFrom(b, mux), i)
                              /\ CutFrom(b, mux)[i] \in Cutting
<1>. DEFINE N == Len(b)
            Ahead(k) == {i \in 0..N : i + k >= N}
            Walk(S, f) == [i \in S |-> CutStep(b, mux, f, i)]
            T == {k \in Nat : \E f : f = Walk(Ahead(k), f)}
<1>0. N \in Nat
  BY StrShape
<1>. HIDE DEF N
<1>1. ASSUME NEW i \in 0..N, Stops(b, i, mux), NEW f, NEW g PROVE CutStep(b, mux, f, i) = CutStep(b, mux, g, i)
  BY <1>1 DEF CutStep
<1>2. ASSUME NEW i \in 0..N, NEW k \in Nat, i \in Ahead(k + 1), ~Stops(b, i, mux)
      PROVE  FrameEnd(b, i) \in Ahead(k)
  <2>1. i \in Nat /\ FrameEnd(b, i) \in Nat /\ i + 2 <= FrameEnd(b, i) /\ FrameEnd(b, i) <= N
    BY <1>0, <1>2, FrameFits DEF N
  <2> QED BY <1>0, <1>2, <2>1
<1>3. 0 \in T
  <2>. DEFINE g == [i \in Ahead(0) |-> [rest |-> SubSeq(b, i + 1, Len(b)), got |-> <<>>]]
  <2>1. ASSUME NEW i \in Ahead(0) PROVE CutStep(b, mux, g, i) = [rest |-> SubSeq(b, i + 1, Len(b)), got |-> <<>>]
    <3>1. i \in Nat /\ i + 2 > N
      BY <1>0
    <3>2. Stops(b, i, mux)
      BY <3>1 DEF Stops, N
    <3> QED BY <3>2 DEF CutStep
  <2>2. g = Walk(Ahead(0), g)
    <3>. HIDE DEF Ahead
    <3> QED BY <2>1
  <2>. HIDE DEF g, Walk, Ahead
  <2> QED BY <2>2
<1>4. ASSUME NEW k \in Nat, k \in T PROVE k + 1 \in T
  <2>1. PICK f : f = Walk(Ahead(k), f)
    BY <1>4
  <2>. DEFINE g == [i \in Ahead(k + 1) |-> IF i \in Ahead(k) THEN f[i] ELSE CutStep(b, mux, f, i)]
  <2>0. Ahead(k) \subseteq Ahead(k + 1) /\ Ahead(k + 1) \subseteq 0..N
    BY <1>0
  <2>2. ASSUME NEW i \in Ahead(k + 1) PROVE CutStep(b, mux, f, i) = CutStep(b, mux, g, i)
    <3>1. CASE Stops(b, i, mux)
      BY <1>1, <2>0, <3>1
    <3>2. CASE ~Stops(b, i, mux)
      <4>1. FrameEnd(b, i) \in Ahead(k) /\ FrameEnd(b, i) \in Ahead(k + 1)
        BY <1>2, <2>0, <3>2
      <4>2. g[FrameEnd(b, i)] = f[FrameEnd(b, i)]
        <5>. HIDE DEF Ahead
        <5> QED BY <4>1
      <4>. HIDE DEF g
      <4> QED BY <4>2 DEF CutStep
    <3> QED BY <3>1, <3>2
  <2>3. ASSUME NEW i \in Ahead(k + 1) PROVE g[i] = CutStep(b, mux, f, i)
    <3>. HIDE DEF Ahead
    <3> QED BY <2>1
  <2>4. ASSUME NEW i \in Ahead(k + 1) PROVE g[i] = CutStep(b, mux, g, i)
    <3>. HIDE DEF g, Ahead
    <3> QED BY <2>2, <2>3
  <2>5. g = Walk(Ahead(k + 1), g)
    <3>1. g = [i \in Ahead(k + 1) |-> g[i]]
      OBVIOUS
    <3>. HIDE DEF g, Ahead
    <3> QED BY <2>4, <3>1
  <2>. HIDE DEF g, Walk, Ahead
  <2> QED BY <2>5
<1>5. \E f : f = Walk(0..N, f)
  <2>1. N \in T
    <3>. HIDE DEF T
    <3> QED BY <1>0, <1>3, <1>4, Upward
  <2>2. Ahead(N) = 0..N
    BY <1>0
  <2>. HIDE DEF Walk, Ahead
  <2> QED BY <2>1, <2>2
<1>. DEFINE f == CutFrom(b, mux)
<1>6. f = Walk(0..N, f)
  <2>1. f = CHOOSE h : h = Walk(0..N, h)
    BY DEF CutFrom, N
  <2>. HIDE DEF Walk, f
  <2> QED BY <1>5, <2>1
<1>. HIDE DEF f
<1>7. \A i \in 0..N : f[i] = CutStep(b, mux, f, i)
  BY <1>6
<1>. DEFINE Q == {k \in Nat : \A i \in 0..N : i + k >= N => f[i] \in Cutting}
<1>8. 0 \in Q
  <2>. SUFFICES ASSUME NEW i \in 0..N, i + 0 >= N PROVE f[i] \in Cutting
    OBVIOUS
  <2>1. i \in Nat /\ i + 2 > N
    BY <1>0
  <2>2. Stops(b, i, mux)
    BY <2>1 DEF Stops, N
  <2> QED BY <1>7, <2>2, CutTyped DEF N
<1>9. ASSUME NEW k \in Nat, k \in Q PROVE k + 1 \in Q
  <2>. SUFFICES ASSUME NEW i \in 0..N, i + (k + 1) >= N PROVE f[i] \in Cutting
    OBVIOUS
  <2>1. i \in Ahead(k + 1)
    OBVIOUS
  <2>2. ~Stops(b, i, mux) => f[FrameEnd(b, i)] \in Cutting
    <3>1. ASSUME ~Stops(b, i, mux) PROVE FrameEnd(b, i) \in Ahead(k)
      BY <1>2, <2>1, <3>1
    <3> QED BY <1>9, <3>1
  <2>. HIDE DEF Q
  <2> QED BY <1>7, <2>2, CutTyped DEF N
<1>10. \A i \in 0..N : f[i] \in Cutting
  <2>1. N \in Q
    <3>. HIDE DEF Q
    <3> QED BY <1>0, <1>8, <1>9, Upward
  <2>2. \A i \in 0..N : i + N >= N
    BY <1>0
  <2> QED BY <2>1, <2>2
<1> QED BY <1>7, <1>10 DEF f, N

LEMMA DrainedFits ==
  ASSUME NEW b \in Str, NEW mux
  PROVE  Drained(b, mux) \in Cutting
<1>1. 0 \in 0..Len(b)
  BY StrShape
<1> QED BY <1>1, CutsEnd, DrainedIs

LEMMA CatHolds ==
  ASSUME NEW x \in Str, NEW y \in Str, NEW i \in Nat, NEW p \in Str
  PROVE  /\ Holds(x, i, p) => Holds(x \o y, i, p)
         /\ Holds(y, i, p) => Holds(x \o y, Len(x) + i, p)
<1>1. x \o y \in Str /\ Holds(x \o y, 0, x) /\ Holds(x \o y, Len(x), y) /\ 0 \in Nat /\ Len(x) \in Nat
  BY CatStr, StrShape
<1>2. Holds(x, i, p) => Holds(x \o y, 0 + i, p)
  BY <1>1, HoldsIn
<1>3. Holds(y, i, p) => Holds(x \o y, Len(x) + i, p)
  BY <1>1, HoldsIn
<1>4. 0 + i = i
  OBVIOUS
<1> QED BY <1>2, <1>3, <1>4

LEMMA HoldsSame ==
  ASSUME NEW b \in Str, NEW p \in Nat, NEW w \in Str, Holds(b, p, w)
  PROVE  \A i, n \in Nat : i + n <= Len(w) =>
           SubSeq(b, (p + i) + 1, (p + i) + n) = SubSeq(w, i + 1, i + n)
<1>. SUFFICES ASSUME NEW i \in Nat, NEW n \in Nat, i + n <= Len(w)
              PROVE  SubSeq(b, (p + i) + 1, (p + i) + n) = SubSeq(w, i + 1, i + n)
  OBVIOUS
<1>. DEFINE s == SubSeq(w, i + 1, i + n)
<1>1. s \in Str /\ Len(s) = n /\ Holds(w, i, s)
  BY SubStr
<1>. HIDE DEF s
<1>2. Holds(b, p + i, s) /\ p + i \in Nat
  BY <1>1, HoldsIn
<1>3. SubSeq(b, (p + i) + 1, (p + i) + Len(s)) = s
  BY <1>1, <1>2, HoldsSub
<1> QED BY <1>1, <1>3 DEF s

LEMMA HoldsTail ==
  ASSUME NEW b \in Str, NEW p \in Nat, NEW w \in Str, Holds(b, p, w), Len(b) = p + Len(w),
         NEW i \in Nat, i <= Len(w)
  PROVE  SubSeq(b, (p + i) + 1, Len(b)) = SubSeq(w, i + 1, Len(w))
<1>1. ASSUME NEW n \in Nat, i + n = Len(w)
      PROVE  SubSeq(b, (p + i) + 1, Len(b)) = SubSeq(w, i + 1, Len(w))
  <2>1. (p + i) + n = Len(b) /\ i + n <= Len(w)
    BY <1>1
  <2>2. \A h, m \in Nat : h + m <= Len(w) =>
          SubSeq(b, (p + h) + 1, (p + h) + m) = SubSeq(w, h + 1, h + m)
    BY HoldsSame, ZenonT(30)
  <2>3. SubSeq(b, (p + i) + 1, (p + i) + n) = SubSeq(w, i + 1, i + n)
    BY <2>1, <2>2
  <2> QED BY <1>1, <2>1, <2>3
<1>2. Len(w) - i \in Nat /\ i + (Len(w) - i) = Len(w)
  BY StrShape
<1> QED BY <1>1, <1>2

\* A frame that is whole in a part of b is the same frame in b.
LEMMA SameFrame ==
  ASSUME NEW b \in Str, NEW p \in Nat, NEW w \in Str, Holds(b, p, w), NEW i \in Nat, i + 2 <= Len(w)
  PROVE  /\ FrameEnd(b, p + i) = p + FrameEnd(w, i)
         /\ FrameEnd(w, i) \in Nat /\ i + 2 <= FrameEnd(w, i)
         /\ FrameEnd(w, i) <= Len(w) => FrameAt(b, p + i) = FrameAt(w, i)
<1>1. i + 1 \in 1..Len(w) /\ (i + 1) + 1 \in 1..Len(w) /\ p + (i + 1) = (p + i) + 1
      /\ p + ((i + 1) + 1) = ((p + i) + 1) + 1
  BY StrShape
<1>2. b[(p + i) + 1] = w[i + 1] /\ b[((p + i) + 1) + 1] = w[(i + 1) + 1]
  BY <1>1 DEF Holds
<1>3. Number(b, (p + i) + 1) = Number(w, i + 1)
  BY <1>2 DEF Number
<1>4. Number(w, i + 1) \in Nat
  <2>1. w[i + 1] \in Nat /\ w[(i + 1) + 1] \in Nat
    BY <1>1, StrShape
  <2> QED BY <2>1 DEF Number
<1>. DEFINE n == Number(w, i + 1)
<1>. HIDE DEF n
<1>5. FrameEnd(w, i) = i + 2 + n /\ FrameEnd(b, p + i) = (p + i) + 2 + n /\ n \in Nat
  BY <1>3, <1>4 DEF FrameEnd, n
<1>6. FrameEnd(b, p + i) = p + FrameEnd(w, i) /\ FrameEnd(w, i) \in Nat /\ i + 2 <= FrameEnd(w, i)
  BY <1>5
<1>7. ASSUME FrameEnd(w, i) <= Len(w) PROVE FrameAt(b, p + i) = FrameAt(w, i)
  <2>1. i + 2 \in Nat /\ (i + 2) + n <= Len(w)
    BY <1>5, <1>7
  <2>2. \A h, m \in Nat : h + m <= Len(w) =>
          SubSeq(b, (p + h) + 1, (p + h) + m) = SubSeq(w, h + 1, h + m)
    BY HoldsSame, ZenonT(30)
  <2>3. /\ (p + (i + 2)) + 1 = (p + i) + 3 /\ (p + (i + 2)) + n = FrameEnd(b, p + i)
        /\ (i + 2) + 1 = i + 3 /\ (i + 2) + n = FrameEnd(w, i)
    BY <1>5
  <2>4. SubSeq(b, (p + (i + 2)) + 1, (p + (i + 2)) + n) = SubSeq(w, (i + 2) + 1, (i + 2) + n)
    BY <1>5, <2>1, <2>2, Zenon
  <2> QED BY <2>3, <2>4 DEF FrameAt
<1> QED BY <1>6, <1>7

\* What is cut off from a place on depends on nothing before it.
LEMMA CutShifts ==
  ASSUME NEW x \in Str, NEW y \in Str, NEW mux
  PROVE  \A j \in 0..Len(y) : CutFrom(x \o y, mux)[Len(x) + j] = CutFrom(y, mux)[j]
<1>. DEFINE z == x \o y
            p == Len(x)
            f == CutFrom(z, mux)
            g == CutFrom(y, mux)
            Q == {k \in Nat : \A j \in 0..Len(y) : j + k >= Len(y) => f[p + j] = g[j]}
<1>1. z \in Str /\ p \in Nat /\ Len(y) \in Nat /\ Len(z) = p + Len(y) /\ Holds(z, p, y)
  BY CatStr, StrShape
<1>2. /\ \A i \in 0..Len(z) : f[i] = CutStep(z, mux, f, i)
      /\ \A i \in 0..Len(y) : g[i] = CutStep(y, mux, g, i)
  BY <1>1, CutsEnd
<1>. HIDE DEF z, p, f, g
<1>3. ASSUME NEW j \in 0..Len(y), ~Stops(y, j, mux) => f[p + FrameEnd(y, j)] = g[FrameEnd(y, j)]
      PROVE  f[p + j] = g[j]
  <2>0. j \in Nat /\ p + j \in 0..Len(z)
    BY <1>1
  <2>1. CASE j + 2 > Len(y)
    <3>1. (p + j) + 2 > Len(z)
      BY <1>1, <2>1
    <3>2. Stops(z, p + j, mux) /\ Stops(y, j, mux)
      BY <2>1, <3>1 DEF Stops
    <3>3. SubSeq(z, (p + j) + 1, Len(z)) = SubSeq(y, j + 1, Len(y))
      BY <1>1, <2>0, HoldsTail
    <3> QED BY <1>2, <2>0, <3>2, <3>3 DEF CutStep
  <2>2. CASE ~(j + 2 > Len(y))
    <3>1. j + 2 <= Len(y) /\ (p + j) + 2 <= Len(z)
      BY <1>1, <2>2
    <3>2. /\ FrameEnd(z, p + j) = p + FrameEnd(y, j) /\ FrameEnd(y, j) \in Nat
          /\ FrameEnd(y, j) <= Len(y) => FrameAt(z, p + j) = FrameAt(y, j)
      BY <1>1, <2>0, <3>1, SameFrame
    <3>3. FrameEnd(z, p + j) > Len(z) <=> FrameEnd(y, j) > Len(y)
      BY <1>1, <3>2
    <3>4. FrameEnd(y, j) > Len(y) \/ FrameEnd(y, j) <= Len(y)
      BY <1>1, <3>2
    <3>5. ~(j + 2 > Len(y)) /\ ~((p + j) + 2 > Len(z))
      BY <1>1, <2>2
    <3>6. Stops(z, p + j, mux) <=> Stops(y, j, mux)
      BY <3>2, <3>3, <3>4, <3>5 DEF Stops
    <3>7. CASE Stops(y, j, mux)
      <4>1. SubSeq(z, (p + j) + 1, Len(z)) = SubSeq(y, j + 1, Len(y))
        BY <1>1, <2>0, HoldsTail
      <4> QED BY <1>2, <2>0, <3>6, <3>7, <4>1 DEF CutStep
    <3>8. CASE ~Stops(y, j, mux)
      <4>1. ~(FrameEnd(y, j) > Len(y))
        BY <3>8 DEF Stops
      <4>2. FrameAt(z, p + j) = FrameAt(y, j)
        BY <3>2, <3>4, <4>1
      <4>3. f[FrameEnd(z, p + j)] = g[FrameEnd(y, j)]
        BY <1>3, <3>2, <3>8
      <4> QED BY <1>2, <2>0, <3>6, <3>8, <4>2, <4>3 DEF CutStep
    <3> QED BY <3>7, <3>8
  <2> QED BY <2>1, <2>2
<1>4. 0 \in Q
  <2>. SUFFICES ASSUME NEW j \in 0..Len(y), j + 0 >= Len(y) PROVE f[p + j] = g[j]
    OBVIOUS
  <2>1. j + 2 > Len(y)
    BY <1>1
  <2>2. Stops(y, j, mux)
    BY <2>1 DEF Stops
  <2> QED BY <1>3, <2>2
<1>5. ASSUME NEW k \in Nat, k \in Q PROVE k + 1 \in Q
  <2>. SUFFICES ASSUME NEW j \in 0..Len(y), j + (k + 1) >= Len(y) PROVE f[p + j] = g[j]
    OBVIOUS
  <2>1. ASSUME ~Stops(y, j, mux) PROVE f[p + FrameEnd(y, j)] = g[FrameEnd(y, j)]
    <3>1. j \in Nat
      BY <1>1
    <3>2. FrameEnd(y, j) \in Nat /\ j + 2 <= FrameEnd(y, j) /\ FrameEnd(y, j) <= Len(y)
      BY <2>1, <3>1, FrameFits
    <3>3. FrameEnd(y, j) \in 0..Len(y) /\ FrameEnd(y, j) + k >= Len(y)
      BY <1>1, <3>1, <3>2
    <3> QED BY <1>5, <3>3
  <2>. HIDE DEF Q
  <2> QED BY <1>3, <2>1
<1>6. ASSUME NEW j \in 0..Len(y) PROVE f[p + j] = g[j]
  <2>1. Len(y) \in Q
    <3>. HIDE DEF Q
    <3> QED BY <1>1, <1>4, <1>5, Upward
  <2>2. j + Len(y) >= Len(y)
    BY <1>1
  <2> QED BY <2>1, <2>2
<1> QED BY <1>6 DEF f, g, p, z

LEMMA HeadApart ==
  ASSUME NEW c \in Str, NEW x \in Seq(Str), NEW y \in Seq(Str)
  PROVE  <<c>> \o (x \o y) = (<<c>> \o x) \o y
OBVIOUS

\* Where a runs out, from place i on, and how the cutting of a \o b goes on there.
GoesOn(a, b, mux) ==
  \A i \in 0..Len(a) : \E j \in 0..Len(a) :
    /\ Stops(a, j, mux)
    /\ CutFrom(a, mux)[i].rest = SubSeq(a, j + 1, Len(a))
    /\ CutFrom(a \o b, mux)[i] =
         [rest |-> CutFrom(a \o b, mux)[j].rest,
          got  |-> CutFrom(a, mux)[i].got \o CutFrom(a \o b, mux)[j].got]

\* A frame followed by more bytes is still a frame: the cutting of a goes on in
\* a \o b where a alone ran out.
LEMMA CutGoesOn ==
  ASSUME NEW a \in Str, NEW b \in Str, NEW mux
  PROVE  GoesOn(a, b, mux)
<1>. DEFINE z == a \o b
            f == CutFrom(a, mux)
            g == CutFrom(z, mux)
            RunsOut(i, j) == /\ Stops(a, j, mux)
                          /\ f[i].rest = SubSeq(a, j + 1, Len(a))
                          /\ g[i] = [rest |-> g[j].rest, got |-> f[i].got \o g[j].got]
            Q == {k \in Nat : \A i \in 0..Len(a) : i + k >= Len(a) => \E j \in 0..Len(a) : RunsOut(i, j)}
<1>1. z \in Str /\ Len(a) \in Nat /\ Len(b) \in Nat /\ Len(z) = Len(a) + Len(b) /\ Holds(z, 0, a)
  BY CatStr, StrShape
<1>2. /\ \A i \in 0..Len(a) : f[i] = CutStep(a, mux, f, i) /\ f[i] \in Cutting
      /\ \A i \in 0..Len(z) : g[i] = CutStep(z, mux, g, i) /\ g[i] \in Cutting
  BY <1>1, CutsEnd
<1>. HIDE DEF z, f, g
<1>3. ASSUME NEW i \in 0..Len(a), Stops(a, i, mux) PROVE RunsOut(i, i)
  <2>1. f[i] = [rest |-> SubSeq(a, i + 1, Len(a)), got |-> <<>>]
    BY <1>2, <1>3 DEF CutStep
  <2>2. g[i] \in Cutting
    BY <1>1, <1>2
  <2>3. <<>> \o g[i].got = g[i].got
    BY <2>2 DEF Cutting
  <2>4. g[i] = [rest |-> g[i].rest, got |-> g[i].got]
    BY <2>2 DEF Cutting
  <2> QED BY <1>3, <2>1, <2>3, <2>4
<1>4. ASSUME NEW i \in 0..Len(a), ~Stops(a, i, mux),
             NEW j \in 0..Len(a), RunsOut(FrameEnd(a, i), j)
      PROVE  RunsOut(i, j)
  <2>1. i \in Nat /\ i \in 0..Len(z) /\ i + 2 <= Len(a) /\ ~(i + 2 > Len(a)) /\ ~(i + 2 > Len(z)) /\ 0 + i = i
    BY <1>1, <1>4 DEF Stops
  <2>2. /\ FrameEnd(a, i) \in Nat /\ FrameEnd(a, i) <= Len(a)
        /\ FrameAt(a, i) \in Str /\ Carries(FrameAt(a, i), mux) \in Str
    BY <1>4, <2>1, FrameFits
  <2>3. FrameEnd(z, i) = FrameEnd(a, i) /\ FrameAt(z, i) = FrameAt(a, i)
    <3>1. /\ FrameEnd(z, 0 + i) = 0 + FrameEnd(a, i)
          /\ FrameEnd(a, i) <= Len(a) => FrameAt(z, 0 + i) = FrameAt(a, i)
      BY <1>1, <2>1, SameFrame
    <3> QED BY <2>1, <2>2, <3>1
  <2>4. ~Stops(z, i, mux)
    <3>1. ~(FrameEnd(z, i) > Len(z))
      BY <1>1, <2>2, <2>3
    <3> QED BY <1>4, <2>1, <2>3, <3>1 DEF Stops
  <2>. DEFINE e == FrameEnd(a, i)
              c == Carries(FrameAt(a, i), mux)
  <2>5. /\ f[i] = IF c = <<>> THEN f[e] ELSE [rest |-> f[e].rest, got |-> <<c>> \o f[e].got]
        /\ g[i] = IF c = <<>> THEN g[e] ELSE [rest |-> g[e].rest, got |-> <<c>> \o g[e].got]
    BY <1>2, <1>4, <2>1, <2>3, <2>4 DEF CutStep
  <2>6. e \in 0..Len(a) /\ c \in Str
    BY <1>1, <2>2
  <2>. HIDE DEF e, c
  <2>7. /\ Stops(a, j, mux) /\ f[e].rest = SubSeq(a, j + 1, Len(a))
        /\ g[e] = [rest |-> g[j].rest, got |-> f[e].got \o g[j].got]
    BY <1>4 DEF e
  <2>8. f[e].got \in Seq(Str) /\ g[j].got \in Seq(Str)
    <3>1. j \in 0..Len(z)
      BY <1>1
    <3>2. f[e] \in Cutting /\ g[j] \in Cutting
      BY <1>2, <2>6, <3>1
    <3> QED BY <3>2 DEF Cutting
  <2>9. <<c>> \o (f[e].got \o g[j].got) = (<<c>> \o f[e].got) \o g[j].got
    BY <2>6, <2>8, HeadApart
  <2>10. CASE c = <<>>
    BY <2>5, <2>7, <2>10
  <2>11. CASE c # <<>>
    <3>1. f[i].rest = f[e].rest /\ f[i].got = <<c>> \o f[e].got
      BY <2>5, <2>11
    <3>2. g[i] = [rest |-> g[j].rest, got |-> <<c>> \o (f[e].got \o g[j].got)]
      BY <2>5, <2>7, <2>11
    <3> QED BY <2>7, <2>9, <3>1, <3>2
  <2> QED BY <2>10, <2>11
<1>. HIDE DEF RunsOut
<1>5. 0 \in Q
  <2>. SUFFICES ASSUME NEW i \in 0..Len(a), i + 0 >= Len(a) PROVE \E j \in 0..Len(a) : RunsOut(i, j)
    OBVIOUS
  <2>1. i + 2 > Len(a)
    BY <1>1
  <2>2. Stops(a, i, mux)
    BY <2>1 DEF Stops
  <2> QED BY <1>3, <2>2
<1>6. ASSUME NEW k \in Nat, k \in Q PROVE k + 1 \in Q
  <2>. SUFFICES ASSUME NEW i \in 0..Len(a), i + (k + 1) >= Len(a) PROVE \E j \in 0..Len(a) : RunsOut(i, j)
    OBVIOUS
  <2>1. CASE Stops(a, i, mux)
    BY <1>3, <2>1
  <2>2. CASE ~Stops(a, i, mux)
    <3>1. i \in Nat
      BY <1>1
    <3>2. FrameEnd(a, i) \in Nat /\ i + 2 <= FrameEnd(a, i) /\ FrameEnd(a, i) <= Len(a)
      BY <2>2, <3>1, FrameFits
    <3>3. FrameEnd(a, i) \in 0..Len(a) /\ FrameEnd(a, i) + k >= Len(a)
      BY <1>1, <3>1, <3>2
    <3>4. PICK j \in 0..Len(a) : RunsOut(FrameEnd(a, i), j)
      BY <1>6, <3>3
    <3> QED BY <1>4, <2>2, <3>4
  <2> QED BY <2>1, <2>2
<1>7. ASSUME NEW i \in 0..Len(a) PROVE \E j \in 0..Len(a) : RunsOut(i, j)
  <2>1. Len(a) \in Q
    <3>. HIDE DEF Q
    <3> QED BY <1>1, <1>5, <1>6, Upward
  <2>2. i + Len(a) >= Len(a)
    BY <1>1
  <2> QED BY <2>1, <2>2
<1> QED BY <1>7 DEF GoesOn, RunsOut, f, g, z

\* Frames are cut off the same whatever the chunks: what is left of a chunk and
\* the next chunk give what the two give at once.
Joins(a, b, mux) ==
  LET r == Drained(a, mux).rest
      s == Drained(r \o b, mux)
  IN  /\ r \in Str /\ Drained(r, mux) = [rest |-> r, got |-> <<>>]
      /\ Drained(a \o b, mux) = [rest |-> s.rest, got |-> Drained(a, mux).got \o s.got]

LEMMA ChunksJoin == ASSUME NEW a \in Str, NEW b \in Str, NEW mux PROVE Joins(a, b, mux)
<1>. DEFINE r == Drained(a, mux).rest
            f == CutFrom(a, mux)
            g == CutFrom(a \o b, mux)
<1>1. Len(a) \in Nat /\ 0 \in 0..Len(a)
  BY StrShape
<1>2. PICK j \in 0..Len(a) : /\ Stops(a, j, mux) /\ f[0].rest = SubSeq(a, j + 1, Len(a))
                             /\ g[0] = [rest |-> g[j].rest, got |-> f[0].got \o g[j].got]
  <2>1. GoesOn(a, b, mux)
    BY CutGoesOn
  <2> QED BY <1>1, <2>1 DEF GoesOn
<1>3. f[0] = Drained(a, mux) /\ g[0] = Drained(a \o b, mux)
  BY DrainedIs
<1>. DEFINE x == SubSeq(a, 1, j)
<1>4. j \in Nat /\ j <= Len(a) /\ r = SubSeq(a, j + 1, Len(a))
  BY <1>1, <1>2, <1>3
<1>5. x \in Str /\ Len(x) = j /\ r \in Str /\ a = x \o r
  BY <1>4, SplitStr
<1>. HIDE DEF x, r
<1>6. Len(x) + 0 = j /\ 0 \in 0..Len(r) /\ r \o b \in Str /\ 0 \in 0..Len(r \o b)
  BY <1>4, <1>5, StrShape, CatStr
<1>7. f[j] = Drained(r, mux)
  <2>1. CutFrom(x \o r, mux)[Len(x) + 0] = CutFrom(r, mux)[0]
    BY <1>5, <1>6, CutShifts
  <2> QED BY <1>5, <1>6, <2>1, DrainedIs
<1>8. g[j] = Drained(r \o b, mux)
  <2>1. CutFrom(x \o (r \o b), mux)[Len(x) + 0] = CutFrom(r \o b, mux)[0]
    BY <1>5, <1>6, CutShifts
  <2>2. a \o b = x \o (r \o b)
    BY <1>5, CatAssoc
  <2> QED BY <1>6, <2>1, <2>2, DrainedIs
<1>9. f[j] = [rest |-> r, got |-> <<>>]
  <2>1. f[j] = CutStep(a, mux, f, j)
    BY CutsEnd
  <2>. HIDE DEF f
  <2> QED BY <1>2, <1>4, <2>1 DEF CutStep
<1>. HIDE DEF f, g
<1>10. Drained(a \o b, mux) =
         [rest |-> Drained(r \o b, mux).rest, got |-> Drained(a, mux).got \o Drained(r \o b, mux).got]
  BY <1>2, <1>3, <1>8
<1>11. Drained(r, mux) = [rest |-> r, got |-> <<>>]
  BY <1>7, <1>9
<1> QED BY <1>5, <1>10, <1>11 DEF Joins, r

-----------------------------------------------------------------------------
(* One frame, and the frame that stops the reader. *)

\* A number that two bytes hold.
Short(n) == n \in 0..Longest

LEMMA ShortIs == \A n : Short(n) <=> n \in Nat /\ n < 65536
<1>1. Longest \in Nat /\ Longest + 1 = 65536
  BY DEF Longest
<1>2. \A n \in Nat : n <= Longest <=> n < Longest + 1
  BY <1>1
<1> QED BY <1>1, <1>2 DEF Short

LEMMA U2Str == \A n \in Nat : U2(n) \in Str /\ Len(U2(n)) = 2
<1>. SUFFICES ASSUME NEW n \in Nat PROVE U2(n) \in Str /\ Len(U2(n)) = 2
  OBVIOUS
<1>. DEFINE h == (n \div 256) % 256
            l == n % 256
<1>1. h \in Nat /\ l \in Nat /\ U2(n) = <<h, l>>
  BY DEF U2
<1>. HIDE DEF h, l
<1> QED BY <1>1 DEF Str

LEMMA U2Is == \A n : Short(n) => U2(n)[1] \in Nat /\ 256 * U2(n)[1] + U2(n)[2] = n
<1>. SUFFICES ASSUME NEW n \in Nat, n < 65536
              PROVE  U2(n)[1] \in Nat /\ 256 * U2(n)[1] + U2(n)[2] = n
  BY ShortIs
<1>. DEFINE h == n \div 256
            l == n % 256
<1>1. h \in Nat /\ h < 256 /\ l \in Nat /\ 256 * h + l = n
  OBVIOUS
<1>2. U2(n) = <<h % 256, l>>
  BY DEF U2
<1>. HIDE DEF h, l
<1>3. h % 256 = h
  BY <1>1
<1> QED BY <1>1, <1>2, <1>3

LEMMA NumberAt ==
  ASSUME NEW b \in Str, NEW i \in Nat, NEW n, Short(n), Holds(b, i, U2(n))
  PROVE  Number(b, i + 1) = n
<1>1. Len(U2(n)) = 2 /\ 256 * U2(n)[1] + U2(n)[2] = n
  <2>1. n \in Nat
    BY ShortIs
  <2> QED BY <2>1, U2Is, U2Str
<1>2. b[i + 1] = U2(n)[1] /\ b[i + 2] = U2(n)[2]
  BY <1>1 DEF Holds
<1>3. (i + 1) + 1 = i + 2
  OBVIOUS
<1> QED BY <1>1, <1>2, <1>3 DEF Number

LEMMA PrefixHolds ==
  ASSUME NEW x \in Str, NEW b \in Str
  PROVE  IsPrefix(x, b) <=> Holds(b, 0, x)
<1>1. Len(x) \in Nat /\ Len(b) \in Nat /\ \A k \in 1..Len(x) : 0 + k = k
  BY StrShape
<1>2. SubSeq(x, 1, Len(x)) = x
  BY DEF Str
<1>3. CASE Len(x) <= Len(b)
  <2>. DEFINE s == SubSeq(b, 1, Len(x))
  <2>1. s \in Str /\ Len(s) = Len(x) /\ Holds(b, 0, s)
    <3>1. /\ SubSeq(b, 0 + 1, 0 + Len(x)) \in Str /\ Len(SubSeq(b, 0 + 1, 0 + Len(x))) = Len(x)
          /\ Holds(b, 0, SubSeq(b, 0 + 1, 0 + Len(x)))
      BY <1>1, <1>3, SubStr, SMTT(30)
    <3>2. 0 + 1 = 1 /\ 0 + Len(x) = Len(x)
      BY <1>1
    <3> QED BY <3>1, <3>2
  <2>2. IsPrefix(x, b) <=> x = s
    BY <1>2, <1>3 DEF IsPrefix
  <2>. HIDE DEF s
  <2>3. ASSUME Holds(b, 0, x) PROVE x = s
    <3>1. \A k \in 1..Len(x) : x[k] = s[k]
      BY <1>1, <2>1, <2>3 DEF Holds
    <3> QED BY <2>1, <3>1, StrEqual
  <2> QED BY <2>1, <2>2, <2>3
<1>4. CASE ~(Len(x) <= Len(b))
  BY <1>1, <1>4 DEF Holds, IsPrefix
<1> QED BY <1>3, <1>4

LEMMA FramedIs ==
  ASSUME NEW body \in Str
  PROVE  /\ Framed(body) \in Str /\ Len(Framed(body)) = 2 + Len(body)
         /\ Holds(Framed(body), 0, U2(Len(body))) /\ Holds(Framed(body), 2, body)
<1>. DEFINE w == U2(Len(body))
            b == Framed(body)
<1>1. w \in Str /\ Len(w) = 2 /\ b = w \o body
  BY StrShape, U2Str DEF Framed
<1>. HIDE DEF w, b
<1>2. b \in Str /\ Len(b) = Len(w) + Len(body) /\ Holds(b, 0, w) /\ Holds(b, Len(w), body)
  BY <1>1, CatStr
<1> QED BY <1>1, <1>2 DEF w, b

LEMMA FrameWhole ==
  ASSUME NEW body \in Str, Short(Len(body))
  PROVE  FrameEnd(Framed(body), 0) = Len(Framed(body)) /\ FrameAt(Framed(body), 0) = body
<1>. DEFINE b == Framed(body)
<1>1. Len(body) \in Nat
  BY StrShape
<1>2. b \in Str /\ Len(b) = 2 + Len(body) /\ Holds(b, 0, U2(Len(body))) /\ Holds(b, 2, body)
  BY FramedIs
<1>. HIDE DEF b
<1>3. Number(b, 0 + 1) = Len(body)
  BY <1>2, NumberAt
<1>4. FrameEnd(b, 0) = 2 + Len(body)
  BY <1>1, <1>3 DEF FrameEnd
<1>5. SubSeq(b, 2 + 1, 2 + Len(body)) = body
  BY <1>2, HoldsSub
<1>6. FrameAt(b, 0) = body
  BY <1>4, <1>5 DEF FrameAt
<1> QED BY <1>2, <1>4, <1>6 DEF b

LEMMA FramedDrains ==
  ASSUME NEW body \in Str, Short(Len(body)), NEW mux, ~(~mux /\ Bare(body))
  PROVE  Drained(Framed(body), mux) =
           [rest |-> <<>>, got |-> IF Carries(body, mux) = <<>> THEN <<>> ELSE <<Carries(body, mux)>>]
<1>. DEFINE b == Framed(body)
            f == CutFrom(b, mux)
            e == Len(b)
            c == Carries(body, mux)
<1>1. b \in Str /\ e = 2 + Len(body) /\ Len(body) \in Nat /\ FrameEnd(b, 0) = e /\ FrameAt(b, 0) = body
  BY FramedIs, FrameWhole, StrShape
<1>2. f[0] = CutStep(b, mux, f, 0) /\ f[e] = CutStep(b, mux, f, e)
  <2>. HIDE DEF b
  <2>1. 0 \in 0..Len(b) /\ e \in 0..Len(b)
    BY <1>1
  <2> QED BY <1>1, <2>1, CutsEnd
<1>3. Drained(b, mux) = f[0]
  BY DrainedIs
<1>. HIDE DEF b, f
<1>4. ~Stops(b, 0, mux) /\ Stops(b, e, mux)
  BY <1>1 DEF Stops
<1>5. SubSeq(b, e + 1, Len(b)) = <<>>
  BY <1>1
<1>6. f[e] = [rest |-> <<>>, got |-> <<>>]
  BY <1>2, <1>4, <1>5 DEF CutStep
<1>7. f[0] = IF c = <<>> THEN f[e] ELSE [rest |-> f[e].rest, got |-> <<c>> \o f[e].got]
  BY <1>1, <1>2, <1>4 DEF CutStep
<1>8. c \in Str
  BY CarriesStr
<1>. HIDE DEF c, e
<1>9. <<c>> \o <<>> = <<c>>
  BY <1>8
<1>10. f[0] = [rest |-> <<>>, got |-> IF c = <<>> THEN <<>> ELSE <<c>>]
  BY <1>6, <1>7, <1>9
<1> QED BY <1>3, <1>10 DEF b, c

\* A frame that holds a name without its length, the first bytes of a tunnel of
\* its own: nothing is cut off any more.
Bad == <<0, 1, 3>>

LEMMA BadStr == Bad \in Str /\ Len(Bad) = 3 /\ Bad[1] = 0 /\ Bad[2] = 1 /\ Bad[3] = 3
BY DEF Bad, Str

LEMMA BadStays ==
  ASSUME NEW b \in Str, Holds(b, 0, Bad)
  PROVE  Drained(b, FALSE) = [rest |-> b, got |-> <<>>]
<1>1. Len(b) \in Nat /\ 3 <= Len(b) /\ b[1] = 0 /\ b[2] = 1 /\ b[3] = 3
  BY BadStr, StrShape DEF Holds
<1>2. FrameEnd(b, 0) = 3
  BY <1>1 DEF FrameEnd, Number
<1>3. Bare(FrameAt(b, 0))
  <2>0. <<3>> \in Str /\ Len(<<3>>) = 1 /\ <<3>>[1] = 3 /\ \A k \in 1..1 : k = 1
    BY DEF Str
  <2>1. SubSeq(b, 3, 3) = <<3>>
    <3>1. Holds(b, 2, <<3>>)
      BY <1>1, <2>0 DEF Holds
    <3>2. SubSeq(b, 2 + 1, 2 + Len(<<3>>)) = <<3>>
      BY <2>0, <3>1, HoldsSub
    <3> QED BY <2>0, <3>2
  <2> QED BY <1>1, <1>2, <2>1 DEF FrameAt, Bare
<1>4. Stops(b, 0, FALSE)
  BY <1>3 DEF Stops
<1>5. SubSeq(b, 0 + 1, Len(b)) = b
  BY DEF Str
<1>6. CutFrom(b, FALSE)[0] = CutStep(b, FALSE, CutFrom(b, FALSE), 0)
  <2>1. 0 \in 0..Len(b)
    BY <1>1
  <2> QED BY <2>1, CutsEnd
<1> QED BY <1>4, <1>5, <1>6, DrainedIs DEF CutStep

LEMMA BareIsBad ==
  ASSUME NEW body \in Str, Bare(body)
  PROVE  Holds(Framed(body), 0, Bad) /\ Len(body) = 1
<1>1. Len(body) = 1 /\ body[1] = 3
  BY DEF Bare
<1>. DEFINE b == Framed(body)
<1>2. b \in Str /\ Len(b) = 3 /\ Holds(b, 0, U2(1)) /\ Holds(b, 2, body)
  <2>1. /\ b \in Str /\ Len(b) = 2 + Len(body)
        /\ Holds(b, 0, U2(Len(body))) /\ Holds(b, 2, body)
    BY FramedIs
  <2>. HIDE DEF b
  <2> QED BY <1>1, <2>1
<1>. HIDE DEF b
<1>3. Len(U2(1)) = 2 /\ U2(1)[1] = 0 /\ U2(1)[2] = 1
  <2>1. U2(1) = <<0, 1>>
    BY DEF U2
  <2> QED BY <2>1
<1>4. b[1] = 0 /\ b[2] = 1 /\ b[3] = 3
  BY <1>1, <1>2, <1>3 DEF Holds
<1>5. Holds(b, 0, Bad)
  BY <1>2, <1>4, BadStr DEF Holds
<1> QED BY <1>1, <1>5 DEF b

-----------------------------------------------------------------------------
(* Checksums. *)

\* The sum of the first n bytes of b, in words.
SumFrom(b) ==
  CHOOSE f : f = [n \in 0..Len(b) |->
    IF n = 0 THEN 0 ELSE f[n - 1] + (IF n % 2 = 1 THEN 256 * b[n] ELSE b[n])]

LEMMA WordSumIs == \A b : WordSum(b) = SumFrom(b)[Len(b)]
BY DEF WordSum, SumFrom

LEMMA Sums ==
  ASSUME NEW b \in Str
  PROVE  /\ SumFrom(b)[0] = 0
         /\ \A n \in 0..Len(b) : SumFrom(b)[n] \in Nat
         /\ \A n \in 1..Len(b) :
              SumFrom(b)[n] = SumFrom(b)[n - 1] + (IF n % 2 = 1 THEN 256 * b[n] ELSE b[n])
<1>. DEFINE N == Len(b)
            Add(f, n) == IF n = 0 THEN 0 ELSE f[n - 1] + (IF n % 2 = 1 THEN 256 * b[n] ELSE b[n])
            T == {k \in Nat : k <= N => \E f : f = [n \in 0..k |-> Add(f, n)]}
<1>1. N \in Nat /\ \A n \in 1..N : b[n] \in Nat
  BY StrShape
<1>. HIDE DEF N
<1>2. 0 \in T
  <2>. DEFINE g == [n \in 0..0 |-> 0]
  <2>1. g = [n \in 0..0 |-> Add(g, n)]
    OBVIOUS
  <2>. HIDE DEF g, Add
  <2> QED BY <2>1
<1>3. ASSUME NEW k \in Nat, k \in T PROVE k + 1 \in T
  <2>. SUFFICES ASSUME k + 1 <= N PROVE \E f : f = [n \in 0..(k + 1) |-> Add(f, n)]
    OBVIOUS
  <2>1. PICK f : f = [n \in 0..k |-> Add(f, n)]
    BY <1>1, <1>3
  <2>. DEFINE g == [n \in 0..(k + 1) |-> IF n \in 0..k THEN f[n] ELSE Add(f, n)]
  <2>2. ASSUME NEW n \in 0..(k + 1) PROVE g[n] = Add(f, n)
    <3>. HIDE DEF Add
    <3> QED BY <2>1
  <2>3. ASSUME NEW n \in 0..(k + 1) PROVE Add(f, n) = Add(g, n)
    <3>1. n # 0 => n - 1 \in 0..k /\ n - 1 \in 0..(k + 1)
      OBVIOUS
    <3>2. n # 0 => f[n - 1] = g[n - 1]
      BY <3>1
    <3>. HIDE DEF g
    <3> QED BY <3>2
  <2>4. g = [n \in 0..(k + 1) |-> Add(g, n)]
    <3>1. g = [n \in 0..(k + 1) |-> g[n]]
      OBVIOUS
    <3>. HIDE DEF g, Add
    <3> QED BY <2>2, <2>3, <3>1
  <2>. HIDE DEF g, Add
  <2> QED BY <2>4
<1>4. \E f : f = [n \in 0..N |-> Add(f, n)]
  <2>1. N \in T
    <3>. HIDE DEF T
    <3> QED BY <1>1, <1>2, <1>3, Upward
  <2>. HIDE DEF Add
  <2> QED BY <1>1, <2>1
<1>. DEFINE f == SumFrom(b)
<1>5. f = [n \in 0..N |-> Add(f, n)]
  <2>1. f = CHOOSE h : h = [n \in 0..N |-> Add(h, n)]
    BY DEF SumFrom, N
  <2>. HIDE DEF f, Add
  <2> QED BY <1>4, <2>1
<1>. HIDE DEF f
<1>6. \A n \in 0..N : f[n] = Add(f, n)
  <2>. HIDE DEF Add
  <2> QED BY <1>5
<1>7. f[0] = 0 /\ \A n \in 1..N : f[n] = f[n - 1] + (IF n % 2 = 1 THEN 256 * b[n] ELSE b[n])
  BY <1>1, <1>6
<1>. DEFINE Q == {k \in Nat : k <= N => f[k] \in Nat}
<1>8. 0 \in Q
  BY <1>7
<1>9. ASSUME NEW k \in Nat, k \in Q PROVE k + 1 \in Q
  <2>. SUFFICES ASSUME k + 1 <= N PROVE f[k + 1] \in Nat
    OBVIOUS
  <2>1. k + 1 \in 1..N /\ (k + 1) - 1 = k /\ f[k] \in Nat
    BY <1>1, <1>9
  <2>2. b[k + 1] \in Nat
    BY <1>1, <2>1
  <2>3. f[k + 1] = f[k] + (IF (k + 1) % 2 = 1 THEN 256 * b[k + 1] ELSE b[k + 1])
    BY <1>7, <2>1
  <2> QED BY <2>1, <2>2, <2>3
<1>10. \A n \in 0..N : f[n] \in Nat
  <2>1. \A n \in Nat : n \in Q
    <3>. HIDE DEF Q
    <3> QED BY <1>8, <1>9, Upward
  <2> QED BY <1>1, <2>1
<1> QED BY <1>7, <1>10 DEF f, N

LEMMA SumNat == ASSUME NEW b \in Str PROVE WordSum(b) \in Nat
<1>1. Len(b) \in 0..Len(b)
  BY StrShape
<1> QED BY <1>1, Sums, WordSumIs

\* Two bytes at an odd place count for the number they are.
LEMMA SumChanges ==
  ASSUME NEW x \in Str, NEW y \in Str, Len(x) = Len(y), NEW p \in Nat, p % 2 = 1, p + 1 <= Len(x),
         \A k \in 1..Len(x) : k # p /\ k # p + 1 => x[k] = y[k], x[p] = 0, x[p + 1] = 0
  PROVE  WordSum(y) = WordSum(x) + Number(y, p)
<1>. DEFINE f == SumFrom(x)
            g == SumFrom(y)
            N == Len(x)
            Q == {k \in Nat : k <= N => g[k] = f[k] + (IF k < p THEN 0 ELSE IF k = p THEN 256 * y[p] ELSE Number(y, p))}
<1>1. N \in Nat /\ p \in 1..N /\ p + 1 \in 1..N /\ p \in Nat
  BY StrShape
<1>2. y[p] \in Nat /\ y[p + 1] \in Nat /\ Number(y, p) = 256 * y[p] + y[p + 1]
  BY <1>1, StrShape DEF Number
<1>3. /\ f[0] = 0 /\ \A n \in 0..N : f[n] \in Nat
      /\ \A n \in 1..N : f[n] = f[n - 1] + (IF n % 2 = 1 THEN 256 * x[n] ELSE x[n])
  BY Sums
<1>4. /\ g[0] = 0 /\ \A n \in 0..N : g[n] \in Nat
      /\ \A n \in 1..N : g[n] = g[n - 1] + (IF n % 2 = 1 THEN 256 * y[n] ELSE y[n])
  BY Sums
<1>5. \A n \in 1..N : x[n] \in Nat /\ y[n] \in Nat
  BY StrShape
<1>. HIDE DEF f, g
<1>6. 0 \in Q
  BY <1>1, <1>3, <1>4
<1>7. ASSUME NEW k \in Nat, k \in Q PROVE k + 1 \in Q
  <2>. SUFFICES ASSUME k + 1 <= N
                PROVE  g[k + 1] = f[k + 1] + (IF k + 1 < p THEN 0 ELSE IF k + 1 = p THEN 256 * y[p] ELSE Number(y, p))
    OBVIOUS
  <2>1. k + 1 \in 1..N /\ (k + 1) - 1 = k /\ k \in 0..N /\ k <= N
    BY <1>1
  <2>2. /\ f[k + 1] = f[k] + (IF (k + 1) % 2 = 1 THEN 256 * x[k + 1] ELSE x[k + 1])
        /\ g[k + 1] = g[k] + (IF (k + 1) % 2 = 1 THEN 256 * y[k + 1] ELSE y[k + 1])
    BY <1>3, <1>4, <2>1
  <2>3. f[k] \in Nat /\ g[k] \in Nat /\ x[k + 1] \in Nat /\ y[k + 1] \in Nat
    BY <1>3, <1>4, <1>5, <2>1
  <2>4. g[k] = f[k] + (IF k < p THEN 0 ELSE IF k = p THEN 256 * y[p] ELSE Number(y, p))
    BY <1>7, <2>1
  <2>5. CASE k + 1 = p
    <3>1. (k + 1) % 2 = 1 /\ x[k + 1] = 0 /\ k < p /\ y[k + 1] = y[p]
      BY <2>5
    <3> QED BY <1>2, <2>2, <2>3, <2>4, <2>5, <3>1
  <2>6. CASE k = p
    <3>1. (k + 1) % 2 # 1 /\ x[k + 1] = 0 /\ ~(k < p) /\ ~(k + 1 < p) /\ k + 1 # p /\ y[k + 1] = y[p + 1]
      BY <2>6
    <3> QED BY <1>2, <2>2, <2>3, <2>4, <2>6, <3>1
  <2>7. CASE k # p /\ k + 1 # p
    <3>1. x[k + 1] = y[k + 1]
      BY <2>1, <2>7
    <3>2. (k < p <=> k + 1 < p)
      BY <1>1, <2>7
    <3>. DEFINE e == IF k < p THEN 0 ELSE IF k = p THEN 256 * y[p] ELSE Number(y, p)
    <3>3. e \in Nat /\ e = IF k + 1 < p THEN 0 ELSE IF k + 1 = p THEN 256 * y[p] ELSE Number(y, p)
      BY <1>2, <2>7, <3>2
    <3>4. g[k] = f[k] + e
      BY <2>4
    <3>. HIDE DEF e
    <3>5. g[k + 1] = f[k + 1] + e
      <4>. DEFINE w == IF (k + 1) % 2 = 1 THEN 256 * x[k + 1] ELSE x[k + 1]
      <4>1. w \in Nat /\ f[k + 1] = f[k] + w /\ g[k + 1] = g[k] + w
        BY <2>2, <2>3, <3>1
      <4>. HIDE DEF w
      <4> QED BY <2>3, <3>3, <3>4, <4>1, SMTT(30)
    <3> QED BY <3>3, <3>5
  <2> QED BY <2>5, <2>6, <2>7
<1>8. N \in Q
  <2>. HIDE DEF Q
  <2> QED BY <1>1, <1>6, <1>7, Upward
<1>9. g[N] = f[N] + Number(y, p)
  BY <1>1, <1>8
<1> QED BY <1>9, WordSumIs DEF f, g

\* The carries of s are taken in until two bytes hold it.
LEMMA CarriedIs ==
  ASSUME NEW s \in Nat
  PROVE  Short(Carried(s)) /\ \E k \in Nat : s = Carried(s) + 65535 * k
<1>. DEFINE Step(f, n) == IF n < 65536 THEN n ELSE f[(n % 65536) + (n \div 65536)]
            T == {k \in Nat : \E f : f = [n \in 0..k |-> Step(f, n)]}
            f == CHOOSE h : h = [n \in 0..s |-> Step(h, n)]
            Good(n) == Short(f[n]) /\ \E k \in Nat : n = f[n] + 65535 * k
            Q == {k \in Nat : \A n \in 0..s : n <= k => Good(n)}
<1>1. ASSUME NEW n \in Nat, ~(n < 65536)
      PROVE  /\ (n % 65536) + (n \div 65536) \in 0..(n - 1)
             /\ n = ((n % 65536) + (n \div 65536)) + 65535 * (n \div 65536) /\ n \div 65536 \in Nat
  <2>. DEFINE q == n \div 65536
              r == n % 65536
  <2>1. q \in Nat /\ r \in Nat /\ n = 65536 * q + r
    OBVIOUS
  <2>2. r < 65536
    OBVIOUS
  <2>. HIDE DEF q, r
  <2>3. q >= 1
    BY <1>1, <2>1, <2>2
  <2>4. r + q \in 0..(n - 1) /\ n = (r + q) + 65535 * q
    BY <2>1, <2>3
  <2> QED BY <2>1, <2>4 DEF q, r
<1>2. 0 \in T
  <2>. DEFINE g == [n \in 0..0 |-> 0]
  <2>1. g = [n \in 0..0 |-> Step(g, n)]
    <3>1. \A n \in 0..0 : Step(g, n) = 0
      OBVIOUS
    <3>. HIDE DEF Step
    <3> QED BY <3>1
  <2>. HIDE DEF g, Step
  <2> QED BY <2>1
<1>3. ASSUME NEW k \in Nat, k \in T PROVE k + 1 \in T
  <2>1. PICK h : h = [n \in 0..k |-> Step(h, n)]
    BY <1>3
  <2>. DEFINE g == [n \in 0..(k + 1) |-> IF n \in 0..k THEN h[n] ELSE Step(h, n)]
  <2>2. ASSUME NEW n \in 0..(k + 1) PROVE g[n] = Step(h, n)
    <3>. HIDE DEF Step
    <3> QED BY <2>1
  <2>3. ASSUME NEW n \in 0..(k + 1) PROVE Step(h, n) = Step(g, n)
    <3>1. CASE n < 65536
      BY <3>1
    <3>2. CASE ~(n < 65536)
      <4>. DEFINE m == (n % 65536) + (n \div 65536)
      <4>1. m \in 0..(n - 1)
        BY <1>1, <3>2
      <4>. HIDE DEF m
      <4>2. m \in 0..k /\ m \in 0..(k + 1)
        BY <4>1
      <4>3. h[m] = g[m]
        BY <4>2
      <4>. HIDE DEF g
      <4>4. Step(h, n) = h[m] /\ Step(g, n) = g[m]
        BY <3>2 DEF m
      <4> QED BY <4>3, <4>4
    <3> QED BY <3>1, <3>2
  <2>4. g = [n \in 0..(k + 1) |-> Step(g, n)]
    <3>1. g = [n \in 0..(k + 1) |-> g[n]]
      OBVIOUS
    <3>. HIDE DEF g, Step
    <3> QED BY <2>2, <2>3, <3>1
  <2>. HIDE DEF g, Step
  <2> QED BY <2>4
<1>4. f = [n \in 0..s |-> Step(f, n)]
  <2>1. s \in T
    <3>. HIDE DEF T
    <3> QED BY <1>2, <1>3, Upward
  <2>. HIDE DEF Step
  <2> QED BY <2>1
<1>5. Carried(s) = f[s]
  BY DEF Carried
<1>. HIDE DEF f
<1>6. ASSUME NEW n \in 0..s PROVE f[n] = Step(f, n)
  <2>. HIDE DEF Step
  <2> QED BY <1>4
<1>7. ASSUME NEW n \in 0..s, \A m \in 0..(n - 1) : Good(m) PROVE Good(n)
  <2>1. CASE n < 65536
    <3>1. f[n] = n /\ n = n + 65535 * 0 /\ 0 \in Nat /\ Short(n)
      BY <1>6, <2>1, ShortIs
    <3>2. \E k \in Nat : n = f[n] + 65535 * k
      BY <3>1
    <3> QED BY <3>1, <3>2
  <2>2. CASE ~(n < 65536)
    <3>. DEFINE q == n \div 65536
                m == (n % 65536) + q
    <3>1. m \in 0..(n - 1) /\ n = m + 65535 * q /\ q \in Nat
      BY <1>1, <2>2
    <3>2. f[n] = f[m]
      BY <1>6, <2>2
    <3>. HIDE DEF m, q
    <3>3. Short(f[m])
      BY <1>7, <3>1
    <3>4. PICK k \in Nat : m = f[m] + 65535 * k
      BY <1>7, <3>1
    <3>5. f[m] \in Nat
      BY <3>3, ShortIs
    <3>6. n = f[m] + 65535 * (k + q) /\ k + q \in Nat
      BY <3>1, <3>4, <3>5
    <3>7. \E j \in Nat : n = f[m] + 65535 * j
      <4>. DEFINE j == k + q
      <4>1. n = f[m] + 65535 * j /\ j \in Nat
        BY <3>6
      <4>. HIDE DEF j
      <4> QED BY <4>1
    <3> QED BY <3>2, <3>3, <3>7
  <2> QED BY <2>1, <2>2
<1>. HIDE DEF Good
<1>8. 0 \in Q
  <2>. SUFFICES ASSUME NEW n \in 0..s, n <= 0 PROVE Good(n)
    OBVIOUS
  <2>1. \A m \in 0..(n - 1) : Good(m)
    OBVIOUS
  <2> QED BY <1>7, <2>1
<1>9. ASSUME NEW k \in Nat, k \in Q PROVE k + 1 \in Q
  <2>. SUFFICES ASSUME NEW n \in 0..s, n <= k + 1 PROVE Good(n)
    OBVIOUS
  <2>1. \A m \in 0..(n - 1) : Good(m)
    BY <1>9
  <2> QED BY <1>7, <2>1
<1>10. Good(s)
  <2>1. s \in Q
    <3>. HIDE DEF Q
    <3> QED BY <1>8, <1>9, Upward
  <2> QED BY <2>1
<1> QED BY <1>5, <1>10 DEF Good

\* Some multiple of 65535.
Even(n) == \E k \in Nat : n = 65535 * k

LEMMA EvenAdds == ASSUME NEW b \in Str, Even(WordSum(b)) PROVE Adds(b)
<1>1. PICK k \in Nat : WordSum(b) = 65535 * k
  BY DEF Even
<1>2. (65535 * k) % 65535 = 0
  OBVIOUS
<1> QED BY <1>1, <1>2 DEF Adds

LEMMA ChecksumIs ==
  ASSUME NEW b \in Str
  PROVE  Short(Checksum(b)) /\ Even(WordSum(b) + Checksum(b))
<1>1. WordSum(b) \in Nat
  BY SumNat
<1>. DEFINE s == WordSum(b)
            c == Carried(s)
<1>2. PICK k \in Nat : s = c + 65535 * k
  BY <1>1, CarriedIs
<1>3. c \in Nat /\ c < 65536
  BY <1>1, CarriedIs, ShortIs
<1>. HIDE DEF s, c
<1>4. 65535 - c \in Nat /\ 65535 - c < 65536 /\ s + (65535 - c) = 65535 * (k + 1) /\ k + 1 \in Nat
  BY <1>1, <1>2, <1>3
<1>5. \E j \in Nat : s + (65535 - c) = 65535 * j
  <2>. DEFINE j == k + 1
  <2>1. s + (65535 - c) = 65535 * j /\ j \in Nat
    BY <1>4
  <2>. HIDE DEF j
  <2> QED BY <2>1
<1> QED BY <1>4, <1>5, ShortIs DEF Even, Checksum, s, c

LEMMA SummedIs ==
  ASSUME NEW b \in Str, NEW lead \in Str, NEW p \in Nat, p % 2 = 1, p + 1 <= Len(b),
         b[p] = 0, b[p + 1] = 0, Len(lead) % 2 = 0
  PROVE  /\ Summed(b, p, lead) \in Str /\ Len(Summed(b, p, lead)) = Len(b)
         /\ \A k \in 1..Len(b) : k # p /\ k # p + 1 => Summed(b, p, lead)[k] = b[k]
         /\ Adds(lead \o Summed(b, p, lead))
<1>. DEFINE x == lead \o b
            n == Checksum(x)
            c == U2(n)
            r == Summed(b, p, lead)
            y == lead \o r
            q == Len(lead) + p
<1>1. x \in Str /\ Len(x) = Len(lead) + Len(b) /\ Holds(x, 0, lead) /\ Holds(x, Len(lead), b)
  BY CatStr
<1>2. Len(lead) \in Nat /\ Len(b) \in Nat /\ p \in 1..Len(b) /\ p + 1 \in 1..Len(b)
  BY StrShape, SMTT(30)
<1>3. Short(n) /\ Even(WordSum(x) + n)
  BY <1>1, ChecksumIs
<1>. HIDE DEF n
<1>4. n \in Nat
  BY <1>3, ShortIs
<1>5. c \in Str /\ Len(c) = 2 /\ 256 * c[1] + c[2] = n /\ c[1] \in Nat /\ c[2] \in Nat
  <2>1. c \in Str /\ Len(c) = 2 /\ 256 * c[1] + c[2] = n
    BY <1>3, <1>4, U2Str, U2Is
  <2>. HIDE DEF c
  <2>2. c[1] \in Nat /\ c[2] \in Nat
    <3>1. 1 \in 1..Len(c) /\ 2 \in 1..Len(c)
      BY <2>1
    <3> QED BY <2>1, <3>1, StrShape
  <2> QED BY <2>1, <2>2
<1>6. r = [b EXCEPT ![p] = c[1], ![p + 1] = c[2]]
  BY DEF Summed, n
<1>. HIDE DEF c, r
<1>7. /\ r \in Str /\ Len(r) = Len(b) /\ r[p] = c[1] /\ r[p + 1] = c[2]
      /\ \A k \in 1..Len(b) : k # p /\ k # p + 1 => r[k] = b[k]
  <2>1. b \in [1..Len(b) -> Nat]
    BY DEF Str
  <2>2. r \in [1..Len(b) -> Nat]
    BY <1>2, <1>5, <1>6, <2>1
  <2>3. r \in Str /\ Len(r) = Len(b)
    <3>. DEFINE N == Len(b)
    <3>1. N \in Nat /\ r \in [1..N -> Nat]
      BY <1>2, <2>2
    <3>. HIDE DEF N
    <3>2. r \in Seq(Nat) /\ Len(r) = N
      BY <3>1
    <3> QED BY <3>2 DEF Str, N
  <2>4. \A k \in 1..Len(b) : r[k] = IF k = p + 1 THEN c[2] ELSE IF k = p THEN c[1] ELSE b[k]
    BY <1>6, <2>1
  <2>5. p # p + 1
    OBVIOUS
  <2> QED BY <1>2, <2>3, <2>4, <2>5
<1>8. y \in Str /\ Len(y) = Len(x) /\ Holds(y, 0, lead) /\ Holds(y, Len(lead), r)
  BY <1>1, <1>7, CatStr
<1>. HIDE DEF x, y
<1>9. ASSUME NEW k \in 1..Len(x), k # q, k # q + 1 PROVE x[k] = y[k]
  <2>1. CASE k <= Len(lead)
    <3>1. k \in 1..Len(lead) /\ 0 + k = k
      BY <1>1, <1>2, <2>1
    <3>2. x[0 + k] = lead[k] /\ y[0 + k] = lead[k]
      BY <1>1, <1>8, <3>1 DEF Holds
    <3> QED BY <3>1, <3>2
  <2>2. CASE ~(k <= Len(lead))
    <3>. DEFINE j == k - Len(lead)
    <3>1. j \in 1..Len(b) /\ Len(lead) + j = k /\ j # p /\ j # p + 1
      BY <1>1, <1>2, <1>9, <2>2
    <3>. HIDE DEF j
    <3>2. x[Len(lead) + j] = b[j] /\ y[Len(lead) + j] = r[j]
      BY <1>1, <1>7, <1>8, <3>1 DEF Holds
    <3> QED BY <1>7, <3>1, <3>2
  <2> QED BY <2>1, <2>2
<1>10. /\ x[q] = 0 /\ x[q + 1] = 0 /\ y[q] = c[1] /\ y[q + 1] = c[2]
       /\ q \in Nat /\ q % 2 = 1 /\ q + 1 <= Len(x)
  <2>1. q + 1 = Len(lead) + (p + 1)
    BY <1>2
  <2>2. x[Len(lead) + p] = b[p] /\ x[Len(lead) + (p + 1)] = b[p + 1]
    BY <1>1, <1>2 DEF Holds
  <2>3. y[Len(lead) + p] = r[p] /\ y[Len(lead) + (p + 1)] = r[p + 1]
    BY <1>2, <1>7, <1>8 DEF Holds
  <2>4. q \in Nat /\ q % 2 = 1 /\ q + 1 <= Len(x)
    BY <1>1, <1>2
  <2> QED BY <1>7, <2>1, <2>2, <2>3, <2>4
<1>. HIDE DEF q
<1>11. WordSum(y) = WordSum(x) + Number(y, q)
  BY <1>1, <1>8, <1>9, <1>10, SumChanges
<1>12. Number(y, q) = n
  BY <1>5, <1>10 DEF Number
<1>13. Adds(y)
  BY <1>3, <1>8, <1>11, <1>12, EvenAdds
<1> QED BY <1>7, <1>13 DEF y, r

LEMMA SummedHolds ==
  ASSUME NEW b \in Str, NEW r \in Str, NEW p \in Nat, Len(r) = Len(b),
         \A k \in 1..Len(b) : k # p /\ k # p + 1 => r[k] = b[k]
  PROVE  \A i \in Nat, part \in Str :
           Holds(b, i, part) /\ (i + Len(part) < p \/ p < i) => Holds(r, i, part)
<1>. SUFFICES ASSUME NEW i \in Nat, NEW part \in Str, Holds(b, i, part),
                     i + Len(part) < p \/ p < i
              PROVE  Holds(r, i, part)
  OBVIOUS
<1>1. Len(part) \in Nat /\ Len(b) \in Nat /\ i + Len(part) <= Len(b)
  BY StrShape DEF Holds
<1>2. ASSUME NEW k \in 1..Len(part) PROVE r[i + k] = part[k]
  <2>1. i + k \in 1..Len(b) /\ i + k # p /\ i + k # p + 1
    BY <1>1
  <2>2. b[i + k] = part[k]
    BY DEF Holds
  <2> QED BY <2>1, <2>2
<1> QED BY <1>1, <1>2 DEF Holds

\* Three strings one after the other, and five of them.
LEMMA Cat3 ==
  ASSUME NEW x \in Str, NEW y \in Str, NEW z \in Str
  PROVE  /\ (x \o y) \o z \in Str /\ Len((x \o y) \o z) = Len(x) + Len(y) + Len(z)
         /\ Holds((x \o y) \o z, 0, x) /\ Holds((x \o y) \o z, Len(x), y)
         /\ Holds((x \o y) \o z, Len(x) + Len(y), z)
<1>. DEFINE a == x \o y
<1>1. a \in Str /\ Len(a) = Len(x) + Len(y) /\ Holds(a, 0, x) /\ Holds(a, Len(x), y)
  BY CatStr
<1>. HIDE DEF a
<1>2. a \o z \in Str /\ Len(a \o z) = Len(a) + Len(z) /\ Holds(a \o z, Len(a), z)
  BY <1>1, CatStr
<1>3. Holds(a \o z, 0, x) /\ Holds(a \o z, Len(x), y)
  <2>1. 0 \in Nat /\ Len(x) \in Nat
    BY StrShape
  <2> QED BY <1>1, <2>1, CatHolds
<1> QED BY <1>1, <1>2, <1>3 DEF a

Chain(x, y, z, u, v) == (((x \o y) \o z) \o u) \o v

LEMMA Cat5 ==
  ASSUME NEW x \in Str, NEW y \in Str, NEW z \in Str, NEW u \in Str, NEW v \in Str
  PROVE  LET w == Chain(x, y, z, u, v)
         IN  /\ w \in Str /\ Len(w) = Len(x) + Len(y) + Len(z) + Len(u) + Len(v)
             /\ Holds(w, 0, x) /\ Holds(w, Len(x), y) /\ Holds(w, Len(x) + Len(y), z)
             /\ Holds(w, Len(x) + Len(y) + Len(z), u)
             /\ Holds(w, Len(x) + Len(y) + Len(z) + Len(u), v)
<1>. DEFINE w == Chain(x, y, z, u, v)
<1>. DEFINE a == (x \o y) \o z
<1>1. /\ a \in Str /\ Len(a) = Len(x) + Len(y) + Len(z)
      /\ Holds(a, 0, x) /\ Holds(a, Len(x), y) /\ Holds(a, Len(x) + Len(y), z)
  BY Cat3
<1>2. w = (a \o u) \o v
  BY DEF Chain
<1>. HIDE DEF a, w
<1>3. /\ w \in Str /\ Len(w) = Len(a) + Len(u) + Len(v)
      /\ Holds(w, 0, a) /\ Holds(w, Len(a), u) /\ Holds(w, Len(a) + Len(u), v)
  <2>1. /\ (a \o u) \o v \in Str /\ Len((a \o u) \o v) = Len(a) + Len(u) + Len(v)
        /\ Holds((a \o u) \o v, 0, a) /\ Holds((a \o u) \o v, Len(a), u)
        /\ Holds((a \o u) \o v, Len(a) + Len(u), v)
    BY <1>1, Cat3
  <2> QED BY <1>2, <2>1
<1>4. 0 \in Nat /\ Len(x) \in Nat /\ Len(y) \in Nat /\ Len(x) + Len(y) \in Nat
      /\ Len(z) \in Nat /\ Len(u) \in Nat /\ Len(v) \in Nat
  BY StrShape
<1>5. Holds(w, 0 + 0, x) /\ Holds(w, 0 + Len(x), y) /\ Holds(w, 0 + (Len(x) + Len(y)), z)
  <2>1. ASSUME NEW j \in Nat, NEW part \in Str, Holds(a, j, part) PROVE Holds(w, 0 + j, part)
    BY <1>1, <1>3, <2>1, HoldsIn
  <2> QED BY <1>1, <1>4, <2>1
<1>6. 0 + 0 = 0 /\ 0 + Len(x) = Len(x) /\ 0 + (Len(x) + Len(y)) = Len(x) + Len(y)
  BY <1>4
<1> QED BY <1>1, <1>3, <1>5, <1>6 DEF w

-----------------------------------------------------------------------------
(* Packets. *)

\* A header from s to d, read as the code reads one.
IsHead(h, s, d, proto) ==
  /\ h \in Str /\ s \in Str /\ d \in Str /\ 20 <= Len(h)
  /\ \/ /\ Len(s) = 4 /\ Len(d) = 4 /\ h[1] \div 16 = 4 /\ (h[1] % 16) * 4 = Len(h)
        /\ Holds(h, 12, s) /\ Holds(h, 16, d) /\ h[10] = proto
     \/ /\ Len(s) = 16 /\ Len(d) = 16 /\ h[1] \div 16 = 6
        /\ Len(h) = 40 /\ Holds(h, 8, s) /\ Holds(h, 24, d) /\ h[7] = proto

\* What is read off h \o u.
ReadsAs(h, u, s, d) ==
  /\ h \o u \in Str /\ Len(h \o u) = Len(h) + Len(u)
  /\ HeaderLen(h \o u) = Len(h) /\ Source(h \o u) = s /\ Target(h \o u) = d
  /\ UpperLayer(h \o u) = u /\ SubSeq(h \o u, 1, Len(h)) = h
  /\ \A k \in 1..Len(h) : (h \o u)[k] = h[k]
  /\ (h \o u)[1] \div 16 = 4 <=> Len(s) = 4

LEMMA HeadRead ==
  ASSUME NEW h, NEW s, NEW d, NEW proto, IsHead(h, s, d, proto), NEW u \in Str
  PROVE  ReadsAs(h, u, s, d)
<1>. DEFINE pkt == h \o u
<1>1. h \in Str /\ s \in Str /\ d \in Str /\ Len(h) \in Nat /\ Len(u) \in Nat /\ 20 <= Len(h)
  <2>1. h \in Str /\ s \in Str /\ d \in Str /\ 20 <= Len(h)
    BY DEF IsHead
  <2>2. Len(h) \in Nat /\ Len(u) \in Nat
    BY <2>1, StrShape
  <2> QED BY <2>1, <2>2
<1>2. /\ pkt \in Str /\ Len(pkt) = Len(h) + Len(u)
      /\ Holds(pkt, 0, h) /\ Holds(pkt, Len(h), u)
  BY <1>1, CatStr
<1>. HIDE DEF pkt
<1>3. \A k \in 1..Len(h) : pkt[k] = h[k]
  <2>1. \A k \in 1..Len(h) : pkt[0 + k] = h[k]
    BY <1>2 DEF Holds
  <2>2. \A k \in 1..Len(h) : 0 + k = k
    OBVIOUS
  <2> QED BY <2>1, <2>2
<1>4. pkt[1] = h[1]
  BY <1>1, <1>3
<1>5. SubSeq(pkt, 1, Len(h)) = h
  <2>1. SubSeq(pkt, 0 + 1, 0 + Len(h)) = h
    BY <1>1, <1>2, HoldsSub
  <2>2. 0 + 1 = 1 /\ 0 + Len(h) = Len(h)
    BY <1>1
  <2> QED BY <2>1, <2>2
<1>6. SubSeq(pkt, Len(h) + 1, Len(pkt)) = u
  BY <1>1, <1>2, HoldsSub
<1>7. ASSUME NEW i \in Nat, NEW part \in Str, Holds(h, i, part)
      PROVE  SubSeq(pkt, i + 1, i + Len(part)) = part
  <2>1. Holds(pkt, 0 + i, part) /\ 0 + i = i
    BY <1>1, <1>2, <1>7, HoldsIn
  <2> QED BY <1>2, <2>1, HoldsSub
<1>8. CASE Len(s) = 4
  <2>1. /\ Len(d) = 4 /\ h[1] \div 16 = 4 /\ (h[1] % 16) * 4 = Len(h)
        /\ Holds(h, 12, s) /\ Holds(h, 16, d)
    BY <1>8 DEF IsHead
  <2>2. SubSeq(pkt, 12 + 1, 12 + Len(s)) = s /\ SubSeq(pkt, 16 + 1, 16 + Len(d)) = d
    BY <1>1, <1>7, <2>1
  <2>3. HeaderLen(pkt) = Len(h)
    BY <1>4, <2>1 DEF HeaderLen
  <2>4. Source(pkt) = s /\ Target(pkt) = d
    BY <1>4, <1>8, <2>1, <2>2 DEF Source, Target
  <2> QED BY <1>2, <1>3, <1>4, <1>5, <1>6, <1>8, <2>1, <2>3, <2>4 DEF ReadsAs, UpperLayer, pkt
<1>9. CASE Len(s) # 4
  <2>1. /\ Len(d) = 16 /\ Len(s) = 16 /\ h[1] \div 16 = 6 /\ Len(h) = 40
        /\ Holds(h, 8, s) /\ Holds(h, 24, d)
    BY <1>9 DEF IsHead
  <2>2. SubSeq(pkt, 8 + 1, 8 + Len(s)) = s /\ SubSeq(pkt, 24 + 1, 24 + Len(d)) = d
    BY <1>1, <1>7, <2>1
  <2>3. HeaderLen(pkt) = Len(h)
    BY <1>4, <2>1 DEF HeaderLen
  <2>4. Source(pkt) = s /\ Target(pkt) = d
    BY <1>4, <2>1, <2>2 DEF Source, Target
  <2>5. UpperLayer(pkt) = u
    BY <1>6, <2>3 DEF UpperLayer
  <2>6. pkt[1] \div 16 = 4 <=> Len(s) = 4
    BY <1>4, <1>9, <2>1
  <2> QED BY <1>2, <1>3, <1>5, <1>9, <2>3, <2>4, <2>5, <2>6 DEF ReadsAs, pkt
<1> QED BY <1>8, <1>9

\* The addresses of a packet: both of 4 bytes or both of 16.
Addressed(s, d) == s \in Str /\ d \in Str /\ Len(d) = Len(s) /\ (Len(s) = 4 \/ Len(s) = 16)

LEMMA SummedHead ==
  ASSUME NEW b \in Str, Len(b) = 20, b[11] = 0, b[12] = 0
  PROVE  LET h == Summed(b, 11, <<>>)
         IN  /\ h \in Str /\ Len(h) = 20 /\ Adds(<<>> \o h)
             /\ \A k \in 1..20 : k # 11 /\ k # 12 => h[k] = b[k]
<1>. DEFINE p == 11
            lead == <<>>
            h == Summed(b, p, lead)
<1>1. /\ lead \in Str /\ Len(lead) % 2 = 0 /\ p \in Nat /\ p % 2 = 1 /\ p + 1 <= Len(b)
      /\ p + 1 = 12 /\ b[p] = 0 /\ b[p + 1] = 0
  BY EmptyStr
<1>. HIDE DEF p, lead
<1>2. /\ h \in Str /\ Len(h) = Len(b) /\ Adds(lead \o h)
      /\ \A k \in 1..Len(b) : k # p /\ k # p + 1 => h[k] = b[k]
  BY <1>1, SummedIs, ZenonT(30)
<1>. HIDE DEF h
<1>3. /\ h \in Str /\ Len(h) = 20 /\ Adds(lead \o h)
      /\ \A k \in 1..20 : k # p /\ k # 12 => h[k] = b[k]
  BY <1>1, <1>2
<1> QED BY <1>3 DEF h, p, lead

LEMMA Head4 ==
  ASSUME NEW s, NEW d, Addressed(s, d), Len(s) = 4, NEW proto \in Nat, NEW len \in Nat, Short(20 + len)
  PROVE  LET h == IpHeader(s, d, proto, len)
         IN  IsHead(h, s, d, proto) /\ Len(h) = 20 /\ Number(h, 3) = 20 + len /\ Adds(h)
<1>. DEFINE x == <<69, 0>>
            y == U2(20 + len)
            z == <<0, 0, 0, 0, 64, proto, 0, 0>>
            b == Chain(x, y, z, s, d)
            h == Summed(b, 11, <<>>)
<1>1. x \in Str /\ Len(x) = 2 /\ x[1] = 69
  BY DEF Str
<1>2. y \in Str /\ Len(y) = 2
  BY U2Str
<1>3. z \in Str /\ Len(z) = 8 /\ z[6] = proto /\ z[7] = 0 /\ z[8] = 0
  BY DEF Str
<1>4. s \in Str /\ d \in Str /\ Len(d) = 4
  BY DEF Addressed
<1>5. IpHeader(s, d, proto, len) = h
  BY DEF IpHeader, Chain
<1>. HIDE DEF x, y, z
<1>6. /\ b \in Str /\ Len(b) = Len(x) + Len(y) + Len(z) + Len(s) + Len(d)
      /\ Holds(b, 0, x) /\ Holds(b, Len(x), y) /\ Holds(b, Len(x) + Len(y), z)
      /\ Holds(b, Len(x) + Len(y) + Len(z), s)
      /\ Holds(b, Len(x) + Len(y) + Len(z) + Len(s), d)
  BY <1>1, <1>2, <1>3, <1>4, Cat5
<1>. HIDE DEF b
<1>7. /\ Len(b) = 20 /\ Holds(b, 0, x) /\ Holds(b, 2, y) /\ Holds(b, 4, z)
      /\ Holds(b, 12, s) /\ Holds(b, 16, d)
  BY <1>1, <1>2, <1>3, <1>4, <1>6
<1>8. b[11] = 0 /\ b[12] = 0 /\ b[10] = proto /\ b[1] = 69
  <2>1. b[4 + 6] = z[6] /\ b[4 + 7] = z[7] /\ b[4 + 8] = z[8] /\ b[0 + 1] = x[1]
    BY <1>1, <1>3, <1>7 DEF Holds
  <2> QED BY <1>1, <1>3, <2>1
<1>9. /\ h \in Str /\ Len(h) = 20 /\ Adds(<<>> \o h)
      /\ \A k \in 1..20 : k # 11 /\ k # 12 => h[k] = b[k]
  BY <1>6, <1>7, <1>8, SummedHead
<1>. HIDE DEF h
<1>10. Adds(h)
  BY <1>9, CatEmpty
<1>11. Holds(h, 2, y) /\ Holds(h, 12, s) /\ Holds(h, 16, d)
  <2>. DEFINE p == 11
  <2>1. /\ p \in Nat /\ Len(h) = Len(b)
        /\ \A k \in 1..Len(b) : k # p /\ k # p + 1 => h[k] = b[k]
    BY <1>7, <1>9
  <2>. HIDE DEF p
  <2>2. \A i \in Nat, part \in Str : Holds(b, i, part) /\ (i + Len(part) < p \/ p < i) => Holds(h, i, part)
    BY <1>6, <1>9, <2>1, SummedHolds
  <2>3. 2 + Len(y) < p /\ p < 12 /\ p < 16
    BY <1>2 DEF p
  <2> QED BY <1>2, <1>4, <1>7, <2>2, <2>3
<1>12. h[1] = 69 /\ h[10] = proto
  BY <1>8, <1>9
<1>13. Number(h, 2 + 1) = 20 + len
  BY <1>9, <1>11, NumberAt DEF y
<1>14. 69 \div 16 = 4 /\ (69 % 16) * 4 = 20
  OBVIOUS
<1>15. IsHead(h, s, d, proto)
  BY <1>4, <1>9, <1>11, <1>12, <1>14 DEF IsHead
<1> QED BY <1>5, <1>9, <1>10, <1>13, <1>15

LEMMA Head6 ==
  ASSUME NEW s, NEW d, Addressed(s, d), Len(s) = 16, NEW proto \in Nat, NEW len \in Nat, Short(len)
  PROVE  LET h == IpHeader(s, d, proto, len)
         IN  IsHead(h, s, d, proto) /\ Len(h) = 40 /\ Number(h, 5) = len
<1>. DEFINE x == <<96, 0, 0, 0>>
            y == U2(len)
            z == <<proto, 64>>
            h == Chain(x, y, z, s, d)
<1>1. x \in Str /\ Len(x) = 4 /\ x[1] = 96
  BY DEF Str
<1>2. y \in Str /\ Len(y) = 2
  BY U2Str
<1>3. z \in Str /\ Len(z) = 2 /\ z[1] = proto
  BY DEF Str
<1>4. s \in Str /\ d \in Str /\ Len(d) = 16
  BY DEF Addressed
<1>5. IpHeader(s, d, proto, len) = h
  BY DEF IpHeader, Chain
<1>. HIDE DEF x, y, z
<1>6. /\ h \in Str /\ Len(h) = Len(x) + Len(y) + Len(z) + Len(s) + Len(d)
      /\ Holds(h, 0, x) /\ Holds(h, Len(x), y) /\ Holds(h, Len(x) + Len(y), z)
      /\ Holds(h, Len(x) + Len(y) + Len(z), s)
      /\ Holds(h, Len(x) + Len(y) + Len(z) + Len(s), d)
  BY <1>1, <1>2, <1>3, <1>4, Cat5
<1>. HIDE DEF h
<1>7. /\ Len(h) = 40 /\ Holds(h, 0, x) /\ Holds(h, 4, y) /\ Holds(h, 6, z)
      /\ Holds(h, 8, s) /\ Holds(h, 24, d)
  BY <1>1, <1>2, <1>3, <1>4, <1>6
<1>8. h[7] = proto /\ h[1] = 96
  <2>1. h[6 + 1] = z[1] /\ h[0 + 1] = x[1]
    BY <1>1, <1>3, <1>7 DEF Holds
  <2> QED BY <1>1, <1>3, <2>1
<1>9. Number(h, 4 + 1) = len
  BY <1>6, <1>7, NumberAt DEF y
<1>10. 96 \div 16 = 6
  OBVIOUS
<1>11. IsHead(h, s, d, proto)
  <2>1. 20 <= Len(h)
    BY <1>7
  <2> QED BY <1>4, <1>6, <1>7, <1>8, <1>10, <2>1 DEF IsHead
<1> QED BY <1>5, <1>7, <1>9, <1>11

LEMMA PseudoIs ==
  ASSUME NEW s, NEW d, Addressed(s, d), NEW proto \in Nat, NEW len \in Nat
  PROVE  Pseudo(s, d, proto, len) \in Str /\ Len(Pseudo(s, d, proto, len)) % 2 = 0
<1>1. s \in Str /\ d \in Str /\ U2(len) \in Str /\ Len(U2(len)) = 2
  BY U2Str DEF Addressed
<1>2. CASE Len(s) = 4
  <2>. DEFINE z == <<0, proto>>
              y == U2(len)
              v == s \o d
              w == (v \o z) \o y
  <2>1. z \in Str /\ Len(z) = 2
    BY DEF Str
  <2>2. Pseudo(s, d, proto, len) = w /\ Len(d) = 4
    BY <1>2 DEF Pseudo, Addressed
  <2>. HIDE DEF z, y
  <2>3. v \in Str /\ Len(v) = Len(s) + Len(d)
    BY <1>1, CatStr
  <2>. HIDE DEF v
  <2>4. w \in Str /\ Len(w) = 12
    <3>1. w \in Str /\ Len(w) = Len(v) + Len(z) + Len(y)
      BY <1>1, <2>1, <2>3, Cat3 DEF y
    <3>. HIDE DEF w
    <3> QED BY <1>1, <1>2, <2>1, <2>2, <2>3, <3>1 DEF y
  <2> QED BY <2>2, <2>4
<1>3. CASE Len(s) # 4
  <2>. DEFINE z == <<0, 0>>
              y == U2(len)
              v == <<0, 0, 0, proto>>
              w == Chain(s, d, z, y, v)
  <2>1. z \in Str /\ Len(z) = 2 /\ v \in Str /\ Len(v) = 4
    BY DEF Str
  <2>0. y \in Str /\ Len(y) = 2
    BY <1>1
  <2>2. Pseudo(s, d, proto, len) = w /\ Len(d) = 16 /\ Len(s) = 16
    BY <1>3 DEF Pseudo, Addressed, Chain
  <2>. HIDE DEF z, v, y
  <2>3. w \in Str /\ Len(w) = Len(s) + Len(d) + Len(z) + Len(y) + Len(v)
    <3>1. /\ w \in Str /\ Len(w) = Len(s) + Len(d) + Len(z) + Len(y) + Len(v)
          /\ Holds(w, 0, s) /\ Holds(w, Len(s), d) /\ Holds(w, Len(s) + Len(d), z)
          /\ Holds(w, Len(s) + Len(d) + Len(z), y)
          /\ Holds(w, Len(s) + Len(d) + Len(z) + Len(y), v)
      BY <1>1, <2>0, <2>1, Cat5
    <3>. HIDE DEF w
    <3> QED BY <3>1
  <2>. HIDE DEF w
  <2>4. Len(w) = 40
    BY <1>1, <2>0, <2>1, <2>2, <2>3
  <2>5. Pseudo(s, d, proto, len) = w /\ w \in Str
    BY <2>2, <2>3
  <2>6. Len(w) % 2 = 0
    BY <2>4
  <2> QED BY <2>5, <2>6
<1> QED BY <1>2, <1>3

\* Whatever is behind a header that IpHeader made, the lengths are true.
LEMMA HeadTrue ==
  ASSUME NEW s, NEW d, Addressed(s, d), NEW proto \in Nat, NEW u \in Str, Short(20 + Len(u)), Short(Len(u)),
         Adds((IF proto = 1 THEN <<>> ELSE Pseudo(s, d, proto, Len(u))) \o u)
  PROVE  /\ IsHead(IpHeader(s, d, proto, Len(u)), s, d, proto)
         /\ WellFormed(IpHeader(s, d, proto, Len(u)) \o u, proto)
<1>. DEFINE h == IpHeader(s, d, proto, Len(u))
            pkt == h \o u
<1>1. Len(u) \in Nat
  BY StrShape
<1>2. CASE Len(s) = 4
  <2>1. IsHead(h, s, d, proto) /\ Len(h) = 20 /\ Number(h, 3) = 20 + Len(u) /\ Adds(h)
    BY <1>1, <1>2, Head4
  <2>. HIDE DEF h
  <2>2. /\ Len(pkt) = Len(h) + Len(u)
        /\ HeaderLen(pkt) = Len(h) /\ Source(pkt) = s /\ Target(pkt) = d
        /\ UpperLayer(pkt) = u /\ SubSeq(pkt, 1, Len(h)) = h
        /\ \A k \in 1..Len(h) : pkt[k] = h[k]
        /\ pkt[1] \div 16 = 4 <=> Len(s) = 4
    <3>1. ReadsAs(h, u, s, d)
      BY <2>1, HeadRead
    <3> QED BY <3>1 DEF ReadsAs
  <2>. HIDE DEF pkt
  <2>3. Number(pkt, 3) = Len(pkt)
    <3>1. pkt[3] = h[3] /\ pkt[3 + 1] = h[3 + 1]
      BY <2>1, <2>2
    <3>2. Number(pkt, 3) = Number(h, 3)
      BY <3>1 DEF Number
    <3> QED BY <1>1, <2>1, <2>2, <3>2
  <2>4. LengthTrue(pkt)
    BY <1>2, <2>1, <2>2, <2>3 DEF LengthTrue
  <2> QED BY <2>1, <2>2, <2>4 DEF WellFormed, pkt, h
<1>3. CASE Len(s) # 4
  <2>1. IsHead(h, s, d, proto) /\ Len(h) = 40 /\ Number(h, 5) = Len(u)
    BY <1>1, <1>3, Head6, ZenonT(30) DEF Addressed
  <2>. HIDE DEF h
  <2>2. /\ Len(pkt) = Len(h) + Len(u)
        /\ HeaderLen(pkt) = Len(h) /\ Source(pkt) = s /\ Target(pkt) = d
        /\ UpperLayer(pkt) = u /\ SubSeq(pkt, 1, Len(h)) = h
        /\ \A k \in 1..Len(h) : pkt[k] = h[k]
        /\ pkt[1] \div 16 = 4 <=> Len(s) = 4
    <3>1. ReadsAs(h, u, s, d)
      BY <2>1, HeadRead
    <3> QED BY <3>1 DEF ReadsAs
  <2>. HIDE DEF pkt
  <2>3. Number(pkt, 5) = Len(pkt) - 40
    <3>1. pkt[5] = h[5] /\ pkt[5 + 1] = h[5 + 1]
      BY <2>1, <2>2
    <3>2. Number(pkt, 5) = Number(h, 5)
      BY <3>1 DEF Number
    <3> QED BY <1>1, <2>1, <2>2, <3>2
  <2>4. LengthTrue(pkt)
    BY <1>3, <2>1, <2>2, <2>3 DEF LengthTrue
  <2> QED BY <2>1, <2>2, <2>4 DEF WellFormed, pkt, h
<1> QED BY <1>2, <1>3

\* A UDP datagram as it lies in a packet.
IsUdp(u, sport, dport, payload) ==
  /\ u \in Str /\ payload \in Str /\ Len(u) = 8 + Len(payload)
  /\ Holds(u, 0, U2(sport)) /\ Holds(u, 2, U2(dport)) /\ Holds(u, 4, U2(8 + Len(payload)))
  /\ Holds(u, 8, payload)

UdpOf(sport, dport, payload) ==
  Chain(U2(sport), U2(dport), U2(8 + Len(payload)), <<0, 0>>, payload)

LEMMA UdpIs ==
  ASSUME NEW sport \in Nat, NEW dport \in Nat, NEW payload \in Str
  PROVE  LET u == UdpOf(sport, dport, payload)
         IN  IsUdp(u, sport, dport, payload) /\ u[7] = 0 /\ u[8] = 0
<1>. DEFINE x == U2(sport)
            y == U2(dport)
            z == U2(8 + Len(payload))
            o == <<0, 0>>
            u == Chain(x, y, z, o, payload)
<1>0. Len(payload) \in Nat
  BY StrShape
<1>1. /\ x \in Str /\ Len(x) = 2 /\ y \in Str /\ Len(y) = 2
      /\ z \in Str /\ Len(z) = 2
  BY <1>0, U2Str
<1>2. o \in Str /\ Len(o) = 2 /\ o[1] = 0 /\ o[2] = 0
  BY DEF Str
<1>3. UdpOf(sport, dport, payload) = u
  BY DEF UdpOf
<1>. HIDE DEF x, y, z, o
<1>4. /\ u \in Str /\ Len(u) = Len(x) + Len(y) + Len(z) + Len(o) + Len(payload)
      /\ Holds(u, 0, x) /\ Holds(u, Len(x), y) /\ Holds(u, Len(x) + Len(y), z)
      /\ Holds(u, Len(x) + Len(y) + Len(z), o)
      /\ Holds(u, Len(x) + Len(y) + Len(z) + Len(o), payload)
  BY <1>1, <1>2, Cat5
<1>. HIDE DEF u
<1>5. /\ Len(u) = 8 + Len(payload) /\ Holds(u, 0, x) /\ Holds(u, 2, y) /\ Holds(u, 4, z)
      /\ Holds(u, 6, o) /\ Holds(u, 8, payload)
  BY <1>0, <1>1, <1>2, <1>4
<1>6. u[7] = 0 /\ u[8] = 0
  <2>1. u[6 + 1] = o[1] /\ u[6 + 2] = o[2]
    BY <1>2, <1>5 DEF Holds
  <2> QED BY <1>2, <2>1
<1>7. IsUdp(u, sport, dport, payload)
  BY <1>4, <1>5 DEF IsUdp, x, y, z
<1> QED BY <1>3, <1>6, <1>7

\* Parsed reads such a packet as it was put together.
LEMMA ParsedIs ==
  ASSUME NEW h, NEW s, NEW d, IsHead(h, s, d, UdpProto), NEW sport, NEW dport, NEW payload, NEW u,
         IsUdp(u, sport, dport, payload), Short(sport), Short(dport), Short(8 + Len(payload))
  PROVE  Parsed(h \o u) = [src |-> s, sport |-> sport, dst |-> d, dport |-> dport, payload |-> payload]
<1>. DEFINE pkt == h \o u
<1>1. /\ u \in Str /\ payload \in Str /\ Len(u) = 8 + Len(payload)
      /\ Holds(u, 0, U2(sport)) /\ Holds(u, 2, U2(dport)) /\ Holds(u, 4, U2(8 + Len(payload)))
      /\ Holds(u, 8, payload)
  BY DEF IsUdp
<1>2. HeaderLen(pkt) = Len(h) /\ Source(pkt) = s /\ Target(pkt) = d /\ UpperLayer(pkt) = u
  <2>1. ReadsAs(h, u, s, d)
    BY <1>1, HeadRead
  <2> QED BY <2>1 DEF ReadsAs
<1>. HIDE DEF pkt
<1>3. SubSeq(pkt, HeaderLen(pkt) + 1, Len(pkt)) = u
  BY <1>2 DEF UpperLayer
<1>4. Number(u, 0 + 1) = sport /\ Number(u, 2 + 1) = dport /\ Number(u, 4 + 1) = 8 + Len(payload)
  BY <1>1, NumberAt
<1>5. SubSeq(u, 8 + 1, 8 + Len(payload)) = payload
  BY <1>1, HoldsSub
<1>6. 0 + 1 = 1 /\ 2 + 1 = 3 /\ 4 + 1 = 5 /\ 8 + 1 = 9
  OBVIOUS
<1>7. SubSeq(u, 9, Number(u, 5)) = payload
  BY <1>4, <1>5, <1>6
<1>8. Number(u, 1) = sport /\ Number(u, 3) = dport
  BY <1>4, <1>6
<1> QED BY <1>2, <1>3, <1>7, <1>8 DEF Parsed, pkt

LEMMA SummedUdp ==
  ASSUME NEW sport \in Nat, NEW dport \in Nat, NEW payload \in Str, NEW lead \in Str, Len(lead) % 2 = 0
  PROVE  LET u == Summed(UdpOf(sport, dport, payload), 7, lead)
         IN  IsUdp(u, sport, dport, payload) /\ Adds(lead \o u)
<1>. DEFINE b == UdpOf(sport, dport, payload)
            p == 7
            u == Summed(b, p, lead)
<1>1. IsUdp(b, sport, dport, payload) /\ b[7] = 0 /\ b[8] = 0
  BY UdpIs
<1>2. p \in Nat /\ p % 2 = 1 /\ p = 7 /\ p + 1 = 8
  OBVIOUS
<1>. HIDE DEF b, p
<1>3. /\ b \in Str /\ payload \in Str /\ Len(b) = 8 + Len(payload)
      /\ Holds(b, 0, U2(sport)) /\ Holds(b, 2, U2(dport)) /\ Holds(b, 4, U2(8 + Len(payload)))
      /\ Holds(b, 8, payload) /\ Len(payload) \in Nat
  BY <1>1, StrShape DEF IsUdp
<1>4. /\ u \in Str /\ Len(u) = Len(b) /\ Adds(lead \o u)
      /\ \A k \in 1..Len(b) : k # p /\ k # p + 1 => u[k] = b[k]
  <2>1. p + 1 <= Len(b) /\ b[p] = 0 /\ b[p + 1] = 0
    BY <1>1, <1>2, <1>3
  <2> QED BY <1>2, <1>3, <2>1, SummedIs
<1>. HIDE DEF u
<1>5. \A i \in Nat, part \in Str : Holds(b, i, part) /\ (i + Len(part) < p \/ p < i) => Holds(u, i, part)
  BY <1>2, <1>3, <1>4, SummedHolds
<1>6. /\ U2(sport) \in Str /\ Len(U2(sport)) = 2 /\ U2(dport) \in Str /\ Len(U2(dport)) = 2
      /\ U2(8 + Len(payload)) \in Str /\ Len(U2(8 + Len(payload))) = 2
  BY <1>3, U2Str
<1>7. /\ Holds(u, 0, U2(sport)) /\ Holds(u, 2, U2(dport)) /\ Holds(u, 4, U2(8 + Len(payload)))
      /\ Holds(u, 8, payload)
  <2>. DEFINE x == U2(sport)
              y == U2(dport)
              z == U2(8 + Len(payload))
  <2>1. x \in Str /\ y \in Str /\ z \in Str /\ 0 + Len(x) < p /\ 2 + Len(y) < p /\ 4 + Len(z) < p /\ p < 8
    <3>1. x \in Str /\ Len(x) = 2 /\ y \in Str /\ Len(y) = 2 /\ z \in Str /\ Len(z) = 2
      BY <1>6
    <3>. HIDE DEF x, y, z
    <3> QED BY <1>2, <3>1
  <2>. HIDE DEF x, y, z
  <2>2. Holds(b, 0, x) /\ Holds(b, 2, y) /\ Holds(b, 4, z) /\ Holds(b, 8, payload)
    BY <1>3 DEF x, y, z
  <2>3. Holds(u, 0, x) /\ Holds(u, 2, y) /\ Holds(u, 4, z) /\ Holds(u, 8, payload)
    BY <1>3, <1>5, <2>1, <2>2
  <2> QED BY <2>3 DEF x, y, z
<1>8. IsUdp(u, sport, dport, payload)
  BY <1>3, <1>4, <1>7 DEF IsUdp
<1> QED BY <1>4, <1>8 DEF u, b, p

LEMMA ShortLess == ASSUME NEW n \in Nat, NEW k \in Nat, Short(k + n) PROVE Short(n)
BY ShortIs

\* A reply is a valid packet and reads as what it was built from.
LEMMA ReplyReads ==
  ASSUME NEW s, NEW d, Addressed(s, d), NEW sport, NEW dport, Short(sport), Short(dport),
         NEW payload \in Str, Short(28 + Len(payload))
  PROVE  LET pkt == BuildReply(s, sport, d, dport, payload)
         IN  /\ Parsed(pkt) = [src |-> s, sport |-> sport, dst |-> d, dport |-> dport,
                               payload |-> payload]
             /\ WellFormed(pkt, UdpProto) /\ pkt \in Str
<1>. DEFINE n == Len(payload)
            len == 8 + n
            ps == Pseudo(s, d, UdpProto, len)
            u == Summed(UdpOf(sport, dport, payload), 7, ps)
            h == IpHeader(s, d, UdpProto, len)
<1>1. n \in Nat /\ len \in Nat /\ UdpProto \in Nat /\ UdpProto # 1 /\ 20 + len = 28 + n
      /\ sport \in Nat /\ dport \in Nat
  BY StrShape, ShortIs DEF UdpProto
<1>2. BuildReply(s, sport, d, dport, payload) = h \o u
  BY DEF BuildReply, UdpOf, Chain
<1>3. Short(20 + len) /\ Short(len)
  BY <1>1, ShortLess
<1>. HIDE DEF n
<1>4. ps \in Str /\ Len(ps) % 2 = 0
  BY <1>1, PseudoIs
<1>. HIDE DEF len, ps
<1>5. IsUdp(u, sport, dport, payload) /\ Adds(ps \o u)
  BY <1>1, <1>4, SummedUdp
<1>. HIDE DEF u
<1>6. u \in Str /\ Len(u) = len
  BY <1>5 DEF IsUdp, len, n
<1>7. IsHead(h, s, d, UdpProto) /\ WellFormed(h \o u, UdpProto)
  <2>1. Adds((IF UdpProto = 1 THEN <<>> ELSE Pseudo(s, d, UdpProto, Len(u))) \o u)
    BY <1>1, <1>5, <1>6 DEF ps
  <2>2. Short(20 + Len(u)) /\ Short(Len(u)) /\ h = IpHeader(s, d, UdpProto, Len(u))
    BY <1>3, <1>6
  <2> QED BY <1>1, <1>6, <2>1, <2>2, HeadTrue
<1>. HIDE DEF h
<1>8. Parsed(h \o u) = [src |-> s, sport |-> sport, dst |-> d, dport |-> dport, payload |-> payload]
  <2>1. Short(8 + Len(payload))
    BY <1>3 DEF len, n
  <2> QED BY <1>5, <1>7, <2>1, ParsedIs
<1>9. h \o u \in Str
  <2>1. ReadsAs(h, u, s, d)
    BY <1>6, <1>7, HeadRead
  <2> QED BY <2>1 DEF ReadsAs
<1> QED BY <1>2, <1>7, <1>8, <1>9

\* The flow's own fields.
IsPeer(p) ==
  /\ Addressed(p.src, p.dst) /\ Short(p.sport) /\ Short(p.dport)
  /\ p.options \in Str /\ Len(p.options) % 4 = 0 /\ Len(p.options) <= 40
  /\ p.host # NoHost => p.host \in Str

LEMMA PeersAre ==
  /\ \A p \in Peers : IsPeer(p)
  /\ \A x \in Payloads : x \in Str /\ Short(68 + Len(x))
  /\ Sid \in Str /\ Len(Sid) = 4
  /\ \A b \in Junk : b \in Str /\ Short(Len(b))
  /\ \A n \in Nat : n <= MaxBody => Short(n)
<1>0. Longest \in Nat
  BY DEF Longest
<1>1. ASSUME NEW p \in Peers PROVE IsPeer(p)
  <2>4. IsFlow(p)
    BY DatagramsConstants DEF DatagramsConstants
  <2>0. /\ p.src \in Seq(Byte) /\ p.dst \in Seq(Byte) /\ p.options \in Seq(Byte)
        /\ Len(p.src) = Len(p.dst) /\ Len(p.src) \in {4, 16}
        /\ Len(p.options) % 4 = 0 /\ Len(p.options) <= 40
        /\ p.sport \in 0..Longest /\ p.dport \in 0..Longest
        /\ p.host # NoHost => p.host \in Seq(Byte)
    BY <2>4 DEF IsFlow
  <2>1. /\ p.src \in Str /\ p.dst \in Str /\ p.options \in Str
        /\ p.host # NoHost => p.host \in Str
    BY <2>0, StrOf
  <2>2. Short(p.sport) /\ Short(p.dport)
    BY <2>0 DEF Short
  <2>3. Addressed(p.src, p.dst)
    BY <2>0, <2>1 DEF Addressed
  <2> QED BY <2>0, <2>1, <2>2, <2>3 DEF IsPeer
<1>2. ASSUME NEW x \in Payloads PROVE x \in Str /\ Short(68 + Len(x))
  <2>1. x \in Seq(Byte) /\ Len(x) + 68 <= Longest
    BY DatagramsConstants DEF DatagramsConstants
  <2>2. x \in Str
    BY <2>1, StrOf
  <2>3. Len(x) \in Nat
    BY <2>2, StrShape
  <2> QED BY <1>0, <2>1, <2>2, <2>3 DEF Short
<1>3. ASSUME NEW b \in Junk PROVE b \in Str /\ Short(Len(b))
  <2>1. b \in Seq(Byte) /\ Len(b) <= Longest
    BY DatagramsConstants DEF DatagramsConstants
  <2>2. b \in Str
    BY <2>1, StrOf
  <2>3. Len(b) \in Nat
    BY <2>2, StrShape
  <2> QED BY <1>0, <2>1, <2>2, <2>3 DEF Short
<1>4. Sid \in Str /\ Len(Sid) = 4
  BY StrOf, DatagramsConstants DEF DatagramsConstants
<1>5. ASSUME NEW n \in Nat, n <= MaxBody PROVE Short(n)
  <2>1. MaxBody \in 0..Longest
    BY DatagramsConstants DEF DatagramsConstants
  <2> QED BY <1>0, <1>5, <2>1 DEF Short
<1> QED BY <1>1, <1>2, <1>3, <1>4, <1>5

\* The header of the app's kernel, options and all.
AskHead(p, len) ==
  IF Len(p.src) = 4
  THEN Chain(<<69 + Len(p.options) \div 4, 0>>, U2(20 + Len(p.options) + len),
             <<7, 7, 64, 0, 64, UdpProto, 0, 0>>, p.src, p.dst) \o p.options
  ELSE Chain(<<96, 0, 0, 0>>, U2(len), <<UdpProto, 64>>, p.src, p.dst)

LEMMA AskIs ==
  ASSUME NEW payload
  PROVE  AppPacket(payload) =
           AskHead(peer, 8 + Len(payload)) \o UdpOf(peer.sport, peer.dport, payload)
BY DEF AppPacket, AskHead, Chain, UdpOf

LEMMA AskHeadIs ==
  ASSUME NEW p, IsPeer(p), NEW len \in Nat, Short(len)
  PROVE  IsHead(AskHead(p, len), p.src, p.dst, UdpProto) /\ Len(AskHead(p, len)) <= 60
<1>. DEFINE s == p.src
            d == p.dst
            o == p.options
<1>1. Addressed(s, d) /\ o \in Str /\ Len(o) % 4 = 0 /\ Len(o) <= 40
  BY DEF IsPeer
<1>2. s \in Str /\ d \in Str /\ Len(d) = Len(s) /\ (Len(s) = 4 \/ Len(s) = 16) /\ Len(o) \in Nat
  BY <1>1, StrShape DEF Addressed
<1>. HIDE DEF s, d, o
<1>3. CASE Len(s) = 4
  <2>. DEFINE f == 69 + Len(o) \div 4
              x == <<f, 0>>
              y == U2(20 + Len(o) + len)
              z == <<7, 7, 64, 0, 64, UdpProto, 0, 0>>
              b == Chain(x, y, z, s, d)
              h == b \o o
  <2>1. AskHead(p, len) = h
    BY <1>3 DEF AskHead, s, d, o
  <2>2. f \in Nat /\ f \div 16 = 4 /\ (f % 16) * 4 = 20 + Len(o)
    <3>. DEFINE q == Len(o) \div 4
    <3>1. q \in 0..10 /\ Len(o) = 4 * q
      BY <1>1, <1>2
    <3>. HIDE DEF q
    <3>2. (69 + q) \div 16 = 4 /\ ((69 + q) % 16) * 4 = 20 + 4 * q
      BY <3>1
    <3> QED BY <3>1, <3>2 DEF q
  <2>. HIDE DEF f
  <2>3. x \in Str /\ Len(x) = 2 /\ x[1] = f
    BY <2>2 DEF Str
  <2>4. y \in Str /\ Len(y) = 2
    BY <1>2, U2Str
  <2>5. z \in Str /\ Len(z) = 8 /\ z[6] = UdpProto
    BY DEF Str, UdpProto
  <2>. HIDE DEF x, y, z
  <2>6. /\ b \in Str /\ Len(b) = Len(x) + Len(y) + Len(z) + Len(s) + Len(d)
        /\ Holds(b, 0, x) /\ Holds(b, Len(x), y) /\ Holds(b, Len(x) + Len(y), z)
        /\ Holds(b, Len(x) + Len(y) + Len(z), s)
        /\ Holds(b, Len(x) + Len(y) + Len(z) + Len(s), d)
    BY <1>2, <2>3, <2>4, <2>5, Cat5
  <2>. HIDE DEF b
  <2>7. /\ Len(b) = 20 /\ Holds(b, 0, x) /\ Holds(b, 4, z) /\ Holds(b, 12, s) /\ Holds(b, 16, d)
    <3>1. Len(s) = 4 /\ Len(d) = 4
      BY <1>2, <1>3
    <3> QED BY <2>3, <2>4, <2>5, <2>6, <3>1
  <2>8. h \in Str /\ Len(h) = Len(b) + Len(o) /\ Holds(h, 0, b)
    BY <1>1, <2>6, CatStr
  <2>9. Holds(h, 12, s) /\ Holds(h, 16, d) /\ Holds(h, 0, x) /\ Holds(h, 4, z)
    <3>1. \A i \in Nat, part \in Str : Holds(b, i, part) => Holds(h, i, part)
      BY <1>1, <2>6, CatHolds
    <3>. HIDE DEF h
    <3> QED BY <1>2, <2>3, <2>5, <2>7, <3>1
  <2>. HIDE DEF h
  <2>10. h[1] = f /\ h[10] = UdpProto
    <3>1. h[0 + 1] = x[1] /\ h[4 + 6] = z[6]
      BY <2>3, <2>5, <2>9 DEF Holds
    <3> QED BY <2>3, <2>5, <3>1
  <2>11. Len(h) = 20 + Len(o) /\ 20 <= Len(h) /\ Len(h) <= 60
    BY <1>1, <1>2, <2>7, <2>8
  <2>12. IsHead(h, s, d, UdpProto)
    BY <1>2, <1>3, <2>2, <2>8, <2>9, <2>10, <2>11 DEF IsHead
  <2> QED BY <2>1, <2>11, <2>12 DEF s, d
<1>4. CASE Len(s) # 4
  <2>. DEFINE h == IpHeader(s, d, UdpProto, len)
  <2>1. AskHead(p, len) = h
    BY <1>4 DEF AskHead, IpHeader, Chain, s, d, o
  <2>2. IsHead(h, s, d, UdpProto) /\ Len(h) = 40
    <3>1. UdpProto \in Nat /\ Len(s) = 16
      BY <1>2, <1>4 DEF UdpProto
    <3> QED BY <1>1, <3>1, Head6
  <2>. HIDE DEF h
  <2>3. Len(h) <= 60
    BY <2>2
  <2> QED BY <2>1, <2>2, <2>3 DEF s, d
<1> QED BY <1>3, <1>4

-----------------------------------------------------------------------------
(* What a frame of the flow carries. *)

LEMMA AtypIs ==
  ASSUME NEW p, IsPeer(p)
  PROVE  /\ Atyp(p) \in Str
         /\ \/ Atyp(p)[1] = 1 /\ Len(Atyp(p)) = 5
            \/ Atyp(p)[1] = 4 /\ Len(Atyp(p)) = 17
            \/ Atyp(p)[1] = 3 /\ Len(Atyp(p)) = 2 + Atyp(p)[2] /\ Atyp(p)[2] \in Nat
<1>1. p.dst \in Str /\ (Len(p.dst) = 4 \/ Len(p.dst) = 16) /\ (p.host # NoHost => p.host \in Str)
  BY DEF IsPeer, Addressed
<1>2. CASE p.host # NoHost
  <2>. DEFINE y == p.host
              n == Len(y)
              x == <<3, n>>
  <2>1. y \in Str /\ n \in Nat
    BY <1>1, <1>2, StrShape
  <2>2. Atyp(p) = x \o y
    BY <1>2 DEF Atyp
  <2>. HIDE DEF n
  <2>3. x \in Str /\ Len(x) = 2 /\ x[1] = 3 /\ x[2] = n
    BY <2>1 DEF Str
  <2>. HIDE DEF x, y
  <2>. DEFINE w == x \o y
  <2>4. w \in Str /\ Len(w) = Len(x) + Len(y) /\ Holds(w, 0, x)
    BY <2>1, <2>3, CatStr
  <2>. HIDE DEF w
  <2>5. w[0 + 1] = x[1] /\ w[0 + 2] = x[2]
    BY <2>3, <2>4 DEF Holds
  <2>6. w[1] = 3 /\ w[2] = n /\ Len(w) = 2 + n
    BY <2>3, <2>4, <2>5 DEF n
  <2>7. Atyp(p) = w
    BY <2>2 DEF w
  <2> QED BY <2>1, <2>4, <2>6, <2>7
<1>3. CASE p.host = NoHost
  <2>. DEFINE y == p.dst
              c == IF Len(y) = 4 THEN 1 ELSE 4
              x == <<c>>
              w == x \o y
  <2>1. Atyp(p) = w
    BY <1>3 DEF Atyp
  <2>2. c \in Nat /\ ((c = 1 /\ Len(y) = 4) \/ (c = 4 /\ Len(y) = 16))
    BY <1>1
  <2>. HIDE DEF c
  <2>3. x \in Str /\ Len(x) = 1 /\ x[1] = c /\ y \in Str
    BY <1>1, <2>2 DEF Str
  <2>. HIDE DEF x, y
  <2>4. w \in Str /\ Len(w) = Len(x) + Len(y) /\ Holds(w, 0, x)
    BY <2>3, CatStr
  <2>. HIDE DEF w
  <2>5. w[0 + 1] = x[1]
    BY <2>3, <2>4 DEF Holds
  <2>6. w[1] = c /\ Len(w) = 1 + Len(y)
    BY <2>3, <2>4, <2>5
  <2>7. CASE c = 1 /\ Len(y) = 4
    <3>1. w[1] = 1 /\ Len(w) = 5
      BY <2>6, <2>7
    <3> QED BY <2>1, <2>4, <3>1
  <2>8. CASE c = 4 /\ Len(y) = 16
    <3>1. w[1] = 4 /\ Len(w) = 17
      BY <2>6, <2>8
    <3> QED BY <2>1, <2>4, <3>1
  <2> QED BY <2>2, <2>7, <2>8
<1> QED BY <1>2, <1>3

\* Behind the address and the port is the payload.
LEMMA PayloadIs ==
  ASSUME NEW p, IsPeer(p), NEW port \in Str, Len(port) = 2, NEW payload \in Str
  PROVE  LET inner == (Atyp(p) \o port) \o payload
         IN  inner \in Str /\ PayloadOf(inner) = payload /\ ~Bare(inner)
<1>. DEFINE a == Atyp(p)
            inner == (a \o port) \o payload
<1>1. /\ a \in Str
      /\ \/ a[1] = 1 /\ Len(a) = 5
         \/ a[1] = 4 /\ Len(a) = 17
         \/ a[1] = 3 /\ Len(a) = 2 + a[2] /\ a[2] \in Nat
  BY AtypIs
<1>. HIDE DEF a
<1>2. /\ inner \in Str /\ Len(inner) = Len(a) + Len(port) + Len(payload)
      /\ Holds(inner, 0, a) /\ Holds(inner, Len(a) + Len(port), payload)
  BY <1>1, Cat3
<1>. HIDE DEF inner
<1>3. Len(a) \in Nat /\ Len(payload) \in Nat /\ 2 <= Len(a)
  <2>1. Len(a) \in Nat /\ Len(payload) \in Nat
    BY <1>1, StrShape
  <2>2. CASE Len(a) = 5
    BY <2>1, <2>2
  <2>4. CASE Len(a) = 17
    BY <2>1, <2>4
  <2>3. CASE Len(a) = 2 + a[2] /\ a[2] \in Nat
    BY <2>1, <2>3
  <2> QED BY <1>1, <2>2, <2>3, <2>4
<1>4. inner[1] = a[1] /\ inner[2] = a[2]
  <2>1. inner[0 + 1] = a[1] /\ inner[0 + 2] = a[2]
    BY <1>2, <1>3 DEF Holds
  <2> QED BY <2>1
<1>5. Len(inner) = Len(a) + 2 + Len(payload) /\ 4 <= Len(inner) /\ Len(inner) \in Nat
  BY <1>2, <1>3
<1>6. Offset(inner) = Len(a) + 2
  <2>1. CASE a[1] = 1 /\ Len(a) = 5
    BY <1>4, <2>1 DEF Offset
  <2>2. CASE a[1] = 4 /\ Len(a) = 17
    BY <1>4, <2>2 DEF Offset
  <2>3. CASE a[1] = 3 /\ Len(a) = 2 + a[2] /\ a[2] \in Nat
    BY <1>4, <2>3 DEF Offset
  <2> QED BY <1>1, <2>1, <2>2, <2>3
<1>7. inner # <<>> /\ ~Bare(inner)
  <2>1. Len(<<>>) = 0 /\ Len(<<3>>) = 1
    OBVIOUS
  <2> QED BY <1>5, <2>1 DEF Bare
<1>8. SubSeq(inner, (Len(a) + 2) + 1, (Len(a) + 2) + Len(payload)) = payload
  <2>1. Holds(inner, Len(a) + 2, payload) /\ Len(a) + 2 \in Nat
    BY <1>2, <1>3
  <2> QED BY <1>2, <2>1, HoldsSub
<1>9. PayloadOf(inner) = payload
  <2>1. (Len(a) + 2) + Len(payload) = Len(inner)
    BY <1>3, <1>5
  <2> QED BY <1>6, <1>7, <1>8, <2>1 DEF PayloadOf
<1> QED BY <1>2, <1>7, <1>9 DEF inner, a

LEMMA CarriesBody ==
  ASSUME IsPeer(peer), shared \in BOOLEAN, NEW payload \in Str
  PROVE  /\ Body(payload) \in Str /\ Carries(Body(payload), shared) = payload
         /\ ~(~shared /\ Bare(Body(payload)))
<1>. DEFINE a == Atyp(peer)
            port == U2(peer.dport)
            inner == (a \o port) \o payload
            b == Body(payload)
<1>1. port \in Str /\ Len(port) = 2
  <2>1. peer.dport \in Nat
    BY ShortIs DEF IsPeer
  <2> QED BY <2>1, U2Str
<1>. HIDE DEF port
<1>2. inner \in Str /\ PayloadOf(inner) = payload /\ ~Bare(inner) /\ a \in Str
  BY <1>1, PayloadIs, AtypIs
<1>3. CASE shared
  <2>1. Sid \in Str /\ Len(Sid) = 4
    BY PeersAre
  <2>2. b = ((Sid \o a) \o port) \o payload
    BY <1>3 DEF Body, port
  <2>. HIDE DEF a, b
  <2>3. b = Sid \o inner
    <3>1. Sid \o a \in Str /\ a \o port \in Str
      BY <1>1, <1>2, <2>1, CatStr
    <3>2. (Sid \o a) \o port = Sid \o (a \o port)
      BY <1>1, <1>2, <2>1, CatAssoc
    <3>3. (Sid \o (a \o port)) \o payload = Sid \o ((a \o port) \o payload)
      BY <2>1, <3>1, CatAssoc
    <3> QED BY <2>2, <3>2, <3>3
  <2>. HIDE DEF inner
  <2>4. /\ b \in Str /\ Len(b) = Len(Sid) + Len(inner)
        /\ Holds(b, 0, Sid) /\ Holds(b, Len(Sid), inner)
    BY <1>2, <2>1, <2>3, CatStr
  <2>5. SubSeq(b, 1, 4) = Sid
    <3>1. SubSeq(b, 0 + 1, 0 + Len(Sid)) = Sid
      BY <2>1, <2>4, HoldsSub
    <3> QED BY <2>1, <3>1
  <2>6. SubSeq(b, 5, Len(b)) = inner
    <3>1. SubSeq(b, 4 + 1, 4 + Len(inner)) = inner
      BY <1>2, <2>1, <2>4, HoldsSub
    <3>2. 4 + 1 = 5 /\ 4 + Len(inner) = Len(b)
      BY <2>1, <2>4
    <3> QED BY <3>1, <3>2
  <2>7. ~(Len(b) < 4)
    <3>1. Len(inner) \in Nat
      BY <1>2, StrShape
    <3> QED BY <2>1, <2>4, <3>1
  <2>8. Carries(b, shared) = payload
    BY <1>2, <1>3, <2>5, <2>6, <2>7 DEF Carries
  <2> QED BY <1>3, <2>4, <2>8 DEF b
<1>4. CASE ~shared
  <2>1. b = inner
    <3>1. b = ((<<>> \o a) \o port) \o payload
      BY <1>4 DEF Body, port
    <3>. HIDE DEF a, b
    <3>2. <<>> \o a = a
      BY <1>2, CatEmpty
    <3> QED BY <3>1, <3>2
  <2>. HIDE DEF b, inner
  <2>2. ~Bare(b)
    BY <1>2, <2>1
  <2>3. Carries(b, shared) = payload
    BY <1>2, <1>4, <2>1 DEF Carries
  <2> QED BY <1>2, <2>1, <2>2, <2>3 DEF b
<1> QED BY <1>3, <1>4

-----------------------------------------------------------------------------
(* Answers given on the spot. *)

\* What LocalAnswers says of one of them, for a flow p.
RightAnswer(p, l) ==
  /\ TurnedRound(l.ask, l.answer)
  /\ WellFormed(l.answer, IF Len(Source(l.answer)) = 4 THEN 1 ELSE 58)
  /\ LET upper == UpperLayer(l.answer)
         ports == SubSeq(l.ask, 1, HeaderLen(l.ask) + 8)
     IN  IF p.refused /\ l.ask[IF Len(Source(l.ask)) = 4 THEN 10 ELSE 7] = UdpProto
         THEN IsPrefix(ports, SubSeq(upper, 9, Len(upper)))
         ELSE upper[1] = 0 /\ SubSeq(upper, 5, Len(upper)) = SubSeq(UpperLayer(l.ask), 5, Len(upper))

LEMMA PrefixOf ==
  ASSUME NEW b \in Str, NEW m \in Nat, NEW n \in Nat, m <= n, n <= Len(b)
  PROVE  IsPrefix(SubSeq(b, 1, m), SubSeq(b, 1, n))
<1>. DEFINE x == SubSeq(b, 1, m)
            y == SubSeq(b, 1, n)
<1>0. Len(b) \in Nat /\ m <= Len(b)
  BY StrShape
<1>1. ASSUME NEW k \in Nat, k <= Len(b)
      PROVE  /\ SubSeq(b, 1, k) \in Str /\ Len(SubSeq(b, 1, k)) = k
             /\ \A j \in 1..k : SubSeq(b, 1, k)[j] = b[j]
  <2>1. /\ SubSeq(b, 0 + 1, 0 + k) \in Str /\ Len(SubSeq(b, 0 + 1, 0 + k)) = k
        /\ Holds(b, 0, SubSeq(b, 0 + 1, 0 + k))
    <3>1. 0 \in Nat /\ 0 + k <= Len(b)
      BY <1>1
    <3> QED BY <1>1, <3>1, SubStr
  <2>2. 0 + 1 = 1 /\ 0 + k = k /\ \A j \in 1..k : 0 + j = j
    OBVIOUS
  <2>. DEFINE z == SubSeq(b, 1, k)
  <2>3. z \in Str /\ Len(z) = k /\ Holds(b, 0, z)
    BY <2>1, <2>2
  <2>. HIDE DEF z
  <2>4. \A j \in 1..k : z[j] = b[j]
    BY <2>2, <2>3 DEF Holds
  <2> QED BY <2>3, <2>4 DEF z
<1>2. /\ x \in Str /\ Len(x) = m /\ \A j \in 1..m : x[j] = b[j]
      /\ y \in Str /\ Len(y) = n /\ \A j \in 1..n : y[j] = b[j]
  BY <1>0, <1>1
<1>. HIDE DEF x, y
<1>3. Holds(y, 0, x)
  <2>1. \A k \in 1..m : k \in 1..n /\ 0 + k = k
    OBVIOUS
  <2>2. \A k \in 1..m : y[0 + k] = x[k]
    BY <1>2, <2>1
  <2>3. 0 + m <= n
    OBVIOUS
  <2> QED BY <1>2, <2>2, <2>3 DEF Holds
<1>4. IsPrefix(x, y)
  BY <1>2, <1>3, PrefixHolds
<1> QED BY <1>4 DEF x, y

\* The error around what it quotes.
LEMMA IcmpIs ==
  ASSUME NEW x \in Str, Len(x) = 2, NEW q \in Str, NEW lead \in Str, Len(lead) % 2 = 0
  PROVE  LET b == (x \o Zeros(6)) \o q
             r == Summed(b, 3, lead)
         IN  /\ Len(b) = 8 + Len(q) /\ r \in Str /\ Len(r) = 8 + Len(q)
             /\ Holds(r, 8, q) /\ Adds(lead \o r)
<1>. DEFINE o == Zeros(6)
            b == (x \o o) \o q
            p == 3
            r == Summed(b, p, lead)
<1>1. o \in Str /\ Len(o) = 6 /\ o[1] = 0 /\ o[2] = 0
  BY DEF Zeros, Str
<1>2. Len(q) \in Nat
  BY StrShape
<1>3. p \in Nat /\ p = 3 /\ p % 2 = 1 /\ p + 1 = 4
  OBVIOUS
<1>. HIDE DEF o, p
<1>4. /\ b \in Str /\ Len(b) = Len(x) + Len(o) + Len(q)
      /\ Holds(b, Len(x), o) /\ Holds(b, Len(x) + Len(o), q)
  BY <1>1, Cat3, ZenonT(30)
<1>. HIDE DEF b
<1>5. Len(b) = 8 + Len(q) /\ Holds(b, 2, o) /\ Holds(b, 8, q)
  BY <1>1, <1>2, <1>4
<1>6. b[3] = 0 /\ b[4] = 0
  <2>1. b[2 + 1] = o[1] /\ b[2 + 2] = o[2]
    BY <1>1, <1>5 DEF Holds
  <2> QED BY <1>1, <2>1
<1>7. /\ r \in Str /\ Len(r) = Len(b) /\ Adds(lead \o r)
      /\ \A k \in 1..Len(b) : k # p /\ k # p + 1 => r[k] = b[k]
  <2>1. b[p] = 0 /\ b[p + 1] = 0 /\ p + 1 <= Len(b)
    BY <1>2, <1>3, <1>5, <1>6
  <2> QED BY <1>3, <1>4, <2>1, SummedIs
<1>. HIDE DEF r
<1>8. Holds(r, 8, q)
  <2>1. \A i \in Nat, part \in Str : Holds(b, i, part) /\ (i + Len(part) < p \/ p < i) => Holds(r, i, part)
    BY <1>3, <1>4, <1>7, SummedHolds
  <2>2. p < 8
    BY <1>3
  <2> QED BY <1>5, <2>1, <2>2
<1> QED BY <1>5, <1>7, <1>8 DEF r, b, o, p

\* An error comes back from the address that was asked and quotes the packet.
LEMMA UnreachableIs ==
  ASSUME NEW s, NEW d, Addressed(s, d), NEW h, IsHead(h, s, d, UdpProto), Len(h) <= 60,
         NEW u \in Str, 8 <= Len(u)
  PROVE  LET pkt == h \o u
             a == Unreachable(pkt)
         IN  /\ Source(a) = d /\ Target(a) = s
             /\ WellFormed(a, IF Len(d) = 4 THEN 1 ELSE 58)
             /\ SubSeq(UpperLayer(a), 9, Len(UpperLayer(a))) = SubSeq(pkt, 1, Quoted(pkt))
             /\ Quoted(pkt) \in Nat /\ HeaderLen(pkt) + 8 <= Quoted(pkt) /\ Quoted(pkt) <= Len(pkt)
<1>. DEFINE pkt == h \o u
            n == Quoted(pkt)
            q == SubSeq(pkt, 1, n)
            x == IF Len(s) = 4 THEN <<3, 3>> ELSE <<1, 4>>
            proto == IF Len(s) = 4 THEN 1 ELSE 58
            b == (x \o Zeros(6)) \o q
            lead == IF Len(s) = 4 THEN <<>> ELSE Pseudo(d, s, 58, Len(b))
            r == Summed(b, 3, lead)
            a == IpHeader(d, s, proto, Len(b)) \o r
<1>1. /\ pkt \in Str /\ Len(pkt) = Len(h) + Len(u)
      /\ HeaderLen(pkt) = Len(h) /\ Source(pkt) = s /\ Target(pkt) = d
      /\ pkt[1] \div 16 = 4 <=> Len(s) = 4
  <2>1. ReadsAs(h, u, s, d)
    BY HeadRead
  <2> QED BY <2>1 DEF ReadsAs
<1>2. /\ s \in Str /\ d \in Str /\ Len(d) = Len(s) /\ (Len(s) = 4 \/ Len(s) = 16)
      /\ h \in Str /\ (Len(s) # 4 => Len(h) = 40)
  BY DEF IsHead, Addressed
<1>3. Len(h) \in Nat /\ Len(u) \in Nat
  BY <1>2, StrShape
<1>. HIDE DEF pkt
<1>4. n \in Nat /\ Len(h) + 8 <= n /\ n <= Len(pkt) /\ n <= 1232
  <2>1. CASE Len(s) = 4
    <3>1. n = Len(h) + 8
      BY <1>1, <2>1 DEF Quoted
    <3>. HIDE DEF n
    <3> QED BY <1>1, <1>3, <3>1
  <2>2. CASE Len(s) # 4
    <3>1. n = IF Len(pkt) < 1232 THEN Len(pkt) ELSE 1232
      BY <1>1, <2>2 DEF Quoted
    <3>2. Len(pkt) \in Nat /\ 48 <= Len(pkt) /\ Len(h) = 40
      <4>1. Len(h) = 40
        BY <1>2, <2>2
      <4> QED BY <1>1, <1>3, <4>1
    <3>. HIDE DEF n
    <3> QED BY <3>1, <3>2
  <2> QED BY <2>1, <2>2
<1>. HIDE DEF n
<1>5. q \in Str /\ Len(q) = n
  <2>1. SubSeq(pkt, 0 + 1, 0 + n) \in Str /\ Len(SubSeq(pkt, 0 + 1, 0 + n)) = n
    <3>1. 0 \in Nat /\ 0 + n <= Len(pkt)
      BY <1>4
    <3> QED BY <1>1, <1>4, <3>1, SubStr, ZenonT(30)
  <2>2. 0 + 1 = 1 /\ 0 + n = n
    BY <1>4
  <2> QED BY <2>1, <2>2
<1>6. Unreachable(pkt) = a
  BY <1>1 DEF Unreachable, n
<1>. HIDE DEF q
<1>7. x \in Str /\ Len(x) = 2
  BY DEF Str
<1>. HIDE DEF x
<1>8. Addressed(d, s) /\ proto \in Nat /\ 58 \in Nat
  BY <1>2 DEF Addressed
<1>9. Len(b) = 8 + n /\ Len(b) \in Nat
  <2>1. <<>> \in Str /\ Len(<<>>) % 2 = 0
    BY EmptyStr
  <2>2. Len(b) = 8 + Len(q)
    BY <1>5, <1>7, <2>1, IcmpIs
  <2>. HIDE DEF b
  <2> QED BY <1>4, <1>5, <2>2
<1>10. lead \in Str /\ Len(lead) % 2 = 0
  <2>1. <<>> \in Str /\ Len(<<>>) % 2 = 0
    BY EmptyStr
  <2>. HIDE DEF b
  <2>2. Pseudo(d, s, 58, Len(b)) \in Str /\ Len(Pseudo(d, s, 58, Len(b))) % 2 = 0
    BY <1>8, <1>9, PseudoIs
  <2> QED BY <2>1, <2>2
<1>. HIDE DEF lead
<1>11. r \in Str /\ Len(r) = 8 + Len(q) /\ Holds(r, 8, q) /\ Adds(lead \o r)
  BY <1>5, <1>7, <1>10, IcmpIs
<1>. HIDE DEF b, r
<1>12. Len(r) = Len(b) /\ Len(r) = 8 + n
  BY <1>5, <1>9, <1>11
<1>13. Short(20 + Len(r)) /\ Short(Len(r))
  <2>1. 20 + Len(r) \in Nat /\ 20 + Len(r) < 65536 /\ Len(r) \in Nat /\ Len(r) < 65536
    BY <1>4, <1>12
  <2> QED BY <2>1, ShortIs
<1>14. lead = IF proto = 1 THEN <<>> ELSE Pseudo(d, s, proto, Len(r))
  BY <1>12 DEF lead
<1>. HIDE DEF proto
<1>. DEFINE k == IpHeader(d, s, proto, Len(r))
<1>15. IsHead(k, d, s, proto) /\ WellFormed(k \o r, proto)
  BY <1>8, <1>11, <1>13, <1>14, HeadTrue
<1>16. a = k \o r
  BY <1>12
<1>. HIDE DEF k, a
<1>17. Source(a) = d /\ Target(a) = s /\ UpperLayer(a) = r
  <2>1. ReadsAs(k, r, d, s)
    BY <1>11, <1>15, HeadRead
  <2> QED BY <1>16, <2>1 DEF ReadsAs
<1>18. SubSeq(r, 9, Len(r)) = q
  <2>1. SubSeq(r, 8 + 1, 8 + Len(q)) = q
    BY <1>5, <1>11, HoldsSub
  <2> QED BY <1>11, <2>1
<1>19. proto = IF Len(d) = 4 THEN 1 ELSE 58
  BY <1>2 DEF proto
<1> QED BY <1>1, <1>4, <1>6, <1>15, <1>16, <1>17, <1>18, <1>19, ZenonT(30) DEF q, n, pkt

LEMMA RefusalRight ==
  ASSUME IsPeer(peer), peer.refused, NEW payload \in Str, Short(68 + Len(payload))
  PROVE  RightAnswer(peer, [ask |-> AppPacket(payload), answer |-> Unreachable(AppPacket(payload))])
<1>. DEFINE s == peer.src
            d == peer.dst
            len == 8 + Len(payload)
            h == AskHead(peer, len)
            u == UdpOf(peer.sport, peer.dport, payload)
            pkt == h \o u
            a == Unreachable(pkt)
            l == [ask |-> pkt, answer |-> a]
<1>1. Len(payload) \in Nat /\ len \in Nat /\ Short(len) /\ Addressed(s, d)
      /\ peer.sport \in Nat /\ peer.dport \in Nat
  <2>1. Len(payload) \in Nat
    BY StrShape
  <2>2. Short(len)
    BY <2>1, ShortIs
  <2> QED BY <2>1, <2>2, ShortIs DEF IsPeer
<1>2. AppPacket(payload) = pkt
  BY AskIs
<1>. HIDE DEF len
<1>3. IsHead(h, s, d, UdpProto) /\ Len(h) <= 60
  BY <1>1, AskHeadIs
<1>4. u \in Str /\ 8 <= Len(u)
  <2>1. IsUdp(u, peer.sport, peer.dport, payload)
    BY <1>1, UdpIs
  <2>. HIDE DEF u
  <2>2. u \in Str /\ Len(u) = 8 + Len(payload)
    BY <2>1 DEF IsUdp
  <2> QED BY <1>1, <2>2
<1>. HIDE DEF s, d, h, u
<1>5. /\ Source(a) = d /\ Target(a) = s
      /\ WellFormed(a, IF Len(d) = 4 THEN 1 ELSE 58)
      /\ SubSeq(UpperLayer(a), 9, Len(UpperLayer(a))) = SubSeq(pkt, 1, Quoted(pkt))
      /\ Quoted(pkt) \in Nat /\ HeaderLen(pkt) + 8 <= Quoted(pkt) /\ Quoted(pkt) <= Len(pkt)
  BY <1>1, <1>3, <1>4, UnreachableIs
<1>6. /\ pkt \in Str /\ HeaderLen(pkt) = Len(h) /\ Source(pkt) = s /\ Target(pkt) = d
      /\ \A k \in 1..Len(h) : pkt[k] = h[k]
  <2>1. ReadsAs(h, u, s, d)
    BY <1>3, <1>4, HeadRead
  <2> QED BY <2>1 DEF ReadsAs
<1>7. Len(h) \in Nat /\ 20 <= Len(h) /\ h[IF Len(s) = 4 THEN 10 ELSE 7] = UdpProto
  <2>1. h \in Str /\ 20 <= Len(h)
    BY <1>3 DEF IsHead
  <2>2. h[IF Len(s) = 4 THEN 10 ELSE 7] = UdpProto
    <3>1. CASE Len(s) = 4
      BY <1>3, <3>1 DEF IsHead
    <3>2. CASE Len(s) # 4
      BY <1>3, <3>2 DEF IsHead
    <3> QED BY <3>1, <3>2
  <2> QED BY <2>1, <2>2, StrShape
<1>8. pkt[IF Len(s) = 4 THEN 10 ELSE 7] = UdpProto
  <2>1. (IF Len(s) = 4 THEN 10 ELSE 7) \in 1..Len(h)
    BY <1>7
  <2> QED BY <1>6, <1>7, <2>1
<1>. HIDE DEF pkt, a
<1>9. IsPrefix(SubSeq(pkt, 1, HeaderLen(pkt) + 8), SubSeq(pkt, 1, Quoted(pkt)))
  <2>1. HeaderLen(pkt) + 8 \in Nat
    BY <1>6, <1>7
  <2> QED BY <1>5, <1>6, <2>1, PrefixOf
<1>10. l.ask = pkt /\ l.answer = a
  OBVIOUS
<1>. HIDE DEF l
<1>11. RightAnswer(peer, l)
  BY <1>5, <1>6, <1>8, <1>9, <1>10 DEF RightAnswer, TurnedRound
<1> QED BY <1>2, <1>11 DEF l, a

\* A checksum at the third byte, over the bytes themselves.
LEMMA SummedIcmp ==
  ASSUME NEW b \in Str, 4 <= Len(b), b[3] = 0, b[4] = 0
  PROVE  LET r == Summed(b, 3, <<>>)
         IN  /\ r \in Str /\ Len(r) = Len(b) /\ Adds(r)
             /\ \A k \in 1..Len(b) : k # 3 /\ k # 4 => r[k] = b[k]
<1>. DEFINE p == 3
            lead == <<>>
            r == Summed(b, p, lead)
<1>1. /\ lead \in Str /\ Len(lead) % 2 = 0 /\ p \in Nat /\ p % 2 = 1 /\ p + 1 <= Len(b)
      /\ p + 1 = 4 /\ b[p] = 0 /\ b[p + 1] = 0
  BY EmptyStr
<1>. HIDE DEF p
<1>2. /\ r \in Str /\ Len(r) = Len(b) /\ Adds(lead \o r)
      /\ \A k \in 1..Len(b) : k # p /\ k # p + 1 => r[k] = b[k]
  BY <1>1, SummedIs
<1>. HIDE DEF r
<1>3. Adds(r)
  BY <1>2, CatEmpty
<1>4. \A k \in 1..Len(b) : k # p /\ k # 4 => r[k] = b[k]
  BY <1>1, <1>2
<1> QED BY <1>2, <1>3, <1>4 DEF r, p

\* What makes a packet of ICMP over IPv4 valid.
LEMMA EchoTrue ==
  ASSUME NEW h, NEW s, NEW d, IsHead(h, s, d, 1), Len(s) = 4, Adds(h), NEW u \in Str, Adds(u),
         Number(h, 3) = Len(h) + Len(u)
  PROVE  WellFormed(h \o u, 1)
<1>. DEFINE pkt == h \o u
<1>1. /\ Len(pkt) = Len(h) + Len(u) /\ HeaderLen(pkt) = Len(h) /\ UpperLayer(pkt) = u
      /\ SubSeq(pkt, 1, Len(h)) = h /\ \A k \in 1..Len(h) : pkt[k] = h[k]
      /\ pkt[1] \div 16 = 4
  <2>1. ReadsAs(h, u, s, d)
    BY HeadRead
  <2> QED BY <2>1 DEF ReadsAs
<1>2. Len(h) \in Nat /\ 20 <= Len(h)
  BY StrShape DEF IsHead
<1>. HIDE DEF pkt
<1>3. Number(pkt, 3) = Len(pkt)
  <2>1. pkt[3] = h[3] /\ pkt[3 + 1] = h[3 + 1]
    BY <1>1, <1>2
  <2> QED BY <1>1, <2>1 DEF Number
<1>4. LengthTrue(pkt)
  BY <1>1, <1>3 DEF LengthTrue
<1>5. <<>> \o u = u
  BY CatEmpty
<1> QED BY <1>1, <1>4, <1>5 DEF WellFormed, pkt

\* The header of the ping, turned round.
TurnedHead(h, s, d) == Summed(Chain(SubSeq(h, 1, 10), <<0, 0>>, d, s, <<>>), 11, <<>>)

LEMMA TurnsHead ==
  ASSUME NEW h, NEW s, NEW d, IsHead(h, s, d, 1), Len(s) = 4, Len(h) = 20
  PROVE  LET r == TurnedHead(h, s, d)
         IN  IsHead(r, d, s, 1) /\ Len(r) = 20 /\ Adds(r) /\ Number(r, 3) = Number(h, 3)
<1>. DEFINE x == SubSeq(h, 1, 10)
            o == <<0, 0>>
            e == <<>>
            b == Chain(x, o, d, s, e)
            r == Summed(b, 11, <<>>)
<1>1. /\ h \in Str /\ s \in Str /\ d \in Str /\ Len(d) = 4 /\ h[1] \div 16 = 4
      /\ (h[1] % 16) * 4 = 20 /\ h[10] = 1
  BY DEF IsHead
<1>2. x \in Str /\ Len(x) = 10 /\ \A k \in 1..10 : x[k] = h[k]
  <2>. DEFINE y == SubSeq(h, 0 + 1, 0 + 10)
  <2>1. y \in Str /\ Len(y) = 10 /\ Holds(h, 0, y)
    <3>1. 0 \in Nat /\ 10 \in Nat /\ 0 + 10 <= Len(h)
      OBVIOUS
    <3> QED BY <1>1, <3>1, SubStr
  <2>2. 0 + 1 = 1 /\ 0 + 10 = 10 /\ \A k \in 1..10 : 0 + k = k
    OBVIOUS
  <2>3. x = y
    BY <2>2
  <2>. HIDE DEF x, y
  <2> QED BY <2>1, <2>2, <2>3 DEF Holds
<1>3. o \in Str /\ Len(o) = 2 /\ o[1] = 0 /\ o[2] = 0 /\ e \in Str /\ Len(e) = 0
  BY EmptyStr DEF Str
<1>4. TurnedHead(h, s, d) = r
  BY DEF TurnedHead
<1>. HIDE DEF x, o, e
<1>5. /\ b \in Str /\ Len(b) = Len(x) + Len(o) + Len(d) + Len(s) + Len(e)
      /\ Holds(b, 0, x) /\ Holds(b, Len(x), o) /\ Holds(b, Len(x) + Len(o), d)
      /\ Holds(b, Len(x) + Len(o) + Len(d), s)
      /\ Holds(b, Len(x) + Len(o) + Len(d) + Len(s), e)
  BY <1>1, <1>2, <1>3, Cat5
<1>. HIDE DEF b
<1>6. Len(b) = 20 /\ Holds(b, 0, x) /\ Holds(b, 10, o) /\ Holds(b, 12, d) /\ Holds(b, 16, s)
  BY <1>1, <1>2, <1>3, <1>5
<1>7. b[11] = 0 /\ b[12] = 0 /\ \A k \in 1..10 : b[k] = h[k]
  <2>1. b[10 + 1] = o[1] /\ b[10 + 2] = o[2]
    BY <1>3, <1>6 DEF Holds
  <2>2. \A k \in 1..10 : b[0 + k] = x[k] /\ 0 + k = k
    BY <1>2, <1>6 DEF Holds
  <2> QED BY <1>2, <1>3, <2>1, <2>2
<1>8. /\ r \in Str /\ Len(r) = 20 /\ Adds(<<>> \o r)
      /\ \A k \in 1..20 : k # 11 /\ k # 12 => r[k] = b[k]
  BY <1>5, <1>6, <1>7, SummedHead
<1>. HIDE DEF r
<1>9. Adds(r)
  BY <1>8, CatEmpty
<1>10. Holds(r, 12, d) /\ Holds(r, 16, s)
  <2>. DEFINE p == 11
  <2>1. /\ p \in Nat /\ Len(r) = Len(b)
        /\ \A k \in 1..Len(b) : k # p /\ k # p + 1 => r[k] = b[k]
    BY <1>6, <1>8
  <2>. HIDE DEF p
  <2>2. \A i \in Nat, part \in Str : Holds(b, i, part) /\ (i + Len(part) < p \/ p < i) => Holds(r, i, part)
    BY <1>5, <1>8, <2>1, SummedHolds
  <2>3. p < 12 /\ p < 16
    BY DEF p
  <2> QED BY <1>1, <1>6, <2>2, <2>3
<1>11. r[1] = h[1] /\ r[10] = 1 /\ r[3] = h[3] /\ r[3 + 1] = h[3 + 1]
  <2>1. \A k \in 1..10 : r[k] = h[k]
    <3>1. \A k \in 1..10 : k \in 1..20 /\ k # 11 /\ k # 12
      OBVIOUS
    <3> QED BY <1>7, <1>8, <3>1
  <2> QED BY <1>1, <2>1
<1>12. Number(r, 3) = Number(h, 3)
  BY <1>11 DEF Number
<1>13. IsHead(r, d, s, 1)
  <2>1. 20 <= Len(r) /\ (r[1] % 16) * 4 = Len(r) /\ r[1] \div 16 = 4
    BY <1>1, <1>8, <1>11
  <2> QED BY <1>1, <1>8, <1>10, <1>11, <2>1 DEF IsHead
<1> QED BY <1>4, <1>8, <1>9, <1>12, <1>13

\* An echo is the ping but for its type and its checksum.
LEMMA TurnsIcmp ==
  ASSUME NEW u \in Str, 8 <= Len(u), NEW c \in Nat
  PROVE  LET r == Summed(<<0, c, 0, 0>> \o SubSeq(u, 5, Len(u)), 3, <<>>)
         IN  /\ r \in Str /\ Len(r) = Len(u) /\ Adds(r) /\ r[1] = 0
             /\ SubSeq(r, 5, Len(r)) = SubSeq(u, 5, Len(u))
<1>. DEFINE t == SubSeq(u, 5, Len(u))
            x == <<0, c, 0, 0>>
            b == x \o t
            r == Summed(b, 3, <<>>)
<1>0. Len(u) \in Nat
  BY StrShape
<1>1. t \in Str /\ Len(t) = Len(u) - 4
  <2>1. SubSeq(u, 4 + 1, Len(u)) \in Str /\ Len(SubSeq(u, 4 + 1, Len(u))) = Len(u) - 4
    <3>1. 4 <= Len(u)
      BY <1>0
    <3> QED BY <3>1, SplitStr
  <2>2. 4 + 1 = 5
    OBVIOUS
  <2> QED BY <2>1, <2>2
<1>2. x \in Str /\ Len(x) = 4 /\ x[1] = 0 /\ x[3] = 0 /\ x[4] = 0
  BY DEF Str
<1>. HIDE DEF t, x
<1>3. b \in Str /\ Len(b) = Len(x) + Len(t) /\ Holds(b, 0, x) /\ Holds(b, Len(x), t)
  BY <1>1, <1>2, CatStr
<1>. HIDE DEF b
<1>4. Len(b) = Len(u) /\ 4 <= Len(b) /\ Holds(b, 4, t)
  BY <1>0, <1>1, <1>2, <1>3
<1>5. b[1] = 0 /\ b[3] = 0 /\ b[4] = 0
  <2>1. b[0 + 1] = x[1] /\ b[0 + 3] = x[3] /\ b[0 + 4] = x[4]
    BY <1>2, <1>3 DEF Holds
  <2> QED BY <1>2, <2>1
<1>6. /\ r \in Str /\ Len(r) = Len(b) /\ Adds(r)
      /\ \A k \in 1..Len(b) : k # 3 /\ k # 4 => r[k] = b[k]
  BY <1>3, <1>4, <1>5, SummedIcmp
<1>. HIDE DEF r
<1>7. r[1] = 0
  BY <1>0, <1>4, <1>5, <1>6
<1>8. Holds(r, 4, t)
  <2>. DEFINE p == 3
  <2>1. p \in Nat /\ p + 1 = 4 /\ p < 4 /\ \A k \in 1..Len(b) : k # p /\ k # p + 1 => r[k] = b[k]
    BY <1>6
  <2>. HIDE DEF p
  <2>2. \A i \in Nat, part \in Str : Holds(b, i, part) /\ (i + Len(part) < p \/ p < i) => Holds(r, i, part)
    BY <1>3, <1>6, <2>1, SummedHolds
  <2> QED BY <1>1, <1>4, <2>1, <2>2
<1>9. SubSeq(r, 5, Len(r)) = t
  <2>1. SubSeq(r, 4 + 1, 4 + Len(t)) = t
    BY <1>1, <1>6, <1>8, HoldsSub
  <2>2. 4 + 1 = 5 /\ 4 + Len(t) = Len(r)
    BY <1>0, <1>1, <1>4, <1>6
  <2> QED BY <2>1, <2>2
<1> QED BY <1>4, <1>6, <1>7, <1>9 DEF r, b, x, t

\* The ping of AppPings.
PingBody(payload) == Summed(<<8, 0, 0, 0, 0, 1, 0, 1>> \o payload, 3, <<>>)
Ping(p, payload) == IpHeader(p.src, p.dst, 1, Len(PingBody(payload))) \o PingBody(payload)

LEMMA PingBodyIs ==
  ASSUME NEW payload \in Str
  PROVE  PingBody(payload) \in Str /\ Len(PingBody(payload)) = 8 + Len(payload)
<1>. DEFINE x == <<8, 0, 0, 0, 0, 1, 0, 1>>
            b == x \o payload
            r == Summed(b, 3, <<>>)
<1>0. Len(payload) \in Nat
  BY StrShape
<1>1. x \in Str /\ Len(x) = 8 /\ x[3] = 0 /\ x[4] = 0
  BY DEF Str
<1>2. PingBody(payload) = r
  BY DEF PingBody
<1>. HIDE DEF x
<1>3. b \in Str /\ Len(b) = Len(x) + Len(payload) /\ Holds(b, 0, x)
  BY <1>1, CatStr
<1>. HIDE DEF b
<1>4. Len(b) = 8 + Len(payload) /\ 4 <= Len(b)
  BY <1>0, <1>1, <1>3
<1>5. b[3] = 0 /\ b[4] = 0
  <2>1. b[0 + 3] = x[3] /\ b[0 + 4] = x[4]
    BY <1>1, <1>3 DEF Holds
  <2> QED BY <1>1, <2>1
<1>6. r \in Str /\ Len(r) = Len(b)
  <2>. DEFINE w == r
  <2>1. /\ w \in Str /\ Len(w) = Len(b) /\ Adds(w)
        /\ \A k \in 1..Len(b) : k # 3 /\ k # 4 => w[k] = b[k]
    BY <1>3, <1>4, <1>5, SummedIcmp
  <2>. HIDE DEF w
  <2>2. w \in Str /\ Len(w) = Len(b)
    BY <2>1
  <2> QED BY <2>2 DEF w
<1> QED BY <1>2, <1>4, <1>6

LEMMA EchoRight ==
  ASSUME IsPeer(peer), Len(peer.dst) = 4, NEW payload \in Str, Short(68 + Len(payload))
  PROVE  RightAnswer(peer, [ask |-> Ping(peer, payload), answer |-> EchoReply(Ping(peer, payload))])
<1>. DEFINE s == peer.src
            d == peer.dst
            u == PingBody(payload)
            h == IpHeader(s, d, 1, Len(u))
            pkt == h \o u
            c == pkt[20 + 2]
            k == TurnedHead(h, s, d)
            v == Summed(<<0, c, 0, 0>> \o SubSeq(u, 5, Len(u)), 3, <<>>)
            a == k \o v
            l == [ask |-> pkt, answer |-> a]
<1>1. /\ Addressed(s, d) /\ s \in Str /\ d \in Str /\ Len(s) = 4 /\ Len(d) = 4
  BY DEF IsPeer, Addressed
<1>2. u \in Str /\ Len(u) = 8 + Len(payload) /\ Len(payload) \in Nat
  BY PingBodyIs, StrShape
<1>3. Len(u) \in Nat /\ 8 <= Len(u) /\ Short(20 + Len(u))
  <2>1. 28 + Len(payload) \in Nat /\ 28 + Len(payload) < 65536
    BY <1>2, ShortIs
  <2>2. Short(28 + Len(payload))
    BY <2>1, ShortIs
  <2>. HIDE DEF u
  <2>3. 20 + Len(u) = 28 + Len(payload) /\ Len(u) \in Nat /\ 8 <= Len(u)
    BY <1>2
  <2> QED BY <2>2, <2>3
<1>4. Ping(peer, payload) = pkt
  BY DEF Ping
<1>. HIDE DEF u, s, d
<1>5. IsHead(h, s, d, 1) /\ Len(h) = 20 /\ Number(h, 3) = 20 + Len(u) /\ Adds(h)
  BY <1>1, <1>3, Head4
<1>. HIDE DEF h
<1>6. /\ pkt \in Str /\ Len(pkt) = Len(h) + Len(u)
      /\ HeaderLen(pkt) = 20 /\ Source(pkt) = s /\ Target(pkt) = d /\ UpperLayer(pkt) = u
      /\ SubSeq(pkt, 1, Len(h)) = h /\ \A j \in 1..20 : pkt[j] = h[j]
  <2>1. ReadsAs(h, u, s, d)
    BY <1>2, <1>5, HeadRead
  <2> QED BY <1>5, <2>1 DEF ReadsAs
<1>7. pkt[10] = 1
  BY <1>1, <1>5, <1>6 DEF IsHead
<1>8. h \in Str
  BY <1>5 DEF IsHead
<1>9. Holds(pkt, 0, h) /\ Holds(pkt, 20, u)
  BY <1>2, <1>5, <1>8, CatStr
<1>. HIDE DEF pkt
<1>10. c \in Nat
  <2>1. 20 + 2 \in 1..Len(pkt)
    BY <1>3, <1>5, <1>6
  <2> QED BY <1>6, <2>1, StrShape
<1>11. EchoReply(pkt) = a
  <2>1. SubSeq(pkt, 1, 10) = SubSeq(h, 1, 10)
    <3>1. SubSeq(pkt, (0 + 0) + 1, (0 + 0) + 10) = SubSeq(h, 0 + 1, 0 + 10)
      <4>1. 0 \in Nat /\ 10 \in Nat /\ 0 + 10 <= Len(h)
        BY <1>5
      <4> QED BY <1>6, <1>8, <1>9, <4>1, HoldsSame
    <3>2. (0 + 0) + 1 = 1 /\ (0 + 0) + 10 = 10 /\ 0 + 1 = 1 /\ 0 + 10 = 10
      OBVIOUS
    <3> QED BY <3>1, <3>2
  <2>2. SubSeq(pkt, 21, 20) = <<>>
    <3>1. SubSeq(pkt, 20 + 1, 20 + 0) \in Str /\ Len(SubSeq(pkt, 20 + 1, 20 + 0)) = 0
      <4>1. 20 \in Nat /\ 0 \in Nat /\ 20 + 0 <= Len(pkt)
        BY <1>3, <1>5, <1>6
      <4> QED BY <1>6, <4>1, SubStr
    <3>2. 20 + 1 = 21 /\ 20 + 0 = 20
      OBVIOUS
    <3> QED BY <3>1, <3>2, EmptyStr
  <2>3. SubSeq(pkt, 20 + 5, Len(pkt)) = SubSeq(u, 5, Len(u))
    <3>1. SubSeq(pkt, (20 + 4) + 1, Len(pkt)) = SubSeq(u, 4 + 1, Len(u))
      <4>. DEFINE p == 20
                  i == 4
      <4>1. /\ p \in Nat /\ i \in Nat /\ i <= Len(u) /\ Len(pkt) = p + Len(u)
            /\ Holds(pkt, p, u) /\ pkt \in Str /\ u \in Str
        BY <1>2, <1>3, <1>5, <1>6, <1>9
      <4>. HIDE DEF p, i
      <4>2. SubSeq(pkt, (p + i) + 1, Len(pkt)) = SubSeq(u, i + 1, Len(u))
        BY <4>1, HoldsTail, SMTT(30)
      <4>3. (p + i) + 1 = (20 + 4) + 1 /\ i + 1 = 4 + 1
        BY DEF p, i
      <4> QED BY <4>2, <4>3
    <3>2. (20 + 4) + 1 = 20 + 5 /\ 4 + 1 = 5
      OBVIOUS
    <3> QED BY <3>1, <3>2
  <2>4. EchoReply(pkt) =
          Summed(Chain(SubSeq(pkt, 1, 10), <<0, 0>>, d, s, SubSeq(pkt, 21, 20)), 11, <<>>)
          \o Summed(<<0, pkt[20 + 2], 0, 0>> \o SubSeq(pkt, 20 + 5, Len(pkt)), 3, <<>>)
    BY <1>6 DEF EchoReply, Chain
  <2> QED BY <2>1, <2>2, <2>3, <2>4 DEF TurnedHead
<1>. HIDE DEF c
<1>12. IsHead(k, d, s, 1) /\ Len(k) = 20 /\ Adds(k) /\ Number(k, 3) = Number(h, 3)
  BY <1>1, <1>5, TurnsHead
<1>13. /\ v \in Str /\ Len(v) = Len(u) /\ Adds(v) /\ v[1] = 0
       /\ SubSeq(v, 5, Len(v)) = SubSeq(u, 5, Len(u))
  BY <1>2, <1>3, <1>10, TurnsIcmp
<1>. HIDE DEF k, v
<1>14. WellFormed(a, 1)
  <2>1. Number(k, 3) = Len(k) + Len(v)
    BY <1>5, <1>12, <1>13
  <2> QED BY <1>1, <1>12, <1>13, <2>1, EchoTrue
<1>15. Source(a) = d /\ Target(a) = s /\ UpperLayer(a) = v
  <2>1. ReadsAs(k, v, d, s)
    BY <1>12, <1>13, HeadRead
  <2> QED BY <2>1 DEF ReadsAs
<1>. HIDE DEF a
<1>16. l.ask = pkt /\ l.answer = a
  OBVIOUS
<1>. HIDE DEF l
<1>17. ~(l.ask[IF Len(Source(l.ask)) = 4 THEN 10 ELSE 7] = UdpProto)
  BY <1>1, <1>6, <1>7, <1>16, SMTT(30) DEF UdpProto
<1>18. UpperLayer(l.answer)[1] = 0 /\ SubSeq(UpperLayer(l.answer), 5, Len(UpperLayer(l.answer))) =
         SubSeq(UpperLayer(l.ask), 5, Len(UpperLayer(l.answer)))
  BY <1>6, <1>13, <1>15, <1>16
<1>19. WellFormed(l.answer, IF Len(Source(l.answer)) = 4 THEN 1 ELSE 58)
  BY <1>1, <1>14, <1>15, <1>16
<1>20. TurnedRound(l.ask, l.answer)
  BY <1>6, <1>15, <1>16 DEF TurnedRound
<1>21. RightAnswer(peer, l)
  BY <1>17, <1>18, <1>19, <1>20 DEF RightAnswer
<1> QED BY <1>4, <1>11, <1>21 DEF l

-----------------------------------------------------------------------------
(* The reader. *)

\* A reply to the flow p.
ReplyTo(p, payload) == BuildReply(p.dst, p.dport, p.src, p.sport, payload)

LEMMA RepliesRead ==
  ASSUME NEW p, IsPeer(p), NEW payload \in Str, Short(68 + Len(payload))
  PROVE  /\ Parsed(ReplyTo(p, payload)) = [src |-> p.dst, sport |-> p.dport, dst |-> p.src,
                                           dport |-> p.sport, payload |-> payload]
         /\ WellFormed(ReplyTo(p, payload), UdpProto) /\ ReplyTo(p, payload) \in Str
<1>1. Addressed(p.dst, p.src) /\ Short(p.sport) /\ Short(p.dport)
  BY DEF IsPeer, Addressed
<1>2. Short(28 + Len(payload))
  <2>1. Len(payload) \in Nat
    BY StrShape
  <2> QED BY <2>1, ShortIs
<1> QED BY <1>1, <1>2, ReplyReads DEF ReplyTo

\* Bytes at which the reader of a tunnel of its own waits for ever.
Stuck(rest, mux) == ~mux /\ Holds(rest, 0, Bad)

\* d is what is still to be cut, w the packets written, e the payloads due: the
\* packets and then the frames are the payloads in order, and none is missing
\* unless the reader is stuck.
InOrder(p, mux, d, w, e) ==
  /\ Len(w) + Len(d.got) <= Len(e)
  /\ \A i \in 1..Len(w) : w[i] = ReplyTo(p, e[i])
  /\ \A k \in 1..Len(d.got) : d.got[k] = e[Len(w) + k]
  /\ Stuck(d.rest, mux) \/ (d.rest = <<>> /\ Len(w) + Len(d.got) = Len(e))

LEMMA OneMore ==
  ASSUME NEW x \in Seq(Str), NEW c \in Str
  PROVE  /\ Len(x \o <<c>>) = Len(x) + 1 /\ (x \o <<c>>)[Len(x) + 1] = c
         /\ \A k \in 1..Len(x) : (x \o <<c>>)[k] = x[k]
OBVIOUS

LEMMA SeqsCat ==
  ASSUME NEW x \in Seq(Str), NEW y \in Seq(Str)
  PROVE  /\ Len(x \o y) = Len(x) + Len(y)
         /\ \A k \in 1..Len(x) : (x \o y)[k] = x[k]
         /\ \A k \in 1..Len(y) : (x \o y)[Len(x) + k] = y[k]
OBVIOUS

\* A frame is sent behind all the others.
LEMMA FrameComes ==
  ASSUME NEW p, NEW mux \in BOOLEAN, NEW b \in Str, NEW body \in Str, Short(Len(body)),
         NEW w \in Seq(Str), NEW e \in Seq(Str), InOrder(p, mux, Drained(b, mux), w, e),
         NEW c, c = Carries(body, mux), (~mux /\ Bare(body)) => c = <<>>
  PROVE  InOrder(p, mux, Drained(b \o Framed(body), mux), w, IF c = <<>> THEN e ELSE Append(e, c))
<1>. DEFINE f == Framed(body)
            d == Drained(b, mux)
            r == d.rest
            s == Drained(r \o f, mux)
            D == Drained(b \o f, mux)
            g == IF c = <<>> THEN e ELSE Append(e, c)
<1>1. f \in Str /\ c \in Str
  <2>1. U2(Len(body)) \in Str
    BY StrShape, U2Str
  <2>2. f \in Str
    BY <2>1, CatStr DEF Framed
  <2> QED BY <2>2, CarriesStr
<1>2. d \in Cutting
  BY DrainedFits
<1>3. /\ r \in Str /\ d.got \in Seq(Str)
      /\ D = [rest |-> s.rest, got |-> d.got \o s.got]
  <2>1. r \in Str /\ d.got \in Seq(Str)
    BY <1>2 DEF Cutting
  <2>. HIDE DEF f
  <2>2. /\ r \in Str /\ Drained(r, mux) = [rest |-> r, got |-> <<>>]
        /\ D = [rest |-> s.rest, got |-> d.got \o s.got]
    <3>1. Joins(b, f, mux)
      BY <1>1, ChunksJoin
    <3> QED BY <3>1 DEF Joins
  <2> QED BY <2>1, <2>2
<1>4. /\ Len(w) + Len(d.got) <= Len(e)
      /\ \A i \in 1..Len(w) : w[i] = ReplyTo(p, e[i])
      /\ \A k \in 1..Len(d.got) : d.got[k] = e[Len(w) + k]
      /\ Stuck(r, mux) \/ (r = <<>> /\ Len(w) + Len(d.got) = Len(e))
  BY DEF InOrder
<1>. HIDE DEF f, d, D
<1>5. Len(w) \in Nat /\ Len(e) \in Nat /\ Len(d.got) \in Nat
  BY <1>3
<1>6. /\ g \in Seq(Str) /\ Len(g) = IF c = <<>> THEN Len(e) ELSE Len(e) + 1
      /\ \A i \in 1..Len(e) : g[i] = e[i]
      /\ c # <<>> => g[Len(e) + 1] = c
  BY <1>1, <1>5
<1>. HIDE DEF g
<1>7. \A i \in 1..Len(w) : w[i] = ReplyTo(p, g[i])
  <2>1. \A i \in 1..Len(w) : i \in 1..Len(e)
    BY <1>4, <1>5
  <2> QED BY <1>4, <1>6, <2>1
<1>8. \A k \in 1..Len(d.got) : d.got[k] = g[Len(w) + k]
  <2>1. \A k \in 1..Len(d.got) : Len(w) + k \in 1..Len(e)
    BY <1>4, <1>5
  <2> QED BY <1>4, <1>6, <2>1
<1>9. ASSUME NEW t \in Str, s = [rest |-> t, got |-> <<>>], Stuck(t, mux)
      PROVE  InOrder(p, mux, D, w, g)
  <2>1. D.rest = t /\ D.got = d.got
    BY <1>3, <1>9
  <2>2. Len(w) + Len(D.got) <= Len(g)
    BY <1>4, <1>5, <1>6, <2>1
  <2> QED BY <1>7, <1>8, <1>9, <2>1, <2>2 DEF InOrder
<1>10. CASE Stuck(r, mux)
  <2>1. r \o f \in Str /\ Holds(r \o f, 0, Bad) /\ mux = FALSE
    <3>1. r \o f \in Str
      BY <1>1, <1>3, CatStr
    <3>2. Holds(r \o f, 0, Bad)
      <4>1. 0 \in Nat /\ Bad \in Str /\ Holds(r, 0, Bad)
        BY <1>10, BadStr DEF Stuck
      <4> QED BY <1>1, <1>3, <4>1, CatHolds
    <3> QED BY <1>10, <3>1, <3>2 DEF Stuck
  <2>2. s = [rest |-> r \o f, got |-> <<>>] /\ Stuck(r \o f, mux)
    BY <2>1, BadStays DEF Stuck
  <2> QED BY <1>9, <2>1, <2>2 DEF g, D, f
<1>11. CASE ~Stuck(r, mux)
  <2>1. r = <<>> /\ Len(w) + Len(d.got) = Len(e) /\ s = Drained(f, mux)
    <3>1. r = <<>> /\ Len(w) + Len(d.got) = Len(e)
      BY <1>4, <1>11
    <3> QED BY <1>1, <3>1, CatEmpty
  <2>2. CASE ~mux /\ Bare(body)
    <3>1. Holds(f, 0, Bad) /\ mux = FALSE
      BY <2>2, BareIsBad DEF f
    <3>2. s = [rest |-> f, got |-> <<>>] /\ Stuck(f, mux)
      BY <1>1, <2>1, <3>1, BadStays DEF Stuck
    <3> QED BY <1>1, <1>9, <3>2 DEF g, D, f
  <2>3. CASE ~(~mux /\ Bare(body))
    <3>1. s = [rest |-> <<>>, got |-> IF c = <<>> THEN <<>> ELSE <<c>>]
      BY <2>1, <2>3, FramedDrains DEF f
    <3>2. CASE c = <<>>
      <4>1. D.rest = <<>> /\ D.got = d.got
        BY <1>3, <3>1, <3>2
      <4>2. Len(w) + Len(D.got) = Len(g)
        BY <1>6, <2>1, <3>2, <4>1
      <4>3. Len(w) + Len(D.got) <= Len(g)
        BY <1>5, <4>1, <4>2
      <4>4. InOrder(p, mux, D, w, g)
        BY <1>7, <1>8, <4>1, <4>2, <4>3 DEF InOrder
      <4> QED BY <4>4 DEF g, D, f
    <3>3. CASE c # <<>>
      <4>1. D.rest = <<>> /\ D.got = d.got \o <<c>>
        BY <1>3, <3>1, <3>3
      <4>2. /\ Len(D.got) = Len(d.got) + 1 /\ D.got[Len(d.got) + 1] = c
            /\ \A k \in 1..Len(d.got) : D.got[k] = d.got[k]
        <5>1. /\ Len(d.got \o <<c>>) = Len(d.got) + 1 /\ (d.got \o <<c>>)[Len(d.got) + 1] = c
              /\ \A k \in 1..Len(d.got) : (d.got \o <<c>>)[k] = d.got[k]
          BY <1>1, <1>3, OneMore
        <5> QED BY <4>1, <5>1
      <4>3. Len(w) + Len(D.got) = Len(g)
        BY <1>5, <1>6, <2>1, <3>3, <4>2
      <4>4. Len(w) + Len(D.got) <= Len(g)
        BY <1>5, <4>2, <4>3
      <4>5. \A k \in 1..Len(D.got) : D.got[k] = g[Len(w) + k]
        <5>1. ASSUME NEW k \in 1..Len(D.got) PROVE D.got[k] = g[Len(w) + k]
          <6>1. CASE k \in 1..Len(d.got)
            BY <1>8, <4>2, <6>1
          <6>2. CASE k = Len(d.got) + 1
            <7>1. Len(w) + k = Len(e) + 1
              BY <1>5, <2>1, <6>2
            <7> QED BY <1>6, <3>3, <4>2, <6>2, <7>1
          <6> QED BY <1>5, <4>2, <6>1, <6>2
        <5> QED BY <5>1
      <4>6. InOrder(p, mux, D, w, g)
        BY <1>7, <4>1, <4>3, <4>4, <4>5 DEF InOrder
      <4> QED BY <4>6 DEF g, D, f
    <3> QED BY <3>2, <3>3
  <2> QED BY <2>2, <2>3
<1> QED BY <1>10, <1>11

\* A chunk is read: what is left of it and the rest of the stream give the frames
\* that have not been written yet.
LEMMA BytesCome ==
  ASSUME NEW p, NEW mux, NEW x \in Str, NEW y \in Str, NEW w \in Seq(Str), NEW e \in Seq(Str),
         InOrder(p, mux, Drained(x \o y, mux), w, e),
         NEW v \in Seq(Str), Len(v) = Len(Drained(x, mux).got),
         \A k \in 1..Len(v) : v[k] = ReplyTo(p, Drained(x, mux).got[k])
  PROVE  InOrder(p, mux, Drained(Drained(x, mux).rest \o y, mux), w \o v, e)
<1>. DEFINE d == Drained(x, mux)
            s == Drained(d.rest \o y, mux)
            D == Drained(x \o y, mux)
            z == w \o v
<1>1. D = [rest |-> s.rest, got |-> d.got \o s.got] /\ d.rest \in Str
  <2>1. Joins(x, y, mux)
    BY ChunksJoin
  <2> QED BY <2>1 DEF Joins
<1>2. d \in Cutting /\ s \in Cutting
  <2>1. d.rest \o y \in Str
    BY <1>1, CatStr
  <2> QED BY <2>1, DrainedFits
<1>3. d.got \in Seq(Str) /\ s.got \in Seq(Str)
  BY <1>2 DEF Cutting
<1>4. /\ Len(w) + Len(D.got) <= Len(e)
      /\ \A i \in 1..Len(w) : w[i] = ReplyTo(p, e[i])
      /\ \A k \in 1..Len(D.got) : D.got[k] = e[Len(w) + k]
      /\ Stuck(D.rest, mux) \/ (D.rest = <<>> /\ Len(w) + Len(D.got) = Len(e))
  BY DEF InOrder
<1>5. Len(v) = Len(d.got) /\ \A k \in 1..Len(v) : v[k] = ReplyTo(p, d.got[k])
  OBVIOUS
<1>. HIDE DEF d, s, D
<1>6. Len(w) \in Nat /\ Len(e) \in Nat /\ Len(v) \in Nat /\ Len(s.got) \in Nat
  BY <1>3
<1>7. /\ Len(D.got) = Len(v) + Len(s.got) /\ D.rest = s.rest
      /\ \A k \in 1..Len(v) : D.got[k] = d.got[k]
      /\ \A k \in 1..Len(s.got) : D.got[Len(v) + k] = s.got[k]
  <2>. DEFINE g == d.got \o s.got
  <2>1. /\ Len(g) = Len(d.got) + Len(s.got)
        /\ \A k \in 1..Len(d.got) : g[k] = d.got[k]
        /\ \A k \in 1..Len(s.got) : g[Len(d.got) + k] = s.got[k]
    BY <1>3, SeqsCat
  <2>2. D.got = g /\ D.rest = s.rest
    BY <1>1
  <2>. HIDE DEF g
  <2> QED BY <1>5, <2>1, <2>2
<1>8. /\ Len(z) = Len(w) + Len(v)
      /\ \A k \in 1..Len(w) : z[k] = w[k]
      /\ \A k \in 1..Len(v) : z[Len(w) + k] = v[k]
  BY SeqsCat
<1>. HIDE DEF z
<1>. DEFINE nw == Len(w)
            nv == Len(v)
            ns == Len(s.got)
            nd == Len(D.got)
            nz == Len(z)
<1>13. nw \in Nat /\ nv \in Nat /\ ns \in Nat /\ nd = nv + ns /\ nz = nw + nv
  BY <1>6, <1>7, <1>8
<1>. HIDE DEF nw, nv, ns, nd, nz
<1>9. ASSUME NEW i \in 1..Len(z) PROVE z[i] = ReplyTo(p, e[i])
  <2>1. CASE i \in 1..Len(w)
    BY <1>4, <1>8, <2>1
  <2>2. CASE i \notin 1..Len(w)
    <3>1. PICK k \in 1..Len(v) : i = Len(w) + k
      <4>. DEFINE k == i - Len(w)
      <4>1. k \in 1..Len(v) /\ i = Len(w) + k
        BY <1>6, <1>8, <2>2
      <4> QED BY <4>1
    <3>2. k \in 1..Len(D.got)
      <4>1. k \in 1..nv
        BY DEF nv
      <4>2. k \in 1..nd
        BY <1>13, <4>1
      <4> QED BY <4>2 DEF nd
    <3>3. d.got[k] = e[i]
      BY <1>4, <1>7, <3>1, <3>2
    <3>4. z[i] = ReplyTo(p, d.got[k])
      BY <1>5, <1>8, <3>1
    <3> QED BY <3>3, <3>4
  <2> QED BY <2>1, <2>2
<1>10. ASSUME NEW k \in 1..Len(s.got) PROVE s.got[k] = e[Len(z) + k]
  <2>1. Len(v) + k \in 1..Len(D.got) /\ Len(w) + (Len(v) + k) = Len(z) + k
    <3>1. k \in 1..ns
      BY DEF ns
    <3>2. nv + k \in 1..nd /\ nw + (nv + k) = nz + k
      BY <1>13, <3>1
    <3> QED BY <3>2 DEF nv, nd, nw, nz
  <2>2. D.got[Len(v) + k] = e[Len(w) + (Len(v) + k)]
    BY <1>4, <2>1
  <2> QED BY <1>7, <2>1, <2>2
<1>11. Len(z) + Len(s.got) = Len(w) + Len(D.got)
  <2>1. nz + ns = nw + nd
    BY <1>13
  <2> QED BY <2>1 DEF nz, ns, nw, nd
<1>12. InOrder(p, mux, s, z, e)
  BY <1>4, <1>7, <1>9, <1>10, <1>11 DEF InOrder
<1> QED BY <1>12 DEF s, d, z

-----------------------------------------------------------------------------
(* The flow. *)

GramInv ==
  /\ peer \in Peers /\ shared \in BOOLEAN
  /\ acc \in Str /\ wire \in Str /\ written \in Seq(Str)
  /\ due \in Seq(Str) /\ \A i \in 1..Len(due) : due[i] \in Payloads
  /\ Drained(acc, shared) = [rest |-> acc, got |-> <<>>]
  /\ InOrder(peer, shared, Drained(acc \o wire, shared), written, due)
  /\ \A l \in local : RightAnswer(peer, l)

\* The parts that a packet of the app moves.
Flowing ==
  /\ wire \in Str /\ due \in Seq(Str) /\ \A i \in 1..Len(due) : due[i] \in Payloads
  /\ InOrder(peer, shared, Drained(acc \o wire, shared), written, due)

LEMMA DrainedNone == ASSUME NEW mux PROVE Drained(<<>>, mux) = [rest |-> <<>>, got |-> <<>>]
<1>. DEFINE b == <<>>
<1>1. b \in Str /\ Len(b) = 0 /\ 0 \in 0..Len(b)
  BY EmptyStr
<1>2. SubSeq(b, 0 + 1, Len(b)) = b
  <2>1. SubSeq(b, 0 + 1, Len(b)) \in Str /\ Len(SubSeq(b, 0 + 1, Len(b))) = Len(b) - 0
    <3>1. 0 \in Nat /\ 0 <= Len(b)
      BY <1>1
    <3> QED BY <1>1, <3>1, SplitStr
  <2> QED BY <1>1, <2>1, EmptyStr
<1>3. Stops(b, 0, mux)
  BY <1>1 DEF Stops
<1>4. CutFrom(b, mux)[0] = CutStep(b, mux, CutFrom(b, mux), 0)
  BY <1>1, CutsEnd
<1>. HIDE DEF b
<1>5. CutFrom(b, mux)[0] = [rest |-> b, got |-> <<>>]
  BY <1>2, <1>3, <1>4 DEF CutStep
<1> QED BY <1>5, DrainedIs DEF b

LEMMA GramStarts == GramInit => GramInv
<1>. SUFFICES ASSUME GramInit PROVE GramInv
  OBVIOUS
<1>1. /\ peer \in Peers /\ shared \in BOOLEAN /\ wire = <<>> /\ acc = <<>> /\ due = <<>>
      /\ written = <<>> /\ local = {}
  BY DEF GramInit
<1>2. acc \in Str /\ wire \in Str /\ written \in Seq(Str) /\ due \in Seq(Str) /\ Len(due) = 0
      /\ acc \o wire = <<>>
  BY <1>1, EmptyStr, CatEmpty
<1>3. Drained(acc, shared) = [rest |-> acc, got |-> <<>>]
  BY <1>1, DrainedNone
<1>4. InOrder(peer, shared, Drained(acc \o wire, shared), written, due)
  <2>. DEFINE d == Drained(acc \o wire, shared)
  <2>1. d.rest = <<>> /\ d.got = <<>>
    BY <1>2, DrainedNone
  <2>. HIDE DEF d
  <2>2. Len(d.got) = 0 /\ Len(written) = 0 /\ Len(due) = 0
    BY <1>1, <2>1
  <2>3. /\ Len(written) + Len(d.got) <= Len(due) /\ Len(written) + Len(d.got) = Len(due)
        /\ \A i \in 1..Len(written) : FALSE
        /\ \A k \in 1..Len(d.got) : FALSE
    BY <2>2
  <2>4. InOrder(peer, shared, d, written, due)
    BY <2>1, <2>3 DEF InOrder
  <2> QED BY <2>4 DEF d
<1> QED BY <1>1, <1>2, <1>3, <1>4 DEF GramInv

LEMMA Answered ==
  ASSUME GramInv, NEW payload \in Payloads, AppRefused(payload) \/ AppPings(payload)
  PROVE  GramInv'
<1>1. IsPeer(peer) /\ payload \in Str /\ Short(68 + Len(payload))
  BY PeersAre DEF GramInv
<1>2. UNCHANGED <<peer, shared, wire, acc, due, written>>
  BY DEF AppRefused, AppPings
<1>3. ASSUME NEW x, RightAnswer(peer, x), local' = local \cup {x} PROVE GramInv'
  <2>1. \A l \in local' : RightAnswer(peer, l)
    BY <1>3 DEF GramInv
  <2> QED BY <1>2, <2>1 DEF GramInv
<1>4. CASE AppRefused(payload)
  <2>1. peer.refused /\ local' = local \cup {[ask |-> AppPacket(payload),
                                              answer |-> Unreachable(AppPacket(payload))]}
    BY <1>4 DEF AppRefused
  <2> QED BY <1>1, <1>3, <2>1, RefusalRight
<1>5. CASE AppPings(payload)
  <2>1. Len(peer.dst) = 4 /\ local' = local \cup {[ask |-> Ping(peer, payload),
                                                   answer |-> EchoReply(Ping(peer, payload))]}
    BY <1>5 DEF AppPings, Ping, PingBody
  <2> QED BY <1>1, <1>3, <2>1, EchoRight
<1> QED BY <1>4, <1>5

\* What the flow makes of a packet of the app is the payload in it.
LEMMA AskRead ==
  ASSUME IsPeer(peer), NEW payload \in Str, Short(68 + Len(payload))
  PROVE  Parsed(AppPacket(payload)).payload = payload
<1>. DEFINE len == 8 + Len(payload)
            h == AskHead(peer, len)
            u == UdpOf(peer.sport, peer.dport, payload)
<1>1. /\ Len(payload) \in Nat /\ len \in Nat /\ Short(len) /\ Short(8 + Len(payload))
      /\ Short(peer.sport) /\ Short(peer.dport) /\ peer.sport \in Nat /\ peer.dport \in Nat
  <2>1. Len(payload) \in Nat
    BY StrShape
  <2>2. Short(len)
    BY <2>1, ShortIs
  <2> QED BY <2>1, <2>2, ShortIs DEF IsPeer
<1>2. AppPacket(payload) = h \o u
  BY AskIs
<1>. HIDE DEF len
<1>3. IsHead(h, peer.src, peer.dst, UdpProto)
  BY <1>1, AskHeadIs
<1>4. IsUdp(u, peer.sport, peer.dport, payload)
  BY <1>1, UdpIs
<1>. HIDE DEF h, u
<1>5. Parsed(h \o u) = [src |-> peer.src, sport |-> peer.sport, dst |-> peer.dst,
                        dport |-> peer.dport, payload |-> payload]
  BY <1>1, <1>3, <1>4, ParsedIs
<1> QED BY <1>2, <1>5

\* A frame on the wire, of the flow or of a peer that breaks.
LEMMA WireGrows ==
  ASSUME GramInv, NEW body \in Str, Short(Len(body)),
         (~shared /\ Bare(body)) => Carries(body, shared) = <<>>,
         wire' = wire \o Framed(body), UNCHANGED <<peer, shared, acc, written>>,
         due' = IF Carries(body, shared) = <<>> THEN due ELSE Append(due, Carries(body, shared)),
         Carries(body, shared) # <<>> => Carries(body, shared) \in Payloads
  PROVE  Flowing'
<1>. DEFINE f == Framed(body)
            c == Carries(body, shared)
            b == acc \o wire
<1>1. /\ acc \in Str /\ wire \in Str /\ written \in Seq(Str) /\ due \in Seq(Str)
      /\ shared \in BOOLEAN /\ InOrder(peer, shared, Drained(b, shared), written, due)
      /\ \A i \in 1..Len(due) : due[i] \in Payloads
  BY DEF GramInv
<1>2. f \in Str /\ b \in Str /\ c \in Str
  <2>1. U2(Len(body)) \in Str
    BY StrShape, U2Str
  <2>2. f \in Str
    BY <2>1, CatStr DEF Framed
  <2> QED BY <1>1, <2>2, CatStr, CarriesStr
<1>3. InOrder(peer, shared, Drained(b \o f, shared), written, due')
  BY <1>1, <1>2, FrameComes
<1>. HIDE DEF f, c
<1>4. wire' \in Str /\ acc' \o wire' = b \o f
  <2>1. wire' = wire \o f /\ acc' = acc
    BY DEF f
  <2>2. wire \o f \in Str
    BY <1>1, <1>2, CatStr
  <2>3. b \o f = acc \o (wire \o f)
    BY <1>1, <1>2, CatAssoc, ZenonT(30)
  <2> QED BY <2>1, <2>2, <2>3
<1>5. due' \in Seq(Str) /\ \A i \in 1..Len(due') : due'[i] \in Payloads
  <2>1. CASE c = <<>>
    BY <1>1, <2>1 DEF c
  <2>2. CASE c # <<>>
    <3>1. due' = Append(due, c) /\ c \in Payloads
      BY <2>2 DEF c
    <3> QED BY <1>1, <1>2, <3>1
  <2> QED BY <2>1, <2>2
<1>. HIDE DEF b
<1>6. InOrder(peer', shared', Drained(acc' \o wire', shared'), written', due')
  BY <1>3, <1>4
<1> QED BY <1>4, <1>5, <1>6 DEF Flowing

LEMMA GramSends ==
  ASSUME GramInv, NEW payload \in Payloads, AppSends(payload)
  PROVE  GramInv'
<1>1. IsPeer(peer) /\ payload \in Str /\ Short(68 + Len(payload)) /\ shared \in BOOLEAN
  BY PeersAre DEF GramInv
<1>2. UNCHANGED <<peer, shared, acc, written, local>>
  BY DEF AppSends
<1>. DEFINE body == Body(payload)
<1>3. /\ body \in Str /\ Carries(body, shared) = payload
      /\ ~(~shared /\ Bare(body))
  BY <1>1, CarriesBody
<1>4. \/ UNCHANGED <<wire, due>>
      \/ /\ Len(body) <= MaxBody /\ wire' = wire \o Framed(body)
         /\ due' = IF payload = <<>> THEN due ELSE Append(due, payload)
  <2>1. Parsed(AppPacket(payload)).payload = payload
    BY <1>1, AskRead
  <2>2. Len(body) > MaxBody \/ Len(body) <= MaxBody
    <3>1. Len(body) \in Nat
      BY <1>3, StrShape
    <3>2. MaxBody \in Int
      BY DatagramsConstants DEF DatagramsConstants
    <3>. HIDE DEF body
    <3> QED BY <3>1, <3>2
  <2> QED BY <2>1, <2>2 DEF AppSends
<1>. HIDE DEF body
<1>5. Flowing'
  <2>1. CASE UNCHANGED <<wire, due>>
    BY <1>2, <2>1 DEF GramInv, Flowing
  <2>2. CASE /\ Len(body) <= MaxBody /\ wire' = wire \o Framed(body)
             /\ due' = IF payload = <<>> THEN due ELSE Append(due, payload)
    <3>1. Short(Len(body))
      BY <1>3, <2>2, StrShape, PeersAre
    <3> QED BY <1>2, <1>3, <2>2, <3>1, WireGrows
  <2> QED BY <1>4, <2>1, <2>2
<1> QED BY <1>2, <1>5 DEF GramInv, Flowing

LEMMA GramBreaks ==
  ASSUME GramInv, NEW body \in Junk, PeerBreaks(body)
  PROVE  GramInv'
<1>1. /\ UNCHANGED <<peer, shared, acc, due, written, local>> /\ wire' = wire \o Framed(body)
  BY DEF PeerBreaks
<1>2. body \in Str /\ Short(Len(body)) /\ shared \in BOOLEAN
  BY PeersAre DEF GramInv
<1>3. Carries(body, shared) = <<>>
  BY <1>2, JunkIsJunk DEF JunkIsJunk
<1>4. Flowing'
  BY <1>1, <1>2, <1>3, WireGrows
<1> QED BY <1>1, <1>4 DEF GramInv, Flowing

LEMMA GramReads ==
  ASSUME GramInv, NEW n \in DOMAIN wire, BytesArrive(n)
  PROVE  GramInv'
<1>. DEFINE x == acc \o SubSeq(wire, 1, n)
            y == SubSeq(wire, n + 1, Len(wire))
            d == Drained(x, shared)
            v == [i \in DOMAIN d.got |-> ReplyTo(peer, d.got[i])]
<1>1. /\ acc \in Str /\ wire \in Str /\ written \in Seq(Str) /\ due \in Seq(Str)
      /\ peer \in Peers /\ \A i \in 1..Len(due) : due[i] \in Payloads
      /\ InOrder(peer, shared, Drained(acc \o wire, shared), written, due)
  BY DEF GramInv
<1>2. /\ acc' = d.rest /\ written' = written \o v /\ wire' = y
      /\ UNCHANGED <<peer, shared, due, local>>
  BY DEF BytesArrive, ReplyTo
<1>3. n \in Nat /\ n <= Len(wire)
  BY <1>1, StrShape
<1>4. x \in Str /\ y \in Str /\ acc \o wire = x \o y
  <2>. DEFINE z == SubSeq(wire, 1, n)
  <2>1. z \in Str /\ y \in Str /\ wire = z \o y
    BY <1>1, <1>3, SplitStr
  <2>. HIDE DEF z, y
  <2>2. acc \o z \in Str
    BY <1>1, <2>1, CatStr
  <2>3. acc \o wire = (acc \o z) \o y
    BY <1>1, <2>1, CatAssoc
  <2>4. x = acc \o z
    BY DEF z
  <2>. HIDE DEF x
  <2> QED BY <2>1, <2>2, <2>3, <2>4
<1>. HIDE DEF x, y
<1>5. d.rest \in Str /\ d.got \in Seq(Str)
  BY <1>4, DrainedFits DEF Cutting
<1>6. Drained(d.rest, shared) = [rest |-> d.rest, got |-> <<>>]
  <2>1. Joins(x, y, shared)
    BY <1>4, ChunksJoin
  <2> QED BY <2>1 DEF Joins
<1>7. \A k \in 1..Len(d.got) : d.got[k] \in Payloads
  <2>. DEFINE D == Drained(x \o y, shared)
              s == Drained(d.rest \o y, shared)
  <2>1. D.got = d.got \o s.got
    <3>1. Joins(x, y, shared)
      BY <1>4, ChunksJoin
    <3>2. D = [rest |-> s.rest, got |-> d.got \o s.got]
      BY <3>1 DEF Joins
    <3>. HIDE DEF D, d, s
    <3> QED BY <3>2
  <2>2. s.got \in Seq(Str)
    <3>1. d.rest \o y \in Str
      BY <1>4, <1>5, CatStr
    <3> QED BY <3>1, DrainedFits DEF Cutting
  <2>3. /\ Len(written) + Len(D.got) <= Len(due)
        /\ \A k \in 1..Len(D.got) : D.got[k] = due[Len(written) + k]
    BY <1>1, <1>4 DEF InOrder
  <2>. HIDE DEF D, s, d
  <2>4. /\ Len(d.got \o s.got) = Len(d.got) + Len(s.got)
        /\ \A k \in 1..Len(d.got) : (d.got \o s.got)[k] = d.got[k]
    BY <1>5, <2>2, SeqsCat
  <2>. DEFINE nw == Len(written)
              nd == Len(d.got)
              ns == Len(s.got)
              ne == Len(due)
              nD == Len(D.got)
  <2>5. nw \in Nat /\ nd \in Nat /\ ns \in Nat /\ ne \in Nat /\ nD = nd + ns /\ nw + nD <= ne
    <3>1. nw \in Nat /\ ne \in Nat
      BY <1>1
    <3>2. nd \in Nat /\ ns \in Nat
      BY <1>5, <2>2
    <3>3. nD = nd + ns
      BY <2>1, <2>4
    <3> QED BY <2>3, <3>1, <3>2, <3>3
  <2>. HIDE DEF nw, nd, ns, ne, nD
  <2>6. \A k \in 1..nd : k \in 1..nD /\ nw + k \in 1..ne
    BY <2>5
  <2>7. \A k \in 1..Len(d.got) : k \in 1..Len(D.got) /\ Len(written) + k \in 1..Len(due)
    BY <2>6 DEF nw, nd, ne, nD
  <2> QED BY <1>1, <2>1, <2>3, <2>4, <2>7
<1>8. \A k \in 1..Len(d.got) : ReplyTo(peer, d.got[k]) \in Str
  <2>1. ASSUME NEW q \in Payloads PROVE ReplyTo(peer, q) \in Str
    <3>1. IsPeer(peer) /\ q \in Str /\ Short(68 + Len(q))
      BY <1>1, <2>1, PeersAre
    <3> QED BY <3>1, RepliesRead
  <2> QED BY <1>7, <2>1
<1>. HIDE DEF d
<1>9. /\ v \in Seq(Str) /\ Len(v) = Len(d.got)
      /\ \A k \in 1..Len(v) : v[k] = ReplyTo(peer, d.got[k])
  <2>. DEFINE m == Len(d.got)
  <2>1. m \in Nat /\ DOMAIN d.got = 1..m
    BY <1>5
  <2>2. v = [i \in 1..m |-> ReplyTo(peer, d.got[i])]
    BY <2>1
  <2>3. \A k \in 1..m : ReplyTo(peer, d.got[k]) \in Str
    BY <1>8
  <2>. HIDE DEF m, v
  <2>4. v \in [1..m -> Str]
    BY <2>2, <2>3
  <2>5. v \in Seq(Str) /\ Len(v) = m
    BY <2>1, <2>4
  <2>6. \A k \in 1..m : v[k] = ReplyTo(peer, d.got[k])
    BY <2>2
  <2> QED BY <2>5, <2>6 DEF m
<1>. HIDE DEF v
<1>10. InOrder(peer, shared, Drained(d.rest \o y, shared), written \o v, due)
  BY <1>1, <1>4, <1>9, BytesCome DEF d
<1>11. written \o v \in Seq(Str)
  BY <1>1, <1>9
<1> QED BY <1>1, <1>2, <1>4, <1>5, <1>6, <1>10, <1>11 DEF GramInv

LEMMA GramStays == ASSUME GramInv, [GramNext]_gramVars PROVE GramInv'
<1>1. CASE UNCHANGED gramVars
  BY <1>1 DEF GramInv, gramVars
<1>2. ASSUME NEW payload \in Payloads, AppRefused(payload) \/ AppSends(payload) \/ AppPings(payload)
      PROVE  GramInv'
  BY <1>2, Answered, GramSends
<1>3. ASSUME NEW body \in Junk, PeerBreaks(body) PROVE GramInv'
  BY <1>3, GramBreaks
<1>4. ASSUME NEW n \in DOMAIN wire, BytesArrive(n) PROVE GramInv'
  BY <1>4, GramReads
<1> QED BY <1>1, <1>2, <1>3, <1>4 DEF GramNext

LEMMA GramReaches == GramInv => RepliesReach
<1>. SUFFICES ASSUME GramInv PROVE RepliesReach
  OBVIOUS
<1>. DEFINE d == Drained(acc \o wire, shared)
<1>1. /\ acc \in Str /\ wire \in Str /\ written \in Seq(Str) /\ due \in Seq(Str)
      /\ IsPeer(peer) /\ \A i \in 1..Len(due) : due[i] \in Payloads
  BY PeersAre DEF GramInv
<1>2. /\ Len(written) + Len(d.got) <= Len(due)
      /\ \A i \in 1..Len(written) : written[i] = ReplyTo(peer, due[i])
      /\ Stuck(d.rest, shared) \/ (d.rest = <<>> /\ Len(written) + Len(d.got) = Len(due))
  BY DEF GramInv, InOrder
<1>3. d.got \in Seq(Str)
  <2>1. d \in Cutting
    BY <1>1, CatStr, DrainedFits
  <2>. HIDE DEF d
  <2> QED BY <2>1 DEF Cutting
<1>4. Len(written) \in Nat /\ Len(d.got) \in Nat /\ Len(due) \in Nat
      /\ DOMAIN written = 1..Len(written)
  <2>. HIDE DEF d
  <2> QED BY <1>1, <1>3
<1>5. Len(written) <= Len(due)
  <2>. HIDE DEF d
  <2> QED BY <1>2, <1>4
<1>6. ASSUME NEW i \in DOMAIN written
      PROVE  /\ Parsed(written[i]) = [src |-> peer.dst, sport |-> peer.dport, dst |-> peer.src,
                                      dport |-> peer.sport, payload |-> due[i]]
             /\ WellFormed(written[i], UdpProto)
  <2>1. i \in 1..Len(written) /\ i \in 1..Len(due)
    BY <1>4, <1>5
  <2>2. due[i] \in Str /\ Short(68 + Len(due[i])) /\ written[i] = ReplyTo(peer, due[i])
    BY <1>1, <1>2, <2>1, PeersAre
  <2> QED BY <1>1, <2>2, RepliesRead
<1>7. ASSUME wire = <<>>, ~(~shared /\ IsPrefix(<<0, 1, 3>>, acc))
      PROVE  acc = <<>> /\ Len(written) = Len(due)
  <2>1. acc \o wire = acc
    BY <1>1, <1>7, CatEmpty
  <2>2. d.rest = acc /\ d.got = <<>>
    BY <2>1 DEF GramInv
  <2>3. ~Stuck(d.rest, shared)
    <3>1. IsPrefix(Bad, acc) <=> Holds(acc, 0, Bad)
      BY <1>1, BadStr, PrefixHolds
    <3>2. ~(~shared /\ IsPrefix(Bad, acc))
      BY <1>7 DEF Bad
    <3>3. ~Stuck(acc, shared)
      BY <3>1, <3>2 DEF Stuck
    <3> QED BY <2>2, <3>3
  <2>. HIDE DEF d
  <2>4. Len(d.got) = 0
    BY <2>2
  <2> QED BY <1>2, <1>4, <2>2, <2>3, <2>4
<1>8. EchoReaches
  BY <1>5, <1>6, <1>7 DEF EchoReaches
<1>9. LocalAnswers
  BY DEF GramInv, LocalAnswers, RightAnswer
<1> QED BY <1>8, <1>9 DEF RepliesReach

\* tun/udp.rs and proxy/udp_mux.rs: whatever the addresses, the options, the
\* payloads and the chunks that the bytes come in, and whatever broken frames the
\* peer puts between them, the app reads the payloads it sent, each in a packet
\* whose lengths and checksums hold, from where it had sent them to; and what is
\* answered on the spot comes from the address that was asked, quotes enough of
\* the packet, and sums up.
THEOREM RepliesAlways == GramInit /\ [][GramNext]_gramVars => []RepliesReach
<1>1. GramInv /\ [GramNext]_gramVars => GramInv'
  BY GramStays
<1> QED BY <1>1, GramStarts, GramReaches, PTL
=============================================================================
