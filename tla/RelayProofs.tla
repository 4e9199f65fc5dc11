---------------------------- MODULE RelayProofs ----------------------------
(***************************************************************************)
(* Theorems about Relay, for any length of the upload and the download and *)
(* any size of the list of recent records.                                 *)
(*                                                                         *)
(* GInv follows the record of the connection: the paths a task may be on,  *)
(* the places at which it has a record, and that no other record is live   *)
(* or Active.  BInv, on top of it, follows the bytes: up to the loop what  *)
(* was read is in head, in the loop it is sent or held; what was read from *)
(* the server and not yet written comes after all that was written.        *)
(***************************************************************************)
EXTENDS Relay, SequenceTheorems, TLAPS

Singles == {"wait", "sniff", "route", "resolve", "resolve default", "dial", "first", "get",
            "preread", "head", "loop", "done"}
Opened == {"dial", "preread", "head"}   \* what a record is opened before
Closed == {"done", "get"}               \* what a record is closed before

Paths ==
  {<<p>> : p \in Singles}
  \cup {<<"start", "start2", p>> : p \in Opened} \cup {<<"start2", p>> : p \in Opened}
  \cup {<<"close", "close2", p>> : p \in Closed} \cup {<<"close2", p>> : p \in Closed}
  \cup {<<"start", "start2", "close", "close2", "done">>, <<"start2", "close", "close2", "done">>}

\* The places where the connection has no record.
Bare == {"wait", "sniff", "route", "resolve", "resolve default", "start", "done"}

Records == [id : Nat \ {0}, status : {"Active", "Closed"}]

MonitorTypes ==
  /\ nextId \in Nat \ {0} /\ own \in 0..(nextId - 1)
  /\ recents \in Seq(Records)

\* A second connect_tunnel has the record of the first one.
Placed ==
  /\ todo \in Paths
  /\ own = 0 <=> Place \in Bare \/ (Place = "get" /\ ~again)
  /\ again => \/ Place \in {"get", "head", "loop", "done"}
              \/ todo \in {<<"close", "close2", "done">>, <<"close2", "done">>}

\* Only the record of the connection is live or Active, and not past its close.
OwnOnly ==
  /\ \A id \in live : id = own /\ id # 0
  /\ \A i \in DOMAIN recents : recents[i].status = "Active" => recents[i].id = own
  /\ Place = "close2" => own \notin live

GInv == MonitorTypes /\ Placed /\ OwnOnly

-----------------------------------------------------------------------------
(* Paths, and the records. *)

\* A concatenation is the sequence that agrees with both of its parts.
LEMMA Joined ==
  ASSUME NEW S, NEW s \in Seq(S), NEW t \in Seq(S), NEW r \in Seq(S),
         Len(r) = Len(s) + Len(t), \A i \in 1..Len(s) : r[i] = s[i],
         \A i \in 1..Len(t) : r[Len(s) + i] = t[i]
  PROVE  s \o t = r
<1>1. Len(s) \in Nat /\ Len(t) \in Nat
  BY LenProperties
<1>2. /\ s \o t \in Seq(S) /\ Len(s \o t) = Len(r)
      /\ \A i \in 1..(Len(s) + Len(t)) : (s \o t)[i] = IF i <= Len(s) THEN s[i] ELSE t[i - Len(s)]
  BY ConcatProperties
<1>3. ASSUME NEW i \in 1..Len(r) PROVE (s \o t)[i] = r[i]
  <2>1. CASE i <= Len(s)
    BY <1>1, <1>2, <2>1
  <2>2. CASE i > Len(s)
    <3>1. PICK j \in 1..Len(t) : i = Len(s) + j
      <4>1. i - Len(s) \in 1..Len(t) /\ i = Len(s) + (i - Len(s))
        BY <1>1, <2>2
      <4> QED BY <4>1
    <3>2. r[i] = t[j]
      BY <3>1
    <3>3. (s \o t)[i] = t[i - Len(s)] /\ i - Len(s) = j
      BY <1>1, <1>2, <2>2, <3>1
    <3> QED BY <3>2, <3>3
  <2> QED BY <1>1, <2>1, <2>2
<1> QED BY <1>2, <1>3, SeqEqual

\* One before one.
LEMMA OneOne == ASSUME NEW a, NEW b PROVE <<a>> \o <<b>> = <<a, b>>
<1> DEFINE S == {a, b} s == <<a>> t == <<b>> r == <<a, b>>
<1>1. s \in Seq(S) /\ t \in Seq(S) /\ r \in Seq(S) /\ Len(s) = 1 /\ Len(t) = 1 /\ Len(r) = 2
  OBVIOUS
<1>2. r[1] = s[1] /\ r[2] = t[1]
  OBVIOUS
<1> HIDE DEF S, s, t, r
<1>3. \A i \in 1..Len(s) : r[i] = s[i]
  BY <1>1, <1>2
<1>4. \A i \in 1..Len(t) : r[Len(s) + i] = t[i]
  BY <1>1, <1>2
<1>5. Len(r) = Len(s) + Len(t)
  BY <1>1
<1>6. s \o t = r
  BY <1>1, <1>3, <1>4, <1>5, Joined
<1> QED BY <1>6 DEF s, t, r

\* Two places before one, ...
LEMMA TwoOne == ASSUME NEW a, NEW b, NEW c PROVE <<a, b>> \o <<c>> = <<a, b, c>>
<1> DEFINE S == {a,b,c} s == <<a,b>> t == <<c>> r == <<a,b,c>>
<1>1. s \in Seq(S) /\ t \in Seq(S) /\ r \in Seq(S) /\ Len(s) = 2 /\ Len(t) = 1 /\ Len(r) = 3
  OBVIOUS
<1>2. r[1] = s[1] /\ r[2] = s[2] /\ r[3] = t[1]
  OBVIOUS
<1> HIDE DEF S, s, t, r
<1>3. \A i \in 1..Len(s) : r[i] = s[i]
  BY <1>1, <1>2
<1>4. \A i \in 1..Len(t) : r[Len(s) + i] = t[i]
  BY <1>1, <1>2
<1>5. Len(r) = Len(s) + Len(t)
  BY <1>1
<1>6. s \o t = r
  BY <1>1, <1>3, <1>4, <1>5, Joined
<1> QED BY <1>6 DEF s, t, r

\* ... and before three.
LEMMA TwoThree ==
  ASSUME NEW a, NEW b, NEW c, NEW d, NEW e
  PROVE  <<a, b>> \o <<c, d, e>> = <<a, b, c, d, e>>
<1> DEFINE S == {a,b,c,d,e} s == <<a,b>> t == <<c,d,e>> r == <<a,b,c,d,e>>
<1>1. s \in Seq(S) /\ t \in Seq(S) /\ r \in Seq(S) /\ Len(s) = 2 /\ Len(t) = 3 /\ Len(r) = 5
  OBVIOUS
<1>2. r[1] = s[1] /\ r[2] = s[2] /\ r[3] = t[1] /\ r[4] = t[2] /\ r[5] = t[3]
  OBVIOUS
<1> HIDE DEF S, s, t, r
<1>3. \A i \in 1..Len(s) : r[i] = s[i]
  BY <1>1, <1>2
<1>4. \A i \in 1..Len(t) : r[Len(s) + i] = t[i]
  BY <1>1, <1>2
<1>5. Len(r) = Len(s) + Len(t)
  BY <1>1
<1>6. s \o t = r
  BY <1>1, <1>3, <1>4, <1>5, Joined
<1> QED BY <1>6 DEF s, t, r

\* The paths of Relay, place by place.
LEMMA Spelled ==
  /\ Done = <<"close", "close2", "done">>
  /\ \A p : Close(<<p>>) = <<"close", "close2", p>>
  /\ \A p : Record(<<p>>) = <<"start", "start2", p>>
  /\ Record(Done) = <<"start", "start2", "close", "close2", "done">>
<1>1. Done = <<"close", "close2", "done">>
  BY TwoOne DEF Done, Close
<1> QED BY <1>1, TwoOne, TwoThree DEF Close, Record

\* Nothing is open in the initial state.
LEMMA InitG == Init => GInv
BY DEF Init, MonitorInit, GInv, MonitorTypes, Placed, OwnOnly, Paths, Singles, Place, Bare

\* A step that leaves the records alone.
LEMMA WalkKeeps ==
  ASSUME GInv, KeepRecords, Placed', Place' # "close2"
  PROVE  GInv'
BY DEF GInv, MonitorTypes, OwnOnly, KeepRecords, monitorVars

\* The task goes one place on.
LEMMA Walk ==
  ASSUME GInv, KeepRecords, NEW p \in Singles, todo' = <<p>>,
         own = 0 <=> p \in Bare \/ (p = "get" /\ ~again'),
         again' => p \in {"get", "head", "loop", "done"}
  PROVE  GInv'
<1>1. Place' = p /\ todo' \in Paths
  BY DEF Place, Paths
<1>2. Placed' /\ Place' # "close2"
  BY <1>1 DEF Placed, KeepRecords, Singles
<1> QED BY <1>2, WalkKeeps

\* The task opens a record before it goes on.
LEMMA WalkOpens ==
  ASSUME GInv, KeepRecords, own = 0, ~again',
         \/ todo' = Record(Done) \/ \E p \in Opened : todo' = Record(<<p>>)
  PROVE  GInv'
<1>1. Place' = "start" /\ todo' \in Paths
  <2>1. CASE todo' = Record(Done)
    BY <2>1, Spelled DEF Place, Paths
  <2>2. ASSUME NEW p \in Opened, todo' = Record(<<p>>) PROVE Place' = "start" /\ todo' \in Paths
    BY <2>2, Spelled DEF Place, Paths
  <2> QED BY <2>1, <2>2
<1>2. Placed' /\ Place' # "close2"
  BY <1>1 DEF Placed, KeepRecords, Bare
<1> QED BY <1>2, WalkKeeps

\* The task closes its record before it goes on.
LEMMA WalkCloses ==
  ASSUME GInv, KeepRecords, own # 0,
         todo' = Done \/ (todo' = Close(<<"get">>) /\ ~again')
  PROVE  GInv'
<1>1. Place' = "close" /\ todo' \in Paths
  BY Spelled DEF Place, Paths, Closed
<1>2. Placed' /\ Place' # "close2"
  BY <1>1, Spelled DEF Placed, KeepRecords, Bare
<1> QED BY <1>2, WalkKeeps

\* The steps of relay_tcp, relay_direct, relay_proxy and connect_tunnel.
LEMMA OpeningKeeps ==
  ASSUME GInv, Opening
  PROVE  GInv'
<1>k. KeepRecords
  BY DEF Opening, Establish, NeverEstablished, Sniff, SniffsNothing, Route, Resolve,
         ResolvesNothing, DialOk, DialFails, NoSocket, FirstOk, FirstFails, Connected, AttemptFails,
         Preread, PrereadsNothing, HeadSent, HeadFails
<1>p. /\ own = 0 <=> Place \in Bare \/ (Place = "get" /\ ~again)
      /\ again /\ Place \notin {"close", "close2"} => Place \in {"get", "head", "loop", "done"}
  BY DEF GInv, Placed, Place
<1> USE DEF Go
<1>1. CASE Establish \/ NeverEstablished \/ Sniff \/ SniffsNothing
  <2>1. /\ Place \in {"wait", "sniff"} /\ again' = again
        /\ \E p \in {"sniff", "route", "done"} : todo' = <<p>>
    BY <1>1 DEF Establish, NeverEstablished, Sniff, SniffsNothing, TakesFirst, openVars
  <2> QED BY <1>k, <1>p, <2>1, Walk DEF Singles, Bare
<1>2. CASE Route
  <2>1. Place = "route" /\ again' = again
    BY <1>2 DEF Route
  <2>2. \/ todo' = Record(Done) \/ todo' = Record(<<"dial">>)
        \/ \E p \in {"get", "done", "resolve", "resolve default"} : todo' = <<p>>
    BY <1>2 DEF Route, Calls
  <2> QED BY <1>k, <1>p, <2>1, <2>2, Walk, WalkOpens DEF Singles, Bare, Opened
<1>3. CASE Resolve \/ ResolvesNothing
  <2>1. Place \in {"resolve", "resolve default"} /\ again' = again
    BY <1>3 DEF Resolve, ResolvesNothing, openVars
  <2>2. todo' = Record(Done) \/ todo' = Record(<<"dial">>) \/ todo' = <<"get">>
    BY <1>3 DEF Resolve, ResolvesNothing, Calls
  <2> QED BY <1>k, <1>p, <2>1, <2>2, Walk, WalkOpens DEF Singles, Bare, Opened
<1>4. CASE DialOk \/ DialFails \/ NoSocket \/ FirstOk \/ FirstFails
  <2>1. Place \in {"dial", "first"} /\ again' = again
    BY <1>4 DEF DialOk, DialFails, NoSocket, FirstOk, FirstFails, FirstSent, openVars
  <2>2. \/ todo' = Done \/ todo' = Close(<<"get">>)
        \/ \E p \in {"first", "loop"} : todo' = <<p>>
    BY <1>4 DEF DialOk, DialFails, AfterDialFails, NoSocket, FirstOk, FirstFails, FirstSent, Done
  <2> QED BY <1>k, <1>p, <2>1, <2>2, Walk, WalkCloses DEF Singles, Bare
<1>5. CASE Connected
  <2>1. /\ Place = "get" /\ again' = again
        /\ IF again THEN todo' = <<"head">>
                    ELSE \E p \in Opened : todo' = Record(<<p>>)
    BY <1>5 DEF Connected, Opened
  <2> QED BY <1>k, <1>p, <2>1, Walk, WalkOpens DEF Singles, Bare
<1>6. CASE AttemptFails
  <2>1. /\ Place = "get" /\ again' = again
        /\ \/ todo' = todo
           \/ again /\ todo' = Done
           \/ ~again /\ todo' = <<"done">>
    BY <1>6 DEF AttemptFails
  <2>2. CASE todo' = todo
    <3>1. Placed' /\ Place' # "close2"
      BY <1>k, <2>1, <2>2 DEF GInv, Placed, Place, KeepRecords
    <3> QED BY <1>k, <3>1, WalkKeeps
  <2> QED BY <1>k, <1>p, <2>1, <2>2, Walk, WalkCloses DEF Singles, Bare
<1>7. CASE Preread \/ PrereadsNothing \/ HeadSent
  <2>1. Place \in {"preread", "head"} /\ again' = again
    BY <1>7 DEF Preread, PrereadsNothing, HeadSent, TakesFirst, FirstSent, openVars
  <2>2. \E p \in {"head", "loop"} : todo' = <<p>>
    BY <1>7 DEF Preread, PrereadsNothing, HeadSent, FirstSent
  <2> QED BY <1>k, <1>p, <2>1, <2>2, Walk DEF Singles, Bare
<1>8. CASE HeadFails
  <2>1. Place = "head" /\ again' = TRUE /\ (todo' = Done \/ todo' = <<"get">>)
    BY <1>8 DEF HeadFails
  <2> QED BY <1>k, <1>p, <2>1, Walk, WalkCloses DEF Singles, Bare
<1> QED BY <1>1, <1>2, <1>3, <1>4, <1>5, <1>6, <1>7, <1>8 DEF Opening

\* The next place of a path that opens or closes a record.
LEMMA Onward ==
  ASSUME todo \in Paths, GoOn, Place \in {"start", "start2", "close", "close2"}
  PROVE  /\ todo' \in Paths
         /\ Place = "start" => Place' = "start2"
         /\ Place = "start2" => Place' \in Opened \cup {"close"}
         /\ todo = <<"close", "close2", "done">> => todo' = <<"close2", "done">>
         /\ Place = "close" => Place' = "close2"
         /\ todo = <<"close2", "done">> => Place' = "done"
         /\ Place = "close2" => Place' \in Closed
<1> DEFINE Goal ==
      /\ todo' \in Paths
      /\ Place = "start" => Place' = "start2"
      /\ Place = "start2" => Place' \in Opened \cup {"close"}
      /\ todo = <<"close", "close2", "done">> => todo' = <<"close2", "done">>
      /\ Place = "close" => Place' = "close2"
      /\ todo = <<"close2", "done">> => Place' = "done"
      /\ Place = "close2" => Place' \in Closed
<1>1. ASSUME NEW p \in Opened, todo = <<"start", "start2", p>> PROVE Goal
  <2>1. todo' = <<"start2", p>> /\ Place' = "start2" /\ Place = "start"
    BY <1>1 DEF GoOn, Place
  <2>2. todo' \in Paths
    BY <2>1 DEF Paths
  <2> QED BY <1>1, <2>1, <2>2 DEF Place
<1>2. ASSUME NEW p \in Opened, todo = <<"start2", p>> PROVE Goal
  <2>1. todo' = <<p>> /\ Place' = p /\ Place = "start2"
    BY <1>2 DEF GoOn, Place
  <2>2. todo' \in Paths
    BY <2>1 DEF Paths, Opened, Singles
  <2> QED BY <1>2, <2>1, <2>2 DEF Place
<1>3. ASSUME NEW p \in Closed, todo = <<"close", "close2", p>> PROVE Goal
  <2>1. todo' = <<"close2", p>> /\ Place' = "close2" /\ Place = "close"
    BY <1>3 DEF GoOn, Place
  <2>2. todo' \in Paths
    BY <2>1 DEF Paths
  <2> QED BY <1>3, <2>1, <2>2 DEF Place
<1>4. ASSUME NEW p \in Closed, todo = <<"close2", p>> PROVE Goal
  <2>1. todo' = <<p>> /\ Place' = p /\ Place = "close2"
    BY <1>4 DEF GoOn, Place
  <2>2. todo' \in Paths
    BY <2>1 DEF Paths, Closed, Singles
  <2> QED BY <1>4, <2>1, <2>2 DEF Place
<1>5. ASSUME todo = <<"start", "start2", "close", "close2", "done">> PROVE Goal
  <2>1. todo' = <<"start2", "close", "close2", "done">> /\ Place' = "start2" /\ Place = "start"
    BY <1>5 DEF GoOn, Place
  <2>2. todo' \in Paths
    BY <2>1 DEF Paths
  <2> QED BY <1>5, <2>1, <2>2 DEF Place
<1>6. ASSUME todo = <<"start2", "close", "close2", "done">> PROVE Goal
  <2>1. todo' = <<"close", "close2", "done">> /\ Place' = "close" /\ Place = "start2"
    BY <1>6 DEF GoOn, Place
  <2>2. todo' \in Paths
    BY <2>1 DEF Paths, Closed
  <2> QED BY <1>6, <2>1, <2>2 DEF Place
<1>7. ASSUME NEW p \in Singles, todo = <<p>> PROVE Goal
  <2>1. Place = p
    BY <1>7 DEF Place
  <2>2. FALSE
    BY <2>1 DEF Singles
  <2> QED BY <2>2
<1> HIDE DEF Goal
<1>8. Goal
  BY <1>1, <1>2, <1>3, <1>4, <1>5, <1>6, <1>7 DEF Paths
<1> QED BY <1>8 DEF Goal

\* A new record pushes out at most the oldest one.
LEMMA Recorded ==
  ASSUME recents \in Seq(Records), NEW id \in Nat \ {0}, StartRecent(id)
  PROVE  /\ recents' \in Seq(Records)
         /\ \A i \in DOMAIN recents' :
              recents'[i].id = id \/ \E j \in DOMAIN recents : recents'[i] = recents[j]
<1> DEFINE old == IF Len(recents) >= RecentCap THEN Front(recents) ELSE recents
           new == <<Entry(id, "Active")>>
<1>1. Len(recents) \in Nat /\ DOMAIN recents = 1..Len(recents) /\ \A j \in 1..Len(recents) : recents[j] \in Records
  BY LenProperties, ElementOfSeq
<1>2. Entry(id, "Active") \in Records /\ Entry(id, "Active").id = id
  BY DEF Entry, Records
<1>3. old \in Seq(Records) /\ \A j \in 1..Len(old) : \E k \in DOMAIN recents : old[j] = recents[k]
  <2>1. CASE Len(recents) >= RecentCap
    <3>1. /\ SubSeq(recents, 1, Len(recents) - 1) \in Seq(Records)
          /\ Len(SubSeq(recents, 1, Len(recents) - 1)) = IF 1 <= Len(recents) - 1 THEN Len(recents) - 1 - 1 + 1 ELSE 0
          /\ \A i \in 1..(Len(recents) - 1 - 1 + 1) : SubSeq(recents, 1, Len(recents) - 1)[i] = recents[1 + i - 1]
      BY <1>1, SubSeqProperties
    <3>2. old = SubSeq(recents, 1, Len(recents) - 1)
      BY <2>1 DEF Front
    <3>3. ASSUME NEW j \in 1..Len(old) PROVE j \in DOMAIN recents /\ old[j] = recents[j]
      BY <1>1, <3>1, <3>2
    <3> QED BY <3>1, <3>2, <3>3
  <2>2. CASE ~(Len(recents) >= RecentCap)
    BY <1>1, <2>2
  <2> QED BY <2>1, <2>2
<1>4. new \in Seq(Records) /\ Len(new) = 1 /\ new[1] = Entry(id, "Active")
  BY <1>2
<1>5. recents' = new \o old
  BY DEF StartRecent
<1> HIDE DEF old, new
<1>6. /\ new \o old \in Seq(Records) /\ Len(new \o old) = 1 + Len(old) /\ Len(old) \in Nat
      /\ \A i \in 1..(1 + Len(old)) : (new \o old)[i] = IF i <= 1 THEN new[i] ELSE old[i - 1]
  <2>1. Len(old) \in Nat
    BY <1>3, LenProperties
  <2>2. /\ new \o old \in Seq(Records) /\ Len(new \o old) = Len(new) + Len(old)
        /\ \A i \in 1..(Len(new) + Len(old)) :
             (new \o old)[i] = IF i <= Len(new) THEN new[i] ELSE old[i - Len(new)]
    BY ZenonT(40), <1>3, <1>4, ConcatProperties
  <2> QED BY <2>1, <2>2, <1>4
<1>7. ASSUME NEW i \in 1..(1 + Len(old))
      PROVE  (new \o old)[i].id = id \/ \E j \in DOMAIN recents : (new \o old)[i] = recents[j]
  <2>1. CASE i <= 1
    BY <1>2, <1>4, <1>6, <2>1
  <2>2. CASE i > 1
    <3>1. i - 1 \in 1..Len(old) /\ (new \o old)[i] = old[i - 1]
      BY <1>6, <2>2
    <3> QED BY <1>3, <3>1
  <2> QED BY <1>6, <2>1, <2>2
<1>8. DOMAIN (new \o old) = 1..(1 + Len(old))
  BY <1>6, LenProperties
<1> QED BY <1>5, <1>6, <1>7, <1>8

\* The records are opened and closed in two steps each.
LEMMA RecordingKeeps ==
  ASSUME GInv, Recording
  PROVE  GInv'
<1>g. GoOn /\ again' = again
  BY DEF Recording, StartFirst, StartSecond, CloseFirst, CloseSecond, openVars
<1>p. Place \in {"start", "start2", "close", "close2"}
  BY DEF Recording, StartFirst, StartSecond, CloseFirst, CloseSecond
<1>i. todo \in Paths /\ nextId \in Nat \ {0} /\ own \in 0..(nextId - 1) /\ recents \in Seq(Records)
  BY DEF GInv, MonitorTypes, Placed
<1>o. /\ todo' \in Paths
      /\ Place = "start" => Place' = "start2"
      /\ Place = "start2" => Place' \in Opened \cup {"close"}
      /\ todo = <<"close", "close2", "done">> => todo' = <<"close2", "done">>
      /\ Place = "close" => Place' = "close2"
      /\ todo = <<"close2", "done">> => Place' = "done"
      /\ Place = "close2" => Place' \in Closed
  BY <1>g, <1>p, <1>i, Onward
<1>r. \A i \in DOMAIN recents : recents[i].id \in Nat \ {0}
  <2>1. DOMAIN recents = 1..Len(recents)
    BY <1>i, LenProperties
  <2>2. \A i \in DOMAIN recents : recents[i] \in Records
    BY <1>i, <2>1, ElementOfSeq
  <2> QED BY <2>2 DEF Records
<1>h. /\ todo = <<"close", "close2", "done">> => Place = "close"
      /\ todo = <<"close2", "done">> => Place = "close2"
  BY DEF Place
<1>a. /\ Place \in {"start", "start2"} => ~again
      /\ Place = "close" /\ again => todo = <<"close", "close2", "done">>
      /\ Place = "close2" /\ again => todo = <<"close2", "done">>
  BY <1>h DEF GInv, Placed
<1>z. own = 0 <=> Place = "start"
  BY <1>p DEF GInv, Placed, Bare
<1>q. /\ Place = "close2" /\ again => Place' = "done"
      /\ Place = "close" /\ again => todo' = <<"close2", "done">>
  BY <1>a, <1>o
<1>1. CASE StartFirst
  <2>1. Place = "start" /\ live' = live \cup {nextId} /\ nextId' = nextId + 1 /\ recents' = recents /\ own' = nextId
    BY <1>1 DEF StartFirst, StartLive
  <2>2. MonitorTypes'
    BY <1>i, <2>1 DEF MonitorTypes
  <2>3. Placed'
    BY <1>z, <1>a, <1>g, <1>i, <1>o, <2>1 DEF Placed, Bare
  <2>4. OwnOnly'
    BY <1>z, <1>a, <1>i, <1>o, <1>r, <2>1 DEF GInv, OwnOnly
  <2> QED BY <2>2, <2>3, <2>4 DEF GInv
<1>2. CASE StartSecond
  <2>1. Place = "start2" /\ UNCHANGED <<live, nextId, own>> /\ StartRecent(own)
    BY <1>2 DEF StartSecond, StartRecent
  <2>2. own \in Nat \ {0}
    BY <1>z, <1>a, <1>i, <2>1
  <2>3. /\ recents' \in Seq(Records)
        /\ \A i \in DOMAIN recents' :
              recents'[i].id = own \/ \E j \in DOMAIN recents : recents'[i] = recents[j]
    BY <1>i, <2>1, <2>2, Recorded
  <2>4. MonitorTypes'
    BY <1>i, <2>1, <2>3 DEF MonitorTypes
  <2>5. Placed'
    BY <1>z, <1>a, <1>g, <1>o, <2>1, <2>2 DEF Placed, Bare, Opened
  <2>6. OwnOnly'
    BY <1>o, <2>1, <2>3 DEF GInv, OwnOnly, Opened
  <2> QED BY <2>4, <2>5, <2>6 DEF GInv
<1>3. CASE CloseFirst
  <2>1. Place = "close" /\ live' = live \ {own} /\ UNCHANGED <<recents, nextId, own>>
    BY <1>3 DEF CloseFirst, CloseLive
  <2>2. MonitorTypes'
    BY <1>i, <2>1 DEF MonitorTypes
  <2>3. Placed'
    BY <1>z, <1>a, <1>g, <1>o, <1>q, <2>1 DEF Placed, Bare
  <2>4. OwnOnly'
    BY <2>1 DEF GInv, OwnOnly
  <2> QED BY <2>2, <2>3, <2>4 DEF GInv
<1>4. CASE CloseSecond
  <2>1. /\ Place = "close2" /\ own' = 0 /\ UNCHANGED <<live, nextId>>
        /\ recents' = [i \in DOMAIN recents |->
                         IF recents[i].id = own THEN Entry(own, "Closed") ELSE recents[i]]
    BY <1>4 DEF CloseSecond, CloseRecent
  <2>2. own \in Nat \ {0} /\ Entry(own, "Closed") \in Records
    BY <1>z, <1>i, <2>1 DEF Entry, Records
  <2>3. recents' \in Seq(Records)
    <3> DEFINE n == Len(recents)
    <3>1. n \in Nat /\ DOMAIN recents = 1..n
      BY <1>i, LenProperties
    <3>2. ASSUME NEW i \in 1..n PROVE recents[i] \in Records
      BY <1>i, <3>1, ElementOfSeq
    <3> HIDE DEF n
    <3>3. recents' \in [1..n -> Records]
      BY <2>1, <2>2, <3>1, <3>2
    <3> QED BY <3>1, <3>3, SeqDef
  <2>4. MonitorTypes'
    BY <1>i, <2>1, <2>3 DEF MonitorTypes
  <2>5. Placed'
    BY <1>g, <1>a, <1>o, <1>q, <2>1 DEF Placed, Bare, Closed
  <2>6. live = {}
    BY <2>1 DEF GInv, OwnOnly
  <2>7. \A i \in DOMAIN recents' : recents'[i].status # "Active"
    BY <1>i, <2>1 DEF GInv, OwnOnly, Entry
  <2>8. OwnOnly'
    BY <2>1, <2>6, <2>7 DEF OwnOnly
  <2> QED BY <2>4, <2>5, <2>8 DEF GInv
<1> QED BY <1>1, <1>2, <1>3, <1>4 DEF Recording

\* A reset only forgets records; the loop and a cut leave them alone.
LEMMA StepG == GInv /\ [Next]_vars => GInv'
<1> SUFFICES ASSUME GInv, [Next]_vars PROVE GInv'
  OBVIOUS
<1>1. CASE LoopUp \/ LoopDown \/ LoopTimeout \/ CloseConnection \/ UNCHANGED vars
  <2>1. UNCHANGED <<monitorVars, todo, own, again>>
    BY <1>1 DEF LoopUp, LoopDown, LoopTimeout, CloseConnection, vars, openVars
  <2> QED BY <2>1 DEF GInv, MonitorTypes, Placed, OwnOnly, Place, monitorVars
<1>2. CASE LoopOver
  <2>1. Place = "loop" /\ todo' = Done /\ UNCHANGED <<monitorVars, own, again>>
    BY <1>2 DEF LoopOver, Go, openVars
  <2>2. Place' = "close" /\ todo' \in Paths
    BY <2>1, Spelled DEF Place, Paths, Closed
  <2>3. Placed'
    BY <2>1, <2>2, Spelled DEF GInv, Placed, Bare
  <2> QED BY <2>1, <2>2, <2>3 DEF GInv, MonitorTypes, OwnOnly, monitorVars
<1>3. CASE Reset
  <2>1. /\ UNCHANGED <<todo, own, again, nextId>>
        /\ live' \in {live, {}} /\ recents' \in {recents, <<>>}
    BY <1>3 DEF Reset, ResetLive, ResetRecent, openVars
  <2>2. recents' \in Seq(Records) /\ \A i \in DOMAIN recents' : i \in DOMAIN recents /\ recents'[i] = recents[i]
    <3>1. recents \in Seq(Records)
      BY DEF GInv, MonitorTypes
    <3>2. <<>> \in Seq(Records) /\ DOMAIN <<>> = {}
      OBVIOUS
    <3> QED BY <2>1, <3>1, <3>2
  <2>3. MonitorTypes' /\ Placed'
    BY <2>1, <2>2 DEF GInv, MonitorTypes, Placed, Place
  <2>4. OwnOnly'
    BY <2>1, <2>2 DEF GInv, OwnOnly, Place
  <2> QED BY <2>3, <2>4 DEF GInv
<1> QED BY <1>1, <1>2, <1>3, OpeningKeeps, RecordingKeeps DEF Next

\* Whatever way relay_tcp goes, its connection has one open record at a time,
\* and none is live or Active once the task has closed it, through resets too.
THEOREM NoGhostsLeft == Spec => []NoGhosts
<1>1. GInv => NoGhosts
  <2> SUFFICES ASSUME GInv, NEW id \in 1..(nextId - 1), Ghost(id)
               PROVE  id = own /\ Place \notin {"wait", "sniff", "route", "resolve", "done"}
    BY DEF NoGhosts
  <2>1. id = own /\ id # 0
    BY DEF Ghost, GInv, MonitorTypes, OwnOnly, Entry
  <2> QED BY <2>1 DEF GInv, Placed, Bare
<1> QED BY <1>1, InitG, StepG, PTL DEF Spec

-----------------------------------------------------------------------------
(* Bytes. *)

Count(n) == [i \in 1..n |-> i]

LoopTypes ==
  /\ how \in {"none", "tunnel", "direct"} /\ taken \in Nat /\ pos \in Nat
  /\ up \in {"read", "send", "notify", "end"} /\ down \in {"read", "body", "write", "end"}
  /\ got \in Seq(Nat)

\* Where the loop has run the connection is in it or closes.
Stage ==
  IF how = "none" THEN Place # "loop"
  ELSE Place \in {"loop", "done"} \/ todo \in {<<"close", "close2", "done">>, <<"close2", "done">>}

\* Before the loop, what was read is in head, and where a first read may come
\* nothing was read.
HeadInv ==
  how = "none" =>
    /\ sent = <<>> /\ held = <<>> /\ head = Count(taken)
    /\ Place \in {"wait", "sniff"} \/ Last(todo) = "preread" => head = <<>>

\* In the loop, all that was read is sent or held.
SendInv ==
  Place = "loop" =>
    /\ head = <<>>
    /\ up \in {"read", "notify"} => held = <<>> /\ sent = Count(taken)
    /\ up = "send" => taken > 0 /\ held = <<taken>> /\ sent = Count(taken - 1)

\* What was read and not yet written is the end of what was read.
DownInv ==
  /\ how = "none" => pos = 0 /\ got = <<>>
  /\ pend = IF down # "write" THEN <<>> ELSE IF Len(pend) = 1 THEN <<pos>> ELSE <<pos - 1, pos>>
  /\ Len(pend) <= pos
  /\ down = "body" => how = "tunnel" /\ pos > 0

WrittenInv ==
  /\ \A i, j \in DOMAIN got : i < j => got[i] < got[j]
  /\ \A i \in DOMAIN got : got[i] <= pos - Len(pend) /\ (down = "body" => got[i] < pos)
  /\ how = "direct" /\ down # "end" => got = Count(pos - Len(pend))

BInv == LoopTypes /\ Stage /\ HeadInv /\ SendInv /\ DownInv /\ WrittenInv

\* Counting.
LEMMA Counting ==
  /\ Count(0) = <<>> /\ Count(1) = <<1>>
  /\ \A n \in Nat : Count(n) \in Seq(Nat) /\ Len(Count(n)) = n /\ (Count(n) = <<>> => n = 0)
<1>1. ASSUME NEW n \in Nat PROVE Count(n) \in Seq(Nat) /\ Len(Count(n)) = n /\ (Count(n) = <<>> => n = 0)
  <2>1. Count(n) \in Seq(Nat) /\ Len(Count(n)) = n
    BY DEF Count
  <2> QED BY <2>1
<1>2. Count(0) = <<>>
  BY DEF Count
<1>3. Count(1) = <<1>>
  <2>1. Count(1) \in Seq(Nat) /\ <<1>> \in Seq(Nat) /\ Len(Count(1)) = 1 /\ Len(<<1>>) = 1
    <3>1. 1 \in Nat
      OBVIOUS
    <3>2. Count(1) \in Seq(Nat) /\ Len(Count(1)) = 1
      BY <1>1, <3>1
    <3> QED BY <3>2
  <2>2. \A i \in 1..Len(Count(1)) : Count(1)[i] = <<1>>[i]
    <3>1. \A i \in 1..1 : i = 1
      OBVIOUS
    <3>2. Count(1)[1] = 1 /\ <<1>>[1] = 1
      BY DEF Count
    <3> QED BY <2>1, <3>1, <3>2
  <2> QED BY <2>1, <2>2, SeqEqual
<1> QED BY <1>1, <1>2, <1>3

\* One more.
LEMMA CountOn ==
  ASSUME NEW n \in Nat
  PROVE  Count(n) \o <<n + 1>> = Count(n + 1)
<1>1. /\ Count(n) \in Seq(Nat) /\ Count(n + 1) \in Seq(Nat) /\ <<n + 1>> \in Seq(Nat)
      /\ Len(Count(n)) = n /\ Len(Count(n + 1)) = n + 1 /\ Len(<<n + 1>>) = 1
  BY Counting
<1>2. \A i \in 1..Len(Count(n)) : Count(n + 1)[i] = Count(n)[i]
  BY <1>1 DEF Count
<1>3. \A i \in 1..Len(<<n + 1>>) : Count(n + 1)[Len(Count(n)) + i] = <<n + 1>>[i]
  BY <1>1 DEF Count
<1>4. Len(Count(n + 1)) = Len(Count(n)) + Len(<<n + 1>>)
  BY <1>1
<1> QED BY <1>1, <1>2, <1>3, <1>4, Joined

\* The invariant says what BytesInOrder asks for.
LEMMA BytesFollow == GInv /\ BInv => BytesInOrder
<1> SUFFICES ASSUME GInv, BInv PROVE UploadWhole /\ DownGrows
  BY DEF BytesInOrder
<1>1. ASSUME Place = "loop" => up # "end", Place \notin {"close", "close2", "done"}
      PROVE  sent \o head \o held = Count(taken)
  <2>1. CASE how = "none"
    <3>1. sent = <<>> /\ held = <<>> /\ head = Count(taken) /\ Count(taken) \in Seq(Nat)
      BY <2>1, Counting DEF BInv, HeadInv, LoopTypes
    <3> QED BY <3>1
  <2>2. CASE how # "none"
    <3>1. Place = "loop"
      BY <1>1, <2>2 DEF BInv, Stage, Place
    <3>2. CASE up \in {"read", "notify"}
      <4>1. head = <<>> /\ held = <<>> /\ sent = Count(taken) /\ sent \in Seq(Nat)
        BY <3>1, <3>2, Counting DEF BInv, SendInv, LoopTypes
      <4> QED BY <4>1
    <3>3. CASE up = "send"
      <4>1. /\ head = <<>> /\ held = <<taken>> /\ sent = Count(taken - 1)
            /\ taken - 1 \in Nat /\ sent \in Seq(Nat) /\ taken = (taken - 1) + 1
        BY <3>1, <3>3, Counting DEF BInv, SendInv, LoopTypes
      <4>2. Count(taken - 1) \o <<(taken - 1) + 1>> = Count((taken - 1) + 1)
        BY <4>1, CountOn
      <4>3. sent \o head = sent
        BY <4>1
      <4> QED BY <4>1, <4>2, <4>3
    <3> QED BY <1>1, <3>1, <3>2, <3>3 DEF BInv, LoopTypes
  <2> QED BY <2>1, <2>2
<1>2. UploadWhole
  BY <1>1 DEF UploadWhole, Count
<1>3. ASSUME how = "direct", down # "end" PROVE got \o pend = Count(pos)
  <2>1. got = Count(pos - Len(pend)) /\ pos \in Nat /\ Len(pend) <= pos
    BY <1>3 DEF BInv, WrittenInv, DownInv, LoopTypes
  <2>2. CASE down # "write"
    <3>1. pend = <<>> /\ Len(pend) = 0 /\ got \in Seq(Nat)
      BY <2>2 DEF BInv, DownInv, LoopTypes
    <3>2. pos - Len(pend) = pos
      BY <2>1, <3>1
    <3> QED BY <2>1, <3>1, <3>2
  <2>3. CASE down = "write" /\ pend = <<pos>>
    <3>1. Len(pend) = 1 /\ pos - 1 \in Nat /\ (pos - 1) + 1 = pos
      BY <2>1, <2>3
    <3> QED BY <2>1, <2>3, <3>1, CountOn
  <2>4. CASE down = "write" /\ pend = <<pos - 1, pos>>
    <3>1. Len(pend) = 2 /\ pos - 2 \in Nat /\ (pos - 2) + 1 = pos - 1 /\ (pos - 1) + 1 = pos
          /\ pos - 1 \in Nat
      BY <2>1, <2>4
    <3>2. Count(pos - 2) \o <<pos - 1>> = Count(pos - 1) /\ Count(pos - 1) \o <<pos>> = Count(pos)
      BY <3>1, CountOn
    <3>3. Count(pos - 2) \in Seq(Nat) /\ <<pos - 1>> \in Seq(Nat) /\ <<pos>> \in Seq(Nat)
      BY <2>1, <3>1, Counting
    <3>4. <<pos - 1>> \o <<pos>> = <<pos - 1, pos>>
      BY OneOne
    <3>5. (Count(pos - 2) \o <<pos - 1>>) \o <<pos>> = Count(pos - 2) \o (<<pos - 1>> \o <<pos>>)
      BY <3>3, ConcatAssociative
    <3> QED BY <2>1, <2>4, <3>1, <3>2, <3>4, <3>5
  <2> QED BY <2>2, <2>3, <2>4 DEF BInv, DownInv
<1>4. DownGrows
  BY <1>3 DEF BInv, WrittenInv, DownGrows, Count
<1> QED BY <1>2, <1>4

\* Initially nothing was read.
LEMMA InitB == Init => BInv
<1> SUFFICES ASSUME Init PROVE BInv
  OBVIOUS
<1>1. /\ todo = <<"wait">> /\ head = <<>> /\ how = "none" /\ up = "end" /\ down = "end" /\ taken = 0
      /\ held = <<>> /\ sent = <<>> /\ pos = 0 /\ pend = <<>> /\ got = <<>>
  BY DEF Init, LoopInit
<1>2. Place = "wait" /\ Len(pend) = 0 /\ DOMAIN got = {} /\ got \in Seq(Nat)
  BY <1>1 DEF Place
<1>3. LoopTypes /\ Stage
  BY <1>1, <1>2 DEF LoopTypes, Stage
<1>4. HeadInv /\ SendInv
  BY <1>1, <1>2, Counting DEF HeadInv, SendInv
<1>5. DownInv /\ WrittenInv
  BY <1>1, <1>2 DEF DownInv, WrittenInv
<1> QED BY <1>3, <1>4, <1>5 DEF BInv

\* Where a path is bound for does not change on the way.
LEMMA SameEnd ==
  ASSUME todo \in Paths, GoOn, Place \in {"start", "start2", "close", "close2"}
  PROVE  Last(todo') = Last(todo) /\ Place' \notin {"wait", "sniff", "loop"}
<1> USE DEF GoOn, Place, Last
<1>1. ASSUME NEW p \in Opened, todo = <<"start", "start2", p>>
      PROVE  Last(todo') = Last(todo) /\ Place' = "start2"
  BY <1>1
<1>2. ASSUME NEW p \in Opened, todo = <<"start2", p>>
      PROVE  Last(todo') = Last(todo) /\ Place' \in Opened
  BY <1>2
<1>3. ASSUME NEW p \in Closed, todo = <<"close", "close2", p>>
      PROVE  Last(todo') = Last(todo) /\ Place' = "close2"
  BY <1>3
<1>4. ASSUME NEW p \in Closed, todo = <<"close2", p>>
      PROVE  Last(todo') = Last(todo) /\ Place' \in Closed
  BY <1>4
<1>5. ASSUME todo = <<"start", "start2", "close", "close2", "done">>
      PROVE  Last(todo') = Last(todo) /\ Place' = "start2"
  BY <1>5
<1>6. ASSUME todo = <<"start2", "close", "close2", "done">>
      PROVE  Last(todo') = Last(todo) /\ Place' = "close"
  BY <1>6
<1>7. ASSUME NEW p \in Singles, todo = <<p>> PROVE FALSE
  <2>1. Place = p
    BY <1>7
  <2> QED BY <2>1 DEF Singles
<1>8. Last(todo') = Last(todo) /\ Place' \in {"start2", "close", "close2"} \cup Opened \cup Closed
  BY <1>1, <1>2, <1>3, <1>4, <1>5, <1>6, <1>7 DEF Paths
<1> QED BY <1>8 DEF Opened, Closed

\* The last place of a path that was just taken.
LEMMA Bound ==
  /\ \A p : Last(<<p>>) = p
  /\ Last(Done) = "done" /\ Last(Record(Done)) = "done"
  /\ \A p : Last(Record(<<p>>)) = p /\ Last(Close(<<p>>)) = p
<1>1. \A p : Last(<<p>>) = p
  BY DEF Last
<1>2. Last(Done) = "done"
  BY Spelled DEF Last
<1>3. Last(Record(Done)) = "done"
  BY Spelled DEF Last
<1>4. ASSUME NEW p PROVE Last(Record(<<p>>)) = p
  <2>1. Record(<<p>>) = <<"start", "start2", p>>
    BY Spelled
  <2>2. Last(<<"start", "start2", p>>) = p
    BY DEF Last
  <2> QED BY <2>1, <2>2
<1>5. ASSUME NEW p PROVE Last(Close(<<p>>)) = p
  <2>1. Close(<<p>>) = <<"close", "close2", p>>
    BY Spelled
  <2> QED BY SMTT(30), <2>1 DEF Last
<1> QED BY <1>1, <1>2, <1>3, <1>4, <1>5

\* Its first place.
LEMMA From ==
  /\ \A p : Head(<<p>>) = p
  /\ Head(Done) = "close" /\ Head(Record(Done)) = "start"
  /\ \A p : Head(Record(<<p>>)) = "start" /\ Head(Close(<<p>>)) = "close"
<1>1. \A p : Head(<<p>>) = p
  OBVIOUS
<1>2. Head(Done) = "close"
  BY Spelled
<1>3. Head(Record(Done)) = "start"
  BY Spelled
<1>4. ASSUME NEW p PROVE Head(Record(<<p>>)) = "start"
  <2>1. Record(<<p>>) = <<"start", "start2", p>>
    BY Spelled
  <2>2. Head(<<"start", "start2", p>>) = "start"
    OBVIOUS
  <2> QED BY <2>1, <2>2
<1>5. ASSUME NEW p PROVE Head(Close(<<p>>)) = "close"
  <2>1. Close(<<p>>) = <<"close", "close2", p>>
    BY Spelled
  <2>2. Head(<<"close", "close2", p>>) = "close"
    OBVIOUS
  <2> QED BY <2>1, <2>2
<1> QED BY <1>1, <1>2, <1>3, <1>4, <1>5

\* Steps that read and write nothing, before the loop.
LEMMA Still ==
  ASSUME BInv, UNCHANGED <<loopVars, head>>, how = "none", Place' # "loop",
         Place' \in {"wait", "sniff"} \/ Last(todo') = "preread" => head = <<>>
  PROVE  BInv'
<1>1. UNCHANGED <<how, up, taken, held, sent, down, pos, pend, got>>
  BY DEF loopVars, upVars, downVars
<1>2. LoopTypes' /\ DownInv' /\ WrittenInv'
  BY <1>1 DEF BInv, LoopTypes, DownInv, WrittenInv
<1>3. Stage' /\ SendInv'
  BY <1>1 DEF Stage, SendInv
<1>4. HeadInv'
  BY <1>1 DEF BInv, HeadInv
<1> QED BY <1>2, <1>3, <1>4 DEF BInv

\* A first read.
LEMMA First ==
  ASSUME BInv, TakesFirst, how = "none", head = <<>>, NEW p \in {"route", "head"}, todo' = <<p>>
  PROVE  BInv'
<1>1. taken = 0 /\ taken' = 1 /\ head' = <<1>>
  <2>1. head = Count(taken) /\ taken \in Nat
    BY DEF BInv, HeadInv, LoopTypes
  <2>2. taken = 0
    BY <2>1, Counting
  <2> QED BY <2>2 DEF TakesFirst
<1>2. UNCHANGED <<how, up, held, sent, down, pos, pend, got>>
  BY DEF TakesFirst, downVars
<1>3. Place' = p /\ Last(todo') = p
  BY Bound DEF Place
<1>4. LoopTypes' /\ DownInv' /\ WrittenInv'
  BY <1>1, <1>2 DEF BInv, LoopTypes, DownInv, WrittenInv
<1>5. Stage' /\ SendInv'
  BY <1>2, <1>3 DEF Stage, SendInv
<1>6. HeadInv'
  BY <1>1, <1>2, <1>3, Counting DEF BInv, HeadInv
<1> QED BY <1>4, <1>5, <1>6 DEF BInv

\* The loop begins, with everything read so far sent.
LEMMA Begins ==
  ASSUME BInv, how = "none", NEW kind \in {"tunnel", "direct"}, Starts(kind),
         UNCHANGED <<taken, held, pos, pend, got>>,
         todo' = <<"loop">>, head' = <<>>,
         sent' = Count(taken)
  PROVE  BInv'
<1>1. how' = kind /\ up' = "read" /\ down' = "read"
  BY DEF Starts
<1>2. pos = 0 /\ got = <<>> /\ held = <<>> /\ Len(pend) <= pos
  BY DEF BInv, HeadInv, DownInv
<1>3. pend = <<>> /\ Len(pend) = 0 /\ DOMAIN got = {}
  <2>1. pend = <<>>
    BY <1>2 DEF BInv, DownInv
  <2> QED BY <1>2, <2>1
<1>4. Place' = "loop"
  BY DEF Place
<1>5. LoopTypes' /\ Stage'
  BY <1>1, <1>4 DEF BInv, LoopTypes, Stage
<1>6. HeadInv' /\ SendInv'
  BY <1>1, <1>2 DEF HeadInv, SendInv
<1>7. DownInv'
  BY <1>1, <1>2, <1>3 DEF DownInv
<1>8. WrittenInv'
  BY <1>1, <1>2, <1>3, Counting DEF WrittenInv
<1> QED BY <1>5, <1>6, <1>7, <1>8 DEF BInv

\* The steps before the loop, and the one that begins it.
LEMMA OpeningBytes ==
  ASSUME GInv, BInv, Opening
  PROVE  BInv'
<1> USE DEF Go
<1>s. /\ Place # "loop" /\ Place \notin {"close", "close2", "done"} => how = "none"
      /\ Place \in {"wait", "sniff"} => head = <<>>
  BY DEF BInv, Stage, HeadInv, Place
<1>l. Place = "preread" => Last(todo) = "preread"
  <2>1. ASSUME NEW p \in Singles, todo = <<p>>, Place = "preread" PROVE Last(todo) = "preread"
    BY <2>1 DEF Last, Place
  <2>2. Place = "preread" => \E p \in Singles : todo = <<p>>
    BY DEF GInv, Placed, Paths, Place
  <2> QED BY <2>1, <2>2
<1>h. how = "none" => head = Count(taken) /\ sent = <<>> /\ held = <<>> /\ taken \in Nat
  BY DEF BInv, HeadInv, LoopTypes
<1>1. CASE Establish \/ NeverEstablished \/ SniffsNothing
  <2>1. Place \in {"wait", "sniff"} /\ UNCHANGED <<loopVars, head>>
    BY <1>1 DEF Establish, NeverEstablished, SniffsNothing, openVars
  <2>2. PICK p \in {"sniff", "route", "done"} : todo' = <<p>>
    BY <1>1 DEF Establish, NeverEstablished, SniffsNothing
  <2>3. Place' = p /\ Last(todo') = p
    BY <2>2, Bound DEF Place
  <2> QED BY <1>s, <2>1, <2>3, Still
<1>2. CASE Sniff
  <2>1. Place = "sniff" /\ todo' = <<"route">> /\ TakesFirst
    BY <1>2 DEF Sniff
  <2> QED BY <1>s, <2>1, First
<1>3. CASE Route \/ Resolve \/ ResolvesNothing \/ DialFails \/ NoSocket \/ FirstFails
  <2>1. Place \in {"route", "resolve", "resolve default", "dial", "first"} /\ UNCHANGED <<loopVars, head>>
    BY <1>3 DEF Route, Resolve, ResolvesNothing, DialFails, NoSocket, FirstFails, openVars
  <2>2. \/ todo' \in {Record(Done), Record(<<"dial">>), Done, Close(<<"get">>)}
        \/ \E p \in {"get", "done", "resolve", "resolve default"} : todo' = <<p>>
    BY <1>3 DEF Route, Resolve, ResolvesNothing, Calls, DialFails, AfterDialFails, NoSocket, FirstFails, Done
  <2>3. Place' \notin {"loop", "wait", "sniff"}
    BY <2>2, From DEF Place
  <2>4. Last(todo') # "preread"
    BY <2>2, Bound
  <2> QED BY <1>s, <2>1, <2>3, <2>4, Still
<1>4. CASE DialOk
  <2>1. Place = "dial" /\ head' = head
    BY <1>4 DEF DialOk, openVars
  <2>2. CASE head # <<>>
    <3>1. todo' = <<"first">> /\ UNCHANGED loopVars
      BY <1>4, <2>2 DEF DialOk
    <3>2. Place' = "first" /\ Last(todo') = "first"
      BY <3>1, Bound DEF Place
    <3> QED BY <1>s, <2>1, <3>1, <3>2, Still
  <2>3. CASE head = <<>>
    <3>1. todo' = <<"loop">> /\ Starts("direct") /\ UNCHANGED <<taken, held, sent, pos, pend, got>>
      BY <1>4, <2>3 DEF DialOk
    <3>2. sent' = Count(taken) /\ how = "none"
      BY <1>h, <1>s, <2>1, <2>3, <3>1
    <3> QED BY <2>1, <2>3, <3>1, <3>2, Begins
  <2> QED BY <2>2, <2>3
<1>5. ASSUME NEW kind \in {"tunnel", "direct"}, FirstSent(kind), Place \in {"first", "head"}
      PROVE  BInv'
  <2>1. /\ todo' = <<"loop">> /\ Starts(kind) /\ sent' = head /\ head' = <<>>
        /\ UNCHANGED <<taken, held, pos, pend, got>>
    BY <1>5 DEF FirstSent
  <2>2. sent' = Count(taken) /\ how = "none"
    BY <1>h, <1>s, <1>5, <2>1
  <2> QED BY <2>1, <2>2, Begins
<1>6. CASE FirstOk \/ HeadSent
  BY <1>5, <1>6 DEF FirstOk, HeadSent
<1>7. CASE Connected
  <2>1. Place = "get" /\ UNCHANGED <<loopVars, head>>
    BY <1>7 DEF Connected
  <2>2. \/ todo' \in {<<"head">>, Record(<<"head">>)}
        \/ todo' = Record(<<"preread">>) /\ head = <<>>
    BY <1>7 DEF Connected
  <2>3. /\ Place' \notin {"loop", "wait", "sniff"}
        /\ Last(todo') = "preread" => head = <<>>
    BY <2>2, Spelled, Bound DEF Place
  <2> QED BY <1>s, <2>1, <2>3, Still
<1>8. CASE AttemptFails
  <2>1. Place = "get" /\ UNCHANGED <<loopVars, head>>
    BY <1>8 DEF AttemptFails
  <2>2. todo' \in {todo, Done, <<"done">>}
    BY <1>8 DEF AttemptFails
  <2>3. Place' \notin {"loop", "wait", "sniff"}
    BY <2>1, <2>2, Spelled DEF Place
  <2>4. Last(todo') = "preread" => head = <<>>
    BY <1>s, <2>1, <2>2, Bound DEF BInv, HeadInv
  <2> QED BY <1>s, <2>1, <2>3, <2>4, Still
<1>9. CASE Preread
  <2>1. Place = "preread" /\ todo' = <<"head">> /\ TakesFirst
    BY <1>9 DEF Preread
  <2>2. how = "none" /\ head = <<>>
    BY <1>l, <1>s, <2>1 DEF BInv, HeadInv
  <2> QED BY <2>1, <2>2, First
<1>10. CASE PrereadsNothing
  <2>1. /\ Place = "preread" /\ todo' = <<"loop">> /\ Starts("tunnel")
        /\ UNCHANGED <<taken, held, sent, pos, pend, got, head>>
    BY <1>10 DEF PrereadsNothing, openVars
  <2>2. how = "none" /\ head = <<>>
    BY <1>l, <1>s, <2>1 DEF BInv, HeadInv
  <2>3. sent' = Count(taken)
    BY <1>h, <2>1, <2>2
  <2> QED BY <2>1, <2>2, <2>3, Begins
<1>11. CASE HeadFails
  <2>1. Place = "head" /\ UNCHANGED <<loopVars, head>> /\ todo' \in {Done, <<"get">>}
    BY <1>11 DEF HeadFails, HeadKept
  <2>2. Place' \notin {"loop", "wait", "sniff"} /\ Last(todo') # "preread"
    BY <2>1, Spelled, Bound DEF Place
  <2> QED BY <1>s, <2>1, <2>2, Still
<1> QED BY <1>1, <1>2, <1>3, <1>4, <1>6, <1>7, <1>8, <1>9, <1>10, <1>11 DEF Opening

\* The records are opened and closed outside the loop.
LEMMA RecordingBytes ==
  ASSUME GInv, BInv, Recording
  PROVE  BInv'
<1>1. GoOn /\ UNCHANGED <<loopVars, head>> /\ Place \in {"start", "start2", "close", "close2"}
  BY DEF Recording, StartFirst, StartSecond, CloseFirst, CloseSecond, openVars
<1>2. Last(todo') = Last(todo) /\ Place' \notin {"wait", "sniff", "loop"}
  BY <1>1, SameEnd DEF GInv, Placed
<1>3. CASE how = "none"
  <2>1. Last(todo) = "preread" => head = <<>>
    BY <1>3 DEF BInv, HeadInv
  <2> QED BY <1>1, <1>2, <1>3, <2>1, Still
<1>4. CASE how # "none"
  <2>1. UNCHANGED <<how, up, taken, held, sent, down, pos, pend, got>>
    BY <1>1 DEF loopVars, upVars, downVars
  <2>2. todo \in {<<"close", "close2", "done">>, <<"close2", "done">>}
    BY <1>1, <1>4 DEF BInv, Stage
  <2>3. Stage'
    BY <1>1, <1>4, <2>1, <2>2, Onward DEF Stage, GInv, Placed
  <2>4. HeadInv' /\ SendInv'
    BY <1>2, <1>4, <2>1 DEF HeadInv, SendInv
  <2>5. LoopTypes' /\ DownInv' /\ WrittenInv'
    BY <2>1 DEF BInv, LoopTypes, DownInv, WrittenInv
  <2> QED BY <2>3, <2>4, <2>5 DEF BInv
<1> QED BY <1>3, <1>4

\* A step of the loop: the place and the head stay.
LEMMA InLoop ==
  ASSUME BInv, Place = "loop", UNCHANGED <<todo, head>>, LoopTypes', SendInv', DownInv', WrittenInv',
         how' = how
  PROVE  BInv'
<1>1. how # "none" /\ Place' = "loop"
  BY DEF BInv, Stage, Place
<1> QED BY <1>1 DEF BInv, Stage, HeadInv

\* Steps of the upload.
LEMMA UpBytes ==
  ASSUME BInv, Place = "loop", UNCHANGED <<todo, head>>, UpStep
  PROVE  BInv'
<1>1. UNCHANGED <<how, down, pos, pend, got>>
  BY DEF UpStep, UpRead, UpSend, UpSendFails, UpEof, UpTimeout, UpNotified, downVars
<1>2. DownInv' /\ WrittenInv'
  BY <1>1 DEF BInv, DownInv, WrittenInv
<1>3. Place' = "loop" /\ head' = <<>> /\ taken \in Nat
  BY DEF BInv, SendInv, LoopTypes, Place
<1>4. CASE UpRead
  <2>1. /\ up = "read" /\ taken' = taken + 1 /\ held' = <<taken + 1>> /\ up' = "send" /\ sent' = sent
    BY <1>4 DEF UpRead
  <2>2. taken' - 1 = taken /\ taken' > 0 /\ taken' \in Nat
    BY <1>3, <2>1
  <2>3. SendInv'
    BY <1>3, <2>1, <2>2 DEF BInv, SendInv
  <2> QED BY <1>1, <1>2, <2>1, <2>2, <2>3, InLoop DEF BInv, LoopTypes
<1>5. CASE UpSend
  <2>1. up = "send" /\ sent' = sent \o held /\ held' = <<>> /\ up' = "read" /\ taken' = taken
    BY <1>5 DEF UpSend
  <2>2. taken - 1 \in Nat /\ (taken - 1) + 1 = taken /\ held = <<taken>> /\ sent = Count(taken - 1)
    BY <1>3, <2>1 DEF BInv, SendInv
  <2>3. sent' = Count(taken)
    BY <2>1, <2>2, CountOn
  <2>4. SendInv'
    BY <1>3, <2>1, <2>3 DEF SendInv
  <2> QED BY <1>1, <1>2, <2>1, <2>4, InLoop DEF BInv, LoopTypes
<1>6. CASE UpSendFails \/ UpEof \/ UpTimeout \/ UpNotified
  <2>1. /\ UNCHANGED <<taken, sent>>
        /\ \/ up' = "end"
           \/ up = "read" /\ up' \in {"read", "notify"} /\ held' = held
    BY <1>6 DEF UpSendFails, UpEof, UpTimeout, UpNotified, UpOver, WaitsAgain
  <2>2. SendInv'
    BY <1>3, <2>1 DEF BInv, SendInv
  <2> QED BY <1>1, <1>2, <2>1, <2>2, InLoop DEF BInv, LoopTypes
<1> QED BY <1>4, <1>5, <1>6 DEF UpStep

\* Steps of the download, its timeout included.
LEMMA DownBytes ==
  ASSUME BInv, Place = "loop", UNCHANGED <<todo, head>>, DownStep \/ DownTimeout
  PROVE  BInv'
<1>1. UNCHANGED <<how, up, taken, held, sent>>
  BY DEF DownStep, DownHeader, DownBody, DownRead, DownWrite, DownOver, DownTimeout, upVars
<1>2. SendInv'
  BY <1>1 DEF BInv, SendInv, Place
<1>3. /\ pos \in Nat /\ got \in Seq(Nat) /\ DOMAIN got = 1..Len(got) /\ Len(got) \in Nat
      /\ \A i \in DOMAIN got : got[i] \in Nat
  BY LenProperties, ElementOfSeq DEF BInv, LoopTypes
<1>4. how # "none"
  BY DEF BInv, Stage
<1>p. /\ pend = IF down # "write" THEN <<>> ELSE IF Len(pend) = 1 THEN <<pos>> ELSE <<pos - 1, pos>>
      /\ Len(pend) <= pos
      /\ down = "body" => how = "tunnel" /\ pos > 0
  BY DEF BInv, DownInv
<1>w. /\ \A i, j \in DOMAIN got : i < j => got[i] < got[j]
      /\ \A i \in DOMAIN got : got[i] <= pos - Len(pend) /\ (down = "body" => got[i] < pos)
      /\ how = "direct" /\ down # "end" => got = Count(pos - Len(pend))
  BY DEF BInv, WrittenInv
<1>e. pend = <<>> => Len(pend) = 0
  OBVIOUS
\* What is dropped, or was read, leaves what was written behind.
<1>5. ASSUME NEW n \in Nat, pos' = n, n >= pos, UNCHANGED got, pend' = <<>>,
             down' \in {"read", "body", "end"},
             down' = "body" => how = "tunnel" /\ n > pos,
             how = "direct" /\ down' # "end" => n = pos /\ down = "read"
      PROVE  BInv'
  <2>1. Len(pend') = 0
    BY <1>5
  <2>2. DownInv'
    BY <1>1, <1>4, <1>5, <2>1, <1>3 DEF DownInv
  <2>3. pend = <<>> \/ Len(pend) \in {1, 2}
    BY <1>p
  <2>4. \A i \in DOMAIN got : got[i] <= pos
    BY <1>3, <1>w, <1>e, <2>3
  <2>5. \A i \in DOMAIN got' : got'[i] <= pos' - Len(pend') /\ (down' = "body" => got'[i] < pos')
    BY <1>3, <1>5, <2>1, <2>4
  <2>6. how' = "direct" /\ down' # "end" => got' = Count(pos' - Len(pend'))
    <3>1. SUFFICES ASSUME how = "direct", down' # "end" PROVE got' = Count(n - 0)
      BY <1>1, <1>5, <2>1
    <3>2. down = "read" /\ n = pos /\ Len(pend) = 0
      BY <1>5, <1>e, <1>p, <3>1
    <3> QED BY <1>w, <1>5, <3>1, <3>2
  <2>7. WrittenInv'
    BY <1>5, <1>w, <2>5, <2>6 DEF WrittenInv
  <2>8. LoopTypes'
    BY <1>1, <1>5 DEF BInv, LoopTypes
  <2> QED BY <1>1, <1>2, <2>2, <2>7, <2>8, InLoop
<1>6. CASE DownHeader
  <2>1. /\ how = "tunnel" /\ down = "read" /\ pos' = pos + 1 /\ got' = got
        /\ \/ down' = "body" /\ pend' = pend
           \/ down' = "end" /\ pend' = <<>>
    BY <1>6 DEF DownHeader, DownEnds
  <2>2. pend = <<>> /\ pos + 1 \in Nat /\ pos + 1 > pos /\ pos + 1 >= pos
    BY <1>3, <1>p, <2>1
  <2>3. pend' = <<>>
    BY <2>1, <2>2
  <2> QED BY <1>5, <2>1, <2>2, <2>3
<1>7. CASE DownOver \/ DownTimeout
  <2>1. /\ UNCHANGED <<pos, got>> /\ pend' = <<>>
        /\ \/ down' = "end"
           \/ down' = "read" /\ down \in Timed
    BY <1>7 DEF DownOver, DownTimeout, DownEnds
  <2>2. how = "direct" /\ down' # "end" => down = "read"
    BY <2>1 DEF Timed
  <2>3. pos >= pos
    BY <1>3
  <2> QED BY <1>3, <1>5, <2>1, <2>2, <2>3
\* A frame or a read gives two units that follow what was written.
<1>8. ASSUME NEW m \in Nat, m >= 2, pos' = m, pend' = <<m - 1, m>>, down' = "write", got' = got,
             \A i \in DOMAIN got : got[i] <= m - 2, how = "direct" => got = Count(m - 2)
      PROVE  BInv'
  <2>1. Len(pend') = 2
    BY <1>8
  <2>2. DownInv'
    BY <1>1, <1>4, <1>8, <2>1 DEF DownInv
  <2>3. pos' - Len(pend') = m - 2
    BY <1>8, <2>1
  <2>4. WrittenInv'
    BY <1>1, <1>8, <1>w, <2>3 DEF WrittenInv
  <2>5. LoopTypes'
    BY <1>1, <1>8 DEF BInv, LoopTypes
  <2> QED BY <1>1, <1>2, <2>2, <2>4, <2>5, InLoop
<1>9. CASE DownBody
  <2>1. /\ down = "body" /\ pos' = pos + 1 /\ pend' = <<pos, pos + 1>> /\ down' = "write" /\ got' = got
    BY <1>9 DEF DownBody
  <2>2. how = "tunnel" /\ pos > 0 /\ \A i \in DOMAIN got : got[i] < pos
    BY <1>p, <1>w, <2>1
  <2>3. pos + 1 \in Nat /\ pos + 1 >= 2 /\ (pos + 1) - 1 = pos
    BY <1>3, <2>2
  <2>4. \A i \in DOMAIN got : got[i] <= (pos + 1) - 2
    BY <1>3, <2>2
  <2> QED BY <1>8, <2>1, <2>2, <2>3, <2>4
<1>10. CASE DownRead
  <2>1. /\ how = "direct" /\ down = "read" /\ pos' = pos + 2 /\ pend' = <<pos + 1, pos + 2>>
        /\ down' = "write" /\ got' = got
    BY <1>10 DEF DownRead
  <2>2. Len(pend) = 0
    BY <1>e, <1>p, <2>1
  <2>3. pos + 2 \in Nat /\ pos + 2 >= 2 /\ (pos + 2) - 1 = pos + 1 /\ (pos + 2) - 2 = pos /\ pos - 0 = pos
    BY <1>3
  <2>4. \A i \in DOMAIN got : got[i] <= (pos + 2) - 2
    BY <1>w, <2>2, <2>3
  <2>5. got = Count((pos + 2) - 2)
    BY <1>w, <2>1, <2>2, <2>3
  <2> QED BY <1>8, <2>1, <2>3, <2>4, <2>5
\* The first unit not yet written is.
<1>11. ASSUME NEW x \in Nat, x > 0, NEW k \in {0, 1}, got' = Append(got, x), pos' = pos,
              \A i \in DOMAIN got : got[i] <= x - 1, how = "direct" => got = Count(x - 1),
              pos = x + k, Len(pend') = k,
              \/ k = 0 /\ pend' = <<>> /\ down' = "read"
              \/ k = 1 /\ pend' = <<pos>> /\ down' = "write"
       PROVE  BInv'
  <2>1. /\ got' \in Seq(Nat) /\ Len(got') = Len(got) + 1 /\ got'[Len(got) + 1] = x
        /\ \A i \in 1..Len(got) : got'[i] = got[i]
        /\ DOMAIN got' = 1..(Len(got) + 1)
    BY <1>3, <1>11, AppendProperties
  <2>2. ASSUME NEW i \in DOMAIN got'
        PROVE  got'[i] \in Nat /\ got'[i] <= x /\ (i \notin DOMAIN got => i = Len(got) + 1)
    BY <1>3, <1>11, <2>1
  <2>3. ASSUME NEW i \in DOMAIN got', NEW j \in DOMAIN got', i < j
        PROVE  got'[i] < got'[j]
    <3>1. i \in DOMAIN got /\ got'[i] = got[i]
      BY <1>3, <2>1, <2>3
    <3>2. CASE j \in DOMAIN got
      BY <1>3, <1>w, <2>1, <2>3, <3>1, <3>2
    <3>3. CASE j \notin DOMAIN got
      <4>1. got'[j] = x /\ got[i] <= x - 1 /\ got[i] \in Nat
        BY <1>3, <1>11, <2>1, <2>2, <3>1, <3>3
      <4> QED BY <3>1, <4>1
    <3> QED BY <3>2, <3>3
  <2>4. pos' - Len(pend') = x /\ Len(pend') <= pos'
    BY <1>3, <1>11
  <2>5. how = "direct" => got' = Count(x)
    <3> SUFFICES ASSUME how = "direct" PROVE got' = Count(x)
      OBVIOUS
    <3>1. got' = Count(x - 1) \o <<x>>
      BY <1>3, <1>11, AppendIsConcat
    <3>2. x - 1 \in Nat /\ (x - 1) + 1 = x
      BY <1>11
    <3> QED BY <3>1, <3>2, CountOn
  <2>6. DownInv'
    BY <1>1, <1>4, <1>11, <2>4 DEF DownInv
  <2>7. WrittenInv'
    BY <1>1, <1>11, <2>2, <2>3, <2>4, <2>5 DEF WrittenInv
  <2>8. LoopTypes'
    BY <1>1, <1>11, <2>1 DEF BInv, LoopTypes
  <2> QED BY <1>1, <1>2, <2>6, <2>7, <2>8, InLoop
<1>12. CASE DownWrite
  <2>1. /\ down = "write" /\ got' = Append(got, Head(pend)) /\ pend' = Tail(pend) /\ pos' = pos
        /\ IF Tail(pend) = <<>> THEN down' = "read" ELSE down' = down
    BY <1>12 DEF DownWrite
  <2>2. CASE pend = <<pos>>
    <3>1. Head(pend) = pos /\ Tail(pend) = <<>> /\ Len(pend) = 1 /\ Len(Tail(pend)) = 0
      BY <2>2
    <3>2. pos > 0 /\ pos = pos + 0
      BY <1>3, <1>p, <3>1
    <3>3. \A i \in DOMAIN got : got[i] <= pos - 1
      BY <1>w, <3>1
    <3>4. how = "direct" => got = Count(pos - 1)
      BY <1>w, <2>1, <3>1
    <3> QED BY <1>3, <1>11, <2>1, <3>1, <3>2, <3>3, <3>4
  <2>3. CASE pend = <<pos - 1, pos>>
    <3>1. /\ Head(pend) = pos - 1 /\ Tail(pend) = <<pos>> /\ Len(pend) = 2
          /\ Len(Tail(pend)) = 1 /\ Tail(pend) # <<>>
      BY <2>3
    <3>2. pos - 1 \in Nat /\ pos - 1 > 0 /\ pos = (pos - 1) + 1 /\ (pos - 1) - 1 = pos - 2
      BY <1>3, <1>p, <3>1
    <3>3. \A i \in DOMAIN got : got[i] <= (pos - 1) - 1
      BY <1>w, <3>1, <3>2
    <3>4. how = "direct" => got = Count((pos - 1) - 1)
      BY <1>w, <2>1, <3>1, <3>2
    <3> QED BY <1>3, <1>11, <2>1, <3>1, <3>2, <3>3, <3>4
  <2> QED BY <1>p, <2>1, <2>2, <2>3
<1> QED BY <1>6, <1>7, <1>9, <1>10, <1>12 DEF DownStep

\* Every step keeps the bytes in order.
LEMMA StepB == GInv /\ BInv /\ [Next]_vars => BInv'
<1> SUFFICES ASSUME GInv, BInv, [Next]_vars PROVE BInv'
  OBVIOUS
<1>1. CASE CloseConnection \/ Reset \/ UNCHANGED vars
  <2>1. UNCHANGED <<how, up, taken, held, sent, down, pos, pend, got, head, todo>>
    BY <1>1 DEF CloseConnection, Reset, vars, loopVars, upVars, downVars, openVars
  <2> QED BY <2>1 DEF BInv, LoopTypes, Stage, HeadInv, SendInv, DownInv, WrittenInv, Place
<1>2. CASE LoopUp
  BY <1>2, UpBytes DEF LoopUp, openVars
<1>3. CASE LoopDown \/ LoopTimeout
  BY <1>3, DownBytes DEF LoopDown, LoopTimeout, openVars
<1>4. CASE LoopOver
  <2>1. /\ Place = "loop" /\ todo' = Done /\ up' = "end" /\ down' = "end" /\ held' = <<>> /\ pend' = <<>>
        /\ UNCHANGED <<how, taken, sent, pos, got>>
    BY <1>4 DEF LoopOver, Go
  <2>2. Place' = "close" /\ todo' = <<"close", "close2", "done">> /\ how # "none"
    BY <2>1, From, Spelled DEF BInv, Stage, Place
  <2>3. Len(pend') = 0 /\ pos \in Nat
    BY <2>1 DEF BInv, LoopTypes
  <2>4. Stage' /\ HeadInv' /\ SendInv' /\ LoopTypes'
    BY <2>1, <2>2 DEF BInv, Stage, HeadInv, SendInv, LoopTypes
  <2>5. DownInv'
    BY <2>1, <2>2, <2>3 DEF DownInv
  <2>6. pend = <<>> \/ Len(pend) \in {1, 2}
    BY DEF BInv, DownInv
  <2>7. \A i \in DOMAIN got : got[i] <= pos - 0
    <3>1. \A i \in DOMAIN got : got[i] \in Nat
      BY LenProperties, ElementOfSeq DEF BInv, LoopTypes
    <3>2. pend = <<>> => Len(pend) = 0
      OBVIOUS
    <3> QED BY <2>3, <2>6, <3>1, <3>2 DEF BInv, WrittenInv
  <2>8. WrittenInv'
    BY <2>1, <2>3, <2>7 DEF BInv, WrittenInv
  <2> QED BY <2>4, <2>5, <2>8 DEF BInv
<1> QED BY <1>1, <1>2, <1>3, <1>4, OpeningBytes, RecordingBytes DEF Next

\* The bytes of a connection through relay_tcp: none the client sent is lost,
\* doubled or moved between the sniffer, the fallback and the second tunnel; it
\* is written units of the server in order, and from a direct socket all.
THEOREM BytesStayInOrder == Spec => []BytesInOrder
<1>1. Init => GInv /\ BInv
  BY InitG, InitB
<1>2. GInv /\ BInv /\ [Next]_vars => (GInv /\ BInv)'
  BY StepG, StepB
<1> QED BY <1>1, <1>2, BytesFollow, PTL DEF Spec

=============================================================================
