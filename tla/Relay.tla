------------------------------- MODULE Relay -------------------------------
(***************************************************************************)
(* One TCP connection of the user-space stack (relay_tcp in tun/tcp.rs),   *)
(* from its handshake to the close of its last record, while the command   *)
(* server cuts connections and new engines reset the monitor.              *)
(*                                                                         *)
(* The task is at the first of the places of todo; the places after it are *)
(* those it is bound for.  What a name or an address is stands for it.     *)
(***************************************************************************)
EXTENDS RelayLoop

Addrs == {"private", "cn", "foreign"}   \* kinds of real addresses
\* kinds of names; "cn": under a suffix of China, "other": no list knows it
Kinds == {"lan", "cn", "foreign", "other"}

VARIABLES
  todo,       \* places
  addr,       \* the address the client called: a kind, or "fake"
  name,       \* the name mapped to it or sniffed: a kind, or "none"
  target,     \* the address a direct relay calls
  head,       \* initial_payload: chunks read before the loop
  failed,     \* attempts of this connect_tunnel that failed
  again,      \* this is the second connect_tunnel
  own,        \* the id of the record that is open, 0: none
  cut         \* notify_waiters came while the select waited

openVars == <<addr, name, target, head, failed, again>>
vars == <<monitorVars, loopVars, openVars, todo, own, cut>>

Place == Head(todo)
Go(places) == todo' = places
GoOn == todo' = Tail(todo)

Record(next) == <<"start", "start2">> \o next
Close(next) == <<"close", "close2">> \o next
Done == Close(<<"done">>)

\* The names an address may have without a sniffed one.
Init ==
  /\ MonitorInit /\ LoopInit
  /\ todo = <<"wait">> /\ own = 0 /\ cut = FALSE
  /\ addr \in Addrs \cup {"fake"}
  /\ name \in IF addr = "fake" THEN Kinds \cup {"none"} ELSE {"none"}
  /\ target = "none" /\ head = <<>> /\ failed = 0 /\ again = FALSE

KeepRecords == UNCHANGED <<monitorVars, own, cut>>

-----------------------------------------------------------------------------
(* relay_tcp. *)

ShouldSniff == name = "none" /\ addr \notin {"private", "cn"}

Establish ==
  /\ Place = "wait" /\ Go(IF ShouldSniff THEN <<"sniff">> ELSE <<"route">>)
  /\ KeepRecords /\ UNCHANGED <<loopVars, openVars>>

\* 15 seconds, a reset, or the socket was swept; no address.
NeverEstablished ==
  /\ Place = "wait" /\ Go(<<"done">>)
  /\ KeepRecords /\ UNCHANGED <<loopVars, openVars>>

\* A first read before the relay begins.
TakesFirst ==
  /\ taken < MaxUp /\ taken' = taken + 1 /\ head' = <<taken + 1>>
  /\ UNCHANGED <<how, up, held, sent, downVars, fresh, addr, target, failed, again>>

\* It may hold a name: a ClientHello or a Host.
Sniff ==
  /\ Place = "sniff" /\ TakesFirst /\ name' \in Kinds \cup {"none"} /\ Go(<<"route">>)
  /\ KeepRecords

\* 40 ms without a byte, the end, or an error.
SniffsNothing ==
  /\ Place = "sniff" /\ Go(<<"route">>) /\ KeepRecords /\ UNCHANGED <<loopVars, openVars>>

\* What route_decision_sourced may say; "default": direct, by default.
Verdicts == IF name = "lan" \/ addr = "private" THEN {"direct"}
            ELSE {"block", "direct", "default", "proxy"}

\* A direct relay calls t.  A fake address whose real one is neither of China
\* nor of the LAN is sent to the tunnel.
Calls(t) ==
  /\ target' = t
  /\ Go(IF t \in {"private", "cn"} \/ addr # "fake" THEN Record(<<"dial">>) ELSE <<"get">>)

Route ==
  /\ Place = "route" /\ KeepRecords /\ UNCHANGED <<loopVars, addr, name, head, failed, again>>
  /\ \E v \in Verdicts :
       \/ v = "block" /\ Go(Record(Done)) /\ UNCHANGED target
       \/ v = "proxy" /\ Go(<<"get">>) /\ UNCHANGED target
       \/ /\ v \in {"direct", "default"}
          /\ IF addr # "fake" THEN Calls(addr)
             ELSE /\ Go(IF name = "none" THEN <<"done">>
                        ELSE IF v = "default" /\ name # "lan" THEN <<"resolve default">>
                        ELSE <<"resolve">>)
                  /\ UNCHANGED target

-----------------------------------------------------------------------------
(* relay_direct. *)

\* resolve_direct_target finds an address: in the cache of answers, or by
\* asking; of names of the LAN the system, and then only a private one counts.
Resolve ==
  /\ Place \in {"resolve", "resolve default"} /\ \E t \in Addrs : Calls(t)
  /\ KeepRecords /\ UNCHANGED <<loopVars, addr, name, head, failed, again>>

\* It finds none: a name of the LAN is dropped, others go to the tunnel.
ResolvesNothing ==
  /\ Place \in {"resolve", "resolve default"}
  /\ Go(IF name = "lan" THEN Record(Done) ELSE <<"get">>)
  /\ KeepRecords /\ UNCHANGED <<loopVars, openVars>>

Strict == (name = "none" /\ target = "cn") \/ name = "cn"

DialOk ==
  /\ Place = "dial" /\ KeepRecords /\ UNCHANGED openVars
  /\ IF head # <<>> THEN Go(<<"first">>) /\ UNCHANGED loopVars
     ELSE Go(<<"loop">>) /\ Starts("direct") /\ UNCHANGED <<taken, held, sent, pos, pend, got>>

\* Mutant: the fallback keeps the record of the direct attempt.
MutLeaveOpen == IF Strict THEN Done ELSE <<"get">>

\* A target of China is not tried over a tunnel.
AfterDialFails == Close(IF Strict THEN <<"done">> ELSE <<"get">>)

\* Refused, or no handshake in time.
DialFails ==
  /\ Place = "dial" /\ Go(AfterDialFails)
  /\ KeepRecords /\ UNCHANGED <<loopVars, openVars>>

NoSocket ==
  /\ Place = "dial" /\ Go(Done) /\ KeepRecords /\ UNCHANGED <<loopVars, openVars>>

\* What was sniffed goes first.
FirstSent(kind) ==
  /\ Go(<<"loop">>) /\ Starts(kind) /\ sent' = head /\ head' = <<>>
  /\ UNCHANGED <<taken, held, pos, pend, got, addr, name, target, failed, again>>

FirstOk == Place = "first" /\ FirstSent("direct") /\ KeepRecords

FirstFails ==
  /\ Place = "first" /\ Go(Done) /\ KeepRecords /\ UNCHANGED <<loopVars, openVars>>

-----------------------------------------------------------------------------
(* relay_proxy and connect_tunnel. *)

\* pool.get() and the header of the target.
Connected ==
  /\ Place = "get" /\ failed' = 0
  /\ Go(IF again THEN <<"head">> ELSE Record(IF head = <<>> THEN <<"preread">> ELSE <<"head">>))
  /\ KeepRecords /\ UNCHANGED <<loopVars, addr, name, target, head, again>>

\* Either fails: one more attempt; without a record there is nothing to close.
AttemptFails ==
  /\ Place = "get" /\ KeepRecords /\ UNCHANGED <<loopVars, addr, name, target, head, again>>
  /\ IF failed = 0 THEN failed' = 1 /\ UNCHANGED todo
     ELSE failed' = 0 /\ Go(IF again THEN Done ELSE <<"done">>)

Preread ==
  /\ Place = "preread" /\ TakesFirst /\ Go(<<"head">>)
  /\ KeepRecords /\ UNCHANGED name

\* 60 ms without a byte.
PrereadsNothing ==
  /\ Place = "preread" /\ Go(<<"loop">>) /\ Starts("tunnel")
  /\ KeepRecords /\ UNCHANGED <<taken, held, sent, pos, pend, got, openVars>>

HeadSent == Place = "head" /\ FirstSent("tunnel") /\ KeepRecords

\* Mutant: the second tunnel is not given the first bytes.
MutForgetHead == <<>>
HeadKept == head

\* The tunnel was half dead: another one, once.
HeadFails ==
  /\ Place = "head" /\ Go(IF again THEN Done ELSE <<"get">>) /\ again' = TRUE
  /\ head' = HeadKept
  /\ KeepRecords /\ UNCHANGED <<loopVars, addr, name, target, failed>>

-----------------------------------------------------------------------------
(* The loop under select!, and the records. *)

LoopUp == Place = "loop" /\ UpStep /\ UNCHANGED <<monitorVars, openVars, todo, own, cut>>
LoopDown == Place = "loop" /\ DownStep /\ UNCHANGED <<monitorVars, openVars, todo, own, cut>>
LoopTimeout == Place = "loop" /\ DownTimeout /\ UNCHANGED <<monitorVars, openVars, todo, own, cut>>

\* One half has ended: the other has 3 or 2 seconds, or ends by itself.  The
\* notification counts as long as both run.
LoopOver ==
  /\ Place = "loop" /\ (~BothRun \/ cut)
  /\ Go(Done) /\ up' = "end" /\ down' = "end" /\ held' = <<>> /\ pend' = <<>>
  /\ UNCHANGED <<monitorVars, openVars, how, taken, sent, pos, got, fresh, own, cut>>

\* close_connection: notify_waiters, under the lock of the live records.
CloseConnection ==
  /\ own \in live /\ Place = "loop" /\ BothRun /\ cut' = TRUE
  /\ UNCHANGED <<monitorVars, loopVars, openVars, todo, own>>

StartFirst ==
  /\ Place = "start" /\ StartLive /\ own' = nextId /\ GoOn /\ UNCHANGED <<loopVars, openVars, cut>>

StartSecond ==
  /\ Place = "start2" /\ StartRecent(own) /\ GoOn /\ UNCHANGED <<loopVars, openVars, own, cut>>

CloseFirst ==
  /\ Place = "close" /\ CloseLive(own) /\ GoOn /\ UNCHANGED <<loopVars, openVars, own, cut>>

CloseSecond ==
  /\ Place = "close2" /\ CloseRecent(own) /\ own' = 0 /\ GoOn
  /\ UNCHANGED <<loopVars, openVars, cut>>

Reset ==
  (ResetLive \/ ResetRecent) /\ UNCHANGED <<loopVars, openVars, todo, own, cut>>

Opening ==
  \/ Establish \/ NeverEstablished \/ Sniff \/ SniffsNothing \/ Route
  \/ Resolve \/ ResolvesNothing \/ DialOk \/ DialFails \/ NoSocket \/ FirstOk \/ FirstFails
  \/ Connected \/ AttemptFails \/ Preread \/ PrereadsNothing \/ HeadSent \/ HeadFails

Recording == StartFirst \/ StartSecond \/ CloseFirst \/ CloseSecond

Next ==
  Opening \/ Recording \/ LoopUp \/ LoopDown \/ LoopTimeout \/ LoopOver \/ CloseConnection \/ Reset

Spec == Init /\ [][Next]_vars

\* Timers fire and the task is polled.  Nothing makes a send to a tunnel return,
\* the server need not speak, and the client may leave its window closed.
FairSpec ==
  Spec /\ WF_vars(Recording) /\ WF_vars(LoopTimeout) /\ WF_vars(LoopOver)

-----------------------------------------------------------------------------
\* Whatever way the connection goes - blocked, dropped, direct, fallen back,
\* retried, cut - it has one open record at a time and leaves none behind,
\* even when the monitor is reset between the two halves of an operation.
NoGhosts ==
  \A id \in 1..(nextId - 1) :
    Ghost(id) => id = own /\ Place \notin {"wait", "sniff", "route", "resolve", "done"}

\* No byte the client sent is lost, doubled or moved on the way through the
\* sniffer, the fallback and the second tunnel, up to the tunnel in use.
UploadWhole ==
  (Place = "loop" => up # "end") /\ Place \notin {"close", "close2", "done"} =>
    sent \o head \o held = [i \in 1..taken |-> i]

\* The client is written units of the server in their order, none twice; from
\* a direct socket, all of them.
DownGrows ==
  /\ \A i, j \in DOMAIN got : i < j => got[i] < got[j]
  /\ how = "direct" /\ down # "end" => got \o pend = [i \in 1..pos |-> i]

\* The bytes of a connection, both ways.
BytesInOrder == UploadWhole /\ DownGrows

\* A relay over a tunnel ends: a silent peer, a writer that does not return and
\* a client that does not read are all met by the timeout of the download.
RelayEnds == Place = "loop" /\ how = "tunnel" ~> Place = "done"
=============================================================================
