----------------------------- MODULE DnsFlight -----------------------------
(***************************************************************************)
(* The direct resolver of tun/dns.rs: a cache of answers, and single       *)
(* flight - callers that ask about a domain somebody is already asking     *)
(* about wait on his watch channel.  One step is one critical section or   *)
(* one await.  A caller makes one call, and its channel, if it leads, is   *)
(* known by its name.                                                      *)
(***************************************************************************)
EXTENDS Integers, FiniteSets

CONSTANTS
  Callers,    \* calls of resolve_upstream
  Domains, Ips,
  CacheMax,   \* DIRECT_CACHE_MAX
  MaxClears,  \* bound: calls of clear_direct_cache
  None        \* no address, no channel

ASSUME FlightAssumption ==
  /\ CacheMax \in Nat \ {0} /\ MaxClears \in Nat
  /\ None \notin Ips /\ None \notin Domains /\ None \notin Callers

VARIABLES
  cache,      \* direct_cache: the address of a domain
  fresh,      \* domains whose entry is younger than CACHE_TTL
  flights,    \* flight_map: the channel a domain's leader will send on
  sent,       \* the address a channel was sent (None: nothing)
  over,       \* channels whose leader has sent or dropped the sender
  pc, dom, chan, res,  \* of a caller: its place, domain, channel, result
  clears, since,       \* history: clears so far, and before a leader's start
  learned              \* history: answers upstreams gave

callerVars == <<pc, dom, chan, res>>
vars == <<cache, fresh, flights, sent, over, callerVars, clears, since, learned>>

Init ==
  /\ cache = [d \in Domains |-> None] /\ fresh = {}
  /\ flights = [d \in Domains |-> None]
  /\ sent = [ch \in Callers |-> None] /\ over = {}
  /\ pc = [c \in Callers |-> "idle"] /\ dom = [c \in Callers |-> None]
  /\ chan = [c \in Callers |-> c] /\ res = [c \in Callers |-> None]
  /\ clears = 0 /\ since = [c \in Callers |-> 0] /\ learned = {}

Cached == {d \in Domains : cache[d] # None}

\* c goes to a place of its code.
Goes(c, place) == pc' = [pc EXCEPT ![c] = place]

\* The call ends and returns ip.
Returns(c, ip) ==
  /\ Goes(c, "done") /\ res' = [res EXCEPT ![c] = ip]
  /\ UNCHANGED <<dom, chan>>

Call(c, d) ==
  /\ pc[c] = "idle"
  /\ Goes(c, "cache") /\ dom' = [dom EXCEPT ![c] = d]
  /\ UNCHANGED <<chan, res, cache, fresh, flights, sent, over, clears, since, learned>>

CacheHit(c) ==
  /\ pc[c] = "cache" /\ dom[c] \in fresh
  /\ Returns(c, cache[dom[c]])
  /\ UNCHANGED <<cache, fresh, flights, sent, over, clears, since, learned>>

CacheMiss(c) ==
  /\ pc[c] = "cache" /\ dom[c] \notin fresh
  /\ Goes(c, "flight")
  /\ UNCHANGED <<cache, fresh, flights, sent, over, dom, chan, res, clears, since, learned>>

-----------------------------------------------------------------------------
(* Single flight. *)

\* Mutant: any leader will do.
MutAnyFlight(d) ==
  IF \E e \in Domains : flights[e] # None
  THEN flights[CHOOSE e \in Domains : flights[e] # None] ELSE None

FlightOf(d) == flights[d]

Lead(c) ==
  /\ pc[c] = "flight" /\ FlightOf(dom[c]) = None
  /\ flights' = [flights EXCEPT ![dom[c]] = chan[c]] /\ Goes(c, "query")
  /\ since' = [since EXCEPT ![c] = clears]
  /\ UNCHANGED <<cache, fresh, sent, over, dom, chan, res, clears, learned>>

Follow(c) ==
  /\ pc[c] = "flight" /\ FlightOf(dom[c]) # None
  /\ chan' = [chan EXCEPT ![c] = FlightOf(dom[c])] /\ Goes(c, "wait")
  /\ UNCHANGED <<cache, fresh, flights, sent, over, dom, res, clears, since, learned>>

\* The channel has something, or is closed, or 1500 ms are over: in every
\* case what the channel holds is returned.
FollowerEnds(c) ==
  /\ pc[c] = "wait" /\ Returns(c, sent[chan[c]])
  /\ UNCHANGED <<cache, fresh, flights, sent, over, clears, since, learned>>

\* insert_direct_cache at the capacity: stale entries go, or any one of them.
Kept ==
  IF Cardinality(Cached) < CacheMax THEN {Cached}
  ELSE IF Cardinality(fresh) < CacheMax THEN {fresh}
  ELSE {Cached \ {d} : d \in Cached}

\* The first answer of the four servers that is one.
Answer(c, ip) ==
  /\ pc[c] = "query" /\ Goes(c, "send")
  /\ res' = [res EXCEPT ![c] = ip] /\ learned' = learned \cup {<<dom[c], ip>>}
  /\ \E kept \in Kept :
       /\ cache' = [d \in Domains |-> IF d = dom[c] THEN ip
                                      ELSE IF d \in kept THEN cache[d] ELSE None]
       /\ fresh' = (fresh \cap kept) \cup {dom[c]}
  /\ UNCHANGED <<flights, sent, over, dom, chan, clears, since>>

\* Mutant: the second round waits without a deadline.
MutNoDeadline(c) == FALSE

\* No permit or socket, or two rounds without an answer.
GivesUp(c) == pc[c] = "query"

NoAnswer(c) ==
  /\ GivesUp(c) /\ Goes(c, "send")
  /\ UNCHANGED <<cache, fresh, flights, sent, over, dom, chan, res, clears, since, learned>>

Send(c) ==
  /\ pc[c] = "send" /\ Goes(c, "unlist")
  /\ sent' = [sent EXCEPT ![chan[c]] = res[c]] /\ over' = over \cup {chan[c]}
  /\ UNCHANGED <<cache, fresh, flights, dom, chan, res, clears, since, learned>>

\* The leader's future is dropped: first the sender goes, then the guard.
Cancel(c) ==
  /\ pc[c] = "query" /\ Goes(c, "unlist") /\ over' = over \cup {chan[c]}
  /\ UNCHANGED <<cache, fresh, flights, sent, dom, chan, res, clears, since, learned>>

\* Mutant: the entry goes whoever's it is.
MutNotSame(c) == TRUE

\* same_channel
Mine(c) == flights[dom[c]] = chan[c]

\* FlightGuard::drop
Unlist(c) ==
  /\ pc[c] = "unlist" /\ Returns(c, res[c])
  /\ flights' = IF Mine(c) THEN [flights EXCEPT ![dom[c]] = None] ELSE flights
  /\ UNCHANGED <<cache, fresh, sent, over, clears, since, learned>>

-----------------------------------------------------------------------------
Expire(d) ==
  /\ d \in fresh /\ fresh' = fresh \ {d}
  /\ UNCHANGED <<cache, flights, sent, over, callerVars, clears, since, learned>>

\* clear_direct_cache holds the cache's lock while it clears the flights.
ClearDirectCache ==
  /\ clears < MaxClears /\ clears' = clears + 1
  /\ cache' = [d \in Domains |-> None] /\ fresh' = {}
  /\ flights' = [d \in Domains |-> None]
  /\ UNCHANGED <<sent, over, callerVars, since, learned>>

\* The steps that do not wait for anybody else.
Step(c) ==
  \/ CacheHit(c) \/ CacheMiss(c) \/ Lead(c) \/ Follow(c) \/ FollowerEnds(c)
  \/ NoAnswer(c) \/ Send(c) \/ Unlist(c)

Next ==
  \/ \E c \in Callers :
       Step(c) \/ Cancel(c) \/ (\E d \in Domains : Call(c, d)) \/ \E ip \in Ips : Answer(c, ip)
  \/ (\E d \in Domains : Expire(d)) \/ ClearDirectCache

Spec == Init /\ [][Next]_vars
FairSpec == Spec /\ \A c \in Callers : WF_vars(Step(c))

-----------------------------------------------------------------------------
Leaders == {c \in Callers : pc[c] \in {"query", "send", "unlist"}}

\* The types.
TypeOK ==
  /\ cache \in [Domains -> Ips \cup {None}] /\ fresh \subseteq Cached
  /\ Cardinality(Cached) <= CacheMax
  /\ flights \in [Domains -> Callers \cup {None}]
  /\ sent \in [Callers -> Ips \cup {None}] /\ over \subseteq Callers
  /\ pc \in [Callers -> {"idle", "done", "cache", "flight", "wait", "query", "send", "unlist"}]
  /\ dom \in [Callers -> Domains \cup {None}] /\ chan \in [Callers -> Callers]
  /\ res \in [Callers -> Ips \cup {None}]
  /\ clears \in 0..MaxClears /\ since \in [Callers -> 0..MaxClears]
  /\ learned \subseteq Domains \X Ips

\* Two leaders ask about one domain at once only when the flights were cleared
\* between their starts, whatever the older leader's guard does when it drops.
SingleFlight ==
  \A b, c \in Callers :
    pc[b] = "query" /\ pc[c] = "query" /\ dom[b] = dom[c] /\ since[b] = since[c] => b = c

\* An entry of the flight map has a leader that will take it away: nobody waits
\* for a flight that was cancelled.
FlightsLed ==
  \A d \in Domains : flights[d] # None =>
    \E c \in Leaders : dom[c] = d /\ chan[c] = flights[d]

\* The flight map through clears, expiry and cancelled leaders.
FlightsSound == TypeOK /\ SingleFlight /\ FlightsLed

\* Every call ends though no upstream answers.
CallsEnd == \A c \in Callers : pc[c] # "idle" ~> pc[c] = "done"

\* A leader has its result some steps before its call ends.
Result == [c \in Callers |-> IF pc[c] = "done" THEN res[c] ELSE None]

Asking == [c \in Callers |-> IF pc[c] \in {"idle", "done"} THEN None ELSE dom[c]]

Promise == INSTANCE DnsCall WITH asking <- Asking, got <- Result

\* Callers get what was learned about their own domain, through the cache, the
\* flights of others, clears, expiry and cancelled leaders.
KeepsPromise == Promise!Spec
=============================================================================
