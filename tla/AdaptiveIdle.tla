---------------------------- MODULE AdaptiveIdle ----------------------------
(***************************************************************************)
(* How long a relay may stay idle (tun/adaptive_idle.rs).  The relays of   *)
(* tcp.rs ask for a timeout four times each (either direction, before and  *)
(* after its first bytes) and report what they carried when they close; a  *)
(* profile of each domain learns from it.  The store of profiles is shared *)
(* by every relay, has a cap, and is loaded again after a start.           *)
(*                                                                         *)
(* Times are in seconds, volumes in kilobytes.  A call takes the store's   *)
(* lock once and is one step (the second look of compute_adaptive_timeout  *)
(* is taken in the same step).  A save is one step here; ProfileFile has   *)
(* what happens on the disk.                                               *)
(***************************************************************************)
EXTENDS Integers, FiniteSets, Functions

CONSTANTS
  Domains,
  CdnDomains,  \* those CDN_SUFFIXES covers
  ImDomains,   \* those IM_SUFFIXES covers
  Links,       \* the relays
  Volumes,     \* what a relay may carry one way, in kilobytes
  Capacity,    \* MAX_PROFILES_CAPACITY
  Second,      \* seconds the clock advances in a step
  MaxNow,      \* bound: the clock
  MaxLinks,    \* bound: connections in all
  MaxSaves,    \* bound: saves in all
  MaxLoads,    \* bound: loads in all
  NoDomain     \* the absence of a domain

ASSUME AdaptiveIdleConstants ==
  /\ CdnDomains \cup ImDomains \subseteq Domains /\ CdnDomains \cap ImDomains = {}
  /\ Volumes \subseteq Nat /\ Capacity \in Nat \ {0} /\ Second \in Nat \ {0}

VARIABLES
  profiles,  \* PROFILES_STORE: domain -> profile
  relay,     \* each relay: its domain, target and timeouts (0 before it asks)
  now,       \* unix_now_secs
  saved,     \* the store the file holds
  opened, saves, loads
idleVars == <<profiles, relay, now, saved, opened, saves, loads>>

IdleInit ==
  /\ profiles = << >> /\ relay = [r \in Links |-> [at |-> "idle"]]
  /\ now = 1
  /\ saved = << >>
  /\ opened = 0 /\ saves = 0 /\ loads = 0

-----------------------------------------------------------------------------
(* Profiles. *)

DefaultIdle(category) ==
  CASE category = "MediaCdn" -> 10 [] category = "PushIm" -> 900 [] category = "GeneralApi" -> 30

Profiled == DOMAIN profiles

\* Mutant: what is not a listed CDN is taken for an API.
MutForgetsIm(d) == IF d \in CdnDomains THEN "MediaCdn" ELSE "GeneralApi"

StaticCategory(d) ==
  CASE d \in CdnDomains -> "MediaCdn" [] d \in ImDomains -> "PushIm" [] OTHER -> "GeneralApi"

NewProfile(d, closed, reason) ==
  [category |-> StaticCategory(d), samples |-> 0, up |-> 0, down |-> 0,
   idle |-> DefaultIdle(StaticCategory(d)), fixed |-> StaticCategory(d) # "GeneralApi",
   seen |-> now, closed |-> closed, reason |-> reason]

\* The domains whose loss makes room for d: the ones seen longest ago.
Evicted(d) ==
  IF d \in Profiled \/ Cardinality(Profiled) < Capacity THEN {{}}
  ELSE {{e} : e \in {k \in Profiled : \A o \in Profiled : profiles[k].seen <= profiles[o].seen}}

With(out, d, p) == [k \in (Profiled \ out) \cup {d} |-> IF k = d THEN p ELSE profiles[k]]

Atleast(a, b) == IF a > b THEN a ELSE b
Atmost(a, b)  == IF a < b THEN a ELSE b

\* A reconnection within 4 s of an idle timeout: it was cut too early.
Penalised(p) ==
  IF ~p.fixed /\ p.category = "GeneralApi" /\ p.closed > 0 /\ now - p.closed <= 4
     /\ p.reason = "IdleTimeout"
  THEN [p EXCEPT !.idle = Atmost((@ * 15) \div 10, 120)] ELSE p

-----------------------------------------------------------------------------
(* compute_adaptive_timeout.  to is the kind of port and address. *)

Targets == {"terminal", "push", "web"}

\* The categories classify_connection may answer, with the store it leaves.
Classified(to, d) ==
  CASE to = "push"             -> {[category |-> "PushIm", store |-> profiles]}
    [] to # "push" /\ d \in Profiled ->
         {[category |-> profiles[d].category,
           store    |-> [profiles EXCEPT ![d] = Penalised([@ EXCEPT !.seen = now])]]}
    [] to # "push" /\ d \in (CdnDomains \cup ImDomains) \ Profiled ->
         {[category |-> StaticCategory(d), store |-> With(out, d, NewProfile(d, 0, "ServerClosed"))] :
            out \in Evicted(d)}
    [] OTHER                   -> {[category |-> "GeneralApi", store |-> profiles]}

\* The profile's timeout, or the one idle_timeout has for the category.
TimeoutOf(c, active, d) ==
  CASE c.category = "PushIm"                        -> 900
    [] c.category # "PushIm" /\ ~active             -> 15
    [] c.category # "PushIm" /\ active /\ d \in DOMAIN c.store -> c.store[d].idle
    [] OTHER                                        -> DefaultIdle(c.category)

\* The timeouts a call may answer, with the stores it leaves.
Outcomes(to, d, active) ==
  IF to = "terminal" THEN {[secs |-> 300, store |-> profiles]}
  ELSE {[secs |-> TimeoutOf(c, active, d), store |-> c.store] : c \in Classified(to, d)}

-----------------------------------------------------------------------------
(* Relays. *)

UnchangedFile == UNCHANGED <<saved, saves, loads>>

Opens(r) ==
  /\ relay[r].at = "idle" /\ opened < MaxLinks
  /\ \E d \in Domains \cup {NoDomain}, to \in Targets :
       relay' = [relay EXCEPT ![r] = [at |-> "open", domain |-> d, to |-> to,
                                      up |-> 0, down |-> 0,
                                      sent |-> FALSE, got |-> FALSE]]
  /\ opened' = opened + 1
  /\ UNCHANGED <<profiles, now>> /\ UnchangedFile

Asks(r, way, active, mark) ==
  \E o \in Outcomes(relay[r].to, relay[r].domain, active) :
    /\ profiles' = o.store
    /\ relay' = [relay EXCEPT ![r] = [mark EXCEPT ![way] = o.secs]]
    /\ UNCHANGED <<now, opened>> /\ UnchangedFile

\* Each direction starts with the timeout of a connection without traffic,
\* and asks again after its first bytes.
AsksUp(r)    == relay[r].at = "open" /\ relay[r].up = 0 /\ Asks(r, "up", FALSE, relay[r])
AsksDown(r)  == relay[r].at = "open" /\ relay[r].down = 0 /\ Asks(r, "down", FALSE, relay[r])
FirstUp(r)   == /\ relay[r].at = "open" /\ relay[r].up # 0 /\ ~relay[r].sent
                /\ Asks(r, "up", TRUE, [relay[r] EXCEPT !.sent = TRUE])
FirstDown(r) == /\ relay[r].at = "open" /\ relay[r].down # 0 /\ ~relay[r].got
                /\ Asks(r, "down", TRUE, [relay[r] EXCEPT !.got = TRUE])

Recorded(p, up, down, reason) ==
  [p EXCEPT !.samples = @ + 1, !.up = @ + up, !.down = @ + down,
            !.seen = now, !.closed = now, !.reason = reason]

\* An idle timeout on a connection that was never used again was too long.
Decayed(p, reused) ==
  IF ~p.fixed /\ p.category = "GeneralApi" /\ p.reason = "IdleTimeout" /\ ~reused
  THEN [p EXCEPT !.idle = Atleast((@ * 8) \div 10, 20)] ELSE p

\* The category its traffic shows, from the second sample on.
Evolved(p, long) ==
  LET up == p.up \div p.samples  down == p.down \div p.samples
  IN  CASE p.fixed \/ p.samples < 2 -> p
        [] ~p.fixed /\ p.samples >= 2 /\ p.down >= 6 * p.up /\ down >= 16 ->
             [p EXCEPT !.category = "MediaCdn", !.idle = 10]
        [] ~p.fixed /\ p.samples >= 2 /\ ~(p.down >= 6 * p.up /\ down >= 16)
             /\ up <= 2 /\ down <= 4 /\ long ->
             [p EXCEPT !.category = "PushIm", !.idle = 900]
        [] OTHER -> p

\* Idle or not is all that is told apart: ServerClosed stands for any other end.
Reasons == {"ServerClosed", "IdleTimeout"}

\* record_conn_metrics, when a relay ends.
Closes(r) ==
  /\ relay[r].at = "open" /\ relay[r].up # 0 /\ relay[r].down # 0
  /\ relay' = [relay EXCEPT ![r] = [at |-> "idle"]]
  /\ LET d == relay[r].domain IN
     IF d = NoDomain THEN UNCHANGED profiles
     ELSE \E up, down \in Volumes, reason \in Reasons, long, reused \in BOOLEAN :
            \E out \in Evicted(d) :
              LET old == IF d \in Profiled THEN profiles[d] ELSE NewProfile(d, now, reason)
                  new == Evolved(Decayed(Recorded(old, up, down, reason), reused), long)
              IN  profiles' = With(out, d, new)
  /\ UNCHANGED <<now, opened>> /\ UnchangedFile

NowMoves ==
  /\ now + Second <= MaxNow
  /\ now' = now + Second
  /\ UNCHANGED <<profiles, relay, opened>> /\ UnchangedFile

-----------------------------------------------------------------------------
(* The file.  ProfileFile has the steps of a save. *)

Save ==
  /\ saves < MaxSaves
  /\ saved' = profiles /\ saves' = saves + 1
  /\ UNCHANGED <<profiles, relay, now, opened, loads>>

\* After a start: entries of the file replace those of the store, and the cap
\* is not looked at.
Load ==
  /\ loads < MaxLoads
  /\ profiles' = [d \in Profiled \cup DOMAIN saved |->
                    IF d \in DOMAIN saved THEN saved[d] ELSE profiles[d]]
  /\ loads' = loads + 1
  /\ UNCHANGED <<relay, now, opened, saved, saves>>

\* The process dies: only the file is left.
Crash ==
  /\ profiles' = << >> /\ relay' = [r \in Links |-> [at |-> "idle"]]
  /\ UNCHANGED <<now, opened, saved, saves, loads>>

IdleNext ==
  \/ \E r \in Links : \/ Opens(r) \/ AsksUp(r) \/ AsksDown(r) \/ FirstUp(r) \/ FirstDown(r)
                       \/ Closes(r)
  \/ NowMoves
  \/ Save \/ Load \/ Crash

-----------------------------------------------------------------------------
(* Properties. *)

\* Whatever is learned, penalised, decayed, evicted and loaded, a profile's
\* timeout is the one its category allows: fixed for CDN and push services and
\* for the domains of the lists, between the floor and the ceiling otherwise.
ProfilesSound ==
  \A d \in Profiled : LET p == profiles[d] IN
    /\ p.category # "GeneralApi" => p.idle = DefaultIdle(p.category)
    /\ p.category = "GeneralApi" => p.idle \in 20..120
    /\ d \in CdnDomains \cup ImDomains => p.category = StaticCategory(d)

\* Inserting makes room first, so the store is never over its cap, until a load
\* brings a file back: it does not look at the cap.
StoreBounded == loads = 0 => Cardinality(Profiled) <= Capacity

\* What a relay may hold: a terminal 300 s and a push service 900 s; any other
\* 15 s before its first bytes, unless it is learned as push, and after them 10 s
\* for a listed CDN, or what a profile may have.
TimeoutsOf(d, to, active) ==
  CASE to = "terminal"                                 -> {300}
    [] to = "push" \/ (to = "web" /\ d \in ImDomains)  -> {900}
    [] to = "web" /\ d \in CdnDomains                  -> IF active THEN {10} ELSE {15}
    [] OTHER -> IF active THEN {10, 900} \cup 20..120 ELSE {15, 900}

\* A relay holds no other timeout in either direction, whatever the relays of its
\* domain have taught the profile meanwhile, and when those of other domains have
\* evicted it: a listed push service is never cut early, and no relay without
\* traffic keeps its slot for long unless it may be push.
RelaysSound ==
  \A r \in Links : relay[r].at = "open" =>
    /\ relay[r].up   \in {0} \cup TimeoutsOf(relay[r].domain, relay[r].to, relay[r].sent)
    /\ relay[r].down \in {0} \cup TimeoutsOf(relay[r].domain, relay[r].to, relay[r].got)

\* The timeouts of relays and the profiles they come from.
TimeoutsSound == ProfilesSound /\ StoreBounded /\ RelaysSound
=============================================================================
