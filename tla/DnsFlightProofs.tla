-------------------------- MODULE DnsFlightProofs --------------------------
(***************************************************************************)
(* Proofs about DnsFlight, for any number of callers, domains, addresses,  *)
(* clears and entries of the cache: the flight map is sound, and the       *)
(* resolver implements DnsCall.                                            *)
(***************************************************************************)
EXTENDS DnsFlight, FiniteSetTheorems, TLAPS

\* A caller that does not follow has the channel it was born with, and its domain.
LeadersOwn ==
  /\ \A c \in Callers : pc[c] # "idle" => dom[c] \in Domains
  /\ \A c \in Callers : pc[c] \notin {"wait", "done"} => chan[c] = c

\* A flight is that of a leader of its domain, and every leader that still asks
\* and started after the last clear has the flight.
FlightsOwned ==
  /\ \A d \in Domains : flights[d] # None => flights[d] \in Leaders /\ dom[flights[d]] = d
  /\ \A c \in Callers : since[c] <= clears
  /\ \A c \in Callers : pc[c] = "query" /\ since[c] = clears => flights[dom[c]] = c

\* The cache is finite.
CacheFinite == IsFiniteSet(Cached)

IInv == TypeOK /\ CacheFinite /\ LeadersOwn /\ FlightsOwned /\ SingleFlight

-----------------------------------------------------------------------------
(* The flight map. *)

\* The initial states satisfy the invariant.
LEMMA InitInv == Init => IInv
<1>. SUFFICES ASSUME Init PROVE IInv
  OBVIOUS
<1>1. Cached = {}
  BY DEF Init, Cached
<1>2. TypeOK /\ CacheFinite
  BY <1>1, FS_EmptySet, FlightAssumption DEF Init, TypeOK, CacheFinite
<1>3. LeadersOwn /\ FlightsOwned /\ SingleFlight
  BY FlightAssumption DEF Init, LeadersOwn, FlightsOwned, SingleFlight, Leaders
<1>. QED  BY <1>2, <1>3 DEF IInv

\* insert_direct_cache makes room for one entry.
LEMMA RoomMade ==
  ASSUME TypeOK, CacheFinite, NEW kept \in Kept
  PROVE  kept \subseteq Cached /\ IsFiniteSet(kept) /\ Cardinality(kept) < CacheMax
<1>1. kept \subseteq Cached
  BY DEF Kept, TypeOK
<1>2. IsFiniteSet(kept) /\ Cardinality(kept) \in Nat /\ Cardinality(Cached) \in Nat
  BY <1>1, FS_Subset, FS_CardinalityType DEF CacheFinite
<1>3. CASE Cardinality(Cached) < CacheMax \/ Cardinality(fresh) < CacheMax
  BY <1>1, <1>2, <1>3 DEF Kept
<1>4. CASE ~(Cardinality(Cached) < CacheMax \/ Cardinality(fresh) < CacheMax)
  <2>1. PICK d \in Cached : kept = Cached \ {d}
    BY <1>4 DEF Kept
  <2>2. Cardinality(kept) = Cardinality(Cached) - 1
    BY <2>1, FS_RemoveElement DEF CacheFinite
  <2>. QED  BY <2>2, <1>1, <1>2, FlightAssumption DEF TypeOK
<1>. QED  BY <1>3, <1>4

\* An answer keeps the cache within its capacity.
LEMMA AnswerCached ==
  ASSUME TypeOK, CacheFinite, LeadersOwn, NEW c \in Callers, NEW ip \in Ips, Answer(c, ip)
  PROVE  /\ cache' \in [Domains -> Ips \cup {None}] /\ (fresh \subseteq Cached)'
         /\ IsFiniteSet(Cached') /\ Cardinality(Cached') <= CacheMax
<1>1. PICK kept \in Kept :
        /\ cache' = [d \in Domains |-> IF d = dom[c] THEN ip
                                       ELSE IF d \in kept THEN cache[d] ELSE None]
        /\ fresh' = (fresh \cap kept) \cup {dom[c]}
  BY DEF Answer
<1>2. kept \subseteq Cached /\ IsFiniteSet(kept) /\ Cardinality(kept) < CacheMax
  BY RoomMade
<1>3. dom[c] \in Domains
  BY DEF Answer, LeadersOwn
<1>4. cache' \in [Domains -> Ips \cup {None}]
  BY <1>1 DEF TypeOK
<1>5. Cached' = kept \cup {dom[c]}
  BY <1>1, <1>2, <1>3, FlightAssumption DEF Cached
<1>6. fresh' \subseteq Cached'
  BY <1>1, <1>5
<1>7. IsFiniteSet(Cached')
  BY <1>5, <1>2, FS_AddElement
<1>8. Cardinality(Cached') <= CacheMax
  <2>1. Cardinality(kept) \in Nat
    BY <1>2, FS_CardinalityType
  <2>2. Cardinality(Cached') \in {Cardinality(kept), Cardinality(kept) + 1}
    BY <1>5, <1>2, FS_AddElement
  <2>. QED  BY <2>1, <2>2, <1>2, FlightAssumption
<1>. QED  BY <1>4, <1>6, <1>7, <1>8

\* What a step that leaves the cache alone keeps of it.
LEMMA CacheKept ==
  ASSUME TypeOK, CacheFinite, UNCHANGED cache, fresh' \subseteq fresh
  PROVE  /\ cache' \in [Domains -> Ips \cup {None}] /\ (fresh \subseteq Cached)'
         /\ IsFiniteSet(Cached') /\ Cardinality(Cached') <= CacheMax
<1>1. Cached' = Cached
  BY DEF Cached
<1>. QED  BY <1>1 DEF TypeOK, CacheFinite

\* The types, and a finite cache, are kept by every step.
LEMMA TypeStep ==
  ASSUME IInv, [Next]_vars
  PROVE  TypeOK' /\ CacheFinite'
<1>. USE FlightAssumption DEF IInv
<1>1. CASE UNCHANGED vars
  BY <1>1, CacheKept DEF vars, callerVars, TypeOK, CacheFinite
<1>2. ASSUME NEW c \in Callers, Step(c) \/ Cancel(c) \/ \E d \in Domains : Call(c, d)
      PROVE  TypeOK' /\ CacheFinite'
  <2>1. UNCHANGED <<cache, fresh>>
    BY <1>2 DEF Step, CacheHit, CacheMiss, Lead, Follow, FollowerEnds, NoAnswer, Send, Unlist,
                Cancel, Call
  <2>2. /\ cache' \in [Domains -> Ips \cup {None}] /\ (fresh \subseteq Cached)'
        /\ IsFiniteSet(Cached') /\ Cardinality(Cached') <= CacheMax
    BY <2>1, CacheKept
  <2>3. CASE CacheHit(c)
    BY <2>2, <2>3 DEF CacheHit, Returns, Goes, TypeOK, CacheFinite, Cached
  <2>4. CASE CacheMiss(c) \/ Cancel(c) \/ NoAnswer(c)
    BY <2>2, <2>4 DEF CacheMiss, Cancel, NoAnswer, Goes, TypeOK, CacheFinite
  <2>5. CASE Lead(c)
    BY <2>2, <2>5 DEF Lead, Goes, TypeOK, CacheFinite
  <2>6. CASE Follow(c)
    <3>1. dom[c] \in Domains
      BY <2>6 DEF Follow, LeadersOwn
    <3>2. flights[dom[c]] \in Callers
      BY <3>1, <2>6 DEF Follow, FlightOf, TypeOK
    <3>. QED  BY <3>2, <2>2, <2>6 DEF Follow, FlightOf, Goes, TypeOK, CacheFinite
  <2>7. CASE FollowerEnds(c)
    BY <2>2, <2>7 DEF FollowerEnds, Returns, Goes, TypeOK, CacheFinite
  <2>8. CASE Send(c)
    BY <2>2, <2>8 DEF Send, Goes, TypeOK, CacheFinite
  <2>9. CASE Unlist(c)
    BY <2>2, <2>9 DEF Unlist, Returns, Goes, TypeOK, CacheFinite
  <2>10. ASSUME NEW d \in Domains, Call(c, d)  PROVE TypeOK' /\ CacheFinite'
    BY <2>2, <2>10 DEF Call, Goes, TypeOK, CacheFinite
  <2>. QED  BY <2>3, <2>4, <2>5, <2>6, <2>7, <2>8, <2>9, <2>10, <1>2 DEF Step
<1>3. ASSUME NEW c \in Callers, NEW ip \in Ips, Answer(c, ip)  PROVE TypeOK' /\ CacheFinite'
  <2>1. dom[c] \in Domains
    BY <1>3 DEF Answer, LeadersOwn
  <2>2. /\ cache' \in [Domains -> Ips \cup {None}] /\ (fresh \subseteq Cached)'
        /\ IsFiniteSet(Cached') /\ Cardinality(Cached') <= CacheMax
    BY <1>3, AnswerCached
  <2>3. learned' \subseteq Domains \X Ips
    BY <2>1, <1>3 DEF Answer, TypeOK
  <2>. QED  BY <2>2, <2>3, <1>3 DEF Answer, Goes, TypeOK, CacheFinite
<1>4. ASSUME NEW d \in Domains, Expire(d)  PROVE TypeOK' /\ CacheFinite'
  BY <1>4, CacheKept DEF Expire, callerVars, TypeOK, CacheFinite
<1>5. CASE ClearDirectCache
  <2>1. Cached' = {}
    BY <1>5 DEF ClearDirectCache, Cached
  <2>. QED  BY <2>1, <1>5, FS_EmptySet DEF ClearDirectCache, callerVars, TypeOK, CacheFinite
<1>. QED  BY <1>1, <1>2, <1>3, <1>4, <1>5 DEF Next

\* Leaders, flights and starts are kept by every step.
LEMMA FlightStep ==
  ASSUME IInv, [Next]_vars
  PROVE  LeadersOwn' /\ FlightsOwned' /\ SingleFlight'
<1>. USE FlightAssumption DEF IInv, TypeOK, LeadersOwn, FlightsOwned, SingleFlight, Leaders
<1>1. CASE UNCHANGED vars
  BY <1>1 DEF vars, callerVars
<1>2. ASSUME NEW c \in Callers, Step(c)  PROVE LeadersOwn' /\ FlightsOwned' /\ SingleFlight'
  <2>1. CASE CacheHit(c)
    BY <2>1 DEF CacheHit, Returns, Goes
  <2>2. CASE CacheMiss(c)
    BY <2>2 DEF CacheMiss, Goes
  <2>3. CASE Lead(c)
    <3>1. /\ pc[c] = "flight" /\ chan[c] = c /\ dom[c] \in Domains /\ flights[dom[c]] = None
          /\ pc' = [pc EXCEPT ![c] = "query"] /\ flights' = [flights EXCEPT ![dom[c]] = c]
          /\ since' = [since EXCEPT ![c] = clears] /\ UNCHANGED <<dom, chan, clears>>
      BY <2>3 DEF Lead, FlightOf, Goes
    <3>2. LeadersOwn'
      BY <3>1
    <3>3. FlightsOwned'
      BY <3>1
    <3>4. SingleFlight'
      BY <3>1
    <3>. QED  BY <3>2, <3>3, <3>4
  <2>4. CASE Follow(c)
    <3>1. pc[c] = "flight" /\ pc' = [pc EXCEPT ![c] = "wait"] /\ UNCHANGED <<flights, dom, clears, since>>
      BY <2>4 DEF Follow, Goes
    <3>2. Leaders' = Leaders /\ \A b \in Callers : pc'[b] = "query" <=> pc[b] = "query"
      <4>1. \A b \in Callers : pc'[b] = IF b = c THEN "wait" ELSE pc[b]
        BY <3>1
      <4>. QED  BY <4>1, <3>1
    <3>3. \A b \in Callers \ {c} : chan'[b] = chan[b]
      BY <2>4 DEF Follow
    <3>4. LeadersOwn'
      BY <3>1, <3>2, <3>3
    <3>5. FlightsOwned' /\ SingleFlight'
      BY <3>1, <3>2
    <3>. QED  BY <3>4, <3>5
  <2>5. CASE FollowerEnds(c)
    BY <2>5 DEF FollowerEnds, Returns, Goes
  <2>6. CASE NoAnswer(c)
    BY <2>6 DEF NoAnswer, GivesUp, Goes
  <2>7. CASE Send(c)
    BY <2>7 DEF Send, Goes
  <2>8. CASE Unlist(c)
    BY <2>8 DEF Unlist, Mine, Returns, Goes
  <2>. QED  BY <2>1, <2>2, <2>3, <2>4, <2>5, <2>6, <2>7, <2>8, <1>2 DEF Step
<1>3. ASSUME NEW c \in Callers, Cancel(c)  PROVE LeadersOwn' /\ FlightsOwned' /\ SingleFlight'
  BY <1>3 DEF Cancel, Goes
<1>4. ASSUME NEW c \in Callers, NEW d \in Domains, Call(c, d)
      PROVE  LeadersOwn' /\ FlightsOwned' /\ SingleFlight'
  BY <1>4 DEF Call, Goes
<1>5. ASSUME NEW c \in Callers, NEW ip \in Ips, Answer(c, ip)
      PROVE  LeadersOwn' /\ FlightsOwned' /\ SingleFlight'
  BY <1>5 DEF Answer, Goes
<1>6. ASSUME NEW d \in Domains, Expire(d)  PROVE LeadersOwn' /\ FlightsOwned' /\ SingleFlight'
  BY <1>6 DEF Expire, callerVars
<1>7. CASE ClearDirectCache
  BY <1>7 DEF ClearDirectCache, callerVars
<1>. QED  BY <1>1, <1>2, <1>3, <1>4, <1>5, <1>6, <1>7 DEF Next

\* The invariant is inductive.
LEMMA NextInv == IInv /\ [Next]_vars => IInv'
BY TypeStep, FlightStep DEF IInv

\* The inductive invariant of the resolver.
THEOREM InvariantHolds == Spec => []IInv
BY InitInv, NextInv, PTL DEF Spec

\* Single flight (tun/dns.rs:234): whatever is cleared, expires or is cancelled,
\* an entry of the flight map has a leader that will take it away, two leaders
\* ask about one domain only across a clear, and the cache keeps to its capacity.
THEOREM FlightsAreSound == Spec => []FlightsSound
<1>1. IInv => FlightsLed
  <2>. SUFFICES ASSUME IInv, NEW d \in Domains, flights[d] # None
                PROVE  \E c \in Leaders : dom[c] = d /\ chan[c] = flights[d]
    BY DEF FlightsLed
  <2>1. flights[d] \in Leaders /\ dom[flights[d]] = d
    BY DEF IInv, FlightsOwned
  <2>. QED  BY <2>1 DEF IInv, LeadersOwn, Leaders
<1>2. IInv => FlightsSound
  BY <1>1 DEF IInv, FlightsSound
<1>. QED  BY <1>2, InvariantHolds, PTL

-----------------------------------------------------------------------------
(* The promise to the callers. *)

\* What a caller may be given was learned about its own domain, wherever it comes
\* from: the cache, the channel of another call, or its own upstreams.
Learned ==
  /\ \A d \in Domains : cache[d] # None => <<d, cache[d]>> \in learned
  /\ \A c \in Callers : res[c] # None => pc[c] # "idle" /\ <<dom[c], res[c]>> \in learned
  /\ \A c \in Callers : sent[c] # None => pc[c] # "idle" /\ <<dom[c], sent[c]>> \in learned
  /\ \A c \in Callers : pc[c] = "wait" => pc[chan[c]] # "idle" /\ dom[chan[c]] = dom[c]

\* Nobody has learned anything at first.
LEMMA InitLearned == Init => Learned
BY DEF Init, Learned

\* Every step keeps it.
LEMMA LearnedStep ==
  ASSUME IInv, Learned, [Next]_vars
  PROVE  Learned'
<1>. USE FlightAssumption DEF IInv, TypeOK, LeadersOwn, Learned
<1>1. CASE UNCHANGED vars
  BY <1>1 DEF vars, callerVars
<1>2. ASSUME NEW c \in Callers, Step(c)  PROVE Learned'
  <2>1. CASE CacheHit(c)
    BY <2>1 DEF CacheHit, Returns, Goes, Cached
  <2>2. CASE CacheMiss(c)
    BY <2>2 DEF CacheMiss, Goes
  <2>3. CASE Lead(c)
    BY <2>3 DEF Lead, Goes
  <2>4. CASE Follow(c)
    BY <2>4 DEF Follow, FlightOf, FlightsOwned, Leaders, Goes
  <2>5. CASE FollowerEnds(c)
    BY <2>5 DEF FollowerEnds, Returns, Goes
  <2>6. CASE NoAnswer(c)
    BY <2>6 DEF NoAnswer, Goes
  <2>7. CASE Send(c)
    BY <2>7 DEF Send, Goes
  <2>8. CASE Unlist(c)
    BY <2>8 DEF Unlist, Returns, Goes
  <2>. QED  BY <2>1, <2>2, <2>3, <2>4, <2>5, <2>6, <2>7, <2>8, <1>2 DEF Step
<1>3. ASSUME NEW c \in Callers, Cancel(c)  PROVE Learned'
  BY <1>3 DEF Cancel, Goes
<1>4. ASSUME NEW c \in Callers, NEW d \in Domains, Call(c, d)  PROVE Learned'
  BY <1>4 DEF Call, Goes
<1>5. ASSUME NEW c \in Callers, NEW ip \in Ips, Answer(c, ip)  PROVE Learned'
  BY <1>5 DEF Answer, Goes
<1>6. ASSUME NEW d \in Domains, Expire(d)  PROVE Learned'
  BY <1>6 DEF Expire, callerVars
<1>7. CASE ClearDirectCache
  BY <1>7 DEF ClearDirectCache, callerVars
<1>. QED  BY <1>1, <1>2, <1>3, <1>4, <1>5, <1>6, <1>7 DEF Next

\* A caller that has neither begun nor ended is at work on its domain.
AtWork(c) == pc[c] \notin {"idle", "done"}

\* Every step of the resolver is a step of the promise, or changes nothing in it.
LEMMA StepsAreKept ==
  ASSUME IInv, Learned, [Next]_vars
  PROVE  [Promise!Next]_(Promise!callVars)
<1>. USE FlightAssumption DEF IInv, TypeOK, LeadersOwn, Promise!callVars
<1>1. CASE UNCHANGED vars
  BY <1>1 DEF vars, callerVars, Asking, Result
<1>2. ASSUME NEW c \in Callers, NEW ip \in Ips \cup {None}, AtWork(c), Returns(c, ip),
             UNCHANGED learned, ip # None => <<dom[c], ip>> \in learned
      PROVE  Promise!Next
  <2>1. /\ pc' = [pc EXCEPT ![c] = "done"] /\ res' = [res EXCEPT ![c] = ip] /\ UNCHANGED dom
        /\ pc[c] \notin {"idle", "done"} /\ dom[c] \in Domains
    BY <1>2 DEF Returns, Goes, AtWork
  <2>2. Asking[c] = dom[c] /\ Asking' = [Asking EXCEPT ![c] = None]
    BY <2>1 DEF Asking
  <2>3. Result' = [Result EXCEPT ![c] = ip]
    BY <2>1 DEF Result
  <2>4. Promise!Return(c, ip)
    BY <1>2, <2>1, <2>2, <2>3 DEF Promise!Return
  <2>. QED  BY <2>4 DEF Promise!Next
<1>3. ASSUME NEW c \in Callers, AtWork(c), AtWork(c)', UNCHANGED <<dom, learned>>,
             \A b \in Callers \ {c} : pc'[b] = pc[b] /\ res'[b] = res[b]
      PROVE  UNCHANGED Promise!callVars
  BY <1>3 DEF Asking, Result, AtWork
<1>4. ASSUME NEW c \in Callers, Step(c) \/ Cancel(c)  PROVE [Promise!Next]_(Promise!callVars)
  <2>1. CASE CacheHit(c)
    <3>1. cache[dom[c]] \in Ips /\ <<dom[c], cache[dom[c]]>> \in learned
      BY <2>1 DEF CacheHit, Cached, Learned
    <3>. QED  BY <3>1, <2>1, <1>2 DEF CacheHit, AtWork
  <2>2. CASE FollowerEnds(c)
    <3>1. sent[chan[c]] # None => <<dom[c], sent[chan[c]]>> \in learned
      BY <2>2 DEF FollowerEnds, Learned
    <3>. QED  BY <3>1, <2>2, <1>2 DEF FollowerEnds, AtWork
  <2>3. CASE Unlist(c)
    <3>1. res[c] # None => <<dom[c], res[c]>> \in learned
      BY DEF Learned
    <3>. QED  BY <3>1, <2>3, <1>2 DEF Unlist, AtWork
  <2>4. CASE CacheMiss(c) \/ Lead(c) \/ Follow(c) \/ NoAnswer(c) \/ Send(c) \/ Cancel(c)
    BY <2>4, <1>3 DEF CacheMiss, Lead, Follow, NoAnswer, GivesUp, Send, Cancel, Goes, AtWork
  <2>. QED  BY <2>1, <2>2, <2>3, <2>4, <1>4 DEF Step
<1>5. ASSUME NEW c \in Callers, NEW d \in Domains, Call(c, d)  PROVE Promise!Next
  <2>1. Promise!Ask(c, d)
    BY ZenonT(40), <1>5 DEF Promise!Ask, Call, Goes, Asking, Result
  <2>. QED  BY <2>1 DEF Promise!Next
<1>6. ASSUME NEW c \in Callers, NEW ip \in Ips, Answer(c, ip)  PROVE Promise!Next
  <2>1. dom[c] \in Domains /\ AtWork(c)
    BY <1>6 DEF Answer, AtWork
  <2>2. Promise!Learn(dom[c], ip)
    BY <2>1, <1>6 DEF Promise!Learn, Answer, Goes, Asking, Result, AtWork
  <2>. QED  BY <2>1, <2>2 DEF Promise!Next
<1>7. CASE (\E d \in Domains : Expire(d)) \/ ClearDirectCache
  BY <1>7 DEF Expire, ClearDirectCache, callerVars, Asking, Result
<1>. QED  BY <1>1, <1>4, <1>5, <1>6, <1>7 DEF Next

\* The resolver implements DnsCall (resolve_upstream, tun/dns.rs:229): a call ends
\* with nothing, or with an address that an upstream gave for its own domain.
THEOREM PromiseIsKept == Spec => KeepsPromise
<1>1. Init => Promise!Init
  BY DEF Init, Promise!Init, Asking, Result
<1>2. IInv /\ Learned /\ [Next]_vars => Learned' /\ [Promise!Next]_(Promise!callVars)
  BY LearnedStep, StepsAreKept
<1>. QED  BY <1>1, <1>2, InitLearned, InvariantHolds, PTL DEF Spec, KeepsPromise, Promise!Spec
=============================================================================
