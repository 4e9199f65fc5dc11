--------------------------- MODULE HandshakeCache ---------------------------
(***************************************************************************)
(* The flights a server answers a ClientHello with                         *)
(* (crypto/handshake_cache.rs): templates fetched from a real site, kept   *)
(* in a cache that the first connection fills if prewarm has not, and that *)
(* a task refreshes.  Of the templates a connection draws one and puts the *)
(* client's session id in it.  The crate has this for its server side; no  *)
(* code of the app calls it.                                               *)
(*                                                                         *)
(* A flight is its session id, its cipher and its records, each with the   *)
(* length its header says and the size its body has.  The random and the   *)
(* key share, which are fresh in every reply, are left out.                *)
(***************************************************************************)
EXTENDS Integers, SequencesExt, FiniteSetsExt

CONSTANTS
  Callers,    \* connections being answered
  Clients,    \* their hellos: [session, ciphers]
  Sites,      \* what the site may send to a fetch: [flight, torn, ends]
  MaxRounds,  \* bound: batches fetched
  MaxCalls,   \* bound: connections in all
  NoFlight    \* the absence of a flight

Hello   == 22
Change  == 20
Sealed  == 23

ASSUME HandshakeCacheConstants ==
  /\ \A c \in Clients : c.session \in Seq(Nat)
  /\ \A s \in Sites : /\ s.ends \in {"closed", "silent"} /\ s.torn \in BOOLEAN
                      /\ s.flight \in [session : Seq(Nat), cipher : STRING,
                                       recs : Seq([type : Nat, len : Nat, size : Nat])]
                      /\ \A r \in ToSet(s.flight.recs) : r.len = r.size

VARIABLES
  cache,      \* HANDSHAKE_CACHE; two equal templates are one here
  warming,    \* WARMING_UP
  refresher,  \* REFRESH_SPAWNED and its task: "none", "asleep" or "fetching"
  prewarmer,  \* prewarm(): "start", "checked", "fetching", "filled" or "done"
  caller,     \* each connection
  rounds, calls
cacheVars == <<cache, warming, refresher, prewarmer, caller, rounds, calls>>

-----------------------------------------------------------------------------
(* Flights. *)

TypesOf(recs) == {r.type : r \in ToSet(recs)}

\* template_is_complete: whole records, and the three types a client waits for.
IsComplete(recs) ==
  {Hello, Change, Sealed} \subseteq TypesOf(recs) /\ \A r \in ToSet(recs) : r.len = r.size

\* The i-th record a fetch reads.  A stream that has ended leaves the header as
\* it was and the body as zeros: read_exact fails inside its timeout, which is
\* all that is looked at.
ReadRecord(site, i) ==
  LET recs == site.flight.recs IN
  CASE i < Len(recs) \/ (i = Len(recs) /\ (~site.torn \/ site.ends = "closed")) -> <<recs[i]>>
    [] i > Len(recs) /\ site.ends = "closed"                                   -> <<Last(recs)>>
    [] OTHER                                                                   -> <<>>

\* fetch_real_server_hello: up to eight records after the first, until the
\* template is complete.
Fetched(site) ==
  LET Read[n \in 1..9] ==
        IF n = 1 THEN ReadRecord(site, 1)
        ELSE IF Read[n - 1] = <<>> \/ IsComplete(Read[n - 1]) THEN Read[n - 1]
        ELSE Read[n - 1] \o ReadRecord(site, n)
  IN  IF site.flight.recs = <<>> \/ site.flight.recs[1].type # Hello \/ ~IsComplete(Read[9])
      THEN NoFlight ELSE [site.flight EXCEPT !.recs = Read[9]]

\* What five fetches at a time may bring.
Batches == SUBSET ({Fetched(s) : s \in Sites} \ {NoFlight})

Preferred == <<"AES256", "AES128", "CHACHA">>

\* pick_cipher.
PickCipher(client) ==
  LET offered == SelectSeq(Preferred, LAMBDA c : c \in client.ciphers)
  IN  IF offered = <<>> THEN "AES128" ELSE offered[1]

\* fallback_server_hello: the body of a ServerHello is 86 bytes and the id.
Fallback(client) ==
  LET n == 86 + Len(client.session)
  IN  [session |-> client.session, cipher |-> PickCipher(client),
       recs |-> <<[type |-> Hello, len |-> n, size |-> n], [type |-> Change, len |-> 1, size |-> 1],
                  [type |-> Sealed, len |-> 2800, size |-> 2800]>>]

\* A flight that begins as a ServerHello and holds its session id: five bytes of
\* header and the body of each record, the id from byte 44 on.
Patchable(flight) ==
  /\ flight.recs[1].type = Hello
  /\ FoldSeq(LAMBDA rec, n : n + 5 + rec.size, 0, flight.recs) >= 44 + Len(flight.session)

Patched(flight, client) ==
  LET diff == Len(client.session) - Len(flight.session)
  IN  [flight EXCEPT !.session = client.session, !.recs[1].size = @ + diff, !.recs[1].len = @ + diff]

\* patch_server_hello: any other flight is answered as it is.
Patch(flight, client) == IF Patchable(flight) THEN Patched(flight, client) ELSE flight

-----------------------------------------------------------------------------
(* get_server_hello_pfs, by a connection. *)

CacheInit ==
  /\ cache = {} /\ warming = FALSE /\ refresher = "none" /\ prewarmer = "start"
  /\ caller = [c \in Callers |-> [at |-> "idle"]]
  /\ rounds = 0 /\ calls = 0

Moves(c, at) == caller' = [caller EXCEPT ![c].at = at]
Replies(c, flight) ==
  caller' = [caller EXCEPT ![c] = [at |-> "answered", client |-> @.client, reply |-> flight]]
Spawned == IF refresher = "none" THEN "asleep" ELSE refresher

Calls(c) ==
  /\ caller[c].at = "idle" /\ calls < MaxCalls
  /\ \E client \in Clients : caller' = [caller EXCEPT ![c] = [at |-> "called", client |-> client]]
  /\ calls' = calls + 1
  /\ UNCHANGED <<cache, warming, refresher, prewarmer, rounds>>

LooksInside(c) ==
  /\ caller[c].at = "called"
  /\ Moves(c, IF cache = {} THEN "found empty" ELSE "draws")
  /\ UNCHANGED <<cache, warming, refresher, prewarmer, rounds, calls>>

\* The first to raise WARMING_UP fetches, the others wait for it.
RaisesWarming(c) ==
  /\ caller[c].at = "found empty"
  /\ Moves(c, IF warming THEN "waits" ELSE "fetches")
  /\ warming' = TRUE
  /\ UNCHANGED <<cache, refresher, prewarmer, rounds, calls>>

\* Its own fallback goes into the cache when nothing was fetched.
FillsCache(c) ==
  /\ caller[c].at = "fetches" /\ rounds < MaxRounds
  /\ \E b \in Batches :
       cache' = cache \cup (IF b = {} THEN {Fallback(caller[c].client)} ELSE b)
  /\ Moves(c, "filled") /\ rounds' = rounds + 1
  /\ UNCHANGED <<warming, refresher, prewarmer, calls>>

\* The refresh is spawned, and the guard of WARMING_UP goes.
LowersWarming(c) ==
  /\ caller[c].at = "filled"
  /\ refresher' = Spawned /\ warming' = FALSE
  /\ Moves(c, "draws")
  /\ UNCHANGED <<cache, prewarmer, rounds, calls>>

\* It waits for five seconds at most, then looks again.
EndsWait(c) ==
  /\ caller[c].at = "waits"
  /\ IF cache = {} THEN Replies(c, Fallback(caller[c].client)) ELSE Moves(c, "draws")
  /\ UNCHANGED <<cache, warming, refresher, prewarmer, rounds, calls>>

\* random_range(0..0) panics.
Draws(c) ==
  /\ caller[c].at = "draws"
  /\ IF cache = {} THEN Moves(c, "panicked")
     ELSE \E t \in cache : Replies(c, Patch(t, caller[c].client))
  /\ UNCHANGED <<cache, warming, refresher, prewarmer, rounds, calls>>

\* The future is dropped, done or while it waits for something; the guard of
\* WARMING_UP goes with it.
IsDropped(c) ==
  /\ caller[c].at \in {"called", "fetches", "waits", "filled", "draws", "answered"}
  /\ caller' = [caller EXCEPT ![c] = [at |-> "idle"]]
  /\ warming' = (warming /\ caller[c].at \notin {"fetches", "filled"})
  /\ UNCHANGED <<cache, refresher, prewarmer, rounds, calls>>

-----------------------------------------------------------------------------
(* prewarm, and the task that refreshes. *)

PrewarmLooks ==
  /\ prewarmer = "start"
  /\ prewarmer' = IF cache = {} THEN "checked" ELSE "done"
  /\ UNCHANGED <<cache, warming, refresher, caller, rounds, calls>>

PrewarmRaises ==
  /\ prewarmer = "checked"
  /\ prewarmer' = IF warming THEN "done" ELSE "fetching"
  /\ warming' = TRUE
  /\ UNCHANGED <<cache, refresher, caller, rounds, calls>>

PrewarmFills ==
  /\ prewarmer = "fetching" /\ rounds < MaxRounds
  /\ \E b \in Batches : cache' = cache \cup b
  /\ prewarmer' = "filled" /\ rounds' = rounds + 1
  /\ UNCHANGED <<warming, refresher, caller, calls>>

PrewarmEnds ==
  /\ prewarmer = "filled"
  /\ refresher' = Spawned /\ warming' = FALSE /\ prewarmer' = "done"
  /\ UNCHANGED <<cache, caller, rounds, calls>>

\* Mutant: what the refresh brought is stored, be it nothing.
MutStoreAny(batch) == batch

Refreshed(batch) == IF batch = {} THEN cache ELSE batch

\* Half an hour later.
RefreshWakes ==
  /\ refresher = "asleep" /\ rounds < MaxRounds
  /\ refresher' = "fetching" /\ rounds' = rounds + 1
  /\ UNCHANGED <<cache, warming, prewarmer, caller, calls>>

RefreshStores ==
  /\ refresher = "fetching"
  /\ \E b \in Batches : cache' = Refreshed(b)
  /\ refresher' = "asleep"
  /\ UNCHANGED <<warming, prewarmer, caller, rounds, calls>>

CacheNext ==
  \/ \E c \in Callers :
       \/ Calls(c) \/ LooksInside(c) \/ RaisesWarming(c) \/ FillsCache(c) \/ LowersWarming(c)
       \/ EndsWait(c) \/ Draws(c) \/ IsDropped(c)
  \/ PrewarmLooks \/ PrewarmRaises \/ PrewarmFills \/ PrewarmEnds
  \/ RefreshWakes \/ RefreshStores

-----------------------------------------------------------------------------
(* Properties. *)

\* Whoever warms, waits, refreshes or is cancelled, no connection draws from an
\* empty cache, and each is answered in whole records of the three types its
\* client waits for, with its own session id: but for a site whose flight is too
\* short to have one, which is answered unpatched.
AnswersFit ==
  \A c \in Callers :
    /\ caller[c].at # "panicked"
    /\ caller[c].at = "answered" =>
         /\ IsComplete(caller[c].reply.recs)
         /\ caller[c].reply.session = caller[c].client.session \/ ~Patchable(caller[c].reply)
=============================================================================
