---------------------------- MODULE SessionAuth ----------------------------
(***************************************************************************)
(* Clocks and tokens.  A dial sends a token with the time the client takes *)
(* for the server's (crypto/hello_auth.rs); the server accepts a token     *)
(* whose time is near its own and that it has not seen, and answers with   *)
(* its time, from which the client learns the offset of its clock          *)
(* (time_sync.rs).  Dials of several pools do so at once, the network may  *)
(* bring a token late or twice, and either clock may be set.               *)
(*                                                                         *)
(* Times are in seconds.  A token is its number; the keyed tag, which a    *)
(* server with another password refuses, is left out.  The side that       *)
(* verifies is in the crate for its server; the app only makes tokens.     *)
(***************************************************************************)
EXTENDS Integers, FiniteSets, Sequences

CONSTANTS
  Dials,       \* dials under way
  Skews,       \* how far the client's clock may be from the server's
  TsTolerance, \* DEFAULT_AUTH_TS_TOLERANCE_SECS
  BucketSecs,  \* REPLAY_BUCKET_SECS
  BucketCap,   \* 100_000 in the code
  Day,         \* 86400 in the code
  MaxTime,     \* bound: seconds that pass
  MaxTokens,   \* bound: tokens made
  MaxSets,     \* bound: times a clock is set
  NoLag        \* no synchronisation yet

ASSUME SessionAuthConstants ==
  /\ Skews \subseteq Int /\ {TsTolerance, BucketCap, Day, MaxTime, MaxTokens} \subseteq Nat
  /\ BucketSecs \in Nat \ {0} /\ NoLag \notin Int

VARIABLES
  serverClock,  \* local_now_sec of the server
  skew,         \* the server's clock less the client's
  offset,       \* TIME_OFFSET
  lag,          \* how old the server's time was when offset was computed (history)
  dial,         \* each dial
  tokens,       \* the tokens made: number -> [ts, made, lag]
  hwm,          \* the highest bucket the replay cache has met
  seen,         \* the tokens of its buckets
  accepted,     \* how often each token was accepted (history)
  setBack,      \* seconds the server's clock was set back, in all (history)
  sets, passed
authVars == <<serverClock, skew, offset, lag, dial, tokens, hwm, seen, accepted, sets, passed, setBack>>

AuthInit ==
  /\ serverClock = 10 * BucketSecs /\ skew \in Skews
  /\ offset = 0 /\ lag = NoLag
  /\ dial = [d \in Dials |-> [at |-> "idle"]]
  /\ tokens = << >> /\ hwm = 0 /\ seen = {} /\ accepted = << >>
  /\ setBack = 0 /\ sets = 0 /\ passed = 0

clientVars == <<offset, lag, tokens>>
replayVars == <<hwm, seen, accepted>>
clockVars  == <<serverClock, skew, sets, passed, setBack>>

-----------------------------------------------------------------------------
(* The client. *)

ClientClock == serverClock - skew
NotNegative(n) == IF n < 0 THEN 0 ELSE n
NowSec == NotNegative(ClientClock + offset)

\* make_session_token.
MakesToken(d) ==
  /\ dial[d].at = "idle" /\ Len(tokens) < MaxTokens
  /\ tokens' = Append(tokens, [ts |-> NowSec, made |-> serverClock, lag |-> lag])
  /\ accepted' = Append(accepted, 0)
  /\ dial' = [dial EXCEPT ![d] = [at |-> "sent", token |-> Len(tokens) + 1]]
  /\ UNCHANGED <<offset, lag, hwm, seen>> /\ UNCHANGED clockVars


OffsetFrom(serverTime) == serverTime - ClientClock

\* set_offset_from_server_time reads the clock ...
ReadsTime(d) ==
  /\ dial[d].at = "told"
  /\ LET learned == OffsetFrom(dial[d].time) IN
     dial' = [dial EXCEPT ![d] =
                IF learned > Day \/ -learned > Day THEN [at |-> "idle"]
                ELSE [at |-> "swaps", offset |-> learned, lag |-> serverClock - dial[d].time]]
  /\ UNCHANGED replayVars /\ UNCHANGED clientVars /\ UNCHANGED clockVars

\* ... and swaps the offset: of two dials, the last to get here wins.
SwapsOffset(d) ==
  /\ dial[d].at = "swaps"
  /\ offset' = dial[d].offset /\ lag' = dial[d].lag
  /\ dial' = [dial EXCEPT ![d] = [at |-> "idle"]]
  /\ UNCHANGED <<tokens, replayVars>> /\ UNCHANGED clockVars

\* Refused, cut or timed out.
DialFails(d) ==
  /\ dial[d].at \in {"sent", "told"}
  /\ dial' = [dial EXCEPT ![d] = [at |-> "idle"]]
  /\ UNCHANGED replayVars /\ UNCHANGED clientVars /\ UNCHANGED clockVars

-----------------------------------------------------------------------------
(* The server. *)

\* Mutant: buckets are kept for one side of the window.
MutRetainHalf == TsTolerance \div BucketSecs

RetainBuckets == (2 * TsTolerance) \div BucketSecs + 2

Within(ts) == serverClock <= ts + TsTolerance /\ ts <= serverClock + TsTolerance

BucketOf(t) == tokens[t].ts \div BucketSecs

\* verify_session_token: a clock set far back empties the cache, a bucket too
\* old goes, and a full one takes no more.
Verifies(t) ==
  LET bucket  == BucketOf(t)
      back    == bucket + RetainBuckets < hwm
      top     == IF back \/ bucket > hwm THEN bucket ELSE hwm
      kept    == IF back THEN {} ELSE {s \in seen : NotNegative(top - BucketOf(s)) <= RetainBuckets}
      mine    == {s \in kept : BucketOf(s) = bucket}
      isNew   == Cardinality(mine) <= BucketCap /\ t \notin mine
  IN  IF ~Within(tokens[t].ts) THEN UNCHANGED <<hwm, seen, accepted, dial>>
      ELSE /\ hwm' = top
           /\ seen' = IF isNew THEN kept \cup {t} ELSE kept
           /\ accepted' = IF isNew THEN [accepted EXCEPT ![t] = @ + 1] ELSE accepted
           /\ dial' = IF isNew
                      THEN [d \in Dials |->
                              IF dial[d].at = "sent" /\ dial[d].token = t
                              THEN [at |-> "told", time |-> serverClock] ELSE dial[d]]
                      ELSE dial

\* The network brings a token, for the first time or again.
Arrives(t) ==
  /\ t \in DOMAIN tokens
  /\ Verifies(t)
  /\ UNCHANGED clientVars /\ UNCHANGED clockVars

-----------------------------------------------------------------------------
(* Clocks. *)

SecondPasses ==
  /\ passed < MaxTime
  /\ serverClock' = serverClock + 1 /\ passed' = passed + 1
  /\ UNCHANGED <<skew, sets, setBack, dial, replayVars>> /\ UNCHANGED clientVars

ClientClockSet(s) ==
  /\ sets < MaxSets /\ s # skew
  /\ skew' = s /\ sets' = sets + 1
  /\ UNCHANGED <<serverClock, passed, setBack, dial, replayVars>> /\ UNCHANGED clientVars

\* The server's clock is set by as much as a skew; the client's stays.
ServerClockSet(s) ==
  /\ sets < MaxSets /\ s # 0 /\ serverClock + s >= 0
  /\ serverClock' = serverClock + s /\ skew' = skew + s
  /\ sets' = sets + 1 /\ setBack' = setBack + NotNegative(-s)
  /\ UNCHANGED <<passed, dial, replayVars>> /\ UNCHANGED clientVars

AuthNext ==
  \/ \E d \in Dials : MakesToken(d) \/ ReadsTime(d) \/ SwapsOffset(d) \/ DialFails(d)
  \/ \E t \in 1..MaxTokens : Arrives(t)
  \/ SecondPasses
  \/ \E s \in Skews : ClientClockSet(s) \/ ServerClockSet(s)

-----------------------------------------------------------------------------
(* Properties. *)

\* However often a token arrives, and wherever clients' clocks stand, it is
\* accepted once, as long as the server's clock is not set back by more than the
\* bucket that is kept to spare.
AcceptedOnce == setBack <= BucketSecs => \A t \in DOMAIN accepted : accepted[t] <= 1

\* Once the client has learned the time, by whichever dial and however late, its
\* tokens are fresh for the server, unless the way there and the way of the time
\* took longer than the tolerance together, or a clock was set.
LearnedGetsIn ==
  \A t \in DOMAIN tokens :
    (sets = 0 /\ tokens[t].lag # NoLag
     /\ serverClock - tokens[t].made + tokens[t].lag <= TsTolerance) => Within(tokens[t].ts)

\* A client is let in, and a copy of what it sent is not.
TokensSound == AcceptedOnce /\ LearnedGetsIn
=============================================================================
