----------------------------- MODULE Outbounds -----------------------------
(***************************************************************************)
(* The outbounds of an engine (proxy/outbound.rs): once they are built     *)
(* (OutboundBuild), every connection asks the default outbound for a leaf, *)
(* going down through groups that choose by health, by latency or in turn, *)
(* while the pools of the leaves report successes and failures.            *)
(*                                                                         *)
(* A group is looked at before its lock is taken: the members that were    *)
(* healthy, and the fastest one, may have changed when the choice is made. *)
(* That window is kept for the group a connection starts from; below it a  *)
(* choice is one step.                                                     *)
(***************************************************************************)
EXTENDS OutboundBuild, FiniteSetsExt

CONSTANTS
  Default,     \* the tag connections start from
  Conns,       \* connections being made
  Latencies,   \* medians a pool may show, in milliseconds
  Tolerance,   \* tolerance_ms
  MaxReports,  \* bound: reports of the pools
  MaxConnects, \* bound: connections in all
  MaxPolls,    \* bound: latencies read for the status bar
  NoTag        \* the absence of a member, and of a median

\* Nothing connects without the default outbound.
ASSUME OutboundsConstants ==
  /\ Latencies \subseteq Nat /\ Tolerance \in Nat /\ NoTag \notin Latencies
  /\ \A c \in Configs : Default \in Known(c)

VARIABLES
  sick,     \* the pools with three failures in a row
  median,   \* PoolStats.latency_ms of each pool
  closed,   \* the pools that were shut down
  current,  \* the member each urltest keeps
  next,     \* the cursor of each load balance
  conn,     \* where each connection is
  uses,     \* how often the default balance handed out each member (history)
  reports,
  connects,
  polls
runVars == <<sick, median, closed, current, next, conn, uses, reports, connects, polls>>
outVars == <<buildVars, runVars>>

OutInit ==
  /\ BuildInit
  /\ sick = {} /\ closed = {}
  /\ median = [t \in Known(config) |-> NoTag]
  /\ current = [t \in Known(config) |-> NoTag]
  /\ next = [t \in Known(config) |-> 0]
  /\ conn = [c \in Conns |-> [at |-> "idle"]]
  /\ uses = [t \in Known(config) |-> 0]
  /\ reports = 0 /\ connects = 0 /\ polls = 0

-----------------------------------------------------------------------------
(* Choosing.  marks is the pair of current and next a choice may change. *)

Node(t) == CHOOSE e \in built : e.tag = t
IsGroup(t) == Node(t).kind \in {"urltest", "fallback", "selector", "balance"}
Members(t) == Node(t).refs

\* A group is built after what it refers to, so a way down passes each entry of
\* the list once at most.
Depth == Len(config)

\* The members below a node that are not groups.
Below(t) ==
  LET Under[n \in 0..Depth] ==
        [m \in Known(config) |->
           IF n = 0 \/ ~IsGroup(m) THEN {m}
           ELSE UNION {Under[n - 1][k] : k \in ToSet(Members(m))}]
  IN  Under[Depth][t]

Healthy(t) == \E l \in Below(t) : l \notin sick
HealthyMembers(t) ==
  LET list == Members(t)
      Kept[i \in 0..Len(list)] ==
        IF i = 0 THEN <<>>
        ELSE IF Healthy(list[i]) THEN Append(Kept[i - 1], list[i]) ELSE Kept[i - 1]
  IN  Kept[Len(list)]

\* PoolStats has no median for a leaf that is not a pool.
LeafLatency(t) == IF IsGroup(t) THEN NoTag ELSE median[t]

\* In what follows down[m][marks] is the leaf that a member m gives, and what has
\* become of marks.  latency_ms of a group asks it for a leaf, with all that
\* changes.
Latency(down, t, marks) ==
  IF ~IsGroup(t) THEN [ms |-> LeafLatency(t), marks |-> marks]
  ELSE [ms |-> LeafLatency(down[t][marks].leaf), marks |-> down[t][marks].marks]

\* The healthy members in order and, for a urltest, how fast each one is.
Look(down, t, marks) ==
  LET healthy == HealthyMembers(t)
      Asked[i \in 0..Len(healthy)] ==
        IF i = 0 THEN [ms |-> NoTag, marks |-> marks]
        ELSE Latency(down, healthy[i], Asked[i - 1].marks)
  IN  IF Node(t).kind = "urltest"
      THEN [seen |-> [i \in DOMAIN healthy |-> [tag |-> healthy[i], ms |-> Asked[i].ms]],
            marks |-> Asked[Len(healthy)].marks]
      ELSE [seen |-> [i \in DOMAIN healthy |-> [tag |-> healthy[i], ms |-> NoTag]],
            marks |-> marks]

\* The first of the fastest.
Best(seen, measured) ==
  CHOOSE i \in measured :
    \A j \in measured : seen[i].ms <= seen[j].ms /\ (seen[i].ms = seen[j].ms => i <= j)

Keeps(ms, best) == ms # NoTag /\ ms <= best + Tolerance

TakeUrltest(down, t, seen, marks) ==
  LET measured == {i \in DOMAIN seen : seen[i].ms # NoTag}
      kept     == marks.current[t]
      To(m, k) == down[m][[k EXCEPT !.current[t] = m]]
  IN  IF seen = <<>> THEN [leaf |-> t, marks |-> marks]
      ELSE IF measured = {}
      THEN IF kept # NoTag /\ Healthy(kept) THEN down[kept][marks] ELSE To(seen[1].tag, marks)
      ELSE LET best == seen[Best(seen, measured)]
               now  == IF kept = NoTag THEN [ms |-> NoTag, marks |-> marks]
                       ELSE Latency(down, kept, marks)
           IN  IF Keeps(now.ms, best.ms) THEN down[kept][now.marks] ELSE To(best.tag, now.marks)

TakeFallback(down, t, seen, marks) ==
  CASE seen # <<>>                           -> down[seen[1].tag][marks]
    [] seen = <<>> /\ Members(t) # <<>> -> down[Members(t)[1]][marks]
    [] OTHER                                 -> [leaf |-> t, marks |-> marks]

\* Nothing ever sets the current member of a selector.
TakeSelector(down, t, marks) ==
  IF Members(t) = <<>> THEN [leaf |-> t, marks |-> marks] ELSE down[Members(t)[1]][marks]

\* Mutant: the cursor stays where it is.
MutSameTurn(t, marks) == marks

Advance(t, marks) == [marks EXCEPT !.next[t] = @ + 1]

\* Whose turn it is.
Turn(t, seen, marks) == seen[(marks.next[t] % Len(seen)) + 1].tag

TakeBalance(down, t, seen, marks) ==
  IF seen = <<>> THEN TakeFallback(down, t, seen, marks)
  ELSE down[Turn(t, seen, marks)][Advance(t, marks)]

Take(down, t, seen, marks) ==
  CASE Node(t).kind = "urltest"  -> TakeUrltest(down, t, seen, marks)
    [] Node(t).kind = "fallback" -> TakeFallback(down, t, seen, marks)
    [] Node(t).kind = "selector" -> TakeSelector(down, t, marks)
    [] Node(t).kind = "balance"  -> TakeBalance(down, t, seen, marks)
    [] OTHER                     -> [leaf |-> t, marks |-> marks]

AllMarks == [current : [Known(config) -> Known(config) \cup {NoTag}],
             next    : [Known(config) -> Nat]]

\* What a node gives when no more than n levels are below it.
Resolve[n \in 0..Depth] ==
  [t \in Known(config) |-> [marks \in AllMarks |->
     IF n = 0 \/ ~IsGroup(t) THEN [leaf |-> t, marks |-> marks]
     ELSE LET l == Look(Resolve[n - 1], t, marks)
          IN  Take(Resolve[n - 1], t, l.seen, l.marks)]]
Down == Resolve[Depth]

-----------------------------------------------------------------------------
(* Connections. *)

Marks == [current |-> current, next |-> next]
SetMarks(marks) == current' = marks.current /\ next' = marks.next

UnchangedTree == UNCHANGED <<buildVars, sick, median, closed>>

StartConnect(c) ==
  /\ phase = "ready" /\ connects < MaxConnects
  /\ conn[c].at = "idle"
  /\ LET l == Look(Down, Default, Marks)
     IN  /\ conn' = [conn EXCEPT ![c] = [at |-> "looked", seen |-> l.seen]]
         /\ SetMarks(l.marks)
  /\ connects' = connects + 1
  /\ UNCHANGED <<uses, reports, polls>> /\ UnchangedTree

\* A group that finds no healthy member is no leaf and cannot connect.
Chosen(leaf) ==
  CASE IsGroup(leaf)               -> [at |-> "refused", leaf |-> leaf]
    [] Node(leaf).kind = "block"  -> [at |-> "refused", leaf |-> leaf]
    [] Node(leaf).kind = "direct" -> [at |-> "open", leaf |-> leaf]
    [] OTHER                      -> [at |-> "dialling", leaf |-> leaf, tries |-> 2]

Choose(c) ==
  /\ conn[c].at = "looked"
  /\ LET seen == conn[c].seen
         r    == Take(Down, Default, seen, Marks)
     IN  /\ conn' = [conn EXCEPT ![c] = Chosen(r.leaf)]
         /\ uses' = IF Node(Default).kind = "balance" /\ seen # <<>>
                    THEN [uses EXCEPT ![Turn(Default, seen, Marks)] = @ + 1] ELSE uses
         /\ SetMarks(r.marks)
  /\ UNCHANGED <<reports, connects, polls>> /\ UnchangedTree

\* A tunnel of the pool takes the header of the target.
Connects(c) ==
  /\ conn[c].at = "dialling" /\ conn[c].leaf \notin closed
  /\ conn' = [conn EXCEPT ![c] = [at |-> "open", leaf |-> conn[c].leaf]]
  /\ UNCHANGED <<current, next, uses, reports, connects, polls>> /\ UnchangedTree

\* No tunnel, or one that was dead: the second try asks the same pool.
TryFails(c) ==
  /\ conn[c].at = "dialling"
  /\ conn' = [conn EXCEPT ![c] =
                IF @.tries = 1 THEN [at |-> "refused", leaf |-> @.leaf]
                ELSE [@ EXCEPT !.tries = @ - 1]]
  /\ UNCHANGED <<current, next, uses, reports, connects, polls>> /\ UnchangedTree

Ends(c) ==
  /\ conn[c].at \in {"open", "refused"}
  /\ conn' = [conn EXCEPT ![c] = [at |-> "idle"]]
  /\ UNCHANGED <<current, next, uses, reports, connects, polls>> /\ UnchangedTree

\* Engine::latency_ms asks the default outbound for a leaf too.
Poll ==
  /\ phase = "ready" /\ polls < MaxPolls
  /\ SetMarks(Latency(Down, Default, Marks).marks)
  /\ polls' = polls + 1
  /\ UNCHANGED <<conn, uses, reports, connects>> /\ UnchangedTree

-----------------------------------------------------------------------------
(* What the pools report, and the end. *)

Pools == {e.tag : e \in {b \in built : b.kind = "mirage"}}

Reports(p) ==
  /\ phase = "ready" /\ reports < MaxReports
  /\ \/ \E ms \in Latencies : median' = [median EXCEPT ![p] = ms] /\ sick' = sick \ {p}
     \/ sick' = sick \cup {p} /\ UNCHANGED median
  /\ reports' = reports + 1
  /\ UNCHANGED <<buildVars, closed, current, next, conn, uses, connects, polls>>

\* shutdown goes down every node, so it meets a shared leaf more than once.
Shutdown ==
  /\ TreeDown
  /\ closed' = closed \cup (UNION {Below(e.tag) : e \in built} \cap Pools)
  /\ UNCHANGED <<sick, median, current, next, conn, uses, reports, connects, polls>>

OutNext ==
  \/ (BuildRound \/ BuildEnds) /\ UNCHANGED runVars
  \/ \E c \in Conns : StartConnect(c) \/ Choose(c) \/ Connects(c) \/ TryFails(c) \/ Ends(c)
  \/ \E p \in Pools : Reports(p)
  \/ Poll \/ Shutdown

-----------------------------------------------------------------------------
(* Properties. *)

\* LoadBalance hands its healthy members out in turn: while no pool has reported
\* and no latency was read (a read moves the cursor too), no two that are listed
\* once differ by more than one connection, whoever asks at the same time and
\* whatever is below them.
ListedOnce(m, list) == Cardinality({i \in DOMAIN list : list[i] = m}) = 1
TurnsShared ==
  (phase = "ready" /\ reports = 0 /\ polls = 0 /\ Node(Default).kind = "balance") =>
     \A m, n \in {k \in ToSet(Members(Default)) : Healthy(k) /\ ListedOnce(k, Members(Default))} :
       uses[m] <= uses[n] + 1
=============================================================================
