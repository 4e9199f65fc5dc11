--------------------------- MODULE OutboundBuild ---------------------------
(***************************************************************************)
(* How the outbounds of an engine come to be (OutboundManager::new of      *)
(* proxy/outbound.rs): the leaves of the configuration first, then, in     *)
(* rounds over the list, every entry whose references are built.  A round  *)
(* that builds nothing fails the configuration.                            *)
(***************************************************************************)
EXTENDS Integers, SequencesExt

CONSTANT Configs  \* the configurations tried: sequences of [tag, kind, refs]

Kinds == {"mirage", "direct", "block", "urltest", "fallback", "selector", "balance"}

Leaf(e) == e.refs = <<>> /\ e.kind \in {"mirage", "direct", "block"}
Implicit == {[tag |-> k, kind |-> k, refs |-> <<>>] : k \in {"direct", "block"}}

\* A tag names one entry, and only a leaf takes an implicit one.
ASSUME BuildConstants ==
  \A c \in Configs :
    /\ c \in Seq(ToSet(c))
    /\ \A i, j \in DOMAIN c : c[i].tag = c[j].tag => i = j
    /\ \A e \in ToSet(c) : /\ e.kind \in Kinds /\ e.refs \in Seq(ToSet(e.refs))
                           /\ e.tag \in {"direct", "block"} => Leaf(e)

VARIABLES
  config,   \* Config.outbounds
  built,    \* the nodes of the manager: tag -> entry
  unbuilt,  \* pending: the entries whose references are not built yet
  phase     \* "building", "ready", "failed" or "down"
buildVars == <<config, built, unbuilt, phase>>

-----------------------------------------------------------------------------

\* Mutant: a group is built as soon as one of its members is.
MutAnyMember(e, tags) == \E r \in ToSet(e.refs) : r \in tags

Resolved(e, tags) == ToSet(e.refs) \subseteq tags

TagsOf(nodes) == {e.tag : e \in nodes}
Known(c) == TagsOf(ToSet(c)) \cup TagsOf(Implicit)

\* One round in the order of the list: what it builds serves the rest of it.
Round(nodes, entries) ==
  LET After[n \in 0..Len(config)] ==
        IF n = 0 THEN nodes
        ELSE IF config[n] \in entries /\ Resolved(config[n], TagsOf(After[n - 1]))
        THEN After[n - 1] \cup {config[n]}
        ELSE After[n - 1]
  IN  After[Len(config)]

Leaves(c) == {e \in ToSet(c) : Leaf(e)}

BuildInit ==
  /\ config \in Configs
  /\ built = Leaves(config) \cup {e \in Implicit : e.tag \notin TagsOf(Leaves(config))}
  /\ unbuilt = ToSet(config) \ Leaves(config)
  /\ phase = "building"

BuildRound ==
  /\ phase = "building" /\ unbuilt # {}
  /\ LET after == Round(built, unbuilt)
     IN  IF after = built
         THEN phase' = "failed" /\ UNCHANGED <<built, unbuilt>>
         ELSE built' = after /\ unbuilt' = unbuilt \ after /\ UNCHANGED phase
  /\ UNCHANGED config

BuildEnds ==
  /\ phase = "building" /\ unbuilt = {}
  /\ phase' = "ready"
  /\ UNCHANGED <<config, built, unbuilt>>

\* shutdown, or the drop of the manager.
TreeDown ==
  /\ phase = "ready"
  /\ phase' = "down"
  /\ UNCHANGED <<config, built, unbuilt>>

BuildNext == BuildRound \/ BuildEnds \/ TreeDown

-----------------------------------------------------------------------------

\* Entries that refer to one another in a ring, or to nothing.
Circular(c) ==
  \E ring \in SUBSET ToSet(c) :
    ring # {} /\ \A e \in ring : ToSet(e.refs) \cap TagsOf(ring) # {}
Dangling(c) == \E e \in ToSet(c) : ~(ToSet(e.refs) \subseteq Known(c))

\* OutboundManager::new fails exactly for a configuration with a ring or a
\* dangling reference, in whatever order the groups are listed, and else builds
\* every entry.
BuildDecides ==
  /\ phase = "failed" => Circular(config) \/ Dangling(config)
  /\ phase \in {"ready", "down"} => ~Circular(config) /\ ~Dangling(config)
                                   /\ TagsOf(built) = Known(config)
=============================================================================
