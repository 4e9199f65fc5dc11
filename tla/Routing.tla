------------------------------ MODULE Routing ------------------------------
(***************************************************************************)
(* Where a connection goes (direct.rs), and which names are asked of a     *)
(* public resolver on the way: the decision over LAN guards, the outbound  *)
(* mode, the user's rules, the tables of GeoTables and what was learned    *)
(* from answers; the gates of the DNS paths (tun/dns.rs) and of a direct   *)
(* relay (tun/tcp.rs); replacement of rules, tables and mode meanwhile.    *)
(*                                                                         *)
(* A task may be slow: what it read of the mode may be any mode there has  *)
(* been, and between its decision and its gate all may be replaced.  The   *)
(* rules, the tables and the cache, which have locks of their own, are     *)
(* read in one look.                                                       *)
(***************************************************************************)
EXTENDS GeoTables, FiniteSets

CONSTANTS
  Names, Ips, Ports, Protocols, \* what queries are about
  LocalDns,   \* the fake address of the local resolver
  SysIds,     \* ids that start with sys_
  CountryTlds,\* the top-level domains of China the gate knows
  Tags, Codes,\* of site lists and of address lists
  SiteFiles, IpFiles, \* files that may be loaded
  RuleLists,  \* lists of rules the user may set
  MaxChanges, \* bound: changes of the mode, the files or the rules
  NoItem      \* no name, no address, no port, no list to store

ASSUME RoutingAssumption ==
  /\ NoItem \notin Names /\ NoItem \notin Ips /\ NoItem \notin Ports /\ NoItem \notin Protocols
  /\ LocalDns \in Ips /\ IsFakeIp(LocalDns) /\ Ips \subseteq Addresses
  /\ MaxChanges \in Nat
  /\ Names \subseteq Seq(STRING)
  /\ \A file \in SiteFiles :
       /\ file \in Seq(Range(file))
       /\ \A i \in DOMAIN file : file[i].field = "entry" =>
            \A m \in Range(file[i].list) : m.name \in Seq(STRING)

RuleActions == {"direct", "proxy", "block"}
Modes == {"rule", "proxy", "direct"}

VARIABLES
  mode,     \* OUTBOUND_MODE
  modes,    \* history: the modes there have been, which a task may have read
  allDirect,   \* history: direct has been the mode or the default
  rules, dflt,  \* RouterStore
  rulesToStore,  \* the list and default set_custom_rules is about to store
  sites, nets,  \* GeoStore: the index of each tag, the blocks of each code
  raw,      \* history: the site lists behind the index
  learned,  \* direct_cache: whether a name's answer was an address of China
  decided,  \* decisions made, any number of times, that lead to a gate
  asking,   \* names asked of the public resolvers at this moment
  hits,     \* ids with a key in rule_hits
  changes   \* changes of the settings so far

store == <<rules, dflt, rulesToStore>>
geo == <<sites, nets, raw>>
modeVars == <<mode, modes, allDirect>>
routeVars == <<modeVars, store, geo, learned, decided, asking, hits, changes>>

Ids(list) == {list[i].id : i \in DOMAIN list}

-----------------------------------------------------------------------------
(* Look-ups. *)

GeoSite(tag, name) ==
  MatcherMatches(sites[tag], name) \/ (tag = "PRIVATE" /\ IsLanDomain(name))

GeoIp(code, ip) ==
  /\ ~IsFakeIp(ip)
  /\ IF code = "PRIVATE" THEN IsPrivateIp(ip) ELSE \E c \in nets[code] : Covers(c, ip)

IsCnIp(ip) == ~IsFakeIp(ip) /\ (GeoIp("CN", ip) \/ Found(CnRanges, ip))

IsTrustworthyCnAnswer(ip) == ~IsPrivateIp(ip) /\ IsCnIp(ip)

IsCnDomain(name) == ~IsKnownNonCn(name) /\ (GeoSite("CN", name) \/ UnderOne(name, CnRoots))

-----------------------------------------------------------------------------
(* Rules. *)

ConditionMatches(c, q) ==
  \/ c.kind = "geosite" /\ q.name # NoItem /\ GeoSite(c.tag, q.name)
  \/ c.kind = "site" /\ q.name # NoItem /\ SiteMatches(c.rule, q.name)
  \/ c.kind = "geoip" /\ q.ip # NoItem /\ GeoIp(c.code, q.ip)
  \/ c.kind = "cidr" /\ q.ip # NoItem /\ ~IsFakeIp(q.ip) /\ Covers(c.cidr, q.ip)
  \/ c.kind = "port" /\ q.port # NoItem /\ c.from <= q.port /\ q.port <= c.to
  \/ c.kind = "protocol" /\ q.proto = c.proto

RuleMatches(r, q) ==
  /\ r.enabled /\ r.conditions # {}
  /\ IF r.logic = "AND" THEN \A c \in r.conditions : ConditionMatches(c, q)
                        ELSE \E c \in r.conditions : ConditionMatches(c, q)

\* A direct rule does not capture a name known to be foreign.
Fires(r, q) ==
  /\ RuleMatches(r, q)
  /\ ~(r.action = "direct" /\ q.name # NoItem /\ IsKnownNonCn(q.name))

\* The position of the first rule that decides, or 0.
FirstRule(q) == SelectInSeq(rules, LAMBDA r : Fires(r, q))

SysLan == [id |-> "sys_lan_private_direct", enabled |-> TRUE, action |-> "direct", logic |-> "OR",
           conditions |-> {[kind |-> "geoip", code |-> "PRIVATE"], [kind |-> "geosite", tag |-> "PRIVATE"]}]

SysFakeIp == [id |-> "sys_fake_ip_guard", enabled |-> TRUE, action |-> "proxy", logic |-> "OR",
              conditions |-> {[kind |-> "cidr", cidr |-> FakeNet]}]

\* The user's rules without empty ones and without ids like the system's,
\* between the two rules of the system.
StripAndInject(list) ==
  <<SysLan>> \o SelectSeq(list, LAMBDA r : r.conditions # {} /\ r.id \notin SysIds) \o <<SysFakeIp>>

\* The start, or soon after: the service has set the mode and its rules, or is
\* about to.
RouteInit ==
  /\ mode \in Modes /\ modes = {mode} /\ allDirect = (mode = "direct")
  /\ dflt = "proxy" /\ rulesToStore = NoItem
  /\ rules \in {<<>>} \cup {StripAndInject(list) : list \in RuleLists}
  /\ sites = [t \in Tags |-> GeoSiteMatcher({})] /\ nets = [c \in Codes |-> {}]
  /\ raw = [t \in Tags |-> {}]
  /\ learned = [n \in Names |-> "unknown"] /\ decided = {} /\ asking = {} /\ hits = {}
  /\ changes = 0

-----------------------------------------------------------------------------
(* The decision. *)

Verdict(action, source) == [action |-> action, source |-> source]

IsLan(q) == (q.ip # NoItem /\ IsPrivateIp(q.ip)) \/ (q.name # NoItem /\ IsLanDomain(q.name))

\* By a task that read the mode as m.
Decide(q, m) ==
  IF q.ip = LocalDns THEN Verdict("block", "Lan")
  ELSE IF IsLan(q) THEN Verdict("direct", "Lan")
  ELSE IF m # "rule" THEN Verdict(m, "GlobalMode")
  ELSE LET first == FirstRule(q) IN
       IF first # 0 THEN Verdict(rules[first].action, "Rule")
       ELSE IF q.name # NoItem /\ IsCnDomain(q.name) THEN Verdict("direct", "CnDomain")
       ELSE IF q.name # NoItem /\ learned[q.name] = "cn" THEN Verdict("direct", "DynamicLearned")
       ELSE IF q.ip # NoItem /\ IsCnIp(q.ip) THEN Verdict("direct", "CnIp")
       ELSE Verdict(dflt, "Default")

\* The name alone, and a DNS query over UDP.
ByName(name) == [name |-> name, ip |-> NoItem, port |-> NoItem, proto |-> NoItem]
DnsQuery(name) == [ByName(name) EXCEPT !.port = 53, !.proto = "udp"]

\* Mutant: no silence where all goes to the proxy.
MutNotSilent(name, m) ==
  /\ ~IsKnownNonCn(name) /\ ~IsLanDomain(name)
  /\ \/ m = "direct" \/ (\E t \in CountryTlds : IsStrictPrefix(t, name)) \/ IsCnDomain(name)
     \/ \E i \in DOMAIN rules : rules[i].action = "direct" /\ RuleMatches(rules[i], ByName(name))
     \/ learned[name] = "cn"

ShouldResolveUpstream(name, m) ==
  /\ ~IsKnownNonCn(name) /\ ~IsLanDomain(name) /\ m # "proxy"
  /\ \/ m = "direct" \/ (\E t \in CountryTlds : IsStrictPrefix(t, name)) \/ IsCnDomain(name)
     \/ \E i \in DOMAIN rules : rules[i].action = "direct" /\ RuleMatches(rules[i], ByName(name))
     \/ learned[name] = "cn"

\* A rule of the user is believed without its conditions on port and protocol.
MayQueryUpstream(name, source, m) ==
  /\ ~IsKnownNonCn(name) /\ ~IsLanDomain(name)
  /\ source = "Rule" \/ ShouldResolveUpstream(name, m)

\* A hit is recorded for the rule that made the decision d.
Hit(q, d) ==
  hits' = IF d.source = "Rule" THEN hits \cup {rules[FirstRule(q)].id} ELSE hits

\* A decision on its way to a gate.  Of the source the gate asks only whether
\* it is a rule.
To(name, gate) == [name |-> name, gate |-> gate]
Goes(on, d) == decided' = IF on THEN decided \cup {d} ELSE decided

\* What the gate lets through: a relay over TCP DNS has none.
Passes(d, m) ==
  \/ d.gate = "none"
  \/ d.gate = "rule" /\ MayQueryUpstream(d.name, "Rule", m)
  \/ d.gate = "list" /\ ShouldResolveUpstream(d.name, m)

-----------------------------------------------------------------------------
(* The data plane. *)

\* A decision changes the hits and what is decided.
OnlyDecides == UNCHANGED <<modeVars, store, geo, learned, asking, changes>>

\* A connection or datagram; one to a fake address that is sent direct goes on
\* to resolve_direct_target.
Relay(q) ==
  /\ q.ip # NoItem
  /\ \E m \in modes : LET d == Decide(q, m) IN
       /\ Hit(q, d)
       /\ Goes(/\ d.action = "direct" /\ IsFakeIp(q.ip) /\ q.name # NoItem
               /\ d.source \notin {"Lan", "Default"},
               To(q.name, IF d.source = "Rule" THEN "rule" ELSE "list"))
  /\ OnlyDecides

\* A DNS query over UDP: answered with a fake address, unless it is blocked,
\* and, if it is for an A record, resolved ahead if the gate allows.
HandleDnsQuery(name, isA) ==
  /\ \E m \in modes : LET d == Decide(DnsQuery(name), m) IN
       Hit(DnsQuery(name), d) /\ Goes(isA /\ d.action # "block", To(name, "list"))
  /\ OnlyDecides

\* A DNS query over TCP for an A record: the decision alone is the gate.
RelayTcpDns(name) ==
  /\ \E m \in modes : LET d == Decide(ByName(name), m) IN
       Hit(ByName(name), d) /\ Goes(d.action = "direct", To(name, "none"))
  /\ OnlyDecides

\* The gate, and resolve_upstream, which asks unless the cache knows.
ResolveUpstream(d) ==
  /\ d \in decided /\ learned[d.name] = "unknown"
  /\ \E m \in modes : Passes(d, m)
  /\ asking' = asking \cup {d.name}
  /\ UNCHANGED <<modeVars, store, geo, learned, decided, hits, changes>>

Answered(name, ip) ==
  /\ name \in asking /\ asking' = asking \ {name}
  /\ learned' = [learned EXCEPT ![name] = IF IsTrustworthyCnAnswer(ip) THEN "cn" ELSE "other"]
  /\ UNCHANGED <<modeVars, store, geo, decided, hits, changes>>

Unanswered(name) ==
  /\ name \in asking /\ asking' = asking \ {name}
  /\ UNCHANGED <<modeVars, store, geo, learned, decided, hits, changes>>

Expires(name) ==
  /\ learned' = [learned EXCEPT ![name] = "unknown"]
  /\ UNCHANGED <<modeVars, store, geo, decided, asking, hits, changes>>

-----------------------------------------------------------------------------
(* Settings. *)

Changes == changes < MaxChanges /\ changes' = changes + 1

SetOutboundMode(m) ==
  /\ Changes /\ mode' = m /\ modes' = modes \cup {m} /\ allDirect' = (allDirect \/ m = "direct")
  /\ UNCHANGED <<store, geo, learned, decided, asking, hits>>

LoadGeoFiles(siteFile, ipFile) ==
  /\ Changes
  /\ raw' = ParseGeosite(siteFile, Tags)
  /\ sites' = [t \in Tags |-> GeoSiteMatcher(raw'[t])]
  /\ nets' = ParseGeoip(ipFile, Codes)
  /\ UNCHANGED <<modeVars, store, learned, decided, asking, hits>>

\* The counts kept for a new list.
KeptHits(list) == hits \cap Ids(list)

\* set_custom_rules: the counts of removed rules go first, under a lock of
\* their own; then the list is replaced.
PruneHits(list, default) ==
  /\ rulesToStore = NoItem /\ Changes
  /\ rulesToStore' = [list |-> StripAndInject(list), dflt |-> default]
  /\ hits' = KeptHits(StripAndInject(list))
  /\ UNCHANGED <<modeVars, rules, dflt, geo, learned, decided, asking>>

StoreRules ==
  /\ rulesToStore # NoItem
  /\ rules' = rulesToStore.list /\ dflt' = rulesToStore.dflt /\ rulesToStore' = NoItem
  /\ allDirect' = (allDirect \/ dflt' = "direct")
  /\ UNCHANGED <<mode, modes, geo, learned, decided, asking, hits, changes>>

ResetRuleHits ==
  hits' = {} /\ UNCHANGED <<modeVars, store, geo, learned, decided, asking, changes>>

Queries ==
  [name : Names \cup {NoItem}, ip : Ips, port : Ports, proto : Protocols]

RouteNext ==
  \/ \E q \in Queries : Relay(q)
  \/ \E n \in Names :
       \/ \E isA \in BOOLEAN : HandleDnsQuery(n, isA)
       \/ RelayTcpDns(n) \/ Unanswered(n) \/ Expires(n)
       \/ \E ip \in Ips : Answered(n, ip)
  \/ \E d \in decided : ResolveUpstream(d)
  \/ \E m \in Modes : SetOutboundMode(m)
  \/ \E s \in SiteFiles, i \in IpFiles : LoadGeoFiles(s, i)
  \/ \E list \in RuleLists, default \in RuleActions : PruneHits(list, default)
  \/ StoreRules \/ ResetRuleHits

-----------------------------------------------------------------------------
\* Queries about foreign names, and queries to fake addresses about others.
ForeignQueries == {q \in Queries : q.name # NoItem /\ IsKnownNonCn(q.name)}
FakeQueries == {q \in Queries : IsFakeIp(q.ip) /\ q.name # NoItem /\ ~IsKnownNonCn(q.name)}

\* No list of rules and no data file sends a known foreign name direct: for a
\* task in rule mode that takes an answer that was learned, an address of China
\* or of the LAN, or the default (route_decision_sourced).
ForeignGuarded ==
  "rule" \in modes => \A q \in ForeignQueries :
    LET d == Decide(q, "rule") IN
      d.action = "direct" => d.source \in {"Lan", "DynamicLearned", "CnIp", "Default"}

\* What routing sends direct on purpose, DNS may resolve: a rule that needs the
\* port or the protocol is not lost on the way from the decision to the gate
\* (may_query_upstream).
DirectIsResolvable ==
  \A m \in modes, q \in FakeQueries :
    LET d == Decide(q, m) IN
      d.action = "direct" /\ d.source \in {"GlobalMode", "Rule", "CnDomain", "DynamicLearned"}
        => MayQueryUpstream(q.name, d.source, m)

\* A known foreign name that is not the LAN's is asked of a public resolver only
\* once the user has sent everything direct, by mode or by default, though a
\* relay over TCP DNS has no gate and an answer that was learned goes direct.
ForeignUnasked ==
  ~allDirect => \A n \in asking : IsKnownNonCn(n) => IsLanDomain(n)

\* Where all has been sent to the proxy, no task asks, whatever its decision
\* and the rules: but for names of the LAN over TCP DNS (should_resolve_upstream).
SilentInProxy ==
  modes = {"proxy"} => \A n \in asking : IsLanDomain(n)

\* In rule mode no rule and no site list sends a foreign name direct, what is
\* sent direct on purpose may be resolved, and nothing is asked before a mode
\* or a default that allows it.
DirectIsSound == ForeignGuarded /\ DirectIsResolvable /\ ForeignUnasked /\ SilentInProxy

\* The hash index finds what a scan of the list finds (GeoSiteMatcher).
IndexAgrees ==
  \A t \in Tags, n \in Names :
    MatcherMatches(sites[t], n) <=> \E r \in raw[t] : SiteMatches(r, n)

\* The search in the merged blocks finds what a scan of the blocks finds,
\* overlaps and all (is_cn_ip).
RangesAgree ==
  \A ip \in Addresses : Found(CnRanges, ip) <=> \E c \in Range(BuiltinCn) : Covers(c, ip)

TablesAgree == IndexAgrees /\ RangesAgree
=============================================================================
