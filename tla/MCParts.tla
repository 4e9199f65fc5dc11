------------------------------- MODULE MCParts -------------------------------
(***************************************************************************)
(* The smaller parts, which share no state, checked in one run: a          *)
(* behaviour works one of them, the others staying as they began.          *)
(***************************************************************************)
EXTENDS Outbounds, AdaptiveIdle, ProfileFile, Sniffer, Datagrams,
        HandshakeCache, SessionAuth, Routing, TLC

-----------------------------------------------------------------------------
(* Outbounds: groups in groups, listed before what they refer to, a shared  *)
(* leaf, an entry that takes an implicit tag, a ring, a dangling reference. *)

Entry(t, k, r) == [tag |-> t, kind |-> k, refs |-> r]
A == Entry("a", "mirage", <<>>)
B == Entry("b", "mirage", <<>>)
TestConfigs == {
  <<Entry("g", "fallback", <<"u", "b">>), A, Entry("u", "urltest", <<"a", "direct">>), B>>,
  <<A, Entry("g", "balance", <<"u", "b">>), Entry("u", "fallback", <<"b", "direct">>), B,
    Entry("direct", "direct", <<>>)>>,
  <<A, Entry("g", "urltest", <<"l", "b">>), Entry("l", "balance", <<"a", "b">>),
    Entry("b", "mirage", <<"a">>)>>,
  <<A, B, Entry("g", "selector", <<"f", "block">>), Entry("f", "fallback", <<"u">>),
    Entry("u", "urltest", <<"b", "a">>)>>,
  <<A, Entry("g", "fallback", <<"u", "a">>), Entry("u", "urltest", <<"g">>)>>,
  <<A, Entry("g", "fallback", <<"a", "gone">>)>>}

-----------------------------------------------------------------------------
(* Sniffer: the name is "Ab.c", with and without a last dot.                *)

Bytes2(n) == <<n \div 256, n % 256>>
Sized1(b) == <<Len(b)>> \o b
Sized2(b) == Bytes2(Len(b)) \o b
TestName == <<97, 98, 46, 99>>
Spelled  == <<65, 98, 46, 99, 46>>
ServerName(name) == <<0, 0>> \o Sized2(Sized2(<<0>> \o Sized2(name)))
OtherExt == <<0, 43>> \o Sized2(<<2, 3, 4>>)
HelloOf(session, exts) ==
  LET body == <<3, 3>> \o [i \in 1..RandomLen |-> 7] \o Sized1(session) \o Sized2(<<19, 1, 19, 2>>)
              \o Sized1(<<0>>) \o Sized2(exts)
      shake == <<1, 0>> \o Sized2(body)
  IN  <<22, 3, 1>> \o Sized2(shake)
TestHellos == {
  [bytes |-> HelloOf(<<1, 2>>, OtherExt \o ServerName(Spelled)), name |-> TestName],
  [bytes |-> HelloOf(<<>>, ServerName(<<200, 201>>) \o OtherExt), name |-> NoName],
  [bytes |-> HelloOf(<<>>, OtherExt) \o HelloOf(<<>>, ServerName(Spelled)), name |-> NoName],
  [bytes |-> <<22, 3, 1>> \o Sized2(<<2, 0>> \o Sized2(ServerName(Spelled))), name |-> NoName]}
Line(k, v) == [key |-> k, value |-> v]
Get == Line("GET", <<47>>)
Window(l, c) == [line |-> l, column |-> c]
Request(lines, window, name) == [lines |-> lines, window |-> window, name |-> name]
WithPort == <<32, 65, 98, 46, 99, 58, 56, 48>>
\* A second Host in the body; one of them empty; none in the header; no method;
\* an address; a window that ends in Host; bytes that are no text in a later
\* line; the same past the window.
TestRequests == {
  Request(<<Get, Line("Host", WithPort), Line("blank", <<>>), Line("Host", <<120>>)>>,
          Window(4, 0), TestName),
  Request(<<Get, Line("Host", <<58, 56>>), Line("Host", Spelled), Line("Host", <<120>>)>>,
          Window(4, 0), TestName),
  Request(<<Get, Line("blank", <<>>), Line("Host", Spelled)>>, Window(3, 0), NoName),
  Request(<<Line("SSH", <<50>>), Line("Host", Spelled)>>, Window(2, 0), NoName),
  Request(<<Get, Line("Host", <<91, 58, 58, 49, 93>>)>>, Window(2, 0), <<58, 58, 49>>),
  Request(<<Get, Line("Host", WithPort), Line("Accept", <<42>>)>>, Window(1, 4), TestName),
  Request(<<Get, Line("Host", Spelled), Line("Referer", <<195, 169, 200>>)>>, Window(3, 0), TestName),
  Request(<<Get, Line("Host", Spelled), Line("Referer", <<47, 200>>)>>, Window(2, 1), TestName)}

-----------------------------------------------------------------------------
(* Datagrams: addresses of either family, a name, options before the ports, *)
(* payloads that are empty, odd and too long.                               *)

V4 == <<10, 0, 0, 2>>
Fake == <<198, 18, 1, 255>>
V6(n) == [i \in 1..16 |-> IF i = 16 THEN n ELSE IF i = 1 THEN 253 ELSE 0]
Flow(s, d, host, options, refused) ==
  [src |-> s, sport |-> 40000, dst |-> d, dport |-> 443, host |-> host, options |-> options,
   refused |-> refused]
TestPeers == {
  Flow(V4, Fake, <<97, 46, 98>>, <<>>, FALSE), Flow(V4, <<8, 8, 255, 255>>, NoHost, <<1, 1, 1, 0>>, FALSE),
  Flow(V6(1), V6(2), NoHost, <<>>, FALSE),
  Flow(V4, Fake, NoHost, <<1, 1, 1, 0>>, TRUE), Flow(V6(1), V6(2), NoHost, <<>>, TRUE)}
TestPayloads == {<<>>, <<255, 255, 1>>, [i \in 1..20 |-> 9]}
TestSid == <<0, 0, 1, 2>>
TestJunk == {<<>>, <<3>>, <<1, 9>>, <<3, 9, 65>>, <<0, 0, 9, 9, 1, 1, 1, 1, 1, 0, 80, 5>>,
             TestSid \o <<3>>, TestSid \o <<7, 7>>}
-----------------------------------------------------------------------------
(* HandshakeCache: a site of TLS 1.3, one that refuses, one whose flight is *)
(* too short and cut in its last record, one of TLS 1.2 that closes.        *)

Rec(t, n) == [type |-> t, len |-> n, size |-> n]
SiteOf(recs, torn, ends) ==
  [flight |-> [session |-> <<9, 9, 9>>, cipher |-> "AES128", recs |-> recs], torn |-> torn, ends |-> ends]
TestSites == {
  SiteOf(<<Rec(Hello, 89), Rec(Change, 1), Rec(Sealed, 40)>>, FALSE, "silent"),
  SiteOf(<<Rec(21, 2)>>, FALSE, "closed"),
  SiteOf(<<Rec(Hello, 2), Rec(Change, 1), Rec(Sealed, 9)>>, TRUE, "closed"),
  SiteOf(<<Rec(Hello, 89), Rec(Hello, 70)>>, FALSE, "closed")}
TestClients == {[session |-> <<1, 2>>, ciphers |-> {"AES128", "CHACHA"}],
                [session |-> <<>>, ciphers |-> {"AES256"}]}

-----------------------------------------------------------------------------

(* SessionAuth: clocks within the window, at its edges and outside.         *)

TestSkews == {-1, 0, 1, 4}

-----------------------------------------------------------------------------
(* Routing: addresses of four bits, names as reversed lists of labels.      *)

MCBits == 4
MCFakeNet == Cidr(14, 3)
MCPrivateNets == {Cidr(12, 3)}
\* 5 is listed again inside 4..5, and 6..7 touches both 4..5 and 8..9.
MCBuiltinCn == <<Cidr(8, 3), Cidr(4, 3), Cidr(5, 4), Cidr(6, 3)>>
MCLanRoots == {<<"lan">>}
MCForeignRoots == {<<"com", "google">>}
MCCnRoots == {<<"cn">>, <<"com", "google", "www">>}

Google == <<"com", "google", "www">>
Nas == <<"lan", "nas">>
Shop == <<"net", "shop">>
Wang == <<"xn--fiqs8s", "wang">>
MCNames == {Google, Nas, Shop, Wang}
MCCountryTlds == {<<"cn">>, <<"xn--fiqs8s">>}
MCSysIds == {"sys_lan_private_direct", "sys_fake_ip_guard", "sys_ads"}
MCIps == {4, 12, 14, 15}

Site(kind, name) == [kind |-> kind, name |-> name]
Domain(type, name) == [type |-> type, name |-> name]
Block(ip, prefix) == [octets |-> MCBits, ip |-> ip, prefix |-> prefix]
GeoEntry(code, list) == [field |-> "entry", code |-> code, list |-> list]
\* Both files have the tag twice; the second is cut short.
MCSiteFiles ==
  {<<GeoEntry("CN", <<Domain(2, <<"com">>)>>),
     GeoEntry("CN", <<Domain(3, <<"net">>), Domain(2, <<>>), Domain(9, <<"com", "google", "www">>)>>)>>,
   <<[field |-> "skip"], GeoEntry("CN", <<Domain(0, <<"shop">>)>>),
     [field |-> "cut"], GeoEntry("CN", <<>>)>>}
\* Prefixes too long for an address and for an octet, octets that are no
\* address, and an entry without a block.
MCIpFiles ==
  {<<GeoEntry("CN", <<Block(1, 4)>>),
     GeoEntry("CN", <<Block(2, 3), Block(4, 2), Block(1, 9), Block(12, 258)>>),
     GeoEntry("CN", <<[octets |-> 7, ip |-> 0, prefix |-> 0]>>)>>}

Rule(id, action, logic, conditions) ==
  [id |-> id, enabled |-> TRUE, action |-> action, logic |-> logic, conditions |-> conditions]
ComDirect == Rule("a", "direct", "OR", {[kind |-> "site", rule |-> Site("suffix", <<"com">>)]})
ShopWeb == Rule("b", "direct", "AND", {[kind |-> "site", rule |-> Site("exact", Shop)],
                                       [kind |-> "port", from |-> 80, to |-> 443]})
CnBlocked == Rule("c", "block", "OR", {[kind |-> "geosite", tag |-> "CN"], [kind |-> "geoip", code |-> "CN"]})
Hollow == Rule("d", "direct", "OR", {})
Posing == Rule("sys_ads", "direct", "OR", {[kind |-> "protocol", proto |-> "tcp"]})
Off == [Rule("e", "direct", "OR", {[kind |-> "cidr", cidr |-> Cidr(0, 2)]}) EXCEPT !.enabled = FALSE]
MCRuleLists == {<<ShopWeb, Hollow, Off, CnBlocked>>, <<Posing, ComDirect>>}

\* The relays of AdaptiveIdle are interchangeable.
Twins == Permutations(Links)

\* Bound of AdaptiveIdle: the clock moves, or the file is written and then loaded.
ClockOrFile == IF saves = 0 THEN loads = 0 ELSE now = 1

\* Bound of Routing: one name at a time is decided, asked or learned, one rule counted.
OneName ==
  /\ Cardinality(asking \cup {d.name : d \in decided} \cup {n \in Names : learned[n] # "unknown"}) <= 1
  /\ Cardinality(hits) <= 1

-----------------------------------------------------------------------------

VARIABLE part  \* the part that works

Init ==
  /\ part \in {"out", "idle", "file", "sniff", "gram", "cache", "auth", "route"}
  /\ OutInit /\ IdleInit /\ FileInit /\ SniffInit /\ GramInit /\ CacheInit /\ AuthInit
  /\ RouteInit
  /\ part # "out" => config = CHOOSE c \in Configs : \A d \in Configs : Len(c) <= Len(d)
  /\ part # "sniff" => sent.what = CHOOSE h \in Hellos : TRUE
  /\ part # "gram" => peer = (CHOOSE p \in Peers : TRUE) /\ ~shared
  /\ part # "auth" => skew = 0
  /\ part # "route" => rules = <<>>
  /\ IF part = "route" /\ rules # <<>> THEN mode = "rule" ELSE mode = "proxy"

Next ==
  \/ part = "out" /\ OutNext
     /\ UNCHANGED <<part, idleVars, fileVars, sniffVars, gramVars, cacheVars, authVars, routeVars>>
  \/ part = "idle" /\ IdleNext /\ ClockOrFile'
     /\ UNCHANGED <<part, outVars, fileVars, sniffVars, gramVars, cacheVars, authVars, routeVars>>
  \/ part = "file" /\ FileNext
     /\ UNCHANGED <<part, outVars, idleVars, sniffVars, gramVars, cacheVars, authVars, routeVars>>
  \/ part = "sniff" /\ SniffNext
     /\ UNCHANGED <<part, outVars, idleVars, fileVars, gramVars, cacheVars, authVars, routeVars>>
  \/ part = "gram" /\ GramNext
     /\ UNCHANGED <<part, outVars, idleVars, fileVars, sniffVars, cacheVars, authVars, routeVars>>
  \/ part = "cache" /\ CacheNext
     /\ UNCHANGED <<part, outVars, idleVars, fileVars, sniffVars, gramVars, authVars, routeVars>>
  \/ part = "auth" /\ AuthNext
     /\ UNCHANGED <<part, outVars, idleVars, fileVars, sniffVars, gramVars, cacheVars, routeVars>>
  \/ part = "route" /\ RouteNext /\ OneName'
     /\ UNCHANGED <<part, outVars, idleVars, fileVars, sniffVars, gramVars, cacheVars, authVars>>

Spec == Init /\ [][Next]_<<part, outVars, idleVars, fileVars, sniffVars,
                          gramVars, cacheVars, authVars, routeVars>>
=============================================================================
