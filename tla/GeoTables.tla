----------------------------- MODULE GeoTables -----------------------------
(***************************************************************************)
(* The tables names and addresses are looked up in: geosite.dat and        *)
(* geoip.dat as geo.rs parses and indexes them, and the built-in blocks of *)
(* China that is_cn_ip of direct.rs merges and searches.                   *)
(*                                                                         *)
(* A name is the sequence of its labels from the top-level one, so that a  *)
(* domain suffix is a prefix.  An address is a number below 2^Bits.        *)
(***************************************************************************)
EXTENDS Integers, SequencesExt

CONSTANTS
  Bits,        \* width of an address
  FakeNet,     \* the block of fake addresses, a Cidr
  PrivateNets, \* the blocks is_private_ip lists
  BuiltinCn,   \* CN_IPV4: a sequence of Cidrs, maybe overlapping
  LanRoots,    \* LAN_ROUTER_EXACT_DOMAINS and LAN_DOMAIN_SUFFIXES
  ForeignRoots,\* NON_CN_ROOTS
  CnRoots      \* CN_DOMAINS and the top-level domain of China

Addresses == 0..(2^Bits - 1)

\* A block of the built-in table has an address.
ASSUME GeoAssumption ==
  BuiltinCn \in Seq([first : Nat, last : Nat]) /\ \A c \in Range(BuiltinCn) : c.first <= c.last

-----------------------------------------------------------------------------
(* Blocks of addresses. *)

\* The host bits are masked off.
Cidr(ip, prefix) ==
  LET size == 2^(Bits - prefix)
      net  == ip - (ip % size)
  IN  [first |-> net, last |-> net + size - 1]

Covers(c, ip) == c.first <= ip /\ ip <= c.last

IsFakeIp(ip) == Covers(FakeNet, ip)

IsPrivateIp(ip) == ~IsFakeIp(ip) /\ \E c \in PrivateNets : Covers(c, ip)

\* One block joins the last one when it overlaps or touches it.
Join(merged, r) ==
  IF merged # <<>> /\ r.first <= Last(merged).last + 1
  THEN Front(merged) \o <<[Last(merged) EXCEPT !.last = IF r.last > @ THEN r.last ELSE @]>>
  ELSE Append(merged, r)

\* The order of blocks that begin alike is any: the sort is not stable.
Sorted(blocks) ==
  LET order == CHOOSE p \in Bijection(DOMAIN blocks, DOMAIN blocks) :
                 \A i, j \in DOMAIN blocks : i < j => blocks[p[i]].first <= blocks[p[j]].first
  IN  [i \in DOMAIN blocks |-> blocks[order[i]]]

\* The blocks in order and disjoint, as the binary search needs them.
Merged(blocks) ==
  LET Upto[n \in 0..Len(blocks)] == IF n = 0 THEN <<>> ELSE Join(Upto[n - 1], Sorted(blocks)[n])
  IN  Upto[Len(blocks)]

\* CN_RANGES, built once.
CnRanges == Merged(BuiltinCn)

\* Binary search in disjoint, ordered blocks.
Found(ranges, ip) ==
  LET In[w \in (1..(Len(ranges) + 1)) \X (0..Len(ranges))] ==
        LET lo  == w[1]
            hi  == w[2]
            mid == (lo + hi) \div 2
        IN  /\ lo <= hi
            /\ IF ip < ranges[mid].first THEN In[<<lo, mid - 1>>]
               ELSE ip <= ranges[mid].last \/ In[<<mid + 1, hi>>]
  IN  In[<<1, Len(ranges)>>]

-----------------------------------------------------------------------------
(* The data files.  A file is a sequence of fields: entries of a code and  *)
(* its list, fields the parser skips, and a place where it is cut short or *)
(* has a wire type it does not know.                                       *)

\* What is read before the parser gives up.
Readable(file) == {i \in DOMAIN file : \A j \in 1..i : file[j].field # "cut"}

Entries(file, code) == {i \in Readable(file) : file[i].field = "entry" /\ file[i].code = code}

\* A domain message: a type it does not know is a suffix, no value is nothing.
DomainMsg(m) ==
  LET kind == CASE m.type = 0 -> "keyword" [] m.type = 1 -> "regex"
                [] m.type = 3 -> "exact"   [] OTHER      -> "suffix"
  IN  [kind |-> kind, name |-> m.name]

\* The messages of a list that say something; nothing asks for their order.
DomainMsgs(list) == {DomainMsg(m) : m \in {x \in Range(list) : x.name # <<>>}}

\* A block message.  The prefix is read as an octet first.
CidrMsg(m) ==
  LET prefix == m.prefix % 256 IN Cidr(m.ip, IF prefix > Bits THEN Bits ELSE prefix)

\* Octets that are no address are nothing.
CidrMsgs(list) == {CidrMsg(m) : m \in {x \in Range(list) : x.octets = Bits}}

\* The lists of geosite.dat: an entry replaces an earlier one of its code.
ParseGeosite(file, codes) ==
  [code \in codes |-> LET entries == Entries(file, code)
                      IN  IF entries = {} THEN {} ELSE DomainMsgs(file[Max(entries)].list)]

\* The lists of geoip.dat: an entry without a block replaces nothing.
ParseGeoip(file, codes) ==
  [code \in codes |-> LET full == {i \in Entries(file, code) : CidrMsgs(file[i].list) # {}}
                      IN  IF full = {} THEN {} ELSE CidrMsgs(file[Max(full)].list)]

\* One rule of a geosite list, on its own.
SiteMatches(rule, name) ==
  CASE rule.kind = "exact"  -> name = rule.name
    [] rule.kind = "suffix" -> IsPrefix(rule.name, name)
    [] OTHER                -> \E k \in DOMAIN name : name[k] = rule.name[1]

\* The index of a list: two hash sets, and the rules that need a scan.
GeoSiteMatcher(list) ==
  [exact  |-> {r.name : r \in {x \in list : x.kind = "exact"}},
   suffix |-> {r.name : r \in {x \in list : x.kind = "suffix"}},
   other  |-> {x \in list : x.kind \notin {"exact", "suffix"}}]

\* Mutant: the walk over the parents forgets the name itself.
MutStrictParents(m, name) ==
  \/ name \in m.exact
  \/ \E k \in 1..(Len(name) - 1) : SubSeq(name, 1, k) \in m.suffix
  \/ \E r \in m.other : SiteMatches(r, name)

\* The name itself, then its parents, then the scan.
MatcherMatches(m, name) ==
  \/ name \in m.exact
  \/ \E k \in DOMAIN name : SubSeq(name, 1, k) \in m.suffix
  \/ \E r \in m.other : SiteMatches(r, name)

-----------------------------------------------------------------------------
(* Names. *)

UnderOne(name, roots) == \E r \in roots : IsPrefix(r, name)

IsLanDomain(name) == UnderOne(name, LanRoots)

IsKnownNonCn(name) == UnderOne(name, ForeignRoots)

IsCnDomainStrict(name) == ~IsKnownNonCn(name) /\ UnderOne(name, CnRoots)
=============================================================================
