SPECIFICATION Spec
SYMMETRY Twins
CONSTANTS
  Configs <- TestConfigs
  Default = "g"
  Conns = {c1, c2}
  Latencies = {1, 3}
  Tolerance = 1
  MaxReports = 2
  MaxConnects = 2
  MaxPolls = 1
  NoTag = NoTag

  Domains = {"im", "cdn", "api"}
  CdnDomains = {"cdn"}
  ImDomains = {"im"}
  Links = {r1, r2}
  Volumes = {1, 32}
  Capacity = 1
  Second = 5
  MaxNow = 6
  MaxLinks = 2
  MaxSaves = 1
  MaxLoads = 1
  NoDomain = NoDomain

  MaxWrites = 4

  RandomLen = 2
  Hellos <- TestHellos
  Requests <- TestRequests
  NoName = NoName

  Peers <- TestPeers
  NoHost = NoHost
  Payloads <- TestPayloads
  Sid <- TestSid
  Junk <- TestJunk
  Reads = {1}
  MaxBody = 26
  MaxAsked = 2
  MaxJunk = 1

  Callers = {k1, k2}
  Clients <- TestClients
  Sites <- TestSites
  MaxRounds = 3
  MaxCalls = 3
  NoFlight = NoFlight

  Dials = {d1, d2}
  Skews <- TestSkews
  TsTolerance = 1
  BucketSecs = 1
  BucketCap = 1
  Day = 3
  MaxTime = 3
  MaxTokens = 2
  MaxSets = 1
  NoLag = NoLag

  Bits <- MCBits
  FakeNet <- MCFakeNet
  PrivateNets <- MCPrivateNets
  BuiltinCn <- MCBuiltinCn
  LanRoots <- MCLanRoots
  ForeignRoots <- MCForeignRoots
  CnRoots <- MCCnRoots
  Names <- MCNames
  Ips <- MCIps
  Ports = {443}
  Protocols = {"tcp"}
  LocalDns = 15
  SysIds <- MCSysIds
  CountryTlds <- MCCountryTlds
  Tags = {"CN", "PRIVATE"}
  Codes = {"CN", "PRIVATE"}
  SiteFiles <- MCSiteFiles
  IpFiles <- MCIpFiles
  RuleLists <- MCRuleLists
  MaxChanges = 2
  NoItem = NoItem
INVARIANTS
  BuildDecides
  TurnsShared
  TimeoutsSound
  FileReadable
  NameTrue
  NeverMisread
  RepliesReach
  AnswersFit
  TokensSound
  DirectIsSound
  TablesAgree
CHECK_DEADLOCK FALSE
