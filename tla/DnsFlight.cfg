CONSTANTS
  Callers = {c1, c2, c3}
  Domains = {d1, d2}
  Ips = {ip1, ip2}
  CacheMax = 1
  MaxClears = 1
  None = None
SPECIFICATION FairSpec
INVARIANTS
  FlightsSound
PROPERTIES
  KeepsPromise
  CallsEnd
CHECK_DEADLOCK FALSE
