CONSTANTS
  Domains = {a, b, c}
  NoDomain = NoDomain
  NoHost = NoHost
  Absent = Absent
  Torn = Torn
  Free = Free
  Broadcast = 4
  Threads = {t1, t2}
  Flushers = {f1, f2}
  MayFail = TRUE
  MayCrash = TRUE
  MaxClears = 1
  MaxCrashes = 1
SPECIFICATION Spec
SYMMETRY Symmetry
INVARIANTS
  TablesSound
  FileKept
PROPERTIES
  Stable
