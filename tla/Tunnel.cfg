SPECIFICATION FairSpec
CONSTANTS
  Bytes = 3
  Addresses = 2
  Flights <- MCFlights
INVARIANTS
  TunnelSound
PROPERTIES
  DialEnds
  KeepsBytes
CHECK_DEADLOCK FALSE
