SPECIFICATION Spec
CONSTANTS
  MaxRequests = 2
  PairMax = 1
  ReconnMax = 2
  RingSize = 2
  Quota = 1
  Batch = 2
  Keyboard <- MCKeyboard
  MaxReports = 4
  MaxLosses = 1
  NProfiles = 2
  h1 = h1
  h2 = h2
  Hosts <- MCHosts
  Known <- MCKnown
  AnyAddr = AnyAddr
  MaxConns = 1
  Waits = {"start", "transfer"}
  MaxJoins = 2
INVARIANTS LinksSound Findable PeerKept
PROPERTIES RingDrains GivesUp Switches
CHECK_DEADLOCK FALSE
