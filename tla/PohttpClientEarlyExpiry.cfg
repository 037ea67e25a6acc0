SPECIFICATION Spec
CONSTANTS
  alice = alice
  gw1 = gw1
  h1 = h1
  h2 = h2
  NoPeer = NoPeer
  NoAddress = NoAddress
  NoParams = NoParams
  NoEvent = NoEvent
  NoTtl = NoTtl
  NoOptions = NoOptions
  Undefined = Undefined
  Malformed = Malformed
  TicksPerSecond = 1
  SecondsPerHour = 1
  DefaultTtlSeconds = 4
  Peers = {alice}
  Addresses = {gw1}
  Params <- OneDoc
  BadParams = {}
  Savers = {s1}
  Events <- LongLived
  Handlers = {h1}
  MaxFaults = 0
  MaxTime = 5
  MaxDrift = 0
INVARIANTS
  RefusedOnlyOnceExpired
CHECK_DEADLOCK FALSE
