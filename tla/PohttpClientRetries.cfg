SPECIFICATION Spec
CONSTANTS
  alice = alice
  gw1 = gw1
  h1 = h1
  h2 = h2
  NoPeer = NoPeer
  NoAddress = NoAddress
  NoParams = NoParams
  NoEvent = NoEvent
  NoTtl = NoTtl
  NoOptions = NoOptions
  Undefined = Undefined
  Malformed = Malformed
  TicksPerSecond = 1
  SecondsPerHour = 1
  DefaultTtlSeconds = 4
  Peers = {alice}
  Addresses = {gw1}
  Params <- OneDoc
  BadParams = {}
  Savers = {s1}
  Events <- Postdated
  Handlers <- TwoHandlers
  MaxFaults = 2
  MaxTime = 6
  MaxDrift = 3
SYMMETRY HandlerSymmetry
INVARIANTS
  TypeOK
  AcknowledgedMeansSettled
  DuplicatesOnlyAfterFailure
  NeverFromTheFuture
PROPERTIES
  DeliversAtLeastOnce
  NoLateDelivery
CHECK_DEADLOCK FALSE
