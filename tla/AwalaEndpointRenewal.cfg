SPECIFICATION Spec
CONSTANTS
  alice = alice
  bob = bob
  gw1 = gw1
  gw2 = gw2
  gw3 = gw3
  s1 = s1
  s2 = s2
  h1 = h1
  NoPeer = NoPeer
  NoAddress = NoAddress
  NoParams = NoParams
  NoParcel = NoParcel
  NoEvent = NoEvent
  NoTtl = NoTtl
  NoOptions = NoOptions
  Undefined = Undefined
  Malformed = Malformed
  TicksPerSecond = 1
  SecondsPerHour = 1
  DefaultTtlSeconds = 4
  Peers <- MCPeers
  Addresses <- MCAddresses
  Params <- RenewedDocs
  BadParams <- NoDocs
  Parcels <- RenewalParcels
  ServerHandlers = {s1, s2}
  ClientHandlers = {h1}
  MaxFaults = 0
  MaxTime = 0
  MaxDrift = 0
SYMMETRY HandlerSymmetry
CONSTRAINT
  OnlyAliceExpires
INVARIANTS
  AnswersGoToTheSender
  DeliveredToThePeer
CHECK_DEADLOCK FALSE
