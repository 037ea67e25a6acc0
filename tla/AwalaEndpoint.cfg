SPECIFICATION FairSpec
CONSTANTS
  alice = alice
  bob = bob
  gw1 = gw1
  gw2 = gw2
  gw3 = gw3
  s1 = s1
  s2 = s2
  h1 = h1
  NoPeer = NoPeer
  NoAddress = NoAddress
  NoParams = NoParams
  NoParcel = NoParcel
  NoEvent = NoEvent
  NoTtl = NoTtl
  NoOptions = NoOptions
  Undefined = Undefined
  Malformed = Malformed
  TicksPerSecond = 1
  SecondsPerHour = 1
  DefaultTtlSeconds = 4
  Peers <- MCPeers
  Addresses <- MCAddresses
  Params <- ExchangeDocs
  BadParams <- NoDocs
  Parcels <- ExchangeParcels
  ServerHandlers = {s1}
  ClientHandlers = {h1}
  MaxFaults = 1
  MaxTime = 0
  MaxDrift = 0
INVARIANTS
  RejectedForWhatItIs
PROPERTIES
  MessageSettled
  RoundTrip
  IncomingTurnedDown
CHECK_DEADLOCK FALSE
