SPECIFICATION FairSpec
CONSTANTS
  alice = alice
  gw1 = gw1
  gw2 = gw2
  h1 = h1
  h2 = h2
  NoPeer = NoPeer
  NoAddress = NoAddress
  NoParams = NoParams
  NoParcel = NoParcel
  Peers <- MCPeers
  Addresses <- MCAddresses
  Params <- MixedDocs
  BadParams <- BadDocs
  Parcels <- MixedParcels
  Handlers = {h1}
  MaxFaults = 1
INVARIANTS
  RefusedOnlyIfBad
PROPERTIES
  EveryParcelSettled
  ServiceMessagePublished
CHECK_DEADLOCK FALSE
