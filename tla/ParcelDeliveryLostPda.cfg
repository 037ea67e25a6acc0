SPECIFICATION Spec
CONSTANTS
  alice = alice
  gw1 = gw1
  gw2 = gw2
  h1 = h1
  h2 = h2
  NoPeer = NoPeer
  NoAddress = NoAddress
  NoParams = NoParams
  NoParcel = NoParcel
  Peers <- MCPeers
  Addresses <- MCAddresses
  Params <- GoodParams
  BadParams <- NoDocs
  Parcels <- RetriesParcels
  Handlers = {h1}
  MaxFaults = 1
INVARIANTS
  AcceptedPdasImported
CHECK_DEADLOCK FALSE
