SPECIFICATION Spec
CONSTANTS
  alice = alice
  gw1 = gw1
  gw2 = gw2
  h1 = h1
  h2 = h2
  NoPeer = NoPeer
  NoAddress = NoAddress
  NoParams = NoParams
  NoParcel = NoParcel
  Peers <- MCPeers
  Addresses <- MCAddresses
  Params <- GoodParams
  BadParams <- NoDocs
  Parcels <- RetriesParcels
  Handlers <- TwoHandlers
  MaxFaults = 2
SYMMETRY HandlerSymmetry
INVARIANTS
  TypeOK
  AcceptedMeansPublished
  DuplicatesOnlyAfterFailure
  AcceptedMeansImported
PROPERTIES
  PassesOnAtLeastOnce
  ImplementsPeerChannel
CHECK_DEADLOCK FALSE
