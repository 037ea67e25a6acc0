SPECIFICATION Spec
CONSTANTS
  alice = alice
  gw1 = gw1
  gw2 = gw2
  s1 = s1
  s2 = s2
  NoPeer = NoPeer
  NoAddress = NoAddress
  NoParams = NoParams
  Peers <- RenewalPeers
  Addresses <- Gateways
  Params <- RenewalParams
  BadParams <- RenewalBadParams
  Savers <- TwoSavers
  Lookups = {l1}
SYMMETRY SaverSymmetry
INVARIANTS
  TypeOK
  EndpointBacked
  SaveTakesEffect
  ChannelUsable
PROPERTIES
  MissingChannelOnlyByExpiry
  UnknownOnlyBeforeSave
