SPECIFICATION FairSpec
CONSTANTS
  p1 = p1
  p2 = p2
  r1 = r1
  j1 = j1
  j2 = j2
  Parcels <- TwoParcels
  Readers <- OneReader
  Jobs <- TwoJobs
  FailureThreshold = 2
  MaxFaults = 2
INVARIANTS
  TypeOK
  OneInitialKey
  SucceededMeansKey
  RequestsFindTheirStores
PROPERTIES
  ServesInTheEnd
  EventsEmitted
  ConnectionParamsServed
CHECK_DEADLOCK FALSE
