SPECIFICATION Spec
CONSTANTS
  TicksPerSecond = 2
  SecondsPerHour = 3600
  DefaultTtlSeconds = 15778476
  Undefined = Undefined
  Malformed = Malformed
  NoTtl = NoTtl
  NoOptions = NoOptions
  NotYet = NotYet
  InputEvents <- MCInputEvents
INVARIANTS
  ExpiryLessThanTimeRefused
CHECK_DEADLOCK FALSE
