----------------------------- MODULE OutgoingEvents -----------------------------
(* getOutgoingServiceMessageOptions: how the client turns the CloudEvent of an  *)
(* outgoing service message into the id, lifetime and creation date of the      *)
(* parcel that carries it. Pure, apart from its log.                            *)
(*                                                                              *)
(* A date is a number of ticks, a ttl a number of seconds. An event keeps what  *)
(* the function looks at: which of its attributes are present and well-typed    *)
(* ("attributes"), its subject, its time and its expiry.                         *)
EXTENDS Integers

CONSTANTS
  TicksPerSecond,     \* dates are finer than the seconds of a ttl
  SecondsPerHour,
  DefaultTtlSeconds,  \* DEFAULT_TTL_SECONDS, six months
  Undefined,          \* an attribute the event does not have
  Malformed,          \* an expiry that is no string, or no date
  NoTtl, NoOptions

ASSUME TimeAssumption ==
  /\ TicksPerSecond \in Nat \ {0}
  /\ SecondsPerHour \in Nat \ {0}
  /\ DefaultTtlSeconds \in Nat
  /\ NoTtl \notin Int

CLOCK_DRIFT_TOLERANCE_HOURS == 3

ClockDriftTolerance == CLOCK_DRIFT_TOLERANCE_HOURS * SecondsPerHour * TicksPerSecond

\* What can be wrong with an event before its dates are looked at.
Attributes == {"wrongType", "noSubject", "noDataContentType", "dataNotBuffer", "ok"}

\* differenceInSeconds of date-fns drops the fraction: it rounds towards zero.
DifferenceInSeconds(later, earlier) ==
  IF later >= earlier
  THEN (later - earlier) \div TicksPerSecond
  ELSE -((earlier - later) \div TicksPerSecond)

\* Mutant: the difference is in minutes, whatever the unit of a ttl.
GetTtlInMinutes(expiry, creationDate) ==
  CASE expiry = Undefined -> DefaultTtlSeconds
    [] expiry = Malformed -> NoTtl
    [] OTHER -> LET difference == DifferenceInSeconds(expiry, creationDate)
                IN  IF difference < 0 THEN NoTtl ELSE difference \div 60

\* Mutant: a lifetime shorter than a second is refused too.
GetPositiveTtl(expiry, creationDate) ==
  CASE expiry = Undefined -> DefaultTtlSeconds
    [] expiry = Malformed -> NoTtl
    [] OTHER -> LET difference == DifferenceInSeconds(expiry, creationDate)
                IN  IF difference <= 0 THEN NoTtl ELSE difference

GetTtl(expiry, creationDate) ==
  CASE expiry = Undefined -> DefaultTtlSeconds
    [] expiry = Malformed -> NoTtl
    [] OTHER -> LET difference == DifferenceInSeconds(expiry, creationDate)
                IN  IF difference < 0 THEN NoTtl ELSE difference

\* Mutants: the creation date is left as it is; the tolerance is added to it.
KeepDate(date) == date
AddClockDrift(date) == date + ClockDriftTolerance

SubClockDrift(date) == date - ClockDriftTolerance

\* The ttl counts from the time of the event, the parcel from the date before it.
GetOutgoingServiceMessageOptions(event) ==
  LET ttl == GetTtl(event.expiry, event.time)
  IN  IF event.attributes # "ok" \/ ttl = NoTtl
      THEN NoOptions
      ELSE [parcelId |-> event.id, peerId |-> event.subject,
            ttl |-> ttl, creationDate |-> SubClockDrift(event.time)]

\* What it can return for such events, apart from NoOptions.
OptionsOf(events) ==
  [parcelId : {e.id : e \in events}, peerId : {e.subject : e \in events},
   ttl : Nat, creationDate : Int]

\* RAMF: a parcel lives for ttl seconds from its creation date.
ParcelExpiry(options) == options.creationDate + options.ttl * TicksPerSecond
================================================================================
