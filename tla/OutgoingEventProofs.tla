--------------------------- MODULE OutgoingEventProofs ---------------------------
(* What getTtl and getOutgoingServiceMessageOptions return, for all dates.      *)
EXTENDS OutgoingEvents, TLAPS

USE TimeAssumption

\* Rounding down leaves less than one unit.
LEMMA DivisionBounds ==
  ASSUME NEW n \in Nat, NEW d \in Nat \ {0}
  PROVE  /\ n \div d \in Nat
         /\ (n \div d) * d <= n
         /\ n < ((n \div d) + 1) * d
OBVIOUS

\* The difference is negative only if it is a second or more; otherwise it is the
\* number of whole seconds from the earlier date to the later.
LEMMA DifferenceBounds ==
  ASSUME NEW later \in Int, NEW earlier \in Int
  PROVE  LET difference == DifferenceInSeconds(later, earlier)
         IN  /\ difference \in Int
             /\ difference < 0 => later - earlier <= -TicksPerSecond
             /\ difference >= 0 =>
                  /\ -TicksPerSecond < later - earlier
                  /\ difference > 0 => difference * TicksPerSecond <= later - earlier
                  /\ later - earlier < (difference + 1) * TicksPerSecond
<1>1. CASE later >= earlier
  <2>1. later - earlier \in Nat
    BY <1>1
  <2>2. DifferenceInSeconds(later, earlier) = (later - earlier) \div TicksPerSecond
    BY <1>1 DEF DifferenceInSeconds
  <2>3. QED
    BY <2>1, <2>2, DivisionBounds
<1>2. CASE later < earlier
  <2> DEFINE seconds == (earlier - later) \div TicksPerSecond
  <2>1. earlier - later \in Nat
    BY <1>2
  <2>2. /\ seconds \in Nat
        /\ seconds * TicksPerSecond <= earlier - later
        /\ earlier - later < (seconds + 1) * TicksPerSecond
    BY <2>1, DivisionBounds
  <2>3. DifferenceInSeconds(later, earlier) = -seconds
    BY <1>2 DEF DifferenceInSeconds
  <2>4. CASE seconds = 0
    BY <1>2, <2>2, <2>3, <2>4
  <2>5. CASE seconds > 0
    <3>1. TicksPerSecond <= seconds * TicksPerSecond
      BY <2>2, <2>5
    <3>2. QED
      BY <2>2, <2>3, <2>5, <3>1
  <2>6. QED
    BY <2>2, <2>4, <2>5
<1>3. QED
  BY <1>1, <1>2

\* A ttl is a number of seconds, refused only for an expiry that is no date or too
\* early, and otherwise the longest that the lifetime of the event has room for.
LEMMA TtlBounds ==
  ASSUME NEW expiry \in Int \cup {Undefined, Malformed}, NEW date \in Int
  PROVE  LET ttl == GetTtl(expiry, date)
         IN  /\ ttl \in Nat \cup {NoTtl}
             /\ ttl = NoTtl =>
                  \/ expiry = Malformed
                  \/ expiry # Undefined /\ expiry \in Int /\ expiry - date <= -TicksPerSecond
             /\ ttl # NoTtl /\ expiry \notin {Undefined, Malformed} =>
                  /\ -TicksPerSecond < expiry - date
                  /\ ttl > 0 => ttl * TicksPerSecond <= expiry - date
                  /\ expiry - date < (ttl + 1) * TicksPerSecond
<1>1. CASE expiry \in {Undefined, Malformed}
  BY <1>1 DEF GetTtl
<1>2. CASE expiry \notin {Undefined, Malformed}
  <2> DEFINE difference == DifferenceInSeconds(expiry, date)
  <2>1. GetTtl(expiry, date) = IF difference < 0 THEN NoTtl ELSE difference
    BY <1>2 DEF GetTtl
  <2>2. expiry \in Int
    BY <1>2
  <2>3. /\ difference \in Int
        /\ difference < 0 => expiry - date <= -TicksPerSecond
        /\ difference >= 0 =>
             /\ -TicksPerSecond < expiry - date
             /\ difference > 0 => difference * TicksPerSecond <= expiry - date
             /\ expiry - date < (difference + 1) * TicksPerSecond
    BY <2>2, DifferenceBounds
  <2>4. QED
    BY <1>2, <2>1, <2>2, <2>3
<1>3. QED
  BY <1>1, <1>2

\* The tolerance is a length of time.
LEMMA ToleranceType == ClockDriftTolerance \in Nat
BY DEF ClockDriftTolerance, CLOCK_DRIFT_TOLERANCE_HOURS

\* It is longer than what rounding to seconds can hide.
LEMMA ToleranceCoversRounding == TicksPerSecond <= ClockDriftTolerance
<1>1. TicksPerSecond <= SecondsPerHour * TicksPerSecond
  OBVIOUS
<1>2. SecondsPerHour * TicksPerSecond \in Nat
  OBVIOUS
<1>3. QED
  BY <1>1, <1>2 DEF ClockDriftTolerance, CLOCK_DRIFT_TOLERANCE_HOURS

\* Events that are accepted become options with their ttl and a creation date that
\* lies the tolerance back.
LEMMA OptionsFields ==
  ASSUME NEW events,
         \A e \in events : e.time \in Int /\ e.expiry \in Int \cup {Undefined, Malformed},
         NoOptions \notin OptionsOf(events),
         NEW e \in events
  PROVE  LET options == GetOutgoingServiceMessageOptions(e)
             ttl == GetTtl(e.expiry, e.time)
         IN  /\ options = NoOptions <=> e.attributes # "ok" \/ ttl = NoTtl
             /\ options # NoOptions =>
                  /\ options \in OptionsOf(events)
                  /\ options.ttl = ttl /\ ttl \in Nat /\ ttl # NoTtl
                  /\ options.creationDate = e.time - ClockDriftTolerance
                  /\ options.peerId = e.subject
<1> DEFINE ttl == GetTtl(e.expiry, e.time)
           options == [parcelId |-> e.id, peerId |-> e.subject,
                       ttl |-> ttl, creationDate |-> SubClockDrift(e.time)]
<1>1. ttl \in Nat \cup {NoTtl}
  BY TtlBounds
<1>2. SubClockDrift(e.time) = e.time - ClockDriftTolerance /\ SubClockDrift(e.time) \in Int
  BY ToleranceType DEF SubClockDrift
<1>3. ttl # NoTtl => options \in OptionsOf(events)
  BY <1>1, <1>2 DEF OptionsOf
<1>4. GetOutgoingServiceMessageOptions(e) =
        IF e.attributes # "ok" \/ ttl = NoTtl THEN NoOptions ELSE options
  BY DEF GetOutgoingServiceMessageOptions
<1>5. QED
  BY <1>1, <1>2, <1>3, <1>4

\* A parcel expires before its event does, by the tolerance at least, but for less
\* than a second if the event expires before its own time.
LEMMA ParcelExpiryBound ==
  ASSUME NEW events,
         \A e \in events : e.time \in Int /\ e.expiry \in Int \cup {Undefined, Malformed},
         NoOptions \notin OptionsOf(events),
         NEW e \in events, e.expiry \notin {Undefined, Malformed},
         GetOutgoingServiceMessageOptions(e) # NoOptions
  PROVE  LET expiry == ParcelExpiry(GetOutgoingServiceMessageOptions(e))
         IN  /\ expiry \in Int
             /\ expiry + ClockDriftTolerance
                  <= e.expiry + (IF e.expiry - e.time < 0 THEN TicksPerSecond ELSE 0)
             /\ expiry + ClockDriftTolerance < e.expiry + TicksPerSecond
<1> DEFINE ttl == GetTtl(e.expiry, e.time)
<1>1. /\ ttl \in Nat /\ ttl # NoTtl
      /\ ParcelExpiry(GetOutgoingServiceMessageOptions(e))
           = e.time - ClockDriftTolerance + ttl * TicksPerSecond
  BY OptionsFields DEF ParcelExpiry
<1>2. e.time \in Int /\ e.expiry \in Int
  OBVIOUS
<1>3. /\ -TicksPerSecond < e.expiry - e.time
      /\ ttl > 0 => ttl * TicksPerSecond <= e.expiry - e.time
  BY <1>1, <1>2, TtlBounds
<1>4. ttl = 0 => ttl * TicksPerSecond = 0
  OBVIOUS
<1>5. ttl * TicksPerSecond \in Int
  BY <1>1
<1>6. QED
  BY <1>1, <1>2, <1>3, <1>4, <1>5, ToleranceType
================================================================================
