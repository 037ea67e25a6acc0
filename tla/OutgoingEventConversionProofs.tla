---------------------- MODULE OutgoingEventConversionProofs ----------------------
(* The conversion of an event keeps what OutgoingEventConversion says of it, for *)
(* all dates, resolutions of the clock and default ttls.                         *)
EXTENDS OutgoingEventConversion, OutgoingEventProofs

USE InputAssumption

\* The options, once there are any, are those of the event.
IInv == event \in InputEvents /\ options \in {NotYet, GetOutgoingServiceMessageOptions(event)}

\* Converting is all that happens, once.
LEMMA Invariance == Spec => []IInv
<1>1. Init => IInv
  BY DEF Init, IInv
<1>2. IInv /\ [Next]_vars => IInv'
  BY DEF IInv, Next, Convert, vars
<1>3. QED
  BY <1>1, <1>2, PTL DEF Spec

\* What a call returns without refusing the event are the options of the event.
LEMMA ConvertedOptions ==
  ASSUME IInv, Converted
  PROVE  /\ event \in InputEvents
         /\ options = GetOutgoingServiceMessageOptions(event) /\ options # NoOptions
BY DEF IInv, Converted

\* getTtl gives a parcel all the seconds that the event has left, and no more.
THEOREM TtlFits == Spec => []TtlFitsLifetime
<1>1. IInv => TtlFitsLifetime
  <2> SUFFICES ASSUME IInv, Converted, HasExpiry
               PROVE  /\ options.ttl \in Nat
                      /\ options.ttl > 0 => options.ttl * TicksPerSecond <= Lifetime
                      /\ Lifetime < (options.ttl + 1) * TicksPerSecond
    BY DEF TtlFitsLifetime
  <2> DEFINE ttl == GetTtl(event.expiry, event.time)
  <2>1. options.ttl = ttl /\ ttl \in Nat /\ ttl # NoTtl
    BY ConvertedOptions, OptionsFields
  <2>2. /\ ttl > 0 => ttl * TicksPerSecond <= event.expiry - event.time
        /\ event.expiry - event.time < (ttl + 1) * TicksPerSecond
    BY <2>1, ConvertedOptions, TtlBounds DEF HasExpiry
  <2>3. QED
    BY <2>1, <2>2 DEF Lifetime
<1>2. QED
  BY <1>1, Invariance, PTL

\* Setting the creation date back never lets a parcel outlive its event.
THEOREM ParcelDiesFirst == Spec => []NeverOutlivesEvent
<1>1. IInv => NeverOutlivesEvent
  <2> SUFFICES ASSUME IInv, Converted, HasExpiry
               PROVE  ParcelExpiry(options) <= event.expiry
    BY DEF NeverOutlivesEvent
  <2> DEFINE expiry == ParcelExpiry(options)
  <2>1. event \in InputEvents /\ event.expiry \in Int
    BY ConvertedOptions DEF HasExpiry
  <2>2. expiry \in Int /\ expiry + ClockDriftTolerance < event.expiry + TicksPerSecond
    BY ConvertedOptions, ParcelExpiryBound DEF HasExpiry
  <2>3. QED
    BY <2>1, <2>2, ToleranceType, ToleranceCoversRounding, TimeAssumption
<1>2. QED
  BY <1>1, Invariance, PTL

\* The client refuses no event that it could turn into a parcel.
THEOREM RefusedIsUnusable == Spec => []RefusedOnlyIfUnusable
<1>1. IInv => RefusedOnlyIfUnusable
  <2> SUFFICES ASSUME IInv, options = NoOptions
               PROVE  \/ event.attributes # "ok"
                      \/ event.expiry = Malformed
                      \/ event.expiry # Undefined /\ Lifetime <= -TicksPerSecond
    BY DEF RefusedOnlyIfUnusable
  <2>1. event \in InputEvents /\ GetOutgoingServiceMessageOptions(event) = NoOptions
    BY DEF IInv
  <2>2. event.attributes # "ok" \/ GetTtl(event.expiry, event.time) = NoTtl
    BY <2>1, OptionsFields
  <2>3. QED
    BY <2>1, <2>2, TtlBounds DEF Lifetime
<1>2. QED
  BY <1>1, Invariance, PTL
================================================================================
