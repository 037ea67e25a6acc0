------------------------- MODULE OutgoingEventConversion -------------------------
(* One call of getOutgoingServiceMessageOptions for any event of InputEvents,   *)
(* against a definition of what the parcel's lifetime has to be.                *)
EXTENDS OutgoingEvents

CONSTANTS
  InputEvents,   \* records [id, attributes, subject, time, expiry]
  NotYet         \* options before the call returns

ASSUME InputAssumption ==
  /\ \A e \in InputEvents :
       /\ e.attributes \in Attributes
       /\ e.time \in Int /\ e.expiry \in Int \cup {Undefined, Malformed}
  /\ NoOptions \notin OptionsOf(InputEvents)
  /\ NotYet # NoOptions

VARIABLES event, options

vars == <<event, options>>

Init == event \in InputEvents /\ options = NotYet

Convert ==
  /\ options = NotYet
  /\ options' = GetOutgoingServiceMessageOptions(event)
  /\ UNCHANGED event

Next == Convert

Spec == Init /\ [][Next]_vars

--------------------------------------------------------------------------------
Converted == options \notin {NotYet, NoOptions}
HasExpiry == event.expiry \notin {Undefined, Malformed}

\* The length of the lifetime the event asks for, in ticks.
Lifetime == event.expiry - event.time

\* The ttl is the longest whole number of seconds that fits in the lifetime of the
\* event; zero if expiry and time are less than a second apart, on either side.
TtlFitsLifetime ==
  Converted /\ HasExpiry =>
    /\ options.ttl \in Nat
    /\ options.ttl > 0 => options.ttl * TicksPerSecond <= Lifetime
    /\ Lifetime < (options.ttl + 1) * TicksPerSecond

\* A parcel never expires later than its event, although its creation date, from
\* which its ttl counts, is not the time of the event, from which the ttl was
\* computed; also where the expiry of the event lies just before its time.
NeverOutlivesEvent ==
  Converted /\ HasExpiry => ParcelExpiry(options) <= event.expiry

\* Nothing is refused but events that lack an attribute, whose expiry is no date,
\* or that expire a second or more before their own time.
RefusedOnlyIfUnusable ==
  options = NoOptions =>
    \/ event.attributes # "ok"
    \/ event.expiry = Malformed
    \/ event.expiry # Undefined /\ Lifetime <= -TicksPerSecond

--------------------------------------------------------------------------------
(* What a test says, and the code does not do *)

\* outgoingServiceMessage.event.spec.ts: "Expiry less than time should be refused".
ExpiryLessThanTimeRefused ==
  HasExpiry /\ Lifetime < 0 /\ options # NotYet => options = NoOptions
================================================================================
