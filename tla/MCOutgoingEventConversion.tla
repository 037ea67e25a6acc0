------------------------ MODULE MCOutgoingEventConversion ------------------------
(* Real seconds, hours and months, in ticks of half a second; expiries around   *)
(* every boundary: the time of the event and the tolerance of three hours.      *)
EXTENDS OutgoingEventConversion

Offsets == UNION {(b - 5)..(b + 5) : b \in {0, ClockDriftTolerance, 2 * ClockDriftTolerance}}
             \cup (-ClockDriftTolerance - 2)..(-ClockDriftTolerance + 2)
Times == {0, 1, 100000}

Event(attributes, time, expiry) ==
  [id |-> 1, subject |-> "alice", attributes |-> attributes, time |-> time, expiry |-> expiry]

MCInputEvents ==
  {Event(a, t, x) : a \in Attributes, t \in Times, x \in {Undefined, Malformed}}
    \cup {Event(a, t, t + d) : a \in {"ok", "wrongType"}, t \in Times, d \in Offsets}
================================================================================
