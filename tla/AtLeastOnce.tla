------------------------------- MODULE AtLeastOnce -------------------------------
(* What the server promises to the gateways, and the client to the broker: a    *)
(* message handed over is kept by its sender until it has been passed on or     *)
(* given up, then never taken up again; and it is passed on again only to make  *)
(* up for a failure.                                                             *)
EXTENDS Naturals

CONSTANT Messages

VARIABLES
  kept,       \* messages whose sender still holds them
  passedOn,   \* how many times each message was passed on
  givenUp,    \* messages that need not be passed on
  failures    \* how many failures made the sender of each message retry

vars == <<kept, passedOn, givenUp, failures>>

Init ==
  /\ kept = Messages
  /\ passedOn = [m \in Messages |-> 0]
  /\ givenUp \subseteq Messages
  /\ failures = [m \in Messages |-> 0]

\* A failure strikes messages that are under way.
Fail(messages) ==
  failures' = [m \in Messages |-> failures[m] + (IF m \in messages THEN 1 ELSE 0)]

\* At once, perhaps, with a failure that hides it from the sender. A message may
\* also be passed on when it is no longer kept: by an attempt that was overtaken.
PassOn(m) ==
  /\ passedOn[m] <= failures[m]
  /\ passedOn' = [passedOn EXCEPT ![m] = @ + 1]
  /\ UNCHANGED failures \/ (m \in kept /\ Fail({m}))
  /\ UNCHANGED <<kept, givenUp>>

Interrupt ==
  /\ \E messages \in SUBSET kept : Fail(messages)
  /\ UNCHANGED <<kept, passedOn, givenUp>>

GiveUp(m) ==
  /\ givenUp' = givenUp \cup {m}
  /\ UNCHANGED <<kept, passedOn, failures>>

Forget(m) ==
  /\ m \in kept
  /\ passedOn[m] > 0 \/ m \in givenUp
  /\ kept' = kept \ {m}
  /\ UNCHANGED <<passedOn, givenUp, failures>>

Next ==
  \/ \E m \in Messages : PassOn(m) \/ GiveUp(m) \/ Forget(m)
  \/ Interrupt

Spec == Init /\ [][Next]_vars
================================================================================
