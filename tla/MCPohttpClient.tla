----------------------------- MODULE MCPohttpClient -----------------------------
(* Instances of PohttpClient, where a second lasts a tick and an hour a second. *)
EXTENDS PohttpClient, FiniteSets, TLC

CONSTANTS alice, gw1, h1, h2

Doc(n, p, a) == [deliveryAuth |-> n, peerId |-> p, internetGatewayAddress |-> a]
Event(i, time, expiry) ==
  [id |-> i, parsable |-> TRUE, source |-> "default", attributes |-> "ok",
   subject |-> alice, time |-> time, expiry |-> expiry]

OneDoc == {Doc(1, alice, gw1)}

LongLived == {Event(1, 0, 5)}
\* The time of the event is still to come when it is first pushed.
Postdated == {Event(1, 1, 5)}

TwoHandlers == {h1, h2}
HandlerSymmetry == Permutations(TwoHandlers)
================================================================================
