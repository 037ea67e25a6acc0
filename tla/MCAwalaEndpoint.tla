----------------------------- MODULE MCAwalaEndpoint -----------------------------
(* Exchange: alice sends her authorisation and a message, which the application *)
(* answers. Renewal: she has moved, and bob has an authorisation, too. A second *)
(* lasts a tick and an hour a second.                                            *)
EXTENDS AwalaEndpoint, TLC

CONSTANTS alice, bob, gw1, gw2, gw3, s1, s2, h1

Doc(n, p, a) == [deliveryAuth |-> n, peerId |-> p, internetGatewayAddress |-> a]
PdaParcel(i, q) == [id |-> i, kind |-> "pda", params |-> q]
Message(i, p) ==
  [id |-> i, kind |-> "service", params |-> NoParams, sender |-> p,
   creationDate |-> 0, expiryDate |-> 5]

MCPeers == {alice, bob}
MCAddresses == {gw1, gw2, gw3}
NoDocs == {}

ExchangeDocs == {Doc(1, alice, gw1)}
ExchangeParcels == {PdaParcel(1, Doc(1, alice, gw1)), Message(2, alice)}

RenewedDocs == {Doc(1, alice, gw1), Doc(2, alice, gw2), Doc(3, bob, gw3)}
RenewalParcels ==
  {PdaParcel(q.deliveryAuth, q) : q \in RenewedDocs} \cup {Message(4, alice)}

\* A parcel that expires is dropped, as if it had never come; bob's authorisation
\* lasts.
OnlyAliceExpires ==
  expiredParcels = {} /\ expired \subseteq {q \in RenewedDocs : q.peerId = alice}

TwoHandlers == {s1, s2}
HandlerSymmetry == Permutations(TwoHandlers)
================================================================================
