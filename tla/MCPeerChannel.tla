----------------------------- MODULE MCPeerChannel -----------------------------
(* An instance of PeerChannel: one peer, which renews its authorisation from a  *)
(* second gateway, and a document the keystores refuse.                         *)
EXTENDS PeerChannel, TLC

CONSTANTS alice, gw1, gw2, s1, s2

Doc(n, p, a) == [deliveryAuth |-> n, peerId |-> p, internetGatewayAddress |-> a]

RenewalPeers == {alice}
RenewalBadParams == {Doc(3, alice, gw2)}
RenewalParams == {Doc(1, alice, gw1), Doc(2, alice, gw2)} \cup RenewalBadParams

Gateways == {gw1, gw2}
TwoSavers == {s1, s2}
SaverSymmetry == Permutations(TwoSavers)
================================================================================
