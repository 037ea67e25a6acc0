---------------------------- MODULE MCParcelDelivery ----------------------------
(* Instances of ParcelDelivery. Retries: a service message and a PDA whose      *)
(* gateways may deliver them twice at once. Mixed: one parcel of each kind, the *)
(* connection parameters being some that the keystores refuse.                  *)
EXTENDS ParcelDelivery, TLC

CONSTANTS alice, gw1, gw2, h1, h2

Doc(n, a) == [deliveryAuth |-> n, peerId |-> alice, internetGatewayAddress |-> a]
Parcel(i, k) == [id |-> i, kind |-> k, params |-> NoParams]
PdaParcel(i, q) == [id |-> i, kind |-> "pda", params |-> q]

MCPeers == {alice}
MCAddresses == {gw1, gw2}
GoodParams == {Doc(1, gw1)}
BadDocs == {Doc(2, gw2)}
MixedDocs == GoodParams \cup BadDocs
NoDocs == {}

RetriesParcels == {Parcel(1, "service"), PdaParcel(2, Doc(1, gw1))}
MixedParcels ==
  {Parcel(1, "malformed"), Parcel(2, "garbled"), Parcel(3, "service"), PdaParcel(4, Doc(2, gw2)),
   Parcel(5, "invalid")}

TwoHandlers == {h1, h2}
HandlerSymmetry == Permutations(TwoHandlers)
================================================================================
