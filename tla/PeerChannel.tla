------------------------------ MODULE PeerChannel ------------------------------
(* The channels of the Internet endpoint with its private peers:               *)
(* InternetEndpoint.saveChannel and InternetEndpoint.getPeerChannel, run        *)
(* concurrently by any number of request handlers over two stores that share   *)
(* no transaction: the Awala keystores (identity keys, session keys, parcel    *)
(* delivery authorisations) and the PeerEndpoint collection.                    *)
(*                                                                              *)
(* Every await is a point where other handlers run, where the store may throw  *)
(* (with or without having applied the write) and where the process may crash. *)
EXTENDS FiniteSets

CONSTANTS
  Peers,       \* ids of private endpoints
  Addresses,   \* Internet addresses of their gateways
  Params,      \* PrivateEndpointConnParams documents, well-formed
  BadParams,   \* the documents of Params the keystores refuse
  Savers,      \* concurrent calls of saveChannel
  Lookups,     \* concurrent calls of getPeerChannel
  NoPeer, NoAddress, NoParams

ASSUME ParamsAssumption ==
  /\ \A q \in Params : q.peerId \in Peers /\ q.internetGatewayAddress \in Addresses
  /\ BadParams \subseteq Params
  /\ NoPeer \notin Peers /\ NoAddress \notin Addresses /\ NoParams \notin Params

VARIABLES
  identityKeys,    \* peers whose identity key is in the public key store
  sessionKeys,     \* peer -> the document whose session key is in the public key store
  deliveryAuths,   \* the documents whose delivery authorisation is in the certificate store
  peerEndpoints,   \* the PeerEndpoint collection: peer -> address of its gateway
  expired,         \* the documents whose delivery authorisation has expired
  saves,           \* the saveChannel calls
  lookups,         \* the getPeerChannel calls
  contended        \* history: saves whose peer another call has written to meanwhile

keystores == <<identityKeys, sessionKeys, deliveryAuths>>
stores == <<keystores, peerEndpoints>>
vars == <<stores, expired, saves, lookups, contended>>

--------------------------------------------------------------------------------
KeystoreWrites == {"identityKey", "sessionKey", "deliveryAuth"}

NoSave == [step |-> "idle", params |-> NoParams, pending |-> {}]
NoLookup == [step |-> "idle", peerId |-> NoPeer, address |-> NoAddress, auth |-> NoParams]

TypeOK ==
  /\ identityKeys \subseteq Peers
  /\ sessionKeys \in [Peers -> Params \cup {NoParams}]
  /\ deliveryAuths \subseteq Params
  /\ peerEndpoints \in [Peers -> Addresses \cup {NoAddress}]
  /\ expired \subseteq Params
  /\ saves \in [Savers -> [step : {"idle", "saving", "returned", "thrown"},
                           params : Params \cup {NoParams},
                           pending : SUBSET KeystoreWrites]]
  /\ lookups \in [Lookups -> [step : {"idle", "findOne", "getChannel",
                                      "found", "unknown", "noChannel", "failed"},
                              peerId : Peers \cup {NoPeer},
                              address : Addresses \cup {NoAddress},
                              auth : Params \cup {NoParams}]]
  /\ contended \subseteq Savers

Init ==
  /\ identityKeys = {}
  /\ sessionKeys = [p \in Peers |-> NoParams]
  /\ deliveryAuths = {}
  /\ peerEndpoints = [p \in Peers |-> NoAddress]
  /\ expired = {}
  /\ saves = [s \in Savers |-> NoSave]
  /\ lookups = [l \in Lookups |-> NoLookup]
  /\ contended = {}

--------------------------------------------------------------------------------
(* saveChannel *)

\* The keystores throw before they write anything if the document is invalid or
\* its delivery authorisation has expired.
SaveChannel(s, q) ==
  /\ saves[s].step # "saving"
  /\ saves' = [saves EXCEPT ![s] =
        IF q \in BadParams \cup expired
        THEN [step |-> "thrown", params |-> q, pending |-> {}]
        ELSE [step |-> "saving", params |-> q, pending |-> KeystoreWrites]]
  /\ contended' = contended \ {s}
  /\ UNCHANGED <<stores, expired, lookups>>

\* Effect of one write of savePrivateEndpointChannel.
ApplyKeystoreWrite(w, q) ==
  \/ /\ w = "identityKey"
     /\ identityKeys' = identityKeys \cup {q.peerId}
     /\ UNCHANGED <<sessionKeys, deliveryAuths>>
  \/ /\ w = "sessionKey"
     /\ sessionKeys' = [sessionKeys EXCEPT ![q.peerId] = q]
     /\ UNCHANGED <<identityKeys, deliveryAuths>>
  \/ /\ w = "deliveryAuth"
     /\ deliveryAuths' = deliveryAuths \cup {q}
     /\ UNCHANGED <<identityKeys, sessionKeys>>

\* Mutant: the address is taken from the wrong field.
UpsertWrongField(q) ==
  peerEndpoints' = [peerEndpoints EXCEPT ![q.peerId] = q.peerId]

\* Mutant: an address on record is never replaced ($setOnInsert).
InsertOnly(q) ==
  peerEndpoints' = [peerEndpoints EXCEPT ![q.peerId] =
                      IF @ = NoAddress THEN q.internetGatewayAddress ELSE @]

\* Mutant: without {upsert: true}, a peer that is not on record never is.
UpdateOnly(q) ==
  peerEndpoints' = [peerEndpoints EXCEPT ![q.peerId] =
                      IF @ = NoAddress THEN @ ELSE q.internetGatewayAddress]

\* Effect of PeerEndpoint.updateOne(..., {upsert: true}).
ApplyUpsert(q) ==
  peerEndpoints' = [peerEndpoints EXCEPT ![q.peerId] = q.internetGatewayAddress]

\* The other calls that save a channel with the same peer as s.
RivalsOf(s) ==
  {t \in Savers \ {s} : saves[t].step # "idle" /\ saves[t].params.peerId = saves[s].params.peerId}

\* savePrivateEndpointChannel makes its writes in an order that is the library's.
WriteKeystore(s, w) ==
  /\ saves[s].step = "saving"
  /\ w \in saves[s].pending
  /\ ApplyKeystoreWrite(w, saves[s].params)
  /\ saves' = [saves EXCEPT ![s].pending = @ \ {w}]
  /\ contended' = contended \cup RivalsOf(s)
  /\ UNCHANGED <<peerEndpoints, expired, lookups>>

\* Mutant: the address is recorded without waiting for the keystores.
UpsertPeerEndpointEarly(s) ==
  /\ saves[s].step = "saving"
  /\ ApplyUpsert(saves[s].params)
  /\ saves' = [saves EXCEPT ![s].step = "returned"]
  /\ contended' = contended \cup RivalsOf(s)
  /\ UNCHANGED <<keystores, expired, lookups>>

\* Only once the keystores have the channel is its address recorded.
UpsertPeerEndpoint(s) ==
  /\ saves[s].step = "saving"
  /\ saves[s].pending = {}
  /\ ApplyUpsert(saves[s].params)
  /\ saves' = [saves EXCEPT ![s].step = "returned"]
  /\ contended' = contended \cup RivalsOf(s)
  /\ UNCHANGED <<keystores, expired, lookups>>

\* A store throws: the write in progress has been applied, or has not.
SaveThrows(s) ==
  /\ saves[s].step = "saving"
  /\ \/ UNCHANGED stores
     \/ /\ \E w \in saves[s].pending : ApplyKeystoreWrite(w, saves[s].params)
        /\ UNCHANGED peerEndpoints
     \/ /\ saves[s].pending = {}
        /\ ApplyUpsert(saves[s].params)
        /\ UNCHANGED keystores
  /\ saves' = [saves EXCEPT ![s].step = "thrown"]
  /\ contended' = contended \cup RivalsOf(s)
  /\ UNCHANGED <<expired, lookups>>

--------------------------------------------------------------------------------
(* getPeerChannel *)

GetPeerChannel(l, p) ==
  /\ lookups[l].step \notin {"findOne", "getChannel"}
  /\ lookups' = [lookups EXCEPT ![l] = [NoLookup EXCEPT !.step = "findOne", !.peerId = p]]
  /\ UNCHANGED <<stores, expired, saves, contended>>

\* Mutant: the query does not name the peer.
FindAnyPeerEndpoint(l) ==
  /\ lookups[l].step = "findOne"
  /\ \E p \in Peers :
       lookups' = [lookups EXCEPT ![l].address = peerEndpoints[p],
                                  ![l].step = IF peerEndpoints[p] = NoAddress
                                              THEN "unknown" ELSE "getChannel"]
  /\ UNCHANGED <<stores, expired, saves, contended>>

\* PeerEndpoint.findOne: null if there is no such peer.
FindPeerEndpoint(l) ==
  /\ lookups[l].step = "findOne"
  /\ LET address == peerEndpoints[lookups[l].peerId]
     IN  lookups' = [lookups EXCEPT ![l].address = address,
                                    ![l].step = IF address = NoAddress
                                                THEN "unknown" ELSE "getChannel"]
  /\ UNCHANGED <<stores, expired, saves, contended>>

\* Mutant: the query for authorisations does not name their issuer.
AuthsOfAnyone(p) == {q \in deliveryAuths \ expired : p \in identityKeys}

\* The authorisations that make a channel with peer p.
UsableAuths(p) ==
  {q \in deliveryAuths \ expired : p \in identityKeys /\ q.peerId = p}

\* The keystores answer with a channel over the address found before.
GetChannel(l) ==
  /\ lookups[l].step = "getChannel"
  /\ \/ \E q \in UsableAuths(lookups[l].peerId) :
          lookups' = [lookups EXCEPT ![l].step = "found", ![l].auth = q]
     \/ /\ UsableAuths(lookups[l].peerId) = {}
        /\ lookups' = [lookups EXCEPT ![l].step = "noChannel"]
  /\ UNCHANGED <<stores, expired, saves, contended>>

LookupThrows(l) ==
  /\ lookups[l].step \in {"findOne", "getChannel"}
  /\ lookups' = [lookups EXCEPT ![l].step = "failed"]
  /\ UNCHANGED <<stores, expired, saves, contended>>

--------------------------------------------------------------------------------
(* The environment *)

\* Time passes: a delivery authorisation expires.
Expire(q) ==
  /\ q \notin expired \cup BadParams
  /\ expired' = expired \cup {q}
  /\ UNCHANGED <<stores, saves, lookups, contended>>

\* The server pod, which runs saveChannel, dies and is replaced.
ServerCrash ==
  /\ saves' = [s \in Savers |-> NoSave]
  /\ contended' = {}
  /\ UNCHANGED <<stores, expired, lookups>>

\* The client pod, which runs getPeerChannel, dies and is replaced.
ClientCrash ==
  /\ lookups' = [l \in Lookups |-> NoLookup]
  /\ UNCHANGED <<stores, expired, saves, contended>>

SaveStep(s) ==
  \/ \E w \in KeystoreWrites : WriteKeystore(s, w)
  \/ UpsertPeerEndpoint(s)
  \/ SaveThrows(s)

LookupStep(l) == FindPeerEndpoint(l) \/ GetChannel(l) \/ LookupThrows(l)

Next ==
  \/ \E s \in Savers, q \in Params : SaveChannel(s, q)
  \/ \E s \in Savers : SaveStep(s)
  \/ \E l \in Lookups, p \in Peers : GetPeerChannel(l, p)
  \/ \E l \in Lookups : LookupStep(l)
  \/ \E q \in Params : Expire(q)
  \/ ServerCrash
  \/ ClientCrash

Spec == Init /\ [][Next]_vars

--------------------------------------------------------------------------------
(* Properties *)

\* The address of a peer is on record only if everything a channel needs is in
\* the keystores, and the address comes from connection parameters of that very
\* peer. This is why saveChannel writes the keystores first: whatever it is
\* interrupted at, the client finds either no peer or a whole channel.
EndpointBacked ==
  \A p \in Peers :
    peerEndpoints[p] # NoAddress =>
      /\ p \in identityKeys
      /\ sessionKeys[p] # NoParams
      /\ \E q \in deliveryAuths : q.peerId = p /\ q.internetGatewayAddress = peerEndpoints[p]

\* When saveChannel returns and no other call wrote to the same peer since it
\* began, the address and the session key are both those of its parameters, also
\* when the peer was known before: a renewed channel replaces the older one.
SaveTakesEffect ==
  \A s \in Savers :
    saves[s].step = "returned" /\ s \notin contended =>
      LET q == saves[s].params
      IN  /\ peerEndpoints[q.peerId] = q.internetGatewayAddress
          /\ sessionKeys[q.peerId] = q
          /\ q \in deliveryAuths

\* A channel handed to the client can make a message: the peer's keys are there,
\* the authorisation is the peer's own and the address is one the peer gave.
ChannelUsable ==
  \A l \in Lookups :
    lookups[l].step = "found" =>
      /\ lookups[l].peerId \in identityKeys
      /\ sessionKeys[lookups[l].peerId] # NoParams
      /\ lookups[l].auth \in deliveryAuths /\ lookups[l].auth.peerId = lookups[l].peerId
      /\ \E q \in deliveryAuths :
           q.peerId = lookups[l].peerId /\ q.internetGatewayAddress = lookups[l].address

\* getPeerChannel throws "Could not find channel for peer" only if the peer did
\* give authorisations and all of them have expired, never because a saveChannel
\* was caught halfway.
MissingChannelOnlyByExpiry ==
  [][\A l \in Lookups :
       lookups[l].step # "noChannel" /\ lookups'[l].step = "noChannel" =>
         LET auths == {q \in deliveryAuths : q.peerId = lookups[l].peerId}
         IN  auths # {} /\ auths \subseteq expired]_vars

\* getPeerChannel answers null for no peer whose channel one of the calls of
\* saveChannel has saved and returned, as long as that call is on record: until its
\* slot of Savers serves another call or the server crashes.
UnknownOnlyBeforeSave ==
  [][\A l \in Lookups, s \in Savers :
       /\ lookups[l].step # "unknown" /\ lookups'[l].step = "unknown"
       /\ saves[s].step = "returned"
       => saves[s].params.peerId # lookups[l].peerId]_vars
================================================================================
