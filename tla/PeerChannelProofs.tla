---------------------------- MODULE PeerChannelProofs ----------------------------
(* Proofs about PeerChannel, for any peers, documents and numbers of calls.     *)
EXTENDS PeerChannel, TLAPS

\* A call has the arguments it was made with.
HasArguments ==
  /\ \A s \in Savers : saves[s].step # "idle" => saves[s].params \in Params
  /\ \A l \in Lookups : lookups[l].step # "idle" => lookups[l].peerId \in Peers

\* The keystores have whatever a call has written.
Wrote(s) ==
  LET q == saves[s].params
  IN  /\ "identityKey" \notin saves[s].pending => q.peerId \in identityKeys
      /\ "sessionKey" \notin saves[s].pending => sessionKeys[q.peerId] # NoParams
      /\ "deliveryAuth" \notin saves[s].pending => q \in deliveryAuths

WrittenIsStored ==
  \A s \in Savers :
    /\ saves[s].step = "saving" => Wrote(s)
    /\ saves[s].step = "returned" =>
         /\ saves[s].pending = {} /\ Wrote(s)
         /\ peerEndpoints[saves[s].params.peerId] # NoAddress

\* While no other call has written to its peer, what a call wrote is what is there.
UncontendedIsLast ==
  \A s \in Savers :
    s \notin contended =>
      LET q == saves[s].params
      IN  /\ saves[s].step \in {"saving", "returned"} /\ "sessionKey" \notin saves[s].pending
             => sessionKeys[q.peerId] = q
          /\ saves[s].step = "returned"
             => peerEndpoints[q.peerId] = q.internetGatewayAddress

\* The stores have all it takes to reach peer p at address a.
Backed(p, a) ==
  /\ p \in identityKeys
  /\ sessionKeys[p] # NoParams
  /\ \E q \in deliveryAuths : q.peerId = p /\ q.internetGatewayAddress = a

LookupsBacked ==
  \A l \in Lookups :
    /\ lookups[l].step \in {"getChannel", "found"} => Backed(lookups[l].peerId, lookups[l].address)
    /\ lookups[l].step = "found" =>
         lookups[l].auth \in deliveryAuths /\ lookups[l].auth.peerId = lookups[l].peerId

IInv ==
  TypeOK /\ HasArguments /\ WrittenIsStored /\ UncontendedIsLast /\ EndpointBacked /\ LookupsBacked

--------------------------------------------------------------------------------
\* A document names a peer and an address, and the three "no value" constants are
\* none of the values.
USE ParamsAssumption

\* A call that runs has arguments, so what it writes is of the right type.
Typed == TypeOK /\ HasArguments

\* Every variable keeps its type: whatever is stored for a peer is an address or a
\* document, and every call is at one of the steps of its method.
LEMMA TypedInductive == Spec => []Typed
<1>1. Init => Typed
  BY DEF Init, Typed, TypeOK, HasArguments, NoSave, NoLookup
<1>2. Typed /\ [Next]_vars => Typed'
  <2> SUFFICES ASSUME Typed, [Next]_vars PROVE TypeOK' /\ HasArguments'
    BY DEF Typed
  <2> USE DEF Typed, TypeOK, HasArguments
  <2>1. ASSUME NEW s \in Savers, NEW q \in Params, SaveChannel(s, q)
        PROVE  TypeOK' /\ HasArguments'
    BY <2>1 DEF SaveChannel, stores, keystores
  <2>2. ASSUME NEW s \in Savers, NEW w \in KeystoreWrites, WriteKeystore(s, w)
        PROVE  TypeOK' /\ HasArguments'
    BY <2>2 DEF WriteKeystore, ApplyKeystoreWrite, RivalsOf
  <2>3. ASSUME NEW s \in Savers, UpsertPeerEndpoint(s)
        PROVE  TypeOK' /\ HasArguments'
    BY <2>3 DEF UpsertPeerEndpoint, ApplyUpsert, keystores, RivalsOf
  <2>4. ASSUME NEW s \in Savers, SaveThrows(s)
        PROVE  TypeOK' /\ HasArguments'
    BY <2>4 DEF SaveThrows, ApplyKeystoreWrite, ApplyUpsert, stores, keystores, RivalsOf
  <2>5. ASSUME NEW l \in Lookups, NEW p \in Peers, GetPeerChannel(l, p)
        PROVE  TypeOK' /\ HasArguments'
    BY <2>5 DEF GetPeerChannel, NoLookup, stores, keystores
  <2>6. ASSUME NEW l \in Lookups, LookupStep(l)
        PROVE  TypeOK' /\ HasArguments'
    BY <2>6 DEF LookupStep, FindPeerEndpoint, GetChannel, UsableAuths, LookupThrows,
                stores, keystores
  <2>7. ASSUME NEW q \in Params, Expire(q)
        PROVE  TypeOK' /\ HasArguments'
    BY <2>7 DEF Expire, stores, keystores
  <2>8. CASE ServerCrash
    BY <2>8 DEF ServerCrash, NoSave, stores, keystores
  <2>9. CASE ClientCrash
    BY <2>9 DEF ClientCrash, NoLookup, stores, keystores
  <2>10. CASE UNCHANGED vars
    BY <2>10 DEF vars, stores, keystores
  <2>11. QED
    BY <2>1, <2>2, <2>3, <2>4, <2>5, <2>6, <2>7, <2>8, <2>9, <2>10 DEF Next, SaveStep
<1>3. QED
  BY <1>1, <1>2, PTL DEF Spec

\* The stores, the calls and the history keep their types, whatever interleaves.
THEOREM TypeCorrect == Spec => []TypeOK
<1>1. Typed => TypeOK
  BY DEF Typed
<1>2. QED
  BY <1>1, TypedInductive, PTL

--------------------------------------------------------------------------------
(* The stores only ever gain: whatever happens, no key, authorisation or address *)
(* is lost once it is there.                                                     *)
StoresGrow ==
  /\ identityKeys \subseteq identityKeys'
  /\ deliveryAuths \subseteq deliveryAuths'
  /\ \A p \in Peers : sessionKeys[p] # NoParams => sessionKeys'[p] # NoParams
  /\ \A p \in Peers : peerEndpoints[p] # NoAddress => peerEndpoints'[p] # NoAddress

\* No step of saveChannel, getPeerChannel or the environment deletes what is stored.
LEMMA StoresOnlyGrow ==
  ASSUME Typed, [Next]_vars
  PROVE  StoresGrow
<1> USE DEF Typed, TypeOK, HasArguments, StoresGrow
<1>1. ASSUME NEW s \in Savers, NEW w \in KeystoreWrites, WriteKeystore(s, w)
      PROVE  StoresGrow
  BY <1>1 DEF WriteKeystore, ApplyKeystoreWrite
<1>2. ASSUME NEW s \in Savers, UpsertPeerEndpoint(s)
      PROVE  StoresGrow
  BY <1>2 DEF UpsertPeerEndpoint, ApplyUpsert, keystores
<1>3. ASSUME NEW s \in Savers, SaveThrows(s)
      PROVE  StoresGrow
  BY <1>3 DEF SaveThrows, ApplyKeystoreWrite, ApplyUpsert, stores, keystores
<1>4. CASE UNCHANGED stores
  BY <1>4 DEF stores, keystores
<1>5. QED
  BY <1>1, <1>2, <1>3, <1>4
     DEF Next, SaveStep, SaveChannel, GetPeerChannel, LookupStep, FindPeerEndpoint, GetChannel,
         LookupThrows, Expire, ServerCrash, ClientCrash, vars

\* A call's own writes are in the stores when it is told so, and stay there,
\* because the stores only grow.
LEMMA WrittenIsStoredStep ==
  ASSUME Typed, WrittenIsStored, [Next]_vars
  PROVE  WrittenIsStored'
<1> USE DEF Typed, TypeOK, HasArguments, WrittenIsStored, Wrote, StoresGrow
<1>1. StoresGrow
  BY StoresOnlyGrow
<1>2. ASSUME NEW s \in Savers, NEW q \in Params, SaveChannel(s, q)
      PROVE  WrittenIsStored'
  BY <1>1, <1>2 DEF SaveChannel, KeystoreWrites, stores, keystores
<1>3. ASSUME NEW s \in Savers, NEW w \in KeystoreWrites, WriteKeystore(s, w)
      PROVE  WrittenIsStored'
  <2>1. LET q == saves[s].params
        IN  /\ w = "identityKey" => q.peerId \in identityKeys'
            /\ w = "sessionKey" => sessionKeys'[q.peerId] # NoParams
            /\ w = "deliveryAuth" => q \in deliveryAuths'
    BY <1>3 DEF WriteKeystore, ApplyKeystoreWrite
  <2>2. saves' = [saves EXCEPT ![s].pending = @ \ {w}] /\ saves[s].step = "saving"
    BY <1>3 DEF WriteKeystore
  <2>3. QED
    BY <1>1, <2>1, <2>2
<1>4. ASSUME NEW s \in Savers, UpsertPeerEndpoint(s)
      PROVE  WrittenIsStored'
  BY <1>1, <1>4 DEF UpsertPeerEndpoint, ApplyUpsert, keystores
<1>5. ASSUME NEW s \in Savers, SaveThrows(s)
      PROVE  WrittenIsStored'
  BY <1>1, <1>5 DEF SaveThrows
<1>6. CASE ServerCrash
  BY <1>6 DEF ServerCrash, NoSave
<1>7. CASE UNCHANGED <<stores, saves>>
  BY <1>7 DEF stores, keystores
<1>8. QED
  BY <1>2, <1>3, <1>4, <1>5, <1>6, <1>7
     DEF Next, SaveStep, GetPeerChannel, LookupStep, FindPeerEndpoint, GetChannel,
         LookupThrows, Expire, ClientCrash, vars

\* A write to the peer of another call marks that call as contended, so the calls
\* that are not keep the session key and the address they wrote.
LEMMA UncontendedIsLastStep ==
  ASSUME Typed, UncontendedIsLast, [Next]_vars
  PROVE  UncontendedIsLast'
<1> USE DEF Typed, TypeOK, HasArguments, UncontendedIsLast
<1>1. ASSUME NEW s \in Savers, NEW q \in Params, SaveChannel(s, q)
      PROVE  UncontendedIsLast'
  BY <1>1 DEF SaveChannel, KeystoreWrites, stores, keystores
<1>2. ASSUME NEW s \in Savers, NEW w \in KeystoreWrites, WriteKeystore(s, w)
      PROVE  UncontendedIsLast'
  BY <1>2 DEF WriteKeystore, ApplyKeystoreWrite, RivalsOf
<1>3. ASSUME NEW s \in Savers, UpsertPeerEndpoint(s)
      PROVE  UncontendedIsLast'
  BY <1>3 DEF UpsertPeerEndpoint, ApplyUpsert, keystores, RivalsOf
<1>4. ASSUME NEW s \in Savers, SaveThrows(s)
      PROVE  UncontendedIsLast'
  BY <1>4 DEF SaveThrows, ApplyKeystoreWrite, ApplyUpsert, stores, keystores, RivalsOf
<1>5. CASE ServerCrash
  BY <1>5 DEF ServerCrash, NoSave
<1>6. CASE UNCHANGED <<stores, saves, contended>>
  BY <1>6 DEF stores, keystores
<1>7. QED
  BY <1>1, <1>2, <1>3, <1>4, <1>5, <1>6
     DEF Next, SaveStep, GetPeerChannel, LookupStep, FindPeerEndpoint, GetChannel,
         LookupThrows, Expire, ClientCrash, vars

\* An address is recorded by a call whose keystore writes are all done, so what
\* the channel needs is there already; it stays there.
LEMMA EndpointBackedStep ==
  ASSUME Typed, WrittenIsStored, EndpointBacked, [Next]_vars
  PROVE  EndpointBacked'
<1> USE DEF Typed, TypeOK, HasArguments, EndpointBacked, StoresGrow
<1>1. StoresGrow
  BY StoresOnlyGrow
<1>2. ASSUME NEW s \in Savers, saves[s].step = "saving", saves[s].pending = {},
             ApplyUpsert(saves[s].params)
      PROVE  EndpointBacked'
  BY <1>1, <1>2 DEF ApplyUpsert, WrittenIsStored, Wrote
<1>3. CASE UNCHANGED peerEndpoints
  BY <1>1, <1>3
<1>4. QED
  BY <1>2, <1>3
     DEF Next, SaveStep, SaveChannel, WriteKeystore, UpsertPeerEndpoint, SaveThrows,
         GetPeerChannel, LookupStep, FindPeerEndpoint, GetChannel, LookupThrows, Expire,
         ServerCrash, ClientCrash, vars, stores

\* The address a lookup found stays backed until the keystores are asked for the
\* channel, and after.
LEMMA LookupsBackedStep ==
  ASSUME Typed, EndpointBacked, LookupsBacked, [Next]_vars
  PROVE  LookupsBacked'
<1> USE DEF Typed, TypeOK, HasArguments, LookupsBacked, Backed, StoresGrow
<1>1. StoresGrow
  BY StoresOnlyGrow
<1>2. ASSUME NEW l \in Lookups, NEW p \in Peers, GetPeerChannel(l, p)
      PROVE  LookupsBacked'
  BY <1>2 DEF GetPeerChannel, NoLookup, stores, keystores
<1>3. ASSUME NEW l \in Lookups, FindPeerEndpoint(l)
      PROVE  LookupsBacked'
  BY <1>3 DEF FindPeerEndpoint, EndpointBacked, stores, keystores
<1>4. ASSUME NEW l \in Lookups, GetChannel(l)
      PROVE  LookupsBacked'
  BY <1>4 DEF GetChannel, UsableAuths, stores, keystores
<1>5. ASSUME NEW l \in Lookups, LookupThrows(l)
      PROVE  LookupsBacked'
  BY <1>5 DEF LookupThrows, stores, keystores
<1>6. CASE ClientCrash
  BY <1>6 DEF ClientCrash, NoLookup
<1>7. CASE UNCHANGED lookups
  BY <1>1, <1>7
<1>8. QED
  BY <1>2, <1>3, <1>4, <1>5, <1>6, <1>7
     DEF Next, SaveStep, SaveChannel, WriteKeystore, UpsertPeerEndpoint, SaveThrows,
         LookupStep, Expire, ServerCrash, vars

\* A lookup takes a step only by its own actions, or is cut short by a crash.
\* Each leaves it at steps that tell which action it was.
LEMMA LookupChange ==
  ASSUME Typed, [Next]_vars, NEW l \in Lookups, lookups'[l].step # lookups[l].step
  PROVE  \/ FindPeerEndpoint(l) \/ GetChannel(l)
         \/ lookups'[l].step \in {"idle", "findOne", "failed"}
<1> USE DEF Typed, TypeOK
<1>1. ASSUME NEW k \in Lookups, k # l, NEW p \in Peers, GetPeerChannel(k, p)
      PROVE  FALSE
  BY <1>1 DEF GetPeerChannel
<1>2. ASSUME NEW k \in Lookups, k # l, FindPeerEndpoint(k)
      PROVE  FALSE
  BY <1>2 DEF FindPeerEndpoint
<1>3. ASSUME NEW k \in Lookups, k # l, GetChannel(k)
      PROVE  FALSE
  BY <1>3 DEF GetChannel
<1>4. ASSUME NEW k \in Lookups, k # l, LookupThrows(k)
      PROVE  FALSE
  BY <1>4 DEF LookupThrows
<1>5. lookups' # lookups
  OBVIOUS
<1>6. \/ \E p \in Peers : GetPeerChannel(l, p)
      \/ FindPeerEndpoint(l) \/ GetChannel(l) \/ LookupThrows(l)
      \/ ClientCrash
  BY <1>1, <1>2, <1>3, <1>4, <1>5
     DEF Next, SaveStep, SaveChannel, WriteKeystore, UpsertPeerEndpoint, SaveThrows,
         LookupStep, Expire, ServerCrash, vars
<1>7. ASSUME NEW p \in Peers, GetPeerChannel(l, p)
      PROVE  lookups'[l].step = "findOne"
  BY <1>7 DEF GetPeerChannel, NoLookup
<1>8. LookupThrows(l) => lookups'[l].step = "failed"
  BY DEF LookupThrows
<1>9. ClientCrash => lookups'[l].step = "idle"
  BY DEF ClientCrash, NoLookup
<1>10. QED
  BY <1>6, <1>7, <1>8, <1>9

\* The inductive invariant: each property of PeerChannel with what it rests on.
THEOREM Invariance == Spec => []IInv
<1>1. Init => WrittenIsStored /\ UncontendedIsLast /\ EndpointBacked /\ LookupsBacked
  BY DEF Init, WrittenIsStored, UncontendedIsLast, EndpointBacked, LookupsBacked, NoSave, NoLookup
<1>2. /\ Typed /\ WrittenIsStored /\ UncontendedIsLast /\ EndpointBacked /\ LookupsBacked
      /\ [Next]_vars
      => (WrittenIsStored /\ UncontendedIsLast /\ EndpointBacked /\ LookupsBacked)'
  BY WrittenIsStoredStep, UncontendedIsLastStep, EndpointBackedStep, LookupsBackedStep
<1>3. Typed /\ WrittenIsStored /\ UncontendedIsLast /\ EndpointBacked /\ LookupsBacked => IInv
  BY DEF IInv, Typed
<1>4. QED
  BY <1>1, <1>2, <1>3, TypedInductive, PTL DEF Spec

--------------------------------------------------------------------------------
(* The properties of PeerChannel *)

\* The address of a peer is on record only with all the channel needs: however
\* saveChannel calls interleave, fail or are cut short by a crash.
THEOREM AddressIsBacked == Spec => []EndpointBacked
<1>1. IInv => EndpointBacked
  BY DEF IInv
<1>2. QED
  BY <1>1, Invariance, PTL

\* A saveChannel call that returns without contention for its peer leaves its own
\* address, session key and authorisation behind.
THEOREM SaveIsLasting == Spec => []SaveTakesEffect
<1>1. IInv => SaveTakesEffect
  BY DEF IInv, SaveTakesEffect, UncontendedIsLast, WrittenIsStored, Wrote
<1>2. QED
  BY <1>1, Invariance, PTL

\* A channel that getPeerChannel returns is whole and belongs to the peer.
THEOREM ChannelIsUsable == Spec => []ChannelUsable
<1>1. IInv => ChannelUsable
  BY DEF IInv, ChannelUsable, LookupsBacked, Backed
<1>2. QED
  BY <1>1, Invariance, PTL

\* "Could not find channel for peer" means that the authorisations have expired.
THEOREM MissingMeansExpired == Spec => MissingChannelOnlyByExpiry
<1> DEFINE Auths(l) == {q \in deliveryAuths : q.peerId = lookups[l].peerId}
           Missed(l) == lookups[l].step # "noChannel" /\ lookups'[l].step = "noChannel"
<1>1. ASSUME IInv, [Next]_vars, NEW l \in Lookups, Missed(l)
      PROVE  Auths(l) # {} /\ Auths(l) \subseteq expired
  <2> USE DEF IInv, TypeOK, HasArguments
  <2>1. GetChannel(l) /\ UsableAuths(lookups[l].peerId) = {}
    <3>1. FindPeerEndpoint(l) \/ GetChannel(l)
      BY <1>1, LookupChange DEF Typed
    <3>2. FindPeerEndpoint(l) => lookups'[l].step \in {"unknown", "getChannel"}
      BY <1>1 DEF FindPeerEndpoint
    <3>3. QED
      BY <1>1, <3>1, <3>2 DEF GetChannel
  <2>2. Backed(lookups[l].peerId, lookups[l].address)
    BY <1>1, <2>1 DEF GetChannel, LookupsBacked
  <2>3. QED
    BY <2>1, <2>2 DEF UsableAuths, Backed
<1>2. IInv /\ [Next]_vars => \A l \in Lookups : Missed(l) => Auths(l) # {} /\ Auths(l) \subseteq expired
  BY <1>1
<1>3. QED
  BY <1>2, Invariance, PTL DEF Spec, MissingChannelOnlyByExpiry

\* A peer is unknown to the client only until a saveChannel call for it returns.
THEOREM UnknownMeansUnsaved == Spec => UnknownOnlyBeforeSave
<1>1. ASSUME IInv, [Next]_vars, NEW l \in Lookups, NEW s \in Savers,
             lookups[l].step # "unknown", lookups'[l].step = "unknown",
             saves[s].step = "returned"
      PROVE  saves[s].params.peerId # lookups[l].peerId
  <2> USE DEF IInv, TypeOK
  <2>1. FindPeerEndpoint(l) \/ GetChannel(l)
    BY <1>1, LookupChange DEF Typed
  <2>2. GetChannel(l) => lookups'[l].step \in {"found", "noChannel"}
    BY <1>1 DEF GetChannel
  <2>3. peerEndpoints[lookups[l].peerId] = NoAddress
    BY <1>1, <2>1, <2>2 DEF FindPeerEndpoint
  <2>4. QED
    BY <1>1, <2>3 DEF WrittenIsStored
<1>2. IInv /\ [Next]_vars =>
        \A l \in Lookups, s \in Savers :
          /\ lookups[l].step # "unknown" /\ lookups'[l].step = "unknown"
          /\ saves[s].step = "returned"
          => saves[s].params.peerId # lookups[l].peerId
  BY <1>1
<1>3. QED
  BY <1>2, Invariance, PTL DEF Spec, UnknownOnlyBeforeSave
================================================================================
