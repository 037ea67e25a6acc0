----------------------------- MODULE ParcelDelivery -----------------------------
(* The PoHTTP server: the handler of POST / that receives parcels from the      *)
(* gateways of private peers. It validates and decrypts each parcel, imports    *)
(* the authorisations (PDAs) through InternetEndpoint.saveChannel and publishes *)
(* every other service message as a CloudEvent for the application.             *)
(*                                                                              *)
(* A gateway keeps a parcel until it hears a final answer. Handlers run         *)
(* concurrently, and a gateway that lost its connection may deliver the parcel  *)
(* again while the first handler is still at work on it.                        *)
EXTENDS Naturals, FiniteSets

CONSTANTS
  Parcels,     \* records [id, kind, params]; kind says how far the parcel gets
  Handlers,    \* requests the server can have in progress at once
  MaxFaults,   \* bound: failures of stores, broker, connections and server
  NoParcel,
  Peers, Addresses, Params, BadParams, NoPeer, NoAddress, NoParams

\* "malformed":    not a RAMF-serialised parcel
\* "invalid":      bound for another endpoint or address, or badly signed
\* "garbled":      its payload cannot be decrypted with our session keys
\* "malformedPda": typed as a PDA path, but not connection parameters
\* "pda":          connection parameters of a peer
\* "service":      a message for the application
Kinds == {"malformed", "invalid", "garbled", "malformedPda", "pda", "service"}

ASSUME ParcelsAssumption ==
  /\ \A p \in Parcels : p.kind \in Kinds /\ (p.kind = "pda" => p.params \in Params)
  /\ NoParcel \notin Parcels
  /\ IsFiniteSet(Handlers)
  /\ MaxFaults \in Nat

ASSUME DocumentsAssumption ==
  /\ \A q \in Params : q.peerId \in Peers /\ q.internetGatewayAddress \in Addresses
  /\ BadParams \subseteq Params
  /\ NoPeer \notin Peers /\ NoAddress \notin Addresses /\ NoParams \notin Params

VARIABLES
  gateway,         \* what the gateway of the sender knows about each parcel
  handlers,        \* the requests in progress
  published,       \* how many times the broker took the event of each parcel
  expiredParcels,  \* parcels past their expiry date
  undecrypted,     \* history: parcels the key store threw on, before a 202
  unsaved,         \* history: parcels a store threw on in saveChannel, before a 202
  interrupted,     \* history: failures that made the gateway of each parcel retry
  faults,          \* failures so far
  identityKeys, sessionKeys, deliveryAuths, peerEndpoints, expired, saves, contended

\* No client runs here: there are no calls of getPeerChannel.
PC == INSTANCE PeerChannel WITH
        Savers <- Handlers, Lookups <- {}, lookups <- [l \in {} |-> NoPeer]

ALO == INSTANCE AtLeastOnce WITH
         Messages <- Parcels,
         kept <- {p \in Parcels : gateway[p] \in {"queued", "sent"}},
         passedOn <- published,
         givenUp <- {p \in Parcels : p.kind # "service"} \cup expiredParcels \cup undecrypted,
         failures <- interrupted

channelVars == <<identityKeys, sessionKeys, deliveryAuths, peerEndpoints, expired, saves, contended>>
vars == <<gateway, handlers, published, expiredParcels, undecrypted, unsaved, interrupted, faults, channelVars>>

--------------------------------------------------------------------------------
Idle == [step |-> "idle", parcel |-> NoParcel, socket |-> "closed", status |-> 0]

TypeOK ==
  /\ gateway \in [Parcels -> {"queued", "sent", "accepted", "refused"}]
  /\ handlers \in [Handlers -> [step : {"idle", "deserialize", "validate", "unwrap",
                                        "saveChannel", "publish", "reply"},
                                parcel : Parcels \cup {NoParcel},
                                socket : {"open", "closed"},
                                status : {0, 202, 400, 403, 500}]]
  /\ published \in [Parcels -> 0..MaxFaults + 1]
  /\ interrupted \in [Parcels -> 0..MaxFaults]
  /\ expiredParcels \subseteq Parcels
  /\ undecrypted \subseteq Parcels
  /\ unsaved \subseteq Parcels
  /\ faults \in 0..MaxFaults
  /\ PC!TypeOK

Init ==
  /\ gateway = [p \in Parcels |-> "queued"]
  /\ handlers = [h \in Handlers |-> Idle]
  /\ published = [p \in Parcels |-> 0]
  /\ interrupted = [p \in Parcels |-> 0]
  /\ expiredParcels = {}
  /\ undecrypted = {}
  /\ unsaved = {}
  /\ faults = 0
  /\ PC!Init

Fault == faults < MaxFaults /\ faults' = faults + 1

GoTo(h, step) == handlers' = [handlers EXCEPT ![h].step = step]
Answer(h, code) == handlers' = [handlers EXCEPT ![h].step = "reply", ![h].status = code]

--------------------------------------------------------------------------------
(* The handler, one action for what it does between two awaits *)

\* The gateway POSTs a parcel that it holds.
Deliver(p, h) ==
  /\ gateway[p] = "queued"
  /\ handlers[h].step = "idle"
  /\ gateway' = [gateway EXCEPT ![p] = "sent"]
  /\ handlers' = [handlers EXCEPT ![h] =
        [step |-> "deserialize", parcel |-> p, socket |-> "open", status |-> 0]]
  /\ UNCHANGED <<published, expiredParcels, undecrypted, unsaved, interrupted, faults, channelVars>>

DeserializeParcel(h) ==
  /\ handlers[h].step = "deserialize"
  /\ IF handlers[h].parcel.kind = "malformed" THEN Answer(h, 400) ELSE GoTo(h, "validate")
  /\ UNCHANGED <<gateway, published, expiredParcels, undecrypted, unsaved, interrupted, faults, channelVars>>

\* validateMessage throws if the parcel has expired, is not authentic, or is
\* bound for another Internet address.
IsMessageValid(h) ==
  /\ handlers[h].step = "validate"
  /\ IF handlers[h].parcel.kind = "invalid" \/ handlers[h].parcel \in expiredParcels
     THEN Answer(h, 403)
     ELSE GoTo(h, "unwrap")
  /\ UNCHANGED <<gateway, published, expiredParcels, undecrypted, unsaved, interrupted, faults, channelVars>>

\* The payload is decrypted with a key of the private key store. What cannot be
\* decrypted, whatever the error, is answered as if it had been processed.
GetDecryptedParcel(h) ==
  /\ handlers[h].step = "unwrap"
  /\ LET p == handlers[h].parcel
     IN  \/ /\ p.kind \in {"garbled", "malformedPda"}
            /\ Answer(h, 202)
            /\ UNCHANGED channelVars
         \/ /\ p.kind = "pda"
            /\ PC!SaveChannel(h, p.params)
            /\ GoTo(h, "saveChannel")
         \/ /\ p.kind = "service"
            /\ GoTo(h, "publish")
            /\ UNCHANGED channelVars
  /\ UNCHANGED <<gateway, published, expiredParcels, undecrypted, unsaved, interrupted, faults>>

\* Mutant: the failure of the key store is held against the parcel.
DecryptionThrowsForbidden(h) ==
  /\ handlers[h].step = "unwrap"
  /\ Answer(h, 403)
  /\ undecrypted' = undecrypted \cup {handlers[h].parcel}
  /\ Fault
  /\ UNCHANGED <<gateway, published, expiredParcels, unsaved, interrupted, channelVars>>

\* The private key store throws: the error is taken for an invalid message.
DecryptionThrows(h) ==
  /\ handlers[h].step = "unwrap"
  /\ Answer(h, 202)
  /\ undecrypted' = undecrypted \cup {handlers[h].parcel}
  /\ Fault
  /\ UNCHANGED <<gateway, published, expiredParcels, unsaved, interrupted, channelVars>>

\* A step of saveChannel that succeeds.
SaveChannelStep(h) ==
  /\ handlers[h].step = "saveChannel"
  /\ (\E w \in PC!KeystoreWrites : PC!WriteKeystore(h, w)) \/ PC!UpsertPeerEndpoint(h)
  /\ UNCHANGED <<gateway, handlers, published, expiredParcels, undecrypted, unsaved, interrupted, faults>>

\* Mutant: a failed saveChannel is rolled back by deleting the peer.
SaveChannelRollsBack(h) ==
  /\ handlers[h].step = "saveChannel" /\ saves[h].step = "saving"
  /\ saves' = [saves EXCEPT ![h].step = "thrown"]
  /\ peerEndpoints' = [peerEndpoints EXCEPT ![saves[h].params.peerId] = NoAddress]
  /\ unsaved' = unsaved \cup {handlers[h].parcel}
  /\ Fault
  /\ UNCHANGED <<gateway, handlers, published, expiredParcels, undecrypted, interrupted,
                 identityKeys, sessionKeys, deliveryAuths, expired, contended>>

\* A store throws inside saveChannel: the error is taken for invalid parameters.
SaveChannelThrows(h) ==
  /\ handlers[h].step = "saveChannel"
  /\ PC!SaveThrows(h)
  /\ unsaved' = unsaved \cup {handlers[h].parcel}
  /\ Fault
  /\ UNCHANGED <<gateway, handlers, published, expiredParcels, undecrypted, interrupted>>

\* Mutant: the handler does not await saveChannel.
AnswerBeforeSaved(h) ==
  /\ handlers[h].step = "saveChannel"
  /\ Answer(h, 202)
  /\ UNCHANGED <<gateway, published, expiredParcels, undecrypted, unsaved, interrupted, faults, channelVars>>

\* createOrUpdateChannel logs how saveChannel ended; the answer is the same.
CreateOrUpdateChannel(h) ==
  /\ handlers[h].step = "saveChannel"
  /\ saves[h].step \in {"returned", "thrown"}
  /\ Answer(h, 202)
  /\ UNCHANGED <<gateway, published, expiredParcels, undecrypted, unsaved, interrupted, faults, channelVars>>

\* The broker takes an event.
Emit(p) == published' = [published EXCEPT ![p] = @ + 1]

\* Mutant: the event may be emitted again after a success.
PublishAgain(h) ==
  /\ handlers[h].step = "publish"
  /\ Emit(handlers[h].parcel)
  /\ Answer(h, 202) \/ UNCHANGED handlers
  /\ UNCHANGED <<gateway, expiredParcels, undecrypted, unsaved, interrupted, faults, channelVars>>

PublishIncomingServiceMessage(h) ==
  /\ handlers[h].step = "publish"
  /\ Emit(handlers[h].parcel)
  /\ Answer(h, 202)
  /\ UNCHANGED <<gateway, expiredParcels, undecrypted, unsaved, interrupted, faults, channelVars>>

\* Mutants: the failure to emit is logged and answered 202; the handler ends
\* without an answer; the answer has a status nobody expects.
PublishErrorSwallowed(h) ==
  /\ handlers[h].step = "publish"
  /\ Answer(h, 202)
  /\ Fault
  /\ UNCHANGED <<gateway, published, expiredParcels, undecrypted, unsaved, interrupted, channelVars>>

PublishErrorUnanswered(h) ==
  /\ handlers[h].step = "publish"
  /\ handlers' = [handlers EXCEPT ![h] = Idle]
  /\ Fault
  /\ UNCHANGED <<gateway, published, expiredParcels, undecrypted, unsaved, interrupted, channelVars>>

PublishErrorOddStatus(h) ==
  /\ handlers[h].step = "publish"
  /\ Answer(h, 418)
  /\ Fault
  /\ UNCHANGED <<gateway, published, expiredParcels, undecrypted, unsaved, interrupted, channelVars>>

\* Emitter.emit throws, whether or not the broker took the event: nothing catches
\* the error in the handler and Fastify answers 500.
PublishThrows(h) ==
  /\ handlers[h].step = "publish"
  /\ Emit(handlers[h].parcel) \/ UNCHANGED published
  /\ Answer(h, 500)
  /\ interrupted' = IF handlers[h].socket = "open"
                    THEN [interrupted EXCEPT ![handlers[h].parcel] = @ + 1]
                    ELSE interrupted
  /\ Fault
  /\ UNCHANGED <<gateway, expiredParcels, undecrypted, unsaved, channelVars>>

Verdict(status) ==
  CASE status = 202 -> "accepted"
    [] status \in {400, 403} -> "refused"
    [] status = 500 -> "queued"

\* The answer reaches the gateway if it is still listening.
Reply(h) ==
  /\ handlers[h].step = "reply"
  /\ gateway' = IF handlers[h].socket = "open"
                THEN [gateway EXCEPT ![handlers[h].parcel] = Verdict(handlers[h].status)]
                ELSE gateway
  /\ handlers' = [handlers EXCEPT ![h] = Idle]
  /\ UNCHANGED <<published, expiredParcels, undecrypted, unsaved, interrupted, faults, channelVars>>

--------------------------------------------------------------------------------
(* The environment *)

\* The gateway times out or the connection breaks: it will deliver again, and
\* the handler does not notice.
ConnectionLost(h) ==
  /\ handlers[h].socket = "open"
  /\ handlers' = [handlers EXCEPT ![h].socket = "closed"]
  /\ gateway' = [gateway EXCEPT ![handlers[h].parcel] = "queued"]
  /\ interrupted' = [interrupted EXCEPT ![handlers[h].parcel] = @ + 1]
  /\ Fault
  /\ UNCHANGED <<published, expiredParcels, undecrypted, unsaved, channelVars>>

\* The server dies with every request in progress.
ServerCrash ==
  /\ handlers' = [h \in Handlers |-> Idle]
  /\ gateway' = [p \in Parcels |-> IF gateway[p] = "sent" THEN "queued" ELSE gateway[p]]
  /\ interrupted' = [p \in Parcels |-> interrupted[p] + (IF gateway[p] = "sent" THEN 1 ELSE 0)]
  /\ PC!ServerCrash
  /\ Fault
  /\ UNCHANGED <<published, expiredParcels, undecrypted, unsaved>>

ParcelExpires(p) ==
  /\ p \notin expiredParcels
  /\ expiredParcels' = expiredParcels \cup {p}
  /\ UNCHANGED <<gateway, handlers, published, undecrypted, unsaved, interrupted, faults, channelVars>>

AuthExpires(q) ==
  /\ PC!Expire(q)
  /\ UNCHANGED <<gateway, handlers, published, expiredParcels, undecrypted, unsaved, interrupted, faults>>

\* What the code does when nothing fails.
HandlerStep(h) ==
  \/ DeserializeParcel(h)
  \/ IsMessageValid(h)
  \/ GetDecryptedParcel(h)
  \/ SaveChannelStep(h)
  \/ CreateOrUpdateChannel(h)
  \/ PublishIncomingServiceMessage(h)
  \/ Reply(h)

HandlerFault(h) ==
  DecryptionThrows(h) \/ SaveChannelThrows(h) \/ PublishThrows(h) \/ ConnectionLost(h)

Next ==
  \/ \E p \in Parcels, h \in Handlers : Deliver(p, h)
  \/ \E h \in Handlers : HandlerStep(h) \/ HandlerFault(h)
  \/ ServerCrash
  \/ \E p \in Parcels : ParcelExpires(p)
  \/ \E q \in Params : AuthExpires(q)

Spec == Init /\ [][Next]_vars

\* A handler that can run does run (the event loop of Node.js), and a gateway
\* delivers again what it still holds.
FairSpec ==
  /\ Spec
  /\ \A h \in Handlers : WF_vars(HandlerStep(h))
  /\ \A p \in Parcels : WF_vars(\E h \in Handlers : Deliver(p, h))

--------------------------------------------------------------------------------
(* Properties *)

\* A service message whose gateway was told 202 is with the broker, through
\* crashes, lost connections and failures of the broker; the one exception are
\* parcels that met a failure of the key store.
AcceptedMeansPublished ==
  \A p \in Parcels :
    p.kind = "service" /\ gateway[p] = "accepted" /\ p \notin undecrypted => published[p] > 0

\* The application gets a service message again only after a failure that made
\* its gateway deliver the parcel again: the server keeps no record of the parcels
\* it published, so nothing else stands between a retry and a duplicate.
DuplicatesOnlyAfterFailure ==
  \A p \in Parcels : published[p] <= 1 + interrupted[p]

\* A peer whose gateway was told 202 for its connection parameters can be written
\* to: its address and keys are stored, unless the parameters were refused by the
\* keystores, had expired, or met a failure of a store.
AcceptedMeansImported ==
  \A p \in Parcels :
    /\ p.kind = "pda" /\ gateway[p] = "accepted"
    /\ p \notin undecrypted \cup unsaved /\ p.params \notin BadParams \cup expired
    => p.params \in deliveryAuths /\ peerEndpoints[p.params.peerId] # NoAddress

\* A gateway is told for good that its parcel was refused only if the parcel is
\* bad or too late: no failure on our side makes a sender drop a good parcel.
RefusedOnlyIfBad ==
  \A p \in Parcels :
    gateway[p] = "refused" => p.kind \in {"malformed", "invalid"} \/ p \in expiredParcels

\* Every change the server makes to the stores is one of saveChannel's.
ImplementsPeerChannel == PC!Spec

\* Service messages are passed on at least once, unless they are too late or met a
\* failure of the key store, and no gateway takes up again a parcel it has let go.
PassesOnAtLeastOnce == ALO!Spec

\* Failures being finite, each gateway hears in the end what became of its parcel.
EveryParcelSettled ==
  \A p \in Parcels : <>(gateway[p] \in {"accepted", "refused"})

\* Failures being finite, each service message reaches the broker, unless its
\* parcel expires first or met a failure of the key store.
ServiceMessagePublished ==
  \A p \in Parcels :
    p.kind = "service" => <>(published[p] > 0 \/ p \in expiredParcels \cup undecrypted)

--------------------------------------------------------------------------------
(* What the documentation says, and the code does not do *)

\* docs/index.md: the server is responsible "for receiving parcels from the
\* gateways, and passing on the encapsulated service messages to the app". A
\* message that was accepted from its gateway has been passed on.
AcceptedServiceMessagesPassedOn ==
  \A p \in Parcels : p.kind = "service" /\ gateway[p] = "accepted" => published[p] > 0

\* docs/index.md: the middleware "will automatically import incoming PDAs". One
\* that was accepted from its gateway and decrypted, valid and unexpired, has been
\* imported.
AcceptedPdasImported ==
  \A p \in Parcels :
    /\ p.kind = "pda" /\ gateway[p] = "accepted"
    /\ p \notin undecrypted /\ p.params \notin BadParams \cup expired
    => peerEndpoints[p.params.peerId] # NoAddress
================================================================================
