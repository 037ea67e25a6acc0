------------------------------ MODULE AwalaEndpoint ------------------------------
(* The server and the client as they are deployed: two processes on one set of  *)
(* stores and one broker. The server imports authorisations and publishes the   *)
(* messages of peers, the application answers them, and the client delivers the *)
(* answers. The broker's triggers have no filter, so that the client is pushed  *)
(* the server's events too.                                                      *)
EXTENDS Naturals

CONSTANTS
  Parcels,     \* ParcelDelivery's; messages also have a sender and dates
  ServerHandlers, ClientHandlers,
  MaxFaults,   \* bound: failures of server, client and all they depend on
  MaxTime, MaxDrift, NoParcel, NoEvent,
  Peers, Addresses, Params, BadParams, NoPeer, NoAddress, NoParams,
  TicksPerSecond, SecondsPerHour, DefaultTtlSeconds, Undefined, Malformed, NoTtl, NoOptions

Messages == {p \in Parcels : p.kind = "service"}

\* The event that the server emits for a message: from its sender, to us.
MakeIncomingServiceMessageEvent(p) ==
  [id |-> p.id, cause |-> p, parsable |-> TRUE, attributes |-> "wrongType",
   source |-> p.sender, subject |-> "activeEndpoint",
   time |-> p.creationDate, expiry |-> p.expiryDate]

\* The application answers the sender, as the recipient of the message. The answer
\* lives as long as the message.
MakeAnswer(p) ==
  LET incoming == MakeIncomingServiceMessageEvent(p)
  IN  [incoming EXCEPT !.attributes = "ok",
                       !.source = incoming.subject, !.subject = incoming.source]

\* The events on the broker, each because of one message.
Incoming == {MakeIncomingServiceMessageEvent(p) : p \in Messages}
Answers == {MakeAnswer(p) : p \in Messages}
Events == Incoming \cup Answers

VARIABLES
  gateway, serverHandlers, published, expiredParcels, undecrypted, unsaved, serverInterrupted,
  broker, clientHandlers, accepted, deliveries, refused, bindingErrors, clientInterrupted, now,
  lookups, serverFaults, clientFaults,
  identityKeys, sessionKeys, deliveryAuths, peerEndpoints, expired, saves, contended

S == INSTANCE ParcelDelivery WITH
       Handlers <- ServerHandlers, handlers <- serverHandlers, interrupted <- serverInterrupted,
       faults <- serverFaults

C == INSTANCE PohttpClient WITH
       Handlers <- ClientHandlers, handlers <- clientHandlers, interrupted <- clientInterrupted,
       faults <- clientFaults, Savers <- ServerHandlers

ASSUME PartsAssumption ==
  /\ S!ParcelsAssumption /\ S!DocumentsAssumption
  /\ C!TimeAssumption /\ C!EventsAssumption /\ C!DocumentsAssumption

serverVars ==
  <<gateway, serverHandlers, published, expiredParcels, undecrypted, unsaved, serverInterrupted,
    serverFaults>>
clientVars ==
  <<broker, clientHandlers, accepted, deliveries, refused, bindingErrors, clientInterrupted, now,
    clientFaults, lookups>>
sharedVars ==
  <<identityKeys, sessionKeys, deliveryAuths, peerEndpoints, expired, saves, contended>>
vars == <<serverVars, clientVars, sharedVars>>

Init == S!Init /\ C!Init

--------------------------------------------------------------------------------
\* Server and client fail as often as MaxFaults says, taken together.
FaultsBounded == serverFaults + clientFaults <= MaxFaults

\* The broker has an event once the server has published the message: the event of
\* that message, or the answer of the application.
Push(e, h) ==
  /\ published[e.cause] > 0
  /\ C!Push(e, h)
  /\ UNCHANGED serverVars

ClientStep(h) == C!HandlerStep(h) /\ UNCHANGED serverVars

ClientEnvironment ==
  /\ (\E h \in ClientHandlers : C!HandlerFault(h)) \/ C!ClientCrash \/ C!Tick
  /\ UNCHANGED serverVars
  /\ FaultsBounded'

Deliver(p, h) == S!Deliver(p, h) /\ UNCHANGED clientVars

ServerStep(h) == S!HandlerStep(h) /\ UNCHANGED clientVars

ServerEnvironment ==
  /\ \/ \E h \in ServerHandlers : S!HandlerFault(h)
     \/ S!ServerCrash
     \/ \E p \in Parcels : S!ParcelExpires(p)
     \/ \E q \in Params : S!AuthExpires(q)
  /\ UNCHANGED clientVars
  /\ FaultsBounded'

Next ==
  \/ \E p \in Parcels, h \in ServerHandlers : Deliver(p, h)
  \/ \E h \in ServerHandlers : ServerStep(h)
  \/ ServerEnvironment
  \/ \E e \in Events, h \in ClientHandlers : Push(e, h)
  \/ \E h \in ClientHandlers : ClientStep(h)
  \/ ClientEnvironment

Spec == Init /\ [][Next]_vars

\* The event loops run the handlers, gateways and broker deliver again what they
\* still hold. Fairness is strong for the broker because a push waits for a free
\* member of ClientHandlers, a limit of the model that the code does not have.
FairSpec ==
  /\ Spec
  /\ \A h \in ServerHandlers : WF_vars(ServerStep(h))
  /\ \A p \in Parcels : WF_vars(\E h \in ServerHandlers : Deliver(p, h))
  /\ \A h \in ClientHandlers : WF_vars(ClientStep(h))
  /\ \A e \in Events : SF_vars(\E h \in ClientHandlers : Push(e, h))

--------------------------------------------------------------------------------
(* Properties *)

\* The broker drops for good, because of a 400, only what is no message for the
\* client: see PohttpClient.
RejectedForWhatItIs == C!RejectedForWhatItIs

\* Whatever authorisations the server imports at the same time, the client delivers
\* over a channel of the peer that the event is for: see PohttpClient.
DeliveredToThePeer == C!DeliveredToThePeer

PdasOf(peer) == {q \in Parcels : q.kind = "pda" /\ q.params.peerId = peer}

\* What the client sends is the answer to a message, and it goes to the sender of
\* that message: under an authorisation and to an address that PDAs of that sender
\* have brought to the server, while PDAs of others and of its earlier gateways are
\* imported, too.
AnswersGoToTheSender ==
  \A d \in deliveries :
    /\ d.event \in Answers
    /\ \E p \in PdasOf(d.event.cause.sender) : p.params = d.auth
    /\ \E p \in PdasOf(d.event.cause.sender) : p.params.internetGatewayAddress = d.address

\* Failures being finite, once the peer is known each message for it gets settled
\* in the end, unless the authorisations of the peer expire first.
MessageSettled ==
  \A e \in {a \in Events : C!Acceptable(a)} :
    (published[e.cause] > 0 /\ peerEndpoints[e.subject] # NoAddress) ~>
      (broker[e] = "acknowledged" \/ \E q \in expired : q.peerId = e.subject)

\* A message of a peer and the answer to it go all the way, in whatever order the
\* authorisation of the peer, the message and the answer are handled: the answer
\* is delivered, unless a gateway takes it for malformed, a failure of a store was
\* swallowed, or the authorisation or one of the parcels expired first.
RoundTrip ==
  \A p \in Messages : \A q \in PdasOf(p.sender) :
    <>(\/ accepted[MakeAnswer(p)] > 0
       \/ MakeAnswer(p) \in bindingErrors
       \/ q.params \in expired
       \/ {q, p} \cap (expiredParcels \cup undecrypted \cup unsaved) # {})

\* The broker gives up pushing the server's own events to the client, which never
\* sends a peer's message back to it.
IncomingTurnedDown ==
  \A p \in Messages :
    LET e == MakeIncomingServiceMessageEvent(p)
    IN  /\ [](accepted[e] = 0)
        /\ published[p] > 0 ~> broker[e] = "rejected"
================================================================================
