------------------------------ MODULE PohttpClient ------------------------------
(* The PoHTTP client: the handler of POST / to which the broker pushes the      *)
(* CloudEvents of outgoing service messages. It looks up the channel with the   *)
(* peer, seals the message in a parcel and delivers it to the peer's gateway,   *)
(* while the server keeps importing authorisations of that peer.                *)
(*                                                                              *)
(* The broker pushes an event until it hears 2xx, or 4xx. Dates are ticks of    *)
(* the clock "now"; those of the gateways are at most MaxDrift away from it.     *)
EXTENDS OutgoingEvents, FiniteSets

CONSTANTS
  Events,      \* records [id, parsable, source, attributes, subject, time, expiry]
  Handlers,    \* requests the client can have in progress at once
  MaxFaults,   \* bound: failures of stores, gateways, connections and processes
  MaxTime,     \* bound on the clock
  MaxDrift,
  NoEvent,
  Savers,      \* the server's concurrent calls of saveChannel
  Peers, Addresses, Params, BadParams, NoPeer, NoAddress, NoParams

\* The senders whose events are the client's: the endpoint, under its id or as
\* DEFAULT_SENDER_ID_KEYWORD.
Senders == {"activeEndpoint", "default"}

ASSUME EventsAssumption ==
  /\ \A e \in Events :
       /\ e.parsable \in BOOLEAN /\ e.attributes \in Attributes
       /\ e.attributes = "ok" => e.subject \in Peers
       /\ e.time \in Nat /\ e.expiry \in Nat \cup {Undefined, Malformed}
  /\ NoEvent \notin Events /\ NoOptions \notin OptionsOf(Events)
  /\ IsFiniteSet(Handlers)
  /\ MaxFaults \in Nat /\ MaxTime \in Nat
  /\ MaxDrift \in 0..ClockDriftTolerance

ASSUME DocumentsAssumption ==
  /\ \A q \in Params : q.peerId \in Peers /\ q.internetGatewayAddress \in Addresses
  /\ BadParams \subseteq Params
  /\ NoPeer \notin Peers /\ NoAddress \notin Addresses /\ NoParams \notin Params

VARIABLES
  broker,          \* what the broker knows about each event
  handlers,        \* the requests in progress
  accepted,        \* how many times a gateway took the parcel of each event
  deliveries,      \* history: the channels over which parcels were taken
  refused,         \* history: events whose parcel a gateway refused as invalid
  bindingErrors,   \* history: events whose delivery a gateway refused as malformed
  interrupted,     \* history: failures that may have followed a delivery, by event
  now, faults,
  identityKeys, sessionKeys, deliveryAuths, peerEndpoints, expired, saves, lookups, contended

PC == INSTANCE PeerChannel WITH Lookups <- Handlers

channelVars ==
  <<identityKeys, sessionKeys, deliveryAuths, peerEndpoints, expired, saves, lookups, contended>>
gatewayVars == <<accepted, deliveries, refused, bindingErrors>>
vars == <<broker, handlers, gatewayVars, interrupted, now, faults, channelVars>>

--------------------------------------------------------------------------------
Idle == [step |-> "idle", event |-> NoEvent, socket |-> "closed", status |-> 0]

TypeOK ==
  /\ broker \in [Events -> {"queued", "sent", "acknowledged", "rejected"}]
  /\ handlers \in [Handlers -> [step : {"idle", "convert", "getChannel", "makeMessage",
                                        "deliverParcel", "reply"},
                                event : Events \cup {NoEvent},
                                socket : {"open", "closed"},
                                status : {0, 204, 400, 500, 502, 503}]]
  /\ accepted \in [Events -> 0..MaxFaults + 1]
  /\ deliveries \subseteq [event : Events, address : Addresses, auth : Params]
  /\ refused \subseteq Events
  /\ bindingErrors \subseteq Events
  /\ interrupted \in [Events -> 0..MaxFaults]
  /\ now \in 0..MaxTime
  /\ faults \in 0..MaxFaults
  /\ PC!TypeOK

Init ==
  /\ broker = [e \in Events |-> "queued"]
  /\ handlers = [h \in Handlers |-> Idle]
  /\ accepted = [e \in Events |-> 0]
  /\ deliveries = {} /\ refused = {} /\ bindingErrors = {}
  /\ interrupted = [e \in Events |-> 0]
  /\ now = 0
  /\ faults = 0
  /\ PC!Init

Fault == faults < MaxFaults /\ faults' = faults + 1

GoTo(h, step) == handlers' = [handlers EXCEPT ![h].step = step]
Answer(h, code) == handlers' = [handlers EXCEPT ![h].step = "reply", ![h].status = code]

Interrupt(h) ==
  interrupted' = IF handlers[h].socket = "open"
                 THEN [interrupted EXCEPT ![handlers[h].event] = @ + 1]
                 ELSE interrupted

--------------------------------------------------------------------------------
(* The handler, one action for what it does between two awaits *)

\* The broker pushes an event, be its time past or to come.
Push(e, h) ==
  /\ broker[e] = "queued"
  /\ handlers[h].step = "idle"
  /\ broker' = [broker EXCEPT ![e] = "sent"]
  /\ handlers' = [handlers EXCEPT ![h] =
        [step |-> "convert", event |-> e, socket |-> "open", status |-> 0]]
  /\ UNCHANGED <<gatewayVars, interrupted, now, faults, channelVars>>

Acceptable(e) ==
  /\ e.parsable
  /\ e.source \in Senders
  /\ GetOutgoingServiceMessageOptions(e) # NoOptions

ALO == INSTANCE AtLeastOnce WITH
         Messages <- Events,
         kept <- {e \in Events : broker[e] \in {"queued", "sent"}},
         passedOn <- accepted,
         givenUp <- {e \in Events : ~Acceptable(e)} \cup refused \cup bindingErrors,
         failures <- interrupted

\* Mutant: events of other senders are left to whom they are for.
LeaveOthersEvents(h) ==
  /\ handlers[h].step = "convert"
  /\ LET e == handlers[h].event
     IN  \/ /\ ~Acceptable(e)
            /\ Answer(h, IF e.source \notin Senders THEN 503 ELSE 400)
            /\ UNCHANGED channelVars
         \/ /\ Acceptable(e)
            /\ PC!GetPeerChannel(h, GetOutgoingServiceMessageOptions(e).peerId)
            /\ GoTo(h, "getChannel")
  /\ UNCHANGED <<broker, gatewayVars, interrupted, now, faults>>

ConvertMessageToEvent(h) ==
  /\ handlers[h].step = "convert"
  /\ LET e == handlers[h].event
     IN  \/ /\ ~Acceptable(e)
            /\ Answer(h, 400)
            /\ UNCHANGED channelVars
         \/ /\ Acceptable(e)
            /\ PC!GetPeerChannel(h, GetOutgoingServiceMessageOptions(e).peerId)
            /\ GoTo(h, "getChannel")
  /\ UNCHANGED <<broker, gatewayVars, interrupted, now, faults>>

GetPeerChannelStep(h) ==
  /\ handlers[h].step = "getChannel"
  /\ PC!FindPeerEndpoint(h) \/ PC!GetChannel(h)
  /\ UNCHANGED <<broker, handlers, gatewayVars, interrupted, now, faults>>

GetPeerChannelThrows(h) ==
  /\ handlers[h].step = "getChannel"
  /\ PC!LookupThrows(h)
  /\ Fault
  /\ UNCHANGED <<broker, handlers, gatewayVars, interrupted, now>>

\* Mutants: the message is blamed for an unknown peer; the answer has a status
\* nobody expects.
GetChannelOr400(h) ==
  /\ handlers[h].step = "getChannel"
  /\ \/ lookups[h].step = "found" /\ GoTo(h, "makeMessage")
     \/ lookups[h].step \in {"unknown", "noChannel", "failed"} /\ Answer(h, 400)
  /\ UNCHANGED <<broker, gatewayVars, interrupted, now, faults, channelVars>>

GetChannelOr404(h) ==
  /\ handlers[h].step = "getChannel"
  /\ \/ lookups[h].step = "found" /\ GoTo(h, "makeMessage")
     \/ lookups[h].step \in {"unknown", "noChannel", "failed"} /\ Answer(h, 404)
  /\ UNCHANGED <<broker, gatewayVars, interrupted, now, faults, channelVars>>

\* No peer, no channel or a store that throws: 503 all the same.
GetChannel(h) ==
  /\ handlers[h].step = "getChannel"
  /\ \/ lookups[h].step = "found" /\ GoTo(h, "makeMessage")
     \/ lookups[h].step \in {"unknown", "noChannel", "failed"} /\ Answer(h, 503)
  /\ UNCHANGED <<broker, gatewayVars, interrupted, now, faults, channelVars>>

\* The payload is encrypted with the session key of the peer, read now.
MakeMessage(h) ==
  /\ handlers[h].step = "makeMessage"
  /\ IF sessionKeys[lookups[h].peerId] = NoParams
     THEN Answer(h, 500)
     ELSE GoTo(h, "deliverParcel")
  /\ UNCHANGED <<broker, gatewayVars, interrupted, now, faults, channelVars>>

MakeMessageThrows(h) ==
  /\ handlers[h].step = "makeMessage"
  /\ Answer(h, 500)
  /\ Fault
  /\ UNCHANGED <<broker, gatewayVars, interrupted, now, channelVars>>

GatewayClocks == (now - MaxDrift)..(now + MaxDrift)

\* A gateway whose clock says t takes the parcel of handler h.
ValidParcel(h, t) ==
  LET options == GetOutgoingServiceMessageOptions(handlers[h].event)
  IN  /\ options.creationDate <= t /\ t <= ParcelExpiry(options)
      /\ lookups[h].auth \notin expired

Accept(h) ==
  /\ accepted' = [accepted EXCEPT ![handlers[h].event] = @ + 1]
  /\ deliveries' = deliveries \cup
        {[event |-> handlers[h].event, address |-> lookups[h].address, auth |-> lookups[h].auth]}
  /\ UNCHANGED <<refused, bindingErrors>>

\* Mutant: only a refused parcel counts as fulfilled.
DeliverParcelAgain(h) ==
  /\ handlers[h].step = "deliverParcel"
  /\ \E t \in GatewayClocks : ValidParcel(h, t) /\ Accept(h)
  /\ Answer(h, 502)
  /\ UNCHANGED <<broker, interrupted, now, faults, channelVars>>

DeliverParcel(h) ==
  /\ handlers[h].step = "deliverParcel"
  /\ \E t \in GatewayClocks :
        \/ ValidParcel(h, t) /\ Accept(h)
        \/ /\ ~ValidParcel(h, t)
           /\ refused' = refused \cup {handlers[h].event}
           /\ UNCHANGED <<accepted, deliveries, bindingErrors>>
  /\ Answer(h, 204)
  /\ UNCHANGED <<broker, interrupted, now, faults, channelVars>>

\* PoHTTPClientBindingError: the gateway takes the request for malformed.
BindingError(h) ==
  /\ handlers[h].step = "deliverParcel"
  /\ bindingErrors' = bindingErrors \cup {handlers[h].event}
  /\ Answer(h, 204)
  /\ Fault
  /\ UNCHANGED <<broker, accepted, deliveries, refused, interrupted, now, channelVars>>

\* Mutants: every error counts as final; the handler ends without an answer.
DeliveryFailsForGood(h) ==
  /\ handlers[h].step = "deliverParcel"
  /\ UNCHANGED gatewayVars
  /\ Answer(h, 204)
  /\ Fault
  /\ UNCHANGED <<broker, interrupted, now, channelVars>>

DeliveryFailsUnanswered(h) ==
  /\ handlers[h].step = "deliverParcel"
  /\ handlers' = [handlers EXCEPT ![h] = Idle]
  /\ Fault
  /\ UNCHANGED <<broker, gatewayVars, interrupted, now, channelVars>>

\* Any other error, raised before or after the gateway took the parcel.
DeliveryFails(h) ==
  /\ handlers[h].step = "deliverParcel"
  /\ \/ (\E t \in GatewayClocks : ValidParcel(h, t)) /\ Accept(h)
     \/ UNCHANGED gatewayVars
  /\ Answer(h, 502)
  /\ Interrupt(h)
  /\ Fault
  /\ UNCHANGED <<broker, now, channelVars>>

Verdict(status) ==
  CASE status = 204 -> "acknowledged"
    [] status = 400 -> "rejected"
    [] status \in {500, 502, 503} -> "queued"

Reply(h) ==
  /\ handlers[h].step = "reply"
  /\ broker' = IF handlers[h].socket = "open"
               THEN [broker EXCEPT ![handlers[h].event] = Verdict(handlers[h].status)]
               ELSE broker
  /\ handlers' = [handlers EXCEPT ![h] = Idle]
  /\ UNCHANGED <<gatewayVars, interrupted, now, faults, channelVars>>

--------------------------------------------------------------------------------
(* The environment *)

\* The broker stops waiting for the answer and will push the event again.
ConnectionLost(h) ==
  /\ handlers[h].socket = "open"
  /\ Interrupt(h)
  /\ handlers' = [handlers EXCEPT ![h].socket = "closed"]
  /\ broker' = [broker EXCEPT ![handlers[h].event] = "queued"]
  /\ Fault
  /\ UNCHANGED <<gatewayVars, now, channelVars>>

ClientCrash ==
  /\ handlers' = [h \in Handlers |-> Idle]
  /\ broker' = [e \in Events |-> IF broker[e] = "sent" THEN "queued" ELSE broker[e]]
  /\ interrupted' = [e \in Events |-> interrupted[e] + (IF broker[e] = "sent" THEN 1 ELSE 0)]
  /\ PC!ClientCrash
  /\ Fault
  /\ UNCHANGED <<gatewayVars, now>>

\* The server imports authorisations of the peers meanwhile, failing and crashing
\* as it does: its faults are not counted here.
ServerStep ==
  /\ \/ \E s \in Savers, q \in Params : PC!SaveChannel(s, q)
     \/ \E s \in Savers : PC!SaveStep(s)
     \/ \E q \in Params : PC!Expire(q)
     \/ PC!ServerCrash
  /\ UNCHANGED <<broker, handlers, gatewayVars, interrupted, now, faults>>

Tick ==
  /\ now < MaxTime
  /\ now' = now + 1
  /\ UNCHANGED <<broker, handlers, gatewayVars, interrupted, faults, channelVars>>

\* What the code does when nothing fails.
HandlerStep(h) ==
  \/ ConvertMessageToEvent(h)
  \/ GetPeerChannelStep(h)
  \/ GetChannel(h)
  \/ MakeMessage(h)
  \/ DeliverParcel(h)
  \/ Reply(h)

HandlerFault(h) ==
  \/ GetPeerChannelThrows(h)
  \/ MakeMessageThrows(h)
  \/ BindingError(h)
  \/ DeliveryFails(h)
  \/ ConnectionLost(h)

Next ==
  \/ \E e \in Events, h \in Handlers : Push(e, h)
  \/ \E h \in Handlers : HandlerStep(h) \/ HandlerFault(h)
  \/ ClientCrash
  \/ ServerStep
  \/ Tick

Spec == Init /\ [][Next]_vars

--------------------------------------------------------------------------------
(* Properties *)

\* When the broker is told 204 and so forgets a message, a gateway has taken its
\* parcel, or has refused it for good: a message is never dropped because the
\* peer is unknown, a store throws, a gateway cannot be reached or the client dies.
AcknowledgedMeansSettled ==
  \A e \in Events :
    broker[e] = "acknowledged" => accepted[e] > 0 \/ e \in refused \cup bindingErrors

\* The broker is told 400, and so drops a message for good, only for what the event
\* is: not from the application, incomplete, or with an expiry that makes no sense.
\* That the peer is not known yet, or no longer, is never held against it.
RejectedForWhatItIs ==
  \A e \in Events :
    broker[e] = "rejected" =>
      \/ ~e.parsable
      \/ e.source \notin Senders
      \/ e.attributes # "ok"
      \/ e.expiry = Malformed
      \/ e.expiry # Undefined /\ e.expiry < e.time

\* Events are delivered at least once, unless a gateway refused them or they are not
\* for the client, and the broker never pushes one again that it has let go.
DeliversAtLeastOnce == ALO!Spec

\* A peer gets a message again only after a failure that may have hidden its
\* first delivery: retries while the peer is unknown never multiply it.
DuplicatesOnlyAfterFailure ==
  \A e \in Events : accepted[e] <= 1 + interrupted[e]

\* A parcel goes to a gateway the peer itself named and carries an authorisation
\* of that peer, though address and authorisation are read at different times.
DeliveredToThePeer ==
  \A d \in deliveries :
    /\ d.auth \in deliveryAuths /\ d.auth.peerId = d.event.subject
    /\ \E q \in deliveryAuths :
         q.peerId = d.event.subject /\ q.internetGatewayAddress = d.address

\* No gateway takes a message after its expiry, whatever its clock says.
NoLateDelivery ==
  [][\A e \in Events :
       accepted'[e] > accepted[e] /\ e.expiry # Undefined =>
         now <= e.expiry + TicksPerSecond - 1]_vars

\* A parcel whose event's time has come is in the past of every gateway it may
\* reach: clock drift within the tolerance never makes one look as if it came from
\* the future.
NeverFromTheFuture ==
  \A h \in Handlers :
    handlers[h].step = "deliverParcel" /\ handlers[h].event.time <= now =>
      \A t \in GatewayClocks :
        GetOutgoingServiceMessageOptions(handlers[h].event).creationDate <= t

--------------------------------------------------------------------------------
(* What the documentation says, and the code does not do *)

\* docs/integration.md: expiry is "The time at which the parcel expires". A
\* gateway that refuses a parcel for its dates does so no earlier than that.
RefusedOnlyOnceExpired ==
  \A e \in refused :
    (\A q \in Params : q \notin expired) => now >= e.expiry
================================================================================
