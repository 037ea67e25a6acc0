---------------------------- MODULE PohttpClientProofs ----------------------------
(* Proofs about PohttpClient, for any events, dates, handlers and number of      *)
(* faults. The client implements PeerChannel, whose theorems hold of it by PCP.  *)
EXTENDS PohttpClient, OutgoingEventProofs, FiniteSetTheorems

PCP == INSTANCE PeerChannelProofs WITH Lookups <- Handlers

USE EventsAssumption, DocumentsAssumption

--------------------------------------------------------------------------------
Steps == {"idle", "convert", "getChannel", "makeMessage", "deliverParcel", "reply"}

HandlersTyped ==
  /\ handlers \in [Handlers -> [step : Steps, event : Events \cup {NoEvent},
                                socket : {"open", "closed"},
                                status : {0, 204, 400, 500, 502, 503}]]
  /\ \A h \in Handlers : handlers[h].step # "idle" \/ handlers[h].socket = "open"
                           => handlers[h].event \in Events
  /\ \A h \in Handlers : handlers[h].step = "reply" => handlers[h].status # 0

\* A request in progress is about an event. How often an event is delivered has no
\* bound here: the bound in TypeOK counts faults.
Typed ==
  /\ broker \in [Events -> {"queued", "sent", "acknowledged", "rejected"}]
  /\ HandlersTyped
  /\ accepted \in [Events -> Nat]
  /\ interrupted \in [Events -> Nat]
  /\ now \in 0..MaxTime

\* A handler that goes on or answers stays with its event and its connection.
LEMMA HandlerMoves ==
  ASSUME HandlersTyped, NEW h \in Handlers, handlers[h].step # "idle",
         \/ \E step \in {"getChannel", "makeMessage", "deliverParcel"} : GoTo(h, step)
         \/ \E code \in {204, 400, 500, 502, 503} : Answer(h, code)
  PROVE  HandlersTyped'
<1> USE DEF HandlersTyped, Steps
<1>1. ASSUME NEW step \in {"getChannel", "makeMessage", "deliverParcel"}, GoTo(h, step)
      PROVE  HandlersTyped'
  BY <1>1 DEF GoTo
<1>2. ASSUME NEW code \in {204, 400, 500, 502, 503}, Answer(h, code)
      PROVE  HandlersTyped'
  BY <1>2 DEF Answer
<1>3. QED
  BY <1>1, <1>2

\* The steps between the push of an event and its answer.
Serves(h) ==
  \/ ConvertMessageToEvent(h)
  \/ GetPeerChannelStep(h) \/ GetPeerChannelThrows(h)
  \/ GetChannel(h)
  \/ MakeMessage(h) \/ MakeMessageThrows(h)
  \/ DeliverParcel(h) \/ BindingError(h) \/ DeliveryFails(h)

\* Each of them leaves the handler where it is, takes it on, or makes it answer.
LEMMA HandlerGoesOn ==
  ASSUME NEW h \in Handlers, Serves(h)
  PROVE  /\ handlers[h].step \in {"convert", "getChannel", "makeMessage", "deliverParcel"}
         /\ \/ UNCHANGED handlers
            \/ \E step \in {"getChannel", "makeMessage", "deliverParcel"} : GoTo(h, step)
            \/ \E code \in {204, 400, 500, 502, 503} : Answer(h, code)
BY DEF Serves, ConvertMessageToEvent, GetPeerChannelStep, GetPeerChannelThrows, GetChannel,
       MakeMessage, MakeMessageThrows, DeliverParcel, BindingError, DeliveryFails

LEMMA HandlersTypedStep ==
  ASSUME HandlersTyped, [Next]_vars
  PROVE  HandlersTyped'
<1>1. ASSUME NEW e \in Events, NEW h \in Handlers, Push(e, h)
      PROVE  HandlersTyped'
  BY <1>1 DEF Push, HandlersTyped, Steps
<1>2. ASSUME NEW h \in Handlers, Serves(h)
      PROVE  HandlersTyped'
  <2>1. CASE UNCHANGED handlers
    BY <2>1 DEF HandlersTyped
  <2>2. CASE ~UNCHANGED handlers
    BY <1>2, <2>2, HandlerGoesOn, HandlerMoves
  <2>3. QED
    BY <2>1, <2>2
<1>3. ASSUME NEW h \in Handlers, Reply(h)
      PROVE  HandlersTyped'
  BY <1>3 DEF Reply, HandlersTyped, Steps, Idle
<1>4. ASSUME NEW h \in Handlers, ConnectionLost(h)
      PROVE  HandlersTyped'
  BY <1>4 DEF ConnectionLost, HandlersTyped, Steps
<1>5. CASE ClientCrash
  BY <1>5 DEF ClientCrash, HandlersTyped, Steps, Idle
<1>6. CASE UNCHANGED handlers
  BY <1>6 DEF HandlersTyped
<1>7. QED
  BY <1>1, <1>2, <1>3, <1>4, <1>5, <1>6
     DEF Next, HandlerStep, HandlerFault, Serves, ServerStep, Tick, vars

LEMMA TypedStep ==
  ASSUME Typed, [Next]_vars
  PROVE  Typed'
<1> USE DEF Typed
<1>1. HandlersTyped'
  BY HandlersTypedStep
<1>2. ASSUME NEW e \in Events, NEW h \in Handlers, Push(e, h)
      PROVE  Typed'
  BY <1>1, <1>2 DEF Push, gatewayVars
<1>3. ASSUME NEW h \in Handlers, DeliverParcel(h) \/ BindingError(h) \/ DeliveryFails(h)
      PROVE  Typed'
  <2>1. handlers[h].event \in Events
    BY <1>3 DEF HandlersTyped, DeliverParcel, BindingError, DeliveryFails
  <2>2. accepted' \in [Events -> Nat]
    BY <1>3, <2>1 DEF DeliverParcel, BindingError, DeliveryFails, Accept, gatewayVars
  <2>3. interrupted' \in [Events -> Nat]
    BY <1>3, <2>1 DEF DeliverParcel, BindingError, DeliveryFails, Interrupt
  <2>4. QED
    BY <1>1, <1>3, <2>2, <2>3 DEF DeliverParcel, BindingError, DeliveryFails
<1>4. ASSUME NEW h \in Handlers, Reply(h)
      PROVE  Typed'
  <2>1. Verdict(handlers[h].status) \in {"queued", "acknowledged", "rejected"}
    BY <1>4 DEF Verdict, Reply, HandlersTyped
  <2>2. QED
    BY <1>1, <1>4, <2>1 DEF Reply, HandlersTyped, gatewayVars
<1>5. ASSUME NEW h \in Handlers, ConnectionLost(h)
      PROVE  Typed'
  <2>1. handlers[h].event \in Events
    BY <1>5 DEF ConnectionLost, HandlersTyped
  <2>2. QED
    BY <1>1, <1>5, <2>1 DEF ConnectionLost, Interrupt, gatewayVars
<1>6. CASE ClientCrash
  BY <1>1, <1>6 DEF ClientCrash, gatewayVars
<1>7. CASE Tick
  BY <1>1, <1>7 DEF Tick, gatewayVars
<1>8. CASE UNCHANGED <<broker, accepted, interrupted, now>>
  BY <1>1, <1>8
<1>9. QED
  BY <1>2, <1>3, <1>4, <1>5, <1>6, <1>7, <1>8
     DEF Next, HandlerStep, HandlerFault, ConvertMessageToEvent, GetPeerChannelStep,
         GetPeerChannelThrows, GetChannel, MakeMessage, MakeMessageThrows, ServerStep, vars,
         gatewayVars

\* Handlers, broker and clock are at one of their states.
LEMMA TypedInductive == Spec => []Typed
<1>1. Init => Typed
  BY DEF Init, Typed, HandlersTyped, Idle, Steps
<1>2. Typed /\ [Next]_vars => Typed'
  BY TypedStep
<1>3. QED
  BY <1>1, <1>2, PTL DEF Spec

--------------------------------------------------------------------------------
\* The options of an acceptable event are for the peer that the event names.
LEMMA AcceptableOptions ==
  ASSUME NEW e \in Events, Acceptable(e)
  PROVE  LET options == GetOutgoingServiceMessageOptions(e)
         IN  /\ options # NoOptions
             /\ options.peerId = e.subject /\ e.subject \in Peers
             /\ options.creationDate = e.time - ClockDriftTolerance
<1>1. \A a \in Events : a.time \in Int /\ a.expiry \in Int \cup {Undefined, Malformed}
  OBVIOUS
<1>2. QED
  BY <1>1, OptionsFields DEF Acceptable

\* What an event handler does to its lookup, and no one else does.
LEMMA LookupMoves ==
  ASSUME Typed, NEW h \in Handlers, Serves(h)
  PROVE  \/ UNCHANGED channelVars
         \/ /\ handlers[h].step = "convert" /\ handlers[h].event \in Events
            /\ Acceptable(handlers[h].event) /\ handlers[h].event.subject \in Peers
            /\ PC!GetPeerChannel(h, handlers[h].event.subject)
         \/ handlers[h].step = "getChannel" /\ PC!LookupStep(h)
<1>1. handlers[h].event \in Events
  BY HandlerGoesOn DEF Typed, HandlersTyped
<1>2. CASE ConvertMessageToEvent(h)
  BY <1>1, <1>2, AcceptableOptions DEF ConvertMessageToEvent
<1>3. QED
  BY <1>2 DEF Serves, GetPeerChannelStep, GetPeerChannelThrows, GetChannel, MakeMessage,
              MakeMessageThrows, DeliverParcel, BindingError, DeliveryFails, PC!LookupStep

\* Each step of the client is a step of PeerChannel, or leaves its variables alone.
LEMMA StepRefinement ==
  ASSUME Typed, [Next]_vars
  PROVE  [PC!Next]_(PC!vars)
<1> SUFFICES PC!Next \/ UNCHANGED channelVars
  BY DEF channelVars, PC!vars, PC!stores, PC!keystores
<1>1. ASSUME NEW h \in Handlers, Serves(h)
      PROVE  PC!Next \/ UNCHANGED channelVars
  BY <1>1, LookupMoves DEF PC!Next
<1>2. CASE ServerStep
  BY <1>2 DEF ServerStep, PC!Next
<1>3. CASE ClientCrash
  BY <1>3 DEF ClientCrash, PC!Next
<1>4. QED
  BY <1>1, <1>2, <1>3
     DEF Next, Push, HandlerStep, HandlerFault, Serves, Reply, ConnectionLost, Tick, vars

\* The client looks channels up as getPeerChannel does, one lookup a handler, and
\* the server's saveChannel runs meanwhile.
THEOREM Refinement == Spec => PC!Spec
<1>1. Init => PC!Init
  BY DEF Init
<1>2. Typed /\ [Next]_vars => [PC!Next]_(PC!vars)
  BY StepRefinement
<1>3. QED
  BY <1>1, <1>2, TypedInductive, PTL DEF Spec, PC!Spec

\* PC and PCP instantiate the same definitions of PeerChannel.
LEMMA SameChannel ==
  /\ PC!Init <=> PCP!Init
  /\ [PC!Next]_(PC!vars) <=> [PCP!Next]_(PCP!vars)
BY Zenon DEF PC!Init, PCP!Init, PC!Next, PCP!Next, PC!vars, PCP!vars, PC!stores,
   PCP!stores, PC!keystores, PCP!keystores, PC!KeystoreWrites, PCP!KeystoreWrites,
   PC!NoSave, PCP!NoSave, PC!NoLookup, PCP!NoLookup, PC!SaveChannel, PCP!SaveChannel,
   PC!WriteKeystore, PCP!WriteKeystore, PC!ApplyKeystoreWrite, PCP!ApplyKeystoreWrite,
   PC!ApplyUpsert, PCP!ApplyUpsert, PC!UpsertPeerEndpoint, PCP!UpsertPeerEndpoint,
   PC!SaveThrows, PCP!SaveThrows, PC!RivalsOf, PCP!RivalsOf, PC!SaveStep, PCP!SaveStep,
   PC!GetPeerChannel, PCP!GetPeerChannel, PC!FindPeerEndpoint, PCP!FindPeerEndpoint,
   PC!GetChannel, PCP!GetChannel, PC!UsableAuths, PCP!UsableAuths, PC!LookupThrows,
   PCP!LookupThrows, PC!LookupStep, PCP!LookupStep, PC!Expire, PCP!Expire, PC!ServerCrash,
   PCP!ServerCrash, PC!ClientCrash, PCP!ClientCrash

\* So the invariant of PeerChannel holds of the client's lookups.
LEMMA ChannelInvariance == Spec => [](PCP!IInv /\ PCP!Typed)
<1>1. PCP!Spec => []PCP!IInv
  BY PCP!Invariance
<1>2. PCP!Spec => []PCP!Typed
  BY PCP!TypedInductive
<1>3. Spec => PCP!Spec
  BY Refinement, SameChannel, PTL DEF PC!Spec, PCP!Spec
<1>4. QED
  BY <1>1, <1>2, <1>3, PTL

--------------------------------------------------------------------------------
\* A gateway has taken the parcel of event e, or has refused it for good.
Settled(e) == accepted[e] > 0 \/ e \in refused \cup bindingErrors

\* A handler is where it is because of its event and of what it has looked up, and
\* its answer is justified before it is sent.
JustifiedAt(h) ==
  LET e == handlers[h].event
  IN  /\ handlers[h].step \in {"getChannel", "makeMessage", "deliverParcel"}
           => Acceptable(e) /\ lookups[h].peerId = e.subject
      /\ handlers[h].step \in {"makeMessage", "deliverParcel"} => lookups[h].step = "found"
      /\ handlers[h].step = "reply" /\ handlers[h].status = 204 => Settled(e)
      /\ handlers[h].step = "reply" /\ handlers[h].status = 400 => ~Acceptable(e)

Justified == \A h \in Handlers : JustifiedAt(h)

Told ==
  \A e \in Events :
    /\ broker[e] = "acknowledged" => Settled(e)
    /\ broker[e] = "rejected" => ~Acceptable(e)

IInv == Typed /\ PCP!IInv /\ PCP!Typed /\ Justified /\ Told /\ DeliveredToThePeer

\* A parcel that was taken stays taken, a refusal stays on record, and the clock
\* does not go back.
LEMMA PromisesLast ==
  ASSUME Typed, [Next]_vars
  PROVE  /\ \A e \in Events : Settled(e) => Settled(e)'
         /\ now' \in Nat /\ now <= now'
<1> USE DEF Typed, Settled
<1>1. ASSUME NEW h \in Handlers, DeliverParcel(h) \/ BindingError(h) \/ DeliveryFails(h)
      PROVE  /\ \A e \in Events : Settled(e) => Settled(e)'
             /\ now' = now
  BY <1>1 DEF HandlersTyped, DeliverParcel, BindingError, DeliveryFails, Accept, gatewayVars
<1>2. CASE Tick
  BY <1>2 DEF Tick, gatewayVars
<1>3. CASE UNCHANGED <<gatewayVars, now>>
  BY <1>3 DEF gatewayVars
<1>4. QED
  BY <1>1, <1>2, <1>3
     DEF Next, Push, HandlerStep, HandlerFault, ConvertMessageToEvent, GetPeerChannelStep,
         GetPeerChannelThrows, GetChannel, MakeMessage, MakeMessageThrows, Reply, ConnectionLost,
         ClientCrash, ServerStep, vars

\* What the proofs below need of the types.
LEMMA Types ==
  ASSUME Typed, PCP!Typed
  PROVE  /\ handlers \in [Handlers -> [step : Steps, event : Events \cup {NoEvent},
                                       socket : {"open", "closed"},
                                       status : {0, 204, 400, 500, 502, 503}]]
         /\ lookups \in [Handlers -> [step : {"idle", "findOne", "getChannel",
                                              "found", "unknown", "noChannel", "failed"},
                                      peerId : Peers \cup {NoPeer},
                                      address : Addresses \cup {NoAddress},
                                      auth : Params \cup {NoParams}]]
         /\ accepted \in [Events -> Nat]
BY DEF Typed, HandlersTyped, PCP!Typed, PCP!TypeOK

\* Handlers do not touch each other, nor each other's lookups.
LEMMA OthersStay ==
  ASSUME Typed, PCP!Typed, NEW h \in Handlers,
         HandlerStep(h) \/ HandlerFault(h) \/ \E e \in Events : Push(e, h)
  PROVE  \A k \in Handlers \ {h} : handlers'[k] = handlers[k] /\ lookups'[k] = lookups[k]
<1>1. CASE Serves(h)
  <2>1. ASSUME NEW k \in Handlers \ {h}
        PROVE  handlers'[k] = handlers[k]
    <3>1. ASSUME NEW step, GoTo(h, step)
          PROVE  handlers'[k] = handlers[k]
      BY <3>1, Types DEF GoTo
    <3>2. ASSUME NEW code, Answer(h, code)
          PROVE  handlers'[k] = handlers[k]
      BY <3>2, Types DEF Answer
    <3>3. QED
      BY <1>1, <3>1, <3>2, HandlerGoesOn
  <2>2. ASSUME NEW k \in Handlers \ {h}
        PROVE  lookups'[k] = lookups[k]
    <3>1. ASSUME NEW p, PC!GetPeerChannel(h, p)
          PROVE  lookups'[k] = lookups[k]
      BY <3>1, Types DEF PC!GetPeerChannel
    <3>2. CASE PC!LookupStep(h)
      BY <3>2, Types DEF PC!LookupStep, PC!FindPeerEndpoint, PC!GetChannel, PC!LookupThrows
    <3>3. CASE UNCHANGED channelVars
      BY <3>3 DEF channelVars
    <3>4. QED
      BY <1>1, <3>1, <3>2, <3>3, LookupMoves
  <2>3. QED
    BY <2>1, <2>2
<1>2. CASE Reply(h) \/ ConnectionLost(h) \/ \E e \in Events : Push(e, h)
  BY <1>2, Types DEF Reply, ConnectionLost, Push, channelVars
<1>3. QED
  BY <1>1, <1>2 DEF HandlerStep, HandlerFault, Serves

\* A handler that nobody touches stays justified.
LEMMA JustifiedStays ==
  ASSUME Typed, [Next]_vars, NEW h \in Handlers, JustifiedAt(h),
         handlers'[h] = handlers[h], lookups'[h] = lookups[h]
  PROVE  JustifiedAt(h)'
<1>1. handlers[h].step # "idle" => handlers[h].event \in Events
  BY DEF Typed, HandlersTyped
<1>2. handlers[h].step = "reply" /\ handlers[h].status = 204 => Settled(handlers[h].event)'
  <2>1. ASSUME NEW e \in Events, Settled(e) PROVE Settled(e)'
    BY <2>1, PromisesLast
  <2>2. QED
    BY <1>1, <2>1 DEF JustifiedAt, Settled
<1>3. QED
  BY <1>2 DEF JustifiedAt, Settled

\* A handler that moves is justified by what it does.
LEMMA JustifiedMoves ==
  ASSUME Typed, PCP!Typed, NEW h \in Handlers, JustifiedAt(h),
         HandlerStep(h) \/ HandlerFault(h) \/ \E e \in Events : Push(e, h)
  PROVE  JustifiedAt(h)'
<1> DEFINE e == handlers[h].event
<1>1. /\ handlers \in [Handlers -> [step : Steps, event : Events \cup {NoEvent},
                                    socket : {"open", "closed"},
                                    status : {0, 204, 400, 500, 502, 503}]]
      /\ handlers[h].step # "idle" => e \in Events
      /\ accepted \in [Events -> Nat]
  BY DEF Typed, HandlersTyped
<1>2. ASSUME NEW a \in Events, Push(a, h)
      PROVE  JustifiedAt(h)'
  BY <1>1, <1>2 DEF Push, JustifiedAt
<1>3. CASE ConvertMessageToEvent(h)
  <2>1. e \in Events
    BY <1>1, <1>3 DEF ConvertMessageToEvent
  <2>2. CASE ~Acceptable(e)
    <3>1. Answer(h, 400)
      BY <1>3, <2>2 DEF ConvertMessageToEvent
    <3>2. handlers'[h] = [handlers[h] EXCEPT !.step = "reply", !.status = 400]
      BY <1>1, <3>1 DEF Answer
    <3>3. handlers'[h].step = "reply" /\ handlers'[h].status = 400 /\ handlers'[h].event = e
      BY <1>1, <3>2
    <3>4. QED
      BY <2>1, <2>2, <3>3 DEF JustifiedAt
  <2>3. CASE Acceptable(e)
    <3>1. PC!GetPeerChannel(h, e.subject) /\ GoTo(h, "getChannel")
      BY <1>3, <2>1, <2>3, AcceptableOptions DEF ConvertMessageToEvent
    <3>2. lookups'[h].peerId = e.subject
      BY <3>1 DEF PC!GetPeerChannel, PC!NoLookup, PCP!Typed, PCP!TypeOK
    <3>3. handlers'[h].step = "getChannel" /\ handlers'[h].event = e
      BY <1>1, <3>1 DEF GoTo
    <3>4. QED
      BY <2>1, <2>3, <3>2, <3>3 DEF JustifiedAt
  <2>4. QED
    BY <2>2, <2>3
<1>4. CASE GetPeerChannelStep(h) \/ GetPeerChannelThrows(h)
  <2>1. /\ handlers' = handlers /\ handlers[h].step = "getChannel"
        /\ lookups'[h].peerId = lookups[h].peerId
    BY <1>4 DEF GetPeerChannelStep, GetPeerChannelThrows, PC!FindPeerEndpoint, PC!GetChannel,
                PC!LookupThrows, PCP!Typed, PCP!TypeOK
  <2>2. QED
    BY <2>1 DEF JustifiedAt
<1>5. CASE GetChannel(h)
  <2>1. lookups' = lookups
    BY <1>5 DEF GetChannel, channelVars
  <2>2. QED
    BY <1>1, <1>5, <2>1 DEF GetChannel, GoTo, Answer, JustifiedAt
<1>6. CASE MakeMessage(h) \/ MakeMessageThrows(h)
  <2>1. lookups' = lookups
    BY <1>6 DEF MakeMessage, MakeMessageThrows, channelVars
  <2>2. QED
    BY <1>1, <1>6, <2>1 DEF MakeMessage, MakeMessageThrows, GoTo, Answer, JustifiedAt
<1>7. CASE DeliverParcel(h) \/ BindingError(h)
  <2>1. e \in Events /\ Answer(h, 204)
    BY <1>1, <1>7 DEF DeliverParcel, BindingError
  <2>2. accepted'[e] > 0 \/ e \in refused' \cup bindingErrors'
    BY <1>1, <1>7, <2>1 DEF DeliverParcel, BindingError, Accept
  <2>3. QED
    BY <1>1, <1>7, <2>1, <2>2 DEF DeliverParcel, BindingError, Answer, JustifiedAt, Settled
<1>8. CASE DeliveryFails(h)
  BY <1>1, <1>8 DEF DeliveryFails, Answer, JustifiedAt
<1>9. CASE Reply(h)
  BY <1>1, <1>9 DEF Reply, Idle, JustifiedAt
<1>10. CASE ConnectionLost(h)
  <2>1. lookups' = lookups /\ UNCHANGED gatewayVars
    BY <1>10 DEF ConnectionLost, channelVars
  <2>2. QED
    BY <1>1, <1>10, <2>1 DEF ConnectionLost, JustifiedAt, Settled, gatewayVars
<1>11. QED
  BY <1>2, <1>3, <1>4, <1>5, <1>6, <1>7, <1>8, <1>9, <1>10 DEF HandlerStep, HandlerFault

LEMMA JustifiedStep ==
  ASSUME Typed, PCP!Typed, Justified, [Next]_vars
  PROVE  Justified'
<1>1. ASSUME NEW h \in Handlers,
             HandlerStep(h) \/ HandlerFault(h) \/ \E e \in Events : Push(e, h)
      PROVE  Justified'
  BY <1>1, JustifiedMoves, JustifiedStays, OthersStay DEF Justified
<1>2. CASE ClientCrash
  BY <1>2 DEF ClientCrash, Idle, Justified, JustifiedAt
<1>3. CASE UNCHANGED <<handlers, lookups>>
  BY <1>3, JustifiedStays DEF Justified
<1>4. CASE ServerStep
  BY <1>3, <1>4 DEF ServerStep, PC!SaveChannel, PC!SaveStep, PC!WriteKeystore,
     PC!UpsertPeerEndpoint, PC!SaveThrows, PC!Expire, PC!ServerCrash
<1>5. QED
  BY <1>1, <1>2, <1>3, <1>4 DEF Next, Tick, channelVars, vars

\* The broker hears what a handler can justify, and nothing takes that back.
LEMMA ToldStep ==
  ASSUME Typed, Justified, Told, [Next]_vars
  PROVE  Told'
<1>1. \A e \in Events : Settled(e) => Settled(e)'
  BY PromisesLast
<1>2. ASSUME NEW h \in Handlers, Reply(h)
      PROVE  Told'
  <2>1. /\ handlers[h].event \in Events
        /\ handlers[h].status = 204 => Settled(handlers[h].event)
        /\ handlers[h].status = 400 => ~Acceptable(handlers[h].event)
        /\ handlers[h].status \in {204, 400, 500, 502, 503}
    BY <1>2 DEF Reply, Typed, HandlersTyped, Justified, JustifiedAt
  <2>2. /\ Verdict(handlers[h].status) = "acknowledged" => handlers[h].status = 204
        /\ Verdict(handlers[h].status) = "rejected" => handlers[h].status = 400
    BY <2>1 DEF Verdict
  <2>3. \A e \in Events :
          \/ broker'[e] = broker[e]
          \/ e = handlers[h].event /\ broker'[e] = Verdict(handlers[h].status)
    BY <1>2, <2>1 DEF Reply, Typed
  <2>4. QED
    BY <1>1, <2>1, <2>2, <2>3 DEF Told
<1>3. CASE \A e \in Events : broker'[e] \in {"queued", "sent"} \/ broker'[e] = broker[e]
  BY <1>1, <1>3 DEF Told
<1>4. CASE UNCHANGED broker
  BY <1>3, <1>4
<1>5. CASE ClientCrash
  BY <1>3, <1>5 DEF ClientCrash
<1>6. ASSUME NEW e \in Events, NEW h \in Handlers, Push(e, h)
      PROVE  Told'
  BY <1>3, <1>6 DEF Push, Typed
<1>7. ASSUME NEW h \in Handlers, ConnectionLost(h)
      PROVE  Told'
  BY <1>3, <1>7 DEF ConnectionLost, Typed
<1>8. QED
  BY <1>2, <1>4, <1>5, <1>6, <1>7
     DEF Next, HandlerStep, HandlerFault, ConvertMessageToEvent, GetPeerChannelStep,
         GetPeerChannelThrows, GetChannel, MakeMessage, MakeMessageThrows, DeliverParcel,
         BindingError, DeliveryFails, ServerStep, Tick, vars

\* No authorisation of a peer is lost.
LEMMA AuthsLast ==
  ASSUME Typed, PCP!Typed, [Next]_vars
  PROVE  deliveryAuths \subseteq deliveryAuths'
<1>1. [PCP!Next]_(PCP!vars)
  BY StepRefinement, SameChannel
<1>2. QED
  BY <1>1, PCP!StoresOnlyGrow DEF PCP!StoresGrow

\* What a handler sends goes where the channel it has found leads.
LEMMA DeliveredStep ==
  ASSUME IInv, [Next]_vars
  PROVE  DeliveredToThePeer'
<1> USE DEF DeliveredToThePeer
<1>1. deliveryAuths \subseteq deliveryAuths'
  BY AuthsLast DEF IInv
<1>2. ASSUME NEW h \in Handlers, handlers[h].step = "deliverParcel", Accept(h)
      PROVE  DeliveredToThePeer'
  <2> DEFINE d == [event |-> handlers[h].event, address |-> lookups[h].address,
                   auth |-> lookups[h].auth]
  <2>1. lookups[h].step = "found" /\ lookups[h].peerId = d.event.subject
    BY <1>2 DEF IInv, Justified, JustifiedAt
  <2>2. /\ d.auth \in deliveryAuths /\ d.auth.peerId = d.event.subject
        /\ \E q \in deliveryAuths :
             q.peerId = d.event.subject /\ q.internetGatewayAddress = d.address
    BY <2>1 DEF IInv, PCP!IInv, PCP!LookupsBacked, PCP!Backed
  <2>3. deliveries' = deliveries \cup {d}
    BY <1>2 DEF Accept
  <2>4. QED
    BY <1>1, <2>2, <2>3 DEF IInv
<1>3. CASE UNCHANGED deliveries
  BY <1>1, <1>3 DEF IInv
<1>4. QED
  BY <1>2, <1>3
     DEF Next, Push, HandlerStep, HandlerFault, ConvertMessageToEvent, GetPeerChannelStep,
         GetPeerChannelThrows, GetChannel, MakeMessage, MakeMessageThrows, DeliverParcel,
         BindingError, DeliveryFails, Reply, ConnectionLost, ClientCrash, ServerStep, Tick,
         vars, gatewayVars

\* The inductive invariant: what handlers and broker know, over PeerChannel's.
THEOREM Invariance == Spec => []IInv
<1>1. Init => Justified /\ Told /\ DeliveredToThePeer
  BY DEF Init, Idle, Justified, JustifiedAt, Told, DeliveredToThePeer
<1>2. IInv /\ [Next]_vars => (Justified /\ Told /\ DeliveredToThePeer)'
  <2>1. IInv /\ [Next]_vars => Justified'
    BY JustifiedStep DEF IInv
  <2>2. IInv /\ [Next]_vars => Told'
    BY ToldStep DEF IInv
  <2>3. QED
    BY <2>1, <2>2, DeliveredStep
<1>3. IInv <=> /\ Typed /\ PCP!IInv /\ PCP!Typed
               /\ Justified /\ Told /\ DeliveredToThePeer
  BY DEF IInv
<1>4. QED
  BY <1>1, <1>2, <1>3, TypedInductive, ChannelInvariance, PTL DEF Spec

--------------------------------------------------------------------------------
(* The properties of PohttpClient *)

\* The broker forgets a message that was accepted from it only once a gateway has
\* taken its parcel or refused it, however stores, gateways and processes fail.
THEOREM Acknowledgement == Spec => []AcknowledgedMeansSettled
<1>1. IInv => AcknowledgedMeansSettled
  BY DEF IInv, Told, Settled, AcknowledgedMeansSettled
<1>2. QED
  BY <1>1, Invariance, PTL

\* An event that is not acceptable is so for what it is, and not for the state of
\* the channel with its peer.
LEMMA UnacceptableForWhatItIs ==
  ASSUME NEW e \in Events, ~Acceptable(e)
  PROVE  \/ ~e.parsable
         \/ e.source \notin Senders
         \/ e.attributes # "ok"
         \/ e.expiry = Malformed
         \/ e.expiry # Undefined /\ e.expiry < e.time
<1>1. \A a \in Events : a.time \in Int /\ a.expiry \in Int \cup {Undefined, Malformed}
  OBVIOUS
<1>2. CASE GetOutgoingServiceMessageOptions(e) = NoOptions
  <2>1. e.attributes # "ok" \/ GetTtl(e.expiry, e.time) = NoTtl
    BY <1>1, <1>2, OptionsFields
  <2>2. GetTtl(e.expiry, e.time) = NoTtl =>
          \/ e.expiry = Malformed
          \/ e.expiry # Undefined /\ e.expiry \in Int /\ e.expiry - e.time <= -TicksPerSecond
    BY <1>1, TtlBounds
  <2>3. QED
    BY <1>1, <2>1, <2>2, TimeAssumption
<1>3. CASE GetOutgoingServiceMessageOptions(e) # NoOptions
  BY <1>3 DEF Acceptable
<1>4. QED
  BY <1>2, <1>3

\* The broker drops a message for good on a 400 only for what its event is: a peer
\* that is unknown, a failing store or gateway are never held against it.
THEOREM Rejection == Spec => []RejectedForWhatItIs
<1>1. IInv => RejectedForWhatItIs
  BY UnacceptableForWhatItIs DEF IInv, Told, RejectedForWhatItIs
<1>2. QED
  BY <1>1, Invariance, PTL

\* A parcel goes where the peer wants it, under an authorisation of that peer, even
\* if the server is at work on both while the client looks them up.
THEOREM Delivery == Spec => []DeliveredToThePeer
<1>1. IInv => DeliveredToThePeer
  BY DEF IInv
<1>2. QED
  BY <1>1, Invariance, PTL

\* What a gateway took is acceptable, and so not an event the server itself emitted.
OnlyAcceptable ==
  /\ \A e \in Events : accepted[e] > 0 => Acceptable(e)
  /\ \A d \in deliveries : d.event \in Events /\ Acceptable(d.event)

\* The client delivers no event that is not for it, although the broker pushes it
\* every event there is.
THEOREM DeliversOnlyAcceptable == Spec => []OnlyAcceptable
<1>1. Init => OnlyAcceptable
  BY DEF Init, OnlyAcceptable
<1>2. ASSUME IInv, OnlyAcceptable, [Next]_vars
      PROVE  OnlyAcceptable'
  <2>1. ASSUME NEW h \in Handlers, handlers[h].step = "deliverParcel", Accept(h)
        PROVE  OnlyAcceptable'
    <3>1. handlers[h].event \in Events /\ Acceptable(handlers[h].event)
      BY <1>2, <2>1 DEF IInv, Justified, JustifiedAt, Typed, HandlersTyped
    <3>2. QED
      BY <1>2, <2>1, <3>1 DEF Accept, OnlyAcceptable, IInv, Typed
  <2>2. CASE UNCHANGED <<accepted, deliveries>>
    BY <1>2, <2>2 DEF OnlyAcceptable
  <2>3. QED
    BY <1>2, <2>1, <2>2
       DEF Next, Push, HandlerStep, HandlerFault, ConvertMessageToEvent, GetPeerChannelStep,
           GetPeerChannelThrows, GetChannel, MakeMessage, MakeMessageThrows, DeliverParcel,
           BindingError, DeliveryFails, Reply, ConnectionLost, ClientCrash, ServerStep, Tick,
           vars, gatewayVars
<1>3. QED
  BY <1>1, <1>2, Invariance, PTL DEF Spec

\* No clock that is off by less than the tolerance takes a parcel for one from the
\* future, once the time of its event has come.
THEOREM PastForAll == Spec => []NeverFromTheFuture
<1>1. IInv => NeverFromTheFuture
  <2> SUFFICES ASSUME IInv, NEW h \in Handlers, handlers[h].step = "deliverParcel",
                      handlers[h].event.time <= now, NEW t \in GatewayClocks
               PROVE  GetOutgoingServiceMessageOptions(handlers[h].event).creationDate <= t
    BY DEF NeverFromTheFuture
  <2> DEFINE e == handlers[h].event
  <2>1. e \in Events /\ now \in Int
    BY DEF IInv, Typed, HandlersTyped
  <2>2. Acceptable(e)
    BY DEF IInv, Justified, JustifiedAt
  <2>3. GetOutgoingServiceMessageOptions(e).creationDate = e.time - ClockDriftTolerance
    BY <2>1, <2>2, AcceptableOptions
  <2>4. now - MaxDrift <= t /\ t \in Int
    BY <2>1, ToleranceType DEF GatewayClocks
  <2>5. QED
    BY <2>1, <2>2, <2>3, <2>4, ToleranceType
<1>2. QED
  BY <1>1, Invariance, PTL

\* A parcel that its gateway finds valid is one whose event has not expired, but for
\* less than a second.
LEMMA ValidInTime ==
  ASSUME IInv, NEW h \in Handlers, handlers[h].step = "deliverParcel",
         NEW t \in GatewayClocks, ValidParcel(h, t),
         handlers[h].event.expiry # Undefined
  PROVE  now <= handlers[h].event.expiry + TicksPerSecond - 1
<1> DEFINE e == handlers[h].event
           options == GetOutgoingServiceMessageOptions(e)
<1>1. e \in Events /\ now \in Int
  BY DEF IInv, Typed, HandlersTyped
<1>2. \A a \in Events : a.time \in Int /\ a.expiry \in Int \cup {Undefined, Malformed}
  OBVIOUS
<1>3. Acceptable(e)
  BY DEF IInv, Justified, JustifiedAt
<1>4. options # NoOptions
  BY <1>3 DEF Acceptable
<1>5. e.expiry # Malformed
  <2>1. GetTtl(e.expiry, e.time) # NoTtl
    BY <1>1, <1>2, <1>4, OptionsFields
  <2>2. QED
    BY <2>1 DEF GetTtl
<1>6. /\ ParcelExpiry(options) \in Int
      /\ ParcelExpiry(options) + ClockDriftTolerance < e.expiry + TicksPerSecond
  BY <1>1, <1>2, <1>4, <1>5, ParcelExpiryBound
<1>7. t <= ParcelExpiry(options) /\ now - MaxDrift <= t /\ t \in Int
  BY <1>1, ToleranceType DEF ValidParcel, GatewayClocks
<1>8. e.expiry \in Int /\ TicksPerSecond \in Int
  BY <1>1, <1>5, TimeAssumption
<1>9. QED
  BY <1>1, <1>6, <1>7, <1>8, ToleranceType

\* A message that has expired is not delivered any more, whatever the clocks of the
\* gateways say and however long its handler was held up.
THEOREM InTime == Spec => NoLateDelivery
<1>1. ASSUME IInv, [Next]_vars, NEW e \in Events, accepted'[e] > accepted[e],
             e.expiry # Undefined
      PROVE  now <= e.expiry + TicksPerSecond - 1
  <2>1. accepted \in [Events -> Nat]
    BY <1>1 DEF IInv, Typed
  <2>2. PICK h \in Handlers : DeliverParcel(h) \/ DeliveryFails(h)
    BY <1>1, <2>1
       DEF Next, Push, HandlerStep, HandlerFault, ConvertMessageToEvent, GetPeerChannelStep,
           GetPeerChannelThrows, GetChannel, MakeMessage, MakeMessageThrows, BindingError, Reply,
           ConnectionLost, ClientCrash, ServerStep, Tick, vars, gatewayVars
  <2>3. PICK t \in GatewayClocks : ValidParcel(h, t) /\ Accept(h)
    BY <1>1, <2>1, <2>2 DEF DeliverParcel, DeliveryFails, gatewayVars
  <2>4. handlers[h].step = "deliverParcel"
    BY <2>2 DEF DeliverParcel, DeliveryFails
  <2>5. handlers[h].event = e
    BY <1>1, <2>1, <2>3 DEF Accept
  <2>6. QED
    BY <1>1, <2>3, <2>4, <2>5, ValidInTime
<1>2. IInv /\ [Next]_vars =>
        \A e \in Events :
          accepted'[e] > accepted[e] /\ e.expiry # Undefined =>
            now <= e.expiry + TicksPerSecond - 1
  BY <1>1
<1>3. QED
  BY <1>2, Invariance, PTL DEF Spec, NoLateDelivery

--------------------------------------------------------------------------------
(* Duplicates, as for the server's: each handler at work on an event, and the one *)
(* to which the broker will push it if it is queued, may have its parcel taken;   *)
(* each of these after the first is paid for by a failure.                        *)

WorkingAt(h, e) ==
  /\ handlers[h].event = e
  /\ \/ handlers[h].step \in {"convert", "getChannel", "makeMessage", "deliverParcel"}
     \/ /\ handlers[h].step = "reply" /\ handlers[h].socket = "open"
        /\ handlers[h].status \in {500, 502, 503}

Working(e) == {h \in Handlers : WorkingAt(h, e)}

One(condition) == IF condition THEN 1 ELSE 0

PaidFor ==
  \A e \in Events :
    accepted[e] + Cardinality(Working(e)) + One(broker[e] = "queued") <= 1 + interrupted[e]

\* One handler's move changes the number at work by its own share.
LEMMA WorkingChange ==
  ASSUME NEW h \in Handlers, NEW e \in Events,
         \A k \in Handlers \ {h} : WorkingAt(k, e)' <=> WorkingAt(k, e)
  PROVE  /\ Cardinality(Working(e)) \in Nat /\ Cardinality(Working(e))' \in Nat
         /\ Cardinality(Working(e))' = Cardinality(Working(e))
              + One(WorkingAt(h, e)') - One(WorkingAt(h, e))
<1> DEFINE others == {k \in Handlers \ {h} : WorkingAt(k, e)}
<1>1. IsFiniteSet(others)
  BY FS_Subset
<1>2. /\ Working(e) = IF WorkingAt(h, e) THEN others \cup {h} ELSE others
      /\ Working(e)' = IF WorkingAt(h, e)' THEN others \cup {h} ELSE others
  BY DEF Working
<1>3. /\ Cardinality(others) \in Nat
      /\ Cardinality(others \cup {h}) = Cardinality(others) + 1
  BY <1>1, FS_AddElement, FS_CardinalityType
<1>4. QED
  BY <1>2, <1>3 DEF One

\* A handler that goes on works on the same event, if it still works.
LEMMA ServesSameEvent ==
  ASSUME Typed, PCP!Typed, NEW h \in Handlers, Serves(h), NEW e \in Events
  PROVE  /\ handlers'[h].event = handlers[h].event /\ handlers'[h].socket = handlers[h].socket
         /\ WorkingAt(h, e) <=> handlers[h].event = e
<1>1. /\ handlers'[h].event = handlers[h].event
      /\ handlers'[h].socket = handlers[h].socket
  <2>1. ASSUME NEW step, GoTo(h, step)
        PROVE  /\ handlers'[h].event = handlers[h].event
               /\ handlers'[h].socket = handlers[h].socket
    BY <2>1, Types DEF GoTo
  <2>2. ASSUME NEW code, Answer(h, code)
        PROVE  /\ handlers'[h].event = handlers[h].event
               /\ handlers'[h].socket = handlers[h].socket
    BY <2>2, Types DEF Answer
  <2>3. QED
    BY <2>1, <2>2, HandlerGoesOn
<1>2. WorkingAt(h, e) <=> handlers[h].event = e
  BY HandlerGoesOn DEF WorkingAt
<1>3. QED
  BY <1>1, <1>2

\* No step of a handler makes room for a duplicate that no failure pays for.
LEMMA HandlerPays ==
  ASSUME Typed, PCP!Typed, NEW h \in Handlers, NEW e \in Events,
         HandlerStep(h) \/ HandlerFault(h) \/ Push(e, h)
  PROVE  accepted'[e] + One(WorkingAt(h, e)') + One(broker'[e] = "queued") + interrupted[e]
           <= accepted[e] + One(WorkingAt(h, e)) + One(broker[e] = "queued") + interrupted'[e]
<1> USE DEF Typed, HandlersTyped, One
<1>0. /\ accepted[e] \in Nat /\ accepted'[e] \in Nat
      /\ interrupted[e] \in Nat /\ interrupted'[e] \in Nat
  <2>1. Typed'
    BY TypedStep DEF Next
  <2>2. QED
    BY <2>1
<1>1. CASE Push(e, h)
  BY <1>1 DEF Push, WorkingAt, gatewayVars
<1>2. CASE Serves(h) /\ ~DeliverParcel(h) /\ ~DeliveryFails(h)
  <2>1. /\ UNCHANGED <<broker, accepted, interrupted>>
        /\ WorkingAt(h, e)' => WorkingAt(h, e)
    BY <1>2, ServesSameEvent
       DEF Serves, ConvertMessageToEvent, GetPeerChannelStep, GetPeerChannelThrows, GetChannel,
           MakeMessage, MakeMessageThrows, BindingError, WorkingAt, gatewayVars
  <2>2. QED
    BY <1>0, <2>1
<1>3. CASE DeliverParcel(h)
  <2>1. UNCHANGED <<broker, interrupted>> /\ ~WorkingAt(h, e)'
    BY <1>3 DEF DeliverParcel, Answer, WorkingAt
  <2>2. WorkingAt(h, e) <=> handlers[h].event = e
    BY <1>3, ServesSameEvent DEF Serves
  <2>3. accepted'[e] <= accepted[e] + (IF handlers[h].event = e THEN 1 ELSE 0)
    BY <1>3 DEF DeliverParcel, Accept
  <2>4. QED
    BY <1>0, <2>1, <2>2, <2>3
<1>4. CASE DeliveryFails(h)
  <2>1. /\ WorkingAt(h, e) <=> handlers[h].event = e
        /\ WorkingAt(h, e)' => handlers[h].event = e /\ handlers[h].socket = "open"
    <3>1. handlers'[h].event = handlers[h].event /\ handlers'[h].socket = handlers[h].socket
      BY <1>4, ServesSameEvent DEF Serves
    <3>2. handlers'[h].step = "reply"
      BY <1>4 DEF DeliveryFails, Answer
    <3>3. WorkingAt(h, e) <=> handlers[h].event = e
      BY <1>4, ServesSameEvent DEF Serves
    <3>4. QED
      BY <3>1, <3>2, <3>3 DEF WorkingAt
  <2>2. accepted'[e] <= accepted[e] + (IF handlers[h].event = e THEN 1 ELSE 0)
    BY <1>4 DEF DeliveryFails, Accept, gatewayVars
  <2>3. /\ broker' = broker
        /\ interrupted'[e] = interrupted[e] +
             (IF handlers[h].event = e /\ handlers[h].socket = "open" THEN 1 ELSE 0)
    BY <1>4 DEF DeliveryFails, Interrupt
  <2>4. QED
    BY <1>0, <2>1, <2>2, <2>3
<1>5. CASE Reply(h)
  <2> DEFINE again == /\ handlers[h].event = e /\ handlers[h].socket = "open"
                      /\ handlers[h].status \in {500, 502, 503}
  <2>1. ~WorkingAt(h, e)' /\ UNCHANGED <<accepted, interrupted>>
    BY <1>5 DEF Reply, Idle, WorkingAt, gatewayVars
  <2>2. CASE again
    <3>1. WorkingAt(h, e)
      BY <1>5, <2>2 DEF Reply, WorkingAt
    <3>2. QED
      BY <1>0, <2>1, <3>1
  <2>3. CASE ~again
    <3>1. broker'[e] = "queued" => broker[e] = "queued"
      BY <1>5, <2>3 DEF Reply, Verdict
    <3>2. QED
      BY <1>0, <2>1, <3>1
  <2>4. QED
    BY <2>2, <2>3
<1>6. CASE ConnectionLost(h)
  <2>1. UNCHANGED accepted /\ (WorkingAt(h, e)' => WorkingAt(h, e))
    BY <1>6 DEF ConnectionLost, WorkingAt, gatewayVars
  <2>2. One(broker'[e] = "queued") + interrupted[e]
          <= One(broker[e] = "queued") + interrupted'[e]
    BY <1>6 DEF ConnectionLost, Interrupt
  <2>3. QED
    BY <1>0, <2>1, <2>2
<1>7. QED
  BY <1>1, <1>2, <1>3, <1>4, <1>5, <1>6 DEF HandlerStep, HandlerFault, Serves

\* PaidFor is inductive.
LEMMA PaidForStep ==
  ASSUME Typed, PCP!Typed, PaidFor, [Next]_vars
  PROVE  PaidFor'
<1> SUFFICES ASSUME NEW e \in Events
             PROVE  accepted'[e] + Cardinality(Working(e))' + One(broker'[e] = "queued")
                      <= 1 + interrupted'[e]
  BY DEF PaidFor
<1>1. /\ accepted[e] \in Nat /\ accepted'[e] \in Nat
      /\ interrupted[e] \in Nat /\ interrupted'[e] \in Nat
  BY TypedStep DEF Typed
<1>2. accepted[e] + Cardinality(Working(e)) + One(broker[e] = "queued") <= 1 + interrupted[e]
  BY DEF PaidFor
<1>3. ASSUME NEW h \in Handlers, HandlerStep(h) \/ HandlerFault(h) \/ Push(e, h)
      PROVE  accepted'[e] + Cardinality(Working(e))' + One(broker'[e] = "queued")
               <= 1 + interrupted'[e]
  <2>1. \A k \in Handlers \ {h} : WorkingAt(k, e)' <=> WorkingAt(k, e)
    BY <1>3, OthersStay DEF WorkingAt
  <2>2. /\ Cardinality(Working(e)) \in Nat /\ Cardinality(Working(e))' \in Nat
        /\ Cardinality(Working(e))' = Cardinality(Working(e))
             + One(WorkingAt(h, e)') - One(WorkingAt(h, e))
    BY <2>1, WorkingChange
  <2>3. accepted'[e] + One(WorkingAt(h, e)') + One(broker'[e] = "queued") + interrupted[e]
           <= accepted[e] + One(WorkingAt(h, e)) + One(broker[e] = "queued") + interrupted'[e]
    BY <1>3, HandlerPays
  <2>4. One(WorkingAt(h, e)) \in {0, 1} /\ One(WorkingAt(h, e)') \in {0, 1}
        /\ One(broker[e] = "queued") \in {0, 1} /\ One(broker'[e] = "queued") \in {0, 1}
    BY DEF One
  <2>5. QED
    BY <1>1, <1>2, <2>2, <2>3, <2>4
<1>4. ASSUME NEW a \in Events \ {e}, NEW h \in Handlers, Push(a, h)
      PROVE  accepted'[e] + Cardinality(Working(e))' + One(broker'[e] = "queued")
               <= 1 + interrupted'[e]
  <2>1. \A k \in Handlers : WorkingAt(k, e)' <=> WorkingAt(k, e)
    BY <1>4 DEF Push, WorkingAt, Typed, HandlersTyped
  <2>2. Working(e)' = Working(e)
    BY <2>1 DEF Working
  <2>3. broker'[e] = broker[e] /\ UNCHANGED <<accepted, interrupted>>
    BY <1>4 DEF Push, Typed, gatewayVars
  <2>4. QED
    BY <1>2, <2>2, <2>3
<1>5. CASE ClientCrash
  <2>1. Working(e)' = {}
    BY <1>5 DEF ClientCrash, Working, WorkingAt, Idle
  <2>2. Cardinality(Working(e))' = 0
    BY <2>1, FS_EmptySet
  <2>3. Cardinality(Working(e)) \in Nat
    BY FS_Subset, FS_CardinalityType DEF Working
  <2>4. /\ accepted' = accepted
        /\ One(broker'[e] = "queued") + interrupted[e]
             <= One(broker[e] = "queued") + interrupted'[e]
    BY <1>1, <1>5 DEF ClientCrash, One, Typed, gatewayVars
  <2>5. QED
    BY <1>1, <1>2, <2>2, <2>3, <2>4 DEF One
<1>6. CASE UNCHANGED <<handlers, broker, accepted, interrupted>>
  <2>1. Working(e)' = Working(e)
    BY <1>6 DEF Working, WorkingAt
  <2>2. QED
    BY <1>2, <1>6, <2>1
<1>7. QED
  BY <1>3, <1>4, <1>5, <1>6 DEF Next, ServerStep, Tick, vars, gatewayVars

\* At first each event is queued once.
LEMMA InitiallyPaidFor ==
  ASSUME Init
  PROVE  PaidFor
<1> SUFFICES ASSUME NEW e \in Events
             PROVE  accepted[e] + Cardinality(Working(e)) + One(broker[e] = "queued")
                      <= 1 + interrupted[e]
  BY DEF PaidFor
<1>1. Working(e) = {}
  BY DEF Init, Working, WorkingAt, Idle
<1>2. QED
  BY <1>1, FS_EmptySet DEF Init, One

\* However often the broker pushes an event again, because the peer is unknown or a
\* store throws, the peer gets the message again only after a failure that may have
\* hidden its first delivery.
THEOREM DuplicatesArePaidFor == Spec => []DuplicatesOnlyAfterFailure
<1>1. Init => PaidFor
  BY InitiallyPaidFor
<1>2. IInv /\ PaidFor /\ [Next]_vars => PaidFor'
  BY PaidForStep DEF IInv
<1>3. IInv /\ PaidFor => DuplicatesOnlyAfterFailure
  <2> SUFFICES ASSUME IInv, PaidFor, NEW e \in Events
               PROVE  accepted[e] <= 1 + interrupted[e]
    BY DEF DuplicatesOnlyAfterFailure
  <2>1. Cardinality(Working(e)) \in Nat /\ One(broker[e] = "queued") \in {0, 1}
    BY FS_Subset, FS_CardinalityType DEF Working, One
  <2>2. QED
    BY <2>1 DEF PaidFor, IInv, Typed
<1>4. QED
  BY <1>1, <1>2, <1>3, Invariance, PTL DEF Spec

--------------------------------------------------------------------------------
\* The histories are of what there is, and no event is interrupted more often than
\* there are failures.
Bounded ==
  /\ faults \in 0..MaxFaults
  /\ \A e \in Events : interrupted[e] <= faults
  /\ deliveries \subseteq [event : Events, address : Addresses, auth : Params]
  /\ refused \subseteq Events /\ bindingErrors \subseteq Events

\* What a gateway takes is the parcel of an event over a channel of its peer.
LEMMA AcceptTyped ==
  ASSUME IInv, NEW h \in Handlers, handlers[h].step = "deliverParcel"
  PROVE  /\ handlers[h].event \in Events
         /\ lookups[h].address \in Addresses /\ lookups[h].auth \in Params
<1>1. lookups[h].step = "found" /\ handlers[h].event \in Events
  BY DEF IInv, Justified, JustifiedAt, Typed, HandlersTyped
<1>2. /\ lookups[h].auth \in deliveryAuths
      /\ \E q \in deliveryAuths : q.internetGatewayAddress = lookups[h].address
  BY <1>1 DEF IInv, PCP!IInv, PCP!LookupsBacked, PCP!Backed
<1>3. deliveryAuths \subseteq Params
  BY DEF IInv, PCP!Typed, PCP!TypeOK
<1>4. QED
  BY <1>1, <1>2, <1>3

LEMMA BoundedStep ==
  ASSUME IInv, Bounded, [Next]_vars
  PROVE  Bounded'
<1> USE DEF Bounded
<1>1. ASSUME NEW h \in Handlers, DeliverParcel(h) \/ BindingError(h) \/ DeliveryFails(h)
      PROVE  /\ deliveries' \subseteq [event : Events, address : Addresses, auth : Params]
             /\ refused' \subseteq Events /\ bindingErrors' \subseteq Events
  <2>1. /\ handlers[h].event \in Events
        /\ lookups[h].address \in Addresses /\ lookups[h].auth \in Params
    BY <1>1, AcceptTyped DEF DeliverParcel, BindingError, DeliveryFails
  <2>2. QED
    BY <1>1, <2>1 DEF DeliverParcel, BindingError, DeliveryFails, Accept, gatewayVars
<1>2. CASE UNCHANGED <<interrupted, faults>>
  BY <1>1, <1>2
     DEF Next, Push, HandlerStep, HandlerFault, ConvertMessageToEvent, GetPeerChannelStep,
         GetPeerChannelThrows, GetChannel, MakeMessage, MakeMessageThrows, Reply, ConnectionLost,
         ClientCrash, ServerStep, Tick, vars, gatewayVars
<1>3. ASSUME NEW h \in Handlers, HandlerFault(h)
      PROVE  Bounded'
  <2>1. /\ faults' \in 0..MaxFaults
        /\ \A e \in Events : interrupted'[e] <= faults'
    <3>1. faults' = faults + 1 /\ faults' \in 0..MaxFaults
      BY <1>3 DEF HandlerFault, GetPeerChannelThrows, MakeMessageThrows, BindingError,
                  DeliveryFails, ConnectionLost, Fault
    <3>2. interrupted' = interrupted \/ Interrupt(h)
      BY <1>3 DEF HandlerFault, GetPeerChannelThrows, MakeMessageThrows, BindingError,
                  DeliveryFails, ConnectionLost
    <3>3. \A e \in Events : interrupted'[e] \in {interrupted[e], interrupted[e] + 1}
      BY <3>2 DEF Interrupt, IInv, Typed
    <3>4. QED
      BY <3>1, <3>3 DEF IInv, Typed
  <2>2. QED
    BY <1>1, <1>3, <2>1
       DEF HandlerFault, GetPeerChannelThrows, MakeMessageThrows, ConnectionLost, gatewayVars
<1>4. CASE ClientCrash
  BY <1>4 DEF ClientCrash, Fault, IInv, Typed, gatewayVars
<1>5. QED
  BY <1>2, <1>3, <1>4
     DEF Next, Push, HandlerStep, ConvertMessageToEvent, GetPeerChannelStep, GetChannel,
         MakeMessage, DeliverParcel, Reply, ServerStep, Tick, vars

\* The types of the module, the bound on duplicates included.
THEOREM TypeCorrect == Spec => []TypeOK
<1>1. Init => Bounded
  BY DEF Init, Bounded
<1>2. IInv /\ Bounded /\ [Next]_vars => Bounded'
  BY BoundedStep
<1>3. IInv /\ Bounded /\ DuplicatesOnlyAfterFailure => TypeOK
  <2> SUFFICES ASSUME IInv, Bounded, DuplicatesOnlyAfterFailure PROVE TypeOK
    OBVIOUS
  <2>1. PC!TypeOK
    BY DEF IInv, PCP!Typed, PCP!TypeOK, PC!TypeOK, PC!KeystoreWrites, PCP!KeystoreWrites
  <2>2. \A e \in Events : interrupted[e] \in 0..MaxFaults /\ accepted[e] \in 0..MaxFaults + 1
    BY DEF IInv, Typed, Bounded, DuplicatesOnlyAfterFailure
  <2>3. QED
    BY <2>1, <2>2 DEF TypeOK, IInv, Typed, HandlersTyped, Bounded, Steps
<1>4. QED
  BY <1>1, <1>2, <1>3, Invariance, DuplicatesArePaidFor, PTL DEF Spec

--------------------------------------------------------------------------------
(* The client implements AtLeastOnce. *)

\* The broker waits for the answer to one push of an event at most.
OneConnection ==
  \A h \in Handlers :
    handlers[h].socket = "open" =>
      /\ broker[handlers[h].event] = "sent"
      /\ \A k \in Handlers \ {h} :
           handlers[k].socket = "open" => handlers[k].event # handlers[h].event

LEMMA OneConnectionStep ==
  ASSUME Typed, PCP!Typed, OneConnection, [Next]_vars
  PROVE  OneConnection'
<1> USE DEF Typed, HandlersTyped
<1>1. CASE /\ broker' = broker
           /\ \A k \in Handlers : /\ handlers'[k].socket = handlers[k].socket
                                   /\ handlers'[k].event = handlers[k].event
  BY <1>1 DEF OneConnection
<1>2. ASSUME NEW e \in Events, NEW h \in Handlers, Push(e, h)
      PROVE  OneConnection'
  <2>1. \A k \in Handlers \ {h} : handlers[k].socket = "open" => handlers[k].event # e
    BY <1>2 DEF Push, OneConnection
  <2>2. QED
    BY <1>2, <2>1 DEF Push, OneConnection
<1>3. ASSUME NEW h \in Handlers, Reply(h) \/ ConnectionLost(h)
      PROVE  OneConnection'
  <2>1. /\ handlers'[h].socket = "closed"
        /\ \A k \in Handlers \ {h} : handlers'[k] = handlers[k]
    BY <1>3 DEF Reply, ConnectionLost, Idle
  <2>2. \A e \in Events :
          \/ broker'[e] = broker[e]
          \/ handlers[h].socket = "open" /\ handlers[h].event = e
    BY <1>3 DEF Reply, ConnectionLost
  <2>3. QED
    BY <2>1, <2>2 DEF OneConnection
<1>4. CASE ClientCrash
  BY <1>4 DEF ClientCrash, Idle, OneConnection
<1>5. ASSUME NEW h \in Handlers, Serves(h)
      PROVE  OneConnection'
  <2>1. /\ handlers'[h].socket = handlers[h].socket /\ handlers'[h].event = handlers[h].event
        /\ \A k \in Handlers \ {h} : handlers'[k] = handlers[k]
    <3>1. handlers[h].event \in Events
      BY <1>5, HandlerGoesOn
    <3>2. HandlerStep(h) \/ HandlerFault(h)
      BY <1>5 DEF Serves, HandlerStep, HandlerFault
    <3>3. QED
      BY <1>5, <3>1, <3>2, ServesSameEvent, OthersStay
  <2>2. broker' = broker
    BY <1>5 DEF Serves, ConvertMessageToEvent, GetPeerChannelStep, GetPeerChannelThrows,
                GetChannel, MakeMessage, MakeMessageThrows, DeliverParcel, BindingError,
                DeliveryFails
  <2>3. QED
    BY <1>1, <2>1, <2>2
<1>6. CASE UNCHANGED <<handlers, broker>>
  BY <1>1, <1>6
<1>7. QED
  BY <1>2, <1>3, <1>4, <1>5, <1>6
     DEF Next, HandlerStep, HandlerFault, Serves, ServerStep, Tick, vars

\* The variables of AtLeastOnce.
Kept == {e \in Events : broker[e] \in {"queued", "sent"}}
GivenUp == {e \in Events : ~Acceptable(e)} \cup refused \cup bindingErrors

\* A gateway takes a parcel only while a failure or the first push pays for it.
LEMMA WorkIsPaidFor ==
  ASSUME IInv, PaidFor, NEW h \in Handlers, NEW e \in Events, WorkingAt(h, e)
  PROVE  accepted[e] <= interrupted[e]
<1>1. Working(e) # {} /\ IsFiniteSet(Working(e))
  BY FS_Subset DEF Working
<1>2. Cardinality(Working(e)) \in Nat /\ Cardinality(Working(e)) # 0
  BY <1>1, FS_CardinalityType, FS_EmptySet
<1>3. accepted[e] + Cardinality(Working(e)) + One(broker[e] = "queued") <= 1 + interrupted[e]
  BY DEF PaidFor
<1>4. One(broker[e] = "queued") \in {0, 1}
  BY DEF One
<1>5. QED
  BY <1>2, <1>3, <1>4 DEF IInv, Typed

\* What an attempt to deliver does to the variables of AtLeastOnce: a failure
\* strikes the event at most, if the broker still waits for it.
LEMMA AttemptPasses ==
  ASSUME IInv, PaidFor, OneConnection, NEW h \in Handlers,
         DeliverParcel(h) \/ DeliveryFails(h)
  PROVE  [ALO!Next]_(ALO!vars)
<1>1. PICK e \in Events : e = handlers[h].event
  BY DEF DeliverParcel, DeliveryFails, IInv, Typed, HandlersTyped
<1>2. accepted \in [Events -> Nat] /\ interrupted \in [Events -> Nat]
  BY DEF IInv, Typed
<1>3. accepted[e] <= interrupted[e]
  BY <1>1, WorkIsPaidFor DEF WorkingAt, DeliverParcel, DeliveryFails
<1>4. Kept' = Kept
  BY DEF DeliverParcel, DeliveryFails, Kept
<1>5. \/ interrupted' = interrupted
      \/ /\ DeliveryFails(h) /\ e \in Kept
         /\ interrupted' = [interrupted EXCEPT ![e] = @ + 1]
  BY <1>1 DEF DeliverParcel, DeliveryFails, Interrupt, OneConnection, Kept
<1>6. ASSUME interrupted' = [interrupted EXCEPT ![e] = @ + 1]
      PROVE  ALO!Fail({e})
  <2>1. \A m \in Events : interrupted'[m] = interrupted[m] + (IF m \in {e} THEN 1 ELSE 0)
    BY <1>2, <1>6
  <2>2. QED
    BY <1>2, <1>6, <2>1 DEF ALO!Fail
<1>7. CASE Accept(h)
  <2>1. accepted' = [accepted EXCEPT ![e] = @ + 1] /\ GivenUp' = GivenUp
    BY <1>1, <1>7 DEF Accept, GivenUp
  <2>2. ALO!PassOn(e)
    BY <1>3, <1>4, <1>5, <1>6, <2>1 DEF ALO!PassOn, Kept, GivenUp
  <2>3. QED
    BY <2>2 DEF ALO!Next
<1>8. CASE DeliverParcel(h) /\ ~Accept(h)
  <2>1. /\ GivenUp' = GivenUp \cup {e}
        /\ UNCHANGED <<accepted, interrupted>>
    BY <1>1, <1>8 DEF DeliverParcel, GivenUp
  <2>2. ALO!GiveUp(e)
    BY <1>4, <2>1 DEF ALO!GiveUp, Kept, GivenUp
  <2>3. QED
    BY <2>2 DEF ALO!Next
<1>9. CASE DeliveryFails(h) /\ ~Accept(h)
  <2>1. UNCHANGED <<accepted, GivenUp>>
    BY <1>9 DEF DeliveryFails, GivenUp, gatewayVars
  <2>2. CASE interrupted' = interrupted
    BY <1>4, <2>1, <2>2 DEF ALO!vars, Kept, GivenUp
  <2>3. CASE e \in Kept /\ interrupted' = [interrupted EXCEPT ![e] = @ + 1]
    <3>1. ALO!Interrupt
      BY <1>4, <1>6, <2>1, <2>3 DEF ALO!Interrupt, Kept, GivenUp
    <3>2. QED
      BY <3>1 DEF ALO!Next
  <2>4. QED
    BY <1>5, <2>2, <2>3
<1>10. QED
  BY <1>7, <1>8, <1>9

\* The broker lets go of an event only when it hears so, and rightly.
LEMMA ReplyForgets ==
  ASSUME IInv, Told', OneConnection, NEW h \in Handlers, Reply(h)
  PROVE  [ALO!Next]_(ALO!vars)
<1>1. PICK e \in Events : e = handlers[h].event
  BY DEF Reply, IInv, Typed, HandlersTyped
<1>2. broker \in [Events -> {"queued", "sent", "acknowledged", "rejected"}]
  BY DEF IInv, Typed
<1>3. UNCHANGED <<GivenUp, accepted, interrupted, refused, bindingErrors>>
  BY DEF Reply, GivenUp, gatewayVars
<1>4. CASE broker'[e] \in {"queued", "sent"} \/ handlers[h].socket # "open"
  <2>1. UNCHANGED <<Kept, GivenUp, accepted, interrupted>>
    <3>1. Kept' = Kept
      BY <1>1, <1>2, <1>4 DEF Reply, Kept, OneConnection
    <3>2. QED
      BY <1>3, <3>1
  <2>2. QED
    BY <2>1 DEF ALO!vars, Kept, GivenUp
<1>5. CASE broker'[e] \notin {"queued", "sent"} /\ handlers[h].socket = "open"
  <2>1. e \in Kept /\ Kept' = Kept \ {e}
    BY <1>1, <1>2, <1>5 DEF Reply, Kept, OneConnection
  <2>2. broker'[e] \in {"acknowledged", "rejected"}
    <3>1. handlers[h].status \in {204, 400, 500, 502, 503}
      BY DEF Reply, IInv, Typed, HandlersTyped
    <3>2. QED
      BY <1>1, <1>2, <1>5, <3>1 DEF Reply, Verdict
  <2>3. accepted[e] > 0 \/ e \in GivenUp
    BY <1>3, <2>2 DEF Told, Settled, GivenUp
  <2>4. ALO!Forget(e)
    BY <1>3, <2>1, <2>3 DEF ALO!Forget, Kept, GivenUp
  <2>5. QED
    BY <2>4 DEF ALO!Next
<1>6. QED
  BY <1>4, <1>5

\* Every other failure leaves the events where they are and is counted.
LEMMA FailureInterrupts ==
  ASSUME Typed, OneConnection, ClientCrash \/ \E h \in Handlers : ConnectionLost(h)
  PROVE  [ALO!Next]_(ALO!vars)
<1>1. \E messages \in SUBSET Kept : ALO!Fail(messages)
  <2>1. CASE ClientCrash
    <3> DEFINE messages == {e \in Events : broker[e] = "sent"}
    <3>1. messages \in SUBSET Kept
      BY DEF Kept
    <3>2. ALO!Fail(messages)
      BY <2>1 DEF ClientCrash, ALO!Fail
    <3>3. QED
      BY <3>1, <3>2
  <2>2. ASSUME NEW h \in Handlers, ConnectionLost(h)
        PROVE  \E messages \in SUBSET Kept : ALO!Fail(messages)
    <3> DEFINE e == handlers[h].event
    <3>1. e \in Kept
      BY <2>2 DEF ConnectionLost, Typed, HandlersTyped, OneConnection, Kept
    <3>2. \A m \in Events : interrupted'[m] = interrupted[m] + (IF m \in {e} THEN 1 ELSE 0)
      BY <2>2 DEF ConnectionLost, Interrupt, Typed
    <3>3. ALO!Fail({e})
      BY <2>2, <3>2 DEF ALO!Fail, ConnectionLost, Interrupt, Typed
    <3>4. QED
      BY <3>1, <3>3
  <2>3. QED
    BY <2>1, <2>2
<1>2. UNCHANGED <<Kept, GivenUp, accepted>>
  <2>1. \A e \in Events : broker'[e] \in {"queued", "sent"} <=> broker[e] \in {"queued", "sent"}
    BY DEF ClientCrash, ConnectionLost, Typed, HandlersTyped, OneConnection
  <2>2. QED
    BY <2>1 DEF ClientCrash, ConnectionLost, Kept, GivenUp, gatewayVars
<1>3. ALO!Interrupt
  BY <1>1, <1>2 DEF ALO!Interrupt, Kept, GivenUp
<1>4. QED
  BY <1>3 DEF ALO!Next

LEMMA DeliversStep ==
  ASSUME IInv, Told', PaidFor, OneConnection, [Next]_vars
  PROVE  [ALO!Next]_(ALO!vars)
<1>1. CASE UNCHANGED <<Kept, GivenUp, accepted, interrupted>>
  BY <1>1 DEF ALO!vars, Kept, GivenUp
<1>2. ASSUME NEW e \in Events, NEW h \in Handlers, Push(e, h)
      PROVE  UNCHANGED <<Kept, GivenUp, accepted, interrupted>>
  BY <1>2 DEF Push, Kept, GivenUp, IInv, Typed, gatewayVars
<1>3. ASSUME NEW h \in Handlers, BindingError(h)
      PROVE  ALO!Next
  <2>1. PICK e \in Events : e = handlers[h].event
    BY <1>3 DEF BindingError, IInv, Typed, HandlersTyped
  <2>2. GivenUp' = GivenUp \cup {e} /\ UNCHANGED <<Kept, accepted, interrupted>>
    BY <1>3, <2>1 DEF BindingError, GivenUp, Kept
  <2>3. ALO!GiveUp(e)
    BY <2>2 DEF ALO!GiveUp, Kept, GivenUp
  <2>4. QED
    BY <2>3 DEF ALO!Next
<1>4. CASE UNCHANGED <<broker, accepted, refused, bindingErrors, interrupted>>
  BY <1>1, <1>4 DEF Kept, GivenUp
<1>5. ASSUME NEW h \in Handlers, HandlerStep(h) \/ HandlerFault(h)
      PROVE  [ALO!Next]_(ALO!vars)
  BY <1>3, <1>4, <1>5, AttemptPasses, ReplyForgets, FailureInterrupts
     DEF HandlerStep, HandlerFault, ConvertMessageToEvent, GetPeerChannelStep,
         GetPeerChannelThrows, GetChannel, MakeMessage, MakeMessageThrows, IInv, gatewayVars
<1>6. QED
  BY <1>1, <1>2, <1>4, <1>5, FailureInterrupts
     DEF Next, ServerStep, Tick, vars, IInv, gatewayVars

\* The client, whatever fails, delivers messages as AtLeastOnce says: the broker lets
\* go of one only after a gateway took or refused it, unless its event is unacceptable.
THEOREM PassesOn == Spec => DeliversAtLeastOnce
<1>1. Init => ALO!Init
  BY DEF Init, ALO!Init
<1>2. Init => OneConnection /\ PaidFor
  <2>1. Init => OneConnection
    BY DEF Init, Idle, OneConnection
  <2>2. QED
    BY <2>1, InitiallyPaidFor
<1>3. IInv /\ PaidFor /\ OneConnection /\ [Next]_vars => PaidFor' /\ OneConnection'
  BY PaidForStep, OneConnectionStep DEF IInv
<1>4. IInv /\ IInv' /\ PaidFor /\ OneConnection /\ [Next]_vars => [ALO!Next]_(ALO!vars)
  BY DeliversStep DEF IInv
<1>5. QED
  BY <1>1, <1>2, <1>3, <1>4, Invariance, PTL DEF Spec, DeliversAtLeastOnce, ALO!Spec
================================================================================
