-------------------------- MODULE AwalaEndpointProofs ---------------------------
(* Proofs about AwalaEndpoint: server and client, run together on one set of     *)
(* stores, each implement their own module, so that the theorems of both hold of *)
(* the deployment.                                                                *)
EXTENDS AwalaEndpoint, TLAPS

SP == INSTANCE ParcelDeliveryProofs WITH
        Handlers <- ServerHandlers, handlers <- serverHandlers, interrupted <- serverInterrupted,
        faults <- serverFaults

CP == INSTANCE PohttpClientProofs WITH
        Handlers <- ClientHandlers, handlers <- clientHandlers, interrupted <- clientInterrupted,
        faults <- clientFaults, Savers <- ServerHandlers

USE PartsAssumption

--------------------------------------------------------------------------------
(* The server *)

\* A step of the client or of its environment.
ClientMoves ==
  \/ \E e \in Events, h \in ClientHandlers : Push(e, h)
  \/ \E h \in ClientHandlers : ClientStep(h)
  \/ ClientEnvironment

\* Whatever the client does, it leaves the server's variables and the stores alone.
LEMMA ClientLeavesServer ==
  ASSUME ClientMoves
  PROVE  UNCHANGED <<serverVars, sharedVars>>
<1>1. ASSUME NEW h \in ClientHandlers,
             \/ \E e \in Events : C!Push(e, h)
             \/ C!HandlerStep(h) \/ C!HandlerFault(h)
      PROVE  UNCHANGED sharedVars
  BY <1>1
     DEF sharedVars, C!Push, C!HandlerStep, C!HandlerFault, C!ConvertMessageToEvent,
         C!GetPeerChannelStep, C!GetPeerChannelThrows, C!GetChannel, C!MakeMessage,
         C!MakeMessageThrows, C!DeliverParcel, C!BindingError, C!DeliveryFails, C!Reply,
         C!ConnectionLost, C!channelVars, C!PC!GetPeerChannel, C!PC!FindPeerEndpoint,
         C!PC!GetChannel, C!PC!LookupThrows, C!PC!stores, C!PC!keystores
<1>2. ASSUME C!ClientCrash \/ C!Tick
      PROVE  UNCHANGED sharedVars
  BY <1>2 DEF sharedVars, C!ClientCrash, C!Tick, C!channelVars, C!PC!ClientCrash, C!PC!stores,
              C!PC!keystores
<1>3. QED
  BY <1>1, <1>2 DEF ClientMoves, Push, ClientStep, ClientEnvironment

\* So each step is the server's, or changes nothing that is.
LEMMA ServerStepRefinement ==
  ASSUME [Next]_vars
  PROVE  [S!Next]_(S!vars)
<1>1. CASE UNCHANGED <<serverVars, sharedVars>>
  BY <1>1 DEF serverVars, sharedVars, S!vars, S!channelVars
<1>2. ASSUME NEW p \in Parcels, NEW h \in ServerHandlers, Deliver(p, h)
      PROVE  S!Next
  BY <1>2 DEF Deliver, S!Next
<1>3. ASSUME NEW h \in ServerHandlers, ServerStep(h)
      PROVE  S!Next
  BY <1>3 DEF ServerStep, S!Next
<1>4. CASE ServerEnvironment
  BY <1>4 DEF ServerEnvironment, S!Next
<1>5. CASE ClientMoves
  BY <1>1, <1>5, ClientLeavesServer
<1>6. QED
  BY <1>1, <1>2, <1>3, <1>4, <1>5 DEF Next, ClientMoves, vars

\* In the deployment, the server does as it does on its own: the client's lookups,
\* crashes and deliveries are nothing to it.
THEOREM ServerRefinement == Spec => S!Spec
<1>1. Init => S!Init
  BY DEF Init
<1>2. [Next]_vars => [S!Next]_(S!vars)
  BY ServerStepRefinement
<1>3. QED
  BY <1>1, <1>2, PTL DEF Spec, S!Spec

\* S and SP instantiate the same definitions of ParcelDelivery.
LEMMA SameServer ==
  /\ S!Init <=> SP!Init
  /\ [S!Next]_(S!vars) <=> [SP!Next]_(SP!vars)
<1>1. S!Init <=> SP!Init
  BY Zenon DEF S!Init, S!Idle, S!PC!Init, S!PC!NoSave, S!PC!NoLookup,
     SP!Init, SP!Idle, SP!PC!Init, SP!PC!NoSave, SP!PC!NoLookup
<1>2. S!Next <=> SP!Next
  BY Zenon DEF S!Next, S!Deliver, S!HandlerStep, S!HandlerFault, S!DeserializeParcel,
     S!IsMessageValid, S!GetDecryptedParcel, S!SaveChannelStep, S!CreateOrUpdateChannel, S!Emit,
     S!PublishIncomingServiceMessage, S!Verdict, S!Reply, S!DecryptionThrows, S!SaveChannelThrows,
     S!PublishThrows, S!ConnectionLost, S!ServerCrash, S!ParcelExpires, S!AuthExpires, S!Fault,
     S!GoTo, S!Answer, S!Idle, S!channelVars,
     S!PC!SaveChannel, S!PC!WriteKeystore, S!PC!ApplyKeystoreWrite, S!PC!UpsertPeerEndpoint,
     S!PC!ApplyUpsert, S!PC!SaveThrows, S!PC!RivalsOf, S!PC!Expire, S!PC!ServerCrash,
     S!PC!NoSave, S!PC!KeystoreWrites, S!PC!stores, S!PC!keystores,
     SP!Next, SP!Deliver, SP!HandlerStep, SP!HandlerFault, SP!DeserializeParcel,
     SP!IsMessageValid, SP!GetDecryptedParcel, SP!SaveChannelStep, SP!CreateOrUpdateChannel, SP!Emit,
     SP!PublishIncomingServiceMessage, SP!Verdict, SP!Reply, SP!DecryptionThrows,
     SP!SaveChannelThrows, SP!PublishThrows, SP!ConnectionLost, SP!ServerCrash, SP!ParcelExpires,
     SP!AuthExpires, SP!Fault, SP!GoTo, SP!Answer, SP!Idle, SP!channelVars,
     SP!PC!SaveChannel, SP!PC!WriteKeystore, SP!PC!ApplyKeystoreWrite, SP!PC!UpsertPeerEndpoint,
     SP!PC!ApplyUpsert, SP!PC!SaveThrows, SP!PC!RivalsOf, SP!PC!Expire, SP!PC!ServerCrash,
     SP!PC!NoSave, SP!PC!KeystoreWrites, SP!PC!stores, SP!PC!keystores
<1>3. UNCHANGED S!vars <=> UNCHANGED SP!vars
  BY DEF S!vars, SP!vars, S!channelVars, SP!channelVars
<1>4. QED
  BY <1>1, <1>2, <1>3

LEMMA ServerSpec == Spec => SP!Spec
BY ServerRefinement, SameServer, PTL DEF S!Spec, SP!Spec

--------------------------------------------------------------------------------
(* The client *)

\* A step of the server's stores is one of saveChannel that the client's module has.
LEMMA SaveRefinement ==
  ASSUME SP!Typed, UNCHANGED clientVars,
         \/ \E h \in ServerHandlers : S!HandlerStep(h) \/ S!HandlerFault(h)
         \/ S!ServerCrash
         \/ \E q \in Params : S!AuthExpires(q)
  PROVE  C!ServerStep \/ UNCHANGED <<clientVars, sharedVars>>
<1> USE DEF clientVars, sharedVars, C!ServerStep, C!gatewayVars, S!channelVars
<1>1. ASSUME NEW h \in ServerHandlers, S!GetDecryptedParcel(h)
      PROVE  C!ServerStep \/ UNCHANGED <<clientVars, sharedVars>>
  <2>1. serverHandlers[h].parcel \in Parcels
    BY <1>1 DEF S!GetDecryptedParcel, SP!Typed, SP!HandlersTyped
  <2>2. CASE serverHandlers[h].parcel.kind = "pda"
    <3> DEFINE q == serverHandlers[h].parcel.params
    <3>1. q \in Params
      BY <2>1, <2>2 DEF S!ParcelsAssumption
    <3>2. S!PC!SaveChannel(h, q)
      BY <1>1, <2>2 DEF S!GetDecryptedParcel
    <3>3. C!PC!SaveChannel(h, q)
      BY <3>2 DEF S!PC!SaveChannel, C!PC!SaveChannel, S!PC!KeystoreWrites, C!PC!KeystoreWrites,
         S!PC!stores, C!PC!stores, S!PC!keystores, C!PC!keystores
    <3>4. QED
      BY <3>1, <3>3
  <2>3. CASE serverHandlers[h].parcel.kind # "pda"
    BY <1>1, <2>3 DEF S!GetDecryptedParcel
  <2>4. QED
    BY <2>2, <2>3
<1>2. ASSUME NEW h \in ServerHandlers, S!SaveChannelStep(h) \/ S!SaveChannelThrows(h)
      PROVE  C!ServerStep
  <2>1. C!PC!SaveStep(h)
    BY <1>2 DEF S!SaveChannelStep, S!SaveChannelThrows, C!PC!SaveStep,
       S!PC!WriteKeystore, S!PC!ApplyKeystoreWrite, S!PC!UpsertPeerEndpoint, S!PC!ApplyUpsert,
       S!PC!SaveThrows, S!PC!RivalsOf, S!PC!KeystoreWrites, S!PC!stores, S!PC!keystores,
       C!PC!WriteKeystore, C!PC!ApplyKeystoreWrite, C!PC!UpsertPeerEndpoint, C!PC!ApplyUpsert,
       C!PC!SaveThrows, C!PC!RivalsOf, C!PC!KeystoreWrites, C!PC!stores, C!PC!keystores
  <2>2. QED
    BY <2>1
<1>3. ASSUME NEW h \in ServerHandlers, S!HandlerStep(h) \/ S!HandlerFault(h)
      PROVE  C!ServerStep \/ UNCHANGED <<clientVars, sharedVars>>
  BY <1>1, <1>2, <1>3
     DEF S!HandlerStep, S!HandlerFault, S!DeserializeParcel, S!IsMessageValid,
         S!CreateOrUpdateChannel, S!PublishIncomingServiceMessage, S!Reply, S!DecryptionThrows,
         S!PublishThrows, S!ConnectionLost
<1>4. CASE S!ServerCrash
  BY <1>4 DEF S!ServerCrash, S!PC!ServerCrash, C!PC!ServerCrash, S!PC!NoSave, C!PC!NoSave,
     S!PC!stores, C!PC!stores, S!PC!keystores, C!PC!keystores
<1>5. ASSUME NEW q \in Params, S!AuthExpires(q)
      PROVE  C!ServerStep
  BY <1>5 DEF S!AuthExpires, S!PC!Expire, C!PC!Expire, S!PC!stores, C!PC!stores,
     S!PC!keystores, C!PC!keystores
<1>6. QED
  BY <1>3, <1>4, <1>5

\* So each step is the client's, or one of the server that its module foresees.
LEMMA ClientStepRefinement ==
  ASSUME SP!Typed, [Next]_vars
  PROVE  [C!Next]_(C!vars)
<1>1. CASE UNCHANGED <<clientVars, sharedVars>>
  BY <1>1 DEF clientVars, sharedVars, C!vars, C!gatewayVars, C!channelVars
<1>2. CASE ClientMoves
  BY <1>2 DEF ClientMoves, Push, ClientStep, ClientEnvironment, C!Next
<1>3. ASSUME NEW h \in ServerHandlers, ServerStep(h)
      PROVE  [C!Next]_(C!vars)
  BY <1>1, <1>3, SaveRefinement DEF ServerStep, C!Next
<1>4. CASE ServerEnvironment
  <2>1. ASSUME NEW p \in Parcels, S!ParcelExpires(p)
        PROVE  UNCHANGED sharedVars
    BY <2>1 DEF S!ParcelExpires, S!channelVars, sharedVars
  <2>2. QED
    BY <1>1, <1>4, <2>1, SaveRefinement DEF ServerEnvironment, C!Next
<1>5. ASSUME NEW p \in Parcels, NEW h \in ServerHandlers, Deliver(p, h)
      PROVE  [C!Next]_(C!vars)
  BY <1>1, <1>5 DEF Deliver, S!Deliver, S!channelVars, sharedVars
<1>6. QED
  BY <1>1, <1>2, <1>3, <1>4, <1>5 DEF Next, ClientMoves, vars

\* In the deployment, the client does as it does on its own: what the server does to
\* the stores, failing and crashing as it may, is what PohttpClient expects of it.
THEOREM ClientRefinement == Spec => C!Spec
<1>1. Init => C!Init
  BY DEF Init
<1>2. SP!Typed /\ [Next]_vars => [C!Next]_(C!vars)
  BY ClientStepRefinement
<1>3. SP!Spec => []SP!Typed
  BY SP!TypedInductive
     DEF S!ParcelsAssumption, S!DocumentsAssumption, S!Kinds, SP!Kinds, S!IsFiniteSet, SP!IsFiniteSet
<1>4. QED
  BY <1>1, <1>2, <1>3, ServerSpec, PTL DEF Spec, C!Spec

\* C and CP instantiate the same definitions of PohttpClient.
LEMMA SameClient ==
  /\ C!Init <=> CP!Init
  /\ [C!Next]_(C!vars) <=> [CP!Next]_(CP!vars)
<1>1. C!Init <=> CP!Init
  BY Zenon DEF C!Init, C!Idle, C!PC!Init, C!PC!NoSave, C!PC!NoLookup,
     CP!Init, CP!Idle, CP!PC!Init, CP!PC!NoSave, CP!PC!NoLookup
<1>2. C!Next <=> CP!Next
  BY Zenon DEF C!Next, C!Push, C!HandlerStep, C!HandlerFault, C!ConvertMessageToEvent,
     C!GetPeerChannelStep, C!GetPeerChannelThrows, C!GetChannel, C!MakeMessage,
     C!MakeMessageThrows, C!DeliverParcel, C!BindingError, C!DeliveryFails, C!Reply,
     C!ConnectionLost, C!ClientCrash, C!ServerStep, C!Tick, C!Acceptable, C!Senders, C!Accept, C!ValidParcel,
     C!GatewayClocks, C!Interrupt, C!Verdict, C!Fault, C!GoTo, C!Answer, C!Idle, C!gatewayVars,
     C!channelVars, C!GetOutgoingServiceMessageOptions, C!ParcelExpiry, C!GetTtl,
     C!DifferenceInSeconds, C!SubClockDrift, C!ClockDriftTolerance, C!CLOCK_DRIFT_TOLERANCE_HOURS,
     C!PC!SaveChannel, C!PC!SaveStep, C!PC!WriteKeystore, C!PC!ApplyKeystoreWrite,
     C!PC!UpsertPeerEndpoint, C!PC!ApplyUpsert, C!PC!SaveThrows, C!PC!RivalsOf, C!PC!Expire,
     C!PC!ServerCrash, C!PC!ClientCrash, C!PC!GetPeerChannel, C!PC!FindPeerEndpoint,
     C!PC!GetChannel, C!PC!UsableAuths, C!PC!LookupThrows, C!PC!NoSave, C!PC!NoLookup,
     C!PC!KeystoreWrites, C!PC!stores, C!PC!keystores,
     CP!Next, CP!Push, CP!HandlerStep, CP!HandlerFault, CP!ConvertMessageToEvent,
     CP!GetPeerChannelStep, CP!GetPeerChannelThrows, CP!GetChannel, CP!MakeMessage,
     CP!MakeMessageThrows, CP!DeliverParcel, CP!BindingError, CP!DeliveryFails, CP!Reply,
     CP!ConnectionLost, CP!ClientCrash, CP!ServerStep, CP!Tick, CP!Acceptable, CP!Senders, CP!Accept,
     CP!ValidParcel, CP!GatewayClocks, CP!Interrupt, CP!Verdict, CP!Fault, CP!GoTo, CP!Answer,
     CP!Idle, CP!gatewayVars, CP!channelVars, CP!GetOutgoingServiceMessageOptions,
     CP!ParcelExpiry, CP!GetTtl, CP!DifferenceInSeconds, CP!SubClockDrift, CP!ClockDriftTolerance,
     CP!CLOCK_DRIFT_TOLERANCE_HOURS,
     CP!PC!SaveChannel, CP!PC!SaveStep, CP!PC!WriteKeystore, CP!PC!ApplyKeystoreWrite,
     CP!PC!UpsertPeerEndpoint, CP!PC!ApplyUpsert, CP!PC!SaveThrows, CP!PC!RivalsOf, CP!PC!Expire,
     CP!PC!ServerCrash, CP!PC!ClientCrash, CP!PC!GetPeerChannel, CP!PC!FindPeerEndpoint,
     CP!PC!GetChannel, CP!PC!UsableAuths, CP!PC!LookupThrows, CP!PC!NoSave, CP!PC!NoLookup,
     CP!PC!KeystoreWrites, CP!PC!stores, CP!PC!keystores
<1>3. UNCHANGED C!vars <=> UNCHANGED CP!vars
  BY DEF C!vars, CP!vars, C!gatewayVars, CP!gatewayVars, C!channelVars, CP!channelVars
<1>4. QED
  BY <1>1, <1>2, <1>3

LEMMA ClientSpec == Spec => CP!Spec
BY ClientRefinement, SameClient, PTL DEF C!Spec, CP!Spec

--------------------------------------------------------------------------------
(* The properties of AwalaEndpoint *)

\* What a module's theorems assume of its constants is assumed of the deployment's.
LEMMA ServerTheorems ==
  /\ SP!Spec => [](SP!IInv /\ SP!Imported)
  /\ SP!Spec => []SP!DuplicatesOnlyAfterFailure
<1> USE DEF S!ParcelsAssumption, S!DocumentsAssumption, S!Kinds, SP!Kinds, S!IsFiniteSet,
            SP!IsFiniteSet
<1>1. SP!Spec => []SP!IInv
  BY SP!Invariance
<1>2. SP!Spec => []SP!Imported
  BY SP!ImportsOnlyPdas
<1>3. SP!Spec => []SP!DuplicatesOnlyAfterFailure
  BY SP!DuplicatesArePaidFor
<1>4. QED
  BY <1>1, <1>2, <1>3, PTL

LEMMA ClientTheorems ==
  /\ CP!Spec => [](CP!IInv /\ CP!OnlyAcceptable)
  /\ CP!Spec => [](CP!RejectedForWhatItIs /\ CP!DuplicatesOnlyAfterFailure)
<1> USE DEF C!TimeAssumption, C!EventsAssumption, C!DocumentsAssumption,
            C!Attributes, CP!Attributes, C!OptionsOf, CP!OptionsOf, C!ClockDriftTolerance,
            CP!ClockDriftTolerance, C!CLOCK_DRIFT_TOLERANCE_HOURS, CP!CLOCK_DRIFT_TOLERANCE_HOURS,
            C!IsFiniteSet, CP!IsFiniteSet
<1>1. CP!Spec => []CP!IInv
  BY CP!Invariance
<1>2. CP!Spec => []CP!OnlyAcceptable
  BY CP!DeliversOnlyAcceptable
<1>3. CP!Spec => []CP!RejectedForWhatItIs
  BY CP!Rejection
<1>4. CP!Spec => []CP!DuplicatesOnlyAfterFailure
  BY CP!DuplicatesArePaidFor
<1>5. QED
  BY <1>1, <1>2, <1>3, <1>4, PTL

\* In the deployment too, the broker drops for good only what is no message for the
\* client, whatever state the server has left the channel with the peer in.
THEOREM Rejection == Spec => []RejectedForWhatItIs
<1>1. CP!RejectedForWhatItIs => RejectedForWhatItIs
  BY DEF CP!RejectedForWhatItIs, C!RejectedForWhatItIs, RejectedForWhatItIs, CP!Senders, C!Senders
<1>2. QED
  BY <1>1, ClientSpec, ClientTheorems, PTL

\* The client sends nothing but over a channel of the peer the event is for.
THEOREM Delivery == Spec => []DeliveredToThePeer
<1>1. CP!IInv => DeliveredToThePeer
  BY DEF CP!IInv, CP!DeliveredToThePeer, C!DeliveredToThePeer, DeliveredToThePeer
<1>2. QED
  BY <1>1, ClientSpec, ClientTheorems, PTL

\* The server's events are not acceptable to the client, so that every other one is
\* the answer to a message and for the sender of that message.
LEMMA AcceptableIsAnswer ==
  ASSUME NEW e \in Events, CP!Acceptable(e)
  PROVE  e \in Answers /\ e.subject = e.cause.sender
<1>1. e \notin Incoming
  BY DEF CP!Acceptable, CP!GetOutgoingServiceMessageOptions, Incoming,
         MakeIncomingServiceMessageEvent
<1>2. \A a \in Answers : a.subject = a.cause.sender
  BY DEF Answers, MakeAnswer, MakeIncomingServiceMessageEvent
<1>3. QED
  BY <1>1, <1>2 DEF Events

\* Each parcel the client sends is an answer and goes to the sender of the message,
\* to an address and under an authorisation that PDAs of that very peer have brought:
\* the server stores no others, and the client uses none but those of the peer.
THEOREM Authorised == Spec => []AnswersGoToTheSender
<1>1. CP!IInv /\ CP!OnlyAcceptable /\ SP!Imported => AnswersGoToTheSender
  <2> SUFFICES ASSUME CP!IInv, CP!OnlyAcceptable, SP!Imported, NEW d \in deliveries
               PROVE  /\ d.event \in Answers
                      /\ \E p \in PdasOf(d.event.cause.sender) : p.params = d.auth
                      /\ \E p \in PdasOf(d.event.cause.sender) :
                           p.params.internetGatewayAddress = d.address
    BY DEF AnswersGoToTheSender
  <2>1. d.event \in Answers /\ d.event.subject = d.event.cause.sender
    BY AcceptableIsAnswer DEF CP!OnlyAcceptable
  <2>2. /\ d.auth \in deliveryAuths /\ d.auth.peerId = d.event.subject
        /\ \E q \in deliveryAuths :
             q.peerId = d.event.subject /\ q.internetGatewayAddress = d.address
    BY DEF CP!IInv, CP!DeliveredToThePeer
  <2>3. \A q \in deliveryAuths : \E p \in PdasOf(q.peerId) : p.params = q
    BY DEF SP!Imported, PdasOf
  <2>4. QED
    BY <2>1, <2>2, <2>3
<1>2. QED
  BY <1>1, ClientSpec, ServerSpec, ClientTheorems, ServerTheorems, PTL

\* The events of the server's own messages, of which the broker pushes each to the
\* client, never make it send anything.
THEOREM NeverSentBack == Spec => [](\A e \in Incoming : accepted[e] = 0)
<1>1. CP!IInv /\ CP!OnlyAcceptable => \A e \in Incoming : accepted[e] = 0
  <2> SUFFICES ASSUME CP!IInv, CP!OnlyAcceptable, NEW e \in Incoming
               PROVE  accepted[e] = 0
    OBVIOUS
  <2>1. e \in Events /\ ~CP!Acceptable(e)
    BY DEF Events, Incoming, MakeIncomingServiceMessageEvent, CP!Acceptable,
           CP!GetOutgoingServiceMessageOptions
  <2>2. QED
    BY <2>1 DEF CP!IInv, CP!Typed, CP!OnlyAcceptable
<1>2. QED
  BY <1>1, ClientSpec, ClientTheorems, PTL

\* Duplicates on either side are paid for by failures on that side: the application
\* gets a message, and the peer an answer, at most once more than each has met.
THEOREM DuplicatesOnEitherSide ==
  Spec => [](S!DuplicatesOnlyAfterFailure /\ C!DuplicatesOnlyAfterFailure)
<1>1. /\ SP!DuplicatesOnlyAfterFailure <=> S!DuplicatesOnlyAfterFailure
      /\ CP!DuplicatesOnlyAfterFailure <=> C!DuplicatesOnlyAfterFailure
  BY DEF SP!DuplicatesOnlyAfterFailure, S!DuplicatesOnlyAfterFailure,
         CP!DuplicatesOnlyAfterFailure, C!DuplicatesOnlyAfterFailure
<1>2. QED
  BY <1>1, ClientSpec, ServerSpec, ClientTheorems, ServerTheorems, PTL

\* Each side of the application passes messages on at least once: its own promise
\* holds of the two together, though one changes the stores that the other reads and
\* the broker pushes events of either to the client.
THEOREM AtLeastOnceOnEitherSide == Spec => S!PassesOnAtLeastOnce /\ C!DeliversAtLeastOnce
<1>1. SP!Spec => SP!PassesOnAtLeastOnce
  BY SP!PassesOn
     DEF S!ParcelsAssumption, S!DocumentsAssumption, S!Kinds, SP!Kinds, S!IsFiniteSet, SP!IsFiniteSet
<1>2. CP!Spec => CP!DeliversAtLeastOnce
  BY CP!PassesOn
     DEF C!TimeAssumption, C!EventsAssumption, C!DocumentsAssumption,
         C!Attributes, CP!Attributes, C!OptionsOf, CP!OptionsOf, C!ClockDriftTolerance,
         CP!ClockDriftTolerance, C!CLOCK_DRIFT_TOLERANCE_HOURS, CP!CLOCK_DRIFT_TOLERANCE_HOURS,
         C!IsFiniteSet, CP!IsFiniteSet
<1>3. /\ SP!ALO!Init <=> S!ALO!Init
      /\ [SP!ALO!Next]_(SP!ALO!vars) <=> [S!ALO!Next]_(S!ALO!vars)
  BY DEF SP!ALO!Init, SP!ALO!Next, SP!ALO!PassOn, SP!ALO!Fail, SP!ALO!Interrupt, SP!ALO!GiveUp,
         SP!ALO!Forget, SP!ALO!vars,
         S!ALO!Init, S!ALO!Next, S!ALO!PassOn, S!ALO!Fail, S!ALO!Interrupt, S!ALO!GiveUp,
         S!ALO!Forget, S!ALO!vars
<1>4. /\ CP!ALO!Init <=> C!ALO!Init
      /\ [CP!ALO!Next]_(CP!ALO!vars) <=> [C!ALO!Next]_(C!ALO!vars)
  <2> USE DEF CP!Acceptable, CP!Senders, C!Senders, CP!GetOutgoingServiceMessageOptions, CP!GetTtl, CP!SubClockDrift,
              CP!DifferenceInSeconds, CP!ClockDriftTolerance, CP!CLOCK_DRIFT_TOLERANCE_HOURS,
              C!Acceptable, C!GetOutgoingServiceMessageOptions, C!GetTtl, C!SubClockDrift,
              C!DifferenceInSeconds, C!ClockDriftTolerance, C!CLOCK_DRIFT_TOLERANCE_HOURS
  <2>1. CP!ALO!Init <=> C!ALO!Init
    BY Zenon DEF CP!ALO!Init, C!ALO!Init
  <2>2. CP!ALO!Next <=> C!ALO!Next
    BY Zenon DEF CP!ALO!Next, CP!ALO!PassOn, CP!ALO!Fail, CP!ALO!Interrupt, CP!ALO!GiveUp,
       CP!ALO!Forget, C!ALO!Next, C!ALO!PassOn, C!ALO!Fail, C!ALO!Interrupt, C!ALO!GiveUp,
       C!ALO!Forget
  <2>3. UNCHANGED CP!ALO!vars <=> UNCHANGED C!ALO!vars
    BY Zenon DEF CP!ALO!vars, C!ALO!vars
  <2>4. QED
    BY <2>1, <2>2, <2>3
<1>5. Spec => S!ALO!Spec
  BY <1>1, <1>3, ServerSpec, PTL DEF SP!PassesOnAtLeastOnce, SP!ALO!Spec, S!ALO!Spec
<1>6. Spec => C!ALO!Spec
  BY <1>2, <1>4, ClientSpec, PTL DEF CP!DeliversAtLeastOnce, CP!ALO!Spec, C!ALO!Spec
<1>7. QED
  BY <1>5, <1>6 DEF S!PassesOnAtLeastOnce, C!DeliversAtLeastOnce
================================================================================
