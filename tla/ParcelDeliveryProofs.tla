-------------------------- MODULE ParcelDeliveryProofs --------------------------
(* Proofs about ParcelDelivery, for any parcels, handlers and number of faults. *)
(* The server implements PeerChannel, whose theorems hold of it by PCP.          *)
EXTENDS ParcelDelivery, FiniteSetTheorems, TLAPS

PCP == INSTANCE PeerChannelProofs WITH
         Savers <- Handlers, Lookups <- {}, lookups <- [l \in {} |-> NoPeer]

USE ParcelsAssumption, DocumentsAssumption

--------------------------------------------------------------------------------
Steps == {"idle", "deserialize", "validate", "unwrap", "saveChannel", "publish", "reply"}

HandlersTyped ==
  /\ handlers \in [Handlers -> [step : Steps, parcel : Parcels \cup {NoParcel},
                                socket : {"open", "closed"}, status : {0, 202, 400, 403, 500}]]
  /\ \A h \in Handlers : handlers[h].step # "idle" \/ handlers[h].socket = "open"
                           => handlers[h].parcel \in Parcels
  /\ \A h \in Handlers : handlers[h].step = "reply" => handlers[h].status # 0

\* A request in progress is about a parcel, and handlers and gateways are at one
\* of their steps. How often a parcel is published has no bound here: the bound in
\* TypeOK counts faults.
Typed ==
  /\ gateway \in [Parcels -> {"queued", "sent", "accepted", "refused"}]
  /\ HandlersTyped
  /\ published \in [Parcels -> Nat]
  /\ interrupted \in [Parcels -> Nat]

\* A handler that goes on or answers stays with its parcel and its connection.
LEMMA HandlerMoves ==
  ASSUME HandlersTyped, NEW h \in Handlers, handlers[h].step # "idle",
         \/ \E step \in Steps \ {"idle", "reply"} : GoTo(h, step)
         \/ \E code \in {202, 400, 403, 500} : Answer(h, code)
  PROVE  HandlersTyped'
<1> USE DEF HandlersTyped, Steps
<1>1. ASSUME NEW step \in Steps \ {"idle", "reply"}, GoTo(h, step) PROVE HandlersTyped'
  BY <1>1 DEF GoTo
<1>2. ASSUME NEW code \in {202, 400, 403, 500}, Answer(h, code) PROVE HandlersTyped'
  BY <1>2 DEF Answer
<1>3. QED
  BY <1>1, <1>2

\* Whatever a handler does, it goes on or answers, or else it has ended or is left
\* as it is but for its connection.
LEMMA HandlersTypedStep ==
  ASSUME HandlersTyped, [Next]_vars
  PROVE  HandlersTyped'
<1>1. ASSUME NEW p \in Parcels, NEW h \in Handlers, Deliver(p, h)
      PROVE  HandlersTyped'
  BY <1>1 DEF Deliver, HandlersTyped, Steps
<1>2. ASSUME NEW h \in Handlers, HandlerStep(h)
      PROVE  HandlersTyped'
  <2>1. CASE DeserializeParcel(h)
    BY <2>1, HandlerMoves DEF DeserializeParcel, Steps
  <2>2. CASE IsMessageValid(h)
    BY <2>2, HandlerMoves DEF IsMessageValid, Steps
  <2>3. CASE GetDecryptedParcel(h)
    BY <2>3, HandlerMoves DEF GetDecryptedParcel, Steps
  <2>4. CASE SaveChannelStep(h)
    BY <2>4 DEF SaveChannelStep, HandlersTyped
  <2>5. CASE CreateOrUpdateChannel(h) \/ PublishIncomingServiceMessage(h)
    BY <2>5, HandlerMoves DEF CreateOrUpdateChannel, PublishIncomingServiceMessage
  <2>6. CASE Reply(h)
    BY <2>6 DEF Reply, HandlersTyped, Steps, Idle
  <2>7. QED
    BY <1>2, <2>1, <2>2, <2>3, <2>4, <2>5, <2>6 DEF HandlerStep
<1>3. ASSUME NEW h \in Handlers, HandlerFault(h)
      PROVE  HandlersTyped'
  <2>1. CASE DecryptionThrows(h) \/ PublishThrows(h)
    BY <2>1, HandlerMoves DEF DecryptionThrows, PublishThrows
  <2>2. CASE SaveChannelThrows(h)
    BY <2>2 DEF SaveChannelThrows, HandlersTyped
  <2>3. CASE ConnectionLost(h)
    BY <2>3 DEF ConnectionLost, HandlersTyped, Steps
  <2>4. QED
    BY <1>3, <2>1, <2>2, <2>3 DEF HandlerFault
<1>4. CASE ServerCrash
  BY <1>4 DEF ServerCrash, HandlersTyped, Steps, Idle
<1>5. CASE UNCHANGED handlers
  BY <1>5 DEF HandlersTyped
<1>6. QED
  BY <1>1, <1>2, <1>3, <1>4, <1>5 DEF Next, ParcelExpires, AuthExpires, vars

\* The steps of the handlers and of their environment keep the types.
LEMMA TypedStep ==
  ASSUME Typed, [Next]_vars
  PROVE  Typed'
<1> USE DEF Typed
<1>1. HandlersTyped'
  BY HandlersTypedStep
<1>2. ASSUME NEW p \in Parcels, NEW h \in Handlers, Deliver(p, h)
      PROVE  Typed'
  BY <1>1, <1>2 DEF Deliver
<1>3. ASSUME NEW h \in Handlers, PublishIncomingServiceMessage(h) \/ PublishThrows(h)
      PROVE  Typed'
  <2>1. handlers[h].parcel \in Parcels
    BY <1>3 DEF HandlersTyped, PublishIncomingServiceMessage, PublishThrows
  <2>2. QED
    BY <1>1, <1>3, <2>1 DEF PublishIncomingServiceMessage, PublishThrows, Emit
<1>4. ASSUME NEW h \in Handlers, Reply(h)
      PROVE  Typed'
  <2>1. Verdict(handlers[h].status) \in {"queued", "accepted", "refused"}
    BY <1>4 DEF Verdict, Reply, HandlersTyped
  <2>2. QED
    BY <1>1, <1>4, <2>1 DEF Reply, HandlersTyped
<1>5. ASSUME NEW h \in Handlers, ConnectionLost(h)
      PROVE  Typed'
  <2>1. handlers[h].parcel \in Parcels
    BY <1>5 DEF ConnectionLost, HandlersTyped
  <2>2. QED
    BY <1>1, <1>5, <2>1 DEF ConnectionLost
<1>6. CASE ServerCrash
  BY <1>1, <1>6 DEF ServerCrash
<1>7. CASE UNCHANGED <<gateway, published, interrupted>>
  BY <1>1, <1>7
<1>8. QED
  BY <1>2, <1>3, <1>4, <1>5, <1>6, <1>7
     DEF Next, HandlerStep, HandlerFault, DeserializeParcel, IsMessageValid, GetDecryptedParcel,
         SaveChannelStep, CreateOrUpdateChannel, DecryptionThrows, SaveChannelThrows,
         ParcelExpires, AuthExpires, vars

\* So they have them in every behaviour.
LEMMA TypedInductive == Spec => []Typed
<1>1. Init => Typed
  BY DEF Init, Typed, HandlersTyped, Idle, Steps
<1>2. Typed /\ [Next]_vars => Typed'
  BY TypedStep
<1>3. QED
  BY <1>1, <1>2, PTL DEF Spec

--------------------------------------------------------------------------------
\* Each step of the server is a step of PeerChannel, or leaves its variables alone.
LEMMA StepRefinement ==
  ASSUME Typed, [Next]_vars
  PROVE  [PC!Next]_(PC!vars)
<1> SUFFICES PC!Next \/ UNCHANGED channelVars
  BY DEF channelVars, PC!vars, PC!stores, PC!keystores
<1>1. ASSUME NEW h \in Handlers, GetDecryptedParcel(h)
      PROVE  PC!Next \/ UNCHANGED channelVars
  <2>1. handlers[h].parcel \in Parcels
    BY <1>1 DEF GetDecryptedParcel, Typed, HandlersTyped
  <2>2. QED
    BY <1>1, <2>1 DEF GetDecryptedParcel, PC!Next
<1>2. ASSUME NEW h \in Handlers, SaveChannelStep(h) \/ SaveChannelThrows(h)
      PROVE  PC!Next
  BY <1>2 DEF SaveChannelStep, SaveChannelThrows, PC!Next, PC!SaveStep
<1>3. ASSUME NEW h \in Handlers, HandlerStep(h) \/ HandlerFault(h)
      PROVE  PC!Next \/ UNCHANGED channelVars
  BY <1>1, <1>2, <1>3
     DEF HandlerStep, HandlerFault, DeserializeParcel, IsMessageValid, CreateOrUpdateChannel,
         PublishIncomingServiceMessage, Reply, DecryptionThrows, PublishThrows, ConnectionLost
<1>4. CASE ServerCrash
  BY <1>4 DEF ServerCrash, PC!Next
<1>5. ASSUME NEW q \in Params, AuthExpires(q)
      PROVE  PC!Next
  BY <1>5 DEF AuthExpires, PC!Next
<1>6. QED
  BY <1>3, <1>4, <1>5 DEF Next, Deliver, ParcelExpires, vars, channelVars

\* Whatever the server does to the stores, also when it fails or crashes with
\* several parcels in progress, is what calls of saveChannel do.
THEOREM Refinement == Spec => ImplementsPeerChannel
<1>1. Init => PC!Init
  BY DEF Init
<1>2. Typed /\ [Next]_vars => [PC!Next]_(PC!vars)
  BY StepRefinement
<1>3. QED
  BY <1>1, <1>2, TypedInductive, PTL DEF Spec, ImplementsPeerChannel, PC!Spec

\* PC and PCP instantiate the same definitions of PeerChannel.
LEMMA SameChannel ==
  /\ PC!Init <=> PCP!Init
  /\ [PC!Next]_(PC!vars) <=> [PCP!Next]_(PCP!vars)
BY Zenon DEF PC!Init, PCP!Init, PC!Next, PCP!Next, PC!vars, PCP!vars, PC!stores,
   PCP!stores, PC!keystores, PCP!keystores, PC!KeystoreWrites, PCP!KeystoreWrites,
   PC!NoSave, PCP!NoSave, PC!NoLookup, PCP!NoLookup, PC!SaveChannel, PCP!SaveChannel,
   PC!WriteKeystore, PCP!WriteKeystore, PC!ApplyKeystoreWrite, PCP!ApplyKeystoreWrite,
   PC!ApplyUpsert, PCP!ApplyUpsert, PC!UpsertPeerEndpoint, PCP!UpsertPeerEndpoint,
   PC!SaveThrows, PCP!SaveThrows, PC!RivalsOf, PCP!RivalsOf, PC!SaveStep, PCP!SaveStep,
   PC!GetPeerChannel, PCP!GetPeerChannel, PC!FindPeerEndpoint, PCP!FindPeerEndpoint,
   PC!GetChannel, PCP!GetChannel, PC!UsableAuths, PCP!UsableAuths, PC!LookupThrows,
   PCP!LookupThrows, PC!LookupStep, PCP!LookupStep, PC!Expire, PCP!Expire, PC!ServerCrash,
   PCP!ServerCrash, PC!ClientCrash, PCP!ClientCrash

\* So the invariant of PeerChannel holds of the server's stores.
LEMMA ChannelInvariance == Spec => [](PCP!IInv /\ PCP!Typed)
<1>1. PCP!Spec => []PCP!IInv
  BY PCP!Invariance
<1>2. PCP!Spec => []PCP!Typed
  BY PCP!TypedInductive
<1>3. Spec => PCP!Spec
  BY Refinement, SameChannel, PTL DEF ImplementsPeerChannel, PC!Spec, PCP!Spec
<1>4. QED
  BY <1>1, <1>2, <1>3, PTL

--------------------------------------------------------------------------------
\* What a 202 promises about parcel p.
Processed(p) ==
  /\ p.kind = "service" /\ p \notin undecrypted => published[p] > 0
  /\ /\ p.kind = "pda" /\ p \notin undecrypted \cup unsaved /\ p.params \notin BadParams \cup expired
     => p.params \in deliveryAuths /\ peerEndpoints[p.params.peerId] # NoAddress

\* What a 400 or a 403 says of it.
Unacceptable(p) == p.kind \in {"malformed", "invalid"} \/ p \in expiredParcels

\* A call of saveChannel that the handler h awaits is about its parcel.
Saving(h, p) ==
  /\ p.kind = "pda"
  /\ saves[h].step # "idle" /\ saves[h].params = p.params
  /\ saves[h].step = "thrown" => p \in unsaved \/ p.params \in BadParams \cup expired

\* A handler is where it is because of its parcel, and its answer is justified
\* before it is sent.
JustifiedAt(h) ==
  LET p == handlers[h].parcel
  IN  /\ handlers[h].step = "saveChannel" => Saving(h, p)
      /\ handlers[h].step = "publish" => p.kind = "service"
      /\ handlers[h].step = "reply" /\ handlers[h].status = 202 => Processed(p)
      /\ handlers[h].step = "reply" /\ handlers[h].status \in {400, 403} => Unacceptable(p)

Justified == \A h \in Handlers : JustifiedAt(h)

Told ==
  \A p \in Parcels :
    /\ gateway[p] = "accepted" => Processed(p)
    /\ gateway[p] = "refused" => Unacceptable(p)

IInv == Typed /\ PCP!IInv /\ PCP!Typed /\ Justified /\ Told

HistoryGrows ==
  /\ expired \subseteq expired' /\ expiredParcels \subseteq expiredParcels'
  /\ undecrypted \subseteq undecrypted' /\ unsaved \subseteq unsaved'
  /\ \A p \in Parcels : published[p] > 0 => published'[p] > 0

\* Events are not taken back, and what has expired or failed stays so.
LEMMA HistoryOnlyGrows ==
  ASSUME Typed, [Next]_vars
  PROVE  HistoryGrows
<1> USE DEF HistoryGrows
<1>1. ASSUME NEW h \in Handlers, HandlerStep(h) \/ HandlerFault(h)
      PROVE  HistoryGrows
  <2>1. CASE PublishIncomingServiceMessage(h) \/ PublishThrows(h)
    BY <2>1 DEF PublishIncomingServiceMessage, PublishThrows, Emit, Typed, channelVars
  <2>2. CASE GetDecryptedParcel(h) \/ SaveChannelStep(h) \/ SaveChannelThrows(h)
    BY <2>2 DEF GetDecryptedParcel, SaveChannelStep, SaveChannelThrows, channelVars, PC!SaveChannel,
                PC!WriteKeystore, PC!UpsertPeerEndpoint, PC!SaveThrows
  <2>3. QED
    BY <1>1, <2>1, <2>2
       DEF HandlerStep, HandlerFault, DeserializeParcel, IsMessageValid, CreateOrUpdateChannel,
           Reply, DecryptionThrows, ConnectionLost, channelVars
<1>2. CASE ServerCrash
  BY <1>2 DEF ServerCrash, PC!ServerCrash
<1>3. ASSUME NEW q \in Params, AuthExpires(q)
      PROVE  HistoryGrows
  BY <1>3 DEF AuthExpires, PC!Expire
<1>4. QED
  BY <1>1, <1>2, <1>3 DEF Next, Deliver, ParcelExpires, vars, channelVars

\* What is published or imported stays so, and no parcel gets better.
LEMMA PromisesLast ==
  ASSUME IInv, [Next]_vars, NEW p \in Parcels
  PROVE  /\ Processed(p) => Processed(p)'
         /\ Unacceptable(p) => Unacceptable(p)'
<1>1. PCP!StoresGrow
  <2>1. [PCP!Next]_(PCP!vars)
    BY StepRefinement, SameChannel DEF IInv
  <2>2. QED
    BY <2>1, PCP!StoresOnlyGrow DEF IInv
<1>2. HistoryGrows
  BY HistoryOnlyGrows DEF IInv
<1>3. p.kind = "pda" => p.params \in Params /\ p.params.peerId \in Peers
  OBVIOUS
<1>4. QED
  BY <1>1, <1>2, <1>3 DEF Processed, Unacceptable, PCP!StoresGrow, HistoryGrows

\* A handler that stays where it is stays justified, whatever the others do.
LEMMA JustifiedStays ==
  ASSUME IInv, [Next]_vars, NEW h \in Handlers,
         handlers'[h].step = handlers[h].step, handlers'[h].parcel = handlers[h].parcel,
         handlers'[h].status = handlers[h].status,
         handlers[h].step = "saveChannel" => saves'[h] = saves[h]
  PROVE  JustifiedAt(h)'
<1>1. JustifiedAt(h)
  BY DEF IInv, Justified
<1>2. handlers[h].step # "idle" => handlers[h].parcel \in Parcels
  BY DEF IInv, Typed, HandlersTyped
<1>3. HistoryGrows
  BY HistoryOnlyGrows DEF IInv
<1>4. handlers[h].step = "saveChannel" => Saving(h, handlers[h].parcel)'
  BY <1>1, <1>3 DEF JustifiedAt, Saving, HistoryGrows
<1>5. handlers[h].step = "reply" =>
        LET p == handlers[h].parcel
        IN  /\ Processed(p) => Processed(p)'
            /\ Unacceptable(p) => Unacceptable(p)'
  BY <1>2, PromisesLast
<1>6. QED
  BY <1>1, <1>4, <1>5 DEF JustifiedAt, Processed, Unacceptable, Saving

\* What PeerChannel knows of the calls of saveChannel that handlers make.
LEMMA SavesTyped ==
  ASSUME IInv
  PROVE  saves \in [Handlers -> [step : {"idle", "saving", "returned", "thrown"},
                                 params : Params \cup {NoParams},
                                 pending : SUBSET PCP!KeystoreWrites]]
BY DEF IInv, PCP!Typed, PCP!TypeOK

\* Each step of a handler has in its parcel, or in the failure it meets, the
\* justification of where it goes.
LEMMA JustifiedMoves ==
  ASSUME IInv, [Next]_vars, NEW h \in Handlers, HandlerStep(h) \/ HandlerFault(h)
  PROVE  JustifiedAt(h)'
<1> DEFINE p == handlers[h].parcel
<1> USE DEF IInv, Typed, HandlersTyped, Answer, GoTo
<1>1. JustifiedAt(h)
  BY DEF Justified
<1>2. CASE DeserializeParcel(h)
  BY <1>2 DEF DeserializeParcel, JustifiedAt, Unacceptable
<1>3. CASE IsMessageValid(h)
  BY <1>3 DEF IsMessageValid, JustifiedAt, Unacceptable
<1>4. CASE GetDecryptedParcel(h)
  <2>1. CASE p.kind \in {"garbled", "malformedPda"}
    BY <1>4, <2>1 DEF GetDecryptedParcel, JustifiedAt, Processed
  <2>2. CASE p.kind = "service"
    BY <1>4, <2>2 DEF GetDecryptedParcel, JustifiedAt
  <2>3. CASE p.kind = "pda"
    <3>1. PC!SaveChannel(h, p.params) /\ GoTo(h, "saveChannel")
      BY <1>4, <2>3 DEF GetDecryptedParcel
    <3>2. /\ saves'[h].params = p.params /\ saves'[h].step \in {"saving", "thrown"}
          /\ saves'[h].step = "thrown" => p.params \in BadParams \cup expired'
      BY <3>1, SavesTyped DEF PC!SaveChannel
    <3>3. handlers'[h].step = "saveChannel" /\ handlers'[h].parcel = p
      BY <3>1
    <3>4. QED
      BY <2>3, <3>2, <3>3 DEF JustifiedAt, Saving
  <2>4. QED
    BY <1>4, <2>1, <2>2, <2>3 DEF GetDecryptedParcel
<1>5. CASE SaveChannelStep(h)
  <2>1. /\ saves'[h].params = saves[h].params
        /\ saves[h].step = "saving" /\ saves'[h].step \in {"saving", "returned"}
    BY <1>5, SavesTyped DEF SaveChannelStep, PC!WriteKeystore, PC!UpsertPeerEndpoint
  <2>2. handlers' = handlers /\ handlers[h].step = "saveChannel"
    BY <1>5 DEF SaveChannelStep
  <2>3. QED
    BY <1>1, <2>1, <2>2 DEF JustifiedAt, Saving
<1>6. CASE CreateOrUpdateChannel(h)
  <2>1. Saving(h, p) /\ saves[h].step \in {"returned", "thrown"}
    BY <1>1, <1>6 DEF CreateOrUpdateChannel, JustifiedAt
  <2>2. saves[h].step = "returned" =>
          saves[h].params \in deliveryAuths /\ peerEndpoints[saves[h].params.peerId] # NoAddress
    BY DEF PCP!IInv, PCP!WrittenIsStored, PCP!Wrote
  <2>3. Processed(p)
    BY <2>1, <2>2 DEF Processed, Saving
  <2>4. handlers'[h].step = "reply" /\ handlers'[h].status = 202 /\ handlers'[h].parcel = p
    BY <1>6 DEF CreateOrUpdateChannel
  <2>5. QED
    BY <1>6, <2>3, <2>4 DEF CreateOrUpdateChannel, JustifiedAt, Processed, channelVars
<1>7. CASE PublishIncomingServiceMessage(h)
  BY <1>1, <1>7 DEF PublishIncomingServiceMessage, JustifiedAt, Processed, Emit
<1>8. CASE Reply(h)
  BY <1>8 DEF Reply, JustifiedAt, Idle
<1>9. CASE DecryptionThrows(h)
  BY <1>9 DEF DecryptionThrows, JustifiedAt, Processed
<1>10. CASE SaveChannelThrows(h)
  BY <1>1, <1>10 DEF SaveChannelThrows, JustifiedAt, Saving, PC!SaveThrows
<1>11. CASE PublishThrows(h)
  BY <1>11 DEF PublishThrows, JustifiedAt
<1>12. CASE ConnectionLost(h)
  BY <1>12, JustifiedStays DEF ConnectionLost, channelVars
<1>13. QED
  BY <1>2, <1>3, <1>4, <1>5, <1>6, <1>7, <1>8, <1>9, <1>10, <1>11, <1>12
     DEF HandlerStep, HandlerFault

\* A handler neither moves another nor touches the call of saveChannel it awaits.
LEMMA OthersStay ==
  ASSUME IInv, NEW h \in Handlers, HandlerStep(h) \/ HandlerFault(h),
         NEW k \in Handlers, k # h
  PROVE  handlers'[k] = handlers[k] /\ saves'[k] = saves[k]
<1> USE SavesTyped DEF IInv, Typed, HandlersTyped, Answer, GoTo
<1>1. CASE DeserializeParcel(h) \/ IsMessageValid(h) \/ CreateOrUpdateChannel(h)
             \/ PublishIncomingServiceMessage(h) \/ Reply(h) \/ DecryptionThrows(h)
             \/ PublishThrows(h) \/ ConnectionLost(h)
  BY <1>1 DEF DeserializeParcel, IsMessageValid, CreateOrUpdateChannel,
              PublishIncomingServiceMessage, Reply, DecryptionThrows, PublishThrows,
              ConnectionLost, channelVars
<1>2. CASE GetDecryptedParcel(h)
  BY <1>2 DEF GetDecryptedParcel, channelVars, PC!SaveChannel
<1>3. CASE SaveChannelStep(h) \/ SaveChannelThrows(h)
  BY <1>3 DEF SaveChannelStep, SaveChannelThrows, PC!WriteKeystore, PC!UpsertPeerEndpoint,
              PC!SaveThrows
<1>4. QED
  BY <1>1, <1>2, <1>3 DEF HandlerStep, HandlerFault

\* At every moment each handler can justify where it is.
LEMMA JustifiedStep ==
  ASSUME IInv, [Next]_vars
  PROVE  Justified'
<1> SUFFICES ASSUME NEW k \in Handlers PROVE JustifiedAt(k)'
  BY DEF Justified
<1>1. ASSUME NEW h \in Handlers, HandlerStep(h) \/ HandlerFault(h)
      PROVE  JustifiedAt(k)'
  <2>1. CASE k = h
    BY <1>1, <2>1, JustifiedMoves
  <2>2. CASE k # h
    BY <1>1, <2>2, OthersStay, JustifiedStays
  <2>3. QED
    BY <2>1, <2>2
<1>2. ASSUME NEW p \in Parcels, NEW h \in Handlers, Deliver(p, h)
      PROVE  JustifiedAt(k)'
  <2>1. CASE k = h
    BY <1>2, <2>1 DEF Deliver, JustifiedAt, IInv, Typed, HandlersTyped
  <2>2. CASE k # h
    <3>1. handlers'[k] = handlers[k] /\ saves' = saves
      BY <1>2, <2>2 DEF Deliver, channelVars, IInv, Typed, HandlersTyped
    <3>2. QED
      BY <3>1, JustifiedStays
  <2>3. QED
    BY <2>1, <2>2
<1>3. CASE ServerCrash
  BY <1>3 DEF ServerCrash, JustifiedAt, Idle
<1>4. CASE UNCHANGED <<handlers, saves>>
  BY <1>4, JustifiedStays
<1>5. QED
  BY <1>1, <1>2, <1>3, <1>4 DEF Next, ParcelExpires, AuthExpires, PC!Expire, vars, channelVars

\* A gateway hears only what a handler can justify.
LEMMA ToldStep ==
  ASSUME IInv, [Next]_vars
  PROVE  Told'
<1> SUFFICES ASSUME NEW p \in Parcels
             PROVE  /\ gateway'[p] = "accepted" => Processed(p)'
                    /\ gateway'[p] = "refused" => Unacceptable(p)'
  BY DEF Told, Processed, Unacceptable
<1>1. CASE gateway'[p] = gateway[p]
  BY <1>1, PromisesLast DEF IInv, Told
<1>2. ASSUME NEW h \in Handlers, Reply(h), handlers[h].parcel = p
      PROVE  /\ gateway'[p] = "accepted" => Processed(p)'
             /\ gateway'[p] = "refused" => Unacceptable(p)'
  <2>1. JustifiedAt(h) /\ handlers[h].step = "reply"
    BY <1>2 DEF IInv, Justified, Reply
  <2>2. gateway'[p] # gateway[p] => gateway'[p] = Verdict(handlers[h].status)
    BY <1>2 DEF Reply, IInv, Typed
  <2>3. handlers[h].status \in {202, 400, 403, 500}
    BY <2>1 DEF IInv, Typed, HandlersTyped
  <2>4. CASE gateway'[p] # gateway[p]
    BY <1>2, <2>1, <2>2, <2>3, <2>4, PromisesLast DEF Verdict, JustifiedAt
  <2>5. QED
    BY <1>1, <2>4
<1>3. ASSUME gateway'[p] # gateway[p]
      PROVE  \/ gateway'[p] \in {"queued", "sent"}
             \/ \E h \in Handlers : Reply(h) /\ handlers[h].parcel = p
  <2>1. ASSUME NEW h \in Handlers, Reply(h), handlers[h].parcel # p
        PROVE  gateway'[p] = gateway[p]
    BY <2>1 DEF Reply, IInv, Typed
  <2>2. ASSUME NEW h \in Handlers, ConnectionLost(h)
        PROVE  gateway'[p] \in {"queued", gateway[p]}
    BY <2>2 DEF ConnectionLost, IInv, Typed
  <2>3. ASSUME NEW q \in Parcels, NEW h \in Handlers, Deliver(q, h)
        PROVE  gateway'[p] \in {"sent", gateway[p]}
    BY <2>3 DEF Deliver, IInv, Typed
  <2>4. CASE ServerCrash
    BY <1>3, <2>4 DEF ServerCrash
  <2>5. QED
    BY <1>3, <2>1, <2>2, <2>3, <2>4
       DEF Next, HandlerStep, HandlerFault, DeserializeParcel, IsMessageValid, GetDecryptedParcel,
           SaveChannelStep, CreateOrUpdateChannel, PublishIncomingServiceMessage, DecryptionThrows,
           SaveChannelThrows, PublishThrows, ParcelExpires, AuthExpires, vars
<1>4. QED
  BY <1>1, <1>2, <1>3

\* The invariant: stores as PeerChannel has them, and justified answers.
THEOREM Invariance == Spec => []IInv
<1>1. Init => Justified /\ Told
  BY DEF Init, Justified, JustifiedAt, Told, Idle
<1>2. Typed /\ PCP!IInv /\ PCP!Typed /\ Justified /\ Told /\ [Next]_vars => (Justified /\ Told)'
  BY JustifiedStep, ToldStep DEF IInv
<1>3. Typed /\ PCP!IInv /\ PCP!Typed /\ Justified /\ Told => IInv
  BY DEF IInv
<1>4. QED
  BY <1>1, <1>2, <1>3, TypedInductive, ChannelInvariance, PTL DEF Spec

--------------------------------------------------------------------------------
(* The properties of ParcelDelivery *)

\* No crash, lost connection or failure of the broker makes the server answer 202
\* for a service message that the broker does not have.
THEOREM AcceptedIsPublished == Spec => []AcceptedMeansPublished
<1>1. IInv => AcceptedMeansPublished
  BY DEF IInv, Told, Processed, AcceptedMeansPublished
<1>2. QED
  BY <1>1, Invariance, PTL

\* Nor for connection parameters whose channel is not in the stores, unless a
\* store threw.
THEOREM AcceptedIsImported == Spec => []AcceptedMeansImported
<1>1. IInv => AcceptedMeansImported
  BY DEF IInv, Told, Processed, AcceptedMeansImported
<1>2. QED
  BY <1>1, Invariance, PTL

\* A gateway drops a parcel as refused only if the parcel is to blame.
THEOREM RefusedIsBad == Spec => []RefusedOnlyIfBad
<1>1. IInv => RefusedOnlyIfBad
  BY DEF IInv, Told, Unacceptable, RefusedOnlyIfBad
<1>2. QED
  BY <1>1, Invariance, PTL

\* Every authorisation in the stores came in a parcel.
Imported == \A q \in deliveryAuths : \E p \in Parcels : p.kind = "pda" /\ p.params = q

\* The server stores no authorisation but those of the parcels that are connection
\* parameters, validated and decrypted.
THEOREM ImportsOnlyPdas == Spec => []Imported
<1>1. Init => Imported
  BY DEF Init, PC!Init, Imported
<1>2. ASSUME IInv, Imported, [Next]_vars
      PROVE  Imported'
  <2>1. ASSUME NEW h \in Handlers, SaveChannelStep(h) \/ SaveChannelThrows(h)
        PROVE  Imported'
    <3>1. /\ handlers[h].parcel \in Parcels /\ handlers[h].parcel.kind = "pda"
          /\ saves[h].params = handlers[h].parcel.params
      BY <1>2, <2>1 DEF SaveChannelStep, SaveChannelThrows, IInv, Typed, HandlersTyped, Justified,
                        JustifiedAt, Saving
    <3>2. deliveryAuths' \subseteq deliveryAuths \cup {saves[h].params}
      BY <2>1 DEF SaveChannelStep, SaveChannelThrows, PC!WriteKeystore, PC!ApplyKeystoreWrite,
                  PC!UpsertPeerEndpoint, PC!SaveThrows, PC!stores, PC!keystores
    <3>3. QED
      BY <1>2, <3>1, <3>2 DEF Imported
  <2>2. CASE UNCHANGED deliveryAuths
    BY <1>2, <2>2 DEF Imported
  <2>3. QED
    BY <1>2, <2>1, <2>2
       DEF Next, Deliver, HandlerStep, HandlerFault, DeserializeParcel, IsMessageValid,
           GetDecryptedParcel, CreateOrUpdateChannel, PublishIncomingServiceMessage, Reply,
           DecryptionThrows, PublishThrows, ConnectionLost, ServerCrash, ParcelExpires, AuthExpires,
           PC!SaveChannel, PC!ServerCrash, PC!Expire, PC!stores, PC!keystores, channelVars, vars
<1>3. QED
  BY <1>1, <1>2, Invariance, PTL DEF Spec

--------------------------------------------------------------------------------
(* Duplicates. A parcel may still be published by each handler that works on it, *)
(* and by the one its gateway will deliver it to if it is queued or will be. Each *)
(* of these after the first is paid for by a failure.                            *)

WorkingAt(h, p) ==
  /\ handlers[h].parcel = p
  /\ \/ handlers[h].step \in {"deserialize", "validate", "unwrap", "publish"}
     \/ handlers[h].step = "reply" /\ handlers[h].status = 500 /\ handlers[h].socket = "open"

Working(p) == {h \in Handlers : WorkingAt(h, p)}

One(condition) == IF condition THEN 1 ELSE 0

PaidFor ==
  \A p \in Parcels :
    published[p] + Cardinality(Working(p)) + One(gateway[p] = "queued") <= 1 + interrupted[p]

\* When one handler moves, the number of those that work changes by its own share.
LEMMA WorkingChange ==
  ASSUME NEW h \in Handlers, NEW p \in Parcels,
         \A k \in Handlers \ {h} : WorkingAt(k, p)' <=> WorkingAt(k, p)
  PROVE  /\ Cardinality(Working(p)) \in Nat /\ Cardinality(Working(p))' \in Nat
         /\ Cardinality(Working(p))' = Cardinality(Working(p))
              + One(WorkingAt(h, p)') - One(WorkingAt(h, p))
<1> DEFINE rest == {k \in Handlers \ {h} : WorkingAt(k, p)}
<1>1. IsFiniteSet(rest)
  BY FS_Subset
<1>2. /\ Working(p) = IF WorkingAt(h, p) THEN rest \cup {h} ELSE rest
      /\ Working(p)' = IF WorkingAt(h, p)' THEN rest \cup {h} ELSE rest
  BY DEF Working
<1>3. /\ Cardinality(rest) \in Nat
      /\ Cardinality(rest \cup {h}) = Cardinality(rest) + 1
  BY <1>1, FS_AddElement, FS_CardinalityType
<1>4. QED
  BY <1>2, <1>3 DEF One

\* No step of a handler makes room for a duplicate that no failure pays for.
LEMMA HandlerPays ==
  ASSUME Typed, NEW h \in Handlers, NEW p \in Parcels,
         HandlerStep(h) \/ HandlerFault(h) \/ Deliver(p, h)
  PROVE  published'[p] + One(WorkingAt(h, p)') + One(gateway'[p] = "queued") + interrupted[p]
           <= published[p] + One(WorkingAt(h, p)) + One(gateway[p] = "queued") + interrupted'[p]
<1> DEFINE Pays ==
      published'[p] + One(WorkingAt(h, p)') + One(gateway'[p] = "queued") + interrupted[p]
        <= published[p] + One(WorkingAt(h, p)) + One(gateway[p] = "queued") + interrupted'[p]
<1> USE DEF Typed, HandlersTyped, WorkingAt, One, Answer, GoTo
<1>1. CASE Deliver(p, h)
  BY <1>1 DEF Deliver
<1>2. CASE DeserializeParcel(h) \/ IsMessageValid(h) \/ GetDecryptedParcel(h)
             \/ CreateOrUpdateChannel(h) \/ DecryptionThrows(h)
  <2>1. /\ UNCHANGED <<gateway, published, interrupted>>
        /\ WorkingAt(h, p)' => WorkingAt(h, p)
    BY <1>2 DEF DeserializeParcel, IsMessageValid, GetDecryptedParcel, CreateOrUpdateChannel,
                DecryptionThrows
  <2>2. QED
    BY <2>1
<1>3. CASE SaveChannelStep(h) \/ SaveChannelThrows(h)
  BY <1>3 DEF SaveChannelStep, SaveChannelThrows
<1>4. CASE PublishIncomingServiceMessage(h)
  BY <1>4 DEF PublishIncomingServiceMessage, Emit
<1>5. CASE PublishThrows(h)
  <2>1. CASE handlers[h].socket = "open"
    BY <1>5, <2>1 DEF PublishThrows, Emit
  <2>2. CASE handlers[h].socket = "closed"
    BY <1>5, <2>2 DEF PublishThrows, Emit
  <2>3. QED
    BY <2>1, <2>2
<1>6. CASE Reply(h)
  <2>1. CASE handlers[h].socket = "open" /\ handlers[h].parcel = p /\ handlers[h].status = 500
    <3>1. WorkingAt(h, p) /\ ~WorkingAt(h, p)'
      BY <1>6, <2>1 DEF Reply, Idle
    <3>2. UNCHANGED <<published, interrupted>>
      BY <1>6 DEF Reply
    <3>3. QED
      BY <3>1, <3>2
  <2>2. CASE ~(handlers[h].socket = "open" /\ handlers[h].parcel = p /\ handlers[h].status = 500)
    <3>1. gateway'[p] = "queued" => gateway[p] = "queued"
      BY <1>6, <2>2 DEF Reply, Verdict
    <3>2. ~WorkingAt(h, p)' /\ UNCHANGED <<published, interrupted>>
      BY <1>6 DEF Reply, Idle
    <3>3. QED
      BY <3>1, <3>2
  <2>3. QED
    BY <2>1, <2>2
<1>7. CASE ConnectionLost(h)
  BY <1>7 DEF ConnectionLost
<1>8. QED
  BY <1>1, <1>2, <1>3, <1>4, <1>5, <1>6, <1>7 DEF HandlerStep, HandlerFault

\* PaidFor is inductive.
LEMMA PaidForStep ==
  ASSUME IInv, PaidFor, [Next]_vars
  PROVE  PaidFor'
<1> SUFFICES ASSUME NEW p \in Parcels
             PROVE  published'[p] + Cardinality(Working(p))' + One(gateway'[p] = "queued")
                      <= 1 + interrupted'[p]
  BY DEF PaidFor
<1>1. /\ published[p] \in Nat /\ published'[p] \in Nat
      /\ interrupted[p] \in Nat /\ interrupted'[p] \in Nat
      /\ \A condition \in BOOLEAN : One(condition) \in {0, 1}
  BY TypedStep DEF IInv, Typed, One
<1>2. published[p] + Cardinality(Working(p)) + One(gateway[p] = "queued") <= 1 + interrupted[p]
  BY DEF PaidFor
<1>3. ASSUME NEW h \in Handlers, HandlerStep(h) \/ HandlerFault(h) \/ Deliver(p, h)
      PROVE  published'[p] + Cardinality(Working(p))' + One(gateway'[p] = "queued")
               <= 1 + interrupted'[p]
  <2>1. \A k \in Handlers \ {h} : WorkingAt(k, p)' <=> WorkingAt(k, p)
    <3>1. CASE HandlerStep(h) \/ HandlerFault(h)
      BY <3>1, OthersStay DEF WorkingAt
    <3>2. CASE Deliver(p, h)
      BY <3>2 DEF Deliver, WorkingAt, IInv, Typed, HandlersTyped
    <3>3. QED
      BY <1>3, <3>1, <3>2
  <2>2. /\ Cardinality(Working(p)) \in Nat /\ Cardinality(Working(p))' \in Nat
        /\ Cardinality(Working(p))' = Cardinality(Working(p))
             + One(WorkingAt(h, p)') - One(WorkingAt(h, p))
    BY <2>1, WorkingChange
  <2>3. published'[p] + One(WorkingAt(h, p)') + One(gateway'[p] = "queued") + interrupted[p]
           <= published[p] + One(WorkingAt(h, p)) + One(gateway[p] = "queued") + interrupted'[p]
    BY <1>3, HandlerPays DEF IInv
  <2>4. One(WorkingAt(h, p)) \in {0, 1} /\ One(WorkingAt(h, p)') \in {0, 1}
        /\ One(gateway[p] = "queued") \in {0, 1} /\ One(gateway'[p] = "queued") \in {0, 1}
    BY DEF One
  <2>5. QED
    BY <1>1, <1>2, <2>2, <2>3, <2>4
<1>4. ASSUME NEW q \in Parcels \ {p}, NEW h \in Handlers, Deliver(q, h)
      PROVE  published'[p] + Cardinality(Working(p))' + One(gateway'[p] = "queued")
               <= 1 + interrupted'[p]
  <2>1. \A k \in Handlers : WorkingAt(k, p)' <=> WorkingAt(k, p)
    BY <1>4 DEF Deliver, WorkingAt, IInv, Typed, HandlersTyped
  <2>2. Working(p)' = Working(p)
    BY <2>1 DEF Working
  <2>3. gateway'[p] = gateway[p] /\ UNCHANGED <<published, interrupted>>
    BY <1>4 DEF Deliver, IInv, Typed
  <2>4. QED
    BY <1>2, <2>2, <2>3
<1>5. CASE ServerCrash
  <2>1. Working(p)' = {}
    BY <1>5 DEF ServerCrash, Working, WorkingAt, Idle
  <2>2. Cardinality(Working(p))' = 0
    BY <2>1, FS_EmptySet
  <2>3. Cardinality(Working(p)) \in Nat
    BY FS_Subset, FS_CardinalityType DEF Working
  <2>4. /\ published' = published
        /\ One(gateway'[p] = "queued") + interrupted[p]
             <= One(gateway[p] = "queued") + interrupted'[p]
    BY <1>1, <1>5 DEF ServerCrash, One, IInv, Typed
  <2>5. QED
    BY <1>1, <1>2, <2>2, <2>3, <2>4 DEF One
<1>6. CASE UNCHANGED <<handlers, gateway, published, interrupted>>
  <2>1. Working(p)' = Working(p)
    BY <1>6 DEF Working, WorkingAt
  <2>2. QED
    BY <1>2, <1>6, <2>1
<1>7. QED
  BY <1>3, <1>4, <1>5, <1>6 DEF Next, ParcelExpires, AuthExpires, vars

\* At first each parcel is queued once.
LEMMA InitiallyPaidFor ==
  ASSUME Init
  PROVE  PaidFor
<1> SUFFICES ASSUME NEW p \in Parcels
             PROVE  published[p] + Cardinality(Working(p)) + One(gateway[p] = "queued")
                      <= 1 + interrupted[p]
  BY DEF PaidFor
<1>1. Working(p) = {}
  BY DEF Init, Working, WorkingAt, Idle
<1>2. QED
  BY <1>1, FS_EmptySet DEF Init, One

\* Nothing but a failure that makes a gateway deliver again lets the application
\* get a service message once more.
THEOREM DuplicatesArePaidFor == Spec => []DuplicatesOnlyAfterFailure
<1>1. Init => PaidFor
  BY InitiallyPaidFor
<1>2. IInv /\ PaidFor /\ [Next]_vars => PaidFor'
  BY PaidForStep
<1>3. IInv /\ PaidFor => DuplicatesOnlyAfterFailure
  <2> SUFFICES ASSUME IInv, PaidFor, NEW p \in Parcels
               PROVE  published[p] <= 1 + interrupted[p]
    BY DEF DuplicatesOnlyAfterFailure
  <2>1. Cardinality(Working(p)) \in Nat /\ One(gateway[p] = "queued") \in {0, 1}
    BY FS_Subset, FS_CardinalityType DEF Working, One
  <2>2. QED
    BY <2>1 DEF PaidFor, IInv, Typed
<1>4. QED
  BY <1>1, <1>2, <1>3, Invariance, PTL DEF Spec

--------------------------------------------------------------------------------
\* No gateway retries more often than there are failures.
Bounded ==
  /\ faults \in 0..MaxFaults
  /\ \A p \in Parcels : interrupted[p] <= faults
  /\ expiredParcels \subseteq Parcels /\ undecrypted \subseteq Parcels /\ unsaved \subseteq Parcels

LEMMA BoundedStep ==
  ASSUME Typed, Bounded, [Next]_vars
  PROVE  Bounded'
<1> USE DEF Typed, HandlersTyped, Bounded
<1>1. CASE UNCHANGED <<interrupted, faults>>
  BY <1>1 DEF Next, Deliver, HandlerStep, HandlerFault, DeserializeParcel, IsMessageValid,
              GetDecryptedParcel, SaveChannelStep, CreateOrUpdateChannel, Reply,
              PublishIncomingServiceMessage, DecryptionThrows, SaveChannelThrows, PublishThrows,
              ConnectionLost, ServerCrash, ParcelExpires, AuthExpires, vars
<1>2. ASSUME NEW h \in Handlers, HandlerFault(h)
      PROVE  Bounded'
  <2>1. CASE DecryptionThrows(h)
    BY <2>1 DEF DecryptionThrows, Fault
  <2>2. CASE SaveChannelThrows(h)
    <3>1. handlers[h].parcel \in Parcels
      BY <2>2 DEF SaveChannelThrows
    <3>2. QED
      BY <2>2, <3>1 DEF SaveChannelThrows, Fault
  <2>3. CASE PublishThrows(h)
    BY <2>3 DEF PublishThrows, Fault
  <2>4. CASE ConnectionLost(h)
    BY <2>4 DEF ConnectionLost, Fault
  <2>5. QED
    BY <1>2, <2>1, <2>2, <2>3, <2>4 DEF HandlerFault
<1>3. CASE ServerCrash
  BY <1>3 DEF ServerCrash, Fault
<1>4. QED
  BY <1>1, <1>2, <1>3
     DEF Next, Deliver, HandlerStep, DeserializeParcel, IsMessageValid, GetDecryptedParcel,
         SaveChannelStep, CreateOrUpdateChannel, Reply, PublishIncomingServiceMessage,
         ParcelExpires, AuthExpires, vars

\* The types of the module, whose bound on duplicates follows from what failures
\* pay for.
THEOREM TypeCorrect == Spec => []TypeOK
<1>1. Init => Bounded
  BY DEF Init, Bounded
<1>2. Typed /\ Bounded /\ [Next]_vars => Bounded'
  BY BoundedStep
<1>3. IInv /\ Bounded /\ DuplicatesOnlyAfterFailure => TypeOK
  <2> SUFFICES ASSUME IInv, Bounded, DuplicatesOnlyAfterFailure PROVE TypeOK
    OBVIOUS
  <2>1. PC!TypeOK
    BY DEF IInv, PCP!Typed, PCP!TypeOK, PC!TypeOK, PC!KeystoreWrites, PCP!KeystoreWrites
  <2>2. \A p \in Parcels : interrupted[p] \in 0..MaxFaults /\ published[p] \in 0..MaxFaults + 1
    BY DEF IInv, Typed, Bounded, DuplicatesOnlyAfterFailure
  <2>3. QED
    BY <2>1, <2>2 DEF TypeOK, IInv, Typed, HandlersTyped, Bounded, Steps
<1>4. QED
  BY <1>1, <1>2, <1>3, TypedInductive, Invariance, DuplicatesArePaidFor, PTL DEF Spec

--------------------------------------------------------------------------------
(* The server implements AtLeastOnce. *)

\* A gateway waits for the answer to one delivery of a parcel at most.
OneConnection ==
  \A h \in Handlers :
    handlers[h].socket = "open" =>
      /\ gateway[handlers[h].parcel] = "sent"
      /\ \A k \in Handlers \ {h} :
           handlers[k].socket = "open" => handlers[k].parcel # handlers[h].parcel

LEMMA OneConnectionStep ==
  ASSUME Typed, OneConnection, [Next]_vars
  PROVE  OneConnection'
<1> USE DEF Typed, HandlersTyped
<1>1. CASE /\ gateway' = gateway
           /\ \A k \in Handlers : /\ handlers'[k].socket = handlers[k].socket
                                   /\ handlers'[k].parcel = handlers[k].parcel
  BY <1>1 DEF OneConnection
<1>2. ASSUME NEW p \in Parcels, NEW h \in Handlers, Deliver(p, h)
      PROVE  OneConnection'
  <2>1. \A k \in Handlers \ {h} : handlers[k].socket = "open" => handlers[k].parcel # p
    BY <1>2 DEF Deliver, OneConnection
  <2>2. QED
    BY <1>2, <2>1 DEF Deliver, OneConnection
<1>3. ASSUME NEW h \in Handlers, Reply(h) \/ ConnectionLost(h)
      PROVE  OneConnection'
  <2>1. /\ handlers'[h].socket = "closed"
        /\ \A k \in Handlers \ {h} : handlers'[k] = handlers[k]
    BY <1>3 DEF Reply, ConnectionLost, Idle
  <2>2. \A p \in Parcels :
          \/ gateway'[p] = gateway[p]
          \/ handlers[h].socket = "open" /\ handlers[h].parcel = p
    BY <1>3 DEF Reply, ConnectionLost
  <2>3. QED
    BY <2>1, <2>2 DEF OneConnection
<1>4. CASE ServerCrash
  BY <1>4 DEF ServerCrash, Idle, OneConnection
<1>5. ASSUME NEW h \in Handlers, HandlerStep(h) \/ HandlerFault(h), ~Reply(h), ~ConnectionLost(h)
      PROVE  OneConnection'
  <2>1. \/ UNCHANGED handlers
        \/ \E step \in Steps : GoTo(h, step)
        \/ \E code \in Nat : Answer(h, code)
    BY <1>5 DEF HandlerStep, HandlerFault, DeserializeParcel, IsMessageValid, GetDecryptedParcel,
                SaveChannelStep, CreateOrUpdateChannel, PublishIncomingServiceMessage,
                DecryptionThrows, SaveChannelThrows, PublishThrows, Steps
  <2>2. gateway' = gateway
    BY <1>5 DEF HandlerStep, HandlerFault, DeserializeParcel, IsMessageValid, GetDecryptedParcel,
                SaveChannelStep, CreateOrUpdateChannel, PublishIncomingServiceMessage,
                DecryptionThrows, SaveChannelThrows, PublishThrows
  <2>3. QED
    BY <1>1, <2>1, <2>2 DEF GoTo, Answer
<1>6. QED
  BY <1>1, <1>2, <1>3, <1>4, <1>5 DEF Next, ParcelExpires, AuthExpires, vars

\* The variables of AtLeastOnce.
Kept == {p \in Parcels : gateway[p] \in {"queued", "sent"}}
GivenUp == {p \in Parcels : p.kind # "service"} \cup expiredParcels \cup undecrypted

\* An event is emitted only while a failure or the first delivery pays for it.
LEMMA PublishPasses ==
  ASSUME IInv, PaidFor, OneConnection, NEW h \in Handlers,
         PublishIncomingServiceMessage(h) \/ PublishThrows(h)
  PROVE  [ALO!Next]_(ALO!vars)
<1> DEFINE p == handlers[h].parcel
<1>1. /\ p \in Parcels /\ handlers[h].step = "publish"
      /\ published[p] \in Nat /\ interrupted[p] \in Nat
      /\ published \in [Parcels -> Nat] /\ interrupted \in [Parcels -> Nat]
  BY DEF PublishIncomingServiceMessage, PublishThrows, IInv, Typed, HandlersTyped
<1>2. published[p] <= interrupted[p]
  <2>1. h \in Working(p)
    BY <1>1 DEF Working, WorkingAt
  <2>2. IsFiniteSet(Working(p))
    BY FS_Subset DEF Working
  <2>3. Cardinality(Working(p)) \in Nat /\ Cardinality(Working(p)) # 0
    BY <2>1, <2>2, FS_CardinalityType, FS_EmptySet
  <2>4. published[p] + Cardinality(Working(p)) + One(gateway[p] = "queued") <= 1 + interrupted[p]
    BY <1>1 DEF PaidFor
  <2>5. One(gateway[p] = "queued") \in {0, 1}
    BY DEF One
  <2>6. QED
    BY <1>1, <2>3, <2>4, <2>5
<1>3. UNCHANGED <<Kept, GivenUp>>
  BY DEF PublishIncomingServiceMessage, PublishThrows, Kept, GivenUp
<1>4. \/ published' = [published EXCEPT ![p] = @ + 1]
      \/ published' = published
  BY DEF PublishIncomingServiceMessage, PublishThrows, Emit
<1>5. \/ interrupted' = interrupted
      \/ p \in Kept /\ interrupted' = [interrupted EXCEPT ![p] = @ + 1]
  BY <1>1 DEF PublishIncomingServiceMessage, PublishThrows, OneConnection, Kept
<1>6. ASSUME interrupted' = [interrupted EXCEPT ![p] = @ + 1]
      PROVE  ALO!Fail({p})
  <2>1. \A m \in Parcels : interrupted'[m] = interrupted[m] + (IF m \in {p} THEN 1 ELSE 0)
    BY <1>1, <1>6
  <2>2. QED
    BY <1>1, <1>6, <2>1 DEF ALO!Fail
<1>7. CASE published' = [published EXCEPT ![p] = @ + 1]
  <2>1. ALO!PassOn(p)
    BY <1>2, <1>3, <1>5, <1>6, <1>7 DEF ALO!PassOn, Kept, GivenUp
  <2>2. QED
    BY <1>1, <2>1 DEF ALO!Next
<1>8. CASE published' = published
  <2>1. CASE interrupted' = interrupted
    BY <1>3, <1>8, <2>1 DEF ALO!vars, Kept, GivenUp
  <2>2. CASE p \in Kept /\ interrupted' = [interrupted EXCEPT ![p] = @ + 1]
    BY <1>3, <1>6, <1>8, <2>2 DEF ALO!Next, ALO!Interrupt, Kept, GivenUp
  <2>3. QED
    BY <1>5, <2>1, <2>2
<1>9. QED
  BY <1>4, <1>7, <1>8

\* A gateway lets go of a parcel only when it hears so, and rightly.
LEMMA ReplyForgets ==
  ASSUME IInv, Told', OneConnection, NEW h \in Handlers, Reply(h)
  PROVE  [ALO!Next]_(ALO!vars)
<1>1. PICK p \in Parcels : p = handlers[h].parcel
  BY DEF Reply, IInv, Typed, HandlersTyped
<1>2. gateway \in [Parcels -> {"queued", "sent", "accepted", "refused"}]
  BY DEF IInv, Typed
<1>3. UNCHANGED <<GivenUp, published, interrupted>>
  BY DEF Reply, GivenUp
<1>4. CASE gateway'[p] \in {"queued", "sent"} \/ handlers[h].socket # "open"
  <2>1. UNCHANGED <<Kept, GivenUp, published, interrupted>>
    <3>1. Kept' = Kept
      BY <1>1, <1>2, <1>4 DEF Reply, Kept, OneConnection
    <3>2. QED
      BY <1>3, <3>1
  <2>2. QED
    BY <2>1 DEF ALO!vars, Kept, GivenUp
<1>5. CASE gateway'[p] \notin {"queued", "sent"} /\ handlers[h].socket = "open"
  <2>1. p \in Kept /\ Kept' = Kept \ {p}
    BY <1>1, <1>2, <1>5 DEF Reply, Kept, OneConnection
  <2>2. gateway'[p] \in {"accepted", "refused"}
    <3>1. handlers[h].status \in {202, 400, 403, 500}
      BY DEF Reply, IInv, Typed, HandlersTyped
    <3>2. QED
      BY <1>1, <1>2, <1>5, <3>1 DEF Reply, Verdict
  <2>3. published[p] > 0 \/ p \in GivenUp
    <3>1. CASE gateway'[p] = "accepted"
      BY <1>1, <1>2, <1>3, <3>1 DEF Told, Processed, GivenUp
    <3>2. CASE gateway'[p] = "refused"
      BY <1>1, <1>2, <1>3, <3>2 DEF Told, Unacceptable, GivenUp
    <3>3. QED
      BY <2>2, <3>1, <3>2
  <2>4. ALO!Forget(p)
    BY <1>3, <2>1, <2>3 DEF ALO!Forget, Kept, GivenUp
  <2>5. QED
    BY <1>1, <1>2, <2>4 DEF ALO!Next
<1>6. QED
  BY <1>4, <1>5

\* Every other failure leaves the parcels where they are and is counted.
LEMMA FailureInterrupts ==
  ASSUME Typed, OneConnection, ServerCrash \/ \E h \in Handlers : ConnectionLost(h)
  PROVE  [ALO!Next]_(ALO!vars)
<1>1. \E messages \in SUBSET Kept : ALO!Fail(messages)
  <2>1. CASE ServerCrash
    <3> DEFINE messages == {p \in Parcels : gateway[p] = "sent"}
    <3>1. messages \in SUBSET Kept
      BY DEF Kept
    <3>2. ALO!Fail(messages)
      BY <2>1 DEF ServerCrash, ALO!Fail
    <3>3. QED
      BY <3>1, <3>2
  <2>2. ASSUME NEW h \in Handlers, ConnectionLost(h)
        PROVE  \E messages \in SUBSET Kept : ALO!Fail(messages)
    <3> DEFINE p == handlers[h].parcel
    <3>1. p \in Kept
      BY <2>2 DEF ConnectionLost, Typed, HandlersTyped, OneConnection, Kept
    <3>2. \A m \in Parcels : interrupted'[m] = interrupted[m] + (IF m \in {p} THEN 1 ELSE 0)
      BY <2>2 DEF ConnectionLost, Typed
    <3>3. ALO!Fail({p})
      BY <2>2, <3>2 DEF ALO!Fail, ConnectionLost, Typed
    <3>4. QED
      BY <3>1, <3>3
  <2>3. QED
    BY <2>1, <2>2
<1>2. UNCHANGED <<Kept, GivenUp, published>>
  <2>1. \A p \in Parcels : gateway'[p] \in {"queued", "sent"} <=> gateway[p] \in {"queued", "sent"}
    BY DEF ServerCrash, ConnectionLost, Typed, HandlersTyped, OneConnection
  <2>2. QED
    BY <2>1 DEF ServerCrash, ConnectionLost, Kept, GivenUp
<1>3. ALO!Interrupt
  BY <1>1, <1>2 DEF ALO!Interrupt, Kept, GivenUp
<1>4. QED
  BY <1>3 DEF ALO!Next

LEMMA PassesOnStep ==
  ASSUME IInv, Told', PaidFor, OneConnection, [Next]_vars
  PROVE  [ALO!Next]_(ALO!vars)
<1>1. CASE UNCHANGED <<Kept, GivenUp, published, interrupted>>
  BY <1>1 DEF ALO!vars, Kept, GivenUp
<1>2. ASSUME NEW p \in Parcels, GivenUp' = GivenUp \cup {p},
             UNCHANGED <<Kept, published, interrupted>>
      PROVE  ALO!Next
  <2>1. ALO!GiveUp(p)
    BY <1>2 DEF ALO!GiveUp, Kept, GivenUp
  <2>2. QED
    BY <2>1 DEF ALO!Next
<1>3. ASSUME NEW p \in Parcels, NEW h \in Handlers, Deliver(p, h)
      PROVE  UNCHANGED <<Kept, GivenUp, published, interrupted>>
  BY <1>3 DEF Deliver, Kept, GivenUp, IInv, Typed
<1>4. ASSUME NEW h \in Handlers, DecryptionThrows(h)
      PROVE  ALO!Next
  <2>1. handlers[h].parcel \in Parcels
    BY <1>4 DEF DecryptionThrows, IInv, Typed, HandlersTyped
  <2>2. GivenUp' = GivenUp \cup {handlers[h].parcel} /\ UNCHANGED <<Kept, published, interrupted>>
    BY <1>4 DEF DecryptionThrows, GivenUp, Kept
  <2>3. QED
    BY <1>2, <2>1, <2>2
<1>5. ASSUME NEW p \in Parcels, ParcelExpires(p)
      PROVE  ALO!Next
  <2>1. GivenUp' = GivenUp \cup {p} /\ UNCHANGED <<Kept, published, interrupted>>
    BY <1>5 DEF ParcelExpires, GivenUp, Kept
  <2>2. QED
    BY <1>2, <2>1
<1>6. CASE UNCHANGED <<gateway, published, expiredParcels, undecrypted, interrupted>>
  BY <1>1, <1>6 DEF Kept, GivenUp
<1>7. ASSUME NEW h \in Handlers, HandlerStep(h) \/ HandlerFault(h)
      PROVE  [ALO!Next]_(ALO!vars)
  BY <1>4, <1>6, <1>7, PublishPasses, ReplyForgets, FailureInterrupts
     DEF HandlerStep, HandlerFault, DeserializeParcel, IsMessageValid, GetDecryptedParcel,
         SaveChannelStep, CreateOrUpdateChannel, SaveChannelThrows, IInv
<1>8. QED
  BY <1>1, <1>3, <1>5, <1>6, <1>7, FailureInterrupts DEF Next, AuthExpires, vars, IInv

\* The server, whatever fails, passes service messages on as AtLeastOnce says: a
\* gateway lets go of one only after it was emitted, or is too late or undecryptable.
THEOREM PassesOn == Spec => PassesOnAtLeastOnce
<1>1. Init => ALO!Init
  BY DEF Init, ALO!Init
<1>2. Init => OneConnection /\ PaidFor
  <2> SUFFICES ASSUME Init PROVE OneConnection /\ PaidFor
    OBVIOUS
  <2>1. OneConnection
    BY DEF Init, Idle, OneConnection
  <2>2. PaidFor
    BY InitiallyPaidFor
  <2>3. QED
    BY <2>1, <2>2
<1>3. IInv /\ PaidFor /\ OneConnection /\ [Next]_vars => PaidFor' /\ OneConnection'
  BY PaidForStep, OneConnectionStep DEF IInv
<1>4. IInv /\ IInv' /\ PaidFor /\ OneConnection /\ [Next]_vars => [ALO!Next]_(ALO!vars)
  BY PassesOnStep DEF IInv
<1>5. QED
  BY <1>1, <1>2, <1>3, <1>4, Invariance, PTL DEF Spec, PassesOnAtLeastOnce, ALO!Spec
================================================================================
