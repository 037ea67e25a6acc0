# A formal model of the Awala Internet Endpoint

This directory specifies the middleware of `src/` in TLA+: the modules model its
components at the grain of their `await`s, TLC checks them on small instances, and TLAPS
proves for instances of any size every invariant that the runs check, the step properties and the
refinements. `PROJECT.json` lists the
runs, which source lines each definition stands for, the hazards and the theorems.

## 1. Inventory

The middleware lets a server-side application exchange messages with the apps on users'
devices ("private endpoints", here *peers*). It is two processes, in pods of their own,
that share a MongoDB database and nothing else:

- the **server** takes parcels that the gateways of the peers POST to it over PoHTTP, and
  publishes the service messages in them as CloudEvents for the application;
- the **client** takes CloudEvents that a broker POSTs to it, and delivers the messages in
  them, as parcels, to the gateways of the peers;

and a **bootstrap** job that makes the endpoint's first session key.

| Component (`src/src/`) | State | Operations | Interacts with |
| --- | --- | --- | --- |
| Channels with peers: `InternetEndpoint.saveChannel`, `getPeerChannel`, `PeerEndpoint` | identity keys, session keys and delivery authorisations in the Awala keystores; the address of each peer's gateway in `PeerEndpoint` | save a channel, look one up | called by the server (save) and the client (look up); MongoDB |
| Parcel delivery: `server/routes/parcelDelivery.routes.ts` | none of its own; the request in progress | POST / | gateways, private key store, `saveChannel`, `Emitter` |
| PoHTTP client: `client/server.ts` | none of its own; the request in progress | POST / | broker, `getOutgoingServiceMessageOptions`, `getPeerChannel`, gateways |
| Outgoing events: `events/outgoingServiceMessage.event.ts` | none: pure | event to parcel options | client |
| Incoming events: `events/incomingServiceMessage.event.ts` | none: pure | parcel to event | server |
| Emitter: `utilities/eventing/Emitter.ts` | the emitter function, made on first use | emit | broker |
| Initial session key and connection parameters: `InternetEndpoint.ts`, `bootstrap.ts`, `server/routes/connectionParams.routes.ts` | the unbound session key in the private key store | make if missing; GET /connection-params.der | private key store |
| KMS provider: `utilities/kms/` | a cached provider | get the provider, import a key | KMS |
| Server lifecycle: `utilities/fastify/`, `utilities/errorHandling.ts` | plugins, the MongoDB connection, the exit code | start, health check, shut down, uncaught exception | Kubernetes, MongoDB |
| Not-found handler, MongoDB options, logging, buffers, WebCrypto engine | none | - | - |

What is hard here is not the code of any one function but what happens between them:

- **Two stores without a transaction.** `saveChannel` writes the keystores and then
  `PeerEndpoint`; each write can fail or be the last one before a crash, two calls for one
  peer can interleave, and `getPeerChannel` reads the same stores in two queries.
- **Retries without memory.** Neither process records what it has done. That no message is
  lost rests on which status each exit of the handler answers, because gateways and
  broker keep or drop a message by that status. That a message comes twice cannot be
  prevented, only limited to retries after a failure.
- **Swallowed errors.** Two `catch` blocks of the server treat every error, also one of the
  database, as a fault of the parcel (see the findings).
- **Dates.** Lifetimes pass through a subtraction of three hours, a truncation to
  seconds and the clocks of other machines.
- **Start and stop**: an emitter made on first use by concurrent calls, a check-then-create at
  bootstrap, a start that fails half-way and leaves the process alive, a probe that depends on
  the database, a shutdown that must not close the database under the requests in progress.
- **Both processes together.** They know of each other only through the stores and the broker:
  an answer may be ready before the authorisation that it needs, and each is pushed events that
  are not for it.

What makes each component correct:

- channels: an address on record means that a whole channel is; a save replaces what was
  there; a lookup returns the peer's own whole channel, `null` only before any save, and
  throws only once every authorisation of the peer has expired;
- parcel delivery: 202 means published or imported; 400 and 403 only for a bad or late
  parcel; every parcel is settled; duplicates only after failures;
- client: 204 means that a gateway took the parcel or refused it; 400 only for what the
  event is; a message reaches its own peer, before its expiry; duplicates only after failures;
- outgoing events: the ttl fits the lifetime, the parcel never outlives the event, nothing
  usable is refused;
- bootstrap: one initial key as long as jobs do not overlap, a job ends well only with a key, and
  whoever asks for the connection parameters gets them in the end;
- lifecycle: no request meets a closed connection, and the server serves in the end;
- all together: a message and the answer to it go all the way.

## 2. Modules

```
                         AwalaEndpoint
                        /             \
AtLeastOnce <== ParcelDelivery     PohttpClient ==> AtLeastOnce
                        \             /      \ EXTENDS
                          PeerChannel         OutgoingEvents <-- OutgoingEventConversion

ServerLifecycle ---- InitialSessionKey, Emitter

TLAPS:  AwalaEndpointProofs ---- ParcelDeliveryProofs, PohttpClientProofs ---- PeerChannelProofs
        OutgoingEventConversionProofs, PohttpClientProofs --> OutgoingEventProofs
        ServerLifecycleProofs
```

Lines are `INSTANCE`s, a double arrow leads to the abstract specification that is implemented.
`MC*` modules give the constants their values; each `.cfg` is one run.

### PeerChannel

`saveChannel` and `getPeerChannel`, called concurrently by `Savers` and `Lookups`.

| TLA+ | code |
| --- | --- |
| `identityKeys`, `sessionKeys` | public key store (the latest session key of each peer) |
| `deliveryAuths` | certificate store: authorisations by their issuer |
| `peerEndpoints` | the `PeerEndpoint` collection, at most one document a peer (unique index) |
| `expired` | authorisations past their expiry date; the stores never return them |
| `saves[s].step`, `.pending` | where the call is: which keystore writes it still has to make |
| `lookups[l].step`, `.address`, `.auth` | where the call is and what it has read |
| `contended` | history: the saves during or after which another call wrote to their peer |

A document of `Params` (`PrivateEndpointConnParams`) stands for its authorisation and
session key too, so `sessionKeys[p] = q` says whose key it is. The library's
`savePrivateEndpointChannel` is external: it refuses invalid and expired documents, then
makes three writes in an order the model leaves open. `SaveThrows` is a store that throws
with or without having applied the write; a crash ends all calls of a process. Lookups and
saves are on different processes, hence `ServerCrash` and `ClientCrash`.

### ParcelDelivery

The server's handler, one action per stretch between two awaits: `DeserializeParcel` (400),
`IsMessageValid` (403), `GetDecryptedParcel`, then either `saveChannel` through the
instance `PC` of `PeerChannel` or `PublishIncomingServiceMessage`, and `Reply`. The kind of a
parcel says at which of these it leaves. `DecryptionThrows`, `SaveChannelThrows` and
`PublishThrows` are the awaits that reject, each with the answer the code gives then (202,
202 and 500). The environment is a gateway a parcel: it forgets the parcel at a final answer,
keeps it at 500, and after `ConnectionLost` delivers it again while the first handler, which
does not notice, goes on. `undecrypted` and `unsaved` are history: the parcels for which
one of the two swallowed errors happened, which the properties have to exempt.

### OutgoingEvents, OutgoingEventConversion

`GetOutgoingServiceMessageOptions` and `GetTtl` as operators over dates in ticks, finer than
the seconds of a ttl, with date-fns' rounding towards zero. `OutgoingEventConversion` makes
one call for each event of `InputEvents` and compares it with what the lifetime must be.

### PohttpClient

The client's handler: `ConvertMessageToEvent` (400), `getPeerChannel` through `PC`,
`GetChannel` (503), `MakeMessage`, `DeliverParcel` (204), `BindingError` (204), `DeliveryFails`
(502), `Reply`. The broker pushes an event until it hears 2xx or 4xx. Meanwhile the server
imports documents (`ServerStep`: all of `saveChannel`, whose failures and crashes are not counted),
authorisations expire and time passes.
A gateway's clock is off by at most `MaxDrift`; it takes a parcel whose creation date is past
and whose expiry is not, under an authorisation that has not expired.

### AtLeastOnce

What the server promises the gateways and the client the broker, in four variables: which messages
their senders still hold (`kept`), how often each was passed on, which need not be
(`givenUp`), and how many failures made each sender retry. A sender lets go of a message only once
it was passed on or given up, and then for good; a message is passed on once more only to make
up for a failure. `ParcelDelivery` implements it with the gateways as senders and the
broker as destination (`PassesOnAtLeastOnce`), `PohttpClient` with the broker as sender and the
gateways as destination (`DeliversAtLeastOnce`): the same promise on both sides of the
application. The two mappings show where they differ in what may be given up: the server gives
up what has expired or could not be decrypted, the client what a gateway refused.

### AwalaEndpoint

Server and client on one set of stores and one broker, each its own module under
`INSTANCE`: where `PohttpClient` alone has a server that imports whatever it likes (`ServerStep`),
here authorisations come in parcels. Each message has two events: the one that
the server emits for it (`MakeIncomingServiceMessageEvent`), which the broker pushes to the client
too because its triggers have no filter (`k8s/pohttp-client.yml`), and the answer of the application
to its sender (`MakeAnswer`, external). Neither is pushed before the server has published the message,
their `cause`. `serverFaults` and `clientFaults` count the failures of each side, and `FaultsBounded`
bounds them together.

### InitialSessionKey, Emitter, ServerLifecycle

| TLA+ | code |
| --- | --- |
| `jobs`, `thrown` | where each run of `bootstrapData` is; whether `makeInitialSessionKey` rejected, so that the exit code is 1 |
| `unboundKeys` | how many keys `retrieveUnboundSessionPublicKey` may find |
| `emitterFunction`, `calls` | `Emitter.emitterFunction`; where each call of `emit` is |
| `phase` | the process: `starting` while `getActive` is awaited, `ready` until it listens, `hung` once either has failed, `serving`, `closing` after SIGTERM, `stopped` |
| `connection`, `activeEndpoint` | what `fastifyMongoose` and `fastifyActiveEndpoint` decorate the instance with |
| `failedProbes`, `database` | failures in a row of the liveness probe; whether MongoDB answers |

`makeFastify` makes the connection without waiting for it and then awaits `getActive`. If that
rejects, or later a plugin or `listen` does, the handler of `uncaughtException` sets the exit code
and nothing more, and the open connection keeps the process alive (`StartThrows`): only the probe ends it. The same handler is why a
bootstrap job that failed exits with 1, once its connection is closed, and is run again. On SIGTERM
a serving process stops listening, finishes its requests and only then runs the `onClose` hook that
closes the connection (`OnClose`; the order is that of Fastify 4.19); a shutdown that takes too
long is a `Crash`. The server's requests are parcels, of which only `emit` is modelled here
(`ParcelDelivery` has the rest), and `GET /connection-params.der`.

### Abstractions

Cryptography is what it lets through: a parcel or payload is valid or is not. Bodies, content
types and log lines are left out. The content type check of both handlers' parsers is part of
Fastify and is left out with the transport. `published` and `accepted` count events per
message, not their order, which nothing in the code keeps. The library relaynet-core, the
broker and the gateways are modelled from how the code uses them and are marked external.

## 3. What the runs check

| Run | Instance | Shows |
| --- | --- | --- |
| `channel_renewal` | 1 peer with two documents (two gateways) and one invalid, 2 saves, 1 lookup | `EndpointBacked`, `SaveTakesEffect`, `ChannelUsable`, `MissingChannelOnlyByExpiry`, `UnknownOnlyBeforeSave` |
| `delivery_retries` | a service message and a PDA, 2 handlers, 2 faults | 202 means published or imported, duplicates only after failures, and the server's changes to the stores are steps of `PeerChannel` |
| `delivery_settled` | five parcels, one of each way to leave the handler, 1 handler, 1 fault, fairness | only bad parcels are refused, every parcel is settled, every service message published |
| `event_conversion` | real seconds, hours and months; expiries around each boundary, half-second ticks | ttl fits the lifetime, the parcel does not outlive the event, only unusable events are refused |
| `client_retries` | 1 event, pushed before its time or after it, 2 handlers, 2 faults, 7 instants, clock drift of 3 hours both ways | 204 means settled, duplicates only after failures, parcels neither taken late nor, once the event is due, from the future |
| `exchange` | 1 peer, its PDA and a message, the answer and the message's own event, 1 handler a process, 1 fault, fairness | the message and its answer go all the way in whatever order they and the PDA are handled; only what is no message for the client is rejected, and the server's own event is; messages to a known peer are settled |
| `exchange_renewal` | 2 peers, PDAs of both, a second PDA of one that has moved to another gateway and whose authorisations may expire, its message and the answer, 2 handlers of the server and 1 of the client, no faults (they are in `channel_renewal`, `client_retries` and `exchange`) | while PDAs are imported in any order and at once, what is delivered is the answer, and it goes to the sender of the message, over an address and under an authorisation that PDAs of that peer brought |
| `server_lifecycle` | 2 parcels, 1 reader of the connection parameters, 2 bootstrap jobs, a probe that ends the container at the second failure, 2 faults, fairness | one key unless jobs overlap, a job ends well only with a key, requests find their stores; the server serves, the events are emitted and the parameters served in the end |

Every action of the modules fires in these runs, and every property is violated by a
plausible mistake in the code: `PROJECT.json` pairs each with a mutant, defined
in the modules next to the definition that it changes.

**Bounds.** Two concurrent calls are enough for every race between two writers or a writer
and a reader: no operation of the code looks at more than one other, and what the stores
keep is per peer. Three documents let an address be set, replaced and refused. `MaxFaults`
is the number of failures of stores, gateways, connections and processes in one behaviour;
two make a retry fail again. `MaxTime` covers an event's whole life and the tolerance before
it. In the clock instances an hour is a tick, to keep them small; the conversion run has the
real ratio. In `exchange` and
`exchange_renewal` time stands still, since lifetimes are the subject of `client_retries`. A
constraint, `OnlyAliceExpires`, leaves out of `exchange_renewal` parcels that expire, which is as if they had
never come, and the end of the other peer's authorisation, which is to stay within reach as the
wrong one.
In `server_lifecycle` two parcels let two calls make the emitter at once and two jobs look for
the key at once; two faults let a retry fail, or an outage come with a failed start.
Handlers are symmetric, and the symmetry is used only where no liveness is checked.

**Deadlock.** Off where the instance really ends: all messages settled and all faults
used. `PeerChannel` has no end and is checked for deadlock.

**Fairness.** `FairSpec` states weak fairness for each handler's steps when nothing fails (the
Node.js event loop resumes what can run, and drivers and libraries time out: `mongo.ts` sets
3 s), and for the gateways and the broker that try again what they still hold. In
`AwalaEndpoint` the broker's is strong: a push may wait for a free member of `ClientHandlers`, which is
a bound of the model and not of the code. In `ServerLifecycle` it is also that Kubernetes restarts
containers and failed jobs (`restartPolicy: OnFailure`) and goes on probing (every 5 s, twice;
`k8s/pohttp-server.yml`), and that outages of MongoDB end. A start in which nothing fails is
assumed to take less than the ten seconds after which the probe would end it: `Probe` does not
count failures while the process is `starting`. Nothing is assumed of faults except that they are
finitely many (`MaxFaults`), nor of when documents and parcels arrive or expire.

### Findings

Four runs check what a document or test says and find that the code does otherwise.

- `delivery_lost_message`: an error of the private key store while a parcel is decrypted is
  taken for an invalid message (`parcelDelivery.routes.ts:64`); the gateway is told 202 and
  the message is gone, although `docs/index.md:31` has the server pass messages on.
- `delivery_lost_pda`: an error of MongoDB in `saveChannel` is taken for invalid parameters
  (`parcelDelivery.routes.ts:88`); the gateway is told 202 and the PDA is not imported, although
  `docs/index.md:21` says that it automatically is.
- `event_past_expiry`: an expiry less than a second before `time` is accepted
  (`outgoingServiceMessage.event.ts:27`); the test at `outgoingServiceMessage.event.spec.ts:180`
  says that it should be refused.
- `client_early_expiry`: the ttl counts from `time` but the parcel from three hours before it
  (`outgoingServiceMessage.event.ts:87`), so that a parcel expires three hours before `expiry`,
  which `docs/integration.md:26` calls the time at which the parcel expires.

## 4. What is proved

Every invariant of the runs, every property of steps and every refinement is a theorem, for instances
of any size. A dash stands for a theorem that no run states.

`PeerChannelProofs`: for any sets of peers, addresses, documents and concurrent calls.

| Theorem | Property |
| --- | --- |
| `TypeCorrect` | `TypeOK` |
| `AddressIsBacked` | `EndpointBacked` |
| `SaveIsLasting` | `SaveTakesEffect` |
| `ChannelIsUsable` | `ChannelUsable` |
| `MissingMeansExpired` | `MissingChannelOnlyByExpiry` |
| `UnknownMeansUnsaved` | `UnknownOnlyBeforeSave` |

`ParcelDeliveryProofs`: for any parcels, documents, finite set of handlers and number of faults.

| Theorem | Property |
| --- | --- |
| `TypeCorrect` | `TypeOK` |
| `Refinement` | `ImplementsPeerChannel` |
| `AcceptedIsPublished` | `AcceptedMeansPublished` |
| `AcceptedIsImported` | `AcceptedMeansImported` |
| `RefusedIsBad` | `RefusedOnlyIfBad` |
| `DuplicatesArePaidFor` | `DuplicatesOnlyAfterFailure` |
| `PassesOn` | `PassesOnAtLeastOnce` |
| `ImportsOnlyPdas` | -: every authorisation in the stores came in a parcel |

`OutgoingEventConversionProofs`: for all dates and any resolution of the clock, length of an hour and
default ttl. The lemmas about the operators are in `OutgoingEventProofs`.

| Theorem | Property |
| --- | --- |
| `TtlFits` | `TtlFitsLifetime` |
| `ParcelDiesFirst` | `NeverOutlivesEvent` |
| `RefusedIsUnusable` | `RefusedOnlyIfUnusable` |

`PohttpClientProofs`: for any events, finite set of handlers, documents, savers, number of faults,
span of time, and any drift of the clocks up to the tolerance.

| Theorem | Property |
| --- | --- |
| `TypeCorrect` | `TypeOK` |
| `Refinement` | -: the client's lookups are `PeerChannel`'s |
| `Acknowledgement` | `AcknowledgedMeansSettled` |
| `Rejection` | -: `RejectedForWhatItIs`, which `exchange` checks for both processes together |
| `Delivery` | -: `DeliveredToThePeer`, which `exchange_renewal` checks for both processes together |
| `DeliversOnlyAcceptable` | -: no gateway takes a parcel for an event that is not the client's |
| `PastForAll` | `NeverFromTheFuture` |
| `InTime` | `NoLateDelivery` |
| `DuplicatesArePaidFor` | `DuplicatesOnlyAfterFailure` |
| `PassesOn` | `DeliversAtLeastOnce` |

`AwalaEndpointProofs`: for both processes together, with any parcels, and so events, and any handlers.

| Theorem | Property |
| --- | --- |
| `ServerRefinement`, `ClientRefinement` | -: each side does as its own module says |
| `Rejection` | `RejectedForWhatItIs` |
| `Delivery` | `DeliveredToThePeer` |
| `Authorised` | `AnswersGoToTheSender` |
| `NeverSentBack` | -: the safety half of `IncomingTurnedDown` |
| `DuplicatesOnEitherSide`, `AtLeastOnceOnEitherSide` | -: what each side promises on its own, it keeps |

`ServerLifecycleProofs`: for any parcels, readers, finite set of jobs, number of faults and patience
of the probe.

| Theorem | Property |
| --- | --- |
| `TypeCorrect` | `TypeOK` |
| `FindTheirStores` | `RequestsFindTheirStores` |
| `OneKey` | `OneInitialKey` |
| `KeyToServe` | `SucceededMeansKey` |

The assumptions are on the constants, and TLC evaluates them on the runs:

- `ParamsAssumption`, `DocumentsAssumption`: a document names a peer and an address, and the "no
  value" constants are none of the values;
- `ParcelsAssumption`: each parcel has one of the kinds, a PDA carries a document, and the set of
  handlers is finite, so that those at work can be counted;
- `TimeAssumption`: seconds and hours have a length, and "no ttl" is no number;
- `EventsAssumption`, `InputAssumption`: the fields of events are of their types, "no options" is no
  options, handlers are finitely many, and the gateways' clocks are off by the tolerance at most;
- `PartsAssumption`: what the server's and the client's modules assume holds of the constants that
  the deployment gives them;
- `LifecycleAssumption`: the probe's threshold is positive, and jobs are finitely many.

### PeerChannel

The inductive invariant `IInv` adds to the properties what they rest on:

- `HasArguments`: a call that is not idle has the arguments it was made with.
- `WrittenIsStored`: what a save has already written is in the stores. `EndpointBacked` is
  not inductive without it: the upsert of the address is safe only because `pending = {}`
  at that point means that the keystores have the rest.
- `UncontendedIsLast`: while no other call wrote to the peer, what a save wrote is what is
  there. This is what `SaveTakesEffect` needs before the save returns.
- `LookupsBacked`: the address a lookup has read stays backed until its second query, and
  after it.

`StoresOnlyGrow` carries the argument: no step deletes from a store, so what was true of
them when a call wrote or read stays true. It is also what a later change to the code, such as
purging stale peers, would break. The two action properties follow from `IInv` and
`LookupChange`, which says by which action a lookup can reach a step.

### ParcelDelivery

`Refinement` maps each step of the server to a step of `PeerChannel` or to none. The theorems of
`PeerChannelProofs` then hold of the server's stores (`ChannelInvariance`), above all
`WrittenIsStored`: a `saveChannel` that returned has stored its document. On top of that,
`IInv` says:

- `Justified`: each handler can justify where it is. It awaits `saveChannel` for its own
  parcel, and a call that threw is on record as such; it publishes service messages only;
  and once it is about to answer 202, 400 or 403 what that answer says is already true.
- `Told`: what a gateway was told is true.

Between the moment a handler makes up its answer and the one the gateway hears it, and forever
after, the other handlers, crashes and expiries go on. `PromisesLast` says that they cannot make an
answer false: events are not taken back, the stores only grow, and parcels get no better.

`DuplicatesOnlyAfterFailure` needs more than the events that were published. `PaidFor` counts, for
each parcel, its events, the handlers that may still publish it or make its gateway retry
(`Working`), and the delivery to come if the gateway holds it; their sum is at most one more than
the failures. A handler's own step never raises it without a failure (`HandlerPays`), and no step
changes the share of two handlers (`WorkingChange`) but the crash, which ends them all. The
bound on `published` in `TypeOK` follows from it.

`PassesOn`, that the server implements `AtLeastOnce`, adds `OneConnection`: of the handlers of one
parcel, at most one still has its connection, and only while the gateway waits for an answer. So a
failure always strikes a parcel that its gateway holds. The steps map one by one: an event is emitted only
while `PaidFor` leaves room for it (`PublishPasses`); a gateway lets go of a parcel only on an answer
that `Told` says is true, so that the parcel was passed on or given up (`ReplyForgets`); lost
connections and crashes are counted once for each parcel they interrupt (`FailureInterrupts`).

`ImportsOnlyPdas` adds to `IInv` that the authorisations are those of parcels: a handler saves its own
parcel's document, and validated it first.

### OutgoingEvents

All bounds come down to one fact about the division of integers (`DivisionBounds`).
`DifferenceBounds` draws from it what truncation towards zero means on either side of zero: a
difference is negative only from a whole second on. `TtlBounds` says that a ttl is the longest one
the lifetime has room for, and `ParcelExpiryBound` how early a parcel expires: by the tolerance,
but for the part of a second that the finding `event_past_expiry` is about. So it never outlives its
event, since the tolerance is longer than a second (`ToleranceCoversRounding`).
`OutgoingEventConversion` and `PohttpClient` both use these lemmas.

### PohttpClient

`Refinement` maps each step to one of `PeerChannel`, with the handlers as lookups and the server
among the savers, so that `PeerChannel`'s invariants hold while the server writes. On top of that `IInv` says:

- `JustifiedAt(h)`: where a handler is, its event and its lookup agree; one that delivers has found a
  channel of the peer that its event names, and an answer of 204 or 400 is true before it is sent.
- `Told`: what the broker was told is true; `PromisesLast` says that it stays so.
- `DeliveredToThePeer` itself, which `LookupsBacked` of `PeerChannel` makes inductive: address and
  authorisation were read in two queries, with the server at work in between, and two more awaits
  pass before they are used.

`InTime` and `PastForAll` join the bounds of `OutgoingEventProofs` with the drift of the clocks. The
three hours that the creation date is set back serve both ends of a parcel's life where a gateway's
clock is slow: the creation date is past for it all the same, and the parcel has expired for it once
the event has. That no clock is off by more is all they assume of the clocks. The client does
not look at whether an event is due, so that `NeverFromTheFuture` speaks of those that are.

`DuplicatesArePaidFor` and `PassesOn` follow the arguments of `ParcelDelivery`, and find the same
invariants in the client (`PaidFor`, `OneConnection`). What is different is that the client may be pushed
an event again for no failure at all, when the peer is not known yet. A handler that
answers 503 has delivered nothing, so that it only hands its share of `PaidFor` on to the push that follows.

### AwalaEndpoint

`ServerRefinement` and `ClientRefinement` show that each step of the deployment is, for each side, one
of its own module or a stutter. For the server that is a matter of variables: `ClientLeavesServer`.
For the client it is not, since the stores are shared: `SaveRefinement` shows that what a
server's handler does to them is a step of `saveChannel` that `PohttpClient` foresees, for which the
server's own types are needed (`SP!Typed`: the document of a PDA is a document). So
`ServerRefinement` comes first. Then the theorems of both modules hold of the deployment. `Authorised` joins
`Delivery` and `DeliversOnlyAcceptable` of the client with `ImportsOnlyPdas` of the server, which
neither of them could state alone: what is acceptable to the client is none of the server's events but
the answer to a message (`AcceptableIsAnswer`), its subject is the sender of that message, and the
channel of a subject comes from PDAs of the subject.

### ServerLifecycle

`FindTheirStores` rests on `Phased`: requests are in progress only while the process serves or is
closing, and in those phases it has its endpoint and its connection. The step that could break it is the
end of the process, in `TerminatePhased`: it closes the connection at once only if the process does not
serve yet. `OneKey` and `KeyToServe` share the invariant `Bootstrapped`: unless jobs have
overlapped, the one at work generates a key only while there is none (`Alone`), and a job that is about
to close its connection without having thrown has seen a key or made one (`WellEnded`).
`SucceededMeansKey` needs no exemption for jobs that overlap, because no step takes a key away.

`TypeOK` holds two bounds that are no mere types. A container that is still probed has failed fewer
probes than the threshold (`ProbesBounded`). And there are never more keys than jobs, although each may
be retried without end: `KeysBounded` counts the keys and the jobs that are about to make one, and
a job comes to that point only while there is no key at all.

### Only model-checked

What must happen in the end: `EveryParcelSettled`, `ServiceMessagePublished`, `MessageSettled`,
`RoundTrip`, `IncomingTurnedDown`, `ServesInTheEnd`, `EventsEmitted` and `ConnectionParamsServed`.
Liveness under fairness is out of the prover's reach. So are the four findings, which are
counterexamples.

## 5. What is not modelled

- The cache of the KMS provider and the race in its comment (`kms/provider.ts:12`): each process
  asks for the provider once, in `getActive`, before it takes requests.
- `uncaughtException` while the server serves: errors of the handlers are rejections that
  Fastify answers with 500, so that nothing of this code raises one then.
- Two replicas of the server: they share the stores and the broker only, as two handlers of
  `ParcelDelivery` do.
- A write that a dead process had sent takes effect at once or never: the bootstrap job's first
  look at the store after a restart comes ten seconds later (`k8s/bootstrap-job.yml`).
- Contents and content types of messages: copied without a decision.
- Routing of unknown paths, options of MongoDB, logging and helpers, which have no state or
  decisions of their own; the doubles of the functional tests.

## 6. Plan

Done: the modules above, in this order: `PeerChannel`, `ParcelDelivery`, `OutgoingEvents`,
`PohttpClient`, `AtLeastOnce`, `InitialSessionKey` and `Emitter` under `ServerLifecycle`,
`AwalaEndpoint`.

Proofs, in the order in which they build on each other: `PeerChannelProofs`, `ParcelDeliveryProofs`,
`OutgoingEventProofs`, `PohttpClientProofs`, `AwalaEndpointProofs`; `ServerLifecycleProofs` on its own.

To come: what is within the prover's reach of the properties that must happen in the end, namely that each
step of a handler brings it nearer to its answer (a measure that only faults and new
requests may raise), from which termination follows under the fairness that TLC uses; the
other properties of `ParcelDelivery` and `PohttpClient` restated for `AwalaEndpoint`.
