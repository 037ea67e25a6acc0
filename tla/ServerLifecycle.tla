----------------------------- MODULE ServerLifecycle -----------------------------
(* The process of the server, from the start of its container to its end: the   *)
(* plugins in their order, the health check and the probe that relies on it,    *)
(* the graceful shutdown, and the requests that come meanwhile: parcels, whose  *)
(* service messages are emitted, and GET /connection-params.der, which needs    *)
(* the key that a bootstrap job makes.                                          *)
EXTENDS Naturals, FiniteSets

CONSTANTS
  Parcels,           \* parcels whose gateways deliver them until they are taken
  Readers,           \* who asks for the connection parameters until they are served
  Jobs,              \* runs of the bootstrap job
  FailureThreshold,  \* of the probe: failures in a row that end the container
  MaxFaults          \* bound: outages, errors, signals and crashes

ASSUME LifecycleAssumption ==
  FailureThreshold \in Nat \ {0} /\ MaxFaults \in Nat /\ IsFiniteSet(Jobs)

VARIABLES
  phase,           \* of the server's process
  connection,      \* its connection to MongoDB
  activeEndpoint,  \* whether the Fastify instance has been decorated with it
  failedProbes,    \* failures in a row
  database,        \* "up" or "down"
  reads,           \* the requests for the connection parameters
  faults,
  emitterFunction, calls, jobs, thrown, unboundKeys, overlapped

K == INSTANCE InitialSessionKey
E == INSTANCE Emitter WITH Calls <- Parcels

serverVars == <<phase, connection, activeEndpoint, failedProbes>>
emitterVars == <<emitterFunction, calls>>
keyVars == <<jobs, thrown, unboundKeys, overlapped>>
vars == <<serverVars, database, reads, faults, emitterVars, keyVars>>

--------------------------------------------------------------------------------
TypeOK ==
  /\ phase \in {"stopped", "starting", "hung", "ready", "serving", "closing"}
  /\ connection \in {"open", "closed"}
  /\ activeEndpoint \in BOOLEAN
  /\ failedProbes \in 0..FailureThreshold
  /\ database \in {"up", "down"}
  /\ reads \in [Readers -> {"waiting", "handling", "served"}]
  /\ faults \in 0..MaxFaults
  /\ E!TypeOK
  /\ K!TypeOK

Init ==
  /\ phase = "stopped"
  /\ connection = "closed"
  /\ activeEndpoint = FALSE
  /\ failedProbes = 0
  /\ database = "up"
  /\ reads = [r \in Readers |-> "waiting"]
  /\ faults = 0
  /\ E!Init
  /\ K!Init

Fault == faults < MaxFaults /\ faults' = faults + 1

\* A query throws for no lasting reason, or because the database is down.
QueryThrows == Fault \/ (database = "down" /\ UNCHANGED faults)

InProgress == E!InProgress \cup {r \in Readers : reads[r] = "handling"}

--------------------------------------------------------------------------------
(* Start *)

\* The connection is made without waiting for the database.
FastifyMongoose == connection' = "open"

\* makeFastify, up to getActive.
Start ==
  /\ phase = "stopped"
  /\ phase' = "starting"
  /\ FastifyMongoose
  /\ activeEndpoint' = FALSE
  /\ failedProbes' = 0
  /\ UNCHANGED <<database, reads, faults, emitterVars, keyVars>>

\* fastifyActiveEndpoint: getActive asks the KMS.
FastifyActiveEndpoint ==
  /\ phase = "starting"
  /\ activeEndpoint' = TRUE
  /\ phase' = "ready"
  /\ UNCHANGED <<connection, failedProbes, database, reads, faults, emitterVars, keyVars>>

\* The KMS throws, or later a plugin or listen does: uncaughtException sets the
\* exit code, and the open connection keeps the process alive although it will
\* never listen.
StartThrows ==
  /\ phase \in {"starting", "ready"}
  /\ phase' = "hung"
  /\ Fault
  /\ UNCHANGED <<connection, activeEndpoint, failedProbes, database, reads, emitterVars, keyVars>>

\* The routes are registered and the server listens.
RunFastify ==
  /\ phase = "ready"
  /\ phase' = "serving"
  /\ UNCHANGED <<connection, activeEndpoint, failedProbes, database, reads, faults, emitterVars,
                 keyVars>>

--------------------------------------------------------------------------------
(* Probe and end *)

DatabaseAnswers == connection = "open" /\ database = "up"

\* Mutant: the answers are mixed up.
HealthCheckInverted == ~DatabaseAnswers

\* GET / answers 200 if the database answers a ping, and 503 otherwise.
HealthCheck == DatabaseAnswers

\* Mutant: the connection is closed in preClose, ahead of the requests.
TerminateAtOnce ==
  /\ phase' = IF phase = "serving" THEN "closing" ELSE "stopped"
  /\ connection' = "closed"
  /\ UNCHANGED <<activeEndpoint, emitterFunction>>

\* SIGTERM. A server that listens first finishes what is in progress.
Terminate ==
  /\ phase' = IF phase = "serving" THEN "closing" ELSE "stopped"
  /\ connection' = IF phase = "serving" THEN connection ELSE "closed"
  /\ UNCHANGED <<activeEndpoint, emitterFunction>>

\* A start that nothing disturbs ends well before enough probes have failed.
Probe ==
  /\ phase \in {"hung", "serving"}
  /\ IF phase = "serving" /\ HealthCheck
     THEN failedProbes' = 0 /\ UNCHANGED <<phase, connection, activeEndpoint, emitterFunction>>
     ELSE /\ failedProbes' = failedProbes + 1
          /\ IF failedProbes' = FailureThreshold
             THEN Terminate
             ELSE UNCHANGED <<phase, connection, activeEndpoint, emitterFunction>>
  /\ UNCHANGED <<database, reads, faults, calls, keyVars>>

\* A new revision, or fewer replicas.
Sigterm ==
  /\ phase \in {"starting", "hung", "ready", "serving"}
  /\ Terminate
  /\ Fault
  /\ UNCHANGED <<failedProbes, database, reads, calls, keyVars>>

Exit ==
  /\ phase' = "stopped"
  /\ connection' = "closed"
  /\ reads' = [r \in Readers |-> IF reads[r] = "handling" THEN "waiting" ELSE reads[r]]
  /\ E!Exit
  /\ UNCHANGED <<activeEndpoint, failedProbes, database, keyVars>>

\* The server is closed once it has answered; then the onClose hooks run.
OnClose ==
  /\ phase = "closing" /\ InProgress = {}
  /\ Exit
  /\ UNCHANGED faults

\* The process dies, or what is in progress takes longer than the shutdown may.
Crash ==
  /\ phase # "stopped"
  /\ Exit
  /\ Fault

DatabaseFails ==
  /\ database = "up"
  /\ database' = "down"
  /\ Fault
  /\ UNCHANGED <<serverVars, reads, emitterVars, keyVars>>

DatabaseRecovers ==
  /\ database = "down"
  /\ database' = "up"
  /\ UNCHANGED <<serverVars, reads, faults, emitterVars, keyVars>>

--------------------------------------------------------------------------------
(* Requests and jobs *)

DeliverParcel(p) ==
  /\ phase = "serving"
  /\ E!Emit(p)
  /\ UNCHANGED <<serverVars, database, reads, faults, keyVars>>

EmitStep(p) ==
  /\ E!MakeEmitter(p) \/ E!Send(p)
  /\ UNCHANGED <<serverVars, database, reads, faults, keyVars>>

EmitThrows(p) ==
  /\ E!MakeEmitterThrows(p) \/ E!SendThrows(p)
  /\ Fault
  /\ UNCHANGED <<serverVars, database, reads, keyVars>>

AskConnectionParams(r) ==
  /\ phase = "serving" /\ reads[r] = "waiting"
  /\ reads' = [reads EXCEPT ![r] = "handling"]
  /\ UNCHANGED <<serverVars, database, faults, emitterVars, keyVars>>

\* retrieveInitialSessionKey throws as long as there is no key: 500.
GetConnectionParams(r) ==
  /\ reads[r] = "handling" /\ DatabaseAnswers
  /\ reads' = [reads EXCEPT ![r] = IF unboundKeys > 0 THEN "served" ELSE "waiting"]
  /\ UNCHANGED <<serverVars, database, faults, emitterVars, keyVars>>

GetConnectionParamsThrows(r) ==
  /\ reads[r] = "handling"
  /\ reads' = [reads EXCEPT ![r] = "waiting"]
  /\ QueryThrows
  /\ UNCHANGED <<serverVars, database, emitterVars, keyVars>>

JobStep(j) ==
  /\ jobs[j] \in {"retrieveUnbound", "generate"} => database = "up"
  /\ K!JobStep(j)
  /\ UNCHANGED <<serverVars, database, reads, faults, emitterVars>>

JobFails(j) ==
  /\ \/ K!JobThrows(j) /\ (IF jobs[j] = "getActive" THEN Fault ELSE QueryThrows)
     \/ K!JobDies(j) /\ Fault
  /\ UNCHANGED <<serverVars, database, reads, emitterVars>>

ServerStep == Start \/ FastifyActiveEndpoint \/ RunFastify \/ OnClose

Next ==
  \/ ServerStep \/ StartThrows
  \/ Probe \/ Sigterm \/ Crash
  \/ DatabaseFails \/ DatabaseRecovers
  \/ \E p \in Parcels : DeliverParcel(p) \/ EmitStep(p) \/ EmitThrows(p)
  \/ \E r \in Readers :
       AskConnectionParams(r) \/ GetConnectionParams(r) \/ GetConnectionParamsThrows(r)
  \/ \E j \in Jobs : JobStep(j) \/ JobFails(j)

Spec == Init /\ [][Next]_vars

\* Kubernetes restarts containers and jobs and goes on probing, outages end, what
\* can run does run, and callers try again.
FairSpec ==
  /\ Spec
  /\ WF_vars(ServerStep) /\ WF_vars(Probe) /\ WF_vars(DatabaseRecovers)
  /\ \A p \in Parcels : WF_vars(DeliverParcel(p)) /\ WF_vars(EmitStep(p))
  /\ \A r \in Readers :
       WF_vars(AskConnectionParams(r))
       /\ WF_vars(GetConnectionParams(r) \/ GetConnectionParamsThrows(r))
  /\ \A j \in Jobs : WF_vars(JobStep(j))

--------------------------------------------------------------------------------
(* Properties *)

\* No request is handled without the active endpoint, or by a server that has
\* closed its connection: a shutdown never makes a store throw on a parcel, which
\* would be answered 202 and lost.
RequestsFindTheirStores == InProgress # {} => connection = "open" /\ activeEndpoint

OneInitialKey == K!OneInitialKey
SucceededMeansKey == K!SucceededMeansKey

\* Failures being finite, the server serves in the end and goes on serving: a start
\* that failed half-way does not last, nor do restarts outlast an outage.
ServesInTheEnd == <>[](phase = "serving")

\* An emitter that could not be made when it was first needed, or twice at once,
\* keeps no event from being emitted in the end.
EventsEmitted == \A p \in Parcels : <>(calls[p] = "emitted")

\* Whoever asks for the connection parameters before the bootstrap job has made the
\* key, or while it fails and is retried, gets them in the end.
ConnectionParamsServed == \A r \in Readers : <>(reads[r] = "served")
================================================================================
