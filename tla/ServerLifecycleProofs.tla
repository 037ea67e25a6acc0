-------------------------- MODULE ServerLifecycleProofs --------------------------
(* What ServerLifecycle promises of the server and of the bootstrap jobs, for   *)
(* any number of parcels, readers, jobs and faults.                             *)
EXTENDS ServerLifecycle, FiniteSetTheorems, TLAPS

--------------------------------------------------------------------------------
(* The requests and the server *)

\* Requests are in progress only in a server that listens or is closing, and such a
\* server has its endpoint and keeps its connection.
Phased ==
  /\ phase \in {"starting", "hung", "ready", "serving", "closing"} => connection = "open"
  /\ phase \in {"ready", "serving", "closing"} => activeEndpoint
  /\ InProgress # {} => phase \in {"serving", "closing"}

LEMMA InitiallyPhased == Init => Phased
BY DEF Init, E!Init, Phased, InProgress, E!InProgress

\* Terminate closes the connection of a server that does not listen, and leaves
\* one that does to finish what is in progress.
LEMMA TerminatePhased ==
  ASSUME Phased, Terminate, phase \in {"starting", "hung", "ready", "serving"},
         UNCHANGED <<reads, calls>>
  PROVE  Phased'
<1>1. InProgress' = InProgress
  BY DEF InProgress, E!InProgress
<1>2. QED
  BY <1>1 DEF Phased, Terminate

LEMMA PhasedStep == Phased /\ [Next]_vars => Phased'
<1> SUFFICES ASSUME Phased, [Next]_vars
             PROVE  Phased'
  OBVIOUS
<1>1. CASE UNCHANGED <<phase, connection, activeEndpoint, reads, calls>>
  BY <1>1 DEF Phased, InProgress, E!InProgress
<1>2. ASSUME phase = "serving", UNCHANGED <<phase, connection, activeEndpoint>>
      PROVE  Phased'
  BY <1>2 DEF Phased
<1>3. ASSUME InProgress # {}, UNCHANGED <<phase, connection, activeEndpoint>>
      PROVE  Phased'
  BY <1>3 DEF Phased
<1>4. CASE Start \/ FastifyActiveEndpoint \/ RunFastify \/ StartThrows
  <2>1. InProgress' = InProgress
    BY <1>4 DEF Start, FastifyActiveEndpoint, RunFastify, StartThrows, emitterVars, InProgress,
                E!InProgress
  <2>2. QED
    BY <1>4, <2>1 DEF Phased, Start, FastifyMongoose, FastifyActiveEndpoint, RunFastify,
                      StartThrows, emitterVars
<1>5. CASE Probe
  <2>1. UNCHANGED <<reads, calls>> /\ phase \in {"hung", "serving"}
    BY <1>5 DEF Probe
  <2>2. \/ UNCHANGED <<phase, connection, activeEndpoint>>
        \/ Terminate
    BY <1>5 DEF Probe
  <2>3. QED
    BY <1>1, <2>1, <2>2, TerminatePhased
<1>6. CASE Sigterm
  BY <1>6, TerminatePhased DEF Sigterm
<1>7. CASE OnClose \/ Crash
  <2>1. InProgress' = {} /\ phase' = "stopped"
    BY <1>7 DEF OnClose, Crash, Exit, E!Exit, InProgress, E!InProgress
  <2>2. QED
    BY <2>1 DEF Phased
<1>8. CASE DatabaseFails \/ DatabaseRecovers
  BY <1>1, <1>8 DEF DatabaseFails, DatabaseRecovers, serverVars, emitterVars
<1>9. ASSUME NEW p \in Parcels, DeliverParcel(p) \/ EmitStep(p) \/ EmitThrows(p)
      PROVE  Phased'
  <2>1. UNCHANGED <<phase, connection, activeEndpoint>>
    BY <1>9 DEF DeliverParcel, EmitStep, EmitThrows, serverVars
  <2>2. phase = "serving" \/ p \in InProgress
    BY <1>9 DEF DeliverParcel, EmitStep, EmitThrows, E!MakeEmitter, E!Send, E!MakeEmitterThrows,
                E!SendThrows, InProgress, E!InProgress
  <2>3. QED
    BY <1>2, <1>3, <2>1, <2>2
<1>10. ASSUME NEW r \in Readers,
              AskConnectionParams(r) \/ GetConnectionParams(r) \/ GetConnectionParamsThrows(r)
       PROVE  Phased'
  <2>1. UNCHANGED <<phase, connection, activeEndpoint>>
    BY <1>10 DEF AskConnectionParams, GetConnectionParams, GetConnectionParamsThrows, serverVars
  <2>2. phase = "serving" \/ r \in InProgress
    BY <1>10 DEF AskConnectionParams, GetConnectionParams, GetConnectionParamsThrows, InProgress
  <2>3. QED
    BY <1>2, <1>3, <2>1, <2>2
<1>11. ASSUME NEW j \in Jobs, JobStep(j) \/ JobFails(j)
       PROVE  Phased'
  BY <1>1, <1>11 DEF JobStep, JobFails, serverVars, emitterVars
<1>12. CASE UNCHANGED vars
  BY <1>1, <1>12 DEF vars, serverVars, emitterVars
<1>13. QED
  BY <1>4, <1>5, <1>6, <1>7, <1>8, <1>9, <1>10, <1>11, <1>12 DEF Next, ServerStep

\* Through restarts, outages and shutdowns, a request that is being handled finds
\* the endpoint and an open connection: preClose waits for it, onClose comes after.
THEOREM FindTheirStores == Spec => []RequestsFindTheirStores
<1>1. Phased => RequestsFindTheirStores
  BY DEF Phased, RequestsFindTheirStores
<1>2. QED
  BY <1>1, InitiallyPhased, PhasedStep, PTL DEF Spec

--------------------------------------------------------------------------------
(* The bootstrap jobs *)

\* A job that found no key is the only one at work, so the key it generates is the
\* first, unless jobs have overlapped.
Alone ==
  /\ \A j, k \in Jobs : jobs[j] \in K!Running /\ jobs[k] \in K!Running => j = k
  /\ unboundKeys \in {0, 1}
  /\ (\E j \in Jobs : jobs[j] = "generate") => unboundKeys = 0

\* A job that is about to end well has seen a key or made one.
WellEnded ==
  \A j \in Jobs :
    jobs[j] = "succeeded" \/ (jobs[j] = "close" /\ j \notin thrown) => unboundKeys > 0

Bootstrapped ==
  /\ jobs \in [Jobs -> K!Running \cup {"waiting", "failed", "succeeded"}]
  /\ unboundKeys \in Nat
  /\ overlapped \in BOOLEAN
  /\ overlapped \/ Alone
  /\ WellEnded

LEMMA InitiallyBootstrapped == Init => Bootstrapped
<1> SUFFICES ASSUME K!Init
             PROVE  Bootstrapped
  BY DEF Init
<1>1. \A j \in Jobs : jobs[j] = "waiting"
  BY DEF K!Init
<1>2. jobs \in [Jobs -> K!Running \cup {"waiting", "failed", "succeeded"}]
  BY DEF K!Init
<1>3. Alone /\ WellEnded
  BY <1>1 DEF K!Init, Alone, WellEnded, K!Running, K!Working
<1>4. QED
  BY <1>2, <1>3 DEF K!Init, Bootstrapped

LEMMA JobStepBootstrapped ==
  ASSUME Bootstrapped, NEW j \in Jobs, K!JobStep(j) \/ K!JobThrows(j) \/ K!JobDies(j)
  PROVE  Bootstrapped'
<1> USE DEF Bootstrapped, K!Running, K!Working, K!GoTo
<1>1. CASE K!Start(j)
  BY <1>1 DEF K!Start, Alone, WellEnded
<1>2. CASE K!GetActive(j)
  BY <1>2 DEF K!GetActive, Alone, WellEnded
<1>3. CASE K!RetrieveUnbound(j)
  BY <1>3 DEF K!RetrieveUnbound, Alone, WellEnded
<1>4. CASE K!GenerateSessionKey(j)
  BY <1>4 DEF K!GenerateSessionKey, Alone, WellEnded
<1>5. CASE K!Close(j)
  BY <1>5 DEF K!Close, Alone, WellEnded
<1>6. CASE K!JobThrows(j)
  BY <1>6 DEF K!JobThrows, Alone, WellEnded
<1>7. CASE K!JobDies(j)
  BY <1>7 DEF K!JobDies, Alone, WellEnded
<1>8. QED
  BY <1>1, <1>2, <1>3, <1>4, <1>5, <1>6, <1>7 DEF K!JobStep

LEMMA BootstrappedStep == Bootstrapped /\ [Next]_vars => Bootstrapped'
<1> SUFFICES ASSUME Bootstrapped, [Next]_vars
             PROVE  Bootstrapped'
  OBVIOUS
<1>1. CASE UNCHANGED keyVars
  BY <1>1 DEF keyVars, Bootstrapped, Alone, WellEnded
<1>2. ASSUME NEW j \in Jobs, JobStep(j) \/ JobFails(j)
      PROVE  Bootstrapped'
  BY <1>2, JobStepBootstrapped DEF JobStep, JobFails
<1>3. CASE ServerStep \/ StartThrows \/ Probe \/ Sigterm \/ Crash \/ DatabaseFails
           \/ DatabaseRecovers
  BY <1>1, <1>3 DEF ServerStep, Start, FastifyActiveEndpoint, RunFastify, OnClose, StartThrows,
                    Probe, Sigterm, Crash, Exit, DatabaseFails, DatabaseRecovers
<1>4. ASSUME NEW p \in Parcels, DeliverParcel(p) \/ EmitStep(p) \/ EmitThrows(p)
      PROVE  Bootstrapped'
  BY <1>1, <1>4 DEF DeliverParcel, EmitStep, EmitThrows
<1>5. ASSUME NEW r \in Readers,
             AskConnectionParams(r) \/ GetConnectionParams(r) \/ GetConnectionParamsThrows(r)
      PROVE  Bootstrapped'
  BY <1>1, <1>5 DEF AskConnectionParams, GetConnectionParams, GetConnectionParamsThrows
<1>6. CASE UNCHANGED vars
  BY <1>1, <1>6 DEF vars
<1>7. QED
  BY <1>2, <1>3, <1>4, <1>5, <1>6 DEF Next

\* Jobs that fail at any point and run again never make a second key, unless two of
\* them were at work at the same time.
THEOREM OneKey == Spec => []OneInitialKey
<1>1. Bootstrapped => OneInitialKey
  BY DEF Bootstrapped, Alone, OneInitialKey, K!OneInitialKey
<1>2. QED
  BY <1>1, InitiallyBootstrapped, BootstrappedStep, PTL DEF Spec

\* When a bootstrap job has ended well, even overlapped, there is a key to serve.
THEOREM KeyToServe == Spec => []SucceededMeansKey
<1>1. Bootstrapped => SucceededMeansKey
  BY DEF Bootstrapped, WellEnded, SucceededMeansKey, K!SucceededMeansKey
<1>2. QED
  BY <1>1, InitiallyBootstrapped, BootstrappedStep, PTL DEF Spec

--------------------------------------------------------------------------------
(* Types and bounds *)

\* The container is stopped by the probe that makes the last failure it may have, so
\* one that is still probed has failed fewer.
ProbesBounded ==
  /\ failedProbes \in 0..FailureThreshold
  /\ phase \in {"hung", "serving"} => failedProbes < FailureThreshold

\* Of the server, the database and the requests.
ServerTyped ==
  /\ phase \in {"stopped", "starting", "hung", "ready", "serving", "closing"}
  /\ connection \in {"open", "closed"}
  /\ activeEndpoint \in BOOLEAN
  /\ ProbesBounded
  /\ phase \in {"starting", "ready"} => failedProbes = 0
  /\ database \in {"up", "down"}
  /\ reads \in [Readers -> {"waiting", "handling", "served"}]
  /\ faults \in 0..MaxFaults
  /\ E!TypeOK

Generating == {j \in Jobs : jobs[j] = "generate"}

\* A job that is to generate a key has found none, so each job makes one at most:
\* the keys there are and those to come are no more than the jobs, overlapped or not.
KeysBounded ==
  /\ jobs \in [Jobs -> K!Running \cup {"waiting", "failed", "succeeded"}]
  /\ thrown \subseteq Jobs
  /\ unboundKeys \in Nat
  /\ overlapped \in BOOLEAN
  /\ unboundKeys + Cardinality(Generating) <= Cardinality(Jobs)

LEMMA GeneratingFinite ==
  /\ Cardinality(Jobs) \in Nat
  /\ IsFiniteSet(Generating) /\ Cardinality(Generating) \in Nat
  /\ Cardinality(Generating) <= Cardinality(Jobs)
<1>1. Generating \subseteq Jobs
  BY DEF Generating
<1>2. QED
  BY <1>1, LifecycleAssumption, FS_Subset, FS_CardinalityType DEF LifecycleAssumption

LEMMA InitiallyBounded == Init => ServerTyped /\ KeysBounded
<1> SUFFICES ASSUME Init
             PROVE  ServerTyped /\ KeysBounded
  OBVIOUS
<1>1. ServerTyped
  <2>1. ProbesBounded /\ faults \in 0..MaxFaults
    BY LifecycleAssumption DEF Init, ProbesBounded, LifecycleAssumption
  <2>2. E!TypeOK
    BY DEF Init, E!Init, E!TypeOK
  <2>3. QED
    BY <2>1, <2>2 DEF Init, ServerTyped
<1>2. jobs \in [Jobs -> K!Running \cup {"waiting", "failed", "succeeded"}]
  BY DEF Init, K!Init
<1>3. thrown \subseteq Jobs /\ overlapped \in BOOLEAN /\ unboundKeys = 0
  BY DEF Init, K!Init
<1>4. unboundKeys + Cardinality(Generating) <= Cardinality(Jobs)
  BY <1>3, GeneratingFinite
<1>5. QED
  BY <1>1, <1>2, <1>3, <1>4 DEF KeysBounded

LEMMA TerminateTyped ==
  ASSUME phase \in {"starting", "hung", "ready", "serving"}, Terminate,
         connection \in {"open", "closed"}
  PROVE  phase' \in {"closing", "stopped"} /\ connection' \in {"open", "closed"}
BY DEF Terminate

LEMMA ServerTypedStep == ServerTyped /\ [Next]_vars => ServerTyped'
<1> SUFFICES ASSUME ServerTyped, [Next]_vars
             PROVE  ServerTyped'
  OBVIOUS
<1> USE LifecycleAssumption DEF LifecycleAssumption
<1> faults \in Nat /\ failedProbes \in Nat /\ MaxFaults \in Nat
  BY DEF ServerTyped, ProbesBounded
<1>1. ASSUME Fault \/ UNCHANGED faults
      PROVE  faults' \in 0..MaxFaults
  BY <1>1 DEF Fault, ServerTyped
<1>2. CASE UNCHANGED <<phase, connection, activeEndpoint, failedProbes, database, reads, emitterFunction,
                       calls>> /\ (Fault \/ UNCHANGED faults)
  BY <1>1, <1>2 DEF ServerTyped, ProbesBounded, E!TypeOK
<1>3. CASE Start \/ FastifyActiveEndpoint \/ RunFastify \/ StartThrows
  <2>1. phase' \in {"starting", "ready", "serving", "hung"} /\ failedProbes' = 0
    BY <1>3 DEF ServerTyped, Start, FastifyActiveEndpoint, RunFastify, StartThrows
  <2>2. connection' \in {"open", "closed"} /\ activeEndpoint' \in BOOLEAN
    BY <1>3 DEF ServerTyped, Start, FastifyMongoose, FastifyActiveEndpoint, RunFastify,
                StartThrows
  <2>3. faults' \in 0..MaxFaults
    BY <1>1, <1>3 DEF Start, FastifyActiveEndpoint, RunFastify, StartThrows
  <2>4. UNCHANGED <<database, reads, emitterFunction, calls>>
    BY <1>3 DEF Start, FastifyActiveEndpoint, RunFastify, StartThrows, emitterVars
  <2>5. QED
    BY <2>1, <2>2, <2>3, <2>4 DEF ServerTyped, ProbesBounded, E!TypeOK
<1>4. CASE Probe
  <2> phase \in {"hung", "serving"} /\ failedProbes < FailureThreshold
    BY <1>4 DEF Probe, ServerTyped, ProbesBounded
  <2>1. UNCHANGED <<activeEndpoint, emitterFunction, calls, database, reads, faults>>
    BY <1>4 DEF Probe, Terminate
  <2>2. \/ failedProbes' = 0 /\ UNCHANGED <<phase, connection>>
        \/ /\ failedProbes' = failedProbes + 1 /\ failedProbes' # FailureThreshold
           /\ UNCHANGED <<phase, connection>>
        \/ failedProbes' = FailureThreshold /\ Terminate
    BY <1>4 DEF Probe
  <2>3. /\ phase' \in {"hung", "serving", "closing", "stopped"}
        /\ connection' \in {"open", "closed"} /\ ProbesBounded'
    BY <2>2, TerminateTyped DEF ServerTyped, ProbesBounded
  <2>4. QED
    BY <2>1, <2>3 DEF ServerTyped, E!TypeOK
<1>5. CASE Sigterm
  <2>1. phase' \in {"closing", "stopped"} /\ connection' \in {"open", "closed"}
    BY <1>5, TerminateTyped DEF Sigterm, ServerTyped
  <2>2. UNCHANGED <<activeEndpoint, emitterFunction, calls, database, reads, failedProbes>>
    BY <1>5 DEF Sigterm, Terminate
  <2>3. faults' \in 0..MaxFaults
    BY <1>1, <1>5 DEF Sigterm
  <2>4. QED
    BY <2>1, <2>2, <2>3 DEF ServerTyped, ProbesBounded, E!TypeOK
<1>6. CASE OnClose \/ Crash
  <2>1. Exit /\ faults' \in 0..MaxFaults
    BY <1>1, <1>6 DEF OnClose, Crash
  <2>2. reads' \in [Readers -> {"waiting", "handling", "served"}] /\ E!TypeOK'
    BY <2>1 DEF Exit, E!Exit, E!TypeOK, ServerTyped
  <2>3. QED
    BY <2>1, <2>2 DEF Exit, ServerTyped, ProbesBounded
<1>7. CASE DatabaseFails \/ DatabaseRecovers
  <2>1. database' \in {"up", "down"} /\ faults' \in 0..MaxFaults
    BY <1>1, <1>7 DEF DatabaseFails, DatabaseRecovers
  <2>2. QED
    BY <1>7, <2>1 DEF DatabaseFails, DatabaseRecovers, serverVars, emitterVars, ServerTyped,
                      ProbesBounded, E!TypeOK
<1>8. ASSUME NEW p \in Parcels, DeliverParcel(p) \/ EmitStep(p) \/ EmitThrows(p)
      PROVE  ServerTyped'
  <2>1. UNCHANGED <<phase, connection, activeEndpoint, failedProbes, database, reads>>
    BY <1>8 DEF DeliverParcel, EmitStep, EmitThrows, serverVars
  <2>2. faults' \in 0..MaxFaults
    BY <1>1, <1>8 DEF DeliverParcel, EmitStep, EmitThrows
  <2>3. E!TypeOK'
    BY <1>8 DEF DeliverParcel, EmitStep, EmitThrows, E!Emit, E!MakeEmitter, E!Send,
                E!MakeEmitterThrows, E!SendThrows, E!TypeOK, ServerTyped
  <2>4. QED
    BY <2>1, <2>2, <2>3 DEF ServerTyped, ProbesBounded
<1>9. ASSUME NEW r \in Readers,
             AskConnectionParams(r) \/ GetConnectionParams(r) \/ GetConnectionParamsThrows(r)
      PROVE  ServerTyped'
  <2>1. UNCHANGED <<phase, connection, activeEndpoint, failedProbes, database, emitterFunction, calls>>
    BY <1>9 DEF AskConnectionParams, GetConnectionParams, GetConnectionParamsThrows, serverVars,
                emitterVars
  <2>2. faults' \in 0..MaxFaults
    BY <1>1, <1>9 DEF AskConnectionParams, GetConnectionParams, GetConnectionParamsThrows, QueryThrows
  <2>3. reads' \in [Readers -> {"waiting", "handling", "served"}]
    BY <1>9 DEF AskConnectionParams, GetConnectionParams, GetConnectionParamsThrows, ServerTyped
  <2>4. QED
    BY <2>1, <2>2, <2>3 DEF ServerTyped, ProbesBounded, E!TypeOK
<1>10. ASSUME NEW j \in Jobs, JobStep(j) \/ JobFails(j)
       PROVE  ServerTyped'
  <2>1. Fault \/ UNCHANGED faults
    BY <1>10 DEF JobStep, JobFails, QueryThrows
  <2>2. QED
    BY <1>2, <1>10, <2>1 DEF JobStep, JobFails, serverVars, emitterVars
<1>11. CASE UNCHANGED vars
  BY <1>2, <1>11 DEF vars, serverVars, emitterVars
<1>12. QED
  BY <1>3, <1>4, <1>5, <1>6, <1>7, <1>8, <1>9, <1>10, <1>11 DEF Next, ServerStep

\* A job that leaves "generate" makes one key at most, and only one that has found
\* no key comes to it.
LEMMA JobStepBounded ==
  ASSUME KeysBounded, NEW j \in Jobs, K!JobStep(j) \/ K!JobThrows(j) \/ K!JobDies(j)
  PROVE  KeysBounded'
<1> USE GeneratingFinite
<1>1. /\ jobs' \in [Jobs -> K!Running \cup {"waiting", "failed", "succeeded"}]
      /\ thrown' \subseteq Jobs
      /\ unboundKeys' \in Nat
      /\ overlapped' \in BOOLEAN
  <2> USE DEF KeysBounded, K!JobStep, K!Start, K!GetActive, K!RetrieveUnbound, K!GenerateSessionKey,
              K!Close, K!JobThrows, K!JobDies
  <2>1. jobs' \in [Jobs -> K!Running \cup {"waiting", "failed", "succeeded"}]
    BY DEF K!GoTo, K!Running, K!Working
  <2>2. thrown' \subseteq Jobs
    OBVIOUS
  <2>3. unboundKeys' \in Nat
    OBVIOUS
  <2>4. overlapped' \in BOOLEAN
    OBVIOUS
  <2>5. QED
    BY <2>1, <2>2, <2>3, <2>4
<1>2. IsFiniteSet(Generating') /\ Cardinality(Generating') \in Nat
      /\ Cardinality(Generating') <= Cardinality(Jobs)
  <2>1. Generating' \subseteq Jobs
    BY DEF Generating
  <2>2. QED
    BY <2>1, LifecycleAssumption, FS_Subset, FS_CardinalityType DEF LifecycleAssumption
<1>3. unboundKeys' + Cardinality(Generating') <= Cardinality(Jobs)
  <2>1. CASE K!RetrieveUnbound(j) /\ unboundKeys = 0
    BY <1>2, <2>1 DEF K!RetrieveUnbound
  <2>2. CASE jobs[j] = "generate" /\ ~K!RetrieveUnbound(j)
    <3>1. \E step : step # "generate" /\ jobs' = [jobs EXCEPT ![j] = step]
      BY <2>2 DEF K!JobStep, K!Start, K!GetActive, K!GenerateSessionKey, K!Close, K!JobThrows,
                  K!JobDies, K!GoTo
    <3>2. Generating' = Generating \ {j} /\ j \in Generating
      BY <2>2, <3>1 DEF Generating, KeysBounded
    <3>3. Cardinality(Generating') = Cardinality(Generating) - 1
      BY <3>2, FS_RemoveElement
    <3>4. unboundKeys' \in {unboundKeys, unboundKeys + 1}
      BY <2>2 DEF K!JobStep, K!Start, K!GetActive, K!GenerateSessionKey, K!Close, K!JobThrows,
                  K!JobDies
    <3>5. QED
      BY <3>3, <3>4 DEF KeysBounded
  <2>3. CASE jobs[j] # "generate" /\ ~(K!RetrieveUnbound(j) /\ unboundKeys = 0)
    <3>1. unboundKeys' = unboundKeys /\ \E step : step # "generate" /\ jobs' = [jobs EXCEPT ![j] = step]
      BY <2>3 DEF KeysBounded, K!JobStep, K!Start, K!GetActive, K!RetrieveUnbound,
                  K!GenerateSessionKey, K!Close, K!JobThrows, K!JobDies, K!GoTo
    <3>2. Generating' = Generating
      BY <2>3, <3>1 DEF Generating, KeysBounded
    <3>3. QED
      BY <3>1, <3>2 DEF KeysBounded
  <2>4. QED
    BY <2>1, <2>2, <2>3 DEF K!RetrieveUnbound
<1>4. QED
  BY <1>1, <1>3 DEF KeysBounded

LEMMA KeysBoundedStep == KeysBounded /\ [Next]_vars => KeysBounded'
<1> SUFFICES ASSUME KeysBounded, [Next]_vars
             PROVE  KeysBounded'
  OBVIOUS
<1>1. CASE UNCHANGED keyVars
  BY <1>1 DEF keyVars, KeysBounded, Generating
<1>2. ASSUME NEW j \in Jobs, JobStep(j) \/ JobFails(j)
      PROVE  KeysBounded'
  BY <1>2, JobStepBounded DEF JobStep, JobFails
<1>3. CASE ServerStep \/ StartThrows \/ Probe \/ Sigterm \/ Crash \/ DatabaseFails
           \/ DatabaseRecovers
  BY <1>1, <1>3 DEF ServerStep, Start, FastifyActiveEndpoint, RunFastify, OnClose, StartThrows,
                    Probe, Sigterm, Crash, Exit, DatabaseFails, DatabaseRecovers
<1>4. ASSUME NEW p \in Parcels, DeliverParcel(p) \/ EmitStep(p) \/ EmitThrows(p)
      PROVE  KeysBounded'
  BY <1>1, <1>4 DEF DeliverParcel, EmitStep, EmitThrows
<1>5. ASSUME NEW r \in Readers,
             AskConnectionParams(r) \/ GetConnectionParams(r) \/ GetConnectionParamsThrows(r)
      PROVE  KeysBounded'
  BY <1>1, <1>5 DEF AskConnectionParams, GetConnectionParams, GetConnectionParamsThrows
<1>6. CASE UNCHANGED vars
  BY <1>1, <1>6 DEF vars
<1>7. QED
  BY <1>2, <1>3, <1>4, <1>5, <1>6 DEF Next

\* Whatever fails and restarts, the server's state stays within its types, the probe
\* never counts past its threshold, and the bootstrap jobs never make more keys than
\* there are jobs, however they overlap.
THEOREM TypeCorrect == Spec => []TypeOK
<1>1. ServerTyped /\ KeysBounded => TypeOK
  <2> SUFFICES ASSUME ServerTyped, KeysBounded
               PROVE  TypeOK
    OBVIOUS
  <2>1. unboundKeys \in 0..Cardinality(Jobs)
    BY GeneratingFinite DEF KeysBounded
  <2>2. K!TypeOK
    BY <2>1 DEF KeysBounded, K!TypeOK, K!Cardinality, Cardinality
  <2>3. QED
    BY <2>2 DEF ServerTyped, ProbesBounded, TypeOK
<1>2. QED
  BY <1>1, InitiallyBounded, ServerTypedStep, KeysBoundedStep, PTL DEF Spec
================================================================================
