---------------------------- MODULE InitialSessionKey ----------------------------
(* The bootstrap jobs: each looks for a session key that is bound to no peer,   *)
(* and generates one if there is none. A job that fails is run again, and every *)
(* deployment runs one more, perhaps while an earlier one is still at work.     *)
EXTENDS Naturals, FiniteSets

CONSTANT Jobs

VARIABLES
  jobs,         \* where each job is
  thrown,       \* jobs whose makeInitialSessionKey has rejected
  unboundKeys,  \* how many unbound session keys the private key store has
  overlapped    \* history: two jobs were running at the same time

keyVars == <<jobs, thrown, unboundKeys, overlapped>>

--------------------------------------------------------------------------------
Working == {"getActive", "retrieveUnbound", "generate"}
Running == Working \cup {"close"}

TypeOK ==
  /\ jobs \in [Jobs -> Running \cup {"waiting", "failed", "succeeded"}]
  /\ thrown \subseteq Jobs
  /\ unboundKeys \in 0..Cardinality(Jobs)
  /\ overlapped \in BOOLEAN

Init ==
  /\ jobs = [j \in Jobs |-> "waiting"]
  /\ thrown = {}
  /\ unboundKeys = 0
  /\ overlapped = FALSE

GoTo(j, step) == jobs' = [jobs EXCEPT ![j] = step]

\* The job is deployed, or restarted because it failed (restartPolicy OnFailure).
Start(j) ==
  /\ jobs[j] \in {"waiting", "failed"}
  /\ GoTo(j, "getActive")
  /\ thrown' = thrown \ {j}
  /\ overlapped' = (overlapped \/ \E k \in Jobs : jobs[k] \in Running)
  /\ UNCHANGED unboundKeys

GetActive(j) ==
  /\ jobs[j] = "getActive"
  /\ GoTo(j, "retrieveUnbound")
  /\ UNCHANGED <<thrown, unboundKeys, overlapped>>

\* Mutant: a key is made whether or not there is one.
AlwaysMissing(j) ==
  /\ jobs[j] = "retrieveUnbound"
  /\ GoTo(j, "generate")
  /\ UNCHANGED <<thrown, unboundKeys, overlapped>>

RetrieveUnbound(j) ==
  /\ jobs[j] = "retrieveUnbound"
  /\ GoTo(j, IF unboundKeys > 0 THEN "close" ELSE "generate")
  /\ UNCHANGED <<thrown, unboundKeys, overlapped>>

GenerateSessionKey(j) ==
  /\ jobs[j] = "generate"
  /\ unboundKeys' = unboundKeys + 1
  /\ GoTo(j, "close")
  /\ UNCHANGED <<thrown, overlapped>>

\* An await rejects; the key may be in the store all the same.
JobThrows(j) ==
  /\ jobs[j] \in Working
  /\ GoTo(j, "close")
  /\ thrown' = thrown \cup {j}
  /\ \/ UNCHANGED unboundKeys
     \/ jobs[j] = "generate" /\ unboundKeys' = unboundKeys + 1
  /\ UNCHANGED overlapped

\* Mutant: the exit code is not set.
CloseAndSucceed(j) ==
  /\ jobs[j] = "close"
  /\ GoTo(j, "succeeded")
  /\ UNCHANGED <<thrown, unboundKeys, overlapped>>

\* Once the connection is closed nothing keeps the process alive. If
\* makeInitialSessionKey rejected, the handler of uncaughtException sets the exit
\* code.
Close(j) ==
  /\ jobs[j] = "close"
  /\ GoTo(j, IF j \in thrown THEN "failed" ELSE "succeeded")
  /\ UNCHANGED <<thrown, unboundKeys, overlapped>>

\* The job is killed, or cannot close its connection.
JobDies(j) ==
  /\ jobs[j] \in Running
  /\ GoTo(j, "failed")
  /\ UNCHANGED <<thrown, unboundKeys, overlapped>>

JobStep(j) ==
  Start(j) \/ GetActive(j) \/ RetrieveUnbound(j) \/ GenerateSessionKey(j) \/ Close(j)

--------------------------------------------------------------------------------
(* Properties *)

\* makeInitialSessionKeyIfMissing makes no second key, so that peers are given the
\* same one, through failures and retries of the job, as long as no two jobs run
\* at the same time.
OneInitialKey == overlapped \/ unboundKeys <= 1

\* A job that ends well, and so will not run again, leaves a key to serve.
SucceededMeansKey == (\E j \in Jobs : jobs[j] = "succeeded") => unboundKeys > 0
================================================================================
