--------------------------------- MODULE Emitter ---------------------------------
(* Emitter.emit, called concurrently: the emitter function is made by the first *)
(* call, so that Knative has the time to inject the address of the broker; the  *)
(* calls that come before it is made make one each.                             *)
CONSTANT Calls

VARIABLES
  emitterFunction,  \* "undefined" until the first one has been made
  calls             \* where each call is

emitterVars == <<emitterFunction, calls>>

--------------------------------------------------------------------------------
InProgress == {c \in Calls : calls[c] \in {"makeEmitter", "send"}}

TypeOK ==
  /\ emitterFunction \in {"undefined", "made"}
  /\ calls \in [Calls -> {"idle", "makeEmitter", "send", "failed", "emitted"}]

Init ==
  /\ emitterFunction = "undefined"
  /\ calls = [c \in Calls |-> "idle"]

\* The sender calls again as long as emit throws.
Emit(c) ==
  /\ calls[c] \in {"idle", "failed"}
  /\ calls' = [calls EXCEPT ![c] =
        IF emitterFunction = "undefined" THEN "makeEmitter" ELSE "send"]
  /\ UNCHANGED emitterFunction

MakeEmitter(c) ==
  /\ calls[c] = "makeEmitter"
  /\ emitterFunction' = "made"
  /\ calls' = [calls EXCEPT ![c] = "send"]

\* Mutant: what is kept is the promise of the emitter, also one that rejected.
MakeEmitterThrowsForGood(c) ==
  /\ calls[c] = "makeEmitter"
  /\ emitterFunction' = "rejected"
  /\ calls' = [calls EXCEPT ![c] = "failed"]

\* The broker's address is not there yet.
MakeEmitterThrows(c) ==
  /\ calls[c] = "makeEmitter"
  /\ calls' = [calls EXCEPT ![c] = "failed"]
  /\ UNCHANGED emitterFunction

Send(c) ==
  /\ calls[c] = "send" /\ emitterFunction = "made"
  /\ calls' = [calls EXCEPT ![c] = "emitted"]
  /\ UNCHANGED emitterFunction

SendThrows(c) ==
  /\ calls[c] = "send"
  /\ calls' = [calls EXCEPT ![c] = "failed"]
  /\ UNCHANGED emitterFunction

\* The process ends.
Exit ==
  /\ emitterFunction' = "undefined"
  /\ calls' = [c \in Calls |-> IF c \in InProgress THEN "failed" ELSE calls[c]]
================================================================================
