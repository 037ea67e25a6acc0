---------------------------- MODULE MCServerLifecycle ----------------------------
(* Two parcels, so that both need the emitter first, a reader of the connection *)
(* parameters, and two deployments of the bootstrap job.                        *)
EXTENDS ServerLifecycle

CONSTANTS p1, p2, r1, j1, j2

TwoParcels == {p1, p2}
OneReader == {r1}
TwoJobs == {j1, j2}
================================================================================
