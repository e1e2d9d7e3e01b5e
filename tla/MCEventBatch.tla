---------------------------- MODULE MCEventBatch ----------------------------
(* Two alerts, batches of up to three reports of which only two are read:  *)
(* long enough for every order of two events of one alert and an event of  *)
(* another, and for a request that is cut off.                             *)
EXTENDS EventBatch

CONSTANTS a1, a2
=============================================================================
