------------------------- MODULE MCWarmContainers --------------------------
(* WarmContainers with one container of each kind that leaves something    *)
(* behind, and one that does not.                                          *)
EXTENDS WarmContainers, TLC

CONSTANTS journals, users, testCentre

PollerOf == (journals :> "journals") @@ (users :> "users") @@ (testCentre :> "testCentre")
============================================================================
