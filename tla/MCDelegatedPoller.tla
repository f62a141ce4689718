------------------------- MODULE MCDelegatedPoller -------------------------
(* DelegatedPoller with two bookings' details, of an early and a later day. *)
EXTENDS DelegatedPoller, TLC

CONSTANTS x, y

Days == x :> 0 @@ y :> 1

=============================================================================
