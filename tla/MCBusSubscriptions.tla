------------------------- MODULE MCBusSubscriptions -------------------------
(* Model values for model-checking BusSubscriptions.                       *)
EXTENDS BusSubscriptions

=============================================================================
