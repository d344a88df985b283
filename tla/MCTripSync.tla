----------------------------- MODULE MCTripSync -----------------------------
(* TripSync on one flight. *)
EXTENDS TripSync
CONSTANTS f1
=============================================================================
