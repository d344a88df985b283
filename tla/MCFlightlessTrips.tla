------------------------- MODULE MCFlightlessTrips -------------------------
(* FlightlessTrips on one trip: lodging alone, at first or a tick later, or
   later with both flights. *)
EXTENDS FlightlessTrips, TLC
CONSTANTS camp
MCTrips == {camp}
MCName == camp :> "camp"
MCOffers ==
  {[start |-> s, stay |-> TRUE, ride |-> {}] : s \in {1, 2}}
  \cup {[start |-> 2, stay |-> TRUE, ride |-> {"out", "back"}]}
=============================================================================
