-------------------------- MODULE MCFlightCalendar --------------------------
(* FlightCalendar on two flights. *)
EXTENDS FlightCalendar
CONSTANTS f1, f2
MCTwo == {f1, f2}
=============================================================================
