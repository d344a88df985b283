---------------------------- MODULE MCTimedPhases ----------------------------
(* Two connecting flights of one trip. *)
EXTENDS TimedPhases, TLC
CONSTANTS one, two, hub, home, there
MCDep == one :> 10 @@ two :> 13
MCArr == one :> 11 @@ two :> 15
MCFrom == one :> home @@ two :> hub
MCTo == one :> hub @@ two :> there
MCTripOf == [l \in {one, two} |-> 1]
MCTrips == {[start |-> 10, end |-> 20]}
MCBase == [status \in Statuses |->
  CASE status \in {"check_in_open", "boarding", "taxi"} -> 1
    [] status \in {"en_route", "landed"} -> 3
    [] status = "cancelled" -> 5
    [] OTHER -> 4]
MCReports == one :> {"scheduled", "boarding", "en_route", "odd"}
               @@ two :> {"scheduled", "cancelled"}
MCSlips == one :> {0, 2} @@ two :> {0}
=============================================================================
