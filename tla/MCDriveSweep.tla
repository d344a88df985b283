---------------------------- MODULE MCDriveSweep ----------------------------
(* DriveSweep on the two drives of one meeting. *)
EXTENDS DriveSweep, TLC
CONSTANTS out, back, gym
MCLegs == {out, back}
MCOwner == out :> gym @@ back :> gym
MCSkippable == {gym}
MCSweeps == {"cron"}
MCPlans == out :> 0 @@ back :> 1
MCDrives == {0, 1}
MCStorm == {[id |-> i, leg |-> back, at |-> 1, drive |-> 1] : i \in {1, 2}}
=============================================================================
