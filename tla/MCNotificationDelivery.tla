----------------------- MODULE MCNotificationDelivery -----------------------
(* Small instances of the journal protocol. *)
EXTENDS NotificationDelivery, TLC

CONSTANTS f1, r1, r2

GateChange(to) == [reason |-> "gate_change", side |-> "dep", value |-> to]

Phases == {"boarding_started"}
Moving == {"gate_change"}
OverlapEvents == {GateChange("g1"), GateChange("g2")}
SameRunners == Permutations(Runners)
=============================================================================
