----------------------------- MODULE TimedPhases -----------------------------
(***************************************************************************)
(* The notices the clock gives rise to: the day before, the leave-by       *)
(* alert, the arrival logistics (phase_markers.py) and the tight           *)
(* connection (connection_risk.py), polled on the cadence ladder of        *)
(* precheck.py and kept in the journal of NotificationDelivery.            *)
(*                                                                         *)
(* A cycle is one step: its interleavings are the subject of               *)
(* NotificationDelivery and PrecheckCycle.  What matters here is the time  *)
(* between cycles: which flights are due, which byAir answered for, what   *)
(* the previous poll of each had seen, what was sent and acknowledged.     *)
(*                                                                         *)
(* A snapshot is a status and the slip of the departure and the arrival    *)
(* against the schedule.  "taxi" is a pre-departure label whose detail     *)
(* speaks of taxiing, pushback or a closed gate; "en_route" stands for     *)
(* "departed" too, "cancelled" for "diverted", "odd" for a label outside   *)
(* the documented set.  A "boarding" label whose detail is still a         *)
(* countdown stands as "check_in_open".  A flight stays in the index here; *)
(* that it leaves is the subject of NotificationDelivery and TripSync.     *)
(***************************************************************************)
EXTENDS Integers, FiniteSets

CONSTANTS
  Legs,                    \* the tracked flights
  Dep, Arr,                \* scheduled_dep_time, scheduled_arr_time
  From, To, TripOf,        \* dep_airport_id, arr_airport_id, trip_id
  Wide,                    \* flights of a widebody
  Trips,                   \* travel-db.json: first and last day of each trip
  TripLead, TripTrail,     \* _TRIP_WINDOW_LEAD, _TRIP_WINDOW_TRAIL
  Horizon,                 \* _POLL_HORIZON_HOURS
  DayBefore,               \* DAY_BEFORE_HOURS
  Lookahead,               \* _LEG1_LOOKAHEAD_HOURS
  QueryWindow,             \* _TIME_TO_LEAVE_QUERY_WINDOW_HOURS
  Base,                    \* _BASE_CADENCE_MINUTES
  Near, NearWindow,        \* the tighter cadence before departure
  Final, FinalWindow,      \* and before arrival
  SchedulerTick,                    \* SCHEDULER_TICK_MINUTES
  Gaps,                    \* what may lie between two starts of the precheck
  Buffer,                  \* TIME_TO_LEAVE_BUFFER_MINUTES
  ArrivalLead,             \* ARRIVAL_LOGISTICS_LEAD_MINUTES
  NarrowLead, WideLead,    \* boarding_lead.py
  MinTransfer,             \* min_transfer_minutes
  Retry, Life,             \* RETRY_SECONDS, the two hours of _offer_notice
  None,                    \* no snapshot yet, no route from Maps
  Travels,                 \* drives to the airport Maps may estimate
  Reports,                 \* per flight: statuses byAir may report
  Slips,                   \* per flight: delays byAir may report
  MaxNow, MaxChanges, MaxFaults   \* model bounds

Statuses == {"scheduled", "check_in_open", "boarding", "taxi", "en_route", "landed",
             "cancelled", "odd"}

ASSUME PhasesAssumption ==
  /\ Dep \in [Legs -> Nat] /\ Arr \in [Legs -> Nat]
  /\ Base \in [Statuses -> Nat \ {0}] /\ {Near, Final, SchedulerTick} \subseteq Nat \ {0}
  /\ Near <= Base["scheduled"] /\ Final <= Base["en_route"]
  /\ Gaps \subseteq 1..SchedulerTick
  /\ {Horizon, DayBefore, Lookahead, QueryWindow, NearWindow, FinalWindow} \subseteq Nat
  /\ QueryWindow + SchedulerTick <= Horizon
  /\ {Buffer, ArrivalLead, NarrowLead, WideLead, MinTransfer} \subseteq Nat
  /\ Retry \in Nat \ {0} /\ Life \in Nat \ {0}
  /\ Travels \subseteq Nat /\ None \notin Nat \cup Statuses
  /\ Reports \in [Legs -> SUBSET Statuses] /\ Slips \in [Legs -> SUBSET Nat]
  /\ {MaxNow, MaxChanges, MaxFaults} \subseteq Nat

VARIABLES
  now,      \* the instant of the last cycle
  truth,    \* what byAir would answer
  travel,   \* what Maps would answer
  fix,      \* where a fresh GPS fix puts the operator: "there", "away" or "none"
  record,   \* flight-<id>.json
  notices,  \* notification-delivery.json
  sent,     \* what reached the operator in the cycle just over
  late,     \* flights that were due by their cadence and have not been polled since
  changes, faults

world == <<truth, travel, fix, changes>>
vars == <<now, truth, travel, fix, record, notices, sent, late, changes, faults>>

(* The operators of the journal on its rows; nothing else of it is used. *)
Journal == INSTANCE NotificationDelivery
  WITH Flights <- Legs, Runners <- {}, NoRunner <- None, Events <- {},
       PhaseReasons <- {"day_before", "time_to_leave", "arrival_logistics",
                        "connection_at_risk"},
       Mutable <- {}, MaxNotices <- 4 * Cardinality(Legs), KillAfter <- 0,
       Lifetimes <- {Life}, Polls <- {0}, MaxSequence <- 1, sequence <- 0,
       active <- Legs, holder <- None, pc <- <<>>, clock <- <<>>, seen <- <<>>,
       outbox <- <<>>, current <- <<>>, queue <- {}, received <- {}

-----------------------------------------------------------------------------
(* Statuses and windows. *)

(* positively_pre_departure. *)
PreDeparture(status) == status \in {"scheduled", "check_in_open", "boarding", "taxi"}

BoardingLead(l) == IF l \in Wide THEN WideLead ELSE NarrowLead

(* boarding_window_open, from byAir's departure. *)
BoardingOpens(l, snap) == Dep[l] + snap.slip - BoardingLead(l)

(* is_boarding_or_gone: a "boarding" label before its window is premature. *)
BoardingOrGone(l, snap, t) ==
  \/ snap.status = "boarding" /\ t >= BoardingOpens(l, snap)
  \/ snap.status \notin {"scheduled", "check_in_open", "boarding"}

InTripWindow(t) ==
  \E trip \in Trips : trip.start - TripLead <= t /\ t < trip.end + TripTrail

-----------------------------------------------------------------------------
(* The cadence ladder. *)

Interval(status, l, t) ==
  IF status = "scheduled" /\ Dep[l] - t <= NearWindow THEN Near
  ELSE IF status = "en_route" /\ Arr[l] - t <= FinalWindow THEN Final
  ELSE Base[status]

(* Beyond the horizon never, without a snapshot at once. *)
DueForPoll(l, t) ==
  /\ Dep[l] - t <= Horizon
  /\ \/ record[l].status = None
     \/ t - record[l].polledAt >= Interval(record[l].status, l, t)

(* Defect: the cadence of the new snapshot measures the last gap. *)
PriorCadenceOfNew(l, snap, t) ==
  IF record[l].status = None \/ ~PreDeparture(snap.status) THEN 0
  ELSE Interval(snap.status, l, t)

(* _prior_poll_cadence: what spaced this poll from the one before. *)
PriorCadence(l, snap, t) ==
  IF record[l].status = None \/ ~PreDeparture(record[l].status) THEN 0
  ELSE Interval(record[l].status, l, t)

-----------------------------------------------------------------------------
(* The gates. *)

DayBeforeNotice == [reason |-> "day_before"]
ArrivalNotice == [reason |-> "arrival_logistics"]
LeaveNotice(by, missed) == [reason |-> "time_to_leave", by |-> by, missed |-> missed]
RiskNotice(l1, minutes) == [reason |-> "connection_at_risk", leg1 |-> l1, minutes |-> minutes]

DayBeforeEvents(l, t) == IF t >= Dep[l] - DayBefore THEN {DayBeforeNotice} ELSE {}

ArrivalEvents(l, t) == IF t >= Arr[l] - ArrivalLead THEN {ArrivalNotice} ELSE {}

LeaveBy(l) == Dep[l] - travel - Buffer

(* The first poll at or after leave-by is in time until the previous one's
   due time and one scheduler tick; without it leave-by itself is the limit. *)
TimelyUntil(l, snap, t) ==
  LET spaced == PriorCadence(l, snap, t) IN
  IF /\ record[l].status # None /\ spaced > 0
     /\ record[l].polledAt < LeaveBy(l)
     /\ LeaveBy(l) < record[l].polledAt + spaced + SchedulerTick
  THEN record[l].polledAt + spaced + SchedulerTick ELSE LeaveBy(l)

(* Maps is asked in the last six hours only. *)
RouteKnown(l, t) == Dep[l] - t <= QueryWindow /\ travel # None

(* check_time_to_leave: a missed alert needs a fix clearly away. *)
LeaveEvents(l, snap, t) ==
  IF /\ RouteKnown(l, t) /\ ~BoardingOrGone(l, snap, t) /\ fix # "there"
     /\ t >= LeaveBy(l)
     /\ t > TimelyUntil(l, snap, t) => fix = "away" /\ PreDeparture(snap.status)
  THEN {LeaveNotice(LeaveBy(l), t > TimelyUntil(l, snap, t))} ELSE {}

(* Every gate is closed for good by a confirmed receipt. *)
Fired(rows, l) == {row.event.reason : row \in {row \in rows : row.flight = l /\ row.confirmed}}

(* What a poll that reads snap gives rise to. *)
FlightEvents(rows, l, snap, t) ==
  {e \in DayBeforeEvents(l, t) \cup LeaveEvents(l, snap, t) \cup ArrivalEvents(l, t) :
     e.reason \notin Fired(rows, l)}

-----------------------------------------------------------------------------
(* connection_risk.py: consecutive flights of a trip through one airport. *)

Consecutive(l1, l2) ==
  /\ TripOf[l1] = TripOf[l2] /\ Dep[l1] < Dep[l2]
  /\ ~\E l \in Legs : TripOf[l] = TripOf[l1] /\ Dep[l1] < Dep[l] /\ Dep[l] < Dep[l2]

Transfer(records, l1, l2) ==
  Dep[l2] - (Arr[l1] + IF records[l1].status = None THEN 0 ELSE records[l1].slip)

AtRisk(records, l1, l2, t) ==
  /\ Consecutive(l1, l2) /\ To[l1] = From[l2]
  /\ records[l1].status \notin {"landed", "cancelled"}
  /\ Dep[l1] - t <= Lookahead
  /\ Transfer(records, l1, l2) < MinTransfer

(* Flights not due keep the trust of their cadence, failed ones do not. *)
RiskOffers(rows, records, trusted, t) ==
  {[flight |-> p[2], event |-> RiskNotice(p[1], Transfer(records, p[1], p[2]))] :
     p \in {p \in trusted \X trusted :
              /\ AtRisk(records, p[1], p[2], t)
              /\ "connection_at_risk" \notin Fired(rows, p[2])}}

-----------------------------------------------------------------------------
(* The journal in a cycle. *)

Lesser(a, b) == IF a <= b THEN a ELSE b

(* _offer_notice: how long a notice is worth sending. *)
Expires(o, t) ==
  CASE o.event.reason = "day_before" -> Dep[o.flight]
    [] o.event.reason = "arrival_logistics" -> Lesser(t + Life, Arr[o.flight] + truth[o.flight].slip + Life)
    [] OTHER -> t + Life

(* The phases have one row each, so the order of the offers is immaterial. *)
Offered(rows, offers, t) ==
  LET fresh == {o \in offers :
                  ~Journal!OfferIgnored(rows, t, o.flight, o.event, 0, Expires(o, t))}
  IN (rows \ UNION {Journal!Previous(rows, o.flight, o.event, 0) : o \in fresh})
       \cup {Journal!NewRow(rows, t, o.flight, o.event, 0, Expires(o, t)) : o \in fresh}

PollOffers(rows, polled, t) ==
  UNION {{[flight |-> l, event |-> e] : e \in FlightEvents(rows, l, truth[l], t)} : l \in polled}

Pruned(t) == Journal!Pruned(notices, Legs, t)

DueLegs(t) == {l \in Legs : DueForPoll(l, t)}

Wanted(rows, t) == DueLegs(t) \cup Journal!RetryDueIds(rows, t)

Polled(l, t) == [status |-> truth[l].status, slip |-> truth[l].slip, polledAt |-> t]

(* _notice_is_current: a cancelled flight has only one thing to say. *)
Upheld(rows, records) ==
  {<<row.flight, row.event>> : row \in {row \in rows : records[row.flight].status # "cancelled"}}

Acknowledged(rows, acked) ==
  {[row EXCEPT !.confirmed = @ \/ row \in acked] : row \in rows}

-----------------------------------------------------------------------------
Init ==
  /\ now = 0
  /\ truth = [l \in Legs |-> [status |-> "scheduled", slip |-> 0]]
  /\ travel \in Travels
  /\ fix \in {"there", "away", "none"}
  /\ record = [l \in Legs |-> [status |-> None, slip |-> 0, polledAt |-> 0]]
  /\ notices = {} /\ sent = {} /\ late = {}
  /\ changes = 0 /\ faults = 0

(* The rows reconcile keeps and the due ones stamped with their retry. *)
DueJournal(rows, answered, failed, records, t) ==
  LET polls == PollOffers(rows, answered, t)
      polled == Offered(rows, polls, t)
      risks == RiskOffers(polled, records, Legs \ failed, t)
      offered == Offered(polled, risks, t)
      phases == {<<o.flight, o.event.reason>> : o \in polls \cup risks}
  IN Journal!DueRows(Journal!Reconciled(offered, answered, phases, Upheld(offered, records)),
                     Legs, failed, {}, t)

(* A whole cycle: byAir answers for some of the flights wanted; of the
   messages due some arrive, and some of those are acknowledged. *)
Cycle(gap) ==
  LET t == now + gap
      wanted == Wanted(Pruned(t), t)
  IN /\ t <= MaxNow /\ InTripWindow(t)
     /\ \E answered \in SUBSET wanted :
          LET failed == wanted \ answered IN
          /\ faults + Cardinality(failed) <= MaxFaults
          /\ record' = [l \in Legs |-> IF l \in answered THEN Polled(l, t) ELSE record[l]]
          /\ \E due \in {DueJournal(Pruned(t), answered, failed, record', t)} :
             LET ready == {row \in due : row.retry = t + Retry /\ ~row.confirmed}
                 messages == {row.flight : row \in ready}
             IN \E lost \in SUBSET messages : \E unheard \in SUBSET (messages \ lost) :
                /\ sent' = {row \in ready : row.flight \notin lost}
                /\ notices' = Acknowledged(due, {row \in ready : row.flight \notin lost \cup unheard})
                /\ faults' = faults + Cardinality(failed) + Cardinality(lost \cup unheard)
                /\ faults' <= MaxFaults
          /\ late' = (late \cup DueLegs(t)) \ answered
     /\ now' = t
     /\ UNCHANGED world

(* A poll offers its notices in this order. *)
Prefixes ==
  {{}, {"day_before"}, {"day_before", "time_to_leave"},
   {"day_before", "time_to_leave", "arrival_logistics"}}

(* The cycle dies before reconcile: some flights are through, one may have
   offered the first of its notices, its record still as it was. *)
Killed(gap) ==
  LET t == now + gap
      wanted == Wanted(Pruned(t), t)
  IN /\ t <= MaxNow /\ InTripWindow(t) /\ faults < MaxFaults
     /\ \E done \in SUBSET wanted, reasons \in Prefixes :
        \E amid \in {amid \in SUBSET (wanted \ done) : Cardinality(amid) <= 1} :
          /\ notices' = Offered(Pruned(t), PollOffers(Pruned(t), done, t) \cup
               {o \in PollOffers(Pruned(t), amid, t) : o.event.reason \in reasons}, t)
          /\ record' = [l \in Legs |-> IF l \in done THEN Polled(l, t) ELSE record[l]]
          /\ late' = (late \cup DueLegs(t)) \ done
     /\ now' = t /\ faults' = faults + 1 /\ sent' = {}
     /\ UNCHANGED world

(* No cycle at this tick: another owner holds the journal, or nothing runs. *)
Missed(gap) ==
  /\ now + gap <= MaxNow /\ InTripWindow(now + gap) /\ faults < MaxFaults
  /\ now' = now + gap /\ faults' = faults + 1
  /\ late' = late \cup DueLegs(now + gap) /\ sent' = {}
  /\ UNCHANGED <<world, record, notices>>

(* Outside every trip window the precheck ends at once. *)
OffTrip(gap) ==
  /\ now + gap <= MaxNow /\ ~InTripWindow(now + gap)
  /\ now' = now + gap /\ late' = late \cup DueLegs(now + gap) /\ sent' = {}
  /\ UNCHANGED <<world, record, notices, faults>>

ByAirReports(l) ==
  /\ changes < MaxChanges
  /\ \E status \in Reports[l], slip \in Slips[l] :
       truth' = [truth EXCEPT ![l] = [status |-> status, slip |-> slip]]
  /\ truth' # truth
  /\ changes' = changes + 1 /\ sent' = {}
  /\ UNCHANGED <<now, travel, fix, record, notices, late, faults>>

TrafficChanges ==
  /\ changes < MaxChanges
  /\ travel' \in (Travels \cup {None}) \ {travel}
  /\ changes' = changes + 1 /\ sent' = {}
  /\ UNCHANGED <<now, truth, fix, record, notices, late, faults>>

OperatorMoves ==
  /\ changes < MaxChanges
  /\ fix' \in {"there", "away", "none"} \ {fix}
  /\ changes' = changes + 1 /\ sent' = {}
  /\ UNCHANGED <<now, truth, travel, record, notices, late, faults>>

Next ==
  \/ \E gap \in Gaps : Cycle(gap) \/ Killed(gap) \/ Missed(gap) \/ OffTrip(gap)
  \/ \E l \in Legs : ByAirReports(l)
  \/ TrafficChanges
  \/ OperatorMoves

Spec == Init /\ [][Next]_vars

-----------------------------------------------------------------------------
(* No notice is moot when it reaches the operator: he is told to leave only
   if byAir answered for the flight in this cycle, it is neither boarding nor
   gone and no fix puts him at the airport; a flight on record as cancelled is
   not prepared for; the day-before check comes before departure. *)
NoMootNotice ==
  \A row \in sent :
    /\ row.event.reason # "connection_at_risk" => record[row.flight].status # "cancelled"
    /\ row.event.reason = "day_before" => now < Dep[row.flight]
    /\ row.event.reason = "time_to_leave" =>
         /\ record[row.flight].polledAt = now
         /\ ~BoardingOrGone(row.flight, record[row.flight], now)
         /\ fix # "there"

(* A connection is called tight only if the last answers of byAir say so at
   that moment, and no poll of the first flight that its cadence called for is
   missing: neither a retry nor a failed poll revives a risk that passed. *)
RiskIsReal ==
  \A row \in sent : row.event.reason = "connection_at_risk" =>
    LET leg1 == record[row.event.leg1] IN
    /\ leg1.status \notin {"landed", "cancelled"} /\ row.event.leg1 \notin late
    /\ Dep[row.flight] - (Arr[row.event.leg1] + leg1.slip) < MinTransfer

(* What is sent a second time before it lapses was verified again: byAir
   answered in this very cycle for every flight the notice rests on, due or not. *)
RetryIsFresh ==
  [][\A row \in sent', old \in notices :
       /\ row.flight = old.flight /\ row.event = old.event
       /\ old.retry > 0 /\ old.expires > now'
       => \A l \in {row.flight} \cup
                  IF row.event.reason = "connection_at_risk" THEN {row.event.leg1} ELSE {} :
            record'[l].polledAt = now']_vars

(* The poll that crosses leave-by tells him, with or without a GPS fix, as
   long as every poll since the one before it came when it was due. *)
TimelyPollTells ==
  [][\A l \in Legs :
       /\ now' > now /\ record'[l].polledAt = now'
       /\ record[l].status # None /\ PreDeparture(record[l].status) /\ l \notin late
       /\ RouteKnown(l, now') /\ ~BoardingOrGone(l, record'[l], now') /\ fix # "there"
       /\ record[l].polledAt < LeaveBy(l) /\ LeaveBy(l) <= now'
       => \E row \in notices' : row.flight = l /\ row.event.reason = "time_to_leave"]_vars

(* A leave-by alert the host did not confirm stays pending for its retry
   until it lapses, the flight boards or leaves or he is at the airport. *)
PendingLeaveStays ==
  [][\A row \in notices :
       /\ row.event.reason = "time_to_leave" /\ ~row.confirmed /\ row.expires > now'
       /\ ~BoardingOrGone(row.flight, record'[row.flight], now') /\ fix # "there"
       => \E kept \in notices' :
            kept.flight = row.flight /\ kept.event.reason = "time_to_leave"]_vars
=============================================================================
