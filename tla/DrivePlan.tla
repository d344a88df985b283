----------------------------- MODULE DrivePlan -----------------------------
(***************************************************************************)
(* What the drive engine plans (drive-engine: engine.py, reconcile_sweep.py,*)
(* suppression.py, position.py, reconcile.py).                             *)
(*                                                                         *)
(* A sweep reads the flights, the schedule and the calendar afresh, builds *)
(* one itinerary, and from it the drives to and from airports, meetings    *)
(* and conferences; it then makes the drive blocks of the calendar follow. *)
(* Here a sweep takes effect at once: DriveSweep has its calls one by one, *)
(* with crashes and refusals.  What this module is about is the plan, and  *)
(* how it holds from one sweep to the next while the world moves on.       *)
(*                                                                         *)
(* byAir's records are [n, from, to, dep, arr, liveDep, liveArr, trip,     *)
(* status, read].  read is "yes", "coded" (an airport only by the code of  *)
(* the last poll: placed, nothing else known of it), "unplaced" (times but *)
(* no airports) or "blind" (neither).  TripIt's segments are [n, from, to, *)
(* dep, arr, trip].  EV charging, the wording and the zones of the blocks, *)
(* and the flightless trips of FlightlessTrips are left out, and so is the *)
(* jitter of drive times: the router answers each pair the same, or not.   *)
(***************************************************************************)
EXTENDS PostArrival

CONSTANTS
  Scenarios,   \* what the operator booked
  Route,       \* the drive between two places
  City,        \* for the properties: the city of a place
  Trivial,     \* TRIVIAL_LEG_THRESHOLD
  GpsMargin,   \* GPS_IMMINENCE_MARGIN
  Instants,    \* model bound: the times at which a sweep may run
  Outages,     \* model bound: the places the router may fail on at once
  Fixes,       \* model bound: the fresh GPS fixes, Nowhere for none
  Delays,      \* model bound: by how much a flight is late
  MaxChanges,  \* model bound: changes made by byAir and the user
  MaxFaults    \* model bound: sweeps with an outage

ASSUME DrivePlanAssumption ==
  /\ Instants \subseteq Nat /\ Delays \subseteq Nat /\ {Trivial, GpsMargin, MaxChanges, MaxFaults} \subseteq Nat
  /\ {} \in Outages /\ Nowhere \in Fixes
  /\ \A s \in Scenarios :
       /\ DOMAIN s = {"air", "booked", "trips", "trains", "lodging", "events", "rows", "boarding"}
       /\ IsFiniteSet(s.air) /\ IsFiniteSet(s.booked)
       /\ \A f \in s.air : DOMAIN f = {"n", "from", "to", "dep", "arr", "liveDep", "liveArr",
                                       "trip", "status", "read"}
       /\ \A f \in s.air \cup s.booked : /\ f.n \in Nat /\ {f.dep, f.arr} \subseteq Int
                                         /\ {f.from, f.to} \subseteq DOMAIN Nudge
       /\ \A f \in s.air : {f.liveDep, f.liveArr} \subseteq Int \cup {Nowhere}
  /\ \A a, b \in DOMAIN Nudge : <<a, b>> \in DOMAIN Route /\ Route[<<a, b>>] \in Int \cup {Failed}

VARIABLES
  now,
  world,     \* [air, booked, trips, trains, lodging, events, rows, boarding]
  skips,     \* drive skips that have not lapsed
  calendar,  \* the drive blocks, one per identity and kind
  plan,      \* what the last sweep planned, NoPlan once something changed
  seen,      \* for the properties: the world, skips and fix the last sweep
             \* planned from, empty once the world is another
  changes, faults

vars == <<now, world, skips, calendar, plan, seen, changes, faults>>

NoPlan == [ran |-> FALSE, desired |-> {}, held |-> {}, guards |-> <<>>]

-----------------------------------------------------------------------------
(* normalize_flights *)

Departs(f) == IF f.liveDep = Nowhere THEN f.dep ELSE f.liveDep
Arrives(f) == IF f.liveArr = Nowhere THEN f.arr ELSE f.liveArr
HasSpan(f) == Departs(f) < Arrives(f)

Record(f, source, liveDep, liveArr, status) ==
  [source |-> source, n |-> f.n, from |-> f.from, to |-> f.to, dep |-> f.dep, arr |-> f.arr,
   liveDep |-> liveDep, liveArr |-> liveArr, trip |-> f.trip, status |-> status]

Readable(w) ==
  {f \in w.air : f.read \in {"yes", "coded"} /\ (f.status = "cancelled" \/ HasSpan(f))}
Unreadable(w) == w.air \ Readable(w)

\* require_placeable: neither a span nor, for a cancellation, a route.
Blind(w) ==
  {f \in Unreadable(w) : f.read = "blind" \/ f.status = "cancelled" \/ ~HasSpan(f)}

\* SweepFlights.flights
SweepFlights(w) ==
  {Record(f, "byair", f.liveDep, f.liveArr, f.status) : f \in Readable(w)}
  \cup {Record(f, "tripit", Nowhere, Nowhere, "flying") : f \in w.booked}
Known(w) == UNION {{f.from, f.to} : f \in {g \in Readable(w) : g.read = "yes"}}

\* The transports of byAir and TripIt an itinerary is built from.
Unplaced(w) ==
  {Transport(Departs(f), Arrives(f), Nowhere, Nowhere, f.dep, "flying") : f \in Unreadable(w)}
Flown(merged) ==
  {Transport(m.dep, m.arr, m.from, IF m.status = "diverted" THEN Nowhere ELSE m.to,
             m.booked, m.status) : m \in {x \in merged : x.status = "cancelled" \/ x.dep < x.arr}}
Schedule(w) ==
  [trips |-> w.trips, lodging |-> w.lodging,
   transports |-> w.trains \cup
     {Transport(f.dep, f.arr, f.from, f.to, f.dep, "flying") : f \in w.booked}]

\* itinerary_for
ItineraryFor(w) ==
  BuildItinerary(Schedule(w), Unplaced(w) \cup Flown(MergeFlights(SweepFlights(w))),
                 Presence(w.rows), Scopes(w.rows))

\* The sweep fails closed before it plans anything.
Unplannable(w) ==
  Blind(w) # {} \/ \E t \in Unplaced(w) : Ambiguous(t, Schedule(w).transports)

-----------------------------------------------------------------------------
(* The drives to and from airports *)

\* resolve_leg_origin: a GPS fix once the drive is imminent.
Origin(planned, anchor, approx, live, at) ==
  IF approx = Failed \/ live = Nowhere THEN planned
  ELSE IF at >= anchor - approx - (approx + GpsMargin) THEN live ELSE planned

\* is_trivial_leg: only with a boarding block to send him to the gate.
TrivialLeg(drive, boarding) == drive <= Trivial /\ boarding

\* defect: a leg that cannot be routed is not there.
AirportDriveForget(l, from, to, boarding, route) ==
  LET drive == Drive(route, from, to)
      start == IF l.kind = "arrival" THEN l.anchor ELSE l.closes - drive
  IN  IF l.closes < now \/ from = Nowhere \/ to = Nowhere THEN Nothing
      ELSE IF drive = Failed THEN Nothing
      ELSE [Nothing EXCEPT !.desired =
              {Block(l.id, l.kind, start, start + drive, from, to, l.anchor, l.closes)}]

\* _build_departure, _build_arrival, _build_transfer and _leg_past: a leg that
\* is past, leads nowhere, has no route or an implausible one is held.
AirportDrive(l, from, to, boarding, route) ==
  LET drive == Drive(route, from, to)
      start == IF l.kind = "arrival" THEN l.anchor ELSE l.closes - drive
      held == [Nothing EXCEPT !.held = {Hold(l.id, l.kind, l.closes)}]
  IN  IF l.closes < now \/ from = Nowhere \/ to = Nowhere THEN held
      ELSE IF drive = Failed THEN held
      ELSE IF drive > MaxAirportDrive THEN held
      ELSE IF l.kind # "transfer" /\ TrivialLeg(drive, boarding) THEN Nothing
      ELSE [Nothing EXCEPT !.desired =
              {Block(l.id, l.kind, start, start + drive, from, to, l.anchor, l.closes)}]

\* The leg of one who is here when it begins or ends.
PlanAirportLeg(l, here, live, boarding, route) ==
  AirportDrive(l, IF l.kind # "departure" THEN l.from
                  ELSE IF here = Nowhere THEN Nowhere
                  ELSE Origin(here, l.anchor, Drive(route, here, l.to), live, now),
               IF l.kind = "arrival" THEN here ELSE l.to, boarding, route)

AirportKinds == {"departure", "arrival", "transfer"}
CommuteKinds == {"commuteOut", "commuteBack"}

FlightsOf(b) == IF b.kind = "transfer" THEN {b.id[1], b.id[2]} ELSE {b.id}

\* _unreadable_flight_holds: airport blocks an unread record may own.
Retained(w) ==
  {Hold(b.id, b.kind, b.end) :
     b \in {c \in calendar : /\ c.kind \in AirportKinds
                             /\ \E k \in FlightsOf(c), f \in Unreadable(w) : Span(k[3], f.dep) <= Tolerance}}

\* _covered_by_retained
Covered(d, retained) ==
  LET Same(k, j) == k[1] = j[1] /\ k[2] = j[2] /\ Span(k[3], j[3]) <= Tolerance
  IN  \E h \in retained : /\ h.kind = d.kind
        /\ IF d.kind = "transfer" THEN Same(d.id[1], h.id[1]) /\ Same(d.id[2], h.id[2])
           ELSE Same(d.id, h.id)

-----------------------------------------------------------------------------
(* build_reconcile_plan *)

Without(p, blocks) ==
  [desired |-> p.desired \ blocks,
   held |-> p.held \cup {Hold(b.id, b.kind, b.anchor) : b \in blocks}]

\* A commute never runs into a flight's guard.
IntoGuard(p, guards) ==
  {b \in p.desired : b.kind \in CommuteKinds /\ \E i \in DOMAIN guards :
     guards[i].start < b.end /\ b.start < guards[i].ready}

\* Nor from or to a bed that is not his, nor into another drive.
Unavailable(p, it) ==
  {b \in p.desired :
     /\ b.kind \in CommuteKinds
     /\ \/ BaseAt(it, IF b.kind = "commuteBack" THEN b.end ELSE b.start).address
             # (IF b.kind = "commuteBack" THEN b.to ELSE b.from)
        \/ \E c \in p.desired \ {b} : c.start < b.end /\ b.start < c.end}

Clear(p, guards) == Without(p, IntoGuard(p, guards))
Housed(p, it) == Without(p, Unavailable(p, it))
Planned(p, guards) == [ran |-> TRUE, desired |-> p.desired, held |-> p.held, guards |-> guards]

\* The window of the calendar fetch.
Events(w) == {e \in w.events : now < e.end /\ e.start < now + Window}
Busy(w) == {e \in Events(w) : e.as # "off"}

\* The airport, meeting and conference legs, before they are fitted together.
Legs(w, it, flights, known, live, route) ==
  Both({PlanAirportLeg(l, PositionAt(it, l.anchor).address, live, w.boarding, route) :
          l \in ChainLegs(flights, w.lodging, known)}
       \cup {PlanMeetings(Events(w), now, skips, it, w.rows, route),
             Commutes(w.rows, it, now, Busy(w), route),
             [Nothing EXCEPT !.held = Retained(w)]})

Fitted(w, p, it, guards, route) ==
  Housed(Compose(Clear(p, guards), guards, PostMeetings(Events(w), now, skips, it, w.rows),
                 it, route, calendar), it)

PlanFor(w, it, flights, known, guards, live, route) ==
  Planned(Fitted(w, Legs(w, it, flights, known, live, route), it, guards, route), guards)

PlanDrives(w, live, route) ==
  LET known == Known(w)
      flights == {m \in MergeFlights(SweepFlights(w)) : m.status # "cancelled"}
  IN  PlanFor(w, ItineraryFor(w), flights, known, Guards(flights, known), live, route)

\* _done_by: the drive is behind the operator.
DoneBy(b, at) == b.closes < at

\* plan_reconcile, and build_plan's creates: desired blocks replace or join,
\* held ones and history stay.
Reconciled(p, retained) ==
  LET there == {Key(b) : b \in calendar}
      wanted == {Key(d) : d \in p.desired}
  IN  {d \in p.desired : Key(d) \in there \/ ~Covered(d, retained)}
      \cup {b \in calendar : /\ Key(b) \notin wanted
                             /\ Key(b) \in {Key(h) : h \in p.held} \/ DoneBy(b, now)}

-----------------------------------------------------------------------------
Init ==
  /\ now \in {t \in Instants : \A u \in Instants : t <= u}
  /\ world \in Scenarios
  /\ skips = {} /\ calendar = {} /\ plan = NoPlan /\ seen = <<>>
  /\ changes = 0 /\ faults = 0

Outage(places) ==
  [p \in DOMAIN Route |-> IF {p[1], p[2]} \cap places # {} THEN Failed ELSE Route[p]]

Sweep ==
  /\ ~plan.ran
  /\ ~Unplannable(world)
  /\ \E outage \in Outages, live \in Fixes :
       /\ outage = {} \/ faults < MaxFaults
       /\ plan' = PlanDrives(world, live, Outage(outage))
       /\ seen' = <<world, skips, live>>
       /\ faults' = IF outage = {} THEN faults ELSE faults + 1
  /\ calendar' = Reconciled(plan', Retained(world))
  /\ UNCHANGED <<now, world, skips, changes>>

Changed ==
  /\ changes < MaxChanges /\ changes' = changes + 1
  /\ plan' = NoPlan /\ seen' = <<>>
  /\ UNCHANGED <<now, calendar, faults>>

Answers(f, g) ==
  /\ world' = [world EXCEPT !.air = (@ \ {f}) \cup {g}]
  /\ UNCHANGED skips

\* byAir's next answer for a flight.
Delay(f) ==
  /\ Changed /\ f.status = "flying" /\ Arrives(f) > now
  /\ \E d \in Delays :
       Answers(f, [f EXCEPT !.liveDep = IF Departs(f) > now THEN f.dep + d ELSE @,
                            !.liveArr = f.arr + d])
Disrupt(f) ==
  /\ Changed /\ f.status = "flying"
  /\ \/ Departs(f) > now /\ Answers(f, [f EXCEPT !.status = "cancelled"])
     \/ Arrives(f) > now /\ Answers(f, [f EXCEPT !.status = "diverted"])
Unread(f) ==
  /\ Changed
  /\ \E how \in {"yes", "coded", "unplaced", "blind"} \ {f.read} :
       Answers(f, [f EXCEPT !.read = how])

\* The user's calendar and his skips.
MoveMeeting(e) ==
  /\ Changed
  /\ \E f \in {[e EXCEPT !.as = "off"]} \cup {[e EXCEPT !.start = @ + d, !.end = @ + d] : d \in Delays} :
       f # e /\ world' = [world EXCEPT !.events = (@ \ {e}) \cup {f}]
  /\ UNCHANGED skips
SkipDrive(e) ==
  /\ Changed /\ e.id \notin skips
  /\ skips' = skips \cup {e.id}
  /\ UNCHANGED world

Tick ==
  /\ \E t \in Instants :
       /\ now < t /\ \A u \in Instants : now < u => t <= u
       /\ now' = t
  /\ plan' = NoPlan
  /\ UNCHANGED <<world, skips, calendar, seen, changes, faults>>

Next ==
  \/ Sweep
  \/ \E f \in world.air : Delay(f) \/ Disrupt(f) \/ Unread(f)
  \/ \E e \in world.events : MoveMeeting(e) \/ SkipDrive(e)
  \/ Tick

Spec == Init /\ [][Next]_vars

-----------------------------------------------------------------------------
\* After check-out and before the next check-in the last hotel stands in, in
\* whatever city it is (itinerary.py, rule 3).
StandsIn(b, it) ==
  \E s \in LastCheckedOut(it, PeriodAt(it, b.anchor), b.anchor) : b.to = s.address

Departing(w) == {m \in MergeFlights(SweepFlights(w)) : m.status # "cancelled"}
Flying(w) == {m \in Departing(w) : m.status = "flying"}

\* No flight is off, or late into the next one, or of unknown airports.
InOrder(w) ==
  /\ \A f \in w.air : f.status = "flying"
  /\ \A f \in Unreadable(w) : \E b \in w.booked : SameRoute(b, f) /\ b.dep = f.dep
  /\ \A f, g \in w.air : f.dep < g.dep => Arrives(f) <= Departs(g)

(* No drive to or from an airport leads to another city: the operator is
   where his flights and beds put him, late or not, whichever source knows
   them and whatever it says of them twice. *)
StayInCity ==
  plan.ran /\ InOrder(world) => LET it == ItineraryFor(world) IN
    \A b \in plan.desired :
      b.kind \in AirportKinds /\ b.from \notin Fixes /\ City[b.from] # City[b.to]
      => b.kind = "arrival" /\ StandsIn(b, it)

(* No meeting drive that is still ahead begins while a flight has him, be it
   planned, held over a failed route, or written before the flight was late. *)
NoDriveInFlight ==
  plan.ran =>
    \A b \in calendar : b.kind \in MeetingKinds /\ ~DoneBy(b, now) => ~InProtected(b.start, plan.guards)

\* The drive to the other airport does not fit between the two flights.
Misses(m, x, known) ==
  /\ x \in NextInChain(m, Departing(world)) /\ x.from # m.to
  /\ GuardStart(x, known) - Drive(Route, m.to, x.from) < ReadyAt(m, known)

\* No flight leaves next from where m lands.
LeftThere(m) ==
  \A x \in Flying(world) : m.booked < x.booked =>
    x.from # m.to \/ \E y \in Flying(world) : m.booked < y.booked /\ y.booked < x.booked

SeamCovered(m, known) ==
  \/ \E b \in plan.desired : b.from = m.to /\ b.start >= ReadyAt(m, known)
  \/ \E h \in plan.held : h.kind \in AirportKinds /\ KeyOf(m) \in FlightsOf(h)
  \/ \E x \in Departing(world) : Misses(m, x, known)

(* Nobody is left at an airport: after a landing that no flight from there
   follows, there is a drive, or one is reported as held. *)
SeamsCovered ==
  plan.ran => \A m \in Flying(world) : LeftThere(m) => SeamCovered(m, Known(world))

\* The drive to the other airport begins while a flight has him.
TransferHindered(m, x, known, guards) ==
  InProtected(GuardStart(x, known) - Drive(Route, m.to, x.from), guards)

\* The drive from the airport of m to that of x, if there is to be one, is
\* planned or reported as held.
TransferTold(m, x, known) ==
  LET leg == TransferLeg(m, x, known) IN
  x \in NextInChain(m, Departing(world)) /\ leg \in SeamLegs(m, x, world.lodging, known)
  => Key(leg) \in {Key(l) : l \in plan.desired \cup plan.held}

(* chain.py:17-19: the drive to another airport "ALWAYS generates", since
   "silence here would strand him". *)
TransferAlways ==
  plan.ran => \A m \in Flying(world), x \in Departing(world) : TransferTold(m, x, Known(world))

(* What is true of it: a transfer goes untold only if it would have to begin
   while a flight has him (compose_postarrival), whatever routes fail, however
   late a flight is, and whoever meets him at the landing. *)
TransfersTold ==
  plan.ran => \A m \in Flying(world), x \in Departing(world) :
    TransferTold(m, x, Known(world)) \/ TransferHindered(m, x, Known(world), plan.guards)

(* One drive is on the calendar for each leg (plan_reconcile keys its blocks by
   identity and kind): none twice from two planners, none left beside the one
   that a hand-over at a landing puts in its place, none of an earlier sweep
   beside that of a later one. *)
OneDrivePerLeg == \A b, c \in calendar : Key(b) = Key(c) => b = c

\* A flight lands in the meeting b is for, and the drive from the airport may
\* be handed over to it.
LandedInto(b, guards) ==
  \E e \in world.events, i \in DOMAIN guards :
    e.id = b.id /\ e.start < guards[i].ready /\ guards[i].ready < e.end

(* With the same flights, calendar and position, time and a failing router
   remove no drive.  But a hand-over replaces the drive to the meeting, if an
   outage held that up; and one that has no route gives up the drive home from
   it (_apply_handoff). *)
QuietSweep ==
  [][~plan.ran /\ plan'.ran /\ seen' = seen =>
       \A b \in calendar :
         \/ Key(b) \in {Key(c) : c \in calendar'}
         \/ LandedInto(b, plan'.guards) /\ (b.kind = "return" => faults' # faults)
         \/ b.kind = "transfer" /\ \E m, x \in Departing(world) :
              b.id = <<KeyOf(m), KeyOf(x)>> /\ Misses(m, x, Known(world))]_vars

\* A third record of the route is close to one of two departures only:
\* merge_flights goes on from the earliest, and may put the two apart.
Torn(f, departure, w) ==
  \E g \in SweepFlights(w) :
    SameRoute(f, g) /\ (Span(g.dep, f.dep) <= Tolerance) # (Span(g.dep, departure) <= Tolerance)

\* byAir still flies it under a lower number, and that record speaks for the flight.
Codeshared(f, departure, w) ==
  \E g \in w.air :
    SameRoute(f, g) /\ g.n <= f.n /\ g.dep = departure /\ g.status # "cancelled"

(* A cancelled flight has no drives: neither TripIt's copy brings them back,
   nor a codeshare of a higher number that byAir still has as flying. *)
CancelledStaysOff ==
  plan.ran => \A b \in calendar, f \in world.air :
    /\ b.kind \in AirportKinds /\ ~DoneBy(b, now) /\ f.status = "cancelled" /\ Unreadable(world) = {}
    => \A k \in FlightsOf(b) :
         k[1] = f.from /\ k[2] = f.to /\ Span(k[3], f.dep) <= Tolerance
         => Torn(f, k[3], world) \/ Codeshared(f, k[3], world)
=============================================================================
