---------------------------- MODULE MeetingScan ----------------------------
(***************************************************************************)
(* From calendar events to meeting drives (drive-engine: scan.py,          *)
(* meeting_source.py, attendance_source.py).                               *)
(*                                                                         *)
(* An event is [id, start, end, place, as, row].  as is "meeting", "off"   *)
(* (declined, cancelled, all-day), "virtual" (or without a place) or       *)
(* "untimed"; row is the conference whose recorded attendance the event is *)
(* part of, Nowhere if none.  Flight events are masked before the scan,    *)
(* and markers of the retired planner are gone from the calendar.  The     *)
(* events of a trip the operator drives to (TripPresence) are left out:    *)
(* FlightlessTrips has its drives.  No two events start together.          *)
(*                                                                         *)
(* A route is a function from pairs of places to a drive or Failed, the    *)
(* same for the whole sweep.                                               *)
(***************************************************************************)
EXTENDS Itinerary

CONSTANTS
  Failed,            \* the provider gave no drive
  Grace,             \* PAST_TOLERANCE
  Tight,             \* DEFAULT_TIGHT_GAP_SECONDS
  MaxMeetingDrive,   \* DEFAULT_MAX_REASONABLE_DRIVE
  MinDrive,          \* MIN_MEETING_DRIVE
  Window             \* SWEEP_WINDOW

ASSUME ScanAssumption ==
  /\ {Grace, Tight, MaxMeetingDrive, MinDrive, Window} \subseteq Nat
  /\ Failed \notin Nat

Drive(route, a, b) == route[<<a, b>>]

Block(id, kind, start, end, from, to, anchor, closes) ==
  [id |-> id, kind |-> kind, start |-> start, end |-> end,
   from |-> from, to |-> to, anchor |-> anchor, closes |-> closes]
\* A leg that exists and could not be planned: its block, if any, is kept.
Hold(id, kind, when) == [id |-> id, kind |-> kind, when |-> when]
Nothing == [desired |-> {}, held |-> {}]

-----------------------------------------------------------------------------
(* scan *)

Started(e, now) == e.start <= now - Grace
AtAnchor(e, it) == e.place = MeetingAnchor(it, e.start)

\* _is_routable_candidate: a skipped meeting counts, one under way does not.
Neighbours(events, now, it) ==
  {e \in events : /\ e.as = "meeting"
                  /\ ~Started(e, now) \/ (e.row # Nowhere /\ e.end > now)
                  /\ ~AtAnchor(e, it)}

\* _classify, in its order.
Bucket(e, now, skips, it) ==
  IF e.as \in {"off", "virtual"} THEN "filtered"
  ELSE IF e.as = "untimed" THEN "untimed"
  ELSE IF AtAnchor(e, it) THEN "filtered"
  ELSE IF Started(e, now) THEN "past"
  ELSE IF e.id \in skips THEN "skipped"
  ELSE "actionable"

Previous(e, near) ==
  LET S == {p \in near : p.start < e.start} IN {p \in S : \A q \in S : q.start <= p.start}
Following(e, near) ==
  LET S == {p \in near : e.start < p.start} IN {p \in S : \A q \in S : p.start <= q.start}
TightAfter(e, f) == f.start - e.end <= Tight

VenueOf(e, rows) ==
  LET r == {x \in rows : x.id = e.row} IN IF r = {} THEN e.place ELSE (CHOOSE x \in r : TRUE).venue

\* A leg of a meeting: at is when it must arrive or may leave, gap the time
\* a bridge has, Nowhere for the others.
MeetingLeg(kind, from, to, at, gap) ==
  [kind |-> kind, from |-> from, to |-> to, at |-> at, gap |-> gap]

\* The way in: none from the same venue, straight across from another one
\* close before, else from the anchor.
Inbound(e, near, anchor, rows) ==
  LET close == {p \in Previous(e, near) : TightAfter(p, e)}
      stays(p) == p.place = e.place \/ (e.row # Nowhere /\ e.row = p.row)
  IN  {MeetingLeg("outbound", VenueOf(p, rows), VenueOf(e, rows), e.start, e.start - p.end) :
         p \in {q \in close : ~stays(q)}}
      \cup {MeetingLeg("outbound", anchor, e.place, e.start, Nowhere) :
              x \in {y \in {e} : close = {} /\ y.row = Nowhere}}

\* The way back: none if another meeting follows close, wherever it is.
Homeward(e, near, anchor) ==
  IF e.row # Nowhere \/ \E f \in Following(e, near) : TightAfter(e, f) THEN {}
  ELSE {MeetingLeg("return", e.place, anchor, e.end, Nowhere)}

\* _classify_transit.  On an attended day he returns to where he is at the end.
LegsAmong(e, near, it, rows) ==
  LET later == IF Scoped(it, e.start) \/ Scoped(it, e.end) THEN e.end ELSE e.start
  IN  Inbound(e, near, MeetingAnchor(it, e.start), rows)
      \cup Homeward(e, near, MeetingAnchor(it, later))
MeetingLegs(e, events, now, it, rows) == LegsAmong(e, Neighbours(events, now, it), it, rows)

-----------------------------------------------------------------------------
(* meeting_desired_blocks *)

\* A leg without an end, a route or the time for it is held; one that goes
\* nowhere is not a drive.
PlanLeg(e, l, route) ==
  LET drive == Drive(route, l.from, l.to)
      held == [Nothing EXCEPT !.held = {Hold(e.id, l.kind, l.at)}]
      start == IF l.kind = "return" THEN l.at ELSE l.at - drive
  IN  IF l.from = Nowhere \/ l.to = Nowhere THEN held
      ELSE IF l.from = l.to THEN Nothing
      ELSE IF drive = Failed THEN held
      ELSE IF drive <= MinDrive THEN Nothing
      ELSE IF drive > MaxMeetingDrive \/ (l.gap # Nowhere /\ drive > l.gap) THEN held
      ELSE [Nothing EXCEPT !.desired =
              {Block(e.id, l.kind, start, start + drive, l.from, l.to, l.at, l.at)}]

Both(plans) == [desired |-> UNION {p.desired : p \in plans}, held |-> UNION {p.held : p \in plans}]

PlanMeetings(events, now, skips, it, rows, route) ==
  LET unknowable == {e \in events : Bucket(e, now, skips, it) \in {"past", "untimed"} /\ e.row = Nowhere}
      drivable == {e \in events : Bucket(e, now, skips, it) = "actionable"}
      planned == Both({PlanLeg(p[1], p[2], route) :
                         p \in UNION {{<<e, l>> : l \in MeetingLegs(e, events, now, it, rows)} : e \in drivable}})
  IN  [planned EXCEPT !.held = @ \cup {Hold(e.id, "outbound", e.start) : e \in unknowable}
                                 \cup {Hold(e.id, "return", e.end) : e \in unknowable}]

-----------------------------------------------------------------------------
(* Attendance commutes.  A row is [id, venue, days], a day [start, end, dayEnd]. *)

Presence(rows) ==
  UNION {{[id |-> r.id, start |-> d.start, end |-> d.end, dayEnd |-> d.dayEnd, address |-> r.venue] :
            d \in r.days} : r \in {x \in rows : x.venue # Nowhere}}
Scopes(rows) ==
  UNION {{[start |-> d.dayEnd - Day, end |-> d.dayEnd] : d \in r.days} : r \in rows}

Meets(a, b, S) == \E w \in S : w.start < b /\ a < w.end

\* One way of one day: back after it, or to it before it.
Commute(r, d, back, it, now, busy, route) ==
  LET anchor == IF back THEN d.end ELSE d.start
      kind == IF back THEN "commuteBack" ELSE "commuteOut"
      base == BaseAt(it, IF back THEN anchor ELSE anchor - 1)
      there == PositionAt(it, IF back THEN anchor - 1 ELSE anchor)
      from == IF back THEN r.venue ELSE base.address
      to == IF back THEN base.address ELSE r.venue
      drive == Drive(route, from, to)
      start == IF back THEN anchor ELSE anchor - drive
      end == IF back THEN anchor + drive ELSE anchor
      held == [Nothing EXCEPT !.held = {Hold(<<r.id, d.start>>, kind, anchor)}]
  IN  IF ~(there.source = "attendance" /\ there.detail = r.id) THEN held
      ELSE IF back /\ base.address = Nowhere /\ RoomReleased(it, anchor) THEN Nothing
      ELSE IF anchor < now \/ base.address = Nowhere THEN held
      ELSE IF drive = Failed \/ drive > MaxMeetingDrive THEN held
      ELSE IF drive <= MinDrive THEN Nothing
      ELSE IF start < now \/ BaseAt(it, IF back THEN end ELSE start).address # base.address
              \/ Meets(start, end, busy) THEN held
      ELSE [Nothing EXCEPT !.desired =
              {Block(<<r.id, d.start>>, kind, start, end, from, to, anchor, anchor)}]

\* attendance_desired_blocks
Commutes(rows, it, now, busy, route) ==
  Both({Commute(p[1], p[2], back, it, now, busy, route) :
          back \in BOOLEAN,
          p \in {q \in UNION {{<<r, d>> : d \in r.days} : r \in {x \in rows : x.venue # Nowhere}} :
                   q[2].end >= now /\ q[2].start <= now + Window}})
=============================================================================
