---------------------------- MODULE PostArrival ----------------------------
(***************************************************************************)
(* Meetings around a landing (drive-engine/postarrival.py).                *)
(*                                                                         *)
(* A meeting that is still on when the operator is out of the airport      *)
(* takes over the drive from it: airport to venue, then venue to hotel.    *)
(* No drive starts while a flight has him, between the clearance before    *)
(* it and his way out after it.                                            *)
(*                                                                         *)
(* A guard is [id, start, ready, airport], one per flight that flies, in   *)
(* the order of the chains.  plan is [desired, held]; what composing it    *)
(* adds is [unsafe, used]: the drives that must not survive as held ones,  *)
(* and the meetings a guard has dealt with.  The router never answers a    *)
(* negative drive; the notes are left out.                                 *)
(***************************************************************************)
EXTENDS FlightLegs, MeetingScan, Sequences

CONSTANTS MaxAirportDrive  \* MAX_AIRPORT_DRIVE, _MAX_HANDOFF_DRIVE

ASSUME PostArrivalAssumption == MaxAirportDrive \in Nat

MeetingKinds == {"outbound", "return"}
Key(b) == <<b.id, b.kind>>
MeetingKeys(id) == {<<id, k>> : k \in MeetingKinds}

Guard(m, known) ==
  [id |-> KeyOf(m), start |-> GuardStart(m, known), ready |-> ReadyAt(m, known), airport |-> m.to]

\* build_reconcile_plan: by chain, the chains by their first departure.
Guards(flights, known) ==
  LET Opens(m) == CHOOSE x \in flights :
        /\ x = m \/ (m.trip # Nowhere /\ x.trip = m.trip)
        /\ \A y \in flights : y = m \/ (m.trip # Nowhere /\ y.trip = m.trip) => x.booked <= y.booked
      Before(m, x) == \/ Opens(m).booked < Opens(x).booked
                      \/ Opens(m).booked = Opens(x).booked /\ m.booked < x.booked
      flying == {m \in flights : m.status = "flying"}
      places == 1..Cardinality(flying)
      inOrder == CHOOSE o \in [places -> flying] :
        \A i, j \in places : i < j => o[i] # o[j] /\ ~Before(o[j], o[i])
  IN  [i \in places |-> Guard(inOrder[i], known)]

InProtected(at, guards) ==
  \E i \in DOMAIN guards : guards[i].start <= at /\ at < guards[i].ready

\* postarrival_meetings_from: quiet if nothing is driven home after it.
PostMeetings(events, now, skips, it, rows) ==
  LET eligible == {e \in events : /\ Bucket(e, now, skips, it) \in {"actionable", "past"}
                                  /\ e.id \notin skips}
      legs(e) == IF Bucket(e, now, skips, it) = "actionable"
                 THEN MeetingLegs(e, events, now, it, rows) ELSE {}
      quiet(e) == IF legs(e) # {} THEN \A l \in legs(e) : l.kind # "return"
                  ELSE \E f \in eligible \ {e} : 0 <= f.start - e.end /\ TightAfter(e, f)
  IN  {[id |-> e.id, place |-> e.place, start |-> e.start, end |-> e.end, quiet |-> quiet(e)] :
         e \in {f \in eligible : f.row = Nowhere}}

-----------------------------------------------------------------------------
\* _drop_meeting
Drop(s, keys) ==
  [s EXCEPT !.desired = {b \in @ : Key(b) \notin keys}, !.unsafe = @ \cup keys]

\* _unreachable_note: an unknown drive proves nothing.
Unreachable(g, m, drive) ==
  /\ drive # Failed
  /\ drive > Sooner(MaxAirportDrive, MaxMeetingDrive) \/ g.ready + drive >= m.end

\* _remaining_continuations: the meetings that may follow m, once dropped ones
\* are out, and whether the operator's way to one of them starts at m.
Follows(m, meetings, dropped) ==
  {o \in meetings \ {m} : /\ o.id \notin dropped
                          /\ 0 <= o.start - m.end /\ o.start - m.end <= Tight}
DrivenFrom(m, o, blocks) ==
  \E b \in blocks : /\ Key(b) = <<o.id, "outbound">> /\ b.from = m.place /\ b.to = o.place
                    /\ m.end <= b.start /\ b.end <= o.start
Continues(m, o, s, calendar) ==
  \/ m.place = o.place \/ DrivenFrom(m, o, s.desired)
  \/ <<o.id, "outbound">> \in {Key(h) : h \in s.held} /\ DrivenFrom(m, o, calendar)

\* defect: the drive to the hotel stays beside the one to the meeting.
OthersAndArrival(s, g, m) == {b \in s.desired : Key(b) \notin MeetingKeys(m.id)}

\* The drives that landing g before meeting m has nothing to do with.
Others(s, g, m) ==
  {b \in s.desired : Key(b) \notin {<<g.id, "arrival">>} \cup MeetingKeys(m.id)}

\* _apply_handoff: quiet as it is after that.
Handoff(g, m, quiet, s, it, route) ==
  LET drive == Drive(route, g.airport, m.place)
      lodging == LodgingAhead(it, g.ready)
      here == PositionAt(it, g.ready)
      back == IF lodging # Nowhere THEN lodging
              ELSE IF here.source = "trip_location" THEN Nowhere ELSE here.address
      ret == Drive(route, m.place, back)
      failed == \/ drive = Failed
                \/ ~quiet /\ (IF back = Nowhere THEN TRUE ELSE
                                IF ret = Failed THEN TRUE ELSE ret > MaxMeetingDrive)
      arrives == drive > MinDrive
      returns == IF quiet THEN FALSE ELSE ret > MinDrive
      arrival == {<<g.id, "arrival">>}
  IN  IF failed THEN Drop(s, MeetingKeys(m.id))
      ELSE [s EXCEPT
              !.desired = Others(s, g, m)
                \cup {Block(g.id, "arrival", g.ready, g.ready + drive, g.airport, m.place,
                            g.ready, g.ready) : x \in {y \in {m} : arrives}}
                \cup {Block(m.id, "return", m.end, m.end + ret, m.place, back, m.end, m.end) :
                        x \in {y \in {m} : returns}},
              !.unsafe = @ \cup {<<m.id, "outbound">>}
                \cup (IF arrives THEN {} ELSE arrival)
                \cup (IF returns THEN {} ELSE {<<m.id, "return">>})]

\* One guard of compose_postarrival.
AtLanding(s, g, meetings, it, route, calendar, landed) ==
  LET candidates == {m \in meetings : m.id \notin s.used /\ m.start < g.ready /\ g.ready < m.end}
      gone == {m \in candidates : Unreachable(g, m, Drive(route, g.airport, m.place))}
      dropped == {m.id : m \in gone}
      after == [Drop(s, UNION {MeetingKeys(i) : i \in dropped}) EXCEPT !.used = @ \cup dropped]
      inPlay == candidates \ gone
      m == CHOOSE x \in inPlay : TRUE
      recheck == m.quiet /\ dropped # {}
      follow == Follows(m, meetings, dropped)
      invalid == {<<o.id, "outbound">> : o \in {x \in follow : ~Continues(m, x, after, calendar)}}
      done == IF recheck
              THEN Handoff(g, m, \E o \in follow : Continues(m, o, after, calendar),
                           Drop(after, invalid), it, route)
              ELSE Handoff(g, m, m.quiet, after, it, route)
  IN  IF g.id \notin landed THEN s
      ELSE IF Cardinality(inPlay) # 1 THEN after
      ELSE [done EXCEPT !.used = @ \cup {m.id}]

-----------------------------------------------------------------------------
\* defect: a held drive is judged by the time it is for, not by its start.
HeldUnsafeByDeadline(h, guards, calendar) == InProtected(h.when, guards)

\* _held_is_unsafe: by the drive its block stands for; a return's own time
\* counts too.
HeldUnsafe(h, guards, calendar) ==
  \/ \E b \in calendar : Key(b) = Key(h) /\ InProtected(b.start, guards)
  \/ h.kind = "return" /\ InProtected(h.when, guards)

\* The end of compose_postarrival: what starts inside a guard goes, and a
\* meeting that cannot be driven to is not driven home from.
ClearGuards(s, guards, calendar) ==
  LET inside == {b \in s.desired : InProtected(b.start, guards)}
      badHeld == {h \in s.held : h.id \notin s.used /\ h.kind \in MeetingKinds
                                 /\ HeldUnsafe(h, guards, calendar)}
      noWay == {b.id : b \in {x \in inside \cup badHeld : x.kind = "outbound"}}
      noReturn == {b.id : b \in {x \in inside \cup badHeld : x.kind = "return"}}
      stops == (UNION {MeetingKeys(i) : i \in noWay}) \cup {<<i, "return">> : i \in noReturn}
      unsafe == s.unsafe \cup {Key(b) : b \in inside} \cup stops
  IN  [desired |-> {b \in s.desired \ inside : Key(b) \notin stops},
       held |-> {h \in s.held : Key(h) \notin unsafe}]

\* The guards one after the other, from what the legs came to.
AtLandings(plan, guards, meetings, it, route, calendar) ==
  LET landed == {b.id : b \in {x \in plan.desired : x.kind = "arrival"}}
      after[i \in {0} \cup DOMAIN guards] ==
        IF i = 0 THEN [desired |-> plan.desired, held |-> plan.held, unsafe |-> {}, used |-> {}]
        ELSE AtLanding(after[i - 1], guards[i], meetings, it, route, calendar, landed)
  IN  after

\* compose_postarrival
Compose(plan, guards, meetings, it, route, calendar) ==
  IF guards = <<>> THEN plan
  ELSE ClearGuards(AtLandings(plan, guards, meetings, it, route, calendar)[Len(guards)],
                   guards, calendar)
=============================================================================
