---------------------------- MODULE MCDrivePlan ----------------------------
(* DrivePlan on five journeys from city A to B and on to C, five minutes a
   tick.  Cities are some hours' drive apart: near enough that a drive from
   the wrong city passes for a real one. *)
EXTENDS DrivePlan

CONSTANTS home, airA, airB, airB2, hotelB, deskB, hallB, barB, airC, hotelC,
          cityB, conf, brief, dinner

MCInA == {home, airA}
MCInB == {cityB, airB, airB2, hotelB, deskB, hallB, barB}
MCInC == {airC, hotelC}
MCPlaces == MCInA \cup MCInB \cup MCInC
MCCity == [p \in MCPlaces |-> IF p \in MCInA THEN 1 ELSE IF p \in MCInB THEN 2 ELSE 3]

\* The hotel desk is at the second airport; B and C are five hours apart.
MCRoute ==
  [p \in MCPlaces \X MCPlaces |->
     IF p[1] = p[2] THEN 0
     ELSE IF MCCity[p[1]] # MCCity[p[2]]
     THEN IF 1 \in {MCCity[p[1]], MCCity[p[2]]} THEN 24 ELSE 60
     ELSE IF {p[1], p[2]} = {deskB, airB2} THEN 1
     ELSE IF {p[1], p[2]} = {hallB, airB} THEN 12
     ELSE IF airB2 \in {p[1], p[2]} THEN 10
     ELSE 6]

MCCountry == [a \in {airA, airB, airB2, airC} |-> IF a = airC THEN 2 ELSE 1]
MCNudge == [a \in {airA, airB, airB2, airC} |-> IF a = airB THEN 3 ELSE 0]
MCHomeAirports == {airA}

At(d, h, m) == d * 288 + h * 12 + m \div 5

Air(n, from, to, dep, arr, trip) ==
  [n |-> n, from |-> from, to |-> to, dep |-> dep, arr |-> arr, liveDep |-> Nowhere,
   liveArr |-> Nowhere, trip |-> trip, status |-> "flying", read |-> "yes"]
Booked(n, from, to, dep, arr, trip) ==
  [n |-> n, from |-> from, to |-> to, dep |-> dep, arr |-> arr, trip |-> trip]
Bed(role, at, until, hotel) ==
  [role |-> role, at |-> at, until |-> until, hotel |-> hotel, trip |-> Nowhere, address |-> hotel]
Event(id, start, end, place, row) ==
  [id |-> id, start |-> start, end |-> end, place |-> place, as |-> "meeting", row |-> row]

\* A briefing under way at the landing, a dinner close after it; the trip has a
\* city, so the drive from the airport is known before check-in.
MCBriefing ==
  [air |-> {Air(1, airA, airB, At(1, 8, 0), At(1, 10, 0), 1), Air(2, airB, airA, At(2, 18, 0), At(2, 20, 0), 2)},
   booked |-> {Booked(3, airA, airB, At(1, 8, 0), At(1, 10, 0), 9), Booked(4, airB, airA, At(2, 18, 5), At(2, 20, 0), 9)},
   trips |-> {Trip(1, 2, cityB)}, trains |-> {},
   lodging |-> {Bed("in", At(1, 15, 0), 0, hotelB), Bed("out", At(2, 11, 0), 0, hotelB)},
   events |-> {Event(brief, At(1, 10, 0), At(1, 13, 0), hallB, Nowhere),
               Event(dinner, At(1, 14, 0), At(1, 16, 0), barB, Nowhere)},
   rows |-> {}, boarding |-> TRUE]

\* From one airport of B to the other, and on to C.
MCTransfer ==
  [air |-> {Air(1, airA, airB, At(1, 8, 0), At(1, 10, 0), 1), Air(2, airB2, airC, At(1, 14, 0), At(1, 16, 0), 1)},
   booked |-> {Booked(4, airC, airA, At(2, 18, 0), At(2, 20, 0), 9)},
   trips |-> {Trip(1, 2, Nowhere)}, trains |-> {},
   lodging |-> {Bed("both", At(1, 15, 0), At(2, 11, 0), hotelC)},
   events |-> {}, rows |-> {}, boarding |-> TRUE]

\* A night in B between two flights, only the check-ins known.
MCNight ==
  [air |-> {Air(1, airA, airB, At(1, 8, 0), At(1, 10, 0), 1), Air(2, airB2, airC, At(2, 9, 0), At(2, 11, 0), 1)},
   booked |-> {Booked(3, airA, airB, At(1, 8, 0), At(1, 10, 0), 9), Booked(4, airC, airA, At(3, 18, 0), At(3, 20, 0), 9)},
   trips |-> {Trip(1, 3, Nowhere)}, trains |-> {},
   lodging |-> {Bed("in", At(1, 15, 0), 0, deskB), Bed("in", At(2, 15, 0), 0, hotelC)},
   events |-> {Event(dinner, At(1, 19, 0), At(1, 21, 0), barB, Nowhere)}, rows |-> {}, boarding |-> TRUE]

\* A conference in B, the flight home after it.
MCConference ==
  LET day(d) == [start |-> At(d, 9, 0), end |-> At(d, 17, 0), dayEnd |-> At(d + 1, 0, 0)] IN
  [air |-> {Air(1, airA, airB, At(1, 8, 0), At(1, 10, 0), 1), Air(2, airB, airA, At(2, 21, 0), At(2, 23, 0), 2)},
   booked |-> {Booked(4, airB, airA, At(2, 21, 0), At(2, 23, 0), 9)},
   trips |-> {Trip(1, 2, Nowhere)}, trains |-> {},
   lodging |-> {Bed("in", At(1, 15, 0), 0, hotelB), Bed("out", At(2, 11, 0), 0, hotelB)},
   events |-> {Event(brief, At(2, 10, 0), At(2, 12, 0), hallB, conf),
               Event(dinner, At(1, 19, 0), At(1, 21, 0), barB, Nowhere)},
   rows |-> {[id |-> conf, venue |-> hallB, days |-> {day(2)}]}, boarding |-> TRUE]

\* byAir has the flight out twice, the second time under a partner's code.
MCCodeshare ==
  [air |-> {Air(1, airA, airB, At(1, 8, 0), At(1, 10, 0), 1), Air(5, airA, airB, At(1, 8, 0), At(1, 10, 0), Nowhere),
            Air(2, airB, airA, At(2, 18, 0), At(2, 20, 0), 1)},
   booked |-> {Booked(3, airA, airB, At(1, 8, 5), At(1, 10, 0), 9)},
   trips |-> {Trip(1, 2, cityB)}, trains |-> {},
   lodging |-> {Bed("both", At(1, 15, 0), At(2, 11, 0), hotelB)},
   events |-> {}, rows |-> {}, boarding |-> TRUE]

MCOnward == {MCTransfer}
MCScenarios == {MCBriefing, MCTransfer, MCNight, MCConference, MCCodeshare}
MCInstants == {At(0, 12, 0), At(1, 9, 0), At(1, 12, 0), At(2, 17, 0)}
MCOutages == {{}, {hallB, airB}, {hotelB, deskB, hotelC}}
MCFixes == {Nowhere, barB}
MCDelays == {18, 54}
MCPast == -1000
=============================================================================
