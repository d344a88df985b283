----------------------------- MODULE Itinerary -----------------------------
(***************************************************************************)
(* Where the operator is at an instant (travel-core/itinerary.py).         *)
(*                                                                         *)
(* Flights and trains cut time into ground periods; hotel stays are given  *)
(* to the periods they were booked for; a position is read off the period  *)
(* the instant falls in.  Every drive of the drive engine starts or ends   *)
(* at such a position.  Nothing here has state: an itinerary is built from *)
(* its sources in each sweep.                                              *)
(*                                                                         *)
(* Times are integers of one unit, days are times \div Day.  The unit is   *)
(* the model's: an instant just before t lies in a period that begins      *)
(* before t and does not end before it.  Two transports do not leave and   *)
(* land at the same instants, nor two check-ins of one hotel.              *)
(***************************************************************************)
EXTENDS Integers, FiniteSets

CONSTANTS
  Home, HomeAirports,  \* the residence, the airports it is reached by
  Nowhere,             \* no address, no code, no identity
  Past, Future,        \* the open ends of the first and the last period
  Day,                 \* a day, and _OPEN_STAY
  SameTransport,       \* _SAME_TRANSPORT
  Slept                \* _SLEPT_BEFORE_DEPARTURE

ASSUME ItineraryAssumption ==
  /\ {Day, SameTransport, Slept} \subseteq Nat \ {0}
  /\ Past \in Int /\ Future \in Int /\ Past < 0 /\ Future > 0
  /\ Nowhere \notin HomeAirports /\ Home # Nowhere

Later(a, b) == IF a < b THEN b ELSE a
Sooner(a, b) == IF a < b THEN a ELSE b
Span(a, b) == IF a < b THEN b - a ELSE a - b

-----------------------------------------------------------------------------
(* Transports *)

\* booked is the scheduled departure, dep and arr the live times if known;
\* status is "flying", "cancelled" or "diverted".
Transport(dep, arr, from, to, booked, status) ==
  [dep |-> dep, arr |-> arr, from |-> from, to |-> to, booked |-> booked, status |-> status]

Routed(t) == t.from # Nowhere /\ t.to # Nowhere
BookedClose(t, u) == Span(t.booked, u.booked) <= SameTransport
Leaves(t, u) == t.dep < u.dep \/ (t.dep = u.dep /\ t.arr < u.arr)

\* _routed: the schedule's copies whose route t could have.
Candidates(t, schedule) ==
  {o \in schedule : /\ Routed(o)
                    /\ t.from \in {Nowhere, o.from} /\ t.to \in {Nowhere, o.to}}
NeedsRoute(t) == t.status = "flying" /\ ~Routed(t)
RoutesOf(t, schedule) ==
  {<<o.from, o.to>> : o \in {c \in Candidates(t, schedule) : c.booked = t.booked}}

\* AmbiguousTransport: one journey or two, and the sweep plans nothing.
Ambiguous(t, schedule) ==
  /\ NeedsRoute(t) /\ Cardinality(RoutesOf(t, schedule)) # 1
  /\ \/ RoutesOf(t, schedule) # {}
     \/ \E o \in Candidates(t, schedule) : o.dep < t.arr /\ t.dep < o.arr

WithRoute(t, schedule) ==
  IF NeedsRoute(t) /\ Cardinality(RoutesOf(t, schedule)) = 1
  THEN LET r == CHOOSE r \in RoutesOf(t, schedule) : TRUE
       IN  [t EXCEPT !.from = r[1], !.to = r[2]]
  ELSE t

\* Whether other is a copy of the journey kept stands for.
SameJourney(kept, other) ==
  LET knownFrom == kept.from # Nowhere /\ other.from # Nowhere IN
  IF Routed(kept) /\ Routed(other)
  THEN kept.from = other.from /\ kept.to = other.to /\ BookedClose(kept, other)
  ELSE /\ knownFrom => kept.from = other.from
       /\ IF kept.status = "diverted" /\ kept.from # Nowhere
          THEN kept.from = other.from /\ BookedClose(kept, other)
          ELSE /\ kept.from = other.from /\ kept.to = other.to
               /\ kept.dep = other.dep /\ kept.arr = other.arr

\* _dedupe: one transport per journey, the caller's copy before the
\* schedule's; a cancelled one takes its copies with it.
Dedupe(mine, theirs) ==
  LET routed == {WithRoute(t, theirs) : t \in mine}
      all == routed \cup theirs
      First(t, u) == IF t \in routed <=> u \in routed THEN Leaves(t, u) ELSE t \in routed
      kept[t \in all] == \A u \in all : First(u, t) /\ kept[u] => ~SameJourney(u, t)
  IN  {t \in all : kept[t] /\ t.status # "cancelled"}

-----------------------------------------------------------------------------
(* Trips and stays *)

Trip(first, last, location) == [first |-> first, last |-> last, location |-> location]
NoTrip == Trip(Future, Past, Nowhere)

\* _trip_on: the latest-starting trip whose days cover the day, NoTrip if none.
TripOn(trips, day) ==
  LET covering == {t \in trips : t.first <= day /\ day <= t.last} IN
  IF covering = {} THEN NoTrip
  ELSE CHOOSE t \in covering : \A u \in covering : u.first <= t.first

Stay(start, end, address, hotel, openStart, openEnd) ==
  [start |-> start, end |-> end, address |-> address, hotel |-> hotel,
   openStart |-> openStart, openEnd |-> openEnd, out |-> TRUE]

\* _stays: lodging records are [role, at, until, hotel, trip, address], role
\* "in", "out" or "both" (one record spanning the stay).  A check-in takes the
\* next free check-out of its hotel and trip; an end that is missing is the
\* trip's, or a day away.
Stays(lodging, trips) ==
  LET ins == {r \in lodging : r.role = "in"}
      outs == {r \in lodging : r.role = "out"}
      KeyOf(r) == <<r.hotel, IF r.trip # Nowhere THEN r.trip ELSE TripOn(trips, r.at \div Day)>>
      free(i, taken) == {o \in outs : o.at > i.at /\ KeyOf(o) = KeyOf(i) /\ o \notin taken}
      next(S) == {o \in S : \A p \in S : o.at <= p.at}
      outOf[i \in ins] == next(free(i, UNION {outOf[j] : j \in {k \in ins : k.at < i.at}}))
      EndOf(i) == LET t == TripOn(trips, i.at \div Day)
                  IN  IF t = NoTrip THEN i.at + Day ELSE (t.last + 1) * Day
      StartOf(o) == LET t == TripOn(trips, o.at \div Day)
                    IN  IF t = NoTrip THEN o.at - Day ELSE t.first * Day
  IN  {Stay(r.at, r.until, r.address, r.hotel, FALSE, FALSE) : r \in lodging \ (ins \cup outs)}
      \cup (UNION {{Stay(i.at, o.at, IF i.address # Nowhere THEN i.address ELSE o.address,
                         i.hotel, FALSE, FALSE) : o \in outOf[i]} : i \in ins})
      \cup {Stay(i.at, EndOf(i), i.address, i.hotel, FALSE, TRUE) : i \in {j \in ins : outOf[j] = {}}}
      \cup {s \in {Stay(StartOf(o), o.at, o.address, o.hotel, TRUE, FALSE) :
                     o \in outs \ UNION {outOf[i] : i \in ins}} : s.start < s.end}

-----------------------------------------------------------------------------
(* Ground periods *)

During(p, at) == p.start <= at /\ at < p.end

\* The periods of _periods before they hold stays, in the order of their end.
\* bookedEnd is the scheduled departure that ends it.
Grounds(transports) ==
  LET prior(t) == {u \in transports : Leaves(u, t)}
      last(S) == CHOOSE u \in S : \A v \in S : v = u \/ Leaves(v, u)
      Landed(S) == IF S = {} THEN Past ELSE last(S).arr
      Where(S, else) == IF S = {} THEN else ELSE last(S).to
  IN  {[start |-> Landed(prior(t)), end |-> t.dep, airport |-> Where(prior(t), t.from),
        bookedEnd |-> t.booked] : t \in {u \in transports : Landed(prior(u)) < u.dep}}
      \cup {[start |-> Landed(transports), end |-> Future,
             airport |-> Where(transports, Nowhere), bookedEnd |-> Future]}

Overlap(stay, p) == Later(0, Sooner(stay.end, p.end) - Later(stay.start, p.start))

Earliest(P) == {p \in P : \A q \in P : p.end <= q.end}
Latest(P) == {p \in P : \A q \in P : q.end <= p.end}

\* _primary_period.  Only a check-out known: the period it ends in, or the
\* last before it, and back past each one too short to have slept there.  Only
\* a check-in known: the period it falls in or the next, and on past each one
\* booked to end too soon.  Both: the first of largest overlap.
PrimaryPeriod(stay, P) ==
  LET around == {p \in P : p.start < stay.end /\ stay.end <= p.end}
      base == IF around # {} THEN Earliest(around) ELSE Latest({p \in P : p.end <= stay.end})
      back(p) == {q \in P : q.end <= p.end /\ (q \in Earliest(P) \/ stay.end - q.start >= Slept)}
      first == Earliest({p \in P : During(p, stay.start) \/ p.start > stay.start})
      onward(p) == {q \in P : q.end >= p.end /\
        (q.end = Future \/ q.bookedEnd - Later(stay.start, q.start) >= Slept)}
      most == {p \in P : \A q \in P : Overlap(stay, q) <= Overlap(stay, p)}
  IN  CASE stay.openStart -> UNION {Latest(back(p)) : p \in base}
        [] stay.openEnd -> UNION {Earliest(onward(p)) : p \in first}
        [] OTHER -> {p \in Earliest(most) : Overlap(stay, p) > 0}

\* _home_periods: also every other one it overlaps at the same airport, but
\* never by way of a home airport.
HomePeriods(stay, P) ==
  LET primary == PrimaryPeriod(stay, P) IN
  primary \cup
  {p \in P : \E q \in primary : /\ q.airport \notin HomeAirports \cup {Nowhere}
                                /\ p.airport = q.airport /\ Overlap(stay, p) > 0}

Cut(stay, p, H) ==
  [stay EXCEPT !.start = Later(@, p.start), !.end = Sooner(@, p.end), !.out = p \in Latest(H)]

Periods(transports, stays) ==
  LET P == Grounds(transports)
      piece(s, p) == Cut(s, p, HomePeriods(s, P))
      held(p) == {s \in stays : p \in HomePeriods(s, P) /\ piece(s, p).end > piece(s, p).start}
  IN  {[start |-> p.start, end |-> p.end, airport |-> p.airport,
        stays |-> {piece(s, p) : s \in held(p)}] : p \in P}

\* Itinerary.__init__.  presence are the attendance windows, scopes the days
\* they are about.
BuildItinerary(schedule, transports, presence, scopes) ==
  LET trips == schedule.trips
      kept == Dedupe(transports, schedule.transports)
  IN  [trips |-> trips, transports |-> kept,
       periods |-> Periods(kept, Stays(schedule.lodging, trips)),
       presence |-> presence, scopes |-> scopes]

-----------------------------------------------------------------------------
(* Positions *)

Position(address, source, detail) == [address |-> address, source |-> source, detail |-> detail]
Unresolved == Position(Nowhere, "unresolved", Nowhere)

\* _period_index: in the air, the period he is travelling to.
PeriodAt(it, at) ==
  LET here == Earliest({p \in it.periods : During(p, at)})
      next == Earliest({p \in it.periods : p.start > at})
      here_or_next == IF here # {} THEN here ELSE IF next # {} THEN next ELSE Latest(it.periods)
  IN  CHOOSE p \in here_or_next : TRUE

\* _trip_begun: its first transport has left, or its first stay has begun.
Begun(it, trip, at) ==
  LET during(t) == trip.first <= t \div Day /\ t \div Day <= trip.last IN
  \/ \E t \in it.transports : during(t.dep) /\ t.dep <= at
  \/ \E p \in it.periods : \E s \in p.stays : during(s.start) /\ s.start <= at

\* defect: only the trip's days say whether he is away.
IsHomeByTrip(it, p, at) ==
  LET trip == TripOn(it.trips, at \div Day) IN trip = NoTrip \/ ~Begun(it, trip, at)

\* _is_home, without a stay: by the airport he landed at, else by the trip.
IsHome(it, p, at) ==
  LET trip == TripOn(it.trips, at \div Day)
      landed == HomeAirports # {} /\ p.airport # Nowhere /\ p.start # Past
  IN  IF landed /\ p.airport \notin HomeAirports THEN FALSE
      ELSE \/ landed /\ \A s \in p.stays : s.start > at
           \/ trip = NoTrip \/ ~Begun(it, trip, at)

Covering(p, at) == {s \in p.stays : s.start <= at /\ at < s.end}
NewestOf(S) == CHOOSE s \in S : \A u \in S : u.start <= s.start

\* _last_checked_out: the hotel he last left on this trip, not past a period
\* spent at home; {} if none.
LastCheckedOut(it, period, at) ==
  LET trip == TripOn(it.trips, at \div Day)
      left(p) == {s \in p.stays : /\ s.end <= at /\ s.out /\ s.address # Nowhere
                                  /\ (trip = NoTrip \/ s.end \div Day >= trip.first)}
      stops(p) == p # period /\ (trip = NoTrip \/ IsHome(it, p, p.end))
      reached == {p \in it.periods : /\ p.end <= period.end
                                     /\ \A q \in it.periods :
                                          p.end <= q.end /\ q.end <= period.end => ~stops(q)}
      \* The search ends at the nearest period with such a stay.
      near == Latest({p \in reached : left(p) # {}})
  IN  UNION {{s \in left(p) : \A u \in left(p) : u.end <= s.end} : p \in near}

AwayFallback(it, at) ==
  LET trip == TripOn(it.trips, at \div Day)
  IN  IF trip.location # Nowhere THEN Position(trip.location, "trip_location", Nowhere) ELSE Unresolved

Scoped(it, at) == \E s \in it.scopes : s.start <= at /\ at < s.end

\* After check-out inside an attended day: the venue he attended, or nothing.
CarriedVenue(it, p, left, at) ==
  LET carry == {a \in it.presence :
                  /\ a.end <= at /\ at < a.dayEnd /\ left.end <= a.end
                  /\ During(p, a.start) /\ During(p, at)
                  /\ \A s \in p.stays : ~(left.end <= s.start /\ s.start <= at)}
      newest == CHOOSE a \in carry : \A b \in carry : b.end <= a.end
  IN  IF carry = {} THEN Unresolved ELSE Position(newest.address, "attendance", newest.id)

\* Between two stays: at home, or in the hotel he left.
BetweenStays(it, p, left, at) ==
  LET last == CHOOSE s \in left : TRUE
  IN  IF IsHome(it, p, at) THEN Position(Home, "home", Nowhere)
      ELSE IF left = {} THEN AwayFallback(it, at)
      ELSE IF Scoped(it, at) THEN CarriedVenue(it, p, last, at)
      ELSE Position(last.address, "lodging", last.hotel)

\* In period p.
PositionIn(it, p, at) ==
  LET attending == {a \in it.presence : /\ During(p, at) /\ a.start <= at /\ at < a.end
                                        /\ During(p, a.start)}
      stay == NewestOf(Covering(p, at))
  IN  CASE attending # {} ->
             LET a == CHOOSE a \in attending : TRUE IN Position(a.address, "attendance", a.id)
        [] attending = {} /\ Covering(p, at) # {} ->
             IF stay.address # Nowhere THEN Position(stay.address, "lodging", stay.hotel)
             ELSE IF Scoped(it, at) THEN Unresolved ELSE AwayFallback(it, at)
        [] OTHER -> BetweenStays(it, p, LastCheckedOut(it, p, at), at)

\* position_at.
PositionAt(it, at) == PositionIn(it, PeriodAt(it, at), at)

\* base_at: a bed or home that is his at that instant, never in the air.
BaseAt(it, at) ==
  LET p == PeriodAt(it, at) IN
  CASE ~During(p, at) -> Unresolved
    [] During(p, at) /\ Covering(p, at) # {} ->
         Position(NewestOf(Covering(p, at)).address, "lodging", NewestOf(Covering(p, at)).hotel)
    [] OTHER -> IF IsHome(it, p, at) THEN Position(Home, "home", Nowhere) ELSE Unresolved

\* lodging_checked_out.
RoomReleased(it, at) ==
  LET p == PeriodAt(it, at)
  IN  During(p, at) /\ Covering(p, at) = {} /\ LastCheckedOut(it, p, at) # {}

\* addressable_lodging_in_period: the hotel he is in, or before the first
\* check-in the one he is going to; Nowhere between two.
LodgingAhead(it, at) ==
  LET p == PeriodAt(it, at)
      ahead == {s \in p.stays : s.end > at}
      first == CHOOSE s \in ahead : \A u \in ahead : s.start <= u.start
  IN  CASE Covering(p, at) # {} -> NewestOf(Covering(p, at)).address
        [] Covering(p, at) = {} /\ ahead # {} /\ (\A s \in p.stays : s.end > at) -> first.address
        [] OTHER -> Nowhere

\* reconcile_sweep.meeting_anchor: never a trip's city.
AddressOf(here, lodging) == IF here.source = "trip_location" THEN lodging ELSE here.address
MeetingAnchor(it, at) == AddressOf(PositionAt(it, at), LodgingAhead(it, at))
=============================================================================
