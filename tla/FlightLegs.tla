----------------------------- MODULE FlightLegs -----------------------------
(***************************************************************************)
(* From flight records to ground legs (drive-engine).                      *)
(*                                                                         *)
(*   flight_identity.py  the records of byAir and TripIt, one per flight   *)
(*   chain_builder.py    the flights of one trip, in order                 *)
(*   chain.py            which ground legs a chain has                     *)
(*   leg_anchor.py, airport_lead.py   when each leg is due                 *)
(*                                                                         *)
(* The left-terminal evidence of chain.py is never given by the sweep and  *)
(* is left out.  Facts about an airport (its country, its delays) are      *)
(* known only while a byAir record names it.                               *)
(***************************************************************************)
EXTENDS Itinerary

CONSTANTS
  Tolerance,                       \* DEFAULT_IDENTITY_TOLERANCE
  Country, Schengen, US, Nudge,    \* per airport: its country, its delay nudge
  ClearanceDomestic, ClearanceInternational,
  PostDomestic, PostToUS, PostAbroad

ASSUME FlightLegsAssumption ==
  /\ {Tolerance, ClearanceDomestic, ClearanceInternational, PostDomestic, PostToUS,
      PostAbroad} \subseteq Nat
  /\ DOMAIN Country = DOMAIN Nudge /\ \A a \in DOMAIN Nudge : Nudge[a] \in Nat
  /\ HomeAirports \subseteq DOMAIN Country

-----------------------------------------------------------------------------
(* Identity.  A record is [source, n, from, to, dep, arr, liveDep, liveArr,
   trip, status]: n its number at its source, a live time Nowhere if unknown. *)

SameRoute(f, g) == f.from = g.from /\ f.to = g.to

\* merge_flights: along one route, in order of departure, a record starts a
\* cluster when it is further than Tolerance from the last one that did.
Anchors(departures) ==
  LET anchorOf[t \in departures] ==
        LET earlier == {u \in departures : u < t}
            newest == CHOOSE u \in earlier : \A v \in earlier : v <= u
        IN  IF earlier = {} THEN t
            ELSE IF t - anchorOf[newest] > Tolerance THEN t ELSE anchorOf[newest]
  IN  [t \in departures |-> anchorOf[t]]

Cluster(f, flights) ==
  LET along == {g \in flights : SameRoute(f, g)}
      anchors == Anchors({g.dep : g \in along})
  IN  {g \in along : anchors[g.dep] = anchors[f.dep]}

LowestOf(S) == CHOOSE f \in S : \A g \in S : f.n <= g.n
TripOf(S) == {f.trip : f \in {g \in S : g.trip # Nowhere}}

\* defect: TripIt's record is the base, and what byAir says of the flight is lost.
MergeBookedFirst(cluster) ==
  LET theirs == {f \in cluster : f.source = "tripit"}
      base == LowestOf(IF theirs # {} THEN theirs ELSE cluster)
  IN  [from |-> base.from, to |-> base.to, booked |-> base.dep, dep |-> base.dep,
       arr |-> base.arr, status |-> base.status, trip |-> base.trip]

\* _merge_cluster: byAir's times and status, its lowest record's, before
\* TripIt's, and its trip if it has one.
Merge(cluster) ==
  LET mine == {f \in cluster : f.source = "byair"}
      theirs == cluster \ mine
      base == LowestOf(IF mine # {} THEN mine ELSE theirs)
      named == IF TripOf(mine) # {} THEN {f \in mine : f.trip # Nowhere}
               ELSE {f \in theirs : f.trip # Nowhere}
  IN  [from |-> base.from, to |-> base.to, booked |-> base.dep,
       dep |-> IF base.liveDep = Nowhere THEN base.dep ELSE base.liveDep,
       arr |-> IF base.liveArr = Nowhere THEN base.arr ELSE base.liveArr,
       status |-> base.status,
       trip |-> IF named = {} THEN Nowhere ELSE LowestOf(named).trip]

MergeFlights(flights) == {Merge(Cluster(f, flights)) : f \in flights}

\* canonical_flight_key
KeyOf(m) == <<m.from, m.to, m.booked>>

-----------------------------------------------------------------------------
(* Buffers *)

Land(a, known) == IF a \in known THEN Country[a] ELSE Nowhere

\* departure_class: an unknown end counts as abroad.
Domestic(a, b, known) ==
  LET x == Land(a, known)  y == Land(b, known)
  IN  x # Nowhere /\ y # Nowhere /\ (x = y \/ {x, y} \subseteq Schengen)

\* resolve_departure_clearance_minutes
Clearance(m, known) ==
  (IF Domestic(m.from, m.to, known) THEN ClearanceDomestic ELSE ClearanceInternational)
  + (IF m.from \in known THEN Nudge[m.from] ELSE 0)

\* resolve_post_arrival_minutes
PostArrival(m, known) ==
  IF Domestic(m.from, m.to, known) THEN PostDomestic
  ELSE IF Land(m.to, known) = US THEN PostToUS ELSE PostAbroad

\* flight_protected_bounds
GuardStart(m, known) == m.dep - Clearance(m, known)
ReadyAt(m, known) == m.arr + PostArrival(m, known)

-----------------------------------------------------------------------------
(* Chains and their legs *)

\* group_into_chains: the flight after m in its chain, {} if it is the last.
NextInChain(m, flights) ==
  LET after == {x \in flights : m.trip # Nowhere /\ x.trip = m.trip /\ m.booked < x.booked}
  IN  {x \in after : \A y \in after : x.booked <= y.booked}
FirstInChain(m, flights) == \A x \in flights : m \notin NextInChain(x, flights)

\* build_pair_contexts: a lodging record inside the gap, and a night in it.
Overnight(m, x, lodging) ==
  /\ m.arr < x.dep /\ m.arr \div Day # x.dep \div Day
  /\ \E r \in lodging : m.arr < r.at /\ r.at < x.dep

Leg(kind, id, from, to, anchor, closes) ==
  [kind |-> kind, id |-> id, from |-> from, to |-> to, anchor |-> anchor, closes |-> closes]

\* resolve_leg_anchor; closes is when the leg is behind the operator.
DepartureLeg(m, known) ==
  Leg("departure", KeyOf(m), Nowhere, m.from, GuardStart(m, known), GuardStart(m, known))
ArrivalLeg(m, known) ==
  Leg("arrival", KeyOf(m), m.to, Nowhere, ReadyAt(m, known), ReadyAt(m, known))
TransferLeg(m, x, known) ==
  Leg("transfer", <<KeyOf(m), KeyOf(x)>>, m.to, x.from, ReadyAt(m, known), GuardStart(x, known))

\* defect: two flights of a chain always connect airside.
SeamLegsSilent(m, x, lodging, known) ==
  IF Overnight(m, x, lodging) THEN {ArrivalLeg(m, known), DepartureLeg(x, known)} ELSE {}

\* classify_pair: a night on the ground before another airport before an
\* airside connection.
SeamLegs(m, x, lodging, known) ==
  IF Overnight(m, x, lodging) THEN {ArrivalLeg(m, known), DepartureLeg(x, known)}
  ELSE IF m.to # x.from THEN {TransferLeg(m, x, known)}
  ELSE {}

\* plan_chain_legs over all chains; no leg leaves where a diverted flight was
\* booked to land, whatever follows it (build_reconcile_plan).
ChainLegs(flights, lodging, known) ==
  {DepartureLeg(m, known) : m \in {x \in flights : FirstInChain(x, flights)}}
  \cup UNION {LET next == NextInChain(m, flights)
                  legs == IF next = {} THEN {ArrivalLeg(m, known)}
                          ELSE UNION {SeamLegs(m, x, lodging, known) : x \in next}
              IN  {l \in legs : m.status = "diverted" => l.kind = "departure"} : m \in flights}
=============================================================================
