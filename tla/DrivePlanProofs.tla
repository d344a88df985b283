-------------------------- MODULE DrivePlanProofs --------------------------
(***************************************************************************)
(* What holds of the drives a sweep leaves on the calendar, for any        *)
(* journeys, routes, delays and outages:                                   *)
(*   - no meeting drive begins while a flight has the operator             *)
(*     (FlightsAreClear), and every flight has its guard                   *)
(*     (FlightsAreGuarded);                                                *)
(*   - a cancelled flight has no drives (CancelledFlightsStayOff);         *)
(*   - nobody is left at an airport unannounced, but for reasons that are  *)
(*     named (SeamsAreCovered, TransfersAreTold);                          *)
(*   - each leg has one drive (DrivesAreSingle).                           *)
(*                                                                         *)
(* A plan goes through the landings one by one, and the records of a route *)
(* one by one in order of departure; both are recursive functions.  What   *)
(* they come to is proved from a least counterexample (Least), once it is  *)
(* known that the recursion has a solution (LandingsExist, AnchoredExists).*)
(***************************************************************************)
EXTENDS DrivePlan, FiniteSetTheorems, WellFoundedInduction, TLAPS

\* Among subsets of a finite set there is one that holds no other.
LEMMA Minimal ==
  ASSUME NEW S, IsFiniteSet(S), NEW F, F \subseteq SUBSET S, F # {}
  PROVE  \E s \in F : \A t \in F : ~(t \subseteq s /\ t # s)
<1>1. F \subseteq FiniteSubsetsOf(S)
  BY FS_FiniteSubsetsOfFinite
<1>2. \E s \in F : \A t \in F : ~(<<t, s>> \in StrictSubsetOrdering(S))
  <2> DEFINE R == StrictSubsetOrdering(S)  D == FiniteSubsetsOf(S)
  <2>1. IsWellFoundedOn(R, D) /\ F \subseteq D
    BY <1>1, FS_StrictSubsetOrderingWellFounded
  <2> HIDE DEF R, D
  <2>2. \E s \in F : \A t \in F : ~(<<t, s>> \in R)
    BY <2>1, WFMin
  <2> QED
    BY <2>2 DEF R
<1> QED
  BY <1>2 DEF StrictSubsetOrdering

\* A set of numbers that has a member has a least one.
LEMMA Least ==
  ASSUME NEW T \in SUBSET Nat, T # {}
  PROVE  \E n \in T : \A k \in T : n <= k
<1>1. PICK m \in T : TRUE
  OBVIOUS
<1> DEFINE low == {k \in T : k <= m}
           family == {0..k : k \in low}
           all == 0..m
<1>2. IsFiniteSet(all)
  BY FS_Interval
<1>3. m \in low /\ family \subseteq SUBSET all
  OBVIOUS
<1>4. family # {}
  BY <1>3
<1>5. PICK s \in family : \A t \in family : ~(t \subseteq s /\ t # s)
  <2> HIDE DEF family, low, all
  <2> QED
    BY <1>2, <1>3, <1>4, Minimal
<1>6. PICK n \in low : s = 0..n
  OBVIOUS
<1>7. ASSUME NEW k \in low, k < n PROVE FALSE
  <2>1. 0..k \subseteq 0..n /\ 0..k # 0..n
    BY <1>7
  <2> QED
    BY <1>5, <1>6, <2>1
<1> QED
  BY <1>7

-----------------------------------------------------------------------------
(* The guards one after the other. *)

\* Where the landings begin.
Unlanded(p) == [desired |-> p.desired, held |-> p.held, unsafe |-> {}, used |-> {}]

\* What the landings come to, guard by guard, up to guard n.
Landed(f, n, p, guards, meetings, it, route, cal) ==
  /\ DOMAIN f = 0..n
  /\ f[0] = Unlanded(p)
  /\ \A i \in 1..n :
       f[i] = AtLanding(f[i - 1], guards[i], meetings, it, route, cal,
                        {b.id : b \in {x \in p.desired : x.kind = "arrival"}})

\* The recursion over the guards is well-founded: there is one more result
\* for one more guard.
LEMMA LandingsExist ==
  ASSUME NEW p, NEW guards, NEW meetings, NEW it, NEW route, NEW cal, NEW n \in Nat
  PROVE  \E f : Landed(f, n, p, guards, meetings, it, route, cal)
<1> DEFINE Reached(k) == \E f : Landed(f, k, p, guards, meetings, it, route, cal)
           T == {k \in Nat : ~Reached(k)}
<1>1. ASSUME T # {} PROVE FALSE
  <2>1. PICK k \in T : \A j \in T : k <= j
    <3> HIDE DEF T
    <3>1. T \in SUBSET Nat
      BY DEF T
    <3> QED
      BY <1>1, <3>1, Least
  <2>2. Reached(0)
    <3>1. Landed([i \in 0..0 |-> Unlanded(p)], 0, p, guards, meetings, it, route, cal)
      BY DEF Landed
    <3> QED
      BY <3>1
  <2>3. k - 1 \in Nat /\ Reached(k - 1)
    BY <2>1, <2>2
  <2>4. PICK f : Landed(f, k - 1, p, guards, meetings, it, route, cal)
    BY <2>3
  <2> DEFINE g == [i \in 0..k |-> IF i < k THEN f[i] ELSE
                     AtLanding(f[k - 1], guards[k], meetings, it, route, cal,
                               {b.id : b \in {x \in p.desired : x.kind = "arrival"}})]
  <2>5. Landed(g, k, p, guards, meetings, it, route, cal)
    <3>1. DOMAIN g = 0..k /\ g[0] = Unlanded(p)
      BY <2>3, <2>4 DEF Landed
    <3>2. ASSUME NEW i \in 1..k
          PROVE  g[i] = AtLanding(g[i - 1], guards[i], meetings, it, route, cal,
                                  {b.id : b \in {x \in p.desired : x.kind = "arrival"}})
      <4>1. i - 1 \in 0..k /\ i - 1 < k /\ g[i - 1] = f[i - 1]
        BY <2>3
      <4>2. CASE i = k
        BY <2>3, <4>1, <4>2
      <4>3. CASE i # k
        <5>1. i \in 1..(k - 1) /\ i \in 0..k /\ i < k
          BY <2>3, <4>3
        <5> QED
          BY <2>4, <4>1, <5>1 DEF Landed
      <4> QED
        BY <4>2, <4>3
    <3> HIDE DEF g
    <3> QED
      BY <3>1, <3>2 DEF Landed
  <2> QED
    BY <2>1, <2>5
<1> QED
  BY <1>1

\* So AtLandings is what it is defined to be.
LEMMA LandingsAre ==
  ASSUME NEW p, NEW guards, NEW meetings, NEW it, NEW route, NEW cal, NEW n \in Nat,
         DOMAIN guards = 1..n
  PROVE  Landed(AtLandings(p, guards, meetings, it, route, cal), n,
                p, guards, meetings, it, route, cal)
<1> DEFINE Next0(f) ==
      [i \in {0} \cup DOMAIN guards |->
         IF i = 0 THEN [desired |-> p.desired, held |-> p.held, unsafe |-> {}, used |-> {}]
         ELSE AtLanding(f[i - 1], guards[i], meetings, it, route, cal,
                        {b.id : b \in {x \in p.desired : x.kind = "arrival"}})]
<1>1. {0} \cup DOMAIN guards = 0..n
  OBVIOUS
<1>2. PICK f : Landed(f, n, p, guards, meetings, it, route, cal)
  BY LandingsExist
<1> DEFINE h == [i \in 0..n |-> f[i]]
<1>3. h = Next0(h)
  <2>1. \A i \in 1..n : i - 1 \in 0..n
    OBVIOUS
  <2>2. ASSUME NEW i \in 0..n PROVE h[i] = Next0(h)[i]
    BY <1>1, <1>2, <2>1 DEF Landed, Unlanded
  <2> QED
    BY <1>1, <2>2
<1>4. AtLandings(p, guards, meetings, it, route, cal) = Next0(AtLandings(p, guards, meetings, it, route, cal))
  BY <1>3 DEF AtLandings
<1> DEFINE a == AtLandings(p, guards, meetings, it, route, cal)
<1> HIDE DEF a
<1>5. a = Next0(a)
  BY <1>4 DEF a
<1>6. Landed(a, n, p, guards, meetings, it, route, cal)
  <2>1. DOMAIN a = 0..n /\ a[0] = Unlanded(p)
    BY <1>1, <1>5 DEF Unlanded
  <2>2. ASSUME NEW i \in 1..n
        PROVE  a[i] = AtLanding(a[i - 1], guards[i], meetings, it, route, cal,
                                {b.id : b \in {x \in p.desired : x.kind = "arrival"}})
    <3>1. i \in {0} \cup DOMAIN guards /\ i # 0
      BY <1>1
    <3>2. Next0(a)[i] = AtLanding(a[i - 1], guards[i], meetings, it, route, cal,
                                  {b.id : b \in {x \in p.desired : x.kind = "arrival"}})
      BY <3>1
    <3> HIDE DEF Next0
    <3> QED
      BY <1>5, <3>2
  <2> QED
    BY <2>1, <2>2 DEF Landed
<1> QED
  BY <1>6 DEF a

-----------------------------------------------------------------------------
(* A meeting a guard has dealt with has each of its drives planned, or ruled
   out. *)

Composed(s) == DOMAIN s = {"desired", "held", "unsafe", "used"}

Settled(s) ==
  \A id \in s.used, k \in MeetingKinds :
    <<id, k>> \in s.unsafe \/ \E d \in s.desired : Key(d) = <<id, k>>

\* Dropping drives rules them out.
LEMMA DropSettles ==
  ASSUME NEW s, Composed(s), Settled(s), NEW keys
  PROVE  LET t == Drop(s, keys) IN
         /\ Composed(t) /\ Settled(t) /\ t.used = s.used /\ t.unsafe = s.unsafe \cup keys
<1> DEFINE t == Drop(s, keys)
<1>1. /\ Composed(t) /\ t.used = s.used /\ t.unsafe = s.unsafe \cup keys
      /\ t.desired = {b \in s.desired : Key(b) \notin keys}
  BY DEF Drop, Composed
<1> HIDE DEF t
<1>2. Settled(t)
  BY <1>1 DEF Settled
<1> QED
  BY <1>1, <1>2 DEF t

\* What a handoff over meeting m comes to, unless it fails: some drives come,
\* some go.
Handed(h, s, g, m, route) ==
  \E gone, come :
    /\ h = [s EXCEPT
              !.desired = {b \in s.desired : Key(b) \notin {<<g.id, "arrival">>} \cup MeetingKeys(m.id)}
                            \cup come,
              !.unsafe = s.unsafe \cup gone]
    /\ <<m.id, "outbound">> \in gone
    /\ <<m.id, "return">> \in gone \/ \E d \in come : Key(d) = <<m.id, "return">>
    /\ \A d \in come : (d.id = g.id /\ d.kind = "arrival") \/ d.kind = "return"
    /\ \A k \in gone : k \in MeetingKeys(m.id) \cup {<<g.id, "arrival">>}
    /\ Drive(route, g.airport, m.place) # Failed
    /\ Drive(route, g.airport, m.place) > MinDrive =>
         \E d \in come : Key(d) = <<g.id, "arrival">> /\ d.from = g.airport /\ d.start = g.ready

LEMMA HandoffHands ==
  ASSUME NEW s, Composed(s), NEW g, NEW m, NEW quiet, NEW it, NEW route
  PROVE  LET h == Handoff(g, m, quiet, s, it, route)
         IN  h = Drop(s, MeetingKeys(m.id)) \/ Handed(h, s, g, m, route)
<1> DEFINE
      drive == Drive(route, g.airport, m.place)
      lodging == LodgingAhead(it, g.ready)
      here == PositionAt(it, g.ready)
      back == IF lodging # Nowhere THEN lodging
              ELSE IF here.source = "trip_location" THEN Nowhere ELSE here.address
      ret == Drive(route, m.place, back)
      failed == \/ drive = Failed
                \/ ~quiet /\ (IF back = Nowhere THEN TRUE ELSE
                                IF ret = Failed THEN TRUE ELSE ret > MaxMeetingDrive)
      arrives == drive > MinDrive
      returns == IF quiet THEN FALSE ELSE ret > MinDrive
      arrival == {<<g.id, "arrival">>}
      others == {b \in s.desired : Key(b) \notin arrival \cup MeetingKeys(m.id)}
      out == {Block(g.id, "arrival", g.ready, g.ready + drive, g.airport, m.place,
                    g.ready, g.ready) : x \in {y \in {m} : arrives}}
      home == {Block(m.id, "return", m.end, m.end + ret, m.place, back, m.end, m.end) :
                 x \in {y \in {m} : returns}}
      gone == {<<m.id, "outbound">>} \cup (IF arrives THEN {} ELSE arrival)
                \cup (IF returns THEN {} ELSE {<<m.id, "return">>})
      h == Handoff(g, m, quiet, s, it, route)
<1>1. h = IF failed THEN Drop(s, MeetingKeys(m.id))
          ELSE [s EXCEPT !.desired = others \cup out \cup home,
                         !.unsafe = @ \cup {<<m.id, "outbound">>}
                           \cup (IF arrives THEN {} ELSE arrival)
                           \cup (IF returns THEN {} ELSE {<<m.id, "return">>})]
  BY DEF Handoff, Others
<1>2. /\ <<m.id, "outbound">> \in gone
      /\ <<m.id, "return">> \in gone \/ \E d \in out \cup home : Key(d) = <<m.id, "return">>
  <2> HIDE DEF returns, arrives, arrival
  <2>1. CASE returns
    <3>1. Block(m.id, "return", m.end, m.end + ret, m.place, back, m.end, m.end) \in home
      BY <2>1
    <3>2. Key(Block(m.id, "return", m.end, m.end + ret, m.place, back, m.end, m.end))
            = <<m.id, "return">>
      BY DEF Block, Key
    <3> HIDE DEF home, out
    <3> QED
      BY <3>1, <3>2
  <2>2. CASE ~returns
    BY <2>2
  <2> QED
    BY <2>1, <2>2
<1>3. ASSUME ~failed
      PROVE  h = [s EXCEPT
                    !.desired = {b \in s.desired : Key(b) \notin {<<g.id, "arrival">>} \cup MeetingKeys(m.id)}
                                  \cup (out \cup home),
                    !.unsafe = s.unsafe \cup gone]
  <2>1. others \cup out \cup home
          = {b \in s.desired : Key(b) \notin {<<g.id, "arrival">>} \cup MeetingKeys(m.id)}
              \cup (out \cup home)
    <3> HIDE DEF out, home
    <3> QED
      OBVIOUS
  <2> DEFINE A == IF arrives THEN {} ELSE arrival
             B == IF returns THEN {} ELSE {<<m.id, "return">>}
  <2>2. s.unsafe \cup {<<m.id, "outbound">>} \cup A \cup B = s.unsafe \cup gone
    <3>1. gone = {<<m.id, "outbound">>} \cup A \cup B
      OBVIOUS
    <3> HIDE DEF gone, A, B
    <3> QED
      BY <3>1
  <2> HIDE DEF failed
  <2>3. h = [s EXCEPT !.desired = others \cup out \cup home,
                      !.unsafe = s.unsafe \cup {<<m.id, "outbound">>} \cup A \cup B]
    <3> HIDE DEF out, home, others, arrives, returns
    <3> QED
      BY <1>1, <1>3 DEF Composed
  <2> QED
    BY <2>1, <2>2, <2>3
<1>5. \A d \in out \cup home : (d.id = g.id /\ d.kind = "arrival") \/ d.kind = "return"
  BY DEF Block
<1>6. \A k \in gone : k \in MeetingKeys(m.id) \cup {<<g.id, "arrival">>}
  BY DEF MeetingKeys, MeetingKinds
<1>7. ASSUME drive > MinDrive
      PROVE  \E d \in out \cup home :
               Key(d) = <<g.id, "arrival">> /\ d.from = g.airport /\ d.start = g.ready
  <2> DEFINE b == Block(g.id, "arrival", g.ready, g.ready + drive, g.airport, m.place,
                        g.ready, g.ready)
  <2>1. b \in out
    BY <1>7
  <2>2. Key(b) = <<g.id, "arrival">> /\ b.from = g.airport /\ b.start = g.ready
    BY DEF Block, Key
  <2> HIDE DEF b, out, home
  <2> QED
    BY <2>1, <2>2
<1>8. ~failed => drive # Failed
  OBVIOUS
<1> HIDE DEF failed, out, home, gone
<1>4. Handed(h, s, g, m, route) \/ failed
  BY <1>2, <1>3, <1>5, <1>6, <1>7, <1>8 DEF Handed
<1> QED
  BY <1>1, <1>4

\* A handoff settles its meeting, and leaves the others as they are.
LEMMA HandoffSettles ==
  ASSUME NEW s, Composed(s), Settled(s), NEW g, NEW m, NEW quiet, NEW it, NEW route
  PROVE  LET t == [Handoff(g, m, quiet, s, it, route) EXCEPT !.used = @ \cup {m.id}]
         IN  Composed(t) /\ Settled(t)
<1> DEFINE h == Handoff(g, m, quiet, s, it, route)
           t == [h EXCEPT !.used = @ \cup {m.id}]
<1> SUFFICES Composed(t) /\ Settled(t)
  OBVIOUS
<1>1. h = Drop(s, MeetingKeys(m.id)) \/ Handed(h, s, g, m, route)
  BY HandoffHands
<1> HIDE DEF h
<1>2. CASE h = Drop(s, MeetingKeys(m.id))
  <2>1. /\ Composed(h) /\ Settled(h) /\ h.unsafe = s.unsafe \cup MeetingKeys(m.id)
    BY <1>2, DropSettles
  <2>2. Composed(t) /\ t.used = h.used \cup {m.id} /\ t.unsafe = h.unsafe /\ t.desired = h.desired
    BY <2>1 DEF Composed
  <2> HIDE DEF t
  <2> QED
    BY <2>1, <2>2 DEF Settled, MeetingKeys
<1>3. CASE Handed(h, s, g, m, route)
  <2>1. PICK gone, come :
             /\ h = [s EXCEPT
                      !.desired = {b \in s.desired : Key(b) \notin {<<g.id, "arrival">>} \cup MeetingKeys(m.id)}
                                    \cup come,
                      !.unsafe = s.unsafe \cup gone]
             /\ <<m.id, "outbound">> \in gone
             /\ <<m.id, "return">> \in gone \/ \E d \in come : Key(d) = <<m.id, "return">>
    BY <1>3 DEF Handed
  <2>2. /\ Composed(t) /\ t.used = s.used \cup {m.id} /\ t.unsafe = s.unsafe \cup gone
        /\ t.desired = {b \in s.desired : Key(b) \notin {<<g.id, "arrival">>} \cup MeetingKeys(m.id)} \cup come
    BY <2>1 DEF Composed
  <2> HIDE DEF t
  <2>3. ASSUME NEW id \in t.used, NEW k \in MeetingKinds
        PROVE  <<id, k>> \in t.unsafe \/ \E d \in t.desired : Key(d) = <<id, k>>
    <3>1. CASE id = m.id
      BY <2>1, <2>2, <3>1 DEF MeetingKinds
    <3>2. CASE id # m.id
      <4>1. <<id, k>> \notin {<<g.id, "arrival">>} \cup MeetingKeys(m.id)
        BY <3>2 DEF MeetingKinds, MeetingKeys
      <4> QED
        BY <2>2, <3>2, <4>1 DEF Settled
    <3> QED
      BY <3>1, <3>2
  <2> QED
    BY <2>2, <2>3 DEF Settled
<1> QED
  BY <1>1, <1>2, <1>3

\* A guard settles the meetings it deals with.
LEMMA AtLandingSettles ==
  ASSUME NEW s, Composed(s), Settled(s), NEW g, NEW meetings, NEW it, NEW route, NEW cal,
         NEW landed
  PROVE  LET t == AtLanding(s, g, meetings, it, route, cal, landed)
         IN  Composed(t) /\ Settled(t)
<1> DEFINE
      candidates == {m \in meetings : m.id \notin s.used /\ m.start < g.ready /\ g.ready < m.end}
      gone == {m \in candidates : Unreachable(g, m, Drive(route, g.airport, m.place))}
      dropped == {m.id : m \in gone}
      keys == UNION {MeetingKeys(i) : i \in dropped}
      after == [Drop(s, keys) EXCEPT !.used = @ \cup dropped]
      inPlay == candidates \ gone
      m == CHOOSE x \in inPlay : TRUE
      recheck == m.quiet /\ dropped # {}
      follow == Follows(m, meetings, dropped)
      invalid == {<<o.id, "outbound">> : o \in {x \in follow : ~Continues(m, x, after, cal)}}
      quiet == \E o \in follow : Continues(m, o, after, cal)
      done == IF recheck THEN Handoff(g, m, quiet, Drop(after, invalid), it, route)
              ELSE Handoff(g, m, m.quiet, after, it, route)
      t == AtLanding(s, g, meetings, it, route, cal, landed)
<1> SUFFICES Composed(t) /\ Settled(t)
  OBVIOUS
<1>1. t = IF g.id \notin landed THEN s
          ELSE IF Cardinality(inPlay) # 1 THEN after
          ELSE [done EXCEPT !.used = @ \cup {m.id}]
  BY DEF AtLanding
<1> HIDE DEF t
<1>2. Composed(after) /\ Settled(after)
  <2>1. \A i \in dropped, k \in MeetingKinds : <<i, k>> \in keys
    BY DEF MeetingKeys
  <2> HIDE DEF keys, dropped
  <2> DEFINE d == Drop(s, keys)
  <2>2. Composed(d) /\ Settled(d) /\ d.unsafe = s.unsafe \cup keys
    BY DropSettles
  <2> HIDE DEF d
  <2> DEFINE a == [d EXCEPT !.used = @ \cup dropped]
  <2>3. Composed(a) /\ a.used = d.used \cup dropped /\ a.unsafe = d.unsafe /\ a.desired = d.desired
    BY <2>2 DEF Composed
  <2> HIDE DEF a
  <2>4. Composed(a) /\ Settled(a)
    BY <2>1, <2>2, <2>3 DEF Settled
  <2> QED
    BY <2>4 DEF a, d
<1> HIDE DEF after, inPlay, quiet, invalid, m, recheck
<1>3. CASE recheck
  <2>1. Composed(Drop(after, invalid)) /\ Settled(Drop(after, invalid))
    BY <1>2, DropSettles
  <2> DEFINE e == Drop(after, invalid)
             r == [Handoff(g, m, quiet, e, it, route) EXCEPT !.used = @ \cup {m.id}]
  <2> HIDE DEF e
  <2>2. Composed(r) /\ Settled(r)
    BY <2>1, HandoffSettles DEF e
  <2>3. [done EXCEPT !.used = @ \cup {m.id}] = r
    BY <1>3 DEF e
  <2> HIDE DEF r, done
  <2> QED
    BY <1>1, <1>2, <2>2, <2>3
<1>4. CASE ~recheck
  <2> DEFINE r == [Handoff(g, m, m.quiet, after, it, route) EXCEPT !.used = @ \cup {m.id}]
  <2>1. Composed(r) /\ Settled(r)
    BY <1>2, HandoffSettles
  <2>2. [done EXCEPT !.used = @ \cup {m.id}] = r
    BY <1>4
  <2> HIDE DEF r, done
  <2> QED
    BY <1>1, <1>2, <2>1, <2>2
<1> QED
  BY <1>3, <1>4

\* All of the guards do.
LEMMA LandingsSettle ==
  ASSUME NEW p, NEW guards, NEW meetings, NEW it, NEW route, NEW cal, NEW n \in Nat,
         DOMAIN guards = 1..n
  PROVE  LET s == AtLandings(p, guards, meetings, it, route, cal)[n]
         IN  Composed(s) /\ Settled(s)
<1> DEFINE a == AtLandings(p, guards, meetings, it, route, cal)
           Fine(k) == Composed(a[k]) /\ Settled(a[k])
           T == {k \in 0..n : ~Fine(k)}
<1>1. Landed(a, n, p, guards, meetings, it, route, cal)
  BY LandingsAre
<1> HIDE DEF a
<1>2. Fine(0)
  BY <1>1 DEF Landed, Unlanded, Composed, Settled
<1>3. ASSUME NEW k \in 1..n, Fine(k - 1) PROVE Fine(k)
  <2>1. a[k] = AtLanding(a[k - 1], guards[k], meetings, it, route, cal,
                         {b.id : b \in {x \in p.desired : x.kind = "arrival"}})
    BY <1>1 DEF Landed
  <2> QED
    BY <1>3, <2>1, AtLandingSettles
<1> HIDE DEF Fine
<1>4. ASSUME T # {} PROVE FALSE
  <2>1. T \in SUBSET Nat
    OBVIOUS
  <2>2. PICK k \in T : \A j \in T : k <= j
    <3> HIDE DEF T
    <3> QED
      BY <1>4, <2>1, Least
  <2>3. k \in 1..n /\ k - 1 \in 0..n /\ k - 1 \notin T
    BY <1>2, <2>2
  <2> QED
    BY <1>3, <2>2, <2>3
<1>5. Fine(n)
  BY <1>4
<1> QED
  BY <1>5 DEF Fine, a

\* No drive that is left begins in a guard, and a meeting drive of the calendar
\* that does is not held, unless another one takes its place.
LEMMA ComposeClears ==
  ASSUME NEW p, NEW guards, NEW meetings, NEW it, NEW route, NEW cal, NEW n \in Nat,
         DOMAIN guards = 1..n, Len(guards) = n
  PROVE  LET c == Compose(p, guards, meetings, it, route, cal) IN
         /\ \A b \in c.desired : ~InProtected(b.start, guards)
         /\ \A b \in cal, h \in c.held :
              /\ b.kind \in MeetingKinds /\ Key(h) = Key(b) /\ InProtected(b.start, guards)
              => \E d \in c.desired : Key(d) = Key(b)
<1> DEFINE c == Compose(p, guards, meetings, it, route, cal)
           s == AtLandings(p, guards, meetings, it, route, cal)[n]
           inside == {b \in s.desired : InProtected(b.start, guards)}
           badHeld == {h \in s.held : h.id \notin s.used /\ h.kind \in MeetingKinds
                                      /\ HeldUnsafe(h, guards, cal)}
           noWay == {b.id : b \in {x \in inside \cup badHeld : x.kind = "outbound"}}
           noReturn == {b.id : b \in {x \in inside \cup badHeld : x.kind = "return"}}
           ways == UNION {MeetingKeys(i) : i \in noWay}
           returns == {<<i, "return">> : i \in noReturn}
           stops == ways \cup returns
           unsafe == s.unsafe \cup {Key(b) : b \in inside} \cup stops
<1> SUFFICES /\ \A b \in c.desired : ~InProtected(b.start, guards)
             /\ \A b \in cal, h \in c.held :
                  /\ b.kind \in MeetingKinds /\ Key(h) = Key(b) /\ InProtected(b.start, guards)
                  => \E d \in c.desired : Key(d) = Key(b)
  OBVIOUS
<1>1. CASE guards = <<>>
  BY <1>1 DEF Compose, InProtected
<1>2. CASE guards # <<>>
  <2>1. /\ c.desired = {b \in s.desired \ inside : Key(b) \notin stops}
        /\ c.held = {h \in s.held : Key(h) \notin unsafe}
    <3>1. c = ClearGuards(s, guards, cal)
      BY <1>2 DEF Compose
    <3> HIDE DEF c, s
    <3>2. ClearGuards(s, guards, cal)
            = [desired |-> {b \in s.desired \ inside : Key(b) \notin stops},
               held |-> {h \in s.held : Key(h) \notin unsafe}]
      BY DEF ClearGuards
    <3> HIDE DEF inside, stops, unsafe
    <3> QED
      BY <3>1, <3>2
  <2>2. Settled(s)
    BY LandingsSettle
  <2> HIDE DEF c, s
  <2>3. ASSUME NEW b \in cal, NEW h \in c.held, b.kind \in MeetingKinds, Key(h) = Key(b),
               InProtected(b.start, guards)
        PROVE  \E d \in c.desired : Key(d) = Key(b)
    <3>1. h.id = b.id /\ h.kind = b.kind /\ h \in s.held /\ Key(h) \notin unsafe
      BY <2>1, <2>3 DEF Key
    <3>2. HeldUnsafe(h, guards, cal)
      BY <2>3 DEF HeldUnsafe
    <3>3. h.id \in s.used
      <4>1. ASSUME h.id \notin s.used PROVE FALSE
        <5>1. h \in badHeld
          BY <2>3, <3>1, <3>2, <4>1
        <5>2. CASE h.kind = "outbound"
          <6>1. h.id \in noWay
            BY <5>1, <5>2
          <6>2. Key(h) \in MeetingKeys(h.id)
            BY <5>2 DEF Key, MeetingKeys, MeetingKinds
          <6>3. Key(h) \in ways
            <7> HIDE DEF noWay
            <7> QED
              BY <6>1, <6>2
          <6>4. Key(h) \in stops
            BY <6>3
          <6> HIDE DEF stops
          <6> QED
            BY <3>1, <6>4
        <5>3. CASE h.kind = "return"
          <6>1. h.id \in noReturn
            BY <5>1, <5>3
          <6>2. Key(h) = <<h.id, "return">>
            BY <5>3 DEF Key
          <6>3. Key(h) \in returns
            <7> HIDE DEF noReturn
            <7> QED
              BY <6>1, <6>2
          <6>4. Key(h) \in stops
            <7> HIDE DEF ways, returns
            <7> QED
              BY <6>3
          <6> HIDE DEF stops
          <6> QED
            BY <3>1, <6>4
        <5> QED
          BY <2>3, <3>1, <5>2, <5>3 DEF MeetingKinds
      <4> QED
        BY <4>1
    <3>4. PICK d \in s.desired : Key(d) = Key(h)
      <4>1. Key(h) = <<h.id, h.kind>> /\ h.kind \in MeetingKinds /\ Key(h) \notin s.unsafe
        BY <2>3, <3>1 DEF Key
      <4> QED
        BY <2>2, <3>3, <4>1 DEF Settled
    <3>5. d \notin inside /\ Key(d) \notin stops
      BY <3>1, <3>4
    <3> QED
      BY <2>1, <2>3, <3>4, <3>5
  <2>4. \A b \in c.desired : ~InProtected(b.start, guards)
    BY <2>1
  <2> QED
    BY <2>3, <2>4
<1> QED
  BY <1>1, <1>2

-----------------------------------------------------------------------------
(* The guards of a sweep. *)

\* What a function makes of a finite set is finite.
LEMMA FiniteImage ==
  ASSUME NEW S, IsFiniteSet(S), NEW f, f = [x \in S |-> f[x]]
  PROVE  IsFiniteSet({f[x] : x \in S})
<1>1. f \in Surjection(S, {f[x] : x \in S})
  BY DEF Surjection
<1> QED
  BY <1>1, FS_Surjection

\* Finitely many flights are known.
FiniteAir(w) == IsFiniteSet(w.air) /\ IsFiniteSet(w.booked)

LEMMA FiniteRecords ==
  ASSUME NEW w, FiniteAir(w)
  PROVE  IsFiniteSet(SweepFlights(w))
<1> DEFINE a == [f \in Readable(w) |-> Record(f, "byair", f.liveDep, f.liveArr, f.status)]
           b == [f \in w.booked |-> Record(f, "tripit", Nowhere, Nowhere, "flying")]
<1>1. IsFiniteSet(Readable(w))
  BY FS_Subset DEF FiniteAir, Readable
<1>2. IsFiniteSet({a[f] : f \in Readable(w)}) /\ IsFiniteSet({b[f] : f \in w.booked})
  <2>1. a = [f \in Readable(w) |-> a[f]] /\ b = [f \in w.booked |-> b[f]]
    OBVIOUS
  <2> HIDE DEF a, b
  <2> QED
    BY <1>1, <2>1, FiniteImage DEF FiniteAir
<1>3. SweepFlights(w) = {a[f] : f \in Readable(w)} \cup {b[f] : f \in w.booked}
  BY DEF SweepFlights
<1> HIDE DEF a, b
<1> QED
  BY <1>2, <1>3, FS_Union

LEMMA FiniteFlights ==
  ASSUME NEW w, FiniteAir(w)
  PROVE  IsFiniteSet(MergeFlights(SweepFlights(w)))
<1>1. IsFiniteSet(SweepFlights(w))
  BY FiniteRecords
<1> DEFINE F == SweepFlights(w)
           m == [f \in F |-> Merge(Cluster(f, F))]
<1>2. MergeFlights(F) = {m[f] : f \in F} /\ m = [f \in F |-> m[f]]
  BY DEF MergeFlights
<1> HIDE DEF m
<1> QED
  BY <1>1, <1>2, FiniteImage

LEMMA GuardsAreMany ==
  ASSUME NEW flights, IsFiniteSet(flights), NEW known
  PROVE  \E n \in Nat : DOMAIN Guards(flights, known) = 1..n /\ Len(Guards(flights, known)) = n
<1> DEFINE
      Opens(m) == CHOOSE x \in flights :
        /\ x = m \/ (m.trip # Nowhere /\ x.trip = m.trip)
        /\ \A y \in flights : y = m \/ (m.trip # Nowhere /\ y.trip = m.trip) => x.booked <= y.booked
      Before(m, x) == \/ Opens(m).booked < Opens(x).booked
                      \/ Opens(m).booked = Opens(x).booked /\ m.booked < x.booked
      flying == {m \in flights : m.status = "flying"}
      n == Cardinality(flying)
      order == CHOOSE o \in [1..n -> flying] :
        \A i, j \in 1..n : i < j => o[i] # o[j] /\ ~Before(o[j], o[i])
<1>1. n \in Nat
  BY FS_Subset, FS_CardinalityType
<1>2. Guards(flights, known) = [i \in 1..n |-> Guard(order[i], known)]
  BY DEF Guards
<1> HIDE DEF order
<1> HIDE DEF n
<1>3. DOMAIN Guards(flights, known) = 1..n
  BY <1>2
<1>4. Len(Guards(flights, known)) = n
  BY <1>1, <1>2
<1> QED
  BY <1>1, <1>3, <1>4

-----------------------------------------------------------------------------
(* The world keeps its shape, whoever changes it. *)

FlightShape(f) ==
  DOMAIN f = {"n", "from", "to", "dep", "arr", "liveDep", "liveArr", "trip", "status", "read"}
WorldShape ==
  /\ DOMAIN world = {"air", "booked", "trips", "trains", "lodging", "events", "rows", "boarding"}
  /\ IsFiniteSet(world.air) /\ IsFiniteSet(world.booked)
  /\ \A f \in world.air : FlightShape(f)

\* Another answer for the same flight.
AnswerFor(f, g) ==
  /\ FlightShape(g) /\ g.n = f.n /\ g.from = f.from /\ g.to = f.to /\ g.dep = f.dep /\ g.arr = f.arr
  /\ \A t \in {g.liveDep, g.liveArr} :
       t \in {f.liveDep, f.liveArr} \/ \E d \in Delays : t = f.dep + d \/ t = f.arr + d

\* A step changes nothing of the world, one of byAir's flights, or an event.
LEMMA WorldSteps ==
  ASSUME WorldShape, [Next]_vars
  PROVE  \/ world' = world
         \/ \E f \in world.air : \E g : /\ AnswerFor(f, g)
                                       /\ world' = [world EXCEPT !.air = (@ \ {f}) \cup {g}]
         \/ \E events : world' = [world EXCEPT !.events = events]
<1>1. CASE Sweep \/ Tick \/ UNCHANGED vars
  BY <1>1 DEF Sweep, Tick, vars
<1>2. ASSUME NEW f \in world.air, Delay(f) \/ Disrupt(f) \/ Unread(f)
      PROVE  \E g : AnswerFor(f, g) /\ world' = [world EXCEPT !.air = (@ \ {f}) \cup {g}]
  <2>0. FlightShape(f)
    BY DEF WorldShape
  <2>1. \E g : AnswerFor(f, g) /\ Answers(f, g)
    <3>1. CASE Delay(f)
      BY <2>0, <3>1 DEF Delay, AnswerFor, FlightShape
    <3>2. CASE Disrupt(f)
      BY <2>0, <3>2 DEF Disrupt, AnswerFor, FlightShape
    <3>3. CASE Unread(f)
      BY <2>0, <3>3 DEF Unread, AnswerFor, FlightShape
    <3> QED
      BY <1>2, <3>1, <3>2, <3>3
  <2> QED
    BY <2>1 DEF Answers
<1>3. ASSUME NEW e \in world.events, MoveMeeting(e) \/ SkipDrive(e)
      PROVE  world' = world \/ \E events : world' = [world EXCEPT !.events = events]
  BY <1>3 DEF MoveMeeting, SkipDrive
<1> QED
  BY <1>1, <1>2, <1>3 DEF Next

LEMMA WorldKeepsShape ==
  ASSUME WorldShape, [Next]_vars
  PROVE  WorldShape'
<1>1. ASSUME NEW f \in world.air, NEW g, AnswerFor(f, g),
             world' = [world EXCEPT !.air = (@ \ {f}) \cup {g}]
      PROVE  WorldShape'
  <2>1. IsFiniteSet((world.air \ {f}) \cup {g})
    BY FS_RemoveElement, FS_AddElement DEF WorldShape
  <2> QED
    BY <1>1, <2>1 DEF WorldShape, AnswerFor
<1>2. ASSUME NEW events, world' = [world EXCEPT !.events = events]
      PROVE  WorldShape'
  BY <1>2 DEF WorldShape
<1>3. world' = world => WorldShape'
  BY DEF WorldShape
<1> QED
  BY <1>1, <1>2, <1>3, WorldSteps

\* The times of the flights are times, and their airports are known ones.
Timed(w) ==
  /\ \A f \in w.air \cup w.booked : /\ f.n \in Nat /\ f.dep \in Int /\ f.arr \in Int
                                    /\ f.from \in DOMAIN Nudge /\ f.to \in DOMAIN Nudge
  /\ \A f \in w.air : f.liveDep \in Int \cup {Nowhere} /\ f.liveArr \in Int \cup {Nowhere}

LEMMA WorldStaysTimed ==
  ASSUME WorldShape, Timed(world), [Next]_vars
  PROVE  Timed(world)'
<1>1. ASSUME NEW f \in world.air, NEW g, AnswerFor(f, g),
             world' = [world EXCEPT !.air = (@ \ {f}) \cup {g}]
      PROVE  Timed(world)'
  <2>1. world'.air = (world.air \ {f}) \cup {g} /\ world'.booked = world.booked
    BY <1>1 DEF WorldShape
  <2>2. Timed(world) => /\ f.n \in Nat /\ f.dep \in Int /\ f.arr \in Int
                        /\ f.from \in DOMAIN Nudge /\ f.to \in DOMAIN Nudge
                        /\ f.liveDep \in Int \cup {Nowhere} /\ f.liveArr \in Int \cup {Nowhere}
    BY DEF Timed
  <2>3. \A d \in Delays : d \in Int
    BY DrivePlanAssumption
  <2>4. g.liveDep \in Int \cup {Nowhere} /\ g.liveArr \in Int \cup {Nowhere}
    BY <1>1, <2>2, <2>3 DEF AnswerFor
  <2> QED
    BY <1>1, <2>1, <2>2, <2>4 DEF Timed, AnswerFor
<1>2. ASSUME NEW events, world' = [world EXCEPT !.events = events]
      PROVE  Timed(world)'
  <2>1. world'.air = world.air /\ world'.booked = world.booked
    BY <1>2 DEF WorldShape
  <2> QED
    BY <2>1 DEF Timed
<1>3. world' = world => Timed(world)'
  BY DEF Timed
<1> QED
  BY <1>1, <1>2, <1>3, WorldSteps

-----------------------------------------------------------------------------
(* No drive begins while a flight has the operator. *)

\* Only commutes are taken off the plan for want of a bed.
LEMMA HousedKeepsMeetings ==
  ASSUME NEW p, NEW it
  PROVE  /\ Housed(p, it).desired \subseteq p.desired
         /\ \A b \in p.desired : b.kind \in MeetingKinds => b \in Housed(p, it).desired
         /\ \A h \in Housed(p, it).held : h.kind \in MeetingKinds => h \in p.held
BY DEF Housed, Without, Unavailable, CommuteKinds, MeetingKinds, Hold

LEMMA SweepClears ==
  ASSUME WorldShape, Sweep
  PROVE  NoDriveInFlight'
<1>1. PICK outage \in Outages, live \in Fixes : plan' = PlanDrives(world, live, Outage(outage))
  BY DEF Sweep
<1> DEFINE route == Outage(outage)
           known == Known(world)
           flights == {m \in MergeFlights(SweepFlights(world)) : m.status # "cancelled"}
           guards == Guards(flights, known)
           it == ItineraryFor(world)
           legs == Legs(world, it, flights, known, live, route)
           meetings == PostMeetings(Events(world), now, skips, it, world.rows)
           c == Compose(Clear(legs, guards), guards, meetings, it, route, calendar)
           h == Housed(c, it)
<1>2. plan' = [ran |-> TRUE, desired |-> h.desired, held |-> h.held, guards |-> guards]
  BY <1>1 DEF PlanDrives, PlanFor, Fitted, Planned
<1>3. IsFiniteSet(flights)
  BY FiniteFlights, FS_Subset DEF WorldShape, FiniteAir
<1>4. PICK n \in Nat : DOMAIN guards = 1..n /\ Len(guards) = n
  <2> HIDE DEF flights, known
  <2> QED
    BY <1>3, GuardsAreMany
<1>5. /\ \A b \in c.desired : ~InProtected(b.start, guards)
      /\ \A b \in calendar, x \in c.held :
           /\ b.kind \in MeetingKinds /\ Key(x) = Key(b) /\ InProtected(b.start, guards)
           => \E d \in c.desired : Key(d) = Key(b)
  <2> HIDE DEF guards, legs, meetings, it, route
  <2> QED
    BY <1>4, ComposeClears
<1>6. /\ h.desired \subseteq c.desired
      /\ \A b \in c.desired : b.kind \in MeetingKinds => b \in h.desired
      /\ \A x \in h.held : x.kind \in MeetingKinds => x \in c.held
  <2> HIDE DEF c, it
  <2> QED
    BY HousedKeepsMeetings
<1> HIDE DEF c, h, guards
<1>7. calendar' = Reconciled(plan', Retained(world)) /\ now' = now
  BY DEF Sweep
<1>8. ASSUME NEW b \in calendar', b.kind \in MeetingKinds, ~DoneBy(b, now), InProtected(b.start, guards)
      PROVE  FALSE
  <2>1. b \in h.desired \/ /\ b \in calendar
                           /\ \A d \in h.desired : Key(d) # Key(b)
                           /\ \E x \in h.held : Key(x) = Key(b)
    BY <1>2, <1>7, <1>8 DEF Reconciled
  <2>2. CASE b \in h.desired
    BY <1>5, <1>6, <1>8, <2>2
  <2>3. CASE b \in calendar /\ (\A d \in h.desired : Key(d) # Key(b)) /\ \E x \in h.held : Key(x) = Key(b)
    <3>1. PICK x \in h.held : Key(x) = Key(b)
      BY <2>3
    <3>2. x.kind \in MeetingKinds
      BY <1>8, <3>1 DEF Key
    <3>3. PICK d \in c.desired : Key(d) = Key(b)
      BY <1>5, <1>6, <1>8, <2>3, <3>1, <3>2
    <3>4. d \in h.desired
      BY <1>6, <1>8, <3>3 DEF Key
    <3> QED
      BY <2>3, <3>3, <3>4
  <2> QED
    BY <2>1, <2>2, <2>3
<1>9. plan'.guards = guards
  BY <1>2
<1> QED
  BY <1>7, <1>8, <1>9 DEF NoDriveInFlight

\* No meeting drive that is still ahead begins while a flight has the
\* operator (compose_postarrival, plan_reconcile), however a drive came to be
\* planned, held or left, and whatever was dropped or put in its place.
THEOREM FlightsAreClear == Spec => []NoDriveInFlight
<1>1. Init => WorldShape /\ NoDriveInFlight
  BY DrivePlanAssumption DEF Init, WorldShape, FlightShape, NoDriveInFlight, NoPlan
<1>2. WorldShape /\ NoDriveInFlight /\ [Next]_vars => (WorldShape /\ NoDriveInFlight)'
  <2> SUFFICES ASSUME WorldShape, NoDriveInFlight, [Next]_vars PROVE (WorldShape /\ NoDriveInFlight)'
    OBVIOUS
  <2>1. WorldShape'
    BY WorldKeepsShape
  <2>2. Sweep => NoDriveInFlight'
    BY SweepClears
  <2>3. plan' = NoPlan => NoDriveInFlight'
    BY DEF NoDriveInFlight, NoPlan
  <2>4. UNCHANGED vars => NoDriveInFlight'
    BY DEF NoDriveInFlight, vars
  <2>5. Next => Sweep \/ plan' = NoPlan
    BY DEF Next, Delay, Disrupt, Unread, MoveMeeting, SkipDrive, Tick, Changed
  <2> QED
    BY <2>1, <2>2, <2>3, <2>4, <2>5
<1> QED
  BY <1>1, <1>2, PTL DEF Spec

-----------------------------------------------------------------------------
(* The ends of a finite set of numbers. *)

LEMMA Newest ==
  ASSUME NEW S \in SUBSET Int, IsFiniteSet(S), S # {}
  PROVE  \E n \in S : \A u \in S : u <= n
<1> DEFINE from(k) == {u \in S : u >= k}
           family == {from(k) : k \in S}
<1>1. PICK s \in family : \A t \in family : ~(t \subseteq s /\ t # s)
  <2> DEFINE all == S
  <2>1. family \subseteq SUBSET all /\ family # {} /\ IsFiniteSet(all)
    OBVIOUS
  <2> HIDE DEF family, all
  <2> QED
    BY <2>1, Minimal
<1>2. PICK n \in S : s = from(n)
  <2> HIDE DEF from
  <2> QED
    BY <1>1
<1>3. ASSUME NEW u \in S, ~(u <= n) PROVE FALSE
  <2>1. u \in Int /\ n \in Int /\ \A v \in S : v \in Int
    OBVIOUS
  <2>2. \A v \in S : v \in from(u) => v \in from(n)
    BY <1>3, <2>1
  <2>3. n \in from(n) /\ n \notin from(u)
    BY <1>3, <2>1
  <2>4. from(u) \subseteq S /\ from(u) \in family
    OBVIOUS
  <2> HIDE DEF from, family
  <2>5. from(u) \subseteq from(n) /\ from(u) # from(n)
    BY <2>2, <2>3, <2>4
  <2> QED
    BY <1>1, <1>2, <2>4, <2>5
<1> QED
  BY <1>3

LEMMA Oldest ==
  ASSUME NEW S \in SUBSET Int, IsFiniteSet(S), S # {}
  PROVE  \E n \in S : \A u \in S : n <= u
<1> DEFINE to(k) == {u \in S : u <= k}
           family == {to(k) : k \in S}
<1>1. PICK s \in family : \A t \in family : ~(t \subseteq s /\ t # s)
  <2> DEFINE all == S
  <2>1. family \subseteq SUBSET all /\ family # {} /\ IsFiniteSet(all)
    OBVIOUS
  <2> HIDE DEF family, all
  <2> QED
    BY <2>1, Minimal
<1>2. PICK n \in S : s = to(n)
  <2> HIDE DEF to
  <2> QED
    BY <1>1
<1>3. ASSUME NEW u \in S, ~(n <= u) PROVE FALSE
  <2>1. u \in Int /\ n \in Int /\ \A v \in S : v \in Int
    OBVIOUS
  <2>2. \A v \in S : v \in to(u) => v \in to(n)
    BY <1>3, <2>1
  <2>3. n \in to(n) /\ n \notin to(u)
    BY <1>3, <2>1
  <2>4. to(u) \subseteq S /\ to(u) \in family
    OBVIOUS
  <2> HIDE DEF to, family
  <2>5. to(u) \subseteq to(n) /\ to(u) # to(n)
    BY <2>2, <2>3, <2>4
  <2> QED
    BY <1>1, <1>2, <2>4, <2>5
<1> QED
  BY <1>3

-----------------------------------------------------------------------------
(* The departures of one route, and where each cluster of them starts. *)

Departures(D) == D \in SUBSET Int /\ IsFiniteSet(D)

LatestOf(S) == CHOOSE u \in S : \A v \in S : v <= u
EarlierThan(t, D) == {u \in D : u < t}

\* Where the cluster of t starts, the anchors of the earlier ones known.
StartOf(a, t, D) ==
  IF EarlierThan(t, D) = {} THEN t
  ELSE IF t - a[LatestOf(EarlierThan(t, D))] > Tolerance THEN t ELSE a[LatestOf(EarlierThan(t, D))]

\* What Anchors defines by recursion.
Anchored(a, D) == a = [t \in D |-> StartOf(a, t, D)]

LEMMA NewestBefore ==
  ASSUME NEW D, Departures(D), NEW t \in D, EarlierThan(t, D) # {}
  PROVE  /\ LatestOf(EarlierThan(t, D)) \in D /\ LatestOf(EarlierThan(t, D)) < t
         /\ \A v \in D : v < t => v <= LatestOf(EarlierThan(t, D))
<1> DEFINE B == EarlierThan(t, D)
<1>1. B \in SUBSET Int /\ IsFiniteSet(B)
  BY FS_Subset DEF EarlierThan, Departures
<1>2. \E n \in B : \A u \in B : u <= n
  <2> HIDE DEF B
  <2> QED
    BY <1>1, Newest DEF B
<1>3. LatestOf(B) \in B /\ \A u \in B : u <= LatestOf(B)
  <2> HIDE DEF B
  <2> QED
    BY <1>2 DEF LatestOf
<1> QED
  BY <1>3 DEF EarlierThan

\* The recursion has a solution: else there would be a least set of first
\* departures without one, and its newest can be added to a solution for the others.
LEMMA AnchoredExists ==
  ASSUME NEW D, Departures(D)
  PROVE  \E a : Anchored(a, D)
<1> DEFINE First(s) == \A t \in s : \A u \in D : u < t => u \in s
           F == {s \in SUBSET D : First(s) /\ ~\E a : Anchored(a, s)}
<1>1. ASSUME F # {} PROVE FALSE
  <2>1. PICK s \in F : \A r \in F : ~(r \subseteq s /\ r # s)
    <3>1. F \subseteq SUBSET D /\ IsFiniteSet(D)
      BY DEF Departures
    <3> HIDE DEF F
    <3> QED
      BY <1>1, <3>1, Minimal
  <2>2. s \in SUBSET D /\ First(s) /\ Departures(s)
    BY FS_Subset DEF Departures
  <2>3. s # {}
    <3> DEFINE none == [t \in {} |-> t]
    <3>1. none = [t \in {} |-> StartOf(none, t, {})]
      <4> HIDE DEF none
      <4>1. none = [t \in {} |-> t]
        BY DEF none
      <4> QED
        BY <4>1
    <3>2. Anchored(none, {})
      BY <3>1 DEF Anchored
    <3> QED
      BY <3>2
  <2>4. PICK n \in s : \A u \in s : u <= n
    BY <2>2, <2>3, Newest DEF Departures
  <2> DEFINE r == s \ {n}
  <2>5. r \in SUBSET D /\ r \subseteq s /\ r # s /\ Departures(r)
    BY <2>2, FS_Subset DEF Departures
  <2>6. First(r)
    <3>1. ASSUME NEW t \in r, NEW u \in D, u < t PROVE u \in r
      <4>1. u \in s /\ t <= n /\ t \in Int /\ n \in Int
        BY <2>2, <2>4, <3>1 DEF Departures
      <4> QED
        BY <3>1, <4>1 DEF Departures
    <3> QED
      BY <3>1
  <2>7. PICK f : Anchored(f, r)
    <3> HIDE DEF r, First
    <3> QED
      BY <2>1, <2>5, <2>6
  <2> DEFINE g == [t \in s |-> IF t = n THEN StartOf(f, n, s) ELSE f[t]]
  <2>8. ASSUME NEW t \in s PROVE g[t] = StartOf(g, t, s)
    <3>1. EarlierThan(t, s) = EarlierThan(t, r) /\ EarlierThan(t, s) \subseteq r
      BY <2>2, <2>4 DEF EarlierThan, Departures
    <3>2. EarlierThan(t, s) # {} => LatestOf(EarlierThan(t, s)) \in r
      <4>1. ASSUME EarlierThan(t, s) # {} PROVE LatestOf(EarlierThan(t, s)) \in EarlierThan(t, s)
        <5>1. LatestOf(EarlierThan(t, s)) \in s /\ LatestOf(EarlierThan(t, s)) < t
          BY <2>2, <4>1, NewestBefore
        <5> QED
          BY <5>1 DEF EarlierThan
      <4> QED
        BY <3>1, <4>1
    <3>3. EarlierThan(t, s) # {} => g[LatestOf(EarlierThan(t, s))] = f[LatestOf(EarlierThan(t, s))]
      <4> DEFINE x == LatestOf(EarlierThan(t, s))
      <4>1. \A y \in r : g[y] = f[y]
        OBVIOUS
      <4> HIDE DEF g, r, x
      <4> QED
        BY <3>2, <4>1 DEF x
    <3>4. StartOf(g, t, s) = StartOf(f, t, s)
      <4> HIDE DEF g
      <4> QED
        BY <3>3 DEF StartOf
    <3>5. t # n => g[t] = StartOf(f, t, r)
      BY <2>7 DEF Anchored
    <3>6. StartOf(f, t, s) = StartOf(f, t, r)
      BY <3>1 DEF StartOf
    <3>7. t = n => g[t] = StartOf(f, t, s)
      OBVIOUS
    <3> HIDE DEF g
    <3> QED
      BY <3>4, <3>5, <3>6, <3>7
  <2>9. Anchored(g, s)
    <3>1. g = [t \in s |-> g[t]]
      OBVIOUS
    <3> HIDE DEF g
    <3> QED
      BY <2>8, <3>1 DEF Anchored
  <2> QED
    BY <2>1, <2>9
<1>2. D \in SUBSET D /\ First(D)
  OBVIOUS
<1> HIDE DEF First
<1> QED
  BY <1>1, <1>2

LEMMA AnchorsAre ==
  ASSUME NEW D, Departures(D)
  PROVE  Anchored(Anchors(D), D)
<1> DEFINE rec(a) == [t \in D |->
             LET earlier == {u \in D : u < t}
                 newest == CHOOSE u \in earlier : \A v \in earlier : v <= u
             IN  IF earlier = {} THEN t
                 ELSE IF t - a[newest] > Tolerance THEN t ELSE a[newest]]
           a == CHOOSE x : x = rec(x)
<1>1. ASSUME NEW x PROVE rec(x) = [t \in D |-> StartOf(x, t, D)]
  BY DEF StartOf, EarlierThan, LatestOf
<1>2. \E x : x = rec(x)
  <2>1. PICK x : Anchored(x, D)
    BY AnchoredExists
  <2>2. x = rec(x)
    <3> HIDE DEF rec
    <3> QED
      BY <1>1, <2>1 DEF Anchored
  <2> QED
    BY <2>2
<1>3. a = rec(a)
  <2> HIDE DEF rec
  <2> QED
    BY <1>2
<1>4. Anchors(D) = [t \in D |-> a[t]]
  BY DEF Anchors
<1>5. Anchored(a, D) /\ a = [t \in D |-> a[t]]
  <2>1. a = [t \in D |-> StartOf(a, t, D)]
    <3> HIDE DEF a, rec
    <3> QED
      BY <1>1, <1>3
  <2> HIDE DEF a
  <2> QED
    BY <2>1 DEF Anchored
<1> HIDE DEF a
<1> QED
  BY <1>4, <1>5

\* A cluster starts at one of its departures, no later and no further back than Tolerance.
LEMMA AnchorBounds ==
  ASSUME NEW D, Departures(D), NEW a, Anchored(a, D), NEW t \in D
  PROVE  a[t] \in D /\ a[t] <= t /\ t - a[t] <= Tolerance
<1> DEFINE Bound(u) == a[u] \in D /\ a[u] <= u /\ u - a[u] <= Tolerance
           T == {u \in D : ~Bound(u)}
<1>1. ASSUME T # {} PROVE FALSE
  <2>1. PICK u \in T : \A v \in T : u <= v
    <3>1. T \in SUBSET Int /\ IsFiniteSet(T)
      BY FS_Subset DEF Departures
    <3> HIDE DEF T
    <3> QED
      BY <1>1, <3>1, Oldest
  <2> DEFINE n == LatestOf(EarlierThan(u, D))
  <2>2. u \in D /\ u \in Int /\ D \in SUBSET Int /\ Tolerance \in Nat
    BY FlightLegsAssumption DEF Departures
  <2>3. a[u] = StartOf(a, u, D)
    BY <2>2 DEF Anchored
  <2>4. a[u] = u => Bound(u)
    BY <2>2
  <2>5. a[u] # u => EarlierThan(u, D) # {} /\ a[u] = a[n] /\ ~(u - a[n] > Tolerance)
    BY <2>3 DEF StartOf
  <2>6. ASSUME a[u] # u PROVE Bound(u)
    <3>1. n \in D /\ n < u
      BY <2>2, <2>5, <2>6, NewestBefore
    <3>2. Bound(n)
      <4>1. n \notin T
        <5> HIDE DEF n, T
        <5>1. n \in Int
          BY <2>2, <3>1
        <5> QED
          BY <2>1, <2>2, <3>1, <5>1
      <4> QED
        BY <3>1, <4>1
    <3> HIDE DEF n
    <3>3. a[n] \in Int /\ n \in Int
      BY <2>2, <3>1, <3>2
    <3> QED
      BY <2>2, <2>5, <2>6, <3>1, <3>2, <3>3
  <2> QED
    BY <2>1, <2>4, <2>6
<1> QED
  BY <1>1

\* A later departure close to that start is in the cluster.
LEMMA AnchorHolds ==
  ASSUME NEW D, Departures(D), NEW a, Anchored(a, D), NEW t \in D, NEW u \in D,
         t <= u, u - a[t] <= Tolerance
  PROVE  a[u] = a[t]
<1> DEFINE T == {v \in D : t <= v /\ v - a[t] <= Tolerance /\ a[v] # a[t]}
<1>0. D \in SUBSET Int /\ Tolerance \in Nat /\ a[t] \in Int
  BY AnchorBounds, FlightLegsAssumption DEF Departures
<1>1. ASSUME T # {} PROVE FALSE
  <2>1. PICK v \in T : \A x \in T : v <= x
    <3>1. T \in SUBSET Int /\ IsFiniteSet(T)
      BY FS_Subset DEF Departures
    <3> HIDE DEF T
    <3> QED
      BY <1>1, <3>1, Oldest
  <2> DEFINE n == LatestOf(EarlierThan(v, D))
  <2>2. v \in D /\ v \in Int /\ t \in Int /\ t < v
    BY <1>0, <2>1
  <2>3. EarlierThan(v, D) # {}
    BY <2>2 DEF EarlierThan
  <2>4. n \in D /\ n < v /\ t <= n
    BY <2>2, <2>3, NewestBefore
  <2>5. a[v] = StartOf(a, v, D)
    BY <2>2 DEF Anchored
  <2>6. a[v] = IF v - a[n] > Tolerance THEN v ELSE a[n]
    BY <2>3, <2>5 DEF StartOf
  <2> HIDE DEF n
  <2>7. a[n] = a[t]
    <3>1. n \in Int /\ v - a[t] <= Tolerance
      BY <1>0, <2>1, <2>4
    <3>2. n - a[t] <= Tolerance
      BY <1>0, <2>2, <2>4, <3>1
    <3>3. n \notin T
      <4> HIDE DEF T
      <4> QED
        BY <2>1, <2>2, <2>4, <3>1
    <3> QED
      BY <2>4, <3>2, <3>3
  <2> QED
    BY <1>0, <2>1, <2>2, <2>6, <2>7
<1> QED
  BY <1>1

\* So two departures share a cluster if no third is close to one of them only.
LEMMA CloseShareAnchor ==
  ASSUME NEW D, Departures(D), NEW t \in D, NEW u \in D,
         \A v \in D : (Span(v, t) <= Tolerance) = (Span(v, u) <= Tolerance)
  PROVE  Anchors(D)[t] = Anchors(D)[u]
<1> DEFINE a == Anchors(D)
<1>1. Anchored(a, D)
  BY AnchorsAre
<1> HIDE DEF a
<1>2. /\ a[t] \in D /\ a[t] <= t /\ t - a[t] <= Tolerance
      /\ a[u] \in D /\ a[u] <= u /\ u - a[u] <= Tolerance
  BY <1>1, AnchorBounds
<1>3. t \in Int /\ u \in Int /\ a[t] \in Int /\ a[u] \in Int /\ Tolerance \in Nat
  <2>1. D \in SUBSET Int /\ Tolerance \in Nat
    BY FlightLegsAssumption DEF Departures
  <2> QED
    BY <1>2, <2>1
<1>4. CASE t <= u
  <2>1. Span(a[t], t) <= Tolerance
    BY <1>2, <1>3 DEF Span
  <2>2. Span(a[t], u) <= Tolerance
    BY <1>2, <2>1
  <2>3. u - a[t] <= Tolerance
    BY <1>2, <1>3, <1>4, <2>2 DEF Span
  <2> QED
    BY <1>1, <1>4, <2>3, AnchorHolds DEF a
<1>5. CASE u <= t
  <2>1. Span(a[u], u) <= Tolerance
    BY <1>2, <1>3 DEF Span
  <2>2. Span(a[u], t) <= Tolerance
    BY <1>2, <2>1
  <2>3. t - a[u] <= Tolerance
    BY <1>2, <1>3, <1>5, <2>2 DEF Span
  <2> QED
    BY <1>1, <1>5, <2>3, AnchorHolds DEF a
<1> QED
  BY <1>3, <1>4, <1>5

-----------------------------------------------------------------------------
(* One flight per cluster. *)

LEMMA LowestIsOne ==
  ASSUME NEW S, S # {}, \A f \in S : f.n \in Nat
  PROVE  LowestOf(S) \in S /\ \A g \in S : LowestOf(S).n <= g.n
<1> DEFINE T == {f.n : f \in S}
<1>1. PICK n \in T : \A k \in T : n <= k
  <2>1. T \in SUBSET Nat /\ T # {}
    OBVIOUS
  <2> HIDE DEF T
  <2> QED
    BY <2>1, Least
<1>2. PICK f \in S : f.n = n
  BY <1>1
<1>3. \A g \in S : f.n <= g.n
  BY <1>1, <1>2
<1> QED
  BY <1>3 DEF LowestOf

LEMMA RecordsOf ==
  ASSUME NEW w, NEW y \in SweepFlights(w)
  PROVE  /\ \E z \in w.air \cup w.booked :
              y.from = z.from /\ y.to = z.to /\ y.dep = z.dep /\ y.n = z.n
         /\ y.source = "byair" => \E z \in w.air :
              y = Record(z, "byair", z.liveDep, z.liveArr, z.status)
<1>1. CASE \E z \in Readable(w) : y = Record(z, "byair", z.liveDep, z.liveArr, z.status)
  BY <1>1 DEF Readable, Record
<1>2. CASE \E z \in w.booked : y = Record(z, "tripit", Nowhere, Nowhere, "flying")
  BY <1>2 DEF Record
<1> QED
  BY <1>1, <1>2 DEF SweepFlights

\* What merging makes of the records around one that is cancelled is cancelled,
\* but for a codeshare of a lower number, or a third record that tears them apart.
LEMMA CancelledIsMerged ==
  ASSUME NEW w, FiniteAir(w), Timed(w), NEW f \in Readable(w), f.status = "cancelled",
         NEW m \in MergeFlights(SweepFlights(w)), m.from = f.from, m.to = f.to,
         ~Torn(f, m.booked, w), ~Codeshared(f, m.booked, w)
  PROVE  m.status = "cancelled"
<1> DEFINE F == SweepFlights(w)
<1>1. PICK x \in F : m = Merge(Cluster(x, F))
  BY DEF MergeFlights
<1> DEFINE C == Cluster(x, F)
           mine == {y \in C : y.source = "byair"}
           S == IF mine # {} THEN mine ELSE C \ mine
           base == LowestOf(S)
           along == {y \in F : SameRoute(x, y)}
           D == {y.dep : y \in along}
           r == Record(f, "byair", f.liveDep, f.liveArr, f.status)
<1>2. C = {y \in along : Anchors(D)[y.dep] = Anchors(D)[x.dep]}
  BY DEF Cluster
<1>3. x \in C /\ C \subseteq F
  BY <1>1, <1>2 DEF SameRoute
<1>4. Departures(D)
  <2>1. D \in SUBSET Int
    <3>1. \A y \in F : y.dep \in Int
      BY RecordsOf DEF Timed
    <3> HIDE DEF F
    <3> QED
      BY <3>1
  <2>2. IsFiniteSet(along)
    BY FiniteRecords, FS_Subset
  <2> DEFINE d == [y \in along |-> y.dep]
  <2>3. D = {d[y] : y \in along} /\ d = [y \in along |-> d[y]]
    OBVIOUS
  <2> HIDE DEF along, d
  <2> QED
    BY <2>1, <2>2, <2>3, FiniteImage DEF Departures
<1>5. m.from = base.from /\ m.to = base.to /\ m.booked = base.dep /\ m.status = base.status
  BY <1>1 DEF Merge
<1>6. base \in S /\ S \subseteq C /\ \A y \in S : base.n <= y.n
  <2>1. \A y \in F : y.n \in Nat
    BY RecordsOf DEF Timed
  <2>2. S # {} /\ S \subseteq C /\ \A y \in S : y.n \in Nat
    <3> HIDE DEF F, C
    <3> QED
      BY <1>3, <2>1
  <2> HIDE DEF S
  <2> QED
    BY <2>2, LowestIsOne
<1>7. /\ r \in F /\ r.dep = f.dep /\ r.from = f.from /\ r.to = f.to /\ r.n = f.n
      /\ r.source = "byair"
  BY DEF SweepFlights, Record
<1> HIDE DEF base, S, r, F, C
<1>8. r \in C
  <2>1. base \in along
    BY <1>2, <1>6
  <2>2. r \in along
    BY <1>5, <1>7, <2>1 DEF SameRoute
  <2>3. base.dep \in D /\ r.dep \in D
    BY <2>1, <2>2
  <2>4. ASSUME NEW v \in D
        PROVE  (Span(v, r.dep) <= Tolerance) = (Span(v, base.dep) <= Tolerance)
    <3>1. PICK y \in along : v = y.dep
      OBVIOUS
    <3>2. y \in F /\ SameRoute(f, y)
      BY <1>7, <2>2, <3>1 DEF SameRoute
    <3> QED
      BY <1>5, <1>7, <3>1, <3>2 DEF Torn, F
  <2> HIDE DEF D, along
  <2>5. Anchors(D)[r.dep] = Anchors(D)[base.dep]
    BY <1>4, <2>3, <2>4, CloseShareAnchor
  <2>6. Anchors(D)[base.dep] = Anchors(D)[x.dep]
    BY <1>2, <1>6
  <2> QED
    BY <1>2, <2>2, <2>5, <2>6
<1>9. base \in F /\ base.source = "byair" /\ base.n <= f.n
  BY <1>3, <1>6, <1>7, <1>8 DEF S
<1>10. PICK z \in w.air : base = Record(z, "byair", z.liveDep, z.liveArr, z.status)
  BY <1>9, RecordsOf DEF F
<1>11. base.from = z.from /\ base.to = z.to /\ base.dep = z.dep /\ base.status = z.status /\ base.n = z.n
  BY <1>10 DEF Record
<1>12. SameRoute(f, z) /\ z.n <= f.n /\ z.dep = m.booked
  BY <1>5, <1>9, <1>11 DEF SameRoute
<1> QED
  BY <1>5, <1>11, <1>12 DEF Codeshared

-----------------------------------------------------------------------------
(* Whose drives a plan has. *)

\* The airport drives of p are those of the flights.
DrivesOf(p, flights) ==
  \A b \in p.desired \cup p.held :
    b.kind \in AirportKinds => \A k \in FlightsOf(b) : \E m \in flights : k = KeyOf(m)

\* A leg is of one flight, or of two.
LEMMA ChainLegsFrom ==
  ASSUME NEW flights, NEW lodging, NEW known, NEW l \in ChainLegs(flights, lodging, known)
  PROVE  \/ \E m \in flights : l = DepartureLeg(m, known) \/ l = ArrivalLeg(m, known)
         \/ \E m, x \in flights : l = TransferLeg(m, x, known)
<1>1. CASE \E m \in flights : l = DepartureLeg(m, known)
  BY <1>1
<1>2. ASSUME NEW m \in flights,
             l \in IF NextInChain(m, flights) = {} THEN {ArrivalLeg(m, known)}
                   ELSE UNION {SeamLegs(m, x, lodging, known) : x \in NextInChain(m, flights)}
      PROVE  \/ \E y \in flights : l = DepartureLeg(y, known) \/ l = ArrivalLeg(y, known)
             \/ \E y, x \in flights : l = TransferLeg(y, x, known)
  <2>1. CASE l = ArrivalLeg(m, known)
    BY <2>1
  <2>2. ASSUME NEW x \in NextInChain(m, flights), l \in SeamLegs(m, x, lodging, known)
        PROVE  \/ \E y \in flights : l = DepartureLeg(y, known) \/ l = ArrivalLeg(y, known)
               \/ \E y, z \in flights : l = TransferLeg(y, z, known)
    <3>1. x \in flights
      BY DEF NextInChain
    <3>2. l = ArrivalLeg(m, known) \/ l = DepartureLeg(x, known) \/ l = TransferLeg(m, x, known)
      BY <2>2 DEF SeamLegs
    <3> QED
      BY <3>1, <3>2
  <2> QED
    BY <1>2, <2>1, <2>2
<1> QED
  BY <1>1, <1>2 DEF ChainLegs

LEMMA ChainLegsOf ==
  ASSUME NEW flights, NEW lodging, NEW known, NEW l \in ChainLegs(flights, lodging, known)
  PROVE  \A k \in FlightsOf(l) : \E m \in flights : k = KeyOf(m)
<1>1. \/ \E m \in flights : l = DepartureLeg(m, known) \/ l = ArrivalLeg(m, known)
      \/ \E m, x \in flights : l = TransferLeg(m, x, known)
  BY ChainLegsFrom
<1>2. ASSUME NEW m \in flights, l = DepartureLeg(m, known) \/ l = ArrivalLeg(m, known)
      PROVE  \A k \in FlightsOf(l) : \E y \in flights : k = KeyOf(y)
  BY <1>2 DEF DepartureLeg, ArrivalLeg, Leg, FlightsOf
<1>3. ASSUME NEW m \in flights, NEW x \in flights, l = TransferLeg(m, x, known)
      PROVE  \A k \in FlightsOf(l) : \E y \in flights : k = KeyOf(y)
  BY <1>3 DEF TransferLeg, Leg, FlightsOf
<1> QED
  BY <1>1, <1>2, <1>3

LEMMA AirportDriveOf ==
  ASSUME NEW l, NEW from, NEW to, NEW boarding, NEW route,
         NEW b \in AirportDrive(l, from, to, boarding, route).desired
                   \cup AirportDrive(l, from, to, boarding, route).held
  PROVE  b.id = l.id /\ b.kind = l.kind
BY DEF AirportDrive, Nothing, Block, Hold

\* What is planned for meetings and conferences is not to or from an airport.
LEMMA MeetingDrivesOf ==
  ASSUME NEW events, NEW at, NEW skipped, NEW it, NEW rows, NEW route,
         NEW b \in PlanMeetings(events, at, skipped, it, rows, route).desired
                   \cup PlanMeetings(events, at, skipped, it, rows, route).held
  PROVE  b.kind \in MeetingKinds
<1> DEFINE
      drivable == {e \in events : Bucket(e, at, skipped, it) = "actionable"}
      pairs == UNION {{<<e, l>> : l \in MeetingLegs(e, events, at, it, rows)} : e \in drivable}
      plans == {PlanLeg(p[1], p[2], route) : p \in pairs}
<1>1. \/ b.kind \in MeetingKinds
      \/ \E p \in plans : b \in p.desired \cup p.held
  <2> DEFINE unknowable == {e \in events : Bucket(e, at, skipped, it) \in {"past", "untimed"}
                                           /\ e.row = Nowhere}
             out == {Hold(e.id, "outbound", e.start) : e \in unknowable}
             back == {Hold(e.id, "return", e.end) : e \in unknowable}
             planned == Both(plans)
             all == PlanMeetings(events, at, skipped, it, rows, route)
  <2>1. all = [planned EXCEPT !.held = @ \cup out \cup back]
    BY DEF PlanMeetings
  <2>2. planned = [desired |-> UNION {p.desired : p \in plans}, held |-> UNION {p.held : p \in plans}]
    BY DEF Both
  <2>3. \A h \in out \cup back : h.kind \in MeetingKinds
    BY DEF Hold, MeetingKinds
  <2> HIDE DEF out, back, all, plans, planned
  <2>4. all.desired \cup all.held = planned.desired \cup planned.held \cup out \cup back
    BY <2>1, <2>2
  <2>5. b \in planned.desired \cup planned.held \/ b.kind \in MeetingKinds
    BY <2>3, <2>4 DEF all
  <2>6. b \in planned.desired \cup planned.held => \E p \in plans : b \in p.desired \cup p.held
    BY <2>2
  <2> QED
    BY <2>5, <2>6
<1>2. ASSUME NEW p \in plans, b \in p.desired \cup p.held PROVE b.kind \in MeetingKinds
  <2>0. PICK e \in events : \E l \in MeetingLegs(e, events, at, it, rows) : p = PlanLeg(e, l, route)
    OBVIOUS
  <2>1. PICK l \in MeetingLegs(e, events, at, it, rows) : p = PlanLeg(e, l, route)
    BY <2>0
  <2>2. l.kind \in MeetingKinds
    BY <2>1 DEF MeetingLegs, LegsAmong, Inbound, Homeward, MeetingLeg, MeetingKinds
  <2>3. b.kind = l.kind
    BY <1>2, <2>1 DEF PlanLeg, Nothing, Block, Hold
  <2> QED
    BY <2>2, <2>3
<1> HIDE DEF plans
<1> QED
  BY <1>1, <1>2

LEMMA CommutesOf ==
  ASSUME NEW rows, NEW it, NEW at, NEW busy, NEW route,
         NEW b \in Commutes(rows, it, at, busy, route).desired
                   \cup Commutes(rows, it, at, busy, route).held
  PROVE  b.kind \in CommuteKinds
<1>1. \E r, d, back : b \in Commute(r, d, back, it, at, busy, route).desired
                              \cup Commute(r, d, back, it, at, busy, route).held
  BY DEF Commutes, Both
<1>2. PICK r, d, back : b \in Commute(r, d, back, it, at, busy, route).desired
                              \cup Commute(r, d, back, it, at, busy, route).held
  BY <1>1
<1> QED
  BY <1>2 DEF Commute, Nothing, Block, Hold, CommuteKinds

LEMMA LegsOf ==
  ASSUME NEW w, Unreadable(w) = {}, NEW it, NEW flights, NEW known, NEW live, NEW route
  PROVE  DrivesOf(Legs(w, it, flights, known, live, route), flights)
<1> DEFINE
      legs == {PlanAirportLeg(l, PositionAt(it, l.anchor).address, live, w.boarding, route) :
                 l \in ChainLegs(flights, w.lodging, known)}
      meet == PlanMeetings(Events(w), now, skips, it, w.rows, route)
      commute == Commutes(w.rows, it, now, Busy(w), route)
      kept == [Nothing EXCEPT !.held = Retained(w)]
      p == Legs(w, it, flights, known, live, route)
<1> SUFFICES ASSUME NEW b \in p.desired \cup p.held, b.kind \in AirportKinds
             PROVE  \A k \in FlightsOf(b) : \E m \in flights : k = KeyOf(m)
  BY DEF DrivesOf
<1>1. \E q \in legs \cup {meet, commute, kept} : b \in q.desired \cup q.held
  BY DEF Legs, Both
<1>2. kept.desired = {} /\ kept.held = {}
  BY DEF Retained, Nothing
<1>3. b \notin meet.desired \cup meet.held
  BY MeetingDrivesOf DEF MeetingKinds, AirportKinds
<1>4. b \notin commute.desired \cup commute.held
  BY CommutesOf DEF CommuteKinds, AirportKinds
<1> HIDE DEF meet, commute, kept
<1>5. PICK l \in ChainLegs(flights, w.lodging, known) :
        LET q == PlanAirportLeg(l, PositionAt(it, l.anchor).address, live, w.boarding, route)
        IN  b \in q.desired \cup q.held
  BY <1>1, <1>2, <1>3, <1>4
<1>6. b.id = l.id /\ b.kind = l.kind
  BY <1>5, AirportDriveOf DEF PlanAirportLeg
<1>7. FlightsOf(b) = FlightsOf(l)
  BY <1>6 DEF FlightsOf
<1> QED
  BY <1>7, ChainLegsOf

LEMMA WithoutOf ==
  ASSUME NEW p, NEW flights, DrivesOf(p, flights), NEW blocks, \A b \in blocks : b.kind \in CommuteKinds
  PROVE  DrivesOf(Without(p, blocks), flights)
BY DEF DrivesOf, Without, Hold, CommuteKinds, AirportKinds

\* Landings add drives of flights they find in the plan, and hold nothing new.
LandedOf(s, p, flights) == DrivesOf(s, flights) /\ s.held = p.held /\ Composed(s)

LEMMA DropOf ==
  ASSUME NEW s, NEW p, NEW flights, LandedOf(s, p, flights), NEW keys
  PROVE  LandedOf(Drop(s, keys), p, flights)
<1> DEFINE t == Drop(s, keys)
<1>1. t.held = s.held /\ t.desired \subseteq s.desired /\ Composed(t)
  BY DEF Drop, LandedOf, Composed
<1> HIDE DEF t
<1>2. LandedOf(t, p, flights)
  BY <1>1 DEF LandedOf, DrivesOf
<1> QED
  BY <1>2 DEF t

LEMMA HandoffOf ==
  ASSUME NEW s, NEW p, NEW flights, LandedOf(s, p, flights), NEW g, NEW m, NEW quiet, NEW it, NEW route,
         \E x \in flights : g.id = KeyOf(x)
  PROVE  LandedOf(Handoff(g, m, quiet, s, it, route), p, flights)
<1> DEFINE h == Handoff(g, m, quiet, s, it, route)
<1> SUFFICES LandedOf(h, p, flights)
  OBVIOUS
<1>1. h = Drop(s, MeetingKeys(m.id)) \/ Handed(h, s, g, m, route)
  BY HandoffHands DEF LandedOf
<1> HIDE DEF h
<1>2. CASE Handed(h, s, g, m, route)
  <2>1. PICK gone, come :
             /\ h = [s EXCEPT
                      !.desired = {b \in s.desired : Key(b) \notin {<<g.id, "arrival">>} \cup MeetingKeys(m.id)}
                                    \cup come,
                      !.unsafe = s.unsafe \cup gone]
             /\ \A d \in come : (d.id = g.id /\ d.kind = "arrival") \/ d.kind = "return"
    BY <1>2 DEF Handed
  <2>2. h.desired \subseteq s.desired \cup come /\ h.held = s.held /\ Composed(h)
    BY <2>1 DEF LandedOf, Composed
  <2>3. ASSUME NEW b \in h.desired \cup h.held, b.kind \in AirportKinds
        PROVE  \A k \in FlightsOf(b) : \E x \in flights : k = KeyOf(x)
    <3>1. CASE b \in s.desired \cup s.held
      BY <2>3, <3>1 DEF LandedOf, DrivesOf
    <3>2. CASE b \in come
      BY <2>1, <2>3, <3>2 DEF FlightsOf, AirportKinds
    <3> QED
      BY <2>2, <3>1, <3>2
  <2> QED
    BY <2>2, <2>3 DEF LandedOf, DrivesOf
<1> QED
  BY <1>1, <1>2, DropOf

LEMMA AtLandingOf ==
  ASSUME NEW s, NEW p, NEW flights, LandedOf(s, p, flights), NEW g, NEW meetings, NEW it, NEW route,
         NEW cal, NEW landed, g.id \in landed => \E x \in flights : g.id = KeyOf(x)
  PROVE  LandedOf(AtLanding(s, g, meetings, it, route, cal, landed), p, flights)
<1> DEFINE
      candidates == {m \in meetings : m.id \notin s.used /\ m.start < g.ready /\ g.ready < m.end}
      gone == {m \in candidates : Unreachable(g, m, Drive(route, g.airport, m.place))}
      dropped == {m.id : m \in gone}
      keys == UNION {MeetingKeys(i) : i \in dropped}
      after == [Drop(s, keys) EXCEPT !.used = @ \cup dropped]
      inPlay == candidates \ gone
      m == CHOOSE x \in inPlay : TRUE
      recheck == m.quiet /\ dropped # {}
      follow == Follows(m, meetings, dropped)
      invalid == {<<o.id, "outbound">> : o \in {x \in follow : ~Continues(m, x, after, cal)}}
      quiet == \E o \in follow : Continues(m, o, after, cal)
      done == IF recheck THEN Handoff(g, m, quiet, Drop(after, invalid), it, route)
              ELSE Handoff(g, m, m.quiet, after, it, route)
      t == AtLanding(s, g, meetings, it, route, cal, landed)
      Kept(x) == LandedOf(x, p, flights)
<1> SUFFICES Kept(t)
  OBVIOUS
<1>1. t = IF g.id \notin landed THEN s
          ELSE IF Cardinality(inPlay) # 1 THEN after
          ELSE [done EXCEPT !.used = @ \cup {m.id}]
  BY DEF AtLanding
<1> HIDE DEF t
<1>2. ASSUME NEW x, NEW u, Kept(x) PROVE Kept([x EXCEPT !.used = u])
  BY <1>2 DEF LandedOf, DrivesOf, Composed
<1>3. Kept(after)
  <2> DEFINE d == Drop(s, keys)
  <2>1. Kept(d)
    BY DropOf
  <2> HIDE DEF d
  <2>2. after = [d EXCEPT !.used = d.used \cup dropped]
    BY <2>1 DEF LandedOf, Composed, d
  <2> HIDE DEF after, dropped, Kept
  <2> QED
    BY <1>2, <2>1, <2>2
<1> HIDE DEF after, inPlay, quiet, invalid, m, recheck, follow
<1>4. ASSUME g.id \in landed PROVE Kept(done)
  <2>1. Kept(Drop(after, invalid))
    BY <1>3, DropOf
  <2> DEFINE e == Drop(after, invalid)
  <2> HIDE DEF e
  <2>2. Kept(Handoff(g, m, quiet, e, it, route))
    BY <1>4, <2>1, HandoffOf DEF e
  <2>3. Kept(Handoff(g, m, m.quiet, after, it, route))
    BY <1>3, <1>4, HandoffOf
  <2> HIDE DEF Kept
  <2> QED
    BY <2>2, <2>3 DEF e
<1>5. ASSUME g.id \in landed PROVE Kept([done EXCEPT !.used = @ \cup {m.id}])
  <2>1. DOMAIN done = {"desired", "held", "unsafe", "used"}
    BY <1>4, <1>5 DEF LandedOf, Composed
  <2> HIDE DEF done
  <2>2. [done EXCEPT !.used = @ \cup {m.id}] = [done EXCEPT !.used = done.used \cup {m.id}]
    BY <2>1
  <2> HIDE DEF Kept
  <2> QED
    BY <1>2, <1>4, <1>5, <2>2
<1> HIDE DEF Kept, done
<1>6. Kept(s)
  BY DEF Kept
<1> QED
  BY <1>1, <1>3, <1>5, <1>6

LEMMA LandingsOf ==
  ASSUME NEW p, NEW flights, DrivesOf(p, flights), NEW guards, NEW meetings, NEW it, NEW route,
         NEW cal, NEW n \in Nat, DOMAIN guards = 1..n
  PROVE  LandedOf(AtLandings(p, guards, meetings, it, route, cal)[n], p, flights)
<1> DEFINE a == AtLandings(p, guards, meetings, it, route, cal)
           landed == {b.id : b \in {x \in p.desired : x.kind = "arrival"}}
           Fine(k) == LandedOf(a[k], p, flights)
           T == {k \in 0..n : ~Fine(k)}
<1>1. Landed(a, n, p, guards, meetings, it, route, cal)
  BY LandingsAre
<1> HIDE DEF a
<1>2. Fine(0)
  BY <1>1 DEF Landed, Unlanded, LandedOf, DrivesOf, Composed
<1>3. ASSUME NEW i \in landed PROVE \E x \in flights : i = KeyOf(x)
  BY DEF DrivesOf, FlightsOf, AirportKinds
<1>4. ASSUME NEW k \in 1..n, Fine(k - 1) PROVE Fine(k)
  <2>1. a[k] = AtLanding(a[k - 1], guards[k], meetings, it, route, cal, landed)
    BY <1>1 DEF Landed
  <2> HIDE DEF landed
  <2> QED
    BY <1>3, <1>4, <2>1, AtLandingOf
<1> HIDE DEF Fine
<1>5. ASSUME T # {} PROVE FALSE
  <2>1. T \in SUBSET Nat
    OBVIOUS
  <2>2. PICK k \in T : \A j \in T : k <= j
    <3> HIDE DEF T
    <3> QED
      BY <1>5, <2>1, Least
  <2>3. k \in 1..n /\ k - 1 \in 0..n /\ k - 1 \notin T
    BY <1>2, <2>2
  <2> QED
    BY <1>4, <2>2, <2>3
<1>6. Fine(n)
  BY <1>5
<1> QED
  BY <1>6 DEF Fine, a

LEMMA ComposeOf ==
  ASSUME NEW p, NEW flights, DrivesOf(p, flights), NEW guards, NEW meetings, NEW it, NEW route,
         NEW cal, NEW n \in Nat, DOMAIN guards = 1..n, Len(guards) = n
  PROVE  DrivesOf(Compose(p, guards, meetings, it, route, cal), flights)
<1>1. CASE guards = <<>>
  BY <1>1 DEF Compose
<1>2. CASE guards # <<>>
  <2> DEFINE s == AtLandings(p, guards, meetings, it, route, cal)[n]
             c == ClearGuards(s, guards, cal)
  <2>1. LandedOf(s, p, flights)
    BY LandingsOf
  <2>2. Compose(p, guards, meetings, it, route, cal) = c
    BY <1>2 DEF Compose
  <2> HIDE DEF s
  <2>3. c.desired \subseteq s.desired /\ c.held \subseteq s.held
    BY DEF ClearGuards
  <2> HIDE DEF c
  <2> QED
    BY <2>1, <2>2, <2>3 DEF LandedOf, DrivesOf
<1> QED
  BY <1>1, <1>2

-----------------------------------------------------------------------------
(* A cancelled flight has no drives. *)

LEMMA PlanOf ==
  ASSUME NEW w, Unreadable(w) = {}, NEW it, NEW flights, NEW known, NEW guards, NEW live, NEW route,
         NEW n \in Nat, DOMAIN guards = 1..n, Len(guards) = n
  PROVE  DrivesOf(PlanFor(w, it, flights, known, guards, live, route), flights)
<1> DEFINE
      legs == Legs(w, it, flights, known, live, route)
      clear == Clear(legs, guards)
      c == Compose(clear, guards, PostMeetings(Events(w), now, skips, it, w.rows), it, route, calendar)
      h == Housed(c, it)
<1>1. DrivesOf(legs, flights)
  BY LegsOf
<1>2. DrivesOf(clear, flights)
  <2>1. \A b \in IntoGuard(legs, guards) : b.kind \in CommuteKinds
    BY DEF IntoGuard
  <2> HIDE DEF legs
  <2> QED
    BY <1>1, <2>1, WithoutOf DEF Clear
<1> HIDE DEF clear
<1>3. DrivesOf(c, flights)
  BY <1>2, ComposeOf
<1> HIDE DEF c
<1>4. DrivesOf(h, flights)
  <2>1. \A b \in Unavailable(c, it) : b.kind \in CommuteKinds
    BY DEF Unavailable
  <2> QED
    BY <1>3, <2>1, WithoutOf DEF Housed
<1>5. PlanFor(w, it, flights, known, guards, live, route) = Planned(h, guards)
  BY DEF PlanFor, Fitted, h, c, clear
<1> HIDE DEF h
<1> QED
  BY <1>4, <1>5 DEF Planned, DrivesOf

LEMMA SweepStaysOff ==
  ASSUME WorldShape, Timed(world), Sweep
  PROVE  CancelledStaysOff'
<1>1. PICK outage \in Outages, live \in Fixes : plan' = PlanDrives(world, live, Outage(outage))
  BY DEF Sweep
<1> DEFINE route == Outage(outage)
           known == Known(world)
           flights == {m \in MergeFlights(SweepFlights(world)) : m.status # "cancelled"}
           guards == Guards(flights, known)
           it == ItineraryFor(world)
<1>2. plan' = PlanFor(world, it, flights, known, guards, live, route)
  BY <1>1 DEF PlanDrives
<1>3. IsFiniteSet(flights)
  BY FiniteFlights, FS_Subset DEF WorldShape, FiniteAir
<1>4. PICK n \in Nat : DOMAIN guards = 1..n /\ Len(guards) = n
  <2> HIDE DEF flights, known
  <2> QED
    BY <1>3, GuardsAreMany
<1>5. Unreadable(world) = {} => DrivesOf(plan', flights)
  <2> HIDE DEF guards, known, it, route, flights
  <2> QED
    BY <1>2, <1>4, PlanOf
<1>6. calendar' = Reconciled(plan', Retained(world)) /\ now' = now /\ world' = world
  BY DEF Sweep
<1> SUFFICES ASSUME NEW b \in calendar', NEW f \in world.air, NEW k \in FlightsOf(b),
                    b.kind \in AirportKinds, ~DoneBy(b, now), f.status = "cancelled",
                    Unreadable(world) = {},
                    k[1] = f.from, k[2] = f.to,
                    ~Torn(f, k[3], world), ~Codeshared(f, k[3], world)
             PROVE  FALSE
  BY <1>6 DEF CancelledStaysOff, Unreadable, Readable, HasSpan, Departs, Arrives, Torn, Codeshared
<1>7. \E d \in plan'.desired \cup plan'.held : d.id = b.id /\ d.kind = b.kind
  BY <1>6 DEF Reconciled, Key
<1>8. \E m \in flights : k = KeyOf(m)
  <2> HIDE DEF flights
  <2> QED
    BY <1>5, <1>7 DEF DrivesOf, FlightsOf
<1>9. PICK m \in flights : k = KeyOf(m)
  BY <1>8
<1>10. m.from = f.from /\ m.to = f.to /\ m.booked = k[3]
  BY <1>9 DEF KeyOf
<1>11. f \in Readable(world)
  BY DEF Unreadable
<1> QED
  BY <1>10, <1>11, CancelledIsMerged DEF WorldShape, FiniteAir

\* A cancelled flight has no drives: neither TripIt's copy brings them back,
\* nor a codeshare of a higher number that byAir still has as flying.
THEOREM CancelledFlightsStayOff == Spec => []CancelledStaysOff
<1> DEFINE Inv == WorldShape /\ Timed(world) /\ CancelledStaysOff
<1>1. Init => Inv
  BY DrivePlanAssumption DEF Init, WorldShape, FlightShape, Timed, CancelledStaysOff, NoPlan
<1>2. Inv /\ [Next]_vars => Inv'
  <2> SUFFICES ASSUME WorldShape, Timed(world), CancelledStaysOff, [Next]_vars
               PROVE  WorldShape' /\ Timed(world)' /\ CancelledStaysOff'
    OBVIOUS
  <2>1. WorldShape' /\ Timed(world)'
    BY WorldKeepsShape, WorldStaysTimed
  <2>2. Sweep => CancelledStaysOff'
    BY SweepStaysOff
  <2>3. plan' = NoPlan => CancelledStaysOff'
    BY DEF CancelledStaysOff, NoPlan
  <2>4. UNCHANGED vars => CancelledStaysOff'
    BY DEF CancelledStaysOff, vars, Unreadable, Readable, HasSpan, Departs, Arrives, DoneBy,
           Torn, Codeshared, SweepFlights
  <2>5. Next => Sweep \/ plan' = NoPlan
    BY DEF Next, Delay, Disrupt, Unread, MoveMeeting, SkipDrive, Tick, Changed
  <2> QED
    BY <2>1, <2>2, <2>3, <2>4, <2>5
<1>3. Inv => CancelledStaysOff
  OBVIOUS
<1> QED
  BY <1>1, <1>2, <1>3, PTL DEF Spec

-----------------------------------------------------------------------------
(* The times of the flights, and their keys. *)

\* A merged flight is one of the records of its cluster.
LEMMA MergedFrom ==
  ASSUME NEW w, Timed(w), NEW x \in SweepFlights(w)
  PROVE  LET C == Cluster(x, SweepFlights(w))
             m == Merge(C)
         IN  /\ C \subseteq SweepFlights(w)
             /\ \E y \in C : /\ m.from = y.from /\ m.to = y.to /\ m.booked = y.dep
                             /\ m.dep = IF y.liveDep = Nowhere THEN y.dep ELSE y.liveDep
                             /\ m.arr = IF y.liveArr = Nowhere THEN y.arr ELSE y.liveArr
<1> DEFINE F == SweepFlights(w)
           C == Cluster(x, F)
           m == Merge(C)
           mine == {y \in C : y.source = "byair"}
           S == IF mine # {} THEN mine ELSE C \ mine
           base == LowestOf(S)
<1>1. x \in C /\ C \subseteq F
  BY DEF Cluster, SameRoute
<1>2. /\ m.from = base.from /\ m.to = base.to /\ m.booked = base.dep
      /\ m.dep = IF base.liveDep = Nowhere THEN base.dep ELSE base.liveDep
      /\ m.arr = IF base.liveArr = Nowhere THEN base.arr ELSE base.liveArr
  BY DEF Merge
<1> HIDE DEF m, C
<1>3. \A y \in C : y.n \in Nat
  BY <1>1, RecordsOf DEF Timed
<1>4. S # {} /\ S \subseteq C /\ \A y \in S : y.n \in Nat
  BY <1>1, <1>3
<1> HIDE DEF S
<1>5. base \in C
  BY <1>4, LowestIsOne
<1> QED
  BY <1>1, <1>2, <1>5 DEF m, C

\* No two flights have the same key.
LEMMA KeysApart ==
  ASSUME NEW w, Timed(w), NEW m \in MergeFlights(SweepFlights(w)),
         NEW x \in MergeFlights(SweepFlights(w)), KeyOf(m) = KeyOf(x)
  PROVE  m = x
<1> DEFINE F == SweepFlights(w)
<1>1. PICK f \in F : m = Merge(Cluster(f, F))
  BY DEF MergeFlights
<1>2. PICK g \in F : x = Merge(Cluster(g, F))
  BY DEF MergeFlights
<1>3. PICK a \in Cluster(f, F) : m.from = a.from /\ m.to = a.to /\ m.booked = a.dep
  BY <1>1, MergedFrom
<1>4. PICK b \in Cluster(g, F) : x.from = b.from /\ x.to = b.to /\ x.booked = b.dep
  BY <1>2, MergedFrom
<1>5. a.from = b.from /\ a.to = b.to /\ a.dep = b.dep
  BY <1>3, <1>4 DEF KeyOf
<1> DEFINE along == {y \in F : SameRoute(f, y)}
           D == {y.dep : y \in along}
<1>6. SameRoute(f, a) /\ SameRoute(g, b)
  BY <1>3, <1>4 DEF Cluster
<1>7. along = {y \in F : SameRoute(g, y)}
  BY <1>5, <1>6 DEF SameRoute
<1>8. /\ Cluster(f, F) = {y \in along : Anchors(D)[y.dep] = Anchors(D)[f.dep]}
      /\ Cluster(g, F) = {y \in along : Anchors(D)[y.dep] = Anchors(D)[g.dep]}
  BY <1>7 DEF Cluster
<1> HIDE DEF along, D
<1>9. Anchors(D)[f.dep] = Anchors(D)[g.dep]
  BY <1>3, <1>4, <1>5, <1>8
<1> QED
  BY <1>1, <1>2, <1>8, <1>9

\* The times of a merged flight.
LEMMA MergedTimes ==
  ASSUME NEW w, Timed(w), NEW m \in MergeFlights(SweepFlights(w))
  PROVE  /\ m.booked \in Int /\ m.dep \in Int /\ m.arr \in Int
         /\ m.from \in DOMAIN Nudge /\ m.to \in DOMAIN Nudge
<1>1. PICK f \in SweepFlights(w) : m = Merge(Cluster(f, SweepFlights(w)))
  BY DEF MergeFlights
<1>2. PICK y \in Cluster(f, SweepFlights(w)) :
        /\ m.from = y.from /\ m.to = y.to /\ m.booked = y.dep
        /\ m.dep = IF y.liveDep = Nowhere THEN y.dep ELSE y.liveDep
        /\ m.arr = IF y.liveArr = Nowhere THEN y.arr ELSE y.liveArr
  BY <1>1, MergedFrom
<1>3. y \in SweepFlights(w)
  BY <1>2 DEF Cluster
<1>4. \/ \E z \in w.air : y = Record(z, "byair", z.liveDep, z.liveArr, z.status)
      \/ \E z \in w.booked : y = Record(z, "tripit", Nowhere, Nowhere, "flying")
  BY <1>3 DEF SweepFlights, Readable
<1>5. /\ y.dep \in Int /\ y.arr \in Int /\ y.liveDep \in Int \cup {Nowhere} /\ y.liveArr \in Int \cup {Nowhere}
      /\ y.from \in DOMAIN Nudge /\ y.to \in DOMAIN Nudge
  BY <1>4 DEF Record, Timed
<1> QED
  BY <1>2, <1>5

LEMMA BoundsAreTimes ==
  ASSUME NEW w, Timed(w), NEW m \in MergeFlights(SweepFlights(w)), NEW known
  PROVE  GuardStart(m, known) \in Int /\ ReadyAt(m, known) \in Int
<1>1. /\ m.dep \in Int /\ m.arr \in Int /\ m.from \in DOMAIN Nudge
  BY MergedTimes
<1>2. Nudge[m.from] \in Int
  BY <1>1, FlightLegsAssumption
<1>3. \A t \in {ClearanceDomestic, ClearanceInternational, PostDomestic, PostToUS, PostAbroad} : t \in Int
  BY FlightLegsAssumption
<1>4. Clearance(m, known) \in Int
  BY <1>2, <1>3 DEF Clearance
<1>5. PostArrival(m, known) \in Int
  BY <1>3 DEF PostArrival
<1> QED
  BY <1>1, <1>4, <1>5 DEF GuardStart, ReadyAt

-----------------------------------------------------------------------------
(* What a plan says of one leg. *)

LegKinds == {"arrival", "transfer"}
LegKey(l) == <<l.id, l.kind>>

\* When the drive of a leg begins.
LegStart(l, route) ==
  IF l.kind = "arrival" THEN l.anchor ELSE l.closes - Drive(route, l.from, l.to)

\* The drive of leg l is told of: it is planned as it is due, or held.
Told(p, l, from, at) ==
  \/ \E b \in p.desired : Key(b) = LegKey(l) /\ b.from = from /\ b.start = at
  \/ \E h \in p.held : Key(h) = LegKey(l)

\* The drive of leg l and no other has its key.
LEMMA LegsByKey ==
  ASSUME NEW w, Timed(w), NEW flights, flights \subseteq MergeFlights(SweepFlights(w)),
         NEW lodging, NEW known, NEW l \in ChainLegs(flights, lodging, known),
         NEW k \in ChainLegs(flights, lodging, known), LegKey(l) = LegKey(k)
  PROVE  l = k
<1> DEFINE Made(x) == \/ \E m \in flights : x = DepartureLeg(m, known) \/ x = ArrivalLeg(m, known)
                      \/ \E m, y \in flights : x = TransferLeg(m, y, known)
<1>1. Made(l) /\ Made(k)
  <2>1. ASSUME NEW x \in ChainLegs(flights, lodging, known) PROVE Made(x)
    BY ChainLegsFrom
  <2> HIDE DEF Made
  <2> QED
    BY <2>1
<1>2. l.kind = k.kind /\ l.id = k.id
  BY DEF LegKey
<1>3. \A m, x \in flights : KeyOf(m) = KeyOf(x) => m = x
  BY KeysApart
<1>4. ASSUME NEW m \in flights, l = DepartureLeg(m, known) PROVE l = k
  <2>1. PICK x \in flights : k = DepartureLeg(x, known)
    BY <1>1, <1>2, <1>4 DEF DepartureLeg, ArrivalLeg, TransferLeg, Leg
  <2>2. KeyOf(m) = KeyOf(x)
    BY <1>2, <1>4, <2>1 DEF DepartureLeg, Leg
  <2> QED
    BY <1>3, <1>4, <2>1, <2>2
<1>5. ASSUME NEW m \in flights, l = ArrivalLeg(m, known) PROVE l = k
  <2>1. PICK x \in flights : k = ArrivalLeg(x, known)
    BY <1>1, <1>2, <1>5 DEF DepartureLeg, ArrivalLeg, TransferLeg, Leg
  <2>2. KeyOf(m) = KeyOf(x)
    BY <1>2, <1>5, <2>1 DEF ArrivalLeg, Leg
  <2> QED
    BY <1>3, <1>5, <2>1, <2>2
<1>6. ASSUME NEW m \in flights, NEW y \in flights, l = TransferLeg(m, y, known) PROVE l = k
  <2>0. \E x, z \in flights : k = TransferLeg(x, z, known)
    BY <1>1, <1>2, <1>6 DEF DepartureLeg, ArrivalLeg, TransferLeg, Leg
  <2>1. PICK x \in flights : \E z \in flights : k = TransferLeg(x, z, known)
    BY <2>0
  <2>2. PICK z \in flights : k = TransferLeg(x, z, known)
    BY <2>1
  <2>3. <<KeyOf(m), KeyOf(y)>> = <<KeyOf(x), KeyOf(z)>>
    BY <1>2, <1>6, <2>2 DEF TransferLeg, Leg
  <2>4. KeyOf(m) = KeyOf(x) /\ KeyOf(y) = KeyOf(z)
    BY <2>3
  <2> QED
    BY <1>3, <1>6, <2>2, <2>4
<1> QED
  BY <1>1, <1>4, <1>5, <1>6

\* A drive to or from an airport is planned for a leg.
LEMMA AirportDrivesFrom ==
  ASSUME NEW w, NEW it, NEW flights, NEW known, NEW live, NEW route,
         NEW b \in Legs(w, it, flights, known, live, route).desired, b.kind \in AirportKinds
  PROVE  \E l \in ChainLegs(flights, w.lodging, known) :
           b \in PlanAirportLeg(l, PositionAt(it, l.anchor).address, live, w.boarding, route).desired
<1> DEFINE
      legs == {PlanAirportLeg(l, PositionAt(it, l.anchor).address, live, w.boarding, route) :
                 l \in ChainLegs(flights, w.lodging, known)}
      meet == PlanMeetings(Events(w), now, skips, it, w.rows, route)
      commute == Commutes(w.rows, it, now, Busy(w), route)
      kept == [Nothing EXCEPT !.held = Retained(w)]
<1>1. \E q \in legs \cup {meet, commute, kept} : b \in q.desired
  BY DEF Legs, Both
<1>2. kept.desired = {}
  BY DEF Nothing
<1>3. b \notin meet.desired
  BY MeetingDrivesOf DEF MeetingKinds, AirportKinds
<1>4. b \notin commute.desired
  BY CommutesOf DEF CommuteKinds, AirportKinds
<1> HIDE DEF meet, commute, kept
<1> QED
  BY <1>1, <1>2, <1>3, <1>4

\* What he lands to is so near that there is no drive.
AtHand(l, it, boarding, route) ==
  LET here == PositionAt(it, l.anchor).address IN
  /\ here # Nowhere /\ Drive(route, l.from, here) # Failed
  /\ TrivialLeg(Drive(route, l.from, here), boarding)

\* The drive of a leg is planned as it is due, or held, or not worth planning.
LEMMA LegsTell ==
  ASSUME NEW w, Timed(w), NEW flights, flights \subseteq MergeFlights(SweepFlights(w)),
         NEW it, NEW known, NEW live, NEW route,
         NEW l \in ChainLegs(flights, w.lodging, known), l.kind \in LegKinds
  PROVE  LET p == Legs(w, it, flights, known, live, route) IN
         /\ \A b \in p.desired : Key(b) = LegKey(l) =>
              /\ b.from = l.from /\ b.start = LegStart(l, route)
              /\ l.kind = "transfer" => Drive(route, l.from, l.to) # Failed
         /\ \/ Told(p, l, l.from, LegStart(l, route))
            \/ l.kind = "arrival" /\ AtHand(l, it, w.boarding, route)
<1> DEFINE Plan(k) == PlanAirportLeg(k, PositionAt(it, k.anchor).address, live, w.boarding, route)
           p == Legs(w, it, flights, known, live, route)
           q == Plan(l)
           to == IF l.kind = "arrival" THEN PositionAt(it, l.anchor).address ELSE l.to
           drive == Drive(route, l.from, to)
           Due(b) == /\ b.from = l.from /\ b.start = LegStart(l, route)
                     /\ l.kind = "transfer" => Drive(route, l.from, l.to) # Failed
<1> SUFFICES /\ \A b \in p.desired : Key(b) = LegKey(l) => Due(b)
             /\ \/ Told(p, l, l.from, LegStart(l, route))
                \/ l.kind = "arrival" /\ AtHand(l, it, w.boarding, route)
  OBVIOUS
<1>1. q.desired \subseteq p.desired /\ q.held \subseteq p.held
  BY DEF Legs, Both
<1>2. ASSUME NEW b \in p.desired, Key(b) = LegKey(l) PROVE b \in q.desired
  <2>1. b.id = l.id /\ b.kind = l.kind
    BY <1>2 DEF Key, LegKey
  <2>2. b.kind \in AirportKinds
    BY <2>1 DEF LegKinds, AirportKinds
  <2>3. PICK k \in ChainLegs(flights, w.lodging, known) : b \in Plan(k).desired
    BY <2>2, AirportDrivesFrom
  <2>4. b.id = k.id /\ b.kind = k.kind
    BY <2>3, AirportDriveOf DEF PlanAirportLeg
  <2>5. k = l
    BY <2>1, <2>4, LegsByKey DEF LegKey
  <2> QED
    BY <2>3, <2>5
<1>3. q = AirportDrive(l, l.from, to, w.boarding, route)
  BY DEF PlanAirportLeg, LegKinds
<1>4. /\ \A b \in q.desired : Key(b) = LegKey(l) /\ Due(b)
      /\ \/ q.desired # {}
         \/ \E h \in q.held : Key(h) = LegKey(l)
         \/ l.kind = "arrival" /\ AtHand(l, it, w.boarding, route)
  <2> DEFINE h == Hold(l.id, l.kind, l.closes)
             held == [Nothing EXCEPT !.held = {h}]
             s == IF l.kind = "arrival" THEN l.anchor ELSE l.closes - drive
             b == Block(l.id, l.kind, s, s + drive, l.from, to, l.anchor, l.closes)
             due == [Nothing EXCEPT !.desired = {b}]
  <2>1. held.desired = {} /\ h \in held.held /\ Key(h) = LegKey(l)
    BY DEF Nothing, Hold, Key, LegKey
  <2>2. due.desired = {b} /\ Key(b) = LegKey(l) /\ b.from = l.from /\ b.start = s
    BY DEF Nothing, Block, Key, LegKey
  <2>3. s = LegStart(l, route) /\ (l.kind = "transfer" => to = l.to)
    BY DEF LegStart, LegKinds
  <2>4. \/ q = held \/ (q = due /\ drive # Failed)
        \/ /\ l.kind # "transfer" /\ to # Nowhere /\ drive # Failed /\ TrivialLeg(drive, w.boarding)
           /\ q = Nothing
    <3> HIDE DEF q, to
    <3> QED
      BY <1>3 DEF AirportDrive
  <2> HIDE DEF q, held, due, b, s, h
  <2>5. CASE /\ l.kind # "transfer" /\ to # Nowhere /\ drive # Failed /\ TrivialLeg(drive, w.boarding)
             /\ q = Nothing
    BY <2>5 DEF AtHand, LegKinds, Nothing
  <2>6. CASE q = held
    BY <2>1, <2>6
  <2>7. CASE q = due /\ drive # Failed
    BY <2>2, <2>3, <2>7
  <2> QED
    BY <2>4, <2>5, <2>6, <2>7
<1> HIDE DEF q, p, to, Due
<1>5. \A b \in p.desired : Key(b) = LegKey(l) => Due(b)
  BY <1>2, <1>4
<1>6. q.desired # {} => Told(p, l, l.from, LegStart(l, route))
  BY <1>1, <1>4 DEF Told, Due
<1>7. (\E h \in q.held : Key(h) = LegKey(l)) => Told(p, l, l.from, LegStart(l, route))
  BY <1>1 DEF Told
<1> QED
  BY <1>4, <1>5, <1>6, <1>7

\* Commutes that go take no other drive with them.
LEMMA WithoutTells ==
  ASSUME NEW p, NEW l, l.kind \in LegKinds, NEW from, NEW at, Told(p, l, from, at),
         NEW blocks, \A b \in blocks : b.kind \in CommuteKinds
  PROVE  /\ Told(Without(p, blocks), l, from, at)
         /\ Without(p, blocks).desired \subseteq p.desired
<1>1. \A b \in p.desired : Key(b) = LegKey(l) => b \notin blocks
  BY DEF Key, LegKey, LegKinds, CommuteKinds
<1>2. /\ Without(p, blocks).desired = p.desired \ blocks
      /\ p.held \subseteq Without(p, blocks).held
  BY DEF Without
<1> QED
  BY <1>1, <1>2 DEF Told

-----------------------------------------------------------------------------
(* The guards are those of the flights that fly. *)

\* Of finitely many things that have a number, one has the lowest.
LEMMA LowestNumber ==
  ASSUME NEW S, IsFiniteSet(S), S # {}, NEW f, \A x \in S : f[x] \in Int
  PROVE  \E x \in S : \A y \in S : f[x] <= f[y]
<1> DEFINE Under(x) == {y \in S : f[y] <= f[x]}
           family == {Under(x) : x \in S}
<1>1. PICK s \in family : \A t \in family : ~(t \subseteq s /\ t # s)
  <2> DEFINE all == S
  <2>1. family \subseteq SUBSET all /\ family # {} /\ IsFiniteSet(all)
    OBVIOUS
  <2> HIDE DEF family, all
  <2> QED
    BY <2>1, Minimal
<1>2. PICK x \in S : s = Under(x)
  OBVIOUS
<1>3. ASSUME NEW y \in S, f[y] < f[x] PROVE FALSE
  <2>1. Under(y) \subseteq Under(x)
    BY <1>3
  <2>2. x \in Under(x) /\ x \notin Under(y)
    BY <1>3
  <2>3. Under(y) \in family
    OBVIOUS
  <2> HIDE DEF Under, family
  <2> QED
    BY <1>1, <1>2, <2>1, <2>2, <2>3
<1> QED
  BY <1>3

\* A finite strict order can be written down in a row.
LEMMA RowExists ==
  ASSUME NEW S, IsFiniteSet(S), NEW R,
         \A x \in S : <<x, x>> \notin R,
         \A x, y, z \in S : <<x, y>> \in R /\ <<y, z>> \in R => <<x, z>> \in R
  PROVE  \E o \in [1..Cardinality(S) -> S] :
           \A i, j \in 1..Cardinality(S) : i < j => o[i] # o[j] /\ <<o[j], o[i]>> \notin R
<1> DEFINE Row(A, k) == \E o \in [1..k -> A] :
             \A i, j \in 1..k : i < j => o[i] # o[j] /\ <<o[j], o[i]>> \notin R
           T == {k \in Nat : \E A \in SUBSET S : Cardinality(A) = k /\ ~Row(A, k)}
<1>1. ASSUME T # {} PROVE FALSE
  <2>1. PICK k \in T : \A j \in T : k <= j
    <3>1. T \in SUBSET Nat
      OBVIOUS
    <3> HIDE DEF T
    <3> QED
      BY <1>1, <3>1, Least
  <2>2. PICK A \in SUBSET S : Cardinality(A) = k /\ ~Row(A, k)
    BY <2>1
  <2>3. IsFiniteSet(A)
    BY FS_Subset
  <2>4. A # {} /\ k # 0
    <3>1. CASE k = 0
      <4>1. 1..k = {}
        BY <3>1
      <4>2. [i \in 1..k |-> i] \in [1..k -> A]
        BY <4>1
      <4> QED
        BY <2>2, <4>1, <4>2
    <3>2. A = {} => k = 0
      BY <2>2, FS_EmptySet
    <3> QED
      BY <3>1, <3>2
  <2> DEFINE Above(x) == {y \in A : y = x \/ <<x, y>> \in R}
             family == {Above(x) : x \in A}
  <2>5. PICK s \in family : \A t \in family : ~(t \subseteq s /\ t # s)
    <3>0. PICK x \in A : TRUE
      BY <2>4
    <3>1. family \subseteq SUBSET A /\ Above(x) \in family
      <4>1. \A y \in A : Above(y) \in SUBSET A
        OBVIOUS
      <4> HIDE DEF Above, T, Row
      <4> QED
        BY <4>1
    <3> HIDE DEF family
    <3> QED
      BY <2>3, <3>1, Minimal
  <2>6. PICK a \in A : s = Above(a)
    OBVIOUS
  <2>7. ASSUME NEW y \in A, <<a, y>> \in R PROVE FALSE
    <3>1. Above(y) \subseteq Above(a)
      BY <2>7
    <3>2. a \in Above(a) /\ a \notin Above(y)
      BY <2>7
    <3>3. Above(y) \in family
      OBVIOUS
    <3> HIDE DEF Above, family
    <3> QED
      BY <2>5, <2>6, <3>1, <3>2, <3>3
  <2> DEFINE B == A \ {a}
  <2>8. Cardinality(B) = k - 1 /\ k - 1 \in Nat /\ B \in SUBSET S
    <3>1. k \in Nat
      OBVIOUS
    <3>2. Cardinality(B) = Cardinality(A) - 1
      BY <2>3, FS_RemoveElement
    <3> HIDE DEF T
    <3> QED
      BY <2>2, <2>4, <3>1, <3>2
  <2>9. Row(B, k - 1)
    <3> HIDE DEF B, Row
    <3> QED
      BY <2>1, <2>8
  <2>10. PICK o \in [1..(k - 1) -> B] :
           \A i, j \in 1..(k - 1) : i < j => o[i] # o[j] /\ <<o[j], o[i]>> \notin R
    BY <2>9
  <2> DEFINE r == [i \in 1..k |-> IF i < k THEN o[i] ELSE a]
  <2>11. \A i \in 1..k : /\ i < k => r[i] = o[i] /\ r[i] \in B /\ i \in 1..(k - 1)
                         /\ i = k => r[i] = a
    BY <2>8
  <2>12. r \in [1..k -> A]
    BY <2>8
  <2> HIDE DEF r
  <2>13. ASSUME NEW i \in 1..k, NEW j \in 1..k, i < j
         PROVE  r[i] # r[j] /\ <<r[j], r[i]>> \notin R
    <3>1. i < k
      BY <2>8, <2>13
    <3>2. CASE j = k
      BY <2>7, <2>11, <3>1, <3>2
    <3>3. CASE j < k
      BY <2>10, <2>11, <2>13, <3>1, <3>3
    <3> QED
      BY <2>8, <3>2, <3>3
  <2> QED
    BY <2>2, <2>12, <2>13
<1>2. Cardinality(S) \in Nat
  BY FS_CardinalityType
<1>3. Row(S, Cardinality(S))
  <2> HIDE DEF Row
  <2> QED
    BY <1>1, <1>2
<1> QED
  BY <1>3

\* Each guard is of a flight that flies, and each such flight has its guard.
LEMMA GuardsAreFlights ==
  ASSUME NEW flights, IsFiniteSet(flights), NEW known,
         \A m \in flights : m.booked \in Int
  PROVE  /\ \A i \in DOMAIN Guards(flights, known) :
              \E m \in flights : m.status = "flying" /\ Guards(flights, known)[i] = Guard(m, known)
         /\ \A m \in flights : m.status = "flying" =>
              \E i \in DOMAIN Guards(flights, known) : Guards(flights, known)[i] = Guard(m, known)
<1> DEFINE
      Fellow(m, x) == x = m \/ (m.trip # Nowhere /\ x.trip = m.trip)
      Opens(m) == CHOOSE x \in flights :
        /\ x = m \/ (m.trip # Nowhere /\ x.trip = m.trip)
        /\ \A y \in flights : y = m \/ (m.trip # Nowhere /\ y.trip = m.trip) => x.booked <= y.booked
      Before(m, x) == \/ Opens(m).booked < Opens(x).booked
                      \/ Opens(m).booked = Opens(x).booked /\ m.booked < x.booked
      flying == {m \in flights : m.status = "flying"}
      n == Cardinality(flying)
      Ordered(o) == \A i, j \in 1..n : i < j => o[i] # o[j] /\ ~Before(o[j], o[i])
      order == CHOOSE o \in [1..n -> flying] :
        \A i, j \in 1..n : i < j => o[i] # o[j] /\ ~Before(o[j], o[i])
      R == {p \in flying \X flying : Before(p[1], p[2])}
<1>1. Guards(flights, known) = [i \in 1..n |-> Guard(order[i], known)]
  BY DEF Guards
<1>2. IsFiniteSet(flying)
  BY FS_Subset
<1>3. \A m \in flights : Opens(m) \in flights
  <2> SUFFICES ASSUME NEW m \in flights PROVE Opens(m) \in flights
    OBVIOUS
  <2> DEFINE C == {x \in flights : Fellow(m, x)}
             b == [x \in C |-> x.booked]
  <2>1. IsFiniteSet(C) /\ m \in C
    BY FS_Subset
  <2>2. \A x \in C : b[x] \in Int
    OBVIOUS
  <2>3. PICK x \in C : \A y \in C : b[x] <= b[y]
    <3> HIDE DEF C, b
    <3> QED
      BY <2>1, <2>2, LowestNumber
  <2>4. /\ x = m \/ (m.trip # Nowhere /\ x.trip = m.trip)
        /\ \A y \in flights : y = m \/ (m.trip # Nowhere /\ y.trip = m.trip) => x.booked <= y.booked
    BY <2>3
  <2> QED
    BY <2>4
<1>4. \A m \in flying : Opens(m).booked \in Int /\ m.booked \in Int
  <2> HIDE DEF Opens
  <2> QED
    BY <1>3
<1> HIDE DEF Opens
<1>5. /\ \A x \in flying : <<x, x>> \notin R
      /\ \A x, y, z \in flying : <<x, y>> \in R /\ <<y, z>> \in R => <<x, z>> \in R
  <2>1. \A x, y \in flying : <<x, y>> \in R <=> Before(x, y)
    <3> HIDE DEF Before, flying
    <3> QED
      OBVIOUS
  <2>2. \A x \in flying : ~Before(x, x)
    BY <1>4
  <2>3. \A x, y, z \in flying : Before(x, y) /\ Before(y, z) => Before(x, z)
    <3> HIDE DEF flying
    <3> QED
      BY <1>4
  <2> HIDE DEF R, Before, flying
  <2> QED
    BY <2>1, <2>2, <2>3
<1>6. \E o \in [1..n -> flying] : Ordered(o)
  <2>1. \E o \in [1..n -> flying] :
          \A i, j \in 1..n : i < j => o[i] # o[j] /\ <<o[j], o[i]>> \notin R
    <3> HIDE DEF R, flying
    <3> QED
      BY <1>2, <1>5, RowExists
  <2>2. PICK o \in [1..n -> flying] :
          \A i, j \in 1..n : i < j => o[i] # o[j] /\ <<o[j], o[i]>> \notin R
    BY <2>1
  <2>3. \A i, j \in 1..n : <<o[j], o[i]>> \in flying \X flying
    <3> HIDE DEF flying, n
    <3> QED
      OBVIOUS
  <2> HIDE DEF Before, flying, n
  <2>4. \A i, j \in 1..n : <<o[j], o[i]>> \notin R => ~Before(o[j], o[i])
    BY <2>3 DEF R
  <2> QED
    BY <2>2, <2>4
<1>7. order \in [1..n -> flying] /\ \A i, j \in 1..n : i < j => order[i] # order[j]
  <2> HIDE DEF Before, n, flying
  <2> QED
    BY <1>6
<1> HIDE DEF order
<1>8. n \in Nat /\ Cardinality(1..n) = n /\ IsFiniteSet(1..n)
  <2>1. n \in Nat
    BY <1>2, FS_CardinalityType
  <2> HIDE DEF n
  <2> QED
    BY <2>1, FS_Interval
<1>9. order \in Surjection(1..n, flying)
  <2>1. order \in Injection(1..n, flying)
    <3>1. ASSUME NEW i \in 1..n, NEW j \in 1..n, order[i] = order[j] PROVE i = j
      <4> HIDE DEF n, flying
      <4> QED
        BY <1>7, <1>8, <3>1
    <3> HIDE DEF n, flying
    <3> QED
      BY <1>7, <3>1 DEF Injection, IsInjective
  <2> QED
    BY <1>2, <1>8, <2>1, FS_Injection
<1>10. \A m \in flying : \E i \in 1..n : order[i] = m
  <2> HIDE DEF n, flying
  <2> QED
    BY <1>9 DEF Surjection
<1> HIDE DEF n
<1>11. \A i \in 1..n : order[i] \in flights /\ order[i].status = "flying"
  BY <1>7
<1>12. \A m \in flights : m.status = "flying" => \E i \in 1..n : order[i] = m
  BY <1>10
<1> QED
  BY <1>1, <1>11, <1>12

-----------------------------------------------------------------------------
(* What the landings leave of the drive from an airport. *)

\* A meeting that he lands in is not right there.
Away(m, from, at, route) ==
  /\ m.start < at /\ at < m.end /\ Drive(route, from, m.place) # Failed
  => Drive(route, from, m.place) > MinDrive

\* The landings hold what the legs do, and rule out meeting drives and drives
\* they find; a transfer stays, and so does the drive
\* from where a flight of ids lands.
Arranged(s, p, landed, ids, from, at) ==
  /\ Composed(s) /\ s.held = p.held
  /\ \A k \in s.unsafe : k[2] \in MeetingKinds \/ (k[2] = "arrival" /\ k[1] \in landed)
  /\ \A b \in p.desired : b.kind = "transfer" => b \in s.desired
  /\ \A b \in s.desired : /\ b.kind = "transfer" => b \in p.desired
                          /\ b.kind = "arrival" => b.id \in landed
  /\ \A id \in ids \cap landed :
       \E d \in s.desired : Key(d) = <<id, "arrival">> /\ d.from = from /\ d.start = at

LEMMA DropArranges ==
  ASSUME NEW s, NEW p, NEW landed, NEW ids, NEW from, NEW at, Arranged(s, p, landed, ids, from, at),
         NEW keys, \A k \in keys : k[2] \in MeetingKinds
  PROVE  Arranged(Drop(s, keys), p, landed, ids, from, at)
<1> DEFINE t == Drop(s, keys)
<1>1. /\ t.held = s.held /\ Composed(t) /\ t.unsafe = s.unsafe \cup keys
      /\ t.desired = {b \in s.desired : Key(b) \notin keys}
  BY DEF Drop, Arranged, Composed
<1> HIDE DEF t
<1>2. \A b \in s.desired : b.kind \in {"transfer", "arrival"} => b \in t.desired
  BY <1>1 DEF Key, MeetingKinds
<1>3. ASSUME NEW id, NEW d \in s.desired, Key(d) = <<id, "arrival">> PROVE d \in t.desired
  BY <1>2, <1>3 DEF Key
<1>4. Arranged(t, p, landed, ids, from, at)
  BY <1>1, <1>2, <1>3 DEF Arranged
<1> QED
  BY <1>4 DEF t

\* A handoff at the landing of a flight of ids leaves a drive from there, if the meeting is
\* not at the airport.
LEMMA HandoffArranges ==
  ASSUME NEW s, NEW p, NEW landed, NEW ids, NEW from, NEW at, Arranged(s, p, landed, ids, from, at),
         NEW g, NEW m, NEW quiet, NEW it, NEW route, g.id \in landed,
         g.id \in ids => /\ g.airport = from /\ g.ready = at
                         /\ Drive(route, from, m.place) # Failed => Drive(route, from, m.place) > MinDrive
  PROVE  Arranged(Handoff(g, m, quiet, s, it, route), p, landed, ids, from, at)
<1> DEFINE h == Handoff(g, m, quiet, s, it, route)
<1> SUFFICES Arranged(h, p, landed, ids, from, at)
  OBVIOUS
<1>0. \A k \in MeetingKeys(m.id) : k[2] \in MeetingKinds
  BY DEF MeetingKeys
<1>1. h = Drop(s, MeetingKeys(m.id)) \/ Handed(h, s, g, m, route)
  BY HandoffHands DEF Arranged
<1> HIDE DEF h
<1>2. CASE Handed(h, s, g, m, route)
  <2>0. \E gone : \E come :
             /\ h = [s EXCEPT
                      !.desired = {b \in s.desired : Key(b) \notin {<<g.id, "arrival">>} \cup MeetingKeys(m.id)}
                                    \cup come,
                      !.unsafe = s.unsafe \cup gone]
             /\ \A d \in come : (d.id = g.id /\ d.kind = "arrival") \/ d.kind = "return"
             /\ \A k \in gone : k \in MeetingKeys(m.id) \cup {<<g.id, "arrival">>}
             /\ Drive(route, g.airport, m.place) # Failed
             /\ Drive(route, g.airport, m.place) > MinDrive =>
                  \E d \in come : Key(d) = <<g.id, "arrival">> /\ d.from = g.airport /\ d.start = g.ready
    BY <1>2 DEF Handed
  <2>1. PICK gone, come :
             /\ h = [s EXCEPT
                      !.desired = {b \in s.desired : Key(b) \notin {<<g.id, "arrival">>} \cup MeetingKeys(m.id)}
                                    \cup come,
                      !.unsafe = s.unsafe \cup gone]
             /\ \A d \in come : (d.id = g.id /\ d.kind = "arrival") \/ d.kind = "return"
             /\ \A k \in gone : k \in MeetingKeys(m.id) \cup {<<g.id, "arrival">>}
             /\ Drive(route, g.airport, m.place) # Failed
             /\ Drive(route, g.airport, m.place) > MinDrive =>
                  \E d \in come : Key(d) = <<g.id, "arrival">> /\ d.from = g.airport /\ d.start = g.ready
    BY <2>0
  <2>2. /\ h.desired = {b \in s.desired : Key(b) \notin {<<g.id, "arrival">>} \cup MeetingKeys(m.id)} \cup come
        /\ h.unsafe = s.unsafe \cup gone /\ h.held = s.held /\ Composed(h)
    BY <2>1 DEF Arranged, Composed
  <2>3. \A k \in gone : k[2] \in MeetingKinds \/ (k[2] = "arrival" /\ k[1] \in landed)
    BY <1>0, <2>1
  <2>4. ASSUME NEW b \in s.desired, b.kind \in {"transfer", "arrival"},
               b.kind = "arrival" => b.id # g.id
        PROVE  b \in h.desired
    <3>1. Key(b)[1] = b.id /\ Key(b)[2] = b.kind
      BY DEF Key
    <3>2. Key(b) \notin MeetingKeys(m.id)
      BY <1>0, <2>4, <3>1 DEF MeetingKinds
    <3>3. Key(b) # <<g.id, "arrival">>
      BY <2>4, <3>1
    <3> QED
      BY <2>2, <3>2, <3>3
  <2>5. ASSUME NEW id \in ids \cap landed
        PROVE  \E d \in h.desired : Key(d) = <<id, "arrival">> /\ d.from = from /\ d.start = at
    <3>1. CASE id = g.id
      <4>1. g.airport = from /\ g.ready = at
        BY <2>5, <3>1
      <4>2. Drive(route, g.airport, m.place) > MinDrive
        BY <2>1, <2>5, <3>1, <4>1
      <4> QED
        BY <2>1, <2>2, <3>1, <4>1, <4>2
    <3>2. CASE id # g.id
      <4>1. PICK d \in s.desired : Key(d) = <<id, "arrival">> /\ d.from = from /\ d.start = at
        BY <2>5 DEF Arranged
      <4>2. d.id = id /\ d.kind = "arrival"
        BY <4>1 DEF Key
      <4> QED
        BY <2>4, <3>2, <4>1, <4>2
    <3> QED
      BY <3>1, <3>2
  <2>6. ASSUME NEW b \in h.desired
        PROVE  /\ b.kind = "transfer" => b \in p.desired
               /\ b.kind = "arrival" => b.id \in landed
    BY <2>1, <2>2 DEF Arranged
  <2> QED
    BY <2>2, <2>3, <2>4, <2>5, <2>6 DEF Arranged
<1> QED
  BY <1>0, <1>1, <1>2, DropArranges

LEMMA AtLandingArranges ==
  ASSUME NEW s, NEW p, NEW landed, NEW ids, NEW from, NEW at, Arranged(s, p, landed, ids, from, at),
         NEW g, NEW meetings, NEW it, NEW route, NEW cal,
         g.id \in ids =>
           /\ g.airport = from /\ g.ready = at
           /\ \A m \in meetings : Away(m, from, at, route)
  PROVE  Arranged(AtLanding(s, g, meetings, it, route, cal, landed), p, landed, ids, from, at)
<1> DEFINE
      candidates == {m \in meetings : m.id \notin s.used /\ m.start < g.ready /\ g.ready < m.end}
      gone == {m \in candidates : Unreachable(g, m, Drive(route, g.airport, m.place))}
      dropped == {m.id : m \in gone}
      keys == UNION {MeetingKeys(i) : i \in dropped}
      after == [Drop(s, keys) EXCEPT !.used = @ \cup dropped]
      inPlay == candidates \ gone
      m == CHOOSE x \in inPlay : TRUE
      recheck == m.quiet /\ dropped # {}
      follow == Follows(m, meetings, dropped)
      invalid == {<<o.id, "outbound">> : o \in {x \in follow : ~Continues(m, x, after, cal)}}
      quiet == \E o \in follow : Continues(m, o, after, cal)
      done == IF recheck THEN Handoff(g, m, quiet, Drop(after, invalid), it, route)
              ELSE Handoff(g, m, m.quiet, after, it, route)
      t == AtLanding(s, g, meetings, it, route, cal, landed)
      Kept(x) == Arranged(x, p, landed, ids, from, at)
<1> SUFFICES Kept(t)
  OBVIOUS
<1>1. t = IF g.id \notin landed THEN s
          ELSE IF Cardinality(inPlay) # 1 THEN after
          ELSE [done EXCEPT !.used = @ \cup {m.id}]
  BY DEF AtLanding
<1> HIDE DEF t
<1>2. ASSUME NEW x, NEW u, Kept(x) PROVE Kept([x EXCEPT !.used = u])
  BY <1>2 DEF Arranged, Composed
<1>3. Kept(after)
  <2> DEFINE d == Drop(s, keys)
  <2>0. \A k \in keys : k[2] \in MeetingKinds
    BY DEF MeetingKeys
  <2>1. Kept(d)
    <3> HIDE DEF keys
    <3> QED
      BY <2>0, DropArranges
  <2> HIDE DEF d
  <2>2. after = [d EXCEPT !.used = d.used \cup dropped]
    BY <2>1 DEF Arranged, Composed, d
  <2> HIDE DEF after, dropped, Kept
  <2> QED
    BY <1>2, <2>1, <2>2
<1>4. \A k \in invalid : k[2] \in MeetingKinds
  <2>1. \A k \in invalid : \E i : k = <<i, "outbound">>
    OBVIOUS
  <2> HIDE DEF invalid
  <2> QED
    BY <2>1 DEF MeetingKinds
<1>5. inPlay # {} => m \in meetings /\ m.start < g.ready /\ g.ready < m.end
  <2>1. inPlay # {} => m \in inPlay
    <3> HIDE DEF inPlay
    <3> QED
      OBVIOUS
  <2> QED
    BY <2>1
<1>6. Cardinality(inPlay) = 1 => inPlay # {}
  BY FS_EmptySet
<1> HIDE DEF after, inPlay, quiet, invalid, m, recheck, follow
<1>7. ASSUME g.id \in landed, m \in meetings, m.start < g.ready, g.ready < m.end PROVE Kept(done)
  <2>0. g.id \in ids => /\ g.airport = from /\ g.ready = at
                        /\ Drive(route, from, m.place) # Failed => Drive(route, from, m.place) > MinDrive
    BY <1>7 DEF Away
  <2>1. Kept(Drop(after, invalid))
    BY <1>3, <1>4, DropArranges
  <2> DEFINE e == Drop(after, invalid)
  <2> HIDE DEF e
  <2>2. Kept(Handoff(g, m, quiet, e, it, route))
    BY <1>7, <2>0, <2>1, HandoffArranges DEF e
  <2>3. Kept(Handoff(g, m, m.quiet, after, it, route))
    BY <1>3, <1>7, <2>0, HandoffArranges
  <2> HIDE DEF Kept
  <2> QED
    BY <2>2, <2>3 DEF e
<1>8. ASSUME g.id \in landed, m \in meetings, m.start < g.ready, g.ready < m.end
      PROVE  Kept([done EXCEPT !.used = @ \cup {m.id}])
  <2>1. DOMAIN done = {"desired", "held", "unsafe", "used"}
    BY <1>7, <1>8 DEF Arranged, Composed
  <2> HIDE DEF done
  <2>2. [done EXCEPT !.used = @ \cup {m.id}] = [done EXCEPT !.used = done.used \cup {m.id}]
    BY <2>1
  <2> HIDE DEF Kept
  <2> QED
    BY <1>2, <1>7, <1>8, <2>2
<1> HIDE DEF done
<1>9. Kept(s)
  BY DEF Kept
<1> HIDE DEF Kept
<1> QED
  BY <1>1, <1>3, <1>5, <1>6, <1>8, <1>9

LEMMA LandingsArrange ==
  ASSUME NEW p, NEW ids, NEW from, NEW at,
         \A b \in p.desired : b.kind = "arrival" /\ b.id \in ids => b.from = from /\ b.start = at,
         NEW guards, NEW meetings, NEW it, NEW route,
         NEW cal, NEW n \in Nat, DOMAIN guards = 1..n,
         \A i \in 1..n : guards[i].id \in ids =>
           /\ guards[i].airport = from /\ guards[i].ready = at
           /\ \A m \in meetings : Away(m, from, at, route)
  PROVE  Arranged(AtLandings(p, guards, meetings, it, route, cal)[n], p,
                  {b.id : b \in {x \in p.desired : x.kind = "arrival"}}, ids, from, at)
<1> DEFINE a == AtLandings(p, guards, meetings, it, route, cal)
           landed == {b.id : b \in {x \in p.desired : x.kind = "arrival"}}
           Fine(k) == Arranged(a[k], p, landed, ids, from, at)
           T == {k \in 0..n : ~Fine(k)}
<1>1. Landed(a, n, p, guards, meetings, it, route, cal)
  BY LandingsAre
<1> HIDE DEF a
<1>2. Fine(0)
  <2>1. a[0] = Unlanded(p)
    BY <1>1 DEF Landed
  <2>2. \A id \in ids \cap landed :
          \E d \in p.desired : Key(d) = <<id, "arrival">> /\ d.from = from /\ d.start = at
    BY DEF Key
  <2>3. \A b \in p.desired : b.kind = "arrival" => b.id \in landed
    OBVIOUS
  <2> HIDE DEF landed
  <2> QED
    BY <2>1, <2>2, <2>3 DEF Unlanded, Arranged, Composed
<1>4. ASSUME NEW k \in 1..n, Fine(k - 1) PROVE Fine(k)
  <2>1. a[k] = AtLanding(a[k - 1], guards[k], meetings, it, route, cal, landed)
    BY <1>1 DEF Landed
  <2> HIDE DEF landed
  <2> QED
    BY <1>4, <2>1, AtLandingArranges
<1> HIDE DEF Fine
<1>5. ASSUME T # {} PROVE FALSE
  <2>1. T \in SUBSET Nat
    OBVIOUS
  <2>2. PICK k \in T : \A j \in T : k <= j
    <3> HIDE DEF T
    <3> QED
      BY <1>5, <2>1, Least
  <2>3. k \in 1..n /\ k - 1 \in 0..n /\ k - 1 \notin T
    BY <1>2, <2>2
  <2> QED
    BY <1>4, <2>2, <2>3
<1>6. Fine(n)
  BY <1>5
<1> QED
  BY <1>6 DEF Fine, a

\* A drive that is due stays, unless it begins in a guard; so does a hold that
\* no drive replaces.
LEMMA ComposeTells ==
  ASSUME NEW p, NEW l, l.kind \in LegKinds, NEW from, NEW at,
         \A b \in p.desired : Key(b) = LegKey(l) => b.from = from /\ b.start = at,
         Told(p, l, from, at),
         NEW guards, NEW meetings, NEW it, NEW route,
         NEW cal, NEW n \in Nat, DOMAIN guards = 1..n, Len(guards) = n,
         l.kind = "arrival" =>
           \A i \in 1..n : guards[i].id = l.id =>
             /\ guards[i].airport = from /\ guards[i].ready = at
             /\ \A m \in meetings : Away(m, from, at, route),
         InProtected(at, guards) => \A b \in p.desired : Key(b) # LegKey(l)
  PROVE  Told(Compose(p, guards, meetings, it, route, cal), l, from, at)
<1> DEFINE c == Compose(p, guards, meetings, it, route, cal)
           s == AtLandings(p, guards, meetings, it, route, cal)[n]
           landed == {b.id : b \in {x \in p.desired : x.kind = "arrival"}}
           ids == {i \in {l.id} : l.kind = "arrival"}
           inside == {b \in s.desired : InProtected(b.start, guards)}
           badHeld == {h \in s.held : h.id \notin s.used /\ h.kind \in MeetingKinds
                                      /\ HeldUnsafe(h, guards, cal)}
           noWay == {b.id : b \in {x \in inside \cup badHeld : x.kind = "outbound"}}
           noReturn == {b.id : b \in {x \in inside \cup badHeld : x.kind = "return"}}
           ways == UNION {MeetingKeys(i) : i \in noWay}
           returns == {<<i, "return">> : i \in noReturn}
           stops == ways \cup returns
           unsafe == s.unsafe \cup {Key(b) : b \in inside} \cup stops
<1>1. CASE guards = <<>>
  BY <1>1 DEF Compose
<1>2. CASE guards # <<>>
  <2>1. /\ c.desired = {b \in s.desired \ inside : Key(b) \notin stops}
        /\ c.held = {h \in s.held : Key(h) \notin unsafe}
    <3>1. c = ClearGuards(s, guards, cal)
      BY <1>2 DEF Compose
    <3> HIDE DEF c, s
    <3>2. ClearGuards(s, guards, cal)
            = [desired |-> {b \in s.desired \ inside : Key(b) \notin stops},
               held |-> {h \in s.held : Key(h) \notin unsafe}]
      BY DEF ClearGuards
    <3> HIDE DEF inside, stops, unsafe
    <3> QED
      BY <3>1, <3>2
  <2>2. Arranged(s, p, landed, ids, from, at)
    <3>1. \A b \in p.desired : b.kind = "arrival" /\ b.id \in ids => b.from = from /\ b.start = at
      BY DEF Key, LegKey
    <3>2. \A i \in 1..n : guards[i].id \in ids =>
             /\ guards[i].airport = from /\ guards[i].ready = at
             /\ \A m \in meetings : Away(m, from, at, route)
      OBVIOUS
    <3> HIDE DEF ids
    <3> QED
      BY <3>1, <3>2, LandingsArrange
  <2>3. \A k \in stops : k[2] \in MeetingKinds
    <3>1. \A k \in ways : k[2] \in MeetingKinds
      BY DEF MeetingKeys
    <3>2. \A k \in returns : k[2] \in MeetingKinds
      <4>1. \A k \in returns : \E i : k = <<i, "return">>
        OBVIOUS
      <4> HIDE DEF returns
      <4> QED
        BY <4>1 DEF MeetingKinds
    <3> HIDE DEF ways, returns
    <3> QED
      BY <3>1, <3>2
  <2>4. LegKey(l)[1] = l.id /\ LegKey(l)[2] = l.kind /\ l.kind \notin MeetingKinds
    BY DEF LegKey, LegKinds, MeetingKinds
  <2>5. \A b : Key(b) = LegKey(l) => b.id = l.id /\ b.kind = l.kind
    BY DEF Key, LegKey
  <2> HIDE DEF c, s, stops
  <2>6. CASE \E b \in p.desired : Key(b) = LegKey(l)
    <3>1. PICK b \in p.desired : Key(b) = LegKey(l)
      BY <2>6
    <3>2. \E d \in s.desired : Key(d) = LegKey(l) /\ d.from = from /\ d.start = at
      <4>1. CASE l.kind = "transfer"
        BY <2>2, <2>5, <3>1, <4>1 DEF Arranged
      <4>2. CASE l.kind = "arrival"
        <5>1. l.id \in ids \cap landed
          BY <2>5, <3>1, <4>2
        <5> HIDE DEF ids, landed
        <5> QED
          BY <2>2, <4>2, <5>1 DEF Arranged, LegKey
      <4> QED
        BY <4>1, <4>2 DEF LegKinds
    <3>3. PICK d \in s.desired : Key(d) = LegKey(l) /\ d.from = from /\ d.start = at
      BY <3>2
    <3>4. d \notin inside
      BY <3>1, <3>3
    <3>5. Key(d) \notin stops
      BY <2>3, <2>4, <3>3
    <3>6. d \in c.desired
      <4> HIDE DEF inside
      <4> QED
        BY <2>1, <3>3, <3>4, <3>5
    <3>7. Told(c, l, from, at)
      BY <3>3, <3>6 DEF Told
    <3> QED
      BY <3>7 DEF c
  <2>7. CASE \A b \in p.desired : Key(b) # LegKey(l)
    <3>1. PICK h \in p.held : Key(h) = LegKey(l)
      BY <2>7 DEF Told
    <3>2. h \in s.held
      BY <2>2, <3>1 DEF Arranged
    <3>3. l.kind = "arrival" => l.id \notin landed
      BY <2>7 DEF Key, LegKey
    <3>4. \A b \in s.desired : Key(b) # LegKey(l)
      <4>1. ASSUME NEW b \in s.desired, Key(b) = LegKey(l) PROVE FALSE
        <5>1. b.kind = l.kind /\ b.id = l.id
          BY <2>5, <4>1
        <5> HIDE DEF landed
        <5> QED
          BY <2>2, <2>7, <3>3, <4>1, <5>1 DEF Arranged, LegKinds
      <4> QED
        BY <4>1
    <3>5. LegKey(l) \notin unsafe
      <4>1. LegKey(l) \notin stops
        BY <2>3, <2>4
      <4>2. LegKey(l) \notin s.unsafe
        <5> HIDE DEF landed
        <5> QED
          BY <2>2, <2>4, <3>3 DEF Arranged
      <4>3. LegKey(l) \notin {Key(b) : b \in inside}
        BY <3>4
      <4> HIDE DEF inside
      <4> QED
        BY <4>1, <4>2, <4>3
    <3>6. h \in c.held
      <4> HIDE DEF unsafe
      <4> QED
        BY <2>1, <3>1, <3>2, <3>5
    <3>7. Told(c, l, from, at)
      BY <3>1, <3>6 DEF Told
    <3> QED
      BY <3>7 DEF c
  <2> QED
    BY <2>6, <2>7
<1> QED
  BY <1>1, <1>2

\* The plan tells of the drive of a leg, unless it would begin in a guard.
LEMMA PlanTells ==
  ASSUME NEW w, Timed(w), FiniteAir(w), NEW flights,
         flights \subseteq MergeFlights(SweepFlights(w)), NEW it, NEW known,
         NEW guards, guards = Guards(flights, known), NEW live, NEW route,
         NEW l \in ChainLegs(flights, w.lodging, known), l.kind \in LegKinds,
         l.kind = "arrival" =>
           /\ ~AtHand(l, it, w.boarding, route)
           /\ \A e \in w.events : Away(e, l.from, l.anchor, route),
         NEW at, (l.kind = "transfer" => Drive(route, l.from, l.to) # Failed) => at = LegStart(l, route)
  PROVE  \/ Told(PlanFor(w, it, flights, known, guards, live, route), l, l.from, at)
         \/ /\ InProtected(at, guards)
            /\ l.kind = "transfer" => Drive(route, l.from, l.to) # Failed
<1> DEFINE
      legs == Legs(w, it, flights, known, live, route)
      clear == Clear(legs, guards)
      meetings == PostMeetings(Events(w), now, skips, it, w.rows)
      c == Compose(clear, guards, meetings, it, route, calendar)
      h == Housed(c, it)
      HasWay == l.kind = "transfer" => Drive(route, l.from, l.to) # Failed
<1> SUFFICES ASSUME ~(InProtected(at, guards) /\ HasWay)
             PROVE  Told(PlanFor(w, it, flights, known, guards, live, route), l, l.from, at)
  OBVIOUS
<1>9. PlanFor(w, it, flights, known, guards, live, route) = Planned(h, guards)
  BY Zenon DEF PlanFor, Fitted
<1>1. flights \subseteq MergeFlights(SweepFlights(w)) /\ IsFiniteSet(flights)
  BY FiniteFlights, FS_Subset
<1>2. PICK n \in Nat : DOMAIN guards = 1..n /\ Len(guards) = n
  BY <1>1, GuardsAreMany
<1>3. /\ \A b \in legs.desired : Key(b) = LegKey(l) => b.from = l.from /\ b.start = at /\ HasWay
      /\ Told(legs, l, l.from, at)
  <2> DEFINE start == LegStart(l, route)
  <2>1. /\ \A b \in legs.desired : Key(b) = LegKey(l) => b.from = l.from /\ b.start = start /\ HasWay
        /\ Told(legs, l, l.from, start)
    <3>1. /\ \A b \in legs.desired : Key(b) = LegKey(l) =>
               /\ b.from = l.from /\ b.start = start
               /\ l.kind = "transfer" => Drive(route, l.from, l.to) # Failed
          /\ \/ Told(legs, l, l.from, start)
             \/ l.kind = "arrival" /\ AtHand(l, it, w.boarding, route)
      BY <1>1, LegsTell
    <3> HIDE DEF legs, start
    <3> QED
      BY <3>1
  <2>2. HasWay => at = LegStart(l, route)
    OBVIOUS
  <2> HIDE DEF legs, HasWay
  <2> QED
    BY <2>1, <2>2 DEF Told
<1> HIDE DEF legs, HasWay
<1>4. /\ \A b \in clear.desired : Key(b) = LegKey(l) => b.from = l.from /\ b.start = at /\ HasWay
      /\ Told(clear, l, l.from, at)
  <2>1. \A b \in IntoGuard(legs, guards) : b.kind \in CommuteKinds
    BY DEF IntoGuard
  <2> QED
    BY <1>3, <2>1, WithoutTells DEF Clear
<1>5. ASSUME NEW i \in 1..n, l.kind = "arrival", guards[i].id = l.id
      PROVE  guards[i].airport = l.from /\ guards[i].ready = at
  <2>1. ASSUME NEW m \in flights PROVE m.booked \in Int
    <3>1. m \in MergeFlights(SweepFlights(w))
      BY <1>1
    <3> QED
      BY <3>1, MergedTimes
  <2>2. PICK y \in flights : guards[i] = Guard(y, known)
    BY <1>1, <1>2, <2>1, GuardsAreFlights
  <2>3. PICK m \in flights : l = ArrivalLeg(m, known)
    BY <1>5, ChainLegsFrom DEF DepartureLeg, ArrivalLeg, TransferLeg, Leg
  <2>4. KeyOf(y) = KeyOf(m)
    BY <1>5, <2>2, <2>3 DEF Guard, ArrivalLeg, Leg
  <2>5. y = m
    BY <1>1, <2>4, KeysApart
  <2>6. at = LegStart(l, route)
    BY <1>5
  <2> QED
    BY <2>2, <2>3, <2>5, <2>6 DEF Guard, ArrivalLeg, Leg, LegStart
<1>6. ASSUME NEW m \in meetings
      PROVE  \E e \in w.events : m.place = e.place /\ m.start = e.start /\ m.end = e.end
  BY DEF PostMeetings, Events
<1> HIDE DEF clear, meetings
<1>7. Told(c, l, l.from, at)
  <2>1. InProtected(at, guards) => \A b \in clear.desired : Key(b) # LegKey(l)
    BY <1>4
  <2>2. l.kind = "arrival" =>
           \A i \in 1..n : guards[i].id = l.id =>
             /\ guards[i].airport = l.from /\ guards[i].ready = at
             /\ \A m \in meetings : Away(m, l.from, at, route)
    <3>1. l.kind = "arrival" => at = l.anchor
      BY DEF LegStart
    <3> QED
      BY <1>5, <1>6, <3>1 DEF Away
  <2>3. \A b \in clear.desired : Key(b) = LegKey(l) => b.from = l.from /\ b.start = at
    BY <1>4
  <2> QED
    BY <1>2, <1>4, <2>1, <2>2, <2>3, ComposeTells
<1> HIDE DEF c
<1>8. Told(h, l, l.from, at)
  <2>1. \A b \in Unavailable(c, it) : b.kind \in CommuteKinds
    BY DEF Unavailable
  <2> QED
    BY <1>7, <2>1, WithoutTells DEF Housed
<1> HIDE DEF h
<1> QED
  <2>1. Told(Planned(h, guards), l, l.from, at)
    BY <1>8 DEF Planned, Told
  <2> QED
    BY <1>9, <2>1 DEF h, c, meetings, clear, legs

\* A drive the router answers is the usual one.
LEMMA OutageOf ==
  ASSUME NEW places, NEW a, NEW b, <<a, b>> \in DOMAIN Route, Drive(Outage(places), a, b) # Failed
  PROVE  Drive(Outage(places), a, b) = Drive(Route, a, b)
<1>1. Outage(places)[<<a, b>>] = IF {<<a, b>>[1], <<a, b>>[2]} \cap places # {} THEN Failed ELSE Route[<<a, b>>]
  BY DEF Outage
<1> QED
  BY <1>1 DEF Drive

-----------------------------------------------------------------------------
(* Nobody is left at an airport. *)

\* The router may answer that b is around the corner from a.
AtDoor(a, b) ==
  \E o \in Outages : /\ Drive(Outage(o), a, b) # Failed
                     /\ TrivialLeg(Drive(Outage(o), a, b), world.boarding)
Beside(a, b) ==
  \E o \in Outages : Drive(Outage(o), a, b) # Failed /\ ~(Drive(Outage(o), a, b) > MinDrive)

\* The flight of the same trip after m, unless he sleeps before it.
Onward(m) == {x \in NextInChain(m, Departing(world)) : ~Overnight(m, x, world.lodging)}

\* The drive after m is not left out for a reason of its own: he does not go
\* on from the same airport, no flight has him when it would begin, and
\* neither his bed nor the meeting he lands in is at the airport itself.
Unhindered(m, known, guards) ==
  IF Onward(m) # {}
  THEN \A x \in Onward(m) :
         /\ x.from # m.to
         /\ TransferHindered(m, x, known, guards) => Misses(m, x, known)
  ELSE /\ ~InProtected(ReadyAt(m, known), guards)
       /\ LET here == PositionAt(ItineraryFor(world), ReadyAt(m, known)).address
          IN  here = Nowhere \/ ~AtDoor(m.to, here)
       /\ \A e \in world.events :
            e.start < ReadyAt(m, known) /\ ReadyAt(m, known) < e.end => ~Beside(m.to, e.place)

\* A landing that is left to a drive and not hindered is told of.
SeamsTold ==
  plan.ran => \A m \in Flying(world) :
    LeftThere(m) /\ Unhindered(m, Known(world), plan.guards) => SeamCovered(m, Known(world))

\* What the chain of a flight has after it.
LEMMA LegAfter ==
  ASSUME NEW flights, NEW lodging, NEW known, NEW m \in flights, m.status # "diverted"
  PROVE  /\ \A x \in NextInChain(m, flights) :
              SeamLegs(m, x, lodging, known) \subseteq ChainLegs(flights, lodging, known)
         /\ (\A x \in NextInChain(m, flights) : Overnight(m, x, lodging))
            => ArrivalLeg(m, known) \in ChainLegs(flights, lodging, known)
<1> DEFINE next == NextInChain(m, flights)
           legs == IF next = {} THEN {ArrivalLeg(m, known)}
                   ELSE UNION {SeamLegs(m, x, lodging, known) : x \in next}
<1>1. legs \subseteq ChainLegs(flights, lodging, known)
  <2>1. legs = {l \in legs : m.status = "diverted" => l.kind = "departure"}
    OBVIOUS
  <2> QED
    BY <2>1 DEF ChainLegs
<1>2. \A x \in next : SeamLegs(m, x, lodging, known) \subseteq legs
  OBVIOUS
<1>3. ASSUME \A x \in next : Overnight(m, x, lodging) PROVE ArrivalLeg(m, known) \in legs
  <2>1. \A x \in next : ArrivalLeg(m, known) \in SeamLegs(m, x, lodging, known)
    BY <1>3 DEF SeamLegs
  <2> HIDE DEF next
  <2> QED
    BY <2>1
<1> QED
  BY <1>1, <1>2, <1>3

LEMMA SweepTells ==
  ASSUME WorldShape, Timed(world), Sweep
  PROVE  SeamsTold' /\ TransfersTold'
<1>1. PICK outage \in Outages, live \in Fixes : plan' = PlanDrives(world, live, Outage(outage))
  BY DEF Sweep
<1> DEFINE route == Outage(outage)
           known == Known(world)
           flights == Departing(world)
           guards == Guards(flights, known)
           it == ItineraryFor(world)
           Usual(a, b) == Drive(route, a, b) # Failed => Drive(route, a, b) = Drive(Route, a, b)
<1>2. plan' = PlanFor(world, it, flights, known, guards, live, route)
  BY <1>1 DEF PlanDrives, Departing
<1>3. plan'.guards = guards
  BY <1>2 DEF PlanFor, Planned
<1>4. world' = world
  BY DEF Sweep
<1>5. FiniteAir(world) /\ flights \subseteq MergeFlights(SweepFlights(world))
  BY DEF WorldShape, FiniteAir, Departing
<1>6. \A m \in Flying(world) : m \in flights /\ m.status # "diverted"
  BY DEF Flying
<1>7. ASSUME NEW m \in flights
      PROVE  /\ m.to \in DOMAIN Nudge /\ m.from \in DOMAIN Nudge
             /\ GuardStart(m, known) \in Int /\ ReadyAt(m, known) \in Int
  BY <1>5, MergedTimes, BoundsAreTimes
<1> HIDE DEF known, flights, it
<1>8. ASSUME NEW m \in Flying(world), NEW x \in NextInChain(m, flights),
             TransferLeg(m, x, known) \in SeamLegs(m, x, world.lodging, known)
      PROVE  LET l == TransferLeg(m, x, known)
                 start == GuardStart(x, known) - Drive(Route, m.to, x.from)
             IN  \/ \E h \in plan'.held : Key(h) = LegKey(l)
                 \/ \E b \in plan'.desired :
                      /\ Key(b) = LegKey(l) /\ b.from = m.to
                      /\ b.start = ReadyAt(m, known) \/ (b.start = start /\ start \in Int)
                 \/ InProtected(start, guards)
  <2> DEFINE l == TransferLeg(m, x, known)
             start == GuardStart(x, known) - Drive(Route, m.to, x.from)
             HasWay == Drive(route, m.to, x.from) # Failed
             at == IF HasWay THEN start ELSE ReadyAt(m, known)
  <2> SUFFICES \/ \E h \in plan'.held : Key(h) = LegKey(l)
               \/ \E b \in plan'.desired :
                    /\ Key(b) = LegKey(l) /\ b.from = m.to
                    /\ b.start = ReadyAt(m, known) \/ (b.start = start /\ start \in Int)
               \/ InProtected(start, guards)
    OBVIOUS
  <2>1. x \in flights
    BY DEF NextInChain
  <2>2. l \in ChainLegs(flights, world.lodging, known)
    BY <1>6, <1>8, LegAfter
  <2>3. /\ l.kind = "transfer" /\ l.from = m.to /\ l.to = x.from /\ l.closes = GuardStart(x, known)
    BY DEF TransferLeg, Leg
  <2>4. <<m.to, x.from>> \in DOMAIN Route /\ Drive(Route, m.to, x.from) \in Int \cup {Failed}
    BY <1>6, <1>7, <2>1, DrivePlanAssumption DEF Drive
  <2>5. HasWay => LegStart(l, route) = start /\ start \in Int
    BY <1>7, <2>1, <2>3, <2>4, OutageOf DEF LegStart
  <2>6. (l.kind = "transfer" => Drive(route, l.from, l.to) # Failed) => at = LegStart(l, route)
    BY <2>3, <2>5
  <2> HIDE DEF l, start, at
  <2>7. \/ Told(plan', l, l.from, at)
        \/ InProtected(at, guards) /\ Drive(route, l.from, l.to) # Failed
    <3>1. l.kind \in LegKinds /\ l.kind # "arrival"
      BY <2>3 DEF LegKinds
    <3> HIDE DEF route, HasWay
    <3> QED
      BY <1>2, <1>5, <2>2, <2>3, <2>6, <3>1, PlanTells
  <2>8. CASE Told(plan', l, l.from, at)
    BY <2>3, <2>5, <2>8 DEF Told, at
  <2>9. CASE InProtected(at, guards) /\ Drive(route, l.from, l.to) # Failed
    <3>1. at = start
      BY <2>3, <2>9 DEF at
    <3> QED
      BY <2>9, <3>1
  <2> QED
    BY <2>7, <2>8, <2>9
\* The drive into town.
<1>9. ASSUME NEW m \in Flying(world), \A x \in NextInChain(m, flights) : Overnight(m, x, world.lodging),
             ~InProtected(ReadyAt(m, known), guards),
             LET here == PositionAt(it, ReadyAt(m, known)).address
             IN  here = Nowhere \/ ~AtDoor(m.to, here),
             \A e \in world.events :
               e.start < ReadyAt(m, known) /\ ReadyAt(m, known) < e.end => ~Beside(m.to, e.place)
      PROVE  Told(plan', ArrivalLeg(m, known), m.to, ReadyAt(m, known))
  <2> DEFINE l == ArrivalLeg(m, known)
  <2>1. l \in ChainLegs(flights, world.lodging, known)
    BY <1>6, <1>9, LegAfter
  <2>2. l.kind = "arrival" /\ l.from = m.to /\ l.anchor = ReadyAt(m, known)
    BY DEF ArrivalLeg, Leg
  <2> HIDE DEF l
  <2>3. ~AtHand(l, it, world.boarding, route)
    BY <1>9, <2>2 DEF AtHand, AtDoor
  <2>4. \A e \in world.events : Away(e, l.from, l.anchor, route)
    BY <1>9, <2>2 DEF Beside, Away
  <2>5. l.kind \in LegKinds /\ l.kind # "transfer" /\ LegStart(l, route) = ReadyAt(m, known)
    BY <2>2 DEF LegKinds, LegStart
  <2> DEFINE at == ReadyAt(m, known)
  <2>6. ~InProtected(at, guards)
    BY <1>9
  <2>7. at = LegStart(l, route)
    BY <2>5
  <2> HIDE DEF at, route, guards
  <2>8. Told(plan', l, l.from, at)
    BY <1>2, <1>5, <2>1, <2>2, <2>3, <2>4, <2>5, <2>6, <2>7, PlanTells DEF guards
  <2> QED
    BY <2>2, <2>8 DEF l, at
\* So nobody is left at an airport.
<1>10. ASSUME NEW m \in Flying(world), Unhindered(m, known, guards)
       PROVE  \/ \E b \in plan'.desired : b.from = m.to /\ b.start >= ReadyAt(m, known)
              \/ \E h \in plan'.held : h.kind \in AirportKinds /\ KeyOf(m) \in FlightsOf(h)
              \/ \E x \in flights : Misses(m, x, known)
  <2> DEFINE Shown == \/ \E b \in plan'.desired : b.from = m.to /\ b.start >= ReadyAt(m, known)
                      \/ \E h \in plan'.held : h.kind \in AirportKinds /\ KeyOf(m) \in FlightsOf(h)
                      \/ \E x \in flights : Misses(m, x, known)
  <2>0. ReadyAt(m, known) \in Int /\ ReadyAt(m, known) >= ReadyAt(m, known)
    BY <1>6, <1>7
  <2>1. Onward(m) = {x \in NextInChain(m, flights) : ~Overnight(m, x, world.lodging)}
    BY DEF Onward, flights
  <2>2. CASE Onward(m) # {}
    <3>1. PICK x \in Onward(m) : TRUE
      BY <2>2
    <3>2. /\ x \in NextInChain(m, flights) /\ ~Overnight(m, x, world.lodging) /\ x \in flights
          /\ x.from # m.to
          /\ TransferHindered(m, x, known, guards) => Misses(m, x, known)
      BY <1>10, <2>1, <2>2 DEF Unhindered, NextInChain
    <3> DEFINE l == TransferLeg(m, x, known)
               start == GuardStart(x, known) - Drive(Route, m.to, x.from)
    <3>3. l \in SeamLegs(m, x, world.lodging, known)
      BY <3>2 DEF SeamLegs
    <3>4. \/ \E h \in plan'.held : Key(h) = LegKey(l)
          \/ \E b \in plan'.desired :
               /\ Key(b) = LegKey(l) /\ b.from = m.to
               /\ b.start = ReadyAt(m, known) \/ (b.start = start /\ start \in Int)
          \/ InProtected(start, guards)
      BY <1>8, <3>2, <3>3
    <3>5. l.kind = "transfer" /\ l.id = <<KeyOf(m), KeyOf(x)>>
      BY DEF TransferLeg, Leg
    <3>6. start < ReadyAt(m, known) => Misses(m, x, known)
      BY <3>2 DEF Misses, flights
    <3>7. InProtected(start, guards) => Misses(m, x, known)
      BY <3>2 DEF TransferHindered
    <3> HIDE DEF l, start
    <3>8. ASSUME NEW h \in plan'.held, Key(h) = LegKey(l) PROVE Shown
      <4>1. h.kind = "transfer" /\ h.id = <<KeyOf(m), KeyOf(x)>>
        BY <3>5, <3>8 DEF Key, LegKey
      <4>2. KeyOf(m) \in FlightsOf(h)
        BY <4>1 DEF FlightsOf
      <4> QED
        BY <4>1, <4>2 DEF AirportKinds
    <3>9. ASSUME NEW b \in plan'.desired, b.from = m.to,
                 b.start = ReadyAt(m, known) \/ (b.start = start /\ start \in Int)
          PROVE  Shown
      BY <2>0, <3>2, <3>6, <3>9
    <3> QED
      BY <3>2, <3>4, <3>7, <3>8, <3>9
  <2>3. CASE Onward(m) = {}
    <3>1. \A x \in NextInChain(m, flights) : Overnight(m, x, world.lodging)
      BY <2>1, <2>3
    <3>2. /\ ~InProtected(ReadyAt(m, known), guards)
          /\ LET here == PositionAt(it, ReadyAt(m, known)).address
             IN  here = Nowhere \/ ~AtDoor(m.to, here)
          /\ \A e \in world.events :
               e.start < ReadyAt(m, known) /\ ReadyAt(m, known) < e.end => ~Beside(m.to, e.place)
      BY <1>10, <2>3 DEF Unhindered, it
    <3>3. Told(plan', ArrivalLeg(m, known), m.to, ReadyAt(m, known))
      BY <1>9, <3>1, <3>2
    <3>4. ASSUME NEW h \in plan'.held, Key(h) = LegKey(ArrivalLeg(m, known))
          PROVE  h.kind \in AirportKinds /\ KeyOf(m) \in FlightsOf(h)
      BY <3>4 DEF Key, LegKey, ArrivalLeg, Leg, AirportKinds, FlightsOf
    <3> QED
      BY <2>0, <3>3, <3>4 DEF Told
  <2> QED
    BY <2>2, <2>3
<1>11. SeamsTold'
  <2>1. SeamsTold' <=>
          (plan'.ran => \A m \in Flying(world) :
             LeftThere(m) /\ Unhindered(m, Known(world), plan'.guards)
             => \/ \E b \in plan'.desired : b.from = m.to /\ b.start >= ReadyAt(m, Known(world))
                \/ \E h \in plan'.held : h.kind \in AirportKinds /\ KeyOf(m) \in FlightsOf(h)
                \/ \E x \in Departing(world) : Misses(m, x, Known(world)))
    <3>1. \A m : LeftThere(m)' <=> LeftThere(m)
      BY <1>4 DEF LeftThere
    <3>2. \A m, x, k : Misses(m, x, k)' <=> Misses(m, x, k)
      BY <1>4 DEF Misses
    <3>3. \A m, k, g : Unhindered(m, k, g)' <=> Unhindered(m, k, g)
      BY <1>4, <3>2 DEF Unhindered, Onward, AtDoor, Beside
    <3> QED
      BY <1>4, <3>1, <3>2, <3>3 DEF SeamsTold, SeamCovered
  <2> QED
    BY <1>3, <1>10, <2>1 DEF known, flights
<1>12. TransfersTold'
  <2> DEFINE told == {Key(l) : l \in plan'.desired \cup plan'.held}
             Due(m, x, k) == /\ x \in NextInChain(m, Departing(world))
                             /\ TransferLeg(m, x, k) \in SeamLegs(m, x, world.lodging, k)
  <2>1. ASSUME NEW m \in Flying(world), NEW x \in flights, Due(m, x, known),
               ~TransferHindered(m, x, known, guards)
        PROVE  Key(TransferLeg(m, x, known)) \in told
    <3>1. LegKey(TransferLeg(m, x, known)) = Key(TransferLeg(m, x, known))
      BY DEF LegKey, Key
    <3> QED
      BY <1>8, <2>1, <3>1 DEF TransferHindered, flights
  <2>2. \A m, x, k : TransferTold(m, x, k)' <=> (Due(m, x, k) => Key(TransferLeg(m, x, k)) \in told)
    BY <1>4 DEF TransferTold
  <2>3. \A m, x, k, g : TransferHindered(m, x, k, g)' <=> TransferHindered(m, x, k, g)
    BY DEF TransferHindered
  <2> HIDE DEF told, Due
  <2>4. TransfersTold' <=>
          (plan'.ran => \A m \in Flying(world), x \in Departing(world) :
             \/ Due(m, x, Known(world)) => Key(TransferLeg(m, x, Known(world))) \in told
             \/ TransferHindered(m, x, Known(world), guards))
    BY <1>3, <1>4, <2>2, <2>3 DEF TransfersTold
  <2> QED
    BY <2>1, <2>4 DEF known, flights
<1> QED
  BY <1>11, <1>12

\* A plan tells of the drive after each landing that is left to one, and of
\* each transfer, but for those named.
LEMMA PlansTell ==
  Spec => [](SeamsTold /\ TransfersTold)
<1> DEFINE Inv == WorldShape /\ Timed(world) /\ SeamsTold /\ TransfersTold
<1>1. Init => Inv
  <2> SUFFICES ASSUME Init PROVE Inv
    OBVIOUS
  <2>1. world \in Scenarios /\ plan = NoPlan
    BY DEF Init
  <2>2. WorldShape /\ Timed(world)
    BY <2>1, DrivePlanAssumption DEF WorldShape, FlightShape, Timed
  <2>3. SeamsTold /\ TransfersTold
    BY <2>1 DEF SeamsTold, TransfersTold, NoPlan
  <2> QED
    BY <2>2, <2>3
<1>2. Inv /\ [Next]_vars => Inv'
  <2> SUFFICES ASSUME WorldShape, Timed(world), SeamsTold, TransfersTold, [Next]_vars
               PROVE  WorldShape' /\ Timed(world)' /\ SeamsTold' /\ TransfersTold'
    OBVIOUS
  <2>1. WorldShape' /\ Timed(world)'
    BY WorldKeepsShape, WorldStaysTimed
  <2>2. Sweep => SeamsTold' /\ TransfersTold'
    BY SweepTells
  <2>3. plan' = NoPlan => SeamsTold' /\ TransfersTold'
    BY DEF SeamsTold, TransfersTold, NoPlan
  <2>4. UNCHANGED vars => SeamsTold' /\ TransfersTold'
    <3> SUFFICES ASSUME plan' = plan, world' = world PROVE SeamsTold' /\ TransfersTold'
      BY DEF vars
    <3>1. \A m : LeftThere(m)' <=> LeftThere(m)
      BY DEF LeftThere
    <3>2. \A m, x, k : Misses(m, x, k)' <=> Misses(m, x, k)
      BY DEF Misses
    <3>3. \A m, k, g : Unhindered(m, k, g)' <=> Unhindered(m, k, g)
      BY <3>2 DEF Unhindered, Onward, AtDoor, Beside
    <3>4. SeamsTold'
      BY <3>1, <3>2, <3>3 DEF SeamsTold, SeamCovered
    <3>5. \A m, x, k : TransferTold(m, x, k)' <=> TransferTold(m, x, k)
      BY DEF TransferTold
    <3>6. \A m, x, k, g : TransferHindered(m, x, k, g)' <=> TransferHindered(m, x, k, g)
      BY DEF TransferHindered
    <3>7. TransfersTold'
      BY <3>5, <3>6 DEF TransfersTold
    <3> QED
      BY <3>4, <3>7
  <2>5. Next => Sweep \/ plan' = NoPlan
    BY DEF Next, Delay, Disrupt, Unread, MoveMeeting, SkipDrive, Tick, Changed
  <2> QED
    BY <2>1, <2>2, <2>3, <2>4, <2>5
<1>3. Inv => SeamsTold /\ TransfersTold
  OBVIOUS
<1> QED
  BY <1>1, <1>2, <1>3, PTL DEF Spec

\* Each flight that nobody flies on from is told of, unless it is hindered.
SeamsUnhindered ==
  \A m \in Flying(world) : LeftThere(m) => Unhindered(m, Known(world), plan.guards)

\* Nobody is left at an airport unannounced: after a landing that is left to a
\* drive, one is planned from there or reported as held (plan_chain_legs,
\* build_reconcile_plan, compose_postarrival), unless the code has one of the
\* reasons in Unhindered to plan none.  This is so for each flight by itself,
\* and so for all of them if none is hindered.
THEOREM SeamsAreCovered ==
  Spec => [](SeamsTold /\ (SeamsUnhindered => SeamsCovered))
<1>1. SeamsTold => (SeamsUnhindered => SeamsCovered)
  BY DEF SeamsTold, SeamsUnhindered, SeamsCovered
<1> QED
  BY <1>1, PlansTell, PTL

\* Silence means that the drive would begin while a flight has him: where none
\* does, every transfer is told of, as chain.py:17-19 has it.
TransfersUnhindered ==
  \A m \in Flying(world), x \in Departing(world) :
    ~TransferHindered(m, x, Known(world), plan.guards)

\* A transfer between two airports is planned or reported as held, unless it
\* would have to begin while a flight has the operator (plan_chain_legs,
\* build_reconcile_plan, compose_postarrival), for any journeys and outages.
THEOREM TransfersAreTold ==
  Spec => [](TransfersTold /\ (TransfersUnhindered => TransferAlways))
<1>1. TransfersTold => (TransfersUnhindered => TransferAlways)
  BY DEF TransfersTold, TransfersUnhindered, TransferAlways
<1> QED
  BY <1>1, PlansTell, PTL

-----------------------------------------------------------------------------
(* The guards of a plan are those of the flights. *)

GuardedFlights ==
  plan.ran =>
    /\ \A i \in DOMAIN plan.guards :
         \E m \in Flying(world) : plan.guards[i] = Guard(m, Known(world))
    /\ \A m \in Flying(world) :
         \E i \in DOMAIN plan.guards : plan.guards[i] = Guard(m, Known(world))

LEMMA SweepGuards ==
  ASSUME WorldShape, Timed(world), Sweep
  PROVE  GuardedFlights'
<1>1. PICK outage \in Outages, live \in Fixes : plan' = PlanDrives(world, live, Outage(outage))
  BY DEF Sweep
<1> DEFINE flights == Departing(world)
           known == Known(world)
<1>2. plan'.guards = Guards(flights, known)
  BY <1>1 DEF PlanDrives, PlanFor, Planned, Departing
<1>3. world' = world
  BY DEF Sweep
<1>4. FiniteAir(world) /\ flights \subseteq MergeFlights(SweepFlights(world))
  BY DEF WorldShape, FiniteAir, Departing
<1>5. IsFiniteSet(flights)
  BY <1>4, FiniteFlights, FS_Subset
<1>6. \A m \in flights : m.booked \in Int
  BY <1>4, MergedTimes
<1>7. /\ \A i \in DOMAIN Guards(flights, known) :
           \E m \in flights : m.status = "flying" /\ Guards(flights, known)[i] = Guard(m, known)
      /\ \A m \in flights : m.status = "flying" =>
           \E i \in DOMAIN Guards(flights, known) : Guards(flights, known)[i] = Guard(m, known)
  <2> HIDE DEF flights, known
  <2> QED
    BY <1>5, <1>6, GuardsAreFlights
<1>8. \A m : m \in Flying(world) <=> m \in flights /\ m.status = "flying"
  BY DEF Flying
<1> HIDE DEF flights
<1> QED
  BY <1>2, <1>3, <1>7, <1>8 DEF GuardedFlights

LEMMA PlansGuard ==
  Spec => []GuardedFlights
<1> DEFINE Inv == WorldShape /\ Timed(world) /\ GuardedFlights
<1>1. Init => Inv
  <2> SUFFICES ASSUME Init PROVE Inv
    OBVIOUS
  <2>1. world \in Scenarios /\ plan = NoPlan
    BY DEF Init
  <2>2. WorldShape /\ Timed(world)
    BY <2>1, DrivePlanAssumption DEF WorldShape, FlightShape, Timed
  <2> QED
    BY <2>1, <2>2 DEF GuardedFlights, NoPlan
<1>2. Inv /\ [Next]_vars => Inv'
  <2> SUFFICES ASSUME WorldShape, Timed(world), GuardedFlights, [Next]_vars
               PROVE  WorldShape' /\ Timed(world)' /\ GuardedFlights'
    OBVIOUS
  <2>1. WorldShape' /\ Timed(world)'
    BY WorldKeepsShape, WorldStaysTimed
  <2>2. Sweep => GuardedFlights'
    BY SweepGuards
  <2>3. plan' = NoPlan => GuardedFlights'
    BY DEF GuardedFlights, NoPlan
  <2>4. UNCHANGED vars => GuardedFlights'
    BY DEF GuardedFlights, vars
  <2>5. Next => Sweep \/ plan' = NoPlan
    BY DEF Next, Delay, Disrupt, Unread, MoveMeeting, SkipDrive, Tick, Changed
  <2> QED
    BY <2>1, <2>2, <2>3, <2>4, <2>5
<1>3. Inv => GuardedFlights
  OBVIOUS
<1> QED
  BY <1>1, <1>2, <1>3, PTL DEF Spec

\* Whichever flight it is, and however its sources time it: no meeting drive
\* that is ahead begins between the last moment to clear its departure and the
\* operator's leaving the terminal after it (build_reconcile_plan's guards,
\* which compose_postarrival keeps drives out of).
NobodyDrivesAndFlies ==
  plan.ran =>
    \A m \in Flying(world), b \in calendar :
      /\ b.kind \in MeetingKinds /\ ~DoneBy(b, now)
      /\ GuardStart(m, Known(world)) <= b.start
      => ~(b.start < ReadyAt(m, Known(world)))

THEOREM FlightsAreGuarded == Spec => []NobodyDrivesAndFlies
<1>1. GuardedFlights /\ NoDriveInFlight => NobodyDrivesAndFlies
  <2> SUFFICES ASSUME GuardedFlights, NoDriveInFlight, plan.ran,
                      NEW m \in Flying(world), NEW b \in calendar,
                      b.kind \in MeetingKinds, ~DoneBy(b, now),
                      GuardStart(m, Known(world)) <= b.start, b.start < ReadyAt(m, Known(world))
               PROVE  FALSE
    BY DEF NobodyDrivesAndFlies
  <2>1. PICK i \in DOMAIN plan.guards : plan.guards[i] = Guard(m, Known(world))
    BY DEF GuardedFlights
  <2>2. /\ plan.guards[i].start = GuardStart(m, Known(world))
        /\ plan.guards[i].ready = ReadyAt(m, Known(world))
    BY <2>1 DEF Guard
  <2>3. InProtected(b.start, plan.guards)
    BY <2>2 DEF InProtected
  <2> QED
    BY <2>3 DEF NoDriveInFlight
<1> QED
  BY <1>1, PlansGuard, FlightsAreClear, PTL

-----------------------------------------------------------------------------
(* One drive for each leg. *)

Single(S) == \A b, c \in S : Key(b) = Key(c) => b = c

\* The drives of different kinds of leg do not meet.
LEMMA SinglesJoin ==
  ASSUME NEW A, NEW B, Single(A), Single(B), \A a \in A, b \in B : a.kind # b.kind
  PROVE  Single(A \cup B)
BY DEF Single, Key

\* A hand-over takes out what it replaces.
LEMMA HandoffSingles ==
  ASSUME NEW s, Composed(s), Single(s.desired), NEW g, NEW m, NEW quiet, NEW it, NEW route
  PROVE  LET h == Handoff(g, m, quiet, s, it, route) IN Composed(h) /\ Single(h.desired)
<1> DEFINE
      drive == Drive(route, g.airport, m.place)
      lodging == LodgingAhead(it, g.ready)
      here == PositionAt(it, g.ready)
      back == IF lodging # Nowhere THEN lodging
              ELSE IF here.source = "trip_location" THEN Nowhere ELSE here.address
      ret == Drive(route, m.place, back)
      failed == \/ drive = Failed
                \/ ~quiet /\ (IF back = Nowhere THEN TRUE ELSE
                                IF ret = Failed THEN TRUE ELSE ret > MaxMeetingDrive)
      arrives == drive > MinDrive
      returns == IF quiet THEN FALSE ELSE ret > MinDrive
      there == Block(g.id, "arrival", g.ready, g.ready + drive, g.airport, m.place, g.ready, g.ready)
      homeward == Block(m.id, "return", m.end, m.end + ret, m.place, back, m.end, m.end)
      out == {there : x \in {y \in {m} : arrives}}
      home == {homeward : x \in {y \in {m} : returns}}
      others == Others(s, g, m)
      gone == s.unsafe \cup {<<m.id, "outbound">>}
                \cup (IF arrives THEN {} ELSE {<<g.id, "arrival">>})
                \cup (IF returns THEN {} ELSE {<<m.id, "return">>})
      h == Handoff(g, m, quiet, s, it, route)
<1> SUFFICES Composed(h) /\ Single(h.desired)
  OBVIOUS
<1>1. h = IF failed THEN Drop(s, MeetingKeys(m.id))
          ELSE [s EXCEPT !.desired = others \cup out \cup home, !.unsafe = gone]
  BY DEF Handoff, Composed
<1>2. out \subseteq {there} /\ home \subseteq {homeward}
  OBVIOUS
<1>3. Key(there) = <<g.id, "arrival">> /\ Key(homeward) = <<m.id, "return">>
  BY DEF Key, Block
<1> HIDE DEF h, failed, gone, out, home, there, homeward
<1>4. \A b \in others : /\ b \in s.desired /\ Key(b) # <<g.id, "arrival">>
                        /\ Key(b) # <<m.id, "return">>
  BY DEF Others, MeetingKeys, MeetingKinds
<1> HIDE DEF others
<1>5. CASE failed
  BY <1>1, <1>5 DEF Drop, Composed, Single
<1>6. CASE ~failed
  <2>1. h.desired = others \cup out \cup home /\ Composed(h)
    BY <1>1, <1>6 DEF Composed
  <2>2. Single(others \cup out \cup home)
    <3>1. \A b \in out : b = there
      BY <1>2
    <3>2. \A b \in home : b = homeward
      BY <1>2
    <3>3. <<g.id, "arrival">> # <<m.id, "return">>
      OBVIOUS
    <3> QED
      BY <1>3, <1>4, <3>1, <3>2, <3>3 DEF Single
  <2> QED
    BY <2>1, <2>2
<1> QED
  BY <1>5, <1>6

LEMMA DropSingles ==
  ASSUME NEW s, Composed(s), Single(s.desired), NEW keys
  PROVE  Composed(Drop(s, keys)) /\ Single(Drop(s, keys).desired)
BY DEF Drop, Composed, Single

LEMMA AtLandingSingles ==
  ASSUME NEW s, Composed(s), Single(s.desired),
         NEW g, NEW meetings, NEW it, NEW route, NEW cal, NEW landed
  PROVE  LET t == AtLanding(s, g, meetings, it, route, cal, landed)
         IN  Composed(t) /\ Single(t.desired)
<1> DEFINE
      candidates == {m \in meetings : m.id \notin s.used /\ m.start < g.ready /\ g.ready < m.end}
      gone == {m \in candidates : Unreachable(g, m, Drive(route, g.airport, m.place))}
      dropped == {m.id : m \in gone}
      keys == UNION {MeetingKeys(i) : i \in dropped}
      after == [Drop(s, keys) EXCEPT !.used = @ \cup dropped]
      inPlay == candidates \ gone
      m == CHOOSE x \in inPlay : TRUE
      recheck == m.quiet /\ dropped # {}
      follow == Follows(m, meetings, dropped)
      invalid == {<<o.id, "outbound">> : o \in {x \in follow : ~Continues(m, x, after, cal)}}
      quiet == \E o \in follow : Continues(m, o, after, cal)
      done == IF recheck THEN Handoff(g, m, quiet, Drop(after, invalid), it, route)
              ELSE Handoff(g, m, m.quiet, after, it, route)
      t == AtLanding(s, g, meetings, it, route, cal, landed)
      Fine(x) == Composed(x) /\ Single(x.desired)
<1> SUFFICES Fine(t)
  OBVIOUS
<1>1. t = IF g.id \notin landed THEN s
          ELSE IF Cardinality(inPlay) # 1 THEN after
          ELSE [done EXCEPT !.used = @ \cup {m.id}]
  BY DEF AtLanding
<1> HIDE DEF t
<1>2. ASSUME NEW x, Fine(x), NEW u PROVE Fine([x EXCEPT !.used = @ \cup u])
  BY <1>2 DEF Composed
<1>3. Fine(after)
  <2> DEFINE d == Drop(s, keys)
  <2>1. Fine(d)
    <3> HIDE DEF keys
    <3> QED
      BY DropSingles
  <2>2. after = [d EXCEPT !.used = @ \cup dropped]
    OBVIOUS
  <2> HIDE DEF d, after, dropped, Fine
  <2> QED
    BY <1>2, <2>1, <2>2
<1> HIDE DEF after, inPlay, quiet, invalid, m, recheck
<1>4. Fine(done)
  <2> DEFINE e == Drop(after, invalid)
  <2>1. Fine(e)
    BY <1>3, DropSingles
  <2> HIDE DEF e
  <2>2. Fine(Handoff(g, m, quiet, e, it, route))
    BY <2>1, HandoffSingles
  <2>3. Fine(Handoff(g, m, m.quiet, after, it, route))
    BY <1>3, HandoffSingles
  <2> HIDE DEF Fine
  <2> QED
    BY <2>2, <2>3 DEF e
<1> HIDE DEF done
<1>5. Fine(s)
  OBVIOUS
<1> HIDE DEF Fine
<1> QED
  BY <1>1, <1>2, <1>3, <1>4, <1>5

LEMMA ComposeSingles ==
  ASSUME NEW p, Single(p.desired), NEW guards, NEW meetings, NEW it, NEW route,
         NEW cal, NEW n \in Nat, DOMAIN guards = 1..n, Len(guards) = n
  PROVE  Single(Compose(p, guards, meetings, it, route, cal).desired)
<1> DEFINE c == Compose(p, guards, meetings, it, route, cal)
           a == AtLandings(p, guards, meetings, it, route, cal)
           Fine(k) == Composed(a[k]) /\ Single(a[k].desired)
           T == {k \in 0..n : ~Fine(k)}
<1>1. Landed(a, n, p, guards, meetings, it, route, cal)
  BY LandingsAre
<1>2. c = IF guards = <<>> THEN p ELSE ClearGuards(a[n], guards, cal)
  BY DEF Compose
<1> HIDE DEF a, c
<1>3. Fine(0)
  BY <1>1 DEF Landed, Unlanded, Composed
<1>4. ASSUME NEW k \in 1..n, Fine(k - 1) PROVE Fine(k)
  <2> DEFINE landed == {b.id : b \in {x \in p.desired : x.kind = "arrival"}}
  <2>1. a[k] = AtLanding(a[k - 1], guards[k], meetings, it, route, cal, landed)
    BY <1>1 DEF Landed
  <2> HIDE DEF landed
  <2> QED
    BY <1>4, <2>1, AtLandingSingles
<1> HIDE DEF Fine
<1>5. ASSUME T # {} PROVE FALSE
  <2>1. T \in SUBSET Nat
    OBVIOUS
  <2>2. PICK k \in T : \A j \in T : k <= j
    <3> HIDE DEF T
    <3> QED
      BY <1>5, <2>1, Least
  <2>3. k \in 1..n /\ k - 1 \in 0..n /\ k - 1 \notin T
    BY <1>3, <2>2
  <2> QED
    BY <1>4, <2>2, <2>3
<1>6. Fine(n)
  BY <1>5
<1>7. ClearGuards(a[n], guards, cal).desired \subseteq a[n].desired
  BY DEF ClearGuards
<1>8. Single(c.desired)
  BY <1>2, <1>6, <1>7 DEF Fine, Single
<1> QED
  BY <1>8 DEF c

\* What the user and the conferences list is told apart: by identity, and the
\* meetings by when they begin, which is how they follow one another.
ToldApart(w) ==
  /\ \A e, f \in w.events : e.id = f.id => e = f
  /\ \A e, f \in w.events : e.as = "meeting" /\ f.as = "meeting" /\ e.start = f.start => e = f
  /\ \A e \in w.events : e.as = "meeting" => e.start \in Int
  /\ \A r, x \in w.rows : r.id = x.id => r = x
  /\ \A r \in w.rows : \A d, e \in r.days : d.start = e.start => d = e

\* A meeting has one leg each way.
LEMMA MeetingLegsSingle ==
  ASSUME NEW w, ToldApart(w), NEW events, events \subseteq w.events,
         NEW e, NEW at, NEW it, NEW rows,
         NEW l \in MeetingLegs(e, events, at, it, rows),
         NEW k \in MeetingLegs(e, events, at, it, rows), l.kind = k.kind
  PROVE  l = k
<1> DEFINE near == Neighbours(events, at, it)
           before == Previous(e, near)
           close == {p \in before : TightAfter(p, e)}
           In(p) == MeetingLeg("outbound", VenueOf(p, rows), VenueOf(e, rows), e.start, e.start - p.end)
           anchor == MeetingAnchor(it, e.start)
           first == MeetingLeg("outbound", anchor, e.place, e.start, Nowhere)
           later == IF Scoped(it, e.start) \/ Scoped(it, e.end) THEN e.end ELSE e.start
           back == MeetingLeg("return", e.place, MeetingAnchor(it, later), e.end, Nowhere)
<1>1. \A p, q \in before : p = q
  <2>1. \A p \in near : p \in w.events /\ p.as = "meeting" /\ p.start \in Int
    BY DEF Neighbours, ToldApart
  <2>2. \A p, q \in before : p \in near /\ q \in near /\ p.start <= q.start /\ q.start <= p.start
    BY DEF Previous
  <2> HIDE DEF near, before
  <2>3. \A p, q \in before : p.start = q.start
    BY <2>1, <2>2
  <2> QED
    BY <2>1, <2>2, <2>3 DEF ToldApart
<1>2. \A x \in Inbound(e, near, anchor, rows) :
        \/ \E p \in before : x = In(p) /\ close # {}
        \/ x = first /\ close = {}
  <2> HIDE DEF near, In, first, anchor
  <2> QED
    BY DEF Inbound, In, first
<1>3. \A x \in Homeward(e, near, MeetingAnchor(it, later)) : x = back
  <2> HIDE DEF near, later
  <2> QED
    BY DEF Homeward, back
<1>4. \A p : In(p).kind = "outbound"
  BY DEF MeetingLeg
<1>5. first.kind = "outbound" /\ back.kind = "return"
  BY DEF MeetingLeg
<1>6. \A x \in MeetingLegs(e, events, at, it, rows) :
        x \in Inbound(e, near, anchor, rows) \/ x \in Homeward(e, near, MeetingAnchor(it, later))
  <2> HIDE DEF near, anchor
  <2> QED
    BY DEF MeetingLegs, LegsAmong, near, anchor
<1> HIDE DEF before, close, In, first, back, near, anchor, later
<1>7. \A x \in MeetingLegs(e, events, at, it, rows) :
        \/ \E p \in before : x = In(p) /\ close # {}
        \/ x = first /\ close = {}
        \/ x = back
  BY <1>2, <1>3, <1>6
<1> QED
  BY <1>1, <1>4, <1>5, <1>7

LEMMA MeetingDrivesSingle ==
  ASSUME NEW w, ToldApart(w), NEW events, events \subseteq w.events,
         NEW at, NEW skip, NEW it, NEW rows, NEW route
  PROVE  LET p == PlanMeetings(events, at, skip, it, rows, route)
         IN  Single(p.desired) /\ \A b \in p.desired : b.kind \in MeetingKinds
<1> DEFINE p == PlanMeetings(events, at, skip, it, rows, route)
           drivable == {e \in events : Bucket(e, at, skip, it) = "actionable"}
           pairs == UNION {{<<e, l>> : l \in MeetingLegs(e, events, at, it, rows)} : e \in drivable}
           Of(b, e, l) == b \in PlanLeg(e, l, route).desired
<1>1. ASSUME NEW b \in p.desired
      PROVE  \E e \in events : \E l \in MeetingLegs(e, events, at, it, rows) : Of(b, e, l)
  <2>1. p.desired = Both({PlanLeg(x[1], x[2], route) : x \in pairs}).desired
    BY DEF PlanMeetings, Both
  <2>2. PICK x \in pairs : b \in PlanLeg(x[1], x[2], route).desired
    BY <1>1, <2>1 DEF Both
  <2>3. PICK e \in drivable : x \in {<<e, l>> : l \in MeetingLegs(e, events, at, it, rows)}
    BY <2>2
  <2>4. PICK l \in MeetingLegs(e, events, at, it, rows) : x = <<e, l>>
    BY <2>3
  <2> QED
    BY <2>2, <2>3, <2>4
<1>2. ASSUME NEW e, NEW l, NEW b, Of(b, e, l)
      PROVE  /\ b.id = e.id /\ b.kind = l.kind
             /\ \A c : Of(c, e, l) => c = b
  <2> DEFINE drive == Drive(route, l.from, l.to)
             start == IF l.kind = "return" THEN l.at ELSE l.at - drive
             it0 == Block(e.id, l.kind, start, start + drive, l.from, l.to, l.at, l.at)
  <2>1. it0.id = e.id /\ it0.kind = l.kind
    BY DEF Block
  <2>2. \A c : Of(c, e, l) => c = it0
    <3> HIDE DEF it0
    <3> QED
      BY DEF PlanLeg, Nothing, it0
  <2> HIDE DEF it0, Of
  <2> QED
    BY <1>2, <2>1, <2>2
<1>3. \A e : \A l \in MeetingLegs(e, events, at, it, rows) : l.kind \in MeetingKinds
  BY DEF MeetingLegs, LegsAmong, Inbound, Homeward, MeetingLeg, MeetingKinds
<1> HIDE DEF p, Of
<1>4. ASSUME NEW b \in p.desired, NEW c \in p.desired, Key(b) = Key(c) PROVE b = c
  <2>1. PICK e \in events : \E l \in MeetingLegs(e, events, at, it, rows) : Of(b, e, l)
    BY <1>1
  <2>2. PICK l \in MeetingLegs(e, events, at, it, rows) : Of(b, e, l)
    BY <2>1
  <2>3. PICK f \in events : \E k \in MeetingLegs(f, events, at, it, rows) : Of(c, f, k)
    BY <1>1
  <2>4. PICK k \in MeetingLegs(f, events, at, it, rows) : Of(c, f, k)
    BY <2>3
  <2>5. b.id = c.id /\ b.kind = c.kind
    BY <1>4 DEF Key
  <2>6. e.id = f.id /\ l.kind = k.kind
    BY <1>2, <2>2, <2>4, <2>5
  <2>7. e = f
    BY <2>6 DEF ToldApart
  <2>8. l = k
    BY <2>6, <2>7, MeetingLegsSingle
  <2> QED
    BY <1>2, <2>2, <2>4, <2>7, <2>8
<1>5. \A b \in p.desired : b.kind \in MeetingKinds
  BY <1>1, <1>2, <1>3
<1>6. Single(p.desired)
  BY <1>4 DEF Single
<1> QED
  BY <1>5, <1>6 DEF p

LEMMA CommutesSingle ==
  ASSUME NEW w, ToldApart(w), NEW it, NEW at, NEW busy, NEW route
  PROVE  LET p == Commutes(w.rows, it, at, busy, route)
         IN  Single(p.desired) /\ \A b \in p.desired : b.kind \in CommuteKinds
<1> DEFINE p == Commutes(w.rows, it, at, busy, route)
           Of(b, r, d, back) == b \in Commute(r, d, back, it, at, busy, route).desired
           Way(back) == IF back THEN "commuteBack" ELSE "commuteOut"
<1>1. ASSUME NEW b \in p.desired
      PROVE  \E r \in w.rows : \E d \in r.days : \E back \in BOOLEAN : Of(b, r, d, back)
  <2> DEFINE days == {q \in UNION {{<<r, d>> : d \in r.days} : r \in {x \in w.rows : x.venue # Nowhere}} :
                        q[2].end >= at /\ q[2].start <= at + Window}
  <2>1. PICK back \in BOOLEAN, q \in days : b \in Commute(q[1], q[2], back, it, at, busy, route).desired
    <3>1. p = Both({Commute(q[1], q[2], back, it, at, busy, route) : back \in BOOLEAN, q \in days})
      BY DEF Commutes
    <3> HIDE DEF p, days
    <3> QED
      BY <1>1, <3>1 DEF Both
  <2>2. PICK r \in w.rows : q \in {<<r, d>> : d \in r.days}
    BY <2>1
  <2>3. PICK d \in r.days : q = <<r, d>>
    BY <2>2
  <2> QED
    BY <2>1, <2>2, <2>3
<1>2. ASSUME NEW r, NEW d, NEW back \in BOOLEAN, NEW b, Of(b, r, d, back)
      PROVE  /\ b.id = <<r.id, d.start>> /\ b.kind = Way(back)
             /\ \A c : Of(c, r, d, back) => c = b
  <2> DEFINE anchor == IF back THEN d.end ELSE d.start
             kind == IF back THEN "commuteBack" ELSE "commuteOut"
             base == BaseAt(it, IF back THEN anchor ELSE anchor - 1)
             from == IF back THEN r.venue ELSE base.address
             to == IF back THEN base.address ELSE r.venue
             drive == Drive(route, from, to)
             start == IF back THEN anchor ELSE anchor - drive
             end == IF back THEN anchor + drive ELSE anchor
             it0 == Block(<<r.id, d.start>>, kind, start, end, from, to, anchor, anchor)
  <2>1. it0.id = <<r.id, d.start>> /\ it0.kind = Way(back)
    BY DEF Block
  <2>2. \A c : Of(c, r, d, back) => c = it0
    <3> HIDE DEF it0
    <3> QED
      BY DEF Commute, Nothing, it0
  <2> HIDE DEF it0, Of
  <2> QED
    BY <1>2, <2>1, <2>2
<1> HIDE DEF p, Of
<1>4. ASSUME NEW b \in p.desired, NEW c \in p.desired, Key(b) = Key(c) PROVE b = c
  <2>1. PICK r \in w.rows : \E d \in r.days : \E back \in BOOLEAN : Of(b, r, d, back)
    BY <1>1
  <2>2. PICK d \in r.days, back \in BOOLEAN : Of(b, r, d, back)
    BY <2>1
  <2>3. PICK x \in w.rows : \E e \in x.days : \E home \in BOOLEAN : Of(c, x, e, home)
    BY <1>1
  <2>4. PICK e \in x.days, home \in BOOLEAN : Of(c, x, e, home)
    BY <2>3
  <2>5. b.id = c.id /\ b.kind = c.kind
    BY <1>4 DEF Key
  <2>6. r.id = x.id /\ d.start = e.start /\ Way(back) = Way(home)
    BY <1>2, <2>2, <2>4, <2>5
  <2>7. r = x
    BY <2>6 DEF ToldApart
  <2>8. d = e
    BY <2>6, <2>7 DEF ToldApart
  <2>9. back = home
    BY <2>6
  <2> HIDE DEF Way
  <2>10. Of(c, r, d, back)
    BY <2>4, <2>7, <2>8, <2>9
  <2> QED
    BY <1>2, <2>2, <2>10
<1>5. \A b \in p.desired : b.kind \in CommuteKinds
  <2>1. \A back \in BOOLEAN : Way(back) \in CommuteKinds
    BY DEF CommuteKinds
  <2> HIDE DEF Way
  <2> QED
    BY <1>1, <1>2, <2>1
<1>6. Single(p.desired)
  BY <1>4 DEF Single
<1> QED
  BY <1>5, <1>6 DEF p

\* The three planners plan no leg twice, and each legs of its own kinds.
LEMMA LegsSingle ==
  ASSUME NEW w, Timed(w), ToldApart(w), NEW flights, flights \subseteq MergeFlights(SweepFlights(w)),
         NEW it, NEW known, NEW live, NEW route
  PROVE  Single(Legs(w, it, flights, known, live, route).desired)
<1> DEFINE Plan(l) == PlanAirportLeg(l, PositionAt(it, l.anchor).address, live, w.boarding, route)
           air == Both({Plan(l) : l \in ChainLegs(flights, w.lodging, known)})
           meet == PlanMeetings(Events(w), now, skips, it, w.rows, route)
           commute == Commutes(w.rows, it, now, Busy(w), route)
<1>1. Legs(w, it, flights, known, live, route).desired
        = air.desired \cup meet.desired \cup commute.desired
  <2> HIDE DEF meet, commute, Plan
  <2> QED
    BY DEF Legs, Both, Nothing, meet, commute, Plan
<1>2. Single(meet.desired) /\ \A b \in meet.desired : b.kind \in MeetingKinds
  BY MeetingDrivesSingle DEF Events
<1>3. Single(commute.desired) /\ \A b \in commute.desired : b.kind \in CommuteKinds
  BY CommutesSingle
<1>4. ASSUME NEW b \in air.desired
      PROVE  \E l \in ChainLegs(flights, w.lodging, known) :
               /\ b \in Plan(l).desired /\ LegKey(l) = Key(b) /\ b.kind \in AirportKinds
               /\ \A c \in Plan(l).desired : c = b
  <2>1. PICK l \in ChainLegs(flights, w.lodging, known) : b \in Plan(l).desired
    BY <1>4 DEF Both
  <2> DEFINE here == PositionAt(it, l.anchor).address
             from == IF l.kind # "departure" THEN l.from
                     ELSE IF here = Nowhere THEN Nowhere
                     ELSE Origin(here, l.anchor, Drive(route, here, l.to), live, now)
             to == IF l.kind = "arrival" THEN here ELSE l.to
             drive == Drive(route, from, to)
             start == IF l.kind = "arrival" THEN l.anchor ELSE l.closes - drive
             it0 == Block(l.id, l.kind, start, start + drive, from, to, l.anchor, l.closes)
  <2>2. Plan(l) = AirportDrive(l, from, to, w.boarding, route)
    BY DEF PlanAirportLeg
  <2>3. it0.id = l.id /\ it0.kind = l.kind
    BY DEF Block
  <2>4. \A c \in AirportDrive(l, from, to, w.boarding, route).desired : c = it0
    <3> HIDE DEF it0, from, to
    <3> QED
      BY DEF AirportDrive, Nothing, it0
  <2>5. l.kind \in AirportKinds
    <3>1. \/ \E m \in flights : l = DepartureLeg(m, known) \/ l = ArrivalLeg(m, known)
          \/ \E m, y \in flights : l = TransferLeg(m, y, known)
      BY ChainLegsFrom
    <3> QED
      BY <3>1 DEF DepartureLeg, ArrivalLeg, TransferLeg, Leg, AirportKinds
  <2> HIDE DEF Plan, it0, from, to
  <2> QED
    BY <2>1, <2>2, <2>3, <2>4, <2>5 DEF LegKey, Key
<1>5. Single(air.desired) /\ \A b \in air.desired : b.kind \in AirportKinds
  <2> HIDE DEF air, Plan
  <2>1. ASSUME NEW b \in air.desired, NEW c \in air.desired, Key(b) = Key(c) PROVE b = c
    <3>1. PICK l \in ChainLegs(flights, w.lodging, known) :
             b \in Plan(l).desired /\ LegKey(l) = Key(b) /\ \A x \in Plan(l).desired : x = b
      BY <1>4
    <3>2. PICK k \in ChainLegs(flights, w.lodging, known) :
             c \in Plan(k).desired /\ LegKey(k) = Key(c)
      BY <1>4
    <3>3. l = k
      BY <2>1, <3>1, <3>2, LegsByKey
    <3> QED
      BY <3>1, <3>2, <3>3
  <2> QED
    BY <1>4, <2>1 DEF Single
<1> HIDE DEF air, meet, commute
<1>6. Single(air.desired \cup meet.desired)
  BY <1>2, <1>5, SinglesJoin DEF MeetingKinds, AirportKinds
<1>7. Single(air.desired \cup meet.desired \cup commute.desired)
  <2>1. \A a \in air.desired \cup meet.desired, b \in commute.desired : a.kind # b.kind
    BY <1>2, <1>3, <1>5 DEF MeetingKinds, AirportKinds, CommuteKinds
  <2> QED
    BY <1>3, <1>6, <2>1, SinglesJoin
<1> QED
  BY <1>1, <1>7

LEMMA SweepSingles ==
  ASSUME WorldShape, Timed(world), ToldApart(world), OneDrivePerLeg, Sweep
  PROVE  OneDrivePerLeg'
<1>1. PICK outage \in Outages, live \in Fixes : plan' = PlanDrives(world, live, Outage(outage))
  BY DEF Sweep
<1> DEFINE route == Outage(outage)
           known == Known(world)
           flights == Departing(world)
           guards == Guards(flights, known)
           it == ItineraryFor(world)
           legs == Legs(world, it, flights, known, live, route)
           meetings == PostMeetings(Events(world), now, skips, it, world.rows)
           c == Compose(Clear(legs, guards), guards, meetings, it, route, calendar)
           h == Housed(c, it)
<1>2. plan' = [ran |-> TRUE, desired |-> h.desired, held |-> h.held, guards |-> guards]
  BY <1>1 DEF PlanDrives, PlanFor, Fitted, Planned, Departing
<1>3. FiniteAir(world) /\ flights \subseteq MergeFlights(SweepFlights(world))
  BY DEF WorldShape, FiniteAir, Departing
<1>4. PICK n \in Nat : DOMAIN guards = 1..n /\ Len(guards) = n
  <2>1. IsFiniteSet(flights)
    BY <1>3, FiniteFlights, FS_Subset
  <2> HIDE DEF flights, known
  <2> QED
    BY <2>1, GuardsAreMany
<1>5. Single(legs.desired)
  <2> HIDE DEF flights, known, it, route
  <2> QED
    BY <1>3, LegsSingle
<1>6. Single(Clear(legs, guards).desired)
  <2> HIDE DEF legs, guards
  <2> QED
    BY <1>5 DEF Clear, Without, Single
<1>7. Single(c.desired)
  <2> DEFINE clear == Clear(legs, guards)
  <2>1. Single(clear.desired)
    BY <1>6
  <2> HIDE DEF clear, guards, meetings, it, route
  <2>2. Single(Compose(clear, guards, meetings, it, route, calendar).desired)
    BY <1>4, <2>1, ComposeSingles
  <2> QED
    BY <2>2 DEF clear
<1>8. Single(h.desired)
  <2>1. h.desired \subseteq c.desired
    BY HousedKeepsMeetings
  <2> HIDE DEF c, h
  <2> QED
    BY <1>7, <2>1 DEF Single
<1> HIDE DEF h, guards
<1>9. calendar' = Reconciled(plan', Retained(world))
  BY DEF Sweep
<1>10. ASSUME NEW b \in calendar'
       PROVE  \/ b \in h.desired
              \/ b \in calendar /\ \A d \in h.desired : Key(d) # Key(b)
  BY <1>2, <1>9, <1>10 DEF Reconciled
<1> QED
  BY <1>8, <1>10 DEF OneDrivePerLeg, Single

\* One drive is on the calendar for each leg (plan_reconcile, _apply_handoff),
\* whatever the flights, routes and outages: provided that the meetings and the
\* conferences are told apart, meetings by when they begin too.
THEOREM DrivesAreSingle ==
  Spec /\ []ToldApart(world) => []OneDrivePerLeg
<1> DEFINE Inv == WorldShape /\ Timed(world) /\ OneDrivePerLeg
<1>1. Init => Inv
  <2> SUFFICES ASSUME Init PROVE Inv
    OBVIOUS
  <2>1. world \in Scenarios /\ calendar = {}
    BY DEF Init
  <2>2. WorldShape /\ Timed(world)
    BY <2>1, DrivePlanAssumption DEF WorldShape, FlightShape, Timed
  <2> QED
    BY <2>1, <2>2 DEF OneDrivePerLeg
<1>2. Inv /\ ToldApart(world) /\ [Next]_vars => Inv'
  <2> SUFFICES ASSUME WorldShape, Timed(world), OneDrivePerLeg, ToldApart(world), [Next]_vars
               PROVE  WorldShape' /\ Timed(world)' /\ OneDrivePerLeg'
    OBVIOUS
  <2>1. WorldShape' /\ Timed(world)'
    BY WorldKeepsShape, WorldStaysTimed
  <2>2. Sweep => OneDrivePerLeg'
    BY SweepSingles
  <2>3. calendar' = calendar => OneDrivePerLeg'
    BY DEF OneDrivePerLeg
  <2>4. [Next]_vars => Sweep \/ calendar' = calendar
    BY DEF Next, Delay, Disrupt, Unread, MoveMeeting, SkipDrive, Tick, Changed, vars
  <2> QED
    BY <2>1, <2>2, <2>3, <2>4
<1>3. Inv => OneDrivePerLeg
  OBVIOUS
<1> QED
  BY <1>1, <1>2, <1>3, PTL DEF Spec

=============================================================================
