--------------------------- MODULE PollCycleProofs ---------------------------
(***************************************************************************)
(* What is proved of the poll cycle: of its clock and polling order        *)
(* (CycleBudget), and of the notices its clock starts (TimedPhases).       *)
(***************************************************************************)
EXTENDS CycleBudget, TimedPhases, FiniteSetTheorems, TLAPS

-----------------------------------------------------------------------------
(* CycleBudget.  No cycle outlives its kill budget, for every number of
   flights and every value of the timeouts.  The argument is arithmetic: a
   poll starts only while its own worst case still fits before the delivery
   reserve, and every later step is started only while its own timeout still
   fits. *)

SpentInv ==
  /\ spent \in Nat
  /\ phase = "idle" => spent = 0
  /\ FitsKillBudget

(* What a poll may cost at most is what its start deadline held back. *)
LEMMA PollFits ==
  ASSUME spent \in Nat, NEW c \in Nat, NEW asksZone \in BOOLEAN, Poll(c, asksZone)
  PROVE  spent + c <= KillBudget - DeliveryReserve - Teardown
<1> DEFINE f == Head(order)
           lookup == IF f \in lookups THEN ByAir ELSE 0
           reader == IF f \in readers /\ ~readerRun THEN Reader ELSE 0
           zone == IF asksZone THEN Reader ELSE 0
<1>1. lookup \in Nat /\ reader \in Nat /\ zone \in Nat
  BY BudgetAssumption
<1>2. zone <= reader
  BY BudgetAssumption DEF Poll
<1>3. spent < PollBudget - (lookup + reader)
  BY DEF Poll, InTime, Reserve
<1>4. c <= ByAir + Maps + lookup + zone
  BY DEF Poll
<1> HIDE DEF lookup, reader, zone
<1> QED
  BY <1>1, <1>2, <1>3, <1>4, BudgetAssumption DEF PollBudget

(* A failed poll is one byAir call. *)
LEMMA FailedPollFits ==
  ASSUME spent \in Nat, NEW c \in Nat, PollFailed(c)
  PROVE  spent + c <= KillBudget - DeliveryReserve - Teardown
<1> DEFINE f == Head(order)
           lookup == IF f \in lookups THEN ByAir ELSE 0
           reader == IF f \in readers /\ ~readerRun THEN Reader ELSE 0
<1>1. lookup \in Nat /\ reader \in Nat
  BY BudgetAssumption
<1>2. spent < PollBudget - (lookup + reader) /\ c <= ByAir
  BY DEF PollFailed, InTime, Reserve
<1> HIDE DEF lookup, reader
<1> QED
  BY <1>1, <1>2, BudgetAssumption DEF PollBudget

LEMMA InitFits == BudgetInit => SpentInv
  BY BudgetAssumption DEF BudgetInit, SpentInv, FitsKillBudget, PollsLeaveDelivery, EndsBeforeKill

LEMMA StepFits == SpentInv /\ [BudgetNext]_budgetVars => SpentInv'
<1> SUFFICES ASSUME SpentInv, [BudgetNext]_budgetVars PROVE SpentInv'
  OBVIOUS
<1> USE BudgetAssumption
        DEF SpentInv, FitsKillBudget, PollsLeaveDelivery, EndsBeforeKill
<1>1. CASE CycleOpen
  <2>1. spent' = spent /\ spent = 0 /\ phase' = "poll"
    BY <1>1 DEF CycleOpen
  <2> QED
    BY <2>1
<1>2. CASE Defer
  BY <1>2 DEF Defer
<1>3. CASE Unread
  BY <1>3 DEF Unread
<1>4. CASE NotDue
  BY <1>4 DEF NotDue
<1>5. ASSUME NEW c \in Seconds, NEW asksZone \in BOOLEAN, Poll(c, asksZone)
      PROVE  SpentInv'
  <2>1. c \in Nat
    OBVIOUS
  <2>2. spent + c <= KillBudget - DeliveryReserve - Teardown
    BY <1>5, <2>1, PollFits
  <2>3. spent' = spent + c /\ phase' = "poll"
    BY <1>5 DEF Poll
  <2> QED
    BY <2>1, <2>2, <2>3
<1>6. ASSUME NEW c \in FailSeconds, PollFailed(c)
      PROVE  SpentInv'
  <2>1. c \in Nat
    OBVIOUS
  <2>2. spent + c <= KillBudget - DeliveryReserve - Teardown
    BY <1>6, <2>1, FailedPollFits
  <2>3. spent' = spent + c /\ phase' = "poll"
    BY <1>6 DEF PollFailed
  <2> QED
    BY <2>1, <2>2, <2>3
<1>7. CASE PollsOver
  BY <1>7 DEF PollsOver
<1>8. ASSUME NEW c \in Seconds, ReadCalendar(c)
      PROVE  SpentInv'
  <2>1. CASE TimeLeft < CalendarRead + Reply
    <3>1. c = 0
      BY <1>8, <2>1 DEF ReadCalendar
    <3> QED
      BY <1>8, <3>1 DEF ReadCalendar
  <2>2. CASE ~(TimeLeft < CalendarRead + Reply)
    <3>1. c <= CalendarRead
      BY <1>8, <2>2 DEF ReadCalendar
    <3> QED
      BY <1>8, <2>2, <3>1 DEF ReadCalendar, TimeLeft
  <2> QED
    BY <2>1, <2>2
<1>9. CASE Composed
  BY <1>9 DEF Composed
<1>10. ASSUME NEW c \in Seconds, SendMessage(c)
       PROVE  SpentInv'
  BY <1>10 DEF SendMessage, TimeLeft
<1>11. CASE LeaveMessage
  BY <1>11 DEF LeaveMessage
<1>12. ASSUME NEW c \in Seconds, RunReconcile(c)
       PROVE  SpentInv'
  BY <1>12 DEF RunReconcile, TimeLeft
<1>13. CASE CycleOver
  BY <1>13 DEF CycleOver
<1>14. CASE UNCHANGED budgetVars
  BY <1>14 DEF budgetVars
<1> QED
  BY <1>1, <1>2, <1>3, <1>4, <1>5, <1>6, <1>7, <1>8, <1>9, <1>10, <1>11, <1>12,
     <1>13, <1>14 DEF BudgetNext

(* Whatever the timeouts, the polls leave the delivery its reserve and the
   cycle ends before the scheduler kills it. *)
THEOREM CycleFitsKillBudget == BudgetSpec => []FitsKillBudget
<1>1. SpentInv => FitsKillBudget
  BY DEF SpentInv
<1> QED
  BY <1>1, InitFits, StepFits, PTL DEF BudgetSpec

-----------------------------------------------------------------------------
(* Nobody starves.  The oldest polls come first, so in every cycle in which  *)
(* a due flight is not polled, faults apart, one ahead of it was and went to *)
(* the back: the queue before it gets shorter.                               *)

Known == Flights \ unreadable

\* The flights of K polled before f when they were last polled in the order r.
Queue(K, r, f) == {g \in K : r[g] < r[f] \/ (r[g] = r[f] /\ g < f)}
Place(K, r, f) == Cardinality(Queue(K, r, f))

LEMMA FlightsFinite ==
  ASSUME NEW K \in SUBSET Flights
  PROVE  IsFiniteSet(K) /\ Cardinality(K) \in Nat /\ Cardinality(K) <= N
<1>1. IsFiniteSet(Flights) /\ Cardinality(Flights) = N
  <2>1. 1 \in Int /\ N \in Int /\ N >= 0
    BY BudgetAssumption
  <2> QED
    BY <2>1, FS_Interval DEF Flights
<1>2. IsFiniteSet(K) /\ Cardinality(K) <= Cardinality(Flights)
  BY <1>1, FS_Subset
<1>3. Cardinality(K) \in Nat
  BY <1>2, FS_CardinalityType
<1> QED
  BY <1>1, <1>2, <1>3

LEMMA PlaceType ==
  ASSUME NEW K \in SUBSET Flights, NEW r \in [Flights -> Nat], NEW f \in K
  PROVE  Place(K, r, f) \in 0..(Cardinality(K) - 1)
<1>1. Queue(K, r, f) \subseteq K \ {f}
  BY DEF Queue, Flights
<1>2. IsFiniteSet(K \ {f}) /\ Cardinality(K \ {f}) = Cardinality(K) - 1
  BY FlightsFinite, FS_RemoveElement
<1>3. Place(K, r, f) \in Nat /\ Place(K, r, f) <= Cardinality(K) - 1
  BY <1>1, <1>2, FS_Subset, FS_CardinalityType DEF Place
<1> QED
  BY <1>3, FlightsFinite

LEMMA PlaceRange ==
  ASSUME NEW K \in SUBSET Flights, NEW r \in [Flights -> Nat], NEW f \in K
  PROVE  N >= 1 /\ Place(K, r, f) \in 0..(N - 1)
<1> DEFINE n == Cardinality(K)
           place == Place(K, r, f)
<1>1. n \in Nat /\ n <= N /\ N \in Nat
  BY FlightsFinite, BudgetAssumption
<1>2. place \in 0..(n - 1)
  BY PlaceType
<1> HIDE DEF n, place
<1>3. N >= 1 /\ place \in 0..(N - 1)
  BY <1>1, <1>2
<1> QED
  BY <1>3 DEF place

LEMMA PlaceAhead ==
  ASSUME NEW K \in SUBSET Flights, NEW r \in [Flights -> Nat], NEW f \in K,
         NEW g \in Queue(K, r, f)
  PROVE  Place(K, r, g) < Place(K, r, f)
<1>1. g \in K /\ Queue(K, r, g) \subseteq Queue(K, r, f) \ {g}
  <2>1. g \in K /\ (r[g] < r[f] \/ (r[g] = r[f] /\ g < f))
    BY DEF Queue
  <2>2. ASSUME NEW h \in Queue(K, r, g) PROVE h \in Queue(K, r, f) \ {g}
    <3>1. h \in K /\ (r[h] < r[g] \/ (r[h] = r[g] /\ h < g))
      BY <2>2 DEF Queue
    <3>2. /\ r[f] \in Nat /\ r[g] \in Nat /\ r[h] \in Nat
          /\ f \in Int /\ g \in Int /\ h \in Int
      BY <2>1, <3>1 DEF Flights
    <3> QED
      BY <2>1, <3>1, <3>2 DEF Queue
  <2> QED
    BY <2>1, <2>2
<1>2. IsFiniteSet(Queue(K, r, f)) /\ Cardinality(Queue(K, r, f)) \in Nat
  <2>1. Queue(K, r, f) \in SUBSET Flights
    BY DEF Queue
  <2> QED
    BY <2>1, FlightsFinite
<1>3. /\ IsFiniteSet(Queue(K, r, f) \ {g})
      /\ Cardinality(Queue(K, r, f) \ {g}) = Cardinality(Queue(K, r, f)) - 1
  BY <1>2, FS_RemoveElement
<1>4. Place(K, r, g) \in Nat /\ Place(K, r, g) <= Cardinality(Queue(K, r, f)) - 1
  BY <1>1, <1>3, FS_Subset, FS_CardinalityType DEF Place
<1> QED
  BY <1>2, <1>4 DEF Place

\* Places order the flights, without ties.
LEMMA PlaceOrder ==
  ASSUME NEW K \in SUBSET Flights, NEW r \in [Flights -> Nat], NEW f \in K, NEW g \in K,
         Place(K, r, g) <= Place(K, r, f)
  PROVE  g = f \/ g \in Queue(K, r, f)
<1>1. Place(K, r, g) \in Nat /\ Place(K, r, f) \in Nat
  BY PlaceType
<1>2. g = f \/ g \in Queue(K, r, f) \/ f \in Queue(K, r, g)
  BY DEF Queue, Flights
<1> QED
  BY <1>1, <1>2, PlaceAhead

\* Every place is taken.
LEMMA PlaceOnto ==
  ASSUME NEW K \in SUBSET Flights, NEW r \in [Flights -> Nat],
         NEW n \in 0..(Cardinality(K) - 1)
  PROVE  \E f \in K : Place(K, r, f) = n
<1> DEFINE p == [f \in K |-> Place(K, r, f)]
           T == 0..(Cardinality(K) - 1)
<1>1. p \in [K -> T]
  BY PlaceType
<1>2. ASSUME NEW f \in K, NEW g \in K, p[f] = p[g] PROVE f = g
  <2>1. Place(K, r, f) = Place(K, r, g) /\ Place(K, r, f) \in Nat
    BY <1>2, PlaceType
  <2>2. f \in Queue(K, r, g) => Place(K, r, f) < Place(K, r, g)
    BY PlaceAhead
  <2>3. f = g \/ f \in Queue(K, r, g)
    BY <2>1, PlaceOrder
  <2> QED
    BY <2>1, <2>2, <2>3
<1>3. p \in Injection(K, T)
  BY <1>1, <1>2 DEF Injection, IsInjective
<1>4. IsFiniteSet(T) /\ Cardinality(T) = Cardinality(K)
  <2>1. Cardinality(K) \in Nat /\ 0 \in Int /\ Cardinality(K) - 1 \in Int
    BY FlightsFinite
  <2> QED
    BY <2>1, FS_Interval
<1>5. p \in Surjection(K, T)
  BY <1>3, <1>4, FS_Injection
<1>6. n \in T
  OBVIOUS
<1> HIDE DEF T
<1>7. \E f \in K : p[f] = n
  <2> HIDE DEF p
  <2> QED
    BY <1>5, <1>6 DEF Surjection
<1> QED
  BY <1>7

-----------------------------------------------------------------------------
\* _oldest_poll_first is what it says.
LEMMA KnownFlights == Known \in SUBSET Flights
BY DEF Known

LEMMA SlotPlace ==
  ASSUME NEW r \in [Flights -> Nat], NEW i \in Known
  PROVE  /\ OldestPollFirst(r)[i] \in Known
         /\ Place(Known, r, OldestPollFirst(r)[i]) = Place(Known, [f \in Flights |-> 0], i)
<1> DEFINE flat == [f \in Flights |-> 0]
<1>1. flat \in [Flights -> Nat] /\ i \in Flights
  BY DEF Known
<1>2. Queue(Known, flat, i) = Known \cap 1..(i - 1)
  BY <1>1 DEF Queue, Known, Flights
<1>3. \E f \in Known : Place(Known, r, f) = Place(Known, flat, i)
  BY <1>1, KnownFlights, PlaceType, PlaceOnto
<1>4. OldestPollFirst(r)[i] =
        CHOOSE f \in Known : Place(Known, r, f) = Place(Known, flat, i)
  <2>1. i \notin unreadable
    BY DEF Known
  <2> QED
    BY <1>1, <1>2, <2>1 DEF OldestPollFirst, Known, Place, Queue
<1> HIDE DEF flat
<1>5. OldestPollFirst(r)[i] \in Known /\ Place(Known, r, OldestPollFirst(r)[i]) = Place(Known, flat, i)
  BY <1>3, <1>4, Zenon
<1> QED
  BY <1>5 DEF flat

LEMMA SlotOf ==
  ASSUME NEW r \in [Flights -> Nat], NEW f \in Known
  PROVE  \E i \in Known : OldestPollFirst(r)[i] = f
<1> DEFINE flat == [g \in Flights |-> 0]
<1>1. flat \in [Flights -> Nat]
  OBVIOUS
<1>2. PICK i \in Known : Place(Known, flat, i) = Place(Known, r, f)
  BY <1>1, KnownFlights, PlaceType, PlaceOnto
<1> DEFINE g == OldestPollFirst(r)[i]
<1>3. g \in Known /\ Place(Known, r, g) = Place(Known, r, f)
  BY <1>2, SlotPlace
<1> HIDE DEF flat, g
<1>4. Place(Known, r, f) \in Nat
  BY KnownFlights, PlaceType
<1>5. g = f \/ g \in Queue(Known, r, f)
  BY <1>3, <1>4, KnownFlights, PlaceOrder
<1>6. g = f
  BY <1>3, <1>4, <1>5, KnownFlights, PlaceAhead
<1> QED
  BY <1>6 DEF g

LEMMA SlotEarlier ==
  ASSUME NEW r \in [Flights -> Nat], NEW i \in Known, NEW j \in Known, j < i
  PROVE  OldestPollFirst(r)[j] \in Queue(Known, r, OldestPollFirst(r)[i])
<1> DEFINE flat == [g \in Flights |-> 0]
           f == OldestPollFirst(r)[i]
           g == OldestPollFirst(r)[j]
<1>1. flat \in [Flights -> Nat] /\ j \in Queue(Known, flat, i)
  BY DEF Queue, Known
<1>2. /\ f \in Known /\ Place(Known, r, f) = Place(Known, flat, i)
      /\ g \in Known /\ Place(Known, r, g) = Place(Known, flat, j)
  BY SlotPlace
<1> HIDE DEF flat, f, g
<1>3. Place(Known, flat, j) < Place(Known, flat, i)
  BY <1>1, KnownFlights, PlaceAhead
<1>4. Place(Known, r, f) \in Nat /\ Place(Known, r, g) \in Nat
  BY <1>2, KnownFlights, PlaceType
<1>5. g = f \/ g \in Queue(Known, r, f)
  BY <1>2, <1>3, <1>4, KnownFlights, PlaceOrder
<1>6. g \in Queue(Known, r, f)
  BY <1>2, <1>3, <1>4, <1>5
<1> QED
  BY <1>6 DEF f, g

LEMMA SlotType ==
  ASSUME NEW r \in [Flights -> Nat] PROVE OldestPollFirst(r) \in [Flights -> Flights]
<1>1. ASSUME NEW i \in Flights PROVE OldestPollFirst(r)[i] \in Flights
  <2>1. CASE i \in unreadable
    BY <2>1 DEF OldestPollFirst
  <2>2. CASE i \notin unreadable
    BY <2>2, SlotPlace DEF Known
  <2> QED
    BY <2>1, <2>2
<1>2. /\ DOMAIN OldestPollFirst(r) = Flights
      /\ OldestPollFirst(r) = [i \in DOMAIN OldestPollFirst(r) |-> OldestPollFirst(r)[i]]
  BY DEF OldestPollFirst
<1> QED
  BY <1>1, <1>2

\* Renumbering keeps the order of the polls.
LEMMA RenumberedKeeps ==
  ASSUME rank \in [Flights -> Nat]
  PROVE  /\ Renumbered \in [Flights -> Nat]
         /\ \A f \in Flights : Renumbered[f] < N
         /\ \A f, g \in Flights : Renumbered[g] <= Renumbered[f] <=> rank[g] <= rank[f]
<1> DEFINE lower(f) == {h \in Flights : rank[h] < rank[f]}
           R(f) == {rank[g] : g \in lower(f)}
<1>0. \A f \in Flights : Renumbered[f] = Cardinality(R(f))
  BY DEF Renumbered
<1>1. ASSUME NEW f \in Flights
      PROVE  /\ IsFiniteSet(R(f)) /\ Cardinality(R(f)) \in Nat
             /\ Cardinality(R(f)) < N
  <2> DEFINE p == [h \in lower(f) |-> rank[h]]
             L == lower(f)
             Q == R(f)
  <2>1. p \in Surjection(L, Q)
    BY DEF Surjection
  <2>2. L \subseteq Flights \ {f}
    OBVIOUS
  <2> HIDE DEF L, Q, p
  <2>3. IsFiniteSet(Flights \ {f}) /\ Cardinality(Flights \ {f}) = Cardinality(Flights) - 1
    BY FlightsFinite, FS_RemoveElement
  <2>4. Cardinality(Flights) <= N /\ Cardinality(Flights) \in Nat
    BY FlightsFinite
  <2>5. IsFiniteSet(L) /\ Cardinality(L) <= Cardinality(Flights) - 1 /\ Cardinality(L) \in Nat
    BY <2>2, <2>3, FS_Subset, FS_CardinalityType
  <2>6. IsFiniteSet(Q) /\ Cardinality(Q) <= Cardinality(L) /\ Cardinality(Q) \in Nat
    BY <2>1, <2>5, FS_Surjection, FS_CardinalityType
  <2> QED
    BY <2>4, <2>5, <2>6, BudgetAssumption DEF Q
<1>2. ASSUME NEW f \in Flights, NEW g \in Flights, rank[g] <= rank[f]
      PROVE  Cardinality(R(g)) <= Cardinality(R(f))
  <2>1. R(g) \subseteq R(f)
    BY <1>2
  <2> HIDE DEF R
  <2> QED
    BY <1>1, <2>1, FS_Subset
<1>3. ASSUME NEW f \in Flights, NEW g \in Flights, rank[g] < rank[f]
      PROVE  Cardinality(R(g)) < Cardinality(R(f))
  <2>1. R(g) \subseteq R(f) /\ rank[g] \in R(f) /\ rank[g] \notin R(g)
    BY <1>3
  <2> HIDE DEF R
  <2>2. R(g) # R(f)
    BY <2>1
  <2> QED
    BY <1>1, <2>1, <2>2, FS_Subset
<1> HIDE DEF R
<1>4. Renumbered \in [Flights -> Nat]
  <2>1. Renumbered = [f \in Flights |-> Renumbered[f]]
    BY DEF Renumbered
  <2> QED
    BY <1>0, <1>1, <2>1
<1>5. ASSUME NEW f \in Flights, NEW g \in Flights
      PROVE  Renumbered[g] <= Renumbered[f] <=> rank[g] <= rank[f]
  BY <1>0, <1>1, <1>2, <1>3
<1> QED
  BY <1>0, <1>1, <1>4, <1>5

\* A poll sends the flight to the back: nobody's queue grows, and the queue it
\* stood in gets shorter.
LEMMA PollShortens ==
  ASSUME NEW K \in SUBSET Flights, NEW r \in [Flights -> Nat], NEW f \in K, NEW g \in Flights,
         f # g, r[f] < N
  PROVE  /\ Place(K, [r EXCEPT ![g] = N], f) <= Place(K, r, f)
         /\ g \in Queue(K, r, f) => Place(K, [r EXCEPT ![g] = N], f) < Place(K, r, f)
<1> DEFINE later == [r EXCEPT ![g] = N]
           Q == Queue(K, r, f)
           Q2 == Queue(K, later, f)
<1>1. N \in Nat /\ f \in Flights
  BY BudgetAssumption
<1>2. later[g] = N /\ \A h \in Flights \ {g} : later[h] = r[h]
  OBVIOUS
<1> HIDE DEF later
<1>3. Q2 \subseteq Q \ {g}
  <2>1. ASSUME NEW h \in Q2 PROVE h \in Q \ {g}
    <3>1. h \in K /\ (later[h] < later[f] \/ (later[h] = later[f] /\ h < f))
      BY <2>1 DEF Queue
    <3>2. h # g
      BY <1>1, <1>2, <3>1
    <3> QED
      BY <1>1, <1>2, <3>1, <3>2 DEF Queue
  <2> QED
    BY <2>1
<1>4. IsFiniteSet(Q) /\ Cardinality(Q) \in Nat
  <2>1. Q \in SUBSET Flights
    BY DEF Queue
  <2> HIDE DEF Q
  <2> QED
    BY <2>1, FlightsFinite
<1> HIDE DEF Q, Q2
<1>5. Cardinality(Q2) <= Cardinality(Q) /\ Cardinality(Q2) \in Nat
  BY <1>3, <1>4, FS_Subset, FS_CardinalityType
<1>6. ASSUME g \in Q PROVE Cardinality(Q2) < Cardinality(Q)
  <2>1. IsFiniteSet(Q \ {g}) /\ Cardinality(Q \ {g}) = Cardinality(Q) - 1
    BY <1>4, <1>6, FS_RemoveElement
  <2>2. Cardinality(Q2) <= Cardinality(Q \ {g})
    BY <1>3, <2>1, FS_Subset
  <2> QED
    BY <1>4, <1>5, <2>1, <2>2
<1> QED
  BY <1>5, <1>6 DEF Place, Q, Q2, later

-----------------------------------------------------------------------------
PollTypes ==
  /\ rank \in [Flights -> Nat] /\ waited \in [Flights -> 0..Cadence]
  /\ passed \in [Flights -> Int] /\ \A f \in unreadable : passed[f] = 0
  /\ course \in {"clear", "lost", "answered"}
  /\ order \in Seq(Flights)
  /\ due \subseteq Flights
  /\ unreadable \subseteq Damaged
  /\ SpentInv

\* What the loop has not come to stands in the order of the last polls.
InTurn ==
  \A i, j \in 1..Len(order) :
    i < j /\ order[i] \in Known /\ order[j] \in Known => order[i] \in Queue(Known, rank, order[j])

\* Who was passed over for its cadence is due, a polled flight starts afresh, and
\* only polls take time before the loop defers.
Counts ==
  /\ \A f \in Flights : passed[f] <= waited[f] \/ waited[f] = Cadence
  /\ phase = "poll" => \A f \in Flights : rank[f] < N \/ passed[f] <= 0
  /\ phase = "poll" => \A f \in Flights : waited[f] = Cadence => f \in due
  /\ phase = "poll" /\ course = "clear" => spent = 0

\* How often f was passed over and how many are still ahead of it.
Waits(f) == passed[f] + Place(Known, rank, f)

\* f stands in the loop's order and no poll of this cycle was answered yet.
StillComing(f) ==
  /\ phase = "poll" /\ course # "answered"
  /\ \E i \in 1..Len(order) : order[i] = f

\* A cycle that counts for f and does not poll it makes the queue before it
\* shorter.
Served(f) ==
  passed[f] >= Cadence =>
    \/ Waits(f) <= Cadence + N - 2
    \/ Waits(f) <= Cadence + N - 1 /\ StillComing(f)

RoundInv == PollTypes /\ InTurn /\ Counts /\ \A f \in Known : Served(f)

LEMMA CountedType ==
  ASSUME passed \in [Flights -> Int], NEW F, NEW n \in Int
  PROVE  /\ Counted(F, n) \in [Flights -> Int]
         /\ \A f \in Flights : Counted(F, n)[f] \in {passed[f], passed[f] + n}
         /\ \A f \in F \cap Known : Counted(F, n)[f] = passed[f] + n
         /\ \A f \in Flights \cap unreadable : Counted(F, n)[f] = passed[f]
BY DEF Counted, Known

\* A cycle that has not lost time is in time for its first poll.
LEMMA FreshInTime ==
  ASSUME spent = 0, order # <<>>
  PROVE  InTime(Head(order))
<1> DEFINE lookup == IF Head(order) \in lookups THEN ByAir ELSE 0
           reader == IF Head(order) \in readers /\ ~readerRun THEN Reader ELSE 0
<1>1. lookup \in Nat /\ lookup <= ByAir /\ reader \in Nat /\ reader <= Reader
  BY BudgetAssumption
<1>2. Reserve(Head(order)) = lookup + reader
  BY DEF Reserve
<1>3. PollBudget \in Int /\ ByAir \in Nat /\ Reader \in Nat
  BY BudgetAssumption DEF PollBudget
<1> HIDE DEF lookup, reader
<1> QED
  BY <1>1, <1>2, <1>3, RoomForOnePoll DEF InTime

LEMMA InitRound == BudgetInit => RoundInv
<1> SUFFICES ASSUME BudgetInit PROVE RoundInv
  OBVIOUS
<1>1. PollTypes
  <2>1. /\ unreadable \subseteq Damaged /\ \A f \in unreadable : f \in Flights
        /\ Cadence \in Nat /\ <<>> \in Seq(Flights)
    BY BudgetAssumption DEF BudgetInit, Flights
  <2>2. passed = [f \in Flights |-> 0] /\ waited \in [Flights -> 0..Cadence]
    BY <2>1 DEF BudgetInit
  <2> QED
    BY <2>1, <2>2, InitFits DEF BudgetInit, PollTypes
<1>2. InTurn /\ Counts
  BY DEF BudgetInit, InTurn, Counts
<1>3. ASSUME NEW f \in Known PROVE Served(f)
  BY BudgetAssumption DEF BudgetInit, Served, Known
<1> QED
  BY <1>1, <1>2, <1>3 DEF RoundInv

\* The steps that neither poll nor touch the loop.
LEMMA OtherSteps ==
  ASSUME \/ PollsOver \/ Composed \/ LeaveMessage \/ CycleOver \/ UNCHANGED budgetVars
         \/ \E c \in Seconds : ReadCalendar(c) \/ SendMessage(c) \/ RunReconcile(c)
  PROVE  /\ UNCHANGED <<rank, waited, passed, course, order>>
         /\ due' \in {due, {}}
         /\ phase' # "poll" \/ UNCHANGED <<phase, due, spent>>
         /\ phase = "poll" => order = <<>> \/ UNCHANGED phase
<1>1. CASE PollsOver \/ Composed \/ LeaveMessage \/ CycleOver \/ UNCHANGED budgetVars
  BY <1>1 DEF PollsOver, Composed, LeaveMessage, CycleOver, budgetVars, history, scope, Forget
<1>2. ASSUME NEW c \in Seconds, ReadCalendar(c) \/ SendMessage(c) \/ RunReconcile(c)
      PROVE  /\ UNCHANGED <<rank, waited, passed, course, order, due>>
             /\ phase # "poll" /\ phase' # "poll"
  BY <1>2 DEF ReadCalendar, SendMessage, RunReconcile, history, scope
<1> QED
  BY <1>1, <1>2

LEMMA TailType ==
  ASSUME order \in Seq(Flights), order # <<>>
  PROVE  Tail(order) \in Seq(Flights)
OBVIOUS

LEMMA StepPollTypes == PollTypes /\ [BudgetNext]_budgetVars => PollTypes'
<1> SUFFICES ASSUME PollTypes, [BudgetNext]_budgetVars PROVE PollTypes'
  OBVIOUS
<1>1. SpentInv' /\ unreadable' = unreadable /\ unreadable \subseteq Flights
  BY StepFits, BudgetAssumption DEF PollTypes, BudgetNext, budgetVars, Flights
<1> USE DEF PollTypes
<1>2. CASE CycleOpen
  <2>1. rank' \in [Flights -> Nat]
    BY <1>2, RenumberedKeeps DEF CycleOpen
  <2>2. waited' \in [Flights -> 0..Cadence]
    BY <1>2, BudgetAssumption DEF CycleOpen
  <2>3. order' \in Seq(Flights)
    <3>1. order' \in [1..N -> Flights]
      BY <1>2, SlotType DEF CycleOpen, Flights
    <3> QED
      BY <3>1, BudgetAssumption
  <2>4. due' \subseteq Flights /\ course' = "clear" /\ passed' = Counted(Flights, 1)
    BY <1>2 DEF CycleOpen
  <2>5. passed' \in [Flights -> Int] /\ \A f \in unreadable : passed'[f] = 0
    BY <1>1, <2>4, CountedType
  <2> QED
    BY <1>1, <2>1, <2>2, <2>3, <2>4, <2>5
<1>3. CASE Defer \/ Unread \/ NotDue
  <2>1. UNCHANGED <<rank, waited>> /\ due' \in {due, {}}
    BY <1>3 DEF Defer, Unread, NotDue, Forget, scope
  <2>2. order' \in {<<>>, Tail(order)} /\ order # <<>>
    BY <1>3 DEF Defer, Unread, NotDue
  <2>3. order' \in Seq(Flights)
    <3>1. order \in Seq(Flights)
      OBVIOUS
    <3>2. <<>> \in Seq(Flights) /\ Tail(order) \in Seq(Flights)
      BY <2>2, <3>1 DEF Flights
    <3> HIDE DEF PollTypes
    <3> QED
      BY <2>2, <3>2
  <2>4. course' = course /\ (passed' = passed \/ \E F : passed' = Counted(F, -1))
    BY <1>3 DEF Defer, Unread, NotDue, FaultTook, history
  <2>5. passed' \in [Flights -> Int] /\ \A f \in unreadable : passed'[f] = 0
    BY <1>1, <2>4, CountedType
  <2> QED
    BY <1>1, <2>1, <2>3, <2>4, <2>5
<1>4. ASSUME NEW c \in Seconds, NEW asksZone \in BOOLEAN, Poll(c, asksZone)
      PROVE  PollTypes'
  <2>1. /\ order # <<>> /\ Head(order) \in Flights
        /\ rank' = [rank EXCEPT ![Head(order)] = N]
        /\ waited' = [waited EXCEPT ![Head(order)] = 0]
        /\ passed' = [passed EXCEPT ![Head(order)] = 0]
        /\ order' = Tail(order) /\ due' = due /\ course' = "answered"
        /\ Head(order) \notin unreadable
    BY <1>4 DEF Poll, scope
  <2>2. N \in Nat /\ Cadence \in Nat
    BY BudgetAssumption
  <2>3. rank' \in [Flights -> Nat] /\ waited' \in [Flights -> 0..Cadence] /\ passed' \in [Flights -> Int]
    BY <2>1, <2>2
  <2>4. \A f \in unreadable : passed'[f] = 0
    BY <1>1, <2>1
  <2> QED
    BY <1>1, <2>1, <2>3, <2>4
<1>5. ASSUME NEW c \in FailSeconds, PollFailed(c) PROVE PollTypes'
  <2>1. passed' = Counted({Head(order)}, -1) /\ course' \in {course, "lost"}
    BY <1>5 DEF PollFailed
  <2>2. passed' \in [Flights -> Int] /\ \A f \in unreadable : passed'[f] = 0
    BY <1>1, <2>1, CountedType
  <2> QED
    BY <1>1, <1>5, <2>1, <2>2, TailType DEF PollFailed, scope
<1>6. CASE UNCHANGED <<rank, waited, passed, course, order>> /\ due' \in {due, {}}
  BY <1>1, <1>6
<1> HIDE DEF PollTypes
<1> QED
  BY <1>2, <1>3, <1>4, <1>5, <1>6, OtherSteps DEF BudgetNext

\* Renumbering leaves every queue as it is.
LEMMA RenumberedQueue ==
  ASSUME rank \in [Flights -> Nat], NEW f \in Known
  PROVE  Queue(Known, Renumbered, f) = Queue(Known, rank, f)
<1>1. ASSUME NEW g \in Known
      PROVE  /\ rank[g] < rank[f] <=> Renumbered[g] < Renumbered[f]
             /\ rank[g] = rank[f] <=> Renumbered[g] = Renumbered[f]
  <2>1. f \in Flights /\ g \in Flights
    BY DEF Known
  <2>2. /\ Renumbered[g] <= Renumbered[f] <=> rank[g] <= rank[f]
        /\ Renumbered[f] <= Renumbered[g] <=> rank[f] <= rank[g]
    BY <2>1, RenumberedKeeps
  <2>3. rank[g] \in Nat /\ rank[f] \in Nat /\ Renumbered[g] \in Nat /\ Renumbered[f] \in Nat
    BY <2>1, RenumberedKeeps
  <2> QED
    BY <2>2, <2>3
<1> QED
  BY <1>1 DEF Queue

\* The order of a new cycle.
LEMMA OpenedInTurn ==
  ASSUME PollTypes, CycleOpen, unreadable' = unreadable
  PROVE  /\ InTurn'
         /\ \A f \in Known : \E i \in 1..Len(order') : order'[i] = f
<1> DEFINE slots == OldestPollFirst(rank)
<1>1. order' = slots /\ rank' = Renumbered /\ Known' = Known /\ rank \in [Flights -> Nat]
  BY DEF CycleOpen, Known, PollTypes
<1>2. slots \in [1..N -> Flights] /\ Len(slots) = N /\ N \in Nat
  <2>1. slots \in [1..N -> Flights] /\ N \in Nat
    BY <1>1, SlotType, BudgetAssumption DEF Flights
  <2> HIDE DEF slots
  <2> QED
    BY <2>1
<1>3. ASSUME NEW i \in 1..N, NEW j \in 1..N, i < j, slots[i] \in Known, slots[j] \in Known
      PROVE  slots[i] \in Queue(Known, Renumbered, slots[j])
  <2>1. i \in Known /\ j \in Known
    BY <1>3 DEF OldestPollFirst, Known, Flights
  <2>2. slots[i] \in Queue(Known, rank, slots[j])
    BY <1>1, <1>3, <2>1, SlotEarlier
  <2> HIDE DEF slots
  <2> QED
    BY <1>1, <1>3, <2>2, RenumberedQueue
<1>4. ASSUME NEW f \in Known PROVE \E i \in 1..N : slots[i] = f
  BY <1>1, SlotOf DEF Known, Flights
<1> HIDE DEF slots
<1> QED
  BY <1>1, <1>2, <1>3, <1>4 DEF InTurn

LEMMA TailInTurn ==
  ASSUME order \in Seq(Flights), order # <<>>, InTurn, order' = Tail(order),
         rank' = rank, unreadable' = unreadable
  PROVE  InTurn'
<1>1. /\ Len(order') = Len(order) - 1 /\ Len(order) \in Nat
      /\ \A j \in 1..(Len(order) - 1) : order'[j] = order[j + 1]
  OBVIOUS
<1>2. Known' = Known
  BY DEF Known
<1>3. ASSUME NEW i \in 1..Len(order'), NEW j \in 1..Len(order'), i < j,
             order'[i] \in Known, order'[j] \in Known
      PROVE  order'[i] \in Queue(Known, rank, order'[j])
  <2>1. i + 1 \in 1..Len(order) /\ j + 1 \in 1..Len(order) /\ i + 1 < j + 1
    BY <1>1, <1>3
  <2>2. order'[i] = order[i + 1] /\ order'[j] = order[j + 1]
    BY <1>1
  <2> QED
    BY <1>3, <2>1, <2>2 DEF InTurn
<1> QED
  BY <1>2, <1>3 DEF InTurn, Queue

\* The flights behind the head are not the head, and it stands in their queues.
LEMMA BehindHead ==
  ASSUME PollTypes, InTurn, order # <<>>, Head(order) \in Known,
         NEW i \in 2..Len(order), order[i] \in Known
  PROVE  order[i] # Head(order) /\ Head(order) \in Queue(Known, rank, order[i])
<1>1. 1 \in 1..Len(order) /\ i \in 1..Len(order) /\ 1 < i /\ Head(order) = order[1]
  BY DEF PollTypes
<1>2. Head(order) \in Queue(Known, rank, order[i])
  BY <1>1 DEF InTurn
<1>3. Head(order) \in Flights /\ rank \in [Flights -> Nat]
  BY DEF PollTypes, Known
<1>4. rank[Head(order)] \in Nat /\ Head(order) \in Nat
  BY <1>3, BudgetAssumption DEF Flights
<1> QED
  BY <1>2, <1>4 DEF Queue

LEMMA PollInTurn ==
  ASSUME PollTypes, InTurn, NEW c, NEW asksZone, Poll(c, asksZone), unreadable' = unreadable
  PROVE  InTurn'
<1> DEFINE h == Head(order)
<1>1. /\ order # <<>> /\ order' = Tail(order) /\ h \in Known
      /\ rank' = [rank EXCEPT ![h] = N]
  BY DEF Poll, PollTypes, Known
<1>2. /\ Len(order') = Len(order) - 1 /\ Len(order) \in Nat
      /\ \A j \in 1..(Len(order) - 1) : order'[j] = order[j + 1]
  BY <1>1 DEF PollTypes
<1>3. Known' = Known
  BY DEF Known
<1>4. ASSUME NEW i \in 1..Len(order'), NEW j \in 1..Len(order'), i < j,
             order'[i] \in Known, order'[j] \in Known
      PROVE  order'[i] \in Queue(Known, rank', order'[j])
  <2>1. i + 1 \in 2..Len(order) /\ j + 1 \in 2..Len(order) /\ i + 1 < j + 1
    BY <1>2, <1>4
  <2>2. order'[i] = order[i + 1] /\ order'[j] = order[j + 1]
    BY <1>2
  <2>3. order[i + 1] \in Queue(Known, rank, order[j + 1])
    BY <1>4, <2>1, <2>2 DEF InTurn
  <2>4. order[i + 1] # h /\ order[j + 1] # h
    BY <1>1, <1>4, <2>1, <2>2, BehindHead
  <2>5. rank'[order[i + 1]] = rank[order[i + 1]] /\ rank'[order[j + 1]] = rank[order[j + 1]]
    <3>1. order'[i] \in Flights /\ order'[j] \in Flights /\ rank \in [Flights -> Nat]
      BY <1>4 DEF Known, PollTypes
    <3> HIDE DEF h
    <3> QED
      BY <1>1, <2>2, <2>4, <3>1
  <2> QED
    BY <2>2, <2>3, <2>5 DEF Queue
<1> QED
  BY <1>3, <1>4 DEF InTurn, Queue

LEMMA StepInTurn == PollTypes /\ InTurn /\ [BudgetNext]_budgetVars => InTurn'
<1> SUFFICES ASSUME PollTypes, InTurn, [BudgetNext]_budgetVars PROVE InTurn'
  OBVIOUS
<1>1. unreadable' = unreadable /\ Known' = Known
  BY DEF BudgetNext, budgetVars, Known
<1>2. CASE CycleOpen
  BY <1>1, <1>2, OpenedInTurn
<1>3. CASE Defer \/ Unread
  BY <1>3 DEF Defer, Unread, InTurn
<1>4. CASE NotDue
  BY <1>1, <1>4, TailInTurn DEF NotDue, PollTypes
<1>5. ASSUME NEW c \in FailSeconds, PollFailed(c) PROVE InTurn'
  BY <1>1, <1>5, TailInTurn DEF PollFailed, PollTypes
<1>6. ASSUME NEW c \in Seconds, NEW asksZone \in BOOLEAN, Poll(c, asksZone) PROVE InTurn'
  BY <1>1, <1>6, PollInTurn
<1>7. CASE UNCHANGED <<rank, order>>
  BY <1>1, <1>7 DEF InTurn, Queue
<1> QED
  BY <1>2, <1>3, <1>4, <1>5, <1>6, <1>7, OtherSteps DEF BudgetNext

LEMMA StepCounts == PollTypes /\ Counts /\ [BudgetNext]_budgetVars => Counts'
<1> SUFFICES ASSUME PollTypes, Counts, [BudgetNext]_budgetVars PROVE Counts'
  OBVIOUS
<1> USE DEF PollTypes
<1>0. /\ Cadence \in Nat \ {0} /\ N \in Nat
      /\ \A f \in Flights : rank[f] \in Nat /\ waited[f] \in 0..Cadence /\ passed[f] \in Int
  BY BudgetAssumption
<1>1. CASE CycleOpen
  <2>1. \A f \in Flights : rank'[f] < N
    BY <1>1, RenumberedKeeps DEF CycleOpen
  <2>2. ASSUME NEW f \in Flights PROVE passed'[f] <= waited'[f] \/ waited'[f] = Cadence
    <3>1. passed'[f] \in {passed[f], passed[f] + 1}
      BY <1>1, CountedType DEF CycleOpen
    <3>2. waited'[f] = IF waited[f] < Cadence THEN waited[f] + 1 ELSE Cadence
      BY <1>1 DEF CycleOpen
    <3>3. passed[f] <= waited[f] \/ waited[f] = Cadence
      BY DEF Counts
    <3>4. waited[f] \in Nat /\ waited[f] <= Cadence /\ passed[f] \in Int
      BY <1>0
    <3> QED
      BY <1>0, <3>1, <3>2, <3>3, <3>4
  <2>3. spent' = 0 /\ \A f \in Flights : waited'[f] = Cadence => f \in due'
    BY <1>1 DEF CycleOpen, SpentInv
  <2> QED
    BY <2>1, <2>2, <2>3 DEF Counts
<1>2. ASSUME NEW c \in Seconds, NEW asksZone \in BOOLEAN, Poll(c, asksZone)
      PROVE  Counts'
  <2> DEFINE h == Head(order)
  <2>1. /\ h \in Flights /\ phase = "poll" /\ due' = due /\ course' = "answered"
        /\ rank' = [rank EXCEPT ![h] = N] /\ waited' = [waited EXCEPT ![h] = 0]
        /\ passed' = [passed EXCEPT ![h] = 0]
    BY <1>2 DEF Poll, scope
  <2> HIDE DEF h
  <2>2. /\ waited'[h] = 0 /\ passed'[h] = 0
        /\ \A f \in Flights \ {h} :
             rank'[f] = rank[f] /\ waited'[f] = waited[f] /\ passed'[f] = passed[f]
    BY <2>1
  <2>3. ASSUME NEW f \in Flights
        PROVE  /\ passed'[f] <= waited'[f] \/ waited'[f] = Cadence
               /\ rank'[f] < N \/ passed'[f] <= 0
               /\ waited'[f] = Cadence => f \in due'
    BY <1>0, <2>1, <2>2 DEF Counts
  <2> QED
    BY <2>1, <2>3 DEF Counts
<1>3. CASE Defer \/ Unread \/ NotDue \/ \E c \in FailSeconds : PollFailed(c)
  <2>1. UNCHANGED <<rank, waited>> /\ phase = "poll"
    BY <1>3 DEF Defer, Unread, NotDue, PollFailed
  <2>2. phase' = "poll" => due' = due
    BY <1>3 DEF Defer, Unread, NotDue, PollFailed, scope
  <2>3. phase' = "poll" /\ course' = "clear" => course = "clear" /\ spent' = spent
    <3>1. CASE Defer \/ Unread \/ NotDue
      BY <3>1 DEF Defer, Unread, NotDue, history
    <3>2. ASSUME NEW c \in FailSeconds, PollFailed(c), course' = "clear"
          PROVE  course = "clear" /\ spent' = spent
      <4>1. c \in Nat /\ spent \in Nat /\ spent' = spent + c
        BY <3>2, BudgetAssumption DEF PollFailed, SpentInv
      <4>2. course = "clear" /\ ~(c > 0)
        BY <3>2 DEF PollFailed
      <4> QED
        BY <4>1, <4>2
    <3> QED
      BY <1>3, <3>1, <3>2
  <2>4. \A f \in Flights : passed'[f] \in {passed[f], passed[f] - 1}
    <3>1. CASE Defer \/ Unread \/ NotDue
      BY <3>1, CountedType DEF Defer, Unread, NotDue, FaultTook, history
    <3>2. ASSUME NEW c \in FailSeconds, PollFailed(c)
          PROVE  \A f \in Flights : passed'[f] \in {passed[f], passed[f] - 1}
      BY <3>2, CountedType DEF PollFailed
    <3> QED
      BY <1>3, <3>1, <3>2
  <2>5. ASSUME NEW f \in Flights
        PROVE  /\ passed[f] <= waited[f] \/ waited[f] = Cadence
               /\ rank[f] < N \/ passed[f] <= 0
               /\ waited[f] = Cadence => f \in due
    BY <2>1 DEF Counts
  <2>6. ASSUME NEW f \in Flights
        PROVE  /\ passed'[f] <= waited[f] \/ waited[f] = Cadence
               /\ rank[f] < N \/ passed'[f] <= 0
    <3>1. passed'[f] \in {passed[f], passed[f] - 1} /\ passed[f] \in Int
      BY <1>0, <2>4
    <3>2. waited[f] \in Nat
      BY <1>0
    <3> QED
      BY <2>5, <3>1, <3>2
  <2>7. course = "clear" => spent = 0
    BY <2>1 DEF Counts
  <2> QED
    BY <2>1, <2>2, <2>3, <2>5, <2>6, <2>7 DEF Counts
<1>4. CASE /\ UNCHANGED <<rank, waited, passed, course>>
           /\ phase' # "poll" \/ UNCHANGED <<phase, due, spent>>
  BY <1>4 DEF Counts
<1> HIDE DEF PollTypes
<1> QED
  BY <1>1, <1>2, <1>3, <1>4, OtherSteps, Zenon DEF BudgetNext

\* A flight behind the head still comes when the loop goes on.
LEMMA TailKeepsComing ==
  ASSUME PollTypes, order # <<>>, order' = Tail(order), NEW f, f # Head(order),
         StillComing(f), phase' = phase, course' # "answered"
  PROVE  StillComing(f)'
<1>1. PICK i \in 1..Len(order) : order[i] = f
  BY DEF StillComing
<1>2. /\ Len(order') = Len(order) - 1 /\ Len(order) \in Nat /\ Head(order) = order[1]
      /\ \A j \in 1..(Len(order) - 1) : order'[j] = order[j + 1]
  BY DEF PollTypes
<1>3. i # 1
  BY <1>1, <1>2
<1>4. i - 1 \in 1..(Len(order) - 1) /\ (i - 1) + 1 = i
  BY <1>2, <1>3
<1>5. i - 1 \in 1..Len(order') /\ order'[i - 1] = f
  BY <1>1, <1>2, <1>4
<1> QED
  BY <1>5 DEF StillComing

\* A flight that the loop breaks off before, with no poll answered, is not
\* charged for the cycle.
LEMMA BreakOffNotCounted ==
  ASSUME PollTypes, Counts, NEW f \in Known, StillComing(f), Defer \/ Unread
  PROVE  passed'[f] = passed[f] - 1
<1>1. PICK i \in DOMAIN order : order[i] = f
  BY DEF StillComing, PollTypes
<1>2. course = "clear" => spent = 0
  BY DEF StillComing, Counts
<1>3. passed' = Counted({order[j] : j \in DOMAIN order}, -1)
  <2>1. CASE Unread
    BY <2>1 DEF Unread, FaultTook, StillComing
  <2>2. CASE Defer
    <3>1. course # "clear"
      BY <1>2, <2>2, FreshInTime DEF Defer
    <3>2. course = "lost" => passed' = Counted({order[j] : j \in DOMAIN order}, -1)
      BY <2>2 DEF Defer, FaultTook
    <3> QED
      BY <3>1, <3>2 DEF StillComing, PollTypes
  <2> QED
    BY <2>1, <2>2
<1>4. f \in {order[j] : j \in DOMAIN order} \ unreadable /\ f \in Flights
  BY <1>1 DEF Known
<1>5. passed[f] \in Int
  BY <1>4 DEF PollTypes
<1>6. passed'[f] = passed[f] + (-1)
  BY <1>3, <1>4 DEF Counted
<1> QED
  BY <1>5, <1>6

\* The step of one flight's wait.
LEMMA StepServed ==
  ASSUME PollTypes, InTurn, Counts, BudgetNext, NEW f \in Known, Served(f)
  PROVE  Served(f)'
<1> USE DEF PollTypes
<1>1. unreadable' = unreadable /\ Known' = Known /\ f \in Flights
  BY DEF BudgetNext, Known
<1>2. Cadence \in Nat \ {0} /\ N \in Nat
  BY BudgetAssumption
<1>3. /\ Waits(f) = passed[f] + Place(Known, rank, f)
      /\ Waits(f)' = passed'[f] + Place(Known, rank', f)
  BY <1>1 DEF Waits, Place, Queue
<1>4. passed[f] \in Int /\ rank[f] \in Nat /\ Place(Known, rank, f) \in 0..(N - 1) /\ N >= 1
  BY <1>1, PlaceRange, KnownFlights
<1>5. CASE CycleOpen
  <2>1. Place(Known, rank', f) = Place(Known, rank, f)
    BY <1>5, RenumberedQueue DEF CycleOpen, Place
  <2>2. phase = "idle" /\ phase' = "poll" /\ course' # "answered" /\ passed'[f] = passed[f] + 1
    BY <1>5, CountedType DEF CycleOpen, Known
  <2>3. StillComing(f)'
    BY <1>1, <1>5, <2>2, OpenedInTurn DEF StillComing
  <2>4. passed[f] >= Cadence => Waits(f) <= Cadence + N - 2
    BY <2>2 DEF Served, StillComing
  <2> QED
    BY <1>2, <1>3, <1>4, <2>1, <2>2, <2>3, <2>4 DEF Served
<1>6. ASSUME NEW c \in Seconds, NEW asksZone \in BOOLEAN, Poll(c, asksZone)
      PROVE  Served(f)'
  <2> DEFINE h == Head(order)
  <2>1. /\ h \in Known /\ phase = "poll" /\ order # <<>>
        /\ rank' = [rank EXCEPT ![h] = N] /\ passed' = [passed EXCEPT ![h] = 0]
    BY <1>6 DEF Poll, Known
  <2>2. CASE h = f
    <3>1. passed'[f] = 0
      BY <1>1, <2>1, <2>2
    <3> QED
      BY <1>2, <3>1 DEF Served
  <2>3. CASE h # f
    <3>1. h \in Flights /\ passed'[f] = passed[f]
      BY <1>1, <2>1, <2>3 DEF Known
    <3> SUFFICES ASSUME passed[f] >= Cadence PROVE Waits(f)' <= Cadence + N - 2
      BY <3>1 DEF Served
    <3>2. rank[f] < N
      BY <1>1, <1>2, <1>4, <2>1 DEF Counts
    <3>3. /\ Place(Known, rank', f) <= Place(Known, rank, f)
          /\ h \in Queue(Known, rank, f) => Place(Known, rank', f) < Place(Known, rank, f)
      BY <1>1, <2>1, <2>3, <3>1, <3>2, KnownFlights, PollShortens
    <3>4. Place(Known, rank', f) \in Nat
      <4>1. rank' \in [Flights -> Nat]
        BY <1>2, <2>1
      <4>2. Place(Known, rank', f) \in 0..(N - 1)
        BY <1>1, <4>1, KnownFlights, PlaceRange
      <4> QED
        BY <1>2, <4>2
    <3>5. CASE Waits(f) <= Cadence + N - 2
      BY <1>2, <1>3, <1>4, <3>1, <3>3, <3>4, <3>5
    <3>6. CASE Waits(f) <= Cadence + N - 1 /\ StillComing(f)
      <4>1. PICK i \in 1..Len(order) : order[i] = f
        BY <3>6 DEF StillComing
      <4>2. i \in 2..Len(order)
        <5>1. i # 1
          BY <2>3, <4>1
        <5> QED
          BY <5>1
      <4>3. h \in Queue(Known, rank, f)
        BY <2>1, <4>1, <4>2, BehindHead
      <4>4. Place(Known, rank', f) < Place(Known, rank, f)
        BY <3>3, <4>3
      <4>5. Place(Known, rank, f) \in Nat
        BY <1>2, <1>4
      <4>6. Waits(f)' < Waits(f)
        BY <1>3, <1>4, <3>1, <3>4, <4>4, <4>5
      <4>7. Waits(f) \in Int /\ Waits(f)' \in Int
        BY <1>3, <1>4, <3>1, <3>4, <4>5
      <4> QED
        BY <1>2, <3>6, <4>6, <4>7
    <3> QED
      BY <3>5, <3>6 DEF Served
  <2> QED
    BY <2>2, <2>3
<1>7. ASSUME NEW c \in FailSeconds, PollFailed(c) PROVE Served(f)'
  <2>1. /\ UNCHANGED <<phase, rank>> /\ order # <<>> /\ order' = Tail(order)
        /\ course' \in {course, "lost"}
        /\ passed' = Counted({Head(order)}, -1)
    BY <1>7 DEF PollFailed
  <2>2. CASE f = Head(order)
    <3>1. passed'[f] = passed[f] + (-1)
      BY <1>1, <2>1, <2>2 DEF Counted, Known
    <3>2. Place(Known, rank', f) = Place(Known, rank, f) /\ Place(Known, rank, f) \in Nat
      BY <1>2, <1>4, <2>1
    <3>3. passed'[f] >= Cadence => Waits(f)' <= Cadence + N - 2
      BY <1>2, <1>3, <1>4, <3>1, <3>2 DEF Served
    <3> QED
      BY <3>3 DEF Served
  <2>3. CASE f # Head(order)
    <3>1. passed'[f] = passed[f]
      BY <1>1, <2>1, <2>3 DEF Counted
    <3>2. StillComing(f) => StillComing(f)'
      BY <2>1, <2>3, TailKeepsComing DEF StillComing
    <3> QED
      BY <1>3, <2>1, <3>1, <3>2 DEF Served
  <2> QED
    BY <2>2, <2>3
<1>8. CASE Defer \/ Unread
  <2>1. UNCHANGED rank /\ passed'[f] \in {passed[f], passed[f] - 1}
    BY <1>1, <1>8, CountedType DEF Defer, Unread, FaultTook
  <2>2. StillComing(f) => passed'[f] = passed[f] - 1
    BY <1>8, BreakOffNotCounted
  <2> QED
    BY <1>2, <1>3, <1>4, <2>1, <2>2 DEF Served
<1>9. CASE NotDue
  <2>1. /\ UNCHANGED <<rank, passed, phase, course>> /\ order # <<>> /\ order' = Tail(order)
        /\ phase = "poll" /\ Head(order) \notin due
    BY <1>9 DEF NotDue, history
  <2>2. passed[f] >= Cadence => f # Head(order)
    <3>1. waited[f] \in 0..Cadence
      BY <1>1
    <3>2. passed[f] >= Cadence => waited[f] = Cadence
      BY <1>1, <1>2, <1>4, <3>1 DEF Counts
    <3> QED
      BY <1>1, <2>1, <3>2 DEF Counts
  <2>3. passed[f] >= Cadence /\ StillComing(f) => StillComing(f)'
    BY <2>1, <2>2, TailKeepsComing DEF StillComing
  <2> QED
    BY <1>3, <2>1, <2>3 DEF Served
<1>10. CASE /\ UNCHANGED <<rank, passed, course, order>>
            /\ phase = "poll" => order = <<>> \/ UNCHANGED phase
  <2>1. StillComing(f) => StillComing(f)'
    BY <1>10 DEF StillComing
  <2> QED
    BY <1>3, <1>10, <2>1 DEF Served
<1> HIDE DEF PollTypes
<1> QED
  BY <1>5, <1>6, <1>7, <1>8, <1>9, <1>10, OtherSteps, Zenon DEF BudgetNext

LEMMA StepRound == RoundInv /\ [BudgetNext]_budgetVars => RoundInv'
<1> SUFFICES ASSUME RoundInv, [BudgetNext]_budgetVars PROVE RoundInv'
  OBVIOUS
<1>1. PollTypes' /\ InTurn' /\ Counts' /\ Known' = Known
  BY StepPollTypes, StepInTurn, StepCounts DEF RoundInv, BudgetNext, budgetVars, Known
<1>2. CASE BudgetNext
  <2>1. ASSUME NEW f \in Known PROVE Served(f)'
    BY <1>2, StepServed DEF RoundInv
  <2> QED
    BY <1>1, <2>1 DEF RoundInv
<1>3. CASE UNCHANGED budgetVars
  <2>1. UNCHANGED <<phase, rank, passed, order, course, unreadable>>
    BY <1>3 DEF budgetVars, history
  <2>2. ASSUME NEW f \in Known, Served(f) PROVE Served(f)'
    BY <1>1, <2>1, <2>2 DEF Served, Waits, Place, Queue, StillComing
  <2> QED
    BY <1>1, <2>2 DEF RoundInv
<1> QED
  BY <1>2, <1>3

(* However many flights are tracked, whichever of their polls fail, however   *)
(* long they take and whichever records do not read: a flight that reads is   *)
(* polled within a round of the index beyond its cadence, not counting the    *)
(* cycles a fault took from it.  Every other cycle that does not poll it      *)
(* polls one ahead of it, which goes to the back.                             *)
THEOREM NobodyWaitsForever == BudgetSpec => []NobodyStarves
<1>1. RoundInv => NobodyStarves
  <2> SUFFICES ASSUME RoundInv, NEW f \in Flights PROVE passed[f] < Cadence + N
    BY DEF NobodyStarves
  <2>1. Cadence \in Nat \ {0} /\ N \in Nat /\ rank \in [Flights -> Nat] /\ passed[f] \in Int
    BY BudgetAssumption DEF RoundInv, PollTypes
  <2>2. CASE f \in Known
    <3>1. N >= 1 /\ Place(Known, rank, f) \in 0..(N - 1)
      BY <2>1, <2>2, PlaceRange, KnownFlights
    <3> QED
      BY <2>1, <2>2, <3>1 DEF RoundInv, Served, Waits
  <2>3. CASE f \in unreadable
    BY <2>1, <2>3 DEF RoundInv, PollTypes
  <2> QED
    BY <2>2, <2>3 DEF Known
<1> QED
  BY <1>1, InitRound, StepRound, PTL DEF BudgetSpec

-----------------------------------------------------------------------------
(* TimedPhases.  No notice of the clock is moot when it is sent, for any
   flights, trips, cadences and delays.  What a cycle sends was not backed off
   before it, so its flight was asked for in this very cycle; had byAir not
   answered, the notice would have been held back.  So it was verified, and
   stands only if this cycle's answer upholds it.

   The same argument, with one row for a flight and a phase, carries the
   retries and the tight connections.  The leave-by alert rests on another
   fact: a flight is late exactly if a poll its cadence called for is missing,
   so the poll that crosses leave-by is in time. *)

Reasons == {"day_before", "time_to_leave", "arrival_logistics", "connection_at_risk"}

\* A row of the journal, as of a last cycle at t.
Shape(row) ==
  row = [seq |-> row.seq, flight |-> row.flight, event |-> row.event, prior |-> row.prior,
         expires |-> row.expires, confirmed |-> row.confirmed, retry |-> row.retry]
RowOk(row, t) ==
  /\ Shape(row)
  /\ row.flight \in Legs
  /\ row.event.reason \in Reasons
  /\ row.event.reason = "connection_at_risk" => row.event.leg1 \in Legs
  /\ row.retry \in Nat /\ row.retry <= t + Retry /\ row.expires \in Nat
  /\ row.event.reason = "day_before" => row.expires = Dep[row.flight]

Typed ==
  /\ now \in Nat
  /\ record \in [Legs -> [status : Statuses \cup {None}, slip : Nat, polledAt : Nat]]
  /\ truth \in [Legs -> [status : Statuses, slip : Nat]]

IInv == Typed /\ (\A row \in notices : RowOk(row, now)) /\ NoMootNotice

\* What may be offered.
OfferOk(o) ==
  /\ o.flight \in Legs /\ o.event.reason \in Reasons
  /\ o.event.reason = "connection_at_risk" => o.event.leg1 \in Legs

LEMMA ExpiresType ==
  ASSUME Typed, NEW t \in Nat, NEW o, OfferOk(o)
  PROVE  Expires(o, t) \in Nat
<1>1. Dep[o.flight] \in Nat /\ Arr[o.flight] \in Nat /\ Life \in Nat /\ truth[o.flight].slip \in Nat
  BY PhasesAssumption DEF Typed, OfferOk
<1>2. Lesser(t + Life, Arr[o.flight] + truth[o.flight].slip + Life) \in Nat
  BY <1>1 DEF Lesser
<1> QED BY <1>1, <1>2 DEF Expires

LEMMA OfferedOk ==
  ASSUME Typed, NEW rows, NEW offers, NEW t \in Nat, NEW m \in Nat,
         \A row \in rows : RowOk(row, m), \A o \in offers : OfferOk(o)
  PROVE  \A row \in Offered(rows, offers, t) : RowOk(row, m)
<1> SUFFICES ASSUME NEW row \in Offered(rows, offers, t), row \notin rows PROVE RowOk(row, m)
  OBVIOUS
<1>1. PICK o \in offers : row = Journal!NewRow(rows, t, o.flight, o.event, 0, Expires(o, t))
  BY DEF Offered
<1> DEFINE live == {r \in Journal!Previous(rows, o.flight, o.event, 0) : ~Journal!Lapsed(r, t)}
<1>2. /\ row.flight = o.flight /\ row.event = o.event /\ row.expires = Expires(o, t)
      /\ row.retry = (IF live = {} THEN 0 ELSE (CHOOSE r \in live : TRUE).retry) /\ Shape(row)
  BY <1>1 DEF Journal!NewRow, Shape
<1>3. live \subseteq rows
  BY DEF Journal!Previous
<1> HIDE DEF live
<1>4. row.retry \in Nat /\ row.retry <= m + Retry
  BY <1>2, <1>3, PhasesAssumption DEF RowOk
<1>5. row.event.reason = "day_before" => row.expires = Dep[row.flight]
  BY <1>2 DEF Expires
<1>6. row.expires \in Nat
  BY <1>2, ExpiresType
<1> QED BY <1>2, <1>4, <1>5, <1>6 DEF RowOk, OfferOk

LEMMA PollsOk ==
  ASSUME NEW rows, NEW t, NEW polled \in SUBSET Legs, NEW o \in PollOffers(rows, polled, t)
  PROVE  /\ OfferOk(o) /\ o.flight \in polled /\ o.event.reason # "connection_at_risk"
         /\ o.event.reason = "time_to_leave" =>
              ~BoardingOrGone(o.flight, truth[o.flight], t) /\ fix # "there"
<1>1. PICK l \in polled : \E e \in FlightEvents(rows, l, truth[l], t) : o = [flight |-> l, event |-> e]
  BY DEF PollOffers
<1>3. PICK e \in FlightEvents(rows, l, truth[l], t) : o = [flight |-> l, event |-> e]
  BY <1>1
<1>2. \/ e = DayBeforeNotice \/ e = ArrivalNotice
      \/ /\ e.reason = "time_to_leave"
         /\ ~BoardingOrGone(l, truth[l], t) /\ fix # "there"
  BY DEF FlightEvents, DayBeforeEvents, LeaveEvents, ArrivalEvents, LeaveNotice
<1> QED BY <1>2, <1>3 DEF OfferOk, Reasons, DayBeforeNotice, ArrivalNotice

LEMMA RisksOk ==
  ASSUME NEW rows, NEW records, NEW trusted \in SUBSET Legs, NEW t, NEW o \in RiskOffers(rows, records, trusted, t)
  PROVE  OfferOk(o) /\ o.event.reason = "connection_at_risk"
BY DEF RiskOffers, RiskNotice, OfferOk, Reasons

\* A notice that is offered and pending is one that was, or a fresh one.
LEMMA OldOrFresh ==
  ASSUME NEW rows, NEW offers, NEW t, NEW row \in Offered(rows, offers, t)
  PROVE  \/ row \in rows
         \/ \E o \in offers :
              /\ row.flight = o.flight /\ row.event = o.event
              /\ ~Journal!OfferIgnored(rows, t, o.flight, o.event, 0, Expires(o, t))
BY DEF Offered, Journal!NewRow

LEMMA Stamped ==
  ASSUME NEW row, Shape(row), NEW at, NEW new, new \in {[row EXCEPT !.retry = at]}
  PROVE  /\ Shape(new) /\ new.retry = at /\ new.flight = row.flight /\ new.event = row.event
         /\ new.expires = row.expires /\ new.confirmed = row.confirmed
BY DEF Shape

LEMMA Heard ==
  ASSUME NEW row, Shape(row), NEW heard, NEW new, new \in {[row EXCEPT !.confirmed = @ \/ heard]}
  PROVE  /\ Shape(new) /\ new.retry = row.retry /\ new.flight = row.flight
         /\ new.event = row.event /\ new.expires = row.expires
BY DEF Shape

\* The journal in a cycle at t: after the polls, after the pass over the
\* connections, after reconcile, and what is then ready to be sent.
PollRows(answered, t) == Offered(Pruned(t), PollOffers(Pruned(t), answered, t), t)
Risks(answered, records, t) ==
  RiskOffers(PollRows(answered, t), records, Legs \ (Wanted(Pruned(t), t) \ answered), t)
AllRows(answered, records, t) == Offered(PollRows(answered, t), Risks(answered, records, t), t)
Phases(answered, records, t) ==
  {<<o.flight, o.event.reason>> :
     o \in PollOffers(Pruned(t), answered, t) \cup Risks(answered, records, t)}
KeptRows(answered, records, t) ==
  Journal!Reconciled(AllRows(answered, records, t), answered, Phases(answered, records, t),
                     Upheld(AllRows(answered, records, t), records))
Ready(answered, records, t) ==
  Journal!DueReady(KeptRows(answered, records, t), Legs, Wanted(Pruned(t), t) \ answered, {}, t)

LEMMA JournalOfCycle ==
  ASSUME NEW answered, NEW records, NEW t
  PROVE  DueJournal(Pruned(t), answered, Wanted(Pruned(t), t) \ answered, records, t) =
           Journal!DueRows(KeptRows(answered, records, t), Legs, Wanted(Pruned(t), t) \ answered, {}, t)
BY DEF DueJournal, KeptRows, AllRows, Phases, Risks, PollRows

LEMMA WantedLegs ==
  ASSUME IInv, NEW t
  PROVE  (\A r \in Pruned(t) : RowOk(r, now)) /\ Wanted(Pruned(t), t) \subseteq Legs
<1>1. \A r \in Pruned(t) : RowOk(r, now)
  BY DEF IInv, Pruned, Journal!Pruned
<1> QED
  BY <1>1 DEF Wanted, DueLegs, Journal!RetryDueIds, Journal!Dependencies, RowOk

LEMMA RowsOk ==
  ASSUME IInv, NEW t \in Nat, NEW answered \in SUBSET Wanted(Pruned(t), t), NEW records
  PROVE  /\ \A r \in PollRows(answered, t) : RowOk(r, now)
         /\ \A r \in AllRows(answered, records, t) : RowOk(r, now)
<1>1. Typed /\ now \in Nat /\ \A r \in Pruned(t) : RowOk(r, now)
  BY WantedLegs DEF IInv, Typed
<1>2. answered \in SUBSET Legs /\ Legs \ (Wanted(Pruned(t), t) \ answered) \in SUBSET Legs
  BY WantedLegs
<1>3. \A r \in PollRows(answered, t) : RowOk(r, now)
  <2>1. \A o \in PollOffers(Pruned(t), answered, t) : OfferOk(o)
    BY <1>2, PollsOk
  <2> QED
    BY <1>1, <2>1, OfferedOk DEF PollRows
<1>4. \A r \in AllRows(answered, records, t) : RowOk(r, now)
  <2>1. \A o \in Risks(answered, records, t) : OfferOk(o)
    BY <1>2, RisksOk DEF Risks
  <2> QED
    BY <1>1, <1>3, <2>1, OfferedOk DEF AllRows
<1> QED
  BY <1>3, <1>4

\* What a row of the journal after the cycle was when all notices were offered,
\* and what is known of one that is ready to be sent.
Origin(row, r, answered, records, t) ==
  /\ r \in AllRows(answered, records, t) /\ r \in KeptRows(answered, records, t)
  /\ RowOk(r, now) /\ RowOk(row, t)
  /\ row.flight = r.flight /\ row.event = r.event
  /\ row.expires = r.expires /\ row.confirmed = r.confirmed
  /\ \/ row = r /\ r \notin Ready(answered, records, t)
     \/ row = [r EXCEPT !.retry = t + Retry] /\ r \in Ready(answered, records, t)
  /\ row.retry = t + Retry /\ ~row.confirmed =>
       /\ ~r.confirmed /\ ~Journal!Lapsed(r, t) /\ ~Journal!Backoff(r, t)
       /\ Journal!Dependencies(r) \cap (Wanted(Pruned(t), t) \ answered) = {}
       /\ r \in Pruned(t) => Journal!Dependencies(r) \subseteq answered

LEMMA OriginExists ==
  ASSUME IInv, NEW t \in Nat, now < t,
         NEW answered \in SUBSET Wanted(Pruned(t), t), NEW records,
         NEW row \in DueJournal(Pruned(t), answered, Wanted(Pruned(t), t) \ answered, records, t)
  PROVE  \E r \in AllRows(answered, records, t) : Origin(row, r, answered, records, t)
<1> DEFINE failed == Wanted(Pruned(t), t) \ answered
           offered == AllRows(answered, records, t)
           kept == KeptRows(answered, records, t)
           ready == Ready(answered, records, t)
<1>0. Retry \in Nat \ {0} /\ now \in Nat
  BY PhasesAssumption DEF IInv, Typed
<1>1. PICK r \in offered :
        /\ r \in kept
        /\ \/ row = r /\ r \notin ready
           \/ row = [r EXCEPT !.retry = t + Retry] /\ r \in ready
  <2>1. row \in Journal!DueRows(kept, Legs, failed, {}, t)
    BY JournalOfCycle
  <2>2. kept \subseteq offered
    BY DEF KeptRows, Journal!Reconciled
  <2> HIDE DEF kept, offered
  <2> QED
    BY <2>1, <2>2 DEF Journal!DueRows, Journal!DueKept, Journal!DueReady, Ready, kept
<1>2. RowOk(r, now)
  BY RowsOk
<1> HIDE DEF failed, offered, kept, ready
<1>3. /\ row.flight = r.flight /\ row.event = r.event /\ row.expires = r.expires
      /\ row.confirmed = r.confirmed /\ Shape(row)
      /\ (r \in ready => row.retry = t + Retry) /\ (r \notin ready => row.retry = r.retry)
  <2>1. CASE row = r /\ r \notin ready
    BY <1>2, <2>1 DEF RowOk
  <2>2. CASE row = [r EXCEPT !.retry = t + Retry] /\ r \in ready
    <3> DEFINE at == t + Retry
    <3> HIDE DEF at
    <3>1. Shape(r)
      BY <1>2 DEF RowOk
    <3>2. row \in {[r EXCEPT !.retry = at]}
      BY <2>2 DEF at
    <3>3. /\ Shape(row) /\ row.retry = at /\ row.flight = r.flight /\ row.event = r.event
          /\ row.expires = r.expires /\ row.confirmed = r.confirmed
      BY <3>1, <3>2, Stamped
    <3> QED BY <2>2, <3>3 DEF at
  <2> QED BY <1>1, <2>1, <2>2
<1>4. RowOk(row, t)
  BY <1>0, <1>2, <1>3 DEF RowOk
<1>5. ASSUME row.retry = t + Retry, ~row.confirmed
      PROVE  /\ ~r.confirmed /\ ~Journal!Lapsed(r, t) /\ ~Journal!Backoff(r, t)
             /\ Journal!Dependencies(r) \cap failed = {}
             /\ r \in Pruned(t) => Journal!Dependencies(r) \subseteq answered
  <2>1. r \in ready
    BY <1>0, <1>2, <1>3, <1>5 DEF RowOk
  <2>2. /\ ~r.confirmed /\ ~Journal!Lapsed(r, t) /\ ~Journal!Backoff(r, t)
        /\ Journal!Dependencies(r) \cap failed = {}
    BY <2>1 DEF Journal!DueReady, Journal!DueKept, Ready, ready, failed
  <2>3. r \in Pruned(t) => Journal!Dependencies(r) \subseteq Wanted(Pruned(t), t)
    BY <2>2 DEF Wanted, Journal!RetryDueIds
  <2> QED
    BY <2>2, <2>3 DEF failed
<1> QED
  BY <1>1, <1>2, <1>3, <1>4, <1>5 DEF Origin, failed, offered, kept, ready

(* What is sent in a cycle at t: its flight was answered for, and it is what
   the answer upholds. *)
LEMMA Verified ==
  ASSUME IInv, NEW t \in Nat, now < t,
         NEW answered \in SUBSET Wanted(Pruned(t), t), NEW records,
         NEW row \in DueJournal(Pruned(t), answered, Wanted(Pruned(t), t) \ answered, records, t)
  PROVE  /\ RowOk(row, t)
         /\ row.retry = t + Retry /\ ~row.confirmed =>
              /\ row.event.reason # "connection_at_risk" =>
                   row.flight \in answered /\ records[row.flight].status # "cancelled"
              /\ row.event.reason = "day_before" => t < Dep[row.flight]
              /\ row.event.reason = "time_to_leave" =>
                   ~BoardingOrGone(row.flight, truth[row.flight], t) /\ fix # "there"
<1>1. PICK r \in AllRows(answered, records, t) : Origin(row, r, answered, records, t)
  BY OriginExists
<1>2. RowOk(row, t)
  BY <1>1 DEF Origin
<1> SUFFICES ASSUME row.retry = t + Retry, ~row.confirmed, row.event.reason # "connection_at_risk"
             PROVE  /\ row.flight \in answered /\ records[row.flight].status # "cancelled"
                    /\ row.event.reason = "day_before" => t < Dep[row.flight]
                    /\ row.event.reason = "time_to_leave" =>
                         ~BoardingOrGone(row.flight, truth[row.flight], t) /\ fix # "there"
  BY <1>2
<1>3. /\ r \in KeptRows(answered, records, t) /\ row.flight = r.flight /\ row.event = r.event
      /\ row.expires = r.expires /\ RowOk(r, now) /\ ~r.confirmed /\ ~Journal!Lapsed(r, t)
      /\ r \in Pruned(t) => Journal!Dependencies(r) \subseteq answered
  BY <1>1 DEF Origin
<1>4. answered \in SUBSET Legs
  BY WantedLegs
<1>5. row.flight \in answered
  <2>1. r \in PollRows(answered, t)
    <3>1. r \in PollRows(answered, t) \/ \E o \in Risks(answered, records, t) : r.event = o.event
      BY OldOrFresh DEF AllRows
    <3>2. \A o \in Risks(answered, records, t) : o.event.reason = "connection_at_risk"
      BY RisksOk DEF Risks
    <3> QED BY <1>3, <3>1, <3>2
  <2>2. r \in Pruned(t) \/ \E o \in PollOffers(Pruned(t), answered, t) : r.flight = o.flight
    BY <2>1, OldOrFresh DEF PollRows
  <2> QED BY <1>3, <1>4, <2>2, PollsOk DEF Journal!Dependencies
<1>6. /\ <<r.flight, r.event>> \in Upheld(AllRows(answered, records, t), records)
      /\ <<r.flight, r.event.reason>> \in Phases(answered, records, t)
  <2>1. Journal!Dependencies(r) \subseteq answered
    BY <1>3, <1>5 DEF Journal!Dependencies
  <2>2. ~r.confirmed /\ r.event.reason \in Reasons /\ r.event.reason # "boarding_started"
    BY <1>3 DEF RowOk, Reasons
  <2> QED BY <1>3, <2>1, <2>2 DEF KeptRows, Journal!Reconciled, Reasons
<1>7. records[row.flight].status # "cancelled"
  BY <1>3, <1>6 DEF Upheld
<1>8. row.event.reason = "day_before" => t < Dep[row.flight]
  <2>1. Dep \in [Legs -> Nat]
    BY PhasesAssumption
  <2> QED BY <1>3, <2>1 DEF RowOk, Journal!Lapsed
<1>9. ASSUME row.event.reason = "time_to_leave"
      PROVE  ~BoardingOrGone(row.flight, truth[row.flight], t) /\ fix # "there"
  <2>1. PICK o \in PollOffers(Pruned(t), answered, t) \cup Risks(answered, records, t) :
          o.flight = row.flight /\ o.event.reason = "time_to_leave"
    BY <1>3, <1>6, <1>9 DEF Phases
  <2> QED BY <1>4, <2>1, PollsOk, RisksOk DEF Risks
<1> QED BY <1>5, <1>7, <1>8, <1>9

-----------------------------------------------------------------------------
\* Time passes, never beyond the scheduler's tick.
LEMMA Later ==
  ASSUME now \in Nat, NEW gap \in Gaps
  PROVE  now + gap \in Nat /\ now < now + gap
BY PhasesAssumption

LEMMA RowStays ==
  ASSUME NEW s \in Nat, NEW t \in Nat, s <= t, NEW row, RowOk(row, s)
  PROVE  RowOk(row, t)
BY PhasesAssumption DEF RowOk

LEMMA PolledTyped ==
  ASSUME Typed, NEW t \in Nat, NEW l \in Legs
  PROVE  Polled(l, t) \in [status : Statuses \cup {None}, slip : Nat, polledAt : Nat]
BY DEF Typed, Polled

\* Nothing is sent and the journal stays as it is.
LEMMA QuietStep ==
  ASSUME IInv, now' \in Nat, now <= now', sent' = {}, notices' = notices, Typed'
  PROVE  IInv'
<1>1. \A row \in notices' : RowOk(row, now')
  BY RowStays DEF IInv, Typed
<1> QED BY <1>1 DEF IInv, NoMootNotice

\* The parts of a cycle: who is answered for, what is due, sent, acknowledged.
LEMMA CycleParts ==
  ASSUME NEW gap \in Gaps, Cycle(gap)
  PROVE  \E answered \in SUBSET Wanted(Pruned(now + gap), now + gap) :
           LET t == now + gap
               owed == DueJournal(Pruned(t), answered, Wanted(Pruned(t), t) \ answered, record', t)
               ready == {row \in owed : row.retry = t + Retry /\ ~row.confirmed} IN
           /\ record' = [l \in Legs |-> IF l \in answered THEN Polled(l, t) ELSE record[l]]
           /\ late' = (late \cup DueLegs(t)) \ answered
           /\ sent' \subseteq ready
           /\ \E acked \in SUBSET ready : notices' = Acknowledged(owed, acked)
<1> DEFINE t == now + gap
           wanted == Wanted(Pruned(t), t)
<1>1. PICK answered \in SUBSET wanted :
        LET failed == wanted \ answered IN
        /\ faults + Cardinality(failed) <= MaxFaults
        /\ record' = [l \in Legs |-> IF l \in answered THEN Polled(l, t) ELSE record[l]]
        /\ \E owed \in {DueJournal(Pruned(t), answered, failed, record', t)} :
           LET ready == {row \in owed : row.retry = t + Retry /\ ~row.confirmed}
               sends == {row.flight : row \in ready}
           IN \E lost \in SUBSET sends : \E unheard \in SUBSET (sends \ lost) :
              /\ sent' = {row \in ready : row.flight \notin lost}
              /\ notices' = Acknowledged(owed, {row \in ready : row.flight \notin lost \cup unheard})
              /\ faults' = faults + Cardinality(failed) + Cardinality(lost \cup unheard)
              /\ faults' <= MaxFaults
        /\ late' = (late \cup DueLegs(t)) \ answered
  BY DEF Cycle
<1>2. PICK owed \in {DueJournal(Pruned(t), answered, wanted \ answered, record', t)} :
           LET ready == {row \in owed : row.retry = t + Retry /\ ~row.confirmed}
               sends == {row.flight : row \in ready}
           IN \E lost \in SUBSET sends : \E unheard \in SUBSET (sends \ lost) :
              /\ sent' = {row \in ready : row.flight \notin lost}
              /\ notices' = Acknowledged(owed, {row \in ready : row.flight \notin lost \cup unheard})
  BY <1>1
<1> DEFINE ready == {row \in owed : row.retry = t + Retry /\ ~row.confirmed}
           sends == {row.flight : row \in ready}
<1>3. sent' \subseteq ready /\ \E acked \in SUBSET ready : notices' = Acknowledged(owed, acked)
  <2>1. PICK lost \in SUBSET sends : \E unheard \in SUBSET (sends \ lost) :
          /\ sent' = {row \in ready : row.flight \notin lost}
          /\ notices' = Acknowledged(owed, {row \in ready : row.flight \notin lost \cup unheard})
    BY <1>2
  <2>2. PICK unheard \in SUBSET (sends \ lost) :
          /\ sent' = {row \in ready : row.flight \notin lost}
          /\ notices' = Acknowledged(owed, {row \in ready : row.flight \notin lost \cup unheard})
    BY <2>1
  <2>3. {row \in ready : row.flight \notin lost \cup unheard} \in SUBSET ready
    OBVIOUS
  <2> QED BY <2>2, <2>3
<1> QED BY <1>1, <1>3

LEMMA CycleStep ==
  ASSUME IInv, NEW gap \in Gaps, Cycle(gap)
  PROVE  IInv'
<1> DEFINE t == now + gap
           wanted == Wanted(Pruned(t), t)
<1>1. t \in Nat /\ now < t
  BY Later DEF IInv, Typed
<1>2. PICK answered \in SUBSET wanted :
        LET owed == DueJournal(Pruned(t), answered, wanted \ answered, record', t)
            ready == {row \in owed : row.retry = t + Retry /\ ~row.confirmed} IN
        /\ record' = [l \in Legs |-> IF l \in answered THEN Polled(l, t) ELSE record[l]]
        /\ sent' \subseteq ready
        /\ \E acked \in SUBSET ready : notices' = Acknowledged(owed, acked)
  BY CycleParts
<1> DEFINE owed == DueJournal(Pruned(t), answered, wanted \ answered, record', t)
<1>3. /\ sent' \subseteq {row \in owed : row.retry = t + Retry /\ ~row.confirmed}
      /\ \E acked : notices' = Acknowledged(owed, acked)
  BY <1>2
<1>4. now' = t /\ truth' = truth /\ fix' = fix
  BY DEF Cycle, world
<1>5. answered \subseteq Legs
  <2>1. \A row \in Pruned(t) : RowOk(row, now)
    BY DEF IInv, Pruned, Journal!Pruned
  <2> QED BY <2>1 DEF Wanted, DueLegs, Journal!RetryDueIds, Journal!Dependencies, RowOk
<1>6. \A row \in owed :
        /\ RowOk(row, t)
        /\ row.retry = t + Retry /\ ~row.confirmed =>
              /\ row.event.reason # "connection_at_risk" =>
                   row.flight \in answered /\ record'[row.flight].status # "cancelled"
              /\ row.event.reason = "day_before" => t < Dep[row.flight]
              /\ row.event.reason = "time_to_leave" =>
                   ~BoardingOrGone(row.flight, truth[row.flight], t) /\ fix # "there"
  <2> TAKE row \in owed
  <2> DEFINE records == record'
  <2>1. row \in DueJournal(Pruned(t), answered, Wanted(Pruned(t), t) \ answered, records, t)
    OBVIOUS
  <2> HIDE DEF records, t, wanted
  <2> QED BY <1>1, <1>2, <2>1, Verified DEF records, wanted
<1> HIDE DEF owed
<1>7. Typed'
  BY <1>1, <1>2, <1>4, PolledTyped DEF IInv, Typed
<1>8. \A row \in notices' : RowOk(row, now')
  <2>1. PICK acked : notices' = Acknowledged(owed, acked)
    BY <1>3
  <2> SUFFICES ASSUME NEW row \in owed, NEW new \in {[row EXCEPT !.confirmed = @ \/ row \in acked]}
               PROVE  RowOk(new, t)
    BY <1>4, <2>1 DEF Acknowledged
  <2>2. RowOk(row, t)
    BY <1>6
  <2> DEFINE heard == row \in acked
  <2>3. new \in {[row EXCEPT !.confirmed = @ \/ heard]}
    OBVIOUS
  <2> HIDE DEF heard
  <2>4. /\ Shape(new) /\ new.retry = row.retry /\ new.flight = row.flight
        /\ new.event = row.event /\ new.expires = row.expires
    BY <2>2, <2>3, Heard DEF RowOk
  <2> QED BY <2>2, <2>4 DEF RowOk
<1>9. NoMootNotice'
  <2> SUFFICES ASSUME NEW row \in sent'
      PROVE /\ row.event.reason # "connection_at_risk" => record'[row.flight].status # "cancelled"
            /\ row.event.reason = "day_before" => t < Dep[row.flight]
            /\ row.event.reason = "time_to_leave" =>
                 /\ record'[row.flight].polledAt = t
                 /\ ~BoardingOrGone(row.flight, record'[row.flight], t)
                 /\ fix # "there"
    BY <1>4 DEF NoMootNotice, BoardingOrGone, BoardingOpens, BoardingLead
  <2>1. row \in owed /\ row.retry = t + Retry /\ ~row.confirmed
    BY <1>3
  <2>2. ASSUME row.event.reason = "time_to_leave"
        PROVE /\ record'[row.flight].polledAt = t
              /\ ~BoardingOrGone(row.flight, record'[row.flight], t)
    <3>1. row.flight \in answered /\ ~BoardingOrGone(row.flight, truth[row.flight], t)
      BY <1>6, <2>1, <2>2
    <3>2. record'[row.flight] = [status |-> truth[row.flight].status,
                                 slip |-> truth[row.flight].slip, polledAt |-> t]
      BY <1>2, <1>5, <3>1 DEF Polled
    <3> QED BY <3>1, <3>2 DEF BoardingOrGone, BoardingOpens
  <2> QED BY <1>6, <2>1, <2>2
<1> QED BY <1>7, <1>8, <1>9 DEF IInv

LEMMA KilledStep ==
  ASSUME IInv, NEW gap \in Gaps, Killed(gap)
  PROVE  IInv'
<1> DEFINE t == now + gap
           wanted == Wanted(Pruned(t), t)
<1>1. t \in Nat /\ now < t
  BY Later DEF IInv, Typed
<1>2. PICK done \in SUBSET wanted : \E reasons \in Prefixes :
        \E amid \in SUBSET wanted :
          /\ notices' = Offered(Pruned(t), PollOffers(Pruned(t), done, t) \cup
               {o \in PollOffers(Pruned(t), amid, t) : o.event.reason \in reasons}, t)
          /\ record' = [l \in Legs |-> IF l \in done THEN Polled(l, t) ELSE record[l]]
  BY DEF Killed
<1>3. now' = t /\ truth' = truth /\ sent' = {}
  BY DEF Killed, world
<1>4. \A row \in Pruned(t) : RowOk(row, now)
  BY DEF IInv, Pruned, Journal!Pruned
<1>5. wanted \subseteq Legs
  BY <1>4 DEF Wanted, DueLegs, Journal!RetryDueIds, Journal!Dependencies, RowOk
<1>6. Typed'
  BY <1>1, <1>2, <1>3, PolledTyped DEF IInv, Typed
<1>7. \A row \in notices' : RowOk(row, now')
  <2>0. PICK reasons \in Prefixes : \E amid \in SUBSET wanted :
          notices' = Offered(Pruned(t), PollOffers(Pruned(t), done, t) \cup
            {o \in PollOffers(Pruned(t), amid, t) : o.event.reason \in reasons}, t)
    BY <1>2
  <2>1. PICK amid \in SUBSET wanted :
          notices' = Offered(Pruned(t), PollOffers(Pruned(t), done, t) \cup
            {o \in PollOffers(Pruned(t), amid, t) : o.event.reason \in reasons}, t)
    BY <2>0
  <2> DEFINE offers == PollOffers(Pruned(t), done, t) \cup
                         {o \in PollOffers(Pruned(t), amid, t) : o.event.reason \in reasons}
  <2>2. \A o \in offers : OfferOk(o)
    BY <1>5, PollsOk
  <2>3. now \in Nat /\ Typed
    BY DEF IInv, Typed
  <2> HIDE DEF offers, t
  <2>4. \A row \in notices' : RowOk(row, now)
    BY <1>1, <1>4, <2>1, <2>2, <2>3, OfferedOk DEF offers
  <2> QED BY <1>1, <1>3, <2>3, <2>4, RowStays
<1> QED BY <1>3, <1>6, <1>7 DEF IInv, NoMootNotice

LEMMA Step == IInv /\ [Next]_vars => IInv'
<1> SUFFICES ASSUME IInv, [Next]_vars PROVE IInv'
  OBVIOUS
<1>1. ASSUME NEW gap \in Gaps, Cycle(gap) PROVE IInv'
  BY <1>1, CycleStep
<1>2. ASSUME NEW gap \in Gaps, Killed(gap) PROVE IInv'
  BY <1>2, KilledStep
<1>3. ASSUME NEW gap \in Gaps, Missed(gap) \/ OffTrip(gap) PROVE IInv'
  <2>1. now + gap \in Nat /\ now < now + gap
    BY Later DEF IInv, Typed
  <2>2. /\ now' = now + gap /\ sent' = {} /\ notices' = notices
        /\ record' = record /\ truth' = truth
    BY <1>3 DEF Missed, OffTrip, world
  <2> QED BY <2>1, <2>2, QuietStep DEF IInv, Typed
<1>4. ASSUME NEW l \in Legs, ByAirReports(l) PROVE IInv'
  <2>1. truth' \in [Legs -> [status : Statuses, slip : Nat]]
    <3>1. PICK status \in Reports[l] : \E slip \in Slips[l] :
            truth' = [truth EXCEPT ![l] = [status |-> status, slip |-> slip]]
      BY <1>4 DEF ByAirReports
    <3>2. PICK slip \in Slips[l] :
            truth' = [truth EXCEPT ![l] = [status |-> status, slip |-> slip]]
      BY <3>1
    <3>3. status \in Statuses /\ slip \in Nat
      BY PhasesAssumption
    <3> QED BY <3>2, <3>3 DEF IInv, Typed
  <2>2. now' = now /\ sent' = {} /\ notices' = notices /\ record' = record
    BY <1>4 DEF ByAirReports
  <2> QED BY <2>1, <2>2, QuietStep DEF IInv, Typed
<1>5. ASSUME TrafficChanges \/ OperatorMoves PROVE IInv'
  <2>1. /\ now' = now /\ sent' = {} /\ notices' = notices
        /\ record' = record /\ truth' = truth
    BY <1>5 DEF TrafficChanges, OperatorMoves
  <2> QED BY <2>1, QuietStep DEF IInv, Typed
<1>6. ASSUME UNCHANGED vars PROVE IInv'
  BY <1>6 DEF vars, world, IInv, Typed, NoMootNotice, BoardingOrGone, BoardingOpens, BoardingLead
<1> QED BY <1>1, <1>2, <1>3, <1>4, <1>5, <1>6 DEF Next

LEMMA Start == Init => IInv
BY PhasesAssumption DEF Init, IInv, Typed, NoMootNotice, Statuses

(* Whatever the flights, the cadences and the delays, and wherever a cycle
   dies or byAir fails: he is told to leave only on this cycle's answer, while
   the flight neither boards nor is gone and no fix puts him at the airport;
   nothing of a cancelled flight, and no day-before check after departure,
   reaches him. *)
THEOREM NothingMoot == Spec => []NoMootNotice
<1>1. IInv => NoMootNotice
  BY DEF IInv
<1> QED BY <1>1, Start, Step, PTL DEF Spec

-----------------------------------------------------------------------------
(* The phases have one row each: what an offer looks up.                     *)

LEMMA PreviousIs ==
  ASSUME NEW rows, NEW f, NEW e, e.reason \in Reasons, NEW m, \A row \in rows : RowOk(row, m)
  PROVE  Journal!Previous(rows, f, e, 0) =
           {row \in rows : row.flight = f /\ row.event.reason = e.reason}
<1> DEFINE same == {row \in rows : Journal!Key(row) = Journal!KeyOf(f, e, 0)}
<1>1. \A row \in rows : Journal!Key(row) = <<row.flight, row.event.reason>>
  BY DEF RowOk, Reasons, Journal!Key, Journal!KeyOf
<1>2. Journal!KeyOf(f, e, 0) = <<f, e.reason>>
  BY DEF Reasons, Journal!KeyOf
<1>3. same = {row \in rows : row.flight = f /\ row.event.reason = e.reason}
  BY <1>1, <1>2
<1>4. Journal!Previous(rows, f, e, 0) = same
  BY DEF Journal!Previous
<1> QED BY <1>3, <1>4

LEMMA OfferPrevious ==
  ASSUME NEW rows, NEW m, \A row \in rows : RowOk(row, m), NEW o, OfferOk(o)
  PROVE  Journal!Previous(rows, o.flight, o.event, 0) =
           {row \in rows : row.flight = o.flight /\ row.event.reason = o.event.reason}
BY PreviousIs DEF OfferOk

\* A row stays when nothing of its phase is offered for its flight.
LEMMA RowSurvives ==
  ASSUME NEW rows, NEW m, \A row \in rows : RowOk(row, m), NEW offers, \A o \in offers : OfferOk(o),
         NEW t, NEW row \in rows,
         \A o \in offers : ~(o.flight = row.flight /\ o.event.reason = row.event.reason)
  PROVE  row \in Offered(rows, offers, t)
<1> DEFINE fresh == {o \in offers :
                       ~Journal!OfferIgnored(rows, t, o.flight, o.event, 0, Expires(o, t))}
<1>1. ASSUME NEW o \in fresh PROVE row \notin Journal!Previous(rows, o.flight, o.event, 0)
  <2>1. OfferOk(o) /\ ~(o.flight = row.flight /\ o.event.reason = row.event.reason)
    OBVIOUS
  <2>2. Journal!Previous(rows, o.flight, o.event, 0) =
          {q \in rows : q.flight = o.flight /\ q.event.reason = o.event.reason}
    BY <2>1, OfferPrevious
  <2> QED BY <2>1, <2>2
<1> QED BY <1>1 DEF Offered

(* A retried notice was verified: the one that was tried before and has not   *)
(* lapsed is pending still, so whatever it rests on is asked for; and the      *)
(* same notice is not offered afresh beside it.                               *)
LEMMA CycleFresh ==
  ASSUME IInv, NEW gap \in Gaps, Cycle(gap), NEW row \in sent', NEW old \in notices,
         row.flight = old.flight, row.event = old.event, old.expires > now',
         NEW l \in Journal!Dependencies(row)
  PROVE  record'[l].polledAt = now'
<1> DEFINE t == now + gap
<1>1. t \in Nat /\ now < t /\ now' = t
  BY Later DEF IInv, Typed, Cycle
<1>2. PICK answered \in SUBSET Wanted(Pruned(t), t) :
        LET owed == DueJournal(Pruned(t), answered, Wanted(Pruned(t), t) \ answered, record', t) IN
        /\ record' = [k \in Legs |-> IF k \in answered THEN Polled(k, t) ELSE record[k]]
        /\ sent' \subseteq {s \in owed : s.retry = t + Retry /\ ~s.confirmed}
  BY CycleParts
<1>3. answered \in SUBSET Legs /\ \A r \in Pruned(t) : RowOk(r, now)
  BY WantedLegs
<1> DEFINE records == record'
<1>4. /\ row \in DueJournal(Pruned(t), answered, Wanted(Pruned(t), t) \ answered, records, t)
      /\ row.retry = t + Retry /\ ~row.confirmed
  BY <1>2
<1> HIDE DEF records, t
<1>5. PICK r \in AllRows(answered, records, t) : Origin(row, r, answered, records, t)
  BY <1>1, <1>4, OriginExists
<1>6. /\ row.flight = r.flight /\ row.event = r.event /\ RowOk(r, now)
      /\ r \in Pruned(t) => Journal!Dependencies(r) \subseteq answered
  BY <1>4, <1>5 DEF Origin
<1>7. Journal!Dependencies(row) = Journal!Dependencies(r)
  BY <1>6 DEF Journal!Dependencies
<1>8. Journal!Dependencies(r) \subseteq answered
  <2>1. CASE r \in Pruned(t)
    BY <1>6, <2>1
  <2>2. CASE r \in PollRows(answered, t) /\ r \notin Pruned(t)
    <3>1. \E o \in PollOffers(Pruned(t), answered, t) : r.flight = o.flight /\ r.event = o.event
      BY <2>2, OldOrFresh DEF PollRows
    <3> QED BY <1>3, <3>1, PollsOk DEF Journal!Dependencies
  <2>3. CASE r \notin PollRows(answered, t)
    <3>1. PICK o \in Risks(answered, records, t) :
            /\ r.flight = o.flight /\ r.event = o.event
            /\ ~Journal!OfferIgnored(PollRows(answered, t), t, o.flight, o.event, 0, Expires(o, t))
      BY <1>5, <2>3, OldOrFresh DEF AllRows
    <3>2. OfferOk(o) /\ o.event.reason = "connection_at_risk"
      BY <1>3, RisksOk DEF Risks
    <3>3. old \in Pruned(t) /\ ~Journal!Lapsed(old, t)
      <4>1. old.flight \in Legs /\ old.expires \in Nat
        BY DEF IInv, RowOk
      <4> QED BY <1>1, <4>1 DEF Pruned, Journal!Pruned, Journal!Lapsed
    <3>4. old \in PollRows(answered, t)
      <4>1. \A p \in PollOffers(Pruned(t), answered, t) :
              OfferOk(p) /\ p.event.reason # "connection_at_risk"
        BY <1>3, PollsOk
      <4>2. old.event.reason = "connection_at_risk"
        BY <1>6, <3>1, <3>2
      <4> DEFINE offers == PollOffers(Pruned(t), answered, t)
      <4> HIDE DEF offers
      <4>3. old \in Offered(Pruned(t), offers, t)
        <5>1. /\ \A p \in offers : OfferOk(p)
              /\ \A p \in offers : ~(p.flight = old.flight /\ p.event.reason = old.event.reason)
          BY <4>1, <4>2 DEF offers
        <5> QED BY <1>3, <3>3, <5>1, RowSurvives
      <4> QED BY <4>3 DEF PollRows, offers
    <3>5. old \in Journal!Previous(PollRows(answered, t), o.flight, o.event, 0)
      <4>1. \A q \in PollRows(answered, t) : RowOk(q, now)
        BY <1>1, RowsOk
      <4>2. Journal!Previous(PollRows(answered, t), o.flight, o.event, 0) =
              {q \in PollRows(answered, t) :
                 q.flight = o.flight /\ q.event.reason = o.event.reason}
        BY <3>2, <4>1, OfferPrevious
      <4> QED BY <1>6, <3>1, <3>4, <4>2
    <3>6. Expires(o, t) = t + Life /\ Life \in Nat \ {0}
      BY <3>2, PhasesAssumption DEF Expires
    <3>7. ~(Expires(o, t) <= t) /\ old.event = o.event
      BY <1>1, <1>6, <3>1, <3>6
    <3> QED BY <3>1, <3>3, <3>5, <3>7 DEF Journal!OfferIgnored
  <2> QED BY <2>1, <2>2, <2>3
<1> QED BY <1>1, <1>2, <1>3, <1>7, <1>8 DEF Polled, records, t

(* What is sent again before it lapses rests on answers of this very cycle,   *)
(* whatever the flights, the retry and the lives of the notices.              *)
THEOREM RetriesAreVerified == Spec => RetryIsFresh
<1> DEFINE A == \A row \in sent', old \in notices :
                  /\ row.flight = old.flight /\ row.event = old.event
                  /\ old.retry > 0 /\ old.expires > now'
                  => \A l \in {row.flight} \cup
                       IF row.event.reason = "connection_at_risk" THEN {row.event.leg1} ELSE {} :
                     record'[l].polledAt = now'
<1>1. IInv /\ Next => A
  <2> SUFFICES ASSUME IInv, Next PROVE A
    OBVIOUS
  <2>1. ASSUME NEW gap \in Gaps, Cycle(gap) PROVE A
    BY <2>1, CycleFresh DEF Journal!Dependencies
  <2>2. ASSUME NEW gap \in Gaps, Killed(gap) \/ Missed(gap) \/ OffTrip(gap) PROVE A
    BY <2>2 DEF Killed, Missed, OffTrip
  <2>3. ASSUME NEW l \in Legs, ByAirReports(l) PROVE A
    BY <2>3 DEF ByAirReports
  <2>4. CASE TrafficChanges \/ OperatorMoves
    BY <2>4 DEF TrafficChanges, OperatorMoves
  <2> HIDE DEF A
  <2> QED BY <2>1, <2>2, <2>3, <2>4, Zenon DEF Next
<1>2. IInv /\ [Next]_vars => [A]_vars
  BY <1>1
<1> HIDE DEF A
<1>3. Spec => [][A]_vars
  BY <1>2, Start, Step, PTL DEF Spec
<1> QED BY <1>3 DEF RetryIsFresh, A

-----------------------------------------------------------------------------
(* Who is late, and what he is told at the crossing of leave-by.             *)

LEMMA IntervalType ==
  ASSUME NEW status \in Statuses, NEW l, NEW t
  PROVE  Interval(status, l, t) \in Nat \ {0}
BY PhasesAssumption DEF Interval

\* The cadence only tightens, so a flight that is due stays due.
LEMMA IntervalTightens ==
  ASSUME NEW status \in Statuses, NEW l \in Legs, NEW s \in Nat, NEW t \in Nat, s <= t
  PROVE  Interval(status, l, t) <= Interval(status, l, s)
<1>1. Dep[l] \in Nat /\ Arr[l] \in Nat /\ NearWindow \in Nat /\ FinalWindow \in Nat
  BY PhasesAssumption
<1>2. Near \in Nat /\ Final \in Nat /\ Base[status] \in Nat
  BY PhasesAssumption
<1>3. Near <= Base["scheduled"] /\ Final <= Base["en_route"]
  BY PhasesAssumption
<1>4. CASE status = "scheduled"
  BY <1>1, <1>2, <1>3, <1>4 DEF Interval
<1>5. CASE status = "en_route"
  BY <1>1, <1>2, <1>3, <1>5 DEF Interval
<1>6. CASE status \notin {"scheduled", "en_route"}
  BY <1>2, <1>6 DEF Interval
<1> QED BY <1>4, <1>5, <1>6

LEMMA DueStays ==
  ASSUME Typed, NEW l \in Legs, NEW s \in Nat, NEW t \in Nat, s <= t, DueForPoll(l, s)
  PROVE  DueForPoll(l, t)
<1>1. Dep[l] \in Nat /\ Horizon \in Nat
  BY PhasesAssumption
<1>2. record[l].status \in Statuses \cup {None} /\ record[l].polledAt \in Nat
  BY DEF Typed
<1>3. Dep[l] - t <= Horizon
  BY <1>1 DEF DueForPoll
<1>4. CASE record[l].status = None
  BY <1>3, <1>4 DEF DueForPoll
<1>5. CASE record[l].status \in Statuses
  <2> DEFINE early == Interval(record[l].status, l, s)
             later == Interval(record[l].status, l, t)
  <2>1. early \in Nat /\ later \in Nat /\ later <= early
    BY <1>5, IntervalType, IntervalTightens
  <2>2. record[l].status # None
    BY <1>5, PhasesAssumption
  <2>3. s - record[l].polledAt >= early
    BY <2>2 DEF DueForPoll
  <2> HIDE DEF early, later
  <2>4. t - record[l].polledAt >= later
    BY <1>2, <2>1, <2>3
  <2> QED BY <1>3, <2>4 DEF DueForPoll, later
<1> QED BY <1>2, <1>4, <1>5

\* A flight is late exactly if a poll its cadence called for is missing.
Timed ==
  /\ travel \in Travels \cup {None}
  /\ late \subseteq Legs
  /\ \A l \in Legs :
       /\ record[l].polledAt <= now
       /\ record[l].status = None => record[l].slip = 0
       /\ l \in late => DueForPoll(l, now)
       /\ l \notin late => record[l].status = None \/ ~DueForPoll(l, now)

LEMMA TimedStart == Init => Timed
BY PhasesAssumption DEF Init, Timed

\* Some flights are polled at t, nothing else is written.
LEMMA TimedPolls ==
  ASSUME Typed, Timed, NEW t \in Nat, now < t, NEW done \in SUBSET Legs,
         record' = [l \in Legs |-> IF l \in done THEN Polled(l, t) ELSE record[l]],
         late' = (late \cup DueLegs(t)) \ done, now' = t, travel' = travel
  PROVE  Timed'
<1>1. now \in Nat
  BY DEF Typed
<1>2. late' \subseteq Legs
  BY DEF DueLegs, Timed
<1>3. ASSUME NEW l \in Legs
      PROVE  /\ record'[l].polledAt <= t
             /\ record'[l].status = None => record'[l].slip = 0
             /\ l \in late' => DueForPoll(l, t)'
             /\ l \notin late' => record'[l].status = None \/ ~DueForPoll(l, t)'
  <2>1. CASE l \in done
    <3>1. /\ record'[l].status = truth[l].status /\ record'[l].polledAt = t
          /\ truth[l].status \in Statuses /\ None \notin Statuses /\ l \notin late'
      BY <2>1, PhasesAssumption DEF Polled, Typed
    <3> DEFINE every == Interval(truth[l].status, l, t)
    <3>2. every \in Nat \ {0}
      BY <3>1, IntervalType
    <3> HIDE DEF every
    <3>3. ~(t - t >= every)
      BY <3>2
    <3>4. ~DueForPoll(l, t)'
      BY <3>1, <3>3 DEF DueForPoll, every, Interval
    <3> QED BY <3>1, <3>4
  <2>2. CASE l \notin done
    <3>1. record'[l] = record[l] /\ (l \in late' <=> l \in late \/ DueForPoll(l, t))
      BY <2>2 DEF DueLegs
    <3>2. DueForPoll(l, t)' <=> DueForPoll(l, t)
      BY <3>1 DEF DueForPoll, Interval
    <3>3. l \in late => DueForPoll(l, t)
      BY <1>1, DueStays DEF Timed
    <3>4. record[l].polledAt \in Nat
      BY DEF Typed
    <3> QED BY <1>1, <3>1, <3>2, <3>3, <3>4 DEF Timed
  <2> QED BY <2>1, <2>2
<1>4. \A l \in Legs : DueForPoll(l, now)' <=> DueForPoll(l, t)'
  BY DEF DueForPoll, Interval
<1> QED BY <1>2, <1>3, <1>4 DEF Timed

LEMMA KilledParts ==
  ASSUME IInv, NEW gap \in Gaps, Killed(gap)
  PROVE  \E done \in SUBSET Legs :
           LET t == now + gap IN
           /\ record' = [l \in Legs |-> IF l \in done THEN Polled(l, t) ELSE record[l]]
           /\ late' = (late \cup DueLegs(t)) \ done
           /\ \E offers \in SUBSET PollOffers(Pruned(t), Legs, t) :
                /\ PollOffers(Pruned(t), done, t) \subseteq offers
                /\ notices' = Offered(Pruned(t), offers, t)
<1> DEFINE t == now + gap
           wanted == Wanted(Pruned(t), t)
<1>1. PICK done \in SUBSET wanted : \E reasons \in Prefixes :
        \E amid \in {amid \in SUBSET (wanted \ done) : Cardinality(amid) <= 1} :
          /\ notices' = Offered(Pruned(t), PollOffers(Pruned(t), done, t) \cup
               {o \in PollOffers(Pruned(t), amid, t) : o.event.reason \in reasons}, t)
          /\ record' = [l \in Legs |-> IF l \in done THEN Polled(l, t) ELSE record[l]]
          /\ late' = (late \cup DueLegs(t)) \ done
  BY DEF Killed
<1>2. PICK reasons \in Prefixes :
        \E amid \in {amid \in SUBSET (wanted \ done) : Cardinality(amid) <= 1} :
          /\ notices' = Offered(Pruned(t), PollOffers(Pruned(t), done, t) \cup
               {o \in PollOffers(Pruned(t), amid, t) : o.event.reason \in reasons}, t)
          /\ record' = [l \in Legs |-> IF l \in done THEN Polled(l, t) ELSE record[l]]
          /\ late' = (late \cup DueLegs(t)) \ done
  BY <1>1
<1>3. PICK amid \in {amid \in SUBSET (wanted \ done) : Cardinality(amid) <= 1} :
          /\ notices' = Offered(Pruned(t), PollOffers(Pruned(t), done, t) \cup
               {o \in PollOffers(Pruned(t), amid, t) : o.event.reason \in reasons}, t)
          /\ record' = [l \in Legs |-> IF l \in done THEN Polled(l, t) ELSE record[l]]
          /\ late' = (late \cup DueLegs(t)) \ done
  BY <1>2
<1>4. wanted \subseteq Legs
  BY WantedLegs
<1> DEFINE offers == PollOffers(Pruned(t), done, t) \cup
                       {o \in PollOffers(Pruned(t), amid, t) : o.event.reason \in reasons}
<1>5. offers \in SUBSET PollOffers(Pruned(t), Legs, t)
  <2>1. done \subseteq Legs /\ amid \subseteq Legs
    BY <1>4
  <2> HIDE DEF t, wanted
  <2> QED BY <2>1 DEF PollOffers
<1>6. PollOffers(Pruned(t), done, t) \subseteq offers /\ done \in SUBSET Legs
  BY <1>4
<1>7. notices' = Offered(Pruned(t), offers, t)
  BY <1>3
<1> HIDE DEF offers
<1> QED BY <1>3, <1>5, <1>6, <1>7

LEMMA TimedStep == IInv /\ Timed /\ [Next]_vars => Timed'
<1> SUFFICES ASSUME IInv, Timed, [Next]_vars PROVE Timed'
  OBVIOUS
<1>0. Typed /\ now \in Nat
  BY DEF IInv, Typed
<1>1. ASSUME NEW gap \in Gaps, Cycle(gap) PROVE Timed'
  <2> DEFINE t == now + gap
  <2>1. t \in Nat /\ now < t /\ now' = t /\ travel' = travel
    BY <1>0, <1>1, Later DEF Cycle, world
  <2>2. PICK answered \in SUBSET Wanted(Pruned(t), t) :
          /\ record' = [l \in Legs |-> IF l \in answered THEN Polled(l, t) ELSE record[l]]
          /\ late' = (late \cup DueLegs(t)) \ answered
    BY <1>1, CycleParts
  <2>3. answered \in SUBSET Legs
    BY WantedLegs
  <2> HIDE DEF t
  <2> QED BY <1>0, <2>1, <2>2, <2>3, TimedPolls
<1>2. ASSUME NEW gap \in Gaps, Killed(gap) PROVE Timed'
  <2> DEFINE t == now + gap
  <2>1. t \in Nat /\ now < t /\ now' = t /\ travel' = travel
    BY <1>0, <1>2, Later DEF Killed, world
  <2>2. PICK done \in SUBSET Legs :
          /\ record' = [l \in Legs |-> IF l \in done THEN Polled(l, t) ELSE record[l]]
          /\ late' = (late \cup DueLegs(t)) \ done
    BY <1>2, KilledParts
  <2> HIDE DEF t
  <2> QED BY <1>0, <2>1, <2>2, TimedPolls
<1>3. ASSUME NEW gap \in Gaps, Missed(gap) \/ OffTrip(gap) PROVE Timed'
  <2> DEFINE t == now + gap
  <2>1. /\ t \in Nat /\ now < t /\ now' = t /\ travel' = travel
        /\ record' = record /\ late' = late \cup DueLegs(t)
    BY <1>0, <1>3, Later DEF Missed, OffTrip, world
  <2> DEFINE nobody == {}
  <2> HIDE DEF t
  <2>2. record' = [l \in Legs |-> IF l \in nobody THEN Polled(l, t) ELSE record[l]]
    BY <1>0, <2>1 DEF Typed
  <2>3. late' = (late \cup DueLegs(t)) \ nobody /\ nobody \in SUBSET Legs
    BY <2>1
  <2> HIDE DEF nobody
  <2> QED BY <1>0, <2>1, <2>2, <2>3, TimedPolls
<1>4. CASE /\ UNCHANGED <<now, record, late>> /\ travel' \in Travels \cup {None}
  <2>1. \A l \in Legs : DueForPoll(l, now)' <=> DueForPoll(l, now)
    BY <1>4 DEF DueForPoll, Interval
  <2> QED BY <1>4, <2>1 DEF Timed
<1>5. ASSUME NEW l \in Legs, ByAirReports(l) PROVE Timed'
  BY <1>4, <1>5 DEF ByAirReports, Timed
<1>6. CASE TrafficChanges \/ OperatorMoves \/ UNCHANGED vars
  BY <1>4, <1>6 DEF TrafficChanges, OperatorMoves, vars, world, Timed
<1> QED BY <1>1, <1>2, <1>3, <1>5, <1>6 DEF Next

\* One offer for a flight and a phase at a time.
OneOffer(offers) ==
  \A a, b \in offers : a.flight = b.flight /\ a.event.reason = b.event.reason => a = b

LEMMA PollsOffer ==
  ASSUME NEW rows, NEW polled, NEW t, NEW o \in PollOffers(rows, polled, t)
  PROVE  \E l \in polled : \E e \in FlightEvents(rows, l, truth[l], t) : o = [flight |-> l, event |-> e]
BY DEF PollOffers

LEMMA PollsOfferOnce ==
  ASSUME NEW rows, NEW polled, NEW t
  PROVE  OneOffer(PollOffers(rows, polled, t))
<1> SUFFICES ASSUME NEW a \in PollOffers(rows, polled, t), NEW b \in PollOffers(rows, polled, t),
                    a.flight = b.flight, a.event.reason = b.event.reason
             PROVE  a = b
  BY DEF OneOffer
<1>1. PICK l \in polled : \E e \in FlightEvents(rows, l, truth[l], t) : a = [flight |-> l, event |-> e]
  BY PollsOffer
<1>2. PICK e \in FlightEvents(rows, l, truth[l], t) : a = [flight |-> l, event |-> e]
  BY <1>1
<1>3. PICK k \in polled : \E g \in FlightEvents(rows, k, truth[k], t) : b = [flight |-> k, event |-> g]
  BY PollsOffer
<1>4. PICK g \in FlightEvents(rows, k, truth[k], t) : b = [flight |-> k, event |-> g]
  BY <1>3
<1>5. k = l /\ e.reason = g.reason
  BY <1>2, <1>4
<1> DEFINE leave == LeaveNotice(LeaveBy(l), t > TimelyUntil(l, truth[l], t))
<1>6. e \in {DayBeforeNotice, ArrivalNotice, leave} /\ g \in {DayBeforeNotice, ArrivalNotice, leave}
  BY <1>5 DEF FlightEvents, DayBeforeEvents, LeaveEvents, ArrivalEvents
<1>7. /\ DayBeforeNotice.reason = "day_before" /\ ArrivalNotice.reason = "arrival_logistics"
      /\ leave.reason = "time_to_leave"
  BY DEF DayBeforeNotice, ArrivalNotice, LeaveNotice
<1> HIDE DEF leave
<1>8. e = g
  BY <1>5, <1>6, <1>7
<1> QED BY <1>2, <1>4, <1>5, <1>8

\* What is offered is in the journal afterwards: afresh, as it was, or delivered.
LEMMA OfferLands ==
  ASSUME NEW rows, NEW m, \A row \in rows : RowOk(row, m),
         NEW offers, \A o \in offers : OfferOk(o), OneOffer(offers),
         NEW t \in Nat, NEW o \in offers, Expires(o, t) \in Nat, t < Expires(o, t)
  PROVE  \E q \in Offered(rows, offers, t) :
           /\ q.flight = o.flight /\ q.event.reason = o.event.reason
           /\ q.confirmed \/ ~Journal!Lapsed(q, t)
<1> DEFINE fresh == {p \in offers :
                       ~Journal!OfferIgnored(rows, t, p.flight, p.event, 0, Expires(p, t))}
<1>1. CASE o \in fresh
  <2> DEFINE q == Journal!NewRow(rows, t, o.flight, o.event, 0, Expires(o, t))
  <2>1. q.flight = o.flight /\ q.event = o.event /\ q.expires = Expires(o, t)
    BY DEF Journal!NewRow
  <2>2. q \in Offered(rows, offers, t)
    BY <1>1 DEF Offered
  <2> HIDE DEF q
  <2> QED BY <2>1, <2>2 DEF Journal!Lapsed
<1>2. CASE o \notin fresh
  <2>1. PICK q \in Journal!Previous(rows, o.flight, o.event, 0) :
          q.confirmed \/ (q.event = o.event /\ ~Journal!Lapsed(q, t))
    BY <1>2 DEF Journal!OfferIgnored
  <2>2. q \in rows /\ q.flight = o.flight /\ q.event.reason = o.event.reason
    <3>1. Journal!Previous(rows, o.flight, o.event, 0) =
            {r \in rows : r.flight = o.flight /\ r.event.reason = o.event.reason}
      BY OfferPrevious
    <3> QED BY <2>1, <3>1
  <2>3. ASSUME NEW p \in fresh PROVE q \notin Journal!Previous(rows, p.flight, p.event, 0)
    <3>1. Journal!Previous(rows, p.flight, p.event, 0) =
            {r \in rows : r.flight = p.flight /\ r.event.reason = p.event.reason}
      BY OfferPrevious
    <3>2. ~(p.flight = o.flight /\ p.event.reason = o.event.reason)
      BY <1>2 DEF OneOffer
    <3> QED BY <2>2, <3>1, <3>2
  <2>4. q \in Offered(rows, offers, t)
    BY <2>2, <2>3 DEF Offered
  <2> QED BY <2>1, <2>2, <2>4
<1> QED BY <1>1, <1>2

\* The notices of a cycle at t in which these flights were polled to the end.
OffersOf(done, offers, t) ==
  /\ done \subseteq Legs
  /\ PollOffers(Pruned(t), done, t) \subseteq offers
  /\ offers \subseteq PollOffers(Pruned(t), Legs, t)

\* The leave-by alert of a flight, delivered before or offered by its poll.
AlertOf(q, l, done, t) ==
  /\ q.flight = l /\ q.event.reason = "time_to_leave"
  /\ \/ q.confirmed
     \/ ~Journal!Lapsed(q, t) /\ \E o \in PollOffers(Pruned(t), done, t) :
                                   o.flight = l /\ o.event.reason = "time_to_leave"
Alerted(l, done, offers, t) ==
  \E q \in Offered(Pruned(t), offers, t) : AlertOf(q, l, done, t)

\* A leave-by alert that a poll raises, or that was delivered before, is in the
\* journal once the polls' notices are offered.
LEMMA AlertLands ==
  ASSUME IInv, NEW t \in Nat, NEW done, NEW offers, OffersOf(done, offers, t),
         NEW l \in done, LeaveEvents(l, truth[l], t) # {}
  PROVE  Alerted(l, done, offers, t)
<1>0. /\ Typed /\ (\A row \in Pruned(t) : RowOk(row, now)) /\ done \subseteq Legs
      /\ offers \subseteq PollOffers(Pruned(t), Legs, t)
      /\ PollOffers(Pruned(t), done, t) \subseteq offers
  BY WantedLegs DEF IInv, OffersOf
<1>1. \A o \in offers : OfferOk(o)
  BY <1>0, PollsOk
<1>2. OneOffer(offers)
  BY <1>0, PollsOfferOnce DEF OneOffer
<1>3. PICK e \in LeaveEvents(l, truth[l], t) : e.reason = "time_to_leave"
  BY DEF LeaveEvents, LeaveNotice
<1>4. CASE "time_to_leave" \in Fired(Pruned(t), l)
  <2>1. PICK row \in Pruned(t) :
          row.flight = l /\ row.confirmed /\ row.event.reason = "time_to_leave"
    BY <1>4 DEF Fired
  <2>2. ASSUME NEW o \in offers, o.flight = row.flight, o.event.reason = row.event.reason
        PROVE  FALSE
    <3>1. PICK k \in Legs : \E g \in FlightEvents(Pruned(t), k, truth[k], t) :
                              o = [flight |-> k, event |-> g]
      BY <1>0, PollsOffer
    <3>2. k = l /\ o.event.reason \notin Fired(Pruned(t), l)
      BY <2>1, <2>2, <3>1 DEF FlightEvents
    <3> QED BY <1>4, <2>1, <2>2, <3>2
  <2>3. row \in Offered(Pruned(t), offers, t)
    BY <1>0, <1>1, <2>2, RowSurvives
  <2> QED BY <2>1, <2>3 DEF Alerted, AlertOf
<1>5. CASE "time_to_leave" \notin Fired(Pruned(t), l)
  <2> DEFINE o == [flight |-> l, event |-> e]
  <2>1. e \in FlightEvents(Pruned(t), l, truth[l], t)
    BY <1>3, <1>5 DEF FlightEvents
  <2>2. o \in PollOffers(Pruned(t), done, t)
    BY <2>1 DEF PollOffers
  <2>3. o \in offers /\ o.flight = l /\ o.event.reason = "time_to_leave"
    BY <1>0, <1>3, <2>2
  <2> HIDE DEF o
  <2>4. Expires(o, t) = t + Life /\ Life \in Nat \ {0}
    BY <2>3, PhasesAssumption DEF Expires
  <2>5. \E q \in Offered(Pruned(t), offers, t) :
          /\ q.flight = o.flight /\ q.event.reason = o.event.reason
          /\ q.confirmed \/ ~Journal!Lapsed(q, t)
    <3>1. Expires(o, t) \in Nat /\ t < Expires(o, t)
      BY <2>4
    <3> DEFINE rows == Pruned(t)
    <3>2. \A row \in rows : RowOk(row, now)
      BY <1>0
    <3> HIDE DEF rows
    <3>3. \E q \in Offered(rows, offers, t) :
            /\ q.flight = o.flight /\ q.event.reason = o.event.reason
            /\ q.confirmed \/ ~Journal!Lapsed(q, t)
      BY <1>1, <1>2, <2>3, <3>1, <3>2, OfferLands
    <3> QED BY <3>3 DEF rows
  <2> QED BY <2>2, <2>3, <2>5 DEF Alerted, AlertOf
<1> QED BY <1>4, <1>5

(* No drive is so long that leave-by comes before the cadence has tightened:  *)
(* else the poll that crosses it may have been spaced by the wider cadence.    *)
DrivesFitNearWindow == \A d \in Travels : d + Buffer + SchedulerTick <= NearWindow

\* The poll that crosses leave-by is in time, if none was missed.
LEMMA CrossingIsTimely ==
  ASSUME Typed, Timed, DrivesFitNearWindow,
         NEW gap \in Gaps, NEW t \in Nat, t = now + gap, NEW l \in Legs, l \notin late, NEW snap,
         record[l].status # None, PreDeparture(record[l].status), RouteKnown(l, t),
         record[l].polledAt < LeaveBy(l), LeaveBy(l) <= t
  PROVE  t <= TimelyUntil(l, snap, t)
<1> DEFINE status == record[l].status
           p == record[l].polledAt
           by == LeaveBy(l)
           before == Interval(status, l, now)
           spaced == Interval(status, l, t)
<1>1. /\ now \in Nat /\ p \in Nat /\ status \in Statuses /\ gap \in Nat /\ gap <= SchedulerTick
      /\ SchedulerTick \in Nat /\ Dep[l] \in Nat /\ QueryWindow \in Nat /\ Horizon \in Nat
      /\ NearWindow \in Nat /\ Buffer \in Nat
  BY PhasesAssumption DEF Typed
<1>2. before \in Nat \ {0} /\ spaced \in Nat \ {0}
  BY <1>1, IntervalType
<1>3. travel \in Travels /\ travel \in Nat /\ by = Dep[l] - travel - Buffer /\ by \in Int
  <2>1. travel \in Travels
    BY DEF RouteKnown, Timed
  <2>2. travel \in Nat
    BY <2>1, PhasesAssumption
  <2>3. by = Dep[l] - travel - Buffer
    BY DEF LeaveBy
  <2> HIDE DEF by
  <2> QED BY <1>1, <2>1, <2>2, <2>3
<1>4. now - p < before
  <2>1. Dep[l] - now <= Horizon
    BY <1>1, PhasesAssumption DEF RouteKnown
  <2>2. ~DueForPoll(l, now)
    BY DEF Timed
  <2>3. ~(now - p >= before)
    BY <2>1, <2>2 DEF DueForPoll
  <2> HIDE DEF p, before
  <2> QED BY <1>1, <1>2, <2>3
<1>5. before = spaced
  <2>1. CASE status = "scheduled"
    <3>1. travel + Buffer + SchedulerTick <= NearWindow
      BY <1>3 DEF DrivesFitNearWindow
    <3>2. Dep[l] - now <= NearWindow /\ Dep[l] - t <= NearWindow
      <4> HIDE DEF by
      <4> QED BY <1>1, <1>3, <3>1 DEF by
    <3> QED BY <2>1, <3>2 DEF Interval
  <2>2. CASE status # "scheduled"
    <3>1. status # "en_route"
      BY DEF PreDeparture
    <3> QED BY <2>2, <3>1 DEF Interval
  <2> QED BY <2>1, <2>2
<1>6. PriorCadence(l, snap, t) = spaced
  BY DEF PriorCadence
<1> HIDE DEF status, p, by, before, spaced
<1>7. by < p + spaced + SchedulerTick /\ t <= p + spaced + SchedulerTick
  BY <1>1, <1>2, <1>3, <1>4, <1>5 DEF by
<1>8. TimelyUntil(l, snap, t) = p + spaced + SchedulerTick
  BY <1>2, <1>6, <1>7 DEF TimelyUntil, p, by
<1> QED BY <1>7, <1>8

\* A poll that crosses leave-by in time leaves the alert in the journal.
LEMMA CrossingTells ==
  ASSUME IInv, Timed, DrivesFitNearWindow, Next,
         NEW l \in Legs, now' > now, record'[l].polledAt = now',
         record[l].status # None, PreDeparture(record[l].status), l \notin late,
         RouteKnown(l, now'), ~BoardingOrGone(l, record'[l], now'), fix # "there",
         record[l].polledAt < LeaveBy(l), LeaveBy(l) <= now'
  PROVE  \E row \in notices' : row.flight = l /\ row.event.reason = "time_to_leave"
<1>1. Typed /\ now \in Nat /\ record[l].polledAt \in Nat /\ record[l].polledAt <= now
  BY DEF IInv, Typed, Timed
<1>2. PICK gap \in Gaps : Cycle(gap) \/ Killed(gap) \/ Missed(gap) \/ OffTrip(gap)
  <2>1. ASSUME NEW k \in Legs, ByAirReports(k) PROVE FALSE
    BY <1>1, <2>1 DEF ByAirReports
  <2>2. ~TrafficChanges /\ ~OperatorMoves
    BY <1>1 DEF TrafficChanges, OperatorMoves
  <2> QED BY <2>1, <2>2 DEF Next
<1> DEFINE t == now + gap
<1>3. t \in Nat /\ now < t /\ now' = t /\ travel' = travel
  BY <1>1, <1>2, Later DEF Cycle, Killed, Missed, OffTrip, world
<1>4. record'[l] # record[l]
  BY <1>1, <1>3
<1>5. ~Missed(gap) /\ ~OffTrip(gap)
  BY <1>4 DEF Missed, OffTrip
<1>6. t <= TimelyUntil(l, truth[l], t)
  <2>1. RouteKnown(l, t)
    BY <1>3
  <2>2. LeaveBy(l) <= t
    BY <1>3
  <2> HIDE DEF t
  <2> QED BY <1>1, <1>3, <2>1, <2>2, CrossingIsTimely DEF t
<1>7. ASSUME record'[l] = Polled(l, t)
      PROVE  LeaveEvents(l, truth[l], t) # {} /\ record'[l].status # "cancelled"
  <2>1. record'[l].status = truth[l].status /\ record'[l].slip = truth[l].slip
    BY <1>7 DEF Polled
  <2>2. ~BoardingOrGone(l, truth[l], t)
    BY <1>3, <2>1 DEF BoardingOrGone, BoardingOpens
  <2>3. record'[l].status # "cancelled"
    BY <1>3, <2>1, <2>2 DEF BoardingOrGone
  <2>4. t >= LeaveBy(l) /\ ~(t > TimelyUntil(l, truth[l], t)) /\ RouteKnown(l, t)
    <3>1. TimelyUntil(l, truth[l], t) \in Int
      <4>1. travel \in Nat /\ Dep[l] \in Nat /\ Buffer \in Nat
        BY PhasesAssumption DEF RouteKnown, Timed
      <4>2. LeaveBy(l) \in Int
        BY <4>1 DEF LeaveBy
      <4>3. PriorCadence(l, truth[l], t) \in Nat
        BY <1>1, IntervalType DEF PriorCadence, Typed
      <4> QED BY <1>1, <4>2, <4>3, PhasesAssumption DEF TimelyUntil
    <3>2. t >= LeaveBy(l) /\ RouteKnown(l, t)
      BY <1>3
    <3> HIDE DEF t
    <3> QED BY <1>3, <1>6, <3>1, <3>2
  <2> HIDE DEF t
  <2> QED BY <2>2, <2>3, <2>4 DEF LeaveEvents
<1>8. CASE Killed(gap)
  <2>1. PICK done \in SUBSET Legs :
          /\ record' = [k \in Legs |-> IF k \in done THEN Polled(k, t) ELSE record[k]]
          /\ \E offers \in SUBSET PollOffers(Pruned(t), Legs, t) :
               /\ PollOffers(Pruned(t), done, t) \subseteq offers
               /\ notices' = Offered(Pruned(t), offers, t)
    BY <1>8, KilledParts
  <2>2. PICK offers \in SUBSET PollOffers(Pruned(t), Legs, t) :
               /\ PollOffers(Pruned(t), done, t) \subseteq offers
               /\ notices' = Offered(Pruned(t), offers, t)
    BY <2>1
  <2>3. l \in done /\ record'[l] = Polled(l, t)
    BY <1>4, <2>1
  <2>4. LeaveEvents(l, truth[l], t) # {} /\ OffersOf(done, offers, t)
    BY <1>7, <2>2, <2>3 DEF OffersOf
  <2> HIDE DEF t
  <2>5. Alerted(l, done, offers, t)
    BY <1>3, <2>3, <2>4, AlertLands
  <2> QED BY <2>2, <2>5 DEF Alerted, AlertOf
<1>9. CASE Cycle(gap)
  <2>1. PICK answered \in SUBSET Wanted(Pruned(t), t) :
          LET owed == DueJournal(Pruned(t), answered, Wanted(Pruned(t), t) \ answered, record', t)
              ready == {row \in owed : row.retry = t + Retry /\ ~row.confirmed} IN
          /\ record' = [k \in Legs |-> IF k \in answered THEN Polled(k, t) ELSE record[k]]
          /\ \E acked \in SUBSET ready : notices' = Acknowledged(owed, acked)
    BY <1>9, CycleParts
  <2>2. answered \in SUBSET Legs
    BY WantedLegs
  <2>3. l \in answered /\ record'[l] = Polled(l, t)
    BY <1>4, <2>1
  <2> DEFINE records == record'
             kept == KeptRows(answered, records, t)
             failed == Wanted(Pruned(t), t) \ answered
             offers == PollOffers(Pruned(t), answered, t)
  <2>4. PICK q \in PollRows(answered, t) :
           /\ q.flight = l /\ q.event.reason = "time_to_leave"
           /\ \/ q.confirmed
              \/ ~Journal!Lapsed(q, t) /\ \E o \in offers : o.flight = l /\ o.event.reason = "time_to_leave"
    <3>1. OffersOf(answered, offers, t)
      BY <2>2 DEF PollOffers, OffersOf
    <3>2. LeaveEvents(l, truth[l], t) # {} /\ t \in Nat
      BY <1>3, <1>7, <2>3
    <3> HIDE DEF t, offers
    <3>3. Alerted(l, answered, offers, t)
      BY <2>3, <3>1, <3>2, AlertLands
    <3> QED BY <3>3 DEF Alerted, AlertOf, PollRows, offers
  <2> HIDE DEF t, records
  <2>5. q \in AllRows(answered, records, t)
    <3>1. \A r \in PollRows(answered, t) : RowOk(r, now)
      BY <1>3, RowsOk
    <3>2. \A o \in Risks(answered, records, t) :
            OfferOk(o) /\ ~(o.flight = q.flight /\ o.event.reason = q.event.reason)
      BY <2>4, RisksOk DEF Risks
    <3> DEFINE rows == PollRows(answered, t)
               risks == Risks(answered, records, t)
    <3>3. q \in rows /\ \A r \in rows : RowOk(r, now)
      BY <3>1
    <3>4. \A o \in risks : OfferOk(o) /\ ~(o.flight = q.flight /\ o.event.reason = q.event.reason)
      BY <3>2
    <3> HIDE DEF rows, risks
    <3>5. q \in Offered(rows, risks, t)
      BY <3>3, <3>4, RowSurvives
    <3> QED BY <3>5 DEF AllRows, rows, risks
  <2>6. q \in kept
    <3>1. CASE q.confirmed
      BY <2>5, <3>1 DEF KeptRows, Journal!Reconciled
    <3>2. CASE ~q.confirmed
      <4>1. <<q.flight, q.event.reason>> \in Phases(answered, records, t)
        BY <2>4, <3>2 DEF Phases
      <4>2. <<q.flight, q.event>> \in Upheld(AllRows(answered, records, t), records)
        BY <1>7, <2>3, <2>4, <2>5 DEF Upheld, records
      <4> QED BY <2>5, <4>1, <4>2 DEF KeptRows, Journal!Reconciled
    <3> QED BY <3>1, <3>2
  <2>7. q \in Journal!DueKept(kept, Legs, {}, t)
    BY <2>4, <2>6 DEF Journal!DueKept, Journal!Dependencies
  <2>8. RowOk(q, now)
    BY <1>3, <2>5, RowsOk
  <2>9. \E s \in Journal!DueRows(kept, Legs, failed, {}, t) :
           s.flight = l /\ s.event.reason = "time_to_leave" /\ Shape(s)
    <3> HIDE DEF kept, failed
    <3>1. CASE q \in Journal!DueReady(kept, Legs, failed, {}, t)
      <4> DEFINE at == t + Retry
                 s == [q EXCEPT !.retry = at]
      <4>1. s \in Journal!DueRows(kept, Legs, failed, {}, t)
        BY <3>1 DEF Journal!DueRows
      <4>2. s \in {[q EXCEPT !.retry = at]}
        OBVIOUS
      <4> HIDE DEF at, s
      <4>3. Shape(s) /\ s.flight = q.flight /\ s.event = q.event
        BY <2>8, <4>2, Stamped DEF RowOk
      <4> QED BY <2>4, <4>1, <4>3
    <3>2. CASE q \notin Journal!DueReady(kept, Legs, failed, {}, t)
      BY <2>4, <2>7, <2>8, <3>2 DEF Journal!DueRows, RowOk
    <3> QED BY <3>1, <3>2
  <2>10. PICK s \in DueJournal(Pruned(t), answered, failed, records, t) :
           s.flight = l /\ s.event.reason = "time_to_leave" /\ Shape(s)
    BY <2>9, JournalOfCycle
  <2>11. PICK acked : notices' = Acknowledged(DueJournal(Pruned(t), answered, failed, records, t), acked)
    BY <2>1 DEF records, t
  <2> DEFINE heard == s \in acked
             new == [s EXCEPT !.confirmed = @ \/ heard]
  <2>12. new \in notices'
    BY <2>10, <2>11 DEF Acknowledged
  <2>13. new \in {[s EXCEPT !.confirmed = @ \/ heard]}
    OBVIOUS
  <2> HIDE DEF new, heard
  <2>14. new.flight = s.flight /\ new.event = s.event
    BY <2>10, <2>13, Heard
  <2> QED BY <2>10, <2>12, <2>14
<1> QED BY <1>2, <1>5, <1>8, <1>9

(* Whatever the cadences and the traffic, for drives within the tight cadence: *)
(* if every poll came when its cadence called for it, the one that crosses     *)
(* leave-by tells him.                                                         *)
THEOREM TimelyPollsTell ==
  ASSUME DrivesFitNearWindow
  PROVE  Spec => TimelyPollTells
<1> DEFINE A == \A l \in Legs :
       /\ now' > now /\ record'[l].polledAt = now'
       /\ record[l].status # None /\ PreDeparture(record[l].status) /\ l \notin late
       /\ RouteKnown(l, now') /\ ~BoardingOrGone(l, record'[l], now') /\ fix # "there"
       /\ record[l].polledAt < LeaveBy(l) /\ LeaveBy(l) <= now'
       => \E row \in notices' : row.flight = l /\ row.event.reason = "time_to_leave"
<1>1. IInv /\ Timed /\ [Next]_vars => [A]_vars
  BY CrossingTells
<1>2. Init => IInv /\ Timed
  BY Start, TimedStart
<1>3. IInv /\ Timed /\ [Next]_vars => (IInv /\ Timed)'
  BY Step, TimedStep
<1> HIDE DEF A
<1>4. Spec => [][A]_vars
  BY <1>1, <1>2, <1>3, PTL DEF Spec
<1> QED BY <1>4 DEF TimelyPollTells, A

-----------------------------------------------------------------------------
(* One row for a flight and a phase, so the notice of a connection is the    *)
(* one the pass over the connections upholds.                                *)

(* No two flights of a trip leave at once: the pass sorts them by departure. *)
OneFlightAtATime ==
  \A l1, l2 \in Legs : TripOf[l1] = TripOf[l2] /\ Dep[l1] = Dep[l2] => l1 = l2

OneRow(rows) ==
  \A a, b \in rows : a.flight = b.flight /\ a.event.reason = b.event.reason => a = b

\* Offers with a phase each keep one row per phase.
LEMMA OfferedOnce ==
  ASSUME NEW rows, NEW m, \A row \in rows : RowOk(row, m), OneRow(rows),
         NEW offers, \A o \in offers : OfferOk(o), OneOffer(offers), NEW t
  PROVE  OneRow(Offered(rows, offers, t))
<1> DEFINE fresh == {o \in offers :
                       ~Journal!OfferIgnored(rows, t, o.flight, o.event, 0, Expires(o, t))}
           gone == UNION {Journal!Previous(rows, o.flight, o.event, 0) : o \in fresh}
           New(o) == Journal!NewRow(rows, t, o.flight, o.event, 0, Expires(o, t))
<1>1. \A o \in offers : New(o).flight = o.flight /\ New(o).event = o.event
  BY DEF Journal!NewRow
<1>2. ASSUME NEW row \in rows \ gone, NEW o \in fresh
      PROVE  ~(row.flight = o.flight /\ row.event.reason = o.event.reason)
  <2>1. Journal!Previous(rows, o.flight, o.event, 0) =
          {q \in rows : q.flight = o.flight /\ q.event.reason = o.event.reason}
    BY OfferPrevious
  <2> QED BY <2>1
<1>3. \A q \in Offered(rows, offers, t) : q \in rows \ gone \/ \E o \in fresh : q = New(o)
  BY DEF Offered
<1>4. fresh \subseteq offers
  OBVIOUS
<1> HIDE DEF fresh, gone, New
<1> SUFFICES ASSUME NEW a \in Offered(rows, offers, t), NEW b \in Offered(rows, offers, t),
                    a.flight = b.flight, a.event.reason = b.event.reason
             PROVE  a = b
  BY DEF OneRow
<1>5. CASE a \in rows \ gone /\ b \in rows \ gone
  BY <1>5 DEF OneRow
<1>6. CASE a \in rows \ gone /\ \E o \in fresh : b = New(o)
  BY <1>1, <1>2, <1>4, <1>6
<1>7. CASE b \in rows \ gone /\ \E o \in fresh : a = New(o)
  BY <1>1, <1>2, <1>4, <1>7
<1>8. ASSUME NEW o \in fresh, NEW p \in fresh, a = New(o), b = New(p) PROVE a = b
  BY <1>1, <1>4, <1>8 DEF OneOffer
<1> QED BY <1>3, <1>5, <1>6, <1>7, <1>8

LEMMA RisksOfferOnce ==
  ASSUME OneFlightAtATime, NEW rows, NEW records, NEW trusted \in SUBSET Legs, NEW t
  PROVE  OneOffer(RiskOffers(rows, records, trusted, t))
<1> SUFFICES ASSUME NEW a \in RiskOffers(rows, records, trusted, t),
                    NEW b \in RiskOffers(rows, records, trusted, t), a.flight = b.flight
             PROVE  a = b
  BY DEF OneOffer
<1>1. PICK p \in trusted \X trusted :
        /\ AtRisk(records, p[1], p[2], t)
        /\ a = [flight |-> p[2], event |-> RiskNotice(p[1], Transfer(records, p[1], p[2]))]
  BY DEF RiskOffers
<1>2. PICK q \in trusted \X trusted :
        /\ AtRisk(records, q[1], q[2], t)
        /\ b = [flight |-> q[2], event |-> RiskNotice(q[1], Transfer(records, q[1], q[2]))]
  BY DEF RiskOffers
<1>3. PICK k \in Legs, l \in Legs, j \in Legs : k = p[1] /\ l = p[2] /\ j = q[1] /\ l = q[2]
  BY <1>1, <1>2
<1>4. Consecutive(k, l) /\ Consecutive(j, l)
  BY <1>1, <1>2, <1>3 DEF AtRisk
<1>5. Dep[k] \in Nat /\ Dep[j] \in Nat /\ Dep[l] \in Nat
  BY PhasesAssumption
<1>6. TripOf[k] = TripOf[j] /\ Dep[k] = Dep[j]
  BY <1>4, <1>5 DEF Consecutive
<1>7. k = j
  BY <1>6 DEF OneFlightAtATime
<1> QED BY <1>1, <1>2, <1>3, <1>7

LEMMA CycleRowsOnce ==
  ASSUME IInv, OneRow(notices), OneFlightAtATime, NEW t \in Nat,
         NEW answered \in SUBSET Wanted(Pruned(t), t), NEW records
  PROVE  OneRow(PollRows(answered, t)) /\ OneRow(AllRows(answered, records, t))
<1>1. answered \in SUBSET Legs /\ \A r \in Pruned(t) : RowOk(r, now)
  BY WantedLegs
<1>2. OneRow(Pruned(t))
  BY DEF OneRow, Pruned, Journal!Pruned
<1>3. OneRow(PollRows(answered, t))
  <2> DEFINE offers == PollOffers(Pruned(t), answered, t)
  <2>1. (\A o \in offers : OfferOk(o)) /\ OneOffer(offers)
    BY <1>1, PollsOk, PollsOfferOnce
  <2> HIDE DEF offers
  <2>2. OneRow(Offered(Pruned(t), offers, t))
    BY <1>1, <1>2, <2>1, OfferedOnce
  <2> QED BY <2>2 DEF PollRows, offers
<1>4. OneRow(AllRows(answered, records, t))
  <2> DEFINE trusted == Legs \ (Wanted(Pruned(t), t) \ answered)
             offers == Risks(answered, records, t)
  <2>1. trusted \in SUBSET Legs
    OBVIOUS
  <2>2. offers = RiskOffers(PollRows(answered, t), records, trusted, t)
    BY DEF Risks
  <2> HIDE DEF trusted, offers
  <2>3. (\A o \in offers : OfferOk(o)) /\ OneOffer(offers)
    BY <2>1, <2>2, RisksOk, RisksOfferOnce
  <2>4. \A r \in PollRows(answered, t) : RowOk(r, now)
    BY RowsOk
  <2>5. OneRow(Offered(PollRows(answered, t), offers, t))
    BY <1>3, <2>3, <2>4, OfferedOnce
  <2> QED BY <2>5 DEF AllRows, offers
<1> QED BY <1>3, <1>4

\* A connection that is sent is one this cycle's pass found tight, between
\* flights whose polls did not fail.
LEMMA RiskUpheld ==
  ASSUME IInv, OneRow(notices), OneFlightAtATime, NEW t \in Nat, now < t,
         NEW answered \in SUBSET Wanted(Pruned(t), t), NEW records,
         NEW row \in DueJournal(Pruned(t), answered, Wanted(Pruned(t), t) \ answered, records, t),
         row.retry = t + Retry, ~row.confirmed, row.event.reason = "connection_at_risk"
  PROVE  /\ row.flight \in Legs /\ row.event.leg1 \in Legs
         /\ row.event.leg1 \notin Wanted(Pruned(t), t) \ answered
         /\ AtRisk(records, row.event.leg1, row.flight, t)
<1>1. PICK r \in AllRows(answered, records, t) : Origin(row, r, answered, records, t)
  BY OriginExists
<1>2. /\ r \in KeptRows(answered, records, t) /\ row.flight = r.flight /\ row.event = r.event
      /\ RowOk(r, now) /\ ~r.confirmed
      /\ r \in Pruned(t) => Journal!Dependencies(r) \subseteq answered
  BY <1>1 DEF Origin
<1>3. answered \in SUBSET Legs /\ \A q \in PollRows(answered, t) : RowOk(q, now)
  BY WantedLegs, RowsOk
<1>4. OneRow(PollRows(answered, t)) /\ OneRow(AllRows(answered, records, t))
  BY CycleRowsOnce
<1>5. \A o \in Risks(answered, records, t) : OfferOk(o) /\ o.event.reason = "connection_at_risk"
  BY RisksOk DEF Risks
<1>6. PICK o \in Risks(answered, records, t) : r.flight = o.flight /\ r.event = o.event
  <2>1. CASE r \notin PollRows(answered, t)
    BY <2>1, OldOrFresh DEF AllRows
  <2>2. CASE r \in PollRows(answered, t)
    <3>1. r \in Pruned(t)
      <4>1. \A p \in PollOffers(Pruned(t), answered, t) : p.event.reason # "connection_at_risk"
        BY <1>3, PollsOk
      <4> QED BY <1>2, <2>2, <4>1, OldOrFresh DEF PollRows
    <3>2. <<r.flight, r.event.reason>> \in Phases(answered, records, t)
      BY <1>2, <3>1 DEF KeptRows, Journal!Reconciled
    <3>3. PICK p \in Risks(answered, records, t) :
            p.flight = r.flight /\ p.event.reason = r.event.reason
      <4>1. \A p \in PollOffers(Pruned(t), answered, t) : p.event.reason # "connection_at_risk"
        BY <1>3, PollsOk
      <4> QED BY <1>2, <3>2, <4>1 DEF Phases
    <3>4. CASE Journal!OfferIgnored(PollRows(answered, t), t, p.flight, p.event, 0, Expires(p, t))
      <4>1. Expires(p, t) = t + Life /\ Life \in Nat \ {0}
        BY <1>5, PhasesAssumption DEF Expires
      <4>2. ~(Expires(p, t) <= t)
        BY <4>1
      <4>3. PICK q \in Journal!Previous(PollRows(answered, t), p.flight, p.event, 0) :
              q.confirmed \/ q.event = p.event
        BY <3>4, <4>2 DEF Journal!OfferIgnored
      <4>4. Journal!Previous(PollRows(answered, t), p.flight, p.event, 0) =
              {x \in PollRows(answered, t) :
                 x.flight = p.flight /\ x.event.reason = p.event.reason}
        <5>1. OfferOk(p) /\ \A x \in PollRows(answered, t) : RowOk(x, now)
          BY <1>3, <1>5
        <5> QED BY <5>1, OfferPrevious
      <4>5. q = r
        BY <1>4, <2>2, <3>3, <4>3, <4>4 DEF OneRow
      <4> QED BY <1>2, <3>3, <4>3, <4>5
    <3>5. CASE ~Journal!OfferIgnored(PollRows(answered, t), t, p.flight, p.event, 0, Expires(p, t))
      <4> DEFINE new == Journal!NewRow(PollRows(answered, t), t, p.flight, p.event, 0, Expires(p, t))
      <4>1. new \in AllRows(answered, records, t)
        BY <3>5 DEF AllRows, Offered
      <4>2. new.flight = p.flight /\ new.event = p.event
        BY DEF Journal!NewRow
      <4> HIDE DEF new
      <4>3. r = new
        BY <1>4, <3>3, <4>1, <4>2 DEF OneRow
      <4> QED BY <3>3, <4>2, <4>3
    <3> QED BY <3>4, <3>5
  <2> QED BY <2>1, <2>2
<1> DEFINE trusted == Legs \ (Wanted(Pruned(t), t) \ answered)
<1>7. PICK p \in trusted \X trusted :
        /\ AtRisk(records, p[1], p[2], t)
        /\ o = [flight |-> p[2], event |-> RiskNotice(p[1], Transfer(records, p[1], p[2]))]
  BY <1>6 DEF Risks, RiskOffers
<1>8. row.flight = p[2] /\ row.event.leg1 = p[1]
  BY <1>2, <1>6, <1>7 DEF RiskNotice
<1> QED BY <1>7, <1>8

\* The journal after the cycle has one row per flight and phase.
LEMMA DueOnce ==
  ASSUME IInv, OneRow(notices), OneFlightAtATime, NEW t \in Nat, now < t,
         NEW answered \in SUBSET Wanted(Pruned(t), t), NEW records, NEW acked
  PROVE  OneRow(Acknowledged(
           DueJournal(Pruned(t), answered, Wanted(Pruned(t), t) \ answered, records, t), acked))
<1> DEFINE owed == DueJournal(Pruned(t), answered, Wanted(Pruned(t), t) \ answered, records, t)
<1>1. ASSUME NEW row \in owed
      PROVE  Shape(row) /\ \E r \in AllRows(answered, records, t) : Origin(row, r, answered, records, t)
  <2>1. PICK r \in AllRows(answered, records, t) : Origin(row, r, answered, records, t)
    BY OriginExists
  <2> QED BY <2>1 DEF Origin, RowOk
<1>2. OneRow(AllRows(answered, records, t))
  BY CycleRowsOnce
<1>3. ASSUME NEW a \in owed, NEW b \in owed,
             a.flight = b.flight, a.event.reason = b.event.reason
      PROVE  a = b
  <2>1. PICK r \in AllRows(answered, records, t) : Origin(a, r, answered, records, t)
    BY <1>1
  <2>2. PICK q \in AllRows(answered, records, t) : Origin(b, q, answered, records, t)
    BY <1>1
  <2>3. q = r
    BY <1>2, <1>3, <2>1, <2>2 DEF Origin, OneRow
  <2> QED BY <2>1, <2>2, <2>3 DEF Origin
<1> HIDE DEF owed
<1>4. ASSUME NEW x \in Acknowledged(owed, acked)
      PROVE  \E a \in owed : /\ x.flight = a.flight /\ x.event = a.event
                            /\ x = [a EXCEPT !.confirmed = @ \/ a \in acked]
  <2>1. PICK a \in owed : x = [a EXCEPT !.confirmed = @ \/ a \in acked]
    BY DEF Acknowledged
  <2> DEFINE heard == a \in acked
  <2>2. x \in {[a EXCEPT !.confirmed = @ \/ heard]} /\ Shape(a)
    BY <1>1, <2>1
  <2> HIDE DEF heard
  <2>3. x.flight = a.flight /\ x.event = a.event
    BY <2>2, Heard
  <2> QED BY <2>1, <2>3
<1> SUFFICES ASSUME NEW x \in Acknowledged(owed, acked), NEW y \in Acknowledged(owed, acked),
                    x.flight = y.flight, x.event.reason = y.event.reason
             PROVE  x = y
  BY DEF OneRow, owed
<1>5. PICK a \in owed : /\ x.flight = a.flight /\ x.event = a.event
                       /\ x = [a EXCEPT !.confirmed = @ \/ a \in acked]
  BY <1>4
<1>6. PICK b \in owed : /\ y.flight = b.flight /\ y.event = b.event
                       /\ y = [b EXCEPT !.confirmed = @ \/ b \in acked]
  BY <1>4
<1>7. a = b
  BY <1>3, <1>5, <1>6
<1> QED BY <1>5, <1>6, <1>7

\* What is called tight in a cycle is tight by what byAir last answered.
LEMMA CycleRisks ==
  ASSUME IInv, Timed, Timed', OneRow(notices), OneFlightAtATime, NEW gap \in Gaps, Cycle(gap)
  PROVE  OneRow(notices)' /\ RiskIsReal'
<1> DEFINE t == now + gap
<1>1. t \in Nat /\ now < t /\ now \in Nat /\ Typed
  BY Later DEF IInv, Typed
<1>2. PICK answered \in SUBSET Wanted(Pruned(t), t) :
        LET owed == DueJournal(Pruned(t), answered, Wanted(Pruned(t), t) \ answered, record', t)
            ready == {row \in owed : row.retry = t + Retry /\ ~row.confirmed} IN
        /\ late' = (late \cup DueLegs(t)) \ answered
        /\ sent' \subseteq ready
        /\ \E acked \in SUBSET ready : notices' = Acknowledged(owed, acked)
  BY CycleParts
<1> DEFINE records == record'
<1>3. PICK acked :
        notices' = Acknowledged(DueJournal(Pruned(t), answered,
                                  Wanted(Pruned(t), t) \ answered, records, t), acked)
  BY <1>2
<1>4. \A row \in sent' :
        /\ row \in DueJournal(Pruned(t), answered, Wanted(Pruned(t), t) \ answered, records, t)
        /\ row.retry = t + Retry /\ ~row.confirmed
  BY <1>2
<1>5. late' = (late \cup DueLegs(t)) \ answered
  BY <1>2
<1> HIDE DEF t, records
<1>6. OneRow(notices')
  BY <1>1, <1>3, DueOnce
<1>7. ASSUME NEW row \in sent', row.event.reason = "connection_at_risk"
      PROVE  /\ records[row.event.leg1].status \notin {"landed", "cancelled"}
             /\ row.event.leg1 \notin late'
             /\ Dep[row.flight] - (Arr[row.event.leg1] + records[row.event.leg1].slip) < MinTransfer
  <2>1. /\ row.event.leg1 \in Legs /\ row.event.leg1 \notin Wanted(Pruned(t), t) \ answered
        /\ AtRisk(records, row.event.leg1, row.flight, t)
    BY <1>1, <1>4, <1>7, RiskUpheld
  <2>2. row.event.leg1 \notin late'
    <3>1. late \subseteq DueLegs(t)
      BY <1>1, DueStays DEF Timed, DueLegs
    <3> QED BY <1>5, <2>1, <3>1 DEF Wanted
  <2>3. records[row.event.leg1].status = None => records[row.event.leg1].slip = 0
    BY <2>1 DEF Timed, records
  <2> QED BY <2>1, <2>2, <2>3 DEF AtRisk, Transfer
<1> QED BY <1>6, <1>7 DEF OneRow, RiskIsReal, records

LEMMA RisksStep ==
  ASSUME OneFlightAtATime
  PROVE  /\ IInv /\ Timed /\ Timed' /\ OneRow(notices) /\ RiskIsReal /\ [Next]_vars
         => OneRow(notices)' /\ RiskIsReal'
<1> SUFFICES ASSUME IInv, Timed, Timed', OneRow(notices), RiskIsReal, [Next]_vars
             PROVE  OneRow(notices)' /\ RiskIsReal'
  OBVIOUS
<1>1. ASSUME NEW gap \in Gaps, Cycle(gap) PROVE OneRow(notices)' /\ RiskIsReal'
  BY <1>1, CycleRisks
<1>2. ASSUME NEW gap \in Gaps, Killed(gap) PROVE OneRow(notices)' /\ RiskIsReal'
  <2> DEFINE t == now + gap
  <2>1. PICK offers \in SUBSET PollOffers(Pruned(t), Legs, t) : notices' = Offered(Pruned(t), offers, t)
    BY <1>2, KilledParts
  <2>2. (\A r \in Pruned(t) : RowOk(r, now)) /\ OneRow(Pruned(t))
    BY WantedLegs DEF OneRow, Pruned, Journal!Pruned
  <2> HIDE DEF t
  <2>3. (\A o \in offers : OfferOk(o)) /\ OneOffer(offers)
    BY PollsOk, PollsOfferOnce DEF OneOffer
  <2>4. OneRow(Offered(Pruned(t), offers, t))
    BY <2>2, <2>3, OfferedOnce
  <2>5. sent' = {}
    BY <1>2 DEF Killed
  <2> QED BY <2>1, <2>4, <2>5 DEF OneRow, RiskIsReal
<1>3. CASE sent' = {} /\ notices' = notices
  BY <1>3 DEF OneRow, RiskIsReal
<1>4. ASSUME NEW gap \in Gaps, Missed(gap) \/ OffTrip(gap) PROVE OneRow(notices)' /\ RiskIsReal'
  BY <1>3, <1>4 DEF Missed, OffTrip
<1>5. ASSUME NEW l \in Legs, ByAirReports(l) PROVE OneRow(notices)' /\ RiskIsReal'
  BY <1>3, <1>5 DEF ByAirReports
<1>6. CASE TrafficChanges \/ OperatorMoves
  BY <1>3, <1>6 DEF TrafficChanges, OperatorMoves
<1>7. CASE UNCHANGED vars
  BY <1>7 DEF vars, OneRow, RiskIsReal
<1> QED BY <1>1, <1>2, <1>4, <1>5, <1>6, <1>7 DEF Next

(* Wherever a cycle dies or byAir fails, and whatever is retried: what is      *)
(* called a tight connection is tight by the last answers of byAir, and no     *)
(* poll of its first flight is missing.                                        *)
THEOREM RisksAreReal ==
  ASSUME OneFlightAtATime
  PROVE  Spec => []RiskIsReal
<1>1. Init => IInv /\ Timed /\ OneRow(notices) /\ RiskIsReal
  <2>1. Init => OneRow(notices) /\ RiskIsReal
    BY DEF Init, OneRow, RiskIsReal
  <2> QED BY <2>1, Start, TimedStart
<1>2. /\ IInv /\ Timed /\ OneRow(notices) /\ RiskIsReal /\ [Next]_vars
      => (IInv /\ Timed /\ OneRow(notices) /\ RiskIsReal)'
  BY Step, TimedStep, RisksStep
<1> QED BY <1>1, <1>2, PTL DEF Spec
=============================================================================
