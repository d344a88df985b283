------------------------ MODULE FlightCalendarProofs ------------------------
(***************************************************************************)
(* For any flights, bounds and schedule, overlapping jobs included: no     *)
(* ledger names an event that is not flight-assist's own for that flight.  *)
(* Ids are given once, so a new event clashes with no entry; what remains  *)
(* is that the copies of a ledger the jobs carry around (the record a poll *)
(* read, the states and the operations of a reconcile) are as sound as the *)
(* ones on disk, however old they are.                                     *)
(***************************************************************************)
EXTENDS FlightCalendar, TLAPS

Known(id) == id \in EventIds => id <= created

Typed ==
  /\ created \in 0..MaxEvents
  /\ truth \in [Flights -> [dep : Deps, off : BOOLEAN]]
  /\ calendar \subseteq Event
  /\ records \in [Flights -> Record \cup {None}]
  /\ poll \in [flight : Flights \cup {None}, prior : Record \cup {None}]
  /\ rec \in [at : {"idle", "due", "fetch", "apply"}, active : SUBSET Flights,
              tombs : SUBSET Flights, done : SUBSET Flights,
              states : [Flights -> Record \cup {None}], ops : SUBSET Op, dirty : SUBSET Flights]
  /\ index \subseteq Flights /\ arrived \subseteq Flights /\ upstream \subseteq Flights
  /\ sync.listed \subseteq Flights

\* The events: ids once, and only byAir's own lack a tag.
Events ==
  /\ \A e \in calendar : e.id <= created /\ (e.tagged \/ e.kind = "flight")
  /\ \A e, g \in calendar : e.id = g.id => e = g

\* A ledger kept for flight f.
Sound(f, r) ==
  r # None =>
    \A k \in Kinds :
      /\ Known(r.ledger[k])
      /\ \A e \in calendar :
           e.id = r.ledger[k] => e.flight = f /\ e.kind = k /\ e.tagged

Ledgers ==
  /\ \A f \in Flights : Sound(f, records[f]) /\ Sound(f, rec.states[f])
  /\ Sound(poll.flight, poll.prior)

\* An operation in hand; an event to be adopted may not have its tag yet.
Fits(o) ==
  /\ rec.states[o.flight] \in Record
  /\ Known(o.id)
  /\ \A e \in calendar : e.id = o.id =>
       e.flight = o.flight /\ e.kind = o.kind /\ (o.op = "adopt" \/ e.tagged)
  /\ o.op \in {"adopt", "update"} => o.id \in EventIds

IInv == Typed /\ Events /\ Ledgers /\ \A o \in rec.ops : Fits(o)

USE DEF Kinds, world

LEMMA IdsAreNat == EventIds \subseteq Nat /\ None \notin EventIds
BY CalendarAssumption DEF EventIds

LEMMA NoneOwed == NoEntries \in Ledger /\ \A k \in Kinds : NoEntries[k] = None
BY DEF NoEntries, Ledger

LEMMA EmptySound ==
  ASSUME NEW f, NEW r \in Record, r.ledger = NoEntries, Typed
  PROVE  Sound(f, r)
BY NoneOwed, IdsAreNat DEF Sound, Known, Typed, Event


(* The planner: whatever a run plans over sound states fits the calendar it
   sees (_plan_boarding, _plan_flight_event, _plan_teardown). *)
LEMMA PlanFits ==
  ASSUME IInv, NEW active \in SUBSET Flights, NEW done, NEW events \in SUBSET calendar,
         NEW o \in PlanReconciliation(rec.states, active, done, events)
  PROVE  o \in Op /\ Fits(o)
<1> DEFINE r == rec.states
<1>1. PICK f \in Present(r, active) \cup Tombstones(r, active) :
        o \in PlanBoarding(r, events, f) \cup PlanFlightEvent(r, events, f) \cup PlanTeardown(r, f)
  BY DEF PlanReconciliation
<1>2. f \in Flights /\ r[f] \in Record /\ r[f] # None /\ Sound(f, r[f])
  BY <1>1 DEF Present, Tombstones, Tracked, IInv, Typed, Ledgers
<1>3. ASSUME NEW k \in Kinds, NEW op \in {"create", "update", "forget", "delete"},
             o = [op |-> op, kind |-> k, flight |-> f, id |-> r[f].ledger[k]],
             op = "update" => r[f].ledger[k] \in EventIds
      PROVE  o \in Op /\ Fits(o)
  <2>1. r[f].ledger[k] \in EventIds \cup {None}
    BY <1>2 DEF Record, Ledger
  <2>2. o \in Op
    BY <1>2, <1>3, <2>1 DEF Op
  <2> QED BY <1>2, <1>3, <2>2 DEF Fits, Sound
<1>4. CASE o \in PlanTeardown(r, f)
  <2>1. PICK k \in Kinds : o = [op |-> "delete", kind |-> k, flight |-> f, id |-> r[f].ledger[k]]
    BY <1>4 DEF PlanTeardown
  <2> QED BY <1>3, <2>1
<1>5. CASE o \in PlanBoarding(r, events, f)
  <2>1. \/ o = [op |-> "create", kind |-> "boarding", flight |-> f, id |-> r[f].ledger["boarding"]]
        \/ /\ o = [op |-> "update", kind |-> "boarding", flight |-> f, id |-> r[f].ledger["boarding"]]
           /\ LiveEvent(events, r[f].ledger["boarding"]) # {}
    BY <1>5 DEF PlanBoarding
  <2>2. LiveEvent(events, r[f].ledger["boarding"]) # {} => r[f].ledger["boarding"] \in EventIds
    BY DEF LiveEvent, IInv, Typed, Event
  <2> QED BY <1>3, <2>1, <2>2
<1>6. CASE o \in PlanFlightEvent(r, events, f)
  <2> DEFINE match == Matches(r, events, f)
             nearest == {e \in match : \A g \in match : Apart(e, r[f]) <= Apart(g, r[f])}
             live == LiveEvent(events, r[f].ledger["flight"])
  <2>1. \/ /\ nearest # {}
           /\ o = [op |-> "adopt", kind |-> "flight", flight |-> f, id |-> (CHOOSE e \in nearest : TRUE).id]
        \/ o = [op |-> "forget", kind |-> "flight", flight |-> f, id |-> r[f].ledger["flight"]]
        \/ /\ o = [op |-> "update", kind |-> "flight", flight |-> f, id |-> r[f].ledger["flight"]]
           /\ live # {}
    BY <1>6 DEF PlanFlightEvent
  <2>2. live # {} => r[f].ledger["flight"] \in EventIds
    BY DEF LiveEvent, IInv, Typed, Event
  <2>3. ASSUME nearest # {}, NEW e, e = (CHOOSE g \in nearest : TRUE),
               o = [op |-> "adopt", kind |-> "flight", flight |-> f, id |-> e.id]
        PROVE  o \in Op /\ Fits(o)
    <3>1. e \in calendar /\ e.flight = f /\ ~e.tagged
      BY <2>3 DEF Matches
    <3>2. e \in Event /\ e.id <= created /\ e.kind = "flight" /\ \A g \in calendar : g.id = e.id => g = e
      BY <3>1 DEF IInv, Typed, Events
    <3>3. e.id \in EventIds
      BY <3>2 DEF Event
    <3>4. o \in Op
      BY <1>2, <2>3, <3>3 DEF Op
    <3> QED BY <1>2, <2>3, <3>1, <3>2, <3>3, <3>4 DEF Fits, Known
  <2> QED BY <1>3, <2>1, <2>2, <2>3
<1> QED BY <1>1, <1>4, <1>5, <1>6

(* Losing events, tags coming on and departures moving hurt no ledger. *)
Gentle == \A e \in calendar' : \E g \in calendar :
            /\ e.id = g.id /\ e.flight = g.flight /\ e.kind = g.kind
            /\ g.tagged => e.tagged

LEMMA GentleSound ==
  ASSUME Gentle, created' = created, NEW f, NEW r, Sound(f, r)
  PROVE  Sound(f, r)'
BY DEF Gentle, Sound, Known

\* A new event has an id no ledger names.
LEMMA FreshSound ==
  ASSUME Typed, NEW new, calendar' = calendar \cup {new}, created' = created + 1,
         new.id = created + 1, NEW f, NEW r \in Record \cup {None}, Sound(f, r)
  PROVE  Sound(f, r)'
<1> SUFFICES ASSUME r # None, NEW k \in Kinds
             PROVE /\ Known(r.ledger[k])'
                   /\ \A e \in calendar' :
                        e.id = r.ledger[k] => e.flight = f /\ e.kind = k /\ e.tagged
  BY DEF Sound
<1>1. r.ledger[k] \in EventIds \cup {None} /\ Known(r.ledger[k])
  BY DEF Record, Ledger, Sound
<1>2. created \in Nat /\ new.id # r.ledger[k]
  BY <1>1, CalendarAssumption DEF Known, EventIds, Typed
<1>3. Known(r.ledger[k])'
  BY <1>1, <1>2, CalendarAssumption DEF Known, EventIds
<1> QED BY <1>2, <1>3 DEF Sound

LEMMA FreshFits ==
  ASSUME IInv, NEW new, calendar' = calendar \cup {new}, created' = created + 1,
         new.id = created + 1, NEW o \in rec.ops, rec'.states[o.flight] \in Record
  PROVE  Fits(o)'
<1>1. o.id \in EventIds \cup {None} /\ Fits(o) /\ created \in Nat
  BY DEF IInv, Typed, Op
<1>2. new.id # o.id
  BY <1>1, CalendarAssumption DEF Fits, Known, EventIds
<1>3. Known(o.id)'
  BY <1>1, CalendarAssumption DEF Fits, Known, EventIds
<1>4. \A e \in calendar' : e.id = o.id =>
        e.flight = o.flight /\ e.kind = o.kind /\ (o.op = "adopt" \/ e.tagged)
  BY <1>1, <1>2 DEF Fits
<1>5. o.op \in {"adopt", "update"} => o.id \in EventIds
  BY <1>1 DEF Fits
<1> QED BY <1>3, <1>4, <1>5 DEF Fits, EventIds

LEMMA GentleFits ==
  ASSUME IInv, Gentle, created' = created, NEW o \in rec.ops, rec'.states[o.flight] \in Record
  PROVE  Fits(o)'
BY DEF IInv, Gentle, Fits, Known, EventIds

(* A new event: it disturbs no ledger and no operation in hand. *)
LEMMA NewEvent ==
  ASSUME IInv, NEW new \in Event, calendar' = calendar \cup {new}, created' = created + 1,
         created < MaxEvents, new.id = created + 1, new.tagged \/ new.kind = "flight",
         \A o \in rec'.ops : o \in rec.ops /\ rec'.states[o.flight] \in Record
  PROVE  /\ created' \in 0..MaxEvents /\ calendar' \subseteq Event /\ Events'
         /\ \A f, r : r \in Record \cup {None} /\ Sound(f, r) => Sound(f, r)'
         /\ \A o \in rec'.ops : Fits(o)'
<1>1. Typed /\ Events /\ created \in 0..MaxEvents /\ calendar \subseteq Event /\ MaxEvents \in Nat
  BY CalendarAssumption DEF IInv, Typed
<1>2. created' \in 0..MaxEvents /\ calendar' \subseteq Event
  BY <1>1
<1>3. Events'
  <2>1. /\ \A e \in calendar : e.id \in Nat /\ e.id <= created /\ (e.tagged \/ e.kind = "flight")
        /\ \A e, g \in calendar : e.id = g.id => e = g
    <3>1. \A e \in Event : e.id \in Nat
      BY IdsAreNat DEF Event
    <3> QED BY <1>1, <3>1 DEF Events
  <2>2. \A e \in calendar' : e.id <= created' /\ (e.tagged \/ e.kind = "flight")
    BY <1>1, <2>1
  <2>3. \A e, g \in calendar' : e.id = g.id => e = g
    BY <1>1, <2>1
  <2> QED BY <2>2, <2>3 DEF Events
<1>4. ASSUME NEW f, NEW r \in Record \cup {None}, Sound(f, r) PROVE Sound(f, r)'
  BY <1>1, <1>4, FreshSound
<1>5. \A o \in rec'.ops : Fits(o)'
  BY FreshFits
<1> QED BY <1>2, <1>3, <1>4, <1>5

(* A step that leaves the calendar alone. *)
LEMMA StepSame ==
  ASSUME IInv, Typed', UNCHANGED <<calendar, created>>,
         \A f \in Flights : Sound(f, records'[f]) /\ Sound(f, rec'.states[f]),
         Sound(poll'.flight, poll'.prior),
         \A o \in rec'.ops : o \in rec.ops /\ rec'.states[o.flight] \in Record
  PROVE  IInv'
<1>1. Events'
  BY DEF IInv, Events
<1>2. Ledgers'
  BY DEF Ledgers, Sound, Known
<1>3. \A o \in rec'.ops : Fits(o)'
  BY DEF IInv, Fits, Known
<1> QED BY <1>1, <1>2, <1>3 DEF IInv

(* byAir, the user, and what the clock does to a flight. *)
LEMMA WorldStep ==
  ASSUME IInv, Environment PROVE IInv'
<1> USE CalendarAssumption
<1>1. ASSUME NEW f \in Flights, List(f) \/ Unlist(f) \/ Reschedule(f) \/ CallOff(f) \/ Arrive(f)
      PROVE  IInv'
  <2>1. UNCHANGED <<index, records, calendar, created, sync, poll, rec>>
    BY <1>1 DEF List, Unlist, Reschedule, CallOff, Arrive
  <2>2. truth' \in [Flights -> [dep : Deps, off : BOOLEAN]]
    <3>1. truth \in [Flights -> [dep : Deps, off : BOOLEAN]]
      BY DEF IInv, Typed
    <3>2. ASSUME NEW d \in Deps, truth' = [truth EXCEPT ![f].dep = d]
          PROVE  truth' \in [Flights -> [dep : Deps, off : BOOLEAN]]
      BY <3>1, <3>2
    <3>3. CASE truth' = [truth EXCEPT ![f].off = TRUE]
      BY <3>1, <3>3
    <3> QED BY <1>1, <3>1, <3>2, <3>3 DEF List, Unlist, Reschedule, CallOff, Arrive
  <2>3. arrived' \subseteq Flights /\ upstream' \subseteq Flights
    BY <1>1 DEF IInv, Typed, List, Unlist, Reschedule, CallOff, Arrive
  <2>4. Typed'
    BY <2>1, <2>2, <2>3 DEF IInv, Typed
  <2> QED BY <2>1, <2>4, StepSame DEF IInv, Ledgers, Fits
<1>2. ASSUME NEW f \in Flights, ByAirEvent(f) PROVE IInv'
  <2> DEFINE new == [id |-> created + 1, flight |-> f, kind |-> "flight", dep |-> truth[f].dep,
                     tagged |-> FALSE]
  <2>1. /\ calendar' = calendar \cup {new} /\ created' = created + 1 /\ created < MaxEvents
        /\ UNCHANGED <<outside, index, records, sync, poll, rec>>
    BY <1>2 DEF ByAirEvent
  <2>2. new \in Event /\ new.id = created + 1 /\ new.kind = "flight"
    BY <2>1 DEF IInv, Typed, Event, EventIds
  <2> HIDE DEF new
  <2>3. \A o \in rec'.ops : o \in rec.ops /\ rec'.states[o.flight] \in Record
    BY <2>1 DEF IInv, Fits
  <2>4. /\ created' \in 0..MaxEvents /\ calendar' \subseteq Event /\ Events'
        /\ \A g, r : r \in Record \cup {None} /\ Sound(g, r) => Sound(g, r)'
        /\ \A o \in rec'.ops : Fits(o)'
    BY <2>1, <2>2, <2>3, NewEvent
  <2>5. Typed'
    BY <2>1, <2>4 DEF IInv, Typed, outside
  <2>6. Ledgers'
    BY <2>1, <2>4 DEF IInv, Typed, Ledgers
  <2> QED BY <2>4, <2>5, <2>6 DEF IInv
<1>3. ASSUME NEW e \in calendar, UserDeletes(e) PROVE IInv'
  <2>1. calendar' = calendar \ {e} /\ UNCHANGED <<outside, index, records, created, sync, poll, rec>>
    BY <1>3 DEF UserDeletes
  <2>2. Gentle
    BY <2>1 DEF Gentle
  <2>3. Typed' /\ Events'
    BY <2>1 DEF IInv, Typed, Events, outside
  <2>4. Ledgers'
    BY <2>1, <2>2, GentleSound DEF IInv, Ledgers
  <2>5. \A o \in rec'.ops : Fits(o)'
    BY <2>1, <2>2, GentleFits DEF IInv, Fits
  <2> QED BY <2>3, <2>4, <2>5 DEF IInv
<1> QED BY <1>1, <1>2, <1>3 DEF Environment

(* sync_tripit: a seeded record owns nothing, a tombstone stays as it is. *)
LEMMA SyncStep ==
  ASSUME IInv, Sync PROVE IInv'
<1>1. Seeded \in Record
  BY NoneOwed, CalendarAssumption DEF Seeded, Record, Deps
<1>2. \A f \in Flights : Sound(f, Seeded) /\ Sound(f, None)
  BY <1>1, EmptySound DEF IInv, Seeded, Sound
<1>3. ASSUME NEW f \in Flights, NEW r \in {Seeded, None, records[f]}, records' = [records EXCEPT ![f] = r],
             UNCHANGED <<outside, index, calendar, created, poll, rec>>, sync'.listed \subseteq Flights
      PROVE  IInv'
  <2>1. Typed'
    BY <1>1, <1>3 DEF IInv, Typed, outside
  <2>2. \A g \in Flights : Sound(g, records'[g])
    BY <1>2, <1>3 DEF IInv, Typed, Ledgers
  <2> QED BY <1>3, <2>1, <2>2, StepSame DEF IInv, Ledgers, Fits
<1>4. ASSUME UNCHANGED <<outside, records, calendar, created, poll, rec>>,
             index' \subseteq Flights, sync'.listed \subseteq Flights
      PROVE  IInv'
  <2>1. Typed'
    BY <1>4 DEF IInv, Typed, outside
  <2> QED BY <1>4, <2>1, StepSame DEF IInv, Ledgers, Fits
<1>5. CASE SyncList \/ SyncIndex
  <2>1. UNCHANGED <<outside, records, calendar, created, poll, rec>>
    BY <1>5 DEF SyncList, Takes, SyncIndex
  <2>2. index' \subseteq Flights /\ sync'.listed \subseteq Flights
    BY <1>5 DEF SyncList, Takes, SyncIndex, IdleSync, IInv, Typed
  <2> QED BY <1>4, <2>1, <2>2
<1>6. ASSUME NEW f \in Flights, SyncAdd(f) PROVE IInv'
  <2>1. sync'.listed \subseteq Flights
    BY <1>6 DEF SyncAdd, IInv, Typed
  <2> QED BY <1>3, <1>6, <2>1 DEF SyncAdd
<1>7. ASSUME NEW f \in Flights, SyncRemove(f) PROVE IInv'
  <2>1. sync'.listed \subseteq Flights
    BY <1>7 DEF SyncRemove, IInv, Typed
  <2>2. records' = [records EXCEPT ![f] = records[f]] \/ records' = [records EXCEPT ![f] = None]
    BY <1>7 DEF SyncRemove, IInv, Typed
  <2> QED BY <1>3, <1>7, <2>1, <2>2 DEF SyncRemove
<1> QED BY <1>5, <1>6, <1>7 DEF Sync

(* A poll carries the ledger it read over to the record it writes. *)
LEMMA PollStep ==
  ASSUME IInv, Polled PROVE IInv'
<1>1. ASSUME NEW f \in Flights, PollRead(f) PROVE IInv'
  <2>1. poll' = [flight |-> f, prior |-> records[f]] /\ UNCHANGED <<outside, index, records, calendar, created, sync, rec>>
    BY <1>1 DEF PollRead, Takes
  <2>2. Typed'
    BY <2>1 DEF IInv, Typed, outside
  <2> QED BY <2>1, <2>2, StepSame DEF IInv, Ledgers, Fits
<1>2. ASSUME rec' \in {rec, ReconcileOwed} PROVE rec'.states = rec.states /\ rec'.ops = rec.ops
  BY <1>2 DEF ReconcileOwed, IInv, Typed
<1>3. ASSUME NEW f \in Flights, PollGone(f) PROVE IInv'
  <2>1. rec' = ReconcileOwed /\ UNCHANGED <<outside, index, records, calendar, created, sync, poll>>
    BY <1>3 DEF PollGone
  <2>2. Typed'
    BY <2>1 DEF IInv, Typed, outside, ReconcileOwed
  <2> QED BY <1>2, <2>1, <2>2, StepSame DEF IInv, Ledgers, Fits
<1>4. CASE PollWrite
  <2> DEFINE f == poll.flight
             r == Built(f, poll.prior)
  <2>1. /\ f \in Flights /\ records' = [records EXCEPT ![f] = r] /\ poll' = IdlePoll
        /\ rec' \in {rec, ReconcileOwed} /\ UNCHANGED <<outside, index, calendar, created, sync>>
    BY <1>4 DEF PollWrite, IInv, Typed
  <2>2. poll.prior \in Record \cup {None} /\ Sound(f, poll.prior) /\ truth[f] \in [dep : Deps, off : BOOLEAN]
    BY <2>1 DEF IInv, Typed, Ledgers
  <2>3. r \in Record /\ r.ledger = IF poll.prior = None THEN NoEntries ELSE poll.prior.ledger
    BY <2>2, NoneOwed DEF Built, Record
  <2>4. Sound(f, r)
    <3>1. CASE poll.prior = None
      BY <2>3, <3>1, EmptySound DEF IInv
    <3>2. CASE poll.prior # None
      BY <2>2, <2>3, <3>2 DEF Sound
    <3> QED BY <3>1, <3>2
  <2>5. Typed'
    BY <2>1, <2>3 DEF IInv, Typed, outside, ReconcileOwed, IdlePoll
  <2>6. \A g \in Flights : Sound(g, records'[g])
    BY <2>1, <2>4 DEF IInv, Typed, Ledgers
  <2>7. Sound(poll'.flight, poll'.prior)
    BY <2>1 DEF IdlePoll, Sound
  <2> QED BY <1>2, <2>1, <2>5, <2>6, <2>7, StepSame DEF IInv, Ledgers, Fits
<1> QED BY <1>1, <1>3, <1>4 DEF Polled

(* run_reconcile before and after its calendar calls. *)
LEMMA RunStep ==
  ASSUME IInv, RecRead \/ RecDeferred \/ RecPlan \/ RecArchive \/ \E f \in Flights : RecWrite(f)
  PROVE  IInv'
<1>1. \A f \in Flights : Sound(f, None)
  BY DEF Sound
<1>2. CASE RecRead
  <2>1. /\ rec' = [IdleRec EXCEPT !.at = "fetch", !.active = index, !.done = arrived,
                                  !.states = records, !.tombs = Tombstones(records, index)]
        /\ UNCHANGED <<outside, index, records, calendar, created, sync, poll>>
    BY <1>2 DEF RecRead, Takes
  <2>2. Typed'
    BY <2>1 DEF IInv, Typed, outside, IdleRec, Tombstones
  <2>3. rec'.states = records /\ rec'.ops = {}
    BY <2>1 DEF IdleRec
  <2> QED BY <2>1, <2>2, <2>3, StepSame DEF IInv, Ledgers
<1>3. ASSUME rec' = IdleRec, records' \in [Flights -> Record \cup {None}],
             \A f \in Flights : Sound(f, records'[f]),
             UNCHANGED <<outside, index, calendar, created, sync, poll>>
      PROVE  IInv'
  <2>1. Typed'
    BY <1>3 DEF IInv, Typed, outside, IdleRec
  <2> QED BY <1>1, <1>3, <2>1, StepSame DEF IInv, Ledgers, IdleRec
<1>4. CASE RecDeferred
  BY <1>3, <1>4 DEF RecDeferred, IInv, Typed, Ledgers
<1>5. CASE RecArchive
  <2>1. records' \in [Flights -> Record \cup {None}]
    BY <1>5 DEF RecArchive, IInv, Typed
  <2>2. \A f \in Flights : Sound(f, records'[f])
    BY <1>1, <1>5 DEF RecArchive, IInv, Ledgers
  <2> QED BY <1>3, <1>5, <2>1, <2>2 DEF RecArchive
<1>6. ASSUME NEW f \in Flights, RecWrite(f) PROVE IInv'
  <2>1. /\ records' = [records EXCEPT ![f] = rec.states[f]] /\ rec' = [rec EXCEPT !.dirty = @ \ {f}]
        /\ UNCHANGED <<outside, index, calendar, created, sync, poll>>
    BY <1>6 DEF RecWrite
  <2>2. Typed'
    BY <2>1 DEF IInv, Typed, outside
  <2>3. rec'.states = rec.states /\ rec'.ops = rec.ops
    BY <2>1 DEF IInv, Typed
  <2>4. \A g \in Flights : Sound(g, records'[g])
    BY <2>1 DEF IInv, Typed, Ledgers
  <2> QED BY <2>1, <2>2, <2>3, <2>4, StepSame DEF IInv, Ledgers, Fits
<1>7. CASE RecPlan
  <2> DEFINE ops == PlanReconciliation(rec.states, rec.active, rec.done, Fetched(rec.states, rec.active))
  <2>1. /\ rec' = [rec EXCEPT !.at = "apply", !.ops = ops]
        /\ UNCHANGED <<outside, index, records, calendar, created, sync, poll>>
    BY <1>7 DEF RecPlan
  <2>2. \A o \in ops : o \in Op /\ Fits(o)
    BY PlanFits DEF IInv, Typed, Fetched
  <2> HIDE DEF ops
  <2>3. Typed'
    BY <2>1, <2>2 DEF IInv, Typed, outside
  <2>4. rec'.states = rec.states /\ rec'.ops = ops
    BY <2>1 DEF IInv, Typed
  <2>5. Events' /\ Ledgers'
    BY <2>1, <2>4 DEF IInv, Events, Ledgers, Sound, Known
  <2>6. \A o \in rec'.ops : Fits(o)'
    BY <2>1, <2>2, <2>4 DEF Fits, Known
  <2> QED BY <2>3, <2>5, <2>6 DEF IInv
<1> QED BY <1>2, <1>4, <1>5, <1>6, <1>7

(* What an operation does to the calendar, its answer heard or not, and that
   the entry it leaves is the flight's own (_apply_op_to_ledger). *)
LEMMA CallEffect ==
  ASSUME IInv, NEW o \in rec.ops, calendar' = OnCalendar(o),
         created' = IF o.op = "create" THEN created + 1 ELSE created,
         o.op = "create" => created < MaxEvents,
         \A p \in rec'.ops : p \in rec.ops /\ rec'.states[p.flight] \in Record
  PROVE  /\ created' \in 0..MaxEvents /\ calendar' \subseteq Event /\ Events'
         /\ \A f, r : r \in Record \cup {None} /\ Sound(f, r) => Sound(f, r)'
         /\ \A p \in rec'.ops : Fits(p)'
         /\ \A e \in calendar' : e.id = Entry(o) =>
              e.flight = o.flight /\ e.kind = o.kind /\ e.tagged
         /\ Entry(o) \in EventIds \cup {None}
         /\ Entry(o) \in EventIds => Entry(o) <= created'
<1> USE CalendarAssumption
<1>1. /\ o \in Op /\ Fits(o) /\ rec.states[o.flight] \in Record
      /\ created \in 0..MaxEvents /\ calendar \subseteq Event /\ Events
      /\ \A e \in calendar : e.id <= created
  BY DEF IInv, Typed, Fits, Events
<1>2. CASE o.op = "create"
  <2> DEFINE new == [id |-> created + 1, flight |-> o.flight, kind |-> o.kind,
                     dep |-> rec.states[o.flight].dep, tagged |-> TRUE]
  <2>1. calendar' = calendar \cup {new} /\ created' = created + 1 /\ created < MaxEvents /\ Entry(o) = created + 1
    BY <1>2 DEF OnCalendar, Entry
  <2>2. new \in Event
    <3>1. created + 1 \in EventIds
      BY <1>1, <2>1 DEF EventIds
    <3>2. o.flight \in Flights /\ o.kind \in Kinds /\ rec.states[o.flight].dep \in Deps
      BY <1>1 DEF Op, Record
    <3> QED BY <3>1, <3>2 DEF Event
  <2>3. new.id = created + 1 /\ new.tagged /\ new.flight = o.flight /\ new.kind = o.kind
    OBVIOUS
  <2> HIDE DEF new
  <2>4. \A e \in calendar : e.id # created + 1
    BY <1>1, IdsAreNat DEF Event
  <2>5. Entry(o) \in EventIds
    BY <2>1, <2>2, <2>3 DEF Event
  <2>6. Entry(o) <= created'
    BY <2>1, <1>1
  <2> QED BY <2>1, <2>2, <2>3, <2>4, <2>5, <2>6, NewEvent
<1>3. ASSUME Gentle, created' = created, calendar' \subseteq Event,
             \A e, g \in calendar' : e.id = g.id => e = g
      PROVE  /\ created' \in 0..MaxEvents /\ Events'
             /\ \A f, r : r \in Record \cup {None} /\ Sound(f, r) => Sound(f, r)'
             /\ \A p \in rec'.ops : Fits(p)'
  <2>1. Events'
    BY <1>1, <1>3 DEF Events, Gentle
  <2>2. \A f, r : r \in Record \cup {None} /\ Sound(f, r) => Sound(f, r)'
    BY <1>3, GentleSound
  <2>3. \A p \in rec'.ops : Fits(p)'
    BY <1>3, GentleFits
  <2> QED BY <1>1, <1>3, <2>1, <2>2, <2>3
<1>4. CASE o.op \in {"delete", "forget"}
  <2>1. calendar' \subseteq calendar /\ created' = created /\ Entry(o) = None
    BY <1>4 DEF OnCalendar, Entry
  <2>2. Gentle
    BY <2>1 DEF Gentle
  <2>3. \A e, g \in calendar' : e.id = g.id => e = g
    BY <1>1, <2>1 DEF Events
  <2>4. \A e \in calendar' : e.id # None
    BY <1>1, <2>1, IdsAreNat DEF Event
  <2> QED BY <1>1, <1>3, <2>1, <2>2, <2>3, <2>4, IdsAreNat
<1>5. CASE o.op \in {"adopt", "update"}
  <2> DEFINE F(e) == IF e.id # o.id THEN e
                     ELSE IF o.op = "adopt" THEN [e EXCEPT !.tagged = TRUE]
                     ELSE [e EXCEPT !.dep = rec.states[o.flight].dep]
  <2>1. calendar' = {F(e) : e \in calendar} /\ created' = created /\ Entry(o) = o.id
    BY <1>5 DEF OnCalendar, Entry
  <2>2. rec.states[o.flight].dep \in Deps
    BY <1>1 DEF Record
  <2>3. \A e \in Event : /\ F(e) \in Event /\ F(e).id = e.id /\ F(e).flight = e.flight /\ F(e).kind = e.kind
                         /\ e.tagged => F(e).tagged
                         /\ o.op = "adopt" /\ e.id = o.id => F(e).tagged
    BY <2>2 DEF Event
  <2> HIDE DEF F
  <2>4. calendar' \subseteq Event
    BY <1>1, <2>1, <2>3
  <2>5. Gentle
    BY <1>1, <2>1, <2>3 DEF Gentle
  <2>6. \A e, g \in calendar' : e.id = g.id => e = g
    BY <1>1, <2>1, <2>3 DEF Events
  <2>7. \A e \in calendar' : e.id = Entry(o) => e.flight = o.flight /\ e.kind = o.kind /\ e.tagged
    BY <1>1, <2>1, <2>3 DEF Fits
  <2>8. Entry(o) \in EventIds \cup {None} /\ (Entry(o) \in EventIds => Entry(o) <= created')
    BY <1>1, <2>1 DEF Fits, Known, Op
  <2> QED BY <1>3, <2>1, <2>4, <2>5, <2>6, <2>7, <2>8
<1>6. o.op \in {"create", "update", "adopt", "forget", "delete"}
  BY <1>1 DEF Op
<1> QED BY <1>2, <1>4, <1>5, <1>6

\* The entry an operation leaves has the ledger's type.
LEMMA EntryRange ==
  ASSUME IInv, NEW o \in rec.ops, o.op = "create" => created < MaxEvents
  PROVE  Entry(o) \in EventIds \cup {None}
BY CalendarAssumption DEF IInv, Typed, Fits, Entry, EventIds

(* One call of a reconcile: applied, refused, or its answer lost. *)
LEMMA ApplyStep ==
  ASSUME IInv, NEW o \in rec.ops, RecApply(o) \/ RecOpFails(o) \/ RecOpLost(o)
  PROVE  IInv'
<1>1. \A p \in rec.ops : p \in Op /\ rec.states[p.flight] \in Record
  BY DEF IInv, Typed, Fits
<1>2. CASE RecOpFails(o)
  <2>1. rec' = [rec EXCEPT !.ops = @ \ {o}] /\ UNCHANGED <<outside, index, records, calendar, created, sync, poll>>
    BY <1>2 DEF RecOpFails
  <2>2. rec'.states = rec.states /\ rec'.ops \subseteq rec.ops
    BY <2>1 DEF IInv, Typed
  <2>3. Typed'
    BY <2>1 DEF IInv, Typed, outside
  <2> QED BY <1>1, <2>1, <2>2, <2>3, StepSame DEF IInv, Ledgers
<1>3. CASE RecOpLost(o)
  <2>1. /\ rec' = [rec EXCEPT !.ops = @ \ {o}] /\ calendar' = OnCalendar(o)
        /\ created' = (IF o.op = "create" THEN created + 1 ELSE created)
        /\ o.op = "create" => created < MaxEvents
        /\ UNCHANGED <<outside, index, records, sync, poll>>
    BY <1>3 DEF RecOpLost
  <2>2. rec'.states = rec.states /\ rec'.ops \subseteq rec.ops
    BY <2>1 DEF IInv, Typed
  <2>3. /\ created' \in 0..MaxEvents /\ calendar' \subseteq Event /\ Events'
        /\ \A f, r : r \in Record \cup {None} /\ Sound(f, r) => Sound(f, r)'
        /\ \A p \in rec'.ops : Fits(p)'
    BY <1>1, <2>1, <2>2, CallEffect
  <2>4. Typed'
    BY <2>1, <2>3 DEF IInv, Typed, outside
  <2>5. Ledgers'
    BY <2>1, <2>2, <2>3 DEF IInv, Typed, Ledgers
  <2> QED BY <2>3, <2>4, <2>5 DEF IInv
<1>4. CASE RecApply(o)
  <2> DEFINE f == o.flight
             new == [rec.states[f] EXCEPT !.ledger[o.kind] = Entry(o)]
  <2>1. /\ rec' = [rec EXCEPT !.ops = @ \ {o}, !.dirty = @ \cup {o.flight},
                              !.states[o.flight].ledger[o.kind] = Entry(o)]
        /\ calendar' = OnCalendar(o)
        /\ created' = (IF o.op = "create" THEN created + 1 ELSE created)
        /\ o.op = "create" => created < MaxEvents
        /\ UNCHANGED <<outside, index, records, sync, poll>>
    BY <1>4 DEF RecApply
  <2>2. f \in Flights /\ o.kind \in Kinds /\ rec.states[f] \in Record
    BY <1>1 DEF Op
  <2>3. Entry(o) \in EventIds \cup {None}
    BY <2>1, EntryRange
  <2>4. /\ new \in Record /\ new.ledger[o.kind] = Entry(o)
        /\ \A k \in Kinds \ {o.kind} : new.ledger[k] = rec.states[f].ledger[k]
    BY <2>2, <2>3 DEF Record, Ledger
  <2>5. /\ rec'.states = [rec.states EXCEPT ![f] = new] /\ rec'.ops = rec.ops \ {o}
        /\ rec'.dirty = rec.dirty \cup {f}
        /\ rec' \in [at : {"idle", "due", "fetch", "apply"}, active : SUBSET Flights,
                     tombs : SUBSET Flights, done : SUBSET Flights,
                     states : [Flights -> Record \cup {None}], ops : SUBSET Op, dirty : SUBSET Flights]
    <3> HIDE DEF new
    <3>0. rec.states \in [Flights -> Record \cup {None}]
      BY DEF IInv, Typed
    <3>1. rec' = [rec EXCEPT !.ops = @ \ {o}, !.dirty = @ \cup {f}, !.states = [rec.states EXCEPT ![f] = new]]
      BY <2>1, <2>2, <3>0 DEF new
    <3>2. [rec.states EXCEPT ![f] = new] \in [Flights -> Record \cup {None}]
      BY <2>2, <2>4, <3>0
    <3> QED BY <2>2, <3>1, <3>2 DEF IInv, Typed
  <2> HIDE DEF new
  <2>6. \A p \in rec'.ops : p \in rec.ops /\ rec'.states[p.flight] \in Record
    BY <1>1, <2>2, <2>4, <2>5 DEF IInv, Typed, Op
  <2>7. /\ created' \in 0..MaxEvents /\ calendar' \subseteq Event /\ Events'
        /\ \A g, r : r \in Record \cup {None} /\ Sound(g, r) => Sound(g, r)'
        /\ \A p \in rec'.ops : Fits(p)'
        /\ \A e \in calendar' : e.id = Entry(o) => e.flight = o.flight /\ e.kind = o.kind /\ e.tagged
        /\ Entry(o) \in EventIds => Entry(o) <= created'
    BY <2>1, <2>6, CallEffect
  <2>8. Typed'
    BY <2>1, <2>5, <2>7 DEF IInv, Typed, outside
  <2>9. \A g, r : r \in Record \cup {None} /\ Sound(g, r) => Sound(g, r)'
    BY <2>7
  <2>10. ASSUME NEW g \in Flights PROVE Sound(g, rec.states[g])'
    <3>1. /\ rec.states[g] \in Record \cup {None} /\ rec'.states[g] \in Record \cup {None}
          /\ Sound(g, rec.states[g])
      BY <2>5 DEF IInv, Typed, Ledgers
    <3>2. CASE g # f
      <4>1. rec'.states[g] = rec.states[g]
        BY <2>5, <3>2 DEF IInv, Typed
      <4> QED BY <2>9, <3>1, <4>1
    <3>3. CASE g = f
      <4>1. rec'.states[g] = new
        BY <2>2, <2>5, <3>3 DEF IInv, Typed
      <4>2. \A k \in Kinds :
              /\ rec.states[f].ledger[k] \in EventIds => rec.states[f].ledger[k] <= created'
              /\ \A e \in calendar' :
                   e.id = rec.states[f].ledger[k] => e.flight = f /\ e.kind = k /\ e.tagged
        <5>1. PICK r : r = rec.states[f]
          OBVIOUS
        <5>2. r \in Record /\ r # None /\ Sound(f, r)'
          BY <2>2, <2>7, <3>1, <3>3, <5>1, NoneAssumption
        <5> QED BY <5>1, <5>2 DEF Sound, Known, EventIds
      <4>3. \A k \in Kinds :
              /\ new.ledger[k] \in EventIds => new.ledger[k] <= created'
              /\ \A e \in calendar' :
                   e.id = new.ledger[k] => e.flight = f /\ e.kind = k /\ e.tagged
        BY <2>4, <2>7, <4>2
      <4>4. PICK n : n = new
        OBVIOUS
      <4>5. \A k \in Kinds :
              /\ n.ledger[k] \in EventIds => n.ledger[k] <= created'
              /\ \A e \in calendar' :
                   e.id = n.ledger[k] => e.flight = f /\ e.kind = k /\ e.tagged
        BY <4>3, <4>4
      <4>6. Sound(f, n)'
        BY <4>5 DEF Sound, Known, EventIds
      <4>7. f = g /\ n = rec'.states[g]
        BY <3>3, <4>1, <4>4
      <4> QED BY <4>6, <4>7 DEF Sound, Known
    <3> QED BY <3>2, <3>3
  <2>11. Ledgers'
    <3>1. \A g \in Flights : Sound(g, records[g])'
      <4>1. records' = records /\ \A g \in Flights : records[g] \in Record \cup {None} /\ Sound(g, records[g])
        BY <2>1 DEF IInv, Typed, Ledgers
      <4> QED BY <2>9, <4>1
    <3>2. Sound(poll.flight, poll.prior)'
      <4>1. poll' = poll /\ poll.prior \in Record \cup {None} /\ Sound(poll.flight, poll.prior)
        BY <2>1 DEF IInv, Typed, Ledgers
      <4> QED BY <2>9, <4>1
    <3> QED BY <2>10, <3>1, <3>2 DEF Ledgers
  <2> QED BY <2>7, <2>8, <2>11 DEF IInv
<1> QED BY <1>2, <1>3, <1>4

LEMMA KilledStep ==
  ASSUME IInv, Killed PROVE IInv'
<1>1. UNCHANGED <<outside, index, records, calendar, created>>
  BY DEF Killed
<1>2. /\ sync' \in {sync, IdleSync} /\ poll' \in {poll, IdlePoll} /\ rec' \in {rec, IdleRec}
  BY DEF Killed
<1>3. Typed'
  BY <1>1, <1>2 DEF IInv, Typed, outside, IdleSync, IdlePoll, IdleRec
<1>4. \A f \in Flights : Sound(f, rec'.states[f])
  BY <1>2 DEF IInv, Ledgers, IdleRec, Sound
<1>5. Sound(poll'.flight, poll'.prior)
  BY <1>2 DEF IInv, Ledgers, IdlePoll, Sound
<1>6. \A o \in rec'.ops : o \in rec.ops /\ rec'.states[o.flight] \in Record
  BY <1>2 DEF IInv, Fits, IdleRec
<1> QED BY <1>1, <1>3, <1>4, <1>5, <1>6, StepSame DEF IInv, Ledgers

LEMMA Initially == Init => IInv
<1> SUFFICES ASSUME Init PROVE IInv
  OBVIOUS
<1>1. Typed
  BY CalendarAssumption DEF Init, Typed, Deps, IdleSync, IdlePoll, IdleRec
<1>2. Ledgers
  BY DEF Init, Ledgers, Sound, IdlePoll, IdleRec
<1> QED BY <1>1, <1>2 DEF Init, IInv, Events, IdleRec

LEMMA Inductive == IInv /\ [Next]_vars => IInv'
<1> SUFFICES ASSUME IInv, [Next]_vars PROVE IInv'
  OBVIOUS
<1>1. CASE UNCHANGED vars
  BY <1>1 DEF vars, outside, IInv, Typed, Events, Ledgers, Sound, Known, Fits
<1>2. CASE Reconcile
  BY <1>2, RunStep, ApplyStep DEF Reconcile
<1> QED BY <1>1, <1>2, SyncStep, PollStep, KilledStep, WorldStep DEF Next

(* The reconcile moves and deletes only what it made or adopted: no ledger, on
   disk or in a run's hands, names an event that is not tagged for that flight
   and kind, whichever jobs overlapped, were killed or were refused. *)
THEOREM LedgersOwn == Spec => []LedgerOwn
<1>1. IInv => LedgerOwn
  BY DEF IInv, Ledgers, Sound, LedgerOwn, Owns
<1> QED BY <1>1, Initially, Inductive, PTL DEF Spec

-----------------------------------------------------------------------------
(* Nothing flight-assist put on the calendar is forgotten while no job was  *)
(* killed and no answer lost, but for a flight that has flown, was listed    *)
(* again, was in two jobs' hands or had an event outside the window.  The    *)
(* argument is about one such flight at a time: one job at most has its      *)
(* record in hand, so a poll or a run writes over the very record it read,   *)
(* and a block a run makes anew is not there any more.                       *)

SyncTyped ==
  /\ sync \in [at : {"idle", "files"}, listed : SUBSET Flights, todo : SUBSET Flights]
  /\ kills \in Nat

\* The flights the property speaks of.
Followed == Flights \ (arrived \cup relisted \cup raced \cup strayed)

Handed == Shared \subseteq raced

\* What the index holds or is about to.
Listing == IF sync.at = "files" THEN sync.listed ELSE index

\* What a poll read is what the disk still holds.
Polling ==
  poll.flight # None /\ poll.flight \in Followed =>
    poll.flight \in index \cap Listing /\ poll.prior = records[poll.flight]

\* A flight to be seeded has no record to lose.
Seeding ==
  /\ sync.at = "idle" => sync.todo = {}
  /\ sync.todo \subseteq (sync.listed \ index) \cup (index \ sync.listed)
  /\ \A f \in Followed :
       /\ f \in upstream \ Listing => f \notin index /\ records[f] = None
       /\ f \in sync.todo \cap sync.listed => records[f] = None

\* The ledgers that count: a run's own until it has written them.
Held(f) == IF f \in InRun THEN rec.states[f] ELSE records[f]

AllHeld ==
  \A e \in calendar : e.tagged /\ e.flight \in Followed =>
    Held(e.flight) # None /\ Held(e.flight).ledger[e.kind] = e.id

\* A run's copies differ from the disk only where it is to write.
Copies ==
  /\ rec.done \subseteq arrived
  /\ rec.dirty \subseteq InRun /\ \A o \in rec.ops : o.flight \in InRun
  /\ rec.at = "fetch" => Tombstones(rec.states, rec.active) \subseteq rec.tombs
  /\ \A f \in InRun : rec.states[f] # None
  /\ \A f \in Followed \cap InRun :
       records[f] # None /\ (f \notin rec.dirty => records[f] = rec.states[f])

\* An operation names the entry it replaces, and is the only one for it.
Planned(o) ==
  o.flight \in Followed =>
    /\ rec.states[o.flight].ledger[o.kind] = IF o.op = "adopt" THEN None ELSE o.id
    /\ o.op \in {"create", "forget"} => \A e \in calendar : e.id # o.id
    /\ \A p \in rec.ops : p.flight = o.flight /\ p.kind = o.kind => p = o

Tidy == Handed /\ Polling /\ Seeding /\ AllHeld /\ Copies /\ \A o \in rec.ops : Planned(o)
Kept == kills = 0 => Tidy

SInv == IInv /\ SyncTyped /\ Kept

LEMMA SyncTypes ==
  ASSUME IInv, SyncTyped, [Next]_vars PROVE SyncTyped'
<1> USE DEF SyncTyped
<1>1. CASE UNCHANGED vars
  BY <1>1 DEF vars, counts
<1>2. CASE Environment
  BY <1>2 DEF Environment, List, Unlist, Reschedule, CallOff, Arrive, ByAirEvent, UserDeletes
<1>3. CASE Killed
  BY <1>3 DEF Killed, IdleSync
<1>4. CASE Polled
  BY <1>4 DEF Polled, PollRead, PollWrite, PollGone, counts
<1>5. CASE Reconcile
  <2>1. CASE RecRead \/ RecDeferred \/ RecPlan \/ RecArchive
    BY <2>1 DEF RecRead, RecDeferred, RecPlan, RecArchive, counts
  <2>2. ASSUME NEW f \in Flights, RecWrite(f) PROVE SyncTyped'
    BY <2>2 DEF RecWrite, counts
  <2>3. ASSUME NEW o \in rec.ops, RecApply(o) \/ RecOpFails(o) \/ RecOpLost(o) PROVE SyncTyped'
    BY <2>3 DEF RecApply, RecOpFails, RecOpLost, counts
  <2> QED BY <1>5, <2>1, <2>2, <2>3 DEF Reconcile
<1>6. CASE Sync
  <2>1. kills' = kills
    BY <1>6 DEF Sync, SyncList, SyncAdd, SyncRemove, SyncIndex, counts
  <2>2. CASE SyncList \/ SyncIndex
    BY <2>1, <2>2 DEF SyncList, SyncIndex, IdleSync, IInv, Typed
  <2>3. ASSUME NEW f \in Flights, SyncAdd(f) \/ SyncRemove(f)
        PROVE  sync' \in [at : {"idle", "files"}, listed : SUBSET Flights, todo : SUBSET Flights]
    BY <2>3 DEF SyncAdd, SyncRemove
  <2> QED BY <1>6, <2>1, <2>2, <2>3 DEF Sync
<1> QED BY <1>1, <1>2, <1>3, <1>4, <1>5, <1>6 DEF Next

(* What the planner plans is one operation for an entry, named by it; and what
   it makes anew or forgets is gone, unless it lay outside the window
   (calendar_reconcile.py, collect_events). *)
LEMMA PlanPlanned ==
  ASSUME IInv, NEW active \in SUBSET Flights, NEW done,
         NEW ops, ops = PlanReconciliation(rec.states, active, done, Fetched(rec.states, active)),
         NEW o \in ops
  PROVE  /\ rec.states[o.flight].ledger[o.kind] = IF o.op = "adopt" THEN None ELSE o.id
         /\ o.op \in {"create", "forget"} /\ o.flight \notin OutOfWindow(rec.states, active) =>
              \A e \in calendar : e.id # o.id
         /\ \A p \in ops : p.flight = o.flight /\ p.kind = o.kind => p = o
         /\ o.flight \in Present(rec.states, active) \cup Tombstones(rec.states, active)
<1> DEFINE r == rec.states
           events == Fetched(r, active)
           Of(f) == CASE Disposition(r, active, done, f) = "active" ->
                           PlanBoarding(r, events, f) \cup PlanFlightEvent(r, events, f)
                      [] Disposition(r, active, done, f) \in {"cancelled", "switched_away"} ->
                           PlanTeardown(r, f)
                      [] OTHER -> {}
           In(f) == f \in Present(r, active) \cup Tombstones(r, active)
<1>1. \A p \in ops : \E f : In(f) /\ p \in Of(f)
  BY DEF PlanReconciliation
<1>2. \A f : In(f) => f \in Flights /\ r[f] \in Record /\ r[f] # None
  BY DEF Present, Tombstones, Tracked, IInv, Typed
<1>3. ASSUME NEW f, In(f), Disposition(r, active, done, f) = "active",
             f \notin OutOfWindow(r, active), NEW k \in Kinds,
             LiveEvent(events, r[f].ledger[k]) = {}
      PROVE  \A e \in calendar : e.id # r[f].ledger[k]
  <2>1. f \in Present(r, active)
    BY <1>3 DEF Disposition, Tombstones
  <2> QED BY <1>3, <2>1 DEF OutOfWindow, LiveEvent
<1>4. ASSUME NEW f, In(f), NEW p \in Of(f), Disposition(r, active, done, f) # "active"
      PROVE  /\ p.kind \in Kinds
             /\ p = [op |-> "delete", kind |-> p.kind, flight |-> f, id |-> r[f].ledger[p.kind]]
  <2>1. p \in PlanTeardown(r, f)
    BY <1>4
  <2>2. PICK k \in Kinds : p = [op |-> "delete", kind |-> k, flight |-> f, id |-> r[f].ledger[k]]
    BY <2>1 DEF PlanTeardown
  <2> QED BY <2>2
<1> HIDE DEF events
<1>5. ASSUME NEW f, In(f), NEW p \in PlanBoarding(r, events, f)
      PROVE  LET id == r[f].ledger["boarding"] IN
             \/ /\ p = [op |-> "create", kind |-> "boarding", flight |-> f, id |-> id]
                /\ LiveEvent(events, id) = {}
             \/ /\ p = [op |-> "update", kind |-> "boarding", flight |-> f, id |-> id]
                /\ LiveEvent(events, id) # {}
  BY <1>5 DEF PlanBoarding
<1>6. ASSUME NEW f, In(f)
      PROVE  LET id == r[f].ledger["flight"] IN
             \E best : \A p \in PlanFlightEvent(r, events, f) :
               \/ /\ p = [op |-> "adopt", kind |-> "flight", flight |-> f, id |-> best]
                  /\ id = None
               \/ /\ p = [op |-> "forget", kind |-> "flight", flight |-> f, id |-> id]
                  /\ LiveEvent(events, id) = {} /\ id # None
               \/ /\ p = [op |-> "update", kind |-> "flight", flight |-> f, id |-> id]
                  /\ LiveEvent(events, id) # {} /\ id # None
  <2> DEFINE match == Matches(r, events, f)
             nearest == {e \in match : \A g \in match : Apart(e, r[f]) <= Apart(g, r[f])}
  <2>1. PICK best : best = (CHOOSE e \in nearest : TRUE).id
    OBVIOUS
  <2> QED BY <2>1 DEF PlanFlightEvent
<1>7. ASSUME NEW f, In(f), NEW p \in Of(f)
      PROVE  /\ p.flight = f
             /\ r[f].ledger[p.kind] = IF p.op = "adopt" THEN None ELSE p.id
             /\ p.op \in {"create", "forget"} /\ f \notin OutOfWindow(r, active) =>
                  \A e \in calendar : e.id # p.id
             /\ \A q \in Of(f) : q.kind = p.kind => q = p
  <2>1. CASE Disposition(r, active, done, f) # "active"
    BY <1>4, <1>7, <2>1
  <2>2. CASE Disposition(r, active, done, f) = "active"
    <3>1. \A q \in Of(f) : q \in PlanBoarding(r, events, f) \/ q \in PlanFlightEvent(r, events, f)
      BY <2>2
    <3>2. \A k \in Kinds : LiveEvent(events, r[f].ledger[k]) = {} /\ f \notin OutOfWindow(r, active) =>
            \A e \in calendar : e.id # r[f].ledger[k]
      BY <1>3, <1>7, <2>2
    <3> HIDE DEF Of, In, r
    <3>3. CASE p \in PlanBoarding(r, events, f)
      BY <1>5, <1>6, <1>7, <3>1, <3>2, <3>3
    <3>4. CASE p \in PlanFlightEvent(r, events, f)
      <4>1. PICK best : \A q \in PlanFlightEvent(r, events, f) :
               \/ /\ q = [op |-> "adopt", kind |-> "flight", flight |-> f, id |-> best]
                  /\ r[f].ledger["flight"] = None
               \/ /\ q = [op |-> "forget", kind |-> "flight", flight |-> f, id |-> r[f].ledger["flight"]]
                  /\ LiveEvent(events, r[f].ledger["flight"]) = {} /\ r[f].ledger["flight"] # None
               \/ /\ q = [op |-> "update", kind |-> "flight", flight |-> f, id |-> r[f].ledger["flight"]]
                  /\ LiveEvent(events, r[f].ledger["flight"]) # {} /\ r[f].ledger["flight"] # None
        BY <1>6, <1>7
      <4> QED BY <1>5, <1>7, <3>1, <3>2, <3>4, <4>1
    <3> QED BY <1>7, <3>1, <3>3, <3>4
  <2> QED BY <2>1, <2>2
<1> HIDE DEF Of, In
<1>8. PICK f : In(f) /\ o \in Of(f)
  BY <1>1
<1>9. ASSUME NEW p \in ops, p.flight = o.flight, p.kind = o.kind PROVE p = o
  <2>1. PICK g : In(g) /\ p \in Of(g)
    BY <1>1
  <2> QED BY <1>7, <1>8, <1>9, <2>1
<1> QED BY <1>7, <1>8, <1>9 DEF In

\* The records in a run's hands do not depend on the ledgers it changes.
LEMMA SameRun ==
  ASSUME rec'.at \in {"fetch", "apply"}, rec.at \in {"fetch", "apply"},
         rec'.active = rec.active, rec'.tombs = rec.tombs, rec.active \subseteq Flights,
         \A f \in Flights : rec'.states[f] = None <=> rec.states[f] = None
  PROVE  InRun' = InRun
<1>1. Present(rec.states, rec.active)' = Present(rec.states, rec.active)
  BY DEF Present
<1> QED BY <1>1 DEF InRun

(* byAir and the user: a flight listed again is one a record may be lost of. *)
LEMMA TidyWorld ==
  ASSUME IInv, SyncTyped, Tidy, Environment PROVE Tidy'
<1>1. ASSUME NEW f \in Flights, List(f) \/ Unlist(f) \/ Reschedule(f) \/ CallOff(f) \/ Arrive(f)
      PROVE  Tidy'
  <2>1. /\ UNCHANGED <<index, records, calendar, created, sync, poll, rec, raced, strayed>>
        /\ arrived \subseteq arrived' /\ relisted \subseteq relisted'
    BY <1>1 DEF List, Unlist, Reschedule, CallOff, Arrive, history
  <2>2. \A g \in upstream' \ upstream : g \in relisted' \/ (g \notin index /\ records[g] = None)
    BY <1>1 DEF List, Unlist, Reschedule, CallOff, Arrive
  <2>3. Followed' \subseteq Followed /\ InRun' = InRun /\ Shared' = Shared /\ Listing' = Listing
    BY <2>1 DEF Followed, InRun, Present, Shared, InSync, InPoll, Listing
  <2>4. Handed' /\ Polling' /\ Copies'
    BY <2>1, <2>3 DEF Tidy, Handed, Polling, Copies
  <2>5. Seeding'
    BY <2>1, <2>2, <2>3 DEF Tidy, Seeding, Followed
  <2>6. AllHeld'
    BY <2>1, <2>3 DEF Tidy, AllHeld, Held
  <2>7. \A o \in rec'.ops : Planned(o)'
    BY <2>1, <2>3 DEF Tidy, Planned
  <2> QED BY <2>4, <2>5, <2>6, <2>7 DEF Tidy
<1>2. ASSUME UNCHANGED <<outside, history, index, records, sync, poll, rec>>,
             \A e \in calendar' : e.tagged => e \in calendar,
             \A o \in rec.ops, e \in calendar' : e.id = o.id => e \in calendar
      PROVE  Tidy'
  <2>1. Followed' = Followed /\ InRun' = InRun /\ Shared' = Shared /\ Listing' = Listing
    BY <1>2 DEF Followed, InRun, Present, Shared, InSync, InPoll, Listing, outside, history
  <2>2. Handed' /\ Polling' /\ Copies' /\ Seeding'
    BY <1>2, <2>1 DEF Tidy, Handed, Polling, Copies, Seeding, outside, history
  <2>3. AllHeld'
    BY <1>2, <2>1 DEF Tidy, AllHeld, Held
  <2>4. \A o \in rec'.ops : Planned(o)'
    BY <1>2, <2>1 DEF Tidy, Planned
  <2> QED BY <2>2, <2>3, <2>4 DEF Tidy
<1>3. ASSUME NEW f \in Flights, ByAirEvent(f) PROVE Tidy'
  <2>1. \A o \in rec.ops : Known(o.id) /\ o.id \in EventIds \cup {None}
    BY DEF IInv, Fits, Typed, Op
  <2>2. \A o \in rec.ops : o.id # created + 1
    BY <2>1, CalendarAssumption DEF Known, EventIds, IInv, Typed
  <2> DEFINE new == [id |-> created + 1, flight |-> f, kind |-> "flight", dep |-> truth[f].dep,
                     tagged |-> FALSE]
  <2>3. calendar' = calendar \cup {new} /\ UNCHANGED <<outside, history, index, records, sync, poll, rec>>
    BY <1>3 DEF ByAirEvent
  <2>4. new.id = created + 1 /\ ~new.tagged
    OBVIOUS
  <2> HIDE DEF new
  <2> QED BY <1>2, <2>2, <2>3, <2>4
<1>4. ASSUME NEW e \in calendar, UserDeletes(e) PROVE Tidy'
  BY <1>2, <1>4 DEF UserDeletes
<1> QED BY <1>1, <1>3, <1>4 DEF Environment

(* sync_tripit: it seeds only what had no record and drops only what holds
   nothing. *)
LEMMA TidySync ==
  ASSUME IInv, SyncTyped, Tidy, Sync PROVE Tidy'
<1>1. CASE SyncList
  <2>1. /\ sync' = [at |-> "files", listed |-> upstream,
                    todo |-> (upstream \ index) \cup (index \ upstream)]
        /\ sync.at = "idle" /\ raced' = raced \cup Shared'
        /\ UNCHANGED <<outside, relisted, strayed, index, records, calendar, created, poll, rec>>
    BY <1>1 DEF SyncList, Takes
  <2>2. Followed' \subseteq Followed /\ InRun' = InRun /\ InPoll' = InPoll /\ Listing' = upstream /\ Listing = index
    BY <2>1 DEF Followed, InRun, Present, InPoll, Listing, outside
  <2>3. Handed'
    BY <2>1 DEF Handed
  <2>4. Polling'
    <3>1. SUFFICES ASSUME poll.flight # None, poll.flight \in Followed'
                   PROVE  poll.flight \in index \cap upstream /\ poll.prior = records[poll.flight]
      BY <2>1, <2>2 DEF Polling
    <3>2. poll.flight \in index /\ poll.prior = records[poll.flight]
      BY <2>2, <3>1 DEF Tidy, Polling
    <3>3. poll.flight \notin Shared'
      BY <2>1, <3>1 DEF Followed
    <3>4. poll.flight \notin sync'.todo
      BY <2>1, <3>1, <3>3 DEF Shared, InSync, InPoll
    <3> QED BY <2>1, <3>2, <3>4
  <2>5. Seeding'
    BY <2>1, <2>2 DEF Tidy, Seeding, outside
  <2>6. Copies'
    BY <2>1, <2>2 DEF Tidy, Copies, outside
  <2>7. AllHeld'
    BY <2>1, <2>2 DEF Tidy, AllHeld, Held
  <2>8. \A o \in rec'.ops : Planned(o)'
    BY <2>1, <2>2 DEF Tidy, Planned
  <2> QED BY <2>3, <2>4, <2>5, <2>6, <2>7, <2>8 DEF Tidy
<1>2. CASE SyncIndex
  <2>1. /\ index' = sync.listed /\ sync.at = "files" /\ sync' = IdleSync /\ sync.todo = {}
        /\ UNCHANGED <<outside, history, records, calendar, created, poll, rec>>
    BY <1>2 DEF SyncIndex
  <2>2. Followed' = Followed /\ InRun' = InRun /\ Listing' = sync.listed /\ Listing = sync.listed
    BY <2>1 DEF Followed, InRun, Present, Listing, outside, history, IdleSync
  <2>3. Handed'
    BY <2>1, <2>2 DEF Tidy, Handed, Shared, InSync, InPoll, IdleSync, history
  <2>4. Polling'
    BY <2>1, <2>2 DEF Tidy, Polling
  <2>5. Seeding'
    BY <2>1, <2>2 DEF Tidy, Seeding, IdleSync, outside
  <2>6. Copies'
    BY <2>1, <2>2 DEF Tidy, Copies, outside
  <2>7. AllHeld'
    BY <2>1, <2>2 DEF Tidy, AllHeld, Held
  <2>8. \A o \in rec'.ops : Planned(o)'
    BY <2>1, <2>2 DEF Tidy, Planned
  <2> QED BY <2>3, <2>4, <2>5, <2>6, <2>7, <2>8 DEF Tidy
<1>3. ASSUME NEW f \in sync.todo, NEW r, records' = [records EXCEPT ![f] = r],
             f \in Followed => \A e \in calendar : e.tagged /\ e.flight = f => r = records[f],
             r = None \/ f \in sync.listed \/ r = records[f],
             sync.at = "files", sync' = [sync EXCEPT !.todo = @ \ {f}],
             UNCHANGED <<outside, history, index, calendar, created, poll, rec>>
      PROVE  Tidy'
  <2>1. /\ sync'.at = "files" /\ sync'.listed = sync.listed /\ sync'.todo = sync.todo \ {f}
        /\ f \in Flights
        /\ \A g \in Flights : records'[g] = IF g = f THEN r ELSE records[g]
    BY <1>3 DEF SyncTyped, IInv, Typed
  <2>2. /\ Followed' = Followed /\ InRun' = InRun /\ InPoll' = InPoll
        /\ Listing' = sync.listed /\ Listing = sync.listed
    BY <1>3, <2>1 DEF Followed, InRun, Present, InPoll, Listing, outside, history
  <2>3. f \in Followed => f \notin InPoll /\ f \notin InRun
    BY <1>3 DEF Tidy, Handed, Shared, InSync, Followed
  <2>4. Handed'
    BY <1>3, <2>1, <2>2 DEF Tidy, Handed, Shared, InSync, history
  <2>5. Polling'
    BY <1>3, <2>1, <2>2, <2>3 DEF Tidy, Polling, InPoll, Followed
  <2>6. Seeding'
    <3>1. sync'.todo \subseteq (sync'.listed \ index') \cup (index' \ sync'.listed)
      BY <1>3, <2>1 DEF Tidy, Seeding
    <3>2. ASSUME NEW g \in Followed, g \in upstream \ sync.listed PROVE g \notin index /\ records'[g] = None
      BY <1>3, <2>1, <2>2, <3>2 DEF Tidy, Seeding, Followed
    <3>3. ASSUME NEW g \in Followed, g \in sync'.todo \cap sync.listed PROVE records'[g] = None
      BY <1>3, <2>1, <2>2, <3>3 DEF Tidy, Seeding, Followed
    <3> QED BY <1>3, <2>1, <2>2, <3>1, <3>2, <3>3 DEF Seeding, outside
  <2>7. Copies'
    BY <1>3, <2>1, <2>2, <2>3 DEF Tidy, Copies, outside, Followed
  <2>8. AllHeld'
    BY <1>3, <2>1, <2>2, <2>3 DEF Tidy, AllHeld, Held, Followed
  <2>9. \A o \in rec'.ops : Planned(o)'
    BY <1>3, <2>2 DEF Tidy, Planned
  <2> QED BY <2>4, <2>5, <2>6, <2>7, <2>8, <2>9 DEF Tidy
<1>4. ASSUME NEW f \in sync.todo, f \in Followed, NEW e \in calendar, e.tagged, e.flight = f
      PROVE  records[f] # None /\ records[f].ledger[e.kind] = e.id /\ e.id # None /\ e.kind \in Kinds
  <2>1. f \notin InRun
    BY <1>4 DEF Tidy, Handed, Shared, InSync, Followed
  <2>2. e.id # None /\ e.kind \in Kinds
    BY IdsAreNat DEF IInv, Typed, Event
  <2> QED BY <1>4, <2>1, <2>2 DEF Tidy, AllHeld, Held
<1>5. ASSUME NEW f \in Flights, SyncAdd(f) PROVE Tidy'
  <2>1. f \in sync.todo \cap sync.listed
    BY <1>5 DEF SyncAdd
  <2>2. f \in Followed => records[f] = None
    BY <2>1 DEF Tidy, Seeding
  <2>3. /\ sync.at = "files" /\ records' = [records EXCEPT ![f] = Seeded]
        /\ sync' = [sync EXCEPT !.todo = @ \ {f}]
        /\ UNCHANGED <<outside, history, index, calendar, created, poll, rec>>
    BY <1>5 DEF SyncAdd
  <2> QED BY <1>3, <1>4, <2>1, <2>2, <2>3
<1>6. ASSUME NEW f \in Flights, SyncRemove(f) PROVE Tidy'
  <2>1. /\ sync.at = "files" /\ f \in sync.todo
        /\ sync' = [sync EXCEPT !.todo = @ \ {f}]
        /\ UNCHANGED <<outside, history, index, calendar, created, poll, rec>>
    BY <1>6 DEF SyncRemove
  <2>2. \/ records' = [records EXCEPT ![f] = records[f]]
        \/ /\ records' = [records EXCEPT ![f] = None]
           /\ records[f] = None \/ records[f].ledger = NoEntries
    BY <1>6 DEF SyncRemove, Tracked, IInv, Typed
  <2>3. f \in Followed => \A e \in calendar : e.tagged /\ e.flight = f =>
          ~(records[f] = None \/ records[f].ledger = NoEntries)
    BY <1>4, <2>1, NoneOwed
  <2> QED BY <1>3, <2>1, <2>2, <2>3
<1> QED BY <1>1, <1>2, <1>5, <1>6 DEF Sync

(* A poll rewrites the record it read, which nothing changed meanwhile. *)
LEMMA TidyPoll ==
  ASSUME IInv, SyncTyped, Tidy, Polled PROVE Tidy'
<1>1. ASSUME rec' \in {rec, ReconcileOwed}
      PROVE  /\ rec'.done = rec.done /\ rec'.states = rec.states /\ rec'.ops = rec.ops
             /\ rec'.dirty = rec.dirty /\ InRun' = InRun
             /\ rec'.at = "fetch" => rec' = rec
  <2>1. CASE rec' = rec
    BY <2>1 DEF InRun, Present
  <2>2. CASE rec' = [rec EXCEPT !.at = "due"] /\ rec.at = "idle"
    BY <2>2 DEF InRun, IInv, Typed
  <2> QED BY <1>1, <2>1, <2>2 DEF ReconcileOwed
<1>2. ASSUME UNCHANGED <<index, records, calendar, sync, upstream, arrived>>,
             rec' \in {rec, ReconcileOwed}, Followed' \subseteq Followed, Handed', Polling'
      PROVE  Tidy'
  <2>1. Listing' = Listing
    BY <1>2 DEF Listing
  <2>2. Seeding'
    BY <1>2, <2>1 DEF Tidy, Seeding
  <2>3. AllHeld' /\ Copies'
    BY <1>1, <1>2 DEF Tidy, AllHeld, Held, Copies
  <2>4. \A o \in rec'.ops : Planned(o)'
    BY <1>1, <1>2 DEF Tidy, Planned
  <2> QED BY <1>2, <2>2, <2>3, <2>4 DEF Tidy
<1>3. ASSUME NEW f \in Flights, PollRead(f) PROVE Tidy'
  <2>1. /\ f \in index \cap upstream /\ poll' = [flight |-> f, prior |-> records[f]]
        /\ raced' = raced \cup Shared'
        /\ UNCHANGED <<outside, relisted, strayed, index, records, calendar, created, sync, rec>>
    BY <1>3 DEF PollRead, Takes
  <2>2. Followed' \subseteq Followed /\ Handed' /\ Listing' = Listing
    BY <2>1 DEF Followed, Handed, Listing, outside
  <2>3. f \in Followed => f \in Listing
    BY <2>1 DEF Tidy, Seeding
  <2>4. Polling'
    BY <2>1, <2>2, <2>3 DEF Polling
  <2> QED BY <1>2, <2>1, <2>2, <2>4 DEF outside
<1>4. ASSUME NEW f \in Flights, PollGone(f) PROVE Tidy'
  <2>1. rec' = ReconcileOwed /\ UNCHANGED <<outside, history, index, records, calendar, created, sync, poll>>
    BY <1>4 DEF PollGone
  <2>2. Followed' = Followed /\ Listing' = Listing
    BY <2>1 DEF Followed, Listing, outside, history
  <2>3. Handed' /\ Polling'
    BY <1>1, <2>1, <2>2 DEF Tidy, Handed, Polling, Shared, InSync, InPoll, history
  <2> QED BY <1>2, <2>1, <2>2, <2>3 DEF outside
<1>5. CASE PollWrite
  <2> DEFINE f == poll.flight
  <2>1. /\ f # None /\ f \in Flights
        /\ records' = [records EXCEPT ![f] = Built(f, poll.prior)]
        /\ rec' \in {rec, ReconcileOwed} /\ poll' = IdlePoll
        /\ UNCHANGED <<outside, history, index, calendar, created, sync>>
    BY <1>5 DEF PollWrite, IInv, Typed
  <2>2. \A g \in Flights \ {f} : records'[g] = records[g]
    BY <2>1 DEF IInv, Typed
  <2>3. /\ records'[f].ledger = IF poll.prior = None THEN NoEntries ELSE poll.prior.ledger
        /\ records'[f] # None
    <3>1. Built(f, poll.prior) \in Record
      BY <2>1, NoneOwed DEF Built, IInv, Typed, Record
    <3> QED BY <2>1, <3>1, NoneAssumption DEF Built, IInv, Typed
  <2>4. Followed' = Followed /\ Listing' = Listing /\ InRun' = InRun /\ InPoll' = {}
    BY <1>1, <2>1 DEF Followed, Listing, InPoll, IdlePoll, outside, history
  <2>5. f \in Followed =>
          /\ f \in index \cap Listing /\ poll.prior = records[f]
          /\ f \notin sync.todo /\ f \notin InRun
    BY <2>1 DEF Tidy, Polling, Handed, Shared, InSync, InPoll, Followed
  <2> HIDE DEF f
  <2>6. Handed'
    BY <2>1, <2>4 DEF Tidy, Handed, Shared, InSync, history
  <2>7. Polling'
    BY <2>1 DEF Polling, IdlePoll
  <2>8. Seeding'
    BY <2>1, <2>2, <2>4, <2>5 DEF Tidy, Seeding, outside, Followed
  <2>9. Copies'
    BY <1>1, <2>1, <2>2, <2>4, <2>5 DEF Tidy, Copies, outside, Followed
  <2>10. AllHeld'
    <3>1. SUFFICES ASSUME NEW e \in calendar, e.tagged, e.flight \in Followed
                   PROVE  Held(e.flight)' # None /\ Held(e.flight)'.ledger[e.kind] = e.id
      BY <2>1, <2>4 DEF AllHeld
    <3>2. /\ Held(e.flight) # None /\ Held(e.flight).ledger[e.kind] = e.id
          /\ e.flight \in Flights /\ e.kind \in Kinds /\ e.id # None
      BY <3>1, IdsAreNat DEF Tidy, AllHeld, IInv, Typed, Event
    <3>3. CASE e.flight = f
      BY <2>3, <2>4, <2>5, <3>1, <3>2, <3>3 DEF Held
    <3>4. CASE e.flight # f
      BY <1>1, <2>1, <2>2, <2>4, <3>2, <3>4 DEF Held
    <3> QED BY <3>3, <3>4
  <2>11. \A o \in rec'.ops : Planned(o)'
    BY <1>1, <2>1, <2>4 DEF Tidy, Planned
  <2> QED BY <2>6, <2>7, <2>8, <2>9, <2>10, <2>11 DEF Tidy
<1> QED BY <1>3, <1>4, <1>5 DEF Polled

(* A run works on what the disk holds, and an operation leaves the entry of
   what it made, moved or removed (_apply_op_to_ledger). *)
LEMMA TidyApply ==
  ASSUME IInv, SyncTyped, Tidy, NEW o \in rec.ops, RecApply(o) PROVE Tidy'
<1> DEFINE f == o.flight
           new == [rec.states[f] EXCEPT !.ledger[o.kind] = Entry(o)]
<1>1. /\ rec' = [rec EXCEPT !.ops = @ \ {o}, !.dirty = @ \cup {o.flight},
                            !.states[o.flight].ledger[o.kind] = Entry(o)]
      /\ rec.at = "apply" /\ calendar' = OnCalendar(o)
      /\ UNCHANGED <<outside, history, index, records, sync, poll>>
  BY DEF RecApply
<1>2. /\ f \in Flights /\ o.kind \in Kinds /\ rec.states[f] \in Record /\ o \in Op
      /\ Planned(o) /\ Fits(o) /\ f \in InRun
      /\ o.op \in {"create", "update", "adopt", "forget", "delete"}
  BY DEF IInv, Typed, Fits, Op, Tidy, Copies
<1>3. /\ new.ledger[o.kind] = Entry(o) /\ new # None
      /\ \A k \in Kinds \ {o.kind} : new.ledger[k] = rec.states[f].ledger[k]
  <2>1. Entry(o) \in EventIds \cup {None}
    BY EntryRange DEF RecApply
  <2>2. new \in Record
    BY <1>2, <2>1 DEF Record, Ledger
  <2>3. new.ledger[o.kind] = Entry(o) /\ \A k \in Kinds \ {o.kind} : new.ledger[k] = rec.states[f].ledger[k]
    BY <1>2 DEF Record, Ledger
  <2> QED BY <2>2, <2>3, NoneAssumption
<1>4. /\ rec'.states = [rec.states EXCEPT ![f] = new] /\ rec'.ops = rec.ops \ {o}
      /\ rec'.dirty = rec.dirty \cup {f} /\ rec'.at = "apply" /\ rec'.done = rec.done
      /\ rec'.active = rec.active /\ rec'.tombs = rec.tombs
  BY <1>1, <1>2 DEF IInv, Typed
<1> HIDE DEF new, f
<1>5. /\ \A g \in Flights \ {f} : rec'.states[g] = rec.states[g]
      /\ rec'.states[f] = new /\ rec.states[f] # None
  BY <1>2, <1>4, NoneAssumption DEF IInv, Typed
<1>6. InRun' = InRun
  BY <1>1, <1>3, <1>4, <1>5, SameRun DEF IInv, Typed
<1>7. Followed' = Followed /\ Listing' = Listing /\ Shared' = Shared
  BY <1>1, <1>6 DEF Followed, Listing, Shared, InSync, InPoll, outside, history
<1>8. \A e \in calendar' :
        \/ /\ e.id = Entry(o) /\ e.flight = f /\ e.kind = o.kind
           /\ (\E g \in calendar : g.id = e.id) \/ e.id = created + 1
        \/ /\ ~(e.flight = f /\ e.kind = o.kind /\ e.tagged /\ f \in Followed)
           /\ \E g \in calendar : /\ e.id = g.id /\ e.flight = g.flight /\ e.kind = g.kind
                                  /\ e.tagged = g.tagged
  <2>1. \A e \in calendar : e.tagged /\ e.flight = f /\ e.kind = o.kind /\ f \in Followed =>
          e.id = rec.states[f].ledger[o.kind]
    BY <1>2 DEF Tidy, AllHeld, Held
  <2>2. f \in Followed => rec.states[f].ledger[o.kind] = IF o.op = "adopt" THEN None ELSE o.id
    BY <1>2 DEF Planned, f
  <2>3. \A e \in calendar : e \in Event /\ e.id # None
    BY IdsAreNat DEF IInv, Typed, Event
  <2>4. \A e \in calendar : e.id = o.id => e.flight = f /\ e.kind = o.kind /\ (o.op = "adopt" \/ e.tagged)
    BY <1>2 DEF Fits, f
  <2>5. CASE o.op = "create"
    <3>1. PICK r : /\ r.id = created + 1 /\ r.flight = f /\ r.kind = o.kind
                   /\ calendar' = calendar \cup {r} /\ Entry(o) = created + 1
      <4> DEFINE r == [id |-> created + 1, flight |-> o.flight, kind |-> o.kind,
                       dep |-> rec.states[o.flight].dep, tagged |-> TRUE]
      <4>1. calendar' = calendar \cup {r} /\ Entry(o) = created + 1
        BY <1>1, <2>5 DEF OnCalendar, Entry
      <4>2. r.id = created + 1 /\ r.flight = f /\ r.kind = o.kind
        BY DEF f
      <4> QED BY <4>1, <4>2
    <3>2. f \in Followed => \A e \in calendar : e.id # o.id
      BY <1>2, <2>5 DEF Planned, f
    <3> QED BY <2>1, <2>2, <2>5, <3>1, <3>2
  <2>6. CASE o.op = "delete"
    BY <1>1, <2>1, <2>2, <2>6 DEF OnCalendar
  <2>7. CASE o.op = "forget"
    <3>1. f \in Followed => \A e \in calendar : e.id # o.id
      BY <1>2, <2>7 DEF Planned, f
    <3> QED BY <1>1, <2>1, <2>2, <2>7, <3>1 DEF OnCalendar
  <2>8. CASE o.op \in {"adopt", "update"}
    <3> DEFINE F(e) == IF e.id # o.id THEN e
                       ELSE IF o.op = "adopt" THEN [e EXCEPT !.tagged = TRUE]
                       ELSE [e EXCEPT !.dep = rec.states[o.flight].dep]
    <3>1. calendar' = {F(e) : e \in calendar} /\ Entry(o) = o.id
      BY <1>1, <2>8 DEF OnCalendar, Entry
    <3>2. \A e \in Event : /\ F(e).id = e.id /\ F(e).flight = e.flight /\ F(e).kind = e.kind
                           /\ e.id # o.id => F(e) = e
      BY DEF Event
    <3> HIDE DEF F
    <3>3. ASSUME NEW e \in calendar PROVE
            \/ /\ F(e).id = Entry(o) /\ F(e).flight = f /\ F(e).kind = o.kind
               /\ \E g \in calendar : g.id = F(e).id
            \/ /\ ~(F(e).flight = f /\ F(e).kind = o.kind /\ F(e).tagged /\ f \in Followed)
               /\ F(e) = e
      <4>1. CASE e.id = o.id
        BY <2>3, <2>4, <3>1, <3>2, <4>1
      <4>2. CASE e.id # o.id
        BY <2>1, <2>2, <2>3, <2>8, <3>2, <4>2
      <4> QED BY <4>1, <4>2
    <3> QED BY <3>1, <3>3
  <2> QED BY <1>2, <2>5, <2>6, <2>7, <2>8
<1>9. AllHeld'
  <2> SUFFICES ASSUME NEW e \in calendar', e.tagged, e.flight \in Followed
               PROVE  Held(e.flight)' # None /\ Held(e.flight)'.ledger[e.kind] = e.id
    BY <1>7 DEF AllHeld
  <2>1. CASE e.id = Entry(o) /\ e.flight = f /\ e.kind = o.kind
    BY <1>2, <1>3, <1>5, <1>6, <2>1 DEF Held
  <2>2. CASE ~(e.flight = f /\ e.kind = o.kind)
    <3>1. PICK g \in calendar : e.id = g.id /\ e.flight = g.flight /\ e.kind = g.kind /\ g.tagged
      BY <1>8, <2>2
    <3>2. Held(e.flight) # None /\ Held(e.flight).ledger[e.kind] = e.id
      BY <3>1 DEF Tidy, AllHeld
    <3>3. e.flight \in Flights /\ e.kind \in Kinds
      BY <3>1 DEF IInv, Typed, Event
    <3>4. CASE e.flight = f
      BY <1>2, <1>3, <1>5, <1>6, <2>2, <3>2, <3>3, <3>4 DEF Held
    <3>5. CASE e.flight # f
      BY <1>1, <1>5, <1>6, <3>2, <3>3, <3>5 DEF Held
    <3> QED BY <3>4, <3>5
  <2> QED BY <1>8, <2>1, <2>2
<1>10. Copies'
  BY <1>1, <1>2, <1>3, <1>4, <1>5, <1>6, <1>7 DEF Tidy, Copies, outside, Followed
<1>11. ASSUME NEW p \in rec'.ops, p.flight \in Followed PROVE Planned(p)'
  <2>1. /\ p \in rec.ops /\ p # o /\ Planned(p) /\ p \in Op /\ Known(p.id)
        /\ p.id \in EventIds \cup {None}
    BY <1>4 DEF Tidy, IInv, Typed, Fits, Op
  <2>2. ~(p.flight = f /\ p.kind = o.kind)
    BY <1>2, <1>11, <2>1 DEF Planned, f
  <2>3. rec'.states[p.flight].ledger[p.kind] = rec.states[p.flight].ledger[p.kind]
    BY <1>3, <1>5, <2>1, <2>2 DEF Op
  <2>4. p.id # created + 1
    BY <2>1, CalendarAssumption DEF Known, EventIds, IInv, Typed
  <2>5. \A e \in calendar' : (\E g \in calendar : g.id = e.id) \/ e.id = created + 1
    BY <1>8
  <2> QED BY <1>4, <1>11, <2>1, <2>3, <2>4, <2>5 DEF Planned
<1>12. \A p \in rec'.ops : Planned(p)'
  BY <1>11, <1>7 DEF Planned
<1>13. Handed' /\ Polling' /\ Seeding'
  BY <1>1, <1>7 DEF Tidy, Handed, Polling, Seeding, outside, history
<1> QED BY <1>9, <1>10, <1>12, <1>13 DEF Tidy

LEMMA TidyRun ==
  ASSUME IInv, SyncTyped, Tidy, Reconcile, kills' = kills PROVE Tidy'
<1>1. CASE RecRead
  <2>1. /\ rec' = [IdleRec EXCEPT !.at = "fetch", !.active = index, !.done = arrived,
                                  !.states = records, !.tombs = Tombstones(records, index)]
        /\ rec.at \in {"idle", "due"} /\ raced' = raced \cup Shared'
        /\ UNCHANGED <<outside, relisted, strayed, index, records, calendar, created, sync, poll>>
    BY <1>1 DEF RecRead, Takes
  <2>2. /\ rec'.at = "fetch" /\ rec'.states = records /\ rec'.done = arrived
        /\ rec'.ops = {} /\ rec'.dirty = {}
        /\ rec'.active = index /\ rec'.tombs = Tombstones(records, index)
    BY <2>1 DEF IdleRec
  <2>3. InRun = {} /\ InRun' = Present(records, index) \cup Tombstones(records, index)
    BY <2>1, <2>2 DEF InRun, Present
  <2>4. Followed' \subseteq Followed /\ Handed' /\ Listing' = Listing
    BY <2>1 DEF Followed, Handed, Listing, outside
  <2>5. Polling' /\ Seeding'
    BY <2>1, <2>4 DEF Tidy, Polling, Seeding, outside
  <2>6. Copies'
    BY <2>1, <2>2, <2>3 DEF Copies, Present, Tombstones, Tracked, outside
  <2>7. AllHeld'
    BY <2>1, <2>2, <2>3, <2>4 DEF Tidy, AllHeld, Held
  <2> QED BY <2>2, <2>4, <2>5, <2>6, <2>7 DEF Tidy
<1>2. CASE RecDeferred
  <2>1. /\ rec.at = "due" /\ rec' = IdleRec
        /\ UNCHANGED <<outside, history, index, records, calendar, created, sync, poll>>
    BY <1>2 DEF RecDeferred
  <2>2. InRun = {} /\ InRun' = {} /\ Followed' = Followed /\ Listing' = Listing
    BY <2>1 DEF InRun, Followed, Listing, IdleRec, outside, history
  <2>3. Handed' /\ Polling' /\ Seeding'
    BY <2>1, <2>2 DEF Tidy, Handed, Shared, InSync, InPoll, Polling, Seeding, outside, history
  <2>4. AllHeld' /\ Copies'
    BY <2>1, <2>2 DEF Tidy, AllHeld, Held, Copies, IdleRec
  <2> QED BY <2>1, <2>3, <2>4 DEF Tidy, IdleRec
<1>3. CASE RecPlan
  <2> DEFINE ops == PlanReconciliation(rec.states, rec.active, rec.done, Fetched(rec.states, rec.active))
  <2>1. /\ rec' = [rec EXCEPT !.at = "apply", !.ops = ops] /\ rec.at = "fetch"
        /\ strayed' = strayed \cup OutOfWindow(rec.states, rec.active)
        /\ UNCHANGED <<outside, relisted, raced, index, records, calendar, created, sync, poll>>
    BY <1>3 DEF RecPlan
  <2>2. rec.active \in SUBSET Flights
    BY DEF IInv, Typed
  <2>3. \A o \in ops :
          /\ rec.states[o.flight].ledger[o.kind] = IF o.op = "adopt" THEN None ELSE o.id
          /\ o.op \in {"create", "forget"} /\ o.flight \notin OutOfWindow(rec.states, rec.active) =>
               \A e \in calendar : e.id # o.id
          /\ \A p \in ops : p.flight = o.flight /\ p.kind = o.kind => p = o
    BY <2>2, PlanPlanned
  <2>4. \A o \in ops : o.flight \in Present(rec.states, rec.active) \cup Tombstones(rec.states, rec.active)
    BY <2>2, PlanPlanned
  <2> HIDE DEF ops
  <2>5. /\ rec'.at = "apply" /\ rec'.ops = ops /\ rec'.states = rec.states /\ rec'.done = rec.done
        /\ rec'.dirty = rec.dirty /\ rec'.active = rec.active /\ rec'.tombs = rec.tombs
    BY <2>1 DEF IInv, Typed
  <2>6. /\ InRun' = InRun /\ Followed' \subseteq Followed /\ Listing' = Listing
        /\ Shared' = Shared
    BY <2>1, <2>2, <2>5, SameRun DEF Followed, Listing, Shared, InSync, InPoll, outside
  <2>7. Handed' /\ Polling' /\ Seeding'
    BY <2>1, <2>6 DEF Tidy, Handed, Polling, Seeding, outside
  <2>8. AllHeld'
    BY <2>1, <2>5, <2>6 DEF Tidy, AllHeld, Held
  <2>9. Copies'
    BY <2>1, <2>4, <2>5, <2>6 DEF Tidy, Copies, outside, InRun
  <2>10. \A o \in rec'.ops : Planned(o)'
    BY <2>1, <2>3, <2>5 DEF Planned, Followed
  <2> QED BY <2>7, <2>8, <2>9, <2>10 DEF Tidy
<1>4. ASSUME NEW f \in Flights, RecWrite(f) PROVE Tidy'
  <2>1. /\ records' = [records EXCEPT ![f] = rec.states[f]] /\ rec' = [rec EXCEPT !.dirty = @ \ {f}]
        /\ rec.at = "apply" /\ f \in rec.dirty
        /\ UNCHANGED <<outside, history, index, calendar, created, sync, poll>>
    BY <1>4 DEF RecWrite
  <2>2. /\ rec'.at = "apply" /\ rec'.ops = rec.ops /\ rec'.states = rec.states /\ rec'.done = rec.done
        /\ rec'.dirty = rec.dirty \ {f} /\ rec'.active = rec.active /\ rec'.tombs = rec.tombs
    BY <2>1 DEF IInv, Typed
  <2>3. \A g \in Flights : records'[g] = IF g = f THEN rec.states[f] ELSE records[g]
    BY <2>1 DEF IInv, Typed
  <2>4. /\ InRun' = InRun /\ Followed' = Followed /\ Listing' = Listing /\ Shared' = Shared
    BY <2>1, <2>2, SameRun DEF IInv, Typed, Followed, Listing, Shared, InSync, InPoll, outside, history
  <2>5. f \in InRun /\ rec.states[f] # None
    BY <2>1 DEF Tidy, Copies
  <2>6. f \in Followed => records[f] # None /\ f \notin InPoll
    BY <2>5 DEF Tidy, Copies, Handed, Shared, Followed
  <2>7. Handed'
    BY <2>1, <2>4 DEF Tidy, Handed, history
  <2>8. Polling'
    BY <2>1, <2>3, <2>4, <2>6 DEF Tidy, Polling, InPoll, Followed
  <2>9. Seeding'
    BY <2>1, <2>3, <2>4, <2>6 DEF Tidy, Seeding, outside, Followed
  <2>10. Copies'
    BY <2>1, <2>2, <2>3, <2>4, <2>5 DEF Tidy, Copies, outside, Followed
  <2>11. AllHeld'
    <3>1. \A g \in Flights : Held(g)' = Held(g)
      BY <2>2, <2>3, <2>4, <2>5 DEF Held
    <3>2. \A e \in calendar : e.flight \in Flights
      BY DEF IInv, Typed, Event
    <3> QED BY <2>1, <2>4, <3>1, <3>2 DEF Tidy, AllHeld
  <2>12. \A o \in rec'.ops : Planned(o)'
    BY <2>1, <2>2, <2>4 DEF Tidy, Planned
  <2> QED BY <2>7, <2>8, <2>9, <2>10, <2>11, <2>12 DEF Tidy
<1>5. CASE RecArchive
  <2> DEFINE settled == Settled(rec.states, rec.tombs, rec.done)
  <2>1. /\ rec.at = "apply" /\ rec.dirty \subseteq settled /\ rec' = IdleRec
        /\ records' = [f \in Flights |-> IF f \in settled THEN None ELSE records[f]]
        /\ UNCHANGED <<outside, history, index, calendar, created, sync, poll>>
    BY <1>5 DEF RecArchive
  <2>2. \A f \in settled : f \in InRun /\ (rec.states[f].ledger = NoEntries \/ f \in arrived)
    BY <2>1 DEF Settled, Disposition, Tidy, Copies, InRun
  <2> HIDE DEF settled
  <2>3. InRun' = {} /\ Followed' = Followed /\ Listing' = Listing /\ Shared' \subseteq Shared
    BY <2>1 DEF InRun, Followed, Listing, Shared, InSync, InPoll, outside, history, IdleRec
  <2>4. Handed'
    BY <2>1, <2>3 DEF Tidy, Handed, history
  <2>5. \A f \in Followed : f \in settled => f \notin InPoll
    BY <2>2 DEF Tidy, Handed, Shared, Followed
  <2>6. Polling'
    BY <2>1, <2>3, <2>5 DEF Tidy, Polling, InPoll, Followed
  <2>7. Seeding'
    BY <2>1, <2>3 DEF Tidy, Seeding, outside, Followed
  <2>8. Copies'
    BY <2>1, <2>3 DEF Copies, IdleRec
  <2>9. AllHeld'
    <3>1. SUFFICES ASSUME NEW e \in calendar, e.tagged, e.flight \in Followed
                   PROVE  records'[e.flight] # None /\ records'[e.flight].ledger[e.kind] = e.id
      BY <2>1, <2>3 DEF AllHeld, Held
    <3>2. /\ Held(e.flight) # None /\ Held(e.flight).ledger[e.kind] = e.id
          /\ e.flight \in Flights /\ e.kind \in Kinds /\ e.id # None /\ e.flight \notin arrived
      BY <3>1, IdsAreNat DEF Tidy, AllHeld, IInv, Typed, Event, Followed
    <3>3. e.flight \notin settled
      BY <2>2, <3>2, NoneOwed DEF Held
    <3>4. records'[e.flight] = records[e.flight]
      BY <2>1, <3>2, <3>3
    <3>5. e.flight \in InRun => records[e.flight] = rec.states[e.flight]
      BY <2>1, <3>1, <3>3 DEF Tidy, Copies
    <3> QED BY <3>2, <3>4, <3>5 DEF Held
  <2> QED BY <2>1, <2>4, <2>6, <2>7, <2>8, <2>9 DEF Tidy, IdleRec
<1>6. ASSUME NEW o \in rec.ops, RecOpFails(o) PROVE Tidy'
  <2>1. /\ rec' = [rec EXCEPT !.ops = @ \ {o}] /\ rec.at = "apply"
        /\ UNCHANGED <<outside, history, index, records, calendar, created, sync, poll>>
    BY <1>6 DEF RecOpFails
  <2>2. /\ rec'.at = rec.at /\ rec'.ops \subseteq rec.ops /\ rec'.states = rec.states
        /\ rec'.done = rec.done /\ rec'.dirty = rec.dirty
        /\ rec'.active = rec.active /\ rec'.tombs = rec.tombs
    BY <2>1 DEF IInv, Typed
  <2>3. /\ InRun' = InRun /\ Followed' = Followed /\ Listing' = Listing /\ Shared' = Shared
    BY <2>1, <2>2, SameRun DEF IInv, Typed, Followed, Listing, Shared, InSync, InPoll, outside, history
  <2>4. Handed' /\ Polling' /\ Seeding'
    BY <2>1, <2>3 DEF Tidy, Handed, Polling, Seeding, outside, history
  <2>5. AllHeld' /\ Copies'
    BY <2>1, <2>2, <2>3 DEF Tidy, AllHeld, Held, Copies, outside
  <2>6. \A p \in rec'.ops : Planned(p)'
    BY <2>1, <2>2, <2>3 DEF Tidy, Planned
  <2> QED BY <2>4, <2>5, <2>6 DEF Tidy
<1>7. ASSUME NEW o \in rec.ops, RecOpLost(o) PROVE FALSE
  BY <1>7 DEF RecOpLost, SyncTyped
<1> QED BY <1>1, <1>2, <1>3, <1>4, <1>5, <1>6, <1>7, TidyApply DEF Reconcile

LEMMA KillsGrow == [Next]_vars => kills' = kills \/ kills' = kills + 1
<1> SUFFICES ASSUME [Next]_vars PROVE kills' = kills \/ kills' = kills + 1
  OBVIOUS
<1>1. CASE UNCHANGED vars
  BY <1>1 DEF vars, counts
<1>2. CASE Sync \/ Polled \/ Environment \/ Killed
  BY <1>2 DEF Sync, SyncList, SyncAdd, SyncRemove, SyncIndex, Polled, PollRead, PollWrite, PollGone,
     Environment, List, Unlist, Reschedule, CallOff, Arrive, ByAirEvent, UserDeletes, Killed, counts
<1>3. CASE RecRead \/ RecDeferred \/ RecPlan \/ RecArchive
  BY <1>3 DEF RecRead, RecDeferred, RecPlan, RecArchive, counts
<1>4. ASSUME NEW f \in Flights, RecWrite(f) PROVE kills' = kills
  BY <1>4 DEF RecWrite, counts
<1>5. ASSUME NEW o \in rec.ops, RecApply(o) \/ RecOpFails(o) \/ RecOpLost(o)
      PROVE  kills' = kills \/ kills' = kills + 1
  BY <1>5 DEF RecApply, RecOpFails, RecOpLost, counts
<1> QED BY <1>1, <1>2, <1>3, <1>4, <1>5 DEF Next, Reconcile

LEMMA TidyStep ==
  ASSUME SInv, [Next]_vars PROVE SInv'
<1>1. IInv' /\ SyncTyped'
  BY Inductive, SyncTypes DEF SInv
<1>2. ASSUME kills' = 0 PROVE Tidy'
  <2>1. ~Killed
    BY <1>2 DEF Killed, SInv, SyncTyped
  <2>2. kills = 0
    BY <1>2, KillsGrow DEF SInv, SyncTyped
  <2>3. IInv /\ SyncTyped /\ Tidy
    BY <2>2 DEF SInv, Kept
  <2>4. CASE UNCHANGED vars
    <3>1. UNCHANGED <<outside, history, index, records, calendar, sync, poll, rec>>
      BY <2>4 DEF vars
    <3>2. Followed' = Followed /\ InRun' = InRun /\ Listing' = Listing /\ Shared' = Shared
      BY <3>1 DEF Followed, InRun, Present, Listing, Shared, InSync, InPoll, outside, history
    <3>3. Handed' /\ Polling' /\ Seeding' /\ AllHeld' /\ Copies'
      BY <2>3, <3>1, <3>2 DEF Tidy, Handed, Polling, Seeding, AllHeld, Held, Copies, outside, history
    <3>4. \A o \in rec'.ops : Planned(o)'
      BY <2>3, <3>1, <3>2 DEF Tidy, Planned
    <3> QED BY <3>3, <3>4 DEF Tidy
  <2> QED BY <1>2, <2>1, <2>2, <2>3, <2>4, TidyWorld, TidySync, TidyPoll, TidyRun DEF Next
<1> QED BY <1>1, <1>2 DEF SInv, Kept

(* state-schema.md:262, the ledger as the teardown tombstone: whatever byAir,
   the user, refused calls and overlapping jobs do, an event flight-assist put
   its tag on is in its flight's ledger between the jobs, as long as no job was
   killed and no answer lost; all that undoes it for a flight is that it has
   flown, was listed again with a record left, had its record in two jobs'
   hands at once, or had a tracked event outside a run's window. *)
THEOREM BlocksTracked == Spec => []EveryBlockTracked
<1>1. Init => SInv
  <2> SUFFICES ASSUME Init PROVE SInv
    OBVIOUS
  <2>1. SyncTyped
    BY DEF Init, SyncTyped, IdleSync
  <2>2. InRun = {} /\ Shared = {}
    BY DEF Init, InRun, Shared, InSync, InPoll, IdleSync, IdlePoll, IdleRec
  <2>3. Tidy
    BY <2>2 DEF Init, Tidy, Handed, Polling, Seeding, AllHeld, Copies, IdleSync, IdlePoll, IdleRec
  <2> QED BY <2>1, <2>3, Initially DEF SInv, Kept
<1>2. SInv => EveryBlockTracked
  <2> SUFFICES ASSUME SInv, rec.at = "idle", kills = 0, NEW e \in calendar,
                      e.tagged, e.flight \notin arrived \cup relisted \cup raced \cup strayed
               PROVE  records[e.flight] # None /\ records[e.flight].ledger[e.kind] = e.id
    BY DEF EveryBlockTracked
  <2>1. e.flight \in Followed /\ InRun = {}
    BY DEF Followed, InRun, SInv, IInv, Typed, Event
  <2> QED BY <2>1 DEF SInv, Kept, Tidy, AllHeld, Held
<1>3. SInv /\ [Next]_vars => SInv'
  BY TidyStep
<1> QED BY <1>1, <1>2, <1>3, PTL DEF Spec
=============================================================================
