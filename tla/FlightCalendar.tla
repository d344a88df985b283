--------------------------- MODULE FlightCalendar ---------------------------
(***************************************************************************)
(* The per-flight records of flight-assist and the calendar events they    *)
(* stand for.  Three jobs write the records, one file per flight:          *)
(*                                                                         *)
(*   sync       sync_tripit.py (_reconcile_active_flights): follows        *)
(*              byAir's list, seeds and drops records, writes the index    *)
(*   poll       precheck.py (_process_flight): rereads one flight and      *)
(*              rewrites its record with what byAir says                   *)
(*   reconcile  calendar_reconcile.py (run_reconcile) with the planner     *)
(*              calendar_plan.py and disposition.py: makes the calendar    *)
(*              follow the records and keeps the ledger of its events      *)
(*                                                                         *)
(* Each write replaces one file atomically; nothing spans two files.  The  *)
(* ledger is the only memory of a created event, so what matters is that   *)
(* no interleaving, kill or change of plans loses an entry.                *)
(*                                                                         *)
(* Departures are small integers, Pad of them is how far the fetch window  *)
(* reaches beyond the active flights.  A diverted flight is torn down like *)
(* a cancelled one and is modelled as one.  The synced signature of a      *)
(* ledger entry only repeats a patch and is left out; the deletion of      *)
(* Reclaim's travel blocks, which no record tracks, is too.                *)
(***************************************************************************)
EXTENDS Integers, FiniteSets

CONSTANTS
  Flights,
  None,        \* no record, no ledger entry
  Pad,         \* _FETCH_WINDOW_PAD
  Relist,      \* TRUE: byAir may list a flight again that it dropped
  MaxDep,      \* model bound: departures 0..MaxDep
  MaxEvents,   \* model bound: calendar events ever created
  MaxChanges,  \* model bound: changes made by byAir and the user
  MaxMishaps,  \* model bound: killed jobs, answers that never came, and jobs
               \* started by hand or beside another
  MaxFails     \* model bound: calendar calls that are refused

ASSUME CalendarAssumption ==
  /\ None \notin Nat
  /\ Relist \in BOOLEAN
  /\ {Pad, MaxDep, MaxEvents, MaxChanges, MaxMishaps, MaxFails} \subseteq Nat

VARIABLES
  upstream,  \* flights byAir lists
  truth,     \* byAir's departure and status of each flight
  arrived,   \* flights whose arrival has passed
  relisted,  \* for the properties: flights listed again while a record is left
  raced,     \* for the properties: flights whose record two jobs had in hand
  strayed,   \* for the properties: flights with a tracked event a run did not see
  index,     \* active-flights.json
  records,   \* flight-<id>.json, or None
  calendar,  \* events on the flight calendar
  created,   \* event ids given out so far
  sync,      \* the sync job: its step and what it read
  poll,      \* the poll in hand
  rec,       \* the reconcile run: its step, what it read, what it will do
  changes, unscheduled, kills, fails

outside == <<upstream, truth, arrived>>
history == <<relisted, raced, strayed>>
world == <<outside, history>>
counts == <<changes, unscheduled, kills, fails>>
vars == <<world, index, records, calendar, created, sync, poll, rec, counts>>

Kinds == {"boarding", "flight"}
Deps == 0..MaxDep
EventIds == 1..MaxEvents
Ledger == [Kinds -> EventIds \cup {None}]
Record == [dep : Deps, off : BOOLEAN, ledger : Ledger]
Event == [id : EventIds, flight : Flights, kind : Kinds, dep : Deps, tagged : BOOLEAN]
Op == [op : {"create", "update", "adopt", "forget", "delete"}, kind : Kinds,
       flight : Flights, id : EventIds \cup {None}]

ASSUME NoneAssumption == None \notin Record

NoEntries == [k \in Kinds |-> None]
IdleSync == [at |-> "idle", listed |-> {}, todo |-> {}]
IdlePoll == [flight |-> None, prior |-> None]
IdleRec == [at |-> "idle", active |-> {}, tombs |-> {}, done |-> {},
            states |-> [f \in Flights |-> None], ops |-> {}, dirty |-> {}]

-----------------------------------------------------------------------------
(* Planning, over the records r a run has read. *)

Tracked(r, f) == r[f] # None /\ r[f].ledger # NoEntries

(* disposition.resolve_disposition: status, then time, then membership. *)
Disposition(r, active, done, f) ==
  CASE r[f].off -> "cancelled"
    [] f \in done /\ ~r[f].off -> "completed"
    [] f \notin done /\ ~r[f].off /\ f \notin active -> "switched_away"
    [] OTHER -> "active"

(* _gather_tombstones: dropped flights that still hold a ledger. *)
Tombstones(r, active) == {f \in Flights \ active : Tracked(r, f)}
Present(r, active) == {f \in active : r[f] # None}

(* collect_events: what lies in the window around the active flights. *)
Fetched(r, active) ==
  LET seen == Present(r, active) IN
  {e \in calendar :
     /\ \E f \in seen : r[f].dep - Pad <= e.dep
     /\ \E f \in seen : e.dep <= r[f].dep + Pad}

LiveEvent(events, id) == {e \in events : e.id = id}

(* Defect: a block that is there is left where it is. *)
PlanBoardingOnce(r, events, f) ==
  IF LiveEvent(events, r[f].ledger["boarding"]) = {}
  THEN {[op |-> "create", kind |-> "boarding", flight |-> f, id |-> r[f].ledger["boarding"]]}
  ELSE {}

PlanBoarding(r, events, f) ==
  LET id == r[f].ledger["boarding"]
      Plan(op) == {[op |-> op, kind |-> "boarding", flight |-> f, id |-> id]}
      live == LiveEvent(events, id)
  IN IF live = {} THEN Plan("create")
     ELSE IF \A e \in live : e.dep = r[f].dep THEN {} ELSE Plan("update")

(* Defect: events that already carry a tag are candidates too. *)
MatchesTagged(r, events, f) ==
  {e \in events : e.flight = f /\ e.dep \in (r[f].dep - Pad)..(r[f].dep + Pad)}

(* _match_byair_event: an untagged event that names this flight, near its
   departure.  The boarding block names it too, but is tagged from the start. *)
Matches(r, events, f) ==
  {e \in events : e.flight = f /\ ~e.tagged /\ e.dep \in (r[f].dep - Pad)..(r[f].dep + Pad)}

Apart(e, record) == IF e.dep < record.dep THEN record.dep - e.dep ELSE e.dep - record.dep

PlanFlightEvent(r, events, f) ==
  LET id == r[f].ledger["flight"]
      Plan(op, which) == {[op |-> op, kind |-> "flight", flight |-> f, id |-> which]}
      live == LiveEvent(events, id)
      match == Matches(r, events, f)
      nearest == {e \in match : \A g \in match : Apart(e, r[f]) <= Apart(g, r[f])}
  IN IF id = None
     THEN IF nearest = {} THEN {} ELSE Plan("adopt", (CHOOSE e \in nearest : TRUE).id)
     ELSE IF live = {} THEN Plan("forget", id)
     ELSE IF \A e \in live : e.dep = r[f].dep THEN {} ELSE Plan("update", id)

PlanTeardown(r, f) ==
  {[op |-> "delete", kind |-> k, flight |-> f, id |-> r[f].ledger[k]] :
     k \in {k \in Kinds : r[f].ledger[k] # None}}

(* plan_reconciliation *)
PlanReconciliation(r, active, done, events) ==
  UNION {CASE Disposition(r, active, done, f) = "active" ->
                PlanBoarding(r, events, f) \cup PlanFlightEvent(r, events, f)
           [] Disposition(r, active, done, f) \in {"cancelled", "switched_away"} ->
                PlanTeardown(r, f)
           [] OTHER -> {} : f \in Present(r, active) \cup Tombstones(r, active)}

(* _settled_tombstone_ids: torn down, or flown and left as a record. *)
Settled(r, tombs, done) ==
  {f \in tombs : r[f].ledger = NoEntries \/ Disposition(r, {}, done, f) = "completed"}

-----------------------------------------------------------------------------
Init ==
  /\ upstream \in SUBSET Flights
  /\ truth = [f \in Flights |-> [dep |-> 0, off |-> FALSE]]
  /\ arrived = {} /\ relisted = {} /\ raced = {} /\ strayed = {}
  /\ index = {}
  /\ records = [f \in Flights |-> None]
  /\ calendar = {}
  /\ created = 0
  /\ sync = IdleSync /\ poll = IdlePoll /\ rec = IdleRec
  /\ changes = 0 /\ unscheduled = 0 /\ kills = 0 /\ fails = 0

(* The schedulers run the jobs one after another: a cycle polls all its flights
   first and ends with the reconcile it owes.  Nothing but that keeps a job from
   starting beside another, or a reconcile by hand. *)
NoOtherJob == sync.at = "idle" /\ poll.flight = None
MayStart == NoOtherJob /\ rec.at = "idle"
MayPoll == NoOtherJob /\ rec.at \in {"idle", "due"}

Mishap == kills + unscheduled < MaxMishaps

Begins(scheduled) ==
  \/ scheduled /\ unscheduled' = unscheduled
  \/ ~scheduled /\ Mishap /\ unscheduled' = unscheduled + 1

-----------------------------------------------------------------------------
(* byAir and the user. *)

Changed == changes < MaxChanges /\ changes' = changes + 1

List(f) ==
  /\ Changed /\ Relist /\ f \notin upstream
  /\ upstream' = upstream \cup {f}
  /\ relisted' = IF f \in index \/ records[f] # None THEN relisted \cup {f} ELSE relisted
  /\ UNCHANGED <<truth, arrived, raced, strayed, index, records, calendar, created, sync, poll, rec, unscheduled, kills, fails>>

Unlist(f) ==
  /\ Changed /\ f \in upstream
  /\ upstream' = upstream \ {f}
  /\ UNCHANGED <<truth, arrived, history, index, records, calendar, created, sync, poll, rec, unscheduled, kills, fails>>

Reschedule(f) ==
  /\ Changed /\ f \notin arrived
  /\ \E d \in Deps : d # truth[f].dep /\ truth' = [truth EXCEPT ![f].dep = d]
  /\ UNCHANGED <<upstream, arrived, history, index, records, calendar, created, sync, poll, rec, unscheduled, kills, fails>>

CallOff(f) ==
  /\ Changed /\ f \notin arrived /\ ~truth[f].off
  /\ truth' = [truth EXCEPT ![f].off = TRUE]
  /\ UNCHANGED <<upstream, arrived, history, index, records, calendar, created, sync, poll, rec, unscheduled, kills, fails>>

Arrive(f) ==
  /\ Changed /\ f \notin arrived /\ ~truth[f].off
  /\ arrived' = arrived \cup {f}
  /\ UNCHANGED <<upstream, truth, history, index, records, calendar, created, sync, poll, rec, unscheduled, kills, fails>>

(* byAir writes its own event for the flight, or the user removes an event. *)
ByAirEvent(f) ==
  /\ Changed /\ created < MaxEvents
  /\ \A e \in calendar : ~(e.flight = f /\ e.kind = "flight")
  /\ created' = created + 1
  /\ calendar' = calendar \cup
       {[id |-> created', flight |-> f, kind |-> "flight", dep |-> truth[f].dep, tagged |-> FALSE]}
  /\ UNCHANGED <<world, index, records, sync, poll, rec, unscheduled, kills, fails>>

UserDeletes(e) ==
  /\ Changed
  /\ calendar' = calendar \ {e}
  /\ UNCHANGED <<world, index, records, created, sync, poll, rec, unscheduled, kills, fails>>

-----------------------------------------------------------------------------
(* The records each job has in hand: sync will write them, a poll or a run has
   read them and writes them back. *)

InSync == sync.todo
InPoll == {poll.flight} \ {None}
InRun == IF rec.at \in {"fetch", "apply"} THEN Present(rec.states, rec.active) \cup rec.tombs ELSE {}
Shared == (InSync \cap InPoll) \cup (InSync \cap InRun) \cup (InPoll \cap InRun)

Takes == raced' = raced \cup Shared' /\ UNCHANGED <<outside, relisted, strayed>>

(* Flights whose ledger names an event that is there but not in the window. *)
OutOfWindow(r, active) ==
  {f \in Present(r, active) :
     \E k \in Kinds : \E e \in calendar \ Fetched(r, active) : e.id = r[f].ledger[k]}

-----------------------------------------------------------------------------
(* sync_tripit: list, seed what is new, drop what is gone, write the index. *)

Seeded == [dep |-> 0, off |-> FALSE, ledger |-> NoEntries]

SyncList ==
  /\ sync.at = "idle" /\ Begins(MayStart)
  /\ upstream # index
  /\ sync' = [at |-> "files", listed |-> upstream,
              todo |-> (upstream \ index) \cup (index \ upstream)]
  /\ UNCHANGED <<index, records, calendar, created, poll, rec, changes, kills, fails>>
  /\ Takes

SyncAdd(f) ==
  /\ sync.at = "files" /\ f \in sync.todo \cap sync.listed
  /\ records' = [records EXCEPT ![f] = Seeded]
  /\ sync' = [sync EXCEPT !.todo = @ \ {f}]
  /\ UNCHANGED <<world, index, calendar, created, poll, rec, counts>>

(* A record that still holds a ledger stays behind as a tombstone. *)
SyncRemove(f) ==
  /\ sync.at = "files" /\ f \in sync.todo \ sync.listed /\ sync.todo \cap sync.listed = {}
  /\ records' = IF Tracked(records, f) THEN records ELSE [records EXCEPT ![f] = None]
  /\ sync' = [sync EXCEPT !.todo = @ \ {f}]
  /\ UNCHANGED <<world, index, calendar, created, poll, rec, counts>>

SyncIndex ==
  /\ sync.at = "files" /\ sync.todo = {}
  /\ index' = sync.listed
  /\ sync' = IdleSync
  /\ UNCHANGED <<world, records, calendar, created, poll, rec, counts>>

-----------------------------------------------------------------------------
(* One poll: read the record, ask byAir, write the record back. *)

PollRead(f) ==
  /\ poll.flight = None /\ Begins(MayPoll)
  /\ f \in index /\ f \in upstream
  /\ poll' = [flight |-> f, prior |-> records[f]]
  /\ UNCHANGED <<index, records, calendar, created, sync, rec, changes, kills, fails>>
  /\ Takes

(* Defect: the rewritten record starts without the calendar ledger. *)
BuiltWithoutLedger(f, prior) ==
  [dep |-> truth[f].dep, off |-> truth[f].off, ledger |-> NoEntries]

(* _build_flight_state: fresh facts, the ledger carried forward verbatim. *)
Built(f, prior) ==
  [dep |-> truth[f].dep, off |-> truth[f].off,
   ledger |-> IF prior = None THEN NoEntries ELSE prior.ledger]

(* A cycle with a notice to send ends with a reconcile. *)
ReconcileOwed == IF rec.at = "idle" THEN [rec EXCEPT !.at = "due"] ELSE rec

(* A cancellation is a notice; a new departure is one when it is big enough,
   and any poll may find that a phase marker has come. *)
PollWrite ==
  /\ poll.flight # None
  /\ records' = [records EXCEPT ![poll.flight] = Built(poll.flight, poll.prior)]
  /\ poll' = IdlePoll
  /\ \/ rec' = ReconcileOwed
     \/ /\ truth[poll.flight].off => poll.prior # None /\ poll.prior.off
        /\ rec' = rec
  /\ UNCHANGED <<world, index, calendar, created, sync, counts>>

(* byAir no longer knows the flight: a notice, and the record stays. *)
PollGone(f) ==
  /\ poll.flight = None /\ Begins(MayPoll)
  /\ f \in index \ upstream
  /\ rec' = ReconcileOwed
  /\ UNCHANGED <<world, index, records, calendar, created, sync, poll, changes, kills, fails>>

-----------------------------------------------------------------------------
(* run_reconcile *)

(* A run starts at the end of a cycle that owes one, or by hand. *)
RecRead ==
  /\ rec.at \in {"idle", "due"} /\ Begins(NoOtherJob /\ rec.at = "due")
  /\ Present(records, index) \cup Tombstones(records, index) # {}
  /\ rec' = [IdleRec EXCEPT !.at = "fetch", !.active = index, !.done = arrived,
                         !.states = records, !.tombs = Tombstones(records, index)]
  /\ UNCHANGED <<index, records, calendar, created, sync, poll, changes, kills, fails>>
  /\ Takes

(* No time is left in the cycle, or no calendar or flight is found: the run
   waits for the next cycle with a notice. *)
RecDeferred ==
  /\ rec.at = "due" /\ Begins(NoOtherJob)
  /\ rec' = IdleRec
  /\ UNCHANGED <<world, index, records, calendar, created, sync, poll, changes, kills, fails>>

RecPlan ==
  /\ rec.at = "fetch"
  /\ rec' = [rec EXCEPT !.at = "apply",
       !.ops = PlanReconciliation(rec.states, rec.active, rec.done,
                                  Fetched(rec.states, rec.active))]
  /\ strayed' = strayed \cup OutOfWindow(rec.states, rec.active)
  /\ UNCHANGED <<outside, relisted, raced, index, records, calendar, created, sync, poll, counts>>

(* Teardown deletes come first, a flight's boarding block before its event. *)
NextOps ==
  {o \in rec.ops :
     /\ o.op # "delete" => \A p \in rec.ops : p.op # "delete"
     /\ o.kind = "flight" => \A p \in rec.ops : p.flight # o.flight \/ p.kind = "flight"}

(* What an op does to the calendar. *)
OnCalendar(o) ==
  CASE o.op = "create" ->
         calendar \cup {[id |-> created + 1, flight |-> o.flight, kind |-> o.kind,
                         dep |-> rec.states[o.flight].dep, tagged |-> TRUE]}
    [] o.op = "adopt" ->
         {IF e.id = o.id THEN [e EXCEPT !.tagged = TRUE] ELSE e : e \in calendar}
    [] o.op = "update" ->
         {IF e.id = o.id THEN [e EXCEPT !.dep = rec.states[o.flight].dep] ELSE e : e \in calendar}
    [] o.op = "delete" -> {e \in calendar : e.id # o.id}
    [] o.op = "forget" -> calendar

(* The entry the ledger then holds for the op's kind. *)
Entry(o) ==
  CASE o.op = "create" -> created + 1
    [] o.op \in {"adopt", "update"} -> o.id
    [] OTHER -> None

RefusedCall(o) == o.op \in {"adopt", "update"} /\ \A e \in calendar : e.id # o.id

RecApply(o) ==
  /\ rec.at = "apply" /\ o \in NextOps
  /\ ~RefusedCall(o)
  /\ o.op = "create" => created < MaxEvents
  /\ created' = IF o.op = "create" THEN created + 1 ELSE created
  /\ calendar' = OnCalendar(o)
  /\ rec' = [rec EXCEPT !.ops = @ \ {o},
                        !.dirty = @ \cup {o.flight},
                        !.states[o.flight].ledger[o.kind] = Entry(o)]
  /\ UNCHANGED <<world, index, records, sync, poll, counts>>

(* The call fails and is collected: the op waits for the next run. *)
RecOpFails(o) ==
  /\ rec.at = "apply" /\ o \in NextOps /\ o.op # "forget"
  /\ \/ RefusedCall(o) /\ fails' = fails
     \/ fails < MaxFails /\ fails' = fails + 1
  /\ rec' = [rec EXCEPT !.ops = @ \ {o}]
  /\ UNCHANGED <<world, index, records, calendar, created, sync, poll, changes, unscheduled, kills>>

(* The call takes effect but its answer is lost: an error all the same. *)
RecOpLost(o) ==
  /\ rec.at = "apply" /\ o \in NextOps /\ o.op # "forget" /\ ~RefusedCall(o)
  /\ Mishap /\ kills' = kills + 1
  /\ o.op = "create" => created < MaxEvents
  /\ created' = IF o.op = "create" THEN created + 1 ELSE created
  /\ calendar' = OnCalendar(o)
  /\ rec' = [rec EXCEPT !.ops = @ \ {o}]
  /\ UNCHANGED <<world, index, records, sync, poll, changes, unscheduled, fails>>

(* The ledgers are written once all ops are done, one file after another. *)
RecWrite(f) ==
  /\ rec.at = "apply" /\ rec.ops = {}
  /\ f \in rec.dirty \ Settled(rec.states, rec.tombs, rec.done)
  /\ records' = [records EXCEPT ![f] = rec.states[f]]
  /\ rec' = [rec EXCEPT !.dirty = @ \ {f}]
  /\ UNCHANGED <<world, index, calendar, created, sync, poll, counts>>

(* Settled tombstones are deleted, among those this run gathered. *)
RecArchive ==
  LET settled == Settled(rec.states, rec.tombs, rec.done) IN
  /\ rec.at = "apply" /\ rec.ops = {} /\ rec.dirty \subseteq settled
  /\ records' = [f \in Flights |-> IF f \in settled THEN None ELSE records[f]]
  /\ rec' = IdleRec
  /\ UNCHANGED <<world, index, calendar, created, sync, poll, counts>>

-----------------------------------------------------------------------------
Killed ==
  /\ Mishap /\ kills' = kills + 1
  /\ \/ sync.at # "idle" /\ sync' = IdleSync /\ UNCHANGED <<poll, rec>>
     \/ poll.flight # None /\ poll' = IdlePoll /\ UNCHANGED <<sync, rec>>
     \/ rec.at # "idle" /\ rec' = IdleRec /\ UNCHANGED <<sync, poll>>
  /\ UNCHANGED <<world, index, records, calendar, created, changes, unscheduled, fails>>

Sync == SyncList \/ (\E f \in Flights : SyncAdd(f) \/ SyncRemove(f)) \/ SyncIndex
Polled == (\E f \in Flights : PollRead(f) \/ PollGone(f)) \/ PollWrite
Reconcile ==
  \/ RecRead \/ RecDeferred \/ RecPlan \/ RecArchive
  \/ \E f \in Flights : RecWrite(f)
  \/ \E o \in rec.ops : RecApply(o) \/ RecOpFails(o) \/ RecOpLost(o)
Environment ==
  \/ \E f \in Flights : List(f) \/ Unlist(f) \/ Reschedule(f) \/ CallOff(f) \/ Arrive(f) \/ ByAirEvent(f)
  \/ \E e \in calendar : UserDeletes(e)

Next == Sync \/ Polled \/ Reconcile \/ Killed \/ Environment

Spec == Init /\ [][Next]_vars

(* The schedulers start sync and polls again and again, a started job goes on,
   and a reconcile that is owed is not deferred for ever.  Nothing makes a poll
   find a notice; byAir, the user, kills and refusals owe nothing either. *)
Fairness ==
  /\ SF_vars(MayStart /\ SyncList) /\ SF_vars(NoOtherJob /\ rec.at = "due" /\ RecRead)
  /\ WF_vars(NoOtherJob /\ RecDeferred)
  /\ \A f \in Flights : SF_vars(MayPoll /\ PollRead(f))
  /\ WF_vars((\E f \in Flights : SyncAdd(f) \/ SyncRemove(f)) \/ SyncIndex)
  /\ WF_vars(PollWrite)
  /\ WF_vars(RecPlan \/ RecArchive \/ (\E f \in Flights : RecWrite(f))
             \/ \E o \in rec.ops : RecApply(o) \/ RecOpFails(o))
FairSpec == Spec /\ Fairness

-----------------------------------------------------------------------------
(* A ledger entry, on disk or in a run's hands, never names an event that is
   not tagged for this flight and kind: whatever was killed, refused or
   overtaken, the reconcile moves and deletes only events it made or adopted. *)
Owns(r) ==
  \A f \in Flights : r[f] # None =>
    \A k \in Kinds, e \in calendar :
      e.id = r[f].ledger[k] => e.flight = f /\ e.kind = k /\ e.tagged
LedgerOwn == Owns(records) /\ Owns(rec.states)

(* state-schema.md:262: the ledger "is the source of truth for O(1)
   update/delete and doubles as the teardown tombstone": between the jobs every
   event flight-assist put its tag on is in the ledger of its flight's record.
   Besides a killed job or a lost answer, and a flight that has flown, only
   three things can undo this for a flight: it was listed again before its last
   record was settled, two jobs had its record in hand at once, or a run planned
   while its event lay outside the fetch window. *)
EveryBlockTracked ==
  sync.at = "idle" /\ poll.flight = None /\ rec.at = "idle" /\ kills = 0 =>
    \A e \in calendar :
      e.tagged /\ e.flight \notin arrived \cup relisted \cup raced \cup strayed =>
        records[e.flight] # None /\ records[e.flight].ledger[e.kind] = e.id

(* As long as there are notices, and once byAir and the user leave things
   alone, the calendar follows: a flight that is on has its boarding block at
   byAir's departure, one that is off or was dropped before it flew has none
   that the records know of. *)
Converged ==
  /\ index = upstream
  /\ \A f \in Flights \ upstream : ~Tracked(records, f)
  /\ \A f \in upstream \ arrived :
       /\ records[f] # None
       /\ IF truth[f].off THEN ~Tracked(records, f)
          ELSE \E e \in calendar :
                 e.id = records[f].ledger["boarding"] /\ e.dep = truth[f].dep
Settles == ([]<>(rec.at = "due")) => <>[]Converged
=============================================================================
