# A verification of nanoclaw-travel in TLA+

nanoclaw-travel is a set of Python skills that a scheduler runs for one
traveller.  `flight-assist` follows the booked flights and tells the operator
what changes, `drive-engine` keeps drive blocks in the calendar, `sync-tripit`
keeps the list of followed flights, and a few batch skills refresh and audit the
bookings.  Nothing runs continuously: each skill is a short process with a kill
budget that reads files, calls services, writes files and exits.  What must be
right is therefore what survives between two processes, and what happens when a
process dies, overlaps another one or sees the world change under it.

Paths below are relative to `src/`; `FA` stands for `skills/flight-assist`, `DE`
for `skills/drive-engine`.

## Inventory

| Component | State it keeps | Operations | Interacts with |
|---|---|---|---|
| notification journal (`FA/notification_delivery.py`, `FA/host_send.py`) | `notifications.json`, `notifications.lock`, the host queue | offer, prune, reconcile, due, confirm, send | poll cycle, host |
| poll cycle (`FA/precheck.py`, `FA/notices.py`) | one snapshot file per flight | poll, detect, offer, advance the snapshot, deliver | byAir, journal, index, Maps |
| wake rules (`FA/wake_rules.py`) | none: a function of two snapshots | delay, gate, inbound, carousel, boarding, cancel | poll cycle |
| phase markers (`FA/phase_markers.py`, `connection_risk.py`, `boarding_lead.py`) | booleans in the snapshot | day-before, leave, arrival, connection | poll cycle |
| flight index (`FA/sync_tripit.py`, `FA/state.py`) | `active-flights.json`, `flight-<id>.json`, `sync-health.json` | add, remove, keep a tombstone, count failures | byAir, poll cycle, calendar |
| sync gate (`sync-tripit/precheck.py`) | none | decide to sync, run it, send its diff once | sync, host |
| calendar reconcile (`FA/calendar_reconcile.py`, `calendar_plan.py`, `disposition.py`) | the calendar, a ledger in each snapshot | adopt, update, tear down, forget | Google Calendar |
| drive reconcile (`DE/reconcile.py`, `calendar_apply.py`, `skip_drive.py`) | drive blocks in the calendar, `skip-state.json` | dedup, update, create, delete within a budget, skip | Google Calendar, operator |
| drive planning (`DE/engine.py`, `reconcile_sweep.py`, `flight_identity.py`, `chain*.py`, `scan.py`, `postarrival.py`, `attendance_source.py`) | none: recomputed by each sweep | merge flight records, build chains and their legs, classify meetings, fit the drives to landings, keep what cannot be judged | byAir's records, TripIt, Maps, calendar, itinerary |
| drive or fly (`DE/lodging_source.py`, `drive_decision.py`, `unplanned_notices.py`) | `drive-decisions.json`, `unplanned-notices.v1.json` | classify a flightless trip, ask once, answer, plan two legs, mention a missing one | drive sweep, operator, nightly run |
| batch skills (`nightly-travel-sync`, `check-travel-bookings`, `expertflyer`) | their own JSON files | refresh, detect, snooze, summarise | mail, TripIt |
| itinerary (`travel-core/itinerary.py`) | none: built per sweep from transports, stays and trips | where the operator is at an instant, which bed is his | drive planning |
| shared library (the rest of `travel-core`) | none | trip keys, origin, addresses | everyone |

### What makes them correct

- *Journal*: an acknowledgement stands for something the operator got; a moving
  value has one pending notice; no notice is in two hands; receipts survive;
  the file always passes its owner's own validation.
- *Poll cycle*: the cycle ends before the scheduler kills it; every flight is
  polled; what is sent is true in this cycle; no gate move or all-clear is lost
  between two records.
- *Index and calendar*: each event the tool made is known to the ledger of its
  flight, is torn down when the flight goes, and nothing else is ever touched.
- *Drive blocks*: one block per drive, whatever dies; a failed route costs no
  block; history stays; the operator's "skip" holds.
- *Drive plan*: the operator is taken to be where his flights and beds put him;
  no drive begins while a flight has him; after a landing he is never left
  without a drive or a word; a record that does not read, a route that fails
  or a leg that has just passed removes nothing, the way home from a meeting he
  lands in excepted.
- *Drive or fly*: the operator is asked once and not passed over; his answer is
  not overwritten; the calendar follows it.

### What is hard

- **Crashes.** Every process may be killed between any two of its file writes
  and service calls, and restarts from the files alone.
- **Unreliable calls.** A send or a calendar insert may take effect and lose
  its reply, or take effect after the caller gave up.
- **Interleaving.** Only the journal has a lock.  The snapshots, the drive
  blocks, the skips and the verdicts are read, worked on for seconds or minutes
  and written back, while the operator's commands write the same files.
- **Sources that disagree.** byAir and TripIt tell of one flight in two records,
  at two times, with or without airports; the schedule's hotel nights, the
  trip's days and the last landing may each say something else of where he is.
- **Time.** Deadlines, expiries and retry delays meet moving departures.
- **Limits.** A cycle has 75 s, a sweep 20 s of writes, the journal 256 rows.

`PROJECT.json` lists each hazard at its line, with the property that watches it
or the reason why none does.

## Modules

| Module | Models | Proofs |
|---|---|---|
| `NotificationDelivery` | the journal, its lock, and the send and confirm protocol around it | `NotificationDeliveryProofs` |
| `CycleBudget` | the wall clock and the polling order of a flight-assist cycle | `PollCycleProofs` |
| `PrecheckCycle` | what a cycle observes, offers, records and says; implements `NotificationDelivery` | `PrecheckCycleProofs` |
| `TimedPhases` | the notices the clock gives rise to, on the cadence ladder, in the journal | `PollCycleProofs` |
| `FlightCalendar` | sync, poll and calendar reconcile over the shared flight records | `FlightCalendarProofs` |
| `TripSync` | the sync gate, the pass it runs, the health record and what is said | `TripSyncProofs` |
| `DriveSweep` | the drive sweep against the calendar and the skip command | `DriveSweepProofs` |
| `FlightlessTrips` | drive-or-fly: sweep, answer and nightly run over four files | `FlightlessTripsProofs` |
| `Itinerary` | operators: transports, stays and trips to ground periods, and positions in them | |
| `FlightLegs` | operators: flight records to merged flights, chains and ground legs | |
| `MeetingScan` | operators: calendar events to meeting drives and conference commutes | |
| `PostArrival` | operators: the drives around a landing fitted together | |
| `DrivePlan` | sweeps that plan from all of these while flights, meetings and skips change | `DrivePlanProofs` |

`MC*.tla` give the constants small values and `MC*.cfg` name what a run checks.

### NotificationDelivery

The abstract specification of what a cycle's delivery promises.  An owner
(`Runners`) does what `precheck._run_cycle` and `_deliver` do: `Begin` reads the
index, `Open` takes the lock (`DeliveryStore.__init__`, or `OpenBusy`) and prunes,
`Offer`/`OfferFull` is `DeliveryStore.offer`, `Reconcile` and `Due` are the methods
of those names; `Due` writes the retry deadline, saves and the lock is dropped.
Then `Send` renames a request into the host's queue, the runner waits, and
`Confirm` reopens the store and confirms the exact ids.  `HostDeliver` may come
while the runner waits, with or without a reply, or long after it has gone.
`Crash` may come at any step; it keeps what was saved and frees the lock.

A notice is a record of its sequence number, flight, event, prior poll, expiry,
retry deadline and receipt; its key and id are derived as `_key` and `_id` do.
*Which* event is offered and which pending one is obsolete is left open here:
any.  So what is proved holds for every set of observation rules.

### CycleBudget

Seconds of one cycle.  `CycleOpen` is the pre-pass of `_collect_cycle`, `Defer`,
`NotDue`, `Unread`, `Poll` and `PollFailed` the turns of its loop, `ReadCalendar`
the day-before reads in `compose`, `SendMessage`/`LeaveMessage` and `RunReconcile`
the rest of `main`.  A step takes any time up to the timeout of the calls it
makes.  The order `OldestPollFirst` is `_oldest_poll_first`; of
`last_polled_at` only the rank is kept.  `course` and `passed` are history
variables, read by no guard: what the cycle's polls came to so far, and how many
cycles have passed a flight over since its last poll that no fault took from it.

### PrecheckCycle

Refines `NotificationDelivery` with the real rules: `Observed` puts together
`wake_rules.detect_events`, `_refresh_pending_events`, `_filter_gate_changes` and
the gate readout; `NoticeIsCurrent` is the function of that name.  `Poll` and
`Offer` are `_process_flight`; `WriteRecord` is its last write, possible only once
every event is offered.  `Store == INSTANCE NotificationDelivery WITH ...` is the
refinement mapping: the journal's variables are the journal's own, `KillAfter`
is 0 because a cycle lives 75 s and the next is started after 120 s, so in
ticks of one scheduler period no cycle outlives its tick.
`dropped` remembers for which topics a notice was given up: as too old, because
byAir no longer knows the flight, or because the gate filter fell silent again
(`Muted`, below).

### TimedPhases

Takes a whole cycle as one step (`Cycle`, with the polls that fail and the sends
that are lost or whose reply is), so that what happens *between* cycles can be
followed over a whole trip: `DueForPoll` and `Interval` are the cadence ladder,
`DayBeforeEvents`, `LeaveEvents` and `ArrivalEvents` the gates of
`phase_markers.py`, `AtRisk` and `RiskOffers` `connection_risk.py`, and the journal
is `NotificationDelivery` again, its operators taken by `INSTANCE`.  `Killed` ends a
cycle among its polls, `Missed` leaves one out, `OffTrip` is the trip window being
closed.  `late` remembers which flights were due by their cadence (`DueLegs`) and
could not be polled: the promise that the poll crossing leave-by speaks holds only
of the others, and a connection is called tight only if its first flight is one of
them.  A poll that only a retry asked for (`RetryDueIds`) makes nobody late.

### FlightCalendar

`SyncList`, `SyncAdd`, `SyncRemove`, `SyncIndex` are
`_reconcile_active_flights`, file by file, the index last.  `PollRead` and
`PollWrite` are the two ends of `_process_flight` with the seconds of a byAir call
between them.  `RecRead`, `RecPlan`, `RecApply`, `RecWrite`, `RecArchive` are
`run_reconcile`; the planner (`Disposition`, `PlanBoarding`, `PlanFlightEvent`,
`PlanTeardown`) is translated as functions.  Nothing locks the index or the
records: a job may start beside another, or a reconcile by hand (`Begins`), as
often as `MaxMishaps` has it, which counts kills and lost answers too.  Three
history variables name the flights something happened to: `relisted`, `raced`
(its record in two jobs' hands at once, `Shared`) and `strayed` (a run planned
while an event of its ledger lay outside the fetch window, `OutOfWindow`).

### TripSync

The gate (`sync-tripit/precheck.py`) is `FireQuiet`, `FireSync`, `FireFails`,
`Tell` and `Over`; the pass (`sync_tripit.main`) is `AskFails` or `Listed`, `Add`
and `Drop` flight by flight, `WriteIndex`, then `PlanHealth` or `HealthUnread`,
`Emit`, `Commit` or `CommitFails`, in the order of the code; `Raises` is main's
own handler.  `Advanced` is `_advance`, for each of the two failure counters.
`Killed` is either budget running out, at any step.  `fails` and `oks` count how
the passes really ended, and `missed` those that could not write it down: the
properties compare the health record, and what the gate was told, with them.
`FlightCalendar` has the same writes with their ledgers; here they appear only as
what the index and the notices need.

### DriveSweep

`Begin` reads the sources and skips, `Fetch` the calendar, and computes the plan
(`Desired`, `Held`, `Updates`, `Creates`, `Duplicates`, `Orphans` are
`plan_reconcile`); `Patch`, `Create`, `CreateLate`, `Delete`, `Refused` and `Defer`
are the turns of `apply_plan`.  `Die` may let an insert on its way arrive.  The
skip command runs beside it: `SkipResolve`, `SkipRecord`, `SkipDelete`.
`Storm` are blocks left by an older engine; the properties about the last block
of a leg do not speak about them, because there the user may have deleted the
one the sweep kept.

### FlightlessTrips

The sweep's part in `lodging_source.py` goes `Begin`, `Load`, `Plan`, per trip
`Note` and `Save` (`drive_decision.record_band_verdict`: read, judge, write),
`Mark` and `Stamp` (`mark_asked`), `Apply`, `Notice` and `Say`; the answer is
`AnswerRead` and `AnswerSave` (`record_operator_answer`); the nightly run is
`Refresh`, `Build`, `Check`.  A trip's key is its name and its start month, as in
`travel-core/trip_key.py`, so two trips may collide and one trip may change its
key.  `Gap` is what `check-travel-bookings` would report.

### Drive planning: Itinerary, FlightLegs, MeetingScan, PostArrival, DrivePlan

The four modules of operators follow the files; `DrivePlan` has the state.

- `Itinerary` is `travel-core/itinerary.py`: `Dedupe` drops the second copy of a
  journey, `Stays` pairs check-ins with check-outs, `Grounds` and `Periods` cut
  time at the transports and give each stay to the period it was booked for,
  and `PositionAt`, `BaseAt` and `LodgingAhead` answer the three questions the
  drive engine asks.
- `FlightLegs` extends it: `Cluster` and `Merge` are `flight_identity.py`,
  `NextInChain` `chain_builder.py`, `SeamLegs` `classify_pair` of `chain.py`, and
  `GuardStart` and `ReadyAt` the clearance before and the way out after a flight.
- `MeetingScan` extends `Itinerary`: `Bucket` is `_classify`, `MeetingLegs`
  `_classify_transit`, `PlanLeg` the body of `meeting_desired_blocks`, and
  `Commute` one way of one conference day.
- `PostArrival` extends both: `Compose` is `compose_postarrival`, a fold of
  `AtLanding` over the guards in the order of the chains, then `ClearGuards`.
- `DrivePlan` extends it: `SweepFlights` to `ItineraryFor` are the sources, `Legs`
  the three kinds of drives, `Fitted` the order in which `build_reconcile_plan`
  clears them of guards, composes and checks them, `Reconciled` what the calendar
  becomes.  `Sweep` runs it with a router that may fail on some places and a GPS
  fix or none; `Delay`, `Disrupt` and `Unread` are byAir's answers, `MoveMeeting`
  and `SkipDrive` the user, `Tick` the time between two sweeps.  `Unplannable` is
  where the sweep raises before it plans anything.

`DriveSweep` takes a plan for two legs as given and follows its calls one by
one; `DrivePlan` takes the writing as given and follows the plan.

## Runs

| Run | Module, cfg | What it shows |
|---|---|---|
| `delivery_overlap` | `MCNotificationDelivery`, `MCDeliveryOverlap` | two overlapping owners, one flight, two gates: receipts are real and survive, no notice in two hands, one pending value per gate, the journal always validates |
| `cycle_budget` | `MCCycleBudget` | the code's own timeouts, three flights, one failing at once or after 6 s, two possibly unreadable: fits the kill budget, no flight starves, the cycles a fault took apart |
| `cycle_news` | `MCPrecheckCycle`, `MCCycleNews` | two gates, moving departure and inbound estimate, three killable cycles: what is sent is current, no gate move or all-clear lost |
| `cycle_all_clear` | `MCPrecheckCycle`, `MCCycleAllClear` | violation: an estimate whose reply was lost is never taken back |
| `leave_by` | `MCTimedPhases`, `MCLeaveBy` | two connecting flights, changes of byAir, traffic and place, faults: no moot notice, a tight connection is tight, the poll that crosses leave-by speaks, retries are verified first |
| `leave_by_retry` | `MCTimedPhases`, `MCLeaveByRetry` | violation: a leave-by alert that was not confirmed is discarded instead of retried |
| `calendar` | `MCFlightCalendar`, `MCCalendar` | two flights, two changes, a refusal and one mishap (a kill, a lost reply, a job out of schedule): every tagged event is in its flight's ledger but for the flights the property names, ledgers name only their own events, and the calendar settles while there are notices.  `Pad = 0` lets a departure leave the window, and each exception of `EveryBlockTracked` is needed: without any one of them it fails |
| `drive_serial` | `MCDriveSweep`, `MCDriveSerial` | the two drives of a meeting under traffic, faults and a skip: no duplicate, no drive lost to a blip, convergence |
| `drive_plan` | `MCDrivePlan`, `MCDrivePlan` | five journeys, one of a flight that byAir has twice, byAir and the user changing two things, routes that fail: no airport drive to another city, no meeting drive in flight, nobody left at an airport unreported, no transfer unreported that a flight does not hinder, one drive for each leg, no drive of a flight that is cancelled under its lowest number, and time or a failing router removes none but at a hand-over |
| `drive_transfer` | `MCDrivePlan`, `MCDriveTransfer` | violation: when the first flight is late, the drive from its airport to the other one of the city vanishes without a report |
| `trip_sync` | `MCTripSync`, `MCTripSync` | one flight, outages, kills and local faults: an outage and its end are reported, neither too early, a dropped flight is mentioned, the index follows byAir |
| `trips_answered` | `MCFlightlessTrips`, `MCTripsAnswered` | one trip, sweeps, nights, an answer, bookings, snoozes, kills: an answer is lost only to a sweep that had read before it, asked once, not passed over, the calendar follows |

### Bounds

- *Delivery*: two owners and two payloads are what it takes for one owner to
  replace what another has in hand; three instants let the retry delay (2) pass
  while a killed owner (1) is gone, and two notices let one replace the other.
  Owners are interchangeable (`SYMMETRY`).  Two observed values and two prior
  polls make the keys differ, and two rows make the store full.
- *Budget*: the durations are 0, each timeout and each sum of timeouts one poll
  can pay, so that every boundary of every guard is met exactly.
- *News*: thresholds are 2 with values that differ by 1 and 2, so both sides of
  each threshold and of the dedupe occur; three instants are three cycles, one
  to announce, one to lose, one to repeat.  `MCView` drops from a state the
  requests no runner waits for and what the operator heard: no guard and no
  property of that run reads them, and what they may still change is only what
  is dropped.  `MCCycleAllClear`, whose property reads it, uses no view.
- *Phases*: the intervals keep the order of the code's (the boarding cadence
  below the near one below the far one, a tick above the difference that
  matters), scaled so that a flight passes its horizon, the day before, the
  last six hours, leave-by and boarding within eleven instants.  Two drives put
  leave-by before and after the second flight's first poll.  Two changes and a
  fault are what it takes to make a warning, lose it and take its reason away.
- *Calendar*: with no padding a departure moved by one leaves the window, four
  events suffice for create, adopt and recreate on two flights, and two changes
  list a flight, move it or drop it.  One call is refused, and one mishap is a
  killed job, a reply that never comes, or a job started beside another.
- *Drives*: two legs of one meeting are the smallest case in which one is past
  and the other ahead; `MaxBlocks` 9 is never reached.
- *Drive plan*: a tick is five minutes, and every threshold of the code has its
  own length.  The journeys are the smallest that need each rule: meetings
  around a landing (with a delay, the flight lands in the first of them or in the
  second) and the flight home; two airports of one city between two
  flights; a night between two flights with only check-ins known; a conference
  with the flight home after it; a flight that byAir has twice, under a partner's
  code too, and TripIt once, so that either record may be cancelled alone. The
  four instants are before the first flight, during it, after it, and before the
  last one. Two delays (an hour and a half, four and a half hours), two changes
  in all, one sweep in which the router fails on one of two sets of places, and
  one GPS fix away from the airports. The cities lie near enough to each other
  that a drive from the wrong one passes the code's limits. `seen` is emptied
  when the world changes, so that states are told apart by it only where
  `QuietSweep` compares two sweeps.
- *Sync*: a threshold of 2 with counts up to 4 and two faults lets an outage be
  reported after both faults; three changes let byAir go, come back and go
  again, or the flight be dropped during an outage.  Two flights with two
  changes, and one flight with three faults, hold as well; they take longer and
  show nothing more, since flights meet only in the lists of a pass.
- *Trips*: one trip that may start at 1 or 2, or be rebooked with flights,
  and two events in all; three instants let a record expire (grace 1).

### Fairness

Safety is checked without fairness.  Where a liveness property is checked the
schedulers are assumed to start their jobs again and again and a job that is
not killed to go on; kills, refusals, byAir, the user and the operator owe
nothing, and are bounded.  `FlightCalendar` asks strong fairness of the scheduled
starts (`SyncList`, `RecRead`, `PollRead`) because another job may be running each
time the scheduler would start one; `Settles` assumes besides that reconciles become due
again and again, since only a notice starts one.  `FlightlessTrips` and
`DriveSweep` give no fairness to `Tick`: the answer and the calendar must be
right even if the clock stands still.  `TripSync` is fair to the gate's fires and
to a pass that is not killed, and asks of byAir only that it stays up from some
time on.

## Proofs

All proofs are for every value of the constants that the named `ASSUME` of the
module allows.

- **`NotificationDeliveryProofs`** (`TypeCorrect`, `JournalStaysValid`,
  `OneNoticePerTopic`, `ReceiptsHold`, `ReceiptsAreKept`, `HandledOnce`).  Only the
  holder of the lock rewrites the rows, except `Confirm`; `JournalStep` sums up
  what any step may do to the rows, and validity, topics and receipts follow
  from it.  `ReceiptsHold` needs that a runner in `confirm` was told of a receipt
  (`ReplyMeansReceived`).  `HandledOnce` needs `HandInv`: a runner past the store
  holds only issued ids, the journal's rows for them are backed off by `Retry`
  from that runner's clock, and no runner is older than `KillAfter`; with
  `KillAfter < Retry` a second runner's `Due` cannot find such a row ready.
- **`PollCycleProofs`**, on `CycleBudget` (`CycleFitsKillBudget`, `NobodyWaitsForever`).  A poll starts
  only below the share minus its reserve, and costs at most the fixed calls plus
  that reserve.  `NobodyWaitsForever` bounds how often a flight was passed over
  plus the number of flights whose poll is older than its own (`Served`): a poll
  sends its flight to the back (`PollShortens`), and a cycle that counts for a flight
  and does not poll it polls one that stood ahead of it in the loop, which is the
  order of the last polls (`InTurn`; `SlotPlace`, `SlotOf`, `SlotEarlier` say that
  `OldestPollFirst` is that order).  A flight passed over for its cadence is due
  (`Counts`), and a cycle that lost no time to a failed poll is in time for its
  first one (`FreshInTime`), because byAir plus reader fit the share: 11 s of 12 s,
  the module's `RoomForOnePoll`.  Nothing is assumed of the polls that fail, nor of
  the records that do not read.
- **`PollCycleProofs`**, on `TimedPhases` (`NothingMoot`, `RetriesAreVerified`, `TimelyPollsTell`,
  `RisksAreReal`).  What a cycle sends carries this cycle's
  retry deadline, so it was not backed off before; therefore its flight was
  among those asked for, and had byAir not answered it would have been held
  back.  So its row passed `Reconciled` on this cycle's answer, with its phase
  raised by it (`Verified`).  The invariant needs types and that a row's retry
  deadline lies at most `Retry` ahead.  A notice is followed back through the
  stamps of the cycle to the row it was when everything was offered (`Origin`).
  `RetriesAreVerified` adds that an offer of the same notice changes nothing while
  the old row lives, so the row sent is the pending one.  `RisksAreReal` needs one
  row for a flight and a phase (`OneRow`): the warning that reconcile keeps is then
  the one this cycle's pass raised, with the same first flight and the same minutes.
  That is why no two flights of a trip may leave at once (`OneFlightAtATime`): the
  model would pair both with the next one.  `TimelyPollsTell` rests on `Timed`, that a
  flight is `late` exactly if it is due: the crossing poll then comes less than one
  cadence and one tick after the one before.  The cadence that judges it must be the
  one that spaced it, so leave-by may not lie before the cadence has tightened
  (`DrivesFitNearWindow`: drives up to 5 h 43 min with the code's numbers; what a
  longer one does is told below).
- **`PrecheckCycleProofs`** (`SentIsCurrent`, `CycleImplementsDelivery`,
  `GateIsFollowed`, `AllClearIsOwed`).  The step
  simulation needs types only: offered events are `Events`, priors are polls
  that happened, expiries are `Life` after the clock.  So every theorem about
  `NotificationDelivery` holds of the cycle.  `SentIsCurrent` needs that one
  cycle runs at a time (`Alone`) and, at each step of it, that each pending row
  is either backed off beyond this cycle, or of a flight still to be polled,
  held back, gone, or verified with a record that upholds it (`Sound`).
  The last two theorems share `NewsInv == Disk /\ \A r : Hand(r)`, since neither
  property is inductive: what is pending was worked out from a record that may
  by now be replaced, and what is confirmed from one that no longer exists.
  `Disk` says of the journal that rows are numbered in the order they were
  offered, each against an older record (`Timed`), that a flight has at most one
  unsent gate change and one unsent readout (`Single`), and that unsent notices
  of a topic are newer than its receipts and start where the operator was left
  (`GateKept`, `InboundKept`).  `Hand` says of a cycle, phase by phase, what it has
  in hand: whether a flight's turn has come (`Turns`), that the events still to
  be offered follow from record and answer (`Offers`, `Readouts`), and that the two
  properties will hold of the *answer* once they are offered (`GateTurn`,
  `InboundTurn`), so that the write of the record may change sides.  A kill
  forgets the hand and leaves `Disk`.  Two constants need more than types: a
  notice's life is not zero (two hours, `FA/precheck.py:550`), and "no snapshot"
  is not a snapshot.
- **`TripSyncProofs`** (`SyncTyped`, `AlertsAreTrue`, `OutagesSurface`,
  `RecoveriesSurface`, `RemovalsAreReported`): all of the module's safety.  The
  inductive invariant says, source by source, how far `sync-health.json` may be
  from how the last passes ended (`Kept`: by the passes that could not write, and
  by one while a pass has ended and not written yet), what the gate knows of it
  (`Known`) and that a pass says exactly what its planned record implies
  (`Says`).  `Leaving` and `Mentioned` follow a dropped flight from the list to its
  notice.
- **`DriveSweepProofs`** (`SweepTyped`, `SerialSweepsAddNoDuplicates`,
  `SerialSweepsKeepDrives`).  The
  inductive part is `Fresh`: what a sweep still has to create has no block on
  the calendar.  `Fetch` establishes it, and with one sweep at a time only that
  sweep adds blocks; a patch keeps a block's leg.  `SerialSweepsKeepDrives`
  follows what a sweep still has to delete (`Stays`): it is of a leg the sweep
  found gone and ahead of it when it read the calendar, or one of two blocks of
  a leg, and then an older engine's, since no sweep makes a second block
  (`Apart` rests on `Fresh`).
- **`FlightlessTripsProofs`** (`AnswersStand`, `OneQuestion`).  A sweep records the drive only over
  a record it read and may replace (`Judged`), and its clock is not ahead of the wall
  clock, so a record in force when it is written over was not the one it read: the
  answer was written in between (`Overtaken`).  Nothing in the code locks
  `drive-decisions.json`, so that does happen in the run; it is the only way, for any
  interleaving.  `OneQuestion`: the race may lose an
  answer, never the fact that a question went out.  Its
  invariant is that every record whose question is out, or in this sweep's
  payload, is `Settled` (stamped, or an answer) in the file, in what the sweep
  loaded and in what it is about to write (`AskedOnce`), that such a record does
  not expire under the sweep, which works within one tick (`Timed`), and that a
  mentioned leg is on file as told (`ToldOnce`).  It needs `Grace` to be at least
  one tick: a record written for a trip that is just ending must outlive the
  sweep (`VERDICT_GRACE` is two days, `_EXPIRY_GRACE` one).

- **`FlightCalendarProofs`** (`LedgersOwn`, `BlocksTracked`).  A ledger is carried around: by the
  record on disk, the record a poll read, the states and the operations of a
  reconcile.  The invariant says of each copy, however old, that it is `Sound`:
  what it names is gone or is the flight's own tagged event of that kind.  For
  an operation in hand (`Fits`) the tag may still be missing when it adopts.
  It holds for overlapping jobs too, because ids are given once: a new event
  cannot clash with an entry that is already somewhere (`FreshSound`), and
  losing events, tagging or moving them hurts none (`GentleSound`).
  `BlocksTracked` goes the other way, from the event to the ledger.  It assumes
  nothing about the schedule or the window: the property itself says which flights
  may lose an event, and the argument is about one other flight (`Followed`).
  Its record is in one job's hands at most (`Handed`), so a poll writes over what it
  read (`Polling`), a run over what it copied (`Copies`), and sync seeds it only
  when it has no record (`Seeding`).  The invariant `Kept` follows its event while a
  job is at work: it is in the record, or in the copy of a run that has yet to
  write it (`Held`), whose every operation names the entry it replaces and is the
  only one for it (`Planned`).
- **`DrivePlanProofs`** (`FlightsAreClear`, `FlightsAreGuarded`, `CancelledFlightsStayOff`,
  `SeamsAreCovered`, `TransfersAreTold`, `DrivesAreSingle`), through the operators of
  `PostArrival`, `FlightLegs` and `MeetingScan`.  Only the last needs an invariant of
  the calendar: a sweep establishes the others, whatever it finds, and any change of
  the world empties the plan they speak of.
  `FlightsAreClear` is about `Compose`.  A drive it leaves desired does not begin in
  a guard, that is its last step; a drive on the calendar stays only if it is held,
  and a held one is struck if its block begins in a guard, *except* for a meeting
  that a landing has dealt with.  So the landings must have dealt with it fully:
  each drive of such a meeting is planned anew or ruled out (`Settled`), and stays
  so through the landings that follow (`DropSettles`, `HandoffSettles`,
  `AtLandingSettles`, `LandingsSettle`).  What comes after `Compose` touches commutes
  only (`HousedKeepsMeetings`).
  `CancelledFlightsStayOff` is about whose drives a plan has (`DrivesOf`): every leg
  is of a merged flight that is not cancelled (`ChainLegsOf`), no step of the
  composition brings in another (`HandoffOf`, `LandingsOf`, `ComposeOf`), and what is
  merged from the records around a cancelled one is cancelled (`CancelledIsMerged`).
  Nothing is assumed of the records.  The property itself names the two ways in which
  a drive may stay, both the code's: byAir has the flight a second time under a lower
  number and flies that record, which speaks for the flight (`Codeshared`); or a third
  record of the route is close to one of two and not to the other, so that their
  cluster may end between them (`Torn`).  A codeshare of a higher number that is still
  flying, and TripIt's copy, bring nothing back.  The argument is about the recursion
  that gives each departure the one that opens its cluster: it has a solution
  (`AnchoredExists`), a cluster opens no further back than the tolerance
  (`AnchorBounds`) and holds all that is later and within it (`AnchorHolds`).  Two
  departures that no third one tears then have one anchor (`CloseShareAnchor`).

  `FlightsAreGuarded` says what the guards of a plan are.  Their order is that of the
  chains, so it must first be known that a finite strict order can be put in a row
  (`RowExists`); a row as long as the set is one of all its members
  (`GuardsAreFlights`).  With `FlightsAreClear` it keeps meeting drives out of every
  flight that flies, whatever the plan's list of guards says.

  `SeamsAreCovered` and `TransfersAreTold` follow a leg through a plan.  A leg of a
  chain is planned as it is due, or held, unless the airport is where he already is
  (`LegsTell`), and no other leg has its key, since no two merged flights have
  (`KeysApart`: the clusters of a route are more than a tolerance apart).  Commutes
  that go take nothing with them (`WithoutTells`); a landing may rewrite the drive
  from its own airport only, and to the same start (`Arranged`, `LandingsArrange`);
  and what the guards then strike begins in a guard (`ComposeTells`, `PlanTells`).
  For a transfer that is the whole condition (`TransferHindered`), and the
  counterexample of `drive_transfer` is of this kind: the theorem says that there is no
  other.  For a landing without a flight on, `Unhindered` names what the code leaves
  untold: another flight has him when he would drive; his bed, or the meeting he lands
  in, is at the airport (`AtDoor`, `Beside`); the next flight of the same trip leaves
  from the same airport after all (it is diverted, or flies before one of another
  trip), or its transfer is hindered although it would fit.
  `SeamsCovered` holds in all of `drive_plan`, and so does `SeamsUnhindered`, under
  which it is proved for all journeys; `SeamsTold` is the same flight by flight.

  `DrivesAreSingle`: the legs of airports, meetings and conferences have different
  kinds, and within each planner a key belongs to one leg (`LegsByKey`,
  `MeetingLegsSingle`, `CommutesSingle`); a hand-over puts in two drives and takes out
  those they replace (`HandoffSingles`); `plan_reconcile` leaves a block only if no
  drive of its key is planned.  Its hypothesis `ToldApart`, that identities differ and
  no two meetings begin at once, holds in all of `drive_plan`: the code orders
  meetings that begin at once as the calendar lists them, and the model does not.

Model-checked only are the liveness properties (`Converges`, `SkipTakesHold`,
`Settles`, `IndexFollows`, `QuestionReaches`, `AnswerObeyed`), since the prover has
no fairness and no `ENABLED`; and two properties of `DrivePlan`.  `StayInCity`
compares a plan with a map of cities, so it holds of journeys in which flights,
beds and trips agree, and no weaker condition than the journeys themselves is
known that a theorem could assume.  `QuietSweep` compares two sweeps
of one world at two times; a proof would follow every rule by which a leg may
lapse with time, and has not been made.  `SeamsCovered` and `OneDrivePerLeg` are
proved under the hypotheses named above, and checked without them.

Recursive functions are reasoned about without an induction rule, which the
prover cannot instantiate: that a recursion has a solution, and what holds of
it, is shown from a least counterexample among the numbers it runs over.  That
there is a least one (`Least`, `Oldest` in `DrivePlanProofs`) follows from the library's
theorem that the subsets of a finite set are well-founded under inclusion.

## Abstractions, and what is not modelled

- One cycle at a time in `PrecheckCycle` (kill at 75 s, period 120 s).  The
  journal itself is checked and proved for overlapping owners.
- `PrecheckCycle` reduces a snapshot to status, departure gate, departure and
  inbound estimate; the arrival gate and the carousel follow the same rules.
- `TimedPhases`: a cycle is atomic and within its budgets; the flights stay in
  the index; the trips are fixed; which aircraft is wide, and what is within
  three kilometres of the airport, are given.
- `FlightCalendar` treats a diverted flight as cancelled, and leaves out the
  signature of an event's text and Reclaim's travel blocks.
- `TripSync` has one pass at a time (120 s against 300 s), and leaves out the repair
  of a codeshare's display code and the migration of old files.
- `DriveSweep` compares anchor and drive time; endpoints, zones and the charging
  note are further reasons to patch.  A skipped meeting's block whose old time
  has passed counts as history.
- `FlightlessTrips`: the calendar write is atomic (`DriveSweep` has its detail);
  `_save`'s re-read and rename are one step; the home address is configured and
  trips in the home area are not planned; local drives at the destination,
  which the outer legs may absorb, and the rules by which nights count as
  covered are left out; the nightly run may come at any time (it can also be
  asked for); a kill between storing a notice and printing it loses the
  mention; an answer racing a record that has just expired may still see one
  more question, since a record's life ends when a sweep's load finds it
  expired.
- `DrivePlan`: a sweep takes effect at once; EV charging (`adjust_drives`), which
  stretches a drive that was planned, the texts and zones of blocks, and the
  router's jitter are left out, as are the flightless trips of `FlightlessTrips`,
  the recognition of meetings and flights in event texts and the markers of the
  retired planner.  Two events do not start together, nor two check-ins of one
  hotel.  `StayInCity` is about flights that fly in order and whose airports
  some source knows: a flight with neither airports nor a copy in TripIt, in no
  trip, leaves the operator judged to be at home.  `QuietSweep` compares sweeps
  with the same GPS fix: near the airport a fix makes the drive trivial, and it
  goes.  It speaks of no drive to a meeting he lands in, which a hand-over
  replaces, and of none home from it in a sweep with an outage (below).
- `FlightCalendar`'s `EveryBlockTracked` leaves out a flight that was listed again
  over its tombstone, whose record two jobs had in hand, or whose event was outside
  the window (below), and says nothing after a kill or a lost answer.
- Texts, formats, time zones' names and HTTP are data.

Not modelled at all: seat alerts (`expertflyer`: parsing and a score), calendar
texts and tags, the airport blocks that drive-engine superseded, the service
clients (each call is an answer, a refusal, a lost reply or a timeout here), the
stores of attendance and of airport facts, and of the nightly sync the mail steps,
the cadence gate and the detection of new trips.

### Seen by hand, not kept as runs

- A flight that returns to byAir's list while its tombstone is on disk counts as
  new (`FA/sync_tripit.py:396`): its first record overwrites the tombstone, and the
  events that only the tombstone's ledger named are never torn down, although
  `state-schema.md:262` calls that map the teardown tombstone.  Without its
  exception for such a flight, `EveryBlockTracked` fails in `calendar`.
- A readout that was superseded can leave the operator with a gate that is not on
  record.  A flight boards before its gate readout went out, so the filter lets a
  gate change g1 to g2 through; its send fails, and the departure slips so far
  that the flight no longer boards.  Now the readout says g2 and is confirmed;
  the gate returns to g1, and `FA/precheck.py:530`, which finds the pending
  change's "from" again, drops it.  The operator was told g2, the record says g1
  and nothing is pending, although `FA/precheck.py:1697` promises that after a
  readout all gate changes flow.  The proof of `GateFollowed` found it; `Muted`
  marks such a flight and the property excepts it.
- A cancelled flight can be driven to after all.  byAir's lowest record speaks for a
  flight it has twice (`DE/flight_identity.py:160-163`), so a cancellation that only
  the higher one shows is not seen; and clusters are counted from the earliest
  record of a route (`:221-235`), so with a booking of the same route a few hours
  before, TripIt's copy of a cancelled flight may fall into a cluster of its own and
  be planned for.  Without `Codeshared`, `CancelledStaysOff` fails in `drive_plan`;
  without `Torn` it fails on a journey with bookings at 8:05, 12:00 and 17:00 of
  which byAir cancels the second.
- A skip ends with the meeting's *old* time (`DE/skip_drive.py:121`): a skipped
  meeting that is put off is planned again.
- The cadence tightens from 30 to 10 minutes six hours before departure.  With a
  drive of more than about 5 h 45 min, leave-by may lie before that point; the
  first poll after it is then due at once, more than ten minutes after the one
  before, and counts as missed (`FA/precheck.py:1431`, which takes the cadence of
  now), although `phase_markers.py:222` speaks of the cadence "that poll scheduled
  the next one on".  Without a fix the alert is never raised.
- Overlapping calendar reconciles, or overlapping drive sweeps, create an event
  twice: both plan from a calendar without it.  `DriveSweep` with two `Sweeps`
  shows it.  A poll beside a reconcile writes back the ledger it read before the
  reconcile added to it: without its exception for a record in two jobs' hands
  (`raced`) `EveryBlockTracked` fails in `calendar`.
- `FA/calendar_reconcile.py:362` fetches a window around the *active* flights; a
  departure that moves by more than the pad leaves its event out of the answer,
  and `calendar_plan.py:203` takes it for deleted and makes another.  Without its
  exception for such a flight (`strayed`) `EveryBlockTracked` fails in `calendar`.
- A reconcile runs only in a cycle with a notice (`FA/precheck.py:246`): after the
  last flight is dropped nothing starts one, and its calendar events stay, though
  `sync_tripit.py:426` says the sweep tears them down.
- A recovery that the health record could not take leaves it alerted, so the
  next outage raises no alert; an alert whose write failed is repeated, or, if
  byAir recovers first, never taken back.  And the record shows the alert
  before the gate sends it: a send that fails after that is not repeated,
  although `sync_tripit.py:193` calls the alerts at-least-once, never lost.
- A flight record that does not read and comes first in the index ends every
  cycle before any poll (`FA/precheck.py:994` leaves it its slot, and the read
  raises there): nothing is polled until the file is repaired.
- One flight that takes its whole timeout to fail keeps its neighbour from
  being polled (`FA/precheck.py:677`, `:728`): it stays the oldest, so it is tried
  first every time.  `NobodyStarves` leaves such a cycle out of its count only for the
  flights it kept from every poll; counted, `cycle_budget` finds the bound violated.
- A one-way flight that has been travelled leaves the schedule
  (`refresh-travel-schedule.py:383`); the rest of the trip then looks flightless and
  is asked about (`DE/lodging_source.py:303`).
- A sweep writes the record it judged over the answer that came in between, although
  `drive_decision.py` says that a sweep landing after an answer cannot revert it.
  `AnswerStands` names this as the only exception (`Overtaken`); without it
  `trips_answered` finds it violated.  The trip is then open again, and the nightly
  report raises it (`QuestionReaches`).
- A tight connection to a flight that is cancelled on record is still warned
  about while one of the two flights is not polled in the cycle:
  `FA/connection_risk.py:174` looks at the status of the first flight only, and
  `FA/precheck.py:414`, for which a cancelled flight has one thing to say, judges
  notices whose flights were all verified.
- A poll that only a retry asked for may fail; a warning of a tight connection that
  lapses then is raised again from the record on file, within its cadence but
  not verified in the cycle that sends it.  `RetryIsFresh` therefore speaks of
  notices that have not lapsed, and `late` of polls the cadence called for.
- A meeting under way is `past` and no neighbour (`DE/scan.py:607`): a tight next one
  gets a drive from the hotel, not the bridge from where he is (`:28`).
- A neighbour that is skipped, or whose own drive a landing removes, still takes
  the previous meeting's way back away (`DE/scan.py:958`).
- "A delay never moves a hotel across its flight" (`travel-core/itinerary.py:159`)
  holds only for a stay whose check-out is unknown; the others go by overlap.
- A leg whose route failed "is HELD, not gone" (`DE/reconcile.py:20`), and one
  failing call shall delete no correct block.  At a landing it does: when the drive
  to a meeting under way, or the way home from it, has no route, `_apply_handoff`
  drops both of its drives (`DE/postarrival.py:497`, `:512`), and the next sweep that
  cannot route one of them takes the way home off the calendar.
  `tests/test_drive_engine_postarrival.py:377` and `:585` ask for that, so
  `QuietSweep` excepts it (`LandedInto`); without the exception TLC shows it.
- Landing in the next city before check-in, the operator's position is the hotel
  he left in the previous one (rule 3 of `position_at`), and the drive from the
  airport goes there if it is near enough; `StayInCity` excepts it (`StandsIn`).

## Plan

What is left, in this order:

1. *Proofs*: `QuietSweep`, rule by rule: which drives time may take from a plan
   that is otherwise the same.
2. *Refinement*: `DriveSweep`'s `Desired` from `DrivePlan`, so that a sweep that is
   killed between two writes is followed with a whole journey's plan.
3. *Nightly sync*: detection, log and commit of new trips; the cadence gate.
4. *EV charging*: a stop stretches a drive, and with it what it may collide with.
