--------------------------- MODULE FlightlessTrips ---------------------------
(***************************************************************************)
(* Trips booked with lodging and no transport: is it a drive or a missing  *)
(* flight?  Three processes share the answer through files and hold no     *)
(* lock:                                                                   *)
(*   the drive sweep   (drive-engine/reconcile_sweep.py, lodging_source.py,*)
(*                      unplanned_notices.py) classifies the drive, asks   *)
(*                      once, plans the two legs, and mentions a leg it    *)
(*                      keeps failing to plan;                             *)
(*   the answer        (answer_drive_or_fly.py) records the operator's     *)
(*                      word in drive-decisions.json (drive_decision.py);  *)
(*   the nightly run   (nightly-travel-sync, check-travel-bookings) renews *)
(*                      travel-schedule.json, rebuilds travel-db.json and  *)
(*                      reports booking gaps, open questions among them.   *)
(* A process may die between any two of its steps.  Time goes in ticks,    *)
(* each longer than any process runs; a trip is known by a key made of its *)
(* name and its start month.                                               *)
(***************************************************************************)
EXTENDS Integers, FiniteSets

CONSTANTS
  Trips,        \* trips that may be booked
  NameOf,       \* the summary each trip carries in TripIt
  None,         \* no record, no block, not booked
  Starts,       \* instants a trip may start
  Length,       \* from its start to its end
  Month,        \* ticks in a calendar month
  Window,       \* SWEEP_WINDOW and NOTICE_HORIZON
  Offers,       \* what TripIt may come to hold of a trip
  Grace,        \* VERDICT_GRACE, and _EXPIRY_GRACE of a notice
  Persist,      \* PERSIST_BEFORE_NOTICE
  MaxNow,       \* model bound: the last instant
  MaxEvents     \* model bound: bookings, snoozes, replies and failures in all

ASSUME FlightlessAssumption ==
  /\ NameOf \in [Trips -> STRING]
  /\ Starts \subseteq Nat /\ Length \in Nat /\ Month \in Nat \ {0}
  /\ Window \in Nat /\ Grace \in Nat \ {0} /\ Persist \in Nat
  /\ Offers \subseteq [start : Starts, stay : BOOLEAN, ride : SUBSET {"out", "back"}] \cup {None}
  /\ MaxNow \in Nat
  /\ None \notin Nat
  /\ None \notin [word : {"drive", "unknown", "fly"}, by : {"drive_time", "operator"},
                  asked : BOOLEAN, expires : Nat]

VARIABLES
  now,        \* wall clock
  band,       \* what the routed drive alone says of each trip
  feed,       \* TripIt's own view of each trip
  schedule,   \* travel-schedule.json
  db,         \* travel-db.json, by trip key
  store,      \* drive-decisions.json, by trip key
  snooze,     \* travel-booking-state.json: snoozed until
  noted,      \* unplanned-notices.v1.json, by leg
  blocks,     \* when the calendar has each leg's drive
  pc, at, read, verdicts, todo, trip, existing, asks, want, held, lines,
              \* the sweep: step, clock, schedule, verdicts, trips to record,
              \* the one in hand, its record as read, questions, legs, notices
  apc, reply, \* the answer: step, and what it is about to record
  npc,        \* the nightly run: step
  asked, noticed, heard, said,
              \* the operator: questions per record, mentions per spell,
              \* trips ever asked about, last word given
  events

sweep == <<pc, at, read, verdicts, todo, trip, existing, asks, want, held, lines>>
files == <<schedule, db, store, snooze, noted>>
operator == <<asked, noticed, heard, said>>
answer == <<apc, reply>>
vars == <<now, band, feed, files, blocks, sweep, answer, npc, operator, events>>

Bands == {"drive", "unknown", "fly"}
Words == {"drive", "fly"}
Sides == {"out", "back"}
Legs == Trips \X Sides
Booked == [start : Starts, stay : BOOLEAN, ride : SUBSET Sides]
Keys == {NameOf[t] : t \in Trips} \X {s \div Month : s \in Starts}

-----------------------------------------------------------------------------
(* Trips and their key. *)
Key(t, rec) == <<NameOf[t], rec.start \div Month>>
End(rec) == rec.start + Length
Due(rec, side) == IF side = "out" THEN rec.start ELSE End(rec)

(* find_drive_trips: lodging, no transport, not over, near enough. *)
Flightless(s, t, n) ==
  /\ s[t] # None
  /\ n <= End(s[t]) /\ s[t].start <= n + Window
  /\ s[t].stay /\ s[t].ride = {}

Active(v, n) == v # None /\ v.expires > n
ByOperator(v) == v # None /\ v.by = "operator"

(* Defect: the band, whatever the operator said. *)
EffectiveBand(t) == band[t]

(* The operator's answer, else the band. *)
Effective(t) ==
  LET v == verdicts[Key(t, read[t])] IN IF ByOperator(v) THEN v.word ELSE band[t]

(* A question is owed while nobody answered and none was asked. *)
Owed(t) ==
  LET v == verdicts[Key(t, read[t])] IN
  Effective(t) = "unknown" /\ (v = None \/ (v.word = "unknown" /\ ~v.asked))

(* The legs to plan and the legs to keep as they are, when the way there fails
   for the trips in lost and the way back for those in lostBack. *)
Planned(trips, lost, lostBack) ==
  {l \in (trips \ lost) \X Sides :
     /\ Effective(l[1]) = "drive"
     /\ Due(read[l[1]], l[2]) >= at
     /\ l[2] = "back" => l[1] \notin lostBack}

FlownFor(t) ==
  LET v == verdicts[Key(t, read[t])] IN ByOperator(v) /\ v.word = "fly"

Kept(trips, lost, lostBack) ==
  {l \in (trips \cap lost) \X Sides : ~FlownFor(l[1])}
  \cup {l \in ((trips \ lost) \X Sides) \ Planned(trips, lost, lostBack) :
          Effective(l[1]) = "drive"}

(* Defect: the question's stamp is lost with every new reading of the road. *)
DriveTimeUnstamped(t, old) ==
  [word |-> band[t], by |-> "drive_time", asked |-> FALSE, expires |-> End(read[t]) + Grace]

(* record_drive_time: the record a sweep writes. *)
DriveTime(t, old) ==
  [word |-> band[t], by |-> "drive_time", asked |-> old # None /\ old.asked,
   expires |-> End(read[t]) + Grace]

(* Defect: a sweep's reading of the road replaces the answer. *)
PreservedNever(v) == FALSE

(* record_drive_time leaves an unexpired answer alone. *)
Preserved(v) == ByOperator(v) /\ v.expires > at

(* due_notices: a leg's entry, and the legs to mention. *)
Missing(b) == {l \in held : b[l] = None}
Current(b) ==
  {l \in Missing(b) :
     at <= Due(read[l[1]], l[2]) /\ Due(read[l[1]], l[2]) <= at + Window}
Spell(l) ==
  IF noted[l] = None \/ (noted[l] # None /\ noted[l].expires <= at)
  THEN [first |-> at, told |-> FALSE, expires |-> Due(read[l[1]], l[2]) + Grace]
  ELSE noted[l]
Ripe(l) == ~Spell(l).told /\ at - Spell(l).first >= Persist

-----------------------------------------------------------------------------
Init ==
  /\ now = 0
  /\ band \in [Trips -> Bands]
  /\ feed \in [Trips -> Offers]
  /\ schedule = feed
  /\ db = [k \in Keys |-> None]
  /\ store = [k \in Keys |-> None]
  /\ snooze = [k \in Keys |-> None]
  /\ noted = [l \in Legs |-> None]
  /\ blocks = [l \in Legs |-> None]
  /\ pc = "idle" /\ at = 0 /\ trip = None /\ existing = None
  /\ read = [t \in Trips |-> None] /\ verdicts = [k \in Keys |-> None]
  /\ todo = {} /\ asks = {} /\ want = {} /\ held = {} /\ lines = {}
  /\ apc = "idle" /\ reply = None
  /\ npc = "idle"
  /\ asked = [k \in Keys |-> 0] /\ noticed = [l \in Legs |-> 0]
  /\ heard = {} /\ said = [k \in Keys |-> None]
  /\ events = 0

(* Whatever the sweep held in memory is gone. *)
SweepOver ==
  /\ pc' = "idle" /\ at' = 0 /\ trip' = None /\ existing' = None
  /\ read' = [t \in Trips |-> None] /\ verdicts' = [k \in Keys |-> None]
  /\ todo' = {} /\ asks' = {} /\ want' = {} /\ held' = {} /\ lines' = {}

Begin ==
  /\ pc = "idle"
  /\ pc' = "load" /\ at' = now /\ read' = schedule
  /\ UNCHANGED <<now, band, feed, files, blocks, answer, npc, operator, events,
                 verdicts, todo, trip, existing, asks, want, held, lines>>

(* load_verdicts, once for the whole sweep: a record that has expired is over. *)
Load ==
  /\ pc = "load"
  /\ pc' = "plan"
  /\ verdicts' = [k \in Keys |-> IF Active(store[k], at) THEN store[k] ELSE None]
  /\ asked' = [k \in Keys |-> IF Active(store[k], at) THEN asked[k] ELSE 0]
  /\ UNCHANGED <<now, band, feed, files, blocks, answer, npc, noticed, heard, said, events,
                 at, read, todo, trip, existing, asks, want, held, lines>>

(* prune, then lodging_desired_blocks with whatever routes came back. *)
Plan(lost, lostBack) ==
  LET trips == {t \in Trips : Flightless(read, t, at)} IN
  /\ pc = "plan"
  /\ lost \subseteq trips /\ lostBack \subseteq trips
  /\ \/ lost \cup lostBack = {} /\ UNCHANGED events
     \/ lost \cup lostBack # {} /\ events < MaxEvents /\ events' = events + 1
  /\ pc' = "note"
  /\ store' = [k \in Keys |-> IF Active(store[k], at) THEN store[k] ELSE None]
  /\ todo' = trips \ lost
  /\ want' = Planned(trips, lost, lostBack)
  /\ held' = Kept(trips, lost, lostBack)
  /\ UNCHANGED <<now, band, feed, schedule, db, snooze, noted, blocks, answer, npc,
                 operator, at, read, verdicts, trip, existing, asks, lines>>

(* With this trip's record in place, its question comes next, else the next trip. *)
AfterRecord(t) ==
  IF Owed(t)
  THEN pc' = "mark" /\ trip' = t /\ UNCHANGED todo
  ELSE pc' = "note" /\ trip' = None /\ todo' = todo \ {t}

(* record_drive_time reads the record ... *)
Note(t) ==
  /\ pc = "note" /\ t \in todo
  /\ IF Preserved(store[Key(t, read[t])])
     THEN existing' = None /\ AfterRecord(t)
     ELSE /\ existing' = store[Key(t, read[t])]
          /\ pc' = "save" /\ trip' = t /\ UNCHANGED todo
  /\ UNCHANGED <<now, band, feed, files, blocks, answer, npc, operator, events,
                 at, read, verdicts, asks, want, held, lines>>

(* ... and writes it anew. *)
Save ==
  /\ pc = "save"
  /\ store' = [store EXCEPT ![Key(trip, read[trip])] = DriveTime(trip, existing)]
  /\ existing' = None
  /\ AfterRecord(trip)
  /\ UNCHANGED <<now, band, feed, schedule, db, snooze, noted, blocks, answer, npc,
                 operator, events, at, read, verdicts, asks, want, held, lines>>

(* mark_asked reads the record again; the question is on its way either way. *)
Mark ==
  LET k == Key(trip, read[trip]) IN
  /\ pc = "mark"
  /\ store[k] # None
  /\ asks' = asks \cup {k}
  /\ IF store[k].asked
     THEN pc' = "note" /\ trip' = None /\ todo' = todo \ {trip} /\ UNCHANGED existing
     ELSE pc' = "stamp" /\ existing' = store[k] /\ UNCHANGED <<trip, todo>>
  /\ UNCHANGED <<now, band, feed, files, blocks, answer, npc, operator, events,
                 at, read, verdicts, want, held, lines>>

Stamp ==
  /\ pc = "stamp"
  /\ store' = [store EXCEPT ![Key(trip, read[trip])] = [existing EXCEPT !.asked = TRUE]]
  /\ pc' = "note" /\ trip' = None /\ existing' = None /\ todo' = todo \ {trip}
  /\ UNCHANGED <<now, band, feed, schedule, db, snooze, noted, blocks, answer, npc,
                 operator, events, at, read, verdicts, asks, want, held, lines>>

(* The plan reaches the calendar (DriveSweep has the detail): what is neither
   planned nor held nor past goes.  A held leg without a block is missing. *)
Apply ==
  /\ pc = "note" /\ todo = {}
  /\ pc' = "notice"
  /\ blocks' = [l \in Legs |->
       IF l \in want THEN Due(read[l[1]], l[2])
       ELSE IF l \in held \/ (blocks[l] # None /\ blocks[l] < at) THEN blocks[l] ELSE None]
  /\ UNCHANGED <<now, band, feed, files, answer, npc, operator, events,
                 at, read, verdicts, todo, trip, existing, asks, want, held, lines>>

(* due_notices: recorded before anything is said. *)
Notice ==
  LET cur == Current(blocks) IN
  /\ pc = "notice"
  /\ pc' = "say"
  /\ lines' = {l \in cur : Ripe(l)}
  /\ noted' = [l \in Legs |->
       IF l \notin cur THEN None
       ELSE [Spell(l) EXCEPT !.told = @ \/ Ripe(l)]]
  /\ noticed' = [l \in Legs |->
       IF l \in cur /\ Spell(l) = noted[l] THEN noticed[l] ELSE 0]
  /\ UNCHANGED <<now, band, feed, schedule, db, store, snooze, blocks, answer, npc,
                 asked, heard, said, events,
                 at, read, verdicts, todo, trip, existing, asks, want, held>>

(* The payload is printed; the host sends its message. *)
Say ==
  /\ pc = "say"
  /\ asked' = [k \in Keys |-> IF k \in asks THEN asked[k] + 1 ELSE asked[k]]
  /\ noticed' = [l \in Legs |-> IF l \in lines THEN noticed[l] + 1 ELSE noticed[l]]
  /\ heard' = heard \cup asks
  /\ SweepOver
  /\ UNCHANGED <<now, band, feed, files, blocks, answer, npc, said, events>>

(* Killed, or any exception: main prints no message. *)
SweepDies ==
  /\ pc # "idle" /\ events < MaxEvents
  /\ events' = events + 1
  /\ SweepOver
  /\ UNCHANGED <<now, band, feed, files, blocks, answer, npc, operator>>

-----------------------------------------------------------------------------
(* The operator's answer. *)
Named(t) == {u \in Trips : Flightless(schedule, u, now) /\ NameOf[u] = NameOf[t]}

(* One trip of that name: record_operator_answer reads its record. *)
AnswerRead(t, word) ==
  /\ apc = "idle" /\ events < MaxEvents
  /\ Named(t) = {t}
  /\ LET k == Key(t, schedule[t]) IN
     reply' = [key |-> k,
               rec |-> [word |-> word, by |-> "operator",
                        asked |-> store[k] # None /\ store[k].asked,
                        expires |-> End(schedule[t]) + Grace]]
  /\ apc' = "save" /\ events' = events + 1
  /\ UNCHANGED <<now, band, feed, files, blocks, sweep, npc, operator>>

AnswerSave ==
  /\ apc = "save"
  /\ store' = [store EXCEPT ![reply.key] = reply.rec]
  /\ said' = [said EXCEPT ![reply.key] = reply.rec]
  /\ apc' = "idle" /\ reply' = None
  /\ UNCHANGED <<now, band, feed, schedule, db, snooze, noted, blocks, sweep, npc,
                 asked, noticed, heard, events>>

AnswerDies ==
  /\ apc = "save" /\ events < MaxEvents
  /\ events' = events + 1 /\ apc' = "idle" /\ reply' = None
  /\ UNCHANGED <<now, band, feed, files, blocks, sweep, npc, operator>>

-----------------------------------------------------------------------------
(* The nightly run, by its schedule or on request. *)

(* refresh-travel-schedule keeps the events still to end: a check-in stays with
   its check-out, a segment that has been travelled goes. *)
Upcoming(rec) ==
  IF rec = None \/ (rec # None /\ End(rec) < now) THEN None
  ELSE [rec EXCEPT !.ride = {side \in @ : Due(rec, side) >= now}]
Refresh ==
  /\ npc = "idle" /\ npc' = "build"
  /\ schedule' = [t \in Trips |-> Upcoming(feed[t])]
  /\ UNCHANGED <<now, band, feed, db, store, snooze, noted, blocks, sweep, answer,
                 operator, events>>

(* The feed is unreachable or malformed: the previous file stays. *)
RefreshFails ==
  /\ npc = "idle" /\ events < MaxEvents
  /\ npc' = "build" /\ events' = events + 1
  /\ UNCHANGED <<now, band, feed, files, blocks, sweep, answer, operator>>

(* build-travel-db: one entry per key, so of two trips with one key the later
   one stays. *)
OfKey(k) == {t \in Trips : schedule[t] # None /\ End(schedule[t]) >= now
                           /\ Key(t, schedule[t]) = k}
Build ==
  /\ npc = "build" /\ npc' = "check"
  /\ db' = [k \in Keys |->
       IF OfKey(k) = {} THEN None
       ELSE schedule[CHOOSE t \in OfKey(k) :
              \A u \in OfKey(k) : schedule[u].start <= schedule[t].start]]
  /\ UNCHANGED <<now, band, feed, schedule, store, snooze, noted, blocks, sweep, answer,
                 operator, events>>

(* Defect: only a settled flight is a gap. *)
GapVerdictSettled(k) == Active(store[k], now) /\ store[k].word = "fly"

(* load_transport_gap_verdicts: flown, or still open. *)
GapVerdict(k) == Active(store[k], now) /\ store[k].word \in {"fly", "unknown"}

(* The line check-travel-bookings has for a trip, if any. *)
Gap(k) ==
  LET rec == db[k] IN
  IF rec = None \/ (rec # None /\ End(rec) < now) THEN "none"
  ELSE IF ~rec.stay /\ rec.ride = {} THEN IF now < rec.start THEN "empty" ELSE "none"
  ELSE IF rec.ride # {} THEN IF rec.stay \/ Length = 0 THEN "none" ELSE "no hotel"
  ELSE IF GapVerdict(k) THEN IF store[k].word = "fly" THEN "no flight" ELSE "drive or fly"
  ELSE "none"

Snoozed(k) == snooze[k] # None /\ snooze[k] >= now

Check ==
  /\ npc = "check" /\ npc' = "idle"
  /\ heard' = heard \cup {k \in Keys : Gap(k) \in {"no flight", "drive or fly"} /\ ~Snoozed(k)}
  /\ UNCHANGED <<now, band, feed, files, blocks, sweep, answer, asked, noticed, said, events>>

NightDies ==
  /\ npc # "idle" /\ events < MaxEvents
  /\ npc' = "idle" /\ events' = events + 1
  /\ UNCHANGED <<now, band, feed, files, blocks, sweep, answer, operator>>

-----------------------------------------------------------------------------
(* The world and the operator's other commands. *)
Change(t, rec) ==
  /\ events < MaxEvents /\ events' = events + 1
  /\ feed[t] # rec /\ feed' = [feed EXCEPT ![t] = rec]
  /\ UNCHANGED <<now, band, files, blocks, sweep, answer, npc, operator>>

Reroute(t, b) ==
  /\ events < MaxEvents /\ events' = events + 1
  /\ band[t] # b /\ band' = [band EXCEPT ![t] = b]
  /\ UNCHANGED <<now, feed, files, blocks, sweep, answer, npc, operator>>

(* update-travel-booking-state: --action snooze, or resolve. *)
Snooze(k, until) ==
  /\ events < MaxEvents /\ events' = events + 1
  /\ snooze[k] # until /\ snooze' = [snooze EXCEPT ![k] = until]
  /\ UNCHANGED <<now, band, feed, schedule, db, store, noted, blocks, sweep, answer, npc,
                 operator>>

(* No process runs longer than a tick. *)
Tick ==
  /\ pc = "idle" /\ npc = "idle" /\ apc = "idle"
  /\ now < MaxNow /\ now' = now + 1
  /\ UNCHANGED <<band, feed, files, blocks, sweep, answer, npc, operator, events>>

SweepStep ==
  \/ Begin \/ Load
  \/ \E lost, lostBack \in SUBSET Trips : Plan(lost, lostBack)
  \/ \E t \in Trips : Note(t)
  \/ Save \/ Mark \/ Stamp \/ Apply \/ Notice \/ Say
NightStep == Refresh \/ Build \/ Check

Next ==
  \/ SweepStep \/ SweepDies
  \/ \E t \in Trips, word \in Words : AnswerRead(t, word)
  \/ AnswerSave \/ AnswerDies
  \/ NightStep \/ RefreshFails \/ NightDies
  \/ \E t \in Trips : \/ \E rec \in Offers : Change(t, rec)
                      \/ \E b \in Bands : Reroute(t, b)
  \/ \E k \in Keys : Snooze(k, None) \/ (snooze[k] = None /\ Snooze(k, now + 1))
  \/ Tick

Spec == Init /\ [][Next]_vars
(* The scheduler starts sweeps and nightly runs again and again, and what is
   not killed goes on. *)
FairSpec == Spec /\ WF_vars(SweepStep) /\ WF_vars(NightStep) /\ WF_vars(AnswerSave)

-----------------------------------------------------------------------------
(* The sweep is about to write over another record than the one it judged: the
   answer was written in between. *)
Overtaken(k) ==
  pc \in {"save", "stamp"} /\ k = Key(trip, read[trip]) /\ existing # store[k]

(* drive_decision.py: an answer outranks the band, so a sweep landing after it
   cannot revert it.  As long as an answer is in force only the operator's next
   one takes its place; a sweep may no more than stamp it as asked, unless the
   answer came in after it had read the record. *)
AnswerStands ==
  [][\A k \in Keys :
       ByOperator(store[k]) /\ store[k].expires > now /\ store'[k] # store[k]
         => \/ store'[k] = [store[k] EXCEPT !.asked = TRUE]
            \/ apc = "save" /\ store'[k] = reply.rec
            \/ Overtaken(k)]_vars

(* Nobody is nagged: in the life of one record the question about its trip goes
   out once, whatever dies in between, and a drive that stays missing is
   mentioned once in its spell. *)
SaidOnce ==
  /\ \A k \in Keys : asked[k] <= 1
  /\ \A l \in Legs : noticed[l] <= 1

(* A flightless trip that needs an answer, or a flight, and has no answer on file. *)
Open(t) ==
  IF Flightless(feed, t, now) /\ feed[t] = schedule[t] /\ band[t] # "drive"
  THEN LET k == Key(t, feed[t]) IN ~(Active(store[k], now) /\ ByOperator(store[k])) /\ snooze[k] = None
  ELSE FALSE

(* Such a trip is not passed over in silence: should the sweep lose its one
   question, or write over the answer, the nightly report raises it
   (check-travel-bookings.py:55). *)
QuestionReaches ==
  \A t \in Trips : <>[]Open(t) => <>(\E k \in heard : k[1] = NameOf[t])

(* What the operator last said of a trip, in force, about the trip as it is and
   not overwritten by a sweep it overtook. *)
Stands(t, word) ==
  IF Flightless(schedule, t, now)
  THEN LET k == Key(t, schedule[t]) IN
       /\ \E v \in {said[k]} \ {None} : v.word = word /\ v.expires > now
       /\ ByOperator(store[k]) /\ store[k].word = word
  ELSE FALSE

Followed(t, word) ==
  \A side \in Sides :
    IF word = "fly"
    THEN blocks[<<t, side>>] # None => blocks[<<t, side>>] < now
    ELSE Flightless(schedule, t, now) /\ Due(schedule[t], side) >= now
           => blocks[<<t, side>>] = Due(schedule[t], side)

(* The calendar comes to follow the answer: no drive ahead for a trip that is
   flown, both legs at their time for one that is driven. *)
AnswerObeyed ==
  \A t \in Trips, word \in Words : <>[]Stands(t, word) => <>[]Followed(t, word)
=============================================================================
