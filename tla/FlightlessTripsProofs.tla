------------------------ MODULE FlightlessTripsProofs ------------------------
(***************************************************************************)
(* For any trips, keys, times and failures: an answer in force stands      *)
(* against every sweep that read the record after it was written.  A sweep *)
(* judges the record it read, by the clock it read at its start, and       *)
(* leaves an answer in force alone; it writes over one only where it read  *)
(* something else.  Two trips may share a key, and the nightly run may     *)
(* change the schedule under both.  Nothing is said twice, in any order.   *)
(***************************************************************************)
EXTENDS FlightlessTrips, TLAPS

Word == {v \in [word : Bands, by : {"drive_time", "operator"}, asked : BOOLEAN, expires : Nat] :
           v.by = "operator" => v.word \in Words}
Spells == [first : Nat, told : BOOLEAN, expires : Nat]
Listing == [Trips -> Booked \cup {None}]

\* What the schedule, the records, the notices and the two hands hold.
Shape ==
  /\ now \in Nat /\ at \in Nat /\ at <= now
  /\ band \in [Trips -> Bands]
  /\ feed \in Listing /\ schedule \in Listing /\ read \in Listing
  /\ store \in [Keys -> Word \cup {None}] /\ verdicts \in [Keys -> Word \cup {None}]
  /\ noted \in [Legs -> Spells \cup {None}]
  /\ asked \in [Keys -> Nat] /\ noticed \in [Legs -> Nat]
  /\ asks \subseteq Keys /\ lines \subseteq Legs
  /\ todo \subseteq {t \in Trips : read[t] # None}
  /\ held \subseteq {l \in Legs : read[l[1]] # None}
  /\ pc \in {"idle", "load", "plan"} => todo = {} /\ held = {}
  /\ pc \in {"save", "mark", "stamp"} => trip \in Trips /\ read[trip] # None
  /\ pc = "save" => existing \in Word \cup {None}
  /\ pc = "stamp" => existing \in Word
  /\ apc = "save" => reply.key \in Keys /\ reply.rec \in Word

\* The sweep records the drive only over a record it may replace.
Judged == pc = "save" => ~Preserved(existing)

Inv == Shape /\ Judged

LEMMA KeyType ==
  ASSUME NEW t \in Trips, NEW rec \in Booked PROVE Key(t, rec) \in Keys
BY FlightlessAssumption DEF Key, Keys, Booked

LEMMA EndNat ==
  ASSUME NEW rec \in Booked PROVE rec.start \in Nat /\ End(rec) \in Nat
<1>1. rec.start \in Starts
  BY DEF Booked
<1>2. rec.start \in Nat /\ Length \in Nat
  BY <1>1, FlightlessAssumption
<1> QED
  BY <1>2 DEF End

LEMMA DueType ==
  ASSUME NEW rec \in Booked, NEW side
  PROVE  Due(rec, side) + Grace \in Nat /\ End(rec) + Grace \in Nat
BY EndNat, FlightlessAssumption DEF Due

LEMMA DriveTimeType ==
  ASSUME NEW t \in Trips, NEW old, band[t] \in Bands, read[t] \in Booked
  PROVE  DriveTime(t, old) \in Word
<1>1. End(read[t]) + Grace \in Nat
  BY DueType
<1>2. (old # None /\ old.asked) \in BOOLEAN
  BY Zenon
<1> QED
  BY <1>1, <1>2 DEF DriveTime, Word

LEMMA StampType ==
  ASSUME NEW v \in Word PROVE [v EXCEPT !.asked = TRUE] \in Word
BY DEF Word

LEMMA UpcomingType ==
  ASSUME NEW t \in Trips, feed \in Listing PROVE Upcoming(feed[t]) \in Booked \cup {None}
<1>1. CASE feed[t] = None
  BY <1>1 DEF Upcoming
<1>2. CASE feed[t] # None
  <2> DEFINE rec == feed[t]
  <2>1. rec \in Booked
    BY <1>2 DEF Listing
  <2>2. {side \in rec.ride : Due(rec, side) >= now} \in SUBSET Sides
    BY <2>1 DEF Booked
  <2>3. [rec EXCEPT !.ride = {side \in @ : Due(rec, side) >= now}] \in Booked
    BY <2>1, <2>2 DEF Booked
  <2> QED
    BY <2>3 DEF Upcoming
<1> QED
  BY <1>1, <1>2

\* A sweep that overwrites an unexpired answer would need to have judged it so
\* by a clock ahead of the wall clock.
LEMMA InForceIsPreserved ==
  ASSUME Shape, NEW k \in Keys, ByOperator(store[k]), store[k].expires > now
  PROVE  Preserved(store[k])
BY DEF Shape, Preserved, ByOperator, Word

-----------------------------------------------------------------------------
LEMMA ShapeInit == Init => Shape
<1>1. Offers \subseteq Booked \cup {None}
  BY FlightlessAssumption DEF Booked, Sides
<1> QED
  BY <1>1 DEF Init, Shape, Listing

LEMMA AfterRecordKeeps ==
  ASSUME Shape, NEW t \in Trips, read[t] # None, AfterRecord(t), UNCHANGED read
  PROVE  /\ todo' \subseteq {u \in Trips : read'[u] # None}
         /\ pc' \in {"mark", "note"}
         /\ pc' = "mark" => trip' \in Trips /\ read'[trip'] # None
BY DEF AfterRecord, Shape

LEMMA SpellType ==
  ASSUME Shape, NEW l \in held PROVE Spell(l) \in Spells
<1>1. l \in Legs /\ read[l[1]] \in Booked
  BY DEF Shape, Listing, Legs
<1>2. Due(read[l[1]], l[2]) + Grace \in Nat
  BY <1>1, DueType
<1>3. noted[l] \in Spells \cup {None} /\ at \in Nat
  BY <1>1 DEF Shape
<1> QED
  BY <1>2, <1>3 DEF Spell, Spells

LEMMA ShapeSweep == Shape /\ SweepStep => Shape'
<1> SUFFICES ASSUME Shape, SweepStep PROVE Shape'
  OBVIOUS
<1>1. CASE Begin
  BY <1>1 DEF Begin, Shape, files, answer, operator
<1>2. CASE Load
  <2>1. verdicts' \in [Keys -> Word \cup {None}] /\ asked' \in [Keys -> Nat]
    BY <1>2 DEF Load, Shape
  <2> QED
    BY <1>2, <2>1 DEF Load, Shape, files, answer
<1>3. ASSUME NEW lost \in SUBSET Trips, NEW lostBack \in SUBSET Trips, Plan(lost, lostBack)
      PROVE Shape'
  <2>1. store' \in [Keys -> Word \cup {None}]
    BY <1>3 DEF Plan, Shape
  <2> DEFINE trips == {t \in Trips : Flightless(read, t, at)}
  <2>2. trips \subseteq {t \in Trips : read[t] # None}
    BY DEF Flightless
  <2>3. held' \subseteq trips \X Sides /\ todo' \subseteq trips
    BY <1>3 DEF Plan, Kept
  <2>4. held' \subseteq {l \in Legs : read[l[1]] # None}
    BY <2>2, <2>3 DEF Legs
  <2> QED
    BY <1>3, <2>1, <2>2, <2>3, <2>4 DEF Plan, Shape, answer, operator
<1>4. ASSUME NEW t \in Trips, Note(t) PROVE Shape'
  <2>1. read[t] # None /\ store[Key(t, read[t])] \in Word \cup {None}
    BY <1>4, KeyType DEF Note, Shape, Listing
  <2>2. CASE Preserved(store[Key(t, read[t])])
    <3>1. AfterRecord(t) /\ UNCHANGED read
      BY <1>4, <2>2 DEF Note
    <3>2. /\ todo' \subseteq {u \in Trips : read'[u] # None}
          /\ pc' \in {"mark", "note"}
          /\ pc' = "mark" => trip' \in Trips /\ read'[trip'] # None
      BY <2>1, <3>1, AfterRecordKeeps
    <3> QED
      BY <1>4, <3>2 DEF Note, Shape, files, answer, operator
  <2>3. CASE ~Preserved(store[Key(t, read[t])])
    BY <1>4, <2>1, <2>3 DEF Note, Shape, files, answer, operator
  <2> QED
    BY <2>2, <2>3
<1>5. CASE Save
  <2>1. trip \in Trips /\ read[trip] # None /\ read[trip] \in Booked
    BY <1>5 DEF Save, Shape, Listing
  <2>2. store' \in [Keys -> Word \cup {None}]
    <3>1. band[trip] \in Bands
      BY <2>1 DEF Shape
    <3>2. DriveTime(trip, existing) \in Word
      BY <2>1, <3>1, DriveTimeType
    <3> QED
      BY <1>5, <3>2 DEF Save, Shape
  <2>3. /\ todo' \subseteq {u \in Trips : read'[u] # None}
        /\ pc' \in {"mark", "note"}
        /\ pc' = "mark" => trip' \in Trips /\ read'[trip'] # None
    BY <1>5, <2>1, AfterRecordKeeps DEF Save
  <2> QED
    BY <1>5, <2>2, <2>3 DEF Save, Shape, answer, operator
<1>6. CASE Mark
  <2> DEFINE k == Key(trip, read[trip])
  <2>1. k \in Keys /\ store[k] \in Word
    BY <1>6, KeyType DEF Mark, Shape, Listing
  <2>2. asks' \subseteq Keys
    BY <1>6, <2>1 DEF Mark, Shape
  <2>3. CASE store[k].asked
    BY <1>6, <2>2, <2>3 DEF Mark, Shape, files, answer, operator
  <2>4. CASE ~store[k].asked
    BY <1>6, <2>1, <2>2, <2>4 DEF Mark, Shape, files, answer, operator
  <2> QED
    BY <2>3, <2>4
<1>7. CASE Stamp
  <2>1. store' \in [Keys -> Word \cup {None}]
    BY <1>7, StampType DEF Stamp, Shape
  <2> QED
    BY <1>7, <2>1 DEF Stamp, Shape, answer, operator
<1>8. CASE Apply
  BY <1>8 DEF Apply, Shape, files, answer, operator
<1>9. CASE Notice
  <2>1. ASSUME NEW l \in Current(blocks) PROVE l \in Legs /\ Spell(l) \in Spells
    BY <2>1, SpellType DEF Current, Missing, Shape
  <2>2. ASSUME NEW l \in Current(blocks)
        PROVE  [Spell(l) EXCEPT !.told = @ \/ Ripe(l)] \in Spells
    <3>1. (Spell(l).told \/ Ripe(l)) \in BOOLEAN
      BY Zenon DEF Ripe
    <3> QED
      BY <2>1, <3>1 DEF Spells
  <2>3. noted' \in [Legs -> Spells \cup {None}]
    BY <1>9, <2>2 DEF Notice
  <2>4. noticed' \in [Legs -> Nat] /\ lines' \subseteq Legs
    BY <1>9, <2>1 DEF Notice, Shape
  <2> QED
    BY <1>9, <2>3, <2>4 DEF Notice, Shape, answer
<1>10. CASE Say
  <2>1. asked' \in [Keys -> Nat] /\ noticed' \in [Legs -> Nat]
    BY <1>10 DEF Say, Shape
  <2> QED
    BY <1>10, <2>1 DEF Say, SweepOver, Shape, files, answer, Listing
<1> QED
  BY <1>1, <1>2, <1>3, <1>4, <1>5, <1>6, <1>7, <1>8, <1>9, <1>10 DEF SweepStep

LEMMA ShapeNext == Shape /\ [Next]_vars => Shape'
<1> SUFFICES ASSUME Shape, [Next]_vars PROVE Shape'
  OBVIOUS
<1>1. CASE SweepStep
  BY <1>1, ShapeSweep
<1>2. CASE SweepDies
  BY <1>2 DEF SweepDies, SweepOver, Shape, files, answer, operator, Listing
<1>3. ASSUME NEW t \in Trips, NEW word \in Words, AnswerRead(t, word) PROVE Shape'
  <2> DEFINE rec == [word |-> word, by |-> "operator",
                     asked |-> store[Key(t, schedule[t])] # None
                               /\ store[Key(t, schedule[t])].asked,
                     expires |-> End(schedule[t]) + Grace]
  <2>1. schedule[t] \in Booked
    <3>1. t \in Named(t)
      BY <1>3 DEF AnswerRead
    <3> QED
      BY <3>1 DEF Named, Flightless, Shape, Listing
  <2>2. rec \in Word
    <3>1. (store[Key(t, schedule[t])] # None /\ store[Key(t, schedule[t])].asked) \in BOOLEAN
      BY Zenon
    <3> QED
      BY <2>1, <3>1, DueType DEF Words, Bands, Word
  <2>3. reply'.key = Key(t, schedule[t]) /\ reply'.rec = rec
    BY <1>3 DEF AnswerRead
  <2>4. reply'.key \in Keys /\ reply'.rec \in Word
    BY <2>1, <2>2, <2>3, KeyType
  <2> QED
    BY <1>3, <2>4 DEF AnswerRead, Shape, files, sweep, operator
<1>4. CASE AnswerSave
  <2>1. store' \in [Keys -> Word \cup {None}]
    BY <1>4 DEF AnswerSave, Shape
  <2> QED
    BY <1>4, <2>1 DEF AnswerSave, Shape, sweep
<1>5. CASE AnswerDies
  BY <1>5 DEF AnswerDies, Shape, files, sweep, operator
<1>6. CASE Refresh
  <2>1. schedule' \in Listing
    BY <1>6, UpcomingType DEF Refresh, Shape, Listing
  <2> QED
    BY <1>6, <2>1 DEF Refresh, Shape, sweep, answer, operator
<1>7. CASE RefreshFails \/ Check \/ NightDies
  BY <1>7 DEF RefreshFails, Check, NightDies, Shape, files, sweep, answer, operator
<1>8. CASE Build
  BY <1>8 DEF Build, Shape, sweep, answer, operator
<1>9. ASSUME NEW t \in Trips, NEW rec \in Offers, Change(t, rec) PROVE Shape'
  <2>1. feed' \in Listing
    BY <1>9, FlightlessAssumption DEF Change, Shape, Listing, Booked, Sides
  <2> QED
    BY <1>9, <2>1 DEF Change, Shape, files, sweep, answer, operator
<1>10. ASSUME NEW t \in Trips, NEW b \in Bands, Reroute(t, b) PROVE Shape'
  BY <1>10 DEF Reroute, Shape, files, sweep, answer, operator
<1>11. ASSUME NEW k \in Keys, NEW until, Snooze(k, until) PROVE Shape'
  BY <1>11 DEF Snooze, Shape, sweep, answer, operator
<1>12. CASE Tick
  BY <1>12 DEF Tick, Shape, files, sweep, answer, operator
<1>13. CASE UNCHANGED vars
  BY <1>13 DEF vars, Shape, files, sweep, answer, operator
<1> QED
  BY <1>1, <1>2, <1>3, <1>4, <1>5, <1>6, <1>7, <1>8, <1>9, <1>10, <1>11, <1>12, <1>13
     DEF Next, NightStep

LEMMA InvInit == Init => Inv
BY ShapeInit DEF Init, Inv, Judged

LEMMA InvNext == Inv /\ [Next]_vars => Inv'
<1> SUFFICES ASSUME Inv, [Next]_vars PROVE Judged'
  BY ShapeNext DEF Inv
<1> USE DEF Inv
<1>1. CASE Begin \/ Load \/ Apply \/ Notice \/ Say \/ SweepDies
  BY <1>1 DEF Begin, Load, Apply, Notice, Say, SweepDies, SweepOver, Judged
<1>2. ASSUME NEW lost, NEW lostBack, Plan(lost, lostBack) PROVE Judged'
  BY <1>2 DEF Plan, Judged
<1>3. ASSUME NEW t \in Trips, Note(t) PROVE Judged'
  <2>1. CASE Preserved(store[Key(t, read[t])])
    BY <1>3, <2>1 DEF Note, AfterRecord, Judged
  <2>2. CASE ~Preserved(store[Key(t, read[t])])
    BY <1>3, <2>2 DEF Note, Judged, Preserved, ByOperator
  <2> QED
    BY <2>1, <2>2
<1>4. CASE Save \/ Mark \/ Stamp
  BY <1>4 DEF Save, AfterRecord, Mark, Stamp, Judged
<1>5. UNCHANGED sweep => Judged'
  BY DEF sweep, Judged, Preserved, ByOperator
<1>6. ASSUME NEW t, NEW word, AnswerRead(t, word) PROVE Judged'
  BY <1>5, <1>6 DEF AnswerRead
<1>7. CASE AnswerSave \/ AnswerDies \/ NightStep \/ RefreshFails \/ NightDies \/ Tick
           \/ UNCHANGED vars
  BY <1>5, <1>7 DEF AnswerSave, AnswerDies, NightStep, Refresh, Build, Check, RefreshFails,
                    NightDies, Tick, vars
<1>8. ASSUME NEW t, NEW x, Change(t, x) \/ Reroute(t, x) \/ Snooze(t, x) PROVE Judged'
  BY <1>5, <1>8 DEF Change, Reroute, Snooze
<1> QED
  BY <1>1, <1>2, <1>3, <1>4, <1>6, <1>7, <1>8 DEF Next, SweepStep

-----------------------------------------------------------------------------
\* One step replaces an answer in force by the operator's next answer, by the
\* same answer stamped as asked, or because the sweep had read another record.
LEMMA StandsNext ==
  ASSUME Inv, [Next]_vars, NEW k \in Keys,
         ByOperator(store[k]), store[k].expires > now, store'[k] # store[k]
  PROVE  \/ store'[k] = [store[k] EXCEPT !.asked = TRUE]
         \/ apc = "save" /\ store'[k] = reply.rec
         \/ Overtaken(k)
<1> USE DEF Inv
<1>1. Preserved(store[k])
  BY InForceIsPreserved
<1>2. CASE Save
  BY <1>1, <1>2 DEF Save, Shape, Judged, Overtaken
<1>3. CASE Stamp
  BY <1>3 DEF Stamp, Shape, Overtaken
<1>4. CASE AnswerSave
  BY <1>4 DEF AnswerSave, Shape
<1>5. ASSUME NEW lost, NEW lostBack, Plan(lost, lostBack) PROVE FALSE
  <2>1. Active(store[k], at)
    BY <1>1 DEF Preserved, ByOperator, Active
  <2> QED
    BY <1>5, <2>1 DEF Plan
<1>6. ~UNCHANGED store
  OBVIOUS
<1>7. CASE Begin \/ Load \/ Mark \/ Apply \/ Notice \/ Say \/ SweepDies
  BY <1>6, <1>7 DEF Begin, Load, Mark, Apply, Notice, Say, SweepDies, files
<1>8. ASSUME NEW t, Note(t) PROVE FALSE
  BY <1>6, <1>8 DEF Note, files
<1>9. ASSUME NEW t, NEW word, AnswerRead(t, word) PROVE FALSE
  BY <1>6, <1>9 DEF AnswerRead, files
<1>10. CASE AnswerDies \/ NightStep \/ RefreshFails \/ NightDies \/ Tick \/ UNCHANGED vars
  BY <1>6, <1>10 DEF AnswerDies, NightStep, Refresh, Build, Check, RefreshFails,
                     NightDies, Tick, vars, files
<1>11. ASSUME NEW t, NEW x, Change(t, x) \/ Reroute(t, x) \/ Snooze(t, x) PROVE FALSE
  BY <1>6, <1>11 DEF Change, Reroute, Snooze, files
<1> QED
  BY <1>2, <1>3, <1>4, <1>5, <1>7, <1>8, <1>9, <1>10, <1>11 DEF Next, SweepStep

\* An operator's answer outranks what the sweeps derive from the road, for as
\* long as it is in force (record_drive_time, prune, mark_asked): the one way to
\* lose it is a sweep that had read the record before the answer was written.
THEOREM AnswersStand == Spec => AnswerStands
<1>1. Inv /\ [Next]_vars
      => [\A k \in Keys :
            ByOperator(store[k]) /\ store[k].expires > now /\ store'[k] # store[k]
              => \/ store'[k] = [store[k] EXCEPT !.asked = TRUE]
                 \/ apc = "save" /\ store'[k] = reply.rec
                 \/ Overtaken(k)]_vars
  BY StandsNext
<1> QED
  BY InvInit, InvNext, <1>1, PTL DEF Spec, AnswerStands

-----------------------------------------------------------------------------
(* Nobody is nagged.  No hypothesis on the schedule of answers is needed: an *)
(* answer that races a sweep may be lost, but no race makes the sweep forget *)
(* that it asked.                                                            *)

\* A record after which the sweep does not ask: asked, or answered.
Settled(v) == v # None /\ (v.asked \/ v.by = "operator")

Loaded == pc \notin {"idle", "load"}
InHand == Key(trip, read[trip])

\* Asked in the life of this record, or by this sweep when it is done.
Asking(k) == k \in asks \/ asked[k] # 0

\* The sweep works at the wall clock, on trips that are not over.
Timed ==
  /\ pc # "idle" => at = now
  /\ apc = "save" => reply.rec.expires > now /\ reply.rec.by = "operator"
  /\ \A t \in todo : at <= End(read[t])
  /\ pc = "save" => at <= End(read[trip])

\* A question that went out is on record, and the sweep has seen that it is.
AskedOnce ==
  /\ ~Loaded => asks = {}
  /\ \A k \in Keys : asked[k] # 0 => asked[k] = 1 /\ Settled(store[k]) /\ k \notin asks
  /\ Loaded => \A k \in Keys :
       /\ asked[k] # 0 => Settled(verdicts[k])
       /\ Asking(k) => Active(store[k], at)
  /\ \A k \in asks : Settled(store[k]) \/ (pc = "stamp" /\ k = InHand)
  /\ pc = "save" /\ Asking(InHand) => existing # None /\ existing.asked
  /\ pc = "mark" => Active(store[InHand], at) /\ asked[InHand] = 0
  /\ pc = "stamp" => Active(existing, at) /\ InHand \in asks

\* A leg that was mentioned, or is about to be, is recorded as told.
ToldOnce ==
  /\ pc # "say" => lines = {}
  /\ \A l \in Legs : noticed[l] # 0 => noticed[l] = 1 /\ noted[l].told /\ l \notin lines
  /\ \A l \in lines : noted[l].told

Once == Shape /\ Timed /\ AskedOnce /\ ToldOnce

LEMMA TimedNext == Shape /\ Timed /\ [Next]_vars => Timed'
<1> SUFFICES ASSUME Shape, Timed, [Next]_vars PROVE Timed'
  OBVIOUS
<1>1. CASE Begin \/ Load \/ Mark \/ Stamp \/ Apply \/ Notice \/ Say \/ SweepDies
  BY <1>1 DEF Begin, Load, Mark, Stamp, Apply, Notice, Say, SweepDies, SweepOver, Shape, Timed,
              files, answer
<1>2. ASSUME NEW lost, NEW lostBack, Plan(lost, lostBack) PROVE Timed'
  BY <1>2 DEF Plan, Flightless, Shape, Timed, answer
<1>3. ASSUME NEW t \in Trips, Note(t) PROVE Timed'
  BY <1>3 DEF Note, AfterRecord, Shape, Timed, answer
<1>4. CASE Save
  BY <1>4 DEF Save, AfterRecord, Shape, Timed, answer
<1>5. ASSUME NEW t \in Trips, NEW word, AnswerRead(t, word) PROVE Timed'
  <2>1. now <= End(schedule[t]) /\ schedule[t] \in Booked
    <3>1. t \in Named(t)
      BY <1>5 DEF AnswerRead
    <3> QED
      BY <3>1 DEF Named, Flightless, Shape, Listing
  <2>2. End(schedule[t]) \in Nat /\ Grace \in Nat \ {0}
    BY <2>1, EndNat, FlightlessAssumption
  <2>3. reply'.rec.expires = End(schedule[t]) + Grace /\ reply'.rec.by = "operator"
    BY <1>5 DEF AnswerRead
  <2> QED
    BY <1>5, <2>1, <2>2, <2>3 DEF AnswerRead, sweep, Shape, Timed
<1>6. CASE AnswerSave \/ AnswerDies
  BY <1>6 DEF AnswerSave, AnswerDies, sweep, Timed
<1>7. CASE Tick
  BY <1>7 DEF Tick, sweep, answer, Shape, Timed
<1>8. CASE NightStep \/ RefreshFails \/ NightDies \/ UNCHANGED vars
  BY <1>8 DEF NightStep, Refresh, Build, Check, RefreshFails, NightDies, vars, sweep, answer,
              Timed
<1>9. ASSUME NEW t, NEW x, Change(t, x) \/ Reroute(t, x) \/ Snooze(t, x) PROVE Timed'
  BY <1>9 DEF Change, Reroute, Snooze, sweep, answer, Timed
<1> QED
  BY <1>1, <1>2, <1>3, <1>4, <1>5, <1>6, <1>7, <1>8, <1>9 DEF Next, SweepStep

\* A question is owed only if none went out in the life of the record.
LEMMA OwedUnasked ==
  ASSUME Shape, AskedOnce, Loaded, NEW t \in Trips, read[t] # None, Owed(t)
  PROVE  asked[Key(t, read[t])] = 0
<1> DEFINE k == Key(t, read[t])
<1>1. k \in Keys /\ verdicts[k] \in Word \cup {None} /\ asked[k] \in Nat
  BY KeyType DEF Shape, Listing
<1>2. SUFFICES ASSUME asked[k] # 0 PROVE FALSE
  BY <1>1
<1>3. Settled(verdicts[k])
  BY <1>1, <1>2 DEF AskedOnce
<1>4. verdicts[k].by = "operator" => verdicts[k].word \in Words /\ Effective(t) = verdicts[k].word
  BY <1>1, <1>3 DEF Settled, Word, Effective, ByOperator
<1> QED
  BY <1>3, <1>4 DEF Owed, Settled, Words

LEMMA LoadAsks ==
  ASSUME Shape, AskedOnce, Load PROVE AskedOnce'
<1>1. /\ pc = "load" /\ pc' = "plan" /\ asks = {} /\ UNCHANGED <<store, at, asks>>
  BY DEF Load, files, AskedOnce, Loaded
<1>2. ASSUME NEW k \in Keys, asked'[k] # 0
      PROVE  /\ asked'[k] = 1 /\ Settled(store[k]) /\ Active(store[k], at)
             /\ verdicts'[k] = store[k]
  BY <1>2 DEF Load, Shape, AskedOnce
<1> QED
  BY <1>1, <1>2 DEF AskedOnce, Loaded, Asking, Settled, Active

LEMMA PlanAsks ==
  ASSUME Shape, AskedOnce, NEW lost, NEW lostBack, Plan(lost, lostBack) PROVE AskedOnce'
<1>1. pc = "plan" /\ pc' = "note" /\ UNCHANGED <<asks, asked, verdicts, at>>
  BY DEF Plan, operator
<1>2. ASSUME NEW k \in Keys, Asking(k) PROVE Active(store[k], at) /\ store'[k] = store[k]
  BY <1>1, <1>2 DEF Plan, AskedOnce, Loaded
<1>3. asks \subseteq Keys
  BY DEF Shape
<1> QED
  BY <1>1, <1>2, <1>3 DEF AskedOnce, Loaded, Asking

LEMMA NoteAsks ==
  ASSUME Shape, AskedOnce, NEW t \in Trips, Note(t) PROVE AskedOnce'
<1> DEFINE k == Key(t, read[t])
<1>1. /\ pc = "note" /\ Loaded /\ Loaded' /\ read[t] # None
      /\ UNCHANGED <<asks, asked, verdicts, at, store, read>>
  BY DEF Note, AfterRecord, Loaded, Shape, files, operator
<1>2. k \in Keys /\ store[k] \in Word \cup {None}
  BY <1>1, KeyType DEF Shape, Listing
<1>3. CASE Preserved(store[k])
  <2>1. Active(store[k], at)
    BY <1>3 DEF Preserved, ByOperator, Active
  <2>2. CASE Owed(t)
    <3>1. pc' = "mark" /\ trip' = t /\ asked[k] = 0
      BY <1>1, <1>3, <2>2, OwedUnasked DEF Note, AfterRecord
    <3>2. InHand' = k
      BY <1>1, <3>1 DEF InHand, Key
    <3> QED
      BY <1>1, <2>1, <3>1, <3>2 DEF AskedOnce, Loaded, Asking, Settled
  <2>3. CASE ~Owed(t)
    BY <1>1, <1>3, <2>3 DEF Note, AfterRecord, AskedOnce, Loaded, Asking, Settled
  <2> QED
    BY <2>2, <2>3
<1>4. CASE ~Preserved(store[k])
  <2>1. pc' = "save" /\ trip' = t /\ existing' = store[k]
    BY <1>4 DEF Note
  <2>2. InHand' = k
    BY <1>1, <2>1 DEF InHand, Key
  <2>3. Asking(k) => store[k] # None /\ store[k].asked
    <3>1. Asking(k) => Active(store[k], at) /\ Settled(store[k])
      BY <1>1, <1>2 DEF AskedOnce, Asking
    <3> QED
      BY <1>4, <3>1 DEF Active, Settled, Preserved, ByOperator
  <2> QED
    BY <1>1, <2>1, <2>2, <2>3 DEF AskedOnce, Loaded, Asking, Settled
<1> QED
  BY <1>3, <1>4

LEMMA SaveAsks ==
  ASSUME Shape, Timed, AskedOnce, Save PROVE AskedOnce'
<1>1. /\ pc = "save" /\ Loaded /\ Loaded' /\ trip \in Trips /\ read[trip] \in Booked
      /\ UNCHANGED <<asks, asked, verdicts, at, read>>
  BY DEF Save, AfterRecord, Loaded, Shape, Listing, operator
<1>2. InHand \in Keys
  BY <1>1, KeyType DEF InHand
<1> DEFINE v == DriveTime(trip, existing)
<1>3. store' = [store EXCEPT ![InHand] = v] /\ v \in Word
  BY <1>1, DriveTimeType DEF Save, InHand, Shape
<1>4. Active(v, at)
  <2>1. at <= End(read[trip]) /\ End(read[trip]) \in Nat /\ Grace \in Nat \ {0} /\ at \in Nat
    BY <1>1, EndNat, FlightlessAssumption DEF Timed, Shape
  <2>2. v # None
    BY <1>3, FlightlessAssumption DEF Word, Bands
  <2> QED
    BY <2>1, <2>2 DEF Active, DriveTime
<1>5. Asking(InHand) => Settled(v)
  BY <1>1, <1>4 DEF AskedOnce, Settled, DriveTime, Active
<1>6. ASSUME NEW k \in Keys
      PROVE  /\ Asking(k) => Active(store'[k], at)
             /\ Asking(k) => Settled(store'[k])
  <2>1. CASE k = InHand
    BY <1>2, <1>3, <1>4, <1>5, <2>1 DEF Shape
  <2>2. CASE k # InHand
    BY <1>1, <1>3, <2>2 DEF AskedOnce, Asking, Shape
  <2> QED
    BY <2>1, <2>2
<1>7. Active(store'[InHand], at)
  BY <1>2, <1>3, <1>4 DEF Shape
<1>8. CASE Owed(trip)
  <2>1. pc' = "mark" /\ trip' = trip /\ asked[InHand] = 0
    BY <1>1, <1>8, OwedUnasked DEF Save, AfterRecord, InHand, Shape
  <2>2. InHand' = InHand
    BY <1>1, <2>1 DEF InHand, Key
  <2> QED
    BY <1>1, <1>6, <1>7, <2>1, <2>2 DEF AskedOnce, Loaded, Asking, Shape
<1>9. CASE ~Owed(trip)
  <2>1. pc' = "note"
    BY <1>9 DEF Save, AfterRecord
  <2> QED
    BY <1>1, <1>6, <2>1 DEF AskedOnce, Loaded, Asking, Shape
<1> QED
  BY <1>8, <1>9

LEMMA MarkAsks ==
  ASSUME Shape, AskedOnce, Mark PROVE AskedOnce'
<1>1. /\ pc = "mark" /\ Loaded /\ Loaded' /\ trip \in Trips /\ read[trip] \in Booked
      /\ asks' = asks \cup {InHand}
      /\ UNCHANGED <<asked, verdicts, at, store, read>>
  BY DEF Mark, Loaded, Shape, Listing, operator, files, InHand
<1>2. /\ InHand \in Keys /\ Active(store[InHand], at) /\ asked[InHand] = 0
  BY <1>1, KeyType DEF InHand, AskedOnce
<1>3. ASSUME NEW k \in Keys
      PROVE  /\ asked[k] # 0 => k \notin asks'
             /\ Asking(k)' => Active(store[k], at)
  BY <1>1, <1>2, <1>3 DEF AskedOnce, Asking
<1>4. CASE store[InHand].asked
  <2>1. Settled(store[InHand])
    BY <1>2, <1>4 DEF Settled, Active
  <2>2. pc' = "note"
    BY <1>4 DEF Mark, InHand
  <2> QED
    BY <1>1, <1>3, <2>1, <2>2 DEF AskedOnce, Loaded
<1>5. CASE ~store[InHand].asked
  <2>1. pc' = "stamp" /\ existing' = store[InHand] /\ trip' = trip
    BY <1>5 DEF Mark, InHand
  <2>2. InHand' = InHand
    BY <1>1, <2>1 DEF InHand, Key
  <2> QED
    BY <1>1, <1>2, <1>3, <2>1, <2>2 DEF AskedOnce, Loaded
<1> QED
  BY <1>4, <1>5

LEMMA StampAsks ==
  ASSUME Shape, AskedOnce, Stamp PROVE AskedOnce'
<1>1. /\ pc = "stamp" /\ pc' = "note" /\ trip \in Trips /\ read[trip] \in Booked
      /\ existing \in Word
      /\ UNCHANGED <<asks, asked, verdicts, at, read>>
  BY DEF Stamp, Shape, Listing, operator
<1>2. InHand \in Keys
  BY <1>1, KeyType DEF InHand
<1> DEFINE v == [existing EXCEPT !.asked = TRUE]
<1>3. store' = [store EXCEPT ![InHand] = v] /\ v \in Word
  BY <1>1, StampType DEF Stamp, InHand
<1>4. Active(v, at) /\ Settled(v)
  <2>1. v # None
    BY <1>3, FlightlessAssumption DEF Word, Bands
  <2>2. v.expires = existing.expires /\ v.asked
    BY <1>1 DEF Word
  <2> QED
    BY <1>1, <2>1, <2>2 DEF AskedOnce, Active, Settled
<1>5. ASSUME NEW k \in Keys, Asking(k) PROVE Active(store'[k], at) /\ Settled(store'[k])
  <2>1. CASE k = InHand
    BY <1>2, <1>3, <1>4, <2>1 DEF Shape
  <2>2. CASE k # InHand
    BY <1>1, <1>3, <1>5, <2>2 DEF AskedOnce, Loaded, Asking, Shape
  <2> QED
    BY <2>1, <2>2
<1> QED
  BY <1>1, <1>5 DEF AskedOnce, Loaded, Asking, Shape

LEMMA SayAsks ==
  ASSUME Shape, AskedOnce, Say PROVE AskedOnce'
<1>1. pc = "say" /\ pc' = "idle" /\ asks' = {} /\ UNCHANGED store
  BY DEF Say, SweepOver, files
<1>2. ASSUME NEW k \in Keys, asked'[k] # 0 PROVE asked'[k] = 1 /\ Settled(store[k])
  <2>1. asked'[k] = IF k \in asks THEN asked[k] + 1 ELSE asked[k]
    BY DEF Say
  <2> QED
    BY <1>1, <1>2, <2>1 DEF AskedOnce, Shape
<1> QED
  BY <1>1, <1>2 DEF AskedOnce, Loaded

LEMMA AnswerAsks ==
  ASSUME Shape, Timed, AskedOnce, AnswerSave PROVE AskedOnce'
<1>1. /\ apc = "save" /\ reply.key \in Keys /\ reply.rec \in Word
      /\ store' = [store EXCEPT ![reply.key] = reply.rec]
      /\ UNCHANGED <<sweep, asked>>
  BY DEF AnswerSave, Shape
<1>2. reply.rec # None
  BY <1>1, FlightlessAssumption DEF Word, Bands
<1>3. Settled(reply.rec) /\ Active(reply.rec, at)
  BY <1>1, <1>2 DEF Settled, Active, Timed, Shape, Word
<1>4. ASSUME NEW k \in Keys
      PROVE  /\ Settled(store[k]) => Settled(store'[k])
             /\ Active(store[k], at) => Active(store'[k], at)
  <2>1. CASE k = reply.key
    BY <1>1, <1>3, <2>1 DEF Shape
  <2>2. CASE k # reply.key
    BY <1>1, <2>2 DEF Shape
  <2> QED
    BY <2>1, <2>2
<1>5. pc = "mark" => InHand \in Keys
  BY KeyType DEF InHand, Shape, Listing
<1>6. InHand' = InHand
  BY <1>1 DEF InHand, Key, sweep
<1> QED
  BY <1>1, <1>4, <1>5, <1>6 DEF AskedOnce, Loaded, Asking, Shape, sweep

LEMMA AskedNext == Shape /\ Timed /\ AskedOnce /\ [Next]_vars => AskedOnce'
<1> SUFFICES ASSUME Shape, Timed, AskedOnce, [Next]_vars PROVE AskedOnce'
  OBVIOUS
<1>1. CASE Begin
  BY <1>1 DEF Begin, AskedOnce, Loaded, files, operator
<1>2. CASE Apply \/ Notice
  BY <1>2 DEF Apply, Notice, AskedOnce, Loaded, Asking, files, operator
<1>3. CASE SweepDies
  BY <1>3 DEF SweepDies, SweepOver, AskedOnce, Loaded, files, operator
<1>4. UNCHANGED <<sweep, store, asked>> => AskedOnce'
  BY DEF sweep, AskedOnce, Loaded, Asking, InHand, Key
<1>5. ASSUME NEW t, NEW word, AnswerRead(t, word) PROVE AskedOnce'
  BY <1>4, <1>5 DEF AnswerRead, files, operator
<1>6. CASE AnswerDies \/ NightStep \/ RefreshFails \/ NightDies \/ Tick \/ UNCHANGED vars
  BY <1>4, <1>6 DEF AnswerDies, NightStep, Refresh, Build, Check, RefreshFails, NightDies,
                    Tick, vars, files, operator
<1>7. ASSUME NEW t, NEW x, Change(t, x) \/ Reroute(t, x) \/ Snooze(t, x) PROVE AskedOnce'
  BY <1>4, <1>7 DEF Change, Reroute, Snooze, files, operator
<1> QED
  BY <1>1, <1>2, <1>3, <1>5, <1>6, <1>7, LoadAsks, PlanAsks, NoteAsks, SaveAsks, MarkAsks,
     StampAsks, SayAsks, AnswerAsks DEF Next, SweepStep

LEMMA ToldNext == Shape /\ ToldOnce /\ [Next]_vars => ToldOnce'
<1> SUFFICES ASSUME Shape, ToldOnce, [Next]_vars PROVE ToldOnce'
  OBVIOUS
<1>1. CASE Notice
  <2>1. ASSUME NEW l \in Current(blocks) PROVE l \in Legs /\ Spell(l) \in Spells
    BY <2>1, SpellType DEF Current, Missing, Shape
  <2>2. ASSUME NEW l \in Current(blocks)
        PROVE  noted'[l].told = (Spell(l).told \/ Ripe(l))
    <3>1. noted'[l] = [Spell(l) EXCEPT !.told = @ \/ Ripe(l)]
      BY <1>1, <2>1, <2>2 DEF Notice
    <3> QED
      BY <2>1, <2>2, <3>1 DEF Spells
  <2>3. ASSUME NEW l \in Legs, noticed'[l] # 0
        PROVE  noticed'[l] = 1 /\ noted'[l].told /\ l \notin lines'
    <3>1. l \in Current(blocks) /\ Spell(l) = noted[l] /\ noticed'[l] = noticed[l]
      BY <1>1, <2>3 DEF Notice
    <3>2. noticed[l] = 1 /\ Spell(l).told
      BY <2>3, <3>1 DEF ToldOnce
    <3> QED
      BY <1>1, <2>2, <3>1, <3>2 DEF Notice, Ripe
  <2>4. ASSUME NEW l \in lines' PROVE noted'[l].told
    BY <1>1, <2>2, <2>4 DEF Notice
  <2> QED
    BY <1>1, <2>3, <2>4 DEF Notice, ToldOnce
<1>2. CASE Say
  BY <1>2 DEF Say, SweepOver, ToldOnce, Shape, files
<1>3. CASE SweepDies
  BY <1>3 DEF SweepDies, SweepOver, ToldOnce, files, operator
<1>4. (pc = "say" => pc' = "say") /\ UNCHANGED <<lines, noticed, noted>> => ToldOnce'
  BY DEF ToldOnce
<1>5. CASE Begin \/ Load \/ Save \/ Mark \/ Stamp \/ Apply
  BY <1>4, <1>5 DEF Begin, Load, Save, AfterRecord, Mark, Stamp, Apply, files, operator
<1>6. ASSUME NEW lost, NEW lostBack, Plan(lost, lostBack) PROVE ToldOnce'
  BY <1>4, <1>6 DEF Plan, operator
<1>7. ASSUME NEW t, Note(t) PROVE ToldOnce'
  BY <1>4, <1>7 DEF Note, AfterRecord, files, operator
<1>8. ASSUME NEW t, NEW word, AnswerRead(t, word) PROVE ToldOnce'
  BY <1>4, <1>8 DEF AnswerRead, sweep, files, operator
<1>9. CASE AnswerSave \/ AnswerDies \/ NightStep \/ RefreshFails \/ NightDies \/ Tick
           \/ UNCHANGED vars
  BY <1>4, <1>9 DEF AnswerSave, AnswerDies, NightStep, Refresh, Build, Check, RefreshFails,
                    NightDies, Tick, vars, sweep, files, operator
<1>10. ASSUME NEW t, NEW x, Change(t, x) \/ Reroute(t, x) \/ Snooze(t, x) PROVE ToldOnce'
  BY <1>4, <1>10 DEF Change, Reroute, Snooze, sweep, files, operator
<1> QED
  BY <1>1, <1>2, <1>3, <1>5, <1>6, <1>7, <1>8, <1>9, <1>10 DEF Next, SweepStep

\* One question in the life of a record and one mention in a spell, whatever
\* dies, however the answer races the sweep, and whether or not trips share
\* their key (mark_asked, due_notices: recorded before it is said).
THEOREM OneQuestion == Spec => []SaidOnce
<1>1. Init => Once
  <2> SUFFICES ASSUME Init PROVE Once
    OBVIOUS
  <2>1. Shape
    BY ShapeInit
  <2> QED
    BY <2>1 DEF Init, Once, Timed, AskedOnce, ToldOnce, Loaded
<1>2. Once /\ [Next]_vars => Once'
  BY ShapeNext, TimedNext, AskedNext, ToldNext DEF Once
<1>3. Once => SaidOnce
  BY DEF Once, Shape, AskedOnce, ToldOnce, SaidOnce
<1> QED
  BY <1>1, <1>2, <1>3, PTL DEF Spec
=============================================================================
