------------------------------ MODULE TripSync ------------------------------
(***************************************************************************)
(* How flight-assist learns which flights to follow, and how it notices    *)
(* that it no longer does.                                                 *)
(*                                                                         *)
(*   gate    sync-tripit/precheck.py: every five minutes it decides        *)
(*           whether a sync is due, runs it as a child process and sends   *)
(*           what the child reports, each notice once                      *)
(*   sync    flight-assist/sync_tripit.py: asks byAir for the list, adds   *)
(*           and drops records, writes the index, counts failed passes in  *)
(*           sync-health.json and reports an outage once                   *)
(*                                                                         *)
(* A pass ends in one of three ways: byAir answered, byAir failed, or the  *)
(* pass itself did (a local fault).  The two failures are counted apart.   *)
(* The gate's budget kills a pass at any point; a pass is short against    *)
(* the five minutes, so of time only the age of the index, in fires, and   *)
(* the stage of each flight matter.                                        *)
(*                                                                         *)
(* Which records a dropped flight leaves behind, and what becomes of its   *)
(* calendar events, is FlightCalendar's subject.  The repair of a          *)
(* codeshare's display code in a kept record is left out.                  *)
(***************************************************************************)
EXTENDS Integers, FiniteSets

CONSTANTS
  Flights,
  Threshold,   \* _OUTAGE_ALERT_THRESHOLD
  Stale,       \* _STALE_STATE_THRESHOLD, in fires
  MaxCount,    \* model bound: where the counts of passes stop
  MaxChanges,  \* model bound: changes at byAir
  MaxFaults    \* model bound: kills and local faults

ASSUME SyncAssumption ==
  /\ Threshold \in Nat \ {0} /\ Stale \in Nat
  /\ {MaxCount, MaxChanges, MaxFaults} \subseteq Nat
  /\ Threshold <= MaxCount

VARIABLES
  upstream,  \* flights byAir lists
  down,      \* byAir does not answer, or not in the shape documented
  stage,     \* how far along each flight is
  index,     \* active-flights.json
  age,       \* fires since it was written; no file counts as old
  records,   \* flights with a flight-<id>.json
  health,    \* sync-health.json
  pc,        \* the step of the pass
  pass,      \* what it holds in memory
  fails, oks,  \* passes in a row that failed, or cleared, each source
  got,       \* outages the gate was last told of
  unkept,    \* those whose alert sync-health.json does not show
  unsaved,   \* sources whose recovery is not yet in sync-health.json
  unsaid,    \* flights dropped before they flew and not mentioned
  changes, faults, kills,
  missed     \* passes that were killed or could not keep their count

world == <<upstream, down, stage>>
files == <<index, age, records>>
ghosts == <<fails, oks, got, unkept, unsaved>>
counts == <<faults, kills, missed>>
vars == <<world, files, health, pc, pass, ghosts, unsaid, changes, counts>>

Sources == {"byair", "internal"}
Stages == {"far", "near", "aloft", "flown"}
Zero == [count |-> 0, alerted |-> FALSE]
Run == [count : 0..MaxCount, alerted : BOOLEAN]
Notices == ({"added", "removed"} \X Flights) \cup ({"alert", "recovered"} \X Sources)
Outcomes == {"ok", "byair", "internal"}
Steps == {"idle", "ask", "add", "drop", "index", "health", "emit", "commit", "tell"}
Pass == [listed : SUBSET Flights, todo : SUBSET Flights, outcome : Outcomes,
         events : SUBSET Notices, read : BOOLEAN, plan : [Sources -> Run]]
IdlePass == [listed |-> {}, todo |-> {}, outcome |-> "ok", events |-> {},
             read |-> TRUE, plan |-> [k \in Sources |-> Zero]]

-----------------------------------------------------------------------------
(* The health record. *)

Up(n) == IF n < MaxCount THEN n + 1 ELSE n

(* A local fault leaves byAir's run alone: byAir was not asked. *)
Failed(outcome, k) == outcome = k
Cleared(outcome, k) == outcome = "ok" \/ (outcome = "byair" /\ k = "internal")

(* Defect: a good pass takes one failure off the count. *)
AdvancedDecayed(h, outcome, k) ==
  IF Failed(outcome, k)
  THEN LET n == Up(h[k].count) IN [count |-> n, alerted |-> h[k].alerted \/ n >= Threshold]
  ELSE IF Cleared(outcome, k) THEN [count |-> h[k].count - 1, alerted |-> FALSE] ELSE h[k]

(* Defect: a local fault ends byAir's run. *)
AdvancedTogether(h, outcome, k) ==
  IF Failed(outcome, k)
  THEN LET n == Up(h[k].count) IN [count |-> n, alerted |-> h[k].alerted \/ n >= Threshold]
  ELSE Zero

(* Defect: a run that has not alerted yet is not reset. *)
AdvancedUnreset(h, outcome, k) ==
  IF Failed(outcome, k)
  THEN LET n == Up(h[k].count) IN [count |-> n, alerted |-> h[k].alerted \/ n >= Threshold]
  ELSE IF Cleared(outcome, k) /\ h[k].alerted THEN Zero ELSE h[k]

(* _advance: the new run of one source. *)
Advanced(h, outcome, k) ==
  IF Failed(outcome, k)
  THEN LET n == Up(h[k].count) IN [count |-> n, alerted |-> h[k].alerted \/ n >= Threshold]
  ELSE IF Cleared(outcome, k) THEN Zero ELSE h[k]

(* Defect: the run is reset before its alert is looked up. *)
HealthEventsAfterReset(h, outcome) ==
  {<<"alert", k>> : k \in {k \in Sources :
     ~h[k].alerted /\ Failed(outcome, k) /\ Advanced(h, outcome, k).alerted}}
  \cup {<<"recovered", k>> : k \in {k \in Sources :
     Advanced(h, outcome, k).alerted /\ Cleared(outcome, k)}}

(* Its events: one alert per run, and a recovery once an alert went out. *)
HealthEvents(h, outcome) ==
  {<<"alert", k>> : k \in {k \in Sources :
     ~h[k].alerted /\ Failed(outcome, k) /\ Advanced(h, outcome, k).alerted}}
  \cup {<<"recovered", k>> : k \in {k \in Sources : h[k].alerted /\ Cleared(outcome, k)}}

-----------------------------------------------------------------------------
(* Defect: only an imminent flight or a missing file opens the gate. *)
GateOnlyImminent ==
  age > Stale + 1 \/ \E f \in index \cap records : stage[f] = "near"

(* _should_sync_now: a flight departs within the day, or the index is old. *)
GateOpen ==
  age > Stale \/ \E f \in index \cap records : stage[f] = "near"

Init ==
  /\ upstream \in SUBSET Flights
  /\ down = FALSE
  /\ stage = [f \in Flights |-> "far"]
  /\ index = {} /\ age = Stale + 1 /\ records = {}
  /\ health = [k \in Sources |-> Zero]
  /\ pc = "idle" /\ pass = IdlePass
  /\ fails = [k \in Sources |-> 0] /\ oks = [k \in Sources |-> 0]
  /\ got = {} /\ unkept = {} /\ unsaved = {} /\ unsaid = {}
  /\ changes = 0 /\ faults = 0 /\ kills = 0 /\ missed = 0

Older == IF age > Stale THEN age ELSE age + 1

FireQuiet ==
  /\ pc = "idle" /\ ~GateOpen
  /\ age' = Older
  /\ UNCHANGED <<world, index, records, health, pc, pass, ghosts, unsaid, changes, counts>>

FireSync ==
  /\ pc = "idle" /\ GateOpen
  /\ age' = Older
  /\ pc' = "ask"
  /\ UNCHANGED <<world, index, records, health, pass, ghosts, unsaid, changes, counts>>

Fault == faults < MaxFaults /\ faults' = faults + 1

(* A file does not read, or the other skill is not mounted. *)
FireFails ==
  /\ pc = "idle" /\ Fault
  /\ age' = Older
  /\ UNCHANGED <<world, index, records, health, pc, pass, ghosts, unsaid, changes, kills, missed>>

-----------------------------------------------------------------------------
(* The pass *)

(* How the pass ends decides what its counts should become. *)
Ends(outcome) ==
  /\ fails' = [k \in Sources |-> IF Failed(outcome, k) THEN Up(fails[k])
                                 ELSE IF Cleared(outcome, k) THEN 0 ELSE fails[k]]
  /\ oks' = [k \in Sources |-> IF Cleared(outcome, k) THEN Up(oks[k])
                               ELSE IF Failed(outcome, k) THEN 0 ELSE oks[k]]
  /\ unsaved' = unsaved \cup {k \in Sources : Cleared(outcome, k) /\ health[k] # Zero}
  /\ UNCHANGED <<got, unkept>>

(* Transport error, byAir error, or a reply in the wrong shape. *)
AskFails ==
  /\ pc = "ask" /\ down
  /\ pc' = "health" /\ pass' = [IdlePass EXCEPT !.outcome = "byair"]
  /\ Ends("byair")
  /\ UNCHANGED <<world, files, health, unsaid, changes, counts>>

Listed ==
  /\ pc = "ask" /\ ~down
  /\ pc' = "add"
  /\ pass' = [IdlePass EXCEPT !.listed = upstream,
                              !.todo = (upstream \ index) \cup (index \ upstream)]
  /\ UNCHANGED <<world, files, health, ghosts, unsaid, changes, counts>>

Add(f) ==
  /\ pc = "add" /\ f \in pass.todo \cap pass.listed
  /\ records' = records \cup {f}
  /\ pass' = [pass EXCEPT !.todo = @ \ {f}, !.events = @ \cup {<<"added", f>>}]
  /\ UNCHANGED <<world, index, age, health, pc, ghosts, unsaid, changes, counts>>

AddsDone ==
  /\ pc = "add" /\ pass.todo \cap pass.listed = {}
  /\ pc' = "drop"
  /\ UNCHANGED <<world, files, health, pass, ghosts, unsaid, changes, counts>>

(* A flight whose record shows it has arrived goes without a word; a record
   with a calendar ledger stays as a tombstone. *)
Drop(f, keep) ==
  /\ pc = "drop" /\ f \in pass.todo
  /\ keep => f \in records
  /\ records' = IF keep THEN records ELSE records \ {f}
  /\ pass' = [pass EXCEPT !.todo = @ \ {f},
       !.events = IF f \in records /\ stage[f] = "flown" THEN @ ELSE @ \cup {<<"removed", f>>}]
  /\ UNCHANGED <<world, index, age, health, pc, ghosts, unsaid, changes, counts>>

DropsDone ==
  /\ pc = "drop" /\ pass.todo = {}
  /\ pc' = "index"
  /\ UNCHANGED <<world, files, health, pass, ghosts, unsaid, changes, counts>>

(* The index is written last, so a pass that dies before is done over. *)
WriteIndex ==
  /\ pc = "index"
  /\ index' = pass.listed /\ age' = 0
  /\ unsaid' = unsaid \cup {f \in index \ pass.listed : stage[f] # "flown"}
  /\ pc' = "health"
  /\ Ends("ok")
  /\ UNCHANGED <<world, records, health, pass, changes, counts>>

(* Any exception of the pass: its events are gone, the fault is counted. *)
Raises ==
  /\ pc \in {"ask", "add", "drop", "index"} /\ Fault
  /\ pc' = "health" /\ pass' = [IdlePass EXCEPT !.outcome = "internal"]
  /\ Ends("internal")
  /\ UNCHANGED <<world, files, health, unsaid, changes, kills, missed>>

(* _plan_sync_health *)
PlanHealth ==
  /\ pc = "health"
  /\ pc' = "emit"
  /\ pass' = [pass EXCEPT !.plan = [k \in Sources |-> Advanced(health, pass.outcome, k)],
                          !.events = @ \cup HealthEvents(health, pass.outcome)]
  /\ UNCHANGED <<world, files, health, ghosts, unsaid, changes, counts>>

(* Defect: a health record that does not read ends the pass like any fault. *)
EventsWithoutHealth(events) == {}

(* _attach_sync_health: the pass's own events are kept. *)
EventsKept(events) == events

(* The record does not read: no health event, nothing to write. *)
HealthUnread ==
  /\ pc = "health" /\ Fault /\ missed' = missed + 1
  /\ pc' = "emit"
  /\ pass' = [pass EXCEPT !.read = FALSE, !.plan = health, !.events = EventsKept(@)]
  /\ UNCHANGED <<world, files, health, ghosts, unsaid, changes, kills>>

(* The payload is on stdout, for a gate that lives to read it. *)
Emit ==
  /\ pc = "emit"
  /\ pc' = "commit"
  /\ UNCHANGED <<world, files, health, pass, ghosts, unsaid, changes, counts>>

(* The child is done and the gate reads what it said. *)
Reported ==
  /\ pc' = "tell"
  /\ got' = (got \cup {k \in Sources : <<"alert", k>> \in pass.events})
              \ {k \in Sources : <<"recovered", k>> \in pass.events}

(* _commit_sync_health: once the events are out, and not before. *)
Commit ==
  /\ pc = "commit"
  /\ Reported
  /\ health' = pass.plan
  /\ unkept' = {k \in unkept : ~pass.plan[k].alerted}
  /\ unsaved' = IF pass.read THEN {k \in unsaved : ~Cleared(pass.outcome, k)} ELSE unsaved
  /\ UNCHANGED <<world, files, pass, fails, oks, unsaid, changes, counts>>

CommitFails ==
  /\ pc = "commit" /\ Fault /\ missed' = missed + 1
  /\ Reported
  /\ unkept' = unkept \cup {k \in Sources : <<"alert", k>> \in pass.events}
  /\ UNCHANGED <<world, files, health, pass, fails, oks, unsaved, unsaid, changes, kills>>

(* _send_notices: each notice is tried once, confirmed or not. *)
Tell(e) ==
  /\ pc = "tell" /\ e \in pass.events
  /\ pass' = [pass EXCEPT !.events = @ \ {e}]
  /\ unsaid' = {f \in unsaid : e # <<"removed", f>>}
  /\ UNCHANGED <<world, files, health, pc, ghosts, changes, counts>>

Over ==
  /\ pc = "tell" /\ pass.events = {}
  /\ pc' = "idle" /\ pass' = IdlePass
  /\ UNCHANGED <<world, files, health, ghosts, unsaid, changes, counts>>

(* The child's budget is up, or the gate's; the rest of the pass is lost. *)
Killed ==
  /\ pc # "idle" /\ Fault /\ kills' = kills + 1 /\ missed' = missed + 1
  /\ pc' = "idle" /\ pass' = IdlePass
  /\ UNCHANGED <<world, files, health, ghosts, unsaid, changes>>

-----------------------------------------------------------------------------
(* byAir and time *)

Changed == changes < MaxChanges /\ changes' = changes + 1

Relist(f) ==
  /\ Changed
  /\ upstream' = IF f \in upstream THEN upstream \ {f} ELSE upstream \cup {f}
  /\ UNCHANGED <<down, stage, files, health, pc, pass, ghosts, unsaid, counts>>

Outage ==
  /\ Changed
  /\ down' = ~down
  /\ UNCHANGED <<upstream, stage, files, health, pc, pass, ghosts, unsaid, counts>>

Later(s) == CASE s = "far" -> "near" [] s = "near" -> "aloft" [] s = "aloft" -> "flown"
Advance(f) ==
  /\ pc = "idle" /\ stage[f] # "flown"
  /\ stage' = [stage EXCEPT ![f] = Later(@)]
  /\ UNCHANGED <<upstream, down, files, health, pc, pass, ghosts, unsaid, changes, counts>>

Fire == FireQuiet \/ FireSync
PassStep ==
  \/ AskFails \/ Listed
  \/ \E f \in Flights : Add(f) \/ \E keep \in BOOLEAN : Drop(f, keep)
  \/ AddsDone \/ DropsDone \/ WriteIndex \/ PlanHealth \/ Emit \/ Commit
  \/ \E e \in pass.events : Tell(e)
  \/ Over

Next ==
  \/ Fire \/ FireFails
  \/ PassStep \/ Raises \/ HealthUnread \/ CommitFails \/ Killed
  \/ \E f \in Flights : Relist(f) \/ Advance(f)
  \/ Outage

Spec == Init /\ [][Next]_vars
(* The scheduler fires again and again, and a pass that is not killed goes on. *)
FairSpec == Spec /\ WF_vars(Fire) /\ WF_vars(PassStep)

-----------------------------------------------------------------------------
TypeOK ==
  /\ upstream \subseteq Flights /\ index \subseteq Flights /\ records \subseteq Flights
  /\ down \in BOOLEAN /\ stage \in [Flights -> Stages]
  /\ age \in 0..(Stale + 1)
  /\ health \in [Sources -> Run]
  /\ pc \in Steps /\ pass \in Pass
  /\ fails \in [Sources -> 0..MaxCount] /\ oks \in [Sources -> 0..MaxCount]
  /\ got \subseteq Sources /\ unkept \subseteq Sources /\ unsaved \subseteq Sources
  /\ unsaid \subseteq Flights /\ changes \in 0..MaxChanges
  /\ faults \in 0..MaxFaults /\ missed \in 0..faults /\ kills \in 0..missed
  /\ pc = "idle" => pass = IdlePass

(* "one alert per failure run": no cry of wolf.  An alert is reported only after
   Threshold passes in a row failed, unless a recovery in between could not be
   written down. *)
AlertIsTrue ==
  pc = "emit" => \A k \in Sources :
    <<"alert", k>> \in pass.events => fails[k] >= Threshold \/ k \in unsaved

(* No silent outage (the 897 failed passes of #326): once a source has failed
   Threshold times in a row, and as often again as a pass was killed or could
   not count, the gate has the alert; a fault of the other kind in between
   resets nothing.  A recovery that could not be written down leaves the record
   alerted, and the outage after it is the one exception. *)
OutageSurfaces ==
  pc = "idle" => \A k \in Sources :
    fails[k] >= Threshold + missed => k \in got \cup unsaved

(* A reported outage is taken back by the first good pass that can report, if
   the record shows the alert: one that could not be written down is not. *)
RecoverySurfaces ==
  pc = "idle" => \A k \in Sources : oks[k] > missed => k \notin got \ unkept

(* A failed pass or a broken count costs no news of a flight that left the list
   before it flew; only a kill can. *)
RemovalsReported == pc = "idle" /\ kills = 0 => unsaid = {}

(* As long as byAir answers, the index comes to be byAir's list, whatever died
   on the way and however quiet the calendar of flights is. *)
IndexFollows == <>[]~down => <>[](index = upstream)
=============================================================================
