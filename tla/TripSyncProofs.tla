--------------------------- MODULE TripSyncProofs ---------------------------
(***************************************************************************)
(* The safety properties of TripSync for any flights, thresholds and       *)
(* bounds.  The inductive invariant compares, source by source, what       *)
(* sync-health.json shows with how the last passes really ended: they may  *)
(* differ by the passes that were killed or could not write, and by one    *)
(* while a pass has ended and its count is not written yet.                *)
(***************************************************************************)
EXTENDS TripSync, TLAPS

Health == {"health", "emit", "commit"}
Planned == {"emit", "commit"}
Ended(k) == pc \in Health /\ Failed(pass.outcome, k)
Good(k) == pc \in Health /\ Cleared(pass.outcome, k)
One(b) == IF b THEN 1 ELSE 0

(* What the record shows of one source, against how its passes ended. *)
Kept(k) ==
  /\ ~health[k].alerted => health[k].count < Threshold
  /\ ~health[k].alerted /\ k \notin unsaved =>
       fails[k] <= health[k].count + missed + One(Ended(k) /\ pass.read)
  /\ k \in unsaved \/ health[k].count <= fails[k]
  /\ Ended(k) => oks[k] = 0 /\ (k \in unsaved \/ Up(health[k].count) <= fails[k])
  /\ Good(k) => fails[k] = 0 /\ (health[k] = Zero \/ k \in unsaved)
  /\ health[k].alerted => oks[k] <= missed + One(Good(k) /\ pass.read)

(* What the gate knows of it. *)
Known(k) ==
  /\ health[k].alerted => k \in got \cup unsaved
  /\ k \in got \ unkept => health[k].alerted

(* What the pass says of it. *)
Says(k) ==
  /\ pc \in Planned /\ pass.read =>
       /\ pass.plan[k] = Advanced(health, pass.outcome, k)
       /\ <<"alert", k>> \in pass.events <=>
            ~health[k].alerted /\ Failed(pass.outcome, k) /\ pass.plan[k].alerted
       /\ <<"recovered", k>> \in pass.events <=>
            health[k].alerted /\ Cleared(pass.outcome, k)
  /\ pc \in Planned /\ ~pass.read => pass.plan[k] = health[k]
  /\ pc \in Planned => (~pass.read => <<"alert", k>> \notin pass.events /\ <<"recovered", k>> \notin pass.events)
  /\ pc \notin Planned \cup {"tell"} =>
       pass.read /\ <<"alert", k>> \notin pass.events /\ <<"recovered", k>> \notin pass.events

SourceInv == \A k \in Sources : Kept(k) /\ Known(k) /\ Says(k)

(* A flight leaving the list is still to be dropped, mentioned, or flown. *)
Leaving ==
  /\ pc \in {"add", "drop", "index"} => \A f \in index \ pass.listed :
       f \in pass.todo \/ stage[f] = "flown" \/ <<"removed", f>> \in pass.events
  /\ pc \in {"add", "drop", "index"} => pass.outcome = "ok"
  /\ pc = "drop" => pass.todo \cap pass.listed = {}
  /\ pc = "index" => pass.todo = {}
Mentioned ==
  kills = 0 => \A f \in unsaid : pc \in Health \cup {"tell"} /\ <<"removed", f>> \in pass.events

IInv == TypeOK /\ SourceInv /\ Leaving /\ Mentioned

-----------------------------------------------------------------------------
(* Counting up stops at the bound, and below the threshold it does not. *)
LEMMA UpFacts ==
  ASSUME NEW n \in 0..MaxCount
  PROVE  /\ Up(n) \in 0..MaxCount /\ n <= Up(n) /\ Up(n) <= n + 1
         /\ n < Threshold => Up(n) = n + 1
         /\ \A m \in 0..MaxCount : m <= n => Up(m) <= Up(n)
BY SyncAssumption DEF Up

LEMMA RunAlerted ==
  ASSUME NEW c, NEW b
  PROVE  [count |-> c, alerted |-> b].alerted = b
OBVIOUS

LEMMA HealthKinds ==
  /\ Zero \in Run /\ "byair" \in Sources /\ "internal" \in Sources
  /\ IdlePass \in Pass
  /\ \A k \in Sources : <<"alert", k>> \in Notices /\ <<"recovered", k>> \in Notices
  /\ \A f \in Flights : <<"added", f>> \in Notices /\ <<"removed", f>> \in Notices
<1>1. Zero \in Run /\ "byair" \in Sources /\ "internal" \in Sources
  BY SyncAssumption DEF Zero, Run, Sources
<1>2. IdlePass \in Pass
  BY <1>1 DEF IdlePass, Pass, Outcomes
<1> QED BY <1>1, <1>2 DEF Notices

LEMMA AdvancedType ==
  ASSUME NEW h \in [Sources -> Run], NEW outcome \in Outcomes, NEW k \in Sources
  PROVE  Advanced(h, outcome, k) \in Run
<1>1. h[k] \in Run /\ h[k].count \in 0..MaxCount /\ h[k].alerted \in BOOLEAN
  BY DEF Run
<1>2. Up(h[k].count) \in 0..MaxCount
  BY <1>1, UpFacts
<1>3. (h[k].alerted \/ Up(h[k].count) >= Threshold) \in BOOLEAN
  OBVIOUS
<1> QED BY <1>1, <1>2, <1>3, HealthKinds DEF Advanced, Run

LEMMA EventTypes ==
  ASSUME NEW h, NEW outcome
  PROVE  HealthEvents(h, outcome) \subseteq Notices
BY HealthKinds DEF HealthEvents

(* The types of a step that changes only the world, the files or the ghosts. *)
LEMMA TypeStep == TypeOK /\ [Next]_vars => TypeOK'
<1> SUFFICES ASSUME TypeOK, [Next]_vars PROVE TypeOK'
  OBVIOUS
<1> USE DEF TypeOK
<1>a. MaxCount \in Nat /\ MaxChanges \in Nat /\ MaxFaults \in Nat /\ Stale \in Nat
  BY SyncAssumption
<1>b. Older \in 0..(Stale + 1)
  BY <1>a DEF Older
<1>c. pass.listed \subseteq Flights /\ pass.todo \subseteq Flights /\ pass.events \subseteq Notices
      /\ pass.outcome \in Outcomes /\ pass.plan \in [Sources -> Run]
  BY DEF Pass
<1>e. ASSUME NEW outcome \in Outcomes, Ends(outcome)
      PROVE  /\ fails' \in [Sources -> 0..MaxCount] /\ oks' \in [Sources -> 0..MaxCount]
             /\ unsaved' \subseteq Sources /\ got' \subseteq Sources /\ unkept' \subseteq Sources
  <2>1. \A k \in Sources : Up(fails[k]) \in 0..MaxCount /\ Up(oks[k]) \in 0..MaxCount
    BY UpFacts
  <2> QED BY <1>e, <2>1, <1>a DEF Ends
<1>f. ASSUME Fault PROVE faults' \in 0..MaxFaults /\ faults' = faults + 1
  BY <1>f, <1>a DEF Fault
<1>g. ASSUME Changed PROVE changes' \in 0..MaxChanges
  BY <1>g, <1>a DEF Changed
<1>1. CASE FireQuiet
  BY <1>1, <1>b DEF FireQuiet, world, ghosts, counts
<1>2. CASE FireSync
  BY <1>2, <1>b DEF FireSync, world, ghosts, counts, Steps
<1>3. CASE FireFails
  BY <1>3, <1>b, <1>f DEF FireFails, world, ghosts
<1>4. CASE AskFails
  <2>1. pass' \in Pass /\ pc' \in Steps
    BY <1>4, HealthKinds DEF AskFails, Pass, IdlePass, Outcomes, Steps
  <2>2. "byair" \in Outcomes BY DEF Outcomes
  <2> QED BY <1>4, <2>1, <2>2, <1>e DEF AskFails, world, files, counts
<1>5. CASE Listed
  <2>1. pass' \in Pass /\ pc' \in Steps
    BY <1>5, HealthKinds DEF Listed, Pass, IdlePass, Steps
  <2> QED BY <1>5, <2>1 DEF Listed, world, files, ghosts, counts
<1>6. ASSUME NEW f \in Flights, Add(f) PROVE TypeOK'
  <2>1. pass' \in Pass
    BY <1>6, <1>c, HealthKinds DEF Add, Pass
  <2> QED BY <1>6, <2>1 DEF Add, world, ghosts, counts
<1>7. ASSUME NEW f \in Flights, NEW keep \in BOOLEAN, Drop(f, keep) PROVE TypeOK'
  <2>1. pass' \in Pass
    BY <1>7, <1>c, HealthKinds DEF Drop, Pass
  <2> QED BY <1>7, <2>1 DEF Drop, world, ghosts, counts
<1>8. CASE AddsDone
  BY <1>8 DEF AddsDone, world, files, ghosts, counts, Steps
<1>9. CASE DropsDone
  BY <1>9 DEF DropsDone, world, files, ghosts, counts, Steps
<1>10. CASE WriteIndex
  <2>1. "ok" \in Outcomes /\ pc' \in Steps /\ pc' # "idle"
    BY <1>10 DEF WriteIndex, Outcomes, Steps
  <2>2. index' \subseteq Flights /\ age' \in 0..(Stale + 1) /\ unsaid' \subseteq Flights
    BY <1>10, <1>a, <1>c DEF WriteIndex
  <2> QED BY <1>10, <2>1, <2>2, <1>e DEF WriteIndex, world, counts
<1>11. CASE Raises
  <2>1. pass' \in Pass /\ pc' \in Steps /\ pc' # "idle"
    BY <1>11, HealthKinds DEF Raises, Pass, IdlePass, Outcomes, Steps
  <2>2. "internal" \in Outcomes BY DEF Outcomes
  <2> QED BY <1>11, <2>1, <2>2, <1>e, <1>f, <1>a DEF Raises, world, files
<1>12. CASE PlanHealth
  <2>1. [k \in Sources |-> Advanced(health, pass.outcome, k)] \in [Sources -> Run]
    BY <1>c, AdvancedType
  <2>2. pass.events \cup HealthEvents(health, pass.outcome) \subseteq Notices
    BY <1>c, EventTypes
  <2>3. pass' \in Pass /\ pc' \in Steps /\ pc' # "idle"
    BY <1>12, <2>1, <2>2, <1>c DEF PlanHealth, Pass, Steps
  <2> QED BY <1>12, <2>3 DEF PlanHealth, world, files, ghosts, counts
<1>13. CASE HealthUnread
  <2>1. pass' \in Pass /\ pc' \in Steps /\ pc' # "idle"
    BY <1>13, <1>c DEF HealthUnread, Pass, Steps, EventsKept
  <2> QED BY <1>13, <2>1, <1>f, <1>a DEF HealthUnread, world, files, ghosts
<1>14. CASE Emit
  BY <1>14 DEF Emit, world, files, ghosts, counts, Steps
<1>15. CASE Commit
  <2>1. got' \subseteq Sources /\ unkept' \subseteq Sources /\ unsaved' \subseteq Sources
    BY <1>15 DEF Commit, Reported
  <2> QED BY <1>15, <2>1, <1>c DEF Commit, Reported, world, files, counts, Steps
<1>16. CASE CommitFails
  <2>1. got' \subseteq Sources /\ unkept' \subseteq Sources
    BY <1>16 DEF CommitFails, Reported
  <2> QED BY <1>16, <2>1, <1>f, <1>a DEF CommitFails, Reported, world, files, Steps
<1>17. ASSUME NEW e \in pass.events, Tell(e) PROVE TypeOK'
  <2>1. pass' \in Pass
    BY <1>17, <1>c DEF Tell, Pass
  <2> QED BY <1>17, <2>1 DEF Tell, world, files, ghosts, counts
<1>18. CASE Over
  BY <1>18, HealthKinds DEF Over, world, files, ghosts, counts, Steps
<1>19. CASE Killed
  BY <1>19, <1>f, <1>a, HealthKinds DEF Killed, world, files, ghosts, Steps
<1>20. ASSUME NEW f \in Flights, Relist(f) PROVE TypeOK'
  BY <1>20, <1>g DEF Relist, files, ghosts, counts
<1>21. CASE Outage
  BY <1>21, <1>g DEF Outage, files, ghosts, counts
<1>22. ASSUME NEW f \in Flights, Advance(f) PROVE TypeOK'
  <2>1. Later(stage[f]) \in Stages
    BY <1>22 DEF Advance, Later, Stages
  <2> QED BY <1>22, <2>1 DEF Advance, files, ghosts, counts
<1>23. CASE UNCHANGED vars
  BY <1>23 DEF vars, world, files, ghosts, counts
<1> QED
  BY <1>1, <1>2, <1>3, <1>4, <1>5, <1>6, <1>7, <1>8, <1>9, <1>10, <1>11, <1>12, <1>13, <1>14,
     <1>15, <1>16, <1>17, <1>18, <1>19, <1>20, <1>21, <1>22, <1>23 DEF Next, Fire, PassStep

-----------------------------------------------------------------------------
(* Facts about one source in a typed state. *)
LEMMA SourceTypes ==
  ASSUME TypeOK, NEW k \in Sources
  PROVE  /\ health[k] \in Run /\ health[k].count \in 0..MaxCount /\ health[k].alerted \in BOOLEAN
         /\ fails[k] \in 0..MaxCount /\ oks[k] \in 0..MaxCount /\ missed \in Nat
         /\ pass.outcome \in Outcomes /\ pass.read \in BOOLEAN
BY SyncAssumption DEF TypeOK, Run, Pass

LEMMA ZeroFacts == Zero.count = 0 /\ ~Zero.alerted /\ Threshold > 0
BY SyncAssumption DEF Zero

(* A pass fails a source, clears it, or leaves it alone. *)
LEMMA FailedOrCleared ==
  ASSUME NEW outcome, NEW k \in Sources
  PROVE  /\ ~(Failed(outcome, k) /\ Cleared(outcome, k))
         /\ ~Failed("ok", k) /\ Cleared("ok", k)
BY DEF Failed, Cleared, Sources

(* A step that touches neither the record, nor the ghosts, nor the pass's
   step within its part of the invariant. *)
LEMMA SameSource ==
  ASSUME NEW k \in Sources, Kept(k), Known(k), Says(k), TypeOK,
         UNCHANGED <<health, ghosts, missed>>,
         pass'.outcome = pass.outcome, pass'.read = pass.read, pass'.plan = pass.plan,
         pc = "tell" \/ (<<"alert", k>> \in pass'.events <=> <<"alert", k>> \in pass.events),
         pc = "tell" \/ (<<"recovered", k>> \in pass'.events <=> <<"recovered", k>> \in pass.events),
         pc' \in Health <=> pc \in Health,
         pc' \in Planned <=> pc \in Planned,
         pc' = "tell" <=> pc = "tell"
  PROVE  Kept(k)' /\ Known(k)' /\ Says(k)'
<1>1. Kept(k)'
  BY DEF Kept, Ended, Good, One, Up, Failed, Cleared, ghosts
<1>2. Known(k)'
  BY DEF Known, ghosts
<1>3. pc = "tell" => pc \notin Planned /\ pc' \notin Planned
  BY DEF Planned
<1>4. Says(k)'
  BY <1>3 DEF Says, Advanced, Up, Failed, Cleared
<1> QED BY <1>1, <1>2, <1>4

(* What the last passes look like when one has just ended. *)
LEMMA EndsStep ==
  ASSUME NEW k \in Sources, TypeOK, Kept(k), Known(k), Says(k),
         pc \notin Health, pc # "tell", NEW outcome \in Outcomes, Ends(outcome),
         UNCHANGED <<health, missed>>, pc' = "health",
         pass'.outcome = outcome, pass'.read,
         <<"alert", k>> \notin pass'.events, <<"recovered", k>> \notin pass'.events
  PROVE  Kept(k)' /\ Known(k)' /\ Says(k)'
<1>1. /\ fails'[k] = IF Failed(outcome, k) THEN Up(fails[k])
                     ELSE IF Cleared(outcome, k) THEN 0 ELSE fails[k]
      /\ oks'[k] = IF Cleared(outcome, k) THEN Up(oks[k])
                   ELSE IF Failed(outcome, k) THEN 0 ELSE oks[k]
      /\ unsaved' = unsaved \cup {j \in Sources : Cleared(outcome, j) /\ health[j] # Zero}
      /\ got' = got /\ unkept' = unkept
  BY DEF Ends, TypeOK
<1>2. /\ health[k].count \in 0..MaxCount /\ fails[k] \in 0..MaxCount /\ oks[k] \in 0..MaxCount
      /\ missed \in Nat /\ health[k].alerted \in BOOLEAN /\ MaxCount \in Nat
  BY SourceTypes, SyncAssumption
<1>3. ~Ended(k) /\ ~Good(k) /\ pass.read
  BY DEF Ended, Good, Says, Planned, Health
<1>4. Ended(k)' <=> Failed(outcome, k)
  BY DEF Ended, Health, Failed
<1>5. Good(k)' <=> Cleared(outcome, k)
  BY DEF Good, Health, Cleared
<1>6. ~(Failed(outcome, k) /\ Cleared(outcome, k))
  BY FailedOrCleared
<1>7. /\ Up(fails[k]) \in 0..MaxCount /\ fails[k] <= Up(fails[k]) /\ Up(fails[k]) <= fails[k] + 1
      /\ Up(oks[k]) \in 0..MaxCount /\ Up(oks[k]) <= oks[k] + 1
      /\ health[k].count <= fails[k] => Up(health[k].count) <= Up(fails[k])
  BY <1>2, UpFacts
<1>8. (Up(health[k].count))' = Up(health[k].count)
  BY DEF Up
<1>9. One(TRUE) = 1 /\ One(FALSE) = 0
  BY DEF One
<1>10. k \in unsaved => k \in unsaved'
  BY <1>1
<1>11. Kept(k)'
  <2>1. ~health'[k].alerted => health'[k].count < Threshold
    BY DEF Kept
  <2>2. ~health'[k].alerted /\ k \notin unsaved' =>
          fails'[k] <= health'[k].count + missed' + One(Ended(k)' /\ pass'.read)
    <3>1. CASE Failed(outcome, k)
      BY <3>1, <1>1, <1>2, <1>3, <1>4, <1>7, <1>10 DEF Kept, One
    <3>2. CASE ~Failed(outcome, k)
      BY <3>2, <1>1, <1>2, <1>3, <1>4, <1>10 DEF Kept, One
    <3> QED BY <3>1, <3>2
  <2>3. k \in unsaved' \/ health'[k].count <= fails'[k]
    <3>1. CASE Cleared(outcome, k)
      BY <3>1, <1>1, <1>6, <1>2, ZeroFacts
    <3>2. CASE ~Cleared(outcome, k)
      BY <3>2, <1>1, <1>2, <1>7, <1>10 DEF Kept
    <3> QED BY <3>1, <3>2
  <2>4. Ended(k)' => oks'[k] = 0 /\ (k \in unsaved' \/ (Up(health[k].count))' <= fails'[k])
    BY <1>1, <1>4, <1>6, <1>7, <1>8, <1>10 DEF Kept
  <2>5. Good(k)' => fails'[k] = 0 /\ (health'[k] = Zero \/ k \in unsaved')
    BY <1>1, <1>5, <1>6
  <2>6. health'[k].alerted => oks'[k] <= missed' + One(Good(k)' /\ pass'.read)
    <3>1. CASE Cleared(outcome, k)
      BY <3>1, <1>1, <1>2, <1>3, <1>5, <1>7 DEF Kept, One
    <3>2. CASE ~Cleared(outcome, k)
      BY <3>2, <1>1, <1>2, <1>3, <1>5 DEF Kept, One
    <3> QED BY <3>1, <3>2
  <2> QED BY <2>1, <2>2, <2>3, <2>4, <2>5, <2>6 DEF Kept, One
<1>12. Known(k)'
  BY <1>1, <1>10 DEF Known
<1>13. Says(k)'
  BY DEF Says, Planned
<1> QED BY <1>11, <1>12, <1>13

(* What the pass says of a source, once its count is planned. *)
LEMMA PlanStep ==
  ASSUME NEW k \in Sources, TypeOK, Kept(k), Known(k), Says(k), PlanHealth
  PROVE  Kept(k)' /\ Known(k)' /\ Says(k)'
<1>1. /\ pc = "health" /\ pc' = "emit" /\ UNCHANGED <<health, ghosts, missed>>
      /\ pass'.outcome = pass.outcome /\ pass'.read = pass.read
      /\ pass'.plan = [j \in Sources |-> Advanced(health, pass.outcome, j)]
      /\ pass'.events = pass.events \cup HealthEvents(health, pass.outcome)
  BY DEF PlanHealth, TypeOK, Pass, counts
<1>2. Kept(k)'
  BY <1>1 DEF Kept, Ended, Good, One, Up, Failed, Cleared, Health, ghosts
<1>3. Known(k)'
  BY <1>1 DEF Known, ghosts
<1>4. pass.read /\ <<"alert", k>> \notin pass.events /\ <<"recovered", k>> \notin pass.events
  BY <1>1 DEF Says, Planned
<1>5. <<"alert", k>> \in HealthEvents(health, pass.outcome) <=>
        ~health[k].alerted /\ Failed(pass.outcome, k) /\ Advanced(health, pass.outcome, k).alerted
  BY DEF HealthEvents
<1>6. <<"recovered", k>> \in HealthEvents(health, pass.outcome) <=>
        health[k].alerted /\ Cleared(pass.outcome, k)
  BY DEF HealthEvents
<1>7. pass'.plan[k] = Advanced(health, pass.outcome, k)
  BY <1>1
<1>8. Advanced(health, pass.outcome, k)' = Advanced(health', pass'.outcome, k)
  BY DEF Advanced, Up, Failed, Cleared
<1>9. Says(k)'
  BY <1>1, <1>4, <1>5, <1>6, <1>7 DEF Says, Planned, Advanced, Up, Failed, Cleared
<1> QED BY <1>2, <1>3, <1>9

(* The record is written, and the gate has read what the pass said. *)
LEMMA CommitStep ==
  ASSUME NEW k \in Sources, TypeOK, Kept(k), Known(k), Says(k), Commit
  PROVE  Kept(k)' /\ Known(k)' /\ Says(k)'
<1>1. /\ pc = "commit" /\ pc' = "tell" /\ pass' = pass /\ health' = pass.plan
      /\ fails' = fails /\ oks' = oks /\ missed' = missed
      /\ k \in got' <=> (k \in got \/ <<"alert", k>> \in pass.events) /\ <<"recovered", k>> \notin pass.events
      /\ k \in unkept' <=> k \in unkept /\ ~pass.plan[k].alerted
      /\ k \in unsaved' <=> k \in unsaved /\ (pass.read => ~Cleared(pass.outcome, k))
  BY DEF Commit, Reported, counts
<1>2. /\ health[k].count \in 0..MaxCount /\ fails[k] \in 0..MaxCount /\ oks[k] \in 0..MaxCount
      /\ missed \in Nat /\ health[k].alerted \in BOOLEAN /\ MaxCount \in Nat /\ Threshold \in Nat
  BY SourceTypes, SyncAssumption
<1>3. ~Ended(k)' /\ ~Good(k)' /\ Says(k)'
  BY <1>1 DEF Ended, Good, Health, Says, Planned
<1>4. CASE ~pass.read
  <2>1. health'[k] = health[k] /\ <<"alert", k>> \notin pass.events /\ <<"recovered", k>> \notin pass.events
    BY <1>1, <1>4 DEF Says, Planned
  <2>2. Kept(k)'
    BY <1>1, <1>2, <1>3, <1>4, <2>1 DEF Kept, One
  <2>3. Known(k)'
    BY <1>1, <1>4, <2>1 DEF Known
  <2> QED BY <2>2, <2>3, <1>3
<1>5. CASE pass.read /\ Failed(pass.outcome, k)
  <2>1. /\ health'[k].count = Up(health[k].count)
        /\ health'[k].alerted <=> health[k].alerted \/ Up(health[k].count) >= Threshold
        /\ <<"alert", k>> \in pass.events <=> ~health[k].alerted /\ health'[k].alerted
        /\ <<"recovered", k>> \notin pass.events
    <3>1. pass.plan[k] = Advanced(health, pass.outcome, k)
      BY <1>1, <1>5 DEF Says, Planned
    <3>2. health'[k] = [count |-> Up(health[k].count),
                        alerted |-> health[k].alerted \/ Up(health[k].count) >= Threshold]
      BY <1>1, <1>5, <3>1 DEF Advanced
    <3>3. /\ <<"alert", k>> \in pass.events <=> ~health[k].alerted /\ pass.plan[k].alerted
          /\ <<"recovered", k>> \notin pass.events
      BY <1>1, <1>5, FailedOrCleared DEF Says, Planned
    <3>4. health'[k].count = Up(health[k].count)
      BY <3>2
    <3>5. health'[k].alerted <=> health[k].alerted \/ Up(health[k].count) >= Threshold
      BY <3>2, RunAlerted, Zenon
    <3>6. pass.plan[k] = health'[k]
      BY <1>1
    <3>7. <<"alert", k>> \in pass.events <=> ~health[k].alerted /\ health'[k].alerted
      BY <3>3, <3>6, Zenon
    <3> QED BY <3>3, <3>4, <3>5, <3>7, Zenon
  <2>2. Ended(k) /\ ~Good(k) /\ ~Cleared(pass.outcome, k)
    BY <1>1, <1>5, FailedOrCleared DEF Ended, Good, Health
  <2>3. /\ Up(health[k].count) \in 0..MaxCount
        /\ health[k].count < Threshold => Up(health[k].count) = health[k].count + 1
    BY <1>2, UpFacts
  <2>4. Kept(k)'
    <3>1. ~health'[k].alerted => health'[k].count < Threshold
      BY <2>1, <2>3, <1>2
    <3>2. ~health'[k].alerted /\ k \notin unsaved' => fails'[k] <= health'[k].count + missed'
      BY <1>1, <1>2, <1>5, <2>1, <2>2, <2>3 DEF Kept, One
    <3>3. k \in unsaved' \/ health'[k].count <= fails'[k]
      BY <1>1, <2>1, <2>2 DEF Kept
    <3>4. health'[k].alerted => oks'[k] <= missed'
      BY <1>1, <1>2, <2>2 DEF Kept, One
    <3> QED BY <3>1, <3>2, <3>3, <3>4, <2>1, <2>3, <1>1, <1>2, <1>3 DEF Kept, One
  <2>5. Known(k)'
    BY <1>1, <2>1, <2>2 DEF Known
  <2> QED BY <2>4, <2>5, <1>3
<1>6. CASE pass.read /\ Cleared(pass.outcome, k)
  <2>1. health'[k] = Zero /\ ~Failed(pass.outcome, k)
    BY <1>1, <1>6, FailedOrCleared DEF Says, Planned, Advanced
  <2>2. <<"alert", k>> \notin pass.events /\ (<<"recovered", k>> \in pass.events <=> health[k].alerted)
    BY <1>1, <1>6, <2>1 DEF Says, Planned
  <2>3. Good(k) /\ fails[k] = 0
    BY <1>1, <1>6 DEF Good, Health, Kept
  <2>4. Kept(k)'
    BY <1>1, <1>2, <1>3, <2>1, <2>3, ZeroFacts DEF Kept, One
  <2>5. Known(k)'
    BY <1>1, <1>6, <2>1, <2>2, ZeroFacts DEF Known
  <2> QED BY <2>4, <2>5, <1>3
<1>7. CASE pass.read /\ ~Failed(pass.outcome, k) /\ ~Cleared(pass.outcome, k)
  <2>1. health'[k] = health[k] /\ <<"alert", k>> \notin pass.events /\ <<"recovered", k>> \notin pass.events
    <3>1. pass.plan[k] = Advanced(health, pass.outcome, k)
      BY <1>1, <1>7 DEF Says, Planned
    <3>2. pass.plan[k] = health[k]
      BY <1>7, <3>1, Zenon DEF Advanced
    <3> QED BY <1>1, <1>7, <3>2 DEF Says, Planned
  <2>2. ~Ended(k) /\ ~Good(k)
    BY <1>7 DEF Ended, Good
  <2>3. Kept(k)'
    BY <1>1, <1>2, <1>3, <1>7, <2>1, <2>2 DEF Kept, One
  <2>4. Known(k)'
    BY <1>1, <1>7, <2>1 DEF Known
  <2> QED BY <2>3, <2>4, <1>3
<1> QED BY <1>4, <1>5, <1>6, <1>7

(* The record could not be written: the gate was told all the same. *)
LEMMA CommitFailsStep ==
  ASSUME NEW k \in Sources, TypeOK, Kept(k), Known(k), Says(k), CommitFails
  PROVE  Kept(k)' /\ Known(k)' /\ Says(k)'
<1>1. /\ pc = "commit" /\ pc' = "tell" /\ pass' = pass /\ health' = health
      /\ fails' = fails /\ oks' = oks /\ missed' = missed + 1 /\ unsaved' = unsaved
      /\ k \in got' <=> (k \in got \/ <<"alert", k>> \in pass.events) /\ <<"recovered", k>> \notin pass.events
      /\ k \in unkept' <=> k \in unkept \/ <<"alert", k>> \in pass.events
  BY DEF CommitFails, Reported
<1>2. /\ health[k].count \in 0..MaxCount /\ fails[k] \in 0..MaxCount /\ oks[k] \in 0..MaxCount
      /\ missed \in Nat
  BY SourceTypes
<1>3. ~Ended(k)' /\ ~Good(k)' /\ Says(k)'
  BY <1>1 DEF Ended, Good, Health, Says, Planned
<1>4. <<"recovered", k>> \in pass.events => Good(k) /\ health[k].alerted
  BY <1>1 DEF Says, Planned, Good, Health
<1>5. <<"recovered", k>> \in pass.events => k \in unsaved
  BY <1>4, ZeroFacts DEF Kept
<1>6. Kept(k)'
  BY <1>1, <1>2, <1>3 DEF Kept, One
<1>7. Known(k)'
  BY <1>1, <1>5 DEF Known
<1> QED BY <1>3, <1>6, <1>7

(* The record could not be read: nothing will be written. *)
LEMMA UnreadStep ==
  ASSUME NEW k \in Sources, TypeOK, Kept(k), Known(k), Says(k), HealthUnread
  PROVE  Kept(k)' /\ Known(k)' /\ Says(k)'
<1>1. /\ pc = "health" /\ pc' = "emit" /\ UNCHANGED <<health, ghosts>> /\ missed' = missed + 1
      /\ pass'.outcome = pass.outcome /\ ~pass'.read /\ pass'.plan = health
      /\ pass'.events = pass.events
  BY DEF HealthUnread, EventsKept, TypeOK, Pass
<1>2. /\ health[k].count \in 0..MaxCount /\ fails[k] \in 0..MaxCount /\ oks[k] \in 0..MaxCount
      /\ missed \in Nat
  BY SourceTypes
<1>3. pass.read /\ <<"alert", k>> \notin pass.events /\ <<"recovered", k>> \notin pass.events
  BY <1>1 DEF Says, Planned
<1>4. (Ended(k)' <=> Ended(k)) /\ (Good(k)' <=> Good(k))
  BY <1>1 DEF Ended, Good, Health, Failed, Cleared
<1>5. (Up(health[k].count))' = Up(health[k].count)
  BY <1>1 DEF Up
<1>6. Kept(k)'
  BY <1>1, <1>2, <1>3, <1>4, <1>5 DEF Kept, One, ghosts
<1>7. Known(k)'
  BY <1>1 DEF Known, ghosts
<1>8. Says(k)'
  BY <1>1, <1>3 DEF Says, Planned
<1> QED BY <1>6, <1>7, <1>8

(* A pass is killed: whatever it had counted is one more the record misses. *)
LEMMA KilledStep ==
  ASSUME NEW k \in Sources, TypeOK, Kept(k), Known(k), Says(k), Killed
  PROVE  Kept(k)' /\ Known(k)' /\ Says(k)'
<1>1. pc' = "idle" /\ pass' = IdlePass /\ UNCHANGED <<health, ghosts>> /\ missed' = missed + 1
  BY DEF Killed
<1>2. /\ health[k].count \in 0..MaxCount /\ fails[k] \in 0..MaxCount /\ oks[k] \in 0..MaxCount
      /\ missed \in Nat
  BY SourceTypes
<1>3. ~Ended(k)' /\ ~Good(k)' /\ Says(k)'
  BY <1>1 DEF Ended, Good, Health, Says, Planned, IdlePass
<1>4. Kept(k)'
  BY <1>1, <1>2, <1>3 DEF Kept, One, ghosts
<1>5. Known(k)'
  BY <1>1 DEF Known, ghosts
<1> QED BY <1>3, <1>4, <1>5

LEMMA SourceStep ==
  ASSUME NEW k \in Sources, TypeOK, Kept(k), Known(k), Says(k), Leaving, [Next]_vars
  PROVE  Kept(k)' /\ Known(k)' /\ Says(k)'
<1> USE DEF Health, Planned
<1>c. pass \in Pass
  BY DEF TypeOK
<1>q. pc \notin Planned \cup {"tell"} => <<"alert", k>> \notin pass.events /\ <<"recovered", k>> \notin pass.events
  BY DEF Says
<1>i. IdlePass.read /\ IdlePass.events = {} /\ IdlePass.outcome = "ok"
  BY DEF IdlePass
<1>1. CASE FireQuiet
  BY <1>1, SameSource DEF FireQuiet, counts
<1>2. CASE FireSync
  BY <1>2, SameSource DEF FireSync, counts
<1>3. CASE FireFails
  BY <1>3, SameSource DEF FireFails
<1>4. CASE AskFails
  <2>1. pass'.outcome = "byair" /\ pass'.read /\ pass'.events = {} /\ "byair" \in Outcomes
    BY <1>4 DEF AskFails, IdlePass, Outcomes
  <2>2. pc = "ask" /\ pc' = "health" /\ Ends("byair") /\ UNCHANGED <<health, missed>>
    BY <1>4 DEF AskFails, counts
  <2> QED BY <2>1, <2>2, EndsStep
<1>5. CASE Listed
  <2>1. pass'.read /\ pass'.events = {} /\ pc = "ask" /\ pc' = "add" /\ UNCHANGED <<health, ghosts, missed>>
    BY <1>5 DEF Listed, IdlePass, counts
  <2>2. Says(k)' BY <2>1 DEF Says
  <2>3. Known(k)' BY <2>1 DEF Known, ghosts
  <2>4. pass.read BY <2>1 DEF Says
  <2>5. Kept(k)'
    BY <2>1, <2>4 DEF Kept, Ended, Good, One, ghosts
  <2> QED BY <2>2, <2>3, <2>5
<1>6. ASSUME NEW f \in Flights, Add(f) PROVE Kept(k)' /\ Known(k)' /\ Says(k)'
  <2>1. /\ pass'.outcome = pass.outcome /\ pass'.read = pass.read /\ pass'.plan = pass.plan
        /\ pass'.events = pass.events \cup {<<"added", f>>}
        /\ pc = "add" /\ pc' = pc /\ UNCHANGED <<health, ghosts, missed>>
    BY <1>6, <1>c DEF Add, Pass, counts
  <2> QED BY <2>1, SameSource
<1>7. ASSUME NEW f \in Flights, NEW keep \in BOOLEAN, Drop(f, keep) PROVE Kept(k)' /\ Known(k)' /\ Says(k)'
  <2>1. /\ pass'.outcome = pass.outcome /\ pass'.read = pass.read /\ pass'.plan = pass.plan
        /\ pass'.events = pass.events \/ pass'.events = pass.events \cup {<<"removed", f>>}
        /\ pc = "drop" /\ pc' = pc /\ UNCHANGED <<health, ghosts, missed>>
    BY <1>7, <1>c DEF Drop, Pass, counts
  <2> QED BY <2>1, SameSource
<1>8. CASE AddsDone
  BY <1>8, SameSource DEF AddsDone, counts
<1>9. CASE DropsDone
  BY <1>9, SameSource DEF DropsDone, counts
<1>10. CASE WriteIndex
  <2>1. "ok" \in Outcomes BY DEF Outcomes
  <2>2. pc = "index" /\ pc' = "health" /\ Ends("ok") /\ UNCHANGED <<health, missed, pass>>
    BY <1>10 DEF WriteIndex, counts
  <2>3. pass.outcome = "ok"
    BY <2>2 DEF Leaving
  <2> QED BY <2>1, <2>2, <2>3, <1>q, EndsStep DEF Says
<1>11. CASE Raises
  <2>1. pass'.outcome = "internal" /\ pass'.read /\ pass'.events = {} /\ "internal" \in Outcomes
    BY <1>11 DEF Raises, IdlePass, Outcomes
  <2>2. pc \in {"ask", "add", "drop", "index"} /\ pc' = "health" /\ Ends("internal") /\ UNCHANGED <<health, missed>>
    BY <1>11 DEF Raises
  <2> QED BY <2>1, <2>2, EndsStep
<1>12. CASE PlanHealth
  BY <1>12, PlanStep
<1>13. CASE HealthUnread
  BY <1>13, UnreadStep
<1>14. CASE Emit
  BY <1>14, SameSource DEF Emit, counts
<1>15. CASE Commit
  BY <1>15, CommitStep
<1>16. CASE CommitFails
  BY <1>16, CommitFailsStep
<1>17. ASSUME NEW e \in pass.events, Tell(e) PROVE Kept(k)' /\ Known(k)' /\ Says(k)'
  <2>1. /\ pass'.outcome = pass.outcome /\ pass'.read = pass.read /\ pass'.plan = pass.plan
        /\ pc = "tell" /\ pc' = pc /\ UNCHANGED <<health, ghosts, missed>>
    BY <1>17, <1>c DEF Tell, Pass, counts
  <2> QED BY <2>1, SameSource
<1>18. CASE Over
  <2>1. pc = "tell" /\ pc' = "idle" /\ pass' = IdlePass /\ UNCHANGED <<health, ghosts, missed>>
    BY <1>18 DEF Over, counts
  <2>2. Says(k)' BY <2>1, <1>i DEF Says
  <2>3. Known(k)' BY <2>1 DEF Known, ghosts
  <2>4. Kept(k)'
    BY <2>1 DEF Kept, Ended, Good, One, ghosts
  <2> QED BY <2>2, <2>3, <2>4
<1>19. CASE Killed
  BY <1>19, KilledStep
<1>20. ASSUME NEW f \in Flights, Relist(f) PROVE Kept(k)' /\ Known(k)' /\ Says(k)'
  BY <1>20, SameSource DEF Relist, counts
<1>21. CASE Outage
  BY <1>21, SameSource DEF Outage, counts
<1>22. ASSUME NEW f \in Flights, Advance(f) PROVE Kept(k)' /\ Known(k)' /\ Says(k)'
  BY <1>22, SameSource DEF Advance, counts
<1>23. CASE UNCHANGED vars
  BY <1>23, SameSource DEF vars, counts
<1> QED
  BY <1>1, <1>2, <1>3, <1>4, <1>5, <1>6, <1>7, <1>8, <1>9, <1>10, <1>11, <1>12, <1>13, <1>14,
     <1>15, <1>16, <1>17, <1>18, <1>19, <1>20, <1>21, <1>22, <1>23 DEF Next, Fire, PassStep

-----------------------------------------------------------------------------
(* A flight that leaves the list is not forgotten on the way. *)
LEMMA LeavingStep == TypeOK /\ Leaving /\ [Next]_vars => Leaving'
<1> SUFFICES ASSUME TypeOK, Leaving, [Next]_vars PROVE Leaving'
  OBVIOUS
<1>c. pass \in Pass /\ index \subseteq Flights
  BY DEF TypeOK
<1>1. CASE Listed
  BY <1>1, <1>c DEF Listed, Leaving, IdlePass, world, files
<1>2. ASSUME NEW f \in Flights, Add(f) PROVE Leaving'
  <2>1. /\ pass'.listed = pass.listed /\ pass'.outcome = pass.outcome /\ pass'.todo = pass.todo \ {f}
        /\ pass.events \subseteq pass'.events /\ f \in pass.listed
        /\ pc = "add" /\ pc' = "add" /\ index' = index /\ stage' = stage
    BY <1>2, <1>c DEF Add, Pass, world
  <2> QED BY <2>1 DEF Leaving
<1>3. ASSUME NEW f \in Flights, NEW keep \in BOOLEAN, Drop(f, keep) PROVE Leaving'
  <2>1. /\ pass'.listed = pass.listed /\ pass'.outcome = pass.outcome /\ pass'.todo = pass.todo \ {f}
        /\ pass.events \subseteq pass'.events
        /\ stage[f] = "flown" \/ <<"removed", f>> \in pass'.events
        /\ pc = "drop" /\ pc' = "drop" /\ index' = index /\ stage' = stage
    BY <1>3, <1>c DEF Drop, Pass, world
  <2> QED BY <2>1 DEF Leaving
<1>4. CASE AddsDone
  BY <1>4 DEF AddsDone, Leaving, world, files
<1>5. CASE DropsDone
  BY <1>5 DEF DropsDone, Leaving, world, files
<1>6. ASSUME pc' \notin {"add", "drop", "index"} PROVE Leaving'
  BY <1>6 DEF Leaving
<1>7. ASSUME UNCHANGED <<pc, pass, index, stage>> PROVE Leaving'
  BY <1>7 DEF Leaving
<1>8. CASE FireQuiet \/ FireSync \/ FireFails \/ AskFails \/ Killed \/ Over
  BY <1>8, <1>6 DEF FireQuiet, FireSync, FireFails, AskFails, Killed, Over
<1>9. CASE WriteIndex \/ Raises \/ PlanHealth \/ HealthUnread \/ Emit \/ Commit \/ CommitFails
  BY <1>9, <1>6 DEF WriteIndex, Raises, PlanHealth, HealthUnread, Emit, Commit, CommitFails, Reported
<1>10. CASE \E e \in pass.events : Tell(e)
  BY <1>10, <1>6 DEF Tell
<1>11. CASE (\E f \in Flights : Relist(f)) \/ Outage
  BY <1>11, <1>7 DEF Relist, Outage, files
<1>12. CASE \E f \in Flights : Advance(f)
  BY <1>12, <1>6 DEF Advance
<1>13. CASE UNCHANGED vars
  BY <1>13, <1>7 DEF vars, world, files
<1> QED
  BY <1>1, <1>2, <1>3, <1>4, <1>5, <1>8, <1>9, <1>10, <1>11, <1>12, <1>13 DEF Next, Fire, PassStep

(* Nor once it has left. *)
LEMMA MentionedStep == TypeOK /\ Leaving /\ Mentioned /\ [Next]_vars => Mentioned'
<1> SUFFICES ASSUME TypeOK, Leaving, Mentioned, [Next]_vars PROVE Mentioned'
  OBVIOUS
<1>c. pass \in Pass /\ index \subseteq Flights /\ kills \in Nat
  BY SyncAssumption DEF TypeOK
<1>s. ASSUME unsaid' = unsaid, kills' = kills,
             pc \in Health \cup {"tell"} => pc' \in Health \cup {"tell"} /\ pass.events \subseteq pass'.events
      PROVE  Mentioned'
  BY <1>s DEF Mentioned
<1>1. CASE FireQuiet \/ FireSync \/ FireFails \/ AskFails \/ Listed \/ AddsDone \/ DropsDone \/ Raises
  BY <1>1, <1>s DEF FireQuiet, FireSync, FireFails, AskFails, Listed, AddsDone, DropsDone, Raises, Health, counts
<1>2. CASE \E f \in Flights : Add(f) \/ \E keep \in BOOLEAN : Drop(f, keep)
  BY <1>2, <1>s DEF Add, Drop, Health, counts
<1>3. CASE WriteIndex
  <2>1. pc = "index" /\ pc' = "health" /\ pass' = pass /\ kills' = kills
        /\ unsaid' = unsaid \cup {f \in index \ pass.listed : stage[f] # "flown"}
    BY <1>3 DEF WriteIndex, counts
  <2>2. \A f \in index \ pass.listed : stage[f] = "flown" \/ <<"removed", f>> \in pass.events
    BY <2>1 DEF Leaving
  <2>3. kills = 0 => unsaid = {}
    BY <2>1 DEF Mentioned, Health
  <2> QED BY <2>1, <2>2, <2>3 DEF Mentioned, Health
<1>4. CASE PlanHealth
  BY <1>4, <1>s, <1>c DEF PlanHealth, Health, Pass, counts
<1>5. CASE HealthUnread
  BY <1>5, <1>s, <1>c DEF HealthUnread, EventsKept, Health, Pass
<1>6. CASE Emit \/ Commit \/ CommitFails
  BY <1>6, <1>s DEF Emit, Commit, CommitFails, Reported, Health, counts
<1>7. ASSUME NEW e \in pass.events, Tell(e) PROVE Mentioned'
  <2>1. /\ pc = "tell" /\ pc' = pc /\ kills' = kills /\ pass'.events = pass.events \ {e}
        /\ unsaid' = {f \in unsaid : e # <<"removed", f>>}
    BY <1>7, <1>c DEF Tell, Pass, counts
  <2> QED BY <2>1 DEF Mentioned, Health
<1>8. CASE Over
  <2>1. pc = "tell" /\ pass.events = {} /\ unsaid' = unsaid /\ kills' = kills
    BY <1>8 DEF Over, counts
  <2> QED BY <2>1 DEF Mentioned
<1>9. CASE Killed
  <2>1. kills' = kills + 1
    BY <1>9 DEF Killed
  <2>2. kills' # 0
    BY <2>1, <1>c
  <2> QED BY <2>2 DEF Mentioned
<1>10. CASE (\E f \in Flights : Relist(f) \/ Advance(f)) \/ Outage
  BY <1>10, <1>s DEF Relist, Outage, Advance, counts
<1>11. CASE UNCHANGED vars
  BY <1>11, <1>s DEF vars, counts
<1> QED
  BY <1>1, <1>2, <1>3, <1>4, <1>5, <1>6, <1>7, <1>8, <1>9, <1>10, <1>11 DEF Next, Fire, PassStep

-----------------------------------------------------------------------------
LEMMA IInvInit == Init => IInv
<1> SUFFICES ASSUME Init PROVE IInv
  OBVIOUS
<1>1. TypeOK
  <2>1. /\ MaxCount \in Nat /\ MaxFaults \in Nat /\ MaxChanges \in Nat /\ Stale \in Nat
    BY SyncAssumption
  <2>2. /\ health \in [Sources -> Run] /\ fails \in [Sources -> 0..MaxCount] /\ oks \in [Sources -> 0..MaxCount]
    BY <2>1, HealthKinds DEF Init
  <2>3. stage \in [Flights -> Stages] /\ pc \in Steps /\ pass \in Pass /\ pass = IdlePass
    BY HealthKinds DEF Init, Stages, Steps
  <2>4. /\ age \in 0..(Stale + 1) /\ changes \in 0..MaxChanges
        /\ faults \in 0..MaxFaults /\ missed \in 0..faults /\ kills \in 0..missed
    BY <2>1 DEF Init
  <2> QED BY <2>2, <2>3, <2>4 DEF Init, TypeOK
<1>2. SourceInv
  BY SyncAssumption, ZeroFacts DEF Init, SourceInv, Kept, Known, Says, Ended, Good, One, Health, Planned, IdlePass
<1>3. Leaving /\ Mentioned
  BY DEF Init, Leaving, Mentioned
<1> QED BY <1>1, <1>2, <1>3 DEF IInv

LEMMA Inductive == Spec => []IInv
<1>1. IInv /\ [Next]_vars => IInv'
  BY TypeStep, SourceStep, LeavingStep, MentionedStep DEF IInv, SourceInv
<1> QED BY IInvInit, <1>1, PTL DEF Spec

(* Every state of a run of the sync has the types the code relies on. *)
THEOREM SyncTyped == Spec => []TypeOK
<1>1. IInv => TypeOK
  BY DEF IInv
<1> QED BY <1>1, Inductive, PTL

(* No cry of wolf: an alert is reported only after Threshold passes in a row
   failed (sync_tripit._advance). *)
THEOREM AlertsAreTrue == Spec => []AlertIsTrue
<1>1. ASSUME IInv PROVE AlertIsTrue
  <2> SUFFICES ASSUME pc = "emit", NEW k \in Sources, <<"alert", k>> \in pass.events, k \notin unsaved
               PROVE  fails[k] >= Threshold
    BY DEF AlertIsTrue
  <2>1. Kept(k) /\ Says(k) /\ TypeOK
    BY <1>1 DEF IInv, SourceInv
  <2>2. /\ pass.read /\ Failed(pass.outcome, k) /\ pass.plan[k] = Advanced(health, pass.outcome, k)
        /\ ~health[k].alerted /\ pass.plan[k].alerted
    BY <2>1 DEF Says, Planned
  <2>3. pass.plan[k] = [count |-> Up(health[k].count),
                        alerted |-> health[k].alerted \/ Up(health[k].count) >= Threshold]
    BY <2>2 DEF Advanced
  <2>4. pass.plan[k].alerted = (health[k].alerted \/ Up(health[k].count) >= Threshold)
    BY <2>3, RunAlerted, Zenon
  <2>5. Up(health[k].count) >= Threshold
    BY <2>2, <2>4, Zenon
  <2>6. Up(health[k].count) <= fails[k] /\ Up(health[k].count) \in 0..MaxCount /\ fails[k] \in 0..MaxCount
    BY <2>1, <2>2, SourceTypes, UpFacts DEF Kept, Ended, Health
  <2> QED BY <2>5, <2>6, SyncAssumption
<1> QED BY <1>1, Inductive, PTL

(* No silent outage: a source that keeps failing is reported, whatever the
   other one does in between (sync_tripit._plan_sync_health). *)
THEOREM OutagesSurface == Spec => []OutageSurfaces
<1>1. ASSUME IInv PROVE OutageSurfaces
  <2> SUFFICES ASSUME pc = "idle", NEW k \in Sources, fails[k] >= Threshold + missed, k \notin unsaved
               PROVE  k \in got
    BY DEF OutageSurfaces
  <2>1. Kept(k) /\ Known(k) /\ TypeOK
    BY <1>1 DEF IInv, SourceInv
  <2>2. health[k].count \in 0..MaxCount /\ fails[k] \in 0..MaxCount /\ missed \in Nat
    BY <2>1, SourceTypes
  <2>3. health[k].alerted
    BY <2>1, <2>2, SyncAssumption DEF Kept, One, Ended, Health
  <2> QED BY <2>1, <2>3 DEF Known
<1> QED BY <1>1, Inductive, PTL

(* Its end is reported by the first good pass that can write it down. *)
THEOREM RecoveriesSurface == Spec => []RecoverySurfaces
<1>1. ASSUME IInv PROVE RecoverySurfaces
  <2> SUFFICES ASSUME pc = "idle", NEW k \in Sources, oks[k] > missed, k \in got \ unkept PROVE FALSE
    BY DEF RecoverySurfaces
  <2>1. Kept(k) /\ Known(k) /\ TypeOK
    BY <1>1 DEF IInv, SourceInv
  <2>2. oks[k] \in 0..MaxCount /\ missed \in Nat
    BY <2>1, SourceTypes
  <2> QED BY <2>1, <2>2 DEF Kept, Known, One, Good, Health
<1> QED BY <1>1, Inductive, PTL

(* A flight that left the list before it flew is mentioned, unless a pass was
   killed (sync_tripit._attach_sync_health keeps the diff's own events). *)
THEOREM RemovalsAreReported == Spec => []RemovalsReported
<1>1. IInv => RemovalsReported
  BY DEF IInv, RemovalsReported, Mentioned, Health
<1> QED BY <1>1, Inductive, PTL
=============================================================================
