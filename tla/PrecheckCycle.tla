---------------------------- MODULE PrecheckCycle ----------------------------
(***************************************************************************)
(* What a flight-assist cycle observes and says (precheck.py:              *)
(* _process_flight, _refresh_pending_events, _notice_is_current;           *)
(* wake_rules.py; the gate readout of phase_markers.py), filled into the   *)
(* journal protocol of NotificationDelivery.                               *)
(*                                                                         *)
(* A poll compares byAir's snapshot with the one on record, refreshes the  *)
(* notices still pending, offers each event to the journal and only then   *)
(* writes the new record.  A kill may fall between any two of these.       *)
(*                                                                         *)
(* A snapshot is reduced to a status, the departure gate, the departure    *)
(* and byAir's estimate of the inbound delay.  Time is counted in ticks of *)
(* at least one scheduler period, departures and delays in the same unit.  *)
(* A "boarding" label whose detail is still a countdown reads as           *)
(* "scheduled".  The arrival gate and the carousel follow the same rules   *)
(* as the departure gate and are left out, the timed phases are too.       *)
(***************************************************************************)
EXTENDS Integers, FiniteSets

CONSTANTS
  Flights, Runners, NoRunner, MaxNotices, Retry, MaxNow, MaxSequence,
                     \* as in NotificationDelivery
  None,              \* no snapshot, no flight in hand
  NoGate,            \* dep_gate is null
  Gates,
  Deps,              \* departures byAir may report
  Inbounds,          \* inbound delays byAir may predict, 0 for none
  Scheduled,         \* the scheduled departure
  Lead,              \* the boarding lead
  GateLead,          \* GATE_ASSIGNMENT_WINDOW_LEAD_MINUTES
  DelayThreshold,    \* DELAY_THRESHOLD_MINUTES
  InboundThreshold,  \* INBOUND_DELAY_THRESHOLD_MINUTES
  InboundDedupe,     \* INBOUND_DELAY_DEDUPE_MINUTES
  Life,              \* the two hours a notice stays current
  MaxChanges         \* model bound: changes byAir reports

ASSUME CycleAssumption ==
  /\ NoRunner \notin Runners /\ {MaxNow, MaxSequence} \subseteq Nat
  /\ Retry \in Nat \ {0} /\ MaxNotices \in Nat \ {0}
  /\ None \notin Flights /\ NoGate \notin Gates
  /\ Deps \subseteq Nat /\ Inbounds \subseteq Nat
  /\ {Scheduled, Lead, GateLead, MaxChanges} \subseteq Nat /\ Life \in Nat \ {0}
  /\ {DelayThreshold, InboundThreshold} \subseteq Nat \ {0} /\ InboundDedupe \in Nat

VARIABLES
  now, active, sequence, notices, holder, pc, clock, seen, outbox, current,
  queue, received,   \* as in NotificationDelivery
  truth,             \* the snapshot byAir would answer with
  record,            \* flight-<id>.json
  work,              \* what _collect_cycle and _process_flight hold in memory
  heard,             \* what the operator was told last
  dropped,           \* topics that lost a notice to expiry, a 404 or the gate filter
  changes

journalVars == <<now, active, sequence, notices, holder, pc, clock, seen, outbox,
                 current, queue, received>>
vars == <<journalVars, truth, record, work, heard, dropped, changes>>

Statuses == {"scheduled", "boarding", "departed", "cancelled"}
GateValues == Gates \cup {NoGate}
Snapshot == [status : Statuses, gate : GateValues, dep : Deps, inbound : Inbounds]
ASSUME NoneAssumption == None \notin Snapshot

-----------------------------------------------------------------------------
(* The events. *)

PhaseReasons == {"boarding_started", "gate_assignment"}
Mutable == {"inbound_delay_predicted", "inbound_delay_retracted", "delay", "gate_change"}

Cancelled == [reason |-> "cancelled"]
Boarding == [reason |-> "boarding_started"]
Removed == [reason |-> "removed_upstream"]
GateChange(old, new) == [reason |-> "gate_change", side |-> "dep", from |-> old, to |-> new]
Readout(g) == [reason |-> "gate_assignment", gate |-> g]
Delay(m, d) == [reason |-> "delay", minutes |-> m, dep |-> d]
Predicted(m) == [reason |-> "inbound_delay_predicted", minutes |-> m]
Retracted(m, n) == [reason |-> "inbound_delay_retracted", prev |-> m, new |-> n]

Events ==
  {Cancelled, Boarding, Removed}
    \cup {GateChange(g, h) : g \in Gates, h \in GateValues}
    \cup {Readout(g) : g \in Gates}
    \cup {Delay(d - base, d) : d \in Deps, base \in Deps \cup {Scheduled}}
    \cup {Predicted(m) : m \in Inbounds}
    \cup {Retracted(m, n) : m \in Inbounds, n \in Inbounds}

(* A cycle is killed (75 s) before the scheduler's next tick (120 s). *)
Store == INSTANCE NotificationDelivery
  WITH KillAfter <- 0, Lifetimes <- {Life}, Polls <- 0..MaxNow

-----------------------------------------------------------------------------
(* wake_rules.py and phase_markers.py. *)

Size(n) == IF n < 0 THEN -n ELSE n
Delayed(snap) == snap.inbound >= InboundThreshold

(* is_real_boarding: the label counts once the planned window is open. *)
RealBoarding(snap, at) == snap.status = "boarding" /\ at >= snap.dep - Lead
BoardingOrGone(snap, at) ==
  RealBoarding(snap, at) \/ snap.status \in {"departed", "cancelled"}

StatusNews(prev, new) ==
  IF new.status = "cancelled" /\ (prev = None \/ prev.status # "cancelled")
  THEN {Cancelled} ELSE {}

(* Each snapshot is judged at its own poll and against its own window. *)
BoardingNews(prev, new, prevAt, at) ==
  IF prev # None /\ RealBoarding(new, at) /\ ~RealBoarding(prev, prevAt)
  THEN {Boarding} ELSE {}

GateNews(prev, new) ==
  IF prev # None /\ prev.gate # NoGate /\ prev.gate # new.gate
  THEN {GateChange(prev.gate, new.gate)} ELSE {}

(* A shift against the last poll; on the first poll a slip of the schedule. *)
DelayNews(prev, new) ==
  LET shift == new.dep - (IF prev = None THEN Scheduled ELSE prev.dep) IN
  IF shift >= DelayThreshold \/ (prev # None /\ -shift >= DelayThreshold)
  THEN {Delay(shift, new.dep)} ELSE {}

InboundNews(prev, new) ==
  LET told == prev # None /\ Delayed(prev)
      similar == told /\ Size(new.inbound - prev.inbound) <= InboundDedupe
  IN IF Delayed(new) THEN IF similar THEN {} ELSE {Predicted(new.inbound)}
     ELSE IF told THEN {Retracted(prev.inbound, new.inbound)} ELSE {}

(* check_gate_assignment: once, as soon as the window is open and a gate known. *)
ReadoutDue(new, marked, at) ==
  /\ "gate_assignment" \notin marked
  /\ ~BoardingOrGone(new, at)
  /\ at >= Scheduled - Lead - GateLead
  /\ new.gate # NoGate

-----------------------------------------------------------------------------
(* _refresh_pending_events: what is still unsent is measured again. *)

Pending(rows, f, reason) ==
  {row.event : row \in {row \in rows :
     row.flight = f /\ row.event.reason = reason /\ ~row.confirmed}}

(* last_confirmed_event *)
LastConfirmed(rows, f, reasons) ==
  LET done == {row \in rows : row.flight = f /\ row.event.reason \in reasons /\ row.confirmed}
  IN {row.event : row \in {row \in done : \A other \in done : other.seq <= row.seq}}

InboundReasons == {"inbound_delay_predicted", "inbound_delay_retracted"}

(* Defect: a prediction that was never sent takes the all-clear with it. *)
InboundRefreshedForgetful(rows, f, new, news) ==
  LET unsent == Pending(rows, f, "inbound_delay_predicted") IN
  IF unsent = {} THEN news ELSE IF Delayed(new) THEN {Predicted(new.inbound)} ELSE {}

InboundRefreshed(rows, f, new, news) ==
  LET unsent == Pending(rows, f, "inbound_delay_predicted")
      clearing == Pending(rows, f, "inbound_delay_retracted")
      told == {e \in LastConfirmed(rows, f, InboundReasons) : e.reason = "inbound_delay_predicted"}
  IN IF Delayed(new)
     THEN IF unsent # {} THEN {Predicted(new.inbound)} ELSE news
     ELSE IF unsent # {} THEN {Retracted(e.minutes, new.inbound) : e \in told}
     ELSE IF clearing # {} THEN {[e EXCEPT !.new = new.inbound] : e \in clearing}
     ELSE news

(* A delay still unsent is counted from the departure it first slipped from. *)
DelayRefreshed(rows, f, new, news) ==
  LET unsent == Pending(rows, f, "delay")
      Again(e) == Delay(new.dep - (e.dep - e.minutes), new.dep)
  IN IF unsent = {} THEN news
     ELSE {Again(e) : e \in {e \in unsent : Size(Again(e).minutes) >= DelayThreshold}}

GateRefreshed(rows, f, new, news) ==
  LET unsent == Pending(rows, f, "gate_change") IN
  IF unsent = {} THEN news
  ELSE {GateChange(e.from, new.gate) : e \in {e \in unsent : e.from # new.gate}}

(* _filter_gate_changes: quiet until the readout went out or cannot come. *)
GateFiltered(news, marked, new, at) ==
  IF "gate_assignment" \in marked \/ BoardingOrGone(new, at) THEN news ELSE {}

Marked(rows, f) ==
  record[f].markers \cup
    {row.event.reason : row \in {row \in rows :
       row.flight = f /\ row.confirmed /\ row.event.reason \in PhaseReasons}}

(* The filter falls silent again: a gate change was raised while the flight was
   boarding, its readout never went out, and the flight boards no longer. *)
Muted(rows, f, new, at) ==
  /\ "gate_assignment" \notin Marked(rows, f) /\ ~BoardingOrGone(new, at)
  /\ \E row \in rows : row.flight = f /\ row.event.reason = "gate_change"

(* The events of one poll. *)
Observed(rows, f, new, at) ==
  LET prev == record[f].snap
      marked == Marked(rows, f)
      gates == GateRefreshed(rows, f, new, GateNews(prev, new))
  IN UNION {
       StatusNews(prev, new),
       IF "boarding_started" \in marked THEN {} ELSE BoardingNews(prev, new, record[f].polled, at),
       GateFiltered(gates, marked, new, at),
       DelayRefreshed(rows, f, new, DelayNews(prev, new)),
       InboundRefreshed(rows, f, new, InboundNews(prev, new)),
       IF ReadoutDue(new, marked, at) THEN {Readout(new.gate)} ELSE {}}

(* _notice_is_current, against the record on disk. *)
NoticeIsCurrent(f, e, at) ==
  LET snap == record[f].snap IN
  /\ snap # None /\ e.reason # "removed_upstream"
  /\ (snap.status = "cancelled") <=> (e.reason = "cancelled")
  /\ e.reason = "gate_change" => snap.gate = e.to
  /\ e.reason = "delay" => snap.dep = e.dep
  /\ e.reason = "boarding_started" => RealBoarding(snap, at)
  /\ e.reason = "inbound_delay_predicted" => Delayed(snap) /\ snap.inbound = e.minutes
  /\ e.reason = "inbound_delay_retracted" => ~Delayed(snap) /\ snap.inbound = e.new

-----------------------------------------------------------------------------
(* One cycle. *)

IdleWork == [todo |-> {}, flight |-> None, fresh |-> None, offers |-> {},
             verified |-> {}, excluded |-> {}, removed |-> {}, phases |-> {}]

Init ==
  /\ Store!Init
  /\ active = Flights
  /\ truth \in [Flights -> {s \in Snapshot : s.status = "scheduled"}]
  /\ record = [f \in Flights |-> [snap |-> None, polled |-> 0, markers |-> {}]]
  /\ work = [r \in Runners |-> IdleWork]
  /\ heard = [f \in Flights |-> [gate |-> None, delayed |-> FALSE]]
  /\ dropped = [f \in Flights |-> {}]
  /\ changes = 0

(* byAir's picture changes one field at a time, and a status never goes back. *)
Later(status) ==
  CASE status = "scheduled" -> {"boarding", "cancelled"}
    [] status = "boarding" -> {"departed", "cancelled"}
    [] OTHER -> {}

Change(f) ==
  /\ changes < MaxChanges /\ changes' = changes + 1
  /\ \/ \E s \in Later(truth[f].status) : truth' = [truth EXCEPT ![f].status = s]
     \/ \E g \in GateValues \ {truth[f].gate} : truth' = [truth EXCEPT ![f].gate = g]
     \/ \E d \in Deps \ {truth[f].dep} : truth' = [truth EXCEPT ![f].dep = d]
     \/ \E m \in Inbounds \ {truth[f].inbound} : truth' = [truth EXCEPT ![f].inbound = m]
  /\ UNCHANGED <<journalVars, record, work, heard, dropped>>

(* The scheduler starts one cycle a tick, and the kill ends it before the next:
   the journal's lock is always free here. *)
Begin(r) ==
  /\ \A q \in Runners : clock[q] < now
  /\ Store!Begin(r)
  /\ UNCHANGED <<truth, record, work, heard, dropped, changes>>

Topic(e) ==
  CASE e.reason \in {"gate_change", "gate_assignment"} -> "gate"
    [] e.reason \in InboundReasons -> "inbound"
    [] OTHER -> e.reason

(* Pending notices the journal gives up although they may still be true. *)
GivenUp(before, after) ==
  [f \in Flights |-> dropped[f] \cup
     {Topic(row.event) : row \in {row \in before : row.flight = f /\ ~row.confirmed
        /\ ~ \E kept \in after : kept.seq = row.seq}}]

Open(r) ==
  /\ Store!Open(r)
  /\ work' = [work EXCEPT ![r] = [IdleWork EXCEPT !.todo = seen[r]]]
  /\ dropped' = GivenUp(notices, notices')
  /\ UNCHANGED <<truth, record, heard, changes>>

(* forced_ids: a pending notice that is due again makes its flight due. *)
Forced(rows, at) == Store!RetryDueIds(rows, at)

Turn(r, f) == pc[r] = "collect" /\ work[r].flight = None /\ f \in work[r].todo

NotDue(r, f) ==
  /\ Turn(r, f) /\ f \notin Forced(notices, clock[r])
  /\ work' = [work EXCEPT ![r].todo = @ \ {f}]
  /\ UNCHANGED <<journalVars, truth, record, heard, dropped, changes>>

(* byAir answers: the events are computed against the record. *)
Poll(r, f) ==
  /\ Turn(r, f)
  /\ work' = [work EXCEPT ![r].todo = @ \ {f}, ![r].flight = f, ![r].fresh = truth[f],
                         ![r].verified = @ \cup {f},
                         ![r].offers = Observed(notices, f, truth[f], clock[r])]
  /\ dropped' = [g \in Flights |-> dropped[g] \cup
                  IF g = f /\ Muted(notices, f, truth[f], clock[r]) THEN {"gate"} ELSE {}]
  /\ UNCHANGED <<journalVars, truth, record, heard, changes>>

(* 404: the flight is gone upstream, its record stays as it is. *)
PollGone(r, f) ==
  /\ Turn(r, f)
  /\ work' = [work EXCEPT ![r].todo = @ \ {f}, ![r].flight = f, ![r].offers = {Removed},
                         ![r].removed = @ \cup {f}]
  /\ UNCHANGED <<journalVars, truth, record, heard, dropped, changes>>

(* Any other error, or no time left: this flight goes unverified. *)
PollFailed(r, f) ==
  /\ Turn(r, f)
  /\ work' = [work EXCEPT ![r].todo = @ \ {f}, ![r].excluded = @ \cup {f}]
  /\ UNCHANGED <<journalVars, truth, record, heard, dropped, changes>>

Deferred(r) ==
  /\ pc[r] = "collect" /\ work[r].flight = None /\ work[r].todo # {}
  /\ work' = [work EXCEPT ![r].todo = {}, ![r].excluded = @ \cup work[r].todo]
  /\ UNCHANGED <<journalVars, truth, record, heard, dropped, changes>>

(* _offer_notice, once per event; a notice the journal ignores changes nothing. *)
Offer(r, e) ==
  LET f == work[r].flight
      prior == record[f].polled
      expires == clock[r] + Life
  IN /\ pc[r] = "collect" /\ f # None /\ e \in work[r].offers
     /\ \/ Store!Offer(r, f, e, prior, expires)
        \/ Store!OfferIgnored(notices, clock[r], f, e, prior, expires) /\ UNCHANGED journalVars
     /\ work' = [work EXCEPT ![r].offers = @ \ {e},
          ![r].phases = IF e.reason \in PhaseReasons THEN @ \cup {<<f, e.reason>>} ELSE @]
     /\ UNCHANGED <<truth, record, heard, dropped, changes>>

OfferFull(r, e) ==
  LET f == work[r].flight IN
  /\ f # None /\ e \in work[r].offers
  /\ Store!OfferFull(r, f, e, record[f].polled, clock[r] + Life)
  /\ work' = [work EXCEPT ![r] = IdleWork]
  /\ UNCHANGED <<truth, record, heard, dropped, changes>>

(* Defect: the record advances before its events are in the journal. *)
MayWriteEarly(w) == w.flight # None

(* Every event is in the journal before the record advances. *)
MayWrite(w) == w.flight # None /\ w.offers = {}

WriteRecord(r) ==
  LET w == work[r] IN
  /\ pc[r] = "collect" /\ MayWrite(w)
  /\ record' = IF w.fresh = None THEN record
               ELSE [record EXCEPT ![w.flight] =
                       [snap |-> w.fresh, polled |-> clock[r], markers |-> Marked(notices, w.flight)]]
  /\ work' = [work EXCEPT ![r].flight = None, ![r].fresh = None, ![r].offers = {}]
  /\ UNCHANGED <<journalVars, truth, heard, dropped, changes>>

Reconcile(r) ==
  LET w == work[r]
      upheld == {<<row.flight, row.event>> : row \in {row \in notices :
                   NoticeIsCurrent(row.flight, row.event, clock[r])}}
  IN /\ w.todo = {} /\ w.flight = None
     /\ Store!Reconcile(r, w.verified, w.phases, upheld)
     /\ UNCHANGED <<truth, record, work, heard, dropped, changes>>

(* Defect: a failed poll keeps nothing back. *)
HeldBackNothing(w) == {}

HeldBack(w) == w.excluded

Due(r) ==
  /\ Store!Due(r, HeldBack(work[r]), work[r].removed)
  /\ dropped' = GivenUp(notices, notices')
  /\ UNCHANGED <<truth, record, work, heard, changes>>

(* What the operator knows after reading a message. *)
Told(h, ids) ==
  LET events == {id[3] : id \in ids} IN
  [gate |-> CASE \E e \in events : e.reason = "gate_change" ->
                   (CHOOSE e \in events : e.reason = "gate_change").to
              [] \E e \in events : e.reason = "gate_assignment" ->
                   (CHOOSE e \in events : e.reason = "gate_assignment").gate
              [] OTHER -> h.gate,
   delayed |-> \/ \E e \in events : e.reason = "inbound_delay_predicted"
               \/ h.delayed /\ \A e \in events : e.reason # "inbound_delay_retracted"]

HostDeliver(m) ==
  /\ Store!HostDeliver(m)
  /\ heard' = [f \in Flights |-> Told(heard[f], {id \in m : id[2][1] = f})]
  /\ UNCHANGED <<truth, record, work, dropped, changes>>

(* The rest of the protocol is the journal's own. *)
Protocol ==
  /\ \/ \E r \in Runners : \E m \in outbox[r] : Store!Send(r, m) \/ Store!LeavePending(r, m)
     \/ \E m \in queue : Store!HostRefuse(m)
     \/ \E r \in Runners : Store!SendFailed(r) \/ Store!Confirm(r)
     \/ Store!Tick
  /\ UNCHANGED <<truth, record, work, heard, dropped, changes>>

(* The cycle is over, killed or not: its memory goes. *)
Ended(r) ==
  /\ Store!Finish(r) \/ Store!Crash(r)
  /\ work' = [work EXCEPT ![r] = IdleWork]
  /\ UNCHANGED <<truth, record, heard, dropped, changes>>

Next ==
  \/ \E f \in Flights : Change(f)
  \/ \E r \in Runners : Begin(r) \/ Open(r) \/ Deferred(r)
  \/ \E r \in Runners, f \in Flights :
       NotDue(r, f) \/ Poll(r, f) \/ PollGone(r, f) \/ PollFailed(r, f)
  \/ \E r \in Runners : \E e \in work[r].offers : Offer(r, e) \/ OfferFull(r, e)
  \/ \E r \in Runners : WriteRecord(r) \/ Reconcile(r) \/ Due(r) \/ Ended(r)
  \/ \E m \in queue : HostDeliver(m)
  \/ Protocol

Spec == Init /\ [][Next]_vars

-----------------------------------------------------------------------------
(* state-schema.md:434: "A failed or deferred live poll cannot surface its
   queued notice": whatever is about to be sent was measured against byAir in
   this very cycle and still holds in the record it left. *)
SentCurrent ==
  \A r \in Runners : \A m \in outbox[r] : \A id \in m :
    LET f == id[2][1] IN
    \/ f \in work[r].removed /\ id[3] = Removed
    \/ f \in work[r].verified /\ NoticeIsCurrent(f, id[3], clock[r])

(* What the journal believes the operator was told last. *)
ToldGate(f) ==
  {IF e.reason = "gate_change" THEN e.to ELSE e.gate :
     e \in LastConfirmed(notices, f, {"gate_change", "gate_assignment"})}
Afloat(f) == record[f].snap # None /\ record[f].snap.status # "cancelled"

(* No gate change is lost, whatever was killed, refused or superseded: if the
   gate on record is not the one last confirmed to the operator, its notice is
   pending.  Exempt are a notice given up as too old, and a flight whose gate
   change had been raised before its readout when it stopped boarding: there
   the gate filter falls silent again. *)
GateFollowed ==
  \A f \in Flights : Afloat(f) =>
    \A g \in ToldGate(f) :
      \/ g \in {NoGate, record[f].snap.gate}
      \/ Pending(notices, f, "gate_change") # {} \/ "gate" \in dropped[f]

(* An estimate once confirmed to the operator is taken back: when the record no
   longer carries it the all-clear is pending, unless it was given up as too
   old. *)
AllClearFollows ==
  \A f \in Flights : Afloat(f) =>
    \A e \in LastConfirmed(notices, f, InboundReasons) :
      \/ e.reason = "inbound_delay_retracted" \/ Delayed(record[f].snap)
      \/ Pending(notices, f, "inbound_delay_retracted") # {} \/ "inbound" \in dropped[f]

(* wake_rules.py:241: "Without an explicit all-clear the last surface the user
   saw was ... rebook now, and the silence afterwards reads as still bad": an
   operator who read an estimate is told when it is withdrawn. *)
AllClearHeard ==
  \A f \in Flights : Afloat(f) /\ (\A r \in Runners : pc[r] = "idle") =>
    \/ ~heard[f].delayed \/ Delayed(record[f].snap) \/ "inbound" \in dropped[f]
    \/ \E reason \in InboundReasons : Pending(notices, f, reason) # {}
=============================================================================
