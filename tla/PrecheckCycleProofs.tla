------------------------ MODULE PrecheckCycleProofs ------------------------
(***************************************************************************)
(* The flight-assist cycle implements the journal protocol, whatever byAir *)
(* reports, and keeps its types.                                           *)
(***************************************************************************)
EXTENDS PrecheckCycle, TLAPS

Work == [todo : SUBSET Flights, flight : Flights \cup {None}, fresh : Snapshot \cup {None},
         offers : SUBSET Events, verified : SUBSET Flights, excluded : SUBSET Flights,
         removed : SUBSET Flights, phases : SUBSET (Flights \X PhaseReasons)]

(* What a cycle holds and finds on disk is well-formed, and every event in the
   journal is one the rules can produce. *)
Records ==
  /\ truth \in [Flights -> Snapshot]
  /\ record \in [Flights -> [snap : Snapshot \cup {None}, polled : 0..MaxNow,
                              markers : SUBSET PhaseReasons]]
Clocks ==
  /\ now \in 0..MaxNow /\ clock \in [Runners -> 0..MaxNow]
  /\ active = Flights /\ seen \in [Runners -> SUBSET Flights]
Observations == sequence \in Nat /\ notices \subseteq Store!Row
CycleInv == Records /\ Clocks /\ Observations /\ work \in [Runners -> Work]

-----------------------------------------------------------------------------
(* A refreshed observation is an observation. *)
LEMMA ObservedEvents ==
  ASSUME CycleInv, NEW f \in Flights, NEW new \in Snapshot, NEW at \in Nat
  PROVE  Observed(notices, f, new, at) \subseteq Events
<1> DEFINE prev == record[f].snap
<1>1. prev \in Snapshot \cup {None}
  BY DEF CycleInv, Records
<1>2. \A reason : Pending(notices, f, reason) \subseteq {e \in Events : e.reason = reason}
  BY DEF CycleInv, Observations, Pending, Store!Row
<1>3. \A reasons : LastConfirmed(notices, f, reasons) \subseteq Events
  BY DEF CycleInv, Observations, LastConfirmed, Store!Row
<1> HIDE DEF prev
<1>4. StatusNews(prev, new) \subseteq Events
  BY DEF StatusNews, Events
<1>5. BoardingNews(prev, new, record[f].polled, at) \subseteq Events
  BY DEF BoardingNews, Events
<1>6. GateNews(prev, new) \subseteq Events
  BY <1>1 DEF GateNews, Events, Snapshot, GateValues
<1>7. DelayNews(prev, new) \subseteq Events
  BY <1>1 DEF DelayNews, Events, Snapshot
<1>8. InboundNews(prev, new) \subseteq Events
  BY <1>1 DEF InboundNews, Events, Snapshot
<1>9. \A e \in Pending(notices, f, "delay") :
        \E d \in Deps, base \in Deps \cup {Scheduled} : e = Delay(d - base, d)
  <2>1. ASSUME NEW e \in Events, e.reason = "delay"
        PROVE  \E d \in Deps, base \in Deps \cup {Scheduled} : e = Delay(d - base, d)
    BY <2>1 DEF Events, Cancelled, Boarding, Removed, GateChange, Readout, Predicted, Retracted
  <2> QED
    BY <1>2, <2>1
<1>10. DelayRefreshed(notices, f, new, DelayNews(prev, new)) \subseteq Events
  <2>1. ASSUME NEW e \in Pending(notices, f, "delay")
        PROVE  Delay(new.dep - (e.dep - e.minutes), new.dep) \in Events
    <3>1. PICK d \in Deps, base \in Deps \cup {Scheduled} : e = Delay(d - base, d)
      BY <1>9
    <3>2. d \in Int /\ base \in Int
      BY CycleAssumption
    <3>3. e.dep - e.minutes = base
      BY <3>1, <3>2 DEF Delay
    <3> QED
      BY <3>3 DEF Events, Snapshot
  <2> QED
    BY <1>7, <2>1 DEF DelayRefreshed
<1>11. GateRefreshed(notices, f, new, GateNews(prev, new)) \subseteq Events
  <2>1. ASSUME NEW e \in Events, e.reason = "gate_change"
        PROVE  e.from \in Gates
    BY <2>1 DEF Events, Cancelled, Boarding, Removed, GateChange, Readout, Delay, Predicted, Retracted
  <2>2. \A e \in Pending(notices, f, "gate_change") : GateChange(e.from, new.gate) \in Events
    BY <1>2, <2>1 DEF Events, Snapshot
  <2> QED
    BY <1>6, <2>2 DEF GateRefreshed
<1>12. InboundRefreshed(notices, f, new, InboundNews(prev, new)) \subseteq Events
  <2>1. ASSUME NEW e \in Events, e.reason = "inbound_delay_predicted"
        PROVE  e.minutes \in Inbounds
    BY <2>1 DEF Events, Cancelled, Boarding, Removed, GateChange, Readout, Delay, Predicted, Retracted
  <2>2. ASSUME NEW e \in Events, e.reason = "inbound_delay_retracted", NEW n \in Inbounds
        PROVE  [e EXCEPT !.new = n] \in Events
    <3>1. PICK a \in Inbounds, b \in Inbounds : e = Retracted(a, b)
      BY <2>2 DEF Events, Cancelled, Boarding, Removed, GateChange, Readout, Delay, Predicted, Retracted
    <3>2. [e EXCEPT !.new = n] = Retracted(a, n)
      BY <3>1 DEF Retracted
    <3> QED
      BY <3>2 DEF Events
  <2>3. new.inbound \in Inbounds
    BY DEF Snapshot
  <2>4. \A e \in LastConfirmed(notices, f, InboundReasons) :
          e.reason = "inbound_delay_predicted" => Retracted(e.minutes, new.inbound) \in Events
    BY <1>3, <2>1, <2>3 DEF Events
  <2>5. \A e \in Pending(notices, f, "inbound_delay_retracted") :
          [e EXCEPT !.new = new.inbound] \in Events
    BY <1>2, <2>2, <2>3
  <2>6. Predicted(new.inbound) \in Events
    BY <2>3 DEF Events
  <2> QED
    BY <1>8, <2>4, <2>5, <2>6 DEF InboundRefreshed
<1>13. ASSUME NEW marked, ReadoutDue(new, marked, at)
       PROVE  Readout(new.gate) \in Events
  BY <1>13 DEF ReadoutDue, Events, Snapshot, GateValues
<1> QED
  BY <1>4, <1>5, <1>10, <1>11, <1>12, <1>13 DEF Observed, GateFiltered, prev

-----------------------------------------------------------------------------
(* A cycle that is over holds nothing. *)
LEMMA IdleWorkType == IdleWork \in Work
BY DEF IdleWork, Work

(* The initial states. *)
LEMMA InitInv == Init => CycleInv
<1> SUFFICES ASSUME Init PROVE CycleInv
  OBVIOUS
<1>1. Records
  BY CycleAssumption DEF Init, Records
<1>2. Clocks
  BY CycleAssumption DEF Init, Store!Init, Clocks
<1>3. Observations
  BY DEF Init, Store!Init, Observations
<1> QED
  BY <1>1, <1>2, <1>3, IdleWorkType DEF CycleInv, Init

-----------------------------------------------------------------------------
(* The journal's rows stay rows of observations. *)
LEMMA KeptRows ==
  ASSUME Observations, NEW ids, NEW other, NEW removed, NEW phases, NEW upheld, NEW t \in Nat
  PROVE  /\ Store!Pruned(notices, ids, t) \subseteq Store!Row
         /\ Store!Confirmed(notices, ids) \subseteq Store!Row
         /\ Store!Reconciled(notices, ids, phases, upheld) \subseteq Store!Row
         /\ Store!DueRows(notices, ids, other, removed, t) \subseteq Store!Row
<1>1. \A row \in Store!Row : [row EXCEPT !.confirmed = TRUE] \in Store!Row
  BY DEF Store!Row
<1>2. t + Retry \in Nat
  BY CycleAssumption
<1>3. \A row \in Store!Row : [row EXCEPT !.retry = t + Retry] \in Store!Row
  BY <1>2 DEF Store!Row
<1>4. Store!DueRows(notices, ids, other, removed, t) \subseteq Store!Row
  BY <1>3 DEF Observations, Store!DueRows, Store!DueReady, Store!DueKept
<1> QED
  BY <1>1, <1>4 DEF Observations, Store!Pruned, Store!Confirmed, Store!Reconciled

LEMMA OfferedRow ==
  ASSUME Observations, NEW t, NEW f \in Flights, NEW e \in Events, NEW prior \in Nat,
         NEW expires \in Nat
  PROVE  Store!Offered(notices, t, f, e, prior, expires) \subseteq Store!Row
<1> DEFINE live == {row \in Store!Previous(notices, f, e, prior) : ~Store!Lapsed(row, t)}
           retry == IF live = {} THEN 0 ELSE (CHOOSE row \in live : TRUE).retry
<1>1. live \subseteq Store!Row
  BY DEF Observations, Store!Previous
<1>2. live # {} => (CHOOSE row \in live : TRUE) \in live
  OBVIOUS
<1>3. retry \in Nat
  BY <1>1, <1>2 DEF Store!Row
<1>4. Store!NewRow(notices, t, f, e, prior, expires) =
        [seq |-> sequence + 1, flight |-> f, event |-> e, prior |-> prior, expires |-> expires,
         confirmed |-> FALSE, retry |-> retry]
  BY DEF Store!NewRow
<1> HIDE DEF retry
<1>5. Store!NewRow(notices, t, f, e, prior, expires) \in Store!Row
  BY <1>3, <1>4 DEF Observations, Store!Row
<1> QED
  BY <1>5 DEF Observations, Store!Offered

(* The steps that take nothing from byAir and write no record. *)
LEMMA QuietStep ==
  ASSUME CycleInv, Clocks', Observations', UNCHANGED <<truth, record>>,
         \/ UNCHANGED work
         \/ \E r \in Runners : \E w \in Work : work' = [work EXCEPT ![r] = w]
  PROVE  CycleInv'
<1>1. Records'
  BY DEF CycleInv, Records
<1>2. work' \in [Runners -> Work]
  BY DEF CycleInv
<1> QED
  BY <1>1, <1>2 DEF CycleInv

LEMMA StopClocks ==
  ASSUME Clocks, NEW r \in Runners, Store!Stop(r), UNCHANGED <<now, active>>
  PROVE  Clocks'
BY DEF Clocks, Store!Stop

(* Every step keeps what a cycle holds well-formed. *)
LEMMA InvStep == CycleInv /\ [Next]_vars => CycleInv'
<1> SUFFICES ASSUME CycleInv, [Next]_vars PROVE CycleInv'
  OBVIOUS
<1> USE DEF journalVars, Store!world, Store!journal, Store!runner
<1>0. \A r \in Runners : clock[r] \in Nat
  BY CycleAssumption DEF CycleInv, Clocks
<1>1. ASSUME NEW f \in Flights, Change(f) PROVE CycleInv'
  <2>1. truth' \in [Flights -> Snapshot]
    BY <1>1 DEF Change, CycleInv, Records, Snapshot, Later, Statuses, GateValues
  <2> QED
    BY <1>1, <2>1 DEF Change, CycleInv, Records, Clocks, Observations
<1>2. ASSUME NEW r \in Runners, Begin(r) PROVE CycleInv'
  BY <1>2, QuietStep DEF Begin, Store!Begin, CycleInv, Clocks, Observations
<1>3. ASSUME NEW r \in Runners, Open(r) PROVE CycleInv'
  <2>1. [IdleWork EXCEPT !.todo = seen[r]] \in Work
    BY DEF CycleInv, Clocks, IdleWork, Work
  <2>2. Observations'
    BY <1>3, <1>0, KeptRows DEF Open, Store!Open, CycleInv, Observations
  <2> QED
    BY <1>3, <2>1, <2>2, QuietStep DEF Open, Store!Open, CycleInv, Clocks
<1>4. ASSUME NEW r \in Runners, Deferred(r) PROVE CycleInv'
  <2>1. [work[r] EXCEPT !.todo = {}, !.excluded = @ \cup work[r].todo] \in Work
    BY DEF CycleInv, Work
  <2>2. work' = [work EXCEPT ![r] = [work[r] EXCEPT !.todo = {}, !.excluded = @ \cup work[r].todo]]
    BY <1>4 DEF Deferred, CycleInv, Work
  <2> QED
    BY <1>4, <2>1, <2>2, QuietStep DEF Deferred, CycleInv, Clocks, Observations
<1>5. ASSUME NEW r \in Runners, NEW f \in Flights, NotDue(r, f) PROVE CycleInv'
  <2>1. [work[r] EXCEPT !.todo = @ \ {f}] \in Work
    BY DEF CycleInv, Work
  <2> QED
    BY <1>5, <2>1, QuietStep DEF NotDue, CycleInv, Clocks, Observations
<1>6. ASSUME NEW r \in Runners, NEW f \in Flights, Poll(r, f) PROVE CycleInv'
  <2> DEFINE found == Observed(notices, f, truth[f], clock[r])
             w == [work[r] EXCEPT !.todo = @ \ {f}, !.flight = f, !.fresh = truth[f],
                                  !.verified = @ \cup {f}, !.offers = found]
  <2>1. found \subseteq Events
    BY ObservedEvents DEF CycleInv, Records, Clocks
  <2> HIDE DEF found
  <2>2. w \in Work
    BY <2>1 DEF CycleInv, Work, Records
  <2>3. work' = [work EXCEPT ![r] = w]
    BY <1>6 DEF Poll, CycleInv, Work, found
  <2> QED
    BY <1>6, <2>2, <2>3, QuietStep DEF Poll, CycleInv, Clocks, Observations
<1>7. ASSUME NEW r \in Runners, NEW f \in Flights, PollGone(r, f) PROVE CycleInv'
  <2> DEFINE w == [work[r] EXCEPT !.todo = @ \ {f}, !.flight = f, !.offers = {Removed},
                                  !.removed = @ \cup {f}]
  <2>1. Removed \in Events
    BY DEF Events
  <2>2. w \in Work
    BY <2>1 DEF CycleInv, Work
  <2>3. work' = [work EXCEPT ![r] = w]
    BY <1>7 DEF PollGone, CycleInv, Work
  <2> QED
    BY <1>7, <2>2, <2>3, QuietStep DEF PollGone, CycleInv, Clocks, Observations
<1>8. ASSUME NEW r \in Runners, NEW f \in Flights, PollFailed(r, f) PROVE CycleInv'
  <2> DEFINE w == [work[r] EXCEPT !.todo = @ \ {f}, !.excluded = @ \cup {f}]
  <2>1. w \in Work
    BY DEF CycleInv, Work
  <2>2. work' = [work EXCEPT ![r] = w]
    BY <1>8 DEF PollFailed, CycleInv, Work
  <2> QED
    BY <1>8, <2>1, <2>2, QuietStep DEF PollFailed, CycleInv, Clocks, Observations
<1>9. ASSUME NEW r \in Runners, NEW e \in work[r].offers, Offer(r, e) PROVE CycleInv'
  <2> DEFINE fired == IF e.reason \in PhaseReasons
                      THEN work[r].phases \cup {<<work[r].flight, e.reason>>}
                      ELSE work[r].phases
             w == [work[r] EXCEPT !.offers = @ \ {e}, !.phases = fired]
  <2>1. e \in Events /\ work[r].flight \in Flights
    BY <1>9 DEF Offer, CycleInv, Work
  <2>2. fired \in SUBSET (Flights \X PhaseReasons)
    BY <2>1 DEF CycleInv, Work
  <2>3. work' = [work EXCEPT ![r] = w]
    BY <1>9 DEF Offer, CycleInv, Work
  <2> HIDE DEF fired
  <2>6. w \in Work
    BY <2>2 DEF CycleInv, Work
  <2>4. Observations'
    <3>1. record[work[r].flight].polled \in Nat /\ clock[r] + Life \in Nat
      BY <1>0, <2>1, CycleAssumption DEF CycleInv, Records
    <3>2. Store!Offered(notices, clock[r], work[r].flight, e, record[work[r].flight].polled,
                        clock[r] + Life) \subseteq Store!Row
      BY <2>1, <3>1, OfferedRow DEF CycleInv
    <3> QED
      BY <1>9, <3>2 DEF Offer, Store!Offer, CycleInv, Observations
  <2>5. Clocks'
    BY <1>9 DEF Offer, Store!Offer, CycleInv, Clocks
  <2> QED
    BY <1>9, <2>3, <2>4, <2>5, <2>6, QuietStep DEF Offer
<1>10. ASSUME NEW r \in Runners, NEW e \in work[r].offers, OfferFull(r, e) PROVE CycleInv'
  BY <1>10, IdleWorkType, StopClocks, QuietStep
     DEF OfferFull, Store!OfferFull, CycleInv, Observations
<1>11. ASSUME NEW r \in Runners, WriteRecord(r) PROVE CycleInv'
  <2> DEFINE w == [work[r] EXCEPT !.flight = None, !.fresh = None, !.offers = {}]
             markers == Marked(notices, work[r].flight)
  <2>1. w \in Work
    BY DEF CycleInv, Work
  <2>2. work' = [work EXCEPT ![r] = w]
    BY <1>11 DEF WriteRecord, CycleInv, Work
  <2>3. work[r].flight \in Flights
    BY <1>11 DEF WriteRecord, MayWrite, CycleInv, Work
  <2>4. markers \subseteq PhaseReasons
    BY <2>3 DEF Marked, CycleInv, Records
  <2> HIDE DEF markers
  <2>5. record' = IF work[r].fresh = None THEN record
                  ELSE [record EXCEPT ![work[r].flight] =
                          [snap |-> work[r].fresh, polled |-> clock[r], markers |-> markers]]
    BY <1>11 DEF WriteRecord, markers
  <2>6. [snap |-> work[r].fresh, polled |-> clock[r], markers |-> markers]
          \in [snap : Snapshot \cup {None}, polled : 0..MaxNow, markers : SUBSET PhaseReasons]
    BY <2>4 DEF CycleInv, Clocks, Work
  <2>7. Records'
    BY <1>11, <2>3, <2>5, <2>6 DEF WriteRecord, CycleInv, Records
  <2> QED
    BY <1>11, <2>1, <2>2, <2>7 DEF WriteRecord, CycleInv, Clocks, Observations
<1>12. ASSUME NEW r \in Runners, Reconcile(r) PROVE CycleInv'
  <2>1. Observations'
    BY <1>12, <1>0, KeptRows DEF Reconcile, Store!Reconcile, CycleInv, Observations
  <2> QED
    BY <1>12, <2>1, QuietStep DEF Reconcile, Store!Reconcile, CycleInv, Clocks
<1>13. ASSUME NEW r \in Runners, Due(r) PROVE CycleInv'
  <2>1. Observations'
    BY <1>13, <1>0, KeptRows DEF Due, Store!Due, CycleInv, Observations
  <2> QED
    BY <1>13, <2>1, QuietStep DEF Due, Store!Due, CycleInv, Clocks
<1>14. ASSUME NEW r \in Runners, Ended(r) PROVE CycleInv'
  BY <1>14, IdleWorkType, StopClocks, QuietStep
     DEF Ended, Store!Finish, Store!Crash, CycleInv, Observations
<1>15. ASSUME NEW m \in queue, HostDeliver(m) PROVE CycleInv'
  BY <1>15, QuietStep DEF HostDeliver, Store!HostDeliver, CycleInv, Clocks, Observations
<1>16. ASSUME Protocol PROVE CycleInv'
  <2>1. ASSUME NEW r \in Runners, NEW m \in outbox[r], Store!Send(r, m) \/ Store!LeavePending(r, m)
        PROVE  Clocks' /\ Observations'
    BY <2>1 DEF Store!Send, Store!LeavePending, CycleInv, Clocks, Observations
  <2>2. ASSUME NEW m \in queue, Store!HostRefuse(m) PROVE Clocks' /\ Observations'
    BY <2>2 DEF Store!HostRefuse, CycleInv, Clocks, Observations
  <2>3. ASSUME NEW r \in Runners, Store!SendFailed(r) PROVE Clocks' /\ Observations'
    BY <2>3 DEF Store!SendFailed, CycleInv, Clocks, Observations
  <2>4. ASSUME NEW r \in Runners, Store!Confirm(r) PROVE Clocks' /\ Observations'
    BY <2>4, <1>0, KeptRows DEF Store!Confirm, CycleInv, Clocks, Observations
  <2>5. ASSUME Store!Tick PROVE Clocks' /\ Observations'
    <3>1. now' \in 0..MaxNow
      BY <2>5, CycleAssumption DEF Store!Tick, CycleInv, Clocks
    <3> QED
      BY <2>5, <3>1 DEF Store!Tick, CycleInv, Clocks, Observations
  <2> QED
    BY <1>16, <2>1, <2>2, <2>3, <2>4, <2>5, QuietStep DEF Protocol
<1>17. CASE UNCHANGED vars
  BY <1>17 DEF vars, CycleInv, Records, Clocks, Observations
<1> QED
  BY <1>1, <1>2, <1>3, <1>4, <1>5, <1>6, <1>7, <1>8, <1>9, <1>10, <1>11, <1>12, <1>13, <1>14,
     <1>15, <1>16, <1>17 DEF Next

(* Every step of a cycle is a step of the journal protocol or leaves it alone. *)
LEMMA StoreStep == CycleInv /\ [Next]_vars => [Store!Next]_Store!vars
<1> SUFFICES ASSUME CycleInv, [Next]_vars PROVE [Store!Next]_Store!vars
  OBVIOUS
<1> USE DEF journalVars
<1>1. (UNCHANGED journalVars) => UNCHANGED Store!vars
  BY DEF Store!vars
<1>2. ASSUME NEW f \in Flights, Change(f) PROVE UNCHANGED journalVars
  BY <1>2 DEF Change
<1>3. ASSUME NEW r \in Runners, Begin(r) \/ Open(r) PROVE Store!Next
  BY <1>3 DEF Begin, Open, Store!Next
<1>4. ASSUME NEW r \in Runners, Deferred(r) \/ WriteRecord(r) PROVE UNCHANGED journalVars
  BY <1>4 DEF Deferred, WriteRecord
<1>5. ASSUME NEW r \in Runners, NEW f \in Flights,
             NotDue(r, f) \/ Poll(r, f) \/ PollGone(r, f) \/ PollFailed(r, f)
      PROVE  UNCHANGED journalVars
  BY <1>5 DEF NotDue, Poll, PollGone, PollFailed
<1>6. ASSUME NEW r \in Runners, NEW e \in work[r].offers, Offer(r, e) \/ OfferFull(r, e)
      PROVE  Store!Next \/ UNCHANGED journalVars
  <2> DEFINE f == work[r].flight
             prior == record[f].polled
  <2>1. e \in Events /\ f \in Flights
    BY <1>6 DEF Offer, OfferFull, CycleInv, Work
  <2>2. prior \in 0..MaxNow
    BY <2>1 DEF CycleInv, Records
  <2>3. CASE OfferFull(r, e)
    <3>1. Store!OfferFull(r, f, e, prior, clock[r] + Life)
      BY <2>3 DEF OfferFull
    <3> QED
      BY <2>1, <2>2, <3>1 DEF Store!Next
  <2>4. CASE Offer(r, e) /\ Store!Offer(r, f, e, prior, clock[r] + Life)
    BY <2>1, <2>2, <2>4 DEF Store!Next
  <2> QED
    BY <1>6, <2>3, <2>4 DEF Offer
<1>7. ASSUME NEW r \in Runners, Reconcile(r) PROVE Store!Next
  <2> DEFINE upheld == {<<row.flight, row.event>> : row \in {row \in notices :
                          NoticeIsCurrent(row.flight, row.event, clock[r])}}
  <2>1. Store!Reconcile(r, work[r].verified, work[r].phases, upheld)
    BY <1>7 DEF Reconcile
  <2>2. upheld \in SUBSET Store!Upheld
    BY DEF Store!Upheld
  <2>3. work[r].verified \in SUBSET Flights /\ work[r].phases \in SUBSET (Flights \X PhaseReasons)
    BY DEF CycleInv, Work
  <2> HIDE DEF upheld
  <2> QED
    BY <2>1, <2>2, <2>3 DEF Store!Next
<1>8. ASSUME NEW r \in Runners, Due(r) PROVE Store!Next
  <2>1. HeldBack(work[r]) \in SUBSET Flights /\ work[r].removed \in SUBSET Flights
    BY DEF HeldBack, CycleInv, Work
  <2>2. Store!Due(r, HeldBack(work[r]), work[r].removed)
    BY <1>8 DEF Due
  <2> QED
    BY <2>1, <2>2 DEF Store!Next
<1>9. ASSUME NEW r \in Runners, Ended(r) PROVE Store!Next
  BY <1>9 DEF Ended, Store!Next
<1>10. ASSUME NEW m \in queue, HostDeliver(m) PROVE Store!Next
  BY <1>10 DEF HostDeliver, Store!Next
<1>11. ASSUME Protocol PROVE Store!Next
  BY <1>11 DEF Protocol, Store!Next
<1>12. (UNCHANGED vars) => UNCHANGED journalVars
  BY DEF vars
<1> QED
  BY <1>1, <1>2, <1>3, <1>4, <1>5, <1>6, <1>7, <1>8, <1>9, <1>10, <1>11, <1>12 DEF Next

(* The cycle with its real observations implements the journal protocol: what
   NotificationDelivery promises of receipts, retries and duplicates holds for
   flight-assist, whatever byAir reports. *)
THEOREM CycleImplementsDelivery == Spec => Store!Spec
<1>1. Init => CycleInv /\ Store!Init
  BY InitInv DEF Init
<1>2. CycleInv /\ [Next]_vars => CycleInv' /\ [Store!Next]_Store!vars
  BY InvStep, StoreStep
<1> QED
  BY <1>1, <1>2, PTL DEF Spec, Store!Spec

-----------------------------------------------------------------------------
(* One cycle runs at a time, at the present instant. *)
Active(r) == pc[r] # "idle"
Alone ==
  /\ DOMAIN pc = Runners /\ DOMAIN outbox = Runners /\ DOMAIN current = Runners
  /\ \A r \in Runners : Active(r) => clock[r] = now
  /\ \A r \in Runners : clock[r] <= now
  /\ \A q, r \in Runners : Active(q) /\ Active(r) => q = r

(* A flight a collecting cycle is through with was polled, is gone, is kept
   back, or has nothing that could be sent now. *)
Quiet(r, f) ==
  \A row \in notices : row.flight = f /\ ~row.confirmed =>
    Store!Lapsed(row, clock[r]) \/ Store!Backoff(row, clock[r])
Answered(r) == work[r].verified \cup work[r].removed
Through(r) ==
  /\ \A f \in seen[r] : f \in work[r].todo \cup Answered(r) \cup work[r].excluded \/ Quiet(r, f)
  /\ work[r].flight # None => work[r].flight \in Answered(r)

(* Once reconciled, what is pending for a polled flight holds on record. *)
Upheld(r) ==
  /\ work[r].todo = {} /\ work[r].flight = None
  /\ \A row \in notices : row.flight \in work[r].verified /\ ~row.confirmed =>
       NoticeIsCurrent(row.flight, row.event, clock[r])

(* What is in hand was polled in this cycle and holds on record. *)
Holds(r, id) ==
  LET f == id[2][1] IN
  \/ f \in work[r].removed /\ id[3] = Removed
  \/ f \in work[r].verified /\ NoticeIsCurrent(f, id[3], clock[r])

Sound(r) ==
  /\ pc[r] \in {"collect", "settle"} => Through(r)
  /\ pc[r] = "settle" => Upheld(r)
  /\ pc[r] \in {"idle", "begun", "collect", "settle"} => outbox[r] = {}
  /\ \A m \in outbox[r] : \A id \in m : Holds(r, id)

SentInv == Alone /\ \A r \in Runners : Sound(r)

(* Nobody else is at work while a cycle is. *)
LEMMA OthersIdle ==
  ASSUME Alone, NEW r \in Runners, Active(r)
  PROVE  \A q \in Runners \ {r} : pc[q] = "idle"
BY DEF Alone, Active

(* A notice depends on its own flight only, and its id names it. *)
LEMMA RowFacts ==
  ASSUME CycleInv, NEW row \in notices
  PROVE  /\ row.event \in Events /\ row.flight \in Flights
         /\ Store!Dependencies(row) = {row.flight}
         /\ Store!Id(row)[2][1] = row.flight /\ Store!Id(row)[3] = row.event
         /\ row.event.reason = "removed_upstream" => row.event = Removed
<1>1. row.event \in Events /\ row.flight \in Flights
  BY DEF CycleInv, Observations, Store!Row
<1>2. row.event.reason # "connection_at_risk"
  BY <1>1 DEF Events, Cancelled, Boarding, Removed, GateChange, Readout, Delay, Predicted, Retracted
<1>3. row.event.reason = "removed_upstream" => row.event = Removed
  BY <1>1 DEF Events, Cancelled, Boarding, Removed, GateChange, Readout, Delay, Predicted, Retracted
<1>4. Store!Key(row)[1] = row.flight
  BY DEF Store!Key, Store!KeyOf
<1> QED
  BY <1>1, <1>2, <1>3, <1>4 DEF Store!Dependencies, Store!Id

(* Only a new record changes what is current. *)
LEMMA SameRecord ==
  ASSUME UNCHANGED record
  PROVE  \A f, e, at : NoticeIsCurrent(f, e, at)' <=> NoticeIsCurrent(f, e, at)
BY DEF NoticeIsCurrent

(* A runner that is over has nothing to answer for. *)
LEMMA IdleSound ==
  ASSUME NEW r \in Runners, pc[r] \in {"idle", "begun"}, outbox[r] = {}
  PROVE  Sound(r)
BY DEF Sound

(* The step of the one active runner is judged by that runner alone. *)
LEMMA OwnStep ==
  ASSUME SentInv, NEW r \in Runners, \A q \in Runners \ {r} : ~Active(q),
         \A q \in Runners \ {r} : pc'[q] = pc[q] /\ outbox'[q] = outbox[q],
         Sound(r)'
  PROVE  \A q \in Runners : Sound(q)'
<1> SUFFICES ASSUME NEW q \in Runners \ {r} PROVE Sound(q)'
  OBVIOUS
<1>1. pc'[q] = "idle" /\ outbox'[q] = {}
  BY DEF SentInv, Sound, Active
<1> QED
  BY <1>1 DEF Sound

LEMMA StopAlone ==
  ASSUME Alone, NEW r \in Runners, Store!Stop(r), UNCHANGED now
  PROVE  Alone'
BY DEF Alone, Active, Store!Stop

(* One cycle at a time, always at the present. *)
LEMMA AloneStep == CycleInv /\ Alone /\ [Next]_vars => Alone'
<1> SUFFICES ASSUME CycleInv, Alone, [Next]_vars PROVE Alone'
  OBVIOUS
<1> USE DEF journalVars, Store!world, Store!journal, Store!runner
<1>1. ASSUME UNCHANGED journalVars PROVE Alone'
  BY <1>1 DEF Alone, Active
<1>2. ASSUME NEW r \in Runners, Begin(r) PROVE Alone'
  <2>1. now \in Nat /\ \A q \in Runners : clock[q] \in Nat
    BY CycleAssumption DEF CycleInv, Clocks
  <2>2. \A q \in Runners : pc[q] = "idle"
    BY <1>2, <2>1 DEF Begin, Alone, Active
  <2>3. \A q \in Runners : clock'[q] = IF q = r THEN now ELSE clock[q]
    BY <1>2 DEF Begin, Store!Begin, CycleInv, Clocks
  <2> QED
    BY <1>2, <2>1, <2>2, <2>3 DEF Begin, Store!Begin, Alone, Active
<1>3. ASSUME NEW r \in Runners, Open(r) PROVE Alone'
  BY <1>3 DEF Open, Store!Open, Alone, Active
<1>4. ASSUME NEW r \in Runners, NEW e \in work[r].offers, Offer(r, e) PROVE Alone'
  BY <1>1, <1>4 DEF Offer, Store!Offer, Alone, Active
<1>5. ASSUME NEW r \in Runners, NEW e \in work[r].offers, OfferFull(r, e) PROVE Alone'
  BY <1>5, StopAlone DEF OfferFull, Store!OfferFull
<1>6. ASSUME NEW r \in Runners, Reconcile(r) PROVE Alone'
  BY <1>6 DEF Reconcile, Store!Reconcile, Alone, Active
<1>7. ASSUME NEW r \in Runners, Due(r) PROVE Alone'
  BY <1>7 DEF Due, Store!Due, Alone, Active
<1>8. ASSUME NEW r \in Runners, Ended(r) PROVE Alone'
  BY <1>8, StopAlone DEF Ended, Store!Finish, Store!Crash
<1>9. ASSUME NEW m \in queue, HostDeliver(m) PROVE Alone'
  BY <1>9 DEF HostDeliver, Store!HostDeliver, Alone, Active
<1>10. ASSUME Protocol PROVE Alone'
  <2>1. ASSUME NEW r \in Runners, NEW m \in outbox[r], Store!Send(r, m) \/ Store!LeavePending(r, m)
        PROVE  Alone'
    BY <2>1 DEF Store!Send, Store!LeavePending, Alone, Active
  <2>2. ASSUME NEW m \in queue, Store!HostRefuse(m) PROVE Alone'
    BY <2>2 DEF Store!HostRefuse, Alone, Active
  <2>3. ASSUME NEW r \in Runners, Store!SendFailed(r) \/ Store!Confirm(r) PROVE Alone'
    BY <2>3 DEF Store!SendFailed, Store!Confirm, Alone, Active
  <2>4. ASSUME Store!Tick PROVE Alone'
    <3>1. now \in Nat /\ \A q \in Runners : clock[q] \in Nat
      BY CycleAssumption DEF CycleInv, Clocks
    <3>2. \A q \in Runners : pc[q] = "idle"
      BY <2>4, <3>1 DEF Store!Tick, Alone, Active
    <3> QED
      BY <2>4, <3>1, <3>2 DEF Store!Tick, Alone, Active
  <2> QED
    BY <1>10, <2>1, <2>2, <2>3, <2>4 DEF Protocol
<1>11. ASSUME NEW r \in Runners, Deferred(r) \/ WriteRecord(r) PROVE UNCHANGED journalVars
  BY <1>11 DEF Deferred, WriteRecord
<1>12. ASSUME NEW r \in Runners, NEW f \in Flights,
              NotDue(r, f) \/ Poll(r, f) \/ PollGone(r, f) \/ PollFailed(r, f)
       PROVE  UNCHANGED journalVars
  BY <1>12 DEF NotDue, Poll, PollGone, PollFailed
<1>13. ASSUME NEW f \in Flights, Change(f) PROVE UNCHANGED journalVars
  BY <1>13 DEF Change
<1>14. (UNCHANGED vars) => UNCHANGED journalVars
  BY DEF vars
<1> QED
  BY <1>1, <1>2, <1>3, <1>4, <1>5, <1>6, <1>7, <1>8, <1>9, <1>10, <1>11, <1>12, <1>13, <1>14
     DEF Next

-----------------------------------------------------------------------------
(* Dropping rows makes no flight noisy. *)
LEMMA QuietKept ==
  ASSUME NEW r \in Runners, NEW f, Quiet(r, f), clock'[r] = clock[r],
         \A row \in notices' : row.flight = f => row \in notices
  PROVE  Quiet(r, f)'
BY DEF Quiet, Store!Lapsed, Store!Backoff

(* A flight that is not forced has nothing to send now. *)
LEMMA NotForcedQuiet ==
  ASSUME CycleInv, NEW r \in Runners, NEW f, f \notin Forced(notices, clock[r])
  PROVE  Quiet(r, f)
<1> SUFFICES ASSUME NEW row \in notices, row.flight = f, ~row.confirmed,
                    ~Store!Lapsed(row, clock[r]), ~Store!Backoff(row, clock[r])
             PROVE  FALSE
  BY DEF Quiet
<1>1. f \in Store!Dependencies(row)
  BY RowFacts
<1> QED
  BY <1>1 DEF Forced, Store!RetryDueIds

(* The steps of one flight's turn keep the books of the cycle. *)
LEMMA TurnStep ==
  ASSUME CycleInv, SentInv, NEW r \in Runners, NEW f \in Flights,
         NotDue(r, f) \/ Poll(r, f) \/ PollGone(r, f) \/ PollFailed(r, f)
  PROVE  Sound(r)'
<1>1. pc[r] = "collect" /\ Through(r) /\ outbox[r] = {}
  BY DEF SentInv, Sound, NotDue, Poll, PollGone, PollFailed, Turn
<1>2. UNCHANGED journalVars
  BY DEF NotDue, Poll, PollGone, PollFailed
<1>3. \A g : Quiet(r, g) => Quiet(r, g)'
  BY <1>2, QuietKept DEF journalVars
<1>4. f \in work'[r].todo \cup Answered(r)' \cup work'[r].excluded \/ Quiet(r, f)
  BY NotForcedQuiet DEF CycleInv, NotDue, Poll, PollGone, PollFailed, Answered, Work
<1>5. \A g : g # f /\ g \in work[r].todo \cup Answered(r) \cup work[r].excluded =>
             g \in work'[r].todo \cup Answered(r)' \cup work'[r].excluded
  BY DEF CycleInv, NotDue, Poll, PollGone, PollFailed, Answered, Work
<1>6. work'[r].flight # None => work'[r].flight \in Answered(r)'
  BY DEF CycleInv, NotDue, Poll, PollGone, PollFailed, Turn, Answered, Work
<1>7. Through(r)'
  BY <1>1, <1>2, <1>3, <1>4, <1>5, <1>6 DEF Through, journalVars
<1> QED
  BY <1>1, <1>2, <1>7 DEF Sound, journalVars

(* An offer is about the flight just polled. *)
LEMMA OfferStep ==
  ASSUME CycleInv, SentInv, NEW r \in Runners, NEW e \in work[r].offers, Offer(r, e)
  PROVE  Sound(r)'
<1> DEFINE f == work[r].flight
<1>1. pc[r] = "collect" /\ Through(r) /\ outbox[r] = {} /\ f # None
  BY DEF SentInv, Sound, Offer
<1>2. UNCHANGED <<pc, clock, seen, outbox>>
  BY DEF Offer, Store!Offer, Store!runner, journalVars
<1>3. \A row \in notices' : row.flight # f => row \in notices
  BY DEF Offer, Store!Offer, Store!Offered, Store!NewRow, journalVars
<1>4. work'[r].todo = work[r].todo /\ work'[r].excluded = work[r].excluded
      /\ work'[r].flight = work[r].flight /\ Answered(r)' = Answered(r)
  BY DEF Offer, CycleInv, Work, Answered
<1>5. \A g : g # f /\ Quiet(r, g) => Quiet(r, g)'
  BY <1>2, <1>3, QuietKept
<1>6. f \in Answered(r)
  BY <1>1 DEF Through
<1>7. Through(r)'
  BY <1>1, <1>2, <1>4, <1>5, <1>6 DEF Through
<1> QED
  BY <1>1, <1>2, <1>7 DEF Sound

(* Reconciling leaves pending only what the new record upholds. *)
LEMMA ReconcileStep ==
  ASSUME CycleInv, SentInv, NEW r \in Runners, Reconcile(r)
  PROVE  Sound(r)'
<1> DEFINE upheld == {<<row.flight, row.event>> : row \in {row \in notices :
                        NoticeIsCurrent(row.flight, row.event, clock[r])}}
<1>1. pc[r] = "collect" /\ Through(r) /\ outbox[r] = {}
  BY DEF SentInv, Sound, Reconcile, Store!Reconcile
<1>2. UNCHANGED <<clock, seen, outbox, work, record>> /\ pc'[r] = "settle"
  BY DEF Reconcile, Store!Reconcile, SentInv, Alone
<1>3. notices' = Store!Reconciled(notices, work[r].verified, work[r].phases, upheld)
  BY DEF Reconcile, Store!Reconcile
<1>4. notices' \subseteq notices
  BY <1>3 DEF Store!Reconciled
<1>5. Through(r)'
  <2>1. \A g : Quiet(r, g) => Quiet(r, g)'
    BY <1>2, <1>4, QuietKept
  <2> QED
    BY <1>1, <1>2, <2>1 DEF Through, Answered
<1>6. ASSUME NEW row \in notices', row.flight \in work[r].verified, ~row.confirmed
      PROVE  NoticeIsCurrent(row.flight, row.event, clock[r])
  <2>1. <<row.flight, row.event>> \in upheld
    BY <1>3, <1>4, <1>6, RowFacts DEF Store!Reconciled
  <2> QED
    BY <2>1
<1>7. Upheld(r)'
  BY <1>2, <1>6, SameRecord DEF Upheld, Reconcile
<1> QED
  BY <1>1, <1>2, <1>5, <1>7 DEF Sound

(* What is taken from the store was polled in this cycle and holds on record. *)
LEMMA DueStep ==
  ASSUME CycleInv, SentInv, NEW r \in Runners, Due(r)
  PROVE  Sound(r)'
<1> DEFINE ready == Store!DueReady(notices, seen[r], work[r].excluded, work[r].removed, clock[r])
<1>1. pc[r] = "settle" /\ Through(r) /\ Upheld(r)
  BY DEF SentInv, Sound, Due, Store!Due
<1>2. UNCHANGED <<clock, seen, work, record>> /\ pc'[r] = "deliver"
      /\ outbox'[r] = Store!Messages(ready)
  BY DEF Due, Store!Due, HeldBack, SentInv, Alone
<1>3. ASSUME NEW row \in ready PROVE Holds(r, Store!Id(row))
  <2>1. row \in notices
    BY DEF Store!DueReady, Store!DueKept
  <2>2. /\ row.flight \in seen[r] /\ ~row.confirmed /\ row.flight \notin work[r].excluded
        /\ ~Store!Lapsed(row, clock[r]) /\ ~Store!Backoff(row, clock[r])
        /\ row.flight \in work[r].removed => row.event.reason = "removed_upstream"
    BY <2>1, RowFacts DEF Store!DueReady, Store!DueKept
  <2>3. row.flight \in Answered(r)
    BY <1>1, <2>1, <2>2 DEF Through, Upheld, Quiet
  <2>4. CASE row.flight \in work[r].removed
    BY <2>1, <2>2, <2>4, RowFacts DEF Holds
  <2>5. CASE row.flight \in work[r].verified
    <3>1. NoticeIsCurrent(row.flight, row.event, clock[r])
      BY <1>1, <2>1, <2>2, <2>5 DEF Upheld
    <3> QED
      BY <2>1, <2>5, <3>1, RowFacts DEF Holds
  <2> QED
    BY <2>3, <2>4, <2>5 DEF Answered
<1> HIDE DEF ready
<1>4. \A m \in outbox'[r] : \A id \in m : Holds(r, id)
  BY <1>2, <1>3 DEF Store!Messages
<1>5. \A id : Holds(r, id) => Holds(r, id)'
  BY <1>2, SameRecord DEF Holds
<1> QED
  BY <1>2, <1>4, <1>5 DEF Sound

(* Every step keeps what is in hand verified and current. *)
LEMMA SoundStep == CycleInv /\ SentInv /\ [Next]_vars => \A r \in Runners : Sound(r)'
<1> SUFFICES ASSUME CycleInv, SentInv, [Next]_vars PROVE \A r \in Runners : Sound(r)'
  OBVIOUS
<1> USE DEF journalVars, Store!world, Store!journal, Store!runner
<1>0. \A r \in Runners : Active(r) => \A q \in Runners \ {r} : ~Active(q)
  BY OthersIdle DEF SentInv, Active
<1>1. ASSUME NEW q \in Runners, UNCHANGED <<record, work, notices, clock[q], seen[q], outbox[q]>>,
             pc'[q] = pc[q] \/ (pc[q] \in {"deliver", "wait", "confirm"}
                                /\ pc'[q] \in {"deliver", "wait", "confirm"})
      PROVE  Sound(q)'
  <2>1. \A g : Quiet(q, g) => Quiet(q, g)'
    BY <1>1, QuietKept
  <2>2. Through(q) => Through(q)'
    BY <1>1, <2>1 DEF Through, Answered
  <2>3. Upheld(q) => Upheld(q)'
    BY <1>1, SameRecord DEF Upheld
  <2>4. \A id : Holds(q, id) => Holds(q, id)'
    BY <1>1, SameRecord DEF Holds
  <2> QED
    BY <1>1, <2>2, <2>3, <2>4 DEF SentInv, Sound
<1>2. ASSUME NEW r \in Runners, Active(r), Sound(r)',
             \A q \in Runners \ {r} : pc'[q] = pc[q] /\ outbox'[q] = outbox[q]
      PROVE  \A q \in Runners : Sound(q)'
  BY <1>0, <1>2, OwnStep
<1>3. ASSUME NEW f \in Flights, Change(f) PROVE \A r \in Runners : Sound(r)'
  BY <1>1, <1>3 DEF Change
<1>4. ASSUME NEW r \in Runners, Begin(r) PROVE \A q \in Runners : Sound(q)'
  <2>1. outbox[r] = {} /\ UNCHANGED outbox /\ pc'[r] = "begun"
    BY <1>4 DEF Begin, Store!Begin, SentInv, Alone, Sound
  <2>2. \A q \in Runners \ {r} : UNCHANGED <<pc[q], clock[q], seen[q]>>
    BY <1>4 DEF Begin, Store!Begin, SentInv, Alone
  <2>3. Sound(r)'
    BY <2>1 DEF Sound
  <2> QED
    BY <1>1, <1>4, <2>1, <2>2, <2>3 DEF Begin, Store!Begin
<1>5. ASSUME NEW r \in Runners, Open(r) PROVE \A q \in Runners : Sound(q)'
  <2>1. outbox'[r] = {} /\ pc'[r] = "collect" /\ UNCHANGED seen
    BY <1>5 DEF Open, Store!Open, SentInv, Alone, Sound
  <2>2. work'[r].todo = seen[r] /\ work'[r].flight = None
    BY <1>5 DEF Open, IdleWork, CycleInv
  <2>3. Sound(r)'
    BY <2>1, <2>2 DEF Sound, Through
  <2> QED
    BY <1>2, <1>5, <2>3 DEF Open, Store!Open, Active, SentInv, Alone
<1>6. ASSUME NEW r \in Runners, Deferred(r) PROVE \A q \in Runners : Sound(q)'
  <2>1. pc[r] = "collect" /\ Through(r) /\ outbox[r] = {} /\ UNCHANGED journalVars
    BY <1>6 DEF Deferred, SentInv, Sound
  <2>2. \A g : Quiet(r, g) => Quiet(r, g)'
    BY <2>1, QuietKept
  <2>3. work'[r] = [work[r] EXCEPT !.todo = {}, !.excluded = @ \cup work[r].todo]
    BY <1>6 DEF Deferred, CycleInv
  <2>4. Through(r)'
    BY <2>1, <2>2, <2>3 DEF Through, Answered, CycleInv, Work
  <2>5. Sound(r)'
    BY <2>1, <2>4 DEF Sound
  <2> QED
    BY <1>2, <2>1, <2>5 DEF Active
<1>7. ASSUME NEW r \in Runners, NEW f \in Flights,
             NotDue(r, f) \/ Poll(r, f) \/ PollGone(r, f) \/ PollFailed(r, f)
      PROVE  \A q \in Runners : Sound(q)'
  <2>1. Sound(r)'
    BY <1>7, TurnStep
  <2> QED
    BY <1>2, <1>7, <2>1 DEF NotDue, Poll, PollGone, PollFailed, Turn, Active
<1>8. ASSUME NEW r \in Runners, NEW e \in work[r].offers, Offer(r, e)
      PROVE  \A q \in Runners : Sound(q)'
  <2>1. Sound(r)'
    BY <1>8, OfferStep
  <2> QED
    BY <1>2, <1>8, <2>1 DEF Offer, Store!Offer, Active
<1>9. ASSUME NEW r \in Runners, Store!Stop(r), Active(r) PROVE \A q \in Runners : Sound(q)'
  <2>1. pc'[r] = "idle" /\ outbox'[r] = {}
    BY <1>9 DEF Store!Stop, SentInv, Alone
  <2>2. Sound(r)'
    BY <2>1 DEF Sound
  <2> QED
    BY <1>2, <1>9, <2>2 DEF Store!Stop, SentInv, Alone
<1>10. ASSUME NEW r \in Runners, NEW e \in work[r].offers, OfferFull(r, e)
       PROVE  \A q \in Runners : Sound(q)'
  BY <1>9, <1>10 DEF OfferFull, Store!OfferFull, Active
<1>11. ASSUME NEW r \in Runners, WriteRecord(r) PROVE \A q \in Runners : Sound(q)'
  <2>1. pc[r] = "collect" /\ Through(r) /\ outbox[r] = {} /\ UNCHANGED journalVars
    BY <1>11 DEF WriteRecord, SentInv, Sound
  <2>2. \A g : Quiet(r, g) => Quiet(r, g)'
    BY <2>1, QuietKept
  <2>3. work'[r] = [work[r] EXCEPT !.flight = None, !.fresh = None, !.offers = {}]
    BY <1>11 DEF WriteRecord, CycleInv
  <2>4. Through(r)'
    BY <2>1, <2>2, <2>3 DEF Through, Answered, CycleInv, Work
  <2>5. Sound(r)'
    BY <2>1, <2>4 DEF Sound
  <2> QED
    BY <1>2, <2>1, <2>5 DEF Active
<1>12. ASSUME NEW r \in Runners, Reconcile(r) PROVE \A q \in Runners : Sound(q)'
  <2>1. Sound(r)'
    BY <1>12, ReconcileStep
  <2> QED
    BY <1>2, <1>12, <2>1 DEF Reconcile, Store!Reconcile, Active, SentInv, Alone
<1>13. ASSUME NEW r \in Runners, Due(r) PROVE \A q \in Runners : Sound(q)'
  <2>1. Sound(r)'
    BY <1>13, DueStep
  <2> QED
    BY <1>2, <1>13, <2>1 DEF Due, Store!Due, Active, SentInv, Alone
<1>14. ASSUME NEW r \in Runners, Ended(r) PROVE \A q \in Runners : Sound(q)'
  BY <1>9, <1>14 DEF Ended, Store!Finish, Store!Crash, Active
<1>15. ASSUME NEW m \in queue, HostDeliver(m) PROVE \A q \in Runners : Sound(q)'
  <2>1. \A q \in Runners : pc'[q] = pc[q] \/ (pc[q] = "wait" /\ pc'[q] = "confirm")
    BY <1>15 DEF HostDeliver, Store!HostDeliver
  <2> QED
    BY <1>1, <1>15, <2>1 DEF HostDeliver, Store!HostDeliver
<1>16. ASSUME Protocol PROVE \A q \in Runners : Sound(q)'
  <2>0. UNCHANGED <<record, work>>
    BY <1>16 DEF Protocol
  <2>1. ASSUME NEW r \in Runners, NEW m \in outbox[r], Store!Send(r, m) \/ Store!LeavePending(r, m)
        PROVE  \A q \in Runners : Sound(q)'
    <3>1. outbox'[r] \subseteq outbox[r] /\ pc[r] = "deliver" /\ pc'[r] \in {"deliver", "wait"}
          /\ UNCHANGED clock
      BY <2>1 DEF Store!Send, Store!LeavePending, SentInv, Alone
    <3>2. \A id : Holds(r, id) => Holds(r, id)'
      BY <2>0, <3>1, SameRecord DEF Holds
    <3>3. Sound(r)'
      BY <3>1, <3>2 DEF SentInv, Sound
    <3> QED
      BY <1>2, <2>1, <3>1, <3>3 DEF Store!Send, Store!LeavePending, SentInv, Alone, Active
  <2>2. ASSUME NEW m \in queue, Store!HostRefuse(m) PROVE \A q \in Runners : Sound(q)'
    BY <1>1, <2>0, <2>2 DEF Store!HostRefuse
  <2>3. ASSUME NEW r \in Runners, Store!SendFailed(r) PROVE \A q \in Runners : Sound(q)'
    BY <1>1, <2>0, <2>3 DEF Store!SendFailed, SentInv, Alone
  <2>4. ASSUME NEW r \in Runners, Store!Confirm(r) PROVE \A q \in Runners : Sound(q)'
    <3>1. pc[r] = "confirm" /\ pc'[r] = "deliver" /\ UNCHANGED <<clock, outbox>>
      BY <2>4 DEF Store!Confirm, SentInv, Alone
    <3>2. \A id : Holds(r, id) => Holds(r, id)'
      BY <2>0, <3>1, SameRecord DEF Holds
    <3>3. Sound(r)'
      BY <3>1, <3>2 DEF SentInv, Sound
    <3> QED
      BY <1>2, <2>4, <3>1, <3>3 DEF Store!Confirm, SentInv, Alone, Active
  <2>5. ASSUME Store!Tick PROVE \A q \in Runners : Sound(q)'
    BY <1>1, <2>0, <2>5 DEF Store!Tick
  <2> QED
    BY <1>16, <2>1, <2>2, <2>3, <2>4, <2>5 DEF Protocol
<1>17. CASE UNCHANGED vars
  BY <1>1, <1>17 DEF vars
<1> QED
  BY <1>3, <1>4, <1>5, <1>6, <1>7, <1>8, <1>10, <1>11, <1>12, <1>13, <1>14, <1>15, <1>16, <1>17
     DEF Next

(* A failed or deferred poll cannot surface its queued notice: whatever is about
   to be sent was polled in this very cycle and holds on record, for any number
   of flights and whatever byAir reports and the host does. *)
THEOREM SentIsCurrent == Spec => []SentCurrent
<1>1. Init => CycleInv /\ SentInv
  <2>1. Init => \A r \in Runners : Sound(r)
    BY DEF Init, Store!Init, Sound
  <2>2. Init => Alone
    BY DEF Init, Store!Init, Alone, Active
  <2> QED
    BY <2>1, <2>2, InitInv DEF SentInv
<1>2. CycleInv /\ SentInv /\ [Next]_vars => CycleInv' /\ SentInv'
  BY InvStep, AloneStep, SoundStep DEF SentInv
<1>3. SentInv => SentCurrent
  BY DEF SentInv, Sound, Holds, SentCurrent
<1> QED
  BY <1>1, <1>2, <1>3, PTL DEF Spec
-----------------------------------------------------------------------------
(* No gate move and no all-clear is lost.  The rows of one flight: *)
Of(f, reason) == {row \in notices : row.flight = f /\ row.event.reason = reason}
Unsent(f, reason) == {row \in Of(f, reason) : ~row.confirmed}
Sent(f, reasons) ==
  {row \in notices : row.flight = f /\ row.event.reason \in reasons /\ row.confirmed}
Latest(f, reasons) ==
  {row \in Sent(f, reasons) : \A other \in Sent(f, reasons) : other.seq <= row.seq}
GateReasons == {"gate_change", "gate_assignment"}

(* Every row has a number of its own. *)
Numbered == \A a \in notices : a.seq <= sequence /\ (\A b \in notices : a.seq = b.seq => a = b)

(* A row was offered against the record of its time: once it is confirmed the
   record has moved on, so nothing is offered under its key again. *)
Seen(row) == row.event.reason # "removed_upstream"
Timed ==
  /\ \A f \in Flights : record[f].polled = 0 \/ \E q \in Runners : record[f].polled <= clock[q]
  /\ \A row \in notices : Seen(row) =>
       /\ row.prior <= record[row.flight].polled
       /\ row.confirmed => /\ row.prior < record[row.flight].polled
                           /\ record[row.flight].snap # None

(* A cancelled flight stays cancelled. *)
Gone(snap) == snap # None /\ snap.status = "cancelled"
Final == \A f \in Flights : Gone(record[f].snap) => truth[f].status = "cancelled"

(* At most one gate change of a flight is unsent, and there is one readout. *)
Single ==
  \A f \in Flights : /\ \A a, b \in Unsent(f, "gate_change") : a = b
                     /\ \A a, b \in Of(f, "gate_assignment") : a = b

(* What the cycle has in hand. *)
After == {"settle", "deliver", "wait", "confirm"}
Turning(r, f) == pc[r] = "collect" /\ work[r].flight = f /\ work[r].fresh # None
Written(r, f) == pc[r] = "collect" /\ work[r].flight # f /\ f \in work[r].verified
Turns(r) ==
  LET w == work[r] IN
  /\ pc[r] \in {"idle", "begun"} => w = IdleWork
  /\ pc[r] # "idle" => seen[r] = Flights
  /\ pc[r] = "begun" => \A f \in Flights : record[f].polled < clock[r]
  /\ pc[r] = "collect" =>
       /\ \A f \in Flights : f \in w.todo \/ f = w.flight => record[f].polled < clock[r]
       /\ w.todo \cap w.verified = {} /\ w.flight \notin w.todo
       /\ w.flight # None => (w.flight \in w.verified <=> w.fresh # None)
       /\ w.flight = None => w.fresh = None
       /\ w.fresh = None => w.offers \subseteq {Removed}
       /\ w.flight # None /\ Gone(w.fresh) => truth[w.flight].status = "cancelled"
       /\ \A row \in notices : ~row.confirmed => ~Store!Lapsed(row, clock[r])
  /\ pc[r] \in After => Upheld(r)
  /\ pc[r] \in {"wait", "confirm"} => \A id \in current[r] : Holds(r, id)
  /\ \A row \in notices : Seen(row) /\ row.flight \in w.verified /\ row.flight # w.flight =>
       row.prior < record[row.flight].polled

(* What is offered is what byAir just answered, and a readout is offered once. *)
Offers(r) ==
  \A f \in Flights : Turning(r, f) =>
    \A e \in work[r].offers :
      /\ e.reason = "inbound_delay_retracted" => e.new = work[r].fresh.inbound
      /\ e.reason = "gate_change" => e.to = work[r].fresh.gate
      /\ e.reason = "gate_assignment" =>
           e.gate = work[r].fresh.gate /\ \A row \in Of(f, "gate_assignment") : ~row.confirmed

(* A readout names the gate on record. *)
ReadOut(r, f) == <<f, "gate_assignment">> \in work[r].phases
Readouts(r) ==
  \A f \in Flights :
    /\ ReadOut(r, f) =>
         /\ f \in work[r].verified
         /\ \A row \in Of(f, "gate_assignment") :
              row.event.gate = IF work[r].flight = f THEN work[r].fresh.gate
                               ELSE record[f].snap.gate
    /\ pc[r] \in After /\ f \in work[r].verified /\ Unsent(f, "gate_assignment") # {} =>
         ReadOut(r, f)

(* The estimate: an operator who has one is owed the all-clear. *)
Warned(f) ==
  /\ "inbound" \notin dropped[f]
  /\ \E row \in Latest(f, InboundReasons) : row.event.reason = "inbound_delay_predicted"
Clearing(f, n) == \E row \in Unsent(f, "inbound_delay_retracted") : row.event.new = n
InboundKept(f) ==
  /\ \A row \in Unsent(f, "inbound_delay_retracted") :
       \A done \in Sent(f, {"inbound_delay_predicted"}) : done.seq < row.seq
  /\ Warned(f) /\ Afloat(f) =>
       Delayed(record[f].snap) \/ Unsent(f, "inbound_delay_retracted") # {}
InboundTurn(r, f) ==
  Warned(f) =>
    /\ Turning(r, f) /\ ~Gone(work[r].fresh) =>
         \/ Delayed(work[r].fresh) \/ Clearing(f, work[r].fresh.inbound)
         \/ \E e \in work[r].offers : e.reason = "inbound_delay_retracted"
    /\ Written(r, f) /\ Afloat(f) =>
         Delayed(record[f].snap) \/ Clearing(f, record[f].snap.inbound)

(* The gate: an unsent change starts where the operator was left, and is the
   newest word there is. *)
Moving(f, g) == \E row \in Unsent(f, "gate_change") : row.event.to = g
Knows(f, g) == ToldGate(f) \subseteq {g, NoGate}
Alive(f) == truth[f].status # "cancelled"
Followed(f) == "gate" \notin dropped[f]
GateKept(f) ==
  Followed(f) =>
    /\ Alive(f) => \A row \in Unsent(f, "gate_change") : Knows(f, row.event.from)
    /\ \A row \in Unsent(f, "gate_change") : \A done \in Sent(f, GateReasons) : done.seq < row.seq
    /\ Afloat(f) => Knows(f, record[f].snap.gate) \/ Unsent(f, "gate_change") # {}
GateTurn(r, f) ==
  Followed(f) =>
    /\ Turning(r, f) =>
         /\ Alive(f) => \A e \in work[r].offers : e.reason = "gate_change" => Knows(f, e.from)
         /\ ~Gone(work[r].fresh) =>
              \/ Knows(f, work[r].fresh.gate) \/ Moving(f, work[r].fresh.gate)
              \/ \E e \in work[r].offers : e.reason = "gate_change"
    /\ Written(r, f) /\ Afloat(f) =>
         Knows(f, record[f].snap.gate) \/ Moving(f, record[f].snap.gate)
    /\ Turning(r, f) /\ (\E e \in work[r].offers : e.reason = "gate_assignment") =>
         \A e \in work[r].offers : e.reason # "gate_change"
    /\ ReadOut(r, f) \/ (Turning(r, f) /\ \E e \in work[r].offers : e.reason = "gate_assignment")
         => Of(f, "gate_change") = {}
    /\ ReadOut(r, f) /\ Turning(r, f) => \A e \in work[r].offers : e.reason # "gate_change"

Disk == /\ Numbered /\ Timed /\ Final /\ Single
        /\ \A f \in Flights : InboundKept(f) /\ GateKept(f)
Hand(r) == /\ Turns(r) /\ Offers(r) /\ Readouts(r)
           /\ \A f \in Flights : InboundTurn(r, f) /\ GateTurn(r, f)
NewsInv == Disk /\ \A r \in Runners : Hand(r)

-----------------------------------------------------------------------------
(* What an event says, by its reason. *)
LEMMA EventFacts ==
  ASSUME NEW e \in Events
  PROVE  /\ e.reason = "gate_change" =>
              /\ e.from \in Gates /\ e.to \in GateValues /\ e.side = "dep"
              /\ e = GateChange(e.from, e.to)
         /\ e.reason = "gate_assignment" => e = Readout(e.gate) /\ e.gate \in Gates
         /\ e.reason = "inbound_delay_predicted" => e = Predicted(e.minutes)
         /\ e.reason = "inbound_delay_retracted" => e = Retracted(e.prev, e.new)
BY DEF Events, Cancelled, Boarding, Removed, GateChange, Readout, Delay, Predicted, Retracted

(* The gate a notice leaves its reader with. *)
Word(row) == IF row.event.reason = "gate_change" THEN row.event.to ELSE row.event.gate
LEMMA KnowsRows ==
  ASSUME NEW f, NEW g
  PROVE  Knows(f, g) <=> \A row \in Latest(f, GateReasons) : Word(row) \in {g, NoGate}
<1> DEFINE S == {row \in notices : row.flight = f /\ row.event.reason \in GateReasons /\ row.confirmed}
<1>1. LastConfirmed(notices, f, GateReasons) = {row.event : row \in Latest(f, GateReasons)}
  BY DEF LastConfirmed, Latest, Sent
<1>2. ToldGate(f) = {IF e.reason = "gate_change" THEN e.to ELSE e.gate :
                       e \in LastConfirmed(notices, f, GateReasons)}
  BY DEF ToldGate, GateReasons
<1>3. ToldGate(f) = {Word(row) : row \in Latest(f, GateReasons)}
  BY <1>1, <1>2 DEF Word
<1> QED
  BY <1>3 DEF Knows

(* Only receipts decide what the operator was told. *)
LEMMA SameReceipts ==
  ASSUME NEW rows, NEW other, NEW f, NEW reasons,
         {row \in rows : row.flight = f /\ row.event.reason \in reasons /\ row.confirmed}
           = {row \in other : row.flight = f /\ row.event.reason \in reasons /\ row.confirmed}
  PROVE  LastConfirmed(rows, f, reasons) = LastConfirmed(other, f, reasons)
BY DEF LastConfirmed

LEMMA SameWords ==
  ASSUME NEW f, Sent(f, GateReasons)' = Sent(f, GateReasons)
  PROVE  \A g : Knows(f, g)' <=> Knows(f, g)
<1>1. LastConfirmed(notices', f, GateReasons) = LastConfirmed(notices, f, GateReasons)
  <2>1. {row \in notices' : row.flight = f /\ row.event.reason \in GateReasons /\ row.confirmed}
          = {row \in notices : row.flight = f /\ row.event.reason \in GateReasons /\ row.confirmed}
    BY DEF Sent
  <2> QED
    BY <2>1, SameReceipts
<1>2. ToldGate(f)' = ToldGate(f)
  BY <1>1 DEF ToldGate, GateReasons
<1> QED
  BY <1>2 DEF Knows

LEMMA SameWarning ==
  ASSUME NEW f, Sent(f, InboundReasons)' = Sent(f, InboundReasons),
         dropped[f] \subseteq dropped'[f]
  PROVE  Warned(f)' => Warned(f)
BY DEF Warned, Latest

(* A row that is kept, but for the time of its next attempt. *)
Same(new, row) ==
  /\ new.seq = row.seq /\ new.flight = row.flight /\ new.event = row.event
  /\ new.prior = row.prior /\ new.expires = row.expires /\ new.confirmed = row.confirmed
  /\ row.confirmed => new = row

(* Opening, reconciling and taking what is due only drop rows. *)
Thins ==
  /\ \A row \in notices : row.confirmed => row \in notices'
  /\ \A new \in notices' : \E row \in notices : Same(new, row)
  /\ \A a, b \in notices' : a.seq = b.seq => a = b
  /\ \A f \in Flights : dropped[f] \subseteq dropped'[f]
  /\ UNCHANGED <<record, truth, sequence, clock>>
StillUnsent(f, reason, topic) ==
  Unsent(f, reason) # {} => Unsent(f, reason)' # {} \/ topic \in dropped'[f]

LEMMA ThinnedRows ==
  ASSUME Thins, NEW f
  PROVE  /\ \A reasons : Sent(f, reasons)' = Sent(f, reasons)
         /\ \A reason : \A new \in Of(f, reason)' : \E row \in Of(f, reason) : Same(new, row)
         /\ \A reason : \A new \in Unsent(f, reason)' : \E row \in Unsent(f, reason) : Same(new, row)
<1>1. ASSUME NEW reasons PROVE Sent(f, reasons)' = Sent(f, reasons)
  <2>1. \A row \in notices' : row.confirmed => row \in notices
    BY DEF Thins, Same
  <2> QED
    BY <2>1 DEF Thins, Sent
<1>2. \A reason : \A new \in Of(f, reason)' : \E row \in Of(f, reason) : Same(new, row)
  BY DEF Thins, Of, Same
<1>3. \A reason : \A new \in Unsent(f, reason)' : \E row \in Unsent(f, reason) : Same(new, row)
  BY DEF Thins, Unsent, Of, Same
<1> QED
  BY <1>1, <1>2, <1>3

LEMMA ThinnedDisk ==
  ASSUME Disk, Thins,
         \A f \in Flights :
           /\ \/ StillUnsent(f, "gate_change", "gate")
              \/ Followed(f)' /\ Afloat(f) =>
                   Knows(f, record[f].snap.gate) \/ Unsent(f, "gate_change")' # {}
           /\ \/ StillUnsent(f, "inbound_delay_retracted", "inbound")
              \/ Warned(f)' /\ Afloat(f) =>
                   Delayed(record[f].snap) \/ Unsent(f, "inbound_delay_retracted")' # {}
  PROVE  Disk'
<1>1. Numbered'
  BY DEF Disk, Thins, Numbered, Same
<1>2. Timed'
  BY DEF Disk, Thins, Timed, Same, Seen
<1>3. Final'
  BY DEF Disk, Thins, Final, Gone
<1>4. Single'
  <2> SUFFICES ASSUME NEW f \in Flights
               PROVE  /\ \A a, b \in Unsent(f, "gate_change")' : a = b
                      /\ \A a, b \in Of(f, "gate_assignment")' : a = b
    BY DEF Single
  <2>1. ASSUME NEW a \in Unsent(f, "gate_change")', NEW b \in Unsent(f, "gate_change")'
        PROVE  a = b
    <3>1. PICK x \in Unsent(f, "gate_change") : Same(a, x)
      BY <2>1, ThinnedRows
    <3>2. PICK y \in Unsent(f, "gate_change") : Same(b, y)
      BY <2>1, ThinnedRows
    <3>3. x = y
      BY DEF Disk, Single
    <3> QED
      BY <2>1, <3>1, <3>2, <3>3 DEF Same, Thins, Unsent, Of
  <2>2. ASSUME NEW a \in Of(f, "gate_assignment")', NEW b \in Of(f, "gate_assignment")'
        PROVE  a = b
    <3>1. PICK x \in Of(f, "gate_assignment") : Same(a, x)
      BY <2>2, ThinnedRows
    <3>2. PICK y \in Of(f, "gate_assignment") : Same(b, y)
      BY <2>2, ThinnedRows
    <3>3. x = y
      BY DEF Disk, Single
    <3> QED
      BY <2>2, <3>1, <3>2, <3>3 DEF Same, Thins, Of
  <2> QED
    BY <2>1, <2>2
<1>5. ASSUME NEW f \in Flights PROVE InboundKept(f)'
  <2>1. Sent(f, InboundReasons)' = Sent(f, InboundReasons) /\ dropped[f] \subseteq dropped'[f]
    BY ThinnedRows DEF Thins
  <2>2. Warned(f)' => Warned(f) /\ "inbound" \notin dropped'[f]
    BY <2>1, SameWarning DEF Warned
  <2>3. Afloat(f)' = Afloat(f) /\ record' = record
    BY DEF Thins, Afloat
  <2>4. Sent(f, {"inbound_delay_predicted"})' = Sent(f, {"inbound_delay_predicted"})
    BY ThinnedRows
  <2>5. \A new \in Unsent(f, "inbound_delay_retracted")' :
          \E row \in Unsent(f, "inbound_delay_retracted") : Same(new, row)
    BY ThinnedRows
  <2>6. \A row \in Unsent(f, "inbound_delay_retracted")' :
          \A done \in Sent(f, {"inbound_delay_predicted"}) : done.seq < row.seq
    BY <2>5 DEF Disk, InboundKept, Same
  <2> QED
    BY <2>2, <2>3, <2>4, <2>6 DEF Disk, InboundKept, StillUnsent
<1>6. ASSUME NEW f \in Flights PROVE GateKept(f)'
  <2>1. Sent(f, GateReasons)' = Sent(f, GateReasons)
    BY ThinnedRows
  <2>2. Followed(f)' => Followed(f)
    BY DEF Thins, Followed
  <2>3. Afloat(f)' = Afloat(f) /\ Alive(f)' = Alive(f) /\ record' = record
    BY DEF Thins, Afloat, Alive
  <2>4. \A g : Knows(f, g)' <=> Knows(f, g)
    BY <2>1, SameWords
  <2>5. \A new \in Unsent(f, "gate_change")' : \E row \in Unsent(f, "gate_change") :
          new.seq = row.seq /\ new.event = row.event
    BY ThinnedRows DEF Same
  <2>6. Followed(f)' /\ Afloat(f) =>
          Knows(f, record[f].snap.gate) \/ Unsent(f, "gate_change")' # {}
    BY <2>2 DEF Disk, GateKept, StillUnsent, Followed
  <2>7. Followed(f)' /\ Alive(f) => \A row \in Unsent(f, "gate_change")' : Knows(f, row.event.from)
    BY <2>2, <2>5 DEF Disk, GateKept
  <2>8. Followed(f)' => \A row \in Unsent(f, "gate_change")' :
                          \A done \in Sent(f, GateReasons) : done.seq < row.seq
    BY <2>2, <2>5 DEF Disk, GateKept
  <2> QED
    BY <2>1, <2>3, <2>4, <2>6, <2>7, <2>8 DEF GateKept
<1> QED
  BY <1>1, <1>2, <1>3, <1>4, <1>5, <1>6 DEF Disk

(* What is no longer pending was given up. *)
LEMMA GivenUpCounts ==
  ASSUME Numbered, NEW f \in Flights, dropped' = GivenUp(notices, notices'),
         \A new \in notices' : \E row \in notices : Same(new, row)
  PROVE  /\ dropped[f] \subseteq dropped'[f]
         /\ StillUnsent(f, "gate_change", "gate")
         /\ StillUnsent(f, "inbound_delay_retracted", "inbound")
<1>1. dropped'[f] = dropped[f] \cup
        {Topic(row.event) : row \in {row \in notices : row.flight = f /\ ~row.confirmed
           /\ ~ \E kept \in notices' : kept.seq = row.seq}}
  BY DEF GivenUp
<1>2. ASSUME NEW reason, NEW row \in Unsent(f, reason)
      PROVE  Unsent(f, reason)' # {} \/ Topic(row.event) \in dropped'[f]
  <2>1. row \in notices /\ row.flight = f /\ row.event.reason = reason /\ ~row.confirmed
    BY DEF Unsent, Of
  <2>2. CASE \E kept \in notices' : kept.seq = row.seq
    <3>1. PICK kept \in notices' : kept.seq = row.seq
      BY <2>2
    <3>2. PICK old \in notices : Same(kept, old)
      OBVIOUS
    <3>3. old = row
      BY <2>1, <3>1, <3>2 DEF Numbered, Same
    <3>4. kept \in Unsent(f, reason)'
      BY <2>1, <3>2, <3>3 DEF Same, Unsent, Of
    <3> QED
      BY <3>4
  <2>3. CASE ~ \E kept \in notices' : kept.seq = row.seq
    BY <1>1, <2>1, <2>3
  <2> QED
    BY <2>2, <2>3
<1>3. \A row : row.event.reason = "gate_change" => Topic(row.event) = "gate"
  BY DEF Topic, InboundReasons
<1>4. \A row : row.event.reason = "inbound_delay_retracted" => Topic(row.event) = "inbound"
  BY DEF Topic, InboundReasons
<1>5. StillUnsent(f, "gate_change", "gate")
  BY <1>2, <1>3 DEF StillUnsent, Unsent, Of
<1>6. StillUnsent(f, "inbound_delay_retracted", "inbound")
  BY <1>2, <1>4 DEF StillUnsent, Unsent, Of
<1> QED
  BY <1>1, <1>5, <1>6

(* The index always lists every flight, so no receipt is pruned. *)
LEMMA OpenDisk ==
  ASSUME CycleInv, SentInv, NewsInv, NEW r \in Runners, Open(r)
  PROVE  Thins /\ Disk'
<1>1. pc[r] = "begun" /\ seen[r] = Flights
  BY DEF Open, Store!Open, NewsInv, Hand, Turns
<1>2. notices' = Store!Pruned(notices, seen[r], clock[r]) /\ dropped' = GivenUp(notices, notices')
      /\ UNCHANGED <<record, truth, sequence, clock>>
  BY DEF Open, Store!Open
<1>3. notices' \subseteq notices
  BY <1>2 DEF Store!Pruned
<1>4. \A row \in notices : row.confirmed => row \in notices'
  BY <1>1, <1>2, RowFacts DEF Store!Pruned
<1>5. \A new \in notices' : \E row \in notices : Same(new, row)
  BY <1>3 DEF Same
<1>6. Numbered
  BY DEF NewsInv, Disk
<1>7. Thins
  BY <1>2, <1>3, <1>4, <1>5, <1>6, GivenUpCounts DEF Thins, Numbered
<1>8. Disk
  BY DEF NewsInv
<1> QED
  BY <1>2, <1>5, <1>6, <1>7, <1>8, GivenUpCounts, ThinnedDisk

LEMMA DueDisk ==
  ASSUME CycleInv, SentInv, NewsInv, NEW r \in Runners, Due(r)
  PROVE  Thins /\ Disk'
<1> DEFINE kept == Store!DueKept(notices, seen[r], work[r].removed, clock[r])
           ready == Store!DueReady(notices, seen[r], work[r].excluded, work[r].removed, clock[r])
<1>1. pc[r] = "settle" /\ seen[r] = Flights
  BY DEF Due, Store!Due, NewsInv, Hand, Turns
<1>2. /\ notices' = (kept \ ready) \cup {[row EXCEPT !.retry = clock[r] + Retry] : row \in ready}
      /\ dropped' = GivenUp(notices, notices')
      /\ UNCHANGED <<record, truth, sequence, clock>>
  BY DEF Due, Store!Due, Store!DueRows, HeldBack
<1>3. kept \subseteq notices /\ ready \subseteq kept /\ \A row \in ready : ~row.confirmed
  BY DEF Store!DueKept, Store!DueReady
<1>4. \A row \in notices : row.confirmed => row \in kept
  BY <1>1, RowFacts DEF Store!DueKept
<1> HIDE DEF kept, ready
<1>5. Numbered
  BY DEF NewsInv, Disk
<1>6. ASSUME NEW row \in ready
      PROVE  Same([row EXCEPT !.retry = clock[r] + Retry], row)
  <2>1. row \in Store!Row
    BY <1>3 DEF CycleInv, Observations
  <2> QED
    BY <1>3, <2>1 DEF Same, Store!Row
<1>7. \A new \in notices' : \E row \in notices : Same(new, row)
  <2>1. \A row : Same(row, row)
    BY DEF Same
  <2> QED
    BY <1>2, <1>3, <1>6, <2>1
<1>8. \A a, b \in notices' : a.seq = b.seq => a = b
  <2> DEFINE Now(row) == IF row \in ready THEN [row EXCEPT !.retry = clock[r] + Retry] ELSE row
  <2>1. \A new \in notices' : \E row \in notices : new = Now(row) /\ new.seq = row.seq
    <3>1. ASSUME NEW new \in kept \ ready PROVE new \in notices /\ new = Now(new)
      BY <1>3
    <3>2. ASSUME NEW row \in ready PROVE row \in notices /\ Now(row).seq = row.seq
      BY <1>3, <1>6 DEF Same
    <3>3. ASSUME NEW new \in notices'
          PROVE  new \in kept \ ready \/ \E row \in ready : new = Now(row)
      BY <1>2
    <3> HIDE DEF Now
    <3> QED
      BY <3>1, <3>2, <3>3
  <2> HIDE DEF Now
  <2> QED
    BY <1>5, <2>1 DEF Numbered
<1>9. \A row \in notices : row.confirmed => row \in notices'
  BY <1>2, <1>3, <1>4
<1>10. Thins
  BY <1>2, <1>5, <1>7, <1>8, <1>9, GivenUpCounts DEF Thins
<1>11. Disk
  BY DEF NewsInv
<1> QED
  BY <1>2, <1>5, <1>7, <1>10, <1>11, GivenUpCounts, ThinnedDisk

(* The all-clear and the gate change the record asks for are upheld. *)
LEMMA CurrentNews ==
  ASSUME NEW f \in Flights, Afloat(f), NEW e, NEW at
  PROVE  /\ e.reason = "gate_change" /\ e.to = record[f].snap.gate => NoticeIsCurrent(f, e, at)
         /\ e.reason = "inbound_delay_retracted" /\ e.new = record[f].snap.inbound
              /\ ~Delayed(record[f].snap) => NoticeIsCurrent(f, e, at)
BY DEF Afloat, NoticeIsCurrent

LEMMA ReconcileDisk ==
  ASSUME CycleInv, SentInv, NewsInv, NEW r \in Runners, Reconcile(r)
  PROVE  Thins /\ Disk'
<1> DEFINE upheld == {<<row.flight, row.event>> : row \in {row \in notices :
                        NoticeIsCurrent(row.flight, row.event, clock[r])}}
<1>1. pc[r] = "collect" /\ work[r].flight = None /\ Hand(r)
  BY DEF Reconcile, Store!Reconcile, NewsInv
<1>2. /\ notices' = Store!Reconciled(notices, work[r].verified, work[r].phases, upheld)
      /\ UNCHANGED <<record, truth, sequence, clock, dropped>>
  BY DEF Reconcile, Store!Reconcile
<1>3. notices' \subseteq notices /\ \A row \in notices : row.confirmed => row \in notices'
  BY <1>2 DEF Store!Reconciled
<1>4. Thins
  <2>1. Numbered
    BY DEF NewsInv, Disk
  <2> QED
    BY <1>2, <1>3, <2>1 DEF Thins, Same, Numbered
<1>5. ASSUME NEW row \in notices, row.event.reason \notin PhaseReasons,
             NoticeIsCurrent(row.flight, row.event, clock[r])
      PROVE  row \in notices'
  BY <1>2, <1>5 DEF Store!Reconciled
<1>6. ASSUME NEW f \in Flights, f \notin work[r].verified, NEW reason
      PROVE  Unsent(f, reason)' = Unsent(f, reason)
  <2>1. \A row \in notices : row.flight = f => row \in notices'
    BY <1>2, <1>6, RowFacts DEF Store!Reconciled
  <2> QED
    BY <1>3, <2>1 DEF Unsent, Of
<1>7. ASSUME NEW f \in Flights, f \in work[r].verified
      PROVE  /\ Followed(f)' /\ Afloat(f) =>
                  Knows(f, record[f].snap.gate) \/ Unsent(f, "gate_change")' # {}
             /\ Warned(f)' /\ Afloat(f) =>
                  Delayed(record[f].snap) \/ Unsent(f, "inbound_delay_retracted")' # {}
  <2>1. Written(r, f)
    BY <1>1, <1>7, CycleAssumption DEF Written
  <2>2. Followed(f)' => Followed(f)
    BY <1>2 DEF Followed
  <2>3. Warned(f)' => Warned(f)
    BY <1>2, <1>4, ThinnedRows, SameWarning
  <2>4. ASSUME Afloat(f), Moving(f, record[f].snap.gate)
        PROVE  Unsent(f, "gate_change")' # {}
    <3>1. PICK row \in Unsent(f, "gate_change") : row.event.to = record[f].snap.gate
      BY <2>4 DEF Moving
    <3>2. row \in notices /\ row.flight = f /\ row.event.reason = "gate_change" /\ ~row.confirmed
      BY DEF Unsent, Of
    <3>3. row \in notices'
      BY <1>5, <2>4, <3>1, <3>2, CurrentNews DEF PhaseReasons
    <3> QED
      BY <3>2, <3>3 DEF Unsent, Of
  <2>5. ASSUME Afloat(f), ~Delayed(record[f].snap), Clearing(f, record[f].snap.inbound)
        PROVE  Unsent(f, "inbound_delay_retracted")' # {}
    <3>1. PICK row \in Unsent(f, "inbound_delay_retracted") : row.event.new = record[f].snap.inbound
      BY <2>5 DEF Clearing
    <3>2. row \in notices /\ row.flight = f /\ row.event.reason = "inbound_delay_retracted"
          /\ ~row.confirmed
      BY DEF Unsent, Of
    <3>3. row \in notices'
      BY <1>5, <2>5, <3>1, <3>2, CurrentNews DEF PhaseReasons
    <3> QED
      BY <3>2, <3>3 DEF Unsent, Of
  <2> QED
    BY <1>1, <2>1, <2>2, <2>3, <2>4, <2>5 DEF Hand, GateTurn, InboundTurn
<1>8. Disk
  BY DEF NewsInv
<1> QED
  BY <1>4, <1>6, <1>7, <1>8, ThinnedDisk DEF StillUnsent

(* Two notices share a key when the reason fires once, or when the observation
   is the same one against the same record. *)
LEMMA SameKey ==
  ASSUME NEW row, NEW f, NEW e, NEW prior, Store!Key(row) = Store!KeyOf(f, e, prior)
  PROVE  /\ row.flight = f
         /\ e.reason \in PhaseReasons => row.event.reason = e.reason
         /\ e.reason \notin PhaseReasons => row.event = e /\ row.prior = prior
<1>1. CASE row.event.reason \in PhaseReasons /\ e.reason \in PhaseReasons
  <2>1. <<row.flight, row.event.reason>> = <<f, e.reason>>
    BY <1>1 DEF Store!Key, Store!KeyOf
  <2> QED
    BY <1>1, <2>1
<1>2. CASE row.event.reason \notin PhaseReasons /\ e.reason \notin PhaseReasons
  <2>1. <<row.flight, row.prior, row.event>> = <<f, prior, e>>
    BY <1>2 DEF Store!Key, Store!KeyOf
  <2> QED
    BY <1>2, <2>1
<1>3. CASE row.event.reason \in PhaseReasons /\ e.reason \notin PhaseReasons
  <2>1. <<row.flight, row.event.reason>> = <<f, prior, e>>
    BY <1>3 DEF Store!Key, Store!KeyOf
  <2> QED
    BY <2>1
<1>4. CASE row.event.reason \notin PhaseReasons /\ e.reason \in PhaseReasons
  <2>1. <<row.flight, row.prior, row.event>> = <<f, e.reason>>
    BY <1>4 DEF Store!Key, Store!KeyOf
  <2> QED
    BY <2>1
<1> QED
  BY <1>1, <1>2, <1>3, <1>4

(* What an offer does to the rows: it adds one and replaces only unsent ones of
   its own kind, or finds itself there already. *)
OfferAdds(f, e, n) ==
  /\ n.seq = sequence + 1 /\ sequence' = sequence + 1
  /\ n.flight = f /\ n.event = e /\ n.prior = record[f].polled /\ ~n.confirmed
  /\ n \in notices' /\ notices' \subseteq notices \cup {n}
  /\ \A row \in notices : row \in notices' \/
       (row.flight = f /\ row.event.reason = e.reason /\ ~row.confirmed)
  /\ e.reason = "gate_change" =>
       \A row \in notices' : row.flight = f /\ row.event.reason = e.reason => row.confirmed \/ row = n
  /\ e.reason = "gate_assignment" =>
       \A row \in notices' : row.flight = f /\ row.event.reason = e.reason => row = n

OfferFinds(f, e) ==
  /\ UNCHANGED <<notices, sequence>>
  /\ e.reason \in {"gate_change", "inbound_delay_retracted"} =>
       \E row \in Unsent(f, e.reason) : row.event = e
  /\ e.reason = "gate_assignment" =>
       \E row \in Of(f, "gate_assignment") : row.confirmed \/ row.event = e

LEMMA PreviousFacts ==
  ASSUME CycleInv, Timed, NEW f \in Flights, NEW e \in Events
  PROVE  \A row \in Store!Previous(notices, f, e, record[f].polled) :
           /\ row \in notices /\ row.flight = f /\ row.event.reason = e.reason
           /\ e.reason \in {"gate_change", "inbound_delay_retracted"} => ~row.confirmed
<1> DEFINE prior == record[f].polled
           same == {row \in notices : Store!Key(row) = Store!KeyOf(f, e, prior)}
           topic == {row \in notices : Store!SameTopic(row, f, e) /\ ~row.confirmed}
<1>1. Store!Previous(notices, f, e, prior) =
        IF same # {} THEN same ELSE IF e.reason \in Mutable THEN topic ELSE {}
  BY DEF Store!Previous
<1>2. ASSUME NEW row \in same
      PROVE  /\ row \in notices /\ row.flight = f /\ row.event.reason = e.reason
             /\ e.reason \in {"gate_change", "inbound_delay_retracted"} => ~row.confirmed
  <2>1. row \in notices /\ Store!Key(row) = Store!KeyOf(f, e, prior)
    OBVIOUS
  <2>2. row.flight = f /\ row.event.reason = e.reason
    BY <2>1, SameKey
  <2>3. ASSUME e.reason \in {"gate_change", "inbound_delay_retracted"} PROVE ~row.confirmed
    <3>1. row.prior = prior /\ Seen(row)
      BY <2>1, <2>2, <2>3, SameKey DEF PhaseReasons, Seen
    <3>2. ~(record[f].polled < record[f].polled)
      BY CycleAssumption DEF CycleInv, Records
    <3> QED
      BY <2>1, <2>2, <3>1, <3>2 DEF Timed
  <2> QED
    BY <2>1, <2>2, <2>3
<1>3. ASSUME NEW row \in topic
      PROVE  row \in notices /\ row.flight = f /\ row.event.reason = e.reason /\ ~row.confirmed
  BY DEF Store!SameTopic
<1> HIDE DEF same, topic
<1> QED
  BY <1>1, <1>2, <1>3

LEMMA OfferRows ==
  ASSUME CycleInv, SentInv, NewsInv, NEW r \in Runners, NEW e \in work[r].offers, Offer(r, e)
  PROVE  OfferFinds(work[r].flight, e) \/ \E n : OfferAdds(work[r].flight, e, n)
<1> DEFINE f == work[r].flight
           prior == record[f].polled
           expires == clock[r] + Life
           prev == Store!Previous(notices, f, e, prior)
<1>1. pc[r] = "collect" /\ f \in Flights /\ e \in Events
  BY DEF Offer, CycleInv, Work
<1>2. ~(expires <= clock[r])
  BY CycleAssumption DEF CycleInv, Clocks
<1>3. \A row \in notices : ~row.confirmed => ~Store!Lapsed(row, clock[r])
  BY <1>1 DEF NewsInv, Hand, Turns
<1>4. \A row \in prev : /\ row \in notices /\ row.flight = f /\ row.event.reason = e.reason
                        /\ e.reason \in {"gate_change", "inbound_delay_retracted"} => ~row.confirmed
  BY <1>1, PreviousFacts DEF NewsInv, Disk
<1>5. CASE Store!OfferIgnored(notices, clock[r], f, e, prior, expires) /\ UNCHANGED journalVars
  <2>1. PICK row \in prev : row.confirmed \/ row.event = e
    BY <1>2, <1>5 DEF Store!OfferIgnored
  <2>2. OfferFinds(f, e)
    BY <1>4, <1>5, <2>1 DEF OfferFinds, Unsent, Of, journalVars
  <2> QED
    BY <2>2
<1>6. CASE Store!Offer(r, f, e, prior, expires)
  <2> DEFINE n == Store!NewRow(notices, clock[r], f, e, prior, expires)
  <2>1. \A row \in prev : ~row.confirmed /\ row.event # e
    BY <1>3, <1>4, <1>6 DEF Store!Offer, Store!OfferIgnored
  <2>2. /\ n.seq = sequence + 1 /\ n.flight = f /\ n.event = e /\ n.prior = prior
        /\ ~n.confirmed
    BY DEF Store!NewRow
  <2>3. notices' = (notices \ prev) \cup {n} /\ sequence' = sequence + 1
    BY <1>6 DEF Store!Offer, Store!Offered
  <2>4. ASSUME e.reason = "gate_change", NEW row \in notices \ prev, row.flight = f,
               row.event.reason = "gate_change", ~row.confirmed
        PROVE  FALSE
    <3>1. \A old \in notices : Store!Key(old) # Store!KeyOf(f, e, prior)
      <4>1. ASSUME NEW old \in notices, Store!Key(old) = Store!KeyOf(f, e, prior)
            PROVE  FALSE
        <5>1. old \in prev
          BY <4>1 DEF Store!Previous
        <5>2. old.event = e
          BY <2>4, <4>1, SameKey DEF PhaseReasons
        <5> QED
          BY <2>1, <5>1, <5>2
      <4> QED
        BY <4>1
    <3>2. row.event.side = e.side
      BY <1>1, <2>4, RowFacts, EventFacts
    <3>3. Store!SameTopic(row, f, e)
      BY <2>4, <3>2 DEF Store!SameTopic
    <3> QED
      BY <2>4, <3>1, <3>3 DEF Store!Previous, Mutable
  <2>5. ASSUME e.reason = "gate_assignment", NEW row \in notices \ prev, row.flight = f,
               row.event.reason = "gate_assignment"
        PROVE  FALSE
    <3>1. Store!Key(row) = Store!KeyOf(f, e, prior)
      BY <2>5 DEF Store!Key, Store!KeyOf, PhaseReasons
    <3> QED
      BY <2>5, <3>1 DEF Store!Previous
  <2> HIDE DEF n, prev
  <2>6. OfferAdds(f, e, n)
    BY <1>4, <2>1, <2>2, <2>3, <2>4, <2>5 DEF OfferAdds
  <2> QED
    BY <2>6
<1> QED
  BY <1>5, <1>6 DEF Offer

(* A step that touches neither the journal nor the records. *)
LEMMA SameDisk ==
  ASSUME CycleInv, CycleInv', Disk, UNCHANGED <<notices, sequence, record>>,
         \A f \in Flights : /\ dropped[f] \subseteq dropped'[f]
                            /\ ~Alive(f) => ~Alive(f)',
         \A q \in Runners : clock[q] <= clock'[q]
  PROVE  Disk'
<1>1. Numbered' /\ Single'
  BY DEF Disk, Numbered, Single, Unsent, Of
<1>2. Timed'
  <2>1. \A f \in Flights, q \in Runners : record[f].polled <= clock[q] => record[f].polled <= clock'[q]
    <3>1. \A f \in Flights : record[f].polled \in Int
      BY CycleAssumption DEF CycleInv, Records
    <3>2. \A q \in Runners : clock[q] \in Int /\ clock'[q] \in Int
      BY CycleAssumption DEF CycleInv, Clocks
    <3> QED
      BY <3>1, <3>2
  <2> QED
    BY <2>1 DEF Disk, Timed, Seen
<1>3. Final'
  BY DEF Disk, Final, Gone, Alive
<1>4. ASSUME NEW f \in Flights PROVE InboundKept(f)' /\ GateKept(f)'
  <2>1. \A reasons : Sent(f, reasons)' = Sent(f, reasons)
    BY DEF Sent
  <2>2. \A reason : Unsent(f, reason)' = Unsent(f, reason)
    BY DEF Unsent, Of
  <2>3. Warned(f)' => Warned(f)
    BY <2>1, SameWarning
  <2>4. \A g : Knows(f, g)' <=> Knows(f, g)
    BY <2>1, SameWords
  <2>5. Afloat(f)' = Afloat(f) /\ (Alive(f)' => Alive(f)) /\ (Followed(f)' => Followed(f))
    BY DEF Afloat, Followed
  <2>6. InboundKept(f)'
    BY <2>1, <2>2, <2>3, <2>5 DEF Disk, InboundKept
  <2>7. GateKept(f)'
    BY <2>1, <2>2, <2>4, <2>5 DEF Disk, GateKept
  <2> QED
    BY <2>6, <2>7
<1> QED
  BY <1>1, <1>2, <1>3, <1>4 DEF Disk

(* The flights an offer is not about keep their rows. *)
LEMMA OfferElsewhere ==
  ASSUME NEW f, NEW e, NEW n, OfferAdds(f, e, n), NEW g
  PROVE  /\ \A reasons : Sent(g, reasons)' = Sent(g, reasons)
         /\ \A reason : g # f \/ reason # e.reason =>
              Unsent(g, reason)' = Unsent(g, reason) /\ Of(g, reason)' = Of(g, reason)
         /\ n \in Unsent(f, e.reason)'
<1>1. ASSUME NEW reasons PROVE Sent(g, reasons)' = Sent(g, reasons)
  BY DEF OfferAdds, Sent
<1>2. ASSUME NEW reason, g # f \/ reason # e.reason
      PROVE  Unsent(g, reason)' = Unsent(g, reason) /\ Of(g, reason)' = Of(g, reason)
  BY <1>2 DEF OfferAdds, Unsent, Of
<1>3. n \in Unsent(f, e.reason)'
  BY DEF OfferAdds, Unsent, Of
<1> QED
  BY <1>1, <1>2, <1>3

LEMMA OfferDisk ==
  ASSUME CycleInv, CycleInv', SentInv, NewsInv, NEW r \in Runners, NEW e \in work[r].offers,
         Offer(r, e)
  PROVE  Disk'
<1> DEFINE f == work[r].flight
<1>1. pc[r] = "collect" /\ f \in Flights /\ e \in Events /\ UNCHANGED <<record, truth, dropped, clock>>
  BY DEF Offer, CycleInv, Work, Store!Offer, Store!runner, journalVars
<1>2. CASE OfferFinds(f, e)
  <2>1. \A q \in Runners : clock[q] <= clock'[q]
    BY <1>1, CycleAssumption DEF CycleInv, Clocks
  <2> QED
    BY <1>1, <1>2, <2>1, SameDisk DEF NewsInv, OfferFinds, Alive
<1>3. CASE \E n : OfferAdds(f, e, n)
  <2>1. PICK n : OfferAdds(f, e, n)
    BY <1>3
  <2>2. Disk /\ Hand(r)
    BY DEF NewsInv
  <2>3. \A row \in notices : row.seq < n.seq /\ row.seq \in Nat
    BY <2>1, <2>2 DEF CycleInv, Observations, Store!Row, Disk, Numbered, OfferAdds
  <2>4. Numbered'
    <3>1. n.seq = sequence' /\ sequence < sequence'
      BY <2>1 DEF OfferAdds, CycleInv, Observations
    <3> QED
      BY <2>1, <2>2, <2>3, <3>1 DEF Numbered, OfferAdds, Disk, CycleInv, Observations
  <2>5. Timed'
    <3>1. \A row \in notices' : row \in notices \/ (row.flight = f /\ ~row.confirmed /\ row.prior = record[f].polled)
      BY <2>1 DEF OfferAdds
    <3>2. record[f].polled <= record[f].polled
      BY <1>1, CycleAssumption DEF CycleInv, Records
    <3> QED
      BY <1>1, <2>2, <3>1, <3>2 DEF Disk, Timed, Seen
  <2>6. Final'
    BY <1>1, <2>2 DEF Disk, Final, Gone
  <2>7. Single'
    <3> SUFFICES ASSUME NEW g \in Flights
                 PROVE  /\ \A a, b \in Unsent(g, "gate_change")' : a = b
                        /\ \A a, b \in Of(g, "gate_assignment")' : a = b
      BY DEF Single
    <3>1. ASSUME NEW a \in Unsent(g, "gate_change")', NEW b \in Unsent(g, "gate_change")'
          PROVE  a = b
      <4>1. CASE g # f \/ e.reason # "gate_change"
        <5>1. Unsent(g, "gate_change")' = Unsent(g, "gate_change")
          BY <2>1, <4>1, OfferElsewhere
        <5> QED
          BY <2>2, <3>1, <5>1 DEF Disk, Single
      <4>2. CASE g = f /\ e.reason = "gate_change"
        BY <2>1, <3>1, <4>2 DEF OfferAdds, Unsent, Of
      <4> QED
        BY <4>1, <4>2
    <3>2. ASSUME NEW a \in Of(g, "gate_assignment")', NEW b \in Of(g, "gate_assignment")'
          PROVE  a = b
      <4>1. CASE g # f \/ e.reason # "gate_assignment"
        <5>1. Of(g, "gate_assignment")' = Of(g, "gate_assignment")
          BY <2>1, <4>1, OfferElsewhere
        <5> QED
          BY <2>2, <3>2, <5>1 DEF Disk, Single
      <4>2. CASE g = f /\ e.reason = "gate_assignment"
        BY <2>1, <3>2, <4>2 DEF OfferAdds, Of
      <4> QED
        BY <4>1, <4>2
    <3> QED
      BY <3>1, <3>2
  <2>8. ASSUME NEW g \in Flights PROVE InboundKept(g)'
    <3>1. \A reasons : Sent(g, reasons)' = Sent(g, reasons)
      BY <2>1, OfferElsewhere
    <3>2. Warned(g)' => Warned(g)
      BY <1>1, <3>1, SameWarning
    <3>3. Afloat(g)' = Afloat(g)
      BY <1>1 DEF Afloat
    <3>4. CASE g # f \/ e.reason # "inbound_delay_retracted"
      <4>1. Unsent(g, "inbound_delay_retracted")' = Unsent(g, "inbound_delay_retracted")
        BY <2>1, <3>4, OfferElsewhere
      <4> QED
        BY <1>1, <2>2, <3>1, <3>2, <3>3, <4>1 DEF Disk, InboundKept
    <3>5. CASE g = f /\ e.reason = "inbound_delay_retracted"
      <4>1. Unsent(g, "inbound_delay_retracted")' # {}
        BY <2>1, <3>5, OfferElsewhere
      <4>2. \A row \in Unsent(g, "inbound_delay_retracted")' :
              row \in Unsent(g, "inbound_delay_retracted") \/ row = n
        BY <2>1 DEF OfferAdds, Unsent, Of
      <4>3. \A done \in Sent(g, {"inbound_delay_predicted"}) : done.seq < n.seq
        BY <2>3 DEF Sent
      <4> QED
        BY <2>2, <3>1, <4>1, <4>2, <4>3 DEF Disk, InboundKept
    <3> QED
      BY <3>4, <3>5
  <2>9. ASSUME NEW g \in Flights PROVE GateKept(g)'
    <3>1. Sent(g, GateReasons)' = Sent(g, GateReasons)
      BY <2>1, OfferElsewhere
    <3>2. \A h : Knows(g, h)' <=> Knows(g, h)
      BY <3>1, SameWords
    <3>3. Afloat(g)' = Afloat(g) /\ Alive(g)' = Alive(g) /\ Followed(g)' = Followed(g)
      BY <1>1 DEF Afloat, Alive, Followed
    <3>4. CASE g # f \/ e.reason # "gate_change"
      <4>1. Unsent(g, "gate_change")' = Unsent(g, "gate_change")
        BY <2>1, <3>4, OfferElsewhere
      <4> QED
        BY <1>1, <2>2, <3>1, <3>2, <3>3, <4>1 DEF Disk, GateKept
    <3>5. CASE g = f /\ e.reason = "gate_change"
      <4>1. Unsent(g, "gate_change")' = {n}
        BY <2>1, <3>5, OfferElsewhere DEF OfferAdds, Unsent, Of
      <4>2. \A done \in Sent(g, GateReasons) : done.seq < n.seq
        BY <2>3 DEF Sent
      <4>3. Followed(g) /\ Alive(g) => Knows(g, n.event.from)
        <5>1. work[r].fresh # None
          <6>1. work[r].fresh = None => work[r].offers \subseteq {Removed}
            BY <1>1, <2>2 DEF Hand, Turns
          <6> QED
            BY <3>5, <6>1 DEF Removed
        <5>2. Turning(r, f)
          BY <1>1, <5>1 DEF Turning
        <5>3. n.event = e
          BY <2>1 DEF OfferAdds
        <5> QED
          BY <2>2, <3>5, <5>2, <5>3 DEF Hand, GateTurn
      <4> QED
        BY <1>1, <3>1, <3>2, <3>3, <4>1, <4>2, <4>3 DEF GateKept
    <3> QED
      BY <3>4, <3>5
  <2> QED
    BY <2>4, <2>5, <2>6, <2>7, <2>8, <2>9 DEF Disk
<1> QED
  BY <1>2, <1>3, OfferRows

(* A new record is written once everything observed against the old one is in
   the journal. *)
LEMMA WriteDisk ==
  ASSUME CycleInv, CycleInv', SentInv, NewsInv, NEW r \in Runners, WriteRecord(r)
  PROVE  Disk'
<1> DEFINE f == work[r].flight
           fresh == work[r].fresh
<1>1. /\ pc[r] = "collect" /\ f \in Flights /\ f # None /\ work[r].offers = {}
      /\ UNCHANGED <<journalVars, truth, dropped>>
  BY DEF WriteRecord, MayWrite, CycleInv, Work
<1>2. Disk /\ Hand(r)
  BY DEF NewsInv
<1>3. \A q \in Runners : clock[q] <= clock'[q]
  BY <1>1, CycleAssumption DEF CycleInv, Clocks, journalVars
<1>4. CASE fresh = None
  <2>1. record' = record
    BY <1>4 DEF WriteRecord
  <2> QED
    BY <1>1, <1>2, <1>3, <2>1, SameDisk DEF journalVars, Alive
<1>5. CASE fresh # None
  <2>1. /\ record'[f].snap = fresh /\ record'[f].polled = clock[r]
        /\ \A g \in Flights \ {f} : record'[g] = record[g]
    BY <1>1, <1>5 DEF WriteRecord, CycleInv, Records
  <2>2. record[f].polled < clock[r] /\ Turning(r, f)
    BY <1>1, <1>2, <1>5 DEF Hand, Turns, Turning
  <2>3. Numbered' /\ Single'
    BY <1>1, <1>2 DEF Disk, Numbered, Single, Unsent, Of, journalVars
  <2>4. Timed'
    <3>1. ASSUME NEW g \in Flights
          PROVE  record'[g].polled = 0 \/ \E q \in Runners : record'[g].polled <= clock'[q]
      <4>1. clock'[r] = clock[r] /\ clock[r] <= clock[r]
        BY <1>1, CycleAssumption DEF CycleInv, Clocks, journalVars
      <4> QED
        BY <1>1, <1>2, <2>1, <4>1 DEF Disk, Timed, journalVars
    <3>2. ASSUME NEW row \in notices, Seen(row)
          PROVE  /\ row.prior <= record'[row.flight].polled
                 /\ row.confirmed => /\ row.prior < record'[row.flight].polled
                                     /\ record'[row.flight].snap # None
      <4>1. row.flight \in Flights /\ row.prior \in Nat
        BY DEF CycleInv, Observations, Store!Row
      <4>2. record[f].polled \in Nat /\ clock[r] \in Nat
        BY <1>1, CycleAssumption DEF CycleInv, Records, Clocks
      <4>3. row.prior <= record[row.flight].polled
        BY <1>2, <3>2 DEF Disk, Timed
      <4>4. CASE row.flight = f
        BY <1>5, <2>1, <2>2, <4>1, <4>2, <4>3, <4>4
      <4>5. CASE row.flight # f
        BY <1>2, <2>1, <3>2, <4>1, <4>5 DEF Disk, Timed
      <4> QED
        BY <4>4, <4>5
    <3> QED
      BY <1>1, <3>1, <3>2 DEF Timed, Seen, journalVars
  <2>5. Final'
    <3>1. Gone(fresh) => truth[f].status = "cancelled"
      BY <1>1, <1>2 DEF Hand, Turns
    <3> QED
      BY <1>1, <1>2, <2>1, <3>1 DEF Disk, Final, Gone
  <2>6. ASSUME NEW g \in Flights PROVE InboundKept(g)'
    <3>1. \A reasons : Sent(g, reasons)' = Sent(g, reasons)
      BY <1>1 DEF Sent, journalVars
    <3>2. \A reason : Unsent(g, reason)' = Unsent(g, reason)
      BY <1>1 DEF Unsent, Of, journalVars
    <3>3. Warned(g)' => Warned(g)
      BY <1>1, <3>1, SameWarning
    <3>4. CASE g # f
      <4>1. record'[g] = record[g] /\ Afloat(g)' = Afloat(g)
        BY <2>1, <3>4 DEF Afloat
      <4> QED
        BY <1>2, <3>1, <3>2, <3>3, <4>1 DEF Disk, InboundKept
    <3>5. CASE g = f
      <4>1. Afloat(g)' => ~Gone(fresh)
        BY <2>1, <3>5 DEF Afloat, Gone
      <4>2. Warned(f) /\ ~Gone(fresh) => Delayed(fresh) \/ Clearing(f, fresh.inbound)
        BY <1>1, <1>2, <2>2 DEF Hand, InboundTurn
      <4>3. Clearing(f, fresh.inbound) => Unsent(f, "inbound_delay_retracted") # {}
        BY DEF Clearing
      <4> QED
        BY <1>2, <2>1, <3>1, <3>2, <3>3, <3>5, <4>1, <4>2, <4>3 DEF Disk, InboundKept
    <3> QED
      BY <3>4, <3>5
  <2>7. ASSUME NEW g \in Flights PROVE GateKept(g)'
    <3>1. Sent(g, GateReasons)' = Sent(g, GateReasons)
      BY <1>1 DEF Sent, journalVars
    <3>2. Unsent(g, "gate_change")' = Unsent(g, "gate_change")
      BY <1>1 DEF Unsent, Of, journalVars
    <3>3. \A h : Knows(g, h)' <=> Knows(g, h)
      BY <3>1, SameWords
    <3>4. Alive(g)' = Alive(g) /\ Followed(g)' = Followed(g)
      BY <1>1 DEF Alive, Followed
    <3>5. Followed(g) /\ Afloat(g)' =>
            Knows(g, record'[g].snap.gate) \/ Unsent(g, "gate_change") # {}
      <4>1. CASE g # f
        <5>1. record'[g] = record[g] /\ Afloat(g)' = Afloat(g)
          BY <2>1, <4>1 DEF Afloat
        <5> QED
          BY <1>2, <5>1 DEF Disk, GateKept
      <4>2. CASE g = f
        <5>1. Afloat(g)' => ~Gone(fresh)
          BY <2>1, <4>2 DEF Afloat, Gone
        <5>2. Followed(f) /\ ~Gone(fresh) => Knows(f, fresh.gate) \/ Moving(f, fresh.gate)
          BY <1>1, <1>2, <2>2 DEF Hand, GateTurn
        <5>3. Moving(f, fresh.gate) => Unsent(f, "gate_change") # {}
          BY DEF Moving
        <5> QED
          BY <2>1, <4>2, <5>1, <5>2, <5>3
      <4> QED
        BY <4>1, <4>2
    <3>6. Followed(g) =>
            /\ Alive(g) => \A row \in Unsent(g, "gate_change") : Knows(g, row.event.from)
            /\ \A row \in Unsent(g, "gate_change") :
                 \A done \in Sent(g, GateReasons) : done.seq < row.seq
      BY <1>2 DEF Disk, GateKept
    <3> QED
      BY <3>1, <3>2, <3>3, <3>4, <3>5, <3>6 DEF GateKept
  <2> QED
    BY <2>3, <2>4, <2>5, <2>6, <2>7 DEF Disk
<1> QED
  BY <1>4, <1>5

(* What a reply confirms was current, so it is the newest word. *)
Acked(r, row) == row \in notices /\ ~row.confirmed /\ Store!Id(row) \in current[r]
LEMMA AckedFacts ==
  ASSUME CycleInv, NewsInv, NEW r \in Runners, pc[r] = "confirm", NEW row, Acked(r, row), Seen(row)
  PROVE  /\ row.flight \in work[r].verified
         /\ NoticeIsCurrent(row.flight, row.event, clock[r])
         /\ row.prior < record[row.flight].polled /\ record[row.flight].snap # None
<1>1. Turns(r)
  BY DEF NewsInv, Hand
<1>2. row \in notices /\ Holds(r, Store!Id(row))
  BY <1>1 DEF Acked, Turns
<1>3. row.event # Removed
  BY DEF Seen, Removed
<1>4. row.flight \in work[r].verified /\ NoticeIsCurrent(row.flight, row.event, clock[r])
  BY <1>2, <1>3, RowFacts DEF Holds
<1>5. work[r].flight = None
  BY <1>1 DEF Turns, After, Upheld
<1>6. row.flight \in Flights
  BY <1>2, RowFacts
<1>7. row.prior < record[row.flight].polled
  BY <1>1, <1>2, <1>4, <1>5, <1>6, CycleAssumption DEF Turns
<1> QED
  BY <1>4, <1>7 DEF NoticeIsCurrent

(* The journal after the reply: every row is there, some now confirmed. *)
Stamped(r, new, row) ==
  /\ new.seq = row.seq /\ new.flight = row.flight /\ new.event = row.event
  /\ new.prior = row.prior
  /\ new.confirmed <=> row.confirmed \/ Acked(r, row)
  /\ ~Acked(r, row) => new = row

LEMMA ConfirmRows ==
  ASSUME CycleInv, Numbered, NEW r \in Runners, Store!Confirm(r)
  PROVE  /\ \A new \in notices' : \E row \in notices : Stamped(r, new, row)
         /\ \A row \in notices : \E new \in notices' : Stamped(r, new, row)
         /\ \A a, b \in notices' : a.seq = b.seq => a = b
<1> DEFINE Now(row) == IF Store!Id(row) \in current[r] THEN [row EXCEPT !.confirmed = TRUE] ELSE row
<1>1. notices' = {Now(row) : row \in notices}
  BY DEF Store!Confirm, Store!Confirmed
<1>2. ASSUME NEW row \in notices PROVE Stamped(r, Now(row), row)
  <2>1. row \in Store!Row
    BY DEF CycleInv, Observations
  <2> QED
    BY <2>1 DEF Stamped, Acked, Store!Row
<1> HIDE DEF Now
<1>3. \A a, b \in notices : Now(a).seq = Now(b).seq => a = b
  BY <1>2 DEF Stamped, Numbered
<1> QED
  BY <1>1, <1>2, <1>3

(* A flight whose reply confirms nothing of a kind keeps its words. *)
LEMMA ConfirmElsewhere ==
  ASSUME CycleInv, Numbered, NEW r \in Runners, Store!Confirm(r), NEW f, NEW reasons,
         \A row : Acked(r, row) => row.flight # f \/ row.event.reason \notin reasons
  PROVE  /\ Sent(f, reasons)' = Sent(f, reasons)
         /\ \A reason \in reasons : Unsent(f, reason)' = Unsent(f, reason)
<1>1. ASSUME NEW row \in notices, row.flight = f, row.event.reason \in reasons
      PROVE  row \in notices'
  <2>1. PICK new \in notices' : Stamped(r, new, row)
    BY ConfirmRows
  <2> QED
    BY <1>1, <2>1 DEF Stamped
<1>2. ASSUME NEW new \in notices', new.flight = f, new.event.reason \in reasons
      PROVE  new \in notices
  <2>1. PICK row \in notices : Stamped(r, new, row)
    BY ConfirmRows
  <2> QED
    BY <1>2, <2>1 DEF Stamped
<1>3. Sent(f, reasons)' = Sent(f, reasons)
  BY <1>1, <1>2 DEF Sent
<1>4. \A reason \in reasons : Unsent(f, reason)' = Unsent(f, reason)
  BY <1>1, <1>2 DEF Unsent, Of
<1> QED
  BY <1>3, <1>4

LEMMA ConfirmInbound ==
  ASSUME CycleInv, NewsInv, NEW r \in Runners, Store!Confirm(r), UNCHANGED <<record, dropped>>,
         NEW f \in Flights
  PROVE  InboundKept(f)'
<1> DEFINE P == "inbound_delay_predicted"
           C == "inbound_delay_retracted"
<1>1. pc[r] = "confirm" /\ Numbered /\ InboundKept(f) /\ Upheld(r)
  BY DEF Store!Confirm, NewsInv, Disk, Hand, Turns, After
<1>2. Afloat(f)' = Afloat(f)
  BY DEF Afloat
<1>3. \A new \in Unsent(f, C)' : \E row \in Unsent(f, C) : new.seq = row.seq /\ ~Acked(r, row)
  <2>1. ASSUME NEW new \in Unsent(f, C)'
        PROVE  \E row \in Unsent(f, C) : new.seq = row.seq /\ ~Acked(r, row)
    <3>1. PICK row \in notices : Stamped(r, new, row)
      BY <1>1, <2>1, ConfirmRows DEF Unsent, Of
    <3> QED
      BY <2>1, <3>1 DEF Stamped, Unsent, Of
  <2> QED
    BY <2>1
<1>4. CASE \E c : Acked(r, c) /\ c.flight = f /\ c.event.reason = P
  <2>1. PICK c : Acked(r, c) /\ c.flight = f /\ c.event.reason = P
    BY <1>4
  <2>2. f \in work[r].verified /\ Delayed(record[f].snap)
    BY <1>1, <2>1, AckedFacts DEF NoticeIsCurrent, Seen
  <2>3. Unsent(f, C) = {}
    <3>1. ASSUME NEW row \in Unsent(f, C) PROVE FALSE
      <4>1. NoticeIsCurrent(f, row.event, clock[r]) /\ row.event.reason = C
        BY <1>1, <2>2 DEF Upheld, Unsent, Of
      <4> QED
        BY <2>2, <4>1 DEF NoticeIsCurrent
    <3> QED
      BY <3>1
  <2> QED
    BY <1>3, <2>2, <2>3 DEF InboundKept
<1>5. CASE ~ \E c : Acked(r, c) /\ c.flight = f /\ c.event.reason = P
  <2>1. Sent(f, {P})' = Sent(f, {P})
    BY <1>1, <1>5, ConfirmElsewhere
  <2>2. \A row \in Unsent(f, C)' : \A done \in Sent(f, {P}) : done.seq < row.seq
    BY <1>1, <1>3 DEF InboundKept
  <2>3. CASE \E c : Acked(r, c) /\ c.flight = f /\ c.event.reason = C
    <3>1. PICK c : Acked(r, c) /\ c.flight = f /\ c.event.reason = C
      BY <2>3
    <3>2. PICK new \in notices' : Stamped(r, new, c)
      BY <1>1, <3>1, ConfirmRows DEF Acked
    <3>3. new \in Sent(f, InboundReasons)' /\ new.seq = c.seq
      BY <3>1, <3>2 DEF Stamped, Sent, InboundReasons
    <3>4. ASSUME Warned(f)' PROVE FALSE
      <4>1. PICK p \in Latest(f, InboundReasons)' : p.event.reason = P
        BY <3>4 DEF Warned
      <4>2. p \in Sent(f, {P}) /\ c.seq <= p.seq
        BY <2>1, <3>3, <4>1 DEF Latest, Sent
      <4>3. p.seq < c.seq
        BY <1>1, <3>1, <4>2 DEF InboundKept, Acked, Unsent, Of
      <4>4. c.seq \in Nat /\ p.seq \in Nat
        BY <3>1, <4>2 DEF Acked, Sent, CycleInv, Observations, Store!Row
      <4> QED
        BY <4>2, <4>3, <4>4
    <3> QED
      BY <2>1, <2>2, <3>4 DEF InboundKept
  <2>4. CASE ~ \E c : Acked(r, c) /\ c.flight = f /\ c.event.reason = C
    <3>1. Sent(f, InboundReasons)' = Sent(f, InboundReasons)
          /\ Unsent(f, C)' = Unsent(f, C)
      <4>1. \A row : Acked(r, row) => row.flight # f \/ row.event.reason \notin InboundReasons
        BY <1>5, <2>4 DEF InboundReasons
      <4>2. C \in InboundReasons
        BY DEF InboundReasons
      <4> QED
        BY <1>1, <4>1, <4>2, ConfirmElsewhere
    <3>2. Warned(f)' => Warned(f)
      BY <3>1, SameWarning
    <3> QED
      BY <1>1, <1>2, <2>1, <3>1, <3>2 DEF InboundKept
  <2> QED
    BY <2>3, <2>4
<1> QED
  BY <1>4, <1>5

(* The operator knows a gate when each latest receipt names it. *)
LEMMA KnowsNow ==
  ASSUME NEW f, NEW g, \A row \in Latest(f, GateReasons)' : Word(row) \in {g, NoGate}
  PROVE  Knows(f, g)'
<1>1. ASSUME NEW e \in LastConfirmed(notices', f, GateReasons)
      PROVE  (IF e.reason = "gate_change" THEN e.to ELSE e.gate) \in {g, NoGate}
  <2>1. \E row \in Latest(f, GateReasons)' : e = row.event
    BY <1>1 DEF LastConfirmed, Latest, Sent
  <2> QED
    BY <2>1 DEF Word
<1>2. ToldGate(f)' = {IF e.reason = "gate_change" THEN e.to ELSE e.gate :
                        e \in LastConfirmed(notices', f, GateReasons)}
  BY DEF ToldGate, GateReasons
<1> QED
  BY <1>1, <1>2 DEF Knows

LEMMA ConfirmGate ==
  ASSUME CycleInv, CycleInv', NewsInv, NEW r \in Runners, Store!Confirm(r),
         UNCHANGED <<record, dropped, truth>>, NEW f \in Flights
  PROVE  GateKept(f)'
<1> DEFINE G == "gate_change"
           A == "gate_assignment"
<1>1. /\ pc[r] = "confirm" /\ Numbered /\ Single /\ GateKept(f) /\ Upheld(r) /\ Readouts(r)
      /\ GateTurn(r, f) /\ work[r].flight = None
  BY DEF Store!Confirm, NewsInv, Disk, Hand, Turns, After, Upheld
<1>2. Afloat(f)' = Afloat(f) /\ Alive(f)' = Alive(f) /\ Followed(f)' = Followed(f)
      /\ record' = record
  BY DEF Afloat, Alive, Followed
<1>3. ASSUME NEW new \in notices', new.flight = f, new.event.reason \in GateReasons
      PROVE  \E row \in notices : Stamped(r, new, row) /\ row.flight = f
                                  /\ row.event = new.event
  <2>1. PICK row \in notices : Stamped(r, new, row)
    BY <1>1, ConfirmRows
  <2> QED
    BY <1>3, <2>1 DEF Stamped
<1>4. CASE ~ \E c : Acked(r, c) /\ c.flight = f /\ c.event.reason \in GateReasons
  <2>1. Sent(f, GateReasons)' = Sent(f, GateReasons) /\ Unsent(f, G)' = Unsent(f, G)
    BY <1>1, <1>4, ConfirmElsewhere DEF GateReasons
  <2>2. \A g : Knows(f, g)' <=> Knows(f, g)
    BY <2>1, SameWords
  <2> QED
    BY <1>1, <1>2, <2>1, <2>2 DEF GateKept
<1>5. ASSUME NEW c, Acked(r, c), c.flight = f, c.event.reason \in GateReasons, Followed(f),
             NEW g, g = record[f].snap.gate
      PROVE  Unsent(f, G)' = {} /\ Knows(f, g)'
  <2>0. Seen(c) /\ c \in notices /\ ~c.confirmed /\ c.event \in Events
    BY <1>5, RowFacts DEF Seen, GateReasons, Acked
  <2>1. f \in work[r].verified /\ NoticeIsCurrent(f, c.event, clock[r])
    BY <1>1, <1>5, <2>0, AckedFacts
  <2>2. CASE c.event.reason = A
    <3>1. ReadOut(r, f)
      BY <1>1, <1>5, <2>0, <2>1, <2>2 DEF Readouts, After, Unsent, Of
    <3>2. Of(f, G) = {}
      BY <1>1, <1>5, <3>1 DEF GateTurn
    <3>3. \A row \in Of(f, A) : row.event.gate = record[f].snap.gate
      BY <1>1, <3>1, CycleAssumption DEF Readouts
    <3>4. ASSUME NEW new \in notices', new.flight = f, new.event.reason \in GateReasons
          PROVE  new.event.reason = A /\ new.event.gate = g
      <4>1. PICK row \in notices : row.flight = f /\ row.event = new.event
        BY <1>3, <3>4
      <4> QED
        BY <1>5, <3>2, <3>3, <3>4, <4>1 DEF Of, GateReasons
    <3>5. Unsent(f, G)' = {}
      BY <3>4 DEF Unsent, Of, GateReasons
    <3>6. \A row \in Latest(f, GateReasons)' : Word(row) \in {g, NoGate}
      BY <3>4 DEF Latest, Sent, Word
    <3> QED
      BY <3>5, <3>6, KnowsNow
  <2>3. CASE c.event.reason = G
    <3>1. c.event.to = g
      BY <1>5, <2>1, <2>3 DEF NoticeIsCurrent
    <3>2. Unsent(f, G) = {c}
      BY <1>1, <1>5, <2>0, <2>3 DEF Single, Unsent, Of
    <3>3. PICK d \in notices' : Stamped(r, d, c)
      BY <1>1, <2>0, ConfirmRows
    <3>4. d.confirmed /\ d.seq = c.seq /\ d.event = c.event /\ d.flight = f
      BY <1>5, <3>3 DEF Stamped
    <3>5. Unsent(f, G)' = {}
      <4>1. ASSUME NEW new \in Unsent(f, G)' PROVE FALSE
        <5>1. new \in notices' /\ new.flight = f /\ new.event.reason = G /\ ~new.confirmed
          BY <4>1 DEF Unsent, Of
        <5>2. PICK row \in notices : Stamped(r, new, row)
          BY <1>1, <5>1, ConfirmRows
        <5>3. row \in Unsent(f, G) /\ ~Acked(r, row)
          BY <5>1, <5>2 DEF Stamped, Unsent, Of
        <5> QED
          BY <1>5, <3>2, <5>3
      <4> QED
        BY <4>1
    <3>6. ASSUME NEW row \in Latest(f, GateReasons)' PROVE row.event = c.event
      <4>1. /\ row \in notices' /\ row.flight = f /\ row.event.reason \in GateReasons
            /\ row.confirmed /\ d.seq <= row.seq
        BY <1>5, <3>3, <3>4, <3>6 DEF Latest, Sent
      <4>2. PICK old \in notices : Stamped(r, row, old)
        BY <1>1, <4>1, ConfirmRows
      <4>3. CASE old.confirmed
        <5>1. old \in Sent(f, GateReasons)
          BY <4>1, <4>2, <4>3 DEF Stamped, Sent
        <5>2. old.seq < c.seq
          BY <1>1, <1>5, <3>2, <5>1 DEF GateKept
        <5>3. old.seq \in Nat /\ c.seq \in Nat /\ c.seq <= old.seq
          BY <2>0, <3>4, <4>1, <4>2 DEF Stamped, CycleInv, Observations, Store!Row
        <5> QED
          BY <5>2, <5>3
      <4>4. CASE ~old.confirmed /\ old.event.reason = G
        BY <3>2, <4>1, <4>2, <4>4 DEF Stamped, Unsent, Of
      <4>5. CASE ~old.confirmed /\ old.event.reason = A
        <5>1. old \in Unsent(f, A)
          BY <4>1, <4>2, <4>5 DEF Stamped, Unsent, Of
        <5>2. ReadOut(r, f)
          BY <1>1, <2>1, <5>1 DEF Readouts, After
        <5>3. Of(f, G) = {}
          BY <1>1, <1>5, <5>2 DEF GateTurn
        <5> QED
          BY <3>2, <5>3 DEF Unsent
      <4> QED
        BY <4>1, <4>2, <4>3, <4>4, <4>5 DEF Stamped, GateReasons
    <3>7. \A row \in Latest(f, GateReasons)' : Word(row) \in {g, NoGate}
      BY <2>3, <3>1, <3>6 DEF Word
    <3> QED
      BY <3>5, <3>7, KnowsNow
  <2> QED
    BY <1>5, <2>2, <2>3 DEF GateReasons
<1>6. ASSUME NEW c, Acked(r, c), c.flight = f, c.event.reason \in GateReasons
      PROVE  GateKept(f)'
  <2>1. PICK g : g = record[f].snap.gate
    OBVIOUS
  <2>2. Followed(f) => Unsent(f, G)' = {} /\ Knows(f, g)'
    BY <1>5, <1>6, <2>1
  <2>3. g = record'[f].snap.gate
    BY <1>2, <2>1
  <2> QED
    BY <1>2, <2>2, <2>3 DEF GateKept
<1> QED
  BY <1>4, <1>6

LEMMA ConfirmDisk ==
  ASSUME CycleInv, CycleInv', NewsInv, NEW r \in Runners, Store!Confirm(r),
         UNCHANGED <<record, dropped, truth>>
  PROVE  Disk'
<1>1. /\ pc[r] = "confirm" /\ Numbered /\ Timed /\ Final /\ Single
      /\ UNCHANGED <<sequence, clock>>
  BY DEF Store!Confirm, NewsInv, Disk
<1>2. Numbered'
  <2>1. \A new \in notices' : new.seq <= sequence'
    <3>1. ASSUME NEW new \in notices' PROVE new.seq <= sequence'
      <4>1. PICK row \in notices : Stamped(r, new, row)
        BY <1>1, ConfirmRows
      <4> QED
        BY <1>1, <4>1 DEF Stamped, Numbered
    <3> QED
      BY <3>1
  <2> QED
    BY <1>1, <2>1, ConfirmRows DEF Numbered
<1>3. Timed'
  <2>1. ASSUME NEW new \in notices', Seen(new)
        PROVE  /\ new.prior <= record[new.flight].polled
               /\ new.confirmed => /\ new.prior < record[new.flight].polled
                                   /\ record[new.flight].snap # None
    <3>1. PICK row \in notices : Stamped(r, new, row)
      BY <1>1, ConfirmRows
    <3>2. Seen(row)
      BY <2>1, <3>1 DEF Stamped, Seen
    <3>3. CASE Acked(r, row)
      BY <1>1, <3>1, <3>2, <3>3, AckedFacts DEF Stamped, Timed
    <3>4. CASE ~Acked(r, row)
      BY <1>1, <3>1, <3>2, <3>4 DEF Stamped, Timed
    <3> QED
      BY <3>3, <3>4
  <2> QED
    BY <1>1, <2>1 DEF Timed, Seen
<1>4. Final'
  BY <1>1 DEF Final, Gone
<1>5. Single'
  <2> SUFFICES ASSUME NEW f \in Flights
               PROVE  /\ \A a, b \in Unsent(f, "gate_change")' : a = b
                      /\ \A a, b \in Of(f, "gate_assignment")' : a = b
    BY DEF Single
  <2>1. ASSUME NEW a \in notices', NEW b \in notices'
        PROVE  /\ a \in Unsent(f, "gate_change")' /\ b \in Unsent(f, "gate_change")' => a = b
               /\ a \in Of(f, "gate_assignment")' /\ b \in Of(f, "gate_assignment")' => a = b
    <3>1. PICK x \in notices : Stamped(r, a, x)
      BY <1>1, ConfirmRows
    <3>2. PICK y \in notices : Stamped(r, b, y)
      BY <1>1, ConfirmRows
    <3>3. x = y => a = b
      BY <1>1, <3>1, <3>2, ConfirmRows DEF Stamped
    <3>4. a \in Unsent(f, "gate_change")' /\ b \in Unsent(f, "gate_change")' => x = y
      BY <1>1, <3>1, <3>2 DEF Stamped, Single, Unsent, Of
    <3>5. a \in Of(f, "gate_assignment")' /\ b \in Of(f, "gate_assignment")' => x = y
      BY <1>1, <3>1, <3>2 DEF Stamped, Single, Of
    <3> QED
      BY <3>3, <3>4, <3>5
  <2> QED
    BY <2>1 DEF Unsent, Of
<1> QED
  BY <1>2, <1>3, <1>4, <1>5, ConfirmInbound, ConfirmGate DEF Disk

-----------------------------------------------------------------------------
(* The cycle's own part.  A runner that is idle or has just begun has nothing
   in hand. *)
LEMMA IdleHand ==
  ASSUME NEW r \in Runners, pc'[r] \in {"idle", "begun"}, work'[r] = IdleWork,
         pc'[r] = "begun" =>
           seen'[r] = Flights /\ \A f \in Flights : record'[f].polled < clock'[r]
  PROVE  Hand(r)'
<1>1. Turns(r)'
  BY DEF Turns, IdleWork, After
<1>2. \A f \in Flights : ~Turning(r, f)' /\ ~Written(r, f)' /\ ~ReadOut(r, f)'
  BY DEF Turning, Written, ReadOut, IdleWork
<1>3. Offers(r)' /\ Readouts(r)'
  BY <1>2 DEF Offers, Readouts, After
<1>4. \A f \in Flights : InboundTurn(r, f)' /\ GateTurn(r, f)'
  BY <1>2 DEF InboundTurn, GateTurn
<1> QED
  BY <1>1, <1>3, <1>4 DEF Hand

LEMMA OthersHand ==
  ASSUME SentInv, NewsInv, NEW r \in Runners, Active(r),
         \A q \in Runners \ {r} : pc'[q] = pc[q] /\ work'[q] = work[q],
         Hand(r)'
  PROVE  \A q \in Runners : Hand(q)'
<1> SUFFICES ASSUME NEW q \in Runners \ {r} PROVE Hand(q)'
  OBVIOUS
<1>1. pc[q] = "idle"
  BY OthersIdle DEF SentInv
<1>2. work[q] = IdleWork
  BY <1>1 DEF NewsInv, Hand, Turns
<1> QED
  BY <1>1, <1>2, IdleHand

(* What is said of a flight when journal and record stay. *)
LEMMA SameFlight ==
  ASSUME UNCHANGED <<notices, record>>, NEW f
  PROVE  /\ \A reason : Of(f, reason)' = Of(f, reason) /\ Unsent(f, reason)' = Unsent(f, reason)
         /\ \A reasons : Sent(f, reasons)' = Sent(f, reasons)
         /\ \A g : (Knows(f, g)' <=> Knows(f, g)) /\ (Moving(f, g)' <=> Moving(f, g))
                 /\ (Clearing(f, g)' <=> Clearing(f, g))
         /\ Afloat(f)' = Afloat(f) /\ ToldGate(f)' = ToldGate(f)
<1>1. \A reason : Of(f, reason)' = Of(f, reason) /\ Unsent(f, reason)' = Unsent(f, reason)
  BY DEF Of, Unsent
<1>2. \A reasons : Sent(f, reasons)' = Sent(f, reasons)
  BY DEF Sent
<1>3. \A g : (Moving(f, g)' <=> Moving(f, g)) /\ (Clearing(f, g)' <=> Clearing(f, g))
  BY <1>1 DEF Moving, Clearing
<1>4. \A g : Knows(f, g)' <=> Knows(f, g)
  BY <1>2, SameWords
<1>5. Afloat(f)' = Afloat(f) /\ ToldGate(f)' = ToldGate(f)
  BY DEF Afloat, ToldGate
<1> QED
  BY <1>1, <1>2, <1>3, <1>4, <1>5

(* Opening a cycle. *)
LEMMA OpenHand ==
  ASSUME CycleInv, SentInv, NewsInv, NEW r \in Runners, Open(r)
  PROVE  Hand(r)'
<1>1. pc[r] = "begun" /\ pc'[r] = "collect" /\ seen[r] = Flights /\ UNCHANGED <<seen, clock, record>>
  BY DEF Open, Store!Open, NewsInv, Hand, Turns, SentInv, Alone
<1>2. /\ work'[r].todo = seen[r] /\ work'[r].flight = None /\ work'[r].fresh = None
      /\ work'[r].offers = {} /\ work'[r].verified = {} /\ work'[r].phases = {}
  BY DEF Open, IdleWork, CycleInv
<1>3. \A f \in Flights : record[f].polled < clock[r]
  BY <1>1 DEF NewsInv, Hand, Turns
<1>4. \A row \in notices' : ~row.confirmed => ~Store!Lapsed(row, clock[r])
  BY DEF Open, Store!Open, Store!Pruned
<1>5. Turns(r)'
  <2>1. \A row : Store!Lapsed(row, clock[r])' = Store!Lapsed(row, clock[r])
    BY <1>1 DEF Store!Lapsed
  <2> QED
    BY <1>1, <1>2, <1>3, <1>4, CycleAssumption DEF Turns, After, Store!Lapsed
<1>6. \A f \in Flights : ~Turning(r, f)' /\ ~Written(r, f)' /\ ~ReadOut(r, f)'
  BY <1>1, <1>2 DEF Turning, Written, ReadOut
<1>7. Offers(r)' /\ Readouts(r)'
  BY <1>1, <1>6 DEF Offers, Readouts, After
<1>8. \A f \in Flights : InboundTurn(r, f)' /\ GateTurn(r, f)'
  BY <1>6 DEF InboundTurn, GateTurn
<1> QED
  BY <1>5, <1>7, <1>8 DEF Hand

(* A step that moves the runner on without touching what it knows. *)
LEMMA SameHand ==
  ASSUME NEW r \in Runners, Hand(r), UNCHANGED <<notices, record, clock[r], seen[r]>>,
         \A f \in Flights : dropped[f] \subseteq dropped'[f] /\ (~Alive(f) => ~Alive(f)'),
         work'[r] = work[r] \/ pc[r] = "collect",
         work'[r].todo \subseteq work[r].todo,
         UNCHANGED <<work[r].flight, work[r].fresh, work[r].offers, work[r].verified,
                     work[r].removed, work[r].phases>>,
         pc'[r] = pc[r] \/ (pc[r] \in After /\ pc'[r] \in After),
         pc'[r] \in {"wait", "confirm"} => \A id \in current'[r] : Holds(r, id),
         work[r].flight # None => work[r].flight \in Flights
  PROVE  Hand(r)'
<1>1. \A f, e, at : NoticeIsCurrent(f, e, at)' <=> NoticeIsCurrent(f, e, at)
  BY SameRecord
<1>2. \A id : Holds(r, id) => Holds(r, id)'
  BY <1>1 DEF Holds
<1>3. Upheld(r) => Upheld(r)'
  BY <1>1 DEF Upheld
<1>4. /\ pc'[r] = "collect" <=> pc[r] = "collect"
      /\ pc'[r] \in After <=> pc[r] \in After
      /\ pc'[r] \in {"idle", "begun"} <=> pc[r] \in {"idle", "begun"}
      /\ pc'[r] = "begun" <=> pc[r] = "begun"
      /\ pc'[r] = "idle" <=> pc[r] = "idle"
  BY DEF After
<1>5. Turns(r)'
  <2> DEFINE w == work[r]
  <2>1. pc'[r] \in {"idle", "begun"} => work'[r] = IdleWork
    BY <1>4 DEF Hand, Turns
  <2>2. pc'[r] # "idle" => seen'[r] = Flights
    BY <1>4 DEF Hand, Turns
  <2>3. pc'[r] = "begun" => \A f \in Flights : record'[f].polled < clock'[r]
    BY <1>4 DEF Hand, Turns
  <2>4. pc'[r] = "collect" =>
       /\ \A f \in Flights : f \in work'[r].todo \/ f = work'[r].flight => record'[f].polled < clock'[r]
       /\ work'[r].todo \cap work'[r].verified = {} /\ work'[r].flight \notin work'[r].todo
    BY <1>4 DEF Hand, Turns
  <2>5. pc'[r] = "collect" =>
       /\ work'[r].flight # None => (work'[r].flight \in work'[r].verified <=> work'[r].fresh # None)
       /\ work'[r].flight = None => work'[r].fresh = None
       /\ work'[r].fresh = None => work'[r].offers \subseteq {Removed}
       /\ \A row \in notices' : ~row.confirmed => ~Store!Lapsed(row, clock'[r])
    BY <1>4 DEF Hand, Turns
  <2>6. pc'[r] = "collect" /\ work'[r].flight # None /\ Gone(work'[r].fresh) =>
          truth'[work'[r].flight].status = "cancelled"
    BY <1>4 DEF Hand, Turns, Alive
  <2>7. pc'[r] \in After => Upheld(r)'
    BY <1>3, <1>4 DEF Hand, Turns
  <2>8. pc'[r] \in {"wait", "confirm"} => \A id \in current'[r] : Holds(r, id)'
    BY <1>2
  <2>9. \A row \in notices' : Seen(row) /\ row.flight \in work'[r].verified
            /\ row.flight # work'[r].flight => row.prior < record'[row.flight].polled
    BY DEF Hand, Turns
  <2> QED
    BY <2>1, <2>2, <2>3, <2>4, <2>5, <2>6, <2>7, <2>8, <2>9 DEF Turns, Seen, Gone, Store!Lapsed
<1>6. Offers(r)'
  BY <1>4, SameFlight DEF Hand, Offers, Turning
<1>7. Readouts(r)'
  <2>1. ASSUME NEW f \in Flights, ReadOut(r, f)'
        PROVE  /\ f \in work'[r].verified
               /\ \A row \in Of(f, "gate_assignment")' :
                    row.event.gate = IF work'[r].flight = f THEN work'[r].fresh.gate
                                     ELSE record'[f].snap.gate
    BY <2>1, SameFlight DEF Hand, Readouts, ReadOut
  <2>2. ASSUME NEW f \in Flights, pc'[r] \in After, f \in work'[r].verified,
               Unsent(f, "gate_assignment")' # {}
        PROVE  ReadOut(r, f)'
    <3>1. Unsent(f, "gate_assignment")' = Unsent(f, "gate_assignment")
      BY SameFlight
    <3> QED
      BY <1>4, <2>2, <3>1 DEF Hand, Readouts, ReadOut
  <2> QED
    BY <2>1, <2>2 DEF Readouts
<1>8. ASSUME NEW f \in Flights PROVE InboundTurn(r, f)' /\ GateTurn(r, f)'
  <2>1. /\ Turning(r, f)' = Turning(r, f) /\ Written(r, f)' = Written(r, f)
        /\ ReadOut(r, f)' = ReadOut(r, f)
    BY <1>4 DEF Turning, Written, ReadOut
  <2>2. Warned(f)' => Warned(f)
    BY SameFlight, SameWarning
  <2>3. (Followed(f)' => Followed(f)) /\ (Alive(f)' => Alive(f))
    BY DEF Followed
  <2>4. InboundTurn(r, f)'
    BY <2>1, <2>2, SameFlight DEF Hand, InboundTurn, Gone
  <2>5. GateTurn(r, f)'
    BY <2>1, <2>3, SameFlight DEF Hand, GateTurn, Gone
  <2> QED
    BY <2>4, <2>5
<1> QED
  BY <1>5, <1>6, <1>7, <1>8 DEF Hand

(* Which rule an event of a poll comes from. *)
LEMMA ObservedParts ==
  ASSUME CycleInv, NEW f \in Flights, NEW new \in Snapshot, NEW at \in Nat
  PROVE  LET marked == Marked(notices, f)
             prev == record[f].snap
             gates == GateFiltered(GateRefreshed(notices, f, new, GateNews(prev, new)), marked, new, at)
             inbound == InboundRefreshed(notices, f, new, InboundNews(prev, new))
         IN /\ gates \cup inbound \subseteq Observed(notices, f, new, at)
            /\ \A e \in Observed(notices, f, new, at) :
                 /\ e.reason = "gate_change" => e \in gates
                 /\ e.reason = "inbound_delay_retracted" => e \in inbound
                 /\ e.reason = "gate_assignment" =>
                      ReadoutDue(new, marked, at) /\ e = Readout(new.gate)
<1> DEFINE marked == Marked(notices, f)
           prev == record[f].snap
           gates == GateFiltered(GateRefreshed(notices, f, new, GateNews(prev, new)), marked, new, at)
           inbound == InboundRefreshed(notices, f, new, InboundNews(prev, new))
           status == StatusNews(prev, new)
           boarding == IF "boarding_started" \in marked THEN {}
                       ELSE BoardingNews(prev, new, record[f].polled, at)
           delays == DelayRefreshed(notices, f, new, DelayNews(prev, new))
           readout == IF ReadoutDue(new, marked, at) THEN {Readout(new.gate)} ELSE {}
<1>1. Observed(notices, f, new, at) = UNION {status, boarding, gates, delays, inbound, readout}
  BY DEF Observed
<1>2. \A e \in status : e.reason = "cancelled"
  BY DEF StatusNews, Cancelled
<1>3. \A e \in boarding : e.reason = "boarding_started"
  BY DEF BoardingNews, Boarding
<1>4. \A e \in delays : e.reason = "delay"
  BY DEF DelayRefreshed, DelayNews, Delay
<1>5. \A e \in gates : e.reason = "gate_change"
  BY DEF GateFiltered, GateRefreshed, GateNews, GateChange
<1>6. \A e \in inbound : e.reason \in {"inbound_delay_predicted", "inbound_delay_retracted"}
  <2>1. \A e \in InboundNews(prev, new) :
          e.reason \in {"inbound_delay_predicted", "inbound_delay_retracted"}
    BY DEF InboundNews, Predicted, Retracted
  <2>2. \A e \in Pending(notices, f, "inbound_delay_retracted") :
          [e EXCEPT !.new = new.inbound].reason = "inbound_delay_retracted"
    <3>1. ASSUME NEW e \in Pending(notices, f, "inbound_delay_retracted")
          PROVE  [e EXCEPT !.new = new.inbound].reason = "inbound_delay_retracted"
      <4>1. e \in Events /\ e.reason = "inbound_delay_retracted"
        BY DEF Pending, CycleInv, Observations, Store!Row
      <4>2. e = Retracted(e.prev, e.new)
        BY <4>1, EventFacts
      <4>3. PICK a : a = e.prev
        OBVIOUS
      <4>4. PICK b : b = e.new
        OBVIOUS
      <4>5. e = Retracted(a, b)
        BY <4>2, <4>3, <4>4
      <4> QED
        BY <4>5 DEF Retracted
    <3> QED
      BY <3>1
  <2>3. /\ \A m : Predicted(m).reason = "inbound_delay_predicted"
        /\ \A m, n : Retracted(m, n).reason = "inbound_delay_retracted"
    BY DEF Predicted, Retracted
  <2> DEFINE told == {e \in LastConfirmed(notices, f, InboundReasons) :
                        e.reason = "inbound_delay_predicted"}
             news == InboundNews(prev, new)
             clearing == Pending(notices, f, "inbound_delay_retracted")
  <2>4. \/ inbound = {Predicted(new.inbound)} \/ inbound = news
        \/ inbound = {Retracted(e.minutes, new.inbound) : e \in told}
        \/ inbound = {[e EXCEPT !.new = new.inbound] : e \in clearing}
    BY DEF InboundRefreshed
  <2> HIDE DEF told, news, clearing, inbound
  <2>5. CASE inbound = {Retracted(e.minutes, new.inbound) : e \in told}
    BY <2>3, <2>5
  <2>6. CASE inbound = {[e EXCEPT !.new = new.inbound] : e \in clearing}
    BY <2>2, <2>6 DEF clearing
  <2> QED
    BY <2>1, <2>3, <2>4, <2>5, <2>6 DEF news
<1>7. \A e \in readout : e.reason = "gate_assignment" /\ ReadoutDue(new, marked, at)
                          /\ e = Readout(new.gate)
  BY DEF Readout
<1> HIDE DEF marked, prev, gates, inbound, status, boarding, delays, readout
<1>8. /\ gates \cup inbound \subseteq Observed(notices, f, new, at)
      /\ \A e \in Observed(notices, f, new, at) :
           /\ e.reason = "gate_change" => e \in gates
           /\ e.reason = "inbound_delay_retracted" => e \in inbound
           /\ e.reason = "gate_assignment" => ReadoutDue(new, marked, at) /\ e = Readout(new.gate)
  BY <1>1, <1>2, <1>3, <1>4, <1>5, <1>6, <1>7
<1> QED
  BY <1>8 DEF marked, prev, gates, inbound

(* Rows seen through the sets the refresh rules look at. *)
LEMMA PendingRows ==
  ASSUME NEW f, NEW reason
  PROVE  /\ Pending(notices, f, reason) = {row.event : row \in Unsent(f, reason)}
         /\ \A reasons : LastConfirmed(notices, f, reasons) = {row.event : row \in Latest(f, reasons)}
<1>1. Pending(notices, f, reason) = {row.event : row \in Unsent(f, reason)}
  BY DEF Pending, Unsent, Of
<1>2. \A reasons : LastConfirmed(notices, f, reasons) = {row.event : row \in Latest(f, reasons)}
  BY DEF LastConfirmed, Latest, Sent
<1> QED
  BY <1>1, <1>2

(* Whoever was told something of a living flight has it on record, alive. *)
LEMMA ReceiptAfloat ==
  ASSUME CycleInv, Disk, NEW f \in Flights, NEW reasons, "removed_upstream" \notin reasons,
         NEW row \in Sent(f, reasons), Alive(f)
  PROVE  Afloat(f)
<1>1. row \in notices /\ row.flight = f /\ Seen(row) /\ row.confirmed
  BY DEF Sent, Seen
<1>2. record[f].snap # None
  BY <1>1 DEF Disk, Timed
<1> QED
  BY <1>2 DEF Disk, Final, Alive, Afloat, Gone

(* A poll that finds the estimate withdrawn raises the all-clear, or finds it
   waiting. *)
LEMMA PollInbound ==
  ASSUME CycleInv, NewsInv, NEW f \in Flights, NEW new \in Snapshot, new = truth[f], NEW at \in Nat
  PROVE  /\ \A e \in Observed(notices, f, new, at) :
              e.reason = "inbound_delay_retracted" => e.new = new.inbound
         /\ Warned(f) /\ ~Gone(new) =>
              \/ Delayed(new) \/ Clearing(f, new.inbound)
              \/ \E e \in Observed(notices, f, new, at) : e.reason = "inbound_delay_retracted"
<1> DEFINE prev == record[f].snap
           unsent == Pending(notices, f, "inbound_delay_predicted")
           clearing == Pending(notices, f, "inbound_delay_retracted")
           told == {e \in LastConfirmed(notices, f, InboundReasons) :
                      e.reason = "inbound_delay_predicted"}
           news == InboundNews(prev, new)
           found == InboundRefreshed(notices, f, new, news)
<1>1. /\ found \subseteq Observed(notices, f, new, at)
      /\ \A e \in Observed(notices, f, new, at) : e.reason = "inbound_delay_retracted" => e \in found
  BY ObservedParts
<1>2. \A m, n : Retracted(m, n).reason = "inbound_delay_retracted" /\ Retracted(m, n).new = n
  BY DEF Retracted
<1>3. \A m : Predicted(m).reason = "inbound_delay_predicted"
  BY DEF Predicted
<1>4. \A e \in clearing : [e EXCEPT !.new = new.inbound].reason = "inbound_delay_retracted"
                          /\ [e EXCEPT !.new = new.inbound].new = new.inbound
  <2>1. ASSUME NEW e \in clearing
        PROVE  [e EXCEPT !.new = new.inbound].reason = "inbound_delay_retracted"
               /\ [e EXCEPT !.new = new.inbound].new = new.inbound
    <3>1. e \in Events /\ e.reason = "inbound_delay_retracted"
      BY DEF Pending, CycleInv, Observations, Store!Row
    <3>2. e = Retracted(e.prev, e.new)
      BY <3>1, EventFacts
    <3>3. PICK a : a = e.prev
      OBVIOUS
    <3>4. PICK b : b = e.new
      OBVIOUS
    <3>5. e = Retracted(a, b)
      BY <3>2, <3>3, <3>4
    <3> QED
      BY <3>5 DEF Retracted
  <2> QED
    BY <2>1
<1>5. \A e \in news : e.reason = "inbound_delay_retracted" => e.new = new.inbound
  BY <1>2, <1>3 DEF InboundNews
<1>6. found = IF Delayed(new)
              THEN IF unsent # {} THEN {Predicted(new.inbound)} ELSE news
              ELSE IF unsent # {} THEN {Retracted(e.minutes, new.inbound) : e \in told}
              ELSE IF clearing # {} THEN {[e EXCEPT !.new = new.inbound] : e \in clearing}
              ELSE news
  BY DEF InboundRefreshed
<1>7. ASSUME Warned(f), ~Gone(new), ~Delayed(new)
      PROVE  \E e \in found : e.reason = "inbound_delay_retracted"
  <2>1. PICK row \in Latest(f, InboundReasons) : row.event.reason = "inbound_delay_predicted"
    BY <1>7 DEF Warned
  <2>2. row.event \in told
    <3>1. LastConfirmed(notices, f, InboundReasons) = {x.event : x \in Latest(f, InboundReasons)}
      BY PendingRows
    <3> QED
      BY <2>1, <3>1
  <2>3. Afloat(f)
    <3>1. row \in Sent(f, InboundReasons)
      BY DEF Latest
    <3>2. Alive(f)
      BY <1>7, NoneAssumption DEF Alive, Gone
    <3> QED
      BY <3>1, <3>2, ReceiptAfloat DEF NewsInv, InboundReasons
  <2>4. Delayed(prev) \/ clearing # {}
    <3>1. Unsent(f, "inbound_delay_retracted") # {} => clearing # {}
      BY PendingRows
    <3> QED
      BY <1>7, <2>3, <3>1 DEF NewsInv, Disk, InboundKept
  <2>5. prev # None
    BY <2>3 DEF Afloat
  <2>6. CASE unsent # {}
    BY <1>2, <1>6, <1>7, <2>2, <2>6
  <2>7. CASE unsent = {} /\ clearing # {}
    BY <1>4, <1>6, <1>7, <2>7
  <2>8. CASE unsent = {} /\ clearing = {}
    <3>1. news = {Retracted(prev.inbound, new.inbound)}
      BY <1>7, <2>4, <2>5, <2>8 DEF InboundNews
    <3> QED
      BY <1>2, <1>6, <1>7, <2>8, <3>1
  <2> QED
    BY <2>6, <2>7, <2>8
<1> HIDE DEF found, news, told, clearing, unsent, prev
<1>8. \A e \in found : e.reason = "inbound_delay_retracted" => e.new = new.inbound
  <2>1. CASE found = {Retracted(e.minutes, new.inbound) : e \in told}
    BY <1>2, <2>1
  <2>2. CASE found = {[e EXCEPT !.new = new.inbound] : e \in clearing}
    BY <1>4, <2>2
  <2>3. CASE found = {Predicted(new.inbound)}
    BY <1>3, <2>3
  <2>4. CASE found = news
    BY <1>5, <2>4
  <2> QED
    BY <1>6, <2>1, <2>2, <2>3, <2>4
<1> QED
  BY <1>1, <1>7, <1>8

(* A poll that finds the gate moved says so, from where the operator was left,
   unless the filter fell silent. *)
LEMMA PollGate ==
  ASSUME CycleInv, NewsInv, NEW f \in Flights, NEW new \in Snapshot, new = truth[f], NEW at \in Nat
  PROVE  /\ \A e \in Observed(notices, f, new, at) :
              /\ e.reason = "gate_change" => e.to = new.gate
              /\ e.reason = "gate_assignment" =>
                   e.gate = new.gate /\ \A row \in Of(f, "gate_assignment") : ~row.confirmed
         /\ Followed(f) /\ ~Muted(notices, f, new, at) =>
              /\ Alive(f) => \A e \in Observed(notices, f, new, at) :
                               e.reason = "gate_change" => Knows(f, e.from)
              /\ ~Gone(new) => \/ Knows(f, new.gate)
                              \/ \E e \in Observed(notices, f, new, at) : e.reason = "gate_change"
              /\ (\E e \in Observed(notices, f, new, at) : e.reason = "gate_assignment") =>
                   /\ Of(f, "gate_change") = {}
                   /\ \A e \in Observed(notices, f, new, at) : e.reason # "gate_change"
<1> DEFINE prev == record[f].snap
           marked == Marked(notices, f)
           unsent == Pending(notices, f, "gate_change")
           gates == GateRefreshed(notices, f, new, GateNews(prev, new))
           passed == GateFiltered(gates, marked, new, at)
           offers == Observed(notices, f, new, at)
<1>1. /\ passed \subseteq offers
      /\ \A e \in offers : e.reason = "gate_change" => e \in passed
      /\ \A e \in offers : e.reason = "gate_assignment" =>
           ReadoutDue(new, marked, at) /\ e = Readout(new.gate)
  BY ObservedParts
<1>2. \A g, h : GateChange(g, h).reason = "gate_change" /\ GateChange(g, h).from = g
               /\ GateChange(g, h).to = h
  BY DEF GateChange
<1>3. \A e \in passed : e \in gates /\ e.reason = "gate_change" /\ e.to = new.gate
  BY <1>2 DEF GateFiltered, GateRefreshed, GateNews
<1>4. unsent = {row.event : row \in Unsent(f, "gate_change")}
  BY PendingRows
<1>5. Disk
  BY DEF NewsInv
<1>6. ASSUME Followed(f), Alive(f), NEW e \in gates PROVE Knows(f, e.from)
  <2>1. CASE unsent # {}
    <3>1. PICK p \in unsent : e = GateChange(p.from, new.gate)
      BY <1>6, <2>1 DEF GateRefreshed
    <3>2. Knows(f, p.from)
      BY <1>4, <1>5, <1>6 DEF Disk, GateKept
    <3> QED
      BY <1>2, <3>1, <3>2
  <2>2. CASE unsent = {}
    <3>1. prev # None /\ e = GateChange(prev.gate, new.gate)
      BY <1>6, <2>2 DEF GateRefreshed, GateNews
    <3>2. Afloat(f)
      BY <1>5, <1>6, <3>1 DEF Disk, Final, Alive, Afloat, Gone
    <3>3. Unsent(f, "gate_change") = {}
      BY <1>4, <2>2
    <3>4. Knows(f, prev.gate)
      BY <1>5, <1>6, <3>2, <3>3 DEF Disk, GateKept
    <3> QED
      BY <1>2, <3>1, <3>4
  <2> QED
    BY <2>1, <2>2
<1>7. ASSUME Followed(f), ~Muted(notices, f, new, at), ~Gone(new), ~Knows(f, new.gate)
      PROVE  passed # {}
  <2>1. PICK row \in Latest(f, GateReasons) : Word(row) \notin {new.gate, NoGate}
    BY <1>7, KnowsRows
  <2>2. row \in Sent(f, GateReasons)
    BY DEF Latest
  <2>3. Alive(f)
    BY <1>7, NoneAssumption DEF Alive, Gone
  <2>4. Afloat(f)
    BY <1>5, <2>2, <2>3, ReceiptAfloat DEF GateReasons
  <2>5. "gate_assignment" \in marked \/ BoardingOrGone(new, at)
    <3>1. CASE row.event.reason = "gate_assignment"
      BY <2>2, <3>1 DEF Marked, Sent, PhaseReasons
    <3>2. CASE row.event.reason = "gate_change"
      BY <1>7, <2>2, <3>2 DEF Muted, Sent
    <3> QED
      BY <2>2, <3>1, <3>2 DEF Sent, GateReasons
  <2>6. passed = gates
    BY <2>5 DEF GateFiltered
  <2>7. CASE unsent # {}
    <3>1. PICK p \in Unsent(f, "gate_change") : p.event \in unsent
      BY <1>4, <2>7
    <3>2. Knows(f, p.event.from)
      BY <1>5, <1>7, <2>3, <3>1 DEF Disk, GateKept
    <3>3. p.event.from # new.gate
      BY <1>7, <3>2
    <3> QED
      BY <2>6, <2>7, <3>1, <3>3 DEF GateRefreshed
  <2>8. CASE unsent = {}
    <3>1. Unsent(f, "gate_change") = {}
      BY <1>4, <2>8
    <3>2. Knows(f, prev.gate)
      BY <1>5, <1>7, <2>4, <3>1 DEF Disk, GateKept
    <3>3. prev.gate # new.gate
      BY <1>7, <3>2
    <3>4. prev.gate # NoGate
      BY <1>7, <3>2 DEF Knows
    <3>5. prev # None
      BY <2>4 DEF Afloat
    <3> QED
      BY <2>6, <2>8, <3>3, <3>4, <3>5 DEF GateRefreshed, GateNews
  <2> QED
    BY <2>7, <2>8
<1>8. ASSUME ReadoutDue(new, marked, at), ~Muted(notices, f, new, at)
      PROVE  passed = {} /\ Of(f, "gate_change") = {}
  <2>1. "gate_assignment" \notin marked /\ ~BoardingOrGone(new, at)
    BY <1>8 DEF ReadoutDue
  <2> QED
    BY <1>8, <2>1 DEF GateFiltered, Muted, Of
<1>9. Readout(new.gate).gate = new.gate
  BY DEF Readout
<1>11. ReadoutDue(new, marked, at) => \A row \in Of(f, "gate_assignment") : ~row.confirmed
  BY DEF ReadoutDue, Marked, PhaseReasons, Of
<1> HIDE DEF passed, gates, offers, marked
<1>10. /\ \A e \in offers :
            /\ e.reason = "gate_change" => e.to = new.gate
            /\ e.reason = "gate_assignment" =>
                 e.gate = new.gate /\ \A row \in Of(f, "gate_assignment") : ~row.confirmed
       /\ Followed(f) /\ ~Muted(notices, f, new, at) =>
            /\ Alive(f) => \A e \in offers : e.reason = "gate_change" => Knows(f, e.from)
            /\ ~Gone(new) => Knows(f, new.gate) \/ \E e \in offers : e.reason = "gate_change"
            /\ (\E e \in offers : e.reason = "gate_assignment") =>
                 Of(f, "gate_change") = {} /\ \A e \in offers : e.reason # "gate_change"
  BY <1>1, <1>3, <1>6, <1>7, <1>8, <1>9, <1>11
<1> QED
  BY <1>10 DEF offers, marked

LEMMA PollHand ==
  ASSUME CycleInv, SentInv, NewsInv, NEW r \in Runners, NEW f \in Flights, Poll(r, f)
  PROVE  Hand(r)'
<1> DEFINE new == truth[f]
           found == Observed(notices, f, new, clock[r])
<1>1. /\ pc[r] = "collect" /\ work[r].flight = None /\ f \in work[r].todo /\ Hand(r)
      /\ UNCHANGED <<notices, record, truth, pc, clock, seen, current>>
  BY DEF Poll, Turn, NewsInv, journalVars
<1>2. /\ work'[r].todo = work[r].todo \ {f} /\ work'[r].flight = f /\ work'[r].fresh = new
      /\ work'[r].verified = work[r].verified \cup {f} /\ work'[r].offers = found
      /\ work'[r].phases = work[r].phases
  BY DEF Poll, CycleInv, Work
<1>3. new \in Snapshot /\ clock[r] \in Nat /\ new # None /\ f # None
  BY CycleAssumption, NoneAssumption DEF CycleInv, Records, Clocks
<1>4. \A g \in Flights : dropped[g] \subseteq dropped'[g]
      /\ (g = f /\ Followed(g)' => ~Muted(notices, f, new, clock[r]))
  BY DEF Poll, Followed
<1> HIDE DEF found
<1>5. Turns(r)'
  <2>1. \A g \in Flights : g \in work'[r].todo \/ g = f => record[g].polled < clock[r]
    BY <1>1, <1>2 DEF Hand, Turns
  <2>2. work'[r].todo \cap work'[r].verified = {}
    BY <1>1, <1>2 DEF Hand, Turns
  <2>3. \A row \in notices : Seen(row) /\ row.flight \in work'[r].verified /\ row.flight # f =>
          row.prior < record[row.flight].polled
    BY <1>1, <1>2, CycleAssumption, RowFacts DEF Hand, Turns
  <2>4. \A row \in notices : ~row.confirmed => ~Store!Lapsed(row, clock[r])
    BY <1>1 DEF Hand, Turns
  <2>5. Gone(new) => truth'[f].status = "cancelled"
    BY <1>1 DEF Gone
  <2>6. seen[r] = Flights
    BY <1>1 DEF Hand, Turns
  <2> QED
    BY <1>1, <1>2, <1>3, <2>1, <2>2, <2>3, <2>4, <2>5, <2>6
       DEF Turns, Seen, Gone, Store!Lapsed, After
<1>6. /\ \A g : Turning(r, g)' => g = f
      /\ \A g \in Flights : Written(r, g)' => Written(r, g) /\ g # f
      /\ \A g : ReadOut(r, g)' <=> ReadOut(r, g)
      /\ ~ReadOut(r, f)
  BY <1>1, <1>2, <1>3, CycleAssumption DEF Turning, Written, ReadOut, Hand, Turns, Readouts
<1>7. Offers(r)'
  <2>1. \A e \in found :
          /\ e.reason = "inbound_delay_retracted" => e.new = new.inbound
          /\ e.reason = "gate_change" => e.to = new.gate
          /\ e.reason = "gate_assignment" =>
               e.gate = new.gate /\ \A row \in Of(f, "gate_assignment") : ~row.confirmed
    BY <1>3, PollInbound, PollGate DEF found
  <2>2. Of(f, "gate_assignment")' = Of(f, "gate_assignment")
    BY <1>1, SameFlight
  <2>3. \A g \in Flights : Turning(r, g)' => g = f
    BY <1>2 DEF Turning
  <2> QED
    BY <1>2, <2>1, <2>2, <2>3 DEF Offers
<1>8. Readouts(r)'
  <2>1. ASSUME NEW g \in Flights, ReadOut(r, g)
        PROVE  /\ g \in work'[r].verified /\ g # f
               /\ \A row \in Of(g, "gate_assignment") : row.event.gate = record[g].snap.gate
    <3>1. g # f
      BY <1>6, <2>1 DEF ReadOut
    <3>2. Readouts(r) /\ work[r].flight # g
      BY <1>1, CycleAssumption DEF Hand
    <3>3. g \in work[r].verified
      BY <2>1, <3>2 DEF Readouts
    <3>4. \A row \in Of(g, "gate_assignment") : row.event.gate = record[g].snap.gate
      BY <2>1, <3>2 DEF Readouts
    <3> QED
      BY <1>2, <3>1, <3>3, <3>4
  <2>2. ASSUME NEW g \in Flights, ReadOut(r, g)'
        PROVE  /\ g \in work'[r].verified
               /\ \A row \in Of(g, "gate_assignment")' :
                    row.event.gate = IF work'[r].flight = g THEN work'[r].fresh.gate
                                     ELSE record'[g].snap.gate
    <3>1. Of(g, "gate_assignment")' = Of(g, "gate_assignment")
      BY <1>1, SameFlight
    <3>2. ReadOut(r, g)
      BY <1>6, <2>2
    <3> QED
      BY <1>1, <1>2, <2>1, <3>1, <3>2
  <2>3. pc'[r] \notin After
    BY <1>1 DEF After
  <2> QED
    BY <2>2, <2>3 DEF Readouts
<1>9. ASSUME NEW g \in Flights PROVE InboundTurn(r, g)'
  <2>1. Warned(g)' => Warned(g)
    BY <1>1, <1>4, SameFlight, SameWarning
  <2>2. Warned(g) /\ g = f /\ ~Gone(new) =>
          \/ Delayed(new) \/ Clearing(f, new.inbound)
          \/ \E e \in found : e.reason = "inbound_delay_retracted"
    BY <1>3, PollInbound DEF found
  <2>3. Warned(g) /\ Written(r, g) /\ Afloat(g) =>
          Delayed(record[g].snap) \/ Clearing(g, record[g].snap.inbound)
    BY <1>1 DEF Hand, InboundTurn
  <2>4. /\ Unsent(g, "inbound_delay_retracted")' = Unsent(g, "inbound_delay_retracted")
        /\ Afloat(g)' = Afloat(g)
    BY <1>1, SameFlight
  <2>5. ASSUME Warned(g)', Turning(r, g)', ~Gone(work'[r].fresh)
        PROVE  \/ Delayed(work'[r].fresh)
               \/ \E row \in Unsent(g, "inbound_delay_retracted")' : row.event.new = work'[r].fresh.inbound
               \/ \E e \in work'[r].offers : e.reason = "inbound_delay_retracted"
    BY <1>2, <1>6, <2>1, <2>2, <2>4, <2>5 DEF Clearing
  <2>6. ASSUME Warned(g)', Written(r, g)', Afloat(g)'
        PROVE  \/ Delayed(record'[g].snap)
               \/ \E row \in Unsent(g, "inbound_delay_retracted")' : row.event.new = record'[g].snap.inbound
    BY <1>1, <1>6, <2>1, <2>3, <2>4, <2>6 DEF Clearing
  <2> QED
    BY <2>5, <2>6 DEF InboundTurn, Clearing, Gone, Delayed
<1>10. ASSUME NEW g \in Flights PROVE GateTurn(r, g)'
  <2>1. (Followed(g)' => Followed(g)) /\ Alive(g)' = Alive(g)
    BY <1>1, <1>4 DEF Followed, Alive
  <2>2. Followed(g)' /\ g = f =>
          /\ Alive(f) => \A e \in found : e.reason = "gate_change" => Knows(f, e.from)
          /\ ~Gone(new) => Knows(f, new.gate) \/ \E e \in found : e.reason = "gate_change"
          /\ (\E e \in found : e.reason = "gate_assignment") =>
               /\ Of(f, "gate_change") = {}
               /\ \A e \in found : e.reason # "gate_change"
    BY <1>3, <1>4, <2>1, PollGate DEF found
  <2>3. Followed(g) =>
          /\ Written(r, g) /\ Afloat(g) =>
               Knows(g, record[g].snap.gate) \/ Moving(g, record[g].snap.gate)
          /\ ReadOut(r, g) => Of(g, "gate_change") = {}
    BY <1>1 DEF Hand, GateTurn
  <2>4. /\ Unsent(g, "gate_change")' = Unsent(g, "gate_change") /\ Of(g, "gate_change")' = Of(g, "gate_change")
        /\ Afloat(g)' = Afloat(g) /\ ToldGate(g)' = ToldGate(g)
    BY <1>1, SameFlight
  <2> SUFFICES ASSUME Followed(g)'
      PROVE
        /\ Turning(r, g)' =>
             /\ Alive(g)' => \A e \in work'[r].offers : e.reason = "gate_change" => ToldGate(g)' \subseteq {e.from, NoGate}
             /\ ~Gone(work'[r].fresh) =>
                  \/ ToldGate(g)' \subseteq {work'[r].fresh.gate, NoGate}
                  \/ \E row \in Unsent(g, "gate_change")' : row.event.to = work'[r].fresh.gate
                  \/ \E e \in work'[r].offers : e.reason = "gate_change"
        /\ Written(r, g)' /\ Afloat(g)' =>
             \/ ToldGate(g)' \subseteq {record'[g].snap.gate, NoGate}
             \/ \E row \in Unsent(g, "gate_change")' : row.event.to = record'[g].snap.gate
        /\ Turning(r, g)' /\ (\E e \in work'[r].offers : e.reason = "gate_assignment") =>
             \A e \in work'[r].offers : e.reason # "gate_change"
        /\ ReadOut(r, g)' \/ (Turning(r, g)' /\ \E e \in work'[r].offers : e.reason = "gate_assignment")
             => Of(g, "gate_change")' = {}
        /\ ReadOut(r, g)' /\ Turning(r, g)' => \A e \in work'[r].offers : e.reason # "gate_change"
    BY DEF GateTurn, Knows, Moving, Gone
  <2>5. Turning(r, g)' => g = f /\ ~ReadOut(r, g)'
    BY <1>6
  <2>6. CASE g = f
    BY <1>2, <1>6, <2>1, <2>2, <2>4, <2>5, <2>6 DEF Knows
  <2>7. CASE g # f
    BY <1>1, <1>2, <1>6, <2>1, <2>3, <2>4, <2>5, <2>7 DEF Knows, Moving
  <2> QED
    BY <2>6, <2>7
<1> QED
  BY <1>5, <1>7, <1>8, <1>9, <1>10 DEF Hand

(* A turn without an answer from byAir leaves what the cycle knows. *)
LEMMA BlankHand ==
  ASSUME CycleInv, NEW r \in Runners, Hand(r), pc[r] = "collect", pc'[r] = "collect",
         UNCHANGED <<notices, record, truth, dropped, clock[r], seen[r]>>,
         work[r].fresh = None, work'[r].fresh = None, work'[r].offers \subseteq {Removed},
         work'[r].todo \subseteq work[r].todo, UNCHANGED <<work[r].verified, work[r].phases>>,
         work'[r].flight = None \/ work'[r].flight \in work[r].todo \ work'[r].todo
  PROVE  Hand(r)'
<1>1. work'[r].flight # None => work'[r].flight \notin work[r].verified
  BY DEF Hand, Turns
<1>2. work[r].flight \notin work[r].verified
  BY CycleAssumption DEF Hand, Turns, CycleInv, Work
<1>3. None \notin work[r].todo
  BY CycleAssumption DEF CycleInv, Work
<1>4. Turns(r)'
  <2>1. \A f \in Flights : f \in work'[r].todo \/ f = work'[r].flight => record[f].polled < clock[r]
    BY CycleAssumption DEF Hand, Turns
  <2>2. work'[r].todo \cap work'[r].verified = {} /\ work'[r].flight \notin work'[r].todo
    BY <1>3 DEF Hand, Turns
  <2>3. \A row \in notices : ~row.confirmed => ~Store!Lapsed(row, clock[r])
    BY DEF Hand, Turns
  <2>4. \A row \in notices : Seen(row) /\ row.flight \in work[r].verified =>
          row.prior < record[row.flight].polled
    BY <1>2 DEF Hand, Turns
  <2>5. seen[r] = Flights
    BY DEF Hand, Turns
  <2>6. ~Gone(None)
    BY DEF Gone
  <2> QED
    BY <1>1, <2>1, <2>2, <2>3, <2>4, <2>5, <2>6 DEF Turns, Seen, Gone, Store!Lapsed, After
<1>5. \A f : ~Turning(r, f)'
  BY DEF Turning
<1>6. \A f \in Flights : Written(r, f)' => Written(r, f)
  BY <1>2 DEF Written
<1>7. \A f : ReadOut(r, f)' <=> ReadOut(r, f)
  BY DEF ReadOut
<1>8. Offers(r)'
  BY <1>5 DEF Offers
<1>9. Readouts(r)'
  <2>1. ASSUME NEW f \in Flights, ReadOut(r, f)'
        PROVE  /\ f \in work'[r].verified
               /\ \A row \in Of(f, "gate_assignment")' :
                    row.event.gate = IF work'[r].flight = f THEN work'[r].fresh.gate
                                     ELSE record'[f].snap.gate
    <3>1. ReadOut(r, f) /\ Of(f, "gate_assignment")' = Of(f, "gate_assignment")
      BY <1>7, <2>1, SameFlight
    <3>2. f \in work[r].verified
      BY <3>1 DEF Hand, Readouts
    <3>3. work[r].flight # f /\ work'[r].flight # f
      BY <1>1, <1>2, <3>2, CycleAssumption
    <3>4. \A row \in Of(f, "gate_assignment") : row.event.gate = record[f].snap.gate
      BY <3>1, <3>3 DEF Hand, Readouts
    <3> QED
      BY <3>1, <3>2, <3>3, <3>4
  <2> QED
    BY <2>1 DEF Readouts, After
<1>10. ASSUME NEW f \in Flights PROVE InboundTurn(r, f)'
  <2>1. Warned(f)' => Warned(f)
    BY SameFlight, SameWarning
  <2>2. /\ Unsent(f, "inbound_delay_retracted")' = Unsent(f, "inbound_delay_retracted")
        /\ Afloat(f)' = Afloat(f)
    BY SameFlight
  <2>3. Warned(f) /\ Written(r, f) /\ Afloat(f) =>
          \/ Delayed(record[f].snap)
          \/ \E row \in Unsent(f, "inbound_delay_retracted") : row.event.new = record[f].snap.inbound
    BY DEF Hand, InboundTurn, Clearing
  <2> QED
    BY <1>5, <1>6, <2>1, <2>2, <2>3 DEF InboundTurn, Clearing
<1>11. ASSUME NEW f \in Flights PROVE GateTurn(r, f)'
  <2>1. Followed(f)' => Followed(f)
    BY DEF Followed
  <2>2. /\ Unsent(f, "gate_change")' = Unsent(f, "gate_change") /\ Of(f, "gate_change")' = Of(f, "gate_change")
        /\ Afloat(f)' = Afloat(f) /\ ToldGate(f)' = ToldGate(f)
    BY SameFlight
  <2>3. Followed(f) =>
          /\ Written(r, f) /\ Afloat(f) =>
               \/ ToldGate(f) \subseteq {record[f].snap.gate, NoGate}
               \/ \E row \in Unsent(f, "gate_change") : row.event.to = record[f].snap.gate
          /\ ReadOut(r, f) => Of(f, "gate_change") = {}
    BY DEF Hand, GateTurn, Knows, Moving
  <2> QED
    BY <1>5, <1>6, <1>7, <2>1, <2>2, <2>3 DEF GateTurn, Knows, Moving
<1> QED
  BY <1>4, <1>8, <1>9, <1>10, <1>11 DEF Hand

LEMMA PollGoneHand ==
  ASSUME CycleInv, SentInv, NewsInv, NEW r \in Runners, NEW f \in Flights, PollGone(r, f)
  PROVE  Hand(r)'
<1>1. /\ pc[r] = "collect" /\ work[r].flight = None /\ f \in work[r].todo /\ Hand(r)
      /\ UNCHANGED <<notices, record, truth, dropped, pc, clock, seen>>
  BY DEF PollGone, Turn, NewsInv, journalVars
<1>2. /\ work'[r].todo = work[r].todo \ {f} /\ work'[r].flight = f /\ work'[r].fresh = work[r].fresh
      /\ work'[r].verified = work[r].verified /\ work'[r].offers = {Removed}
      /\ work'[r].phases = work[r].phases
  BY DEF PollGone, CycleInv, Work
<1>3. work[r].fresh = None
  BY <1>1 DEF Hand, Turns
<1> QED
  BY <1>1, <1>2, <1>3, BlankHand

(* A flight that is passed over changes nothing the cycle knows. *)
LEMMA PassedHand ==
  ASSUME CycleInv, SentInv, NewsInv, NEW r \in Runners,
         Deferred(r) \/ \E f \in Flights : NotDue(r, f) \/ PollFailed(r, f)
  PROVE  Hand(r)'
<1>1. /\ pc[r] = "collect" /\ work[r].flight = None /\ Hand(r)
      /\ UNCHANGED <<notices, record, truth, dropped, pc, clock, seen>>
  BY DEF Deferred, NotDue, PollFailed, Turn, NewsInv, journalVars
<1>2. /\ work'[r].todo \subseteq work[r].todo /\ work'[r].flight = work[r].flight
      /\ work'[r].fresh = work[r].fresh /\ work'[r].verified = work[r].verified
      /\ work'[r].offers = work[r].offers /\ work'[r].phases = work[r].phases
  <2>1. CASE Deferred(r)
    BY <2>1 DEF Deferred, CycleInv, Work
  <2>2. ASSUME NEW f \in Flights, NotDue(r, f) \/ PollFailed(r, f)
        PROVE  /\ work'[r].todo \subseteq work[r].todo /\ work'[r].flight = work[r].flight
               /\ work'[r].fresh = work[r].fresh /\ work'[r].verified = work[r].verified
               /\ work'[r].offers = work[r].offers /\ work'[r].phases = work[r].phases
    BY <2>2 DEF NotDue, PollFailed, CycleInv, Work
  <2> QED
    BY <2>1, <2>2
<1>3. work[r].fresh = None /\ work[r].offers \subseteq {Removed}
  BY <1>1 DEF Hand, Turns
<1> QED
  BY <1>1, <1>2, <1>3, BlankHand

(* The record now says what the turn found. *)
LEMMA WriteHand ==
  ASSUME CycleInv, SentInv, NewsInv, NEW r \in Runners, WriteRecord(r)
  PROVE  Hand(r)'
<1> DEFINE w == work[r]
<1>1. /\ pc[r] = "collect" /\ w.flight \in Flights /\ w.flight # None /\ w.offers = {} /\ Hand(r)
      /\ UNCHANGED <<notices, truth, dropped, pc, clock, seen>>
  BY DEF WriteRecord, MayWrite, CycleInv, Work, NewsInv, journalVars
<1>2. /\ work'[r].todo = w.todo /\ work'[r].flight = None /\ work'[r].fresh = None
      /\ work'[r].offers = {} /\ work'[r].verified = w.verified /\ work'[r].phases = w.phases
  BY DEF WriteRecord, CycleInv, Work
<1>3. CASE w.fresh = None
  <2>1. record' = record
    BY <1>3 DEF WriteRecord
  <2> QED
    BY <1>1, <1>2, <1>3, <2>1, BlankHand
<1>4. ASSUME NEW f \in Flights, f = w.flight, NEW new \in Snapshot, new = w.fresh
      PROVE  Hand(r)'
  <2>1. /\ record'[f].snap = new /\ record'[f].polled = clock[r]
        /\ \A g \in Flights \ {f} : record'[g] = record[g]
    BY <1>4, NoneAssumption DEF WriteRecord, CycleInv, Records
  <2>2. f \in w.verified /\ f \notin w.todo /\ record[f].polled < clock[r] /\ Turning(r, f)
    BY <1>1, <1>4, NoneAssumption DEF Hand, Turns, Turning
  <2>3. Turns(r)'
    <3>1. \A g \in Flights : g \in w.todo => record'[g].polled < clock[r]
      BY <1>1, <2>1, <2>2 DEF Hand, Turns
    <3>2. w.todo \cap w.verified = {} /\ None \notin w.todo
      BY <1>1, CycleAssumption DEF Hand, Turns, CycleInv, Work
    <3>3. \A row \in notices : ~row.confirmed => ~Store!Lapsed(row, clock[r])
      BY <1>1 DEF Hand, Turns
    <3>4. ASSUME NEW row \in notices, Seen(row), row.flight \in w.verified
          PROVE  row.prior < record'[row.flight].polled
      <4>1. row.flight \in Flights /\ row.prior \in Nat
        BY DEF CycleInv, Observations, Store!Row
      <4>2. record[f].polled \in Nat /\ clock[r] \in Nat
        BY CycleAssumption DEF CycleInv, Records, Clocks
      <4>3. CASE row.flight = f
        BY <2>1, <2>2, <3>4, <4>1, <4>2, <4>3 DEF NewsInv, Disk, Timed
      <4>4. CASE row.flight # f
        BY <1>1, <1>4, <2>1, <3>4, <4>1, <4>4 DEF Hand, Turns
      <4> QED
        BY <4>3, <4>4
    <3>5. seen[r] = Flights
      BY <1>1 DEF Hand, Turns
    <3> QED
      BY <1>1, <1>2, <3>1, <3>2, <3>3, <3>4, <3>5, CycleAssumption
         DEF Turns, Seen, Gone, Store!Lapsed, After
  <2>4. /\ \A g : ~Turning(r, g)'
        /\ \A g \in Flights : Written(r, g)' => g = f \/ Written(r, g)
        /\ \A g : ReadOut(r, g)' <=> ReadOut(r, g)
    BY <1>1, <1>2, <1>4 DEF Turning, Written, ReadOut
  <2>5. Offers(r)'
    BY <2>4 DEF Offers
  <2>6. Readouts(r)'
    <3>1. ASSUME NEW g \in Flights, ReadOut(r, g)'
          PROVE  /\ g \in work'[r].verified
                 /\ \A row \in Of(g, "gate_assignment")' :
                      row.event.gate = IF work'[r].flight = g THEN work'[r].fresh.gate
                                       ELSE record'[g].snap.gate
      <4>1. Of(g, "gate_assignment")' = Of(g, "gate_assignment")
        BY <1>1 DEF Of
      <4>2. ReadOut(r, g)
        BY <2>4, <3>1
      <4>3. g \in w.verified /\ \A row \in Of(g, "gate_assignment") :
              row.event.gate = IF w.flight = g THEN w.fresh.gate ELSE record[g].snap.gate
        BY <1>1, <4>2 DEF Hand, Readouts
      <4> QED
        BY <1>2, <1>4, <2>1, <4>1, <4>3, CycleAssumption
    <3> QED
      BY <1>1, <3>1 DEF Readouts, After
  <2>7. ASSUME NEW g \in Flights PROVE InboundTurn(r, g)'
    <3>1. Unsent(g, "inbound_delay_retracted")' = Unsent(g, "inbound_delay_retracted")
          /\ Sent(g, InboundReasons)' = Sent(g, InboundReasons)
      BY <1>1 DEF Unsent, Of, Sent
    <3>2. Warned(g)' => Warned(g)
      BY <1>1, <3>1, SameWarning
    <3>3. ASSUME Warned(g), Written(r, g)', Afloat(g)'
          PROVE  \/ Delayed(record'[g].snap)
                 \/ \E row \in Unsent(g, "inbound_delay_retracted") : row.event.new = record'[g].snap.inbound
      <4>1. CASE g = f
        <5>1. ~Gone(new)
          BY <2>1, <3>3, <4>1 DEF Afloat, Gone
        <5> QED
          BY <1>1, <1>4, <2>1, <2>2, <3>3, <4>1, <5>1 DEF Hand, InboundTurn, Clearing
      <4>2. CASE g # f
        <5>1. record'[g] = record[g] /\ Afloat(g) /\ Written(r, g)
          BY <2>1, <2>4, <3>3, <4>2 DEF Afloat
        <5> QED
          BY <1>1, <3>3, <5>1 DEF Hand, InboundTurn, Clearing
      <4> QED
        BY <4>1, <4>2
    <3> QED
      BY <2>4, <3>1, <3>2, <3>3 DEF InboundTurn, Clearing, Delayed
  <2>8. ASSUME NEW g \in Flights PROVE GateTurn(r, g)'
    <3>1. /\ Unsent(g, "gate_change")' = Unsent(g, "gate_change")
          /\ Of(g, "gate_change")' = Of(g, "gate_change")
          /\ ToldGate(g)' = ToldGate(g) /\ (Followed(g)' => Followed(g))
      BY <1>1 DEF Unsent, Of, ToldGate, Followed
    <3>2. ASSUME Followed(g), Written(r, g)', Afloat(g)'
          PROVE  \/ ToldGate(g) \subseteq {record'[g].snap.gate, NoGate}
                 \/ \E row \in Unsent(g, "gate_change") : row.event.to = record'[g].snap.gate
      <4>1. CASE g = f
        <5>1. ~Gone(new)
          BY <2>1, <3>2, <4>1 DEF Afloat, Gone
        <5> QED
          BY <1>1, <1>4, <2>1, <2>2, <3>2, <4>1, <5>1 DEF Hand, GateTurn, Knows, Moving
      <4>2. CASE g # f
        <5>1. record'[g] = record[g] /\ Afloat(g) /\ Written(r, g)
          BY <2>1, <2>4, <3>2, <4>2 DEF Afloat
        <5> QED
          BY <1>1, <3>2, <5>1 DEF Hand, GateTurn, Knows, Moving
      <4> QED
        BY <4>1, <4>2
    <3>3. Followed(g) /\ ReadOut(r, g) => Of(g, "gate_change") = {}
      BY <1>1 DEF Hand, GateTurn
    <3> QED
      BY <2>4, <3>1, <3>2, <3>3 DEF GateTurn, Knows, Moving
  <2> QED
    BY <2>3, <2>5, <2>6, <2>7, <2>8 DEF Hand
<1> QED
  BY <1>1, <1>3, <1>4 DEF CycleInv, Work

(* Once reconciled, a cycle only sees rows go. *)
LEMMA ThinHand ==
  ASSUME Thins, NEW r \in Runners, Hand(r), pc'[r] \in {"settle", "deliver"},
         UNCHANGED <<work[r], seen[r]>>, seen[r] = Flights, work[r].flight = None, Upheld(r)',
         \A f \in Flights : f \in work[r].verified /\ Unsent(f, "gate_assignment")' # {} => ReadOut(r, f)
  PROVE  Hand(r)'
<1>1. \A new \in notices' : \E row \in notices : Same(new, row)
  BY DEF Thins
<1>2. Turns(r)'
  <2>1. ASSUME NEW new \in notices', Seen(new), new.flight \in work[r].verified, new.flight # work[r].flight
        PROVE  new.prior < record[new.flight].polled
    <3>1. PICK row \in notices : Same(new, row)
      BY <1>1
    <3>2. Seen(row) /\ row.flight = new.flight /\ row.prior = new.prior
      BY <2>1, <3>1 DEF Same, Seen
    <3> QED
      BY <2>1, <3>2 DEF Hand, Turns
  <2>2. record' = record
    BY DEF Thins
  <2> QED
    BY <2>1, <2>2 DEF Turns, Seen, After
<1>3. /\ \A f : ~Turning(r, f)' /\ ~Written(r, f)'
      /\ \A f : ReadOut(r, f)' <=> ReadOut(r, f)
  BY DEF Turning, Written, ReadOut
<1>4. Offers(r)'
  BY <1>3 DEF Offers
<1>5. Readouts(r)'
  <2>1. ASSUME NEW f \in Flights, ReadOut(r, f)
        PROVE  /\ f \in work[r].verified
               /\ \A new \in Of(f, "gate_assignment")' :
                    new.event.gate = IF work[r].flight = f THEN work[r].fresh.gate
                                     ELSE record[f].snap.gate
    <3>1. /\ f \in work[r].verified
          /\ \A row \in Of(f, "gate_assignment") :
               row.event.gate = IF work[r].flight = f THEN work[r].fresh.gate
                                ELSE record[f].snap.gate
      BY <2>1 DEF Hand, Readouts
    <3>2. \A new \in Of(f, "gate_assignment")' :
            \E row \in Of(f, "gate_assignment") : Same(new, row)
      BY ThinnedRows
    <3> QED
      BY <3>1, <3>2 DEF Same
  <2> QED
    BY <1>3, <2>1 DEF Readouts, Thins
<1>6. \A f \in Flights : InboundTurn(r, f)'
  BY <1>3 DEF InboundTurn
<1>7. ASSUME NEW f \in Flights PROVE GateTurn(r, f)'
  <2>1. Followed(f)' => Followed(f)
    BY DEF Thins, Followed
  <2>2. Of(f, "gate_change") = {} => Of(f, "gate_change")' = {}
    <3>1. \A new \in Of(f, "gate_change")' : \E row \in Of(f, "gate_change") : Same(new, row)
      BY ThinnedRows
    <3> QED
      BY <3>1
  <2>3. Followed(f) /\ ReadOut(r, f) => Of(f, "gate_change") = {}
    BY DEF Hand, GateTurn
  <2> QED
    BY <1>3, <2>1, <2>2, <2>3 DEF GateTurn
<1> QED
  BY <1>2, <1>4, <1>5, <1>6, <1>7 DEF Hand

LEMMA ReconcileHand ==
  ASSUME CycleInv, SentInv, NewsInv, NEW r \in Runners, Reconcile(r)
  PROVE  Hand(r)'
<1> DEFINE upheld == {<<row.flight, row.event>> : row \in {row \in notices :
                        NoticeIsCurrent(row.flight, row.event, clock[r])}}
<1>1. pc[r] = "collect" /\ work[r].flight = None /\ Hand(r)
      /\ pc'[r] = "settle" /\ UNCHANGED <<work, seen>>
  BY DEF Reconcile, Store!Reconcile, NewsInv, SentInv, Alone
<1>2. notices' = Store!Reconciled(notices, work[r].verified, work[r].phases, upheld)
  BY DEF Reconcile, Store!Reconcile
<1>3. seen[r] = Flights
  BY <1>1 DEF Hand, Turns
<1>4. Upheld(r)'
  BY <1>1, ReconcileStep DEF Sound
<1>5. ASSUME NEW f \in Flights, f \in work[r].verified, NEW row \in Unsent(f, "gate_assignment")'
      PROVE  ReadOut(r, f)
  <2>1. /\ row \in notices' /\ row.flight = f /\ row.event.reason = "gate_assignment"
        /\ ~row.confirmed
    BY DEF Unsent, Of
  <2>2. row \in notices
    BY <1>2, <2>1 DEF Store!Reconciled
  <2>3. Store!Dependencies(row) \subseteq work[r].verified
    BY <1>5, <2>1, <2>2, RowFacts
  <2> QED
    BY <1>2, <2>1, <2>3 DEF Store!Reconciled, PhaseReasons, ReadOut
<1> QED
  BY <1>1, <1>3, <1>4, <1>5, ReconcileDisk, ThinHand

LEMMA DueHand ==
  ASSUME CycleInv, SentInv, NewsInv, NEW r \in Runners, Due(r)
  PROVE  Hand(r)'
<1>1. pc[r] = "settle" /\ Hand(r) /\ pc'[r] = "deliver" /\ UNCHANGED <<work, seen>>
  BY DEF Due, Store!Due, NewsInv, SentInv, Alone
<1>2. seen[r] = Flights /\ Upheld(r)
  BY <1>1 DEF Hand, Turns, After
<1>3. Thins
  BY DueDisk
<1>4. Upheld(r)'
  <2>1. UNCHANGED <<record, clock>>
    BY <1>3 DEF Thins
  <2>2. ASSUME NEW new \in notices', new.flight \in work[r].verified, ~new.confirmed
        PROVE  NoticeIsCurrent(new.flight, new.event, clock[r])
    <3>1. PICK row \in notices : Same(new, row)
      BY <1>3 DEF Thins
    <3> QED
      BY <1>2, <2>2, <3>1 DEF Upheld, Same
  <2> QED
    BY <1>1, <1>2, <2>1, <2>2, SameRecord DEF Upheld
<1>5. ASSUME NEW f \in Flights, f \in work[r].verified, Unsent(f, "gate_assignment")' # {}
      PROVE  ReadOut(r, f)
  <2>1. Unsent(f, "gate_assignment") # {}
    <3>1. \A new \in Unsent(f, "gate_assignment")' :
            \E row \in Unsent(f, "gate_assignment") : Same(new, row)
      BY <1>3, ThinnedRows
    <3> QED
      BY <1>5, <3>1
  <2> QED
    BY <1>1, <1>5, <2>1 DEF Hand, Readouts, After
<1>6. work[r].flight = None
  BY <1>2 DEF Upheld
<1> QED
  BY <1>1, <1>2, <1>3, <1>4, <1>5, <1>6, ThinHand

(* An offer puts the observation into the journal and crosses it off. *)
LEMMA OfferedNow ==
  ASSUME NEW f, NEW e, NEW n, OfferAdds(f, e, n) \/ OfferFinds(f, e)
  PROVE  /\ \A g, reason : g # f \/ reason # e.reason =>
              Unsent(g, reason)' = Unsent(g, reason) /\ Of(g, reason)' = Of(g, reason)
         /\ \A g, reasons : Sent(g, reasons)' = Sent(g, reasons)
         /\ e.reason \in {"gate_change", "inbound_delay_retracted"} =>
              \E row \in Unsent(f, e.reason)' : row.event = e
<1>1. CASE OfferFinds(f, e)
  <2>1. notices' = notices
    BY <1>1 DEF OfferFinds
  <2>2. /\ \A g, reason : Unsent(g, reason)' = Unsent(g, reason) /\ Of(g, reason)' = Of(g, reason)
        /\ \A g, reasons : Sent(g, reasons)' = Sent(g, reasons)
    BY <2>1 DEF Unsent, Of, Sent
  <2>3. ASSUME e.reason \in {"gate_change", "inbound_delay_retracted"}
        PROVE  \E row \in Unsent(f, e.reason)' : row.event = e
    <3>1. \E row \in Unsent(f, e.reason) : row.event = e
      BY <1>1, <2>3 DEF OfferFinds
    <3>2. Unsent(f, e.reason)' = Unsent(f, e.reason)
      BY <2>1 DEF Unsent, Of
    <3> QED
      BY <3>1, <3>2
  <2> QED
    BY <2>2, <2>3
<1>2. CASE OfferAdds(f, e, n)
  <2>1. n.event = e
    BY <1>2 DEF OfferAdds
  <2> QED
    BY <1>2, <2>1, OfferElsewhere
<1> QED
  BY <1>1, <1>2

LEMMA OfferHand ==
  ASSUME CycleInv, CycleInv', SentInv, NewsInv, NEW r \in Runners, NEW e \in work[r].offers,
         Offer(r, e)
  PROVE  Hand(r)'
<1>0. PICK f : f = work[r].flight
  OBVIOUS
<1>1. /\ pc[r] = "collect" /\ f \in Flights /\ f # None /\ e \in Events /\ Hand(r) /\ Disk
      /\ UNCHANGED <<record, truth, dropped, clock, seen, pc>>
  BY <1>0 DEF Offer, CycleInv, Work, NewsInv, Store!Offer, Store!runner, journalVars
<1>2. /\ work'[r].todo = work[r].todo /\ work'[r].flight = f /\ work'[r].fresh = work[r].fresh
      /\ work'[r].verified = work[r].verified /\ work'[r].offers = work[r].offers \ {e}
      /\ work'[r].phases = IF e.reason \in PhaseReasons THEN work[r].phases \cup {<<f, e.reason>>}
                           ELSE work[r].phases
  BY <1>0 DEF Offer, CycleInv, Work
<1>3. PICK n : OfferAdds(f, e, n) \/ OfferFinds(f, e)
  BY <1>0, OfferRows
<1>4. /\ \A g, reason : g # f \/ reason # e.reason =>
           Unsent(g, reason)' = Unsent(g, reason) /\ Of(g, reason)' = Of(g, reason)
      /\ \A g, reasons : Sent(g, reasons)' = Sent(g, reasons)
      /\ e.reason \in {"gate_change", "inbound_delay_retracted"} =>
           \E row \in Unsent(f, e.reason)' : row.event = e
  BY <1>3, OfferedNow
<1>5. /\ \A g : Turning(r, g)' <=> Turning(r, g)
      /\ \A g \in Flights : Written(r, g)' <=> Written(r, g)
      /\ \A g : Turning(r, g) => g = f
      /\ \A g : Written(r, g) => g # f
      /\ \A g : ReadOut(r, g)' <=> ReadOut(r, g) \/ (g = f /\ e.reason = "gate_assignment")
  BY <1>0, <1>1, <1>2 DEF Turning, Written, ReadOut, PhaseReasons
<1>6. e.reason \in {"gate_change", "gate_assignment", "inbound_delay_retracted"} =>
        Turning(r, f) /\ f \in work[r].verified
  <2>1. work[r].fresh = None => e = Removed
    BY <1>1 DEF Hand, Turns
  <2>2. e.reason \in {"gate_change", "gate_assignment", "inbound_delay_retracted"} => e # Removed
    BY DEF Removed
  <2> QED
    BY <1>0, <1>1, <2>1, <2>2 DEF Turning, Hand, Turns
<1>7. Turns(r)'
  <2>1. \A row \in notices' : row.flight # f => row \in notices
    BY <1>3 DEF OfferAdds, OfferFinds
  <2>2. \A row \in notices' : ~row.confirmed => ~Store!Lapsed(row, clock[r])
    <3>1. \A row \in notices : ~row.confirmed => ~Store!Lapsed(row, clock[r])
      BY <1>1 DEF Hand, Turns
    <3>2. notices' = notices
            \/ \E prior : notices' = Store!Offered(notices, clock[r], f, e, prior, clock[r] + Life)
      BY <1>0 DEF Offer, Store!Offer, journalVars
    <3>3. ASSUME NEW prior
          PROVE  ~Store!Lapsed(Store!NewRow(notices, clock[r], f, e, prior, clock[r] + Life), clock[r])
      <4>1. Store!NewRow(notices, clock[r], f, e, prior, clock[r] + Life).expires = clock[r] + Life
        BY DEF Store!NewRow
      <4>2. ~(clock[r] + Life <= clock[r])
        BY CycleAssumption DEF CycleInv, Clocks
      <4> QED
        BY <4>1, <4>2 DEF Store!Lapsed
    <3> QED
      BY <3>1, <3>2, <3>3 DEF Store!Offered
  <2>3. \A row \in notices' : Seen(row) /\ row.flight \in work[r].verified /\ row.flight # f =>
          row.prior < record[row.flight].polled
    BY <1>0, <1>1, <2>1 DEF Hand, Turns
  <2>4. /\ seen[r] = Flights
        /\ \A g \in Flights : g \in work[r].todo \/ g = f => record[g].polled < clock[r]
        /\ work[r].todo \cap work[r].verified = {} /\ f \notin work[r].todo
        /\ f \in work[r].verified <=> work[r].fresh # None
        /\ work[r].fresh = None => work[r].offers \subseteq {Removed}
        /\ Gone(work[r].fresh) => truth[f].status = "cancelled"
    BY <1>0, <1>1 DEF Hand, Turns
  <2> QED
    BY <1>1, <1>2, <2>2, <2>3, <2>4 DEF Turns, Seen, Gone, Store!Lapsed, After
<1>8. ASSUME NEW x \in work[r].offers, x.reason = "gate_assignment", Turning(r, f)
      PROVE  /\ x.gate = work[r].fresh.gate /\ x = Readout(x.gate)
             /\ \A row \in Of(f, "gate_assignment") : ~row.confirmed
  BY <1>1, <1>8, EventFacts DEF Hand, Offers, CycleInv, Work
<1>9. Offers(r)'
  <2> SUFFICES ASSUME Turning(r, f), NEW x \in work[r].offers, x # e
               PROVE  /\ x.reason = "inbound_delay_retracted" => x.new = work[r].fresh.inbound
                      /\ x.reason = "gate_change" => x.to = work[r].fresh.gate
                      /\ x.reason = "gate_assignment" =>
                           x.gate = work[r].fresh.gate /\ \A row \in Of(f, "gate_assignment")' : ~row.confirmed
    BY <1>2, <1>5 DEF Offers
  <2>1. ASSUME x.reason = "gate_assignment"
        PROVE  Of(f, "gate_assignment")' = Of(f, "gate_assignment")
    <3>1. e.reason # "gate_assignment"
      BY <1>8, <2>1
    <3> QED
      BY <1>4, <3>1
  <2> QED
    BY <1>1, <1>8, <2>1 DEF Hand, Offers
<1>10. Readouts(r)'
  <2>1. ASSUME NEW g \in Flights, ReadOut(r, g)'
        PROVE  /\ g \in work'[r].verified
               /\ \A row \in Of(g, "gate_assignment")' :
                    row.event.gate = IF work'[r].flight = g THEN work'[r].fresh.gate
                                     ELSE record'[g].snap.gate
    <3>1. CASE g = f /\ e.reason = "gate_assignment"
      <4>1. Turning(r, f) /\ f \in work[r].verified
        BY <1>6, <3>1
      <4>2. e.gate = work[r].fresh.gate /\ \A row \in Of(f, "gate_assignment") : ~row.confirmed
        BY <1>8, <3>1, <4>1
      <4>3. ASSUME NEW row \in Of(f, "gate_assignment")' PROVE row.event = e
        <5>1. CASE OfferAdds(f, e, n)
          BY <3>1, <5>1 DEF OfferAdds, Of
        <5>2. CASE OfferFinds(f, e)
          <6>1. PICK old \in Of(f, "gate_assignment") : old.confirmed \/ old.event = e
            BY <3>1, <5>2 DEF OfferFinds
          <6>2. row \in Of(f, "gate_assignment")
            BY <5>2 DEF OfferFinds, Of
          <6>3. row = old
            BY <1>1, <6>1, <6>2 DEF Disk, Single
          <6> QED
            BY <4>2, <6>1, <6>3
        <5> QED
          BY <1>3, <5>1, <5>2
      <4> QED
        BY <1>2, <3>1, <4>1, <4>2, <4>3
    <3>2. CASE ~(g = f /\ e.reason = "gate_assignment")
      <4>1. ReadOut(r, g) /\ Of(g, "gate_assignment")' = Of(g, "gate_assignment")
        BY <1>4, <1>5, <2>1, <3>2
      <4>2. /\ g \in work[r].verified
            /\ \A row \in Of(g, "gate_assignment") :
                 row.event.gate = IF work[r].flight = g THEN work[r].fresh.gate
                                  ELSE record[g].snap.gate
        BY <1>1, <4>1 DEF Hand, Readouts
      <4> QED
        BY <1>0, <1>1, <1>2, <4>1, <4>2
    <3> QED
      BY <3>1, <3>2
  <2> QED
    BY <1>1, <2>1 DEF Readouts, After
<1>11. ASSUME NEW g \in Flights PROVE InboundTurn(r, g)'
  <2>1. Warned(g)' => Warned(g)
    BY <1>1, <1>4, SameWarning
  <2>2. ASSUME Warned(g), Turning(r, g), ~Gone(work[r].fresh)
        PROVE  \/ Delayed(work[r].fresh)
               \/ \E row \in Unsent(g, "inbound_delay_retracted")' : row.event.new = work[r].fresh.inbound
               \/ \E x \in work[r].offers \ {e} : x.reason = "inbound_delay_retracted"
    <3>1. g = f
      BY <1>5, <2>2
    <3>2. CASE e.reason = "inbound_delay_retracted"
      <4>1. e.new = work[r].fresh.inbound
        BY <1>1, <2>2, <3>2 DEF Hand, Offers
      <4> QED
        BY <1>4, <3>1, <3>2, <4>1
    <3>3. CASE e.reason # "inbound_delay_retracted"
      <4>1. Unsent(g, "inbound_delay_retracted")' = Unsent(g, "inbound_delay_retracted")
        BY <1>4, <3>3
      <4> QED
        BY <1>1, <2>2, <3>3, <4>1 DEF Hand, InboundTurn, Clearing
    <3> QED
      BY <3>2, <3>3
  <2>3. ASSUME Warned(g), Written(r, g), Afloat(g)
        PROVE  \/ Delayed(record[g].snap)
               \/ \E row \in Unsent(g, "inbound_delay_retracted")' : row.event.new = record[g].snap.inbound
    <3>1. Unsent(g, "inbound_delay_retracted")' = Unsent(g, "inbound_delay_retracted")
      BY <1>4, <1>5, <2>3
    <3> QED
      BY <1>1, <2>3, <3>1 DEF Hand, InboundTurn, Clearing
  <2>4. Afloat(g)' = Afloat(g) /\ record' = record /\ work'[r].fresh = work[r].fresh
        /\ work'[r].offers = work[r].offers \ {e}
    BY <1>1, <1>2 DEF Afloat
  <2> QED
    BY <1>5, <2>1, <2>2, <2>3, <2>4 DEF InboundTurn, Clearing, Gone, Delayed
<1>12. ASSUME NEW g \in Flights PROVE GateTurn(r, g)'
  <2>1. ToldGate(g)' = ToldGate(g)
    <3>1. LastConfirmed(notices', g, GateReasons) = LastConfirmed(notices, g, GateReasons)
      <4>1. {row \in notices' : row.flight = g /\ row.event.reason \in GateReasons /\ row.confirmed}
              = {row \in notices : row.flight = g /\ row.event.reason \in GateReasons /\ row.confirmed}
        BY <1>4 DEF Sent
      <4> QED
        BY <4>1, SameReceipts
    <3> QED
      BY <3>1 DEF ToldGate, GateReasons
  <2>2. Followed(g)' = Followed(g) /\ Alive(g)' = Alive(g) /\ Afloat(g)' = Afloat(g)
        /\ record' = record /\ work'[r].fresh = work[r].fresh
        /\ work'[r].offers = work[r].offers \ {e}
    BY <1>1, <1>2 DEF Followed, Alive, Afloat
  <2>3. ASSUME Followed(g), Turning(r, g)
        PROVE  /\ Alive(g) => \A x \in work[r].offers : x.reason = "gate_change" =>
                                ToldGate(g) \subseteq {x.from, NoGate}
               /\ ~Gone(work[r].fresh) =>
                    \/ ToldGate(g) \subseteq {work[r].fresh.gate, NoGate}
                    \/ \E row \in Unsent(g, "gate_change")' : row.event.to = work[r].fresh.gate
                    \/ \E x \in work[r].offers \ {e} : x.reason = "gate_change"
    <3>1. g = f
      BY <1>5, <2>3
    <3>2. Alive(g) => \A x \in work[r].offers : x.reason = "gate_change" =>
                        ToldGate(g) \subseteq {x.from, NoGate}
      BY <1>1, <2>3 DEF Hand, GateTurn, Knows
    <3>3. CASE e.reason = "gate_change"
      <4>1. e.to = work[r].fresh.gate
        BY <1>1, <2>3, <3>3 DEF Hand, Offers
      <4> QED
        BY <1>4, <3>1, <3>2, <3>3, <4>1
    <3>4. CASE e.reason # "gate_change"
      <4>1. Unsent(g, "gate_change")' = Unsent(g, "gate_change")
        BY <1>4, <3>4
      <4> QED
        BY <1>1, <2>3, <3>2, <3>4, <4>1 DEF Hand, GateTurn, Knows, Moving
    <3> QED
      BY <3>3, <3>4
  <2>4. ASSUME Followed(g), Written(r, g), Afloat(g)
        PROVE  \/ ToldGate(g) \subseteq {record[g].snap.gate, NoGate}
               \/ \E row \in Unsent(g, "gate_change")' : row.event.to = record[g].snap.gate
    <3>1. Unsent(g, "gate_change")' = Unsent(g, "gate_change")
      BY <1>4, <1>5, <2>4
    <3> QED
      BY <1>1, <2>4, <3>1 DEF Hand, GateTurn, Knows, Moving
  <2>5. Followed(g) =>
          /\ Turning(r, g) /\ (\E x \in work[r].offers : x.reason = "gate_assignment") =>
               Of(g, "gate_change") = {} /\ \A x \in work[r].offers : x.reason # "gate_change"
          /\ ReadOut(r, g) => Of(g, "gate_change") = {}
          /\ ReadOut(r, g) /\ Turning(r, g) => \A x \in work[r].offers : x.reason # "gate_change"
    BY <1>1 DEF Hand, GateTurn
  <2>6. ASSUME Followed(g), ReadOut(r, g)' \/ (Turning(r, g) /\ \E x \in work[r].offers : x.reason = "gate_assignment")
        PROVE  Of(g, "gate_change")' = {}
    <3>1. \/ ReadOut(r, g)
          \/ Turning(r, g) /\ (\E x \in work[r].offers : x.reason = "gate_assignment")
      BY <1>5, <1>6, <2>6
    <3>2. Of(g, "gate_change") = {}
      BY <2>5, <2>6, <3>1
    <3>3. g # f \/ e.reason # "gate_change"
      BY <1>6, <2>5, <2>6, <3>1
    <3> QED
      BY <1>4, <3>2, <3>3
  <2>7. ASSUME Followed(g), ReadOut(r, g)', Turning(r, g)
        PROVE  \A x \in work[r].offers : x.reason # "gate_change"
    BY <1>5, <2>5, <2>7
  <2> QED
    BY <1>5, <2>1, <2>2, <2>3, <2>4, <2>5, <2>6, <2>7 DEF GateTurn, Knows, Moving, Gone
<1> QED
  BY <1>7, <1>9, <1>10, <1>11, <1>12 DEF Hand

(* A reply stamps receipts and takes nothing out of hand. *)
LEMMA ConfirmHand ==
  ASSUME CycleInv, SentInv, NewsInv, NEW r \in Runners, Store!Confirm(r),
         UNCHANGED <<record, dropped, truth, work>>
  PROVE  Hand(r)'
<1>1. /\ pc[r] = "confirm" /\ pc'[r] = "deliver" /\ Hand(r) /\ UNCHANGED <<clock, seen>>
  BY DEF Store!Confirm, NewsInv, SentInv, Alone
<1>2. Upheld(r) /\ seen[r] = Flights /\ work[r].flight = None
  BY <1>1 DEF Hand, Turns, After, Upheld
<1>3. ASSUME NEW new \in notices'
      PROVE  \E row \in notices : /\ row.flight = new.flight /\ row.event = new.event
                                  /\ row.prior = new.prior /\ (~new.confirmed => ~row.confirmed)
  <2>1. PICK row \in notices : Stamped(r, new, row)
    BY ConfirmRows DEF NewsInv, Disk
  <2> QED
    BY <2>1 DEF Stamped
<1>4. Turns(r)'
  <2>1. ASSUME NEW new \in notices', Seen(new), new.flight \in work[r].verified,
               new.flight # work[r].flight
        PROVE  new.prior < record[new.flight].polled
    <3>1. PICK row \in notices : row.flight = new.flight /\ row.event = new.event /\ row.prior = new.prior
      BY <1>3
    <3> QED
      BY <1>1, <2>1, <3>1 DEF Hand, Turns, Seen
  <2>2. Upheld(r)'
    <3>1. ASSUME NEW new \in notices', new.flight \in work[r].verified, ~new.confirmed
          PROVE  NoticeIsCurrent(new.flight, new.event, clock[r])
      <4>1. PICK row \in notices : /\ row.flight = new.flight /\ row.event = new.event
                                   /\ (~new.confirmed => ~row.confirmed)
        BY <1>3
      <4> QED
        BY <1>2, <3>1, <4>1 DEF Upheld
    <3> QED
      BY <1>1, <1>2, <3>1, SameRecord DEF Upheld
  <2> QED
    BY <1>1, <1>2, <2>1, <2>2 DEF Turns, Seen, After
<1>5. /\ \A f : ~Turning(r, f)' /\ ~Written(r, f)'
      /\ \A f : ReadOut(r, f)' <=> ReadOut(r, f)
  BY <1>1 DEF Turning, Written, ReadOut
<1>6. Offers(r)'
  BY <1>5 DEF Offers
<1>7. Readouts(r)'
  <2>1. ASSUME NEW f \in Flights, ReadOut(r, f)
        PROVE  /\ f \in work[r].verified
               /\ \A new \in Of(f, "gate_assignment")' :
                    new.event.gate = IF work[r].flight = f THEN work[r].fresh.gate
                                     ELSE record[f].snap.gate
    <3>1. /\ f \in work[r].verified
          /\ \A row \in Of(f, "gate_assignment") :
               row.event.gate = IF work[r].flight = f THEN work[r].fresh.gate
                                ELSE record[f].snap.gate
      BY <1>1, <2>1 DEF Hand, Readouts
    <3>2. \A new \in Of(f, "gate_assignment")' :
            \E row \in Of(f, "gate_assignment") : row.event = new.event
      BY <1>3 DEF Of
    <3> QED
      BY <3>1, <3>2
  <2>2. ASSUME NEW f \in Flights, f \in work[r].verified, NEW new \in Unsent(f, "gate_assignment")'
        PROVE  ReadOut(r, f)
    <3>1. /\ new \in notices' /\ new.flight = f /\ new.event.reason = "gate_assignment"
          /\ ~new.confirmed
      BY DEF Unsent, Of
    <3>2. PICK row \in notices : /\ row.flight = new.flight /\ row.event = new.event
                                 /\ (~new.confirmed => ~row.confirmed)
      BY <1>3, <3>1
    <3>3. row \in Unsent(f, "gate_assignment")
      BY <3>1, <3>2 DEF Unsent, Of
    <3> QED
      BY <1>1, <2>2, <3>3 DEF Hand, Readouts, After
  <2> QED
    BY <1>5, <2>1, <2>2 DEF Readouts
<1>8. \A f \in Flights : InboundTurn(r, f)'
  BY <1>5 DEF InboundTurn
<1>9. ASSUME NEW f \in Flights PROVE GateTurn(r, f)'
  <2>1. Followed(f)' => Followed(f)
    BY DEF Followed
  <2>2. Of(f, "gate_change") = {} => Of(f, "gate_change")' = {}
    <3>1. \A new \in Of(f, "gate_change")' : \E row \in Of(f, "gate_change") : row.event = new.event
      BY <1>3 DEF Of
    <3> QED
      BY <3>1
  <2>3. Followed(f) /\ ReadOut(r, f) => Of(f, "gate_change") = {}
    BY <1>1 DEF Hand, GateTurn
  <2> QED
    BY <1>5, <2>1, <2>2, <2>3 DEF GateTurn
<1> QED
  BY <1>4, <1>6, <1>7, <1>8, <1>9 DEF Hand

(* A cycle begins at an instant no record knows yet. *)
LEMMA BeginNews ==
  ASSUME CycleInv, CycleInv', SentInv, NewsInv, NEW r \in Runners, Begin(r)
  PROVE  NewsInv'
<1>1. /\ \A q \in Runners : clock[q] < now
      /\ UNCHANGED <<notices, sequence, record, work, dropped, truth>>
  BY DEF Begin, Store!Begin, Store!journal
<1>2. \A q \in Runners : clock[q] \in Nat /\ now \in Nat
  BY CycleAssumption DEF CycleInv, Clocks
<1>3. \A q \in Runners : pc[q] = "idle" /\ work[q] = IdleWork
  <2>1. \A q \in Runners : pc[q] = "idle"
    BY <1>1, <1>2 DEF SentInv, Alone, Active
  <2> QED
    BY <2>1 DEF NewsInv, Hand, Turns
<1>4. \A q \in Runners : clock'[q] = IF q = r THEN now ELSE clock[q]
  BY DEF Begin, Store!Begin, CycleInv, Clocks
<1>5. \A q \in Runners : q # r => pc'[q] = "idle"
  BY <1>3 DEF Begin, Store!Begin, SentInv, Alone
<1>6. pc'[r] = "begun" /\ seen'[r] = Flights
  BY DEF Begin, Store!Begin, SentInv, Alone, CycleInv, Clocks
<1>7. ASSUME NEW f \in Flights PROVE record[f].polled < now
  <2>1. record[f].polled = 0 \/ \E q \in Runners : record[f].polled <= clock[q]
    BY DEF NewsInv, Disk, Timed
  <2>2. record[f].polled \in Nat
    BY CycleAssumption DEF CycleInv, Records
  <2> QED
    BY <1>1, <1>2, <2>1, <2>2
<1>8. \A q \in Runners : Hand(q)'
  BY <1>1, <1>3, <1>4, <1>5, <1>6, <1>7, IdleHand
<1>9. Disk'
  <2>1. \A q \in Runners : clock[q] <= clock'[q]
    BY <1>1, <1>2, <1>4
  <2> QED
    BY <1>1, <2>1, SameDisk DEF NewsInv, Alive
<1> QED
  BY <1>8, <1>9 DEF NewsInv

(* A runner that stops forgets, and leaves journal and records as they are. *)
LEMMA StopNews ==
  ASSUME CycleInv, CycleInv', SentInv, NewsInv, NEW r \in Runners, Active(r), Store!Stop(r),
         work' = [work EXCEPT ![r] = IdleWork],
         UNCHANGED <<notices, sequence, record, truth, dropped>>
  PROVE  NewsInv'
<1>1. pc'[r] = "idle" /\ work'[r] = IdleWork /\ UNCHANGED clock
      /\ \A q \in Runners \ {r} : pc'[q] = pc[q] /\ work'[q] = work[q]
  BY DEF Store!Stop, SentInv, Alone, CycleInv
<1>2. Hand(r)'
  BY <1>1, IdleHand
<1>3. \A q \in Runners : Hand(q)'
  BY <1>1, <1>2, OthersHand
<1>4. Disk'
  <2>1. \A q \in Runners : clock[q] <= clock'[q]
    BY <1>1, CycleAssumption DEF CycleInv, Clocks
  <2> QED
    BY <2>1, SameDisk DEF NewsInv, Alive
<1> QED
  BY <1>3, <1>4 DEF NewsInv

(* Whatever only moves messages or byAir leaves journal and records alone. *)
LEMMA ElsewhereNews ==
  ASSUME CycleInv, CycleInv', SentInv, NewsInv,
         UNCHANGED <<notices, sequence, record, work, dropped, clock, seen>>,
         \A f \in Flights : ~Alive(f) => ~Alive(f)',
         \A q \in Runners : pc'[q] = pc[q] \/ (pc[q] \in After /\ pc'[q] \in After),
         \A q \in Runners : pc'[q] \in {"wait", "confirm"} => \A id \in current'[q] : Holds(q, id)
  PROVE  NewsInv'
<1>1. \A q \in Runners : Hand(q)'
  <2> SUFFICES ASSUME NEW q \in Runners PROVE Hand(q)'
    OBVIOUS
  <2>1. Hand(q) /\ (work[q].flight # None => work[q].flight \in Flights)
    BY DEF NewsInv, CycleInv, Work
  <2> QED
    BY <2>1, SameHand
<1>2. Disk'
  <2>1. \A q \in Runners : clock[q] <= clock'[q]
    BY CycleAssumption DEF CycleInv, Clocks
  <2> QED
    BY <2>1, SameDisk DEF NewsInv
<1> QED
  BY <1>1, <1>2 DEF NewsInv

LEMMA DeliverNews ==
  ASSUME CycleInv, CycleInv', SentInv, NewsInv,
         \/ Protocol
         \/ \E m \in queue : HostDeliver(m)
         \/ \E f \in Flights : Change(f)
         \/ UNCHANGED vars
  PROVE  NewsInv'
<1> USE DEF journalVars, Store!world, Store!journal, Store!runner
<1>1. \A q \in Runners : pc[q] \in {"wait", "confirm"} => \A id \in current[q] : Holds(q, id)
  BY DEF NewsInv, Hand, Turns
<1>2. \A r \in Runners : Active(r) => \A q \in Runners \ {r} : pc[q] = "idle"
  BY OthersIdle DEF SentInv
<1>3. ASSUME NEW r \in Runners, NEW m \in outbox[r], Store!Send(r, m),
             UNCHANGED <<record, work, dropped, truth>>
      PROVE  NewsInv'
  <2>1. /\ pc[r] = "deliver" /\ pc'[r] = "wait" /\ current'[r] = m
        /\ \A q \in Runners \ {r} : pc'[q] = pc[q]
        /\ UNCHANGED <<notices, sequence, clock, seen>>
    BY <1>3 DEF Store!Send, SentInv, Alone
  <2>2. \A q \in Runners \ {r} : pc'[q] = "idle"
    BY <1>2, <2>1 DEF Active
  <2>3. \A id \in m : Holds(r, id)
    BY <1>3 DEF SentInv, Sound
  <2>4. \A q \in Runners : pc'[q] \in {"wait", "confirm"} => \A id \in current'[q] : Holds(q, id)
    BY <2>1, <2>2, <2>3
  <2>5. \A q \in Runners : pc'[q] = pc[q] \/ (pc[q] \in After /\ pc'[q] \in After)
    BY <2>1 DEF After
  <2>6. \A f \in Flights : ~Alive(f) => ~Alive(f)'
    BY <1>3 DEF Alive
  <2> QED
    BY <1>3, <2>1, <2>4, <2>5, <2>6, ElsewhereNews
<1>4. ASSUME NEW r \in Runners, NEW m \in outbox[r], Store!LeavePending(r, m),
             UNCHANGED <<record, work, dropped, truth>>
      PROVE  NewsInv'
  <2>1. UNCHANGED <<pc, current, notices, sequence, clock, seen>>
    BY <1>4 DEF Store!LeavePending
  <2>2. \A f \in Flights : ~Alive(f) => ~Alive(f)'
    BY <1>4 DEF Alive
  <2> QED
    BY <1>1, <1>4, <2>1, <2>2, ElsewhereNews
<1>5. ASSUME NEW r \in Runners, Store!SendFailed(r), UNCHANGED <<record, work, dropped, truth>>
      PROVE  NewsInv'
  <2>1. /\ pc[r] = "wait" /\ pc'[r] = "deliver" /\ \A q \in Runners \ {r} : pc'[q] = pc[q]
        /\ UNCHANGED <<notices, sequence, clock, seen>>
    BY <1>5 DEF Store!SendFailed, SentInv, Alone
  <2>2. \A q \in Runners \ {r} : pc'[q] = "idle"
    BY <1>2, <2>1 DEF Active
  <2>3. \A q \in Runners : pc'[q] \in {"wait", "confirm"} => \A id \in current'[q] : Holds(q, id)
    BY <2>1, <2>2
  <2>4. \A q \in Runners : pc'[q] = pc[q] \/ (pc[q] \in After /\ pc'[q] \in After)
    BY <2>1 DEF After
  <2>5. \A f \in Flights : ~Alive(f) => ~Alive(f)'
    BY <1>5 DEF Alive
  <2> QED
    BY <1>5, <2>1, <2>3, <2>4, <2>5, ElsewhereNews
<1>6. ASSUME NEW r \in Runners, Store!Confirm(r), UNCHANGED <<record, work, dropped, truth>>
      PROVE  NewsInv'
  <2>1. Active(r) /\ \A q \in Runners \ {r} : pc'[q] = pc[q] /\ work'[q] = work[q]
    BY <1>6 DEF Store!Confirm, Active, SentInv, Alone
  <2>2. Hand(r)'
    BY <1>6, ConfirmHand
  <2>3. \A q \in Runners : Hand(q)'
    BY <2>1, <2>2, OthersHand
  <2>4. Disk'
    BY <1>6, ConfirmDisk
  <2> QED
    BY <2>3, <2>4 DEF NewsInv
<1>7. ASSUME NEW m \in queue, Store!HostRefuse(m), UNCHANGED <<record, work, dropped, truth>>
      PROVE  NewsInv'
  <2>1. UNCHANGED <<pc, current, notices, sequence, clock, seen>>
    BY <1>7 DEF Store!HostRefuse
  <2>2. \A f \in Flights : ~Alive(f) => ~Alive(f)'
    BY <1>7 DEF Alive
  <2> QED
    BY <1>1, <1>7, <2>1, <2>2, ElsewhereNews
<1>8. ASSUME Store!Tick, UNCHANGED <<record, work, dropped, truth>> PROVE NewsInv'
  <2>1. UNCHANGED <<pc, current, notices, sequence, clock, seen>>
    BY <1>8 DEF Store!Tick
  <2>2. \A f \in Flights : ~Alive(f) => ~Alive(f)'
    BY <1>8 DEF Alive
  <2> QED
    BY <1>1, <1>8, <2>1, <2>2, ElsewhereNews
<1>9. ASSUME NEW m \in queue, HostDeliver(m) PROVE NewsInv'
  <2>1. UNCHANGED <<current, notices, sequence, clock, seen, record, work, dropped, truth>>
    BY <1>9 DEF HostDeliver, Store!HostDeliver
  <2>2. \A q \in Runners : pc'[q] = pc[q] \/ (pc[q] = "wait" /\ pc'[q] = "confirm")
    BY <1>9 DEF HostDeliver, Store!HostDeliver
  <2>3. \A q \in Runners : pc'[q] \in {"wait", "confirm"} => \A id \in current'[q] : Holds(q, id)
    BY <1>1, <2>1, <2>2
  <2>4. \A q \in Runners : pc'[q] = pc[q] \/ (pc[q] \in After /\ pc'[q] \in After)
    BY <2>2 DEF After
  <2>5. \A f \in Flights : ~Alive(f) => ~Alive(f)'
    BY <2>1 DEF Alive
  <2> QED
    BY <2>1, <2>3, <2>4, <2>5, ElsewhereNews
<1>10. ASSUME NEW g \in Flights, Change(g) PROVE NewsInv'
  <2>1. UNCHANGED <<pc, current, notices, sequence, clock, seen, record, work, dropped>>
    BY <1>10 DEF Change
  <2>2. ASSUME NEW f \in Flights, ~Alive(f) PROVE ~Alive(f)'
    <3>1. truth \in [Flights -> Snapshot]
      BY DEF CycleInv, Records
    <3> QED
      BY <1>10, <2>2, <3>1 DEF Change, Later, Alive, Snapshot
  <2> QED
    BY <1>1, <2>1, <2>2, ElsewhereNews
<1>11. CASE UNCHANGED vars
  <2>1. UNCHANGED <<pc, current, notices, sequence, clock, seen, record, work, dropped, truth>>
    BY <1>11 DEF vars
  <2>2. \A f \in Flights : ~Alive(f) => ~Alive(f)'
    BY <2>1 DEF Alive
  <2> QED
    BY <1>1, <2>1, <2>2, ElsewhereNews
<1>12. CASE Protocol
  BY <1>3, <1>4, <1>5, <1>6, <1>7, <1>8, <1>12 DEF Protocol
<1> QED
  BY <1>9, <1>10, <1>11, <1>12

(* Every step keeps the journal and the record in step with what was said. *)
LEMMA NewsStep == CycleInv /\ CycleInv' /\ SentInv /\ NewsInv /\ [Next]_vars => NewsInv'
<1> SUFFICES ASSUME CycleInv, CycleInv', SentInv, NewsInv, [Next]_vars PROVE NewsInv'
  OBVIOUS
<1>1. ASSUME NEW r \in Runners, Active(r), Hand(r)', Disk',
             \A q \in Runners \ {r} : pc'[q] = pc[q] /\ work'[q] = work[q]
      PROVE  NewsInv'
  BY <1>1, OthersHand DEF NewsInv
<1>2. ASSUME NEW r \in Runners, Begin(r) PROVE NewsInv'
  BY <1>2, BeginNews
<1>3. ASSUME NEW r \in Runners, Open(r) PROVE NewsInv'
  <2>1. Active(r) /\ \A q \in Runners \ {r} : pc'[q] = pc[q] /\ work'[q] = work[q]
    BY <1>3 DEF Open, Store!Open, Active, SentInv, Alone
  <2> QED
    BY <1>1, <1>3, <2>1, OpenHand, OpenDisk
<1>4. ASSUME NEW r \in Runners, Deferred(r) \/ \E f \in Flights :
               NotDue(r, f) \/ Poll(r, f) \/ PollGone(r, f) \/ PollFailed(r, f)
      PROVE  NewsInv'
  <2>1. /\ pc[r] = "collect" /\ UNCHANGED <<notices, sequence, pc, clock, record, truth>>
        /\ \A q \in Runners \ {r} : work'[q] = work[q]
        /\ \A f \in Flights : dropped[f] \subseteq dropped'[f]
    <3>1. CASE Deferred(r)
      BY <3>1 DEF Deferred, journalVars, CycleInv
    <3>2. ASSUME NEW f \in Flights, NotDue(r, f) \/ PollGone(r, f) \/ PollFailed(r, f)
          PROVE  /\ pc[r] = "collect" /\ UNCHANGED <<notices, sequence, pc, clock, record, truth, dropped>>
                 /\ \A q \in Runners \ {r} : work'[q] = work[q]
      BY <3>2 DEF NotDue, PollGone, PollFailed, Turn, journalVars, CycleInv
    <3>3. ASSUME NEW f \in Flights, Poll(r, f)
          PROVE  /\ pc[r] = "collect" /\ UNCHANGED <<notices, sequence, pc, clock, record, truth>>
                 /\ \A q \in Runners \ {r} : work'[q] = work[q]
                 /\ \A g \in Flights : dropped[g] \subseteq dropped'[g]
      BY <3>3 DEF Poll, Turn, journalVars, CycleInv
    <3> QED
      BY <1>4, <3>1, <3>2, <3>3
  <2>2. Hand(r)'
    BY <1>4, PassedHand, PollHand, PollGoneHand
  <2>3. Disk'
    <3>1. \A q \in Runners : clock[q] <= clock'[q]
      BY <2>1, CycleAssumption DEF CycleInv, Clocks
    <3> QED
      BY <2>1, <3>1, SameDisk DEF NewsInv, Alive
  <2> QED
    BY <1>1, <2>1, <2>2, <2>3 DEF Active
<1>5. ASSUME NEW r \in Runners, NEW e \in work[r].offers, Offer(r, e) PROVE NewsInv'
  <2>1. Active(r) /\ \A q \in Runners \ {r} : pc'[q] = pc[q] /\ work'[q] = work[q]
    BY <1>5 DEF Offer, Store!Offer, Store!runner, journalVars, Active, CycleInv
  <2> QED
    BY <1>1, <1>5, <2>1, OfferHand, OfferDisk
<1>6. ASSUME NEW r \in Runners, NEW e \in work[r].offers, OfferFull(r, e) PROVE NewsInv'
  BY <1>6, StopNews DEF OfferFull, Store!OfferFull, Store!journal, Active
<1>7. ASSUME NEW r \in Runners, WriteRecord(r) PROVE NewsInv'
  <2>1. Active(r) /\ \A q \in Runners \ {r} : pc'[q] = pc[q] /\ work'[q] = work[q]
    BY <1>7 DEF WriteRecord, journalVars, Active, CycleInv
  <2> QED
    BY <1>1, <1>7, <2>1, WriteHand, WriteDisk
<1>8. ASSUME NEW r \in Runners, Reconcile(r) PROVE NewsInv'
  <2>1. Active(r) /\ \A q \in Runners \ {r} : pc'[q] = pc[q] /\ work'[q] = work[q]
    BY <1>8 DEF Reconcile, Store!Reconcile, Active, SentInv, Alone
  <2> QED
    BY <1>1, <1>8, <2>1, ReconcileHand, ReconcileDisk
<1>9. ASSUME NEW r \in Runners, Due(r) PROVE NewsInv'
  <2>1. Active(r) /\ \A q \in Runners \ {r} : pc'[q] = pc[q] /\ work'[q] = work[q]
    BY <1>9 DEF Due, Store!Due, Active, SentInv, Alone
  <2> QED
    BY <1>1, <1>9, <2>1, DueHand, DueDisk
<1>10. ASSUME NEW r \in Runners, Ended(r) PROVE NewsInv'
  <2>1. Active(r) /\ Store!Stop(r) /\ UNCHANGED <<notices, sequence, record, truth, dropped>>
        /\ work' = [work EXCEPT ![r] = IdleWork]
    BY <1>10 DEF Ended, Store!Finish, Store!Crash, Store!journal, Active
  <2> QED
    BY <2>1, StopNews
<1> QED
  BY <1>2, <1>3, <1>4, <1>5, <1>6, <1>7, <1>8, <1>9, <1>10, DeliverNews DEF Next

LEMMA InitNews == Init => NewsInv
<1> SUFFICES ASSUME Init PROVE NewsInv
  OBVIOUS
<1>1. notices = {} /\ \A f \in Flights : record[f].snap = None /\ record[f].polled = 0
  BY DEF Init, Store!Init
<1>2. \A f, reason : Of(f, reason) = {} /\ Unsent(f, reason) = {}
  BY <1>1 DEF Of, Unsent
<1>3. \A f, reasons : Sent(f, reasons) = {} /\ Latest(f, reasons) = {}
  BY <1>1 DEF Sent, Latest
<1>4. \A f \in Flights : ~Warned(f) /\ ~Afloat(f)
  BY <1>1, <1>3 DEF Warned, Afloat
<1>5. Disk
  <2>1. Numbered /\ Timed /\ Final /\ Single
    BY <1>1, <1>2 DEF Numbered, Timed, Final, Single, Gone
  <2>2. \A f \in Flights : InboundKept(f) /\ GateKept(f)
    BY <1>2, <1>4 DEF InboundKept, GateKept
  <2> QED
    BY <2>1, <2>2 DEF Disk
<1>6. ASSUME NEW r \in Runners PROVE Hand(r)
  <2>1. pc[r] = "idle" /\ work[r] = IdleWork
    BY <1>6 DEF Init, Store!Init
  <2>2. Turns(r)
    BY <1>1, <2>1 DEF Turns, After
  <2>3. \A f \in Flights : ~Turning(r, f) /\ ~Written(r, f) /\ ~ReadOut(r, f)
    BY <2>1 DEF Turning, Written, ReadOut, IdleWork
  <2>4. Offers(r) /\ Readouts(r)
    BY <2>1, <2>3 DEF Offers, Readouts, After
  <2>5. \A f \in Flights : InboundTurn(r, f) /\ GateTurn(r, f)
    BY <2>3 DEF InboundTurn, GateTurn
  <2> QED
    BY <2>2, <2>4, <2>5 DEF Hand
<1> QED
  BY <1>5, <1>6 DEF NewsInv

LEMMA NewsAlways == Spec => [](CycleInv /\ SentInv /\ NewsInv)
<1>1. Init => CycleInv /\ SentInv /\ NewsInv
  <2>1. Init => \A r \in Runners : Sound(r)
    BY DEF Init, Store!Init, Sound
  <2>2. Init => Alone
    BY DEF Init, Store!Init, Alone, Active
  <2> QED
    BY <2>1, <2>2, InitInv, InitNews DEF SentInv
<1>2. CycleInv /\ SentInv /\ NewsInv /\ [Next]_vars => CycleInv' /\ SentInv' /\ NewsInv'
  BY InvStep, AloneStep, SoundStep, NewsStep DEF SentInv
<1> QED
  BY <1>1, <1>2, PTL DEF Spec

(* No gate move is lost between two records, for any number of flights, whatever
   is killed, refused or superseded. *)
THEOREM GateIsFollowed == Spec => []GateFollowed
<1>1. NewsInv => GateFollowed
  <2> SUFFICES ASSUME NewsInv, NEW f \in Flights, Afloat(f), NEW g \in ToldGate(f)
               PROVE  \/ g \in {NoGate, record[f].snap.gate}
                      \/ Pending(notices, f, "gate_change") # {} \/ "gate" \in dropped[f]
    BY DEF GateFollowed
  <2>1. Followed(f) => Knows(f, record[f].snap.gate) \/ Unsent(f, "gate_change") # {}
    BY DEF NewsInv, Disk, GateKept
  <2>2. Unsent(f, "gate_change") # {} => Pending(notices, f, "gate_change") # {}
    BY PendingRows
  <2> QED
    BY <2>1, <2>2 DEF Knows, Followed
<1> QED
  BY <1>1, NewsAlways, PTL

(* An operator who was told of an inbound delay is owed the all-clear until it
   is confirmed, for any number of flights and whatever is killed. *)
THEOREM AllClearIsOwed == Spec => []AllClearFollows
<1>1. CycleInv /\ NewsInv => AllClearFollows
  <2> SUFFICES ASSUME CycleInv, NewsInv, NEW f \in Flights, Afloat(f),
                      NEW e \in LastConfirmed(notices, f, InboundReasons)
               PROVE  \/ e.reason = "inbound_delay_retracted" \/ Delayed(record[f].snap)
                      \/ Pending(notices, f, "inbound_delay_retracted") # {}
                      \/ "inbound" \in dropped[f]
    BY DEF AllClearFollows
  <2>1. PICK row \in Latest(f, InboundReasons) : e = row.event
    <3>1. LastConfirmed(notices, f, InboundReasons) = {row.event : row \in Latest(f, InboundReasons)}
      BY PendingRows
    <3> QED
      BY <3>1
  <2>2. e.reason \in InboundReasons
    BY <2>1 DEF Latest, Sent
  <2>3. Warned(f) => Delayed(record[f].snap) \/ Unsent(f, "inbound_delay_retracted") # {}
    BY DEF NewsInv, Disk, InboundKept
  <2>4. Unsent(f, "inbound_delay_retracted") # {} => Pending(notices, f, "inbound_delay_retracted") # {}
    BY PendingRows
  <2> QED
    BY <2>1, <2>2, <2>3, <2>4 DEF Warned, InboundReasons
<1> QED
  BY <1>1, NewsAlways, PTL
=============================================================================
