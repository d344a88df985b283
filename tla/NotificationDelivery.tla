------------------------ MODULE NotificationDelivery ------------------------
(***************************************************************************)
(* The durable notification journal of flight-assist                       *)
(* (skills/flight-assist/notification_delivery.py) and the protocol its    *)
(* owner follows around it (precheck.py: _run_cycle and _deliver,          *)
(* host_send.py: send_message).                                            *)
(*                                                                         *)
(* An owner ("runner") reads the flight index, takes the journal's file    *)
(* lock, prunes, offers what it observed, reconciles, takes what is due    *)
(* and drops the lock.  Only then does it send: each message is a file in  *)
(* the host's queue, the host delivers it whenever it gets to it, and the  *)
(* runner waits a bounded time for the reply before it confirms the exact  *)
(* ids under the lock again.  A runner may be killed at any step; what it  *)
(* saved stays, what it held in memory is gone, and the lock is released   *)
(* by the operating system.                                                *)
(*                                                                         *)
(* WHAT is observed is left open here: a runner may offer any event and    *)
(* may find any pending notice obsolete.  PrecheckCycle fills that in and  *)
(* is shown to implement this protocol.                                    *)
(***************************************************************************)
EXTENDS Integers, FiniteSets

CONSTANTS
  Flights,       \* the flight ids that may be tracked
  Runners,       \* owner invocations that may overlap
  NoRunner,      \* nobody holds the lock
  Events,        \* the event records that may be offered
  PhaseReasons,  \* PHASE_BY_REASON: one notice per flight and reason, ever
  Mutable,       \* MUTABLE_OBSERVATION_REASONS: a newer value replaces it
  MaxNotices,    \* MAX_NOTICES
  Retry,         \* RETRY_SECONDS
  KillAfter,     \* precheck_timeout_ms: how long a runner may live
  Lifetimes,     \* how long a notice may stay current
  Polls,         \* instants a prior poll may carry
  MaxNow,        \* model bound: the last instant
  MaxSequence    \* model bound: journal writes that create a notice

(* The code runs with a kill budget of 75 s and a retry delay of 300 s. *)
ASSUME DeliveryAssumption ==
  /\ NoRunner \notin Runners
  /\ Retry \in Nat /\ KillAfter \in Nat /\ KillAfter < Retry
  /\ Lifetimes \subseteq Nat /\ Polls \subseteq Nat
  /\ MaxNow \in Nat /\ MaxSequence \in Nat
  /\ MaxNotices \in Nat \ {0}
  /\ PhaseReasons \cap Mutable = {}

VARIABLES
  now,       \* wall clock
  active,    \* active_flights.json, written by sync_tripit
  sequence,  \* notifications.json: "sequence"
  notices,   \* notifications.json: the rows
  holder,    \* who holds notifications.lock
  pc,        \* where each runner is
  clock,     \* now_utc of the runner's cycle, fixed when it starts
  seen,      \* the flight index as the runner read it
  outbox,    \* messages the runner still has to send; a message is a set of ids
  current,   \* the message the runner is sending or confirming
  queue,     \* requests the host has not taken up yet
  received   \* ids of the notices the operator has received

journal == <<sequence, notices>>
runner == <<pc, clock, seen, outbox, current>>
world == <<now, active, queue, received>>
vars == <<now, active, sequence, notices, holder, pc, clock, seen, outbox, current,
          queue, received>>

Steps == {"idle", "begun", "collect", "settle", "deliver", "wait", "confirm"}
Row == [seq : Nat, flight : Flights, event : Events, prior : Nat, expires : Nat,
        retry : Nat, confirmed : BOOLEAN]
Keys == (Flights \X PhaseReasons) \cup (Flights \X Nat \X Events)
Ids == Nat \X Keys \X Events

-----------------------------------------------------------------------------
(* The rows of the journal. *)

(* A notice's identity: the phase for the reasons that fire once, else the
   observation together with the poll it was compared with. *)
KeyOf(f, e, prior) ==
  IF e.reason \in PhaseReasons THEN <<f, e.reason>> ELSE <<f, prior, e>>

Key(row) == KeyOf(row.flight, row.event, row.prior)

(* The id an acknowledgement names: sequence, key and payload. *)
Id(row) == <<row.seq, Key(row), row.event>>

(* Defect: a connection depends on the flight it is filed under alone. *)
DependenciesOwn(row) == {row.flight}

(* Flights a notice depends on: a connection also depends on its first leg. *)
Dependencies(row) ==
  {row.flight} \cup IF row.event.reason = "connection_at_risk" THEN {row.event.leg1} ELSE {}

Lapsed(row, t) == row.expires <= t
Backoff(row, t) == row.retry > t

SameTopic(row, f, e) ==
  /\ row.flight = f
  /\ row.event.reason = e.reason
  /\ e.reason = "gate_change" => row.event.side = e.side

(* Defect: only the exact key is looked up. *)
PreviousByKeyOnly(rows, f, e, prior) ==
  {row \in rows : Key(row) = KeyOf(f, e, prior)}

(* Defect: an observation that may move is looked up by its topic only. *)
PreviousByTopicOnly(rows, f, e, prior) ==
  {row \in rows :
     IF e.reason \in Mutable THEN SameTopic(row, f, e) /\ ~row.confirmed
     ELSE Key(row) = KeyOf(f, e, prior)}

(* The row an offer refreshes: the one with its key, else, for an observation
   that may move, the unconfirmed one on the same topic. *)
Previous(rows, f, e, prior) ==
  LET same == {row \in rows : Key(row) = KeyOf(f, e, prior)}
      topic == {row \in rows : SameTopic(row, f, e) /\ ~row.confirmed}
  IN IF same # {} THEN same
     ELSE IF e.reason \in Mutable THEN topic ELSE {}

(* DeliveryStore.offer changes nothing: expired, delivered or already there. *)
OfferIgnored(rows, t, f, e, prior, expires) ==
  \/ expires <= t
  \/ \E row \in Previous(rows, f, e, prior) :
       row.confirmed \/ (row.event = e /\ ~Lapsed(row, t))

(* The row a successful offer writes; a live predecessor hands on its backoff. *)
NewRow(rows, t, f, e, prior, expires) ==
  LET live == {row \in Previous(rows, f, e, prior) : ~Lapsed(row, t)} IN
  [seq |-> sequence + 1, flight |-> f, event |-> e, prior |-> prior,
   expires |-> expires, confirmed |-> FALSE,
   retry |-> IF live = {} THEN 0 ELSE (CHOOSE row \in live : TRUE).retry]

StoreFull(rows, f, e, prior) ==
  Previous(rows, f, e, prior) = {} /\ Cardinality(rows) >= MaxNotices

Offered(rows, t, f, e, prior, expires) ==
  (rows \ Previous(rows, f, e, prior)) \cup {NewRow(rows, t, f, e, prior, expires)}

(* Defect: expiry also drops receipts. *)
PrunedWithReceipts(rows, ids, t) ==
  {row \in rows : row.flight \in ids /\ ~Lapsed(row, t)}

(* DeliveryStore.prune: receipts of tracked flights stay. *)
Pruned(rows, ids, t) ==
  {row \in rows : row.flight \in ids /\ (row.confirmed \/ ~Lapsed(row, t))}

(* Flights whose pending notices force a poll in the coming cycle. *)
RetryDueIds(rows, t) ==
  UNION {Dependencies(row) : row \in {row \in rows :
           ~row.confirmed /\ ~Lapsed(row, t) /\ ~Backoff(row, t)}}

(* Defect: a phase that is over keeps its pending notice. *)
ReconciledByPayload(rows, verified, phases, upheld) ==
  {row \in rows :
     \/ row.confirmed
     \/ ~(Dependencies(row) \subseteq verified)
     \/ <<row.flight, row.event>> \in upheld}

(* DeliveryStore.reconcile: a pending row whose flights were all verified
   stays only while its phase and its payload are still current. *)
Reconciled(rows, verified, phases, upheld) ==
  {row \in rows :
     \/ row.confirmed
     \/ ~(Dependencies(row) \subseteq verified)
     \/ /\ \/ row.event.reason \notin PhaseReasons
           \/ row.event.reason = "boarding_started"
           \/ <<row.flight, row.event.reason>> \in phases
        /\ <<row.flight, row.event>> \in upheld}

(* DeliveryStore.due: what is dropped, what is ready, what it leaves behind. *)
DueKept(rows, ids, removed, t) ==
  {row \in rows :
     /\ row.flight \in ids
     /\ \/ row.confirmed
        \/ /\ Dependencies(row) \subseteq ids
           /\ ~Lapsed(row, t)
           /\ \/ Dependencies(row) \cap removed = {}
              \/ row.event.reason = "removed_upstream"}

DueReady(rows, ids, excluded, removed, t) ==
  {row \in DueKept(rows, ids, removed, t) :
     /\ ~row.confirmed
     /\ Dependencies(row) \cap excluded = {}
     /\ ~Backoff(row, t)}

(* Defect: the attempt is not recorded before the send. *)
DueRowsUnrecorded(rows, ids, excluded, removed, t) == DueKept(rows, ids, removed, t)

DueRows(rows, ids, excluded, removed, t) ==
  LET ready == DueReady(rows, ids, excluded, removed, t) IN
  (DueKept(rows, ids, removed, t) \ ready)
    \cup {[row EXCEPT !.retry = t + Retry] : row \in ready}

(* Defect: an acknowledgement covers the whole flight. *)
ConfirmedByFlight(rows, ids) ==
  {IF \E id \in ids : id[2][1] = row.flight THEN [row EXCEPT !.confirmed = TRUE] ELSE row :
     row \in rows}

(* DeliveryStore.confirm: exact ids only, an unknown id is stale. *)
Confirmed(rows, ids) ==
  {IF Id(row) \in ids THEN [row EXCEPT !.confirmed = TRUE] ELSE row : row \in rows}

(* notices.compose: one message per flight. *)
Messages(rows) ==
  {{Id(row) : row \in {row \in rows : row.flight = f}} : f \in {row.flight : row \in rows}}

-----------------------------------------------------------------------------
Init ==
  /\ now = 0
  /\ active \in SUBSET Flights
  /\ sequence = 0
  /\ notices = {}
  /\ holder = NoRunner
  /\ pc = [r \in Runners |-> "idle"]
  /\ clock = [r \in Runners |-> 0]
  /\ seen = [r \in Runners |-> {}]
  /\ outbox = [r \in Runners |-> {}]
  /\ current = [r \in Runners |-> {}]
  /\ queue = {}
  /\ received = {}

(* Defect: the lock outlives its holder. *)
StopKeepingLock(r) ==
  /\ pc' = [pc EXCEPT ![r] = "idle"]
  /\ seen' = [seen EXCEPT ![r] = {}]
  /\ outbox' = [outbox EXCEPT ![r] = {}]
  /\ current' = [current EXCEPT ![r] = {}]
  /\ UNCHANGED <<clock, holder>>

(* The runner is gone, orderly or not: memory and lock with it. *)
Stop(r) ==
  /\ pc' = [pc EXCEPT ![r] = "idle"]
  /\ seen' = [seen EXCEPT ![r] = {}]
  /\ outbox' = [outbox EXCEPT ![r] = {}]
  /\ current' = [current EXCEPT ![r] = {}]
  /\ holder' = IF holder = r THEN NoRunner ELSE holder
  /\ UNCHANGED clock

Begin(r) ==
  /\ pc[r] = "idle"
  /\ pc' = [pc EXCEPT ![r] = "begun"]
  /\ clock' = [clock EXCEPT ![r] = now]
  /\ seen' = [seen EXCEPT ![r] = active]
  /\ UNCHANGED <<world, journal, holder, outbox, current>>

Open(r) ==
  /\ pc[r] = "begun"
  /\ holder = NoRunner
  /\ holder' = r
  /\ pc' = [pc EXCEPT ![r] = "collect"]
  /\ notices' = Pruned(notices, seen[r], clock[r])
  /\ UNCHANGED <<world, sequence, clock, seen, outbox, current>>

(* DeliveryBusy: the cycle ends at the outer boundary of main(). *)
OpenBusy(r) ==
  /\ pc[r] = "begun"
  /\ holder # NoRunner
  /\ Stop(r)
  /\ UNCHANGED <<world, journal>>

Offer(r, f, e, prior, expires) ==
  /\ pc[r] = "collect"
  /\ sequence < MaxSequence
  /\ f \in seen[r]
  /\ ~OfferIgnored(notices, clock[r], f, e, prior, expires)
  /\ ~StoreFull(notices, f, e, prior)
  /\ sequence' = sequence + 1
  /\ notices' = Offered(notices, clock[r], f, e, prior, expires)
  /\ UNCHANGED <<world, holder, runner>>

(* DeliveryError: nothing is saved and the cycle ends. *)
OfferFull(r, f, e, prior, expires) ==
  /\ pc[r] = "collect"
  /\ f \in seen[r]
  /\ ~OfferIgnored(notices, clock[r], f, e, prior, expires)
  /\ StoreFull(notices, f, e, prior)
  /\ Stop(r)
  /\ UNCHANGED <<world, journal>>

Reconcile(r, verified, phases, upheld) ==
  /\ pc[r] = "collect"
  /\ pc' = [pc EXCEPT ![r] = "settle"]
  /\ notices' = Reconciled(notices, verified, phases, upheld)
  /\ UNCHANGED <<world, sequence, holder, clock, seen, outbox, current>>

Due(r, excluded, removed) ==
  LET ready == DueReady(notices, seen[r], excluded, removed, clock[r]) IN
  /\ pc[r] = "settle"
  /\ notices' = DueRows(notices, seen[r], excluded, removed, clock[r])
  /\ outbox' = [outbox EXCEPT ![r] = Messages(ready)]
  /\ pc' = [pc EXCEPT ![r] = "deliver"]
  /\ holder' = NoRunner
  /\ UNCHANGED <<world, sequence, clock, seen, current>>

(* The request file is renamed into the host's queue. *)
Send(r, m) ==
  /\ pc[r] = "deliver"
  /\ m \in outbox[r]
  /\ queue' = queue \cup {m}
  /\ outbox' = [outbox EXCEPT ![r] = @ \ {m}]
  /\ current' = [current EXCEPT ![r] = m]
  /\ pc' = [pc EXCEPT ![r] = "wait"]
  /\ UNCHANGED <<now, active, received, journal, holder, clock, seen>>

(* No time left before the kill, or the request could not be queued. *)
LeavePending(r, m) ==
  /\ pc[r] = "deliver"
  /\ m \in outbox[r]
  /\ outbox' = [outbox EXCEPT ![r] = @ \ {m}]
  /\ UNCHANGED <<world, journal, holder, pc, clock, seen, current>>

(* The host takes up a request, early or long after the runner gave up.  A
   runner still waiting for it may get the reply, or the reply is lost. *)
HostDeliver(m) ==
  /\ m \in queue
  /\ queue' = queue \ {m}
  /\ received' = received \cup m
  /\ \E told \in SUBSET {r \in Runners : pc[r] = "wait" /\ current[r] = m} :
       pc' = [r \in Runners |-> IF r \in told THEN "confirm" ELSE pc[r]]
  /\ UNCHANGED <<now, active, journal, holder, clock, seen, outbox, current>>

HostRefuse(m) ==
  /\ m \in queue
  /\ queue' = queue \ {m}
  /\ UNCHANGED <<now, active, received, journal, holder, runner>>

(* SendError: refused or no reply in time.  The notice stays pending. *)
SendFailed(r) ==
  /\ pc[r] = "wait"
  /\ pc' = [pc EXCEPT ![r] = "deliver"]
  /\ current' = [current EXCEPT ![r] = {}]
  /\ UNCHANGED <<world, journal, holder, clock, seen, outbox>>

Confirm(r) ==
  /\ pc[r] = "confirm"
  /\ holder = NoRunner
  /\ notices' = Confirmed(notices, current[r])
  /\ pc' = [pc EXCEPT ![r] = "deliver"]
  /\ current' = [current EXCEPT ![r] = {}]
  /\ UNCHANGED <<world, sequence, holder, clock, seen, outbox>>

ConfirmBusy(r) ==
  /\ pc[r] = "confirm"
  /\ holder # NoRunner
  /\ Stop(r)
  /\ UNCHANGED <<world, journal>>

Finish(r) ==
  /\ pc[r] = "deliver"
  /\ outbox[r] = {}
  /\ Stop(r)
  /\ UNCHANGED <<world, journal>>

(* Killed at the budget, or any exception on the way. *)
Crash(r) ==
  /\ pc[r] # "idle"
  /\ Stop(r)
  /\ UNCHANGED <<world, journal>>

(* Time passes, but no runner outlives its kill budget. *)
Tick ==
  /\ now < MaxNow
  /\ \A r \in Runners : pc[r] = "idle" \/ now < clock[r] + KillAfter
  /\ now' = now + 1
  /\ UNCHANGED <<active, queue, received, journal, holder, runner>>

(* sync_tripit rewrites the flight index. *)
IndexChange ==
  /\ active' \in SUBSET Flights
  /\ active' # active
  /\ UNCHANGED <<now, queue, received, journal, holder, runner>>

Upheld == {<<row.flight, row.event>> : row \in notices}

Next ==
  \/ \E r \in Runners : Begin(r) \/ Open(r) \/ OpenBusy(r)
  \/ \E r \in Runners, f \in Flights, e \in Events, prior \in Polls, life \in Lifetimes :
       \/ Offer(r, f, e, prior, clock[r] + life)
       \/ OfferFull(r, f, e, prior, clock[r] + life)
  \/ \E r \in Runners, verified \in SUBSET Flights,
        phases \in SUBSET (Flights \X PhaseReasons), upheld \in SUBSET Upheld :
       Reconcile(r, verified, phases, upheld)
  \/ \E r \in Runners, excluded \in SUBSET Flights, removed \in SUBSET Flights :
       Due(r, excluded, removed)
  \/ \E r \in Runners : \E m \in outbox[r] : Send(r, m) \/ LeavePending(r, m)
  \/ \E m \in queue : HostDeliver(m) \/ HostRefuse(m)
  \/ \E r \in Runners : SendFailed(r) \/ Confirm(r) \/ ConfirmBusy(r) \/ Finish(r) \/ Crash(r)
  \/ Tick
  \/ IndexChange

Spec == Init /\ [][Next]_vars

-----------------------------------------------------------------------------
(* Every variable has its type, and the lock is held exactly by the runner
   that is between opening the store and taking what is due. *)
TypeOK ==
  /\ now \in 0..MaxNow
  /\ active \subseteq Flights
  /\ sequence \in 0..MaxSequence
  /\ notices \subseteq Row
  /\ pc \in [Runners -> Steps]
  /\ clock \in [Runners -> 0..MaxNow]
  /\ seen \in [Runners -> SUBSET Flights]
  /\ outbox \in [Runners -> SUBSET SUBSET Ids]
  /\ current \in [Runners -> SUBSET Ids]
  /\ queue \subseteq SUBSET Ids
  /\ received \subseteq Ids
  /\ holder \in Runners \cup {NoRunner}
  /\ \A r \in Runners : holder = r <=> pc[r] \in {"collect", "settle"}

(* What _validate demands of every journal it reads or writes: ids and keys
   are unique, every sequence number was issued, the store is not overfull.
   A save that broke it would lock the owner out of its own receipts. *)
JournalKeyed ==
  /\ \A row \in notices : row.seq \in 1..sequence
  /\ \A a, b \in notices : a.seq = b.seq \/ Key(a) = Key(b) => a = b
StoreBounded == IsFiniteSet(notices) /\ Cardinality(notices) <= MaxNotices
JournalValid == JournalKeyed /\ StoreBounded

(* A moving observation (a gate, a delay) never has two unconfirmed notices at
   once, so the operator is not told of a value and of its replacement. *)
OnePendingPerTopic ==
  \A a, b \in notices :
    (/\ a.event.reason \in Mutable /\ ~a.confirmed /\ ~b.confirmed
     /\ SameTopic(b, a.flight, a.event)) => a = b

(* A receipt stands only for a notice the operator did receive, with this very
   payload: an acknowledgement never consumes a replacement, however late it
   comes and whatever another runner wrote meanwhile. *)
ReceiptsAreReal == \A row \in notices : row.confirmed => Id(row) \in received

(* No two runners have the same notice in hand: the retry deadline is written
   before the first send and outlives every runner that could still send. *)
InHand(r) == (UNION outbox[r]) \cup current[r]
NoDoubleHandling ==
  \A r, s \in Runners : r # s => InHand(r) \cap InHand(s) = {}

(* The facts that carry the invariants above from step to step.  A runner past
   the store holds only issued ids, and the journal's rows for them are backed
   off beyond that runner's life; a reply implies receipt. *)
ClocksBounded ==
  \A r \in Runners : pc[r] # "idle" => clock[r] <= now /\ now <= clock[r] + KillAfter
HandsOnlyAfterStore ==
  \A r \in Runners : pc[r] \notin {"deliver", "wait", "confirm"} => InHand(r) = {}
HandsIssued == \A r \in Runners : \A id \in InHand(r) : id[1] <= sequence
HandsBackedOff ==
  \A r \in Runners : \A row \in notices :
    Id(row) \in InHand(r) => row.confirmed \/ row.retry >= clock[r] + Retry
ReplyMeansReceived ==
  \A r \in Runners : pc[r] = "confirm" => current[r] \subseteq received
HandInv == ClocksBounded /\ HandsOnlyAfterStore /\ HandsIssued /\ HandsBackedOff

(* A receipt is dropped only by a runner whose reading of the flight index
   lacked the flight; no expiry, retry, replacement or crash loses one. *)
ReceiptsSurvive ==
  [][\A row \in notices :
       row.confirmed /\ row \notin notices' =>
         \E r \in Runners : row.flight \notin seen[r] /\ r \in {holder, holder'}]_vars
=============================================================================
