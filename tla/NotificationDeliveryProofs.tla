-------------------- MODULE NotificationDeliveryProofs --------------------
(***************************************************************************)
(* What the journal protocol guarantees for every number of flights,       *)
(* runners and notices, and for every retry delay above the kill budget.   *)
(***************************************************************************)
EXTENDS NotificationDelivery, FiniteSetTheorems, TLAPS

(* An offer writes a well-formed row. *)
LEMMA NewRowType ==
  ASSUME TypeOK, NEW t \in Nat, NEW f \in Flights, NEW e \in Events, NEW prior \in Nat,
         NEW expires \in Nat
  PROVE  NewRow(notices, t, f, e, prior, expires) \in Row
<1> DEFINE live == {row \in Previous(notices, f, e, prior) : ~Lapsed(row, t)}
<1>1. live \subseteq Row
  BY DEF TypeOK, Previous
<1>2. live # {} => (CHOOSE row \in live : TRUE) \in live
  OBVIOUS
<1>3. live # {} => (CHOOSE row \in live : TRUE).retry \in Nat
  BY <1>1, <1>2 DEF Row
<1>4. sequence + 1 \in Nat
  BY DeliveryAssumption DEF TypeOK
<1> HIDE DEF live
<1>5. [seq |-> sequence + 1, flight |-> f, event |-> e, prior |-> prior, expires |-> expires,
       confirmed |-> FALSE,
       retry |-> IF live = {} THEN 0 ELSE (CHOOSE row \in live : TRUE).retry] \in Row
  BY <1>3, <1>4 DEF Row
<1> QED
  BY <1>5 DEF NewRow, live

(* What taking the due notices leaves behind is well-formed. *)
LEMMA DueRowsType ==
  ASSUME TypeOK, NEW ids, NEW excluded, NEW removed, NEW t \in Nat
  PROVE  DueRows(notices, ids, excluded, removed, t) \subseteq Row
<1>1. t + Retry \in Nat
  BY DeliveryAssumption
<1>2. \A row \in notices : [row EXCEPT !.retry = t + Retry] \in Row
  BY <1>1 DEF TypeOK, Row
<1> QED
  BY <1>2 DEF DueRows, DueReady, DueKept, TypeOK

(* A row's id is an id. *)
LEMMA IdType ==
  ASSUME NEW row \in Row
  PROVE  Id(row) \in Ids
<1>1. Key(row) \in Keys
  BY DeliveryAssumption DEF Key, KeyOf, Keys, Row
<1> QED
  BY <1>1 DEF Id, Ids, Row

(* Stopping a runner keeps every type, and frees the lock if it was its own. *)
LEMMA StopType ==
  ASSUME TypeOK, NEW r \in Runners, Stop(r), UNCHANGED <<world, journal>>
  PROVE  TypeOK'
<1>1. pc' \in [Runners -> Steps] /\ seen' \in [Runners -> SUBSET Flights]
  BY DEF TypeOK, Stop, Steps
<1>2. holder' \in Runners \cup {NoRunner}
  BY DEF TypeOK, Stop
<1>3. \A s \in Runners : holder' = s <=> pc'[s] \in {"collect", "settle"}
  BY DeliveryAssumption DEF TypeOK, Stop, Steps
<1>4. outbox' \in [Runners -> SUBSET SUBSET Ids] /\ current' \in [Runners -> SUBSET Ids]
  BY DEF TypeOK, Stop
<1> QED
  BY <1>1, <1>2, <1>3, <1>4 DEF TypeOK, Stop, world, journal

(* Type correctness: every variable keeps its type, and the lock its holder. *)
THEOREM TypeCorrect == Spec => []TypeOK
<1>1. Init => TypeOK
  BY DeliveryAssumption DEF Init, TypeOK, Steps, Row
<1>2. TypeOK /\ [Next]_vars => TypeOK'
  <2> SUFFICES ASSUME TypeOK, [Next]_vars PROVE TypeOK'
    OBVIOUS
  <2> USE DEF world, journal, runner
  <2>1. ASSUME NEW r \in Runners, Begin(r) PROVE TypeOK'
    BY <2>1 DEF TypeOK, Begin, Steps
  <2>2. ASSUME NEW r \in Runners, Open(r) PROVE TypeOK'
    BY <2>2, DeliveryAssumption DEF TypeOK, Open, Steps, Pruned
  <2>3. ASSUME NEW r \in Runners,
               OpenBusy(r) \/ ConfirmBusy(r) \/ Finish(r) \/ Crash(r) PROVE TypeOK'
    BY <2>3, StopType DEF OpenBusy, ConfirmBusy, Finish, Crash
  <2>4. ASSUME NEW r \in Runners, NEW f \in Flights, NEW e \in Events, NEW prior \in Polls,
               NEW life \in Lifetimes, Offer(r, f, e, prior, clock[r] + life)
        PROVE  TypeOK'
    <3>1. clock[r] \in Nat /\ clock[r] + life \in Nat /\ prior \in Nat
      BY DeliveryAssumption DEF TypeOK
    <3>2. NewRow(notices, clock[r], f, e, prior, clock[r] + life) \in Row
      BY <3>1, NewRowType
    <3>3. notices' \subseteq Row
      BY <2>4, <3>2 DEF Offer, Offered, TypeOK
    <3>4. sequence' \in 0..MaxSequence
      BY <2>4, DeliveryAssumption DEF Offer, TypeOK
    <3> QED
      BY <2>4, <3>3, <3>4 DEF Offer, TypeOK
  <2>5. ASSUME NEW r \in Runners, NEW f \in Flights, NEW e \in Events, NEW prior \in Polls,
               NEW life \in Lifetimes, OfferFull(r, f, e, prior, clock[r] + life)
        PROVE  TypeOK'
    BY <2>5, StopType DEF OfferFull
  <2>6. ASSUME NEW r \in Runners, NEW verified \in SUBSET Flights,
               NEW phases \in SUBSET (Flights \X PhaseReasons), NEW upheld \in SUBSET Upheld,
               Reconcile(r, verified, phases, upheld)
        PROVE  TypeOK'
    BY <2>6 DEF Reconcile, Reconciled, TypeOK, Steps
  <2>7. ASSUME NEW r \in Runners, NEW excluded \in SUBSET Flights,
               NEW removed \in SUBSET Flights, Due(r, excluded, removed)
        PROVE  TypeOK'
    <3>1. clock[r] \in Nat
      BY DeliveryAssumption DEF TypeOK
    <3>2. notices' \subseteq Row
      BY <2>7, <3>1, DueRowsType DEF Due
    <3>3. pc' \in [Runners -> Steps]
      BY <2>7 DEF Due, TypeOK, Steps
    <3>4. \A s \in Runners : holder' = s <=> pc'[s] \in {"collect", "settle"}
      BY <2>7, DeliveryAssumption DEF Due, TypeOK, Steps
    <3>5. DueReady(notices, seen[r], excluded, removed, clock[r]) \subseteq Row
      BY DEF DueReady, DueKept, TypeOK
    <3>6. outbox' \in [Runners -> SUBSET SUBSET Ids]
      BY <2>7, <3>5, IdType DEF Due, Messages, TypeOK
    <3> QED
      BY <2>7, <3>2, <3>3, <3>4, <3>6 DEF Due, TypeOK
  <2>8. ASSUME NEW r \in Runners, NEW m \in outbox[r], Send(r, m) \/ LeavePending(r, m)
        PROVE  TypeOK'
    BY <2>8 DEF Send, LeavePending, TypeOK, Steps
  <2>9. ASSUME NEW m \in queue, HostDeliver(m) \/ HostRefuse(m) PROVE TypeOK'
    <3>1. pc' \in [Runners -> Steps]
      BY <2>9 DEF HostDeliver, HostRefuse, TypeOK, Steps
    <3>2. \A s \in Runners : pc'[s] \in {"collect", "settle"} <=> pc[s] \in {"collect", "settle"}
      BY <2>9 DEF HostDeliver, HostRefuse, TypeOK, Steps
    <3> QED
      BY <2>9, <3>1, <3>2 DEF HostDeliver, HostRefuse, TypeOK
  <2>10. ASSUME NEW r \in Runners, SendFailed(r) PROVE TypeOK'
    BY <2>10 DEF SendFailed, TypeOK, Steps
  <2>11. ASSUME NEW r \in Runners, Confirm(r) PROVE TypeOK'
    <3>1. \A row \in notices : [row EXCEPT !.confirmed = TRUE] \in Row
      BY DEF TypeOK, Row
    <3>2. notices' \subseteq Row
      BY <2>11, <3>1 DEF Confirm, Confirmed, TypeOK
    <3> QED
      BY <2>11, <3>2 DEF Confirm, TypeOK, Steps
  <2>12. CASE Tick
    BY <2>12, DeliveryAssumption DEF Tick, TypeOK
  <2>13. CASE IndexChange
    BY <2>13 DEF IndexChange, TypeOK
  <2>14. CASE UNCHANGED vars
    BY <2>14 DEF vars, TypeOK
  <2> QED
    BY <2>1, <2>2, <2>3, <2>4, <2>5, <2>6, <2>7, <2>8, <2>9, <2>10, <2>11, <2>12, <2>13, <2>14
       DEF Next
<1> QED
  BY <1>1, <1>2, PTL DEF Spec

-----------------------------------------------------------------------------
(* How a step may change the journal: it offers one notice, or it keeps some
   rows and touches nothing of them but the backoff and the receipt. *)
RowOffered(t, f, e, prior, expires) ==
  /\ ~OfferIgnored(notices, t, f, e, prior, expires)
  /\ ~StoreFull(notices, f, e, prior)
  /\ sequence' = sequence + 1
  /\ notices' = Offered(notices, t, f, e, prior, expires)

SameIdentity(a, b) ==
  a.seq = b.seq /\ a.flight = b.flight /\ a.event = b.event /\ a.prior = b.prior

RowsTouched(F) ==
  /\ sequence' = sequence
  /\ DOMAIN F \subseteq notices
  /\ notices' = {F[row] : row \in DOMAIN F}
  /\ \A row \in DOMAIN F : SameIdentity(F[row], row) /\ (row.confirmed => F[row].confirmed)

LEMMA RowsKept ==
  ASSUME sequence' = sequence, notices' \subseteq notices
  PROVE  \E F : RowsTouched(F)
<1> DEFINE F == [row \in notices' |-> row]
<1>1. RowsTouched(F)
  BY DEF RowsTouched, SameIdentity
<1> QED
  BY <1>1

LEMMA DueTouches ==
  ASSUME TypeOK, NEW r \in Runners, NEW excluded, NEW removed, Due(r, excluded, removed)
  PROVE  \E F : RowsTouched(F)
<1> DEFINE kept == DueKept(notices, seen[r], removed, clock[r])
           ready == DueReady(notices, seen[r], excluded, removed, clock[r])
           F == [row \in kept |->
                   IF row \in ready THEN [row EXCEPT !.retry = clock[r] + Retry] ELSE row]
<1>1. ready \subseteq kept /\ kept \subseteq notices
  BY DEF DueReady, DueKept
<1>2. notices' = {F[row] : row \in kept}
  BY <1>1 DEF Due, DueRows
<1>3. \A row \in kept : SameIdentity(F[row], row) /\ (row.confirmed => F[row].confirmed)
  BY <1>1 DEF SameIdentity, TypeOK, Row
<1> HIDE DEF kept, ready
<1>4. DOMAIN F = kept
  OBVIOUS
<1>5. sequence' = sequence
  BY DEF Due
<1>6. RowsTouched(F)
  BY <1>1, <1>2, <1>3, <1>4, <1>5 DEF RowsTouched
<1> QED
  BY <1>6

LEMMA ConfirmTouches ==
  ASSUME TypeOK, NEW r \in Runners, Confirm(r)
  PROVE  \E F : RowsTouched(F)
<1> DEFINE F == [row \in notices |->
                   IF Id(row) \in current[r] THEN [row EXCEPT !.confirmed = TRUE] ELSE row]
<1>1. notices' = {F[row] : row \in notices}
  BY DEF Confirm, Confirmed
<1>2. \A row \in notices : SameIdentity(F[row], row) /\ (row.confirmed => F[row].confirmed)
  BY DEF SameIdentity, TypeOK, Row
<1>3. DOMAIN F = notices /\ sequence' = sequence
  BY DEF Confirm
<1> HIDE DEF F
<1>4. RowsTouched(F)
  BY <1>1, <1>2, <1>3 DEF RowsTouched
<1> QED
  BY <1>4

LEMMA JournalStep ==
  ASSUME TypeOK, [Next]_vars
  PROVE  \/ \E F : RowsTouched(F)
         \/ \E t \in Nat, f \in Flights, e \in Events, prior \in Nat, expires \in Nat :
              RowOffered(t, f, e, prior, expires)
<1> DEFINE Touched == \E F : RowsTouched(F)
           OfferedOne == \E t \in Nat, f \in Flights, e \in Events, prior \in Nat, expires \in Nat :
                           RowOffered(t, f, e, prior, expires)
<1> SUFFICES Touched \/ OfferedOne
  OBVIOUS
<1>a. ASSUME sequence' = sequence, notices' \subseteq notices PROVE Touched
  BY <1>a, RowsKept
<1> HIDE DEF Touched
<1> USE DEF journal, runner
<1>1. ASSUME NEW r \in Runners, Begin(r) PROVE Touched
  BY <1>a, <1>1 DEF Begin
<1>2. ASSUME NEW r \in Runners, Open(r) PROVE Touched
  BY <1>a, <1>2 DEF Open, Pruned
<1>3. ASSUME NEW r \in Runners,
             OpenBusy(r) \/ ConfirmBusy(r) \/ Finish(r) \/ Crash(r) PROVE Touched
  BY <1>a, <1>3 DEF OpenBusy, ConfirmBusy, Finish, Crash
<1>4. ASSUME NEW r \in Runners, NEW f \in Flights, NEW e \in Events, NEW prior \in Polls,
             NEW life \in Lifetimes, Offer(r, f, e, prior, clock[r] + life)
      PROVE  OfferedOne
  <2>1. clock[r] \in Nat /\ clock[r] + life \in Nat /\ prior \in Nat
    BY DeliveryAssumption DEF TypeOK
  <2>2. RowOffered(clock[r], f, e, prior, clock[r] + life)
    BY <1>4 DEF Offer, RowOffered
  <2> QED
    BY <2>1, <2>2
<1>5. ASSUME NEW r \in Runners, NEW f \in Flights, NEW e \in Events, NEW prior \in Polls,
             NEW life \in Lifetimes, OfferFull(r, f, e, prior, clock[r] + life)
      PROVE  Touched
  BY <1>a, <1>5 DEF OfferFull
<1>6. ASSUME NEW r \in Runners, NEW verified \in SUBSET Flights,
             NEW phases \in SUBSET (Flights \X PhaseReasons), NEW upheld \in SUBSET Upheld,
             Reconcile(r, verified, phases, upheld)
      PROVE  Touched
  BY <1>a, <1>6 DEF Reconcile, Reconciled
<1>7. ASSUME NEW r \in Runners, NEW excluded \in SUBSET Flights,
             NEW removed \in SUBSET Flights, Due(r, excluded, removed)
      PROVE  Touched
  BY <1>7, DueTouches DEF Touched
<1>8. ASSUME NEW r \in Runners, NEW m \in outbox[r], Send(r, m) \/ LeavePending(r, m)
      PROVE  Touched
  BY <1>a, <1>8 DEF Send, LeavePending
<1>9. ASSUME NEW m \in queue, HostDeliver(m) \/ HostRefuse(m) PROVE Touched
  BY <1>a, <1>9 DEF HostDeliver, HostRefuse
<1>10. ASSUME NEW r \in Runners, SendFailed(r) PROVE Touched
  BY <1>a, <1>10 DEF SendFailed
<1>11. ASSUME NEW r \in Runners, Confirm(r) PROVE Touched
  BY <1>11, ConfirmTouches DEF Touched
<1>12. CASE Tick \/ IndexChange \/ UNCHANGED vars
  BY <1>a, <1>12 DEF Tick, IndexChange, vars
<1> HIDE DEF OfferedOne
<1> QED
  BY <1>1, <1>2, <1>3, <1>4, <1>5, <1>6, <1>7, <1>8, <1>9, <1>10, <1>11, <1>12 DEF Next

-----------------------------------------------------------------------------
(* What a refreshing offer replaces is unconfirmed, and nothing that stays has
   the new notice's key. *)
LEMMA OfferReplaces ==
  ASSUME NEW t, NEW f, NEW e, NEW prior, NEW expires,
         RowOffered(t, f, e, prior, expires)
  PROVE  /\ \A row \in Previous(notices, f, e, prior) : row \in notices /\ ~row.confirmed
         /\ \A row \in notices \ Previous(notices, f, e, prior) : Key(row) # KeyOf(f, e, prior)
         /\ Key(NewRow(notices, t, f, e, prior, expires)) = KeyOf(f, e, prior)
         /\ ~NewRow(notices, t, f, e, prior, expires).confirmed
         /\ NewRow(notices, t, f, e, prior, expires).seq = sequence + 1
<1>1. \A row \in Previous(notices, f, e, prior) : row \in notices /\ ~row.confirmed
  BY DEF RowOffered, OfferIgnored, Previous
<1>2. \A row \in notices \ Previous(notices, f, e, prior) : Key(row) # KeyOf(f, e, prior)
  BY DEF Previous
<1>3. Key(NewRow(notices, t, f, e, prior, expires)) = KeyOf(f, e, prior)
  BY DEF Key, NewRow
<1> QED
  BY <1>1, <1>2, <1>3 DEF NewRow

LEMMA KeyedStep ==
  ASSUME TypeOK, JournalKeyed, [Next]_vars
  PROVE  JournalKeyed'
<1>1. ASSUME NEW F, RowsTouched(F) PROVE JournalKeyed'
  <2>1. \A row \in DOMAIN F : Key(F[row]) = Key(row) /\ F[row].seq = row.seq /\ row \in notices
    BY <1>1 DEF RowsTouched, SameIdentity, Key
  <2> QED
    BY <1>1, <2>1 DEF JournalKeyed, RowsTouched
<1>2. ASSUME NEW t \in Nat, NEW f \in Flights, NEW e \in Events, NEW prior \in Nat,
             NEW expires \in Nat, RowOffered(t, f, e, prior, expires)
      PROVE  JournalKeyed'
  <2> DEFINE prev == Previous(notices, f, e, prior)
             new == NewRow(notices, t, f, e, prior, expires)
  <2>1. /\ notices' = (notices \ prev) \cup {new} /\ sequence' = sequence + 1
        /\ new.seq = sequence + 1 /\ Key(new) = KeyOf(f, e, prior)
        /\ \A row \in notices \ prev : Key(row) # KeyOf(f, e, prior)
    BY <1>2, OfferReplaces DEF RowOffered, Offered
  <2>2. sequence \in Nat
    BY DeliveryAssumption DEF TypeOK
  <2> HIDE DEF prev, new
  <2>3. \A row \in notices' : row.seq \in 1..sequence'
    BY <2>1, <2>2 DEF JournalKeyed
  <2>4. \A row \in notices \ prev : row.seq # new.seq
    BY <2>1, <2>2 DEF JournalKeyed
  <2>5. \A a, b \in notices' : a.seq = b.seq \/ Key(a) = Key(b) => a = b
    BY <2>1, <2>4 DEF JournalKeyed
  <2>6. \A a \in notices' : Key(a)' = Key(a)
    BY DEF Key, KeyOf
  <2> QED
    BY <2>3, <2>5, <2>6 DEF JournalKeyed, Key, KeyOf
<1> QED
  BY <1>1, <1>2, JournalStep

LEMMA TopicStep ==
  ASSUME TypeOK, OnePendingPerTopic, [Next]_vars
  PROVE  OnePendingPerTopic'
<1>1. ASSUME NEW F, RowsTouched(F) PROVE OnePendingPerTopic'
  <2> SUFFICES ASSUME NEW a \in DOMAIN F, NEW b \in DOMAIN F,
                      F[a].event.reason \in Mutable, ~F[a].confirmed, ~F[b].confirmed,
                      SameTopic(F[b], F[a].flight, F[a].event)
               PROVE  F[a] = F[b]
    BY <1>1 DEF OnePendingPerTopic, RowsTouched, SameTopic
  <2>1. a \in notices /\ b \in notices /\ ~a.confirmed /\ ~b.confirmed
        /\ SameIdentity(F[a], a) /\ SameIdentity(F[b], b)
    BY <1>1 DEF RowsTouched
  <2>2. a.event.reason \in Mutable /\ SameTopic(b, a.flight, a.event)
    BY <2>1 DEF SameIdentity, SameTopic
  <2> QED
    BY <2>1, <2>2 DEF OnePendingPerTopic
<1>2. ASSUME NEW t \in Nat, NEW f \in Flights, NEW e \in Events, NEW prior \in Nat,
             NEW expires \in Nat, RowOffered(t, f, e, prior, expires)
      PROVE  OnePendingPerTopic'
  <2> DEFINE prev == Previous(notices, f, e, prior)
             new == NewRow(notices, t, f, e, prior, expires)
  <2>1. notices' = (notices \ prev) \cup {new}
    BY <1>2 DEF RowOffered, Offered
  <2>2. new.flight = f /\ new.event = e
    BY DEF NewRow
  <2>3. ASSUME NEW b \in notices \ prev, ~b.confirmed, e.reason \in Mutable, SameTopic(b, f, e)
        PROVE  FALSE
    <3> DEFINE same == {row \in notices : Key(row) = KeyOf(f, e, prior)}
    <3>1. CASE same = {}
      BY <2>3, <3>1 DEF Previous
    <3>2. CASE same # {}
      <4>1. prev = same
        BY <3>2 DEF Previous
      <4>2. PICK c \in same : c \in notices /\ ~c.confirmed /\ Key(c) = KeyOf(f, e, prior)
        BY <1>2, <3>2, <4>1, OfferReplaces
      <4>3. KeyOf(f, e, prior) = <<f, prior, e>>
        BY <2>3, DeliveryAssumption DEF KeyOf
      <4>4. c.flight = f /\ c.event = e
        BY <4>2, <4>3 DEF Key, KeyOf
      <4>5. SameTopic(b, c.flight, c.event) /\ c.event.reason \in Mutable
        BY <2>3, <4>4
      <4>6. b = c
        BY <2>3, <4>2, <4>5 DEF OnePendingPerTopic
      <4> QED
        BY <4>1, <4>2, <4>6, <2>3
    <3> QED
      BY <3>1, <3>2
  <2> HIDE DEF prev, new
  <2>4. ASSUME NEW b \in notices \ prev, ~b.confirmed, b.event.reason \in Mutable,
               SameTopic(new, b.flight, b.event)
        PROVE  FALSE
    <3>1. SameTopic(b, f, e) /\ e.reason \in Mutable
      BY <2>2, <2>4 DEF SameTopic
    <3> QED
      BY <2>3, <2>4, <3>1
  <2>5. ASSUME NEW a \in notices', NEW b \in notices', a.event.reason \in Mutable,
               ~a.confirmed, ~b.confirmed, SameTopic(b, a.flight, a.event)
        PROVE  a = b
    <3>1. CASE a = new /\ b = new
      BY <3>1
    <3>2. CASE a = new /\ b # new
      BY <3>2, <2>1, <2>2, <2>3, <2>5
    <3>3. CASE a # new /\ b = new
      BY <3>3, <2>1, <2>4, <2>5
    <3>4. CASE a # new /\ b # new
      BY <3>4, <2>1, <2>5 DEF OnePendingPerTopic
    <3> QED
      BY <3>1, <3>2, <3>3, <3>4
  <2> QED
    BY <2>5 DEF OnePendingPerTopic, SameTopic
<1> QED
  BY <1>1, <1>2, JournalStep

LEMMA BoundStep ==
  ASSUME TypeOK, StoreBounded, [Next]_vars
  PROVE  StoreBounded'
<1>1. ASSUME NEW F, RowsTouched(F) PROVE StoreBounded'
  <2> DEFINE G == [row \in DOMAIN F |-> F[row]]
  <2>1. IsFiniteSet(DOMAIN F) /\ Cardinality(DOMAIN F) <= Cardinality(notices)
    BY <1>1, FS_Subset DEF RowsTouched, StoreBounded
  <2>2. G \in Surjection(DOMAIN F, notices')
    BY <1>1 DEF RowsTouched, Surjection
  <2>3. IsFiniteSet(notices') /\ Cardinality(notices') <= Cardinality(DOMAIN F)
    BY <2>1, <2>2, FS_Surjection
  <2>4. Cardinality(DOMAIN F) \in Nat /\ Cardinality(notices) \in Nat /\ Cardinality(notices') \in Nat
    BY <2>1, <2>3, FS_CardinalityType DEF StoreBounded
  <2> QED
    BY <2>1, <2>3, <2>4, DeliveryAssumption DEF StoreBounded
<1>2. ASSUME NEW t \in Nat, NEW f \in Flights, NEW e \in Events, NEW prior \in Nat,
             NEW expires \in Nat, RowOffered(t, f, e, prior, expires)
      PROVE  StoreBounded'
  <2> DEFINE prev == Previous(notices, f, e, prior)
             new == NewRow(notices, t, f, e, prior, expires)
             rest == notices \ prev
  <2>1. notices' = rest \cup {new} /\ (prev # {} \/ Cardinality(notices) < MaxNotices)
    <3>1. Cardinality(notices) \in Nat
      BY FS_CardinalityType DEF StoreBounded
    <3> QED
      BY <1>2, <3>1, DeliveryAssumption DEF RowOffered, Offered, StoreFull
  <2>2. prev \subseteq notices
    BY DEF Previous
  <2> HIDE DEF prev, new
  <2>3. /\ IsFiniteSet(rest) /\ Cardinality(rest) <= Cardinality(notices)
        /\ Cardinality(rest) = Cardinality(notices) => rest = notices
    BY FS_Subset DEF StoreBounded
  <2>4. Cardinality(rest) \in Nat /\ Cardinality(notices) \in Nat
    BY <2>3, FS_CardinalityType DEF StoreBounded
  <2>5. IsFiniteSet(rest \cup {new}) /\ Cardinality(rest \cup {new}) <= Cardinality(rest) + 1
    BY <2>3, <2>4, FS_AddElement
  <2>6. Cardinality(rest \cup {new}) \in Nat
    BY <2>5, FS_CardinalityType
  <2>7. Cardinality(rest) + 1 <= MaxNotices
    <3>1. CASE prev # {}
      <4>1. rest # notices
        BY <2>2, <3>1
      <4> QED
        BY <2>3, <2>4, <4>1, DeliveryAssumption DEF StoreBounded
    <3>2. CASE Cardinality(notices) < MaxNotices
      BY <2>3, <2>4, <3>2, DeliveryAssumption
    <3> QED
      BY <2>1, <3>1, <3>2
  <2> QED
    BY <2>1, <2>4, <2>5, <2>6, <2>7, DeliveryAssumption DEF StoreBounded
<1> QED
  BY <1>1, <1>2, JournalStep

(* The journal always passes the validation its owner applies on reading it:
   unique ids and keys, issued sequence numbers, no more rows than the cap. *)
THEOREM JournalStaysValid == Spec => []JournalValid
<1>1. Init => JournalKeyed /\ StoreBounded
  BY FS_EmptySet, DeliveryAssumption DEF Init, JournalKeyed, StoreBounded
<1>2. TypeOK /\ JournalKeyed /\ StoreBounded /\ [Next]_vars => (JournalKeyed /\ StoreBounded)'
  BY KeyedStep, BoundStep
<1>3. JournalKeyed /\ StoreBounded => JournalValid
  BY DEF JournalValid
<1> QED
  BY <1>1, <1>2, <1>3, TypeCorrect, PTL DEF Spec

(* A moving observation never has two unconfirmed notices. *)
THEOREM OneNoticePerTopic == Spec => []OnePendingPerTopic
<1>1. Init => OnePendingPerTopic
  BY DEF Init, OnePendingPerTopic
<1>2. TypeOK /\ OnePendingPerTopic /\ [Next]_vars => OnePendingPerTopic'
  BY TopicStep
<1> QED
  BY <1>1, <1>2, TypeCorrect, PTL DEF Spec

-----------------------------------------------------------------------------
(* Every step but a confirmation takes each receipt over from the same notice. *)
LEMMA ReceiptsTakenOver ==
  ASSUME TypeOK, [Next]_vars, ~(\E r \in Runners : Confirm(r))
  PROVE  \A row \in notices' : row.confirmed => row \in notices
<1> DEFINE Goal == \A row \in notices' : row.confirmed => row \in notices
<1> SUFFICES Goal
  OBVIOUS
<1>a. ASSUME notices' \subseteq notices PROVE Goal
  BY <1>a
<1> USE DEF journal, runner
<1>1. ASSUME NEW r \in Runners, Begin(r) \/ Open(r) PROVE Goal
  BY <1>1 DEF Begin, Open, Pruned
<1>2. ASSUME NEW r \in Runners,
             OpenBusy(r) \/ ConfirmBusy(r) \/ Finish(r) \/ Crash(r) \/ SendFailed(r) PROVE Goal
  BY <1>2 DEF OpenBusy, ConfirmBusy, Finish, Crash, SendFailed
<1>3. ASSUME NEW r \in Runners, NEW f \in Flights, NEW e \in Events, NEW prior \in Polls,
             NEW life \in Lifetimes, Offer(r, f, e, prior, clock[r] + life)
      PROVE  Goal
  <2>1. ~NewRow(notices, clock[r], f, e, prior, clock[r] + life).confirmed
    BY DEF NewRow
  <2> QED
    BY <1>3, <2>1 DEF Offer, Offered
<1>4. ASSUME NEW r \in Runners, NEW f \in Flights, NEW e \in Events, NEW prior \in Polls,
             NEW life \in Lifetimes, OfferFull(r, f, e, prior, clock[r] + life)
      PROVE  Goal
  BY <1>4 DEF OfferFull
<1>5. ASSUME NEW r \in Runners, NEW verified \in SUBSET Flights,
             NEW phases \in SUBSET (Flights \X PhaseReasons), NEW upheld \in SUBSET Upheld,
             Reconcile(r, verified, phases, upheld)
      PROVE  Goal
  BY <1>5 DEF Reconcile, Reconciled
<1>6. ASSUME NEW r \in Runners, NEW excluded \in SUBSET Flights,
             NEW removed \in SUBSET Flights, Due(r, excluded, removed)
      PROVE  Goal
  <2>1. \A row \in notices : ~row.confirmed => ~[row EXCEPT !.retry = clock[r] + Retry].confirmed
    BY DEF TypeOK, Row
  <2> QED
    BY <1>6, <2>1 DEF Due, DueRows, DueReady, DueKept
<1>7. ASSUME NEW r \in Runners, NEW m \in outbox[r], Send(r, m) \/ LeavePending(r, m)
      PROVE  Goal
  BY <1>7 DEF Send, LeavePending
<1>8. ASSUME NEW m \in queue, HostDeliver(m) \/ HostRefuse(m) PROVE Goal
  BY <1>8 DEF HostDeliver, HostRefuse
<1>9. CASE Tick \/ IndexChange \/ UNCHANGED vars
  BY <1>9 DEF Tick, IndexChange, vars
<1> HIDE DEF Goal
<1> QED
  BY <1>1, <1>2, <1>3, <1>4, <1>5, <1>6, <1>7, <1>8, <1>9 DEF Next

(* A runner reaches its confirmation only through the host's reply, and what
   the operator has received stays received. *)
LEMMA ReplyStep ==
  ASSUME TypeOK, ReplyMeansReceived, [Next]_vars
  PROVE  ReplyMeansReceived' /\ received \subseteq received'
<1> DEFINE Goal == ReplyMeansReceived' /\ received \subseteq received'
<1> SUFFICES Goal
  OBVIOUS
<1> USE DEF journal, runner, world, TypeOK, ReplyMeansReceived
<1>1. ASSUME NEW r \in Runners, Begin(r) \/ Open(r) PROVE Goal
  BY <1>1 DEF Begin, Open
<1>2. ASSUME NEW r \in Runners,
             OpenBusy(r) \/ ConfirmBusy(r) \/ Finish(r) \/ Crash(r) PROVE Goal
  BY <1>2 DEF OpenBusy, ConfirmBusy, Finish, Crash, Stop
<1>3. ASSUME NEW r \in Runners, NEW f \in Flights, NEW e \in Events, NEW prior \in Polls,
             NEW life \in Lifetimes,
             Offer(r, f, e, prior, clock[r] + life) \/ OfferFull(r, f, e, prior, clock[r] + life)
      PROVE  Goal
  BY <1>3 DEF Offer, OfferFull, Stop
<1>4. ASSUME NEW r \in Runners, NEW verified \in SUBSET Flights,
             NEW phases \in SUBSET (Flights \X PhaseReasons), NEW upheld \in SUBSET Upheld,
             Reconcile(r, verified, phases, upheld)
      PROVE  Goal
  BY <1>4 DEF Reconcile
<1>5. ASSUME NEW r \in Runners, NEW excluded \in SUBSET Flights,
             NEW removed \in SUBSET Flights, Due(r, excluded, removed)
      PROVE  Goal
  BY <1>5 DEF Due
<1>6. ASSUME NEW r \in Runners, NEW m \in outbox[r], Send(r, m) \/ LeavePending(r, m)
      PROVE  Goal
  BY <1>6 DEF Send, LeavePending
<1>7. ASSUME NEW m \in queue, HostDeliver(m) \/ HostRefuse(m) PROVE Goal
  BY <1>7 DEF HostDeliver, HostRefuse
<1>8. ASSUME NEW r \in Runners, SendFailed(r) \/ Confirm(r) PROVE Goal
  BY <1>8 DEF SendFailed, Confirm
<1>9. CASE Tick \/ IndexChange \/ UNCHANGED vars
  BY <1>9 DEF Tick, IndexChange, vars
<1> HIDE DEF Goal
<1> QED
  BY <1>1, <1>2, <1>3, <1>4, <1>5, <1>6, <1>7, <1>8, <1>9 DEF Next

LEMMA ReceiptStep ==
  ASSUME TypeOK, ReceiptsAreReal, ReplyMeansReceived, [Next]_vars
  PROVE  ReceiptsAreReal'
<1>1. received \subseteq received'
  BY ReplyStep
<1>2. \A row : Id(row)' = Id(row)
  BY DEF Id, Key, KeyOf
<1>3. CASE ~(\E r \in Runners : Confirm(r))
  BY <1>1, <1>2, <1>3, ReceiptsTakenOver DEF ReceiptsAreReal
<1>4. ASSUME NEW r \in Runners, Confirm(r) PROVE ReceiptsAreReal'
  <2>1. current[r] \subseteq received
    BY <1>4 DEF Confirm, ReplyMeansReceived
  <2>2. ASSUME NEW row \in notices, Id(row) \in current[r]
        PROVE  Id([row EXCEPT !.confirmed = TRUE]) \in received
    <3>1. Id([row EXCEPT !.confirmed = TRUE]) = Id(row)
      BY DEF TypeOK, Row, Id, Key
    <3> QED
      BY <2>1, <2>2, <3>1
  <2>3. \A row \in notices' : row.confirmed => Id(row) \in received
    BY <1>4, <2>2 DEF Confirm, Confirmed, ReceiptsAreReal
  <2> QED
    BY <1>1, <1>2, <2>3 DEF ReceiptsAreReal
<1> QED
  BY <1>3, <1>4

(* A confirmed notice was received with this very payload. *)
THEOREM ReceiptsHold == Spec => []ReceiptsAreReal
<1>1. Init => ReceiptsAreReal /\ ReplyMeansReceived
  BY DEF Init, ReceiptsAreReal, ReplyMeansReceived
<1>2. TypeOK /\ ReceiptsAreReal /\ ReplyMeansReceived /\ [Next]_vars
        => ReceiptsAreReal' /\ ReplyMeansReceived'
  BY ReceiptStep, ReplyStep
<1> QED
  BY <1>1, <1>2, TypeCorrect, PTL DEF Spec

-----------------------------------------------------------------------------
(* Only a store user that did not see the flight in the index drops a receipt. *)
LEMMA ReceiptKept ==
  ASSUME TypeOK, [Next]_vars, NEW row \in notices, row.confirmed, row \notin notices'
  PROVE  \E r \in Runners : row.flight \notin seen[r] /\ r \in {holder, holder'}
<1> DEFINE Goal == \E r \in Runners : row.flight \notin seen[r] /\ r \in {holder, holder'}
<1> SUFFICES Goal
  OBVIOUS
<1> USE DEF journal, runner
<1>1. ASSUME NEW r \in Runners, Begin(r) PROVE Goal
  BY <1>1 DEF Begin
<1>2. ASSUME NEW r \in Runners, Open(r) PROVE Goal
  BY <1>2 DEF Open, Pruned
<1>3. ASSUME NEW r \in Runners,
             OpenBusy(r) \/ ConfirmBusy(r) \/ Finish(r) \/ Crash(r) \/ SendFailed(r) PROVE Goal
  BY <1>3 DEF OpenBusy, ConfirmBusy, Finish, Crash, SendFailed
<1>4. ASSUME NEW r \in Runners, NEW f \in Flights, NEW e \in Events, NEW prior \in Polls,
             NEW life \in Lifetimes, Offer(r, f, e, prior, clock[r] + life)
      PROVE  Goal
  BY <1>4 DEF Offer, Offered, OfferIgnored
<1>5. ASSUME NEW r \in Runners, NEW f \in Flights, NEW e \in Events, NEW prior \in Polls,
             NEW life \in Lifetimes, OfferFull(r, f, e, prior, clock[r] + life)
      PROVE  Goal
  BY <1>5 DEF OfferFull
<1>6. ASSUME NEW r \in Runners, NEW verified \in SUBSET Flights,
             NEW phases \in SUBSET (Flights \X PhaseReasons), NEW upheld \in SUBSET Upheld,
             Reconcile(r, verified, phases, upheld)
      PROVE  Goal
  BY <1>6 DEF Reconcile, Reconciled
<1>7. ASSUME NEW r \in Runners, NEW excluded \in SUBSET Flights,
             NEW removed \in SUBSET Flights, Due(r, excluded, removed)
      PROVE  Goal
  <2>1. row \notin DueReady(notices, seen[r], excluded, removed, clock[r])
    BY DEF DueReady
  <2>2. row \notin DueKept(notices, seen[r], removed, clock[r])
    BY <1>7, <2>1 DEF Due, DueRows
  <2>3. row.flight \notin seen[r]
    BY <2>2 DEF DueKept
  <2>4. holder = r
    BY <1>7 DEF Due, TypeOK
  <2> QED
    BY <2>3, <2>4
<1>8. ASSUME NEW r \in Runners, NEW m \in outbox[r], Send(r, m) \/ LeavePending(r, m)
      PROVE  Goal
  BY <1>8 DEF Send, LeavePending
<1>9. ASSUME NEW m \in queue, HostDeliver(m) \/ HostRefuse(m) PROVE Goal
  BY <1>9 DEF HostDeliver, HostRefuse
<1>10. ASSUME NEW r \in Runners, Confirm(r) PROVE Goal
  <2>1. [row EXCEPT !.confirmed = TRUE] = row
    BY DEF TypeOK, Row
  <2> QED
    BY <1>10, <2>1 DEF Confirm, Confirmed
<1>11. CASE Tick \/ IndexChange \/ UNCHANGED vars
  BY <1>11 DEF Tick, IndexChange, vars
<1> HIDE DEF Goal
<1> QED
  BY <1>1, <1>2, <1>3, <1>4, <1>5, <1>6, <1>7, <1>8, <1>9, <1>10, <1>11 DEF Next

(* No expiry, retry, replacement or crash loses a receipt of a flight that the
   runner using the store still saw in the index. *)
THEOREM ReceiptsAreKept == Spec => ReceiptsSurvive
<1>1. TypeOK /\ [Next]_vars =>
        [\A row \in notices : row.confirmed /\ row \notin notices' =>
           \E r \in Runners : row.flight \notin seen[r] /\ r \in {holder, holder'}]_vars
  BY ReceiptKept
<1> QED
  BY <1>1, TypeCorrect, PTL DEF Spec, ReceiptsSurvive

-----------------------------------------------------------------------------
(* What a runner has in hand, written without its sequence of messages. *)
LEMMA HandOfMessages ==
  ASSUME NEW rows
  PROVE  UNION Messages(rows) = {Id(row) : row \in rows}
BY DEF Messages

(* A step that puts nothing new in a hand, and writes no pending row for what
   is in one, keeps HandInv and NoDoubleHandling if clocks stay in step. *)
LEMMA HandsShrink ==
  ASSUME TypeOK, HandInv, NoDoubleHandling, sequence' \in {sequence, sequence + 1},
         \A r \in Runners : InHand(r)' \subseteq InHand(r),
         \A r \in Runners : InHand(r)' # {} => clock'[r] = clock[r],
         \A r \in Runners : \A row \in notices' :
           Id(row) \in InHand(r) => row.confirmed \/ row \in notices,
         ClocksBounded', HandsOnlyAfterStore'
  PROVE  HandInv' /\ NoDoubleHandling'
<1>1. \A r \in Runners : \A id \in InHand(r) : id[1] \in Nat /\ id[1] <= sequence
  BY DEF TypeOK, Ids, InHand, HandInv, HandsIssued
<1>2. \A row : Id(row)' = Id(row)
  BY DEF Id, Key, KeyOf
<1>3. HandsIssued'
  BY <1>1, DeliveryAssumption DEF HandsIssued, TypeOK
<1>4. HandsBackedOff'
  <2> SUFFICES ASSUME NEW r \in Runners, NEW row \in notices', Id(row) \in InHand(r)'
               PROVE  row.confirmed \/ row.retry >= clock'[r] + Retry
    BY <1>2 DEF HandsBackedOff
  <2> QED
    BY DEF HandInv, HandsBackedOff
<1>5. NoDoubleHandling'
  BY DEF NoDoubleHandling
<1> QED
  BY <1>3, <1>4, <1>5 DEF HandInv

(* Stopping a runner empties its hands. *)
LEMMA StopHands ==
  ASSUME TypeOK, HandInv, NoDoubleHandling, NEW r \in Runners, Stop(r),
         UNCHANGED <<world, journal>>
  PROVE  HandInv' /\ NoDoubleHandling'
<1>1. \A s \in Runners : InHand(s)' \subseteq InHand(s)
  BY DEF Stop, TypeOK, InHand
<1>2. InHand(r)' = {}
  BY DEF Stop, TypeOK, InHand
<1>3. ClocksBounded'
  BY DEF Stop, TypeOK, HandInv, ClocksBounded, world
<1>4. HandsOnlyAfterStore'
  BY <1>1, <1>2 DEF Stop, TypeOK, HandInv, HandsOnlyAfterStore
<1> QED
  BY <1>1, <1>3, <1>4, HandsShrink DEF Stop, journal

(* Taking what is due: the rows taken are in nobody else's hand, because the
   rows somebody still holds are backed off beyond that runner's life. *)
LEMMA DueHands ==
  ASSUME TypeOK, JournalKeyed, HandInv, NoDoubleHandling, NEW r \in Runners,
         NEW excluded \in SUBSET Flights, NEW removed \in SUBSET Flights,
         Due(r, excluded, removed)
  PROVE  HandInv' /\ NoDoubleHandling'
<1> DEFINE ready == DueReady(notices, seen[r], excluded, removed, clock[r])
           kept == DueKept(notices, seen[r], removed, clock[r])
           later(row) == [row EXCEPT !.retry = clock[r] + Retry]
<1>1. /\ ready \subseteq notices /\ kept \subseteq notices
      /\ \A row \in ready : ~row.confirmed /\ row.retry <= clock[r]
  BY DeliveryAssumption DEF DueReady, DueKept, Backoff, TypeOK, Row
<1>2. notices' = (kept \ ready) \cup {later(row) : row \in ready}
  BY DEF Due, DueRows
<1>3. /\ InHand(r)' = {Id(row) : row \in ready}
      /\ \A s \in Runners \ {r} : InHand(s)' = InHand(s)
  <2>1. outbox' = [outbox EXCEPT ![r] = Messages(ready)] /\ current' = current
    BY DEF Due
  <2>2. current[r] = {}
    BY DEF Due, HandInv, HandsOnlyAfterStore, InHand
  <2> HIDE DEF ready
  <2>3. UNION Messages(ready) = {Id(row) : row \in ready}
    BY HandOfMessages
  <2> QED
    BY <2>1, <2>2, <2>3 DEF InHand, TypeOK
<1>4. clock' = clock /\ now' = now /\ sequence' = sequence /\ pc[r] = "settle"
      /\ pc' = [pc EXCEPT ![r] = "deliver"]
  BY DEF Due, world
<1> HIDE DEF ready, kept
<1>5. ASSUME NEW s \in Runners \ {r}, NEW row \in ready PROVE Id(row) \notin InHand(s)
  <2> SUFFICES ASSUME Id(row) \in InHand(s) PROVE FALSE
    OBVIOUS
  <2>1. row.retry >= clock[s] + Retry
    BY <1>1 DEF HandInv, HandsBackedOff
  <2>2. pc[s] # "idle"
    BY DEF HandInv, HandsOnlyAfterStore
  <2>3. now <= clock[s] + KillAfter /\ clock[r] <= now
    BY <1>4, <2>2 DEF HandInv, ClocksBounded
  <2>4. row.retry \in Nat /\ clock[s] \in Nat /\ clock[r] \in Nat /\ now \in Nat
    BY <1>1, DeliveryAssumption DEF TypeOK, Row
  <2> QED
    BY <1>1, <2>1, <2>3, <2>4, DeliveryAssumption
<1>6. \A row : Id(row)' = Id(row)
  BY DEF Id, Key, KeyOf
<1>7. ClocksBounded'
  BY <1>4 DEF ClocksBounded, HandInv, TypeOK
<1>8. HandsOnlyAfterStore'
  BY <1>3, <1>4 DEF HandsOnlyAfterStore, HandInv, TypeOK
<1>9. HandsIssued'
  <2>1. \A row \in ready : Id(row)[1] <= sequence
    BY <1>1, DeliveryAssumption DEF Id, JournalKeyed, TypeOK
  <2> QED
    BY <1>3, <1>4, <2>1 DEF HandsIssued, HandInv
<1>10. \A row \in notices : Id(later(row)) = Id(row)
  BY DEF TypeOK, Row, Id, Key
<1>11. HandsBackedOff'
  <2> SUFFICES ASSUME NEW s \in Runners, NEW row \in notices', Id(row) \in InHand(s)'
               PROVE  row.confirmed \/ row.retry >= clock[s] + Retry
    BY <1>4, <1>6 DEF HandsBackedOff
  <2>1. CASE s # r
    <3>1. Id(row) \in InHand(s)
      BY <1>3, <2>1
    <3>2. row \in kept
      BY <1>1, <1>2, <1>5, <1>10, <2>1, <3>1
    <3> QED
      BY <1>1, <3>1, <3>2 DEF HandInv, HandsBackedOff
  <2>2. CASE s = r
    <3>1. PICK a \in ready : Id(a) = Id(row)
      BY <1>3, <2>2
    <3>2. CASE row \in kept \ ready
      <4>1. a.seq = row.seq /\ a \in notices /\ row \in notices
        BY <1>1, <3>1, <3>2 DEF Id
      <4> QED
        BY <3>1, <3>2, <4>1 DEF JournalKeyed
    <3>3. ASSUME NEW b \in ready, row = later(b) PROVE row.retry >= clock[r] + Retry
      <4>1. row.retry = clock[r] + Retry
        BY <1>1, <3>3 DEF TypeOK, Row
      <4> QED
        BY <4>1, DeliveryAssumption DEF TypeOK
    <3> QED
      BY <1>2, <2>2, <3>2, <3>3
  <2> QED
    BY <2>1, <2>2
<1>12. NoDoubleHandling'
  BY <1>3, <1>5 DEF NoDoubleHandling
<1> QED
  BY <1>7, <1>8, <1>9, <1>11, <1>12 DEF HandInv

(* Every step keeps the hands apart.  The journal must be keyed: two rows with
   one id would let one be taken while the other is still in a hand. *)
LEMMA HandsStep ==
  ASSUME TypeOK, JournalKeyed, HandInv, NoDoubleHandling, [Next]_vars
  PROVE  HandInv' /\ NoDoubleHandling'
<1> DEFINE Goal == HandInv' /\ NoDoubleHandling'
<1> SUFFICES Goal
  OBVIOUS
<1>a. ASSUME notices' \subseteq notices, sequence' = sequence,
             \A s \in Runners : InHand(s)' \subseteq InHand(s),
             \A s \in Runners : InHand(s)' # {} => clock'[s] = clock[s],
             ClocksBounded', HandsOnlyAfterStore'
      PROVE  Goal
  BY <1>a, HandsShrink
<1> HIDE DEF Goal
<1> USE DEF world, journal, runner
<1>1. ASSUME NEW r \in Runners, Begin(r) PROVE Goal
  <2>1. \A s \in Runners : InHand(s)' = InHand(s) /\ InHand(r) = {}
    BY <1>1 DEF Begin, InHand, HandInv, HandsOnlyAfterStore
  <2>2. ClocksBounded'
    BY <1>1, DeliveryAssumption DEF Begin, TypeOK, HandInv, ClocksBounded
  <2>3. HandsOnlyAfterStore'
    BY <1>1, <2>1 DEF Begin, TypeOK, HandInv, HandsOnlyAfterStore
  <2> QED
    BY <1>1, <1>a, <2>1, <2>2, <2>3 DEF Begin, TypeOK
<1>2. ASSUME NEW r \in Runners,
             \/ Open(r)
             \/ \E verified \in SUBSET Flights, phases \in SUBSET (Flights \X PhaseReasons),
                   upheld \in SUBSET Upheld : Reconcile(r, verified, phases, upheld)
      PROVE  Goal
  <2>1. \A s \in Runners : InHand(s)' = InHand(s) /\ InHand(r) = {}
    BY <1>2 DEF Open, Reconcile, InHand, HandInv, HandsOnlyAfterStore
  <2>2. ClocksBounded'
    BY <1>2 DEF Open, Reconcile, TypeOK, HandInv, ClocksBounded
  <2>3. HandsOnlyAfterStore'
    BY <1>2, <2>1 DEF Open, Reconcile, TypeOK, HandInv, HandsOnlyAfterStore
  <2> QED
    BY <1>2, <1>a, <2>1, <2>2, <2>3 DEF Open, Reconcile, Pruned, Reconciled
<1>3. ASSUME NEW r \in Runners,
             \/ OpenBusy(r) \/ ConfirmBusy(r) \/ Finish(r) \/ Crash(r)
             \/ \E f \in Flights, e \in Events, prior \in Polls, life \in Lifetimes :
                  OfferFull(r, f, e, prior, clock[r] + life)
      PROVE  Goal
  BY <1>3, StopHands DEF OpenBusy, ConfirmBusy, Finish, Crash, OfferFull, Goal
<1>4. ASSUME NEW r \in Runners, NEW f \in Flights, NEW e \in Events, NEW prior \in Polls,
             NEW life \in Lifetimes, Offer(r, f, e, prior, clock[r] + life)
      PROVE  Goal
  <2> DEFINE new == NewRow(notices, clock[r], f, e, prior, clock[r] + life)
  <2>1. Id(new)[1] = sequence + 1 /\ notices' \subseteq notices \cup {new}
        /\ sequence' = sequence + 1
    BY <1>4 DEF Offer, Offered, NewRow, Id
  <2> HIDE DEF new
  <2>2. \A s \in Runners : \A row \in notices' : Id(row) \in InHand(s) => row \in notices
    BY <2>1, DeliveryAssumption DEF HandInv, HandsIssued, TypeOK
  <2>3. \A s \in Runners : InHand(s)' = InHand(s)
    BY <1>4 DEF Offer, InHand
  <2>4. ClocksBounded' /\ HandsOnlyAfterStore'
    BY <1>4, <2>3 DEF Offer, HandInv, ClocksBounded, HandsOnlyAfterStore
  <2> QED
    BY <1>4, <2>1, <2>2, <2>3, <2>4, HandsShrink DEF Offer, Goal
<1>5. ASSUME NEW r \in Runners, NEW excluded \in SUBSET Flights,
             NEW removed \in SUBSET Flights, Due(r, excluded, removed)
      PROVE  Goal
  BY <1>5, DueHands DEF Goal
<1>6. ASSUME NEW r \in Runners, NEW m \in outbox[r], Send(r, m) \/ LeavePending(r, m)
      PROVE  Goal
  <2>1. \A s \in Runners : InHand(s)' \subseteq InHand(s)
    BY <1>6 DEF Send, LeavePending, InHand, TypeOK
  <2>2. ClocksBounded'
    BY <1>6 DEF Send, LeavePending, TypeOK, HandInv, ClocksBounded
  <2>3. HandsOnlyAfterStore'
    BY <1>6, <2>1 DEF Send, LeavePending, TypeOK, HandInv, HandsOnlyAfterStore
  <2> QED
    BY <1>6, <1>a, <2>1, <2>2, <2>3 DEF Send, LeavePending
<1>7. ASSUME NEW m \in queue, HostDeliver(m) \/ HostRefuse(m) PROVE Goal
  <2>1. \A s \in Runners : InHand(s)' = InHand(s)
    BY <1>7 DEF HostDeliver, HostRefuse, InHand
  <2>2. \A s \in Runners : pc'[s] = pc[s] \/ (pc[s] = "wait" /\ pc'[s] = "confirm")
    BY <1>7 DEF HostDeliver, HostRefuse, TypeOK
  <2>3. ClocksBounded' /\ HandsOnlyAfterStore'
    BY <1>7, <2>1, <2>2 DEF HostDeliver, HostRefuse, HandInv, ClocksBounded, HandsOnlyAfterStore
  <2> QED
    BY <1>7, <1>a, <2>1, <2>3 DEF HostDeliver, HostRefuse
<1>8. ASSUME NEW r \in Runners, SendFailed(r) PROVE Goal
  <2>1. \A s \in Runners : InHand(s)' \subseteq InHand(s)
    BY <1>8 DEF SendFailed, InHand, TypeOK
  <2>2. ClocksBounded' /\ HandsOnlyAfterStore'
    BY <1>8, <2>1 DEF SendFailed, TypeOK, HandInv, ClocksBounded, HandsOnlyAfterStore
  <2> QED
    BY <1>8, <1>a, <2>1, <2>2 DEF SendFailed
<1>9. ASSUME NEW r \in Runners, Confirm(r) PROVE Goal
  <2>1. \A s \in Runners : InHand(s)' \subseteq InHand(s)
    BY <1>9 DEF Confirm, InHand, TypeOK
  <2>2. ClocksBounded' /\ HandsOnlyAfterStore'
    BY <1>9, <2>1 DEF Confirm, TypeOK, HandInv, ClocksBounded, HandsOnlyAfterStore
  <2>3. \A row \in notices' : row.confirmed \/ row \in notices
    BY <1>9 DEF Confirm, Confirmed, TypeOK, Row
  <2> QED
    BY <1>9, <2>1, <2>2, <2>3, HandsShrink DEF Confirm, Goal
<1>10. CASE Tick
  <2>1. \A s \in Runners : InHand(s)' = InHand(s)
    BY <1>10 DEF Tick, InHand
  <2>2. ClocksBounded' /\ HandsOnlyAfterStore'
    BY <1>10, <2>1, DeliveryAssumption DEF Tick, TypeOK, HandInv, ClocksBounded, HandsOnlyAfterStore
  <2> QED
    BY <1>10, <1>a, <2>1, <2>2 DEF Tick
<1>11. CASE IndexChange \/ UNCHANGED vars
  <2>1. \A s \in Runners : InHand(s)' = InHand(s)
    BY <1>11 DEF IndexChange, vars, InHand
  <2>2. ClocksBounded' /\ HandsOnlyAfterStore'
    BY <1>11, <2>1 DEF IndexChange, vars, HandInv, ClocksBounded, HandsOnlyAfterStore
  <2> QED
    BY <1>11, <1>a, <2>1, <2>2 DEF IndexChange, vars
<1> QED
  BY <1>1, <1>2, <1>3, <1>4, <1>5, <1>6, <1>7, <1>8, <1>9, <1>10, <1>11 DEF Next, Goal

(* No notice is ever in the hands of two runners: whatever crashes and however
   runs overlap, an attempt belongs to one runner until that runner is gone. *)
THEOREM HandledOnce == Spec => []NoDoubleHandling
<1>1. Init => JournalKeyed /\ HandInv /\ NoDoubleHandling
  BY DEF Init, JournalKeyed, HandInv, NoDoubleHandling, ClocksBounded, HandsOnlyAfterStore,
         HandsIssued, HandsBackedOff, InHand
<1>2. TypeOK /\ JournalKeyed /\ HandInv /\ NoDoubleHandling /\ [Next]_vars
        => (JournalKeyed /\ HandInv /\ NoDoubleHandling)'
  BY KeyedStep, HandsStep
<1> QED
  BY <1>1, <1>2, TypeCorrect, PTL DEF Spec
=============================================================================
