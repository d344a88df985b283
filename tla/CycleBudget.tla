----------------------------- MODULE CycleBudget -----------------------------
(***************************************************************************)
(* The wall clock of one flight-assist cycle (precheck.py: main,           *)
(* _collect_cycle, _deliver) and who gets a poll before it runs out.       *)
(*                                                                         *)
(* A cycle polls the tracked flights one after the other, the one whose    *)
(* last successful poll is oldest first.  Once too little of the polling   *)
(* share is left for the next flight it defers that flight and every       *)
(* flight behind it.  What remains before the scheduler's kill goes to the *)
(* day-before calendar reads, the sends and the calendar reconcile.        *)
(*                                                                         *)
(* Times are seconds.  Of last_polled_at only the order matters here, so   *)
(* it is kept as a rank, renumbered when a cycle opens; due-ness is kept   *)
(* as the number of cycles since the last successful poll.  passed and     *)
(* course are history variables: no guard reads them.                      *)
(***************************************************************************)
EXTENDS Integers, FiniteSets, Sequences

CONSTANTS
  N,                \* flights in the index, in index order 1..N
  Failing,          \* flights whose poll may fail or answer 404
  Damaged,          \* flights whose record may not read (StateError)
  Cadence,          \* cycles after which every flight is due again
  KillBudget,       \* _SCRIPT_KILL_BUDGET_SECONDS
  DeliveryReserve,  \* _DELIVERY_RESERVE_SECONDS
  Teardown,         \* _INTERPRETER_TEARDOWN_HEADROOM_SECONDS
  ByAir,            \* _BYAIR_CALL_TIMEOUT_SECONDS
  Maps,             \* _MAPS_CALL_TIMEOUT_SECONDS
  Reader,           \* READER_TIMEOUT_SECONDS
  Reply,            \* REPLY_TIMEOUT_SECONDS
  CalendarRead,     \* _DAY_BEFORE_TIMEOUT_SECONDS
  ReconcileLimit,   \* _RECONCILE_TIMEOUT_SECONDS
  Seconds,          \* model bound: durations a step may take
  FailSeconds,      \* model bound: durations a failing poll may take
  MaxMessages       \* model bound: messages of one cycle

ASSUME BudgetAssumption ==
  /\ N \in Nat /\ Cadence \in Nat \ {0} /\ MaxMessages \in Nat
  /\ Failing \subseteq 1..N /\ Damaged \subseteq 1..N
  /\ KillBudget \in Nat /\ DeliveryReserve \in Nat /\ Teardown \in Nat
  /\ ByAir \in Nat /\ Maps \in Nat /\ Reader \in Nat
  /\ Reply \in Nat /\ CalendarRead \in Nat /\ ReconcileLimit \in Nat
  /\ Seconds \subseteq Nat /\ FailSeconds \subseteq Seconds
  /\ Teardown + DeliveryReserve <= KillBudget

VARIABLES
  phase,      \* what the cycle is doing
  rank,       \* order of the flights' last_polled_at
  waited,     \* cycles since each flight's last successful poll, up to Cadence
  order,      \* flights the loop has not come to
  due,        \* flights due, or forced by a pending notice, this cycle
  lookups,    \* may_lookup_airport
  readers,    \* may_spawn_reader
  readerRun,  \* the operator-zone reader has run this cycle
  spent,      \* seconds since the cycle started
  reads,      \* calendar reads compose() has still to do
  messages,   \* messages still to send
  unreadable, \* flights whose record does not read, for good
  course,     \* history: what the polls of this cycle came to so far
  passed      \* history: cycles since the flight's last poll that no fault took

history == <<course, passed>>
budgetVars == <<phase, rank, waited, order, due, lookups, readers, readerRun, spent,
          reads, messages, unreadable, history>>
scope == <<due, lookups, readers>>
mail == <<reads, messages>>

Flights == 1..N

-----------------------------------------------------------------------------
(* _CYCLE_WALL_CLOCK_BUDGET_SECONDS: the share of the kill budget in which a
   poll may still be started. *)
PollBudget == KillBudget - DeliveryReserve - (ByAir + Maps + Teardown)

(* time_left() in main. *)
TimeLeft == KillBudget - Teardown - spent

(* Defect: the index order decides. *)
IndexOrder(ranks) == [i \in Flights |-> i]

(* _oldest_poll_first: readable flights take the readable slots oldest first,
   ties in index order; a flight that does not read keeps its slot. *)
OldestPollFirst(ranks) ==
  LET known == Flights \ unreadable
      Ahead(f) == {g \in known : ranks[g] < ranks[f] \/ (ranks[g] = ranks[f] /\ g < f)}
  IN [i \in Flights |->
        IF i \in unreadable THEN i
        ELSE CHOOSE f \in known : Cardinality(Ahead(f)) = Cardinality(known \cap 1..(i - 1))]

(* Defect: the reader's reserve is forgotten. *)
ReserveWithoutReader(f) == IF f \in lookups THEN ByAir ELSE 0

(* Held back from a flight's start deadline for calls only it may make. *)
Reserve(f) ==
  (IF f \in lookups THEN ByAir ELSE 0) + (IF f \in readers /\ ~readerRun THEN Reader ELSE 0)

(* _may_lookup_airport, _may_spawn_reader: only a flight due to poll may need
   the extra call; markers, position and departure decide which of them do. *)
MayNeed(dues) == SUBSET dues

InTime(f) == spent < PollBudget - Reserve(f)

Renumbered == [f \in Flights |-> Cardinality({rank[g] : g \in {h \in Flights : rank[h] < rank[f]}})]

(* The polling share has room for one poll, whatever that poll reserves. *)
ASSUME RoomForOnePoll == ByAir + Reader < PollBudget

(* Counts n cycles for or against the flights of F. *)
Counted(F, n) == [f \in Flights |-> passed[f] + (IF f \in F \ unreadable THEN n ELSE 0)]

(* A cycle that ends here because of a fault, before any poll of it was
   answered, is not counted for the flights it did not come to. *)
FaultTook(fault) ==
  passed' = IF fault THEN Counted({order[i] : i \in DOMAIN order}, -1) ELSE passed

-----------------------------------------------------------------------------
BudgetInit ==
  /\ phase = "idle"
  /\ rank = [f \in Flights |-> 0]
  /\ waited = [f \in Flights |-> 0]
  /\ order = <<>>
  /\ due = {} /\ lookups = {} /\ readers = {}
  /\ readerRun = FALSE
  /\ spent = 0
  /\ reads = 0 /\ messages = 0
  /\ unreadable \in SUBSET Damaged
  /\ course = "clear" /\ passed = [f \in Flights |-> 0]

(* The pre-pass of _collect_cycle: who is due, whose poll may need the airport
   lookup or the zone reader, and in which order they are polled. *)
CycleOpen ==
  /\ phase = "idle"
  /\ phase' = "poll"
  /\ rank' = Renumbered
  /\ waited' = [f \in Flights |-> IF waited[f] < Cadence THEN waited[f] + 1 ELSE Cadence]
  /\ order' = OldestPollFirst(rank)
  /\ due' \in {D \in SUBSET Flights : \A f \in Flights : waited'[f] = Cadence => f \in D}
  /\ lookups' \in MayNeed(due')
  /\ readers' \in MayNeed(due')
  /\ course' = "clear" /\ passed' = Counted(Flights, 1)
  /\ UNCHANGED <<readerRun, spent, mail>>

(* _collect_cycle returns: its locals are gone. *)
Forget ==
  /\ due' = {} /\ lookups' = {} /\ readers' = {}
  /\ readerRun' = FALSE

(* Too late for this flight: it and everything behind it wait. *)
Defer ==
  /\ phase = "poll" /\ order # <<>>
  /\ ~InTime(Head(order))
  /\ order' = <<>>
  /\ FaultTook(course = "lost")
  /\ UNCHANGED <<phase, rank, waited, scope, readerRun, spent, mail, course>>

(* The record does not read: the exception ends the whole cycle. *)
Unread ==
  /\ phase = "poll" /\ order # <<>>
  /\ InTime(Head(order)) /\ Head(order) \in unreadable
  /\ phase' = "idle"
  /\ order' = <<>>
  /\ spent' = 0
  /\ Forget
  /\ FaultTook(course # "answered")
  /\ UNCHANGED <<rank, waited, mail, course>>

NotDue ==
  /\ phase = "poll" /\ order # <<>>
  /\ InTime(Head(order)) /\ Head(order) \notin unreadable \cup due
  /\ order' = Tail(order)
  /\ UNCHANGED <<phase, rank, waited, scope, readerRun, spent, mail, history>>

(* _process_flight: byAir, then at most the airport lookup, the zone reader and
   one Maps query; the record is written with this cycle's instant. *)
Poll(c, asksZone) ==
  LET f == Head(order) IN
  /\ phase = "poll" /\ order # <<>>
  /\ InTime(f) /\ f \in due \ unreadable
  /\ asksZone => f \in readers /\ ~readerRun
  /\ c <= ByAir + Maps + (IF f \in lookups THEN ByAir ELSE 0) + (IF asksZone THEN Reader ELSE 0)
  /\ spent' = spent + c
  /\ readerRun' = (readerRun \/ asksZone)
  /\ rank' = [rank EXCEPT ![f] = N]
  /\ waited' = [waited EXCEPT ![f] = 0]
  /\ order' = Tail(order)
  /\ course' = "answered" /\ passed' = [passed EXCEPT ![f] = 0]
  /\ UNCHANGED <<phase, scope, mail>>

(* 404, another byAir error or no answer in time: nothing is written. *)
PollFailed(c) ==
  LET f == Head(order) IN
  /\ phase = "poll" /\ order # <<>>
  /\ InTime(f) /\ f \in (due \cap Failing) \ unreadable
  /\ c <= ByAir
  /\ spent' = spent + c
  /\ order' = Tail(order)
  /\ course' = IF course = "clear" /\ c > 0 THEN "lost" ELSE course
  /\ passed' = Counted({f}, -1)
  /\ UNCHANGED <<phase, rank, waited, scope, readerRun, mail>>

(* The loop is over; what is due to be sent goes to compose(). *)
PollsOver ==
  /\ phase = "poll" /\ order = <<>>
  /\ phase' = "compose"
  /\ messages' \in 0..MaxMessages
  /\ reads' \in 0..messages'
  /\ Forget
  /\ UNCHANGED <<rank, waited, order, spent, history>>

(* compose() reads the calendar for each day-before check, and goes without
   when the read and one send no longer fit. *)
ReadCalendar(c) ==
  /\ phase = "compose" /\ reads > 0
  /\ c <= (IF TimeLeft < CalendarRead + Reply THEN 0 ELSE CalendarRead)
  /\ spent' = spent + c
  /\ reads' = reads - 1
  /\ UNCHANGED <<phase, rank, waited, order, scope, readerRun, messages, history>>

Composed ==
  /\ phase = "compose" /\ reads = 0
  /\ phase' = "send"
  /\ UNCHANGED <<rank, waited, order, scope, readerRun, spent, mail, history>>

SendMessage(c) ==
  /\ phase = "send" /\ messages > 0
  /\ TimeLeft >= Reply
  /\ c <= Reply
  /\ spent' = spent + c
  /\ messages' = messages - 1
  /\ UNCHANGED <<phase, rank, waited, order, scope, readerRun, reads, history>>

LeaveMessage ==
  /\ phase = "send" /\ messages > 0
  /\ TimeLeft < Reply
  /\ messages' = messages - 1
  /\ UNCHANGED <<phase, rank, waited, order, scope, readerRun, spent, reads, history>>

(* The reconcile subprocess starts only with more than its timeout left. *)
RunReconcile(c) ==
  /\ phase = "send" /\ messages = 0
  /\ TimeLeft > ReconcileLimit
  /\ c <= ReconcileLimit
  /\ spent' = spent + c
  /\ phase' = "reconcile"
  /\ UNCHANGED <<rank, waited, order, scope, readerRun, mail, history>>

CycleOver ==
  /\ \/ phase = "reconcile"
     \/ phase = "send" /\ messages = 0
  /\ phase' = "idle"
  /\ spent' = 0
  /\ UNCHANGED <<rank, waited, order, scope, readerRun, mail, history>>

BudgetNext ==
  /\ \/ CycleOpen \/ Defer \/ Unread \/ NotDue
     \/ \E c \in Seconds, asksZone \in BOOLEAN : Poll(c, asksZone)
     \/ \E c \in FailSeconds : PollFailed(c)
     \/ PollsOver
     \/ \E c \in Seconds : ReadCalendar(c)
     \/ Composed
     \/ \E c \in Seconds : SendMessage(c)
     \/ LeaveMessage
     \/ \E c \in Seconds : RunReconcile(c)
     \/ CycleOver
  /\ unreadable' = unreadable

BudgetSpec == BudgetInit /\ [][BudgetNext]_budgetVars

-----------------------------------------------------------------------------
(* The polls, with every extra call a late flight may still make, end before
   the share held back for delivery, and the whole cycle before the kill. *)
PollsLeaveDelivery == phase = "poll" => spent <= KillBudget - DeliveryReserve - Teardown
EndsBeforeKill == spent <= KillBudget - Teardown
FitsKillBudget == PollsLeaveDelivery /\ EndsBeforeKill

(* No flight whose record reads is passed over for more than one round of the
   index beyond its cadence: a slow predecessor that was polled goes to the
   back.  Not counted are the cycles a fault took from it: its own poll failed,
   or the loop ended before it with no poll answered, at a record that does not
   read or out of time that failed polls used. *)
NobodyStarves == \A f \in Flights : passed[f] < Cadence + N
=============================================================================
