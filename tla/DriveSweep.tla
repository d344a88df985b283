----------------------------- MODULE DriveSweep -----------------------------
(***************************************************************************)
(* The drive engine's sweep against the calendar and the skip command.     *)
(*                                                                         *)
(*   sweep   reconcile_sweep.py (_run_sweep): every half hour it reads     *)
(*           meetings and flights, the skips, then the calendar, diffs     *)
(*           them (reconcile.py, plan_reconcile) and applies the           *)
(*           difference call by call (calendar_apply.py, apply_plan)       *)
(*   skip    skip_drive.py: the operator's answer "skip" to a notice       *)
(*                                                                         *)
(* The calendar is the only memory of the blocks: nothing else says what   *)
(* was created.  No lock is held, the routing between the first read and   *)
(* the last write may take minutes, and the sweep may die at any point.    *)
(*                                                                         *)
(* A leg is one drive of a meeting or flight, its owner; a block carries   *)
(* its leg.  Times and drives are small integers of one unit.  Endpoints,  *)
(* windows, zones and the charging note only make further reasons to       *)
(* patch and are left out, as are the notices.                             *)
(***************************************************************************)
EXTENDS Integers, FiniteSets

CONSTANTS
  Legs, Owner,   \* the drives, and the meeting or flight each belongs to
  Skippable,     \* the owners that are meetings
  Sweeps,        \* runs of the sweep that may overlap
  Bounded,       \* those with an apply budget; a repair run has none
  Plans,         \* [Legs -> Nat]: when each leg is due at first
  Storm,         \* blocks an older engine may have left, ids 1, 2, ...
  Drives,        \* routed durations
  Blind, Off,    \* a leg the sweep cannot compute; one that does not exist
  Tolerance,     \* _BASELINE_SHIFT_TOLERANCE_SECONDS
  SkipPad,       \* _SKIP_EXPIRY_PAD
  Moves,         \* by how much a meeting may be put off
  MaxNow, MaxBlocks, MaxChanges, MaxFaults  \* model bounds

Want == [leg : Legs, at : Nat, drive : Drives]
Block == [id : Nat, leg : Legs, at : Nat, drive : Drives]

ASSUME SweepAssumption ==
  /\ Drives \subseteq Nat /\ Drives # {}
  /\ Plans \in [Legs -> Nat]
  /\ Blind \notin Nat /\ Off \notin Nat /\ Blind # Off
  /\ Storm \subseteq Block /\ IsFiniteSet(Storm)
  /\ \A b, c \in Storm : b.id <= Cardinality(Storm) /\ (b.id = c.id => b = c)
  /\ Bounded \subseteq Sweeps
  /\ Moves \subseteq Nat
  /\ {Tolerance, SkipPad, MaxNow, MaxBlocks, MaxChanges, MaxFaults} \subseteq Nat

VARIABLES
  now,
  world,     \* what the sources would say of each leg now
  calendar,  \* the engine's blocks on the primary calendar
  created,   \* event ids given out so far
  skips,     \* skip-state.json: the expiry of each skipped owner
  declined,  \* owners whose skip the operator saw recorded
  sweep,     \* each sweep: its step, what it read, what it still has to do
  skip,      \* the skip command: its step, its target
  changes, faults

counts == <<changes, faults>>
vars == <<now, world, calendar, created, skips, declined, sweep, skip, counts>>

Of(S, l) == {b \in S : b.leg = l}

IdleSweep == [step |-> "idle", at |-> 0, want |-> {}, held |-> {},
              updates |-> {}, creates |-> {}, deletes |-> {}, tried |-> FALSE]
IdleSkip == [step |-> "idle", owner |-> Off, ids |-> {}, expires |-> 0]

TypeOK ==
  /\ now \in Nat /\ created \in Nat
  /\ world \in [Legs -> [at : Nat, drive : Drives \cup {Blind, Off}]]
  /\ calendar \subseteq Block
  /\ skips \in [Skippable -> Nat]
  /\ declined \subseteq Skippable
  /\ sweep \in [Sweeps -> [step : {"idle", "read", "apply"}, at : Nat, want : SUBSET Want,
                           held : SUBSET Legs, updates : SUBSET Block, creates : SUBSET Want,
                           deletes : SUBSET Nat, tried : BOOLEAN]]
  /\ skip \in [step : {"idle", "found", "recorded"}, owner : Skippable \cup {Off},
               ids : SUBSET Nat, expires : Nat]
  /\ skip.step # "idle" => skip.owner \in Skippable
  /\ changes \in Nat /\ faults \in Nat

-----------------------------------------------------------------------------
(* Reading the sources *)

\* load_active_skips: an expiry of 0 stands for no entry.
ActiveSkips(t) == {o \in Skippable : skips[o] > t}

\* A meeting is over once none of its legs is still ahead, and under way
\* once one of them is behind (_is_past, _legs_unknowable, _leg_past).
Ahead(l, t) == world[l].at >= t
Over(o, t) == \A l \in Legs : Owner[l] = o => ~Ahead(l, t)
UnderWay(o, t) == ~Over(o, t) /\ \E l \in Legs : Owner[l] = o /\ ~Ahead(l, t)

\* Legs the sources still name: over ones drop out of the fetch.
Named(t) == {l \in Legs : world[l].drive # Off /\ ~Over(Owner[l], t)}

\* defect: a leg without a route is held before the skip is looked at.
HeldSkipped(t) == {l \in Named(t) : UnderWay(Owner[l], t) \/ world[l].drive = Blind}

\* scan._classify: the past guard comes before the skip.
Held(t) ==
  {l \in Named(t) : \/ UnderWay(Owner[l], t)
                    \/ world[l].drive = Blind /\ Owner[l] \notin ActiveSkips(t)}

\* defect: the skips are not looked at.
DesiredUnskipped(t) ==
  {[leg |-> l, at |-> world[l].at, drive |-> world[l].drive] : l \in Named(t) \ Held(t)}

\* defect: a failed route is not told from a drive.
DesiredBlind(t) ==
  {[leg |-> l, at |-> world[l].at, drive |-> world[l].drive] :
     l \in {k \in Named(t) : ~UnderWay(Owner[k], t) /\ Owner[k] \notin ActiveSkips(t)}}

Desired(t) ==
  {[leg |-> l, at |-> world[l].at, drive |-> world[l].drive] :
     l \in {k \in Named(t) \ Held(t) : Owner[k] \notin ActiveSkips(t)}}

-----------------------------------------------------------------------------
(* plan_reconcile *)

\* defect: the drive is compared past the tolerance.
NeedsUpdateLate(b, w) ==
  \/ b.at # w.at
  \/ b.drive - w.drive > Tolerance
  \/ w.drive - b.drive > Tolerance

\* _needs_update: the anchor moved, or the drive by the tolerance.
NeedsUpdate(b, w) ==
  \/ b.at # w.at
  \/ b.drive - w.drive >= Tolerance
  \/ w.drive - b.drive >= Tolerance

\* The first block the calendar returned for each leg is kept; the order of
\* the answer is the calendar's.
Kept(S) == {K \in SUBSET S : \A l \in Legs : Of(S, l) # {} => Cardinality(Of(K, l)) = 1}

\* defect: a leg that could not be computed is taken for gone.
OrphansHeld(S, want, held, t) ==
  {b \in S : (\A w \in want : w.leg # b.leg) /\ b.at >= t}

Orphans(S, want, held, t) ==
  {b \in S : /\ \A w \in want : w.leg # b.leg
             /\ b.leg \notin held
             /\ b.at >= t}          \* _done_by: an older block is history

\* defect: a kept block that has to be shifted is created anew and the old
\* one left to the clean-up, as before the in-place patch.
CreatesAnew(S, want) ==
  {w \in want : \A b \in Of(S, w.leg) : NeedsUpdate(b, w)}

Creates(S, want) == {w \in want : Of(S, w.leg) = {}}

Updates(K, want) ==
  {[id |-> p[1].id, leg |-> p[1].leg, at |-> p[2].at, drive |-> p[2].drive] :
     p \in {q \in K \X want : q[1].leg = q[2].leg /\ NeedsUpdate(q[1], q[2])}}

Duplicates(S, K, want) == {b \in S \ K : \E w \in want : w.leg = b.leg}

-----------------------------------------------------------------------------
Init ==
  /\ now = 0
  /\ \E d \in Drives : world = [l \in Legs |-> [at |-> Plans[l], drive |-> d]]
  /\ calendar \in {{}, Storm}
  /\ created = Cardinality(Storm)
  /\ skips = [o \in Skippable |-> 0] /\ declined = {}
  /\ sweep = [s \in Sweeps |-> IdleSweep] /\ skip = IdleSkip
  /\ changes = 0 /\ faults = 0

Tick ==
  /\ now < MaxNow
  /\ now' = now + 1
  /\ UNCHANGED <<world, calendar, created, skips, declined, sweep, skip, counts>>

Changed == changes < MaxChanges /\ changes' = changes + 1

\* Traffic, a routing failure and its end, a meeting called off or put back.
Turn(l, d) ==
  /\ Changed /\ world[l].drive # d
  /\ world' = [world EXCEPT ![l].drive = d]
  /\ UNCHANGED <<now, calendar, created, skips, declined, sweep, skip, faults>>

\* The meeting is put off: all its legs move.
PutOff(o, by) ==
  /\ Changed
  /\ world' = [l \in Legs |-> IF Owner[l] = o THEN [world[l] EXCEPT !.at = @ + by] ELSE world[l]]
  /\ UNCHANGED <<now, calendar, created, skips, declined, sweep, skip, faults>>

UserDeletes(b) ==
  /\ Changed
  /\ calendar' = calendar \ {b}
  /\ UNCHANGED <<now, world, created, skips, declined, sweep, skip, faults>>

-----------------------------------------------------------------------------
(* The sweep *)

sweeping(s, step) == sweep[s].step = step
others == <<now, world, skips, declined, skip, changes>>

\* The sources: flights, the meetings of the next weeks, the skips.
Begin(s) ==
  /\ sweeping(s, "idle")
  /\ sweep' = [sweep EXCEPT ![s] = [IdleSweep EXCEPT !.step = "read", !.at = now,
                                     !.want = Desired(now), !.held = Held(now)]]
  /\ UNCHANGED <<others, calendar, created, faults>>

\* The calendar, and the difference.
Fetch(s) ==
  /\ sweeping(s, "read")
  /\ LET w == sweep[s].want IN
     \E K \in Kept(calendar) :
       sweep' = [sweep EXCEPT ![s].step = "apply",
                   ![s].updates = Updates(K, w),
                   ![s].creates = Creates(calendar, w),
                   ![s].deletes = {b.id : b \in Duplicates(calendar, K, w)
                                     \cup Orphans(calendar, w, sweep[s].held, sweep[s].at)}]
  /\ UNCHANGED <<others, calendar, created, faults>>

\* Updates go first, then creations, then deletions.
NextUpdate(s, u) == sweeping(s, "apply") /\ u \in sweep[s].updates
NextCreate(s, w) == sweeping(s, "apply") /\ sweep[s].updates = {} /\ w \in sweep[s].creates
NextDelete(s, i) ==
  /\ sweeping(s, "apply")
  /\ sweep[s].updates = {} /\ sweep[s].creates = {}
  /\ i \in sweep[s].deletes

UpdateDone(s, u) == sweep' = [sweep EXCEPT ![s].updates = @ \ {u}, ![s].tried = TRUE]
CreateDone(s, w) == sweep' = [sweep EXCEPT ![s].creates = @ \ {w}, ![s].tried = TRUE]
DeleteDone(s, i) == sweep' = [sweep EXCEPT ![s].deletes = @ \ {i}, ![s].tried = TRUE]

\* One atomic patch of the same event; an event that is gone is an error
\* left to the next sweep.
Patch(s) ==
  \E u \in sweep[s].updates :
    /\ NextUpdate(s, u) /\ UpdateDone(s, u)
    /\ calendar' = IF \E b \in calendar : b.id = u.id
                   THEN {b \in calendar : b.id # u.id} \cup {u}
                   ELSE calendar
    /\ UNCHANGED <<others, created, faults>>

\* A creation whose start has passed meanwhile is skipped.
Late(w) == w.at - w.drive < now

Create(s) ==
  \E w \in sweep[s].creates :
    /\ NextCreate(s, w) /\ ~Late(w) /\ created < MaxBlocks
    /\ CreateDone(s, w)
    /\ created' = created + 1
    /\ calendar' = calendar \cup
         {[id |-> created + 1, leg |-> w.leg, at |-> w.at, drive |-> w.drive]}
    /\ UNCHANGED <<others, faults>>

CreateLate(s) ==
  \E w \in sweep[s].creates :
    /\ NextCreate(s, w) /\ Late(w)
    /\ sweep' = [sweep EXCEPT ![s].creates = @ \ {w}]
    /\ UNCHANGED <<others, calendar, created, faults>>

\* A 404 counts as done.
Delete(s) ==
  \E i \in sweep[s].deletes :
    /\ NextDelete(s, i) /\ DeleteDone(s, i)
    /\ calendar' = {b \in calendar : b.id # i}
    /\ UNCHANGED <<others, created, faults>>

\* A call is refused, or times out without effect: the error is noted and
\* the sweep goes on.
Refused(s) ==
  /\ faults < MaxFaults /\ faults' = faults + 1
  /\ \/ \E u \in sweep[s].updates : NextUpdate(s, u) /\ UpdateDone(s, u)
     \/ \E w \in sweep[s].creates : NextCreate(s, w) /\ ~Late(w) /\ CreateDone(s, w)
     \/ \E i \in sweep[s].deletes : NextDelete(s, i) /\ DeleteDone(s, i)
  /\ UNCHANGED <<others, calendar, created>>

\* The budget is used up; at least the first call was made.
Defer(s) ==
  /\ sweeping(s, "apply") /\ s \in Bounded /\ sweep[s].tried
  /\ sweep[s].updates # {} \/ sweep[s].creates # {} \/ sweep[s].deletes # {}
  /\ sweep' = [sweep EXCEPT ![s].updates = {}, ![s].creates = {}, ![s].deletes = {}]
  /\ UNCHANGED <<others, calendar, created, faults>>

Finish(s) ==
  /\ sweeping(s, "apply")
  /\ sweep[s].updates = {} /\ sweep[s].creates = {} /\ sweep[s].deletes = {}
  /\ sweep' = [sweep EXCEPT ![s] = IdleSweep]
  /\ UNCHANGED <<others, calendar, created, faults>>

\* The host's timeout, a crash, or a source that fails the whole sweep
\* closed (main); a creation on its way may still arrive.
Die(s) ==
  /\ ~sweeping(s, "idle")
  /\ faults < MaxFaults /\ faults' = faults + 1
  /\ sweep' = [sweep EXCEPT ![s] = IdleSweep]
  /\ \/ UNCHANGED <<calendar, created>>
     \/ \E w \in sweep[s].creates :
          /\ NextCreate(s, w) /\ ~Late(w) /\ created < MaxBlocks
          /\ created' = created + 1
          /\ calendar' = calendar \cup
               {[id |-> created + 1, leg |-> w.leg, at |-> w.at, drive |-> w.drive]}
  /\ UNCHANGED <<others>>

-----------------------------------------------------------------------------
(* The skip command *)

\* resolve_skip: the owner's blocks, whichever the calendar shows.
SkipResolve(o) ==
  /\ Changed /\ skip.step = "idle"
  /\ LET B == {b \in calendar : Owner[b.leg] = o} IN
     \E last \in {b.at : b \in B} :
       /\ \A b \in B : b.at <= last
       /\ skip' = [step |-> "found", owner |-> o, ids |-> {b.id : b \in B},
                   expires |-> last + SkipPad]
  /\ UNCHANGED <<now, world, calendar, created, skips, declined, sweep, faults>>

\* add_skip, which prunes what expired: recorded before anything is deleted.
SkipRecord ==
  /\ skip.step = "found"
  /\ skips' = [o \in Skippable |-> IF o = skip.owner THEN skip.expires
                                   ELSE IF skips[o] > now THEN skips[o] ELSE 0]
  /\ declined' = declined \cup {skip.owner}
  /\ skip' = [skip EXCEPT !.step = "recorded"]
  /\ UNCHANGED <<now, world, calendar, created, sweep, counts>>

SkipDelete ==
  /\ skip.step = "recorded"
  /\ \E i \in skip.ids :
       /\ calendar' = {b \in calendar : b.id # i}
       /\ skip' = [skip EXCEPT !.ids = @ \ {i}]
  /\ UNCHANGED <<now, world, created, skips, declined, sweep, counts>>

SkipDone ==
  /\ skip.step = "recorded" /\ skip.ids = {}
  /\ skip' = IdleSkip
  /\ UNCHANGED <<now, world, calendar, created, skips, declined, sweep, counts>>

\* Killed, or a calendar call raised: the rest is left to the sweep.
SkipDies ==
  /\ skip.step # "idle"
  /\ faults < MaxFaults /\ faults' = faults + 1
  /\ skip' = IdleSkip
  /\ UNCHANGED <<now, world, calendar, created, skips, declined, sweep, changes>>

-----------------------------------------------------------------------------
SweepStep(s) ==
  Begin(s) \/ Fetch(s) \/ Patch(s) \/ Create(s) \/ CreateLate(s) \/ Delete(s) \/ Finish(s)

SkipStep == SkipRecord \/ SkipDelete \/ SkipDone

Next ==
  \/ Tick
  \/ \E l \in Legs, d \in Drives \cup {Blind, Off} : Turn(l, d)
  \/ \E o \in Skippable : SkipResolve(o) \/ \E by \in Moves : PutOff(o, by)
  \/ \E b \in calendar : UserDeletes(b)
  \/ \E s \in Sweeps : SweepStep(s) \/ Refused(s) \/ Defer(s) \/ Die(s)
  \/ SkipStep \/ SkipDies

Spec == Init /\ [][Next]_vars

\* The scheduler starts the sweep again and again, and a job that is not
\* killed goes on.
FairSpec == Spec /\ (\A s \in Sweeps : WF_vars(SweepStep(s))) /\ WF_vars(SkipStep)

-----------------------------------------------------------------------------
(* Properties *)

\* The duplicate storm stays away: while sweeps do not overlap, no kill, lost
\* answer, deferral or user change adds a block to a leg that has one.
NoNewDuplicates ==
  [][\A b \in calendar' : \A c \in calendar :
       b.leg = c.leg => \E d \in calendar : d.id = b.id]_vars

\* A sweep's writing step takes the last block of a leg off the calendar, one
\* the engine made itself; of a storm's blocks the operator may have deleted
\* the one the sweep kept.
Strips(s, l) ==
  /\ sweep[s] # sweep'[s]
  /\ Of(calendar, l) # {} /\ Of(calendar', l) = {}
  /\ \A b \in Of(calendar, l) : b.id > Cardinality(Storm)

\* A routing failure, or a meeting that is under way, costs no block: a sweep
\* takes a leg off the calendar only if it found it gone or skipped, and never
\* a drive that was behind the operator when the sweep started.
KnownDrivesStay ==
  [][\A s \in Sweeps, l \in Legs : Strips(s, l) =>
       /\ l \notin sweep[s].held /\ \A w \in sweep[s].want : w.leg # l
       /\ \E b \in Of(calendar, l) : b.at >= sweep[s].at]_vars

\* What the calendar should show of a leg: one current block if the drive is
\* still to start, none if it is off or skipped and its time has not come.
Settled(l) ==
  LET w == [leg |-> l, at |-> world[l].at, drive |-> world[l].drive]
      off == w.drive = Off \/ Owner[l] \in ActiveSkips(now)
      underWay == Over(Owner[l], now) \/ UnderWay(Owner[l], now)
  IN  ~underWay =>
        IF off THEN \A b \in Of(calendar, l) : b.at < now
        ELSE w.drive = Blind \/ Late(w)
             \/ \E b \in calendar :
                  /\ Of(calendar, l) = {b} /\ b.at = w.at
                  /\ b.drive - w.drive < Tolerance /\ w.drive - b.drive < Tolerance

\* Whatever was deferred, refused, lost or raced by the operator, the sweeps
\* bring the calendar to what the sources say.
Converges == <>[](\A l \in Legs : Settled(l))

\* A skipped meeting loses its blocks, also those a racing sweep put back; one
\* whose time has passed meanwhile counts as history and stays.
SkipTakesHold ==
  \A o \in Skippable :
    (o \in declined) ~> \/ skips[o] <= now \/ Over(o, now) \/ UnderWay(o, now)
                        \/ \A b \in calendar : Owner[b.leg] = o => b.at < now
=============================================================================
