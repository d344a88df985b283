-------------------------- MODULE DriveSweepProofs --------------------------
(***************************************************************************)
(* For any legs, drives, skips and faults: the state keeps its type, and   *)
(* as long as sweeps do not overlap none of them adds a block to a leg     *)
(* that has one, or takes away a drive it knows. The second needs to know  *)
(* that what a sweep still has to create is not on the calendar, although  *)
(* it was read a while ago: only a sweep creates or patches blocks, so the *)
(* calendar can only lose some in between. The third needs that what it    *)
(* still has to delete was found gone, or is an older engine's second      *)
(* block.                                                                  *)
(***************************************************************************)
EXTENDS DriveSweep, FiniteSetTheorems, TLAPS

\* What a sweep wants is well formed: a leg it cannot compute is held.
LEMMA DesiredType ==
  ASSUME TypeOK PROVE Desired(now) \subseteq Want /\ Held(now) \subseteq Legs
BY SweepAssumption DEF TypeOK, Desired, Held, Named, Want

LEMMA DesiredOnce ==
  ASSUME NEW v \in Desired(now), NEW w \in Desired(now), v.leg = w.leg PROVE v = w
BY DEF Desired

LEMMA PlanType ==
  ASSUME NEW S \in SUBSET Block, NEW K \in SUBSET S, NEW W \in SUBSET Want,
         NEW H, NEW t
  PROVE  /\ Updates(K, W) \subseteq Block
         /\ Creates(S, W) \subseteq W
         /\ {b.id : b \in Duplicates(S, K, W) \cup Orphans(S, W, H, t)} \subseteq Nat
BY DEF Updates, Creates, Duplicates, Orphans, Block, Want

Sweep == [step : {"idle", "read", "apply"}, at : Nat, want : SUBSET Want,
          held : SUBSET Legs, updates : SUBSET Block, creates : SUBSET Want,
          deletes : SUBSET Nat, tried : BOOLEAN]

\* Every reachable state is well typed: a sweep never plans to write a leg it
\* could not compute, and a skip's expiry is a time (Desired, resolve_skip).
THEOREM SweepTyped == Spec => []TypeOK
<1> USE SweepAssumption
<1>1. Init => TypeOK
  <2> SUFFICES ASSUME Init PROVE TypeOK
    OBVIOUS
  <2>1. Cardinality(Storm) \in Nat
    BY FS_CardinalityType
  <2>2. calendar \subseteq Block /\ created \in Nat
    BY <2>1 DEF Init
  <2>3. world \in [Legs -> [at : Nat, drive : Drives \cup {Blind, Off}]]
    BY DEF Init
  <2>4. sweep \in [Sweeps -> Sweep]
    BY DEF Init, IdleSweep, Sweep
  <2>5. /\ skip \in [step : {"idle", "found", "recorded"}, owner : Skippable \cup {Off},
                      ids : SUBSET Nat, expires : Nat]
        /\ skip.step = "idle"
    BY DEF Init, IdleSkip
  <2> QED
    BY <2>2, <2>3, <2>4, <2>5 DEF Init, TypeOK, Sweep
<1>2. TypeOK /\ [Next]_vars => TypeOK'
  <2> SUFFICES ASSUME TypeOK, [Next]_vars PROVE TypeOK'
    OBVIOUS
  <2> USE DEF TypeOK
  <2>1. CASE Tick
    BY <2>1 DEF Tick, counts
  <2>2. ASSUME NEW l \in Legs, NEW d \in Drives \cup {Blind, Off}, Turn(l, d) PROVE TypeOK'
    BY <2>2 DEF Turn, Changed
  <2>3. ASSUME NEW o \in Skippable, NEW by \in Moves, PutOff(o, by) PROVE TypeOK'
    <3>1. \A l \in Legs : world[l].at + by \in Nat
      OBVIOUS
    <3> QED
      BY <2>3, <3>1 DEF PutOff, Changed
  <2>4. ASSUME NEW b \in calendar, UserDeletes(b) PROVE TypeOK'
    BY <2>4 DEF UserDeletes, Changed
  <2>5. ASSUME NEW s \in Sweeps, SweepStep(s) PROVE TypeOK'
    <3>0. sweep[s] \in Sweep
      BY DEF Sweep
    <3>1. CASE Begin(s)
      <4>1. Desired(now) \subseteq Want /\ Held(now) \subseteq Legs
        BY DesiredType
      <4>2. [IdleSweep EXCEPT !.step = "read", !.at = now, !.want = Desired(now),
                              !.held = Held(now)] \in Sweep
        BY <4>1 DEF IdleSweep, Sweep
      <4> QED
        BY <3>1, <4>2 DEF Begin, others, Sweep
    <3>2. CASE Fetch(s)
      <4> DEFINE w == sweep[s].want
                 dels(K) == {b.id : b \in Duplicates(calendar, K, w)
                                \cup Orphans(calendar, w, sweep[s].held, sweep[s].at)}
      <4>1. PICK K \in Kept(calendar) :
              sweep' = [sweep EXCEPT ![s].step = "apply", ![s].updates = Updates(K, w),
                          ![s].creates = Creates(calendar, w), ![s].deletes = dels(K)]
        BY <3>2 DEF Fetch
      <4>2. K \subseteq calendar /\ w \subseteq Want
        BY <3>0 DEF Kept, Sweep
      <4>3. Updates(K, w) \subseteq Block /\ Creates(calendar, w) \subseteq Want /\ dels(K) \subseteq Nat
        <5>1. calendar \in SUBSET Block /\ K \in SUBSET calendar /\ w \in SUBSET Want
          BY <4>2
        <5> HIDE DEF w
        <5>2. Creates(calendar, w) \subseteq w
          BY <5>1, PlanType
        <5> QED
          BY <5>1, <5>2, PlanType
      <4> HIDE DEF w, dels
      <4>4. sweep' \in [Sweeps -> Sweep]
        BY <3>0, <4>1, <4>3 DEF Sweep
      <4> QED
        BY <3>2, <4>4 DEF Fetch, others, Sweep
    <3>3. CASE Patch(s)
      <4>1. PICK u \in sweep[s].updates :
              /\ UpdateDone(s, u)
              /\ calendar' \subseteq calendar \cup {u}
        BY <3>3 DEF Patch
      <4>2. u \in Block
        BY <3>0, <4>1 DEF Sweep
      <4>3. sweep' \in [Sweeps -> Sweep]
        BY <3>0, <4>1 DEF UpdateDone, Sweep
      <4> QED
        BY <3>3, <4>1, <4>2, <4>3 DEF Patch, others, Sweep
    <3>4. CASE Create(s)
      <4>1. PICK w \in sweep[s].creates :
              /\ CreateDone(s, w) /\ created' = created + 1
              /\ calendar' = calendar \cup
                   {[id |-> created + 1, leg |-> w.leg, at |-> w.at, drive |-> w.drive]}
        BY <3>4 DEF Create
      <4>2. w \in Want
        BY <3>0, <4>1 DEF Sweep
      <4>3. calendar' \subseteq Block
        BY <4>1, <4>2 DEF Want, Block
      <4>4. sweep' \in [Sweeps -> Sweep]
        BY <3>0, <4>1 DEF CreateDone, Sweep
      <4> QED
        BY <3>4, <4>1, <4>3, <4>4 DEF Create, others, Sweep
    <3>5. CASE CreateLate(s)
      <4>0. PICK w : sweep' = [sweep EXCEPT ![s].creates = @ \ {w}]
        BY <3>5 DEF CreateLate
      <4>1. sweep' \in [Sweeps -> Sweep]
        BY <3>0, <4>0 DEF Sweep
      <4> QED
        BY <3>5, <4>1 DEF CreateLate, others, Sweep
    <3>6. CASE Delete(s)
      <4>0. PICK i : sweep' = [sweep EXCEPT ![s].deletes = @ \ {i}, ![s].tried = TRUE]
        BY <3>6 DEF Delete, DeleteDone
      <4>1. sweep' \in [Sweeps -> Sweep]
        BY <3>0, <4>0 DEF Sweep
      <4> QED
        BY <3>6, <4>1 DEF Delete, others, Sweep
    <3>7. CASE Finish(s)
      <4>1. sweep' \in [Sweeps -> Sweep]
        BY <3>0, <3>7 DEF Finish, IdleSweep, Sweep
      <4> QED
        BY <3>7, <4>1 DEF Finish, others, Sweep
    <3> QED
      BY <2>5, <3>1, <3>2, <3>3, <3>4, <3>5, <3>6, <3>7 DEF SweepStep
  <2>6. ASSUME NEW s \in Sweeps, Refused(s) PROVE TypeOK'
    <3>0. sweep[s] \in Sweep
      BY DEF Sweep
    <3>a. ASSUME NEW u, UpdateDone(s, u) PROVE sweep' \in [Sweeps -> Sweep]
      BY <3>0, <3>a DEF UpdateDone, Sweep
    <3>b. ASSUME NEW w, CreateDone(s, w) PROVE sweep' \in [Sweeps -> Sweep]
      BY <3>0, <3>b DEF CreateDone, Sweep
    <3>c. ASSUME NEW i, DeleteDone(s, i) PROVE sweep' \in [Sweeps -> Sweep]
      BY <3>0, <3>c DEF DeleteDone, Sweep
    <3>1. sweep' \in [Sweeps -> Sweep]
      BY <2>6, <3>a, <3>b, <3>c DEF Refused
    <3> QED
      BY <2>6, <3>1 DEF Refused, others, Sweep
  <2>7. ASSUME NEW s \in Sweeps, Defer(s) PROVE TypeOK'
    <3>0. sweep[s] \in Sweep
      BY DEF Sweep
    <3>1. sweep' \in [Sweeps -> Sweep]
      BY <2>7, <3>0 DEF Defer, Sweep
    <3> QED
      BY <2>7, <3>1 DEF Defer, others, Sweep
  <2>8. ASSUME NEW s \in Sweeps, Die(s) PROVE TypeOK'
    <3>0. sweep[s] \in Sweep
      BY DEF Sweep
    <3>1. sweep' \in [Sweeps -> Sweep]
      BY <2>8, <3>0 DEF Die, IdleSweep, Sweep
    <3>2. calendar' \subseteq Block /\ created' \in Nat
      <4>1. CASE UNCHANGED <<calendar, created>>
        BY <4>1
      <4>2. ASSUME NEW w \in sweep[s].creates, created' = created + 1,
                   calendar' = calendar \cup
                     {[id |-> created + 1, leg |-> w.leg, at |-> w.at, drive |-> w.drive]}
            PROVE  calendar' \subseteq Block /\ created' \in Nat
        <5>1. w \in Want
          BY <3>0 DEF Sweep
        <5> QED
          BY <4>2, <5>1 DEF Want, Block
      <4> QED
        BY <2>8, <4>1, <4>2 DEF Die
    <3> QED
      BY <2>8, <3>1, <3>2 DEF Die, others, Sweep
  <2>9. ASSUME NEW o \in Skippable, SkipResolve(o) PROVE TypeOK'
    <3> DEFINE B == {b \in calendar : Owner[b.leg] = o}
    <3>1. PICK last \in {b.at : b \in B} :
            skip' = [step |-> "found", owner |-> o, ids |-> {b.id : b \in B},
                     expires |-> last + SkipPad]
      BY <2>9 DEF SkipResolve
    <3>2. last \in Nat
      BY DEF Block
    <3>3. last + SkipPad \in Nat /\ {b.id : b \in B} \subseteq Nat
      BY <3>2 DEF Block
    <3> DEFINE ids == {b.id : b \in B}
               exp == last + SkipPad
    <3>4. skip' = [step |-> "found", owner |-> o, ids |-> ids, expires |-> exp]
      BY <3>1
    <3>5. ids \subseteq Nat /\ exp \in Nat
      BY <3>3
    <3> HIDE DEF ids, exp
    <3>6. /\ skip' \in [step : {"idle", "found", "recorded"}, owner : Skippable \cup {Off},
                        ids : SUBSET Nat, expires : Nat]
          /\ skip'.owner \in Skippable
      BY <3>4, <3>5
    <3> QED
      BY <2>9, <3>6 DEF SkipResolve, Changed
  <2>10. CASE SkipStep \/ SkipDies
    <3>1. CASE SkipRecord
      <4>1. skip.owner \in Skippable
        BY <3>1 DEF SkipRecord
      <4>2. declined' \subseteq Skippable /\ skips' \in [Skippable -> Nat]
        BY <3>1, <4>1 DEF SkipRecord
      <4> QED
        BY <3>1, <4>2 DEF SkipRecord, counts
    <3>2. CASE SkipDelete
      BY <3>2 DEF SkipDelete, counts
    <3>3. CASE SkipDone
      BY <3>3 DEF SkipDone, IdleSkip, counts
    <3>4. CASE SkipDies
      BY <3>4 DEF SkipDies, IdleSkip
    <3> QED
      BY <2>10, <3>1, <3>2, <3>3, <3>4 DEF SkipStep
  <2>11. CASE UNCHANGED vars
    BY <2>11 DEF vars, counts
  <2> QED
    BY <2>1, <2>2, <2>3, <2>4, <2>5, <2>6, <2>7, <2>8, <2>9, <2>10, <2>11 DEF Next
<1> QED
  BY <1>1, <1>2, PTL DEF Spec

-----------------------------------------------------------------------------
(* No duplicates *)

IdsGiven ==
  /\ \A b \in calendar : b.id <= created
  /\ \A b, c \in calendar : b.id = c.id => b = c

OncePerLeg(W) == \A v, w \in W : v.leg = w.leg => v = w

\* What a sweep still has to create is not on the calendar, and what it has
\* to patch is still the leg it was.
StillNew(s) ==
  /\ OncePerLeg(sweep[s].want) /\ OncePerLeg(sweep[s].creates)
  /\ \A w \in sweep[s].creates, b \in calendar : b.leg # w.leg
  /\ \A u \in sweep[s].updates :
       u.id <= created /\ \A b \in calendar : b.id = u.id => b.leg = u.leg

Fresh == IdsGiven /\ \A s \in Sweeps : StillNew(s)

\* A step that leaves the sweeps alone and only takes blocks away keeps it.
LEMMA FreshKept ==
  ASSUME Fresh, sweep' = sweep, calendar' \subseteq calendar, created' = created
  PROVE  Fresh'
BY DEF Fresh, IdsGiven, StillNew

\* So does a sweep's step after which it has no more to do than before.
LEMMA FreshLess ==
  ASSUME TypeOK, Fresh, calendar' \subseteq calendar, created' = created,
         NEW s \in Sweeps, NEW r, sweep' = [sweep EXCEPT ![s] = r],
         OncePerLeg(r.want), r.creates \subseteq sweep[s].creates,
         r.updates \subseteq sweep[s].updates
  PROVE  Fresh'
<1>1. IdsGiven'
  BY DEF Fresh, IdsGiven
<1>2. ASSUME NEW t \in Sweeps PROVE StillNew(t)'
  <2>1. CASE t = s
    <3>1. sweep'[t] = r /\ StillNew(s)
      BY <2>1 DEF TypeOK, Fresh
    <3> QED
      BY <2>1, <3>1 DEF StillNew, OncePerLeg
  <2>2. CASE t # s
    <3>1. sweep'[t] = sweep[t] /\ StillNew(t)
      BY <2>2 DEF TypeOK, Fresh
    <3> QED
      BY <3>1 DEF StillNew
  <2> QED
    BY <2>1, <2>2
<1> QED
  BY <1>1, <1>2 DEF Fresh

\* A creation of the only sweep, answered or not.
LEMMA FreshCreate ==
  ASSUME TypeOK, Fresh, NEW s \in Sweeps, \A t \in Sweeps : t = s,
         NEW w \in sweep[s].creates, NEW r, sweep' = [sweep EXCEPT ![s] = r],
         OncePerLeg(r.want), r.creates \subseteq sweep[s].creates \ {w},
         r.updates \subseteq sweep[s].updates,
         created' = created + 1,
         calendar' = calendar \cup
           {[id |-> created + 1, leg |-> w.leg, at |-> w.at, drive |-> w.drive]}
  PROVE  Fresh' /\ \A b \in calendar' : \A c \in calendar :
                     b.leg = c.leg => \E d \in calendar : d.id = b.id
<1> DEFINE n == [id |-> created + 1, leg |-> w.leg, at |-> w.at, drive |-> w.drive]
<1>0. n.id = created + 1 /\ n.leg = w.leg /\ calendar' = calendar \cup {n}
  OBVIOUS
<1> HIDE DEF n
<1>1. created \in Nat /\ (\A b \in calendar : b.id \in Nat /\ b.id <= created)
  BY DEF TypeOK, Block, Fresh, IdsGiven
<1>2. StillNew(s) /\ sweep'[s] = r /\ OncePerLeg(sweep[s].creates)
  BY DEF TypeOK, Fresh, StillNew
<1>3. \A u \in sweep[s].updates : u.id \in Nat /\ u.id <= created
  BY <1>2 DEF TypeOK, StillNew, Block
<1>4. \A v \in r.creates : v.leg # w.leg
  BY <1>2 DEF OncePerLeg
<1>5. IdsGiven'
  <2>1. \A b, c \in calendar : b.id = c.id => b = c
    BY DEF Fresh, IdsGiven
  <2> QED
    BY <1>0, <1>1, <2>1 DEF IdsGiven
<1>6. StillNew(s)'
  <2>1. \A v \in r.creates, b \in calendar' : b.leg # v.leg
    BY <1>0, <1>2, <1>4 DEF StillNew
  <2>2. \A u \in r.updates :
          u.id <= created' /\ \A b \in calendar' : b.id = u.id => b.leg = u.leg
    BY <1>0, <1>1, <1>2, <1>3 DEF StillNew
  <2> QED
    BY <1>2, <2>1, <2>2 DEF StillNew, OncePerLeg
<1>7. ASSUME NEW b \in calendar', NEW c \in calendar, b.leg = c.leg
      PROVE  \E d \in calendar : d.id = b.id
  BY <1>0, <1>2, <1>7 DEF StillNew
<1> QED
  BY <1>5, <1>6, <1>7 DEF Fresh

\* A sweep that reads the calendar finds there what it does not create.
LEMMA FreshFetch ==
  ASSUME TypeOK, Fresh, NEW s \in Sweeps, \A t \in Sweeps : t = s, Fetch(s)
  PROVE  Fresh'
<1> DEFINE w == sweep[s].want
           dels(K) == {b.id : b \in Duplicates(calendar, K, w)
                          \cup Orphans(calendar, w, sweep[s].held, sweep[s].at)}
<1>1. PICK K \in Kept(calendar) :
        sweep' = [sweep EXCEPT ![s].step = "apply", ![s].updates = Updates(K, w),
                    ![s].creates = Creates(calendar, w), ![s].deletes = dels(K)]
  BY DEF Fetch
<1> HIDE DEF dels
<1>2. sweep[s] \in [step : {"idle", "read", "apply"}, at : Nat, want : SUBSET Want,
                    held : SUBSET Legs, updates : SUBSET Block, creates : SUBSET Want,
                    deletes : SUBSET Nat, tried : BOOLEAN]
  BY DEF TypeOK
<1>3. sweep'[s].want = w /\ sweep'[s].creates = Creates(calendar, w)
      /\ sweep'[s].updates = Updates(K, w)
  BY <1>1, <1>2 DEF TypeOK
<1>4. calendar' = calendar /\ created' = created
  BY DEF Fetch
<1>5. K \subseteq calendar
  BY DEF Kept
<1>6. \A u \in Updates(K, w) : \E p \in K : u.id = p.id /\ u.leg = p.leg
  BY DEF Updates
<1>7. OncePerLeg(w)
  BY DEF Fresh, StillNew
<1>8. \A u \in Updates(K, w) : u.id <= created
  BY <1>5, <1>6 DEF Fresh, IdsGiven
<1>9. StillNew(s)'
  <2>3. \A u \in Updates(K, w), b \in calendar : b.id = u.id => b.leg = u.leg
    BY <1>5, <1>6 DEF Fresh, IdsGiven
  <2>1. OncePerLeg(Creates(calendar, w))
    BY <1>7 DEF OncePerLeg, Creates
  <2>2. \A v \in Creates(calendar, w), b \in calendar : b.leg # v.leg
    BY DEF Creates, Of
  <2> QED
    BY <1>3, <1>4, <1>7, <1>8, <2>1, <2>2, <2>3 DEF StillNew, OncePerLeg
<1>10. IdsGiven'
  BY <1>4 DEF Fresh, IdsGiven
<1> QED
  BY <1>9, <1>10 DEF Fresh

\* A patch writes an event that is there, or nothing.
LEMMA FreshPatch ==
  ASSUME TypeOK, Fresh, NEW s \in Sweeps, \A t \in Sweeps : t = s, Patch(s)
  PROVE  Fresh' /\ \A b \in calendar' : \A c \in calendar :
                     b.leg = c.leg => \E d \in calendar : d.id = b.id
<1>1. PICK u \in sweep[s].updates :
        /\ UpdateDone(s, u)
        /\ calendar' = IF \E b \in calendar : b.id = u.id
                       THEN {b \in calendar : b.id # u.id} \cup {u} ELSE calendar
  BY DEF Patch
<1>2. created' = created
  BY DEF Patch
<1>3. /\ sweep'[s].want = sweep[s].want /\ sweep'[s].creates = sweep[s].creates
      /\ sweep'[s].updates \subseteq sweep[s].updates
  BY <1>1 DEF UpdateDone, TypeOK
<1>4. StillNew(s)
  BY DEF Fresh
<1>5. CASE \E b \in calendar : b.id = u.id
  <2>1. PICK a \in calendar : a.id = u.id
    BY <1>5
  <2>2. a.leg = u.leg /\ u.id <= created
    BY <1>4, <2>1 DEF StillNew
  <2>3. calendar' = {b \in calendar : b.id # u.id} \cup {u}
    BY <1>1, <1>5
  <2>4. IdsGiven'
    BY <1>2, <2>2, <2>3 DEF Fresh, IdsGiven
  <2>5. \A w \in sweep[s].creates, b \in calendar' : b.leg # w.leg
    BY <1>4, <2>1, <2>2, <2>3 DEF StillNew
  <2>6. \A v \in sweep[s].updates, b \in calendar' : b.id = v.id => b.leg = v.leg
    BY <1>4, <2>1, <2>2, <2>3 DEF StillNew
  <2>7. StillNew(s)'
    BY <1>2, <1>3, <1>4, <2>5, <2>6 DEF StillNew, OncePerLeg
  <2>8. \A b \in calendar' : \E d \in calendar : d.id = b.id
    BY <2>1, <2>3
  <2> QED
    BY <2>4, <2>7, <2>8 DEF Fresh
<1>6. CASE ~\E b \in calendar : b.id = u.id
  <2>1. calendar' = calendar
    BY <1>1, <1>6
  <2>2. StillNew(s)' /\ IdsGiven'
    BY <1>2, <1>3, <1>4, <2>1 DEF StillNew, OncePerLeg, Fresh, IdsGiven
  <2> QED
    BY <2>1, <2>2 DEF Fresh
<1> QED
  BY <1>5, <1>6

\* The other steps of a sweep create nothing.
LEMMA FreshOther ==
  ASSUME TypeOK, Fresh, NEW s \in Sweeps,
         Begin(s) \/ CreateLate(s) \/ Delete(s) \/ Finish(s) \/ Refused(s) \/ Defer(s)
  PROVE  Fresh' /\ calendar' \subseteq calendar
<1>0. StillNew(s) /\ OncePerLeg({})
  BY DEF Fresh, OncePerLeg
<1>1. CASE Begin(s)
  <2> DEFINE r == [IdleSweep EXCEPT !.step = "read", !.at = now, !.want = Desired(now),
                                    !.held = Held(now)]
  <2>1. sweep' = [sweep EXCEPT ![s] = r] /\ calendar' = calendar /\ created' = created
    BY <1>1 DEF Begin
  <2>2. r.want = Desired(now) /\ r.creates = {} /\ r.updates = {}
    BY DEF IdleSweep
  <2>3. OncePerLeg(r.want)
    BY <2>2, DesiredOnce DEF OncePerLeg
  <2> HIDE DEF r
  <2> QED
    BY <2>1, <2>2, <2>3, FreshLess
<1>2. CASE Finish(s)
  <2>1. sweep' = [sweep EXCEPT ![s] = IdleSweep] /\ calendar' = calendar /\ created' = created
    BY <1>2 DEF Finish
  <2>2. IdleSweep.want = {} /\ IdleSweep.creates = {} /\ IdleSweep.updates = {}
    BY DEF IdleSweep
  <2> QED
    BY <1>0, <2>1, <2>2, FreshLess
<1>3. ASSUME NEW r, sweep' = [sweep EXCEPT ![s] = r], r.want = sweep[s].want,
             r.creates \subseteq sweep[s].creates, r.updates \subseteq sweep[s].updates,
             calendar' \subseteq calendar, created' = created
      PROVE  Fresh'
  BY <1>0, <1>3, FreshLess DEF StillNew
<1>4. CASE CreateLate(s)
  <2>1. PICK w : sweep' = [sweep EXCEPT ![s].creates = @ \ {w}]
    BY <1>4 DEF CreateLate
  <2>2. calendar' = calendar /\ created' = created
    BY <1>4 DEF CreateLate
  <2> QED
    BY <1>3, <2>1, <2>2 DEF TypeOK
<1>5. ASSUME NEW i, DeleteDone(s, i), calendar' \subseteq calendar, created' = created
      PROVE  Fresh'
  BY <1>3, <1>5 DEF DeleteDone, TypeOK
<1>6. CASE Delete(s)
  BY <1>5, <1>6 DEF Delete
<1>7. CASE Refused(s)
  <2>1. calendar' = calendar /\ created' = created
    BY <1>7 DEF Refused
  <2>2. ASSUME NEW u, UpdateDone(s, u) PROVE Fresh'
    BY <1>3, <2>1, <2>2 DEF UpdateDone, TypeOK
  <2>3. ASSUME NEW w, CreateDone(s, w) PROVE Fresh'
    BY <1>3, <2>1, <2>3 DEF CreateDone, TypeOK
  <2> QED
    BY <1>5, <1>7, <2>1, <2>2, <2>3 DEF Refused
<1>8. CASE Defer(s)
  <2>1. calendar' = calendar /\ created' = created
    BY <1>8 DEF Defer
  <2> QED
    BY <1>3, <1>8, <2>1 DEF Defer, TypeOK
<1> QED
  BY <1>1, <1>2, <1>4, <1>6, <1>7, <1>8 DEF Begin, CreateLate, Delete, Finish, Refused, Defer

\* No step of a world where sweeps do not overlap gives a leg a second block.
NoNew == \A b \in calendar' : \A c \in calendar :
           b.leg = c.leg => \E d \in calendar : d.id = b.id

LEMMA FreshInit == Init => Fresh
<1> SUFFICES ASSUME Init PROVE Fresh
  OBVIOUS
<1>1. IdsGiven
  BY SweepAssumption DEF Init, IdsGiven
<1>2. \A s \in Sweeps : StillNew(s)
  BY DEF Init, IdleSweep, StillNew, OncePerLeg
<1> QED
  BY <1>1, <1>2 DEF Fresh

LEMMA FreshNext ==
  (\A s, t \in Sweeps : s = t) /\ TypeOK /\ Fresh /\ [Next]_vars => Fresh' /\ NoNew
<1> SUFFICES ASSUME \A s, t \in Sweeps : s = t, TypeOK, Fresh, [Next]_vars
             PROVE  Fresh' /\ NoNew
  OBVIOUS
<1> USE DEF NoNew
<1>1. ASSUME sweep' = sweep, calendar' \subseteq calendar, created' = created
      PROVE  Fresh' /\ NoNew
  BY <1>1, FreshKept
<1>2. CASE Tick \/ SkipStep \/ SkipDies \/ UNCHANGED vars
  BY <1>1, <1>2 DEF Tick, SkipStep, SkipRecord, SkipDelete, SkipDone, SkipDies, vars
<1>3. ASSUME NEW l \in Legs, NEW d \in Drives \cup {Blind, Off}, Turn(l, d)
      PROVE  Fresh' /\ NoNew
  BY <1>1, <1>3 DEF Turn
<1>4. ASSUME NEW o \in Skippable, SkipResolve(o) \/ \E by \in Moves : PutOff(o, by)
      PROVE  Fresh' /\ NoNew
  BY <1>1, <1>4 DEF SkipResolve, PutOff
<1>5. ASSUME NEW b \in calendar, UserDeletes(b) PROVE Fresh' /\ NoNew
  BY <1>1, <1>5 DEF UserDeletes
<1>6. ASSUME NEW s \in Sweeps, SweepStep(s) \/ Refused(s) \/ Defer(s) \/ Die(s)
      PROVE  Fresh' /\ NoNew
  <2>0. StillNew(s) /\ OncePerLeg({})
    BY DEF Fresh, OncePerLeg
  <2>1. CASE Begin(s) \/ CreateLate(s) \/ Delete(s) \/ Finish(s) \/ Refused(s) \/ Defer(s)
    BY <2>1, FreshOther
  <2>2. CASE Fetch(s)
    <3>1. calendar' = calendar
      BY <2>2 DEF Fetch
    <3> QED
      BY <2>2, <3>1, FreshFetch
  <2>3. CASE Patch(s)
    BY <2>3, FreshPatch
  <2>4. CASE Create(s)
    <3>1. PICK w \in sweep[s].creates :
            /\ CreateDone(s, w) /\ created' = created + 1
            /\ calendar' = calendar \cup
                 {[id |-> created + 1, leg |-> w.leg, at |-> w.at, drive |-> w.drive]}
      BY <2>4 DEF Create
    <3> DEFINE r == [sweep[s] EXCEPT !.creates = @ \ {w}, !.tried = TRUE]
    <3>2. sweep' = [sweep EXCEPT ![s] = r]
      BY <3>1 DEF CreateDone, TypeOK
    <3>3. r.want = sweep[s].want /\ r.creates = sweep[s].creates \ {w}
          /\ r.updates = sweep[s].updates
      BY DEF TypeOK
    <3> HIDE DEF r
    <3>4. OncePerLeg(r.want)
      BY <2>0, <3>3 DEF StillNew
    <3> QED
      BY <3>1, <3>2, <3>3, <3>4, FreshCreate
  <2>5. CASE Die(s)
    <3>1. sweep' = [sweep EXCEPT ![s] = IdleSweep]
      BY <2>5 DEF Die
    <3>2. IdleSweep.want = {} /\ IdleSweep.creates = {} /\ IdleSweep.updates = {}
      BY DEF IdleSweep
    <3>3. CASE UNCHANGED <<calendar, created>>
      BY <2>0, <3>1, <3>2, <3>3, FreshLess
    <3>4. ASSUME NEW w \in sweep[s].creates, created' = created + 1,
                 calendar' = calendar \cup
                   {[id |-> created + 1, leg |-> w.leg, at |-> w.at, drive |-> w.drive]}
          PROVE  Fresh' /\ NoNew
      BY <2>0, <3>1, <3>2, <3>4, FreshCreate
    <3> QED
      BY <2>5, <3>3, <3>4 DEF Die
  <2> QED
    BY <1>6, <2>1, <2>2, <2>3, <2>4, <2>5 DEF SweepStep
<1> QED
  BY <1>2, <1>3, <1>4, <1>5, <1>6 DEF Next

LEMMA SerialFresh ==
  ASSUME \A s, t \in Sweeps : s = t PROVE Spec => []Fresh
BY FreshInit, FreshNext, SweepTyped, PTL DEF Spec

\* While sweeps do not overlap, none of them gives a leg that has a block a
\* second one (plan_reconcile, apply_plan): neither a kill nor a lost answer,
\* a deferral, a skip or a change of plans between reading and writing.
THEOREM SerialSweepsAddNoDuplicates ==
  ASSUME \A s, t \in Sweeps : s = t PROVE Spec => NoNewDuplicates
<1>1. [][NoNew]_vars <=> NoNewDuplicates
  BY DEF NoNewDuplicates, NoNew
<1> QED
  BY <1>1, SerialFresh, FreshNext, SweepTyped, PTL DEF Spec

-----------------------------------------------------------------------------
(* No drive is lost.  A block off the calendar is a leg's last one only if   *)
(* the sweep judged the leg gone when it read the calendar.  Its other       *)
(* reason to delete is a second block of a leg it keeps; while sweeps do not *)
(* overlap only an older engine's storm has left such blocks.                *)

\* Two blocks of one leg are both an older engine's.
Apart ==
  \A b, c \in calendar : b.leg = c.leg /\ b # c => b.id <= Cardinality(Storm)

Gone(s, b) ==
  /\ b.leg \notin sweep[s].held /\ \A w \in sweep[s].want : w.leg # b.leg
  /\ b.at >= sweep[s].at

\* What a sweep patches it wants; what it deletes is gone for it, or a storm's.
Judged(s) ==
  /\ \A u \in sweep[s].updates : \E w \in sweep[s].want : w.leg = u.leg
  /\ \A i \in sweep[s].deletes :
       /\ i <= created
       /\ i <= Cardinality(Storm) \/ \A b \in calendar : b.id = i => Gone(s, b)

Stays == Apart /\ \A s \in Sweeps : Judged(s)

LEMMA StormCount == Cardinality(Storm) \in Nat
BY SweepAssumption, FS_CardinalityType

LEMMA StaysKept ==
  ASSUME Stays, sweep' = sweep, calendar' \subseteq calendar, created' = created
  PROVE  Stays'
BY DEF Stays, Apart, Judged, Gone

\* A sweep's step after which it has no more to do than before.
LEMMA StaysLess ==
  ASSUME TypeOK, Stays, calendar' \subseteq calendar, created' = created,
         NEW s \in Sweeps, NEW r, sweep' = [sweep EXCEPT ![s] = r],
         \/ r.updates = {} /\ r.deletes = {}
         \/ /\ r.want = sweep[s].want /\ r.held = sweep[s].held /\ r.at = sweep[s].at
            /\ r.updates \subseteq sweep[s].updates /\ r.deletes \subseteq sweep[s].deletes
  PROVE  Stays'
<1>1. ASSUME NEW t \in Sweeps PROVE Judged(t)'
  <2>1. CASE t = s
    <3>1. sweep'[t] = r /\ Judged(s)
      BY <2>1 DEF TypeOK, Stays
    <3> QED
      BY <2>1, <3>1 DEF Judged, Gone
  <2>2. CASE t # s
    <3>1. sweep'[t] = sweep[t] /\ Judged(t)
      BY <2>2 DEF TypeOK, Stays
    <3> QED
      BY <3>1 DEF Judged, Gone
  <2> QED
    BY <2>1, <2>2
<1> QED
  BY <1>1 DEF Stays, Apart

LEMMA StaysCreate ==
  ASSUME TypeOK, Fresh, Stays, NEW s \in Sweeps, \A t \in Sweeps : t = s,
         NEW w \in sweep[s].creates, NEW r, sweep' = [sweep EXCEPT ![s] = r],
         \/ r.updates = {} /\ r.deletes = {}
         \/ /\ r.want = sweep[s].want /\ r.held = sweep[s].held /\ r.at = sweep[s].at
            /\ r.updates \subseteq sweep[s].updates /\ r.deletes \subseteq sweep[s].deletes,
         created' = created + 1,
         calendar' = calendar \cup
           {[id |-> created + 1, leg |-> w.leg, at |-> w.at, drive |-> w.drive]}
  PROVE  Stays'
<1> DEFINE n == [id |-> created + 1, leg |-> w.leg, at |-> w.at, drive |-> w.drive]
<1>0. n.id = created + 1 /\ n.leg = w.leg /\ calendar' = calendar \cup {n}
  OBVIOUS
<1> HIDE DEF n
<1>1. created \in Nat /\ sweep'[s] = r /\ sweep[s].deletes \subseteq Nat
  BY DEF TypeOK
<1>2. \A b \in calendar : b.leg # n.leg
  BY <1>0 DEF Fresh, StillNew
<1>3. Apart'
  BY <1>0, <1>2 DEF Stays, Apart
<1>4. Judged(s)'
  <2>1. CASE r.updates = {} /\ r.deletes = {}
    BY <1>1, <2>1 DEF Judged
  <2>2. CASE ~(r.updates = {} /\ r.deletes = {})
    <3>1. \A i \in r.deletes : i \in Nat /\ i <= created
      BY <1>1, <2>2 DEF Stays, Judged
    <3>2. \A i \in r.deletes : i # n.id /\ i <= created'
      BY <1>0, <1>1, <3>1
    <3> QED
      BY <1>0, <1>1, <2>2, <3>2 DEF Stays, Judged, Gone
  <2> QED
    BY <2>1, <2>2
<1> QED
  BY <1>3, <1>4 DEF Stays

\* The plan: the kept block of a leg makes every other one a storm's.
LEMMA StaysFetch ==
  ASSUME TypeOK, Fresh, Stays, NEW s \in Sweeps, \A t \in Sweeps : t = s, Fetch(s)
  PROVE  Stays'
<1> DEFINE w == sweep[s].want
           dels(K) == {b.id : b \in Duplicates(calendar, K, w)
                          \cup Orphans(calendar, w, sweep[s].held, sweep[s].at)}
<1>1. PICK K \in Kept(calendar) :
        sweep' = [sweep EXCEPT ![s].step = "apply", ![s].updates = Updates(K, w),
                    ![s].creates = Creates(calendar, w), ![s].deletes = dels(K)]
  BY DEF Fetch
<1>2. calendar' = calendar /\ created' = created
  BY DEF Fetch
<1>3. /\ sweep'[s].want = w /\ sweep'[s].held = sweep[s].held /\ sweep'[s].at = sweep[s].at
      /\ sweep'[s].updates = Updates(K, w) /\ sweep'[s].deletes = dels(K)
  BY <1>1 DEF TypeOK
<1>4. \A u \in Updates(K, w) : \E v \in w : v.leg = u.leg
  BY DEF Updates
<1>5. ASSUME NEW b \in calendar
      PROVE  /\ b \in Duplicates(calendar, K, w) => b.id <= Cardinality(Storm)
             /\ b \in Orphans(calendar, w, sweep[s].held, sweep[s].at) => Gone(s, b)
  <2>1. ASSUME b \in Duplicates(calendar, K, w) PROVE b.id <= Cardinality(Storm)
    <3>1. b \notin K /\ K \subseteq calendar /\ b.leg \in Legs
      BY <2>1 DEF Duplicates, Kept, TypeOK, Block
    <3>2. Cardinality(Of(K, b.leg)) = 1
      BY <3>1 DEF Kept, Of
    <3>3. PICK c : c \in Of(K, b.leg)
      BY <3>2, FS_EmptySet
    <3> QED
      BY <3>1, <3>3 DEF Of, Stays, Apart
  <2>2. b \in Orphans(calendar, w, sweep[s].held, sweep[s].at) => Gone(s, b)
    BY DEF Orphans, Gone
  <2> QED
    BY <2>1, <2>2
<1>6. ASSUME NEW i \in dels(K)
      PROVE  /\ i <= created
             /\ i <= Cardinality(Storm) \/ \A b \in calendar : b.id = i => Gone(s, b)
  <2>1. PICK b \in calendar :
          /\ b.id = i
          /\ \/ b \in Duplicates(calendar, K, w)
             \/ b \in Orphans(calendar, w, sweep[s].held, sweep[s].at)
    BY <1>6 DEF Duplicates, Orphans
  <2>2. b.id <= created /\ \A c \in calendar : c.id = i => c = b
    BY <2>1 DEF Fresh, IdsGiven
  <2> QED
    BY <1>5, <2>1, <2>2
<1> HIDE DEF w, dels
<1>7. \A b : Gone(s, b)' <=> Gone(s, b)
  BY <1>3 DEF Gone, w
<1>8. Judged(s)'
  BY <1>2, <1>3, <1>4, <1>6, <1>7 DEF Judged
<1> QED
  BY <1>2, <1>8 DEF Stays, Apart

LEMMA StaysPatch ==
  ASSUME TypeOK, Fresh, Stays, NEW s \in Sweeps, \A t \in Sweeps : t = s, Patch(s)
  PROVE  Stays' /\ \A b \in calendar : \E c \in calendar' : c.leg = b.leg
<1>1. PICK u \in sweep[s].updates :
        /\ UpdateDone(s, u)
        /\ calendar' = IF \E b \in calendar : b.id = u.id
                       THEN {b \in calendar : b.id # u.id} \cup {u} ELSE calendar
  BY DEF Patch
<1>2. /\ created' = created
      /\ sweep'[s].want = sweep[s].want /\ sweep'[s].held = sweep[s].held
      /\ sweep'[s].at = sweep[s].at /\ sweep'[s].deletes = sweep[s].deletes
      /\ sweep'[s].updates \subseteq sweep[s].updates
  BY <1>1 DEF Patch, UpdateDone, TypeOK
<1>3. CASE \E b \in calendar : b.id = u.id
  <2>1. PICK a \in calendar : a.id = u.id
    BY <1>3
  <2>2. a.leg = u.leg /\ \A b \in calendar : b.id = u.id => b = a
    BY <2>1 DEF Fresh, IdsGiven, StillNew
  <2>3. calendar' = {b \in calendar : b.id # u.id} \cup {u}
    BY <1>1, <1>3
  <2>4. ASSUME NEW b \in calendar', NEW c \in calendar', b.leg = c.leg, b # c
        PROVE  b.id <= Cardinality(Storm)
    <3>1. CASE b = u
      BY <2>1, <2>2, <2>3, <2>4, <3>1 DEF Stays, Apart
    <3>2. CASE b # u /\ c = u
      BY <2>1, <2>2, <2>3, <2>4, <3>2 DEF Stays, Apart
    <3>3. CASE b # u /\ c # u
      BY <2>3, <2>4, <3>3 DEF Stays, Apart
    <3> QED
      BY <3>1, <3>2, <3>3
  <2>5. ASSUME NEW i \in sweep[s].deletes, ~(i <= Cardinality(Storm)),
               NEW b \in calendar', b.id = i
        PROVE  Gone(s, b)
    <3>1. b # u
      BY <2>1, <2>2, <2>5 DEF Stays, Judged, Gone
    <3> QED
      BY <2>3, <2>5, <3>1 DEF Stays, Judged
  <2>6. \A b : Gone(s, b)' <=> Gone(s, b)
    BY <1>2 DEF Gone
  <2>7. Judged(s)'
    BY <1>2, <2>5, <2>6 DEF Stays, Judged
  <2>8. \A b \in calendar : \E c \in calendar' : c.leg = b.leg
    BY <2>2, <2>3
  <2> QED
    BY <2>4, <2>7, <2>8 DEF Stays, Apart
<1>4. CASE ~\E b \in calendar : b.id = u.id
  <2>1. calendar' = calendar
    BY <1>1, <1>4
  <2>2. Judged(s)'
    BY <1>2, <2>1 DEF Stays, Judged, Gone
  <2> QED
    BY <2>1, <2>2 DEF Stays, Apart
<1> QED
  BY <1>3, <1>4

LEMMA StaysOther ==
  ASSUME TypeOK, Stays, NEW s \in Sweeps,
         Begin(s) \/ CreateLate(s) \/ Delete(s) \/ Finish(s) \/ Refused(s) \/ Defer(s)
  PROVE  Stays'
<1>1. CASE Begin(s)
  <2> DEFINE r == [IdleSweep EXCEPT !.step = "read", !.at = now, !.want = Desired(now),
                                    !.held = Held(now)]
  <2>1. sweep' = [sweep EXCEPT ![s] = r] /\ calendar' = calendar /\ created' = created
    BY <1>1 DEF Begin
  <2>2. r.updates = {} /\ r.deletes = {}
    BY DEF IdleSweep
  <2> HIDE DEF r
  <2> QED
    BY <2>1, <2>2, StaysLess
<1>2. CASE Finish(s)
  <2>1. sweep' = [sweep EXCEPT ![s] = IdleSweep] /\ calendar' = calendar /\ created' = created
    BY <1>2 DEF Finish
  <2>2. IdleSweep.updates = {} /\ IdleSweep.deletes = {}
    BY DEF IdleSweep
  <2> QED
    BY <2>1, <2>2, StaysLess
<1>3. ASSUME NEW r, sweep' = [sweep EXCEPT ![s] = r], calendar' \subseteq calendar,
             created' = created, r.want = sweep[s].want, r.held = sweep[s].held,
             r.at = sweep[s].at, r.updates \subseteq sweep[s].updates,
             r.deletes \subseteq sweep[s].deletes
      PROVE  Stays'
  BY <1>3, StaysLess
<1>4. CASE CreateLate(s)
  <2>1. PICK w : sweep' = [sweep EXCEPT ![s].creates = @ \ {w}]
    BY <1>4 DEF CreateLate
  <2>2. calendar' = calendar /\ created' = created
    BY <1>4 DEF CreateLate
  <2> QED
    BY <1>3, <2>1, <2>2 DEF TypeOK
<1>5. ASSUME NEW i, DeleteDone(s, i), calendar' \subseteq calendar, created' = created
      PROVE  Stays'
  BY <1>3, <1>5 DEF DeleteDone, TypeOK
<1>6. CASE Delete(s)
  BY <1>5, <1>6 DEF Delete
<1>7. CASE Refused(s)
  <2>1. calendar' = calendar /\ created' = created
    BY <1>7 DEF Refused
  <2>2. ASSUME NEW u, UpdateDone(s, u) PROVE Stays'
    BY <1>3, <2>1, <2>2 DEF UpdateDone, TypeOK
  <2>3. ASSUME NEW w, CreateDone(s, w) PROVE Stays'
    BY <1>3, <2>1, <2>3 DEF CreateDone, TypeOK
  <2> QED
    BY <1>5, <1>7, <2>1, <2>2, <2>3 DEF Refused
<1>8. CASE Defer(s)
  <2>1. calendar' = calendar /\ created' = created
    BY <1>8 DEF Defer
  <2> QED
    BY <1>3, <1>8, <2>1 DEF Defer, TypeOK
<1> QED
  BY <1>1, <1>2, <1>4, <1>6, <1>7, <1>8

\* Only a deletion takes a leg off the calendar, and it takes the leg of the
\* one block it deletes.
LEMMA DeletesTheGone ==
  ASSUME TypeOK, Fresh, Stays, NEW s \in Sweeps, NEW t \in Sweeps, NEW l \in Legs,
         Delete(t), Strips(s, l)
  PROVE  /\ l \notin sweep[s].held /\ \A w \in sweep[s].want : w.leg # l
         /\ \E b \in Of(calendar, l) : b.at >= sweep[s].at
<1>1. PICK i \in sweep[t].deletes :
        DeleteDone(t, i) /\ calendar' = {b \in calendar : b.id # i}
  BY DEF Delete
<1>2. s = t
  BY <1>1 DEF DeleteDone, Strips, TypeOK
<1>3. PICK b \in calendar : b.leg = l
  BY DEF Strips, Of
<1>4. b.id = i
  BY <1>1, <1>3 DEF Strips, Of
<1>5. b.id > Cardinality(Storm) /\ b.id \in Nat
  BY <1>3 DEF Strips, Of, TypeOK, Block
<1>6. Gone(s, b)
  BY <1>1, <1>2, <1>3, <1>4, <1>5, StormCount DEF Stays, Judged
<1> QED
  BY <1>3, <1>6 DEF Gone, Of

\* A routing failure, a meeting under way and a drive behind the operator cost
\* no block (plan_reconcile with held and past legs, apply_plan), whatever is
\* killed, refused, deferred or deleted by hand between reading and writing.
THEOREM SerialSweepsKeepDrives ==
  ASSUME \A s, t \in Sweeps : s = t PROVE Spec => KnownDrivesStay
<1> DEFINE Stay == \A s \in Sweeps, l \in Legs : Strips(s, l) =>
                     /\ l \notin sweep[s].held /\ \A w \in sweep[s].want : w.leg # l
                     /\ \E b \in Of(calendar, l) : b.at >= sweep[s].at
<1>1. Init => Stays
  <2> SUFFICES ASSUME Init PROVE Stays
    OBVIOUS
  <2>1. Apart
    BY SweepAssumption DEF Init, Apart
  <2> QED
    BY <2>1 DEF Init, IdleSweep, Stays, Judged
<1>2. TypeOK /\ Fresh /\ Stays /\ [Next]_vars => Stays' /\ Stay
  <2> SUFFICES ASSUME TypeOK, Fresh, Stays, [Next]_vars PROVE Stays' /\ Stay
    OBVIOUS
  <2>1. sweep' = sweep /\ calendar' \subseteq calendar /\ created' = created => Stays' /\ Stay
    BY StaysKept DEF Strips
  <2>2. (\A b \in calendar : \E c \in calendar' : c.leg = b.leg) => Stay
    BY DEF Strips, Of
  <2>3. CASE Tick \/ SkipStep \/ SkipDies \/ UNCHANGED vars
    BY <2>1, <2>3 DEF Tick, SkipStep, SkipRecord, SkipDelete, SkipDone, SkipDies, vars
  <2>4. ASSUME NEW l \in Legs, NEW d \in Drives \cup {Blind, Off}, Turn(l, d)
        PROVE  Stays' /\ Stay
    BY <2>1, <2>4 DEF Turn
  <2>5. ASSUME NEW o \in Skippable, SkipResolve(o) \/ \E by \in Moves : PutOff(o, by)
        PROVE  Stays' /\ Stay
    BY <2>1, <2>5 DEF SkipResolve, PutOff
  <2>6. ASSUME NEW b \in calendar, UserDeletes(b) PROVE Stays' /\ Stay
    BY <2>1, <2>6 DEF UserDeletes
  <2>7. ASSUME NEW s \in Sweeps, SweepStep(s) \/ Refused(s) \/ Defer(s) \/ Die(s)
        PROVE  Stays' /\ Stay
    <3>1. CASE Begin(s) \/ CreateLate(s) \/ Finish(s) \/ Refused(s) \/ Defer(s)
      <4>1. calendar' = calendar
        BY <3>1 DEF Begin, CreateLate, Finish, Refused, Defer
      <4> QED
        BY <2>2, <3>1, <4>1, StaysOther
    <3>2. CASE Fetch(s)
      <4>1. calendar' = calendar
        BY <3>2 DEF Fetch
      <4> QED
        BY <2>2, <3>2, <4>1, StaysFetch
    <3>3. CASE Patch(s)
      BY <2>2, <3>3, StaysPatch
    <3>4. CASE Delete(s)
      BY <3>4, StaysOther, DeletesTheGone
    <3>5. CASE Create(s)
      <4>1. PICK w \in sweep[s].creates :
              /\ CreateDone(s, w) /\ created' = created + 1
              /\ calendar' = calendar \cup
                   {[id |-> created + 1, leg |-> w.leg, at |-> w.at, drive |-> w.drive]}
        BY <3>5 DEF Create
      <4> DEFINE r == [sweep[s] EXCEPT !.creates = @ \ {w}, !.tried = TRUE]
      <4>2. sweep' = [sweep EXCEPT ![s] = r]
        BY <4>1 DEF CreateDone, TypeOK
      <4>3. /\ r.want = sweep[s].want /\ r.held = sweep[s].held /\ r.at = sweep[s].at
            /\ r.updates = sweep[s].updates /\ r.deletes = sweep[s].deletes
        BY DEF TypeOK
      <4> HIDE DEF r
      <4>4. Stays'
        BY <4>1, <4>2, <4>3, StaysCreate
      <4> QED
        BY <2>2, <4>1, <4>4
    <3>6. CASE Die(s)
      <4>1. sweep' = [sweep EXCEPT ![s] = IdleSweep]
        BY <3>6 DEF Die
      <4>2. IdleSweep.updates = {} /\ IdleSweep.deletes = {}
        BY DEF IdleSweep
      <4>3. CASE UNCHANGED <<calendar, created>>
        BY <2>2, <4>1, <4>2, <4>3, StaysLess
      <4>4. ASSUME NEW w \in sweep[s].creates, created' = created + 1,
                   calendar' = calendar \cup
                     {[id |-> created + 1, leg |-> w.leg, at |-> w.at, drive |-> w.drive]}
            PROVE  Stays' /\ Stay
        BY <2>2, <4>1, <4>2, <4>4, StaysCreate
      <4> QED
        BY <3>6, <4>3, <4>4 DEF Die
    <3> QED
      BY <2>7, <3>1, <3>2, <3>3, <3>4, <3>5, <3>6 DEF SweepStep
  <2> QED
    BY <2>3, <2>4, <2>5, <2>6, <2>7 DEF Next
<1>3. [][Stay]_vars <=> KnownDrivesStay
  BY DEF KnownDrivesStay
<1> HIDE DEF Stay
<1> QED
  BY <1>1, <1>2, <1>3, SerialFresh, SweepTyped, PTL DEF Spec
=============================================================================
