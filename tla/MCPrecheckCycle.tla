--------------------------- MODULE MCPrecheckCycle ---------------------------
(* One flight and one owner. *)
EXTENDS PrecheckCycle
CONSTANTS f1, r1

(* A request nobody waits for any more changes, when the host takes it up at
   last, only what the operator heard: no property of the run that uses this
   view reads that, and no guard does. *)
Awaited == {m \in queue : \E r \in Runners : pc[r] = "wait" /\ current[r] = m}
MCView ==
  <<now, active, sequence, notices, holder, pc, clock, seen, outbox, current, Awaited,
    truth, record, work, dropped, changes>>
=============================================================================
