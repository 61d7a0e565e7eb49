----------------------------- MODULE OpDelivery -----------------------------
(***************************************************************************)
(* What the operation manager of a session (go/internal/unreal/ops)        *)
(* promises, without its queues, its goroutines and the coordinators that  *)
(* come and go: an operation is published in the store, is registered with *)
(* the inner manager once, makes snapshots, and the store learns of them   *)
(* in order and in the end of the last one.                                *)
(***************************************************************************)
EXTENDS Integers

CONSTANTS
  Op,    \* the operations of a session
  Last   \* the terminal snapshot; 0 is the one an operation starts from

Snapshot == 0..Last
Absent == -1

VARIABLES
  made,   \* the newest snapshot of each operation, Absent before it runs
  stored  \* the one the store holds, Absent before it is published

vars == <<made, stored>>

Init ==
  /\ made = [op \in Op |-> Absent]
  /\ stored \in [Op -> {Absent, 0}]

Publish(op) ==
  /\ stored[op] = Absent
  /\ stored' = [stored EXCEPT ![op] = 0]
  /\ UNCHANGED made

\* Only what is in the store runs, from snapshot 0 and forward.
Make(op, snap) ==
  /\ stored[op] # Absent
  /\ IF made[op] = Absent THEN snap = 0 ELSE made[op] < snap
  /\ made' = [made EXCEPT ![op] = snap]
  /\ UNCHANGED stored

\* The store moves forward, to what was really made.
Save(op, snap) ==
  /\ stored[op] # Absent /\ stored[op] < snap /\ snap <= made[op]
  /\ stored' = [stored EXCEPT ![op] = snap]
  /\ UNCHANGED made

Next ==
  \E op \in Op : Publish(op) \/ \E snap \in Snapshot : Make(op, snap) \/ Save(op, snap)

\* The end of an operation reaches the store, however many coordinators die.
Spec ==
  /\ Init /\ [][Next]_vars
  /\ \A op \in Op : WF_vars(Save(op, Last))
=============================================================================
