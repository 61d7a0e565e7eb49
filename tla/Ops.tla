-------------------------------- MODULE Ops --------------------------------
(***************************************************************************)
(* The operation manager of a session (go/internal/unreal/ops/ops.go): it  *)
(* stands between the harness's local manager, which runs operations and   *)
(* reports each snapshot once, and the coordinators, which are rebuilt and *)
(* may die holding a snapshot they never saved.                            *)
(*                                                                         *)
(* The goroutines are the pump (inner manager to queue), the feed (queue   *)
(* to whoever reads Updates), the coordinator inside Add, and one for each *)
(* Cancel. Each takes the mutex for one step; what it does without it are  *)
(* steps of their own. The end of the session's context is left out.       *)
(***************************************************************************)
EXTENDS Integers, Sequences

CONSTANTS
  Op,         \* the operations of the session
  Last,       \* the terminal snapshot; 0 is the one an operation starts from
  None,       \* no update, no operation
  Stoppable,  \* bound: the operations somebody may cancel
  MaxDeaths   \* bound: coordinators that die, of a refused Add or otherwise

ASSUME OpsAssumption ==
  /\ Last \in Nat \ {0} /\ MaxDeaths \in Nat /\ Stoppable \subseteq Op
  /\ None \notin Op \cup [id : Op, snap : 1..Last]

Absent == -1
Snapshot == 0..Last
Update == [id : Op, snap : 1..Last]

VARIABLES
  latest,   \* the newest snapshot the manager has of each operation
  updated,  \* those whose latest came from an update
  cancels,  \* those somebody has cancelled
  queue,    \* whose snapshot waits for a reader, first come first
  pending,  \* the snapshot that waits
  version,  \* counts what was enqueued since the operation last left the queue
  kick,     \* a wake-up for the feed is buffered
  pump,     \* the update the pump has in hand, or None
  feed,     \* where the feed is, and the head it has read
  add,      \* where the coordinator is inside Add
  calls,    \* where the Cancel of each operation is
  at,       \* inner manager: the newest snapshot it has made
  ran,      \* inner manager: operations it started to work on
  told,     \* inner manager: registered operations it was told to cancel
  updates,  \* inner manager: its channel
  alive,    \* a coordinator runs
  hand,     \* the update it has taken and not saved, or None
  toAdd,    \* what it still has to Add
  stored,   \* the snapshot of each operation in the store
  deaths

manager == <<latest, updated, cancels, queue, pending, version, kick>>
inner == <<at, ran, told, updates>>
coordinator == <<alive, hand, toAdd, stored, deaths>>
vars == <<manager, pump, feed, add, calls, inner, coordinator>>

Feed == [at : {"pick", "wait", "offer", "taken"}, id : Op \cup {None},
         snap : 0..Last, ver : Nat]
Add == [at : {"idle", "inner", "refused", "check", "cancel"}, id : Op \cup {None},
        canceling : BOOLEAN]
AddAt(where, op, canceling) == [at |-> where, id |-> op, canceling |-> canceling]
FeedAt(where, op, snap, ver) == [at |-> where, id |-> op, snap |-> snap, ver |-> ver]
Idle == AddAt("idle", None, FALSE)
Picks == FeedAt("pick", None, 0, 0)

\* New, with what an earlier process left ready in the store: it was published
\* and is added again by the first coordinator.
Init ==
  /\ latest = [op \in Op |-> Absent] /\ updated = {} /\ cancels = {}
  /\ queue = <<>> /\ kick = FALSE
  /\ pending = [op \in Op |-> Absent] /\ version = [op \in Op |-> 0]
  /\ pump = None /\ feed = Picks /\ add = Idle
  /\ calls = [op \in Op |-> "none"]
  /\ at = [op \in Op |-> Absent] /\ ran = {} /\ told = {} /\ updates = <<>>
  /\ stored \in [Op -> {Absent, 0}]
  /\ alive = TRUE /\ hand = None /\ toAdd = {op \in Op : stored[op] = 0}
  /\ deaths = 0

-----------------------------------------------------------------------------
(* Add and Cancel.                                                         *)

\* Mutant: the newest snapshot goes to the end of the queue once more.
EnqueueTwice(op, snap) ==
  /\ queue' = Append(queue, op)
  /\ pending' = [pending EXCEPT ![op] = snap]
  /\ version' = [version EXCEPT ![op] = @ + 1]
  /\ kick' = TRUE

\* enqueueLocked: at most one snapshot of an operation waits, the newest.
Enqueue(op, snap) ==
  /\ queue' = IF pending[op] = Absent THEN Append(queue, op) ELSE queue
  /\ pending' = [pending EXCEPT ![op] = snap]
  /\ version' = [version EXCEPT ![op] = @ + 1]
  /\ kick' = TRUE

\* Mutant: a known operation is not sent again.
AddKnownSilently(op) ==
  /\ add.at = "idle" /\ op \in toAdd /\ latest[op] # Absent
  /\ toAdd' = toAdd \ {op}
  /\ UNCHANGED <<manager, pump, feed, add, calls, inner, alive, hand, stored, deaths>>

\* Add of an operation the manager knows: its latest snapshot is sent again.
AddKnown(op) ==
  /\ add.at = "idle" /\ op \in toAdd /\ latest[op] # Absent
  /\ toAdd' = toAdd \ {op}
  /\ IF op \in updated THEN Enqueue(op, latest[op])
                       ELSE UNCHANGED <<queue, pending, version, kick>>
  /\ UNCHANGED <<latest, updated, cancels, pump, feed, add, calls, inner,
                 alive, hand, stored, deaths>>

\* Add of a new one; one that was cancelled before is added as canceling.
AddNew(op) ==
  /\ add.at = "idle" /\ op \in toAdd /\ latest[op] = Absent
  /\ toAdd' = toAdd \ {op}
  /\ latest' = [latest EXCEPT ![op] = 0]
  /\ add' = AddAt("inner", op, op \in cancels)
  /\ UNCHANGED <<updated, cancels, queue, pending, version, kick, pump, feed, calls,
                 inner, alive, hand, stored, deaths>>

\* inner.Add registers the operation, and starts it unless it is canceling.
InnerAdds ==
  /\ add.at = "inner"
  /\ at' = [at EXCEPT ![add.id] = IF at[add.id] = Absent THEN 0 ELSE at[add.id]]
  /\ ran' = IF add.canceling \/ at[add.id] # Absent THEN ran ELSE ran \cup {add.id}
  /\ add' = AddAt("check", add.id, add.canceling)
  /\ UNCHANGED <<manager, pump, feed, calls, told, updates, coordinator>>

InnerRefuses ==
  /\ add.at = "inner" /\ deaths < MaxDeaths
  /\ deaths' = deaths + 1
  /\ add' = AddAt("refused", add.id, add.canceling)
  /\ UNCHANGED <<manager, pump, feed, calls, inner, alive, hand, toAdd, stored>>

\* Add gives the operation up and the coordinator dies of the error.
AddRefused ==
  /\ add.at = "refused"
  /\ latest' = [latest EXCEPT ![add.id] = Absent]
  /\ add' = Idle
  /\ alive' = FALSE /\ hand' = None /\ toAdd' = {}
  /\ UNCHANGED <<updated, cancels, queue, pending, version, kick, pump, feed, calls,
                 inner, stored, deaths>>

\* Mutant: Add does not look for a Cancel that came while it was outside.
AddReturns ==
  /\ add.at = "check"
  /\ add' = Idle
  /\ UNCHANGED <<manager, pump, feed, calls, inner, coordinator>>

\* The cancel that came meanwhile is repeated.
AddChecks ==
  /\ add.at = "check"
  /\ add' = IF add.id \in cancels THEN AddAt("cancel", add.id, add.canceling) ELSE Idle
  /\ UNCHANGED <<manager, pump, feed, calls, inner, coordinator>>

\* inner.Cancel drops what it does not know.
InnerCancel(op) == told' = IF at[op] = Absent THEN told ELSE told \cup {op}

AddCancels ==
  /\ add.at = "cancel"
  /\ InnerCancel(add.id)
  /\ add' = Idle
  /\ UNCHANGED <<manager, pump, feed, calls, at, ran, updates, coordinator>>

\* Cancel records the intent...
CancelStarts(op) ==
  /\ op \in Stoppable /\ calls[op] = "none"
  /\ calls' = [calls EXCEPT ![op] = "recorded"]
  /\ cancels' = cancels \cup {op}
  /\ UNCHANGED <<latest, updated, queue, pending, version, kick, pump, feed, add,
                 inner, coordinator>>

\* ...and then hands it to the inner manager.
CancelReturns(op) ==
  /\ calls[op] = "recorded"
  /\ calls' = [calls EXCEPT ![op] = "returned"]
  /\ InnerCancel(op)
  /\ UNCHANGED <<manager, pump, feed, add, at, ran, updates, coordinator>>

-----------------------------------------------------------------------------
(* The pump and the feed.                                                  *)

PumpTakes ==
  /\ pump = None /\ updates # <<>>
  /\ pump' = Head(updates) /\ updates' = Tail(updates)
  /\ UNCHANGED <<manager, feed, add, calls, at, ran, told, coordinator>>

PumpPuts ==
  /\ pump # None
  /\ latest' = [latest EXCEPT ![pump.id] = pump.snap]
  /\ updated' = updated \cup {pump.id}
  /\ Enqueue(pump.id, pump.snap)
  /\ pump' = None
  /\ UNCHANGED <<cancels, feed, add, calls, inner, coordinator>>

\* The feed reads the head of the queue under the mutex, and leaves it there.
FeedPicks ==
  /\ feed.at = "pick"
  /\ feed' = IF queue = <<>> THEN FeedAt("wait", None, 0, 0)
             ELSE LET op == Head(queue) IN FeedAt("offer", op, pending[op], version[op])
  /\ UNCHANGED <<manager, pump, add, calls, inner, coordinator>>

\* A kick makes it look again, whether it waits or offers.
FeedWakes ==
  /\ feed.at \in {"wait", "offer"} /\ kick
  /\ kick' = FALSE /\ feed' = Picks
  /\ UNCHANGED <<latest, updated, cancels, queue, pending, version, pump, add, calls,
                 inner, coordinator>>

\* Mutant: the head goes, whatever has replaced it since it was read.
FeedDropsHead ==
  /\ feed.at = "taken"
  /\ queue' = Tail(queue)
  /\ pending' = [pending EXCEPT ![feed.id] = Absent]
  /\ version' = [version EXCEPT ![feed.id] = 0]
  /\ feed' = Picks
  /\ UNCHANGED <<latest, updated, cancels, kick, pump, add, calls, inner, coordinator>>

\* What was taken leaves the queue, unless something newer replaced it.
FeedDrops ==
  /\ feed.at = "taken"
  /\ IF version[feed.id] = feed.ver
       THEN /\ queue' = Tail(queue)
            /\ pending' = [pending EXCEPT ![feed.id] = Absent]
            /\ version' = [version EXCEPT ![feed.id] = 0]
       ELSE UNCHANGED <<queue, pending, version>>
  /\ feed' = Picks
  /\ UNCHANGED <<latest, updated, cancels, kick, pump, add, calls, inner, coordinator>>

-----------------------------------------------------------------------------
(* The coordinator and the inner manager (external).                       *)

\* A call is published with its operation, which is then added.
Publish(op) ==
  /\ alive /\ stored[op] = Absent
  /\ stored' = [stored EXCEPT ![op] = 0]
  /\ toAdd' = toAdd \cup {op}
  /\ UNCHANGED <<manager, pump, feed, add, calls, inner, alive, hand, deaths>>

\* The coordinator receives from Updates what the feed offers.
Take ==
  /\ alive /\ hand = None /\ add.at = "idle" /\ feed.at = "offer"
  /\ hand' = [id |-> feed.id, snap |-> feed.snap]
  /\ feed' = FeedAt("taken", feed.id, feed.snap, feed.ver)
  /\ UNCHANGED <<manager, pump, add, calls, inner, alive, toAdd, stored, deaths>>

SaveOperation ==
  /\ hand # None
  /\ stored' = [stored EXCEPT ![hand.id] = hand.snap]
  /\ hand' = None
  /\ UNCHANGED <<manager, pump, feed, add, calls, inner, alive, toAdd, deaths>>

\* A coordinator that dies loses what it has taken.
Die ==
  /\ alive /\ add.at = "idle" /\ deaths < MaxDeaths
  /\ deaths' = deaths + 1
  /\ alive' = FALSE /\ hand' = None /\ toAdd' = {}
  /\ UNCHANGED <<manager, pump, feed, add, calls, inner, stored>>

\* The next one adds again what has not ended in the store.
Restart ==
  /\ ~alive
  /\ alive' = TRUE /\ toAdd' = {op \in Op : stored[op] \in 0..(Last - 1)}
  /\ UNCHANGED <<manager, pump, feed, add, calls, inner, hand, stored, deaths>>

\* The inner manager reports a newer snapshot; one that never started to work,
\* or was told to stop, ends.
Report(op, snap) ==
  /\ at[op] # Absent /\ at[op] < snap
  /\ op \notin ran \/ op \in told => snap = Last
  /\ at' = [at EXCEPT ![op] = snap]
  /\ updates' = Append(updates, [id |-> op, snap |-> snap])
  /\ UNCHANGED <<manager, pump, feed, add, calls, ran, told, coordinator>>

AddGoesOn == InnerAdds \/ InnerRefuses \/ AddRefused \/ AddChecks \/ AddCancels
AddStarts == \E op \in Op : AddKnown(op) \/ AddNew(op)
FeedGoesOn == FeedPicks \/ FeedWakes \/ FeedDrops
Pump == PumpTakes \/ PumpPuts

Next ==
  \/ AddStarts \/ AddGoesOn \/ Pump \/ FeedGoesOn
  \/ Take \/ SaveOperation \/ Die \/ Restart
  \/ \E op \in Op : CancelStarts(op) \/ CancelReturns(op) \/ Publish(op)
                    \/ \E snap \in Snapshot : Report(op, snap)

\* The goroutines run and coordinators are rebuilt; an operation may run for
\* ever and nobody has to publish or cancel one.
Spec ==
  /\ Init /\ [][Next]_vars
  /\ WF_vars(AddStarts) /\ WF_vars(AddGoesOn) /\ WF_vars(Pump) /\ WF_vars(FeedGoesOn)
  /\ WF_vars(Take) /\ WF_vars(SaveOperation) /\ WF_vars(Restart)

-----------------------------------------------------------------------------
(* Properties.                                                             *)

\* Type invariant: the manager's maps, its goroutines and the world around it.
TypeOK ==
  /\ latest \in [Op -> Snapshot \cup {Absent}]
  /\ updated \subseteq Op /\ cancels \subseteq Op
  /\ queue \in Seq(Op) /\ pending \in [Op -> Snapshot \cup {Absent}]
  /\ version \in [Op -> Nat] /\ kick \in BOOLEAN
  /\ pump \in Update \cup {None} /\ feed \in Feed /\ add \in Add
  /\ calls \in [Op -> {"none", "recorded", "returned"}]
  /\ at \in [Op -> Snapshot \cup {Absent}] /\ ran \subseteq Op /\ told \subseteq Op
  /\ updates \in Seq(Update)
  /\ alive \in BOOLEAN /\ hand \in Update \cup {None} /\ toAdd \subseteq Op
  /\ stored \in [Op -> Snapshot \cup {Absent}]
  /\ deaths \in 0..MaxDeaths

\* While a coordinator runs, the newest snapshot of every operation that the
\* store does not have yet is somewhere it will come from: on its way to the
\* manager, waiting in the queue, in the coordinator's hand, or to be sent
\* again when the coordinator adds the operation.
NothingLost ==
  alive =>
    \A op \in Op :
      at[op] > stored[op] =>
        \/ \E n \in DOMAIN updates : updates[n] = [id |-> op, snap |-> at[op]]
        \/ pump = [id |-> op, snap |-> at[op]]
        \/ /\ latest[op] = at[op]
           /\ \/ pending[op] = at[op] \/ op \in toAdd
              \/ hand = [id |-> op, snap |-> at[op]]

\* An operation that was cancelled, before, during or after its Add, is not
\* left working: when both calls have returned the inner manager knows, or
\* never started it.
CancelReaches ==
  \A op \in Op :
    calls[op] = "returned" /\ add.id # op => op \in told \/ op \notin ran

\* The manager keeps the promise of module OpDelivery: an operation runs once,
\* the store moves only forward, and it learns of every end.
Delivery == INSTANCE OpDelivery WITH made <- at, stored <- stored
Delivered == Delivery!Spec
=============================================================================
