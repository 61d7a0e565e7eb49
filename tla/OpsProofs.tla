----------------------------- MODULE OpsProofs -----------------------------
(***************************************************************************)
(* Theorems about module Ops, for any number of operations, snapshots and  *)
(* dying coordinators, proved by TLAPS.                                    *)
(***************************************************************************)
EXTENDS Ops, SequenceTheorems, TLAPS

\* What the coordinator is adding is an operation the manager has recorded,
\* and until the inner manager has answered it does not have it.
AddInv ==
  /\ add.at # "idle" => add.id \in Op /\ latest[add.id] # Absent
  /\ add.at \in {"inner", "refused"} => at[add.id] = Absent
  /\ add.at \in {"check", "cancel"} => at[add.id] # Absent

\* Only what the inner manager has registered has updates anywhere.
RegisteredInv ==
  \A op \in Op :
    /\ at[op] # Absent => latest[op] # Absent
    /\ at[op] = Absent => op \notin updated /\ op \notin ran
    /\ op \in updated => latest[op] \in 1..Last /\ latest[op] <= at[op]
    /\ op \notin updated => latest[op] \in {Absent, 0}
    /\ stored[op] = Absent => latest[op] = Absent /\ op \notin toAdd

\* What waits is the newest snapshot, each operation is in the queue at most
\* once, and the feed holds the head.
QueueInv ==
  /\ \A op \in Op : pending[op] # Absent => op \in updated /\ pending[op] = latest[op]
  /\ \A n \in DOMAIN queue : pending[queue[n]] # Absent
  /\ \A m, n \in DOMAIN queue : queue[m] = queue[n] => m = n
  /\ feed.at \in {"offer", "taken"} => queue # <<>> /\ feed.id = Head(queue)

\* The updates of an operation are on their way in order, all newer than what
\* the manager has, and none newer than what was made.
ChannelInv ==
  /\ pump # None => latest[pump.id] < pump.snap /\ pump.snap <= at[pump.id]
  /\ \A n \in DOMAIN updates :
       /\ latest[updates[n].id] < updates[n].snap /\ updates[n].snap <= at[updates[n].id]
       /\ pump # None /\ pump.id = updates[n].id => pump.snap < updates[n].snap
       /\ \A m \in 1..(n - 1) :
            updates[m].id = updates[n].id => updates[m].snap < updates[n].snap

\* What is offered, taken and stored is never newer than what follows it.
OrderInv ==
  /\ \A op \in Op : IF op \in updated THEN stored[op] <= latest[op] ELSE stored[op] <= 0
  /\ feed.at \in {"offer", "taken"} =>
       feed.id \in updated /\ feed.snap \in 1..latest[feed.id]
  /\ feed.at = "offer" => stored[feed.id] <= feed.snap
  /\ hand # None =>
       /\ hand.id \in updated /\ hand.snap <= latest[hand.id]
       /\ stored[hand.id] <= hand.snap /\ stored[hand.id] # Absent
       /\ feed.at = "offer" /\ feed.id = hand.id => hand.snap <= feed.snap

IInv == TypeOK /\ AddInv /\ RegisteredInv /\ QueueInv /\ ChannelInv /\ OrderInv

\* The newest snapshot made has arrived or is on its way.
CarriedInv ==
  \A op \in Op :
    at[op] > 0 =>
      \/ \E n \in DOMAIN updates : updates[n] = [id |-> op, snap |-> at[op]]
      \/ pump = [id |-> op, snap |-> at[op]]
      \/ latest[op] = at[op]

Owed(op) ==
  pending[op] = latest[op] \/ op \in toAdd \/ hand = [id |-> op, snap |-> latest[op]]

\* What arrived and is not stored waits, is in hand or will be asked for; what
\* the feed is about to drop was taken by this coordinator, or will be too.
OwedInv ==
  /\ alive => \A op \in updated : latest[op] > stored[op] => Owed(op)
  /\ feed.at \in {"offer", "taken"} =>
       /\ feed.ver <= version[feed.id]
       /\ feed.ver = version[feed.id] => pending[feed.id] = feed.snap
       /\ alive /\ feed.at = "taken" /\ feed.ver = version[feed.id] =>
            \/ stored[feed.id] >= feed.snap \/ feed.id \in toAdd
            \/ hand = [id |-> feed.id, snap |-> feed.snap]

\* Who has cancelled an operation has said so, and what works in spite of it is
\* still to be looked at by its Add.
CancelInv ==
  \A op \in Op :
    /\ calls[op] # "none" => op \in cancels
    /\ calls[op] = "returned" /\ op \in ran =>
         op \in told \/ (add.id = op /\ add.at \in {"check", "cancel"})

-----------------------------------------------------------------------------
(* The inductive invariant.                                                *)

\* A new manager, beside a store that has or has not the operation, satisfies it.
LEMMA IInvInit == Init => IInv
<1> SUFFICES ASSUME Init PROVE IInv
  OBVIOUS
<1> USE OpsAssumption DEF Init, Absent, Snapshot
<1>1. Idle \in Add /\ Idle.at = "idle" /\ Picks \in Feed /\ Picks.at = "pick"
  BY DEF Idle, Picks, AddAt, FeedAt, Add, Feed
<1>2. TypeOK
  <2>1. stored \in [Op -> Snapshot \cup {Absent}] /\ toAdd \subseteq Op
    OBVIOUS
  <2>2. /\ latest \in [Op -> Snapshot \cup {Absent}]
        /\ pending \in [Op -> Snapshot \cup {Absent}]
        /\ at \in [Op -> Snapshot \cup {Absent}]
        /\ version \in [Op -> Nat]
        /\ calls \in [Op -> {"none", "recorded", "returned"}]
    OBVIOUS
  <2>3. queue \in Seq(Op) /\ updates \in Seq(Update)
    OBVIOUS
  <2>4. kick \in BOOLEAN /\ alive \in BOOLEAN
    OBVIOUS
  <2>5. pump \in Update \cup {None} /\ hand \in Update \cup {None} /\ deaths \in 0..MaxDeaths
    OBVIOUS
  <2>6. updated \subseteq Op /\ cancels \subseteq Op /\ ran \subseteq Op /\ told \subseteq Op
    OBVIOUS
  <2>7. feed \in Feed /\ add \in Add
    BY <1>1
  <2> HIDE DEF Init
  <2> QED
    BY <2>1, <2>2, <2>3, <2>4, <2>5, <2>6, <2>7 DEF TypeOK
<1>3. AddInv /\ RegisteredInv /\ QueueInv /\ ChannelInv /\ OrderInv
  BY <1>1 DEF AddInv, RegisteredInv, QueueInv, ChannelInv, OrderInv
<1> QED
  BY <1>2, <1>3 DEF IInv

\* What Enqueue leaves behind is well typed.
LEMMA EnqueueTypes ==
  ASSUME TypeOK, NEW op \in Op, NEW snap \in Snapshot, Enqueue(op, snap)
  PROVE  /\ queue' \in Seq(Op) /\ pending' \in [Op -> Snapshot \cup {Absent}]
         /\ version' \in [Op -> Nat] /\ kick' \in BOOLEAN
<1>1. Append(queue, op) \in Seq(Op)
  BY AppendProperties DEF TypeOK
<1>2. queue' \in Seq(Op)
  BY <1>1 DEF TypeOK, Enqueue
<1> QED
  BY <1>2 DEF TypeOK, Enqueue

\* The types are kept.
LEMMA TypesKept == IInv /\ Next => TypeOK'
<1> SUFFICES ASSUME IInv, Next PROVE TypeOK'
  OBVIOUS
<1> USE OpsAssumption DEF IInv, manager, inner, coordinator
<1>1. ASSUME NEW op \in Op, AddKnown(op) PROVE TypeOK'
  <2>1. CASE op \in updated
    <3>1. latest[op] \in Snapshot
      BY <1>1 DEF TypeOK, AddKnown
    <3> QED
      BY <1>1, <2>1, <3>1, EnqueueTypes DEF TypeOK, AddKnown
  <2>2. CASE op \notin updated
    BY <1>1, <2>2 DEF TypeOK, AddKnown
  <2> QED
    BY <2>1, <2>2
<1>2. ASSUME NEW op \in Op, AddNew(op) PROVE TypeOK'
  <2>1. add' \in Add
    BY <1>2 DEF AddNew, AddAt, Add
  <2> QED
    BY <1>2, <2>1 DEF TypeOK, AddNew, Snapshot
<1>3. ASSUME InnerAdds PROVE TypeOK'
  BY <1>3 DEF InnerAdds, TypeOK, AddInv, AddAt, Add, Snapshot
<1>4. ASSUME InnerRefuses PROVE TypeOK'
  <2>1. add' \in Add /\ deaths' \in 0..MaxDeaths
    BY <1>4 DEF TypeOK, InnerRefuses, AddAt, Add
  <2> QED
    BY <1>4, <2>1 DEF TypeOK, InnerRefuses
<1>5. ASSUME AddRefused PROVE TypeOK'
  BY <1>5 DEF AddRefused, TypeOK, AddInv, Idle, AddAt, Add
<1>6. ASSUME AddChecks PROVE TypeOK'
  BY <1>6 DEF AddChecks, TypeOK, AddInv, Idle, AddAt, Add
<1>7. ASSUME AddCancels PROVE TypeOK'
  BY <1>7 DEF AddCancels, TypeOK, AddInv, InnerCancel, Idle, AddAt, Add
<1>8. ASSUME NEW op \in Op, CancelStarts(op) PROVE TypeOK'
  BY <1>8 DEF CancelStarts, TypeOK
<1>9. ASSUME NEW op \in Op, CancelReturns(op) PROVE TypeOK'
  BY <1>9 DEF CancelReturns, TypeOK, InnerCancel
<1>10. ASSUME PumpTakes PROVE TypeOK'
  <2>1. Head(updates) \in Update /\ Tail(updates) \in Seq(Update)
    BY <1>10, HeadTailProperties DEF TypeOK, PumpTakes
  <2> QED
    BY <1>10, <2>1 DEF TypeOK, PumpTakes
<1>11. ASSUME PumpPuts PROVE TypeOK'
  <2>1. pump.id \in Op /\ pump.snap \in Snapshot
    BY <1>11 DEF TypeOK, PumpPuts, Update, Snapshot
  <2> QED
    BY <1>11, <2>1, EnqueueTypes DEF TypeOK, PumpPuts
<1>12. ASSUME FeedPicks PROVE TypeOK'
  <2>1. feed' \in Feed
    <3>1. CASE queue = <<>>
      BY <1>12, <3>1 DEF FeedPicks, FeedAt, Feed
    <3>2. CASE queue # <<>>
      <4>1. Head(queue) \in Op /\ pending[Head(queue)] \in 0..Last
        BY <3>2, HeadTailProperties DEF TypeOK, QueueInv, Snapshot, Absent
      <4> QED
        BY <1>12, <3>2, <4>1 DEF FeedPicks, FeedAt, Feed, TypeOK
    <3> QED
      BY <3>1, <3>2
  <2> QED
    BY <1>12, <2>1 DEF TypeOK, FeedPicks
<1>13. ASSUME FeedWakes PROVE TypeOK'
  <2>1. Picks \in Feed
    BY DEF Picks, FeedAt, Feed
  <2> QED
    BY <1>13, <2>1 DEF TypeOK, FeedWakes
<1>14. ASSUME FeedDrops PROVE TypeOK'
  <2>1. feed.id \in Op /\ Tail(queue) \in Seq(Op) /\ Picks \in Feed
    BY <1>14, HeadTailProperties DEF TypeOK, FeedDrops, QueueInv, Picks, FeedAt, Feed
  <2>2. CASE version[feed.id] = feed.ver
    <3>1. /\ pending' = [pending EXCEPT ![feed.id] = Absent]
          /\ version' = [version EXCEPT ![feed.id] = 0]
      BY <1>14, <2>2 DEF FeedDrops
    <3>2. pending' \in [Op -> Snapshot \cup {Absent}] /\ version' \in [Op -> Nat]
      BY <3>1 DEF TypeOK
    <3> QED
      BY <1>14, <2>1, <2>2, <3>2 DEF TypeOK, FeedDrops
  <2>3. CASE version[feed.id] # feed.ver
    BY <1>14, <2>1, <2>3 DEF TypeOK, FeedDrops
  <2> QED
    BY <2>2, <2>3
<1>15. ASSUME NEW op \in Op, Publish(op) PROVE TypeOK'
  BY <1>15 DEF Publish, TypeOK, Snapshot
<1>16. ASSUME Take PROVE TypeOK'
  BY <1>16 DEF Take, TypeOK, OrderInv, QueueInv, FeedAt, Feed, Update, RegisteredInv
<1>17. ASSUME SaveOperation PROVE TypeOK'
  BY <1>17 DEF SaveOperation, TypeOK, Update, Snapshot
<1>18. ASSUME Die PROVE TypeOK'
  <2>1. deaths' \in 0..MaxDeaths
    BY <1>18 DEF TypeOK, Die
  <2> QED
    BY <1>18, <2>1 DEF TypeOK, Die
<1>19. ASSUME Restart PROVE TypeOK'
  BY <1>19 DEF Restart, TypeOK
<1>20. ASSUME NEW op \in Op, NEW snap \in Snapshot, Report(op, snap) PROVE TypeOK'
  <2>1. [id |-> op, snap |-> snap] \in Update
    BY <1>20 DEF TypeOK, Report, Update, Snapshot, Absent
  <2>2. updates' \in Seq(Update)
    BY <1>20, <2>1, AppendProperties DEF TypeOK, Report
  <2>3. at' \in [Op -> Snapshot \cup {Absent}]
    BY <1>20 DEF TypeOK, Report
  <2> QED
    BY <1>20, <2>2, <2>3 DEF TypeOK, Report
<1> QED
  BY <1>1, <1>2, <1>3, <1>4, <1>5, <1>6, <1>7, <1>8, <1>9, <1>10, <1>11, <1>12, <1>13, <1>14,
     <1>15, <1>16, <1>17, <1>18, <1>19, <1>20
     DEF Next, AddStarts, AddGoesOn, FeedGoesOn, Pump

\* The coordinator's place in Add stays what it is.
LEMMA AddsKept == IInv /\ Next => AddInv'
<1> SUFFICES ASSUME IInv, Next PROVE AddInv'
  OBVIOUS
<1> USE OpsAssumption DEF IInv, manager, inner, coordinator
<1>1. ASSUME NEW op \in Op, AddKnown(op) PROVE AddInv'
  BY <1>1 DEF AddKnown, AddInv, Enqueue
<1>2. ASSUME NEW op \in Op, AddNew(op) PROVE AddInv'
  BY <1>2 DEF AddNew, TypeOK, AddInv, RegisteredInv, AddAt, Absent
<1>3. ASSUME InnerAdds PROVE AddInv'
  BY <1>3 DEF InnerAdds, TypeOK, AddInv, AddAt, Absent
<1>4. ASSUME InnerRefuses PROVE AddInv'
  BY <1>4 DEF InnerRefuses, AddInv, AddAt
<1>5. ASSUME AddRefused PROVE AddInv'
  BY <1>5 DEF AddRefused, AddInv, Idle, AddAt
<1>6. ASSUME AddChecks PROVE AddInv'
  BY <1>6 DEF AddChecks, AddInv, Idle, AddAt
<1>7. ASSUME AddCancels PROVE AddInv'
  BY <1>7 DEF AddCancels, AddInv, Idle, AddAt
<1>8. ASSUME NEW op \in Op, CancelStarts(op) PROVE AddInv'
  BY <1>8 DEF CancelStarts, AddInv
<1>9. ASSUME NEW op \in Op, CancelReturns(op) PROVE AddInv'
  BY <1>9 DEF CancelReturns, AddInv
<1>10. ASSUME PumpTakes PROVE AddInv'
  BY <1>10 DEF PumpTakes, AddInv
<1>11. ASSUME PumpPuts PROVE AddInv'
  BY <1>11 DEF PumpPuts, TypeOK, AddInv, ChannelInv, Update, Enqueue, Absent
<1>12. ASSUME FeedPicks PROVE AddInv'
  BY <1>12 DEF FeedPicks, AddInv
<1>13. ASSUME FeedWakes PROVE AddInv'
  BY <1>13 DEF FeedWakes, AddInv
<1>14. ASSUME FeedDrops PROVE AddInv'
  BY <1>14 DEF FeedDrops, AddInv
<1>15. ASSUME NEW op \in Op, Publish(op) PROVE AddInv'
  BY <1>15 DEF Publish, AddInv
<1>16. ASSUME Take PROVE AddInv'
  BY <1>16 DEF Take, AddInv
<1>17. ASSUME SaveOperation PROVE AddInv'
  BY <1>17 DEF SaveOperation, AddInv
<1>18. ASSUME Die PROVE AddInv'
  BY <1>18 DEF Die, AddInv
<1>19. ASSUME Restart PROVE AddInv'
  BY <1>19 DEF Restart, AddInv
<1>20. ASSUME NEW op \in Op, NEW snap \in Snapshot, Report(op, snap) PROVE AddInv'
  BY <1>20 DEF Report, TypeOK, AddInv, Absent, Snapshot
<1> QED
  BY <1>1, <1>2, <1>3, <1>4, <1>5, <1>6, <1>7, <1>8, <1>9, <1>10, <1>11, <1>12, <1>13, <1>14,
     <1>15, <1>16, <1>17, <1>18, <1>19, <1>20
     DEF Next, AddStarts, AddGoesOn, FeedGoesOn, Pump

\* Nothing is known of what was not registered.
LEMMA RegisteredKept == IInv /\ Next => RegisteredInv'
<1> SUFFICES ASSUME IInv, Next PROVE RegisteredInv'
  OBVIOUS
<1> USE OpsAssumption DEF IInv, manager, inner, coordinator
<1>1. ASSUME NEW op \in Op, AddKnown(op) PROVE RegisteredInv'
  BY <1>1 DEF AddKnown, RegisteredInv
<1>2. ASSUME NEW op \in Op, AddNew(op) PROVE RegisteredInv'
  BY <1>2 DEF AddNew, TypeOK, RegisteredInv, Absent
<1>3. ASSUME InnerAdds PROVE RegisteredInv'
  BY <1>3 DEF InnerAdds, TypeOK, AddInv, RegisteredInv, Absent
<1>4. ASSUME InnerRefuses PROVE RegisteredInv'
  BY <1>4 DEF InnerRefuses, RegisteredInv
<1>5. ASSUME AddRefused PROVE RegisteredInv'
  BY <1>5 DEF AddRefused, TypeOK, AddInv, RegisteredInv, Absent
<1>6. ASSUME AddChecks PROVE RegisteredInv'
  BY <1>6 DEF AddChecks, RegisteredInv
<1>7. ASSUME AddCancels PROVE RegisteredInv'
  BY <1>7 DEF AddCancels, RegisteredInv
<1>8. ASSUME NEW op \in Op, CancelStarts(op) PROVE RegisteredInv'
  BY <1>8 DEF CancelStarts, RegisteredInv
<1>9. ASSUME NEW op \in Op, CancelReturns(op) PROVE RegisteredInv'
  BY <1>9 DEF CancelReturns, RegisteredInv
<1>10. ASSUME PumpTakes PROVE RegisteredInv'
  BY <1>10 DEF PumpTakes, RegisteredInv
<1>11. ASSUME PumpPuts PROVE RegisteredInv'
  <2> DEFINE p == pump.id
  <2>1. p \in Op /\ pump.snap \in 1..Last /\ pump.snap <= at[p] /\ at[p] # Absent
    BY <1>11 DEF PumpPuts, TypeOK, ChannelInv, Update, Snapshot, Absent
  <2>2. /\ latest' = [latest EXCEPT ![p] = pump.snap] /\ updated' = updated \cup {p}
        /\ UNCHANGED <<at, ran, stored, toAdd>>
    BY <1>11 DEF PumpPuts
  <2>3. stored[p] # Absent
    BY <2>1 DEF RegisteredInv
  <2> QED
    BY <2>1, <2>2, <2>3 DEF TypeOK, RegisteredInv, Absent
<1>12. ASSUME FeedPicks PROVE RegisteredInv'
  BY <1>12 DEF FeedPicks, RegisteredInv
<1>13. ASSUME FeedWakes PROVE RegisteredInv'
  BY <1>13 DEF FeedWakes, RegisteredInv
<1>14. ASSUME FeedDrops PROVE RegisteredInv'
  BY <1>14 DEF FeedDrops, RegisteredInv
<1>15. ASSUME NEW op \in Op, Publish(op) PROVE RegisteredInv'
  BY <1>15 DEF Publish, TypeOK, RegisteredInv, Absent
<1>16. ASSUME Take PROVE RegisteredInv'
  BY <1>16 DEF Take, RegisteredInv
<1>17. ASSUME SaveOperation PROVE RegisteredInv'
  BY <1>17 DEF SaveOperation, TypeOK, RegisteredInv, OrderInv, Update, Absent
<1>18. ASSUME Die PROVE RegisteredInv'
  BY <1>18 DEF Die, RegisteredInv
<1>19. ASSUME Restart PROVE RegisteredInv'
  BY <1>19 DEF Restart, TypeOK, RegisteredInv, Absent
<1>20. ASSUME NEW op \in Op, NEW snap \in Snapshot, Report(op, snap) PROVE RegisteredInv'
  <2>1. /\ at' = [at EXCEPT ![op] = snap] /\ at[op] # Absent /\ at[op] < snap
        /\ UNCHANGED <<latest, updated, ran, stored, toAdd>>
    BY <1>20 DEF Report
  <2> QED
    BY <2>1 DEF TypeOK, RegisteredInv, Snapshot, Absent
<1> QED
  BY <1>1, <1>2, <1>3, <1>4, <1>5, <1>6, <1>7, <1>8, <1>9, <1>10, <1>11, <1>12, <1>13, <1>14,
     <1>15, <1>16, <1>17, <1>18, <1>19, <1>20
     DEF Next, AddStarts, AddGoesOn, FeedGoesOn, Pump

\* Enqueue keeps the queue free of duplicates and its head where it is.
LEMMA EnqueueQueue ==
  ASSUME TypeOK, QueueInv, NEW op \in Op, NEW snap \in Snapshot, Enqueue(op, snap)
  PROVE  /\ \A n \in DOMAIN queue' : pending'[queue'[n]] # Absent
         /\ \A m, n \in DOMAIN queue' : queue'[m] = queue'[n] => m = n
         /\ queue # <<>> => queue' # <<>> /\ Head(queue') = Head(queue)
         /\ pending' = [pending EXCEPT ![op] = snap]
<1>1. /\ pending' = [pending EXCEPT ![op] = snap] /\ snap # Absent
      /\ queue' = IF pending[op] = Absent THEN Append(queue, op) ELSE queue
  BY DEF Enqueue, Snapshot, Absent
<1>2. queue \in Seq(Op) /\ DOMAIN queue = 1..Len(queue) /\ Len(queue) \in Nat
  BY LenProperties DEF TypeOK
<1>3. \A n \in DOMAIN queue : queue[n] \in Op /\ pending[queue[n]] # Absent
  BY <1>2, ElementOfSeq DEF QueueInv
<1>4. CASE pending[op] # Absent
  BY <1>1, <1>3, <1>4 DEF TypeOK, QueueInv
<1>5. CASE pending[op] = Absent
  <2>1. /\ queue' \in Seq(Op) /\ queue' # <<>> /\ DOMAIN queue' = 1..(Len(queue) + 1)
        /\ \A n \in DOMAIN queue : queue'[n] = queue[n]
        /\ queue'[Len(queue) + 1] = op
    BY <1>1, <1>2, <1>5, AppendProperties, LenProperties
  <2>2. \A n \in DOMAIN queue : queue[n] # op
    BY <1>3, <1>5
  <2>3. \A n \in DOMAIN queue' : pending'[queue'[n]] # Absent
    BY <1>1, <1>2, <1>3, <2>1 DEF TypeOK
  <2>4. \A m, n \in DOMAIN queue' : queue'[m] = queue'[n] => m = n
    BY <1>2, <2>1, <2>2 DEF QueueInv
  <2>5. queue # <<>> => Head(queue') = Head(queue)
    BY <1>2, <2>1
  <2> QED
    BY <1>1, <2>1, <2>3, <2>4, <2>5
<1> QED
  BY <1>4, <1>5

\* The queue stays in step with what is pending.
LEMMA QueueKept == IInv /\ Next => QueueInv'
<1> SUFFICES ASSUME IInv, Next PROVE QueueInv'
  OBVIOUS
<1> USE OpsAssumption DEF IInv, manager, inner, coordinator
<1>1. ASSUME NEW op \in Op, AddKnown(op) PROVE QueueInv'
  <2>1. CASE op \in updated
    <3>1. latest[op] \in Snapshot /\ Enqueue(op, latest[op])
      BY <1>1, <2>1 DEF TypeOK, AddKnown
    <3>2. UNCHANGED <<latest, updated, feed>>
      BY <1>1 DEF AddKnown
    <3> QED
      BY <2>1, <3>1, <3>2, EnqueueQueue DEF TypeOK, QueueInv
  <2>2. CASE op \notin updated
    BY <1>1, <2>2 DEF AddKnown, QueueInv
  <2> QED
    BY <2>1, <2>2
<1>2. ASSUME NEW op \in Op, AddNew(op) PROVE QueueInv'
  BY <1>2 DEF AddNew, TypeOK, QueueInv, RegisteredInv, Absent
<1>3. ASSUME InnerAdds PROVE QueueInv'
  BY <1>3 DEF InnerAdds, QueueInv
<1>4. ASSUME InnerRefuses PROVE QueueInv'
  BY <1>4 DEF InnerRefuses, QueueInv
<1>5. ASSUME AddRefused PROVE QueueInv'
  <2>1. /\ latest' = [latest EXCEPT ![add.id] = Absent] /\ add.id \in Op
        /\ UNCHANGED <<updated, queue, pending, feed>>
    BY <1>5 DEF AddRefused, AddInv
  <2>2. add.id \notin updated
    BY <1>5 DEF AddRefused, AddInv, RegisteredInv
  <2> QED
    BY <2>1, <2>2 DEF TypeOK, QueueInv
<1>6. ASSUME AddChecks PROVE QueueInv'
  BY <1>6 DEF AddChecks, QueueInv
<1>7. ASSUME AddCancels PROVE QueueInv'
  BY <1>7 DEF AddCancels, QueueInv
<1>8. ASSUME NEW op \in Op, CancelStarts(op) PROVE QueueInv'
  BY <1>8 DEF CancelStarts, QueueInv
<1>9. ASSUME NEW op \in Op, CancelReturns(op) PROVE QueueInv'
  BY <1>9 DEF CancelReturns, QueueInv
<1>10. ASSUME PumpTakes PROVE QueueInv'
  BY <1>10 DEF PumpTakes, QueueInv
<1>11. ASSUME PumpPuts PROVE QueueInv'
  <2> DEFINE p == pump.id
  <2>1. p \in Op /\ pump.snap \in Snapshot /\ Enqueue(p, pump.snap)
    BY <1>11 DEF TypeOK, PumpPuts, Update, Snapshot
  <2>2. /\ latest' = [latest EXCEPT ![p] = pump.snap] /\ updated' = updated \cup {p}
        /\ UNCHANGED feed
    BY <1>11 DEF PumpPuts
  <2> QED
    BY <2>1, <2>2, EnqueueQueue DEF TypeOK, QueueInv
<1>12. ASSUME FeedPicks PROVE QueueInv'
  BY <1>12 DEF FeedPicks, QueueInv, FeedAt
<1>13. ASSUME FeedWakes PROVE QueueInv'
  BY <1>13 DEF FeedWakes, QueueInv, FeedAt, Picks
<1>14. ASSUME FeedDrops PROVE QueueInv'
  <2>1. feed'.at = "pick" /\ UNCHANGED <<latest, updated>>
    BY <1>14 DEF FeedDrops, Picks, FeedAt
  <2>2. CASE version[feed.id] # feed.ver
    BY <1>14, <2>1, <2>2 DEF FeedDrops, QueueInv
  <2>3. CASE version[feed.id] = feed.ver
    <3>1. /\ queue # <<>> /\ feed.id = Head(queue) /\ queue' = Tail(queue)
          /\ pending' = [pending EXCEPT ![feed.id] = Absent]
      BY <1>14, <2>3 DEF FeedDrops, QueueInv
    <3>2. /\ queue \in Seq(Op) /\ Len(queue) \in Nat \ {0} /\ DOMAIN queue = 1..Len(queue)
          /\ DOMAIN queue' = 1..(Len(queue) - 1) /\ feed.id \in Op
          /\ \A n \in DOMAIN queue' : queue'[n] = queue[n + 1] /\ queue'[n] \in Op
      BY <3>1, HeadTailProperties, LenProperties, ElementOfSeq, EmptySeq DEF TypeOK
    <3>3. feed.id = queue[1]
      BY <3>1, <3>2
    <3>4. \A n \in DOMAIN queue' : n + 1 \in DOMAIN queue /\ n + 1 # 1
      BY <3>2
    <3>5. ASSUME NEW n \in DOMAIN queue' PROVE pending'[queue'[n]] # Absent
      <4>1. 1 \in DOMAIN queue /\ queue[n + 1] # queue[1]
        BY <3>2, <3>4 DEF QueueInv
      <4>2. queue'[n] # feed.id /\ pending[queue'[n]] # Absent
        BY <3>2, <3>3, <3>4, <4>1 DEF QueueInv
      <4> QED
        BY <3>1, <3>2, <4>2 DEF TypeOK
    <3>6. \A m, n \in DOMAIN queue' : queue'[m] = queue'[n] => m = n
      BY <3>2, <3>4 DEF QueueInv
    <3> QED
      BY <2>1, <3>1, <3>2, <3>5, <3>6 DEF TypeOK, QueueInv
  <2> QED
    BY <2>2, <2>3
<1>15. ASSUME NEW op \in Op, Publish(op) PROVE QueueInv'
  BY <1>15 DEF Publish, QueueInv
<1>16. ASSUME Take PROVE QueueInv'
  BY <1>16 DEF Take, QueueInv, FeedAt
<1>17. ASSUME SaveOperation PROVE QueueInv'
  BY <1>17 DEF SaveOperation, QueueInv
<1>18. ASSUME Die PROVE QueueInv'
  BY <1>18 DEF Die, QueueInv
<1>19. ASSUME Restart PROVE QueueInv'
  BY <1>19 DEF Restart, QueueInv
<1>20. ASSUME NEW op \in Op, NEW snap \in Snapshot, Report(op, snap) PROVE QueueInv'
  BY <1>20 DEF Report, QueueInv
<1> QED
  BY <1>1, <1>2, <1>3, <1>4, <1>5, <1>6, <1>7, <1>8, <1>9, <1>10, <1>11, <1>12, <1>13, <1>14,
     <1>15, <1>16, <1>17, <1>18, <1>19, <1>20
     DEF Next, AddStarts, AddGoesOn, FeedGoesOn, Pump

\* An update in the channel names an operation and a snapshot after the first.
LEMMA ChannelTypes ==
  ASSUME TypeOK
  PROVE  /\ updates \in Seq(Update) /\ Len(updates) \in Nat
         /\ DOMAIN updates = 1..Len(updates)
         /\ \A n \in DOMAIN updates : updates[n] \in Update /\ updates[n].id \in Op
                                        /\ updates[n].snap \in 1..Last
<1>1. /\ updates \in Seq(Update) /\ Len(updates) \in Nat /\ DOMAIN updates = 1..Len(updates)
  BY LenProperties DEF TypeOK
<1>2. \A n \in DOMAIN updates : updates[n] \in Update
  BY <1>1, ElementOfSeq
<1> QED
  BY <1>1, <1>2 DEF Update

\* The updates on their way stay in order.
LEMMA ChannelKept == IInv /\ Next => ChannelInv'
<1> SUFFICES ASSUME IInv, Next PROVE ChannelInv'
  OBVIOUS
<1> USE OpsAssumption DEF IInv, manager, inner, coordinator
<1>1. ASSUME NEW op \in Op, AddKnown(op) PROVE ChannelInv'
  BY <1>1 DEF AddKnown, ChannelInv
<1>2. ASSUME NEW op \in Op, AddNew(op) PROVE ChannelInv'
  <2>1. /\ latest' = [latest EXCEPT ![op] = 0] /\ latest[op] = Absent
        /\ UNCHANGED <<updates, pump, at>>
    BY <1>2 DEF AddNew
  <2>2. pump # None => pump.id \in Op /\ pump.snap \in 1..Last
    BY DEF TypeOK, Update
  <2>3. pump # None => latest'[pump.id] < pump.snap
    BY <2>1, <2>2 DEF TypeOK, ChannelInv, Snapshot, Absent
  <2>4. \A n \in DOMAIN updates : latest'[updates[n].id] < updates[n].snap
    BY <2>1, ChannelTypes DEF TypeOK, ChannelInv, Snapshot, Absent
  <2> QED
    BY <2>1, <2>3, <2>4 DEF ChannelInv
<1>3. ASSUME InnerAdds PROVE ChannelInv'
  <2>1. /\ at' = [at EXCEPT ![add.id] = 0] /\ add.id \in Op /\ at[add.id] = Absent
        /\ UNCHANGED <<latest, updates, pump>>
    BY <1>3 DEF InnerAdds, AddInv
  <2>2. pump # None => pump.id \in Op /\ pump.snap \in 1..Last
    BY DEF TypeOK, Update
  <2>3. pump # None => pump.snap <= at'[pump.id]
    BY <2>1, <2>2 DEF TypeOK, ChannelInv, Snapshot, Absent
  <2>4. \A n \in DOMAIN updates : updates[n].snap <= at'[updates[n].id]
    BY <2>1, ChannelTypes DEF TypeOK, ChannelInv, Snapshot, Absent
  <2> QED
    BY <2>1, <2>3, <2>4 DEF ChannelInv
<1>4. ASSUME InnerRefuses PROVE ChannelInv'
  BY <1>4 DEF InnerRefuses, ChannelInv
<1>5. ASSUME AddRefused PROVE ChannelInv'
  <2>1. /\ latest' = [latest EXCEPT ![add.id] = Absent] /\ add.id \in Op
        /\ UNCHANGED <<updates, pump, at>>
    BY <1>5 DEF AddRefused, AddInv
  <2>2. pump # None => pump.id \in Op /\ pump.snap \in 1..Last
    BY DEF TypeOK, Update
  <2>3. pump # None => latest'[pump.id] < pump.snap
    BY <2>1, <2>2 DEF TypeOK, ChannelInv, Snapshot, Absent
  <2>4. \A n \in DOMAIN updates : latest'[updates[n].id] < updates[n].snap
    BY <2>1, ChannelTypes DEF TypeOK, ChannelInv, Snapshot, Absent
  <2> QED
    BY <2>1, <2>3, <2>4 DEF ChannelInv
<1>6. ASSUME AddChecks PROVE ChannelInv'
  BY <1>6 DEF AddChecks, ChannelInv
<1>7. ASSUME AddCancels PROVE ChannelInv'
  BY <1>7 DEF AddCancels, ChannelInv
<1>8. ASSUME NEW op \in Op, CancelStarts(op) PROVE ChannelInv'
  BY <1>8 DEF CancelStarts, ChannelInv
<1>9. ASSUME NEW op \in Op, CancelReturns(op) PROVE ChannelInv'
  BY <1>9 DEF CancelReturns, ChannelInv
<1>10. ASSUME PumpTakes PROVE ChannelInv'
  <2>1. /\ pump = None /\ pump' = updates[1] /\ updates # <<>> /\ updates' = Tail(updates)
        /\ UNCHANGED <<latest, at>>
    BY <1>10, ChannelTypes DEF PumpTakes
  <2>2. /\ 1 \in DOMAIN updates /\ DOMAIN updates' = 1..(Len(updates) - 1)
        /\ \A n \in DOMAIN updates' : updates'[n] = updates[n + 1] /\ n + 1 \in DOMAIN updates
    BY <2>1, ChannelTypes, HeadTailProperties, LenProperties, EmptySeq
  <2>3. latest'[pump'.id] < pump'.snap /\ pump'.snap <= at'[pump'.id]
    BY <2>1, <2>2 DEF ChannelInv
  <2>4. ASSUME NEW n \in DOMAIN updates'
        PROVE  /\ latest'[updates'[n].id] < updates'[n].snap
               /\ updates'[n].snap <= at'[updates'[n].id]
               /\ pump'.id = updates'[n].id => pump'.snap < updates'[n].snap
               /\ \A m \in 1..(n - 1) : updates'[m].id = updates'[n].id
                                         => updates'[m].snap < updates'[n].snap
    <3>1. 1 \in 1..((n + 1) - 1)
      BY <2>2, ChannelTypes
    <3>2. /\ latest'[updates'[n].id] < updates'[n].snap
          /\ updates'[n].snap <= at'[updates'[n].id]
          /\ pump'.id = updates'[n].id => pump'.snap < updates'[n].snap
      BY <2>1, <2>2, <3>1 DEF ChannelInv
    <3>3. ASSUME NEW m \in 1..(n - 1), updates'[m].id = updates'[n].id
          PROVE  updates'[m].snap < updates'[n].snap
      <4>1. m + 1 \in 1..((n + 1) - 1) /\ m \in DOMAIN updates'
        BY <2>2, ChannelTypes
      <4> QED
        BY <2>2, <3>3, <4>1 DEF ChannelInv
    <3> QED
      BY <3>2, <3>3
  <2> QED
    BY <2>3, <2>4 DEF ChannelInv
<1>11. ASSUME PumpPuts PROVE ChannelInv'
  <2>1. /\ latest' = [latest EXCEPT ![pump.id] = pump.snap] /\ pump # None /\ pump' = None
        /\ UNCHANGED <<updates, at>>
    BY <1>11 DEF PumpPuts
  <2>2. pump.id \in Op
    BY <2>1 DEF TypeOK, Update
  <2>3. \A n \in DOMAIN updates : latest'[updates[n].id] < updates[n].snap
    BY <2>1, <2>2, ChannelTypes DEF TypeOK, ChannelInv
  <2> QED
    BY <2>1, <2>3 DEF ChannelInv
<1>12. ASSUME FeedPicks PROVE ChannelInv'
  BY <1>12 DEF FeedPicks, ChannelInv
<1>13. ASSUME FeedWakes PROVE ChannelInv'
  BY <1>13 DEF FeedWakes, ChannelInv
<1>14. ASSUME FeedDrops PROVE ChannelInv'
  BY <1>14 DEF FeedDrops, ChannelInv
<1>15. ASSUME NEW op \in Op, Publish(op) PROVE ChannelInv'
  BY <1>15 DEF Publish, ChannelInv
<1>16. ASSUME Take PROVE ChannelInv'
  BY <1>16 DEF Take, ChannelInv
<1>17. ASSUME SaveOperation PROVE ChannelInv'
  BY <1>17 DEF SaveOperation, ChannelInv
<1>18. ASSUME Die PROVE ChannelInv'
  BY <1>18 DEF Die, ChannelInv
<1>19. ASSUME Restart PROVE ChannelInv'
  BY <1>19 DEF Restart, ChannelInv
<1>20. ASSUME NEW op \in Op, NEW snap \in Snapshot, Report(op, snap) PROVE ChannelInv'
  <2>1. /\ at' = [at EXCEPT ![op] = snap] /\ at[op] < snap
        /\ updates' = Append(updates, [id |-> op, snap |-> snap])
        /\ [id |-> op, snap |-> snap] \in Update
        /\ UNCHANGED <<latest, pump>>
    BY <1>20 DEF Report, TypeOK, Update, Snapshot, Absent
  <2>2. /\ DOMAIN updates' = 1..(Len(updates) + 1)
        /\ \A n \in DOMAIN updates : updates'[n] = updates[n]
        /\ updates'[Len(updates) + 1] = [id |-> op, snap |-> snap]
    BY <2>1, ChannelTypes, AppendProperties, LenProperties
  <2>3. /\ \A q \in Op : at[q] \in Int /\ at'[q] \in Int /\ latest[q] \in Int /\ at[q] <= at'[q]
        /\ latest[op] <= at[op] /\ at'[op] = snap /\ snap \in Int
    BY <2>1, <1>20 DEF Report, TypeOK, RegisteredInv, Snapshot, Absent
  <2>4. pump # None => pump.id \in Op /\ pump.snap \in 1..Last
    BY DEF TypeOK, Update
  <2>5. pump # None => latest'[pump.id] < pump.snap /\ pump.snap <= at'[pump.id]
    BY <2>1, <2>4 DEF TypeOK, ChannelInv, Snapshot, Absent
  <2>6. ASSUME NEW n \in DOMAIN updates'
        PROVE  /\ latest'[updates'[n].id] < updates'[n].snap
               /\ updates'[n].snap <= at'[updates'[n].id]
               /\ pump' # None /\ pump'.id = updates'[n].id => pump'.snap < updates'[n].snap
               /\ \A m \in 1..(n - 1) : updates'[m].id = updates'[n].id
                                         => updates'[m].snap < updates'[n].snap
    <3>1. CASE n \in DOMAIN updates
      <4>1. /\ latest[updates[n].id] < updates[n].snap
            /\ updates[n].snap <= at[updates[n].id]
            /\ pump # None /\ pump.id = updates[n].id => pump.snap < updates[n].snap
            /\ \A m \in 1..(n - 1) : updates[m].id = updates[n].id
                                      => updates[m].snap < updates[n].snap
        BY <3>1 DEF ChannelInv
      <4>2. \A m \in 1..(n - 1) : updates'[m] = updates[m]
        BY <2>2, <3>1, ChannelTypes
      <4>3. updates[n].snap <= at'[updates[n].id]
        BY <2>3, <3>1, <4>1, ChannelTypes
      <4> QED
        BY <2>1, <2>2, <3>1, <4>1, <4>2, <4>3
    <3>2. CASE n = Len(updates) + 1
      <4>1. updates'[n].id = op /\ updates'[n].snap = snap
        BY <2>2, <3>2
      <4>2. \A m \in 1..(n - 1) : m \in DOMAIN updates /\ updates'[m] = updates[m]
        BY <2>2, <3>2, ChannelTypes
      <4>3. ASSUME NEW m \in DOMAIN updates, updates[m].id = op PROVE updates[m].snap < snap
        <5>1. updates[m].snap <= at[op] /\ updates[m].snap \in Int
          BY <4>3, ChannelTypes DEF ChannelInv
        <5> QED
          BY <2>1, <2>3, <5>1
      <4>4. ASSUME pump # None, pump.id = op PROVE pump.snap < snap
        <5>1. pump.snap <= at[op] /\ pump.snap \in Int
          BY <2>4, <4>4 DEF ChannelInv
        <5> QED
          BY <2>1, <2>3, <5>1
      <4>5. latest'[op] < snap /\ snap <= at'[op]
        BY <2>1, <2>3
      <4> QED
        BY <2>1, <4>1, <4>2, <4>3, <4>4, <4>5
    <3> QED
      BY <2>2, <3>1, <3>2, ChannelTypes
  <2> QED
    BY <2>1, <2>5, <2>6 DEF ChannelInv
<1> QED
  BY <1>1, <1>2, <1>3, <1>4, <1>5, <1>6, <1>7, <1>8, <1>9, <1>10, <1>11, <1>12, <1>13, <1>14,
     <1>15, <1>16, <1>17, <1>18, <1>19, <1>20
     DEF Next, AddStarts, AddGoesOn, FeedGoesOn, Pump

\* What reaches the store does so in order.
LEMMA OrderKept == IInv /\ Next => OrderInv'
<1> SUFFICES ASSUME IInv, Next PROVE OrderInv'
  OBVIOUS
<1> USE OpsAssumption DEF IInv, manager, inner, coordinator
<1>1. ASSUME NEW op \in Op, AddKnown(op) PROVE OrderInv'
  BY <1>1 DEF AddKnown, OrderInv
<1>2. ASSUME NEW op \in Op, AddNew(op) PROVE OrderInv'
  BY <1>2 DEF AddNew, TypeOK, OrderInv, RegisteredInv, Absent
<1>3. ASSUME InnerAdds PROVE OrderInv'
  BY <1>3 DEF InnerAdds, OrderInv
<1>4. ASSUME InnerRefuses PROVE OrderInv'
  BY <1>4 DEF InnerRefuses, OrderInv
<1>5. ASSUME AddRefused PROVE OrderInv'
  BY <1>5 DEF AddRefused, TypeOK, OrderInv, AddInv, RegisteredInv, Update
<1>6. ASSUME AddChecks PROVE OrderInv'
  BY <1>6 DEF AddChecks, OrderInv
<1>7. ASSUME AddCancels PROVE OrderInv'
  BY <1>7 DEF AddCancels, OrderInv
<1>8. ASSUME NEW op \in Op, CancelStarts(op) PROVE OrderInv'
  BY <1>8 DEF CancelStarts, OrderInv
<1>9. ASSUME NEW op \in Op, CancelReturns(op) PROVE OrderInv'
  BY <1>9 DEF CancelReturns, OrderInv
<1>10. ASSUME PumpTakes PROVE OrderInv'
  BY <1>10 DEF PumpTakes, OrderInv
<1>11. ASSUME PumpPuts PROVE OrderInv'
  <2> DEFINE p == pump.id
  <2>1. /\ p \in Op /\ pump.snap \in 1..Last /\ latest[p] < pump.snap
        /\ latest' = [latest EXCEPT ![p] = pump.snap] /\ updated' = updated \cup {p}
        /\ UNCHANGED <<feed, hand, stored>>
    BY <1>11 DEF PumpPuts, TypeOK, ChannelInv, Update
  <2>2. /\ \A q \in Op : latest[q] \in Int /\ latest'[q] \in Int /\ latest[q] <= latest'[q]
        /\ \A q \in Op : stored[q] \in Int
        /\ latest'[p] = pump.snap
    BY <2>1 DEF TypeOK, Snapshot, Absent
  <2>3. \A q \in Op : IF q \in updated' THEN stored'[q] <= latest'[q] ELSE stored'[q] <= 0
    BY <2>1, <2>2 DEF OrderInv
  <2>4. feed.at \in {"offer",
     "taken"} => feed.id \in updated' /\ feed.snap \in 1..latest'[feed.id]
    BY <2>1, <2>2 DEF OrderInv, TypeOK
  <2>5. hand # None => hand.id \in updated' /\ hand.snap <= latest'[hand.id]
    BY <2>1, <2>2 DEF OrderInv, TypeOK, Update
  <2> QED
    BY <2>1, <2>3, <2>4, <2>5 DEF OrderInv
<1>12. ASSUME FeedPicks PROVE OrderInv'
  BY <1>12 DEF FeedPicks, TypeOK, OrderInv, QueueInv, RegisteredInv, FeedAt, Update, Snapshot,
     Absent
<1>13. ASSUME FeedWakes PROVE OrderInv'
  BY <1>13 DEF FeedWakes, OrderInv, Picks, FeedAt
<1>14. ASSUME FeedDrops PROVE OrderInv'
  BY <1>14 DEF FeedDrops, OrderInv, Picks, FeedAt
<1>15. ASSUME NEW op \in Op, Publish(op) PROVE OrderInv'
  BY <1>15 DEF Publish, TypeOK, OrderInv, RegisteredInv, Update, Snapshot, Absent
<1>16. ASSUME Take PROVE OrderInv'
  BY <1>16 DEF Take, TypeOK, OrderInv, RegisteredInv, FeedAt, Snapshot, Absent
<1>17. ASSUME SaveOperation PROVE OrderInv'
  BY <1>17 DEF SaveOperation, TypeOK, OrderInv, Update, Feed, Snapshot, Absent
<1>18. ASSUME Die PROVE OrderInv'
  BY <1>18 DEF Die, OrderInv
<1>19. ASSUME Restart PROVE OrderInv'
  BY <1>19 DEF Restart, OrderInv
<1>20. ASSUME NEW op \in Op, NEW snap \in Snapshot, Report(op, snap) PROVE OrderInv'
  BY <1>20 DEF Report, OrderInv
<1> QED
  BY <1>1, <1>2, <1>3, <1>4, <1>5, <1>6, <1>7, <1>8, <1>9, <1>10, <1>11, <1>12, <1>13, <1>14,
     <1>15, <1>16, <1>17, <1>18, <1>19, <1>20
     DEF Next, AddStarts, AddGoesOn, FeedGoesOn, Pump

\* Every step of the goroutines, the coordinator and the inner manager keeps it.
LEMMA IInvStep == IInv /\ [Next]_vars => IInv'
<1> SUFFICES ASSUME IInv, [Next]_vars PROVE IInv'
  OBVIOUS
<1>1. CASE Next
  BY <1>1, TypesKept, AddsKept, RegisteredKept, QueueKept, ChannelKept, OrderKept DEF IInv
<1>2. CASE UNCHANGED vars
  BY <1>2 DEF IInv, TypeOK, AddInv, RegisteredInv, QueueInv, ChannelInv, OrderInv,
     vars, manager, inner, coordinator
<1> QED
  BY <1>1, <1>2

\* The maps, the queue, the feed and what is on its way agree in every state.
LEMMA Inductive == Spec => []IInv
  BY IInvInit, IInvStep, PTL DEF Spec

\* The maps, the queues and the goroutines of the manager keep their types.
THEOREM TypeCorrect == Spec => []TypeOK
<1>1. IInv => TypeOK
  BY DEF IInv
<1> QED
  BY Inductive, <1>1, PTL

-----------------------------------------------------------------------------
(* A cancelled operation is not left working.                              *)

\* A step leaves no cancelled operation to work that its Add will not stop.
LEMMA CancelKept == IInv /\ CancelInv /\ Next => CancelInv'
<1> SUFFICES ASSUME IInv, CancelInv, Next PROVE CancelInv'
  OBVIOUS
<1> USE OpsAssumption DEF IInv, manager, inner, coordinator, CancelInv
<1>1. ASSUME NEW op \in Op, AddKnown(op) PROVE CancelInv'
  BY <1>1 DEF AddKnown
<1>2. ASSUME NEW op \in Op, AddNew(op) PROVE CancelInv'
  BY <1>2 DEF AddNew, AddAt
<1>3. ASSUME InnerAdds PROVE CancelInv'
  BY <1>3 DEF InnerAdds, AddAt, TypeOK, RegisteredInv, AddInv
<1>4. ASSUME InnerRefuses PROVE CancelInv'
  BY <1>4 DEF InnerRefuses, AddAt
<1>5. ASSUME AddRefused PROVE CancelInv'
  BY <1>5 DEF AddRefused, Idle, AddAt
<1>6. ASSUME AddChecks PROVE CancelInv'
  BY <1>6 DEF AddChecks, AddAt, Idle, TypeOK, AddInv
<1>7. ASSUME AddCancels PROVE CancelInv'
  BY <1>7 DEF AddCancels, AddAt, Idle, InnerCancel, AddInv
<1>8. ASSUME NEW op \in Op, CancelStarts(op) PROVE CancelInv'
  BY <1>8 DEF CancelStarts, TypeOK
<1>9. ASSUME NEW op \in Op, CancelReturns(op) PROVE CancelInv'
  BY <1>9 DEF CancelReturns, TypeOK, InnerCancel, RegisteredInv
<1>10. ASSUME PumpTakes PROVE CancelInv'
  BY <1>10 DEF PumpTakes
<1>11. ASSUME PumpPuts PROVE CancelInv'
  BY <1>11 DEF PumpPuts
<1>12. ASSUME FeedPicks PROVE CancelInv'
  BY <1>12 DEF FeedPicks
<1>13. ASSUME FeedWakes PROVE CancelInv'
  BY <1>13 DEF FeedWakes
<1>14. ASSUME FeedDrops PROVE CancelInv'
  BY <1>14 DEF FeedDrops
<1>15. ASSUME NEW op \in Op, Publish(op) PROVE CancelInv'
  BY <1>15 DEF Publish
<1>16. ASSUME Take PROVE CancelInv'
  BY <1>16 DEF Take
<1>17. ASSUME SaveOperation PROVE CancelInv'
  BY <1>17 DEF SaveOperation
<1>18. ASSUME Die PROVE CancelInv'
  BY <1>18 DEF Die
<1>19. ASSUME Restart PROVE CancelInv'
  BY <1>19 DEF Restart
<1>20. ASSUME NEW op \in Op, NEW snap \in Snapshot, Report(op, snap) PROVE CancelInv'
  BY <1>20 DEF Report
<1> QED
  BY <1>1, <1>2, <1>3, <1>4, <1>5, <1>6, <1>7, <1>8, <1>9, <1>10, <1>11, <1>12, <1>13, <1>14,
     <1>15, <1>16, <1>17, <1>18, <1>19, <1>20
     DEF Next, AddStarts, AddGoesOn, FeedGoesOn, Pump

\* A Cancel that has returned has reached an operation that works, whether it
\* came before, during or after its Add.
THEOREM CancelsReach == Spec => []CancelReaches
<1>1. Init => CancelInv
  BY DEF Init, CancelInv
<1>2. IInv /\ CancelInv /\ [Next]_vars => CancelInv'
  <2>1. IInv /\ CancelInv /\ UNCHANGED vars => CancelInv'
    BY DEF CancelInv, vars, manager, inner, coordinator
  <2> QED
    BY <2>1, CancelKept
<1>3. CancelInv => CancelReaches
  BY DEF CancelInv, CancelReaches
<1> QED
  BY <1>1, <1>2, <1>3, Inductive, PTL DEF Spec

-----------------------------------------------------------------------------
(* Nothing is lost.                                                        *)

\* What was made stays on its way until it arrives.
LEMMA CarriedKept == IInv /\ CarriedInv /\ Next => CarriedInv'
<1> SUFFICES ASSUME IInv, CarriedInv, Next PROVE CarriedInv'
  OBVIOUS
<1> USE OpsAssumption DEF IInv, manager, inner, coordinator, CarriedInv
<1>1. ASSUME NEW op \in Op, AddKnown(op) PROVE CarriedInv'
  BY <1>1 DEF AddKnown
<1>2. ASSUME NEW op \in Op, AddNew(op) PROVE CarriedInv'
  BY <1>2 DEF AddNew, TypeOK, RegisteredInv, Snapshot, Absent
<1>3. ASSUME InnerAdds PROVE CarriedInv'
  <2>1. /\ at' = [at EXCEPT ![add.id] = 0] /\ add.id \in Op
        /\ UNCHANGED <<latest, updates, pump>>
    BY <1>3 DEF InnerAdds, AddInv
  <2>2. \A op \in Op : at'[op] > 0 => at'[op] = at[op]
    BY <2>1 DEF TypeOK
  <2> QED
    BY <2>1, <2>2
<1>4. ASSUME InnerRefuses PROVE CarriedInv'
  BY <1>4 DEF InnerRefuses
<1>5. ASSUME AddRefused PROVE CarriedInv'
  <2>1. /\ latest' = [latest EXCEPT ![add.id] = Absent] /\ add.id \in Op
        /\ at[add.id] = Absent
        /\ UNCHANGED <<at, updates, pump>>
    BY <1>5 DEF AddRefused, AddInv
  <2> QED
    BY <2>1 DEF TypeOK, Absent
<1>6. ASSUME AddChecks PROVE CarriedInv'
  BY <1>6 DEF AddChecks
<1>7. ASSUME AddCancels PROVE CarriedInv'
  BY <1>7 DEF AddCancels
<1>8. ASSUME NEW op \in Op, CancelStarts(op) PROVE CarriedInv'
  BY <1>8 DEF CancelStarts
<1>9. ASSUME NEW op \in Op, CancelReturns(op) PROVE CarriedInv'
  BY <1>9 DEF CancelReturns
<1>10. ASSUME PumpTakes PROVE CarriedInv'
  <2>1. /\ pump = None /\ pump' = updates[1] /\ updates # <<>> /\ updates' = Tail(updates)
        /\ UNCHANGED <<latest, at>>
    BY <1>10, ChannelTypes DEF PumpTakes
  <2>2. /\ DOMAIN updates' = 1..(Len(updates) - 1)
        /\ \A n \in DOMAIN updates' : updates'[n] = updates[n + 1]
    BY <2>1, ChannelTypes, HeadTailProperties, LenProperties
  <2>3. ASSUME NEW op \in Op, NEW n \in DOMAIN updates,
               updates[n] = [id |-> op, snap |-> at[op]]
        PROVE  \/ \E k \in DOMAIN updates' : updates'[k] = [id |-> op, snap |-> at'[op]]
               \/ pump' = [id |-> op, snap |-> at'[op]]
    <3>1. CASE n = 1
      BY <2>1, <2>3, <3>1
    <3>2. CASE n # 1
      <4>1. n - 1 \in DOMAIN updates' /\ (n - 1) + 1 = n
        BY <2>2, <3>2, ChannelTypes
      <4>2. updates'[n - 1] = updates[n]
        BY <2>2, <4>1
      <4> QED
        BY <2>1, <2>3, <4>1, <4>2
    <3> QED
      BY <3>1, <3>2
  <2>4. \A op \in Op, v \in 1..Last : None # [id |-> op, snap |-> v]
    BY OpsAssumption
  <2>5. ASSUME NEW op \in Op, at[op] > 0 PROVE pump # [id |-> op, snap |-> at[op]]
    <3>1. at[op] \in 1..Last
      BY <2>5, OpsAssumption DEF TypeOK, Snapshot, Absent
    <3> QED
      BY <2>1, <2>4, <3>1
  <2>6. ASSUME NEW op \in Op, at'[op] > 0
        PROVE  \/ \E n \in DOMAIN updates' : updates'[n] = [id |-> op, snap |-> at'[op]]
               \/ pump' = [id |-> op, snap |-> at'[op]]
               \/ latest'[op] = at'[op]
    <3>1. \/ \E n \in DOMAIN updates : updates[n] = [id |-> op, snap |-> at[op]]
          \/ latest[op] = at[op]
      BY <2>1, <2>5, <2>6
    <3> QED
      BY <2>1, <2>3, <3>1
  <2> QED
    BY <2>6
<1>11. ASSUME PumpPuts PROVE CarriedInv'
  <2>1. /\ latest' = [latest EXCEPT ![pump.id] = pump.snap] /\ pump # None
        /\ UNCHANGED <<updates, at>>
    BY <1>11 DEF PumpPuts
  <2>2. pump.id \in Op /\ latest[pump.id] < pump.snap /\ pump.snap <= at[pump.id]
    BY <2>1 DEF TypeOK, Update, ChannelInv
  <2>3. latest[pump.id] \in Int /\ at[pump.id] \in Int /\ pump.snap \in Int
    BY <2>1, <2>2, OpsAssumption DEF TypeOK, Snapshot, Absent, Update
  <2>4. latest[pump.id] # at[pump.id]
    BY <2>2, <2>3
  <2> QED
    BY <2>1, <2>2, <2>4 DEF TypeOK
<1>12. ASSUME FeedPicks PROVE CarriedInv'
  BY <1>12 DEF FeedPicks
<1>13. ASSUME FeedWakes PROVE CarriedInv'
  BY <1>13 DEF FeedWakes
<1>14. ASSUME FeedDrops PROVE CarriedInv'
  BY <1>14 DEF FeedDrops
<1>15. ASSUME NEW op \in Op, Publish(op) PROVE CarriedInv'
  BY <1>15 DEF Publish
<1>16. ASSUME Take PROVE CarriedInv'
  BY <1>16 DEF Take
<1>17. ASSUME SaveOperation PROVE CarriedInv'
  BY <1>17 DEF SaveOperation
<1>18. ASSUME Die PROVE CarriedInv'
  BY <1>18 DEF Die
<1>19. ASSUME Restart PROVE CarriedInv'
  BY <1>19 DEF Restart
<1>20. ASSUME NEW op \in Op, NEW snap \in Snapshot, Report(op, snap) PROVE CarriedInv'
  <2>1. /\ at' = [at EXCEPT ![op] = snap]
        /\ updates' = Append(updates, [id |-> op, snap |-> snap])
        /\ [id |-> op, snap |-> snap] \in Update
        /\ UNCHANGED <<latest, pump>>
    BY <1>20 DEF Report, TypeOK, Update, Snapshot, Absent
  <2>2. /\ DOMAIN updates' = 1..(Len(updates) + 1)
        /\ \A n \in DOMAIN updates : n \in DOMAIN updates' /\ updates'[n] = updates[n]
        /\ Len(updates) + 1 \in DOMAIN updates'
        /\ updates'[Len(updates) + 1] = [id |-> op, snap |-> snap]
    BY <2>1, ChannelTypes, AppendProperties, LenProperties
  <2>3. ASSUME NEW q \in Op, at'[q] > 0
        PROVE  \/ \E n \in DOMAIN updates' : updates'[n] = [id |-> q, snap |-> at'[q]]
               \/ pump' = [id |-> q, snap |-> at'[q]]
               \/ latest'[q] = at'[q]
    <3>1. CASE q = op
      <4>1. at'[q] = snap
        BY <2>1, <3>1 DEF TypeOK
      <4> QED
        BY <2>2, <3>1, <4>1
    <3>2. CASE q # op
      <4>1. at'[q] = at[q]
        BY <2>1, <3>2 DEF TypeOK
      <4> QED
        BY <2>1, <2>2, <2>3, <4>1
    <3> QED
      BY <3>1, <3>2
  <2> QED
    BY <2>3
<1> QED
  BY <1>1, <1>2, <1>3, <1>4, <1>5, <1>6, <1>7, <1>8, <1>9, <1>10, <1>11, <1>12, <1>13, <1>14,
     <1>15, <1>16, <1>17, <1>18, <1>19, <1>20
     DEF Next, AddStarts, AddGoesOn, FeedGoesOn, Pump

\* What arrived stays owed to the store until it is there.
LEMMA OwedKept == IInv /\ OwedInv /\ Next => OwedInv'
<1> SUFFICES ASSUME IInv, OwedInv, Next PROVE OwedInv'
  OBVIOUS
<1> USE OpsAssumption DEF IInv, manager, inner, coordinator, OwedInv
<1>1. ASSUME NEW op \in Op, AddKnown(op) PROVE OwedInv'
  <2>1. /\ toAdd' = toAdd \ {op}
        /\ UNCHANGED <<latest, updated, alive, stored, hand, feed>>
    BY <1>1 DEF AddKnown
  <2>2. CASE op \in updated
    <3>1. /\ pending' = [pending EXCEPT ![op] = latest[op]]
          /\ version' = [version EXCEPT ![op] = version[op] + 1]
      BY <1>1, <2>2 DEF AddKnown, Enqueue
    <3>2. alive => \A q \in updated : latest[q] > stored[q] => Owed(q)'
      BY <2>1, <3>1 DEF TypeOK, Owed
    <3>3. feed.at \in {"offer", "taken"} /\ feed.id = op => feed.ver < version'[op]
      BY <3>1 DEF TypeOK, Feed
    <3>4. feed.at \in {"offer", "taken"} /\ feed.id # op =>
            /\ version'[feed.id] = version[feed.id] /\ pending'[feed.id] = pending[feed.id]
            /\ feed.id \in toAdd => feed.id \in toAdd'
      BY <2>1, <3>1 DEF TypeOK, OrderInv
    <3>5. version'[op] \in Int /\ feed.ver \in Int
      BY <3>1 DEF TypeOK, Feed
    <3>6. CASE feed.id = op
      BY <2>1, <3>2, <3>3, <3>5, <3>6
    <3>7. CASE feed.id # op
      BY <2>1, <3>2, <3>4, <3>7
    <3> QED
      BY <3>6, <3>7
  <2>3. CASE op \notin updated
    <3>1. UNCHANGED <<pending, version>>
      BY <1>1, <2>3 DEF AddKnown
    <3> QED
      BY <2>1, <2>3, <3>1 DEF Owed, OrderInv
  <2> QED
    BY <2>2, <2>3
<1>2. ASSUME NEW op \in Op, AddNew(op) PROVE OwedInv'
  <2>1. /\ latest' = [latest EXCEPT ![op] = 0] /\ toAdd' = toAdd \ {op} /\ op \notin updated
        /\ UNCHANGED <<updated, alive, stored, hand, feed, pending, version>>
    BY <1>2 DEF AddNew, RegisteredInv, Absent
  <2> QED
    BY <2>1 DEF Owed, TypeOK, OrderInv
<1>3. ASSUME InnerAdds PROVE OwedInv'
  BY <1>3 DEF InnerAdds, Owed
<1>4. ASSUME InnerRefuses PROVE OwedInv'
  BY <1>4 DEF InnerRefuses, Owed
<1>5. ASSUME AddRefused PROVE OwedInv'
  <2>1. /\ latest' = [latest EXCEPT ![add.id] = Absent] /\ add.id \in Op /\ ~alive'
        /\ UNCHANGED <<updated, pending, version, feed>>
    BY <1>5 DEF AddRefused, AddInv
  <2> QED
    BY <2>1
<1>6. ASSUME AddChecks PROVE OwedInv'
  BY <1>6 DEF AddChecks, Owed
<1>7. ASSUME AddCancels PROVE OwedInv'
  BY <1>7 DEF AddCancels, Owed
<1>8. ASSUME NEW op \in Op, CancelStarts(op) PROVE OwedInv'
  BY <1>8 DEF CancelStarts, Owed
<1>9. ASSUME NEW op \in Op, CancelReturns(op) PROVE OwedInv'
  BY <1>9 DEF CancelReturns, Owed
<1>10. ASSUME PumpTakes PROVE OwedInv'
  BY <1>10 DEF PumpTakes, Owed
<1>11. ASSUME PumpPuts PROVE OwedInv'
  <2> DEFINE p == pump.id
  <2>1. /\ p \in Op /\ pump.snap \in Int
        /\ latest' = [latest EXCEPT ![p] = pump.snap] /\ updated' = updated \cup {p}
        /\ pending' = [pending EXCEPT ![p] = pump.snap]
        /\ version' = [version EXCEPT ![p] = version[p] + 1]
        /\ UNCHANGED <<alive, stored, hand, feed, toAdd>>
    BY <1>11 DEF PumpPuts, Enqueue, TypeOK, Update
  <2>2. alive => \A q \in updated' : latest'[q] > stored[q] => Owed(q)'
    BY <2>1 DEF TypeOK, Owed
  <2>3. feed.at \in {"offer", "taken"} /\ feed.id = p => feed.ver < version'[p]
    BY <2>1 DEF TypeOK, Feed
  <2>4. feed.at \in {"offer", "taken"} /\ feed.id # p =>
          version'[feed.id] = version[feed.id] /\ pending'[feed.id] = pending[feed.id]
    BY <2>1 DEF TypeOK, OrderInv
  <2> QED
    BY <2>1, <2>2, <2>3, <2>4 DEF TypeOK, Feed
<1>12. ASSUME FeedPicks PROVE OwedInv'
  <2>1. UNCHANGED <<latest, updated, alive, stored, hand, toAdd, pending, version>>
    BY <1>12 DEF FeedPicks
  <2>2. CASE queue = <<>>
    BY <1>12, <2>1, <2>2 DEF FeedPicks, FeedAt, Owed
  <2>3. CASE queue # <<>>
    <3>1. Head(queue) \in Op
      BY <2>3, HeadTailProperties DEF TypeOK
    <3>2. /\ feed'.at = "offer" /\ feed'.id = Head(queue)
          /\ feed'.ver = version[Head(queue)] /\ feed'.snap = pending[Head(queue)]
      BY <1>12, <2>3 DEF FeedPicks, FeedAt
    <3> QED
      BY <2>1, <3>1, <3>2 DEF Owed, TypeOK
  <2> QED
    BY <2>2, <2>3
<1>13. ASSUME FeedWakes PROVE OwedInv'
  BY <1>13 DEF FeedWakes, Picks, FeedAt, Owed
<1>14. ASSUME FeedDrops PROVE OwedInv'
  <2>1. /\ feed.at = "taken" /\ feed'.at = "pick" /\ feed.id \in updated /\ feed.snap \in Int
        /\ UNCHANGED <<latest, updated, alive, stored, hand, toAdd>>
    BY <1>14 DEF FeedDrops, Picks, FeedAt, OrderInv, TypeOK, Feed
  <2>2. CASE version[feed.id] # feed.ver
    BY <1>14, <2>1, <2>2 DEF FeedDrops, Owed
  <2>3. CASE version[feed.id] = feed.ver
    <3>1. pending' = [pending EXCEPT ![feed.id] = Absent]
      BY <1>14, <2>3 DEF FeedDrops
    <3>2. pending[feed.id] = feed.snap /\ feed.snap # Absent
      BY <2>1, <2>3 DEF OrderInv, TypeOK, Absent
    <3>3. latest[feed.id] = feed.snap
      BY <2>1, <3>2 DEF QueueInv, TypeOK
    <3>4. \A q \in updated : latest[q] \in Int /\ stored[q] \in Int
      BY OpsAssumption DEF TypeOK, Snapshot, Absent
    <3>5. ASSUME alive, NEW q \in updated, latest[q] > stored[q] PROVE Owed(q)'
      <4>1. CASE q = feed.id
        <5>1. q \in toAdd \/ hand = [id |-> q, snap |-> latest[q]]
          BY <2>1, <2>3, <3>3, <3>4, <3>5, <4>1
        <5> QED
          BY <2>1, <5>1 DEF Owed
      <4>2. CASE q # feed.id
        BY <2>1, <3>1, <3>5, <4>2 DEF Owed, TypeOK
      <4> QED
        BY <4>1, <4>2
    <3> QED
      BY <2>1, <3>5
  <2> QED
    BY <2>2, <2>3
<1>15. ASSUME NEW op \in Op, Publish(op) PROVE OwedInv'
  BY <1>15 DEF Publish, Owed, TypeOK, OrderInv, RegisteredInv, Absent
<1>16. ASSUME Take PROVE OwedInv'
  <2>1. /\ hand = None /\ feed.at = "offer"
        /\ hand' = [id |-> feed.id, snap |-> feed.snap]
        /\ feed'.at = "taken" /\ feed'.id = feed.id /\ feed'.snap = feed.snap
        /\ feed'.ver = feed.ver
        /\ UNCHANGED <<latest, updated, alive, stored, toAdd, pending, version>>
    BY <1>16 DEF Take, FeedAt
  <2>2. \A q \in updated : hand # [id |-> q, snap |-> latest[q]]
    BY <2>1 DEF TypeOK, RegisteredInv, Update
  <2> QED
    BY <2>1, <2>2 DEF Owed
<1>17. ASSUME SaveOperation PROVE OwedInv'
  <2>1. /\ hand # None /\ hand' = None
        /\ stored' = [stored EXCEPT ![hand.id] = hand.snap]
        /\ stored[hand.id] <= hand.snap
        /\ UNCHANGED <<latest, updated, alive, toAdd, pending, version, feed>>
    BY <1>17 DEF SaveOperation, OrderInv
  <2>2. hand.id \in Op /\ hand.snap \in Int /\ \A q \in Op : stored[q] \in Int /\ latest[q] \in Int
    BY <2>1 DEF TypeOK, Update, Snapshot, Absent
  <2>3. \A q \in Op : stored[q] <= stored'[q] /\ stored'[q] \in Int
    BY <2>1, <2>2 DEF TypeOK
  <2>4. stored'[hand.id] = hand.snap
    BY <2>1, <2>2 DEF TypeOK
  <2>5. ASSUME alive, NEW q \in updated, latest[q] > stored'[q] PROVE Owed(q)'
    <3>1. latest[q] > stored[q] /\ q \in Op
      BY <2>2, <2>3, <2>5 DEF TypeOK
    <3>2. hand # [id |-> q, snap |-> latest[q]]
      BY <2>2, <2>4, <2>5, <3>1
    <3> QED
      BY <2>1, <2>5, <3>1, <3>2 DEF Owed
  <2>6. feed.at = "taken" => feed.id \in Op /\ feed.snap \in Int
    BY DEF OrderInv, TypeOK, Feed
  <2>7. ASSUME alive, feed.at = "taken", feed.ver = version[feed.id]
        PROVE  stored'[feed.id] >= feed.snap \/ feed.id \in toAdd
    <3>1. CASE hand = [id |-> feed.id, snap |-> feed.snap]
      BY <2>4, <2>6, <2>7, <3>1
    <3>2. CASE hand # [id |-> feed.id, snap |-> feed.snap]
      BY <2>2, <2>3, <2>6, <2>7, <3>2
    <3> QED
      BY <3>1, <3>2
  <2> QED
    BY <2>1, <2>5, <2>7
<1>18. ASSUME Die PROVE OwedInv'
  BY <1>18 DEF Die, Owed
<1>19. ASSUME Restart PROVE OwedInv'
  <2>1. /\ toAdd' = {op \in Op : stored[op] \in 0..(Last - 1)}
        /\ UNCHANGED <<latest, updated, hand, stored, pending, version, feed>>
    BY <1>19 DEF Restart
  <2>2. ASSUME NEW q \in updated, NEW v \in 1..Last, v > stored[q] PROVE q \in toAdd'
    <3>1. q \in Op /\ stored[q] \in Snapshot
      BY DEF TypeOK, RegisteredInv, Absent
    <3>2. stored[q] \in 0..(Last - 1)
      BY <2>2, <3>1 DEF Snapshot
    <3> QED
      BY <2>1, <3>1, <3>2
  <2>3. \A q \in updated : latest[q] \in 1..Last /\ stored[q] \in Int
    BY DEF RegisteredInv, TypeOK, Snapshot, Absent
  <2>4. feed.at = "taken" => feed.id \in updated /\ feed.snap \in 1..Last
    BY <2>3 DEF OrderInv
  <2>5. feed.at = "taken" => stored[feed.id] >= feed.snap \/ feed.id \in toAdd'
    BY <2>2, <2>3, <2>4
  <2> QED
    BY <2>1, <2>2, <2>3, <2>5 DEF Owed
<1>20. ASSUME NEW op \in Op, NEW snap \in Snapshot, Report(op, snap) PROVE OwedInv'
  BY <1>20 DEF Report, Owed
<1> QED
  BY <1>1, <1>2, <1>3, <1>4, <1>5, <1>6, <1>7, <1>8, <1>9, <1>10, <1>11, <1>12, <1>13, <1>14,
     <1>15, <1>16, <1>17, <1>18, <1>19, <1>20
     DEF Next, AddStarts, AddGoesOn, FeedGoesOn, Pump

\* While a coordinator runs, a snapshot that the store does not have is always
\* somewhere it will come from.
THEOREM NothingIsLost == Spec => []NothingLost
<1>1. Init => CarriedInv /\ OwedInv
  BY DEF Init, CarriedInv, OwedInv, Picks, FeedAt, Absent
<1>2. IInv /\ CarriedInv /\ [Next]_vars => CarriedInv'
  <2>1. CarriedInv /\ UNCHANGED vars => CarriedInv'
    BY DEF CarriedInv, vars, inner, manager
  <2> QED
    BY <2>1, CarriedKept
<1>3. IInv /\ OwedInv /\ [Next]_vars => OwedInv'
  <2>1. OwedInv /\ UNCHANGED vars => OwedInv'
    BY DEF OwedInv, Owed, vars, manager, coordinator
  <2> QED
    BY <2>1, OwedKept
<1>4. IInv /\ CarriedInv /\ OwedInv => NothingLost
  <2> SUFFICES ASSUME IInv, CarriedInv, OwedInv, alive, NEW op \in Op, at[op] > stored[op]
               PROVE  \/ \E n \in DOMAIN updates : updates[n] = [id |-> op, snap |-> at[op]]
                      \/ pump = [id |-> op, snap |-> at[op]]
                      \/ /\ latest[op] = at[op]
                         /\ \/ pending[op] = at[op] \/ op \in toAdd
                            \/ hand = [id |-> op, snap |-> at[op]]
    BY DEF NothingLost
  <2>1. at[op] \in Snapshot \cup {Absent} /\ stored[op] \in Snapshot \cup {Absent}
    BY DEF IInv, TypeOK
  <2>2. at[op] # Absent /\ stored[op] # Absent
    BY <2>1, OpsAssumption DEF IInv, RegisteredInv, Snapshot, Absent
  <2>3. at[op] > 0 /\ at[op] # Absent
    BY <2>1, <2>2, OpsAssumption DEF Snapshot, Absent
  <2>4. latest[op] = at[op] => op \in updated
    BY <2>3, OpsAssumption DEF IInv, RegisteredInv, Absent
  <2> QED
    BY <2>3, <2>4 DEF CarriedInv, OwedInv, Owed
<1> QED
  BY <1>1, <1>2, <1>3, <1>4, Inductive, PTL DEF Spec

-----------------------------------------------------------------------------
(* The manager implements module OpDelivery, but for its liveness.         *)

\* The initial states of the manager are initial states of the promise.
LEMMA DeliveryInit == Init => Delivery!Init
  BY DEF Init, Delivery!Init, Absent, Delivery!Absent

\* A step of the manager is a step of the promise or changes nothing it is about.
LEMMA DeliveryStep == IInv /\ [Next]_vars => [Delivery!Next]_(Delivery!vars)
<1> SUFFICES ASSUME IInv, [Next]_vars PROVE [Delivery!Next]_(Delivery!vars)
  OBVIOUS
<1> USE OpsAssumption DEF Absent, Delivery!Absent, Snapshot, Delivery!Snapshot
<1>1. ASSUME NEW op \in Op, Publish(op) PROVE Delivery!Publish(op)
  BY <1>1 DEF Publish, Delivery!Publish, inner
<1>2. ASSUME NEW op \in Op, NEW snap \in Snapshot, Report(op, snap)
      PROVE  Delivery!Make(op, snap)
  BY <1>2 DEF Report, Delivery!Make, coordinator, IInv, TypeOK, RegisteredInv
<1>3. ASSUME InnerAdds PROVE add.id \in Op /\ Delivery!Make(add.id, 0)
  BY <1>3 DEF InnerAdds, Delivery!Make, coordinator, IInv, AddInv, RegisteredInv
<1>4. ASSUME SaveOperation
      PROVE  hand.id \in Op /\ hand.snap \in Snapshot
               /\ (Delivery!Save(hand.id, hand.snap) \/ UNCHANGED <<at, stored>>)
  <2>1. /\ hand.id \in Op /\ hand.snap \in Snapshot /\ stored[hand.id] \in Snapshot
        /\ stored[hand.id] <= hand.snap /\ hand.snap <= latest[hand.id]
        /\ latest[hand.id] <= at[hand.id]
        /\ at[hand.id] \in Int /\ latest[hand.id] \in Int
    BY <1>4 DEF SaveOperation, IInv, TypeOK, Update, OrderInv, RegisteredInv
  <2>2. stored' = [stored EXCEPT ![hand.id] = hand.snap] /\ UNCHANGED at
    BY <1>4 DEF SaveOperation, inner
  <2>3. CASE stored[hand.id] = hand.snap
    <3>1. stored' = stored
      BY <2>1, <2>2, <2>3 DEF IInv, TypeOK
    <3> QED
      BY <2>1, <2>2, <3>1
  <2>4. CASE stored[hand.id] # hand.snap
    BY <2>1, <2>2, <2>4 DEF Delivery!Save
  <2> QED
    BY <2>1, <2>3, <2>4
<1>5. CASE UNCHANGED <<at, stored>>
  BY <1>5 DEF Delivery!vars
<1>6. CASE Next /\ ~UNCHANGED <<at, stored>>
  <2>1. \/ InnerAdds \/ SaveOperation
        \/ \E op \in Op : Publish(op) \/ \E snap \in Snapshot : Report(op, snap)
    BY <1>6 DEF Next, AddStarts, AddGoesOn, FeedGoesOn, Pump, AddKnown, AddNew, InnerRefuses,
       AddRefused, AddChecks, AddCancels, CancelStarts, CancelReturns, PumpTakes, PumpPuts,
       FeedPicks, FeedWakes, FeedDrops, Take, Die, Restart, inner, coordinator
  <2> QED
    BY <1>1, <1>2, <1>3, <1>4, <1>6, <2>1 DEF Delivery!Next
<1> QED
  BY <1>5, <1>6 DEF vars, inner, coordinator

\* What a session observes of the manager is what module OpDelivery promises:
\* an operation runs once and the store only moves forward, to what was made.
THEOREM Delivers == Spec => Delivery!Init /\ [][Delivery!Next]_(Delivery!vars)
  BY Inductive, DeliveryInit, DeliveryStep, PTL DEF Spec
=============================================================================
