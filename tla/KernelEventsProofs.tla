------------------------- MODULE KernelEventsProofs -------------------------
(***************************************************************************)
(* Theorems about module KernelEvents, for any number of emitting          *)
(* goroutines, rows, emits, runs and calls, proved by TLAPS.               *)
(***************************************************************************)
EXTENDS KernelEvents, TLAPS, FiniteSetTheorems, FunctionTheorems

\* Where the Mounter has rows down, and where it holds the gate.
Inside == {"dispose", "apply", "subscribe", "applying"}
Gated == job = "remount" /\ pc \in Inside

Typed ==
  /\ listeners \subseteq Listener /\ nextID \in Nat /\ nextID > 0
  /\ mounted \subseteq RowIds /\ effects \in [RowIds -> SUBSET Nat]
  /\ current \in RowIds \cup {NoRow}
  /\ readers \in [Emitting -> Nat]
  /\ down \subseteq RowIds /\ up \subseteq RowIds
  /\ stack \in [Emitting -> Seq(Frame)] /\ want \in [Emitting -> Events \cup {""}]
  /\ run \in [Emitters -> Nat]
  /\ exit \in {"running", "unmount", "exited"}
  /\ leaving \subseteq [row : RowIds, ids : SUBSET Nat]

\* The Mounter's place says what it holds: the gate, the claim on it, a row.
MounterHolds ==
  /\ pc \in {"idle", "lock"} \cup Inside
  /\ job \in {"none", "remount", "reconcile"}
  /\ pc = "idle" <=> job = "none"
  /\ pc = "lock" => job = "remount"
  /\ gateGID = IF Gated THEN Mounter ELSE Nobody
  /\ writer = gateGID
  /\ waiting = IF pc = "lock" THEN Mounter ELSE Nobody
  /\ current # NoRow <=> pc \in {"subscribe", "applying"}
  /\ pc # "applying" => stack[Mounter] = <<>> /\ want[Mounter] = ""
  /\ Gated => want[Mounter] = ""

\* Each goroutine holds the gate for reading once for each Emit it is in,
\* and nobody does while it is held for writing.
Shares(g) ==
  /\ readers[g] = IF gateGID = g THEN 0 ELSE Len(stack[g])
  /\ \A i \in 1 .. Len(stack[g]) : stack[g][i].locked <=> gateGID # g
GateShared ==
  /\ \A g \in Emitting : Shares(g)
  /\ writer # Nobody => \A g \in Emitting : readers[g] = 0

\* The rows the Mounter's call has down are the ones off the tree.
RowsDown ==
  /\ \A r \in up \ down : r \notin mounted
  /\ down \subseteq up /\ current \notin mounted \cup up \cup down
  /\ pc \in {"idle", "lock"} => up = {} /\ down = {}
  /\ pc # "dispose" => down = {}
  /\ exit = "running" => RowIds \subseteq mounted \cup up \cup {current}
  /\ exit = "running" => leaving = {}

\* Rows that are subscribed, and rows that are not.
Heard == mounted \cup (IF pc = "applying" THEN {current} ELSE {})
Unheard == (up \ down) \cup (IF pc = "subscribe" THEN {current} ELSE {})

\* Ids name subscriptions and runs, disposers end what their row has.
IdsName ==
  /\ \A l \in listeners : l.id < nextID /\ l.id > 0
  /\ \A k, l \in listeners : k.id = l.id => k = l
  /\ \A g \in Emitters : run[g] < nextID
  /\ \A g \in Emitters, l \in listeners : l.id = run[g] => l.owner = g
  /\ \A r \in RowIds : \A id \in effects[r] : id < nextID
  /\ \A l \in listeners : l.owner \in RowIds => l.id \in effects[l.owner]
  /\ \A l \in listeners, r \in RowIds :
       l.owner \in RowIds /\ l.id \in effects[r] => l.owner = r

\* A mounted row has its one listener, which the exit has not still to end.
Subscribed ==
  /\ \A r \in Heard : \E l \in listeners : l.owner = r
  /\ \A k, l \in listeners : k.owner \in Heard /\ k.owner = l.owner => k = l
  /\ \A l \in listeners : l.owner \notin Unheard
  /\ \A x \in leaving : \A id \in x.ids : id < nextID
  /\ \A x \in leaving, l \in listeners : l.owner \in Heard => l.id \notin x.ids

IInv == Typed /\ MounterHolds /\ GateShared /\ RowsDown /\ IdsName /\ Subscribed

----------------------------------------------------------------------------
(* The stacks: pushing, popping and using up an Emit.                      *)

LEMMA Pushed ==
  ASSUME NEW s \in Seq(Frame), NEW f \in Frame
  PROVE  /\ <<f>> \o s \in Seq(Frame) /\ Len(<<f>> \o s) = Len(s) + 1
         /\ (<<f>> \o s)[1] = f /\ Head(<<f>> \o s) = f
         /\ \A i \in 2 .. Len(s) + 1 : (<<f>> \o s)[i] = s[i - 1]
  OBVIOUS

LEMMA Popped ==
  ASSUME NEW s \in Seq(Frame), s # <<>>
  PROVE  /\ Tail(s) \in Seq(Frame) /\ Len(Tail(s)) = Len(s) - 1 /\ Len(s) >= 1
         /\ \A i \in 1 .. Len(s) - 1 : Tail(s)[i] = s[i + 1]
         /\ Head(s) = s[1] /\ Head(s) \in Frame
  OBVIOUS

LEMMA Changed ==
  ASSUME NEW s \in Seq(Frame), s # <<>>, NEW f \in Frame
  PROVE  /\ [s EXCEPT ![1] = f] \in Seq(Frame) /\ Len([s EXCEPT ![1] = f]) = Len(s)
         /\ [s EXCEPT ![1] = f][1] = f
         /\ \A i \in 2 .. Len(s) : [s EXCEPT ![1] = f][i] = s[i]
  OBVIOUS

LEMMA Used ==
  ASSUME NEW s \in Seq(Frame), s # <<>>, NEW l
  PROVE  /\ [s EXCEPT ![1].rest = @ \ {l}] \in Seq(Frame)
         /\ Len([s EXCEPT ![1].rest = @ \ {l}]) = Len(s)
         /\ \A i \in 1 .. Len(s) : [s EXCEPT ![1].rest = @ \ {l}][i].locked = s[i].locked
<1> DEFINE f == [s[1] EXCEPT !.rest = @ \ {l}]
<1>1. s[1] \in Frame
  OBVIOUS
<1>2. f \in Frame /\ f.locked = s[1].locked
  BY <1>1 DEF Frame
<1>3. [s EXCEPT ![1].rest = @ \ {l}] = [s EXCEPT ![1] = f]
  OBVIOUS
<1> QED BY <1>2, <1>3, Changed

(* Every variable keeps its type.                                          *)

LEMMA TypedStep ==
  ASSUME IInv, [Next]_vars
  PROVE  Typed'
<1> Typed
  BY DEF IInv
<1>a. readers \in [Emitting -> Nat] /\ listeners \subseteq Listener /\ nextID \in Nat
      /\ stack \in [Emitting -> Seq(Frame)] /\ run \in [Emitters -> Nat]
      /\ effects \in [RowIds -> SUBSET Nat] /\ mounted \subseteq RowIds
  BY DEF Typed
<1>1. ASSUME NEW g \in Emitting, NEW e \in Events, EmitCall(g, e) PROVE Typed'
  <2>1. CASE gateGID = g
    <3> DEFINE f == [event |-> e, rest |-> listeners, locked |-> FALSE]
    <3>1. f \in Frame
      BY DEF Typed, Frame
    <3>2. <<f>> \o stack[g] \in Seq(Frame)
      BY <3>1, Pushed DEF Typed
    <3>3. stack' = [stack EXCEPT ![g] = <<f>> \o stack[g]] /\ UNCHANGED want
      BY <1>1, <2>1 DEF EmitCall, Emit, Snapshot
    <3> QED BY <1>1, <3>2, <3>3 DEF EmitCall, Typed, registry, gateVars, mounterVars, exitVars
  <2>2. CASE gateGID # g
    BY <1>1, <2>2 DEF EmitCall, Emit, Typed, registry, gateVars, mounterVars, exitVars
  <2> QED BY <2>1, <2>2
<1>2. ASSUME NEW g \in Emitting, EmitBegin(g) PROVE Typed'
  <2> DEFINE f == [event |-> want[g], rest |-> listeners, locked |-> TRUE]
  <2>1. f \in Frame
    BY <1>2 DEF EmitBegin, Typed, Frame
  <2>2. <<f>> \o stack[g] \in Seq(Frame)
    BY <2>1, Pushed DEF Typed
  <2>3. stack' = [stack EXCEPT ![g] = <<f>> \o stack[g]] /\ want' = [want EXCEPT ![g] = ""]
    BY <1>2 DEF EmitBegin, Snapshot
  <2>4. readers' \in [Emitting -> Nat]
    <3>1. readers' = [readers EXCEPT ![g] = @ + 1]
      BY <1>2 DEF EmitBegin
    <3> QED BY <1>a, <3>1
  <2> QED BY <1>2, <2>2, <2>3, <2>4 DEF EmitBegin, Typed, registry, mounterVars, exitVars
<1>3. ASSUME NEW g \in Emitting, Deliver(g) PROVE Typed'
  <2>1. PICK l \in Head(stack[g]).rest :
          LET heard == [stack[g] EXCEPT ![1].rest = @ \ {l}]
          IN \/ /\ stack' = [stack EXCEPT ![g] =
                      <<[event |-> "note", rest |-> listeners, locked |-> FALSE]>> \o heard]
                /\ UNCHANGED want
             \/ /\ stack' = [stack EXCEPT ![g] = heard]
                /\ want' = [want EXCEPT ![g] = "note"] \/ UNCHANGED want
    BY <1>3 DEF Deliver
  <2> DEFINE heard == [stack[g] EXCEPT ![1].rest = @ \ {l}]
             f == [event |-> "note", rest |-> listeners, locked |-> FALSE]
  <2>2. heard \in Seq(Frame)
    BY <1>3, Used DEF Deliver, Typed
  <2>3. f \in Frame
    BY DEF Typed, Frame, Events
  <2>4. <<f>> \o heard \in Seq(Frame)
    <3> HIDE DEF f, heard
    <3> QED BY <2>2, <2>3, Pushed
  <2>5. stack' \in [Emitting -> Seq(Frame)] /\ want' \in [Emitting -> Events \cup {""}]
    <3>1. \/ stack' = [stack EXCEPT ![g] = <<f>> \o heard] /\ UNCHANGED want
          \/ /\ stack' = [stack EXCEPT ![g] = heard]
             /\ want' = [want EXCEPT ![g] = "note"] \/ UNCHANGED want
      BY <2>1
    <3> HIDE DEF f, heard
    <3> QED BY <2>2, <2>4, <3>1 DEF Typed, Events
  <2> QED BY <1>3, <2>5 DEF Deliver, Typed, registry, gateVars, mounterVars, exitVars
<1>4. ASSUME NEW g \in Emitting, EmitReturn(g) PROVE Typed'
  <2>1. Tail(stack[g]) \in Seq(Frame) /\ Len(stack[g]) >= 1 /\ Head(stack[g]) = stack[g][1]
    BY <1>4, Popped DEF EmitReturn, Typed
  <2>2. Head(stack[g]).locked => readers[g] > 0
    <3>1. /\ stack[g][1].locked <=> gateGID # g
          /\ readers[g] = IF gateGID = g THEN 0 ELSE Len(stack[g])
      BY <2>1 DEF IInv, GateShared, Shares
    <3> QED BY <2>1, <3>1
  <2>3. readers' \in [Emitting -> Nat]
    <3>1. readers' = [readers EXCEPT ![g] = IF Head(stack[g]).locked THEN @ - 1 ELSE @]
      BY <1>4 DEF EmitReturn
    <3> QED BY <1>a, <2>2, <3>1
  <2>4. stack' \in [Emitting -> Seq(Frame)]
    BY <1>4, <2>1 DEF EmitReturn, Typed
  <2> QED BY <1>4, <2>3, <2>4 DEF EmitReturn, Typed, registry, mounterVars, exitVars
<1>5. ASSUME NEW g \in Emitters, RunBegin(g) PROVE Typed'
  <2>1. listeners' \subseteq Listener
    <3>1. listeners' = listeners \cup {[id |-> nextID, owner |-> g]}
      BY <1>5 DEF RunBegin, On
    <3> QED BY <1>a, <3>1 DEF Listener
  <2>2. effects' \in [RowIds -> SUBSET Nat]
    BY <1>5 DEF RunBegin, On, Typed
  <2>3. nextID' \in Nat /\ nextID' > 0 /\ run' \in [Emitters -> Nat]
    <3>1. nextID' = nextID + 1 /\ run' = [run EXCEPT ![g] = nextID]
      BY <1>5 DEF RunBegin, On
    <3> QED BY <1>a, <3>1
  <2> QED BY <1>5, <2>1, <2>2, <2>3 DEF RunBegin, Typed, gateVars, mounterVars, emitterVars, exitVars
<1>6. ASSUME NEW g \in Emitters, RunEnd(g) PROVE Typed'
  BY <1>6 DEF RunEnd, Typed, registry, gateVars, mounterVars, emitterVars, exitVars, counters
<1>7. CASE Locked
  BY <1>7 DEF Locked, Typed, registry, gateVars, mounterVars, emitterVars, exitVars, counters
<1>8. CASE Disposed
  BY <1>8 DEF Disposed, Typed, registry, gateVars, mounterVars, emitterVars, exitVars, counters
<1>9. CASE Subscribe
  <2>1. current \in RowIds
    BY <1>9 DEF Subscribe, IInv, Typed, MounterHolds
  <2>2. listeners' \subseteq Listener
    <3>1. listeners' = listeners \cup {[id |-> nextID, owner |-> current]}
      BY <1>9 DEF Subscribe, On
    <3> QED BY <1>a, <2>1, <3>1 DEF Listener
  <2>3. effects' \in [RowIds -> SUBSET Nat]
    BY <1>9 DEF Subscribe, On, Typed
  <2>4. nextID' \in Nat /\ nextID' > 0
    <3>1. nextID' = nextID + 1
      BY <1>9 DEF Subscribe, On
    <3> QED BY <1>a, <3>1
  <2> QED BY <1>9, <2>2, <2>3, <2>4 DEF Subscribe, Typed, gateVars, emitterVars, exitVars
<1>10. CASE ApplyEnd
  <2>1. current \in RowIds
    BY <1>10 DEF ApplyEnd, IInv, Typed, MounterHolds
  <2> QED BY <1>10, <2>1 DEF ApplyEnd, Typed, gateVars, emitterVars, exitVars
<1>11. CASE CallEnd
  BY <1>11 DEF CallEnd, Typed, registry, gateVars, mounterVars, emitterVars, exitVars, counters
<1>12. ASSUME NEW r \in RowIds, DisposeRow(r) PROVE Typed'
  <2>1. effects' \in [RowIds -> SUBSET Nat]
    BY <1>12 DEF DisposeRow, Dispose, Typed
  <2> QED BY <1>12, <2>1 DEF DisposeRow, Dispose, Typed, gateVars, emitterVars, exitVars
<1>13. ASSUME NEW r \in RowIds, ApplyBegin(r) PROVE Typed'
  BY <1>13 DEF ApplyBegin, Typed, registry, gateVars, mounterVars, emitterVars, exitVars, counters
<1>14. CASE Remount
  BY <1>14 DEF Remount, Typed, registry, gateVars, mounterVars, emitterVars, exitVars, counters
<1>15. CASE Reconcile
  BY <1>15 DEF Reconcile, Typed, registry, gateVars, mounterVars, emitterVars, exitVars, counters
<1>16. CASE Unmount
  <2>1. leaving' \subseteq [row : RowIds, ids : SUBSET Nat]
    <3>1. leaving' = {[row |-> r, ids |-> effects[r]] : r \in mounted}
      BY <1>16 DEF Unmount
    <3> QED BY <1>a, <3>1
  <2> QED BY <1>16, <2>1 DEF Unmount, Typed, gateVars, mounterVars, emitterVars
<1>17. ASSUME NEW x \in leaving, UnmountRow(x) PROVE Typed'
  <2>1. effects' \in [RowIds -> SUBSET Nat]
    BY <1>17 DEF UnmountRow, Dispose, Typed
  <2> QED BY <1>17, <2>1 DEF UnmountRow, Dispose, Typed, gateVars, mounterVars, emitterVars, exitVars
<1>18. CASE Exit
  BY <1>18 DEF Exit, Typed, registry, gateVars, mounterVars, emitterVars, exitVars, counters
<1>19. CASE UNCHANGED vars
  BY <1>19 DEF Typed, vars, registry, gateVars, mounterVars, emitterVars, exitVars, counters
<1> QED
  BY <1>1, <1>2, <1>3, <1>4, <1>5, <1>6, <1>7, <1>8, <1>9, <1>10, <1>11, <1>12, <1>13, <1>14, <1>15, <1>16, <1>17, <1>18, <1>19 DEF Next, EmitStep, MountStep, ExitStep

(* The Mounter holds what its place says.                                  *)

LEMMA HoldsStep ==
  ASSUME IInv, [Next]_vars
  PROVE  MounterHolds'
<1> Typed /\ MounterHolds
  BY DEF IInv
<1>a. /\ stack \in [Emitting -> Seq(Frame)] /\ want \in [Emitting -> Events \cup {""}]
      /\ Mounter \in Emitting
  BY DEF Typed, Emitting
<1>1. ASSUME NEW g \in Emitting, NEW e \in Events, EmitCall(g, e) PROVE MounterHolds'
  <2>1. UNCHANGED <<pc, job, gateGID, writer, waiting, current>>
    BY <1>1 DEF EmitCall, gateVars, mounterVars
  <2>2. g = Mounter => pc = "applying"
    BY <1>1, <1>a DEF EmitCall, CanEmit, MounterHolds
  <2>3. g # Mounter => stack'[Mounter] = stack[Mounter] /\ want'[Mounter] = want[Mounter]
    BY <1>1, <1>a DEF EmitCall, Emit, Snapshot
  <2>4. Gated => want'[Mounter] = ""
    BY <1>1, <1>a, <2>3 DEF EmitCall, Emit, MounterHolds, Gated
  <2> QED BY <2>1, <2>2, <2>3, <2>4 DEF MounterHolds, Gated
<1>2. ASSUME NEW g \in Emitting, EmitBegin(g) PROVE MounterHolds'
  <2>1. UNCHANGED <<pc, job, gateGID, writer, waiting, current>>
    BY <1>2 DEF EmitBegin, gateVars, mounterVars
  <2>2. g = Mounter => pc = "applying"
    BY <1>2, <1>a DEF EmitBegin, CanEmit, MounterHolds
  <2>3. g # Mounter => stack'[Mounter] = stack[Mounter] /\ want'[Mounter] = want[Mounter]
    BY <1>2, <1>a DEF EmitBegin, Emit, Snapshot
  <2>4. Gated => want'[Mounter] = ""
    BY <1>2, <1>a DEF EmitBegin, MounterHolds, Gated
  <2> QED BY <2>1, <2>2, <2>3, <2>4 DEF MounterHolds, Gated
<1>3. ASSUME NEW g \in Emitting, Deliver(g) PROVE MounterHolds'
  <2>1. UNCHANGED <<pc, job, gateGID, writer, waiting, current>>
    BY <1>3 DEF Deliver, gateVars, mounterVars
  <2>2. g = Mounter => pc = "applying"
    BY <1>3, <1>a DEF Deliver, CanEmit, MounterHolds
  <2>3. g # Mounter => stack'[Mounter] = stack[Mounter] /\ want'[Mounter] = want[Mounter]
    BY <1>3, <1>a DEF Deliver, Emit, Snapshot
  <2>4. Gated => want'[Mounter] = ""
    BY <1>3, <1>a, <2>3 DEF Deliver, MounterHolds, Gated
  <2> QED BY <2>1, <2>2, <2>3, <2>4 DEF MounterHolds, Gated
<1>4. ASSUME NEW g \in Emitting, EmitReturn(g) PROVE MounterHolds'
  <2>1. UNCHANGED <<pc, job, gateGID, writer, waiting, current>>
    BY <1>4 DEF EmitReturn, gateVars, mounterVars
  <2>2. g = Mounter => pc = "applying"
    BY <1>4, <1>a DEF EmitReturn, CanEmit, MounterHolds
  <2>3. g # Mounter => stack'[Mounter] = stack[Mounter] /\ want'[Mounter] = want[Mounter]
    BY <1>4, <1>a DEF EmitReturn, Emit, Snapshot
  <2>4. Gated => want'[Mounter] = ""
    BY <1>4 DEF EmitReturn, MounterHolds, Gated
  <2> QED BY <2>1, <2>2, <2>3, <2>4 DEF MounterHolds, Gated
<1>5. ASSUME NEW g \in Emitters, RunBegin(g) PROVE MounterHolds'
  BY <1>5 DEF RunBegin, MounterHolds, Gated, gateVars, mounterVars, emitterVars
<1>6. ASSUME NEW g \in Emitters, RunEnd(g) PROVE MounterHolds'
  BY <1>6 DEF RunEnd, MounterHolds, Gated, gateVars, mounterVars, emitterVars
<1>7. CASE Locked
  BY <1>7, <1>a, EventsAssumption DEF Locked, MounterHolds, Gated, Inside, gateVars, mounterVars, emitterVars
<1>8. CASE Disposed
  BY <1>8, <1>a, EventsAssumption DEF Disposed, MounterHolds, Gated, Inside, gateVars, mounterVars, emitterVars
<1>9. CASE Subscribe
  <2>1. UNCHANGED <<job, gateGID, writer, waiting, current, stack, want>> /\ pc' = "applying" /\ pc = "subscribe"
    BY <1>9 DEF Subscribe, gateVars, emitterVars
  <2> QED BY <2>1 DEF MounterHolds, Gated, Inside
<1>10. CASE ApplyEnd
  BY <1>10, <1>a, EventsAssumption DEF ApplyEnd, MounterHolds, Gated, Inside, gateVars, mounterVars, emitterVars
<1>11. CASE CallEnd
  BY <1>11, <1>a, EventsAssumption DEF CallEnd, MounterHolds, Gated, Inside, gateVars, mounterVars, emitterVars
<1>12. ASSUME NEW r \in RowIds, DisposeRow(r) PROVE MounterHolds'
  BY <1>12 DEF DisposeRow, MounterHolds, Gated, gateVars, mounterVars, emitterVars
<1>13. ASSUME NEW r \in RowIds, ApplyBegin(r) PROVE MounterHolds'
  <2>1. /\ UNCHANGED <<job, gateGID, writer, waiting, stack, want>>
        /\ pc' = "subscribe" /\ pc = "apply" /\ current' = r
    BY <1>13 DEF ApplyBegin, gateVars, emitterVars
  <2> QED BY <2>1, EventsAssumption DEF MounterHolds, Gated, Inside
<1>14. CASE Remount
  BY <1>14, <1>a, EventsAssumption DEF Remount, MounterHolds, Gated, Inside, gateVars, mounterVars, emitterVars
<1>15. CASE Reconcile
  BY <1>15, <1>a, EventsAssumption DEF Reconcile, MounterHolds, Gated, Inside, gateVars, mounterVars, emitterVars
<1>16. CASE Unmount
  BY <1>16 DEF Unmount, MounterHolds, Gated, gateVars, mounterVars, emitterVars
<1>17. ASSUME NEW x \in leaving, UnmountRow(x) PROVE MounterHolds'
  BY <1>17 DEF UnmountRow, MounterHolds, Gated, gateVars, mounterVars, emitterVars
<1>18. CASE Exit
  BY <1>18 DEF Exit, MounterHolds, Gated, gateVars, mounterVars, emitterVars
<1>19. CASE UNCHANGED vars
  BY <1>19 DEF MounterHolds, Gated, vars, registry, gateVars, mounterVars, emitterVars, exitVars, counters
<1> QED
  BY <1>1, <1>2, <1>3, <1>4, <1>5, <1>6, <1>7, <1>8, <1>9, <1>10, <1>11, <1>12, <1>13, <1>14, <1>15, <1>16, <1>17, <1>18, <1>19 DEF Next, EmitStep, MountStep, ExitStep

(* The gate: one writer or the readers that the stacks tell.               *)

LEMMA SharedStep ==
  ASSUME IInv, [Next]_vars
  PROVE  GateShared'
<1> Typed /\ MounterHolds /\ GateShared
  BY DEF IInv
<1>a. /\ stack \in [Emitting -> Seq(Frame)] /\ readers \in [Emitting -> Nat]
      /\ Mounter \in Emitting
  BY DEF Typed, Emitting
<1>1. ASSUME NEW g \in Emitting, NEW e \in Events, EmitCall(g, e) PROVE GateShared'
  <2>1. CASE gateGID = g
    <3> DEFINE f == [event |-> e, rest |-> listeners, locked |-> FALSE]
    <3>1. f \in Frame
      BY DEF Typed, Frame
    <3>2. stack' = [stack EXCEPT ![g] = <<f>> \o stack[g]]
      BY <1>1, <2>1 DEF EmitCall, Emit, Snapshot
    <3>3. f.locked = FALSE
      OBVIOUS
    <3>4. UNCHANGED <<readers, gateGID, writer>>
      BY <1>1 DEF EmitCall, gateVars
    <3> HIDE DEF f
    <3>5. /\ stack'[g] = <<f>> \o stack[g] /\ Len(stack'[g]) = Len(stack[g]) + 1
          /\ stack'[g][1] = f /\ Len(stack[g]) \in Nat
          /\ \A i \in 2 .. Len(stack[g]) + 1 : stack'[g][i] = stack[g][i - 1]
      BY <1>a, <3>1, <3>2, Pushed
    <3>6. Shares(g)'
      <4>1. ASSUME NEW i \in 1 .. Len(stack'[g]) PROVE stack'[g][i].locked = FALSE
        <5>1. CASE i = 1
          BY <3>3, <3>5, <5>1
        <5>2. CASE i # 1
          <6>1. i - 1 \in 1 .. Len(stack[g]) /\ stack'[g][i] = stack[g][i - 1]
            BY <3>5, <5>2
          <6>2. stack[g][i - 1] \in Frame
            BY <1>a, <6>1
          <6> QED BY <2>1, <6>1, <6>2 DEF GateShared, Shares, Frame
        <5> QED BY <5>1, <5>2
      <4>2. readers[g] = 0
        BY <2>1 DEF GateShared, Shares
      <4> QED BY <2>1, <3>4, <4>1, <4>2 DEF Shares
    <3>7. ASSUME NEW h \in Emitting, h # g PROVE Shares(h)'
      BY <3>2, <3>4, <3>7, <1>a DEF GateShared, Shares
    <3> QED BY <3>4, <3>6, <3>7 DEF GateShared
  <2>2. CASE gateGID # g
    BY <1>1, <2>2 DEF EmitCall, Emit, GateShared, Shares, gateVars
  <2> QED BY <2>1, <2>2
<1>2. ASSUME NEW g \in Emitting, EmitBegin(g) PROVE GateShared'
  <2> DEFINE f == [event |-> want[g], rest |-> listeners, locked |-> TRUE]
  <2>1. f \in Frame
    BY <1>2 DEF EmitBegin, Typed, Frame
  <2>2. /\ stack' = [stack EXCEPT ![g] = <<f>> \o stack[g]]
        /\ readers' = [readers EXCEPT ![g] = @ + 1]
    BY <1>2 DEF EmitBegin, Snapshot
  <2>3. f.locked = TRUE
    OBVIOUS
  <2>4. UNCHANGED <<gateGID, writer>> /\ writer = Nobody /\ gateGID # g
    BY <1>2, EventsAssumption DEF EmitBegin, MounterHolds
  <2> HIDE DEF f
  <2>5. /\ stack'[g] = <<f>> \o stack[g] /\ Len(stack'[g]) = Len(stack[g]) + 1
        /\ stack'[g][1] = f /\ Len(stack[g]) \in Nat
        /\ \A i \in 2 .. Len(stack[g]) + 1 : stack'[g][i] = stack[g][i - 1]
    BY <1>a, <2>1, <2>2, Pushed
  <2>6. Shares(g)'
    <3>1. ASSUME NEW i \in 1 .. Len(stack'[g]) PROVE stack'[g][i].locked
      <4>1. CASE i = 1
        BY <2>3, <2>5, <4>1
      <4>2. CASE i # 1
        <5>1. i - 1 \in 1 .. Len(stack[g]) /\ stack'[g][i] = stack[g][i - 1]
          BY <2>5, <4>2
        <5> QED BY <2>4, <5>1 DEF GateShared, Shares
      <4> QED BY <4>1, <4>2
    <3>2. readers'[g] = Len(stack'[g])
      BY <2>2, <2>4, <2>5, <1>a DEF GateShared, Shares
    <3> QED BY <2>4, <3>1, <3>2 DEF Shares
  <2>7. ASSUME NEW h \in Emitting, h # g PROVE Shares(h)'
    BY <2>2, <2>4, <2>7, <1>a DEF GateShared, Shares
  <2> QED BY <2>4, <2>6, <2>7 DEF GateShared
<1>3. ASSUME NEW g \in Emitting, Deliver(g) PROVE GateShared'
  <2>1. PICK l \in Head(stack[g]).rest :
          LET heard == [stack[g] EXCEPT ![1].rest = @ \ {l}]
          IN \/ /\ gateGID = g
                /\ stack' = [stack EXCEPT ![g] =
                      <<[event |-> "note", rest |-> listeners, locked |-> FALSE]>> \o heard]
             \/ stack' = [stack EXCEPT ![g] = heard]
    BY <1>3 DEF Deliver
  <2> DEFINE heard == [stack[g] EXCEPT ![1].rest = @ \ {l}]
             f == [event |-> "note", rest |-> listeners, locked |-> FALSE]
  <2>2. /\ heard \in Seq(Frame) /\ Len(heard) = Len(stack[g])
        /\ \A i \in 1 .. Len(stack[g]) : heard[i].locked = stack[g][i].locked
    <3>1. stack[g] \in Seq(Frame) /\ stack[g] # <<>>
      BY <1>3, <1>a DEF Deliver
    <3> QED BY <3>1, Used
  <2>3. f \in Frame /\ f.locked = FALSE
    BY DEF Typed, Frame, Events
  <2>4. UNCHANGED <<readers, gateGID, writer>>
    BY <1>3 DEF Deliver, gateVars
  <2>5. \/ gateGID = g /\ stack' = [stack EXCEPT ![g] = <<f>> \o heard]
        \/ stack' = [stack EXCEPT ![g] = heard]
    BY <2>1
  <2> HIDE DEF f, heard
  <2>6. Len(heard) \in Nat /\ \A i \in 1 .. Len(heard) : heard[i].locked <=> gateGID # g
    BY <2>2 DEF GateShared, Shares
  <2>7. CASE stack' = [stack EXCEPT ![g] = heard]
    <3>1. Shares(g)'
      BY <2>2, <2>4, <2>6, <2>7, <1>a DEF GateShared, Shares
    <3>2. ASSUME NEW h \in Emitting, h # g PROVE Shares(h)'
      BY <2>4, <2>7, <3>2, <1>a DEF GateShared, Shares
    <3> QED BY <2>4, <3>1, <3>2 DEF GateShared
  <2>8. CASE gateGID = g /\ stack' = [stack EXCEPT ![g] = <<f>> \o heard]
    <3>1. /\ stack'[g] = <<f>> \o heard /\ Len(stack'[g]) = Len(heard) + 1
          /\ stack'[g][1] = f
          /\ \A i \in 2 .. Len(heard) + 1 : stack'[g][i] = heard[i - 1]
      BY <1>a, <2>2, <2>3, <2>8, Pushed
    <3>2. ASSUME NEW i \in 1 .. Len(stack'[g]) PROVE ~stack'[g][i].locked
      <4>1. CASE i = 1
        BY <2>3, <3>1, <4>1
      <4>2. CASE i # 1
        <5>1. i - 1 \in 1 .. Len(heard) /\ stack'[g][i] = heard[i - 1]
          BY <2>6, <3>1, <4>2
        <5> QED BY <2>6, <2>8, <5>1
      <4> QED BY <4>1, <4>2
    <3>3. readers'[g] = 0 /\ gateGID' = g
      BY <2>4, <2>8 DEF GateShared, Shares
    <3>4. Shares(g)'
      BY <3>2, <3>3 DEF Shares
    <3>5. ASSUME NEW h \in Emitting, h # g PROVE Shares(h)'
      BY <2>4, <2>8, <3>5, <1>a DEF GateShared, Shares
    <3> QED BY <2>4, <3>4, <3>5 DEF GateShared
  <2> QED BY <2>5, <2>7, <2>8
<1>4. ASSUME NEW g \in Emitting, EmitReturn(g) PROVE GateShared'
  <2>1. /\ stack' = [stack EXCEPT ![g] = Tail(@)] /\ stack[g] # <<>>
        /\ readers' = [readers EXCEPT ![g] = IF Head(stack[g]).locked THEN @ - 1 ELSE @]
        /\ UNCHANGED <<gateGID, writer>>
    BY <1>4 DEF EmitReturn
  <2>2. /\ Len(stack'[g]) = Len(stack[g]) - 1 /\ Len(stack[g]) >= 1
        /\ Len(stack[g]) \in Nat /\ Head(stack[g]) = stack[g][1]
        /\ \A i \in 1 .. Len(stack[g]) - 1 : stack'[g][i] = stack[g][i + 1]
    BY <1>a, <2>1, Popped
  <2>3. /\ Head(stack[g]).locked <=> gateGID # g
        /\ \A i \in 1 .. Len(stack'[g]) : stack'[g][i].locked <=> gateGID # g
    BY <2>2 DEF GateShared, Shares
  <2>4. readers'[g] = IF gateGID = g THEN 0 ELSE Len(stack'[g])
    BY <2>1, <2>2, <2>3, <1>a DEF GateShared, Shares
  <2>5. Shares(g)'
    <3>1. gateGID' = gateGID
      BY <2>1
    <3> QED BY <3>1, <2>3, <2>4 DEF Shares
  <2>6. ASSUME NEW h \in Emitting, h # g PROVE Shares(h)'
    BY <2>1, <2>6, <1>a DEF GateShared, Shares
  <2>7. writer # Nobody => gateGID = g
    <3>1. writer # Nobody => readers[g] = 0
      BY DEF GateShared
    <3> QED BY <2>2, <3>1 DEF GateShared, Shares
  <2>8. ASSUME NEW h \in Emitting, writer' # Nobody PROVE readers'[h] = 0
    BY <2>1, <2>3, <2>7, <2>8, <1>a DEF GateShared
  <2> QED BY <2>5, <2>6, <2>8 DEF GateShared
<1>5. ASSUME NEW g \in Emitters, RunBegin(g) PROVE GateShared'
  BY <1>5 DEF RunBegin, GateShared, Shares, gateVars, mounterVars, emitterVars
<1>6. ASSUME NEW g \in Emitters, RunEnd(g) PROVE GateShared'
  BY <1>6 DEF RunEnd, GateShared, Shares, gateVars, mounterVars, emitterVars
<1>7. CASE Locked
  <2>1. /\ UNCHANGED <<readers, stack>> /\ gateGID' = Mounter /\ gateGID = Nobody
        /\ \A g \in Emitting : readers[g] = 0
    BY <1>7 DEF Locked, emitterVars, MounterHolds, Gated, Inside
  <2>2. stack[Mounter] = <<>>
    BY <1>7 DEF Locked, MounterHolds
  <2>3. ASSUME NEW g \in Emitting PROVE Shares(g)'
    <3>1. CASE g = Mounter
      BY <2>1, <2>2, <3>1 DEF Shares
    <3>2. CASE g # Mounter
      BY <2>1, <3>2, EventsAssumption DEF GateShared, Shares
    <3> QED BY <3>1, <3>2
  <2> QED BY <2>1, <2>3 DEF GateShared
<1>8. CASE Disposed
  BY <1>8 DEF Disposed, GateShared, Shares, gateVars, mounterVars, emitterVars
<1>9. CASE Subscribe
  BY <1>9 DEF Subscribe, GateShared, Shares, gateVars, mounterVars, emitterVars
<1>10. CASE ApplyEnd
  BY <1>10 DEF ApplyEnd, GateShared, Shares, gateVars, mounterVars, emitterVars
<1>11. CASE CallEnd
  <2>1. /\ UNCHANGED <<readers, stack>> /\ pc = "apply"
        /\ gateGID' = IF job = "remount" THEN Nobody ELSE gateGID
        /\ writer' = IF job = "remount" THEN Nobody ELSE writer
    BY <1>11 DEF CallEnd, emitterVars
  <2>2. stack[Mounter] = <<>>
    BY <2>1 DEF MounterHolds
  <2>3. job = "remount" => gateGID = Mounter
    BY <2>1 DEF MounterHolds, Gated, Inside
  <2>4. ASSUME NEW g \in Emitting PROVE Shares(g)'
    <3>1. CASE g = Mounter
      <4>1. readers[g] = 0
        BY <2>2, <3>1 DEF GateShared, Shares
      <4> QED BY <2>1, <2>2, <3>1, <4>1 DEF Shares
    <3>2. CASE g # Mounter
      BY <2>1, <2>3, <3>2, EventsAssumption DEF GateShared, Shares
    <3> QED BY <3>1, <3>2
  <2> QED BY <2>1, <2>4 DEF GateShared
<1>12. ASSUME NEW r \in RowIds, DisposeRow(r) PROVE GateShared'
  BY <1>12 DEF DisposeRow, GateShared, Shares, gateVars, mounterVars, emitterVars
<1>13. ASSUME NEW r \in RowIds, ApplyBegin(r) PROVE GateShared'
  BY <1>13 DEF ApplyBegin, GateShared, Shares, gateVars, mounterVars, emitterVars
<1>14. CASE Remount
  BY <1>14 DEF Remount, GateShared, Shares, gateVars, mounterVars, emitterVars
<1>15. CASE Reconcile
  BY <1>15 DEF Reconcile, GateShared, Shares, gateVars, mounterVars, emitterVars
<1>16. CASE Unmount
  BY <1>16 DEF Unmount, GateShared, Shares, gateVars, mounterVars, emitterVars
<1>17. ASSUME NEW x \in leaving, UnmountRow(x) PROVE GateShared'
  BY <1>17 DEF UnmountRow, GateShared, Shares, gateVars, mounterVars, emitterVars
<1>18. CASE Exit
  BY <1>18 DEF Exit, GateShared, Shares, gateVars, mounterVars, emitterVars
<1>19. CASE UNCHANGED vars
  BY <1>19 DEF GateShared, Shares, vars, registry, gateVars, mounterVars, emitterVars, exitVars, counters
<1> QED
  BY <1>1, <1>2, <1>3, <1>4, <1>5, <1>6, <1>7, <1>8, <1>9, <1>10, <1>11, <1>12, <1>13, <1>14, <1>15, <1>16, <1>17, <1>18, <1>19 DEF Next, EmitStep, MountStep, ExitStep

(* The rows that are down are those in the Mounter's hand.                 *)

LEMMA DownStep ==
  ASSUME IInv, [Next]_vars
  PROVE  RowsDown'
<1> Typed /\ MounterHolds /\ RowsDown
  BY DEF IInv
<1>a. /\ mounted \subseteq RowIds /\ current \in RowIds \cup {NoRow}
      /\ down \subseteq RowIds /\ up \subseteq RowIds
  BY DEF Typed
<1>1. ASSUME NEW g \in Emitting, NEW e \in Events, EmitCall(g, e) PROVE RowsDown'
  <2>1. UNCHANGED <<mounted, up, down, pc, current, exit, leaving>>
    BY <1>1 DEF EmitCall, registry, mounterVars, exitVars
  <2> QED BY <2>1 DEF RowsDown
<1>2. ASSUME NEW g \in Emitting, EmitBegin(g) PROVE RowsDown'
  <2>1. UNCHANGED <<mounted, up, down, pc, current, exit, leaving>>
    BY <1>2 DEF EmitBegin, registry, mounterVars, exitVars
  <2> QED BY <2>1 DEF RowsDown
<1>3. ASSUME NEW g \in Emitting, Deliver(g) PROVE RowsDown'
  <2>1. UNCHANGED <<mounted, up, down, pc, current, exit, leaving>>
    BY <1>3 DEF Deliver, registry, mounterVars, exitVars
  <2> QED BY <2>1 DEF RowsDown
<1>4. ASSUME NEW g \in Emitting, EmitReturn(g) PROVE RowsDown'
  <2>1. UNCHANGED <<mounted, up, down, pc, current, exit, leaving>>
    BY <1>4 DEF EmitReturn, registry, mounterVars, exitVars
  <2> QED BY <2>1 DEF RowsDown
<1>5. ASSUME NEW g \in Emitters, RunBegin(g) PROVE RowsDown'
  <2>1. UNCHANGED <<mounted, up, down, pc, current, exit, leaving>>
    BY <1>5 DEF RunBegin, registry, mounterVars, exitVars
  <2> QED BY <2>1 DEF RowsDown
<1>6. ASSUME NEW g \in Emitters, RunEnd(g) PROVE RowsDown'
  <2>1. UNCHANGED <<mounted, up, down, pc, current, exit, leaving>>
    BY <1>6 DEF RunEnd, registry, mounterVars, exitVars
  <2> QED BY <2>1 DEF RowsDown
<1>7. CASE Locked
  BY <1>7, <1>a, EventsAssumption DEF Locked, RowsDown, MounterHolds, Inside, registry, exitVars
<1>8. CASE Disposed
  BY <1>8, <1>a, EventsAssumption DEF Disposed, RowsDown, MounterHolds, Inside, registry, exitVars
<1>9. CASE Subscribe
  BY <1>9, <1>a, EventsAssumption DEF Subscribe, RowsDown, MounterHolds, Inside, registry, exitVars
<1>10. CASE ApplyEnd
  BY <1>10, <1>a, EventsAssumption DEF ApplyEnd, RowsDown, MounterHolds, Inside, registry, exitVars
<1>11. CASE CallEnd
  <2>1. UNCHANGED <<mounted, up, down, current, exit, leaving>>
        /\ pc = "apply" /\ pc' = "idle" /\ up = {}
    BY <1>11 DEF CallEnd, registry, exitVars
  <2> QED BY <2>1 DEF RowsDown
<1>12. ASSUME NEW r \in RowIds, DisposeRow(r) PROVE RowsDown'
  <2>1. /\ UNCHANGED <<up, pc, current, exit, leaving>> /\ r \in down /\ pc = "dispose"
        /\ mounted' = mounted \ {r} /\ down' = down \ {r}
    BY <1>12 DEF DisposeRow, exitVars
  <2> QED BY <2>1, <1>a DEF RowsDown
<1>13. ASSUME NEW r \in RowIds, ApplyBegin(r) PROVE RowsDown'
  <2>1. /\ UNCHANGED <<mounted, down, exit, leaving>> /\ r \in up /\ pc = "apply"
        /\ up' = up \ {r} /\ current' = r /\ pc' = "subscribe" /\ current = NoRow
    BY <1>13 DEF ApplyBegin, exitVars, registry, MounterHolds
  <2> QED BY <2>1, <1>a, EventsAssumption DEF RowsDown
<1>14. CASE Remount
  <2>1. /\ UNCHANGED <<mounted, up, down, current, exit, leaving>>
        /\ pc = "idle" /\ pc' = "lock"
    BY <1>14 DEF Remount, registry, exitVars
  <2> QED BY <2>1 DEF RowsDown
<1>15. CASE Reconcile
  BY <1>15, <1>a, EventsAssumption DEF Reconcile, RowsDown, MounterHolds, Inside, registry, exitVars
<1>16. CASE Unmount
  <2>1. /\ UNCHANGED <<up, down, pc, current>> /\ mounted' = {} /\ exit' = "unmount"
    BY <1>16 DEF Unmount, mounterVars
  <2> QED BY <2>1 DEF RowsDown
<1>17. ASSUME NEW x \in leaving, UnmountRow(x) PROVE RowsDown'
  <2>1. UNCHANGED <<mounted, up, down, pc, current, exit>> /\ exit # "running"
    BY <1>17 DEF UnmountRow, mounterVars
  <2> QED BY <2>1 DEF RowsDown
<1>18. CASE Exit
  <2>1. UNCHANGED <<mounted, up, down, pc, current, leaving>> /\ exit' = "exited"
    BY <1>18 DEF Exit, registry, mounterVars
  <2> QED BY <2>1 DEF RowsDown
<1>19. CASE UNCHANGED vars
  BY <1>19 DEF RowsDown, vars, registry, gateVars, mounterVars, emitterVars, exitVars, counters
<1> QED
  BY <1>1, <1>2, <1>3, <1>4, <1>5, <1>6, <1>7, <1>8, <1>9, <1>10, <1>11, <1>12, <1>13, <1>14, <1>15, <1>16, <1>17, <1>18, <1>19 DEF Next, EmitStep, MountStep, ExitStep

(* Subscribing and unsubscribing.                                          *)

LEMMA OnStep ==
  ASSUME Typed, IdsName, NEW o \in RowIds \cup Emitters, On(o),
         o \in RowIds => current = o,
         \/ UNCHANGED run
         \/ o \in Emitters /\ run' = [run EXCEPT ![o] = nextID]
  PROVE  IdsName'
<1> DEFINE n == [id |-> nextID, owner |-> o]
<1>1. /\ listeners' = listeners \cup {n} /\ nextID' = nextID + 1
      /\ effects' = IF current = NoRow THEN effects
                    ELSE [effects EXCEPT ![current] = @ \cup {nextID}]
  BY DEF On
<1>2. n.id = nextID /\ n.owner = o
  OBVIOUS
<1>3. /\ nextID \in Nat /\ nextID > 0 /\ run \in [Emitters -> Nat]
      /\ effects \in [RowIds -> SUBSET Nat] /\ current \in RowIds \cup {NoRow}
  BY DEF Typed
<1>4. \A l \in listeners : l.id \in Nat /\ l.owner \in RowIds \cup Emitters
  BY DEF Typed, Listener
<1>5. RowIds \cap Emitters = {} /\ NoRow \notin RowIds
  BY EventsAssumption DEF Emitting
<1> HIDE DEF n
<1>6. (\A l \in listeners : l.id < nextID /\ l.id > 0)'
  BY <1>1, <1>2, <1>3, <1>4 DEF IdsName
<1>7. (\A k, l \in listeners : k.id = l.id => k = l)'
  BY <1>1, <1>2, <1>3, <1>4 DEF IdsName
<1>8. (\A g \in Emitters : run[g] < nextID)'
  BY <1>1, <1>3 DEF IdsName
<1>9. (\A g \in Emitters, l \in listeners : l.id = run[g] => l.owner = g)'
  <2>1. ASSUME NEW g \in Emitters, NEW l \in listeners', l.id = run'[g] PROVE l.owner = g
    <3>1. CASE l = n
      BY <1>2, <1>3, <2>1, <3>1 DEF IdsName
    <3>2. CASE l \in listeners
      BY <1>3, <1>4, <2>1, <3>2 DEF IdsName
    <3> QED BY <1>1, <3>1, <3>2
  <2> QED BY <2>1
<1>10. (\A r \in RowIds : \A id \in effects[r] : id < nextID)'
  <2>1. \A r \in RowIds : \A id \in effects[r] : id < nextID /\ id \in Nat
    BY <1>3 DEF IdsName
  <2> QED BY <1>1, <1>3, <2>1
<1>11. (\A l \in listeners : l.owner \in RowIds => l.id \in effects[l.owner])'
  BY <1>1, <1>2, <1>3, <1>5 DEF IdsName
<1>12. (\A l \in listeners, r \in RowIds :
          l.owner \in RowIds /\ l.id \in effects[r] => l.owner = r)'
  <2>1. ASSUME NEW l \in listeners', NEW r \in RowIds,
               l.owner \in RowIds, l.id \in effects'[r]
        PROVE  l.owner = r
    <3>1. l.id # nextID => l.id \in effects[r]
      BY <1>1, <1>3, <2>1
    <3>2. CASE l = n
      <4>1. l.id = nextID /\ l.owner = o
        BY <1>2, <3>2
      <4>2. nextID \notin effects[r]
        BY <1>3 DEF IdsName
      <4> QED BY <1>1, <1>3, <2>1, <4>1, <4>2
    <3>3. CASE l \in listeners
      BY <1>3, <1>4, <2>1, <3>1, <3>3 DEF IdsName
    <3> QED BY <1>1, <3>2, <3>3
  <2> QED BY <2>1
<1> QED BY <1>6, <1>7, <1>8, <1>9, <1>10, <1>11, <1>12 DEF IdsName

LEMMA DisposeStep ==
  ASSUME Typed, IdsName, NEW r \in RowIds, NEW ids, Dispose(r, ids),
         UNCHANGED <<nextID, run>>
  PROVE  IdsName'
<1>1. /\ listeners' = {l \in listeners : l.id \notin ids}
      /\ effects' = [effects EXCEPT ![r] = @ \ ids]
  BY DEF Dispose, Of
<1>2. effects \in [RowIds -> SUBSET Nat]
  BY DEF Typed
<1> QED BY <1>1, <1>2 DEF IdsName

LEMMA IdsStep ==
  ASSUME IInv, [Next]_vars
  PROVE  IdsName'
<1> Typed /\ MounterHolds /\ IdsName
  BY DEF IInv
<1>1. ASSUME NEW g \in Emitting, NEW e \in Events, EmitCall(g, e) PROVE IdsName'
  <2>1. UNCHANGED <<listeners, nextID, effects, run>>
    BY <1>1 DEF EmitCall, registry
  <2> QED BY <2>1 DEF IdsName
<1>2. ASSUME NEW g \in Emitting, EmitBegin(g) PROVE IdsName'
  <2>1. UNCHANGED <<listeners, nextID, effects, run>>
    BY <1>2 DEF EmitBegin, registry
  <2> QED BY <2>1 DEF IdsName
<1>3. ASSUME NEW g \in Emitting, Deliver(g) PROVE IdsName'
  <2>1. UNCHANGED <<listeners, nextID, effects, run>>
    BY <1>3 DEF Deliver, registry
  <2> QED BY <2>1 DEF IdsName
<1>4. ASSUME NEW g \in Emitting, EmitReturn(g) PROVE IdsName'
  <2>1. UNCHANGED <<listeners, nextID, effects, run>>
    BY <1>4 DEF EmitReturn, registry
  <2> QED BY <2>1 DEF IdsName
<1>5. ASSUME NEW g \in Emitters, RunBegin(g) PROVE IdsName'
  <2>1. On(g) /\ run' = [run EXCEPT ![g] = nextID]
    BY <1>5 DEF RunBegin
  <2>2. g \notin RowIds
    BY EventsAssumption DEF Emitting
  <2> QED BY <2>1, <2>2, OnStep
<1>6. ASSUME NEW g \in Emitters, RunEnd(g) PROVE IdsName'
  <2>1. /\ listeners' = {l \in listeners : l.id # run[g]} /\ run' = [run EXCEPT ![g] = 0]
        /\ UNCHANGED <<nextID, effects>>
    BY <1>6 DEF RunEnd, Of
  <2>2. run \in [Emitters -> Nat] /\ nextID \in Nat /\ nextID > 0
    BY DEF Typed
  <2>3. (\A h \in Emitters : run[h] < nextID)'
    BY <2>1, <2>2 DEF IdsName
  <2>4. (\A h \in Emitters, l \in listeners : l.id = run[h] => l.owner = h)'
    BY <2>1, <2>2 DEF IdsName
  <2> QED BY <2>1, <2>3, <2>4 DEF IdsName
<1>7. CASE Locked
  <2>1. UNCHANGED <<listeners, nextID, effects, run>>
    BY <1>7 DEF Locked, registry
  <2> QED BY <2>1 DEF IdsName
<1>8. CASE Disposed
  <2>1. UNCHANGED <<listeners, nextID, effects, run>>
    BY <1>8 DEF Disposed, registry
  <2> QED BY <2>1 DEF IdsName
<1>9. CASE Subscribe
  <2>1. On(current) /\ UNCHANGED run /\ current \in RowIds
    BY <1>9 DEF Subscribe, Typed, MounterHolds
  <2> QED BY <2>1, OnStep
<1>10. CASE ApplyEnd
  <2>1. UNCHANGED <<listeners, nextID, effects, run>>
    BY <1>10 DEF ApplyEnd, registry
  <2> QED BY <2>1 DEF IdsName
<1>11. CASE CallEnd
  <2>1. UNCHANGED <<listeners, nextID, effects, run>>
    BY <1>11 DEF CallEnd, registry
  <2> QED BY <2>1 DEF IdsName
<1>12. ASSUME NEW r \in RowIds, DisposeRow(r) PROVE IdsName'
  <2>1. Dispose(r, effects[r]) /\ UNCHANGED <<nextID, run>>
    BY <1>12 DEF DisposeRow
  <2> QED BY <2>1, DisposeStep
<1>13. ASSUME NEW r \in RowIds, ApplyBegin(r) PROVE IdsName'
  <2>1. UNCHANGED <<listeners, nextID, effects, run>>
    BY <1>13 DEF ApplyBegin, registry
  <2> QED BY <2>1 DEF IdsName
<1>14. CASE Remount
  <2>1. UNCHANGED <<listeners, nextID, effects, run>>
    BY <1>14 DEF Remount, registry
  <2> QED BY <2>1 DEF IdsName
<1>15. CASE Reconcile
  <2>1. UNCHANGED <<listeners, nextID, effects, run>>
    BY <1>15 DEF Reconcile, registry
  <2> QED BY <2>1 DEF IdsName
<1>16. CASE Unmount
  <2>1. UNCHANGED <<listeners, nextID, effects, run>>
    BY <1>16 DEF Unmount, registry
  <2> QED BY <2>1 DEF IdsName
<1>17. ASSUME NEW x \in leaving, UnmountRow(x) PROVE IdsName'
  <2>1. Dispose(x.row, x.ids) /\ UNCHANGED <<nextID, run>> /\ x.row \in RowIds
    BY <1>17 DEF UnmountRow, Typed
  <2> QED BY <2>1, DisposeStep
<1>18. CASE Exit
  <2>1. UNCHANGED <<listeners, nextID, effects, run>>
    BY <1>18 DEF Exit, registry
  <2> QED BY <2>1 DEF IdsName
<1>19. CASE UNCHANGED vars
  BY <1>19 DEF IdsName, vars, registry, gateVars, mounterVars, emitterVars, exitVars, counters
<1> QED
  BY <1>1, <1>2, <1>3, <1>4, <1>5, <1>6, <1>7, <1>8, <1>9, <1>10, <1>11, <1>12, <1>13, <1>14, <1>15, <1>16, <1>17, <1>18, <1>19 DEF Next, EmitStep, MountStep, ExitStep

(* Nobody subscribes or unsubscribes.                                      *)
LEMMA SubscribedKept ==
  ASSUME Subscribed, UNCHANGED <<listeners, nextID, leaving>>,
         Heard' \subseteq Heard, Unheard' \subseteq Unheard
  PROVE  Subscribed'
  BY DEF Subscribed


(* A row that is back has its one listener, a row that is down none.       *)

LEMMA SubscribedStep ==
  ASSUME IInv, [Next]_vars
  PROVE  Subscribed'
<1> Typed /\ MounterHolds /\ RowsDown /\ IdsName /\ Subscribed
  BY DEF IInv
<1>a. Heard \subseteq RowIds /\ Unheard \subseteq RowIds
  BY DEF Typed, MounterHolds, Heard, Unheard
<1>b. nextID \in Nat /\ \A y \in leaving : y.ids \subseteq Nat
  BY DEF Typed
<1>c. mounted \subseteq RowIds
  BY DEF Typed
<1>1. ASSUME NEW g \in Emitting, NEW e \in Events, EmitCall(g, e) PROVE Subscribed'
  <2>1. UNCHANGED <<listeners, nextID, leaving, mounted, pc, current, up, down>>
    BY <1>1 DEF EmitCall, registry, mounterVars, exitVars
  <2>2. UNCHANGED <<Heard, Unheard>>
    BY <2>1 DEF Heard, Unheard
  <2> QED BY <2>1, <2>2, SubscribedKept
<1>2. ASSUME NEW g \in Emitting, EmitBegin(g) PROVE Subscribed'
  <2>1. UNCHANGED <<listeners, nextID, leaving, mounted, pc, current, up, down>>
    BY <1>2 DEF EmitBegin, registry, mounterVars, exitVars
  <2>2. UNCHANGED <<Heard, Unheard>>
    BY <2>1 DEF Heard, Unheard
  <2> QED BY <2>1, <2>2, SubscribedKept
<1>3. ASSUME NEW g \in Emitting, Deliver(g) PROVE Subscribed'
  <2>1. UNCHANGED <<listeners, nextID, leaving, mounted, pc, current, up, down>>
    BY <1>3 DEF Deliver, registry, mounterVars, exitVars
  <2>2. UNCHANGED <<Heard, Unheard>>
    BY <2>1 DEF Heard, Unheard
  <2> QED BY <2>1, <2>2, SubscribedKept
<1>4. ASSUME NEW g \in Emitting, EmitReturn(g) PROVE Subscribed'
  <2>1. UNCHANGED <<listeners, nextID, leaving, mounted, pc, current, up, down>>
    BY <1>4 DEF EmitReturn, registry, mounterVars, exitVars
  <2>2. UNCHANGED <<Heard, Unheard>>
    BY <2>1 DEF Heard, Unheard
  <2> QED BY <2>1, <2>2, SubscribedKept
<1>5. ASSUME NEW g \in Emitters, RunBegin(g) PROVE Subscribed'
  <2> DEFINE n == [id |-> nextID, owner |-> g]
  <2>1. /\ listeners' = listeners \cup {n} /\ nextID' = nextID + 1
        /\ UNCHANGED <<leaving, mounted, pc, current, up, down>>
    BY <1>5 DEF RunBegin, On, mounterVars, exitVars
  <2>2. n.id = nextID /\ n.owner = g /\ g \notin RowIds
    BY EventsAssumption DEF Emitting
  <2> HIDE DEF n
  <2>3. UNCHANGED <<Heard, Unheard>>
    BY <2>1 DEF Heard, Unheard
  <2>4. (\A r \in Heard : \E l \in listeners : l.owner = r)'
    BY <2>1, <2>3 DEF Subscribed
  <2>5. (\A k, l \in listeners : k.owner \in Heard /\ k.owner = l.owner => k = l)'
    BY <2>1, <2>2, <2>3, <1>a DEF Subscribed
  <2>6. (\A l \in listeners : l.owner \notin Unheard)'
    BY <2>1, <2>2, <2>3, <1>a DEF Subscribed
  <2>7. (\A y \in leaving : \A id \in y.ids : id < nextID)'
    <3>1. \A y \in leaving : \A id \in y.ids : id \in Nat /\ id < nextID
      BY <1>b DEF Subscribed
    <3> QED BY <2>1, <3>1, <1>b
  <2>8. (\A y \in leaving, l \in listeners : l.owner \in Heard => l.id \notin y.ids)'
    BY <2>1, <2>2, <2>3, <1>a DEF Subscribed
  <2> QED BY <2>4, <2>5, <2>6, <2>7, <2>8 DEF Subscribed
<1>6. ASSUME NEW g \in Emitters, RunEnd(g) PROVE Subscribed'
  <2>1. /\ listeners' = {l \in listeners : l.id # run[g]}
        /\ UNCHANGED <<nextID, leaving, mounted, pc, current, up, down>>
    BY <1>6 DEF RunEnd, Of, mounterVars, exitVars
  <2>2. UNCHANGED <<Heard, Unheard>>
    BY <2>1 DEF Heard, Unheard
  <2>3. \A l \in listeners : l.owner \in RowIds => l \in listeners'
    BY <2>1, EventsAssumption DEF IdsName, Emitting
  <2>4. (\A r \in Heard : \E l \in listeners : l.owner = r)'
    BY <2>2, <2>3, <1>a DEF Subscribed
  <2> QED BY <2>1, <2>2, <2>4 DEF Subscribed
<1>7. CASE Locked
  <2>1. /\ UNCHANGED <<listeners, nextID, leaving>>
        /\ UNCHANGED <<mounted, current>> /\ up' = down' /\ pc' = "dispose"
    BY <1>7 DEF Locked, exitVars, registry
  <2>2. Heard' \subseteq Heard /\ Unheard' \subseteq Unheard
    BY <2>1 DEF Heard, Unheard, RowsDown
  <2> QED BY <2>1, <2>2, SubscribedKept
<1>8. CASE Disposed
  <2>1. /\ UNCHANGED <<listeners, nextID, leaving>>
        /\ UNCHANGED <<mounted, up, down, current>> /\ pc = "dispose" /\ pc' = "apply"
    BY <1>8 DEF Disposed, exitVars, registry
  <2>2. Heard' \subseteq Heard /\ Unheard' \subseteq Unheard
    BY <2>1 DEF Heard, Unheard, RowsDown
  <2> QED BY <2>1, <2>2, SubscribedKept
<1>9. CASE Subscribe
  <2> DEFINE n == [id |-> nextID, owner |-> current]
  <2>1. /\ listeners' = listeners \cup {n} /\ nextID' = nextID + 1
        /\ UNCHANGED <<leaving, mounted, current, up, down>>
        /\ pc = "subscribe" /\ pc' = "applying"
    BY <1>9 DEF Subscribe, On, exitVars
  <2>2. n.id = nextID /\ n.owner = current
    OBVIOUS
  <2> HIDE DEF n
  <2>3. /\ Heard' = Heard \cup {current} /\ Unheard' \subseteq Unheard
        /\ current \in Unheard /\ current \notin Unheard'
    BY <2>1 DEF Heard, Unheard, RowsDown
  <2>4. (\A r \in Heard : \E l \in listeners : l.owner = r)'
    BY <2>1, <2>2, <2>3 DEF Subscribed
  <2>5. (\A k, l \in listeners : k.owner \in Heard /\ k.owner = l.owner => k = l)'
    BY <2>1, <2>2, <2>3 DEF Subscribed
  <2>6. (\A l \in listeners : l.owner \notin Unheard)'
    BY <2>1, <2>2, <2>3 DEF Subscribed
  <2>7. \A y \in leaving : \A id \in y.ids : id \in Nat /\ id < nextID
    BY <1>b DEF Subscribed
  <2>8. (\A y \in leaving : \A id \in y.ids : id < nextID)'
    BY <2>1, <2>7, <1>b
  <2>9. (\A y \in leaving, l \in listeners : l.owner \in Heard => l.id \notin y.ids)'
    <3>1. \A y \in leaving : nextID \notin y.ids
      BY <2>7, <1>b
    <3> QED BY <2>1, <2>2, <2>3, <3>1 DEF Subscribed
  <2> QED BY <2>4, <2>5, <2>6, <2>8, <2>9 DEF Subscribed
<1>10. CASE ApplyEnd
  <2>1. /\ UNCHANGED <<listeners, nextID, leaving>>
        /\ UNCHANGED <<up, down>> /\ mounted' = mounted \cup {current}
        /\ pc = "applying" /\ pc' = "apply"
    BY <1>10 DEF ApplyEnd, exitVars, registry
  <2>2. Heard' \subseteq Heard /\ Unheard' \subseteq Unheard
    BY <2>1 DEF Heard, Unheard, RowsDown
  <2> QED BY <2>1, <2>2, SubscribedKept
<1>11. CASE CallEnd
  <2>1. /\ UNCHANGED <<listeners, nextID, leaving>>
        /\ UNCHANGED <<mounted, up, down, current>> /\ pc = "apply" /\ pc' = "idle"
    BY <1>11 DEF CallEnd, exitVars, registry
  <2>2. Heard' \subseteq Heard /\ Unheard' \subseteq Unheard
    BY <2>1 DEF Heard, Unheard, RowsDown
  <2> QED BY <2>1, <2>2, SubscribedKept
<1>12. ASSUME NEW r \in RowIds, DisposeRow(r) PROVE Subscribed'
  <2>1. /\ listeners' = {l \in listeners : l.id \notin effects[r]}
        /\ UNCHANGED <<nextID, leaving, pc, current, up>>
        /\ mounted' = mounted \ {r} /\ down' = down \ {r} /\ pc = "dispose"
    BY <1>12 DEF DisposeRow, Dispose, Of, exitVars
  <2>2. Heard' = Heard \ {r} /\ Unheard' \subseteq Unheard \cup {r}
    BY <2>1 DEF Heard, Unheard
  <2>3. \A l \in listeners : l.owner \in Heard' => l \in listeners'
    BY <2>1, <2>2, <1>a DEF IdsName
  <2>4. \A l \in listeners' : l \in listeners /\ l.owner # r
    BY <2>1 DEF IdsName
  <2>5. (\A q \in Heard : \E l \in listeners : l.owner = q)'
    BY <2>2, <2>3 DEF Subscribed
  <2>6. (\A k, l \in listeners : k.owner \in Heard /\ k.owner = l.owner => k = l)'
    BY <2>2, <2>4 DEF Subscribed
  <2>7. (\A l \in listeners : l.owner \notin Unheard)'
    BY <2>2, <2>4 DEF Subscribed
  <2>8. (\A y \in leaving, l \in listeners : l.owner \in Heard => l.id \notin y.ids)'
    BY <2>1, <2>2, <2>4 DEF Subscribed
  <2> QED BY <2>1, <2>5, <2>6, <2>7, <2>8 DEF Subscribed
<1>13. ASSUME NEW r \in RowIds, ApplyBegin(r) PROVE Subscribed'
  <2>1. /\ UNCHANGED <<listeners, nextID, leaving>>
        /\ UNCHANGED <<mounted, down>> /\ up' = up \ {r} /\ r \in up
        /\ current' = r /\ pc = "apply" /\ pc' = "subscribe"
    BY <1>13 DEF ApplyBegin, exitVars, registry
  <2>2. Heard' \subseteq Heard /\ Unheard' \subseteq Unheard
    BY <2>1 DEF Heard, Unheard, RowsDown
  <2> QED BY <2>1, <2>2, SubscribedKept
<1>14. CASE Remount
  <2>1. /\ UNCHANGED <<listeners, nextID, leaving>>
        /\ UNCHANGED <<mounted, up, down, current>> /\ pc = "idle" /\ pc' = "lock"
    BY <1>14 DEF Remount, exitVars, registry
  <2>2. Heard' \subseteq Heard /\ Unheard' \subseteq Unheard
    BY <2>1 DEF Heard, Unheard, RowsDown
  <2> QED BY <2>1, <2>2, SubscribedKept
<1>15. CASE Reconcile
  <2>1. /\ UNCHANGED <<listeners, nextID, leaving>>
        /\ UNCHANGED <<mounted, current>> /\ up' = down' /\ pc' = "dispose"
    BY <1>15 DEF Reconcile, exitVars, registry
  <2>2. Heard' \subseteq Heard /\ Unheard' \subseteq Unheard
    BY <2>1 DEF Heard, Unheard, RowsDown
  <2> QED BY <2>1, <2>2, SubscribedKept
<1>16. CASE Unmount
  <2>1. /\ leaving' = {[row |-> r, ids |-> effects[r]] : r \in mounted}
        /\ mounted' = {} /\ UNCHANGED <<listeners, nextID, pc, current, up, down>>
    BY <1>16 DEF Unmount, mounterVars
  <2>2. Heard' \subseteq Heard \ mounted /\ UNCHANGED Unheard
    BY <2>1 DEF Heard, Unheard, RowsDown
  <2>3. \A y \in leaving' : \E r \in mounted : y.ids = effects[r]
    BY <2>1
  <2>4. (\A y \in leaving : \A id \in y.ids : id < nextID)'
    BY <2>1, <2>3, <1>c DEF IdsName
  <2>5. (\A y \in leaving, l \in listeners : l.owner \in Heard => l.id \notin y.ids)'
    BY <2>1, <2>2, <2>3, <1>a, <1>c DEF IdsName
  <2>6. (\A r \in Heard : \E l \in listeners : l.owner = r)'
    BY <2>1, <2>2 DEF Subscribed
  <2>7. (\A k, l \in listeners : k.owner \in Heard /\ k.owner = l.owner => k = l)'
    BY <2>1, <2>2 DEF Subscribed
  <2>8. (\A l \in listeners : l.owner \notin Unheard)'
    BY <2>1, <2>2 DEF Subscribed
  <2> QED BY <2>4, <2>5, <2>6, <2>7, <2>8 DEF Subscribed
<1>17. ASSUME NEW x \in leaving, UnmountRow(x) PROVE Subscribed'
  <2>1. /\ listeners' = {l \in listeners : l.id \notin x.ids}
        /\ leaving' \subseteq leaving
        /\ UNCHANGED <<nextID, mounted, pc, current, up, down>>
    BY <1>17 DEF UnmountRow, Dispose, Of, mounterVars
  <2>2. UNCHANGED <<Heard, Unheard>>
    BY <2>1 DEF Heard, Unheard
  <2>3. \A l \in listeners : l.owner \in Heard => l \in listeners'
    BY <2>1 DEF Subscribed
  <2>4. (\A r \in Heard : \E l \in listeners : l.owner = r)'
    BY <2>2, <2>3 DEF Subscribed
  <2> QED BY <2>1, <2>2, <2>4 DEF Subscribed
<1>18. CASE Exit
  <2>1. UNCHANGED <<listeners, nextID, leaving, mounted, pc, current, up, down>>
    BY <1>18 DEF Exit, registry, mounterVars, exitVars
  <2>2. UNCHANGED <<Heard, Unheard>>
    BY <2>1 DEF Heard, Unheard
  <2> QED BY <2>1, <2>2, SubscribedKept
<1>19. CASE UNCHANGED vars
  <2>1. UNCHANGED <<listeners, nextID, leaving, mounted, pc, current, up, down>>
    BY <1>19 DEF vars, registry, mounterVars, exitVars
  <2>2. UNCHANGED <<Heard, Unheard>>
    BY <2>1 DEF Heard, Unheard
  <2> QED BY <2>1, <2>2, SubscribedKept
<1> QED
  BY <1>1, <1>2, <1>3, <1>4, <1>5, <1>6, <1>7, <1>8, <1>9, <1>10, <1>11, <1>12, <1>13, <1>14, <1>15, <1>16, <1>17, <1>18, <1>19 DEF Next, EmitStep, MountStep, ExitStep

(* The rows as mounted at the start: each has a number of its own.         *)

LEMMA Numbering ==
  \E n \in [RowIds -> 1 .. Cardinality(RowIds)] :
    \A a, b \in RowIds : n[a] = n[b] => a = b
<1> DEFINE K == 1 .. Cardinality(RowIds)
<1>1. PICK f \in Bijection(K, RowIds) : TRUE
  BY FS_CardinalityType, EventsAssumption DEF ExistsBijection
<1>2. f \in [K -> RowIds] /\ \A r \in RowIds : \E k \in K : f[k] = r
  BY <1>1 DEF Bijection, Surjection
<1> DEFINE n == [r \in RowIds |-> CHOOSE k \in K : f[k] = r]
<1>3. \A r \in RowIds : n[r] \in K /\ f[n[r]] = r
  BY <1>2
<1>4. n \in [RowIds -> K] /\ \A a, b \in RowIds : n[a] = n[b] => a = b
  BY <1>3
<1> QED BY <1>4

LEMMA InitIInv == ASSUME Init PROVE IInv
<1> DEFINE K == 1 .. Cardinality(RowIds)
           number == CHOOSE n \in [RowIds -> K] :
                       \A a, b \in RowIds : n[a] = n[b] => a = b
<1>1. number \in [RowIds -> K] /\ \A a, b \in RowIds : number[a] = number[b] => a = b
  BY Numbering
<1>2. Cardinality(RowIds) \in Nat
  BY FS_CardinalityType, EventsAssumption
<1>3. \A r \in RowIds :
        number[r] \in Nat /\ number[r] > 0 /\ number[r] < Cardinality(RowIds) + 1
  BY <1>1, <1>2
<1>4. /\ listeners = {[id |-> number[r], owner |-> r] : r \in RowIds}
      /\ effects = [r \in RowIds |-> {number[r]}]
      /\ nextID = Cardinality(RowIds) + 1
  BY DEF Init
<1> HIDE DEF number, K
<1>5. \A l \in listeners : l.owner \in RowIds /\ l.id = number[l.owner] /\ l \in Listener
  BY <1>3, <1>4 DEF Listener
<1>6. ASSUME NEW r \in RowIds PROVE \E l \in listeners : l.owner = r
  <2>1. [id |-> number[r], owner |-> r] \in listeners
    BY <1>4
  <2> QED BY <2>1
<1>7. \A k, l \in listeners : k.owner = l.owner => k = l
  BY <1>4
<1>8. /\ mounted = RowIds /\ current = NoRow /\ gateGID = Nobody /\ writer = Nobody
      /\ waiting = Nobody /\ readers = [g \in Emitting |-> 0]
      /\ job = "none" /\ pc = "idle" /\ down = {} /\ up = {}
      /\ stack = [g \in Emitting |-> <<>>] /\ want = [g \in Emitting |-> ""]
      /\ run = [g \in Emitters |-> 0] /\ exit = "running" /\ leaving = {}
  BY DEF Init
<1>9. Typed
  <2>1. nextID \in Nat /\ nextID > 0
    BY <1>2, <1>4
  <2>2. listeners \subseteq Listener
    BY <1>5
  <2>3. effects \in [RowIds -> SUBSET Nat]
    BY <1>3, <1>4
  <2>4. stack \in [Emitting -> Seq(Frame)]
    <3>1. <<>> \in Seq(Frame)
      OBVIOUS
    <3> QED BY <1>8, <3>1
  <2>5. readers \in [Emitting -> Nat] /\ run \in [Emitters -> Nat]
    BY <1>8
  <2>6. want \in [Emitting -> Events \cup {""}]
    BY <1>8
  <2> QED BY <2>1, <2>2, <2>3, <2>4, <2>5, <2>6, <1>8 DEF Typed
<1>10. MounterHolds
  BY <1>8, EventsAssumption DEF MounterHolds, Gated, Inside, Emitting
<1>11. GateShared
  <2>1. ASSUME NEW g \in Emitting
        PROVE  stack[g] = <<>> /\ readers[g] = 0 /\ Len(<<>>) = 0
    BY <1>8
  <2>2. ASSUME NEW g \in Emitting PROVE Shares(g)
    BY <2>1 DEF Shares
  <2> QED BY <2>2, <1>8 DEF GateShared
<1>12. RowsDown
  BY <1>8, EventsAssumption DEF RowsDown
<1>13. IdsName
  <2>1. \A l \in listeners : l.id < nextID /\ l.id > 0
    BY <1>3, <1>4, <1>5
  <2>2. \A k, l \in listeners : k.id = l.id => k = l
    BY <1>1, <1>5, <1>7
  <2>3. \A g \in Emitters : run[g] = 0 /\ run[g] < nextID
    <3>1. \A g \in Emitters : run[g] = 0
      BY <1>8
    <3>2. nextID > 0 /\ nextID \in Nat
      BY <1>2, <1>4
    <3> QED BY <3>1, <3>2
  <2>4. \A g \in Emitters, l \in listeners : l.id = run[g] => l.owner = g
    BY <2>1, <2>3
  <2>5. \A r \in RowIds : \A id \in effects[r] : id < nextID
    BY <1>3, <1>4
  <2>6. \A l \in listeners : l.owner \in RowIds => l.id \in effects[l.owner]
    BY <1>4, <1>5
  <2>7. \A l \in listeners, r \in RowIds :
          l.owner \in RowIds /\ l.id \in effects[r] => l.owner = r
    BY <1>1, <1>4, <1>5
  <2> QED BY <2>1, <2>2, <2>3, <2>4, <2>5, <2>6, <2>7 DEF IdsName
<1>14. Subscribed
  <2>1. Heard = RowIds /\ Unheard = {}
    BY <1>8 DEF Heard, Unheard
  <2> QED BY <1>6, <1>7, <1>8, <2>1 DEF Subscribed
<1> QED BY <1>9, <1>10, <1>11, <1>12, <1>13, <1>14 DEF IInv

LEMMA Inductive ==
  ASSUME IInv, [Next]_vars
  PROVE  IInv'
  BY TypedStep, HoldsStep, SharedStep, DownStep, IdsStep, SubscribedStep DEF IInv

LEMMA Invariant == Spec => []IInv
  BY InitIInv, Inductive, PTL DEF Spec

----------------------------------------------------------------------------
(* The theorems.                                                           *)

(* Every variable has its type, subscription ids are never used twice, and *)
(* emitGate is held by one writer or by readers (Context.On, Emit).        *)
THEOREM TypeCorrect == Spec => []TypeOK
<1>1. ASSUME IInv PROVE TypeOK
  <2>1. Typed
    BY <1>1 DEF IInv
  <2>2. /\ {writer, waiting, gateGID} \subseteq {Mounter, Nobody}
        /\ job \in {"none", "remount", "reconcile"}
        /\ pc \in {"idle", "lock", "dispose", "apply", "subscribe", "applying"}
    BY <1>1 DEF IInv, MounterHolds, Inside
  <2>3. writer # Nobody => \A g \in Emitting : readers[g] = 0
    BY <1>1 DEF IInv, GateShared
  <2>4. \A l \in listeners : l.id < nextID
    BY <1>1 DEF IInv, IdsName
  <2> QED BY <2>1, <2>2, <2>3, <2>4 DEF Typed, TypeOK
<1> QED BY <1>1, Invariant, PTL

(* While a Remount has rows down no Emit of another goroutine is half way  *)
(* through, and a mounted row is subscribed exactly once however often it  *)
(* is remounted, reconciled or unmounted (Context.On, Remount, Unmount).   *)
THEOREM RowsListen == Spec => []ListenersOfRows
<1>1. ASSUME IInv PROVE NoListenerOfDownRow
  <2>1. ASSUME Gated, NEW g \in Emitters PROVE stack[g] = <<>>
    <3>1. writer = Mounter /\ gateGID = Mounter /\ Mounter # Nobody
      BY <1>1, <2>1, EventsAssumption DEF IInv, MounterHolds, Emitting
    <3>2. g \in Emitting /\ g # Mounter
      BY EventsAssumption DEF Emitting
    <3>3. readers[g] = 0 /\ readers[g] = Len(stack[g])
      BY <1>1, <3>1, <3>2 DEF IInv, GateShared, Shares
    <3>4. stack[g] \in Seq(Frame)
      BY <1>1, <3>2 DEF IInv, Typed
    <3> QED BY <3>3, <3>4
  <2>2. job = "remount" /\ pc \notin {"idle", "lock"} => Gated
    BY <1>1 DEF IInv, MounterHolds, Gated
  <2> QED BY <2>1, <2>2 DEF NoListenerOfDownRow
<1>2. ASSUME IInv PROVE OneListenerPerRow
  <2>1. ASSUME NEW r \in mounted PROVE Cardinality({l \in listeners : l.owner = r}) = 1
    <3>1. r \in Heard
      BY DEF Heard
    <3>2. PICK l \in listeners : l.owner = r
      BY <1>2, <3>1 DEF IInv, Subscribed
    <3>3. {k \in listeners : k.owner = r} = {l}
      BY <1>2, <3>1, <3>2 DEF IInv, Subscribed
    <3> QED BY <3>3, FS_Singleton
  <2> QED BY <2>1 DEF OneListenerPerRow
<1> QED BY <1>1, <1>2, Invariant, PTL DEF ListenersOfRows

(* An event that another goroutine emits while a Remount has rows down     *)
(* waits until they are back, so it reaches every row (Emit, emitGate).    *)
THEOREM EmitsReachRows == Spec => RemountDropsNothing
<1> DEFINE A == \A g \in Emitters :
                  /\ Len(stack'[g]) > Len(stack[g])
                  /\ job # "reconcile" /\ exit = "running"
                  => RowIds \subseteq {l.owner : l \in Head(stack'[g]).rest}
<1>1. ASSUME IInv, [Next]_vars, NEW g \in Emitters,
             Len(stack'[g]) > Len(stack[g]), job # "reconcile", exit = "running"
      PROVE  RowIds \subseteq {l.owner : l \in Head(stack'[g]).rest}
  <2>0. /\ stack \in [Emitting -> Seq(Frame)] /\ g \in Emitting /\ g # Mounter
        /\ gateGID # g /\ Len(stack[g]) \in Nat
    <3>1. g \in Emitting /\ g # Mounter /\ g # Nobody
      BY EventsAssumption DEF Emitting
    <3>2. gateGID = Mounter \/ gateGID = Nobody
      BY <1>1 DEF IInv, MounterHolds
    <3>3. stack \in [Emitting -> Seq(Frame)]
      BY <1>1 DEF IInv, Typed
    <3> QED BY <3>1, <3>2, <3>3
  <2>1. EmitBegin(g)
    <3>1. ASSUME UNCHANGED stack PROVE FALSE
      BY <1>1, <2>0, <3>1
    <3>2. ASSUME NEW h \in Emitting, NEW e \in Events, EmitCall(h, e) PROVE FALSE
      <4>1. stack'[g] = stack[g]
        <5>1. CASE h = g
          BY <2>0, <3>2, <5>1 DEF EmitCall, Emit
        <5>2. CASE h # g
          BY <2>0, <3>2, <5>2 DEF EmitCall, Emit, Snapshot
        <5> QED BY <5>1, <5>2
      <4> QED BY <1>1, <2>0, <4>1
    <3>3. ASSUME NEW h \in Emitting, Deliver(h) PROVE FALSE
      <4>1. PICK l \in Head(stack[h]).rest :
              \/ gateGID = h /\ \E f : stack' = [stack EXCEPT ![h] = f]
              \/ stack' = [stack EXCEPT ![h] = [stack[h] EXCEPT ![1].rest = @ \ {l}]]
        BY <3>3 DEF Deliver
      <4>2. stack[h] # <<>> /\ stack[h] \in Seq(Frame)
        BY <2>0, <3>3 DEF Deliver
      <4>3. Len([stack[h] EXCEPT ![1].rest = @ \ {l}]) = Len(stack[h])
        BY <4>2, Used
      <4>4. Len(stack'[g]) = Len(stack[g])
        <5> DEFINE heard == [stack[h] EXCEPT ![1].rest = @ \ {l}]
        <5>1. \/ gateGID = h /\ \E f : stack' = [stack EXCEPT ![h] = f]
              \/ stack' = [stack EXCEPT ![h] = heard]
          BY <4>1
        <5>2. Len(heard) = Len(stack[h])
          BY <4>3
        <5> HIDE DEF heard
        <5> QED BY <2>0, <5>1, <5>2
      <4> QED BY <1>1, <2>0, <4>4
    <3>4. ASSUME NEW h \in Emitting, EmitReturn(h) PROVE FALSE
      <4>1. /\ stack' = [stack EXCEPT ![h] = Tail(@)]
            /\ stack[h] # <<>> /\ stack[h] \in Seq(Frame)
        BY <2>0, <3>4 DEF EmitReturn
      <4>2. Len(Tail(stack[h])) = Len(stack[h]) - 1
        BY <4>1, Popped
      <4> QED BY <1>1, <2>0, <4>1, <4>2
    <3>5. ASSUME NEW h \in Emitting, h # g, EmitBegin(h) PROVE FALSE
      <4>1. stack'[g] = stack[g]
        BY <2>0, <3>5 DEF EmitBegin, Snapshot
      <4> QED BY <1>1, <2>0, <4>1
    <3>6. \/ UNCHANGED stack \/ EmitBegin(g)
          \/ \E h \in Emitting : \/ \E e \in Events : EmitCall(h, e)
                                 \/ Deliver(h) \/ EmitReturn(h) \/ (h # g /\ EmitBegin(h))
      <4>1. CASE UNCHANGED vars
        BY <4>1 DEF vars, emitterVars
      <4>2. CASE \E h \in Emitters : RunBegin(h) \/ RunEnd(h)
        BY <4>2 DEF RunBegin, RunEnd, emitterVars
      <4>3. CASE MountStep \/ Remount \/ Reconcile
        BY <4>3 DEF MountStep, Remount, Reconcile, Locked, Disposed, Subscribe, ApplyEnd,
                    CallEnd, DisposeRow, ApplyBegin, emitterVars
      <4>4. CASE ExitStep \/ Unmount
        BY <4>4 DEF ExitStep, Exit, UnmountRow, Unmount, emitterVars
      <4> QED BY <1>1, <4>1, <4>2, <4>3, <4>4 DEF Next, EmitStep
    <3> QED BY <3>1, <3>2, <3>3, <3>4, <3>5, <3>6
  <2>2. Head(stack'[g]).rest = listeners
    <3> DEFINE f == [event |-> want[g], rest |-> listeners, locked |-> TRUE]
    <3>1. stack' = [stack EXCEPT ![g] = <<f>> \o stack[g]]
      BY <2>1 DEF EmitBegin, Snapshot
    <3>2. f \in Frame /\ f.rest = listeners
      BY <1>1, <2>0, <2>1 DEF IInv, EmitBegin, Typed, Frame
    <3> HIDE DEF f
    <3> QED BY <2>0, <3>1, <3>2, Pushed
  <2>3. writer = Nobody /\ waiting = Nobody
    BY <2>1 DEF EmitBegin
  <2>4. pc = "idle" /\ current = NoRow
    BY <1>1, <2>3, EventsAssumption DEF IInv, MounterHolds, Gated, Inside, Emitting
  <2>5. RowIds \subseteq mounted
    BY <1>1, <2>4, EventsAssumption DEF IInv, RowsDown
  <2>6. \A r \in RowIds : \E l \in listeners : l.owner = r
    BY <1>1, <2>5 DEF IInv, Subscribed, Heard
  <2> QED BY <2>2, <2>6
<1>2. IInv /\ [Next]_vars => [A]_vars
  BY <1>1
<1>3. Spec => [][A]_vars
  BY <1>2, Invariant, PTL DEF Spec
<1> QED BY <1>3 DEF RemountDropsNothing

=============================================================================
