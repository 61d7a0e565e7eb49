---------------------------- MODULE KernelEvents ----------------------------
(***************************************************************************)
(* The event half of the kernel's Context (go/kernel): On, Effect, Emit,   *)
(* the gate a Remount holds the emits with, and the exit's Unmount.        *)
(*                                                                         *)
(* Three kinds of goroutine meet here. The Mounter runs Remounts and       *)
(* Reconciles (what they decide is module Kernel's: here a call takes down *)
(* some rows and brings them back). Emitters are the turn's goroutines:    *)
(* they emit, and subscribe while they wait for a turn (runner.Run). Main  *)
(* unmounts the tree and ends the process. Every row subscribes one        *)
(* listener in its Apply; the listeners of the rows in Echo emit an event  *)
(* of their own when they hear "done" (the activity row does).             *)
(*                                                                         *)
(* emitGate is Go's sync.RWMutex, modelled from its contract: a reader     *)
(* waits while a writer holds the lock or waits for it.                    *)
(***************************************************************************)
EXTENDS Integers, Sequences, FiniteSets

CONSTANTS
  Emitters,   \* goroutines that emit and subscribe
  Mounter,    \* the goroutine that remounts and reconciles
  RowIds,     \* rows of the mounted tree
  Echo,       \* rows whose listener emits when it hears "done"
  MaxEmits,   \* bound: outermost Emit calls in a behaviour
  MaxCalls,   \* bound: Remounts and Reconciles in a behaviour
  MaxRuns,    \* bound: runner.Run calls in a behaviour
  NoRow,      \* no row
  Nobody      \* no goroutine

Emitting == Emitters \cup {Mounter}
Events == {"done", "note"}

\* A subscription: id is the key in c.listeners, owner the row or the
\* goroutine whose code called On.
Listener == [id : Nat, owner : RowIds \cup Emitters]

\* One Emit in progress: the listeners it has still to call, and whether it
\* took the gate.
Frame == [event : Events, rest : SUBSET Listener, locked : BOOLEAN]

ASSUME EventsAssumption ==
  /\ IsFiniteSet(RowIds) /\ Echo \subseteq RowIds
  /\ RowIds \cap Emitting = {}
  /\ Mounter \notin Emitters
  /\ NoRow \notin RowIds /\ Nobody \notin Emitting
  /\ MaxEmits \in Nat /\ MaxCalls \in Nat /\ MaxRuns \in Nat

VARIABLES
  listeners,  \* c.listeners
  nextID,     \* c.nextID
  mounted,    \* c.rows
  effects,    \* per row: the subscriptions its disposers end
  current,    \* c.current: the row being applied, NoRow for none
  writer,     \* emitGate: who holds it for writing
  waiting,    \* emitGate: who waits to write
  readers,    \* emitGate: read locks held, per goroutine
  gateGID,    \* c.gateGID
  job,        \* the Mounter's call: "none", "remount" or "reconcile"
  pc,         \* where the Mounter is
  down,       \* rows the call still has to take down
  up,         \* rows it still has to bring back
  stack,      \* per goroutine: its Emits in progress, innermost first
  want,       \* per goroutine: the event of an Emit at the gate, "" for none
  run,        \* per Emitter: the subscription of its runner.Run, 0 for none
  exit,       \* the process: "running", "unmount" or "exited"
  leaving,    \* the disposers, row by row, that Unmount has still to run
  emits, calls, runs  \* how much of each bound is used

registry == <<listeners, nextID, mounted, effects>>
gateVars == <<writer, waiting, readers, gateGID>>
mounterVars == <<job, pc, down, up, current>>
emitterVars == <<stack, want>>
exitVars == <<exit, leaving>>
counters == <<emits, calls, runs>>
vars == <<registry, gateVars, mounterVars, emitterVars, run, exitVars, counters>>

Of(ids) == {l \in listeners : l.id \in ids}

\* What one Apply per row has left behind: a subscription and its disposer.
Init ==
  LET number == CHOOSE n \in [RowIds -> 1..Cardinality(RowIds)] :
                  \A a, b \in RowIds : n[a] = n[b] => a = b
  IN
    /\ listeners = {[id |-> number[r], owner |-> r] : r \in RowIds}
    /\ effects = [r \in RowIds |-> {number[r]}]
    /\ nextID = Cardinality(RowIds) + 1
    /\ mounted = RowIds
    /\ current = NoRow
    /\ writer = Nobody /\ waiting = Nobody /\ gateGID = Nobody
    /\ readers = [g \in Emitting |-> 0]
    /\ job = "none" /\ pc = "idle" /\ down = {} /\ up = {}
    /\ stack = [g \in Emitting |-> <<>>]
    /\ want = [g \in Emitting |-> ""]
    /\ run = [g \in Emitters |-> 0]
    /\ exit = "running" /\ leaving = {}
    /\ emits = 0 /\ calls = 0 /\ runs = 0

Alive == exit # "exited"

-----------------------------------------------------------------------------
(* On and its disposer.                                                    *)

\* Slip: the id is not used up.
OnReusingId(owner) ==
  /\ listeners' = listeners \cup {[id |-> nextID, owner |-> owner]}
  /\ effects' = IF current = NoRow THEN effects
                ELSE [effects EXCEPT ![current] = @ \cup {nextID}]
  /\ UNCHANGED nextID

\* On, called by owner's code: whoever calls, the disposer is handed to the
\* row being applied.
On(owner) ==
  /\ listeners' = listeners \cup {[id |-> nextID, owner |-> owner]}
  /\ nextID' = nextID + 1
  /\ effects' = IF current = NoRow THEN effects
                ELSE [effects EXCEPT ![current] = @ \cup {nextID}]

\* disposeRow and Unmount run disposers of a row: the subscriptions end.
Dispose(r, ids) ==
  /\ listeners' = listeners \ Of(ids)
  /\ effects' = [effects EXCEPT ![r] = @ \ ids]

-----------------------------------------------------------------------------
(* Emit.                                                                   *)

CanEmit(g) == g = Mounter => pc = "applying"

\* Emit is called: on the remounting goroutine it goes right ahead...
Snapshot(g, event, locked) ==
  stack' = [stack EXCEPT ![g] =
              <<[event |-> event, rest |-> listeners, locked |-> locked]>> \o @]

\* Slips: no gate at all, or a gate for the remounting goroutine as well.
EmitUngated(g, event) == Snapshot(g, event, FALSE) /\ UNCHANGED want
EmitGated(g, event) == want' = [want EXCEPT ![g] = event] /\ UNCHANGED stack

Emit(g, event) ==
  IF gateGID = g
    THEN Snapshot(g, event, FALSE) /\ UNCHANGED want
    ELSE want' = [want EXCEPT ![g] = event] /\ UNCHANGED stack

EmitCall(g, event) ==
  /\ Alive /\ stack[g] = <<>> /\ want[g] = "" /\ CanEmit(g)
  /\ emits < MaxEmits /\ emits' = emits + 1
  /\ Emit(g, event)
  /\ UNCHANGED <<registry, gateVars, mounterVars, run, exitVars, calls, runs>>

\* ...and on any other it takes the gate for reading first. The listeners
\* are copied under the mutex and called without it.
EmitBegin(g) ==
  /\ Alive /\ want[g] # "" /\ writer = Nobody /\ waiting = Nobody
  /\ readers' = [readers EXCEPT ![g] = @ + 1]
  /\ Snapshot(g, want[g], TRUE)
  /\ want' = [want EXCEPT ![g] = ""]
  /\ UNCHANGED <<registry, writer, waiting, gateGID, mounterVars, run,
                 exitVars, counters>>

\* The next listener, in map order (any), runs on the emitting goroutine: a
\* runner.Run that waits hears its turn's "done", an Echo row emits.
Deliver(g) ==
  /\ Alive /\ stack[g] # <<>> /\ want[g] = ""
  /\ \E l \in Head(stack[g]).rest :
       LET heard == [stack[g] EXCEPT ![1].rest = @ \ {l}]
       IN IF l.owner \in Echo /\ Head(stack[g]).event = "done"
            THEN IF gateGID = g
                   THEN /\ stack' = [stack EXCEPT ![g] =
                              <<[event |-> "note", rest |-> listeners,
                                 locked |-> FALSE]>> \o heard]
                        /\ UNCHANGED want
                   ELSE /\ stack' = [stack EXCEPT ![g] = heard]
                        /\ want' = [want EXCEPT ![g] = "note"]
            ELSE stack' = [stack EXCEPT ![g] = heard] /\ UNCHANGED want
  /\ UNCHANGED <<registry, gateVars, mounterVars, run, exitVars, counters>>

EmitReturn(g) ==
  /\ Alive /\ stack[g] # <<>> /\ want[g] = "" /\ Head(stack[g]).rest = {}
  /\ readers' = [readers EXCEPT ![g] = IF Head(stack[g]).locked THEN @ - 1 ELSE @]
  /\ stack' = [stack EXCEPT ![g] = Tail(@)]
  /\ UNCHANGED <<registry, writer, waiting, gateGID, mounterVars, want, run,
                 exitVars, counters>>

-----------------------------------------------------------------------------
(* runner.Run: subscribe, wait for the turn's "done", unsubscribe.         *)

RunBegin(g) ==
  /\ Alive /\ stack[g] = <<>> /\ want[g] = "" /\ run[g] = 0
  /\ runs < MaxRuns /\ runs' = runs + 1
  /\ On(g)
  /\ run' = [run EXCEPT ![g] = nextID]
  /\ UNCHANGED <<mounted, gateVars, mounterVars, emitterVars, exitVars, emits, calls>>

\* The turn is done or its context is: either way Run unsubscribes.
RunEnd(g) ==
  /\ Alive /\ stack[g] = <<>> /\ want[g] = "" /\ run[g] # 0
  /\ listeners' = listeners \ Of({run[g]})
  /\ run' = [run EXCEPT ![g] = 0]
  /\ UNCHANGED <<nextID, mounted, effects, gateVars, mounterVars, emitterVars,
                 exitVars, counters>>

-----------------------------------------------------------------------------
(* Remount and Reconcile, as far as the events see them.                   *)

\* A Remount waits for the gate; a Reconcile does not take it.
Remount ==
  /\ Alive /\ pc = "idle" /\ calls < MaxCalls /\ calls' = calls + 1
  /\ job' = "remount" /\ pc' = "lock" /\ waiting' = Mounter
  /\ UNCHANGED <<registry, writer, readers, gateGID, down, up, current,
                 emitterVars, run, exitVars, emits, runs>>

Locked ==
  /\ Alive /\ pc = "lock" /\ writer = Nobody /\ \A g \in Emitting : readers[g] = 0
  /\ writer' = Mounter /\ waiting' = Nobody /\ gateGID' = Mounter
  /\ \E S \in SUBSET mounted : S # {} /\ down' = S /\ up' = S
  /\ pc' = "dispose"
  /\ UNCHANGED <<registry, readers, job, current, emitterVars, run, exitVars, counters>>

Reconcile ==
  /\ Alive /\ pc = "idle" /\ calls < MaxCalls /\ calls' = calls + 1
  /\ job' = "reconcile" /\ pc' = "dispose"
  /\ \E S \in SUBSET mounted : S # {} /\ down' = S /\ up' = S
  /\ UNCHANGED <<registry, gateVars, current, emitterVars, run, exitVars, emits, runs>>

\* disposeRow runs the disposers, then drops the row from c.rows.
DisposeRow(r) ==
  /\ Alive /\ pc = "dispose" /\ r \in down
  /\ Dispose(r, effects[r])
  /\ mounted' = mounted \ {r}
  /\ down' = down \ {r}
  /\ UNCHANGED <<nextID, gateVars, job, pc, up, current, emitterVars, run,
                 exitVars, counters>>

Disposed ==
  /\ Alive /\ pc = "dispose" /\ down = {}
  /\ pc' = "apply"
  /\ UNCHANGED <<registry, gateVars, job, down, up, current, emitterVars, run,
                 exitVars, counters>>

\* applyRow: the row is current while its Apply runs on the Mounter, which
\* subscribes its listener and may emit (a hook that has something to say).
ApplyBegin(r) ==
  /\ Alive /\ pc = "apply" /\ r \in up
  /\ current' = r /\ pc' = "subscribe" /\ up' = up \ {r}
  /\ UNCHANGED <<registry, gateVars, job, down, emitterVars, run, exitVars, counters>>

Subscribe ==
  /\ Alive /\ pc = "subscribe"
  /\ On(current)
  /\ pc' = "applying"
  /\ UNCHANGED <<mounted, gateVars, job, down, up, current, emitterVars, run,
                 exitVars, counters>>

ApplyEnd ==
  /\ Alive /\ pc = "applying" /\ stack[Mounter] = <<>> /\ want[Mounter] = ""
  /\ mounted' = mounted \cup {current}
  /\ current' = NoRow /\ pc' = "apply"
  /\ UNCHANGED <<listeners, nextID, effects, gateVars, job, down, up,
                 emitterVars, run, exitVars, counters>>

\* The call returns; a Remount lets the emits go.
CallEnd ==
  /\ Alive /\ pc = "apply" /\ up = {}
  /\ gateGID' = IF job = "remount" THEN Nobody ELSE gateGID
  /\ writer' = IF job = "remount" THEN Nobody ELSE writer
  /\ job' = "none" /\ pc' = "idle"
  /\ UNCHANGED <<registry, waiting, readers, down, up, current, emitterVars,
                 run, exitVars, counters>>

-----------------------------------------------------------------------------
(* The exit: main unmounts the tree while the other goroutines still run.  *)

Unmount ==
  /\ exit = "running" /\ exit' = "unmount"
  /\ leaving' = {[row |-> r, ids |-> effects[r]] : r \in mounted}
  /\ mounted' = {}
  /\ UNCHANGED <<listeners, nextID, effects, gateVars, mounterVars,
                 emitterVars, run, counters>>

UnmountRow(x) ==
  /\ exit = "unmount" /\ x \in leaving
  /\ Dispose(x.row, x.ids)
  /\ leaving' = leaving \ {x}
  /\ UNCHANGED <<nextID, mounted, gateVars, mounterVars, emitterVars, run,
                 exit, counters>>

Exit ==
  /\ exit = "unmount" /\ leaving = {}
  /\ exit' = "exited"
  /\ UNCHANGED <<registry, gateVars, mounterVars, emitterVars, run, leaving, counters>>

-----------------------------------------------------------------------------
EmitStep(g) == EmitBegin(g) \/ Deliver(g) \/ EmitReturn(g)

MountStep ==
  \/ Locked \/ Disposed \/ Subscribe \/ ApplyEnd \/ CallEnd
  \/ \E r \in RowIds : DisposeRow(r) \/ ApplyBegin(r)

ExitStep == Exit \/ \E x \in leaving : UnmountRow(x)

Next ==
  \/ \E g \in Emitting : EmitStep(g) \/ \E e \in Events : EmitCall(g, e)
  \/ \E g \in Emitters : RunBegin(g) \/ RunEnd(g)
  \/ MountStep \/ Remount \/ Reconcile
  \/ ExitStep \/ Unmount

\* What has been called goes on: the scheduler starves no goroutine, and a
\* waiting writer gets the gate once the readers it found have left.
Fairness ==
  /\ \A g \in Emitting : WF_vars(EmitStep(g))
  /\ WF_vars(MountStep) /\ WF_vars(ExitStep)

Spec == Init /\ [][Next]_vars /\ Fairness
-----------------------------------------------------------------------------
(* Properties.                                                             *)

\* Every variable has its type, ids are never reused, and the gate is held
\* by one writer or by readers.
TypeOK ==
  /\ listeners \subseteq Listener /\ nextID \in Nat
  /\ \A l \in listeners : l.id < nextID
  /\ mounted \subseteq RowIds /\ effects \in [RowIds -> SUBSET Nat]
  /\ current \in RowIds \cup {NoRow}
  /\ {writer, waiting, gateGID} \subseteq {Mounter, Nobody}
  /\ readers \in [Emitting -> Nat]
  /\ writer # Nobody => \A g \in Emitting : readers[g] = 0
  /\ job \in {"none", "remount", "reconcile"}
  /\ pc \in {"idle", "lock", "dispose", "apply", "subscribe", "applying"}
  /\ down \subseteq RowIds /\ up \subseteq RowIds
  /\ stack \in [Emitting -> Seq(Frame)] /\ want \in [Emitting -> Events \cup {""}]
  /\ run \in [Emitters -> Nat]
  /\ exit \in {"running", "unmount", "exited"} 
  /\ leaving \subseteq [row : RowIds, ids : SUBSET Nat]

\* "Hold emits until the forced row and its dependents are back": an event
\* emitted while a Remount has rows down, by whichever goroutine but the
\* remounting one, reaches every row of the tree.
RemountDropsNothing ==
  [][\A g \in Emitters :
       /\ Len(stack'[g]) > Len(stack[g])
       /\ job # "reconcile" /\ exit = "running"
       => RowIds \subseteq {l.owner : l \in Head(stack'[g]).rest}]_vars

\* A remounted row's listener is never called between its disposal and its
\* next Apply: no Emit of another goroutine is half way through.
NoListenerOfDownRow ==
  job = "remount" /\ pc \notin {"idle", "lock"} =>
    \A g \in Emitters : stack[g] = <<>>

\* A mounted row is subscribed exactly once however often it is remounted:
\* a second listener would hear, and show, every event twice.
OneListenerPerRow ==
  \A r \in mounted : Cardinality({l \in listeners : l.owner = r}) = 1

\* Both: the listeners are those of the mounted rows, one of each.
ListenersOfRows == NoListenerOfDownRow /\ OneListenerPerRow

\* Emit is fire-and-forget: it returns, and so do Remount and Reconcile.
EmitsReturn ==
  \A g \in Emitting :
    stack[g] # <<>> \/ want[g] # "" ~> (stack[g] = <<>> /\ want[g] = "") \/ ~Alive
CallsReturn == pc # "idle" ~> pc = "idle" \/ ~Alive

\* Nobody waits for ever on the gate, whoever holds it.
NobodyStuck == EmitsReturn /\ CallsReturn
=============================================================================
