------------------------------- MODULE Kernel -------------------------------
(***************************************************************************)
(* The plugin kernel (go/kernel): a tree of rows, each mounted by running  *)
(* its plugin's Apply, wired to one another only through service keys.     *)
(* Mount boots the tree, Reconcile moves it to a new row set, Remount      *)
(* re-runs one row; all three end in settle, which mounts what can be      *)
(* mounted and reloads the rows whose providers changed under them.        *)
(*                                                                         *)
(* One step of this module is one critical section of Context.mu, or one   *)
(* stretch of code that touches only the caller's locals; the lookups of a *)
(* row's Inject() keys and of everything its Apply reads are one step each.*)
(* A Mounter is a goroutine that calls into the kernel: once the tree has  *)
(* booted nothing in the code keeps two of them apart (the config watcher  *)
(* and the "config-set" seam both call Reconcile), so their steps          *)
(* interleave.                                                             *)
(***************************************************************************)
EXTENDS Integers, FiniteSets

CONSTANTS
  Mounters,  \* goroutines that call Mount, Reconcile or Remount
  Keys,      \* service keys
  RowIds,    \* row ids of the config tree
  Plugins,   \* plugin names registered in the catalogue
  Configs,   \* values of a row's config map
  Inject,    \* [Plugins -> SUBSET Keys], what Inject() returns
  Optional,  \* [Plugins -> SUBSET Keys], further keys Apply looks up with Get
  Offers,    \* [Plugins -> SUBSET Keys], keys Apply provides
  MayFail,   \* plugins whose Apply may return an error
  CtxKeys,   \* keys provided on the bare context before the mount
  Trees,     \* the row sets a config file may hold
  PassCap,   \* settle's cap on passes (16 in the code)
  MaxCalls,  \* bound: calls of Mount, Reconcile and Remount in a behaviour
  NoState,   \* no rowState
  Ctx,       \* stands for the empty row id: a key provided at context level
  Nobody     \* no goroutine

Row == [id : RowIds, plugin : Plugins, cfg : Configs,
        disabled : BOOLEAN, pos : Nat]

\* What the kernel keeps of a row between its Apply and its disposal. got
\* is the plugin's: the values the services had when Apply looked them up.
RowState == [row : Row, inst : Nat, provides : SUBSET Keys,
             observed : SUBSET Keys, wants : SUBSET Keys,
             got : [Keys -> Nat], mountSeq : Nat]

ASSUME KernelAssumption ==
  /\ Inject \in [Plugins -> SUBSET Keys]
  /\ Optional \in [Plugins -> SUBSET Keys]
  /\ Offers \in [Plugins -> SUBSET Keys]
  /\ MayFail \subseteq Plugins
  /\ CtxKeys \subseteq Keys
  /\ Trees \subseteq SUBSET Row
  /\ \A t \in Trees : \A a, b \in t : a.id = b.id => a = b
  /\ PassCap \in Nat \ {0}
  /\ MaxCalls \in Nat
  /\ Ctx \notin RowIds
  /\ Mounters # {}
  /\ Nobody \notin Mounters
  /\ NoState \notin RowState

VARIABLES
  desired,     \* c.desired, the last row set given; pos is the config order
  rows,        \* c.rows, the mounted rowStates; mountSeq is the mount order
  failed,      \* c.failed, the rows whose Apply errored, as they were then
  services,    \* c.services: key -> the Apply that provided the value in it
  providerOf,  \* c.providerOf: key -> row id, Ctx when deleted or at context level
  touches,     \* c.touches: key -> sequence of its latest Provide, 0 for never
  seq,         \* c.seq
  applier,     \* c.current and c.applyGID: the goroutine calls are attributed to
  gate,        \* c.emitGate: the goroutine that holds it for a Remount
  insts,       \* Apply runs so far: names the service values
  calls,       \* calls of Mount, Reconcile and Remount so far
  erred,       \* whether an Apply has failed so far (read by properties only)
  pc,          \* per goroutine: where it is in the kernel
  boot,        \* per goroutine: in Mount's strict loop, in the settle after it, or not
  force,       \* per goroutine: Remount's row, Ctx for none
  goal,        \* per goroutine: the row set Remount read before it got the gate
  doomed,      \* per goroutine: rowStates it is about to dispose of
  todo,        \* per goroutine: rows left of its pendingDesired snapshot
  st,          \* per goroutine: the rowState of the Apply it runs
  unprovided,  \* per goroutine: keys that Apply has not provided yet
  mountedAny,  \* per goroutine: settle's mountedAny
  progressed,  \* per goroutine: settle's progressed
  remounted,   \* per goroutine: settle's remounted
  pass         \* per goroutine: settle's pass

tree == <<desired, rows, failed>>
wiring == <<services, providerOf, touches, seq>>
locals == <<boot, force, goal, doomed, todo, st, unprovided,
            mountedAny, progressed, remounted, pass>>
vars == <<tree, wiring, applier, gate, insts, calls, erred, pc, locals>>

-----------------------------------------------------------------------------
(* A service value is named by the Apply run that provided it.             *)
Absent == 0
CtxInst == 1

BootPhases == {"no", "strict", "settle"}

PCs == {"idle", "gate", "drop", "scan", "visit", "get", "provide",
        "undo", "fail", "stale", "reload", "dead"}

ActiveIds == {r.row.id : r \in rows}
FailedIds == {r.id : r \in failed}

\* missing: the Inject() keys of p that no service is registered under.
Missing(p) == {k \in Inject[p] : services[k] = Absent}

\* Slip: a settle that mounts a row twice.
PendingDesiredAndActive == {r \in desired : ~r.disabled /\ r.id \notin FailedIds}

\* Slip: a settle that tries a failed row again.
PendingDesiredAndFailed == {r \in desired : ~r.disabled /\ r.id \notin ActiveIds}

\* pendingDesired: enabled, neither mounted nor failed.
PendingDesired ==
  {r \in desired : ~r.disabled /\ r.id \notin ActiveIds \cup FailedIds}

\* r is the first row of a snapshot in config order.
IsFirst(r, S) == \A q \in S : r.pos <= q.pos

\* r is the last mounted of some rowStates: disposals run in reverse order.
IsLast(r, S) == \A q \in S : q.mountSeq <= r.mountSeq

SameSpec(a, b) == a.plugin = b.plugin /\ a.cfg = b.cfg

\* The keys a rowState is watched on: declared, hit and missed.
Watched(r) == Inject[r.row.plugin] \cup r.observed \cup r.wants

\* Slip: a key that was missed and has landed since does not count.
StaleButForWants(r) ==
  \E k \in Inject[r.row.plugin] \cup r.observed :
    touches[k] > r.mountSeq /\ providerOf[k] # r.row.id

\* staleLocked: a watched key was provided, by another row, after the mount.
Stale(r) ==
  \E k \in Watched(r) : touches[k] > r.mountSeq /\ providerOf[k] # r.row.id

\* Slip: no memory of what this settle has reloaded.
StaleRowsAgain(done) == {r \in rows : Stale(r)}

\* The stale rows that this settle has not reloaded yet.
StaleRows(done) == {r \in rows : r.row.id \notin done /\ Stale(r)}

\* The rowStates a candidate removes, disables, changes or forces...
Changed(new, f) ==
  {r \in rows :
     \/ r.row.id = f
     \/ \A n \in new : n.id = r.row.id => n.disabled \/ ~SameSpec(n, r.row)}

\* ...and with them, transitively, whoever injects or observed their keys.
Depends(a, b) == (Inject[a.row.plugin] \cup a.observed) \cap b.provides # {}
Closed(D) == \A a \in rows, d \in D : Depends(a, d) => a \in D
DropSet(new, f) ==
  {r \in rows : \A D \in SUBSET rows :
                  Changed(new, f) \subseteq D /\ Closed(D) => r \in D}

\* Slips: the keys outlive the row, or go though another row provides them.
DisposeRowOnly(r) == rows' = rows \ {r} /\ UNCHANGED wiring
DisposeRowAndKeys(r) ==
  /\ rows' = rows \ {r}
  /\ services' = [k \in Keys |-> IF k \in r.provides THEN Absent ELSE services[k]]
  /\ providerOf' = [k \in Keys |-> IF k \in r.provides THEN Ctx ELSE providerOf[k]]
  /\ UNCHANGED <<touches, seq>>

\* disposeRow's bookkeeping: r leaves the tree and the keys that no other
\* mounted row provides go with it.
DisposeRow(r) ==
  LET rest == rows \ {r}
      gone == {k \in r.provides : \A q \in rest : k \notin q.provides}
  IN /\ rows' = rest
     /\ services' = [k \in Keys |-> IF k \in gone THEN Absent ELSE services[k]]
     /\ providerOf' = [k \in Keys |-> IF k \in gone THEN Ctx ELSE providerOf[k]]
     /\ UNCHANGED <<touches, seq>>

\* c.seq++, and the slip that leaves it out.
NoTick == UNCHANGED seq
Tick == seq' = seq + 1

\* The deferred release of the emit gate, and the slip that forgets it.
KeepGate(m) == UNCHANGED gate
ReleaseGate(m) == gate' = IF gate = m THEN Nobody ELSE gate

Goto(m, l) == pc' = [pc EXCEPT ![m] = l]

\* settle starts over: first pass, nothing reloaded yet.
BeginSettle(m) ==
  /\ pass' = [pass EXCEPT ![m] = 0]
  /\ progressed' = [progressed EXCEPT ![m] = FALSE]
  /\ remounted' = [remounted EXCEPT ![m] = {}]

\* applyRow's fresh rowState for r: nothing provided, nothing observed.
Fresh(r, inst) ==
  [row |-> r, inst |-> inst, provides |-> {}, observed |-> {}, wants |-> {},
   got |-> [k \in Keys |-> Absent], mountSeq |-> 0]

\* What Get, Provide and the mount record in it. The plugin holds the values
\* Get gave it; the row's bookkeeping gets the keys of attributed calls only.
Reading(s, attributed) ==
  LET read == Inject[s.row.plugin] \cup Optional[s.row.plugin]
      hits == {k \in read : services[k] # Absent}
  IN [s EXCEPT !.got = [k \in Keys |-> IF k \in hits THEN services[k] ELSE Absent],
               !.observed = IF attributed THEN hits ELSE {},
               !.wants = IF attributed THEN read \ hits ELSE {}]

Giving(s, k, attributed) ==
  [s EXCEPT !.provides = s.provides \cup IF attributed THEN {k} ELSE {}]

Mounted(s, n) == [s EXCEPT !.mountSeq = n]

Init ==
  /\ desired = {} /\ rows = {} /\ failed = {}
  /\ services = [k \in Keys |-> IF k \in CtxKeys THEN CtxInst ELSE Absent]
  /\ providerOf = [k \in Keys |-> Ctx]
  /\ touches = [k \in Keys |-> IF k \in CtxKeys THEN 1 ELSE 0]
  /\ seq = 1 /\ insts = CtxInst /\ calls = 0 /\ erred = FALSE
  /\ applier = Nobody /\ gate = Nobody
  /\ pc = [m \in Mounters |-> "idle"]
  /\ boot = [m \in Mounters |-> "no"]
  /\ force = [m \in Mounters |-> Ctx]
  /\ goal = [m \in Mounters |-> {}]
  /\ doomed = [m \in Mounters |-> {}]
  /\ todo = [m \in Mounters |-> {}]
  /\ st = [m \in Mounters |-> NoState]
  /\ unprovided = [m \in Mounters |-> {}]
  /\ mountedAny = [m \in Mounters |-> FALSE]
  /\ progressed = [m \in Mounters |-> FALSE]
  /\ remounted = [m \in Mounters |-> {}]
  /\ pass = [m \in Mounters |-> 0]

-----------------------------------------------------------------------------
(* Entering the kernel.                                                    *)

\* A fatal boot ends the process: no goroutine of it acts any more.
Alive == \A m \in Mounters : pc[m] # "dead"

\* Nobody else is given the context before the boot is over.
Call(m) ==
  /\ Alive /\ pc[m] = "idle" /\ calls < MaxCalls
  /\ \A n \in Mounters : boot[n] = "no"
  /\ calls' = calls + 1

\* Mount: the boot. Rows mount to their own fixpoint before any settle.
Mount(m, t) ==
  /\ calls = 0 /\ Call(m)
  /\ desired' = t /\ failed' = {}
  /\ boot' = [boot EXCEPT ![m] = "strict"]
  /\ Goto(m, "scan")
  /\ BeginSettle(m)
  /\ UNCHANGED <<rows, wiring, applier, gate, insts, erred, force, goal, doomed,
                 todo, st, unprovided, mountedAny>>

\* reconcile's first critical section: forget the failures the candidate
\* (or the force) gives a retry, record it as desired, and pick the rows
\* to unmount. An invalid candidate returned before this.
Diff(m, new, f) ==
  /\ failed' = {r \in failed :
                  /\ r.id # f
                  /\ \E n \in new : n.id = r.id /\ ~n.disabled /\ SameSpec(n, r)}
  /\ desired' = new
  /\ doomed' = [doomed EXCEPT ![m] = DropSet(new, f)]
  /\ force' = [force EXCEPT ![m] = f]
  /\ Goto(m, "drop")
  /\ BeginSettle(m)
  /\ UNCHANGED <<rows, wiring, applier, insts, erred, boot, todo, st,
                 unprovided, mountedAny>>

Reconcile(m, t) ==
  /\ Call(m)
  /\ Diff(m, t, Ctx)
  /\ UNCHANGED <<gate, goal>>

\* Remount reads the desired set first and takes the emit gate after it.
RemountCall(m, id) ==
  /\ Call(m)
  /\ goal' = [goal EXCEPT ![m] = desired]
  /\ force' = [force EXCEPT ![m] = id]
  /\ Goto(m, "gate")
  /\ UNCHANGED <<tree, wiring, applier, gate, insts, erred, boot, doomed, todo,
                 st, unprovided, mountedAny, progressed, remounted, pass>>

Remount(m) ==
  /\ Alive /\ pc[m] = "gate" /\ gate = Nobody
  /\ gate' = m
  /\ Diff(m, goal[m], force[m])
  /\ UNCHANGED <<goal, calls>>

\* Unmount dropped rows in reverse mount order, then settle. The whole
\* mounted snapshot is walked, so a row another goroutine disposed of in
\* the meantime is disposed of again.
Drop(m) ==
  /\ Alive /\ pc[m] = "drop"
  /\ IF doomed[m] = {}
       THEN /\ Goto(m, "scan")
            /\ UNCHANGED <<rows, wiring, doomed>>
       ELSE \E r \in doomed[m] :
              /\ IsLast(r, doomed[m])
              /\ DisposeRow(r)
              /\ doomed' = [doomed EXCEPT ![m] = @ \ {r}]
              /\ UNCHANGED pc
  /\ UNCHANGED <<desired, failed, applier, gate, insts, erred, calls, boot, force,
                 goal, todo, st, unprovided, mountedAny, progressed,
                 remounted, pass>>

-----------------------------------------------------------------------------
(* settle: mount pending rows, dependency-gated, to their own fixpoint.    *)

Scan(m) ==
  /\ Alive /\ pc[m] = "scan"
  /\ todo' = [todo EXCEPT ![m] = PendingDesired]
  /\ mountedAny' = [mountedAny EXCEPT ![m] = FALSE]
  /\ Goto(m, "visit")
  /\ UNCHANGED <<tree, wiring, applier, gate, insts, erred, calls, boot, force,
                 goal, doomed, st, unprovided, progressed, remounted, pass>>

\* A row with unsatisfied Inject() keys stays pending.
Skip(m) ==
  /\ Alive /\ pc[m] = "visit"
  /\ \E r \in todo[m] :
       /\ IsFirst(r, todo[m])
       /\ Missing(r.plugin) # {}
       /\ todo' = [todo EXCEPT ![m] = @ \ {r}]
  /\ UNCHANGED <<tree, wiring, applier, gate, insts, erred, calls, pc, boot, force,
                 goal, doomed, st, unprovided, mountedAny, progressed,
                 remounted, pass>>

\* applyRow makes its rowState current and enters the plugin's Apply.
BeginApply(m) ==
  /\ Alive /\ pc[m] = "visit"
  /\ \E r \in todo[m] :
       /\ IsFirst(r, todo[m])
       /\ Missing(r.plugin) = {}
       /\ todo' = [todo EXCEPT ![m] = @ \ {r}]
       /\ st' = [st EXCEPT ![m] = Fresh(r, insts + 1)]
       /\ unprovided' = [unprovided EXCEPT ![m] = Offers[r.plugin]]
  /\ insts' = insts + 1
  /\ applier' = m
  /\ mountedAny' = [mountedAny EXCEPT ![m] = TRUE]
  /\ Goto(m, "get")
  /\ UNCHANGED <<tree, wiring, gate, calls, erred, boot, force, goal, doomed,
                 progressed, remounted, pass>>

\* The fixpoint is reached: look again while rows mounted, else go on to
\* the stale rows. Mount insists that nothing is left over, then settles.
MountedAll(m) ==
  /\ Alive /\ pc[m] = "visit" /\ todo[m] = {}
  /\ IF mountedAny[m]
       THEN /\ Goto(m, "scan")
            /\ progressed' = [progressed EXCEPT ![m] = boot[m] # "strict"]
            /\ UNCHANGED boot
       ELSE /\ Goto(m, IF boot[m] # "strict" THEN "stale"
                       ELSE IF PendingDesired = {} THEN "scan" ELSE "dead")
            /\ boot' = [boot EXCEPT ![m] = IF @ = "strict" THEN "settle" ELSE @]
            /\ UNCHANGED progressed
  /\ UNCHANGED <<tree, wiring, applier, gate, insts, erred, calls, force, goal, doomed,
                 todo, st, unprovided, mountedAny, remounted, pass>>

-----------------------------------------------------------------------------
(* A plugin's Apply: it looks services up, provides its own, returns.      *)

\* Get, for every key Apply reads.
ApplyGet(m) ==
  /\ Alive /\ pc[m] = "get"
  /\ st' = [st EXCEPT ![m] = Reading(@, applier = m)]
  /\ Goto(m, "provide")
  /\ UNCHANGED <<tree, wiring, applier, gate, insts, erred, calls, boot, force, goal,
                 doomed, todo, unprovided, mountedAny, progressed, remounted, pass>>

\* Provide: last write wins, and the touch makes the key's readers stale.
Provide(m, k) ==
  /\ Alive /\ pc[m] = "provide" /\ k \in unprovided[m]
  /\ services' = [services EXCEPT ![k] = st[m].inst]
  /\ providerOf' = [providerOf EXCEPT ![k] = IF applier = m THEN st[m].row.id
                                             ELSE Ctx]
  /\ Tick
  /\ touches' = [touches EXCEPT ![k] = seq + 1]
  /\ st' = [st EXCEPT ![m] = Giving(@, k, applier = m)]
  /\ unprovided' = [unprovided EXCEPT ![m] = @ \ {k}]
  /\ UNCHANGED <<tree, applier, gate, insts, erred, calls, pc, boot, force, goal,
                 doomed, todo, mountedAny, progressed, remounted, pass>>

\* Apply returned nil: the row is mounted.
ApplyOK(m) ==
  /\ Alive /\ pc[m] = "provide" /\ unprovided[m] = {}
  /\ rows' = rows \cup {Mounted(st[m], seq + 1)}
  /\ Tick
  /\ applier' = Nobody
  /\ st' = [st EXCEPT ![m] = NoState]
  /\ Goto(m, "visit")
  /\ UNCHANGED <<desired, failed, services, providerOf, touches, gate, insts, erred,
                 calls, boot, force, goal, doomed, todo, unprovided, mountedAny,
                 progressed, remounted, pass>>

\* Apply returned an error, before or after some of its provides...
ApplyErr(m) ==
  /\ Alive /\ pc[m] = "provide" /\ st[m].row.plugin \in MayFail
  /\ applier' = Nobody
  /\ Goto(m, "undo")
  /\ erred' = TRUE
  /\ UNCHANGED <<tree, wiring, gate, insts, calls, boot, force, goal, doomed,
                 todo, st, unprovided, mountedAny, progressed, remounted, pass>>

\* ...which are undone...
Undo(m) ==
  /\ Alive /\ pc[m] = "undo"
  /\ DisposeRow(st[m])
  /\ unprovided' = [unprovided EXCEPT ![m] = {}]
  /\ Goto(m, "fail")
  /\ UNCHANGED <<desired, failed, applier, gate, insts, erred, calls, boot, force, goal,
                 doomed, todo, st, mountedAny, progressed, remounted, pass>>

\* ...and the row goes Failed. At boot the error is fatal instead.
Fail(m) ==
  /\ Alive /\ pc[m] = "fail"
  /\ failed' = IF boot[m] = "strict" THEN failed
               ELSE {f \in failed : f.id # st[m].row.id} \cup {st[m].row}
  /\ st' = [st EXCEPT ![m] = NoState]
  /\ Goto(m, IF boot[m] = "strict" THEN "dead" ELSE "visit")
  /\ UNCHANGED <<desired, rows, wiring, applier, gate, insts, erred, calls, boot, force,
                 goal, doomed, todo, unprovided, mountedAny, progressed,
                 remounted, pass>>

-----------------------------------------------------------------------------
(* settle: reload the rows whose providers changed under them.             *)

MarkStale(m) ==
  /\ Alive /\ pc[m] = "stale"
  /\ doomed' = [doomed EXCEPT ![m] = StaleRows(remounted[m])]
  /\ Goto(m, "reload")
  /\ UNCHANGED <<tree, wiring, applier, gate, insts, erred, calls, boot, force, goal,
                 todo, st, unprovided, mountedAny, progressed, remounted, pass>>

Reload(m) ==
  /\ Alive /\ pc[m] = "reload"
  /\ \E r \in doomed[m] :
       /\ IsLast(r, doomed[m])
       /\ DisposeRow(r)
       /\ doomed' = [doomed EXCEPT ![m] = @ \ {r}]
       /\ remounted' = [remounted EXCEPT ![m] = @ \cup {r.row.id}]
  /\ progressed' = [progressed EXCEPT ![m] = TRUE]
  /\ UNCHANGED <<desired, failed, applier, gate, insts, erred, calls, pc, boot,
                 force, goal, todo, st, unprovided, mountedAny, pass>>

\* The end of a pass: another one while something moved, up to the cap.
NextPass(m) ==
  /\ Alive /\ pc[m] = "reload" /\ doomed[m] = {}
  /\ progressed[m] /\ pass[m] + 1 < PassCap
  /\ pass' = [pass EXCEPT ![m] = @ + 1]
  /\ progressed' = [progressed EXCEPT ![m] = FALSE]
  /\ Goto(m, "scan")
  /\ UNCHANGED <<tree, wiring, applier, gate, insts, erred, calls, boot, force, goal,
                 doomed, todo, st, unprovided, mountedAny, remounted>>

\* settle returns; a Remount lets the emits go. Mount fails if the settle
\* after its strict loop left a failed row. pass stays at PassCap when the
\* settle gave up.
Return(m) ==
  /\ Alive /\ pc[m] = "reload" /\ doomed[m] = {}
  /\ ~progressed[m] \/ pass[m] + 1 >= PassCap
  /\ pass' = [pass EXCEPT ![m] = IF progressed[m] THEN PassCap ELSE 0]
  /\ progressed' = [progressed EXCEPT ![m] = FALSE]
  /\ remounted' = [remounted EXCEPT ![m] = {}]
  /\ ReleaseGate(m)
  /\ force' = [force EXCEPT ![m] = Ctx]
  /\ goal' = [goal EXCEPT ![m] = {}]
  /\ boot' = [boot EXCEPT ![m] = "no"]
  /\ Goto(m, IF boot[m] = "settle" /\ failed # {} THEN "dead" ELSE "idle")
  /\ UNCHANGED <<tree, wiring, applier, insts, erred, calls, doomed, todo, st,
                 unprovided, mountedAny>>

-----------------------------------------------------------------------------
Enter(m) ==
  \/ \E t \in Trees : Mount(m, t) \/ Reconcile(m, t)
  \/ \E id \in RowIds : RemountCall(m, id)

Run(m) ==
  \/ Remount(m) \/ Drop(m) \/ Scan(m) \/ Skip(m) \/ BeginApply(m)
  \/ MountedAll(m) \/ ApplyGet(m) \/ (\E k \in Keys : Provide(m, k))
  \/ ApplyOK(m) \/ ApplyErr(m) \/ Undo(m) \/ Fail(m) \/ MarkStale(m) \/ Reload(m)
  \/ NextPass(m) \/ Return(m)

Next == \E m \in Mounters : Enter(m) \/ Run(m)

\* A goroutine inside the kernel keeps running; nobody has to call it.
Spec == Init /\ [][Next]_vars /\ \A m \in Mounters : WF_vars(Run(m))
-----------------------------------------------------------------------------
(* Properties.                                                             *)

Idle == \A m \in Mounters : pc[m] = "idle"

\* Every variable has its type, and the sequence numbers that staleness is
\* decided by, of touches and of mounts, were all drawn from seq.
TypeOK ==
  /\ desired \subseteq Row /\ failed \subseteq Row /\ rows \subseteq RowState
  /\ services \in [Keys -> Nat]
  /\ providerOf \in [Keys -> RowIds \cup {Ctx}]
  /\ touches \in [Keys -> Nat]
  /\ seq \in Nat /\ insts \in Nat /\ calls \in Nat /\ erred \in BOOLEAN
  /\ applier \in Mounters \cup {Nobody} /\ gate \in Mounters \cup {Nobody}
  /\ pc \in [Mounters -> PCs]
  /\ boot \in [Mounters -> BootPhases]
  /\ force \in [Mounters -> RowIds \cup {Ctx}]
  /\ goal \in [Mounters -> SUBSET Row]
  /\ doomed \in [Mounters -> SUBSET RowState]
  /\ todo \in [Mounters -> SUBSET Row]
  /\ st \in [Mounters -> RowState \cup {NoState}]
  /\ unprovided \in [Mounters -> SUBSET Keys]
  /\ mountedAny \in [Mounters -> BOOLEAN]
  /\ progressed \in [Mounters -> BOOLEAN]
  /\ remounted \in [Mounters -> SUBSET RowIds]
  /\ pass \in [Mounters -> Nat]
  /\ \A k \in Keys : touches[k] <= seq
  /\ \A r \in rows : r.mountSeq <= seq

\* The rowStates that are mounted or being applied.
Live == rows \cup {st[m] : m \in {n \in Mounters : st[n] # NoState /\ pc[n] # "fail"}}

\* "Unmounting withdraws it": a service is registered only while a row that
\* provides its key is mounted or mounting, or the context itself provided
\* it. A key left behind by a disposed row would satisfy Inject() for ever.
NoOrphanService ==
  \A k \in Keys \ CtxKeys :
    services[k] # Absent => \E r \in Live : k \in r.provides

\* The other way round: a row's keys stay registered as long as it is
\* mounted, whichever other rows of the same key come and go.
ProvidedPresent ==
  \A r \in Live : \A k \in r.provides : services[k] # Absent

\* Services and rows agree, both ways.
ServicesAgree == NoOrphanService /\ ProvidedPresent

\* A row is mounted at most once, and never while it is recorded Failed.
OneMountPerRow ==
  /\ \A a, b \in rows : a.row.id = b.row.id => a = b
  /\ ActiveIds \cap FailedIds = {}

\* Between calls the tree is what was asked for: whatever is mounted is a
\* desired, enabled row with the desired spec, and, unless settle gave up,
\* whatever is desired and enabled is Active, Failed, or Pending on a key
\* that nothing provides.
SettledTree ==
  Idle =>
    /\ \A r \in rows : \E d \in desired :
         d.id = r.row.id /\ ~d.disabled /\ SameSpec(d, r.row)
    /\ (\A m \in Mounters : pass[m] < PassCap) =>
         \A r \in PendingDesired : Missing(r.plugin) # {}

\* The tree is as it was asked for, each row of it mounted once.
TreeInOrder == OneMountPerRow /\ SettledTree

\* settle converges by itself: reloading each row at most once per settle
\* keeps even a cycle of optional providers from reaching the pass cap.
SettleConverges == \A m \in Mounters : pass[m] < PassCap

\* A row holds what is provided now, and misses nothing that is: of the keys
\* it reads and does not provide itself.
UpToDate(r) ==
  /\ \A k \in (Inject[r.row.plugin] \cup r.observed) \ r.provides :
       r.got[k] = services[k]
  /\ \A k \in r.wants \ r.provides : services[k] = Absent

\* As long as no Apply has failed: when a settle has come to its end, a mounted
\* row is up to date unless that settle reloaded it, once, already. A row left
\* with a value that was withdrawn or replaced, or without one that landed, is
\* one that staleLocked does not see.
FreshRows ==
  [][\A m \in Mounters :
       pc[m] = "reload" /\ pc'[m] = "idle" /\ pass'[m] < PassCap /\ ~erred =>
         \A r \in rows : r.row.id \in remounted[m] \/ UpToDate(r)]_vars

\* Between calls every key a mounted row declared in Inject() is there.
InjectsPresent ==
  Idle => \A r \in rows : \A k \in Inject[r.row.plugin] : services[k] # Absent

\* A row that failed is not tried again until a Reconcile or a Remount
\* forgets its failure: no step of a settle takes it from Failed to Active.
FailedStaysDown ==
  [][\A id \in FailedIds : id \notin {r.row.id : r \in rows'}]_vars

\* A call into the kernel returns (or ends the process): "terminates with a
\* loud log instead of a loop".
CallsReturn == \A m \in Mounters : pc[m] # "idle" ~> pc[m] = "idle" \/ ~Alive
=============================================================================
