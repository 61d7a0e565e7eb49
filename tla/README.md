# bough in TLA+

bough is a terminal coding agent written in Go. A *kernel* mounts a tree of
plugin rows, an *engine* runs a session's turns against a model provider, and
rows (history, tools, ask, loop, ...) and a web server (`serve`) live around
them. Almost every part is several goroutines around a mutex or a queue, fed by
user input, timers, processes and a provider that answers when it likes. This
directory holds TLA+ models of those parts, the configurations TLC checks them
with, and theorems TLAPS proves about them.

Contents: [the system](#the-system), [the modules](#the-modules),
[the runs](#the-runs), [fairness](#fairness), [the proofs](#the-proofs),
[where the code and its documents disagree](#where-the-code-and-its-documents-disagree),
[what is not modelled](#what-is-not-modelled), [the plan](#the-plan).

Run a model with `tlc -config Kernel_tree.cfg MCKernel.tla`, a proof with
`tlapm KernelProofs.tla` (`ChildrenProofs` and `SessionProofs` take up to a quarter of
an hour, the others minutes).

## The system

All paths below are under `go/`.

```
 launcher ──Mount/Reconcile──► kernel ──Apply──► rows: engine, loop, history, tools, ask, ui ...
 (cmd/bough)                     │ services (Provide/Get), events (On/Emit)
                                 ▼
   ui ──Submit/Steer/Cancel──► session actor ◄─recorded items── coordinator (harness)
   │                             ▲      │park/unpark                │ Generate
   │    tools: job notices ──────┤      └────────► Gate ◄───────────┘──► provider
   │                             ▼                                  │ Add/Cancel/Updates
   └──lines, steers, Esc──► code-mode loop (the other driver)  operation manager ──► calls
                                 │
        history: one file, several processes ◄── serve's AppendFile (notices)
                                 │
   serve ──► background agents (children): queue, slots, stops, reports
         ──► answers to questions (ask): pipe, Asker, waiting call
```

| part | state | operations | what is hard |
|---|---|---|---|
| kernel: rows and services (`kernel/reconcile.go`, `loader.go`, `status.go`) | desired rows, mounted `rowState`s, failed rows, services and their providers, a sequence number | `Mount`, `Reconcile`, `Remount`, `settle` | `Apply` may fail after providing some keys; optional seams form cycles; two rows provide one key |
| kernel: events and exit (`kernel/context.go`) | listeners, disposers, the read/write `emitGate` | `On`, `Emit`, the gate of a `Remount`, `Unmount` | listeners emit while a `Remount` waits to write |
| engine session (`internal/unreal/session`) | the actor's turn, pending lines, a mirror of what the harness recorded, the Gate's latch, the steer gate, the coordinator's life | submit, steer, cancel, notify; responses, results, timers; build, failure and restart of the coordinator; `Drain` | "done" is judged from a mirror that lags; Esc, timers, budgets and late results race; a turn outlives its coordinator |
| operation manager (`internal/unreal/ops`) | newest snapshots, the queue of updates, recorded cancels | `Add`, `Cancel`, pump, feed | coordinators die with a snapshot in hand; `Cancel` overtakes `Add`; the lock is released between head and removal |
| history (`plugins/history`, `plugins/engine/notices.go`) | an append-only file, each process's `Store`, mailboxes of notices | open, number, append, flush, close, `AppendFile`, deliver | several processes write one file; writes fail half way; a lock that gives up; crashes |
| jobs and code-mode loop (`plugins/tools/jobs.go`, `plugins/loop`) | jobs with a writer and a waiter, queued notices, a loop goroutine per mount, shared turn state, the terminal | start, claim, finish, take, wake; lines, steers, Esc; remounts and switches of the session; the end of the process | a turn outlives its mount; Esc races a turn's end; a claim races its job's end |
| children (`internal/serve/children.go` and its part of `supervisor.go`) | `meta.json`, the queue, the slots, leased processes, session files, reports | spawn, launch, send, stop, withdraw, report, close, crash, restart | every step of one child meets every step of another and of its own process; serve dies between two saves |
| ask (`plugins/ask`, answers in `plugins/ui`, `internal/serve`) | a slot, an Asker per mount with ids and channels, serve's arm, posted answers | ask, answer, time out, remount, stop, die | an answer crosses two processes and four goroutines while its question may end |

What makes each correct is what the properties below say. The hazards that
`PROJECT.json` lists, one per line of code where it bites, are what they were
written for; where the code does not keep a case and its property excepts it, the
hazard's note says so.

## The modules

| module | extends | models | theorems |
|---|---|---|---|
| `Kernel` | | rows and services | `KernelProofs` |
| `KernelEvents` | | listeners, the emit gate, the exit | `KernelEventsProofs` |
| `Session` | `EngineMirror` | the session's actor, Gate, coordinator | `SessionProofs` |
| `Ops` | `OpDelivery` by refinement | the operation manager | `OpsProofs` |
| `History` | | the session file and the mailbox | `HistoryProofs` |
| `Loop` | `Jobs` | the code-mode loop, the terminal, background jobs | `LoopProofs` |
| `Children` | | serve's background agents | `ChildrenProofs` |
| `Ask` | | questions and answers | `AskProofs` |
| `MC...` | the module | instances for TLC: catalogues, scenes, bounds | |

A behaviour's bounds are spent in the guards (`Spend`), so a bounded instance is
the code under at most so many lines, Escs, faults and so on. Where bounds
together are too many, a run takes several *scenes*: the initial state chooses
one combination of bounds, and TLC checks them all. History variables
(`past`, `told`, `s.promised`, `fate`, ...) are read by properties only.

### Kernel

One step is one critical section of `Context.mu`, or a stretch that touches only
the caller's locals. A *Mounter* is a goroutine inside the kernel; its locals are
functions of the goroutine (`pc`, `doomed`, `todo`, `st`, `remounted`, `pass`...).

| code | action |
|---|---|
| `Mount`, `Reconcile`, `Remount` up to the gate | `Mount`, `Reconcile`, `RemountCall`, `Remount` |
| `reconcile`: the removed rows and their dependents, transitively, last mounted first | `Drop` |
| `settle`: snapshot of `pendingDesired`, rows with missing keys | `Scan`, `Skip`, `MountedAll` |
| `applyRow`: attribution, the plugin's `Apply`, success and failure | `BeginApply`, `ApplyGet`, `Provide`, `ApplyOK`, `ApplyErr`, `Undo`, `Fail` |
| `settle`: stale rows, their disposal, next pass, cap | `MarkStale`, `Reload`, `NextPass`, `Return` |

A plugin is what the kernel can see of it: the keys it declares, those it looks up
with `Get`, those it provides, and whether it may fail. A service value is the
number of the `Apply` that provided it, so that a stale value can be told from a
fresh one. Config maps are opaque values.

### KernelEvents

The Mounter's calls reduced to "take rows down, bring them back", beside goroutines
that emit and subscribe (`runner.Run`) and the exit. `emitGate` is modelled from
`sync.RWMutex`'s contract: a reader waits while a writer holds *or waits for* the
lock. Each goroutine has a stack of the `Emit`s it is in, because listeners emit.
`current` is shared as in the code, so a subscription made by another goroutine
while a row is applied is recorded against that row.

### Session and EngineMirror

`EngineMirror` is `mirror.go`: pure operators that fold a recorded item into a
mirror. `Session` keeps two mirrors, the observer's (`sync`, the coordinator's own
state) and the actor's (`s.m`), which lags by what is in `fifo`. The record `s` is
everything the actor owns or shares under a mutex; each handler is an operator on
`s` (`StartTurn`, `CancelTurn`, `Response`, `SettleFired`, `Judge`, `RunExit`,
`ToolsChanged`, `Drained`), and each `Take...` action is "take one function from the
queue, run it, `Evaluate`". The other actions are the other goroutines: the user
(`SubmitLine`, `Steer`, `Cancel`, `Drain`), job notices (`Notify`), the coordinator
(`StartRequest`, `RecordInput`, `CoordinatorStops`, `CoordinatorFails`), the Gate
(`Respond`, `GateMutes`, `GateOpens`, `Resolve`, `Reply`, `RecordResponse`), call ends,
timers (`SettleExpires`, `CancelWaited`, `CancelExpires`, `ToolsSettle`), and startup
(`Mounted`, `Watch`). A coordinator that fails, or is restarted because the tool set
changed, is built again from what the store recorded (`EnsureRun`). The harness is
outside this repository's own code: its coordinator is modelled from how the session
uses it.

### OpDelivery and Ops

`OpDelivery` is what the operation manager promises: an operation is published, runs
once, makes snapshots in order, and the store moves only forward and learns of the
last one. `Ops` is the code: `latest`, `cancels`, `queue`, `pending`, `version`, `kick`, the
pump and feed goroutines with the steps they take without the lock, a coordinator
inside `Add`, one `Cancel` per operation, and a coordinator that may die with an
update in its hand and be rebuilt from the store. `Delivery` instantiates the first
in the second with `made <- at, stored <- stored`.

### History

The file is a sequence of chunks: an entry with its newline, or `Torn`, a fragment
without one, which makes the chunk behind it unreadable. A store's operation takes its
steps one by one: the flock, which gives up after a while and lets the store go on
without it (`Lock`, `Bare`), the catch-up with the numbering (`CaughtUp`, `NumberEntry`),
the look at the tail and its cut (`LookAtTail`, `CutTail`), the writes (`Write`,
`WriteFails`, `WriteDrops`). Beside the stores: `AppendFile` of serve (`ServeStarts`,
`ServeWrites`, `ServeFails`), the mailbox's look, mark and telling (`MailLooks`, `MailMarks`,
`MailTells`), `Close`, `Exit` and `Crash`. `bare` records what was done without the lock,
and `loose` the entries numbered so: the code accepts both, and the properties say
what still holds then.

### Jobs and Loop

`Jobs` is `tools/jobs.go`: a job's writer and its waiter, claims by a code block that
waits, the queue of notices per session and the wake channel with room for one token.
`Loop` composes it with `loop.go` and `cancel.go`: each mount of the loop row has a
goroutine, whose turn goes from boundary to boundary (`Begin`, `Admit`, `Step`, `Model`,
`Block`, `Final`, `Hook`, `End`), the values that mounts share (`turns`), the terminal,
which is one thread (`Types`, `Esc`, `SeesDone`), the goroutines that send its lines
(`Sends`), the kernel's remount or switch (`SwapStarts` ... `SwapAttaches`), and the end of
the process (`Quits`, `QuitRecords`).

### Children

What serve does under one hold of `s.mu` is one step. The goroutines it starts take
their steps between: `DrainQueue` and `Launch(k)` (ensure, check, prompt), `Reports`
(`ReportStarts`, `ReportDecides`, `ReportMarks`, `ReportTells`), `FreeLooks`/`FreeGives`
(freeWhenWritten), `ReportOwed`. The child process reads lines from its pipe, opens and
closes turns in its session file and prints events that serve reads later
(`ProcMoves`, `ReadEvent`, `Reap`). Users send, stop and withdraw (`SendStarts`, `Kill`,
`Interrupt`, `WithdrawChild`). Serve closes or crashes and comes back (`Close`,
`ServeCrashes`, `NewSupervisor`) with `meta.json` and the session files only; after a crash
a child may have outlived it (`StrayMoves`).

### Ask

A question is named by the call that puts it; a "native" call is the engine's ask, a
"rule" the approval a bash call waits for, a "block" the `tools.ask` of a code block, which
holds the VM. `TakeSlot`, `Register`, `Announce`, `Choose`, `GiveUp`, `Leave`, `RecordEnd` are
the call; `Reload`, `Dispose`, `Build`, `Provide`, `UiDown`, `UiUp` a remount; `HlPrint`,
`ReadLine`, `Answer`, `Send` the child's reader; `Scan`, `Refresh`, `PostAnswer`, `ClaimArm`,
`WriteAnswer` serve; `StopTurn`, `Die`, `Respawn` what befalls the process. `strayed` records that
a call put its question to an Asker already disposed.

## The runs

`CHECK_DEADLOCK FALSE` is in every configuration: each of these systems may rest (nobody
calls the kernel, the user types nothing, every operation has ended), and a bounded
instance stops when its bounds are used up. Waiting for ever is what the liveness
properties exclude.

| run | instance | states | shows |
|---|---|---|---|
| kernel_tree | the trees of `MCKernel`: Knot with a cycle of two optional seams and a second provider, whose `llm` and `cost` may fail, and Plain; 3 calls, `PassCap` 16 | 527,861 | services and rows agree, the tree is the one asked for, failed rows stay down, settle converges, calls return, and until an Apply fails a row that a settle did not reload holds what is provided when it ends |
| kernel_deadref | Plain, three rows may fail | violation | a failed reload leaves dependents with a dead reference |
| events_gate | 1 emitter, 2 rows, 2 emits, 1 call, 1 run; no echo | 203,330 | Remount loses no event, one listener per row, everybody returns |
| events_echo | the `activity` row echoes | violation | a listener that emits can deadlock with a Remount |
| session_turns | three scenes: *turns* (2 lines, 2 calls, one an ask, 1 notice, a stop hook, 2 steps a turn), *esc* (1 line, 1 call, 1 steer, a provider failure, 1 Esc, from startup on), *lives* (a failing or restarted coordinator, with two lines, or a line and a notice, an Esc or the end of input) | 1,160,526 | done is never early, each line gets its done in order, no input is lost or handed on twice, Esc parks and closes, Drain returns |
| session_stray | 1 line, 1 call, 1 Esc | violation | an Esc that races an answer leaves a call running that wakes the model |
| ops_deaths | 2 operations, last snapshot 2, one cancel, one death | 368,711 | nothing lost, cancels reach, `Ops` implements `OpDelivery` with its liveness |
| history_file | 2 processes (symmetric), 2 opens, 1 line, 1 notice, 1 fault | 1,725,438 | numbers unique and ordered, acknowledged lines stay readable, pending ones are kept, notices are queued once |
| loop_turns | 2 sessions, six combinations of lines, an Esc, a remount or switches, errors, blocks, a job, the end | 340,989 | one turn at a time, typed lines land, a finish is told once, a cancel hits its turn, lines and notices get their turn |
| children_two | cap 1; two children with a message, a stop, a withdrawal, a fault or a restart; one child, or a room, with several of them | 2,451,916 | a task runs once, what was stopped or withdrawn stays so, slots are neither leaked nor forgotten, the parent hears how each turn ended and of no entry twice, children start by age |
| ask_answers | two calls of one kind; a remount and a post, posts and a stop, or a death and a post | 1,427,837 | ids are unique, each answer reaches its question, an open question keeps its arm, calls return |
| ask_approval | a native ask and an approval | violation | the end of one disarms the other |

Why the bounds are enough for these questions. *Kernel*: every tree change that the
code distinguishes (row added, removed, disabled, changed spec, provider swapped,
both providers present) is between two of the trees, three calls reach a tree, leave
it, and come back, and `PassCap` is the code's own. *Events*: two emits put one inside
and one outside a Remount, two rows let a listener be called while the other is down.
*Session*: two lines are needed for one to queue behind another, two calls for one to be
adopted while the other runs, two steps to spend a budget; one Esc, one steer and one
failure each happen at every moment. *Ops*: two operations are needed for the queue to
have an order, two snapshots for one to supersede another, and one death for a successor
to inherit an unsaved hand. *History*: two processes make each race of the file, one fault
falls at any of the points where a write, a lock or a process can fail, and the second
open finds what the first left. *Loop*: two lines make one wait for a turn or steer it, a
switch and a switch back separate a session from its jobs. *Children*: two children behind
one slot make a queue; each trouble meets the second child, and pairs of troubles meet
the first. *Ask*: two questions are what an answer can confuse. The theorems lift most of
the safety properties to every size.

Some cases lie outside these instances on purpose. Lines posted while the rows are still
being mounted may be overtaken by a later one (`actor.go:469`), so `LinesServed` is claimed
from mounted rows on when two lines are typed. `MaxChanges` is 1 in *lives*: a tool set
that changes back while the coordinator stops leaves the next line stuck (see below). One
steer is on its way at a time.

## Fairness

- *Kernel*: weak fairness of each goroutine's `Run`: a goroutine inside the kernel
  keeps running; nobody has to call it. `Apply` ends.
- *KernelEvents*: weak fairness of each goroutine's steps, of the Mounter's and of the
  exit's; a step that waits for the lock is not enabled, so fairness does not hand it the
  lock.
- *Session*: weak fairness of the actor, the coordinator, the Gate, the timers and the
  startup. None for a call (it may run for ever; the settle timer or an Esc has to
  deal with it), none for failures, changes of the tool set, the user or jobs. An ask
  waits on the user, so `LinesFinish` excepts one.
- *Ops*: weak fairness of the pump, the feed, `Add`, the coordinator's receive and
  save, and `Restart`. The last stands for `runExit` in `session/actor.go`, which rebuilds
  the coordinator while calls are outstanding, once in a turn; after a second death
  the rebuild waits for the next input, so "in the end" then includes that input.
  No fairness for an operation's own progress. `OpDelivery` asks it of `Save` only.
- *Loop*: weak fairness of `Runs`, the goroutines of loops, jobs' waiters and a swap in
  progress; a model request answers or errs. Not of the user.
- *Ask*: weak fairness of each call (its timeout fires), of a remount in progress, of the
  child's goroutines and of serve. Not of the user who answers.
- *History* and *Children* claim safety only.

## The proofs

Eight modules hold theorems; each is proved from the named assumptions of the model
(`KernelAssumption`, `OpsAssumption`, `AskAssumption`, `Bounds`, ...), which TLC evaluates on
every run. The bounds are constants in the assumptions too: the theorems hold for any
number of calls, faults, restarts. In every module the shape is the same: an invariant is
seldom inductive alone, so `IInv` joins the type invariant with what each goroutine has
in its hand; one lemma per action says what the step changes; one lemma per part of
`IInv` says that no such change breaks it.

| module | theorems | properties of the runs |
|---|---|---|
| `KernelProofs` | `TypeCorrect`, `NoOrphans`, `ProvidedStay`, `ServicesInStep`, `MountedOnce`, `Settled`, `TreeOrdered`, `FailedNotRetried`, `SettlesConverge`, `RowsFresh` | `ServicesAgree`, `TreeInOrder`, `FailedStaysDown`, `SettleConverges`, `FreshRows` |
| `KernelEventsProofs` | `TypeCorrect`, `RowsListen`, `EmitsReachRows` | `TypeOK`, `ListenersOfRows`, `RemountDropsNothing` |
| `SessionProofs` | `Invariant`, `TypeCorrect`, `EverythingLands`, `NothingBehind`, `DoneIsQuiet`, `EscStays` | `TypeOK`, `InputsLand`, `NothingHidden`, `QuietDone`, `EscParks` |
| `OpsProofs` | `TypeCorrect`, `CancelsReach`, `NothingIsLost`, `Delivers` | `CancelReaches`, `NothingLost`; the safety part of `Delivered` |
| `HistoryProofs` | `TypeCorrect`, `NumbersRight`, `LinesStay`, `LinesWait`, `NoticesTold` | `TypeOK`, `SeqsRight`, `Durable`, `LinesKept`, `NoticesOnce` |
| `LoopProofs` | `TypeCorrect`, `OneTurnAtATime`, `TypedLines`, `FinishIsToldOnce`, `CancelsHit` | `OneTurn`, `TypedLands`, `FinishToldOnce`, `CancelHits` |
| `ChildrenProofs` | `TypeCorrect`, `TasksRunOnce`, `StopsStay`, `ParentsKnow`, `StartsByAge`, `SlotsOfTasks`, `SlotsRightOnce` | `TypeOK`, `TaskOnce`, `StopsHold`, `ParentKnows`, `StartsInOrder`, `SlotsRight` |
| `AskProofs` | `InvariantHolds`, `TypeCorrect`, `AnswersComeHome`, `ArmsStay` | `TypeOK`, `AnswersHome`, `ArmKept` |

**Kernel.** `TypeCorrect` holds for any number of concurrent callers; its inductive
form adds `InHand`, that a goroutine inside an Apply has a `rowState` in its hand. The
other theorems assume `Single`: one goroutine in the kernel at a time. That is not a
convenience: with two, `current` is one field for the whole context, two reconciles clear
each other's attribution, and a service can outlive its row (`reconcile.go:22`). `SafeInv`
joins the invariants with

- `Attributed`, `Named`: calls are attributed to the goroutine in Apply, whose run has
  a number. With these a `Provide` lands in the row that will be disposed with it
  (lemma `WiringStep`).
- `DesiredTree`, `Queue`: a settle's snapshot holds rows that are still wanted, not
  mounted and not failed, so mounting one cannot mount a row twice (`OrderStep`).
- `AsDesired`: what is mounted is desired, or about to be dropped by the caller.
- `Visited`: where the settle stands in its pass tells which pending rows are known to
  lack a key, so that when it stops every row left pending does (`VisitedStep`).
- `Untouched`: before the first call nothing is mounted.

Two theorems go on from there.

`SettlesConverge`: no settle comes to its pass cap. It assumes `ShortChains`: no tree has a
chain of `PassCap - 1` (15) different rows of which each reads a key that the one before
offers. The instances have fewer rows than that; the default tree has more, but its seams
(agent tools, code mode, ask, rules, loop, ui, ...) chain through far fewer. An assumption of
this kind is needed: a chain of 16 rows listed in the wrong order, each optional to the next,
takes a pass per row. The argument counts no reloads. `Told` says that a row watches what its
plugin reads, provides what its plugin offers, and that what was touched after its mount was
touched by another row. `InPass` says that pass number n mounts and reloads rows where
a chain of n rows reloaded earlier in the settle ends (`Reached`): a row is stale only for a
key that a row mounted since it was itself mounted offers, and what is mounted after the
first pass was reloaded in the one before, because the first pass mounted what could be
mounted (`Locked`). A settle reloads a row once, so the chain has different rows, and a pass
that made progress as the last one would need a chain of `PassCap - 1`.

`RowsFresh`: when a settle ends, every mounted row that it did not reload holds, of each key it
reads, the value that is provided, and lacks none that is, as long as no Apply has failed
(`kernel_deadref` shows what a failure leaves behind). It assumes `ShortChains` and
`CtxApart`: what a plugin injects from the bare context, no plugin provides over it (in the
code nothing declares such a key: the one key of both kinds, "notice", is looked up with
`Get`). The code judges staleness by sequence numbers only, and never looks whether a key is
still there. So the theorem needs that a missing key is always owed (`Debts`): while a mounted
row needs it, its own drop is still to come, or a *ghost* offers it, a row reloaded in this
settle that is not mounted yet. And that no ghost is left when the settle ends: ghosts and kept
rows are ranked by what they inject (`Ranked`, the rank being the sequence number of the mount),
and the lowest ghost lacks nothing, so the mount phase would have taken it. `Books` keeps what
a row saw when it was applied against the touches made since. The rows the settle did reload
are excepted, and must be (see "also met" below).

**KernelEvents.** `IInv == Typed /\ MounterHolds /\ GateShared /\ RowsDown /\ IdsName /\
Subscribed`. The gate is the Mounter's exactly while a Remount is inside; a goroutine holds
it for reading once per `Emit` on its stack, unless it holds the gate itself; rows off the
tree are those in the Mounter's hand; ids are unique and never reused; each row has one
listener for what it hears, whose id its disposer will end. Two of the three theorems
follow at once; that no event meets a row that is down is the exclusion of the first three.

**Session.** `IInv == TypedRest /\ Good(s, fifo, {}) /\ Lags(s.m, fifo)`. The two halves are
operators of a session `w`, a queue `q` and a set `h` of words in hand, because a handler is a
chain of operators on the session: in the middle of one the session is not `s` yet and the
function being handled has left the queue. Each operator of `Session` has a lemma that it keeps
the parts of `Good` (`EnsureRunIs`, the sends, the openings, the notices and steers, the closes,
the cancel, the judge), and an action's proof is their composition.

- `Lags` says how the actor's mirror trails the coordinator's by what is in the queue. `Answers`:
  a turn, its response and the request's stage follow each other. `Reasons`: what the
  coordinator still has to tell the model, the actor knows already or will hear of, before the
  queue's next turn takes it. `CallsOnce`: a call is issued once, ends once, and its end comes
  behind the response that named it.
- `Good` speaks of the session. `Inbox`, `Sent`: an input is recorded and in the queue, or in the
  inbox of the coordinator that works, never both. `Apart`, `Landing`: a text is in one place until
  it is an input, and a steer that was accepted is in one of those the property names.
  `Exits`: a coordinator's exit is the last thing heard of it. `InTurn`: a request at the
  provider, or an answer with calls, belongs to a turn that is open, is about to be opened by a
  message in the queue, or was cut. `Parks`: while an Esc holds, what it parked is muted.

`EverythingLands` and `NothingBehind` are read off `IInv`. For `DoneIsQuiet` the step that closes a
turn is taken apart: the actor saw an idle mirror, no result queued and nothing unobserved, and
by `Lags` the coordinator's mirror then differs from it by jobs only. `EscStays` takes each step
that can move the latch or the request. One thing the proof attempt found is in the property: a
request fails, a steer on its way keeps the turn open, and a hook blocks that steer; the calls of
the turn become jobs in the same step that ends it with "done" (`actor.go:380`, `1010`), so
`QuietDone` counts jobs adopted in the step itself. Nothing is assumed but `SessionAssumption` and
`IdsAssumption` (ids are distinct).

**Ops.** `IInv` joins the type invariant with `AddInv` (what is being added is recorded,
and not registered before the inner manager answers), `RegisteredInv` (updates exist only
for what is registered), `QueueInv` (the queue has no duplicates, what waits is the newest,
the feed's head is the queue's), `ChannelInv` (updates on their way are in order and newer
than what has arrived), `OrderInv` (what is stored is never ahead of what is in hand,
offered, or latest). On it rest

- `CancelsReach`, with `CancelInv`: a recorded cancel of an operation that works is
  known to the inner manager, or its Add has still to look;
- `NothingIsLost`, with `CarriedInv` (the newest snapshot arrived or is on its way) and
  `OwedInv` (what arrived and is not stored waits, is in hand, or will be asked for;
  and the version check keeps the feed from dropping what replaced its head);
- `Delivers`: every step is a step of `OpDelivery` or a stutter. The order facts of
  `OrderInv` are what make a save move the store forward.

**History.** `IInv == Typed /\ LockHeld /\ TailSeen /\ NumbersUp /\ NumbersApart`.

- `LinesStay`: while `bare` is empty every write is made under the lock; the writer has
  looked at the tail and cut it, so the file ends in a newline where the entry goes, and a
  fragment it leaves is cut by the next writer before anything is put behind it.
- `NumbersRight`: an entry that is pending and numbered under the lock means that the lock
  is held and that its number is above all firm lines that can be read; a store that is
  not blind has read the file up to an offset and covers the numbers there. Only `Write` and
  `ServeWrites` add a readable line, so each other step needs to keep numbers only. A
  process's own pending lines increase, and stand above its readable ones: the order.
- `LinesWait`: an action property of `IInv`: each step keeps what waits in a process, drops
  it because it is written, or ends the process.
- `NoticesTold` stands on `NInv == IInv /\ Named /\ MailInv /\ Alone /\ Queued` (and `told`'s
  type). `MailInv` says per mailbox that a firm mark that waits is the one the mailbox waits
  for (`MarksWait`), and that a notice unmarked at its last look is still in its list or has a
  mark younger than that look (`Covered`). `Queued` says that each notice told has a mark, on
  disk or loose, and a loose one once it was told twice; with `Durable` a mark that landed is
  read by the next look. One lemma, `CarriesKeeps`, covers every step that numbers no mark.
  `bare = {}` is needed in full: an `AppendFile` that writes without the lock puts its line
  between a store's look at the tail and its write, so a fragment left there makes the store's
  mark unreadable and the notice is told again after a restart (TLC finds this with one
  process, two notices and two faults), although nobody cut anything.

**Loop.** `IInv == Typed /\ MountsInOrder /\ TurnsShared /\ PlacedOnce`. Mounts that share a
turns value follow each other, and a mount takes a turn only when those before it are
ignored or stopped: so there is one turn (`OneTurnAtATime`). A steer the terminal was told
would land lies in a turn that has a boundary left, and a line is in one place: sent, in a
loop's hands, or recorded (`TypedLines`). Two more invariants stand on it:

- `NInv`, for `FinishIsToldOnce`: a notice lies in one queue, in the hands of one loop, or in
  one record (`OnePlace`); `JobSays` ties that to where the job's writer and waiter stand and to
  the claim, if a code block holds one: a job that is done and will not tell was answered, is
  still claimed, or is one of the exceptions. `InTimeEnd`: at the end of the process, unless
  something timed out, every loop has stopped before the last notices are recorded.
- `AInv`, for `CancelsHit`: while a cancel waits to be honoured, a line it is meant for is still
  ahead of the turns value it waits in (`PendingAimed`): on its way, queued, or the prompt about to
  begin. So a turn that finds the cancel either runs such a line, or leaves one to come. A line
  that a mount of a session left still has is meant as well, and a mount closed and stopped
  has none (`StoppedEmpty`). `RunningHasLine` covers the moment after a switch, when the turn left
  behind may still run beside the new mount, and an Esc means the new one.

The queue of notices is kept per session in the model, where the code filters one list by
owner: what a session sees is the same, and a filter takes an operator that the provers cannot
instantiate.

**Ask.** `IInv == Typed /\ RowsInStep /\ DeadAreGone /\ ExitLast /\ CallsInStep /\ IdsUp /\
LinesWritten /\ ToldOwn`. Ids of an Asker count up and a later Asker starts past every id the
history has (unless a call strayed), so ids name questions; what serve and the child pass on
names a question that was recorded with that id; the exit is a process's last line; the
Askers that dead calls knew are older than any that answers. Hence `AnswersComeHome`. For
`ArmsStay`, `KInv == IInv /\ OneAsks /\ AskedFirst /\ ArmSafe`: one question waits at a time,
because of the slot or of the VM, and every event still in the pipeline behind the question
that serve has armed spares it. It assumes `OneKind`, calls of one kind: run ask_approval is
the counterexample otherwise.

**Children.** The steps touch one child each, up to the queue and the slots. `Same(k)` says
that a step leaves a child alone, and `Step(k)` lists, field by field, what a step may do to
the one it is about; each part of the invariant is proved against that list, once.
`IInv == Typed /\ InOrder /\ Woken /\ \A k : ...` with

- `Unborn`, `Forgotten`, `Marked`: what a child has before it is created and after it is
  withdrawn; `Leased`: a process that runs is leased; `Files`: the shape of a session file
  as its process's state allows;
- `Queued`, `InOrder`: the queue is `meta.json`'s `queued`, in order of age
  (`StartsByAge`, `TypeCorrect`);
- `Tasks`, `BootStopped`, `GivenUp`: the task is in the file or in the pipe at most once, a
  child queued again has not read it, and what was stopped or given up will not; `Silent`:
  of a child given up nothing is told, or about to be, that was not when it was withdrawn
  (`TasksRunOnce`, `StopsStay`);
- `Told`, `Reported`, `Unstarted`, `LastWorks`: reports in flight and keys told are distinct,
  and a turn that is not marked reported still has something to come: an event, an exit, a
  report, or serve's restart, which finds it; `Turns`: between two inputs of a session file
  there is one close, a done right after a cancelled apart, and what is marked or told names
  an input or such a close (`ParentsKnow`);
- `Woken`, `HoldsSlot`, `Launched`: whoever gives a slot back wakes the queue; the slot is
  taken before the task is written and kept until the turn's close (`SlotsOfTasks`).

`SlotsInv` adds that a slot has something to come that gives it back. For a child with a
prompt that holds whatever serve does. For a room (a child without one) it assumes
`OneRestart`: after two crashes a process the first one left behind may write the room's file,
`freeWhenWritten` takes the room for one at work, and its slot is never given back. TLC finds
that leak with two restarts; `SlotsRightOnce` says that there is none with one.

**Only model-checked.** All liveness (`CallsReturn`, `NobodyStuck`, `LinesFinish`, `WaitsEnd`,
`TypedAndNewsArrive`, the fairness part of `Delivered`): it needs ENABLED, which the prover
does not handle. With `LinesFinish`, `LinesServed` asks that lines become turns in order
(`LinesInOrder`), a safety property that holds from mounted rows on. Every other safety property
of a passing run is proved. The type invariants of Kernel, Ops and Loop are proved and not
checked by a run.

## Where the code and its documents disagree

Four runs state a document's claim as their one property, and TLC finds it violated.

1. `kernel_deadref`: `settle` disposes a stale row but not its dependents. If the new
   Apply fails, dependents stay Active with a key that is gone; `reconcile.go:190` says
   they unmount, "it holds a dead reference".
2. `events_echo`: `Emit` nests a read lock when a listener emits; a Remount that starts
   to wait in between deadlocks both. `context.go:178` calls Emit fire-and-forget.
3. `session_stray`: Esc cancels calls the actor knows. Those of an answer still in its
   queue run on and wake the model; `property_test.go:106` says nothing reaches the
   provider after a cancel.
4. `ask_approval`: an approval carries no call id, so the recorded end of another ask of
   the same reply disarms it; `supervisor.go:1201` says "Another ask's end leaves this one
   armed".

Also met while modelling, without a run of their own. Where a property meets one of
these, its comment names the exception.

*Kernel.* Two concurrent reconciles clear each other's attribution and orphan a service
(`reconcile.go:22`); a subscription made by another goroutine while a row is applied goes
with that row (`context.go:172`); the exit's `Unmount` does not stop a settle in progress
(`context.go:221`); `Remount` writes back rows it read before it waited for the gate, so a
Reconcile in between is undone (`reconcile.go:217`). A settle reloads each row at most once.
So in a cycle of optional seams the row reloaded first keeps a value that its partner's reload
replaces, and so does a consumer above two changes: when a key the llm reads and one that the
ui reads land together, the ui is reloaded in the first pass, the loop, for the new llm, in the
second, and the ui keeps the old loop's runner, although `context.go:88` says that Provide makes
every dependent stale "so the next settle pass reloads it" (TLC finds it in a tree of five
rows). It is the price of convergence.

*Session.*
- `evaluate` pops one line per event; if a hook blocks it, the next line waits for an
  unrelated event (`actor.go:875`). Lines posted during startup may overtake (`actor.go:469`).
- The step budget of the last turn mutes a later job's wake (`gate.go:217`). The event that says so
  names no turn: if the next line's turn opens before the actor handles it, that turn is stopped
  with "step budget reached" although it has asked for nothing yet (`actor.go:1267`; TLC finds it
  with two lines, one step a turn and a job that ends between them). A job that ends
  while a cancel waits talks outside a turn (`actor.go:397`); a second Esc parks only its own
  turn's calls (`actor.go:1241`); notices dropped by Esc after they were handed out are not
  told again (`actor.go:1256`).
- `runExit` closes a turn and neither adopts nor cancels the call in its foreground. A steer
  on its way when the coordinator dies is queued behind a request that will never answer, and
  the turn stays open until Esc (`docs/unreal-engine.md:207`). A tool set that comes back
  while the coordinator stops drops the restart, and a line submitted then goes nowhere. `Drain`
  waits for ever when a coordinator dies before it recorded an input (`actor.go:898`).
  `rebuilds` is reset by `openTurn` only, so after a second death between turns jobs' results
  wait for the next input (`actor.go:1345`). A restart decided by the lagging mirror may cut a
  job's request.

*History.* A notice is queued twice when the write of its mark failed (`notices.go:64` says
exactly once), or when an `AppendFile` without the lock put a fragment before its mark. Two readable lines may share a number when a pending line's number was taken
meanwhile (`history.go:661`, `670`). `AppendFile` writes behind a torn fragment (`history.go:1248`).
The cut of a tail in `OpenExisting` and `Close` is made without the lock and can take a line
that was acknowledged.

*Loop and jobs.* After a switch of the session the old session's goroutine may take a leftover
wake token (`jobs.go:265`). An Esc between a turn's end and the terminal's sight of it is kept
and cuts the next line (`cancel.go:75`). Two submitted lines may overtake each other. A wake turn
cancelled or blocked before admission drops its notices. An Esc that gives a claim back after
the waiter read it, or a claim that still waits when the process ends, leaves the finish
untold (`jobs.go:723-730`). A finish is recorded in the session mounted then. A "done" emitted
while the ui is detached is lost, and its spinner stays.

*Children.* An open turn without a slot exists: a message gets past the queue, though
`tests/model/specs/agent_stop_paths.fizz:259` says `SlotIsWork` (the definition is kept in
`Children`, and violated). A stop while a child boots leaves nothing that says so
(`children.go:399`). After a crash of serve an orphan and its requeued self both run the task.
Reports are told apart by the entry they name, so `children.go:545`, "exactly once per turn",
is not kept: a turn reported while it was open (its flush took longer than two seconds, or its
process died in it) is named by its input, and again by its close once that is written, the
"cancelled" of the next mount for one; a wait that a stop ended is told as done and as
cancelled. `ToldOnce` names these two ways and excludes any other. A report that was marked when
the child is withdrawn is still told, against `children.go:867` "nor report" (`children.go:612`,
`868`), and a withdrawal cut short by the end of serve leaves the session file behind
(`WithdrawnGone`). A mark saved before serve ends, and the report with it, is lost. A stop of a
child that still boots is kept in memory: if serve ends before `launch` has looked for it, the
next serve starts the task. A message that overtook the unwritten task of a child whose start then failed is
never reported. After two crashes a room's slot may leak.

*Ask.* A question put to an Asker already disposed cannot be answered, and its id may be given
again (`ask.go:481`). `askClosedIn` ignores "ask/end", so an approval that ended while the ui row
was down stays armed. Serve gives an arm back after it dropped the process
(`supervisor.go:1361`), and the session then refuses every line and every answer until serve
restarts. An answer read while the reader still holds the old Asker is refused and lost; one
taken after the timeout was chosen is recorded though the call failed. An event emitted while
the ui row is down leaves its question unseen.

## What is not modelled

*Inside modelled components.*
- Kernel: YAML parsing, logging, status text. KernelEvents: disposers other than listeners.
- Session: a store that refuses a build, `Close`, the cancel of one call, sticky context
  overflow, the model lock, deltas, hook texts, what the projector writes. A request that
  another superseded is gone at once: in the code it may still be returning, and an Esc then
  stops it and not the one being set up (`gate.go:128`), which goes out. The second half of
  `EscParks` holds but for that.
- Ops: the end of the session's context, the tap, a repeated `Cancel` of one operation (a
  re-Add that queues a snapshot twice is what `OpDelivery` accepts).
- History: the tree of branches, the lease of `lease_unix.go`, search, rewind.
- Loop and jobs: compaction, forks, the cost budget, empty-reply retries, the five-second drop
  of a full input channel, foreground commands, adopted calls, the prompt. The default driver
  of row `loop` is the engine; this is the optional code-mode loop.
- Children: archives, projects and orbs, budgets, adopted jobs, failing saves; the cap is
  fixed; `ensure`'s start is one step; the deadline of a report may come at any time. The lease
  of a process that died under `launch` goes back when `launch` is done with it; in the code the
  reaper may return it while `launch` is still between its check and its prompt
  (`supervisor.go:957`, `children.go:278`), and what a message does that starts the child again in
  that gap is left out.
- Ask: the keychain, `tools: both` (parallel scripts share a timer across a park), the texts.
  The timeout may come at any time; an append with its event is one step.

*Components.* `PROJECT.json` lists each with its reason, of three kinds: its module is in the
plan (orbs, the lease); it is input and output (hooks, providers, containers, mcp, lsp, terminal,
web pages); or it has no concurrent state of its own (catalogue, rules, theme, title, cost).

Hazards seen and not covered by a property stay here: those under "also met" above that have a
line, the lease held before its pid is written (`lease_unix.go:73`, `118`), an answer
that comes when the timeout was chosen (`ask.go:149`, `199`), and scripts that run while another
is parked (`codemode.go:378`).

## The plan

Theorems: `LinesInOrder` from mounted rows on, beside the invariant of `Session`.

Models: superseded requests on their way back (`Session`), a launch whose lease went (`Children`),
the lease of a session file (beside `History`), and the orbs' restart and swap. A first
look at the latter: `Prepare` and `run` (`internal/orb/orb.go:82`, `160`) write `state.json` before
the stale container is removed, so after a failed start the next one reuses a container made
with the old spec, which `orb.go:152` and `docs/orbs.md:426` exclude; a fresh restart asked for
while a build runs is lost when the row closes (`restart.go:93`).
