------------------------------ MODULE Children ------------------------------
(***************************************************************************)
(* The background agents of serve (internal/serve/children.go): a session  *)
(* spawns children, serve runs at most MaxRunning of them, queues the      *)
(* rest, takes messages and stops for them, and tells the parent how each  *)
(* of their turns ended.  With it the parts of supervisor.go a child goes  *)
(* through: ensure, start and its reap, emit, Send, Interrupt, Kill, Close *)
(* and NewSupervisor after a Close or a crash.                             *)
(*                                                                         *)
(* What serve does under one hold of s.mu is one step; the goroutines it   *)
(* starts (drainQueue, launch, report, freeWhenWritten, reportOwed) take   *)
(* their steps between those of the others.  A child process reads lines   *)
(* from its pipe, opens and closes turns in its session file, and prints   *)
(* events that serve reads later, in order.                                *)
(*                                                                         *)
(* meta.json is saved in the step that changes it and survives a restart,  *)
(* as do the session files; everything else serve knows does not.          *)
(***************************************************************************)
EXTENDS Integers, Sequences, FiniteSets, SequencesExt

CONSTANTS NKids,        \* children, named by age
          MaxRunning,   \* the running cap
          Bounds        \* bound: what may happen in one behaviour, one of
                        \* these: children spawned with a prompt, and
                        \* without one (rooms), messages, stops, spawns
                        \* given up, processes that fail to start or die,
                        \* and times serve ends and starts again

Kids == 1 .. NKids

ASSUME SomeKids == NKids \in Nat \ {0}
ASSUME SomeSlot == MaxRunning \in Nat \ {0}
Whats == {"kids", "rooms", "sends", "stops", "withdraws", "faults", "restarts"}
ASSUME SomeBounds == Bounds \subseteq [Whats -> Nat]

VARIABLES
  serve,    \* "up", "closing" or "down"
  meta,     \* per child: its entry in meta.json
  queue,    \* children that wait for a slot, oldest first
  running,  \* children that hold a slot
  kids,     \* per child: the leased process as serve sees it
  proc,     \* per child: the process serve started
  stray,    \* per child: a process that outlived the serve it belonged to
  out,      \* per child: printed events serve has not read
  file,     \* per child: its session file, <<>> when there is none
  drains,   \* drainQueue goroutines at the head of their loop
  reports,  \* report goroutines
  freeing,  \* children whose freeWhenWritten has seen the file
  waiting,  \* children whose freeWhenWritten still waits
  sending,  \* per child: the Send under way
  waitStops,\* children stopped with no turn open
  withdrawing, \* children whose WithdrawChild waits for the kill
  owed,     \* children reportOwed has still to look at
  told,     \* per child: the reports the parent got, by key
  past,     \* what happened, for the properties
  budget    \* what is left of the bounds

memory == <<queue, running, kids, drains, reports, freeing, waiting, sending,
            waitStops, withdrawing, owed>>
disk == <<meta, file, told>>
process == <<proc, stray, out>>
vars == <<serve, memory, disk, process, past, budget>>

Spend(what) == budget[what] > 0 /\ budget' = [budget EXCEPT ![what] = @ - 1]

----------------------------------------------------------------------------
(* What serve keeps of a child.                                            *)

NoMeta == [here |-> FALSE, task |-> FALSE, prompt |-> FALSE, queued |-> FALSE,
           ended |-> "no", reported |-> 0]
(* pc is where launch stands: "exec" starts the process, "check" looks for *)
(* a stop, "prompt" writes the task, "wait" waits for a killed process.    *)
NoChild == [pc |-> "none", by |-> "none", prompt |-> FALSE, stopReq |-> FALSE,
            startFailed |-> FALSE, dying |-> FALSE, signalled |-> FALSE,
            unread |-> FALSE, held |-> FALSE, inTurn |-> FALSE,
            exited |-> FALSE]
newChild(pc, by, prompt) ==
  [NoChild EXCEPT !.pc = pc, !.by = by, !.prompt = prompt]

Live(k) == kids[k].pc # "none"
Booting(k) == kids[k].pc \in {"exec", "check"}
Full == Cardinality(running) >= MaxRunning

(* One more drainQueue; more than MaxRunning would find nothing to start.   *)
Another(n) == IF n < MaxRunning THEN n + 1 ELSE n
GoDrain == drains' = Another(drains)

(* A slot goes back, and the next in line may start (nobody, in the slip). *)
SlotGivenQuietly(k) == running' = running \ {k} /\ UNCHANGED drains

GiveSlot(k) == running' = running \ {k} /\ GoDrain

----------------------------------------------------------------------------
(* The session file.  An entry's position is its number.                   *)

historyExists(k) == file[k] # <<>>
IsInput(e) == e \in {"task", "msg"}
IsClose(e) == e \in {"done", "cancelled"}

LastOf(S) == CHOOSE i \in S \cup {0} : \A j \in S : j <= i

(* lastTurn: an input opens, done and cancelled close, and a done right    *)
(* after a cancelled is bookkeeping.                                       *)
lastTurn(f) ==
  LET input == LastOf({i \in DOMAIN f : IsInput(f[i])})
      closing == LastOf({i \in input + 1 .. Len(f) :
                   IsClose(f[i])
                     /\ ~(i > 1 /\ f[i] = "done" /\ f[i - 1] = "cancelled")})
  IN [input |-> input, closing |-> closing, hasEntry |-> input + closing > 0]

AnyTurn(f) == lastTurn(f).input > 0   \* slip: the close is not looked at
openTurn(f) == lastTurn(f).input > 0 /\ lastTurn(f).closing = 0

TurnKey(f) == LET t == lastTurn(f) IN IF t.closing > 0 THEN t.closing ELSE t.input

----------------------------------------------------------------------------
(* The child process.  A stray is one whose serve died: nobody reads what  *)
(* it prints, and its pipe ends once it is empty.  Each step of a process  *)
(* p with the session file f is one of these outcomes.                     *)

NoProc == [st |-> "none", pipe |-> <<>>, int |-> FALSE, fresh |-> FALSE]
Started == [NoProc EXCEPT !.st = "boot"]
Alive(p) == p.st \notin {"none", "dead"}
Killed(p) == IF Alive(p) THEN [p EXCEPT !.st = "dead"] ELSE p

To(p, f, say) == [proc |-> p, file |-> f, say |-> say]

(* history's mount makes the file, or closes the turn a dead process left. *)
Mounts(p, f) ==
  IF p.st # "boot" THEN {}
  ELSE {To([p EXCEPT !.st = "idle", !.fresh = f = <<>>],
           IF f = <<>> THEN <<"meta">>
           ELSE IF openTurn(f) THEN Append(f, "cancelled") ELSE f, <<>>)}

(* A line opens a turn when none is open; its input is on disk before the  *)
(* turn prints anything.                                                   *)
TakesLine(p, f) ==
  IF p.st # "idle" \/ p.pipe = <<>> \/ p.int THEN {}
  ELSE {To([p EXCEPT !.st = "open", !.pipe = Tail(@)],
           Append(f, Head(p.pipe)), <<>>)}

(* A line that arrives in a turn steers it.                                *)
Steers(p, f) ==
  IF p.st # "turn" \/ p.pipe = <<>> \/ p.int THEN {}
  ELSE {To([p EXCEPT !.pipe = Tail(@)], f, <<>>)}

Works(p, f) ==
  IF p.st # "open" THEN {} ELSE {To([p EXCEPT !.st = "turn"], f, <<"work">>)}

(* done is printed, then recorded; read late, it is as if recorded first.  *)
Finishes(p, f) ==
  IF p.st # "turn" THEN {} ELSE {To([p EXCEPT !.st = "flush"], f, <<"done">>)}

Flushes(p, f) ==
  IF p.st # "flush" THEN {}
  ELSE {To([p EXCEPT !.st = "idle"], Append(f, "done"), <<>>)}

(* SIGINT ends the process, and before it the turn: cancelled, then done.  *)
Cancels(p, f) ==
  IF ~p.int \/ p.st \notin {"open", "turn"} THEN {}
  ELSE LET ends == <<"cancelled", "done">>
       IN {To([p EXCEPT !.st = "dead"], f \o ends, ends)}

(* A clean exit removes a file it made and never wrote a turn into.        *)
Leaves(p, f, eof) ==
  IF ~(p.st \in {"boot", "idle"} /\ (p.int \/ (eof /\ p.pipe = <<>>))) THEN {}
  ELSE {To([p EXCEPT !.st = "dead"],
           IF p.fresh /\ f = <<"meta">> THEN <<>> ELSE f, <<>>)}

ProcSteps(p, f, eof) ==
  Mounts(p, f) \cup TakesLine(p, f) \cup Steers(p, f) \cup Works(p, f)
  \cup Finishes(p, f) \cup Flushes(p, f) \cup Cancels(p, f)
  \cup Leaves(p, f, eof)

----------------------------------------------------------------------------
(* What an event does to serve: emit, then childEventLocked.               *)

(* The held stop of a child goes out, as SIGINT.                           *)
Release(k) ==
  /\ kids' = [kids EXCEPT ![k].unread = FALSE, ![k].inTurn = TRUE,
                ![k].held = FALSE, ![k].signalled = @ \/ kids[k].held]
  /\ proc' = [proc EXCEPT ![k].int = @ \/ (kids[k].held /\ Alive(proc[k]))]

Report(k, trigger, pc) ==
  [k |-> k, trigger |-> trigger, stopped |-> trigger = "exit" /\ kids[k].stopReq,
   pc |-> pc, key |-> 0, n |-> 0]

(* Goroutines that stand at the same place are told apart by n, and the    *)
(* last of them goes first.                                                *)
More(r) ==
  LET n == CHOOSE i \in 0 .. Cardinality(reports) :
             [r EXCEPT !.n = i] \notin reports /\ \A j \in 0 .. i - 1 :
               [r EXCEPT !.n = j] \in reports
  IN reports \cup {[r EXCEPT !.n = n]}
IsLast(r) == [r EXCEPT !.n = @ + 1] \notin reports

(* A child whose turn is under way is no longer pending.                   *)
TaskTaken(k, kind) ==
  meta[k].task /\ ~meta[k].queued
    /\ (kind # "exit" \/ (~meta[k].prompt /\ historyExists(k)))

SlotBack(kind) == kind # "work"

childEvent(k, kind) ==
  IF ~meta[k].here THEN UNCHANGED <<meta, running, drains, reports>>
  ELSE /\ meta' = [meta EXCEPT ![k].task = @ /\ ~TaskTaken(k, kind)]
       /\ IF ~SlotBack(kind) THEN UNCHANGED <<running, drains, reports>>
          ELSE /\ running' = running \ {k}
               /\ IF serve = "closing" \/ kind = "work"
                  THEN UNCHANGED <<drains, reports>>
                  ELSE IF kind = "exit" /\ kids[k].startFailed
                  THEN GoDrain /\ UNCHANGED reports
                  ELSE /\ GoDrain
                       /\ reports' = More(IF kind = "exit"
                                          THEN Report(k, "exit", "start")
                                          ELSE Report(k, "close", "decide"))

----------------------------------------------------------------------------
Init ==
  /\ serve = "up"
  /\ meta = [k \in Kids |-> NoMeta]
  /\ queue = <<>> /\ running = {} /\ drains = 0
  /\ kids = [k \in Kids |-> NoChild]
  /\ proc = [k \in Kids |-> NoProc] /\ stray = proc
  /\ out = [k \in Kids |-> <<>>] /\ file = out /\ told = out
  /\ reports = {} /\ freeing = {} /\ waiting = {} /\ waitStops = {}
  /\ sending = [k \in Kids |-> "no"]
  /\ owed = {} /\ withdrawing = {}
  /\ past = [spawned |-> 0, orphans |-> {}, messaged |-> {},
             overtaken |-> {}, bootStopped |-> {}, withdrawn |-> {},
             cut |-> {}, restarted |-> FALSE, waitEnded |-> {},
             heard |-> [k \in Kids |-> {}]]
  /\ budget \in Bounds

Up == serve # "down"

----------------------------------------------------------------------------
(* CreateChild, launch, abandon, drainQueue, freeWhenWritten.              *)

(* Behind anyone already waiting, even with a slot free.                   *)
WaitsIfFull == Full
Waits == queue # <<>> \/ Full

CreateChild(k, prompt) ==
  /\ serve = "up"
  /\ past.spawned = k - 1
  /\ Spend(IF prompt THEN "kids" ELSE "rooms")
  /\ past' = [past EXCEPT !.spawned = k]
  /\ meta' = [meta EXCEPT ![k] = [NoMeta EXCEPT !.here = TRUE, !.task = TRUE,
                                    !.prompt = prompt,
                                    !.queued = Waits]]
  /\ IF Waits
     THEN /\ queue' = Append(queue, k)
          /\ IF Full THEN UNCHANGED drains ELSE GoDrain
          /\ UNCHANGED <<running, kids>>
     ELSE /\ running' = running \cup {k}
          /\ kids' = [kids EXCEPT ![k] = newChild("exec", "create", prompt)]
          /\ UNCHANGED <<queue, drains>>
  /\ UNCHANGED <<serve, reports, freeing, waiting, sending, waitStops,
                 withdrawing, owed, file, told, process>>

(* One round of drainQueue: start the oldest, or end.                      *)
DrainQueue ==
  /\ Up /\ drains > 0
  /\ drains' = drains - 1
  /\ IF serve = "closing" \/ queue = <<>> \/ Full
     THEN UNCHANGED <<queue, meta, running, kids>>
     ELSE LET k == Head(queue) IN
       /\ queue' = Tail(queue)
       /\ meta' = [meta EXCEPT ![k].queued = FALSE]
       /\ running' = running \cup {k}
       /\ kids' = [kids EXCEPT ![k] = newChild("exec", "drain", meta[k].prompt)]
  /\ UNCHANGED <<serve, reports, freeing, waiting, sending, waitStops,
                 withdrawing, owed, file, told, process, past, budget>>

LaunchStarts(k) ==
  /\ Up /\ kids[k].pc = "exec"
  /\ kids' = [kids EXCEPT ![k].pc = "check"]
  /\ proc' = [proc EXCEPT ![k] = Started]
  /\ UNCHANGED <<serve, queue, running, drains, reports, freeing, waiting,
                 sending, waitStops, withdrawing, owed, disk, stray, out, past, budget>>

(* endUnstarted: its row reads Ended and its parent is told.               *)
EndUnstarted(k, how, rest) ==
  IF serve = "up" /\ meta[k].here /\ meta[k].ended = "no" /\ meta[k].task
  THEN /\ meta' = [meta EXCEPT ![k].ended = how, ![k].task = FALSE]
       /\ reports' = rest \cup {Report(k, "unstarted", "tell")}
  ELSE meta' = meta /\ reports' = rest

(* An error of launch: CreateChild takes the child back, drainQueue        *)
(* records it and goes on with the next.                                   *)
LaunchFailed(k) ==
  IF kids[k].by = "create"
  THEN /\ meta' = [meta EXCEPT ![k] = NoMeta]
       /\ UNCHANGED reports
  ELSE EndUnstarted(k, "error", reports)

(* start fails: abandon.  The slot goes to the next in line.               *)
LaunchAbandons(k) ==
  /\ Up /\ kids[k].pc = "exec"
  /\ Spend("faults")
  /\ kids' = [kids EXCEPT ![k] = NoChild]
  /\ GiveSlot(k)
  /\ LaunchFailed(k)
  /\ UNCHANGED <<serve, queue, freeing, waiting, sending, waitStops,
                 withdrawing, owed, file, told, process, past>>

(* A stop that arrived while the process booted wins; the slip asks before *)
(* the boot.                                                               *)
StopUnseen(k) == FALSE
StopSeen(k) == kids[k].stopReq

LaunchChecks(k) ==
  /\ Up /\ kids[k].pc = "check"
  /\ IF StopSeen(k)
     THEN /\ meta' = [meta EXCEPT ![k].task = FALSE]
          /\ kids' = [kids EXCEPT ![k].pc = "wait", ![k].dying = TRUE]
          /\ proc' = [proc EXCEPT ![k] = Killed(@)]
          /\ UNCHANGED waiting
     ELSE IF kids[k].prompt
     THEN /\ kids' = [kids EXCEPT ![k].pc = "prompt"]
          /\ UNCHANGED <<meta, proc, waiting>>
     ELSE /\ kids' = [kids EXCEPT ![k].pc = "up"]
          /\ waiting' = waiting \cup {k}
          /\ UNCHANGED <<meta, proc>>
  /\ drains' = IF kids'[k].pc = "up" /\ kids[k].by = "drain"
               THEN Another(drains) ELSE drains
  /\ UNCHANGED <<serve, queue, running, reports, freeing, sending, waitStops,
                 withdrawing, owed, file, told, stray, out, past, budget>>

(* The task goes into the pipe, or the process is gone: the same as a      *)
(* start that failed.                                                      *)
LaunchPrompts(k) ==
  /\ Up /\ kids[k].pc = "prompt"
  /\ IF Alive(proc[k])
     THEN /\ kids' = [kids EXCEPT ![k].pc = "up", ![k].unread = TRUE]
          /\ proc' = [proc EXCEPT ![k].pipe = Append(@, "task")]
          /\ IF kids[k].by = "drain" THEN GoDrain ELSE UNCHANGED drains
          /\ UNCHANGED running
     ELSE /\ kids' = [kids EXCEPT ![k].pc = "wait", ![k].startFailed = TRUE,
                                 ![k].dying = TRUE]
          /\ running' = running \ {k}
          /\ UNCHANGED <<proc, drains>>
  /\ UNCHANGED <<serve, queue, reports, freeing, waiting, sending, waitStops,
                 withdrawing, owed, disk, stray, out, past, budget>>

(* freeWhenWritten: the file is there, or the process has gone.            *)
FreeLooks(k) ==
  /\ Up /\ k \in waiting
  /\ historyExists(k) \/ ~Live(k)
  /\ waiting' = waiting \ {k}
  /\ freeing' = IF \E i \in DOMAIN file[k] : IsInput(file[k][i])
                THEN freeing ELSE freeing \cup {k}
  /\ UNCHANGED <<serve, queue, running, kids, drains, reports, sending,
                 waitStops, withdrawing, owed, disk, process, past, budget>>

FreeGives(k) ==
  /\ Up /\ k \in freeing
  /\ freeing' = freeing \ {k}
  /\ GiveSlot(k)
  /\ meta' = [meta EXCEPT ![k].task = @ /\ ~historyExists(k)]
  /\ UNCHANGED <<serve, queue, kids, reports, waiting, sending, waitStops,
                 withdrawing, owed, file, told, process, past, budget>>

----------------------------------------------------------------------------
(* start's readers and its reap: emit, exit, drop.                         *)

ReadEvent(k) ==
  /\ Up /\ Live(k) /\ out[k] # <<>>
  /\ LET kind == Head(out[k]) IN
       /\ IF kind = "work" THEN Release(k)
          ELSE /\ kids' = [kids EXCEPT ![k].inTurn = FALSE]
               /\ UNCHANGED proc
       /\ childEvent(k, kind)
  /\ out' = [out EXCEPT ![k] = Tail(@)]
  /\ UNCHANGED <<serve, queue, freeing, waiting, sending, waitStops,
                 withdrawing, owed, file, told, stray, past, budget>>

(* Only after the last line was read.                                      *)
Reap(k) ==
  /\ Up /\ Live(k) /\ ~kids[k].exited
  /\ proc[k].st = "dead" /\ out[k] = <<>>
  /\ kids' = [kids EXCEPT ![k].inTurn = FALSE, ![k].exited = TRUE]
  /\ childEvent(k, "exit")
  /\ UNCHANGED <<serve, queue, freeing, waiting, sending, waitStops,
                 withdrawing, owed, file, told, process, past, budget>>

(* The lease goes back, and a launch or a drain that waited for it goes on. *)
(* One that is still between its check and its prompt keeps the lease here *)
(* until its write has failed; in the code the lease may go before that.   *)
Drop(k) ==
  /\ Up /\ kids[k].exited /\ kids[k].pc \in {"up", "wait"}
  /\ kids' = [kids EXCEPT ![k] = NoChild]
  /\ proc' = [proc EXCEPT ![k] = NoProc]
  /\ IF kids[k].startFailed
     THEN LaunchFailed(k) /\ running' = running \ {k}
     ELSE UNCHANGED <<meta, reports, running>>
  /\ IF kids[k].pc = "wait" /\ kids[k].by = "drain"
     THEN GoDrain ELSE UNCHANGED drains
  /\ UNCHANGED <<serve, queue, freeing, waiting, sending, waitStops,
                 withdrawing, owed, file, told, stray, out, past, budget>>

----------------------------------------------------------------------------
(* Send: ensure, the slot, the line.                                       *)

SendStarts(k) ==
  /\ serve = "up" /\ sending[k] = "no"
  /\ meta[k].here /\ ~meta[k].queued /\ historyExists(k)
  /\ Spend("sends")
  /\ IF Live(k)
     THEN /\ ~kids[k].dying /\ ~kids[k].signalled
          /\ UNCHANGED <<kids, proc>>
     ELSE /\ ~Alive(stray[k])
          /\ kids' = [kids EXCEPT ![k] = newChild("up", "ensure", FALSE)]
          /\ proc' = [proc EXCEPT ![k] = Started]
  /\ sending' = [sending EXCEPT ![k] = "take"]
  /\ past' = [past EXCEPT !.messaged = @ \cup {k}]
  /\ UNCHANGED <<serve, queue, running, drains, reports, freeing, waiting,
                 waitStops, withdrawing, owed, disk, stray, out>>

(* A message's turn holds a slot, past the cap if need be.                 *)
SendTakes(k) ==
  /\ Up /\ sending[k] = "take"
  /\ IF meta[k].here /\ ~meta[k].queued /\ k \notin running
     THEN /\ running' = running \cup {k}
          /\ sending' = [sending EXCEPT ![k] = "took"]
     ELSE /\ sending' = [sending EXCEPT ![k] = "write"]
          /\ UNCHANGED running
  /\ UNCHANGED <<serve, queue, kids, drains, reports, freeing, waiting,
                 waitStops, withdrawing, owed, disk, process, past, budget>>

SendWrites(k) ==
  /\ Up /\ sending[k] \in {"took", "write"} /\ kids[k].pc # "exec"
  /\ sending' = [sending EXCEPT ![k] = "no"]
  /\ past' = [past EXCEPT !.overtaken =
                IF kids[k].pc \in {"check", "prompt"} THEN @ \cup {k} ELSE @]
  /\ IF Live(k) /\ Alive(proc[k])
     THEN /\ kids' = [kids EXCEPT ![k].unread = TRUE]
          /\ proc' = [proc EXCEPT ![k].pipe = Append(@, "msg")]
          /\ UNCHANGED <<running, drains>>
     ELSE /\ IF sending[k] = "took"
             THEN GiveSlot(k)
             ELSE UNCHANGED <<running, drains>>
          /\ UNCHANGED <<kids, proc>>
  /\ UNCHANGED <<serve, queue, reports, freeing, waiting, waitStops,
                 withdrawing, owed, disk, stray, out, budget>>

----------------------------------------------------------------------------
(* stopChild, with Interrupt, and WithdrawChild, with Kill.                *)

Kill(k) ==
  /\ kids' = [kids EXCEPT ![k].dying = TRUE]
  /\ proc' = [proc EXCEPT ![k] = Killed(@)]

StopDrops(k) ==
  /\ \E i \in DOMAIN queue : queue[i] = k /\ queue' = RemoveAt(queue, i)
  /\ meta' = [meta EXCEPT ![k] = NoMeta]
  /\ UNCHANGED <<kids, proc, waitStops, past>>

(* Still booting: launch sees this and kills instead of prompting.         *)
StopBooting(k) ==
  /\ k \in running /\ Booting(k)
  /\ kids' = [kids EXCEPT ![k].stopReq = TRUE]
  /\ past' = [past EXCEPT !.bootStopped = @ \cup {k}]
  /\ UNCHANGED <<queue, meta, proc, waitStops>>

(* Started, its prompt not yet a turn: it is ended.                        *)
StopPending(k) ==
  /\ k \in running /\ Live(k) /\ ~Booting(k) /\ meta[k].task
  /\ kids' = [kids EXCEPT ![k].stopReq = TRUE, ![k].dying = TRUE]
  /\ proc' = [proc EXCEPT ![k] = Killed(@)]
  /\ UNCHANGED <<queue, meta, waitStops, past>>

StatusDone(f) == lastTurn(f).closing > 0 /\ f[lastTurn(f).closing] = "done"

(* SIGINT, held back while the prompt is not a turn yet.                   *)
Interrupt(k) ==
  IF kids[k].unread /\ ~kids[k].inTurn
  THEN /\ kids' = [kids EXCEPT ![k].held = TRUE]
       /\ UNCHANGED proc
  ELSE /\ kids' = [kids EXCEPT ![k].signalled = TRUE]
       /\ proc' = [proc EXCEPT ![k].int = @ \/ Alive(proc[k])]

StopTurn(k) ==
  /\ k \in running /\ Live(k) /\ ~Booting(k) /\ ~meta[k].task
  /\ waitStops' = IF StatusDone(file[k]) THEN waitStops \cup {k} ELSE waitStops
  /\ Interrupt(k)
  /\ UNCHANGED <<queue, meta, past>>

stopChild(k) ==
  /\ serve = "up" /\ meta[k].here
  /\ Spend("stops")
  /\ StopDrops(k) \/ StopBooting(k) \/ StopPending(k) \/ StopTurn(k)
  /\ UNCHANGED <<serve, running, drains, reports, freeing, waiting, sending,
                 withdrawing, owed, file, told, stray, out>>

(* holdLimit is over: the held stop goes out all the same.                 *)
HoldExpires(k) ==
  /\ Up /\ Live(k) /\ kids[k].held
  /\ kids' = [kids EXCEPT ![k].held = FALSE, ![k].signalled = TRUE]
  /\ proc' = [proc EXCEPT ![k].int = @ \/ Alive(proc[k])]
  /\ UNCHANGED <<serve, queue, running, drains, reports, freeing, waiting,
                 sending, waitStops, withdrawing, owed, disk, stray, out,
                 past, budget>>

(* The parent gave the create up before its answer reached it; the slip    *)
(* leaves the child in line.                                               *)
StillQueued(k) == queue
Unqueued(k) ==
  LET at == {i \in DOMAIN queue : queue[i] = k}
  IN IF at = {} THEN queue ELSE RemoveAt(queue, CHOOSE i \in at : TRUE)

(* The reports the parent got, or that are marked and on their way to it.  *)
OnTheWay(k) ==
  {told[k][i] : i \in DOMAIN told[k]}
    \cup {r.key : r \in {q \in reports : q.k = k /\ q.pc = "tell"}}

WithdrawChild(k) ==
  /\ serve = "up" /\ meta[k].here
  /\ ~(kids[k].by = "create" /\ kids[k].pc # "up")
  /\ Spend("withdraws")
  /\ queue' = Unqueued(k)
  /\ meta' = [meta EXCEPT ![k] = NoMeta]
  /\ running' = running \ {k}
  /\ withdrawing' = withdrawing \cup {k}
  /\ past' = [past EXCEPT !.withdrawn = @ \cup {k}, !.heard[k] = OnTheWay(k)]
  /\ UNCHANGED <<serve, kids, drains, reports, freeing, waiting, sending,
                 waitStops, owed, file, told, process>>

WithdrawKills(k) ==
  /\ Up /\ k \in withdrawing
  /\ Live(k) /\ kids[k].pc # "exec" /\ Alive(proc[k])
  /\ Kill(k)
  /\ UNCHANGED <<serve, queue, running, drains, reports, freeing, waiting,
                 sending, waitStops, withdrawing, owed, disk, stray, out,
                 past, budget>>

WithdrawEnds(k) ==
  /\ Up /\ k \in withdrawing /\ ~Live(k)
  /\ withdrawing' = withdrawing \ {k}
  /\ file' = [file EXCEPT ![k] = <<>>]
  /\ GoDrain
  /\ UNCHANGED <<serve, queue, running, kids, reports, freeing, waiting,
                 sending, waitStops, owed, meta, told, process, past, budget>>

----------------------------------------------------------------------------
(* report and reportOwed.                                                  *)

(* A stop of a child whose turn was over is said by a cancelled of its own. *)
ReportStarts(r) ==
  /\ Up /\ r \in reports /\ r.pc = "start"
  /\ reports' = (reports \ {r}) \cup {[r EXCEPT !.pc = "decide"]}
  /\ waitStops' = waitStops \ {r.k}
  /\ IF r.k \in waitStops /\ StatusDone(file[r.k])
     THEN /\ file' = [file EXCEPT ![r.k] = Append(@, "cancelled")]
          /\ past' = [past EXCEPT !.waitEnded = @ \cup {r.k}]
     ELSE UNCHANGED <<file, past>>
  /\ UNCHANGED <<serve, queue, running, kids, drains, freeing, waiting,
                 sending, withdrawing, owed, meta, told, process, budget>>

(* The closing entry decides; an open turn is waited for, but not for ever *)
(* and not once the process is gone.                                       *)
ReportDecides(r) ==
  /\ Up /\ r \in reports /\ r.pc = "decide" /\ IsLast(r)
  /\ LET t == lastTurn(file[r.k])
         rest == reports \ {r}
     IN IF t.hasEntry
        THEN /\ reports' = rest \cup {[r EXCEPT !.pc = "mark", !.n = 0,
                                         !.key = TurnKey(file[r.k])]}
             /\ UNCHANGED meta
        ELSE IF r.trigger = "exit"
        THEN EndUnstarted(r.k, IF r.stopped THEN "stopped" ELSE "error", rest)
        ELSE reports' = rest /\ UNCHANGED meta
  /\ UNCHANGED <<serve, queue, running, kids, drains, freeing, waiting,
                 sending, waitStops, withdrawing, owed, file, told, process,
                 past, budget>>

UnreportedAny(r) == meta[r.k].here   \* slip: the mark is not looked at
UnreportedGone(r) == r.key > meta[r.k].reported   \* slip: withdrawn or not
Unreported(r) == meta[r.k].here /\ r.key > meta[r.k].reported

ReportMarks(r) ==
  /\ Up /\ r \in reports /\ r.pc = "mark"
  /\ IF Unreported(r)
     THEN /\ meta' = [meta EXCEPT ![r.k].reported = r.key]
          /\ reports' = (reports \ {r}) \cup {[r EXCEPT !.pc = "tell"]}
     ELSE /\ reports' = reports \ {r}
          /\ UNCHANGED meta
  /\ UNCHANGED <<serve, queue, running, kids, drains, freeing, waiting,
                 sending, waitStops, withdrawing, owed, file, told, process,
                 past, budget>>

ReportTells(r) ==
  /\ Up /\ r \in reports /\ r.pc = "tell"
  /\ told' = [told EXCEPT ![r.k] = Append(@, r.key)]
  /\ reports' = reports \ {r}
  /\ UNCHANGED <<serve, queue, running, kids, drains, freeing, waiting,
                 sending, waitStops, withdrawing, owed, meta, file, process,
                 past, budget>>

(* The reports a past serve owed and never sent, oldest child first.       *)
ReportOwed ==
  /\ Up /\ owed # {}
  /\ LET k == CHOOSE i \in owed : \A j \in owed : i <= j
         due == /\ serve = "up" /\ historyExists(k) /\ ~Live(k)
                /\ TurnKey(file[k]) > meta[k].reported
     IN /\ owed' = IF serve = "closing" THEN {} ELSE owed \ {k}
        /\ reports' = IF due
                      THEN reports \cup {[Report(k, "exit", "start")
                                            EXCEPT !.stopped = FALSE]}
                      ELSE reports
  /\ UNCHANGED <<serve, queue, running, kids, drains, freeing, waiting,
                 sending, waitStops, withdrawing, disk, process, past, budget>>

----------------------------------------------------------------------------
(* Close, a crash, and NewSupervisor.                                      *)

(* The queue goes in memory only; the tasks stay in meta.json.             *)
Close ==
  /\ serve = "up"
  /\ Spend("restarts")
  /\ serve' = "closing"
  /\ queue' = <<>>
  /\ UNCHANGED <<running, kids, drains, reports, freeing, waiting, sending,
                 waitStops, withdrawing, owed, disk, process, past>>

CloseKills(k) ==
  /\ serve = "closing"
  /\ Live(k) /\ kids[k].pc # "exec" /\ Alive(proc[k])
  /\ Kill(k)
  /\ UNCHANGED <<serve, queue, running, drains, reports, freeing, waiting,
                 sending, waitStops, withdrawing, owed, disk, stray, out,
                 past, budget>>

(* serve is gone, with every goroutine of its own.                         *)
Forget ==
  /\ serve' = "down"
  /\ queue' = <<>> /\ running' = {} /\ drains' = 0 /\ reports' = {}
  /\ kids' = [k \in Kids |-> NoChild]
  /\ freeing' = {} /\ waiting' = {} /\ waitStops' = {} /\ withdrawing' = {}
  /\ sending' = [k \in Kids |-> "no"]
  /\ owed' = {}

(* What is lost with it: reports marked and not sent, withdrawals not done, *)
(* and stops that launch has not looked for.                               *)
Untold == {r.k : r \in {q \in reports : q.pc = "tell"}} \cup withdrawing
PastServe ==
  [past EXCEPT !.cut = @ \cup Untold, !.restarted = TRUE,
               !.bootStopped = {k \in @ : ~meta[k].task}]

CloseEnds ==
  /\ serve = "closing" /\ owed = {} /\ \A k \in Kids : ~Live(k)
  /\ Forget
  /\ past' = PastServe
  /\ UNCHANGED <<disk, process, budget>>

ServeCrashes ==
  /\ Up
  /\ Spend("restarts")
  /\ Forget
  /\ stray' = [k \in Kids |-> IF Alive(proc[k]) THEN proc[k] ELSE stray[k]]
  /\ proc' = [k \in Kids |-> NoProc] /\ out' = [k \in Kids |-> <<>>]
  /\ past' = [PastServe EXCEPT
                !.orphans = @ \cup {k \in Kids : Alive(proc[k])}]
  /\ UNCHANGED disk

(* A task whose turn got under way, or a thread that wrote its file, is    *)
(* spent; requeueLocked puts the others back in line.                      *)
SpentRoom(k) == ~meta[k].prompt /\ historyExists(k)   \* slip: rooms only

Spent(k) ==
  \/ ~meta[k].prompt /\ historyExists(k)
  \/ lastTurn(file[k]).hasEntry

OldestFirst(q, S) ==
  /\ {q[i] : i \in DOMAIN q} = S
  /\ \A i, j \in DOMAIN q : i < j => q[i] < q[j]

NewSupervisor ==
  /\ serve = "down"
  /\ serve' = "up"
  /\ LET tasks == {k \in Kids : meta[k].task}
         again == {k \in tasks : ~Spent(k)}
     IN /\ meta' = [k \in Kids |-> IF k \in tasks
                      THEN [meta[k] EXCEPT !.task = k \in again,
                                           !.queued = k \in again]
                      ELSE meta[k]]
        /\ \E q \in [1 .. Cardinality(again) -> again] :
             OldestFirst(q, again) /\ queue' = q
  /\ drains' = IF queue' = <<>> THEN 0 ELSE 1
  /\ owed' = {k \in Kids : meta'[k].here /\ ~meta'[k].task}
  /\ UNCHANGED <<running, kids, reports, freeing, waiting, sending, waitStops,
                 withdrawing, file, told, process, past, budget>>

----------------------------------------------------------------------------
(* What the processes do.                                                  *)

ProcMoves(k) ==
  \E o \in ProcSteps(proc[k], file[k], FALSE) :
    /\ proc' = [proc EXCEPT ![k] = o.proc]
    /\ file' = [file EXCEPT ![k] = o.file]
    /\ out' = [out EXCEPT ![k] = @ \o o.say]
    /\ UNCHANGED <<serve, memory, meta, told, stray, past, budget>>

(* A stray whose file was removed goes on writing into the removed one.    *)
StrayMoves(k) ==
  \E o \in ProcSteps(stray[k], file[k], TRUE) :
    /\ stray' = [stray EXCEPT ![k] = IF o.proc.st = "dead" THEN NoProc
                                     ELSE o.proc]
    /\ file' = [file EXCEPT ![k] = IF @ = <<>> /\ stray[k].st # "boot"
                                   THEN @ ELSE o.file]
    /\ UNCHANGED <<serve, memory, meta, told, proc, out, past, budget>>

(* A process dies on its own.                                              *)
ProcDies(k) ==
  /\ Alive(proc[k])
  /\ Spend("faults")
  /\ proc' = [proc EXCEPT ![k] = Killed(@)]
  /\ UNCHANGED <<serve, memory, disk, stray, out, past>>

----------------------------------------------------------------------------
Launch(k) ==
  \/ LaunchStarts(k) \/ LaunchAbandons(k) \/ LaunchChecks(k)
  \/ LaunchPrompts(k) \/ FreeLooks(k) \/ FreeGives(k)

Serve(k) == ReadEvent(k) \/ Reap(k) \/ Drop(k) \/ HoldExpires(k)

Ask(k) ==
  \/ CreateChild(k, TRUE) \/ CreateChild(k, FALSE) \/ SendStarts(k) \/ SendTakes(k)
  \/ SendWrites(k) \/ stopChild(k) \/ WithdrawChild(k) \/ WithdrawKills(k) \/ WithdrawEnds(k)

Reports == \E r \in reports :
  ReportStarts(r) \/ ReportDecides(r) \/ ReportMarks(r) \/ ReportTells(r)

Next ==
  \/ \E k \in Kids : Launch(k) \/ Serve(k) \/ Ask(k) \/ CloseKills(k)
                     \/ ProcMoves(k) \/ StrayMoves(k) \/ ProcDies(k)
  \/ DrainQueue \/ Reports \/ ReportOwed
  \/ Close \/ CloseEnds \/ ServeCrashes \/ NewSupervisor

Spec == Init /\ [][Next]_vars

----------------------------------------------------------------------------
(* Properties.                                                             *)

InQueue(k) == \E i \in DOMAIN queue : queue[i] = k
Launching(k) == kids[k].pc \in {"exec", "check", "prompt", "wait"}

(* The variables keep their types; the queue is what meta.json says waits, *)
(* oldest first, and a process that runs is leased.                        *)
TypeOK ==
  /\ running \subseteq Kids /\ drains \in 0 .. MaxRunning
  /\ waiting \cup freeing \cup waitStops \cup withdrawing \cup owed \subseteq Kids
  /\ \A i, j \in DOMAIN queue : i < j => queue[i] < queue[j]
  /\ \A k \in Kids :
       /\ k \notin past.withdrawn => meta[k].reported \in 0 .. Len(file[k])
       /\ Alive(proc[k]) => Live(k)
       /\ meta[k].queued => meta[k].task /\ ~Launching(k)
       /\ serve = "up" => (meta[k].queued <=> InQueue(k))
       /\ ~meta[k].here => meta[k] = NoMeta

(* children.go:72 "starting it again would run the task twice": a task is  *)
(* read once, over restarts, unless a crash of serve left the child alive. *)
TaskOnce ==
  \A k \in Kids \ past.orphans :
    Cardinality({i \in DOMAIN file[k] : file[k][i] = "task"}) <= 1

(* launch: "A stop that arrived while the process booted wins": the task   *)
(* of a child stopped then is never read, after restarts of serve either.  *)
(* Not so if serve ended before launch looked for the stop, which is kept  *)
(* in memory (the next serve starts the task), nor for a child that a      *)
(* crash of serve left alive with a task in its pipe.                      *)
StopWins ==
  \A k \in past.bootStopped \ past.orphans :
    \A i \in DOMAIN file[k] : file[k][i] # "task"

(* A turn that is open holds a slot, so that the cap counts it and a stop  *)
(* reaches it; only messages get past it (see SlotIsWork).                 *)
OpenTurn(k) == proc[k].st \in {"open", "turn"}
TurnHoldsSlot ==
  \A k \in Kids :
    Up /\ OpenTurn(k) /\ meta[k].here /\ k \notin past.messaged => k \in running

(* agent_stop_paths.fizz:259 "SlotIsWork", Send: "an open turn holds a     *)
(* running slot until its done/cancelled/exit gives it back".              *)
SlotIsWork == \A k \in Kids : Up /\ OpenTurn(k) /\ meta[k].here => k \in running

(* A slot is never leaked: whoever holds one has a launch, a line, a turn, *)
(* an event or an exit to come that gives it back.                         *)
NoLeakedSlot ==
  \A k \in running :
    \/ Launching(k) \/ sending[k] = "took" \/ k \in waiting \cup freeing
    \/ out[k] # <<>>
    \/ Live(k) /\ ~kids[k].exited
         /\ (OpenTurn(k) \/ proc[k].pipe # <<>> \/ proc[k].st = "dead")

(* No wake-up is lost: with a child waiting and a slot free, a drain is on *)
(* its way.                                                                *)
NoLostWake ==
  serve = "up" /\ queue # <<>> /\ ~Full =>
    \/ drains > 0 \/ freeing # {} \/ withdrawing # {}
    \/ \E k \in Kids : sending[k] = "took"
    \/ \E k \in Kids : \/ Launching(k) /\ kids[k].by = "drain"
                       \/ kids[k].startFailed /\ ~kids[k].exited

(* The slots: each held for work to come, each turn under one, each free   *)
(* one given to the next in line.                                          *)
SlotsRight == TurnHoldsSlot /\ NoLeakedSlot /\ NoLostWake

(* Nothing more is to come of a child before somebody asks for it.         *)
AtRest(k) ==
  /\ serve = "up" /\ k \notin owed /\ sending[k] = "no" /\ ~meta[k].queued
  /\ \A r \in reports : r.k # k
  /\ kids[k].pc \in {"none", "up"} /\ ~kids[k].exited
  /\ proc[k].st \in {"none", "idle"} /\ proc[k].pipe = <<>> /\ out[k] = <<>>

(* report: a child's last turn is marked reported, however it ended: done, *)
(* cancelled, killed, cut by a restart of serve.  Not so for a message *)
(* that overtook the task of a child whose start then failed.              *)
TurnsReported ==
  \A k \in Kids \ (past.orphans \cup past.overtaken) : AtRest(k) /\ meta[k].here
                     => lastTurn(file[k]).input <= meta[k].reported

(* ... and the parent has been told, unless serve ended in between.        *)
ParentTold ==
  \A k \in Kids \ past.cut : AtRest(k) /\ meta[k].reported > 0
      => \E i \in DOMAIN told[k] : told[k][i] = meta[k].reported

SameTurn(f, x, y) == \A i \in x + 1 .. y : ~IsInput(f[i])

(* report says "exactly once per turn"; the code keeps less.  No entry is  *)
(* told twice, over restarts too.  A turn is told a second time only if it *)
(* was open at the first (told under its input: the flush was slow, or the *)
(* process died in the turn) and closed since, or if it was a wait that a  *)
(* stop ended; never under two of its closing entries otherwise.  A child  *)
(* that a crash of serve left alive beside its successor is excepted.      *)
ToldOnce ==
  \A k \in Kids : \A i, j \in DOMAIN told[k] :
    LET x == told[k][i]
        y == told[k][j]
    IN /\ i # j => x # y
       /\ k \notin past.orphans \cup past.withdrawn =>
            (x \in 1 .. y - 1 /\ SameTurn(file[k], x, y)
               => IsInput(file[k][x]) \/ k \in past.waitEnded)

(* endUnstarted: a child that ended before its first turn reads Ended, and *)
(* its parent knows; not one whose stop came while it booted.              *)
UnstartedEnded ==
  \A k \in Kids \ past.bootStopped :
    AtRest(k) /\ ~Live(k) /\ meta[k].here /\ meta[k].prompt
        /\ ~lastTurn(file[k]).hasEntry
      => meta[k].ended # "no" /\ (told[k] # <<>> \/ k \in past.cut)

(* The parent knows how each turn of its child ended, and hears of each    *)
(* ending once.                                                            *)
ParentKnows == TurnsReported /\ ParentTold /\ ToldOnce /\ UnstartedEnded

(* WithdrawChild: "the child must neither run on nor report".  Once it is  *)
(* done, no process is leased and no slot held, over restarts too, and the *)
(* session file is gone, unless serve ended before it could be removed or  *)
(* a crash of serve had left a process to write it.  From the withdrawal   *)
(* on, the parent hears nothing but a report that was marked before it:    *)
(* that one is still told, against the words quoted.                       *)
WithdrawnGone ==
  \A k \in past.withdrawn :
    /\ k \notin withdrawing => ~Live(k) /\ k \notin running
    /\ k \notin withdrawing \cup past.cut \cup past.orphans => file[k] = <<>>
    /\ \A i \in DOMAIN told[k] : told[k][i] \in past.heard[k]

(* What was stopped or withdrawn before it ran does not run.               *)
StopsHold == StopWins /\ WithdrawnGone

(* CreateChild: "Behind anyone already waiting, even with a slot free".    *)
StartsInOrder ==
  [][\A k \in Kids : kids'[k].pc = "exec" /\ kids[k].pc # "exec"
       => \A j \in 1 .. k - 1 : ~meta'[j].queued]_vars

============================================================================
