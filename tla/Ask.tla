-------------------------------- MODULE Ask --------------------------------
(***************************************************************************)
(* Questions to the user (plugins/ask) and the way of an answer: a call of *)
(* the agent's puts a question and blocks; the child process prints it;    *)
(* serve arms it and takes one answer for it; the child's reader of stdin  *)
(* hands the answer to the Asker, which wakes the call.  Meanwhile the     *)
(* rows may be remounted with a new Asker, the question may time out, the  *)
(* user may stop the turn, and the process may die and be started again.   *)
(*                                                                         *)
(* One step is one hold of a mutex (Asker.mu, hlMu, Supervisor.mu), one    *)
(* append to the history with the event that goes with it, or one line of  *)
(* a pipe.  What readers of the history conclude from it (lastAskSeq,      *)
(* askClosedIn) is kept folded: the questions recorded, and those closed.  *)
(*                                                                         *)
(* A question is named by the call that puts it; its id is a number that   *)
(* its Asker gave it.  A "native" call is the engine's ask or secret, a    *)
(* "rule" the approval that a bash call waits for, a "block" tools.ask in  *)
(* a code block of the loop.                                               *)
(***************************************************************************)
EXTENDS Integers, Sequences, FiniteSets, SequencesExt

CONSTANTS Calls,      \* calls that ask, each at most once
          Scenes,     \* what a behaviour has: the kinds of the calls, and bounds on
              \* remounts, answers posted, stops, deaths of the process
          MaxMounts,  \* bound: Askers, over remounts and processes
                  NoCall

Kinds == {"native", "rule", "block"}
Whats == {"remounts", "posts", "stops", "deaths"}
ASSUME AskAssumption ==
  /\ IsFiniteSet(Calls)
  /\ Scenes \subseteq [kind : [Calls -> Kinds], budget : [Whats -> Nat]]
  /\ MaxMounts \in Nat \ {0}
  /\ NoCall \notin Calls /\ Calls \cap {"empty", "closed"} = {}

VARIABLES
  kind,     \* what the calls are
  call,     \* per call: where it stands, its Asker and its id
  box,      \* per call: its answer channel, the question the answer in it
            \* was written for
  seq,      \* per Asker: the last id it gave
  pending,  \* per Asker: the calls whose question it holds
  slot,     \* per Asker: the call in its native channel
  mount,    \* the newest Asker
  service,  \* the Asker "ask-answers" provides, 0 between rows
  tool,     \* the Asker of tools.ask in the VM
  vm,       \* the call that holds the VM
  rows,     \* steps left of the remount under way
  answerer, \* hlAnswer: the Asker of the mounted ui row, 0 while it is down
  hlAsk,    \* the question the child routes an answer to
  events,   \* published events the child has not printed
  pump,     \* the child's reader of stdin
  inp, out, \* the child's pipes
  asked,    \* history: questions recorded
  closed,   \* history: those with a recorded end after them
  owed,     \* a turn is open: its done is to come
  stopped,  \* calls whose context was cancelled
  arm,      \* serve's s.asks
  kid,      \* serve's child: "up", "dead" with output left, "gone"
  posts,    \* Supervisor.Answer calls under way
  strayed,  \* a question was put to an Asker already disposed
  budget    \* what is left of the bounds

asker == <<seq, pending, slot, mount>>
kernel == <<service, tool, vm, rows>>
router == <<answerer, hlAsk, events, pump>>
history == <<asked, closed>>
serve == <<arm, kid, posts>>
vars == <<kind, call, box, asker, kernel, router, inp, out, history, owed,
          stopped, serve, strayed, budget>>

Askers == 1 .. MaxMounts
Spend(what) == budget[what] > 0 /\ budget' = [budget EXCEPT ![what] = @ - 1]

----------------------------------------------------------------------------

Id(q) == call[q].id
SameId(q) == {p \in asked : Id(p) = Id(q)}

\* Slip: each Asker starts at ask-1.
FirstAskSeq == 0

\* lastAskSeq: the highest id the history has.
LastAskSeq ==
  IF asked = {} THEN 0
  ELSE CHOOSE n \in {Id(q) : q \in asked} : \A q \in asked : Id(q) <= n

At(q, pc) == call' = [call EXCEPT ![q].at = pc]
Busy == {q \in Calls : call[q].at \notin {"idle", "over", "dead"}}
TakesSlot(q) == kind[q] # "block"
Event(k, q) == [kind |-> k, of |-> q]

\* emit: an event goes to the ui row; with the row down nobody hears it.
Emit(e) == events' = IF answerer = 0 THEN events ELSE Append(events, e)

\* Slip: the end of any call that asks is the end of this one.
EndsAnyAsk(q, e) ==
  \/ e.kind = "result" /\ kind[q] # "native"
  \/ e.kind = "call"

\* askEnded and endsAsk: e means that question q has returned. Only a
\* native question knows the call it blocks.
EndsAsk(q, e) ==
  \/ e.kind = "result" /\ kind[q] # "native"
  \/ e.kind = "call" /\ (kind[q] = "native" => e.of = q)

\* What an event leaves of the question that an answer is routed to.
Routed(q, e) ==
  IF e.kind = "ask" THEN e.of
  ELSE IF \/ q = NoCall
          \/ e.kind \in {"done", "exit"}
          \/ e.kind = "end" /\ Id(e.of) = Id(q)
          \/ EndsAsk(q, e)
       THEN NoCall
       ELSE q

\* Slip: questions the history does not have are closed, too.
ClosesUnasked(e) ==
  {p \in Calls : e.kind = "done" \/ EndsAsk(p, e)}

\* askClosedIn, one entry at a time: what e closes.
Closes(e) ==
  {p \in asked : e.kind = "done" \/ EndsAsk(p, e)}

----------------------------------------------------------------------------

Init ==
  /\ \E s \in Scenes : kind = s.kind /\ budget = s.budget
  /\ call = [q \in Calls |-> [at |-> "idle", mount |-> 0, id |-> 0]]
  /\ box = [q \in Calls |-> "empty"]
  /\ seq = [m \in Askers |-> 0]
  /\ pending = [m \in Askers |-> {}]
  /\ slot = [m \in Askers |-> NoCall]
  /\ mount = 1 /\ service = 1 /\ tool = 1 /\ vm = NoCall /\ rows = <<>>
  /\ answerer = 1 /\ hlAsk = NoCall /\ events = <<>>
  /\ pump = [at |-> "idle"]
  /\ inp = <<>> /\ out = <<>>
  /\ asked = {} /\ closed = {} /\ owed = FALSE /\ stopped = {}
  /\ arm = NoCall /\ kid = "up" /\ posts = {}
  /\ strayed = FALSE

----------------------------------------------------------------------------
(* A call.                                                                 *)

\* The engine runs a reply's calls at once, each with the Asker it finds;
\* blocks run one after another, with the one the VM has.
StartCall(q) ==
  /\ kid = "up" /\ call[q].at = "idle"
  /\ IF TakesSlot(q)
     THEN /\ service # 0
          /\ call' = [call EXCEPT ![q].at = "queued", ![q].mount = service]
          /\ vm' = vm
     ELSE /\ vm = NoCall
          /\ \A p \in Busy : TakesSlot(p)
          /\ call' = [call EXCEPT ![q].at = "putting", ![q].mount = tool]
          /\ vm' = q
  /\ owed' = TRUE
  /\ UNCHANGED <<kind, box, asker, service, tool, rows, router, inp, out,
                 history, stopped, serve, strayed, budget>>

\* oneAtATime: the Asker's one slot, or the end of the call's context.
TakeSlot(q) ==
  LET m == call[q].mount IN
  /\ call[q].at = "queued"
  /\ \/ slot[m] = NoCall /\ slot' = [slot EXCEPT ![m] = q] /\ At(q, "putting")
     \/ q \in stopped /\ At(q, "left") /\ UNCHANGED slot
  /\ UNCHANGED <<kind, box, seq, pending, mount, kernel, router, inp, out,
                 history, owed, stopped, serve, strayed, budget>>

\* putIn, under mu.
Register(q) ==
  LET m == call[q].mount IN
  /\ call[q].at = "putting"
  /\ seq' = [seq EXCEPT ![m] = @ + 1]
  /\ pending' = [pending EXCEPT ![m] = @ \cup {q}]
  /\ call' = [call EXCEPT ![q].at = "placed", ![q].id = seq'[m]]
  /\ strayed' = (strayed \/ m # service)
  /\ UNCHANGED <<kind, box, slot, mount, kernel, router, inp, out, history,
                 owed, stopped, serve, budget>>

\* putIn: the entry, the event, and a block parks.
Announce(q) ==
  /\ call[q].at = "placed"
  /\ asked' = asked \cup {q}
  /\ closed' = closed \ SameId(q)
  /\ Emit(Event("ask", q))
  /\ vm' = IF vm = q THEN NoCall ELSE vm
  /\ strayed' = (strayed \/ call[q].mount # service)
  /\ At(q, "waiting")
  /\ UNCHANGED <<kind, box, asker, service, tool, rows, answerer, hlAsk, pump,
                 inp, out, owed, stopped, serve, budget>>

\* putIn's select: an answer, a closed channel, the end of the context, or
\* the timeout, which may come at any time.
Choose(q) ==
  /\ call[q].at = "waiting"
  /\ \/ box[q] \in Calls /\ At(q, "answered")
     \/ At(q, "failing")
  /\ UNCHANGED <<kind, box, asker, kernel, router, inp, out, history, owed,
                 stopped, serve, strayed, budget>>

\* giveUp and ended, after the select chose.
GiveUp(q) ==
  LET m == call[q].mount IN
  /\ call[q].at = "failing"
  /\ pending' = [pending EXCEPT ![m] = @ \ {q}]
  /\ Emit(Event("end", q))
  /\ At(q, "failed")
  /\ UNCHANGED <<kind, box, seq, slot, mount, kernel, answerer, hlAsk, pump,
                 inp, out, history, owed, stopped, serve, strayed, budget>>

\* Slip: the slot stays taken.
LeaveHolding(q) ==
  /\ call[q].at \in {"answered", "failed"}
  /\ vm' = IF TakesSlot(q) THEN vm ELSE q
  /\ At(q, "left")
  /\ UNCHANGED <<kind, box, asker, service, tool, rows, router, inp, out,
                 history, owed, stopped, serve, strayed, budget>>

\* The call returns: the slot is released, a block takes the VM back.
Leave(q) ==
  LET m == call[q].mount IN
  /\ call[q].at \in {"answered", "failed"}
  /\ IF TakesSlot(q)
     THEN slot' = [slot EXCEPT ![m] = NoCall] /\ vm' = vm
     ELSE vm = NoCall /\ vm' = q /\ slot' = slot
  /\ At(q, "left")
  /\ UNCHANGED <<kind, box, seq, pending, mount, service, tool, rows, router,
                 inp, out, history, owed, stopped, serve, strayed, budget>>

\* Its end is recorded: that of a native call, or the result of a block.
\* The end of the bash call an approval gated says nothing of a question.
RecordEnd(q) ==
  LET e == Event(IF kind[q] = "native" THEN "call" ELSE "result", q) IN
  /\ call[q].at = "left"
  /\ IF kind[q] = "rule"
     THEN UNCHANGED <<closed, events>>
     ELSE closed' = closed \cup Closes(e) /\ Emit(e)
  /\ vm' = IF vm = q THEN NoCall ELSE vm
  /\ At(q, "over")
  /\ UNCHANGED <<kind, box, asker, service, tool, rows, answerer, hlAsk, pump,
                 inp, out, asked, owed, stopped, serve, strayed, budget>>

\* The turn ends when nothing of it is left.
TurnDone ==
  /\ kid = "up" /\ owed /\ Busy = {}
  /\ owed' = FALSE
  /\ closed' = asked
  /\ Emit(Event("done", NoCall))
  /\ UNCHANGED <<kind, call, box, asker, kernel, answerer, hlAsk, pump, inp,
                 out, asked, stopped, serve, strayed, budget>>

\* Esc or Stop: the contexts of the calls under way end.
StopTurn ==
  /\ kid = "up" /\ Busy \ stopped # {} /\ Spend("stops")
  /\ stopped' = stopped \cup Busy
  /\ UNCHANGED <<kind, call, box, asker, kernel, router, inp, out, history,
                 owed, serve, strayed>>

----------------------------------------------------------------------------
(* The rows: a reload of the ui row alone, of both rows from the top, or   *)
(* of the ask row with the ui row found stale behind it.                   *)

Plans == {<<"uiDown", "uiUp">>,
          <<"uiDown", "dispose", "build", "provide", "uiUp">>,
          <<"dispose", "build", "provide", "uiDown", "uiUp">>}

Reload ==
  /\ kid = "up" /\ rows = <<>> /\ Spend("remounts")
  /\ rows' \in {p \in Plans : Contains(p, "build") => mount < MaxMounts}
  /\ UNCHANGED <<kind, call, box, asker, service, tool, vm, router, inp, out,
                 history, owed, stopped, serve, strayed>>

RowStep(what) == rows # <<>> /\ Head(rows) = what /\ rows' = Tail(rows)

\* cancelAll: a disposed Asker fails what it holds.
Dispose ==
  /\ RowStep("dispose")
  /\ box' = [q \in Calls |-> IF q \in pending[mount] THEN "closed" ELSE box[q]]
  /\ pending' = [pending EXCEPT ![mount] = {}]
  /\ service' = 0
  /\ UNCHANGED <<kind, call, seq, slot, mount, tool, vm, router, inp, out,
                 history, owed, stopped, serve, strayed, budget>>

\* Apply: a new Asker goes on after the ids of the history.
Build ==
  /\ RowStep("build")
  /\ mount' = mount + 1
  /\ seq' = [seq EXCEPT ![mount'] = LastAskSeq]
  /\ UNCHANGED <<kind, call, box, pending, slot, service, tool, vm, router,
                 inp, out, history, owed, stopped, serve, strayed, budget>>

\* Apply: RegisterTool waits for the VM, then the service is provided.
Provide ==
  /\ RowStep("provide") /\ vm = NoCall
  /\ tool' = mount /\ service' = mount
  /\ UNCHANGED <<kind, call, box, asker, vm, router, inp, out, history, owed,
                 stopped, serve, strayed, budget>>

UiDown ==
  /\ RowStep("uiDown")
  /\ answerer' = 0
  /\ UNCHANGED <<kind, call, box, asker, service, tool, vm, hlAsk, events,
                 pump, inp, out, history, owed, stopped, serve, strayed,
                 budget>>

\* What the old mount published is printed before the new one prints.
UiUp ==
  /\ RowStep("uiUp") /\ events = <<>>
  /\ answerer' = service
  /\ UNCHANGED <<kind, call, box, asker, service, tool, vm, hlAsk, events,
                 pump, inp, out, history, owed, stopped, serve, strayed,
                 budget>>

----------------------------------------------------------------------------
(* The child's ends of the pipes.                                          *)

\* hlPrint
HlPrint ==
  /\ events # <<>>
  /\ hlAsk' = Routed(hlAsk, Head(events))
  /\ out' = Append(out, Head(events))
  /\ events' = Tail(events)
  /\ UNCHANGED <<kind, call, box, asker, kernel, answerer, pump, inp, history,
                 owed, stopped, serve, strayed, budget>>

\* hlAnswerTo: the line names a question; the answer goes to it or nowhere.
ReadLine ==
  /\ pump.at = "idle" /\ inp # <<>> /\ kid = "up"
  /\ inp' = Tail(inp)
  /\ LET line == Head(inp) IN
     IF hlAsk # NoCall /\ Id(hlAsk) = line.id
     THEN /\ pump' = [at |-> "answer", line |-> line, to |-> answerer]
          /\ hlAsk' = NoCall
     ELSE UNCHANGED <<pump, hlAsk>>
  /\ UNCHANGED <<kind, call, box, asker, kernel, answerer, events, out, history,
                 owed, stopped, serve, strayed, budget>>

\* Asker.Answer, under mu, and the entry; with the ui row down when the
\* line was read, hlAwaitAnswerer waits for its remount.
Answer ==
  /\ pump.at = "answer" /\ (pump.to # 0 \/ answerer # 0)
  /\ LET m == IF pump.to # 0 THEN pump.to ELSE answerer
         held == {q \in pending[m] : Id(q) = pump.line.id}
     IN /\ pending' = [pending EXCEPT ![m] = @ \ held]
        /\ closed' = closed \cup UNION {SameId(q) : q \in held}
        /\ pump' = IF held = {} THEN [at |-> "idle"]
                   ELSE [at |-> "send", line |-> pump.line,
                         to |-> CHOOSE q \in held : TRUE]
  /\ UNCHANGED <<kind, call, box, seq, slot, mount, kernel, answerer, hlAsk,
                 events, inp, out, asked, owed, stopped, serve, strayed,
                 budget>>

Send ==
  /\ pump.at = "send"
  /\ box' = [box EXCEPT ![pump.to] = pump.line.for]
  /\ pump' = [at |-> "idle"]
  /\ UNCHANGED <<kind, call, asker, kernel, answerer, hlAsk, events, inp, out,
                 history, owed, stopped, serve, strayed, budget>>

----------------------------------------------------------------------------
(* Serve.                                                                  *)

\* pumpStdout and emitLocked; the last line is the exit, with which the
\* supervisor drops the child.
Scan ==
  /\ out # <<>>
  /\ arm' = Routed(arm, Head(out))
  /\ out' = Tail(out)
  /\ kid' = IF Head(out).kind = "exit" THEN "gone" ELSE kid
  /\ UNCHANGED <<kind, call, box, asker, kernel, router, inp, history, owed,
                 stopped, posts, strayed, budget>>

\* PendingAsk drops an arm that the history has closed.
Refresh == arm' = IF arm \in closed THEN NoCall ELSE arm

\* Somebody asks what is pending: a Send, a page.
PendingAsk ==
  /\ arm \in closed /\ Refresh
  /\ UNCHANGED <<kind, call, box, asker, kernel, router, inp, out, history,
                 owed, stopped, kid, posts, strayed, budget>>

\* The user answers a question the page has shown, by its id, any time.
PostAnswer(q) ==
  /\ q \in asked /\ Spend("posts")
  /\ Refresh
  /\ posts' = posts \cup {[at |-> "claim", n |-> budget["posts"], id |-> Id(q),
                           for |-> q]}
  /\ UNCHANGED <<kind, call, box, asker, kernel, router, inp, out, history,
                 owed, stopped, kid, strayed>>

\* What becomes of a line for the child that the arm was claimed for.
Pipe == IF kid = "up" THEN "write" ELSE "broken"

\* Supervisor.Answer, under s.mu: the arm is checked and taken.
ClaimArm(p) ==
  /\ p.at = "claim"
  /\ IF arm # NoCall /\ kid # "gone" /\ Id(arm) = p.id
     THEN /\ posts' = (posts \ {p}) \cup {[p EXCEPT !.at = Pipe]}
          /\ arm' = NoCall
     ELSE posts' = posts \ {p} /\ arm' = arm
  /\ UNCHANGED <<kind, call, box, asker, kernel, router, inp, out, history,
                 owed, stopped, kid, strayed, budget>>

\* Supervisor.Answer: the line is written, or the arm given back.
WriteAnswer(p) ==
  /\ p.at \in {"write", "broken"}
  /\ posts' = posts \ {p}
  /\ IF p.at = "write"
     THEN inp' = Append(inp, [id |-> p.id, for |-> p.for]) /\ arm' = arm
     ELSE arm' = (IF arm = NoCall THEN p.for ELSE arm) /\ inp' = inp
  /\ UNCHANGED <<kind, call, box, asker, kernel, router, out, history, owed,
                 stopped, kid, strayed, budget>>

\* The process dies; what it printed is still read, then its exit.
Die ==
  /\ kid = "up" /\ Spend("deaths")
  /\ kid' = "dead"
  /\ out' = Append(out, Event("exit", NoCall))
  /\ call' = [q \in Calls |-> IF q \in Busy THEN [call[q] EXCEPT !.at = "dead"]
                              ELSE call[q]]
  /\ service' = 0 /\ vm' = NoCall /\ rows' = <<>>
  /\ answerer' = 0 /\ hlAsk' = NoCall /\ events' = <<>>
  /\ pump' = [at |-> "idle"] /\ inp' = <<>> /\ owed' = FALSE
  /\ posts' = {IF p.at = "write" THEN [p EXCEPT !.at = "broken"] ELSE p :
                 p \in posts}
  /\ UNCHANGED <<kind, box, asker, tool, history, stopped, arm, strayed>>

\* ensure starts another on the same history.
Respawn ==
  /\ kid = "gone" /\ mount < MaxMounts
  /\ kid' = "up"
  /\ mount' = mount + 1
  /\ seq' = [seq EXCEPT ![mount'] = LastAskSeq]
  /\ service' = mount' /\ tool' = mount' /\ answerer' = mount'
  /\ UNCHANGED <<kind, call, box, pending, slot, vm, rows, hlAsk, events, pump,
                 inp, out, history, owed, stopped, arm, posts, strayed, budget>>

----------------------------------------------------------------------------

CallStep(q) ==
  \/ TakeSlot(q) \/ Register(q) \/ Announce(q) \/ Choose(q)
  \/ GiveUp(q) \/ Leave(q) \/ RecordEnd(q)
Remounts == Dispose \/ Build \/ Provide \/ UiDown \/ UiUp
Child == HlPrint \/ ReadLine \/ Answer \/ Send
Supervise == Scan \/ \E p \in posts : ClaimArm(p) \/ WriteAnswer(p)

Next ==
  \/ \E q \in Calls : StartCall(q) \/ CallStep(q) \/ PostAnswer(q)
  \/ TurnDone \/ StopTurn \/ Reload \/ Remounts
  \/ Child \/ Supervise \/ PendingAsk \/ Die \/ Respawn

Fairness ==
  /\ \A q \in Calls : WF_vars(CallStep(q))
  /\ WF_vars(Remounts) /\ WF_vars(Child) /\ WF_vars(Supervise)

Spec == Init /\ [][Next]_vars /\ Fairness

----------------------------------------------------------------------------
(* Properties.                                                             *)

TypeOK ==
  /\ kind \in [Calls -> Kinds]
  /\ call \in [Calls -> [at : {"idle", "queued", "putting", "placed", "waiting",
                               "answered", "failing", "failed", "left", "over",
                               "dead"},
                         mount : 0 .. MaxMounts, id : 0 .. Cardinality(Calls)]]
  /\ box \in [Calls -> Calls \cup {"empty", "closed"}]
  /\ seq \in [Askers -> 0 .. Cardinality(Calls)]
  /\ pending \in [Askers -> SUBSET Calls]
  /\ slot \in [Askers -> Calls \cup {NoCall}]
  /\ mount \in Askers /\ tool \in Askers
  /\ {service, answerer} \subseteq 0 .. MaxMounts
  /\ {vm, hlAsk, arm} \subseteq Calls \cup {NoCall}
  /\ asked \subseteq Calls /\ closed \subseteq asked /\ stopped \subseteq Calls
  /\ kid \in {"up", "dead", "gone"}
  /\ owed \in BOOLEAN /\ strayed \in BOOLEAN

\* A question is asked and can be answered: its call waits in the Asker
\* that the ui row of a live process will find.
Open(q) ==
  /\ call[q].at = "waiting" /\ box[q] = "empty"
  /\ kid = "up" /\ q \in pending[call[q].mount] /\ call[q].mount = service

\* The ids of a session's questions are unique, over remounts and
\* processes (ask.go, "Ids are unique in the session's history, not per
\* Asker"), and what a call is told was written for its question, however
\* late it comes; as long as no call puts its question to a disposed Asker.
AnswersHome ==
  ~strayed =>
    /\ \A p, q \in asked : Id(p) = Id(q) => p = q
    /\ \A q \in Calls : box[q] \in Calls => box[q] = q

\* Serve's arm stays on an open question until somebody answers it: no end
\* of another call and no late line takes it away (supervisor.go, "Another
\* ask's end leaves this one armed"). Without its arm a question cannot be
\* answered and holds its turn until the timeout.
Claimed == \E p \in posts : p.at = "claim" /\ p \notin posts' /\ arm' = NoCall
ArmKept ==
  [][\A q \in Calls :
       arm = q /\ arm' # q /\ Open(q) /\ Open(q)' => strayed \/ Claimed]_vars

\* Every call that asks returns or dies with its process, whatever became
\* of its question, and a remount waits for neither its slot nor the VM for
\* ever: time and again no call is under way and no remount.
CallsReturn == []<>(Busy = {} /\ rows = <<>>)

============================================================================
