------------------------------- MODULE Session -------------------------------
(***************************************************************************)
(* One bough session on the unreal-agent harness (go/internal/unreal/      *)
(* session): the actor that turns what the harness records into bough's    *)
(* turns, the Gate the harness sees as its model, and the steer gate.      *)
(*                                                                         *)
(* A bough turn is input -> done and may span many model requests, because *)
(* every tool call runs asynchronously and wakes the model when it ends.   *)
(* Five kinds of goroutine meet here:                                      *)
(*   - the actor takes one function at a time from an unbounded FIFO and   *)
(*     evaluates the done rule after each;                                 *)
(*   - the ui and the job notices put lines, steers, cancels and news in;  *)
(*   - the coordinator (the harness, external) records items, which the    *)
(*     store observer mirrors and posts to the actor, and starts a request *)
(*     when something is pending and none is in flight;                    *)
(*   - the request goroutine goes through the Gate to the provider;        *)
(*   - calls run, and timers expire.                                       *)
(*                                                                         *)
(* The actor's handlers are operators on the record s: what the actor owns *)
(* (actorState), and the fields it shares under mutexes with the Gate, the *)
(* inbox and Steer. The coordinator may fail or be restarted for a changed *)
(* tool set, and is built again from the store. Close is left out.         *)
(***************************************************************************)
EXTENDS Integers, Sequences, FiniteSets, SequencesExt, EngineMirror

CONSTANTS
  Line,         \* the lines submitted, in order: a sequence of inputs
  Steers,       \* the texts the ui hands to Steer
  News,         \* notices of background jobs
  Nudges,       \* inputs the stop hook asks to go on with
  Call,         \* the tool calls the model may ask for, in order
  Asks,         \* those that wait on the user: ask, secret
  Blocked,      \* inputs the user-prompt-submit hook blocks
  MaxFails,     \* bound: requests that fail
  MaxCancels,   \* bound: Escs
  MaxDeaths,    \* bound: coordinators whose Run returns an error
  MaxChanges,   \* bound: changes of the tool set
  MaxSteps,     \* the step budget of a turn, max_steps
  Startups,     \* how far the rows are mounted when the session opens
  SteerInterrupts, \* the row's steer_interrupts
  Wake,         \* what a turn the coordinator started is about
  NoTurn        \* no turn is open

Lines == {Line[n] : n \in DOMAIN Line}
Calls == {Call[n] : n \in DOMAIN Call}
Inputs == Lines \cup Steers \cup News \cup Nudges

\* What opens a turn: a line (a steer that came too late is one), a notice,
\* or a request of the coordinator's own.
Turns == Lines \cup Steers \cup News \cup {Wake}

\* An id names one input or one call, and a line is submitted once.
Distinct(q) == \A i, j \in DOMAIN q : q[i] = q[j] => i = j

ASSUME IdsAssumption ==
  /\ Line \in Seq(Lines) /\ Distinct(Line) /\ Call \in Seq(Calls) /\ Distinct(Call)
  /\ Lines \cap (Steers \cup News \cup Nudges) = {}
  /\ Steers \cap (News \cup Nudges) = {} /\ News \cap Nudges = {}
  /\ Calls \cap Inputs = {}

ASSUME SessionAssumption ==
  /\ {MaxFails, MaxCancels, MaxDeaths, MaxChanges} \subseteq Nat
  /\ MaxSteps \in Nat \ {0}
  /\ Asks \subseteq Calls /\ Blocked \subseteq Lines \cup Steers
  /\ Startups \subseteq {"mounting", "watched"} /\ SteerInterrupts \in BOOLEAN
  /\ NoTurn \notin Turns

VARIABLES
  s,        \* the session: actorState, Gate, inbox and steer gate
  fifo,     \* Runtime.q: what the actor still has to do
  sync,     \* the observer's Mirror, which is the coordinator's own state
  req,      \* the model request: where it is and how it was answered
  startup,  \* Deps.Ready: "mounting", "ready", then "watched"
  submitted, steered, noted, issued, fails, cancels, deaths, changes
            \* what was used of the bounds

counters == <<submitted, steered, noted, issued, fails, cancels, deaths, changes>>
vars == <<s, fifo, sync, req, startup, counters>>

\* How a turn was closed: by itself, with calls left running, by an error of
\* the provider or the coordinator, or by a cancel.
Endings == {"none", "done", "running", "error", "cancel"}

Session ==
  [turn : Turns \cup {NoTurn},   \* open and wake: what the open turn is about
   m : MirrorOf(Inputs, Calls),  \* the actor's Mirror
   unobserved : SUBSET Inputs,   \* sent, not yet recorded by the coordinator
   inputs : SUBSET Inputs,       \* every input sent or queued
   steerQ : Seq(Steers),         \* steers waiting for the request in flight
   noticeQ : Seq(News),
   notes : SUBSET Steers,        \* steers a cancel left for the next input
   pending : Seq(Lines \cup Steers),  \* lines that arrived while a turn was open
   cancelAt : BOOLEAN,           \* a cancel that found no turn
   cancelOnReady : BOOLEAN,
   noticeWaits : BOOLEAN,        \* news arrived while a cancel was closing
   news : SUBSET News,           \* Jobs: what Take returns
   adopted : SUBSET Calls,       \* calls that became jobs...
   ended : SUBSET Calls,         \* ...and those of them that have ended
   turnCalls : SUBSET Calls,
   cancelled : SUBSET Calls,     \* cancelled, still running
   cancelling : {"no", "waiting", "expired", "deadline"},  \* cancelState
   waits : SUBSET Calls,         \* what the cancel waits for
   settle : {"off", "armed", "fired"},
   stopUsed : BOOLEAN,           \* the stop hook has had its say this turn
   parked : BOOLEAN,             \* Gate: requests about muted are not made
   muted : SUBSET (Inputs \cup Calls),
   steps : Nat,                  \* Gate: requests made since TurnReset
   userStop : BOOLEAN,           \* Gate: Esc stopped the newest request
   run : {"none", "up", "stopping"},  \* coord: is there one, is it stopped
   alive : BOOLEAN,              \* its Run has not returned
   inbox : Seq(Inputs),          \* delivered to the coordinator
   stale : BOOLEAN,              \* the tool set is not the one it was built with
   restart : {"no", "marked", "due"},  \* a changed tool set asks for another
   rebuilds : {0, 1},            \* rebuilt since the last turn was opened
   drain : {"no", "asked", "waiting", "returned"},  \* Drain, at the end of input
   steerable : BOOLEAN,
   steerIn : Seq(Steers),
   told : SUBSET Steers,         \* history: steers handed on or blocked
   promised : SUBSET Steers,     \* history: accepted while the gate was open
   begun : SUBSET (Lines \cup Steers),     \* history: inputs recorded...
   finished : SUBSET (Lines \cup Steers),  \* ...and their dones
   known : SUBSET (Inputs \cup Calls),     \* history: see CancelTurn
   hushed : BOOLEAN,             \* history: parked by a cancel since
   how : Endings]                \* history: the last done

Request ==
  [at : {"none", "called", "barrier", "checked", "starting", "provider", "answered"},
   how : {"ok", "muted", "error", "partial"},
   calls : SUBSET Calls]
NoRequest == [at |-> "none", how |-> "ok", calls |-> {}]

Message ==
  [k : {"turn", "start", "steer", "cancel", "notice", "ready", "budget",
        "settle", "deadline", "tick", "exit", "tools", "drain"}]
  \cup [k : {"input"}, id : Inputs]
  \cup [k : {"response"}, how : {"ok", "muted", "error", "partial"},
        calls : SUBSET Calls]
  \cup [k : {"result"}, call : Calls]
  \cup [k : {"submit"}, line : Lines]

Is(k) == [k |-> k]
Post(msg) == fifo' = Append(fifo, msg)
Posted(k) == \E n \in DOMAIN fifo : fifo[n].k = k

Init ==
  /\ s = [turn |-> NoTurn, m |-> newMirror, unobserved |-> {}, inputs |-> {},
          steerQ |-> <<>>, noticeQ |-> <<>>, notes |-> {}, pending |-> <<>>,
          cancelAt |-> FALSE, cancelOnReady |-> FALSE, noticeWaits |-> FALSE,
          news |-> {}, adopted |-> {}, ended |-> {}, turnCalls |-> {},
          cancelled |-> {}, cancelling |-> "no", waits |-> {},
          settle |-> "off", stopUsed |-> FALSE,
          parked |-> FALSE, muted |-> {}, steps |-> 0, userStop |-> FALSE,
          run |-> "none", alive |-> FALSE, inbox |-> <<>>, stale |-> FALSE,
          restart |-> "no", rebuilds |-> 0, drain |-> "no", steerable |-> FALSE, steerIn |-> <<>>,
          told |-> {}, promised |-> {}, begun |-> {}, finished |-> {}, known |-> {},
          hushed |-> FALSE, how |-> "none"]
  /\ fifo = <<>> /\ sync = newMirror /\ req = NoRequest
  /\ startup \in Startups
  /\ submitted = 0 /\ steered = {} /\ noted = {}
  /\ issued = 0 /\ fails = 0 /\ cancels = 0 /\ deaths = 0 /\ changes = 0

-----------------------------------------------------------------------------
(* Sending inputs and opening turns.                                       *)

Open(w) == w.turn # NoTurn
Cancelling(w) == w.cancelling # "no"
Elements(q) == {q[n] : n \in DOMAIN q}
Ready == startup # "mounting"

\* The store has it, and the actor has yet to hear.
Recorded(i) == [k |-> "input", id |-> i] \in Elements(fifo)

\* ensureRun: a coordinator is built from the store, which holds the inputs
\* that were recorded; the others are delivered again, in some order.
EnsureRun(w) ==
  IF w.run # "none" THEN w
  ELSE [w EXCEPT !.run = "up", !.alive = TRUE, !.stale = FALSE,
                 !.inbox = SetToSeq({i \in w.unobserved : ~Recorded(i)})]

\* send: the inputs are in the inbox of a coordinator. One that is built for
\* them has them already, and its inbox knows an input by its id.
Send(w, q) ==
  IF q = <<>> THEN w
  ELSE LET sent == EnsureRun([w EXCEPT !.unobserved = w.unobserved \cup Elements(q)])
       IN [sent EXCEPT !.inputs = w.inputs \cup Elements(q),
                       !.inbox = IF w.run = "none" THEN @ ELSE @ \o q,
                       !.told = w.told \cup (Elements(q) \cap Steers)]

\* payload: an input that opens a turn carries the notes.
SendWithNotes(w, i) ==
  [Send(w, <<i>>) EXCEPT !.notes = {}, !.told = w.told \cup w.notes \cup ({i} \cap Steers)]

\* openTurn, with the Gate's TurnReset.
OpenTurn(w, t) ==
  [w EXCEPT !.turn = t, !.steerable = TRUE, !.stopUsed = FALSE,
            !.turnCalls = {}, !.adopted = w.adopted \ w.ended, !.ended = {},
            !.steps = 0, !.rebuilds = 0]

\* openWake: a request the coordinator made on its own has gone out.
OpenWake(w) == [OpenTurn(w, Wake) EXCEPT !.steps = 1]

\* The steers and notices that waited for the request's boundary go in.
Flush(w) ==
  [Send(w, w.steerQ \o w.noticeQ) EXCEPT !.steerQ = <<>>, !.noticeQ = <<>>]

\* steerOrQueue, for steers and for a notice.
Waits(w) == w.m.inflight /\ ~SteerInterrupts
SteerOrQueue(w, q) ==
  IF Waits(w)
    THEN [w EXCEPT !.steerQ = w.steerQ \o q, !.inputs = w.inputs \cup Elements(q)]
    ELSE Send(w, q)
NoticeOrQueue(w, i) ==
  IF Waits(w)
    THEN [w EXCEPT !.noticeQ = Append(w.noticeQ, i), !.inputs = w.inputs \cup {i}]
    ELSE Send(w, <<i>>)

\* landQueued: takeSteers, and the steer taken (one at most is on its way, see
\* Steer) is admitted to the open turn, unless the hook blocks it.
Admitted(q) == IF Elements(q) \subseteq Blocked THEN <<>> ELSE q
LandQueued(w) ==
  LET landed == SteerOrQueue([w EXCEPT !.steerIn = <<>>], Admitted(w.steerIn))
  IN [landed EXCEPT !.told = landed.told \cup (Elements(w.steerIn) \cap Blocked)]

\* notice: news land as a turn of their own, or in the turn in flight.
Notice(w) ==
  IF ~Ready THEN w
  ELSE IF Cancelling(w) THEN [w EXCEPT !.noticeWaits = TRUE]
  ELSE IF w.news = {} THEN w
  ELSE LET i == CHOOSE n \in w.news : TRUE
           taken == [w EXCEPT !.news = {}]
       IN IF Open(w) THEN NoticeOrQueue(taken, i)
          ELSE SendWithNotes(OpenTurn(taken, i), i)

\* startTurn: the line is blocked, or opens a turn and is sent.
StartTurn(w, l) ==
  IF l \in Blocked
    THEN [w EXCEPT !.begun = w.begun \cup {l}, !.finished = w.finished \cup {l}]
    ELSE SendWithNotes(OpenTurn([w EXCEPT !.begun = w.begun \cup {l}], l), l)

-----------------------------------------------------------------------------
(* Cancelling a turn.                                                      *)

\* Mutant: the steers that wait are dropped like the notices.
DropQueued(w) == [w EXCEPT !.steerQ = <<>>, !.noticeQ = <<>>]

\* Steers that wait are kept for the next input, notices are not.
KeepSteers(w) ==
  [w EXCEPT !.notes = w.notes \cup Elements(w.steerQ), !.steerQ = <<>>, !.noticeQ = <<>>]

\* cancelTurn(""): Esc. A budget that ran out is the same, but that it does
\* nothing when no turn is open. CancelInflight stops the newest request here,
\* set up or sent; the code stops the one that holds inflight first, which may
\* be one superseded that has not returned yet.
CancelTurn(w) ==
  IF ~Open(w)
    THEN [w EXCEPT !.cancelAt = TRUE,
                   !.cancelOnReady = ~Ready /\ (w.pending # <<>> \/ Posted("submit"))]
  ELSE IF Cancelling(w) THEN w
  ELSE LET landed == LandQueued(w)
           reported == landed.m.reasons \cup landed.m.turnReasons
           waits == (landed.m.outstanding \cap landed.turnCalls) \ landed.adopted
       IN [KeepSteers(landed) EXCEPT
             !.steerable = FALSE,
             !.settle = "off",
             !.parked = TRUE,
             !.muted = landed.muted \cup (landed.turnCalls \ landed.adopted)
                         \cup ((reported \cap Calls) \ (landed.adopted \ landed.ended))
                         \cup landed.inputs,
             !.userStop = landed.userStop \/ req.at \in {"starting", "provider"},
             !.waits = waits,
             !.cancelled = landed.cancelled \cup waits,
             !.cancelling = "waiting",
             !.known = landed.inputs \cup reported \cup waits,
             !.hushed = TRUE]

BudgetStop(w) == IF Open(w) THEN CancelTurn(w) ELSE w

\* Mutant: a wake's done counts as a line's.
DoneOfAny(w, how) ==
  [w EXCEPT !.turn = NoTurn, !.finished = w.finished \cup {w.turn},
            !.steerable = FALSE, !.settle = "off", !.how = how]

\* note("done"): the turn is over.
Done(w, how) ==
  [w EXCEPT !.turn = NoTurn, !.finished = w.finished \cup ({w.turn} \cap (Lines \cup Steers)),
            !.steerable = FALSE, !.settle = "off", !.how = how]

\* Mutant: the wait has no end.
CheckCancelForEver(w) ==
  IF w.m.inflight \/ w.waits \cap w.m.outstanding # {} THEN w
  ELSE [Done(w, "cancel") EXCEPT !.cancelling = "no", !.waits = {}]

\* checkCancel: the cancel closes the turn once the request has answered and
\* the calls have reported, or when the wait is over.
CheckCancel(w) ==
  IF w.cancelling # "deadline" /\ (w.m.inflight \/ w.waits \cap w.m.outstanding # {})
    THEN w
    ELSE LET closed == [Done(w, "cancel") EXCEPT !.cancelling = "no", !.waits = {}]
         IN IF w.noticeWaits THEN Notice([closed EXCEPT !.noticeWaits = FALSE])
            ELSE closed

-----------------------------------------------------------------------------
(* Lines and steers.                                                       *)

\* submit: a turn of its own, or one that waits for the turn in flight.
Submit(w, l) ==
  IF ~Ready \/ Open(w) \/ Cancelling(w)
    THEN [w EXCEPT !.pending = Append(w.pending, l)]
    ELSE LET started == StartTurn([w EXCEPT !.cancelAt = FALSE, !.cancelOnReady = FALSE], l)
         IN IF w.cancelAt /\ Open(started) THEN CancelTurn(started) ELSE started

\* landSteers, for the one steer that is on its way (see Steer).
LandSteers(w) ==
  IF w.steerIn = <<>> \/ (Open(w) /\ ~Cancelling(w)) THEN LandQueued(w)
  ELSE Submit([w EXCEPT !.steerIn = <<>>], Head(w.steerIn))

-----------------------------------------------------------------------------
(* Closing turns.                                                          *)

\* Mutant: an input that is still in the inbox is overlooked.
QuiescentUnobserved(w) ==
  ~w.m.inflight /\ w.m.reasons = {} /\ w.steerQ = <<>> /\ w.noticeQ = <<>>

\* foreground: what holds the turn open.
Foreground(w) == w.m.outstanding \ (w.adopted \cup w.cancelled)

Quiescent(w) ==
  ~w.m.inflight /\ w.m.reasons = {} /\ w.unobserved = {}
  /\ w.steerQ = <<>> /\ w.noticeQ = <<>>

\* closeTurn: a steer on its way, or the stop hook, keeps the turn open.
CloseTurn(w, nudge, how) ==
  IF w.steerIn # <<>> THEN LandQueued(w)
  ELSE IF how = "done" /\ nudge # <<>> /\ ~w.stopUsed
    THEN Send([w EXCEPT !.stopUsed = TRUE], nudge)
  ELSE Done(w, how)

\* Mutant: the calls are left running and nobody's.
AdoptNone(w, C) == w

\* adopt: running calls become jobs.
Adopt(w, C) == [w EXCEPT !.adopted = w.adopted \cup C]

\* settleFired: the calls still running become jobs and the turn closes.
SettleFired(w) ==
  IF w.settle # "fired" \/ ~Open(w) \/ Cancelling(w) \/ ~Quiescent(w) THEN w
  ELSE LET off == [w EXCEPT !.settle = "off"]
           fg == Foreground(w)
       IN IF fg = {} \/ fg \cap Asks # {} THEN off
          ELSE IF w.steerIn # <<>> THEN LandQueued(off)
          ELSE CloseTurn(Adopt(off, fg), <<>>, "running")

\* providerError: the turn fails, its calls become jobs and are parked.
ProviderError(w) ==
  IF ~Open(w) \/ Cancelling(w) THEN w
  ELSE IF Foreground(w) \cap Asks # {} THEN Flush(w)
  ELSE CloseTurn([Adopt(w, Foreground(w)) EXCEPT !.parked = TRUE,
                                                 !.muted = w.muted \cup w.turnCalls],
                 <<>>, "error")

\* response: what the newest request answered.
Response(w, how, calls) ==
  CASE how = "muted" -> w
    [] how = "error" -> ProviderError(w)
    [] OTHER -> Flush([w EXCEPT !.turnCalls = w.turnCalls \cup calls])

\* evaluate, for an open turn: is it over?
Judge(w, nudge) ==
  LET fg == Foreground(w)
      off == [w EXCEPT !.settle = "off"]
  IN IF ~Quiescent(w) THEN off
     ELSE IF fg = {} THEN CloseTurn(off, nudge, "done")
     ELSE IF fg \cap Asks # {} THEN off
     ELSE IF w.settle = "off" THEN [w EXCEPT !.settle = "armed"]
     ELSE w

-----------------------------------------------------------------------------
(* The coordinator's life.                                                 *)

\* runExit: an open turn ends with the error. Calls that still run report
\* through a coordinator, so one is built, but only once between two turns.
RunExit(w) ==
  LET gone == [w EXCEPT !.run = "none", !.restart = "no"]
      ended == IF w.run = "up" /\ Open(w) /\ ~Cancelling(w)
                 THEN CloseTurn(gone, <<>>, "error") ELSE gone
  IN IF (w.restart # "no" \/ w.m.outstanding # {}) /\ ended.rebuilds < 1
       THEN EnsureRun([ended EXCEPT !.rebuilds = 1]) ELSE ended

\* toolsChanged.
ToolsChanged(w) ==
  IF w.run = "none" \/ ~w.stale THEN w ELSE [w EXCEPT !.restart = "marked"]

\* evaluate: with the tools settled and nothing to do, the coordinator is
\* stopped, unless the set came back as it was.
Restart(w) ==
  IF w.restart # "due" \/ w.m.inflight \/ w.m.reasons # {} \/ w.unobserved # {} THEN w
  ELSE IF ~w.stale THEN [w EXCEPT !.restart = "no"]
  ELSE [w EXCEPT !.run = "stopping"]

\* idle, when no turn is open and no line waits.
Idle(w) ==
  /\ w.unobserved = {}
  /\ w.run = "none" \/ (~w.m.inflight /\ w.m.reasons = {} /\ w.m.outstanding = {})

Drained(w) == IF w.drain = "waiting" /\ Idle(w) THEN [w EXCEPT !.drain = "returned"] ELSE w

\* evaluate: what follows every handler.
Evaluate(w, nudge) ==
  IF ~Ready THEN w
  ELSE LET checked == IF Cancelling(w) THEN CheckCancel(w) ELSE w
           judged == IF Open(checked) /\ ~Cancelling(checked)
                       THEN Judge(checked, nudge) ELSE checked
       IN IF Open(judged) \/ Cancelling(judged) THEN judged
          ELSE IF judged.pending = <<>> THEN Drained(Restart(judged))
          ELSE Submit([judged EXCEPT !.pending = Tail(judged.pending)],
                      Head(judged.pending))

-----------------------------------------------------------------------------
(* The actor: one handler for each kind of function it finds in its queue. *)

Receive(k) == fifo # <<>> /\ Head(fifo).k = k
Act(w) ==
  /\ \E handled \in {w} :
       \E nudge \in {<<>>} \cup {<<n>> : n \in Nudges \ handled.inputs} :
         s' = Evaluate(handled, nudge)
  /\ fifo' = Tail(fifo)
  /\ UNCHANGED <<sync, startup, counters>>

TakeTurn ==
  Receive("turn") /\ Act([s EXCEPT !.m = ApplyTurn(s.m)]) /\ UNCHANGED req

TakeInput ==
  /\ Receive("input")
  /\ LET i == Head(fifo).id
     IN Act([s EXCEPT !.m = ApplyInput(s.m, i), !.unobserved = s.unobserved \ {i}])
  /\ UNCHANGED req

TakeResponse ==
  /\ Receive("response")
  /\ LET msg == Head(fifo)
     IN Act(Response([s EXCEPT !.m = ApplyResponse(s.m, msg.calls)], msg.how, msg.calls))
  /\ UNCHANGED req

\* item and ended, for a call's terminal status.
TakeResult ==
  /\ Receive("result")
  /\ LET c == Head(fifo).call
     IN Act([s EXCEPT !.m = ApplyResult(s.m, c), !.cancelled = s.cancelled \ {c},
                      !.ended = s.ended \cup ({c} \cap s.adopted)])
  /\ UNCHANGED req

\* delta: a request goes out. With no turn open it opens one.
TakeStart ==
  /\ Receive("start")
  /\ Act(IF Open(s) \/ Cancelling(s) THEN s ELSE OpenWake(s))
  /\ UNCHANGED req

TakeSubmit == Receive("submit") /\ Act(Submit(s, Head(fifo).line)) /\ UNCHANGED req
TakeSteer == Receive("steer") /\ Act(LandSteers(s)) /\ UNCHANGED req
TakeCancel == Receive("cancel") /\ Act(CancelTurn(s)) /\ UNCHANGED req
TakeNotice == Receive("notice") /\ Act(Notice(s)) /\ UNCHANGED req
TakeBudget == Receive("budget") /\ Act(BudgetStop(s)) /\ UNCHANGED req
TakeSettle == Receive("settle") /\ Act(SettleFired(s)) /\ UNCHANGED req
TakeTick == Receive("tick") /\ Act(s) /\ UNCHANGED req
TakeExit == Receive("exit") /\ Act(RunExit(s)) /\ UNCHANGED req
TakeTools == Receive("tools") /\ Act(ToolsChanged(s)) /\ UNCHANGED req
TakeDrain == Receive("drain") /\ Act([s EXCEPT !.drain = "waiting"]) /\ UNCHANGED req

TakeDeadline ==
  /\ Receive("deadline")
  /\ Act(IF s.cancelling = "expired" THEN [s EXCEPT !.cancelling = "deadline"] ELSE s)
  /\ UNCHANGED req

\* The request that waits for the actor goes on.
TakeReady ==
  /\ Receive("ready") /\ Act(s)
  /\ req' = [req EXCEPT !.at = IF req.at = "barrier" THEN "checked" ELSE req.at]

Actor ==
  \/ TakeTurn \/ TakeInput \/ TakeResponse \/ TakeResult \/ TakeStart \/ TakeSubmit
  \/ TakeSteer \/ TakeCancel \/ TakeNotice \/ TakeBudget \/ TakeSettle \/ TakeTick
  \/ TakeDeadline \/ TakeReady \/ TakeExit \/ TakeTools \/ TakeDrain

-----------------------------------------------------------------------------
(* The ui, the notices and the mounting of the rows.                       *)

SubmitLine ==
  /\ submitted < Len(Line) /\ s.drain = "no"
  /\ submitted' = submitted + 1
  /\ Post([k |-> "submit", line |-> Line[submitted']])
  /\ UNCHANGED <<s, sync, req, startup, steered, noted, issued, fails, cancels, deaths, changes>>

\* Steer, when it is accepted. Bound: one steer at a time is on its way.
Steer(text) ==
  /\ text \notin steered /\ s.steerIn = <<>>
  /\ s.steerable \/ Posted("submit")
  /\ s' = [s EXCEPT !.steerIn = <<text>>,
                    !.promised = IF s.steerable THEN s.promised \cup {text}
                                 ELSE s.promised]
  /\ steered' = steered \cup {text}
  /\ Post(Is("steer"))
  /\ UNCHANGED <<sync, req, startup, submitted, noted, issued, fails, cancels, deaths, changes>>

Cancel ==
  /\ cancels < MaxCancels
  /\ cancels' = cancels + 1
  /\ Post(Is("cancel"))
  /\ UNCHANGED <<s, sync, req, startup, submitted, steered, noted, issued, fails,
                 deaths, changes>>

\* pendingCancelFor has passed since a cancel that found no turn.
CancelExpires ==
  /\ s.cancelAt /\ ~s.cancelOnReady
  /\ s' = [s EXCEPT !.cancelAt = FALSE]
  /\ UNCHANGED <<fifo, sync, req, startup, counters>>

\* A job has news: Jobs keeps it and watch wakes the actor.
Notify(n) ==
  /\ startup = "watched" /\ n \notin noted
  /\ noted' = noted \cup {n}
  /\ s' = [s EXCEPT !.news = s.news \cup {n}]
  /\ Post(Is("notice"))
  /\ UNCHANGED <<sync, req, startup, submitted, steered, issued, fails, cancels, deaths, changes>>

Mounted ==
  /\ startup = "mounting" /\ startup' = "ready"
  /\ UNCHANGED <<s, fifo, sync, req, counters>>

\* watch, past Ready.
Watch ==
  /\ startup = "ready" /\ startup' = "watched"
  /\ Post(Is("tick"))
  /\ UNCHANGED <<s, sync, req, counters>>

\* The end of input: headless calls Drain.
Drain ==
  /\ s.drain = "no" /\ submitted > 0
  /\ s' = [s EXCEPT !.drain = "asked"]
  /\ Post(Is("drain"))
  /\ UNCHANGED <<sync, req, startup, counters>>

\* A tool is registered or goes, or the set is again what it was.
ChangeTools ==
  /\ changes < MaxChanges /\ s.run # "none"
  /\ changes' = changes + 1
  /\ s' = [s EXCEPT !.stale = ~s.stale]
  /\ Post(Is("tools"))
  /\ UNCHANGED <<sync, req, startup, submitted, steered, noted, issued, fails, cancels,
                 deaths>>

\* Timers.
ToolsSettle ==
  /\ s.restart = "marked"
  /\ s' = [s EXCEPT !.restart = "due"]
  /\ Post(Is("tick"))
  /\ UNCHANGED <<sync, req, startup, counters>>

SettleExpires ==
  /\ s.settle = "armed" /\ ~Posted("settle")
  /\ s' = [s EXCEPT !.settle = "fired"]
  /\ Post(Is("settle"))
  /\ UNCHANGED <<sync, req, startup, counters>>

CancelWaited ==
  /\ s.cancelling = "waiting" /\ ~Posted("deadline")
  /\ s' = [s EXCEPT !.cancelling = "expired"]
  /\ Post(Is("deadline"))
  /\ UNCHANGED <<sync, req, startup, counters>>

-----------------------------------------------------------------------------
(* The coordinator (external) and the Gate.                                *)

Works == s.alive /\ s.run = "up"

\* An input leaves the inbox and is recorded.
RecordInput ==
  /\ Works /\ s.inbox # <<>>
  /\ s' = [s EXCEPT !.inbox = Tail(s.inbox)]
  /\ sync' = ApplyInput(sync, Head(s.inbox))
  /\ Post([k |-> "input", id |-> Head(s.inbox)])
  /\ UNCHANGED <<req, startup, counters>>

\* Whoever waits for the request that goes, waits no more.
Interrupted ==
  [n \in DOMAIN fifo |-> IF fifo[n].k = "ready" THEN Is("tick") ELSE fifo[n]]

\* Something is pending: a request starts, unless one is in flight. An input
\* supersedes the one in flight, and what it waited for is nobody's any more.
\* A coordinator built after one that left a request unanswered asks again.
Unanswered == sync.inflight /\ req.at = "none"
StartRequest ==
  /\ Works
  /\ \/ Unanswered
     \/ sync.reasons # {} /\ (~sync.inflight \/ sync.reasons \cap Inputs # {})
  /\ sync' = ApplyTurn(sync)
  /\ req' = [NoRequest EXCEPT !.at = "called"]
  /\ s' = [s EXCEPT !.userStop = FALSE]
  /\ fifo' = Append(Interrupted, Is("turn"))
  /\ UNCHANGED <<startup, counters>>

\* Run returns: it was cancelled, or the store failed. The request goes with
\* it; what the provider answers is dropped.
Ends ==
  /\ s.alive
  /\ s' = [s EXCEPT !.alive = FALSE]
  /\ req' = NoRequest
  /\ fifo' = Append(Interrupted, Is("exit"))
  /\ UNCHANGED <<sync, startup, submitted, steered, noted, issued, fails, cancels, changes>>

CoordinatorStops == s.run = "stopping" /\ Ends /\ UNCHANGED deaths

CoordinatorFails ==
  /\ s.run = "up" /\ deaths < MaxDeaths /\ deaths' = deaths + 1
  /\ Ends

Answered(how, calls) == req' = [at |-> "answered", how |-> how, calls |-> calls]

\* Respond: the actor first handles what was posted before.
Respond ==
  /\ req.at = "called"
  /\ req' = [req EXCEPT !.at = "barrier"]
  /\ Post(Is("ready"))
  /\ UNCHANGED <<s, sync, startup, counters>>

\* Mutant: only calls are parked.
MutedCalls == s.parked /\ sync.turnReasons \subseteq s.muted \cap Calls

\* covered: the request answers only what is parked.
Muted == s.parked /\ sync.turnReasons \subseteq s.muted

GateMutes ==
  /\ req.at = "checked" /\ Muted
  /\ Answered("muted", {})
  /\ UNCHANGED <<s, fifo, sync, startup, counters>>

\* Past the park check: the budget, and the request is being set up.
GateOpens ==
  /\ req.at = "checked" /\ ~Muted
  /\ LET unparked == [s EXCEPT !.parked = FALSE,
                               !.muted = IF s.parked THEN {} ELSE s.muted,
                               !.hushed = s.hushed /\ ~s.parked]
     IN IF s.steps >= MaxSteps
          THEN s' = unparked /\ Answered("muted", {}) /\ Post(Is("budget"))
          ELSE /\ s' = [unparked EXCEPT !.steps = s.steps + 1]
               /\ req' = [req EXCEPT !.at = "starting"]
               /\ UNCHANGED fifo
  /\ UNCHANGED <<sync, startup, counters>>

\* resolve: there is no adapter, or Esc came first, or the request goes out.
ResolveFails ==
  /\ req.at = "starting" /\ fails < MaxFails
  /\ fails' = fails + 1
  /\ Answered("error", {})
  /\ Post(Is("start"))
  /\ UNCHANGED <<s, sync, startup, submitted, steered, noted, issued, cancels, deaths,
                 changes>>

Resolve ==
  /\ req.at = "starting"
  /\ IF s.userStop
       THEN Answered("partial", {}) /\ UNCHANGED fifo
       ELSE req' = [req EXCEPT !.at = "provider"] /\ Post(Is("start"))
  /\ UNCHANGED <<s, sync, startup, counters>>

\* The provider answers, with calls or without, or it fails.
Reply ==
  /\ req.at = "provider"
  /\ IF s.userStop
       THEN Answered("partial", {}) /\ UNCHANGED <<issued, fails>>
       ELSE \/ \E n \in issued..Len(Call) :
                 /\ Answered("ok", {Call[k] : k \in (issued + 1)..n})
                 /\ issued' = n
                 /\ UNCHANGED fails
            \/ /\ fails < MaxFails /\ fails' = fails + 1
               /\ Answered("error", {})
               /\ UNCHANGED issued
  /\ UNCHANGED <<s, fifo, sync, startup, submitted, steered, noted, cancels, deaths,
                 changes>>

\* The response is recorded and its calls start.
RecordResponse ==
  /\ req.at = "answered"
  /\ sync' = ApplyResponse(sync, req.calls)
  /\ req' = NoRequest
  /\ Post([k |-> "response", how |-> req.how, calls |-> req.calls])
  /\ UNCHANGED <<s, startup, counters>>

\* A call reaches its result, cancelled or not.
CallEnds(c) ==
  /\ c \in sync.outstanding /\ s.alive
  /\ sync' = ApplyResult(sync, c)
  /\ Post([k |-> "result", call |-> c])
  /\ UNCHANGED <<s, req, startup, counters>>

Gate ==
  Respond \/ GateMutes \/ GateOpens \/ ResolveFails \/ Resolve \/ Reply \/ RecordResponse

Coordinator == StartRequest \/ RecordInput \/ CoordinatorStops

User == SubmitLine \/ Cancel \/ Drain \/ \E text \in Steers : Steer(text)

Next ==
  \/ Actor \/ Coordinator \/ Gate \/ User
  \/ CancelExpires \/ SettleExpires \/ CancelWaited \/ ToolsSettle
  \/ Mounted \/ Watch \/ ChangeTools \/ CoordinatorFails
  \/ \E n \in News : Notify(n)
  \/ \E c \in Calls : CallEnds(c)

\* The goroutines run, timers expire and the provider answers, but a call may
\* run for ever, and nobody has to type a line, steer or press Esc.
Fairness ==
  /\ WF_vars(Actor) /\ WF_vars(Coordinator) /\ WF_vars(Gate)
  /\ WF_vars(SettleExpires) /\ WF_vars(CancelWaited) /\ WF_vars(ToolsSettle)
  /\ WF_vars(Mounted) /\ WF_vars(Watch)

Spec == Init /\ [][Next]_vars /\ Fairness

-----------------------------------------------------------------------------
(* Properties.                                                             *)

\* Type invariant: the actor's state, the queue, the mirrors and the request.
TypeOK ==
  /\ s \in Session
  /\ \A n \in DOMAIN fifo : fifo[n] \in Message
  /\ sync \in MirrorOf(Inputs, Calls)
  /\ req \in Request
  /\ startup \in {"mounting", "ready", "watched"}
  /\ s.run = "none" => ~s.alive /\ s.restart = "no"

Closes == s.turn # NoTurn /\ s'.turn # s.turn

\* A turn ends on its own only when nothing of it is left anywhere: although
\* the actor judges by a mirror that lags behind, no input is in the inbox or
\* pending, no steer waits, no request is in flight but for jobs, and no call
\* runs but jobs: of earlier turns, or of this one, when it ends in the step
\* in which a request failed and the steer that kept it open was blocked.
\* Drain returns when not even they are left, unless there is no coordinator
\* to hear of them.
QuietFor(jobs) ==
  /\ s.inbox = <<>> /\ sync.reasons \cup sync.outstanding \subseteq jobs
  /\ sync.inflight => jobs # {} /\ sync.turnReasons \subseteq jobs
QuietDone ==
  [][/\ Closes /\ s'.how = "done" =>
          /\ QuietFor(s.adopted \cup s'.adopted \cup s.cancelled)
          /\ s'.steerIn = <<>> /\ s'.steerQ = <<>>
     /\ s.drain # "returned" /\ s'.drain = "returned" =>
          s'.run = "none" \/ QuietFor({})]_vars

\* Between turns no call runs that the user could neither see as a job nor
\* has cancelled: nothing works behind a session that says it is done.
NoStrayCalls ==
  ~Open(s) => s.m.outstanding \subseteq s.adopted \cup s.cancelled

\* A text that Steer accepted is never lost, whatever closes the turn it was
\* meant for: it is queued, told to the model, or kept for the next input.
SteersKept ==
  steered \subseteq Elements(s.steerIn \o s.steerQ \o s.pending)
                    \cup s.notes \cup s.told \cup s.begun

\* A steer accepted while a turn is open lands in a turn that is open: the
\* gate shuts in the step that writes done, so it never becomes a line of its
\* own. (Only one that came while a submit was on its way may.)
SteersInTurn ==
  s.promised \cap (s.begun \cup Elements(s.pending)) = {}

\* Inputs sent and not recorded are the inbox of the coordinator that works:
\* none is lost when one fails or is restarted with inputs under way, and none
\* that the store has already is handed to its successor again.
InputsOnce ==
  LET owed == {i \in s.unobserved : ~Recorded(i)}
  IN Elements(s.inbox) \subseteq owed /\ (Works => owed \subseteq Elements(s.inbox))

\* What is said reaches the model once: every steer accepted lands, and in a
\* turn, and every input is with the coordinator.
InputsLand == SteersKept /\ SteersInTurn /\ InputsOnce

\* When the actor has caught up, no request talks to the provider outside a
\* turn.
NoHiddenRequest == fifo = <<>> /\ req.at = "provider" => Open(s)

\* Unless an Esc or a budget cut the last turn, nothing talks to the provider
\* behind a session that says it is done, and nothing works there, unless the
\* turn ended with its coordinator. (What a cut may miss: NothingAfterEsc.)
NothingHidden ==
  s.how # "cancel" =>
    NoHiddenRequest /\ (deaths = 0 \/ s.how # "error" => NoStrayCalls)

\* Lines become turns in the order they were submitted.
LinesInOrder ==
  \A n \in DOMAIN Line : Line[n] \in s.begun => \A k \in 1..n : Line[k] \in s.begun

\* Every line submitted gets its done, unless an ask still waits on the user.
LinesFinish ==
  []<>(\/ \A n \in 1..submitted : Line[n] \in s.finished
       \/ sync.outstanding \cap Asks # {})

\* Lines are served: in order, each to its done.
LinesServed == []LinesInOrder /\ LinesFinish

\* Again and again nobody waits for the end of something: a cancel closes its
\* turn, however the request and the calls behave, and Drain returns, unless a
\* call still runs or a coordinator took an unrecorded input with it (then it
\* is the caller who gives up).
WaitsEnd ==
  []<>(/\ ~Cancelling(s)
       /\ \/ s.drain \in {"no", "returned"} \/ sync.outstanding # {}
          \/ s.run = "none" /\ s.unobserved # {})

\* After Esc the gate stays parked for everything the actor knew of the turn
\* when it parked: every input, what was reported, the turn's own calls that
\* still ran; and the request it caught being set up never goes out. (In the
\* code it may, while a request it superseded still holds inflight: CancelTurn.)
EscParks ==
  [][s.hushed => /\ s'.parked \/ ~(sync.turnReasons \subseteq s.known)
                 /\ req.at = "starting" => req'.at # "provider"]_vars

\* The stronger claim of the documents: nothing reaches the provider after
\* Esc until something new is said, but for jobs that were left running.
NothingAfterEsc ==
  [][s.hushed /\ s.inputs \subseteq s.known
       => s'.parked \/ sync.turnReasons \cap s.adopted # {}]_vars
=============================================================================
