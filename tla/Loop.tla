-------------------------------- MODULE Loop --------------------------------
(***************************************************************************)
(* The code-mode turn loop (plugins/loop/loop.go and cancel.go) between    *)
(* the terminal that types into it (plugins/ui), the background jobs of    *)
(* Jobs, and the kernel that remounts it: under a new model the next mount *)
(* shares the turn in flight, under another session that turn is cut.      *)
(*                                                                         *)
(* Each mount of the loop row has a goroutine, and a turn of it goes from  *)
(* boundary to boundary: between two of them the model answers, a code     *)
(* block runs or a hook does.  What the code does under t.mu or j.mu is    *)
(* one step.  The terminal is one thread; the lines it submits are sent by *)
(* goroutines, and the loop's events reach it later, in order.             *)
(***************************************************************************)
EXTENDS Jobs

CONSTANTS MaxSteps,     \* the step budget of a turn
          StopRetries,  \* how often a final reply may be pushed back
          Bounds        \* bound: what may happen in one behaviour, one of
                        \* these: lines typed, escs, remounts of the loop,
                        \* switches of the session, errors of the model,
                        \* prompts a hook blocks, replies pushed back, code
                        \* blocks, jobs, waits that time out, and the end of
                        \* the process

ASSUME SomeSteps == MaxSteps \in Nat \ {0} /\ StopRetries \in Nat
Whats == {"lines", "escs", "swaps", "switches", "errors", "vetoes", "pushes", "blocks",
          "jobs", "slow", "quits"}
ASSUME SomeBounds == Bounds \subseteq [Whats -> Nat]

VARIABLES
  loops,    \* per mount of the loop row: its goroutine
  turns,    \* per turns value: what Cancel and Steer share with run
  ui,       \* the terminal
  sending,  \* lines submitted whose goroutine has not sent them
  events,   \* the "done"s the terminal has not seen, by session
  swap,     \* the Reconcile, or the end of the process, under way
  fate,     \* per line: what became of it
  told,     \* the notices recorded in a session file, in order
  past,     \* what happened, for the properties
  budget    \* what is left of the bounds

loopVars == <<loops, turns>>
uiVars == <<ui, sending, events>>
vars == <<jobVars, loopVars, uiVars, swap, fate, told, past, budget>>

Spend(what) == budget[what] > 0 /\ budget' = [budget EXCEPT ![what] = @ - 1]

Lines == 1 .. CHOOSE n \in {b["lines"] : b \in Bounds} :
                \A b \in Bounds : b["lines"] <= n

Wakes == 0     \* the input of a turn that a notice opened

NoTurns == [installed |-> FALSE, cut |-> FALSE, gate |-> FALSE,
            steers |-> <<>>, pending |-> FALSE]

(* q is the inputs channel, open until the row is disposed; gone is its    *)
(* cancelled context.  news are the notices a turn was opened with.        *)
NewLoop(sess, t) ==
  [sess |-> sess, t |-> t, q |-> <<>>, open |-> TRUE, gone |-> FALSE,
   muted |-> FALSE, pc |-> "mount", cur |-> Wakes, news |-> <<>>, steps |-> 0,
   nudges |-> 0, hook |-> FALSE, claim |-> 0]

Latest == Len(loops)
InTurn(i) == loops[i].pc \notin {"mount", "idle", "woken", "stopped"}
Turn(i) == turns[loops[i].t]
IsCut(i) == Turn(i).cut \/ loops[i].gone

Becomes(i, loop) == loops' = [loops EXCEPT ![i] = loop]
Goes(i, pc) == Becomes(i, [loops[i] EXCEPT !.pc = pc])
TurnBecomes(t, turn) == turns' = [turns EXCEPT ![t] = turn]

Init ==
  /\ JobsInit
  /\ loops = <<[NewLoop(mounted, 1) EXCEPT !.pc = "idle"]>>
  /\ turns = <<NoTurns>>
  /\ ui = [at |-> 1, t |-> 1, sess |-> mounted, running |-> FALSE, queued |-> 0]
  /\ sending = {} /\ events = <<>>
  /\ swap = [pc |-> "none", to |-> NoSession]
  /\ fate = [n \in Lines |-> "none"]
  /\ told = <<>>
  /\ past = [dropped |-> {}, aim |-> {}, misfired |-> FALSE, late |-> FALSE]
  /\ budget \in Bounds

----------------------------------------------------------------------------
(* The turn's record of what it was given.  A line or a steer is recorded  *)
(* once it passed the hooks.                                               *)

Recorded(S) == fate' = [n \in Lines |-> IF n \in S
                          THEN IF fate[n] = "recorded" THEN "twice" ELSE "recorded"
                          ELSE fate[n]]
SessionNote(i, ns) ==
  told' = told \o [k \in DOMAIN ns |-> [notice |-> ns[k], sess |-> loops[i].sess]]

----------------------------------------------------------------------------
(* Steers.                                                                 *)

(* slip: the final take leaves the gate as it is.                          *)
TakesSteersOpen(i, final) ==
  TurnBecomes(loops[i].t, [Turn(i) EXCEPT !.steers = <<>>])

TakesSteers(i, final) ==
  TurnBecomes(loops[i].t, [Turn(i) EXCEPT !.steers = <<>>, !.gate = ~final])

(* landSteers: what passes the hook is recorded, what does not is dropped  *)
(* with an error.  landed: something passed.                               *)
LandSteers(i, final, landed) ==
  LET here == Range(Turn(i).steers)
  IN /\ TakesSteers(i, final)
     /\ \/ landed = (here # {}) /\ Recorded(here) /\ UNCHANGED budget
        \/ \E out \in SUBSET here \ {{}} :
             /\ Spend("vetoes")
             /\ landed = (here # out)
             /\ fate' = [n \in Lines |->
                  IF n \in out THEN "blocked"
                  ELSE IF n \in here THEN "recorded" ELSE fate[n]]

----------------------------------------------------------------------------
(* The goroutine between turns.                                            *)

(* slip: the next mount does not wait for the turn handed over.            *)
PrevIgnored(i) == TRUE

PrevStopped(i) == i > 1 => loops[i - 1].pc = "stopped"

Mounts(i) ==
  /\ loops[i].pc = "mount" /\ PrevStopped(i)
  /\ Goes(i, "idle") /\ Wake
  /\ UNCHANGED <<mounted, job, pending, turns, uiVars, swap, fate, told, past, budget>>

TakesLine(i) ==
  /\ loops[i].pc = "idle" /\ loops[i].q # <<>>
  /\ Becomes(i, [loops[i] EXCEPT !.pc = "begin", !.cur = Head(loops[i].q),
                                 !.q = Tail(@)])
  /\ UNCHANGED <<jobVars, turns, uiVars, swap, fate, told, past, budget>>

Stops(i) ==
  /\ loops[i].pc = "idle"
  /\ loops[i].gone \/ (~loops[i].open /\ loops[i].q = <<>>)
  /\ Goes(i, "stopped")
  /\ UNCHANGED <<jobVars, turns, uiVars, swap, fate, told, past, budget>>

TakesWake(i) ==
  /\ loops[i].pc = "idle" /\ wake
  /\ wake' = FALSE
  /\ Goes(i, "woken")
  /\ UNCHANGED <<mounted, job, pending, turns, uiVars, swap, fate, told, past, budget>>

(* What the notices of the mounted session say is the turn's input.        *)
WakeTakes(i) ==
  /\ loops[i].pc = "woken"
  /\ pending' = Left(mounted)
  /\ Becomes(i, [loops[i] EXCEPT !.pc = IF Taken(mounted) = <<>> THEN "idle" ELSE "begin",
                                 !.cur = Wakes, !.news = Taken(mounted)])
  /\ UNCHANGED <<mounted, job, wake, turns, uiVars, swap, fate, told, past, budget>>

----------------------------------------------------------------------------
(* A turn.                                                                 *)

(* run installs the turn's cancel, and honours one that came before it.    *)
(* The slips keep it for the next turn too, and do not install the turn's. *)
InstalledNot(t) == [t EXCEPT !.gate = TRUE, !.cut = t.pending, !.pending = FALSE]

InstalledKeeping(t) == [t EXCEPT !.installed = TRUE, !.gate = TRUE, !.cut = t.pending]

Installed(t) ==
  [t EXCEPT !.installed = TRUE, !.gate = TRUE, !.cut = t.pending, !.pending = FALSE]

Begin(i) ==
  /\ loops[i].pc = "begin"
  /\ TurnBecomes(loops[i].t, Installed(Turn(i)))
  /\ Becomes(i, [loops[i] EXCEPT !.pc = "admit", !.steps = 0, !.nudges = 0,
                                 !.hook = FALSE])
  /\ past' = [past EXCEPT !.misfired =
       @ \/ (Turn(i).pending /\ loops[i].cur \notin past.aim
                            /\ \A n \in Lines \cap past.aim : fate[n] # "sent")]
  /\ UNCHANGED <<jobVars, uiVars, swap, fate, told, budget>>

(* admit: a prompt is not recorded when it was cut, or when a hook blocks  *)
(* it; the notices of a turn they opened go with it.                       *)
Admit(i) ==
  LET line == {loops[i].cur} \ {Wakes}
      Unrecorded(why) ==
        /\ fate' = [n \in Lines |-> IF n \in line THEN why ELSE fate[n]]
        /\ past' = [past EXCEPT !.dropped = @ \cup Range(loops[i].news)]
        /\ UNCHANGED told
      To(pc) == Becomes(i, [loops[i] EXCEPT !.pc = pc, !.news = <<>>])
  IN /\ loops[i].pc = "admit"
     /\ \/ IsCut(i) /\ To("cancelled") /\ Unrecorded("cut") /\ UNCHANGED budget
        \/ ~IsCut(i) /\ To("close") /\ Unrecorded("blocked") /\ Spend("vetoes")
        \/ /\ ~IsCut(i) /\ To("step")
           /\ Recorded(line) /\ SessionNote(i, loops[i].news)
           /\ UNCHANGED <<past, budget>>
     /\ UNCHANGED <<jobVars, turns, uiVars, swap>>

(* The top of the step loop: steers join the context, or the budget is     *)
(* spent and one answer more is asked for.                                 *)
Step(i) ==
  /\ loops[i].pc = "step"
  /\ UNCHANGED <<jobVars, uiVars, swap, told, past>>
  /\ \/ /\ loops[i].steps < MaxSteps
        /\ \E landed \in BOOLEAN : LandSteers(i, FALSE, landed)
        /\ Goes(i, "jobs")
     \/ /\ loops[i].steps >= MaxSteps
        /\ Goes(i, "last")
        /\ UNCHANGED <<turns, fate, budget>>

LandJobs(i) ==
  /\ loops[i].pc = "jobs"
  /\ pending' = Left(mounted) /\ SessionNote(i, Taken(mounted))
  /\ Goes(i, "model")
  /\ UNCHANGED <<mounted, job, wake, turns, uiVars, swap, fate, past, budget>>

(* The model's reply: final, or with code blocks.  "model" answers within  *)
(* the budget, "last" beyond it, where no block runs.                      *)
Model(i) ==
  /\ loops[i].pc \in {"model", "last"}
  /\ UNCHANGED <<jobVars, turns, uiVars, swap, fate, told, past>>
  /\ \/ IsCut(i) /\ Goes(i, "cancelled") /\ UNCHANGED budget
     \/ ~IsCut(i) /\ Goes(i, "close") /\ Spend("errors")
     \/ ~IsCut(i) /\ loops[i].pc = "model" /\ Goes(i, "final") /\ UNCHANGED budget
     \/ ~IsCut(i) /\ loops[i].pc = "model" /\ Goes(i, "block") /\ Spend("blocks")
     \/ /\ ~IsCut(i) /\ loops[i].pc = "last" /\ UNCHANGED budget
        /\ Becomes(i, [loops[i] EXCEPT !.pc = "close", !.hook = TRUE])

(* A final reply: a steer that lands asks again, and so does a push-back,  *)
(* both at the price of a step.                                            *)
NextStep(i) == [loops[i] EXCEPT !.pc = "step", !.steps = @ + 1]

Final(i) ==
  /\ loops[i].pc = "final"
  /\ \E landed \in BOOLEAN :
       /\ LandSteers(i, TRUE, landed)
       /\ IF landed THEN Becomes(i, NextStep(i)) ELSE Goes(i, "judge")
  /\ UNCHANGED <<jobVars, uiVars, swap, told, past>>

PushBack(i) ==
  /\ loops[i].pc = "judge" /\ loops[i].nudges < StopRetries /\ Spend("pushes")
  /\ Becomes(i, [NextStep(i) EXCEPT !.nudges = @ + 1])
  /\ UNCHANGED <<jobVars, turns, uiVars, swap, fate, told, past>>

Accepted(i) ==
  /\ loops[i].pc = "judge"
  /\ Becomes(i, [loops[i] EXCEPT !.pc = "done", !.hook = TRUE])
  /\ UNCHANGED <<jobVars, turns, uiVars, swap, fate, told, past, budget>>

(* Before a block: a steer makes the rest of the reply stale.              *)
Block(i) ==
  /\ loops[i].pc = "block"
  /\ \E landed \in BOOLEAN :
       /\ LandSteers(i, FALSE, landed)
       /\ IF landed THEN Becomes(i, NextStep(i)) ELSE Goes(i, "code")
  /\ UNCHANGED <<jobVars, uiVars, swap, told, past>>

(* The block starts a job: one it watches goes on its own, another it waits*)
(* for, as long as the grace.                                              *)
CodeStarts(i) ==
  /\ loops[i].pc = "code" /\ ~IsCut(i) /\ Spend("jobs")
  /\ \E j \in JobIds, until \in BOOLEAN :
       /\ StartJob(j, until)
       /\ IF until THEN UNCHANGED loops
          ELSE Becomes(i, [loops[i] EXCEPT !.pc = "claim", !.claim = j])
  /\ UNCHANGED <<turns, uiVars, swap, fate, told, past>>

Claims(i) ==
  LET j == loops[i].claim
  IN /\ loops[i].pc = "claim"
     /\ \/ ClaimTakes(j) \/ ClaimGivesUp(j)
        \/ IsCut(i) /\ ClaimCancelled(j)
        \/ swap.pc \in {"drain", "over"} /\ ClaimLeft(j)
     /\ Becomes(i, [loops[i] EXCEPT !.pc = "code", !.claim = 0])
     /\ UNCHANGED <<mounted, pending, wake, turns, uiVars, swap, fate, told, past, budget>>

(* The block ends; the next one of the reply follows, or a step.           *)
CodeEnds(i) ==
  /\ loops[i].pc = "code"
  /\ UNCHANGED <<jobVars, turns, uiVars, swap, fate, told, past>>
  /\ \/ IsCut(i) /\ Goes(i, "cancelled") /\ UNCHANGED budget
     \/ ~IsCut(i) /\ Goes(i, "block") /\ Spend("blocks")
     \/ /\ ~IsCut(i) /\ UNCHANGED budget
        /\ Becomes(i, NextStep(i))

(* finish: what steered the turn since the last boundary lands, and the    *)
(* gate shuts before the done.                                             *)
Finish(i) ==
  /\ loops[i].pc \in {"cancelled", "close"}
  /\ \E landed \in BOOLEAN : LandSteers(i, TRUE, landed)
  /\ Goes(i, "done")
  /\ UNCHANGED <<jobVars, uiVars, swap, told, past>>

(* The done reaches the terminal if it is attached and this mount is not   *)
(* muted; then the stop hook runs.                                         *)
Done(i) ==
  /\ loops[i].pc = "done"
  /\ Goes(i, IF loops[i].hook THEN "hook" ELSE "end")
  /\ events' = IF ui.at = 0 \/ loops[i].muted THEN events
               ELSE Append(events, ui.sess)
  /\ UNCHANGED <<jobVars, turns, ui, sending, swap, fate, told, past, budget>>

Hook(i) ==
  /\ loops[i].pc = "hook" /\ Goes(i, "end")
  /\ UNCHANGED <<jobVars, turns, uiVars, swap, fate, told, past, budget>>

End(i) ==
  /\ loops[i].pc = "end" /\ Goes(i, "idle")
  /\ TurnBecomes(loops[i].t, [Turn(i) EXCEPT !.installed = FALSE, !.cut = FALSE,
                                             !.gate = FALSE])
  /\ UNCHANGED <<jobVars, uiVars, swap, fate, told, past, budget>>

LoopStep(i) ==
  \/ Mounts(i) \/ TakesLine(i) \/ Stops(i) \/ TakesWake(i) \/ WakeTakes(i)
  \/ Begin(i) \/ Admit(i) \/ Step(i) \/ LandJobs(i) \/ Model(i) \/ Final(i)
  \/ PushBack(i) \/ Accepted(i) \/ Block(i) \/ CodeStarts(i) \/ Claims(i)
  \/ CodeEnds(i) \/ Finish(i) \/ Done(i) \/ Hook(i) \/ End(i)

----------------------------------------------------------------------------
(* The terminal.  Its thread is busy while it switches sessions.           *)

UiFree == swap.to = NoSession /\ swap.pc \notin {"wait", "drain", "over"}

Submits(n) ==
  /\ sending' = sending \cup {n}
  /\ ui' = [ui EXCEPT !.running = TRUE,
                      !.queued = IF ui.running THEN @ + 1 ELSE @]

SteerFails(n) == Submits(n)

(* A line typed in a turn steers it, or queues behind it; a steer that is  *)
(* refused is submitted.                                                   *)
Types(n) ==
  /\ UiFree /\ Spend("lines")
  /\ fate[n] = "none" /\ \A m \in Lines : m < n => fate[m] # "none"
  /\ UNCHANGED <<jobVars, loops, events, swap, told, past>>
  /\ \/ /\ ui.running /\ turns[ui.t].gate
        /\ TurnBecomes(ui.t, [turns[ui.t] EXCEPT !.steers = Append(@, n)])
        /\ fate' = [fate EXCEPT ![n] = "steers"]
        /\ UNCHANGED <<ui, sending>>
     \/ /\ ui.running /\ ~turns[ui.t].gate /\ SteerFails(n)
        /\ fate' = [fate EXCEPT ![n] = "sent"]
        /\ UNCHANGED turns
     \/ /\ Submits(n)
        /\ fate' = [fate EXCEPT ![n] = "sent"]
        /\ UNCHANGED turns

(* sendLive waits for a loop to be attached.                               *)
Sends(n) ==
  /\ n \in sending /\ ui.at # 0
  /\ sending' = sending \ {n}
  /\ Becomes(ui.at, [loops[ui.at] EXCEPT !.q = Append(@, n)])
  /\ UNCHANGED <<jobVars, turns, ui, events, swap, fate, told, past, budget>>

(* Cancel: the turn installed is cut, or the next one will be.             *)
Cancelled(turn) == IF turn.installed THEN [turn EXCEPT !.cut = TRUE]
                                     ELSE [turn EXCEPT !.pending = TRUE]
Cancels(t) == TurnBecomes(t, Cancelled(turns[t]))

(* The turns an Esc may cut: those of what was typed before it, and of     *)
(* notices.  When nothing ran any more, and the terminal had not seen so,  *)
(* it is kept for a line yet to come.                                      *)
Aim ==
  LET typed == {n \in Lines : fate[n] # "none"}
      busy == (\E n \in Lines : fate[n] = "sent") \/ \E i \in DOMAIN loops : InTurn(i)
  IN {Wakes} \cup IF busy THEN typed ELSE Lines

Esc ==
  /\ UiFree /\ ui.running /\ Spend("escs")
  /\ Cancels(ui.t)
  /\ past' = [past EXCEPT !.aim = Aim]
  /\ UNCHANGED <<jobVars, loops, uiVars, swap, fate, told>>

(* A "done" of the pane's session: the first queued line starts now.       *)
SeesDone ==
  /\ UiFree /\ events # <<>>
  /\ events' = Tail(events)
  /\ ui' = IF Head(events) # ui.sess THEN ui
           ELSE [ui EXCEPT !.running = ui.queued > 0,
                           !.queued = IF @ > 0 THEN @ - 1 ELSE 0]
  /\ UNCHANGED <<jobVars, loopVars, sending, swap, fate, told, past, budget>>

----------------------------------------------------------------------------
(* A Reconcile: the terminal and the loop go down, a switch takes the      *)
(* history row with them, and they come up in the reverse order.           *)

SwapStarts ==
  /\ swap.pc = "none"
  /\ \/ Spend("swaps") /\ swap' = [pc |-> "close", to |-> NoSession]
     \/ /\ Spend("switches") /\ UiFree
        /\ \E s \in Sessions \ {mounted} : swap' = [pc |-> "close", to |-> s]
  /\ ui' = [ui EXCEPT !.at = 0]
  /\ UNCHANGED <<jobVars, loopVars, sending, events, fate, told, past>>

(* The disposer leaves a handoff and closes inputs.                        *)
SwapCloses ==
  /\ swap.pc = "close"
  /\ Becomes(Latest, [loops[Latest] EXCEPT !.open = FALSE])
  /\ swap' = [swap EXCEPT !.pc = IF swap.to = NoSession THEN "apply" ELSE "down"]
  /\ UNCHANGED <<jobVars, turns, uiVars, fate, told, past, budget>>

HistoryDown ==
  /\ swap.pc = "down" /\ swap' = [swap EXCEPT !.pc = "up"]
  /\ mounted' = NoSession
  /\ UNCHANGED <<job, pending, wake, loopVars, uiVars, fate, told, past, budget>>

HistoryUp ==
  /\ swap.pc = "up" /\ swap' = [swap EXCEPT !.pc = "apply"]
  /\ mounted' = swap.to
  /\ UNCHANGED <<job, pending, wake, loopVars, uiVars, fate, told, past, budget>>

(* Apply: the same session's turn is shared, another's is muted and cut.   *)
SwapApplies ==
  /\ swap.pc = "apply" /\ swap' = [swap EXCEPT !.pc = "attach"]
  /\ UNCHANGED <<jobVars, uiVars, fate, told, budget>>
  /\ LET t == loops[Latest].t
     IN IF loops[Latest].sess = mounted
        THEN loops' = Append(loops, NewLoop(mounted, t)) /\ UNCHANGED <<turns, past>>
        ELSE /\ loops' = Append([loops EXCEPT ![Latest] = [@ EXCEPT !.muted = TRUE]],
                                NewLoop(mounted, Len(turns) + 1))
             /\ turns' = Append([turns EXCEPT ![t] = Cancelled(@)], NoTurns)
             /\ past' = [past EXCEPT !.aim = Lines \cup {Wakes}]

SwapAttaches ==
  /\ swap.pc = "attach" /\ swap' = [pc |-> "none", to |-> NoSession]
  /\ ui' = IF swap.to = NoSession
           THEN [ui EXCEPT !.at = Latest, !.t = loops[Latest].t]
           ELSE [at |-> Latest, t |-> loops[Latest].t, sess |-> mounted,
                 running |-> FALSE, queued |-> 0]
  /\ UNCHANGED <<jobVars, loopVars, sending, events, fate, told, past, budget>>

----------------------------------------------------------------------------
(* The end of the process: the loop's context is cancelled, its goroutine  *)
(* has three seconds to stop, the jobs are killed and have three more to   *)
(* report, and what they queued is recorded.                               *)

Quits ==
  /\ swap.pc = "none" /\ Spend("quits")
  /\ swap' = [swap EXCEPT !.pc = "wait"]
  /\ ui' = [ui EXCEPT !.at = 0]
  /\ Becomes(Latest, [loops[Latest] EXCEPT !.open = FALSE, !.gone = TRUE])
  /\ UNCHANGED <<jobVars, turns, sending, events, fate, told, past>>

TimesOut == Spend("slow") /\ past' = [past EXCEPT !.late = TRUE]
InTime == UNCHANGED <<past, budget>>

QuitStops ==
  /\ swap.pc = "wait" /\ swap' = [swap EXCEPT !.pc = "drain"]
  /\ IF loops[Latest].pc = "stopped" THEN InTime ELSE TimesOut
  /\ job' = [j \in JobIds |-> IF job[j].st = "up" THEN [job[j] EXCEPT !.st = "out"]
                                                  ELSE job[j]]
  /\ UNCHANGED <<mounted, pending, wake, loopVars, uiVars, fate, told>>

JobsReported == \A j \in JobIds : job[j].waiter \in {"none", "over"}

QuitRecords ==
  /\ swap.pc = "drain" /\ swap' = [swap EXCEPT !.pc = "over"]
  /\ IF JobsReported THEN InTime ELSE TimesOut
  /\ pending' = Left(mounted) /\ SessionNote(Latest, Taken(mounted))
  /\ UNCHANGED <<mounted, job, wake, loopVars, uiVars, fate>>

SwapStep ==
  \/ SwapCloses \/ HistoryDown \/ HistoryUp \/ SwapApplies \/ SwapAttaches
  \/ QuitStops \/ QuitRecords

JobSteps(j) ==
  /\ JobStep(j)
  /\ UNCHANGED <<loopVars, uiVars, swap, fate, told, past, budget>>

(* What the process does by itself, and what is done to it.                *)
Runs ==
  \/ \E i \in DOMAIN loops : LoopStep(i)
  \/ \E j \in JobIds : JobSteps(j)
  \/ \E n \in Lines : Sends(n)
  \/ SeesDone \/ SwapStep

Next == Runs \/ (\E n \in Lines : Types(n)) \/ Esc \/ SwapStarts \/ Quits

(* While a goroutine can go on, one of them does; the model, the hooks and *)
(* the commands answer.  What is typed, and what befalls, need not happen. *)
Fairness == WF_vars(Runs)

Spec == Init /\ [][Next]_vars /\ Fairness

----------------------------------------------------------------------------
Pcs == {"mount", "idle", "woken", "begin", "admit", "step", "jobs", "model",
        "last", "final", "judge", "block", "code", "claim", "cancelled",
        "close", "done", "hook", "end", "stopped"}

(* The types, and: a goroutine waits on a claim exactly while it says so,  *)
(* and a turn has its cancel installed exactly while it runs.              *)
TypeOK ==
  /\ mounted \in Sessions \cup {NoSession} /\ wake \in BOOLEAN
  /\ \A i \in DOMAIN loops :
       /\ loops[i].pc \in Pcs /\ loops[i].t \in DOMAIN turns
       /\ (loops[i].pc = "claim") = (loops[i].claim # 0)
       /\ loops[i].steps <= MaxSteps /\ loops[i].nudges <= StopRetries
       /\ InTurn(i) /\ loops[i].pc # "begin" => Turn(i).installed
  /\ \A t \in DOMAIN turns : turns[t].gate => turns[t].installed
  /\ ui.at \in 0 .. Latest /\ ui.t \in DOMAIN turns
  /\ sending \subseteq Lines
  /\ \A n \in Lines : fate[n] \in {"none", "sent", "steers", "recorded", "twice", "cut", "blocked"}

(* The next mount starts nothing until the turn handed over has stopped    *)
(* (loop.go:2344-2351).                                                    *)
OneTurn ==
  \A i, k \in DOMAIN loops : InTurn(i) /\ InTurn(k) => i = k

(* What is typed in a turn is never stranded and never recorded twice,     *)
(* whether it goes as a line, as a steer or as a steer that was refused:   *)
(* past the turn's last boundary no steer is left (cancel.go:14-19).       *)
NoSteerStranded ==
  \A t \in DOMAIN turns : ~turns[t].gate => turns[t].steers = <<>>
RecordedOnce == \A n \in Lines : fate[n] # "twice"
TypedLands == NoSteerStranded /\ RecordedOnce

(* Where a notice can be: queued, in the hands of a loop that opens a turn *)
(* with it, recorded.  A cancelled or blocked turn drops what it was       *)
(* opened with.                                                            *)
At(s, n) == {k \in DOMAIN s : s[k] = n}
InQueue(n) == UNION {{s} \X At(pending[s], n) : s \in Owners}
InHand(n) == UNION {{i} \X At(loops[i].news, n) : i \in DOMAIN loops}
InFile(n) == {k \in DOMAIN told : told[k].notice = n}

(* The end of a job is told once (jobs.go:19-24): by the claim that waited *)
(* for it (jobs.go:719-721), or by one notice, and by a notice before the  *)
(* process ends if nothing timed out on the way.  Three ways out: a turn   *)
(* that drops its notices, a claim an Esc handed back after the waiter had *)
(* read it, and one that still waited when the process ended.              *)
ToldAtMostOnce(n) ==
  Cardinality(InQueue(n)) + Cardinality(InHand(n)) + Cardinality(InFile(n)) <= 1
Reaches(n) ==
  InQueue(n) \cup InHand(n) \cup InFile(n) # {} \/ n \in past.dropped
Claiming(j) == \E i \in DOMAIN loops : loops[i].claim = j
FinishToldOnce ==
  /\ \A n \in Notices : ToldAtMostOnce(n)
  /\ \A j \in JobIds :
       LET finish == Notice(j, "finish")
       IN /\ job[j].answered => ~Reaches(finish)
          /\ job[j].waiter = "over" =>
               job[j].answered \/ job[j].late \/ Claiming(j) \/ Reaches(finish)
  /\ swap.pc = "over" /\ ~past.late => ~Waiting(mounted)

(* A cancel kept for the turn about to start cuts no later one             *)
(* (cancel.go:77-79).  Two ways out: the turn it was meant for was over    *)
(* and the terminal had not seen it, and a line that overtook the one it   *)
(* was meant for, whose goroutine had not sent it.                         *)
CancelHits == ~past.misfired

(* Every line sent is taken by a turn, and every notice of the session     *)
(* mounted is taken, unless the session is left or the process ends.       *)
LinesRun == \A n \in Lines : fate[n] = "sent" ~> (fate[n] # "sent" \/ swap.pc = "over")
NewsArrives ==
  \A s \in Sessions :
    (mounted = s /\ Waiting(s)) ~> (mounted # s \/ ~Waiting(s) \/ swap.pc = "over")
TypedAndNewsArrive == LinesRun /\ NewsArrives
=============================================================================
