----------------------------- MODULE LoopProofs -----------------------------
(***************************************************************************)
(* Theorems about module Loop, for any number of sessions, lines, jobs,    *)
(* remounts and switches, and any budget of steps, proved by TLAPS.  Three *)
(* inductive invariants, each proved with the ones before it: IInv, of the *)
(* turns and the lines; NInv, of the notices; AInv, of the cancels.        *)
(***************************************************************************)
EXTENDS Loop, FiniteSetTheorems, TLAPS

Fates == {"none", "sent", "steers", "recorded", "twice", "cut", "blocked"}

IsSeq(s) == Len(s) \in Nat /\ DOMAIN s = 1 .. Len(s)

LoopFields == {"sess", "t", "q", "open", "gone", "muted", "pc", "cur", "news",
               "steps", "nudges", "hook", "claim"}
TurnFields == {"installed", "cut", "gate", "steers", "pending"}

\* Where a turn has a step of its budget in hand.
Working == {"jobs", "model", "final", "judge", "block", "code", "claim"}

IsLoop(l) ==
  /\ DOMAIN l = LoopFields
  /\ l.t \in Nat /\ l.q \in Seq(Lines) /\ l.cur \in Lines \cup {Wakes}
  /\ l.pc \in Pcs /\ l.nudges \in 0 .. StopRetries
  /\ l.steps \in 0 .. MaxSteps /\ (l.pc \in Working => l.steps < MaxSteps)
  /\ (l.pc = "claim") = (l.claim # 0)

\* A steer is held only while a boundary is left to land it.
IsTurn(t) ==
  /\ DOMAIN t = TurnFields
  /\ t.installed \in BOOLEAN /\ t.gate \in BOOLEAN /\ t.steers \in Seq(Lines)
  /\ t.gate => t.installed
  /\ ~t.gate => t.steers = <<>>

Typed ==
  /\ mounted \in Owners /\ wake \in BOOLEAN
  /\ IsSeq(loops) /\ Len(loops) >= 1 /\ IsSeq(turns)
  /\ \A i \in 1 .. Len(loops) : IsLoop(loops[i]) /\ loops[i].t \in 1 .. Len(turns)
  /\ \A t \in 1 .. Len(turns) : IsTurn(turns[t])
  /\ DOMAIN ui = {"at", "t", "sess", "running", "queued"}
  /\ ui.at \in 0 .. Len(loops) /\ ui.t \in 1 .. Len(turns)
  /\ sending \in SUBSET Lines
  /\ fate \in [Lines -> Fates]
  /\ DOMAIN swap = {"pc", "to"} /\ swap.to \in Owners

\* A mount that has started has only stopped ones before it.
MountsInOrder ==
  \A k \in 1 .. Len(loops) : loops[k].pc # "mount"
    => \A j \in 1 .. k - 1 : loops[j].pc = "stopped"

\* What the goroutine of a turn knows of the turns value it shares.
Closed == {"judge", "done", "hook", "end"}
TurnsShared ==
  \A i \in 1 .. Len(loops) :
    /\ InTurn(i) /\ loops[i].pc # "begin" => Turn(i).installed
    /\ loops[i].pc \in Closed => ~Turn(i).gate

\* A line is in one place until a turn has recorded it.
Prompt(i) == loops[i].pc \in {"begin", "admit"} /\ loops[i].cur # Wakes
SendsOnce == \A n \in sending : fate[n] = "sent"
QueuedOnce ==
  \A i \in 1 .. Len(loops) : \A k \in 1 .. Len(loops[i].q) :
    /\ fate[loops[i].q[k]] = "sent" /\ loops[i].q[k] \notin sending
    /\ \A j \in 1 .. Len(loops) : \A m \in 1 .. Len(loops[j].q) :
         loops[i].q[k] = loops[j].q[m] => i = j /\ k = m
PromptOnce ==
  \A i \in 1 .. Len(loops) : Prompt(i) =>
    /\ fate[loops[i].cur] = "sent" /\ loops[i].cur \notin sending
    /\ \A j \in 1 .. Len(loops) : \A m \in 1 .. Len(loops[j].q) :
         loops[j].q[m] # loops[i].cur
SteersOnce ==
  \A t \in 1 .. Len(turns) : \A k \in 1 .. Len(turns[t].steers) :
    /\ fate[turns[t].steers[k]] = "steers"
    /\ \A u \in 1 .. Len(turns) : \A m \in 1 .. Len(turns[u].steers) :
         turns[t].steers[k] = turns[u].steers[m] => t = u
NoneTwice == \A n \in Lines : fate[n] # "twice"
PlacedOnce == SendsOnce /\ QueuedOnce /\ PromptOnce /\ SteersOnce /\ NoneTwice

IInv == Typed /\ MountsInOrder /\ TurnsShared /\ PlacedOnce

----------------------------------------------------------------------------
(* One turn at a time follows from the order of the mounts.                *)

LEMMA Alone ==
  ASSUME Typed, MountsInOrder,
         NEW i \in 1 .. Len(loops), NEW k \in 1 .. Len(loops),
         loops[i].pc \notin {"mount", "stopped"}, loops[k].pc \notin {"mount", "stopped"}
  PROVE  i = k
  BY DEF Typed, IsSeq, MountsInOrder

(* What a step leaves alone when it changes one loop, or one turn.         *)
LEMMA LoopSet ==
  ASSUME IsSeq(loops), NEW i \in 1 .. Len(loops), NEW l, Becomes(i, l)
  PROVE  /\ IsSeq(loops') /\ Len(loops') = Len(loops) /\ loops'[i] = l
         /\ \A k \in 1 .. Len(loops) : k # i => loops'[k] = loops[k]
  BY DEF Becomes, IsSeq

LEMMA TurnSet ==
  ASSUME IsSeq(turns), NEW t \in 1 .. Len(turns), NEW r, TurnBecomes(t, r)
  PROVE  /\ IsSeq(turns') /\ Len(turns') = Len(turns) /\ turns'[t] = r
         /\ \A u \in 1 .. Len(turns) : u # t => turns'[u] = turns[u]
  BY DEF TurnBecomes, IsSeq

(* A loop that has started may change without the order changing.          *)
LEMMA OrderKept ==
  ASSUME Typed, MountsInOrder, NEW i \in 1 .. Len(loops),
         loops[i].pc \notin {"mount", "stopped"},
         Len(loops') = Len(loops),
         \A k \in 1 .. Len(loops) : k # i => loops'[k] = loops[k]
  PROVE  MountsInOrder'
<1>1. ASSUME NEW k \in 1 .. Len(loops), k > i PROVE loops[k].pc = "mount"
  BY <1>1 DEF MountsInOrder
<1>2. ASSUME NEW k \in 1 .. Len(loops), loops'[k].pc # "mount", NEW j \in 1 .. k - 1
      PROVE  loops'[j].pc = "stopped"
  <2>0. k <= i
    BY <1>1, <1>2
  <2>1. j \in 1 .. Len(loops) /\ j # i
    BY <2>0 DEF Typed, IsSeq
  <2>2. loops'[j] = loops[j] /\ loops[k].pc # "mount"
    BY <1>2, <2>1
  <2> QED BY <2>2 DEF MountsInOrder
<1> QED BY <1>2 DEF MountsInOrder

(* The queues stay, and so does where the lines in them are.               *)
LEMMA QueuesKept ==
  ASSUME QueuedOnce, Len(loops') = Len(loops), UNCHANGED <<sending, fate>>,
         \A j \in 1 .. Len(loops) : loops'[j].q = loops[j].q
  PROVE  QueuedOnce'
<1>1. ASSUME NEW j \in 1 .. Len(loops), NEW k \in 1 .. Len(loops'[j].q)
      PROVE  fate[loops'[j].q[k]] = "sent" /\ loops'[j].q[k] \notin sending
  <2>1. loops'[j].q[k] = loops[j].q[k] /\ k \in 1 .. Len(loops[j].q)
    OBVIOUS
  <2> QED BY <2>1 DEF QueuedOnce
<1>2. ASSUME NEW j \in 1 .. Len(loops), NEW k \in 1 .. Len(loops'[j].q),
             NEW m \in 1 .. Len(loops), NEW n \in 1 .. Len(loops'[m].q),
             loops'[j].q[k] = loops'[m].q[n]
      PROVE  j = m /\ k = n
  <2>1. /\ loops[j].q[k] = loops[m].q[n]
        /\ k \in 1 .. Len(loops[j].q) /\ n \in 1 .. Len(loops[m].q)
    BY <1>2
  <2> QED BY <2>1 DEF QueuedOnce
<1> QED BY <1>1, <1>2, SMTT(30) DEF QueuedOnce

(* A loop that goes on without touching its queue, its prompt, the turns   *)
(* and what is recorded.                                                   *)
Moves(i, l) ==
  /\ Becomes(i, l) /\ IsLoop(l) /\ l.t = loops[i].t /\ l.q = loops[i].q
  /\ l.pc # "mount" /\ loops[i].pc # "stopped"
  /\ loops[i].pc = "mount" => PrevStopped(i)
  /\ l.pc \in {"idle", "woken", "begin", "stopped"} \/ (InTurn(i) /\ loops[i].pc # "begin")
  /\ l.pc \in Closed => ~Turn(i).gate
  /\ l.pc = "begin" => l.cur = Wakes
  /\ l.pc # "admit"
  /\ wake' \in BOOLEAN /\ UNCHANGED <<mounted, turns, ui, sending, fate, swap>>

LEMMA MovesKept ==
  ASSUME IInv, NEW i \in 1 .. Len(loops), NEW l, Moves(i, l)
  PROVE  IInv'
<1> USE DEF IInv
<1>1. /\ IsSeq(loops') /\ Len(loops') = Len(loops) /\ loops'[i] = l
      /\ \A k \in 1 .. Len(loops) : k # i => loops'[k] = loops[k]
  BY LoopSet DEF Moves, Typed
<1>2. Typed'
  BY <1>1 DEF Moves, Typed
<1>3. MountsInOrder'
  <2>1. \A j \in 1 .. i - 1 : loops[j].pc = "stopped"
    <3>1. CASE loops[i].pc # "mount"
      BY <3>1 DEF MountsInOrder
    <3>2. CASE loops[i].pc = "mount" /\ i > 1
      <4>1. i - 1 \in 1 .. Len(loops) /\ loops[i - 1].pc = "stopped"
        BY <3>2 DEF Moves, PrevStopped, Typed, IsSeq
      <4>2. \A j \in 1 .. i - 2 : loops[j].pc = "stopped"
        BY <4>1 DEF MountsInOrder
      <4> QED BY <4>1, <4>2
    <3> QED BY <3>1, <3>2
  <2>2. ASSUME NEW k \in 1 .. Len(loops), k > i PROVE loops[k].pc = "mount"
    BY <2>2 DEF Moves, MountsInOrder
  <2>3. ASSUME NEW k \in 1 .. Len(loops), loops'[k].pc # "mount", NEW j \in 1 .. k - 1
        PROVE  loops'[j].pc = "stopped"
    <3>1. k <= i /\ j \in 1 .. Len(loops) /\ j # i
      BY <1>1, <2>2, <2>3 DEF Typed, IsSeq
    <3>2. loops'[j] = loops[j]
      BY <1>1, <3>1
    <3> QED BY <1>1, <2>1, <2>3, <3>1, <3>2 DEF MountsInOrder
  <2> QED BY <1>1, <2>3 DEF MountsInOrder
<1>4. TurnsShared'
  BY <1>1 DEF Moves, TurnsShared, InTurn, Turn, Closed
<1>5. PlacedOnce'
  <2>1. SendsOnce' /\ SteersOnce' /\ NoneTwice'
    BY DEF Moves, PlacedOnce, SendsOnce, SteersOnce, NoneTwice
  <2>2. \A k \in 1 .. Len(loops) : loops'[k].q = loops[k].q
    BY <1>1 DEF Moves
  <2>3. QueuedOnce'
    <3>1. UNCHANGED <<sending, fate>> /\ QueuedOnce
      BY DEF Moves, PlacedOnce
    <3> QED BY <1>1, <2>2, <3>1, QueuesKept
  <2>4. PromptOnce'
    BY <1>1, <2>2 DEF Moves, PlacedOnce, PromptOnce, Prompt
  <2> QED BY <2>1, <2>3, <2>4 DEF PlacedOnce
<1> QED BY <1>2, <1>3, <1>4, <1>5

----------------------------------------------------------------------------
(* The steps of a goroutine that move it on.                               *)

LEMMA GoesOn ==
  ASSUME Typed, NEW i \in 1 .. Len(loops), NEW pc \in Pcs \ {"claim"},
         loops[i].pc # "claim", pc \in Working => loops[i].steps < MaxSteps,
         Goes(i, pc)
  PROVE  \E l : /\ Becomes(i, l) /\ IsLoop(l) /\ l.pc = pc /\ l.cur = loops[i].cur
                /\ l.t = loops[i].t /\ l.q = loops[i].q
<1> DEFINE l == [loops[i] EXCEPT !.pc = pc]
<1>1. IsLoop(loops[i])
  BY DEF Typed
<1>2. IsLoop(l) /\ l.pc = pc /\ l.t = loops[i].t /\ l.q = loops[i].q /\ l.cur = loops[i].cur
  BY <1>1 DEF IsLoop, LoopFields
<1>3. Becomes(i, l)
  BY DEF Goes
<1> QED BY <1>2, <1>3

LEMMA NextStepIs ==
  ASSUME Typed, NEW i \in 1 .. Len(loops), loops[i].pc \in Working \ {"claim"}
  PROVE  /\ IsLoop(NextStep(i)) /\ NextStep(i).pc = "step"
         /\ NextStep(i).nudges = loops[i].nudges
         /\ NextStep(i).t = loops[i].t /\ NextStep(i).q = loops[i].q
<1>1. IsLoop(loops[i])
  BY DEF Typed
<1> QED BY <1>1, SomeSteps DEF IsLoop, LoopFields, NextStep, Working, Pcs

LEMMA MountsKept ==
  ASSUME IInv, NEW i \in 1 .. Len(loops), Mounts(i) PROVE IInv'
<1>1. PICK l : Becomes(i, l) /\ IsLoop(l) /\ l.pc = "idle" /\ l.t = loops[i].t /\ l.q = loops[i].q
  BY GoesOn DEF IInv, Mounts, Pcs, Working
<1>2. wake' \in BOOLEAN
  BY DEF Mounts, Wake
<1>3. Moves(i, l)
  BY <1>1, <1>2 DEF Moves, Mounts, Closed, uiVars
<1> QED BY <1>3, MovesKept

LEMMA StopsKept ==
  ASSUME IInv, NEW i \in 1 .. Len(loops), Stops(i) PROVE IInv'
<1>1. PICK l : /\ Becomes(i, l) /\ IsLoop(l) /\ l.pc = "stopped"
               /\ l.t = loops[i].t /\ l.q = loops[i].q
  BY GoesOn DEF IInv, Stops, Pcs, Working
<1>3. Moves(i, l)
  BY <1>1 DEF Moves, Stops, Closed, uiVars, jobVars, IInv, Typed
<1> QED BY <1>3, MovesKept

LEMMA TakesWakeKept ==
  ASSUME IInv, NEW i \in 1 .. Len(loops), TakesWake(i) PROVE IInv'
<1>1. PICK l : Becomes(i, l) /\ IsLoop(l) /\ l.pc = "woken" /\ l.t = loops[i].t /\ l.q = loops[i].q
  BY GoesOn DEF IInv, TakesWake, Pcs, Working
<1>3. Moves(i, l)
  BY <1>1 DEF Moves, TakesWake, Closed, uiVars
<1> QED BY <1>3, MovesKept

LEMMA WakeTakesKept ==
  ASSUME IInv, NEW i \in 1 .. Len(loops), WakeTakes(i) PROVE IInv'
<1> DEFINE next == IF Taken(mounted) = <<>> THEN "idle" ELSE "begin"
           l == [loops[i] EXCEPT !.pc = next, !.cur = Wakes, !.news = Taken(mounted)]
<1>1. IsLoop(loops[i])
  BY DEF IInv, Typed
<1>2. next \in {"idle", "begin"}
  OBVIOUS
<1> HIDE DEF next
<1>3. /\ IsLoop(l) /\ l.pc = next /\ l.cur = Wakes
      /\ l.t = loops[i].t /\ l.q = loops[i].q
  BY <1>1, <1>2 DEF IsLoop, LoopFields, Working, Pcs, WakeTakes
<1>4. Becomes(i, l)
  BY DEF WakeTakes, next
<1>5. Moves(i, l)
  BY <1>2, <1>3, <1>4 DEF Moves, WakeTakes, Closed, uiVars, IInv, Typed
<1> QED BY <1>5, MovesKept

LEMMA LandJobsKept ==
  ASSUME IInv, NEW i \in 1 .. Len(loops), LandJobs(i) PROVE IInv'
<1>1. loops[i].steps < MaxSteps
  BY DEF IInv, Typed, IsLoop, Working, LandJobs
<1>2. PICK l : Becomes(i, l) /\ IsLoop(l) /\ l.pc = "model" /\ l.t = loops[i].t /\ l.q = loops[i].q
  BY <1>1, GoesOn DEF IInv, LandJobs, Pcs, Working
<1>3. Moves(i, l)
  BY <1>2 DEF Moves, LandJobs, Closed, uiVars, IInv, Typed, InTurn
<1> QED BY <1>3, MovesKept

LEMMA ModelKept ==
  ASSUME IInv, NEW i \in 1 .. Len(loops), Model(i) PROVE IInv'
<1>1. IsLoop(loops[i])
  BY DEF IInv, Typed
<1>2. \E l : /\ Becomes(i, l) /\ IsLoop(l) /\ l.t = loops[i].t /\ l.q = loops[i].q
             /\ l.pc \in {"cancelled", "close", "final", "block"}
  <2>1. CASE Becomes(i, [loops[i] EXCEPT !.pc = "close", !.hook = TRUE])
    <3> DEFINE l == [loops[i] EXCEPT !.pc = "close", !.hook = TRUE]
    <3>1. IsLoop(l) /\ l.pc = "close" /\ l.t = loops[i].t /\ l.q = loops[i].q
      BY <1>1 DEF IsLoop, LoopFields, Working, Pcs, Model
    <3> QED BY <2>1, <3>1
  <2>2. ASSUME NEW pc \in {"cancelled", "close", "final", "block"}, Goes(i, pc),
               pc \in {"final", "block"} => loops[i].pc = "model"
        PROVE  \E l : /\ Becomes(i, l) /\ IsLoop(l) /\ l.t = loops[i].t /\ l.q = loops[i].q
                      /\ l.pc \in {"cancelled", "close", "final", "block"}
    BY <1>1, <2>2, GoesOn DEF Model, Working, Pcs, IInv, IsLoop
  <2>3. CASE ~IsCut(i) /\ loops[i].pc = "model" /\ Goes(i, "final")
    BY <2>2, <2>3
  <2>4. CASE ~IsCut(i) /\ loops[i].pc = "model" /\ Goes(i, "block")
    BY <2>2, <2>4
  <2>5. CASE Goes(i, "cancelled") \/ Goes(i, "close")
    BY <2>2, <2>5
  <2> QED BY <2>1, <2>3, <2>4, <2>5 DEF Model
<1>3. PICK l : /\ Becomes(i, l) /\ IsLoop(l) /\ l.t = loops[i].t /\ l.q = loops[i].q
               /\ l.pc \in {"cancelled", "close", "final", "block"}
  BY <1>2
<1>4. Moves(i, l)
  BY <1>3 DEF Moves, Model, Closed, uiVars, jobVars, IInv, Typed, InTurn
<1> QED BY <1>4, MovesKept

LEMMA PushBackKept ==
  ASSUME IInv, NEW i \in 1 .. Len(loops), PushBack(i) PROVE IInv'
<1> DEFINE l == [NextStep(i) EXCEPT !.nudges = @ + 1]
<1>1. /\ IsLoop(NextStep(i)) /\ NextStep(i).pc = "step"
      /\ NextStep(i).t = loops[i].t /\ NextStep(i).q = loops[i].q
      /\ NextStep(i).nudges = loops[i].nudges
  BY NextStepIs DEF IInv, PushBack, Working
<1>2. IsLoop(l) /\ l.pc = "step" /\ l.t = loops[i].t /\ l.q = loops[i].q
  BY <1>1, SomeSteps DEF IsLoop, LoopFields, Working, PushBack
<1>3. Moves(i, l)
  BY <1>2 DEF Moves, PushBack, Closed, uiVars, jobVars, IInv, Typed, InTurn
<1> QED BY <1>3, MovesKept

LEMMA AcceptedKept ==
  ASSUME IInv, NEW i \in 1 .. Len(loops), Accepted(i) PROVE IInv'
<1> DEFINE l == [loops[i] EXCEPT !.pc = "done", !.hook = TRUE]
<1>1. IsLoop(loops[i]) /\ ~Turn(i).gate
  BY DEF IInv, Typed, TurnsShared, Accepted, Closed
<1>2. IsLoop(l) /\ l.pc = "done" /\ l.t = loops[i].t /\ l.q = loops[i].q
  BY <1>1 DEF IsLoop, LoopFields, Working, Pcs, Accepted
<1>3. Moves(i, l)
  BY <1>1, <1>2 DEF Moves, Accepted, uiVars, jobVars, IInv, Typed, InTurn
<1> QED BY <1>3, MovesKept

LEMMA ClaimsKept ==
  ASSUME IInv, NEW i \in 1 .. Len(loops), Claims(i) PROVE IInv'
<1> DEFINE l == [loops[i] EXCEPT !.pc = "code", !.claim = 0]
<1>1. IsLoop(loops[i])
  BY DEF IInv, Typed
<1>2. IsLoop(l) /\ l.pc = "code" /\ l.t = loops[i].t /\ l.q = loops[i].q
  BY <1>1 DEF IsLoop, LoopFields, Working, Pcs, Claims
<1>3. Moves(i, l)
  BY <1>2 DEF Moves, Claims, Closed, uiVars, IInv, Typed, InTurn
<1> QED BY <1>3, MovesKept

LEMMA DoneKept ==
  ASSUME IInv, NEW i \in 1 .. Len(loops), Done(i) \/ Hook(i) PROVE IInv'
<1> DEFINE pc == IF Done(i) /\ loops[i].hook THEN "hook" ELSE "end"
<1>1. pc \in {"hook", "end"} /\ Goes(i, pc)
  BY DEF Done, Hook
<1> HIDE DEF pc
<1>2. ~Turn(i).gate /\ InTurn(i) /\ loops[i].pc \in {"done", "hook"}
  BY DEF IInv, TurnsShared, Done, Hook, Closed, InTurn
<1>3. PICK l : Becomes(i, l) /\ IsLoop(l) /\ l.pc = pc /\ l.t = loops[i].t /\ l.q = loops[i].q
  BY <1>1, <1>2, GoesOn DEF IInv, Pcs, Working
<1>4. UNCHANGED <<wake, mounted, turns, ui, sending, fate, swap>>
  BY DEF Done, Hook, uiVars, jobVars
<1>5. Moves(i, l)
  BY <1>1, <1>2, <1>3, <1>4 DEF Moves, IInv, Typed
<1> QED BY <1>5, MovesKept

LEMMA CodeEndsKept ==
  ASSUME IInv, NEW i \in 1 .. Len(loops), CodeEnds(i) PROVE IInv'
<1>1. loops[i].steps < MaxSteps
  BY DEF IInv, Typed, IsLoop, Working, CodeEnds
<1>2. \E l : /\ Becomes(i, l) /\ IsLoop(l) /\ l.t = loops[i].t /\ l.q = loops[i].q
             /\ l.pc \in {"cancelled", "block", "step"}
  <2>1. CASE Goes(i, "cancelled")
    BY <2>1, GoesOn DEF IInv, CodeEnds, Pcs, Working
  <2>2. CASE Goes(i, "block")
    BY <1>1, <2>2, GoesOn DEF IInv, CodeEnds, Pcs, Working
  <2>3. CASE Becomes(i, NextStep(i))
    BY <2>3, NextStepIs DEF IInv, CodeEnds, Working
  <2> QED BY <2>1, <2>2, <2>3 DEF CodeEnds
<1>3. PICK l : /\ Becomes(i, l) /\ IsLoop(l) /\ l.t = loops[i].t /\ l.q = loops[i].q
               /\ l.pc \in {"cancelled", "block", "step"}
  BY <1>2
<1>4. Moves(i, l)
  BY <1>3 DEF Moves, CodeEnds, Closed, uiVars, jobVars, IInv, Typed, InTurn
<1> QED BY <1>4, MovesKept

(* What changes neither loops nor turns, nor where a line is.              *)
LEMMA StillKept ==
  ASSUME IInv, UNCHANGED <<loops, turns, sending, fate>>,
         mounted' \in Owners, wake' \in BOOLEAN,
         DOMAIN ui' = DOMAIN ui, ui'.at \in 0 .. Len(loops), ui'.t \in 1 .. Len(turns),
         DOMAIN swap' = DOMAIN swap, swap'.to \in Owners
  PROVE  IInv'
<1>1. Typed'
  BY DEF IInv, Typed
<1>2. MountsInOrder' /\ TurnsShared'
  BY DEF IInv, MountsInOrder, TurnsShared, InTurn, Turn
<1>3. SendsOnce' /\ NoneTwice' /\ SteersOnce'
  BY DEF IInv, PlacedOnce, SendsOnce, NoneTwice, SteersOnce
<1>4. QueuedOnce' /\ PromptOnce'
  BY DEF IInv, PlacedOnce, QueuedOnce, PromptOnce, Prompt
<1> QED BY <1>1, <1>2, <1>3, <1>4 DEF IInv, PlacedOnce

LEMMA CodeStartsKept ==
  ASSUME IInv, NEW i \in 1 .. Len(loops), CodeStarts(i) PROVE IInv'
<1>1. UNCHANGED <<mounted, wake, turns, ui, sending, fate, swap>>
  BY DEF CodeStarts, StartJob, uiVars
<1>2. CASE UNCHANGED loops
  BY <1>1, <1>2, StillKept DEF IInv, Typed
<1>3. ASSUME NEW j \in JobIds, Becomes(i, [loops[i] EXCEPT !.pc = "claim", !.claim = j])
      PROVE  IInv'
  <2> DEFINE l == [loops[i] EXCEPT !.pc = "claim", !.claim = j]
  <2>1. IsLoop(loops[i]) /\ j # 0
    BY JobsBound DEF IInv, Typed, JobIds
  <2>2. IsLoop(l) /\ l.pc = "claim" /\ l.t = loops[i].t /\ l.q = loops[i].q
    BY <2>1 DEF IsLoop, LoopFields, Working, Pcs, CodeStarts
  <2>3. Moves(i, l)
    BY <1>1, <1>3, <2>2 DEF Moves, CodeStarts, Closed, IInv, Typed, InTurn
  <2> QED BY <2>3, MovesKept
<1> QED BY <1>2, <1>3 DEF CodeStarts

----------------------------------------------------------------------------
(* The steps that take a line, open a turn, record and end it.             *)

LEMMA TakesLineKept ==
  ASSUME IInv, NEW i \in 1 .. Len(loops), TakesLine(i) PROVE IInv'
<1> USE DEF IInv
<1> DEFINE l == [loops[i] EXCEPT !.pc = "begin", !.cur = Head(loops[i].q), !.q = Tail(@)]
           n == Head(loops[i].q)
<1>1. IsLoop(loops[i]) /\ loops[i].q \in Seq(Lines) /\ loops[i].q # <<>>
  BY DEF Typed, IsLoop, TakesLine
<1>2. /\ IsLoop(l) /\ l.pc = "begin" /\ l.t = loops[i].t /\ l.cur = n
      /\ l.q = Tail(loops[i].q)
  BY <1>1 DEF IsLoop, LoopFields, Working, Pcs, TakesLine
<1>3. /\ n = loops[i].q[1] /\ Len(loops[i].q) >= 1 /\ Len(l.q) = Len(loops[i].q) - 1
      /\ \A k \in 1 .. Len(l.q) : k + 1 \in 1 .. Len(loops[i].q) /\ l.q[k] = loops[i].q[k + 1]
  BY <1>1, <1>2
<1>4. UNCHANGED <<mounted, wake, turns, ui, sending, fate, swap>> /\ Becomes(i, l)
  BY DEF TakesLine, jobVars, uiVars
<1> HIDE DEF l, n
<1>5. /\ IsSeq(loops') /\ Len(loops') = Len(loops) /\ loops'[i] = l
      /\ \A k \in 1 .. Len(loops) : k # i => loops'[k] = loops[k]
  BY <1>4, LoopSet DEF Typed
<1>6. Typed'
  BY <1>2, <1>4, <1>5 DEF Typed
<1>7. MountsInOrder'
  BY <1>5, OrderKept DEF TakesLine
<1>8. TurnsShared'
  BY <1>2, <1>4, <1>5 DEF TurnsShared, InTurn, Turn, Closed
<1>9. fate[n] = "sent" /\ n \notin sending
  BY <1>3 DEF PlacedOnce, QueuedOnce
<1>10. \A j \in 1 .. Len(loops) : \A m \in 1 .. Len(loops'[j].q) : loops'[j].q[m] # n
  <2> SUFFICES ASSUME NEW j \in 1 .. Len(loops), NEW m \in 1 .. Len(loops'[j].q)
               PROVE  loops'[j].q[m] # n
    OBVIOUS
  <2>1. CASE j = i
    <3>1. m + 1 \in 1 .. Len(loops[i].q) /\ loops'[j].q[m] = loops[i].q[m + 1]
      BY <1>3, <1>5, <2>1
    <3>2. 1 \in 1 .. Len(loops[i].q) /\ m + 1 # 1
      BY <1>1, <1>3, <3>1
    <3>3. loops[i].q[m + 1] # loops[i].q[1]
      BY <3>1, <3>2 DEF PlacedOnce, QueuedOnce
    <3> QED BY <1>3, <3>1, <3>3
  <2>2. CASE j # i
    <3>1. /\ loops'[j] = loops[j] /\ 1 \in 1 .. Len(loops[i].q) /\ n = loops[i].q[1]
          /\ m \in 1 .. Len(loops[j].q)
      BY <1>3, <1>5, <2>2
    <3>2. loops[i].q[1] # loops[j].q[m]
      BY <2>2, <3>1 DEF PlacedOnce, QueuedOnce
    <3> QED BY <3>1, <3>2
  <2> QED BY <2>1, <2>2
<1>11. PlacedOnce'
  <2>1. SendsOnce' /\ SteersOnce' /\ NoneTwice'
    BY <1>4 DEF PlacedOnce, SendsOnce, SteersOnce, NoneTwice
  <2>2. \A j \in 1 .. Len(loops) : \A m \in 1 .. Len(loops'[j].q) :
          \E p \in 1 .. Len(loops[j].q) :
            /\ loops'[j].q[m] = loops[j].q[p]
            /\ j = i => p = m + 1
            /\ j # i => p = m
    BY <1>1, <1>3, <1>5
  <2>3. QueuedOnce'
    <3>1. ASSUME NEW j \in 1 .. Len(loops), NEW m \in 1 .. Len(loops'[j].q)
          PROVE  fate[loops'[j].q[m]] = "sent" /\ loops'[j].q[m] \notin sending
      <4>1. PICK p \in 1 .. Len(loops[j].q) : loops'[j].q[m] = loops[j].q[p]
        BY <2>2
      <4> QED BY <4>1 DEF PlacedOnce, QueuedOnce
    <3>2. ASSUME NEW j \in 1 .. Len(loops), NEW m \in 1 .. Len(loops'[j].q),
                 NEW k \in 1 .. Len(loops), NEW r \in 1 .. Len(loops'[k].q),
                 loops'[j].q[m] = loops'[k].q[r]
          PROVE  j = k /\ m = r
      <4>1. PICK p \in 1 .. Len(loops[j].q) : /\ loops'[j].q[m] = loops[j].q[p]
                                              /\ (j = i => p = m + 1) /\ (j # i => p = m)
        BY <2>2
      <4>2. PICK u \in 1 .. Len(loops[k].q) : /\ loops'[k].q[r] = loops[k].q[u]
                                              /\ (k = i => u = r + 1) /\ (k # i => u = r)
        BY <2>2
      <4>0. loops[j].q[p] = loops[k].q[u]
        BY <3>2, <4>1, <4>2
      <4>3. j = k /\ p = u
        BY <4>0 DEF PlacedOnce, QueuedOnce
      <4>4. m \in Int /\ r \in Int
        OBVIOUS
      <4> QED BY <4>1, <4>2, <4>3, <4>4
    <3>3. Len(loops') = Len(loops) /\ fate' = fate /\ sending' = sending
      BY <1>4, <1>5
    <3> QED BY <3>1, <3>2, <3>3 DEF QueuedOnce
  <2>4. PromptOnce'
    <3>1. ASSUME NEW k \in 1 .. Len(loops), Prompt(k)' PROVE k = i
      BY <1>2, <1>5, <3>1, <1>7, MountsInOrder' DEF Prompt, MountsInOrder, TakesLine, Typed, IsSeq
    <3> QED BY <1>2, <1>4, <1>5, <1>9, <1>10, <3>1 DEF PromptOnce
  <2> QED BY <2>1, <2>3, <2>4 DEF PlacedOnce
<1> QED BY <1>6, <1>7, <1>8, <1>11

(* A turns value changes, its steers stay, and so does where a line is.    *)
LEMMA PlacesKept ==
  ASSUME IInv, NEW t \in 1 .. Len(turns), NEW r, TurnBecomes(t, r),
         r.steers = turns[t].steers, UNCHANGED <<sending, fate>>,
         Len(loops') = Len(loops),
         \A k \in 1 .. Len(loops) : loops'[k].q = loops[k].q,
         \A k \in 1 .. Len(loops) : Prompt(k)' => Prompt(k) /\ loops'[k].cur = loops[k].cur
  PROVE  PlacedOnce'
<1>1. /\ Len(turns') = Len(turns)
      /\ \A u \in 1 .. Len(turns) : turns'[u].steers = turns[u].steers
  BY TurnSet DEF IInv, Typed
<1>2. SendsOnce' /\ NoneTwice'
  BY DEF IInv, PlacedOnce, SendsOnce, NoneTwice
<1>3. SteersOnce'
  <2> DEFINE st(u) == turns[u].steers
  <2>1. \A u \in 1 .. Len(turns) : turns'[u].steers = st(u)
    BY <1>1
  <2>2. \A v \in 1 .. Len(turns) : \A k \in 1 .. Len(st(v)) :
          /\ fate[st(v)[k]] = "steers"
          /\ \A u \in 1 .. Len(turns) : \A m \in 1 .. Len(st(u)) :
               st(v)[k] = st(u)[m] => v = u
    BY DEF IInv, PlacedOnce, SteersOnce
  <2> HIDE DEF st
  <2> QED BY <1>1, <2>1, <2>2 DEF SteersOnce
<1>4. QueuedOnce'
  BY QueuesKept DEF IInv, PlacedOnce
<1> DEFINE q(k) == loops[k].q
<1>5. \A k \in 1 .. Len(loops) : loops'[k].q = q(k)
  OBVIOUS
<1>6. PromptOnce'
  <2>1. \A k \in 1 .. Len(loops) : Prompt(k) =>
          /\ fate[loops[k].cur] = "sent" /\ loops[k].cur \notin sending
          /\ \A j \in 1 .. Len(loops) : \A m \in 1 .. Len(q(j)) : q(j)[m] # loops[k].cur
    BY DEF IInv, PlacedOnce, PromptOnce
  <2> HIDE DEF q
  <2> QED BY <1>5, <2>1 DEF PromptOnce
<1> QED BY <1>2, <1>3, <1>4, <1>6 DEF PlacedOnce

LEMMA BeginKept ==
  ASSUME IInv, NEW i \in 1 .. Len(loops), Begin(i) PROVE IInv'
<1> DEFINE l == [loops[i] EXCEPT !.pc = "admit", !.steps = 0, !.nudges = 0, !.hook = FALSE]
           t == loops[i].t
           r == Installed(Turn(i))
<1>1. IsLoop(loops[i]) /\ t \in 1 .. Len(turns) /\ IsTurn(Turn(i))
  BY DEF IInv, Typed, Turn
<1>2. /\ IsLoop(l) /\ l.pc = "admit" /\ l.t = t /\ l.cur = loops[i].cur /\ l.q = loops[i].q
  BY <1>1, SomeSteps DEF IsLoop, LoopFields, Working, Pcs, Begin
<1>3. IsTurn(r) /\ r.installed /\ r.gate /\ r.steers = Turn(i).steers
  BY <1>1 DEF IsTurn, TurnFields, Installed
<1>4. /\ Becomes(i, l) /\ TurnBecomes(t, r)
      /\ UNCHANGED <<mounted, wake, ui, sending, fate, swap>>
  BY DEF Begin, jobVars, uiVars
<1>p. loops[i].pc = "begin"
  BY DEF Begin
<1> HIDE DEF l, t, r
<1>5. /\ IsSeq(loops') /\ Len(loops') = Len(loops) /\ loops'[i] = l
      /\ \A k \in 1 .. Len(loops) : k # i => loops'[k] = loops[k]
  BY <1>4, LoopSet DEF IInv, Typed
<1>6. /\ IsSeq(turns') /\ Len(turns') = Len(turns) /\ turns'[t] = r
      /\ \A u \in 1 .. Len(turns) : u # t => turns'[u] = turns[u]
  BY <1>1, <1>4, TurnSet DEF IInv, Typed
<1>7. Typed'
  BY <1>1, <1>2, <1>3, <1>4, <1>5, <1>6 DEF IInv, Typed
<1>8. MountsInOrder'
  BY <1>5, <1>p, OrderKept DEF IInv
<1>9. TurnsShared'
  <2>1. ASSUME NEW k \in 1 .. Len(loops), InTurn(k)' PROVE k = i
    BY <1>5, <1>p, <2>1, Alone DEF IInv, InTurn
  <2>2. Turn(i)'.installed
    BY <1>2, <1>3, <1>5, <1>6 DEF Turn
  <2> QED BY <1>2, <1>5, <2>1, <2>2 DEF TurnsShared, Closed, InTurn
<1>10. PlacedOnce'
  <2>1. \A k \in 1 .. Len(loops) : loops'[k].q = loops[k].q
    BY <1>2, <1>5
  <2>2. \A k \in 1 .. Len(loops) : Prompt(k)' => Prompt(k) /\ loops'[k].cur = loops[k].cur
    BY <1>2, <1>5, <1>p DEF Prompt
  <2>3. r.steers = turns[t].steers
    BY <1>3 DEF Turn, t
  <2> QED BY <1>1, <1>4, <1>5, <2>1, <2>2, <2>3, PlacesKept
<1> QED BY <1>7, <1>8, <1>9, <1>10 DEF IInv

LEMMA EndKept ==
  ASSUME IInv, NEW i \in 1 .. Len(loops), End(i) PROVE IInv'
<1> DEFINE t == loops[i].t
           r == [Turn(i) EXCEPT !.installed = FALSE, !.cut = FALSE, !.gate = FALSE]
<1>1. /\ t \in 1 .. Len(turns) /\ IsTurn(Turn(i)) /\ ~Turn(i).gate
      /\ loops[i].pc = "end"
  BY DEF IInv, Typed, Turn, TurnsShared, Closed, End
<1>2. PICK l : Becomes(i, l) /\ IsLoop(l) /\ l.pc = "idle" /\ l.t = loops[i].t /\ l.q = loops[i].q
  BY GoesOn DEF IInv, End, Pcs, Working
<1>3. IsTurn(r) /\ r.steers = Turn(i).steers
  BY <1>1 DEF IsTurn, TurnFields
<1>4. TurnBecomes(t, r) /\ UNCHANGED <<mounted, wake, ui, sending, fate, swap>>
  BY DEF End, jobVars, uiVars
<1> HIDE DEF t, r
<1>5. /\ IsSeq(loops') /\ Len(loops') = Len(loops) /\ loops'[i] = l
      /\ \A k \in 1 .. Len(loops) : k # i => loops'[k] = loops[k]
  BY <1>2, LoopSet DEF IInv, Typed
<1>6. /\ IsSeq(turns') /\ Len(turns') = Len(turns) /\ turns'[t] = r
      /\ \A u \in 1 .. Len(turns) : u # t => turns'[u] = turns[u]
  BY <1>1, <1>4, TurnSet DEF IInv, Typed
<1>7. Typed'
  BY <1>2, <1>3, <1>4, <1>5, <1>6 DEF IInv, Typed
<1>8. MountsInOrder'
  BY <1>1, <1>5, OrderKept DEF IInv
<1>9. TurnsShared'
  <2>1. ASSUME NEW k \in 1 .. Len(loops) PROVE ~InTurn(k)'
    BY <1>1, <1>2, <1>5, Alone DEF IInv, InTurn
  <2> QED BY <1>5, <2>1 DEF TurnsShared, Closed, InTurn
<1>10. PlacedOnce'
  <2>1. \A k \in 1 .. Len(loops) : loops'[k].q = loops[k].q
    BY <1>2, <1>5
  <2>2. \A k \in 1 .. Len(loops) : Prompt(k)' => Prompt(k) /\ loops'[k].cur = loops[k].cur
    BY <1>2, <1>5 DEF Prompt
  <2>3. r.steers = turns[t].steers
    BY <1>3 DEF Turn, t
  <2> QED BY <1>1, <1>4, <1>5, <2>1, <2>2, <2>3, PlacesKept
<1> QED BY <1>7, <1>8, <1>9, <1>10 DEF IInv

LEMMA Emptied ==
  ASSUME NEW t, IsTurn(t), t.installed, NEW g \in BOOLEAN
  PROVE  IsTurn([t EXCEPT !.steers = <<>>, !.gate = g])
<1> DEFINE r == [t EXCEPT !.steers = <<>>, !.gate = g]
<1>1. DOMAIN r = TurnFields
  BY DEF IsTurn
<1>2. r.installed /\ r.gate = g /\ r.steers = <<>>
  BY DEF IsTurn, TurnFields
<1>3. <<>> \in Seq(Lines)
  OBVIOUS
<1> HIDE DEF r
<1>4. IsTurn(r)
  BY <1>1, <1>2, <1>3 DEF IsTurn
<1> QED BY <1>4 DEF r

(* A turn that is running lands its steers and goes on.                    *)
LEMMA LandsKept ==
  ASSUME IInv, NEW i \in 1 .. Len(loops), NEW final \in BOOLEAN, NEW landed,
         LandSteers(i, final, landed), InTurn(i), loops[i].pc # "begin", ~Prompt(i),
         NEW l, Becomes(i, l), IsLoop(l), l.t = loops[i].t, l.q = loops[i].q,
         l.pc \notin {"mount", "stopped", "begin", "admit"},
         l.pc \in Closed => final,
         UNCHANGED <<mounted, wake, ui, sending, swap>>
  PROVE  IInv'
<1> DEFINE t == loops[i].t
           here == Range(Turn(i).steers)
           r == [Turn(i) EXCEPT !.steers = <<>>, !.gate = ~final]
<1>1. /\ t \in 1 .. Len(turns) /\ IsTurn(Turn(i)) /\ Turn(i) = turns[t] /\ Turn(i).installed
  BY DEF IInv, Typed, Turn, TurnsShared
<1>2. IsTurn(r) /\ r.installed /\ r.gate = ~final /\ r.steers = <<>>
  <2> DEFINE g == ~final
  <2>1. g \in BOOLEAN /\ r = [Turn(i) EXCEPT !.steers = <<>>, !.gate = g]
    OBVIOUS
  <2> HIDE DEF g
  <2>2. IsTurn([Turn(i) EXCEPT !.steers = <<>>, !.gate = g])
    BY <1>1, <2>1, Emptied
  <2>3. /\ r.installed = Turn(i).installed /\ r.gate = g /\ r.steers = <<>>
    BY <1>1, <2>1 DEF IsTurn, TurnFields
  <2> QED BY <1>1, <2>1, <2>2, <2>3 DEF g
<1>3. TurnBecomes(t, r)
  BY DEF LandSteers, TakesSteers
<1>4. \A n \in here : n \in Lines /\ fate[n] = "steers"
  BY <1>1 DEF IInv, Typed, IsTurn, PlacedOnce, SteersOnce, Range
<1>5. /\ fate' \in [Lines -> Fates]
      /\ \A n \in Lines : n \notin here => fate'[n] = fate[n]
      /\ \A n \in here : fate'[n] \in {"recorded", "blocked"}
  <2>1. CASE Recorded(here)
    BY <1>4, <2>1 DEF Recorded, IInv, Typed, Fates
  <2>2. ASSUME NEW out \in SUBSET here,
               fate' = [n \in Lines |-> IF n \in out THEN "blocked"
                                        ELSE IF n \in here THEN "recorded" ELSE fate[n]]
        PROVE  /\ fate' \in [Lines -> Fates]
               /\ \A n \in Lines : n \notin here => fate'[n] = fate[n]
               /\ \A n \in here : fate'[n] \in {"recorded", "blocked"}
    BY <1>4, <2>2 DEF IInv, Typed, Fates
  <2> QED BY <2>1, <2>2 DEF LandSteers
<1>h. \A n \in here : \E m \in 1 .. Len(turns[t].steers) : n = turns[t].steers[m]
  BY <1>1 DEF Range, IsTurn
<1> HIDE DEF t, r, here
<1>6. /\ IsSeq(loops') /\ Len(loops') = Len(loops) /\ loops'[i] = l
      /\ \A k \in 1 .. Len(loops) : k # i => loops'[k] = loops[k]
  BY LoopSet DEF IInv, Typed
<1>7. /\ IsSeq(turns') /\ Len(turns') = Len(turns) /\ turns'[t] = r
      /\ \A u \in 1 .. Len(turns) : u # t => turns'[u] = turns[u]
  BY <1>1, <1>3, TurnSet DEF IInv, Typed
<1>8. Typed'
  BY <1>1, <1>2, <1>5, <1>6, <1>7 DEF IInv, Typed, t
<1>9. MountsInOrder'
  BY <1>6, OrderKept DEF IInv, InTurn
<1>10. TurnsShared'
  <2>1. ASSUME NEW k \in 1 .. Len(loops), k # i PROVE ~InTurn(k)'
    BY <1>6, <2>1, Alone DEF IInv, InTurn
  <2>2. Turn(i)' = r
    BY <1>6, <1>7 DEF Turn, t
  <2> QED BY <1>2, <1>6, <2>1, <2>2 DEF TurnsShared, Closed, InTurn
<1>11. PlacedOnce'
  <2>1. SendsOnce' /\ NoneTwice'
    BY <1>4, <1>5 DEF IInv, Typed, PlacedOnce, SendsOnce, NoneTwice
  <2> DEFINE st(u) == IF u = t THEN <<>> ELSE turns[u].steers
  <2>2. \A u \in 1 .. Len(turns) : turns'[u].steers = st(u)
    BY <1>2, <1>7
  <2>3. \A v \in 1 .. Len(turns) : \A k \in 1 .. Len(st(v)) :
          /\ fate'[st(v)[k]] = "steers"
          /\ \A u \in 1 .. Len(turns) : \A m \in 1 .. Len(st(u)) :
               st(v)[k] = st(u)[m] => v = u
    <3> SUFFICES ASSUME NEW v \in 1 .. Len(turns), NEW k \in 1 .. Len(st(v))
                 PROVE  /\ fate'[st(v)[k]] = "steers"
                        /\ \A u \in 1 .. Len(turns) : \A m \in 1 .. Len(st(u)) :
                             st(v)[k] = st(u)[m] => v = u
      OBVIOUS
    <3>1. v # t /\ st(v) = turns[v].steers
      OBVIOUS
    <3>2. /\ fate[st(v)[k]] = "steers" /\ st(v)[k] \in Lines
          /\ \A u \in 1 .. Len(turns) : \A m \in 1 .. Len(turns[u].steers) :
               st(v)[k] = turns[u].steers[m] => v = u
      BY <3>1 DEF IInv, PlacedOnce, SteersOnce, Typed, IsTurn
    <3>3. st(v)[k] \notin here
      <4>1. SUFFICES ASSUME st(v)[k] \in here PROVE FALSE
        OBVIOUS
      <4>2. PICK m \in 1 .. Len(turns[t].steers) : st(v)[k] = turns[t].steers[m]
        BY <1>h, <4>1
      <4> QED BY <1>1, <3>1, <3>2, <4>2
    <3> QED BY <1>5, <3>2, <3>3
  <2>4. SteersOnce'
    <3> HIDE DEF st
    <3> QED BY <1>7, <2>2, <2>3 DEF SteersOnce
  <2> DEFINE q(k) == loops[k].q
  <2>5. \A k \in 1 .. Len(loops) : loops'[k].q = q(k)
    BY <1>6
  <2>6. \A j \in 1 .. Len(loops) : \A k \in 1 .. Len(q(j)) :
          /\ fate'[q(j)[k]] = "sent" /\ q(j)[k] \notin sending
          /\ \A m \in 1 .. Len(loops) : \A n \in 1 .. Len(q(m)) :
               q(j)[k] = q(m)[n] => j = m /\ k = n
    <3> SUFFICES ASSUME NEW j \in 1 .. Len(loops), NEW k \in 1 .. Len(q(j))
                 PROVE  fate'[q(j)[k]] = "sent"
      BY DEF IInv, PlacedOnce, QueuedOnce
    <3>1. fate[q(j)[k]] = "sent" /\ q(j)[k] \in Lines
      BY DEF IInv, PlacedOnce, QueuedOnce, Typed, IsLoop
    <3> QED BY <1>4, <1>5, <3>1
  <2>7. QueuedOnce'
    <3> HIDE DEF q
    <3> QED BY <1>6, <2>5, <2>6 DEF QueuedOnce
  <2>8. PromptOnce'
    <3>1. ASSUME NEW k \in 1 .. Len(loops) PROVE ~Prompt(k)'
      BY <1>6, Alone DEF IInv, InTurn, Prompt
    <3> QED BY <1>6, <3>1 DEF PromptOnce
  <2> QED BY <2>1, <2>4, <2>7, <2>8 DEF PlacedOnce
<1> QED BY <1>8, <1>9, <1>10, <1>11 DEF IInv

LEMMA StepKept ==
  ASSUME IInv, NEW i \in 1 .. Len(loops), Step(i) PROVE IInv'
<1>1. CASE Goes(i, "last") /\ UNCHANGED <<turns, fate>>
  <2>1. PICK l : Becomes(i, l) /\ IsLoop(l) /\ l.pc = "last" /\ l.t = loops[i].t /\ l.q = loops[i].q
    BY <1>1, GoesOn DEF IInv, Step, Pcs, Working
  <2>2. Moves(i, l)
    BY <1>1, <2>1 DEF Moves, Step, Closed, uiVars, jobVars, IInv, Typed, InTurn
  <2> QED BY <2>2, MovesKept
<1>2. ASSUME loops[i].steps < MaxSteps, Goes(i, "jobs"),
             NEW landed \in BOOLEAN, LandSteers(i, FALSE, landed)
      PROVE  IInv'
  <2>1. PICK l : Becomes(i, l) /\ IsLoop(l) /\ l.pc = "jobs" /\ l.t = loops[i].t /\ l.q = loops[i].q
    BY <1>2, GoesOn DEF IInv, Step, Pcs, Working
  <2>2. InTurn(i) /\ loops[i].pc # "begin" /\ ~Prompt(i)
    BY DEF Step, InTurn, Prompt
  <2>3. UNCHANGED <<mounted, wake, ui, sending, swap>>
    BY DEF Step, jobVars, uiVars
  <2> QED BY <1>2, <2>1, <2>2, <2>3, LandsKept DEF Closed
<1> QED BY <1>1, <1>2 DEF Step

LEMMA FinalKept ==
  ASSUME IInv, NEW i \in 1 .. Len(loops), Final(i) PROVE IInv'
<1>1. PICK landed \in BOOLEAN : /\ LandSteers(i, TRUE, landed)
                                /\ IF landed THEN Becomes(i, NextStep(i)) ELSE Goes(i, "judge")
  BY DEF Final
<1>2. \E l : /\ Becomes(i, l) /\ IsLoop(l) /\ l.t = loops[i].t /\ l.q = loops[i].q
             /\ l.pc \in {"step", "judge"}
  <2>1. CASE Becomes(i, NextStep(i))
    BY <2>1, NextStepIs DEF IInv, Final, Working
  <2>2. CASE Goes(i, "judge")
    <3>1. loops[i].steps < MaxSteps
      BY DEF IInv, Typed, IsLoop, Working, Final
    <3> QED BY <2>2, <3>1, GoesOn DEF IInv, Final, Pcs
  <2> QED BY <1>1, <2>1, <2>2
<1>3. PICK l : /\ Becomes(i, l) /\ IsLoop(l) /\ l.t = loops[i].t /\ l.q = loops[i].q
               /\ l.pc \in {"step", "judge"}
  BY <1>2
<1>4. InTurn(i) /\ loops[i].pc # "begin" /\ ~Prompt(i)
  BY DEF Final, InTurn, Prompt
<1>5. UNCHANGED <<mounted, wake, ui, sending, swap>>
  BY DEF Final, jobVars, uiVars
<1> QED BY <1>1, <1>3, <1>4, <1>5, LandsKept

LEMMA BlockKept ==
  ASSUME IInv, NEW i \in 1 .. Len(loops), Block(i) PROVE IInv'
<1>1. PICK landed \in BOOLEAN : /\ LandSteers(i, FALSE, landed)
                                /\ IF landed THEN Becomes(i, NextStep(i)) ELSE Goes(i, "code")
  BY DEF Block
<1>2. \E l : /\ Becomes(i, l) /\ IsLoop(l) /\ l.t = loops[i].t /\ l.q = loops[i].q
             /\ l.pc \in {"step", "code"}
  <2>1. CASE Becomes(i, NextStep(i))
    BY <2>1, NextStepIs DEF IInv, Block, Working
  <2>2. CASE Goes(i, "code")
    <3>1. loops[i].steps < MaxSteps
      BY DEF IInv, Typed, IsLoop, Working, Block
    <3> QED BY <2>2, <3>1, GoesOn DEF IInv, Block, Pcs
  <2> QED BY <1>1, <2>1, <2>2
<1>3. PICK l : /\ Becomes(i, l) /\ IsLoop(l) /\ l.t = loops[i].t /\ l.q = loops[i].q
               /\ l.pc \in {"step", "code"}
  BY <1>2
<1>4. InTurn(i) /\ loops[i].pc # "begin" /\ ~Prompt(i)
  BY DEF Block, InTurn, Prompt
<1>5. UNCHANGED <<mounted, wake, ui, sending, swap>>
  BY DEF Block, jobVars, uiVars
<1> QED BY <1>1, <1>3, <1>4, <1>5, LandsKept DEF Closed

LEMMA FinishKept ==
  ASSUME IInv, NEW i \in 1 .. Len(loops), Finish(i) PROVE IInv'
<1>1. PICK landed \in BOOLEAN : LandSteers(i, TRUE, landed)
  BY DEF Finish
<1>2. PICK l : Becomes(i, l) /\ IsLoop(l) /\ l.pc = "done" /\ l.t = loops[i].t /\ l.q = loops[i].q
  BY GoesOn DEF IInv, Finish, Pcs, Working
<1>3. InTurn(i) /\ loops[i].pc # "begin" /\ ~Prompt(i)
  BY DEF Finish, InTurn, Prompt
<1>4. UNCHANGED <<mounted, wake, ui, sending, swap>>
  BY DEF Finish, jobVars, uiVars
<1> QED BY <1>1, <1>2, <1>3, <1>4, LandsKept

LEMMA AdmitKept ==
  ASSUME IInv, NEW i \in 1 .. Len(loops), Admit(i) PROVE IInv'
<1> DEFINE line == {loops[i].cur} \ {Wakes}
<1>1. /\ IsLoop(loops[i]) /\ loops[i].pc = "admit" /\ line \subseteq Lines
      /\ Turn(i).installed
  BY DEF IInv, Typed, IsLoop, Admit, TurnsShared, InTurn
<1>2. PICK pc \in {"cancelled", "close", "step"} :
        Becomes(i, [loops[i] EXCEPT !.pc = pc, !.news = <<>>])
  BY DEF Admit
<1> DEFINE l == [loops[i] EXCEPT !.pc = pc, !.news = <<>>]
<1>3. IsLoop(l) /\ l.pc = pc /\ l.t = loops[i].t /\ l.q = loops[i].q
  BY <1>1 DEF IsLoop, LoopFields, Working, Pcs
<1>4. \A n \in line : /\ fate[n] = "sent" /\ n \notin sending
                      /\ \A j \in 1 .. Len(loops) : \A m \in 1 .. Len(loops[j].q) :
                           loops[j].q[m] # n
  BY <1>1 DEF IInv, PlacedOnce, PromptOnce, Prompt
<1>5. /\ fate' \in [Lines -> Fates]
      /\ \A n \in Lines : n \notin line => fate'[n] = fate[n]
      /\ \A n \in line : fate'[n] \in {"recorded", "cut", "blocked"}
  <2>1. CASE Recorded(line)
    BY <1>1, <1>4, <2>1 DEF Recorded, IInv, Typed, Fates
  <2>2. ASSUME NEW why \in {"cut", "blocked"},
               fate' = [n \in Lines |-> IF n \in line THEN why ELSE fate[n]]
        PROVE  /\ fate' \in [Lines -> Fates]
               /\ \A n \in Lines : n \notin line => fate'[n] = fate[n]
               /\ \A n \in line : fate'[n] \in {"recorded", "cut", "blocked"}
    BY <1>1, <2>2 DEF IInv, Typed, Fates
  <2> QED BY <2>1, <2>2 DEF Admit
<1>6. Becomes(i, l) /\ UNCHANGED <<mounted, wake, turns, ui, sending, swap>>
  BY <1>2 DEF Admit, jobVars, uiVars
<1> HIDE DEF l, line
<1>7. /\ IsSeq(loops') /\ Len(loops') = Len(loops) /\ loops'[i] = l
      /\ \A k \in 1 .. Len(loops) : k # i => loops'[k] = loops[k]
  BY <1>6, LoopSet DEF IInv, Typed
<1>8. Typed'
  BY <1>3, <1>5, <1>6, <1>7 DEF IInv, Typed
<1>9. MountsInOrder'
  BY <1>1, <1>7, OrderKept DEF IInv
<1>10. TurnsShared'
  BY <1>1, <1>3, <1>6, <1>7 DEF IInv, TurnsShared, Closed, InTurn, Turn
<1>11. PlacedOnce'
  <2>1. SendsOnce'
    BY <1>4, <1>5, <1>6 DEF IInv, Typed, PlacedOnce, SendsOnce
  <2>2. NoneTwice'
    BY <1>5 DEF IInv, PlacedOnce, NoneTwice
  <2>3. SteersOnce'
    <3>1. ASSUME NEW v \in 1 .. Len(turns), NEW k \in 1 .. Len(turns[v].steers)
          PROVE  fate'[turns[v].steers[k]] = "steers"
      <4>1. fate[turns[v].steers[k]] = "steers"
        BY DEF IInv, PlacedOnce, SteersOnce
      <4>2. turns[v].steers[k] \in Lines
        BY DEF IInv, Typed, IsTurn
      <4> QED BY <1>4, <1>5, <4>1, <4>2
    <3> QED BY <1>6, <3>1 DEF IInv, PlacedOnce, SteersOnce
  <2> DEFINE q(k) == loops[k].q
  <2>4. \A k \in 1 .. Len(loops) : loops'[k].q = q(k)
    BY <1>3, <1>7
  <2>5. \A j \in 1 .. Len(loops) : \A k \in 1 .. Len(q(j)) :
          /\ fate[q(j)[k]] = "sent" /\ q(j)[k] \notin sending
          /\ q(j)[k] \notin line /\ q(j)[k] \in Lines
          /\ \A m \in 1 .. Len(loops) : \A n \in 1 .. Len(q(m)) :
               q(j)[k] = q(m)[n] => j = m /\ k = n
    <3> SUFFICES ASSUME NEW j \in 1 .. Len(loops), NEW k \in 1 .. Len(q(j))
                 PROVE  /\ fate[q(j)[k]] = "sent" /\ q(j)[k] \notin sending
                        /\ q(j)[k] \notin line /\ q(j)[k] \in Lines
                        /\ \A m \in 1 .. Len(loops) : \A n \in 1 .. Len(q(m)) :
                             q(j)[k] = q(m)[n] => j = m /\ k = n
      OBVIOUS
    <3>1. q(j)[k] \in Lines
      BY DEF IInv, Typed, IsLoop
    <3>2. q(j)[k] \notin line
      BY <1>4
    <3> QED BY <3>1, <3>2 DEF IInv, PlacedOnce, QueuedOnce
  <2>6. QueuedOnce'
    <3>1. Len(loops') = Len(loops) /\ sending' = sending
      BY <1>6, <1>7
    <3> HIDE DEF q
    <3>2. \A j \in 1 .. Len(loops) : \A k \in 1 .. Len(q(j)) : fate'[q(j)[k]] = "sent"
      BY <1>5, <2>5
    <3> QED BY <2>4, <2>5, <3>1, <3>2 DEF QueuedOnce
  <2>7. PromptOnce'
    <3>1. ASSUME NEW k \in 1 .. Len(loops) PROVE ~Prompt(k)'
      BY <1>1, <1>3, <1>7, Alone DEF IInv, Prompt
    <3> QED BY <1>7, <3>1 DEF PromptOnce
  <2> QED BY <2>1, <2>2, <2>3, <2>6, <2>7 DEF PlacedOnce
<1> QED BY <1>8, <1>9, <1>10, <1>11 DEF IInv

LEMMA LoopStepKept ==
  ASSUME IInv, NEW i \in 1 .. Len(loops), LoopStep(i) PROVE IInv'
BY MountsKept, TakesLineKept, StopsKept, TakesWakeKept, WakeTakesKept, BeginKept,
   AdmitKept, StepKept, LandJobsKept, ModelKept, FinalKept, PushBackKept,
   AcceptedKept, BlockKept, CodeStartsKept, ClaimsKept, CodeEndsKept, FinishKept,
   DoneKept, EndKept DEF LoopStep

----------------------------------------------------------------------------
(* The terminal.                                                           *)

LEMMA SendsKept ==
  ASSUME IInv, NEW n \in Lines, Sends(n) PROVE IInv'
<1> DEFINE i == ui.at
           l == [loops[i] EXCEPT !.q = Append(@, n)]
<1>1. i \in 1 .. Len(loops) /\ IsLoop(loops[i]) /\ loops[i].q \in Seq(Lines)
  BY DEF IInv, Typed, IsLoop, Sends
<1>2. /\ IsLoop(l) /\ l.pc = loops[i].pc /\ l.t = loops[i].t /\ l.cur = loops[i].cur
      /\ l.q = Append(loops[i].q, n)
  BY <1>1 DEF IsLoop, LoopFields
<1>3. /\ Len(l.q) = Len(loops[i].q) + 1 /\ l.q[Len(l.q)] = n
      /\ \A k \in 1 .. Len(loops[i].q) : l.q[k] = loops[i].q[k]
  BY <1>1, <1>2
<1>4. /\ Becomes(i, l) /\ sending' = sending \ {n} /\ n \in sending
      /\ UNCHANGED <<mounted, wake, turns, ui, fate, swap>>
  BY DEF Sends, jobVars
<1> HIDE DEF i, l
<1>5. /\ IsSeq(loops') /\ Len(loops') = Len(loops) /\ loops'[i] = l
      /\ \A k \in 1 .. Len(loops) : k # i => loops'[k] = loops[k]
  BY <1>1, <1>4, LoopSet DEF IInv, Typed
<1>6. Typed'
  BY <1>1, <1>2, <1>4, <1>5 DEF IInv, Typed
<1>7. \A k \in 1 .. Len(loops) : /\ loops'[k].pc = loops[k].pc /\ loops'[k].t = loops[k].t
                                 /\ loops'[k].cur = loops[k].cur
  BY <1>2, <1>5
<1>8. MountsInOrder' /\ TurnsShared'
  BY <1>4, <1>5, <1>7 DEF IInv, MountsInOrder, TurnsShared, InTurn, Turn, Closed
<1>9. PlacedOnce'
  <2>1. SendsOnce' /\ SteersOnce' /\ NoneTwice'
    BY <1>4 DEF IInv, PlacedOnce, SendsOnce, SteersOnce, NoneTwice
  <2>2. fate[n] = "sent" /\ n \notin sending'
    BY <1>4 DEF IInv, PlacedOnce, SendsOnce
  <2> DEFINE q(k) == loops[k].q
             old(j, m) == j # i \/ m # Len(q(i)) + 1
  <2>3. \A j \in 1 .. Len(loops) : \A m \in 1 .. Len(loops'[j].q) :
          IF old(j, m) THEN m \in 1 .. Len(q(j)) /\ loops'[j].q[m] = q(j)[m]
                       ELSE loops'[j].q[m] = n
    BY <1>1, <1>3, <1>5
  <2>4. \A j \in 1 .. Len(loops) : \A k \in 1 .. Len(q(j)) :
          /\ fate[q(j)[k]] = "sent" /\ q(j)[k] \notin sending' /\ q(j)[k] # n
          /\ \A m \in 1 .. Len(loops) : \A p \in 1 .. Len(q(m)) :
               q(j)[k] = q(m)[p] => j = m /\ k = p
    BY <1>4 DEF IInv, PlacedOnce, QueuedOnce
  <2>5. QueuedOnce'
    <3> HIDE DEF q
    <3>1. ASSUME NEW j \in 1 .. Len(loops), NEW m \in 1 .. Len(loops'[j].q)
          PROVE  fate[loops'[j].q[m]] = "sent" /\ loops'[j].q[m] \notin sending'
      BY <2>2, <2>3, <2>4
    <3>2. ASSUME NEW j \in 1 .. Len(loops), NEW m \in 1 .. Len(loops'[j].q),
                 NEW k \in 1 .. Len(loops), NEW r \in 1 .. Len(loops'[k].q),
                 loops'[j].q[m] = loops'[k].q[r]
          PROVE  j = k /\ m = r
      <4>1. CASE old(j, m) /\ old(k, r)
        <5>1. q(j)[m] = q(k)[r] /\ m \in 1 .. Len(q(j)) /\ r \in 1 .. Len(q(k))
          BY <2>3, <3>2, <4>1
        <5> QED BY <2>4, <5>1
      <4>2. CASE ~old(j, m) /\ ~old(k, r)
        BY <4>2
      <4>3. CASE old(j, m) /\ ~old(k, r)
        BY <2>3, <2>4, <3>2, <4>3
      <4>4. CASE ~old(j, m) /\ old(k, r)
        <5>1. q(k)[r] = n /\ r \in 1 .. Len(q(k))
          BY <2>3, <3>2, <4>4
        <5> QED BY <2>4, <5>1
      <4> QED BY <4>1, <4>2, <4>3, <4>4
    <3>3. Len(loops') = Len(loops) /\ fate' = fate
      BY <1>4, <1>5
    <3> QED BY <3>1, <3>2, <3>3 DEF QueuedOnce
  <2>6. \A k \in 1 .. Len(loops) : Prompt(k) =>
          /\ fate[loops[k].cur] = "sent" /\ loops[k].cur \notin sending' /\ loops[k].cur # n
          /\ \A j \in 1 .. Len(loops) : \A m \in 1 .. Len(q(j)) : q(j)[m] # loops[k].cur
    BY <1>4 DEF IInv, PlacedOnce, PromptOnce
  <2>7. PromptOnce'
    <3> HIDE DEF q
    <3>1. \A k \in 1 .. Len(loops) : Prompt(k)' = Prompt(k)
      BY <1>7 DEF Prompt
    <3>2. fate' = fate /\ Len(loops') = Len(loops)
      BY <1>4, <1>5
    <3>3. ASSUME NEW k \in 1 .. Len(loops), Prompt(k),
                 NEW j \in 1 .. Len(loops), NEW m \in 1 .. Len(loops'[j].q)
          PROVE  loops'[j].q[m] # loops[k].cur
      BY <2>3, <2>6, <3>3
    <3> QED BY <1>7, <2>6, <3>1, <3>2, <3>3 DEF PromptOnce
  <2> QED BY <2>1, <2>5, <2>7 DEF PlacedOnce
<1> QED BY <1>6, <1>8, <1>9 DEF IInv

(* A line that has just been typed is nowhere.                             *)
LEMMA Nowhere ==
  ASSUME IInv, NEW n \in Lines, fate[n] = "none"
  PROVE  /\ n \notin sending
         /\ \A i \in 1 .. Len(loops) : Prompt(i) => loops[i].cur # n
         /\ \A i \in 1 .. Len(loops) : \A k \in 1 .. Len(loops[i].q) : loops[i].q[k] # n
         /\ \A t \in 1 .. Len(turns) : \A k \in 1 .. Len(turns[t].steers) :
              turns[t].steers[k] # n
BY DEF IInv, PlacedOnce, SendsOnce, QueuedOnce, PromptOnce, SteersOnce

(* Where the lines are that a new one leaves alone.                        *)
LEMMA OthersStay ==
  ASSUME IInv, NEW n \in Lines, fate[n] = "none", NEW what \in {"sent", "steers"},
         fate' = [fate EXCEPT ![n] = what],
         sending' = sending \/ (sending' = sending \cup {n} /\ what = "sent"),
         UNCHANGED loops
  PROVE  /\ fate' \in [Lines -> Fates]
         /\ SendsOnce' /\ QueuedOnce' /\ PromptOnce' /\ NoneTwice'
<1>1. /\ fate' \in [Lines -> Fates] /\ fate'[n] = what
      /\ \A m \in Lines : m # n => fate'[m] = fate[m]
  BY DEF IInv, Typed, Fates
<1>2. SendsOnce' /\ NoneTwice'
  BY <1>1 DEF IInv, Typed, PlacedOnce, SendsOnce, NoneTwice
<1>3. QueuedOnce'
  <2>1. ASSUME NEW j \in 1 .. Len(loops), NEW k \in 1 .. Len(loops[j].q)
        PROVE  fate'[loops[j].q[k]] = "sent" /\ loops[j].q[k] \notin sending'
    <3>1. loops[j].q[k] \in Lines /\ loops[j].q[k] # n
      BY Nowhere DEF IInv, Typed, IsLoop
    <3>2. fate[loops[j].q[k]] = "sent" /\ loops[j].q[k] \notin sending
      BY DEF IInv, PlacedOnce, QueuedOnce
    <3> QED BY <1>1, <3>1, <3>2
  <2> QED BY <2>1 DEF IInv, PlacedOnce, QueuedOnce
<1>4. PromptOnce'
  <2>1. ASSUME NEW j \in 1 .. Len(loops), Prompt(j)
        PROVE  fate'[loops[j].cur] = "sent" /\ loops[j].cur \notin sending'
    <3>1. loops[j].cur \in Lines /\ loops[j].cur # n
      BY <2>1, Nowhere DEF IInv, Typed, IsLoop, Prompt
    <3>2. fate[loops[j].cur] = "sent" /\ loops[j].cur \notin sending
      BY <2>1 DEF IInv, PlacedOnce, PromptOnce
    <3> QED BY <1>1, <3>1, <3>2
  <2> QED BY <2>1 DEF IInv, PlacedOnce, PromptOnce, Prompt
<1> QED BY <1>1, <1>2, <1>3, <1>4

LEMMA TypesKept ==
  ASSUME IInv, NEW n \in Lines, Types(n) PROVE IInv'
<1>1. /\ fate[n] = "none" /\ UNCHANGED <<mounted, wake, loops, swap>>
      /\ ui.t \in 1 .. Len(turns)
  BY DEF Types, jobVars, IInv, Typed
<1>2. CASE /\ turns[ui.t].gate
           /\ TurnBecomes(ui.t, [turns[ui.t] EXCEPT !.steers = Append(@, n)])
           /\ fate' = [fate EXCEPT ![n] = "steers"]
           /\ UNCHANGED <<ui, sending>>
  <2> DEFINE t == ui.t
             r == [turns[t] EXCEPT !.steers = Append(@, n)]
  <2>1. IsTurn(turns[t]) /\ turns[t].gate /\ turns[t].steers \in Seq(Lines)
    BY <1>1, <1>2 DEF IInv, Typed, IsTurn
  <2>2. /\ DOMAIN r = TurnFields /\ r.gate = turns[t].gate /\ r.installed = turns[t].installed
        /\ r.steers = Append(turns[t].steers, n)
    BY <2>1 DEF IsTurn, TurnFields
  <2>3. TurnBecomes(t, r)
    BY <1>2
  <2> HIDE DEF t, r
  <2>4. IsTurn(r)
    BY <2>1, <2>2 DEF IsTurn
  <2>5. /\ IsSeq(turns') /\ Len(turns') = Len(turns) /\ turns'[t] = r
        /\ \A u \in 1 .. Len(turns) : u # t => turns'[u] = turns[u]
    BY <1>1, <2>3, TurnSet DEF IInv, Typed, t
  <2>6. /\ fate' \in [Lines -> Fates]
        /\ SendsOnce' /\ QueuedOnce' /\ PromptOnce' /\ NoneTwice'
    <3>1. sending' = sending /\ loops' = loops /\ fate' = [fate EXCEPT ![n] = "steers"]
      BY <1>1, <1>2
    <3> QED BY <1>1, <3>1, OthersStay
  <2>7. Typed'
    BY <1>1, <1>2, <2>4, <2>5, <2>6 DEF IInv, Typed
  <2>8. MountsInOrder' /\ TurnsShared'
    BY <1>1, <2>2, <2>5 DEF IInv, Typed, MountsInOrder, TurnsShared, InTurn, Turn
  <2>9. SteersOnce'
    <3> DEFINE st(u) == turns[u].steers
               old(u, m) == u # t \/ m # Len(st(t)) + 1
    <3>1. t \in 1 .. Len(turns)
      BY <1>1 DEF t
    <3>2. /\ Len(r.steers) = Len(st(t)) + 1 /\ r.steers[Len(st(t)) + 1] = n
          /\ \A k \in 1 .. Len(st(t)) : r.steers[k] = st(t)[k]
      BY <2>1, <2>2
    <3>3. \A u \in 1 .. Len(turns) : \A m \in 1 .. Len(turns'[u].steers) :
            IF old(u, m) THEN m \in 1 .. Len(st(u)) /\ turns'[u].steers[m] = st(u)[m]
                         ELSE turns'[u].steers[m] = n
      BY <2>1, <2>5, <3>1, <3>2
    <3>4. \A v \in 1 .. Len(turns) : \A k \in 1 .. Len(st(v)) :
            /\ fate[st(v)[k]] = "steers" /\ st(v)[k] # n /\ st(v)[k] \in Lines
            /\ \A u \in 1 .. Len(turns) : \A m \in 1 .. Len(st(u)) :
                 st(v)[k] = st(u)[m] => v = u
      <4> SUFFICES ASSUME NEW v \in 1 .. Len(turns), NEW k \in 1 .. Len(st(v))
                   PROVE  /\ fate[st(v)[k]] = "steers" /\ st(v)[k] # n /\ st(v)[k] \in Lines
                          /\ \A u \in 1 .. Len(turns) : \A m \in 1 .. Len(st(u)) :
                               st(v)[k] = st(u)[m] => v = u
        OBVIOUS
      <4>1. st(v)[k] \in Lines
        BY DEF IInv, Typed, IsTurn
      <4> QED BY <1>1, <4>1 DEF IInv, PlacedOnce, SteersOnce
    <3>5. fate'[n] = "steers" /\ \A m \in Lines : m # n => fate'[m] = fate[m]
      BY <1>2 DEF IInv, Typed
    <3> HIDE DEF st
    <3>6. ASSUME NEW v \in 1 .. Len(turns), NEW k \in 1 .. Len(turns'[v].steers)
          PROVE  fate'[turns'[v].steers[k]] = "steers"
      BY <3>3, <3>4, <3>5
    <3>7. ASSUME NEW v \in 1 .. Len(turns), NEW k \in 1 .. Len(turns'[v].steers),
                 NEW u \in 1 .. Len(turns), NEW m \in 1 .. Len(turns'[u].steers),
                 turns'[v].steers[k] = turns'[u].steers[m]
          PROVE  v = u
      <4>1. CASE old(v, k) /\ old(u, m)
        <5>1. st(v)[k] = st(u)[m] /\ k \in 1 .. Len(st(v)) /\ m \in 1 .. Len(st(u))
          BY <3>3, <3>7, <4>1
        <5> QED BY <3>4, <5>1
      <4>2. CASE ~old(v, k) /\ ~old(u, m)
        BY <4>2
      <4>3. CASE old(v, k) /\ ~old(u, m)
        <5>1. st(v)[k] = n /\ k \in 1 .. Len(st(v))
          BY <3>3, <3>7, <4>3
        <5> QED BY <3>4, <5>1
      <4>4. CASE ~old(v, k) /\ old(u, m)
        <5>1. st(u)[m] = n /\ m \in 1 .. Len(st(u))
          BY <3>3, <3>7, <4>4
        <5> QED BY <3>4, <5>1
      <4> QED BY <4>1, <4>2, <4>3, <4>4
    <3>8. Len(turns') = Len(turns)
      BY <2>5
    <3> QED BY <3>6, <3>7, <3>8 DEF SteersOnce
  <2> QED BY <2>6, <2>7, <2>8, <2>9 DEF IInv, PlacedOnce
<1>3. CASE Submits(n) /\ fate' = [fate EXCEPT ![n] = "sent"] /\ UNCHANGED turns
  <2>1. /\ DOMAIN ui' = DOMAIN ui /\ ui'.at = ui.at /\ ui'.t = ui.t
        /\ sending' = sending \cup {n}
    BY <1>3 DEF Submits, IInv, Typed
  <2>2. /\ fate' \in [Lines -> Fates]
        /\ SendsOnce' /\ QueuedOnce' /\ PromptOnce' /\ NoneTwice'
    BY <1>1, <1>3, <2>1, OthersStay
  <2>3. Typed'
    BY <1>1, <1>3, <2>1, <2>2 DEF IInv, Typed
  <2>4. MountsInOrder' /\ TurnsShared'
    BY <1>1, <1>3 DEF IInv, MountsInOrder, TurnsShared, InTurn, Turn
  <2>5. SteersOnce'
    <3>1. ASSUME NEW v \in 1 .. Len(turns), NEW k \in 1 .. Len(turns[v].steers)
          PROVE  fate'[turns[v].steers[k]] = "steers"
      <4>1. fate[turns[v].steers[k]] = "steers" /\ turns[v].steers[k] # n
        BY <1>1 DEF IInv, PlacedOnce, SteersOnce
      <4>2. turns[v].steers[k] \in Lines
        BY DEF IInv, Typed, IsTurn
      <4> QED BY <1>3, <4>1, <4>2 DEF IInv, Typed
    <3> QED BY <1>3, <3>1 DEF IInv, PlacedOnce, SteersOnce
  <2> QED BY <2>2, <2>3, <2>4, <2>5 DEF IInv, PlacedOnce
<1> QED BY <1>2, <1>3 DEF Types, SteerFails

LEMMA CancelledIs ==
  ASSUME NEW t, IsTurn(t)
  PROVE  /\ IsTurn(Cancelled(t)) /\ Cancelled(t).steers = t.steers
         /\ Cancelled(t).gate = t.gate /\ Cancelled(t).installed = t.installed
BY DEF IsTurn, TurnFields, Cancelled

LEMMA EscKept == ASSUME IInv, Esc PROVE IInv'
<1> DEFINE t == ui.t
           r == Cancelled(turns[t])
<1>1. t \in 1 .. Len(turns) /\ IsTurn(turns[t])
  BY DEF IInv, Typed
<1>2. /\ IsTurn(r) /\ r.steers = turns[t].steers
      /\ r.installed = turns[t].installed /\ r.gate = turns[t].gate
  BY <1>1, CancelledIs
<1>3. TurnBecomes(t, r) /\ UNCHANGED <<mounted, wake, loops, ui, sending, fate, swap>>
  BY DEF Esc, Cancels, jobVars, uiVars
<1> HIDE DEF t, r
<1>4. /\ IsSeq(turns') /\ Len(turns') = Len(turns) /\ turns'[t] = r
      /\ \A u \in 1 .. Len(turns) : u # t => turns'[u] = turns[u]
  BY <1>1, <1>3, TurnSet DEF IInv, Typed
<1>5. Typed'
  BY <1>2, <1>3, <1>4 DEF IInv, Typed
<1>6. MountsInOrder' /\ TurnsShared'
  BY <1>2, <1>3, <1>4 DEF IInv, Typed, MountsInOrder, TurnsShared, InTurn, Turn
<1>7. PlacedOnce'
  BY <1>1, <1>2, <1>3, PlacesKept DEF Prompt
<1> QED BY <1>5, <1>6, <1>7 DEF IInv

LEMMA SeesDoneKept == ASSUME IInv, SeesDone PROVE IInv'
BY StillKept DEF IInv, Typed, SeesDone, jobVars, loopVars

----------------------------------------------------------------------------
(* The Reconcile and the end of the process.                               *)

(* A loop that does not move: its flags change.                            *)
LEMMA FlagsKept ==
  ASSUME IInv, NEW i \in 1 .. Len(loops), NEW l, Becomes(i, l), IsLoop(l),
         l.pc = loops[i].pc, l.t = loops[i].t, l.q = loops[i].q, l.cur = loops[i].cur,
         UNCHANGED <<mounted, wake, turns, sending, fate>>,
         DOMAIN ui' = DOMAIN ui, ui'.at \in 0 .. Len(loops), ui'.t \in 1 .. Len(turns),
         DOMAIN swap' = DOMAIN swap, swap'.to \in Owners
  PROVE  IInv'
<1>1. /\ IsSeq(loops') /\ Len(loops') = Len(loops) /\ loops'[i] = l
      /\ \A k \in 1 .. Len(loops) : k # i => loops'[k] = loops[k]
  BY LoopSet DEF IInv, Typed
<1>2. Typed'
  BY <1>1 DEF IInv, Typed
<1>3. \A k \in 1 .. Len(loops) :
        /\ loops'[k].pc = loops[k].pc /\ loops'[k].t = loops[k].t
        /\ loops'[k].cur = loops[k].cur /\ loops'[k].q = loops[k].q
  BY <1>1
<1>4. MountsInOrder' /\ TurnsShared'
  BY <1>1, <1>3 DEF IInv, MountsInOrder, TurnsShared, InTurn, Turn, Closed
<1>5. SendsOnce' /\ SteersOnce' /\ NoneTwice'
  BY DEF IInv, PlacedOnce, SendsOnce, SteersOnce, NoneTwice
<1>6. QueuedOnce'
  BY <1>1, <1>3, QueuesKept DEF IInv, PlacedOnce
<1>7. PromptOnce'
  <2>1. \A k \in 1 .. Len(loops) : Prompt(k)' = Prompt(k)
    BY <1>3 DEF Prompt
  <2> QED BY <1>1, <1>3, <2>1 DEF IInv, PlacedOnce, PromptOnce
<1> QED BY <1>2, <1>4, <1>5, <1>6, <1>7 DEF IInv, PlacedOnce

LEMMA SwapStartsKept == ASSUME IInv, SwapStarts PROVE IInv'
BY StillKept DEF IInv, Typed, SwapStarts, jobVars, loopVars, Owners

LEMMA SwapClosesKept == ASSUME IInv, SwapCloses PROVE IInv'
<1> DEFINE l == [loops[Latest] EXCEPT !.open = FALSE]
<1>1. Latest \in 1 .. Len(loops) /\ IsLoop(loops[Latest])
  BY DEF IInv, Typed, IsSeq, Latest
<1>2. /\ IsLoop(l) /\ l.pc = loops[Latest].pc /\ l.t = loops[Latest].t
      /\ l.q = loops[Latest].q /\ l.cur = loops[Latest].cur
  BY <1>1 DEF IsLoop, LoopFields
<1> QED BY <1>1, <1>2, FlagsKept DEF SwapCloses, jobVars, uiVars, IInv, Typed

LEMMA QuitsKept == ASSUME IInv, Quits PROVE IInv'
<1> DEFINE l == [loops[Latest] EXCEPT !.open = FALSE, !.gone = TRUE]
<1>1. Latest \in 1 .. Len(loops) /\ IsLoop(loops[Latest])
  BY DEF IInv, Typed, IsSeq, Latest
<1>2. /\ IsLoop(l) /\ l.pc = loops[Latest].pc /\ l.t = loops[Latest].t
      /\ l.q = loops[Latest].q /\ l.cur = loops[Latest].cur
  BY <1>1 DEF IsLoop, LoopFields
<1>3. /\ Becomes(Latest, l) /\ UNCHANGED <<mounted, wake, turns, sending, fate>>
      /\ ui' = [ui EXCEPT !.at = 0] /\ swap' = [swap EXCEPT !.pc = "wait"]
  BY DEF Quits, jobVars
<1> HIDE DEF l
<1>4. /\ DOMAIN ui' = DOMAIN ui /\ ui'.at \in 0 .. Len(loops) /\ ui'.t \in 1 .. Len(turns)
      /\ DOMAIN swap' = DOMAIN swap /\ swap'.to \in Owners
  BY <1>3 DEF IInv, Typed, IsSeq
<1> QED BY <1>1, <1>2, <1>3, <1>4, FlagsKept

LEMMA HistoryKept == ASSUME IInv, HistoryDown \/ HistoryUp PROVE IInv'
BY StillKept DEF IInv, Typed, HistoryDown, HistoryUp, loopVars, uiVars, Owners

LEMMA QuitEndsKept == ASSUME IInv, QuitStops \/ QuitRecords PROVE IInv'
BY StillKept DEF IInv, Typed, QuitStops, QuitRecords, loopVars, uiVars, Owners

LEMMA SwapAttachesKept == ASSUME IInv, SwapAttaches PROVE IInv'
<1>1. Latest \in 0 .. Len(loops) /\ loops[Latest].t \in 1 .. Len(turns)
  BY DEF IInv, Typed, IsSeq, Latest
<1> QED BY <1>1, StillKept DEF IInv, Typed, SwapAttaches, jobVars, loopVars, Owners

LEMMA SeqSet ==
  ASSUME NEW s, IsSeq(s), NEW n \in 1 .. Len(s), NEW x
  PROVE  /\ IsSeq([s EXCEPT ![n] = x]) /\ Len([s EXCEPT ![n] = x]) = Len(s)
         /\ [s EXCEPT ![n] = x][n] = x
         /\ \A k \in 1 .. Len(s) : k # n => [s EXCEPT ![n] = x][k] = s[k]
BY DEF IsSeq

LEMMA SeqAppend ==
  ASSUME NEW s, IsSeq(s), NEW x
  PROVE  /\ IsSeq(Append(s, x)) /\ Len(Append(s, x)) = Len(s) + 1
         /\ Append(s, x)[Len(s) + 1] = x
         /\ \A k \in 1 .. Len(s) : Append(s, x)[k] = s[k]
BY DEF IsSeq

(* The new mount has nothing yet, and nothing of the old ones moves.       *)
LEMMA SwapAppliesKept == ASSUME IInv, SwapApplies PROVE IInv'
<1> DEFINE old == loops[Latest]
           n == Len(loops)
<1>1. Latest = n /\ n \in 1 .. Len(loops) /\ IsLoop(old) /\ old.t \in 1 .. Len(turns)
  BY DEF IInv, Typed, IsSeq, Latest
<1>2. UNCHANGED <<mounted, wake, ui, sending, fate>> /\ swap' = [swap EXCEPT !.pc = "attach"]
  BY DEF SwapApplies, jobVars, uiVars
<1>3. ASSUME NEW t \in Nat
      PROVE  /\ IsLoop(NewLoop(mounted, t)) /\ NewLoop(mounted, t).pc = "mount"
             /\ NewLoop(mounted, t).q = <<>> /\ NewLoop(mounted, t).t = t
  BY SomeSteps DEF NewLoop, IsLoop, LoopFields, Pcs, Working, Wakes
<1>4. \E t \in 1 .. Len(turns') :
        /\ IsSeq(loops') /\ Len(loops') = n + 1 /\ loops'[n + 1] = NewLoop(mounted, t)
        /\ \A k \in 1 .. n : \/ loops'[k] = loops[k]
                             \/ loops'[k] = [loops[k] EXCEPT !.muted = TRUE]
        /\ IsSeq(turns') /\ Len(turns') >= Len(turns)
        /\ \A u \in 1 .. Len(turns) :
             /\ IsTurn(turns'[u]) /\ turns'[u].steers = turns[u].steers
             /\ turns'[u].gate = turns[u].gate
             /\ turns'[u].installed = turns[u].installed
        /\ \A u \in Len(turns) + 1 .. Len(turns') : turns'[u] = NoTurns
  <2>1. CASE loops' = Append(loops, NewLoop(mounted, old.t)) /\ turns' = turns
    <3>1. /\ IsSeq(loops') /\ Len(loops') = n + 1 /\ loops'[n + 1] = NewLoop(mounted, old.t)
          /\ \A k \in 1 .. n : loops'[k] = loops[k]
      BY <2>1 DEF IInv, Typed, IsSeq
    <3>2. /\ IsSeq(turns') /\ Len(turns') = Len(turns)
          /\ \A u \in 1 .. Len(turns) : IsTurn(turns'[u]) /\ turns'[u] = turns[u]
      BY <2>1 DEF IInv, Typed
    <3>3. Len(turns) + 1 .. Len(turns') = {}
      BY <3>2 DEF IInv, Typed, IsSeq
    <3> QED BY <1>1, <3>1, <3>2, <3>3 DEF IInv, Typed, IsSeq
  <2>2. CASE /\ loops' = Append([loops EXCEPT ![Latest] = [@ EXCEPT !.muted = TRUE]],
                                NewLoop(mounted, Len(turns) + 1))
             /\ turns' = Append([turns EXCEPT ![old.t] = Cancelled(@)], NoTurns)
    <3>1. /\ IsSeq(loops') /\ Len(loops') = n + 1
          /\ loops'[n + 1] = NewLoop(mounted, Len(turns) + 1)
          /\ \A k \in 1 .. n : \/ loops'[k] = loops[k]
                               \/ loops'[k] = [loops[k] EXCEPT !.muted = TRUE]
      <4> DEFINE l == [old EXCEPT !.muted = TRUE]
                 muted == [loops EXCEPT ![n] = l]
                 new == NewLoop(mounted, Len(turns) + 1)
      <4>1. loops' = Append(muted, new) /\ l = [loops[n] EXCEPT !.muted = TRUE]
        BY <1>1, <2>2
      <4> HIDE DEF l, new
      <4>2. /\ IsSeq(muted) /\ Len(muted) = n /\ muted[n] = l
            /\ \A k \in 1 .. n : k # n => muted[k] = loops[k]
        <5>1. IsSeq(loops) /\ n \in 1 .. Len(loops)
          BY <1>1 DEF IInv, Typed
        <5> QED BY <5>1, SeqSet
      <4> HIDE DEF muted
      <4>3. /\ IsSeq(loops') /\ Len(loops') = n + 1 /\ loops'[n + 1] = new
            /\ \A k \in 1 .. n : loops'[k] = muted[k]
        BY <4>1, <4>2, SeqAppend
      <4> QED BY <4>1, <4>2, <4>3 DEF new
    <3>2. /\ IsSeq(turns') /\ Len(turns') = Len(turns) + 1 /\ turns'[Len(turns) + 1] = NoTurns
          /\ \A u \in 1 .. Len(turns) :
               turns'[u] = turns[u] \/ turns'[u] = Cancelled(turns[u])
      BY <1>1, <2>2 DEF IInv, Typed, IsSeq
    <3>3. \A u \in 1 .. Len(turns) :
            /\ IsTurn(turns'[u]) /\ turns'[u].steers = turns[u].steers
            /\ turns'[u].gate = turns[u].gate
            /\ turns'[u].installed = turns[u].installed
      BY <3>2, CancelledIs DEF IInv, Typed
    <3>4. Len(turns) + 1 \in 1 .. Len(turns') /\ Len(turns') >= Len(turns)
      BY <3>2 DEF IInv, Typed, IsSeq
    <3>5. \A u \in Len(turns) + 1 .. Len(turns') : turns'[u] = NoTurns
      BY <3>2 DEF IInv, Typed, IsSeq
    <3> QED BY <3>1, <3>2, <3>3, <3>4, <3>5
  <2> QED BY <2>1, <2>2 DEF SwapApplies
<1>5. PICK t \in 1 .. Len(turns') :
        /\ IsSeq(loops') /\ Len(loops') = n + 1 /\ loops'[n + 1] = NewLoop(mounted, t)
        /\ \A k \in 1 .. n : \/ loops'[k] = loops[k]
                             \/ loops'[k] = [loops[k] EXCEPT !.muted = TRUE]
        /\ IsSeq(turns') /\ Len(turns') >= Len(turns)
        /\ \A u \in 1 .. Len(turns) :
             /\ IsTurn(turns'[u]) /\ turns'[u].steers = turns[u].steers
             /\ turns'[u].gate = turns[u].gate
             /\ turns'[u].installed = turns[u].installed
        /\ \A u \in Len(turns) + 1 .. Len(turns') : turns'[u] = NoTurns
  BY <1>4
<1>6. /\ loops'[n + 1].pc = "mount" /\ loops'[n + 1].q = <<>> /\ loops'[n + 1].t = t
      /\ IsLoop(loops'[n + 1])
  BY <1>3, <1>5 DEF IInv, Typed, IsSeq
<1>7. \A k \in 1 .. n : /\ IsLoop(loops'[k])
                        /\ loops'[k].pc = loops[k].pc /\ loops'[k].q = loops[k].q
                        /\ loops'[k].t = loops[k].t /\ loops'[k].cur = loops[k].cur
  <2> SUFFICES ASSUME NEW k \in 1 .. n, loops'[k] = [loops[k] EXCEPT !.muted = TRUE]
               PROVE  /\ IsLoop(loops'[k])
                      /\ loops'[k].pc = loops[k].pc /\ loops'[k].q = loops[k].q
                      /\ loops'[k].t = loops[k].t /\ loops'[k].cur = loops[k].cur
    BY <1>5 DEF IInv, Typed
  <2>1. IsLoop(loops[k])
    BY DEF IInv, Typed
  <2> QED BY <2>1 DEF IsLoop, LoopFields
<1>8. IsTurn(NoTurns) /\ NoTurns.steers = <<>> /\ ~NoTurns.gate
  BY DEF IsTurn, TurnFields, NoTurns
<1>9. \A k \in 1 .. n + 1 : k # n + 1 => k \in 1 .. n
  BY <1>1
<1>10. Typed'
  <2>1. \A k \in 1 .. n + 1 : IsLoop(loops'[k]) /\ loops'[k].t \in 1 .. Len(turns')
    BY <1>5, <1>6, <1>7, <1>9 DEF IInv, Typed, IsSeq
  <2>2. \A u \in 1 .. Len(turns') : IsTurn(turns'[u])
    BY <1>5, <1>8 DEF IInv, Typed, IsSeq
  <2>3. ui'.at \in 0 .. Len(loops') /\ ui'.t \in 1 .. Len(turns') /\ Len(loops') >= 1
    BY <1>1, <1>2, <1>5 DEF IInv, Typed, IsSeq
  <2>4. DOMAIN swap' = DOMAIN swap /\ swap'.to = swap.to
    BY <1>2 DEF IInv, Typed
  <2> QED BY <1>2, <1>5, <2>1, <2>2, <2>3, <2>4 DEF IInv, Typed
<1>11. MountsInOrder'
  BY <1>1, <1>5, <1>6, <1>7, <1>9 DEF IInv, MountsInOrder
<1>12. TurnsShared'
  <2>1. \A k \in 1 .. n : loops[k].t \in 1 .. Len(turns)
    BY DEF IInv, Typed
  <2>2. \A k \in 1 .. n : /\ Turn(k)'.installed = Turn(k).installed
                          /\ Turn(k)'.gate = Turn(k).gate
    BY <1>5, <1>7, <2>1 DEF Turn
  <2> QED BY <1>5, <1>6, <1>7, <1>9, <2>2 DEF IInv, TurnsShared, InTurn, Closed
<1>13. PlacedOnce'
  <2>1. SendsOnce' /\ NoneTwice'
    BY <1>2 DEF IInv, PlacedOnce, SendsOnce, NoneTwice
  <2>2. \A u \in 1 .. Len(turns') : \A k \in 1 .. Len(turns'[u].steers) :
          /\ u \in 1 .. Len(turns) /\ k \in 1 .. Len(turns[u].steers)
          /\ turns'[u].steers[k] = turns[u].steers[k]
    <3> SUFFICES ASSUME NEW u \in 1 .. Len(turns'), NEW k \in 1 .. Len(turns'[u].steers)
                 PROVE  u \in 1 .. Len(turns)
      BY <1>5
    <3>1. Len(turns'[u].steers) # 0
      OBVIOUS
    <3>2. turns'[u] # NoTurns
      BY <1>8, <3>1
    <3> QED BY <1>5, <3>2 DEF IInv, Typed, IsSeq
  <2>3. SteersOnce'
    BY <1>2, <2>2 DEF IInv, PlacedOnce, SteersOnce
  <2>4. \A j \in 1 .. n + 1 : \A k \in 1 .. Len(loops'[j].q) :
          /\ j \in 1 .. n /\ k \in 1 .. Len(loops[j].q)
          /\ loops'[j].q[k] = loops[j].q[k]
    BY <1>6, <1>7, <1>9
  <2>5. QueuedOnce'
    <3>1. Len(loops') = n + 1 /\ fate' = fate /\ sending' = sending
      BY <1>2, <1>5
    <3>2. ASSUME NEW j \in 1 .. n + 1, NEW k \in 1 .. Len(loops'[j].q)
          PROVE  fate[loops'[j].q[k]] = "sent" /\ loops'[j].q[k] \notin sending
      BY <2>4 DEF IInv, PlacedOnce, QueuedOnce
    <3>3. ASSUME NEW j \in 1 .. n + 1, NEW k \in 1 .. Len(loops'[j].q),
                 NEW m \in 1 .. n + 1, NEW p \in 1 .. Len(loops'[m].q),
                 loops'[j].q[k] = loops'[m].q[p]
          PROVE  j = m /\ k = p
      <4>1. /\ j \in 1 .. n /\ k \in 1 .. Len(loops[j].q)
            /\ m \in 1 .. n /\ p \in 1 .. Len(loops[m].q)
            /\ loops[j].q[k] = loops[m].q[p]
        BY <2>4, <3>3
      <4> QED BY <4>1 DEF IInv, PlacedOnce, QueuedOnce
    <3> QED BY <3>1, <3>2, <3>3 DEF QueuedOnce
  <2>6. \A k \in 1 .. n + 1 : Prompt(k)' =>
          k \in 1 .. n /\ Prompt(k) /\ loops'[k].cur = loops[k].cur
    BY <1>6, <1>7, <1>9 DEF Prompt
  <2>7. PromptOnce'
    BY <1>2, <1>5, <2>4, <2>6 DEF IInv, PlacedOnce, PromptOnce
  <2> QED BY <2>1, <2>3, <2>5, <2>7 DEF PlacedOnce
<1> QED BY <1>10, <1>11, <1>12, <1>13 DEF IInv

LEMMA JobStepsKept == ASSUME IInv, NEW j \in JobIds, JobSteps(j) PROVE IInv'
<1>1. mounted' = mounted /\ wake' \in BOOLEAN
  BY DEF JobSteps, JobStep, Matches, Exits, Publish, Record, NotifyAppends,
         NotifyWakes, IInv, Typed
<1> QED BY <1>1, StillKept DEF JobSteps, loopVars, uiVars, IInv, Typed

----------------------------------------------------------------------------
LEMMA StepKeeps == IInv /\ [Next]_vars => IInv'
<1> SUFFICES ASSUME IInv, [Next]_vars PROVE IInv'
  OBVIOUS
<1>1. ASSUME NEW i \in DOMAIN loops, LoopStep(i) PROVE IInv'
  <2>1. i \in 1 .. Len(loops)
    BY DEF IInv, Typed, IsSeq
  <2> QED BY <1>1, <2>1, LoopStepKept
<1>2. ASSUME SwapStep PROVE IInv'
  BY <1>2, SwapClosesKept, HistoryKept, SwapAppliesKept, SwapAttachesKept, QuitEndsKept
     DEF SwapStep
<1>3. CASE UNCHANGED vars
  BY <1>3, StillKept DEF vars, jobVars, loopVars, uiVars, IInv, Typed
<1> QED BY <1>1, <1>2, <1>3, JobStepsKept, SendsKept, SeesDoneKept, TypesKept, EscKept,
           SwapStartsKept, QuitsKept DEF Next, Runs

LEMMA InitHolds == Init => IInv
<1> SUFFICES ASSUME Init PROVE IInv
  OBVIOUS
<1> DEFINE l == [NewLoop(mounted, 1) EXCEPT !.pc = "idle"]
<1>1. mounted \in Sessions
  BY SomeSession DEF Init, JobsInit
<1>2. IsLoop(l) /\ l.pc = "idle" /\ l.t = 1 /\ l.q = <<>>
  BY SomeSteps DEF NewLoop, IsLoop, LoopFields, Pcs, Working, Wakes
<1>3. loops = <<l>> /\ turns = <<NoTurns>>
  BY DEF Init
<1>4. IsTurn(NoTurns) /\ NoTurns.steers = <<>>
  BY DEF IsTurn, TurnFields, NoTurns
<1> HIDE DEF l
<1>5. /\ IsSeq(loops) /\ Len(loops) = 1 /\ loops[1] = l
      /\ IsSeq(turns) /\ Len(turns) = 1 /\ turns[1] = NoTurns
  BY <1>3 DEF IsSeq
<1>6. Typed
  <2>1. /\ DOMAIN ui = {"at", "t", "sess", "running", "queued"} /\ ui.at = 1 /\ ui.t = 1
        /\ DOMAIN swap = {"pc", "to"} /\ swap.to = NoSession
    BY DEF Init
  <2>2. fate \in [Lines -> Fates] /\ sending = {} /\ wake \in BOOLEAN
    BY DEF Init, JobsInit, Fates
  <2>3. \A i \in 1 .. Len(loops) : IsLoop(loops[i]) /\ loops[i].t \in 1 .. Len(turns)
    BY <1>2, <1>5
  <2>4. \A t \in 1 .. Len(turns) : IsTurn(turns[t])
    BY <1>4, <1>5
  <2> QED BY <1>1, <1>5, <2>1, <2>2, <2>3, <2>4 DEF Typed, Owners
<1>7. MountsInOrder /\ TurnsShared
  BY <1>2, <1>5 DEF MountsInOrder, TurnsShared, InTurn, Closed
<1>8. PlacedOnce
  BY <1>2, <1>4, <1>5 DEF Init, PlacedOnce, SendsOnce, QueuedOnce, PromptOnce,
                          SteersOnce, NoneTwice, Prompt
<1> QED BY <1>6, <1>7, <1>8 DEF IInv

THEOREM Invariant == Spec => []IInv
BY InitHolds, StepKeeps, PTL DEF Spec

(* In every state of every behaviour the variables have their types, a     *)
(* goroutine waits on a claim exactly while it says so, no turn exceeds    *)
(* its budget of steps or of push-backs, and a turn past its first step    *)
(* has its cancel installed: run's deferred uninstall is the only one      *)
(* (loop.go), and the next mount, which shares the turns value, waits.     *)
THEOREM TypeCorrect == Spec => []TypeOK
<1>1. IInv => TypeOK
  <2> SUFFICES ASSUME IInv PROVE TypeOK
    OBVIOUS
  <2>1. DOMAIN loops = 1 .. Len(loops) /\ DOMAIN turns = 1 .. Len(turns) /\ Latest = Len(loops)
    BY DEF IInv, Typed, IsSeq, Latest
  <2>2. ASSUME NEW i \in 1 .. Len(loops)
        PROVE  /\ loops[i].pc \in Pcs /\ loops[i].t \in 1 .. Len(turns)
               /\ (loops[i].pc = "claim") = (loops[i].claim # 0)
               /\ loops[i].steps <= MaxSteps /\ loops[i].nudges <= StopRetries
               /\ InTurn(i) /\ loops[i].pc # "begin" => Turn(i).installed
    BY SomeSteps DEF IInv, Typed, IsLoop, TurnsShared
  <2> QED BY <2>1, <2>2 DEF IInv, Typed, IsTurn, TypeOK, Owners, Fates
<1> QED BY <1>1, Invariant, PTL

(* Of all the mounts of the loop row at most one is in a turn: a mount     *)
(* that follows another waits for its goroutine before it takes anything,  *)
(* however many remounts and switches there are (loop.go:2344-2351).       *)
THEOREM OneTurnAtATime == Spec => []OneTurn
<1>1. IInv => OneTurn
  <2> SUFFICES ASSUME IInv, NEW i \in 1 .. Len(loops), NEW k \in 1 .. Len(loops),
                      InTurn(i), InTurn(k)
               PROVE  i = k
    BY DEF OneTurn, IInv, Typed, IsSeq
  <2> QED BY Alone DEF IInv, InTurn
<1> QED BY <1>1, Invariant, PTL

(* What is typed in a turn is never stranded behind its last boundary and  *)
(* never recorded twice, whatever steers, is refused, is sent, is cut or   *)
(* is handed to the next mount (cancel.go:14-19).                          *)
THEOREM TypedLines == Spec => []TypedLands
<1>1. IInv => TypedLands
  BY DEF IInv, Typed, IsSeq, IsTurn, PlacedOnce, NoneTwice, TypedLands, NoSteerStranded,
         RecordedOnce
<1> QED BY <1>1, Invariant, PTL

(***************************************************************************)
(* The notices of the jobs: where each one is, and what its job, the       *)
(* claim of a code block and the end of the process know of it.            *)
(***************************************************************************)
JobFields == {"st", "owner", "until", "claimed", "match", "waiter", "tell",
              "answered", "late", "recorded"}

IsJob(b) ==
  /\ DOMAIN b = JobFields /\ b.owner \in Owners
  /\ b.st \in {"none", "up", "out", "done"}
  /\ b.match \in {"no", "append", "wake", "over"}
  /\ b.waiter \in {"none", "wait", "record", "append", "wake", "over"}
  /\ b.claimed \in BOOLEAN /\ b.tell \in BOOLEAN
  /\ b.st = "none" => b.waiter = "none" /\ b.match = "no" /\ ~b.claimed
  /\ b.st \in {"up", "out"} => b.waiter = "wait"
  /\ b.st = "done" => /\ b.waiter \in {"record", "append", "wake", "over"}
                      /\ b.match \in {"no", "over"}
  /\ b.waiter \in {"append", "wake"} => b.tell
  /\ b.answered => b.st = "done" /\ ~b.tell

Filing == [notice : Notices, sess : Owners]

NewsTyped ==
  /\ DOMAIN job = JobIds /\ \A j \in JobIds : IsJob(job[j])
  /\ pending \in [Owners -> Seq(Notices)]
  /\ told \in Seq(Filing)
  /\ \A i \in 1 .. Len(loops) :
       /\ loops[i].news \in Seq(Notices) /\ loops[i].sess \in Owners
       /\ loops[i].claim \in JobIds \cup {0}
  /\ DOMAIN past = {"dropped", "aim", "misfired", "late"}

\* Only a turn that is about to be admitted has the notices it opened with.
HandsOpen ==
  \A i \in 1 .. Len(loops) : loops[i].news # <<>> => loops[i].pc \in {"begin", "admit"}

\* A notice is in one place, once.
Lies(s, n) == \E k \in 1 .. Len(s) : s[k] = n
Queues(n) == \E s \in Owners : Lies(pending[s], n)
Hands(n) == \E i \in 1 .. Len(loops) : Lies(loops[i].news, n)
Filed(n) == \E k \in 1 .. Len(told) : told[k].notice = n
Known(n) == Queues(n) \/ Hands(n) \/ Filed(n) \/ n \in past.dropped

NoRepeats(s) == \A k, m \in 1 .. Len(s) : s[k] = s[m] => k = m
OnePlace ==
  /\ \A s \in Owners : NoRepeats(pending[s])
  /\ \A s, r \in Owners : \A n \in Notices : Lies(pending[s], n) /\ Lies(pending[r], n) => s = r
  /\ \A i \in 1 .. Len(loops) : NoRepeats(loops[i].news)
  /\ \A k, m \in 1 .. Len(told) : told[k].notice = told[m].notice => k = m
  /\ \A n \in Notices : ~(Queues(n) /\ Hands(n)) /\ ~(Queues(n) /\ Filed(n)) /\ ~(Hands(n) /\ Filed(n))

\* What a job has told, and who answers for what it has not.
Holds(j) == \E i \in 1 .. Len(loops) : loops[i].claim = j
JobSays(j) ==
  /\ Known(Notice(j, "match")) <=> job[j].match \in {"wake", "over"}
  /\ Known(Notice(j, "finish")) <=> job[j].tell /\ job[j].waiter \in {"wake", "over"}
  /\ job[j].claimed => Holds(j) \/ job[j].late \/ job[j].answered
  /\ Holds(j) => /\ job[j].claimed /\ job[j].st # "none"
                 /\ job[j].st = "done" => ~job[j].tell
  /\ job[j].st = "done" /\ ~job[j].tell => job[j].late \/ job[j].answered \/ Holds(j)

\* Once the process ends, in time, nothing starts a job any more.
InTimeEnd ==
  ~past.late =>
    /\ swap.pc \in {"drain", "over"} => \A i \in 1 .. Len(loops) : loops[i].pc = "stopped"
    /\ swap.pc = "over" => JobsReported /\ pending[mounted] = <<>>

NInv == NewsTyped /\ HandsOpen /\ OnePlace /\ (\A j \in JobIds : JobSays(j)) /\ InTimeEnd

----------------------------------------------------------------------------
(* What a sequence of notices says, and what it says when it grows.        *)

LEMMA LiesAppend ==
  ASSUME NEW s \in Seq(Notices), NEW x \in Notices, NoRepeats(s), ~Lies(s, x)
  PROVE  /\ Append(s, x) \in Seq(Notices) /\ NoRepeats(Append(s, x))
         /\ \A n : Lies(Append(s, x), n) <=> Lies(s, n) \/ n = x
<1> DEFINE a == Append(s, x)
<1>1. /\ a \in Seq(Notices) /\ Len(a) = Len(s) + 1 /\ Len(s) \in Nat
      /\ a[Len(s) + 1] = x /\ \A k \in 1 .. Len(s) : a[k] = s[k]
  OBVIOUS
<1> HIDE DEF a
<1>2. \A k \in 1 .. Len(a) : k \in 1 .. Len(s) \/ k = Len(s) + 1
  BY <1>1
<1>3. \A k \in 1 .. Len(s) : s[k] # x
  BY DEF Lies
<1>4. NoRepeats(a)
  BY <1>1, <1>2, <1>3 DEF NoRepeats
<1>5. \A n : Lies(a, n) <=> Lies(s, n) \/ n = x
  BY <1>1, <1>2 DEF Lies
<1> QED BY <1>1, <1>4, <1>5 DEF a

LEMMA Nothing == NoRepeats(<<>>) /\ \A n : ~Lies(<<>>, n)
BY DEF NoRepeats, Lies

(* What a turn, or the end of the process, records.                        *)
LEMMA Files ==
  ASSUME NEW ns \in Seq(Notices), NEW o \in Owners, told \in Seq(Filing),
         told' = told \o [k \in DOMAIN ns |-> [notice |-> ns[k], sess |-> o]]
  PROVE  /\ told' \in Seq(Filing)
         /\ \A n : Filed(n)' <=> Filed(n) \/ Lies(ns, n)
         /\ /\ NoRepeats(ns) /\ \A n \in Notices : ~(Lies(ns, n) /\ Filed(n))
            /\ \A k, m \in 1 .. Len(told) : told[k].notice = told[m].notice => k = m
            => \A k, m \in 1 .. Len(told') : told'[k].notice = told'[m].notice => k = m
<1> DEFINE fs == [k \in DOMAIN ns |-> [notice |-> ns[k], sess |-> o]]
<1>1. /\ DOMAIN ns = 1 .. Len(ns) /\ Len(ns) \in Nat
      /\ \A k \in 1 .. Len(ns) : ns[k] \in Notices
  OBVIOUS
<1>2. fs \in Seq(Filing) /\ Len(fs) = Len(ns) /\ \A k \in 1 .. Len(ns) : fs[k].notice = ns[k]
  BY <1>1 DEF Filing
<1> HIDE DEF fs
<1>3. told' = told \o fs
  BY DEF fs
<1>4. /\ told' \in Seq(Filing) /\ Len(told') = Len(told) + Len(ns) /\ Len(told) \in Nat
      /\ \A k \in 1 .. Len(told) : told'[k] = told[k]
      /\ \A k \in 1 .. Len(ns) : told'[Len(told) + k] = fs[k]
  BY <1>1, <1>2, <1>3
<1>5. \A k \in 1 .. Len(told') :
        \/ k \in 1 .. Len(told)
        \/ k - Len(told) \in 1 .. Len(ns) /\ k = Len(told) + (k - Len(told))
  BY <1>1, <1>4
<1>6. \A k \in 1 .. Len(told') : k \notin 1 .. Len(told) =>
        /\ k - Len(told) \in 1 .. Len(ns)
        /\ told'[k].notice = ns[k - Len(told)]
  BY <1>2, <1>4, <1>5
<1>7. \A n : Filed(n)' <=> Filed(n) \/ Lies(ns, n)
  <2>1. ASSUME NEW n, Filed(n)' PROVE Filed(n) \/ Lies(ns, n)
    BY <1>4, <1>6, <2>1 DEF Filed, Lies
  <2>2. ASSUME NEW n, Filed(n) PROVE Filed(n)'
    BY <1>1, <1>4, <2>2 DEF Filed
  <2>3. ASSUME NEW n, Lies(ns, n) PROVE Filed(n)'
    <3>1. PICK k \in 1 .. Len(ns) : ns[k] = n
      BY <2>3 DEF Lies
    <3>2. Len(told) + k \in 1 .. Len(told') /\ told'[Len(told) + k].notice = n
      BY <1>1, <1>2, <1>4, <3>1
    <3> QED BY <3>2 DEF Filed
  <2> QED BY <2>1, <2>2, <2>3
<1>8. ASSUME NoRepeats(ns), \A n \in Notices : ~(Lies(ns, n) /\ Filed(n)),
             \A k, m \in 1 .. Len(told) : told[k].notice = told[m].notice => k = m,
             NEW k \in 1 .. Len(told'), NEW m \in 1 .. Len(told'),
             told'[k].notice = told'[m].notice
      PROVE  k = m
  <2>1. CASE k \in 1 .. Len(told) /\ m \in 1 .. Len(told)
    BY <1>4, <1>8, <2>1
  <2>2. CASE k \notin 1 .. Len(told) /\ m \notin 1 .. Len(told)
    <3>1. k - Len(told) = m - Len(told)
      BY <1>6, <1>8, <2>2 DEF NoRepeats
    <3> QED BY <1>4, <3>1
  <2>3. ASSUME NEW u \in 1 .. Len(told'), NEW v \in 1 .. Len(told'),
               told'[u].notice = told'[v].notice,
               u \in 1 .. Len(told), v \notin 1 .. Len(told)
        PROVE  FALSE
    <3>1. Filed(told'[u].notice)
      BY <1>4, <2>3 DEF Filed
    <3>2. Lies(ns, told'[v].notice) /\ told'[v].notice \in Notices
      BY <1>1, <1>6, <2>3 DEF Lies
    <3> QED BY <1>8, <2>3, <3>1, <3>2
  <2> QED BY <1>8, <2>1, <2>2, <2>3
<1> QED BY <1>4, <1>7, <1>8

----------------------------------------------------------------------------
(* How a step moves the notices.  First: not at all.                       *)

LEMMA NewsStay ==
  ASSUME IsSeq(loops), IsSeq(loops'), Len(loops') >= Len(loops), OnePlace,
         \A k \in 1 .. Len(loops) : loops'[k].news = loops[k].news,
         \A k \in 1 .. Len(loops') : k \notin 1 .. Len(loops) => loops'[k].news = <<>>,
         UNCHANGED <<pending, told>>, past'.dropped = past.dropped
  PROVE  OnePlace' /\ \A n : Known(n)' <=> Known(n)
<1>1. \A n : Queues(n)' <=> Queues(n)
  BY DEF Queues, Lies
<1>2. \A n : Filed(n)' <=> Filed(n)
  BY DEF Filed
<1>3. \A n : Hands(n)' <=> Hands(n)
  <2>1. ASSUME NEW n, Hands(n) PROVE Hands(n)'
    BY <2>1 DEF Hands, Lies, IsSeq
  <2>2. ASSUME NEW n, Hands(n)' PROVE Hands(n)
    <3>1. PICK k \in 1 .. Len(loops') : Lies(loops'[k].news, n)
      BY <2>2 DEF Hands, Lies
    <3>2. k \in 1 .. Len(loops)
      BY <3>1, Nothing
    <3> QED BY <3>1, <3>2 DEF Hands, Lies
  <2> QED BY <2>1, <2>2
<1>4. OnePlace'
  <2>1. \A k \in 1 .. Len(loops') : NoRepeats(loops'[k].news)
    BY Nothing DEF OnePlace
  <2> QED BY <1>1, <1>2, <1>3, <2>1 DEF OnePlace, NoRepeats, Lies
<1> QED BY <1>1, <1>2, <1>3, <1>4 DEF Known

(* A job queues one that is new.                                           *)
LEMMA NewsQueued ==
  ASSUME OnePlace, pending \in [Owners -> Seq(Notices)],
         NEW o \in Owners, NEW x \in Notices, ~Known(x),
         pending' = [pending EXCEPT ![o] = Append(@, x)],
         UNCHANGED <<loops, told, past>>
  PROVE  /\ pending' \in [Owners -> Seq(Notices)] /\ OnePlace'
         /\ \A n : Known(n)' <=> Known(n) \/ n = x
<1>1. pending[o] \in Seq(Notices) /\ NoRepeats(pending[o]) /\ ~Lies(pending[o], x)
  BY DEF OnePlace, Known, Queues
<1>2. /\ pending' \in [Owners -> Seq(Notices)] /\ NoRepeats(pending'[o])
      /\ \A n : Lies(pending'[o], n) <=> Lies(pending[o], n) \/ n = x
      /\ \A s \in Owners : s # o => pending'[s] = pending[s]
  BY <1>1, LiesAppend
<1>3. \A n : Queues(n)' <=> Queues(n) \/ n = x
  <2>1. \A n : \A s \in Owners : Lies(pending'[s], n) <=> Lies(pending[s], n) \/ (n = x /\ s = o)
    BY <1>2
  <2>2. \A n : Queues(n)' <=> \E s \in Owners : Lies(pending'[s], n)
    BY DEF Queues, Lies
  <2> QED BY <2>1, <2>2 DEF Queues
<1>4. \A n : (Filed(n)' <=> Filed(n)) /\ (Hands(n)' <=> Hands(n))
  BY DEF Filed, Hands, Lies
<1>5. OnePlace'
  <2>1. \A s \in Owners : NoRepeats(pending'[s])
    BY <1>2 DEF OnePlace
  <2>2. \A s, r \in Owners : \A n \in Notices : Lies(pending'[s], n) /\ Lies(pending'[r], n) => s = r
    BY <1>2 DEF OnePlace, Known, Queues
  <2>3. \A n \in Notices : ~(Queues(n) /\ Hands(n))' /\ ~(Queues(n) /\ Filed(n))'
                           /\ ~(Hands(n) /\ Filed(n))'
    BY <1>3, <1>4 DEF OnePlace, Known
  <2>4. /\ \A i \in 1 .. Len(loops') : NoRepeats(loops'[i].news)
        /\ \A k, m \in 1 .. Len(told') : told'[k].notice = told'[m].notice => k = m
    BY DEF OnePlace
  <2> QED BY <2>1, <2>2, <2>3, <2>4 DEF OnePlace, NoRepeats, Lies
<1> QED BY <1>2, <1>3, <1>4, <1>5 DEF Known

(* The notices of a session are taken, to be recorded.                     *)
LEMMA NewsFiled ==
  ASSUME OnePlace, pending \in [Owners -> Seq(Notices)], mounted \in Owners,
         told \in Seq(Filing), IsSeq(loops), IsSeq(loops'), Len(loops') = Len(loops),
         \A k \in 1 .. Len(loops) : loops'[k].news = loops[k].news,
         NEW o \in Owners, pending' = Left(mounted),
         told' = told \o [k \in DOMAIN Taken(mounted) |->
                            [notice |-> Taken(mounted)[k], sess |-> o]],
         past'.dropped = past.dropped
  PROVE  /\ pending' \in [Owners -> Seq(Notices)] /\ pending'[mounted] = <<>>
         /\ told' \in Seq(Filing) /\ OnePlace'
         /\ \A n \in Notices : Known(n)' <=> Known(n)
<1> DEFINE ns == pending[mounted]
<1>1. ns \in Seq(Notices) /\ NoRepeats(ns) /\ \A n \in Notices : ~(Lies(ns, n) /\ Filed(n))
  BY DEF OnePlace, Queues
<1>2. /\ pending' \in [Owners -> Seq(Notices)] /\ pending'[mounted] = <<>>
      /\ \A s \in Owners : s # mounted => pending'[s] = pending[s]
  BY DEF Left
<1>3. told' = told \o [k \in DOMAIN ns |-> [notice |-> ns[k], sess |-> o]]
  BY DEF Taken
<1> HIDE DEF ns
<1>4. /\ told' \in Seq(Filing) /\ \A n : Filed(n)' <=> Filed(n) \/ Lies(ns, n)
      /\ \A k, m \in 1 .. Len(told') : told'[k].notice = told'[m].notice => k = m
  <2>1. \A k, m \in 1 .. Len(told) : told[k].notice = told[m].notice => k = m
    BY DEF OnePlace
  <2> QED BY <1>1, <1>3, <2>1, Files
<1>5. \A n \in Notices : Queues(n)' <=> Queues(n) /\ ~Lies(ns, n)
  <2>1. \A n \in Notices : \A s \in Owners :
          Lies(pending'[s], n) <=> Lies(pending[s], n) /\ s # mounted
    BY <1>2, Nothing
  <2>2. \A n \in Notices : \A s \in Owners :
          Lies(pending[s], n) /\ Lies(ns, n) => s = mounted
    BY DEF OnePlace, ns
  <2>3. \A n \in Notices : Queues(n)' <=> \E s \in Owners : Lies(pending'[s], n)
    BY DEF Queues, Lies
  <2>4. \A n \in Notices : Queues(n) <=> \E s \in Owners : Lies(pending[s], n)
    BY DEF Queues
  <2>5. \A n \in Notices : \A s \in Owners :
          Lies(pending[s], n) /\ s = mounted => Lies(ns, n)
    BY DEF ns
  <2> QED BY <2>1, <2>2, <2>3, <2>4, <2>5
<1>6. \A n : Hands(n)' <=> Hands(n)
  BY DEF Hands, Lies
<1>7. \A n \in Notices : Lies(ns, n) => Queues(n)
  BY DEF Queues, ns
<1>8. OnePlace'
  <2>1. \A s \in Owners : NoRepeats(pending'[s])
    BY <1>2, Nothing DEF OnePlace
  <2>2. \A s, r \in Owners : \A n \in Notices :
          Lies(pending'[s], n) /\ Lies(pending'[r], n) => s = r
    <3>1. \A s \in Owners : \A n : Lies(pending'[s], n) => Lies(pending[s], n)
      BY <1>2, Nothing
    <3> QED BY <3>1 DEF OnePlace
  <2>3. \A n \in Notices : /\ ~(Queues(n)' /\ Hands(n)') /\ ~(Queues(n)' /\ Filed(n)')
                           /\ ~(Hands(n)' /\ Filed(n)')
    BY <1>4, <1>5, <1>6, <1>7 DEF OnePlace
  <2>4. \A i \in 1 .. Len(loops') : NoRepeats(loops'[i].news)
    BY DEF OnePlace
  <2> QED BY <1>4, <2>1, <2>2, <2>3, <2>4 DEF OnePlace, NoRepeats, Lies
<1>9. \A n \in Notices : Known(n)' <=> Known(n)
  BY <1>4, <1>5, <1>6, <1>7 DEF Known
<1> QED BY <1>2, <1>4, <1>8, <1>9

(* They are taken to open a turn.                                          *)
LEMMA NewsTaken ==
  ASSUME OnePlace, pending \in [Owners -> Seq(Notices)], mounted \in Owners,
         IsSeq(loops), IsSeq(loops'), Len(loops') = Len(loops),
         NEW i \in 1 .. Len(loops), loops[i].news = <<>>, loops'[i].news = Taken(mounted),
         \A k \in 1 .. Len(loops) : k # i => loops'[k].news = loops[k].news,
         pending' = Left(mounted), UNCHANGED <<told, past>>
  PROVE  /\ pending' \in [Owners -> Seq(Notices)] /\ OnePlace'
         /\ \A n \in Notices : Known(n)' <=> Known(n)
<1> DEFINE ns == pending[mounted]
<1>1. ns \in Seq(Notices) /\ NoRepeats(ns) /\ loops'[i].news = ns
  BY DEF OnePlace, Taken
<1>2. /\ pending' \in [Owners -> Seq(Notices)] /\ pending'[mounted] = <<>>
      /\ \A s \in Owners : s # mounted => pending'[s] = pending[s]
  BY DEF Left
<1> HIDE DEF ns
<1>4. \A n : Filed(n)' <=> Filed(n)
  BY DEF Filed
<1>5. \A n \in Notices : Queues(n)' <=> Queues(n) /\ ~Lies(ns, n)
  <2>1. \A n \in Notices : \A s \in Owners :
          Lies(pending'[s], n) <=> Lies(pending[s], n) /\ s # mounted
    BY <1>2, Nothing
  <2>2. \A n \in Notices : \A s \in Owners :
          Lies(pending[s], n) /\ Lies(ns, n) => s = mounted
    BY DEF OnePlace, ns
  <2>3. \A n \in Notices : Queues(n)' <=> \E s \in Owners : Lies(pending'[s], n)
    BY DEF Queues, Lies
  <2>4. \A n \in Notices : Queues(n) <=> \E s \in Owners : Lies(pending[s], n)
    BY DEF Queues
  <2>5. \A n \in Notices : \A s \in Owners :
          Lies(pending[s], n) /\ s = mounted => Lies(ns, n)
    BY DEF ns
  <2> QED BY <2>1, <2>2, <2>3, <2>4, <2>5
<1>6. \A n : Hands(n)' <=> Hands(n) \/ Lies(ns, n)
  <2>1. \A n : Hands(n)' <=> \E k \in 1 .. Len(loops) : Lies(loops'[k].news, n)
    BY DEF Hands, Lies
  <2>2. \A n : \A k \in 1 .. Len(loops) :
          Lies(loops'[k].news, n) <=> IF k = i THEN Lies(ns, n) ELSE Lies(loops[k].news, n)
    BY <1>1
  <2>3. \A n : ~Lies(loops[i].news, n)
    BY Nothing
  <2> QED BY <2>1, <2>2, <2>3 DEF Hands
<1>7. \A n \in Notices : Lies(ns, n) => Queues(n)
  BY DEF Queues, ns
<1>8. OnePlace'
  <2>1. \A s \in Owners : NoRepeats(pending'[s])
    BY <1>2, Nothing DEF OnePlace
  <2>2. \A s, r \in Owners : \A n \in Notices :
          Lies(pending'[s], n) /\ Lies(pending'[r], n) => s = r
    <3>1. \A s \in Owners : \A n : Lies(pending'[s], n) => Lies(pending[s], n)
      BY <1>2, Nothing
    <3> QED BY <3>1 DEF OnePlace
  <2>3. \A n \in Notices : /\ ~(Queues(n)' /\ Hands(n)') /\ ~(Queues(n)' /\ Filed(n)')
                           /\ ~(Hands(n)' /\ Filed(n)')
    BY <1>4, <1>5, <1>6, <1>7 DEF OnePlace
  <2>4. \A k \in 1 .. Len(loops') : NoRepeats(loops'[k].news)
    BY <1>1 DEF OnePlace
  <2>5. \A k, m \in 1 .. Len(told') : told'[k].notice = told'[m].notice => k = m
    BY DEF OnePlace
  <2> QED BY <2>1, <2>2, <2>3, <2>4, <2>5 DEF OnePlace, NoRepeats, Lies
<1>9. \A n \in Notices : Known(n)' <=> Known(n)
  BY <1>4, <1>5, <1>6, <1>7 DEF Known
<1> QED BY <1>2, <1>8, <1>9

(* A turn that was opened with them is admitted, or drops them.            *)
LEMMA NewsLeave ==
  ASSUME OnePlace, IsSeq(loops), IsSeq(loops'), Len(loops') = Len(loops),
         NEW i \in 1 .. Len(loops), loops[i].news \in Seq(Notices), loops'[i].news = <<>>,
         \A k \in 1 .. Len(loops) : k # i => loops[k].news = <<>> /\ loops'[k] = loops[k],
         told \in Seq(Filing), pending' = pending,
         \/ /\ \E o \in Owners : told' = told \o [k \in DOMAIN loops[i].news |->
                                     [notice |-> loops[i].news[k], sess |-> o]]
            /\ past'.dropped = past.dropped
         \/ past'.dropped = past.dropped \cup Range(loops[i].news) /\ told' = told
  PROVE  /\ told' \in Seq(Filing) /\ OnePlace'
         /\ \A n \in Notices : Known(n)' <=> Known(n)
<1> DEFINE ns == loops[i].news
<1>1. ns \in Seq(Notices) /\ NoRepeats(ns)
  BY DEF OnePlace
<1>2. \A n : Hands(n) <=> Lies(ns, n)
  <2>1. \A n : \A k \in 1 .. Len(loops) : Lies(loops[k].news, n) => k = i
    BY Nothing
  <2> QED BY <2>1 DEF Hands
<1>3. \A n : ~Hands(n)'
  <2>1. \A n : Hands(n)' => \E k \in 1 .. Len(loops) : Lies(loops'[k].news, n)
    BY DEF Hands, Lies
  <2>2. \A k \in 1 .. Len(loops) : loops'[k].news = <<>>
    OBVIOUS
  <2> QED BY <2>1, <2>2, Nothing
<1>4. \A n : Queues(n)' <=> Queues(n)
  BY DEF Queues, Lies
<1>5. \A n : Lies(ns, n) <=> n \in Range(ns)
  BY <1>1 DEF Lies, Range
<1>6. /\ told' \in Seq(Filing)
      /\ \A n : Filed(n) => Filed(n)'
      /\ \A n : Filed(n)' => Filed(n) \/ Lies(ns, n)
      /\ \A n : Lies(ns, n) => Filed(n)' \/ n \in past'.dropped
      /\ \A n : n \in past.dropped => n \in past'.dropped
      /\ \A n : n \in past'.dropped => n \in past.dropped \/ Lies(ns, n)
      /\ \A k, m \in 1 .. Len(told') : told'[k].notice = told'[m].notice => k = m
  <2>1. \A k, m \in 1 .. Len(told) : told[k].notice = told[m].notice => k = m
    BY DEF OnePlace
  <2>2. CASE past'.dropped = past.dropped \cup Range(loops[i].news) /\ told' = told
    BY <1>5, <2>1, <2>2 DEF Filed
  <2>3. ASSUME NEW o \in Owners, past'.dropped = past.dropped,
               told' = told \o [k \in DOMAIN ns |-> [notice |-> ns[k], sess |-> o]]
        PROVE  /\ told' \in Seq(Filing) /\ \A n : Filed(n)' <=> Filed(n) \/ Lies(ns, n)
               /\ \A k, m \in 1 .. Len(told') : told'[k].notice = told'[m].notice => k = m
    <3>1. \A n \in Notices : ~(Lies(ns, n) /\ Filed(n))
      BY <1>2 DEF OnePlace
    <3> HIDE DEF ns
    <3> QED BY <1>1, <2>1, <2>3, <3>1, Files
  <2> QED BY <2>2, <2>3
<1> HIDE DEF ns
<1>7. OnePlace'
  <2>1. /\ \A s \in Owners : NoRepeats(pending'[s])
        /\ \A s, r \in Owners : \A n \in Notices :
             Lies(pending'[s], n) /\ Lies(pending'[r], n) => s = r
    BY DEF OnePlace
  <2>2. \A k \in 1 .. Len(loops') : loops'[k].news = <<>>
    OBVIOUS
  <2>3. \A k \in 1 .. Len(loops') : NoRepeats(loops'[k].news)
    BY <2>2, Nothing
  <2>4. \A n \in Notices : /\ ~(Queues(n)' /\ Hands(n)') /\ ~(Queues(n)' /\ Filed(n)')
                           /\ ~(Hands(n)' /\ Filed(n)')
    BY <1>2, <1>3, <1>4, <1>6 DEF OnePlace
  <2> QED BY <1>6, <2>1, <2>3, <2>4 DEF OnePlace, NoRepeats, Lies
<1>8. \A n \in Notices : Known(n)' <=> Known(n)
  BY <1>2, <1>3, <1>4, <1>6 DEF Known
<1> QED BY <1>6, <1>7, <1>8

----------------------------------------------------------------------------
(* The steps of a goroutine.                                               *)

LEMMA SaysStay ==
  ASSUME \A j \in JobIds : JobSays(j), UNCHANGED job,
         \A n \in Notices : Known(n)' <=> Known(n),
         \A j \in JobIds : Holds(j)' <=> Holds(j)
  PROVE  \A j \in JobIds : JobSays(j)'
<1>1. \A j \in JobIds : Notice(j, "match") \in Notices /\ Notice(j, "finish") \in Notices
  BY DEF Notice, Notices
<1>2. ASSUME NEW j \in JobIds
      PROVE  /\ Known(Notice(j, "match"))' <=> Known(Notice(j, "match"))
             /\ Known(Notice(j, "finish"))' <=> Known(Notice(j, "finish"))
  BY <1>1
<1> QED BY <1>2 DEF JobSays

(* While a goroutine goes on, the process has not ended in time.           *)
LEMMA EndStays ==
  ASSUME InTimeEnd, NEW i \in 1 .. Len(loops), loops[i].pc # "stopped",
         UNCHANGED swap, past'.late = past.late
  PROVE  InTimeEnd'
BY DEF InTimeEnd

\* A goroutine goes on with the notices and the claim it has.
GoesQuietly(i, l) ==
  /\ Becomes(i, l) /\ loops[i].pc # "stopped"
  /\ l.news = loops[i].news /\ l.sess = loops[i].sess /\ l.claim = loops[i].claim
  /\ l.news # <<>> => l.pc \in {"begin", "admit"}
  /\ UNCHANGED <<job, pending, told, swap>>
  /\ DOMAIN past' = DOMAIN past /\ past'.dropped = past.dropped /\ past'.late = past.late

LEMMA QuietlyKept ==
  ASSUME IInv, NInv, NEW i \in 1 .. Len(loops), NEW l, GoesQuietly(i, l)
  PROVE  NInv'
<1>1. /\ IsSeq(loops) /\ IsSeq(loops') /\ Len(loops') = Len(loops) /\ loops'[i] = l
      /\ \A k \in 1 .. Len(loops) : k # i => loops'[k] = loops[k]
  BY LoopSet DEF GoesQuietly, IInv, Typed
<1>2. \A k \in 1 .. Len(loops) : /\ loops'[k].news = loops[k].news
                                 /\ loops'[k].sess = loops[k].sess
                                 /\ loops'[k].claim = loops[k].claim
  BY <1>1 DEF GoesQuietly
<1>3. NewsTyped'
  BY <1>1, <1>2 DEF NInv, NewsTyped, GoesQuietly
<1>4. HandsOpen'
  BY <1>1 DEF NInv, HandsOpen, GoesQuietly
<1>5. OnePlace' /\ \A n : Known(n)' <=> Known(n)
  BY <1>1, <1>2, NewsStay DEF NInv, GoesQuietly
<1>6. \A j \in JobIds : Holds(j)' <=> Holds(j)
  BY <1>1, <1>2 DEF Holds
<1>7. \A j \in JobIds : JobSays(j)'
  BY <1>5, <1>6, SaysStay DEF NInv, GoesQuietly
<1>8. InTimeEnd'
  BY EndStays DEF NInv, GoesQuietly
<1> QED BY <1>3, <1>4, <1>5, <1>7, <1>8 DEF NInv

(* What only moves the place of a goroutine is such a step.                *)
LEMMA Quietly ==
  ASSUME IInv, NInv, NEW i \in 1 .. Len(loops), NEW l, Becomes(i, l),
         loops[i].pc \notin {"stopped", "admit"}, loops[i].pc = "begin" => l.pc = "admit",
         l.news = loops[i].news, l.sess = loops[i].sess, l.claim = loops[i].claim,
         UNCHANGED <<job, pending, told, swap>>,
         DOMAIN past' = DOMAIN past, past'.dropped = past.dropped, past'.late = past.late
  PROVE  NInv'
<1>1. GoesQuietly(i, l)
  BY DEF GoesQuietly, NInv, HandsOpen
<1> QED BY <1>1, QuietlyKept

LEMMA QuietGoes ==
  ASSUME IInv, NInv, NEW i \in 1 .. Len(loops), NEW pc, Goes(i, pc),
         loops[i].pc \notin {"stopped", "begin", "admit"},
         UNCHANGED <<job, pending, told, swap, past>>
  PROVE  NInv'
<1> DEFINE l == [loops[i] EXCEPT !.pc = pc]
<1>1. IsLoop(loops[i])
  BY DEF IInv, Typed
<1>2. l.news = loops[i].news /\ l.sess = loops[i].sess /\ l.claim = loops[i].claim
  BY <1>1 DEF IsLoop, LoopFields
<1>3. Becomes(i, l)
  BY DEF Goes
<1> QED BY <1>2, <1>3, Quietly

LEMMA NextStepQuiet ==
  ASSUME IInv, NInv, NEW i \in 1 .. Len(loops),
         loops[i].pc \notin {"stopped", "begin", "admit"},
         Becomes(i, NextStep(i)) \/ Becomes(i, [NextStep(i) EXCEPT !.nudges = @ + 1]),
         UNCHANGED <<job, pending, told, swap, past>>
  PROVE  NInv'
<1>1. IsLoop(loops[i])
  BY DEF IInv, Typed
<1>2. \E l : /\ Becomes(i, l) /\ l.news = loops[i].news /\ l.sess = loops[i].sess
             /\ l.claim = loops[i].claim
  <2> DEFINE l == NextStep(i)
             r == [l EXCEPT !.nudges = @ + 1]
  <2>1. /\ l.news = loops[i].news /\ l.sess = loops[i].sess /\ l.claim = loops[i].claim
        /\ DOMAIN l = LoopFields
    BY <1>1 DEF IsLoop, LoopFields, NextStep
  <2>2. r.news = loops[i].news /\ r.sess = loops[i].sess /\ r.claim = loops[i].claim
    BY <2>1 DEF LoopFields
  <2> QED BY <2>1, <2>2
<1> QED BY <1>2, Quietly

LEMMA NewsInSmallSteps ==
  ASSUME IInv, NInv, NEW i \in 1 .. Len(loops),
         \/ Mounts(i) \/ TakesLine(i) \/ Stops(i) \/ TakesWake(i) \/ Begin(i) \/ Step(i)
         \/ Model(i) \/ Final(i) \/ PushBack(i) \/ Accepted(i) \/ Block(i) \/ CodeEnds(i)
         \/ Finish(i) \/ Done(i) \/ Hook(i) \/ End(i)
  PROVE  NInv'
<1>1. IsLoop(loops[i])
  BY DEF IInv, Typed
<1>2. CASE Mounts(i) \/ Stops(i) \/ TakesWake(i) \/ Done(i) \/ Hook(i) \/ End(i) \/ Finish(i)
  <2>1. /\ loops[i].pc \notin {"stopped", "begin", "admit"}
        /\ UNCHANGED <<job, pending, told, swap, past>>
    BY <1>2 DEF Mounts, Stops, TakesWake, Done, Hook, End, Finish, jobVars
  <2>2. \E pc : Goes(i, pc)
    BY <1>2 DEF Mounts, Stops, TakesWake, Done, Hook, End, Finish
  <2> QED BY <2>1, <2>2, QuietGoes
<1>3. CASE Step(i) \/ Final(i) \/ Block(i) \/ CodeEnds(i) \/ PushBack(i)
  <2>1. /\ loops[i].pc \notin {"stopped", "begin", "admit"}
        /\ UNCHANGED <<job, pending, told, swap, past>>
    BY <1>3 DEF Step, Final, Block, CodeEnds, PushBack, jobVars
  <2>2. \/ \E pc : Goes(i, pc)
        \/ Becomes(i, NextStep(i)) \/ Becomes(i, [NextStep(i) EXCEPT !.nudges = @ + 1])
    BY <1>3 DEF Step, Final, Block, CodeEnds, PushBack
  <2> QED BY <2>1, <2>2, QuietGoes, NextStepQuiet
<1>4. CASE Model(i)
  <2>1. /\ loops[i].pc \notin {"stopped", "begin", "admit"}
        /\ UNCHANGED <<job, pending, told, swap, past>>
    BY <1>4 DEF Model, jobVars
  <2>2. CASE \E pc : Goes(i, pc)
    BY <2>1, <2>2, QuietGoes
  <2>3. CASE Becomes(i, [loops[i] EXCEPT !.pc = "close", !.hook = TRUE])
    <3> DEFINE l == [loops[i] EXCEPT !.pc = "close", !.hook = TRUE]
    <3>1. l.news = loops[i].news /\ l.sess = loops[i].sess /\ l.claim = loops[i].claim
      BY <1>1 DEF IsLoop, LoopFields
    <3> QED BY <2>1, <2>3, <3>1, Quietly
  <2> QED BY <1>4, <2>2, <2>3 DEF Model
<1>5. CASE Accepted(i)
  <2> DEFINE l == [loops[i] EXCEPT !.pc = "done", !.hook = TRUE]
  <2>1. l.news = loops[i].news /\ l.sess = loops[i].sess /\ l.claim = loops[i].claim
    BY <1>1 DEF IsLoop, LoopFields
  <2>2. /\ loops[i].pc = "judge" /\ Becomes(i, l)
        /\ UNCHANGED <<job, pending, told, swap, past>>
    BY <1>5 DEF Accepted, jobVars
  <2> QED BY <2>1, <2>2, Quietly
<1>6. CASE TakesLine(i)
  <2> DEFINE l == [loops[i] EXCEPT !.pc = "begin", !.cur = Head(loops[i].q), !.q = Tail(@)]
  <2>1. l.news = loops[i].news /\ l.sess = loops[i].sess /\ l.claim = loops[i].claim
    BY <1>1 DEF IsLoop, LoopFields
  <2>2. /\ loops[i].pc = "idle" /\ Becomes(i, l)
        /\ UNCHANGED <<job, pending, told, swap, past>>
    BY <1>6 DEF TakesLine, jobVars
  <2> QED BY <2>1, <2>2, Quietly
<1>7. CASE Begin(i)
  <2> DEFINE l == [loops[i] EXCEPT !.pc = "admit", !.steps = 0, !.nudges = 0, !.hook = FALSE]
  <2>1. /\ l.news = loops[i].news /\ l.sess = loops[i].sess /\ l.claim = loops[i].claim
        /\ l.pc = "admit"
    BY <1>1 DEF IsLoop, LoopFields
  <2>2. /\ loops[i].pc = "begin" /\ Becomes(i, l)
        /\ UNCHANGED <<job, pending, told, swap>>
    BY <1>7 DEF Begin, jobVars
  <2>3. DOMAIN past' = DOMAIN past /\ past'.dropped = past.dropped /\ past'.late = past.late
    BY <1>7 DEF Begin, NInv, NewsTyped
  <2> QED BY <2>1, <2>2, <2>3, Quietly
<1> QED BY <1>2, <1>3, <1>4, <1>5, <1>6, <1>7

(* A notice that is taken, recorded or dropped is known as before.         *)
LEMMA NewsInWakeTakes ==
  ASSUME IInv, NInv, NEW i \in 1 .. Len(loops), WakeTakes(i) PROVE NInv'
<1> DEFINE ns == Taken(mounted)
           l == [loops[i] EXCEPT !.pc = IF Taken(mounted) = <<>> THEN "idle" ELSE "begin",
                                 !.cur = Wakes, !.news = Taken(mounted)]
<1>1. IsLoop(loops[i]) /\ loops[i].pc = "woken" /\ mounted \in Owners
  BY DEF IInv, Typed, WakeTakes
<1>2. loops[i].news = <<>> /\ ns \in Seq(Notices)
  BY <1>1 DEF NInv, HandsOpen, NewsTyped, Taken
<1>3. /\ l.news = ns /\ l.sess = loops[i].sess /\ l.claim = loops[i].claim
      /\ l.news # <<>> => l.pc = "begin"
  BY <1>1 DEF IsLoop, LoopFields
<1>4. /\ Becomes(i, l) /\ pending' = Left(mounted)
      /\ UNCHANGED <<job, told, swap, past>>
  BY DEF WakeTakes
<1> HIDE DEF ns, l
<1>5. /\ IsSeq(loops) /\ IsSeq(loops') /\ Len(loops') = Len(loops) /\ loops'[i] = l
      /\ \A k \in 1 .. Len(loops) : k # i => loops'[k] = loops[k]
  BY <1>4, LoopSet DEF IInv, Typed
<1>6. /\ pending' \in [Owners -> Seq(Notices)] /\ OnePlace'
      /\ \A n \in Notices : Known(n)' <=> Known(n)
  <2>1. OnePlace /\ pending \in [Owners -> Seq(Notices)]
    BY DEF NInv, NewsTyped
  <2> QED BY <1>1, <1>2, <1>3, <1>4, <1>5, <2>1, NewsTaken DEF ns
<1>7. \A k \in 1 .. Len(loops) : loops'[k].claim = loops[k].claim /\ loops'[k].sess = loops[k].sess
  BY <1>3, <1>5
<1>8. \A j \in JobIds : JobSays(j)'
  <2>1. \A j \in JobIds : Holds(j)' <=> Holds(j)
    BY <1>5, <1>7 DEF Holds
  <2> QED BY <1>4, <1>6, <2>1, SaysStay DEF NInv
<1>9. NewsTyped'
  BY <1>2, <1>3, <1>4, <1>5, <1>6, <1>7 DEF NInv, NewsTyped
<1>10. HandsOpen'
  BY <1>3, <1>5 DEF NInv, HandsOpen
<1>11. InTimeEnd'
  BY <1>1, <1>4, EndStays DEF NInv
<1> QED BY <1>6, <1>8, <1>9, <1>10, <1>11 DEF NInv

LEMMA NewsInLandJobs ==
  ASSUME IInv, NInv, NEW i \in 1 .. Len(loops), LandJobs(i) PROVE NInv'
<1> DEFINE l == [loops[i] EXCEPT !.pc = "model"]
<1>1. IsLoop(loops[i]) /\ loops[i].pc = "jobs" /\ mounted \in Owners
  BY DEF IInv, Typed, LandJobs
<1>2. loops[i].news = <<>> /\ loops[i].sess \in Owners
  BY <1>1 DEF NInv, HandsOpen, NewsTyped
<1>3. l.news = <<>> /\ l.sess = loops[i].sess /\ l.claim = loops[i].claim
  BY <1>1, <1>2 DEF IsLoop, LoopFields
<1>4. /\ Becomes(i, l) /\ pending' = Left(mounted) /\ SessionNote(i, Taken(mounted))
      /\ UNCHANGED <<job, swap, past>>
  BY DEF LandJobs, Goes
<1> HIDE DEF l
<1>5. /\ IsSeq(loops) /\ IsSeq(loops') /\ Len(loops') = Len(loops) /\ loops'[i] = l
      /\ \A k \in 1 .. Len(loops) : k # i => loops'[k] = loops[k]
  BY <1>4, LoopSet DEF IInv, Typed
<1>6. /\ pending' \in [Owners -> Seq(Notices)] /\ told' \in Seq(Filing) /\ OnePlace'
      /\ \A n \in Notices : Known(n)' <=> Known(n)
  <2>1. OnePlace /\ pending \in [Owners -> Seq(Notices)] /\ told \in Seq(Filing)
    BY DEF NInv, NewsTyped
  <2>2. \A k \in 1 .. Len(loops) : loops'[k].news = loops[k].news
    BY <1>2, <1>3, <1>5
  <2>3. told' = told \o [k \in DOMAIN Taken(mounted) |->
                            [notice |-> Taken(mounted)[k], sess |-> loops[i].sess]]
    BY <1>4 DEF SessionNote
  <2> QED BY <1>1, <1>2, <1>4, <1>5, <2>1, <2>2, <2>3, NewsFiled
<1>7. \A k \in 1 .. Len(loops) : loops'[k].claim = loops[k].claim /\ loops'[k].sess = loops[k].sess
  BY <1>3, <1>5
<1>8. \A j \in JobIds : JobSays(j)'
  <2>1. \A j \in JobIds : Holds(j)' <=> Holds(j)
    BY <1>5, <1>7 DEF Holds
  <2> QED BY <1>4, <1>6, <2>1, SaysStay DEF NInv
<1>9. NewsTyped'
  BY <1>2, <1>3, <1>4, <1>5, <1>6, <1>7 DEF NInv, NewsTyped
<1>10. HandsOpen'
  BY <1>3, <1>5 DEF NInv, HandsOpen
<1>11. InTimeEnd'
  BY <1>1, <1>4, EndStays DEF NInv
<1> QED BY <1>6, <1>8, <1>9, <1>10, <1>11 DEF NInv

LEMMA NewsInAdmit ==
  ASSUME IInv, NInv, NEW i \in 1 .. Len(loops), Admit(i) PROVE NInv'
<1>1. IsLoop(loops[i]) /\ loops[i].pc = "admit"
  BY DEF IInv, Typed, Admit
<1>2. loops[i].news \in Seq(Notices) /\ loops[i].sess \in Owners
  BY DEF NInv, NewsTyped
<1>3. PICK pc \in {"cancelled", "close", "step"} :
        Becomes(i, [loops[i] EXCEPT !.pc = pc, !.news = <<>>])
  BY DEF Admit
<1> DEFINE l == [loops[i] EXCEPT !.pc = pc, !.news = <<>>]
<1>4. l.news = <<>> /\ l.sess = loops[i].sess /\ l.claim = loops[i].claim
  BY <1>1 DEF IsLoop, LoopFields
<1>5. UNCHANGED <<job, pending, swap>> /\ Becomes(i, l)
  BY <1>3 DEF Admit, jobVars
<1>6. /\ DOMAIN past' = DOMAIN past /\ past'.late = past.late
      /\ \/ SessionNote(i, loops[i].news) /\ past'.dropped = past.dropped
         \/ past'.dropped = past.dropped \cup Range(loops[i].news) /\ told' = told
  <2>1. DOMAIN past = {"dropped", "aim", "misfired", "late"}
    BY DEF NInv, NewsTyped
  <2> QED BY <2>1 DEF Admit
<1> HIDE DEF l
<1>7. /\ IsSeq(loops) /\ IsSeq(loops') /\ Len(loops') = Len(loops) /\ loops'[i] = l
      /\ \A k \in 1 .. Len(loops) : k # i => loops'[k] = loops[k]
  BY <1>5, LoopSet DEF IInv, Typed
<1>8. told' \in Seq(Filing) /\ OnePlace' /\ \A n \in Notices : Known(n)' <=> Known(n)
  <2>1. OnePlace /\ told \in Seq(Filing)
    BY DEF NInv, NewsTyped
  <2>2. \A k \in 1 .. Len(loops) : k # i => loops[k].news = <<>>
    BY <1>1, Alone DEF IInv, NInv, HandsOpen
  <2>3. SessionNote(i, loops[i].news) =>
          \E o \in Owners : told' = told \o [k \in DOMAIN loops[i].news |->
                                      [notice |-> loops[i].news[k], sess |-> o]]
    BY <1>2 DEF SessionNote
  <2> QED BY <1>2, <1>4, <1>5, <1>6, <1>7, <2>1, <2>2, <2>3, NewsLeave
<1>9. \A k \in 1 .. Len(loops) : loops'[k].claim = loops[k].claim /\ loops'[k].sess = loops[k].sess
  BY <1>4, <1>7
<1>10. \A j \in JobIds : JobSays(j)'
  <2>1. \A j \in JobIds : Holds(j)' <=> Holds(j)
    BY <1>7, <1>9 DEF Holds
  <2> QED BY <1>5, <1>8, <2>1, SaysStay DEF NInv
<1>11. NewsTyped'
  <2>1. \A k \in 1 .. Len(loops) : /\ loops'[k].news \in Seq(Notices)
                                   /\ loops'[k].sess \in Owners
                                   /\ loops'[k].claim \in JobIds \cup {0}
    <3>1. <<>> \in Seq(Notices)
      OBVIOUS
    <3> QED BY <1>4, <1>7, <1>9, <3>1 DEF NInv, NewsTyped
  <2>2. DOMAIN past' = {"dropped", "aim", "misfired", "late"}
    BY <1>6 DEF NInv, NewsTyped
  <2> QED BY <1>5, <1>7, <1>8, <2>1, <2>2 DEF NInv, NewsTyped
<1>12. HandsOpen'
  BY <1>4, <1>7 DEF NInv, HandsOpen
<1>13. InTimeEnd'
  BY <1>1, <1>5, <1>6, EndStays DEF NInv
<1> QED BY <1>8, <1>10, <1>11, <1>12, <1>13 DEF NInv

----------------------------------------------------------------------------
(* The steps of a job.                                                     *)

LEMMA OneJobSays ==
  ASSUME \A k \in JobIds : JobSays(k), NEW j \in JobIds,
         \A k \in JobIds : k # j => job'[k] = job[k] /\ (Holds(k)' <=> Holds(k)),
         \A n \in Notices : n.job # j => (Known(n)' <=> Known(n)),
         JobSays(j)'
  PROVE  \A k \in JobIds : JobSays(k)'
<1> SUFFICES ASSUME NEW k \in JobIds, k # j PROVE JobSays(k)'
  OBVIOUS
<1>1. /\ Notice(k, "match") \in Notices /\ Notice(k, "finish") \in Notices
      /\ Notice(k, "match").job = k /\ Notice(k, "finish").job = k
  BY DEF Notice, Notices
<1>2. /\ Known(Notice(k, "match"))' <=> Known(Notice(k, "match"))
      /\ Known(Notice(k, "finish"))' <=> Known(Notice(k, "finish"))
  BY <1>1
<1> QED BY <1>2 DEF JobSays

LEMMA NewsInCodeStarts ==
  ASSUME IInv, NInv, NEW i \in 1 .. Len(loops), CodeStarts(i) PROVE NInv'
<1>1. /\ IsLoop(loops[i]) /\ loops[i].pc = "code" /\ loops[i].claim = 0 /\ mounted \in Owners
      /\ loops[i].news = <<>>
  BY DEF IInv, Typed, IsLoop, CodeStarts, NInv, HandsOpen
<1>2. PICK j \in JobIds, until \in BOOLEAN :
        /\ StartJob(j, until)
        /\ IF until THEN UNCHANGED loops
           ELSE Becomes(i, [loops[i] EXCEPT !.pc = "claim", !.claim = j])
  BY DEF CodeStarts
<1> DEFINE r == [NoJob EXCEPT !.st = "up", !.owner = mounted, !.until = until,
                              !.claimed = ~until, !.waiter = "wait", !.recorded = <<mounted>>]
           l == IF until THEN loops[i] ELSE [loops[i] EXCEPT !.pc = "claim", !.claim = j]
<1>3. /\ IsJob(r) /\ r.st = "up" /\ r.claimed = ~until /\ r.match = "no" /\ r.waiter = "wait"
  BY <1>1 DEF IsJob, JobFields, NoJob
<1>4. /\ l.news = loops[i].news /\ l.sess = loops[i].sess /\ l.claim = IF until THEN 0 ELSE j
  BY <1>1 DEF IsLoop, LoopFields
<1>5. /\ job' = [job EXCEPT ![j] = r] /\ job[j].st = "none" /\ j # 0
      /\ UNCHANGED <<pending, told, swap, past>>
  <2>1. job' = [job EXCEPT ![j] = r] /\ job[j].st = "none" /\ UNCHANGED pending
    BY <1>2 DEF StartJob, Claimed
  <2>2. j # 0 /\ UNCHANGED <<told, swap, past>>
    BY JobsBound DEF CodeStarts, JobIds
  <2> QED BY <2>1, <2>2
<1> HIDE DEF r
<1>6. /\ DOMAIN job' = JobIds /\ job'[j] = r
      /\ \A k \in JobIds : k # j => job'[k] = job[k]
  BY <1>5 DEF NInv, NewsTyped
<1>7. /\ IsSeq(loops) /\ IsSeq(loops') /\ Len(loops') = Len(loops) /\ loops'[i] = l
      /\ \A k \in 1 .. Len(loops) : k # i => loops'[k] = loops[k]
  BY <1>2, LoopSet DEF IInv, Typed
<1> HIDE DEF l
<1>8. OnePlace' /\ \A n : Known(n)' <=> Known(n)
  <2>1. \A k \in 1 .. Len(loops) : loops'[k].news = loops[k].news
    BY <1>4, <1>7
  <2> QED BY <1>5, <1>7, <2>1, NewsStay DEF NInv
<1>9. \A k \in JobIds : JobSays(k)'
  <2>1. \A k \in JobIds : k # j => (Holds(k)' <=> Holds(k))
    <3>1. \A k \in JobIds : k # 0
      BY JobsBound DEF JobIds
    <3>2. \A k \in JobIds : k # j => \A m \in 1 .. Len(loops) :
            loops'[m].claim = k <=> loops[m].claim = k
      BY <1>1, <1>4, <1>7, <3>1
    <3> QED BY <1>7, <3>2 DEF Holds
  <2>2. ~Known(Notice(j, "match")) /\ ~Known(Notice(j, "finish")) /\ ~Holds(j)
    BY <1>5 DEF NInv, JobSays, NewsTyped, IsJob
  <2>3. Holds(j)' <=> ~until
    <3>1. ~until => Holds(j)'
      BY <1>4, <1>7 DEF Holds
    <3>2. until => ~Holds(j)'
      BY <1>4, <1>5, <1>7, <2>2 DEF Holds
    <3> QED BY <3>1, <3>2
  <2>4. JobSays(j)'
    BY <1>3, <1>6, <1>8, <2>2, <2>3 DEF JobSays
  <2> QED BY <1>6, <1>8, <2>1, <2>4, OneJobSays DEF NInv
<1>10. NewsTyped'
  <2>1. \A k \in 1 .. Len(loops) : /\ loops'[k].news \in Seq(Notices)
                                   /\ loops'[k].sess \in Owners
                                   /\ loops'[k].claim \in JobIds \cup {0}
    BY <1>4, <1>7 DEF NInv, NewsTyped
  <2>2. \A k \in JobIds : IsJob(job'[k])
    BY <1>3, <1>6 DEF NInv, NewsTyped
  <2> QED BY <1>5, <1>6, <1>7, <2>1, <2>2 DEF NInv, NewsTyped
<1>11. HandsOpen'
  BY <1>1, <1>4, <1>7 DEF NInv, HandsOpen
<1>12. InTimeEnd'
  BY <1>1, <1>5, EndStays DEF NInv
<1> QED BY <1>8, <1>9, <1>10, <1>11, <1>12 DEF NInv

LEMMA NewsInClaims ==
  ASSUME IInv, NInv, NEW i \in 1 .. Len(loops), Claims(i) PROVE NInv'
<1> DEFINE l == [loops[i] EXCEPT !.pc = "code", !.claim = 0]
<1>j. PICK j : j = loops[i].claim
  OBVIOUS
<1>1. /\ IsLoop(loops[i]) /\ loops[i].pc = "claim" /\ j # 0 /\ loops[i].news = <<>>
  BY <1>j DEF IInv, Typed, IsLoop, Claims, NInv, HandsOpen
<1>2. j \in JobIds /\ IsJob(job[j]) /\ Holds(j)
  BY <1>1, <1>j DEF NInv, NewsTyped, Holds
<1>3. l.news = <<>> /\ l.sess = loops[i].sess /\ l.claim = 0
  BY <1>1 DEF IsLoop, LoopFields
<1>4. /\ Becomes(i, l) /\ UNCHANGED <<pending, told, swap, past>>
      /\ ClaimTakes(j) \/ ClaimGivesUp(j) \/ ClaimCancelled(j) \/ ClaimLeft(j)
  BY <1>j DEF Claims
<1>5. PICK r : /\ job' = [job EXCEPT ![j] = r] /\ IsJob(r)
               /\ r.st = job[j].st /\ r.match = job[j].match /\ r.waiter = job[j].waiter
               /\ r.tell = job[j].tell
               /\ r.claimed => r.late \/ r.answered
               /\ r.st = "done" => r.late \/ r.answered
  <2>1. CASE ClaimTakes(j)
    <3> DEFINE r == [job[j] EXCEPT !.answered = TRUE]
    <3>1. job[j].st = "done" /\ ~job[j].tell
      BY <1>2, <2>1 DEF ClaimTakes, NInv, JobSays
    <3>2. IsJob(r) /\ r.answered /\ r.st = job[j].st /\ r.match = job[j].match
          /\ r.waiter = job[j].waiter /\ r.tell = job[j].tell
      BY <1>2, <3>1 DEF IsJob, JobFields
    <3> QED BY <2>1, <3>2 DEF ClaimTakes
  <2>2. CASE ClaimGivesUp(j)
    <3> DEFINE r == [job[j] EXCEPT !.claimed = FALSE]
    <3>1. IsJob(r) /\ ~r.claimed /\ r.st = job[j].st /\ r.match = job[j].match
          /\ r.waiter = job[j].waiter /\ r.tell = job[j].tell
      BY <1>2 DEF IsJob, JobFields
    <3> QED BY <2>2, <3>1 DEF ClaimGivesUp
  <2>3. CASE ClaimCancelled(j)
    <3> DEFINE r == [job[j] EXCEPT !.claimed = FALSE, !.late = job[j].st = "done"]
    <3>1. IsJob(r) /\ ~r.claimed /\ (r.late = (r.st = "done")) /\ r.st = job[j].st
          /\ r.match = job[j].match /\ r.waiter = job[j].waiter /\ r.tell = job[j].tell
      BY <1>2 DEF IsJob, JobFields
    <3>2. job' = [job EXCEPT ![j] = r]
      BY <2>3 DEF ClaimCancelled
    <3> QED BY <3>1, <3>2
  <2>4. CASE ClaimLeft(j)
    <3> DEFINE r == [job[j] EXCEPT !.late = TRUE]
    <3>1. IsJob(r) /\ r.late /\ r.st = job[j].st
          /\ r.match = job[j].match /\ r.waiter = job[j].waiter /\ r.tell = job[j].tell
      BY <1>2 DEF IsJob, JobFields
    <3> QED BY <2>4, <3>1 DEF ClaimLeft
  <2> QED BY <1>4, <2>1, <2>2, <2>3, <2>4
<1> HIDE DEF l
<1>6. /\ DOMAIN job' = JobIds /\ job'[j] = r
      /\ \A k \in JobIds : k # j => job'[k] = job[k]
  BY <1>2, <1>5 DEF NInv, NewsTyped
<1>7. /\ IsSeq(loops) /\ IsSeq(loops') /\ Len(loops') = Len(loops) /\ loops'[i] = l
      /\ \A k \in 1 .. Len(loops) : k # i => loops'[k] = loops[k]
  BY <1>4, LoopSet DEF IInv, Typed
<1>8. OnePlace' /\ \A n : Known(n)' <=> Known(n)
  <2>1. \A k \in 1 .. Len(loops) : loops'[k].news = loops[k].news
    BY <1>1, <1>3, <1>7
  <2> QED BY <1>4, <1>7, <2>1, NewsStay DEF NInv
<1>9. \A k \in JobIds : JobSays(k)'
  <2>0. \A k \in JobIds : k # 0
    BY JobsBound DEF JobIds
  <2>1. \A k \in JobIds : k # j => (Holds(k)' <=> Holds(k))
    <3>2. \A k \in JobIds : k # j => \A m \in 1 .. Len(loops) :
            loops'[m].claim = k <=> loops[m].claim = k
      BY <1>3, <1>7, <1>j, <2>0
    <3> QED BY <1>7, <3>2 DEF Holds
  <2>2. ~Holds(j)'
    <3>1. ASSUME NEW k \in 1 .. Len(loops), k # i PROVE loops[k].claim # j
      <4>1. loops[k].pc # "claim"
        BY <1>1, <3>1, Alone DEF IInv
      <4> QED BY <1>1, <1>j, <4>1 DEF IInv, Typed, IsLoop
    <3> QED BY <1>2, <1>3, <1>7, <2>0, <3>1 DEF Holds
  <2>3. JobSays(j)'
    BY <1>2, <1>5, <1>6, <1>8, <2>2 DEF NInv, JobSays
  <2> QED BY <1>2, <1>6, <1>8, <2>1, <2>3, OneJobSays DEF NInv
<1>10. NewsTyped'
  <2>1. \A k \in 1 .. Len(loops) : /\ loops'[k].news \in Seq(Notices)
                                   /\ loops'[k].sess \in Owners
                                   /\ loops'[k].claim \in JobIds \cup {0}
    BY <1>1, <1>3, <1>7 DEF NInv, NewsTyped
  <2>2. \A k \in JobIds : IsJob(job'[k])
    BY <1>5, <1>6 DEF NInv, NewsTyped
  <2> QED BY <1>4, <1>6, <1>7, <2>1, <2>2 DEF NInv, NewsTyped
<1>11. HandsOpen'
  BY <1>3, <1>7 DEF NInv, HandsOpen
<1>12. InTimeEnd'
  BY <1>1, <1>4, EndStays DEF NInv
<1> QED BY <1>8, <1>9, <1>10, <1>11, <1>12 DEF NInv

\* Of job j what its notices and its claim do not depend on may change.
JobGoes(j, r) ==
  /\ job' = [job EXCEPT ![j] = r] /\ IsJob(r)
  /\ r.claimed = job[j].claimed /\ r.late = job[j].late /\ r.answered = job[j].answered
  /\ UNCHANGED <<loops, told, past, swap, mounted>>

LEMMA JobGoesKept ==
  ASSUME IInv, NInv, NEW j \in JobIds, NEW r, JobGoes(j, r), swap.pc = "over" => past.late,
         pending' \in [Owners -> Seq(Notices)], OnePlace',
         \A n \in Notices : n.job # j => (Known(n)' <=> Known(n)),
         Known(Notice(j, "match"))' <=> r.match \in {"wake", "over"},
         Known(Notice(j, "finish"))' <=> r.tell /\ r.waiter \in {"wake", "over"},
         Holds(j) => r.st # "none" /\ (r.st = "done" => ~r.tell),
         r.st = "done" /\ ~r.tell => r.late \/ r.answered \/ Holds(j)
  PROVE  NInv'
<1>1. /\ DOMAIN job' = JobIds /\ job'[j] = r
      /\ \A k \in JobIds : k # j => job'[k] = job[k]
  BY DEF NInv, NewsTyped, JobGoes
<1>2. \A k : Holds(k)' <=> Holds(k)
  BY DEF JobGoes, Holds
<1>3. JobSays(j)'
  BY <1>1, <1>2 DEF NInv, JobSays, JobGoes
<1>4. \A k \in JobIds : JobSays(k)'
  BY <1>1, <1>2, <1>3, OneJobSays DEF NInv
<1>5. NewsTyped'
  <2>1. \A k \in JobIds : IsJob(job'[k])
    BY <1>1 DEF NInv, NewsTyped, JobGoes
  <2> QED BY <1>1, <2>1 DEF NInv, NewsTyped, JobGoes
<1>6. HandsOpen' /\ InTimeEnd'
  BY DEF NInv, HandsOpen, InTimeEnd, JobGoes
<1> QED BY <1>4, <1>5, <1>6 DEF NInv

(* The jobs are still once the process has ended in time.                  *)
LEMMA JobsStill ==
  ASSUME NInv, NEW j \in JobIds, JobStep(j), swap.pc = "over" PROVE past.late
<1> SUFFICES ASSUME ~past.late PROVE FALSE
  OBVIOUS
<1>1. job[j].waiter \in {"none", "over"} /\ IsJob(job[j])
  BY DEF NInv, InTimeEnd, JobsReported, NewsTyped
<1>2. job[j].st \notin {"up", "out"} /\ job[j].match \in {"no", "over"}
  BY <1>1 DEF IsJob
<1> QED BY <1>1, <1>2 DEF JobStep, Matches, Exits, Publish, Record, NotifyAppends, NotifyWakes

LEMMA NewsInJobSteps ==
  ASSUME IInv, NInv, NEW j \in JobIds, JobSteps(j) PROVE NInv'
<1>1. /\ swap.pc = "over" => past.late
      /\ UNCHANGED <<loops, told, past, swap, mounted>>
  BY JobsStill DEF JobSteps, JobStep, loopVars, Matches, Exits, Publish, Record,
                   NotifyAppends, NotifyWakes
<1>2. IsJob(job[j]) /\ JobSays(j) /\ pending \in [Owners -> Seq(Notices)]
  BY DEF NInv, NewsTyped
<1>3. /\ Notice(j, "match") \in Notices /\ Notice(j, "finish") \in Notices
      /\ Notice(j, "match").job = j /\ Notice(j, "finish").job = j
      /\ Notice(j, "match") # Notice(j, "finish")
  BY DEF Notice, Notices
<1>4. UNCHANGED pending => OnePlace' /\ \A n : Known(n)' <=> Known(n)
  <2>1. IsSeq(loops)
    BY DEF IInv, Typed
  <2> QED BY <1>1, <2>1, NewsStay DEF NInv, IsSeq
<1>5. ASSUME NEW r, IsJob(r), r.claimed = job[j].claimed, r.late = job[j].late,
             r.answered = job[j].answered,
             job' = [job EXCEPT ![j] = r], UNCHANGED pending,
             job[j].match \in {"wake", "over"} <=> r.match \in {"wake", "over"},
             job[j].tell /\ job[j].waiter \in {"wake", "over"}
               <=> r.tell /\ r.waiter \in {"wake", "over"},
             Holds(j) => r.st # "none" /\ (r.st = "done" => ~r.tell),
             r.st = "done" /\ ~r.tell => r.late \/ r.answered \/ Holds(j)
      PROVE  NInv'
  <2>1. JobGoes(j, r)
    BY <1>1, <1>5 DEF JobGoes
  <2>2. /\ Known(Notice(j, "match"))' <=> r.match \in {"wake", "over"}
        /\ Known(Notice(j, "finish"))' <=> r.tell /\ r.waiter \in {"wake", "over"}
    BY <1>2, <1>4, <1>5 DEF JobSays
  <2>3. pending' \in [Owners -> Seq(Notices)]
    BY <1>2, <1>5
  <2> QED BY <1>1, <1>4, <1>5, <2>1, <2>2, <2>3, JobGoesKept
<1>6. CASE Matches(j)
  <2> DEFINE r == [job[j] EXCEPT !.match = "append"]
  <2>1. IsJob(r) /\ r.claimed = job[j].claimed /\ r.late = job[j].late
        /\ r.answered = job[j].answered /\ r.st = job[j].st /\ r.tell = job[j].tell
        /\ r.waiter = job[j].waiter /\ r.match = "append" /\ job[j].match = "no"
    BY <1>2, <1>6 DEF IsJob, JobFields, Matches
  <2> QED BY <1>2, <1>5, <1>6, <2>1 DEF Matches, JobSays
<1>7. CASE Exits(j)
  <2> DEFINE r == [job[j] EXCEPT !.st = "out"]
  <2>1. IsJob(r) /\ r.claimed = job[j].claimed /\ r.late = job[j].late
        /\ r.answered = job[j].answered /\ r.st = "out" /\ r.tell = job[j].tell
        /\ r.waiter = job[j].waiter /\ r.match = job[j].match
    BY <1>2, <1>7 DEF IsJob, JobFields, Exits
  <2> QED BY <1>2, <1>5, <1>7, <2>1 DEF Exits, JobSays
<1>8. CASE Publish(j)
  <2> DEFINE r == [job[j] EXCEPT !.st = "done", !.waiter = "record", !.tell = ~job[j].claimed]
  <2>1. IsJob(r) /\ r.claimed = job[j].claimed /\ r.late = job[j].late
        /\ r.answered = job[j].answered /\ r.st = "done" /\ r.tell = ~job[j].claimed
        /\ r.waiter = "record" /\ r.match = job[j].match /\ job[j].waiter = "wait"
    BY <1>2, <1>8 DEF IsJob, JobFields, Publish
  <2> QED BY <1>2, <1>5, <1>8, <2>1 DEF Publish, JobSays
<1>9. CASE Record(j)
  <2> DEFINE r == [job[j] EXCEPT !.recorded = Append(@, mounted),
                                 !.waiter = IF job[j].tell THEN "append" ELSE "over"]
  <2>1. IsJob(r) /\ r.claimed = job[j].claimed /\ r.late = job[j].late
        /\ r.answered = job[j].answered /\ r.st = job[j].st /\ r.tell = job[j].tell
        /\ r.waiter = (IF job[j].tell THEN "append" ELSE "over")
        /\ r.match = job[j].match /\ job[j].waiter = "record"
    BY <1>2, <1>9 DEF IsJob, JobFields, Record
  <2>2. job' = [job EXCEPT ![j] = r] /\ UNCHANGED pending
    BY <1>9 DEF Record
  <2> HIDE DEF r
  <2> QED BY <1>2, <1>5, <2>1, <2>2 DEF JobSays
<1>10. CASE NotifyWakes(j)
  <2>1. CASE job[j].match = "wake" /\ job' = [job EXCEPT ![j].match = "over"]
    <3> DEFINE r == [job[j] EXCEPT !.match = "over"]
    <3>1. IsJob(r) /\ r.claimed = job[j].claimed /\ r.late = job[j].late
          /\ r.answered = job[j].answered /\ r.st = job[j].st /\ r.tell = job[j].tell
          /\ r.waiter = job[j].waiter /\ r.match = "over"
      BY <1>2, <2>1 DEF IsJob, JobFields
    <3> QED BY <1>2, <1>5, <1>10, <2>1, <3>1 DEF NotifyWakes, JobSays
  <2>2. CASE job[j].waiter = "wake" /\ job' = [job EXCEPT ![j].waiter = "over"]
    <3> DEFINE r == [job[j] EXCEPT !.waiter = "over"]
    <3>1. IsJob(r) /\ r.claimed = job[j].claimed /\ r.late = job[j].late
          /\ r.answered = job[j].answered /\ r.st = job[j].st /\ r.tell = job[j].tell
          /\ r.waiter = "over" /\ r.match = job[j].match
      BY <1>2, <2>2 DEF IsJob, JobFields
    <3> QED BY <1>2, <1>5, <1>10, <2>2, <3>1 DEF NotifyWakes, JobSays
  <2> QED BY <1>10, <2>1, <2>2 DEF NotifyWakes
<1>11. ASSUME NEW what \in {"match", "finish"}, NEW r, JobGoes(j, r),
              ~Known(Notice(j, what)), pending' = Queued(j, what),
              r.st = job[j].st, r.tell = job[j].tell,
              what = "match" => r.match = "wake" /\ r.waiter = job[j].waiter,
              what = "finish" => r.waiter = "wake" /\ r.match = job[j].match /\ r.tell
       PROVE  NInv'
  <2>1. /\ pending' \in [Owners -> Seq(Notices)] /\ OnePlace'
        /\ \A n : Known(n)' <=> Known(n) \/ n = Notice(j, what)
    <3>1. job[j].owner \in Owners /\ Notice(j, what) \in Notices
      BY <1>2, <1>3 DEF IsJob
    <3>2. pending' = [pending EXCEPT ![job[j].owner] = Append(@, Notice(j, what))]
      BY <1>11 DEF Queued
    <3> QED BY <1>1, <1>2, <1>11, <3>1, <3>2, NewsQueued DEF NInv
  <2>2. \A n \in Notices : n.job # j => (Known(n)' <=> Known(n))
    BY <1>3, <2>1
  <2>3. /\ Known(Notice(j, "match"))' <=> r.match \in {"wake", "over"}
        /\ Known(Notice(j, "finish"))' <=> r.tell /\ r.waiter \in {"wake", "over"}
    BY <1>2, <1>3, <1>11, <2>1 DEF JobSays
  <2>4. /\ Holds(j) => r.st # "none" /\ (r.st = "done" => ~r.tell)
        /\ r.st = "done" /\ ~r.tell => r.late \/ r.answered \/ Holds(j)
    BY <1>2, <1>11 DEF JobSays, JobGoes
  <2> QED BY <1>1, <1>11, <2>1, <2>2, <2>3, <2>4, JobGoesKept
<1>12. CASE NotifyAppends(j)
  <2>1. CASE job[j].match = "append" /\ job' = [job EXCEPT ![j].match = "wake"]
             /\ pending' = Queued(j, "match")
    <3> DEFINE r == [job[j] EXCEPT !.match = "wake"]
    <3>1. IsJob(r) /\ r.claimed = job[j].claimed /\ r.late = job[j].late
          /\ r.answered = job[j].answered /\ r.st = job[j].st /\ r.tell = job[j].tell
          /\ r.waiter = job[j].waiter /\ r.match = "wake"
      BY <1>2, <2>1 DEF IsJob, JobFields
    <3>2. JobGoes(j, r) /\ ~Known(Notice(j, "match"))
      BY <1>1, <1>2, <2>1, <3>1 DEF JobGoes, JobSays
    <3> QED BY <1>11, <2>1, <3>1, <3>2
  <2>2. CASE job[j].waiter = "append" /\ job' = [job EXCEPT ![j].waiter = "wake"]
             /\ pending' = Queued(j, "finish")
    <3> DEFINE r == [job[j] EXCEPT !.waiter = "wake"]
    <3>1. IsJob(r) /\ r.claimed = job[j].claimed /\ r.late = job[j].late
          /\ r.answered = job[j].answered /\ r.st = job[j].st /\ r.tell = job[j].tell
          /\ r.waiter = "wake" /\ r.match = job[j].match /\ r.tell
      BY <1>2, <2>2 DEF IsJob, JobFields
    <3>2. JobGoes(j, r) /\ ~Known(Notice(j, "finish"))
      BY <1>1, <1>2, <2>2, <3>1 DEF JobGoes, JobSays
    <3> QED BY <1>11, <2>2, <3>1, <3>2
  <2> QED BY <1>12, <2>1, <2>2 DEF NotifyAppends
<1> QED BY <1>6, <1>7, <1>8, <1>9, <1>10, <1>12 DEF JobSteps, JobStep

----------------------------------------------------------------------------
(* The terminal, the Reconcile and the end of the process.                 *)

\* Where the loops are, what they hold and who waits on a claim stays.
LEMMA LoopsRest ==
  ASSUME IInv, NInv, IsSeq(loops'), Len(loops') >= Len(loops),
         \A k \in 1 .. Len(loops) : /\ loops'[k].news = loops[k].news
                                    /\ loops'[k].claim = loops[k].claim
                                    /\ loops'[k].sess = loops[k].sess
                                    /\ loops'[k].pc = loops[k].pc,
         \A k \in 1 .. Len(loops') : k \notin 1 .. Len(loops) =>
           loops'[k].news = <<>> /\ loops'[k].claim = 0 /\ loops'[k].sess \in Owners,
         UNCHANGED <<job, pending, told>>, DOMAIN past' = DOMAIN past,
         past'.dropped = past.dropped, InTimeEnd'
  PROVE  NInv'
<1>1. IsSeq(loops)
  BY DEF IInv, Typed
<1>2. OnePlace' /\ \A n : Known(n)' <=> Known(n)
  BY <1>1, NewsStay DEF NInv
<1>3. \A j \in JobIds : JobSays(j)'
  <2>1. \A k \in JobIds : k # 0
    BY JobsBound DEF JobIds
  <2>2. \A j \in JobIds : Holds(j)' <=> Holds(j)
    BY <1>1, <2>1 DEF Holds, IsSeq
  <2> QED BY <1>2, <2>2, SaysStay DEF NInv
<1>4. NewsTyped'
  <2>1. <<>> \in Seq(Notices)
    OBVIOUS
  <2>2. \A k \in 1 .. Len(loops') : /\ loops'[k].news \in Seq(Notices)
                                    /\ loops'[k].sess \in Owners
                                    /\ loops'[k].claim \in JobIds \cup {0}
    BY <2>1 DEF NInv, NewsTyped
  <2> QED BY <2>2 DEF NInv, NewsTyped
<1>5. HandsOpen'
  BY DEF NInv, HandsOpen
<1> QED BY <1>2, <1>3, <1>4, <1>5 DEF NInv

LEMMA LoopsSame ==
  ASSUME IInv, NInv, UNCHANGED <<loops, job, pending, told>>, DOMAIN past' = DOMAIN past,
         past'.dropped = past.dropped, InTimeEnd'
  PROVE  NInv'
BY LoopsRest DEF IInv, Typed, IsSeq

LEMMA NewsInTerminal ==
  ASSUME IInv, NInv,
         \/ \E n \in Lines : Types(n) \/ Sends(n)
         \/ Esc \/ SeesDone
  PROVE  NInv'
<1>1. UNCHANGED <<mounted, job, pending, told, swap>>
  BY DEF Types, Sends, Esc, SeesDone, jobVars, uiVars, loopVars
<1>2. /\ DOMAIN past' = DOMAIN past /\ past'.dropped = past.dropped /\ past'.late = past.late
  BY DEF Types, Sends, Esc, SeesDone, NInv, NewsTyped
<1>3. CASE UNCHANGED loops
  <2>1. InTimeEnd'
    BY <1>1, <1>2, <1>3 DEF NInv, InTimeEnd, JobsReported
  <2> QED BY <1>1, <1>2, <1>3, <2>1, LoopsSame
<1>4. CASE \E n \in Lines : Sends(n)
  <2>1. PICK n \in Lines : Becomes(ui.at, [loops[ui.at] EXCEPT !.q = Append(@, n)]) /\ ui.at # 0
    BY <1>4 DEF Sends
  <2> DEFINE l == [loops[ui.at] EXCEPT !.q = Append(@, n)]
  <2>2. ui.at \in 1 .. Len(loops) /\ IsLoop(loops[ui.at])
    BY <2>1 DEF IInv, Typed, IsSeq
  <2>3. /\ l.news = loops[ui.at].news /\ l.sess = loops[ui.at].sess
        /\ l.claim = loops[ui.at].claim /\ l.pc = loops[ui.at].pc
    BY <2>2 DEF IsLoop, LoopFields
  <2> HIDE DEF l
  <2>4. /\ IsSeq(loops') /\ Len(loops') = Len(loops) /\ loops'[ui.at] = l
        /\ \A k \in 1 .. Len(loops) : k # ui.at => loops'[k] = loops[k]
    BY <2>1, <2>2, LoopSet DEF IInv, Typed, l
  <2>5. \A k \in 1 .. Len(loops) : /\ loops'[k].news = loops[k].news
                                   /\ loops'[k].claim = loops[k].claim
                                   /\ loops'[k].sess = loops[k].sess
                                   /\ loops'[k].pc = loops[k].pc
    BY <2>3, <2>4
  <2>6. InTimeEnd'
    BY <1>1, <1>2, <2>4, <2>5 DEF NInv, InTimeEnd, JobsReported
  <2>7. Len(loops') >= Len(loops)
    BY <2>4 DEF IsSeq
  <2> QED BY <1>1, <1>2, <2>4, <2>5, <2>6, <2>7, LoopsRest
<1> QED BY <1>3, <1>4 DEF Types, Esc, SeesDone, loopVars

LEMMA NewsInSwaps ==
  ASSUME IInv, NInv,
         SwapStarts \/ HistoryDown \/ HistoryUp \/ SwapAttaches
  PROVE  NInv'
<1>1. UNCHANGED <<loops, job, pending, told, past>>
  BY DEF SwapStarts, HistoryDown, HistoryUp, SwapAttaches, jobVars, loopVars
<1>2. swap'.pc \notin {"drain", "over"}
  BY DEF SwapStarts, HistoryDown, HistoryUp, SwapAttaches, IInv, Typed
<1>3. InTimeEnd'
  BY <1>2 DEF InTimeEnd
<1> QED BY <1>1, <1>3, LoopsSame

LEMMA NewsInFlags ==
  ASSUME IInv, NInv, SwapCloses \/ Quits PROVE NInv'
<1>1. Latest \in 1 .. Len(loops) /\ IsLoop(loops[Latest])
  BY DEF IInv, Typed, IsSeq, Latest
<1>2. PICK l : /\ Becomes(Latest, l) /\ l.news = loops[Latest].news /\ l.sess = loops[Latest].sess
               /\ l.claim = loops[Latest].claim /\ l.pc = loops[Latest].pc
  <2>1. CASE SwapCloses
    <3> DEFINE l == [loops[Latest] EXCEPT !.open = FALSE]
    <3>1. /\ l.news = loops[Latest].news /\ l.sess = loops[Latest].sess
          /\ l.claim = loops[Latest].claim /\ l.pc = loops[Latest].pc
      BY <1>1 DEF IsLoop, LoopFields
    <3> QED BY <2>1, <3>1 DEF SwapCloses
  <2>2. CASE Quits
    <3> DEFINE l == [loops[Latest] EXCEPT !.open = FALSE, !.gone = TRUE]
    <3>1. /\ l.news = loops[Latest].news /\ l.sess = loops[Latest].sess
          /\ l.claim = loops[Latest].claim /\ l.pc = loops[Latest].pc
      BY <1>1 DEF IsLoop, LoopFields
    <3> QED BY <2>2, <3>1 DEF Quits
  <2> QED BY <2>1, <2>2
<1>3. /\ UNCHANGED <<job, pending, told, past>> /\ swap'.pc \notin {"drain", "over"}
  BY DEF SwapCloses, Quits, jobVars, IInv, Typed
<1>4. /\ IsSeq(loops') /\ Len(loops') = Len(loops) /\ loops'[Latest] = l
      /\ \A k \in 1 .. Len(loops) : k # Latest => loops'[k] = loops[k]
  BY <1>1, <1>2, LoopSet DEF IInv, Typed
<1>5. \A k \in 1 .. Len(loops) : /\ loops'[k].news = loops[k].news
                                 /\ loops'[k].claim = loops[k].claim
                                 /\ loops'[k].sess = loops[k].sess
                                 /\ loops'[k].pc = loops[k].pc
  BY <1>2, <1>4
<1>6. InTimeEnd'
  BY <1>3 DEF InTimeEnd
<1>7. Len(loops') >= Len(loops)
  BY <1>4 DEF IsSeq
<1> QED BY <1>3, <1>4, <1>5, <1>6, <1>7, LoopsRest

LEMMA NewsInApplies == ASSUME IInv, NInv, SwapApplies PROVE NInv'
<1> DEFINE n == Len(loops)
<1>1. Latest = n /\ n \in 1 .. Len(loops) /\ IsLoop(loops[n]) /\ mounted \in Owners
  BY DEF IInv, Typed, IsSeq, Latest
<1>2. /\ UNCHANGED <<job, pending, told>> /\ swap'.pc = "attach"
      /\ DOMAIN past' = DOMAIN past /\ past'.dropped = past.dropped
  BY DEF SwapApplies, jobVars, IInv, Typed, NInv, NewsTyped
<1>3. PICK old, t : /\ loops' = Append(old, NewLoop(mounted, t))
                    /\ IsSeq(old) /\ Len(old) = n
                    /\ \A k \in 1 .. n : /\ old[k].news = loops[k].news
                                         /\ old[k].claim = loops[k].claim
                                         /\ old[k].sess = loops[k].sess
                                         /\ old[k].pc = loops[k].pc
  <2>1. CASE loops' = Append(loops, NewLoop(mounted, loops[n].t))
    BY <2>1 DEF IInv, Typed
  <2>2. CASE loops' = Append([loops EXCEPT ![n] = [@ EXCEPT !.muted = TRUE]],
                             NewLoop(mounted, Len(turns) + 1))
    <3> DEFINE l == [loops[n] EXCEPT !.muted = TRUE]
               old == [loops EXCEPT ![n] = l]
    <3>1. /\ l.news = loops[n].news /\ l.sess = loops[n].sess
          /\ l.claim = loops[n].claim /\ l.pc = loops[n].pc
      BY <1>1 DEF IsLoop, LoopFields
    <3>2. loops' = Append(old, NewLoop(mounted, Len(turns) + 1))
      BY <2>2
    <3> HIDE DEF l
    <3>3. /\ IsSeq(old) /\ Len(old) = n /\ old[n] = l
          /\ \A k \in 1 .. n : k # n => old[k] = loops[k]
      <4>1. IsSeq(loops) /\ n \in 1 .. Len(loops)
        BY <1>1 DEF IInv, Typed
      <4> QED BY <4>1, SeqSet
    <3> HIDE DEF old
    <3> QED BY <3>1, <3>2, <3>3
  <2> QED BY <1>1, <2>1, <2>2 DEF SwapApplies
<1> DEFINE new == NewLoop(mounted, t)
<1>4. new.news = <<>> /\ new.claim = 0 /\ new.sess \in Owners
  BY <1>1 DEF NewLoop
<1> HIDE DEF new
<1>6. /\ IsSeq(loops') /\ Len(loops') = n + 1 /\ loops'[n + 1] = new
      /\ \A k \in 1 .. n : loops'[k] = old[k]
  BY <1>3, SeqAppend DEF new
<1>7. \A k \in 1 .. Len(loops) : /\ loops'[k].news = loops[k].news
                                 /\ loops'[k].claim = loops[k].claim
                                 /\ loops'[k].sess = loops[k].sess
                                 /\ loops'[k].pc = loops[k].pc
  BY <1>3, <1>6
<1>8. \A k \in 1 .. Len(loops') : k \notin 1 .. Len(loops) =>
        loops'[k].news = <<>> /\ loops'[k].claim = 0 /\ loops'[k].sess \in Owners
  <2>1. \A k \in 1 .. n + 1 : k \notin 1 .. n => k = n + 1
    BY <1>1
  <2> QED BY <1>4, <1>6, <2>1
<1>9. InTimeEnd'
  BY <1>2 DEF InTimeEnd
<1>10. Len(loops') >= Len(loops)
  BY <1>1, <1>6
<1> QED BY <1>2, <1>6, <1>7, <1>8, <1>9, <1>10, LoopsRest

LEMMA NewsInQuitStops == ASSUME IInv, NInv, QuitStops PROVE NInv'
<1> DEFINE r(j) == IF job[j].st = "up" THEN [job[j] EXCEPT !.st = "out"] ELSE job[j]
<1>1. /\ job' = [j \in JobIds |-> r(j)] /\ UNCHANGED <<loops, pending, told>>
      /\ swap.pc = "wait" /\ swap'.pc = "drain"
  BY DEF QuitStops, loopVars, IInv, Typed
<1>2. /\ DOMAIN past' = DOMAIN past /\ past'.dropped = past.dropped
      /\ ~past'.late => loops[Latest].pc = "stopped"
  BY DEF QuitStops, InTime, TimesOut, NInv, NewsTyped
<1>3. \A j \in JobIds :
        /\ IsJob(r(j)) /\ (r(j).st = "none" <=> job[j].st = "none")
        /\ (r(j).st = "done" <=> job[j].st = "done")
        /\ r(j).match = job[j].match /\ r(j).waiter = job[j].waiter /\ r(j).tell = job[j].tell
        /\ r(j).claimed = job[j].claimed /\ r(j).late = job[j].late
        /\ r(j).answered = job[j].answered
  BY DEF NInv, NewsTyped, IsJob, JobFields
<1>4. \A j \in JobIds : job'[j] = r(j)
  BY <1>1
<1> HIDE DEF r
<1>5. OnePlace' /\ \A n : Known(n)' <=> Known(n)
  <2>1. IsSeq(loops)
    BY DEF IInv, Typed
  <2> QED BY <1>1, <1>2, <2>1, NewsStay DEF NInv, IsSeq
<1>6. \A j : Holds(j)' <=> Holds(j)
  BY <1>1 DEF Holds
<1>7. \A j \in JobIds : JobSays(j)'
  BY <1>3, <1>4, <1>5, <1>6 DEF NInv, JobSays
<1>8. NewsTyped'
  BY <1>1, <1>2, <1>3, <1>4 DEF NInv, NewsTyped
<1>9. HandsOpen'
  BY <1>1 DEF NInv, HandsOpen
<1>10. InTimeEnd'
  <2>1. loops[Latest].pc = "stopped" => \A i \in 1 .. Len(loops) : loops[i].pc = "stopped"
    BY DEF IInv, MountsInOrder, Typed, IsSeq, Latest
  <2> QED BY <1>1, <1>2, <2>1 DEF InTimeEnd
<1> QED BY <1>5, <1>7, <1>8, <1>9, <1>10 DEF NInv

LEMMA NewsInQuitRecords == ASSUME IInv, NInv, QuitRecords PROVE NInv'
<1>1. /\ pending' = Left(mounted) /\ SessionNote(Latest, Taken(mounted))
      /\ UNCHANGED <<mounted, loops, job>> /\ swap.pc = "drain" /\ swap'.pc = "over"
  BY DEF QuitRecords, loopVars, IInv, Typed
<1>2. /\ DOMAIN past' = DOMAIN past /\ past'.dropped = past.dropped
      /\ ~past'.late => ~past.late /\ JobsReported
  BY DEF QuitRecords, InTime, TimesOut, NInv, NewsTyped
<1>3. /\ mounted \in Owners /\ IsSeq(loops) /\ loops[Latest].sess \in Owners
  BY DEF IInv, Typed, NInv, NewsTyped, Latest, IsSeq
<1>4. /\ pending' \in [Owners -> Seq(Notices)] /\ pending'[mounted] = <<>>
      /\ told' \in Seq(Filing) /\ OnePlace'
      /\ \A n \in Notices : Known(n)' <=> Known(n)
  <2>1. OnePlace /\ pending \in [Owners -> Seq(Notices)] /\ told \in Seq(Filing)
    BY DEF NInv, NewsTyped
  <2>2. told' = told \o [k \in DOMAIN Taken(mounted) |->
                          [notice |-> Taken(mounted)[k], sess |-> loops[Latest].sess]]
    BY <1>1 DEF SessionNote
  <2> QED BY <1>1, <1>2, <1>3, <2>1, <2>2, NewsFiled
<1>5. \A j \in JobIds : JobSays(j)'
  <2>1. \A j : Holds(j)' <=> Holds(j)
    BY <1>1 DEF Holds
  <2> QED BY <1>1, <1>4, <2>1, SaysStay DEF NInv
<1>6. NewsTyped' /\ HandsOpen'
  BY <1>1, <1>2, <1>4 DEF NInv, NewsTyped, HandsOpen
<1>7. InTimeEnd'
  <2>1. JobsReported' <=> JobsReported
    BY <1>1 DEF JobsReported
  <2> QED BY <1>1, <1>2, <1>4, <2>1 DEF NInv, InTimeEnd
<1> QED BY <1>4, <1>5, <1>6, <1>7 DEF NInv

----------------------------------------------------------------------------
LEMMA NewsStepKeeps == IInv /\ NInv /\ [Next]_vars => NInv'
<1> SUFFICES ASSUME IInv, NInv, [Next]_vars PROVE NInv'
  OBVIOUS
<1>1. ASSUME NEW i \in DOMAIN loops, LoopStep(i) PROVE NInv'
  <2>1. i \in 1 .. Len(loops)
    BY DEF IInv, Typed, IsSeq
  <2> QED BY <1>1, <2>1, NewsInSmallSteps, NewsInWakeTakes, NewsInLandJobs, NewsInAdmit,
             NewsInCodeStarts, NewsInClaims DEF LoopStep
<1>2. ASSUME SwapStep PROVE NInv'
  BY <1>2, NewsInSwaps, NewsInFlags, NewsInApplies, NewsInQuitStops, NewsInQuitRecords
     DEF SwapStep
<1>3. CASE UNCHANGED vars
  <2>1. UNCHANGED <<loops, job, pending, told, past, swap, mounted>>
    BY <1>3 DEF vars, jobVars, loopVars
  <2>2. InTimeEnd'
    BY <2>1 DEF NInv, InTimeEnd, JobsReported
  <2> QED BY <2>1, <2>2, LoopsSame
<1> QED BY <1>1, <1>2, <1>3, NewsInJobSteps, NewsInTerminal, NewsInSwaps, NewsInFlags
        DEF Next, Runs

LEMMA NewsInitHolds == Init => NInv
<1> SUFFICES ASSUME Init PROVE NInv
  OBVIOUS
<1> DEFINE l == [NewLoop(mounted, 1) EXCEPT !.pc = "idle"]
<1>1. mounted \in Owners
  BY SomeSession DEF Init, JobsInit, Owners
<1>2. l.news = <<>> /\ l.claim = 0 /\ l.sess \in Owners
  BY <1>1 DEF NewLoop
<1>3. Len(loops) = 1 /\ loops[1] = l
  BY DEF Init
<1> HIDE DEF l
<1>4. /\ job = [j \in JobIds |-> NoJob] /\ pending = [s \in Owners |-> <<>>]
      /\ told = <<>> /\ past = [dropped |-> {}, aim |-> {}, misfired |-> FALSE, late |-> FALSE]
      /\ swap.pc = "none"
  BY DEF Init, JobsInit
<1>5. IsJob(NoJob)
  BY DEF IsJob, NoJob, JobFields, Owners
<1>6. NewsTyped
  <2>1. <<>> \in Seq(Notices) /\ <<>> \in Seq(Filing)
    OBVIOUS
  <2>2. pending \in [Owners -> Seq(Notices)]
    BY <1>4, <2>1
  <2>3. DOMAIN job = JobIds /\ \A j \in JobIds : IsJob(job[j])
    BY <1>4, <1>5
  <2>4. told \in Seq(Filing) /\ DOMAIN past = {"dropped", "aim", "misfired", "late"}
    BY <1>4, <2>1
  <2>5. \A i \in 1 .. Len(loops) : /\ loops[i].news \in Seq(Notices) /\ loops[i].sess \in Owners
                                   /\ loops[i].claim \in JobIds \cup {0}
    <3>1. \A i \in 1 .. Len(loops) : loops[i] = l
      BY <1>3
    <3>2. l.news \in Seq(Notices) /\ l.claim \in JobIds \cup {0}
      BY <1>2, <2>1
    <3> QED BY <1>2, <3>1, <3>2
  <2> QED BY <2>2, <2>3, <2>4, <2>5 DEF NewsTyped
<1>7. HandsOpen
  BY <1>2, <1>3 DEF HandsOpen
<1>8. \A n : ~Queues(n) /\ ~Hands(n) /\ ~Filed(n) /\ ~Known(n)
  <2>1. \A n : ~Queues(n)
    BY <1>4, Nothing DEF Queues
  <2>2. \A n : ~Hands(n)
    BY <1>2, <1>3, Nothing DEF Hands
  <2>3. \A n : ~Filed(n)
    BY <1>4 DEF Filed
  <2> QED BY <1>4, <2>1, <2>2, <2>3 DEF Known
<1>9. OnePlace
  BY <1>2, <1>3, <1>4, <1>8, Nothing DEF OnePlace, Queues
<1>10. \A j \in JobIds : JobSays(j)
  <2>1. \A j \in JobIds : ~Holds(j)
    BY <1>2, <1>3, JobsBound DEF Holds, JobIds
  <2> QED BY <1>4, <1>8, <2>1 DEF JobSays, NoJob
<1>11. InTimeEnd
  BY <1>4 DEF InTimeEnd
<1> QED BY <1>6, <1>7, <1>9, <1>10, <1>11 DEF NInv

(* Sets of at most one place, of which at most one has any.                *)
LEMMA AtMostOne ==
  ASSUME NEW S, \A x, y \in S : x = y
  PROVE  Cardinality(S) \in {0, 1} /\ (S = {} => Cardinality(S) = 0)
<1>1. CASE S = {}
  BY <1>1, FS_EmptySet
<1>2. ASSUME NEW x \in S PROVE Cardinality(S) = 1
  <2>1. S = {x}
    OBVIOUS
  <2> QED BY <2>1, FS_Singleton
<1> QED BY <1>1, <1>2

LEMMA ToldOnce ==
  ASSUME IInv, NInv, NEW n \in Notices
  PROVE  ToldAtMostOnce(n) /\ (Reaches(n) <=> Known(n))
<1>1. pending \in [Owners -> Seq(Notices)] /\ told \in Seq(Filing)
  BY DEF NInv, NewsTyped
<1>2. \A x \in InQueue(n) : \E s \in Owners : \E k \in 1 .. Len(pending[s]) :
        x = <<s, k>> /\ pending[s][k] = n
  BY <1>1 DEF InQueue, At
<1>3. \A x \in InHand(n) : \E i \in 1 .. Len(loops) : \E k \in 1 .. Len(loops[i].news) :
        x = <<i, k>> /\ loops[i].news[k] = n
  BY DEF InHand, At, IInv, Typed, IsSeq, NInv, NewsTyped
<1>4. \A k : k \in InFile(n) <=> k \in 1 .. Len(told) /\ told[k].notice = n
  BY <1>1 DEF InFile
<1>5. Queues(n) <=> InQueue(n) # {}
  <2>1. InQueue(n) # {} => Queues(n)
    BY <1>2 DEF Queues, Lies
  <2>2. ASSUME Queues(n) PROVE InQueue(n) # {}
    <3>0. PICK s \in Owners : Lies(pending[s], n)
      BY <2>2 DEF Queues
    <3>1. PICK k \in 1 .. Len(pending[s]) : pending[s][k] = n
      BY <3>0 DEF Lies
    <3>2. k \in At(pending[s], n)
      BY <1>1, <3>1 DEF At
    <3>3. <<s, k>> \in InQueue(n)
      BY <3>2 DEF InQueue
    <3> QED BY <3>3
  <2> QED BY <2>1, <2>2
<1>6. Hands(n) <=> InHand(n) # {}
  <2>1. InHand(n) # {} => Hands(n)
    BY <1>3 DEF Hands, Lies
  <2>2. ASSUME Hands(n) PROVE InHand(n) # {}
    <3>0. PICK i \in 1 .. Len(loops) : Lies(loops[i].news, n)
      BY <2>2 DEF Hands
    <3>1. PICK k \in 1 .. Len(loops[i].news) : loops[i].news[k] = n
      BY <3>0 DEF Lies
    <3>2. k \in At(loops[i].news, n) /\ i \in DOMAIN loops
      BY <3>1 DEF At, IInv, Typed, IsSeq, NInv, NewsTyped
    <3>3. <<i, k>> \in InHand(n)
      BY <3>2 DEF InHand
    <3> QED BY <3>3
  <2> QED BY <2>1, <2>2
<1>7. Filed(n) <=> InFile(n) # {}
  BY <1>4 DEF Filed
<1>8. \A x, y \in InQueue(n) : x = y
  <2> SUFFICES ASSUME NEW x \in InQueue(n), NEW y \in InQueue(n) PROVE x = y
    OBVIOUS
  <2>1. PICK s \in Owners : \E k \in 1 .. Len(pending[s]) : x = <<s, k>> /\ pending[s][k] = n
    BY <1>2
  <2>2. PICK r \in Owners : \E m \in 1 .. Len(pending[r]) : y = <<r, m>> /\ pending[r][m] = n
    BY <1>2
  <2>3. PICK k \in 1 .. Len(pending[s]) : x = <<s, k>> /\ pending[s][k] = n
    BY <2>1
  <2>4. PICK m \in 1 .. Len(pending[r]) : y = <<r, m>> /\ pending[r][m] = n
    BY <2>2
  <2>5. s = r
    BY <2>3, <2>4 DEF NInv, OnePlace, Lies
  <2>6. k = m
    BY <2>3, <2>4, <2>5 DEF NInv, OnePlace, NoRepeats
  <2> QED BY <2>3, <2>4, <2>5, <2>6
<1>9. \A x, y \in InHand(n) : x = y
  <2> SUFFICES ASSUME NEW x \in InHand(n), NEW y \in InHand(n) PROVE x = y
    OBVIOUS
  <2>1. PICK i \in 1 .. Len(loops) : \E k \in 1 .. Len(loops[i].news) :
          x = <<i, k>> /\ loops[i].news[k] = n
    BY <1>3
  <2>2. PICK j \in 1 .. Len(loops) : \E m \in 1 .. Len(loops[j].news) :
          y = <<j, m>> /\ loops[j].news[m] = n
    BY <1>3
  <2>3. loops[i].news # <<>> /\ loops[j].news # <<>>
    BY <2>1, <2>2
  <2>4. i = j
    BY <2>3, Alone DEF IInv, NInv, HandsOpen
  <2>5. NoRepeats(loops[i].news)
    BY DEF NInv, OnePlace
  <2> QED BY <2>1, <2>2, <2>4, <2>5 DEF NoRepeats
<1>10. \A x, y \in InFile(n) : x = y
  BY <1>4 DEF NInv, OnePlace
<1>11. /\ ~(Queues(n) /\ Hands(n)) /\ ~(Queues(n) /\ Filed(n)) /\ ~(Hands(n) /\ Filed(n))
  BY DEF NInv, OnePlace
<1>12. /\ Cardinality(InQueue(n)) \in {0, 1} /\ (~Queues(n) => Cardinality(InQueue(n)) = 0)
       /\ Cardinality(InHand(n)) \in {0, 1} /\ (~Hands(n) => Cardinality(InHand(n)) = 0)
       /\ Cardinality(InFile(n)) \in {0, 1} /\ (~Filed(n) => Cardinality(InFile(n)) = 0)
  BY <1>5, <1>6, <1>7, <1>8, <1>9, <1>10, AtMostOne
<1>13. ToldAtMostOnce(n)
  BY <1>11, <1>12 DEF ToldAtMostOnce
<1> QED BY <1>5, <1>6, <1>7, <1>13 DEF Reaches, Known

THEOREM NewsInvariant == Spec => []NInv
BY InitHolds, StepKeeps, NewsInitHolds, NewsStepKeeps, PTL DEF Spec

(* The end of a job is told once: a notice is in one queue, in the hands   *)
(* of the one turn it opens or in the session file, and there once; a job  *)
(* whose output a claim got sends none; one that is over was answered for, *)
(* told of or left by a claim (jobs.go:19-24, 719-721); and nothing waits  *)
(* in the mounted session's queue when the process ended in time.          *)
THEOREM FinishIsToldOnce == Spec => []FinishToldOnce
<1>1. IInv /\ NInv => FinishToldOnce
  <2> SUFFICES ASSUME IInv, NInv PROVE FinishToldOnce
    OBVIOUS
  <2>1. \A n \in Notices : ToldAtMostOnce(n) /\ (Reaches(n) <=> Known(n))
    BY ToldOnce
  <2>2. ASSUME NEW j \in JobIds
        PROVE  /\ job[j].answered => ~Reaches(Notice(j, "finish"))
               /\ job[j].waiter = "over" =>
                    job[j].answered \/ job[j].late \/ Claiming(j) \/ Reaches(Notice(j, "finish"))
    <3>1. Notice(j, "finish") \in Notices
      BY DEF Notice, Notices
    <3>2. Claiming(j) <=> Holds(j)
      BY DEF Claiming, Holds, IInv, Typed, IsSeq
    <3>3. JobSays(j) /\ IsJob(job[j])
      BY DEF NInv, NewsTyped
    <3> QED BY <2>1, <3>1, <3>2, <3>3 DEF JobSays, IsJob
  <2>3. swap.pc = "over" /\ ~past.late => ~Waiting(mounted)
    BY DEF NInv, InTimeEnd, Waiting
  <2> QED BY <2>1, <2>2, <2>3 DEF FinishToldOnce
<1> QED BY <1>1, Invariant, NewsInvariant, PTL

(***************************************************************************)
(* Whose cancel it is: the turns value of the latest mount is the one the  *)
(* terminal cancels, the ones before it belong to sessions left.           *)
(***************************************************************************)
Now == loops[Latest].t
Keeps(i, n) ==
  \/ \E k \in 1 .. Len(loops[i].q) : loops[i].q[k] = n
  \/ Prompt(i) /\ loops[i].cur = n
Toward(n) ==
  n \in sending \/ \E i \in 1 .. Len(loops) : loops[i].t = Now /\ Keeps(i, n)

\* A line sent is on its way or with a mount that has not recorded it.
SentKept ==
  \A n \in Lines : fate[n] = "sent" => n \in sending \/ \E i \in 1 .. Len(loops) : Keeps(i, n)

TurnsInOrder == \A i, k \in 1 .. Len(loops) : i < k => loops[i].t <= loops[k].t

\* What the terminal is attached to, and when the row's queue is open.
Attached ==
  /\ ui.at # 0 => swap.pc = "none" /\ ui.at = Latest
  /\ swap.pc \in {"none", "close", "attach"} => loops[Latest].open
  /\ swap.pc = "none" => swap.to = NoSession
  /\ swap.pc \in {"down", "up"} => swap.to # NoSession
  /\ swap.to = NoSession => ui.t = Now
  /\ swap.pc \notin {"down", "up", "apply"} \/ swap.to = NoSession => loops[Latest].sess = mounted
  /\ ui.queued \in Nat /\ (ui.queued > 0 => ui.running)

\* A mount that has stopped was closed and has nothing, or the process ends.
StoppedEmpty ==
  \A i \in 1 .. Len(loops) :
    /\ loops[i].gone => swap.pc \in {"wait", "drain", "over"}
    /\ loops[i].pc = "stopped" => loops[i].gone \/ (~loops[i].open /\ loops[i].q = <<>>)

\* A cancel that waits is for what the mounts of its turns value hold.
PendingAimed ==
  /\ \A t \in 1 .. Len(turns) : turns[t].pending => ~turns[t].installed /\ Wakes \in past.aim
  /\ \A i \in 1 .. Len(loops) : loops[i].t # Now /\ Turn(i).pending =>
       \A n \in Lines : Keeps(i, n) => n \in past.aim
  /\ turns[Now].pending =>
       \/ Lines \subseteq past.aim
       \/ \E n \in Lines \cap past.aim : fate[n] = "sent" /\ Toward(n)
       \/ \E i \in 1 .. Len(loops) :
            loops[i].t = Now /\ loops[i].pc = "begin" /\ loops[i].cur \in past.aim

\* While a session left still has a mount, a turn that runs has its line.
RunningHasLine ==
  swap.to = NoSession /\ ui.running
    /\ (\E i \in 1 .. Len(loops) : loops[i].t # Now /\ loops[i].pc # "stopped")
  => \E n \in Lines : fate[n] = "sent" /\ Toward(n)

AInv == /\ SentKept /\ TurnsInOrder /\ Attached /\ StoppedEmpty /\ PendingAimed
        /\ RunningHasLine /\ ~past.misfired

----------------------------------------------------------------------------
(* A goroutine goes on, keeps what it had, and cancels nothing.            *)

AsSent == \A n \in Lines : fate'[n] = "sent" <=> fate[n] = "sent"
CancelsStay ==
  /\ Len(turns') = Len(turns)
  /\ \A t \in 1 .. Len(turns) : /\ turns'[t].pending <=> turns[t].pending
                                /\ turns'[t].installed => turns[t].installed

Calmly(i, l) ==
  /\ Becomes(i, l) /\ loops[i].pc \notin {"stopped", "begin"}
  /\ l.t = loops[i].t /\ l.sess = loops[i].sess /\ l.open = loops[i].open
  /\ l.gone = loops[i].gone
  /\ l.pc = "stopped" => l.gone \/ (~l.open /\ l.q = <<>>)
  /\ \A n \in Lines : Keeps(i, n)' <=> Keeps(i, n)
  /\ AsSent /\ CancelsStay
  /\ UNCHANGED <<sending, mounted, swap, ui>>
  /\ past'.aim = past.aim /\ past'.misfired = past.misfired

LEMMA CalmlyKept ==
  ASSUME IInv, AInv, NEW i \in 1 .. Len(loops), NEW l, Calmly(i, l) PROVE AInv'
<1>1. /\ IsSeq(loops) /\ IsSeq(loops') /\ Len(loops') = Len(loops) /\ loops'[i] = l
      /\ \A k \in 1 .. Len(loops) : k # i => loops'[k] = loops[k]
  BY LoopSet DEF Calmly, IInv, Typed
<1>2. \A k \in 1 .. Len(loops) : /\ loops'[k].t = loops[k].t /\ loops'[k].sess = loops[k].sess
                                 /\ loops'[k].open = loops[k].open
                                 /\ loops'[k].gone = loops[k].gone
  BY <1>1 DEF Calmly
<1>3. /\ Latest \in 1 .. Len(loops) /\ Latest' = Latest /\ Now' = Now
      /\ Now \in 1 .. Len(turns)
  BY <1>1, <1>2 DEF Latest, Now, IInv, Typed, IsSeq
<1>4. \A k \in 1 .. Len(loops) : \A n \in Lines : Keeps(k, n)' <=> Keeps(k, n)
  <2>1. ASSUME NEW k \in 1 .. Len(loops), NEW n \in Lines, k # i
        PROVE  Keeps(k, n)' <=> Keeps(k, n)
    BY <1>1, <2>1 DEF Keeps, Prompt
  <2> QED BY <2>1 DEF Calmly
<1>5. \A n \in Lines : Toward(n)' <=> Toward(n)
  BY <1>1, <1>2, <1>3, <1>4 DEF Toward, Calmly
<1>6. SentKept'
  BY <1>1, <1>4 DEF AInv, SentKept, Calmly, AsSent
<1>7. TurnsInOrder'
  BY <1>1, <1>2 DEF AInv, TurnsInOrder
<1>8. Attached'
  BY <1>2, <1>3 DEF AInv, Attached, Calmly
<1>9. StoppedEmpty'
  BY <1>1, <1>2 DEF AInv, StoppedEmpty, Calmly
<1>10. PendingAimed'
  <2>1. \A t \in 1 .. Len(turns') : turns'[t].pending => ~turns'[t].installed /\ Wakes \in past'.aim
    BY DEF AInv, PendingAimed, Calmly, CancelsStay
  <2>2. \A k \in 1 .. Len(loops) : Turn(k)'.pending <=> Turn(k).pending
    BY <1>2 DEF Turn, Calmly, CancelsStay, IInv, Typed
  <2>3. ASSUME NEW k \in 1 .. Len(loops), loops'[k].t # Now', Turn(k)'.pending,
               NEW n \in Lines, Keeps(k, n)'
        PROVE  n \in past'.aim
    BY <1>2, <1>3, <1>4, <2>2, <2>3 DEF AInv, PendingAimed, Calmly
  <2>4. turns'[Now'].pending =>
          \/ Lines \subseteq past'.aim
          \/ \E n \in Lines \cap past'.aim : fate'[n] = "sent" /\ Toward(n)'
          \/ \E k \in 1 .. Len(loops) :
               loops'[k].t = Now' /\ loops'[k].pc = "begin" /\ loops'[k].cur \in past'.aim
    <3>1. SUFFICES ASSUME turns[Now].pending
                   PROVE  \/ Lines \subseteq past'.aim
                          \/ \E n \in Lines \cap past'.aim : fate'[n] = "sent" /\ Toward(n)'
                          \/ \E k \in 1 .. Len(loops) :
                               loops'[k].t = Now' /\ loops'[k].pc = "begin"
                                 /\ loops'[k].cur \in past'.aim
      BY <1>3 DEF Calmly, CancelsStay
    <3>2. CASE Lines \subseteq past.aim
      BY <3>2 DEF Calmly
    <3>3. CASE \E n \in Lines \cap past.aim : fate[n] = "sent" /\ Toward(n)
      BY <1>5, <3>3 DEF Calmly, AsSent
    <3>4. ASSUME NEW k \in 1 .. Len(loops), loops[k].t = Now, loops[k].pc = "begin",
                 loops[k].cur \in past.aim
          PROVE  loops'[k].t = Now' /\ loops'[k].pc = "begin" /\ loops'[k].cur \in past'.aim
      BY <1>1, <1>2, <1>3, <3>4 DEF Calmly
    <3> QED BY <3>1, <3>2, <3>3, <3>4 DEF AInv, PendingAimed
  <2> QED BY <1>1, <2>1, <2>3, <2>4 DEF PendingAimed
<1>11. RunningHasLine'
  <2>1. ASSUME NEW k \in 1 .. Len(loops), loops'[k].t # Now', loops'[k].pc # "stopped"
        PROVE  loops[k].t # Now /\ loops[k].pc # "stopped"
    BY <1>1, <1>2, <1>3, <2>1 DEF Calmly
  <2> QED BY <1>1, <1>5, <2>1 DEF AInv, RunningHasLine, Calmly, AsSent
<1> QED BY <1>6, <1>7, <1>8, <1>9, <1>10, <1>11 DEF AInv, Calmly

(* What is not a prompt before and after, and leaves the queue alone.      *)
LEMMA KeepsAll ==
  ASSUME Typed, NEW i \in 1 .. Len(loops), NEW l, Becomes(i, l), l.q = loops[i].q,
         loops[i].pc \notin {"begin", "admit"},
         l.pc \notin {"begin", "admit"} \/ l.cur = Wakes
  PROVE  \A n \in Lines : Keeps(i, n)' <=> Keeps(i, n)
<1>1. loops'[i] = l
  BY LoopSet DEF Typed
<1> QED BY <1>1 DEF Keeps, Prompt

LEMMA SteersLand ==
  ASSUME IInv, NEW i \in 1 .. Len(loops), NEW final \in BOOLEAN, NEW landed,
         LandSteers(i, final, landed)
  PROVE  AsSent /\ CancelsStay
<1>1. /\ loops[i].t \in 1 .. Len(turns) /\ IsTurn(Turn(i)) /\ Turn(i) = turns[loops[i].t]
      /\ IsSeq(turns)
  BY DEF IInv, Typed, Turn
<1>2. \A n \in Range(Turn(i).steers) : n \in Lines /\ fate[n] = "steers"
  BY <1>1 DEF IInv, Typed, IsTurn, PlacedOnce, SteersOnce, Range
<1>3. AsSent
  <2>1. CASE Recorded(Range(Turn(i).steers))
    BY <1>2, <2>1 DEF AsSent, Recorded, IInv, Typed
  <2>2. ASSUME NEW out \in SUBSET Range(Turn(i).steers),
               fate' = [n \in Lines |-> IF n \in out THEN "blocked"
                          ELSE IF n \in Range(Turn(i).steers) THEN "recorded" ELSE fate[n]]
        PROVE  AsSent
    BY <1>2, <2>2 DEF AsSent, IInv, Typed
  <2> QED BY <2>1, <2>2 DEF LandSteers
<1>4. CancelsStay
  <2> DEFINE r == [Turn(i) EXCEPT !.steers = <<>>, !.gate = ~final]
  <2>1. r.pending = Turn(i).pending /\ r.installed = Turn(i).installed
    BY <1>1 DEF IsTurn, TurnFields
  <2>2. TurnBecomes(loops[i].t, r)
    BY DEF LandSteers, TakesSteers
  <2> HIDE DEF r
  <2>3. /\ Len(turns') = Len(turns) /\ turns'[loops[i].t] = r
        /\ \A u \in 1 .. Len(turns) : u # loops[i].t => turns'[u] = turns[u]
    BY <1>1, <2>2, TurnSet
  <2> QED BY <1>1, <2>1, <2>3 DEF CancelsStay
<1> QED BY <1>3, <1>4

LEMMA NothingSent ==
  ASSUME UNCHANGED <<turns, fate>> PROVE AsSent /\ CancelsStay
BY DEF AsSent, CancelsStay

(* A step that moves the goroutine, its queue and its prompt being alone.  *)
LEMMA CalmGoes ==
  ASSUME IInv, AInv, NEW i \in 1 .. Len(loops), NEW l, Becomes(i, l),
         loops[i].pc \notin {"stopped", "begin", "admit"},
         l.pc \notin {"stopped", "begin", "admit"},
         l.t = loops[i].t, l.sess = loops[i].sess, l.open = loops[i].open,
         l.gone = loops[i].gone, l.q = loops[i].q,
         AsSent, CancelsStay, UNCHANGED <<sending, mounted, swap, ui, past>>
  PROVE  AInv'
<1>1. \A n \in Lines : Keeps(i, n)' <=> Keeps(i, n)
  BY KeepsAll DEF IInv
<1>2. Calmly(i, l)
  BY <1>1 DEF Calmly
<1> QED BY <1>2, CalmlyKept

LEMMA CalmPc ==
  ASSUME IInv, AInv, NEW i \in 1 .. Len(loops),
         NEW pc \in Pcs \ {"stopped", "begin", "admit"}, Goes(i, pc),
         loops[i].pc \notin {"stopped", "begin", "admit"},
         AsSent, CancelsStay, UNCHANGED <<sending, mounted, swap, ui, past>>
  PROVE  AInv'
<1> DEFINE l == [loops[i] EXCEPT !.pc = pc]
<1>1. IsLoop(loops[i])
  BY DEF IInv, Typed
<1>2. /\ l.pc = pc /\ l.t = loops[i].t /\ l.sess = loops[i].sess /\ l.open = loops[i].open
      /\ l.gone = loops[i].gone /\ l.q = loops[i].q
  BY <1>1 DEF IsLoop, LoopFields
<1>3. Becomes(i, l)
  BY DEF Goes
<1> HIDE DEF l
<1> QED BY <1>2, <1>3, CalmGoes

LEMMA CalmNextStep ==
  ASSUME IInv, AInv, NEW i \in 1 .. Len(loops),
         loops[i].pc \notin {"stopped", "begin", "admit"},
         Becomes(i, NextStep(i)) \/ Becomes(i, [NextStep(i) EXCEPT !.nudges = @ + 1]),
         AsSent, CancelsStay, UNCHANGED <<sending, mounted, swap, ui, past>>
  PROVE  AInv'
<1>1. IsLoop(loops[i])
  BY DEF IInv, Typed
<1>2. \E l : /\ Becomes(i, l) /\ l.pc = "step" /\ l.t = loops[i].t /\ l.sess = loops[i].sess
             /\ l.open = loops[i].open /\ l.gone = loops[i].gone /\ l.q = loops[i].q
  <2> DEFINE l == NextStep(i)
             r == [l EXCEPT !.nudges = @ + 1]
  <2>1. /\ l.pc = "step" /\ l.t = loops[i].t /\ l.sess = loops[i].sess
        /\ l.open = loops[i].open /\ l.gone = loops[i].gone /\ l.q = loops[i].q
        /\ DOMAIN l = LoopFields
    BY <1>1 DEF IsLoop, LoopFields, NextStep
  <2>2. /\ r.pc = "step" /\ r.t = loops[i].t /\ r.sess = loops[i].sess
        /\ r.open = loops[i].open /\ r.gone = loops[i].gone /\ r.q = loops[i].q
    BY <2>1 DEF LoopFields
  <2> QED BY <2>1, <2>2
<1> QED BY <1>2, CalmGoes

(* The loops stay, and what was sent and cancelled.                        *)
LEMMA AimStill ==
  ASSUME IInv, AInv, UNCHANGED <<loops, sending>>, AsSent, CancelsStay,
         past'.aim = past.aim, past'.misfired = past.misfired,
         Attached', RunningHasLine',
         \A i \in 1 .. Len(loops) :
           loops[i].gone => swap'.pc \in {"wait", "drain", "over"}
  PROVE  AInv'
<1>1. \A i : \A n : Keeps(i, n)' <=> Keeps(i, n)
  BY DEF Keeps, Prompt
<1>2. \A n : Toward(n)' <=> Toward(n)
  BY <1>1 DEF Toward, Now, Latest
<1>3. SentKept' /\ TurnsInOrder' /\ StoppedEmpty'
  BY <1>1 DEF AInv, SentKept, TurnsInOrder, StoppedEmpty, AsSent
<1>4. Now' = Now /\ Now \in 1 .. Len(turns)
  BY DEF Now, Latest, IInv, Typed, IsSeq
<1>5. PendingAimed'
  <2>1. \A t \in 1 .. Len(turns') : turns'[t].pending => ~turns'[t].installed /\ Wakes \in past'.aim
    BY DEF AInv, PendingAimed, CancelsStay
  <2>2. \A k \in 1 .. Len(loops) : Turn(k)'.pending <=> Turn(k).pending
    BY DEF Turn, CancelsStay, IInv, Typed
  <2>3. ASSUME NEW k \in 1 .. Len(loops), loops'[k].t # Now', Turn(k)'.pending,
               NEW n \in Lines, Keeps(k, n)'
        PROVE  n \in past'.aim
    BY <1>1, <1>4, <2>2, <2>3 DEF AInv, PendingAimed
  <2>4. turns'[Now'].pending =>
          \/ Lines \subseteq past'.aim
          \/ \E n \in Lines \cap past'.aim : fate'[n] = "sent" /\ Toward(n)'
          \/ \E k \in 1 .. Len(loops) :
               loops'[k].t = Now' /\ loops'[k].pc = "begin" /\ loops'[k].cur \in past'.aim
    <3>1. SUFFICES ASSUME turns[Now].pending
                   PROVE  \/ Lines \subseteq past.aim
                          \/ \E n \in Lines \cap past.aim : fate[n] = "sent" /\ Toward(n)
                          \/ \E k \in 1 .. Len(loops) :
                               loops[k].t = Now /\ loops[k].pc = "begin"
                                 /\ loops[k].cur \in past.aim
      BY <1>2, <1>4 DEF CancelsStay, AsSent
    <3> QED BY <3>1 DEF AInv, PendingAimed
  <2> QED BY <2>1, <2>3, <2>4 DEF PendingAimed
<1> QED BY <1>3, <1>5 DEF AInv

LEMMA AimSame ==
  ASSUME IInv, AInv, UNCHANGED <<loops, turns, fate, sending, ui, swap, mounted>>,
         past'.aim = past.aim, past'.misfired = past.misfired
  PROVE  AInv'
<1>1. Attached' /\ RunningHasLine'
  BY DEF AInv, Attached, RunningHasLine, Keeps, Prompt, Toward, Now, Latest
<1>2. \A i \in 1 .. Len(loops) : loops[i].gone => swap'.pc \in {"wait", "drain", "over"}
  BY DEF AInv, StoppedEmpty
<1> QED BY <1>1, <1>2, AimStill, NothingSent

----------------------------------------------------------------------------
(* The steps of a goroutine.                                               *)

LEMMA AimInSmallSteps ==
  ASSUME IInv, AInv, NEW i \in 1 .. Len(loops),
         \/ Mounts(i) \/ TakesWake(i) \/ Step(i) \/ LandJobs(i)
         \/ Model(i) \/ Final(i) \/ PushBack(i) \/ Accepted(i) \/ Block(i) \/ CodeStarts(i)
         \/ Claims(i) \/ CodeEnds(i) \/ Finish(i) \/ Done(i) \/ Hook(i) \/ End(i)
  PROVE  AInv'
<1>1. IsLoop(loops[i])
  BY DEF IInv, Typed
<1>2. CASE Mounts(i) \/ TakesWake(i) \/ LandJobs(i) \/ Done(i) \/ Hook(i)
  <2>1. /\ loops[i].pc \notin {"stopped", "begin", "admit"}
        /\ UNCHANGED <<sending, mounted, swap, ui, past, turns, fate>>
    BY <1>2 DEF Mounts, TakesWake, LandJobs, Done, Hook, jobVars, uiVars
  <2>2. \E pc \in Pcs \ {"stopped", "begin", "admit"} : Goes(i, pc)
    BY <1>2 DEF Mounts, TakesWake, LandJobs, Done, Hook, Pcs
  <2> QED BY <2>1, <2>2, CalmPc, NothingSent
<1>3. CASE Step(i) \/ Final(i) \/ Block(i) \/ Finish(i)
  <2>1. /\ loops[i].pc \notin {"stopped", "begin", "admit"}
        /\ UNCHANGED <<sending, mounted, swap, ui, past>>
    BY <1>3 DEF Step, Final, Block, Finish, jobVars, uiVars
  <2>2. \/ \E pc \in Pcs \ {"stopped", "begin", "admit"} : Goes(i, pc)
        \/ Becomes(i, NextStep(i))
    BY <1>3 DEF Step, Final, Block, Finish, Pcs
  <2>3. AsSent /\ CancelsStay
    BY <1>3, SteersLand, NothingSent DEF Step, Final, Block, Finish
  <2> QED BY <2>1, <2>2, <2>3, CalmPc, CalmNextStep
<1>4. CASE CodeEnds(i) \/ PushBack(i)
  <2>1. /\ loops[i].pc \notin {"stopped", "begin", "admit"}
        /\ UNCHANGED <<sending, mounted, swap, ui, past, turns, fate>>
    BY <1>4 DEF CodeEnds, PushBack, jobVars, uiVars
  <2>2. \/ \E pc \in Pcs \ {"stopped", "begin", "admit"} : Goes(i, pc)
        \/ Becomes(i, NextStep(i)) \/ Becomes(i, [NextStep(i) EXCEPT !.nudges = @ + 1])
    BY <1>4 DEF CodeEnds, PushBack, Pcs
  <2> QED BY <2>1, <2>2, CalmPc, CalmNextStep, NothingSent
<1>5. CASE Model(i) \/ Accepted(i)
  <2>1. /\ loops[i].pc \notin {"stopped", "begin", "admit"}
        /\ UNCHANGED <<sending, mounted, swap, ui, past, turns, fate>>
    BY <1>5 DEF Model, Accepted, jobVars, uiVars
  <2>2. ASSUME NEW pc \in {"close", "done"}, Becomes(i, [loops[i] EXCEPT !.pc = pc, !.hook = TRUE])
        PROVE  AInv'
    <3> DEFINE l == [loops[i] EXCEPT !.pc = pc, !.hook = TRUE]
    <3>1. /\ l.pc = pc /\ l.t = loops[i].t /\ l.sess = loops[i].sess
          /\ l.open = loops[i].open /\ l.gone = loops[i].gone /\ l.q = loops[i].q
      BY <1>1 DEF IsLoop, LoopFields
    <3> HIDE DEF l
    <3> QED BY <2>1, <2>2, <3>1, CalmGoes, NothingSent DEF l
  <2>3. \/ \E pc \in Pcs \ {"stopped", "begin", "admit"} : Goes(i, pc)
        \/ \E pc \in {"close", "done"} : Becomes(i, [loops[i] EXCEPT !.pc = pc, !.hook = TRUE])
    BY <1>5 DEF Model, Accepted, Pcs
  <2> QED BY <2>1, <2>2, <2>3, CalmPc, NothingSent
<1>6. CASE CodeStarts(i)
  <2>1. /\ loops[i].pc = "code" /\ UNCHANGED <<sending, mounted, swap, ui, past, turns, fate>>
    BY <1>6 DEF CodeStarts, StartJob, uiVars
  <2>2. PICK l : /\ Becomes(i, l) \/ (UNCHANGED loops /\ l = loops[i])
                 /\ l.pc \in {"code", "claim"} /\ l.t = loops[i].t /\ l.sess = loops[i].sess
                 /\ l.open = loops[i].open /\ l.gone = loops[i].gone /\ l.q = loops[i].q
    <3>1. CASE UNCHANGED loops
      BY <2>1, <3>1
    <3>2. ASSUME NEW j, Becomes(i, [loops[i] EXCEPT !.pc = "claim", !.claim = j])
          PROVE  \E l : /\ Becomes(i, l)
                 /\ l.pc \in {"code", "claim"} /\ l.t = loops[i].t /\ l.sess = loops[i].sess
                 /\ l.open = loops[i].open /\ l.gone = loops[i].gone /\ l.q = loops[i].q
      <4> DEFINE l == [loops[i] EXCEPT !.pc = "claim", !.claim = j]
      <4>1. /\ l.pc = "claim" /\ l.t = loops[i].t /\ l.sess = loops[i].sess
            /\ l.open = loops[i].open /\ l.gone = loops[i].gone /\ l.q = loops[i].q
        BY <1>1 DEF IsLoop, LoopFields
      <4> HIDE DEF l
      <4> QED BY <3>2, <4>1 DEF l
    <3> QED BY <1>6, <3>1, <3>2 DEF CodeStarts
  <2>3. CASE Becomes(i, l)
    BY <2>1, <2>2, <2>3, CalmGoes, NothingSent
  <2>4. CASE UNCHANGED loops
    BY <2>1, <2>4, AimSame
  <2> QED BY <2>2, <2>3, <2>4
<1>7. CASE Claims(i)
  <2> DEFINE l == [loops[i] EXCEPT !.pc = "code", !.claim = 0]
  <2>1. /\ loops[i].pc = "claim" /\ UNCHANGED <<sending, mounted, swap, ui, past, turns, fate>>
        /\ Becomes(i, l)
    BY <1>7 DEF Claims, uiVars
  <2>2. /\ l.pc = "code" /\ l.t = loops[i].t /\ l.sess = loops[i].sess
        /\ l.open = loops[i].open /\ l.gone = loops[i].gone /\ l.q = loops[i].q
    BY <1>1 DEF IsLoop, LoopFields
  <2> HIDE DEF l
  <2> QED BY <2>1, <2>2, CalmGoes, NothingSent
<1>8. CASE End(i)
  <2>1. /\ loops[i].pc = "end" /\ Goes(i, "idle")
        /\ UNCHANGED <<sending, mounted, swap, ui, past, fate>>
    BY <1>8 DEF End, uiVars, jobVars
  <2>2. AsSent
    BY <2>1 DEF AsSent
  <2>3. CancelsStay
    <3> DEFINE r == [Turn(i) EXCEPT !.installed = FALSE, !.cut = FALSE, !.gate = FALSE]
    <3>1. /\ loops[i].t \in 1 .. Len(turns) /\ IsTurn(Turn(i)) /\ Turn(i) = turns[loops[i].t]
          /\ IsSeq(turns)
      BY DEF IInv, Typed, Turn
    <3>2. r.pending = Turn(i).pending /\ ~r.installed
      BY <3>1 DEF IsTurn, TurnFields
    <3>3. TurnBecomes(loops[i].t, r)
      BY <1>8 DEF End
    <3> HIDE DEF r
    <3>4. /\ Len(turns') = Len(turns) /\ turns'[loops[i].t] = r
          /\ \A u \in 1 .. Len(turns) : u # loops[i].t => turns'[u] = turns[u]
      BY <3>1, <3>3, TurnSet
    <3> QED BY <3>1, <3>2, <3>4 DEF CancelsStay
  <2> QED BY <2>1, <2>2, <2>3, CalmPc DEF Pcs
<1> QED BY <1>2, <1>3, <1>4, <1>5, <1>6, <1>7, <1>8

LEMMA AimInStops ==
  ASSUME IInv, AInv, NEW i \in 1 .. Len(loops), Stops(i) PROVE AInv'
<1> DEFINE l == [loops[i] EXCEPT !.pc = "stopped"]
<1>1. /\ IsLoop(loops[i]) /\ loops[i].pc = "idle"
      /\ loops[i].gone \/ (~loops[i].open /\ loops[i].q = <<>>)
  BY DEF IInv, Typed, Stops
<1>2. /\ l.pc = "stopped" /\ l.t = loops[i].t /\ l.sess = loops[i].sess
      /\ l.open = loops[i].open /\ l.gone = loops[i].gone /\ l.q = loops[i].q
  BY <1>1 DEF IsLoop, LoopFields
<1>3. Becomes(i, l) /\ UNCHANGED <<sending, mounted, swap, ui, past, turns, fate>>
  BY DEF Stops, Goes, jobVars, uiVars
<1> HIDE DEF l
<1>4. \A n \in Lines : Keeps(i, n)' <=> Keeps(i, n)
  BY <1>1, <1>2, <1>3, KeepsAll DEF IInv
<1>5. Calmly(i, l)
  BY <1>1, <1>2, <1>3, <1>4, NothingSent DEF Calmly
<1> QED BY <1>5, CalmlyKept

LEMMA AimInWakeTakes ==
  ASSUME IInv, AInv, NEW i \in 1 .. Len(loops), WakeTakes(i) PROVE AInv'
<1> DEFINE pc == IF Taken(mounted) = <<>> THEN "idle" ELSE "begin"
           l == [loops[i] EXCEPT !.pc = pc, !.cur = Wakes, !.news = Taken(mounted)]
<1>1. IsLoop(loops[i]) /\ loops[i].pc = "woken"
  BY DEF IInv, Typed, WakeTakes
<1>2. /\ l.pc \in {"idle", "begin"} /\ l.t = loops[i].t /\ l.sess = loops[i].sess
      /\ l.open = loops[i].open /\ l.gone = loops[i].gone /\ l.q = loops[i].q /\ l.cur = Wakes
  BY <1>1 DEF IsLoop, LoopFields
<1>3. Becomes(i, l) /\ UNCHANGED <<sending, mounted, swap, ui, past, turns, fate>>
  BY DEF WakeTakes, uiVars
<1> HIDE DEF l
<1>4. \A n \in Lines : Keeps(i, n)' <=> Keeps(i, n)
  BY <1>1, <1>2, <1>3, KeepsAll DEF IInv
<1>5. Calmly(i, l)
  BY <1>1, <1>2, <1>3, <1>4, NothingSent DEF Calmly
<1> QED BY <1>5, CalmlyKept

(* The line it takes it keeps as its prompt.                               *)
LEMMA AimInTakesLine ==
  ASSUME IInv, AInv, NEW i \in 1 .. Len(loops), TakesLine(i) PROVE AInv'
<1> DEFINE l == [loops[i] EXCEPT !.pc = "begin", !.cur = Head(loops[i].q), !.q = Tail(@)]
<1>1. /\ IsLoop(loops[i]) /\ loops[i].pc = "idle" /\ loops[i].q \in Seq(Lines)
      /\ loops[i].q # <<>>
  BY DEF IInv, Typed, TakesLine, IsLoop
<1>2. /\ l.pc = "begin" /\ l.t = loops[i].t /\ l.sess = loops[i].sess
      /\ l.open = loops[i].open /\ l.gone = loops[i].gone
      /\ l.q = Tail(loops[i].q) /\ l.cur = Head(loops[i].q)
  BY <1>1 DEF IsLoop, LoopFields
<1>3. Becomes(i, l) /\ UNCHANGED <<sending, mounted, swap, ui, past, turns, fate>>
  BY DEF TakesLine, jobVars, uiVars
<1> HIDE DEF l
<1>4. loops'[i] = l
  BY <1>3, LoopSet DEF IInv, Typed
<1>5. ASSUME NEW n \in Lines PROVE Keeps(i, n)' <=> Keeps(i, n)
  <2> DEFINE q == loops[i].q
  <2>1. /\ Len(l.q) = Len(q) - 1 /\ Len(q) \in Nat /\ Len(q) >= 1 /\ l.cur = q[1] /\ l.cur \in Lines
        /\ \A k \in 1 .. Len(q) - 1 : l.q[k] = q[k + 1]
    BY <1>1, <1>2
  <2> HIDE DEF q
  <2>2. l.cur # Wakes
    <3>1. Wakes \notin Lines
      BY DEF Wakes, Lines
    <3> QED BY <2>1, <3>1
  <2>3. Keeps(i, n)' <=> (\E k \in 1 .. Len(l.q) : l.q[k] = n) \/ l.cur = n
    BY <1>2, <1>4, <2>2 DEF Keeps, Prompt
  <2>4. Keeps(i, n) <=> \E k \in 1 .. Len(q) : q[k] = n
    BY <1>1 DEF Keeps, Prompt, q
  <2>5. ASSUME NEW k \in 1 .. Len(q), q[k] = n PROVE (\E m \in 1 .. Len(l.q) : l.q[m] = n) \/ l.cur = n
    <3>1. CASE k = 1
      BY <2>1, <2>5, <3>1
    <3>2. CASE k # 1
      <4>1. k - 1 \in 1 .. Len(q) - 1 /\ l.q[k - 1] = q[k]
        BY <2>1, <3>2
      <4> QED BY <2>1, <2>5, <4>1
    <3> QED BY <3>1, <3>2
  <2>6. ASSUME NEW k \in 1 .. Len(l.q), l.q[k] = n PROVE \E m \in 1 .. Len(q) : q[m] = n
    <3>1. k + 1 \in 1 .. Len(q) /\ q[k + 1] = n
      BY <2>1, <2>6
    <3> QED BY <3>1
  <2>7. l.cur = n => \E m \in 1 .. Len(q) : q[m] = n
    <3>1. 1 \in 1 .. Len(q)
      BY <2>1
    <3> QED BY <2>1, <3>1
  <2> QED BY <2>3, <2>4, <2>5, <2>6, <2>7
<1>6. Calmly(i, l)
  BY <1>1, <1>2, <1>3, <1>5, NothingSent DEF Calmly
<1> QED BY <1>6, CalmlyKept

(* The cancel that waited is for this turn, or for a line still to come.   *)
LEMMA AimInBegin ==
  ASSUME IInv, NInv, AInv, NEW i \in 1 .. Len(loops), Begin(i) PROVE AInv'
<1> DEFINE l == [loops[i] EXCEPT !.pc = "admit", !.steps = 0, !.nudges = 0, !.hook = FALSE]
           r == Installed(Turn(i))
<1>t. PICK t : t = loops[i].t
  OBVIOUS
<1>1. /\ IsLoop(loops[i]) /\ loops[i].pc = "begin" /\ t \in 1 .. Len(turns)
      /\ IsTurn(turns[t]) /\ Turn(i) = turns[t]
  BY <1>t DEF IInv, Typed, Begin, Turn
<1>2. /\ l.pc = "admit" /\ l.t = t /\ l.sess = loops[i].sess /\ l.open = loops[i].open
      /\ l.gone = loops[i].gone /\ l.q = loops[i].q /\ l.cur = loops[i].cur
  BY <1>1, <1>t DEF IsLoop, LoopFields
<1>3. ~r.pending
  BY <1>1 DEF IsTurn, TurnFields, Installed
<1>4. /\ Becomes(i, l) /\ TurnBecomes(t, r)
      /\ UNCHANGED <<sending, mounted, swap, ui, fate>>
  BY <1>t DEF Begin, jobVars, uiVars
<1>5. /\ past'.aim = past.aim
      /\ past'.misfired = (past.misfired \/ (Turn(i).pending /\ loops[i].cur \notin past.aim
                             /\ \A n \in Lines \cap past.aim : fate[n] # "sent"))
  BY DEF Begin, NInv, NewsTyped
<1>6. ~past'.misfired
  <2> SUFFICES ASSUME turns[t].pending
               PROVE  \/ loops[i].cur \in past.aim
                      \/ \E n \in Lines \cap past.aim : fate[n] = "sent"
    BY <1>1, <1>5 DEF AInv
  <2>1. Wakes \in past.aim /\ loops[i].cur \in Lines \cup {Wakes}
    BY <1>1 DEF AInv, PendingAimed, IsLoop
  <2>2. loops[i].cur # Wakes => Keeps(i, loops[i].cur)
    BY <1>1 DEF Keeps, Prompt
  <2>3. CASE t # Now
    BY <1>1, <1>t, <2>1, <2>2, <2>3 DEF AInv, PendingAimed
  <2>4. CASE t = Now
    <3>1. ASSUME NEW k \in 1 .. Len(loops), loops[k].pc = "begin" PROVE k = i
      BY <1>1, <3>1, Alone DEF IInv
    <3> QED BY <2>1, <2>4, <3>1 DEF AInv, PendingAimed
  <2> QED BY <2>3, <2>4
<1> HIDE DEF l, r
<1>7. /\ IsSeq(loops) /\ IsSeq(loops') /\ Len(loops') = Len(loops) /\ loops'[i] = l
      /\ \A k \in 1 .. Len(loops) : k # i => loops'[k] = loops[k]
  BY <1>4, LoopSet DEF IInv, Typed
<1>8. /\ Len(turns') = Len(turns) /\ turns'[t] = r
      /\ \A u \in 1 .. Len(turns) : u # t => turns'[u] = turns[u]
  BY <1>1, <1>4, TurnSet DEF IInv, Typed
<1>9. \A k \in 1 .. Len(loops) : /\ loops'[k].t = loops[k].t /\ loops'[k].sess = loops[k].sess
                                 /\ loops'[k].open = loops[k].open
                                 /\ loops'[k].gone = loops[k].gone
                                 /\ loops'[k].q = loops[k].q /\ loops'[k].cur = loops[k].cur
                                 /\ (loops'[k].pc = "stopped" <=> loops[k].pc = "stopped")
  BY <1>1, <1>2, <1>7, <1>t
<1>10. /\ Latest \in 1 .. Len(loops) /\ Latest' = Latest /\ Now' = Now
  BY <1>7, <1>9 DEF Latest, Now, IInv, Typed, IsSeq
<1>11. \A k \in 1 .. Len(loops) : \A n \in Lines : Keeps(k, n)' <=> Keeps(k, n)
  <2>1. \A k \in 1 .. Len(loops) : Prompt(k)' <=> Prompt(k)
    BY <1>1, <1>2, <1>7, <1>9 DEF Prompt
  <2> QED BY <1>9, <2>1 DEF Keeps
<1>12. \A n \in Lines : Toward(n)' <=> Toward(n)
  BY <1>4, <1>7, <1>9, <1>10, <1>11 DEF Toward
<1>13. SentKept' /\ TurnsInOrder' /\ StoppedEmpty'
  BY <1>4, <1>7, <1>9, <1>11 DEF AInv, SentKept, TurnsInOrder, StoppedEmpty
<1>14. Attached'
  BY <1>4, <1>9, <1>10 DEF AInv, Attached
<1>15. RunningHasLine'
  BY <1>4, <1>7, <1>9, <1>10, <1>12 DEF AInv, RunningHasLine
<1>16. PendingAimed'
  <2>1. \A u \in 1 .. Len(turns') : turns'[u].pending => ~turns'[u].installed /\ Wakes \in past'.aim
    BY <1>3, <1>5, <1>8 DEF AInv, PendingAimed
  <2>2. ASSUME NEW k \in 1 .. Len(loops), loops'[k].t # Now', Turn(k)'.pending,
               NEW n \in Lines, Keeps(k, n)'
        PROVE  n \in past'.aim
    <3>1. loops[k].t # t /\ Turn(k).pending
      BY <1>3, <1>8, <1>9, <2>2 DEF Turn, IInv, Typed
    <3> QED BY <1>5, <1>9, <1>10, <1>11, <2>2, <3>1 DEF AInv, PendingAimed
  <2>3. ASSUME turns'[Now'].pending
        PROVE  \/ Lines \subseteq past'.aim
               \/ \E n \in Lines \cap past'.aim : fate'[n] = "sent" /\ Toward(n)'
               \/ \E k \in 1 .. Len(loops) :
                    loops'[k].t = Now' /\ loops'[k].pc = "begin" /\ loops'[k].cur \in past'.aim
    <3>1. Now # t /\ turns[Now].pending
      <4>1. Now \in 1 .. Len(turns)
        BY <1>10 DEF Now, IInv, Typed
      <4> QED BY <1>3, <1>8, <1>10, <2>3, <4>1
    <3>2. CASE Lines \subseteq past.aim
      BY <1>5, <3>2
    <3>3. CASE \E n \in Lines \cap past.aim : fate[n] = "sent" /\ Toward(n)
      BY <1>4, <1>5, <1>12, <3>3
    <3>4. ASSUME NEW k \in 1 .. Len(loops), loops[k].t = Now, loops[k].pc = "begin",
                 loops[k].cur \in past.aim
          PROVE  loops'[k].t = Now' /\ loops'[k].pc = "begin" /\ loops'[k].cur \in past'.aim
      BY <1>5, <1>7, <1>10, <1>t, <3>1, <3>4
    <3> QED BY <3>1, <3>2, <3>3, <3>4 DEF AInv, PendingAimed
  <2> QED BY <1>7, <2>1, <2>2, <2>3 DEF PendingAimed
<1> QED BY <1>6, <1>13, <1>14, <1>15, <1>16 DEF AInv

(* Its prompt is recorded, cut or blocked, and no other line.              *)
LEMMA AimInAdmit ==
  ASSUME IInv, NInv, AInv, NEW i \in 1 .. Len(loops), Admit(i) PROVE AInv'
<1>c. PICK cur : cur = loops[i].cur
  OBVIOUS
<1>1. /\ IsLoop(loops[i]) /\ loops[i].pc = "admit" /\ cur \in Lines \cup {Wakes}
      /\ Wakes \notin Lines
  <2>1. Wakes \notin Lines
    BY DEF Wakes, Lines
  <2> QED BY <1>c, <2>1 DEF IInv, Typed, IsLoop, Admit
<1>2. PICK pc \in {"cancelled", "close", "step"} :
        Becomes(i, [loops[i] EXCEPT !.pc = pc, !.news = <<>>])
  BY DEF Admit
<1> DEFINE l == [loops[i] EXCEPT !.pc = pc, !.news = <<>>]
<1>3. /\ l.pc = pc /\ l.t = loops[i].t /\ l.sess = loops[i].sess /\ l.open = loops[i].open
      /\ l.gone = loops[i].gone /\ l.q = loops[i].q
  BY <1>1 DEF IsLoop, LoopFields
<1>4. /\ Becomes(i, l) /\ UNCHANGED <<turns, sending, mounted, swap, ui>>
  BY <1>2 DEF Admit, jobVars, uiVars
<1>5. past'.aim = past.aim /\ past'.misfired = past.misfired
  BY DEF Admit, NInv, NewsTyped
<1>6. /\ \A n \in Lines : n # cur => fate'[n] = fate[n]
      /\ cur \in Lines => fate'[cur] # "sent"
  <2>1. \/ \E why \in {"cut", "blocked"} :
             fate' = [n \in Lines |-> IF n \in {loops[i].cur} \ {Wakes} THEN why ELSE fate[n]]
        \/ Recorded({loops[i].cur} \ {Wakes})
    BY DEF Admit
  <2> QED BY <1>1, <1>c, <2>1 DEF Recorded
<1> HIDE DEF l
<1>7. /\ IsSeq(loops) /\ IsSeq(loops') /\ Len(loops') = Len(loops) /\ loops'[i] = l
      /\ \A k \in 1 .. Len(loops) : k # i => loops'[k] = loops[k]
  BY <1>4, LoopSet DEF IInv, Typed
<1>8. \A k \in 1 .. Len(loops) : /\ loops'[k].t = loops[k].t /\ loops'[k].sess = loops[k].sess
                                 /\ loops'[k].open = loops[k].open
                                 /\ loops'[k].gone = loops[k].gone /\ loops'[k].q = loops[k].q
                                 /\ (loops'[k].pc = "stopped" <=> loops[k].pc = "stopped")
  BY <1>1, <1>3, <1>7
<1>9. /\ Latest \in 1 .. Len(loops) /\ Latest' = Latest /\ Now' = Now
  BY <1>7, <1>8 DEF Latest, Now, IInv, Typed, IsSeq
<1>10. \A k \in 1 .. Len(loops) : \A n \in Lines :
         /\ Keeps(k, n)' => Keeps(k, n)
         /\ k # i \/ n # cur => (Keeps(k, n) => Keeps(k, n)')
  <2>1. \A k \in 1 .. Len(loops) : \A n \in Lines : k # i => (Keeps(k, n)' <=> Keeps(k, n))
    BY <1>7 DEF Keeps, Prompt
  <2>2. \A n \in Lines : Keeps(i, n)' => Keeps(i, n)
    BY <1>3, <1>7 DEF Keeps, Prompt
  <2>3. \A n \in Lines : n # cur /\ Keeps(i, n) => Keeps(i, n)'
    BY <1>3, <1>7, <1>c DEF Keeps, Prompt
  <2> QED BY <2>1, <2>2, <2>3
<1>11. ASSUME loops[i].t # Now, NEW n \in Lines, fate[n] = "sent", Toward(n)
       PROVE  fate'[n] = "sent" /\ Toward(n)'
  <2>1. n # cur
    <3> SUFFICES ASSUME n = cur PROVE FALSE
      OBVIOUS
    <3>1. Prompt(i) /\ loops[i].cur = n
      BY <1>1, <1>c DEF Prompt
    <3>2. /\ n \notin sending
          /\ \A j \in 1 .. Len(loops) : \A m \in 1 .. Len(loops[j].q) : loops[j].q[m] # n
      BY <3>1 DEF IInv, PlacedOnce, PromptOnce
    <3>3. PICK k \in 1 .. Len(loops) : loops[k].t = Now /\ Keeps(k, n)
      BY <1>11, <3>2 DEF Toward
    <3>4. Prompt(k)
      BY <3>2, <3>3 DEF Keeps
    <3>5. k = i
      BY <1>1, <3>4, Alone DEF IInv, Prompt
    <3> QED BY <1>11, <3>3, <3>5
  <2>2. Toward(n)'
    BY <1>4, <1>7, <1>8, <1>9, <1>10, <1>11, <2>1 DEF Toward
  <2> QED BY <1>6, <1>11, <2>1, <2>2
<1>12. SentKept'
  <2>1. ASSUME NEW n \in Lines, fate'[n] = "sent"
        PROVE  n \in sending' \/ \E k \in 1 .. Len(loops) : Keeps(k, n)'
    BY <1>4, <1>6, <1>10, <2>1 DEF AInv, SentKept
  <2> QED BY <1>7, <2>1 DEF SentKept
<1>13. TurnsInOrder' /\ StoppedEmpty'
  BY <1>4, <1>7, <1>8 DEF AInv, TurnsInOrder, StoppedEmpty
<1>14. Attached'
  BY <1>4, <1>8, <1>9 DEF AInv, Attached
<1>15. RunningHasLine'
  <2> SUFFICES ASSUME swap.to = NoSession, ui.running,
                      NEW k \in 1 .. Len(loops), loops[k].t # Now, loops[k].pc # "stopped"
               PROVE  \E n \in Lines : fate'[n] = "sent" /\ Toward(n)'
    BY <1>4, <1>7, <1>8, <1>9 DEF RunningHasLine
  <2>1. loops[i].t # Now
    <3> SUFFICES ASSUME loops[i].t = Now PROVE FALSE
      OBVIOUS
    <3>1. k > i
      BY <1>1 DEF IInv, MountsInOrder, Typed, IsSeq
    <3>2. loops[i].t <= loops[k].t /\ (k # Latest => loops[k].t <= loops[Latest].t)
      BY <1>9, <3>1 DEF AInv, TurnsInOrder, Latest
    <3>3. loops[i].t \in Int /\ loops[k].t \in Int /\ loops[Latest].t \in Int
      BY <1>9 DEF IInv, Typed, IsSeq
    <3> QED BY <3>2, <3>3 DEF Now
  <2>2. PICK n \in Lines : fate[n] = "sent" /\ Toward(n)
    BY DEF AInv, RunningHasLine
  <2> QED BY <1>11, <2>1, <2>2
<1>16. PendingAimed'
  <2>1. \A u \in 1 .. Len(turns') : turns'[u].pending => ~turns'[u].installed /\ Wakes \in past'.aim
    BY <1>4, <1>5 DEF AInv, PendingAimed
  <2>2. ASSUME NEW k \in 1 .. Len(loops), loops'[k].t # Now', Turn(k)'.pending,
               NEW n \in Lines, Keeps(k, n)'
        PROVE  n \in past'.aim
    <3>1. Turn(k).pending /\ Keeps(k, n) /\ loops[k].t # Now
      BY <1>4, <1>8, <1>9, <1>10, <2>2 DEF Turn
    <3> QED BY <1>5, <3>1 DEF AInv, PendingAimed
  <2>3. ASSUME turns'[Now'].pending
        PROVE  \/ Lines \subseteq past'.aim
               \/ \E n \in Lines \cap past'.aim : fate'[n] = "sent" /\ Toward(n)'
               \/ \E k \in 1 .. Len(loops) :
                    loops'[k].t = Now' /\ loops'[k].pc = "begin" /\ loops'[k].cur \in past'.aim
    <3>1. turns[Now].pending
      BY <1>4, <1>9, <2>3
    <3>2. loops[i].t # Now
      <4>1. Turn(i).installed /\ loops[i].t \in 1 .. Len(turns)
        BY <1>1 DEF IInv, TurnsShared, InTurn, Typed
      <4> QED BY <3>1, <4>1 DEF AInv, PendingAimed, Turn
    <3>3. CASE Lines \subseteq past.aim
      BY <1>5, <3>3
    <3>4. CASE \E n \in Lines \cap past.aim : fate[n] = "sent" /\ Toward(n)
      BY <1>5, <1>11, <3>2, <3>4
    <3>5. ASSUME NEW k \in 1 .. Len(loops), loops[k].t = Now, loops[k].pc = "begin",
                 loops[k].cur \in past.aim
          PROVE  loops'[k].t = Now' /\ loops'[k].pc = "begin" /\ loops'[k].cur \in past'.aim
      BY <1>1, <1>5, <1>7, <1>9, <3>5
    <3> QED BY <3>1, <3>3, <3>4, <3>5 DEF AInv, PendingAimed
  <2> QED BY <1>7, <2>1, <2>2, <2>3 DEF PendingAimed
<1> QED BY <1>5, <1>12, <1>13, <1>14, <1>15, <1>16 DEF AInv

----------------------------------------------------------------------------
(* The terminal.                                                           *)

LEMMA AimInTypes ==
  ASSUME IInv, AInv, NEW n \in Lines, Types(n) PROVE AInv'
<1>1. /\ UNCHANGED <<mounted, loops, swap, past>> /\ fate[n] = "none"
      /\ \A i \in 1 .. Len(loops) : loops[i].gone => swap'.pc \in {"wait", "drain", "over"}
  BY DEF Types, jobVars, AInv, StoppedEmpty
<1>2. CASE /\ TurnBecomes(ui.t, [turns[ui.t] EXCEPT !.steers = Append(@, n)])
           /\ fate' = [fate EXCEPT ![n] = "steers"] /\ UNCHANGED <<ui, sending>>
  <2>1. AsSent
    BY <1>1, <1>2 DEF AsSent, IInv, Typed
  <2>2. CancelsStay
    <3> DEFINE r == [turns[ui.t] EXCEPT !.steers = Append(@, n)]
    <3>1. /\ ui.t \in 1 .. Len(turns) /\ IsTurn(turns[ui.t]) /\ IsSeq(turns)
      BY DEF IInv, Typed
    <3>2. r.pending = turns[ui.t].pending /\ r.installed = turns[ui.t].installed
      BY <3>1 DEF IsTurn, TurnFields
    <3> HIDE DEF r
    <3>4. /\ Len(turns') = Len(turns) /\ turns'[ui.t] = r
          /\ \A u \in 1 .. Len(turns) : u # ui.t => turns'[u] = turns[u]
      BY <1>2, <3>1, TurnSet DEF r
    <3> QED BY <3>1, <3>2, <3>4 DEF CancelsStay
  <2>3. Attached'
    BY <1>1, <1>2 DEF AInv, Attached, Now, Latest
  <2>4. RunningHasLine'
    BY <1>1, <1>2, <2>1 DEF AInv, RunningHasLine, Toward, Keeps, Prompt, Now, Latest, AsSent
  <2> QED BY <1>1, <1>2, <2>1, <2>2, <2>3, <2>4, AimStill
<1>3. CASE Submits(n) /\ fate' = [fate EXCEPT ![n] = "sent"] /\ UNCHANGED turns
  <2>1. /\ fate'[n] = "sent" /\ n \in sending' /\ sending \subseteq sending'
        /\ \A m \in Lines : m # n => fate'[m] = fate[m]
    BY <1>3 DEF Submits, IInv, Typed
  <2>2. \A i : \A m : Keeps(i, m)' <=> Keeps(i, m)
    BY <1>1 DEF Keeps, Prompt
  <2>3. \A m : Toward(m) => Toward(m)'
    BY <1>1, <2>1, <2>2 DEF Toward, Now, Latest
  <2>4. SentKept' /\ TurnsInOrder' /\ StoppedEmpty'
    BY <1>1, <2>1, <2>2 DEF AInv, SentKept, TurnsInOrder, StoppedEmpty
  <2>5. Attached'
    <3>1. /\ ui'.at = ui.at /\ ui'.t = ui.t /\ ui'.running
          /\ ui'.queued = IF ui.running THEN ui.queued + 1 ELSE ui.queued
      BY <1>3 DEF Submits, IInv, Typed
    <3> QED BY <1>1, <3>1 DEF AInv, Attached, Now, Latest
  <2>6. RunningHasLine'
    BY <2>1 DEF RunningHasLine, Toward
  <2>7. PendingAimed'
    <3>1. UNCHANGED <<Now, turns>>
      BY <1>1, <1>3 DEF Now, Latest
    <3>2. ASSUME turns[Now].pending
          PROVE  \/ Lines \subseteq past.aim
                 \/ \E m \in Lines \cap past.aim : fate'[m] = "sent" /\ Toward(m)'
                 \/ \E k \in 1 .. Len(loops) :
                      loops[k].t = Now /\ loops[k].pc = "begin" /\ loops[k].cur \in past.aim
      BY <1>1, <2>1, <2>3, <3>2 DEF AInv, PendingAimed
    <3>3. \A k : Turn(k)' = Turn(k)
      BY <1>1, <1>3 DEF Turn
    <3> QED BY <1>1, <2>2, <3>1, <3>2, <3>3 DEF AInv, PendingAimed
  <2> QED BY <1>1, <2>4, <2>5, <2>6, <2>7 DEF AInv
<1> QED BY <1>2, <1>3 DEF Types, SteerFails

LEMMA AimInSends ==
  ASSUME IInv, AInv, NEW n \in Lines, Sends(n) PROVE AInv'
<1>i. PICK i : i = ui.at
  OBVIOUS
<1> DEFINE l == [loops[i] EXCEPT !.q = Append(@, n)]
<1>1. /\ i \in 1 .. Len(loops) /\ i = Latest /\ IsLoop(loops[i]) /\ swap.pc = "none"
      /\ n \in sending /\ loops[i].open /\ loops[i].q \in Seq(Lines)
  BY <1>i DEF Sends, IInv, Typed, IsSeq, AInv, Attached, IsLoop
<1>2. /\ l.pc = loops[i].pc /\ l.t = loops[i].t /\ l.sess = loops[i].sess
      /\ l.open = loops[i].open /\ l.gone = loops[i].gone /\ l.cur = loops[i].cur
      /\ l.q = Append(loops[i].q, n)
  BY <1>1 DEF IsLoop, LoopFields
<1>3. /\ Becomes(i, l) /\ sending' = sending \ {n}
      /\ UNCHANGED <<turns, ui, swap, fate, past, mounted>>
  BY <1>i DEF Sends, jobVars
<1> HIDE DEF l
<1>4. /\ IsSeq(loops) /\ IsSeq(loops') /\ Len(loops') = Len(loops) /\ loops'[i] = l
      /\ \A k \in 1 .. Len(loops) : k # i => loops'[k] = loops[k]
  BY <1>1, <1>3, LoopSet DEF IInv, Typed
<1>5. \A k \in 1 .. Len(loops) : /\ loops'[k].t = loops[k].t /\ loops'[k].sess = loops[k].sess
                                 /\ loops'[k].open = loops[k].open
                                 /\ loops'[k].gone = loops[k].gone
                                 /\ loops'[k].pc = loops[k].pc /\ loops'[k].cur = loops[k].cur
  BY <1>2, <1>4
<1>6. Latest' = Latest /\ Now' = Now
  BY <1>1, <1>4, <1>5 DEF Latest, Now
<1>7. /\ \A k \in 1 .. Len(loops) : \A m \in Lines : Keeps(k, m) => Keeps(k, m)'
      /\ \A k \in 1 .. Len(loops) : \A m \in Lines : k # i /\ Keeps(k, m)' => Keeps(k, m)
      /\ Keeps(i, n)'
  <2>1. \A k \in 1 .. Len(loops) : Prompt(k)' <=> Prompt(k)
    BY <1>5 DEF Prompt
  <2>2. /\ Len(l.q) = Len(loops[i].q) + 1 /\ Len(loops[i].q) \in Nat
        /\ \A k \in 1 .. Len(loops[i].q) : l.q[k] = loops[i].q[k]
        /\ l.q[Len(loops[i].q) + 1] = n
    BY <1>1, <1>2
  <2>3. \A k \in 1 .. Len(loops) : \A m \in Lines : k # i => (Keeps(k, m)' <=> Keeps(k, m))
    BY <1>4, <2>1 DEF Keeps
  <2>4. \A m \in Lines : Keeps(i, m) => Keeps(i, m)'
    BY <1>1, <1>4, <1>5, <2>1, <2>2 DEF Keeps
  <2>5. Keeps(i, n)'
    <3>1. Len(l.q) \in 1 .. Len(l.q) /\ l.q[Len(l.q)] = n
      BY <2>2
    <3> QED BY <1>4, <3>1 DEF Keeps
  <2> QED BY <2>3, <2>4, <2>5
<1>8. \A m \in Lines : Toward(m) => Toward(m)'
  <2> SUFFICES ASSUME NEW m \in Lines, Toward(m) PROVE Toward(m)'
    OBVIOUS
  <2>1. CASE m = n
    <3>1. loops'[i].t = Now'
      BY <1>1, <1>5, <1>6 DEF Now
    <3> QED BY <1>1, <1>4, <1>7, <2>1, <3>1 DEF Toward
  <2>2. CASE m # n
    BY <1>3, <1>4, <1>5, <1>6, <1>7, <2>2 DEF Toward
  <2> QED BY <2>1, <2>2
<1>9. SentKept'
  <2>1. ASSUME NEW m \in Lines, fate[m] = "sent"
        PROVE  m \in sending' \/ \E k \in 1 .. Len(loops) : Keeps(k, m)'
    <3>1. CASE m = n
      BY <1>1, <1>7, <3>1
    <3>2. CASE m # n
      BY <1>3, <1>7, <2>1, <3>2 DEF AInv, SentKept
    <3> QED BY <3>1, <3>2
  <2> QED BY <1>3, <1>4, <2>1 DEF SentKept
<1>10. TurnsInOrder'
  BY <1>4, <1>5 DEF AInv, TurnsInOrder
<1>11. StoppedEmpty'
  <2>1. ~loops[i].gone /\ loops[i].pc # "stopped"
    BY <1>1 DEF AInv, StoppedEmpty
  <2> QED BY <1>3, <1>4, <1>5, <2>1 DEF AInv, StoppedEmpty
<1>12. Attached'
  BY <1>1, <1>3, <1>5, <1>6 DEF AInv, Attached
<1>13. RunningHasLine'
  BY <1>3, <1>4, <1>5, <1>6, <1>8 DEF AInv, RunningHasLine
<1>14. PendingAimed'
  <2>1. \A k \in 1 .. Len(loops) : Turn(k)' = Turn(k)
    BY <1>3, <1>5 DEF Turn
  <2>2. ASSUME NEW k \in 1 .. Len(loops), loops'[k].t # Now', Turn(k)'.pending,
               NEW m \in Lines, Keeps(k, m)'
        PROVE  m \in past'.aim
    <3>1. loops[k].t # Now /\ k # i
      BY <1>1, <1>5, <1>6, <2>2 DEF Now
    <3> QED BY <1>3, <1>7, <2>1, <2>2, <3>1 DEF AInv, PendingAimed
  <2>3. ASSUME turns'[Now'].pending
        PROVE  \/ Lines \subseteq past'.aim
               \/ \E m \in Lines \cap past'.aim : fate'[m] = "sent" /\ Toward(m)'
               \/ \E k \in 1 .. Len(loops) :
                    loops'[k].t = Now' /\ loops'[k].pc = "begin" /\ loops'[k].cur \in past'.aim
    <3>1. turns[Now].pending
      BY <1>3, <1>6, <2>3
    <3>2. CASE \E m \in Lines \cap past.aim : fate[m] = "sent" /\ Toward(m)
      BY <1>3, <1>8, <3>2
    <3>3. ASSUME NEW k \in 1 .. Len(loops), loops[k].t = Now, loops[k].pc = "begin",
                 loops[k].cur \in past.aim
          PROVE  loops'[k].t = Now' /\ loops'[k].pc = "begin" /\ loops'[k].cur \in past'.aim
      BY <1>3, <1>5, <1>6, <3>3
    <3> QED BY <1>3, <3>1, <3>2, <3>3 DEF AInv, PendingAimed
  <2> QED BY <1>3, <1>4, <2>2, <2>3 DEF AInv, PendingAimed
<1> QED BY <1>3, <1>9, <1>10, <1>11, <1>12, <1>13, <1>14 DEF AInv

(* An Esc means what was typed; if that is over already, what comes next.  *)
LEMMA AimInEsc == ASSUME IInv, NInv, AInv, Esc PROVE AInv'
<1>1. /\ UNCHANGED <<loops, fate, sending, ui, swap, mounted>>
      /\ swap.to = NoSession /\ swap.pc \notin {"wait", "drain", "over"} /\ ui.running
  BY DEF Esc, UiFree, jobVars, uiVars
<1>2. past'.aim = Aim /\ past'.misfired = past.misfired
  BY DEF Esc, NInv, NewsTyped
<1>3. /\ ui.t = Now /\ Now \in 1 .. Len(turns) /\ IsTurn(turns[Now]) /\ IsSeq(turns)
      /\ Now' = Now
  BY <1>1 DEF AInv, Attached, IInv, Typed, Now, Latest
<1>4. /\ Len(turns') = Len(turns) /\ turns'[Now] = Cancelled(turns[Now])
      /\ \A u \in 1 .. Len(turns) : u # Now => turns'[u] = turns[u]
  <2>1. TurnBecomes(Now, Cancelled(turns[Now]))
    BY <1>3 DEF Esc, Cancels
  <2> QED BY <1>3, <2>1, TurnSet
<1>5. /\ turns'[Now].installed = turns[Now].installed
      /\ turns[Now].installed => (turns'[Now].pending <=> turns[Now].pending)
  BY <1>3, <1>4 DEF Cancelled, IsTurn, TurnFields
<1>6. /\ Wakes \in Aim
      /\ \A n \in Lines : fate[n] # "none" => n \in Aim
      /\ \/ Lines \subseteq Aim
         \/ \E n \in Lines : fate[n] = "sent"
         \/ \E i \in 1 .. Len(loops) : InTurn(i)
  BY DEF Aim, IInv, Typed, IsSeq
<1>7. \A i \in 1 .. Len(loops) : \A n \in Lines : Keeps(i, n) => fate[n] = "sent"
  BY DEF Keeps, IInv, PlacedOnce, QueuedOnce, PromptOnce
<1>8. \A i : \A n : Keeps(i, n)' <=> Keeps(i, n)
  BY <1>1 DEF Keeps, Prompt
<1>9. \A n : Toward(n)' <=> Toward(n)
  BY <1>1, <1>3, <1>8 DEF Toward
<1>10. SentKept' /\ TurnsInOrder' /\ StoppedEmpty' /\ Attached' /\ RunningHasLine'
  BY <1>1, <1>3, <1>8, <1>9 DEF AInv, SentKept, TurnsInOrder, StoppedEmpty, Attached,
                                RunningHasLine, Latest
<1>11. PendingAimed'
  <2>1. \A t \in 1 .. Len(turns') : turns'[t].pending => ~turns'[t].installed /\ Wakes \in past'.aim
    BY <1>2, <1>4, <1>5, <1>6 DEF AInv, PendingAimed
  <2>2. ASSUME NEW k \in 1 .. Len(loops), NEW n \in Lines, Keeps(k, n)' PROVE n \in past'.aim
    BY <1>2, <1>6, <1>7, <1>8, <2>2
  <2>3. ASSUME turns'[Now].pending
        PROVE  \/ Lines \subseteq Aim
               \/ \E n \in Lines \cap Aim : fate[n] = "sent" /\ Toward(n)
               \/ \E k \in 1 .. Len(loops) :
                    loops[k].t = Now /\ loops[k].pc = "begin" /\ loops[k].cur \in Aim
    <3>0. ~turns[Now].installed
      BY <1>3, <1>4, <1>5, <2>1, <2>3
    <3>1. ASSUME NEW i \in 1 .. Len(loops), loops[i].t # Now, loops[i].pc # "stopped"
          PROVE  \E n \in Lines \cap Aim : fate[n] = "sent" /\ Toward(n)
      BY <1>1, <1>6, <3>1 DEF AInv, RunningHasLine
    <3>2. ASSUME NEW n \in Lines, fate[n] = "sent"
          PROVE  \E m \in Lines \cap Aim : fate[m] = "sent" /\ Toward(m)
      <4>1. CASE Toward(n)
        BY <1>6, <3>2, <4>1
      <4>2. CASE ~Toward(n)
        <5>1. PICK i \in 1 .. Len(loops) : Keeps(i, n) /\ loops[i].t # Now
          BY <3>2, <4>2 DEF AInv, SentKept, Toward
        <5>2. loops[i].pc # "stopped"
          BY <1>1, <5>1 DEF AInv, StoppedEmpty, Keeps, Prompt
        <5> QED BY <3>1, <5>1, <5>2
      <4> QED BY <4>1, <4>2
    <3>3. ASSUME NEW i \in 1 .. Len(loops), InTurn(i), loops[i].t = Now
          PROVE  loops[i].pc = "begin" /\ loops[i].cur \in Aim
      <4>1. loops[i].pc = "begin"
        BY <3>0, <3>3 DEF IInv, TurnsShared, Turn
      <4>2. loops[i].cur = Wakes \/ (loops[i].cur \in Lines /\ fate[loops[i].cur] = "sent")
        BY <4>1 DEF IInv, Typed, IsLoop, PlacedOnce, PromptOnce, Prompt
      <4> QED BY <1>6, <4>1, <4>2
    <3>4. ASSUME NEW i \in 1 .. Len(loops), InTurn(i), loops[i].t # Now
          PROVE  \E n \in Lines \cap Aim : fate[n] = "sent" /\ Toward(n)
      BY <3>1, <3>4 DEF InTurn
    <3> QED BY <1>6, <3>2, <3>3, <3>4
  <2>4. turns'[Now'].pending =>
          \/ Lines \subseteq past'.aim
          \/ \E n \in Lines \cap past'.aim : fate'[n] = "sent" /\ Toward(n)'
          \/ \E k \in 1 .. Len(loops) :
               loops'[k].t = Now' /\ loops'[k].pc = "begin" /\ loops'[k].cur \in past'.aim
    BY <1>1, <1>2, <1>3, <1>9, <2>3
  <2> QED BY <1>1, <2>1, <2>2, <2>4 DEF PendingAimed
<1> QED BY <1>2, <1>10, <1>11 DEF AInv

LEMMA AimInSeesDone == ASSUME IInv, AInv, SeesDone PROVE AInv'
<1>1. /\ UNCHANGED <<loops, turns, fate, sending, swap, mounted, past>>
  BY DEF SeesDone, jobVars, loopVars
<1>2. /\ ui'.at = ui.at /\ ui'.t = ui.t /\ (ui'.running => ui.running)
      /\ ui'.queued \in Nat /\ (ui'.queued > 0 => ui'.running)
  <2>1. CASE ui' = ui
    BY <2>1 DEF AInv, Attached
  <2>2. CASE ui' = [ui EXCEPT !.running = ui.queued > 0, !.queued = IF @ > 0 THEN @ - 1 ELSE 0]
    <3>1. /\ ui'.at = ui.at /\ ui'.t = ui.t /\ (ui'.running <=> ui.queued > 0)
          /\ ui'.queued = IF ui.queued > 0 THEN ui.queued - 1 ELSE 0
      BY <2>2 DEF IInv, Typed
    <3> QED BY <3>1 DEF AInv, Attached
  <2> QED BY <2>1, <2>2 DEF SeesDone
<1>3. Attached'
  BY <1>1, <1>2 DEF AInv, Attached, Now, Latest
<1>4. RunningHasLine'
  BY <1>1, <1>2 DEF AInv, RunningHasLine, Toward, Keeps, Prompt, Now, Latest
<1>5. \A i \in 1 .. Len(loops) : loops[i].gone => swap'.pc \in {"wait", "drain", "over"}
  BY <1>1 DEF AInv, StoppedEmpty
<1> QED BY <1>1, <1>3, <1>4, <1>5, AimStill, NothingSent

----------------------------------------------------------------------------
(* A Reconcile, and the end of the process.                                *)

LEMMA AimInSwapMoves ==
  ASSUME IInv, AInv, SwapStarts \/ HistoryDown \/ HistoryUp \/ SwapAttaches PROVE AInv'
<1>1. UNCHANGED <<loops, turns, fate, sending, past>> /\ AsSent /\ CancelsStay
  BY NothingSent DEF SwapStarts, HistoryDown, HistoryUp, SwapAttaches, loopVars, uiVars
<1>2. \A i \in 1 .. Len(loops) : ~loops[i].gone
  BY DEF SwapStarts, HistoryDown, HistoryUp, SwapAttaches, AInv, StoppedEmpty
<1>3. CASE SwapStarts
  <2>1. /\ ui'.at = 0 /\ ui'.t = ui.t /\ ui'.running = ui.running /\ ui'.queued = ui.queued
        /\ swap'.pc = "close" /\ swap.pc = "none" /\ UNCHANGED mounted
    BY <1>3 DEF SwapStarts, IInv, Typed, jobVars
  <2>2. Attached'
    BY <1>1, <2>1 DEF AInv, Attached, Now, Latest
  <2>3. RunningHasLine'
    BY <1>1, <2>1 DEF AInv, Attached, RunningHasLine, Toward, Keeps, Prompt, Now, Latest
  <2> QED BY <1>1, <1>2, <2>2, <2>3, AimStill
<1>4. CASE HistoryDown \/ HistoryUp
  <2>1. /\ UNCHANGED ui /\ swap.pc \in {"down", "up"} /\ swap'.pc \in {"up", "apply"}
        /\ swap'.to = swap.to
    BY <1>4 DEF HistoryDown, HistoryUp, uiVars, IInv, Typed
  <2>2. Attached'
    BY <1>1, <2>1 DEF AInv, Attached, Now, Latest
  <2>3. RunningHasLine'
    BY <1>1, <2>1 DEF AInv, Attached, RunningHasLine
  <2> QED BY <1>1, <1>2, <2>2, <2>3, AimStill
<1>5. CASE SwapAttaches
  <2>1. /\ swap.pc = "attach" /\ swap'.pc = "none" /\ swap'.to = NoSession
        /\ ui'.at = Latest /\ ui'.t = Now /\ UNCHANGED mounted
        /\ \/ swap.to = NoSession /\ ui'.running = ui.running /\ ui'.queued = ui.queued
           \/ ui'.running = FALSE /\ ui'.queued = 0
    BY <1>5 DEF SwapAttaches, IInv, Typed, jobVars, Now
  <2>2. Attached'
    BY <1>1, <2>1 DEF AInv, Attached, Now, Latest
  <2>3. RunningHasLine'
    <3>1. \A m : Toward(m)' <=> Toward(m)
      BY <1>1 DEF Toward, Keeps, Prompt, Now, Latest
    <3>2. Now' = Now
      BY <1>1 DEF Now, Latest
    <3> QED BY <1>1, <2>1, <3>1, <3>2 DEF AInv, RunningHasLine
  <2> QED BY <1>1, <1>2, <2>2, <2>3, AimStill
<1> QED BY <1>3, <1>4, <1>5

LEMMA AimInQuitEnds ==
  ASSUME IInv, NInv, AInv, QuitStops \/ QuitRecords PROVE AInv'
<1>1. UNCHANGED <<loops, turns, fate, sending, ui, mounted>> /\ AsSent /\ CancelsStay
  BY NothingSent DEF QuitStops, QuitRecords, loopVars, uiVars
<1>2. /\ swap.pc \in {"wait", "drain"} /\ swap'.pc \in {"drain", "over"} /\ swap'.to = swap.to
  BY DEF QuitStops, QuitRecords, IInv, Typed
<1>3. past'.aim = past.aim /\ past'.misfired = past.misfired
  BY DEF QuitStops, QuitRecords, TimesOut, InTime, NInv, NewsTyped
<1>4. Attached'
  BY <1>1, <1>2 DEF AInv, Attached, Now, Latest
<1>5. RunningHasLine'
  BY <1>1, <1>2 DEF AInv, RunningHasLine, Toward, Keeps, Prompt, Now, Latest
<1> QED BY <1>1, <1>2, <1>3, <1>4, <1>5, AimStill

LEMMA AimInFlags == ASSUME IInv, AInv, SwapCloses \/ Quits PROVE AInv'
<1>n. PICK n : n = Latest
  OBVIOUS
<1>1. /\ n \in 1 .. Len(loops) /\ IsLoop(loops[n]) /\ IsSeq(loops)
  BY <1>n DEF IInv, Typed, IsSeq, Latest
<1>2. \A i \in 1 .. Len(loops) : ~loops[i].gone
  BY DEF SwapCloses, Quits, AInv, StoppedEmpty
<1>3. /\ UNCHANGED <<turns, fate, sending, mounted, past>> /\ swap'.to = swap.to
      /\ \/ swap.pc = "close" /\ swap'.pc \in {"apply", "down"} /\ UNCHANGED ui
            /\ (swap'.pc = "down" => swap.to # NoSession)
         \/ swap.pc = "none" /\ swap'.pc = "wait"
      /\ ui'.at = 0 /\ ui'.t = ui.t /\ ui'.running = ui.running /\ ui'.queued = ui.queued
  BY DEF SwapCloses, Quits, jobVars, uiVars, IInv, Typed, AInv, Attached
<1>4. PICK l : /\ Becomes(n, l) /\ l.t = loops[n].t /\ l.q = loops[n].q
               /\ l.cur = loops[n].cur /\ l.pc = loops[n].pc /\ l.sess = loops[n].sess
               /\ l.gone => swap'.pc = "wait"
  <2>1. CASE SwapCloses
    <3> DEFINE l == [loops[n] EXCEPT !.open = FALSE]
    <3>1. /\ l.t = loops[n].t /\ l.q = loops[n].q /\ l.cur = loops[n].cur
          /\ l.pc = loops[n].pc /\ l.sess = loops[n].sess /\ l.gone = loops[n].gone
      BY <1>1 DEF IsLoop, LoopFields
    <3>2. Becomes(n, l)
      BY <1>n, <2>1 DEF SwapCloses
    <3> HIDE DEF l
    <3> QED BY <1>1, <1>2, <3>1, <3>2
  <2>2. CASE Quits
    <3> DEFINE l == [loops[n] EXCEPT !.open = FALSE, !.gone = TRUE]
    <3>1. /\ l.t = loops[n].t /\ l.q = loops[n].q /\ l.cur = loops[n].cur
          /\ l.pc = loops[n].pc /\ l.sess = loops[n].sess
      BY <1>1 DEF IsLoop, LoopFields
    <3>2. Becomes(n, l) /\ swap'.pc = "wait"
      BY <1>n, <2>2 DEF Quits, IInv, Typed
    <3> HIDE DEF l
    <3> QED BY <3>1, <3>2
  <2> QED BY <2>1, <2>2
<1>5. /\ IsSeq(loops') /\ Len(loops') = Len(loops) /\ loops'[n] = l
      /\ \A k \in 1 .. Len(loops) : k # n => loops'[k] = loops[k]
  BY <1>1, <1>4, LoopSet
<1>6. \A k \in 1 .. Len(loops) : /\ loops'[k].t = loops[k].t /\ loops'[k].sess = loops[k].sess
                                 /\ loops'[k].q = loops[k].q /\ loops'[k].pc = loops[k].pc
                                 /\ loops'[k].cur = loops[k].cur
  BY <1>4, <1>5
<1>7. Latest' = Latest /\ Now' = Now /\ Now \in 1 .. Len(turns)
  BY <1>n, <1>1, <1>5, <1>6 DEF Latest, Now, IInv, Typed
<1>8. \A k \in 1 .. Len(loops) : \A m \in Lines : Keeps(k, m)' <=> Keeps(k, m)
  BY <1>6 DEF Keeps, Prompt
<1>9. \A m \in Lines : Toward(m)' <=> Toward(m)
  BY <1>3, <1>5, <1>6, <1>7, <1>8 DEF Toward
<1>10. SentKept' /\ TurnsInOrder'
  BY <1>3, <1>5, <1>6, <1>8 DEF AInv, SentKept, TurnsInOrder
<1>11. StoppedEmpty'
  <2>1. loops[n].pc # "stopped"
    BY <1>n, <1>1, <1>2, <1>3 DEF AInv, Attached, StoppedEmpty
  <2>2. ASSUME NEW k \in 1 .. Len(loops)
        PROVE  /\ loops'[k].gone => swap'.pc = "wait"
               /\ loops'[k].pc = "stopped" => ~loops'[k].open /\ loops'[k].q = <<>>
    <3>1. CASE k = n
      BY <1>4, <1>5, <2>1, <3>1
    <3>2. CASE k # n
      BY <1>2, <1>5, <3>2 DEF AInv, StoppedEmpty
    <3> QED BY <3>1, <3>2
  <2> QED BY <1>5, <2>2 DEF StoppedEmpty
<1>12. Attached'
  BY <1>n, <1>1, <1>3, <1>6, <1>7 DEF AInv, Attached
<1>13. RunningHasLine'
  BY <1>3, <1>5, <1>6, <1>7, <1>9 DEF AInv, RunningHasLine
<1>14. PendingAimed'
  <2>1. \A k \in 1 .. Len(loops) : Turn(k)' = Turn(k)
    BY <1>3, <1>6 DEF Turn
  <2>2. ASSUME turns[Now].pending
        PROVE  \/ Lines \subseteq past.aim
               \/ \E m \in Lines \cap past.aim : fate[m] = "sent" /\ Toward(m)'
               \/ \E k \in 1 .. Len(loops) :
                    loops'[k].t = Now /\ loops'[k].pc = "begin" /\ loops'[k].cur \in past.aim
    BY <1>6, <1>9, <2>2 DEF AInv, PendingAimed
  <2> QED BY <1>3, <1>5, <1>6, <1>7, <1>8, <2>1, <2>2 DEF AInv, PendingAimed
<1> QED BY <1>3, <1>10, <1>11, <1>12, <1>13, <1>14 DEF AInv

(* Another session's mount shares nothing, and the turn left is cut.       *)
LEMMA AimInApplies == ASSUME IInv, NInv, AInv, SwapApplies PROVE AInv'
<1>n. PICK n : n = Len(loops)
  OBVIOUS
<1>1. /\ n = Len(loops) /\ Latest = n /\ n \in 1 .. Len(loops) /\ IsLoop(loops[n]) /\ n \in Nat
      /\ Now = loops[n].t /\ Now \in 1 .. Len(turns) /\ IsSeq(loops) /\ IsSeq(turns)
  BY <1>n DEF IInv, Typed, IsSeq, Latest, Now
<1>2. /\ UNCHANGED <<ui, sending, fate, mounted>>
      /\ swap.pc = "apply" /\ swap'.pc = "attach" /\ swap'.to = swap.to /\ ui.at = 0
  BY DEF SwapApplies, jobVars, uiVars, IInv, Typed, AInv, Attached
<1>3. \/ /\ loops' = Append(loops, NewLoop(mounted, Now))
         /\ loops[n].sess = mounted /\ UNCHANGED <<turns, past>>
      \/ /\ loops' = Append([loops EXCEPT ![n] = [@ EXCEPT !.muted = TRUE]],
                            NewLoop(mounted, Len(turns) + 1))
         /\ loops[n].sess # mounted
         /\ turns' = Append([turns EXCEPT ![Now] = Cancelled(@)], NoTurns)
         /\ past' = [past EXCEPT !.aim = Lines \cup {Wakes}]
  BY <1>1 DEF SwapApplies
<1>4. PICK old, t : /\ loops' = Append(old, NewLoop(mounted, t))
                    /\ IsSeq(old) /\ Len(old) = n
                    /\ t = IF loops[n].sess = mounted THEN Now ELSE Len(turns) + 1
                    /\ \A k \in 1 .. n :
                         /\ old[k].t = loops[k].t /\ old[k].q = loops[k].q
                         /\ old[k].pc = loops[k].pc /\ old[k].cur = loops[k].cur
                         /\ old[k].open = loops[k].open /\ old[k].gone = loops[k].gone
  <2>1. CASE loops' = Append(loops, NewLoop(mounted, Now)) /\ loops[n].sess = mounted
    BY <1>1, <2>1
  <2>2. CASE /\ loops' = Append([loops EXCEPT ![n] = [@ EXCEPT !.muted = TRUE]],
                                NewLoop(mounted, Len(turns) + 1))
             /\ loops[n].sess # mounted
    <3> DEFINE l == [loops[n] EXCEPT !.muted = TRUE]
               old == [loops EXCEPT ![n] = l]
    <3>1. /\ l.t = loops[n].t /\ l.q = loops[n].q /\ l.pc = loops[n].pc
          /\ l.cur = loops[n].cur /\ l.open = loops[n].open /\ l.gone = loops[n].gone
      BY <1>1 DEF IsLoop, LoopFields
    <3>2. loops' = Append(old, NewLoop(mounted, Len(turns) + 1))
      BY <2>2
    <3> HIDE DEF l
    <3>3. /\ IsSeq(old) /\ Len(old) = n /\ old[n] = l
          /\ \A k \in 1 .. n : k # n => old[k] = loops[k]
      <4>1. IsSeq(loops) /\ n \in 1 .. Len(loops)
        BY <1>1
      <4>2. /\ IsSeq(old) /\ Len(old) = Len(loops) /\ old[n] = l
            /\ \A k \in 1 .. Len(loops) : k # n => old[k] = loops[k]
        BY <4>1, SeqSet
      <4> QED BY <1>n, <4>2
    <3> HIDE DEF old
    <3> QED BY <2>2, <3>1, <3>2, <3>3
  <2> QED BY <1>3, <2>1, <2>2
<1> DEFINE new == NewLoop(mounted, t)
<1>5. /\ new.q = <<>> /\ new.pc = "mount" /\ new.t = t /\ new.open /\ ~new.gone
      /\ new.sess = mounted
  BY DEF NewLoop
<1> HIDE DEF new
<1>6. /\ IsSeq(loops') /\ Len(loops') = n + 1 /\ loops'[n + 1] = new
      /\ \A k \in 1 .. n : loops'[k] = old[k]
  BY <1>4, SeqAppend DEF new
<1>7. \A k \in 1 .. n : /\ loops'[k].t = loops[k].t /\ loops'[k].q = loops[k].q
                        /\ loops'[k].pc = loops[k].pc /\ loops'[k].cur = loops[k].cur
                        /\ loops'[k].open = loops[k].open /\ loops'[k].gone = loops[k].gone
  BY <1>4, <1>6
<1>8. Latest' = n + 1 /\ Now' = t /\ \A k \in 1 .. n + 1 : k \in 1 .. n \/ k = n + 1
  BY <1>1, <1>5, <1>6 DEF Latest, Now
<1>9. /\ \A k \in 1 .. n : \A m \in Lines : Keeps(k, m)' <=> Keeps(k, m)
      /\ \A m \in Lines : ~Keeps(n + 1, m)'
  <2>1. \A k \in 1 .. n : \A m \in Lines : Keeps(k, m)' <=> Keeps(k, m)
    BY <1>7 DEF Keeps, Prompt
  <2>2. loops'[n + 1].q = <<>> /\ loops'[n + 1].pc = "mount"
    BY <1>5, <1>6
  <2>3. \A m \in Lines : ~Keeps(n + 1, m)'
    BY <2>2 DEF Keeps, Prompt
  <2> QED BY <2>1, <2>3
<1>10. SentKept'
  <2>1. ASSUME NEW m \in Lines, fate[m] = "sent"
        PROVE  m \in sending \/ \E k \in 1 .. n + 1 : Keeps(k, m)'
    <3>1. CASE m \in sending
      BY <3>1
    <3>2. ASSUME NEW k \in 1 .. n, Keeps(k, m) PROVE k \in 1 .. n + 1 /\ Keeps(k, m)'
      BY <1>1, <1>9, <3>2
    <3> QED BY <1>1, <2>1, <3>1, <3>2 DEF AInv, SentKept
  <2> QED BY <1>2, <1>6, <2>1 DEF SentKept
<1>11. TurnsInOrder'
  <2>1. \A k \in 1 .. n : loops[k].t <= t
    <3>1. \A k \in 1 .. n : loops[k].t \in Nat /\ loops[k].t <= Now /\ loops[k].t <= Len(turns)
      BY <1>1 DEF AInv, TurnsInOrder, IInv, Typed, IsSeq
    <3>2. Len(turns) \in Nat
      BY <1>1 DEF IsSeq
    <3> QED BY <1>4, <3>1, <3>2
  <2>2. ASSUME NEW i \in 1 .. n + 1, NEW k \in 1 .. n + 1, i < k
        PROVE  loops'[i].t <= loops'[k].t
    <3>1. i \in 1 .. n
      BY <1>1, <2>2
    <3>2. CASE k = n + 1
      BY <1>5, <1>6, <1>7, <2>1, <3>1, <3>2
    <3>3. CASE k \in 1 .. n
      BY <1>1, <1>7, <2>2, <3>1, <3>3 DEF AInv, TurnsInOrder
    <3> QED BY <1>8, <3>2, <3>3
  <2> QED BY <1>6, <2>2 DEF TurnsInOrder
<1>12. StoppedEmpty'
  BY <1>1, <1>2, <1>5, <1>6, <1>7, <1>8 DEF AInv, StoppedEmpty
<1>13. Attached'
  <2>1. swap.to = NoSession => loops[n].sess = mounted
    BY <1>1 DEF AInv, Attached
  <2>2. swap.to = NoSession => ui.t = Now'
    BY <1>4, <1>8, <2>1 DEF AInv, Attached
  <2>3. loops'[Latest'].open /\ loops'[Latest'].sess = mounted
    BY <1>5, <1>6, <1>8
  <2> QED BY <1>2, <2>2, <2>3 DEF AInv, Attached
<1>14. CASE loops[n].sess = mounted
  <2>1. UNCHANGED <<turns, past>> /\ t = Now /\ Now' = Now
    BY <1>3, <1>4, <1>8, <1>14
  <2>2. \A m \in Lines : Toward(m) => Toward(m)'
    <3> SUFFICES ASSUME NEW m \in Lines, Toward(m) PROVE Toward(m)'
      OBVIOUS
    <3>1. ASSUME NEW k \in 1 .. n, loops[k].t = Now, Keeps(k, m)
          PROVE  k \in 1 .. n + 1 /\ loops'[k].t = Now' /\ Keeps(k, m)'
      BY <1>1, <1>7, <1>9, <2>1, <3>1
    <3> QED BY <1>1, <1>2, <1>6, <3>1 DEF Toward
  <2>3. PendingAimed'
    <3>1. \A k \in 1 .. n : Turn(k)' = Turn(k)
      BY <1>7, <2>1 DEF Turn
    <3>2. ASSUME NEW k \in 1 .. n + 1, loops'[k].t # Now', Turn(k)'.pending,
                 NEW m \in Lines, Keeps(k, m)'
          PROVE  m \in past'.aim
      <4>1. k \in 1 .. n
        BY <1>8, <1>9, <3>2
      <4> QED BY <1>1, <1>7, <1>9, <2>1, <3>1, <3>2, <4>1 DEF AInv, PendingAimed
    <3>3. ASSUME turns[Now].pending
          PROVE  \/ Lines \subseteq past.aim
                 \/ \E m \in Lines \cap past.aim : fate[m] = "sent" /\ Toward(m)'
                 \/ \E k \in 1 .. n + 1 :
                      loops'[k].t = Now /\ loops'[k].pc = "begin" /\ loops'[k].cur \in past.aim
      <4>1. ASSUME NEW k \in 1 .. n, loops[k].t = Now, loops[k].pc = "begin",
                   loops[k].cur \in past.aim
            PROVE  /\ k \in 1 .. n + 1 /\ loops'[k].t = Now
                   /\ loops'[k].pc = "begin" /\ loops'[k].cur \in past.aim
        BY <1>1, <1>7, <4>1
      <4> QED BY <1>1, <1>2, <2>2, <3>3, <4>1 DEF AInv, PendingAimed
    <3>4. \A u \in 1 .. Len(turns') :
            turns'[u].pending => ~turns'[u].installed /\ Wakes \in past'.aim
      BY <2>1 DEF AInv, PendingAimed
    <3> QED BY <1>2, <1>6, <2>1, <3>2, <3>3, <3>4 DEF PendingAimed
  <2>4. RunningHasLine'
    <3>1. ASSUME NEW k \in 1 .. n + 1, loops'[k].t # Now', loops'[k].pc # "stopped"
          PROVE  k \in 1 .. n /\ loops[k].t # Now /\ loops[k].pc # "stopped"
      BY <1>5, <1>6, <1>7, <1>8, <2>1, <3>1
    <3> QED BY <1>1, <1>2, <1>6, <2>2, <3>1 DEF AInv, RunningHasLine
  <2> QED BY <1>10, <1>11, <1>12, <1>13, <2>1, <2>3, <2>4 DEF AInv
<1>15. CASE loops[n].sess # mounted
  <2>1. /\ turns' = Append([turns EXCEPT ![Now] = Cancelled(@)], NoTurns)
        /\ past' = [past EXCEPT !.aim = Lines \cup {Wakes}]
        /\ t = Len(turns) + 1 /\ Now' = t
    BY <1>3, <1>4, <1>8, <1>15
  <2>2. past'.aim = Lines \cup {Wakes} /\ past'.misfired = past.misfired
    BY <2>1 DEF NInv, NewsTyped
  <2>3. swap'.to # NoSession
    BY <1>1, <1>2, <1>15 DEF AInv, Attached
  <2>4. /\ Len(turns') = Len(turns) + 1 /\ turns'[Len(turns) + 1] = NoTurns
        /\ \A u \in 1 .. Len(turns) : turns'[u] = turns[u] \/ turns'[u] = Cancelled(turns[u])
    <3> DEFINE c == Cancelled(turns[Now])
               cut == [turns EXCEPT ![Now] = c]
    <3>1. /\ IsSeq(cut) /\ Len(cut) = Len(turns) /\ cut[Now] = c
          /\ \A u \in 1 .. Len(turns) : u # Now => cut[u] = turns[u]
      <4>1. IsSeq(turns) /\ Now \in 1 .. Len(turns)
        BY <1>1
      <4> HIDE DEF c
      <4> QED BY <4>1, SeqSet
    <3>2. turns' = Append(cut, NoTurns)
      BY <2>1
    <3> HIDE DEF cut
    <3>3. /\ Len(turns') = Len(cut) + 1 /\ turns'[Len(cut) + 1] = NoTurns
          /\ \A u \in 1 .. Len(cut) : turns'[u] = cut[u]
      BY <3>1, <3>2, SeqAppend
    <3> QED BY <3>1, <3>3
  <2>5. \A u \in 1 .. Len(turns') : turns'[u].pending => ~turns'[u].installed
    <3>1. ASSUME NEW u \in 1 .. Len(turns), turns'[u].pending PROVE ~turns'[u].installed
      <4>1. IsTurn(turns[u]) /\ (turns[u].pending => ~turns[u].installed)
        BY DEF IInv, Typed, AInv, PendingAimed
      <4>2. Cancelled(turns[u]).pending => ~Cancelled(turns[u]).installed
        BY <4>1 DEF Cancelled, IsTurn, TurnFields
      <4> QED BY <2>4, <3>1, <4>1, <4>2
    <3>2. ~NoTurns.pending
      BY DEF NoTurns
    <3>3. \A u \in 1 .. Len(turns') : u \in 1 .. Len(turns) \/ u = Len(turns) + 1
      BY <1>1, <2>4 DEF IsSeq
    <3> QED BY <2>4, <3>1, <3>2, <3>3
  <2>6. PendingAimed'
    BY <2>2, <2>5 DEF PendingAimed
  <2>7. RunningHasLine'
    BY <2>3 DEF RunningHasLine
  <2> QED BY <1>10, <1>11, <1>12, <1>13, <2>2, <2>6, <2>7 DEF AInv
<1> QED BY <1>14, <1>15

LEMMA AimStepKeeps == IInv /\ NInv /\ AInv /\ [Next]_vars => AInv'
<1> SUFFICES ASSUME IInv, NInv, AInv, [Next]_vars PROVE AInv'
  OBVIOUS
<1>1. ASSUME NEW i \in DOMAIN loops, LoopStep(i) PROVE AInv'
  <2>1. i \in 1 .. Len(loops)
    BY DEF IInv, Typed, IsSeq
  <2> QED BY <1>1, <2>1, AimInSmallSteps, AimInStops, AimInWakeTakes, AimInTakesLine,
             AimInBegin, AimInAdmit DEF LoopStep
<1>2. CASE SwapStep
  BY <1>2, AimInSwapMoves, AimInQuitEnds, AimInFlags, AimInApplies DEF SwapStep
<1>3. ASSUME NEW j \in JobIds, JobSteps(j) PROVE AInv'
  <2>1. UNCHANGED <<loops, turns, fate, sending, ui, swap, mounted, past>>
    BY <1>3 DEF JobSteps, JobStep, Matches, Exits, Publish, Record, NotifyAppends,
                NotifyWakes, loopVars, uiVars
  <2> QED BY <2>1, AimSame
<1>4. CASE UNCHANGED vars
  BY <1>4, AimSame DEF vars, jobVars, loopVars, uiVars
<1> QED BY <1>1, <1>2, <1>3, <1>4, AimInSends, AimInTypes, AimInEsc, AimInSeesDone,
           AimInSwapMoves, AimInFlags DEF Next, Runs

LEMMA AimInitHolds == Init => AInv
<1> SUFFICES ASSUME Init PROVE AInv
  OBVIOUS
<1> DEFINE l == [NewLoop(mounted, 1) EXCEPT !.pc = "idle"]
<1>1. /\ l.q = <<>> /\ l.pc = "idle" /\ l.t = 1 /\ l.open /\ ~l.gone /\ l.sess = mounted
  BY DEF NewLoop
<1>2. Len(loops) = 1 /\ loops[1] = l /\ Len(turns) = 1 /\ turns[1] = NoTurns
  BY DEF Init
<1> HIDE DEF l
<1>3. /\ ui = [at |-> 1, t |-> 1, sess |-> mounted, running |-> FALSE, queued |-> 0]
      /\ swap = [pc |-> "none", to |-> NoSession]
      /\ past = [dropped |-> {}, aim |-> {}, misfired |-> FALSE, late |-> FALSE]
      /\ \A n \in Lines : fate[n] = "none"
  BY DEF Init
<1>4. ~NoTurns.pending
  BY DEF NoTurns
<1>5. SentKept /\ TurnsInOrder /\ StoppedEmpty
  BY <1>1, <1>2, <1>3 DEF SentKept, TurnsInOrder, StoppedEmpty
<1>6. Attached /\ RunningHasLine
  BY <1>1, <1>2, <1>3 DEF Attached, RunningHasLine, Now, Latest
<1>7. PendingAimed
  <2>1. \A i \in 1 .. Len(loops) : Turn(i) = NoTurns
    BY <1>1, <1>2 DEF Turn
  <2>2. turns[Now] = NoTurns
    BY <1>1, <1>2 DEF Now, Latest
  <2> QED BY <1>2, <1>4, <2>1, <2>2 DEF PendingAimed
<1> QED BY <1>3, <1>5, <1>6, <1>7 DEF AInv

THEOREM AimInvariant == Spec => []AInv
<1>1. IInv /\ NInv /\ AInv /\ [Next]_vars => AInv'
  BY AimStepKeeps
<1> QED BY <1>1, AimInitHolds, Invariant, NewsInvariant, PTL DEF Spec

(* A cancel that came before the turn it is for has installed its own cuts *)
(* that turn, or one opened by notices: never a line typed after it, which *)
(* Begin would have recorded as a misfire (cancel.go:77-79).  At the Esc   *)
(* some line sent before it is still ahead, or the prompt about to begin   *)
(* is one, and whatever a session left still holds was meant too.          *)
THEOREM CancelsHit == Spec => []CancelHits
<1>1. AInv => CancelHits
  BY DEF AInv, CancelHits
<1> QED BY <1>1, AimInvariant, PTL
=============================================================================
